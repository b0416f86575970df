-------------------------------- MODULE Protoc --------------------------------
(***************************************************************************)
(* tools/protoc/main.go, which `make tools` runs to install the pinned     *)
(* protoc: the versioned directory, its .complete marker, the temporary    *)
(* directory it is unpacked in, and the symlink beside it.  A run may be   *)
(* killed between any two system calls, and started again.                 *)
(*                                                                         *)
(* A directory is the set of the files that are complete in it; a file     *)
(* that was cut short counts as missing.  Temporary directories have names *)
(* of their own and no run looks at another's, so a run's is part of its   *)
(* state and a killed run's is forgotten.                                  *)
(***************************************************************************)
EXTENDS Naturals

CONSTANTS
  Installer,    \* the runs that may be going on at the same time
  Release,      \* the files of the release under bin/ and include/
  Binary,       \* the one the link points at
  Absent,       \* no such directory
  MaxFaults     \* bound on kills, failed downloads and failed system calls

completeMarker == ".complete"

Whole == Release \cup {completeMarker}

ASSUME ProtocAssumption ==
  /\ Binary \in Release
  /\ completeMarker \notin Release
  /\ Absent # Whole
  /\ MaxFaults \in Nat

VARIABLES
  versioned,    \* the contents of <dest>/protoc-<version>, or Absent
  linked,       \* <dest>/protoc exists and points into it
  run,          \* run -> how far it is
  faults

installVars == <<versioned, linked, run, faults>>

Outcome == {"installed", "failed"}

(* pc    ready (not running), stat, remove, download, unpack, rename,      *)
(*       unlink, link, or how the last run ended                           *)
(* tmp   the contents of its temporary directory                           *)
(* hit   something went wrong in this run                                  *)
RunState ==
  [pc : {"ready", "stat", "remove", "download", "unpack", "rename", "unlink",
         "link"} \cup Outcome,
   tmp : SUBSET Whole, hit : BOOLEAN]

InstallTypeOK ==
  /\ versioned \in (SUBSET Whole) \cup {Absent}
  /\ linked \in BOOLEAN
  /\ run \in [Installer -> RunState]
  /\ faults \in 0..MaxFaults

Ready == [pc |-> "ready", tmp |-> {}, hit |-> FALSE]

(* Nothing is installed, or what an interrupted unpacking left.            *)
InstallInit ==
  /\ versioned \in (SUBSET Release) \cup {Absent}
  /\ linked = FALSE
  /\ run = [r \in Installer |-> Ready]
  /\ faults = 0

At(r, pc) == run[r].pc = pc

Advance(r, pc) == run' = [run EXCEPT ![r].pc = pc]

installed == versioned # Absent /\ completeMarker \in versioned

Check(r) ==
  /\ run[r].pc \in {"ready"} \cup Outcome
  /\ run' = [run EXCEPT ![r] =
       [Ready EXCEPT !.pc = IF installed THEN "unlink" ELSE "stat"]]
  /\ UNCHANGED <<versioned, linked, faults>>

(* Mutant of AfterStat: an incomplete directory is not cleared.            *)
KeepLeftovers == "download"

(* os.Stat: a directory that is there is left over.                        *)
AfterStat == IF versioned # Absent THEN "remove" ELSE "download"

Stat(r) ==
  /\ At(r, "stat")
  /\ Advance(r, AfterStat)
  /\ UNCHANGED <<versioned, linked, faults>>

(* os.RemoveAll, one file at a time in the order of the directory, then    *)
(* the directory; another run may have removed it already.                 *)
RemoveAll(r) ==
  /\ At(r, "remove")
  /\ \/ /\ versioned \notin {Absent, {}}
        /\ \E f \in versioned : versioned' = versioned \ {f}
        /\ UNCHANGED run
     \/ /\ versioned \in {Absent, {}}
        /\ versioned' = Absent
        /\ Advance(r, "download")
  /\ UNCHANGED <<linked, faults>>

(* download: the archive has the recorded checksum. *)
Download(r) ==
  /\ At(r, "download")
  /\ Advance(r, "unpack")
  /\ UNCHANGED <<versioned, linked, faults>>

(* unzip, a file at a time, into the temporary directory.                  *)
Unpack(r) ==
  /\ At(r, "unpack")
  /\ \E f \in Release \ run[r].tmp : run' = [run EXCEPT ![r].tmp = @ \cup {f}]
  /\ UNCHANGED <<versioned, linked, faults>>

(* Mutant of Unpacked: the marker is written first. *)
UnpackedAtOnce(r) == TRUE

Unpacked(r) == Release \subseteq run[r].tmp

(* chmod and the marker, once everything is unpacked.                      *)
Mark(r) ==
  /\ At(r, "unpack") /\ Unpacked(r)
  /\ run' = [run EXCEPT ![r].pc = "rename", ![r].tmp = @ \cup {completeMarker}]
  /\ UNCHANGED <<versioned, linked, faults>>

(* os.Rename moves the directory where there is none, and refuses one that *)
(* is there, empty or not; install removes its temporary directory then.   *)
Rename(r) ==
  /\ At(r, "rename")
  /\ LET free == versioned = Absent IN
     /\ versioned' = IF free THEN run[r].tmp ELSE versioned
     /\ run' = [run EXCEPT ![r].pc = IF free THEN "unlink" ELSE "failed",
                           ![r].tmp = {}]
  /\ UNCHANGED <<linked, faults>>

(* link: remove whatever is there ... *)
Unlink(r) ==
  /\ At(r, "unlink")
  /\ linked' = FALSE
  /\ Advance(r, "link")
  /\ UNCHANGED <<versioned, faults>>

(* ... and os.Symlink, which does not replace one another run has made.    *)
Link(r) ==
  /\ At(r, "link")
  /\ linked' = TRUE
  /\ Advance(r, IF linked THEN "failed" ELSE "installed")
  /\ UNCHANGED <<versioned, faults>>

Fault(r) ==
  /\ run[r].pc \notin {"ready"} \cup Outcome
  /\ faults < MaxFaults
  /\ faults' = faults + 1

(* The run is killed: what it did stays, its temporary directory is lost.  *)
Killed(r) ==
  /\ Fault(r)
  /\ run' = [run EXCEPT ![r] = Ready]
  /\ UNCHANGED <<versioned, linked>>

(* A download fails or has another checksum, or a system call fails: run   *)
(* returns the error, install removes its temporary directory.             *)
Errs(r) ==
  /\ Fault(r)
  /\ run' = [run EXCEPT ![r] = [pc |-> "failed", tmp |-> {}, hit |-> TRUE]]
  /\ UNCHANGED <<versioned, linked>>

InstallStep(r) ==
  \/ Check(r) \/ Stat(r) \/ RemoveAll(r) \/ Download(r) \/ Unpack(r) \/ Mark(r)
  \/ Rename(r) \/ Unlink(r) \/ Link(r)

InstallNext == \E r \in Installer : InstallStep(r) \/ Killed(r) \/ Errs(r)

InstallSpec == InstallInit /\ [][InstallNext]_installVars
-----------------------------------------------------------------------------
(* "it never leaves a half-written directory that later runs would accept": *)
(* a directory with the marker has every file, whenever runs were killed.  *)
AcceptedIsWhole == installed => versioned = Whole

(* Every earlier kill or failure is repaired: a run in which nothing goes  *)
(* wrong ends well, and then the link leads to a whole installation.  No   *)
(* run that follows takes the binary away under a link that is there.      *)
RepairsItself ==
  /\ \A r \in Installer :
       /\ At(r, "failed") => run[r].hit
       /\ At(r, "installed") => linked /\ versioned = Whole
  /\ linked => versioned # Absent /\ Binary \in versioned

(* What a run that goes on by itself knows of the directory at each step,  *)
(* and what an earlier one, killed anywhere, can have left.                *)
RunKnows(st) ==
  /\ st.pc \in {"stat", "remove", "download", "unpack", "rename"} => ~installed
  /\ st.pc \in {"download", "unpack", "rename"} => versioned = Absent
  /\ st.pc \in {"stat", "remove", "download"} => st.tmp = {}
  /\ st.pc = "unpack" => st.tmp \subseteq Release
  /\ st.pc = "rename" => st.tmp = Whole
  /\ st.pc \in {"unlink", "link", "installed"} => versioned = Whole
  /\ st.pc = "link" => ~linked
  /\ st.pc = "installed" => linked
  /\ st.pc = "failed" => st.hit

(* The inductive invariant behind the two properties, of one run at a time. *)
InstallInv ==
  /\ InstallTypeOK
  /\ AcceptedIsWhole
  /\ linked => versioned = Whole
  /\ \A r \in Installer : RunKnows(run[r])
=============================================================================
