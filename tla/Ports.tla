------------------------------- MODULE Ports -------------------------------
(***************************************************************************)
(* tools/ports: which host ports the Compose stack is published on.        *)
(*                                                                         *)
(* `make up` runs the tool, which may write alternatives to .env, and then *)
(* Compose, which reads .env.  In between and afterwards other programs    *)
(* open and close ports, the user edits .env, and the tool is run again.   *)
(*                                                                         *)
(* A file is whether it has any text, and its *_PORT lines: the variable,  *)
(* its value, and whether the line is active or commented out.             *)
(***************************************************************************)
EXTENDS Naturals, Sequences, FiniteSets, SequencesExt

CONSTANTS
  Template,   \* the lines of .env.example
  maxPort, Limit,
  MaxOthers,  \* bound: how many ports other programs listen on
  EditPort,   \* bound: the values the user sets a port to
  CutPort,    \* bound: what the first digits of a port read as
  Undecided,  \* bound: the ports whose probe may fail, one in a run
  MaxActive   \* bound: the user adds no line to a file with as many active

Name == {Template[i].name : i \in DOMAIN Template}

Line == [name : Name, active : BOOLEAN, port : Nat]

ASSUME PortsAssumption ==
  /\ \A i \in DOMAIN Template : Template[i] \in Line /\ ~ Template[i].active
  /\ \A i, j \in DOMAIN Template : i # j => Template[i].name # Template[j].name
  /\ maxPort \in Nat /\ Limit \in Nat
  /\ MaxOthers \in Nat /\ MaxActive \in Nat
  /\ EditPort \cup CutPort \cup Undecided \subseteq Nat

VARIABLES
  file,     \* .env
  others,   \* the ports other programs listen on
  stack,    \* the ports this project's containers publish
  last      \* what the tool just did, if nothing has happened since

vars == <<file, others, stack, last>>

NoPort == 0
-----------------------------------------------------------------------------
(* The first line of a variable, commented or not, is its default. *)
ParseSpecs(lines) ==
  FoldLeft(LAMBDA specs, l :
             IF \E i \in DOMAIN specs : specs[i].name = l.name
               THEN specs
               ELSE Append(specs, [name |-> l.name, default |-> l.port]),
           <<>>, lines)

(* readSpecs: the variables of .env.example. *)
Specs == ParseSpecs(Template)

(* The last active line of a variable is its value. *)
ParseOverrides(lines) ==
  LET active == SelectSeq(lines, LAMBDA l : l.active)
      of(n)  == {i \in DOMAIN active : active[i].name = n}
  IN [n \in {active[i].name : i \in DOMAIN active} |-> active[Max(of(n))].port]

desired(specs, overrides) ==
  [n \in Name |->
     IF n \in DOMAIN overrides
       THEN overrides[n]
       ELSE specs[CHOOSE i \in DOMAIN specs : specs[i].name = n].default]

(* desiredPorts returns no error. *)
desiredPortsOK(want) ==
  /\ \A n \in Name : want[n] \in 1 .. maxPort
  /\ \A n, o \in Name : n # o => want[n] # want[o]

(* Mutant of searchEnd: the search does not stop at maxPort. *)
searchEndPast(start) == start + Limit

searchEnd(start) == Min({start + Limit, maxPort})

(* Mutant of skips: ports that other services want are not skipped. *)
skipsTaken(p, reserved, probe) == probe[p] = "taken"

skips(p, reserved, probe) == p \in reserved \/ probe[p] = "taken"

(* NoPort is either of its errors: nothing free, or a probe that failed. *)
nextFree(start, reserved, probe) ==
  LET end == searchEnd(start)
      try[p \in start + 1 .. end + 1] ==
        IF p > end THEN NoPort
        ELSE IF skips(p, reserved, probe) THEN try[p + 1]
        ELSE IF probe[p] = "free" THEN p
        ELSE NoPort
  IN try[start + 1]

(* Mutant of portFor: the stack's own ports are probed like any other. *)
portForIgnoringOurs(w, ours, reserved, probe) ==
  CASE probe[w] = "free"  -> w
    [] probe[w] = "taken" -> nextFree(w, reserved, probe)
    [] probe[w] = "error" -> NoPort

(* What becomes of one desired port; ours are not probed. *)
portFor(w, ours, reserved, probe) ==
  IF w \in ours THEN w
  ELSE CASE probe[w] = "free"  -> w
         [] probe[w] = "taken" -> nextFree(w, reserved, probe)
         [] probe[w] = "error" -> NoPort

(* Mutant of settle: an alternative is not reserved for its service. *)
settleForgetful(acc, n, p) ==
  [acc EXCEPT !.ok = p # NoPort, !.chosen[n] = p]

settle(acc, n, p) ==
  [acc EXCEPT !.ok = p # NoPort, !.chosen[n] = p,
              !.reserved = @ \cup {p}]

(* A port for every variable, in the order of the template; ok is whether  *)
(* no error was returned.  The first error ends the loop.                  *)
Choose(specs, want, ours, probe) ==
  FoldLeft(LAMBDA acc, s :
             IF acc.ok
               THEN settle(acc, s.name,
                           portFor(want[s.name], ours, acc.reserved, probe))
               ELSE acc,
           [ok       |-> desiredPortsOK(want),
            reserved |-> {want[n] : n \in Name},
            chosen   |-> [n \in Name |-> NoPort]],
           specs)

Changed(want, chosen) == {n \in Name : chosen[n] # want[n]}

(* Mutant of replaces: only the first line of a variable is replaced. *)
replacesFirst(lines, i, updates) ==
  /\ lines[i].name \in updates
  /\ \A j \in 1 .. i - 1 : lines[j].name # lines[i].name

replaces(lines, i, updates) == lines[i].name \in updates

(* Every line of a changed variable is replaced by an active one; a        *)
(* variable that has none gets a line at the end (their order there, which *)
(* is by name, does not matter: each has one).                             *)
RenderEnv(lines, want, chosen) ==
  LET set(n) == [name |-> n, active |-> TRUE, port |-> chosen[n]]
      missing == SelectSeq(Specs, LAMBDA s :
                   /\ s.name \in Changed(want, chosen)
                   /\ \A i \in DOMAIN lines : lines[i].name # s.name)
  IN [i \in DOMAIN lines |->
        IF replaces(lines, i, Changed(want, chosen))
          THEN set(lines[i].name) ELSE lines[i]]
     \o [i \in DOMAIN missing |-> set(missing[i].name)]
-----------------------------------------------------------------------------
(* What Compose publishes the stack on: it reads the same file, and its    *)
(* own defaults are the template's.                                        *)
Effective == desired(Specs, ParseOverrides(file.lines))

(* A connection is accepted, refused, or the probe cannot decide. *)
prober(undecided) ==
  [p \in 1 .. maxPort + Limit |->
     IF p \in undecided THEN "error"
     ELSE IF p \in others \cup stack THEN "taken" ELSE "free"]

Quiet == [out |-> "none"]

Failed == [out |-> "error"]

Init ==
  /\ file \in {[text |-> FALSE, lines |-> <<>>],      \* no .env, or empty
               [text |-> TRUE,  lines |-> <<>>],      \* only other lines
               [text |-> TRUE,  lines |-> Template]}  \* make env-init
  /\ others \in {S \in SUBSET (1 .. maxPort) : Cardinality(S) <= MaxOthers}
  /\ stack = {}
  /\ last = Quiet

(* What a run of the tool computes before it writes anything; listed is    *)
(* whether `compose ps` could list the stack's ports.                      *)
Selected(listed, undecided) ==
  LET want == Effective
      ours == IF listed THEN stack ELSE {}
      sel  == Choose(Specs, want, ours, prober(undecided))
  IN [out    |-> IF sel.ok THEN "ok" ELSE "error",
      want   |-> want,
      chosen |-> sel.chosen,
      listed |-> listed]

Rendered(sel) ==
  RenderEnv(IF file.text THEN file.lines ELSE Template, sel.want, sel.chosen)

(* go run ./tools/ports -check, or a run that ends in an error: a port     *)
(* variable set in the environment, an invalid or duplicate port, a failed *)
(* probe, nothing free, the deadline, an unreadable file.                  *)
RunChangesNothing ==
  /\ last' = Failed
  /\ UNCHANGED <<file, others, stack>>

(* go run ./tools/ports, with or without conflicts. *)
Run(listed, undecided) ==
  LET sel == Selected(listed, undecided)
  IN /\ sel.out = "ok"
     /\ last' = sel
     /\ file' = IF Changed(sel.want, sel.chosen) = {} THEN file
                ELSE [text |-> TRUE, lines |-> Rendered(sel)]
     /\ UNCHANGED <<others, stack>>

(* What is written of a line when the write ends in it: nothing that reads *)
(* as an assignment, or one with the first digits of its port only, which  *)
(* are a smaller port (in a comment they do not matter).                   *)
Cut(line) ==
  {<<>>} \cup {<<[line EXCEPT !.port = p]>> :
                 p \in {q \in CutPort : line.active /\ q < line.port}}

(* os.WriteFile truncates the file and then fails, or the process is       *)
(* killed, with k of the lines written and perhaps a part of the next.     *)
RunInterrupted(listed) ==
  LET sel   == Selected(listed, {})
      lines == Rendered(sel)
  IN /\ sel.out = "ok" /\ Changed(sel.want, sel.chosen) # {}
     /\ \E k \in 0 .. Len(lines) - 1 :
          \E text \in BOOLEAN, rest \in Cut(lines[k + 1]) :
            /\ k > 0 \/ rest # <<>> => text
            /\ file' = [text |-> text, lines |-> SubSeq(lines, 1, k) \o rest]
     /\ last' = Failed
     /\ UNCHANGED <<others, stack>>

(* docker compose up: it fails loudly when a port is held by another       *)
(* program.                                                                *)
Up ==
  /\ desiredPortsOK(Effective)
  /\ \A n \in Name : Effective[n] \notin others
  /\ stack' = {Effective[n] : n \in Name}
  /\ last' = Quiet
  /\ UNCHANGED <<file, others>>

Down ==
  /\ stack # {}
  /\ stack' = {}
  /\ last' = Quiet
  /\ UNCHANGED <<file, others>>

OtherListens(p) ==
  /\ p \notin stack \cup others
  /\ Cardinality(others) < MaxOthers
  /\ others' = others \cup {p}
  /\ last' = Quiet
  /\ UNCHANGED <<file, stack>>

OtherCloses(p) ==
  /\ p \in others
  /\ others' = others \ {p}
  /\ last' = Quiet
  /\ UNCHANGED <<file, stack>>

(* The user sets a port in .env, valid or not, wanted by another or not. *)
Edit(n, p) ==
  /\ Len(SelectSeq(file.lines, LAMBDA l : l.active)) < MaxActive
  /\ LET line == [name |-> n, active |-> TRUE, port |-> p]
     IN file' = [text |-> TRUE, lines |-> Append(file.lines, line)]
  /\ last' = Quiet
  /\ UNCHANGED <<others, stack>>

Next ==
  \/ \E listed \in BOOLEAN, undecided \in {{}} \cup {{p} : p \in Undecided} :
       Run(listed, undecided)
  \/ RunChangesNothing
  \/ \E listed \in BOOLEAN : RunInterrupted(listed)
  \/ Up \/ Down
  \/ \E p \in 1 .. maxPort : OtherListens(p) \/ OtherCloses(p)
  \/ \E n \in Name, p \in EditPort : Edit(n, p)

Spec == Init /\ [][Next]_vars
-----------------------------------------------------------------------------
(* The file holds port lines, and every alternative the tool chooses is a  *)
(* port.                                                                   *)
TypeOK ==
  /\ file.text \in BOOLEAN
  /\ file.lines \in Seq(Line)
  /\ others \subseteq 1 .. maxPort
  /\ stack \subseteq 1 .. maxPort
  /\ last.out \in {"none", "ok", "error"}
  /\ last.out = "ok" => last.chosen \in [Name -> 1 .. maxPort]

(* What main.go promises `make up`: after a successful run, the ports that *)
(* Compose reads back from the .env just written are distinct, and no      *)
(* other program has one of them.                                          *)
Usable ==
  last.out = "ok" =>
    /\ desiredPortsOK(Effective)
    /\ \A n \in Name : Effective[n] \notin others

(* A second run with nothing changed in between keeps every port, even if  *)
(* the first could not list the stack's own ports.                         *)
Settles ==
  last.out = "ok" =>
    \A listed \in {last.listed, TRUE} :
      LET again == Selected(listed, {})
      IN again.out = "ok" /\ Changed(again.want, again.chosen) = {}

(* Choose's comment, as a definition that has no loop: a desired port is   *)
(* kept if free or ours, and otherwise replaced by the least one within    *)
(* the limit that is free and that neither another service wants nor an    *)
(* earlier one was given.                                                  *)
MatchesReference ==
  last.out = "ok" =>
    LET order == [i \in DOMAIN Template |-> Template[i].name]
        busy == others \cup stack
        ours == IF last.listed THEN stack ELSE {}
        kept(n) == last.want[n] \notin busy \/ last.want[n] \in ours
        candidates(i) ==
          {p \in last.want[order[i]] + 1 .. last.want[order[i]] + Limit :
             /\ p <= maxPort /\ p \notin busy
             /\ \A n \in Name : last.want[n] # p
             /\ \A j \in 1 .. i - 1 : last.chosen[order[j]] # p}
    IN \A i \in DOMAIN order :
         IF kept(order[i])
           THEN last.chosen[order[i]] = last.want[order[i]]
           ELSE candidates(i) # {} /\ last.chosen[order[i]] = Min(candidates(i))

(* "the listener is one of this project's own containers (a re-run of      *)
(* `make up`)": a run that can list the running stack leaves its .env      *)
(* alone, whatever else listens.                                           *)
RunningStackKept ==
  [][last'.out = "ok" /\ last'.listed /\ stack = {Effective[n] : n \in Name}
       => file' = file]_vars
=============================================================================
