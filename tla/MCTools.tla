------------------------------ MODULE MCTools ------------------------------
(***************************************************************************)
(* Instances for TLC of the two developer's tools, the port chooser and    *)
(* the protoc installer.  They share no state: a behaviour is of the tool  *)
(* its first state chooses, and the other's variables stay as they are.    *)
(***************************************************************************)
EXTENDS Ports, Protoc

(* Two neighbouring services and one towards the end of the range. *)
MCTemplate ==
  <<[name |-> "A", active |-> FALSE, port |-> 1],
    [name |-> "B", active |-> FALSE, port |-> 2],
    [name |-> "C", active |-> FALSE, port |-> 4]>>

VARIABLE tool

(* One initial state of the tool that is not the chosen one. *)
NoInstaller == versioned = Absent /\ InstallInit
NoPorts == file = [text |-> FALSE, lines |-> <<>>] /\ others = {} /\ Init

MCInit ==
  \/ tool = "ports" /\ Init /\ NoInstaller
  \/ tool = "protoc" /\ InstallInit /\ NoPorts

MCNext ==
  \/ tool = "ports" /\ Next /\ UNCHANGED <<tool, installVars>>
  \/ tool = "protoc" /\ InstallNext /\ UNCHANGED <<tool, vars>>

MCSpec == MCInit /\ [][MCNext]_<<tool, vars, installVars>>
-----------------------------------------------------------------------------
(* The types of both tools.                                                *)
ToolsTypeOK == TypeOK /\ InstallTypeOK
=============================================================================
