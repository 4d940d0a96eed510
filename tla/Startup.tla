------------------------------- MODULE Startup -------------------------------
(***************************************************************************)
(* Launches of agent-hub-server: the strict startup of main, from the      *)
(* config to the listener.  Launches may overlap; all of them are given the *)
(* same config, so the same port and the same files.                       *)
(*                                                                         *)
(* The operator may edit the roster file at any time, and nobody reads it  *)
(* but a launch: the file is no variable, a launch finds any of Rosters.   *)
(***************************************************************************)
EXTENDS Naturals

CONSTANTS
  Processes,        \* launches of the server
  Rosters,          \* what may be in the roster file
  Missing, Garbled, \* a roster file that cannot be read, or not be parsed
  HUB,              \* envelope::HUB_NAME
  Empty,            \* the empty string
  None,
  StartupMayFail    \* whether config, logs and listener can fail for causes
                    \* outside of the model

\* A roster that parses maps names to tokens.
Parsed(r) == r \notin {Missing, Garbled}

ASSUME StartupAssumption ==
  /\ None \notin Rosters \cup Processes /\ HUB \notin {Empty, None}
  /\ \A r \in Rosters : Parsed(r) => None \notin DOMAIN r
  /\ StartupMayFail \in BOOLEAN

VARIABLES
  stage,  \* what each process is about to do, or how it ended
  agents  \* the roster each process has loaded

startupVars == <<stage, agents>>

Loading == {"config", "service", "roster", "audit", "bind"}

StartupInit == /\ stage = [p \in Processes |-> "off"]
               /\ agents = [p \in Processes |-> None]

Proceed(p, from, to) == /\ stage[p] = from
                        /\ stage' = [stage EXCEPT ![p] = to]

-----------------------------------------------------------------------------
(* roster::load *)

Blank(r) == \E n \in DOMAIN r : n = Empty \/ r[n] = Empty

UsableButReserved(r) == Parsed(r) /\ DOMAIN r # {} /\ ~Blank(r)          \* mutant
UsableOrMissing(r) ==                                                    \* mutant
  r = Missing \/ (Parsed(r) /\ DOMAIN r # {} /\ ~Blank(r) /\ HUB \notin DOMAIN r)
Usable(r) == /\ Parsed(r)
             /\ DOMAIN r # {}
             /\ ~Blank(r)
             /\ HUB \notin DOMAIN r

-----------------------------------------------------------------------------
(* main *)

Launch(p) == /\ Proceed(p, "off", "config")
             /\ UNCHANGED agents

\* A step that only the world outside can fail; a failure is fatal.
Fallible(p, from, to) == \/ Proceed(p, from, to)
                         \/ StartupMayFail /\ Proceed(p, from, "failed")

LoadConfig(p) == /\ Fallible(p, "config", "service")
                 /\ UNCHANGED agents

InitServiceLog(p) == /\ Fallible(p, "service", "roster")
                     /\ UNCHANGED agents

LoadRoster(p) ==
  \/ \E r \in Rosters : /\ Usable(r)
                        /\ Proceed(p, "roster", "audit")
                        /\ agents' = [agents EXCEPT ![p] = r]
  \/ /\ \E r \in Rosters : ~Usable(r)
     /\ Proceed(p, "roster", "failed")
     /\ UNCHANGED agents

\* The file is opened for append, beside a hub that may be running.
OpenAudit(p) == /\ Fallible(p, "audit", "bind")
                /\ UNCHANGED agents

\* One process at a time can listen on a port.
BindShared(p) == /\ Fallible(p, "bind", "ready")                         \* mutant
                 /\ UNCHANGED agents
Bind(p) == /\ \/ /\ \A q \in Processes : stage[q] # "ready"
                 /\ Fallible(p, "bind", "ready")
              \/ /\ \E q \in Processes : stage[q] = "ready"
                 /\ Proceed(p, "bind", "failed")
           /\ UNCHANGED agents

\* There is no signal handling: a process is killed wherever it stands.
Kill(p) == /\ stage[p] \in Loading \cup {"ready"}
           /\ stage' = [stage EXCEPT ![p] = "killed"]
           /\ UNCHANGED agents

StartupStep(p) == \/ Launch(p) \/ LoadConfig(p) \/ InitServiceLog(p)
                  \/ LoadRoster(p) \/ OpenAudit(p) \/ Bind(p)
=============================================================================
