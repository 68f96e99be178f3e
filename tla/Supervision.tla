----------------------------- MODULE Supervision -----------------------------
(***************************************************************************)
(* What uxcd promises of its containers, whatever becomes of dependencies, *)
(* networks and timers: it starts one only while it is wanted and nothing  *)
(* of its name runs, a container that is told to stop while it runs is to  *)
(* be killed if it does not go, a new instance is not killed in its place, *)
(* and a daemon that comes back wants what it finds running.               *)
(* Module Supervisor implements it.                                        *)
(***************************************************************************)
EXTENDS Naturals

CONSTANT Container

VARIABLES
  alive,   \* the daemon is there
  wanted,  \* the containers that are wanted up
  copies,  \* how many jails of a name run
  doomed   \* the containers whose jail will be killed if it does not go

vars == <<alive, wanted, copies, doomed>>

Init ==
  /\ ~alive /\ wanted = {} /\ doomed = {}
  /\ copies = [c \in Container |-> 0]

Kept(c) == c \in wanted' <=> c \in wanted

\* Nothing happens to c.
Rests(c) == Kept(c) /\ copies'[c] = copies[c] /\ (c \in doomed' <=> c \in doomed)

\* Commands, dependents and the restart policy: a container that is no longer wanted is
\* doomed, and it stays so whatever is wanted later.
Told(c) ==
  /\ alive /\ copies'[c] = copies[c]
  /\ c \in doomed => c \in doomed'
  /\ copies[c] > 0 /\ c \in wanted \ wanted' => c \in doomed'
  /\ c \in doomed' => copies[c] > 0

\* A new jail is not the one that was to be killed.
Launched(c) ==
  /\ alive /\ c \in wanted /\ c \in wanted'
  /\ copies[c] = 0 /\ copies'[c] = 1
  /\ c \notin doomed'

\* A jail ends by itself or is killed, also while there is no daemon.
Ended(c) == Kept(c) /\ copies[c] = 1 /\ copies'[c] = 0 /\ c \notin doomed'

Serves ==
  /\ alive' = alive
  /\ \A c \in Container : Rests(c) \/ Told(c) \/ Launched(c) \/ Ended(c)

\* What was wanted is forgotten, the jails run on.
Dies ==
  /\ alive /\ ~alive'
  /\ wanted' = {} /\ doomed' = {}
  /\ UNCHANGED copies

\* What runs is adopted, and wanted.
Returns ==
  /\ ~alive /\ alive'
  /\ wanted' = {c \in Container : copies[c] > 0}
  /\ UNCHANGED <<copies, doomed>>

Next == Serves \/ Dies \/ Returns

Spec == Init /\ [][Next]_vars
=============================================================================
