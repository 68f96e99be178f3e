------------------------------ MODULE Sessions ------------------------------
(***************************************************************************)
(* The processes a user's call leaves behind it: the worker of an exec     *)
(* call, whose end answers the call, and the ttyd of a browser console,    *)
(* which nothing waits for but a reaper that polls.                        *)
(*                                                                         *)
(* All exec calls go to one running instance of a container.  ttyd is run  *)
(* with --once: it exits when its browser leaves.                          *)
(***************************************************************************)
EXTENDS Naturals

CONSTANTS
  Calls,      \* exec calls
  Consoles,   \* console calls
  Ports,      \* the ports the kernel picks from
  Seconds,    \* how far the clock goes
  Deaths,     \* how many times the daemon may die
  Faults,     \* how many pipes or forks fail
  None

ASSUME SessionsAssumption ==
  /\ Seconds \in Nat /\ Deaths \in Nat /\ Faults \in Nat
  /\ None \notin Calls

VARIABLES
  user,     \* what this behaviour asks for: the two share nothing but the daemon
  now,      \* time(nullptr)
  call,     \* the calls, with the ExecCtx of those that run
  file,     \* outpath -> the file of that name, known by the call that created it
  wrote,    \* whose output a file holds
  con,      \* the ttyd processes, and what the browser of each was told
  procs,    \* console_procs: its order is in "after" of each console
  reaping,  \* console_reaper_running, and so its task
  quota

vars == <<user, now, call, file, wrote, con, procs, reaping, quota>>
execVars == <<user, now, call, file, wrote>>
consoleVars == <<user, con, procs, reaping>>

\* at: the second in its outpath; fd: the file it writes to; tmo: its timeout is pending;
\* spoke: it wrote something; own: its answer was its own output, all of it.
CallStates ==
  [st : {"none", "running", "dead", "answered", "failed", "lost"}, at : 0 .. Seconds,
   fd : Calls \cup {None}, tmo : BOOLEAN, timed_out : BOOLEAN, spoke : BOOLEAN, own : BOOLEAN]

NoCall ==
  [st |-> "none", at |-> 0, fd |-> None, tmo |-> FALSE, timed_out |-> FALSE,
   spoke |-> FALSE, own |-> TRUE]

\* idle: CONSOLE_IDLE_S have passed since started; term: it was told to go; after: the
\* entries of console_procs it was pushed behind.
ConsoleStates ==
  [st : {"none", "alive", "dead"}, port : Ports \cup {None}, attached : BOOLEAN,
   idle : BOOLEAN, term : BOOLEAN, told : BOOLEAN, after : SUBSET Consoles]

NoConsole ==
  [st |-> "none", port |-> None, attached |-> FALSE, idle |-> FALSE, term |-> FALSE,
   told |-> FALSE, after |-> {}]

Spend(k) == quota[k] > 0 /\ quota' = [quota EXCEPT ![k] = @ - 1]

-----------------------------------------------------------------------------
(* Exec.                                                                   *)

\* Mutant: the file is named for the container only.
OutpathOfContainer(second) == 0

\* outpath: the container, its pid and the second of the call.
Outpath(second) == second

\* Opened with O_CREAT | O_TRUNC for call k.
Opened(k) == IF file[Outpath(now)] = None THEN k ELSE file[Outpath(now)]

OpenCapture(k) ==
  /\ file' = [file EXCEPT ![Outpath(now)] = Opened(k)]
  /\ wrote' = [wrote EXCEPT ![Opened(k)] = {}]

\* exec_async
Exec(k) ==
  /\ user = "exec" /\ call[k].st = "none"
  /\ OpenCapture(k)
  /\ call' = [call EXCEPT ![k] = [@ EXCEPT !.st = "running", !.at = now, !.fd = Opened(k), !.tmo = TRUE]]
  /\ UNCHANGED <<now, consoleVars, quota>>

\* No pipe or no fork: the call is answered with the error, the file stays.
ExecFails(k) ==
  /\ user = "exec" /\ call[k].st = "none" /\ Spend("faults")
  /\ OpenCapture(k)
  /\ call' = [call EXCEPT ![k] = [@ EXCEPT !.st = "failed", !.at = now]]
  /\ UNCHANGED <<now, consoleVars>>

WorkerWrites(k) ==
  /\ call[k].st = "running"
  /\ wrote' = [wrote EXCEPT ![call[k].fd] = @ \cup {k}]
  /\ call' = [call EXCEPT ![k].spoke = TRUE]
  /\ UNCHANGED <<now, file, consoleVars, quota>>

WorkerEnds(k) ==
  /\ call[k].st = "running"
  /\ call' = [call EXCEPT ![k].st = "dead"]
  /\ UNCHANGED <<now, file, wrote, consoleVars, quota>>

\* Mutant: the worker is not killed.
ExecTimesOutOnly(k) ==
  /\ call[k].tmo
  /\ call' = [call EXCEPT ![k] = [@ EXCEPT !.tmo = FALSE, !.timed_out = TRUE]]
  /\ UNCHANGED <<now, file, wrote, consoleVars, quota>>

\* exec_timeout_cb, also for a worker that is dead and not yet reaped.
ExecTimesOut(k) ==
  /\ call[k].tmo
  /\ call' = [call EXCEPT ![k] = [@ EXCEPT !.tmo = FALSE, !.timed_out = TRUE, !.st = "dead"]]
  /\ UNCHANGED <<now, file, wrote, consoleVars, quota>>

Output(k) ==
  LET f == file[Outpath(call[k].at)] IN IF f = None THEN {} ELSE wrote[f]

\* Mutant: the timeout of a call that ended stays armed.
FinishedArmed(k) ==
  [call[k] EXCEPT !.st = "answered", !.own = (Output(k) = IF call[k].spoke THEN {k} ELSE {})]

\* The reply, and the end of the ExecCtx.
Finished(k) ==
  [call[k] EXCEPT !.st = "answered", !.tmo = FALSE,
                  !.own = (Output(k) = IF call[k].spoke THEN {k} ELSE {})]

\* exec_worker_exit_cb, exec_finish
WorkerReaped(k) ==
  /\ call[k].st = "dead"
  /\ call' = [call EXCEPT ![k] = Finished(k)]
  /\ file' = [file EXCEPT ![Outpath(call[k].at)] = None]
  /\ UNCHANGED <<now, wrote, consoleVars, quota>>

SecondPasses ==
  /\ now < Seconds /\ now' = now + 1
  /\ UNCHANGED <<call, file, wrote, consoleVars, quota>>

-----------------------------------------------------------------------------
(* Consoles.                                                               *)

Held(p) == \E s \in Consoles : con[s].st = "alive" /\ con[s].port = p

\* console().  free_port() asks for a port of the loopback only: a ttyd bound to
\* another address may hold it, then the new one exits and wait_listen finds the old.
Console(s) ==
  /\ user = "console" /\ con[s].st = "none"
  /\ \E p \in Ports :
        con' = [con EXCEPT ![s] = [NoConsole EXCEPT !.st = IF Held(p) THEN "dead" ELSE "alive",
                                                    !.port = p, !.after = procs]]
  /\ procs' = procs \cup {s}
  /\ reaping' = TRUE
  /\ UNCHANGED <<execVars, quota>>

\* wait_listen in vain: the ttyd is killed and reaped at once, no entry is kept of it
\* and the caller is told no port.
ConsoleFails(s) ==
  /\ user = "console" /\ con[s].st = "none"
  /\ con' = [con EXCEPT ![s].st = "dead"]
  /\ UNCHANGED <<execVars, procs, reaping, quota>>

Attach(s) ==
  /\ con[s].st = "alive" /\ ~con[s].attached
  /\ con' = [con EXCEPT ![s].attached = TRUE]
  /\ UNCHANGED <<execVars, procs, reaping, quota>>

\* The browser leaves, the shell ends, or the signal is obeyed.
TtydExits(s) ==
  /\ con[s].st = "alive" /\ (con[s].attached \/ con[s].term)
  /\ con' = [con EXCEPT ![s] = [@ EXCEPT !.st = "dead", !.attached = FALSE]]
  /\ UNCHANGED <<execVars, procs, reaping, quota>>

IdleTimePasses(s) ==
  /\ con[s].st = "alive" /\ ~con[s].idle
  /\ con' = [con EXCEPT ![s].idle = TRUE]
  /\ UNCHANGED <<execVars, procs, reaping, quota>>

Dead(s) == con[s].st = "dead"

\* Mutant: the time counts from the start, connected or not.
PolledFromStart(s) == [con[s] EXCEPT !.term = @ \/ con[s].idle]

\* Mutant: every look at a console puts its deadline off.
PolledAnew(s) == [con[s] EXCEPT !.idle = FALSE]

\* What a poll does to a console that runs.
Polled(s) ==
  IF con[s].attached THEN [con[s] EXCEPT !.idle = FALSE]
  ELSE [con[s] EXCEPT !.term = @ \/ con[s].idle]

\* console_reaper
ConsoleReaper ==
  /\ reaping
  /\ con' = [s \in Consoles |-> IF s \in procs /\ ~Dead(s) THEN Polled(s) ELSE con[s]]
  /\ procs' = {s \in procs : ~Dead(s)}
  /\ reaping' = (procs' # {})
  /\ UNCHANGED <<execVars, quota>>

\* The entry of a port that console_active comes to: the oldest.
IsEntryOf(port, e) ==
  /\ e \in procs /\ con[e].port = port
  /\ \A o \in procs \cap con[e].after : con[o].port # port

\* console_active, asked by the browser that opened s.
ConsoleActive(s) ==
  /\ con[s].port # None /\ ~con[s].told
  /\ \/ /\ \E e \in procs : IsEntryOf(con[s].port, e) /\ ~Dead(e)
        /\ UNCHANGED <<con, procs>>
     \/ /\ \E e \in procs : IsEntryOf(con[s].port, e) /\ Dead(e) /\ procs' = procs \ {e}
        /\ con' = [con EXCEPT ![s].told = TRUE]
     \/ /\ \A e \in procs : con[e].port # con[s].port
        /\ con' = [con EXCEPT ![s].told = TRUE]
        /\ UNCHANGED procs
  /\ UNCHANGED <<execVars, reaping, quota>>

-----------------------------------------------------------------------------
\* The next daemon knows of none of them.
DaemonDies ==
  /\ Spend("deaths")
  /\ call' = [k \in Calls |-> IF call[k].st \in {"running", "dead"}
                              THEN [call[k] EXCEPT !.st = "lost", !.tmo = FALSE] ELSE call[k]]
  /\ procs' = {} /\ reaping' = FALSE
  /\ UNCHANGED <<user, now, file, wrote, con>>

Init ==
  /\ user \in {"exec", "console"}
  /\ now = 0
  /\ call = [k \in Calls |-> NoCall]
  /\ file = [p \in 0 .. Seconds |-> None] /\ wrote = [k \in Calls |-> {}]
  /\ con = [s \in Consoles |-> NoConsole] /\ procs = {} /\ reaping = FALSE
  /\ quota = [deaths |-> Deaths, faults |-> Faults]

Next ==
  \/ \E k \in Calls :
        \/ Exec(k) \/ ExecFails(k) \/ WorkerWrites(k) \/ WorkerEnds(k)
        \/ ExecTimesOut(k) \/ WorkerReaped(k)
  \/ \E s \in Consoles :
        \/ Console(s) \/ ConsoleFails(s) \/ Attach(s) \/ TtydExits(s)
        \/ IdleTimePasses(s) \/ ConsoleActive(s)
  \/ ConsoleReaper \/ SecondPasses \/ DaemonDies

Spec == Init /\ [][Next]_vars

\* uloop serves its timers and reaps its children; time passes; a ttyd that was told to
\* go goes.
FairSpec ==
  /\ Spec
  /\ \A k \in Calls : WF_vars(ExecTimesOut(k)) /\ WF_vars(WorkerReaped(k))
  /\ WF_vars(ConsoleReaper)
  /\ \A s \in Consoles : WF_vars(IdleTimePasses(s)) /\ WF_vars(con[s].term /\ TtydExits(s))

-----------------------------------------------------------------------------
(* Properties.                                                             *)

\* Types; a timeout is pending only for a call whose ExecCtx exists
\* (uloop_timeout_cancel in exec_worker_exit_cb, before exec_finish frees it).
TypeOK ==
  /\ user \in {"exec", "console"}
  /\ now \in 0 .. Seconds
  /\ call \in [Calls -> CallStates]
  /\ \A k \in Calls : call[k].tmo => call[k].st \in {"running", "dead"}
  /\ file \in [0 .. Seconds -> Calls \cup {None}]
  /\ wrote \in [Calls -> SUBSET Calls]
  /\ con \in [Consoles -> ConsoleStates]
  /\ procs \subseteq Consoles /\ reaping \in BOOLEAN
  /\ quota \in [{"deaths", "faults"} -> Nat]

\* Another call of the container came within the second of k.
Shared(k) ==
  \E j \in Calls \ {k} : call[j].st # "none" /\ call[j].at = call[k].at

\* An answer is the output of its own command, all of it and nothing else, whatever
\* other calls run, unless one came within the same second (outpath in exec_async).
OutputIsOwn == \A k \in Calls : call[k].st = "answered" /\ ~call[k].own => Shared(k)

\* A console in use is not idle (port_has_connection in console_reaper).
InUseSpared ==
  [][\A s \in Consoles : con'[s].term /\ ~con[s].term => ~con[s].attached]_vars

\* Every exec call is answered, one whose command never ends as well, unless the daemon
\* dies (exec_timeout_cb).
CallsAnswered ==
  \A k \in Calls : call[k].st = "running" ~> call[k].st \in {"answered", "lost"}

\* A console nobody uses ends, if the daemon lives (CONSOLE_IDLE_S).
IdleEnds ==
  \A s \in Consoles :
    con[s].st = "alive" /\ s \in procs
      ~> con[s].attached \/ con[s].st = "dead" \/ s \notin procs
=============================================================================
