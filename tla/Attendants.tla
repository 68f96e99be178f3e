----------------------------- MODULE Attendants -----------------------------
(***************************************************************************)
(* What uxcd keeps beside a running container: the health cycle with its   *)
(* forked worker, and the tcpredir child that publishes its ports.  Both   *)
(* follow the container's life: launch, exit (reaped as a child, or seen   *)
(* by the adopt watchdog), the daemon's death and the adoption after it.   *)
(*                                                                         *)
(* One container with a healthcheck of blocking probes and with ports; the *)
(* launching itself is module Supervisor, here a launch comes some time    *)
(* while the container is wanted up.  An instance is known by its number.  *)
(***************************************************************************)
EXTENDS Naturals

CONSTANTS
  Retries,          \* hc_retries
  FwdMaxRestarts,   \* FWD_MAX_RESTARTS
  Launches,         \* how many instances a behaviour may contain
  Commands,         \* how many user commands
  Deaths,           \* how many times the daemon may die
  Faults            \* how many forks fail, forwarders or containers die by themselves

ASSUME AttendantsAssumption ==
  /\ Retries \in Nat \ {0} /\ FwdMaxRestarts \in Nat
  /\ Launches \in Nat /\ Commands \in Nat /\ Deaths \in Nat /\ Faults \in Nat

VARIABLES
  cfg,       \* start_period and on_unhealthy of the healthcheck
  daemon,    \* uxcd runs
  c,         \* the Container, and the tasks that name it
  jail,      \* the instance that runs, 0 if none
  term,      \* it was told to go
  orphan,    \* a tcpredir of an earlier daemon holds the host port
  launches,
  quota

vars == <<cfg, daemon, c, jail, term, orphan, launches, quota>>

MaxTasks == 2   \* that many pending respawn tasks or more

\* worker: the instance the running health worker probes; its, that instance had
\* been adopted; probe, what the worker has found.  fwd: the forwarder in fwd_pid.
\* leftover: fwd_proc is still in uloop's list though its process was reaped.
\* respawn, retry, check: the tasks of fwd_exit_cb, start_port_forwards_deferred
\* (for which instance) and start_port_forwards.
Entries ==
  [pid : 0 .. Launches, adopted : BOOLEAN, wanted : BOOLEAN, young : BOOLEAN,
   health : {"unknown", "healthy", "unhealthy"}, fails : 0 .. Retries, task : BOOLEAN,
   worker : 0 .. Launches, its : BOOLEAN, probe : {"none", "running", "ok", "failed"},
   fwd : {"none", "running", "dead"}, restarts : 0 .. (FwdMaxRestarts + 1), err : BOOLEAN,
   leftover : BOOLEAN, respawn : 0 .. MaxTasks, retry : 0 .. Launches, check : BOOLEAN]

NoEntry ==
  [pid |-> 0, adopted |-> FALSE, wanted |-> FALSE, young |-> FALSE,
   health |-> "unknown", fails |-> 0, task |-> FALSE,
   worker |-> 0, its |-> FALSE, probe |-> "none",
   fwd |-> "none", restarts |-> 0, err |-> FALSE,
   leftover |-> FALSE, respawn |-> 0, retry |-> 0, check |-> FALSE]

Capped(n, cap) == IF n > cap THEN cap ELSE n
Spend(k) == quota[k] > 0 /\ quota' = [quota EXCEPT ![k] = @ - 1]

-----------------------------------------------------------------------------
(* Published ports.                                                        *)

\* stop_port_forwards
StopForwards(e) == IF e.fwd = "none" THEN e ELSE [e EXCEPT !.fwd = "none", !.restarts = 0]

\* Mutant: every start of a forwarder begins the count anew.
StartForwardsAnew(e) ==
  {[StopForwards(e) EXCEPT !.fwd = "running", !.err = FALSE, !.check = TRUE, !.restarts = 0],
   [StopForwards(e) EXCEPT !.err = TRUE]}

\* start_port_forwards: the forwarder runs, or it says why not (no tcpredir, no
\* address yet, no fork).
StartForwards(e) ==
  {[StopForwards(e) EXCEPT !.fwd = "running", !.err = FALSE, !.check = TRUE],
   [StopForwards(e) EXCEPT !.err = TRUE]}

\* What the daemon forgets when it dies, and what it leaves.
Forgotten ==
  /\ daemon' = FALSE
  /\ c' = NoEntry
  /\ orphan' = (orphan \/ c.fwd = "running")

\* A forwarder is started for e, and tried again for instance again (0: it is not) if
\* that fails.  When fwd_proc is still linked, clearing it breaks uloop's list and the
\* daemon crashes in uloop_process_add.
Starts(e, again) ==
  IF e.leftover THEN Forgotten
  ELSE /\ c' \in {IF f.err /\ again # 0 THEN [f EXCEPT !.retry = again] ELSE f : f \in StartForwards(e)}
       /\ UNCHANGED <<daemon, orphan>>

\* A forwarder goes: by itself, or because another one holds the host port.
FwdDies ==
  /\ c.fwd = "running"
  /\ IF orphan THEN UNCHANGED quota ELSE Spend("faults")
  /\ c' = [c EXCEPT !.fwd = "dead"]
  /\ UNCHANGED <<cfg, daemon, jail, term, orphan, launches>>

\* Mutant: a forwarder found dead is not put back.
NotPutBack(e) == e

\* Mutant: a forwarder is put back however often it goes.
PutBackForEver(e) == [e EXCEPT !.restarts = @ + 1, !.respawn = Capped(@ + 1, MaxTasks)]

\* fwd_exit_cb, for a container that is meant to be serving.
PutBack(e) ==
  IF e.restarts + 1 > FwdMaxRestarts
  THEN [e EXCEPT !.restarts = FwdMaxRestarts + 1, !.err = TRUE]
  ELSE [e EXCEPT !.restarts = @ + 1, !.respawn = Capped(@ + 1, MaxTasks)]

\* fwd_exit_cb
FwdReaped ==
  /\ c.fwd = "dead"
  /\ LET e == [c EXCEPT !.fwd = "none"]
     IN  c' = IF e.pid = 0 \/ ~e.wanted THEN e ELSE PutBack(e)
  /\ UNCHANGED <<cfg, daemon, jail, term, orphan, launches, quota>>

\* The task of fwd_exit_cb, a second later.
RespawnFires ==
  /\ c.respawn > 0
  /\ LET e == [c EXCEPT !.respawn = @ - 1]
     IN  IF e.pid # 0 /\ e.wanted /\ e.fwd = "none" THEN Starts(e, 0)
         ELSE c' = e /\ UNCHANGED <<daemon, orphan>>
  /\ UNCHANGED <<cfg, jail, term, launches, quota>>

\* The task of start_port_forwards_deferred.
RetryFires ==
  /\ c.retry # 0
  /\ LET e == [c EXCEPT !.retry = 0]
     IN  IF e.pid = c.retry /\ e.fwd = "none" THEN Starts(e, 0)
         ELSE c' = e /\ UNCHANGED <<daemon, orphan>>
  /\ UNCHANGED <<cfg, jail, term, launches, quota>>

\* The task of start_port_forwards: it reaps a forwarder that died before uloop,
\* which serves timers first, has seen the death.
CheckFires ==
  /\ c.check
  /\ c' = IF c.fwd = "dead"
          THEN [c EXCEPT !.check = FALSE, !.fwd = "none", !.err = TRUE, !.leftover = TRUE]
          ELSE [c EXCEPT !.check = FALSE]
  /\ UNCHANGED <<cfg, daemon, jail, term, orphan, launches, quota>>

-----------------------------------------------------------------------------
(* Health.                                                                 *)

NoWorker(e) == [e EXCEPT !.worker = 0, !.its = FALSE, !.probe = "none"]

Restarts(e) == e.fails + 1 >= Retries /\ cfg.restart /\ e.pid # 0

\* apply_health_verdict; young is the start_period.
Failed(e) ==
  IF e.young THEN e
  ELSE IF e.fails + 1 < Retries THEN [e EXCEPT !.fails = @ + 1]
  ELSE IF Restarts(e) THEN [e EXCEPT !.health = "unknown", !.fails = 0]
  ELSE [e EXCEPT !.health = "unhealthy", !.fails = Retries]

Verdict(e, ok) ==
  IF ok THEN c' = [e EXCEPT !.health = "healthy", !.fails = 0] /\ UNCHANGED term
  ELSE /\ c' = Failed(e)
       /\ term' = (term \/ (~e.young /\ Restarts(e) /\ e.pid = jail))

\* run_health_check, on the container's health task.
HealthTick ==
  /\ c.task
  /\ \/ /\ c.pid = 0
        /\ c' = [c EXCEPT !.health = "unknown", !.fails = 0]
        /\ UNCHANGED <<term, quota>>
     \/ /\ c.pid # 0 /\ c.worker = 0
        /\ c' = [c EXCEPT !.worker = c.pid, !.its = c.adopted, !.probe = "running"]
        /\ UNCHANGED <<term, quota>>
     \/ /\ c.pid # 0 /\ c.worker = 0 /\ Spend("faults")   \* no pipe or no fork
        /\ \E resource_ok \in BOOLEAN : Verdict(c, resource_ok)
  /\ UNCHANGED <<cfg, daemon, jail, orphan, launches>>

ProbeEnds ==
  /\ c.probe = "running"
  /\ c' \in {[c EXCEPT !.probe = p] : p \in {"ok", "failed"}}
  /\ UNCHANGED <<cfg, daemon, jail, term, orphan, launches, quota>>

\* Mutant: the worker's budget only counts while its container runs.
KillFiresRunning ==
  /\ c.probe = "running" /\ c.pid # 0
  /\ c' = [c EXCEPT !.probe = "failed"]
  /\ UNCHANGED <<cfg, daemon, jail, term, orphan, launches, quota>>

\* The worker outran its budget and is killed.
KillFires ==
  /\ c.probe = "running"
  /\ c' = [c EXCEPT !.probe = "failed"]
  /\ UNCHANGED <<cfg, daemon, jail, term, orphan, launches, quota>>

\* health_worker_exit_cb
WorkerReaped ==
  /\ c.probe \in {"ok", "failed"}
  /\ Verdict(NoWorker(c), c.probe = "ok")
  /\ UNCHANGED <<cfg, daemon, jail, orphan, launches, quota>>

GracePasses ==
  /\ c.young
  /\ c' = [c EXCEPT !.young = FALSE]
  /\ UNCHANGED <<cfg, daemon, jail, term, orphan, launches, quota>>

-----------------------------------------------------------------------------
(* The container's life.                                                   *)

\* The end of launch(), with start_port_forwards_deferred.
Launch ==
  /\ daemon /\ c.wanted /\ c.pid = 0 /\ jail = 0 /\ launches < Launches
  /\ launches' = launches + 1 /\ jail' = launches' /\ term' = FALSE
  /\ LET e == [c EXCEPT !.pid = launches', !.adopted = FALSE, !.task = TRUE, !.young = cfg.grace]
     IN  Starts(e, launches')
  /\ UNCHANGED <<cfg, quota>>

JailDies ==
  /\ jail # 0
  /\ IF term THEN UNCHANGED quota ELSE Spend("faults")
  /\ jail' = 0 /\ term' = FALSE
  /\ UNCHANGED <<cfg, daemon, c, orphan, launches>>

\* What an exit does to the entry, however it is seen.
Exited(e) ==
  [StopForwards(e) EXCEPT !.pid = 0, !.adopted = FALSE, !.health = "unknown", !.young = FALSE]

\* Mutant: the health worker of a reaped instance goes on.
ReapedProbing(e) == Exited(e)

\* proc_exit_cb cancels the worker, adopt_watchdog does not.
Reaped(e) == NoWorker(Exited(e))

JailExit ==
  /\ daemon /\ c.pid # 0 /\ jail # c.pid
  /\ c' = IF c.adopted THEN Exited(c) ELSE Reaped(c)
  /\ UNCHANGED <<cfg, daemon, jail, term, orphan, launches, quota>>

Start ==
  /\ daemon /\ ~c.wanted /\ Spend("commands")
  /\ c' = [c EXCEPT !.wanted = TRUE]
  /\ UNCHANGED <<cfg, daemon, jail, term, orphan, launches>>

Stop ==
  /\ daemon /\ c.wanted /\ Spend("commands")
  /\ c' = [c EXCEPT !.wanted = FALSE]
  /\ term' = (term \/ (c.pid # 0 /\ c.pid = jail))
  /\ UNCHANGED <<cfg, daemon, jail, orphan, launches>>

DaemonDies ==
  /\ daemon /\ Spend("deaths")
  /\ Forgotten
  /\ UNCHANGED <<cfg, jail, term, launches>>

\* init(): a running instance is adopted; its forwarder, found by its arguments, is
\* replaced by one of our own unless the arguments cannot be told.
DaemonBoots ==
  /\ ~daemon
  /\ daemon' = TRUE
  /\ IF jail = 0
     THEN c' \in {[NoEntry EXCEPT !.wanted = w] : w \in BOOLEAN} /\ UNCHANGED orphan
     ELSE LET e == [NoEntry EXCEPT !.pid = jail, !.adopted = TRUE, !.wanted = TRUE,
                                   !.task = TRUE, !.young = cfg.grace]
          IN  \/ c' = [e EXCEPT !.err = TRUE] /\ UNCHANGED orphan
              \/ c' \in StartForwards(e) /\ orphan' = FALSE
  /\ UNCHANGED <<cfg, jail, term, launches, quota>>

-----------------------------------------------------------------------------
Init ==
  /\ cfg \in [grace : BOOLEAN, restart : BOOLEAN]
  /\ daemon = TRUE
  /\ c = [NoEntry EXCEPT !.wanted = TRUE]
  /\ jail = 0 /\ term = FALSE /\ orphan = FALSE /\ launches = 0
  /\ quota = [commands |-> Commands, deaths |-> Deaths, faults |-> Faults]

Next ==
  \/ FwdDies \/ FwdReaped \/ RespawnFires \/ RetryFires \/ CheckFires
  \/ HealthTick \/ ProbeEnds \/ KillFires \/ WorkerReaped \/ GracePasses
  \/ Launch \/ JailDies \/ JailExit \/ Start \/ Stop
  \/ DaemonDies \/ DaemonBoots

Spec == Init /\ [][Next]_vars

\* uloop serves its timers and reaps its children; a forwarder that cannot bind
\* exits.
FairSpec ==
  /\ Spec
  /\ WF_vars(FwdReaped) /\ WF_vars(RespawnFires)
  /\ WF_vars(KillFires) /\ WF_vars(WorkerReaped)
  /\ WF_vars(orphan /\ FwdDies)

-----------------------------------------------------------------------------
(* Properties.                                                             *)

\* Types; restarts goes one past FWD_MAX_RESTARTS and no further (fwd_exit_cb).
TypeOK ==
  /\ cfg \in [grace : BOOLEAN, restart : BOOLEAN]
  /\ daemon \in BOOLEAN /\ term \in BOOLEAN /\ orphan \in BOOLEAN
  /\ c \in Entries
  /\ jail \in 0 .. Launches /\ launches \in 0 .. Launches
  /\ quota \in [{"commands", "deaths", "faults"} -> Nat]

\* A verdict counts for the instance that was probed, unless that one had been
\* adopted (hc_worker_cancel in proc_exit_cb).
VerdictIsOwn ==
  [][c.worker # 0 /\ c'.worker = 0 /\ <<c'.health, c'.fails>> # <<c.health, c.fails>> /\ c'.pid # 0
     => c.worker = c.pid \/ c.its]_vars

\* A worker that hangs does not end the health cycles (the kill task of
\* run_health_check), even one whose container went meanwhile.
WorkersEnd == c.worker # 0 ~> c.worker = 0

Serving == daemon /\ c.pid # 0 /\ c.wanted

\* A forwarder that died under a serving container is put back, or the reason why the
\* ports are not published is given (fwd_exit_cb and the check of start_port_forwards).
DeadForwarderIsSeen ==
  Serving /\ c.fwd = "dead" ~> ~Serving \/ c.fwd = "running" \/ c.err

\* A host port that stays taken is not fought for: the respawns end with a reason
\* (FWD_MAX_RESTARTS).
SpinEnds ==
  Serving /\ orphan ~> ~Serving \/ ~orphan \/ (c.err /\ c.fwd = "none" /\ c.respawn = 0)
=============================================================================
