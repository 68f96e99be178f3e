-------------------------- MODULE AttendantsProofs --------------------------
(***************************************************************************)
(* The safety properties of Attendants, proved for any number of retries,  *)
(* respawns, launches, commands, deaths and faults.                        *)
(***************************************************************************)
EXTENDS Attendants, TLAPS

-----------------------------------------------------------------------------
(* The inductive invariant.                                                *)

\* Instances are numbered as they come.
Numbered == c.pid <= launches /\ c.worker <= launches /\ jail <= launches

\* A worker probes the instance there is, and knows how uxcd came by it, or is left of
\* one that had been adopted.
WorkerIsOwn ==
  c.worker # 0 => IF c.worker = c.pid THEN c.its = c.adopted ELSE c.its

\* While uxcd is gone there is no entry.
GoneIsForgotten == ~daemon => c = NoEntry

IInv == TypeOK /\ Numbered /\ WorkerIsOwn /\ GoneIsForgotten

\* What a step may not do: take a verdict from the worker of another instance.
TakesOwn == c.worker # 0 /\ c'.worker = 0 /\ c'.pid # 0 => c.worker = c.pid \/ c.its

Quotas == [{"commands", "deaths", "faults"} -> Nat]

\* The instance of e and its worker are those of f.
Kept(e, f) == f.pid = e.pid /\ f.adopted = e.adopted /\ f.worker = e.worker /\ f.its = e.its

-----------------------------------------------------------------------------
(* What the helpers do to an entry.                                        *)

\* The bounds are numbers.
LEMMA Bounds ==
  /\ Launches \in Nat /\ Retries \in Nat /\ Retries > 0 /\ FwdMaxRestarts \in Nat
  /\ FwdMaxRestarts + 1 \in Nat /\ MaxTasks = 2
  BY AttendantsAssumption DEF AttendantsAssumption, MaxTasks

\* No entry is an entry.
LEMMA NoEntryTyped ==
  /\ NoEntry \in Entries
  /\ NoEntry.pid = 0 /\ NoEntry.worker = 0 /\ NoEntry.fwd = "none" /\ NoEntry.respawn = 0
  /\ NoEntry.retry = 0 /\ ~NoEntry.check /\ ~NoEntry.task /\ ~NoEntry.young
  /\ NoEntry.probe = "none" /\ ~NoEntry.adopted /\ ~NoEntry.its
  BY Bounds DEF NoEntry, Entries

\* stop_port_forwards leaves the instance alone.
LEMMA StopsTyped ==
  ASSUME NEW e \in Entries
  PROVE StopForwards(e) \in Entries /\ Kept(e, StopForwards(e))
<1>1. CASE e.fwd = "none"
    BY <1>1 DEF StopForwards, Kept
<1>2. CASE e.fwd # "none"
    <2>1. StopForwards(e) = [e EXCEPT !.fwd = "none", !.restarts = 0]
          /\ 0 \in 0 .. (FwdMaxRestarts + 1)
        BY <1>2, Bounds DEF StopForwards
    <2> QED
        BY <2>1 DEF Kept, Entries
<1> QED
    BY <1>1, <1>2

\* start_port_forwards too.
LEMMA ForwardsTyped ==
  ASSUME NEW e \in Entries, NEW f \in StartForwards(e)
  PROVE f \in Entries /\ Kept(e, f)
<1> DEFINE s == StopForwards(e)
<1>1. s \in Entries /\ Kept(e, s)
    BY StopsTyped
<1>2. f = [s EXCEPT !.fwd = "running", !.err = FALSE, !.check = TRUE]
      \/ f = [s EXCEPT !.err = TRUE]
    BY DEF StartForwards
<1> HIDE DEF s
<1>3. CASE f = [s EXCEPT !.fwd = "running", !.err = FALSE, !.check = TRUE]
    <2>1. f \in Entries
        BY <1>1, <1>3 DEF Entries
    <2>2. Kept(s, f)
        BY <1>1, <1>3 DEF Entries, Kept
    <2> QED
        BY <1>1, <2>1, <2>2 DEF Kept
<1>4. CASE f = [s EXCEPT !.err = TRUE]
    <2>1. f \in Entries
        BY <1>1, <1>4 DEF Entries
    <2>2. Kept(s, f)
        BY <1>1, <1>4 DEF Entries, Kept
    <2> QED
        BY <1>1, <2>1, <2>2 DEF Kept
<1> QED
    BY <1>2, <1>3, <1>4

\* A start of the forwarder leaves an entry for the same instance, or the daemon goes.
LEMMA StartsTyped ==
  ASSUME NEW e \in Entries, NEW again \in 0 .. Launches, Starts(e, again), orphan \in BOOLEAN
  PROVE \/ Forgotten
        \/ c' \in Entries /\ Kept(e, c') /\ UNCHANGED <<daemon, orphan>>
<1>1. CASE e.leftover
    BY <1>1 DEF Starts
<1>2. CASE ~e.leftover
    <2>1. UNCHANGED <<daemon, orphan>>
        BY <1>2 DEF Starts
    <2>2. PICK f \in StartForwards(e) :
            c' = IF f.err /\ again # 0 THEN [f EXCEPT !.retry = again] ELSE f
        BY <1>2 DEF Starts
    <2>3. f \in Entries /\ Kept(e, f)
        BY ForwardsTyped
    <2>4. [f EXCEPT !.retry = again] \in Entries /\ Kept(f, [f EXCEPT !.retry = again])
        BY <2>3 DEF Entries, Kept
    <2>5. c' = [f EXCEPT !.retry = again] \/ c' = f
        BY <2>2
    <2> QED
        BY <2>1, <2>3, <2>4, <2>5 DEF Kept
<1> QED
    BY <1>1, <1>2

\* A worker that is gone.
LEMMA NoWorkerTyped ==
  ASSUME NEW e \in Entries
  PROVE /\ NoWorker(e) \in Entries /\ NoWorker(e).worker = 0 /\ NoWorker(e).pid = e.pid
        /\ NoWorker(e).adopted = e.adopted
<1>1. NoWorker(e) = [e EXCEPT !.worker = 0, !.its = FALSE, !.probe = "none"]
      /\ 0 \in 0 .. Launches
    BY Bounds DEF NoWorker
<1> QED
    BY <1>1 DEF Entries

\* apply_health_verdict never counts past the retries.
LEMMA FailedTyped ==
  ASSUME NEW e \in Entries
  PROVE Failed(e) \in Entries /\ Kept(e, Failed(e))
<1>1. e.fails \in Nat /\ Retries \in Nat /\ Retries > 0
    BY Bounds DEF Entries
<1>2. CASE e.young
    BY <1>2 DEF Failed, Kept
<1>3. CASE ~e.young /\ e.fails + 1 < Retries
    <2>1. e.fails + 1 \in 0 .. Retries
        BY <1>1, <1>3
    <2>2. Failed(e) = [e EXCEPT !.fails = e.fails + 1]
        BY <1>3 DEF Failed
    <2> QED
        BY <2>1, <2>2 DEF Kept, Entries
<1>4. CASE ~e.young /\ ~(e.fails + 1 < Retries) /\ Restarts(e)
    <2>1. Failed(e) = [e EXCEPT !.health = "unknown", !.fails = 0] /\ 0 \in 0 .. Retries
        BY <1>1, <1>4 DEF Failed
    <2> QED
        BY <2>1 DEF Kept, Entries
<1>5. CASE ~e.young /\ ~(e.fails + 1 < Retries) /\ ~Restarts(e)
    <2>1. Failed(e) = [e EXCEPT !.health = "unhealthy", !.fails = Retries]
          /\ Retries \in 0 .. Retries
        BY <1>1, <1>5 DEF Failed
    <2> QED
        BY <2>1 DEF Kept, Entries
<1> QED
    BY <1>2, <1>3, <1>4, <1>5

\* A verdict is about the instance, not its number.
LEMMA VerdictTyped ==
  ASSUME NEW e \in Entries, NEW ok, Verdict(e, ok), term \in BOOLEAN
  PROVE c' \in Entries /\ Kept(e, c') /\ term' \in BOOLEAN
<1>1. CASE ok
    <2>1. c' = [e EXCEPT !.health = "healthy", !.fails = 0] /\ UNCHANGED term
          /\ 0 \in 0 .. Retries
        BY <1>1, Bounds DEF Verdict
    <2> QED
        BY <2>1 DEF Kept, Entries
<1>2. CASE ~ok
    <2>1. c' = Failed(e)
          /\ term' = (term \/ (~e.young /\ Restarts(e) /\ e.pid = jail))
        BY <1>2 DEF Verdict
    <2>2. term' \in BOOLEAN
        BY <2>1
    <2> QED
        BY <2>1, <2>2, FailedTyped
<1> QED
    BY <1>1, <1>2

\* fwd_exit_cb counts one past the most and no further.
LEMMA PutBackTyped ==
  ASSUME NEW e \in Entries
  PROVE PutBack(e) \in Entries /\ Kept(e, PutBack(e))
<1>1. /\ e.restarts \in Nat /\ e.restarts <= FwdMaxRestarts + 1 /\ FwdMaxRestarts \in Nat
      /\ e.respawn \in 0 .. 2
    BY Bounds DEF Entries
<1>2. CASE e.restarts + 1 > FwdMaxRestarts
    <2>1. PutBack(e) = [e EXCEPT !.restarts = FwdMaxRestarts + 1, !.err = TRUE]
          /\ FwdMaxRestarts + 1 \in 0 .. (FwdMaxRestarts + 1)
        BY <1>1, <1>2 DEF PutBack
    <2> QED
        BY <2>1 DEF Kept, Entries
<1>3. CASE ~(e.restarts + 1 > FwdMaxRestarts)
    <2> DEFINE n == e.restarts + 1
               k == Capped(e.respawn + 1, MaxTasks)
    <2>1. n \in 0 .. (FwdMaxRestarts + 1) /\ k \in 0 .. MaxTasks
        BY <1>1, <1>3 DEF Capped, MaxTasks
    <2>2. PutBack(e) = [e EXCEPT !.restarts = n, !.respawn = k]
        BY <1>3 DEF PutBack
    <2> HIDE DEF n, k
    <2> QED
        BY <2>1, <2>2 DEF Kept, Entries
<1> QED
    BY <1>2, <1>3

\* What an exit does to the entry; only the end of a child cancels the worker.
LEMMA ExitedTyped ==
  ASSUME NEW e \in Entries
  PROVE /\ Exited(e) \in Entries /\ Exited(e).pid = 0
        /\ Exited(e).worker = e.worker /\ Exited(e).its = e.its
        /\ Reaped(e) \in Entries /\ Reaped(e).pid = 0 /\ Reaped(e).worker = 0
<1> DEFINE s == StopForwards(e)
<1>1. s \in Entries /\ Kept(e, s) /\ 0 \in 0 .. Launches
    BY StopsTyped, Bounds
<1>2. Exited(e) = [s EXCEPT !.pid = 0, !.adopted = FALSE, !.health = "unknown", !.young = FALSE]
    BY DEF Exited
<1> HIDE DEF s
<1>3. /\ Exited(e) \in Entries /\ Exited(e).pid = 0
      /\ Exited(e).worker = e.worker /\ Exited(e).its = e.its
    BY <1>1, <1>2 DEF Entries, Kept
<1> QED
    BY <1>3, NoWorkerTyped DEF Reaped

\* A quota is spent one by one.
LEMMA Spends ==
  ASSUME quota \in Quotas, NEW k \in {"commands", "deaths", "faults"}, Spend(k)
  PROVE quota' \in Quotas
<1>1. /\ quota[k] \in Nat /\ quota[k] > 0 /\ quota' = [quota EXCEPT ![k] = quota[k] - 1]
    BY DEF Spend, Quotas
<1>2. quota[k] - 1 \in Nat
    BY <1>1
<1> QED
    BY <1>1, <1>2 DEF Quotas

-----------------------------------------------------------------------------
(* What each step keeps of the invariant.                                  *)

\* The parts of TypeOK.
LEMMA Typed ==
  TypeOK <=> /\ cfg \in [grace : BOOLEAN, restart : BOOLEAN]
             /\ daemon \in BOOLEAN /\ term \in BOOLEAN /\ orphan \in BOOLEAN
             /\ c \in Entries
             /\ jail \in 0 .. Launches /\ launches \in 0 .. Launches
             /\ quota \in Quotas
  BY DEF TypeOK, Quotas

\* The initial states satisfy it.
LEMMA InitHolds == Init => IInv
<1> SUFFICES ASSUME Init PROVE IInv
    OBVIOUS
<1>1. quota \in Quotas
    <2>1. Commands \in Nat /\ Deaths \in Nat /\ Faults \in Nat
        BY AttendantsAssumption DEF AttendantsAssumption
    <2>2. quota = [commands |-> Commands, deaths |-> Deaths, faults |-> Faults]
        BY DEF Init
    <2> QED
        BY <2>1, <2>2 DEF Quotas
<1>2. c \in Entries /\ c.pid = 0 /\ c.worker = 0
    <2>1. c = [NoEntry EXCEPT !.wanted = TRUE]
        BY DEF Init
    <2> QED
        BY <2>1, NoEntryTyped DEF Entries
<1>3. TypeOK
    <2>1. 0 \in 0 .. Launches
        BY Bounds
    <2> QED
        BY <1>1, <1>2, <2>1, Typed DEF Init
<1>4. Numbered /\ WorkerIsOwn /\ GoneIsForgotten
    BY <1>2 DEF Init, Numbered, WorkerIsOwn, GoneIsForgotten
<1> QED
    BY <1>3, <1>4 DEF IInv

\* A step that leaves the entry the instance and the worker it had.
LEMMA KeptHolds ==
  ASSUME IInv, c' \in Entries, Kept(c, c'), ~daemon => c' = c,
         UNCHANGED <<cfg, daemon, launches>>, jail' \in {0, jail}, orphan' \in BOOLEAN,
         term' \in BOOLEAN, quota' \in Quotas
  PROVE IInv' /\ TakesOwn
<1>1. TypeOK'
    <2>1. TypeOK /\ jail' \in 0 .. Launches
        BY Bounds, Typed DEF IInv
    <2> QED
        BY <2>1, Typed DEF TypeOK, Quotas
<1>2. Numbered'
    BY Typed DEF IInv, Numbered, Kept
<1>3. WorkerIsOwn' /\ TakesOwn
    BY DEF IInv, WorkerIsOwn, TakesOwn, Kept
<1>4. GoneIsForgotten'
    BY DEF IInv, GoneIsForgotten
<1> QED
    BY <1>1, <1>2, <1>3, <1>4 DEF IInv

\* The daemon goes, by itself or because uloop's list broke.
LEMMA ForgottenHolds ==
  ASSUME IInv, Forgotten, UNCHANGED cfg, term' \in BOOLEAN, quota' \in Quotas,
         jail' \in 0 .. Launches, launches' \in 0 .. Launches, jail' <= launches'
  PROVE IInv' /\ TakesOwn
<1>1. TypeOK /\ daemon' = FALSE /\ c' = NoEntry
    BY DEF IInv, Forgotten
<1>2. orphan' \in BOOLEAN
    BY <1>1 DEF Forgotten
<1>3. TypeOK'
    BY <1>1, <1>2, NoEntryTyped DEF TypeOK, Quotas
<1> QED
    BY <1>1, <1>3, NoEntryTyped
       DEF IInv, Numbered, WorkerIsOwn, GoneIsForgotten, TakesOwn

\* A start of the forwarder, on a task: the instance is as it was, or the daemon goes.
LEMMA StartsHold ==
  ASSUME IInv, daemon, NEW e \in Entries, Kept(c, e), Starts(e, 0),
         UNCHANGED <<cfg, jail, term, launches, quota>>
  PROVE IInv' /\ TakesOwn
<1>1. TypeOK /\ Numbered /\ 0 \in 0 .. Launches
    BY Bounds DEF IInv
<1>2. CASE Forgotten
    <2>1. jail' \in 0 .. Launches /\ launches' \in 0 .. Launches /\ jail' <= launches'
          /\ term' \in BOOLEAN /\ quota' \in Quotas
        BY <1>1, Typed DEF Numbered
    <2> QED
        BY <1>2, <2>1, ForgottenHolds
<1>3. CASE c' \in Entries /\ Kept(e, c') /\ UNCHANGED <<daemon, orphan>>
    <2>1. Kept(c, c')
        BY <1>3 DEF Kept
    <2> QED
        BY <1>1, <1>3, <2>1, KeptHolds, Typed
<1> QED
    BY <1>1, <1>2, <1>3, StartsTyped, Typed

\* The forwarder's steps.
LEMMA ForwarderHolds ==
  ASSUME IInv, FwdDies \/ FwdReaped \/ RespawnFires \/ RetryFires \/ CheckFires
  PROVE IInv' /\ TakesOwn
<1>1. /\ c \in Entries /\ term \in BOOLEAN /\ orphan \in BOOLEAN /\ quota \in Quotas
      /\ (daemon \/ c = NoEntry)
    BY Typed DEF IInv, GoneIsForgotten
<1>2. CASE FwdDies
    <2>1. /\ c.fwd = "running" /\ c' = [c EXCEPT !.fwd = "dead"]
          /\ UNCHANGED <<cfg, daemon, jail, term, orphan, launches>>
        BY <1>2 DEF FwdDies
    <2>2. quota' \in Quotas
        BY <1>1, <1>2, Spends DEF FwdDies
    <2>3. c' \in Entries /\ Kept(c, c')
        BY <1>1, <2>1 DEF Kept, Entries
    <2> QED
        BY <1>1, <2>1, <2>2, <2>3, NoEntryTyped, KeptHolds
<1>3. CASE FwdReaped
    <2> DEFINE e == [c EXCEPT !.fwd = "none"]
    <2>1. /\ c.fwd = "dead" /\ (c' = e \/ c' = PutBack(e))
          /\ UNCHANGED <<cfg, daemon, jail, term, orphan, launches, quota>>
        BY <1>3 DEF FwdReaped
    <2>2. e \in Entries /\ Kept(c, e)
        BY <1>1 DEF Kept, Entries
    <2> HIDE DEF e
    <2>3. c' \in Entries /\ Kept(c, c')
        BY <2>1, <2>2, PutBackTyped DEF Kept
    <2> QED
        BY <1>1, <2>1, <2>3, NoEntryTyped, KeptHolds
<1>4. CASE RespawnFires
    <2> DEFINE e == [c EXCEPT !.respawn = c.respawn - 1]
    <2>1. /\ c.respawn > 0 /\ UNCHANGED <<cfg, jail, term, launches, quota>>
          /\ Starts(e, 0) \/ (c' = e /\ UNCHANGED <<daemon, orphan>>)
        BY <1>4 DEF RespawnFires
    <2>2. daemon
        BY <1>1, <2>1, NoEntryTyped
    <2>3. e \in Entries /\ Kept(c, e)
        <3>1. c.respawn \in 0 .. 2
            BY <1>1 DEF Entries, MaxTasks
        <3>2. c.respawn - 1 \in 0 .. MaxTasks
            BY <2>1, <3>1 DEF MaxTasks
        <3> QED
            BY <1>1, <3>2 DEF Kept, Entries
    <2> HIDE DEF e
    <2>4. CASE Starts(e, 0)
        BY <2>1, <2>2, <2>3, <2>4, StartsHold
    <2>5. CASE c' = e /\ UNCHANGED <<daemon, orphan>>
        BY <1>1, <2>1, <2>2, <2>3, <2>5, KeptHolds
    <2> QED
        BY <2>1, <2>4, <2>5
<1>5. CASE RetryFires
    <2> DEFINE e == [c EXCEPT !.retry = 0]
    <2>1. /\ c.retry # 0 /\ UNCHANGED <<cfg, jail, term, launches, quota>>
          /\ Starts(e, 0) \/ (c' = e /\ UNCHANGED <<daemon, orphan>>)
        BY <1>5 DEF RetryFires
    <2>2. daemon
        BY <1>1, <2>1, NoEntryTyped
    <2>3. e \in Entries /\ Kept(c, e)
        <3>1. 0 \in 0 .. Launches
            BY Bounds
        <3> QED
            BY <1>1, <3>1 DEF Kept, Entries
    <2> HIDE DEF e
    <2>4. CASE Starts(e, 0)
        BY <2>1, <2>2, <2>3, <2>4, StartsHold
    <2>5. CASE c' = e /\ UNCHANGED <<daemon, orphan>>
        BY <1>1, <2>1, <2>2, <2>3, <2>5, KeptHolds
    <2> QED
        BY <2>1, <2>4, <2>5
<1>6. CASE CheckFires
    <2>1. /\ c.check /\ UNCHANGED <<cfg, daemon, jail, term, orphan, launches, quota>>
        BY <1>6 DEF CheckFires
    <2>2. \/ c' = [c EXCEPT !.check = FALSE, !.fwd = "none", !.err = TRUE, !.leftover = TRUE]
          \/ c' = [c EXCEPT !.check = FALSE]
        BY <1>6 DEF CheckFires
    <2>3. c' \in Entries
        BY <1>1, <2>2 DEF Entries
    <2>4. Kept(c, c')
        <3>1. CASE c' = [c EXCEPT !.check = FALSE, !.fwd = "none", !.err = TRUE,
                                  !.leftover = TRUE]
            BY <1>1, <3>1 DEF Kept, Entries
        <3>2. CASE c' = [c EXCEPT !.check = FALSE]
            BY <1>1, <3>2 DEF Kept, Entries
        <3> QED
            BY <2>2, <3>1, <3>2
    <2> QED
        BY <1>1, <2>1, <2>3, <2>4, NoEntryTyped, KeptHolds
<1> QED
    BY <1>2, <1>3, <1>4, <1>5, <1>6

\* The health cycle.
LEMMA HealthHolds ==
  ASSUME IInv, HealthTick \/ ProbeEnds \/ KillFires \/ WorkerReaped \/ GracePasses
  PROVE IInv' /\ TakesOwn
<1>1. /\ c \in Entries /\ term \in BOOLEAN /\ orphan \in BOOLEAN /\ quota \in Quotas
      /\ (daemon \/ c = NoEntry) /\ TypeOK
    BY Typed DEF IInv, GoneIsForgotten
<1>2. CASE HealthTick
    <2>1. c.task /\ daemon /\ UNCHANGED <<cfg, daemon, jail, orphan, launches>>
        BY <1>1, <1>2, NoEntryTyped DEF HealthTick
    <2>2. CASE /\ c' = [c EXCEPT !.health = "unknown", !.fails = 0]
               /\ UNCHANGED <<term, quota>>
        <3>1. 0 \in 0 .. Retries
            BY Bounds
        <3>2. c' \in Entries /\ Kept(c, c')
            BY <1>1, <2>2, <3>1 DEF Kept, Entries
        <3> QED
            BY <1>1, <2>1, <2>2, <3>2, KeptHolds
    <2>3. CASE /\ c.pid # 0 /\ c.worker = 0
               /\ c' = [c EXCEPT !.worker = c.pid, !.its = c.adopted, !.probe = "running"]
               /\ UNCHANGED <<term, quota>>
        <3>1. /\ c' \in Entries
              /\ c'.worker = c.pid /\ c'.pid = c.pid /\ c'.its = c.adopted
              /\ c'.adopted = c.adopted
            BY <1>1, <2>3 DEF Entries
        <3>2. TypeOK'
            BY <1>1, <2>1, <2>3, <3>1 DEF TypeOK
        <3> QED
            BY <2>1, <2>3, <3>1, <3>2
               DEF IInv, Numbered, WorkerIsOwn, GoneIsForgotten, TakesOwn
    <2>4. CASE Spend("faults") /\ \E resource_ok \in BOOLEAN : Verdict(c, resource_ok)
        <3>1. c' \in Entries /\ Kept(c, c') /\ term' \in BOOLEAN
            BY <1>1, <2>4, VerdictTyped
        <3>2. quota' \in Quotas
            BY <1>1, <2>4, Spends
        <3> QED
            BY <1>1, <2>1, <3>1, <3>2, KeptHolds
    <2> QED
        BY <1>2, <2>2, <2>3, <2>4 DEF HealthTick
<1>3. CASE ProbeEnds \/ KillFires
    <2>1. PICK p \in {"ok", "failed"} : c' = [c EXCEPT !.probe = p]
        BY <1>3 DEF ProbeEnds, KillFires
    <2>2. c.probe = "running" /\ UNCHANGED <<cfg, daemon, jail, term, orphan, launches, quota>>
        BY <1>3 DEF ProbeEnds, KillFires
    <2>3. c' \in Entries /\ Kept(c, c')
        BY <1>1, <2>1 DEF Kept, Entries
    <2> QED
        BY <1>1, <2>2, <2>3, NoEntryTyped, KeptHolds
<1>4. CASE WorkerReaped
    <2> DEFINE e == NoWorker(c)
    <2>1. /\ c.probe \in {"ok", "failed"} /\ Verdict(e, c.probe = "ok")
          /\ UNCHANGED <<cfg, daemon, jail, orphan, launches, quota>>
        BY <1>4 DEF WorkerReaped
    <2>2. daemon
        BY <1>1, <2>1, NoEntryTyped
    <2>3. e \in Entries /\ e.worker = 0 /\ e.pid = c.pid
        BY <1>1, NoWorkerTyped
    <2> HIDE DEF e
    <2>4. c' \in Entries /\ Kept(e, c') /\ term' \in BOOLEAN
        BY <1>1, <2>1, <2>3, VerdictTyped
    <2>5. c'.worker = 0 /\ c'.pid = c.pid
        BY <2>3, <2>4 DEF Kept
    <2>6. TypeOK'
        BY <1>1, <2>1, <2>4 DEF TypeOK
    <2>7. Numbered'
        BY <2>1, <2>5, Typed DEF IInv, Numbered, TypeOK
    <2>8. TakesOwn
        BY <2>5 DEF IInv, WorkerIsOwn, TakesOwn
    <2> QED
        BY <2>1, <2>2, <2>5, <2>6, <2>7, <2>8 DEF IInv, WorkerIsOwn, GoneIsForgotten
<1>5. CASE GracePasses
    <2>1. /\ c.young /\ c' = [c EXCEPT !.young = FALSE]
          /\ UNCHANGED <<cfg, daemon, jail, term, orphan, launches, quota>>
        BY <1>5 DEF GracePasses
    <2>2. c' \in Entries /\ Kept(c, c')
        BY <1>1, <2>1 DEF Kept, Entries
    <2> QED
        BY <1>1, <2>1, <2>2, NoEntryTyped, KeptHolds
<1> QED
    BY <1>2, <1>3, <1>4, <1>5

\* A launch gives the instance a number no worker has.
LEMMA LaunchHolds ==
  ASSUME IInv, Launch
  PROVE IInv' /\ TakesOwn
<1> DEFINE n == launches + 1
           e == [c EXCEPT !.pid = n, !.adopted = FALSE, !.task = TRUE, !.young = cfg.grace]
<1>1. /\ daemon /\ c.pid = 0 /\ jail = 0 /\ launches < Launches
      /\ launches' = n /\ jail' = n /\ term' = FALSE /\ UNCHANGED <<cfg, quota>>
      /\ Starts(e, n)
    BY DEF Launch
<1>2. TypeOK /\ c \in Entries /\ cfg.grace \in BOOLEAN /\ orphan \in BOOLEAN /\ quota \in Quotas
      /\ launches \in 0 .. Launches
    BY Typed DEF IInv
<1>3. n \in 0 .. Launches /\ n # 0 /\ launches < n /\ n \in Nat
    BY <1>1, <1>2, Bounds
<1>4. e \in Entries
    BY <1>2, <1>3 DEF Entries
<1>5. e.pid = n /\ ~e.adopted /\ e.worker = c.worker /\ e.its = c.its
    BY <1>2, <1>3 DEF Entries
<1> HIDE DEF n, e
<1>6. CASE Forgotten
    <2>1. jail' \in 0 .. Launches /\ launches' \in 0 .. Launches /\ jail' <= launches'
          /\ term' \in BOOLEAN /\ quota' \in Quotas
        <3>1. n <= n
            BY <1>3
        <3>2. jail' <= launches'
            BY <1>1, <3>1
        <3> QED
            BY <1>1, <1>2, <1>3, <3>2
    <2> QED
        BY <1>1, <1>6, <2>1, ForgottenHolds
<1>7. CASE c' \in Entries /\ Kept(e, c') /\ UNCHANGED <<daemon, orphan>>
    <2>1. c'.pid = n /\ c'.worker = c.worker /\ c'.its = c.its
        BY <1>5, <1>7 DEF Kept
    <2>2. TypeOK'
        BY <1>1, <1>2, <1>3, <1>7 DEF TypeOK, Quotas
    <2>3. c.worker \in Nat /\ c.worker <= launches /\ launches \in Nat
        BY <1>2, Bounds DEF IInv, Numbered, Entries
    <2>4. c.worker < n
        BY <1>3, <2>3
    <2>5. Numbered'
        BY <1>1, <1>3, <2>1, <2>3, <2>4 DEF Numbered
    <2>6. WorkerIsOwn' /\ TakesOwn
        BY <1>1, <1>3, <2>1, <2>3, <2>4 DEF IInv, WorkerIsOwn, TakesOwn
    <2>7. GoneIsForgotten'
        BY <1>1, <1>7 DEF GoneIsForgotten
    <2> QED
        BY <2>2, <2>5, <2>6, <2>7 DEF IInv
<1> QED
    BY <1>1, <1>2, <1>3, <1>4, <1>6, <1>7, StartsTyped

\* An exit is seen: only the worker of an adopted instance goes on.
LEMMA ExitHolds ==
  ASSUME IInv, JailExit
  PROVE IInv' /\ TakesOwn
<1>1. /\ daemon /\ c' = (IF c.adopted THEN Exited(c) ELSE Reaped(c))
      /\ UNCHANGED <<cfg, daemon, jail, term, orphan, launches, quota>>
    BY DEF JailExit
<1>2. TypeOK /\ c \in Entries
    BY Typed DEF IInv
<1>3. c' \in Entries /\ c'.pid = 0
    BY <1>1, <1>2, ExitedTyped
<1>4. c'.worker = 0 \/ (c.adopted /\ c'.worker = c.worker /\ c'.its = c.its)
    BY <1>1, <1>2, ExitedTyped
<1>5. TypeOK'
    BY <1>1, <1>2, <1>3 DEF TypeOK
<1>6. Numbered'
    <2>1. launches \in Nat
        BY <1>2, Bounds, Typed
    <2> QED
        BY <1>1, <1>3, <1>4, <2>1 DEF IInv, Numbered
<1>7. WorkerIsOwn'
    BY <1>3, <1>4 DEF IInv, WorkerIsOwn
<1> QED
    BY <1>1, <1>3, <1>5, <1>6, <1>7 DEF IInv, GoneIsForgotten, TakesOwn

\* The container dies, or is asked for, or no longer.
LEMMA ContainerHolds ==
  ASSUME IInv, JailDies \/ Start \/ Stop
  PROVE IInv' /\ TakesOwn
<1>1. /\ c \in Entries /\ term \in BOOLEAN /\ orphan \in BOOLEAN /\ quota \in Quotas
    BY Typed DEF IInv
<1>2. CASE JailDies
    BY <1>1, <1>2, Spends, KeptHolds DEF JailDies, Kept
<1>3. CASE Start
    <2>1. c' = [c EXCEPT !.wanted = TRUE]
        BY <1>3 DEF Start
    <2>2. c' \in Entries /\ Kept(c, c')
        BY <1>1, <2>1 DEF Kept, Entries
    <2> QED
        BY <1>1, <1>3, <2>2, Spends, KeptHolds DEF Start
<1>4. CASE Stop
    <2>1. c' = [c EXCEPT !.wanted = FALSE]
        BY <1>4 DEF Stop
    <2>2. c' \in Entries /\ Kept(c, c')
        BY <1>1, <2>1 DEF Kept, Entries
    <2>3. term' \in BOOLEAN
        BY <1>1, <1>4 DEF Stop
    <2> QED
        BY <1>1, <1>4, <2>2, <2>3, Spends, KeptHolds DEF Stop
<1> QED
    BY <1>2, <1>3, <1>4

\* The daemon dies.
LEMMA DeathHolds ==
  ASSUME IInv, DaemonDies
  PROVE IInv' /\ TakesOwn
<1>1. Forgotten /\ UNCHANGED <<cfg, jail, term, launches>> /\ quota' \in Quotas
    BY Spends, Typed DEF DaemonDies, IInv
<1>2. jail' \in 0 .. Launches /\ launches' \in 0 .. Launches /\ jail' <= launches'
      /\ term' \in BOOLEAN
    BY <1>1, Typed DEF IInv, Numbered
<1> QED
    BY <1>1, <1>2, ForgottenHolds

\* It comes back: an entry with no worker, for the instance that runs.
LEMMA BootHolds ==
  ASSUME IInv, DaemonBoots
  PROVE IInv' /\ TakesOwn
<1>1. /\ ~daemon /\ daemon' = TRUE /\ c = NoEntry
      /\ UNCHANGED <<cfg, jail, term, launches, quota>> /\ TypeOK /\ jail \in 0 .. Launches
      /\ cfg.grace \in BOOLEAN
    BY Typed DEF DaemonBoots, IInv, GoneIsForgotten
<1>2. c' \in Entries /\ c'.worker = 0 /\ c'.pid \in {0, jail} /\ orphan' \in BOOLEAN
    <2>1. CASE jail = 0
        <3>1. PICK w \in BOOLEAN : c' = [NoEntry EXCEPT !.wanted = w]
            BY <2>1 DEF DaemonBoots
        <3>2. UNCHANGED orphan
            BY <2>1 DEF DaemonBoots
        <3> QED
            BY <1>1, <3>1, <3>2, NoEntryTyped DEF Entries, TypeOK
    <2>2. CASE jail # 0
        <3> DEFINE e == [NoEntry EXCEPT !.pid = jail, !.adopted = TRUE, !.wanted = TRUE,
                                        !.task = TRUE, !.young = cfg.grace]
        <3>1. \/ c' = [e EXCEPT !.err = TRUE] /\ UNCHANGED orphan
              \/ c' \in StartForwards(e) /\ orphan' = FALSE
            BY <2>2 DEF DaemonBoots
        <3>2. e \in Entries
            BY <1>1, NoEntryTyped DEF Entries
        <3>3. e.pid = jail /\ e.worker = 0
            BY <1>1, NoEntryTyped DEF Entries
        <3> HIDE DEF e
        <3>4. /\ [e EXCEPT !.err = TRUE] \in Entries /\ [e EXCEPT !.err = TRUE].pid = e.pid
              /\ [e EXCEPT !.err = TRUE].worker = e.worker
            BY <3>2 DEF Entries
        <3>5. CASE c' = [e EXCEPT !.err = TRUE] /\ UNCHANGED orphan
            BY <1>1, <3>3, <3>4, <3>5 DEF TypeOK
        <3>6. CASE c' \in StartForwards(e) /\ orphan' = FALSE
            BY <3>2, <3>3, <3>6, ForwardsTyped DEF Kept
        <3> QED
            BY <3>1, <3>5, <3>6
    <2> QED
        BY <2>1, <2>2
<1>3. TypeOK'
    BY <1>1, <1>2 DEF TypeOK
<1>4. Numbered'
    <2>1. launches \in Nat /\ jail \in Nat /\ jail <= launches
        BY <1>1, Bounds, Typed DEF IInv, Numbered
    <2> QED
        BY <1>1, <1>2, <2>1 DEF Numbered
<1> QED
    BY <1>1, <1>2, <1>3, <1>4, NoEntryTyped
       DEF IInv, WorkerIsOwn, GoneIsForgotten, TakesOwn

-----------------------------------------------------------------------------
(* The theorems.                                                           *)

\* Every step keeps the invariant, and takes a verdict only from a worker of its own.
LEMMA Steps == IInv /\ [Next]_vars => IInv' /\ TakesOwn
<1> SUFFICES ASSUME IInv, [Next]_vars PROVE IInv' /\ TakesOwn
    OBVIOUS
<1>1. CASE Next
    BY <1>1, ForwarderHolds, HealthHolds, LaunchHolds, ExitHolds, ContainerHolds, DeathHolds,
       BootHolds DEF Next
<1>2. CASE UNCHANGED vars
    BY <1>2, KeptHolds, Typed DEF vars, Kept, IInv
<1> QED
    BY <1>1, <1>2

\* The invariant holds of every behaviour.
LEMMA Invariance == Spec => []IInv
<1>1. Init => IInv
    BY InitHolds
<1>2. IInv /\ [Next]_vars => IInv'
    BY Steps
<1> QED
    BY <1>1, <1>2, PTL DEF Spec

\* Every variable stays in its domain: the respawns of a forwarder are counted one past
\* FWD_MAX_RESTARTS and no further, the failed probes up to the retries (fwd_exit_cb,
\* apply_health_verdict).
THEOREM AttendantsAreTyped == Spec => []TypeOK
<1>1. IInv => TypeOK
    BY DEF IInv
<1> QED
    BY <1>1, Invariance, PTL

\* A worker's verdict counts for the instance it probed or, if that one had been adopted,
\* perhaps for the next: never for another one, whatever exits, deaths and launches come
\* between (hc_worker_cancel in proc_exit_cb).
THEOREM VerdictsAreOwn == Spec => VerdictIsOwn
<1>1. TakesOwn =>
        (c.worker # 0 /\ c'.worker = 0 /\ <<c'.health, c'.fails>> # <<c.health, c.fails>>
           /\ c'.pid # 0
         => c.worker = c.pid \/ c.its)
    BY DEF TakesOwn
<1>2. IInv /\ [Next]_vars =>
        [c.worker # 0 /\ c'.worker = 0 /\ <<c'.health, c'.fails>> # <<c.health, c.fails>>
           /\ c'.pid # 0
         => c.worker = c.pid \/ c.its]_vars
    BY <1>1, Steps
<1> QED
    BY <1>2, Invariance, PTL DEF Spec, VerdictIsOwn
=============================================================================
