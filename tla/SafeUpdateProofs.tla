-------------------------- MODULE SafeUpdateProofs --------------------------
(***************************************************************************)
(* The safety properties of SafeUpdate, proved for any versions, any       *)
(* number of jobs, commands, deaths and exits, with or without a health    *)
(* watch and automatic upgrades.                                           *)
(***************************************************************************)
EXTENDS SafeUpdate, TLAPS

-----------------------------------------------------------------------------
(* The inductive invariant.                                                *)

\* A job was asked for a version.
Asked == \A j \in Job : job[j].st # "free" => job[j].to \in Version

\* The watch of a job begins when uxcd has reaped it.
WatchedIsDone == \A j \in Job : watch[j] # "none" => ~job[j].run /\ job[j].st = "ok"

Standing(j) == UnderWay(j) \/ watch[j] # "none"

\* A job nobody meddled with finds what it found and put there, or a prune took the
\* backup.
OverIsBack ==
  \A j \in Job : job[j].meddled = "no" =>
    /\ job[j].st = "building" => live = job[j].over
    /\ Standing(j) /\ job[j].st \in {"rotated", "registered", "ok"}
         => live = job[j].to /\ prev \in {job[j].over, None}

\* An instance later than the one a watch found is of the bundle that is live.
LaterIsNew ==
  \A j \in Job : /\ job[j].meddled = "no" /\ watch[j] # "none"
                 /\ inst.up /\ inst.started > base[j]
                 => inst.ver = live

Undisturbed == \A j \in Job : ~Disturbed(j)

\* The job has changed the bundles, and uxcd has not recorded what it replaced.
Unrecorded(j) == job[j].run /\ job[j].st \in {"rotated", "registered", "ok"}

\* While no job is disturbed the provenance goes with the bundles; one job at a time
\* knows what the backup is before the registry does.
Provenance ==
  Undisturbed =>
    /\ \A j \in Job : Converting(j) => job[j].run
    /\ \A i, j \in Job : Unrecorded(i) /\ Unrecorded(j) => i = j
    /\ \A j \in Job : job[j].st = "rotated" => live = job[j].to
    /\ (\A j \in Job : job[j].st # "rotated") =>
         rec = live /\ \A i \in Job : job[i].st = "building" => job[i].from = live
    /\ \A j \in Job : Unrecorded(j) => prev \in {job[j].from, None}
    /\ (\A j \in Job : ~Unrecorded(j)) => prev \in {prec, None}

\* Nor does a built container become a pulled one, or the other way.
Kinds ==
  Undisturbed =>
    /\ built <=> live \in Built
    /\ prev # None => (built <=> prev \in Built)
    /\ \A j \in Job : job[j].st # "free" => (built <=> job[j].to \in Built)

IInv == TypeOK /\ Asked /\ WatchedIsDone /\ OverIsBack /\ LaterIsNew /\ Provenance

-----------------------------------------------------------------------------
(* What the helpers do to the jobs.                                        *)

States == {"free", "building", "rotated", "registered", "ok", "failed", "torn"}

\* Only the note of who meddled differs.
Alike(a, b) ==
  /\ a.st = b.st /\ a.run = b.run /\ a.upgrade = b.upgrade /\ a.lost = b.lost
  /\ a.from = b.from /\ a.to = b.to /\ a.over = b.over

MovedTo(jobs, j, s) == [jobs EXCEPT ![j].st = s]

\* Whether something is in a set is true or false.
LEMMA Membership ==
  ASSUME NEW x, NEW S
  PROVE (x \in S) \in BOOLEAN
<1>1. CASE x \in S
    <2>1. (x \in S) = TRUE
        BY <1>1
    <2> QED
        BY <2>1
<1>2. CASE x \notin S
    <2>1. (x \in S) = FALSE
        BY <1>2
    <2> QED
        BY <2>1
<1> QED
    BY <1>1, <1>2

\* A job that takes a step keeps everything but its state.
LEMMA Moved ==
  ASSUME NEW jobs \in [Job -> Jobs], NEW j \in Job, NEW s \in States
  PROVE /\ MovedTo(jobs, j, s) \in [Job -> Jobs]
        /\ \A i \in Job : i # j => MovedTo(jobs, j, s)[i] = jobs[i]
        /\ MovedTo(jobs, j, s)[j].st = s
        /\ MovedTo(jobs, j, s)[j].run = jobs[j].run
        /\ MovedTo(jobs, j, s)[j].upgrade = jobs[j].upgrade
        /\ MovedTo(jobs, j, s)[j].lost = jobs[j].lost
        /\ MovedTo(jobs, j, s)[j].from = jobs[j].from
        /\ MovedTo(jobs, j, s)[j].to = jobs[j].to
        /\ MovedTo(jobs, j, s)[j].over = jobs[j].over
        /\ MovedTo(jobs, j, s)[j].meddled = jobs[j].meddled
<1>1. jobs[j] \in Jobs
    OBVIOUS
<1>2. [jobs[j] EXCEPT !.st = s] \in Jobs
    BY <1>1 DEF Jobs, States
<1>3. MovedTo(jobs, j, s) = [jobs EXCEPT ![j] = [jobs[j] EXCEPT !.st = s]]
    BY DEF MovedTo
<1>4. MovedTo(jobs, j, s)[j] = [jobs[j] EXCEPT !.st = s]
    BY <1>3
<1> QED
    BY <1>1, <1>2, <1>3, <1>4 DEF Jobs

\* A change of the bundles touches only the note of who meddled, and leaves none of the
\* others that are under way or watched without one.
LEMMA Meddled ==
  ASSUME NEW jobs \in [Job -> Jobs], NEW i, NEW new, new = Meddle(jobs, i)
  PROVE /\ new \in [Job -> Jobs]
        /\ \A j \in Job : Alike(new[j], jobs[j])
        /\ \A j \in Job : new[j].meddled = "no" => jobs[j].meddled = "no"
        /\ \A j \in Job : jobs[j].meddled = "converting" => new[j].meddled = "converting"
        /\ \A j \in Job : j = i => new[j] = jobs[j]
        /\ \A j \in Job : j # i /\ UnderWay(j) => new[j].meddled = "converting"
        /\ \A j \in Job : j # i /\ watch[j] # "none" => new[j].meddled # "no"
<1>1. ASSUME NEW j \in Job
      PROVE /\ new[j] \in Jobs
            /\ Alike(new[j], jobs[j])
            /\ new[j].meddled = "no" => jobs[j].meddled = "no"
            /\ jobs[j].meddled = "converting" => new[j].meddled = "converting"
            /\ j = i => new[j] = jobs[j]
            /\ j # i /\ UnderWay(j) => new[j].meddled = "converting"
            /\ j # i /\ watch[j] # "none" => new[j].meddled # "no"
    <2>1. jobs[j] \in Jobs
        OBVIOUS
    <2>2. new[j] = IF j = i THEN jobs[j]
                   ELSE IF UnderWay(j) THEN [jobs[j] EXCEPT !.meddled = "converting"]
                   ELSE IF watch[j] # "none" /\ jobs[j].meddled = "no"
                        THEN [jobs[j] EXCEPT !.meddled = "watching"]
                   ELSE jobs[j]
        BY DEF Meddle
    <2>3. CASE j = i
        BY <2>1, <2>2, <2>3 DEF Alike
    <2>4. CASE j # i /\ UnderWay(j)
        <3>1. new[j] = [jobs[j] EXCEPT !.meddled = "converting"]
            BY <2>2, <2>4
        <3> HIDE DEF UnderWay
        <3> QED
            BY <2>1, <2>4, <3>1 DEF Alike, Jobs
    <2>5. CASE j # i /\ ~UnderWay(j) /\ watch[j] # "none" /\ jobs[j].meddled = "no"
        <3>1. new[j] = [jobs[j] EXCEPT !.meddled = "watching"]
            BY <2>2, <2>5
        <3> QED
            BY <2>1, <2>5, <3>1 DEF Alike, Jobs
    <2>6. CASE j # i /\ ~UnderWay(j) /\ ~(watch[j] # "none" /\ jobs[j].meddled = "no")
        <3>1. new[j] = jobs[j]
            BY <2>2, <2>6
        <3> QED
            BY <2>1, <2>6, <3>1 DEF Alike
    <2> QED
        BY <2>3, <2>4, <2>5, <2>6
<1>2. new = [j \in Job |-> new[j]]
    BY DEF Meddle
<1> QED
    BY <1>1, <1>2

\* A started job, and the others as they were.
LEMMA Started ==
  ASSUME TypeOK, NEW j \in Job, NEW upgrade \in BOOLEAN, NEW to \in Version,
         JobStart(j, upgrade, to)
  PROVE /\ job' \in [Job -> Jobs]
        /\ \A i \in Job : i # j => job'[i] = job[i]
        /\ job[j].st = "free"
        /\ job'[j].st = "building" /\ job'[j].run /\ job'[j].upgrade = upgrade
        /\ ~job'[j].lost /\ job'[j].meddled = "no" /\ job'[j].to = to
        /\ job'[j].over = live /\ job'[j].from \in {rec, None}
<1> DEFINE new == [st |-> "building", run |-> TRUE, upgrade |-> upgrade,
                   from |-> IF upgrade THEN Origin(to) ELSE None, to |-> to,
                   over |-> live, lost |-> FALSE, meddled |-> "no"]
<1>1. new \in Jobs
    BY DEF TypeOK, Jobs, Versions, Origin
<1>2. job' = [job EXCEPT ![j] = new] /\ job[j].st = "free" /\ job \in [Job -> Jobs]
    BY DEF JobStart, TypeOK
<1>3. job'[j] = new
    BY <1>2
<1> HIDE DEF new
<1>4. job' \in [Job -> Jobs] /\ \A i \in Job : i # j => job'[i] = job[i]
    BY <1>1, <1>2
<1> QED
    BY <1>2, <1>3, <1>4 DEF new, Origin

-----------------------------------------------------------------------------
(* What the helpers do to the container.                                   *)

Insts == [up : BOOLEAN, ver : Versions, started : Nat, healthy : BOOLEAN, term : BOOLEAN]

ContainerTyped == inst \in Insts /\ launches \in Nat /\ desired \in {"UP", "DOWN"}

\* What runs is the instance that ran, or a new one of the bundle that is live.
RunsOn(bundle) ==
  inst'.up => \/ inst.up /\ inst'.ver = inst.ver /\ inst'.started = inst.started
              \/ inst'.ver = bundle

\* A launch brings up the bundle it is asked for.
LEMMA Launches ==
  ASSUME ContainerTyped, NEW b \in Versions, Launch(b)
  PROVE inst' \in Insts /\ launches' \in Nat /\ inst'.ver = b
  BY DEF Launch, ContainerTyped, Insts

\* A restart leaves the old instance where it was, or nothing, or the new one.
LEMMA Restarts ==
  ASSUME ContainerTyped, NEW b \in Versions, Restart(b)
  PROVE /\ ContainerTyped' /\ RunsOn(b)
        /\ inst.up => inst'.up /\ inst'.ver = inst.ver /\ inst'.started = inst.started
<1>1. CASE inst.up
    <2>1. inst' = [inst EXCEPT !.term = TRUE] /\ UNCHANGED launches /\ desired' = "UP"
        BY <1>1 DEF Restart
    <2> QED
        BY <1>1, <2>1 DEF ContainerTyped, Insts, RunsOn
<1>2. CASE ~inst.up /\ Launch(b)
    BY <1>2, Launches DEF Restart, ContainerTyped, RunsOn
<1>3. CASE ~inst.up /\ UNCHANGED <<inst, launches>>
    BY <1>3 DEF Restart, ContainerTyped, RunsOn
<1> QED
    BY <1>1, <1>2, <1>3 DEF Restart

\* A quota is spent one by one.
LEMMA Spends ==
  ASSUME TypeOK, NEW k \in {"commands", "deaths", "exits"}, Spend(k)
  PROVE quota' \in [{"commands", "deaths", "exits"} -> Nat]
<1>1. quota \in [{"commands", "deaths", "exits"} -> Nat] /\ quota[k] \in Nat /\ quota[k] > 0
      /\ quota' = [quota EXCEPT ![k] = quota[k] - 1]
    BY DEF Spend, TypeOK
<1>2. quota[k] - 1 \in Nat
    BY <1>1
<1> QED
    BY <1>1, <1>2

\* The rest of what TypeOK says of the container.
LEMMA Typed ==
  TypeOK => ContainerTyped /\ live \in Versions /\ prev \in Versions /\ rec \in Versions
  BY DEF TypeOK, ContainerTyped, Insts, Versions

-----------------------------------------------------------------------------
(* What each step keeps of the invariant.                                  *)

\* The initial states satisfy it.
LEMMA InitHolds == Init => IInv
<1> SUFFICES ASSUME Init PROVE IInv
    OBVIOUS
<1> USE SafeUpdateAssumption DEF SafeUpdateAssumption
<1>1. TypeOK
    <2>1. NoJob \in Jobs
        BY DEF NoJob, Jobs, Versions
    <2>2. job \in [Job -> Jobs]
        BY <2>1 DEF Init
    <2>3. inst \in [up : BOOLEAN, ver : Versions, started : Nat,
                    healthy : BOOLEAN, term : BOOLEAN]
        BY DEF Init, NoInst, Versions
    <2>4. quota \in [{"commands", "deaths", "exits"} -> Nat]
        <3>1. quota = [commands |-> Commands, deaths |-> Deaths, exits |-> Exits]
            BY DEF Init
        <3>2. Commands \in Nat /\ Deaths \in Nat /\ Exits \in Nat
            BY SafeUpdateAssumption DEF SafeUpdateAssumption
        <3> QED
            BY <3>1, <3>2
    <2>5. built \in BOOLEAN
        BY Membership DEF Init
    <2>6. live \in Version /\ prev \in Versions /\ rec \in Version /\ prec \in Versions
        BY DEF Init, Versions
    <2> QED
        BY <2>2, <2>3, <2>4, <2>5, <2>6 DEF Init, TypeOK
<1>2. \A j \in Job : /\ job[j].st = "free" /\ ~job[j].run /\ watch[j] = "none"
                     /\ ~UnderWay(j)
    BY DEF Init, NoJob, UnderWay, Converting
<1>3. Asked /\ WatchedIsDone /\ OverIsBack
    BY <1>2 DEF Asked, WatchedIsDone, OverIsBack
<1>4. LaterIsNew
    BY <1>2 DEF LaterIsNew
<1>5. Provenance
    BY <1>2 DEF Provenance, Converting, Unrecorded, Init
<1> QED
    BY <1>1, <1>3, <1>4, <1>5 DEF IInv

\* A step of the container: the bundles, the jobs and the watches are as they were, what
\* runs is what ran or the live bundle.
LEMMA ContainerSteps ==
  ASSUME IInv, TypeOK', UNCHANGED <<bundles, job, watch, base>>, RunsOn(live)
  PROVE IInv'
<1> USE DEF bundles
<1>1. Asked' /\ WatchedIsDone' /\ OverIsBack'
    BY DEF IInv, Asked, WatchedIsDone, OverIsBack, Standing, UnderWay, Converting
<1>2. LaterIsNew'
    BY DEF IInv, LaterIsNew, RunsOn
<1>3. Provenance'
    BY DEF IInv, Provenance, Undisturbed, Disturbed, Converting, Unrecorded
<1> QED
    BY <1>1, <1>2, <1>3 DEF IInv

\* The container alone: a relaunch, an exit, a health verdict, a start, a stop.
LEMMA ContainerStepsHold ==
  ASSUME IInv, Relaunch \/ InstExits \/ HealthVerdict \/ Start \/ Stop
  PROVE IInv'
<1>1. TypeOK /\ ContainerTyped
    BY Typed DEF IInv
<1>2. /\ UNCHANGED <<bundles, job, verdicts, updates>>
      /\ ContainerTyped' /\ RunsOn(live)
      /\ quota' \in [{"commands", "deaths", "exits"} -> Nat]
    <2>1. CASE Relaunch
        BY <1>1, <2>1, Launches, Typed DEF Relaunch, ContainerTyped, RunsOn, TypeOK
    <2>2. CASE InstExits
        <3>1. NoInst \in Insts /\ ~NoInst.up
            BY DEF NoInst, Insts, Versions
        <3>2. quota' \in [{"commands", "deaths", "exits"} -> Nat]
            BY <1>1, <2>2, Spends DEF InstExits, TypeOK
        <3> QED
            BY <1>1, <2>2, <3>1, <3>2 DEF InstExits, ContainerTyped, RunsOn
    <2>3. CASE HealthVerdict
        <3>1. PICK h \in {FALSE, inst.ver \in Good} : inst' = [inst EXCEPT !.healthy = h]
            BY <2>3 DEF HealthVerdict
        <3>2. h \in BOOLEAN
            BY Membership
        <3>3. inst' \in Insts /\ inst'.up = inst.up /\ inst'.ver = inst.ver
              /\ inst'.started = inst.started
            BY <1>1, <3>1, <3>2 DEF ContainerTyped, Insts
        <3> QED
            BY <1>1, <2>3, <3>3 DEF HealthVerdict, ContainerTyped, RunsOn, TypeOK
    <2>4. CASE Start
        <3>1. CASE UNCHANGED <<inst, launches>>
            BY <1>1, <2>4, <3>1, Spends DEF Start, ContainerTyped, RunsOn
        <3>2. CASE Launch(live)
            BY <1>1, <2>4, <3>2, Spends, Launches, Typed DEF Start, ContainerTyped, RunsOn
        <3> QED
            BY <2>4, <3>1, <3>2 DEF Start
    <2>5. CASE Stop
        <3>1. inst' \in Insts /\ inst'.up = inst.up /\ inst'.ver = inst.ver
              /\ inst'.started = inst.started
            BY <1>1, <2>5 DEF Stop, ContainerTyped, Insts
        <3> QED
            BY <1>1, <2>5, <3>1, Spends DEF Stop, ContainerTyped, RunsOn
    <2> QED
        BY <2>1, <2>2, <2>3, <2>4, <2>5
<1>3. TypeOK'
    BY <1>1, <1>2 DEF TypeOK, bundles, verdicts, updates, ContainerTyped, Insts
<1> QED
    BY <1>2, <1>3, ContainerSteps DEF verdicts

\* Nothing but one job, which nobody watches: the clauses about the others stand, and
\* so do those about the container.
LEMMA OneJobSteps ==
  ASSUME IInv, TypeOK', NEW j \in Job, UNCHANGED <<bundles, watch, base, inst>>,
         watch[j] = "none", \A i \in Job : i # j => job'[i] = job[i],
         job'[j].to \in Version
  PROVE /\ Asked' /\ WatchedIsDone' /\ LaterIsNew'
        /\ \A i \in Job : i # j /\ job'[i].meddled = "no" =>
              /\ job'[i].st = "building" => live' = job'[i].over
              /\ Standing(i)' /\ job'[i].st \in {"rotated", "registered", "ok"}
                   => live' = job'[i].to /\ prev' \in {job'[i].over, None}
<1> USE DEF bundles
<1>1. Asked' /\ WatchedIsDone'
    BY DEF IInv, Asked, WatchedIsDone
<1>2. LaterIsNew'
    BY DEF IInv, LaterIsNew
<1> QED
    BY <1>1, <1>2 DEF IInv, OverIsBack, Standing, UnderWay, Converting

\* A job that is not free has no say in what the others' disturbances are.
LEMMA StillUndisturbed ==
  ASSUME Undisturbed', NEW j \in Job, \A i \in Job : i # j => job'[i] = job[i],
         Disturbed(j) => Disturbed(j)'
  PROVE Undisturbed
  BY DEF Undisturbed, Disturbed

\* A job is started, by a user or by the update check.
LEMMA StartHolds ==
  ASSUME IInv, TypeOK', NEW j \in Job, NEW upgrade \in BOOLEAN, NEW to \in Version,
         JobStart(j, upgrade, to), UNCHANGED <<bundles, watch, base, inst>>
  PROVE IInv'
<1> USE DEF bundles
<1>1. /\ job' \in [Job -> Jobs]
      /\ \A i \in Job : i # j => job'[i] = job[i]
      /\ job[j].st = "free"
      /\ job'[j].st = "building" /\ job'[j].run /\ job'[j].upgrade = upgrade
      /\ ~job'[j].lost /\ job'[j].meddled = "no" /\ job'[j].to \in Version
      /\ job'[j].over = live /\ job'[j].from \in {rec, None}
    BY Started DEF IInv
<1>2. watch[j] = "none"
    BY <1>1 DEF IInv, WatchedIsDone
<1>3. Asked' /\ WatchedIsDone' /\ LaterIsNew'
    BY <1>1, <1>2, OneJobSteps
<1>4. OverIsBack'
    BY <1>1, <1>2, OneJobSteps DEF OverIsBack
<1>5. ASSUME Undisturbed' PROVE Undisturbed /\ job'[j].from = rec /\ Provenance
    BY <1>1, <1>5, StillUndisturbed DEF Undisturbed, Disturbed, IInv
<1>6. Provenance'
    <2> SUFFICES ASSUME Undisturbed' PROVE Provenance'
        BY DEF Provenance
    <2>1. \A i \in Job : Unrecorded(i)' <=> Unrecorded(i)
        BY <1>1 DEF Unrecorded
    <2>2. \A i \in Job : Converting(i)' => job'[i].run
        BY <1>1, <1>5 DEF Provenance, Converting
    <2>3. \A i \in Job : job'[i].st = "rotated" <=> job[i].st = "rotated"
        BY <1>1
    <2>4. \A i \in Job : job'[i].st = "rotated" => live' = job'[i].to
        BY <1>1, <1>5 DEF Provenance
    <2>5. (\A i \in Job : job'[i].st # "rotated") =>
            rec' = live' /\ \A i \in Job : job'[i].st = "building" => job'[i].from = live'
        BY <1>1, <1>5, <2>3 DEF Provenance
    <2>6. \A i \in Job : Unrecorded(i)' => prev' \in {job'[i].from, None}
        BY <1>1, <1>5, <2>1 DEF Provenance, Unrecorded
    <2>7. (\A i \in Job : ~Unrecorded(i)') => prev' \in {prec', None}
        BY <1>5, <2>1 DEF Provenance
    <2>8. \A i, k \in Job : Unrecorded(i)' /\ Unrecorded(k)' => i = k
        BY <1>5, <2>1 DEF Provenance
    <2> QED
        BY <2>2, <2>4, <2>5, <2>6, <2>7, <2>8 DEF Provenance
<1> QED
    BY <1>3, <1>4, <1>6 DEF IInv

\* A job ends its conversion, one way or another, or is cancelled: the bundles are as
\* they were.
LEMMA EndHolds ==
  ASSUME IInv, NEW j \in Job, ConverterSucceeds(j) \/ ConverterFails(j) \/ Cancel(j)
  PROVE IInv'
<1>1. PICK s \in {"ok", "failed", "torn"} :
        /\ job' = [job EXCEPT ![j].st = s]
        /\ s = "ok" => job[j].st = "registered"
        /\ s = "failed" => job[j].st = "building"
    BY DEF ConverterSucceeds, ConverterFails, Cancel
<1>2. /\ UNCHANGED <<bundles, verdicts, running, updates>>
      /\ Converting(j)
      /\ job[j].st \in {"building", "rotated", "registered"}
    BY DEF ConverterSucceeds, ConverterFails, Cancel, Converting
<1>3. /\ job' \in [Job -> Jobs]
      /\ \A i \in Job : i # j => job'[i] = job[i]
      /\ job'[j].st = s /\ job'[j].run = job[j].run /\ job'[j].upgrade = job[j].upgrade
      /\ job'[j].lost = job[j].lost /\ job'[j].from = job[j].from
      /\ job'[j].to = job[j].to /\ job'[j].over = job[j].over
      /\ job'[j].meddled = job[j].meddled
    <2>1. s \in States /\ job \in [Job -> Jobs]
        BY DEF States, IInv, TypeOK
    <2>2. job' = MovedTo(job, j, s)
        BY <1>1 DEF MovedTo
    <2> QED
        BY <2>1, <2>2, Moved
<1> USE DEF bundles, verdicts, running, updates
<1>4. TypeOK'
    <2>1. quota' \in [{"commands", "deaths", "exits"} -> Nat]
        BY Spends DEF ConverterSucceeds, ConverterFails, Cancel, IInv, TypeOK
    <2> QED
        BY <1>2, <1>3, <2>1 DEF IInv, TypeOK
<1>5. watch[j] = "none" /\ job'[j].to \in Version
    BY <1>2, <1>3 DEF IInv, Asked, WatchedIsDone
<1>6. Asked' /\ WatchedIsDone' /\ LaterIsNew'
    BY <1>2, <1>3, <1>4, <1>5, OneJobSteps
<1>7. OverIsBack'
    <2>1. job'[j].meddled = "no" /\ job'[j].st \in {"rotated", "registered", "ok"}
            => live' = job'[j].to /\ prev' \in {job'[j].over, None}
        <3>1. job'[j].st \in {"rotated", "registered", "ok"} => job[j].st = "registered"
            BY <1>1, <1>3
        <3>2. Standing(j)
            BY <1>2 DEF Standing, UnderWay
        <3> QED
            BY <1>2, <1>3, <3>1, <3>2 DEF IInv, OverIsBack
    <2>2. job'[j].st # "building"
        BY <1>3
    <2> QED
        BY <1>2, <1>3, <1>4, <1>5, <2>1, <2>2, OneJobSteps DEF OverIsBack
<1>8. ASSUME Undisturbed' PROVE Undisturbed /\ s # "torn" /\ Provenance
    <2>1. s # "torn"
        BY <1>3, <1>8 DEF Undisturbed, Disturbed
    <2>2. Disturbed(j) => Disturbed(j)'
        BY <1>2, <1>3 DEF Disturbed
    <2> QED
        BY <1>3, <1>8, <2>1, <2>2, StillUndisturbed DEF IInv
<1>9. Provenance'
    <2> SUFFICES ASSUME Undisturbed' PROVE Provenance'
        BY DEF Provenance
    <2>1. \A i \in Job : Unrecorded(i)' <=> Unrecorded(i)
        BY <1>1, <1>3, <1>8 DEF Unrecorded
    <2>2. \A i \in Job : Converting(i)' => job'[i].run
        BY <1>1, <1>3, <1>8 DEF Provenance, Converting
    <2>3. \A i \in Job : job'[i].st = "rotated" <=> job[i].st = "rotated"
        BY <1>1, <1>3, <1>8
    <2>4. \A i \in Job : job'[i].st = "rotated" => live' = job'[i].to
        BY <1>2, <1>3, <1>8 DEF Provenance
    <2>5. (\A i \in Job : job'[i].st # "rotated") =>
            rec' = live' /\ \A i \in Job : job'[i].st = "building" => job'[i].from = live'
        BY <1>2, <1>3, <1>8, <2>3 DEF Provenance
    <2>6. \A i \in Job : Unrecorded(i)' => prev' \in {job'[i].from, None}
        BY <1>2, <1>3, <1>8, <2>1 DEF Provenance, Unrecorded
    <2>7. (\A i \in Job : ~Unrecorded(i)') => prev' \in {prec', None}
        BY <1>2, <1>8, <2>1 DEF Provenance
    <2>8. \A i, k \in Job : Unrecorded(i)' /\ Unrecorded(k)' => i = k
        BY <1>8, <2>1 DEF Provenance
    <2> QED
        BY <2>2, <2>4, <2>5, <2>6, <2>7, <2>8 DEF Provenance
<1> QED
    BY <1>4, <1>6, <1>7, <1>9 DEF IInv

\* When the bundles change and no job is disturbed by it, the other jobs are not under
\* way.
LEMMA Alone ==
  ASSUME IInv, Undisturbed', NEW i, NEW jobs \in [Job -> Jobs], job' = Meddle(jobs, i),
         \A k \in Job : k # i => jobs[k] = job[k]
  PROVE /\ \A k \in Job : k # i => ~Converting(k) /\ ~Unrecorded(k)
        /\ (i \in Job => (Disturbed(i) => Disturbed(i)')) => Undisturbed
<1>1. /\ job' \in [Job -> Jobs]
      /\ \A j \in Job : Alike(job'[j], jobs[j])
      /\ \A j \in Job : jobs[j].meddled = "converting" => job'[j].meddled = "converting"
      /\ \A j \in Job : j # i /\ UnderWay(j) => job'[j].meddled = "converting"
    BY Meddled
<1>2. ASSUME NEW k \in Job, k # i PROVE ~Converting(k) /\ ~Unrecorded(k)
    BY <1>1, <1>2 DEF Undisturbed, Disturbed, UnderWay, Converting, Unrecorded, Alike
<1>3. ASSUME NEW k \in Job, k # i PROVE ~Disturbed(k)
    BY <1>1, <1>3 DEF Undisturbed, Disturbed, Alike
<1> QED
    BY <1>2, <1>3 DEF Undisturbed

\* The converter changes the bundles: those who look on know.
LEMMA MeddleSteps ==
  ASSUME IInv, NEW i, NEW jobs \in [Job -> Jobs], job' = Meddle(jobs, i),
         \A k \in Job : k # i => jobs[k] = job[k],
         \A k \in Job : k # i => watch'[k] = watch[k] /\ base'[k] = base[k]
  PROVE /\ \A k \in Job : k # i /\ job'[k].st # "free" => job'[k].to \in Version
        /\ \A k \in Job : k # i => (watch'[k] # "none" => ~job'[k].run /\ job'[k].st = "ok")
        /\ \A k \in Job : k # i /\ job'[k].meddled = "no" =>
              watch'[k] = "none" /\ ~Standing(k)' /\ job'[k].st # "building"
<1>1. /\ \A j \in Job : Alike(job'[j], jobs[j])
      /\ \A j \in Job : j # i /\ UnderWay(j) => job'[j].meddled = "converting"
      /\ \A j \in Job : j # i /\ watch[j] # "none" => job'[j].meddled # "no"
    BY Meddled
<1>2. ASSUME NEW k \in Job, k # i
      PROVE job'[k].st = job[k].st /\ job'[k].run = job[k].run /\ job'[k].to = job[k].to
    BY <1>1, <1>2 DEF Alike
<1> QED
    BY <1>1, <1>2 DEF IInv, Asked, WatchedIsDone, Standing, UnderWay, Converting

\* The converter rotates the bundles.
LEMMA RotateHolds ==
  ASSUME IInv, NEW j \in Job, ConverterRotates(j)
  PROVE IInv'
<1> DEFINE jobs == MovedTo(job, j, "rotated")
<1>1. /\ job[j].st = "building" /\ live' = job[j].to /\ prev' = live
      /\ UNCHANGED <<built, rec, prec, verdicts, running, updates, quota>>
      /\ job' = Meddle(jobs, j)
    BY DEF ConverterRotates, MovedTo
<1>2. /\ jobs \in [Job -> Jobs]
      /\ \A i \in Job : i # j => jobs[i] = job[i]
      /\ jobs[j].st = "rotated" /\ jobs[j].run = job[j].run
      /\ jobs[j].upgrade = job[j].upgrade /\ jobs[j].lost = job[j].lost
      /\ jobs[j].from = job[j].from /\ jobs[j].to = job[j].to
      /\ jobs[j].over = job[j].over /\ jobs[j].meddled = job[j].meddled
    <2>1. job \in [Job -> Jobs] /\ "rotated" \in States
        BY DEF IInv, TypeOK, States
    <2> QED
        BY <2>1, Moved
<1> HIDE DEF jobs
<1>3. job' \in [Job -> Jobs] /\ job'[j] = jobs[j] /\ \A i \in Job : Alike(job'[i], jobs[i])
    BY <1>1, <1>2, Meddled
<1>4. TypeOK'
    <2>1. job[j].to \in Version
        BY <1>1 DEF IInv, Asked
    <2> QED
        BY <1>1, <1>3, <2>1 DEF IInv, TypeOK, Versions, verdicts, running, updates
<1>5. /\ \A k \in Job : k # j /\ job'[k].st # "free" => job'[k].to \in Version
      /\ \A k \in Job : k # j => (watch'[k] # "none" => ~job'[k].run /\ job'[k].st = "ok")
      /\ \A k \in Job : k # j /\ job'[k].meddled = "no" =>
            watch'[k] = "none" /\ ~Standing(k)' /\ job'[k].st # "building"
    BY <1>1, <1>2, MeddleSteps DEF verdicts
<1>6. watch'[j] = "none"
    BY <1>1 DEF IInv, WatchedIsDone, verdicts
<1>7. Asked' /\ WatchedIsDone' /\ LaterIsNew'
    BY <1>1, <1>2, <1>3, <1>5, <1>6 DEF Asked, WatchedIsDone, LaterIsNew, IInv
<1>8. OverIsBack'
    <2>1. job'[j].meddled = "no" => live' = job'[j].to /\ prev' = job'[j].over
        BY <1>1, <1>2, <1>3 DEF IInv, OverIsBack
    <2> QED
        BY <1>2, <1>3, <1>5, <2>1 DEF OverIsBack
<1>9. Provenance'
    <2> SUFFICES ASSUME Undisturbed' PROVE Provenance'
        BY DEF Provenance
    <2>1. /\ \A k \in Job : k # j => ~Converting(k) /\ ~Unrecorded(k)
          /\ Undisturbed
        <3>1. Disturbed(j) => Disturbed(j)'
            BY <1>1, <1>2, <1>3 DEF Disturbed
        <3> QED
            BY <1>1, <1>2, <3>1, Alone
    <2>2. \A k \in Job : k # j => job'[k].st = job[k].st /\ job'[k].run = job[k].run
        BY <1>2, <1>3 DEF Alike
    <2>3. \A k \in Job : k # j => ~Converting(k)' /\ ~Unrecorded(k)' /\ job'[k].st # "rotated"
        BY <2>1, <2>2 DEF Converting, Unrecorded
    <2>4. job[j].run /\ rec = live /\ job[j].from = live
        <3>1. \A i \in Job : job[i].st # "rotated"
            BY <1>1, <2>1 DEF Converting
        <3> QED
            BY <1>1, <2>1, <3>1 DEF IInv, Provenance, Converting
    <2>5. job'[j].st = "rotated" /\ job'[j].run /\ Unrecorded(j)'
          /\ job'[j].from = prev' /\ live' = job'[j].to
        BY <1>1, <1>2, <1>3, <2>4 DEF Unrecorded
    <2> QED
        BY <2>3, <2>5 DEF Provenance
<1> QED
    BY <1>4, <1>7, <1>8, <1>9 DEF IInv

\* The converter registers the provenance.
LEMMA RegisterHolds ==
  ASSUME IInv, NEW j \in Job, ConverterRegisters(j)
  PROVE IInv'
<1> DEFINE jobs == MovedTo(job, j, "registered")
<1>1. /\ job[j].st = "rotated" /\ rec' = job[j].to /\ built' = (job[j].to \in Built)
      /\ UNCHANGED <<live, prev, prec, verdicts, running, updates, quota>>
      /\ job' = Meddle(jobs, j)
    BY DEF ConverterRegisters, MovedTo
<1>2. /\ jobs \in [Job -> Jobs]
      /\ \A i \in Job : i # j => jobs[i] = job[i]
      /\ jobs[j].st = "registered" /\ jobs[j].run = job[j].run
      /\ jobs[j].upgrade = job[j].upgrade /\ jobs[j].lost = job[j].lost
      /\ jobs[j].from = job[j].from /\ jobs[j].to = job[j].to
      /\ jobs[j].over = job[j].over /\ jobs[j].meddled = job[j].meddled
    <2>1. job \in [Job -> Jobs] /\ "registered" \in States
        BY DEF IInv, TypeOK, States
    <2> QED
        BY <2>1, Moved
<1> HIDE DEF jobs
<1>3. job' \in [Job -> Jobs] /\ job'[j] = jobs[j] /\ \A i \in Job : Alike(job'[i], jobs[i])
    BY <1>1, <1>2, Meddled
<1>4. TypeOK'
    <2>1. job[j].to \in Version
        BY <1>1 DEF IInv, Asked
    <2>2. built' \in BOOLEAN
        BY <1>1, Membership
    <2>3. rec' \in Version /\ UNCHANGED <<live, prev, prec, verdicts, running, updates, quota>>
        BY <1>1, <2>1
    <2> QED
        BY <1>3, <2>2, <2>3 DEF IInv, TypeOK, verdicts, running, updates
<1>5. /\ \A k \in Job : k # j /\ job'[k].st # "free" => job'[k].to \in Version
      /\ \A k \in Job : k # j => (watch'[k] # "none" => ~job'[k].run /\ job'[k].st = "ok")
      /\ \A k \in Job : k # j /\ job'[k].meddled = "no" =>
            watch'[k] = "none" /\ ~Standing(k)' /\ job'[k].st # "building"
    BY <1>1, <1>2, MeddleSteps DEF verdicts
<1>6. watch'[j] = "none"
    BY <1>1 DEF IInv, WatchedIsDone, verdicts
<1>7. Asked' /\ WatchedIsDone' /\ LaterIsNew'
    BY <1>1, <1>2, <1>3, <1>5, <1>6 DEF Asked, WatchedIsDone, LaterIsNew, IInv
<1>8. OverIsBack'
    <2>1. job'[j].meddled = "no" => live' = job'[j].to /\ prev' \in {job'[j].over, None}
        BY <1>1, <1>2, <1>3 DEF IInv, OverIsBack, Standing, UnderWay, Converting
    <2> QED
        BY <1>2, <1>3, <1>5, <2>1 DEF OverIsBack
<1>9. Provenance'
    <2> SUFFICES ASSUME Undisturbed' PROVE Provenance'
        BY DEF Provenance
    <2>1. /\ \A k \in Job : k # j => ~Converting(k) /\ ~Unrecorded(k)
          /\ Undisturbed
        <3>1. Disturbed(j) => Disturbed(j)'
            BY <1>1, <1>2, <1>3 DEF Disturbed
        <3> QED
            BY <1>1, <1>2, <3>1, Alone
    <2>2. \A k \in Job : k # j => job'[k].st = job[k].st /\ job'[k].run = job[k].run
        BY <1>2, <1>3 DEF Alike
    <2>3. \A k \in Job : k # j => ~Converting(k)' /\ ~Unrecorded(k)' /\ job'[k].st # "rotated"
                                 /\ job'[k].st # "building"
        BY <2>1, <2>2 DEF Converting, Unrecorded
    <2>4. job[j].run /\ live = job[j].to /\ Unrecorded(j) /\ prev \in {job[j].from, None}
        <3>1. job[j].run
            BY <1>1, <2>1 DEF IInv, Provenance, Converting
        <3>2. Unrecorded(j)
            BY <1>1, <3>1 DEF Unrecorded
        <3> QED
            BY <1>1, <2>1, <3>1, <3>2 DEF IInv, Provenance
    <2>5. job'[j].st = "registered" /\ job'[j].run /\ Unrecorded(j)'
          /\ prev' \in {job'[j].from, None} /\ rec' = live'
        BY <1>1, <1>2, <1>3, <2>4 DEF Unrecorded
    <2> QED
        BY <2>3, <2>5 DEF Provenance
<1> QED
    BY <1>4, <1>7, <1>8, <1>9 DEF IInv

\* uxcd reaps a job: it records what the upgrade replaced, restarts, and begins the watch.
LEMMA ExitHolds ==
  ASSUME IInv, NEW j \in Job, JobExit(j)
  PROVE IInv'
<1>1. /\ job[j].run /\ job[j].st \in {"ok", "failed", "torn"}
      /\ job' = [job EXCEPT ![j].run = FALSE]
      /\ UNCHANGED <<live, prev, built, rec, checking, quota>>
    BY DEF JobExit
<1>2. /\ job' \in [Job -> Jobs]
      /\ \A i \in Job : i # j => job'[i] = job[i]
      /\ ~job'[j].run /\ job'[j].st = job[j].st
      /\ job'[j].upgrade = job[j].upgrade /\ job'[j].lost = job[j].lost
      /\ job'[j].from = job[j].from /\ job'[j].to = job[j].to
      /\ job'[j].over = job[j].over /\ job'[j].meddled = job[j].meddled
    <2>1. job[j] \in Jobs /\ job \in [Job -> Jobs]
        BY DEF IInv, TypeOK
    <2>2. [job[j] EXCEPT !.run = FALSE] \in Jobs
        BY <2>1 DEF Jobs
    <2> QED
        BY <1>1, <2>1, <2>2 DEF Jobs
<1>3. Asked'
    BY <1>2 DEF IInv, Asked
<1>4. watch[j] = "none"
    BY <1>1 DEF IInv, WatchedIsDone
<1>6. ASSUME \A i \in Job : i # j => watch'[i] = watch[i]
      PROVE OverIsBack'
    <2>1. Standing(j)
        BY <1>1 DEF Standing, UnderWay
    <2>2. \A i \in Job : Standing(i)' => Standing(i)
        BY <1>2, <1>6, <2>1 DEF Standing, UnderWay, Converting
    <2>3. \A i \in Job : /\ job'[i].meddled = job[i].meddled /\ job'[i].st = job[i].st
                         /\ job'[i].over = job[i].over /\ job'[i].to = job[i].to
        BY <1>2
    <2> QED
        BY <1>1, <2>2, <2>3 DEF IInv, OverIsBack
<1>7. ASSUME Undisturbed'
      PROVE Undisturbed /\ job[j].upgrade /\ job[j].from # None /\ job[j].st # "torn"
    <2>1. job[j].upgrade /\ job[j].from # None /\ job[j].st # "torn"
        BY <1>1, <1>2, <1>7 DEF Undisturbed, Disturbed
    <2>2. Disturbed(j) => Disturbed(j)'
        BY <1>2 DEF Disturbed
    <2> QED
        BY <1>2, <1>7, <2>1, <2>2, StillUndisturbed
<1>8. \A i \in Job : i # j => Unrecorded(i)' = Unrecorded(i)
    BY <1>2 DEF Unrecorded
<1>9. ~Unrecorded(j)' /\ ~Converting(j)'
    BY <1>1, <1>2 DEF Unrecorded, Converting
<1>10. ASSUME Undisturbed', (\A i \in Job : ~Unrecorded(i)') => prev' \in {prec', None}
       PROVE Provenance'
    <2>1. Undisturbed
        BY <1>7, <1>10
    <2>2. \A i \in Job : Converting(i)' => job'[i].run
        BY <1>2, <1>9, <2>1 DEF IInv, Provenance, Converting
    <2>3. \A i \in Job : /\ job'[i].st = job[i].st /\ job'[i].to = job[i].to
                         /\ job'[i].from = job[i].from
        BY <1>2
    <2>4. \A i, k \in Job : Unrecorded(i)' /\ Unrecorded(k)' => i = k
        BY <1>8, <1>9, <2>1 DEF IInv, Provenance
    <2>5. \A i \in Job : job'[i].st = "rotated" => live' = job'[i].to
        BY <1>1, <2>1, <2>3 DEF IInv, Provenance
    <2>6. (\A i \in Job : job'[i].st # "rotated") =>
            rec' = live' /\ \A i \in Job : job'[i].st = "building" => job'[i].from = live'
        BY <1>1, <2>1, <2>3 DEF IInv, Provenance
    <2>7. \A i \in Job : Unrecorded(i)' => prev' \in {job'[i].from, None}
        BY <1>1, <1>8, <1>9, <2>1, <2>3 DEF IInv, Provenance
    <2> QED
        BY <1>10, <2>2, <2>4, <2>5, <2>6, <2>7 DEF Provenance
<1>11. CASE job[j].st = "ok" /\ job[j].upgrade
    <2>1. /\ prec' = (IF job[j].from = None THEN prec ELSE job[j].from) /\ Restart(live) /\ avail' = FALSE
          /\ watch' = [watch EXCEPT ![j] = IF Gated THEN "waiting" ELSE "none"]
          /\ base' = [base EXCEPT ![j] = IF Gated THEN inst.started ELSE 0]
          /\ last' = IF Gated THEN "" ELSE last
        BY <1>11 DEF JobExit, Base
    <2>2. /\ ContainerTyped /\ ContainerTyped' /\ RunsOn(live)
          /\ inst.up => inst'.up /\ inst'.ver = inst.ver /\ inst'.started = inst.started
        BY <2>1, Typed, Restarts DEF IInv
    <2>3. job[j].from \in Versions /\ inst.started \in Nat
        <3>1. job[j] \in Jobs
            BY DEF IInv, TypeOK
        <3> QED
            BY <2>2, <3>1 DEF Jobs, ContainerTyped, Insts
    <2>4. TypeOK'
        <3>1. watch' \in [Job -> {"none", "waiting", "expired"}]
            BY <2>1 DEF IInv, TypeOK
        <3>2. base' \in [Job -> Nat]
            BY <2>1, <2>3 DEF IInv, TypeOK
        <3>3. last' \in {"", "verified", "rolled_back", "rollback_failed"}
            BY <2>1 DEF IInv, TypeOK
        <3> QED
            BY <1>1, <1>2, <2>1, <2>2, <2>3, <3>1, <3>2, <3>3
               DEF IInv, TypeOK, ContainerTyped, Insts
    <2>5. \A i \in Job : i # j => watch'[i] = watch[i] /\ base'[i] = base[i]
        BY <2>1 DEF IInv, TypeOK
    <2>6. OverIsBack' /\ WatchedIsDone'
        BY <1>2, <1>6, <1>11, <2>5 DEF IInv, WatchedIsDone
    <2>7. LaterIsNew'
        <3>1. ASSUME watch'[j] # "none", inst'.up, inst'.started > base'[j]
              PROVE inst'.ver = live'
            <4>1. base'[j] = inst.started
                BY <2>1, <3>1 DEF IInv, TypeOK
            <4>2. ~(inst'.started = inst.started)
                BY <2>3, <3>1, <4>1
            <4> QED
                BY <1>1, <2>2, <3>1, <4>2 DEF RunsOn
        <3>2. ASSUME NEW i \in Job, i # j, job'[i].meddled = "no", watch'[i] # "none",
                     inst'.up, inst'.started > base'[i]
              PROVE inst'.ver = live'
            BY <1>1, <1>2, <2>2, <2>5, <3>2 DEF IInv, LaterIsNew, RunsOn
        <3> QED
            BY <3>1, <3>2 DEF LaterIsNew
    <2>8. ASSUME Undisturbed' PROVE prev' \in {prec', None}
        <3>1. Undisturbed /\ Unrecorded(j) /\ job[j].from # None
            BY <1>1, <1>7, <1>11, <2>8 DEF Unrecorded
        <3> QED
            BY <1>1, <2>1, <3>1 DEF IInv, Provenance
    <2>9. Provenance'
        <3> SUFFICES ASSUME Undisturbed' PROVE Provenance'
            BY DEF Provenance
        <3> QED
            BY <1>10, <2>8
    <2> QED
        BY <1>3, <2>4, <2>6, <2>7, <2>9 DEF IInv
<1>12. CASE ~(job[j].st = "ok" /\ job[j].upgrade)
    <2>1. UNCHANGED <<prec, running, avail, verdicts>>
        BY <1>12 DEF JobExit
    <2>2. TypeOK'
        BY <1>1, <1>2, <2>1 DEF IInv, TypeOK, running, verdicts
    <2>3. OverIsBack' /\ WatchedIsDone' /\ LaterIsNew'
        BY <1>1, <1>2, <1>4, <1>6, <2>1
           DEF IInv, WatchedIsDone, LaterIsNew, verdicts, running
    <2>4. ASSUME Undisturbed', \A i \in Job : ~Unrecorded(i)' PROVE prev' \in {prec', None}
        <3>1. Undisturbed /\ ~Unrecorded(j)
            BY <1>1, <1>7, <1>12, <2>4 DEF Unrecorded
        <3> QED
            BY <1>1, <1>8, <2>1, <2>4, <3>1 DEF IInv, Provenance
    <2>5. Provenance'
        <3> SUFFICES ASSUME Undisturbed' PROVE Provenance'
            BY DEF Provenance
        <3> QED
            BY <1>10, <2>4
    <2> QED
        BY <1>3, <2>2, <2>3, <2>5 DEF IInv
<1> QED
    BY <1>11, <1>12

\* The bundles and their provenance are swapped by a rollback, or by the watch of i.
LEMMA SwapHolds ==
  ASSUME IInv, TypeOK', HasPrev, Swap, NEW i, job' = Meddle(job, i),
         i \in Job => watch[i] # "none" /\ watch'[i] = "none",
         \A k \in Job : k # i => watch'[k] = watch[k] /\ base'[k] = base[k]
  PROVE IInv'
<1>1. job \in [Job -> Jobs]
    BY DEF IInv, TypeOK
<1>2. /\ job' \in [Job -> Jobs] /\ \A j \in Job : Alike(job'[j], job[j])
      /\ \A j \in Job : j = i => job'[j] = job[j]
    BY <1>1, Meddled
<1>3. /\ \A k \in Job : k # i /\ job'[k].st # "free" => job'[k].to \in Version
      /\ \A k \in Job : k # i => (watch'[k] # "none" => ~job'[k].run /\ job'[k].st = "ok")
      /\ \A k \in Job : k # i /\ job'[k].meddled = "no" =>
            watch'[k] = "none" /\ ~Standing(k)' /\ job'[k].st # "building"
    BY <1>1, MeddleSteps
<1>4. i \in Job => /\ ~job[i].run /\ job[i].st = "ok" /\ job'[i] = job[i]
                   /\ watch'[i] = "none" /\ ~Standing(i)' /\ ~Converting(i)
                   /\ ~Unrecorded(i)
    BY <1>2 DEF IInv, WatchedIsDone, Standing, UnderWay, Converting, Unrecorded
<1>5. Asked' /\ WatchedIsDone' /\ LaterIsNew' /\ OverIsBack'
    BY <1>3, <1>4 DEF IInv, Asked, WatchedIsDone, LaterIsNew, OverIsBack
<1>6. Provenance'
    <2> SUFFICES ASSUME Undisturbed' PROVE Provenance'
        BY DEF Provenance
    <2>1. /\ \A k \in Job : k # i => ~Converting(k) /\ ~Unrecorded(k)
          /\ Undisturbed
        <3>1. i \in Job => (Disturbed(i) => Disturbed(i)')
            BY <1>4 DEF Disturbed
        <3> QED
            BY <1>1, <3>1, Alone
    <2>2. \A k \in Job : ~Converting(k) /\ ~Unrecorded(k)
        BY <1>4, <2>1
    <2>3. \A k \in Job : ~Converting(k)' /\ ~Unrecorded(k)'
        BY <1>2, <2>2 DEF Alike, Converting, Unrecorded
    <2>4. rec = live /\ prev = prec /\ prec # None
        BY <2>1, <2>2 DEF IInv, Provenance, Converting, HasPrev
    <2>5. rec' = live' /\ prev' = prec'
        BY <2>4 DEF Swap
    <2> QED
        BY <2>3, <2>5 DEF Provenance, Converting, Unrecorded
<1> QED
    BY <1>5, <1>6 DEF IInv

\* A swap leaves each variable of the bundles in its domain.
LEMMA SwapTyped ==
  ASSUME TypeOK, HasPrev, Swap
  PROVE /\ live' \in Version /\ prev' \in Versions /\ rec' \in Version /\ prec' \in Versions
        /\ UNCHANGED built
<1>1. prev \in Version
    BY DEF TypeOK, HasPrev, Versions
<1>2. CASE prec = None
    BY <1>1, <1>2 DEF Swap, TypeOK, Versions
<1>3. CASE prec # None
    BY <1>1, <1>3 DEF Swap, TypeOK, Versions
<1> QED
    BY <1>2, <1>3

\* A manual rollback.
LEMMA RollbackHolds ==
  ASSUME IInv, Rollback
  PROVE IInv'
<1>1. /\ HasPrev /\ Swap /\ Restart(prev) /\ job' = Meddle(job, 0)
      /\ UNCHANGED <<verdicts, updates>> /\ Spend("commands") /\ job \in [Job -> Jobs]
    BY DEF Rollback, IInv, TypeOK
<1>2. TypeOK'
    <2>1. ContainerTyped'
        BY <1>1, Restarts, Typed DEF IInv
    <2>2. job' \in [Job -> Jobs]
        BY <1>1, Meddled
    <2>3. quota' \in [{"commands", "deaths", "exits"} -> Nat]
        BY <1>1, Spends DEF IInv
    <2>4. live' \in Version /\ prev' \in Versions /\ rec' \in Version /\ prec' \in Versions
          /\ UNCHANGED built
        BY <1>1, SwapTyped DEF IInv
    <2> QED
        BY <1>1, <2>1, <2>2, <2>3, <2>4
           DEF IInv, TypeOK, ContainerTyped, Insts, verdicts, updates
<1>3. 0 \notin Job
    BY DEF Job
<1> QED
    BY <1>1, <1>2, <1>3, SwapHolds DEF verdicts

\* A watch comes to its end: verified, or rolled back, or with no backup to go back to.
LEMMA WatchHolds ==
  ASSUME IInv, NEW j \in Job, WatchEnds(j)
  PROVE IInv'
<1>1. /\ watch[j] # "none"
      /\ watch' = [watch EXCEPT ![j] = "none"]
      /\ base' = [base EXCEPT ![j] = 0]
      /\ UNCHANGED <<updates, quota>>
    BY DEF WatchEnds, Ended
<1>2. /\ watch' \in [Job -> {"none", "waiting", "expired"}]
      /\ base' \in [Job -> Nat]
      /\ watch'[j] = "none"
      /\ \A k \in Job : k # j => watch'[k] = watch[k] /\ base'[k] = base[k]
    BY <1>1 DEF IInv, TypeOK
<1>3. CASE UNCHANGED <<bundles, job, running>> /\ last' \in {"verified", "rollback_failed"}
    <2>1. TypeOK'
        BY <1>1, <1>2, <1>3 DEF IInv, TypeOK, bundles, running, updates
    <2>2. Asked' /\ WatchedIsDone' /\ LaterIsNew'
        BY <1>2, <1>3 DEF IInv, Asked, WatchedIsDone, LaterIsNew, bundles, running
    <2>3. \A i \in Job : Standing(i)' => Standing(i)
        BY <1>1, <1>2, <1>3 DEF Standing, UnderWay, Converting
    <2>4. OverIsBack'
        BY <1>3, <2>3 DEF IInv, OverIsBack, bundles
    <2>5. Provenance'
        BY <1>3 DEF IInv, Provenance, Undisturbed, Disturbed, Converting, Unrecorded, bundles
    <2> QED
        BY <2>1, <2>2, <2>4, <2>5 DEF IInv
<1>4. CASE HasPrev /\ last' = "rolled_back" /\ Swap /\ Restart(prev) /\ job' = Meddle(job, j)
    <2>1. ContainerTyped'
        BY <1>4, Restarts, Typed DEF IInv
    <2>2. job' \in [Job -> Jobs]
        BY <1>4, Meddled DEF IInv, TypeOK
    <2>3. live' \in Version /\ prev' \in Versions /\ rec' \in Version /\ prec' \in Versions
          /\ UNCHANGED built
        BY <1>4, SwapTyped DEF IInv
    <2>4. TypeOK'
        BY <1>1, <1>2, <1>4, <2>1, <2>2, <2>3
           DEF IInv, TypeOK, ContainerTyped, Insts, updates
    <2> QED
        BY <1>1, <1>2, <1>4, <2>4, SwapHolds
<1> QED
    BY <1>3, <1>4 DEF WatchEnds

\* The window of a watch passes: a step of no consequence yet.
LEMMA WindowHolds ==
  ASSUME IInv, NEW j \in Job, WindowPasses(j)
  PROVE IInv'
<1>1. /\ watch[j] # "none" /\ watch' = [watch EXCEPT ![j] = "expired"]
      /\ UNCHANGED <<bundles, job, base, last, running, updates, quota>>
    BY DEF WindowPasses
<1>2. /\ watch' \in [Job -> {"none", "waiting", "expired"}]
      /\ \A i \in Job : watch'[i] = "none" <=> watch[i] = "none"
    BY <1>1 DEF IInv, TypeOK
<1> USE DEF bundles, running, updates
<1>3. TypeOK'
    BY <1>1, <1>2 DEF IInv, TypeOK
<1>4. Asked' /\ WatchedIsDone' /\ LaterIsNew'
    BY <1>1, <1>2 DEF IInv, Asked, WatchedIsDone, LaterIsNew
<1>5. OverIsBack'
    BY <1>1, <1>2 DEF IInv, OverIsBack, Standing, UnderWay, Converting
<1>6. Provenance'
    BY <1>1 DEF IInv, Provenance, Undisturbed, Disturbed, Converting, Unrecorded
<1> QED
    BY <1>3, <1>4, <1>5, <1>6 DEF IInv

\* A prune takes the backup.
LEMMA PruneHolds ==
  ASSUME IInv, Prune
  PROVE IInv'
<1>1. /\ prev' = None /\ Spend("commands")
      /\ UNCHANGED <<live, built, rec, prec, job, verdicts, running, updates>>
    BY DEF Prune
<1> USE DEF verdicts, running, updates
<1>2. TypeOK'
    BY <1>1, Spends DEF IInv, TypeOK, Versions
<1>3. Asked' /\ WatchedIsDone' /\ LaterIsNew'
    BY <1>1 DEF IInv, Asked, WatchedIsDone, LaterIsNew
<1>4. OverIsBack'
    BY <1>1 DEF IInv, OverIsBack, Standing, UnderWay, Converting
<1>5. Provenance'
    BY <1>1 DEF IInv, Provenance, Undisturbed, Disturbed, Converting, Unrecorded
<1> QED
    BY <1>2, <1>3, <1>4, <1>5 DEF IInv

\* The update check, apart from the upgrade it may start.
LEMMA CheckHolds ==
  ASSUME IInv, CheckStarts \/ CheckEnds, UNCHANGED job
  PROVE IInv'
<1>1. /\ UNCHANGED <<bundles, job, verdicts, running>> /\ checking' \in BOOLEAN
      /\ avail' \in BOOLEAN
    BY DEF CheckStarts, CheckEnds, IInv, TypeOK
<1>2. quota' \in [{"commands", "deaths", "exits"} -> Nat]
    BY Spends DEF CheckStarts, CheckEnds, IInv, TypeOK
<1> USE DEF bundles, verdicts, running
<1>3. TypeOK'
    BY <1>1, <1>2 DEF IInv, TypeOK
<1>4. RunsOn(live)
    BY <1>1 DEF RunsOn
<1> QED
    BY <1>1, <1>3, <1>4, ContainerSteps

\* A job is started by ubus upgrade, pull or build, or by an automatic upgrade, which
\* does not ask for the lock.
LEMMA BeginHolds ==
  ASSUME IInv, NEW j \in Job, NEW to \in Version, NEW upgrade \in BOOLEAN,
         JobStart(j, upgrade, to), UNCHANGED <<bundles, verdicts, running>>,
         checking' \in BOOLEAN, avail' \in BOOLEAN,
         quota' \in [{"commands", "deaths", "exits"} -> Nat]
  PROVE IInv'
<1>1. job' \in [Job -> Jobs]
    BY Started DEF IInv
<1> USE DEF bundles, verdicts, running
<1>2. TypeOK'
    BY <1>1 DEF IInv, TypeOK
<1> QED
    BY <1>2, StartHolds

\* The daemon dies: jobs and watches are forgotten, converters go on.
LEMMA DeathHolds ==
  ASSUME IInv, DaemonDies
  PROVE IInv'
<1>1. /\ Spend("deaths")
      /\ job' = [j \in Job |-> [job[j] EXCEPT !.run = FALSE, !.lost = @ \/ job[j].run]]
      /\ watch' = [j \in Job |-> "none"] /\ base' = [j \in Job |-> 0]
      /\ last' = "" /\ avail' = FALSE /\ checking' = FALSE
      /\ launches' = launches + 1
      /\ UNCHANGED bundles
    BY DEF DaemonDies
<1>2. ASSUME NEW j \in Job
      PROVE /\ job'[j] \in Jobs /\ ~job'[j].run /\ job'[j].lost = (job[j].lost \/ job[j].run)
            /\ job'[j].st = job[j].st /\ job'[j].upgrade = job[j].upgrade
            /\ job'[j].from = job[j].from /\ job'[j].to = job[j].to
            /\ job'[j].over = job[j].over /\ job'[j].meddled = job[j].meddled
    <2>1. job[j] \in Jobs
        BY DEF IInv, TypeOK
    <2> DEFINE gone == job[j].lost \/ job[j].run
    <2>2. job'[j] = [job[j] EXCEPT !.run = FALSE, !.lost = gone]
        BY <1>1
    <2>3. gone \in BOOLEAN
        BY <2>1 DEF Jobs
    <2> HIDE DEF gone
    <2>4. /\ job'[j] \in Jobs /\ ~job'[j].run /\ job'[j].lost = gone
          /\ job'[j].st = job[j].st /\ job'[j].upgrade = job[j].upgrade
          /\ job'[j].from = job[j].from /\ job'[j].to = job[j].to
          /\ job'[j].over = job[j].over /\ job'[j].meddled = job[j].meddled
        BY <2>1, <2>2, <2>3 DEF Jobs
    <2> QED
        BY <2>4 DEF gone
<1>3. job' \in [Job -> Jobs]
    <2>1. job' = [j \in Job |-> job'[j]]
        BY <1>1
    <2> QED
        BY <1>2, <2>1
<1>4. inst' \in Insts /\ launches' \in Nat /\ desired' \in {"UP", "DOWN"}
    <2>1. inst \in Insts /\ launches \in Nat /\ launches + 1 \in Nat
        <3>1. inst \in Insts /\ launches \in Nat
            BY DEF IInv, TypeOK, Insts
        <3> QED
            BY <3>1
    <2>2. CASE inst.up
        <3>1. desired' = "UP"
              /\ inst' = [inst EXCEPT !.healthy = FALSE, !.started = launches + 1]
            BY <2>2 DEF DaemonDies
        <3> QED
            BY <1>1, <2>1, <3>1 DEF Insts
    <2>3. CASE ~inst.up
        BY <1>1, <2>1, <2>3 DEF DaemonDies
    <2> QED
        BY <2>2, <2>3
<1>5. TypeOK'
    <2>1. quota' \in [{"commands", "deaths", "exits"} -> Nat]
        BY <1>1, Spends DEF IInv
    <2> QED
        BY <1>1, <1>3, <1>4, <2>1 DEF IInv, TypeOK, bundles, Insts
<1>6. Asked' /\ WatchedIsDone' /\ LaterIsNew'
    BY <1>1, <1>2 DEF IInv, Asked, WatchedIsDone, LaterIsNew
<1>7. OverIsBack'
    <2>1. \A j \in Job : Standing(j)' => Standing(j)
        BY <1>1, <1>2 DEF Standing, UnderWay, Converting
    <2> QED
        BY <1>1, <1>2, <2>1 DEF IInv, OverIsBack, bundles
<1>8. Provenance'
    <2> SUFFICES ASSUME Undisturbed' PROVE Provenance'
        BY DEF Provenance
    <2>1. \A j \in Job : ~Unrecorded(j) /\ ~Unrecorded(j)'
        BY <1>2 DEF Undisturbed, Disturbed, Unrecorded
    <2>2. Undisturbed
        BY <1>2 DEF Undisturbed, Disturbed
    <2>3. \A j \in Job : ~Converting(j)
        <3>1. ASSUME NEW j \in Job, Converting(j) PROVE FALSE
            <4>1. job[j].run
                BY <2>2, <3>1 DEF IInv, Provenance
            <4> QED
                BY <1>2, <3>1, <4>1 DEF Converting, Undisturbed, Disturbed
        <3> QED
            BY <3>1
    <2>4. \A j \in Job : ~Converting(j)'
        BY <1>2, <2>3 DEF Converting
    <2>5. rec' = live' /\ prev' \in {prec', None}
        BY <1>1, <2>1, <2>2, <2>3 DEF IInv, Provenance, Converting, bundles
    <2> QED
        BY <2>1, <2>4, <2>5 DEF Provenance, Converting
<1> QED
    BY <1>5, <1>6, <1>7, <1>8 DEF IInv

-----------------------------------------------------------------------------
(* The theorems.                                                           *)

\* Every step keeps the invariant.
LEMMA Steps == IInv /\ [Next]_vars => IInv'
<1> SUFFICES ASSUME IInv, [Next]_vars PROVE IInv'
    OBVIOUS
<1>1. CASE Relaunch \/ InstExits \/ HealthVerdict \/ Start \/ Stop
    BY <1>1, ContainerStepsHold
<1>2. ASSUME NEW j \in Job, NEW to \in Version, Upgrade(j, to) PROVE IInv'
    <2>1. /\ JobStart(j, TRUE, to) /\ UNCHANGED <<bundles, verdicts, running, updates>>
          /\ quota' \in [{"commands", "deaths", "exits"} -> Nat]
        BY <1>2, Spends DEF Upgrade, IInv
    <2> QED
        BY <2>1, BeginHolds DEF updates, IInv, TypeOK
<1>3. ASSUME NEW j \in Job, NEW to \in Version, Pull(j, to) PROVE IInv'
    <2>1. /\ JobStart(j, FALSE, to) /\ UNCHANGED <<bundles, verdicts, running, updates>>
          /\ quota' \in [{"commands", "deaths", "exits"} -> Nat]
        BY <1>3, Spends DEF Pull, IInv
    <2> QED
        BY <2>1, BeginHolds DEF updates, IInv, TypeOK
<1>4. ASSUME NEW j \in Job,
             \/ ConverterRotates(j) \/ ConverterRegisters(j) \/ ConverterSucceeds(j)
             \/ ConverterFails(j) \/ Cancel(j) \/ JobExit(j) \/ WatchEnds(j)
             \/ WindowPasses(j)
      PROVE IInv'
    BY <1>4, RotateHolds, RegisterHolds, EndHolds, ExitHolds, WatchHolds, WindowHolds
<1>5. CASE Rollback \/ Prune \/ CheckStarts \/ DaemonDies
    <2>1. ASSUME CheckStarts PROVE IInv'
        BY <2>1, CheckHolds DEF CheckStarts
    <2> QED
        BY <1>5, <2>1, RollbackHolds, PruneHolds, DeathHolds
<1>6. CASE CheckEnds
    <2>1. CASE UNCHANGED job
        BY <1>6, <2>1, CheckHolds
    <2>2. CASE \E j \in Job, to \in Version : (built <=> to \in Built) /\ JobStart(j, TRUE, to)
        <3>1. PICK j \in Job, to \in Version : JobStart(j, TRUE, to)
            BY <2>2
        <3>2. /\ checking' \in BOOLEAN /\ avail' \in BOOLEAN
              /\ UNCHANGED <<bundles, verdicts, running, quota>>
            BY <1>6 DEF CheckEnds
        <3> QED
            BY <3>1, <3>2, BeginHolds DEF IInv, TypeOK
    <2> QED
        BY <1>6, <2>1, <2>2 DEF CheckEnds
<1>7. CASE UNCHANGED vars
    <2>1. TypeOK'
        BY <1>7 DEF IInv, TypeOK, vars
    <2>2. UNCHANGED <<bundles, job, watch, base, inst>>
        BY <1>7 DEF vars, bundles
    <2>3. RunsOn(live)
        BY <2>2 DEF RunsOn
    <2> QED
        BY <2>1, <2>2, <2>3, ContainerSteps
<1> QED
    BY <1>1, <1>2, <1>3, <1>4, <1>5, <1>6, <1>7 DEF Next

\* The invariant holds of every behaviour.
LEMMA Invariance == Spec => []IInv
<1>1. Init => IInv
    BY InitHolds
<1>2. IInv /\ [Next]_vars => IInv'
    BY Steps
<1> QED
    BY <1>1, <1>2, PTL DEF Spec

\* Every variable stays in its domain: in particular the path of the container always
\* holds a bundle, for no swap is made without a backup (rollback_swap).
THEOREM UpdatesAreTyped == Spec => []TypeOK
<1>1. IInv => TypeOK
    BY DEF IInv
<1> QED
    BY <1>1, Invariance, PTL

\* A job is asked for one version, and once disturbed it stays so.
LEMMA JobGoesOn ==
  ASSUME IInv, [Next]_vars, NEW j \in Job, job[j].st # "free"
  PROVE /\ job'[j].st # "free" /\ job'[j].to = job[j].to
        /\ Disturbed(j) => Disturbed(j)'
<1> DEFINE Same == /\ job'[j].st # "free" /\ job'[j].to = job[j].to
                   /\ Disturbed(j) => Disturbed(j)'
<1>1. job \in [Job -> Jobs] /\ TypeOK /\ job[j] \in Jobs
    BY DEF IInv, TypeOK
<1>2. ASSUME job' = job PROVE Same
    BY <1>2 DEF Disturbed
<1>3. ASSUME NEW i \in Job, NEW u \in BOOLEAN, NEW to \in Version, JobStart(i, u, to)
      PROVE Same
    <2>1. job'[j] = job[j]
        BY <1>1, <1>3, Started
    <2> QED
        BY <2>1 DEF Disturbed
<1>4. ASSUME NEW jobs \in [Job -> Jobs], NEW i, job' = Meddle(jobs, i), jobs[j].st # "free",
             jobs[j].to = job[j].to, jobs[j].upgrade = job[j].upgrade,
             jobs[j].from = job[j].from, jobs[j].lost = job[j].lost,
             jobs[j].meddled = job[j].meddled, job[j].st = "torn" => jobs[j].st = "torn"
      PROVE Same
    <2>1. /\ Alike(job'[j], jobs[j])
          /\ jobs[j].meddled = "converting" => job'[j].meddled = "converting"
        BY <1>4, Meddled
    <2> QED
        BY <1>4, <2>1 DEF Alike, Disturbed
<1>5. ASSUME NEW i \in Job, ConverterRotates(i) \/ ConverterRegisters(i) PROVE Same
    <2>1. PICK s \in {"rotated", "registered"} :
            job' = Meddle(MovedTo(job, i, s), i) /\ job[i].st # "torn"
        BY <1>5 DEF ConverterRotates, ConverterRegisters, MovedTo
    <2> DEFINE jobs == MovedTo(job, i, s)
    <2>2. /\ jobs \in [Job -> Jobs] /\ jobs[j].to = job[j].to
          /\ jobs[j].upgrade = job[j].upgrade /\ jobs[j].from = job[j].from
          /\ jobs[j].lost = job[j].lost /\ jobs[j].meddled = job[j].meddled
          /\ jobs[j].st # "free" /\ (job[j].st = "torn" => jobs[j].st = "torn")
        <3>1. s \in States
            BY DEF States
        <3> QED
            BY <1>1, <2>1, <3>1, Moved
    <2> HIDE DEF jobs
    <2>3. job' = Meddle(jobs, i)
        BY <2>1 DEF jobs
    <2> QED
        BY <1>4, <2>2, <2>3
<1>6. ASSUME NEW i \in Job, ConverterSucceeds(i) \/ ConverterFails(i) \/ Cancel(i) PROVE Same
    <2>1. PICK s \in {"ok", "failed", "torn"} :
            job' = MovedTo(job, i, s) /\ job[i].st # "torn"
        BY <1>6 DEF ConverterSucceeds, ConverterFails, Cancel, Converting, MovedTo
    <2>2. s \in States
        BY DEF States
    <2> QED
        BY <1>1, <2>1, <2>2, Moved DEF Disturbed
<1>7. ASSUME NEW i \in Job, JobExit(i) PROVE Same
    <2>1. job' = [job EXCEPT ![i].run = FALSE]
        BY <1>7 DEF JobExit
    <2>2. /\ job'[j].st = job[j].st /\ job'[j].to = job[j].to /\ job'[j].from = job[j].from
          /\ job'[j].upgrade = job[j].upgrade /\ job'[j].lost = job[j].lost
          /\ job'[j].meddled = job[j].meddled
        BY <1>1, <2>1 DEF Jobs
    <2> QED
        BY <2>2 DEF Disturbed
<1>8. ASSUME NEW i, job' = Meddle(job, i) PROVE Same
    BY <1>1, <1>4, <1>8
<1>9. ASSUME NEW i \in Job, WatchEnds(i) PROVE Same
    BY <1>2, <1>8, <1>9 DEF WatchEnds
<1>10. ASSUME DaemonDies PROVE Same
    <2>1. job'[j] = [job[j] EXCEPT !.run = FALSE, !.lost = job[j].lost \/ job[j].run]
        BY <1>10 DEF DaemonDies
    <2>2. /\ job'[j].st = job[j].st /\ job'[j].to = job[j].to /\ job'[j].from = job[j].from
          /\ job'[j].upgrade = job[j].upgrade /\ job'[j].meddled = job[j].meddled
          /\ job'[j].lost = (job[j].lost \/ job[j].run)
        BY <1>1, <2>1 DEF Jobs
    <2> QED
        BY <2>2 DEF Disturbed
<1>11. ASSUME Rollback PROVE Same
    BY <1>8, <1>11 DEF Rollback
<1>12. CASE CheckEnds
    BY <1>2, <1>3, <1>12 DEF CheckEnds
<1>13. ASSUME NEW i \in Job, NEW to \in Version, Upgrade(i, to) \/ Pull(i, to) PROVE Same
    BY <1>3, <1>13 DEF Upgrade, Pull
<1>14. ASSUME UNCHANGED job PROVE Same
    BY <1>2, <1>14
<1>15. CASE \/ Relaunch \/ InstExits \/ HealthVerdict \/ Start \/ Stop \/ Prune \/ CheckStarts
            \/ UNCHANGED vars \/ \E i \in Job : WindowPasses(i)
    BY <1>14, <1>15
       DEF vars, Relaunch, InstExits, HealthVerdict, Start, Stop, WindowPasses, Prune,
           CheckStarts
<1>16. Same
    BY <1>5, <1>6, <1>7, <1>9, <1>10, <1>11, <1>12, <1>13, <1>15 DEF Next
<1> QED
    BY <1>16 DEF Same

\* A container stays built, or pulled, while no job is disturbed: nothing is recorded of
\* an upgrade that changes it.
LEMMA KindsHold == IInv /\ Kinds /\ [Next]_vars => Kinds'
<1> SUFFICES ASSUME IInv, Kinds, [Next]_vars, Undisturbed' PROVE Kinds'
    BY DEF Kinds
<1>1. \A j \in Job : job[j].st # "free" => job'[j].st # "free" /\ job'[j].to = job[j].to
    BY JobGoesOn
<1>2. Undisturbed
    BY JobGoesOn DEF Undisturbed, Disturbed
<1>3. /\ built <=> live \in Built
      /\ prev # None => (built <=> prev \in Built)
      /\ \A j \in Job : job[j].st # "free" => (built <=> job[j].to \in Built)
    BY <1>2 DEF Kinds
<1>4. ASSUME UNCHANGED built, NEW j \in Job, job[j].st # "free", job'[j].st # "free"
      PROVE built' <=> job'[j].to \in Built
    BY <1>1, <1>3, <1>4
<1>5. ASSUME NEW i \in Job, NEW u \in BOOLEAN, NEW to \in Version, JobStart(i, u, to),
             to \in Built => built, UNCHANGED bundles
      PROVE Kinds'
    <2>1. /\ \A j \in Job : j # i => job'[j] = job[j]
          /\ job'[i].to = to /\ job'[i].st # "free" /\ job[i].st = "free"
        BY <1>5, Started DEF IInv
    <2>2. job'[i].from # None
        BY <2>1 DEF Undisturbed, Disturbed
    <2>3. job'[i].from = (IF u THEN Origin(to) ELSE None)
        <3>1. job \in [Job -> Jobs]
            BY DEF IInv, TypeOK
        <3> QED
            BY <1>5, <3>1 DEF JobStart
    <2>4. built => to \in Built
        BY <2>2, <2>3 DEF Origin
    <2>5. built <=> to \in Built
        BY <1>5, <2>4
    <2> QED
        BY <1>3, <1>5, <2>1, <2>5 DEF Kinds, bundles
<1>6. ASSUME NEW i \in Job, ConverterRotates(i) PROVE Kinds'
    <2>1. /\ live' = job[i].to /\ prev' = live /\ UNCHANGED built /\ job[i].st = "building"
          /\ job' = Meddle(MovedTo(job, i, "rotated"), i)
        BY <1>6 DEF ConverterRotates, MovedTo
    <2>2. \A j \in Job : job'[j].st # "free" => job[j].st # "free"
        <3> DEFINE jobs == MovedTo(job, i, "rotated")
        <3>1. job \in [Job -> Jobs] /\ "rotated" \in States
            BY DEF IInv, TypeOK, States
        <3>2. jobs \in [Job -> Jobs] /\ \A j \in Job : j # i => jobs[j] = job[j]
            BY <3>1, Moved
        <3> HIDE DEF jobs
        <3>3. \A j \in Job : Alike(job'[j], jobs[j])
            BY <2>1, <3>2, Meddled DEF jobs
        <3> QED
            BY <2>1, <3>2, <3>3 DEF Alike
    <2>3. (built' <=> live' \in Built) /\ (built' <=> prev' \in Built)
        BY <1>3, <2>1
    <2> QED
        BY <1>4, <2>1, <2>2, <2>3 DEF Kinds
<1>7. ASSUME NEW i \in Job, ConverterRegisters(i) PROVE Kinds'
    <2>1. /\ UNCHANGED <<live, prev>> /\ built' = (job[i].to \in Built) /\ job[i].st = "rotated"
          /\ job' = Meddle(MovedTo(job, i, "registered"), i)
        BY <1>7 DEF ConverterRegisters, MovedTo
    <2>2. \A j \in Job : job'[j].st # "free" => job[j].st # "free"
        <3> DEFINE jobs == MovedTo(job, i, "registered")
        <3>1. job \in [Job -> Jobs] /\ "registered" \in States
            BY DEF IInv, TypeOK, States
        <3>2. jobs \in [Job -> Jobs] /\ \A j \in Job : j # i => jobs[j] = job[j]
            BY <3>1, Moved
        <3> HIDE DEF jobs
        <3>3. \A j \in Job : Alike(job'[j], jobs[j])
            BY <2>1, <3>2, Meddled DEF jobs
        <3> QED
            BY <2>1, <3>2, <3>3 DEF Alike
    <2>3. /\ built' <=> built
          /\ \A j \in Job : job'[j].st # "free" => (built' <=> job'[j].to \in Built)
        BY <1>1, <1>3, <2>1, <2>2
    <2> QED
        BY <1>3, <2>1, <2>3 DEF Kinds
<1>8. ASSUME Swap, HasPrev, NEW i, job' = Meddle(job, i) PROVE Kinds'
    <2>1. live' = prev /\ prev' = live /\ UNCHANGED built /\ prev # None
        BY <1>8 DEF Swap, HasPrev
    <2>2. \A j \in Job : job'[j].st # "free" => job[j].st # "free"
        <3>1. job \in [Job -> Jobs]
            BY DEF IInv, TypeOK
        <3> QED
            BY <1>8, <3>1, Meddled DEF Alike
    <2>3. (built' <=> live' \in Built) /\ (built' <=> prev' \in Built)
        BY <1>3, <2>1
    <2> QED
        BY <1>4, <2>1, <2>2, <2>3 DEF Kinds
<1>9. ASSUME UNCHANGED <<live, built>>, prev' \in {prev, None},
             \A j \in Job : job'[j].st # "free" => job[j].st # "free"
      PROVE Kinds'
    BY <1>3, <1>4, <1>9 DEF Kinds
<1>10. ASSUME UNCHANGED <<live, prev, built, job>> PROVE Kinds'
    BY <1>9, <1>10
<1>11. ASSUME NEW i \in Job,
              ConverterSucceeds(i) \/ ConverterFails(i) \/ Cancel(i) \/ JobExit(i)
       PROVE Kinds'
    <2>1. job[i].st # "free" /\ UNCHANGED <<live, prev, built>>
        BY <1>11 DEF ConverterSucceeds, ConverterFails, Cancel, JobExit, Converting, bundles
    <2>2. \A j \in Job : j # i => job'[j] = job[j]
        BY <1>11 DEF ConverterSucceeds, ConverterFails, Cancel, JobExit, IInv, TypeOK
    <2> QED
        BY <1>9, <2>1, <2>2
<1>12. ASSUME NEW i \in Job, WatchEnds(i) PROVE Kinds'
    BY <1>8, <1>10, <1>12 DEF WatchEnds, bundles
<1>13. ASSUME DaemonDies PROVE Kinds'
    <2>1. UNCHANGED <<live, prev, built>>
        BY <1>13 DEF DaemonDies, bundles
    <2>2. ASSUME NEW j \in Job PROVE job'[j].st = job[j].st
        <3>1. job[j] \in Jobs
            BY DEF IInv, TypeOK
        <3>2. job'[j] = [job[j] EXCEPT !.run = FALSE, !.lost = job[j].lost \/ job[j].run]
            BY <1>13 DEF DaemonDies
        <3> QED
            BY <3>1, <3>2 DEF Jobs
    <2> QED
        BY <1>9, <2>1, <2>2
<1>14. ASSUME NEW i \in Job, NEW to \in Version, Upgrade(i, to) PROVE Kinds'
    BY <1>5, <1>14 DEF Upgrade
<1>15. ASSUME NEW i \in Job, NEW to \in Version, Pull(i, to) PROVE Kinds'
    <2>1. JobStart(i, FALSE, to) /\ job \in [Job -> Jobs] /\ TypeOK
        BY <1>15 DEF Pull, IInv, TypeOK
    <2>2. job'[i].st # "free" /\ ~job'[i].upgrade
        BY <2>1, Started
    <2> QED
        BY <2>2 DEF Undisturbed, Disturbed
<1>16. CASE Rollback
    BY <1>8, <1>16 DEF Rollback
<1>17. CASE CheckEnds
    <2>1. UNCHANGED bundles
        BY <1>17 DEF CheckEnds
    <2>2. CASE UNCHANGED job
        BY <1>10, <2>1, <2>2 DEF bundles
    <2>3. CASE \E i \in Job, to \in Version : (built <=> to \in Built) /\ JobStart(i, TRUE, to)
        <3>1. PICK i \in Job, to \in Version : (built <=> to \in Built) /\ JobStart(i, TRUE, to)
            BY <2>3
        <3>2. to \in Built => built
            BY <3>1
        <3> QED
            BY <1>5, <2>1, <3>1, <3>2
    <2> QED
        BY <1>17, <2>2, <2>3 DEF CheckEnds
<1>18. CASE Prune
    BY <1>9, <1>18 DEF Prune
<1> QED
    BY <1>6, <1>7, <1>10, <1>11, <1>12, <1>13, <1>14, <1>15, <1>16, <1>17, <1>18
       DEF Next, vars, bundles, Relaunch, InstExits, HealthVerdict, Start, Stop,
           WindowPasses, CheckStarts

\* The registry describes the live bundle, and whether it was built, through every
\* upgrade whose origin uxcd knows, rollback, automatic rollback, prune and death,
\* however many, so long as no job was disturbed: the upgrade of a built container to a
\* given image counts as one, since nothing is recorded of it (swap_provenance,
\* job_exit_cb).
THEOREM RegistryDescribesLive == Spec => []RecordedIsLive
<1>1. Init => Kinds
    <2> SUFFICES ASSUME Init PROVE Kinds
        OBVIOUS
    <2>1. \A j \in Job : job[j].st = "free"
        BY DEF Init, NoJob
    <2>2. (built <=> live \in Built) /\ prev = None
        BY DEF Init
    <2> QED
        BY <2>1, <2>2 DEF Kinds
<1>2. IInv /\ Kinds /\ [Next]_vars => Kinds'
    BY KindsHold
<1>3. IInv /\ Kinds => RecordedIsLive
    <2> SUFFICES ASSUME IInv, Kinds, \A j \in Job : ~Disturbed(j) /\ job[j].st # "rotated"
                 PROVE rec = live /\ (built <=> live \in Built)
        BY DEF RecordedIsLive
    <2> QED
        BY DEF IInv, Provenance, Undisturbed, Kinds
<1> QED
    BY <1>1, <1>2, <1>3, Invariance, PTL DEF Spec

\* A converter and a swap meddle with whoever watches.
LEMMA MeddlingShows ==
  ASSUME IInv, NEW j \in Job, watch[j] # "none", NEW i, NEW jobs \in [Job -> Jobs],
         job' = Meddle(jobs, i), i # j
  PROVE job'[j].meddled # "no"
  BY Meddled

\* Past its window, a watch sees the bundle change unmeddled only by its own rollback,
\* to what its upgrade replaced (watch_health).
THEOREM RollbackIsToWhatWasReplaced == Spec => RollbackRestores
<1>1. ASSUME IInv, [Next]_vars, NEW j \in Job, watch[j] = "expired", live' # live,
             job'[j].meddled = "no"
      PROVE live' = job[j].over
    <2>1. job \in [Job -> Jobs] /\ 0 \notin Job /\ ~job[j].run /\ job[j].st = "ok"
        <3>1. 0 \notin Job
            BY DEF Job
        <3> QED
            BY <1>1, <3>1 DEF IInv, TypeOK, WatchedIsDone
    <2>2. ASSUME NEW i \in Job, ConverterRotates(i) PROVE FALSE
        <3>1. job' = Meddle(MovedTo(job, i, "rotated"), i) /\ job[i].st = "building"
            BY <2>2 DEF ConverterRotates, MovedTo
        <3>2. MovedTo(job, i, "rotated") \in [Job -> Jobs] /\ i # j
            <4>1. "rotated" \in States
                BY DEF States
            <4> QED
                BY <2>1, <3>1, <4>1, Moved
        <3> QED
            BY <1>1, <3>1, <3>2, MeddlingShows
    <2>3. CASE Rollback
        <3>1. job' = Meddle(job, 0)
            BY <2>3 DEF Rollback
        <3> QED
            BY <1>1, <2>1, <3>1, MeddlingShows
    <2>4. ASSUME NEW i \in Job, WatchEnds(i) PROVE live' = job[j].over
        <3>1. HasPrev /\ Swap /\ job' = Meddle(job, i)
            BY <1>1, <2>4 DEF WatchEnds, bundles
        <3>2. i = j
            BY <1>1, <2>1, <3>1, MeddlingShows
        <3>3. job[j].meddled = "no"
            BY <1>1, <2>1, <3>1, Meddled
        <3>4. prev \in {job[j].over, None}
            BY <1>1, <2>1, <3>3 DEF IInv, OverIsBack, Standing
        <3> QED
            BY <3>1, <3>4 DEF HasPrev, Swap
    <2> QED
        BY <1>1, <2>2, <2>3, <2>4
           DEF Next, Relaunch, InstExits, HealthVerdict, Start, Stop, Upgrade, Pull,
               ConverterRegisters, ConverterSucceeds, ConverterFails, Cancel, JobExit,
               WindowPasses, Prune, CheckStarts, CheckEnds, DaemonDies, bundles, vars
<1>2. IInv /\ [Next]_vars =>
        [\A j \in Job : watch[j] = "expired" /\ live' # live /\ job'[j].meddled = "no"
                      => live' = job[j].over]_vars
    BY <1>1
<1> QED
    BY <1>2, Invariance, PTL DEF Spec, RollbackRestores

\* An upgrade that nobody meddled with is verified on account of an instance of the
\* version it brought, and that version is live (after_started of watch_health).
THEOREM VerifiedUpgradeIsLive == Spec => VerifiedIsNew
<1>1. ASSUME IInv, [Next]_vars, NEW j \in Job, watch[j] # "none", watch'[j] = "none",
             job[j].meddled = "no", last' = "verified"
      PROVE inst.ver = job[j].to /\ live = job[j].to
    <2>1. ~job[j].run /\ job[j].st = "ok" /\ watch \in [Job -> {"none", "waiting", "expired"}]
        BY <1>1 DEF IInv, TypeOK, WatchedIsDone
    <2>2. live = job[j].to
        BY <1>1, <2>1 DEF IInv, OverIsBack, Standing
    <2>3. ASSUME NEW i \in Job, WatchEnds(i) PROVE inst.ver = live
        <3>1. i = j
            BY <1>1, <2>1, <2>3 DEF WatchEnds
        <3>2. Verified(j)
            BY <1>1, <2>3, <3>1 DEF WatchEnds
        <3> QED
            BY <1>1, <3>2 DEF Verified, IInv, LaterIsNew
    <2>4. ASSUME NEW i \in Job, JobExit(i) PROVE FALSE
        <3>1. i # j /\ (watch' = watch \/ \E w : watch' = [watch EXCEPT ![i] = w])
            BY <2>1, <2>4 DEF JobExit, verdicts
        <3> QED
            BY <1>1, <2>1, <3>1
    <2>5. ASSUME NEW i \in Job, WindowPasses(i) PROVE FALSE
        BY <1>1, <2>1, <2>5 DEF WindowPasses
    <2>6. ~DaemonDies
        BY <1>1 DEF DaemonDies
    <2>7. \E i \in Job : WatchEnds(i)
        BY <1>1, <2>4, <2>5, <2>6
           DEF Next, Relaunch, InstExits, HealthVerdict, Start, Stop, Upgrade, Pull,
               ConverterRotates, ConverterRegisters, ConverterSucceeds, ConverterFails,
               Cancel, Rollback, Prune, CheckStarts, CheckEnds, verdicts, vars
    <2> QED
        BY <2>2, <2>3, <2>7
<1>2. IInv /\ [Next]_vars =>
        [\A j \in Job : /\ watch[j] # "none" /\ watch'[j] = "none" /\ job[j].meddled = "no"
                        /\ last' = "verified"
                        => inst.ver = job[j].to /\ live = job[j].to]_vars
    BY <1>1
<1> QED
    BY <1>2, Invariance, PTL DEF Spec, VerifiedIsNew
=============================================================================
