----------------------------- MODULE SafeUpdate -----------------------------
(***************************************************************************)
(* Upgrades of one container: the pull or build job, the rotation of the   *)
(* bundle and its .prev backup, the recorded provenance, the health watch  *)
(* that verifies the new bundle or rolls it back, and what else may happen *)
(* to the container meanwhile: a manual rollback, a second upgrade, a      *)
(* plain pull, a prune, a stop, an auto upgrade, the daemon's death.       *)
(*                                                                         *)
(* The supervisor is module Supervisor; here a restart signals a running   *)
(* instance and launches one that is down, at once or later.  A bundle,    *)
(* its image and digest are one version; what the image registry offers is *)
(* the environment's choice.  The converter (docker2uxc) runs in the job's *)
(* child process and is outside this repository: it builds aside, rotates  *)
(* the bundles, registers the new provenance and exits.                    *)
(***************************************************************************)
EXTENDS Naturals

CONSTANTS
  Version,      \* versions of the image
  Good,         \* the versions that can become healthy
  Built,        \* the versions built here from a Dockerfile; the others are pulled
  None,
  MaxJobs,      \* how many jobs a behaviour may contain
  Gated,        \* the container has a healthcheck and settings.safe_update is on
  AutoUpgrade,  \* the container's auto_upgrade flag
  Commands,     \* how many user commands a behaviour may contain
  Deaths,       \* how many times the daemon may die
  Exits         \* how often the container may exit on its own

ASSUME SafeUpdateAssumption ==
  /\ None \notin Version
  /\ Good \subseteq Version /\ Built \subseteq Version
  /\ Gated \in BOOLEAN /\ AutoUpgrade \in BOOLEAN
  /\ MaxJobs \in Nat /\ Commands \in Nat /\ Deaths \in Nat /\ Exits \in Nat

VARIABLES
  live, prev,   \* the versions in <path> and <path>.prev
  built,        \* the registry file has a build block, and no image/digest
  rec, prec,    \* image/digest or build.base/base_digest, and prev_image/prev_digest
  job,          \* the jobs map, and the converter processes behind it
  watch,        \* watch_health tasks, one per job: none, waiting or expired
  base,         \* the start of the instance each watch must see a later one than
  last,         \* last_update
  inst,         \* the running instance
  launches,     \* how many instances there have been: the clock of started
  desired,      \* UP, or DOWN by a user or because uxcd gave up
  checking,     \* update_check_running
  avail,        \* updates[name].available
  quota

vars == <<live, prev, built, rec, prec, job, watch, base, last, inst, launches, desired,
          checking, avail, quota>>
bundles == <<live, prev, built, rec, prec>>
verdicts == <<watch, base, last>>
running == <<inst, launches, desired>>
updates == <<checking, avail>>

Versions == Version \cup {None}
Job == 1 .. MaxJobs

\* run is j.running, upgrade stands for restart_after and safe_update, from for
\* prev_image and prev_digest.  over (the bundle the job found), lost (its daemon died)
\* and meddled (who else changed the bundles meanwhile, and when) only serve the
\* properties.
Jobs == [st : {"free", "building", "rotated", "registered", "ok", "failed", "torn"},
         run : BOOLEAN, upgrade : BOOLEAN, from : Versions, to : Versions,
         over : Versions, lost : BOOLEAN,
         meddled : {"no", "watching", "converting"}]
NoJob == [st |-> "free", run |-> FALSE, upgrade |-> FALSE, from |-> None, to |-> None,
          over |-> None, lost |-> FALSE, meddled |-> "no"]
NoInst == [up |-> FALSE, ver |-> None, started |-> 0, healthy |-> FALSE, term |-> FALSE]

\* is_upgrading: the lock upgrade_locked puts on the ubus methods.
Locked == \E j \in Job : job[j].run /\ job[j].upgrade

Converting(j) == job[j].st \in {"building", "rotated", "registered"}

\* The job is not done with the bundles: nor is one that uxcd has yet to reap.
UnderWay(j) == Converting(j) \/ job[j].run

\* The jobs, when i (0: a user) changes the bundles: those under way are meddled with.
Meddle(jobs, i) ==
  [j \in Job |-> IF j = i THEN jobs[j]
                 ELSE IF UnderWay(j) THEN [jobs[j] EXCEPT !.meddled = "converting"]
                 ELSE IF watch[j] # "none" /\ jobs[j].meddled = "no"
                      THEN [jobs[j] EXCEPT !.meddled = "watching"]
                 ELSE jobs[j]]

Spend(k) == quota[k] > 0 /\ quota' = [quota EXCEPT ![k] = @ - 1]

-----------------------------------------------------------------------------
(* The container.                                                          *)

Launch(bundle) ==
  /\ inst' = [up |-> TRUE, ver |-> bundle, started |-> launches + 1,
              healthy |-> FALSE, term |-> FALSE]
  /\ launches' = launches + 1

\* restart(): signal what runs, or launch, which may have to wait for its turn.
Restart(bundle) ==
  /\ desired' = "UP"
  /\ IF inst.up
     THEN inst' = [inst EXCEPT !.term = TRUE] /\ UNCHANGED launches
     ELSE Launch(bundle) \/ UNCHANGED <<inst, launches>>

Relaunch ==
  /\ desired = "UP" /\ ~inst.up
  /\ Launch(live)
  /\ UNCHANGED <<bundles, job, verdicts, desired, updates, quota>>

\* An exit, asked for or not; the restart policy may give up after it.
InstExits ==
  /\ inst.up
  /\ IF inst.term THEN UNCHANGED quota ELSE Spend("exits")
  /\ inst' = NoInst
  /\ desired' \in {desired, "DOWN"}
  /\ UNCHANGED <<bundles, job, verdicts, launches, updates>>

HealthVerdict ==
  /\ inst.up
  /\ \E h \in {FALSE, inst.ver \in Good} : inst' = [inst EXCEPT !.healthy = h]
  /\ UNCHANGED <<bundles, job, verdicts, launches, desired, updates, quota>>

Start ==
  /\ ~Locked /\ Spend("commands")
  /\ desired' = "UP"
  /\ IF inst.up THEN UNCHANGED <<inst, launches>>
     ELSE Launch(live) \/ UNCHANGED <<inst, launches>>
  /\ UNCHANGED <<bundles, job, verdicts, updates>>

Stop ==
  /\ ~Locked /\ Spend("commands")
  /\ desired' = "DOWN"
  /\ inst' = IF inst.up THEN [inst EXCEPT !.term = TRUE] ELSE inst
  /\ UNCHANGED <<bundles, job, verdicts, launches, updates>>

-----------------------------------------------------------------------------
(* Jobs.                                                                   *)

\* The origin upgrade() hands on: for a build the recorded base, for a pull the recorded
\* image, which an entry that was built has not.
Origin(to) == IF built /\ to \notin Built THEN None ELSE rec

\* job_start, with what upgrade() hands it.
JobStart(j, upgrade, to) ==
  /\ job[j].st = "free" /\ \A i \in 1 .. (j - 1) : job[i].st # "free"
  /\ job' = [job EXCEPT ![j] =
       [st |-> "building", run |-> TRUE, upgrade |-> upgrade,
        from |-> IF upgrade THEN Origin(to) ELSE None, to |-> to,
        over |-> live, lost |-> FALSE, meddled |-> "no"]]

\* ubus upgrade: what was built is built again, what was pulled is pulled again, and an
\* image in the request is pulled whichever it was.
Upgrade(j, to) ==
  /\ ~Locked /\ Spend("commands")
  /\ to \in Built => built
  /\ JobStart(j, TRUE, to)
  /\ UNCHANGED <<bundles, verdicts, running, updates>>

\* ubus pull (or build) of the same name: no lock, and no restart after it.
Pull(j, to) ==
  /\ Spend("commands")
  /\ JobStart(j, FALSE, to)
  /\ UNCHANGED <<bundles, verdicts, running, updates>>

\* The converter replaces the bundle, keeping the one before as .prev ...
ConverterRotates(j) ==
  /\ job[j].st = "building"
  /\ live' = job[j].to /\ prev' = live
  /\ job' = Meddle([job EXCEPT ![j].st = "rotated"], j)
  /\ UNCHANGED <<built, rec, prec, verdicts, running, updates, quota>>

\* ... registers the container with its new provenance ...
ConverterRegisters(j) ==
  /\ job[j].st = "rotated"
  /\ rec' = job[j].to /\ built' = (job[j].to \in Built)
  /\ job' = Meddle([job EXCEPT ![j].st = "registered"], j)
  /\ UNCHANGED <<live, prev, prec, verdicts, running, updates, quota>>

\* ... and exits 0.
ConverterSucceeds(j) ==
  /\ job[j].st = "registered"
  /\ job' = [job EXCEPT ![j].st = "ok"]
  /\ UNCHANGED <<bundles, verdicts, running, updates, quota>>

\* It fails by itself only before it has touched anything ...
ConverterFails(j) ==
  /\ job[j].st = "building"
  /\ job' = [job EXCEPT ![j].st = "failed"]
  /\ UNCHANGED <<bundles, verdicts, running, updates, quota>>

\* ... but job_cancel's SIGTERM may end it anywhere.
Cancel(j) ==
  /\ job[j].run /\ Converting(j) /\ Spend("commands")
  /\ job' = [job EXCEPT ![j].st = IF @ = "building" THEN "failed" ELSE "torn"]
  /\ UNCHANGED <<bundles, verdicts, running, updates>>

\* Mutant: the watch accepts any healthy instance.
BaseZero == 0

\* started of the instance that was there before the restart, 0 if none runs.
Base == inst.started

\* job_exit_cb
JobExit(j) ==
  /\ job[j].run /\ job[j].st \in {"ok", "failed", "torn"}
  /\ job' = [job EXCEPT ![j].run = FALSE]
  /\ IF job[j].st = "ok" /\ job[j].upgrade
     THEN /\ prec' = IF job[j].from = None THEN prec ELSE job[j].from
          /\ Restart(live)
          /\ avail' = FALSE
          /\ watch' = [watch EXCEPT ![j] = IF Gated THEN "waiting" ELSE "none"]
          /\ base' = [base EXCEPT ![j] = IF Gated THEN Base ELSE 0]
          /\ last' = IF Gated THEN "" ELSE last
     ELSE UNCHANGED <<prec, running, avail, verdicts>>
  /\ UNCHANGED <<live, prev, built, rec, checking, quota>>

-----------------------------------------------------------------------------
(* Rollback and the watch.                                                 *)

\* Mutant: rollback_swap does not look for the backup.
HasPrevUnchecked == TRUE

HasPrev == prev # None

\* Mutant: the bundles are swapped, the provenance is not.
SwapBundlesOnly ==
  /\ live' = prev /\ prev' = live
  /\ UNCHANGED <<built, rec, prec>>

\* rollback_swap and swap_provenance, which keeps the build block if there is one.
Swap ==
  /\ live' = prev /\ prev' = live /\ UNCHANGED built
  /\ IF prec = None THEN UNCHANGED <<rec, prec>> ELSE rec' = prec /\ prec' = rec

Rollback ==
  /\ ~Locked /\ Spend("commands")
  /\ HasPrev
  /\ Swap
  /\ Restart(prev)
  /\ job' = Meddle(job, 0)
  /\ UNCHANGED <<verdicts, updates>>

Verified(j) == inst.up /\ inst.healthy /\ inst.started > base[j]

\* Mutant: the window only counts while the container runs.
TimedOutRunning(j) == watch[j] = "expired" /\ inst.up

TimedOut(j) == watch[j] = "expired"

\* Mutant: the poll task goes on after its verdict.
EndedNot(j) == watch[j]

\* The poll task returns 0.
Ended(j) == "none"

\* One poll of watch_health that comes to an end, and its done callback.
WatchEnds(j) ==
  /\ watch[j] # "none"
  /\ watch' = [watch EXCEPT ![j] = Ended(j)]
  /\ base' = [base EXCEPT ![j] = IF Ended(j) = "none" THEN 0 ELSE @]
  /\ \/ /\ Verified(j)
        /\ last' = "verified"
        /\ UNCHANGED <<bundles, job, running>>
     \/ /\ ~Verified(j) /\ TimedOut(j) /\ HasPrev
        /\ last' = "rolled_back"
        /\ Swap
        /\ Restart(prev)
        /\ job' = Meddle(job, j)
     \/ /\ ~Verified(j) /\ TimedOut(j) /\ ~HasPrev
        /\ last' = "rollback_failed"
        /\ UNCHANGED <<bundles, job, running>>
  /\ UNCHANGED <<updates, quota>>

WindowPasses(j) ==
  /\ watch[j] = "waiting"
  /\ watch' = [watch EXCEPT ![j] = "expired"]
  /\ UNCHANGED <<bundles, job, base, last, running, updates, quota>>

Prune ==
  /\ prev # None /\ Spend("commands")
  /\ prev' = None
  /\ UNCHANGED <<live, built, rec, prec, job, verdicts, running, updates>>

-----------------------------------------------------------------------------
(* The update check.                                                       *)

CheckStarts ==
  /\ ~checking /\ Spend("commands")
  /\ checking' = TRUE
  /\ UNCHANGED <<bundles, job, verdicts, running, avail>>

\* update_check_exit_cb: a new update is flagged, and pulled with auto_upgrade; it
\* calls upgrade() and not the ubus method, so the lock is not looked at.
CheckEnds ==
  /\ checking
  /\ checking' = FALSE
  /\ avail' \in BOOLEAN
  /\ IF avail' /\ ~avail /\ AutoUpgrade
     THEN \E j \in Job, to \in Version :
            (built <=> to \in Built) /\ JobStart(j, TRUE, to)
     ELSE UNCHANGED job
  /\ UNCHANGED <<bundles, verdicts, running, quota>>

\* Jobs, watches and check results are in memory only; a converter runs on, a
\* running instance is adopted.
DaemonDies ==
  /\ Spend("deaths")
  /\ job' = [j \in Job |-> [job[j] EXCEPT !.run = FALSE, !.lost = @ \/ job[j].run]]
  /\ watch' = [j \in Job |-> "none"] /\ base' = [j \in Job |-> 0]
  /\ last' = "" /\ avail' = FALSE /\ checking' = FALSE
  /\ launches' = launches + 1
  /\ IF inst.up
     THEN desired' = "UP" /\ inst' = [inst EXCEPT !.healthy = FALSE, !.started = launches + 1]
     ELSE desired' \in {"UP", "DOWN"} /\ UNCHANGED inst
  /\ UNCHANGED bundles

-----------------------------------------------------------------------------
Init ==
  /\ live \in Good /\ prev = None
  /\ built = (live \in Built) /\ rec = live /\ prec = None
  /\ job = [j \in Job |-> NoJob]
  /\ watch = [j \in Job |-> "none"]
  /\ base = [j \in Job |-> 0]
  /\ last = ""
  /\ inst = NoInst /\ launches = 0 /\ desired = "UP"
  /\ checking = FALSE /\ avail = FALSE
  /\ quota = [commands |-> Commands, deaths |-> Deaths, exits |-> Exits]

Next ==
  \/ Relaunch \/ InstExits \/ HealthVerdict \/ Start \/ Stop
  \/ \E j \in Job : \/ \E to \in Version : Upgrade(j, to) \/ Pull(j, to)
                    \/ ConverterRotates(j) \/ ConverterRegisters(j)
                    \/ ConverterSucceeds(j) \/ ConverterFails(j) \/ Cancel(j)
                    \/ JobExit(j) \/ WatchEnds(j) \/ WindowPasses(j)
  \/ Rollback \/ Prune
  \/ CheckStarts \/ CheckEnds
  \/ DaemonDies

Spec == Init /\ [][Next]_vars

\* The poll task of a watch is served, and its window passes.
FairSpec == Spec /\ \A j \in Job : WF_vars(WatchEnds(j)) /\ WF_vars(WindowPasses(j))

-----------------------------------------------------------------------------
(* Properties.                                                             *)

\* Every variable is in its domain; in particular <path> always holds a bundle: no
\* swap is made without a backup (rollback_swap).
TypeOK ==
  /\ live \in Version /\ prev \in Versions /\ rec \in Version /\ prec \in Versions
  /\ built \in BOOLEAN
  /\ job \in [Job -> Jobs]
  /\ watch \in [Job -> {"none", "waiting", "expired"}]
  /\ base \in [Job -> Nat]
  /\ last \in {"", "verified", "rolled_back", "rollback_failed"}
  /\ inst \in [up : BOOLEAN, ver : Versions, started : Nat,
               healthy : BOOLEAN, term : BOOLEAN]
  /\ launches \in Nat
  /\ desired \in {"UP", "DOWN"}
  /\ checking \in BOOLEAN /\ avail \in BOOLEAN
  /\ quota \in [{"commands", "deaths", "exits"} -> Nat]

\* A job after which uxcd's record of what a rollback brings back may be wrong: a
\* plain pull, an upgrade of a built container to a given image, of which nothing is
\* recorded, one whose daemon died, one cancelled halfway, one that ran into another
\* change of the bundles.
Disturbed(j) ==
  /\ job[j].st # "free"
  /\ \/ ~job[j].upgrade \/ job[j].from = None
     \/ job[j].lost \/ job[j].st = "torn" \/ job[j].meddled = "converting"

\* The registry describes the live bundle, and whether it was built or pulled, through
\* every upgrade from the recorded source, upgrade of a pulled container to a given
\* image, rollback, automatic rollback, prune and death of the daemon, in any order
\* (swap_provenance, the provenance job_exit_cb records), so long as no job was disturbed.
RecordedIsLive ==
  (\A j \in Job : ~Disturbed(j) /\ job[j].st # "rotated")
    => rec = live /\ (built <=> live \in Built)

\* While a watch is past its window, the only change of the bundle that nobody else
\* makes is the one back to what the upgrade replaced: once, not forth again.
RollbackRestores ==
  [][\A j \in Job : watch[j] = "expired" /\ live' # live /\ job'[j].meddled = "no"
                    => live' = job[j].over]_vars

\* "automatically rolled back to the previous bundle" (docs/images.md): a watch that
\* rolls back brings back the bundle the upgrade replaced.
RollsBackToPrevious ==
  [][\A j \in Job : watch[j] = "expired" /\ watch'[j] = "none" /\ live' # live
                    => live' = job[j].over]_vars

\* An upgrade nobody meddled with is called verified only on account of a healthy
\* instance of the very version it brought, never of the old one that lingers while
\* it stops (after_started of watch_health).
VerifiedIsNew ==
  [][\A j \in Job : /\ watch[j] # "none" /\ watch'[j] = "none" /\ job[j].meddled = "no"
                    /\ last' = "verified"
                    => inst.ver = job[j].to /\ live = job[j].to]_vars

\* Every watch comes to an end, whatever happens to the container (watch_health).
WatchConcludes == \A j \in Job : watch[j] = "waiting" ~> watch[j] = "none"
=============================================================================
