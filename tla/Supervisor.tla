----------------------------- MODULE Supervisor -----------------------------
(***************************************************************************)
(* The container supervisor of uxcd: what start, stop, restart, create,    *)
(* remove, rename and setconfig do to a container, how launch() orders     *)
(* dependencies and gates on the infra network namespace, what happens     *)
(* when a jail exits, and how a new daemon re-adopts what the previous one *)
(* left running.                                                           *)
(*                                                                         *)
(* uxcd is one uloop thread: a callback (a ubus handler, a timer, the reap *)
(* of a child) runs to completion before the next one.  launch() calls     *)
(* start() for a dependency, which calls launch() again, so the C++ call   *)
(* stack of one callback is the variable stack, innermost frame first; no  *)
(* other callback runs while it is non-empty.  The jails, netifd and a     *)
(* docker2uxcd child run beside the daemon and do interleave with it.      *)
(***************************************************************************)
EXTENDS Naturals, Sequences, FiniteSets

CONSTANTS
  Container,        \* container names
  Infra,            \* names of shared network namespaces
  NoInfra,          \* the empty "infra" key: a container of its own network
  ValidInfra,       \* the infra names /etc/config/network has an interface for
  Offered,          \* Offered[c]: the configurations a user may register for c
  Registries,       \* what the registry files may hold before the first boot
  MaxRestarts,      \* settings.max_restarts, 0 = never give up
  MaxTimers,        \* pending relaunch timers of a container told apart
  Commands,         \* how many user commands a behaviour may contain
  Unattended,       \* how many schedule rules, ended upgrades and failed watches may act
  Deaths,           \* how many times the daemon may die
  Faults,           \* how many launches may fail (mount, bundle, pipe, fork)
  SpontaneousExits, \* TRUE: a jail may exit on its own; FALSE: only when signalled
  CleanDeaths       \* TRUE: the daemon dies only when every jail is registered
                    \* and has populated its cgroup

Configs == [bundle : BOOLEAN, autostart : BOOLEAN, respawn : BOOLEAN,
            hc : BOOLEAN, hc_restart : BOOLEAN, infra : Infra \cup {NoInfra},
            depends_on : Seq(Container)]

\* What apply_config makes of an absent registry file ({}): no bundle, respawn on.
NoFile == [bundle |-> FALSE, autostart |-> FALSE, respawn |-> TRUE, hc |-> FALSE,
           hc_restart |-> FALSE, infra |-> NoInfra, depends_on |-> <<>>]

Registrable == {cfg \in Configs : cfg.bundle}

ASSUME SupervisorAssumption ==
  /\ NoInfra \notin Infra
  /\ ValidInfra \subseteq Infra
  /\ Offered \in [Container -> SUBSET Registrable]
  /\ Registries \subseteq [Container -> Registrable \cup {NoFile}]
  /\ MaxRestarts \in Nat
  /\ MaxTimers \in Nat \ {0}
  /\ Commands \in Nat /\ Unattended \in Nat /\ Deaths \in Nat /\ Faults \in Nat
  /\ SpontaneousExits \in BOOLEAN /\ CleanDeaths \in BOOLEAN

VARIABLES
  daemon,   \* "down", "boot" (inside init()) or "up" (inside uloop)
  todo,     \* registry names the autostart loop of init() has yet to visit
  stack,    \* the launch() frames of the running callback, innermost first
  ctr,      \* the in-memory Container entries
  relaunch, \* pending schedule_relaunch timers per name (MaxTimers = that many or more)
  grace,    \* containers with a pending grace timer for their current instance
  jail,     \* the jail process the entry's pid names
  left,     \* a jail of the same name the daemon does not know about
  reg,      \* the registry files /etc/uxc/<name>.json
  netns,    \* the infra namespaces that exist
  asked,    \* infra names netifd was asked to bring up (ifup)
  quota     \* what is left of Commands, Unattended, Deaths and Faults

vars == <<daemon, todo, stack, ctr, relaunch, grace, jail, left, reg, netns, asked, quota>>
world == <<jail, left, netns, asked>>

-----------------------------------------------------------------------------
(* Entries, jails and frames.                                              *)

Windows == {"none", "waiting", "expired"}

\* The fields of struct Container the supervisor's control depends on.  parked
\* is not in the code: it records why launch() or the exit handler returned
\* without leaving a timer behind for a container that is wanted up.
Entries == [known : BOOLEAN, cfg : Configs, desired : {"UP", "DOWN"}, pid : BOOLEAN,
            adopted : BOOLEAN, crash : Nat,
            health : {"unknown", "healthy", "unhealthy"},
            dep_wait : Windows, infra_wait : Windows, infra_was_up : BOOLEAN,
            parked : {"no", "no_bundle", "spawn_failed", "respawn_off"}]

NoEntry == [known |-> FALSE, cfg |-> NoFile, desired |-> "DOWN", pid |-> FALSE,
            adopted |-> FALSE, crash |-> 0, health |-> "unknown", dep_wait |-> "none",
            infra_wait |-> "none", infra_was_up |-> FALSE, parked |-> "no"]

Jails == [st : {"none", "starting", "up", "dead"},
          net : Infra \cup {NoInfra, "orphan"}, term : BOOLEAN]

NoJail == [st |-> "none", net |-> NoInfra, term |-> FALSE]

Frames == [c : Container, i : Nat \ {0}, late : BOOLEAN, defer : BOOLEAN]

Live(j) == j.st \in {"starting", "up"}

Registered(c) == reg[c].bundle

\* pids.current of the container's cgroup is above zero.
CgroupAlive(c) == jail[c].st = "up" \/ left[c].st = "up"

\* No callback is running: uloop may dispatch the next one.
Idle == daemon = "up" /\ stack = <<>>

Spend(k) == quota[k] > 0 /\ quota' = [quota EXCEPT ![k] = @ - 1]

\* containers.find(name), or a fresh entry loaded from the registry file.
Ensure(c) == IF ctr[c].known THEN ctr[c] ELSE [NoEntry EXCEPT !.known = TRUE, !.cfg = reg[c]]

MoreTimers(n) == IF n = MaxTimers THEN n ELSE n + 1

ScheduleRelaunch(c) == relaunch' = [relaunch EXCEPT ![c] = MoreTimers(@)]

-----------------------------------------------------------------------------
(* start(), stop(), restart().                                             *)

\* Mutant: the wait for a dependency has no bound.
LateNever(e) == FALSE

\* dep_timeout, read once at the top of launch().
Late(e) == e.dep_wait = "expired"

\* launch(c) entered with entry e on top of the callers rest: refresh_config,
\* then return at once when the registry has no bundle for it.
EnterLaunch(c, e, rest) ==
  /\ ctr' = [ctr EXCEPT ![c] = [e EXCEPT !.cfg = reg[c],
                                !.parked = IF Registered(c) THEN "no" ELSE "no_bundle"]]
  /\ stack' = IF Registered(c)
              THEN <<[c |-> c, i |-> 1, late |-> Late(e), defer |-> FALSE]>> \o rest
              ELSE rest

\* What start() sets on the entry before it launches.
StartEntry(e) == [e EXCEPT !.desired = "UP", !.crash = 0,
                           !.dep_wait = "none", !.infra_wait = "none"]

\* start(c) called with the callers rest on the stack.
DoStart(c, rest) ==
  LET e == Ensure(c) IN
  \/ /\ ~e.cfg.bundle
     /\ ctr' = [ctr EXCEPT ![c] = e]
     /\ stack' = rest
  \/ /\ e.cfg.bundle /\ e.pid
     /\ ctr' = [ctr EXCEPT ![c] = StartEntry(e)]
     /\ stack' = rest
  \/ /\ e.cfg.bundle /\ ~e.pid
     /\ EnterLaunch(c, StartEntry(e), rest)

\* Mutant: the stop signal without the grace timer.
SignalOnly(c) ==
  /\ jail' = [jail EXCEPT ![c].term = TRUE]
  /\ UNCHANGED grace

\* signal_and_reap: send the stop signal and arm the grace timer.
SignalAndReap(c) ==
  /\ jail' = [jail EXCEPT ![c].term = TRUE]
  /\ grace' = grace \cup {c}

DoStop(c) ==
  /\ ctr[c].known
  /\ ctr' = [ctr EXCEPT ![c].desired = "DOWN"]
  /\ IF ctr[c].pid THEN SignalAndReap(c) ELSE UNCHANGED <<jail, grace>>
  /\ UNCHANGED stack

\* restart() of the entry e of c.  Unlike start() it keeps the dependency and infra
\* wait windows.
DoRestart(c, e) ==
  LET wanted == [e EXCEPT !.desired = "UP", !.crash = 0] IN
  \/ /\ ~e.cfg.bundle
     /\ ctr' = [ctr EXCEPT ![c] = e]
     /\ UNCHANGED <<stack, jail, grace>>
  \/ /\ e.cfg.bundle /\ e.pid
     /\ ctr' = [ctr EXCEPT ![c] = wanted]
     /\ SignalAndReap(c)
     /\ UNCHANGED stack
  \/ /\ e.cfg.bundle /\ ~e.pid
     /\ EnterLaunch(c, wanted, <<>>)
     /\ UNCHANGED <<jail, grace>>

Start(c) ==
  /\ Idle /\ Spend("commands")
  /\ DoStart(c, <<>>)
  /\ UNCHANGED <<daemon, todo, relaunch, grace, reg, world>>

Stop(c) ==
  /\ Idle /\ Spend("commands")
  /\ DoStop(c)
  /\ UNCHANGED <<daemon, todo, relaunch, left, reg, netns, asked>>

Restart(c) ==
  /\ Idle /\ Spend("commands")
  /\ DoRestart(c, Ensure(c))
  /\ UNCHANGED <<daemon, todo, relaunch, left, reg, netns, asked>>

\* The entry after the provenance of its bundle was written: setconfig re-reads the
\* file of a registered container, when there was a provenance to write.
Redescribed(c) ==
  {Ensure(c)} \cup {e \in {[Ensure(c) EXCEPT !.cfg = reg[c]]} : Registered(c)}

\* rollback() by hand: the bundles are swapped, then the container is restarted.
Rollback(c) ==
  /\ Idle /\ Spend("commands")
  /\ Registered(c)
  /\ \E e \in Redescribed(c) : DoRestart(c, e)
  /\ UNCHANGED <<daemon, todo, relaunch, left, reg, netns, asked>>

-----------------------------------------------------------------------------
(* The same, asked for by nobody at that moment.                           *)

\* run_scheduler: a start, stop or restart rule of c is due.
ScheduleFires(c) ==
  /\ Idle /\ Spend("unattended")
  /\ ctr[c].known
  /\ \/ DoStop(c)
     \/ DoRestart(c, Ensure(c))
     \/ DoStart(c, <<>>) /\ UNCHANGED <<jail, grace>>
  /\ UNCHANGED <<daemon, todo, relaunch, left, reg, netns, asked>>

\* job_exit_cb: an upgrade of c has succeeded, so c is restarted, stopped or not.
UpgradeRestarts(c) ==
  /\ Idle /\ Spend("unattended")
  /\ \E e \in Redescribed(c) : DoRestart(c, e)
  /\ UNCHANGED <<daemon, todo, relaunch, left, reg, netns, asked>>

\* The watch on an upgraded c has failed: rolled back and restarted, stopped or not.
WatchRestarts(c) ==
  /\ Idle /\ Spend("unattended")
  /\ ctr[c].known /\ Registered(c)
  /\ \E e \in Redescribed(c) : DoRestart(c, e)
  /\ UNCHANGED <<daemon, todo, relaunch, left, reg, netns, asked>>

-----------------------------------------------------------------------------
(* The registry: create(), setconfig(), remove(), rename(), docker2uxcd.   *)

Create(c, cfg) ==
  /\ Idle /\ Spend("commands")
  /\ ~Registered(c)
  /\ reg' = [reg EXCEPT ![c] = cfg]
  /\ ctr' = [ctr EXCEPT ![c] = [Ensure(c) EXCEPT !.cfg = cfg]]
  /\ UNCHANGED <<daemon, todo, stack, relaunch, grace, world>>

SetConfig(c, cfg) ==
  /\ Idle /\ Spend("commands")
  /\ reg' = [reg EXCEPT ![c] = cfg]
  /\ ctr' = IF ctr[c].known THEN [ctr EXCEPT ![c].cfg = cfg] ELSE ctr
  /\ UNCHANGED <<daemon, todo, stack, relaunch, grace, world>>

\* A pull, build or deploy job registers the container from its own process.
JobRegisters(c, cfg) ==
  /\ daemon = "up" /\ Spend("commands")
  /\ reg' = [reg EXCEPT ![c] = cfg]
  /\ UNCHANGED <<daemon, todo, stack, ctr, relaunch, grace, world>>

\* remove(): the file goes first; a running container is stopped and its entry
\* is left for the exit handler to drop.
Remove(c) ==
  /\ Idle /\ Spend("commands")
  /\ reg' = [reg EXCEPT ![c] = NoFile]
  /\ IF ctr[c].pid
     THEN ctr' = [ctr EXCEPT ![c].desired = "DOWN"] /\ SignalAndReap(c)
     ELSE ctr' = [ctr EXCEPT ![c] = NoEntry] /\ UNCHANGED <<jail, grace>>
  /\ UNCHANGED <<daemon, todo, stack, relaunch, left, netns, asked>>

Renamed(deps, old, new) == [k \in DOMAIN deps |-> IF deps[k] = old THEN new ELSE deps[k]]

\* rename_container(): the new file takes the old configuration, every other
\* file that depends on the old name goes through setconfig, the old entry goes.
Rename(old, new) ==
  LET moved == [reg EXCEPT ![new] = reg[old], ![old] = NoFile]
      Repointed(o) == [moved[o] EXCEPT !.depends_on = Renamed(@, old, new)]
      others == {o \in Container \ {new} : Repointed(o) # moved[o]} IN
  /\ Idle /\ Spend("commands")
  /\ old # new /\ Registered(old) /\ ~Registered(new)
  /\ ~ctr[old].pid /\ ~CgroupAlive(old)
  /\ reg' = [o \in Container |-> IF o \in others THEN Repointed(o) ELSE moved[o]]
  /\ ctr' = [o \in Container |-> IF o = old THEN NoEntry
                                 ELSE IF o \in others /\ ctr[o].known
                                 THEN [ctr[o] EXCEPT !.cfg = Repointed(o)]
                                 ELSE ctr[o]]
  /\ UNCHANGED <<daemon, todo, stack, relaunch, grace, world>>

-----------------------------------------------------------------------------
(* launch(), one step per dependency visited, innermost frame only.        *)

top == Head(stack)
callers == Tail(stack)
self == top.c
dep == ctr[self].cfg.depends_on[top.i]
AtDep == stack # <<>> /\ ~top.defer /\ top.i <= Len(ctr[self].cfg.depends_on)
AtEnd == stack # <<>> /\ ~top.defer /\ top.i > Len(ctr[self].cfg.depends_on)

\* registry_deps(name): depends_on off the file, not out of memory.
RegistryDeps(c) == {reg[c].depends_on[k] : k \in DOMAIN reg[c].depends_on}

\* dep_cycle(target, from) finds a chain: every set of names that holds from and
\* is closed under the registry's dependencies holds target as well.
DepCycle(target, from) ==
  \A S \in SUBSET Container :
    from \in S /\ (\A n \in S \ {target} : RegistryDeps(n) \subseteq S) => target \in S

Running(d) == ctr[d].pid \/ CgroupAlive(d)
Ready(d) == Running(d) /\ (~ctr[d].cfg.hc \/ ctr[d].health = "healthy")

\* Mutant: a dependency that runs is enough, healthy or not.
SettledRunning(d) == d = self \/ ~ctr[d].known \/ Running(d)

\* launch() skips itself, names it does not know and ready dependencies.
Settled(d) == d = self \/ ~ctr[d].known \/ Ready(d)

\* Mutant: any dependency that is down is started.
PullUpAlways(d, rest) ==
  IF ~Running(d) THEN DoStart(d, rest) ELSE stack' = rest /\ UNCHANGED ctr

\* A dependency that is down and not wanted up is started on the way.
PullUp(d, rest) ==
  IF ~Running(d) /\ ctr[d].desired # "UP"
  THEN DoStart(d, rest)
  ELSE stack' = rest /\ UNCHANGED ctr

LaunchNextDep ==
  /\ AtDep
  /\ Settled(dep) \/ (~DepCycle(self, dep) /\ top.late)
  /\ stack' = <<[top EXCEPT !.i = @ + 1]>> \o callers
  /\ UNCHANGED <<daemon, todo, ctr, relaunch, grace, reg, quota, world>>

LaunchBreaksCycle ==
  /\ AtDep
  /\ ~Settled(dep) /\ DepCycle(self, dep)
  /\ PullUp(dep, <<[top EXCEPT !.i = @ + 1]>> \o callers)
  /\ UNCHANGED <<daemon, todo, relaunch, grace, reg, quota, world>>

\* Mutant: a dependency in a cycle is waited for like any other.
LaunchPullsDepAlways ==
  /\ AtDep
  /\ ~Settled(dep) /\ ~top.late
  /\ PullUp(dep, <<[top EXCEPT !.defer = TRUE]>> \o callers)
  /\ UNCHANGED <<daemon, todo, relaunch, grace, reg, quota, world>>

LaunchPullsDep ==
  /\ AtDep
  /\ ~Settled(dep) /\ ~DepCycle(self, dep) /\ ~top.late
  /\ PullUp(dep, <<[top EXCEPT !.defer = TRUE]>> \o callers)
  /\ UNCHANGED <<daemon, todo, relaunch, grace, reg, quota, world>>

\* Back from pulling a dependency up: wait for it and try again later.
LaunchDefers ==
  /\ stack # <<>> /\ top.defer
  /\ ctr' = [ctr EXCEPT ![self].dep_wait = IF @ = "none" THEN "waiting" ELSE @]
  /\ ScheduleRelaunch(self)
  /\ stack' = callers
  /\ UNCHANGED <<daemon, todo, grace, reg, quota, world>>

InfraUp(c) == ctr[c].cfg.infra = NoInfra \/ ctr[c].cfg.infra \in netns

\* A required mount is missing: retry later.
LaunchLacksMount ==
  /\ AtEnd /\ Spend("faults")
  /\ ctr' = [ctr EXCEPT ![self].dep_wait = "none"]
  /\ ScheduleRelaunch(self)
  /\ stack' = callers
  /\ UNCHANGED <<daemon, todo, grace, reg, world>>

\* Mutant: the infra_was_up test inverted.
InfraNeverCameInverted(e) == e.infra_was_up /\ e.infra_wait = "expired"

\* The bound on waiting for an infra that has never come up for this container.
InfraNeverCame(e) == ~e.infra_was_up /\ e.infra_wait = "expired"

\* The infra namespace is missing: ask netifd for it, then retry later or give up.
LaunchLacksInfra ==
  LET e == [ctr[self] EXCEPT !.dep_wait = "none"] IN
  /\ AtEnd /\ ~InfraUp(self)
  /\ asked' = asked \cup {e.cfg.infra}
  /\ \/ /\ InfraNeverCame(e)
        /\ ctr' = [ctr EXCEPT ![self] = [e EXCEPT !.desired = "DOWN", !.infra_wait = "none"]]
        /\ UNCHANGED relaunch
     \/ /\ ~InfraNeverCame(e)
        /\ ctr' = [ctr EXCEPT ![self] =
                     [e EXCEPT !.infra_wait = IF @ = "none" THEN "waiting" ELSE @]]
        /\ ScheduleRelaunch(self)
  /\ stack' = callers
  /\ UNCHANGED <<daemon, todo, grace, jail, left, reg, netns, quota>>

\* What launch() has set on the entry once the gates are behind it.
PastGates(e) == [e EXCEPT !.dep_wait = "none", !.infra_wait = "none", !.infra_was_up = TRUE]

\* make_launch_bundle failed: retry later.
LaunchLacksBundle ==
  /\ AtEnd /\ InfraUp(self) /\ Spend("faults")
  /\ ctr' = [ctr EXCEPT ![self] = PastGates(@)]
  /\ ScheduleRelaunch(self)
  /\ stack' = callers
  /\ UNCHANGED <<daemon, todo, grace, reg, world>>

\* pipe2 or fork failed: launch() just returns.
LaunchCannotFork ==
  /\ AtEnd /\ InfraUp(self) /\ Spend("faults")
  /\ ctr' = [ctr EXCEPT ![self] = [PastGates(@) EXCEPT !.parked = "spawn_failed"]]
  /\ stack' = callers
  /\ UNCHANGED <<daemon, todo, relaunch, grace, reg, world>>

\* The new pid overwrites the old one: a jail still there is no longer known.
LaunchForks ==
  /\ AtEnd /\ InfraUp(self)
  /\ ctr' = [ctr EXCEPT ![self] = [PastGates(@) EXCEPT !.pid = TRUE, !.adopted = FALSE]]
  /\ jail' = [jail EXCEPT ![self] =
                [st |-> "starting", net |-> ctr[self].cfg.infra, term |-> FALSE]]
  /\ left' = [left EXCEPT ![self] = IF Live(jail[self]) THEN jail[self] ELSE @]
  /\ stack' = callers
  /\ UNCHANGED <<daemon, todo, relaunch, grace, reg, netns, asked, quota>>

LaunchStep ==
  \/ LaunchNextDep \/ LaunchBreaksCycle \/ LaunchPullsDep \/ LaunchDefers
  \/ LaunchLacksMount \/ LaunchLacksInfra \/ LaunchLacksBundle
  \/ LaunchCannotFork \/ LaunchForks

-----------------------------------------------------------------------------
(* Exits, timers and watchdogs.                                            *)

\* Mutant: the timer does not look whether the container is still wanted.
RelaunchFiresAnyway(c) ==
  /\ Idle /\ relaunch[c] > 0
  /\ relaunch' = [relaunch EXCEPT ![c] = @ - 1]
  /\ IF ctr[c].known /\ ~ctr[c].pid
     THEN EnterLaunch(c, [ctr[c] EXCEPT !.desired = "UP"], <<>>)
     ELSE UNCHANGED <<ctr, stack>>
  /\ UNCHANGED <<daemon, todo, grace, reg, quota, world>>

\* Mutant: the timer does not look whether the container runs by now.
RelaunchFiresBlind(c) ==
  /\ Idle /\ relaunch[c] > 0
  /\ relaunch' = [relaunch EXCEPT ![c] = @ - 1]
  /\ IF ctr[c].known /\ ctr[c].desired = "UP"
     THEN EnterLaunch(c, ctr[c], <<>>)
     ELSE UNCHANGED <<ctr, stack>>
  /\ UNCHANGED <<daemon, todo, grace, reg, quota, world>>

\* A relaunch timer fires; MaxTimers stands for "that many or more".
RelaunchFires(c) ==
  /\ Idle /\ relaunch[c] > 0
  /\ \E n \in {relaunch[c] - 1} \cup {k \in {MaxTimers} : relaunch[c] = MaxTimers} :
       relaunch' = [relaunch EXCEPT ![c] = n]
  /\ IF ctr[c].known /\ ctr[c].desired = "UP" /\ ~ctr[c].pid
     THEN EnterLaunch(c, ctr[c], <<>>)
     ELSE UNCHANGED <<ctr, stack>>
  /\ UNCHANGED <<daemon, todo, grace, reg, quota, world>>

\* What an exit handler clears on the entry before the restart policy.
Exited(e) == [e EXCEPT !.pid = FALSE, !.health = "unknown"]

\* Mutant: the crash counter counts the wrong way.
CrashCountDown(e, stable) == IF stable \/ MaxRestarts = 0 THEN 0 ELSE e.crash - 1

CrashCount(e, stable) == IF stable \/ MaxRestarts = 0 THEN 0 ELSE e.crash + 1
GivesUp(e, stable) == MaxRestarts > 0 /\ CrashCount(e, stable) > MaxRestarts
\* Mutant: no timer for the last restart that max_restarts allows.
RespawnsBelowCap(e, stable) ==
  e.desired = "UP" /\ e.cfg.respawn /\ (MaxRestarts > 0 => CrashCount(e, stable) < MaxRestarts)

Respawns(e, stable) == e.desired = "UP" /\ e.cfg.respawn /\ ~GivesUp(e, stable)

\* schedule_respawn on the entry; stable: it ran for STABLE_SECS or longer.
AfterExit(e, stable) ==
  IF e.desired # "UP" THEN e
  ELSE IF ~e.cfg.respawn THEN [e EXCEPT !.parked = "respawn_off"]
  ELSE IF GivesUp(e, stable)
       THEN [e EXCEPT !.crash = CrashCount(e, stable), !.desired = "DOWN"]
       ELSE [e EXCEPT !.crash = CrashCount(e, stable)]

\* uloop reaps a jail this daemon launched (proc_exit_cb).
ProcExit(c) ==
  /\ Idle
  /\ ctr[c].pid /\ ~ctr[c].adopted /\ jail[c].st = "dead"
  /\ jail' = [jail EXCEPT ![c] = NoJail]
  /\ grace' = grace \ {c}
  /\ \/ /\ ~Registered(c)
        /\ ctr' = [ctr EXCEPT ![c] = NoEntry]
        /\ UNCHANGED relaunch
     \/ /\ Registered(c)
        /\ \E stable \in BOOLEAN :
             /\ ctr' = [ctr EXCEPT ![c] = AfterExit(Exited(ctr[c]), stable)]
             /\ IF Respawns(ctr[c], stable) THEN ScheduleRelaunch(c) ELSE UNCHANGED relaunch
  /\ UNCHANGED <<daemon, todo, stack, left, reg, netns, asked, quota>>

\* The adopted containers whose cgroup has emptied.
Gone == {c \in Container : ctr[c].adopted /\ ctr[c].pid /\ ~CgroupAlive(c)}

\* adopt_watchdog(): one sweep over all of them; unlike ProcExit it does not look
\* whether the registry file is still there.
AdoptWatchdog ==
  /\ Idle /\ Gone # {}
  /\ \E stable \in SUBSET Gone :
       /\ ctr' = [c \in Container |->
                    IF c \in Gone
                    THEN AfterExit([Exited(ctr[c]) EXCEPT !.adopted = FALSE], c \in stable)
                    ELSE ctr[c]]
       /\ relaunch' = [c \in Container |->
                         IF c \in Gone /\ Respawns(ctr[c], c \in stable)
                         THEN MoreTimers(relaunch[c]) ELSE relaunch[c]]
  /\ jail' = [c \in Container |-> IF c \in Gone THEN NoJail ELSE jail[c]]
  /\ grace' = grace \ Gone
  /\ UNCHANGED <<daemon, todo, stack, left, reg, netns, asked, quota>>

\* The grace timer: the instance it was armed for is still there, so kill the
\* cgroup and the ujail.
GraceFires(c) ==
  /\ Idle /\ c \in grace
  /\ grace' = grace \ {c}
  /\ jail' = [jail EXCEPT ![c].st = IF Live(jail[c]) THEN "dead" ELSE @]
  /\ left' = [left EXCEPT ![c] = IF @.st = "up" THEN NoJail ELSE @]
  /\ UNCHANGED <<daemon, todo, stack, ctr, relaunch, reg, netns, asked, quota>>

\* Mutant: only containers that wait for their infra keep it up.
MissingInfraWaiting ==
  {i \in Infra \ netns :
     \E c \in Container : ctr[c].cfg.infra = i /\ ctr[c].desired = "UP" /\ ~ctr[c].pid}

\* The infra of every container that is wanted up or running, when it is missing.
MissingInfra ==
  {i \in Infra \ netns :
     \E c \in Container : ctr[c].cfg.infra = i /\ (ctr[c].desired = "UP" \/ ctr[c].pid)}

\* infra_watchdog(): ask for what is missing and SIGTERM its running members.
InfraWatchdog ==
  /\ Idle /\ MissingInfra # {}
  /\ asked' = asked \cup MissingInfra
  /\ jail' = [c \in Container |->
                IF ctr[c].pid /\ ctr[c].cfg.infra \in MissingInfra
                THEN [jail[c] EXCEPT !.term = TRUE] ELSE jail[c]]
  /\ UNCHANGED <<daemon, todo, stack, ctr, relaunch, grace, left, reg, netns, quota>>

\* A health cycle reaches a verdict (apply_health_verdict; when and from which
\* probes is module Attendants).
HealthVerdict(c) ==
  /\ Idle
  /\ ctr[c].pid /\ ctr[c].cfg.hc
  /\ \/ /\ ctr' = [ctr EXCEPT ![c].health = "healthy"]
        /\ UNCHANGED <<jail, grace>>
     \/ /\ ~ctr[c].cfg.hc_restart
        /\ ctr' = [ctr EXCEPT ![c].health = "unhealthy"]
        /\ UNCHANGED <<jail, grace>>
     \/ /\ ctr[c].cfg.hc_restart
        /\ ctr' = [ctr EXCEPT ![c].health = "unknown"]
        /\ SignalAndReap(c)
  /\ UNCHANGED <<daemon, todo, stack, relaunch, left, reg, netns, asked, quota>>

\* settings.start_timeout, or INFRA_WAIT_MS, has passed since the wait began.
DepWindowPasses(c) ==
  /\ ctr[c].dep_wait = "waiting"
  /\ ctr' = [ctr EXCEPT ![c].dep_wait = "expired"]
  /\ UNCHANGED <<daemon, todo, stack, relaunch, grace, reg, quota, world>>

InfraWindowPasses(c) ==
  /\ ctr[c].infra_wait = "waiting"
  /\ ctr' = [ctr EXCEPT ![c].infra_wait = "expired"]
  /\ UNCHANGED <<daemon, todo, stack, relaunch, grace, reg, quota, world>>

-----------------------------------------------------------------------------
(* The daemon's own life: procd respawns it, init() adopts and autostarts.  *)

\* What init reaps and what stays when the jail's parent is gone.
Orphaned(j) == IF j.st = "dead" THEN NoJail ELSE j

DaemonDies ==
  /\ daemon # "down" /\ Spend("deaths")
  /\ CleanDeaths => \A c \in Container :
       /\ jail[c].st # "starting"
       /\ jail[c].st = "up" => Registered(c)
  /\ daemon' = "down"
  /\ todo' = {}
  /\ stack' = <<>>
  /\ ctr' = [c \in Container |-> NoEntry]
  /\ relaunch' = [c \in Container |-> 0]
  /\ grace' = {}
  /\ jail' = [c \in Container |-> Orphaned(jail[c])]
  /\ UNCHANGED <<left, reg, netns, asked>>

\* A registered container init() finds by its "ujail -n <name>" process and a
\* populated cgroup.
Adoptable(c) == Registered(c) /\ jail[c].st = "up"

AdoptedEntry(c) ==
  [NoEntry EXCEPT !.known = TRUE, !.cfg = reg[c], !.pid = TRUE, !.adopted = TRUE,
                  !.desired = "UP", !.infra_was_up = reg[c].infra # NoInfra]

\* init() up to the end of its adoption loop.
DaemonBoots ==
  /\ daemon = "down"
  /\ daemon' = "boot"
  /\ todo' = {c \in Container : Registered(c)}
  /\ ctr' = [c \in Container |-> IF Adoptable(c) THEN AdoptedEntry(c)
                                 ELSE IF Registered(c)
                                 THEN [NoEntry EXCEPT !.known = TRUE, !.cfg = reg[c]]
                                 ELSE NoEntry]
  /\ left' = [c \in Container |-> IF ~Adoptable(c) /\ Live(jail[c]) THEN jail[c] ELSE left[c]]
  /\ jail' = [c \in Container |-> IF Adoptable(c) THEN jail[c] ELSE NoJail]
  /\ UNCHANGED <<stack, relaunch, grace, reg, netns, asked, quota>>

\* One round of the autostart loop.
BootVisits(c) ==
  /\ daemon = "boot" /\ stack = <<>> /\ c \in todo
  /\ todo' = todo \ {c}
  /\ IF ~ctr[c].pid /\ reg[c].autostart THEN DoStart(c, <<>>) ELSE UNCHANGED <<ctr, stack>>
  /\ UNCHANGED <<daemon, relaunch, grace, reg, quota, world>>

BootEnds ==
  /\ daemon = "boot" /\ stack = <<>> /\ todo = {}
  /\ daemon' = "up"
  /\ UNCHANGED <<todo, stack, ctr, relaunch, grace, reg, quota, world>>

-----------------------------------------------------------------------------
(* The jails and netifd.                                                   *)

InfraHolds(j) == j.net = NoInfra \/ j.net \in netns

\* ujail has joined the namespaces and populated the cgroup.
JailStarts(c) ==
  /\ jail[c].st = "starting" /\ InfraHolds(jail[c])
  /\ jail' = [jail EXCEPT ![c].st = "up"]
  /\ UNCHANGED <<daemon, todo, stack, ctr, relaunch, grace, left, reg, netns, asked, quota>>

\* A jail ends: signalled, on its own, or because its namespace is missing.
MayExit(j) ==
  /\ Live(j)
  /\ SpontaneousExits \/ j.term \/ (j.st = "starting" /\ ~InfraHolds(j))

JailExits(c) ==
  /\ MayExit(jail[c])
  /\ jail' = [jail EXCEPT ![c] = IF ctr[c].pid THEN [@ EXCEPT !.st = "dead"] ELSE NoJail]
  /\ UNCHANGED <<daemon, todo, stack, ctr, relaunch, grace, left, reg, netns, asked, quota>>

LeftStarts(c) ==
  /\ left[c].st = "starting"
  /\ left' = [left EXCEPT ![c].st = "up"]
  /\ UNCHANGED <<daemon, todo, stack, ctr, relaunch, grace, jail, reg, netns, asked, quota>>

LeftExits(c) ==
  /\ MayExit(left[c])
  /\ left' = [left EXCEPT ![c] = NoJail]
  /\ UNCHANGED <<daemon, todo, stack, ctr, relaunch, grace, jail, reg, netns, asked, quota>>

\* A network or firewall reload, or an ifdown, tears a namespace down; the jails
\* in it stay on the orphan.
NetnsDown(i) ==
  /\ i \in netns /\ Spend("faults")
  /\ netns' = netns \ {i}
  /\ jail' = [c \in Container |-> IF jail[c].st = "up" /\ jail[c].net = i
                                  THEN [jail[c] EXCEPT !.net = "orphan"] ELSE jail[c]]
  /\ UNCHANGED <<daemon, todo, stack, ctr, relaunch, grace, left, reg, asked>>

NetnsUp(i) ==
  /\ i \in ValidInfra \ netns
  /\ netns' = netns \cup {i}
  /\ asked' = asked \ {i}
  /\ UNCHANGED <<daemon, todo, stack, ctr, relaunch, grace, jail, left, reg, quota>>

-----------------------------------------------------------------------------
Init ==
  /\ daemon = "down" /\ todo = {} /\ stack = <<>>
  /\ ctr = [c \in Container |-> NoEntry]
  /\ relaunch = [c \in Container |-> 0]
  /\ grace = {}
  /\ jail = [c \in Container |-> NoJail]
  /\ left = [c \in Container |-> NoJail]
  /\ reg \in Registries
  /\ netns \in SUBSET ValidInfra
  /\ asked = {}
  /\ quota = [commands |-> Commands, unattended |-> Unattended,
              deaths |-> Deaths, faults |-> Faults]

Command ==
  \E c \in Container :
    \/ Start(c) \/ Stop(c) \/ Restart(c) \/ Rollback(c) \/ Remove(c)
    \/ \E cfg \in Offered[c] : Create(c, cfg) \/ SetConfig(c, cfg) \/ JobRegisters(c, cfg)
    \/ \E new \in Container : Rename(c, new)

Errand == \E c \in Container : ScheduleFires(c) \/ UpgradeRestarts(c) \/ WatchRestarts(c)

Callback ==
  \E c \in Container :
    RelaunchFires(c) \/ ProcExit(c) \/ GraceFires(c) \/ HealthVerdict(c)

Watchdog == AdoptWatchdog \/ InfraWatchdog

Life == DaemonDies \/ DaemonBoots \/ BootEnds \/ \E c \in Container : BootVisits(c)

World ==
  \/ \E c \in Container :
       \/ JailStarts(c) \/ JailExits(c) \/ LeftStarts(c) \/ LeftExits(c)
       \/ DepWindowPasses(c) \/ InfraWindowPasses(c)
  \/ \E i \in Infra : NetnsDown(i) \/ NetnsUp(i)

Next == Command \/ Errand \/ LaunchStep \/ Callback \/ Watchdog \/ Life \/ World

Spec == Init /\ [][Next]_vars

\* A callback runs to its end.
CallbackRuns == WF_vars(LaunchStep)

\* uloop serves a container's expired timers and its dead child, whatever else it is
\* given to do in between: strong fairness, as any callback may come between.
UloopServes ==
  /\ \A c \in Container : SF_vars(RelaunchFires(c) \/ GraceFires(c)) /\ SF_vars(ProcExit(c))
  /\ SF_vars(AdoptWatchdog) /\ SF_vars(InfraWatchdog)

\* procd respawns the daemon and init() runs through.
DaemonReturns == WF_vars(DaemonBoots \/ BootEnds \/ \E c \in Container : BootVisits(c))

\* Time passes, a forked jail starts or dies, and netifd answers an ifup for an
\* interface it has.
WorldMoves ==
  /\ \A c \in Container : /\ WF_vars(DepWindowPasses(c) \/ InfraWindowPasses(c))
                          /\ WF_vars(jail[c].st = "starting" /\ (JailStarts(c) \/ JailExits(c)))
  /\ \A i \in ValidInfra : WF_vars(i \in asked /\ NetnsUp(i))

FairSpec == Spec /\ CallbackRuns /\ UloopServes /\ DaemonReturns /\ WorldMoves

-----------------------------------------------------------------------------
(* Properties.                                                             *)

TypeOK ==
  /\ daemon \in {"down", "boot", "up"}
  /\ todo \subseteq Container
  /\ stack \in Seq(Frames)
  /\ ctr \in [Container -> Entries]
  /\ relaunch \in [Container -> 0..MaxTimers]
  /\ grace \subseteq Container
  /\ jail \in [Container -> Jails]
  /\ left \in [Container -> Jails]
  /\ reg \in [Container -> Registrable \cup {NoFile}]
  /\ netns \subseteq ValidInfra
  /\ asked \subseteq Infra
  /\ quota \in [{"commands", "unattended", "deaths", "faults"} -> Nat]

\* Intent is never dropped on the floor: between callbacks, a container that is
\* wanted up and not running has a relaunch timer pending, unless launch() or the
\* exit handler is known to have left it there (no bundle, no fork, respawn off).
WantedIsPursued ==
  Idle => \A c \in Container :
            ctr[c].known /\ ctr[c].desired = "UP" /\ ~ctr[c].pid
            => relaunch[c] > 0 \/ ctr[c].parked # "no"

\* A stop cannot be outlasted: while a container that is wanted down still has a
\* process, the grace timer that kills it is pending or it is dead already.
StopIsEnforced ==
  \A c \in Container :
    ctr[c].pid /\ ctr[c].desired = "DOWN" => c \in grace \/ jail[c].st = "dead"

\* No container ever has two jails, the one its entry names and another of the
\* same name ("instead of starting a second copy", README).
NoSecondCopy == \A c \in Container : ~(Live(jail[c]) /\ Live(left[c]))

\* One launch() of a container at a time: the recursion through start() never
\* comes back to a container it is already launching.
NoReentry == \A k, l \in DOMAIN stack : stack[k].c = stack[l].c => k = l

\* A container is forked only when every dependency the daemon knows was ready at
\* that moment, or the wait for it was given up: start_timeout had passed, or the
\* dependency is part of a cycle through this container.
LaunchWaitsForDeps ==
  [][\A c \in Container :
       ~ctr[c].pid /\ ctr'[c].pid /\ stack # <<>> =>
         \/ top.late
         \/ \A d \in {ctr[c].cfg.depends_on[k] : k \in DOMAIN ctr[c].cfg.depends_on} :
              d = c \/ ~ctr[d].known \/ Ready(d) \/ DepCycle(c, d)]_vars

\* A stop is undone only by a caller of start() or restart(): a command, a schedule
\* rule, a finished upgrade, the rollback of a failed one, or the launch of a dependent.
\* The supervision itself, relaunch and grace timers, exit handlers, health verdicts,
\* adopt_watchdog and infra_watchdog, never makes an unwanted container wanted.
OnlyStartWants ==
  [][\A c \in Container :
       daemon = "up" /\ ctr[c].known /\ ctr[c].desired = "DOWN" /\ ctr'[c].desired = "UP" =>
         \/ quota'["commands"] < quota["commands"]
         \/ quota'["unattended"] < quota["unattended"]
         \/ stack # <<>> /\ \E k \in DOMAIN ctr[self].cfg.depends_on :
                               ctr[self].cfg.depends_on[k] = c]_vars

\* The wait for a dependency is only ever begun on account of one that is not part
\* of a cycle through the container ("starting without waiting").
CyclesDoNotWait ==
  [][\A c \in Container :
       ctr[c].dep_wait = "none" /\ ctr'[c].dep_wait # "none" =>
         \E d \in RegistryDeps(c) : ~DepCycle(c, d)]_vars

\* The entry of a container removed while it runs goes when its process does
\* (for a re-adopted one adopt_watchdog sees the exit, and keeps it).
RemovedIsDropped ==
  \A c \in Container :
    daemon = "up" /\ ctr[c].pid /\ ~ctr[c].adopted /\ ~Registered(c) ~>
      daemon # "up" \/ ~ctr[c].known \/ Registered(c)

\* Fail-open: a container that is wanted up is running some time later, or it is
\* no longer wanted, or it is parked; a dependency that never becomes ready does
\* not hold it down for ever.
WantedRuns ==
  \A c \in Container :
    daemon = "up" /\ ctr[c].desired = "UP" ~>
      daemon # "up" \/ ctr[c].pid \/ ctr[c].desired = "DOWN" \/ ctr[c].parked # "no"

\* A stop takes effect: a container wanted down ends up without a process, even
\* one that ignores its stop signal, unless it is wanted up again.
StopEnds ==
  \A c \in Container :
    daemon = "up" /\ ctr[c].pid /\ ctr[c].desired = "DOWN" ~>
      daemon # "up" \/ ~ctr[c].pid \/ ctr[c].desired = "UP"

\* A container wanted in an infra that netifd has no interface for is given up, unless
\* an earlier launch of it got past the gates: infra_was_up is set by every launch, in
\* whatever infra or in none, and such a container is retried for ever.
BadInfraGivesUp ==
  \A c \in Container :
    daemon = "up" /\ ctr[c].desired = "UP" /\ ctr[c].cfg.infra \in Infra \ ValidInfra
      /\ ~ctr[c].pid /\ ctr[c].parked = "no" /\ ~ctr[c].infra_was_up ~>
      \/ daemon # "up" \/ ctr[c].desired = "DOWN" \/ ctr[c].parked # "no"
      \/ ctr[c].cfg.infra \notin Infra \ ValidInfra

\* A member of an infra that goes down under it is told to go, unless the infra is
\* back before the watchdog looks.
OutageIsNoticed ==
  \A c \in Container :
    daemon = "up" /\ ctr[c].pid /\ jail[c].net = "orphan" /\ ctr[c].cfg.infra \in Infra \ netns ~>
      daemon # "up" \/ jail[c].term \/ jail[c].net # "orphan" \/ ctr[c].cfg.infra \notin Infra \ netns

\* A running container that uxcd itself signals while it is wanted up (restart,
\* unhealthy, infra outage) is launched again when it exits.
RestartRelaunches ==
  [][\A c \in Container :
       ctr[c].pid /\ ~ctr'[c].pid /\ jail[c].term /\ ctr[c].desired = "UP"
         /\ Registered(c) /\ daemon' = "up" =>
         relaunch'[c] > 0 \/ ctr'[c].desired = "DOWN"]_vars

-----------------------------------------------------------------------------
(* What all this is for: module Supervision.                               *)

\* The jails of the name of c that run.
Copies(c) == (IF Live(jail[c]) THEN 1 ELSE 0) + (IF Live(left[c]) THEN 1 ELSE 0)

A == INSTANCE Supervision WITH
  alive <- daemon # "down",
  wanted <- {c \in Container : ctr[c].desired = "UP"},
  copies <- [c \in Container |-> Copies(c)],
  doomed <- {c \in grace : Live(jail[c])}

\* A container is launched only while it is wanted and nothing of its name runs, so that
\* it never has two jails; one that is told to stop is killed if it does not go, and only
\* that one; a new daemon wants what it finds running (start to proc_exit_cb, and init).
ImplementsSupervision == A!Spec

-----------------------------------------------------------------------------
(* The inductive invariant behind WantedIsPursued, StopIsEnforced,         *)
(* NoReentry and NoSecondCopy.                                             *)

Launching == {stack[k].c : k \in DOMAIN stack}

\* A container being launched is known, wanted up and has no process yet.
LaunchingIsWanted ==
  \A c \in Launching : ctr[c].known /\ ctr[c].desired = "UP" /\ ~ctr[c].pid

\* With no daemon there is no callback and no entry, nobody's parent dies twice,
\* and before a clean death every jail was one the next daemon will find.
DownIsEmpty ==
  daemon = "down" =>
    /\ stack = <<>>
    /\ \A c \in Container :
         /\ ctr[c] = NoEntry
         /\ CleanDeaths => jail[c].st # "starting" /\ (jail[c].st = "up" => Registered(c))

\* An entry's pid names a jail, and a daemon that runs knows every jail's pid.
PidsMatchJails ==
  \A c \in Container : /\ ctr[c].pid => ctr[c].known /\ jail[c].st # "none"
                       /\ daemon # "down" /\ ~ctr[c].pid => jail[c].st = "none"

\* WantedIsPursued, also in the middle of a callback and while booting.
Pursued ==
  \A c \in Container :
    ctr[c].known /\ ctr[c].desired = "UP" /\ ~ctr[c].pid
    => relaunch[c] > 0 \/ ctr[c].parked # "no" \/ c \in Launching

NothingLeftBehind == CleanDeaths => \A c \in Container : left[c] = NoJail

SupervisorInv ==
  /\ NoReentry /\ LaunchingIsWanted /\ DownIsEmpty /\ PidsMatchJails
  /\ Pursued /\ StopIsEnforced /\ NothingLeftBehind
=============================================================================
