-------------------------- MODULE SupervisorProofs --------------------------
(***************************************************************************)
(* What holds of Supervisor for every set of containers, every registry    *)
(* and every bound, proved with TLAPS: its types first, then its safety.   *)
(*                                                                         *)
(* SupervisorInv is inductive, and with it WantedIsPursued,                *)
(* StopIsEnforced, NoReentry and, when the daemon dies only while every    *)
(* jail is registered and up, NoSecondCopy hold of every supervisor.       *)
(* OnlyStartWants is a property of its steps; CyclesDoNotWait and          *)
(* LaunchWaitsForDeps follow from what the frames of a callback have seen  *)
(* of the registry, so long as it is not rewritten under them.  Module     *)
(* Supervision is what the whole implements.                               *)
(***************************************************************************)
EXTENDS Supervisor, SequenceTheorems, TLAPS

-----------------------------------------------------------------------------
(* Facts about the data.                                                   *)

\* The record apply_config makes of an absent file is a configuration.
LEMMA NoFileIsConfig == NoFile \in Configs
BY SupervisorAssumption DEF NoFile, Configs

\* Every registry file, present or not, reads as a configuration.
LEMMA FileIsConfig == Registrable \cup {NoFile} \subseteq Configs
BY NoFileIsConfig DEF Registrable

\* A fresh entry is an entry, a missing jail is a jail.
LEMMA NoEntryIsEntry == NoEntry \in Entries
BY NoFileIsConfig DEF NoEntry, Entries, Windows

LEMMA NoJailIsJail == NoJail \in Jails
BY DEF NoJail, Jails

\* The updates of an entry's fields that the actions make.
LEMMA JailUpdates ==
  ASSUME NEW j \in Jails
  PROVE  /\ [j EXCEPT !.st = "up"] \in Jails
         /\ [j EXCEPT !.st = "dead"] \in Jails
         /\ [j EXCEPT !.term = TRUE] \in Jails
         /\ [j EXCEPT !.net = "orphan"] \in Jails
<1>1. [j EXCEPT !.st = "up"] \in Jails
  BY DEF Jails
<1>2. [j EXCEPT !.st = "dead"] \in Jails
  BY DEF Jails
<1>3. [j EXCEPT !.term = TRUE] \in Jails
  BY DEF Jails
<1>4. [j EXCEPT !.net = "orphan"] \in Jails
  BY DEF Jails
<1>5. QED
  BY <1>1, <1>2, <1>3, <1>4

LEMMA EntryUpdates ==
  ASSUME NEW e \in Entries
  PROVE  /\ \A d \in {"UP", "DOWN"} : [e EXCEPT !.desired = d] \in Entries
         /\ [e EXCEPT !.desired = "UP", !.crash = 0] \in Entries
         /\ \A cfg \in Configs : [e EXCEPT !.cfg = cfg] \in Entries
         /\ \A h \in {"unknown", "healthy", "unhealthy"} : [e EXCEPT !.health = h] \in Entries
         /\ \A w \in Windows : /\ [e EXCEPT !.dep_wait = w] \in Entries
                               /\ [e EXCEPT !.infra_wait = w] \in Entries
         /\ [e EXCEPT !.desired = "DOWN", !.infra_wait = "none"] \in Entries
<1>1. ASSUME NEW d \in {"UP", "DOWN"} PROVE [e EXCEPT !.desired = d] \in Entries
  BY DEF Entries
<1>2. [e EXCEPT !.desired = "UP", !.crash = 0] \in Entries
  BY DEF Entries
<1>3. ASSUME NEW cfg \in Configs PROVE [e EXCEPT !.cfg = cfg] \in Entries
  BY DEF Entries
<1>4. ASSUME NEW h \in {"unknown", "healthy", "unhealthy"}
      PROVE  [e EXCEPT !.health = h] \in Entries
  BY DEF Entries
<1>5. ASSUME NEW w \in Windows
      PROVE  [e EXCEPT !.dep_wait = w] \in Entries /\ [e EXCEPT !.infra_wait = w] \in Entries
  BY DEF Entries
<1>6. [e EXCEPT !.desired = "DOWN", !.infra_wait = "none"] \in Entries
  BY DEF Entries, Windows
<1>7. QED
  BY <1>1, <1>2, <1>3, <1>4, <1>5, <1>6

\* The stack of launch() frames: popping and pushing keep it a sequence of frames.
LEMMA StackOps ==
  ASSUME NEW s \in Seq(Frames)
  PROVE  /\ s # <<>> => Head(s) \in Frames /\ Tail(s) \in Seq(Frames)
         /\ \A f \in Frames : <<f>> \o s \in Seq(Frames)
BY HeadTailProperties, ConcatProperties, SMT

LEMMA FrameUpdates ==
  ASSUME NEW f \in Frames
  PROVE  [f EXCEPT !.i = @ + 1] \in Frames /\ [f EXCEPT !.defer = TRUE] \in Frames
<1>1. [f EXCEPT !.i = @ + 1] \in Frames
  BY DEF Frames
<1>2. [f EXCEPT !.defer = TRUE] \in Frames
  BY DEF Frames
<1>3. QED
  BY <1>1, <1>2

\* Writing back the dependencies a configuration has changes nothing.
LEMMA SameDeps ==
  ASSUME NEW cfg \in Configs
  PROVE  [cfg EXCEPT !.depends_on = cfg.depends_on] = cfg
BY DEF Configs

\* Renaming inside a dependency list keeps it a list of names.
LEMMA RenamedType ==
  ASSUME NEW deps \in Seq(Container), NEW old \in Container, NEW new \in Container
  PROVE  Renamed(deps, old, new) \in Seq(Container)
BY SeqDef DEF Renamed

\* The entry ensure() returns.
LEMMA EnsureType ==
  ASSUME TypeOK, NEW c \in Container
  PROVE  Ensure(c) \in Entries
BY NoEntryIsEntry, FileIsConfig DEF TypeOK, Ensure, Entries

\* What launch() and start() leave of the entries and of the stack.
LEMMA EnterLaunchType ==
  ASSUME TypeOK, NEW c \in Container, NEW e \in Entries, NEW rest \in Seq(Frames),
         EnterLaunch(c, e, rest)
  PROVE  ctr' \in [Container -> Entries] /\ stack' \in Seq(Frames)
<1>1. reg[c] \in Configs
  BY FileIsConfig DEF TypeOK
<1>2. [e EXCEPT !.cfg = reg[c], !.parked = IF Registered(c) THEN "no" ELSE "no_bundle"] \in Entries
  BY <1>1 DEF Entries
<1>3. [c |-> c, i |-> 1, late |-> Late(e), defer |-> FALSE] \in Frames
  BY DEF Frames, Late
<1>4. QED
  BY <1>2, <1>3, StackOps DEF EnterLaunch, TypeOK

LEMMA DoStartType ==
  ASSUME TypeOK, NEW c \in Container, NEW rest \in Seq(Frames), DoStart(c, rest)
  PROVE  ctr' \in [Container -> Entries] /\ stack' \in Seq(Frames)
<1> DEFINE e == Ensure(c)
<1>1. e \in Entries /\ StartEntry(e) \in Entries
  BY EnsureType DEF StartEntry, Entries, Windows
<1>2. CASE EnterLaunch(c, StartEntry(e), rest)
  BY <1>1, <1>2, EnterLaunchType
<1>3. CASE ctr' = [ctr EXCEPT ![c] = e] /\ stack' = rest
  BY <1>1, <1>3 DEF TypeOK
<1>4. CASE ctr' = [ctr EXCEPT ![c] = StartEntry(e)] /\ stack' = rest
  BY <1>1, <1>4 DEF TypeOK
<1>5. QED
  BY <1>2, <1>3, <1>4 DEF DoStart

LEMMA PullUpType ==
  ASSUME TypeOK, NEW d \in Container, NEW rest \in Seq(Frames), PullUp(d, rest)
  PROVE  ctr' \in [Container -> Entries] /\ stack' \in Seq(Frames)
BY DoStartType DEF PullUp, TypeOK

LEMMA SignalType ==
  ASSUME TypeOK, NEW c \in Container, SignalAndReap(c)
  PROVE  jail' \in [Container -> Jails] /\ grace' \subseteq Container
BY DEF SignalAndReap, TypeOK, Jails

LEMMA SpendType ==
  ASSUME TypeOK, NEW k \in {"commands", "unattended", "deaths", "faults"}, Spend(k)
  PROVE  quota' \in [{"commands", "unattended", "deaths", "faults"} -> Nat]
BY DEF Spend, TypeOK

LEMMA TimersType ==
  ASSUME TypeOK, NEW c \in Container, ScheduleRelaunch(c)
  PROVE  relaunch' \in [Container -> 0..MaxTimers]
BY SupervisorAssumption DEF ScheduleRelaunch, MoreTimers, TypeOK

\* The frame a launch() step works on, and the dependency it is at.
LEMMA FrameType ==
  ASSUME TypeOK, stack # <<>>
  PROVE  /\ top \in Frames /\ self \in Container /\ callers \in Seq(Frames)
         /\ ctr[self].cfg \in Configs
         /\ top.i <= Len(ctr[self].cfg.depends_on) => dep \in Container
         /\ <<[top EXCEPT !.i = @ + 1]>> \o callers \in Seq(Frames)
         /\ <<[top EXCEPT !.defer = TRUE]>> \o callers \in Seq(Frames)
<1>1. top \in Frames /\ callers \in Seq(Frames)
  BY StackOps DEF TypeOK, top, callers
<1>2. self \in Container /\ ctr[self].cfg \in Configs
  BY <1>1 DEF TypeOK, self, Frames, Entries
<1>3. ASSUME top.i <= Len(ctr[self].cfg.depends_on) PROVE dep \in Container
  BY <1>1, <1>2, <1>3, ElementOfSeq, LenProperties DEF dep, Frames, Configs
<1>4. /\ [top EXCEPT !.i = @ + 1] \in Frames
      /\ [top EXCEPT !.defer = TRUE] \in Frames
  BY <1>1, FrameUpdates
<1>5. \A f \in Frames : <<f>> \o callers \in Seq(Frames)
  BY <1>1, StackOps
<1>6. QED
  BY <1>1, <1>2, <1>3, <1>4, <1>5

-----------------------------------------------------------------------------
(* Type correctness, one lemma per group of actions.                       *)

\* What the requests do to the rest of the state, whoever makes them.
Starts(c) ==
  Idle /\ DoStart(c, <<>>) /\ UNCHANGED <<daemon, todo, relaunch, grace, reg, world>>

Stops(c) ==
  Idle /\ DoStop(c) /\ UNCHANGED <<daemon, todo, relaunch, left, reg, netns, asked>>

Restarts(c) ==
  /\ Idle /\ \E e \in Redescribed(c) : DoRestart(c, e)
  /\ UNCHANGED <<daemon, todo, relaunch, left, reg, netns, asked>>

Registers(c, cfg) == Create(c, cfg) \/ SetConfig(c, cfg) \/ JobRegisters(c, cfg)

Request == Command \/ Errand

\* Every request is one of these.
LEMMA Requests ==
  ASSUME TypeOK, Request
  PROVE  /\ quota' \in [{"commands", "unattended", "deaths", "faults"} -> Nat]
         /\ \E c \in Container :
              \/ Starts(c) \/ Stops(c) \/ Restarts(c) \/ Remove(c)
              \/ \E cfg \in Offered[c] : Registers(c, cfg)
              \/ \E new \in Container : Rename(c, new)
<1>1. ASSUME NEW c \in Container, Start(c) PROVE Starts(c) /\ Spend("commands")
  BY <1>1 DEF Start, Starts
<1>2. ASSUME NEW c \in Container, Stop(c) PROVE Stops(c) /\ Spend("commands")
  BY <1>2 DEF Stop, Stops
<1>3. ASSUME NEW c \in Container, Restart(c) \/ Rollback(c)
      PROVE  Restarts(c) /\ Spend("commands")
  BY <1>3 DEF Restart, Rollback, Restarts, Redescribed
<1>4. ASSUME NEW c \in Container, UpgradeRestarts(c) \/ WatchRestarts(c)
      PROVE  Restarts(c) /\ Spend("unattended")
  BY <1>4 DEF UpgradeRestarts, WatchRestarts, Restarts
<1>5. ASSUME NEW c \in Container, ScheduleFires(c)
      PROVE  (Starts(c) \/ Stops(c) \/ Restarts(c)) /\ Spend("unattended")
  <2>1. Ensure(c) \in Redescribed(c)
    BY DEF Redescribed
  <2>2. CASE DoStop(c)
    BY <1>5, <2>2 DEF ScheduleFires, Stops
  <2>3. CASE DoRestart(c, Ensure(c))
    BY <1>5, <2>1, <2>3 DEF ScheduleFires, Restarts
  <2>4. CASE DoStart(c, <<>>) /\ UNCHANGED <<jail, grace>>
    BY <1>5, <2>4 DEF ScheduleFires, Starts, world
  <2>5. QED
    BY <1>5, <2>2, <2>3, <2>4 DEF ScheduleFires
<1>6. ASSUME NEW c \in Container,
             \/ Remove(c)
             \/ \E cfg \in Offered[c] : Registers(c, cfg)
             \/ \E new \in Container : Rename(c, new)
      PROVE  Spend("commands")
  BY <1>6 DEF Remove, Registers, Create, SetConfig, JobRegisters, Rename
<1>7. PICK c \in Container :
        \/ Start(c) \/ Stop(c) \/ Restart(c) \/ Rollback(c) \/ UpgradeRestarts(c)
        \/ WatchRestarts(c) \/ ScheduleFires(c) \/ Remove(c)
        \/ \E cfg \in Offered[c] : Registers(c, cfg)
        \/ \E new \in Container : Rename(c, new)
  BY DEF Request, Command, Errand, Registers
<1>8. Spend("commands") \/ Spend("unattended")
  BY <1>1, <1>2, <1>3, <1>4, <1>5, <1>6, <1>7
<1>9. quota' \in [{"commands", "unattended", "deaths", "faults"} -> Nat]
  BY <1>8, SpendType
<1>10. QED
  BY <1>1, <1>2, <1>3, <1>4, <1>5, <1>7, <1>9

\* The entry that is restarted is the one of ensure(), but for its configuration.
LEMMA RedescribedFacts ==
  ASSUME TypeOK, NEW c \in Container, NEW e \in Redescribed(c)
  PROVE  /\ e \in Entries
         /\ e.known = Ensure(c).known /\ e.pid = Ensure(c).pid
         /\ e.adopted = Ensure(c).adopted /\ e.desired = Ensure(c).desired
         /\ e.parked = Ensure(c).parked /\ e.dep_wait = Ensure(c).dep_wait
<1> DEFINE n == Ensure(c)
<1>1. n \in Entries /\ reg[c] \in Configs
  BY EnsureType, FileIsConfig DEF TypeOK
<1>2. e = n \/ e = [n EXCEPT !.cfg = reg[c]]
  BY DEF Redescribed
<1> HIDE DEF n
<1>3. LET m == [n EXCEPT !.cfg = reg[c]] IN
        /\ m \in Entries /\ m.known = n.known /\ m.pid = n.pid /\ m.adopted = n.adopted
        /\ m.desired = n.desired /\ m.parked = n.parked /\ m.dep_wait = n.dep_wait
  BY <1>1 DEF Entries
<1>4. QED
  BY <1>1, <1>2, <1>3 DEF n

LEMMA RequestType == ASSUME TypeOK, Request PROVE TypeOK'
<1>0. quota' \in [{"commands", "unattended", "deaths", "faults"} -> Nat]
  BY Requests
<1>1. ASSUME NEW c \in Container, Starts(c) PROVE TypeOK'
  <2>1. <<>> \in Seq(Frames)
    OBVIOUS
  <2>2. ctr' \in [Container -> Entries] /\ stack' \in Seq(Frames)
    BY <1>1, <2>1, DoStartType DEF Starts
  <2>3. quota' \in [{"commands", "unattended", "deaths", "faults"} -> Nat]
    BY <1>0
  <2>4. UNCHANGED <<daemon, todo, relaunch, grace, reg, world>>
    BY <1>1 DEF Starts
  <2>5. QED
    BY <2>2, <2>3, <2>4 DEF TypeOK, world
<1>2. ASSUME NEW c \in Container, Stops(c) PROVE TypeOK'
  <2>1. ctr' \in [Container -> Entries]
    <3>1. ctr[c] \in Entries
      BY DEF TypeOK
    <3>2. [ctr[c] EXCEPT !.desired = "DOWN"] \in Entries
      BY <3>1, EntryUpdates
    <3>3. QED
      BY <1>2, <3>2 DEF Stops, DoStop, TypeOK
  <2>2. jail' \in [Container -> Jails] /\ grace' \subseteq Container
    BY <1>2, SignalType DEF Stops, DoStop, TypeOK
  <2>3. quota' \in [{"commands", "unattended", "deaths", "faults"} -> Nat]
    BY <1>0
  <2>4. UNCHANGED <<daemon, todo, stack, relaunch, left, reg, netns, asked>>
    BY <1>2 DEF Stops, DoStop
  <2>5. QED
    BY <2>1, <2>2, <2>3, <2>4 DEF TypeOK
<1>3. ASSUME NEW c \in Container, Restarts(c) PROVE TypeOK'
  <2>0. PICK e \in Redescribed(c) : DoRestart(c, e)
    BY <1>3 DEF Restarts
  <2> DEFINE w == [e EXCEPT !.desired = "UP", !.crash = 0]
  <2>1. e \in Entries /\ w \in Entries
    BY RedescribedFacts, EntryUpdates
  <2>2. ctr' \in [Container -> Entries] /\ stack' \in Seq(Frames)
    <3> HIDE DEF w
    <3>1. CASE ctr' = [ctr EXCEPT ![c] = e] /\ stack' = stack
      BY <2>1, <3>1 DEF TypeOK
    <3>2. CASE ctr' = [ctr EXCEPT ![c] = w] /\ stack' = stack
      BY <2>1, <3>2 DEF TypeOK
    <3>3. CASE EnterLaunch(c, w, <<>>)
      <4>1. <<>> \in Seq(Frames)
        OBVIOUS
      <4>2. QED
        BY <2>1, <3>3, <4>1, EnterLaunchType
    <3>4. QED
      BY <2>0, <3>1, <3>2, <3>3 DEF DoRestart, w
  <2>3. jail' \in [Container -> Jails] /\ grace' \subseteq Container
    BY <2>0, SignalType DEF DoRestart, TypeOK
  <2>4. quota' \in [{"commands", "unattended", "deaths", "faults"} -> Nat]
    BY <1>0
  <2>5. UNCHANGED <<daemon, todo, relaunch, left, reg, netns, asked>>
    BY <1>3 DEF Restarts
  <2>6. QED
    BY <2>2, <2>3, <2>4, <2>5 DEF TypeOK
<1>4. ASSUME NEW c \in Container, Remove(c) PROVE TypeOK'
  <2>1. ctr' \in [Container -> Entries]
    <3>1. ctr[c] \in Entries
      BY DEF TypeOK
    <3>2. [ctr[c] EXCEPT !.desired = "DOWN"] \in Entries
      BY <3>1, EntryUpdates
    <3>3. QED
      BY <1>4, <3>2, NoEntryIsEntry DEF Remove, TypeOK
  <2>2. reg' \in [Container -> Registrable \cup {NoFile}]
    BY <1>4 DEF Remove, TypeOK
  <2>3. jail' \in [Container -> Jails] /\ grace' \subseteq Container
    BY <1>4, SignalType DEF Remove, TypeOK
  <2>4. quota' \in [{"commands", "unattended", "deaths", "faults"} -> Nat]
    BY <1>0
  <2>5. UNCHANGED <<daemon, todo, stack, relaunch, left, netns, asked>>
    BY <1>4 DEF Remove
  <2>6. QED
    BY <2>1, <2>2, <2>3, <2>4, <2>5 DEF TypeOK
<1>5. ASSUME NEW c \in Container, NEW cfg \in Offered[c],
             Registers(c, cfg)
      PROVE  TypeOK'
  <2>1. cfg \in Registrable /\ cfg \in Configs
    BY SupervisorAssumption DEF Registrable
  <2>2. reg' \in [Container -> Registrable \cup {NoFile}]
    BY <1>5, <2>1 DEF Registers, Create, SetConfig, JobRegisters, TypeOK
  <2>3. ctr' \in [Container -> Entries]
    <3>1. [Ensure(c) EXCEPT !.cfg = cfg] \in Entries
      BY <2>1, EnsureType, EntryUpdates
    <3>2. [ctr[c] EXCEPT !.cfg = cfg] \in Entries
      BY <2>1, EntryUpdates DEF TypeOK
    <3>3. QED
      BY <1>5, <3>1, <3>2 DEF Registers, Create, SetConfig, JobRegisters, TypeOK
  <2>4. quota' \in [{"commands", "unattended", "deaths", "faults"} -> Nat]
    BY <1>0
  <2>5. UNCHANGED <<daemon, todo, stack, relaunch, grace, world>>
    BY <1>5 DEF Registers, Create, SetConfig, JobRegisters
  <2>6. QED
    BY <2>2, <2>3, <2>4, <2>5 DEF TypeOK, world
<1>6. ASSUME NEW old \in Container, NEW new \in Container, Rename(old, new) PROVE TypeOK'
  <2> DEFINE moved == [reg EXCEPT ![new] = reg[old], ![old] = NoFile]
             Re(o) == [moved[o] EXCEPT !.depends_on = Renamed(@, old, new)]
             others == {o \in Container \ {new} : Re(o) # moved[o]}
  <2>1. moved \in [Container -> Registrable \cup {NoFile}]
    BY DEF TypeOK
  <2>2. ASSUME NEW o \in Container
        PROVE  /\ Re(o) \in Configs
               /\ Re(o) # moved[o] => Re(o) \in Registrable
    <3>1. moved[o] \in Configs
      BY <2>1, FileIsConfig
    <3>2. Renamed(moved[o].depends_on, old, new) \in Seq(Container)
      BY <3>1, RenamedType DEF Configs
    <3>3. Re(o) \in Configs /\ Re(o).bundle = moved[o].bundle
      BY <3>1, <3>2 DEF Configs
    <3>4. ASSUME moved[o] = NoFile PROVE Re(o) = moved[o]
      <4>1. NoFile.depends_on = <<>> /\ Renamed(<<>>, old, new) = <<>>
        BY DEF NoFile, Renamed
      <4>2. [NoFile EXCEPT !.depends_on = <<>>] = NoFile
        BY <4>1, NoFileIsConfig, SameDeps
      <4>3. QED
        BY <3>4, <4>1, <4>2
    <3>5. ASSUME Re(o) # moved[o] PROVE Re(o) \in Registrable
      <4>1. moved[o] \in Registrable
        BY <2>1, <3>4, <3>5
      <4>2. QED
        BY <3>3, <4>1 DEF Registrable
    <3>6. QED
      BY <3>3, <3>5
  <2>3. /\ reg' = [o \in Container |-> IF o \in others THEN Re(o) ELSE moved[o]]
        /\ ctr' = [o \in Container |-> IF o = old THEN NoEntry
                                       ELSE IF o \in others /\ ctr[o].known
                                       THEN [ctr[o] EXCEPT !.cfg = Re(o)] ELSE ctr[o]]
    BY <1>6 DEF Rename
  <2>4. reg' \in [Container -> Registrable \cup {NoFile}]
    <3> HIDE DEF moved, Re
    <3> QED
      BY <2>1, <2>2, <2>3
  <2>5. ctr' \in [Container -> Entries]
    <3> HIDE DEF moved, Re, others
    <3>1. \A o \in Container : [ctr[o] EXCEPT !.cfg = Re(o)] \in Entries
      BY <2>2, EntryUpdates DEF TypeOK
    <3>2. QED
      BY <2>3, <3>1, NoEntryIsEntry DEF TypeOK
  <2>6. quota' \in [{"commands", "unattended", "deaths", "faults"} -> Nat]
    BY <1>0
  <2>7. UNCHANGED <<daemon, todo, stack, relaunch, grace, world>>
    BY <1>6 DEF Rename
  <2>8. QED
    BY <2>4, <2>5, <2>6, <2>7 DEF TypeOK, world
<1>7. QED
  BY <1>1, <1>2, <1>3, <1>4, <1>5, <1>6, Requests

\* Pairs of updates launch() makes on its way out.
LEMMA GateUpdates ==
  ASSUME NEW e \in Entries
  PROVE  /\ PastGates(e) \in Entries
         /\ [PastGates(e) EXCEPT !.parked = "spawn_failed"] \in Entries
         /\ [PastGates(e) EXCEPT !.pid = TRUE, !.adopted = FALSE] \in Entries
<1>1. PastGates(e) \in Entries
  BY DEF PastGates, Entries, Windows
<1>2. ASSUME NEW p \in Entries
      PROVE  /\ [p EXCEPT !.parked = "spawn_failed"] \in Entries
             /\ [p EXCEPT !.pid = TRUE, !.adopted = FALSE] \in Entries
  <2>1. [p EXCEPT !.parked = "spawn_failed"] \in Entries
    BY DEF Entries
  <2>2. [p EXCEPT !.pid = TRUE, !.adopted = FALSE] \in Entries
    BY DEF Entries
  <2>3. QED
    BY <2>1, <2>2
<1>3. QED
  BY <1>1, <1>2

LEMMA LaunchStepType == ASSUME TypeOK, LaunchStep PROVE TypeOK'
<1>1. CASE LaunchNextDep
  <2>1. stack' \in Seq(Frames)
    BY <1>1, FrameType DEF LaunchNextDep, AtDep
  <2>2. QED
    BY <1>1, <2>1 DEF LaunchNextDep, world, TypeOK
<1>2. ASSUME LaunchBreaksCycle \/ LaunchPullsDep PROVE TypeOK'
  <2>1. stack # <<>> /\ dep \in Container
    BY <1>2, FrameType DEF LaunchBreaksCycle, LaunchPullsDep, AtDep
  <2>2. \E rest \in Seq(Frames) : PullUp(dep, rest)
    BY <1>2, <2>1, FrameType DEF LaunchBreaksCycle, LaunchPullsDep
  <2>3. ctr' \in [Container -> Entries] /\ stack' \in Seq(Frames)
    BY <2>1, <2>2, PullUpType
  <2>4. UNCHANGED <<daemon, todo, relaunch, grace, reg, quota, world>>
    BY <1>2 DEF LaunchBreaksCycle, LaunchPullsDep
  <2>5. QED
    BY <2>3, <2>4 DEF world, TypeOK
<1>3. ASSUME LaunchDefers PROVE TypeOK'
  <2>1. self \in Container /\ callers \in Seq(Frames)
    BY <1>3, FrameType DEF LaunchDefers
  <2>2. ctr[self] \in Entries
    BY <2>1 DEF TypeOK
  <2>3. ctr' \in [Container -> Entries]
    <3>1. (IF ctr[self].dep_wait = "none" THEN "waiting" ELSE ctr[self].dep_wait) \in Windows
      BY <2>2 DEF Entries, Windows
    <3>2. [ctr[self] EXCEPT !.dep_wait = IF @ = "none" THEN "waiting" ELSE @] \in Entries
      BY <2>2, <3>1, EntryUpdates
    <3>3. QED
      BY <1>3, <3>2 DEF LaunchDefers, TypeOK
  <2>4. relaunch' \in [Container -> 0..MaxTimers]
    BY <1>3, <2>1, TimersType DEF LaunchDefers
  <2>5. stack' \in Seq(Frames) /\ UNCHANGED <<daemon, todo, grace, reg, quota, world>>
    BY <1>3, <2>1 DEF LaunchDefers
  <2>6. QED
    BY <2>3, <2>4, <2>5 DEF world, TypeOK
<1>4. ASSUME LaunchLacksMount \/ LaunchLacksBundle PROVE TypeOK'
  <2>1. self \in Container /\ callers \in Seq(Frames)
    BY <1>4, FrameType DEF LaunchLacksMount, LaunchLacksBundle, AtEnd
  <2>2. ctr[self] \in Entries
    BY <2>1 DEF TypeOK
  <2>3. [ctr[self] EXCEPT !.dep_wait = "none"] \in Entries /\ PastGates(ctr[self]) \in Entries
    BY <2>2, EntryUpdates, GateUpdates DEF Windows
  <2>4. ctr' \in [Container -> Entries]
    BY <1>4, <2>3 DEF LaunchLacksMount, LaunchLacksBundle, TypeOK
  <2>5. relaunch' \in [Container -> 0..MaxTimers]
    BY <1>4, <2>1, TimersType DEF LaunchLacksMount, LaunchLacksBundle
  <2>6. quota' \in [{"commands", "unattended", "deaths", "faults"} -> Nat]
    BY <1>4, SpendType DEF LaunchLacksMount, LaunchLacksBundle
  <2>7. stack' \in Seq(Frames) /\ UNCHANGED <<daemon, todo, grace, reg, world>>
    BY <1>4, <2>1 DEF LaunchLacksMount, LaunchLacksBundle
  <2>8. QED
    BY <2>4, <2>5, <2>6, <2>7 DEF world, TypeOK
<1>5. ASSUME LaunchLacksInfra PROVE TypeOK'
  <2> DEFINE e == [ctr[self] EXCEPT !.dep_wait = "none"]
             waits == [e EXCEPT !.infra_wait = IF @ = "none" THEN "waiting" ELSE @]
             down == [e EXCEPT !.desired = "DOWN", !.infra_wait = "none"]
  <2>1. self \in Container /\ callers \in Seq(Frames)
    BY <1>5, FrameType DEF LaunchLacksInfra, AtEnd
  <2>2. ctr[self] \in Entries
    BY <2>1 DEF TypeOK
  <2>3. e \in Entries
    BY <2>2, EntryUpdates DEF Windows
  <2>4. waits \in Entries /\ down \in Entries
    <3> HIDE DEF e
    <3>1. (IF e.infra_wait = "none" THEN "waiting" ELSE e.infra_wait) \in Windows
      BY <2>3 DEF Entries, Windows
    <3>2. QED
      BY <2>3, <3>1, EntryUpdates
  <2>5. ctr' \in [Container -> Entries] /\ relaunch' \in [Container -> 0..MaxTimers]
    <3>1. \/ ctr' = [ctr EXCEPT ![self] = down] /\ UNCHANGED relaunch
          \/ ctr' = [ctr EXCEPT ![self] = waits] /\ ScheduleRelaunch(self)
      BY <1>5 DEF LaunchLacksInfra
    <3> HIDE DEF down, waits
    <3>2. QED
      BY <2>1, <2>4, <3>1, TimersType DEF TypeOK
  <2>6. asked' \subseteq Infra
    <3>1. ctr[self].cfg.infra \in Infra
      BY <1>5, <2>2 DEF LaunchLacksInfra, InfraUp, Entries, Configs
    <3>2. asked' = asked \cup {ctr[self].cfg.infra}
      BY <1>5 DEF LaunchLacksInfra
    <3>3. QED
      BY <3>1, <3>2 DEF TypeOK
  <2>7. stack' \in Seq(Frames) /\ UNCHANGED <<daemon, todo, grace, jail, left, reg, netns, quota>>
    BY <1>5, <2>1 DEF LaunchLacksInfra
  <2>8. QED
    BY <2>5, <2>6, <2>7 DEF TypeOK
<1>6. ASSUME LaunchCannotFork PROVE TypeOK'
  <2>1. self \in Container /\ callers \in Seq(Frames)
    BY <1>6, FrameType DEF LaunchCannotFork, AtEnd
  <2>2. [PastGates(ctr[self]) EXCEPT !.parked = "spawn_failed"] \in Entries
    BY <2>1, GateUpdates DEF TypeOK
  <2>3. ctr' \in [Container -> Entries]
    BY <1>6, <2>2 DEF LaunchCannotFork, TypeOK
  <2>4. quota' \in [{"commands", "unattended", "deaths", "faults"} -> Nat]
    BY <1>6, SpendType DEF LaunchCannotFork
  <2>5. stack' \in Seq(Frames) /\ UNCHANGED <<daemon, todo, relaunch, grace, reg, world>>
    BY <1>6, <2>1 DEF LaunchCannotFork
  <2>6. QED
    BY <2>3, <2>4, <2>5 DEF world, TypeOK
<1>7. ASSUME LaunchForks PROVE TypeOK'
  <2>1. self \in Container /\ callers \in Seq(Frames)
    BY <1>7, FrameType DEF LaunchForks, AtEnd
  <2>2. ctr[self] \in Entries
    BY <2>1 DEF TypeOK
  <2>3. [PastGates(ctr[self]) EXCEPT !.pid = TRUE, !.adopted = FALSE] \in Entries
    BY <2>2, GateUpdates
  <2>4. ctr' \in [Container -> Entries]
    BY <1>7, <2>3 DEF LaunchForks, TypeOK
  <2>5. [st |-> "starting", net |-> ctr[self].cfg.infra, term |-> FALSE] \in Jails
    BY <2>2 DEF Entries, Configs, Jails
  <2>6. jail' \in [Container -> Jails] /\ left' \in [Container -> Jails]
    BY <1>7, <2>1, <2>5 DEF LaunchForks, TypeOK
  <2>7. stack' \in Seq(Frames) /\ UNCHANGED <<daemon, todo, relaunch, grace, reg, netns, asked, quota>>
    BY <1>7, <2>1 DEF LaunchForks
  <2>8. QED
    BY <2>4, <2>6, <2>7 DEF TypeOK
<1>8. QED
  BY <1>1, <1>2, <1>3, <1>4, <1>5, <1>6, <1>7 DEF LaunchStep

\* What an exit leaves of an entry.
LEMMA ExitUpdates ==
  ASSUME NEW e \in Entries, NEW stable \in BOOLEAN
  PROVE  /\ Exited(e) \in Entries
         /\ [Exited(e) EXCEPT !.adopted = FALSE] \in Entries
         /\ AfterExit(e, stable) \in Entries
<1>1. Exited(e) \in Entries
  BY DEF Exited, Entries
<1>2. \A x \in Entries : [x EXCEPT !.adopted = FALSE] \in Entries
  BY DEF Entries
<1>3. [e EXCEPT !.parked = "respawn_off"] \in Entries
  BY DEF Entries
<1>4. CrashCount(e, stable) \in Nat
  BY DEF CrashCount, Entries
<1>5. ASSUME NEW n \in Nat
      PROVE  /\ [e EXCEPT !.crash = n] \in Entries
             /\ [e EXCEPT !.crash = n, !.desired = "DOWN"] \in Entries
  <2>1. [e EXCEPT !.crash = n] \in Entries
    BY DEF Entries
  <2>2. [e EXCEPT !.crash = n, !.desired = "DOWN"] \in Entries
    BY DEF Entries
  <2>3. QED
    BY <2>1, <2>2
<1>6. AfterExit(e, stable) \in Entries
  <2>1. /\ [e EXCEPT !.crash = CrashCount(e, stable)] \in Entries
        /\ [e EXCEPT !.crash = CrashCount(e, stable), !.desired = "DOWN"] \in Entries
    BY <1>4, <1>5
  <2>2. QED
    BY <1>3, <2>1 DEF AfterExit
<1>7. QED
  BY <1>1, <1>2, <1>6

LEMMA CallbackType == ASSUME TypeOK, Callback PROVE TypeOK'
<1>1. ASSUME NEW c \in Container, RelaunchFires(c) PROVE TypeOK'
  <2>1. relaunch' \in [Container -> 0..MaxTimers]
    <3>1. relaunch[c] \in 0..MaxTimers /\ relaunch[c] > 0
      BY <1>1 DEF RelaunchFires, TypeOK
    <3>2. {relaunch[c] - 1} \cup {k \in {MaxTimers} : relaunch[c] = MaxTimers} \subseteq 0..MaxTimers
      BY <3>1, SupervisorAssumption
    <3>3. QED
      BY <1>1, <3>2 DEF RelaunchFires, TypeOK
  <2>2. ctr' \in [Container -> Entries] /\ stack' \in Seq(Frames)
    <3>1. CASE EnterLaunch(c, ctr[c], <<>>)
      <4>1. <<>> \in Seq(Frames) /\ ctr[c] \in Entries
        BY DEF TypeOK
      <4>2. QED
        BY <3>1, <4>1, EnterLaunchType
    <3>2. CASE UNCHANGED <<ctr, stack>>
      BY <3>2 DEF TypeOK
    <3>3. QED
      BY <1>1, <3>1, <3>2 DEF RelaunchFires
  <2>3. UNCHANGED <<daemon, todo, grace, reg, quota, world>>
    BY <1>1 DEF RelaunchFires
  <2>4. QED
    BY <2>1, <2>2, <2>3 DEF world, TypeOK
<1>2. ASSUME NEW c \in Container, ProcExit(c) PROVE TypeOK'
  <2>1. ctr' \in [Container -> Entries]
    <3>1. ctr[c] \in Entries
      BY DEF TypeOK
    <3>2. \A stable \in BOOLEAN : AfterExit(Exited(ctr[c]), stable) \in Entries
      BY <3>1, ExitUpdates
    <3>3. QED
      BY <1>2, <3>2, NoEntryIsEntry DEF ProcExit, TypeOK
  <2>2. relaunch' \in [Container -> 0..MaxTimers]
    <3>1. ScheduleRelaunch(c) \/ UNCHANGED relaunch
      BY <1>2 DEF ProcExit
    <3>2. QED
      BY <3>1, TimersType DEF TypeOK
  <2>3. jail' \in [Container -> Jails] /\ grace' \subseteq Container
    BY <1>2, NoJailIsJail DEF ProcExit, TypeOK
  <2>4. UNCHANGED <<daemon, todo, stack, left, reg, netns, asked, quota>>
    BY <1>2 DEF ProcExit
  <2>5. QED
    BY <2>1, <2>2, <2>3, <2>4 DEF TypeOK
<1>3. ASSUME NEW c \in Container, GraceFires(c) PROVE TypeOK'
  <2>1. grace' \subseteq Container
    BY <1>3 DEF GraceFires, TypeOK
  <2>2. jail' \in [Container -> Jails]
    <3>1. jail[c] \in Jails
      BY DEF TypeOK
    <3>2. [jail[c] EXCEPT !.st = IF Live(jail[c]) THEN "dead" ELSE @] \in Jails
      BY <3>1 DEF Jails
    <3>3. QED
      BY <1>3, <3>2 DEF GraceFires, TypeOK
  <2>3. left' \in [Container -> Jails]
    BY <1>3, NoJailIsJail DEF GraceFires, TypeOK
  <2>4. UNCHANGED <<daemon, todo, stack, ctr, relaunch, reg, netns, asked, quota>>
    BY <1>3 DEF GraceFires
  <2>5. QED
    BY <2>1, <2>2, <2>3, <2>4 DEF TypeOK
<1>4. ASSUME NEW c \in Container, HealthVerdict(c) PROVE TypeOK'
  <2>1. ctr' \in [Container -> Entries]
    <3>1. ctr[c] \in Entries
      BY DEF TypeOK
    <3>2. /\ [ctr[c] EXCEPT !.health = "healthy"] \in Entries
          /\ [ctr[c] EXCEPT !.health = "unhealthy"] \in Entries
          /\ [ctr[c] EXCEPT !.health = "unknown"] \in Entries
      BY <3>1, EntryUpdates
    <3>3. QED
      BY <1>4, <3>2 DEF HealthVerdict, TypeOK
  <2>2. jail' \in [Container -> Jails] /\ grace' \subseteq Container
    <3>1. SignalAndReap(c) \/ UNCHANGED <<jail, grace>>
      BY <1>4 DEF HealthVerdict
    <3>2. QED
      BY <3>1, SignalType DEF TypeOK
  <2>3. UNCHANGED <<daemon, todo, stack, relaunch, left, reg, netns, asked, quota>>
    BY <1>4 DEF HealthVerdict
  <2>4. QED
    BY <2>1, <2>2, <2>3 DEF TypeOK
<1>5. QED
  BY <1>1, <1>2, <1>3, <1>4 DEF Callback

LEMMA WatchdogType == ASSUME TypeOK, Watchdog PROVE TypeOK'
<1>1. CASE AdoptWatchdog
  <2>1. PICK stable \in SUBSET Gone :
          /\ ctr' = [c \in Container |->
                       IF c \in Gone
                       THEN AfterExit([Exited(ctr[c]) EXCEPT !.adopted = FALSE], c \in stable)
                       ELSE ctr[c]]
          /\ relaunch' = [c \in Container |->
                            IF c \in Gone /\ Respawns(ctr[c], c \in stable)
                            THEN MoreTimers(relaunch[c]) ELSE relaunch[c]]
    BY <1>1 DEF AdoptWatchdog
  <2>2. ctr' \in [Container -> Entries]
    <3>1. ASSUME NEW c \in Container
          PROVE  AfterExit([Exited(ctr[c]) EXCEPT !.adopted = FALSE], c \in stable) \in Entries
      <4>1. ctr[c] \in Entries /\ (c \in stable) \in BOOLEAN
        BY DEF TypeOK
      <4>2. [Exited(ctr[c]) EXCEPT !.adopted = FALSE] \in Entries
        BY <4>1, ExitUpdates
      <4>3. QED
        BY <4>1, <4>2, ExitUpdates
    <3>2. QED
      BY <2>1, <3>1 DEF TypeOK
  <2>3. relaunch' \in [Container -> 0..MaxTimers]
    <3>1. \A n \in 0..MaxTimers : MoreTimers(n) \in 0..MaxTimers
      BY SupervisorAssumption DEF MoreTimers
    <3>2. QED
      BY <2>1, <3>1 DEF TypeOK
  <2>4. jail' \in [Container -> Jails] /\ grace' \subseteq Container
    BY <1>1, NoJailIsJail DEF AdoptWatchdog, TypeOK
  <2>5. UNCHANGED <<daemon, todo, stack, left, reg, netns, asked, quota>>
    BY <1>1 DEF AdoptWatchdog
  <2>6. QED
    BY <2>2, <2>3, <2>4, <2>5 DEF TypeOK
<1>2. CASE InfraWatchdog
  <2>1. jail' \in [Container -> Jails]
    <3>1. \A c \in Container : [jail[c] EXCEPT !.term = TRUE] \in Jails
      BY JailUpdates DEF TypeOK
    <3>2. QED
      BY <1>2, <3>1 DEF InfraWatchdog, TypeOK
  <2>2. asked' \subseteq Infra
    BY <1>2 DEF InfraWatchdog, MissingInfra, TypeOK
  <2>3. UNCHANGED <<daemon, todo, stack, ctr, relaunch, grace, left, reg, netns, quota>>
    BY <1>2 DEF InfraWatchdog
  <2>4. QED
    BY <2>1, <2>2, <2>3 DEF TypeOK
<1>3. QED
  BY <1>1, <1>2 DEF Watchdog

LEMMA LifeType == ASSUME TypeOK, Life PROVE TypeOK'
<1>1. CASE DaemonDies
  <2>1. ctr' \in [Container -> Entries] /\ stack' \in Seq(Frames)
    BY <1>1, NoEntryIsEntry DEF DaemonDies
  <2>2. relaunch' \in [Container -> 0..MaxTimers]
    BY <1>1, SupervisorAssumption DEF DaemonDies
  <2>3. jail' \in [Container -> Jails]
    BY <1>1, NoJailIsJail DEF DaemonDies, Orphaned, TypeOK
  <2>4. quota' \in [{"commands", "unattended", "deaths", "faults"} -> Nat]
    BY <1>1, SpendType DEF DaemonDies
  <2>5. QED
    BY <1>1, <2>1, <2>2, <2>3, <2>4 DEF DaemonDies, TypeOK
<1>2. CASE DaemonBoots
  <2>1. ctr' \in [Container -> Entries]
    <3>1. ASSUME NEW c \in Container
          PROVE  AdoptedEntry(c) \in Entries
                 /\ [NoEntry EXCEPT !.known = TRUE, !.cfg = reg[c]] \in Entries
      <4>1. reg[c] \in Configs
        BY FileIsConfig DEF TypeOK
      <4>2. \A e \in Entries :
              [e EXCEPT !.known = TRUE, !.cfg = reg[c], !.pid = TRUE, !.adopted = TRUE,
                        !.desired = "UP", !.infra_was_up = reg[c].infra # NoInfra] \in Entries
        BY <4>1 DEF Entries
      <4>3. \A e \in Entries : [e EXCEPT !.known = TRUE, !.cfg = reg[c]] \in Entries
        BY <4>1 DEF Entries
      <4>4. QED
        BY <4>2, <4>3, NoEntryIsEntry DEF AdoptedEntry
    <3>2. QED
      BY <1>2, <3>1, NoEntryIsEntry DEF DaemonBoots
  <2>2. left' \in [Container -> Jails] /\ jail' \in [Container -> Jails]
    BY <1>2, NoJailIsJail DEF DaemonBoots, TypeOK
  <2>3. daemon' = "boot" /\ todo' \subseteq Container
    BY <1>2 DEF DaemonBoots
  <2>4. UNCHANGED <<stack, relaunch, grace, reg, netns, asked, quota>>
    BY <1>2 DEF DaemonBoots
  <2>5. QED
    BY <2>1, <2>2, <2>3, <2>4 DEF TypeOK
<1>3. CASE BootEnds
  BY <1>3 DEF BootEnds, world, TypeOK
<1>4. ASSUME NEW c \in Container, BootVisits(c) PROVE TypeOK'
  <2>1. ctr' \in [Container -> Entries] /\ stack' \in Seq(Frames)
    <3>1. CASE DoStart(c, <<>>)
      <4>1. <<>> \in Seq(Frames)
        OBVIOUS
      <4>2. QED
        BY <3>1, <4>1, DoStartType
    <3>2. CASE UNCHANGED <<ctr, stack>>
      BY <3>2 DEF TypeOK
    <3>3. QED
      BY <1>4, <3>1, <3>2 DEF BootVisits
  <2>2. todo' \subseteq Container /\ UNCHANGED <<daemon, relaunch, grace, reg, quota, world>>
    BY <1>4 DEF BootVisits, TypeOK
  <2>3. QED
    BY <2>1, <2>2 DEF world, TypeOK
<1>5. QED
  BY <1>1, <1>2, <1>3, <1>4 DEF Life

LEMMA WorldType == ASSUME TypeOK, World PROVE TypeOK'
<1>1. ASSUME NEW c \in Container, JailStarts(c) \/ JailExits(c) PROVE TypeOK'
  <2>1. /\ [jail[c] EXCEPT !.st = "up"] \in Jails
        /\ [jail[c] EXCEPT !.st = "dead"] \in Jails
    BY JailUpdates DEF TypeOK
  <2>2. jail' \in [Container -> Jails]
    BY <1>1, <2>1, NoJailIsJail DEF JailStarts, JailExits, TypeOK
  <2>3. UNCHANGED <<daemon, todo, stack, ctr, relaunch, grace, left, reg, netns, asked, quota>>
    BY <1>1 DEF JailStarts, JailExits
  <2>4. QED
    BY <2>2, <2>3 DEF TypeOK
<1>2. ASSUME NEW c \in Container, LeftStarts(c) \/ LeftExits(c) PROVE TypeOK'
  <2>1. [left[c] EXCEPT !.st = "up"] \in Jails
    BY JailUpdates DEF TypeOK
  <2>2. left' \in [Container -> Jails]
    BY <1>2, <2>1, NoJailIsJail DEF LeftStarts, LeftExits, TypeOK
  <2>3. UNCHANGED <<daemon, todo, stack, ctr, relaunch, grace, jail, reg, netns, asked, quota>>
    BY <1>2 DEF LeftStarts, LeftExits
  <2>4. QED
    BY <2>2, <2>3 DEF TypeOK
<1>3. ASSUME NEW c \in Container, DepWindowPasses(c) \/ InfraWindowPasses(c) PROVE TypeOK'
  <2>1. /\ [ctr[c] EXCEPT !.dep_wait = "expired"] \in Entries
        /\ [ctr[c] EXCEPT !.infra_wait = "expired"] \in Entries
    BY EntryUpdates DEF TypeOK, Windows
  <2>2. ctr' \in [Container -> Entries]
    BY <1>3, <2>1 DEF DepWindowPasses, InfraWindowPasses, TypeOK
  <2>3. UNCHANGED <<daemon, todo, stack, relaunch, grace, reg, quota, world>>
    BY <1>3 DEF DepWindowPasses, InfraWindowPasses
  <2>4. QED
    BY <2>2, <2>3 DEF world, TypeOK
<1>4. ASSUME NEW i \in Infra, NetnsDown(i) PROVE TypeOK'
  <2>1. jail' \in [Container -> Jails]
    <3>1. \A c \in Container : [jail[c] EXCEPT !.net = "orphan"] \in Jails
      BY JailUpdates DEF TypeOK
    <3>2. QED
      BY <1>4, <3>1 DEF NetnsDown, TypeOK
  <2>2. quota' \in [{"commands", "unattended", "deaths", "faults"} -> Nat]
    BY <1>4, SpendType DEF NetnsDown
  <2>3. netns' \subseteq ValidInfra
    BY <1>4 DEF NetnsDown, TypeOK
  <2>4. UNCHANGED <<daemon, todo, stack, ctr, relaunch, grace, left, reg, asked>>
    BY <1>4 DEF NetnsDown
  <2>5. QED
    BY <2>1, <2>2, <2>3, <2>4 DEF TypeOK
<1>5. ASSUME NEW i \in Infra, NetnsUp(i) PROVE TypeOK'
  BY <1>5 DEF NetnsUp, TypeOK
<1>6. QED
  BY <1>1, <1>2, <1>3, <1>4, <1>5 DEF World

LEMMA InitType == Init => TypeOK
<1> SUFFICES ASSUME Init PROVE TypeOK
  OBVIOUS
<1>1. ctr \in [Container -> Entries]
  BY NoEntryIsEntry DEF Init
<1>2. jail \in [Container -> Jails] /\ left \in [Container -> Jails]
  BY NoJailIsJail DEF Init
<1>3. reg \in [Container -> Registrable \cup {NoFile}] /\ relaunch \in [Container -> 0..MaxTimers]
  BY SupervisorAssumption DEF Init
<1>4. quota \in [{"commands", "unattended", "deaths", "faults"} -> Nat]
  BY SupervisorAssumption DEF Init
<1>5. QED
  BY <1>1, <1>2, <1>3, <1>4 DEF Init, TypeOK

LEMMA TypeStep == TypeOK /\ [Next]_vars => TypeOK'
<1>1. TypeOK /\ UNCHANGED vars => TypeOK'
  BY DEF vars, TypeOK
<1>2. QED
  BY <1>1, RequestType, LaunchStepType, CallbackType, WatchdogType, LifeType, WorldType
     DEF Next, Request

\* Every variable of the supervisor keeps its type, whatever the containers, their
\* configurations and the bounds.
THEOREM TypeCorrect == Spec => []TypeOK
BY InitType, TypeStep, PTL DEF Spec

-----------------------------------------------------------------------------
(* The names on a stack of launch() frames.                                *)

Names(s) == {s[k].c : k \in DOMAIN s}
Distinct(s) == \A k, l \in DOMAIN s : s[k].c = s[l].c => k = l

\* Popping the innermost frame removes its name and no other.
LEMMA PopNames ==
  ASSUME NEW s \in Seq(Frames), s # <<>>, Distinct(s)
  PROVE  /\ Names(s) = {Head(s).c} \cup Names(Tail(s))
         /\ Head(s).c \notin Names(Tail(s))
         /\ Distinct(Tail(s))
<1>1. /\ Len(s) \in Nat \ {0} /\ DOMAIN s = 1..Len(s) /\ Head(s) = s[1]
      /\ DOMAIN Tail(s) = 1..(Len(s) - 1)
      /\ \A k \in 1..(Len(s) - 1) : Tail(s)[k] = s[k + 1]
  BY HeadTailProperties, EmptySeq, LenProperties, SMT
<1>2. \A k \in DOMAIN s : k = 1 \/ (k - 1 \in DOMAIN Tail(s) /\ s[k] = Tail(s)[k - 1])
  BY <1>1
<1>3. \A k \in DOMAIN Tail(s) : k + 1 \in DOMAIN s /\ k + 1 # 1 /\ Tail(s)[k] = s[k + 1]
  BY <1>1
<1>4. 1 \in DOMAIN s
  BY <1>1
<1>5. Names(s) = {Head(s).c} \cup Names(Tail(s))
  <2>1. ASSUME NEW n \in Names(s) PROVE n \in {Head(s).c} \cup Names(Tail(s))
    <3>1. PICK k \in DOMAIN s : n = s[k].c
      BY <2>1 DEF Names
    <3>2. QED
      BY <1>1, <1>2, <3>1 DEF Names
  <2>2. ASSUME NEW n \in Names(Tail(s)) PROVE n \in Names(s)
    <3>1. PICK k \in DOMAIN Tail(s) : n = Tail(s)[k].c
      BY <2>2 DEF Names
    <3>2. QED
      BY <1>3, <3>1 DEF Names
  <2>3. Head(s).c \in Names(s)
    BY <1>1, <1>4 DEF Names
  <2>4. QED
    BY <2>1, <2>2, <2>3
<1>6. Head(s).c \notin Names(Tail(s))
  BY <1>1, <1>3, <1>4 DEF Names, Distinct
<1>7. Distinct(Tail(s))
  BY <1>1, <1>3 DEF Distinct
<1>8. QED
  BY <1>5, <1>6, <1>7

\* Pushing a frame of a new name adds that name.
LEMMA PushNames ==
  ASSUME NEW s \in Seq(Frames), Distinct(s), NEW f \in Frames, f.c \notin Names(s)
  PROVE  /\ Names(<<f>> \o s) = {f.c} \cup Names(s)
         /\ Distinct(<<f>> \o s)
<1> DEFINE t == <<f>> \o s
<1>1. /\ Len(s) \in Nat /\ DOMAIN s = 1..Len(s) /\ DOMAIN t = 1..(Len(s) + 1)
      /\ t[1] = f /\ \A k \in 1..Len(s) : t[k + 1] = s[k]
  BY LenProperties, ConcatProperties, SMT
<1> HIDE DEF t
<1>2. \A k \in DOMAIN t : k = 1 \/ (k - 1 \in DOMAIN s /\ t[k] = s[k - 1])
  BY <1>1
<1>3. Names(t) = {f.c} \cup Names(s)
  BY <1>1, <1>2 DEF Names
<1>4. Distinct(t)
  <2> SUFFICES ASSUME NEW k \in DOMAIN t, NEW l \in DOMAIN t, t[k].c = t[l].c PROVE k = l
    BY DEF Distinct
  <2>1. CASE k = 1 /\ l = 1
    BY <2>1
  <2>2. CASE k = 1 /\ l # 1
    BY <1>1, <1>2, <2>2 DEF Names
  <2>3. CASE k # 1 /\ l = 1
    BY <1>1, <1>2, <2>3 DEF Names
  <2>4. CASE k # 1 /\ l # 1
    BY <1>1, <1>2, <2>4 DEF Distinct
  <2>5. QED
    BY <2>1, <2>2, <2>3, <2>4
<1>5. QED
  BY <1>3, <1>4 DEF t

LEMMA NoNames == Names(<<>>) = {} /\ Distinct(<<>>)
BY DEF Names, Distinct

-----------------------------------------------------------------------------
(* The invariant, container by container.                                  *)

Fine(c) ==
  /\ c \in Launching => ctr[c].known /\ ctr[c].desired = "UP" /\ ~ctr[c].pid
  /\ ctr[c].pid => ctr[c].known /\ jail[c].st # "none"
  /\ ~ctr[c].pid => jail[c].st = "none"
  /\ ctr[c].known /\ ctr[c].desired = "UP" /\ ~ctr[c].pid
     => relaunch[c] > 0 \/ ctr[c].parked # "no" \/ c \in Launching
  /\ ctr[c].pid /\ ctr[c].desired = "DOWN" => c \in grace \/ jail[c].st = "dead"
  /\ CleanDeaths => left[c] = NoJail

\* What a step that does not concern container x leaves of it.
Same(x) ==
  /\ ctr'[x] = ctr[x] /\ relaunch'[x] = relaunch[x]
  /\ jail'[x] = jail[x] /\ left'[x] = left[x]
  /\ x \in grace' <=> x \in grace
  /\ x \in Launching' <=> x \in Launching

LEMMA SameIsFine == ASSUME NEW x, Fine(x), Same(x) PROVE Fine(x)'
BY DEF Fine, Same

\* While a daemon runs, the invariant is Fine of every container.
AllFine == Distinct(stack) /\ \A c \in Container : Fine(c)

LEMMA LaunchingNames ==
  ASSUME TypeOK
  PROVE  Launching = Names(stack) /\ Launching \subseteq Container
<1>1. Launching = Names(stack)
  BY DEF Launching, Names
<1>2. ASSUME NEW k \in DOMAIN stack PROVE stack[k].c \in Container
  <2>1. stack \in Seq(Frames) /\ k \in 1..Len(stack)
    BY LenProperties DEF TypeOK
  <2>2. stack[k] \in Frames
    BY <2>1, ElementOfSeq
  <2>3. QED
    BY <2>2 DEF Frames
<1>3. QED
  BY <1>1, <1>2 DEF Launching

Alive == daemon # "down"

LEMMA InvOfFine == TypeOK /\ Alive /\ AllFine => SupervisorInv
<1> SUFFICES ASSUME TypeOK, Alive, AllFine PROVE SupervisorInv
  OBVIOUS
<1>1. NoReentry
  BY DEF NoReentry, AllFine, Distinct
<1>2. LaunchingIsWanted
  BY LaunchingNames DEF LaunchingIsWanted, AllFine, Fine
<1>3. DownIsEmpty /\ PidsMatchJails /\ Pursued /\ StopIsEnforced /\ NothingLeftBehind
  BY DEF Alive, DownIsEmpty, PidsMatchJails, Pursued, StopIsEnforced, NothingLeftBehind, AllFine, Fine
<1>4. QED
  BY <1>1, <1>2, <1>3 DEF SupervisorInv

LEMMA InvOfFineNext == TypeOK' /\ Alive' /\ AllFine' => SupervisorInv'
BY InvOfFine, PTL

LEMMA FineOfInv == ASSUME SupervisorInv, Alive PROVE AllFine
BY DEF Alive, SupervisorInv, NoReentry, LaunchingIsWanted, PidsMatchJails, Pursued,
       StopIsEnforced, NothingLeftBehind, AllFine, Fine, Distinct

-----------------------------------------------------------------------------
(* launch() and start().                                                   *)

\* The innermost frame returns.
LEMMA PopKeeps ==
  ASSUME TypeOK, AllFine, stack # <<>>, stack' = callers
  PROVE  /\ self \in Container /\ self \in Launching
         /\ Distinct(stack') /\ Launching' = Launching \ {self}
<1>1. stack \in Seq(Frames) /\ Distinct(stack)
  BY DEF TypeOK, AllFine
<1>2. /\ Names(stack) = {self} \cup Names(callers)
      /\ self \notin Names(callers) /\ Distinct(callers)
  BY <1>1, PopNames DEF self, top, callers
<1>3. Launching' = Names(callers)
  BY DEF Launching, Names
<1>4. QED
  BY <1>2, <1>3, LaunchingNames, FrameType

\* The innermost frame is rewritten in place.
LEMMA TopKeeps ==
  ASSUME TypeOK, AllFine, stack # <<>>, NEW f \in Frames, f.c = self
  PROVE  /\ <<f>> \o callers \in Seq(Frames) /\ Distinct(<<f>> \o callers)
         /\ Names(<<f>> \o callers) = Launching
<1>1. stack \in Seq(Frames) /\ Distinct(stack) /\ callers \in Seq(Frames)
  BY FrameType DEF TypeOK, AllFine
<1>2. /\ Names(stack) = {self} \cup Names(callers)
      /\ self \notin Names(callers) /\ Distinct(callers)
  BY <1>1, PopNames DEF self, top, callers
<1>3. Names(<<f>> \o callers) = {self} \cup Names(callers) /\ Distinct(<<f>> \o callers)
  BY <1>1, <1>2, PushNames
<1>4. QED
  BY <1>1, <1>2, <1>3, StackOps, LaunchingNames

\* launch() entered for a container that is wanted up, not running and not being
\* launched already.
LEMMA EnterKeeps ==
  ASSUME TypeOK, AllFine, NEW c \in Container, NEW e \in Entries, NEW rest \in Seq(Frames),
         Distinct(rest), Names(rest) = Launching, c \notin Launching,
         e.known, e.desired = "UP", ~e.pid, ~ctr[c].pid,
         EnterLaunch(c, e, rest),
         \A x \in Container \ {c} : relaunch'[x] = relaunch[x],
         UNCHANGED <<grace, jail, left>>
  PROVE  AllFine'
<1> DEFINE f == [c |-> c, i |-> 1, late |-> Late(e), defer |-> FALSE]
           n == [e EXCEPT !.cfg = reg[c], !.parked = IF Registered(c) THEN "no" ELSE "no_bundle"]
<1>1. f \in Frames /\ f.c = c
  BY DEF Frames, Late
<1>2. n.known /\ n.desired = "UP" /\ ~n.pid /\ (~Registered(c) => n.parked # "no")
  BY DEF Entries
<1>3. /\ stack' = IF Registered(c) THEN <<f>> \o rest ELSE rest
      /\ ctr' = [ctr EXCEPT ![c] = n]
  BY DEF EnterLaunch
<1> HIDE DEF f, n
<1>4. Launching' = Names(stack')
  BY DEF Launching, Names
<1>5. /\ Distinct(stack') /\ \A x \in Container \ {c} : x \in Launching' <=> x \in Launching
      /\ Registered(c) => c \in Launching'
  BY <1>1, <1>3, <1>4, PushNames
<1>6. Fine(c)'
  <2>1. ctr'[c] = n /\ jail'[c] = jail[c] /\ left'[c] = left[c]
    BY <1>3 DEF TypeOK
  <2>2. jail[c].st = "none" /\ (CleanDeaths => left[c] = NoJail)
    BY DEF AllFine, Fine
  <2>3. QED
    BY <1>2, <1>5, <2>1, <2>2 DEF Fine
<1>7. ASSUME NEW x \in Container \ {c} PROVE Fine(x)'
  <2>1. Same(x)
    BY <1>3, <1>5 DEF Same, TypeOK
  <2>2. QED
    BY <2>1, SameIsFine DEF AllFine
<1>8. QED
  BY <1>5, <1>6, <1>7 DEF AllFine

\* One container's entry, timers, grace timer and jail change; no frame comes or goes.
LEMMA OneKeeps ==
  ASSUME TypeOK, AllFine, NEW c \in Container, UNCHANGED <<stack, left>>,
         \A x \in Container \ {c} :
           /\ ctr'[x] = ctr[x] /\ relaunch'[x] = relaunch[x] /\ jail'[x] = jail[x]
           /\ x \in grace' <=> x \in grace,
         Fine(c)'
  PROVE  AllFine'
<1>1. Launching' = Launching /\ Distinct(stack')
  BY DEF Launching, AllFine
<1>2. ASSUME NEW x \in Container \ {c} PROVE Fine(x)'
  <2>1. Same(x)
    BY <1>1 DEF Same
  <2>2. QED
    BY <2>1, SameIsFine DEF AllFine
<1>3. QED
  BY <1>1, <1>2 DEF AllFine

\* ensure() returns the entry, or a fresh one that is not wanted up and has no pid.
LEMMA EnsureFacts ==
  ASSUME TypeOK, AllFine, NEW c \in Container
  PROVE  /\ Ensure(c).known /\ Ensure(c).pid = ctr[c].pid
         /\ ctr[c].known => Ensure(c) = ctr[c]
         /\ ~ctr[c].known => Ensure(c).desired = "DOWN"
<1>1. CASE ctr[c].known
  BY <1>1 DEF Ensure
<1>2. CASE ~ctr[c].known
  <2>1. ~ctr[c].pid /\ ctr[c].pid \in BOOLEAN
    BY <1>2 DEF AllFine, Fine, TypeOK, Entries
  <2>2. Ensure(c) = [NoEntry EXCEPT !.known = TRUE, !.cfg = reg[c]]
    BY <1>2 DEF Ensure
  <2>3. Ensure(c).known /\ Ensure(c).pid = FALSE /\ Ensure(c).desired = "DOWN"
    BY <2>2 DEF NoEntry
  <2>4. QED
    BY <1>2, <2>1, <2>3
<1>3. QED
  BY <1>1, <1>2

\* start() of a container that is not being launched already.
LEMMA DoStartKeeps ==
  ASSUME TypeOK, AllFine, NEW c \in Container, NEW rest \in Seq(Frames),
         Distinct(rest), Names(rest) = Launching, c \notin Launching,
         DoStart(c, rest), UNCHANGED <<relaunch, grace, jail, left>>
  PROVE  AllFine'
<1> DEFINE e == Ensure(c)
<1>1. e \in Entries /\ StartEntry(e) \in Entries
  BY EnsureType DEF StartEntry, Entries, Windows
<1>2. /\ e.known /\ e.pid = ctr[c].pid
      /\ ctr[c].known => e = ctr[c]
      /\ ~ctr[c].known => e.desired = "DOWN"
  BY EnsureFacts
<1>3. StartEntry(e).known /\ StartEntry(e).desired = "UP" /\ StartEntry(e).pid = e.pid
  BY <1>1, <1>2 DEF StartEntry, Entries
<1>4. CASE ~e.pid /\ EnterLaunch(c, StartEntry(e), rest)
  BY <1>1, <1>2, <1>3, <1>4, EnterKeeps
<1>5. ASSUME NEW n \in Entries, ctr' = [ctr EXCEPT ![c] = n], stack' = rest,
             n = e \/ (n = StartEntry(e) /\ e.pid)
      PROVE  AllFine'
  <2>1. Launching' = Launching /\ Distinct(stack')
    BY <1>5 DEF Launching, Names
  <2>2. ctr'[c] = n /\ \A x \in Container \ {c} : ctr'[x] = ctr[x]
    BY <1>5 DEF TypeOK
  <2>3. Fine(c)'
    BY <1>2, <1>3, <1>5, <2>1, <2>2 DEF Fine, AllFine
  <2>4. ASSUME NEW x \in Container \ {c} PROVE Fine(x)'
    <3>1. Same(x)
      BY <2>1, <2>2 DEF Same
    <3>2. QED
      BY <3>1, SameIsFine DEF AllFine
  <2>5. QED
    BY <2>1, <2>3, <2>4 DEF AllFine
<1>6. CASE /\ ctr' = [ctr EXCEPT ![c] = e] /\ stack' = rest
  BY <1>1, <1>5, <1>6
<1>7. CASE /\ e.pid /\ ctr' = [ctr EXCEPT ![c] = StartEntry(e)] /\ stack' = rest
  BY <1>1, <1>5, <1>7
<1>8. QED
  BY <1>4, <1>6, <1>7 DEF DoStart

\* Between callbacks nothing is being launched.
LEMMA IdleIsEmpty ==
  ASSUME stack = <<>>
  PROVE  /\ <<>> \in Seq(Frames) /\ Distinct(<<>>)
         /\ Names(<<>>) = Launching /\ Launching = {}
<1>1. Launching = Names(<<>>)
  BY DEF Launching, Names
<1>2. QED
  BY <1>1, NoNames

\* What signal_and_reap leaves behind.
LEMMA SignalFacts ==
  ASSUME TypeOK, NEW c \in Container, SignalAndReap(c)
  PROVE  /\ jail'[c].st = jail[c].st /\ c \in grace'
         /\ \A x \in Container \ {c} : jail'[x] = jail[x] /\ (x \in grace' <=> x \in grace)
<1>1. jail[c] \in Jails /\ jail'[c] = [jail[c] EXCEPT !.term = TRUE]
  BY DEF SignalAndReap, TypeOK
<1>2. jail'[c].st = jail[c].st
  BY <1>1 DEF Jails
<1>3. QED
  BY <1>2 DEF SignalAndReap, TypeOK

-----------------------------------------------------------------------------
(* Commands and errands.                                                   *)

LEMMA StartKeeps ==
  ASSUME TypeOK, AllFine, NEW c \in Container, Starts(c) PROVE AllFine'
BY IdleIsEmpty, DoStartKeeps DEF Starts, Idle, world

LEMMA StopKeeps ==
  ASSUME TypeOK, AllFine, NEW c \in Container, Stops(c) PROVE AllFine'
<1>1. /\ ctr'[c] = [ctr[c] EXCEPT !.desired = "DOWN"] /\ ctr[c] \in Entries
      /\ \A x \in Container \ {c} : ctr'[x] = ctr[x]
  BY DEF Stops, DoStop, TypeOK
<1>2. /\ ctr'[c].desired = "DOWN" /\ ctr'[c].pid = ctr[c].pid
      /\ ctr'[c].known = ctr[c].known
  BY <1>1 DEF Entries
<1>3. /\ UNCHANGED <<stack, left, relaunch>> /\ Launching' = {}
      /\ jail'[c].st = jail[c].st /\ (ctr[c].pid => c \in grace')
      /\ \A x \in Container \ {c} : jail'[x] = jail[x] /\ (x \in grace' <=> x \in grace)
  BY SignalFacts, IdleIsEmpty DEF Stops, DoStop, Idle, Launching
<1>4. Fine(c)'
  BY <1>2, <1>3 DEF Fine, AllFine
<1>5. QED
  BY <1>1, <1>3, <1>4, OneKeeps

LEMMA RestartKeeps ==
  ASSUME TypeOK, AllFine, NEW c \in Container, Restarts(c) PROVE AllFine'
<1>0. PICK e \in Redescribed(c) : DoRestart(c, e)
  BY DEF Restarts
<1> DEFINE w == [e EXCEPT !.desired = "UP", !.crash = 0]
<1>1. e \in Entries /\ w \in Entries
  BY RedescribedFacts, EntryUpdates
<1>2. /\ e.known /\ e.pid = ctr[c].pid
      /\ ctr[c].known => e.desired = ctr[c].desired /\ e.parked = ctr[c].parked
      /\ ~ctr[c].known => e.desired = "DOWN"
  BY EnsureFacts, RedescribedFacts
<1>3. w.known /\ w.desired = "UP" /\ w.pid = e.pid
  BY <1>1, <1>2 DEF Entries
<1>4. UNCHANGED <<left, relaunch>> /\ stack = <<>>
  BY DEF Restarts, Idle
<1>5. CASE ~e.pid /\ EnterLaunch(c, w, <<>>) /\ UNCHANGED <<jail, grace>>
  BY <1>1, <1>2, <1>3, <1>4, <1>5, IdleIsEmpty, EnterKeeps
<1>6. CASE ctr' = [ctr EXCEPT ![c] = e] /\ UNCHANGED <<stack, jail, grace>>
  <2>1. ctr'[c] = e /\ \A x \in Container \ {c} : ctr'[x] = ctr[x]
    BY <1>6 DEF TypeOK
  <2>2. Launching' = {}
    BY <1>4, <1>6, IdleIsEmpty DEF Launching
  <2>3. Fine(c)'
    BY <1>2, <1>4, <1>6, <2>1, <2>2, IdleIsEmpty DEF Fine, AllFine
  <2>4. QED
    BY <1>4, <1>6, <2>1, <2>3, OneKeeps
<1>7. CASE e.pid /\ ctr' = [ctr EXCEPT ![c] = w] /\ SignalAndReap(c) /\ stack' = stack
  <2>1. ctr'[c] = w /\ \A x \in Container \ {c} : ctr'[x] = ctr[x]
    BY <1>7 DEF TypeOK
  <2>2. Launching' = {}
    BY <1>4, <1>7, IdleIsEmpty DEF Launching
  <2>3. Fine(c)'
    <3> HIDE DEF w
    <3> QED
      BY <1>2, <1>3, <1>4, <1>7, <2>1, <2>2, SignalFacts DEF Fine, AllFine
  <2>4. QED
    BY <1>4, <1>7, <2>1, <2>3, SignalFacts, OneKeeps
<1>8. QED
  BY <1>0, <1>5, <1>6, <1>7 DEF DoRestart

LEMMA RemoveKeeps ==
  ASSUME TypeOK, AllFine, NEW c \in Container, Remove(c) PROVE AllFine'
<1>1. stack = <<>> /\ UNCHANGED <<stack, left, relaunch>>
  BY DEF Remove, Idle
<1>2. Launching' = {}
  BY <1>1, IdleIsEmpty DEF Launching
<1>3. CASE ctr[c].pid /\ ctr' = [ctr EXCEPT ![c].desired = "DOWN"] /\ SignalAndReap(c)
  <2>1. /\ ctr'[c] = [ctr[c] EXCEPT !.desired = "DOWN"] /\ ctr[c] \in Entries
        /\ \A x \in Container \ {c} : ctr'[x] = ctr[x]
    BY <1>3 DEF TypeOK
  <2>2. /\ ctr'[c].desired = "DOWN" /\ ctr'[c].pid = ctr[c].pid
        /\ ctr'[c].known = ctr[c].known
    BY <2>1 DEF Entries
  <2>3. Fine(c)'
    BY <1>1, <1>2, <1>3, <2>2, SignalFacts DEF Fine, AllFine
  <2>4. QED
    BY <1>1, <1>3, <2>1, <2>3, SignalFacts, OneKeeps
<1>4. CASE ~ctr[c].pid /\ ctr' = [ctr EXCEPT ![c] = NoEntry] /\ UNCHANGED <<jail, grace>>
  <2>1. ctr'[c] = NoEntry /\ \A x \in Container \ {c} : ctr'[x] = ctr[x]
    BY <1>4 DEF TypeOK
  <2>2. Fine(c)'
    BY <1>1, <1>2, <1>4, <2>1 DEF Fine, AllFine, NoEntry
  <2>3. QED
    BY <1>1, <1>4, <2>1, <2>2, OneKeeps
<1>5. QED
  BY <1>3, <1>4 DEF Remove

\* Steps that change nothing the invariant looks at, or forget an unwanted entry.
Steady(x) ==
  /\ ctr'[x].known = ctr[x].known /\ ctr'[x].pid = ctr[x].pid
  /\ ctr'[x].desired = ctr[x].desired /\ ctr'[x].parked = ctr[x].parked
  /\ x \in grace => x \in grace'
  /\ \/ jail'[x].st = jail[x].st
     \/ ctr[x].pid /\ jail'[x].st # "none" /\ (jail[x].st = "dead" => jail'[x].st = "dead")

Unwanted(x) ==
  /\ x \notin Launching /\ ~ctr[x].pid /\ ~ctr'[x].pid
  /\ ctr'[x].known => ctr'[x].desired = "DOWN"
  /\ jail'[x].st = jail[x].st

LEMMA CalmKeeps ==
  ASSUME TypeOK, AllFine, UNCHANGED <<stack, relaunch, left>>,
         \A x \in Container : Steady(x) \/ Unwanted(x)
  PROVE  AllFine'
<1>1. Launching' = Launching /\ Distinct(stack')
  BY DEF Launching, AllFine
<1>2. ASSUME NEW x \in Container PROVE Fine(x)'
  BY <1>1 DEF AllFine, Fine, Steady, Unwanted
<1>3. QED
  BY <1>1, <1>2 DEF AllFine

LEMMA RegisterKeeps ==
  ASSUME TypeOK, AllFine, NEW c \in Container, NEW cfg \in Configs,
         Create(c, cfg) \/ SetConfig(c, cfg) \/ JobRegisters(c, cfg)
  PROVE  AllFine'
<1>1. UNCHANGED <<stack, relaunch, left, grace, jail>>
  BY DEF Create, SetConfig, JobRegisters, world
<1>2. ASSUME NEW x \in Container, ctr'[x] = ctr[x] PROVE Steady(x)
  BY <1>1, <1>2 DEF Steady
<1>3. CASE JobRegisters(c, cfg)
  BY <1>1, <1>2, <1>3, CalmKeeps DEF JobRegisters
<1>4. CASE SetConfig(c, cfg)
  <2>1. \A x \in Container \ {c} : ctr'[x] = ctr[x]
    BY <1>4 DEF SetConfig, TypeOK
  <2>2. Steady(c)
    <3>1. ctr'[c] = ctr[c] \/ ctr'[c] = [ctr[c] EXCEPT !.cfg = cfg]
      BY <1>4 DEF SetConfig, TypeOK
    <3>2. ctr[c] \in Entries
      BY DEF TypeOK
    <3>3. QED
      BY <1>1, <3>1, <3>2 DEF Steady, Entries
  <2>3. QED
    BY <1>1, <1>2, <2>1, <2>2, CalmKeeps
<1>5. CASE Create(c, cfg)
  <2>1. /\ \A x \in Container \ {c} : ctr'[x] = ctr[x]
        /\ ctr'[c] = [Ensure(c) EXCEPT !.cfg = cfg] /\ Ensure(c) \in Entries
    BY <1>5, EnsureType DEF Create, TypeOK
  <2>2. /\ ctr'[c].known = Ensure(c).known /\ ctr'[c].pid = Ensure(c).pid
        /\ ctr'[c].desired = Ensure(c).desired /\ ctr'[c].parked = Ensure(c).parked
    BY <2>1 DEF Entries
  <2>3. c \notin Launching
    BY <1>5, IdleIsEmpty DEF Create, Idle
  <2>4. CASE ctr[c].known
    BY <1>1, <1>2, <2>1, <2>2, <2>4, EnsureFacts, CalmKeeps DEF Steady
  <2>5. CASE ~ctr[c].known
    <3>1. ~ctr[c].pid
      BY <2>5 DEF AllFine, Fine
    <3>2. Unwanted(c)
      BY <1>1, <2>2, <2>3, <2>5, <3>1, EnsureFacts DEF Unwanted
    <3>3. QED
      BY <1>1, <1>2, <2>1, <3>2, CalmKeeps
  <2>6. QED
    BY <2>4, <2>5
<1>6. QED
  BY <1>3, <1>4, <1>5

LEMMA RenameKeeps ==
  ASSUME TypeOK, AllFine, NEW old \in Container, NEW new \in Container, Rename(old, new)
  PROVE  AllFine'
<1> DEFINE moved == [reg EXCEPT ![new] = reg[old], ![old] = NoFile]
           Re(o) == [moved[o] EXCEPT !.depends_on = Renamed(@, old, new)]
           others == {o \in Container \ {new} : Re(o) # moved[o]}
<1>1. UNCHANGED <<stack, relaunch, left, grace, jail>> /\ old \notin Launching /\ ~ctr[old].pid
  BY IdleIsEmpty DEF Rename, world, Idle
<1>2. ctr' = [o \in Container |-> IF o = old THEN NoEntry
                                  ELSE IF o \in others /\ ctr[o].known
                                  THEN [ctr[o] EXCEPT !.cfg = Re(o)] ELSE ctr[o]]
  BY DEF Rename
<1> HIDE DEF moved, Re, others
<1>3. Unwanted(old)
  BY <1>1, <1>2 DEF Unwanted, NoEntry
<1>4. ASSUME NEW o \in Container \ {old} PROVE Steady(o)
  <2>1. ctr'[o] = ctr[o] \/ ctr'[o] = [ctr[o] EXCEPT !.cfg = Re(o)]
    BY <1>2
  <2>2. ctr[o] \in Entries
    BY DEF TypeOK
  <2>3. QED
    BY <1>1, <2>1, <2>2 DEF Steady, Entries
<1>5. QED
  BY <1>1, <1>3, <1>4, CalmKeeps

LEMMA RequestKeeps == ASSUME TypeOK, AllFine, Request PROVE AllFine'
<1>1. \A c \in Container : Offered[c] \subseteq Configs
  BY SupervisorAssumption DEF Registrable
<1>2. QED
  BY <1>1, StartKeeps, StopKeeps, RestartKeeps, RemoveKeeps, RegisterKeeps, RenameKeeps, Requests
     DEF Registers

-----------------------------------------------------------------------------
(* The steps of launch().                                                  *)

\* The innermost launch() returns, its container left in one of the four ways
\* the invariant knows: a timer, a reason, no longer wanted, or running.
LEMMA ReturnKeeps ==
  ASSUME TypeOK, AllFine, stack # <<>>, stack' = callers,
         ctr'[self].known, UNCHANGED grace,
         \/ /\ ~ctr'[self].pid /\ UNCHANGED <<jail, left>>
            /\ \/ relaunch'[self] > 0 \/ ctr'[self].parked # "no"
               \/ ctr'[self].desired = "DOWN"
         \/ /\ ctr'[self].pid /\ ctr'[self].desired = "UP" /\ UNCHANGED left
            /\ jail'[self].st = "starting",
         \A x \in Container \ {self} :
           ctr'[x] = ctr[x] /\ relaunch'[x] = relaunch[x] /\ jail'[x] = jail[x]
  PROVE  AllFine'
<1>1. /\ self \in Container /\ self \in Launching
      /\ Distinct(stack') /\ Launching' = Launching \ {self}
  BY PopKeeps
<1>2. ~ctr[self].pid /\ jail[self].st = "none" /\ (CleanDeaths => left[self] = NoJail)
  BY <1>1 DEF AllFine, Fine
<1>3. ASSUME NEW x \in Container PROVE Fine(x)'
  <2>1. CASE x # self
    <3>1. Same(x)
      BY <1>1, <2>1 DEF Same
    <3>2. QED
      BY <3>1, SameIsFine DEF AllFine
  <2>2. CASE x = self
    BY <1>1, <1>2, <2>2 DEF Fine
  <2>3. QED
    BY <2>1, <2>2
<1>4. QED
  BY <1>1, <1>3 DEF AllFine

\* A step of launch() that only rewrites its own frame, or that starts a dependency.
LEMMA DepStepKeeps ==
  ASSUME TypeOK, AllFine, LaunchNextDep \/ LaunchBreaksCycle \/ LaunchPullsDep
  PROVE  AllFine'
<1>1. stack # <<>> /\ UNCHANGED <<relaunch, grace, jail, left>>
  BY DEF LaunchNextDep, LaunchBreaksCycle, LaunchPullsDep, AtDep, world
<1>2. dep \in Container
  BY <1>1, FrameType DEF LaunchNextDep, LaunchBreaksCycle, LaunchPullsDep, AtDep
<1> DEFINE next == [top EXCEPT !.i = @ + 1]
           wait == [top EXCEPT !.defer = TRUE]
<1>3. top \in Frames /\ next \in Frames /\ wait \in Frames
  BY <1>1, FrameType, FrameUpdates
<1>4. next.c = self /\ wait.c = self
  BY <1>3 DEF Frames, self
<1> HIDE DEF next, wait
<1>5. ASSUME NEW f \in Frames, f.c = self
      PROVE  /\ stack' = <<f>> \o callers /\ UNCHANGED ctr => AllFine'
             /\ PullUp(dep, <<f>> \o callers) => AllFine'
  <2> DEFINE rest == <<f>> \o callers
  <2>1. rest \in Seq(Frames) /\ Distinct(rest) /\ Names(rest) = Launching
    BY <1>1, <1>5, TopKeeps
  <2> HIDE DEF rest
  <2>2. ASSUME stack' = rest, UNCHANGED ctr PROVE AllFine'
    <3>1. Launching' = Launching
      BY <2>1, <2>2 DEF Launching, Names
    <3>2. \A x \in Container : Same(x)
      BY <1>1, <2>2, <3>1 DEF Same
    <3>3. QED
      BY <2>1, <2>2, <3>2, SameIsFine DEF AllFine
  <2>3. ASSUME PullUp(dep, rest) PROVE AllFine'
    <3>1. CASE stack' = rest /\ UNCHANGED ctr
      BY <2>2, <3>1
    <3>2. CASE ctr[dep].desired # "UP" /\ DoStart(dep, rest)
      <4>1. dep \notin Launching
        BY <1>2, <3>2 DEF AllFine, Fine
      <4>2. QED
        BY <1>1, <1>2, <2>1, <3>2, <4>1, DoStartKeeps
    <3>3. QED
      BY <2>3, <3>1, <3>2 DEF PullUp
  <2>4. QED
    BY <2>2, <2>3 DEF rest
<1>6. CASE LaunchNextDep
  BY <1>3, <1>4, <1>5, <1>6 DEF LaunchNextDep, next
<1>7. CASE LaunchBreaksCycle
  BY <1>3, <1>4, <1>5, <1>7 DEF LaunchBreaksCycle, next
<1>8. CASE LaunchPullsDep
  BY <1>3, <1>4, <1>5, <1>8 DEF LaunchPullsDep, wait
<1>9. QED
  BY <1>6, <1>7, <1>8

\* The entry launch() finds, and what its way out makes of it.
LEMMA SelfEntry ==
  ASSUME TypeOK, AllFine, stack # <<>>
  PROVE  /\ self \in Container /\ ctr[self] \in Entries
         /\ ctr[self].known /\ ctr[self].desired = "UP" /\ ~ctr[self].pid
<1>1. self \in Container /\ self \in Launching
  BY LaunchingNames, PopNames, FrameType DEF TypeOK, AllFine, self, top
<1>2. QED
  BY <1>1 DEF AllFine, Fine, TypeOK

LEMMA TimerFacts ==
  ASSUME TypeOK, NEW c \in Container, ScheduleRelaunch(c)
  PROVE  relaunch'[c] > 0 /\ \A x \in Container \ {c} : relaunch'[x] = relaunch[x]
<1>1. relaunch[c] \in 0..MaxTimers /\ relaunch'[c] = MoreTimers(relaunch[c])
  BY DEF ScheduleRelaunch, TypeOK
<1>2. relaunch'[c] > 0
  BY <1>1, SupervisorAssumption DEF MoreTimers
<1>3. QED
  BY <1>2 DEF ScheduleRelaunch, TypeOK

LEMMA ReturnsKeep ==
  ASSUME TypeOK, AllFine,
         \/ LaunchDefers \/ LaunchLacksMount \/ LaunchLacksInfra \/ LaunchLacksBundle
         \/ LaunchCannotFork \/ LaunchForks
  PROVE  AllFine'
<1> DEFINE e == ctr[self]
<1>1. stack # <<>> /\ stack' = callers /\ UNCHANGED grace
  BY DEF LaunchDefers, LaunchLacksMount, LaunchLacksInfra, LaunchLacksBundle,
         LaunchCannotFork, LaunchForks, AtEnd
<1>2. /\ self \in Container /\ e \in Entries
      /\ e.known /\ e.desired = "UP" /\ ~e.pid
  BY <1>1, SelfEntry
<1>3. CASE ScheduleRelaunch(self) /\ UNCHANGED <<jail, left>>
           /\ \E n \in Entries : n.known /\ ~n.pid /\ ctr' = [ctr EXCEPT ![self] = n]
  <2>1. /\ ctr'[self].known /\ ~ctr'[self].pid
        /\ \A x \in Container \ {self} : ctr'[x] = ctr[x]
    BY <1>2, <1>3 DEF TypeOK
  <2>2. QED
    BY <1>1, <1>2, <1>3, <2>1, TimerFacts, ReturnKeeps
<1>4. CASE LaunchDefers
  <2> DEFINE n == [e EXCEPT !.dep_wait = IF @ = "none" THEN "waiting" ELSE @]
  <2>1. n \in Entries /\ n.known /\ ~n.pid
    BY <1>2 DEF Entries, Windows
  <2>2. QED
    BY <1>3, <1>4, <2>1 DEF LaunchDefers, world
<1>5. CASE LaunchLacksMount
  <2> DEFINE n == [e EXCEPT !.dep_wait = "none"]
  <2>1. n \in Entries /\ n.known /\ ~n.pid
    BY <1>2 DEF Entries, Windows
  <2>2. QED
    BY <1>3, <1>5, <2>1 DEF LaunchLacksMount, world
<1>6. PastGates(e) \in Entries /\ PastGates(e).known /\ ~PastGates(e).pid
      /\ PastGates(e).desired = "UP"
  BY <1>2 DEF PastGates, Entries, Windows
<1>7. CASE LaunchLacksBundle
  BY <1>3, <1>6, <1>7 DEF LaunchLacksBundle, world
<1>8. CASE LaunchCannotFork
  <2> DEFINE n == [PastGates(e) EXCEPT !.parked = "spawn_failed"]
  <2>1. n.known /\ ~n.pid /\ n.parked # "no"
    BY <1>6 DEF Entries
  <2>2. ctr'[self] = n /\ \A x \in Container \ {self} : ctr'[x] = ctr[x]
    BY <1>2, <1>8 DEF LaunchCannotFork, TypeOK
  <2>3. QED
    BY <1>1, <1>8, <2>1, <2>2, ReturnKeeps DEF LaunchCannotFork, world
<1>9. CASE LaunchForks
  <2> DEFINE n == [PastGates(e) EXCEPT !.pid = TRUE, !.adopted = FALSE]
  <2>1. n.known /\ n.pid /\ n.desired = "UP"
    BY <1>6 DEF Entries
  <2>2. ctr'[self] = n /\ \A x \in Container \ {self} : ctr'[x] = ctr[x]
    BY <1>2, <1>9 DEF LaunchForks, TypeOK
  <2>3. jail[self].st = "none"
    BY <1>2 DEF AllFine, Fine
  <2>4. UNCHANGED <<left, relaunch>>
    BY <1>2, <1>9, <2>3 DEF LaunchForks, Live, TypeOK
  <2>5. jail'[self].st = "starting" /\ \A x \in Container \ {self} : jail'[x] = jail[x]
    BY <1>2, <1>9 DEF LaunchForks, TypeOK
  <2>6. QED
    BY <1>1, <2>1, <2>2, <2>4, <2>5, ReturnKeeps
<1>10. CASE LaunchLacksInfra
  <2> DEFINE d == [e EXCEPT !.dep_wait = "none"]
             n == [d EXCEPT !.infra_wait = IF @ = "none" THEN "waiting" ELSE @]
             m == [d EXCEPT !.desired = "DOWN", !.infra_wait = "none"]
  <2>1. d \in Entries /\ d.known /\ ~d.pid
    BY <1>2 DEF Entries, Windows
  <2> HIDE DEF d
  <2>2. n \in Entries /\ n.known /\ ~n.pid
    BY <2>1 DEF Entries, Windows
  <2>3. m.known /\ ~m.pid /\ m.desired = "DOWN"
    BY <2>1 DEF Entries
  <2>4. CASE ctr' = [ctr EXCEPT ![self] = n] /\ ScheduleRelaunch(self)
    BY <1>3, <1>10, <2>2, <2>4 DEF LaunchLacksInfra
  <2>5. CASE ctr' = [ctr EXCEPT ![self] = m] /\ UNCHANGED relaunch
    <3>1. ctr'[self] = m /\ \A x \in Container \ {self} : ctr'[x] = ctr[x]
      BY <1>2, <2>5 DEF TypeOK
    <3>2. QED
      BY <1>1, <1>10, <2>3, <2>5, <3>1, ReturnKeeps DEF LaunchLacksInfra
  <2>6. QED
    BY <1>10, <2>4, <2>5 DEF LaunchLacksInfra, d
<1>11. QED
  BY <1>4, <1>5, <1>7, <1>8, <1>9, <1>10

LEMMA LaunchKeeps == ASSUME TypeOK, AllFine, LaunchStep PROVE AllFine'
BY DepStepKeeps, ReturnsKeep DEF LaunchStep

-----------------------------------------------------------------------------
(* Callbacks and watchdogs.                                                *)

LEMMA RelaunchKeeps ==
  ASSUME TypeOK, AllFine, NEW c \in Container, RelaunchFires(c) PROVE AllFine'
<1>1. /\ stack = <<>> /\ UNCHANGED <<grace, jail, left>>
      /\ \A x \in Container \ {c} : relaunch'[x] = relaunch[x]
  BY DEF RelaunchFires, Idle, world, TypeOK
<1>2. ctr[c] \in Entries /\ ctr[c].pid \in BOOLEAN
  BY DEF TypeOK, Entries
<1>3. CASE ctr[c].known /\ ctr[c].desired = "UP" /\ ~ctr[c].pid /\ EnterLaunch(c, ctr[c], <<>>)
  BY <1>1, <1>2, <1>3, IdleIsEmpty, EnterKeeps
<1>4. CASE ~(ctr[c].known /\ ctr[c].desired = "UP" /\ ~ctr[c].pid) /\ UNCHANGED <<ctr, stack>>
  <2>1. Launching' = {}
    BY <1>1, <1>4, IdleIsEmpty DEF Launching
  <2>2. Fine(c)'
    BY <1>1, <1>4, <2>1 DEF Fine, AllFine
  <2>3. QED
    BY <1>1, <1>4, <2>2, OneKeeps
<1>5. QED
  BY <1>3, <1>4 DEF RelaunchFires

\* The exit handlers leave a timer, a reason or an unwanted container.
LEMMA AfterExitFacts ==
  ASSUME NEW e \in Entries, NEW x \in Entries, NEW stable \in BOOLEAN,
         x.known = e.known, ~x.pid, x.desired = e.desired, x.cfg = e.cfg, x.crash = e.crash
  PROVE  /\ AfterExit(x, stable).known = e.known /\ ~AfterExit(x, stable).pid
         /\ AfterExit(x, stable).desired = "UP" =>
              AfterExit(x, stable).parked # "no" \/ Respawns(e, stable)
<1>1. CrashCount(x, stable) = CrashCount(e, stable) /\ (GivesUp(x, stable) <=> GivesUp(e, stable))
  BY DEF CrashCount, GivesUp
<1> DEFINE n == CrashCount(x, stable)
<1>2. /\ [x EXCEPT !.parked = "respawn_off"].parked = "respawn_off"
      /\ [x EXCEPT !.parked = "respawn_off"].known = x.known
      /\ ~[x EXCEPT !.parked = "respawn_off"].pid
  BY DEF Entries
<1>3. /\ [x EXCEPT !.crash = n, !.desired = "DOWN"].desired = "DOWN"
      /\ [x EXCEPT !.crash = n, !.desired = "DOWN"].known = x.known
      /\ ~[x EXCEPT !.crash = n, !.desired = "DOWN"].pid
  BY DEF Entries
<1>4. /\ [x EXCEPT !.crash = n].known = x.known /\ ~[x EXCEPT !.crash = n].pid
  BY DEF Entries
<1>5. QED
  BY <1>1, <1>2, <1>3, <1>4 DEF AfterExit, Respawns

LEMMA ExitedFacts ==
  ASSUME NEW e \in Entries
  PROVE  /\ Exited(e) \in Entries /\ [Exited(e) EXCEPT !.adopted = FALSE] \in Entries
         /\ \A x \in {Exited(e), [Exited(e) EXCEPT !.adopted = FALSE]} :
              /\ x.known = e.known /\ ~x.pid /\ x.desired = e.desired
              /\ x.cfg = e.cfg /\ x.crash = e.crash
<1>1. /\ Exited(e) \in Entries /\ Exited(e).known = e.known /\ ~Exited(e).pid
      /\ Exited(e).desired = e.desired /\ Exited(e).cfg = e.cfg /\ Exited(e).crash = e.crash
  BY DEF Exited, Entries
<1>2. \A x \in Entries :
        LET y == [x EXCEPT !.adopted = FALSE] IN
        /\ y \in Entries /\ y.known = x.known /\ y.pid = x.pid /\ y.desired = x.desired
        /\ y.cfg = x.cfg /\ y.crash = x.crash
  BY DEF Entries
<1>3. QED
  BY <1>1, <1>2

LEMMA GoneIsFine ==
  ASSUME NEW c \in Container, AllFine, Launching' = {}, UNCHANGED left,
         jail'[c] = NoJail, ~ctr'[c].pid,
         ctr'[c].known /\ ctr'[c].desired = "UP" => relaunch'[c] > 0 \/ ctr'[c].parked # "no"
  PROVE  Fine(c)'
<1>1. jail'[c].st = "none"
  BY DEF NoJail
<1>2. CleanDeaths => left'[c] = NoJail
  BY DEF AllFine, Fine
<1>3. c \notin Launching'
  OBVIOUS
<1>4. QED
  BY <1>1, <1>2, <1>3 DEF Fine

LEMMA ProcExitKeeps ==
  ASSUME TypeOK, AllFine, NEW c \in Container, ProcExit(c) PROVE AllFine'
<1>1. /\ UNCHANGED <<stack, left>> /\ Launching' = {} /\ jail'[c] = NoJail
      /\ \A x \in Container \ {c} : jail'[x] = jail[x] /\ (x \in grace' <=> x \in grace)
  BY IdleIsEmpty DEF ProcExit, Idle, TypeOK, Launching
<1>2. ctr[c] \in Entries
  BY DEF TypeOK
<1>3. CASE ctr' = [ctr EXCEPT ![c] = NoEntry] /\ UNCHANGED relaunch
  <2>1. ctr'[c] = NoEntry /\ \A x \in Container \ {c} : ctr'[x] = ctr[x]
    BY <1>3 DEF TypeOK
  <2>2. Fine(c)'
    BY <1>1, <2>1, GoneIsFine DEF NoEntry
  <2>3. QED
    BY <1>1, <1>3, <2>1, <2>2, OneKeeps
<1>4. ASSUME NEW stable \in BOOLEAN,
             ctr' = [ctr EXCEPT ![c] = AfterExit(Exited(ctr[c]), stable)],
             IF Respawns(ctr[c], stable) THEN ScheduleRelaunch(c) ELSE UNCHANGED relaunch
      PROVE  AllFine'
  <2>1. /\ ctr'[c] = AfterExit(Exited(ctr[c]), stable)
        /\ \A x \in Container \ {c} : ctr'[x] = ctr[x]
    BY <1>4 DEF TypeOK
  <2>2. /\ ~ctr'[c].pid
        /\ ctr'[c].desired = "UP" => ctr'[c].parked # "no" \/ Respawns(ctr[c], stable)
    <3> DEFINE e == Exited(ctr[c])
    <3>1. e \in Entries /\ e.known = ctr[c].known /\ ~e.pid /\ e.desired = ctr[c].desired
          /\ e.cfg = ctr[c].cfg /\ e.crash = ctr[c].crash
      BY <1>2, ExitedFacts
    <3>2. ctr'[c] = AfterExit(e, stable)
      BY <2>1
    <3> HIDE DEF e
    <3>3. QED
      BY <1>2, <3>1, <3>2, AfterExitFacts
  <2>3. /\ Respawns(ctr[c], stable) => relaunch'[c] > 0
        /\ \A x \in Container \ {c} : relaunch'[x] = relaunch[x]
    BY <1>4, TimerFacts
  <2>4. Fine(c)'
    BY <1>1, <2>2, <2>3, GoneIsFine
  <2>5. QED
    BY <1>1, <2>1, <2>3, <2>4, OneKeeps
<1>5. QED
  BY <1>3, <1>4 DEF ProcExit

LEMMA AdoptWatchdogKeeps == ASSUME TypeOK, AllFine, AdoptWatchdog PROVE AllFine'
<1>1. PICK stable \in SUBSET Gone :
        /\ ctr' = [c \in Container |->
                     IF c \in Gone
                     THEN AfterExit([Exited(ctr[c]) EXCEPT !.adopted = FALSE], c \in stable)
                     ELSE ctr[c]]
        /\ relaunch' = [c \in Container |->
                          IF c \in Gone /\ Respawns(ctr[c], c \in stable)
                          THEN MoreTimers(relaunch[c]) ELSE relaunch[c]]
  BY DEF AdoptWatchdog
<1>2. /\ UNCHANGED <<stack, left>> /\ Launching' = {} /\ Launching = {} /\ Distinct(stack')
      /\ jail' = [c \in Container |-> IF c \in Gone THEN NoJail ELSE jail[c]]
      /\ grace' = grace \ Gone
  BY IdleIsEmpty DEF AdoptWatchdog, Idle, Launching, AllFine
<1>3. ASSUME NEW x \in Container, x \notin Gone PROVE Fine(x)'
  <2>1. Same(x)
    BY <1>1, <1>2, <1>3 DEF Same
  <2>2. QED
    BY <2>1, SameIsFine DEF AllFine
<1>4. ASSUME NEW x \in Container, x \in Gone PROVE Fine(x)'
  <2> DEFINE e == [Exited(ctr[x]) EXCEPT !.adopted = FALSE]
             s == x \in stable
  <2>1. ctr[x] \in Entries /\ s \in BOOLEAN
    BY DEF TypeOK
  <2>2. ctr'[x] = AfterExit(e, s) /\ jail'[x] = NoJail
    BY <1>1, <1>2, <1>4
  <2>3. e \in Entries /\ e.known = ctr[x].known /\ ~e.pid /\ e.desired = ctr[x].desired
        /\ e.cfg = ctr[x].cfg /\ e.crash = ctr[x].crash
    BY <2>1, ExitedFacts
  <2>4. Respawns(ctr[x], s) => relaunch'[x] > 0
    <3>1. relaunch[x] \in 0..MaxTimers
      BY DEF TypeOK
    <3>2. MoreTimers(relaunch[x]) > 0
      BY <3>1, SupervisorAssumption DEF MoreTimers
    <3>3. QED
      BY <1>1, <1>4, <3>2
  <2> HIDE DEF e, s
  <2>5. /\ ~ctr'[x].pid
        /\ ctr'[x].desired = "UP" => ctr'[x].parked # "no" \/ Respawns(ctr[x], s)
    BY <2>1, <2>2, <2>3, AfterExitFacts
  <2>6. QED
    BY <1>2, <2>2, <2>4, <2>5, GoneIsFine
<1>5. QED
  BY <1>2, <1>3, <1>4 DEF AllFine

LEMMA SignalKeeps ==
  ASSUME TypeOK, AllFine, NEW c \in Container, GraceFires(c) \/ HealthVerdict(c)
  PROVE  AllFine'
<1>1. /\ UNCHANGED <<stack, relaunch>> /\ Launching' = Launching /\ ctr[c] \in Entries
      /\ \A x \in Container \ {c} : ctr'[x] = ctr[x]
  BY DEF GraceFires, HealthVerdict, Launching, TypeOK
<1>2. CASE GraceFires(c)
  <2>1. /\ ctr' = ctr /\ \A x \in Container \ {c} : jail'[x] = jail[x] /\ left'[x] = left[x]
        /\ \A x \in Container \ {c} : x \in grace' <=> x \in grace
    BY <1>2 DEF GraceFires, TypeOK
  <2>2. jail[c] \in Jails /\ left[c] \in Jails
    BY DEF TypeOK
  <2>3. /\ Live(jail[c]) => jail'[c].st = "dead"
        /\ ~Live(jail[c]) => jail'[c].st = jail[c].st
    <3>1. jail'[c] = [jail[c] EXCEPT !.st = IF Live(jail[c]) THEN "dead" ELSE @]
      BY <1>2 DEF GraceFires, TypeOK
    <3>2. QED
      BY <2>2, <3>1 DEF Jails
  <2>4. left'[c] = left[c] \/ left'[c] = NoJail
    BY <1>2 DEF GraceFires, TypeOK
  <2>5. jail[c].st \in {"none", "starting", "up", "dead"}
    BY <2>2 DEF Jails
  <2>6. Fine(c)'
    BY <1>1, <2>1, <2>3, <2>4, <2>5 DEF Fine, AllFine, Live
  <2>7. ASSUME NEW x \in Container \ {c} PROVE Fine(x)'
    <3>1. Same(x)
      BY <1>1, <2>1 DEF Same
    <3>2. QED
      BY <3>1, SameIsFine DEF AllFine
  <2>8. QED
    BY <1>1, <2>6, <2>7 DEF AllFine
<1>3. CASE HealthVerdict(c)
  <2>1. /\ left' = left /\ jail'[c].st = jail[c].st /\ (c \in grace => c \in grace')
        /\ \A x \in Container \ {c} : jail'[x] = jail[x] /\ (x \in grace' <=> x \in grace)
    BY <1>3, SignalFacts DEF HealthVerdict
  <2>2. \E h \in {"unknown", "healthy", "unhealthy"} : ctr'[c] = [ctr[c] EXCEPT !.health = h]
    BY <1>3 DEF HealthVerdict, TypeOK
  <2>3. Steady(c)
    BY <1>1, <2>1, <2>2 DEF Steady, Entries
  <2>4. \A x \in Container \ {c} : Steady(x)
    BY <1>1, <2>1 DEF Steady
  <2>5. QED
    BY <1>1, <2>1, <2>3, <2>4, CalmKeeps
<1>4. QED
  BY <1>2, <1>3

LEMMA CallbackKeeps == ASSUME TypeOK, AllFine, Callback PROVE AllFine'
BY RelaunchKeeps, ProcExitKeeps, SignalKeeps DEF Callback

\* Steps that touch no entry and neither start nor end a jail.
LEMMA InfraWatchdogKeeps == ASSUME TypeOK, AllFine, InfraWatchdog PROVE AllFine'
<1>1. UNCHANGED <<stack, relaunch, left, ctr, grace>>
  BY DEF InfraWatchdog
<1>2. ASSUME NEW x \in Container PROVE jail'[x].st = jail[x].st
  <2>1. jail[x] \in Jails /\ (jail'[x] = jail[x] \/ jail'[x] = [jail[x] EXCEPT !.term = TRUE])
    BY DEF InfraWatchdog, TypeOK
  <2>2. QED
    BY <2>1 DEF Jails
<1>3. QED
  BY <1>1, <1>2, CalmKeeps DEF Steady

-----------------------------------------------------------------------------
(* The daemon's life and the world.                                        *)

\* With no daemon the invariant is what DownIsEmpty says.
DownFine ==
  /\ daemon = "down" /\ stack = <<>>
  /\ \A c \in Container :
       /\ ctr[c] = NoEntry
       /\ CleanDeaths => /\ jail[c].st # "starting" /\ (jail[c].st = "up" => Registered(c))
                         /\ left[c] = NoJail

LEMMA InvOfDown == TypeOK /\ DownFine => SupervisorInv
<1> SUFFICES ASSUME TypeOK, DownFine PROVE SupervisorInv
  OBVIOUS
<1>1. Launching = {} /\ NoReentry
  BY IdleIsEmpty DEF DownFine, NoReentry
<1>2. \A c \in Container : ctr[c].pid = FALSE /\ ctr[c].known = FALSE
  BY DEF DownFine, NoEntry
<1>3. QED
  BY <1>1, <1>2 DEF DownFine, SupervisorInv, LaunchingIsWanted, DownIsEmpty, PidsMatchJails,
                    Pursued, StopIsEnforced, NothingLeftBehind

LEMMA InvOfDownNext == TypeOK' /\ DownFine' => SupervisorInv'
BY InvOfDown, PTL

LEMMA DownOfInv == ASSUME SupervisorInv, daemon = "down" PROVE DownFine
BY DEF SupervisorInv, DownIsEmpty, NothingLeftBehind, DownFine

LEMMA DeathKeeps == ASSUME TypeOK, AllFine, DaemonDies PROVE DownFine'
<1>1. /\ daemon' = "down" /\ stack' = <<>> /\ \A c \in Container : ctr'[c] = NoEntry
      /\ UNCHANGED <<left, reg>>
  BY DEF DaemonDies
<1>2. ASSUME NEW c \in Container, CleanDeaths
      PROVE  /\ jail'[c].st # "starting" /\ (jail'[c].st = "up" => Registered(c))
             /\ left[c] = NoJail
  <2>1. jail[c].st # "starting" /\ (jail[c].st = "up" => Registered(c))
    BY <1>2 DEF DaemonDies
  <2>2. jail'[c] = NoJail \/ jail'[c] = jail[c]
    BY DEF DaemonDies, Orphaned
  <2>3. NoJail.st = "none"
    BY DEF NoJail
  <2>4. QED
    BY <1>2, <2>1, <2>2, <2>3 DEF AllFine, Fine
<1>3. QED
  BY <1>1, <1>2 DEF DownFine, Registered

LEMMA BootKeeps == ASSUME TypeOK, DownFine, DaemonBoots PROVE Alive' /\ AllFine'
<1>1. /\ stack' = <<>> /\ daemon' = "boot"
      /\ ctr' = [c \in Container |-> IF Adoptable(c) THEN AdoptedEntry(c)
                                     ELSE IF Registered(c)
                                     THEN [NoEntry EXCEPT !.known = TRUE, !.cfg = reg[c]]
                                     ELSE NoEntry]
      /\ left' = [c \in Container |-> IF ~Adoptable(c) /\ Live(jail[c])
                                      THEN jail[c] ELSE left[c]]
      /\ jail' = [c \in Container |-> IF Adoptable(c) THEN jail[c] ELSE NoJail]
  BY DEF DaemonBoots, DownFine
<1>2. Launching' = {} /\ Distinct(stack')
  BY <1>1, NoNames DEF Launching, Names
<1>3. ASSUME NEW c \in Container, Adoptable(c) PROVE Fine(c)'
  <2>1. ctr'[c] = AdoptedEntry(c) /\ jail'[c] = jail[c] /\ left'[c] = left[c]
    BY <1>1, <1>3
  <2>2. AdoptedEntry(c).known /\ AdoptedEntry(c).pid /\ AdoptedEntry(c).desired = "UP"
    BY DEF AdoptedEntry, NoEntry
  <2>3. jail[c].st = "up"
    BY <1>3 DEF Adoptable
  <2>4. CleanDeaths => left[c] = NoJail
    BY DEF DownFine
  <2>5. QED
    BY <1>2, <2>1, <2>2, <2>3, <2>4 DEF Fine
<1>4. ASSUME NEW c \in Container, ~Adoptable(c) PROVE Fine(c)'
  <2>1. ctr'[c].pid = FALSE /\ ctr'[c].desired = "DOWN"
    BY <1>1, <1>4 DEF NoEntry
  <2>2. jail'[c].st = "none"
    BY <1>1, <1>4 DEF NoJail
  <2>3. CleanDeaths => left'[c] = NoJail
    BY <1>1, <1>4 DEF DownFine, Adoptable, Live
  <2>4. QED
    BY <1>2, <2>1, <2>2, <2>3 DEF Fine
<1>5. QED
  BY <1>1, <1>2, <1>3, <1>4 DEF AllFine, Alive

LEMMA BootLoopKeeps ==
  ASSUME TypeOK, AllFine, BootEnds \/ \E c \in Container : BootVisits(c)
  PROVE  AllFine'
<1>1. stack = <<>> /\ UNCHANGED <<relaunch, grace, jail, left>>
  BY DEF BootEnds, BootVisits, world
<1>2. CASE UNCHANGED <<ctr, stack>>
  BY <1>1, <1>2, CalmKeeps DEF Steady
<1>3. ASSUME NEW c \in Container, DoStart(c, <<>>) PROVE AllFine'
  BY <1>1, <1>3, IdleIsEmpty, DoStartKeeps
<1>4. QED
  BY <1>2, <1>3 DEF BootEnds, BootVisits

LEMMA WorldKeeps == ASSUME TypeOK, AllFine, World PROVE AllFine'
<1>1. UNCHANGED <<stack, relaunch, grace>>
  BY DEF World, JailStarts, JailExits, LeftStarts, LeftExits, DepWindowPasses,
         InfraWindowPasses, NetnsDown, NetnsUp
<1>2. ASSUME NEW c \in Container, JailStarts(c) PROVE AllFine'
  <2>1. /\ UNCHANGED <<ctr, left>> /\ jail[c] \in Jails
        /\ jail'[c] = [jail[c] EXCEPT !.st = "up"] /\ jail[c].st = "starting"
        /\ \A x \in Container \ {c} : jail'[x] = jail[x]
    BY <1>2 DEF JailStarts, TypeOK
  <2>2. jail'[c].st = "up" /\ ctr[c].pid
    BY <2>1 DEF Jails, AllFine, Fine
  <2>3. QED
    BY <1>1, <2>1, <2>2, CalmKeeps DEF Steady
<1>3. ASSUME NEW c \in Container, JailExits(c) PROVE AllFine'
  <2>1. ctr[c].pid
    BY <1>3 DEF JailExits, MayExit, Live, AllFine, Fine
  <2>2. /\ UNCHANGED <<ctr, left>> /\ jail[c] \in Jails
        /\ jail'[c] = [jail[c] EXCEPT !.st = "dead"]
        /\ \A x \in Container \ {c} : jail'[x] = jail[x]
    BY <1>3, <2>1 DEF JailExits, TypeOK
  <2>3. jail'[c].st = "dead"
    BY <2>2 DEF Jails
  <2>4. QED
    BY <1>1, <2>1, <2>2, <2>3, CalmKeeps DEF Steady
<1>4. ASSUME NEW c \in Container, LeftStarts(c) \/ LeftExits(c) PROVE AllFine'
  <2>1. /\ UNCHANGED <<ctr, jail>> /\ \A x \in Container \ {c} : left'[x] = left[x]
        /\ left'[c] = NoJail \/ left[c].st = "starting"
    BY <1>4 DEF LeftStarts, LeftExits, TypeOK
  <2>2. Launching' = Launching /\ Distinct(stack')
    BY <1>1 DEF Launching, AllFine
  <2>3. CleanDeaths => left'[c] = NoJail
    BY <2>1 DEF AllFine, Fine, NoJail
  <2>4. ASSUME NEW x \in Container PROVE Fine(x)'
    BY <1>1, <2>1, <2>2, <2>3 DEF Fine, AllFine
  <2>5. QED
    BY <2>2, <2>4 DEF AllFine
<1>5. ASSUME NEW c \in Container, DepWindowPasses(c) \/ InfraWindowPasses(c) PROVE AllFine'
  <2>1. /\ UNCHANGED <<jail, left>> /\ ctr[c] \in Entries
        /\ \/ ctr'[c] = [ctr[c] EXCEPT !.dep_wait = "expired"]
           \/ ctr'[c] = [ctr[c] EXCEPT !.infra_wait = "expired"]
        /\ \A x \in Container \ {c} : ctr'[x] = ctr[x]
    BY <1>5 DEF DepWindowPasses, InfraWindowPasses, world, TypeOK
  <2>2. Steady(c)
    BY <1>1, <2>1 DEF Steady, Entries
  <2>3. QED
    BY <1>1, <2>1, <2>2, CalmKeeps DEF Steady
<1>6. ASSUME NEW i \in Infra, NetnsDown(i) \/ NetnsUp(i) PROVE AllFine'
  <2>1. UNCHANGED <<ctr, left>>
    BY <1>6 DEF NetnsDown, NetnsUp
  <2>2. ASSUME NEW x \in Container PROVE jail'[x].st = jail[x].st
    <3>1. jail[x] \in Jails /\ (jail'[x] = jail[x] \/ jail'[x] = [jail[x] EXCEPT !.net = "orphan"])
      BY <1>6 DEF NetnsDown, NetnsUp, TypeOK
    <3>2. QED
      BY <3>1 DEF Jails
  <2>3. QED
    BY <1>1, <2>1, <2>2, CalmKeeps DEF Steady
<1>7. QED
  BY <1>2, <1>3, <1>4, <1>5, <1>6 DEF World

\* With no daemon a jail may end, but none appears.
LEMMA WorldKeepsDown == ASSUME TypeOK, DownFine, World PROVE DownFine'
<1>1. /\ \A c \in Container : ~ctr[c].pid /\ ctr[c].dep_wait = "none"
                              /\ ctr[c].infra_wait = "none"
      /\ NoJail.st = "none"
  BY DEF DownFine, NoEntry, NoJail
<1>2. UNCHANGED <<daemon, stack, ctr, reg>>
  BY <1>1 DEF World, JailStarts, JailExits, LeftStarts, LeftExits, DepWindowPasses,
              InfraWindowPasses, NetnsDown, NetnsUp
<1>3. ASSUME NEW c \in Container, CleanDeaths
      PROVE  /\ jail'[c].st \in {jail[c].st, "none"} /\ left'[c] = NoJail
  <2>1. left[c] = NoJail /\ jail[c].st # "starting" /\ jail[c] \in Jails
    BY <1>3 DEF DownFine, TypeOK
  <2>2. jail'[c] \in {jail[c], NoJail, [jail[c] EXCEPT !.net = "orphan"]}
    BY <1>1, <1>3 DEF World, JailStarts, JailExits, LeftStarts, LeftExits, DepWindowPasses,
                      InfraWindowPasses, NetnsDown, NetnsUp, world, DownFine, TypeOK
  <2>3. left'[c] = NoJail
    BY <1>1, <1>3 DEF World, JailStarts, JailExits, LeftStarts, LeftExits, DepWindowPasses,
                      InfraWindowPasses, NetnsDown, NetnsUp, world, DownFine, TypeOK
  <2>4. QED
    BY <1>1, <2>1, <2>2, <2>3 DEF Jails
<1>4. QED
  BY <1>2, <1>3 DEF DownFine, Registered

-----------------------------------------------------------------------------
(* The theorems.                                                           *)

IInv == TypeOK /\ SupervisorInv

LEMMA InitInv == Init => SupervisorInv
<1> SUFFICES ASSUME Init PROVE SupervisorInv
  OBVIOUS
<1>1. TypeOK
  BY InitType
<1>2. DownFine
  BY DEF Init, DownFine, NoJail
<1>3. QED
  BY <1>1, <1>2, InvOfDown

LEMMA StepInv == IInv /\ [Next]_vars => SupervisorInv'
<1> SUFFICES ASSUME TypeOK, TypeOK', SupervisorInv, [Next]_vars PROVE SupervisorInv'
  BY TypeStep DEF IInv
<1>1. CASE UNCHANGED vars
  BY <1>1 DEF vars, SupervisorInv, NoReentry, LaunchingIsWanted, DownIsEmpty, PidsMatchJails,
              Pursued, StopIsEnforced, NothingLeftBehind, Launching, Registered
<1>2. CASE Next /\ daemon = "down"
  <2>1. DownFine
    BY <1>2, DownOfInv
  <2>2. CASE World
    BY <2>1, <2>2, WorldKeepsDown, InvOfDownNext
  <2>3. CASE DaemonBoots
    BY <2>1, <2>3, BootKeeps, InvOfFineNext
  <2>4. QED
    BY <1>2, <2>1, <2>2, <2>3
       DEF Next, Command, Errand, Start, Stop, Restart, Rollback, ScheduleFires, UpgradeRestarts,
           WatchRestarts, Remove, Create, SetConfig, JobRegisters,
           Rename, LaunchStep, LaunchNextDep, LaunchBreaksCycle, LaunchPullsDep, LaunchDefers,
           LaunchLacksMount, LaunchLacksInfra, LaunchLacksBundle, LaunchCannotFork, LaunchForks,
           AtDep, AtEnd, Callback, RelaunchFires, ProcExit, GraceFires, HealthVerdict,
           Watchdog, AdoptWatchdog, InfraWatchdog, Life, DaemonDies, BootEnds, BootVisits,
           Idle, DownFine
<1>3. CASE Next /\ Alive
  <2>1. AllFine
    BY <1>3, FineOfInv
  <2>2. CASE DaemonDies
    BY <2>1, <2>2, DeathKeeps, InvOfDownNext
  <2>3. CASE ~DaemonDies
    <3>1. AllFine'
      BY <1>3, <2>1, <2>3, RequestKeeps, LaunchKeeps, CallbackKeeps, AdoptWatchdogKeeps,
         InfraWatchdogKeeps, BootLoopKeeps, WorldKeeps
         DEF Next, Request, Watchdog, Life, DaemonBoots, Alive
    <3>2. Alive'
      <4>1. daemon' = daemon \/ daemon' = "up"
        BY <1>3, <2>3
           DEF Next, Command, Errand, Start, Stop, Restart, Rollback, ScheduleFires, UpgradeRestarts,
               WatchRestarts, Remove, Create, SetConfig, JobRegisters,
               Rename, LaunchStep, LaunchNextDep, LaunchBreaksCycle, LaunchPullsDep, LaunchDefers,
               LaunchLacksMount, LaunchLacksInfra, LaunchLacksBundle, LaunchCannotFork, LaunchForks,
               Callback, RelaunchFires, ProcExit, GraceFires, HealthVerdict,
               Watchdog, AdoptWatchdog, InfraWatchdog, Life, DaemonBoots, BootEnds, BootVisits,
               World, JailStarts, JailExits, LeftStarts, LeftExits, DepWindowPasses,
               InfraWindowPasses, NetnsDown, NetnsUp, Alive
      <4>2. QED
        BY <1>3, <4>1 DEF Alive
    <3>3. QED
      BY <3>1, <3>2, InvOfFineNext
  <2>4. QED
    BY <2>2, <2>3
<1>4. QED
  BY <1>1, <1>2, <1>3 DEF Alive

\* The inductive invariant holds of every supervisor.
THEOREM Inductive == Spec => []IInv
<1>1. Init => IInv
  BY InitType, InitInv DEF IInv
<1>2. IInv /\ [Next]_vars => IInv'
  BY TypeStep, StepInv DEF IInv
<1>3. QED
  BY <1>1, <1>2, PTL DEF Spec

\* Between callbacks, a container that is wanted up and has no process has a
\* relaunch timer pending or a known reason for having none.
THEOREM PursuedAlways == Spec => []WantedIsPursued
<1>1. IInv => WantedIsPursued
  BY IdleIsEmpty DEF IInv, SupervisorInv, Pursued, WantedIsPursued, Idle
<1>2. QED
  BY <1>1, Inductive, PTL

\* A container that is wanted down and still runs has its grace timer pending.
THEOREM StopEnforced == Spec => []StopIsEnforced
<1>1. IInv => StopIsEnforced
  BY DEF IInv, SupervisorInv
<1>2. QED
  BY <1>1, Inductive, PTL

\* The recursion of launch() through start() never comes back to a container it is
\* launching, so it is no deeper than there are containers.
THEOREM NeverReentered == Spec => []NoReentry
<1>1. IInv => NoReentry
  BY DEF IInv, SupervisorInv
<1>2. QED
  BY <1>1, Inductive, PTL

\* A daemon that never dies under a jail that is not yet up, nor under one whose
\* registry file is gone, never starts a second copy of a container.
THEOREM OneCopy == CleanDeaths /\ Spec => []NoSecondCopy
<1>1. CleanDeaths /\ IInv => NoSecondCopy
  <2>1. ~Live(NoJail)
    BY DEF NoJail, Live
  <2>2. QED
    BY <2>1 DEF IInv, SupervisorInv, NothingLeftBehind, NoSecondCopy
<1>2. CASE CleanDeaths
  <2>1. IInv => NoSecondCopy
    BY <1>1, <1>2
  <2>2. QED
    BY <2>1, Inductive, PTL
<1>3. QED
  BY <1>2
-----------------------------------------------------------------------------
(* What a step may do to an entry.                                         *)

\* No step of the supervision makes an unwanted container wanted ...
Timid(x) == ctr[x].known /\ ctr[x].desired = "DOWN" => ctr'[x].desired # "UP"

\* ... or begins to wait for a dependency.
Waitless(x) == ctr[x].dep_wait = "none" => ctr'[x].dep_wait = "none"

\* launch() entered: the entry is e with the configuration of the registry, and the
\* new frame, if there is one, is at its first dependency.
LEMMA EnterFacts ==
  ASSUME TypeOK, NEW c \in Container, NEW e \in Entries, NEW rest \in Seq(Frames),
         EnterLaunch(c, e, rest)
  PROVE  /\ \A x \in Container \ {c} : ctr'[x] = ctr[x]
         /\ ctr'[c].cfg = reg[c] /\ ctr'[c].known = e.known /\ ctr'[c].desired = e.desired
         /\ ctr'[c].pid = e.pid /\ ctr'[c].health = e.health /\ ctr'[c].dep_wait = e.dep_wait
         /\ \/ stack' = rest
            \/ \E f \in Frames : /\ f.c = c /\ f.i = 1 /\ ~f.defer
                                 /\ stack' = <<f>> \o rest
<1> DEFINE n == [e EXCEPT !.cfg = reg[c], !.parked = IF Registered(c) THEN "no" ELSE "no_bundle"]
           f == [c |-> c, i |-> 1, late |-> Late(e), defer |-> FALSE]
<1>1. ctr'[c] = n /\ \A x \in Container \ {c} : ctr'[x] = ctr[x]
  BY DEF EnterLaunch, TypeOK
<1>2. /\ n.cfg = reg[c] /\ n.known = e.known /\ n.desired = e.desired
      /\ n.pid = e.pid /\ n.health = e.health /\ n.dep_wait = e.dep_wait
  BY DEF Entries
<1>3. f \in Frames /\ f.c = c /\ f.i = 1 /\ ~f.defer
  BY DEF Frames, Late
<1>4. stack' = rest \/ stack' = <<f>> \o rest
  BY DEF EnterLaunch
<1> HIDE DEF n, f
<1>5. QED
  BY <1>1, <1>2, <1>3, <1>4

\* start() of a container the daemon knows.
LEMMA StartFacts ==
  ASSUME TypeOK, NEW c \in Container, NEW rest \in Seq(Frames), ctr[c].known, DoStart(c, rest)
  PROVE  /\ \A x \in Container \ {c} : ctr'[x] = ctr[x]
         /\ ctr'[c].known /\ ctr'[c].pid = ctr[c].pid /\ ctr'[c].health = ctr[c].health
         /\ ctr'[c].dep_wait \in {ctr[c].dep_wait, "none"}
         /\ ctr'[c].cfg = ctr[c].cfg \/ (~ctr[c].pid /\ ctr'[c].cfg = reg[c])
         /\ \/ stack' = rest
            \/ \E f \in Frames : /\ f.c = c /\ f.i = 1 /\ ~f.defer /\ ctr'[c].cfg = reg[c]
                                 /\ stack' = <<f>> \o rest
<1> DEFINE e == ctr[c]
           s == StartEntry(e)
<1>1. e \in Entries /\ Ensure(c) = e /\ s \in Entries
  <2>1. e \in Entries /\ Ensure(c) = e
    BY DEF Ensure, TypeOK
  <2>2. s \in Entries
    BY <2>1 DEF StartEntry, Entries, Windows
  <2>3. QED
    BY <2>1, <2>2
<1>2. /\ s.known = e.known /\ s.pid = e.pid /\ s.health = e.health /\ s.cfg = e.cfg
      /\ s.dep_wait = "none"
  BY <1>1 DEF StartEntry, Entries
<1> HIDE DEF s
<1>3. CASE ctr' = [ctr EXCEPT ![c] = e] /\ stack' = rest
  BY <1>1, <1>3 DEF TypeOK
<1>4. CASE ctr' = [ctr EXCEPT ![c] = s] /\ stack' = rest
  <2>1. ctr'[c] = s /\ \A x \in Container \ {c} : ctr'[x] = ctr[x]
    BY <1>4 DEF TypeOK
  <2>2. QED
    BY <1>2, <1>4, <2>1
<1>5. CASE ~e.pid /\ EnterLaunch(c, s, rest)
  <2>1. /\ \A x \in Container \ {c} : ctr'[x] = ctr[x]
        /\ ctr'[c].cfg = reg[c] /\ ctr'[c].known = s.known
        /\ ctr'[c].pid = s.pid /\ ctr'[c].health = s.health /\ ctr'[c].dep_wait = s.dep_wait
        /\ \/ stack' = rest
           \/ \E f \in Frames : f.c = c /\ f.i = 1 /\ ~f.defer /\ stack' = <<f>> \o rest
    BY <1>1, <1>5, EnterFacts
  <2>2. QED
    BY <1>2, <1>5, <2>1
<1>6. QED
  BY <1>1, <1>3, <1>4, <1>5 DEF DoStart, s

\* Requests cost.
LEMMA RequestSpends ==
  ASSUME TypeOK, Request
  PROVE  quota'["commands"] < quota["commands"] \/ quota'["unattended"] < quota["unattended"]
<1>1. CASE Command
  <2>1. Spend("commands")
    BY <1>1 DEF Command, Start, Stop, Restart, Rollback, Remove, Create, SetConfig,
                JobRegisters, Rename
  <2>2. QED
    BY <2>1 DEF Spend, TypeOK
<1>2. CASE Errand
  <2>1. Spend("unattended")
    BY <1>2 DEF Errand, ScheduleFires, UpgradeRestarts, WatchRestarts
  <2>2. QED
    BY <2>1 DEF Spend, TypeOK
<1>3. QED
  BY <1>1, <1>2 DEF Request

-----------------------------------------------------------------------------
(* What launch() does to the entries.                                      *)

Touched(x) ==
  /\ ctr'[x].cfg \in {ctr[x].cfg, reg[x]}
  /\ ctr[x].pid => /\ ctr'[x].pid /\ ctr'[x].cfg = ctr[x].cfg
                   /\ ctr'[x].health = ctr[x].health
  /\ ~ctr[x].known => ~ctr'[x].known
  /\ Waitless(x) \/ (LaunchDefers /\ x = self)
  /\ ctr'[x].pid => ctr[x].pid \/ (LaunchForks /\ x = self)
  /\ Timid(x) \/ (AtDep /\ x = dep)

\* At a dependency.
LEMMA DepTouches ==
  ASSUME TypeOK, AllFine, LaunchNextDep \/ LaunchBreaksCycle \/ LaunchPullsDep,
         NEW x \in Container
  PROVE  Touched(x)
<1>1. CASE UNCHANGED ctr
  BY <1>1 DEF Touched, Waitless, Timid
<1>2. ASSUME NEW rest \in Seq(Frames), ~Settled(dep), AtDep, DoStart(dep, rest)
      PROVE  Touched(x)
  <2>1. dep \in Container /\ ctr[dep].known
    BY <1>2, FrameType DEF AtDep, Settled
  <2>2. /\ \A y \in Container \ {dep} : ctr'[y] = ctr[y]
        /\ ctr'[dep].known /\ ctr'[dep].pid = ctr[dep].pid /\ ctr'[dep].health = ctr[dep].health
        /\ ctr'[dep].dep_wait \in {ctr[dep].dep_wait, "none"}
        /\ ctr'[dep].cfg = ctr[dep].cfg \/ (~ctr[dep].pid /\ ctr'[dep].cfg = reg[dep])
    BY <1>2, <2>1, StartFacts
  <2>3. CASE x = dep
    BY <1>2, <2>1, <2>2, <2>3 DEF Touched, Waitless, Timid
  <2>4. CASE x # dep
    BY <2>2, <2>4 DEF Touched, Waitless, Timid
  <2>5. QED
    BY <2>3, <2>4
<1>3. CASE LaunchBreaksCycle
  <2>1. <<[top EXCEPT !.i = @ + 1]>> \o callers \in Seq(Frames)
    BY <1>3, FrameType DEF LaunchBreaksCycle, AtDep
  <2>2. QED
    BY <1>1, <1>2, <1>3, <2>1 DEF LaunchBreaksCycle, PullUp
<1>4. CASE LaunchPullsDep
  <2>1. <<[top EXCEPT !.defer = TRUE]>> \o callers \in Seq(Frames)
    BY <1>4, FrameType DEF LaunchPullsDep, AtDep
  <2>2. QED
    BY <1>1, <1>2, <1>4, <2>1 DEF LaunchPullsDep, PullUp
<1>5. QED
  BY <1>1, <1>3, <1>4 DEF LaunchNextDep

\* On the way out.
LEMMA ReturnTouches ==
  ASSUME TypeOK, AllFine,
         \/ LaunchDefers \/ LaunchLacksMount \/ LaunchLacksInfra \/ LaunchLacksBundle
         \/ LaunchCannotFork \/ LaunchForks,
         NEW x \in Container
  PROVE  Touched(x)
<1> DEFINE e == ctr[self]
<1>1. stack # <<>> /\ self \in Container /\ e \in Entries
  BY FrameType
     DEF LaunchDefers, LaunchLacksMount, LaunchLacksInfra, LaunchLacksBundle,
         LaunchCannotFork, LaunchForks, AtEnd, TypeOK
<1>2. e.known /\ e.desired = "UP" /\ ~e.pid
  BY <1>1, SelfEntry
<1> HIDE DEF e
<1>3. ASSUME NEW n \in Entries, n.cfg = e.cfg, n.known, n.pid => LaunchForks,
             n.dep_wait = "none" \/ LaunchDefers,
             ctr' = [ctr EXCEPT ![self] = n]
      PROVE  Touched(x)
  <2>1. ctr'[self] = n /\ \A y \in Container \ {self} : ctr'[y] = ctr[y]
    BY <1>1, <1>3 DEF TypeOK
  <2>2. CASE x = self
    BY <1>2, <1>3, <2>1, <2>2 DEF Touched, Waitless, Timid, e
  <2>3. CASE x # self
    BY <2>1, <2>3 DEF Touched, Waitless, Timid
  <2>4. QED
    BY <2>2, <2>3
<1>4. CASE LaunchDefers
  <2> DEFINE n == [e EXCEPT !.dep_wait = IF @ = "none" THEN "waiting" ELSE @]
  <2>1. n \in Entries /\ n.cfg = e.cfg /\ n.known /\ ~n.pid
    BY <1>1, <1>2 DEF Entries, Windows
  <2>2. ctr' = [ctr EXCEPT ![self] = n]
    BY <1>4 DEF LaunchDefers, e
  <2> HIDE DEF n
  <2>3. QED
    BY <1>3, <1>4, <2>1, <2>2
<1>5. CASE LaunchLacksMount
  <2> DEFINE n == [e EXCEPT !.dep_wait = "none"]
  <2>1. n \in Entries /\ n.cfg = e.cfg /\ n.known /\ ~n.pid /\ n.dep_wait = "none"
    BY <1>1, <1>2 DEF Entries, Windows
  <2>2. ctr' = [ctr EXCEPT ![self] = n]
    BY <1>5 DEF LaunchLacksMount, e
  <2> HIDE DEF n
  <2>3. QED
    BY <1>3, <2>1, <2>2
<1> DEFINE p == PastGates(e)
<1>6. p \in Entries /\ p.cfg = e.cfg /\ p.known /\ ~p.pid /\ p.dep_wait = "none"
  BY <1>1, <1>2 DEF PastGates, Entries, Windows
<1> HIDE DEF p
<1>7. CASE LaunchLacksBundle
  <2>1. ctr' = [ctr EXCEPT ![self] = p]
    BY <1>7 DEF LaunchLacksBundle, e, p
  <2>2. QED
    BY <1>3, <1>6, <2>1
<1>8. CASE LaunchCannotFork
  <2> DEFINE n == [p EXCEPT !.parked = "spawn_failed"]
  <2>1. n \in Entries /\ n.cfg = e.cfg /\ n.known /\ ~n.pid /\ n.dep_wait = "none"
    BY <1>6 DEF Entries
  <2>2. ctr' = [ctr EXCEPT ![self] = n]
    BY <1>8 DEF LaunchCannotFork, e, p
  <2> HIDE DEF n
  <2>3. QED
    BY <1>3, <2>1, <2>2
<1>9. CASE LaunchForks
  <2> DEFINE n == [p EXCEPT !.pid = TRUE, !.adopted = FALSE]
  <2>1. n \in Entries /\ n.cfg = e.cfg /\ n.known /\ n.dep_wait = "none"
    BY <1>6 DEF Entries
  <2>2. ctr' = [ctr EXCEPT ![self] = n]
    BY <1>9 DEF LaunchForks, e, p
  <2> HIDE DEF n
  <2>3. QED
    BY <1>3, <1>9, <2>1, <2>2
<1>10. CASE LaunchLacksInfra
  <2> DEFINE d == [e EXCEPT !.dep_wait = "none"]
             n == [d EXCEPT !.infra_wait = IF @ = "none" THEN "waiting" ELSE @]
             m == [d EXCEPT !.desired = "DOWN", !.infra_wait = "none"]
  <2>1. d \in Entries /\ d.cfg = e.cfg /\ d.known /\ ~d.pid /\ d.dep_wait = "none"
    BY <1>1, <1>2 DEF Entries, Windows
  <2>2. ctr' = [ctr EXCEPT ![self] = n] \/ ctr' = [ctr EXCEPT ![self] = m]
    BY <1>10 DEF LaunchLacksInfra, e
  <2> HIDE DEF d
  <2>3. n \in Entries /\ n.cfg = e.cfg /\ n.known /\ ~n.pid /\ n.dep_wait = "none"
    BY <2>1 DEF Entries, Windows
  <2>4. m \in Entries /\ m.cfg = e.cfg /\ m.known /\ ~m.pid /\ m.dep_wait = "none"
    BY <2>1 DEF Entries, Windows
  <2> HIDE DEF n, m
  <2>5. QED
    BY <1>3, <2>2, <2>3, <2>4
<1>11. QED
  BY <1>4, <1>5, <1>7, <1>8, <1>9, <1>10

\* launch() as a whole.
LEMMA LaunchTouches ==
  ASSUME TypeOK, AllFine, LaunchStep, NEW x \in Container PROVE Touched(x)
BY DepTouches, ReturnTouches DEF LaunchStep

-----------------------------------------------------------------------------
(* What everything else does to the entries.                               *)

\* What an exit makes of an entry.
LEMMA ExitIsTimid ==
  ASSUME NEW e \in Entries, NEW stable \in BOOLEAN
  PROVE  /\ e.desired = "DOWN" => AfterExit(e, stable).desired = "DOWN"
         /\ AfterExit(e, stable).dep_wait = e.dep_wait
<1>1. CASE e.desired # "UP"
  BY <1>1 DEF AfterExit
<1>2. CASE e.desired = "UP"
  BY <1>2 DEF AfterExit, Entries
<1>3. QED
  BY <1>1, <1>2

\* One entry changes, to one that is no more wanted and waits no more.
LEMMA OneIsTimid ==
  ASSUME TypeOK, NEW c \in Container, NEW n, ctr' = [ctr EXCEPT ![c] = n],
         ctr[c].desired = "DOWN" => n.desired = "DOWN",
         n.dep_wait \in {ctr[c].dep_wait, "none"} \/ ctr[c].dep_wait # "none",
         NEW x \in Container
  PROVE  Timid(x) /\ Waitless(x)
BY DEF Timid, Waitless, TypeOK

\* The callbacks of uloop.
LEMMA CallbackIsTimid ==
  ASSUME TypeOK, Callback, NEW x \in Container PROVE Timid(x) /\ Waitless(x)
<1>0. PICK c \in Container : RelaunchFires(c) \/ ProcExit(c) \/ GraceFires(c) \/ HealthVerdict(c)
  BY DEF Callback
<1>1. ctr[c] \in Entries
  BY DEF TypeOK
<1>2. CASE UNCHANGED ctr
  BY <1>2 DEF Timid, Waitless
<1>3. CASE RelaunchFires(c)
  <2>1. CASE EnterLaunch(c, ctr[c], <<>>)
    <3>1. <<>> \in Seq(Frames)
      OBVIOUS
    <3>2. /\ \A y \in Container \ {c} : ctr'[y] = ctr[y]
          /\ ctr'[c].desired = ctr[c].desired /\ ctr'[c].dep_wait = ctr[c].dep_wait
      BY <1>1, <2>1, <3>1, EnterFacts
    <3>3. QED
      BY <3>2 DEF Timid, Waitless
  <2>2. QED
    BY <1>2, <1>3, <2>1 DEF RelaunchFires
<1>4. CASE ProcExit(c)
  <2>1. NoEntry.desired = "DOWN" /\ NoEntry.dep_wait = "none"
    BY DEF NoEntry
  <2>2. CASE ctr' = [ctr EXCEPT ![c] = NoEntry]
    BY <2>1, <2>2, OneIsTimid
  <2>3. ASSUME NEW stable \in BOOLEAN, ctr' = [ctr EXCEPT ![c] = AfterExit(Exited(ctr[c]), stable)]
        PROVE  Timid(x) /\ Waitless(x)
    <3> DEFINE e == Exited(ctr[c])
               n == AfterExit(e, stable)
    <3>1. e \in Entries /\ e.desired = ctr[c].desired /\ e.dep_wait = ctr[c].dep_wait
      BY <1>1 DEF Exited, Entries
    <3>2. ctr' = [ctr EXCEPT ![c] = n]
      BY <2>3
    <3> HIDE DEF e
    <3>3. (e.desired = "DOWN" => n.desired = "DOWN") /\ n.dep_wait = e.dep_wait
      BY <2>3, <3>1, ExitIsTimid
    <3> HIDE DEF n
    <3>4. QED
      BY <3>1, <3>2, <3>3, OneIsTimid
  <2>4. QED
    BY <1>4, <2>2, <2>3 DEF ProcExit
<1>5. CASE GraceFires(c)
  BY <1>2, <1>5 DEF GraceFires
<1>6. CASE HealthVerdict(c)
  <2>1. PICK h \in {"healthy", "unhealthy", "unknown"} : ctr' = [ctr EXCEPT ![c].health = h]
    BY <1>6 DEF HealthVerdict
  <2> DEFINE n == [ctr[c] EXCEPT !.health = h]
  <2>2. n.desired = ctr[c].desired /\ n.dep_wait = ctr[c].dep_wait
    BY <1>1 DEF Entries
  <2>3. ctr' = [ctr EXCEPT ![c] = n]
    BY <2>1 DEF TypeOK
  <2> HIDE DEF n
  <2>4. QED
    BY <2>2, <2>3, OneIsTimid
<1>7. QED
  BY <1>0, <1>3, <1>4, <1>5, <1>6

\* The watchdogs.
LEMMA WatchdogIsTimid ==
  ASSUME TypeOK, Watchdog, NEW x \in Container PROVE Timid(x) /\ Waitless(x)
<1>1. CASE UNCHANGED ctr
  BY <1>1 DEF Timid, Waitless
<1>2. CASE AdoptWatchdog
  <2>1. PICK stable \in SUBSET Gone :
          ctr' = [c \in Container |->
                    IF c \in Gone
                    THEN AfterExit([Exited(ctr[c]) EXCEPT !.adopted = FALSE], c \in stable)
                    ELSE ctr[c]]
    BY <1>2 DEF AdoptWatchdog
  <2> DEFINE e == [Exited(ctr[x]) EXCEPT !.adopted = FALSE]
             n == AfterExit(e, x \in stable)
  <2>2. e \in Entries /\ e.desired = ctr[x].desired /\ e.dep_wait = ctr[x].dep_wait
    <3> DEFINE d == Exited(ctr[x])
    <3>1. d \in Entries /\ d.desired = ctr[x].desired /\ d.dep_wait = ctr[x].dep_wait
      <4>1. ctr[x] \in Entries
        BY DEF TypeOK
      <4>2. QED
        BY <4>1 DEF Exited, Entries
    <3>2. e = [d EXCEPT !.adopted = FALSE]
      OBVIOUS
    <3> HIDE DEF d, e
    <3>3. QED
      BY <3>1, <3>2 DEF Entries
  <2>3. ctr'[x] = n \/ ctr'[x] = ctr[x]
    BY <2>1
  <2> HIDE DEF e
  <2>4. (e.desired = "DOWN" => n.desired = "DOWN") /\ n.dep_wait = e.dep_wait
    <3>1. (x \in stable) \in BOOLEAN
      OBVIOUS
    <3>2. QED
      BY <2>2, <3>1, ExitIsTimid
  <2> HIDE DEF n
  <2>5. QED
    BY <2>2, <2>3, <2>4 DEF Timid, Waitless
<1>3. QED
  BY <1>1, <1>2 DEF Watchdog, InfraWatchdog

\* The world: only time touches an entry, and it ends waits.
LEMMA WorldIsTimid ==
  ASSUME TypeOK, World, NEW x \in Container
  PROVE  /\ Timid(x) /\ Waitless(x)
         /\ ctr'[x].known = ctr[x].known /\ ctr'[x].pid = ctr[x].pid
         /\ ctr'[x].cfg = ctr[x].cfg /\ ctr'[x].health = ctr[x].health
<1>1. CASE UNCHANGED ctr
  BY <1>1 DEF Timid, Waitless
<1>2. ASSUME NEW c \in Container, DepWindowPasses(c)
      PROVE  /\ Timid(x) /\ Waitless(x)
             /\ ctr'[x].known = ctr[x].known /\ ctr'[x].pid = ctr[x].pid
             /\ ctr'[x].cfg = ctr[x].cfg /\ ctr'[x].health = ctr[x].health
  <2> DEFINE n == [ctr[c] EXCEPT !.dep_wait = "expired"]
  <2>1. /\ n.desired = ctr[c].desired /\ n.known = ctr[c].known /\ n.pid = ctr[c].pid
        /\ n.cfg = ctr[c].cfg /\ n.health = ctr[c].health /\ ctr[c].dep_wait # "none"
    BY <1>2 DEF Entries, TypeOK, DepWindowPasses
  <2>2. ctr'[c] = n /\ \A y \in Container \ {c} : ctr'[y] = ctr[y]
    BY <1>2 DEF DepWindowPasses, TypeOK
  <2> HIDE DEF n
  <2>3. QED
    BY <2>1, <2>2 DEF Timid, Waitless
<1>3. ASSUME NEW c \in Container, InfraWindowPasses(c)
      PROVE  /\ Timid(x) /\ Waitless(x)
             /\ ctr'[x].known = ctr[x].known /\ ctr'[x].pid = ctr[x].pid
             /\ ctr'[x].cfg = ctr[x].cfg /\ ctr'[x].health = ctr[x].health
  <2> DEFINE n == [ctr[c] EXCEPT !.infra_wait = "expired"]
  <2>1. /\ n.desired = ctr[c].desired /\ n.known = ctr[c].known /\ n.pid = ctr[c].pid
        /\ n.cfg = ctr[c].cfg /\ n.health = ctr[c].health /\ n.dep_wait = ctr[c].dep_wait
    BY <1>3 DEF Entries, TypeOK
  <2>2. ctr'[c] = n /\ \A y \in Container \ {c} : ctr'[y] = ctr[y]
    BY <1>3 DEF InfraWindowPasses, TypeOK
  <2> HIDE DEF n
  <2>3. QED
    BY <2>1, <2>2 DEF Timid, Waitless
<1>4. QED
  BY <1>1, <1>2, <1>3
     DEF World, JailStarts, JailExits, LeftStarts, LeftExits, NetnsDown, NetnsUp

\* start(), of a container the daemon may not know yet.
LEMMA StartIsWaitless ==
  ASSUME TypeOK, NEW c \in Container, DoStart(c, <<>>), NEW x \in Container
  PROVE  Waitless(x)
<1> DEFINE e == Ensure(c)
           s == StartEntry(e)
<1>1. e \in Entries /\ s \in Entries /\ s.dep_wait = "none"
  BY EnsureType DEF StartEntry, Entries, Windows
<1>2. ctr[c].dep_wait = "none" => e.dep_wait = "none"
  BY DEF Ensure, NoEntry
<1> HIDE DEF e, s
<1>3. CASE ctr' = [ctr EXCEPT ![c] = e] \/ ctr' = [ctr EXCEPT ![c] = s]
  BY <1>1, <1>2, <1>3 DEF TypeOK, Waitless
<1>4. CASE EnterLaunch(c, s, <<>>)
  <2>1. <<>> \in Seq(Frames)
    OBVIOUS
  <2>2. ctr'[c].dep_wait = s.dep_wait /\ \A y \in Container \ {c} : ctr'[y] = ctr[y]
    BY <1>1, <1>4, <2>1, EnterFacts
  <2>3. QED
    BY <1>1, <2>2 DEF Waitless
<1>5. QED
  BY <1>3, <1>4 DEF DoStart, e, s

\* Commands and errands.
LEMMA RequestIsWaitless ==
  ASSUME TypeOK, Request, NEW x \in Container PROVE Waitless(x)
<1>1. ASSUME NEW c \in Container, NEW n, ctr' = [ctr EXCEPT ![c] = n],
             ctr[c].dep_wait = "none" => n.dep_wait = "none"
      PROVE  Waitless(x)
  BY <1>1 DEF Waitless, TypeOK
<1>2. CASE UNCHANGED ctr
  BY <1>2 DEF Waitless
<1>3. NoEntry.dep_wait = "none"
  BY DEF NoEntry
<1>4. ASSUME NEW c \in Container
      PROVE  Ensure(c) \in Entries /\ (ctr[c].dep_wait = "none" => Ensure(c).dep_wait = "none")
  BY <1>3, EnsureType DEF Ensure, NoEntry
<1>5. ASSUME NEW c \in Container, Starts(c) PROVE Waitless(x)
  BY <1>5, StartIsWaitless DEF Starts
<1>6. ASSUME NEW c \in Container, Stops(c) \/ Remove(c) PROVE Waitless(x)
  <2>1. [ctr[c] EXCEPT !.desired = "DOWN"].dep_wait = ctr[c].dep_wait
    BY DEF TypeOK, Entries
  <2>2. \/ ctr' = [ctr EXCEPT ![c] = [ctr[c] EXCEPT !.desired = "DOWN"]]
        \/ ctr' = [ctr EXCEPT ![c] = NoEntry]
    BY <1>6 DEF Stops, DoStop, Remove
  <2>3. QED
    BY <1>1, <1>3, <2>1, <2>2
<1>7. ASSUME NEW c \in Container, Restarts(c) PROVE Waitless(x)
  <2>0. PICK e \in Redescribed(c) : DoRestart(c, e)
    BY <1>7 DEF Restarts
  <2> DEFINE w == [e EXCEPT !.desired = "UP", !.crash = 0]
  <2>1. e \in Entries /\ (ctr[c].dep_wait = "none" => e.dep_wait = "none")
    BY <1>4, RedescribedFacts
  <2>2. \/ ctr' = [ctr EXCEPT ![c] = e] \/ ctr' = [ctr EXCEPT ![c] = w]
        \/ EnterLaunch(c, w, <<>>)
    BY <2>0 DEF DoRestart
  <2>3. w \in Entries /\ w.dep_wait = e.dep_wait
    BY <2>1 DEF Entries
  <2> HIDE DEF w
  <2>4. CASE EnterLaunch(c, w, <<>>)
    <3>1. <<>> \in Seq(Frames)
      OBVIOUS
    <3>2. ctr'[c].dep_wait = w.dep_wait /\ \A y \in Container \ {c} : ctr'[y] = ctr[y]
      BY <2>3, <2>4, <3>1, EnterFacts
    <3>3. QED
      BY <2>1, <2>3, <3>2 DEF Waitless
  <2>5. QED
    BY <1>1, <2>1, <2>2, <2>3, <2>4
<1>8. ASSUME NEW c \in Container, NEW cfg \in Offered[c],
             Registers(c, cfg)
      PROVE  Waitless(x)
  <2> DEFINE e == Ensure(c)
  <2>1. e \in Entries /\ (ctr[c].dep_wait = "none" => e.dep_wait = "none")
    BY <1>4
  <2>2. \/ ctr' = [ctr EXCEPT ![c] = [e EXCEPT !.cfg = cfg]] \/ UNCHANGED ctr
        \/ ctr' = [ctr EXCEPT ![c] = [ctr[c] EXCEPT !.cfg = cfg]]
    BY <1>8 DEF Registers, Create, SetConfig, JobRegisters
  <2> HIDE DEF e
  <2>3. /\ [e EXCEPT !.cfg = cfg].dep_wait = e.dep_wait
        /\ [ctr[c] EXCEPT !.cfg = cfg].dep_wait = ctr[c].dep_wait
    BY <2>1 DEF TypeOK, Entries
  <2>4. QED
    BY <1>1, <1>2, <2>1, <2>2, <2>3
<1>9. ASSUME NEW old \in Container, NEW new \in Container, Rename(old, new)
      PROVE  Waitless(x)
  <2>1. PICK cfg : ctr'[x] \in {NoEntry, ctr[x], [ctr[x] EXCEPT !.cfg = cfg]}
    BY <1>9 DEF Rename
  <2>2. [ctr[x] EXCEPT !.cfg = cfg].dep_wait = ctr[x].dep_wait
    BY DEF TypeOK, Entries
  <2>3. QED
    BY <1>3, <2>1, <2>2 DEF Waitless
<1>10. QED
  BY <1>5, <1>6, <1>7, <1>8, <1>9, Requests

\* The daemon's own life.
LEMMA LifeIsWaitless ==
  ASSUME TypeOK, Life, NEW x \in Container PROVE Waitless(x)
<1>1. NoEntry.dep_wait = "none" /\ NoEntry.desired = "DOWN"
  BY DEF NoEntry
<1>2. CASE UNCHANGED ctr
  BY <1>2 DEF Waitless
<1>3. CASE DaemonDies
  BY <1>1, <1>3 DEF DaemonDies, Waitless
<1>4. CASE DaemonBoots
  <2>1. AdoptedEntry(x).dep_wait = "none"
    BY DEF AdoptedEntry, NoEntry
  <2>2. [NoEntry EXCEPT !.known = TRUE, !.cfg = reg[x]].dep_wait = "none"
    BY DEF NoEntry
  <2>3. ctr'[x] \in {AdoptedEntry(x), [NoEntry EXCEPT !.known = TRUE, !.cfg = reg[x]], NoEntry}
    BY <1>4 DEF DaemonBoots
  <2>4. QED
    BY <1>1, <2>1, <2>2, <2>3 DEF Waitless
<1>5. ASSUME NEW c \in Container, BootVisits(c) PROVE Waitless(x)
  BY <1>2, <1>5, StartIsWaitless DEF BootVisits
<1>6. QED
  BY <1>2, <1>3, <1>4, <1>5 DEF Life, BootEnds

-----------------------------------------------------------------------------
(* The frames of a callback in progress.                                   *)

FramesOf(s) == {s[k] : k \in DOMAIN s}

\* A dependency that the launch of c need not wait for, or need not any more.
Met(c, d) ==
  \/ d = c \/ ~ctr[d].known \/ DepCycle(c, d)
  \/ ctr[d].pid /\ (ctr[d].cfg.hc => ctr[d].health = "healthy")

\* launch() of f.c read its dependencies off the registry, what it has passed of them
\* stays met unless it is late, and it gave up on account of one that it may wait for.
FrameOK(f) ==
  /\ ctr[f.c].cfg = reg[f.c]
  /\ CleanDeaths => \/ f.late
                    \/ \A k \in DOMAIN reg[f.c].depends_on :
                         k < f.i => Met(f.c, reg[f.c].depends_on[k])
  /\ f.defer => \E d \in RegistryDeps(f.c) : ~DepCycle(f.c, d)

FramesOK == \A f \in FramesOf(stack) : FrameOK(f)

\* No job registers a container in the middle of a callback.
JobsWait == [][stack # <<>> => reg' = reg]_vars

\* Frames that come and go at the top.
LEMMA FramesOfOps ==
  ASSUME NEW s \in Seq(Frames)
  PROVE  /\ FramesOf(s) \subseteq Frames
         /\ s # <<>> => Head(s) \in FramesOf(s) /\ FramesOf(Tail(s)) \subseteq FramesOf(s)
         /\ \A f \in Frames : FramesOf(<<f>> \o s) \subseteq {f} \cup FramesOf(s)
<1>1. FramesOf(s) \subseteq Frames
  BY ElementOfSeq, LenProperties DEF FramesOf
<1>2. ASSUME s # <<>>
      PROVE  Head(s) \in FramesOf(s) /\ FramesOf(Tail(s)) \subseteq FramesOf(s)
  <2>1. /\ Len(s) \in Nat \ {0} /\ DOMAIN s = 1..Len(s) /\ Head(s) = s[1]
        /\ DOMAIN Tail(s) = 1..(Len(s) - 1)
        /\ \A k \in 1..(Len(s) - 1) : Tail(s)[k] = s[k + 1]
    BY <1>2, HeadTailProperties, EmptySeq, LenProperties, SMT
  <2>2. 1 \in DOMAIN s
    BY <2>1
  <2>3. \A k \in DOMAIN Tail(s) : k + 1 \in DOMAIN s /\ Tail(s)[k] = s[k + 1]
    BY <2>1
  <2>4. QED
    BY <2>1, <2>2, <2>3 DEF FramesOf
<1>3. ASSUME NEW f \in Frames PROVE FramesOf(<<f>> \o s) \subseteq {f} \cup FramesOf(s)
  <2> DEFINE t == <<f>> \o s
  <2>1. /\ Len(s) \in Nat /\ DOMAIN s = 1..Len(s) /\ DOMAIN t = 1..(Len(s) + 1)
        /\ t[1] = f /\ \A k \in 1..Len(s) : t[k + 1] = s[k]
    BY LenProperties, ConcatProperties, SMT
  <2> HIDE DEF t
  <2>2. \A k \in DOMAIN t : k = 1 \/ (k - 1 \in DOMAIN s /\ t[k] = s[k - 1])
    BY <2>1
  <2>3. FramesOf(t) \subseteq {f} \cup FramesOf(s)
    BY <2>1, <2>2 DEF FramesOf
  <2>4. QED
    BY <2>3 DEF t
<1>4. QED
  BY <1>1, <1>2, <1>3

\* What the frames rely on in the entry of any container.
Kept(x) ==
  /\ ctr'[x].cfg \in {ctr[x].cfg, reg[x]}
  /\ ctr[x].pid => /\ ctr'[x].pid /\ ctr'[x].cfg = ctr[x].cfg
                   /\ ctr'[x].health = ctr[x].health
  /\ ~ctr[x].known => ~ctr'[x].known

\* The cycles are those of the registry.
LEMMA SameCycles ==
  ASSUME reg' = reg, NEW c, NEW d
  PROVE  DepCycle(c, d)' <=> DepCycle(c, d)
BY DEF DepCycle, RegistryDeps

\* A frame stays right while the registry and what it relies on stay.
LEMMA FrameKept ==
  ASSUME TypeOK, reg' = reg, \A x \in Container : Kept(x), NEW f \in Frames, FrameOK(f)
  PROVE  FrameOK(f)'
<1>1. f.c \in Container /\ reg[f.c].depends_on \in Seq(Container)
  BY FileIsConfig DEF Frames, TypeOK, Configs
<1>2. ctr'[f.c].cfg = reg'[f.c]
  BY <1>1 DEF FrameOK, Kept
<1>3. ASSUME NEW d \in Container, Met(f.c, d) PROVE Met(f.c, d)'
  BY <1>3, SameCycles DEF Met, Kept
<1>4. \A k \in DOMAIN reg[f.c].depends_on : reg[f.c].depends_on[k] \in Container
  BY <1>1, ElementOfSeq, LenProperties
<1>5. f.defer => (\E d \in RegistryDeps(f.c) : ~DepCycle(f.c, d))'
  <2>1. RegistryDeps(f.c)' = RegistryDeps(f.c)
    BY DEF RegistryDeps
  <2>2. QED
    BY <2>1, SameCycles DEF FrameOK
<1>6. ASSUME CleanDeaths, ~f.late, NEW k \in DOMAIN reg[f.c].depends_on, k < f.i
      PROVE  Met(f.c, reg[f.c].depends_on[k])'
  <2>1. PICK d \in Container : d = reg[f.c].depends_on[k]
    BY <1>4, <1>6
  <2>2. Met(f.c, d)'
    BY <1>3, <1>6, <2>1 DEF FrameOK
  <2>3. QED
    BY <2>1, <2>2 DEF Met
<1>7. QED
  BY <1>2, <1>5, <1>6 DEF FrameOK

\* A dependency launch() does not wait for is met.
LEMMA SettledIsMet ==
  ASSUME TypeOK, AllFine, CleanDeaths, NEW d \in Container, Settled(d)
  PROVE  Met(self, d)
<1>1. ctr[d].pid \in BOOLEAN /\ left[d].st # "up" /\ (~ctr[d].pid => jail[d].st = "none")
  BY DEF AllFine, Fine, TypeOK, Entries, NoJail
<1>2. QED
  BY <1>1 DEF Settled, Ready, Running, CgroupAlive, Met

\* The frame of a launch that begins.
LEMMA NewFrame ==
  ASSUME TypeOK', NEW f \in Frames, f.i = 1, ~f.defer, ctr'[f.c].cfg = reg'[f.c]
  PROVE  FrameOK(f)'
<1>1. f.c \in Container
  BY DEF Frames
<1>2. \A k \in DOMAIN reg'[f.c].depends_on : ~(k < f.i)
  <2>1. reg'[f.c].depends_on \in Seq(Container)
    BY <1>1, FileIsConfig DEF TypeOK, Configs
  <2>2. QED
    BY <2>1, LenProperties
<1>3. QED
  BY <1>2 DEF FrameOK

\* launch() keeps its frames right.
LEMMA LaunchFrames ==
  ASSUME TypeOK, TypeOK', AllFine, FramesOK, LaunchStep PROVE FramesOK'
<1>1. /\ stack # <<>> /\ reg' = reg /\ stack \in Seq(Frames) /\ callers \in Seq(Frames)
      /\ self \in Container
  BY FrameType
     DEF LaunchStep, LaunchNextDep, LaunchBreaksCycle, LaunchPullsDep, LaunchDefers,
         LaunchLacksMount, LaunchLacksInfra, LaunchLacksBundle, LaunchCannotFork, LaunchForks,
         AtDep, AtEnd, TypeOK
<1>2. \A x \in Container : Kept(x)
  BY LaunchTouches DEF Touched, Kept
<1>3. top \in FramesOf(stack) /\ FramesOf(callers) \subseteq FramesOf(stack)
      /\ FramesOf(stack) \subseteq Frames
  BY <1>1, FramesOfOps DEF top, callers
<1>4. ASSUME NEW f \in Frames, FrameOK(f) PROVE FrameOK(f)'
  BY <1>1, <1>2, <1>4, FrameKept
<1>5. CASE stack' = callers
  BY <1>3, <1>4, <1>5 DEF FramesOK
<1>6. ASSUME NEW g \in Frames, FrameOK(g), AtDep, ~Settled(dep), PullUp(dep, <<g>> \o callers)
      PROVE  FramesOK'
  <2>1. FramesOf(<<g>> \o callers) \subseteq {g} \cup FramesOf(callers)
        /\ <<g>> \o callers \in Seq(Frames)
    BY <1>1, FramesOfOps, StackOps
  <2> DEFINE rest == <<g>> \o callers
  <2>2. \A f \in FramesOf(rest) : f \in Frames /\ FrameOK(f)'
    BY <1>3, <1>4, <1>6, <2>1 DEF FramesOK
  <2>3. rest \in Seq(Frames)
    BY <2>1
  <2>4. PullUp(dep, rest)
    BY <1>6
  <2> HIDE DEF rest
  <2>5. CASE stack' = rest
    BY <2>2, <2>5 DEF FramesOK
  <2>6. CASE DoStart(dep, rest)
    <3>1. dep \in Container /\ ctr[dep].known
      BY <1>6, FrameType DEF AtDep, Settled
    <3>2. \/ stack' = rest
          \/ \E f \in Frames : /\ f.c = dep /\ f.i = 1 /\ ~f.defer /\ ctr'[dep].cfg = reg[dep]
                               /\ stack' = <<f>> \o rest
      BY <2>3, <2>6, <3>1, StartFacts
    <3>3. ASSUME NEW f \in Frames, f.c = dep, f.i = 1, ~f.defer, ctr'[dep].cfg = reg[dep],
                 stack' = <<f>> \o rest
          PROVE  FramesOK'
      <4>1. FrameOK(f)'
        BY <1>1, <3>3, NewFrame
      <4>2. FramesOf(stack') \subseteq {f} \cup FramesOf(rest)
        BY <2>3, <3>3, FramesOfOps
      <4>3. QED
        BY <2>2, <4>1, <4>2 DEF FramesOK
    <3>4. QED
      BY <2>5, <3>2, <3>3
  <2>7. QED
    BY <2>4, <2>5, <2>6 DEF PullUp
<1>7. /\ top \in Frames /\ FrameOK(top)
      /\ ctr[self].cfg = reg[self] /\ reg[self] \in Configs
  BY <1>1, <1>3, FileIsConfig DEF FramesOK, FrameOK, self, TypeOK
<1>8. ASSUME AtDep PROVE dep \in Container /\ dep \in RegistryDeps(self)
                         /\ dep = reg[self].depends_on[top.i]
  <2>1. dep \in Container
    BY <1>8, FrameType DEF AtDep
  <2>2. top.i \in DOMAIN reg[self].depends_on
    BY <1>7, <1>8, LenProperties DEF AtDep, Frames, Configs
  <2>3. QED
    BY <1>7, <2>1, <2>2 DEF RegistryDeps, dep
\* The frame that goes on to the next dependency.
<1>9. ASSUME AtDep, CleanDeaths => top.late \/ Met(self, dep), NEW g, g = [top EXCEPT !.i = @ + 1]
      PROVE  g \in Frames /\ FrameOK(g)
  <2>1. g \in Frames /\ g.c = self /\ g.i = top.i + 1 /\ g.late = top.late /\ g.defer = top.defer
        /\ top.i \in Nat
    BY <1>7, <1>9 DEF Frames, self
  <2>2. ~top.defer
    BY <1>9 DEF AtDep
  <2>3. ASSUME CleanDeaths, ~top.late, NEW k \in DOMAIN reg[self].depends_on, k < g.i
        PROVE  Met(self, reg[self].depends_on[k])
    <3>1. k \in Nat
      BY <1>7, LenProperties DEF Configs
    <3>2. k < top.i \/ k = top.i
      BY <2>1, <2>3, <3>1
    <3>3. QED
      BY <1>7, <1>8, <1>9, <2>3, <3>2 DEF FrameOK, self
  <2>4. QED
    BY <1>7, <2>1, <2>2, <2>3 DEF FrameOK
<1>10. CASE LaunchNextDep
  <2>1. PICK g : g = [top EXCEPT !.i = @ + 1]
    OBVIOUS
  <2>2. g \in Frames /\ FrameOK(g)
    BY <1>8, <1>9, <1>10, <2>1, SettledIsMet DEF LaunchNextDep
  <2>3. FramesOf(stack') \subseteq {g} \cup FramesOf(callers)
    BY <1>1, <1>10, <2>1, <2>2, FramesOfOps DEF LaunchNextDep
  <2>4. QED
    BY <1>3, <1>4, <2>2, <2>3 DEF FramesOK
<1>11. CASE LaunchBreaksCycle
  <2>1. PICK g : g = [top EXCEPT !.i = @ + 1]
    OBVIOUS
  <2>2. g \in Frames /\ FrameOK(g)
    BY <1>9, <1>11, <2>1 DEF LaunchBreaksCycle, Met
  <2>3. QED
    BY <1>6, <1>11, <2>1, <2>2 DEF LaunchBreaksCycle
<1>12. CASE LaunchPullsDep
  <2>1. PICK g : g = [top EXCEPT !.defer = TRUE]
    OBVIOUS
  <2>2. g \in Frames /\ g.c = self /\ g.i = top.i /\ g.late = top.late
    BY <1>7, <2>1 DEF Frames, self
  <2>3. \E d \in RegistryDeps(self) : ~DepCycle(self, d)
    BY <1>8, <1>12 DEF LaunchPullsDep
  <2>4. FrameOK(g)
    BY <1>7, <2>2, <2>3 DEF FrameOK, self
  <2>5. QED
    BY <1>6, <1>12, <2>1, <2>2, <2>4 DEF LaunchPullsDep
<1>13. QED
  BY <1>5, <1>10, <1>11, <1>12
     DEF LaunchStep, LaunchDefers, LaunchLacksMount, LaunchLacksInfra, LaunchLacksBundle,
         LaunchCannotFork, LaunchForks

\* Outside launch(), a step in the middle of a callback leaves the stack and what the
\* frames rely on alone, or the daemon dies.
LEMMA MidCallback ==
  ASSUME TypeOK, SupervisorInv, Next, ~LaunchStep, stack # <<>>
  PROVE  \/ stack' = <<>> /\ \A x \in Container : ~ctr'[x].pid
         \/ /\ stack' = stack
            /\ \A x \in Container :
                 /\ ctr'[x].known = ctr[x].known /\ ctr'[x].pid = ctr[x].pid
                 /\ ctr'[x].cfg = ctr[x].cfg /\ ctr'[x].health = ctr[x].health
<1>1. CASE World
  <2>1. stack' = stack
    BY <1>1 DEF World, JailStarts, JailExits, LeftStarts, LeftExits, DepWindowPasses,
                InfraWindowPasses, NetnsDown, NetnsUp
  <2>2. QED
    BY <1>1, <2>1, WorldIsTimid
<1>2. CASE DaemonDies
  BY <1>2 DEF DaemonDies, NoEntry
<1>3. CASE \E c \in Container : \E cfg \in Offered[c] : JobRegisters(c, cfg)
  BY <1>3 DEF JobRegisters
<1>4. QED
  BY <1>1, <1>2, <1>3
     DEF Next, Command, Errand, Start, Stop, Restart, Rollback, ScheduleFires, UpgradeRestarts,
         WatchRestarts, Remove, Create, SetConfig, Rename,
         Callback, RelaunchFires, ProcExit, GraceFires, HealthVerdict,
         Watchdog, AdoptWatchdog, InfraWatchdog, Life, DaemonBoots, BootEnds, BootVisits,
         Idle, SupervisorInv, DownIsEmpty

\* A callback begins with no frame or with one that is at its first dependency.
LEMMA CallbackBegins ==
  ASSUME TypeOK, Next, stack = <<>>
  PROVE  \/ stack' = <<>>
         \/ \E f \in Frames : /\ f.i = 1 /\ ~f.defer /\ ctr'[f.c].cfg = reg'[f.c]
                              /\ stack' = <<f>> \o <<>>
<1> DEFINE Begins == \/ stack' = <<>>
                     \/ \E f \in Frames : /\ f.i = 1 /\ ~f.defer /\ ctr'[f.c].cfg = reg'[f.c]
                                          /\ stack' = <<f>> \o <<>>
<1>1. <<>> \in Seq(Frames)
  OBVIOUS
<1>2. ASSUME NEW c \in Container, NEW e \in Entries, EnterLaunch(c, e, <<>>), reg' = reg
      PROVE  Begins
  <2>1. /\ ctr'[c].cfg = reg[c]
        /\ \/ stack' = <<>>
           \/ \E f \in Frames : f.c = c /\ f.i = 1 /\ ~f.defer /\ stack' = <<f>> \o <<>>
    BY <1>1, <1>2, EnterFacts
  <2>2. QED
    BY <1>2, <2>1
<1>3. ASSUME NEW c \in Container, DoStart(c, <<>>), reg' = reg PROVE Begins
  <2>1. StartEntry(Ensure(c)) \in Entries
    BY EnsureType DEF StartEntry, Entries, Windows
  <2>2. QED
    BY <1>2, <1>3, <2>1 DEF DoStart
<1>4. ASSUME NEW c \in Container, Restarts(c) PROVE Begins
  <2>0. PICK e \in Redescribed(c) : DoRestart(c, e)
    BY <1>4 DEF Restarts
  <2>1. [e EXCEPT !.desired = "UP", !.crash = 0] \in Entries
    BY RedescribedFacts, EntryUpdates
  <2>2. QED
    BY <1>2, <1>4, <2>0, <2>1 DEF Restarts, DoRestart
<1>5. ASSUME NEW c \in Container, RelaunchFires(c) PROVE Begins
  <2>1. ctr[c] \in Entries
    BY DEF TypeOK
  <2>2. QED
    BY <1>2, <1>5, <2>1 DEF RelaunchFires
<1>6. ASSUME NEW c \in Container, Starts(c) \/ BootVisits(c) PROVE Begins
  BY <1>3, <1>6 DEF Starts, BootVisits
<1>7. ASSUME Request PROVE Begins
  <2>1. ASSUME NEW c \in Container,
               \/ Stops(c) \/ Remove(c)
               \/ \E cfg \in Offered[c] : Registers(c, cfg)
               \/ \E new \in Container : Rename(c, new)
        PROVE  stack' = <<>>
    BY <2>1 DEF Stops, DoStop, Remove, Registers, Create, SetConfig, JobRegisters, Rename
  <2>2. QED
    BY <1>4, <1>6, <1>7, <2>1, Requests
<1> HIDE DEF Begins
<1>8. stack' = stack \/ Begins
  <2>1. CASE Request
    BY <1>7, <2>1
  <2>2. CASE LaunchStep
    BY <2>2
       DEF LaunchStep, LaunchNextDep, LaunchBreaksCycle, LaunchPullsDep, LaunchDefers,
           LaunchLacksMount, LaunchLacksInfra, LaunchLacksBundle, LaunchCannotFork, LaunchForks,
           AtDep, AtEnd
  <2>3. CASE Callback \/ Watchdog
    BY <1>5, <2>3 DEF Callback, ProcExit, GraceFires, HealthVerdict, Watchdog, AdoptWatchdog,
                      InfraWatchdog
  <2>4. CASE Life
    BY <1>6, <2>4 DEF Life, DaemonDies, DaemonBoots, BootEnds
  <2>5. CASE World
    BY <2>5 DEF World, JailStarts, JailExits, LeftStarts, LeftExits, DepWindowPasses,
                InfraWindowPasses, NetnsDown, NetnsUp
  <2>6. QED
    BY <2>1, <2>2, <2>3, <2>4, <2>5 DEF Next, Request
<1>9. QED
  BY <1>8 DEF Begins

\* The empty stack has no frame.
LEMMA NoFrames == FramesOf(<<>>) = {}
BY DEF FramesOf

\* Where no job registers anything in the middle of a callback, the frames stay right.
LEMMA FramesStep ==
  IInv /\ FramesOK /\ [Next]_vars /\ [stack # <<>> => reg' = reg]_vars => FramesOK'
<1> SUFFICES ASSUME TypeOK, TypeOK', SupervisorInv, FramesOK, [Next]_vars,
                    [stack # <<>> => reg' = reg]_vars
             PROVE  FramesOK'
  BY TypeStep DEF IInv
<1>1. stack \in Seq(Frames)
  BY DEF TypeOK
<1>2. CASE /\ stack' = stack /\ reg' = reg
           /\ \A x \in Container :
                /\ ctr'[x].known = ctr[x].known /\ ctr'[x].pid = ctr[x].pid
                /\ ctr'[x].cfg = ctr[x].cfg /\ ctr'[x].health = ctr[x].health
  <2>1. \A x \in Container : Kept(x)
    BY <1>2 DEF Kept
  <2>2. ASSUME NEW f \in FramesOf(stack) PROVE FrameOK(f)'
    BY <1>1, <1>2, <2>1, FrameKept, FramesOfOps DEF FramesOK
  <2>3. QED
    BY <1>2, <2>2 DEF FramesOK
<1>3. CASE UNCHANGED vars
  BY <1>2, <1>3 DEF vars
<1>4. CASE stack' = <<>>
  BY <1>4, NoFrames DEF FramesOK
<1>5. CASE Next /\ stack = <<>>
  <2>1. CASE \E f \in Frames : /\ f.i = 1 /\ ~f.defer /\ ctr'[f.c].cfg = reg'[f.c]
                               /\ stack' = <<f>> \o <<>>
    <3>1. PICK f \in Frames : /\ f.i = 1 /\ ~f.defer /\ ctr'[f.c].cfg = reg'[f.c]
                              /\ stack' = <<f>> \o <<>>
      BY <2>1
    <3>2. FrameOK(f)'
      BY <3>1, NewFrame
    <3>3. <<>> \in Seq(Frames)
      OBVIOUS
    <3>4. FramesOf(stack') \subseteq {f}
      BY <3>1, <3>3, FramesOfOps, NoFrames
    <3>5. QED
      BY <3>2, <3>4 DEF FramesOK
  <2>2. QED
    BY <1>4, <1>5, <2>1, CallbackBegins
<1>6. CASE Next /\ stack # <<>>
  <2>1. reg' = reg
    BY <1>6 DEF vars
  <2>2. CASE LaunchStep
    <3>1. AllFine
      BY <1>6, FineOfInv DEF Alive, SupervisorInv, DownIsEmpty
    <3>2. QED
      BY <2>2, <3>1, LaunchFrames
  <2>3. CASE ~LaunchStep
    BY <1>2, <1>4, <1>6, <2>1, <2>3, MidCallback
  <2>4. QED
    BY <2>2, <2>3
<1>7. QED
  BY <1>3, <1>5, <1>6

-----------------------------------------------------------------------------
(* The action properties.                                                  *)

\* The step behind OnlyStartWants: every other action is Timid.
LEMMA OnlyStartWantsStep ==
  IInv /\ [Next]_vars =>
    [\A c \in Container :
       daemon = "up" /\ ctr[c].known /\ ctr[c].desired = "DOWN" /\ ctr'[c].desired = "UP" =>
         \/ quota'["commands"] < quota["commands"]
         \/ quota'["unattended"] < quota["unattended"]
         \/ stack # <<>> /\ \E k \in DOMAIN ctr[self].cfg.depends_on :
                               ctr[self].cfg.depends_on[k] = c]_vars
<1> SUFFICES ASSUME TypeOK, SupervisorInv, Next, NEW c \in Container, daemon = "up",
                    ctr[c].known, ctr[c].desired = "DOWN", ctr'[c].desired = "UP"
             PROVE  \/ quota'["commands"] < quota["commands"]
                    \/ quota'["unattended"] < quota["unattended"]
                    \/ stack # <<>> /\ \E k \in DOMAIN ctr[self].cfg.depends_on :
                                          ctr[self].cfg.depends_on[k] = c
  BY DEF IInv, vars
<1>1. ~Timid(c)
  BY DEF Timid
<1>2. CASE Request
  BY <1>2, RequestSpends
<1>3. CASE LaunchStep
  <2>1. AllFine
    BY FineOfInv DEF Alive
  <2>2. AtDep /\ c = dep
    BY <1>1, <1>3, <2>1, LaunchTouches DEF Touched
  <2>3. top \in Frames /\ ctr[self].cfg \in Configs
    BY <2>2, FrameType DEF AtDep
  <2>4. top.i \in DOMAIN ctr[self].cfg.depends_on
    BY <2>2, <2>3, LenProperties DEF AtDep, Frames, Configs
  <2>5. QED
    BY <2>2, <2>4 DEF AtDep, dep
<1>4. CASE Callback \/ Watchdog \/ World
  BY <1>1, <1>4, CallbackIsTimid, WatchdogIsTimid, WorldIsTimid
<1>5. CASE Life
  <2>1. DaemonDies
    BY <1>5 DEF Life, DaemonBoots, BootEnds, BootVisits
  <2>2. QED
    BY <2>1 DEF DaemonDies, NoEntry
<1>6. QED
  BY <1>2, <1>3, <1>4, <1>5 DEF Next, Request

\* While the daemon lives, an unwanted container becomes wanted only by a command of a
\* user, by a schedule rule, a finished upgrade or the rollback of a failed one, or
\* because a container that depends on it is launched: the supervision's own relaunch and
\* grace timers, exit handlers, health verdicts and watchdogs undo no stop.
THEOREM StartWants == Spec => OnlyStartWants
<1>1. IInv /\ [Next]_vars =>
        [\A c \in Container :
           daemon = "up" /\ ctr[c].known /\ ctr[c].desired = "DOWN" /\ ctr'[c].desired = "UP" =>
             \/ quota'["commands"] < quota["commands"]
             \/ quota'["unattended"] < quota["unattended"]
             \/ stack # <<>> /\ \E k \in DOMAIN ctr[self].cfg.depends_on :
                                   ctr[self].cfg.depends_on[k] = c]_vars
  BY OnlyStartWantsStep
<1>2. QED
  BY <1>1, Inductive, PTL DEF Spec, OnlyStartWants

\* The frames are right in every state of a supervisor whose jobs register nothing in
\* the middle of a callback.
LEMMA FramesAlways == Spec /\ JobsWait => []FramesOK
<1>1. Init => FramesOK
  BY NoFrames DEF Init, FramesOK
<1>2. IInv /\ FramesOK /\ [Next]_vars /\ [stack # <<>> => reg' = reg]_vars => FramesOK'
  BY FramesStep
<1>3. QED
  BY <1>1, <1>2, Inductive, PTL DEF Spec, JobsWait

\* The step behind CyclesDoNotWait: only LaunchDefers begins a wait.
LEMMA CyclesStep ==
  IInv /\ FramesOK /\ [Next]_vars =>
    [\A c \in Container :
       ctr[c].dep_wait = "none" /\ ctr'[c].dep_wait # "none" =>
         \E d \in RegistryDeps(c) : ~DepCycle(c, d)]_vars
<1> SUFFICES ASSUME TypeOK, SupervisorInv, FramesOK, Next, NEW c \in Container,
                    ctr[c].dep_wait = "none", ctr'[c].dep_wait # "none"
             PROVE  \E d \in RegistryDeps(c) : ~DepCycle(c, d)
  BY DEF IInv, vars
<1>1. ~Waitless(c)
  BY DEF Waitless
<1>2. CASE LaunchStep
  <2>1. stack # <<>> /\ stack \in Seq(Frames)
    BY <1>2
       DEF LaunchStep, LaunchNextDep, LaunchBreaksCycle, LaunchPullsDep, LaunchDefers,
           LaunchLacksMount, LaunchLacksInfra, LaunchLacksBundle, LaunchCannotFork, LaunchForks,
           AtDep, AtEnd, TypeOK
  <2>2. AllFine
    BY <2>1, FineOfInv DEF Alive, SupervisorInv, DownIsEmpty
  <2>3. LaunchDefers /\ c = self
    BY <1>1, <1>2, <2>2, LaunchTouches DEF Touched
  <2>4. FrameOK(top) /\ top.defer
    BY <2>1, <2>3, FramesOfOps DEF FramesOK, LaunchDefers, top
  <2>5. QED
    BY <2>3, <2>4 DEF FrameOK, self
<1>3. QED
  BY <1>1, <1>2, RequestIsWaitless, CallbackIsTimid, WatchdogIsTimid, LifeIsWaitless,
     WorldIsTimid DEF Next, Request

\* Where no job registers anything in the middle of a callback, a container that depends
\* only on containers in a cycle with it never begins to wait for them.
THEOREM CyclesNeverWait == Spec /\ JobsWait => CyclesDoNotWait
<1>1. IInv /\ FramesOK /\ [Next]_vars =>
        [\A c \in Container :
           ctr[c].dep_wait = "none" /\ ctr'[c].dep_wait # "none" =>
             \E d \in RegistryDeps(c) : ~DepCycle(c, d)]_vars
  BY CyclesStep
<1>2. QED
  BY <1>1, Inductive, FramesAlways, PTL DEF Spec, CyclesDoNotWait

\* The step behind LaunchWaitsForDeps: only LaunchForks gives a container a process.
LEMMA WaitsStep ==
  CleanDeaths /\ IInv /\ FramesOK /\ [Next]_vars =>
    [\A c \in Container :
       ~ctr[c].pid /\ ctr'[c].pid /\ stack # <<>> =>
         \/ top.late
         \/ \A d \in {ctr[c].cfg.depends_on[k] : k \in DOMAIN ctr[c].cfg.depends_on} :
              d = c \/ ~ctr[d].known \/ Ready(d) \/ DepCycle(c, d)]_vars
<1> SUFFICES ASSUME CleanDeaths, TypeOK, SupervisorInv, FramesOK, Next, NEW c \in Container,
                    ~ctr[c].pid, ctr'[c].pid, stack # <<>>, ~top.late,
                    NEW k \in DOMAIN ctr[c].cfg.depends_on
             PROVE  LET d == ctr[c].cfg.depends_on[k]
                    IN  d = c \/ ~ctr[d].known \/ Ready(d) \/ DepCycle(c, d)
  BY DEF IInv, vars
<1>1. LaunchStep
  BY MidCallback
<1>2. AllFine
  BY FineOfInv DEF Alive, SupervisorInv, DownIsEmpty
<1>3. LaunchForks /\ c = self
  BY <1>1, <1>2, LaunchTouches DEF Touched
<1>4. FrameOK(top) /\ top \in Frames /\ ctr[self].cfg \in Configs
  BY FramesOfOps, FrameType DEF FramesOK, TypeOK, top
<1>5. k < top.i
  <2>1. top.i > Len(ctr[self].cfg.depends_on) /\ k \in 1 .. Len(ctr[self].cfg.depends_on)
    BY <1>3, <1>4, LenProperties DEF LaunchForks, AtEnd, Configs
  <2>2. QED
    BY <1>4, <2>1, LenProperties DEF Frames, Configs
<1>6. Met(c, ctr[c].cfg.depends_on[k])
  BY <1>3, <1>4, <1>5 DEF FrameOK, self
<1>7. QED
  BY <1>6 DEF Met, Ready, Running

\* Where the daemon leaves no jail behind and no job registers anything in the middle of
\* a callback, a container is forked only when each of its dependencies is ready, in a
\* cycle with it or unknown, or start_timeout has passed: whatever the launches of the
\* dependencies themselves did meanwhile.
THEOREM DepsComeFirst == CleanDeaths /\ Spec /\ JobsWait => LaunchWaitsForDeps
<1>1. CASE CleanDeaths
  <2>1. IInv /\ FramesOK /\ [Next]_vars =>
          [\A c \in Container :
             ~ctr[c].pid /\ ctr'[c].pid /\ stack # <<>> =>
               \/ top.late
               \/ \A d \in {ctr[c].cfg.depends_on[k] : k \in DOMAIN ctr[c].cfg.depends_on} :
                    d = c \/ ~ctr[d].known \/ Ready(d) \/ DepCycle(c, d)]_vars
    BY <1>1, WaitsStep
  <2>2. QED
    BY <2>1, Inductive, FramesAlways, PTL DEF Spec, LaunchWaitsForDeps
<1>2. QED
  BY <1>1

-----------------------------------------------------------------------------
(* Supervision.                                                            *)

\* A grace timer is of the instance there is, and an adopted jail was up.
Own(x) ==
  /\ x \in grace => ctr[x].pid
  /\ ctr[x].adopted /\ ctr[x].pid => jail[x].st # "starting"

\* What most steps leave of a container: its jail and the timer that kills it; and if it
\* is no longer wanted there is one, or nothing to kill.
Quiet(x) ==
  /\ ctr'[x].pid = ctr[x].pid /\ (ctr'[x].adopted => ctr[x].adopted)
  /\ Live(jail'[x]) = Live(jail[x]) /\ left'[x] = left[x]
  /\ jail'[x].st = "starting" => jail[x].st = "starting"
  /\ x \in grace => x \in grace'
  /\ x \in grace' => x \in grace \/ ctr[x].pid
  /\ ctr[x].desired = "UP" => ctr'[x].desired = "UP" \/ x \in grace' \/ ~ctr[x].pid

\* An exit handler found its jail gone.
Cleared(x) ==
  /\ ~ctr'[x].pid /\ x \notin grace'
  /\ ~Live(jail[x]) /\ ~Live(jail'[x]) /\ left'[x] = left[x]

\* What a step is for one container, with a daemon.
Step(x) == A!Rests(x) \/ A!Told(x) \/ A!Launched(x) \/ A!Ended(x)

\* The state of one container as module Supervision has it.
LEMMA Seen ==
  ASSUME NEW x \in Container
  PROVE  /\ [c \in Container |-> Copies(c)][x] = Copies(x)
         /\ [c \in Container |-> Copies(c)]'[x] = Copies(x)'
         /\ Copies(x) \in Nat /\ (Copies(x) > 0 <=> Live(jail[x]) \/ Live(left[x]))
BY DEF Copies

LEMMA QuietIsTold ==
  ASSUME AllFine, Alive, NEW x \in Container, Own(x), Quiet(x), CleanDeaths
  PROVE  Step(x) /\ Own(x)'
<1>1. /\ (x \in {c \in Container : ctr[c].desired = "UP"}) = (ctr[x].desired = "UP")
      /\ (x \in {c \in Container : ctr[c].desired = "UP"}') = (ctr'[x].desired = "UP")
      /\ (x \in {c \in grace : Live(jail[c])}) = (x \in grace /\ Live(jail[x]))
      /\ (x \in {c \in grace : Live(jail[c])}') = (x \in grace' /\ Live(jail'[x]))
  OBVIOUS
<1>2. ~Live(left[x]) /\ (~ctr[x].pid => ~Live(jail[x]))
  BY DEF AllFine, Fine, NoJail, Live
<1>3. Copies(x)' = Copies(x) /\ (Copies(x) > 0 <=> Live(jail[x]))
  BY <1>2, Seen DEF Quiet, Copies
<1>4. A!Told(x)
  BY <1>1, <1>2, <1>3, Seen DEF A!Told, Quiet, Alive
<1>5. Own(x)'
  BY DEF Own, Quiet
<1> QED
  BY <1>4, <1>5 DEF Step

LEMMA ClearedIsTold ==
  ASSUME AllFine, Alive, NEW x \in Container, Cleared(x), CleanDeaths
  PROVE  Step(x) /\ Own(x)'
<1>1. /\ (x \in {c \in grace : Live(jail[c])}) = (x \in grace /\ Live(jail[x]))
      /\ (x \in {c \in grace : Live(jail[c])}') = (x \in grace' /\ Live(jail'[x]))
  OBVIOUS
<1>2. ~Live(left[x])
  BY DEF AllFine, Fine, NoJail, Live
<1>3. Copies(x)' = 0 /\ Copies(x) = 0
  BY <1>2 DEF Cleared, Copies
<1>4. A!Told(x)
  BY <1>1, <1>3, Seen DEF A!Told, Cleared, Alive
<1>5. Own(x)'
  BY DEF Own, Cleared
<1> QED
  BY <1>4, <1>5 DEF Step

\* Steps that start and end no jail and put off no timer.
Gentle ==
  /\ left' = left /\ \A x \in Container : jail'[x].st = jail[x].st
  /\ grace \subseteq grace' /\ \A x \in grace' : x \in grace \/ ctr[x].pid

LEMMA GentleIsQuiet ==
  ASSUME Gentle, NEW x \in Container,
         ctr'[x].pid = ctr[x].pid, ctr'[x].adopted => ctr[x].adopted,
         ctr[x].desired = "UP" => ctr'[x].desired = "UP" \/ x \in grace' \/ ~ctr[x].pid
  PROVE  Quiet(x)
BY DEF Gentle, Quiet, Live

\* One entry is replaced.
LEMMA OneQuiet ==
  ASSUME TypeOK, Gentle, NEW c \in Container, NEW n, ctr' = [ctr EXCEPT ![c] = n],
         n.pid = ctr[c].pid, n.adopted => ctr[c].adopted,
         ctr[c].desired = "UP" => n.desired = "UP" \/ c \in grace' \/ ~ctr[c].pid
  PROVE  \A x \in Container : Quiet(x)
<1>1. ctr'[c] = n /\ \A x \in Container \ {c} : ctr'[x] = ctr[x]
  BY DEF TypeOK
<1>2. ASSUME NEW x \in Container PROVE Quiet(x)
  BY <1>1, GentleIsQuiet
<1> QED
  BY <1>2

\* What only touches jails, timers or nothing at all.
LEMMA SameEntriesQuiet ==
  ASSUME Gentle, ctr' = ctr PROVE \A x \in Container : Quiet(x)
BY GentleIsQuiet

LEMMA NothingIsGentle ==
  ASSUME UNCHANGED <<jail, left, grace>> PROVE Gentle
BY DEF Gentle

LEMMA SignalIsGentle ==
  ASSUME TypeOK, NEW c \in Container, SignalAndReap(c), ctr[c].pid, left' = left PROVE Gentle
<1>1. \A x \in Container : jail'[x].st = jail[x].st
  BY SignalFacts
<1> QED
  BY <1>1 DEF Gentle, SignalAndReap

\* launch() and start() by themselves.
LEMMA EnterQuiet ==
  ASSUME TypeOK, Gentle, NEW c \in Container, NEW e \in Entries, NEW rest,
         EnterLaunch(c, e, rest), e.pid = ctr[c].pid, e.adopted => ctr[c].adopted,
         ctr[c].desired = "UP" => e.desired = "UP"
  PROVE  \A x \in Container : Quiet(x)
<1> DEFINE n == [e EXCEPT !.cfg = reg[c], !.parked = IF Registered(c) THEN "no" ELSE "no_bundle"]
<1>1. n.pid = e.pid /\ n.adopted = e.adopted /\ n.desired = e.desired
  BY DEF Entries
<1>2. ctr' = [ctr EXCEPT ![c] = n]
  BY DEF EnterLaunch
<1> HIDE DEF n
<1> QED
  BY <1>1, <1>2, OneQuiet

LEMMA EnsureQuiet ==
  ASSUME TypeOK, AllFine, NEW c \in Container
  PROVE  /\ Ensure(c) \in Entries /\ Ensure(c).pid = ctr[c].pid
         /\ Ensure(c).adopted => ctr[c].adopted
         /\ ctr[c].desired = "UP" => Ensure(c).desired = "UP" \/ ~ctr[c].pid
<1>1. CASE ctr[c].known
  BY <1>1, EnsureType DEF Ensure
<1>2. CASE ~ctr[c].known
  <2>1. Ensure(c) = [NoEntry EXCEPT !.known = TRUE, !.cfg = reg[c]]
    BY <1>2 DEF Ensure
  <2>2. ~Ensure(c).adopted
    BY <2>1 DEF NoEntry
  <2>3. ~ctr[c].pid
    BY <1>2 DEF AllFine, Fine
  <2> QED
    BY <2>2, <2>3, EnsureType, EnsureFacts
<1> QED
  BY <1>1, <1>2

LEMMA StartQuiet ==
  ASSUME TypeOK, AllFine, Gentle, NEW c \in Container, NEW rest, DoStart(c, rest)
  PROVE  \A x \in Container : Quiet(x)
<1> DEFINE e == Ensure(c)
           s == StartEntry(e)
<1>1. /\ e \in Entries /\ e.pid = ctr[c].pid /\ (e.adopted => ctr[c].adopted)
      /\ ctr[c].desired = "UP" => e.desired = "UP" \/ ~ctr[c].pid
  BY EnsureQuiet
<1>2. s \in Entries /\ s.pid = e.pid /\ s.adopted = e.adopted /\ s.desired = "UP"
  BY <1>1 DEF StartEntry, Entries, Windows
<1>3. \/ ctr' = [ctr EXCEPT ![c] = e] \/ ctr' = [ctr EXCEPT ![c] = s]
      \/ EnterLaunch(c, s, rest)
  BY DEF DoStart
<1> HIDE DEF e, s
<1> QED
  BY <1>1, <1>2, <1>3, OneQuiet, EnterQuiet

LEMMA RequestQuiet ==
  ASSUME TypeOK, AllFine, Request PROVE \A x \in Container : Quiet(x)
<1>1. ASSUME NEW c \in Container, Starts(c) PROVE \A x \in Container : Quiet(x)
  <2>1. Gentle
    BY <1>1, NothingIsGentle DEF Starts, world
  <2> QED
    BY <1>1, <2>1, StartQuiet DEF Starts
<1>2. ASSUME NEW c \in Container, ctr' = [ctr EXCEPT ![c].desired = "DOWN"], left' = left,
             IF ctr[c].pid THEN SignalAndReap(c) ELSE UNCHANGED <<jail, grace>>
      PROVE  \A x \in Container : Quiet(x)
  <2> DEFINE n == [ctr[c] EXCEPT !.desired = "DOWN"]
  <2>1. n.pid = ctr[c].pid /\ n.adopted = ctr[c].adopted
    BY DEF TypeOK, Entries
  <2>2. ctr' = [ctr EXCEPT ![c] = n]
    BY <1>2
  <2> HIDE DEF n
  <2>3. Gentle /\ (ctr[c].pid => c \in grace')
    BY <1>2, NothingIsGentle, SignalIsGentle DEF SignalAndReap
  <2> QED
    BY <2>1, <2>2, <2>3, OneQuiet
<1>3. ASSUME NEW c \in Container, Restarts(c) PROVE \A x \in Container : Quiet(x)
  <2>0. PICK e \in Redescribed(c) : DoRestart(c, e)
    BY <1>3 DEF Restarts
  <2> DEFINE w == [e EXCEPT !.desired = "UP", !.crash = 0]
  <2>1. /\ e \in Entries /\ e.pid = ctr[c].pid /\ (e.adopted => ctr[c].adopted)
        /\ ctr[c].desired = "UP" => e.desired = "UP" \/ ~ctr[c].pid
    BY EnsureQuiet, RedescribedFacts
  <2>2. w \in Entries /\ w.pid = e.pid /\ w.adopted = e.adopted /\ w.desired = "UP"
    BY <2>1 DEF Entries
  <2>3. /\ \/ ctr' = [ctr EXCEPT ![c] = e] \/ ctr' = [ctr EXCEPT ![c] = w]
           \/ EnterLaunch(c, w, <<>>)
        /\ left' = left /\ (UNCHANGED <<jail, grace>> \/ (e.pid /\ SignalAndReap(c)))
    BY <1>3, <2>0 DEF Restarts, DoRestart
  <2> HIDE DEF w
  <2>4. Gentle
    BY <2>1, <2>3, NothingIsGentle, SignalIsGentle
  <2> QED
    BY <2>1, <2>2, <2>3, <2>4, OneQuiet, EnterQuiet
<1>4. ASSUME NEW c \in Container, Remove(c) PROVE \A x \in Container : Quiet(x)
  <2>1. CASE ctr[c].pid
    BY <1>2, <1>4, <2>1 DEF Remove
  <2>2. CASE ~ctr[c].pid
    <3>1. Gentle /\ ctr' = [ctr EXCEPT ![c] = NoEntry]
      BY <1>4, <2>2, NothingIsGentle DEF Remove
    <3>2. ctr[c].pid = FALSE
      BY <2>2 DEF TypeOK, Entries
    <3>3. NoEntry.pid = FALSE /\ NoEntry.adopted = FALSE
      BY DEF NoEntry
    <3> QED
      BY <3>1, <3>2, <3>3, OneQuiet
  <2> QED
    BY <2>1, <2>2
<1>5. ASSUME NEW c \in Container, NEW cfg \in Offered[c],
             Registers(c, cfg)
      PROVE  \A x \in Container : Quiet(x)
  <2>1. Gentle
    BY <1>5, NothingIsGentle DEF Registers, Create, SetConfig, JobRegisters, world
  <2>2. ASSUME NEW e \in Entries, e.pid = ctr[c].pid, e.adopted => ctr[c].adopted,
               ctr[c].desired = "UP" => e.desired = "UP" \/ ~ctr[c].pid,
               ctr' = [ctr EXCEPT ![c] = [e EXCEPT !.cfg = cfg]]
        PROVE  \A x \in Container : Quiet(x)
    <3> DEFINE n == [e EXCEPT !.cfg = cfg]
    <3>1. n.pid = e.pid /\ n.adopted = e.adopted /\ n.desired = e.desired
      BY DEF Entries
    <3> HIDE DEF n
    <3> QED
      BY <2>1, <2>2, <3>1, OneQuiet DEF n
  <2>3. \/ ctr' = ctr
        \/ ctr' = [ctr EXCEPT ![c] = [Ensure(c) EXCEPT !.cfg = cfg]]
        \/ ctr' = [ctr EXCEPT ![c] = [ctr[c] EXCEPT !.cfg = cfg]]
    BY <1>5 DEF Registers, Create, SetConfig, JobRegisters
  <2>4. ctr[c] \in Entries
    BY DEF TypeOK
  <2> QED
    BY <2>1, <2>2, <2>3, <2>4, EnsureQuiet, SameEntriesQuiet
<1>6. ASSUME NEW old \in Container, NEW new \in Container, Rename(old, new)
      PROVE  \A x \in Container : Quiet(x)
  <2> DEFINE moved == [reg EXCEPT ![new] = reg[old], ![old] = NoFile]
             Re(o) == [moved[o] EXCEPT !.depends_on = Renamed(@, old, new)]
             others == {o \in Container \ {new} : Re(o) # moved[o]}
  <2>1. Gentle /\ ~ctr[old].pid
    BY <1>6, NothingIsGentle DEF Rename, world
  <2>2. ctr' = [o \in Container |-> IF o = old THEN NoEntry
                                    ELSE IF o \in others /\ ctr[o].known
                                    THEN [ctr[o] EXCEPT !.cfg = Re(o)] ELSE ctr[o]]
    BY <1>6 DEF Rename
  <2> HIDE DEF moved, Re, others
  <2>3. ASSUME NEW x \in Container PROVE Quiet(x)
    <3>1. ctr[x] \in Entries
      BY DEF TypeOK
    <3>2. \/ x = old /\ ctr'[x] = NoEntry
          \/ ctr'[x] = ctr[x]
          \/ ctr'[x] = [ctr[x] EXCEPT !.cfg = Re(x)]
      BY <2>2
    <3>3. NoEntry.pid = FALSE /\ NoEntry.adopted = FALSE
      BY DEF NoEntry
    <3>4. /\ [ctr[x] EXCEPT !.cfg = Re(x)].pid = ctr[x].pid
          /\ [ctr[x] EXCEPT !.cfg = Re(x)].adopted = ctr[x].adopted
          /\ [ctr[x] EXCEPT !.cfg = Re(x)].desired = ctr[x].desired
          /\ ctr[x].pid \in BOOLEAN
      BY <3>1 DEF Entries
    <3> QED
      BY <2>1, <3>2, <3>3, <3>4, GentleIsQuiet
  <2> QED
    BY <2>3
<1> QED
  BY <1>1, <1>2, <1>3, <1>4, <1>5, <1>6, Requests DEF Stops, DoStop

\* launch() until it forks.
LEMMA LaunchQuiet ==
  ASSUME TypeOK, AllFine, LaunchStep, ~LaunchForks PROVE \A x \in Container : Quiet(x)
<1> DEFINE e == ctr[self]
<1>1. Gentle
  BY NothingIsGentle
     DEF LaunchStep, LaunchNextDep, LaunchBreaksCycle, LaunchPullsDep, LaunchDefers,
         LaunchLacksMount, LaunchLacksInfra, LaunchLacksBundle, LaunchCannotFork, world
<1>2. CASE LaunchNextDep
  BY <1>1, <1>2, SameEntriesQuiet DEF LaunchNextDep
<1>3. CASE LaunchBreaksCycle \/ LaunchPullsDep
  <2>1. PICK rest : PullUp(dep, rest)
    BY <1>3 DEF LaunchBreaksCycle, LaunchPullsDep
  <2>2. dep \in Container
    BY <1>3, FrameType DEF LaunchBreaksCycle, LaunchPullsDep, AtDep
  <2> QED
    BY <1>1, <2>1, <2>2, StartQuiet, SameEntriesQuiet DEF PullUp
<1>4. CASE \/ LaunchDefers \/ LaunchLacksMount \/ LaunchLacksInfra \/ LaunchLacksBundle
           \/ LaunchCannotFork
  <2>1. /\ self \in Container /\ e \in Entries /\ ~e.pid /\ e.pid \in BOOLEAN
    <3>1. stack # <<>>
      BY <1>4 DEF LaunchDefers, LaunchLacksMount, LaunchLacksInfra, LaunchLacksBundle,
                  LaunchCannotFork, AtEnd
    <3>2. self \in Container /\ e \in Entries /\ ~e.pid
      BY <3>1, SelfEntry
    <3> QED
      BY <3>2 DEF Entries
  <2> HIDE DEF e
  <2>2. ASSUME NEW n, ctr' = [ctr EXCEPT ![self] = n], n.pid = e.pid, n.adopted = e.adopted
        PROVE  \A x \in Container : Quiet(x)
    BY <1>1, <2>1, <2>2, OneQuiet DEF e
  <2>3. CASE LaunchDefers
    <3> DEFINE n == [e EXCEPT !.dep_wait = IF @ = "none" THEN "waiting" ELSE @]
    <3>1. n.pid = e.pid /\ n.adopted = e.adopted
      BY <2>1 DEF Entries
    <3>2. ctr' = [ctr EXCEPT ![self] = n]
      BY <2>3 DEF LaunchDefers, e
    <3> HIDE DEF n
    <3> QED
      BY <2>2, <3>1, <3>2
  <2>4. CASE LaunchLacksMount
    <3> DEFINE n == [e EXCEPT !.dep_wait = "none"]
    <3>1. n.pid = e.pid /\ n.adopted = e.adopted
      BY <2>1 DEF Entries
    <3>2. ctr' = [ctr EXCEPT ![self] = n]
      BY <2>4 DEF LaunchLacksMount, e
    <3> HIDE DEF n
    <3> QED
      BY <2>2, <3>1, <3>2
  <2> DEFINE p == PastGates(e)
             q == [p EXCEPT !.parked = "spawn_failed"]
  <2>5. p \in Entries /\ p.pid = e.pid /\ p.adopted = e.adopted
    BY <2>1 DEF PastGates, Entries, Windows
  <2> HIDE DEF p
  <2>6. q.pid = e.pid /\ q.adopted = e.adopted
    BY <2>5 DEF Entries
  <2> HIDE DEF q
  <2>7. CASE LaunchLacksBundle
    <3>1. ctr' = [ctr EXCEPT ![self] = p]
      BY <2>7 DEF LaunchLacksBundle, e, p
    <3> QED
      BY <2>2, <2>5, <3>1
  <2>8. CASE LaunchCannotFork
    <3>1. ctr' = [ctr EXCEPT ![self] = q]
      BY <2>8 DEF LaunchCannotFork, e, p, q
    <3> QED
      BY <2>2, <2>6, <3>1
  <2>9. CASE LaunchLacksInfra
    <3> DEFINE d == [e EXCEPT !.dep_wait = "none"]
               n == [d EXCEPT !.infra_wait = IF @ = "none" THEN "waiting" ELSE @]
               m == [d EXCEPT !.desired = "DOWN", !.infra_wait = "none"]
    <3>1. d \in Entries /\ d.pid = e.pid /\ d.adopted = e.adopted
      BY <2>1 DEF Entries, Windows
    <3>2. ctr' = [ctr EXCEPT ![self] = n] \/ ctr' = [ctr EXCEPT ![self] = m]
      BY <2>9 DEF LaunchLacksInfra, e
    <3> HIDE DEF d
    <3>3. n.pid = e.pid /\ n.adopted = e.adopted
      BY <3>1 DEF Entries
    <3>4. m.pid = e.pid /\ m.adopted = e.adopted
      BY <3>1 DEF Entries
    <3> HIDE DEF n, m
    <3> QED
      BY <2>2, <3>2, <3>3, <3>4
  <2> QED
    BY <1>4, <2>3, <2>4, <2>7, <2>8, <2>9
<1> QED
  BY <1>2, <1>3, <1>4 DEF LaunchStep

\* The fork itself: nothing of the name ran, and no timer of an earlier instance is left.
LEMMA ForkIsLaunched ==
  ASSUME TypeOK, AllFine, Alive, CleanDeaths, LaunchForks, \A x \in Container : Own(x),
         NEW x \in Container
  PROVE  Step(x) /\ Own(x)'
<1> DEFINE e == ctr[self]
           n == [PastGates(e) EXCEPT !.pid = TRUE, !.adopted = FALSE]
<1>1. self \in Container /\ e \in Entries /\ e.desired = "UP" /\ ~e.pid
  BY SelfEntry DEF LaunchForks, AtEnd
<1>2. n.pid /\ ~n.adopted /\ n.desired = "UP"
  <2> DEFINE p == PastGates(e)
  <2>1. p \in Entries /\ p.desired = "UP"
    BY <1>1 DEF PastGates, Entries, Windows
  <2> HIDE DEF p
  <2>2. [p EXCEPT !.pid = TRUE, !.adopted = FALSE].pid = TRUE
        /\ [p EXCEPT !.pid = TRUE, !.adopted = FALSE].adopted = FALSE
        /\ [p EXCEPT !.pid = TRUE, !.adopted = FALSE].desired = "UP"
    BY <2>1 DEF Entries
  <2> QED
    BY <2>2 DEF p
<1>3. /\ ctr' = [ctr EXCEPT ![self] = n] /\ grace' = grace
      /\ jail' = [jail EXCEPT ![self] =
                    [st |-> "starting", net |-> e.cfg.infra, term |-> FALSE]]
      /\ left' = [left EXCEPT ![self] = IF Live(jail[self]) THEN jail[self] ELSE @]
  BY DEF LaunchForks
<1> HIDE DEF n
<1>4. CASE x # self
  <2>1. ctr'[x] = ctr[x] /\ jail'[x] = jail[x] /\ left'[x] = left[x]
    BY <1>1, <1>3, <1>4 DEF TypeOK
  <2>2. Quiet(x)
    BY <1>3, <2>1 DEF Quiet
  <2> QED
    BY <2>2, QuietIsTold
<1>5. CASE x = self
  <2>1. ctr'[x] = n /\ jail'[x].st = "starting"
    BY <1>1, <1>3, <1>5 DEF TypeOK
  <2>2. ~Live(jail[x]) /\ ~Live(left[x])
    BY <1>1, <1>5 DEF AllFine, Fine, Live, NoJail
  <2>3. left'[x] = left[x]
    BY <1>1, <1>3, <1>5, <2>2 DEF TypeOK
  <2>4. x \notin grace'
    BY <1>1, <1>3, <1>5 DEF Own
  <2>5. Copies(x) = 0 /\ Copies(x)' = 1
    BY <2>1, <2>2, <2>3 DEF Copies, Live
  <2>6. Own(x)'
    BY <1>2, <2>1, <2>4 DEF Own
  <2>7. (x \in {c \in Container : ctr[c].desired = "UP"}) = (ctr[x].desired = "UP")
        /\ (x \in {c \in Container : ctr[c].desired = "UP"}') = (ctr'[x].desired = "UP")
    OBVIOUS
  <2>8. x \notin {c \in grace : Live(jail[c])}'
    BY <2>4
  <2>9. A!Launched(x)
    BY <1>1, <1>2, <1>5, <2>1, <2>5, <2>7, <2>8, Seen DEF A!Launched, Alive
  <2> QED
    BY <2>6, <2>9 DEF Step
<1> QED
  BY <1>4, <1>5

\* A container the step does not concern.
LEMMA SameIsQuiet ==
  ASSUME NEW x, ctr'[x] = ctr[x], jail'[x] = jail[x], left'[x] = left[x],
         x \in grace' <=> x \in grace
  PROVE  Quiet(x)
BY DEF Quiet

\* A jail ends that the daemon does not look at yet.
LEMMA EndIsEnded ==
  ASSUME AllFine, NEW x \in Container, Own(x), CleanDeaths, ctr' = ctr, left'[x] = left[x],
         Live(jail[x]), ~Live(jail'[x]), jail'[x].st # "starting", x \in grace' => x \in grace
  PROVE  Step(x) /\ Own(x)'
<1>1. ~Live(left[x])
  BY DEF AllFine, Fine, NoJail, Live
<1>2. Copies(x) = 1 /\ Copies(x)' = 0
  BY <1>1 DEF Copies
<1>3. x \notin {c \in grace : Live(jail[c])}'
  OBVIOUS
<1>4. (x \in {c \in Container : ctr[c].desired = "UP"}')
        = (x \in {c \in Container : ctr[c].desired = "UP"})
  OBVIOUS
<1>5. A!Ended(x)
  BY <1>2, <1>3, <1>4, Seen DEF A!Ended, A!Kept
<1>6. Own(x)'
  BY DEF Own
<1> QED
  BY <1>5, <1>6 DEF Step

LEMMA ProcExitTells ==
  ASSUME TypeOK, NEW c \in Container, ProcExit(c), NEW x \in Container
  PROVE  Quiet(x) \/ Cleared(x)
<1>1. /\ ctr[c] \in Entries /\ jail[c].st = "dead" /\ jail'[c] = NoJail /\ left' = left
      /\ grace' = grace \ {c} /\ \A y \in Container \ {c} : jail'[y] = jail[y]
  BY DEF ProcExit, TypeOK
<1>2. PICK n : ctr' = [ctr EXCEPT ![c] = n] /\ ~n.pid
  <2>1. CASE ctr' = [ctr EXCEPT ![c] = NoEntry]
    <3>1. ~NoEntry.pid
      BY DEF NoEntry
    <3> QED
      BY <2>1, <3>1
  <2>2. ASSUME NEW stable \in BOOLEAN, ctr' = [ctr EXCEPT ![c] = AfterExit(Exited(ctr[c]), stable)]
        PROVE  \E n : ctr' = [ctr EXCEPT ![c] = n] /\ ~n.pid
    <3> DEFINE e == Exited(ctr[c])
    <3>1. e \in Entries /\ e.known = ctr[c].known /\ ~e.pid /\ e.desired = ctr[c].desired
          /\ e.cfg = ctr[c].cfg /\ e.crash = ctr[c].crash
      BY <1>1, ExitedFacts
    <3>2. ctr' = [ctr EXCEPT ![c] = AfterExit(e, stable)]
      BY <2>2
    <3> HIDE DEF e
    <3>3. ~AfterExit(e, stable).pid
      BY <1>1, <3>1, AfterExitFacts
    <3> QED
      BY <3>2, <3>3
  <2> QED
    BY <2>1, <2>2 DEF ProcExit
<1>3. CASE x = c
  BY <1>1, <1>2, <1>3 DEF Cleared, Live, NoJail, TypeOK
<1>4. CASE x # c
  BY <1>1, <1>2, <1>4, SameIsQuiet DEF TypeOK
<1> QED
  BY <1>3, <1>4

LEMMA AdoptWatchdogTells ==
  ASSUME TypeOK, AdoptWatchdog, NEW x \in Container, Own(x)
  PROVE  Quiet(x) \/ Cleared(x)
<1>1. PICK stable \in SUBSET Gone :
        ctr' = [c \in Container |->
                  IF c \in Gone
                  THEN AfterExit([Exited(ctr[c]) EXCEPT !.adopted = FALSE], c \in stable)
                  ELSE ctr[c]]
  BY DEF AdoptWatchdog
<1>2. /\ jail' = [c \in Container |-> IF c \in Gone THEN NoJail ELSE jail[c]]
      /\ grace' = grace \ Gone /\ left' = left
  BY DEF AdoptWatchdog
<1>3. CASE x \notin Gone
  BY <1>1, <1>2, <1>3, SameIsQuiet
<1>4. CASE x \in Gone
  <2> DEFINE e == [Exited(ctr[x]) EXCEPT !.adopted = FALSE]
             s == x \in stable
  <2>1. ctr[x] \in Entries /\ s \in BOOLEAN
    BY DEF TypeOK
  <2>2. ctr'[x] = AfterExit(e, s) /\ jail'[x] = NoJail
    BY <1>1, <1>2, <1>4
  <2>3. e \in Entries /\ e.known = ctr[x].known /\ ~e.pid /\ e.desired = ctr[x].desired
        /\ e.cfg = ctr[x].cfg /\ e.crash = ctr[x].crash
    BY <2>1, ExitedFacts
  <2>4. ~Live(jail[x])
    BY <1>4 DEF Gone, CgroupAlive, Own, Live
  <2>5. x \notin grace' /\ ~Live(jail'[x]) /\ left'[x] = left[x]
    BY <1>2, <1>4, <2>2 DEF Live, NoJail
  <2> HIDE DEF e, s
  <2>6. ~ctr'[x].pid
    BY <2>1, <2>2, <2>3, AfterExitFacts
  <2> QED
    BY <2>4, <2>5, <2>6 DEF Cleared
<1> QED
  BY <1>3, <1>4

LEMMA GraceTells ==
  ASSUME TypeOK, AllFine, Alive, CleanDeaths, NEW c \in Container, GraceFires(c),
         NEW x \in Container, Own(x)
  PROVE  Step(x) /\ Own(x)'
<1>1. /\ ctr' = ctr /\ grace' = grace \ {c} /\ jail[c] \in Jails
      /\ jail' = [jail EXCEPT ![c].st = IF Live(jail[c]) THEN "dead" ELSE @]
      /\ left' = [left EXCEPT ![c] = IF @.st = "up" THEN NoJail ELSE @]
  BY DEF GraceFires, TypeOK
<1>2. left'[x] = left[x]
  BY <1>1 DEF AllFine, Fine, TypeOK
<1>3. CASE x # c
  BY <1>1, <1>2, <1>3, SameIsQuiet, QuietIsTold DEF TypeOK
<1>4. CASE x = c /\ Live(jail[c])
  <2>1. jail'[c] = [jail[c] EXCEPT !.st = "dead"]
    BY <1>1, <1>4 DEF TypeOK
  <2>2. jail'[c].st = "dead"
    BY <1>1, <2>1 DEF Jails
  <2> QED
    BY <1>1, <1>2, <1>4, <2>2, EndIsEnded DEF Live
<1>5. CASE x = c /\ ~Live(jail[c])
  <2>1. jail'[x] = jail[x]
    <3>1. jail'[c] = [jail[c] EXCEPT !.st = @]
      BY <1>1, <1>5 DEF TypeOK
    <3>2. [jail[c] EXCEPT !.st = @] = jail[c]
      BY <1>1 DEF Jails
    <3> QED
      BY <1>5, <3>1, <3>2
  <2>2. Copies(x)' = Copies(x) /\ ~Live(jail[x]) /\ ~Live(jail'[x])
    BY <1>2, <1>5, <2>1 DEF Copies
  <2>3. /\ x \notin {y \in grace : Live(jail[y])}
        /\ x \notin {y \in grace : Live(jail[y])}'
        /\ (x \in {y \in Container : ctr[y].desired = "UP"}')
             = (x \in {y \in Container : ctr[y].desired = "UP"})
    BY <1>1, <2>2
  <2>4. A!Rests(x)
    BY <2>2, <2>3, Seen DEF A!Rests, A!Kept
  <2>5. Own(x)'
    BY <1>1, <1>5, <2>1 DEF Own
  <2> QED
    BY <2>4, <2>5 DEF Step
<1> QED
  BY <1>3, <1>4, <1>5

LEMMA CallbackTells ==
  ASSUME TypeOK, AllFine, Alive, CleanDeaths, Callback, NEW x \in Container, Own(x)
  PROVE  Step(x) /\ Own(x)'
<1>1. ASSUME NEW c \in Container, RelaunchFires(c) PROVE Quiet(x)
  <2>1. Gentle /\ ctr[c] \in Entries
    BY <1>1, NothingIsGentle DEF RelaunchFires, world, TypeOK
  <2> QED
    BY <1>1, <2>1, EnterQuiet, SameEntriesQuiet DEF RelaunchFires
<1>2. ASSUME NEW c \in Container, HealthVerdict(c) PROVE Quiet(x)
  <2>1. Gentle /\ ctr[c] \in Entries
    BY <1>2, NothingIsGentle, SignalIsGentle DEF HealthVerdict, TypeOK
  <2>2. PICK h \in {"healthy", "unhealthy", "unknown"} : ctr' = [ctr EXCEPT ![c].health = h]
    BY <1>2 DEF HealthVerdict
  <2> DEFINE n == [ctr[c] EXCEPT !.health = h]
  <2>3. n.pid = ctr[c].pid /\ n.adopted = ctr[c].adopted /\ n.desired = ctr[c].desired
    BY <2>1 DEF Entries
  <2>4. ctr' = [ctr EXCEPT ![c] = n]
    BY <2>2
  <2> HIDE DEF n
  <2> QED
    BY <2>1, <2>3, <2>4, OneQuiet
<1> QED
  BY <1>1, <1>2, ProcExitTells, GraceTells, QuietIsTold, ClearedIsTold DEF Callback

LEMMA WatchdogTells ==
  ASSUME TypeOK, AllFine, Alive, CleanDeaths, Watchdog, NEW x \in Container, Own(x)
  PROVE  Step(x) /\ Own(x)'
<1>1. ASSUME InfraWatchdog PROVE Quiet(x)
  <2>1. ASSUME NEW y \in Container PROVE jail'[y].st = jail[y].st
    <3>1. jail[y] \in Jails /\ (jail'[y] = jail[y] \/ jail'[y] = [jail[y] EXCEPT !.term = TRUE])
      BY <1>1 DEF InfraWatchdog, TypeOK
    <3> QED
      BY <3>1 DEF Jails
  <2> QED
    BY <1>1, <2>1, SameEntriesQuiet DEF Gentle, InfraWatchdog
<1> QED
  BY <1>1, AdoptWatchdogTells, QuietIsTold, ClearedIsTold DEF Watchdog

LEMMA BootLoopQuiet ==
  ASSUME TypeOK, AllFine, BootEnds \/ \E c \in Container : BootVisits(c)
  PROVE  \A x \in Container : Quiet(x)
<1>1. Gentle
  BY NothingIsGentle DEF BootEnds, BootVisits, world
<1> QED
  BY <1>1, StartQuiet, SameEntriesQuiet DEF BootEnds, BootVisits

\* The jails and netifd beside a daemon.
LEMMA WorldTells ==
  ASSUME TypeOK, AllFine, Alive, CleanDeaths, World, NEW x \in Container, Own(x)
  PROVE  Step(x) /\ Own(x)'
<1>1. ASSUME NEW c \in Container, JailStarts(c) PROVE Quiet(x)
  <2>1. /\ ctr' = ctr /\ left' = left /\ grace' = grace /\ jail[c] \in Jails
        /\ jail[c].st = "starting" /\ jail'[c] = [jail[c] EXCEPT !.st = "up"]
        /\ \A y \in Container \ {c} : jail'[y] = jail[y]
    BY <1>1 DEF JailStarts, TypeOK
  <2>2. jail'[c].st = "up"
    BY <2>1 DEF Jails
  <2>3. CASE x # c
    BY <2>1, <2>3, SameIsQuiet
  <2>4. CASE x = c
    <3>1. Live(jail[x]) /\ Live(jail'[x])
      BY <2>1, <2>2, <2>4 DEF Live
    <3> QED
      BY <2>1, <2>2, <2>4, <3>1 DEF Quiet
  <2> QED
    BY <2>3, <2>4
<1>2. ASSUME NEW c \in Container, JailExits(c) PROVE Step(x) /\ Own(x)'
  <2>1. ctr' = ctr /\ left' = left /\ grace' = grace /\ Live(jail[c]) /\ jail[c] \in Jails
    BY <1>2 DEF JailExits, MayExit, TypeOK
  <2>2. /\ jail'[c] = NoJail \/ jail'[c] = [jail[c] EXCEPT !.st = "dead"]
        /\ \A y \in Container \ {c} : jail'[y] = jail[y]
    BY <1>2 DEF JailExits, TypeOK
  <2>3. jail'[c].st \in {"none", "dead"}
    BY <2>1, <2>2 DEF Jails, NoJail
  <2>4. CASE x = c
    BY <2>1, <2>3, <2>4, EndIsEnded DEF Live
  <2>5. CASE x # c
    BY <2>1, <2>2, <2>5, SameIsQuiet, QuietIsTold
  <2> QED
    BY <2>4, <2>5
<1>3. ASSUME NEW c \in Container, LeftStarts(c) \/ LeftExits(c) PROVE FALSE
  BY <1>3 DEF LeftStarts, LeftExits, MayExit, Live, AllFine, Fine, NoJail
<1>4. ASSUME NEW c \in Container, DepWindowPasses(c) \/ InfraWindowPasses(c) PROVE Quiet(x)
  <2>1. Gentle /\ ctr[c] \in Entries
    BY <1>4, NothingIsGentle DEF DepWindowPasses, InfraWindowPasses, world, TypeOK
  <2>2. PICK n : /\ ctr' = [ctr EXCEPT ![c] = n] /\ n.pid = ctr[c].pid
                 /\ n.adopted = ctr[c].adopted /\ n.desired = ctr[c].desired
    <3> DEFINE n == [ctr[c] EXCEPT !.dep_wait = "expired"]
               m == [ctr[c] EXCEPT !.infra_wait = "expired"]
    <3>1. n.pid = ctr[c].pid /\ n.adopted = ctr[c].adopted /\ n.desired = ctr[c].desired
      BY <2>1 DEF Entries
    <3>2. m.pid = ctr[c].pid /\ m.adopted = ctr[c].adopted /\ m.desired = ctr[c].desired
      BY <2>1 DEF Entries
    <3>3. ctr' = [ctr EXCEPT ![c] = n] \/ ctr' = [ctr EXCEPT ![c] = m]
      BY <1>4 DEF DepWindowPasses, InfraWindowPasses
    <3> HIDE DEF n, m
    <3> QED
      BY <3>1, <3>2, <3>3
  <2> QED
    BY <2>1, <2>2, OneQuiet
<1>5. ASSUME NEW i \in Infra, NetnsDown(i) \/ NetnsUp(i) PROVE Quiet(x)
  <2>1. ctr' = ctr /\ left' = left /\ grace' = grace
    BY <1>5 DEF NetnsDown, NetnsUp
  <2>2. ASSUME NEW y \in Container PROVE jail'[y].st = jail[y].st
    <3>1. jail[y] \in Jails /\ (jail'[y] = jail[y] \/ jail'[y] = [jail[y] EXCEPT !.net = "orphan"])
      BY <1>5 DEF NetnsDown, NetnsUp, TypeOK
    <3> QED
      BY <3>1 DEF Jails
  <2> QED
    BY <2>1, <2>2, SameEntriesQuiet DEF Gentle
<1> QED
  BY <1>1, <1>2, <1>3, <1>4, <1>5, QuietIsTold DEF World

\* With no daemon there is no timer and nothing is wanted; a jail may end.
LEMMA WorldRests ==
  ASSUME TypeOK, DownFine, CleanDeaths, World, NEW x \in Container, Own(x)
  PROVE  Step(x) /\ Own(x)'
<1>1. /\ \A c \in Container : ~ctr[c].pid /\ ~ctr[c].adopted /\ ctr[c].dep_wait = "none"
                              /\ ctr[c].infra_wait = "none"
      /\ \A c \in Container : left[c] = NoJail /\ jail[c].st # "starting"
      /\ NoJail.st = "none"
  <2>1. \A c \in Container : ~ctr[c].pid /\ ~ctr[c].adopted /\ ctr[c].dep_wait = "none"
                            /\ ctr[c].infra_wait = "none"
    BY DEF DownFine, NoEntry
  <2>2. \A c \in Container : left[c] = NoJail /\ jail[c].st # "starting"
    BY DEF DownFine
  <2> QED
    BY <2>1, <2>2 DEF NoJail
<1>2. UNCHANGED <<ctr, grace>>
  BY <1>1 DEF World, JailStarts, JailExits, LeftStarts, LeftExits, DepWindowPasses,
              InfraWindowPasses, NetnsDown, NetnsUp
<1>3. /\ jail'[x] \in {jail[x], NoJail, [jail[x] EXCEPT !.net = "orphan"]}
      /\ left'[x] = NoJail
  BY <1>1 DEF World, JailStarts, JailExits, LeftStarts, LeftExits, DepWindowPasses,
              InfraWindowPasses, NetnsDown, NetnsUp, world, TypeOK
<1>4. jail[x] \in Jails
  BY DEF TypeOK
<1>5. jail'[x].st \in {jail[x].st, "none"}
  BY <1>1, <1>3, <1>4 DEF Jails
<1>6. x \notin grace /\ x \notin grace' /\ Own(x)'
  BY <1>1, <1>2 DEF Own
<1>7. (x \in {c \in Container : ctr[c].desired = "UP"}')
        = (x \in {c \in Container : ctr[c].desired = "UP"})
  BY <1>2
<1>8. CASE jail'[x].st = jail[x].st
  <2>1. Copies(x)' = Copies(x)
    BY <1>1, <1>3, <1>8 DEF Copies, Live
  <2>2. /\ x \notin {y \in grace : Live(jail[y])}
        /\ x \notin {y \in grace : Live(jail[y])}'
    BY <1>6
  <2>3. A!Rests(x)
    BY <1>7, <2>1, <2>2, Seen DEF A!Rests, A!Kept
  <2> QED
    BY <1>6, <2>3 DEF Step
<1>9. CASE Live(jail[x]) /\ jail'[x].st = "none"
  <2>1. Copies(x) = 1 /\ Copies(x)' = 0
    BY <1>1, <1>3, <1>9 DEF Copies, Live
  <2>2. x \notin {y \in grace : Live(jail[y])}'
    BY <1>6
  <2>3. A!Ended(x)
    BY <1>7, <2>1, <2>2, Seen DEF A!Ended, A!Kept
  <2> QED
    BY <1>6, <2>3 DEF Step
<1>10. CASE ~Live(jail[x]) /\ jail'[x].st = "none"
  <2>1. Copies(x)' = Copies(x)
    BY <1>1, <1>3, <1>10 DEF Copies, Live
  <2>2. /\ x \notin {y \in grace : Live(jail[y])}
        /\ x \notin {y \in grace : Live(jail[y])}'
    BY <1>6
  <2>3. A!Rests(x)
    BY <1>7, <2>1, <2>2, Seen DEF A!Rests, A!Kept
  <2> QED
    BY <1>6, <2>3 DEF Step
<1> QED
  BY <1>5, <1>8, <1>9, <1>10

LEMMA DeathIsDies ==
  ASSUME TypeOK, AllFine, Alive, CleanDeaths, DaemonDies
  PROVE  A!Dies /\ \A x \in Container : Own(x)'
<1>1. /\ daemon' = "down" /\ grace' = {} /\ left' = left
      /\ ctr' = [c \in Container |-> NoEntry]
      /\ jail' = [c \in Container |-> Orphaned(jail[c])]
  BY DEF DaemonDies
<1>2. \A x \in Container : ~ctr'[x].pid /\ ~ctr'[x].adopted /\ ctr'[x].desired = "DOWN"
  BY <1>1 DEF NoEntry
<1>3. \A x \in Container : Live(jail'[x]) <=> Live(jail[x])
  BY <1>1 DEF Orphaned, Live, NoJail
<1>4. [c \in Container |-> Copies(c)]' = [c \in Container |-> Copies(c)]
  BY <1>1, <1>3 DEF Copies
<1>5. {c \in Container : ctr[c].desired = "UP"}' = {}
  BY <1>2
<1>6. {c \in grace : Live(jail[c])}' = {}
  BY <1>1
<1>7. A!Dies
  BY <1>1, <1>4, <1>5, <1>6 DEF A!Dies, Alive
<1> QED
  BY <1>1, <1>2, <1>7 DEF Own

\* Every jail that runs is found, and no other.
LEMMA BootIsReturns ==
  ASSUME TypeOK, DownFine, CleanDeaths, DaemonBoots, \A x \in Container : Own(x)
  PROVE  A!Returns /\ \A x \in Container : Own(x)'
<1>1. /\ daemon = "down" /\ daemon' = "boot" /\ grace' = grace
      /\ ctr' = [c \in Container |-> IF Adoptable(c) THEN AdoptedEntry(c)
                                     ELSE IF Registered(c)
                                     THEN [NoEntry EXCEPT !.known = TRUE, !.cfg = reg[c]]
                                     ELSE NoEntry]
      /\ left' = [c \in Container |-> IF ~Adoptable(c) /\ Live(jail[c])
                                      THEN jail[c] ELSE left[c]]
      /\ jail' = [c \in Container |-> IF Adoptable(c) THEN jail[c] ELSE NoJail]
  BY DEF DaemonBoots
<1>2. grace \cap Container = {} /\ grace \subseteq Container
  BY DEF Own, DownFine, NoEntry, TypeOK
<1>3. \A x \in Container : left[x].st = "none" /\ (Live(jail[x]) <=> Adoptable(x))
  BY DEF DownFine, NoJail, Live, Adoptable
<1>4. ASSUME NEW x \in Container, Adoptable(x)
      PROVE  /\ ctr'[x].desired = "UP" /\ Live(jail'[x]) /\ jail'[x].st # "starting"
             /\ Copies(x) = 1 /\ Copies(x)' = 1
  <2>1. ctr'[x] = AdoptedEntry(x) /\ jail'[x] = jail[x] /\ left'[x] = left[x]
    BY <1>1, <1>4
  <2>2. AdoptedEntry(x).desired = "UP"
    BY DEF AdoptedEntry, NoEntry
  <2> QED
    BY <1>3, <1>4, <2>1, <2>2 DEF Copies, Live, Adoptable
<1>5. ASSUME NEW x \in Container, ~Adoptable(x)
      PROVE  /\ ctr'[x].desired = "DOWN" /\ ~ctr'[x].pid
             /\ Copies(x) = 0 /\ Copies(x)' = 0
  <2>1. ctr'[x].desired = "DOWN" /\ ~ctr'[x].pid
    BY <1>1, <1>5 DEF NoEntry
  <2>2. jail'[x] = NoJail /\ left'[x] = left[x]
    BY <1>1, <1>3, <1>5
  <2> QED
    BY <1>3, <1>5, <2>1, <2>2 DEF Copies, Live, NoJail
<1>6. \A x \in Container : Copies(x)' = Copies(x)
  BY <1>4, <1>5
<1>7. [c \in Container |-> Copies(c)]' = [c \in Container |-> Copies(c)]
  BY <1>6
<1>8. {c \in Container : ctr[c].desired = "UP"}'
        = {c \in Container : [d \in Container |-> Copies(d)][c] > 0}
  BY <1>4, <1>5
<1>9. /\ {c \in grace : Live(jail[c])} = {}
      /\ {c \in grace : Live(jail[c])}' = {}
  BY <1>1, <1>2
<1>10. A!Returns
  BY <1>1, <1>7, <1>8, <1>9 DEF A!Returns
<1>11. ASSUME NEW x \in Container PROVE Own(x)'
  BY <1>1, <1>2, <1>4, <1>5 DEF Own
<1> QED
  BY <1>10, <1>11

Owned == \A x \in Container : Own(x)

\* Every step of the supervisor is one of module Supervision, or none.
LEMMA SupervisionStep ==
  ASSUME CleanDeaths, IInv, Owned, [Next]_vars
  PROVE  [A!Next]_(A!vars) /\ Owned'
<1>1. CASE UNCHANGED vars
  <2>1. UNCHANGED <<daemon, ctr, grace, jail, left>>
    BY <1>1 DEF vars
  <2>2. [c \in Container |-> Copies(c)]' = [c \in Container |-> Copies(c)]
    BY <2>1 DEF Copies
  <2>3. UNCHANGED A!vars
    BY <2>1, <2>2 DEF A!vars
  <2> QED
    BY <2>1, <2>3 DEF Owned, Own
<1>2. ASSUME daemon' # "down" <=> daemon # "down", \A x \in Container : Step(x) /\ Own(x)'
      PROVE  A!Next /\ Owned'
  <2>1. A!Serves
    BY <1>2 DEF A!Serves, Step
  <2> QED
    BY <1>2, <2>1 DEF A!Next, Owned
<1>3. CASE Next /\ daemon = "down"
  <2>1. DownFine /\ TypeOK
    BY <1>3, DownOfInv DEF IInv
  <2>2. CASE World
    <3>1. \A x \in Container : Step(x) /\ Own(x)'
      BY <2>1, <2>2, WorldRests DEF Owned
    <3>2. daemon' = daemon
      BY <2>2 DEF World, JailStarts, JailExits, LeftStarts, LeftExits, DepWindowPasses,
                  InfraWindowPasses, NetnsDown, NetnsUp
    <3> QED
      BY <1>2, <3>1, <3>2
  <2>3. CASE DaemonBoots
    BY <2>1, <2>3, BootIsReturns DEF Owned, A!Next
  <2> QED
    BY <1>3, <2>1, <2>2, <2>3
       DEF Next, Command, Errand, Start, Stop, Restart, Rollback, ScheduleFires, UpgradeRestarts,
           WatchRestarts, Remove, Create, SetConfig, JobRegisters,
           Rename, LaunchStep, LaunchNextDep, LaunchBreaksCycle, LaunchPullsDep, LaunchDefers,
           LaunchLacksMount, LaunchLacksInfra, LaunchLacksBundle, LaunchCannotFork, LaunchForks,
           AtDep, AtEnd, Callback, RelaunchFires, ProcExit, GraceFires, HealthVerdict,
           Watchdog, AdoptWatchdog, InfraWatchdog, Life, DaemonDies, BootEnds, BootVisits,
           Idle, DownFine
<1>4. CASE Next /\ Alive
  <2>1. AllFine /\ TypeOK
    BY <1>4, FineOfInv DEF IInv
  <2>2. CASE DaemonDies
    BY <1>4, <2>1, <2>2, DeathIsDies DEF Owned, A!Next
  <2>3. CASE ~DaemonDies
    <3>1. ASSUME NEW x \in Container PROVE Step(x) /\ Own(x)'
      <4>1. Own(x)
        BY DEF Owned
      <4>2. CASE Request \/ BootEnds \/ \E c \in Container : BootVisits(c)
        BY <1>4, <2>1, <4>1, <4>2, RequestQuiet, BootLoopQuiet, QuietIsTold
      <4>3. CASE LaunchStep
        BY <1>4, <2>1, <4>1, <4>3, LaunchQuiet, ForkIsLaunched, QuietIsTold DEF Owned
      <4>4. CASE Callback
        BY <1>4, <2>1, <4>1, <4>4, CallbackTells
      <4>5. CASE Watchdog
        BY <1>4, <2>1, <4>1, <4>5, WatchdogTells
      <4>6. CASE World
        BY <1>4, <2>1, <4>1, <4>6, WorldTells
      <4> QED
        BY <1>4, <2>3, <4>2, <4>3, <4>4, <4>5, <4>6 DEF Next, Request, Life, DaemonBoots, Alive
    <3>2. daemon' = daemon \/ daemon' = "up"
      BY <1>4, <2>3
         DEF Next, Command, Errand, Start, Stop, Restart, Rollback, ScheduleFires, UpgradeRestarts,
             WatchRestarts, Remove, Create, SetConfig, JobRegisters,
             Rename, LaunchStep, LaunchNextDep, LaunchBreaksCycle, LaunchPullsDep, LaunchDefers,
             LaunchLacksMount, LaunchLacksInfra, LaunchLacksBundle, LaunchCannotFork, LaunchForks,
             Callback, RelaunchFires, ProcExit, GraceFires, HealthVerdict,
             Watchdog, AdoptWatchdog, InfraWatchdog, Life, DaemonBoots, BootEnds, BootVisits,
             World, JailStarts, JailExits, LeftStarts, LeftExits, DepWindowPasses,
             InfraWindowPasses, NetnsDown, NetnsUp, Alive
    <3> QED
      BY <1>2, <1>4, <3>1, <3>2 DEF Alive
  <2> QED
    BY <2>2, <2>3
<1> QED
  BY <1>1, <1>3, <1>4 DEF Alive

LEMMA SupervisionInit == Init => A!Init /\ Owned
<1> SUFFICES ASSUME Init PROVE A!Init /\ Owned
  OBVIOUS
<1>1. /\ daemon = "down" /\ grace = {}
      /\ \A c \in Container : ctr[c] = NoEntry /\ jail[c] = NoJail /\ left[c] = NoJail
  BY DEF Init
<1>2. \A c \in Container : ctr[c].desired = "DOWN" /\ ~ctr[c].pid /\ ~ctr[c].adopted
  BY <1>1 DEF NoEntry
<1>3. \A c \in Container : Copies(c) = 0
  BY <1>1 DEF Copies, Live, NoJail
<1>4. [c \in Container |-> Copies(c)] = [c \in Container |-> 0]
  BY <1>3
<1>5. {c \in Container : ctr[c].desired = "UP"} = {} /\ {c \in grace : Live(jail[c])} = {}
  BY <1>1, <1>2
<1> QED
  BY <1>1, <1>2, <1>4, <1>5 DEF A!Init, Owned, Own

\* Where the daemon leaves no jail behind, the supervisor implements module Supervision:
\* whatever its timers, dependencies, networks and restarts do, a container is launched
\* only while it is wanted and nothing of its name runs, one that is told to stop while
\* it runs is killed if it does not go, and a new daemon wants what it finds running.
THEOREM SupervisionIsImplemented == CleanDeaths /\ Spec => ImplementsSupervision
<1>1. CASE CleanDeaths
  <2>1. Init => A!Init /\ Owned
    BY SupervisionInit
  <2>2. IInv /\ Owned /\ [Next]_vars => [A!Next]_(A!vars) /\ Owned'
    BY <1>1, SupervisionStep
  <2> QED
    BY <2>1, <2>2, Inductive, PTL DEF Spec, ImplementsSupervision, A!Spec
<1>2. CASE ~CleanDeaths
  BY <1>2
<1> QED
  BY <1>1, <1>2
=============================================================================
