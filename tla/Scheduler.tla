----------------------------- MODULE Scheduler -----------------------------
(***************************************************************************)
(* run_scheduler: the cron rules of the containers and of the daily update *)
(* check, looked at by a timer that fires half a minute after its last     *)
(* call ended, or later when the daemon is busy.  Time is in ticks, of     *)
(* which TicksPerMinute make a minute; the calendar says what localtime    *)
(* makes of each minute.                                                   *)
(*                                                                         *)
(* A container here only runs or does not: Supervisor has the rest of what *)
(* a scheduled start, stop or restart sets off.  What matters is that a    *)
(* launch reads the container's rules anew in the middle of the poll.      *)
(***************************************************************************)
EXTENDS Integers, Sequences, FiniteSets

CONSTANTS
  Name,
  Files,            \* the rules the registry may hold: functions from Name
  Offered,          \* the rules a user may configure
  CheckCron,        \* settings.update_check_cron
  Calendars,        \* sequences of local times, one per minute
  TicksPerMinute,
  PollTicks,        \* SCHED_POLL_MS
  MaxLate,          \* how long the daemon may be busy when the timer is due
  Edits, Deaths     \* bounds

\* A cron is a sequence of fields, a field a sequence of tokens, whose numbers are
\* those atoi() reads; a rule may name any action.  A step of 0 stands for none: where
\* one below 1 is written it is negative here.  An empty token is a range of nothing.
Tokens == [star : BOOLEAN, a : Int, b : Int, step : Int]
CronExprs == Seq(Seq(Tokens))
Schedules == [action : STRING, cron : CronExprs, enabled : BOOLEAN]
LocalTimes == [min : 0 .. 59, hour : 0 .. 23, mday : 1 .. 31, mon : 1 .. 12, wday : 0 .. 6]

ASSUME SchedulerAssumption ==
  /\ Files \subseteq [Name -> SUBSET Schedules] /\ Offered \subseteq Schedules
  /\ CheckCron \in CronExprs
  /\ Calendars \subseteq Seq(LocalTimes) \ {<<>>}
  /\ TicksPerMinute \in Nat \ {0} /\ PollTicks \in Nat \ {0} /\ MaxLate \in Nat
  /\ PollTicks + MaxLate <= TicksPerMinute
  /\ Edits \in Nat /\ Deaths \in Nat

VARIABLES
  cal, now,
  up,         \* the daemon runs
  poll,       \* when its timer is due
  file,       \* the schedules in the registry files
  rules,      \* c.schedules of each container
  fired,      \* schedule_last_fired and update_cron_fired: a minute, 0 for never
  running,    \* the containers that run
  checking,   \* update_check_running
  quota,
  acted,      \* how often each rule was acted on in this minute of this daemon's life
  whole       \* the rules that were loaded for all of this minute so far

vars == <<cal, now, up, poll, file, rules, fired, running, checking, quota, acted, whole>>

-----------------------------------------------------------------------------
(* Cron expressions.                                                       *)

Token(a, b, s) == [star |-> FALSE, a |-> a, b |-> b, step |-> s]
Every(s) == [star |-> TRUE, a |-> 0, b |-> 0, step |-> s]

\* "*", as it is written: "*/1", "*/0" and "*," denote the same and are not it.
Wild == <<Every(0)>>

Hits(tok, v, lo, hi) ==
  LET a == IF tok.star THEN lo ELSE tok.a
      b == IF tok.star THEN hi ELSE tok.b
      step == IF tok.step < 1 THEN 1 ELSE tok.step
  IN a <= v /\ v <= b /\ (v - a) % step = 0

CronField(f, v, lo, hi) == \E i \in DOMAIN f : Hits(f[i], v, lo, hi)

CronMatch(cron, t) ==
  /\ Len(cron) = 5
  /\ CronField(cron[1], t.min, 0, 59)
  /\ CronField(cron[2], t.hour, 0, 23)
  /\ CronField(cron[4], t.mon, 1, 12)
  /\ LET dom == CronField(cron[3], t.mday, 1, 31)
         dow == CronField(cron[5], t.wday, 0, 7)
                  \/ (t.wday = 0 /\ CronField(cron[5], 7, 0, 7))
     IN IF cron[3] # Wild /\ cron[5] # Wild THEN dom \/ dow ELSE dom /\ dow

-----------------------------------------------------------------------------
Actions == {"restart", "stop", "start"}

NoCron == <<>>

\* Mutant: the action is not looked at.
LoadedAll(es) == {e \in es : e.cron # NoCron}

\* apply_config keeps the entries that have a cron and a known action.
Loaded(es) == {e \in es : e.cron # NoCron /\ e.action \in Actions}

\* name|action|cron.
Key(n, e) == <<n, e.action, e.cron>>
CheckKey == <<"", "update_check", CheckCron>>

\* The rules a file may come to hold.
Written == Offered \cup UNION {f[m] : f \in Files, m \in Name}

Keys == {Key(n, e) : n \in Name, e \in Written} \cup {CheckKey}

\* The daemon's own check counts as a rule that is always loaded.
Enabled(rs) ==
  {CheckKey} \cup UNION {{Key(n, e) : e \in {x \in rs[n] : x.enabled}} : n \in Name}

Minute(t) == 1 + t \div TicksPerMinute

Local == cal[Minute(now)]

Spend(k) == quota[k] > 0 /\ quota' = [quota EXCEPT ![k] = @ - 1]

\* What a change of the rules leaves of the rules loaded for all of the minute.
StillWhole == whole' = whole \cap Enabled(rules')

-----------------------------------------------------------------------------
\* What is due: not yet fired in this minute, and its cron matches.
Due == {k \in Enabled(rules) : fired[k] # Minute(now) /\ CronMatch(k[3], Local)}

\* Mutant: the fire times are kept with the rules and go when these are read again.
RememberedWith(due, launched) ==
  [k \in Keys |-> IF k[1] \in launched THEN 0
                  ELSE IF k \in due THEN Minute(now) ELSE fired[k]]

Remembered(due, launched) ==
  [k \in Keys |-> IF k \in due THEN Minute(now) ELSE fired[k]]

\* A due start or restart launches what does not run, and a launch reads the rules.
Poll ==
  /\ up /\ now >= poll
  /\ poll' = now + PollTicks
  /\ \E launched \in SUBSET {k[1] : k \in {x \in Due : x[2] \in {"start", "restart"}}} :
       /\ launched \cap running = {}
       /\ running' = running \cup launched
       /\ rules' = [n \in Name |-> IF n \in launched THEN Loaded(file[n]) ELSE rules[n]]
       /\ fired' = Remembered(Due, launched)
  /\ checking' = (checking \/ CheckKey \in Due)
  /\ acted' = [k \in Keys |-> IF k \in Due THEN acted[k] + 1 ELSE acted[k]]
  /\ StillWhole
  /\ UNCHANGED <<cal, now, up, file, quota>>

CheckEnds ==
  /\ checking /\ checking' = FALSE
  /\ UNCHANGED <<cal, now, up, poll, file, rules, fired, running, quota, acted, whole>>

-----------------------------------------------------------------------------
\* A container exits, is stopped, or is launched by a user or the supervision.
Exits(n) ==
  /\ n \in running
  /\ running' = running \ {n}
  /\ UNCHANGED <<cal, now, up, poll, file, rules, fired, checking, quota, acted, whole>>

Launched(n) ==
  /\ up /\ n \notin running
  /\ running' = running \cup {n}
  /\ rules' = [rules EXCEPT ![n] = Loaded(file[n])]
  /\ StillWhole
  /\ UNCHANGED <<cal, now, up, poll, file, fired, checking, quota, acted>>

\* setconfig reads the rules again at once ...
Configure(n, es) ==
  /\ up /\ Spend("edits")
  /\ file' = [file EXCEPT ![n] = es]
  /\ rules' = [rules EXCEPT ![n] = Loaded(es)]
  /\ StillWhole
  /\ UNCHANGED <<cal, now, up, poll, fired, running, checking, acted>>

\* ... a file edited by hand or by the command line is read at the next launch.
EditFile(n, es) ==
  /\ Spend("edits")
  /\ file' = [file EXCEPT ![n] = es]
  /\ UNCHANGED <<cal, now, up, poll, rules, fired, running, checking, acted, whole>>

DaemonDies ==
  /\ up /\ Spend("deaths")
  /\ up' = FALSE /\ checking' = FALSE
  /\ rules' = [n \in Name |-> {}]
  /\ fired' = [k \in Keys |-> 0]
  /\ acted' = [k \in Keys |-> 0] /\ whole' = {}
  /\ UNCHANGED <<cal, now, poll, file, running>>

\* init() loads every container and start_scheduler() arms the timer.
DaemonBoots ==
  /\ ~up /\ up' = TRUE
  /\ rules' = [n \in Name |-> Loaded(file[n])]
  /\ poll' = now + PollTicks
  /\ UNCHANGED <<cal, now, file, fired, running, checking, quota, acted, whole>>

\* Time passes, but for a daemon that is late with its timer by MaxLate already.
Tick ==
  /\ now + 1 < Len(cal) * TicksPerMinute
  /\ up => now < poll + MaxLate
  /\ now' = now + 1
  /\ IF Minute(now') = Minute(now) THEN UNCHANGED <<acted, whole>>
     ELSE /\ acted' = [k \in Keys |-> 0]
          /\ whole' = IF up THEN Enabled(rules) ELSE {}
  /\ UNCHANGED <<cal, up, poll, file, rules, fired, running, checking, quota>>

Init ==
  /\ cal \in Calendars /\ now = 0
  /\ file \in Files /\ running \in SUBSET Name
  /\ up = TRUE /\ poll = PollTicks
  /\ rules = [n \in Name |-> Loaded(file[n])]
  /\ fired = [k \in Keys |-> 0] /\ acted = [k \in Keys |-> 0]
  /\ whole = {}
  /\ checking = FALSE
  /\ quota = [edits |-> Edits, deaths |-> Deaths]

Next ==
  \/ Poll \/ CheckEnds \/ DaemonDies \/ DaemonBoots \/ Tick
  \/ \E n \in Name : \/ Exits(n) \/ Launched(n)
                     \/ \E es \in SUBSET Offered : Configure(n, es) \/ EditFile(n, es)

Spec == Init /\ [][Next]_vars
-----------------------------------------------------------------------------
(* Properties.  The meaning of a cron expression is stated a second time,  *)
(* as the set of values each field denotes.                                *)

Denoted(f, lo, hi) ==
  UNION {LET from == IF f[i].star THEN lo ELSE f[i].a
             to == IF f[i].star THEN hi ELSE f[i].b
             step == IF f[i].step < 1 THEN 1 ELSE f[i].step
         IN {from + step * k : k \in 0 .. hi - from} \cap (from .. to) \cap (lo .. hi)
         : i \in DOMAIN f}

\* Day 7 is Sunday as 0 is; with both days restricted either will do.
Meant(cron, t) ==
  /\ t.min \in Denoted(cron[1], 0, 59) /\ t.hour \in Denoted(cron[2], 0, 23)
  /\ t.mon \in Denoted(cron[4], 1, 12)
  /\ LET dom == t.mday \in Denoted(cron[3], 1, 31)
         dow == t.wday \in {d % 7 : d \in Denoted(cron[5], 0, 7)}
     IN IF Wild \in {cron[3], cron[5]} THEN dom /\ dow ELSE dom \/ dow

\* The rules that are loaded are those a file holds, without the ones that say nothing.
TypeOK ==
  /\ cal \in Calendars /\ now \in 0 .. Len(cal) * TicksPerMinute - 1
  /\ up \in BOOLEAN /\ poll \in Nat /\ checking \in BOOLEAN /\ running \subseteq Name
  /\ file \in [Name -> SUBSET Written]
  /\ rules \in [Name -> SUBSET {e \in Written : e.action \in Actions /\ e.cron # NoCron}]
  /\ fired \in [Keys -> 0 .. Minute(now)] /\ acted \in [Keys -> Nat]
  /\ whole \subseteq Keys
  /\ quota \in [{"edits", "deaths"} -> Nat]

\* "30s never misses a minute" (container.cpp:2253), and a restart it sets off, a
\* relaunch or an edit that reads the rules anew does not make a rule "double-fire within
\* its triggering minute": when a minute is over, a rule loaded for all of it was acted on
\* once if its cron means that minute, any other at most once and only if it does.  The
\* daemon is taken not to be busy for long enough to make two polls a minute apart.
RulesServed ==
  [][Minute(now') # Minute(now) =>
       \A k \in Keys :
         LET meant == Len(k[3]) = 5 /\ Meant(k[3], Local)
         IN /\ acted[k] \in IF meant THEN {0, 1} ELSE {0}
            /\ k \in whole /\ meant => acted[k] = 1]_vars
=============================================================================
