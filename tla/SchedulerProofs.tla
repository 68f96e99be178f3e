-------------------------- MODULE SchedulerProofs --------------------------
(***************************************************************************)
(* Scheduler is well typed, and whatever the calendar, the rules, the      *)
(* edits and the deaths of the daemon, every rule is served in the minutes *)
(* its cron means and in no other: the arithmetic of cron expressions, the *)
(* fire times, and the timer that is never a minute late.                  *)
(***************************************************************************)
EXTENDS Scheduler, SequenceTheorems, TLAPS

-----------------------------------------------------------------------------
(* Arithmetic.                                                             *)

\* Division with a remainder.
LEMMA Division ==
  ASSUME NEW n \in Nat, NEW s \in Nat \ {0}
  PROVE  /\ n \div s \in Nat /\ s * (n \div s) \in Nat
         /\ s * (n \div s) <= n /\ n < s * (n \div s) + s
         /\ n = s * (n \div s) + (n % s) /\ (n % s) \in 0 .. s - 1
<1>1. n = s * (n \div s) + (n % s)
  BY SMT
<1>2. (n % s) \in 0 .. s - 1
  BY SMT
<1>3. n \div s \in Nat
  BY SMT
<1>4. s * (n \div s) \in Nat
  BY <1>3, SMT
<1>5. QED
  BY <1>1, <1>2, <1>3, <1>4

\* Multiples of s are s apart.
LEMMA Multiples ==
  ASSUME NEW j \in Nat, NEW k \in Nat, NEW s \in Nat \ {0}, j < k
  PROVE  s * j + s <= s * k
BY SMT

\* A multiple leaves no remainder.
LEMMA NoRemainder == ASSUME NEW k \in Nat, NEW s \in Nat \ {0} PROVE (s * k) % s = 0
BY SMT

\* A factor is no greater than a product.
LEMMA Factor == ASSUME NEW k \in Nat, NEW s \in Nat \ {0} PROVE k <= s * k
BY SMT

-----------------------------------------------------------------------------
(* Cron expressions mean what the code makes of them.                      *)

\* The token as Hits reads it, and as Denoted does.
LEMMA TokenMeans ==
  ASSUME NEW from \in Int, NEW to \in Int, NEW step \in Nat \ {0},
         NEW lo \in Int, NEW hi \in Int, NEW v \in lo .. hi
  PROVE  (from <= v /\ v <= to /\ (v - from) % step = 0)
         <=> v \in {from + step * k : k \in 0 .. hi - from} \cap (from .. to) \cap (lo .. hi)
<1>1. ASSUME from <= v, v <= to, (v - from) % step = 0
      PROVE  v \in {from + step * k : k \in 0 .. hi - from} \cap (from .. to) \cap (lo .. hi)
  <2> DEFINE n == v - from
             q == n \div step
  <2>1. n \in Nat
    BY <1>1
  <2>2. q \in Nat /\ n = step * q + (n % step)
    BY <2>1, Division
  <2>3. n = step * q
    BY <1>1, <2>2
  <2>4. q <= n
    BY <2>2, <2>3, Factor
  <2>5. v = from + step * q
    BY <2>1, <2>3
  <2>6. q \in 0 .. hi - from
    BY <2>1, <2>2, <2>4
  <2> HIDE DEF q
  <2>7. QED
    BY <1>1, <2>5, <2>6
<1>2. ASSUME NEW k \in 0 .. hi - from, v = from + step * k, from <= v, v <= to
      PROVE  from <= v /\ v <= to /\ (v - from) % step = 0
  <2>1. k \in Nat /\ step * k \in Int
    BY SMT
  <2>2. v - from = step * k
    BY <1>2, <2>1
  <2>3. (step * k) % step = 0
    BY <2>1, NoRemainder
  <2>4. QED
    BY <1>2, <2>2, <2>3
<1>3. ASSUME v \in {from + step * k : k \in 0 .. hi - from} \cap (from .. to) \cap (lo .. hi)
      PROVE  from <= v /\ v <= to /\ (v - from) % step = 0
  <2>1. PICK k \in 0 .. hi - from : v = from + step * k
    BY <1>3, Zenon
  <2>2. from <= v /\ v <= to
    <3>1. v \in from .. to
      BY <1>3, Zenon
    <3>2. QED
      BY <3>1
  <2>3. QED
    BY <1>2, <2>1, <2>2
<1>4. QED
  BY <1>1, <1>3, Zenon

\* A field hits the values it denotes.
LEMMA FieldMeans ==
  ASSUME NEW f \in Seq(Tokens), NEW lo \in Int, NEW hi \in Int, NEW v \in lo .. hi
  PROVE  CronField(f, v, lo, hi) <=> v \in Denoted(f, lo, hi)
<1> DEFINE from(i) == IF f[i].star THEN lo ELSE f[i].a
           to(i) == IF f[i].star THEN hi ELSE f[i].b
           step(i) == IF f[i].step < 1 THEN 1 ELSE f[i].step
           values(i) == {from(i) + step(i) * k : k \in 0 .. hi - from(i)}
                        \cap (from(i) .. to(i)) \cap (lo .. hi)
<1>1. ASSUME NEW i \in DOMAIN f
      PROVE  from(i) \in Int /\ to(i) \in Int /\ step(i) \in Nat \ {0}
  <2>1. f[i] \in Tokens
    BY ElementOfSeq, LenProperties
  <2>2. QED
    BY <2>1 DEF Tokens
<1>2. ASSUME NEW i \in DOMAIN f
      PROVE  Hits(f[i], v, lo, hi) <=> v \in values(i)
  <2>1. Hits(f[i], v, lo, hi) <=> from(i) <= v /\ v <= to(i) /\ (v - from(i)) % step(i) = 0
    BY DEF Hits
  <2>2. (from(i) <= v /\ v <= to(i) /\ (v - from(i)) % step(i) = 0) <=> v \in values(i)
    <3> HIDE DEF from, to, step
    <3>1. QED
      BY <1>1, TokenMeans
  <2>3. QED
    BY <2>1, <2>2
<1>3. Denoted(f, lo, hi) = UNION {values(i) : i \in DOMAIN f}
  BY DEF Denoted
<1> HIDE DEF values
<1>4. QED
  BY <1>2, <1>3 DEF CronField

\* Only values of the field are denoted.
LEMMA DenotedRange ==
  ASSUME NEW f, NEW lo, NEW hi PROVE Denoted(f, lo, hi) \subseteq lo .. hi
BY DEF Denoted

\* cron_match is what the expression means.
LEMMA CronMeans ==
  ASSUME NEW cron \in CronExprs, NEW t \in LocalTimes
  PROVE  CronMatch(cron, t) <=> Len(cron) = 5 /\ Meant(cron, t)
<1> SUFFICES ASSUME Len(cron) = 5 PROVE CronMatch(cron, t) <=> Meant(cron, t)
  BY DEF CronMatch
<1>1. /\ cron[1] \in Seq(Tokens) /\ cron[2] \in Seq(Tokens) /\ cron[3] \in Seq(Tokens)
      /\ cron[4] \in Seq(Tokens) /\ cron[5] \in Seq(Tokens)
  <2>1. \A i \in 1 .. 5 : cron[i] \in Seq(Tokens)
    BY ElementOfSeq DEF CronExprs
  <2>2. QED
    BY <2>1
<1>2. /\ t.min \in 0 .. 59 /\ t.hour \in 0 .. 23 /\ t.mday \in 1 .. 31 /\ t.mon \in 1 .. 12
      /\ t.wday \in 0 .. 6
  BY DEF LocalTimes
<1>3. /\ CronField(cron[1], t.min, 0, 59) <=> t.min \in Denoted(cron[1], 0, 59)
      /\ CronField(cron[2], t.hour, 0, 23) <=> t.hour \in Denoted(cron[2], 0, 23)
      /\ CronField(cron[3], t.mday, 1, 31) <=> t.mday \in Denoted(cron[3], 1, 31)
      /\ CronField(cron[4], t.mon, 1, 12) <=> t.mon \in Denoted(cron[4], 1, 12)
  <2>1. \A f \in Seq(Tokens) : \A lo, hi \in Nat : \A v \in lo .. hi :
          CronField(f, v, lo, hi) <=> v \in Denoted(f, lo, hi)
    BY FieldMeans
  <2>2. CronField(cron[1], t.min, 0, 59) <=> t.min \in Denoted(cron[1], 0, 59)
    BY <1>1, <1>2, <2>1
  <2>3. CronField(cron[2], t.hour, 0, 23) <=> t.hour \in Denoted(cron[2], 0, 23)
    BY <1>1, <1>2, <2>1
  <2>4. CronField(cron[3], t.mday, 1, 31) <=> t.mday \in Denoted(cron[3], 1, 31)
    BY <1>1, <1>2, <2>1
  <2>5. CronField(cron[4], t.mon, 1, 12) <=> t.mon \in Denoted(cron[4], 1, 12)
    BY <1>1, <1>2, <2>1
  <2>6. QED
    BY <2>2, <2>3, <2>4, <2>5
<1>4. /\ CronField(cron[5], t.wday, 0, 7) <=> t.wday \in Denoted(cron[5], 0, 7)
      /\ CronField(cron[5], 7, 0, 7) <=> 7 \in Denoted(cron[5], 0, 7)
  <2>1. t.wday \in 0 .. 7 /\ 7 \in 0 .. 7
    BY <1>2
  <2>2. QED
    BY <1>1, <2>1, FieldMeans
<1> DEFINE D == Denoted(cron[5], 0, 7)
<1>5. (t.wday \in D \/ (t.wday = 0 /\ 7 \in D)) <=> t.wday \in {d % 7 : d \in D}
  <2>1. D \subseteq 0 .. 7
    BY DenotedRange
  <2>2. 7 % 7 = 0 /\ \A d \in 0 .. 6 : d % 7 = d
    BY SMT
  <2>3. \A d \in D : d \in 0 .. 6 \/ d = 7
    BY <2>1
  <2> HIDE DEF D
  <2>4. ASSUME t.wday \in D \/ (t.wday = 0 /\ 7 \in D) PROVE \E d \in D : t.wday = d % 7
    BY <1>2, <2>2, <2>4
  <2>5. ASSUME NEW d \in D, t.wday = d % 7 PROVE t.wday \in D \/ (t.wday = 0 /\ 7 \in D)
    BY <2>2, <2>3, <2>5
  <2>6. QED
    BY <2>4, <2>5
<1> HIDE DEF D
<1>6. QED
  BY <1>3, <1>4, <1>5 DEF CronMatch, Meant, D

-----------------------------------------------------------------------------
(* Minutes.                                                                *)

\* The tick a minute begins with.
StartOf(m) == TicksPerMinute * (m - 1)

\* Every tick is in its minute.
LEMMA Minutes ==
  ASSUME NEW t \in Nat
  PROVE  /\ Minute(t) \in Nat \ {0} /\ StartOf(Minute(t)) \in Nat
         /\ StartOf(Minute(t)) <= t /\ t < StartOf(Minute(t)) + TicksPerMinute
<1> DEFINE q == t \div TicksPerMinute
<1>1. /\ q \in Nat /\ TicksPerMinute * q \in Nat
      /\ TicksPerMinute * q <= t /\ t < TicksPerMinute * q + TicksPerMinute
  BY SchedulerAssumption, Division
<1>2. Minute(t) = 1 + q
  BY DEF Minute
<1> HIDE DEF q
<1>3. StartOf(Minute(t)) = TicksPerMinute * q
  <2>1. Minute(t) - 1 = q
    BY <1>1, <1>2
  <2>2. QED
    BY <2>1 DEF StartOf
<1>4. QED
  BY <1>1, <1>2, <1>3

\* A minute is over when TicksPerMinute ticks are, and the next one begins.
LEMMA NextMinute ==
  ASSUME NEW t \in Nat
  PROVE  \/ Minute(t + 1) = Minute(t)
         \/ /\ Minute(t + 1) > Minute(t) /\ t + 1 = StartOf(Minute(t + 1))
            /\ t + 1 = StartOf(Minute(t)) + TicksPerMinute
<1> DEFINE m == Minute(t)
           n == Minute(t + 1)
<1>1. /\ m \in Nat \ {0} /\ StartOf(m) \in Nat /\ StartOf(m) <= t
      /\ t < StartOf(m) + TicksPerMinute
  BY Minutes
<1>2. /\ n \in Nat \ {0} /\ StartOf(n) \in Nat /\ StartOf(n) <= t + 1
      /\ t + 1 < StartOf(n) + TicksPerMinute
  BY Minutes
<1> HIDE DEF m, n
<1>3. ASSUME NEW j \in Nat \ {0}, NEW k \in Nat \ {0}, j < k
      PROVE  StartOf(j) + TicksPerMinute <= StartOf(k)
  <2>1. j - 1 \in Nat /\ k - 1 \in Nat /\ j - 1 < k - 1
    BY <1>3
  <2>2. QED
    BY <2>1, SchedulerAssumption, Multiples DEF StartOf
<1>4. CASE n < m
  <2>1. StartOf(n) + TicksPerMinute <= StartOf(m)
    BY <1>1, <1>2, <1>3, <1>4
  <2>2. QED
    BY <1>1, <1>2, <2>1, SchedulerAssumption
<1>5. CASE m < n
  <2>1. StartOf(m) + TicksPerMinute <= StartOf(n)
    BY <1>1, <1>2, <1>3, <1>5
  <2>2. QED
    BY <1>1, <1>2, <1>5, <2>1, SchedulerAssumption DEF m, n
<1>6. QED
  BY <1>1, <1>2, <1>4, <1>5 DEF m, n

\* The calendar has the minute.
LEMMA InCalendar ==
  ASSUME TypeOK
  PROVE  /\ now \in Nat /\ Minute(now) \in 1 .. Len(cal) /\ Local \in LocalTimes
         /\ Len(cal) \in Nat
<1>1. cal \in Seq(LocalTimes) /\ Len(cal) \in Nat
  BY SchedulerAssumption, LenProperties DEF TypeOK
<1>2. now \in Nat /\ now < Len(cal) * TicksPerMinute
  <2>1. Len(cal) * TicksPerMinute \in Int
    BY <1>1, SchedulerAssumption, SMT
  <2>2. QED
    BY <2>1 DEF TypeOK
<1>3. /\ Minute(now) \in Nat \ {0} /\ StartOf(Minute(now)) \in Nat
      /\ StartOf(Minute(now)) <= now
  BY <1>2, Minutes
<1>4. Minute(now) <= Len(cal)
  <2>1. CASE Len(cal) < Minute(now)
    <3>1. Len(cal) <= Minute(now) - 1 /\ Minute(now) - 1 \in Nat
      BY <1>1, <1>3, <2>1
    <3>2. TicksPerMinute * Len(cal) <= TicksPerMinute * (Minute(now) - 1)
      <4>1. CASE Len(cal) = Minute(now) - 1
        BY <1>3, <4>1, SchedulerAssumption DEF StartOf
      <4>2. CASE Len(cal) < Minute(now) - 1
        <5>1. TicksPerMinute * Len(cal) + TicksPerMinute <= TicksPerMinute * (Minute(now) - 1)
          BY <1>1, <3>1, <4>2, SchedulerAssumption, Multiples
        <5>2. TicksPerMinute * Len(cal) \in Int
          BY <1>1, SchedulerAssumption, SMT
        <5>3. QED
          BY <1>3, <5>1, <5>2, SchedulerAssumption DEF StartOf
      <4>3. QED
        BY <1>1, <3>1, <4>1, <4>2
    <3>3. Len(cal) * TicksPerMinute = TicksPerMinute * Len(cal)
      BY <1>1, SchedulerAssumption, SMT
    <3>4. TicksPerMinute * Len(cal) \in Int
      BY <1>1, SchedulerAssumption, SMT
    <3>5. QED
      BY <1>2, <1>3, <3>2, <3>3, <3>4 DEF StartOf
  <2>2. QED
    BY <1>1, <1>3, <2>1
<1>5. Minute(now) \in 1 .. Len(cal)
  BY <1>1, <1>3, <1>4
<1>6. QED
  BY <1>1, <1>2, <1>5, ElementOfSeq DEF Local

-----------------------------------------------------------------------------
(* The invariant.                                                          *)

\* A rule was acted on in this minute if and only if its fire time says so, and then
\* its cron matches.
FiredIsActed ==
  \A k \in Keys : /\ acted[k] = IF fired[k] = Minute(now) THEN 1 ELSE 0
                  /\ fired[k] = Minute(now) => CronMatch(k[3], Local)

\* What was loaded for all of the minute is loaded now.
WholeIsLoaded == whole \subseteq Enabled(rules) /\ (~up => whole = {})

\* The timer is due one period after it was armed, and one armed in this minute has
\* left nothing to be done.
TimerIsNear ==
  /\ up => poll <= now + PollTicks
  /\ \A k \in whole : CronMatch(k[3], Local) /\ fired[k] # Minute(now)
                      => poll < StartOf(Minute(now)) + PollTicks

IInv == TypeOK /\ FiredIsActed /\ WholeIsLoaded /\ TimerIsNear

Rules == SUBSET {e \in Written : e.action \in Actions /\ e.cron # NoCron}

\* What is loaded of a file.
LEMMA LoadedType == ASSUME NEW es \in SUBSET Written PROVE Loaded(es) \in Rules
BY DEF Loaded, Rules

\* Files hold rules that are written somewhere.
LEMMA FilesType == Files \subseteq [Name -> SUBSET Written] /\ Offered \subseteq Written
<1>1. ASSUME NEW f \in Files PROVE f \in [Name -> SUBSET Written]
  <2>1. f \in [Name -> SUBSET Schedules]
    BY SchedulerAssumption
  <2>2. \A n \in Name : f[n] \subseteq Written
    BY <1>1 DEF Written
  <2>3. QED
    BY <2>1, <2>2
<1>2. QED
  BY <1>1 DEF Written

\* Every rule has a key, of a name, an action and a cron.
LEMMA KeyType ==
  /\ CheckKey \in Keys
  /\ \A k \in Keys : k[3] \in CronExprs
  /\ \A rs \in [Name -> Rules] : Enabled(rs) \subseteq Keys
<1>1. Written \subseteq Schedules
  BY SchedulerAssumption DEF Written
<1>2. ASSUME NEW k \in Keys PROVE k[3] \in CronExprs
  <2>1. CASE k = CheckKey
    <3>1. CheckKey[3] = CheckCron
      BY DEF CheckKey
    <3>2. QED
      BY <2>1, <3>1, SchedulerAssumption
  <2>2. ASSUME NEW n \in Name, NEW e \in Written, k = Key(n, e) PROVE k[3] \in CronExprs
    <3>1. k[3] = e.cron
      BY <2>2 DEF Key
    <3>2. QED
      BY <1>1, <3>1 DEF Schedules
  <2>3. QED
    BY <2>1, <2>2 DEF Keys
<1>3. ASSUME NEW rs \in [Name -> Rules] PROVE Enabled(rs) \subseteq Keys
  BY DEF Enabled, Keys, Rules
<1>4. QED
  BY <1>2, <1>3 DEF Keys

\* The keys of what is due name containers, but for the daemon's own check.
LEMMA DueNames ==
  ASSUME TypeOK
  PROVE  /\ Due \subseteq Keys
         /\ {k[1] : k \in {x \in Due : x[2] \in {"start", "restart"}}} \subseteq Name
<1>1. rules \in [Name -> Rules]
  BY DEF TypeOK, Rules
<1>2. Due \subseteq Keys
  BY <1>1, KeyType DEF Due
<1>3. ASSUME NEW k \in Keys, k[2] \in {"start", "restart"} PROVE k[1] \in Name
  <2>1. k # CheckKey
    <3>1. CheckKey[2] = "update_check"
      BY DEF CheckKey
    <3>2. k[2] # "update_check"
      BY <1>3
    <3>3. QED
      BY <3>1, <3>2
  <2>2. PICK n \in Name, e \in Written : k = <<n, e.action, e.cron>>
    BY <2>1 DEF Keys, Key
  <2>3. QED
    BY <2>2
<1>4. QED
  BY <1>2, <1>3

\* A quota is spent one by one.
LEMMA SpendType ==
  ASSUME TypeOK, NEW k \in {"edits", "deaths"}, Spend(k)
  PROVE  quota' \in [{"edits", "deaths"} -> Nat]
<1>1. quota[k] \in Nat /\ quota[k] > 0
  BY DEF TypeOK, Spend
<1>2. quota[k] - 1 \in Nat
  BY <1>1
<1>3. QED
  BY <1>2 DEF TypeOK, Spend

-----------------------------------------------------------------------------
(* The initial states and the steps.                                       *)

\* The invariant holds at the start.
LEMMA InitInv == Init => IInv
<1> SUFFICES ASSUME Init PROVE IInv
  OBVIOUS
<1>1. now = 0 /\ cal \in Calendars /\ cal \in Seq(LocalTimes) /\ cal # <<>>
  BY SchedulerAssumption DEF Init
<1>2. now \in 0 .. Len(cal) * TicksPerMinute - 1
  <2>1. Len(cal) \in Nat \ {0}
    BY <1>1, EmptySeq, LenProperties
  <2>2. TicksPerMinute <= TicksPerMinute * Len(cal) /\ TicksPerMinute * Len(cal) \in Nat
    <3>1. TicksPerMinute <= Len(cal) * TicksPerMinute
      BY <2>1, SchedulerAssumption, Factor
    <3>2. Len(cal) * TicksPerMinute = TicksPerMinute * Len(cal)
          /\ TicksPerMinute * Len(cal) \in Nat
      BY <2>1, SchedulerAssumption, SMT
    <3>3. QED
      BY <3>1, <3>2
  <2>3. Len(cal) * TicksPerMinute = TicksPerMinute * Len(cal)
    BY <2>1, SchedulerAssumption, SMT
  <2>4. QED
    BY <1>1, <2>2, <2>3, SchedulerAssumption
<1>3. Minute(now) \in Nat \ {0} /\ StartOf(Minute(now)) \in Nat
  BY <1>1, Minutes
<1>4. file \in [Name -> SUBSET Written]
  BY FilesType DEF Init
<1>5. rules \in [Name -> Rules]
  BY <1>4, LoadedType DEF Init
<1>6. fired \in [Keys -> 0 .. Minute(now)] /\ acted \in [Keys -> Nat]
      /\ \A k \in Keys : fired[k] = 0 /\ acted[k] = 0
  <2>1. 0 \in 0 .. Minute(now)
    BY <1>3
  <2>2. QED
    BY <2>1 DEF Init
<1>7. TypeOK
  <2>1. quota \in [{"edits", "deaths"} -> Nat]
    BY SchedulerAssumption DEF Init
  <2>2. /\ up \in BOOLEAN /\ poll \in Nat /\ checking \in BOOLEAN /\ running \subseteq Name
        /\ whole \subseteq Keys
    BY SchedulerAssumption DEF Init
  <2>3. QED
    BY <1>1, <1>2, <1>4, <1>5, <1>6, <2>1, <2>2 DEF TypeOK, Rules
<1>8. FiredIsActed
  BY <1>3, <1>6 DEF FiredIsActed
<1>9. WholeIsLoaded /\ TimerIsNear
  BY <1>1, SchedulerAssumption DEF Init, WholeIsLoaded, TimerIsNear
<1>10. QED
  BY <1>7, <1>8, <1>9 DEF IInv

\* What a step in the middle of a minute that acts on nothing has to keep.
LEMMA CalmKeeps ==
  ASSUME IInv, UNCHANGED <<cal, now, fired, acted>>, whole' \subseteq whole,
         UNCHANGED <<up, poll>>, TypeOK', WholeIsLoaded'
  PROVE  IInv'
<1>1. FiredIsActed'
  BY DEF IInv, FiredIsActed, Local
<1>2. TimerIsNear'
  BY DEF IInv, TimerIsNear, Local
<1>3. QED
  BY <1>1, <1>2 DEF IInv

\* Rules that are read again.
LEMMA ReadKeeps ==
  ASSUME IInv, UNCHANGED <<cal, now, fired, acted>>, StillWhole, UNCHANGED <<up, poll>>, up,
         rules' \in [Name -> Rules], TypeOK'
  PROVE  IInv'
<1>1. whole' \subseteq whole /\ WholeIsLoaded'
  BY DEF StillWhole, WholeIsLoaded, Enabled
<1>2. QED
  BY <1>1, CalmKeeps

\* What is due is acted on and remembered, so nothing loaded for all of the minute waits.
LEMMA PollKeeps == ASSUME IInv, Poll PROVE IInv'
<1>1. PICK launched \in SUBSET {k[1] : k \in {x \in Due : x[2] \in {"start", "restart"}}} :
        /\ running' = running \cup launched
        /\ rules' = [n \in Name |-> IF n \in launched THEN Loaded(file[n]) ELSE rules[n]]
        /\ fired' = Remembered(Due, launched)
  BY DEF Poll
<1>2. launched \subseteq Name /\ Due \subseteq Keys
  BY DueNames DEF IInv
<1>3. rules' \in [Name -> Rules]
  BY <1>1, LoadedType DEF IInv, TypeOK, Rules
<1>4. now \in Nat /\ Minute(now) \in Nat \ {0} /\ StartOf(Minute(now)) \in Nat
  BY InCalendar, Minutes DEF IInv
<1>5. /\ now' = now /\ cal' = cal /\ up /\ up' = up /\ poll' = now + PollTicks
      /\ whole' = whole \cap Enabled(rules')
      /\ acted' = [k \in Keys |-> IF k \in Due THEN acted[k] + 1 ELSE acted[k]]
      /\ fired' = [k \in Keys |-> IF k \in Due THEN Minute(now) ELSE fired[k]]
  BY <1>1 DEF Poll, StillWhole, Remembered
<1>6. fired' \in [Keys -> 0 .. Minute(now')] /\ acted' \in [Keys -> Nat]
  <2>1. Minute(now) \in 0 .. Minute(now)
    BY <1>4
  <2>2. \A k \in Keys : acted[k] \in Nat /\ acted[k] + 1 \in Nat /\ fired[k] \in 0 .. Minute(now)
    BY DEF IInv, TypeOK
  <2>3. QED
    BY <1>5, <2>1, <2>2
<1>7. TypeOK'
  <2>1. whole' \subseteq Keys /\ running' \subseteq Name
    BY <1>1, <1>2, <1>5 DEF IInv, TypeOK
  <2>2. poll' \in Nat
    BY <1>4, <1>5, SchedulerAssumption
  <2>3. checking' \in BOOLEAN
    BY DEF Poll, IInv, TypeOK
  <2>4. UNCHANGED <<cal, now, up, file, quota>>
    BY DEF Poll
  <2>5. QED
    BY <1>3, <1>6, <2>1, <2>2, <2>3, <2>4 DEF IInv, TypeOK, Rules
<1>8. FiredIsActed'
  <2>1. Local' = Local
    BY <1>5 DEF Local
  <2>2. ASSUME NEW k \in Keys, k \in Due
        PROVE  /\ acted'[k] = 1 /\ fired'[k] = Minute(now') /\ CronMatch(k[3], Local)
    BY <1>5, <2>2 DEF Due, IInv, FiredIsActed
  <2>3. ASSUME NEW k \in Keys, k \notin Due
        PROVE  acted'[k] = acted[k] /\ fired'[k] = fired[k]
    BY <1>5, <2>3
  <2>4. QED
    BY <1>5, <2>1, <2>2, <2>3 DEF IInv, FiredIsActed
<1>9. WholeIsLoaded'
  BY <1>5 DEF WholeIsLoaded, Enabled
<1>10. TimerIsNear'
  <2>1. poll' <= now' + PollTicks
    BY <1>4, <1>5, SchedulerAssumption
  <2>2. ASSUME NEW k \in whole', CronMatch(k[3], Local') PROVE fired'[k] = Minute(now')
    <3>1. k \in Enabled(rules) /\ k \in Keys
      BY <1>5 DEF IInv, WholeIsLoaded, TypeOK
    <3>2. Local' = Local
      BY <1>5 DEF Local
    <3>3. k \in Due \/ fired[k] = Minute(now)
      BY <2>2, <3>1, <3>2 DEF Due
    <3>4. QED
      BY <1>5, <3>1, <3>3
  <2>3. QED
    BY <2>1, <2>2 DEF TimerIsNear
<1>11. QED
  BY <1>7, <1>8, <1>9, <1>10 DEF IInv

\* The update check ends, a container exits: the rules are as they were.
LEMMA CheckEndsKeeps == ASSUME IInv, CheckEnds PROVE IInv'
<1>1. TypeOK' /\ WholeIsLoaded'
  <2>1. checking' \in BOOLEAN
    BY DEF CheckEnds
  <2>2. UNCHANGED <<cal, now, up, poll, file, rules, fired, running, quota, acted, whole>>
    BY DEF CheckEnds
  <2>3. QED
    BY <2>1, <2>2 DEF IInv, TypeOK, WholeIsLoaded, Enabled
<1>2. QED
  BY <1>1, CalmKeeps DEF CheckEnds

LEMMA ExitsKeeps == ASSUME IInv, NEW n \in Name, Exits(n) PROVE IInv'
<1>1. TypeOK' /\ WholeIsLoaded'
  BY DEF Exits, IInv, TypeOK, WholeIsLoaded, Enabled
<1>2. QED
  BY <1>1, CalmKeeps DEF Exits

\* A launch and a setconfig read the rules again; fire times are kept apart from them.
LEMMA LaunchedKeeps == ASSUME IInv, NEW n \in Name, Launched(n) PROVE IInv'
<1>1. rules' \in [Name -> Rules]
  BY LoadedType DEF Launched, IInv, TypeOK, Rules
<1>2. TypeOK'
  <2>1. whole' \subseteq Keys /\ running' \subseteq Name
    BY DEF Launched, StillWhole, IInv, TypeOK
  <2>2. UNCHANGED <<cal, now, up, poll, file, fired, checking, quota, acted>>
    BY DEF Launched
  <2>3. QED
    BY <1>1, <2>1, <2>2 DEF IInv, TypeOK, Rules
<1>3. QED
  BY <1>1, <1>2, ReadKeeps DEF Launched

LEMMA ConfigureKeeps ==
  ASSUME IInv, NEW n \in Name, NEW es \in SUBSET Offered, Configure(n, es) PROVE IInv'
<1>1. es \in SUBSET Written
  BY FilesType
<1>2. rules' \in [Name -> Rules] /\ file' \in [Name -> SUBSET Written]
  BY <1>1, LoadedType DEF Configure, IInv, TypeOK, Rules
<1>3. TypeOK'
  <2>1. whole' \subseteq Keys
    BY DEF Configure, StillWhole, IInv, TypeOK
  <2>2. quota' \in [{"edits", "deaths"} -> Nat]
    BY SpendType DEF Configure, IInv
  <2>3. UNCHANGED <<cal, now, up, poll, fired, running, checking, acted>>
    BY DEF Configure
  <2>4. QED
    BY <1>2, <2>1, <2>2, <2>3 DEF IInv, TypeOK, Rules
<1>4. QED
  BY <1>2, <1>3, ReadKeeps DEF Configure

\* An edit by hand is not read yet.
LEMMA EditFileKeeps ==
  ASSUME IInv, NEW n \in Name, NEW es \in SUBSET Offered, EditFile(n, es) PROVE IInv'
<1>1. es \in SUBSET Written
  BY FilesType
<1>2. file' \in [Name -> SUBSET Written]
  BY <1>1 DEF EditFile, IInv, TypeOK
<1>3. quota' \in [{"edits", "deaths"} -> Nat]
  BY SpendType DEF EditFile, IInv
<1>4. UNCHANGED <<cal, now, up, poll, rules, fired, running, checking, acted, whole>>
  BY DEF EditFile
<1>5. TypeOK' /\ WholeIsLoaded'
  BY <1>2, <1>3, <1>4 DEF IInv, TypeOK, WholeIsLoaded, Enabled
<1>6. QED
  BY <1>4, <1>5, CalmKeeps

\* A dead daemon has no rules, no fire times and nothing loaded for all of the minute.
LEMMA DeathKeeps == ASSUME IInv, DaemonDies PROVE IInv'
<1>1. /\ ~up' /\ rules' = [n \in Name |-> {}] /\ whole' = {}
      /\ fired' = [k \in Keys |-> 0] /\ acted' = [k \in Keys |-> 0] /\ checking' = FALSE
      /\ UNCHANGED <<cal, now, poll, file, running>>
  BY DEF DaemonDies
<1>2. now' \in Nat /\ Minute(now') \in Nat \ {0}
  BY <1>1, InCalendar, Minutes DEF IInv
<1>3. rules' \in [Name -> Rules]
  BY <1>1 DEF Rules
<1>4. fired' \in [Keys -> 0 .. Minute(now')] /\ acted' \in [Keys -> Nat]
  <2>1. 0 \in 0 .. Minute(now')
    BY <1>2
  <2>2. QED
    BY <1>1, <2>1
<1>5. quota' \in [{"edits", "deaths"} -> Nat]
  BY SpendType DEF DaemonDies, IInv
<1>6. up' \in BOOLEAN
  BY DEF DaemonDies
<1>7. TypeOK'
  BY <1>1, <1>3, <1>4, <1>5, <1>6 DEF IInv, TypeOK, Rules
<1>8. FiredIsActed'
  BY <1>1, <1>2 DEF FiredIsActed
<1>9. WholeIsLoaded' /\ TimerIsNear'
  BY <1>1 DEF WholeIsLoaded, TimerIsNear
<1>10. QED
  BY <1>7, <1>8, <1>9 DEF IInv

\* A new one arms its timer; nothing was loaded for all of this minute.
LEMMA BootKeeps == ASSUME IInv, DaemonBoots PROVE IInv'
<1>1. /\ ~up /\ up' = TRUE /\ poll' = now + PollTicks
      /\ rules' = [n \in Name |-> Loaded(file[n])]
      /\ UNCHANGED <<cal, now, file, fired, running, checking, quota, acted, whole>>
  BY DEF DaemonBoots
<1>2. now \in Nat
  BY InCalendar DEF IInv
<1>3. rules' \in [Name -> Rules]
  BY <1>1, LoadedType DEF IInv, TypeOK
<1>4. poll' \in Nat /\ poll' <= now' + PollTicks
  BY <1>1, <1>2, SchedulerAssumption
<1>5. TypeOK'
  BY <1>1, <1>3, <1>4 DEF IInv, TypeOK, Rules
<1>6. whole = {}
  BY <1>1 DEF IInv, WholeIsLoaded
<1>7. FiredIsActed'
  BY <1>1 DEF IInv, FiredIsActed, Local
<1>8. WholeIsLoaded' /\ TimerIsNear'
  BY <1>1, <1>4, <1>6 DEF WholeIsLoaded, TimerIsNear
<1>9. QED
  BY <1>5, <1>7, <1>8 DEF IInv

\* In a new minute nothing is acted on yet, and the timer was armed before it.
LEMMA TickKeeps == ASSUME IInv, Tick PROVE IInv'
<1>1. /\ now + 1 < Len(cal) * TicksPerMinute /\ now' = now + 1
      /\ UNCHANGED <<cal, up, poll, file, rules, fired, running, checking, quota>>
  BY DEF Tick
<1>2. now \in Nat /\ Len(cal) \in Nat
  BY InCalendar DEF IInv
<1>3. now' \in 0 .. Len(cal') * TicksPerMinute - 1
  <2>1. Len(cal) * TicksPerMinute \in Int
    BY <1>2, SchedulerAssumption, SMT
  <2>2. QED
    BY <1>1, <1>2, <2>1
<1>4. /\ Minute(now) \in Nat \ {0} /\ Minute(now + 1) \in Nat \ {0}
      /\ \/ Minute(now + 1) = Minute(now)
         \/ Minute(now + 1) > Minute(now) /\ now + 1 = StartOf(Minute(now + 1))
  <2>1. now + 1 \in Nat
    BY <1>2
  <2>2. QED
    BY <1>2, <2>1, Minutes, NextMinute
<1>5. fired' \in [Keys -> 0 .. Minute(now')]
  <2>1. 0 .. Minute(now) \subseteq 0 .. Minute(now + 1)
    BY <1>4
  <2>2. QED
    BY <1>1, <2>1 DEF IInv, TypeOK
<1>6. poll \in Nat /\ (up => poll <= now + PollTicks)
  BY DEF IInv, TypeOK, TimerIsNear
<1>7. CASE Minute(now') = Minute(now)
  <2>1. UNCHANGED <<acted, whole>> /\ Local' = Local
    BY <1>1, <1>7 DEF Tick, Local
  <2>2. TypeOK'
    BY <1>1, <1>3, <1>5, <2>1 DEF IInv, TypeOK
  <2>3. FiredIsActed'
    BY <1>1, <1>7, <2>1 DEF IInv, FiredIsActed
  <2>4. WholeIsLoaded'
    BY <1>1, <2>1 DEF IInv, WholeIsLoaded, Enabled
  <2>5. TimerIsNear'
    <3>1. up => poll <= now' + PollTicks
      BY <1>1, <1>2, <1>6, SchedulerAssumption
    <3>2. QED
      BY <1>1, <1>7, <2>1, <3>1 DEF IInv, TimerIsNear
  <2>6. QED
    BY <2>2, <2>3, <2>4, <2>5 DEF IInv
<1>8. CASE Minute(now') # Minute(now)
  <2>1. acted' = [k \in Keys |-> 0] /\ whole' = IF up THEN Enabled(rules) ELSE {}
    BY <1>8 DEF Tick
  <2>2. Minute(now') > Minute(now) /\ now' = StartOf(Minute(now'))
    BY <1>1, <1>4, <1>8
  <2>3. whole' \subseteq Keys
    BY <2>1, KeyType DEF IInv, TypeOK, Rules
  <2>4. TypeOK'
    BY <1>1, <1>3, <1>5, <2>1, <2>3 DEF IInv, TypeOK
  <2>5. FiredIsActed'
    <3>1. \A k \in Keys : fired'[k] # Minute(now')
      <4>1. \A k \in Keys : fired[k] \in 0 .. Minute(now)
        BY DEF IInv, TypeOK
      <4>2. QED
        BY <1>1, <1>4, <2>2, <4>1
    <3>2. QED
      BY <2>1, <3>1 DEF FiredIsActed
  <2>6. WholeIsLoaded'
    BY <1>1, <2>1 DEF WholeIsLoaded, Enabled
  <2>7. TimerIsNear'
    <3>1. up => poll' <= now' + PollTicks /\ poll' < StartOf(Minute(now')) + PollTicks
      BY <1>1, <1>2, <1>6, <2>2, SchedulerAssumption
    <3>2. QED
      BY <1>1, <2>1, <3>1 DEF TimerIsNear
  <2>8. QED
    BY <2>4, <2>5, <2>6, <2>7 DEF IInv
<1>9. QED
  BY <1>7, <1>8

\* Every step keeps the invariant.
LEMMA StepInv == IInv /\ [Next]_vars => IInv'
<1> SUFFICES ASSUME IInv, [Next]_vars PROVE IInv'
  OBVIOUS
<1>1. CASE UNCHANGED vars
  BY <1>1 DEF vars, IInv, TypeOK, FiredIsActed, WholeIsLoaded, TimerIsNear, Local, Enabled
<1>2. CASE Next
  BY <1>2, PollKeeps, CheckEndsKeeps, DeathKeeps, BootKeeps, TickKeeps, ExitsKeeps,
     LaunchedKeeps, ConfigureKeeps, EditFileKeeps DEF Next
<1>3. QED
  BY <1>1, <1>2

\* The invariant holds of every scheduler.
LEMMA Invariance == Spec => []IInv
<1>1. IInv /\ [Next]_vars => IInv'
  BY StepInv
<1>2. QED
  BY <1>1, InitInv, PTL DEF Spec

-----------------------------------------------------------------------------
(* The theorems.                                                           *)

\* The scheduler is well typed: what is loaded is what some file holds and says something,
\* and no fire time is ahead of the clock.
THEOREM SchedulerIsTyped == Spec => []TypeOK
<1>1. IInv => TypeOK
  BY DEF IInv
<1>2. QED
  BY <1>1, Invariance, PTL

\* When the minute ends, the timer has fired in it.
LEMMA ServedStep ==
  IInv /\ [Next]_vars =>
    [Minute(now') # Minute(now) =>
       \A k \in Keys :
         LET meant == Len(k[3]) = 5 /\ Meant(k[3], Local)
         IN /\ acted[k] \in IF meant THEN {0, 1} ELSE {0}
            /\ k \in whole /\ meant => acted[k] = 1]_vars
<1> SUFFICES ASSUME IInv, Next, Minute(now') # Minute(now), NEW k \in Keys
             PROVE  LET meant == Len(k[3]) = 5 /\ Meant(k[3], Local)
                    IN /\ acted[k] \in IF meant THEN {0, 1} ELSE {0}
                       /\ k \in whole /\ meant => acted[k] = 1
  BY DEF vars
<1>1. Tick
  BY DEF Next, Poll, CheckEnds, DaemonDies, DaemonBoots, Exits, Launched, Configure, EditFile
<1>2. Local \in LocalTimes /\ now \in Nat /\ k[3] \in CronExprs
  BY InCalendar, KeyType DEF IInv
<1> DEFINE meant == Len(k[3]) = 5 /\ Meant(k[3], Local)
<1>3. CronMatch(k[3], Local) <=> meant
  BY <1>2, CronMeans
<1> HIDE DEF meant
<1>4. /\ acted[k] = IF fired[k] = Minute(now) THEN 1 ELSE 0
      /\ fired[k] = Minute(now) => meant
  BY <1>3 DEF IInv, FiredIsActed
<1>5. ASSUME k \in whole, meant PROVE fired[k] = Minute(now)
  <2>1. up /\ poll \in Nat
    BY <1>5 DEF IInv, WholeIsLoaded, TypeOK
  <2>2. now' = now + 1 /\ now < poll + MaxLate
    BY <1>1, <2>1 DEF Tick
  <2>3. /\ now + 1 = StartOf(Minute(now)) + TicksPerMinute
        /\ StartOf(Minute(now)) \in Nat
    BY <1>2, <2>2, Minutes, NextMinute
  <2>4. CASE fired[k] # Minute(now)
    <3>1. poll < StartOf(Minute(now)) + PollTicks
      BY <1>3, <1>5, <2>4 DEF IInv, TimerIsNear
    <3>2. QED
      BY <1>2, <2>1, <2>2, <2>3, <3>1, SchedulerAssumption
  <2>5. QED
    BY <2>4
<1>6. QED
  BY <1>4, <1>5 DEF meant

\* Whatever the rules, the calendar, the edits and the deaths of the daemon: when a minute
\* is over, a rule that was loaded for all of it was acted on once if its cron means that
\* minute, and any other at most once and only then.
THEOREM RulesAreServed == Spec => RulesServed
<1>1. IInv /\ [Next]_vars =>
        [Minute(now') # Minute(now) =>
           \A k \in Keys :
             LET meant == Len(k[3]) = 5 /\ Meant(k[3], Local)
             IN /\ acted[k] \in IF meant THEN {0, 1} ELSE {0}
                /\ k \in whole /\ meant => acted[k] = 1]_vars
  BY ServedStep
<1>2. QED
  BY <1>1, Invariance, PTL DEF Spec, RulesServed
=============================================================================
