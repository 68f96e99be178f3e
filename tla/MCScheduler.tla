---------------------------- MODULE MCScheduler ----------------------------
(***************************************************************************)
(* Instances of Scheduler for TLC: three minutes across the end of a month *)
(* or into a Sunday, two containers.                                       *)
(***************************************************************************)
EXTENDS Scheduler, TLC

CONSTANTS web, db

N(v) == <<Token(v, v, 0)>>
To(a, b) == <<Token(a, b, 0)>>
By(s) == <<Every(s)>>

Minutely == <<Wild, Wild, Wild, Wild, Wild>>
Rule(action, cron) == [action |-> action, cron |-> cron, enabled |-> TRUE]

At(min, hour, mday, mon, wday) ==
  [min |-> min, hour |-> hour, mday |-> mday, mon |-> mon, wday |-> wday]

\* A Sunday that ends a year, and a Saturday evening.
SomeCalendars ==
  {<<At(58, 23, 31, 12, 0), At(59, 23, 31, 12, 0), At(0, 0, 1, 1, 1)>>,
   <<At(59, 23, 6, 7, 6), At(0, 0, 7, 7, 0), At(1, 0, 7, 7, 0)>>}

\* Steps, ranges, lists, Sunday as 7, a restricted day of either kind or of both.
Crons ==
  {<<By(2), Wild, Wild, Wild, N(7)>>,
   <<N(0) \o To(58, 59), Wild, N(31), Wild, N(1)>>,
   <<<<Token(1, 59, 2)>>, By(23), Wild, By(6), To(5, 7)>>,
   <<N(0), N(0), By(5), To(1, 7), Wild>>,
   <<By(-1), To(0, 22), N(7), Wild, <<Token(1, 7, 3)>>>>,
   <<N(0), Wild, By(-1), Wild, N(3)>>,
   <<Wild, Wild, Wild, Wild>>}

SomeOffered == {Rule("restart", Minutely)}

SomeFiles ==
  {web :> {Rule("restart", Minutely), [Rule("stop", Minutely) EXCEPT !.enabled = FALSE]}
     @@ db :> {Rule("reboot", Minutely), Rule("start", NoCron)}}
  \cup {web :> {Rule("start", c)} @@ db :> {Rule("stop", c)} : c \in Crons}

SomeCheck == <<N(0), N(0), Wild, Wild, Wild>>
=============================================================================
