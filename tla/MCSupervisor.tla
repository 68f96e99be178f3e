---------------------------- MODULE MCSupervisor ----------------------------
(***************************************************************************)
(* Instances of Supervisor for TLC: the configurations that its .cfg files *)
(* register and offer.                                                     *)
(***************************************************************************)
EXTENDS Supervisor, TLC

CONSTANTS a, b, c3, lan, typo, none

Plain == [bundle |-> TRUE, autostart |-> TRUE, respawn |-> TRUE, hc |-> FALSE,
          hc_restart |-> FALSE, infra |-> NoInfra, depends_on |-> <<>>]
NoRespawn == [Plain EXCEPT !.respawn = FALSE]
Probed == [Plain EXCEPT !.hc = TRUE]
Healing == [Plain EXCEPT !.hc = TRUE, !.hc_restart = TRUE]
On(ds) == [Plain EXCEPT !.depends_on = ds]
In(i) == [Plain EXCEPT !.infra = i]
Manual(cfg) == [cfg EXCEPT !.autostart = FALSE]

Nothing == [c \in Container |-> {}]
Register(f) == [c \in Container |-> IF c \in DOMAIN f THEN f[c] ELSE NoFile]

\* One container and a free name: every command, exits, one daemon restart.
LifeOffered == [c \in Container |-> IF c = a THEN {NoRespawn, Healing} ELSE {}]
LifeRegistries == {Register(a :> Healing)}

\* a -> b -> c3 -> a, and c3 -> b -> a where a has a healthcheck.
Graphs == {Register(a :> Manual(On(<<b>>)) @@ b :> Manual(On(<<c3>>)) @@ c3 :> Manual(On(<<a>>))),
           Register(a :> Manual(Probed) @@ b :> Manual(On(<<a>>)) @@ c3 :> On(<<b>>))}

\* A container that probes itself, two members of one infra, and a member of an infra
\* netifd does not know; any of them may be mistyped into such an infra later.
OutcomesOffered == [c \in Container |-> IF c = a THEN {In(typo)} ELSE {}]
Outcomes == {Register(a :> Healing), Register(a :> In(lan) @@ b :> In(lan)), Register(a :> In(typo))}

NoRespawnRegistries == {Register(a :> NoRespawn)}
=============================================================================
