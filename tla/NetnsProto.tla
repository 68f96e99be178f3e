----------------------------- MODULE NetnsProto -----------------------------
(***************************************************************************)
(* One shared network namespace: netifd's protocol handler netns.sh, which *)
(* makes and removes it command by command, the members uxcd launches into *)
(* it meanwhile, and the kernel, for which a deleted namespace lives on    *)
(* while a process is in it.                                               *)
(*                                                                         *)
(* netifd runs one script of an interface at a time and ends a setup it no *)
(* longer wants; it may die, and sets the interface up again when it       *)
(* returns.  Every member is wanted up.                                    *)
(***************************************************************************)
EXTENDS Naturals, FiniteSets

CONSTANTS
  Members,    \* containers whose infra this namespace is
  Commands,   \* how many times a user runs ifup or ifdown, or uxcd runs ifup in the
              \* middle of a script: its requests are seconds apart, a script is shorter
  Deaths,     \* how many times netifd may die
  Faults      \* how many commands of the script fail, members exit by themselves, or links
              \* of the host appear under the name of ours

ASSUME NetnsAssumption ==
  /\ IsFiniteSet(Members)
  /\ Commands \in Nat /\ Deaths \in Nat /\ Faults \in Nat

VARIABLES
  pc,         \* where the script is, or how it ended
  again,      \* a setup follows this teardown
  cfg,        \* the options of the current setup
  name,       \* the namespace /var/run/netns/<name> is, 0 if there is none
  dev,        \* the host link called <device>, and its peer in a namespace
  resolv,     \* /etc/netns/<name>/resolv.conf exists
  mem,        \* the members
  asked,      \* an ifup of uxcd that netifd has not served
  quota

vars == <<pc, again, cfg, name, dev, resolv, mem, asked, quota>>
netVars == <<name, dev, resolv>>
netifdVars == <<pc, again, cfg>>

\* Namespaces by number: the named one, one for each member left on an older one, one
\* more that a link not yet reaped leads to; a number is used again once nothing does.
Spaces == 1 .. Cardinality(Members) + 3

SetupSteps == {"clear", "add", "unlink", "veth", "move", "address", "master", "resolver", "update"}
TeardownSteps == {"delete", "delink", "forget"}
\* valid: it has an ipaddr and a netmask that can be read.
Configs == [valid : BOOLEAN, bridged : BOOLEAN, dns : BOOLEAN]

\* A link of this name that is not the script's is a bridge, a port... ("host") or a veth
\* of somebody else ("foreign"), which the script does not tell from its own.
Links == [kind : {"none", "host", "foreign", "veth"}, peer : {0} \cup Spaces, addressed : BOOLEAN, bridged : BOOLEAN]
NoLink == [kind |-> "none", peer |-> 0, addressed |-> FALSE, bridged |-> FALSE]
HostLink == [kind |-> "host", peer |-> 0, addressed |-> FALSE, bridged |-> FALSE]
ForeignVeth == [kind |-> "foreign", peer |-> 0, addressed |-> FALSE, bridged |-> FALSE]
NewVeth == [kind |-> "veth", peer |-> 0, addressed |-> FALSE, bridged |-> FALSE]
NotOurs == {NoLink, HostLink, ForeignVeth}
Entries == [st : {"down", "forked", "up"}, ns : {0} \cup Spaces, term : BOOLEAN]
Down == [st |-> "down", ns |-> 0, term |-> FALSE]

Occupied == {mem[m].ns : m \in Members}
Alive(n) == n = name \/ n \in Occupied
Spend(k) == quota[k] > 0 /\ quota' = [quota EXCEPT ![k] = @ - 1]

-----------------------------------------------------------------------------
(* The script, one command after the other.                                *)

\* Mutant: the link is deleted whatever it is.
DeletedLink == NoLink

\* delete_if_veth: whose veth it is, it does not ask.
DeletedIfVeth == IF dev.kind \in {"veth", "foreign"} THEN NoLink ELSE dev

At(step, next) == pc = step /\ pc' = next

\* A command of proto_netns_setup fails: what was made goes again.
FailedSetup(link) ==
  /\ pc' = "failed"
  /\ name' = 0 /\ dev' = link
  /\ UNCHANGED resolv

\* No ipaddr, or no netmask: an error before anything is touched.
RejectConfig ==
  /\ At("clear", "failed") /\ ~cfg.valid
  /\ UNCHANGED <<netVars, quota>>

ClearName ==
  /\ At("clear", "add") /\ cfg.valid
  /\ name' = 0
  /\ UNCHANGED <<dev, resolv, quota>>

AddNetns ==
  \/ /\ At("add", "unlink")
     /\ name' = CHOOSE n \in Spaces : ~Alive(n) /\ dev.peer # n
     /\ UNCHANGED <<dev, resolv, quota>>
  \/ /\ At("add", "failed") /\ Spend("faults")
     /\ UNCHANGED netVars

ClearLink ==
  /\ At("unlink", "veth")
  /\ dev' = DeletedIfVeth
  /\ UNCHANGED <<name, resolv, quota>>

\* Mutant: the script goes on when the pair could not be made.
AddVethUnchecked ==
  /\ At("veth", "move")
  /\ dev' = IF dev.kind = "none" THEN NewVeth ELSE dev
  /\ UNCHANGED <<name, resolv, quota>>

AddVeth ==
  \/ /\ At("veth", "move") /\ dev.kind = "none"
     /\ dev' = NewVeth
     /\ UNCHANGED <<name, resolv, quota>>
  \/ /\ pc = "veth"
     /\ IF dev.kind # "none" THEN UNCHANGED quota ELSE Spend("faults")
     /\ FailedSetup(dev)

MovePeer ==
  /\ At("move", "address")
  /\ dev' = [dev EXCEPT !.peer = name]
  /\ UNCHANGED <<name, resolv, quota>>

AddressPeer ==
  /\ At("address", "master")
  /\ dev' = [dev EXCEPT !.addressed = TRUE]
  /\ UNCHANGED <<name, resolv, quota>>

JoinBridge ==
  \/ /\ At("master", "resolver")
     /\ dev' = [dev EXCEPT !.bridged = cfg.bridged]
     /\ UNCHANGED <<name, resolv, quota>>
  \/ /\ pc = "master" /\ cfg.bridged /\ Spend("faults")
     /\ FailedSetup(DeletedIfVeth)

\* Mutant: a resolver no longer configured is left there.
WriteResolverOnly ==
  /\ At("resolver", "update")
  /\ resolv' = (resolv \/ cfg.dns)
  /\ UNCHANGED <<name, dev, quota>>

WriteResolver ==
  /\ At("resolver", "update")
  /\ resolv' = cfg.dns
  /\ UNCHANGED <<name, dev, quota>>

SendUpdate == At("update", "up") /\ UNCHANGED <<netVars, quota>>

\* proto_netns_teardown
DeleteNetns ==
  /\ At("delete", "delink")
  /\ name' = 0
  /\ UNCHANGED <<dev, resolv, quota>>

DeleteLink ==
  /\ At("delink", "forget")
  /\ dev' = DeletedIfVeth
  /\ UNCHANGED <<name, resolv, quota>>

ForgetResolver ==
  /\ pc = "forget" /\ pc' = IF again THEN "clear" ELSE "down"
  /\ resolv' = FALSE
  /\ UNCHANGED <<name, dev, quota>>

SetupStep ==
  /\ \/ RejectConfig \/ ClearName \/ AddNetns \/ ClearLink \/ AddVeth \/ MovePeer \/ AddressPeer
     \/ JoinBridge \/ WriteResolver \/ SendUpdate
  /\ UNCHANGED <<again, cfg, mem, asked>>

TeardownStep ==
  /\ DeleteNetns \/ DeleteLink \/ ForgetResolver
  /\ again' = (again /\ pc # "forget")
  /\ cfg' \in IF pc' = "clear" THEN Configs ELSE {cfg}
  /\ UNCHANGED <<mem, asked>>

-----------------------------------------------------------------------------
(* netifd.                                                                 *)

\* The interface goes down, and up again if up: a setup that runs is ended where it is.
Reconfigure(up) ==
  IF pc = "down" THEN
    /\ pc' = IF up THEN "clear" ELSE "down"
    /\ cfg' \in IF up THEN Configs ELSE {cfg}
    /\ UNCHANGED again
  ELSE
    /\ pc' = IF pc \in TeardownSteps THEN pc ELSE "delete"
    /\ again' = up
    /\ UNCHANGED cfg

ServeIfup ==
  /\ asked /\ asked' = FALSE
  /\ Reconfigure(TRUE)
  /\ UNCHANGED <<netVars, mem, quota>>

UserCommand ==
  /\ Spend("commands")
  /\ \E up \in BOOLEAN : Reconfigure(up)
  /\ UNCHANGED <<netVars, mem, asked>>

NetifdDies ==
  /\ Spend("deaths")
  /\ pc' = "clear" /\ again' = FALSE /\ cfg' \in Configs /\ asked' = FALSE
  /\ UNCHANGED <<netVars, mem>>

\* The kernel ends a namespace nothing uses, and the pair with it, some time later.
KernelReaps ==
  /\ dev.peer # 0 /\ ~Alive(dev.peer)
  /\ dev' = NoLink
  /\ UNCHANGED <<netifdVars, name, resolv, mem, asked, quota>>

\* Somebody makes a link of that name.
HostAddsLink ==
  /\ dev.kind = "none" /\ Spend("faults")
  /\ dev' \in {HostLink, ForeignVeth}
  /\ UNCHANGED <<netifdVars, name, resolv, mem, asked>>

-----------------------------------------------------------------------------
(* uxcd and its members.                                                   *)

\* ensure_infra runs ifup.
Ask ==
  /\ asked' = TRUE
  /\ IF pc \in SetupSteps \cup TeardownSteps THEN Spend("commands") ELSE UNCHANGED quota

\* launch() finds the namespace.
Launch(m) ==
  /\ mem[m].st = "down" /\ name # 0
  /\ mem' = [mem EXCEPT ![m].st = "forked"]
  /\ UNCHANGED <<netifdVars, netVars, asked, quota>>

\* launch() does not find it, and is tried again later.
LaunchLacksInfra(m) ==
  /\ mem[m].st = "down" /\ name = 0
  /\ Ask
  /\ UNCHANGED <<netifdVars, netVars, mem>>

\* ujail opens the path of the bundle that was written for it, and exits if it is gone.
Join(m) ==
  /\ mem[m].st = "forked"
  /\ mem' = [mem EXCEPT ![m] = IF name = 0 THEN Down ELSE [@ EXCEPT !.st = "up", !.ns = name]]
  /\ UNCHANGED <<netifdVars, netVars, asked, quota>>

MemberExits(m) ==
  /\ mem[m].st # "down"
  /\ IF mem[m].term THEN UNCHANGED quota ELSE Spend("faults")
  /\ mem' = [mem EXCEPT ![m] = Down]
  /\ UNCHANGED <<netifdVars, netVars, asked>>

\* Mutant: members are told to go, but nothing brings the namespace back.
RestartMembers ==
  /\ name = 0
  /\ mem' = [m \in Members |-> [mem[m] EXCEPT !.term = (mem[m].st # "down")]]
  /\ UNCHANGED <<netifdVars, netVars, asked, quota>>

\* infra_watchdog
InfraWatchdog ==
  /\ name = 0
  /\ Ask
  /\ mem' = [m \in Members |-> [mem[m] EXCEPT !.term = (mem[m].st # "down")]]
  /\ UNCHANGED <<netifdVars, netVars>>

-----------------------------------------------------------------------------
Init ==
  /\ pc = "down" /\ again = FALSE /\ cfg \in Configs
  /\ name = 0 /\ dev \in NotOurs /\ resolv = FALSE
  /\ mem = [m \in Members |-> Down]
  /\ asked = FALSE
  /\ quota = [commands |-> Commands, deaths |-> Deaths, faults |-> Faults]

Next ==
  \/ SetupStep \/ TeardownStep
  \/ ServeIfup \/ UserCommand \/ NetifdDies \/ KernelReaps \/ HostAddsLink
  \/ \E m \in Members : Launch(m) \/ LaunchLacksInfra(m) \/ Join(m) \/ MemberExits(m)
  \/ InfraWatchdog

Spec == Init /\ [][Next]_vars

\* netifd serves an ifup and its scripts run; the watchdog ticks.
FairSpec ==
  /\ Spec
  /\ WF_vars(SetupStep) /\ WF_vars(TeardownStep)
  /\ WF_vars(ServeIfup) /\ WF_vars(InfraWatchdog)

-----------------------------------------------------------------------------
(* Properties.                                                             *)

\* Types; only a veth has a peer or is put into a bridge (netns.sh checks that it made
\* the pair before it goes on).
TypeOK ==
  /\ pc \in SetupSteps \cup TeardownSteps \cup {"down", "up", "failed"}
  /\ again \in BOOLEAN /\ asked \in BOOLEAN /\ resolv \in BOOLEAN
  /\ cfg \in Configs
  /\ name \in {0} \cup Spaces
  /\ dev \in Links /\ (dev.kind # "veth" => dev \in NotOurs)
  /\ mem \in [Members -> Entries]
  /\ quota \in [{"commands", "deaths", "faults"} -> Nat]

\* After a teardown, though members still live on the namespace, and though it follows
\* a setup that was ended anywhere (proto_netns_teardown).
DownLeavesNothing ==
  pc = "down" => name = 0 /\ dev.kind # "veth" /\ ~resolv

\* When netifd is told that the network is up: the name, the pair, the bridge and the
\* resolver are those configured now (proto_send_update at the end of the setup).
UpIsWired ==
  pc = "up" =>
    /\ name # 0
    /\ dev = [kind |-> "veth", peer |-> name, addressed |-> TRUE, bridged |-> cfg.bridged]
    /\ resolv = cfg.dns

\* After a setup that failed once it had begun (the ip netns delete before each error). One
\* that refused its options has touched nothing: a name that an earlier life of netifd
\* left is still there, and members are launched into it.
FailedIsAbsent == pc = "failed" => name = 0 \/ ~cfg.valid

\* However the scripts before it were ended, and whatever an earlier life of netifd,
\* members on an older namespace or links of the host left, a script that came to its end
\* leaves the network that is configured now, or no name for uxcd to launch members into,
\* unless it refused its options.
EndsClean == UpIsWired /\ DownLeavesNothing /\ FailedIsAbsent

\* A link of the host that is no veth but has the name of ours is never touched
\* (delete_if_veth); a veth of somebody else is deleted.
HostLinkSpared == [][dev.kind = "host" => dev' = dev]_vars

\* A namespace that is missing comes back while it has members, unless a link of the
\* host has the name or the options are refused (infra_watchdog, ensure_infra).
OutageEnds == name = 0 ~> \/ pc = "up" \/ dev.kind = "host"
                          \/ pc = "failed" /\ ~cfg.valid
=============================================================================
