---------------------------- MODULE NetnsProofs ----------------------------
(***************************************************************************)
(* The safety properties of NetnsProto, proved for any finite set of       *)
(* members and any number of commands, deaths of netifd and faults.        *)
(***************************************************************************)
EXTENDS NetnsProto, FiniteSetTheorems, TLAPS

-----------------------------------------------------------------------------
(* The inductive invariant: what the script has made so far, whoever ended  *)
(* the scripts before it.                                                   *)

\* The places of a setup past the one that makes the name, the pair, the way into the
\* namespace, the address, the bridge and the resolver.
Named == {"unlink", "veth", "move", "address", "master", "resolver", "update", "up"}
Paired == {"move", "address", "master", "resolver", "update", "up"}
Joined == {"address", "master", "resolver", "update", "up"}
Addressed == {"master", "resolver", "update", "up"}
Bridged == {"resolver", "update", "up"}
Resolved == {"update", "up"}

SetupMade ==
  /\ pc \in Named => name # 0
  /\ pc \in Paired => dev.kind = "veth"
  /\ pc = "veth" => dev.kind # "veth"
  /\ pc = "move" => dev.peer = 0
  /\ pc \in Joined => dev.peer = name
  /\ pc \in Addressed => dev.addressed
  /\ pc \in Bridged => dev.bridged = cfg.bridged
  /\ pc \in Resolved => resolv = cfg.dns

TeardownTook ==
  /\ pc \in {"add", "delink", "forget", "down"} => name = 0
  /\ pc = "failed" => name = 0 \/ ~cfg.valid
  /\ pc \in {"forget", "down"} => dev.kind # "veth"
  /\ pc = "down" => ~resolv

IInv == TypeOK /\ SetupMade /\ TeardownTook

-----------------------------------------------------------------------------
(* Namespaces by number.                                                   *)

\* There is always a number for a new namespace: no more are in use than members, the
\* name and the link lead to.
LEMMA FreshSpace ==
  ASSUME mem \in [Members -> Entries]
  PROVE (CHOOSE n \in Spaces : ~Alive(n) /\ dev.peer # n) \in Spaces
<1> DEFINE N == Cardinality(Members)
<1> DEFINE used == (Occupied \cup {name}) \cup {dev.peer}
<1>1. IsFiniteSet(Members) /\ N \in Nat
    BY NetnsAssumption, FS_CardinalityType DEF NetnsAssumption
<1>2. IsFiniteSet(Occupied) /\ Cardinality(Occupied) <= N
    <2> DEFINE space == [m \in Members |-> mem[m].ns]
    <2>1. space \in Surjection(Members, Occupied)
        BY DEF Surjection, Occupied
    <2> HIDE DEF space
    <2> QED
        BY <1>1, <2>1, FS_Surjection
<1>3. IsFiniteSet(used) /\ Cardinality(used) <= N + 2
    <2>1. Cardinality(Occupied) \in Nat
        BY <1>2, FS_CardinalityType
    <2>2. /\ IsFiniteSet(Occupied \cup {name})
          /\ Cardinality(Occupied \cup {name}) \in Nat
          /\ Cardinality(Occupied \cup {name}) <= N + 1
        BY <1>1, <1>2, <2>1, FS_AddElement
    <2>3. Cardinality((Occupied \cup {name}) \cup {dev.peer})
            \in {Cardinality(Occupied \cup {name}), Cardinality(Occupied \cup {name}) + 1}
        BY <2>2, FS_AddElement
    <2>4. IsFiniteSet((Occupied \cup {name}) \cup {dev.peer})
        BY <2>2, FS_AddElement
    <2> QED
        BY <1>1, <2>2, <2>3, <2>4
<1>4. IsFiniteSet(Spaces) /\ Cardinality(Spaces) = N + 3
    BY <1>1, FS_Interval DEF Spaces
<1>5. \E n \in Spaces : n \notin used
    <2> SUFFICES ASSUME Spaces \subseteq used PROVE FALSE
        OBVIOUS
    <2>1. Cardinality(Spaces) <= Cardinality(used)
        BY <1>3, FS_Subset
    <2>2. Cardinality(used) \in Nat
        BY <1>3, FS_CardinalityType
    <2> HIDE DEF used, N
    <2> QED
        BY <1>1, <1>3, <1>4, <2>1, <2>2
<1>6. \E n \in Spaces : ~Alive(n) /\ dev.peer # n
    BY <1>5 DEF Alive
<1> QED
    BY <1>6

\* A quota is spent one by one.
LEMMA Spends ==
  ASSUME TypeOK, NEW k \in {"commands", "deaths", "faults"}, Spend(k)
  PROVE quota' \in [{"commands", "deaths", "faults"} -> Nat]
<1>1. /\ quota \in [{"commands", "deaths", "faults"} -> Nat] /\ quota[k] \in Nat
      /\ quota[k] > 0 /\ quota' = [quota EXCEPT ![k] = quota[k] - 1]
    BY DEF Spend, TypeOK
<1>2. quota[k] - 1 \in Nat
    BY <1>1
<1> QED
    BY <1>1, <1>2

\* What a link of any kind is, and what is left of it when it is deleted.
LEMMA LinkTyped ==
  /\ NotOurs \subseteq Links /\ NewVeth \in Links
  /\ \A l \in NotOurs : l.kind # "veth" /\ l.peer = 0
  /\ NoLink \in NotOurs /\ NoLink.kind = "none" /\ NoLink.peer = 0
  /\ NewVeth.kind = "veth" /\ NewVeth.peer = 0
  BY DEF NotOurs, NoLink, HostLink, ForeignVeth, NewVeth, Links

\* delete_if_veth leaves what is not a veth alone.
LEMMA DeletedIsLink ==
  ASSUME TypeOK
  PROVE /\ DeletedIfVeth \in Links
        /\ DeletedIfVeth \in NotOurs
        /\ DeletedIfVeth.kind # "veth"
        /\ dev.kind = "host" => DeletedIfVeth = dev
  BY LinkTyped DEF TypeOK, DeletedIfVeth

-----------------------------------------------------------------------------
(* What each step keeps of the invariant.                                  *)

\* The initial states satisfy it.
LEMMA InitHolds == Init => IInv
<1> SUFFICES ASSUME Init PROVE IInv
    OBVIOUS
<1>1. quota \in [{"commands", "deaths", "faults"} -> Nat]
    <2>1. Commands \in Nat /\ Deaths \in Nat /\ Faults \in Nat
        BY NetnsAssumption DEF NetnsAssumption
    <2>2. quota = [commands |-> Commands, deaths |-> Deaths, faults |-> Faults]
        BY DEF Init
    <2> QED
        BY <2>1, <2>2
<1>2. Down \in Entries
    BY DEF Down, Entries
<1>3. mem \in [Members -> Entries]
    BY <1>2 DEF Init
<1>4. dev.kind # "veth" /\ dev \in Links /\ dev \in NotOurs
    BY <1>2, LinkTyped DEF Init
<1>5. TypeOK
    BY <1>1, <1>3, <1>4 DEF Init, TypeOK
<1>6. SetupMade /\ TeardownTook
    BY <1>4 DEF Init, SetupMade, TeardownTook, Named, Paired, Joined, Addressed, Bridged,
                Resolved
<1> QED
    BY <1>5, <1>6 DEF IInv

\* The members alone: the script, the name and the link are as they were.
LEMMA MemberHolds ==
  ASSUME IInv, UNCHANGED <<netifdVars, netVars>>, mem' \in [Members -> Entries],
         asked' \in BOOLEAN, quota' \in [{"commands", "deaths", "faults"} -> Nat]
  PROVE IInv'
<1> USE DEF netifdVars, netVars
<1>1. TypeOK'
    BY DEF IInv, TypeOK
<1>2. SetupMade'
    BY DEF IInv, SetupMade
<1>3. TeardownTook'
    BY DEF IInv, TeardownTook
<1> QED
    BY <1>1, <1>2, <1>3 DEF IInv

\* netifd ends the script that runs, or begins one: what the new place asks for is
\* little, and the options change only where a setup begins.
LEMMA NetifdHolds ==
  ASSUME IInv, UNCHANGED <<netVars, mem>>, asked' \in BOOLEAN, again' \in BOOLEAN,
         quota' \in [{"commands", "deaths", "faults"} -> Nat], cfg' \in Configs,
         \/ pc' \in {"clear", "delete"}
         \/ pc' = pc /\ pc \in TeardownSteps \cup {"down"}
  PROVE IInv'
<1> USE DEF netVars, TeardownSteps
<1>1. TypeOK'
    BY DEF IInv, TypeOK, SetupSteps
<1>2. SetupMade'
    BY DEF SetupMade, Named, Paired, Joined, Addressed, Bridged, Resolved
<1>3. TeardownTook'
    BY DEF IInv, TeardownTook
<1> QED
    BY <1>1, <1>2, <1>3 DEF IInv

\* What Reconfigure does to where the script is.
LEMMA Reconfigures ==
  ASSUME TypeOK, NEW up \in BOOLEAN, Reconfigure(up)
  PROVE /\ again' \in BOOLEAN /\ cfg' \in Configs
        /\ \/ pc' \in {"clear", "delete"}
           \/ pc' = pc /\ pc \in TeardownSteps \cup {"down"}
<1>1. CASE pc = "down"
    BY <1>1 DEF Reconfigure, TypeOK
<1>2. CASE pc # "down"
    BY <1>2 DEF Reconfigure, TypeOK
<1> QED
    BY <1>1, <1>2

\* An ifup or ifdown that netifd serves, and its death.
LEMMA NetifdStepsHold ==
  ASSUME IInv, ServeIfup \/ UserCommand \/ NetifdDies
  PROVE IInv'
<1>1. CASE ServeIfup
    BY <1>1, Reconfigures, NetifdHolds DEF ServeIfup, IInv, TypeOK
<1>2. CASE UserCommand
    <2>1. PICK up \in BOOLEAN : Reconfigure(up)
        BY <1>2 DEF UserCommand
    <2> QED
        BY <1>2, <2>1, Reconfigures, NetifdHolds, Spends DEF UserCommand, IInv, TypeOK
<1>3. CASE NetifdDies
    BY <1>3, NetifdHolds, Spends DEF NetifdDies, IInv
<1> QED
    BY <1>1, <1>2, <1>3

\* A namespace the script has joined lives by its name: the kernel reaps no pair that is
\* in use, and no link of the host.
LEMMA ReapHolds ==
  ASSUME IInv, KernelReaps
  PROVE IInv' /\ dev.kind = "veth"
<1>1. /\ dev.peer # 0 /\ ~Alive(dev.peer) /\ dev' = NoLink
      /\ UNCHANGED <<netifdVars, name, resolv, mem, asked, quota>>
    BY DEF KernelReaps
<1>2. dev.kind = "veth" /\ dev.peer # name
    BY <1>1, LinkTyped DEF IInv, TypeOK, Alive
<1>3. pc \notin Joined /\ pc # "move"
    BY <1>1, <1>2 DEF IInv, SetupMade
<1> USE DEF netifdVars
<1>4. TypeOK'
    BY <1>1, LinkTyped DEF IInv, TypeOK
<1>5. SetupMade'
    BY <1>1, <1>3, LinkTyped DEF IInv, SetupMade, Paired, Joined, Addressed, Bridged, Resolved
<1>6. TeardownTook'
    BY <1>1, LinkTyped DEF IInv, TeardownTook
<1> QED
    BY <1>2, <1>4, <1>5, <1>6 DEF IInv

\* A link that somebody makes takes a free name, which a setup past its pair has not.
LEMMA HostAddsHolds ==
  ASSUME IInv, HostAddsLink
  PROVE IInv' /\ dev.kind = "none"
<1>1. /\ dev.kind = "none" /\ Spend("faults") /\ dev' \in NotOurs
      /\ UNCHANGED <<netifdVars, name, resolv, mem, asked>>
    BY DEF HostAddsLink, NotOurs
<1> USE DEF netifdVars
<1>2. dev' \in Links /\ dev'.kind # "veth" /\ dev'.peer = 0
    BY <1>1, LinkTyped
<1>3. TypeOK'
    BY <1>1, <1>2, Spends DEF IInv, TypeOK
<1>4. pc \notin Paired
    BY <1>1 DEF IInv, SetupMade
<1>5. SetupMade'
    BY <1>1, <1>2, <1>4 DEF IInv, SetupMade, Paired, Joined, Addressed, Bridged, Resolved
<1>6. TeardownTook'
    BY <1>1, <1>2 DEF IInv, TeardownTook
<1> QED
    BY <1>1, <1>3, <1>5, <1>6 DEF IInv

Places == SetupSteps \cup TeardownSteps \cup {"down", "up", "failed"}
Quotas == [{"commands", "deaths", "faults"} -> Nat]

\* A step of a setup, whose types are right: the rest of TypeOK is as it was.
LEMMA StepTyped ==
  ASSUME IInv, pc' \in Places, UNCHANGED <<mem, asked>>, again' \in BOOLEAN, cfg' \in Configs,
         name' \in {0} \cup Spaces, resolv' \in BOOLEAN, quota' \in Quotas,
         dev' \in Links, dev'.kind # "veth" => dev' \in NotOurs
  PROVE TypeOK'
  BY DEF IInv, TypeOK, Places, Quotas

\* A setup that fails: no name.
LEMMA FailHolds ==
  ASSUME IInv, NEW link \in Links, FailedSetup(link), quota' \in Quotas,
         link.kind # "veth" => link \in NotOurs,
         UNCHANGED <<again, cfg, mem, asked>>
  PROVE IInv'
<1>1. pc' = "failed" /\ name' = 0 /\ dev' = link /\ UNCHANGED resolv
    BY DEF FailedSetup
<1>2. TypeOK'
    BY <1>1, StepTyped DEF Places, IInv, TypeOK
<1>3. SetupMade'
    BY <1>1 DEF SetupMade, Named, Paired, Joined, Addressed, Bridged, Resolved
<1>4. TeardownTook'
    BY <1>1 DEF TeardownTook
<1> QED
    BY <1>2, <1>3, <1>4 DEF IInv

\* One command of a setup after the other.
LEMMA SetupHolds ==
  ASSUME IInv, SetupStep
  PROVE IInv' /\ (dev.kind = "host" => dev' = dev)
<1> USE DEF Named, Paired, Joined, Addressed, Bridged, Resolved, At, netVars
<1>1. UNCHANGED <<again, cfg, mem, asked>> /\ TypeOK /\ SetupMade
    BY DEF SetupStep, IInv
<1>2. /\ quota \in Quotas /\ dev \in Links /\ (dev.kind # "veth" => dev \in NotOurs)
      /\ name \in {0} \cup Spaces /\ resolv \in BOOLEAN /\ again \in BOOLEAN
      /\ cfg \in Configs /\ cfg.bridged \in BOOLEAN /\ cfg.dns \in BOOLEAN
    BY <1>1 DEF TypeOK, Quotas, Configs
<1>3. Spend("faults") => quota' \in Quotas
    BY <1>1, Spends DEF Quotas
<1>0. CASE RejectConfig
    <2>1. TypeOK'
        BY <1>0, <1>1, <1>2, StepTyped DEF RejectConfig, Places
    <2> QED
        BY <1>0, <1>1, <2>1 DEF RejectConfig, IInv, SetupMade, TeardownTook
<1>4. CASE ClearName
    <2>1. TypeOK'
        BY <1>1, <1>2, <1>4, StepTyped DEF ClearName, Places, SetupSteps
    <2> QED
        BY <1>4, <2>1 DEF ClearName, IInv, SetupMade, TeardownTook
<1>5. CASE AddNetns
    <2>1. CASE pc' = "unlink"
        <3>1. name' \in Spaces /\ UNCHANGED <<dev, resolv, quota>>
            BY <1>1, <1>5, <2>1, FreshSpace DEF AddNetns, TypeOK
        <3>2. name' # 0
            <4>1. Cardinality(Members) \in Nat
                BY NetnsAssumption, FS_CardinalityType DEF NetnsAssumption
            <4> QED
                BY <3>1, <4>1 DEF Spaces
        <3>3. TypeOK'
            BY <1>1, <1>2, <2>1, <3>1, StepTyped DEF Places, SetupSteps
        <3> QED
            BY <2>1, <3>1, <3>2, <3>3 DEF IInv, SetupMade, TeardownTook
    <2>2. CASE pc' = "failed"
        <3>1. pc = "add" /\ UNCHANGED <<name, dev, resolv>> /\ quota' \in Quotas
            BY <1>3, <1>5, <2>2 DEF AddNetns
        <3>2. TypeOK'
            BY <1>1, <1>2, <2>2, <3>1, StepTyped DEF Places
        <3>3. name = 0
            BY <3>1 DEF IInv, TeardownTook
        <3> QED
            BY <2>2, <3>1, <3>2, <3>3 DEF IInv, SetupMade, TeardownTook
    <2> QED
        BY <1>5, <2>1, <2>2 DEF AddNetns
<1>6. CASE ClearLink
    <2>1. /\ pc = "unlink" /\ pc' = "veth" /\ dev' = DeletedIfVeth
          /\ UNCHANGED <<name, resolv, quota>>
        BY <1>6 DEF ClearLink
    <2>2. dev' \in Links /\ dev' \in NotOurs /\ dev'.kind # "veth"
          /\ (dev.kind = "host" => dev' = dev)
        BY <1>1, <2>1, DeletedIsLink
    <2>3. TypeOK'
        BY <1>1, <1>2, <2>1, <2>2, StepTyped DEF Places, SetupSteps
    <2> QED
        BY <1>1, <2>1, <2>2, <2>3 DEF IInv, SetupMade, TeardownTook
<1>7. CASE AddVeth
    <2>1. CASE pc' = "move"
        <3>1. /\ pc = "veth" /\ dev.kind = "none" /\ dev' = NewVeth
              /\ UNCHANGED <<name, resolv, quota>>
            BY <1>7, <2>1 DEF AddVeth, FailedSetup
        <3>2. TypeOK'
            BY <1>1, <1>2, <2>1, <3>1, LinkTyped, StepTyped DEF Places, SetupSteps
        <3> QED
            BY <1>1, <2>1, <3>1, <3>2, LinkTyped DEF IInv, SetupMade, TeardownTook
    <2>2. CASE FailedSetup(dev)
        <3>1. quota' \in Quotas
            BY <1>2, <1>3, <1>7, <2>2 DEF AddVeth, FailedSetup
        <3> QED
            BY <1>1, <1>2, <2>2, <3>1, FailHolds DEF FailedSetup
    <2> QED
        BY <1>7, <2>1, <2>2 DEF AddVeth
<1>8. CASE MovePeer
    <2>1. /\ pc = "move" /\ pc' = "address" /\ dev' = [dev EXCEPT !.peer = name]
          /\ UNCHANGED <<name, resolv, quota>>
        BY <1>8 DEF MovePeer
    <2>2. dev.kind = "veth" /\ name # 0
        BY <1>1, <2>1 DEF SetupMade
    <2>3. dev' \in Links /\ dev'.kind = "veth" /\ dev'.peer = name
        BY <1>2, <2>1, <2>2 DEF Links
    <2>4. TypeOK'
        BY <1>1, <1>2, <2>1, <2>3, StepTyped DEF Places, SetupSteps
    <2> QED
        BY <2>1, <2>2, <2>3, <2>4 DEF IInv, SetupMade, TeardownTook
<1>9. CASE AddressPeer
    <2>1. /\ pc = "address" /\ pc' = "master" /\ dev' = [dev EXCEPT !.addressed = TRUE]
          /\ UNCHANGED <<name, resolv, quota>>
        BY <1>9 DEF AddressPeer
    <2>2. dev.kind = "veth" /\ name # 0 /\ dev.peer = name
        BY <1>1, <2>1 DEF SetupMade
    <2>3. dev' \in Links /\ dev'.kind = "veth" /\ dev'.peer = name /\ dev'.addressed
        BY <1>2, <2>1, <2>2 DEF Links
    <2>4. TypeOK'
        BY <1>1, <1>2, <2>1, <2>3, StepTyped DEF Places, SetupSteps
    <2> QED
        BY <2>1, <2>2, <2>3, <2>4 DEF IInv, SetupMade, TeardownTook
<1>10. CASE JoinBridge
    <2>1. CASE pc' = "resolver"
        <3>1. /\ pc = "master" /\ dev' = [dev EXCEPT !.bridged = cfg.bridged]
              /\ UNCHANGED <<name, resolv, quota>>
            BY <1>10, <2>1 DEF JoinBridge, FailedSetup
        <3>2. dev.kind = "veth" /\ name # 0 /\ dev.peer = name /\ dev.addressed
            BY <1>1, <3>1 DEF SetupMade
        <3>3. dev' \in Links /\ dev'.kind = "veth" /\ dev'.peer = name /\ dev'.addressed
              /\ dev'.bridged = cfg.bridged
            BY <1>2, <3>1, <3>2 DEF Links
        <3>4. TypeOK'
            BY <1>1, <1>2, <2>1, <3>1, <3>3, StepTyped DEF Places, SetupSteps
        <3> QED
            BY <1>1, <2>1, <3>1, <3>2, <3>3, <3>4 DEF IInv, SetupMade, TeardownTook
    <2>2. CASE FailedSetup(DeletedIfVeth)
        <3>1. quota' \in Quotas
            BY <1>2, <1>3, <1>10, <2>2 DEF JoinBridge, FailedSetup
        <3>2. DeletedIfVeth \in Links /\ DeletedIfVeth \in NotOurs
              /\ (dev.kind = "host" => DeletedIfVeth = dev)
            BY <1>1, DeletedIsLink
        <3> QED
            BY <1>1, <2>2, <3>1, <3>2, FailHolds DEF FailedSetup
    <2> QED
        BY <1>10, <2>1, <2>2 DEF JoinBridge
<1>11. CASE WriteResolver
    <2>1. TypeOK'
        BY <1>1, <1>2, <1>11, StepTyped DEF WriteResolver, Places, SetupSteps
    <2> QED
        BY <1>1, <1>11, <2>1 DEF WriteResolver, IInv, SetupMade, TeardownTook
<1>12. CASE SendUpdate
    <2>1. TypeOK'
        BY <1>1, <1>2, <1>12, StepTyped DEF SendUpdate, Places
    <2> QED
        BY <1>1, <1>12, <2>1 DEF SendUpdate, IInv, SetupMade, TeardownTook
<1> QED
    BY <1>0, <1>4, <1>5, <1>6, <1>7, <1>8, <1>9, <1>10, <1>11, <1>12 DEF SetupStep

\* One command of a teardown after the other.
LEMMA TeardownHolds ==
  ASSUME IInv, TeardownStep
  PROVE IInv' /\ (dev.kind = "host" => dev' = dev)
<1> USE DEF Named, Paired, Joined, Addressed, Bridged, Resolved, At
<1>1. UNCHANGED <<mem, asked>> /\ again' \in BOOLEAN /\ TypeOK /\ TeardownTook
      /\ cfg' \in Configs
    <2>1. TypeOK /\ TeardownTook /\ UNCHANGED <<mem, asked>>
        BY DEF TeardownStep, IInv
    <2>2. cfg' \in Configs
        BY <2>1 DEF TeardownStep, TypeOK
    <2>3. again' = (again /\ pc # "forget") /\ again \in BOOLEAN
        BY <2>1 DEF TeardownStep, TypeOK
    <2>4. again' \in BOOLEAN
        BY <2>3
    <2> QED
        BY <2>1, <2>2, <2>4
<1>2. /\ quota \in Quotas /\ dev \in Links /\ (dev.kind # "veth" => dev \in NotOurs)
      /\ name \in {0} \cup Spaces /\ resolv \in BOOLEAN
    BY <1>1 DEF TypeOK, Quotas
<1>3. CASE DeleteNetns
    <2>1. TypeOK'
        BY <1>1, <1>2, <1>3, StepTyped DEF DeleteNetns, Places, TeardownSteps
    <2> QED
        BY <1>3, <2>1 DEF DeleteNetns, IInv, SetupMade, TeardownTook
<1>4. CASE DeleteLink
    <2>1. /\ pc = "delink" /\ pc' = "forget" /\ dev' = DeletedIfVeth
          /\ UNCHANGED <<name, resolv, quota>>
        BY <1>4 DEF DeleteLink
    <2>2. dev' \in Links /\ dev' \in NotOurs /\ dev'.kind # "veth"
          /\ (dev.kind = "host" => dev' = dev)
        BY <1>1, <2>1, DeletedIsLink
    <2>3. TypeOK'
        BY <1>1, <1>2, <2>1, <2>2, StepTyped DEF Places, TeardownSteps
    <2> QED
        BY <1>1, <2>1, <2>2, <2>3 DEF IInv, SetupMade, TeardownTook
<1>5. CASE ForgetResolver
    <2>1. /\ pc = "forget" /\ pc' \in {"clear", "down"} /\ resolv' = FALSE
          /\ UNCHANGED <<name, dev, quota>>
        BY <1>5 DEF ForgetResolver
    <2>2. TypeOK'
        BY <1>1, <1>2, <2>1, StepTyped DEF Places, SetupSteps
    <2> QED
        BY <1>1, <2>1, <2>2 DEF IInv, SetupMade, TeardownTook
<1> QED
    BY <1>3, <1>4, <1>5 DEF TeardownStep

\* What uxcd and its members do.
LEMMA MemberStepsHold ==
  ASSUME IInv,
         \/ \E m \in Members : Launch(m) \/ LaunchLacksInfra(m) \/ Join(m) \/ MemberExits(m)
         \/ InfraWatchdog
  PROVE IInv' /\ dev' = dev
<1>1. TypeOK /\ mem \in [Members -> Entries] /\ name \in {0} \cup Spaces /\ asked \in BOOLEAN
      /\ quota \in [{"commands", "deaths", "faults"} -> Nat]
    BY DEF IInv, TypeOK
<1>2. Ask => asked' \in BOOLEAN /\ quota' \in [{"commands", "deaths", "faults"} -> Nat]
    BY <1>1, Spends DEF Ask
<1>3. ASSUME NEW m \in Members, Launch(m) PROVE IInv' /\ dev' = dev
    <2>1. mem[m] \in Entries /\ [mem[m] EXCEPT !.st = "forked"] \in Entries
        BY <1>1 DEF Entries
    <2>2. mem' \in [Members -> Entries]
        BY <1>1, <1>3, <2>1 DEF Launch
    <2> QED
        BY <1>1, <1>3, <2>2, MemberHolds DEF Launch, netVars
<1>4. ASSUME NEW m \in Members, LaunchLacksInfra(m) PROVE IInv' /\ dev' = dev
    BY <1>1, <1>2, <1>4, MemberHolds DEF LaunchLacksInfra, netVars
<1>5. ASSUME NEW m \in Members, Join(m) PROVE IInv' /\ dev' = dev
    <2>1. Down \in Entries /\ mem[m] \in Entries
        BY <1>1 DEF Down, Entries
    <2>2. name # 0 => [mem[m] EXCEPT !.st = "up", !.ns = name] \in Entries
        BY <1>1, <2>1 DEF Entries
    <2>3. mem' \in [Members -> Entries]
        BY <1>1, <1>5, <2>1, <2>2 DEF Join
    <2> QED
        BY <1>1, <1>5, <2>3, MemberHolds DEF Join, netVars
<1>6. ASSUME NEW m \in Members, MemberExits(m) PROVE IInv' /\ dev' = dev
    <2>1. Down \in Entries
        BY DEF Down, Entries
    <2>2. mem' \in [Members -> Entries]
        BY <1>1, <1>6, <2>1 DEF MemberExits
    <2>3. quota' \in [{"commands", "deaths", "faults"} -> Nat]
        BY <1>1, <1>6, Spends DEF MemberExits
    <2> QED
        BY <1>1, <1>6, <2>2, <2>3, MemberHolds DEF MemberExits, netVars
<1>7. CASE InfraWatchdog
    <2>1. ASSUME NEW m \in Members
          PROVE [mem[m] EXCEPT !.term = (mem[m].st # "down")] \in Entries
        <3>1. mem[m] \in Entries /\ (mem[m].st # "down") \in BOOLEAN
            BY <1>1
        <3> QED
            BY <3>1 DEF Entries
    <2>2. mem' \in [Members -> Entries]
        BY <1>7, <2>1 DEF InfraWatchdog
    <2> QED
        BY <1>1, <1>2, <1>7, <2>2, MemberHolds DEF InfraWatchdog, netVars
<1> QED
    BY <1>3, <1>4, <1>5, <1>6, <1>7

-----------------------------------------------------------------------------
(* The theorems.                                                           *)

\* Every step keeps the invariant, and a link of the host.
LEMMA Steps == IInv /\ [Next]_vars => IInv' /\ (dev.kind = "host" => dev' = dev)
<1> SUFFICES ASSUME IInv, [Next]_vars PROVE IInv' /\ (dev.kind = "host" => dev' = dev)
    OBVIOUS
<1>1. CASE SetupStep
    BY <1>1, SetupHolds
<1>2. CASE TeardownStep
    BY <1>2, TeardownHolds
<1>3. CASE ServeIfup \/ UserCommand \/ NetifdDies
    <2>1. IInv'
        BY <1>3, NetifdStepsHold
    <2>2. dev' = dev
        BY <1>3 DEF ServeIfup, UserCommand, NetifdDies, netVars
    <2> QED
        BY <2>1, <2>2
<1>4. CASE KernelReaps
    BY <1>4, ReapHolds
<1>7. CASE HostAddsLink
    BY <1>7, HostAddsHolds
<1>5. CASE \/ \E m \in Members : Launch(m) \/ LaunchLacksInfra(m) \/ Join(m) \/ MemberExits(m)
           \/ InfraWatchdog
    BY <1>5, MemberStepsHold
<1>6. CASE UNCHANGED vars
    BY <1>6, MemberHolds DEF vars, netifdVars, netVars, IInv, TypeOK
<1> QED
    BY <1>1, <1>2, <1>3, <1>4, <1>5, <1>6, <1>7 DEF Next

\* The invariant holds of every behaviour.
LEMMA Invariance == Spec => []IInv
<1>1. Init => IInv
    BY InitHolds
<1>2. IInv /\ [Next]_vars => IInv'
    BY Steps
<1> QED
    BY <1>1, <1>2, PTL DEF Spec

\* Every variable stays in its domain: there is always a number for a new namespace, and
\* only a veth ever has a peer or is put into a bridge (netns.sh goes on only with a pair
\* it made).
THEOREM NetworkIsTyped == Spec => []TypeOK
<1>1. IInv => TypeOK
    BY DEF IInv
<1> QED
    BY <1>1, Invariance, PTL

\* A script that came to its end leaves the network configured now or no name, whatever
\* became of the scripts before it, of netifd, of the members, however many, and of links
\* of the host with that name; a setup that refused its options is excepted
\* (proto_netns_setup, proto_netns_teardown).
THEOREM ScriptsEndClean == Spec => []EndsClean
<1>1. IInv => EndsClean
    <2> SUFFICES ASSUME IInv PROVE EndsClean
        OBVIOUS
    <2>1. UpIsWired
        <3> SUFFICES ASSUME pc = "up"
                     PROVE /\ name # 0
                           /\ dev = [kind |-> "veth", peer |-> name, addressed |-> TRUE,
                                     bridged |-> cfg.bridged]
                           /\ resolv = cfg.dns
            BY DEF UpIsWired
        <3>1. /\ name # 0 /\ dev.kind = "veth" /\ dev.peer = name /\ dev.addressed
              /\ dev.bridged = cfg.bridged /\ resolv = cfg.dns /\ dev \in Links
            BY DEF IInv, TypeOK, SetupMade, Named, Paired, Joined, Addressed, Bridged, Resolved
        <3>2. dev.addressed = TRUE
            BY <3>1 DEF Links
        <3> QED
            BY <3>1, <3>2 DEF Links
    <2>2. DownLeavesNothing /\ FailedIsAbsent
        BY DEF IInv, TeardownTook, DownLeavesNothing, FailedIsAbsent
    <2> QED
        BY <2>1, <2>2 DEF EndsClean
<1> QED
    BY <1>1, Invariance, PTL

\* No step touches a link of the host that is no veth and has the name of ours
\* (delete_if_veth).
THEOREM HostLinkIsSpared == Spec => HostLinkSpared
<1>1. IInv /\ [Next]_vars => [dev.kind = "host" => dev' = dev]_vars
    BY Steps
<1> QED
    BY <1>1, Invariance, PTL DEF Spec, HostLinkSpared
=============================================================================
