--------------------------- MODULE RegistryProofs ---------------------------
(***************************************************************************)
(* RegistryFiles implements Registry: proved for any names, bundles and    *)
(* registries, any number of requests, deaths and failing calls.           *)
(***************************************************************************)
EXTENDS RegistryFiles, TLAPS

-----------------------------------------------------------------------------
(* The inductive invariant.  It says of each request how far the files are *)
(* from what they were when it began.                                      *)

Trouble == quota.deaths + quota.faults

\* Something went wrong since the request began.
Hurt == Trouble < before.trouble

Puts == {"write", "backup", "replace"}

PlacesOf ==
  [none |-> {""}, setconfig |-> {"reply"}, create |-> {"open", "fill"},
   remove |-> {"unlink", "forget"}, rename |-> {"copy", "publish", "retire", "repoint"},
   rollback |-> {"aside", "restore", "keep", "provenance", "reply"},
   prune |-> {"delete", "remove"}, login |-> {"write", "replace"},
   logout |-> {"write", "replace"}]

FilesTyped ==
  /\ json \in [Name -> File] /\ bak \in [Name -> File] /\ tmp \in [Name -> File]
  /\ auth \in [json : SUBSET Hub, tmp : SUBSET Hub]
  /\ bundle \in [Path -> A!Dirs]
  /\ before \in [reg : [Name -> File], bundle : [Path -> A!Dirs], auths : SUBSET Hub,
               trouble : Nat]
  /\ quota \in [{"commands", "deaths", "faults"} -> Nat]

OpTyped ==
  /\ op \in [kind : Kinds, name : Name \cup Hub \cup {None}, to : Name \cup Path \cup {None},
             entry : File, at : Places, left : (SUBSET Name) \cup (SUBSET Path)]
  /\ op.at \in PlacesOf[op.kind]
  /\ op.kind \in {"setconfig", "create", "remove", "rename", "rollback"} => op.name \in Name
  /\ op.kind = "create" => op.entry \in Entry
  /\ op.kind = "rename" => op.to \in Name /\ op.to # op.name /\ op.left \subseteq Name
  /\ op.kind = "prune" => op.left \subseteq Path /\ (op.at = "remove" => op.to \in Path)
  /\ op.kind \in {"login", "logout"} => op.name \in Hub

PutTyped ==
  \/ put = NoPut
  \/ /\ put \in [name : Name, entry : Entry, at : Puts]
     /\ op.kind \in {"setconfig", "rename", "rollback"}
     /\ op.kind = "rename" => op.at = "repoint"
     /\ op.kind # "rename" => op.at = "reply" /\ put.name = op.name
     /\ put.at # "write" => tmp[put.name] = put.entry

Typed == FilesTyped /\ OpTyped /\ PutTyped

SameReg == json = before.reg
SameBundles == bundle = before.bundle
SameAuths == auth.json = before.auths
SameElsewhere(S) == \A m \in Name \ S : json[m] = before.reg[m]

\* The entry of n while setconfig replaces it by new, and after.
Replaced(n, new) ==
  IF put # NoPut /\ put.name = n
  THEN json[n] = before.reg[n] \/ (put.at = "replace" /\ json[n] = Absent)
  ELSE json[n] = new \/ (Hurt /\ json[n] \in {before.reg[n], Absent})

SetConfigPart ==
  op.kind = "setconfig" =>
    /\ SameBundles /\ SameAuths
    /\ SameElsewhere({op.name})
    /\ \E e \in Entry : Replaced(op.name, e)

CreatePart ==
  op.kind = "create" =>
    /\ SameBundles /\ SameAuths
    /\ before.reg[op.name] = Absent
    /\ json = IF op.at = "open" THEN before.reg ELSE [before.reg EXCEPT ![op.name] = Blank]

RemovePart ==
  op.kind = "remove" =>
    /\ SameBundles /\ SameAuths
    /\ \/ op.at = "forget" /\ json = [before.reg EXCEPT ![op.name] = Absent]
       \/ json = before.reg

\* The copy, or a blank file where its write failed.
Copied(f) == f = before.reg[op.name] \/ (Hurt /\ f = Blank)

Deps == {m \in Name \ {op.to} : A!Dependent(before.reg, m, op.name)}

\* The entries the loop has taken up.
Visited == Deps \ op.left

\* The old file went, or it could not be unlinked and is treated as its dependents are.
OldFile ==
  \/ json[op.name] = Absent /\ op.name \notin op.left /\ (put # NoPut => put.name # op.name)
  \/ /\ Hurt /\ op.name \in Visited
     /\ Replaced(op.name, A!Repointed(before.reg[op.name], op.name, op.to))
  \/ Hurt /\ op.name \notin Visited /\ json[op.name] = before.reg[op.name]

RenamePart ==
  op.kind = "rename" =>
    /\ SameBundles /\ SameAuths
    /\ before.reg[op.name] # Absent /\ before.reg[op.to] = Absent
    /\ op.at \in {"copy", "publish"} => SameReg
    /\ op.at = "publish" => Copied(tmp[op.to])
    /\ op.at = "retire" => SameElsewhere({op.to}) /\ Copied(json[op.to])
    /\ op.at = "repoint" =>
         /\ op.left \subseteq Deps
         /\ OldFile /\ Copied(json[op.to])
         /\ SameElsewhere({op.name, op.to} \cup Visited)
         /\ \A m \in Visited \ {op.name} :
              Replaced(m, A!Repointed(before.reg[m], op.name, op.to))
         /\ put # NoPut => /\ put.name \in Visited
                           /\ put.entry = A!Repointed(before.reg[put.name], op.name, op.to)

RollbackPart ==
  op.kind = "rollback" =>
    LET p == before.reg[op.name].path
        b == before.bundle[p]
    IN /\ SameAuths
       /\ before.reg[op.name] \in Entry
       /\ b.prev # None
       /\ op.at # "aside" => b.live # None /\ b.aside = None
       /\ op.at # "reply" => SameReg
       /\ op.at = "reply" => /\ SameElsewhere({op.name})
                             /\ Replaced(op.name, A!Swapped(before.reg[op.name]))
       /\ bundle = CASE op.at = "aside" -> before.bundle
                     [] op.at = "restore" ->
                          [before.bundle EXCEPT ![p].aside = b.live, ![p].live = None]
                     [] op.at = "keep" ->
                          [before.bundle EXCEPT ![p].aside = b.live, ![p].live = b.prev,
                                                ![p].prev = None]
                     [] OTHER ->
                          [before.bundle EXCEPT ![p].live = b.prev, ![p].prev = b.live]
       /\ put # NoPut => put.entry = A!Swapped(before.reg[op.name])

Doomed(p) == A!Named(before.reg, p) /\ before.bundle[p].prev # None

PrunePart ==
  op.kind = "prune" =>
    /\ SameReg /\ SameAuths
    /\ \A p \in op.left : Doomed(p)
    /\ op.at = "remove" => Doomed(op.to) /\ op.to \notin op.left
    /\ \A p \in Path :
         /\ bundle[p].live = before.bundle[p].live /\ bundle[p].aside = before.bundle[p].aside
         /\ IF op.at = "remove" /\ p = op.to THEN bundle[p].prev = Torn
            ELSE IF p \in op.left \/ ~Doomed(p) THEN bundle[p].prev = before.bundle[p].prev
            ELSE bundle[p].prev = None \/ (Hurt /\ bundle[p].prev = Torn)

AuthPart ==
  op.kind \in {"login", "logout"} =>
    /\ SameReg /\ SameBundles /\ SameAuths
    /\ op.at = "replace" => auth.tmp = NewAuths \/ (Hurt /\ auth.tmp = {})

Progress == op.kind # "none" => Trouble <= before.trouble

IInv ==
  /\ Typed /\ Progress
  /\ SetConfigPart /\ CreatePart /\ RemovePart /\ RenamePart /\ RollbackPart
  /\ PrunePart /\ AuthPart
-----------------------------------------------------------------------------
\* The daemon starts idle, so only the domains have to be looked at.
LEMMA InitHolds == Init => IInv
<1> SUFFICES ASSUME Init PROVE IInv
    OBVIOUS
<1> USE RegistryFilesAssumption
<1>1. FilesTyped
    BY DEF Init, FilesTyped, Now, File, A!File
<1>2. OpTyped
    BY DEF Init, OpTyped, NoOp, Kinds, Places, PlacesOf, File, A!File
<1>3. PutTyped /\ Progress
    BY DEF Init, PutTyped, Progress, NoOp
<1>4. /\ SetConfigPart /\ CreatePart /\ RemovePart /\ RenamePart /\ RollbackPart
      /\ PrunePart /\ AuthPart
    BY DEF Init, NoOp, SetConfigPart, CreatePart, RemovePart, RenamePart, RollbackPart,
           PrunePart, AuthPart
<1> QED
    BY <1>1, <1>2, <1>3, <1>4 DEF IInv, Typed

-----------------------------------------------------------------------------
(* How the mapping goes.                                                   *)

Unknown == <<Known.reg, Known.bundle, Known.auths, Known.trouble>>

\* A request that begins, or goes on, shows nothing.
LEMMA Hidden ==
  ASSUME \/ op.kind = "none" /\ before' = Now
         \/ op.kind # "none" /\ before' = before,
         op'.kind # "none"
  PROVE  UNCHANGED Unknown
BY DEF Known, Now, Unknown

\* One that ends shows what became of the files ...
LEMMA Shown ==
  ASSUME op.kind # "none", Reply
  PROVE  /\ Known = before
         /\ Known'.reg = json' /\ Known'.bundle = bundle' /\ Known'.auths = auth'.json
         /\ Known'.trouble = Trouble'
BY DEF Known, Now, Trouble, Reply, NoOp

\* ... as a served request, or, where there was trouble, as one cut short.
LEMMA ShownServed ==
  ASSUME FilesTyped, FilesTyped', op.kind # "none", Reply, Trouble' <= before.trouble, A!Served
  PROVE  A!Next
<1>1. Trouble' \in Nat /\ before.trouble \in Nat
    BY DEF FilesTyped, Trouble
<1>2. Known'.trouble \in 0 .. Known.trouble
    BY <1>1, Shown
<1> QED
    BY <1>2 DEF A!Next

\* The latter only after something failed.
LEMMA ShownCut ==
  ASSUME FilesTyped, FilesTyped', op.kind # "none", Reply, Trouble' < before.trouble, A!Cut
  PROVE  A!Next
<1>1. Trouble' \in Nat /\ before.trouble \in Nat
    BY DEF FilesTyped, Trouble
<1>2. Known'.trouble \in 0 .. Known.trouble - 1
    BY <1>1, Shown
<1> QED
    BY <1>2 DEF A!Next

\* A request that changed nothing, whatever the trouble.
LEMMA ShownNothing ==
  ASSUME FilesTyped, FilesTyped', op.kind # "none", Reply, Trouble' <= before.trouble,
         json' = before.reg, bundle' = before.bundle, auth'.json = before.auths
  PROVE  [A!Next]_Unknown
<1>1. Trouble' \in Nat /\ before.trouble \in Nat
    BY DEF FilesTyped, Trouble
<1>2. CASE Trouble' = before.trouble
    BY <1>2, Shown DEF Unknown
<1>3. CASE Trouble' < before.trouble
    <2>1. A!Cut
        BY Shown DEF A!Cut
    <2> QED
        BY <2>1, <1>3, ShownCut
<1> QED
    BY <1>1, <1>2, <1>3

\* Between two requests every part of the invariant about a request is void.
LEMMA Idle ==
  ASSUME FilesTyped', Reply, put' = NoPut
  PROVE  IInv'
<1> USE RegistryFilesAssumption
<1>1. OpTyped'
    BY DEF Reply, OpTyped, NoOp, Kinds, Places, PlacesOf, File, A!File
<1>2. PutTyped' /\ Progress'
    BY DEF Reply, PutTyped, Progress, NoOp
<1>3. /\ SetConfigPart' /\ CreatePart' /\ RemovePart' /\ RenamePart' /\ RollbackPart'
      /\ PrunePart' /\ AuthPart'
    BY DEF Reply, NoOp, SetConfigPart, CreatePart, RemovePart, RenamePart, RollbackPart,
           PrunePart, AuthPart
<1> QED
    BY <1>1, <1>2, <1>3 DEF IInv, Typed

\* In a request only the part about its kind says anything.
LEMMA Busy ==
  ASSUME FilesTyped', OpTyped', PutTyped', Progress',
         op'.kind = "setconfig" => SetConfigPart', op'.kind = "create" => CreatePart',
         op'.kind = "remove" => RemovePart', op'.kind = "rename" => RenamePart',
         op'.kind = "rollback" => RollbackPart', op'.kind = "prune" => PrunePart',
         op'.kind \in {"login", "logout"} => AuthPart'
  PROVE  IInv'
BY DEF IInv, Typed, SetConfigPart, CreatePart, RemovePart, RenamePart, RollbackPart,
       PrunePart, AuthPart

-----------------------------------------------------------------------------
(* Requests that begin.                                                    *)

\* A request finds the files as they are.
LEMMA Began ==
  ASSUME IInv, NEW kind, NEW n, NEW to, NEW e, NEW at, Begin(kind, n, to, e, at),
         UNCHANGED <<files, bundle>>
  PROVE  /\ FilesTyped' /\ Progress' /\ SameReg' /\ SameBundles' /\ SameAuths'
         /\ put = NoPut
<1>1. FilesTyped'
    BY DEF IInv, Typed, FilesTyped, Begin, Now, Spend, files
<1>2. Progress'
    BY DEF IInv, Typed, FilesTyped, Begin, Now, Spend, Progress, Trouble
<1>3. SameReg' /\ SameBundles' /\ SameAuths'
    BY DEF Begin, Now, files, SameReg, SameBundles, SameAuths
<1>4. put = NoPut
    BY DEF IInv, Typed, PutTyped, Begin
<1> QED
    BY <1>1, <1>2, <1>3, <1>4

\* Saving an entry: the file is still what it was.
LEMMA SetConfigBegins ==
  ASSUME IInv, NEW n \in Name, NEW e \in Offered, SetConfig(n, e)
  PROVE  IInv' /\ UNCHANGED Unknown
<1> USE RegistryFilesAssumption DEF SetConfig
<1>1. FilesTyped' /\ Progress' /\ SameReg' /\ SameBundles' /\ SameAuths'
    BY Began
<1>2. /\ op' = [kind |-> "setconfig", name |-> n, to |-> None, entry |-> e,
                at |-> "reply", left |-> {}]
      /\ put' = [name |-> n, entry |-> e, at |-> "write"]
      /\ op.kind = "none" /\ before' = Now
    BY DEF Begin, Putting
<1>3. OpTyped'
    BY <1>2 DEF OpTyped, Kinds, Places, PlacesOf, File, Entry, A!File
<1>4. PutTyped'
    BY <1>2 DEF PutTyped, Puts, Entry
<1>5. SetConfigPart'
    BY <1>1, <1>2 DEF SetConfigPart, SameReg, SameElsewhere, Replaced, NoPut, Entry
<1>6. IInv'
    BY <1>1, <1>2, <1>3, <1>4, <1>5, Busy
<1> QED
    BY <1>2, <1>6, Hidden

\* The other requests, which save nothing at first.
LEMMA PlainBegins ==
  ASSUME IInv, NEW n \in Name,
         (\E e \in Offered : Create(n, e)) \/ Remove(n) \/ (\E m \in Name : Rename(n, m))
           \/ Rollback(n)
  PROVE  IInv' /\ UNCHANGED Unknown
<1> USE RegistryFilesAssumption
<1>1. CASE \E e \in Offered : Create(n, e)
    <2>0. PICK e \in Offered : Create(n, e)
        BY <1>1
    <2>1. /\ FilesTyped' /\ Progress' /\ SameReg' /\ SameBundles' /\ SameAuths'
          /\ put = NoPut
        BY <2>0, Began DEF Create
    <2>2. /\ op' = [kind |-> "create", name |-> n, to |-> None, entry |-> e,
                    at |-> "open", left |-> {}]
          /\ put' = put /\ op.kind = "none" /\ before' = Now /\ json[n] = Absent
        BY <2>0 DEF Create, Begin
    <2>3. OpTyped'
        BY <2>2 DEF OpTyped, Kinds, Places, PlacesOf, File, Entry, A!File
    <2>4. PutTyped'
        BY <2>1, <2>2 DEF PutTyped
    <2>5. CreatePart'
        BY <2>1, <2>2 DEF CreatePart, SameReg, Now
    <2>6. IInv'
        BY <2>1, <2>2, <2>3, <2>4, <2>5, Busy
    <2> QED
        BY <2>2, <2>6, Hidden
<1>2. CASE Remove(n)
    <2>1. /\ FilesTyped' /\ Progress' /\ SameReg' /\ SameBundles' /\ SameAuths'
          /\ put = NoPut
        BY <1>2, Began DEF Remove
    <2>2. /\ op' = [kind |-> "remove", name |-> n, to |-> None, entry |-> Blank,
                    at |-> "unlink", left |-> {}]
          /\ put' = put /\ op.kind = "none" /\ before' = Now
        BY <1>2 DEF Remove, Begin
    <2>3. OpTyped'
        BY <2>2 DEF OpTyped, Kinds, Places, PlacesOf, File, A!File
    <2>4. PutTyped'
        BY <2>1, <2>2 DEF PutTyped
    <2>5. RemovePart'
        BY <2>1, <2>2 DEF RemovePart, SameReg
    <2>6. IInv'
        BY <2>1, <2>2, <2>3, <2>4, <2>5, Busy
    <2> QED
        BY <2>2, <2>6, Hidden
<1>3. CASE \E m \in Name : Rename(n, m)
    <2>0. PICK m \in Name : Rename(n, m)
        BY <1>3
    <2>1. /\ FilesTyped' /\ Progress' /\ SameReg' /\ SameBundles' /\ SameAuths'
          /\ put = NoPut
        BY <2>0, Began DEF Rename
    <2>2. /\ op' = [kind |-> "rename", name |-> n, to |-> m, entry |-> Blank,
                    at |-> "copy", left |-> {}]
          /\ put' = put /\ op.kind = "none" /\ before' = Now
          /\ n # m /\ json[n] # Absent /\ json[m] = Absent
        BY <2>0 DEF Rename, Begin
    <2>3. OpTyped'
        BY <2>2 DEF OpTyped, Kinds, Places, PlacesOf, File, A!File
    <2>4. PutTyped'
        BY <2>1, <2>2 DEF PutTyped
    <2>5. RenamePart'
        BY <2>1, <2>2 DEF RenamePart, SameReg, Now
    <2>6. IInv'
        BY <2>1, <2>2, <2>3, <2>4, <2>5, Busy
    <2> QED
        BY <2>2, <2>6, Hidden
<1>4. CASE Rollback(n)
    <2>1. /\ FilesTyped' /\ Progress' /\ SameReg' /\ SameBundles' /\ SameAuths'
          /\ put = NoPut
        BY <1>4, Began DEF Rollback
    <2>2. /\ op' = [kind |-> "rollback", name |-> n, to |-> None, entry |-> Blank,
                    at |-> "aside", left |-> {}]
          /\ put' = put /\ op.kind = "none" /\ before' = Now
          /\ json[n] \in Entry /\ bundle[json[n].path].prev # None
        BY <1>4 DEF Rollback, Begin
    <2>3. OpTyped'
        BY <2>2 DEF OpTyped, Kinds, Places, PlacesOf, File, A!File
    <2>4. PutTyped'
        BY <2>1, <2>2 DEF PutTyped
    <2>5. RollbackPart'
        BY <2>1, <2>2 DEF RollbackPart, SameReg, SameBundles, Now, NoPut
    <2>6. IInv'
        BY <2>1, <2>2, <2>3, <2>4, <2>5, Busy
    <2> QED
        BY <2>2, <2>6, Hidden
<1> QED
    BY <1>1, <1>2, <1>3, <1>4

\* Logging in to a registry or out of it.
LEMMA CredentialsBegin ==
  ASSUME IInv, NEW kind \in {"login", "logout"}, NEW h \in Hub, Credentials(kind, h)
  PROVE  IInv' /\ UNCHANGED Unknown
<1> USE RegistryFilesAssumption
<1>1. /\ FilesTyped' /\ Progress' /\ SameReg' /\ SameBundles' /\ SameAuths'
      /\ put = NoPut
    BY Began DEF Credentials
<1>2. /\ op' = [kind |-> kind, name |-> h, to |-> None, entry |-> Blank,
                at |-> "write", left |-> {}]
      /\ put' = put /\ op.kind = "none" /\ before' = Now
    BY DEF Credentials, Begin
<1>3. OpTyped'
    <2>1. kind = "login" \/ kind = "logout"
        OBVIOUS
    <2>2. PlacesOf["login"] = {"write", "replace"} /\ PlacesOf["logout"] = {"write", "replace"}
        BY DEF PlacesOf
    <2>3. Blank \in File
        BY DEF File, A!File
    <2> QED
        BY <1>2, <2>1, <2>2, <2>3 DEF OpTyped, Kinds, Places
<1>4. PutTyped'
    BY <1>1, <1>2 DEF PutTyped
<1>5. AuthPart'
    BY <1>1, <1>2 DEF AuthPart
<1>6. IInv'
    BY <1>1, <1>2, <1>3, <1>4, <1>5, Busy
<1> QED
    BY <1>2, <1>6, Hidden

\* A prune has every backup of an entry's bundle yet to delete.
LEMMA PruneBegins ==
  ASSUME IInv, Prune
  PROVE  IInv' /\ UNCHANGED Unknown
<1> USE RegistryFilesAssumption
<1> DEFINE todo == {p \in Path : A!Named(json, p) /\ bundle[p].prev # None}
<1>1. FilesTyped'
    BY DEF IInv, Typed, FilesTyped, Prune, Now, Spend, files
<1>2. Progress' /\ SameReg' /\ SameBundles' /\ SameAuths'
    BY DEF IInv, Typed, FilesTyped, Prune, Now, Spend, Progress, Trouble, files, SameReg,
           SameBundles, SameAuths
<1>3. /\ op' = [kind |-> "prune", name |-> None, to |-> None, entry |-> Blank,
                at |-> "delete", left |-> todo]
      /\ put' = put /\ put = NoPut /\ op.kind = "none" /\ before' = Now
    BY DEF Prune, NoOp, IInv, Typed, PutTyped
<1>4. OpTyped'
    BY <1>3 DEF OpTyped, Kinds, Places, PlacesOf, File, A!File
<1>5. PutTyped'
    BY <1>3 DEF PutTyped
<1>6. PrunePart'
    <2>1. \A p \in Path : p \in todo <=> Doomed(p)'
        BY <1>3 DEF Doomed, Now
    <2>2. \A p \in Path : bundle'[p] = before'.bundle[p]
        BY <1>2 DEF SameBundles
    <2> QED
        BY <1>2, <1>3, <2>1, <2>2 DEF PrunePart
<1>7. IInv'
    BY <1>1, <1>2, <1>3, <1>4, <1>5, <1>6, Busy
<1> QED
    BY <1>3, <1>7, Hidden

\* The converter's rotation is a request of one step.
LEMMA ConvertedServed ==
  ASSUME IInv, NEW p \in Path, NEW v \in Version, Converted(p, v)
  PROVE  IInv' /\ A!Next
<1> USE RegistryFilesAssumption
<1>1. FilesTyped'
    <2>1. bundle[p] \in A!Dirs /\ bundle[p].live \in A!Dir
        BY DEF IInv, Typed, FilesTyped, A!Dirs
    <2>2. bundle' \in [Path -> A!Dirs]
        BY <2>1 DEF IInv, Typed, FilesTyped, Converted, A!Dirs, A!Dir
    <2> QED
        BY <2>2 DEF IInv, Typed, FilesTyped, Converted, Spend, files
<1>2. IInv'
    <2>1. op' = op /\ put' = put /\ op.kind = "none"
        BY DEF Converted
    <2>2. OpTyped' /\ PutTyped' /\ Progress'
        BY <2>1 DEF IInv, Typed, OpTyped, PutTyped, Progress
    <2> QED
        BY <1>1, <2>1, <2>2, Busy
<1>3. A!Pull(p, v)
    BY DEF A!Pull, Converted, Known, Now, files
<1>4. Known'.trouble \in 0 .. Known.trouble
    BY DEF IInv, Typed, FilesTyped, Converted, Known, Now, Spend
<1> QED
    BY <1>2, <1>3, <1>4 DEF A!Next, A!Served
-----------------------------------------------------------------------------
(* The steps of setconfig().                                               *)

\* A failing call is one trouble less to come.
LEMMA SpendFaults ==
  ASSUME FilesTyped, Spend("faults") \/ Spend("deaths")
  PROVE  quota' \in [{"commands", "deaths", "faults"} -> Nat] /\ Trouble' < Trouble
BY DEF FilesTyped, Spend, Trouble

\* Without one, there is as much as before.
LEMMA NoFault ==
  ASSUME FilesTyped, UNCHANGED quota
  PROVE  quota' \in [{"commands", "deaths", "faults"} -> Nat] /\ Trouble' = Trouble
BY DEF FilesTyped, Trouble

\* What is left to go wrong is a number.
LEMMA TroubleIsNat == ASSUME FilesTyped PROVE Trouble \in Nat
BY DEF FilesTyped, Trouble

\* There is a setconfig() under way wherever one of its steps may be taken.
LEMMA PutIs ==
  ASSUME IInv, NEW at \in Puts, put.at = at
  PROVE  put # NoPut /\ put \in [name : Name, entry : Entry, at : Puts]
<1>1. NoPut.at = "" /\ at # ""
    BY DEF NoPut, Puts
<1>2. put # NoPut
    BY <1>1
<1> QED
    BY <1>2 DEF IInv, Typed, PutTyped

\* Writing the .tmp.
LEMMA PutWritesTyped ==
  ASSUME IInv, PutWrites
  PROVE  /\ FilesTyped' /\ PutTyped' /\ Trouble' <= Trouble /\ put # NoPut
         /\ op' = op /\ before' = before /\ bundle' = bundle /\ auth' = auth /\ json' = json
         /\ \/ put' = [put EXCEPT !.at = "backup"]
            \/ put' = NoPut /\ Trouble' < Trouble
<1>1. put \in [name : Name, entry : Entry, at : Puts] /\ put # NoPut
    BY PutIs DEF PutWrites, Puts
<1>2. UNCHANGED <<json, bak, auth, bundle, op, before>>
    BY DEF PutWrites
<1>3. Blank \in File /\ Entry \subseteq File
    BY DEF File, A!File, Entry
<1>4. CASE /\ tmp' = [tmp EXCEPT ![put.name] = put.entry]
           /\ put' = [put EXCEPT !.at = "backup"]
           /\ UNCHANGED quota
    <2>1. FilesTyped' /\ Trouble' <= Trouble
        BY <1>1, <1>2, <1>3, <1>4, NoFault, TroubleIsNat DEF IInv, Typed, FilesTyped
    <2>2. PutTyped'
        BY <1>1, <1>2, <1>4 DEF IInv, Typed, FilesTyped, PutTyped, Puts
    <2> QED
        BY <1>1, <1>2, <1>4, <2>1, <2>2
<1>5. CASE /\ Spend("faults") /\ put' = NoPut
           /\ \E f \in {Blank, tmp[put.name]} : tmp' = [tmp EXCEPT ![put.name] = f]
    <2>1. FilesTyped'
        BY <1>1, <1>2, <1>3, <1>5, SpendFaults DEF IInv, Typed, FilesTyped
    <2>2. PutTyped'
        BY <1>5 DEF PutTyped
    <2>3. Trouble' < Trouble /\ Trouble' \in Nat /\ Trouble \in Nat
        BY <1>5, <2>1, SpendFaults, TroubleIsNat DEF IInv, Typed, FilesTyped, Trouble
    <2> QED
        BY <1>1, <1>2, <1>5, <2>1, <2>2, <2>3
<1> QED
    BY <1>4, <1>5 DEF PutWrites

\* Renaming the old file away.
LEMMA PutBacksUpTyped ==
  ASSUME IInv, PutBacksUp
  PROVE  /\ FilesTyped' /\ PutTyped' /\ Trouble' <= Trouble /\ put # NoPut
         /\ op' = op /\ before' = before /\ bundle' = bundle /\ auth' = auth /\ tmp' = tmp
         /\ put' = [put EXCEPT !.at = "replace"]
         /\ \/ BacksUp
            \/ json' = json
<1>1. put \in [name : Name, entry : Entry, at : Puts] /\ put # NoPut /\ put.at = "backup"
    BY PutIs DEF PutBacksUp, Puts
<1>2. UNCHANGED <<tmp, auth, bundle, op, before>> /\ put' = [put EXCEPT !.at = "replace"]
    BY DEF PutBacksUp
<1>3. Absent \in File
    BY DEF File, A!File
<1>4. json' \in [Name -> File] /\ bak' \in [Name -> File]
    BY <1>1, <1>3 DEF IInv, Typed, FilesTyped, PutBacksUp, BacksUp
<1>5. /\ quota' \in [{"commands", "deaths", "faults"} -> Nat]
      /\ Trouble' <= Trouble
    BY NoFault, SpendFaults, TroubleIsNat DEF IInv, Typed, PutBacksUp, FilesTyped, Trouble
<1>6. FilesTyped'
    BY <1>2, <1>4, <1>5 DEF IInv, Typed, FilesTyped
<1>7. PutTyped'
    BY <1>1, <1>2 DEF IInv, Typed, PutTyped, Puts
<1> QED
    BY <1>1, <1>2, <1>5, <1>6, <1>7 DEF PutBacksUp

\* Renaming the new file into its place.
LEMMA PutReplacesTyped ==
  ASSUME IInv, PutReplaces
  PROVE  /\ FilesTyped' /\ PutTyped' /\ Trouble' <= Trouble /\ put # NoPut
         /\ op' = op /\ before' = before /\ bundle' = bundle /\ auth' = auth /\ put' = NoPut
         /\ \/ json' = [json EXCEPT ![put.name] = put.entry]
            \/ json' = json /\ Trouble' < Trouble
<1>1. put \in [name : Name, entry : Entry, at : Puts] /\ put # NoPut /\ put.at = "replace"
    BY PutIs DEF PutReplaces, Puts
<1>2. UNCHANGED <<bak, auth, bundle, op, before>> /\ put' = NoPut
    BY DEF PutReplaces
<1>3. Absent \in File /\ tmp[put.name] = put.entry /\ put.entry \in File
    BY <1>1 DEF File, A!File, Entry, IInv, Typed, PutTyped, NoPut
<1>4. json' \in [Name -> File] /\ tmp' \in [Name -> File]
    BY <1>1, <1>3 DEF IInv, Typed, FilesTyped, PutReplaces
<1>5. /\ quota' \in [{"commands", "deaths", "faults"} -> Nat]
      /\ Trouble' <= Trouble
      /\ \/ json' = [json EXCEPT ![put.name] = put.entry]
         \/ json' = json /\ Trouble' < Trouble
    BY <1>3, NoFault, SpendFaults, TroubleIsNat
       DEF IInv, Typed, PutReplaces, FilesTyped, Trouble
<1>6. FilesTyped'
    BY <1>2, <1>4, <1>5 DEF IInv, Typed, FilesTyped
<1>7. PutTyped'
    BY <1>2 DEF PutTyped
<1> QED
    BY <1>1, <1>2, <1>5, <1>6, <1>7

\* All three of them.
LEMMA PutStepTyped ==
  ASSUME IInv, PutStep
  PROVE  /\ FilesTyped' /\ PutTyped' /\ Trouble' <= Trouble
         /\ put # NoPut /\ put.name \in Name /\ put.entry \in Entry
         /\ op' = op /\ before' = before /\ bundle' = bundle /\ auth' = auth
         /\ put' # NoPut => put'.name = put.name /\ put'.entry = put.entry
         /\ \A m \in Name \ {put.name} : json'[m] = json[m]
<1>1. put # NoPut
    BY PutWritesTyped, PutBacksUpTyped, PutReplacesTyped DEF PutStep
<1>2. put \in [name : Name, entry : Entry, at : Puts] /\ json \in [Name -> File]
    BY <1>1 DEF IInv, Typed, PutTyped, FilesTyped
<1>3. CASE PutWrites
    BY <1>1, <1>2, <1>3, PutWritesTyped
<1>4. CASE PutBacksUp
    BY <1>1, <1>2, <1>4, PutBacksUpTyped DEF BacksUp
<1>5. CASE PutReplaces
    BY <1>1, <1>2, <1>5, PutReplacesTyped
<1> QED
    BY <1>3, <1>4, <1>5 DEF PutStep

\* An entry that is being replaced is still being replaced, or it is the new one, or
\* something failed.
LEMMA StillReplaced ==
  ASSUME IInv, PutStep, op.kind # "none", NEW n \in Name, NEW new, Replaced(n, new),
         put.name = n => put.entry = new
  PROVE  Replaced(n, new)'
<1>1. /\ put # NoPut /\ before' = before /\ Trouble' <= Trouble
      /\ put' # NoPut => put'.name = put.name /\ put'.entry = put.entry
      /\ \A m \in Name \ {put.name} : json'[m] = json[m]
    BY PutStepTyped
<1>2. Trouble <= before.trouble /\ Trouble \in Nat /\ before.trouble \in Nat /\ Trouble' \in Nat
    BY PutStepTyped, TroubleIsNat DEF IInv, Progress, Typed, FilesTyped, Trouble
<1>3. Hurt => Hurt'
    BY <1>1, <1>2 DEF Hurt
<1>4. CASE put.name # n
    BY <1>1, <1>3, <1>4 DEF Replaced
<1>5. CASE put.name = n
    <2>1. json \in [Name -> File] /\ put \in [name : Name, entry : Entry, at : Puts]
        BY <1>1 DEF IInv, Typed, FilesTyped, PutTyped
    <2>2. CASE PutWrites
        <3>1. put.at = "write" /\ json[n] = before.reg[n]
            BY <1>1, <1>5, <2>2 DEF Replaced, PutWrites
        <3>2. Trouble' < Trouble => Hurt'
            BY <1>1, <1>2 DEF Hurt
        <3>3. CASE put' = [put EXCEPT !.at = "backup"]
            <4>1. put'.at = "backup" /\ put'.name = n /\ put' # NoPut
                BY <1>5, <2>1, <3>3 DEF NoPut
            <4> QED
                BY <1>1, <2>2, <3>1, <4>1, PutWritesTyped DEF Replaced
        <3>4. CASE put' = NoPut /\ Trouble' < Trouble
            BY <1>1, <2>2, <3>1, <3>2, <3>4, PutWritesTyped DEF Replaced
        <3> QED
            BY <2>2, <3>3, <3>4, PutWritesTyped
    <2>3. CASE PutBacksUp
        <3>1. put.at = "backup" /\ json[n] = before.reg[n]
            BY <1>1, <1>5, <2>3 DEF Replaced, PutBacksUp
        <3>2. json'[n] \in {json[n], Absent}
            BY <1>5, <2>1, <2>3, PutBacksUpTyped DEF BacksUp
        <3>3. put' = [put EXCEPT !.at = "replace"]
            BY <2>3, PutBacksUpTyped
        <3>4. put'.at = "replace" /\ put'.name = n /\ put' # NoPut
            BY <1>5, <2>1, <3>3 DEF NoPut
        <3> QED
            BY <1>1, <3>1, <3>2, <3>4 DEF Replaced
    <2>4. CASE PutReplaces
        <3>1. json[n] \in {before.reg[n], Absent}
            BY <1>1, <1>5 DEF Replaced
        <3>2. Trouble' < Trouble => Hurt'
            BY <1>1, <1>2 DEF Hurt
        <3>3. json'[n] = new \/ (Hurt' /\ json'[n] = json[n])
            BY <1>5, <2>1, <2>4, <3>2, PutReplacesTyped
        <3>4. put' = NoPut
            BY <2>4, PutReplacesTyped
        <3> QED
            BY <1>1, <3>1, <3>3, <3>4 DEF Replaced
    <2> QED
        BY <2>2, <2>3, <2>4 DEF PutStep
<1> QED
    BY <1>4, <1>5
\* In a setconfig request.
LEMMA SetConfigPuts ==
  ASSUME IInv, PutStep, op.kind = "setconfig"
  PROVE  SetConfigPart'
<1>1. /\ put # NoPut /\ put.name = op.name /\ put.entry \in Entry /\ op' = op
      /\ before' = before /\ bundle' = bundle /\ auth' = auth
      /\ \A m \in Name \ {op.name} : json'[m] = json[m]
    BY PutStepTyped DEF IInv, Typed, PutTyped
<1>2. PICK n \in Name : n = op.name
    BY DEF IInv, Typed, OpTyped
<1>3. PICK e \in Entry : e = put.entry
    BY <1>1
<1>4. /\ SameBundles /\ SameAuths /\ SameElsewhere({n})
      /\ \E f \in Entry : Replaced(n, f)
    BY <1>2 DEF IInv, SetConfigPart
<1>5. Replaced(n, e)
    BY <1>1, <1>2, <1>4 DEF Replaced
<1>6. Replaced(n, e)'
    BY <1>3, <1>5, StillReplaced
<1> QED
    BY <1>1, <1>2, <1>4, <1>6 DEF SetConfigPart, SameBundles, SameAuths, SameElsewhere

\* In the loop of a rename.
LEMMA RenamePuts ==
  ASSUME IInv, PutStep, op.kind = "rename"
  PROVE  RenamePart'
<1>1. /\ put # NoPut /\ op.at = "repoint" /\ op' = op
      /\ before' = before /\ bundle' = bundle /\ auth' = auth /\ Trouble' <= Trouble
      /\ put' # NoPut => put'.name = put.name /\ put'.entry = put.entry
      /\ \A m \in Name \ {put.name} : json'[m] = json[m]
    BY PutStepTyped DEF IInv, Typed, PutTyped
<1>2. PICK o \in Name, n \in Name : o = op.name /\ n = op.to /\ o # n
    BY DEF IInv, Typed, OpTyped
<1>3. PICK D \in SUBSET Deps : D = Visited
    BY DEF Visited
<1>4. Deps' = Deps /\ Visited' = Visited /\ Deps \subseteq Name \ {n}
    BY <1>1, <1>2 DEF Deps, Visited
<1>5. /\ SameBundles /\ SameAuths
      /\ before.reg[o] # Absent /\ before.reg[n] = Absent
      /\ op.left \subseteq Deps
      /\ OldFile /\ Copied(json[n])
      /\ SameElsewhere({o, n} \cup D)
      /\ \A m \in D \ {o} : Replaced(m, A!Repointed(before.reg[m], o, n))
      /\ put.name \in D
      /\ put.entry = A!Repointed(before.reg[put.name], o, n)
    BY <1>1, <1>2, <1>3 DEF IInv, RenamePart
<1>6. Hurt => Hurt'
    BY <1>1, PutStepTyped, TroubleIsNat DEF Hurt, IInv, Typed, FilesTyped, Trouble
<1>7. json'[n] = json[n]
    BY <1>1, <1>4, <1>5
<1>8. \A m \in Name \ ({o, n} \cup D) : json'[m] = before.reg[m]
    BY <1>1, <1>5 DEF SameElsewhere
<1>9. ASSUME NEW m \in D, Replaced(m, A!Repointed(before.reg[m], o, n))
      PROVE  Replaced(m, A!Repointed(before.reg[m], o, n))'
    <2>1. PICK e : e = A!Repointed(before.reg[m], o, n)
        OBVIOUS
    <2>2. Replaced(m, e)'
        BY <1>1, <1>4, <1>5, <1>9, <2>1, StillReplaced
    <2> QED
        BY <1>1, <2>1, <2>2
<1>12. \A m \in D \ {o} : Replaced(m, A!Repointed(before.reg[m], o, n))'
    BY <1>5, <1>9
<1>13. OldFile'
    <2>1. op'.name = o /\ op'.to = n /\ op'.left = op.left /\ before' = before /\ Visited' = D
        BY <1>1, <1>2, <1>3, <1>4
    <2>2. CASE json[o] = Absent /\ o \notin op.left /\ put.name # o
        BY <1>1, <2>1, <2>2 DEF OldFile
    <2>3. CASE Hurt /\ o \in D /\ Replaced(o, A!Repointed(before.reg[o], o, n))
        <3>1. Replaced(o, A!Repointed(before.reg[o], o, n))'
            BY <1>9, <2>3
        <3> QED
            BY <1>6, <2>1, <2>3, <3>1 DEF OldFile
    <2>4. CASE Hurt /\ o \notin D /\ json[o] = before.reg[o]
        <3>1. put.name # o
            BY <1>5, <2>4
        <3> QED
            BY <1>1, <1>6, <2>1, <2>4, <3>1 DEF OldFile
    <2> QED
        BY <1>1, <1>2, <1>3, <1>5, <2>2, <2>3, <2>4 DEF OldFile
<1>10. Copied(json[n])'
    BY <1>1, <1>5, <1>6, <1>7 DEF Copied
<1>11. put' # NoPut => /\ put'.name \in D
                       /\ put'.entry = A!Repointed(before'.reg[put'.name], o, n)
    BY <1>1, <1>5
<1> QED
    BY <1>1, <1>2, <1>3, <1>4, <1>5, <1>8, <1>10, <1>11,
       <1>12, <1>13
       DEF RenamePart, SameBundles, SameAuths, SameElsewhere

\* At the end of a rollback.
LEMMA RollbackPuts ==
  ASSUME IInv, PutStep, op.kind = "rollback"
  PROVE  RollbackPart'
<1>1. /\ put # NoPut /\ op.at = "reply" /\ op' = op /\ put.name = op.name
      /\ before' = before /\ bundle' = bundle /\ auth' = auth
      /\ put' # NoPut => put'.name = put.name /\ put'.entry = put.entry
      /\ \A m \in Name \ {put.name} : json'[m] = json[m]
    BY PutStepTyped DEF IInv, Typed, PutTyped
<1>2. PICK n \in Name : n = op.name
    BY DEF IInv, Typed, OpTyped
<1>3. PICK e : e = A!Swapped(before.reg[n])
    OBVIOUS
<1>4. /\ SameElsewhere({n}) /\ Replaced(n, e) /\ put.entry = e /\ SameAuths
    BY <1>1, <1>2, <1>3 DEF IInv, RollbackPart
<1>5. Replaced(n, e)'
    BY <1>4, StillReplaced, <1>1
<1>6. SameElsewhere({n})'
    BY <1>1, <1>2, <1>4 DEF SameElsewhere
<1>7. put' # NoPut => put'.entry = e
    BY <1>1, <1>4
<1>8. SameAuths'
    BY <1>1, <1>4 DEF SameAuths
<1> QED
    BY <1>1, <1>2, <1>3, <1>5, <1>6, <1>7, <1>8 DEF IInv, RollbackPart

\* A step of setconfig() keeps the invariant and shows nothing.
LEMMA PutStepHidden ==
  ASSUME IInv, PutStep
  PROVE  IInv' /\ UNCHANGED Unknown
<1>1. /\ FilesTyped' /\ PutTyped' /\ Trouble' <= Trouble /\ put # NoPut
      /\ op' = op /\ before' = before
    BY PutStepTyped
<1>2. op.kind \in {"setconfig", "rename", "rollback"}
    BY <1>1 DEF IInv, Typed, PutTyped
<1>3. OpTyped'
    BY <1>1 DEF IInv, Typed, OpTyped
<1>4. Progress'
    <2>1. Trouble' \in Nat /\ Trouble \in Nat /\ before.trouble \in Nat
        BY <1>1, TroubleIsNat DEF IInv, Typed, FilesTyped, Trouble
    <2> QED
        BY <1>1, <1>2, <2>1 DEF IInv, Progress
<1>5. IInv'
    BY <1>1, <1>2, <1>3, <1>4, SetConfigPuts, RenamePuts, RollbackPuts, Busy
<1> QED
    BY <1>1, <1>2, <1>5, Hidden
-----------------------------------------------------------------------------
(* Creating, removing, and the credentials.                                *)

\* The trouble a fault spends has hurt the request.
LEMMA FaultHurts ==
  ASSUME IInv, op.kind # "none", FilesTyped', Trouble' < Trouble
  PROVE  Trouble' < before.trouble /\ Trouble' <= before.trouble
BY TroubleIsNat DEF IInv, Typed, FilesTyped, Progress, Trouble

\* A request that was hurt stays so.
LEMMA StillProgress ==
  ASSUME IInv, op.kind # "none", Trouble' <= Trouble, FilesTyped', before' = before
  PROVE  /\ Progress' /\ Trouble' <= before.trouble
         /\ Hurt => Hurt'
BY TroubleIsNat DEF IInv, Typed, FilesTyped, Progress, Trouble, Hurt

\* Where each kind of request may be.
LEMMA PlacesAre ==
  /\ PlacesOf["create"] = {"open", "fill"} /\ PlacesOf["remove"] = {"unlink", "forget"}
  /\ PlacesOf["rename"] = {"copy", "publish", "retire", "repoint"}
  /\ PlacesOf["rollback"] = {"aside", "restore", "keep", "provenance", "reply"}
  /\ PlacesOf["prune"] = {"delete", "remove"}
  /\ PlacesOf["login"] = {"write", "replace"} /\ PlacesOf["logout"] = {"write", "replace"}
BY DEF PlacesOf

\* A request that goes on is the same request.
LEMMA GoesOn ==
  ASSUME OpTyped, NEW at \in Places, Go(at), at \in PlacesOf[op.kind],
         op.kind = "prune" => at # "remove"
  PROVE  /\ OpTyped' /\ op'.kind = op.kind /\ op'.at = at /\ op'.name = op.name
         /\ op'.to = op.to /\ op'.entry = op.entry /\ op'.left = op.left
<1>1. op' = [op EXCEPT !.at = at]
    BY DEF Go
<1> QED
    BY <1>1 DEF OpTyped

\* Opening the new file makes it; a failure leaves everything as it was.
LEMMA CreateOpensStep ==
  ASSUME IInv, CreateOpens
  PROVE  IInv' /\ [A!Next]_Unknown
<1> USE RegistryFilesAssumption
<1>1. /\ op.kind = "create" /\ op.at = "open" /\ put = NoPut /\ put' = NoPut
      /\ bundle' = bundle /\ auth' = auth /\ before' = before
    BY DEF CreateOpens, At
<1>2. PICK n \in Name : n = op.name
    BY <1>1 DEF IInv, Typed, OpTyped
<1>3. /\ SameBundles /\ SameAuths /\ before.reg[n] = Absent /\ json = before.reg
    BY <1>1, <1>2 DEF IInv, CreatePart
<1>4. CASE /\ json' = [json EXCEPT ![n] = Blank]
           /\ Go("fill") /\ UNCHANGED quota
    <2>1. FilesTyped' /\ Trouble' <= Trouble
        <3>1. json' \in [Name -> File]
            BY <1>4 DEF IInv, Typed, FilesTyped, File, A!File
        <3> QED
            BY <1>1, <1>4, <3>1, NoFault, TroubleIsNat DEF CreateOpens, IInv, Typed, FilesTyped
    <2>3. OpTyped' /\ op'.kind = "create" /\ op'.at = "fill" /\ op'.name = n
        BY <1>1, <1>2, <1>4, GoesOn, PlacesAre DEF IInv, Typed, Places
    <2>4. PutTyped'
        BY <1>1 DEF PutTyped
    <2>6. CreatePart'
        BY <1>1, <1>3, <1>4, <2>3 DEF CreatePart, SameBundles, SameAuths
    <2>7. IInv'
        BY <1>1, <2>1, <2>3, <2>4, <2>6, Busy, StillProgress
    <2> QED
        BY <1>1, <2>3, <2>7, Hidden
<1>5. CASE Spend("faults") /\ Reply /\ UNCHANGED json
    <2>1. FilesTyped' /\ Trouble' < Trouble
        BY <1>1, <1>5, SpendFaults DEF CreateOpens, IInv, Typed, FilesTyped
    <2>2. [A!Next]_Unknown
        BY <1>1, <1>3, <1>5, <2>1, FaultHurts, ShownNothing
           DEF IInv, Typed, SameBundles, SameAuths
    <2> QED
        BY <1>1, <1>5, <2>1, <2>2, Idle
<1> QED
    BY <1>2, <1>4, <1>5 DEF CreateOpens

\* Filling it ends the request.
LEMMA CreateFillsStep ==
  ASSUME IInv, CreateFills
  PROVE  IInv' /\ [A!Next]_Unknown
<1> USE RegistryFilesAssumption
<1>1. /\ op.kind = "create" /\ op.at = "fill" /\ put = NoPut /\ put' = NoPut /\ Reply
      /\ bundle' = bundle /\ auth' = auth /\ before' = before
    BY DEF CreateFills, At
<1>2. PICK n \in Name : n = op.name
    BY <1>1 DEF IInv, Typed, OpTyped
<1>3. PICK e \in Entry : e = op.entry
    BY <1>1 DEF IInv, Typed, OpTyped
<1>4. /\ SameBundles /\ SameAuths /\ before.reg[n] = Absent
      /\ json = [before.reg EXCEPT ![n] = Blank] /\ before.reg \in [Name -> File]
    BY <1>1, <1>2 DEF IInv, CreatePart, Typed, FilesTyped
<1>5. e \in File
    BY <1>3 DEF File, A!File, Entry
<1>6. CASE json' = [json EXCEPT ![n] = e] /\ UNCHANGED quota
    <2>1. FilesTyped' /\ Trouble' <= Trouble
        BY <1>1, <1>5, <1>6, NoFault, TroubleIsNat DEF CreateFills, IInv, Typed, FilesTyped
    <2>2. json' = [before.reg EXCEPT ![n] = e]
        BY <1>4, <1>6
    <2>3. A!Create(n, e)
        BY <1>1, <1>4, <2>2, Shown DEF A!Create, A!Put, SameBundles, SameAuths
    <2>4. A!Served
        BY <2>3, <1>3 DEF A!Served, Entry
    <2>5. A!Next
        BY <1>1, <2>1, <2>4, ShownServed, StillProgress DEF IInv, Typed
    <2> QED
        BY <1>1, <2>1, <2>5, Idle
<1>7. CASE Spend("faults") /\ UNCHANGED json
    <2>1. FilesTyped' /\ Trouble' < Trouble
        BY <1>1, <1>7, SpendFaults DEF CreateFills, IInv, Typed, FilesTyped
    <2>2. A!CreateCut(n)
        BY <1>1, <1>4, <1>7, Shown DEF A!CreateCut, A!Create, A!Put, SameBundles, SameAuths
    <2>3. A!Cut
        BY <2>2 DEF A!Cut
    <2>4. A!Next
        BY <1>1, <2>1, <2>3, ShownCut, FaultHurts DEF IInv, Typed
    <2> QED
        BY <1>1, <2>1, <2>4, Idle
<1> QED
    BY <1>2, <1>3, <1>6, <1>7 DEF CreateFills

\* Removing unlinks the file ...
LEMMA RemoveUnlinksStep ==
  ASSUME IInv, RemoveUnlinks
  PROVE  IInv' /\ UNCHANGED Unknown
<1> USE RegistryFilesAssumption
<1>1. /\ op.kind = "remove" /\ op.at = "unlink" /\ put = NoPut /\ put' = NoPut
      /\ bundle' = bundle /\ auth' = auth /\ before' = before
      /\ Go("forget")
      /\ \/ json' = [json EXCEPT ![op.name] = Absent] /\ UNCHANGED quota
         \/ Spend("faults") /\ json' = json
    BY DEF RemoveUnlinks, At
<1>2. op.name \in Name /\ SameBundles /\ SameAuths /\ json = before.reg
    BY <1>1, PlacesAre DEF IInv, Typed, OpTyped, RemovePart
<1>3. FilesTyped' /\ Trouble' <= Trouble
    <2>1. json' \in [Name -> File]
        BY <1>1 DEF IInv, Typed, FilesTyped, File, A!File
    <2> QED
        BY <1>1, <2>1, NoFault, SpendFaults, TroubleIsNat
           DEF RemoveUnlinks, IInv, Typed, FilesTyped, Trouble
<1>4. OpTyped'
    BY <1>1, GoesOn, PlacesAre DEF IInv, Typed, Places
<1>5. PutTyped'
    BY <1>1 DEF PutTyped
<1>6. op'.kind = "remove" /\ op'.at = "forget" /\ op'.name = op.name
    BY <1>1, GoesOn, PlacesAre DEF IInv, Typed, Places
<1>7. RemovePart'
    BY <1>1, <1>2, <1>6 DEF RemovePart, SameBundles, SameAuths
<1>8. IInv'
    BY <1>1, <1>3, <1>4, <1>5, <1>6, <1>7, Busy, StillProgress
<1> QED
    BY <1>1, <1>6, <1>8, Hidden

\* ... and its backup, which ends it.
LEMMA RemoveForgetsStep ==
  ASSUME IInv, RemoveForgets
  PROVE  IInv' /\ [A!Next]_Unknown
<1> USE RegistryFilesAssumption
<1>1. /\ op.kind = "remove" /\ op.at = "forget" /\ put = NoPut /\ put' = NoPut /\ Reply
      /\ bundle' = bundle /\ auth' = auth /\ before' = before /\ json' = json
    BY DEF RemoveForgets, At
<1>2. PICK n \in Name : n = op.name
    BY <1>1 DEF IInv, Typed, OpTyped
<1>3. /\ SameBundles /\ SameAuths
      /\ json = before.reg \/ json = [before.reg EXCEPT ![n] = Absent]
    BY <1>1, <1>2 DEF IInv, RemovePart
<1>4. FilesTyped' /\ Trouble' <= Trouble
    <2>1. bak' \in [Name -> File]
        BY DEF RemoveForgets, IInv, Typed, FilesTyped, File, A!File
    <2> QED
        BY <1>1, <2>1, NoFault, SpendFaults, TroubleIsNat
           DEF RemoveForgets, IInv, Typed, FilesTyped, Trouble
<1>5. Trouble' <= before.trouble
    BY <1>1, <1>4, StillProgress
<1>6. CASE json = before.reg
    <2>1. [A!Next]_Unknown
        BY <1>1, <1>3, <1>4, <1>5, <1>6, ShownNothing DEF IInv, Typed, SameBundles, SameAuths
    <2> QED
        BY <1>1, <1>4, <2>1, Idle
<1>7. CASE json = [before.reg EXCEPT ![n] = Absent]
    <2>1. A!Remove(n)
        BY <1>1, <1>3, <1>7, Shown DEF A!Remove, A!Put, SameBundles, SameAuths
    <2>2. A!Served
        BY <2>1 DEF A!Served
    <2>3. A!Next
        BY <1>1, <1>4, <1>5, <2>2, ShownServed DEF IInv, Typed
    <2> QED
        BY <1>1, <1>4, <2>3, Idle
<1> QED
    BY <1>3, <1>6, <1>7

\* The new credentials are written beside the old ...
LEMMA AuthWritesStep ==
  ASSUME IInv, AuthWrites
  PROVE  IInv' /\ [A!Next]_Unknown
<1> USE RegistryFilesAssumption
<1>1. /\ op.kind \in {"login", "logout"} /\ op.at = "write"
      /\ UNCHANGED <<json, bak, tmp, bundle, put, before>>
    BY DEF AuthWrites
<1>2. put = NoPut /\ put' = NoPut
    BY <1>1 DEF IInv, Typed, PutTyped
<1>3. op.name \in Hub /\ SameReg /\ SameBundles /\ SameAuths
    BY <1>1 DEF IInv, Typed, OpTyped, AuthPart
<1>4. NewAuths \in SUBSET Hub
    BY <1>3 DEF NewAuths, IInv, Typed, FilesTyped
<1>5. CASE Go("replace")
    <2>2. OpTyped' /\ op'.kind = op.kind /\ op'.at = "replace" /\ op'.name = op.name
        BY <1>1, <1>5, GoesOn, PlacesAre DEF IInv, Typed, Places
    <2>3. op'.kind # "none" /\ NoOp.kind = "none"
        BY <1>1, <2>2 DEF NoOp
    <2>4. op' # NoOp
        BY <2>3
    <2>5. \/ auth' = [auth EXCEPT !.tmp = NewAuths] /\ UNCHANGED quota
          \/ Spend("faults") /\ auth' = [auth EXCEPT !.tmp = {}]
        BY <2>4 DEF AuthWrites, Reply
    <2>6. FilesTyped' /\ Trouble' <= Trouble /\ (Trouble' = Trouble \/ Trouble' < Trouble)
        <3>1. auth' \in [json : SUBSET Hub, tmp : SUBSET Hub]
            BY <1>4, <2>5 DEF IInv, Typed, FilesTyped
        <3>2. /\ quota' \in [{"commands", "deaths", "faults"} -> Nat]
              /\ Trouble' = Trouble \/ Trouble' < Trouble
            BY <2>5, NoFault, SpendFaults DEF IInv, Typed
        <3>3. FilesTyped'
            BY <1>1, <3>1, <3>2 DEF IInv, Typed, FilesTyped
        <3> QED
            BY <3>2, <3>3, TroubleIsNat DEF IInv, Typed, FilesTyped, Trouble
    <2>8. PutTyped'
        BY <1>2 DEF PutTyped
    <2>9. AuthPart'
        <3>1. SameReg' /\ SameBundles' /\ SameAuths' /\ auth'.json = auth.json
            BY <1>1, <1>3, <2>5 DEF SameReg, SameBundles, SameAuths, IInv, Typed, FilesTyped
        <3>2. NewAuths' = NewAuths
            BY <2>2, <3>1 DEF NewAuths
        <3>3. CASE auth' = [auth EXCEPT !.tmp = NewAuths]
            BY <3>1, <3>2, <3>3 DEF AuthPart, IInv, Typed, FilesTyped
        <3>4. CASE Spend("faults") /\ auth' = [auth EXCEPT !.tmp = {}]
            <4>1. Hurt'
                BY <1>1, <2>6, <3>4, SpendFaults, FaultHurts DEF Hurt, IInv, Typed
            <4>2. auth'.tmp = {}
                BY <3>4 DEF IInv, Typed, FilesTyped
            <4> QED
                BY <3>1, <4>1, <4>2 DEF AuthPart
        <3> QED
            BY <2>5, <3>3, <3>4
    <2>10. IInv'
        BY <1>1, <2>2, <2>3, <2>2, <2>6, <2>8, <2>9, Busy, StillProgress
    <2> QED
        BY <1>1, <2>3, <2>10, Hidden
<1>6. CASE Spend("faults") /\ UNCHANGED auth /\ Reply
    <2>1. FilesTyped' /\ Trouble' < Trouble
        BY <1>1, <1>6, SpendFaults DEF IInv, Typed, FilesTyped
    <2>2. [A!Next]_Unknown
        BY <1>1, <1>3, <1>6, <2>1, FaultHurts, ShownNothing
           DEF IInv, Typed, SameReg, SameBundles, SameAuths
    <2> QED
        BY <1>2, <1>6, <2>1, <2>2, Idle
<1> QED
    BY <1>5, <1>6 DEF AuthWrites

\* ... and put in their place.
LEMMA AuthReplacesStep ==
  ASSUME IInv, AuthReplaces
  PROVE  IInv' /\ [A!Next]_Unknown
<1> USE RegistryFilesAssumption
<1>1. /\ op.kind \in {"login", "logout"} /\ op.at = "replace" /\ Reply /\ op.kind # "none"
      /\ UNCHANGED <<json, bak, tmp, bundle, put, before>>
    BY DEF AuthReplaces
<1>2. put = NoPut /\ put' = NoPut
    BY <1>1 DEF IInv, Typed, PutTyped
<1>3. PICK h \in Hub : h = op.name
    BY <1>1 DEF IInv, Typed, OpTyped
<1>4. /\ json = before.reg /\ bundle = before.bundle /\ auth.json = before.auths
      /\ auth.tmp = NewAuths \/ (Hurt /\ auth.tmp = {})
    BY <1>1 DEF IInv, AuthPart, SameReg, SameBundles, SameAuths
<1>5. CASE auth' = [json |-> auth.tmp, tmp |-> {}] /\ UNCHANGED quota
    <2>1. FilesTyped' /\ Trouble' = Trouble /\ Trouble' <= Trouble
        BY <1>1, <1>5, NoFault, TroubleIsNat DEF IInv, Typed, FilesTyped
    <2>2. Trouble' <= before.trouble
        BY <1>1, <2>1, StillProgress
    <2>3. CASE auth.tmp = NewAuths
        <3>1. A!Login(h) \/ A!Logout(h)
            BY <1>1, <1>3, <1>4, <1>5, <2>3, Shown DEF A!Login, A!Logout, NewAuths
        <3>2. A!Served
            BY <3>1 DEF A!Served
        <3>3. A!Next
            BY <1>1, <2>1, <2>2, <3>2, ShownServed DEF IInv, Typed
        <3> QED
            BY <1>1, <1>2, <2>1, <3>3, Idle
    <2>4. CASE Hurt /\ auth.tmp = {}
        <3>1. A!AuthCut
            BY <1>1, <1>4, <1>5, <2>4, Shown DEF A!AuthCut
        <3>2. A!Cut
            BY <3>1 DEF A!Cut
        <3>3. A!Next
            BY <1>1, <2>1, <2>4, <3>2, ShownCut DEF IInv, Typed, Hurt
        <3> QED
            BY <1>1, <1>2, <2>1, <3>3, Idle
    <2> QED
        BY <1>4, <2>3, <2>4
<1>6. CASE Spend("faults") /\ auth' = [auth EXCEPT !.tmp = {}]
    <2>1. FilesTyped' /\ Trouble' < Trouble /\ auth'.json = auth.json
        BY <1>1, <1>6, SpendFaults DEF IInv, Typed, FilesTyped
    <2>2. [A!Next]_Unknown
        BY <1>1, <1>4, <2>1, FaultHurts, ShownNothing DEF IInv, Typed
    <2> QED
        BY <1>1, <1>2, <2>1, <2>2, Idle
<1> QED
    BY <1>5, <1>6 DEF AuthReplaces
-----------------------------------------------------------------------------
(* Deleting the backups.                                                   *)

\* A backup is begun: a part of it is gone.
LEMMA PruneTearsStep ==
  ASSUME IInv, PruneTears
  PROVE  IInv' /\ UNCHANGED Unknown
<1> USE RegistryFilesAssumption
<1>1. /\ op.kind = "prune" /\ op.at = "delete" /\ put = NoPut /\ put' = NoPut
      /\ json' = json /\ auth' = auth /\ before' = before /\ quota' = quota
      /\ bak' = bak /\ tmp' = tmp
    BY DEF PruneTears, At, files
<1>2. PICK p \in op.left : /\ bundle' = [bundle EXCEPT ![p].prev = Torn]
                           /\ op' = [op EXCEPT !.at = "remove", !.to = p, !.left = @ \ {p}]
    BY DEF PruneTears
<1>3. op.left \subseteq Path /\ p \in Path
    BY <1>1, <1>2 DEF IInv, Typed, OpTyped
<1>4. FilesTyped' /\ Trouble' <= Trouble
    <2>1. bundle' \in [Path -> A!Dirs]
        BY <1>2, <1>3 DEF IInv, Typed, FilesTyped, A!Dirs, A!Dir
    <2> QED
        BY <1>1, <2>1, NoFault, TroubleIsNat DEF IInv, Typed, FilesTyped
<1>5. /\ op'.kind = "prune" /\ op'.at = "remove" /\ op'.to = p /\ op'.left = op.left \ {p}
    BY <1>1, <1>2 DEF IInv, Typed, OpTyped
<1>6. OpTyped'
    BY <1>1, <1>2, <1>3, PlacesAre DEF IInv, Typed, OpTyped, Places
<1>7. PutTyped'
    BY <1>1 DEF PutTyped
<1>8. PrunePart'
    <2>1. /\ SameReg /\ SameAuths /\ \A q \in op.left : Doomed(q)
          /\ \A q \in Path :
               /\ bundle[q].live = before.bundle[q].live
               /\ bundle[q].aside = before.bundle[q].aside
               /\ IF q \in op.left \/ ~Doomed(q) THEN bundle[q].prev = before.bundle[q].prev
                  ELSE bundle[q].prev = None \/ (Hurt /\ bundle[q].prev = Torn)
        BY <1>1 DEF IInv, PrunePart
    <2>2. \A q : Doomed(q)' <=> Doomed(q)
        BY <1>1 DEF Doomed
    <2>3. Hurt => Hurt'
        BY <1>1, <1>4, StillProgress
    <2>4. \A q \in Path : /\ bundle'[q].live = bundle[q].live
                          /\ bundle'[q].aside = bundle[q].aside
                          /\ q # p => bundle'[q].prev = bundle[q].prev
                          /\ q = p => bundle'[q].prev = Torn
        BY <1>2, <1>3 DEF IInv, Typed, FilesTyped, A!Dirs
    <2>5. SameReg' /\ SameAuths'
        BY <1>1, <2>1 DEF SameReg, SameAuths
    <2> QED
        BY <1>1, <1>2, <1>5, <2>1, <2>2, <2>3, <2>4, <2>5 DEF PrunePart
<1>9. IInv'
    BY <1>1, <1>4, <1>5, <1>6, <1>7, <1>8, Busy, StillProgress
<1> QED
    BY <1>1, <1>5, <1>9, Hidden

\* The rest of it goes, or stays where something failed.
LEMMA PruneRemovesStep ==
  ASSUME IInv, PruneRemoves
  PROVE  IInv' /\ UNCHANGED Unknown
<1> USE RegistryFilesAssumption
<1>1. /\ op.kind = "prune" /\ op.at = "remove" /\ put = NoPut /\ put' = NoPut /\ Go("delete")
      /\ json' = json /\ auth' = auth /\ before' = before /\ bak' = bak /\ tmp' = tmp
      /\ \/ bundle' = [bundle EXCEPT ![op.to].prev = None] /\ UNCHANGED quota
         \/ Spend("faults") /\ bundle' = bundle
    BY DEF PruneRemoves, At, files
<1>2. PICK p \in Path : p = op.to
    BY <1>1 DEF IInv, Typed, OpTyped
<1>3. /\ OpTyped' /\ op'.kind = "prune" /\ op'.at = "delete" /\ op'.left = op.left
    BY <1>1, GoesOn, PlacesAre DEF IInv, Typed, Places
<1>4. /\ FilesTyped' /\ Trouble' <= Trouble
      /\ \/ bundle' = [bundle EXCEPT ![p].prev = None]
         \/ Trouble' < Trouble /\ bundle' = bundle
    <2>1. bundle' \in [Path -> A!Dirs]
        <3>1. bundle \in [Path -> A!Dirs] /\ [bundle[p] EXCEPT !.prev = None] \in A!Dirs
            BY DEF IInv, Typed, FilesTyped, A!Dirs, A!Dir
        <3>2. bundle' = [bundle EXCEPT ![p] = [bundle[p] EXCEPT !.prev = None]]
                \/ bundle' = bundle
            BY <1>1, <1>2, <3>1
        <3> QED
            BY <3>1, <3>2
    <2>2. /\ quota' \in [{"commands", "deaths", "faults"} -> Nat]
          /\ \/ Trouble' = Trouble /\ bundle' = [bundle EXCEPT ![p].prev = None]
             \/ Trouble' < Trouble /\ bundle' = bundle
        BY <1>1, <1>2, NoFault, SpendFaults DEF IInv, Typed
    <2>3. FilesTyped'
        BY <1>1, <2>1, <2>2 DEF IInv, Typed, FilesTyped
    <2>4. Trouble' \in Nat /\ Trouble \in Nat
        BY <2>3, TroubleIsNat DEF IInv, Typed, FilesTyped, Trouble
    <2> QED
        BY <2>2, <2>3, <2>4
<1>5. PutTyped'
    BY <1>1 DEF PutTyped
<1>6. PrunePart'
    <2>1. /\ SameReg /\ SameAuths /\ (\A q \in op.left : Doomed(q))
          /\ Doomed(p) /\ p \notin op.left
          /\ \A q \in Path :
               /\ bundle[q].live = before.bundle[q].live
               /\ bundle[q].aside = before.bundle[q].aside
               /\ IF q = p THEN bundle[q].prev = Torn
                  ELSE IF q \in op.left \/ ~Doomed(q) THEN bundle[q].prev = before.bundle[q].prev
                  ELSE bundle[q].prev = None \/ (Hurt /\ bundle[q].prev = Torn)
        BY <1>1, <1>2 DEF IInv, PrunePart
    <2>2. \A q : Doomed(q)' <=> Doomed(q)
        BY <1>1 DEF Doomed
    <2>3. (Hurt => Hurt') /\ (Trouble' < Trouble => Hurt')
        BY <1>1, <1>4, StillProgress, FaultHurts DEF Hurt
    <2>4. \A q \in Path : /\ bundle'[q].live = bundle[q].live
                          /\ bundle'[q].aside = bundle[q].aside
                          /\ q # p => bundle'[q].prev = bundle[q].prev
                          /\ bundle'[p].prev = None \/ (Hurt' /\ bundle'[p].prev = bundle[p].prev)
        <3>1. bundle \in [Path -> A!Dirs] /\ bundle[p] \in A!Dirs
            BY DEF IInv, Typed, FilesTyped
        <3>2. CASE bundle' = [bundle EXCEPT ![p].prev = None]
            BY <3>1, <3>2 DEF A!Dirs
        <3>3. CASE Trouble' < Trouble /\ bundle' = bundle
            BY <2>3, <3>3
        <3> QED
            BY <1>4, <3>2, <3>3
    <2>5. SameReg' /\ SameAuths'
        BY <1>1, <2>1 DEF SameReg, SameAuths
    <2>6. \A q \in Path : IF q \in op.left \/ ~Doomed(q)
                          THEN bundle'[q].prev = before.bundle[q].prev
                          ELSE bundle'[q].prev = None \/ (Hurt' /\ bundle'[q].prev = Torn)
        BY <2>1, <2>3, <2>4
    <2> QED
        BY <1>1, <1>3, <2>1, <2>2, <2>4, <2>5, <2>6 DEF PrunePart
<1>7. IInv'
    BY <1>1, <1>3, <1>4, <1>5, <1>6, Busy, StillProgress
<1> QED
    BY <1>1, <1>3, <1>7, Hidden

\* A prune cut short: some backups are gone, of others a part is.
LEMMA PruneCutShort ==
  ASSUME IInv, op.kind = "prune", Reply, json' = json, bundle' = bundle, auth' = auth,
         FilesTyped', Trouble' < before.trouble
  PROVE  A!Next
<1>1. /\ Known.reg = before.reg /\ Known.bundle = before.bundle /\ Known.auths = before.auths
      /\ Known'.reg = json /\ Known'.bundle = bundle /\ Known'.auths = auth.json
    BY Shown
<1>2. /\ json = before.reg /\ auth.json = before.auths
      /\ \A p \in Path :
           /\ bundle[p].live = before.bundle[p].live /\ bundle[p].aside = before.bundle[p].aside
           /\ \/ bundle[p].prev = before.bundle[p].prev
              \/ before.bundle[p].prev # None /\ bundle[p].prev \in {None, Torn}
    BY DEF IInv, PrunePart, SameReg, SameAuths, Doomed
<1> DEFINE gone == {p \in Path : before.bundle[p].prev # None /\ bundle[p].prev = None}
           torn == {p \in Path : before.bundle[p].prev # None /\ bundle[p].prev = Torn}
<1>3. gone \in SUBSET A!Backed /\ torn \in SUBSET A!Backed
    BY <1>1 DEF A!Backed
<1>4. bundle = [p \in Path |-> IF p \in gone THEN [before.bundle[p] EXCEPT !.prev = None]
                               ELSE IF p \in torn THEN [before.bundle[p] EXCEPT !.prev = Torn]
                               ELSE before.bundle[p]]
    <2>1. /\ bundle \in [Path -> A!Dirs] /\ before.bundle \in [Path -> A!Dirs]
        BY DEF IInv, Typed, FilesTyped
    <2>2. ASSUME NEW p \in Path
          PROVE  bundle[p] = IF p \in gone THEN [before.bundle[p] EXCEPT !.prev = None]
                             ELSE IF p \in torn THEN [before.bundle[p] EXCEPT !.prev = Torn]
                             ELSE before.bundle[p]
        <3>1. bundle[p] \in A!Dirs /\ before.bundle[p] \in A!Dirs
            BY <2>1
        <3> QED
            BY <1>2, <3>1 DEF A!Dirs
    <2> QED
        BY <2>1, <2>2
<1>5. A!PruneCut
    <2>1. bundle = [p \in Path |-> IF p \in gone THEN [Known.bundle[p] EXCEPT !.prev = None]
                                   ELSE IF p \in torn THEN [Known.bundle[p] EXCEPT !.prev = Torn]
                                   ELSE Known.bundle[p]]
        BY <1>1, <1>4
    <2> HIDE DEF gone, torn
    <2>2. \E G \in SUBSET A!Backed, T \in SUBSET A!Backed :
            bundle = [p \in Path |-> IF p \in G THEN [Known.bundle[p] EXCEPT !.prev = None]
                                     ELSE IF p \in T THEN [Known.bundle[p] EXCEPT !.prev = Torn]
                                     ELSE Known.bundle[p]]
        BY <1>3, <2>1, Zenon
    <2> QED
        BY <1>1, <1>2, <2>2 DEF A!PruneCut
<1>6. A!Cut
    BY <1>5 DEF A!Cut
<1> QED
    BY <1>6, ShownCut DEF IInv, Typed

\* With no backup left to visit the prune is over.
LEMMA PruneEndsStep ==
  ASSUME IInv, PruneEnds
  PROVE  IInv' /\ A!Next
<1>1. /\ op.kind = "prune" /\ op.at = "delete" /\ put = NoPut /\ put' = NoPut /\ op.left = {}
      /\ Reply
      /\ json' = json /\ auth' = auth /\ before' = before /\ bak' = bak /\ tmp' = tmp
      /\ bundle' = bundle /\ quota' = quota
    BY DEF PruneEnds, At, files
<1>2. FilesTyped' /\ Trouble' = Trouble /\ Trouble' <= Trouble
    BY <1>1, NoFault, TroubleIsNat DEF IInv, Typed, FilesTyped
<1>3. IInv'
    BY <1>1, <1>2, Idle
<1>4. CASE Hurt
    BY <1>1, <1>2, <1>3, <1>4, PruneCutShort DEF Hurt
<1>5. CASE ~Hurt
    <2>1. /\ Known.reg = before.reg /\ Known.bundle = before.bundle /\ Known.auths = before.auths
          /\ Known'.reg = json /\ Known'.bundle = bundle /\ Known'.auths = auth.json
        BY <1>1, Shown
    <2>2. /\ json = before.reg /\ auth.json = before.auths
          /\ \A p \in Path :
               /\ bundle[p].live = before.bundle[p].live
               /\ bundle[p].aside = before.bundle[p].aside
               /\ IF A!Named(before.reg, p) /\ before.bundle[p].prev # None
                  THEN bundle[p].prev = None ELSE bundle[p].prev = before.bundle[p].prev
        BY <1>1, <1>5 DEF IInv, PrunePart, SameReg, SameAuths, Doomed
    <2>3. bundle = [p \in Path |-> IF A!Named(before.reg, p)
                                   THEN [before.bundle[p] EXCEPT !.prev = None]
                                   ELSE before.bundle[p]]
        <3>1. /\ bundle \in [Path -> A!Dirs] /\ before.bundle \in [Path -> A!Dirs]
            BY DEF IInv, Typed, FilesTyped
        <3>2. ASSUME NEW p \in Path
              PROVE  bundle[p] = IF A!Named(before.reg, p)
                                 THEN [before.bundle[p] EXCEPT !.prev = None]
                                 ELSE before.bundle[p]
            <4>1. bundle[p] \in A!Dirs /\ before.bundle[p] \in A!Dirs
                BY <3>1
            <4> QED
                BY <2>2, <4>1 DEF A!Dirs
        <3> QED
            BY <3>1, <3>2
    <2>4. A!Prune
        BY <2>1, <2>2, <2>3 DEF A!Prune
    <2>5. A!Served
        BY <2>4 DEF A!Served
    <2>6. Trouble' <= before.trouble
        BY <1>1, <1>2, StillProgress
    <2> QED
        BY <1>1, <1>2, <1>3, <2>5, <2>6, ShownServed DEF IInv, Typed
<1> QED
    BY <1>4, <1>5
-----------------------------------------------------------------------------
(* Rolling back.                                                           *)

\* A rollback cut short, or one that is over.
LEMMA RollbackShown ==
  ASSUME IInv, op.kind = "rollback", Reply, json' = json, bundle' = bundle, auth' = auth,
         FilesTyped', Trouble' <= before.trouble, Hurt => Trouble' < before.trouble,
         Trouble' < before.trouble \/ (op.at = "reply" /\ put = NoPut)
  PROVE  [A!Next]_Unknown
<1>1. /\ Known.reg = before.reg /\ Known.bundle = before.bundle /\ Known.auths = before.auths
      /\ Known'.reg = json /\ Known'.bundle = bundle /\ Known'.auths = auth.json
    BY Shown
<1>2. PICK n \in Name : n = op.name
    BY DEF IInv, Typed, OpTyped
<1>3. PICK p : p = before.reg[n].path
    OBVIOUS
<1>4. /\ auth.json = before.auths /\ before.reg[n] \in Entry
      /\ op.at # "aside" => before.bundle[p].live # None
      /\ before.bundle[p].prev # None
    BY <1>2, <1>3 DEF IInv, RollbackPart, SameAuths
<1>5. op.at \in {"aside", "restore", "keep", "provenance", "reply"}
    BY PlacesAre DEF IInv, Typed, OpTyped
<1>6. CASE op.at = "aside"
    <2>1. json = before.reg /\ bundle = before.bundle
        BY <1>6 DEF IInv, RollbackPart, SameReg
    <2> QED
        BY <1>4, <2>1, ShownNothing DEF IInv, Typed
<1>7. CASE op.at \in {"restore", "keep", "provenance"}
    <2>1. /\ json = before.reg
          /\ bundle \in {[before.bundle EXCEPT ![p].aside = before.bundle[p].live,
                                               ![p].live = None],
                         [before.bundle EXCEPT ![p].aside = before.bundle[p].live,
                                               ![p].live = before.bundle[p].prev,
                                               ![p].prev = None],
                         [before.bundle EXCEPT ![p].live = before.bundle[p].prev,
                                               ![p].prev = before.bundle[p].live]}
        BY <1>2, <1>3, <1>7 DEF IInv, RollbackPart, SameReg
    <2>2. /\ p \in Path /\ before.bundle \in [Path -> A!Dirs] /\ before.bundle[p] \in A!Dirs
        BY <1>3, <1>4 DEF IInv, Typed, FilesTyped, Entry, A!Entry
    <2>3. bundle \in {[before.bundle EXCEPT ![p].live = None,
                                            ![p].aside = before.bundle[p].live],
                      [before.bundle EXCEPT ![p].live = before.bundle[p].prev,
                                            ![p].prev = None,
                                            ![p].aside = before.bundle[p].live],
                      [before.bundle EXCEPT ![p].live = before.bundle[p].prev,
                                            ![p].prev = before.bundle[p].live]}
        BY <2>1, <2>2 DEF A!Dirs
    <2>4. A!RollbackCut(n)
        BY <1>1, <1>3, <1>4, <1>7, <2>1, <2>3 DEF A!RollbackCut, Entry
    <2>5. A!Cut
        BY <2>4 DEF A!Cut
    <2> QED
        BY <1>7, <2>5, ShownCut DEF IInv, Typed
<1>8. CASE op.at = "reply"
    <2>1. /\ SameElsewhere({n}) /\ Replaced(n, A!Swapped(before.reg[n]))
          /\ bundle = [before.bundle EXCEPT ![p].live = before.bundle[p].prev,
                                            ![p].prev = before.bundle[p].live]
        BY <1>2, <1>3, <1>8 DEF IInv, RollbackPart
    <2>2. json \in [Name -> File] /\ before.reg \in [Name -> File]
        BY DEF IInv, Typed, FilesTyped
    <2>3. /\ json[n] = before.reg[n] => json = before.reg
          /\ \A f : json[n] = f => json = [before.reg EXCEPT ![n] = f]
        BY <2>1, <2>2 DEF SameElsewhere
    <2>4. CASE json[n] = A!Swapped(before.reg[n])
        <3>1. json = [Known.reg EXCEPT ![n] = A!Swapped(@)]
            BY <1>1, <2>3, <2>4
        <3>2. bundle = [Known.bundle EXCEPT ![p].live = Known.bundle[p].prev,
                                            ![p].prev = Known.bundle[p].live]
            BY <1>1, <2>1
        <3>3. A!Rollback(n)
            BY <1>1, <1>3, <1>4, <1>8, <3>1, <3>2 DEF A!Rollback, Entry
        <3>4. A!Served
            BY <3>3 DEF A!Served
        <3> QED
            BY <1>8, <3>4, ShownServed DEF IInv, Typed
    <2>5. CASE Trouble' < before.trouble /\ json[n] \in {before.reg[n], Absent}
        <3>1. json \in {Known.reg, [Known.reg EXCEPT ![n] = Absent]}
            BY <1>1, <2>3, <2>5
        <3>2. A!RollbackCut(n)
            BY <1>1, <1>3, <1>4, <1>8, <2>1, <3>1 DEF A!RollbackCut, Entry
        <3>3. A!Cut
            BY <3>2 DEF A!Cut
        <3> QED
            BY <1>8, <2>5, <3>3, ShownCut DEF IInv, Typed
    <2>6. \/ json[n] = A!Swapped(before.reg[n])
          \/ Trouble' < before.trouble /\ json[n] \in {before.reg[n], Absent}
        BY <2>1 DEF Replaced
    <2> QED
        BY <2>4, <2>5, <2>6
<1> QED
    BY <1>5, <1>6, <1>7, <1>8

\* One of the three renames of directories fails, or need not be tried: the request is
\* over.
LEMMA RollbackFails ==
  ASSUME IInv, op.kind = "rollback", Reply, UNCHANGED <<files, put, before, bundle>>,
         put = NoPut, Spend("faults") \/ (op.at = "aside" /\ UNCHANGED quota)
  PROVE  IInv' /\ [A!Next]_Unknown
<1>1. json' = json /\ auth' = auth /\ bak' = bak /\ tmp' = tmp /\ put' = NoPut
    BY DEF files
<1>2. FilesTyped'
    BY <1>1, NoFault, SpendFaults DEF IInv, Typed, FilesTyped
<1>3. CASE Spend("faults")
    <2>1. Trouble' < Trouble
        BY <1>3, SpendFaults DEF IInv, Typed
    <2> QED
        BY <1>1, <1>2, <2>1, FaultHurts, RollbackShown, Idle
<1>4. CASE op.at = "aside" /\ UNCHANGED quota
    <2>1. json = before.reg /\ bundle = before.bundle /\ auth.json = before.auths
        BY <1>4 DEF IInv, RollbackPart, SameReg, SameAuths
    <2>2. Trouble' <= before.trouble
        BY <1>4, NoFault DEF IInv, Typed, Progress
    <2> QED
        BY <1>1, <1>2, <2>1, <2>2, ShownNothing, Idle DEF IInv, Typed
<1> QED
    BY <1>3, <1>4

\* One of them succeeds.
LEMMA RollbackGoes ==
  ASSUME IInv, op.kind = "rollback", put = NoPut, UNCHANGED <<files, put, before, quota>>,
         \/ op.at = "aside" /\ Go("restore") /\ CanSetAside
            /\ bundle' = [bundle EXCEPT ![Here].aside = bundle[Here].live, ![Here].live = None]
         \/ op.at = "restore" /\ Go("keep")
            /\ bundle' = [bundle EXCEPT ![Here].live = bundle[Here].prev, ![Here].prev = None]
         \/ op.at = "keep" /\ Go("provenance")
            /\ bundle' = [bundle EXCEPT ![Here].prev = bundle[Here].aside, ![Here].aside = None]
  PROVE  IInv' /\ UNCHANGED Unknown
<1> USE RegistryFilesAssumption
<1>1. /\ json' = json /\ auth' = auth /\ bak' = bak /\ tmp' = tmp /\ put' = NoPut
      /\ before' = before
    BY DEF files
<1>2. PICK n \in Name : n = op.name
    BY DEF IInv, Typed, OpTyped
<1>3. PICK p : p = before.reg[n].path
    OBVIOUS
<1>4. /\ SameReg /\ SameAuths /\ before.reg[n] \in Entry
      /\ before.bundle[p].prev # None
      /\ op.at # "aside" => before.bundle[p].live # None /\ before.bundle[p].aside = None
      /\ op.at = "aside" => bundle = before.bundle
      /\ op.at = "restore" => bundle = [before.bundle EXCEPT
                                          ![p].aside = before.bundle[p].live, ![p].live = None]
      /\ op.at = "keep" => bundle = [before.bundle EXCEPT
                                       ![p].aside = before.bundle[p].live,
                                       ![p].live = before.bundle[p].prev, ![p].prev = None]
    BY <1>2, <1>3 DEF IInv, RollbackPart
<1>5. /\ p \in Path /\ Here = p
      /\ bundle \in [Path -> A!Dirs] /\ bundle[p] \in A!Dirs
      /\ before.bundle \in [Path -> A!Dirs] /\ before.bundle[p] \in A!Dirs
    BY <1>2, <1>3, <1>4 DEF IInv, Typed, FilesTyped, Entry, A!Entry, Here, SameReg
<1>6. None \in A!Dir
    BY DEF A!Dir
<1>7. bundle' \in [Path -> A!Dirs]
    <2>1. PICK d \in A!Dirs : bundle' = [bundle EXCEPT ![p] = d]
        <3>1. /\ [bundle[p] EXCEPT !.aside = bundle[p].live, !.live = None] \in A!Dirs
              /\ [bundle[p] EXCEPT !.live = bundle[p].prev, !.prev = None] \in A!Dirs
              /\ [bundle[p] EXCEPT !.prev = bundle[p].aside, !.aside = None] \in A!Dirs
            BY <1>5, <1>6 DEF A!Dirs
        <3>2. \/ bundle' = [bundle EXCEPT ![p] =
                              [bundle[p] EXCEPT !.aside = bundle[p].live, !.live = None]]
              \/ bundle' = [bundle EXCEPT ![p] =
                              [bundle[p] EXCEPT !.live = bundle[p].prev, !.prev = None]]
              \/ bundle' = [bundle EXCEPT ![p] =
                              [bundle[p] EXCEPT !.prev = bundle[p].aside, !.aside = None]]
            BY <1>5
        <3> QED
            BY <3>1, <3>2
    <2> QED
        BY <1>5, <2>1
<1>8. FilesTyped' /\ Trouble' <= Trouble
    BY <1>1, <1>7, NoFault, TroubleIsNat DEF IInv, Typed, FilesTyped
<1>9. OpTyped' /\ op'.kind = "rollback" /\ op'.name = n
      /\ \/ op.at = "aside" /\ op'.at = "restore"
         \/ op.at = "restore" /\ op'.at = "keep"
         \/ op.at = "keep" /\ op'.at = "provenance"
    BY <1>2, GoesOn, PlacesAre DEF IInv, Typed, Places
<1>10. PutTyped'
    BY <1>1 DEF PutTyped
<1>11. /\ op.at = "aside" => /\ before.bundle[p].live # None /\ before.bundle[p].aside = None
                             /\ bundle' = [before.bundle EXCEPT
                                             ![p].aside = before.bundle[p].live, ![p].live = None]
       /\ op.at = "restore" => bundle' = [before.bundle EXCEPT
                                            ![p].aside = before.bundle[p].live,
                                            ![p].live = before.bundle[p].prev, ![p].prev = None]
       /\ op.at = "keep" => bundle' = [before.bundle EXCEPT ![p].live = before.bundle[p].prev,
                                                            ![p].prev = before.bundle[p].live]
    <2>1. CASE op.at = "aside"
        BY <1>4, <1>5, <2>1 DEF CanSetAside
    <2>2. CASE op.at = "restore"
        BY <1>4, <1>5, <2>2 DEF A!Dirs
    <2>3. CASE op.at = "keep"
        BY <1>4, <1>5, <2>3 DEF A!Dirs
    <2> QED
        BY <2>1, <2>2, <2>3
<1>12. RollbackPart'
    <2>1. SameReg' /\ SameAuths'
        BY <1>1, <1>4 DEF SameReg, SameAuths
    <2> QED
        BY <1>1, <1>3, <1>4, <1>9, <1>11, <2>1 DEF RollbackPart
<1>13. IInv'
    BY <1>1, <1>8, <1>9, <1>10, <1>12, Busy, StillProgress
<1> QED
    BY <1>1, <1>9, <1>13, Hidden

\* swap_provenance, which may save the entry.
LEMMA RollbackSwapsProvenanceStep ==
  ASSUME IInv, RollbackSwapsProvenance
  PROVE  IInv' /\ UNCHANGED Unknown
<1> USE RegistryFilesAssumption
<1>1. /\ op.kind = "rollback" /\ op.at = "provenance" /\ put = NoPut /\ Go("reply")
      /\ json' = json /\ auth' = auth /\ bak' = bak /\ tmp' = tmp
      /\ before' = before /\ quota' = quota /\ bundle' = bundle
    BY DEF RollbackSwapsProvenance, At, files
<1>2. PICK n \in Name : n = op.name
    BY <1>1 DEF IInv, Typed, OpTyped
<1>3. PICK e : e = before.reg[n]
    OBVIOUS
<1>4. /\ SameReg /\ SameAuths /\ e \in Entry /\ e = json[n]
    BY <1>1, <1>2, <1>3 DEF IInv, RollbackPart, SameReg
<1>5. OpTyped' /\ op'.kind = "rollback" /\ op'.name = n /\ op'.at = "reply"
    BY <1>1, <1>2, GoesOn, PlacesAre DEF IInv, Typed, Places
<1>6. FilesTyped' /\ Trouble' <= Trouble
    BY <1>1, NoFault, TroubleIsNat DEF IInv, Typed, FilesTyped
<1>7. \/ put' = [name |-> n, entry |-> A!Swapped(e), at |-> "write"] /\ A!Recorded(e)
      \/ put' = NoPut /\ A!Swapped(e) = e
    BY <1>1, <1>2, <1>4 DEF RollbackSwapsProvenance, Putting, A!Swapped
<1>8. A!Recorded(e) => A!Swapped(e) \in Entry
    BY <1>4 DEF A!Recorded, A!Swapped, Entry, A!Entry
<1>9. PutTyped'
    BY <1>5, <1>7, <1>8 DEF PutTyped, Puts
<1>10. RollbackPart'
    <2>1. put' # NoPut => put'.entry = A!Swapped(e) /\ put'.name = n
        BY <1>7
    <2>4. put' = NoPut => A!Swapped(e) = e
        <3>1. NoPut.at = ""
            BY DEF NoPut
        <3>2. CASE put' = [name |-> n, entry |-> A!Swapped(e), at |-> "write"]
            <4>1. put'.at = "write"
                BY <3>2
            <4> QED
                BY <3>1, <4>1
        <3> QED
            BY <1>7, <3>2
    <2>2. SameAuths' /\ SameElsewhere({n})'
        BY <1>1, <1>4 DEF SameAuths, SameReg, SameElsewhere
    <2>3. Replaced(n, A!Swapped(e))'
        <3>1. json'[n] = e /\ before'.reg[n] = e
            BY <1>1, <1>3, <1>4
        <3>2. CASE put' # NoPut
            BY <2>1, <3>1, <3>2 DEF Replaced
        <3>3. CASE put' = NoPut
            <4>1. json'[n] = A!Swapped(e) \/ put' # NoPut
                BY <2>4, <3>1
            <4> QED
                BY <3>3, <4>1 DEF Replaced
        <3> QED
            BY <3>2, <3>3
    <2> QED
        BY <1>1, <1>2, <1>3, <1>5, <2>1, <2>2, <2>3 DEF IInv, RollbackPart
<1>11. IInv'
    BY <1>1, <1>5, <1>6, <1>9, <1>10, Busy, StillProgress
<1> QED
    BY <1>1, <1>5, <1>11, Hidden

\* Every step of a rollback.
LEMMA RollbackStepHidden ==
  ASSUME IInv, RollbackStep
  PROVE  IInv' /\ [A!Next]_Unknown
<1>1. CASE RollbackSetsAside
    BY <1>1, RollbackFails, RollbackGoes DEF RollbackSetsAside, At
<1>2. CASE RollbackRestores
    BY <1>2, RollbackFails, RollbackGoes DEF RollbackRestores, At
<1>3. CASE RollbackKeeps
    BY <1>3, RollbackFails, RollbackGoes DEF RollbackKeeps, At
<1>4. CASE RollbackSwapsProvenance
    BY <1>4, RollbackSwapsProvenanceStep
<1> QED
    BY <1>1, <1>2, <1>3, <1>4 DEF RollbackStep
-----------------------------------------------------------------------------
(* Renaming.                                                               *)

\* Renaming a dependency leaves an entry an entry.
LEMMA RepointedIsEntry ==
  ASSUME NEW e \in Entry, NEW o \in Name, NEW n \in Name
  PROVE  A!Repointed(e, o, n) \in Entry
<1>1. e.deps \in SUBSET Name
    BY DEF Entry, A!Entry
<1>2. {IF d = o THEN n ELSE d : d \in e.deps} \in SUBSET Name
    BY <1>1
<1> QED
    BY <1>2 DEF Entry, A!Entry, A!Repointed

\* A rename cut short, or one that is over.
LEMMA RenameShown ==
  ASSUME IInv, op.kind = "rename", Reply, json' = json, bundle' = bundle,
         auth'.json = auth.json,
         FilesTyped', Trouble' <= before.trouble, Hurt => Trouble' < before.trouble,
         Trouble' < before.trouble \/ (op.at = "repoint" /\ op.left = {} /\ put = NoPut)
  PROVE  [A!Next]_Unknown
<1> USE RegistryFilesAssumption
<1>1. /\ Known.reg = before.reg /\ Known.bundle = before.bundle /\ Known.auths = before.auths
      /\ Known'.reg = json /\ Known'.bundle = bundle /\ Known'.auths = auth.json
    BY Shown
<1>2. PICK o \in Name, n \in Name : o = op.name /\ n = op.to /\ o # n
    BY DEF IInv, Typed, OpTyped
<1>3. /\ bundle = before.bundle /\ auth.json = before.auths
      /\ before.reg[o] # Absent /\ before.reg[n] = Absent
      /\ json \in [Name -> File] /\ before.reg \in [Name -> File]
    BY <1>2 DEF IInv, RenamePart, SameBundles, SameAuths, Typed, FilesTyped
<1>4. A!Renamable(o, n)
    BY <1>1, <1>2, <1>3 DEF A!Renamable
<1>5. op.at \in {"copy", "publish", "retire", "repoint"}
    BY PlacesAre DEF IInv, Typed, OpTyped
<1>6. CASE op.at \in {"copy", "publish"}
    <2>1. json = before.reg
        BY <1>6 DEF IInv, RenamePart, SameReg
    <2> QED
        BY <1>3, <2>1, ShownNothing DEF IInv, Typed
<1>7. CASE op.at = "retire"
    <2>1. SameElsewhere({n}) /\ json[n] \in {before.reg[o], Blank}
        BY <1>2, <1>7 DEF IInv, RenamePart, Copied
    <2>2. PICK c \in {Known.reg[o], Blank} : c = json[n]
        BY <1>1, <2>1
    <2>3. json = A!Moved(o, n, c, {}, {})
        BY <1>1, <1>3, <2>1, <2>2 DEF SameElsewhere, A!Moved
    <2>4. A!RenameCut(o, n)
        BY <1>1, <1>3, <1>4, <2>2, <2>3 DEF A!RenameCut
    <2>5. A!Cut
        BY <2>4 DEF A!Cut
    <2> QED
        BY <1>7, <2>5, ShownCut DEF IInv, Typed
<1>8. CASE op.at = "repoint"
    <2>1. Deps = {m \in Name \ {n} : A!Dependent(Known.reg, m, o)}
        BY <1>1, <1>2 DEF Deps
    <2>2. Deps = A!Dependents(o, n) /\ Deps \subseteq Name \ {n}
        BY <2>1 DEF A!Dependents
    <2>3. /\ op.left \subseteq Deps
          /\ OldFile /\ Copied(json[n])
          /\ SameElsewhere({o, n} \cup (Deps \ op.left))
          /\ \A m \in (Deps \ op.left) \ {o} : Replaced(m, A!Repointed(before.reg[m], o, n))
        BY <1>2, <1>8 DEF IInv, RenamePart, Visited
    <2>4. \A m \in Deps : /\ before.reg[m] \in Entry
                          /\ A!Repointed(before.reg[m], o, n) # Absent
        BY <2>2, <1>1, RepointedIsEntry, <2>1 DEF A!Dependent, Entry
    <2>5. \A m \in Name \ {o, n} : m \notin Deps => json[m] = before.reg[m]
        BY <2>3 DEF SameElsewhere
    <2>6. CASE Trouble' < before.trouble
        <3> DEFINE done == {m \in Deps : json[m] = A!Repointed(before.reg[m], o, n)}
                   lost == {m \in Deps \cup {o} : json[m] = Absent}
        <3>1. /\ \A m \in Deps \ {o} : json[m] \in {before.reg[m], Absent,
                                                 A!Repointed(before.reg[m], o, n)}
              /\ \/ json[o] \in {before.reg[o], Absent}
                 \/ o \in Deps /\ json[o] = A!Repointed(before.reg[o], o, n)
            <4>1. ASSUME NEW m \in Deps \ {o}
                  PROVE  json[m] \in {before.reg[m], Absent, A!Repointed(before.reg[m], o, n)}
                BY <2>2, <2>3, <4>1 DEF SameElsewhere, Replaced
            <4>2. \/ json[o] \in {before.reg[o], Absent}
                  \/ o \in Deps /\ json[o] = A!Repointed(before.reg[o], o, n)
                BY <1>2, <2>3 DEF OldFile, Replaced, Visited
            <4> QED
                BY <4>1, <4>2
        <3>2. PICK c \in {Known.reg[o], Blank} : c = json[n]
            BY <1>1, <1>2, <2>3 DEF Copied
        <3>3. ASSUME NEW m \in Name
              PROVE  json[m] = IF m = n THEN c
                               ELSE IF m \in lost THEN Absent
                               ELSE IF m \in done THEN A!Repointed(Known.reg[m], o, n)
                               ELSE Known.reg[m]
            <4>1. CASE m \in {o, n}
                BY <1>1, <1>2, <2>2, <3>1, <3>2, <4>1
            <4>2. CASE m \in Deps \ {o}
                BY <1>1, <2>2, <3>1, <4>2
            <4>3. CASE m \notin Deps /\ m \notin {o, n}
                BY <1>1, <2>5, <4>3
            <4> QED
                BY <4>1, <4>2, <4>3
        <3>4. done \in SUBSET Deps /\ lost \in SUBSET (Deps \cup {o})
            OBVIOUS
        <3> HIDE DEF done, lost
        <3>5. json = A!Moved(o, n, c, done, lost)
            BY <1>3, <3>3 DEF A!Moved
        <3>6. \E d \in SUBSET A!Dependents(o, n), l \in SUBSET (A!Dependents(o, n) \cup {o}) :
                json = A!Moved(o, n, c, d, l)
            BY <2>2, <3>4, <3>5
        <3>7. A!RenameCut(o, n)
            BY <1>1, <1>3, <1>4, <3>6 DEF A!RenameCut
        <3>8. A!Cut
            BY <3>7 DEF A!Cut
        <3> QED
            BY <1>8, <2>6, <3>8, ShownCut DEF IInv, Typed
    <2>7. CASE ~(Trouble' < before.trouble)
        <3>1. ~Hurt /\ op.left = {} /\ put = NoPut
            BY <2>7
        <3>2. json[n] = before.reg[o]
            BY <1>2, <2>3, <3>1 DEF Copied
        <3>3. /\ \A m \in Deps \ {o} : json[m] = A!Repointed(before.reg[m], o, n)
              /\ json[o] = Absent
            BY <1>2, <2>3, <3>1 DEF Replaced, OldFile
        <3>4. ASSUME NEW m \in Name
              PROVE  json[m] = IF m = n THEN Known.reg[o]
                               ELSE IF m \in {o} THEN Absent
                               ELSE IF m \in A!Dependents(o, n)
                                    THEN A!Repointed(Known.reg[m], o, n)
                               ELSE Known.reg[m]
            <4>1. CASE m \in {o, n}
                BY <1>1, <1>2, <3>2, <3>3, <4>1
            <4>2. CASE m \in Deps \ {o}
                BY <1>1, <2>2, <3>3, <4>2
            <4>3. CASE m \notin Deps /\ m \notin {o, n}
                BY <1>1, <2>2, <2>5, <4>3
            <4> QED
                BY <4>1, <4>2, <4>3
        <3>5. json = A!Moved(o, n, Known.reg[o], A!Dependents(o, n), {o})
            BY <1>3, <3>4 DEF A!Moved
        <3>6. A!Rename(o, n)
            BY <1>1, <1>3, <1>4, <3>5 DEF A!Rename
        <3>7. A!Served
            BY <3>6 DEF A!Served
        <3> QED
            BY <1>8, <3>7, ShownServed DEF IInv, Typed
    <2> QED
        BY <2>6, <2>7
<1> QED
    BY <1>5, <1>6, <1>7, <1>8

\* The copy is written, or cut off, or could not be opened.
LEMMA RenameCopiesStep ==
  ASSUME IInv, RenameCopies
  PROVE  IInv' /\ [A!Next]_Unknown
<1> USE RegistryFilesAssumption
<1>1. /\ op.kind = "rename" /\ op.at = "copy" /\ put = NoPut /\ put' = NoPut
      /\ json' = json /\ bak' = bak /\ auth' = auth /\ bundle' = bundle /\ before' = before
    BY DEF RenameCopies, At
<1>2. PICK o \in Name, n \in Name : o = op.name /\ n = op.to /\ o # n
    BY <1>1 DEF IInv, Typed, OpTyped
<1>3. /\ SameReg /\ SameBundles /\ SameAuths
      /\ before.reg[o] # Absent /\ before.reg[n] = Absent /\ json[o] = before.reg[o]
    BY <1>1, <1>2 DEF IInv, RenamePart, SameReg
<1>4. CASE /\ Go("publish")
           /\ \/ tmp' = [tmp EXCEPT ![n] = json[o]] /\ UNCHANGED quota
              \/ tmp' = [tmp EXCEPT ![n] = Blank] /\ Spend("faults")
    <2>1. tmp' \in [Name -> File]
        BY <1>2, <1>4 DEF IInv, Typed, FilesTyped, File, A!File
    <2>2. /\ quota' \in [{"commands", "deaths", "faults"} -> Nat]
          /\ \/ tmp'[n] = before.reg[o] /\ Trouble' = Trouble
             \/ tmp'[n] = Blank /\ Trouble' < Trouble
        BY <1>3, <1>4, NoFault, SpendFaults DEF IInv, Typed, FilesTyped
    <2>3. FilesTyped'
        BY <1>1, <2>1, <2>2 DEF IInv, Typed, FilesTyped
    <2>4. Trouble' <= Trouble /\ (Trouble' < Trouble => Hurt')
        BY <1>1, <2>2, <2>3, FaultHurts, TroubleIsNat DEF IInv, Typed, Hurt, FilesTyped, Trouble
    <2>5. OpTyped' /\ op'.kind = "rename" /\ op'.at = "publish" /\ op'.name = o /\ op'.to = n
        BY <1>1, <1>2, <1>4, GoesOn, PlacesAre DEF IInv, Typed, Places
    <2>6. PutTyped'
        BY <1>1 DEF PutTyped
    <2>7. RenamePart'
        <3>1. SameReg' /\ SameBundles' /\ SameAuths'
            BY <1>1, <1>3 DEF SameReg, SameBundles, SameAuths
        <3> QED
            BY <1>1, <1>3, <2>2, <2>4, <2>5, <3>1 DEF RenamePart, Copied
    <2>8. IInv'
        BY <1>1, <2>3, <2>4, <2>5, <2>6, <2>7, Busy, StillProgress
    <2> QED
        BY <1>1, <2>5, <2>8, Hidden
<1>5. CASE Spend("faults") /\ UNCHANGED tmp /\ Reply
    <2>1. FilesTyped' /\ Trouble' < Trouble
        BY <1>1, <1>5, SpendFaults DEF IInv, Typed, FilesTyped
    <2>2. [A!Next]_Unknown
        BY <1>1, <1>3, <1>5, <2>1, FaultHurts, ShownNothing
           DEF IInv, Typed, SameReg, SameBundles, SameAuths
    <2> QED
        BY <1>1, <1>5, <2>1, <2>2, Idle
<1> QED
    BY <1>2, <1>4, <1>5 DEF RenameCopies

\* The copy is put in its place.
LEMMA RenamePublishesStep ==
  ASSUME IInv, RenamePublishes
  PROVE  IInv' /\ [A!Next]_Unknown
<1> USE RegistryFilesAssumption
<1>1. /\ op.kind = "rename" /\ op.at = "publish" /\ put = NoPut /\ put' = NoPut
      /\ tmp' = [tmp EXCEPT ![op.to] = Absent]
      /\ bak' = bak /\ auth' = auth /\ bundle' = bundle /\ before' = before
    BY DEF RenamePublishes, At
<1>2. PICK o \in Name, n \in Name : o = op.name /\ n = op.to /\ o # n
    BY <1>1 DEF IInv, Typed, OpTyped
<1>3. /\ SameReg /\ SameBundles /\ SameAuths /\ Copied(tmp[n])
      /\ before.reg[o] # Absent /\ before.reg[n] = Absent
    BY <1>1, <1>2 DEF IInv, RenamePart
<1>4. tmp' \in [Name -> File]
    BY <1>1, <1>2 DEF IInv, Typed, FilesTyped, File, A!File
<1>5. CASE json' = [json EXCEPT ![n] = tmp[n]] /\ Go("retire") /\ UNCHANGED quota
    <2>1. json' \in [Name -> File]
        BY <1>2, <1>5 DEF IInv, Typed, FilesTyped
    <2>2. FilesTyped' /\ Trouble' <= Trouble
        BY <1>1, <1>4, <1>5, <2>1, NoFault, TroubleIsNat DEF IInv, Typed, FilesTyped
    <2>3. OpTyped' /\ op'.kind = "rename" /\ op'.at = "retire" /\ op'.name = o /\ op'.to = n
        BY <1>1, <1>2, <1>5, GoesOn, PlacesAre DEF IInv, Typed, Places
    <2>4. PutTyped'
        BY <1>1 DEF PutTyped
    <2>5. RenamePart'
        <3>1. SameBundles' /\ SameAuths'
            BY <1>1, <1>3 DEF SameBundles, SameAuths
        <3>2. \A m \in Name \ {n} : json'[m] = before.reg[m]
            BY <1>3, <1>5 DEF SameReg, IInv, Typed, FilesTyped
        <3>3. json'[n] = tmp[n]
            BY <1>5 DEF IInv, Typed, FilesTyped
        <3>4. json'[n] = before.reg[o] \/ (Hurt' /\ json'[n] = Blank)
            BY <1>1, <1>2, <1>3, <2>2, <3>3, StillProgress DEF Copied
        <3> QED
            BY <1>1, <1>3, <2>3, <3>1, <3>2, <3>4 DEF RenamePart, Copied, SameElsewhere
    <2>6. IInv'
        BY <1>1, <2>2, <2>3, <2>4, <2>5, Busy, StillProgress
    <2> QED
        BY <1>1, <2>3, <2>6, Hidden
<1>6. CASE Spend("faults") /\ UNCHANGED json /\ Reply
    <2>1. FilesTyped' /\ Trouble' < Trouble
        BY <1>1, <1>4, <1>6, SpendFaults DEF IInv, Typed, FilesTyped
    <2>2. [A!Next]_Unknown
        BY <1>1, <1>3, <1>6, <2>1, FaultHurts, ShownNothing
           DEF IInv, Typed, SameReg, SameBundles, SameAuths
    <2> QED
        BY <1>1, <1>6, <2>1, <2>2, Idle
<1> QED
    BY <1>2, <1>5, <1>6 DEF RenamePublishes

\* The old file goes, and the dependents are looked for, unless one of the calls fails.
LEMMA RenameRetiresStep ==
  ASSUME IInv, RenameRetires
  PROVE  IInv' /\ UNCHANGED Unknown
<1> USE RegistryFilesAssumption
<1>1. /\ op.kind = "rename" /\ op.at = "retire" /\ put = NoPut /\ put' = NoPut /\ tmp' = tmp
      /\ bak' = bak /\ auth' = auth /\ bundle' = bundle /\ before' = before
    BY DEF RenameRetires, At
<1>2. PICK o \in Name, n \in Name : o = op.name /\ n = op.to /\ o # n
    BY <1>1 DEF IInv, Typed, OpTyped
<1>3. PICK unlinked \in BOOLEAN, opened \in BOOLEAN, left \in SUBSET (Name \ {n}) :
        /\ IF unlinked /\ opened THEN UNCHANGED quota ELSE Spend("faults")
        /\ json' = IF unlinked THEN [json EXCEPT ![o] = Absent] ELSE json
        /\ left = {m \in Name \ {n} : opened /\ A!Dependent(json', m, o)}
        /\ op' = [op EXCEPT !.at = "repoint", !.left = left]
    BY <1>2 DEF RenameRetires
<1>4. /\ SameBundles /\ SameAuths /\ Copied(json[n])
      /\ \A m \in Name \ {n} : json[m] = before.reg[m]
      /\ before.reg[o] # Absent /\ before.reg[n] = Absent
    BY <1>1, <1>2 DEF IInv, RenamePart, SameElsewhere
<1>5. json' \in [Name -> File]
    BY <1>2, <1>3 DEF IInv, Typed, FilesTyped, File, A!File
<1>6. FilesTyped' /\ Trouble' <= Trouble /\ (Hurt => Hurt') /\ (~(unlinked /\ opened) => Hurt')
    <2>1. CASE unlinked /\ opened
        <3>1. FilesTyped' /\ Trouble' <= Trouble
            BY <1>1, <1>3, <1>5, <2>1, NoFault, TroubleIsNat DEF IInv, Typed, FilesTyped
        <3> QED
            BY <1>1, <2>1, <3>1, StillProgress
    <2>2. CASE ~(unlinked /\ opened)
        <3>1. FilesTyped' /\ Trouble' < Trouble
            BY <1>1, <1>3, <1>5, <2>2, SpendFaults DEF IInv, Typed, FilesTyped
        <3>2. Trouble' < before.trouble
            BY <1>1, <3>1, FaultHurts
        <3>3. Trouble' <= Trouble
            BY <3>1, TroubleIsNat DEF IInv, Typed, FilesTyped, Trouble
        <3> QED
            BY <1>1, <3>1, <3>2, <3>3 DEF Hurt
    <2> QED
        BY <2>1, <2>2
<1>7. /\ op'.kind = "rename" /\ op'.at = "repoint" /\ op'.name = o /\ op'.to = n
      /\ op'.left = left
    BY <1>1, <1>2, <1>3 DEF IInv, Typed, OpTyped
<1>8. Deps' = Deps /\ Deps = {m \in Name \ {n} : A!Dependent(before.reg, m, o)}
    BY <1>1, <1>2, <1>7 DEF Deps
<1>9. /\ json'[n] = json[n] /\ json'[o] \in {Absent, before.reg[o]}
      /\ unlinked => json'[o] = Absent
      /\ ~unlinked => json'[o] = before.reg[o]
      /\ \A m \in Name \ {o, n} : json'[m] = before.reg[m]
    BY <1>2, <1>3, <1>4 DEF IInv, Typed, FilesTyped
<1>10. ASSUME NEW m \in left PROVE m \in Deps /\ json'[m] = before.reg[m] /\ opened
    <2>1. m \in Name \ {n} /\ opened /\ A!Dependent(json', m, o)
        BY <1>3
    <2>2. json'[m] \in Entry
        BY <2>1 DEF A!Dependent, Entry
    <2>3. json'[m] # Absent
        BY <2>2
    <2>4. json'[m] = before.reg[m]
        BY <1>9, <2>1, <2>3
    <2> QED
        BY <1>8, <2>1, <2>4 DEF A!Dependent
<1>11. OpTyped'
    BY <1>1, <1>2, <1>3, <1>7, PlacesAre DEF IInv, Typed, OpTyped, Places
<1>12. PutTyped'
    BY <1>1 DEF PutTyped
<1>13. OldFile'
    <2>1. CASE unlinked
        <3>1. o \notin left
            <4>1. SUFFICES ASSUME o \in left PROVE FALSE
                OBVIOUS
            <4> QED
                BY <1>4, <1>9, <1>10, <2>1, <4>1
        <3> QED
            BY <1>1, <1>7, <1>9, <2>1, <3>1 DEF OldFile
    <2>2. CASE ~unlinked
        <3>1. Hurt' /\ json'[o] = before'.reg[o]
            BY <1>1, <1>6, <1>9, <2>2
        <3>2. o \in Visited' => Replaced(o, A!Repointed(before.reg[o], o, n))'
            BY <1>1, <3>1 DEF Replaced
        <3> QED
            BY <1>1, <1>7, <3>1, <3>2 DEF OldFile
    <2> QED
        BY <2>1, <2>2
<1>14. \A m \in Visited' \ {o} : Replaced(m, A!Repointed(before.reg[m], o, n))'
    <2>1. ASSUME NEW m \in Visited' \ {o}
          PROVE  Replaced(m, A!Repointed(before.reg[m], o, n))'
        <3>1. m \in Deps /\ m \notin left /\ m \in Name \ {o, n}
            BY <1>7, <1>8, <2>1 DEF Visited
        <3>2. json'[m] = before.reg[m] /\ A!Dependent(before.reg, m, o)
            BY <1>8, <1>9, <3>1
        <3>3. A!Dependent(json', m, o)
            BY <3>2 DEF A!Dependent
        <3>4. ~opened
            BY <1>3, <3>1, <3>3
        <3> QED
            BY <1>1, <1>6, <3>2, <3>4 DEF Replaced
    <2> QED
        BY <2>1
<1>15. RenamePart'
    <2>1. SameBundles' /\ SameAuths'
        BY <1>1, <1>4 DEF SameBundles, SameAuths
    <2>2. Copied(json[n])'
        BY <1>1, <1>2, <1>4, <1>6, <1>7, <1>9 DEF Copied
    <2>3. SameElsewhere({o, n} \cup Visited)'
        BY <1>1, <1>9 DEF SameElsewhere
    <2>4. left \subseteq Deps
        BY <1>10
    <2> QED
        BY <1>1, <1>4, <1>7, <1>8, <1>13, <1>14, <2>1, <2>2, <2>3, <2>4 DEF RenamePart
<1>16. IInv'
    BY <1>1, <1>6, <1>7, <1>11, <1>12, <1>15, Busy, StillProgress
<1> QED
    BY <1>1, <1>7, <1>16, Hidden

\* One of them is taken up.
LEMMA RenameRepointsStep ==
  ASSUME IInv, RenameRepoints
  PROVE  IInv' /\ UNCHANGED Unknown
<1> USE RegistryFilesAssumption
<1>1. /\ op.kind = "rename" /\ op.at = "repoint" /\ put = NoPut
      /\ json' = json /\ tmp' = tmp /\ bak' = bak /\ auth' = auth /\ bundle' = bundle
      /\ before' = before /\ quota' = quota
    BY DEF RenameRepoints, At, files
<1>2. PICK o \in Name, n \in Name : o = op.name /\ n = op.to /\ o # n
    BY <1>1 DEF IInv, Typed, OpTyped
<1>3. PICK m \in op.left : /\ op' = [op EXCEPT !.left = @ \ {m}]
                           /\ put' = [name |-> m, entry |-> A!Repointed(json[m], o, n),
                                      at |-> "write"]
    BY <1>2 DEF RenameRepoints, Putting, RepointedEntry
<1>4. /\ op.left \subseteq Deps /\ SameBundles /\ SameAuths
      /\ before.reg[o] # Absent /\ before.reg[n] = Absent
      /\ OldFile /\ Copied(json[n])
      /\ SameElsewhere({o, n} \cup (Deps \ op.left))
      /\ \A k \in (Deps \ op.left) \ {o} : Replaced(k, A!Repointed(before.reg[k], o, n))
    BY <1>1, <1>2 DEF IInv, RenamePart, Visited
<1>5. /\ Deps = {k \in Name \ {n} : A!Dependent(before.reg, k, o)}
      /\ m \in Deps /\ m \in Name \ {n}
    BY <1>2, <1>4 DEF Deps
<1>6. json[m] = before.reg[m] /\ before.reg[m] \in Entry
    <2>1. CASE m = o
        BY <1>2, <1>3, <1>4, <1>5, <2>1 DEF OldFile, Visited, A!Dependent, Entry
    <2>2. CASE m # o
        BY <1>3, <1>4, <1>5, <2>2 DEF SameElsewhere, A!Dependent, Entry
    <2> QED
        BY <2>1, <2>2
<1>7. FilesTyped' /\ Trouble' <= Trouble
    BY <1>1, NoFault, TroubleIsNat DEF IInv, Typed, FilesTyped
<1>8. /\ op'.kind = "rename" /\ op'.at = "repoint" /\ op'.name = o /\ op'.to = n
      /\ op'.left = op.left \ {m} /\ Deps' = Deps
    <2>1. /\ op'.kind = "rename" /\ op'.at = "repoint" /\ op'.name = o /\ op'.to = n
          /\ op'.left = op.left \ {m}
        BY <1>1, <1>2, <1>3 DEF IInv, Typed, OpTyped
    <2> QED
        BY <1>1, <1>2, <2>1 DEF Deps
<1>9. OpTyped'
    BY <1>1, <1>3, <1>8 DEF IInv, Typed, OpTyped
<1>10. PutTyped'
    BY <1>3, <1>5, <1>6, <1>8, RepointedIsEntry DEF PutTyped, Puts
<1>11. RenamePart'
    <2>1. SameBundles' /\ SameAuths' /\ Hurt' = Hurt
        BY <1>1, <1>4 DEF SameBundles, SameAuths, Hurt, Trouble
    <2>2. /\ Deps \ (op.left \ {m}) = (Deps \ op.left) \cup {m}
          /\ Visited' = Deps \ (op.left \ {m})
        BY <1>3, <1>5, <1>8 DEF Visited
    <2>3. \A k \in Name : k \notin {o, n} \cup (Deps \ (op.left \ {m})) => json[k] = before.reg[k]
        BY <1>4 DEF SameElsewhere
    <2>4. \A k \in (Deps \ op.left) \ {o} : Replaced(k, A!Repointed(before.reg[k], o, n))'
        <3>1. ASSUME NEW k \in (Deps \ op.left) \ {o}
              PROVE  Replaced(k, A!Repointed(before.reg[k], o, n))'
            <4>1. k # m /\ put'.name = m
                BY <1>3
            <4>2. json[k] = A!Repointed(before.reg[k], o, n)
                  \/ (Hurt /\ json[k] \in {before.reg[k], Absent})
                BY <1>1, <1>4 DEF Replaced
            <4> QED
                BY <1>1, <2>1, <4>1, <4>2 DEF Replaced
        <3> QED
            BY <3>1
    <2>5. Replaced(m, A!Repointed(before.reg[m], o, n))'
        <3>1. put'.name = m /\ put'.at = "write"
            BY <1>3
        <3>2. put' # NoPut
            <4>1. NoPut.at = ""
                BY DEF NoPut
            <4> QED
                BY <3>1, <4>1
        <3> QED
            BY <1>1, <1>6, <3>1, <3>2 DEF Replaced
    <2>6. put'.name = m /\ put'.entry = A!Repointed(before.reg[m], o, n)
        BY <1>3, <1>6
    <2>7. \A k \in (Deps \ (op.left \ {m})) \ {o} : Replaced(k, A!Repointed(before.reg[k], o, n))'
        BY <2>2, <2>4, <2>5
    <2>8. SameElsewhere({o, n} \cup Visited)' /\ Copied(json[n])'
        BY <1>1, <1>2, <1>4, <1>8, <2>1, <2>2, <2>3 DEF SameElsewhere, Copied
    <2>9. OldFile'
        <3>1. op'.name = o /\ op'.to = n /\ put'.name = m /\ json' = json
            BY <1>1, <1>8, <2>6
        <3>2. CASE json[o] = Absent /\ o \notin op.left
            BY <1>3, <1>8, <3>1, <3>2 DEF OldFile
        <3>3. CASE /\ Hurt /\ o \in Visited
                   /\ Replaced(o, A!Repointed(before.reg[o], o, n))
            <4>1. m # o /\ o \in Visited'
                BY <1>3, <2>2, <3>3 DEF Visited
            <4>2. \/ json[o] = A!Repointed(before.reg[o], o, n)
                  \/ json[o] \in {before.reg[o], Absent}
                BY <1>1, <3>3 DEF Replaced
            <4>3. Replaced(o, A!Repointed(before.reg[o], o, n))'
                BY <1>1, <2>1, <3>1, <3>3, <4>1, <4>2 DEF Replaced
            <4> QED
                BY <1>1, <2>1, <3>1, <3>3, <4>1, <4>3 DEF OldFile
        <3>4. CASE Hurt /\ o \notin Visited /\ json[o] = before.reg[o]
            <4>1. CASE m = o
                BY <1>1, <2>1, <2>2, <2>5, <3>1, <3>4, <4>1 DEF OldFile
            <4>2. CASE m # o
                <5>1. o \notin Visited'
                    BY <2>2, <3>4, <4>2 DEF Visited
                <5> QED
                    BY <1>1, <2>1, <3>1, <3>4, <5>1 DEF OldFile
            <4> QED
                BY <4>1, <4>2
        <3> QED
            BY <1>2, <1>4, <3>2, <3>3, <3>4 DEF OldFile
    <2> QED
        BY <1>1, <1>3, <1>4, <1>5, <1>8, <2>1, <2>2, <2>6, <2>7, <2>8, <2>9 DEF RenamePart
<1>12. IInv'
    BY <1>1, <1>7, <1>8, <1>9, <1>10, <1>11, Busy, StillProgress
<1> QED
    BY <1>1, <1>8, <1>12, Hidden

\* None is left.
LEMMA RenameEndsStep ==
  ASSUME IInv, RenameEnds
  PROVE  IInv' /\ [A!Next]_Unknown
<1>1. /\ op.kind = "rename" /\ op.at = "repoint" /\ put = NoPut /\ put' = NoPut /\ op.left = {}
      /\ json' = json /\ tmp' = tmp /\ bak' = bak /\ auth' = auth /\ bundle' = bundle
      /\ before' = before /\ quota' = quota /\ Reply
    BY DEF RenameEnds, At, files
<1>2. FilesTyped' /\ Trouble' = Trouble /\ Trouble' <= Trouble
    BY <1>1, NoFault, TroubleIsNat DEF IInv, Typed, FilesTyped
<1>3. Trouble' <= before.trouble
    BY <1>1, <1>2, StillProgress
<1>4. Hurt => Trouble' < before.trouble
    BY <1>2 DEF Hurt
<1> QED
    BY <1>1, <1>2, <1>3, <1>4, RenameShown, Idle
-----------------------------------------------------------------------------
(* The answer, and the daemon's death.                                     *)

\* A setconfig request cut short, or over.
LEMMA SetConfigShown ==
  ASSUME IInv, op.kind = "setconfig", Reply, json' = json, bundle' = bundle, auth' = auth,
         FilesTyped', Trouble' <= before.trouble, Hurt => Trouble' < before.trouble,
         Trouble' < before.trouble \/ put = NoPut
  PROVE  [A!Next]_Unknown
<1> USE RegistryFilesAssumption
<1>1. /\ Known.reg = before.reg /\ Known.bundle = before.bundle /\ Known.auths = before.auths
      /\ Known'.reg = json /\ Known'.bundle = bundle /\ Known'.auths = auth.json
    BY Shown
<1>2. PICK n \in Name : n = op.name
    BY DEF IInv, Typed, OpTyped
<1>3. /\ bundle = before.bundle /\ auth.json = before.auths /\ SameElsewhere({n})
      /\ json \in [Name -> File] /\ before.reg \in [Name -> File]
    BY <1>2 DEF IInv, SetConfigPart, SameBundles, SameAuths, Typed, FilesTyped
<1>4. PICK e \in Entry : Replaced(n, e)
    BY <1>2 DEF IInv, SetConfigPart
<1>5. /\ json[n] = before.reg[n] => json = before.reg
      /\ \A f : json[n] = f => json = [before.reg EXCEPT ![n] = f]
    BY <1>3 DEF SameElsewhere
<1>6. CASE json[n] = e
    <2>1. A!Put(n, e)
        BY <1>1, <1>3, <1>5, <1>6 DEF A!Put
    <2>2. A!Served
        BY <2>1 DEF A!Served, Entry
    <2> QED
        BY <2>2, ShownServed DEF IInv, Typed
<1>7. CASE json[n] = before.reg[n]
    BY <1>3, <1>5, <1>7, ShownNothing DEF IInv, Typed
<1>8. CASE json[n] = Absent /\ Trouble' < before.trouble
    <2>1. A!PutCut(n)
        BY <1>1, <1>3, <1>5, <1>8 DEF A!PutCut, A!Put
    <2>2. A!Cut
        BY <2>1 DEF A!Cut
    <2> QED
        BY <1>8, <2>2, ShownCut DEF IInv, Typed
<1> QED
    BY <1>4, <1>6, <1>7, <1>8 DEF Replaced

\* A create cut short.
LEMMA CreateCutShort ==
  ASSUME IInv, op.kind = "create", Reply, json' = json, bundle' = bundle, auth' = auth,
         FilesTyped', Trouble' < before.trouble
  PROVE  [A!Next]_Unknown
<1>1. /\ Known.reg = before.reg /\ Known.bundle = before.bundle /\ Known.auths = before.auths
      /\ Known'.reg = json /\ Known'.bundle = bundle /\ Known'.auths = auth.json
    BY Shown
<1>2. PICK n \in Name : n = op.name
    BY DEF IInv, Typed, OpTyped
<1>3. /\ bundle = before.bundle /\ auth.json = before.auths /\ before.reg[n] = Absent
      /\ json = before.reg \/ json = [before.reg EXCEPT ![n] = Blank]
    BY <1>2 DEF IInv, CreatePart, SameBundles, SameAuths
<1>4. CASE json = before.reg
    <2>1. Trouble' <= before.trouble
        BY TroubleIsNat DEF IInv, Typed, FilesTyped, Trouble
    <2> QED
        BY <1>3, <1>4, <2>1, ShownNothing DEF IInv, Typed
<1>5. CASE json = [before.reg EXCEPT ![n] = Blank]
    <2>1. A!CreateCut(n)
        BY <1>1, <1>3, <1>5 DEF A!CreateCut, A!Create, A!Put
    <2>2. A!Cut
        BY <2>1 DEF A!Cut
    <2> QED
        BY <2>2, ShownCut DEF IInv, Typed
<1> QED
    BY <1>3, <1>4, <1>5

\* A remove cut short has removed the entry or not begun.
LEMMA RemoveCutShort ==
  ASSUME IInv, op.kind = "remove", Reply, json' = json, bundle' = bundle, auth' = auth,
         FilesTyped', Trouble' < before.trouble
  PROVE  [A!Next]_Unknown
<1>1. /\ Known.reg = before.reg /\ Known.bundle = before.bundle /\ Known.auths = before.auths
      /\ Known'.reg = json /\ Known'.bundle = bundle /\ Known'.auths = auth.json
    BY Shown
<1>2. PICK n \in Name : n = op.name
    BY DEF IInv, Typed, OpTyped
<1>3. /\ bundle = before.bundle /\ auth.json = before.auths
      /\ json = before.reg \/ json = [before.reg EXCEPT ![n] = Absent]
    BY <1>2 DEF IInv, RemovePart, SameBundles, SameAuths
<1>4. Trouble' <= before.trouble
    BY TroubleIsNat DEF IInv, Typed, FilesTyped, Trouble
<1>5. CASE json = before.reg
    BY <1>3, <1>4, <1>5, ShownNothing DEF IInv, Typed
<1>6. CASE json = [before.reg EXCEPT ![n] = Absent]
    <2>1. A!Remove(n)
        BY <1>1, <1>3, <1>6 DEF A!Remove, A!Put
    <2>2. A!Served
        BY <2>1 DEF A!Served
    <2> QED
        BY <1>4, <2>2, ShownServed DEF IInv, Typed
<1> QED
    BY <1>3, <1>5, <1>6

\* The credentials are as they were until the file is replaced.
LEMMA AuthCutShort ==
  ASSUME IInv, op.kind \in {"login", "logout"}, Reply, json' = json, bundle' = bundle,
         auth' = auth, FilesTyped', Trouble' <= before.trouble
  PROVE  [A!Next]_Unknown
BY ShownNothing DEF IInv, Typed, AuthPart, SameReg, SameBundles, SameAuths

\* Nothing of setconfig is left: the daemon answers.
LEMMA RepliesStep ==
  ASSUME IInv, Replies
  PROVE  IInv' /\ [A!Next]_Unknown
<1>1. /\ op.at = "reply" /\ put = NoPut /\ put' = NoPut
      /\ json' = json /\ tmp' = tmp /\ bak' = bak /\ auth' = auth /\ bundle' = bundle
      /\ before' = before /\ quota' = quota /\ Reply
    BY DEF Replies, files
<1>2. op.kind = "setconfig" \/ op.kind = "rollback"
    <2>1. PlacesOf["none"] = {""}
        BY DEF PlacesOf
    <2> QED
        BY <1>1, <2>1, PlacesAre DEF IInv, Typed, OpTyped, Kinds
<1>3. FilesTyped' /\ Trouble' = Trouble /\ Trouble' <= Trouble
    BY <1>1, NoFault, TroubleIsNat DEF IInv, Typed, FilesTyped
<1>4. Trouble' <= before.trouble
    BY <1>1, <1>2, <1>3, StillProgress
<1>5. Hurt => Trouble' < before.trouble
    BY <1>3 DEF Hurt
<1> QED
    BY <1>1, <1>2, <1>3, <1>4, <1>5, SetConfigShown, RollbackShown, Idle

\* The death of the daemon cuts short whatever it was doing.
LEMMA DaemonDiesStep ==
  ASSUME IInv, DaemonDies
  PROVE  IInv' /\ [A!Next]_Unknown
<1>1. /\ op.kind # "none" /\ put' = NoPut /\ Reply /\ Spend("deaths")
      /\ json' = json /\ tmp' = tmp /\ bak' = bak /\ auth' = auth /\ bundle' = bundle
      /\ before' = before
    BY DEF DaemonDies, Reply, files
<1>2. FilesTyped' /\ Trouble' < Trouble
    BY <1>1, SpendFaults DEF IInv, Typed, FilesTyped
<1>3. Trouble' < before.trouble /\ Trouble' <= before.trouble
    BY <1>1, <1>2, FaultHurts
<1>4. op.kind \in {"setconfig", "create", "remove", "rename", "rollback", "prune", "login",
                   "logout"}
    BY <1>1 DEF IInv, Typed, OpTyped, Kinds
<1>5. [A!Next]_Unknown
    BY <1>1, <1>2, <1>3, <1>4, SetConfigShown, CreateCutShort, RemoveCutShort, RenameShown,
       RollbackShown, PruneCutShort, AuthCutShort
<1> QED
    BY <1>1, <1>2, <1>5, Idle

-----------------------------------------------------------------------------
\* Every step keeps the invariant, and is a step of Registry or shows nothing.
LEMMA Steps ==
  ASSUME IInv, [Next]_vars
  PROVE  IInv' /\ [A!Next]_Unknown
<1>1. CASE Request
    <2>1. CASE \E n \in Name, e \in Offered : SetConfig(n, e)
        BY <2>1, SetConfigBegins
    <2>2. CASE \E n \in Name : \/ \E e \in Offered : Create(n, e)
                               \/ Remove(n) \/ Rollback(n)
                               \/ \E m \in Name : Rename(n, m)
        BY <2>2, PlainBegins
    <2>3. CASE \E p \in Path, v \in Version : Converted(p, v)
        BY <2>3, ConvertedServed
    <2>4. CASE \E h \in Hub : Credentials("login", h) \/ Credentials("logout", h)
        BY <2>4, CredentialsBegin
    <2>5. CASE Prune
        BY <2>5, PruneBegins
    <2> QED
        BY <1>1, <2>1, <2>2, <2>3, <2>4, <2>5 DEF Request
<1>2. CASE PutStep
    BY <1>2, PutStepHidden
<1>3. CASE CreateOpens \/ CreateFills \/ RemoveUnlinks \/ RemoveForgets
    BY <1>3, CreateOpensStep, CreateFillsStep, RemoveUnlinksStep, RemoveForgetsStep
<1>4. CASE RenameStep
    BY <1>4, RenameCopiesStep, RenamePublishesStep, RenameRetiresStep, RenameRepointsStep,
       RenameEndsStep DEF RenameStep
<1>5. CASE RollbackStep
    BY <1>5, RollbackStepHidden
<1>6. CASE PruneStep
    BY <1>6, PruneTearsStep, PruneRemovesStep, PruneEndsStep DEF PruneStep
<1>7. CASE AuthStep
    BY <1>7, AuthWritesStep, AuthReplacesStep DEF AuthStep
<1>8. CASE Replies \/ DaemonDies
    BY <1>8, RepliesStep, DaemonDiesStep
<1>9. CASE UNCHANGED vars
    <2>1. IInv'
        <3>1. Typed' /\ Progress'
            BY <1>9 DEF vars, IInv, Typed, FilesTyped, OpTyped, PutTyped, Progress, Trouble
        <3>2. SetConfigPart' /\ CreatePart' /\ RemovePart'
            BY <1>9 DEF vars, IInv, SetConfigPart, CreatePart, RemovePart, SameBundles,
                 SameAuths, SameElsewhere, Replaced, Hurt, Trouble
        <3>3. RenamePart'
            BY <1>9 DEF vars, IInv, RenamePart, SameReg, SameBundles, SameAuths, SameElsewhere,
                 Replaced, Copied, Deps, Visited, OldFile, Hurt, Trouble
        <3>4. RollbackPart'
            BY <1>9 DEF vars, IInv, RollbackPart, SameReg, SameAuths, SameElsewhere, Replaced,
                 Hurt, Trouble
        <3>5. PrunePart' /\ AuthPart'
            BY <1>9 DEF vars, IInv, PrunePart, AuthPart, SameReg, SameBundles, SameAuths,
                 Doomed, NewAuths, Hurt, Trouble
        <3> QED
            BY <3>1, <3>2, <3>3, <3>4, <3>5 DEF IInv
    <2>2. UNCHANGED Unknown
        BY <1>9 DEF vars, Unknown, Known, Now
    <2> QED
        BY <2>1, <2>2
<1> QED
    BY <1>1, <1>2, <1>3, <1>4, <1>5, <1>6, <1>7, <1>8, <1>9 DEF Next

\* The invariant is one of every behaviour.
LEMMA Invariance == Spec => []IInv
<1>1. Init => IInv
    BY InitHolds
<1>2. IInv /\ [Next]_vars => IInv'
    BY Steps
<1> QED
    BY <1>1, <1>2, PTL DEF Spec

\* Every file, directory and counter stays in its domain whatever fails; in particular a
\* rollback always finds the entry whose path it goes by (rollback_swap,
\* swap_provenance).
THEOREM FilesAreTyped == Spec => []TypeOK
<1> USE RegistryFilesAssumption
<1>1. IInv => TypeOK
    <2>1. SUFFICES ASSUME IInv PROVE TypeOK
        OBVIOUS
    <2>2. put \in [name : Name \cup {None}, entry : File, at : {"", "write", "backup", "replace"}]
        <3>1. put = NoPut \/ put \in [name : Name, entry : Entry, at : Puts]
            BY <2>1 DEF IInv, Typed, PutTyped
        <3>2. NoPut \in [name : Name \cup {None}, entry : File,
                         at : {"", "write", "backup", "replace"}]
            BY DEF NoPut, File, A!File
        <3>3. Entry \subseteq File
            BY DEF File, A!File, Entry
        <3> QED
            BY <3>1, <3>2, <3>3 DEF Puts
    <2>3. op.kind = "rollback" /\ op.at \in {"aside", "restore", "keep", "provenance"}
            => json[op.name] \in Entry
        BY <2>1 DEF IInv, RollbackPart, SameReg
    <2> QED
        BY <2>1, <2>2, <2>3 DEF IInv, Typed, FilesTyped, OpTyped, TypeOK
<1> QED
    BY <1>1, Invariance, PTL

\* An entry that stops being listed other than by remove() or a rename is whole in its
\* .bak, and the entry that replaces it in its .tmp (setconfig, write_secure).
THEOREM SetConfigKeepsEntries == Spec => SetConfigKeeps
<1> DEFINE Kept == \A n \in Name :
       /\ json[n] \in Entry /\ json'[n] \notin Entry
       /\ ~At("remove", "unlink") /\ ~At("rename", "retire")
       => /\ put.name = n
          /\ bak'[n] = json[n] /\ tmp'[n] = put.entry
<1> USE RegistryFilesAssumption
<1>1. IInv /\ [Next]_vars => [Kept]_vars
    <2> SUFFICES ASSUME IInv, Next, NEW n \in Name, json[n] \in Entry, json'[n] \notin Entry,
                        ~At("remove", "unlink"), ~At("rename", "retire")
                 PROVE  put.name = n /\ bak'[n] = json[n] /\ tmp'[n] = put.entry
        OBVIOUS
    <2>1. json' # json
        OBVIOUS
    <2>2. json \in [Name -> File] /\ bak \in [Name -> File] /\ tmp \in [Name -> File]
        BY DEF IInv, Typed, FilesTyped
    <2>3. CASE PutBacksUp
        <3>1. put.at = "backup" /\ tmp' = tmp
            BY <2>3 DEF PutBacksUp
        <3>2. put # NoPut /\ put \in [name : Name, entry : Entry, at : Puts]
            BY <3>1, PutIs DEF Puts
        <3>3. tmp[put.name] = put.entry
            BY <3>1, <3>2 DEF IInv, Typed, PutTyped
        <3>4. BacksUp
            BY <2>1, <2>3 DEF PutBacksUp
        <3>5. put.name = n
            BY <2>2, <3>2, <3>4 DEF BacksUp
        <3> QED
            BY <2>2, <3>1, <3>3, <3>4, <3>5 DEF BacksUp, Entry
    <2>4. CASE PutReplaces
        BY <2>1, <2>2, <2>4, PutReplacesTyped, PutStepTyped DEF PutStep
    <2>5. CASE CreateOpens
        BY <2>2, <2>5 DEF CreateOpens, At, IInv, CreatePart
    <2>6. CASE CreateFills
        BY <2>2, <2>6 DEF CreateFills, At, IInv, CreatePart, Typed, FilesTyped, OpTyped
    <2>7. CASE RemoveUnlinks \/ RenameRetires
        BY <2>7 DEF RemoveUnlinks, RenameRetires
    <2>8. CASE RenamePublishes
        BY <2>2, <2>8 DEF RenamePublishes, At, IInv, RenamePart, SameReg
    <2> QED
        BY <2>1, <2>3, <2>4, <2>5, <2>6, <2>7, <2>8
           DEF Next, Request, SetConfig, Create, Remove, Rename, Rollback, Converted,
               Credentials, Prune, PutStep, PutWrites, RemoveForgets, RenameStep, RenameCopies,
               RenameRepoints, RenameEnds, RollbackStep, RollbackSetsAside, RollbackRestores,
               RollbackKeeps, RollbackSwapsProvenance, PruneStep, PruneTears, PruneRemoves,
               PruneEnds, AuthStep, AuthWrites, AuthReplaces, Replies, DaemonDies, files
<1> QED
    BY <1>1, Invariance, PTL DEF Spec, SetConfigKeeps

\* The files implement the registry: each request takes effect at once or leaves one of
\* the outcomes Registry lists, for any names, bundles and requests, any number of
\* deaths and of failing calls, wherever they fall.
THEOREM RegistryIsImplemented == Spec => Implements
<1>1. Init => A!Init
    <2> USE RegistryFilesAssumption
    <2>1. SUFFICES ASSUME Init PROVE A!Init
        OBVIOUS
    <2>2. FilesTyped
        BY <2>1, InitHolds DEF IInv, Typed
    <2>3. Known = Now
        BY <2>1 DEF Init, NoOp, Known
    <2>4. Trouble \in Nat
        BY <2>2, TroubleIsNat
    <2> QED
        BY <2>2, <2>3, <2>4 DEF A!Init, Now, FilesTyped, Trouble, File
<1>2. IInv /\ [Next]_vars => [A!Next]_Unknown
    BY Steps
<1> QED
    BY <1>1, <1>2, Invariance, PTL DEF Spec, Implements, A!Spec, Unknown

=============================================================================
