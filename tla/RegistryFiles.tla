--------------------------- MODULE RegistryFiles ---------------------------
(***************************************************************************)
(* The registry on disk: /etc/uxc/<name>.json with its .json.bak and       *)
(* .json.tmp, and the bundle directories <path>, <path>.prev and           *)
(* <path>.rollback-tmp.  Every request of the daemon is the sequence of    *)
(* its system calls; each may fail where the code goes on after it, and    *)
(* the daemon may die between any two.  Its next life lists what ends in   *)
(* .json and looks at nothing else, so a death only forgets the request.   *)
(*                                                                         *)
(* The daemon serves one request at a time.  Its memory, the containers'   *)
(* processes and the refusal to rename one that runs are in Supervisor;    *)
(* the converter's and the command line client's own writes are not here.  *)
(***************************************************************************)
EXTENDS Integers

CONSTANTS Name, Path, Version, None, Torn, Absent, Blank, Hub,
  Offered,    \* the entries users save and create
  Found,      \* the registries the daemon may find: [reg, bundle, auths]
  Commands,   \* how many requests a behaviour may contain
  Deaths,     \* how often the daemon may die
  Faults      \* how many system calls may fail

VARIABLES
  json, bak, tmp,   \* the registry files
  auth,             \* auth.json and its .tmp: the registries they have credentials for
  bundle,           \* the bundle directories
  op,               \* the request being served and where it is
  put,              \* the setconfig() it is in
  before,           \* the registry when the request began, for the mapping
  quota

Now == [reg |-> json, bundle |-> bundle, auths |-> auth.json,
        trouble |-> quota.deaths + quota.faults]

\* What the users may rely on: a request shows when it is over.
Known == IF op.kind = "none" THEN Now ELSE before

A == INSTANCE Registry WITH
  reg <- Known.reg, bundle <- Known.bundle, auths <- Known.auths, trouble <- Known.trouble

Entry == A!Entry
File == A!File

ASSUME RegistryFilesAssumption ==
  /\ Offered \subseteq Entry
  /\ \A f \in Found : /\ f.reg \in [Name -> File] /\ f.bundle \in [Path -> A!Dirs]
                     /\ f.auths \subseteq Hub
  /\ Commands \in Nat /\ Deaths \in Nat /\ Faults \in Nat
  /\ None \notin Version /\ Torn \notin Version /\ None # Torn
  /\ Absent # Blank /\ Absent \notin Entry /\ Blank \notin Entry

files == <<json, bak, tmp, auth>>
vars == <<json, bak, tmp, auth, bundle, op, put, before, quota>>

Kinds == {"none", "setconfig", "create", "remove", "rename", "rollback", "prune", "login",
          "logout"}
Places == {"", "open", "fill", "unlink", "forget", "copy", "publish", "retire",
           "repoint", "aside", "restore", "keep", "provenance", "delete", "remove", "write",
           "replace", "reply"}

\* name is the request's container, to a rename's new name, entry what a create
\* writes, left the files a rename and the paths a prune has yet to visit.
NoOp == [kind |-> "none", name |-> None, to |-> None, entry |-> Blank, at |-> "",
         left |-> {}]

NoPut == [name |-> None, entry |-> Blank, at |-> ""]

Spend(k) == quota[k] > 0 /\ quota' = [quota EXCEPT ![k] = @ - 1]

\* A request arrives while the daemon is idle.
Begin(kind, n, to, e, at) ==
  /\ op.kind = "none"
  /\ Spend("commands")
  /\ op' = [kind |-> kind, name |-> n, to |-> to, entry |-> e, at |-> at, left |-> {}]
  /\ before' = Now

Go(at) == op' = [op EXCEPT !.at = at]

At(kind, at) == op.kind = kind /\ op.at = at /\ put = NoPut

\* The request is answered, or has failed: the daemon is idle again.
Reply == op' = NoOp

-----------------------------------------------------------------------------
(* setconfig, called with what to write.                                   *)

Putting(n, e) == put' = [name |-> n, entry |-> e, at |-> "write"]

SetConfig(n, e) ==
  /\ Begin("setconfig", n, None, e, "reply")
  /\ Putting(n, e)
  /\ UNCHANGED <<files, bundle>>

\* write_secure: a failure may leave a part of the file.
PutWrites ==
  /\ put.at = "write"
  /\ \/ /\ tmp' = [tmp EXCEPT ![put.name] = put.entry]
        /\ put' = [put EXCEPT !.at = "backup"]
        /\ UNCHANGED quota
     \/ /\ Spend("faults")
        /\ \E f \in {Blank, tmp[put.name]} : tmp' = [tmp EXCEPT ![put.name] = f]
        /\ put' = NoPut
  /\ UNCHANGED <<json, bak, auth, bundle, op, before>>

\* Mutant: the old file is unlinked, not renamed.
BacksUpUnlinking ==
  /\ json' = [json EXCEPT ![put.name] = Absent]
  /\ UNCHANGED bak

BacksUp ==
  /\ json' = [json EXCEPT ![put.name] = Absent]
  /\ bak' = [bak EXCEPT ![put.name] = IF json[put.name] = Absent THEN @ ELSE json[put.name]]

\* The backup is best effort: a failure is not looked at.
PutBacksUp ==
  /\ put.at = "backup"
  /\ put' = [put EXCEPT !.at = "replace"]
  /\ \/ BacksUp /\ UNCHANGED quota
     \/ Spend("faults") /\ UNCHANGED <<json, bak>>
  /\ UNCHANGED <<tmp, auth, bundle, op, before>>

PutReplaces ==
  /\ put.at = "replace"
  /\ put' = NoPut
  /\ \/ /\ json' = [json EXCEPT ![put.name] = tmp[put.name]]
        /\ tmp' = [tmp EXCEPT ![put.name] = Absent]
        /\ UNCHANGED quota
     \/ Spend("faults") /\ UNCHANGED <<json, tmp>>
  /\ UNCHANGED <<bak, auth, bundle, op, before>>

-----------------------------------------------------------------------------
(* create and remove.                                                      *)

\* The bundle must be there; what depends on what is not asked.
Create(n, e) ==
  /\ e.deps = {} /\ e.was = None
  /\ json[n] = Absent /\ bundle[e.path].live # None
  /\ Begin("create", n, None, e, "open")
  /\ UNCHANGED <<files, bundle, put>>

\* The ofstream creates the file in place ...
CreateOpens ==
  /\ At("create", "open")
  /\ \/ /\ json' = [json EXCEPT ![op.name] = Blank]
        /\ Go("fill") /\ UNCHANGED quota
     \/ Spend("faults") /\ Reply /\ UNCHANGED json
  /\ UNCHANGED <<bak, tmp, auth, bundle, put, before>>

\* ... and a failed write leaves it there.
CreateFills ==
  /\ At("create", "fill")
  /\ \/ json' = [json EXCEPT ![op.name] = op.entry] /\ UNCHANGED quota
     \/ Spend("faults") /\ UNCHANGED json
  /\ Reply
  /\ UNCHANGED <<bak, tmp, auth, bundle, put, before>>

Remove(n) ==
  /\ Begin("remove", n, None, Blank, "unlink")
  /\ UNCHANGED <<files, bundle, put>>

\* Neither unlink is looked at: the request succeeds with the entry still listed.
RemoveUnlinks ==
  /\ At("remove", "unlink")
  /\ \/ json' = [json EXCEPT ![op.name] = Absent] /\ UNCHANGED quota
     \/ Spend("faults") /\ UNCHANGED json
  /\ Go("forget")
  /\ UNCHANGED <<bak, tmp, auth, bundle, put, before>>

RemoveForgets ==
  /\ At("remove", "forget")
  /\ \/ bak' = [bak EXCEPT ![op.name] = Absent] /\ UNCHANGED quota
     \/ Spend("faults") /\ UNCHANGED bak
  /\ Reply
  /\ UNCHANGED <<json, tmp, auth, bundle, put, before>>

-----------------------------------------------------------------------------
(* rename_container.                                                       *)

Rename(o, n) ==
  /\ o # n /\ json[o] # Absent /\ json[n] = Absent
  /\ Begin("rename", o, n, Blank, "copy")
  /\ UNCHANGED <<files, bundle, put>>

\* Opening the copy is checked, writing it is not.
RenameCopies ==
  /\ At("rename", "copy")
  /\ \/ /\ tmp' = [tmp EXCEPT ![op.to] = json[op.name]]
        /\ Go("publish") /\ UNCHANGED quota
     \/ /\ Spend("faults")
        /\ \/ tmp' = [tmp EXCEPT ![op.to] = Blank] /\ Go("publish")
           \/ UNCHANGED tmp /\ Reply
  /\ UNCHANGED <<json, bak, auth, bundle, put, before>>

RenamePublishes ==
  /\ At("rename", "publish")
  /\ tmp' = [tmp EXCEPT ![op.to] = Absent]
  /\ \/ json' = [json EXCEPT ![op.to] = tmp[op.to]] /\ Go("retire") /\ UNCHANGED quota
     \/ Spend("faults") /\ UNCHANGED json /\ Reply
  /\ UNCHANGED <<bak, auth, bundle, put, before>>

\* Unlinks the old file and reads which entries depend on it, the old one too where it
\* is still there; neither the unlink nor the opendir that fails stops the rename.
RenameRetires ==
  /\ At("rename", "retire")
  /\ \E unlinked \in BOOLEAN, opened \in BOOLEAN :
       /\ IF unlinked /\ opened THEN UNCHANGED quota ELSE Spend("faults")
       /\ json' = IF unlinked THEN [json EXCEPT ![op.name] = Absent] ELSE json
       /\ op' = [op EXCEPT !.at = "repoint",
                   !.left = {m \in Name \ {op.to} : opened /\ A!Dependent(json', m, op.name)}]
  /\ UNCHANGED <<bak, tmp, auth, bundle, put, before>>

\* Mutant: the name itself is not among the dependencies replaced.
RepointedNot(m) == json[m]

RepointedEntry(m) == A!Repointed(json[m], op.name, op.to)

\* One turn of the loop; what setconfig returns is not looked at.
RenameRepoints ==
  /\ At("rename", "repoint")
  /\ \E m \in op.left :
       /\ op' = [op EXCEPT !.left = @ \ {m}]
       /\ Putting(m, RepointedEntry(m))
  /\ UNCHANGED <<files, bundle, before, quota>>

RenameEnds ==
  /\ At("rename", "repoint") /\ op.left = {}
  /\ Reply
  /\ UNCHANGED <<files, bundle, put, before, quota>>

-----------------------------------------------------------------------------
(* rollback, of a user or of a health watch, and prune.                    *)

Here == json[op.name].path

Rollback(n) ==
  /\ json[n] \in Entry
  /\ bundle[json[n].path].prev # None
  /\ Begin("rollback", n, None, Blank, "aside")
  /\ UNCHANGED <<files, bundle, put>>

\* rename(2) of a directory: there must be one, and none in the way.
CanSetAside == bundle[Here].live # None /\ bundle[Here].aside = None

RollbackSetsAside ==
  /\ At("rollback", "aside")
  /\ \/ /\ CanSetAside
        /\ bundle' = [bundle EXCEPT ![Here].aside = bundle[Here].live, ![Here].live = None]
        /\ Go("restore") /\ UNCHANGED quota
     \/ ~CanSetAside /\ Reply /\ UNCHANGED <<bundle, quota>>
     \/ Spend("faults") /\ Reply /\ UNCHANGED bundle
  /\ UNCHANGED <<files, put, before>>

RollbackRestores ==
  /\ At("rollback", "restore")
  /\ \/ /\ bundle' = [bundle EXCEPT ![Here].live = bundle[Here].prev, ![Here].prev = None]
        /\ Go("keep") /\ UNCHANGED quota
     \/ Spend("faults") /\ Reply /\ UNCHANGED bundle
  /\ UNCHANGED <<files, put, before>>

RollbackKeeps ==
  /\ At("rollback", "keep")
  /\ \/ /\ bundle' = [bundle EXCEPT ![Here].prev = bundle[Here].aside, ![Here].aside = None]
        /\ Go("provenance") /\ UNCHANGED quota
     \/ Spend("faults") /\ Reply /\ UNCHANGED bundle
  /\ UNCHANGED <<files, put, before>>

\* swap_provenance: the entry is saved with setconfig, whose failure is only logged.
RollbackSwapsProvenance ==
  /\ At("rollback", "provenance")
  /\ Go("reply")
  /\ IF A!Recorded(json[op.name]) THEN Putting(op.name, A!Swapped(json[op.name]))
     ELSE UNCHANGED put
  /\ UNCHANGED <<files, bundle, before, quota>>

Prune ==
  /\ op.kind = "none"
  /\ Spend("commands")
  /\ op' = [NoOp EXCEPT !.kind = "prune", !.at = "delete",
              !.left = {p \in Path : A!Named(json, p) /\ bundle[p].prev # None}]
  /\ before' = Now
  /\ UNCHANGED <<files, bundle, put>>

\* rm_rf goes file by file ...
PruneTears ==
  /\ At("prune", "delete")
  /\ \E p \in op.left :
       /\ bundle' = [bundle EXCEPT ![p].prev = Torn]
       /\ op' = [op EXCEPT !.at = "remove", !.to = p, !.left = @ \ {p}]
  /\ UNCHANGED <<files, put, before, quota>>

\* ... and goes on with the next backup where it cannot finish one.
PruneRemoves ==
  /\ At("prune", "remove")
  /\ \/ bundle' = [bundle EXCEPT ![op.to].prev = None] /\ UNCHANGED quota
     \/ Spend("faults") /\ UNCHANGED bundle
  /\ Go("delete")
  /\ UNCHANGED <<files, put, before>>

PruneEnds ==
  /\ At("prune", "delete") /\ op.left = {}
  /\ Reply
  /\ UNCHANGED <<files, bundle, put, before, quota>>

\* The converter of a pull, build or upgrade rotates the bundle of an entry.
Converted(p, v) ==
  /\ op.kind = "none"
  /\ A!Named(json, p)
  /\ Spend("commands")
  /\ bundle' = [bundle EXCEPT ![p].live = v,
                              ![p].prev = IF bundle[p].live = None THEN @ ELSE bundle[p].live]
  /\ UNCHANGED <<files, op, put, before>>

-----------------------------------------------------------------------------
(* registry_set and registry_remove; write_auth does what rename does.     *)

Credentials(kind, h) ==
  /\ Begin(kind, h, None, Blank, "write")
  /\ UNCHANGED <<files, bundle, put>>

NewAuths == IF op.kind = "login" THEN auth.json \cup {op.name} ELSE auth.json \ {op.name}

AuthWrites ==
  /\ op.kind \in {"login", "logout"} /\ op.at = "write"
  /\ \/ /\ auth' = [auth EXCEPT !.tmp = NewAuths]
        /\ Go("replace") /\ UNCHANGED quota
     \/ /\ Spend("faults")
        /\ \/ auth' = [auth EXCEPT !.tmp = {}] /\ Go("replace")
           \/ UNCHANGED auth /\ Reply
  /\ UNCHANGED <<json, bak, tmp, bundle, put, before>>

AuthReplaces ==
  /\ op.kind \in {"login", "logout"} /\ op.at = "replace"
  /\ \/ auth' = [json |-> auth.tmp, tmp |-> {}] /\ UNCHANGED quota
     \/ Spend("faults") /\ auth' = [auth EXCEPT !.tmp = {}]
  /\ Reply
  /\ UNCHANGED <<json, bak, tmp, bundle, put, before>>

-----------------------------------------------------------------------------
Replies ==
  /\ op.at = "reply" /\ put = NoPut
  /\ Reply
  /\ UNCHANGED <<files, bundle, put, before, quota>>

DaemonDies ==
  /\ op.kind # "none"
  /\ Spend("deaths")
  /\ op' = NoOp /\ put' = NoPut
  /\ UNCHANGED <<files, bundle, before>>

Init ==
  /\ \E f \in Found : json = f.reg /\ bundle = f.bundle /\ auth = [json |-> f.auths, tmp |-> {}]
  /\ bak = [n \in Name |-> Absent] /\ tmp = [n \in Name |-> Absent]
  /\ op = NoOp /\ put = NoPut
  /\ quota = [commands |-> Commands, deaths |-> Deaths, faults |-> Faults]
  /\ before = Now

Request ==
  \/ \E n \in Name : \/ \E e \in Offered : SetConfig(n, e) \/ Create(n, e)
                     \/ Remove(n) \/ Rollback(n)
                     \/ \E m \in Name : Rename(n, m)
  \/ \E p \in Path, v \in Version : Converted(p, v)
  \/ \E h \in Hub : Credentials("login", h) \/ Credentials("logout", h)
  \/ Prune

PutStep == PutWrites \/ PutBacksUp \/ PutReplaces
RenameStep == RenameCopies \/ RenamePublishes \/ RenameRetires \/ RenameRepoints \/ RenameEnds
RollbackStep ==
  RollbackSetsAside \/ RollbackRestores \/ RollbackKeeps \/ RollbackSwapsProvenance
PruneStep == PruneTears \/ PruneRemoves \/ PruneEnds
AuthStep == AuthWrites \/ AuthReplaces

Next ==
  \/ Request
  \/ PutStep \/ CreateOpens \/ CreateFills \/ RemoveUnlinks \/ RemoveForgets
  \/ RenameStep \/ RollbackStep \/ PruneStep \/ AuthStep
  \/ Replies \/ DaemonDies

Spec == Init /\ [][Next]_vars
-----------------------------------------------------------------------------
(* Properties.                                                             *)

\* Every variable is in its domain; in particular the steps of a rollback go by an
\* entry that is there (json[n].path).
TypeOK ==
  /\ json \in [Name -> File] /\ bak \in [Name -> File] /\ tmp \in [Name -> File]
  /\ auth \in [json : SUBSET Hub, tmp : SUBSET Hub]
  /\ bundle \in [Path -> A!Dirs]
  /\ op \in [kind : Kinds, name : Name \cup Hub \cup {None}, to : Name \cup Path \cup {None},
             entry : File, at : Places, left : (SUBSET Name) \cup (SUBSET Path)]
  /\ put \in [name : Name \cup {None}, entry : File,
              at : {"", "write", "backup", "replace"}]
  /\ op.kind = "rollback" /\ op.at \in {"aside", "restore", "keep", "provenance"}
       => json[op.name] \in Entry
  /\ before \in [reg : [Name -> File], bundle : [Path -> A!Dirs], auths : SUBSET Hub,
               trouble : Nat]
  /\ quota \in [{"commands", "deaths", "faults"} -> Nat]

\* Each request is atomic, or leaves one of the outcomes Registry lists for a request
\* cut short, wherever the daemon dies and whichever call fails.
Implements == A!Spec

\* Outside remove() and the last step of a rename, an entry stops being listed only
\* inside setconfig, and then both the entry and the one that replaces it are whole
\* beside it: "temp + rename, previous kept as .bak" (container.cpp:3460).
SetConfigKeeps ==
  [][\A n \in Name :
       /\ json[n] \in Entry /\ json'[n] \notin Entry
       /\ ~At("remove", "unlink") /\ ~At("rename", "retire")
       => /\ put.name = n
          /\ bak'[n] = json[n] /\ tmp'[n] = put.entry]_vars

=============================================================================
