------------------------------ MODULE Registry ------------------------------
(***************************************************************************)
(* What the registry of containers promises its users: a map from names to *)
(* entries and, for every bundle path, a live bundle and its backup.  Each *)
(* request is one step.  A request that the daemon's death or a failed     *)
(* system call cuts short may leave the outcomes listed here, and no       *)
(* other; module RegistryFiles implements it with files and renames.       *)
(***************************************************************************)
EXTENDS Integers

CONSTANTS
  Name,      \* the valid container names
  Path,      \* bundle paths
  Version,   \* what a bundle may hold
  None,      \* no such bundle
  Torn,      \* a bundle of which a part is gone
  Absent,    \* no registry file
  Blank,     \* a registry file that holds no configuration
  Hub        \* image registries one may log in to

VARIABLES
  reg,       \* the entry of each name
  bundle,    \* the directories of each path
  auths,     \* the image registries there are credentials for
  trouble    \* how many failures of system calls and deaths are yet to come

(* An entry: its bundle, what it depends on, the image recorded as live and *)
(* the one recorded as the backup's (prev_image).                           *)
Entry == [path : Path, deps : SUBSET Name, image : Version, was : Version \cup {None}]

File == Entry \cup {Absent, Blank}

Dir == Version \cup {None, Torn}

\* <path>, <path>.prev and <path>.rollback-tmp
Dirs == [live : Dir, prev : Dir, aside : Dir]

\* The loop at the end of rename_container, for one entry.
Repointed(e, o, n) == [e EXCEPT !.deps = {IF d = o THEN n ELSE d : d \in @}]

Dependent(files, m, o) == files[m] \in Entry /\ o \in files[m].deps

\* Mutant: nothing asks whether an upgrade has recorded what it replaced.
RecordedAlways(e) == e \in Entry

Recorded(e) == e.was # None

\* swap_provenance.
Swapped(e) == IF Recorded(e) THEN [e EXCEPT !.image = e.was, !.was = e.image] ELSE e

\* A path some entry names (prune).
Named(files, p) == \E n \in Name : files[n] \in Entry /\ files[n].path = p

-----------------------------------------------------------------------------
Put(n, e) ==
  /\ reg' = [reg EXCEPT ![n] = e]
  /\ UNCHANGED <<bundle, auths>>

Create(n, e) == reg[n] = Absent /\ Put(n, e)

Remove(n) == Put(n, Absent)

\* The files after a rename of o to n whose copy is c, of which only the entries in
\* done were repointed and only those in lost went.
Moved(o, n, c, done, lost) ==
  [m \in Name |-> IF m = n THEN c
                  ELSE IF m \in lost THEN Absent
                  ELSE IF m \in done THEN Repointed(reg[m], o, n)
                  ELSE reg[m]]

Dependents(o, n) == {m \in Name \ {n} : Dependent(reg, m, o)}

Renamable(o, n) == o # n /\ reg[o] # Absent /\ reg[n] = Absent

Rename(o, n) ==
  /\ Renamable(o, n)
  /\ reg' = Moved(o, n, reg[o], Dependents(o, n), {o})
  /\ UNCHANGED <<bundle, auths>>

\* Both halves of a rollback at once.
Rollback(n) ==
  /\ reg[n] \in Entry
  /\ LET p == reg[n].path IN
     /\ bundle[p].live # None /\ bundle[p].prev # None
     /\ bundle' = [bundle EXCEPT ![p].live = bundle[p].prev, ![p].prev = bundle[p].live]
  /\ reg' = [reg EXCEPT ![n] = Swapped(@)]
  /\ UNCHANGED auths

\* A pull, build or upgrade keeps the bundle it replaces.
Pull(p, v) ==
  /\ bundle' = [bundle EXCEPT ![p].live = v,
                              ![p].prev = IF bundle[p].live = None THEN @ ELSE bundle[p].live]
  /\ UNCHANGED <<reg, auths>>

Prune ==
  /\ bundle' = [p \in Path |-> IF Named(reg, p) THEN [bundle[p] EXCEPT !.prev = None]
                               ELSE bundle[p]]
  /\ UNCHANGED <<reg, auths>>

Login(h) == auths' = auths \cup {h} /\ UNCHANGED <<reg, bundle>>

Logout(h) == auths' = auths \ {h} /\ UNCHANGED <<reg, bundle>>

-----------------------------------------------------------------------------
(* Requests cut short.                                                     *)

\* The entry is no longer listed.
PutCut(n) == Put(n, Absent)

\* The name is taken by a file without a configuration.
CreateCut(n) == Create(n, Blank)

\* The new name has the entry or a blank file; the old one may still be listed, and of
\* it and its dependents some are repointed, some are as they were and some are gone.
RenameCut(o, n) ==
  /\ Renamable(o, n)
  /\ \E c \in {reg[o], Blank}, done \in SUBSET Dependents(o, n),
        lost \in SUBSET (Dependents(o, n) \cup {o}) : reg' = Moved(o, n, c, done, lost)
  /\ UNCHANGED <<bundle, auths>>

\* The live bundle is aside and nothing is in its place, or the backup is and there
\* is none; or the bundles are swapped and the entry is as it was, or gone.
RollbackCut(n) ==
  /\ reg[n] \in Entry
  /\ LET p == reg[n].path
         b == bundle[p]
     IN /\ b.live # None /\ b.prev # None
        /\ \/ /\ \/ bundle' = [bundle EXCEPT ![p].live = None, ![p].aside = b.live]
                 \/ bundle' = [bundle EXCEPT ![p].live = b.prev, ![p].prev = None,
                                             ![p].aside = b.live]
              /\ UNCHANGED reg
           \/ /\ bundle' = [bundle EXCEPT ![p].live = b.prev, ![p].prev = b.live]
              /\ reg' \in {reg, [reg EXCEPT ![n] = Absent]}
  /\ UNCHANGED auths

\* Some backups are gone and of others a part is.
Backed == {p \in Path : bundle[p].prev # None}

PruneCut ==
  /\ \E gone \in SUBSET Backed, torn \in SUBSET Backed :
       bundle' = [p \in Path |-> IF p \in gone THEN [bundle[p] EXCEPT !.prev = None]
                                 ELSE IF p \in torn THEN [bundle[p] EXCEPT !.prev = Torn]
                                 ELSE bundle[p]]
  /\ UNCHANGED <<reg, auths>>

\* Every credential is gone.
AuthCut == auths' = {} /\ UNCHANGED <<reg, bundle>>

-----------------------------------------------------------------------------
Init ==
  /\ reg \in [Name -> File]
  /\ bundle \in [Path -> Dirs]
  /\ auths \in SUBSET Hub
  /\ trouble \in Nat

Served ==
  \/ \E n \in Name : \/ \E e \in Entry : Put(n, e) \/ Create(n, e)
                     \/ Remove(n) \/ Rollback(n)
                     \/ \E m \in Name : Rename(n, m)
  \/ \E p \in Path, v \in Version : Pull(p, v)
  \/ \E h \in Hub : Login(h) \/ Logout(h)
  \/ Prune

Cut ==
  \/ \E n \in Name : \/ PutCut(n) \/ CreateCut(n) \/ RollbackCut(n)
                     \/ \E m \in Name : RenameCut(n, m)
  \/ PruneCut \/ AuthCut
  \/ UNCHANGED <<reg, bundle, auths>>

\* Only a request in which something fails is cut short, and not each of those.
Next ==
  \/ Served /\ trouble' \in 0 .. trouble
  \/ Cut /\ trouble' \in 0 .. trouble - 1

Spec == Init /\ [][Next]_<<reg, bundle, auths, trouble>>
=============================================================================
