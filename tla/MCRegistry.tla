----------------------------- MODULE MCRegistry -----------------------------
(***************************************************************************)
(* An instance of RegistryFiles for TLC: web depends on db, the other name *)
(* is free; web's bundle has a backup, db's has none.                      *)
(***************************************************************************)
EXTENDS RegistryFiles, TLC

CONSTANTS web, db, new, webdir, dbdir, old, cur, ghcr, quay

Web == [path |-> webdir, deps |-> {db}, image |-> cur, was |-> old]
Db == [path |-> dbdir, deps |-> {}, image |-> cur, was |-> None]

SomeOffered == {Db, [Web EXCEPT !.deps = {new}, !.was = None]}

SomeFound ==
  {[reg |-> web :> Web @@ db :> Db @@ new :> Absent,
    bundle |-> webdir :> [live |-> cur, prev |-> old, aside |-> None]
            @@ dbdir :> [live |-> cur, prev |-> None, aside |-> None],
    auths |-> {ghcr}]}
=============================================================================
