---------------------------- MODULE MCSafeUpdate ----------------------------
(***************************************************************************)
(* An instance of SafeUpdate for TLC: two versions from one source, one of *)
(* which is bad, and an image that may be pulled over them.                *)
(***************************************************************************)
EXTENDS SafeUpdate

CONSTANTS v1, bad, img
=============================================================================
