------------------------------ MODULE MCBroadcast ------------------------------
(***************************************************************************)
(* The first of two operations comes from the validator v1 itself.         *)
(***************************************************************************)
EXTENDS BroadcastProperties

CONSTANTS o1, o2, v1, v2, client

MCRequester == [o \in Operation |-> IF o = o1 THEN v1 ELSE client]
=============================================================================
