----------------------------- MODULE MCResolve ------------------------------
(* Model-checking instance of CTFResolve: a parent of three types (enough  *)
(* for a three-node alias cycle), a child of one type, a flag bit of 4 so  *)
(* that child IDs are 5 and 6 and parent IDs 1..3.                         *)
EXTENDS CTFResolve

MCChildBit == 4
MCParentMax == 3
MCChildMax == 1
MCBaseKinds == {"integer"}
MCAliasKinds == {"typedef"}
=============================================================================
