------------------------------ MODULE MCTData -------------------------------
(***************************************************************************)
(* Bounds for TData.  Two tdata handles; four nodes: struct foo (first     *)
(* member a), a forward declaration of foo and two unnamed pointers to    *)
(* foo, which the layout hash must match with each other.                 *)
(* Ints of 4 bits (INT_MAX 7): label indexes -1, 0 and INT_MAX reach the   *)
(* widest difference tdata_label_cmp forms.  Six calls: enough to create   *)
(* both handles, give the second a node, build, merge and free.            *)
(***************************************************************************)
EXTENDS TData

MCDesc ==
  [s1 |-> [type |-> "STRUCT",  name |-> "foo",     ref |-> ATOM_NULL, n |-> 0, first |-> "a"],
   f1 |-> [type |-> "FORWARD", name |-> "foo",     ref |-> ATOM_NULL, n |-> 0, first |-> ATOM_NULL],
   p1 |-> [type |-> "POINTER", name |-> ATOM_NULL, ref |-> "foo",     n |-> 0, first |-> ATOM_NULL],
   p2 |-> [type |-> "POINTER", name |-> ATOM_NULL, ref |-> "foo",     n |-> 0, first |-> ATOM_NULL]]

MCAtomHash == [foo |-> 5, a |-> 2]

MCTdescs == DOMAIN MCDesc

MCIdxs == {-1, 0, 7}

=============================================================================
