---------------------------- MODULE MCLookupName ----------------------------
(***************************************************************************)
(* Bounds for CTFLookupName.  Names are every token sequence of length at  *)
(* most 3 over a qualifier, a prefix, two words and '*'.  Type names are   *)
(* single words.  The parent has 2 types and the child 3, so a parent    *)
(* index is also an index of the child's pointer table: the table is never *)
(* read past its end.                                                      *)
(***************************************************************************)
EXTENDS CTFLookupName

MCChildBit == 4

NoArr == <<0, 0, 0>>

Named(k, n, r) == TypeRec(k, n, r, 4, "i32", NoArr, <<>>)
Ptr(r)         == TypeRec("pointer", Anon, r, 0, "none", NoArr, <<>>)

MCQualifiers == {"const"}
MCLookups    == <<"struct", "union", "enum", "">>
MCTokens     == {"const", "struct", "foo", "bar", Star}
MCNames      == UNION {[1 .. n -> MCTokens] : n \in 0 .. 3}

Pair(pt, ct, par) ==
  [c \in Containers |->
     IF c = Parent
       THEN [child |-> FALSE, parent |-> NoContainer, typemax |-> Len(pt),
             types |-> pt, version |-> 4]
       ELSE [child |-> TRUE, parent |-> par, typemax |-> Len(ct),
             types |-> ct, version |-> 4]]

(***************************************************************************)
(* The parent names "foo" (a struct or an integer) and may hold a pointer *)
(* to it, a pointer to void or a typedef "bar" of it.  The child holds a  *)
(* typedef "bar" of a parent type or an integer "foo", a struct "bar",     *)
(* and a pointer to one of its own types or to a parent type.              *)
(***************************************************************************)
NameFamily ==
  { Pair(<<p1, p2>>, <<c1, Named("struct", "bar", 0), c3>>, par) :
      p1  \in {Named("struct", "foo", 0), Named("integer", "foo", 0)},
      p2  \in {Ptr(1), Ptr(0), Named("typedef", "bar", 1)},
      c1  \in {Named("typedef", "bar", 2), Named("typedef", "bar", 1),
               Named("integer", "foo", 0)},
      c3  \in {Ptr(5), Ptr(6), Ptr(1)},
      par \in {Parent, NoContainer} }

=============================================================================
