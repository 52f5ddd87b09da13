------------------------------- MODULE MCQuery -------------------------------
(***************************************************************************)
(* Bounds for CTFQuery.  A family of loaded container pairs is built slot  *)
(* by slot: every type's references point to earlier types only, so the    *)
(* type graphs are acyclic (the recursive queries of libctf do not end on  *)
(* a cyclic graph; CTFResolve covers the loop of ctf_type_resolve there).  *)
(* Parent types only reference parent types that exist; failing           *)
(* references (void, an ID past typemax, a missing parent) are placed in  *)
(* the child, so that CTF_ERR, which names the parent's last index, never *)
(* leads a query back into a failing chain.                               *)
(***************************************************************************)
EXTENDS CTFQuery

MCChildBit == 4
MCParentMax == 3

NoArr == <<0, 0, 0>>

Base(n, sz, enc) == TypeRec("integer", n, 0, sz, enc, NoArr, <<>>)
Typedef(n, r)   == TypeRec("typedef", n, r, 0, "none", NoArr, <<>>)
Const(r)        == TypeRec("const", Anon, r, 0, "none", NoArr, <<>>)
Ptr(r)          == TypeRec("pointer", Anon, r, 0, "none", NoArr, <<>>)
PtrAuth(r)      == TypeRec("ptrauth", Anon, r, 0, "none", NoArr, <<>>)
Arr(c, i, n)    == TypeRec("array", Anon, 0, 0, "none", <<c, i, n>>, <<>>)
Sou(k, n, sz, ms) == TypeRec(k, n, 0, sz, "none", NoArr, ms)

INT  == Base("int", 4, "i32")
LONG == Base("long", 8, "i64")

\* A loaded pair: the parent's and the child's type records, the child's
\* ctf_parent and each container's CTF version.
Pair(pt, ct, par, pver, cver) ==
  [c \in Containers |->
     IF c = Parent
       THEN [child |-> FALSE, parent |-> NoContainer, typemax |-> Len(pt),
             types |-> pt, version |-> pver]
       ELSE [child |-> TRUE, parent |-> par, typemax |-> Len(ct),
             types |-> ct, version |-> cver]]

(***************************************************************************)
(* The query family: base types, typedefs, const, pointers (ptrauth over  *)
(* a pointer only), arrays with a stored size of 0 (so ctf_type_size       *)
(* multiplies) and an array whose contents ID is void.                     *)
(***************************************************************************)
ChildFirst == {Ptr(1), Typedef("t", 3), Arr(1, 1, 2), Arr(0, 1, 2), LONG}

ChildSecond(c1) ==
  {Ptr(5), Arr(5, 1, 2), Typedef("u", 5)}
    \cup (IF c1.kind = "pointer" THEN {PtrAuth(5)} ELSE {})

QueryFamily ==
  UNION { { Pair(<<p1, p2, p3>>, <<c1, c2>>, par, 4, 4) :
              p1  \in {INT, LONG},
              p2  \in {Typedef("t", 1), Ptr(1), Arr(1, 1, 2)},
              p3  \in {Ptr(2), Arr(2, 1, 2), Const(2)},
              c2  \in ChildSecond(c1),
              par \in {Parent, NoContainer} } :
          c1 \in ChildFirst }

(***************************************************************************)
(* The member family: structs and unions with named and anonymous members,*)
(* nested across the parent and the child, below and at the long-member   *)
(* threshold, in v1 and v4 parents.                                        *)
(***************************************************************************)
MCLStructThresh == 32

MemberFamily ==
  { Pair(<<INT, p2, p3>>, <<c1>>, par, pver, 4) :
      p2   \in {Sou("struct", "s", 8, <<Member("a", 1, 0), Member("b", 1, 4)>>),
                Sou("union", "u", 4, <<Member("a", 1, 0), Member("c", 1, 0)>>)},
      p3   \in {Sou("struct", "o", sz, <<Member("c", 1, 0), Member(Anon, 2, 8)>>) :
                  sz \in {16, MCLStructThresh}}
                \cup {Sou("struct", "p", 8, <<Member(Anon, 2, 0), Member("a", 1, 4)>>),
                      Typedef("t", 2)},
      c1   \in {Sou("struct", "q", 16, <<Member("b", 1, 0), Member(Anon, 3, 4)>>),
                Sou("union", "v", 8, <<Member(Anon, 2, 0)>>),
                Ptr(3)},
      par  \in {Parent, NoContainer},
      pver \in {1, 4} }

MCMemberNames == {"a", "b", "c"}

QueryAndMemberFamily == QueryFamily \cup MemberFamily

=============================================================================
