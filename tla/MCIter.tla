------------------------------- MODULE MCIter -------------------------------
(***************************************************************************)
(* Bounds for CTFIter.  The parent holds an int, then a struct or one of  *)
(* two enums (one with a repeated value), then a struct with an anonymous *)
(* member of the previous type or a typedef of it that is not a root type. *)
(* The child's one type is a struct with an anonymous member of parent    *)
(* type 3, a typedef to 3 or to 2, a non-root pointer, a ptrauth, or a    *)
(* struct whose second member has an ID past the child's typemax.         *)
(***************************************************************************)
EXTENDS CTFIter, MCQuery

EnumT(n, es) == [TypeRec("enum", n, 0, 4, "none", NoArr, <<>>) EXCEPT !.enums = es]
NonRoot(r)   == [r EXCEPT !.root = FALSE]

IterFamily ==
  { Pair(<<INT, p2, p3>>, <<c1>>, par, 4, 4) :
      p2  \in {Sou("struct", "s", 8, <<Member("a", 1, 0), Member("b", 1, 4)>>),
               EnumT("e", <<Enumerator("A", 0), Enumerator("B", 1)>>),
               EnumT("f", <<Enumerator("A", 1), Enumerator("B", 1)>>)},
      p3  \in {Sou("struct", "o", 16, <<Member("c", 1, 0), Member(Anon, 2, 8)>>),
               NonRoot(Typedef("t", 2))},
      c1  \in {Sou("struct", "q", 16, <<Member("b", 1, 0), Member(Anon, 3, 4)>>),
               Typedef("u", 3), Typedef("v", 2), NonRoot(Ptr(2)), PtrAuth(2),
               Sou("struct", "w", 8, <<Member("a", 1, 0),
                                       Member("x", MCChildBit + 2, 4)>>)},
      par \in {Parent, NoContainer} }

MCStops == 0 .. 7
MCEnumValues == {0, 1, 2}
MCEnumNames == {"A", "B", "C"}

=============================================================================
