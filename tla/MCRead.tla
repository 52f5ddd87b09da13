------------------------------- MODULE MCRead -------------------------------
(***************************************************************************)
(* Bounds for CTFRead: the union of IterFamily (MCIter), DeclFamily and  *)
(* LookupFamily, every call on every pair.  DeclFamily has three parent and *)
(* two child types, each built on the one before: an int; then an array,  *)
(* pointer, const, function, named or anonymous typedef of it, or a       *)
(* struct; then a pointer, array, function or const of that; in the child *)
(* a pointer, array or const of parent type 3, and a pointer or array of  *)
(* the child's first type or a pointer to an ID past the parent's         *)
(* typemax.  Declarators thus nest up to five levels and mix every        *)
(* precedence class.                                                       *)
(***************************************************************************)
EXTENDS CTFRead, MCIter

Fn(r) == TypeRec("function", Anon, r, 0, "none", NoArr, <<>>)

DeclFamily ==
  { Pair(<<INT, p2, p3>>, <<c1, c2>>, par, 4, 4) :
      p2  \in {Arr(1, 1, 3), Ptr(1), Const(1), Fn(1), Typedef("t", 1),
               Typedef(Anon, 1), Sou("struct", "s", 4, <<>>)},
      p3  \in {Ptr(2), Arr(2, 1, 2), Fn(2), Const(2)},
      c1  \in {Ptr(3), Arr(3, 1, 2), Const(3)},
      c2  \in {Ptr(MCChildBit + 1), Arr(MCChildBit + 1, 1, 4), Ptr(MCParentMax + 1)},
      par \in {Parent, NoContainer} }

\* Pointers and arrays only: every type of this family is a legal C type.
NestingFamily ==
  { Pair(<<INT, p2, p3>>, <<c1>>, Parent, 4, 4) :
      p2 \in {Arr(1, 1, 3), Ptr(1)},
      p3 \in {Ptr(2), Arr(2, 1, 2)},
      c1 \in {Ptr(3), Arr(3, 1, 2)} }

MCBufLens == 1 .. 16

(***************************************************************************)
(* LookupFamily: the parent names "foo" (a struct or an integer) and may  *)
(* hold a pointer to it, a pointer to void or a typedef "bar" of it.  The *)
(* child holds a typedef "bar" of a parent type or an integer "foo", a    *)
(* struct "bar", and a pointer to one of its own types or to a parent     *)
(* type.  Names are every token sequence of length at most 3 over a       *)
(* qualifier, a prefix, two words and '*'.                                 *)
(***************************************************************************)
LookupFamily ==
  { Pair(<<p1, p2>>, <<c1, Sou("struct", "bar", 4, <<>>), c3>>, par, 4, 4) :
      p1  \in {Sou("struct", "foo", 4, <<>>), Base("foo", 4, "i32")},
      p2  \in {Ptr(1), Ptr(0), Typedef("bar", 1)},
      c1  \in {Typedef("bar", 2), Typedef("bar", 1), Base("foo", 4, "i32")},
      c3  \in {Ptr(5), Ptr(6), Ptr(1)},
      par \in {Parent, NoContainer} }

MCQualifiers == {"const"}
MCLookups    == <<"struct", "union", "enum", "">>
MCNames      == UNION {[1 .. n -> {"const", "struct", "foo", "bar", Star}] : n \in 0 .. 3}

\* The families of the iterator, declaration and name calls together.
CallsFamily == IterFamily \cup DeclFamily \cup LookupFamily

=============================================================================
