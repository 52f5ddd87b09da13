------------------------------- MODULE CTFDecl -------------------------------
(***************************************************************************)
(* Declaration Synthesizer: ctf_type_lname and ctf_type_name              *)
(* (src/lib/libctf/common/ctf_types.c) over the precedence buckets that   *)
(* ctf_decl_push builds.  ctf_decl.c is not part of this repository:      *)
(* DeclPush follows spec section 4.5 (each type of the reference chain is *)
(* pushed onto the bucket of its precedence class) and the fields         *)
(* ctf_type_lname reads (cd_nodes, cd_order, cd_err).                      *)
(*                                                                         *)
(* The text is a sequence of the pieces ctf_decl_sprintf appends, so the   *)
(* length the code returns is the sum of their lengths.                   *)
(*                                                                         *)
(* The module builds on CTFIter: its next-state relation is every call of *)
(* the iterators, the enum queries, ptrauth and ctf_type_name, the read-   *)
(* only API that is not part of CTFQuery's relation.                       *)
(***************************************************************************)
EXTENDS CTFIter
LOCAL INSTANCE SequencesExt

CONSTANTS
  BufLens       \* the buffer sizes a caller passes to ctf_type_name

\* ctf_decl_prec_t.
CTF_PREC_BASE == 0
CTF_PREC_POINTER == 1
CTF_PREC_ARRAY == 2
CTF_PREC_FUNCTION == 3
CTF_PREC_MAX == 4
Precs == CTF_PREC_BASE .. CTF_PREC_MAX - 1

QualKinds == {"volatile", "const", "restrict"}

\* ctf_decl_init: empty buckets, every order before CTF_PREC_BASE.
EmptyDecl ==
  [nodes |-> [p \in Precs |-> <<>>], order |-> [p \in Precs |-> CTF_PREC_BASE - 1],
   ordp |-> CTF_PREC_BASE, qualp |-> CTF_PREC_BASE, err |-> NoError, errs |-> <<>>]

\* Variant that moves cd_qualp to any higher class, arrays and functions
\* included.
NextQualpAny(qualp, prec) == IF prec > qualp THEN prec ELSE qualp

\* cd_qualp after a node of class prec: the highest qualifiable class
\* (CTF_PREC_BASE or CTF_PREC_POINTER) seen so far.
NextQualp(qualp, prec) ==
  IF prec > qualp /\ prec < CTF_PREC_ARRAY THEN prec ELSE qualp

(***************************************************************************)
(* ctf_decl_push: push the referenced type first, then this one.  A       *)
(* bucket gets its order when its first node arrives; a qualifier goes to *)
(* the highest qualifiable class seen so far; arrays, and qualifiers of   *)
(* the base, are prepended.  An anonymous typedef is looked through.  A   *)
(* failed lookup records its error and pushes nothing.                    *)
(***************************************************************************)
RECURSIVE DeclPush(_, _, _)

\* The buckets after the node of type (target t, in container fp) is
\* pushed onto sub, the buckets its referenced type left.
Pushed(type, t, sub) ==
  LET prec == CASE t.kind = "array"    -> CTF_PREC_ARRAY
                [] t.kind = "function" -> CTF_PREC_FUNCTION
                [] t.kind = "pointer"  -> CTF_PREC_POINTER
                [] t.kind \in QualKinds -> sub.qualp
                [] OTHER               -> CTF_PREC_BASE
      node == [type |-> type, kind |-> t.kind,
               n |-> IF t.kind = "array" THEN t.nelems ELSE 1]
      first == sub.nodes[prec] = <<>>
      front == t.kind = "array" \/ (t.kind \in QualKinds /\ prec = CTF_PREC_BASE)
  IN  [sub EXCEPT
         !.nodes[prec] = IF front THEN <<node>> \o @ ELSE Append(@, node),
         !.order[prec] = IF first THEN sub.ordp ELSE @,
         !.ordp        = IF first THEN @ + 1 ELSE @,
         !.qualp       = NextQualp(@, prec)]

\* The node of a type whose lookup gave target t in container fp: an
\* anonymous typedef is looked through, anything else is pushed after
\* what it references.
PushTarget(type, fp, t, cd) ==
  CASE t.kind = "typedef" /\ t.name = Anon -> DeclPush(fp, t.type, cd)
    [] t.kind = "array" -> Pushed(type, t, DeclPush(fp, t.contents, cd))
    [] t.kind \in {"pointer", "function"} \cup QualKinds ->
         Pushed(type, t, DeclPush(fp, t.type, cd))
    [] OTHER -> Pushed(type, t, cd)

\* A failed lookup records its error and pushes nothing.
PushLookup(type, l, cd) ==
  IF ~l.ok THEN [cd EXCEPT !.err = l.err, !.errs = @ \o ErrsOf(l)]
  ELSE PushTarget(type, l.fp, Target(l), cd)

DeclPush(fp, type, cd) == PushLookup(type, LookupById(ctf, fp, type), cd)

\* The text ctf_decl_sprintf appends for a node (its name looked up from
\* the caller's container, as the code does).
PieceNamed(nd, name) ==
  CASE nd.kind \in {"integer", "float", "typedef"} -> name
        [] nd.kind = "pointer"  -> "*"
        [] nd.kind = "array"    -> "[" \o ToString(nd.n) \o "]"
        [] nd.kind = "function" -> "()"
        [] nd.kind \in {"struct", "forward"} -> "struct " \o name
        [] nd.kind = "union"    -> "union " \o name
        [] nd.kind = "enum"     -> "enum " \o name
        [] OTHER                -> nd.kind

Piece(fp, nd) ==
  LET l == LookupById(ctf, fp, nd.type) IN PieceNamed(nd, Rec(l.fp, l.idx).name)

\* Variant that leaves lp set after opening the parenthesis.
OpenedKeep(lp, prec) == lp

\* lp after a node of class prec: -1 once its '(' is out.
Opened(lp, prec) == IF lp = prec THEN -1 ELSE lp

\* The emission loop of ctf_type_lname: buckets in precedence order, nodes
\* in list order; a space unless the last node was a pointer or an array;
\* '(' before the first node of class lp, ')' after the bucket of class rp.
RECURSIVE Emit(_, _, _, _, _, _, _, _)
Emit(fp, cd, rp, lp, prec, i, k, out) ==
  IF prec = CTF_PREC_MAX THEN out
  ELSE IF i > Len(cd.nodes[prec])
    THEN Emit(fp, cd, rp, lp, prec + 1, 1, k,
              IF rp = prec THEN Append(out, ")") ELSE out)
  ELSE LET nd == cd.nodes[prec][i]
           sp == IF k \notin {"pointer", "array"} THEN <<" ">> ELSE <<>>
           op == IF lp = prec THEN <<"(">> ELSE <<>>
       IN  Emit(fp, cd, rp, Opened(lp, prec), prec, i + 1, nd.kind,
                out \o sp \o op \o <<Piece(fp, nd)>>)

\* The length of a text: the sum of its pieces' lengths.
TextLen(txt) == FoldLeft(LAMBDA acc, p : acc + Len(p), 0, txt)

\* Variant of the truncation test that lets a text of exactly len bytes
\* through (no room left for the NUL).
TooLongStrict(rv, len) == rv > len

\* cd.cd_len >= len: the text and its NUL do not fit.
TooLong(rv, len) == rv >= len

\* The answer of ctf_type_lname for the text txt and a buffer of len bytes.
Rendered(fp, txt, len) ==
  [ok |-> TRUE, val |-> [len |-> TextLen(txt), text |-> txt],
   errs |-> IF TooLong(TextLen(txt), len) THEN << <<fp, "ECTF_NAMELEN">> >> ELSE <<>>]

\* ctf_type_lname once the buckets cd are built: '(' goes before the
\* pointer bucket (or the array bucket) when one was filled after a
\* class of lower precedence, ')' after the array bucket (or the pointer
\* bucket).
LNameOf(fp, cd, len) ==
  LET ptr == cd.order[CTF_PREC_POINTER] > CTF_PREC_POINTER
      arr == cd.order[CTF_PREC_ARRAY] > CTF_PREC_ARRAY
      rp  == IF arr THEN CTF_PREC_ARRAY ELSE IF ptr THEN CTF_PREC_POINTER ELSE -1
      lp  == IF ptr THEN CTF_PREC_POINTER ELSE IF arr THEN CTF_PREC_ARRAY ELSE -1
  IN  IF cd.err # NoError
        THEN [ok |-> FALSE, val |-> CTF_ERR, errs |-> cd.errs \o << <<fp, cd.err>> >>]
      ELSE Rendered(fp, Emit(fp, cd, rp, lp, CTF_PREC_BASE, 1, "pointer", <<>>), len)

\* ctf_type_lname with a buffer of len bytes: [ok, val |-> [len, text]].
LName(fp, type, len) == LNameOf(fp, DeclPush(fp, type, EmptyDecl), len)

\* ctf_type_name given the answer r of ctf_type_lname: the text when it
\* fit (rv < len), NULL (CTF_ERR) otherwise.
NameOf(r, len) ==
  IF r.ok /\ r.val.len < len THEN Ok(r.val.text)
  ELSE [ok |-> FALSE, val |-> CTF_ERR, errs |-> r.errs]

TypeName(fp, type, len) == NameOf(LName(fp, type, len), len)

NameCall(c, t, len) == Return("name", <<c, t, len>>, TypeName(c, t, len))

DeclNext ==
  \/ IterNext
  \/ \E c \in Containers : \E t \in CallIds(c) : \E len \in BufLens : NameCall(c, t, len)

DeclSpec == Init /\ [][DeclNext]_vars

-----------------------------------------------------------------------------
(***************************************************************************)
(* Reference definition: the C declarator of a type, built the textbook   *)
(* way from the inside out.  A pointer's '*' is put in front of what is   *)
(* inside it and wrapped in parentheses when an array or function         *)
(* declarator is put after it; a qualifier of a pointer follows the '*',  *)
(* any other qualifier precedes the type.                                 *)
(***************************************************************************)
Paren(inner) ==
  IF inner # <<>> /\ Head(inner) = "*" THEN <<"(">> \o inner \o <<")">> ELSE inner

RECURSIVE RefDecl(_, _, _)

\* A qualifier whose target u is a pointer: written after the '*'.
RefQual(fp, t, u, inner) ==
  IF u.ok /\ Target(u).kind = "pointer"
    THEN RefDecl(u.fp, Target(u).type, <<"*", t.kind>> \o inner)
  ELSE <<t.kind>> \o RefDecl(fp, t.type, inner)

\* The declarator of type, whose target is t in container fp.
RefTarget(type, fp, t, inner) ==
  CASE t.kind = "pointer" -> RefDecl(fp, t.type, <<"*">> \o inner)
    [] t.kind = "array" ->
         RefDecl(fp, t.contents, Paren(inner) \o <<"[" \o ToString(t.nelems) \o "]">>)
    [] t.kind = "function" -> RefDecl(fp, t.type, Paren(inner) \o <<"()">>)
    [] t.kind = "typedef" /\ t.name = Anon -> RefDecl(fp, t.type, inner)
    [] t.kind \in QualKinds -> RefQual(fp, t, LookupById(ctf, fp, t.type), inner)
    [] OTHER -> <<PieceNamed([type |-> type, kind |-> t.kind, n |-> 1], t.name)>> \o inner

RefDecl(fp, type, inner) ==
  LET l == LookupById(ctf, fp, type) IN RefTarget(type, l.fp, Target(l), inner)

\* A text without its spaces.
Unspaced(txt) == SelectSeq(txt, LAMBDA p : p # " ")

\* Every prefix of txt has at least as many '(' as ')', and txt as many.
Balanced(txt) ==
  LET d(k) == Cardinality({i \in 1 .. k : txt[i] = "("}) -
              Cardinality({i \in 1 .. k : txt[i] = ")"})
  IN  (\A k \in 1 .. Len(txt) : d(k) >= 0) /\ d(Len(txt)) = 0

(* ctf_type_lname prints every node of the declaration exactly once, the  *)
(* pieces a C declarator of the type has, and its parentheses pair up:    *)
(* one '(' before the first node of class lp and one ')' after the bucket *)
(* of class rp, whatever the order the buckets were filled in.            *)
DeclPiecesBalanced ==
  (last.op = "name" /\ last.ok) =>
    LET w == Unspaced(last.val)
        bare(x) == SelectSeq(x, LAMBDA p : p \notin {"(", ")"})
    IN  /\ Balanced(w)
        /\ ToBag(bare(w)) = ToBag(bare(RefDecl(last.args[1], last.args[2], <<>>)))

\* For an answer r of ctf_type_lname: the last call fit exactly when the
\* text and its NUL did, and ECTF_NAMELEN was set when it did not.
FitReported(r, len) ==
  r.ok => /\ last.ok = (TextLen(r.val.text) < len)
          /\ ~last.ok => errno[last.args[1]] = "ECTF_NAMELEN"

(* ctf_type_name returns NULL exactly when the text did not fit with its  *)
(* terminating NUL, and then ECTF_NAMELEN is on the caller's container:   *)
(* the two comparisons (cd_len >= len in ctf_type_lname, rv < len in      *)
(* ctf_type_name) agree at the boundary rv = len.                         *)
NameLenReported ==
  last.op = "name" =>
    FitReported(LName(last.args[1], last.args[2], last.args[3]), last.args[3])

(* Spec section 4.5: the declaration ctf_type_name synthesizes is the C   *)
(* declarator of the type: read back, it denotes the same type.           *)
DeclDenotes ==
  (last.op = "name" /\ last.ok) =>
    Unspaced(last.val) = RefDecl(last.args[1], last.args[2], <<>>)

=============================================================================
