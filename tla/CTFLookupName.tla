---------------------------- MODULE CTFLookupName ----------------------------
(***************************************************************************)
(* Name Resolver: ctf_lookup_by_name (src/lib/libctf/common/ctf_lookup.c). *)
(*                                                                         *)
(* A name is a sequence of tokens: the words and the '*' characters the    *)
(* loop of ctf_lookup_by_name stops at (whitespace and '*' delimit them;   *)
(* whitespace itself is skipped and left out).  A type's name is the       *)
(* text of its string-table entry; the key the code hashes is the text    *)
(* from the word to the next '*' (trailing whitespace excluded), the      *)
(* words of the name joined by a blank.  The loop is the recursive Scan,   *)
(* one token step per recursion; the lookup of the whole name in the      *)
(* parent after a failure                                                  *)
(* is the recursion of LookupByName.                                       *)
(***************************************************************************)
EXTENDS CTFQuery
LOCAL INSTANCE SequencesExt

CONSTANTS
  Qualifiers,   \* the keywords isqualifier recognises
  Lookups,      \* fp->ctf_lookups: the prefixes, in table order, "" last
  Names         \* the names a caller passes

Star == "*"

\* isqualifier: the perfect hash lands on one slot, and the slot's length
\* and text must equal the token's, so only the keywords themselves match.
IsQualifier(tok) == tok \in Qualifiers

\* The kinds each lookup table of ctf_bufopen holds.
TableKinds(pre) ==
  CASE pre = "struct" -> {"struct"}
    [] pre = "union"  -> {"union"}
    [] pre = "enum"   -> {"enum"}
    [] OTHER          -> {"integer", "float", "typedef"}

\* The text of a sequence of words written with one blank between them.
Spelled(ws) ==
  IF ws = <<>> THEN "" ELSE FoldLeft(LAMBDA a, w : a \o " " \o w, Head(ws), Tail(ws))

\* ctf_hash_lookup on the table of prefix pre: the ID of the type of fp of
\* that category whose name is the text of the words key, 0 when there is
\* none (the tables hold named types only: an empty name is never
\* inserted).
Hash(fp, pre, key) ==
  LET ids == {i \in 1 .. ctf[fp].typemax :
                /\ Rec(fp, i).kind \in TableKinds(pre)
                /\ Rec(fp, i).name # Anon
                /\ Rec(fp, i).name = Spelled(key)}
  IN  IF ids = {} THEN 0
      ELSE LCTF_INDEX_TO_TYPE(CHOOSE i \in ids : TRUE, ctf[fp].child)

\* The first lookup table whose prefix is "" or equals the token: the
\* length check (q - p >= ctl_len) makes strncmp an exact comparison.
Prefix(tok) ==
  Lookups[CHOOSE k \in 1 .. Len(Lookups) :
            /\ Lookups[k] \in {"", tok}
            /\ \A j \in 1 .. k - 1 : Lookups[j] \notin {"", tok}]

\* The position of the first '*' at or after position i (strchr(p, '*')),
\* or one past the end.
NextStar(toks, i) ==
  LET s == {j \in i .. Len(toks) : toks[j] = Star}
  IN  IF s = {} THEN Len(toks) + 1 ELSE CHOOSE j \in s : \A k \in s : j <= k

\* Scan results: status "ok", "notype" (goto err) or "syntax".
Scanned(st, v, es) == [status |-> st, val |-> v, errs |-> es]

\* Variant of the pointer step that returns the table entry without
\* putting the container's child flag back on it.
PtrStepRaw(fp, n) == n

\* LCTF_INDEX_TO_TYPE(fp, ntype, fp->ctf_flags & LCTF_CHILD).
PtrStep(fp, n) == LCTF_INDEX_TO_TYPE(n, ctf[fp].child)

\* After the loop: a name that named no type is a syntax error.
ScanEnd(fp, type) ==
  IF type = 0 THEN Scanned("syntax", CTF_ERR, << <<fp, "ECTF_SYNTAX">> >>)
  ELSE Scanned("ok", type, <<>>)

RECURSIVE Scan(_, _, _, _)
Scan(fp, toks, i, type) ==
  IF i > Len(toks) THEN ScanEnd(fp, type)
  ELSE IF toks[i] = Star THEN
    \* ptrtab of fp itself, then of fp again at the resolved type's index
    LET n0 == PtrTab(fp, LCTF_TYPE_TO_INDEX(type))
        r  == TypeResolve(fp, type)
        n  == IF n0 # 0 THEN n0
              ELSE IF r.ok THEN PtrTab(fp, LCTF_TYPE_TO_INDEX(r.val)) ELSE 0
        es == IF n0 # 0 THEN <<>> ELSE r.errs
    IN  IF n = 0 THEN Scanned("notype", CTF_ERR, es \o << <<fp, "ECTF_NOTYPE">> >>)
        ELSE LET s == Scan(fp, toks, i + 1, PtrStep(fp, n))
             IN  [s EXCEPT !.errs = es \o @]
  ELSE IF IsQualifier(toks[i]) THEN Scan(fp, toks, i + 1, type)
  ELSE
    \* skip the prefix, take the words up to the next '*' as the key
    LET pre   == Prefix(toks[i])
        start == IF pre = "" THEN i ELSE i + 1
        q     == NextStar(toks, start)
        h     == Hash(fp, pre, SubSeq(toks, start, q - 1))
    IN  IF h = 0 THEN Scanned("notype", CTF_ERR, << <<fp, "ECTF_NOTYPE">> >>)
        ELSE Scan(fp, toks, q, h)

\* ctf_lookup_by_name: on "notype" the whole name is looked up again in the
\* parent, when one is attached; a syntax error is final.
RECURSIVE LookupByName(_, _)
LookupByName(fp, toks) ==
  LET s == Scan(fp, toks, 1, 0) IN
  IF s.status = "ok" THEN Ok(s.val)
  ELSE IF s.status = "notype" /\ ctf[fp].parent # NoContainer
    THEN After(s.errs, LookupByName(ctf[fp].parent, toks))
  ELSE [ok |-> FALSE, val |-> CTF_ERR, errs |-> s.errs]

LookupByNameCall(c, name) ==
  Return("lookup_by_name", <<c, name>>, LookupByName(c, name))

NameNext == \E c \in Containers : \E name \in Names : LookupByNameCall(c, name)

NameSpec == Init /\ [][NameNext]_vars

-----------------------------------------------------------------------------
(***************************************************************************)
(* Reference definitions: the grammar of spec section 4.2 and what a name *)
(* of it denotes.                                                          *)
(***************************************************************************)
Words(toks) == {toks[i] : i \in 1 .. Len(toks)}

IsIdent(tok) == tok # Star /\ ~IsQualifier(tok) /\ tok \notin Words(Lookups)

\* qualifier* ( prefix identifier | identifier ) '*'*, split at q
\* qualifiers and k stars.
Parses(toks, q, k) ==
  /\ q + k < Len(toks)
  /\ \A i \in 1 .. q : IsQualifier(toks[i])
  /\ \A i \in Len(toks) - k + 1 .. Len(toks) : toks[i] = Star
  /\ LET b == SubSeq(toks, q + 1, Len(toks) - k) IN
     \/ Len(b) = 1 /\ IsIdent(b[1])
     \/ Len(b) = 2 /\ b[1] \in Words(Lookups) \ {""} /\ IsIdent(b[2])

InGrammar(toks) ==
  \E q \in 0 .. Len(toks) : \E k \in 0 .. Len(toks) : Parses(toks, q, k)

\* The number of '*' after the last word that is neither a qualifier nor
\* '*' (all of them if there is none).
Depth(toks) ==
  LET w == {i \in 1 .. Len(toks) : toks[i] # Star /\ ~IsQualifier(toks[i])}
      from == IF w = {} THEN 1 ELSE (CHOOSE i \in w : \A j \in w : j <= i) + 1
  IN  Cardinality({i \in from .. Len(toks) : toks[i] = Star})

\* t is a k-fold pointer, seen from container c.
RECURSIVE PointerChain(_, _, _)
PointerChain(c, t, k) ==
  k = 0 \/
  /\ TypeKindOf(c, t).val = "pointer"
  /\ PointerChain(c, TypeReference(c, t).val, k - 1)

\* t is a k-fold pointer to b or, at each level, to b's base type.
RECURSIVE PointsTo(_, _, _, _)
PointsTo(c, t, k, b) ==
  IF k = 0 THEN BaseNode(c, t) = BaseNode(c, b)
  ELSE /\ TypeKindOf(c, t).val = "pointer"
       /\ PointsTo(c, TypeReference(c, t).val, k - 1, b)

\* The type the base of a name of the grammar names in container f.
NamedIn(f, toks, q, k) ==
  LET b == SubSeq(toks, q + 1, Len(toks) - k) IN
  IF Len(b) = 1 THEN Hash(f, "", b) ELSE Hash(f, b[1], Tail(b))

(* An ID ctf_lookup_by_name returns is a pointer type nested as deep as   *)
(* the '*' after the name's last word, wherever it was found: in the       *)
(* container asked, through the resolution fallback of the pointer step,  *)
(* or in the parent after the retry.                                       *)
LookupNameShape ==
  (last.op = "lookup_by_name" /\ last.ok) =>
    PointerChain(last.args[1], last.val, Depth(last.args[2]))

(* Spec section 4.2: a name of the grammar resolves to the type its base  *)
(* names (in the container or, after the retry, in its parent), with each *)
(* '*' a pointer to the type so far or to its base type.                  *)
LookupNameSound ==
  (last.op = "lookup_by_name" /\ last.ok /\ InGrammar(last.args[2])) =>
    LET c    == last.args[1]
        toks == last.args[2]
    IN  \E q \in 0 .. Len(toks) : \E k \in 0 .. Len(toks) :
        \E f \in {c} \cup ({ctf[c].parent} \ {NoContainer}) :
          /\ Parses(toks, q, k)
          /\ NamedIn(f, toks, q, k) # 0
          /\ PointsTo(c, last.val, k, NamedIn(f, toks, q, k))

=============================================================================
