------------------------------ MODULE CTFQuery ------------------------------
(***************************************************************************)
(* Structural Introspection and Compatibility of libctf                    *)
(* (src/lib/libctf/common/ctf_types.c): the queries that resolve a type    *)
(* and then read its trailer, recursing into array contents, member types  *)
(* and pointer targets.                                                     *)
(*                                                                         *)
(* Every query is synchronous and leaves the containers untouched, so one  *)
(* call is one atomic step: it records its answer in `last` and applies,   *)
(* in the order the code makes them, the ctf_set_errno calls it makes.      *)
(* Each query operator returns [ok, val, errs]: whether it succeeded, its   *)
(* value, and the sequence of <<container, error>> it set.                  *)
(*                                                                         *)
(* The v1 and v4 record shapes are one decoded record here: the version   *)
(* selects where a field is read, not what the code does with it, except  *)
(* in the member-record choice, which is kept.                             *)
(***************************************************************************)
EXTENDS CTFContainer, FiniteSets
LOCAL INSTANCE SequencesExt

CONSTANTS
  LStructThresh,    \* CTF_LSTRUCT_THRESH: from this size on, long members
  PointerWidth,     \* ctf_dmodel->ctd_pointer of the loaded containers
  Loaded,           \* the container pairs a run starts from
  MemberNames,      \* the member names a caller asks ctf_member_info for
  MaxCalls          \* the queries one behaviour makes

ASSUME LStructThresh \in Nat /\ PointerWidth \in Nat /\ MaxCalls \in Nat

Anon == ""            \* ctm_name 0: an anonymous member

\* The kinds that directly reference another type (ctf_type_reference).
RefKinds == {"pointer", "ptrauth"} \cup AliasKinds

\* ctf_type_kind's answer when the lookup fails (CTF_ERR).
KindErr == "CTF_ERR"

\* Records of the type trailers (ctf_type_t with ctf_array_t, members or
\* enumerators); root is CTF_INFO_ISROOT of the info word.
TypeRec(kind, name, ref, size, enc, arr, ms) ==
  [kind |-> kind, name |-> name, type |-> ref, size |-> size, enc |-> enc,
   contents |-> arr[1], index |-> arr[2], nelems |-> arr[3], members |-> ms,
   enums |-> <<>>, root |-> TRUE]

Member(name, type, off) == [name |-> name, type |-> type, off |-> off]

VARIABLES
  ctf,      \* the loaded containers
  errno,    \* ctf_errno of each container
  last,     \* the last call: its operation, arguments and answer
  ncalls    \* the queries made so far

vars == <<ctf, errno, last, ncalls>>

-----------------------------------------------------------------------------
(* Results of the query operators.                                         *)
Ok(v) == [ok |-> TRUE, val |-> v, errs |-> <<>>]
Err(fp, e) == [ok |-> FALSE, val |-> CTF_ERR, errs |-> << <<fp, e>> >>]
LookupErr(l) == Err(l.errfp, l.err)
ErrsOf(l) == IF l.ok THEN <<>> ELSE << <<l.errfp, l.err>> >>
After(es, r) == [r EXCEPT !.errs = es \o @]

\* Apply the ctf_set_errno calls of a query in order.
ApplyErrs(e, es) == FoldLeft(LAMBDA acc, x : SetErrno(acc, x[1], x[2]), e, es)

Rec(fp, idx) == ctf[fp].types[idx]

\* The record a successful lookup reached.
Target(l) == Rec(l.fp, l.idx)

(***************************************************************************)
(* ctf_type_resolve, one loop iteration per recursion.                     *)
(***************************************************************************)
RECURSIVE ResolveFrom(_, _, _, _, _)
ResolveFrom(ofp, otype, fp, type, prev) ==
  LET l == LookupById(ctf, fp, type) IN
  IF ~l.ok THEN LookupErr(l)
  ELSE IF Target(l).kind \notin AliasKinds THEN Ok(type)
  ELSE IF Target(l).type \in {type, otype, prev}
    THEN Err(ofp, "ECTF_CORRUPT")
  ELSE ResolveFrom(ofp, otype, l.fp, Target(l).type, type)

TypeResolve(fp, type) == ResolveFrom(fp, type, fp, type, type)

\* ctf_type_kind.
TypeKindOf(fp, type) ==
  LET l == LookupById(ctf, fp, type) IN
  IF l.ok THEN Ok(Target(l).kind) ELSE [LookupErr(l) EXCEPT !.val = KindErr]

\* ctf_type_reference.
TypeReference(fp, type) ==
  LET l == LookupById(ctf, fp, type) IN
  IF ~l.ok THEN LookupErr(l)
  ELSE IF Target(l).kind \in RefKinds THEN Ok(Target(l).type)
  ELSE Err(fp, "ECTF_NOTREF")

\* ctf_type_encoding (format, offset and bits are one value here).
TypeEncoding(fp, type) ==
  LET l == LookupById(ctf, fp, type) IN
  IF ~l.ok THEN LookupErr(l)
  ELSE IF Target(l).kind \in {"integer", "float"} THEN Ok(Target(l).enc)
  ELSE Err(fp, "ECTF_NOTINTFP")

\* ctf_array_info.
ArrayInfo(fp, type) ==
  LET l == LookupById(ctf, fp, type) IN
  IF ~l.ok THEN LookupErr(l)
  ELSE IF Target(l).kind # "array" THEN Err(fp, "ECTF_NOTARRAY")
  ELSE Ok([contents |-> Target(l).contents, index |-> Target(l).index,
           nelems |-> Target(l).nelems])

(***************************************************************************)
(* fp->ctf_ptrtab, built by the loader: for each pointer whose target lies *)
(* in the same container, the entry at the target's index holds the       *)
(* pointer's index (the last such pointer wins); 0 elsewhere.              *)
(***************************************************************************)
PtrTab(fp, idx) ==
  LET ps == {j \in 1 .. ctf[fp].typemax :
               /\ Rec(fp, j).kind = "pointer"
               /\ ~LCTF_TYPE_ISPARENT(Rec(fp, j).type) = ctf[fp].child
               /\ LCTF_TYPE_TO_INDEX(Rec(fp, j).type) = idx}
  IN  IF ps = {} THEN 0 ELSE CHOOSE j \in ps : \A k \in ps : k <= j

\* Variant that hands out the pointer's index without its container's
\* child flag.
PtrIdRaw(fp, idx) == PtrTab(fp, idx)

\* The type ID of the pointer the table of fp holds for index idx.
PtrId(fp, idx) == LCTF_INDEX_TO_TYPE(PtrTab(fp, idx), ctf[fp].child)

(***************************************************************************)
(* ctf_type_pointer: the pointer table of the container the lookup         *)
(* reached, then the one of the container holding the resolved type.      *)
(***************************************************************************)
TypePointer(fp, type) ==
  LET l == LookupById(ctf, fp, type) IN
  IF ~l.ok THEN LookupErr(l)
  ELSE IF PtrTab(l.fp, LCTF_TYPE_TO_INDEX(type)) # 0
    THEN Ok(PtrId(l.fp, LCTF_TYPE_TO_INDEX(type)))
  ELSE LET r == TypeResolve(l.fp, type) IN
    IF ~r.ok THEN After(r.errs, Err(fp, "ECTF_NOTYPE"))
    ELSE LET l2 == LookupById(ctf, l.fp, r.val) IN
      IF ~l2.ok THEN After(ErrsOf(l2), Err(fp, "ECTF_NOTYPE"))
      ELSE IF PtrTab(l2.fp, LCTF_TYPE_TO_INDEX(r.val)) # 0
        THEN Ok(PtrId(l2.fp, LCTF_TYPE_TO_INDEX(r.val)))
      ELSE Err(fp, "ECTF_NOTYPE")

(***************************************************************************)
(* ctf_type_size: resolve, then by kind; an array whose stored size is 0   *)
(* is element size times element count.                                    *)
(***************************************************************************)
RECURSIVE TypeSize(_, _)

\* Variant that multiplies without checking the element size for CTF_ERR.
SizeUnchecked(fp, type) ==
  LET r == TypeResolve(fp, type)
      l == LookupById(ctf, fp, r.val)
  IN
  IF ~r.ok THEN r
  ELSE IF ~l.ok THEN LookupErr(l)
  ELSE CASE Target(l).kind \in {"pointer", "ptrauth"} -> Ok(PointerWidth)
         [] Target(l).kind = "function" -> Ok(0)
         [] Target(l).kind = "array" /\ Target(l).size > 0 -> Ok(Target(l).size)
         [] Target(l).kind = "array" ->
              LET a == ArrayInfo(l.fp, r.val) IN
              IF ~a.ok THEN a
              ELSE LET e == TypeSize(l.fp, a.val.contents) IN
                [Ok(e.val * a.val.nelems) EXCEPT !.errs = e.errs]
         [] OTHER -> Ok(Target(l).size)

TypeSize(fp, type) ==
  LET r == TypeResolve(fp, type)
      l == LookupById(ctf, fp, r.val)
  IN
  IF ~r.ok THEN r
  ELSE IF ~l.ok THEN LookupErr(l)
  ELSE CASE Target(l).kind \in {"pointer", "ptrauth"} -> Ok(PointerWidth)
         [] Target(l).kind = "function" -> Ok(0)
         [] Target(l).kind = "array" /\ Target(l).size > 0 -> Ok(Target(l).size)
         [] Target(l).kind = "array" ->
              LET a == ArrayInfo(l.fp, r.val) IN
              IF ~a.ok THEN a
              ELSE LET e == TypeSize(l.fp, a.val.contents) IN
                IF ~e.ok THEN e ELSE Ok(e.val * a.val.nelems)
         [] OTHER -> Ok(Target(l).size)

(***************************************************************************)
(* ctf_type_align.  align is a size_t and a member's alignment an ssize_t: *)
(* MAX(align, -1) is SIZE_MAX, returned as -1, so one failing member makes *)
(* the whole alignment -1.  Only the first member of a struct counts.     *)
(***************************************************************************)
AlignMax(a, b) == IF a = CTF_ERR \/ b = CTF_ERR THEN CTF_ERR
                  ELSE IF a > b THEN a ELSE b

RECURSIVE TypeAlign(_, _), MembersAlign(_, _, _)
MembersAlign(fp, ms, acc) ==
  IF ms = <<>> THEN acc
  ELSE LET a == TypeAlign(fp, Head(ms).type) IN
    MembersAlign(fp, Tail(ms),
                 [ok |-> TRUE, val |-> AlignMax(acc.val, a.val),
                  errs |-> acc.errs \o a.errs])

TypeAlign(fp, type) ==
  LET r == TypeResolve(fp, type)
      l == LookupById(ctf, fp, r.val)
      t == Target(l)
  IN
  IF ~r.ok THEN r
  ELSE IF ~l.ok THEN LookupErr(l)
  ELSE CASE t.kind \in {"pointer", "ptrauth", "function"} -> Ok(PointerWidth)
         [] t.kind = "array" ->
              LET a == ArrayInfo(l.fp, r.val) IN
              IF ~a.ok THEN a ELSE TypeAlign(l.fp, a.val.contents)
         [] t.kind \in {"struct", "union"} ->
              LET n  == IF t.kind = "struct" /\ Len(t.members) > 1
                          THEN 1 ELSE Len(t.members)
                  al == MembersAlign(l.fp, SubSeq(t.members, 1, n), Ok(0))
              IN  [al EXCEPT !.ok = (al.val # CTF_ERR)]
         [] OTHER -> Ok(t.size)

(***************************************************************************)
(* _ctf_member_info: members in declaration order; an anonymous member is  *)
(* searched first (at its offset plus off), then the member's own name is *)
(* compared.  Short member records (version 1, or a declared size below   *)
(* CTF_LSTRUCT_THRESH) recurse on ctm_type; long ones pass ctlm_name,     *)
(* which is 0 for an anonymous member, as the type.                        *)
(***************************************************************************)
\* Variant that forgets the offset of the enclosing anonymous member.
MemberOffsetLocal(m, off) == m.off

\* The offset of member m of a struct found at offset off.
MemberOffset(m, off) == m.off + off

ShortMembers(fp, t) == ctf[fp].version = 1 \/ t.size < LStructThresh

RECURSIVE MemberInfo(_, _, _, _), MemberScan(_, _, _, _, _, _, _)
MemberScan(fp, ofp, ms, short, name, off, es) ==
  IF ms = <<>> THEN After(es, Err(ofp, "ECTF_NOMEMBNAM"))
  ELSE
    LET m   == Head(ms)
        sub == MemberInfo(fp, IF short THEN m.type ELSE 0, name,
                          MemberOffset(m, off))
        es2 == IF m.name = Anon THEN es \o sub.errs ELSE es
    IN  IF m.name = Anon /\ sub.ok THEN After(es, sub)
        ELSE IF m.name = name
          THEN After(es2, Ok([type |-> m.type, off |-> MemberOffset(m, off)]))
        ELSE MemberScan(fp, ofp, Tail(ms), short, name, off, es2)

MemberInfo(fp, type, name, off) ==
  LET r == TypeResolve(fp, type)
      l == LookupById(ctf, fp, r.val)
  IN
  IF ~r.ok THEN r
  ELSE IF ~l.ok THEN LookupErr(l)
  ELSE IF Target(l).kind \notin {"struct", "union"}
    THEN Err(fp, "ECTF_NOTSOU")
  ELSE MemberScan(l.fp, fp, Target(l).members,
                  ShortMembers(l.fp, Target(l)), name, off, <<>>)

(***************************************************************************)
(* ctf_type_cmp: by ID, then, for two different containers, by the         *)
(* container each ID lives in (the parent for a parent-scoped ID when one *)
(* is attached).  Containers compare by address; Addr fixes one order.     *)
(***************************************************************************)
Addr(c) == IF c = Parent THEN 0 ELSE 1

\* Variant that never moves a parent-scoped ID to the parent.
HomeSelf(fp, type) == fp

Home(fp, type) ==
  IF LCTF_TYPE_ISPARENT(type) /\ ctf[fp].parent # NoContainer
    THEN ctf[fp].parent ELSE fp

Sign(a, b) == IF a < b THEN -1 ELSE IF a > b THEN 1 ELSE 0

TypeCmp(lfp, ltype, rfp, rtype) ==
  IF lfp = rfp THEN Sign(ltype, rtype)
  ELSE IF Home(lfp, ltype) # Home(rfp, rtype)
    THEN Sign(Addr(Home(lfp, ltype)), Addr(Home(rfp, rtype)))
  ELSE Sign(ltype, rtype)

(***************************************************************************)
(* ctf_type_compat_helper; ctf_type_compat passes nameMustMatch = TRUE,    *)
(* ctf_type_printf_compat FALSE.  The recursive calls are strict.  Of two *)
(* calls in one expression the left one is made first.                    *)
(***************************************************************************)
No(es) == [ok |-> TRUE, val |-> FALSE, errs |-> es]

RECURSIVE CompatHelper(_, _, _, _, _), ArrayCompat(_, _, _, _),
          PointerCompat(_, _, _, _, _, _)

\* The CTF_K_PTRAUTH / CTF_K_POINTER case, on the resolved types and kinds:
\* a ptrauth is first replaced by the pointer it wraps.
PointerCompat(lfp, ltype, lkind, rfp, rtype, rkind) ==
  LET l1 == IF lkind = "ptrauth" THEN TypeReference(lfp, ltype) ELSE Ok(ltype)
      r1 == IF rkind = "ptrauth" THEN TypeReference(rfp, rtype) ELSE Ok(rtype)
      l2 == TypeReference(lfp, l1.val)
      r2 == TypeReference(rfp, r1.val)
  IN  After(l1.errs \o r1.errs \o l2.errs \o r2.errs,
            CompatHelper(lfp, l2.val, rfp, r2.val, TRUE))

\* Variant of the array case that compares the left contents with the
\* right index.
ArrayCompatCrossed(lfp, ltype, rfp, rtype) ==
  LET la == ArrayInfo(lfp, ltype)
      ra == ArrayInfo(rfp, rtype)
      cc == CompatHelper(lfp, la.val.contents, rfp, ra.val.index, TRUE)
      ci == CompatHelper(lfp, la.val.index, rfp, ra.val.index, TRUE)
  IN  CASE ~la.ok -> No(la.errs)
        [] ~ra.ok -> No(ra.errs)
        [] la.val.nelems # ra.val.nelems -> No(<<>>)
        [] ~cc.val -> No(cc.errs)
        [] OTHER -> [ok |-> TRUE, val |-> ci.val, errs |-> cc.errs \o ci.errs]

\* The CTF_K_ARRAY case: equal counts, compatible contents and index types.
ArrayCompat(lfp, ltype, rfp, rtype) ==
  LET la == ArrayInfo(lfp, ltype)
      ra == ArrayInfo(rfp, rtype)
      cc == CompatHelper(lfp, la.val.contents, rfp, ra.val.contents, TRUE)
      ci == CompatHelper(lfp, la.val.index, rfp, ra.val.index, TRUE)
  IN  CASE ~la.ok -> No(la.errs)
        [] ~ra.ok -> No(ra.errs)
        [] la.val.nelems # ra.val.nelems -> No(<<>>)
        [] ~cc.val -> No(cc.errs)
        [] OTHER -> [ok |-> TRUE, val |-> ci.val, errs |-> cc.errs \o ci.errs]

CompatHelper(lfp0, ltype0, rfp0, rtype0, nameMustMatch) ==
  LET lr    == TypeResolve(lfp0, ltype0)
      ltype == lr.val
      lk    == TypeKindOf(lfp0, ltype)
      rr    == TypeResolve(rfp0, rtype0)
      rtype == rr.val
      rk    == TypeKindOf(rfp0, rtype)
      ll    == LookupById(ctf, lfp0, ltype)
      rl    == LookupById(ctf, rfp0, rtype)
      lfp   == IF ll.ok THEN ll.fp ELSE lfp0
      rfp   == IF rl.ok THEN rl.fp ELSE rfp0
      es    == lr.errs \o lk.errs \o rr.errs \o rk.errs \o ErrsOf(ll) \o ErrsOf(rl)
      Mismatch ==
        \/ lk.val # rk.val \/ ~ll.ok \/ ~rl.ok
        \/ Target(ll).name # Target(rl).name
      EncCompat ==
        LET le == TypeEncoding(lfp, ltype)
            re == TypeEncoding(rfp, rtype)
        IN  IF ~le.ok THEN No(le.errs)
            ELSE [ok |-> TRUE, val |-> re.ok /\ le.val = re.val, errs |-> re.errs]
      SouCompat ==
        LET ls == TypeSize(lfp, ltype)
            rs == TypeSize(rfp, rtype)
        IN  [ok |-> TRUE, val |-> ls.val = rs.val, errs |-> ls.errs \o rs.errs]
  IN
  IF TypeCmp(lfp0, ltype0, rfp0, rtype0) = 0 THEN Ok(TRUE)
  ELSE IF nameMustMatch /\ Mismatch THEN No(es)
  ELSE After(es,
         CASE lk.val \in {"integer", "float"} -> EncCompat
           [] lk.val \in {"ptrauth", "pointer"} ->
                PointerCompat(lfp, ltype, lk.val, rfp, rtype, rk.val)
           [] lk.val = "array" -> ArrayCompat(lfp, ltype, rfp, rtype)
           [] lk.val \in {"struct", "union"} -> SouCompat
           [] lk.val \in {"enum", "forward"} -> Ok(TRUE)
           [] OTHER -> Ok(FALSE))

-----------------------------------------------------------------------------
(***************************************************************************)
(* The calls.  A caller holds the IDs of the container's own types and,   *)
(* for a child with its parent attached, those of the parent.  Queries do *)
(* not read ctf_errno, so the answers of a sequence of calls are those of *)
(* each call alone; MaxCalls bounds the sequence.                          *)
(***************************************************************************)
CallIds(c) ==
  {LCTF_INDEX_TO_TYPE(i, ctf[c].child) : i \in 1 .. ctf[c].typemax} \cup
  (IF ctf[c].child /\ ctf[c].parent # NoContainer
     THEN 1 .. ctf[ctf[c].parent].typemax ELSE {})

Return(op, args, r) ==
  /\ ncalls < MaxCalls
  /\ ncalls' = ncalls + 1
  /\ errno' = ApplyErrs(errno, r.errs)
  /\ last' = [op |-> op, args |-> args, ok |-> r.ok, val |-> r.val]
  /\ UNCHANGED ctf

KindCall(c, t)      == Return("kind", <<c, t>>, TypeKindOf(c, t))
ReferenceCall(c, t) == Return("reference", <<c, t>>, TypeReference(c, t))
PointerCall(c, t)   == Return("pointer", <<c, t>>, TypePointer(c, t))
EncodingCall(c, t)  == Return("encoding", <<c, t>>, TypeEncoding(c, t))
ArrayInfoCall(c, t) == Return("array_info", <<c, t>>, ArrayInfo(c, t))
SizeCall(c, t)      == Return("size", <<c, t>>, TypeSize(c, t))
AlignCall(c, t)     == Return("align", <<c, t>>, TypeAlign(c, t))

\* ctf_member_info: _ctf_member_info at offset 0.
MemberInfoCall(c, t, n) ==
  Return("member", <<c, t, n>>, MemberInfo(c, t, n, 0))

CmpCall(lc, lt, rc, rt) ==
  Return("cmp", <<lc, lt, rc, rt>>, Ok(TypeCmp(lc, lt, rc, rt)))

\* ctf_type_compat and ctf_type_printf_compat.
CompatCall(lc, lt, rc, rt) ==
  Return("compat", <<lc, lt, rc, rt>>, CompatHelper(lc, lt, rc, rt, TRUE))

PrintfCompatCall(lc, lt, rc, rt) ==
  Return("printf_compat", <<lc, lt, rc, rt>>, CompatHelper(lc, lt, rc, rt, FALSE))

Init ==
  /\ ctf \in Loaded
  /\ errno = [c \in Containers |-> NoError]
  /\ last = [op |-> "none", args |-> <<>>, ok |-> TRUE, val |-> 0]
  /\ ncalls = 0

Next ==
  \E c \in Containers : \E t \in CallIds(c) :
    \/ KindCall(c, t) \/ ReferenceCall(c, t) \/ PointerCall(c, t)
    \/ EncodingCall(c, t) \/ ArrayInfoCall(c, t)
    \/ SizeCall(c, t) \/ AlignCall(c, t)
    \/ \E n \in MemberNames : MemberInfoCall(c, t, n)
    \/ \E c2 \in Containers : \E t2 \in CallIds(c2) :
         \/ CmpCall(c, t, c2, t2)
         \/ CompatCall(c, t, c2, t2)
         \/ PrintfCompatCall(c, t, c2, t2)

Spec == Init /\ [][Next]_vars

-----------------------------------------------------------------------------
(***************************************************************************)
(* Reference definitions, from the C meaning of the type graph.            *)
(***************************************************************************)
\* The node a type ID names, seen from container c.
Node(c, t) == LET l == LookupById(ctf, c, t) IN <<l.fp, l.idx>>

\* The node its alias chain ends at, if the chain ends at a base type.
BaseNode(c, t) ==
  LET r == TypeResolve(c, t) IN IF r.ok THEN Node(c, r.val) ELSE "unresolved"

\* Every member a struct or union makes visible by name, with the offset
\* from its start: its own members and, through each anonymous member,
\* the members that one makes visible.
RECURSIVE Visible(_, _, _)
Visible(fp, type, off) ==
  LET r == TypeResolve(fp, type)
      l == LookupById(ctf, fp, r.val)
  IN  IF ~r.ok \/ ~l.ok \/ Target(l).kind \notin {"struct", "union"} THEN {}
      ELSE UNION { {[name |-> m.name, type |-> m.type, off |-> m.off + off]}
                   \cup (IF m.name = Anon THEN Visible(l.fp, m.type, m.off + off)
                         ELSE {})
                   : m \in ToSet(Target(l).members) }

QueryErrors ==
  Errors \cup {"ECTF_NOTREF", "ECTF_NOTINTFP", "ECTF_NOTARRAY", "ECTF_NOTYPE",
               "ECTF_NOTSOU", "ECTF_NOMEMBNAM"}

(* ctf_type_size and ctf_type_align report a failure only as -1 with an   *)
(* errno set, the convention their callers rely on ("errno is set for     *)
(* us"): the answer is -1 exactly when some step of the call, however deep *)
(* in the recursion through array contents and members, set an errno, and *)
(* never another negative number.  In ctf_type_align a failing member's   *)
(* -1 becomes SIZE_MAX in MAX(align, am) and so still -1; in              *)
(* ctf_type_size the element size is checked for CTF_ERR before the       *)
(* multiplication.  One call per behaviour, so errno is that call's.       *)
SizeAlignErrnoSet ==
  last.op \in {"size", "align"} =>
    /\ last.val \in Nat \cup {CTF_ERR}
    /\ (last.val = CTF_ERR) <=> (\E c \in Containers : errno[c] # NoError)

(* ctf_type_compat is symmetric: swapping the two (container, ID) pairs    *)
(* never changes the answer, through the resolution of both sides, the    *)
(* ptrauth unwrapping of the pointer case and the recursion into array    *)
(* contents and index types.                                               *)
CompatSymmetric ==
  last.op = "compat" =>
    LET a == last.args IN
    CompatHelper(a[3], a[4], a[1], a[2], TRUE).val = last.val

(* ctf_type_pointer returns a pointer type that points to the type asked  *)
(* about or to its base type, although the pointer table it reads, and the *)
(* child flag it tags the answer with, belong to the container the lookup *)
(* and the resolution moved to.                                            *)
PointerRoundTrip ==
  (last.op = "pointer" /\ last.ok) =>
    LET c   == last.args[1]
        ref == TypeReference(c, last.val)
    IN  /\ TypeKindOf(c, last.val).val = "pointer"
        /\ ref.ok
        /\ BaseNode(c, ref.val) = BaseNode(c, last.args[2])

(* ctf_type_cmp is a key for (container, ID) pairs: it answers 0 exactly  *)
(* when both name the same type, a child's parent-scoped ID and the        *)
(* parent's own ID included, and swapping the pairs negates it.            *)
TypeCmpIsKey ==
  last.op = "cmp" =>
    LET a == last.args IN
    /\ (last.val = 0) <=> (Node(a[1], a[2]) = Node(a[3], a[4]))
    /\ TypeCmp(a[3], a[4], a[1], a[2]) = -last.val

(* ctf_member_info only answers with a member the struct makes visible    *)
(* under that name, at its offset from the start of the outer struct,     *)
(* summed through the anonymous members it was found in.                   *)
MemberInfoSound ==
  (last.op = "member" /\ last.ok) =>
    [name |-> last.args[3], type |-> last.val.type, off |-> last.val.off]
      \in Visible(last.args[1], last.args[2], 0)

(* ctf_member_info finds every member the struct makes visible, those of  *)
(* anonymous members included (spec section 8).                           *)
MemberInfoFindsVisible ==
  (last.op = "member" /\
   \E x \in Visible(last.args[1], last.args[2], 0) : x.name = last.args[3])
    => last.ok

=============================================================================
