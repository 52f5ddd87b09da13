------------------------------- MODULE CTFIter -------------------------------
(***************************************************************************)
(* The iterators and the enum queries of libctf                            *)
(* (src/lib/libctf/common/ctf_types.c): ctf_member_iter, ctf_enum_iter,    *)
(* ctf_type_iter, ctf_enum_name, ctf_enum_value and ctf_type_visit.        *)
(*                                                                         *)
(* The caller's callback is abstracted to the one thing the iterators act *)
(* on, its return value: a callback returns 0 until its stop-th call,     *)
(* which returns Abort (stop 0: it never aborts).  Every item the loop    *)
(* hands to the callback is recorded, in order, in the call's answer.     *)
(***************************************************************************)
EXTENDS CTFQuery
LOCAL INSTANCE SequencesExt

CONSTANTS
  Stops,        \* the calls at which a callback may first return non-zero
  EnumValues,   \* the values a caller passes to ctf_enum_name
  EnumNames     \* the names a caller passes to ctf_enum_value

\* The non-zero value an aborting callback returns (not CTF_ERR).
Abort == 2

\* An enumerator (ctf_enum_t: cte_name, cte_value).
Enumerator(name, value) == [name |-> name, value |-> value]

\* The return value of the k-th call of a callback that stops at call stop.
Visitor(stop, k) == IF k = stop THEN Abort ELSE 0

\* The loop of member_iter, enum_iter and type_iter: each item goes to the
\* callback in order; a non-zero return ends the loop and is returned.
RECURSIVE Yield(_, _, _)
Yield(items, stop, seen) ==
  IF items = <<>> THEN [rc |-> 0, seen |-> seen]
  ELSE LET s  == Append(seen, Head(items))
           rc == Visitor(stop, Len(s))
       IN  IF rc # 0 THEN [rc |-> rc, seen |-> s]
           ELSE Yield(Tail(items), stop, s)

Iterated(y) == [ok |-> y.rc = 0, val |-> y, errs |-> <<>>]
Failed(r) == [ok |-> FALSE, val |-> [rc |-> CTF_ERR, seen |-> <<>>], errs |-> r.errs]

\* ctf_member_iter: resolve, then the members in declaration order.
MemberIter(fp, type, stop) ==
  LET r == TypeResolve(fp, type)
      l == LookupById(ctf, fp, r.val)
  IN  IF ~r.ok THEN Failed(r)
      ELSE IF ~l.ok THEN Failed(LookupErr(l))
      ELSE IF Target(l).kind \notin {"struct", "union"}
        THEN Failed(Err(fp, "ECTF_NOTSOU"))
      ELSE Iterated(Yield(Target(l).members, stop, <<>>))

\* ctf_enum_iter: resolve, then the enumerators in order.
EnumIter(fp, type, stop) ==
  LET r == TypeResolve(fp, type)
      l == LookupById(ctf, fp, r.val)
  IN  IF ~r.ok THEN Failed(r)
      ELSE IF ~l.ok THEN Failed(LookupErr(l))
      ELSE IF Target(l).kind # "enum" THEN Failed(Err(fp, "ECTF_NOTENUM"))
      ELSE Iterated(Yield(Target(l).enums, stop, <<>>))

\* The indices 1 .. ctf_typemax whose info word has the root flag.
RootIdx(fp) == SelectSeq([i \in 1 .. ctf[fp].typemax |-> i],
                         LAMBDA i : Rec(fp, i).root)

\* Variant that hands out the indices without the child flag.
RootIdsRaw(fp) == RootIdx(fp)

\* LCTF_INDEX_TO_TYPE(fp, id, child) of every root index, ascending.
RootIds(fp) ==
  [k \in 1 .. Len(RootIdx(fp)) |-> LCTF_INDEX_TO_TYPE(RootIdx(fp)[k], ctf[fp].child)]

\* ctf_type_iter.
TypeIter(fp, stop) == Iterated(Yield(RootIds(fp), stop, <<>>))

\* Variant of the enumerator loop that stops one short (n > 1).
EnumsSkipLast(es) == SubSeq(es, 1, Len(es) - 1)

\* The enumerators the loop of enum_name and enum_value reads.
EnumsScanned(es) == es

\* ctf_enum_name: the name of the first enumerator of that value; the
\* errors go to the caller's container.  (NULL is CTF_ERR here.)
EnumName(fp, type, value) ==
  LET r == TypeResolve(fp, type)
      l == LookupById(ctf, fp, r.val)
      hit == SelectSeq(EnumsScanned(Target(l).enums), LAMBDA e : e.value = value)
  IN  IF ~r.ok THEN r
      ELSE IF ~l.ok THEN LookupErr(l)
      ELSE IF Target(l).kind # "enum" THEN Err(fp, "ECTF_NOTENUM")
      ELSE IF hit = <<>> THEN Err(fp, "ECTF_NOENUMNAM")
      ELSE Ok(Head(hit).name)

\* ctf_enum_value: the value of the first enumerator of that name.
EnumValue(fp, type, name) ==
  LET r == TypeResolve(fp, type)
      l == LookupById(ctf, fp, r.val)
      hit == SelectSeq(EnumsScanned(Target(l).enums), LAMBDA e : e.name = name)
  IN  IF ~r.ok THEN r
      ELSE IF ~l.ok THEN LookupErr(l)
      ELSE IF Target(l).kind # "enum" THEN Err(fp, "ECTF_NOTENUM")
      ELSE IF hit = <<>> THEN Err(fp, "ECTF_NOENUMNAM")
      ELSE Ok(Head(hit).value)

\* ctf_type_ptrauth: no resolution; the key, discriminator and flag of a
\* ptrauth type's data word (one value here).
TypePtrauth(fp, type) ==
  LET l == LookupById(ctf, fp, type) IN
  IF ~l.ok THEN LookupErr(l)
  ELSE IF Target(l).kind # "ptrauth" THEN Err(fp, "ECTF_NOTPTRAUTH")
  ELSE Ok(Target(l).enc)

(***************************************************************************)
(* ctf_type_rvisit: resolve and look the type up, call the callback on    *)
(* (name, the unresolved ID, offset, depth), then, for a struct or union, *)
(* visit each member one level deeper at the summed offset.  A non-zero   *)
(* result of the callback or of a member's visit is returned at once.     *)
(* Every record shape of the four member loops is one decoded record.     *)
(***************************************************************************)
\* Variant that passes the member's own offset, not the summed one.
VisitOffsetLocal(m, off) == m.off

VisitOffset(m, off) == off + m.off

RECURSIVE RVisit(_, _, _, _, _, _, _), VisitMembers(_, _, _, _, _, _),
          VisitMembersContinue(_, _, _, _, _, _)

\* Variant of the member loop that drops a member's non-zero result.
VisitMembersContinue(fp, ms, off, depth, stop, acc) ==
  IF ms = <<>> THEN [acc EXCEPT !.rc = 0]
  ELSE LET m   == Head(ms)
           sub == RVisit(fp, m.type, m.name, VisitOffset(m, off), depth + 1,
                         stop, acc.seen)
       IN  VisitMembersContinue(fp, Tail(ms), off, depth, stop,
                                [sub EXCEPT !.errs = acc.errs \o @])

VisitMembers(fp, ms, off, depth, stop, acc) ==
  IF ms = <<>> THEN acc
  ELSE LET m   == Head(ms)
           sub == RVisit(fp, m.type, m.name, VisitOffset(m, off), depth + 1,
                         stop, acc.seen)
           nxt == [sub EXCEPT !.errs = acc.errs \o @]
       IN  IF sub.rc # 0 THEN nxt
           ELSE VisitMembers(fp, Tail(ms), off, depth, stop, nxt)

RVisit(fp, type, name, off, depth, stop, seen) ==
  LET r  == TypeResolve(fp, type)
      l  == LookupById(ctf, fp, r.val)
      s  == Append(seen, [name |-> name, type |-> type, off |-> off, depth |-> depth])
      rc == Visitor(stop, Len(s))
  IN  IF ~r.ok THEN [rc |-> CTF_ERR, seen |-> seen, errs |-> r.errs]
      ELSE IF ~l.ok THEN [rc |-> CTF_ERR, seen |-> seen, errs |-> ErrsOf(l)]
      ELSE IF rc # 0 THEN [rc |-> rc, seen |-> s, errs |-> <<>>]
      ELSE IF Target(l).kind \notin {"struct", "union"}
        THEN [rc |-> 0, seen |-> s, errs |-> <<>>]
      ELSE VisitMembers(l.fp, Target(l).members, off, depth, stop,
                        [rc |-> 0, seen |-> s, errs |-> <<>>])

\* ctf_type_visit: rvisit with name "", offset 0, depth 0.
TypeVisit(fp, type, stop) ==
  LET v == RVisit(fp, type, Anon, 0, 0, stop, <<>>)
  IN  [ok |-> v.rc = 0, val |-> [rc |-> v.rc, seen |-> v.seen], errs |-> v.errs]

-----------------------------------------------------------------------------
MemberIterCall(c, t, stop) ==
  Return("member_iter", <<c, t, stop>>, MemberIter(c, t, stop))
EnumIterCall(c, t, stop) ==
  Return("enum_iter", <<c, t, stop>>, EnumIter(c, t, stop))
TypeIterCall(c, stop) == Return("type_iter", <<c, stop>>, TypeIter(c, stop))
VisitCall(c, t, stop) == Return("visit", <<c, t, stop>>, TypeVisit(c, t, stop))
EnumNameCall(c, t, v) == Return("enum_name", <<c, t, v>>, EnumName(c, t, v))
EnumValueCall(c, t, n) == Return("enum_value", <<c, t, n>>, EnumValue(c, t, n))
PtrauthCall(c, t) == Return("ptrauth", <<c, t>>, TypePtrauth(c, t))

IterNext ==
  \E c \in Containers :
    \/ \E stop \in Stops : TypeIterCall(c, stop)
    \/ \E t \in CallIds(c) :
         \/ \E stop \in Stops :
              MemberIterCall(c, t, stop) \/ EnumIterCall(c, t, stop)
              \/ VisitCall(c, t, stop)
         \/ \E v \in EnumValues : EnumNameCall(c, t, v)
         \/ \E n \in EnumNames : EnumValueCall(c, t, n)
         \/ PtrauthCall(c, t)

IterSpec == Init /\ [][IterNext]_vars

-----------------------------------------------------------------------------
IterOps == {"member_iter", "enum_iter", "type_iter", "visit"}

IterErrors == QueryErrors \cup {"ECTF_NOTENUM", "ECTF_NOENUMNAM", "ECTF_NOTPTRAUTH"}

\* The answer of the same call with a callback that never aborts.
FullRun(op, a) ==
  CASE op = "member_iter" -> MemberIter(a[1], a[2], 0)
    [] op = "enum_iter"   -> EnumIter(a[1], a[2], 0)
    [] op = "type_iter"   -> TypeIter(a[1], 0)
    [] OTHER              -> TypeVisit(a[1], a[2], 0)

(* Spec section 4.4: a non-zero callback return aborts the rest of the    *)
(* traversal and is propagated.  For the four iterators, a callback that  *)
(* aborts at its k-th call has seen exactly the first k items the full    *)
(* traversal hands out, and the call returns its value, also when the     *)
(* abort comes from a member visited deep inside ctf_type_rvisit.         *)
IterAbortPropagates ==
  last.op \in IterOps =>
    LET stop == last.args[Len(last.args)]
        full == FullRun(last.op, last.args).val
    IN  IF stop \in 1 .. Len(full.seen)
          THEN last.val.rc = Abort /\ last.val.seen = SubSeq(full.seen, 1, stop)
          ELSE last.val = full

(* ctf_type_visit reaches, at its offset from the start, every member      *)
(* ctf_member_info could answer: a complete visit reports each member the  *)
(* type makes visible by name, inside anonymous members included, with    *)
(* its type and the offset summed along the way.                          *)
VisitCoversVisible ==
  (last.op = "visit" /\ last.val.rc = 0) =>
    \A x \in Visible(last.args[1], last.args[2], 0) :
      \E k \in 1 .. Len(last.val.seen) :
        LET e == last.val.seen[k] IN
        e.depth > 0 /\ e.name = x.name /\ e.type = x.type /\ e.off = x.off

(* ctf_type_iter hands out, in ascending order, IDs that ctf_lookup_by_id *)
(* of the same container takes to a root type of that container, and,    *)
(* when not aborted, all of them: a child's IDs must carry the child flag. *)
TypeIterRoundTrip ==
  last.op = "type_iter" =>
    LET c    == last.args[1]
        ids  == last.val.seen
        OwnRoot(id) == LET l == LookupById(ctf, c, id) IN
                    l.ok /\ l.fp = c /\ Rec(c, l.idx).root
    IN  /\ \A k \in 1 .. Len(ids) : OwnRoot(ids[k])
        /\ \A k \in 1 .. Len(ids) - 1 : ids[k] < ids[k + 1]
        /\ last.val.rc = 0 =>
             Len(ids) = Cardinality({i \in 1 .. ctf[c].typemax : Rec(c, i).root})

(* ctf_enum_name and ctf_enum_value agree with ctf_enum_iter on the same  *)
(* type, through the resolution of a typedef chain across the containers:  *)
(* a lookup succeeds exactly when an enumerator the iteration hands out   *)
(* matches, and answers with the first such one.                          *)
EnumLookupsMatchIter ==
  last.op \in {"enum_name", "enum_value"} =>
    LET it   == EnumIter(last.args[1], last.args[2], 0)
        byV  == last.op = "enum_name"
        hit  == SelectSeq(it.val.seen, LAMBDA e :
                  IF byV THEN e.value = last.args[3] ELSE e.name = last.args[3])
    IN  it.ok =>
          /\ last.ok = (hit # <<>>)
          /\ last.ok => last.val = (IF byV THEN Head(hit).name ELSE Head(hit).value)

=============================================================================
