----------------------------- MODULE CTFResolve -----------------------------
(***************************************************************************)
(* Graph Resolver: ctf_type_resolve (src/lib/libctf/common/ctf_types.c).   *)
(* The caller passes a container and a type ID; the loop follows TYPEDEF,  *)
(* VOLATILE, CONST and RESTRICT edges, moving to the parent container     *)
(* whenever ctf_lookup_by_id does, until a non-alias kind is reached.      *)
(* Cycles are caught by comparing the next edge with the current node, the *)
(* previous node and the original node only.                               *)
(*                                                                         *)
(* One behaviour is a sequence of calls against one loaded container pair,*)
(* each call taking one step per loop iteration.  The container pair is    *)
(* chosen in Init among every pair of the bounded shape (any kinds of the  *)
(* model's kind sets, any references), so corrupt containers are included:*)
(* the loader does not check the alias graph.                              *)
(***************************************************************************)
EXTENDS CTFContainer, FiniteSets, TLC

CONSTANTS
  ModelBaseKinds,   \* non-alias kinds a container of the model may hold
  ModelAliasKinds   \* alias kinds a container of the model may hold

ASSUME ModelBaseKinds \subseteq Kinds \ AliasKinds
ASSUME ModelAliasKinds \subseteq AliasKinds

VARIABLES
  ctf,      \* the loaded containers: Containers -> container record
  errno,    \* ctf_errno of each container
  pc,       \* "idle", "loop" (inside the while loop) or "done"
  ofp,      \* the container the caller passed
  otype,    \* the type ID the caller passed
  fp,       \* the container the loop is at (updated by ctf_lookup_by_id)
  type,     \* the current type ID
  prev,     \* the previous type ID
  result,   \* the value returned
  seterr    \* the error this call passed to ctf_set_errno (0: none)

vars == <<ctf, errno, pc, ofp, otype, fp, type, prev, result, seterr>>

(***************************************************************************)
(* The containers a loaded pair can be.  A parent's references stay within *)
(* the parent; a child's references name void (0), a parent type (flag    *)
(* clear; the parent's indices being interchangeable, the first stands for *)
(* any) or a child type (flag set), one of them past the child's typemax.  *)
(***************************************************************************)
TypeChoices(refs) ==
  [kind : ModelBaseKinds, type : {0}] \cup [kind : ModelAliasKinds, type : refs]

ParentRefs == 0 .. ParentMax
ChildRefs  == {0, 1} \cup
              {LCTF_INDEX_TO_TYPE(i, TRUE) : i \in 1 .. ChildMax + 1}

LoadedPairs ==
  { [c \in Containers |->
       IF c = Parent THEN ContainerRec(FALSE, NoContainer, ParentMax, pt)
                     ELSE ContainerRec(TRUE, par, ChildMax, ct)] :
      pt  \in [1 .. ParentMax -> TypeChoices(ParentRefs)],
      ct  \in [1 .. ChildMax -> TypeChoices(ChildRefs)],
      par \in {Parent, NoContainer} }

\* The IDs a caller holds for a container: those its own types and lookups
\* hand out, which are the IDs its references may hold.
CallerIds(c) == IF c = Child THEN ChildRefs ELSE ParentRefs

Init ==
  /\ ctf \in LoadedPairs
  /\ errno = [c \in Containers |-> NoError]
  /\ pc = "idle"
  /\ ofp = Child /\ fp = Child
  /\ otype = 0 /\ type = 0 /\ prev = 0
  /\ result = 0 /\ seterr = NoError

-----------------------------------------------------------------------------
\* Variant of Call that leaves prev at 0 instead of the caller's ID.
CallPrevZero(c, t) ==
  /\ pc = "idle"
  /\ pc' = "loop"
  /\ ofp' = c /\ fp' = c
  /\ otype' = t /\ type' = t /\ prev' = 0
  /\ UNCHANGED <<ctf, errno, result, seterr>>

\* Variant of Call that starts prev at the CTF_ERR sentinel ("no previous").
CallPrevErr(c, t) ==
  /\ pc = "idle"
  /\ pc' = "loop"
  /\ ofp' = c /\ fp' = c
  /\ otype' = t /\ type' = t /\ prev' = CTF_ERR
  /\ UNCHANGED <<ctf, errno, result, seterr>>

(* ctf_type_resolve entry: prev = type, otype = type, ofp = fp.            *)
Call(c, t) ==
  /\ pc = "idle"
  /\ pc' = "loop"
  /\ ofp' = c /\ fp' = c
  /\ otype' = t /\ type' = t /\ prev' = t
  /\ UNCHANGED <<ctf, errno, result, seterr>>

\* The lookup at the head of the loop.
Cur == LookupById(ctf, fp, type)

\* ctf_lookup_by_id fails: the loop ends and CTF_ERR is returned, errno
\* having been set by the lookup on the container it chose.
LookupFails ==
  /\ pc = "loop"
  /\ ~Cur.ok
  /\ errno' = SetErrno(errno, Cur.errfp, Cur.err)
  /\ seterr' = Cur.err
  /\ result' = CTF_ERR
  /\ pc' = "done"
  /\ UNCHANGED <<ctf, ofp, otype, fp, type, prev>>

\* A non-alias kind: the default case returns the current ID.
BaseReached ==
  /\ pc = "loop"
  /\ Cur.ok
  /\ TypeKind(ctf, Cur.fp, Cur.idx) \notin AliasKinds
  /\ fp' = Cur.fp
  /\ result' = type
  /\ seterr' = NoError
  /\ pc' = "done"
  /\ UNCHANGED <<ctf, errno, ofp, otype, type, prev>>

\* Variant of the check that forgets the previous node.
SeenBeforeNoPrev(r) == r \in {type, otype}

\* The three-point cycle check: the next edge targets the current node,
\* the original node or the previous node.
SeenBefore(r) == r \in {type, otype, prev}

\* The check fires: ECTF_CORRUPT is set on the caller's container.
CycleDetected ==
  /\ pc = "loop"
  /\ Cur.ok
  /\ TypeKind(ctf, Cur.fp, Cur.idx) \in AliasKinds
  /\ SeenBefore(TypeRef(ctf, Cur.fp, Cur.idx))
  /\ errno' = SetErrno(errno, ofp, "ECTF_CORRUPT")
  /\ seterr' = "ECTF_CORRUPT"
  /\ result' = CTF_ERR
  /\ fp' = Cur.fp
  /\ pc' = "done"
  /\ UNCHANGED <<ctf, ofp, otype, type, prev>>

\* Follow the alias edge: prev = type; type = ctt_type.
Advance ==
  /\ pc = "loop"
  /\ Cur.ok
  /\ TypeKind(ctf, Cur.fp, Cur.idx) \in AliasKinds
  /\ ~SeenBefore(TypeRef(ctf, Cur.fp, Cur.idx))
  /\ prev' = type
  /\ type' = TypeRef(ctf, Cur.fp, Cur.idx)
  /\ fp' = Cur.fp
  /\ UNCHANGED <<ctf, errno, pc, ofp, otype, result, seterr>>

\* The caller takes the result and may call again.
Consume ==
  /\ pc = "done"
  /\ pc' = "idle"
  /\ UNCHANGED <<ctf, errno, ofp, otype, fp, type, prev, result, seterr>>

Step == LookupFails \/ BaseReached \/ CycleDetected \/ Advance

Next ==
  \/ \E c \in Containers : \E t \in CallerIds(c) : Call(c, t)
  \/ Step
  \/ Consume

\* The loop runs on the caller's thread, never blocks and nothing preempts
\* it for good: every enabled iteration eventually happens.
Spec == Init /\ [][Next]_vars /\ WF_vars(Step)

-----------------------------------------------------------------------------
Contract == INSTANCE CTFResolveContract WITH
  apc     <- IF pc = "loop" THEN "busy" ELSE pc,
  acall   <- <<ofp, otype>>,
  aresult <- result,
  aerr    <- seterr

ResolveTypeOK ==
  /\ ctf \in LoadedPairs
  /\ errno \in [Containers -> {NoError} \cup Errors]
  /\ pc \in {"idle", "loop", "done"}
  /\ {ofp, fp} \subseteq Containers
  /\ {otype, type, prev} \subseteq TypeIds
  /\ result \in TypeIds \cup {CTF_ERR}
  /\ seterr \in {NoError} \cup Errors

(* Refinement: every call of the loop, seen from the caller, is a call of  *)
(* the contract: a call that returns gives the first non-alias ID of the   *)
(* alias chain, or CTF_ERR with the error the chain's end calls for       *)
(* (BadId or NoParent at an ID that is no type, Corrupt at a cycle).  This *)
(* covers ctf_type_resolve's container switching through ctf_lookup_by_id *)
(* and its three-point cycle check never firing on an acyclic chain.       *)
ImplementsContract == Contract!ASpec

(* Liveness: a call whose alias chain is acyclic, or whose cycle passes    *)
(* through the caller's own node or has length 1 or 2, returns: the       *)
(* three-point check of ctf_type_resolve catches every such cycle.         *)
DetectableCallsReturn ==
  (pc = "loop" /\ Contract!Detectable(ofp, otype)) ~> (pc = "done")

(* Liveness, as spec section 4.3 states the contract ("fail with Corrupt   *)
(* rather than loop"): every call of ctf_type_resolve returns.             *)
ResolveReturns == (pc = "loop") ~> (pc = "done")

(* A failed call reports its error on the container the caller passed, the *)
(* one the caller reads ctf_errno() from ("errno is set for us").          *)
ErrorReportedToCaller ==
  (pc = "done" /\ result = CTF_ERR) => errno[ofp] = seterr

=============================================================================
