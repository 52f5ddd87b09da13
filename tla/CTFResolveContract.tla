------------------------- MODULE CTFResolveContract -------------------------
(***************************************************************************)
(* What ctf_type_resolve promises its callers (spec section 4.3), stated   *)
(* without its loop: a call on (container, ID) returns, in one step, the   *)
(* ID of the first non-alias type on the alias chain, or CTF_ERR with      *)
(* BadId/NoParent when the chain reaches an ID that does not name a type,  *)
(* or CTF_ERR with Corrupt when the chain runs into a cycle.  The contract *)
(* is a safety property: it does not promise that a call returns.          *)
(***************************************************************************)
EXTENDS CTFContainer

VARIABLES
  ctf,      \* the loaded containers
  apc,      \* "idle", "busy" or "done"
  acall,    \* the caller's <<container, type ID>>
  aresult,  \* the ID returned, or CTF_ERR
  aerr      \* the error reported with CTF_ERR (NoError when none)

avars == <<ctf, apc, acall, aresult, aerr>>

(***************************************************************************)
(* The alias chain from ID t asked of container f: the nodes               *)
(* <<container, index>> it visits in order, and how it ends: at a base    *)
(* type (with the ID that named it), at an ID that is no type, or back at *)
(* a node already visited.                                                 *)
(***************************************************************************)
RECURSIVE Walk(_, _, _)
Walk(f, t, seen) ==
  LET l == LookupById(ctf, f, t) IN
  IF ~l.ok THEN [end |-> "error", err |-> l.err, nodes |-> seen]
  ELSE
    LET n == <<l.fp, l.idx>> IN
    IF \E i \in 1 .. Len(seen) : seen[i] = n
      THEN [end |-> "cycle", nodes |-> Append(seen, n)]
    ELSE IF TypeKind(ctf, l.fp, l.idx) \notin AliasKinds
      THEN [end |-> "base", id |-> t, nodes |-> Append(seen, n)]
    ELSE Walk(l.fp, TypeRef(ctf, l.fp, l.idx), Append(seen, n))

Chain(f, t) == Walk(f, t, <<>>)

\* The answer a call on (f, t) may return.
Promised(f, t) ==
  LET w == Chain(f, t) IN
  CASE w.end = "base"  -> [result |-> w.id, err |-> NoError]
    [] w.end = "error" -> [result |-> CTF_ERR, err |-> w.err]
    [] w.end = "cycle" -> [result |-> CTF_ERR, err |-> "ECTF_CORRUPT"]

\* The position at which a cyclic chain closes: its last node repeats the
\* node at this position.
CycleEntry(w) ==
  CHOOSE i \in 1 .. Len(w.nodes) - 1 : w.nodes[i] = w.nodes[Len(w.nodes)]

\* The cycles the three-point check of ctf_type_resolve is meant to catch:
\* those through the caller's own node, and those of length 1 or 2.
Detectable(f, t) ==
  LET w == Chain(f, t) IN
  w.end = "cycle" =>
    \/ CycleEntry(w) = 1
    \/ Len(w.nodes) - CycleEntry(w) <= 2

-----------------------------------------------------------------------------
AInit ==
  /\ apc = "idle"
  /\ acall = <<Child, 0>>
  /\ aresult = 0
  /\ aerr = NoError

ACall(c, t) ==
  /\ apc = "idle"
  /\ apc' = "busy"
  /\ acall' = <<c, t>>
  /\ UNCHANGED <<ctf, aresult, aerr>>

AReturn ==
  /\ apc = "busy"
  /\ apc' = "done"
  /\ aresult' = Promised(acall[1], acall[2]).result
  /\ aerr' = Promised(acall[1], acall[2]).err
  /\ UNCHANGED <<ctf, acall>>

AConsume ==
  /\ apc = "done"
  /\ apc' = "idle"
  /\ UNCHANGED <<ctf, acall, aresult, aerr>>

ANext ==
  \/ \E c \in Containers : \E t \in TypeIds : ACall(c, t)
  \/ AReturn
  \/ AConsume

\* The containers are immutable: no step changes them.
ASpec == AInit /\ [][ANext /\ ctf' = ctf]_avars

=============================================================================
