------------------------------- MODULE CTFRead -------------------------------
(***************************************************************************)
(* The read-only API of libctf that is not part of CTFQuery's relation,   *)
(* on one loaded container pair: the iterators, visit, the enum lookups   *)
(* and ptrauth (CTFIter), ctf_type_name (CTFDecl) and ctf_lookup_by_name  *)
(* (CTFLookupName).  Every call dereferences IDs through the same         *)
(* ctf_lookup_by_id and leaves its error on the same per-container        *)
(* ctf_errno, so a run over all of them checks that the answers of one    *)
(* agree with those of another on the same containers.                    *)
(***************************************************************************)
EXTENDS CTFDecl, CTFLookupName

ReadNext == DeclNext \/ NameNext

ReadSpec == Init /\ [][ReadNext]_vars

\* Buckets as ctf_type_lname expects them: cd_qualp a qualifiable class,
\* every order a class or unset.
DeclShapeOK(cd) ==
  /\ cd.qualp \in {CTF_PREC_BASE, CTF_PREC_POINTER}
  /\ cd.order \in [Precs -> CTF_PREC_BASE - 1 .. CTF_PREC_MAX - 1]

(* Type invariant.  Each call leaves an error of its own on ctf_errno; an *)
(* iterator answers 0, the callback's abort value or CTF_ERR; the buckets *)
(* ctf_decl_push builds are shaped as ctf_type_lname reads them; and a    *)
(* successful ctf_lookup_by_name never answers 0 (spec section 4.2 makes  *)
(* a zero-valued result a Syntax error).                                   *)
ReadTypeOK ==
  /\ DOMAIN ctf = Containers
  /\ errno \in [Containers -> {NoError} \cup IterErrors \cup {"ECTF_NAMELEN", "ECTF_SYNTAX"}]
  /\ ncalls \in 0 .. MaxCalls
  /\ last.op \in IterOps => last.val.rc \in {0, Abort, CTF_ERR}
  /\ last.op = "name" => DeclShapeOK(DeclPush(last.args[1], last.args[2], EmptyDecl))
  /\ last.op = "lookup_by_name" =>
       IF last.ok THEN last.val \in TypeIds \ {0} ELSE last.val = CTF_ERR

=============================================================================
