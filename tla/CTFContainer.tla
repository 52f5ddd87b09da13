---------------------------- MODULE CTFContainer ----------------------------
(***************************************************************************)
(* Container & Addressing of libctf (src/lib/libctf/common/ctf_lookup.c,   *)
(* ctf_types.c).  A loaded CTF container is immutable: it is modelled as a *)
(* record, and the operations of this layer are operators over it.         *)
(*                                                                         *)
(* A type ID is an integer whose distinguished high bit (ChildBit, 0x8000  *)
(* or 0x80000000 in the code, scaled down here) says whether the ID names a *)
(* type of the child container or of its parent.  Index 0 is never a type *)
(* (it stands for void).  A child container may have a parent attached;    *)
(* the parent never refers back into the child.                            *)
(***************************************************************************)
EXTENDS Integers, Sequences

CONSTANTS
  ChildBit,     \* the child/parent flag bit of a type ID
  ParentMax,    \* number of types of the parent container (its ctf_typemax)
  ChildMax      \* number of types of the child container

ASSUME ChildBit \in Nat \ {0} /\ ParentMax < ChildBit /\ ChildMax < ChildBit

\* The two containers a split (parent/child) debug-info pair consists of.
Parent == "parent"
Child  == "child"
Containers == {Parent, Child}
NoContainer == "none"           \* a NULL ctf_parent

\* Every value a type ID field can hold.
TypeIds == 0 .. (2 * ChildBit - 1)

\* CTF_ERR: the return value of a failed call.
CTF_ERR == -1

\* The type kinds of ctf.h (CTF_K_*).
AliasKinds == {"typedef", "volatile", "const", "restrict"}
Kinds == {"integer", "float", "pointer", "array", "function", "struct",
          "union", "enum", "forward", "ptrauth"} \cup AliasKinds

\* The errno values the lookup layer sets.
Errors == {"ECTF_BADID", "ECTF_NOPARENT", "ECTF_CORRUPT"}
NoError == "none"     \* ctf_errno() of a container no call has failed on

(***************************************************************************)
(* ID encoding (macros of ctf_impl.h): a parent-scoped ID has the flag bit *)
(* clear; the index of an ID is the ID with that bit masked off.           *)
(***************************************************************************)
LCTF_TYPE_ISPARENT(id) == id < ChildBit

LCTF_TYPE_TO_INDEX(id) == id % ChildBit

LCTF_INDEX_TO_TYPE(idx, child) == IF child THEN idx + ChildBit ELSE idx

\* The container record: its LCTF_CHILD flag, its ctf_parent, its
\* ctf_typemax and, per index, the decoded kind and ctt_type of the type.
ContainerRec(child, parent, max, recs) ==
  [child |-> child, parent |-> parent, typemax |-> max, types |-> recs]

\* LCTF_INFO_KIND(fp, get_type_ctt_info(fp, tp)) and get_type_ctt_type(fp, tp).
TypeKind(ctf, fp, idx) == ctf[fp].types[idx].kind
TypeRef(ctf, fp, idx)  == ctf[fp].types[idx].type

(***************************************************************************)
(* ctf_lookup_by_id(&fp, type): the only way to dereference a type ID.  A  *)
(* parent-scoped ID asked of a child moves to the parent (NoParent when    *)
(* none is attached); the index must lie in 1..typemax of the container    *)
(* reached.  On success the record carries the ending container and the   *)
(* index; on failure, the error and the container whose errno the code     *)
(* sets: *fpp for NoParent, but the container reached (possibly the       *)
(* parent) for BadId.                                                      *)
(***************************************************************************)
LookupById(ctf, fp, type) ==
  LET toParent == ctf[fp].child /\ LCTF_TYPE_ISPARENT(type)
      target   == IF toParent THEN ctf[fp].parent ELSE fp
      idx      == LCTF_TYPE_TO_INDEX(type)
  IN  IF toParent /\ target = NoContainer
        THEN [ok |-> FALSE, err |-> "ECTF_NOPARENT", errfp |-> fp]
      ELSE IF idx > 0 /\ idx <= ctf[target].typemax
        THEN [ok |-> TRUE, fp |-> target, idx |-> idx]
      ELSE [ok |-> FALSE, err |-> "ECTF_BADID", errfp |-> target]

\* ctf_set_errno(fp, err): record the error on fp (the call then returns
\* CTF_ERR).
SetErrno(errno, fp, err) == [errno EXCEPT ![fp] = err]

=============================================================================
