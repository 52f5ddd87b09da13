------------------------------ MODULE ProForms ------------------------------
(***************************************************************************)
(* The attribute constructors of the libdwarf producer                     *)
(* (src/libdwarf/pro_forms.c): each dwarf_add_AT_* call validates its      *)
(* handles and the attribute, picks a form, allocates a Dwarf_P_Attribute   *)
(* and its data, encodes the value into the data and appends the attribute *)
(* to the owner DIE.  A call is synchronous and one step here.              *)
(*                                                                         *)
(* State: the attribute list of every DIE, the error the caller's         *)
(* Dwarf_Error last received, the value the last call returned, and       *)
(* whether the process faulted.  The early returns of a call are an        *)
(* ordered sequence of checks; the first that fails names the error.       *)
(* Every _dwarf_p_get_alloc may fail: `plan` names the allocation of the   *)
(* call that returns NULL (0: none).                                       *)
(*                                                                         *)
(* Bytes.  A target byte has ByteBits bits (8 on a real target; fewer      *)
(* here so that the 8-byte words of Dwarf_Unsigned and Dwarf_Signed fit    *)
(* TLC's integers).  Every width stays in bytes: the form ladder compares  *)
(* with UCHAR_MAX, USHRT_MAX and UINT_MAX of a 1-, 2- and 4-byte integer,  *)
(* the data hold 1, 2, 4 or 8 bytes and a LEB128 group is a byte less its  *)
(* continuation bit.                                                       *)
(***************************************************************************)
EXTENDS Integers, Sequences, FiniteSets
LOCAL INSTANCE SequencesExt

CONSTANTS
  ByteBits,      \* bits of a target byte
  NULL,          \* a NULL pointer argument
  Dbgs,          \* producer handles: [ptr, off, ref_form, ptr_reloc]
  Dies,          \* the DIEs a caller owns
  AttrInputs,    \* the DW_AT_* values callers pass
  Unsigneds,     \* Dwarf_Unsigned arguments
  Signeds,       \* Dwarf_Signed arguments
  Addrs,         \* pc_value arguments (each fits its target's pointer)
  SymIdxs,       \* ELF symbol indexes, NO_ELF_SYM_INDEX included
  Exprs,         \* location expressions built by pro_expr.c
  AddrByte,      \* a byte of an expression's DW_OP_addr operand
  Strings,       \* C strings, as sequences of non-NUL characters
  Flags,         \* Dwarf_Small flag arguments
  EncodeSpace,   \* ENCODE_SPACE_NEEDED, the LEB128 buffer in bytes
  AllocPlans,    \* which allocation of a call fails (0: none)
  MaxCalls       \* the calls one behaviour makes

ASSUME ByteBits \in 2 .. 4 /\ SymIdxs \subseteq Nat /\ MaxCalls \in Nat

Base == 2 ^ ByteBits                \* values of a byte
UCHAR_MAX == Base - 1
USHRT_MAX == Base ^ 2 - 1
UINT_MAX  == Base ^ 4 - 1
SCHAR_MIN == -(Base \div 2)
SCHAR_MAX == Base \div 2 - 1
SHRT_MIN  == -(Base ^ 2 \div 2)
SHRT_MAX  == Base ^ 2 \div 2 - 1
INT_MIN   == -(Base ^ 4 \div 2)
INT_MAX   == Base ^ 4 \div 2 - 1

NO_ELF_SYM_INDEX == 0
R_MIPS_NONE == "R_MIPS_NONE"
BADADDR == <<>>                     \* DW_DLV_BADADDR: no attribute
NUL == 0                            \* the terminating byte of a C string

\* WRITE_UNALIGNED(dbg, dest, &v, sizeof(v), n) (pro_incl.h): the n
\* low-order bytes of the 8-byte two's complement word of v, in target
\* order (little-endian here).  Floor division and a non-negative modulus
\* give the two's complement digits of a negative v without forming 2^64.
WRITE_UNALIGNED(v, n) == [i \in 1 .. n |-> (v \div Base ^ (i - 1)) % Base]

\* _dwarf_pro_encode_leb128_nm: low group first, the top bit of a byte
\* set while more groups follow.  A group is ByteBits - 1 bits.
Group == Base \div 2
RECURSIVE ULeb(_)
ULeb(v) ==
  IF v \div Group = 0 THEN <<v % Group>>
  ELSE <<(v % Group) + Group>> \o ULeb(v \div Group)

\* _dwarf_pro_encode_signed_leb128_nm: arithmetic shift; stop once the
\* rest is all sign bits and the group's top bit agrees with it.
RECURSIVE SLeb(_)
SLeb(v) ==
  LET g == v % Group
      r == v \div Group
      signbit == g >= Group \div 2
  IN  IF (r = 0 /\ ~signbit) \/ (r = -1 /\ signbit) THEN <<g>>
      ELSE <<g + Group>> \o SLeb(r)

(***************************************************************************)
(* Attribute lists of the DWARF standard, by the class of their value;     *)
(* the sets each constructor's switch accepts.                             *)
(***************************************************************************)
TargAddressAttrs ==
  {"low_pc", "high_pc", "MIPS_loop_begin", "MIPS_tail_loop_begin",
   "MIPS_epilog_begin"}
UnsignedConstAttrs ==
  {"ordering", "byte_size", "bit_offset", "bit_size", "inline", "language",
   "visibility", "virtuality", "accessibility", "address_class",
   "calling_convention", "encoding", "identifier_case",
   "MIPS_loop_unroll_factor", "MIPS_software_pipeline_depth",
   "decl_column", "decl_file", "decl_line", "const_value", "start_scope",
   "stride_size", "count"}
\* Variant that also accepts DW_AT_type, a reference attribute.
SignedConstAttrsWithType == {"upper_bound", "lower_bound", "type"}
SignedConstAttrs == {"upper_bound", "lower_bound"}
LocationExprAttrs ==
  {"location", "string_length", "const_value", "use_location", "return_addr",
   "data_member_location", "frame_base", "static_link",
   "vtable_elem_location"}
ReferenceAttrs ==
  {"specification", "discr", "common_reference", "import", "containing_type",
   "default_value", "abstract_origin", "friend", "priority", "type",
   "lower_bound", "upper_bound", "count", "sibling", "MIPS_stride",
   "MIPS_stride_byte", "MIPS_stride_elem", "MIPS_clone_origin",
   "MIPS_ptr_dopetype", "MIPS_allocatable_dopetype",
   "MIPS_assumed_shape_dopetype"}
FlagAttrs ==
  {"is_optional", "artificial", "declaration", "external", "prototyped",
   "variable_parameter", "MIPS_has_inlines", "MIPS_assumed_size"}
StringAttrs ==
  {"name", "comp_dir", "const_value", "producer", "MIPS_linkage_name",
   "MIPS_abstract_name"}

VARIABLES
  dies,      \* dies[d]: the attribute list of DIE d, in ar_next order
  err,       \* the DW_DLE_* code the caller's Dwarf_Error last received
  last,      \* the last call: [op, dbg, ret], ret <<attribute>> or BADADDR
  crashed,   \* the process took a fault
  ncalls

vars == <<dies, err, last, crashed, ncalls>>

(***************************************************************************)
(* A Dwarf_P_Attribute.  Fields the constructor never sets keep the zero   *)
(* of _dwarf_p_get_alloc's cleared memory.  `val` is the caller's value,   *)
(* kept beside the record so that properties can compare with it.          *)
(***************************************************************************)
Attr(at, form, nbytes, data, rtype, symidx, roff, rlen, ref, val) ==
  [attr |-> at, form |-> form, nbytes |-> nbytes, data |-> data,
   rel_type |-> rtype, rel_symidx |-> symidx, rel_offset |-> roff,
   reloc_len |-> rlen, ref_die |-> ref, val |-> val]

\* An early return of a call: taken when `bad` holds, reporting `code`.
Check(bad, code) == [bad |-> bad, code |-> code]
Alloc(plan, k) == Check(plan = k, "DW_DLE_ALLOC_FAIL")

\* The code of the first early return taken, "none" when the call succeeds.
FirstFailure(checks) ==
  LET bad == {i \in 1 .. Len(checks) : checks[i].bad}
  IN  IF bad = {} THEN "none" ELSE checks[Min(bad)].code

\* _dwarf_pro_add_at_to_die: link attr at the end of the die's list.
AddAtToDie(die, a) == dies' = [dies EXCEPT ![die] = Append(@, a)]

\* A call that returns the attribute a unless one of its checks fails;
\* _dwarf_p_error stores the code in the caller's Dwarf_Error.
Call(op, dbg, die, checks, a) ==
  LET f == FirstFailure(checks) IN
  /\ ~crashed
  /\ ncalls < MaxCalls
  /\ ncalls' = ncalls + 1
  /\ UNCHANGED crashed
  /\ IF f = "none"
       THEN AddAtToDie(die, a) /\ UNCHANGED err
            /\ last' = [op |-> op, dbg |-> dbg, ret |-> <<a>>]
       ELSE err' = f /\ UNCHANGED dies
            /\ last' = [op |-> op, dbg |-> dbg, ret |-> BADADDR]


HandleChecks(dbg, die) ==
  <<Check(dbg = NULL, "DW_DLE_DBG_NULL"), Check(die = NULL, "DW_DLE_DIE_NULL")>>
AttrCheck(at, accepted) == Check(at \notin accepted, "DW_DLE_INPUT_ATTR_BAD")

\* The data form and size of a constant, the smallest of the ladder.
UnsignedForm(v) ==
  CASE v <= UCHAR_MAX -> [form |-> "data1", size |-> 1]
    [] v <= USHRT_MAX -> [form |-> "data2", size |-> 2]
    [] v <= UINT_MAX  -> [form |-> "data4", size |-> 4]
    [] OTHER          -> [form |-> "data8", size |-> 8]
\* Variant that tests only the upper bound of each signed range.
SignedFormUpperOnly(v) ==
  CASE v <= SCHAR_MAX -> [form |-> "data1", size |-> 1]
    [] v <= SHRT_MAX  -> [form |-> "data2", size |-> 2]
    [] v <= INT_MAX   -> [form |-> "data4", size |-> 4]
    [] OTHER          -> [form |-> "data8", size |-> 8]
SignedForm(v) ==
  CASE v >= SCHAR_MIN /\ v <= SCHAR_MAX -> [form |-> "data1", size |-> 1]
    [] v >= SHRT_MIN /\ v <= SHRT_MAX   -> [form |-> "data2", size |-> 2]
    [] v >= INT_MIN /\ v <= INT_MAX     -> [form |-> "data4", size |-> 4]
    [] OTHER                            -> [form |-> "data8", size |-> 8]

\* The block form of a location expression and its length field; the
\* last is DW_FORM_block with a ULEB128 length.
BlockForm(n) ==
  CASE n <= UCHAR_MAX -> [form |-> "block1", len |-> WRITE_UNALIGNED(n, 1)]
    [] n <= USHRT_MAX -> [form |-> "block2", len |-> WRITE_UNALIGNED(n, 2)]
    [] n <= UINT_MAX  -> [form |-> "block4", len |-> WRITE_UNALIGNED(n, 4)]
    [] OTHER          -> [form |-> "block", len |-> ULeb(n)]

RelType(dbg, sym) == IF sym # NO_ELF_SYM_INDEX THEN dbg.ptr_reloc ELSE R_MIPS_NONE

LocRelOffset(e, lensize) == e.off + lensize

-----------------------------------------------------------------------------
(* The constructors.  A NULL dbg is read at line 91 of                    *)
(* dwarf_add_AT_targ_address_b before it is checked: the load faults.     *)
dwarf_add_AT_targ_address_b(dbg, die, at, pc, sym, plan) ==
  IF dbg = NULL
    THEN /\ ~crashed /\ ncalls < MaxCalls
         /\ crashed' = TRUE /\ ncalls' = ncalls + 1
         /\ last' = [op |-> "targ_address", dbg |-> dbg, ret |-> BADADDR]
         /\ UNCHANGED <<dies, err>>
    ELSE Call("targ_address", dbg, die,
              HandleChecks(dbg, die) \o
                <<AttrCheck(at, TargAddressAttrs), Alloc(plan, 1), Alloc(plan, 2)>>,
              Attr(at, "addr", dbg.ptr, WRITE_UNALIGNED(pc, dbg.ptr),
                   RelType(dbg, sym), sym, 0, dbg.ptr, NULL, pc))

\* The old interface: (Dwarf_Unsigned) of a non-negative Dwarf_Signed.
dwarf_add_AT_targ_address(dbg, die, at, pc, sym, plan) ==
  dwarf_add_AT_targ_address_b(dbg, die, at, pc, sym, plan)

dwarf_add_AT_unsigned_const(dbg, die, at, v, plan) ==
  LET f == UnsignedForm(v) IN
  Call("unsigned_const", dbg, die,
       HandleChecks(dbg, die) \o
         <<AttrCheck(at, UnsignedConstAttrs), Alloc(plan, 1), Alloc(plan, 2)>>,
       Attr(at, f.form, f.size, WRITE_UNALIGNED(v, f.size),
            R_MIPS_NONE, 0, 0, 0, NULL, v))

dwarf_add_AT_signed_const(dbg, die, at, v, plan) ==
  LET f == SignedForm(v) IN
  Call("signed_const", dbg, die,
       HandleChecks(dbg, die) \o
         <<AttrCheck(at, SignedConstAttrs), Alloc(plan, 1), Alloc(plan, 2)>>,
       Attr(at, f.form, f.size, WRITE_UNALIGNED(v, f.size),
            R_MIPS_NONE, 0, 0, 0, NULL, v))

\* The block is the length field followed by the expression's bytes; the
\* relocation of the expression's address operand moves past the field.
dwarf_add_AT_location_expr(dbg, die, at, e, plan) ==
  LET n == Len(e.stream)
      b == BlockForm(n)
  IN  Call("location_expr", dbg, die,
           HandleChecks(dbg, die) \o
             <<Check(e = NULL, "DW_DLE_EXPR_NULL"),
               Check(e # NULL /\ e.dbg # dbg, "DW_DLE_LOC_EXPR_BAD"),
               AttrCheck(at, LocationExprAttrs),
               Check(e # NULL /\ Len(b.len) > EncodeSpace, "DW_DLE_ALLOC_FAIL"),
               Alloc(plan, 1), Alloc(plan, 2)>>,
           Attr(at, b.form, n + Len(b.len), b.len \o e.stream,
                RelType(dbg, e.sym), e.sym, LocRelOffset(e, Len(b.len)), dbg.ptr, NULL, e))

\* Variant without the otherdie == NULL check.
dwarf_add_AT_reference_unchecked(dbg, die, at, other, plan) ==
  Call("reference", dbg, die,
       HandleChecks(dbg, die) \o <<AttrCheck(at, ReferenceAttrs), Alloc(plan, 1)>>,
       Attr(at, dbg.ref_form, dbg.off, <<>>, R_MIPS_NONE, 0, 0, dbg.off, other, other))

\* A CU-local reference: no data, the other DIE's offset is written later.
dwarf_add_AT_reference(dbg, die, at, other, plan) ==
  Call("reference", dbg, die,
       HandleChecks(dbg, die) \o
         <<Check(other = NULL, "DW_DLE_DIE_NULL"),
           AttrCheck(at, ReferenceAttrs), Alloc(plan, 1)>>,
       Attr(at, dbg.ref_form, dbg.off, <<>>, R_MIPS_NONE, 0, 0, dbg.off, other, other))

dwarf_add_AT_flag(dbg, die, at, fl, plan) ==
  Call("flag", dbg, die,
       HandleChecks(dbg, die) \o
         <<AttrCheck(at, FlagAttrs), Alloc(plan, 1), Alloc(plan, 2)>>,
       Attr(at, "flag", 1, <<fl>>, R_MIPS_NONE, 0, 0, 0, NULL, fl))

\* The attribute is allocated before the attribute name is checked.
dwarf_add_AT_string(dbg, die, at, s, plan) ==
  Call("string", dbg, die,
       HandleChecks(dbg, die) \o
         <<Alloc(plan, 1), AttrCheck(at, StringAttrs), Alloc(plan, 2)>>,
       Attr(at, "string", Len(s) + 1, s \o <<NUL>>, R_MIPS_NONE, 0, 0, 0, NULL, s))

\* The calls without a dbg: only the DIE is checked.
StringOf(op, at, die, s, plan) ==
  Call(op, "none", die,
       <<Check(die = NULL, "DW_DLE_DIE_NULL"), Alloc(plan, 1), Alloc(plan, 2)>>,
       Attr(at, "string", Len(s) + 1, s \o <<NUL>>, R_MIPS_NONE, 0, 0, 0, NULL, s))

dwarf_add_AT_const_value_string(die, s, plan) ==
  StringOf("const_value_string", "const_value", die, s, plan)

dwarf_add_AT_producer(die, s, plan) == StringOf("producer", "producer", die, s, plan)

\* The LEB128 is encoded after the first allocation and before the second.
LebOf(op, form, die, v, leb, plan) ==
  Call(op, "none", die,
       <<Check(die = NULL, "DW_DLE_DIE_NULL"), Alloc(plan, 1),
         Check(Len(leb) > EncodeSpace, "DW_DLE_ALLOC_FAIL"), Alloc(plan, 2)>>,
       Attr("const_value", form, Len(leb), leb, R_MIPS_NONE, 0, 0, 0, NULL, v))

dwarf_add_AT_const_value_signedint(die, v, plan) ==
  LebOf("const_value_signedint", "sdata", die, v, SLeb(v), plan)

dwarf_add_AT_const_value_unsignedint(die, v, plan) ==
  LebOf("const_value_unsignedint", "udata", die, v, ULeb(v), plan)

-----------------------------------------------------------------------------
\* The pc values a target of dbg has: each fits its pointer.
PcValues(dbg) ==
  IF dbg = NULL THEN Addrs
  ELSE {a \in Addrs : dbg.ptr >= 8 \/ a < Base ^ dbg.ptr}

Init ==
  /\ dies = [d \in Dies |-> <<>>]
  /\ err = "none"
  /\ last = [op |-> "none", dbg |-> "none", ret |-> BADADDR]
  /\ crashed = FALSE
  /\ ncalls = 0

Next ==
  \E die \in Dies \cup {NULL}, plan \in AllocPlans :
    \/ \E s \in Strings :
         dwarf_add_AT_const_value_string(die, s, plan) \/ dwarf_add_AT_producer(die, s, plan)
    \/ \E v \in Signeds : dwarf_add_AT_const_value_signedint(die, v, plan)
    \/ \E v \in Unsigneds : dwarf_add_AT_const_value_unsignedint(die, v, plan)
    \/ \E dbg \in Dbgs \cup {NULL}, at \in AttrInputs :
         \/ \E pc \in PcValues(dbg), sym \in SymIdxs :
              \/ dwarf_add_AT_targ_address(dbg, die, at, pc, sym, plan)
              \/ dwarf_add_AT_targ_address_b(dbg, die, at, pc, sym, plan)
         \/ \E v \in Unsigneds : dwarf_add_AT_unsigned_const(dbg, die, at, v, plan)
         \/ \E v \in Signeds : dwarf_add_AT_signed_const(dbg, die, at, v, plan)
         \/ \E e \in Exprs \cup {NULL} : dwarf_add_AT_location_expr(dbg, die, at, e, plan)
         \/ \E other \in Dies \cup {NULL} : dwarf_add_AT_reference(dbg, die, at, other, plan)
         \/ \E fl \in Flags : dwarf_add_AT_flag(dbg, die, at, fl, plan)
         \/ \E s \in Strings : dwarf_add_AT_string(dbg, die, at, s, plan)

Spec == Init /\ [][Next]_vars


-----------------------------------------------------------------------------
(***************************************************************************)
(* Properties.                                                             *)
(***************************************************************************)
Attributes == UNION {{dies[d][i] : i \in 1 .. Len(dies[d])} : d \in Dies}

(* Type invariant.  Every DIE holds a list of attributes, each with a size *)
(* and data of target bytes, a reference naming a DIE (the section writer  *)
(* reads its di_offset); the error is a DW_DLE code; the last call         *)
(* returned an attribute or BADADDR.                                       *)
ProFormsTypeOK ==
  /\ DOMAIN dies = Dies
  /\ \A a \in Attributes :
       /\ a.nbytes \in Nat /\ a.rel_offset \in Nat /\ a.reloc_len \in Nat
       /\ a.ref_die \in IF a.form \in {"ref4", "ref8"} THEN Dies ELSE {NULL}
  /\ err \in {"none", "DW_DLE_DBG_NULL", "DW_DLE_DIE_NULL", "DW_DLE_EXPR_NULL",
              "DW_DLE_LOC_EXPR_BAD", "DW_DLE_INPUT_ATTR_BAD", "DW_DLE_ALLOC_FAIL"}
  /\ last.ret \in {BADADDR} \cup {<<a>> : a \in Attributes}
  /\ crashed \in BOOLEAN /\ ncalls \in 0 .. MaxCalls

\* A constant's bytes widened to an 8-byte word: zero-extended, or
\* sign-extended for the bounds, which dwarf_add_AT_signed_const writes.
Widen(data, signed) ==
  LET top == data[Len(data)] IN
  data \o [i \in 1 .. 8 - Len(data) |->
             IF signed /\ top >= Base \div 2 THEN Base - 1 ELSE 0]

\* Reference readers of LEB128 (DWARF 2, 7.6): groups from the last byte
\* down, the last byte's group sign-extended for SLEB128; every byte but
\* the last carries the continuation bit.
LebShaped(bs) == \A i \in 1 .. Len(bs) : (bs[i] >= Group) <=> (i < Len(bs))
UDecode(bs) == FoldRight(LAMBDA b, acc : acc * Group + (b % Group), bs, 0)
SDecode(bs) ==
  LET g == Last(bs) % Group IN
  FoldRight(LAMBDA b, acc : acc * Group + (b % Group), Front(bs),
            IF g >= Group \div 2 THEN g - Group ELSE g)

DataForms == {"data1", "data2", "data4", "data8"}
BlockForms == {"block1", "block2", "block4", "block"}

\* What the data of an attribute say, by form.
Denotes(a) ==
  CASE a.form \in DataForms \cup {"addr"} ->
         Widen(a.data, a.attr \in SignedConstAttrs) = WRITE_UNALIGNED(a.val, 8)
    [] a.form = "udata" -> LebShaped(a.data) /\ UDecode(a.data) = a.val
    [] a.form = "sdata" -> LebShaped(a.data) /\ SDecode(a.data) = a.val
    [] a.form \in BlockForms ->
         LET n == Len(a.val.stream)
             k == Len(a.data) - n
         IN  /\ k \in 1 .. 8
             /\ SubSeq(a.data, k + 1, Len(a.data)) = a.val.stream
             /\ (a.form = "block" => UDecode(SubSeq(a.data, 1, k)) = n)
             /\ (a.form # "block" => Widen(SubSeq(a.data, 1, k), FALSE) = WRITE_UNALIGNED(n, 8))
    [] a.form = "string" -> a.data = a.val \o <<NUL>>
    [] a.form = "flag" -> a.data = <<a.val>>
    [] OTHER -> a.data = <<>> /\ a.ref_die = a.val

(* Every attribute a constructor appends is as long as its data            *)
(* (ar_nbytes is what the section writer copies from ar_data) and its data *)
(* read back, by the rules of its form, as the value the caller passed:    *)
(* WRITE_UNALIGNED keeps the low-order bytes, so a data form too narrow for *)
(* the value, an address wider than its target, a LEB128 cut short or a    *)
(* block whose length field disagrees with its expression would read back  *)
(* another value.  A constant also takes the smallest of the data forms    *)
(* whose bytes read back as its value.                                      *)
AttributeBytesDenoteValue ==
  \A a \in Attributes :
    /\ a.form \notin {"ref4", "ref8"} => a.nbytes = Len(a.data)
    /\ Denotes(a)
    /\ a.form \in DataForms =>
         \A n \in {1, 2, 4} :
           n < a.nbytes =>
             Widen(WRITE_UNALIGNED(a.val, n), a.attr \in SignedConstAttrs)
               # WRITE_UNALIGNED(a.val, 8)

\* The bytes of an attribute's data that hold a target address.
OperandBytes(a) ==
  IF a.form = "addr" THEN 1 .. a.nbytes
  ELSE {i \in 1 .. Len(a.data) : a.data[i] = AddrByte}

DwarfClass ==
  [low_pc |-> {"address"}, high_pc |-> {"address"},
   byte_size |-> {"constant"}, decl_line |-> {"constant"},
   count |-> {"constant", "reference"},
   upper_bound |-> {"constant", "reference"},
   lower_bound |-> {"constant", "reference"},
   const_value |-> {"string", "constant", "block"},
   location |-> {"block", "constant"}, frame_base |-> {"block", "constant"},
   type |-> {"reference"}, sibling |-> {"reference"},
   external |-> {"flag"}, declaration |-> {"flag"},
   name |-> {"string"}, producer |-> {"string"}, comp_dir |-> {"string"}]
ClassForms ==
  [address |-> {"addr"}, constant |-> DataForms \cup {"sdata", "udata"},
   block |-> BlockForms, flag |-> {"flag"},
   reference |-> {"ref1", "ref2", "ref4", "ref8", "ref_udata"},
   string |-> {"string", "strp"}]

(* Every attribute a constructor accepts gets a form of a class DWARF     *)
(* allows for that attribute: the switch of each dwarf_add_AT_* must list *)
(* only attributes of the class its form belongs to, or a consumer reads   *)
(* the value with the wrong rule.                                          *)
FormMatchesClass ==
  \A a \in Attributes :
    \E c \in DwarfClass[a.attr] : a.form \in ClassForms[c]

(* A call given a NULL dbg returns DW_DLV_BADADDR and reports              *)
(* DW_DLE_DBG_NULL, as each dwarf_add_AT_* that takes a dbg checks first.  *)
NullDbgReported ==
  last.dbg = NULL => ~crashed /\ last.ret = BADADDR /\ err = "DW_DLE_DBG_NULL"

=============================================================================
