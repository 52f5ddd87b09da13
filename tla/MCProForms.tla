----------------------------- MODULE MCProForms -----------------------------
(***************************************************************************)
(* Bounds for ProForms.  Bytes of 4 bits: UCHAR_MAX 15, USHRT_MAX 255,     *)
(* UINT_MAX 65535.  Two producers: a 32-bit target and a 64-bit target     *)
(* with 32-bit DWARF offsets, so pointer size and offset size differ.      *)
(* Constants sit on both sides of every bound of the form ladders; one     *)
(* address fits only the 64-bit target.  Each producer has location        *)
(* expressions as pro_expr.c builds them: empty, DW_OP_fbreg, DW_OP_addr   *)
(* of a symbol, and DW_OP_addr of a symbol after DW_OP_fbreg; every        *)
(* expression is offered to both producers.  Opcodes are abstracted to     *)
(* small byte values.                                                      *)
(***************************************************************************)
EXTENDS ProForms

MCDbgs ==
  {[ptr |-> 4, off |-> 4, ref_form |-> "ref4", ptr_reloc |-> "R_32"],
   [ptr |-> 8, off |-> 4, ref_form |-> "ref4", ptr_reloc |-> "R_64"]}

DW_OP_addr == 3
DW_OP_fbreg == 9
Sym == 7

AddrOperand(g) == [i \in 1 .. g.ptr |-> AddrByte]

MCExprs ==
  UNION { { [dbg |-> g, stream |-> <<>>, sym |-> 0, off |-> 0],
            [dbg |-> g, stream |-> <<DW_OP_fbreg, 5>>, sym |-> 0, off |-> 0],
            [dbg |-> g, stream |-> <<DW_OP_addr>> \o AddrOperand(g),
             sym |-> Sym, off |-> 1],
            [dbg |-> g, stream |-> <<DW_OP_fbreg, 5, DW_OP_addr>> \o AddrOperand(g),
             sym |-> Sym, off |-> 3] } : g \in MCDbgs }

MCUnsigneds == {UCHAR_MAX, UCHAR_MAX + 1, USHRT_MAX + 1, UINT_MAX, UINT_MAX + 1}
MCSigneds   == {SCHAR_MIN, SCHAR_MIN - 1, SCHAR_MAX + 1, SHRT_MIN - 1,
                INT_MAX, INT_MIN - 1}
MCAddrs     == {0, UINT_MAX, UINT_MAX + 1}
MCStrings   == {<<>>, <<1, 2>>}

=============================================================================
