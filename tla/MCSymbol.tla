------------------------------ MODULE MCSymbol ------------------------------
(***************************************************************************)
(* Bounds for CTFSymbol: two symbols, every entry format, every Mach-O    *)
(* binding class, data objects and functions with and without a slot, and *)
(* function records covering no data, void f(void), fixed arguments,       *)
(* varargs with and without fixed arguments, and a record of another kind.*)
(* The buffer is padded with zero words, as many as a record can read past *)
(* the last slot.  One table has no symbol table section.                  *)
(***************************************************************************)
EXTENDS CTFSymbol, TLC

MCVlenLimit == 4

T == 3     \* a type ID

ObjSlots  == {<<0>>, <<T>>}
FuncSlots ==
  { <<Info(CTF_K_UNKNOWN, 0), 0>>,
    <<Info(CTF_K_FUNCTION, 0), 0>>,  <<Info(CTF_K_FUNCTION, 0), T>>,
    <<Info(CTF_K_FUNCTION, 1), T, T>>, <<Info(CTF_K_FUNCTION, 2), T, 0>>,
    <<Info(CTF_K_FUNCTION, 1), T, 0>>, <<Info(CTF_K_INTEGER, 1), T, T>> }

\* A symbol: its class, its type and its slot (<<>> when ctf_sxlate is -1u).
SymChoices(fmt) ==
  UNION { { [class |-> c, type |-> y, slot |-> s] :
              c \in (IF fmt \in MachO THEN Classes ELSE {"local"}),
              s \in (IF y = "object" THEN ObjSlots ELSE FuncSlots) \cup {<<>>} } :
          y \in {"object", "func"} }

Pad == [k \in 1 .. MCVlenLimit + 1 |-> 0]

Xlate(off, s) == IF s = <<>> THEN NoXlate ELSE off

MkTab(fmt, a, b) ==
  [symtab  |-> TRUE, entsize |-> fmt, nsyms |-> 2,
   syms    |-> (0 :> [class |-> a.class, type |-> a.type]) @@
               (1 :> [class |-> b.class, type |-> b.type]),
   sxlate  |-> (0 :> Xlate(0, a.slot)) @@ (1 :> Xlate(Len(a.slot), b.slot)),
   buf     |-> a.slot \o b.slot \o Pad]

NoSymtab ==
  [symtab |-> FALSE, entsize |-> "elf64", nsyms |-> 0, syms |-> <<>>,
   sxlate |-> <<>>, buf |-> Pad]

MCTables ==
  {NoSymtab} \cup
  UNION { {MkTab(fmt, a, b) : a \in SymChoices(fmt), b \in SymChoices(fmt)} :
          fmt \in MachO \cup Elf }

=============================================================================
