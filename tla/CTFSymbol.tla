------------------------------ MODULE CTFSymbol ------------------------------
(***************************************************************************)
(* Symbol Bridge (src/lib/libctf/common/ctf_lookup.c):                     *)
(* ctf_lookup_by_symbol, ctf_func_info and ctf_func_args.                  *)
(*                                                                         *)
(* A container's symbol side is its symbol table (the entry format, then   *)
(* per symbol its binding class and its type), ctf_sxlate (per symbol the *)
(* word offset of its data in the buffer, or NoXlate for -1u) and the      *)
(* buffer of words those offsets index.  A data object's slot holds its    *)
(* type ID; a function's slot holds the info word, the return type and    *)
(* the argument types, a trailing 0 marking varargs.  The build is        *)
(* Apple's: the symbol-type check of ctf_func_info is compiled out.        *)
(***************************************************************************)
EXTENDS Integers, Sequences, FiniteSets

CONSTANTS
  VlenLimit,    \* the info word's vlen field ranges over 0 .. VlenLimit - 1
  Tables,       \* the symbol sides a run starts from
  SymIdxs,      \* the symbol indices a caller passes
  Argcs,        \* the argc values a caller passes to ctf_func_args
  MaxCalls      \* the calls one behaviour makes

ASSUME VlenLimit \in Nat \ {0} /\ MaxCalls \in Nat

NoXlate == -1                    \* ctf_sxlate[i] == -1u

CTF_K_UNKNOWN  == 0
CTF_K_INTEGER  == 1
CTF_K_FUNCTION == 5

\* The Mach-O entry formats (struct nlist, struct nlist_64) and the ELF
\* ones (Elf32_Sym, Elf64_Sym), told apart by cts_entsize.
MachO == {"nlist", "nlist_64"}
Elf   == {"elf32", "elf64"}

\* n_type & (N_TYPE | N_EXT) of a Mach-O entry: N_ABS|N_EXT, N_SECT|N_EXT,
\* N_UNDF|N_EXT with n_sect NO_SECT, or anything else (a local symbol).
Classes == {"abs_ext", "sect_ext", "undf_ext", "local"}

\* LCTF_INFO_KIND and LCTF_INFO_VLEN of an info word.
InfoKind(info) == info \div VlenLimit
InfoVlen(info) == info % VlenLimit
Info(kind, vlen) == kind * VlenLimit + vlen

CTF_FUNC_VARARG == "vararg"

VARIABLES
  tab,      \* the container's symbol side (never changed)
  errno,    \* its ctf_errno
  last,     \* the last call: its operation, arguments and answer
  ncalls    \* the calls made so far

vars == <<tab, errno, last, ncalls>>

NoError == "none"

Ok(v) == [ok |-> TRUE, val |-> v, err |-> NoError]
Err(e) == [ok |-> FALSE, val |-> -1, err |-> e]

\* The word at offset k of the slot of symbol i (dp[k] from ctf_sxlate[i]).
Word(t, i, k) == t.buf[t.sxlate[i] + k + 1]

\* The symbol-type check of ctf_lookup_by_symbol: for a Mach-O entry only
\* external and common symbols are checked (n_desc against STT_OBJECT).
IsCheckedData(t, i) ==
  IF t.entsize \in MachO
    THEN t.syms[i].class # "local" => t.syms[i].type = "object"
    ELSE t.syms[i].type = "object"

\* ctf_lookup_by_symbol.
LookupBySymbol(t, i) ==
  CASE ~t.symtab                 -> Err("ECTF_NOSYMTAB")
    [] i >= t.nsyms              -> Err("EINVAL")
    [] ~IsCheckedData(t, i)      -> Err("ECTF_NOTDATA")
    [] t.sxlate[i] = NoXlate     -> Err("ECTF_NOTYPEDAT")
    [] Word(t, i, 0) = 0         -> Err("ECTF_NOTYPEDAT")
    [] OTHER                     -> Ok(Word(t, i, 0))

\* Variant of the varargs test without the n != 0 guard (dp[-1] is then
\* the return type word).
IsVarargUnguarded(t, i, n) == Word(t, i, 1 + n) = 0

\* n != 0 && dp[n - 1] == 0, dp pointing past the info and return words.
IsVararg(t, i, n) == n # 0 /\ Word(t, i, 1 + n) = 0

\* Variant that counts the varargs marker as an argument.
ArgCountAll(t, i, n) == n

\* fip->ctc_argc: n, less the varargs marker.
ArgCount(t, i, n) == IF IsVararg(t, i, n) THEN n - 1 ELSE n

\* ctf_func_info: [return, argc, flags].
FuncInfo(t, i) ==
  LET info == Word(t, i, 0) % 65536     \* uint16_t info
      kind == InfoKind(info)
      n    == InfoVlen(info)
  IN
  CASE ~t.symtab                 -> Err("ECTF_NOSYMTAB")
    [] i >= t.nsyms              -> Err("EINVAL")
    [] t.sxlate[i] = NoXlate     -> Err("ECTF_NOFUNCDAT")
    [] kind = CTF_K_UNKNOWN /\ n = 0 -> Err("ECTF_NOFUNCDAT")
    [] kind # CTF_K_FUNCTION     -> Err("ECTF_CORRUPT")
    [] OTHER ->
         Ok([return |-> Word(t, i, 1),
             argc   |-> ArgCount(t, i, n),
             flags  |-> IF IsVararg(t, i, n) THEN {CTF_FUNC_VARARG} ELSE {}])

\* ctf_func_args: the first MIN(argc, ctc_argc) argument types.
FuncArgs(t, i, argc) ==
  LET f == FuncInfo(t, i)
      m == IF argc < f.val.argc THEN argc ELSE f.val.argc
  IN  IF ~f.ok THEN f
      ELSE Ok([k \in 1 .. m |-> Word(t, i, 1 + k)])

Return(op, args, r) ==
  /\ ncalls < MaxCalls
  /\ ncalls' = ncalls + 1
  /\ errno' = IF r.ok THEN errno ELSE r.err
  /\ last' = [op |-> op, args |-> args, ok |-> r.ok, val |-> r.val]
  /\ UNCHANGED tab

LookupBySymbolCall(i) ==
  Return("lookup_by_symbol", <<i>>, LookupBySymbol(tab, i))

FuncInfoCall(i) == Return("func_info", <<i>>, FuncInfo(tab, i))

FuncArgsCall(i, argc) == Return("func_args", <<i, argc>>, FuncArgs(tab, i, argc))

Init ==
  /\ tab \in Tables
  /\ errno = NoError
  /\ last = [op |-> "none", args |-> <<>>, ok |-> TRUE, val |-> 0]
  /\ ncalls = 0

Next ==
  \E i \in SymIdxs :
    \/ LookupBySymbolCall(i)
    \/ FuncInfoCall(i)
    \/ \E argc \in Argcs : FuncArgsCall(i, argc)

Spec == Init /\ [][Next]_vars

-----------------------------------------------------------------------------
(***************************************************************************)
(* Reference definitions: what a function record declares.                 *)
(***************************************************************************)
\* The argument words of the function record of symbol i.
ArgWords(t, i) ==
  [k \in 1 .. InfoVlen(Word(t, i, 0)) |-> Word(t, i, 1 + k)]

\* Its declared parameters: the argument words without a trailing 0.
Declared(t, i) ==
  LET a == ArgWords(t, i) IN
  IF a # <<>> /\ a[Len(a)] = 0 THEN SubSeq(a, 1, Len(a) - 1) ELSE a

Variadic(t, i) == LET a == ArgWords(t, i) IN a # <<>> /\ a[Len(a)] = 0

SymbolTypeOK ==
  /\ DOMAIN tab.sxlate = DOMAIN tab.syms
  /\ ncalls \in 0 .. MaxCalls
  /\ last.op \in {"none", "lookup_by_symbol", "func_info", "func_args"}
  /\ (last.op = "func_info" /\ last.ok) => last.val.argc \in Nat

(* ctf_func_info describes the record it reads: the return type, as many *)
(* arguments as the record declares, and the varargs flag exactly when    *)
(* the record ends in the 0 marker; a function of no arguments returning  *)
(* void (whose return word is 0) is not variadic.                          *)
FuncInfoMatchesRecord ==
  (last.op = "func_info" /\ last.ok) =>
    LET i == last.args[1] IN
    /\ last.val.return = Word(tab, i, 1)
    /\ last.val.argc = Len(Declared(tab, i))
    /\ (CTF_FUNC_VARARG \in last.val.flags) = Variadic(tab, i)

(* ctf_func_args, whatever argc the caller passes, copies a prefix of the *)
(* declared parameters and never the varargs marker.                       *)
FuncArgsArePrefix ==
  (last.op = "func_args" /\ last.ok) =>
    LET d == Declared(tab, last.args[1]) IN
    Len(last.val) <= Len(d) /\ last.val = SubSeq(d, 1, Len(last.val))

(* Spec section 4.7: ctf_lookup_by_symbol rejects every symbol that is    *)
(* not a data object.                                                      *)
LookupBySymbolDataOnly ==
  (last.op = "lookup_by_symbol" /\ last.ok) =>
    tab.syms[last.args[1]].type = "object"

=============================================================================
