------------------------------- MODULE TData --------------------------------
(***************************************************************************)
(* The type data of the ctfconvert tools (src/tools/ctfconvert/tdata.c):   *)
(* a tdata_t holds the iidescs a converter produced, the trees of tdesc    *)
(* nodes they reach, a layout hash and an ID hash over those nodes, the    *)
(* next type ID and a list of labels.  tdata_merge moves one tdata into    *)
(* another and destroys the second.                                        *)
(*                                                                         *)
(* Ownership.  tdata_free frees the nodes through the layout hash          *)
(* (hash_free with tdesc_free_cb); the ID hash and the iidesc hash do not  *)
(* free them.  A node therefore lives as long as some layout hash holds    *)
(* it.  The hashes are bags: hash_add does not look for an equal entry.    *)
(*                                                                         *)
(* Abstractions.  A tdesc is a model value; Desc gives the fields the      *)
(* layout hash reads.  The trees an iidesc hash reaches are kept as the    *)
(* set of their nodes; iitraverse_hash (traverse.c) is taken to visit each *)
(* node of those trees once, which is what "Add td2's type tree to the     *)
(* hashes" (line 424) relies on.  The ID hash holds the same nodes as the  *)
(* layout hash and frees nothing, so only the layout hash is kept.  The    *)
(* marks td_curvgen and td_curemark belong to the traversals of            *)
(* traverse.c and merge.c, which are not in this repository.  The label    *)
(* array is a sequence; array_sort is qsort, which is not stable.          *)
(***************************************************************************)
EXTENDS Integers, Sequences, FiniteSets, Bags, TLC
LOCAL INSTANCE SequencesExt

CONSTANTS
  TDs,          \* tdata_t handles
  Tdescs,       \* tdesc_t nodes
  Desc,         \* Desc[t]: [type, name, ref, n, first] of node t
  ATOM_NULL,    \* the NULL atom: no name
  AtomHash,     \* atom_hash of each name (atom.c)
  NBuckets,     \* TDATA_LAYOUT_HASH_SIZE
  Labels,       \* label names
  Idxs,         \* idx arguments of tdata_label_add (-1: the last type)
  NewMaxes,     \* newmax arguments of tdata_label_newmax
  IntBits,      \* width of a C int
  MaxNextId,    \* the type IDs a converter hands out stay below this
  MaxCalls      \* calls of one behaviour

INT_MIN == -(2 ^ (IntBits - 1))
INT_MAX == 2 ^ (IntBits - 1) - 1

ASSUME /\ NBuckets \in Nat \ {0}
       /\ Idxs \cup NewMaxes \subseteq INT_MIN .. INT_MAX
       /\ MaxNextId <= INT_MAX

\* An int result: the low IntBits bits of v, read as two's complement.
IntOf(v) == ((v - INT_MIN) % (2 ^ IntBits)) + INT_MIN

Refs == {"POINTER", "TYPEDEF", "VOLATILE", "CONST", "RESTRICT"}

VARIABLES
  alive,     \* alive[x]: tdata_new has returned x and tdata_free has not run
  nextid,    \* td_nextid
  labels,    \* td_labels, in array order: [name, idx] entries
  iis,       \* the nodes reached from td_iihash
  lay,       \* td_layouthash, a bag of nodes
  tid,       \* t_id of each node (0: not created yet)
  freed,     \* bag: how often each node was freed
  hashed,    \* the nodes ever added to a layout hash
  last,      \* [op, td, top, seen] of the last call
  ncalls

vars == <<alive, nextid, labels, iis, lay, tid, freed, hashed, last, ncalls>>

NoTd == "none"

(***************************************************************************)
(* tdesc_layouthash: a named node hashes its name; an unnamed one the name *)
(* of what it refers to, the first member or element, or (function, array)*)
(* a count that the name then replaces.  Forwards and named structs hash   *)
(* only their name, so the two meet in one bucket.                         *)
(***************************************************************************)
tdesc_layouthash(nbuckets, t) ==
  LET d == Desc[t]
      name == IF d.name # ATOM_NULL THEN d.name
              ELSE CASE d.type \in Refs \cup {"PTRAUTH", "FUNCTION", "ARRAY"} -> d.ref
                     [] d.type \in {"STRUCT", "UNION", "ENUM"}             -> d.first
                     [] OTHER                                             -> ATOM_NULL
      h == IF d.name = ATOM_NULL /\ d.type \in {"FUNCTION", "ARRAY"} THEN d.n ELSE 0
  IN  (IF name # ATOM_NULL THEN AtomHash[name] ELSE h) % nbuckets

(***************************************************************************)
(* tdesc_layoutcmp, the comparator hash_find applies within a bucket of    *)
(* the layout hash: equal names (atoms, so pointers) are equal, which      *)
(* makes any two unnamed nodes equal; otherwise an unnamed node sorts      *)
(* first and two named ones compare by strcmp.  Distinct atoms have        *)
(* distinct strings, so only the sign of strcmp is kept.                   *)
(***************************************************************************)
\* Variant that tests for ATOM_NULL before comparing the two names.
tdesc_layoutcmp_nullfirst(t1, t2) ==
  CASE Desc[t1].name = ATOM_NULL -> -1
    [] Desc[t2].name = ATOM_NULL -> 1
    [] Desc[t1].name = Desc[t2].name -> 0
    [] OTHER -> 1

tdesc_layoutcmp(t1, t2) ==
  CASE Desc[t1].name = Desc[t2].name -> 0
    [] Desc[t1].name = ATOM_NULL -> -1
    [] Desc[t2].name = ATOM_NULL -> 1
    [] OTHER -> 1

\* tdesc_free_cb through hash_free: free_cbs[t_type] releases the node's
\* own allocation (intrinsic, array, function, member or element list),
\* then the node.  Every node in the bag is freed, as often as it is in it.
tdesc_free_cb(bag) == freed' = freed (+) bag

\* Variant with the operands swapped.
tdata_label_cmp_swapped(le1, le2) == IntOf(le2.idx - le1.idx)

\* The int tdata_label_cmp returns: le1->le_idx - le2->le_idx.
tdata_label_cmp(le1, le2) == IntOf(le1.idx - le2.idx)

\* array_sort (qsort): some order of the entries that the comparator
\* accepts; qsort keeps no order among entries that compare equal.
array_sort(s) ==
  LET perms == {[i \in 1 .. Len(s) |-> s[p[i]]] : p \in Permutations(1 .. Len(s))}
      sorted == {q \in perms : IsSorted(q, LAMBDA a, b : tdata_label_cmp(a, b) <= 0)}
  IN  IF sorted = {} THEN perms ELSE sorted

-----------------------------------------------------------------------------
\* A call of the library: one step, MaxCalls per behaviour.
Call == ncalls < MaxCalls /\ ncalls' = ncalls + 1

\* The label array and the node sets a freed handle no longer has.
Cleared(x) ==
  /\ labels' = [labels EXCEPT ![x] = <<>>]
  /\ iis' = [iis EXCEPT ![x] = {}]
  /\ lay' = [lay EXCEPT ![x] = EmptyBag]

\* tdata_new: xcalloc (exits on failure) zeroes the tdata; the hashes are
\* created empty, td_nextid and td_curvgen start at 1.
tdata_new(x) ==
  /\ Call /\ ~alive[x]
  /\ alive' = [alive EXCEPT ![x] = TRUE]
  /\ nextid' = [nextid EXCEPT ![x] = 1]
  /\ Cleared(x)
  /\ last' = [op |-> "new", td |-> x, top |-> <<>>]
  /\ UNCHANGED <<tid, freed, hashed>>

\* A converter (stabs.c, dwarf.c) creates node t for x: t_id = td_nextid++,
\* and the node joins the trees of td_iihash.
ConverterAddType(x, t) ==
  /\ Call /\ alive[x] /\ tid[t] = 0 /\ nextid[x] < MaxNextId
  /\ tid' = [tid EXCEPT ![t] = nextid[x]]
  /\ nextid' = [nextid EXCEPT ![x] = @ + 1]
  /\ iis' = [iis EXCEPT ![x] = @ \cup {t}]
  /\ last' = [op |-> "add_type", td |-> x, top |-> <<>>]
  /\ UNCHANGED <<alive, labels, lay, freed, hashed>>

\* tdata_label_add: idx -1 names the last type handed out.
tdata_label_add(x, label, idx) ==
  /\ Call /\ alive[x]
  /\ labels' = [labels EXCEPT ![x] =
                  Append(@, [name |-> label,
                             idx |-> IF idx = -1 THEN IntOf(nextid[x] - 1) ELSE idx])]
  /\ last' = [op |-> "label_add", td |-> x, top |-> <<>>]
  /\ UNCHANGED <<alive, nextid, iis, lay, tid, freed, hashed>>

\* tdata_label_top sorts the array in place and returns its last entry
\* (array_get(-1); NULL for an empty array); tdata_label_iter sorts it and
\* calls the callback on each entry in array order.
LabelSorted(x, op) ==
  /\ Call /\ alive[x]
  /\ \E q \in array_sort(labels[x]) :
       /\ labels' = [labels EXCEPT ![x] = q]
       /\ last' = [op |-> op, td |-> x,
                   top |-> IF op = "top" /\ q # <<>> THEN <<Last(q)>> ELSE <<>>]
  /\ UNCHANGED <<alive, nextid, iis, lay, tid, freed, hashed>>

tdata_label_top(x) == LabelSorted(x, "top")
tdata_label_iter(x) == LabelSorted(x, "iter")

\* tdata_label_newmax: every label past newmax moves down to it.
tdata_label_newmax(x, newmax) ==
  /\ Call /\ alive[x]
  /\ labels' = [labels EXCEPT ![x] =
                  [i \in DOMAIN labels[x] |->
                     LET le == labels[x][i]
                     IN  IF le.idx > newmax THEN [le EXCEPT !.idx = newmax] ELSE le]]
  /\ last' = [op |-> "newmax", td |-> x, top |-> <<>>]
  /\ UNCHANGED <<alive, nextid, iis, lay, tid, freed, hashed>>

\* tdata_build_hashes: every node of the trees goes into the ID hash and
\* the layout hash.  Callers build a tdata's hashes once, before anything
\* is merged into it: the layout hash is empty.
tdata_build_hashes(x) ==
  /\ Call /\ alive[x] /\ lay[x] = EmptyBag
  /\ lay' = [lay EXCEPT ![x] = SetToBag(iis[x])]
  /\ hashed' = hashed \cup iis[x]
  /\ last' = [op |-> "build_hashes", td |-> x, top |-> <<>>]
  /\ UNCHANGED <<alive, nextid, labels, iis, tid, freed>>

\* Variant that leaves out tdata_label_free.
tdata_free_keeplabels(x) ==
  /\ Call /\ alive[x]
  /\ tdesc_free_cb(lay[x])
  /\ alive' = [alive EXCEPT ![x] = FALSE]
  /\ iis' = [iis EXCEPT ![x] = {}]
  /\ lay' = [lay EXCEPT ![x] = EmptyBag]
  /\ last' = [op |-> "free", td |-> x, top |-> <<>>]
  /\ UNCHANGED <<nextid, labels, tid, hashed>>

\* tdata_free: hash_free of the iidesc hash (iidesc_free), of the layout
\* hash with tdesc_free_cb and of the ID hash; the labels; the tdata.
tdata_free(x) ==
  /\ Call /\ alive[x]
  /\ tdesc_free_cb(lay[x])
  /\ alive' = [alive EXCEPT ![x] = FALSE]
  /\ Cleared(x)
  /\ last' = [op |-> "free", td |-> x, top |-> <<>>]
  /\ UNCHANGED <<nextid, tid, hashed>>

(***************************************************************************)
(* tdata_merge(td1, td2): td1 takes the larger counters, td2's iidescs,   *)
(* td2's trees in its hashes and td2's labels after its own; td2's layout *)
(* and iidesc hashes are freed without their data (now td1's) and         *)
(* tdata_free(td2) releases the rest.  array_concat moves td2's entries.   *)
(***************************************************************************)
MergeEffect(td1, td2, next1, dropped) ==
  /\ Call /\ td1 # td2 /\ alive[td1] /\ alive[td2]
  /\ nextid' = [nextid EXCEPT ![td1] = next1]
  /\ iis' = [iis EXCEPT ![td1] = @ \cup iis[td2], ![td2] = {}]
  /\ lay' = [lay EXCEPT ![td1] = @ (+) SetToBag(iis[td2]), ![td2] = EmptyBag]
  /\ hashed' = hashed \cup iis[td2]
  /\ labels' = [labels EXCEPT ![td1] = @ \o labels[td2], ![td2] = <<>>]
  /\ freed' = freed (+) dropped
  /\ alive' = [alive EXCEPT ![td2] = FALSE]
  /\ last' = [op |-> "merge", td |-> td1, top |-> <<>>]
  /\ UNCHANGED tid

\* Variant that keeps td1's own td_nextid.
tdata_merge_nomax(td1, td2) == MergeEffect(td1, td2, nextid[td1], EmptyBag)

tdata_merge(td1, td2) ==
  MergeEffect(td1, td2, Max({nextid[td1], nextid[td2]}), EmptyBag)

-----------------------------------------------------------------------------
Init ==
  /\ alive = [x \in TDs |-> FALSE]
  /\ nextid = [x \in TDs |-> 0]
  /\ labels = [x \in TDs |-> <<>>]
  /\ iis = [x \in TDs |-> {}]
  /\ lay = [x \in TDs |-> EmptyBag]
  /\ tid = [t \in Tdescs |-> 0]
  /\ freed = EmptyBag
  /\ hashed = {}
  /\ last = [op |-> "none", td |-> NoTd, top |-> <<>>]
  /\ ncalls = 0

Next ==
  \E x \in TDs :
    \/ tdata_new(x) \/ tdata_build_hashes(x) \/ tdata_free(x)
    \/ tdata_label_top(x) \/ tdata_label_iter(x)
    \/ \E t \in Tdescs : ConverterAddType(x, t)
    \/ \E l \in Labels, idx \in Idxs : tdata_label_add(x, l, idx)
    \/ \E m \in NewMaxes : tdata_label_newmax(x, m)
    \/ \E y \in TDs : tdata_merge(x, y)

Spec == Init /\ [][Next]_vars

-----------------------------------------------------------------------------
Label == [name : Labels, idx : INT_MIN .. INT_MAX]

TDataTypeOK ==
  /\ alive \in [TDs -> BOOLEAN]
  /\ nextid \in [TDs -> 0 .. MaxNextId]
  /\ \A x \in TDs : labels[x] \in Seq(Label) /\ IsABag(lay[x])
  /\ iis \in [TDs -> SUBSET Tdescs]
  /\ tid \in [Tdescs -> 0 .. MaxNextId]
  /\ IsABag(freed) /\ hashed \subseteq Tdescs
  /\ last.top \in Seq(Label)
  \* a handle that is not alive owns no labels, nodes or hash entries
  /\ \A x \in TDs : ~alive[x] => labels[x] = <<>> /\ iis[x] = {} /\ lay[x] = EmptyBag

\* tdata_label_top and tdata_label_iter leave the label array in ascending
\* order of label index, and the label tdata_label_top returns has the
\* greatest index of all: the subtraction in tdata_label_cmp never wraps
\* for the indexes callers store (-1 becomes td_nextid - 1).
LabelsOrdered ==
  last.op \in {"top", "iter"} =>
    LET ls == labels[last.td] IN
    /\ IsSorted(ls, LAMBDA a, b : a.idx <= b.idx)
    /\ last.op = "top" /\ ls # <<>> =>
         \A i \in DOMAIN ls : ls[i].idx <= last.top[1].idx

\* Every node of a tdata's trees has an ID below its td_nextid, across
\* merges: the next ID a converter hands out, and the label index -1
\* stands for, are past every type of the merged tdata.
NextIdFresh ==
  \A x \in TDs : alive[x] => \A t \in iis[x] : tid[t] < nextid[x]

LayoutEquivalent(t, u) ==
  IF Desc[t].name # ATOM_NULL
    THEN Desc[u].name = Desc[t].name
    ELSE /\ Desc[u].name = ATOM_NULL
         /\ \A fld \in {"type", "ref", "n", "first"} : Desc[u][fld] = Desc[t][fld]

\* hash_find on a tdata's layout hash finds, for every node of it, each
\* node of it that is layout-equivalent: the two lie in the same bucket
\* of tdesc_layouthash (forwards and named structs hash only their name,
\* the constraint stated above it) and tdesc_layoutcmp calls them equal
\* (two unnamed nodes compare equal before the ATOM_NULL tests).
LayoutLookupFinds ==
  \A x \in TDs : \A t, u \in BagToSet(lay[x]) :
    LayoutEquivalent(t, u) =>
      /\ tdesc_layouthash(NBuckets, t) = tdesc_layouthash(NBuckets, u)
      /\ tdesc_layoutcmp(t, u) = 0

=============================================================================
