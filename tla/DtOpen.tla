------------------------------- MODULE DtOpen -------------------------------
(***************************************************************************)
(* The dtrace handle: dt_vopen (dtrace_open, dtrace_vopen), set_open_errno *)
(* and dtrace_close (src/libdtrace/dt_open.c).                             *)
(*                                                                         *)
(* dt_vopen is a chain of steps, each of which can fail; a failure returns *)
(* set_open_errno(dtp, errp, err), which closes the handle built so far   *)
(* when there is one and stores err in *errp when errp is not NULL.  One  *)
(* action per step of the chain; every call a step makes that can fail     *)
(* (an open, a malloc, an ioctl, a library call outside this file) is an  *)
(* existential choice of its outcome.  The data is abstracted to what     *)
(* dtrace_close later reads: which descriptors and pointer fields are     *)
(* set, the module list, which modules have a CTF container and the data  *)
(* model.  held is every resource of the process the call acquired and    *)
(* has not released.                                                       *)
(***************************************************************************)
EXTENDS FiniteSets, Sequences, SequencesExt

CONSTANTS
  DTRACE_VERSION,   \* the library's version
  Versions,         \* the versions a caller passes
  ConfModels,       \* the data models DTRACEIOC_CONF can report
  OpenErrnos,       \* the errnos open("/dev/dtrace") can fail with
  IoctlErrnos       \* the errnos the DTRACEIOC_CONF ioctl can fail with

\* The flags a caller can pass: DTRACE_O_LP64, DTRACE_O_ILP32, DTRACE_O_NODEV
\* and a bit outside DTRACE_O_MASK.
Flags == {"LP64", "ILP32", "NODEV", "BAD"}

\* CTF_MODEL_NATIVE of _dtrace_conf, the configuration used with NODEV.
NativeModel == "LP64"

NoFd     == "none"        \* a descriptor field holding -1
NoHandle == [null |-> TRUE]  \* dtp == NULL
Unset    == "unset"       \* *errp not written

\* The pointer fields dt_vopen allocates before its NULL check (dt_mods,
\* dt_provs, dt_procs, dt_cpp_path, dt_cpp_argv, dt_ld_path), the four
\* identifier hashes, and the Apple string table dt_apple_ids.
Bulk   == {"mods", "provs", "procs", "cpp_path", "cpp_argv", "ld_path"}
Hashes == {"macros", "aggs", "globals", "tls"}
Ptrs   == Bulk \cup Hashes \cup {"apple_ids", "pfdict", "libdir"}

\* Modules on dt_modlist: the kernel's (added by dtrace_update) and the
\* dynamic "C" and "D" modules; CtfOf(m) is a module's CTF container.
ModNames == {"K", "C", "D"}
CtfOf(m) == m \o ".ctf"

Res == {"dtfd", "ftfd", "hdl"} \cup Ptrs \cup ModNames \cup {CtfOf("C"), CtfOf("D")}

VARIABLES
  pc,       \* "idle", the next step of dt_vopen, "returned", "failed", "closed"
  call,     \* the arguments of the call
  fds,      \* dt_vopen's locals dtfd and ftfd: the ones that are open
  h,        \* the handle: NoHandle or the fields dtrace_close reads
  held,     \* the resources acquired and not released
  err,      \* the caller's *errp
  closed,   \* dtrace_close has run on the handle
  bad       \* what a dtrace_close released that was not held

vars == <<pc, call, fds, h, held, err, closed, bad>>

-----------------------------------------------------------------------------
(***************************************************************************)
(* dtrace_close: every release statement of its body, with its guard.     *)
(***************************************************************************)
\* Variant that closes both descriptor fields without the -1 checks.
ClosedFdsUnguarded(d) == {d.fd, d.ftfd}

\* The if (dtp->dt_fd != -1) and if (dtp->dt_ftfd != -1) closes.
ClosedFds(d) == {d.fd, d.ftfd} \ {NoFd}

\* The four guarded dt_idhash_destroy calls.
DestroyedHashes(d) == d.ptrs \cap Hashes

\* Everything dtrace_close releases: dt_procs (guarded), the hashes, every
\* module on dt_modlist and its container, the descriptors, the printf
\* dictionary, the library path, the free()d fields (free(NULL) does
\* nothing), dt_apple_ids (destroyed unguarded) and dtp itself.
Released(d) ==
  (d.ptrs \cap {"procs"}) \cup DestroyedHashes(d)
  \cup ToSet(d.mods) \cup {CtfOf(m) : m \in d.ctfs}
  \cup ClosedFds(d) \cup (d.ptrs \cap {"pfdict", "libdir"})
  \cup (d.ptrs \cap {"cpp_argv", "cpp_path", "ld_path", "mods", "provs"})
  \cup {"apple_ids", "hdl"}

CloseHandle(d, hd) ==
  /\ held' = hd \ Released(d)
  /\ bad' = bad \cup (Released(d) \ hd)
  /\ closed' = TRUE

\* return (set_open_errno(d, errp, e)), the handle being d and the held
\* resources hd at that point.
SetOpenErrno(d, e, hd) ==
  /\ pc' = "failed"
  /\ err' = IF call.errp THEN e ELSE err
  /\ IF d = NoHandle THEN held' = hd /\ UNCHANGED <<closed, bad>>
                     ELSE CloseHandle(d, hd)
  /\ h' = NoHandle
  /\ UNCHANGED <<call, fds>>

\* A step that continues at next when ok holds and fails with e otherwise.
Step(ok, e, d, hd, next) ==
  IF ok THEN /\ pc' = next /\ h' = d /\ held' = hd
             /\ UNCHANGED <<call, fds, err, closed, bad>>
  ELSE SetOpenErrno(d, e, hd)

-----------------------------------------------------------------------------
(***************************************************************************)
(* dt_vopen, one action per step.                                          *)
(***************************************************************************)
\* The argument checks, in the code's order.
ArgError(v, fl, vec, arg) ==
  CASE v <= 0                        -> "EINVAL"
    [] v > DTRACE_VERSION            -> "EDT_VERSION"
    [] v < DTRACE_VERSION            -> "EDT_OVERSION"
    [] "BAD" \in fl                  -> "EINVAL"
    [] {"LP64", "ILP32"} \subseteq fl -> "EINVAL"
    [] ~vec /\ arg                   -> "EINVAL"
    [] OTHER                         -> Unset

\* dtrace_open (vector and arg NULL) or dtrace_vopen, up to the device
\* open: the argument checks and elf_version.
Open(v, fl, vec, arg, ep) ==
  /\ pc = "idle"
  /\ call' = [version |-> v, flags |-> fl, vector |-> vec, arg |-> arg, errp |-> ep]
  /\ \E elfok \in BOOLEAN :
       LET e == IF ArgError(v, fl, vec, arg) # Unset THEN ArgError(v, fl, vec, arg)
                ELSE IF ~elfok THEN "EDT_ELFVERSION" ELSE Unset
       IN  IF e # Unset
             THEN /\ pc' = "failed"
                  /\ err' = IF ep THEN e ELSE err
                  /\ UNCHANGED <<fds, h, held, closed, bad>>
             ELSE /\ pc' = IF vec \/ "NODEV" \in fl THEN "alloc" ELSE "devices"
                  /\ UNCHANGED <<fds, h, held, err, closed, bad>>

\* The errnos dt_vopen converts to libdtrace's own.
OpenErr(e) ==
  CASE e = "ENOENT" -> "EDT_NOENT"
    [] e = "EBUSY"  -> "EDT_BUSY"
    [] e = "EACCES" -> "EDT_ACCESS"
    [] OTHER        -> e

\* open("/dev/dtrace"), open("/dev/fasttrap"), and the failure of the first.
Devices ==
  /\ pc = "devices"
  /\ \E dterr \in {"ok"} \cup OpenErrnos, ftok \in BOOLEAN :
       LET opened == (IF dterr = "ok" THEN {"dtfd"} ELSE {})
                     \cup (IF ftok THEN {"ftfd"} ELSE {})
       IN  /\ fds' = opened
           /\ IF dterr # "ok"
                THEN /\ pc' = "failed"
                     /\ err' = IF call.errp THEN OpenErr(dterr) ELSE err
                     /\ held' = held \cup opened
                     /\ UNCHANGED <<call, h, closed, bad>>
                ELSE /\ pc' = "alloc"
                     /\ held' = held \cup opened
                     /\ UNCHANGED <<call, h, err, closed, bad>>

\* malloc of dtp, the field initialisation and the allocations checked
\* together; missing is the set of those that returned NULL.
Alloc ==
  /\ pc = "alloc"
  /\ \E ok \in BOOLEAN, missing \in SUBSET Bulk :
       LET d == [fd    |-> IF "dtfd" \in fds THEN "dtfd" ELSE NoFd,
                 ftfd  |-> IF "ftfd" \in fds THEN "ftfd" ELSE NoFd,
                 ptrs  |-> (Bulk \ missing) \cup {"apple_ids"},
                 mods  |-> <<>>, ctfs |-> {}, dparent |-> FALSE,
                 model |-> NativeModel, ints |-> "none"]
       IN  IF ~ok THEN SetOpenErrno(NoHandle, "EDT_NOMEM", held)
           ELSE Step(missing = {}, "EDT_NOMEM", d, held \cup {"hdl"} \cup d.ptrs, "cppargs")
  /\ UNCHANGED fds

\* The dt_cpp_add_arg calls for the preprocessor's fixed arguments.
CppArgs ==
  /\ pc = "cppargs"
  /\ \E ok \in BOOLEAN : Step(ok, "EDT_NOMEM", h, held, "conf")

\* dtc_ctfmodel after the flags override the configuration's model.
CtfModel(km, fl) ==
  CASE "LP64" \in fl  -> "LP64"
    [] "ILP32" \in fl -> "ILP32"
    [] OTHER          -> km

\* The dt_ints template the model selects.
IntsOf(model) == IF model = "ILP32" THEN "ints32" ELSE "ints64"

\* Variant that selects the template by the configuration's model.
IntsTableEarly(km, fl) == IntsOf(km)

IntsTable(km, fl) == IntsOf(CtfModel(km, fl))

\* The configuration (static with NODEV, else the DTRACEIOC_CONF ioctl),
\* the flags' model, the ISA argument, the DIF version check and dt_ints.
Conf ==
  /\ pc = "conf"
  /\ LET nodev == "NODEV" \in call.flags IN
     \E km \in (IF nodev THEN {NativeModel} ELSE ConfModels),
        ioctl \in (IF nodev THEN {"ok"} ELSE {"ok"} \cup IoctlErrnos),
        argok \in BOOLEAN,
        difok \in (IF nodev THEN {TRUE} ELSE BOOLEAN) :
       LET e == CASE ioctl # "ok" -> ioctl
                  [] ~argok       -> "EDT_NOMEM"
                  [] ~difok       -> "EDT_DIFVERS"
                  [] OTHER        -> Unset
           d == [h EXCEPT !.model = CtfModel(km, call.flags),
                          !.ints = IntsTable(km, call.flags)]
       IN  Step(e = Unset, e, d, held, "idhash")

\* The four dt_idhash_create calls, their NULL check and the macro inserts.
IdHash ==
  /\ pc = "idhash"
  /\ \E missing \in SUBSET Hashes, insok \in BOOLEAN :
       LET d == [h EXCEPT !.ptrs = @ \cup (Hashes \ missing)]
       IN  Step(missing = {} /\ insok, "EDT_NOMEM", d, held \cup (Hashes \ missing), "update")

\* dtrace_update_kernel_symbols and dtrace_update: the kernel's modules
\* join the module list (there may be none to add).
Update ==
  /\ pc = "update"
  /\ \E ks \in {<<>>, <<"K">>} :
       /\ h' = [h EXCEPT !.mods = @ \o ks]
       /\ held' = held \cup ToSet(ks)
  /\ pc' = "cdefs"
  /\ UNCHANGED <<call, fds, err, closed, bad>>

\* How far the creation of a dynamic module got: dt_module_create, then
\* ctf_create, then the steps after them (r names the first that failed).
Created(r)  == r # "module"
HasCtf(r)   == r \notin {"module", "ctf"}
CreateErr(r) == IF r = "module" THEN "EDT_NOMEM" ELSE "EDT_CTF"

\* Module m created as far as r says, on handle d.
WithModule(d, m, r) ==
  [d EXCEPT !.mods = IF Created(r) THEN @ \o <<m>> ELSE @,
            !.ctfs = IF HasCtf(r) THEN @ \cup {m} ELSE @]

ModuleRes(m, r) ==
  (IF Created(r) THEN {m} ELSE {}) \cup (IF HasCtf(r) THEN {CtfOf(m)} ELSE {})

\* The "C" module: create, ctf_create, the intrinsics, two ctf_updates.
CDefs ==
  /\ pc = "cdefs"
  /\ \E r \in {"ok", "module", "ctf", "add", "update"} :
       Step(r = "ok", CreateErr(r), WithModule(h, "C", r),
            held \cup ModuleRes("C", r), "ddefs")

\* The "D" module: create, ctf_create, ctf_import of "C", the typedefs
\* and intrinsics, ctf_update.
DDefs ==
  /\ pc = "ddefs"
  /\ \E r \in {"ok", "module", "ctf", "import", "add", "update"} :
       LET d == WithModule(h, "D", r) IN
       Step(r = "ok", CreateErr(r),
            [d EXCEPT !.dparent = r \notin {"module", "ctf", "import"}],
            held \cup ModuleRes("D", r), "ints")

\* dtrace_lookup_by_type of each dt_ints name.
Ints ==
  /\ pc = "ints"
  /\ \E ok \in BOOLEAN : Step(ok, "dt_errno", h, held, "reorder")

\* Variant that prepends without deleting first.
PrependOnly(s, m) == <<m>> \o s

\* dt_list_delete then dt_list_prepend.
MoveToFront(s, m) == <<m>> \o SelectSeq(s, LAMBDA x : x # m)

\* Move "D" then "C" to the front of dt_modlist; dt_pfdict_create.
Reorder ==
  /\ pc = "reorder"
  /\ \E ok \in BOOLEAN :
       LET d == [h EXCEPT !.mods = MoveToFront(MoveToFront(@, "D"), "C"),
                          !.ptrs = IF ok THEN @ \cup {"pfdict"} ELSE @]
       IN  Step(ok, "dt_errno", d, IF ok THEN held \cup {"pfdict"} ELSE held, "hardwire")

\* dtrace_program_strcompile of the hard-wired inlines, the program then
\* destroyed.
Hardwire ==
  /\ pc = "hardwire"
  /\ \E ok \in BOOLEAN : Step(ok, "EDT_HARDWIRE", h, held, "libdir")

\* dtrace_setopt(dtp, "libdir", ...), then return (dtp).
Libdir ==
  /\ pc = "libdir"
  /\ \E ok \in BOOLEAN :
       LET d == [h EXCEPT !.ptrs = IF ok THEN @ \cup {"libdir"} ELSE @]
       IN  Step(ok, "dt_errno", d, IF ok THEN held \cup {"libdir"} ELSE held, "returned")

\* The consumer closes the handle it was given.
Close ==
  /\ pc = "returned"
  /\ CloseHandle(h, held)
  /\ pc' = "closed"
  /\ h' = NoHandle
  /\ UNCHANGED <<call, fds, err>>

Init ==
  /\ pc = "idle"
  /\ call = [version |-> 0, flags |-> {}, vector |-> FALSE, arg |-> FALSE, errp |-> FALSE]
  /\ fds = {}
  /\ h = NoHandle
  /\ held = {}
  /\ err = Unset
  /\ closed = FALSE
  /\ bad = {}

Next ==
  \/ \E v \in Versions, fl \in SUBSET Flags, vec, arg, ep \in BOOLEAN :
       Open(v, fl, vec, arg, ep)
  \/ Devices \/ Alloc \/ CppArgs \/ Conf \/ IdHash \/ Update
  \/ CDefs \/ DDefs \/ Ints \/ Reorder \/ Hardwire \/ Libdir \/ Close

Spec == Init /\ [][Next]_vars

-----------------------------------------------------------------------------
DtOpenTypeOK ==
  /\ pc \in {"idle", "devices", "alloc", "cppargs", "conf", "idhash", "update",
             "cdefs", "ddefs", "ints", "reorder", "hardwire", "libdir",
             "returned", "failed", "closed"}
  /\ fds \subseteq {"dtfd", "ftfd"}
  /\ held \subseteq Res
  /\ h # NoHandle =>
       /\ h.ptrs \subseteq Ptrs
       /\ h.mods \in Seq(ModNames) /\ IsInjective(h.mods)
       /\ h.ctfs \subseteq ToSet(h.mods)
  /\ closed \in BOOLEAN

(* Whichever way the handle is closed, by the consumer or by             *)
(* set_open_errno at any failing step of dt_vopen, dtrace_close releases  *)
(* everything dt_vopen acquired (descriptors, hashes, modules and their   *)
(* containers, the allocated fields), and never releases a descriptor or *)
(* object that is not there.                                               *)
CloseReleasesAll ==
  /\ closed => held = {}
  /\ bad = {}

(* A handle dt_vopen returns is complete: every field later calls use     *)
(* unchecked is set, "C" and "D" exist with their containers, "D"'s       *)
(* parent is "C", the two lead the module list, dt_ints is the template   *)
(* of the final data model, which is the caller's if one was asked for,  *)
(* every resource the call acquired is reachable from the handle, and    *)
(* *errp was not written.                                                  *)
ReturnedHandleComplete ==
  pc = "returned" =>
    /\ Bulk \cup Hashes \cup {"apple_ids", "pfdict", "libdir"} \subseteq h.ptrs
    /\ h.ctfs = {"C", "D"} /\ h.dparent
    /\ Len(h.mods) >= 2 /\ SubSeq(h.mods, 1, 2) = <<"C", "D">>
    /\ h.ints = IntsOf(h.model)
    /\ (call.flags \cap {"LP64", "ILP32"} # {} => h.model \in call.flags)
    /\ held \subseteq Released(h)
    /\ err = Unset

(* A dt_vopen that returns NULL leaves nothing behind: every descriptor  *)
(* and object it acquired before failing has been released.              *)
NoLeakOnFailure ==
  pc = "failed" => held = {}

=============================================================================
