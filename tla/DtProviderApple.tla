--------------------------- MODULE DtProviderApple ---------------------------
(***************************************************************************)
(* dt_probe_noprobe_errno (src/libdtrace/dt_provider_apple.c): the errno a *)
(* probe lookup that found nothing reports on macOS.  A provider whose     *)
(* name ends in a digit and that is unknown or has DTRACE_PRIV_PROC is a   *)
(* process provider: EDT_NOPROBE.  Otherwise EDT_PROBE_RESTRICTED when     *)
(* csr_check(CSR_ALLOW_UNRESTRICTED_DTRACE) refuses, else EDT_NOPROBE.     *)
(*                                                                         *)
(* A description is [id, provider]; the provider name is its bytes, the   *)
(* terminating NUL left out.  For an empty name, strlen - 1 wraps and the *)
(* index reaches the byte in front of dtpd_provider, which in             *)
(* dtrace_probedesc_t is the last byte of dtpd_id: its top byte on the    *)
(* little-endian targets of this build.                                   *)
(***************************************************************************)
EXTENDS Integers, Sequences

CONSTANTS
  ProbeDescs,   \* [id, provider] descriptions callers pass
  Lookups,      \* what dt_provider_lookup can return: "none", "proc", "other"
  CsrResults    \* csr_check results: 0 when unrestricted DTrace is allowed

VARIABLE noprobe    \* [pd, lookup, csr, errno] of the last call

\* isdigit of the C locale.
IsDigit(c) == c \in 48 .. 57

\* pdp->dtpd_provider[strlen(pdp->dtpd_provider) - 1].
LastProviderByte(pd) ==
  IF pd.provider = <<>> THEN (pd.id \div 2 ^ 24) % 256
  ELSE pd.provider[Len(pd.provider)]

\* dt_probe_noprobe_errno; pv is dt_provider_lookup's answer ("proc": a
\* provider with DTRACE_PRIV_PROC), only asked when the name ends in a
\* digit (&& short-circuits).
dt_probe_noprobe_errno(pd, pv, csr) ==
  IF IsDigit(LastProviderByte(pd)) /\ pv \in {"none", "proc"}
    THEN "EDT_NOPROBE"
  ELSE IF csr # 0 THEN "EDT_PROBE_RESTRICTED"
  ELSE "EDT_NOPROBE"

\* A failed probe lookup asks for its errno.
NoProbe ==
  \E pd \in ProbeDescs, pv \in Lookups, csr \in CsrResults :
    noprobe' = [pd |-> pd, lookup |-> pv, csr |-> csr,
                errno |-> dt_probe_noprobe_errno(pd, pv, csr)]

NoCall == [pd |-> [id |-> 0, provider |-> <<>>], lookup |-> "none", csr |-> 0,
           errno |-> "none"]

=============================================================================
