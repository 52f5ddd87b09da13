----------------------------- MODULE DtOpenProbe -----------------------------
(***************************************************************************)
(* The handle dt_vopen returns, used: a probe lookup on it that finds     *)
(* nothing asks dt_probe_noprobe_errno for the errno, which reads the     *)
(* handle's provider table through dt_provider_lookup.  The lookup runs   *)
(* on a handle dtrace_open returned and the consumer has not closed.      *)
(***************************************************************************)
EXTENDS DtOpen, DtProviderApple

allvars == <<vars, noprobe>>

OpenInit == Init /\ noprobe = NoCall

OpenNext ==
  \/ Next /\ UNCHANGED noprobe
  \/ pc = "returned" /\ NoProbe /\ UNCHANGED vars

OpenSpec == OpenInit /\ [][OpenNext]_allvars

=============================================================================
