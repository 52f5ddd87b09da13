------------------------------ MODULE MCDtOpen ------------------------------
(***************************************************************************)
(* Bounds for DtOpenProbe.  Provider names: empty, "f" (ends in a letter) *)
(* and "p1" (ends in a digit, a pid provider's shape).  Probe IDs:         *)
(* DTRACE_IDNONE, which the description parser leaves, and an ID the      *)
(* kernel hands out; both below 2^24, as every probe ID the kernel        *)
(* allocates from 1 upwards is.                                           *)
(***************************************************************************)
EXTENDS DtOpenProbe

MCProbeDescs ==
  {[id |-> i, provider |-> n] : i \in {0, 1000}, n \in {<<>>, <<102>>, <<112, 49>>}}

=============================================================================
