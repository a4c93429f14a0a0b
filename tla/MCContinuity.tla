----------------------------- MODULE MCContinuity -----------------------------
(* The primary timeframe alone, two minutes to its bar. *)
EXTENDS Continuity

CONSTANTS P

NoLevels == <<>>

SourceOf == (P :> M1)
SizeOf   == (M1 :> 1) @@ (P :> 2)
=============================================================================
