--------------------------- MODULE MCCandlePipeline ---------------------------
(***************************************************************************)
(* Timeframes for model checking: two minutes to the primary bar, two of   *)
(* them to the next timeframe up, two of those to the top one.             *)
(***************************************************************************)
EXTENDS CandlePipeline

CONSTANTS P, H, Q

TwoLevels   == <<H>>
ThreeLevels == <<H, Q>>

SourceOf == (P :> M1) @@ (H :> P) @@ (Q :> H)
SizeOf   == (M1 :> 1) @@ (P :> 2) @@ (H :> 4) @@ (Q :> 8)
=============================================================================
