-------------------------------- MODULE MCCards --------------------------------
(* Six bars, chosen so that every lifecycle rule fires: acceptance on the second, then           *)
(* follow-through or a failure, then a retest, a second failure, a reclaim or an invalidation,   *)
(* a continuation and its completion, or the maximum age on the bar of another transition; with  *)
(* detections while a setup is open and after it has ended, and two of one level on the last bar. *)
EXTENDS Cards

Bar(close, touched, found) == [close |-> close, touched |-> touched, found |-> found]

Below == -1
Story == << {Bar(1, TRUE, 1)},
            {Bar(2, FALSE, 0)},
            {Bar(3, TRUE, 0), Bar(0, TRUE, 0)},
            {Bar(2, TRUE, 1), Bar(0, TRUE, 0), Bar(-2, TRUE, 0)},
            {Bar(4, TRUE, 1)},
            {Bar(5, TRUE, 2)} >>

\* A setup that reaches CONTINUATION, and bars after it that neither advance nor fail it.
Steady == << {Bar(1, TRUE, 1)}, {Bar(2, FALSE, 0)}, {Bar(3, FALSE, 0)}, {Bar(2, TRUE, 0)},
             {Bar(4, FALSE, 0)}, {Bar(4, FALSE, 0)}, {Bar(4, FALSE, 0)} >>
=============================================================================
