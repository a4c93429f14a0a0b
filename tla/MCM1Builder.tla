----------------------------- MODULE MCM1Builder -----------------------------
(* M1Builder on three minutes of two instants each: enough for a minute before, one with *)
(* and one after an interruption, with late packets, frozen delivery, stalls inside a    *)
(* recovery and a flush loop that may lag.                                               *)
EXTENDS M1Builder
=============================================================================
