------------------------------ MODULE MCRollover ------------------------------
(* Two monthly contracts, the second listed later; the first is left one day     *)
(* before it expires.                                                            *)
EXTENDS Rollover

CONSTANTS Oct, Nov

Months == [c \in Contracts |-> IF c = Oct THEN 2 ELSE 4]
Lists  == {{Oct}, {Oct, Nov}}
=============================================================================
