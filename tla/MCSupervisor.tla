----------------------------- MODULE MCSupervisor -----------------------------
(* The critical flush loop and the two tasks of the scanner, which share its agent, with *)
(* one to two restarts each: enough for two exits to overlap, and for one task to be     *)
(* given up while another is restarted.                                                  *)
EXTENDS Supervisor

CONSTANTS flush, scanner, scanner_feed, aggregation_agent, scanner_agent

Limits == [t \in Tasks |-> IF t = flush THEN 2 ELSE 1]
Shared == [t \in Tasks |-> IF t = flush THEN aggregation_agent ELSE scanner_agent]
=============================================================================
