---------------------------- MODULE MCApplication -----------------------------
(* The tasks with one or two restarts each: enough for two exits to overlap, and *)
(* for one task to be given up while another is restarted; the two tasks of the  *)
(* scanner share its agent. Two monthly contracts, the second listed later; the  *)
(* first is left one day before it expires.                                      *)
EXTENDS Application

CONSTANTS FeedTask, FlushTask, ScannerTask, ScannerFeedTask, HouseTask, ScannerAgent, Oct, Nov

Limits == [t \in Tasks |-> IF t = FlushTask THEN 2 ELSE 1]
Shared == [t \in Tasks |-> IF t \in {ScannerTask, ScannerFeedTask} THEN ScannerAgent ELSE t]

Months == [c \in Contracts |-> IF c = Oct THEN 2 ELSE 4]
Lists  == {{Oct}, {Oct, Nov}}

\* Tasks failing; a rollover; and the reports of a failing feed task.
AllScopes ==
    { [exits |-> {FlushTask, ScannerTask, ScannerFeedTask}, rolls |-> FALSE, tells |-> FALSE],
      [exits |-> {}, rolls |-> TRUE, tells |-> FALSE],
      [exits |-> {FeedTask}, rolls |-> FALSE, tells |-> TRUE] }
=============================================================================
