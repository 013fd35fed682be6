---------------------------- MODULE MCThreadPool ----------------------------
(* The instance of ThreadPool for TLC.                                     *)
EXTENDS ThreadPool

\* One producer that can meet its own full queue, and one that overtakes it.
MCMaxTasks == [p \in Producers |-> IF p = "twice" THEN 2 ELSE 1]
=============================================================================
