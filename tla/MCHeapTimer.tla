----------------------------- MODULE MCHeapTimer -----------------------------
(* Instances of HeapTimer for TLC.                                         *)
EXTENDS HeapTimer

\* A timer shorter than the longest poll and one longer, a persistent one that
\* is no whole number of milliseconds, and one due at once.
MCInterval ==
    [t \in Timers |-> CASE t = "short" -> 2 [] t = "long" -> 7
                        [] t = "every" -> 3 [] t = "zero" -> 0]
=============================================================================
