--------------------------- MODULE SerialExecutor ---------------------------
(***************************************************************************)
(* What an event loop promises to the threads that hand it callbacks: it   *)
(* runs them one at a time, each once, in the order in which they were     *)
(* handed over, and it never runs one nobody handed over.                  *)
(***************************************************************************)
EXTENDS Naturals, Sequences, Functions

CONSTANT Tasks

VARIABLES submitted, done

Init == submitted = <<>> /\ done = <<>>

Submit(task) ==
    /\ task \notin Range(submitted)
    /\ submitted' = Append(submitted, task)
    /\ UNCHANGED done

Execute ==
    /\ Len(done) < Len(submitted)
    /\ done' = Append(done, submitted[Len(done) + 1])
    /\ UNCHANGED submitted

Next == Execute \/ \E task \in Tasks : Submit(task)

Spec == Init /\ [][Next]_<<submitted, done>>
=============================================================================
