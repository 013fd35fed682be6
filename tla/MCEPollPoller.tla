---------------------------- MODULE MCEPollPoller ----------------------------
(* Two Events and two descriptors: a number is used again by another Event *)
(* and by the same one, and a round can have two active events.            *)
EXTENDS EPollPoller, TLC

Symmetry == Permutations(Events) \cup Permutations(Fds)
=============================================================================
