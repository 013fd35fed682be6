----------------------------- MODULE MCFastRpc -----------------------------
(* The instance of FastRpc for TLC.                                        *)
EXTENDS FastRpc

\* Two calls whose uuids have the same hash, and one with its own.
MCId == [c \in Calls |-> IF c = "other" THEN 2 ELSE 1]
=============================================================================
