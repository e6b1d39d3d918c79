--------------------------- MODULE MCEventStream ---------------------------
(* Small instances of EventStream for TLC.                                  *)
EXTENDS EventStream, TLC

CONSTANTS tab, phone

Both == {tab, phone}
Swap == Permutations(Both)
=============================================================================
