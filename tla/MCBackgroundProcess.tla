------------------------ MODULE MCBackgroundProcess ------------------------
(* Small instances of BackgroundProcess for TLC.                            *)
EXTENDS BackgroundProcess, TLC

CONSTANTS server, build

Both == {server, build}
JustServer == {server}
Nobody == {}
Swap == Permutations(Both)
=============================================================================
