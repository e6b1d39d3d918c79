----------------------- MODULE MCWorkspaceTransaction -----------------------
(* Small instances of WorkspaceTransaction for TLC.                         *)
EXTENDS WorkspaceTransaction, TLC

CONSTANTS web, cli, old, new

Two == {1, 2}
OldAndNew == {old, new}
JustWeb == {web}
WebAndCli == {web, cli}

\* The workspace was empty; the Task has created the first file, has rolled
\* that back and has created it again.
Empty == [f \in Two |-> Absent]
Record(before, after, reverts) ==
  [tx |-> 0, before |-> before, after |-> after, reverts |-> reverts]
CreatedTwice ==
  1 :> <<Record(Absent, old, 0), Record(old, Absent, 1), Record(Absent, old, 0)>> @@ 2 :> <<>>

Swap == Permutations(WebAndCli)
=============================================================================
