-------------------------- MODULE MCTaskLifecycle --------------------------
(* Small instances of TaskLifecycle for TLC.                                *)
EXTENDS TaskLifecycle, TLC

CONSTANTS p1, p2, read, write, ask

OneProcess == {p1}
TwoProcesses == {p1, p2}

\* Processes are interchangeable.
ProcSymmetry == Permutations(TwoProcesses)

\* A repeatable read, a gated non-idempotent write, and a question.
AllCalls == {read, write, ask}
JustWrite == {write}
JustAsk == {ask}
NoCalls == {}
BothKinds == {"CONVERSATION", "WORK_ITEM"}
JustTalk == {"CONVERSATION"}
=============================================================================
