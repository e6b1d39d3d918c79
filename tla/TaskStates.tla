---------------------------- MODULE TaskStates ----------------------------
(***************************************************************************)
(* The durable Task states and the transition table of core/task.py.       *)
(* Every module that keeps a Task row takes its states and its legal moves *)
(* from here, so a move the table forbids cannot be taken silently.        *)
(***************************************************************************)

\* States in which a Turn's own coroutine is expected to be making progress.
RunningStates == {"RUNNING_WORKFLOW", "EXECUTING"}

\* States in which the Turn is suspended until the user acts.
AwaitingStates == {"AWAITING_APPROVAL", "AWAITING_USER", "AWAITING_INPUT"}

\* States create_task walks a new Task through before its first Turn.
SetupStates == {"CREATED", "INTAKE", "RESOLVING_PROJECT",
                "SELECTING_EXTENSIONS", "ROUTING", "PLANNING"}

\* TaskState.is_terminal: NEEDS_REVIEW ends a run although a human may still
\* move the Task on from it.
TerminalStates == {"SUCCEEDED", "CANCELLED", "FAILED", "NEEDS_REVIEW"}

TaskState == SetupStates \cup RunningStates \cup AwaitingStates
             \cup TerminalStates
             \cup {"INTERRUPTING", "INTERRUPTED", "RESUMING", "CONFLICT",
                   "VERIFYING", "FINALIZING"}

\* How a Task is stopped: nearly every state has these two edges.
Stopped == {"CANCELLED", "FAILED"}

\* LEGAL_TRANSITIONS: the states a Task may move to from each state.
LegalTransitions == [s \in TaskState |->
  CASE s = "CREATED"              -> {"INTAKE"} \cup Stopped
    [] s = "INTAKE"               -> {"RESOLVING_PROJECT"} \cup Stopped
    [] s = "RESOLVING_PROJECT"    -> {"SELECTING_EXTENSIONS"} \cup Stopped
    [] s = "SELECTING_EXTENSIONS" -> {"ROUTING"} \cup Stopped
    [] s = "ROUTING"              -> {"PLANNING", "VERIFYING"}
                                     \cup RunningStates \cup Stopped
    [] s = "PLANNING"             -> RunningStates \cup Stopped
    [] s = "RUNNING_WORKFLOW"     -> {"AWAITING_APPROVAL", "AWAITING_USER",
                                      "INTERRUPTING", "CONFLICT", "VERIFYING"}
                                     \cup Stopped
    [] s = "EXECUTING"            -> AwaitingStates \cup Stopped
                                     \cup {"INTERRUPTING", "CONFLICT",
                                           "VERIFYING", "NEEDS_REVIEW"}
    [] s = "AWAITING_INPUT"       -> {"EXECUTING", "RESUMING", "SUCCEEDED"}
                                     \cup Stopped
    [] s = "AWAITING_APPROVAL"    -> RunningStates
                                     \cup {"INTERRUPTING", "CONFLICT", "CANCELLED"}
    [] s = "AWAITING_USER"        -> RunningStates
                                     \cup {"INTERRUPTING", "CANCELLED", "NEEDS_REVIEW"}
    [] s = "INTERRUPTING"         -> {"INTERRUPTED"} \cup Stopped
    [] s = "INTERRUPTED"          -> {"RESUMING", "CONFLICT"} \cup Stopped
    [] s = "RESUMING"             -> RunningStates \cup {"CONFLICT", "FAILED"}
    [] s = "CONFLICT"             -> {"RESUMING"} \cup Stopped
    [] s = "VERIFYING"            -> {"EXECUTING", "FINALIZING", "NEEDS_REVIEW"}
                                     \cup Stopped
    [] s = "FINALIZING"           -> {"SUCCEEDED"} \cup Stopped
    [] s = "NEEDS_REVIEW"         -> {"EXECUTING", "CANCELLED", "SUCCEEDED"}
    [] OTHER                      -> {}]

\* CONVERSATION_RESTARTABLE: a conversation parked here may start a new Turn
\* without the old one.
ConversationRestartable == {"INTERRUPTED", "CONFLICT"}

\* Mutant: a conflicted Task cannot be cancelled.
CanMoveButCancelConflict(s, t) ==
  t \in LegalTransitions[s] /\ <<s, t>> # <<"CONFLICT", "CANCELLED">>

\* TaskSnapshot.transition accepts a target only along the table.
CanMove(s, t) == t \in LegalTransitions[s]

\* TaskSnapshot.transition drops what was pending on the user exactly when the
\* target is terminal or CONFLICT, and the checkpoint when it is terminal.
DropsPending(t) == t \in TerminalStates \cup {"CONFLICT"}
DropsCheckpoint(t) == t \in TerminalStates
=============================================================================
