--------------------------- MODULE TaskLifecycle ---------------------------
(***************************************************************************)
(* One durable Task, its Turn driver and the handlers that act on it: the  *)
(* core of core/kernel*.py, core/conversation_loop/loop.py,                *)
(* core/turn_tool_batch.py and sdk/runtime.py.                             *)
(*                                                                         *)
(* The Task row is what the SQLite store holds; every action that changes  *)
(* it is one commit of the code (load, change, compare-and-set).  A driver *)
(* is the coroutine of a live Turn; it and everything else except the row  *)
(* dies with its process.  One asyncio loop runs in a process, and store   *)
(* calls never suspend, so a user's handler runs only while the driver is  *)
(* suspended; another process may commit between any two commits.          *)
(***************************************************************************)
EXTENDS TaskStates, Integers, FiniteSets

CONSTANTS
  Procs,          \* processes with this database open, each running the SDK
  Calls,          \* tool-call identities (turn_id, call_id) a model may propose
  Gated,          \* calls whose policy decision requires an approval
  NonIdempotent,  \* calls of tools declared NON_IDEMPOTENT
  Asks,           \* calls of core.request_input: they ask the user
  Kinds,          \* kinds of Task created in this run
  None            \* no call, no request, no checkpoint, no snapshot

ASSUME CallAssumption ==
  /\ Gated \subseteq Calls
  /\ NonIdempotent \subseteq Calls
  /\ Asks \subseteq Calls
  /\ Gated \cap Asks = {}

ASSUME KindAssumption == Kinds \subseteq {"CONVERSATION", "WORK_ITEM"}

VARIABLES
  row,      \* the durable Task row
  drv,      \* drv[p]: the Turn driver of process p
  phase,    \* phase[p]: "up", "down" (crashed) or "settling" orphans
  cancel,   \* cancel[p]: how far p's cancel handler is: "no", "cleanup", "closing"
  used,     \* call identities proposed so far (seen_call_ids of all Turns)
  runs,     \* history: how often the provider of a call was started, up to RunCap
  consent,  \* history: the latest word of the user on a gated call
  stopping  \* history: a cancellation of the Task has been accepted

vars == <<row, drv, phase, cancel, used, runs, consent, stopping>>

-----------------------------------------------------------------------------
\* What a checkpoint's transcript says of a call: nothing, accepted and
\* pending, answered by a result, or told that it was not started: by a guard
\* or the user's decision, or because the Task was cancelled.
CallView == {"unseen", "pending", "answered", "declined", "cancelled"}
View == [Calls -> CallView]
Fresh == [c \in Calls |-> "unseen"]
Pending(v) == {c \in Calls : v[c] = "pending"}
Mark(v, cs, how) == [c \in Calls |-> IF c \in cs THEN how ELSE v[c]]

\* ToolCommitState, with NEW for a call that has no record.
ExecState == {"NEW", "PREPARED", "RUNNING", "COMMITTED", "FAILED", "UNKNOWN_OUTCOME"}
Settled == {"COMMITTED", "FAILED"}
Reusable == Settled \cup {"UNKNOWN_OUTCOME"}

\* A pending approval carries the checkpoint it was requested under.
Request == [call : Calls, view : View]

Row == [state   : TaskState,
        kind    : Kinds,
        appr    : Request \cup {None},
        clar    : Calls \cup {None},
        ckpt    : View \cup {None},
        partial : BOOLEAN,     \* _current_incomplete_boundary of its events
        ledger  : [Calls -> ExecState]]

\* None is none of the things it stands for the absence of.
ASSUME NoneAssumption ==
  None \notin Calls /\ None \notin Request /\ None \notin View /\ None \notin Row

Pc == {"off", "raised", "setup", "opened", "model", "batch", "invoke",
       "approved", "prepared", "running", "rerunning", "recorded",
       "reconciled", "resuming", "verify", "finalize", "succeed"}

Driver == [pc        : Pc,
           view      : View,                \* the transcript in memory
           call      : Calls \cup {None},   \* the call in hand
           recover   : BOOLEAN,             \* recover_interrupted
           approval  : BOOLEAN,             \* the call in hand came from an approval
           submitted : BOOLEAN,             \* run by _run_submitted_task
           snap      : Row \cup {None}]     \* next_state carried past an approval

IdleDriver == [pc |-> "off", view |-> Fresh, call |-> None, recover |-> FALSE,
               approval |-> FALSE, submitted |-> FALSE, snap |-> None]

NewDriver(pc, v, submitted) ==
  [IdleDriver EXCEPT !.pc = pc, !.view = v, !.submitted = submitted]

\* Bound: a second start is told apart only where it must not happen.
RunCap(c) == IF c \in NonIdempotent THEN 2 ELSE 1

TypeOK ==
  /\ row \in Row
  /\ drv \in [Procs -> Driver]
  /\ phase \in [Procs -> {"up", "down", "settling"}]
  /\ cancel \in [Procs -> {"no", "cleanup", "closing"}]
  /\ used \subseteq Calls
  /\ runs \in [Calls -> 0 .. 2]
  /\ consent \in [Calls -> {"none", "asked", "approved", "denied", "superseded"}]
  /\ stopping \in BOOLEAN

-----------------------------------------------------------------------------
\* The row after a legal move, as TaskSnapshot.transition builds it.
Transition(r, t) ==
  [r EXCEPT !.state = t,
            !.appr = IF DropsPending(t) THEN None ELSE @,
            !.clar = IF DropsPending(t) THEN None ELSE @,
            !.ckpt = IF DropsCheckpoint(t) THEN None ELSE @]

\* Moves that pass through INTERRUPTING or RESUMING inside one commit.
Interrupted(r) == Transition(r, "INTERRUPTED")
MayResume(r) == CanMove(r.state, "RESUMING")

Executed(r, c, how) == [r EXCEPT !.ledger[c] = how]

Idle(p) == drv[p].pc \in {"off", "raised"}

\* Where a driver awaits something other than the store.
Suspended(p) ==
  \/ Idle(p)
  \/ drv[p].pc \in {"model", "running", "rerunning", "succeed"}
  \/ drv[p].pc = "setup" /\ row.state = "CREATED"

\* The event loop of p can run a user's handler.
Free(p) == phase[p] = "up" /\ Suspended(p)

\* run_tool_batch loops while calls are pending, then the model is sampled.
Continue(d, v) ==
  [d EXCEPT !.pc = IF Pending(v) = {} THEN "model" ELSE "batch",
            !.view = v, !.call = None, !.approval = FALSE]

\* _run_submitted_task: an exception that is not a resumable stop fails a Task
\* that is neither terminal nor waiting for the user.
FailedRow(r, submitted) ==
  IF /\ submitted
     /\ r.state \notin TerminalStates \cup {"AWAITING_APPROVAL", "AWAITING_USER"}
     /\ CanMove(r.state, "FAILED")
  THEN Transition(r, "FAILED") ELSE r

\* The driver ends with an exception nothing in the loop has recorded.
Raise(p, r) ==
  /\ row' = FailedRow(r, drv[p].submitted)
  /\ drv' = [drv EXCEPT ![p] = [IdleDriver EXCEPT !.pc = "raised"]]
  /\ UNCHANGED <<phase, cancel, used, runs, consent, stopping>>

\* The driver moves on; only the row and the driver change.
Step(p, r, d) ==
  /\ row' = r
  /\ drv' = [drv EXCEPT ![p] = d]
  /\ UNCHANGED <<phase, cancel, used, runs, consent, stopping>>

DriverAt(p, pc) == phase[p] = "up" /\ drv[p].pc = pc

-----------------------------------------------------------------------------
(* Starting a Turn: SDKRuntime.run_task and ConversationAgentLoop.run.      *)

SetupNext == [s \in SetupStates \ {"PLANNING"} |->
  CASE s = "CREATED"              -> "INTAKE"
    [] s = "INTAKE"               -> "RESOLVING_PROJECT"
    [] s = "RESOLVING_PROJECT"    -> "SELECTING_EXTENSIONS"
    [] s = "SELECTING_EXTENSIONS" -> "ROUTING"
    [] s = "ROUTING"              -> "EXECUTING"]

\* One of the five commits that take a new Task to EXECUTING; a Task cancelled
\* meanwhile refuses the move and the runner ends.
AdvanceSetup(p) ==
  /\ DriverAt(p, "setup")
  /\ IF row.state \in DOMAIN SetupNext
     THEN LET t == SetupNext[row.state] IN
          Step(p, Transition(row, t),
               [drv[p] EXCEPT !.pc = IF t = "EXECUTING" THEN "opened" ELSE @])
     ELSE Raise(p, row)

\* run_agent_turn opens the next Turn of an idle conversation; over a pending
\* approval transition_task refuses, and the runner fails the Task.
StartTurn(p) ==
  /\ phase[p] = "up" /\ Idle(p)
  /\ row.state = "AWAITING_INPUT"
  /\ IF row.appr = None
     THEN Step(p, Transition(row, "EXECUTING"), NewDriver("opened", Fresh, TRUE))
     ELSE Step(p, FailedRow(row, TRUE), drv[p])

\* Mutant: without clear_pending_interactions.
FreshTurnKeepsRequests(p) ==
  /\ phase[p] = "up" /\ Idle(p)
  /\ row.kind = "CONVERSATION"
  /\ row.state \in ConversationRestartable
  /\ Step(p, [Transition(row, "EXECUTING") EXCEPT !.ckpt = None],
          NewDriver("opened", Fresh, TRUE))

\* start_fresh_conversation_turn: the stopped Turn's checkpoint and whatever it
\* was waiting for are dropped in the commit that reopens the Task.
FreshTurn(p) ==
  /\ phase[p] = "up" /\ Idle(p)
  /\ row.kind = "CONVERSATION"
  /\ row.state \in ConversationRestartable
  /\ Step(p, [Transition(row, "EXECUTING")
                EXCEPT !.appr = None, !.clar = None, !.ckpt = None],
          NewDriver("opened", Fresh, TRUE))

\* The loop insists on EXECUTING without a pending approval, then saves the
\* Turn's first checkpoint.
SaveFirstCheckpoint(p) ==
  /\ DriverAt(p, "opened")
  /\ IF row.state = "EXECUTING" /\ row.appr = None
     THEN Step(p, [row EXCEPT !.ckpt = Fresh, !.partial = FALSE], [drv[p] EXCEPT !.pc = "model"])
     ELSE Raise(p, row)

-----------------------------------------------------------------------------
(* Sampling the model: ConversationAgentLoop._drive.  Neither the request   *)
(* nor what is done with its answer looks at the state of the Task.         *)

\* An answer with tool calls is accepted as a batch and saved.
ModelProposes(p) ==
  \E cs \in SUBSET (Calls \ used) :
    /\ DriverAt(p, "model")
    /\ cs # {}
    /\ LET v == Mark(drv[p].view, cs, "pending") IN
         /\ row' = [row EXCEPT !.ckpt = v, !.partial = FALSE]
         /\ drv' = [drv EXCEPT ![p] = Continue(@, v)]
    /\ used' = used \cup cs
    /\ UNCHANGED <<phase, cancel, runs, consent, stopping>>

\* _commit_final_agent_result: the answer, the cleared checkpoint and the
\* return of a conversation to AWAITING_INPUT are one commit.  A work item goes
\* on to complete_task.
ModelFinishes(p) ==
  /\ DriverAt(p, "model")
  /\ LET cleared == [row EXCEPT !.ckpt = None]
         talk == row.kind = "CONVERSATION"
     IN Step(p,
             IF talk /\ row.state = "EXECUTING"
             THEN Transition(cleared, "AWAITING_INPUT") ELSE cleared,
             IF talk THEN IdleDriver ELSE [drv[p] EXCEPT !.pc = "verify"])

\* persist_partial_boundary: a budget or a reviewer stops the Turn, which stays
\* EXECUTING with a checkpoint to resume from.
PartialBoundary(p) ==
  /\ DriverAt(p, "model")
  /\ Step(p, [row EXCEPT !.ckpt = drv[p].view, !.partial = TRUE], IdleDriver)

\* What _record_model_failure writes: a malformed answer fails the Turn, any
\* other stop interrupts it if there is a checkpoint to keep.
RecordedModelFailure(malformed) ==
  IF ~malformed /\ row.state = "INTERRUPTED" THEN row
  ELSE IF ~malformed /\ row.state = "EXECUTING" /\ row.ckpt # None
       THEN Interrupted(row)
  ELSE IF CanMove(row.state, "FAILED") THEN Transition(row, "FAILED") ELSE row

\* The failure is recorded, then raised; a runner that _run_submitted_task owns
\* also fails the Task unless the stop is classified as resumable.
ModelFails(p) ==
  /\ DriverAt(p, "model")
  /\ \E malformed, resumable \in BOOLEAN :
       LET r == RecordedModelFailure(malformed) IN
       IF resumable /\ ~malformed THEN Step(p, r, IdleDriver)
       ELSE Step(p, FailedRow(r, drv[p].submitted), IdleDriver)

\* AgentLoopLimitExceeded is raised outside the handler that records failures.
ToolBudgetExceeded(p) == DriverAt(p, "model") /\ Raise(p, row)

-----------------------------------------------------------------------------
(* Running a batch: turn_tool_batch._run_tool_call.  Calls are taken in     *)
(* order; the order is abstracted to "some pending call".                   *)

\* The "before-tool-execution" checkpoint.
BeginCall(p) ==
  \E c \in Calls :
    /\ DriverAt(p, "batch")
    /\ c \in Pending(drv[p].view)
    /\ Step(p, [row EXCEPT !.ckpt = drv[p].view, !.partial = FALSE],
            [drv[p] EXCEPT !.pc = "invoke", !.call = c])

\* A guard (scope, exploration, plan, budget) answers a call instead of running it.
GuardCall(p) ==
  \E c \in Calls :
    /\ DriverAt(p, "batch")
    /\ c \in Pending(drv[p].view)
    /\ LET v == Mark(drv[p].view, {c}, "declined") IN
       Step(p, [row EXCEPT !.ckpt = v], Continue(drv[p], v))

\* The no-progress stop declines everything still pending.
StopBatch(p) ==
  /\ DriverAt(p, "batch")
  /\ LET v == Mark(drv[p].view, Pending(drv[p].view), "declined") IN
     Step(p, [row EXCEPT !.ckpt = v], Continue(drv[p], v))

\* Mutant: the answered call is not completed.
RecordResultStaysPending(p) ==
  /\ DriverAt(p, "recorded")
  /\ Step(p, row, Continue(drv[p], drv[p].view))

\* "tool-result-recorded"; the answer of an approved call enters the loop
\* through continue_after_approval, which saves nothing.
RecordResult(p) ==
  /\ DriverAt(p, "recorded")
  /\ LET v == Mark(drv[p].view, {drv[p].call}, "answered") IN
     Step(p, IF drv[p].approval THEN row ELSE [row EXCEPT !.ckpt = v],
          Continue(drv[p], v))

-----------------------------------------------------------------------------
(* Invoking a tool: Kernel._invoke_agent_tool, invoke_tool,                 *)
(* _execute_authorized_tool, _recover_interrupted_tool, _resume_safe_tool.  *)

At(p, pc) == [drv[p] EXCEPT !.pc = pc]

\* Outside EXECUTING, over a call that is still in progress, or with a question
\* on top of another request, an invocation raises.
InvokeRefused(p) ==
  /\ DriverAt(p, "invoke")
  /\ \/ row.state # "EXECUTING"
     \/ /\ row.ledger[drv[p].call] \in {"PREPARED", "RUNNING"}
        /\ ~drv[p].recover
     \/ /\ drv[p].call \in Gated /\ row.ledger[drv[p].call] = "NEW"
        /\ row.appr # None
     \/ /\ drv[p].call \in Asks
        /\ row.appr # None \/ row.clar # None
  /\ Raise(p, row)

\* The ledger answers a call that has ended; no provider runs.
ReuseResult(p) ==
  /\ DriverAt(p, "invoke") /\ row.state = "EXECUTING"
  /\ row.ledger[drv[p].call] \in Reusable
  /\ Step(p, row, At(p, "recorded"))

\* Recovery never repeats a NON_IDEMPOTENT call that had started.
RecoverUnknown(p) ==
  LET c == drv[p].call IN
  /\ DriverAt(p, "invoke") /\ row.state = "EXECUTING" /\ drv[p].recover
  /\ row.ledger[c] = "RUNNING" /\ c \in NonIdempotent
  /\ Step(p, Executed(row, c, "UNKNOWN_OUTCOME"), At(p, "recorded"))

\* The provider of c starts in the commit that marks the record RUNNING.
StartProvider(p, c, pc) ==
  /\ row' = Executed(row, c, "RUNNING")
  /\ drv' = [drv EXCEPT ![p] = At(p, pc)]
  /\ runs' = [runs EXCEPT ![c] = IF @ < RunCap(c) THEN @ + 1 ELSE @]
  /\ UNCHANGED <<phase, cancel, used, consent, stopping>>

\* Mutant: a call that failed is tried again.
RecoverRunRetries(p) ==
  LET c == drv[p].call IN
  /\ DriverAt(p, "invoke") /\ row.state = "EXECUTING" /\ drv[p].recover
  /\ row.ledger[c] \in {"PREPARED", "FAILED"}
  /\ StartProvider(p, c, "rerunning")

RecoverRun(p) ==
  LET c == drv[p].call IN
  /\ DriverAt(p, "invoke") /\ row.state = "EXECUTING" /\ drv[p].recover
  /\ \/ row.ledger[c] = "PREPARED"
     \/ row.ledger[c] = "RUNNING" /\ c \notin NonIdempotent
  /\ StartProvider(p, c, "rerunning")

\* The policy denies the call: a result, but no execution record.
PolicyDenies(p) ==
  /\ DriverAt(p, "invoke") /\ row.state = "EXECUTING"
  /\ drv[p].call \notin Gated \cup Asks
  /\ row.ledger[drv[p].call] = "NEW"
  /\ Step(p, row, At(p, "recorded"))

\* The Turn is suspended on an approval that carries its checkpoint.
AskApproval(p) ==
  LET c == drv[p].call IN
  /\ DriverAt(p, "invoke") /\ row.state = "EXECUTING"
  /\ c \in Gated /\ row.ledger[c] = "NEW" /\ row.appr = None
  /\ row' = [Transition(row, "AWAITING_APPROVAL")
               EXCEPT !.appr = [call |-> c, view |-> drv[p].view]]
  /\ drv' = [drv EXCEPT ![p] = IdleDriver]
  /\ consent' = [consent EXCEPT ![c] = "asked"]
  /\ UNCHANGED <<phase, cancel, used, runs, stopping>>

\* core.request_input suspends the Turn on a question, in one commit with its checkpoint.
AskUser(p) ==
  LET c == drv[p].call IN
  /\ DriverAt(p, "invoke") /\ row.state = "EXECUTING"
  /\ c \in Asks /\ row.appr = None /\ row.clar = None
  /\ Step(p, [Transition(row, "AWAITING_USER") EXCEPT !.clar = c, !.ckpt = drv[p].view],
          IdleDriver)

\* Mutant: the policy's gate is lost.
PrepareUngated(p) ==
  LET c == drv[p].call IN
  /\ DriverAt(p, "invoke") /\ row.state = "EXECUTING"
  /\ c \notin Asks /\ row.ledger[c] = "NEW"
  /\ Step(p, Executed(row, c, "PREPARED"), At(p, "prepared"))

Prepare(p) ==
  LET c == drv[p].call IN
  /\ DriverAt(p, "invoke") /\ row.state = "EXECUTING"
  /\ c \notin Gated \cup Asks /\ row.ledger[c] = "NEW"
  /\ Step(p, Executed(row, c, "PREPARED"), At(p, "prepared"))

\* After an approval the PREPARED record goes into the row the decision was
\* committed with, whatever the store holds by now.
PrepareApproved(p) ==
  /\ DriverAt(p, "approved")
  /\ Step(p, Executed(drv[p].snap, drv[p].call, "PREPARED"),
          [drv[p] EXCEPT !.pc = "prepared", !.snap = None])

MarkRunning(p) ==
  /\ DriverAt(p, "prepared")
  /\ StartProvider(p, drv[p].call, "running")

\* The provider ends; a lost or timed out effect is UNKNOWN_OUTCOME, which a
\* recovered call never reports.
ProviderReturns(p) ==
  \E how \in Reusable :
    /\ phase[p] = "up"
    /\ \/ drv[p].pc = "running"
       \/ drv[p].pc = "rerunning" /\ how \in Settled
    /\ Step(p, Executed(row, drv[p].call, how), At(p, "recorded"))

\* Any of these commits fails when another process has moved the row's version.
VersionConflict(p) ==
  /\ Procs # {p}
  /\ phase[p] = "up"
  /\ drv[p].pc \in {"batch", "invoke", "approved", "prepared", "running",
                    "rerunning", "recorded"}
  /\ Raise(p, row)

-----------------------------------------------------------------------------
(* Completing a work item: Kernel.complete_task walks SUCCESS_PATH.         *)

\* Mutant: a hop that does not ask the table.
CompleteHopUnchecked(p, pc, t, next) ==
  DriverAt(p, pc) /\ Step(p, Transition(row, t), next)

CompleteHop(p, pc, t, next) ==
  /\ DriverAt(p, pc)
  /\ IF CanMove(row.state, t) THEN Step(p, Transition(row, t), next)
                              ELSE Raise(p, row)

CompleteVerify(p) == CompleteHop(p, "verify", "VERIFYING", At(p, "finalize"))
CompleteFinalize(p) == CompleteHop(p, "finalize", "FINALIZING", At(p, "succeed"))
CompleteSucceed(p) == CompleteHop(p, "succeed", "SUCCEEDED", IdleDriver)

-----------------------------------------------------------------------------
(* Deciding whether a checkpoint may be continued: kernel_checkpoint.py and *)
(* the rule-based compatibility policy.                                     *)

\* What has drifted since the checkpoint was taken: nothing, something a
\* runtime upgrade explains, something the event log proves, or an identity.
Drift == {"none", "upgrade", "provable", "identity"}

AllPendingSettled(r, v) == \A c \in Pending(v) : r.ledger[c] \in Settled

\* Executions that are not provably settled ones of an earlier Turn.
CountedExecutions(r, v) ==
  {c \in Calls : /\ r.ledger[c] # "NEW"
                 /\ ~ /\ r.kind = "CONVERSATION"
                      /\ v[c] = "unseen"
                      /\ r.ledger[c] \in Settled}

Compatibility(r, v, drift) ==
  IF \E c \in NonIdempotent : r.ledger[c] = "RUNNING" THEN "BLOCKED"
  ELSE IF drift = "none" THEN "EXACT_RESUME"
  ELSE IF drift # "identity" /\ Pending(v) # {} /\ AllPendingSettled(r, v)
       THEN "RECONCILE_REQUIRED"
  ELSE IF drift # "upgrade" THEN "BLOCKED"
  ELSE IF Pending(v) # {} \/ CountedExecutions(r, v) # {} THEN "REQUIRES_VALIDATION"
  ELSE "REBASE_REQUIRED"

\* _mark_checkpoint_conflict: the Turn can no longer be continued.
Conflicted(r) == IF CanMove(r.state, "CONFLICT") THEN Transition(r, "CONFLICT") ELSE r

-----------------------------------------------------------------------------
(* The user: approvals, answers, new directions, interrupts, cancellation.  *)
(* A continuation waits for the Task's registered runner to end, so it      *)
(* finds the driver idle.                                                   *)

\* resume_agent_turn refuses an approval whose checkpoint no longer fits, and
\* the refusal invalidates it.
ApprovalConflict(p) ==
  /\ phase[p] = "up" /\ Idle(p)
  /\ row.appr # None
  /\ \E drift \in Drift :
       Compatibility(row, row.appr.view, drift) # "EXACT_RESUME"
  /\ row' = Conflicted(row)
  /\ UNCHANGED <<drv, phase, cancel, used, runs, consent, stopping>>

\* Mutant: the tool runs whatever the decision.
DecidedAlwaysRuns(d, r, c, decision) ==
  [d EXCEPT !.call = c, !.approval = TRUE, !.snap = r]

\* A denial is answered in memory; an approval carries the committed row to the tool.
Decided(d, r, c, decision) ==
  IF decision = "approved"
  THEN [d EXCEPT !.call = c, !.approval = TRUE, !.snap = r]
  ELSE Continue(d, Mark(d.view, {c}, "declined"))

\* _resolve_approval commits the decision before anything runs.
ResolveApproval(p) ==
  \E decision \in {"approved", "denied"} :
    /\ phase[p] = "up" /\ Idle(p)
    /\ row.state = "AWAITING_APPROVAL"
    /\ Compatibility(row, row.appr.view, "none") = "EXACT_RESUME"
    /\ LET c == row.appr.call
           v == row.appr.view
           r == [Transition(row, "EXECUTING") EXCEPT !.appr = None, !.ckpt = v]
       IN /\ row' = r
          /\ drv' = [drv EXCEPT ![p] =
                       Decided(NewDriver("approved", v, FALSE), r, c, decision)]
          /\ consent' = [consent EXCEPT ![c] = decision]
    /\ UNCHANGED <<phase, cancel, used, runs, stopping>>

\* resolve_agent_clarification: the answer, the reopened Task and the advanced
\* checkpoint are one commit.
AnswerUser(p) ==
  /\ phase[p] = "up" /\ Idle(p)
  /\ row.state = "AWAITING_USER" /\ row.ckpt # None
  /\ row.clar \in Pending(row.ckpt)
  /\ Compatibility(row, row.ckpt, "none") = "EXACT_RESUME"
  /\ LET v == Mark(row.ckpt, {row.clar}, "answered") IN
     Step(p, [Transition(row, "EXECUTING") EXCEPT !.clar = None, !.ckpt = v],
          Continue(NewDriver("batch", v, FALSE), v))

\* route_runtime_input on a Task that waits for an approval: every pending call
\* is told it was superseded.  No runner is started.
SupersedeApproval(p) ==
  /\ Free(p)
  /\ row.state = "AWAITING_APPROVAL" /\ row.ckpt # None
  /\ row' = [Transition(row, "EXECUTING") EXCEPT
               !.appr = None,
               !.ckpt = Mark(row.ckpt, Pending(row.ckpt), "declined")]
  /\ consent' = [consent EXCEPT ![row.appr.call] = "superseded"]
  /\ UNCHANGED <<drv, phase, cancel, used, runs, stopping>>

\* SDKRuntime.interrupt: the commit and the runner's cancellation, with no
\* suspension between them.
Interrupt(p) ==
  /\ Free(p)
  /\ row.state \in {"EXECUTING", "AWAITING_APPROVAL", "AWAITING_USER"}
  /\ Step(p, Interrupted(row), IdleDriver)

\* _settle_open_batch_for_cancel: no call is answered while one of the pending
\* calls is running or unknown; otherwise each of them is told it never started.
SettledForCancel(r) ==
  IF \/ r.ckpt = None
     \/ \E c \in Pending(r.ckpt) : r.ledger[c] \in {"RUNNING", "UNKNOWN_OUTCOME"}
  THEN r
  ELSE [r EXCEPT !.ckpt = Mark(@, Pending(@), "cancelled")]

\* Cancelling a Task is three steps with the event loop free between them: the
\* open batch is settled and owned processes are cleaned up ...
CancelBegin(p) ==
  /\ Free(p) /\ cancel[p] = "no"
  /\ row.state \notin TerminalStates
  /\ row' = SettledForCancel(row)
  /\ cancel' = [cancel EXCEPT ![p] = "cleanup"]
  /\ stopping' = TRUE
  /\ UNCHANGED <<drv, phase, used, runs, consent>>

\* ... the row moves to CANCELLED, unless it has become terminal ...
CancelCommit(p) ==
  /\ Free(p) /\ cancel[p] = "cleanup"
  /\ IF CanMove(row.state, "CANCELLED")
     THEN /\ row' = Transition(row, "CANCELLED")
          /\ cancel' = [cancel EXCEPT ![p] = "closing"]
     ELSE /\ cancel' = [cancel EXCEPT ![p] = "no"]
          /\ UNCHANGED row
  /\ UNCHANGED <<drv, phase, used, runs, consent, stopping>>

\* ... and, once the scope is closed, the runner is cancelled.
CancelDone(p) ==
  /\ Free(p) /\ cancel[p] = "closing"
  /\ cancel' = [cancel EXCEPT ![p] = "no"]
  /\ drv' = [drv EXCEPT ![p] = IdleDriver]
  /\ UNCHANGED <<row, phase, used, runs, consent, stopping>>

\* A new conversation in the Session supersedes an idle one.
SupersedeConversation(p) ==
  /\ phase[p] = "up" /\ Idle(p)
  /\ row.state = "AWAITING_INPUT"
  /\ Step(p, Transition(row, "SUCCEEDED"), drv[p])

-----------------------------------------------------------------------------
(* Resuming a stopped Turn: ConversationAgentLoop.resume_checkpoint.        *)

\* run_task resumes a stopped work item, or a Turn left at a partial boundary;
\* a CLI resume runs outside _run_submitted_task.
MayContinue(p, submitted) ==
  /\ phase[p] = "up" /\ Idle(p)
  /\ row.state \in {"EXECUTING", "INTERRUPTED", "CONFLICT"}
  /\ submitted => IF row.state = "EXECUTING" THEN row.partial
                                            ELSE row.kind = "WORK_ITEM"

\* A Turn that was left EXECUTING needs no reopening.
Reconciled(v, submitted) ==
  NewDriver(IF row.state = "EXECUTING" THEN "resuming" ELSE "reconciled", v, submitted)

\* Only an INTERRUPTED Turn, or one with drift the log proves, is reconciled:
\* every pending call must have ended, and its result becomes its answer.
Reconciles(action) ==
  \/ action = "EXACT_RESUME" /\ row.state = "INTERRUPTED"
  \/ action = "RECONCILE_REQUIRED"

ResumeReconciled(p) ==
  \E drift \in Drift, submitted \in BOOLEAN :
    /\ MayContinue(p, submitted) /\ row.ckpt # None
    /\ Reconciles(Compatibility(row, row.ckpt, drift))
    /\ AllPendingSettled(row, row.ckpt)
    /\ LET v == Mark(row.ckpt, Pending(row.ckpt), "answered") IN
       Step(p, [row EXCEPT !.ckpt = v], Reconciled(v, submitted))

\* An exact checkpoint of a running or conflicted Turn, or one rebased over a
\* harmless upgrade, is continued as it is.
ResumeUnchanged(p) ==
  \E drift \in Drift, submitted \in BOOLEAN :
    /\ MayContinue(p, submitted) /\ row.ckpt # None
    /\ LET action == Compatibility(row, row.ckpt, drift) IN
       \/ action = "EXACT_RESUME" /\ row.state # "INTERRUPTED"
       \/ action = "REBASE_REQUIRED"
    /\ Step(p, row, Reconciled(row.ckpt, submitted))

\* A checkpoint that may not be continued is a conflict, recorded in the row; a
\* submitted runner then fails the Task.
ResumeConflict(p) ==
  \E drift \in Drift, submitted \in BOOLEAN :
    /\ MayContinue(p, submitted) /\ row.ckpt # None
    /\ Compatibility(row, row.ckpt, drift) \in {"BLOCKED", "REQUIRES_VALIDATION"}
    /\ row' = FailedRow(Conflicted(row), submitted)
    /\ UNCHANGED <<drv, phase, cancel, used, runs, consent, stopping>>

\* With no checkpoint, or a pending call that has not ended, resuming raises,
\* and a submitted runner fails the Task.
ResumeRefused(p) ==
  /\ MayContinue(p, TRUE) /\ row.state # "EXECUTING"
  /\ \/ row.ckpt = None
     \/ /\ row.ckpt # None
        /\ Reconciles(Compatibility(row, row.ckpt, "none"))
        /\ ~AllPendingSettled(row, row.ckpt)
  /\ row' = FailedRow(row, TRUE)
  /\ UNCHANGED <<drv, phase, cancel, used, runs, consent, stopping>>

\* Mutant: the Task is reopened as it was found before the checkpoint was saved.
ResumeOpenUnchecked(p) ==
  DriverAt(p, "reconciled") /\ Step(p, Transition(row, "EXECUTING"), At(p, "resuming"))

\* The Task is reopened, which drops no request it still carries ...
ResumeOpen(p) ==
  /\ DriverAt(p, "reconciled")
  /\ IF MayResume(row)
     THEN Step(p, Transition(row, "EXECUTING"), At(p, "resuming"))
     ELSE Raise(p, row)

\* ... and the resumed checkpoint saved before the loop goes on, now allowed to
\* recover calls that were under way.
ResumeSave(p) ==
  /\ DriverAt(p, "resuming")
  /\ Step(p, [row EXCEPT !.ckpt = drv[p].view, !.partial = FALSE],
          Continue([drv[p] EXCEPT !.recover = TRUE], drv[p].view))

-----------------------------------------------------------------------------
(* Crashes, restarts and orphans: settle_orphaned_task.                     *)

\* Mutant: only the states named "running" are settled.
RunningClaims == {"EXECUTING", "ROUTING", "CREATED",
                  "INTAKE", "RESOLVING_PROJECT", "SELECTING_EXTENSIONS"}

\* _ORPHANED_SETTLEMENTS: states that claim work of a process.
OrphanClaims == {"EXECUTING", "ROUTING", "VERIFYING", "FINALIZING", "CREATED",
                 "INTAKE", "RESOLVING_PROJECT", "SELECTING_EXTENSIONS"}

Crash(p) ==
  /\ phase[p] # "down"
  /\ phase' = [phase EXCEPT ![p] = "down"]
  /\ drv' = [drv EXCEPT ![p] = IdleDriver]
  /\ cancel' = [cancel EXCEPT ![p] = "no"]
  /\ UNCHANGED <<row, used, runs, consent, stopping>>

\* A start settles orphans before it accepts input; so does an input that finds
\* the Task without a live Turn.
BeginSettling(p) ==
  /\ \/ phase[p] = "down"
     \/ phase[p] = "up" /\ Idle(p) /\ row.state \in OrphanClaims
  /\ phase' = [phase EXCEPT ![p] = "settling"]
  /\ UNCHANGED <<row, drv, cancel, used, runs, consent, stopping>>

\* One commit of a settlement; ROUTING and VERIFYING go back to EXECUTING first.
SettleStep(p) ==
  /\ phase[p] = "settling"
  /\ row.state \in OrphanClaims
  /\ row' = CASE row.state = "EXECUTING" -> Interrupted(row)
              [] row.state \in {"ROUTING", "VERIFYING"} -> Transition(row, "EXECUTING")
              [] row.state = "FINALIZING" -> Transition(row, "SUCCEEDED")
              [] OTHER -> Transition(row, "CANCELLED")
  /\ UNCHANGED <<drv, phase, cancel, used, runs, consent, stopping>>

EndSettling(p) ==
  /\ phase[p] = "settling"
  /\ row.state \notin OrphanClaims
  /\ phase' = [phase EXCEPT ![p] = "up"]
  /\ UNCHANGED <<row, drv, cancel, used, runs, consent, stopping>>

-----------------------------------------------------------------------------
NewRow(k) == [state |-> "CREATED", kind |-> k, appr |-> None, clar |-> None,
              ckpt |-> None, partial |-> FALSE, ledger |-> [c \in Calls |-> "NEW"]]

\* A Task just submitted in some process: its runner has not run yet.
Init ==
  /\ \E k \in Kinds : row = NewRow(k)
  /\ \E p \in Procs :
       drv = [q \in Procs |-> IF q = p THEN NewDriver("setup", Fresh, TRUE)
                                       ELSE IdleDriver]
  /\ phase = [p \in Procs |-> "up"]
  /\ cancel = [p \in Procs |-> "no"]
  /\ used = {}
  /\ runs = [c \in Calls |-> 0]
  /\ consent = [c \in Calls |-> "none"]
  /\ stopping = FALSE

\* What a driver does on its own once its Turn has begun.
DriverStep(p) ==
  \/ AdvanceSetup(p) \/ SaveFirstCheckpoint(p)
  \/ ModelProposes(p) \/ ModelFinishes(p) \/ PartialBoundary(p)
  \/ ModelFails(p) \/ ToolBudgetExceeded(p)
  \/ BeginCall(p) \/ GuardCall(p) \/ StopBatch(p) \/ RecordResult(p)
  \/ InvokeRefused(p) \/ ReuseResult(p) \/ RecoverUnknown(p) \/ RecoverRun(p)
  \/ PolicyDenies(p) \/ AskApproval(p) \/ AskUser(p)
  \/ Prepare(p) \/ PrepareApproved(p) \/ MarkRunning(p) \/ ProviderReturns(p)
  \/ VersionConflict(p)
  \/ CompleteVerify(p) \/ CompleteFinalize(p) \/ CompleteSucceed(p)
  \/ ResumeOpen(p) \/ ResumeSave(p)

\* What the user does through an SDK entry point.
UserStep(p) ==
  \/ StartTurn(p) \/ FreshTurn(p) \/ SupersedeConversation(p)
  \/ ApprovalConflict(p) \/ ResolveApproval(p) \/ AnswerUser(p)
  \/ SupersedeApproval(p) \/ Interrupt(p) \/ CancelBegin(p)
  \/ ResumeReconciled(p) \/ ResumeUnchanged(p)
  \/ ResumeConflict(p) \/ ResumeRefused(p)

CancelStep(p) == CancelCommit(p) \/ CancelDone(p)
SettlingStep(p) == SettleStep(p) \/ EndSettling(p)

Next == \E p \in Procs : \/ DriverStep(p) \/ UserStep(p) \/ CancelStep(p)
                         \/ SettlingStep(p) \/ BeginSettling(p) \/ Crash(p)

Spec == Init /\ [][Next]_vars

\* Driver, handler and settlement code keeps running while its process lives:
\* model and tool calls have deadlines, cleanups a bounded grace.  A cancel
\* handler waits for the event loop, which runs every ready callback at each
\* turn of the loop, hence strong fairness.  Nothing makes the user act or a
\* crashed process come back.
Fairness == \A p \in Procs :
  /\ WF_vars(DriverStep(p))
  /\ SF_vars(CancelStep(p))
  /\ WF_vars(SettlingStep(p))

LiveSpec == Spec /\ Fairness

-----------------------------------------------------------------------------
(* Properties.                                                              *)

\* A Task that waits carries exactly the request it waits for, about a call its
\* checkpoint still holds open or, once a cancellation has begun, has closed.
\* A Task that runs, or idles between Turns, carries none: INTERRUPTED keeps old
\* requests, so this rests on every way out of it dropping them, and holds until
\* a cancellation closes calls of a Task that then runs on.
RequestMatchesState ==
  /\ row.state = "AWAITING_APPROVAL" =>
       /\ row.appr # None
       /\ row.appr.call \in Pending(row.appr.view)
       /\ row.ledger[row.appr.call] = "NEW"
  /\ row.state = "AWAITING_USER" =>
       /\ row.clar # None /\ row.ckpt # None
       /\ row.ckpt[row.clar] \in {"pending", "cancelled"}
  /\ ~stopping => row.appr = None \/ row.clar = None
  /\ ~stopping /\ row.state \in {"EXECUTING", "AWAITING_INPUT", "VERIFYING", "FINALIZING"} =>
       row.appr = None /\ row.clar = None

\* Whatever processes interleave, and whatever stale row one of them writes back:
\* a Task that waits has something to wait for, or nobody could ever wake it, and
\* a Task that ended or conflicted offers nothing to approve or answer.
RequestPresence ==
  /\ row.state = "AWAITING_APPROVAL" => row.appr # None
  /\ row.state = "AWAITING_USER" => row.clar # None
  /\ DropsPending(row.state) => row.appr = None /\ row.clar = None

\* A gated call starts only while the user's latest word on it is "approved":
\* a denied, superseded or re-requested call does not start on an old approval.
ConsentBeforeRun ==
  [][\A c \in Gated : runs'[c] # runs[c] => consent[c] = "approved"]_vars

\* Through crashes, recovery, approvals and resumes, the provider of a
\* NON_IDEMPOTENT tool starts at most once for one call.
NonIdempotentOnce == \A c \in NonIdempotent : runs[c] <= 1

\* No tool starts for a Task that has been stopped: at the commit that starts
\* a provider the row is EXECUTING.
StartsOnlyWhileExecuting ==
  [][\A c \in Calls : runs'[c] # runs[c] => row.state = "EXECUTING"]_vars

\* A call the user denied, or superseded with a new direction, never ran and
\* never will: no resume, recovery or second request starts it.
RefusedNeverRan ==
  \A c \in Gated : consent[c] \in {"denied", "superseded"} => runs[c] = 0

\* A call the transcript reports as declined was not started: the message of a
\* no-progress stop says so.
DeclinedNeverRan ==
  row.ckpt # None => \A c \in Calls : row.ckpt[c] = "declined" => runs[c] = 0

\* A call the transcript reports as cancelled with the Task was not started.
CancelledNeverStarted ==
  row.ckpt # None => \A c \in Calls : row.ckpt[c] = "cancelled" => runs[c] = 0

\* A call answered in the transcript has ended: no result is shown for a call
\* whose record is still open.
AnsweredHasEnded ==
  row.ckpt # None =>
    \A c \in Calls : row.ckpt[c] = "answered" =>
                       row.ledger[c] \notin {"PREPARED", "RUNNING"}

\* A Task that ended stays as it ended.
EndIsFinal ==
  [][row.state \in TerminalStates => row'.state = row.state]_vars

\* Several processes act on the Task, and only one of their steps can take it out of
\* an end: the start of a tool by a driver that carries an approval across it
\* (_execute_authorized_tool with next_state).  Every other handler, settlement and
\* resumption looks at the row it moves, however long it waited before.
OnlyApprovalsOverwriteEnds ==
  [][row.state \in TerminalStates =>
       \/ row'.state = row.state
       \/ \E p \in Procs : /\ drv[p].pc = "approved" /\ drv'[p].pc = "prepared"
                           /\ drv[p].snap # row]_vars

\* The setup and success-path states claim work of a live process: outside a
\* crash or a settlement, only the driver that walks them holds the row there.
ClaimsHaveDrivers ==
  row.state \in {"CREATED", "INTAKE", "RESOLVING_PROJECT", "SELECTING_EXTENSIONS",
                 "ROUTING", "VERIFYING", "FINALIZING"} =>
    \E p \in Procs : ~Idle(p) \/ phase[p] # "up"

\* No Turn that died of an exception leaves its Task EXECUTING: the loop's
\* failure handler records an outcome first.
FailuresAreRecorded ==
  \A p \in Procs : phase[p] = "up" /\ drv[p].pc = "raised" => row.state # "EXECUTING"

\* A settlement that interrupts a Task leaves a checkpoint, so that a resume
\* can run its work again.
SettlementKeepsCheckpoint ==
  [][\A p \in Procs :
       phase[p] = "settling" /\ row.state = "EXECUTING" /\ row'.state = "INTERRUPTED"
         => row'.ckpt # None]_vars

\* Only a Task without a live driver is settled: at start-up, settle_orphaned_task
\* takes that for granted.
SettlesOnlyOrphans ==
  [][(\E p \in Procs : SettleStep(p)) => \A q \in Procs : Idle(q)]_vars

\* A process with no Turn and no cancellation under way.
Quiet(p) == Idle(p) /\ cancel[p] = "no"

\* Every Turn and every cancel handler comes to rest, however often a Turn was
\* resumed before.
TurnsEnd == \A p \in Procs : ~Quiet(p) ~> Quiet(p)

\* A cancellation that was accepted is over only when the Task has ended, or with
\* its process: no driver of that process takes the Task elsewhere first.
CancelSettles ==
  [][\A p \in Procs :
       cancel[p] = "cleanup" /\ cancel'[p] # "cleanup" =>
         row'.state \in TerminalStates \/ phase'[p] = "down"]_vars

\* Whatever a live process began with a Task it brings to an end, and a
\* cancellation to the Task's end (run_task, cancel_task).
TaskSettles == TurnsEnd /\ CancelSettles
=============================================================================
