-------------------------- MODULE ConversationLoop --------------------------
(***************************************************************************)
(* One Turn of a conversation, seen from its model calls.  A round asks    *)
(* the model once (ConversationAgentLoop._drive); within it the resilient  *)
(* provider may send several physical attempts (ResilientModelProvider),   *)
(* while the text that arrives is already shown to the user                *)
(* (ResponseTextStream).  The answer of a round is a batch of tool calls,  *)
(* or a candidate that the finalization gates accept or send back.         *)
(*                                                                         *)
(* The checkpoint in the Task's row has the counters that bound the Turn;  *)
(* the driver works with its own and saves them at some points only.  A    *)
(* crash, a cancelled runner, a refused commit or a failed model call ends *)
(* the driver anywhere; resume_checkpoint goes on from the row.            *)
(*                                                                         *)
(* A request is sent by streaming until the policy falls back to a single  *)
(* response.  One driver runs at a time (TurnRunners).  Approvals and what *)
(* happens in a batch (ToolBatch, TaskLifecycle), how a message reaches    *)
(* the queue (Steering), compaction, token counts and delays are left out. *)
(* A text is whole or absent; one of blanks only is left out.              *)
(***************************************************************************)
EXTENDS Naturals, FiniteSets, TaskStates

CONSTANTS
  MaxCalls,     \* max_model_calls
  MaxAttempts,  \* max_provider_attempts
  MaxReviews,   \* completion_review_max_continuations, of which one at most counts
  MaxInputs,    \* bound: messages of the user
  MaxResumes    \* bound: resumptions

ASSUME LimitsAssumption == {MaxCalls, MaxAttempts} \subseteq Nat \ {0}
ASSUME ReviewsAssumption == MaxReviews \in 0..1
ASSUME BoundsAssumption == {MaxInputs, MaxResumes} \subseteq Nat

VARIABLES
  row,     \* the Task in the store: its state, its checkpoint's counters and batch
  drv,     \* the driver and its own counters
  req,     \* the model request of the round
  ui,      \* the round's text as the user sees it: the attempts it came from
  logged,  \* the attempts whose text an event of the round records as said
  inbox,   \* steering queued and not applied: "none", "steer" or "replace"
  hist     \* history: rounds begun and not broken off, continuations, bounds

vars == <<row, drv, req, ui, logged, inbox, hist>>
shown == <<req, ui, logged>>

\* The kinds of response.  "badcalls" breaks the tool protocol, "duplicate" reuses
\* a call id of the Turn, "malformed" is no valid response.
Kinds == {"answer", "length", "calls", "badcalls", "duplicate", "malformed"}
Responses == [kind : {"answer", "length"}, text : {TRUE}]
             \cup [kind : Kinds \ {"answer", "length"}, text : BOOLEAN]
NoResponse == [kind |-> "none", text |-> FALSE]

\* Why an attempt failed, by what its retry may do.
SafeToRetry == {"same", "resample", "fallback"}
Reasons == SafeToRetry \cup {"none", "never", "unsafe", "malformed"}

\* Where a round is under way; elsewhere a batch runs or the driver is between rounds.
RoundPlaces == {"attempt", "stream", "post", "completed", "failed", "backoff", "modelfailed",
                "protocol", "check", "candidate", "record", "commentary", "save", "gate",
                "review", "accept", "commit"}
Places == RoundPlaces \cup {"off", "boundary", "budget", "batch", "raised"}

\* Where the driver waits, so that its coroutine may be cancelled.
Waiting == {"stream", "post", "backoff", "batch", "review"}

\* `soft`: _is_resumable_stop holds of the exception that ends the driver.
NoDriver == [pc |-> "off", calls |-> 0, reviews |-> 0, edits |-> 0, soft |-> FALSE]
NewRequest == [attempt |-> 1, fallback |-> FALSE, visible |-> FALSE, why |-> "none",
               resp |-> NoResponse]
NothingShown == [text |-> {}, status |-> "none"]

Init ==
  /\ row = [state |-> "EXECUTING", ckpt |-> TRUE, calls |-> 0, reviews |-> 0, edits |-> 0,
            batch |-> FALSE]
  /\ drv = [NoDriver EXCEPT !.pc = "boundary"]
  /\ req = NewRequest
  /\ ui = NothingShown
  /\ logged = {}
  /\ inbox = "none"
  /\ hist = [rounds |-> 0, reviewed |-> 0, repaired |-> 0, replaced |-> 0, inputs |-> 0,
             resumes |-> 0]

-----------------------------------------------------------------------------
(* What several handlers do.                                               *)

Goto(pc) == [drv EXCEPT !.pc = pc]

\* ResponseTextStream.status: a text of which nothing was shown has no status.
Marked(status) == IF ui.text = {} THEN ui ELSE [ui EXCEPT !.status = status]

\* ResponseTextStream.__exit__: what was not committed is retracted.
Closed(status) == IF ui.status = "committed" THEN ui ELSE Marked(status)

\* _save_agent_checkpoint writes whatever state the Task is in.
Saved(calls) == [row EXCEPT !.ckpt = TRUE, !.calls = calls]

\* Mutant: the checkpoint does not carry the finalization counters.
PersistedWithoutCounters(d) == Saved(d.calls)

\* persist_finalization_state and persist_partial_boundary.
Persisted(d) == [Saved(d.calls) EXCEPT !.reviews = d.reviews, !.edits = d.edits]

\* A move the transition table forbids is not made, and the recording fails.
FailedRow ==
  IF CanMove(row.state, "FAILED") THEN [row EXCEPT !.state = "FAILED", !.ckpt = FALSE] ELSE row

\* The round, if one is under way, is broken off.
BrokenOff ==
  IF drv.pc \in RoundPlaces THEN [hist EXCEPT !.rounds = @ - 1] ELSE hist

-----------------------------------------------------------------------------
(* Between the rounds.                                                     *)

\* _apply_pending_steering: one commit has the event and the checkpoint with the
\* driver's counts; a REPLACE clears the finalization counters of the checkpoint,
\* not the driver's.
Steered ==
  IF inbox = "replace" THEN [Saved(drv.calls) EXCEPT !.reviews = 0, !.edits = 0]
  ELSE Saved(drv.calls)

AppliesInbox ==
  /\ inbox # "none"
  /\ row' = Steered
  /\ inbox' = "none"
  /\ hist' = [hist EXCEPT !.replaced = @ + IF inbox = "replace" THEN 1 ELSE 0]

\* The safe point before the model.
Boundary ==
  /\ drv.pc = "boundary"
  /\ drv' = Goto("budget")
  /\ AppliesInbox \/ (inbox = "none" /\ UNCHANGED <<row, inbox, hist>>)
  /\ UNCHANGED shown

\* persist_partial_boundary: the Turn stops here, and may be resumed.
Partial ==
  /\ row' = Persisted(drv)
  /\ drv' = NoDriver
  /\ ui' = Closed("discarded")
  /\ UNCHANGED <<req, logged, inbox, hist>>

BudgetSpent == drv.pc = "budget" /\ drv.calls >= MaxCalls /\ Partial

StartRound ==
  /\ drv.pc = "budget" /\ drv.calls < MaxCalls
  /\ drv' = Goto("attempt")
  /\ req' = NewRequest
  /\ ui' = NothingShown
  /\ logged' = {}
  /\ hist' = [hist EXCEPT !.rounds = @ + 1]
  /\ UNCHANGED <<row, inbox>>

-----------------------------------------------------------------------------
(* The attempts of a round (ResilientModelProvider.stream_complete).       *)

\* attempt_started is recorded before anything is sent.
SendAttempt ==
  /\ drv.pc = "attempt"
  /\ drv' = Goto(IF req.fallback THEN "post" ELSE "stream")
  /\ UNCHANGED <<row, shown, inbox, hist>>

\* Text or reasoning arrives; both make the attempt visible.
Delta ==
  /\ drv.pc = "stream"
  /\ req' = [req EXCEPT !.visible = TRUE]
  /\ \/ ui' = [text |-> ui.text \cup {req.attempt}, status |-> "generating"]
     \/ ui' = ui
  /\ UNCHANGED <<row, drv, logged, inbox, hist>>

\* The response is complete; a streamed one has shown all of its text.
StreamCompletes ==
  /\ drv.pc = "stream"
  /\ \E resp \in Responses :
       /\ req.attempt \in ui.text => resp.text
       /\ req' = [req EXCEPT !.resp = resp, !.visible = @ \/ resp.text]
       /\ ui' = IF resp.text THEN [text |-> ui.text \cup {req.attempt}, status |-> "generating"]
                ELSE ui
  /\ drv' = Goto("completed")
  /\ UNCHANGED <<row, logged, inbox, hist>>

PostCompletes ==
  /\ drv.pc = "post"
  /\ \E resp \in Responses : req' = [req EXCEPT !.resp = resp]
  /\ drv' = Goto("completed")
  /\ UNCHANGED <<row, ui, logged, inbox, hist>>

\* Mutant: the failure does not say that something was shown.
FailedForUnseen(why) == [req EXCEPT !.why = why]

\* with_visibility: after visible output no retry is safe.
FailedFor(why) == [req EXCEPT !.why = IF req.visible THEN "unsafe" ELSE why]

\* A transport error, an unusable body, a stream that ends early (by itself, or
\* because the Task's cancellation scope was closed), or an unknown error.
AttemptFails ==
  /\ drv.pc \in {"stream", "post"}
  /\ \E why \in SafeToRetry \cup {"never"} :
       /\ why = "fallback" => drv.pc = "stream"
       /\ req' = FailedFor(why)
  /\ drv' = Goto("failed")
  /\ UNCHANGED <<row, ui, logged, inbox, hist>>

\* The adapter finds calls it cannot translate: RecoverableToolProtocolError.
AdapterRejectsCalls ==
  /\ drv.pc \in {"stream", "post"}
  /\ drv' = Goto("protocol")
  /\ UNCHANGED <<row, shown, inbox, hist>>

\* attempt_completed is recorded after the response has been handed on.
AnswerNoted ==
  /\ drv.pc = "completed"
  /\ drv' = Goto("check")
  /\ UNCHANGED <<row, shown, inbox, hist>>

\* Mutant: a response whose completion could not be recorded is asked for again.
AnswerNotNotedRetries ==
  /\ drv.pc = "completed"
  /\ req' = FailedFor("same")
  /\ drv' = Goto("failed")
  /\ UNCHANGED <<row, ui, logged, inbox, hist>>

\* It could not be recorded: an error no retry is safe for.
AnswerNotNoted ==
  /\ drv.pc = "completed"
  /\ req' = FailedFor("never")
  /\ drv' = Goto("failed")
  /\ UNCHANGED <<row, ui, logged, inbox, hist>>

\* RuleBasedModelRecoveryPolicy.evaluate.
Decision ==
  IF req.why \in {"unsafe", "never"} \/ req.attempt >= MaxAttempts THEN "stop"
  ELSE IF ~req.fallback /\ (req.why = "fallback" \/ (req.why = "same" /\ req.attempt > 1))
       THEN "fallback"
  ELSE "again"

\* attempt_failed and recovery_decided are recorded, then the decision is taken.
Decide ==
  /\ drv.pc = "failed"
  /\ req' = [req EXCEPT !.fallback = @ \/ Decision = "fallback"]
  /\ drv' = Goto(IF Decision = "stop" THEN "modelfailed" ELSE "backoff")
  /\ UNCHANGED <<row, ui, logged, inbox, hist>>

Retry ==
  /\ drv.pc = "backoff"
  /\ req' = [req EXCEPT !.attempt = @ + 1, !.visible = FALSE, !.why = "none"]
  /\ drv' = Goto("attempt")
  /\ UNCHANGED <<row, ui, logged, inbox, hist>>

\* The start or the failure of an attempt could not be recorded.
AttemptNotNoted ==
  /\ drv.pc \in {"attempt", "failed"}
  /\ req' = [req EXCEPT !.why = "never"]
  /\ drv' = Goto("modelfailed")
  /\ UNCHANGED <<row, ui, logged, inbox, hist>>

-----------------------------------------------------------------------------
(* What the loop makes of the response.                                    *)

\* _complete_agent_model_request and _validate_agent_response: among others, the
\* fragments shown must be the text of the response.
Malformed == req.resp.kind = "malformed" \/ ~(ui.text \subseteq {req.attempt})

Unusable ==
  /\ drv.pc = "check" /\ (Malformed \/ req.resp.kind = "duplicate")
  /\ req' = [req EXCEPT !.why = IF Malformed THEN "malformed" ELSE "never"]
  /\ drv' = Goto("modelfailed")
  /\ UNCHANGED <<row, ui, logged, inbox, hist>>

RejectsCalls ==
  /\ drv.pc = "check" /\ ~Malformed /\ req.resp.kind = "badcalls"
  /\ drv' = Goto("protocol")
  /\ UNCHANGED <<row, shown, inbox, hist>>

\* Mutant: a rejected response does not count.
CorrectUncounted ==
  /\ drv.pc = "protocol"
  /\ row' = Saved(drv.calls)
  /\ drv' = Goto("boundary")
  /\ ui' = Closed("discarded")
  /\ UNCHANGED <<req, logged, inbox, hist>>

\* _record_recoverable_protocol_error: the model is told and asked again.
Correct ==
  /\ drv.pc = "protocol"
  /\ row' = Saved(drv.calls + 1)
  /\ drv' = [Goto("boundary") EXCEPT !.calls = @ + 1]
  /\ ui' = Closed("discarded")
  /\ UNCHANGED <<req, logged, inbox, hist>>

\* The response counts, and text that was not streamed is shown now (resolve).
Accepts ==
  /\ drv.pc = "check" /\ ~Malformed
  /\ req.resp.kind \in {"answer", "length", "calls"}
  /\ ui' = IF req.resp.text
           THEN [text |-> {req.attempt},
                 status |-> IF req.resp.kind = "calls" THEN "generating" ELSE "reviewing"]
           ELSE ui
  /\ drv' = [Goto(IF req.resp.kind = "calls" THEN "record" ELSE "candidate")
               EXCEPT !.calls = @ + 1]
  /\ UNCHANGED <<row, req, logged, inbox, hist>>

\* Steering arrived while the model was writing, or during the review: the
\* candidate is retracted.
Supersede ==
  /\ drv.pc \in {"candidate", "accept"}
  /\ AppliesInbox
  /\ drv' = Goto("boundary")
  /\ ui' = Closed("discarded")
  /\ UNCHANGED <<req, logged>>

NotSuperseded ==
  /\ drv.pc = "candidate" /\ inbox = "none"
  /\ drv' = Goto("record")
  /\ UNCHANGED <<row, shown, inbox, hist>>

\* Mutant: the text beside the calls is committed before its event.
RecordAndCommit ==
  /\ drv.pc = "record"
  /\ drv' = Goto(IF req.resp.kind = "calls" THEN "commentary" ELSE "gate")
  /\ ui' = IF req.resp.kind = "calls" THEN Marked("committed") ELSE ui
  /\ UNCHANGED <<row, req, logged, inbox, hist>>

\* conversation.model_response_recorded.
Record ==
  /\ drv.pc = "record"
  /\ drv' = Goto(IF req.resp.kind = "calls" THEN "commentary" ELSE "gate")
  /\ UNCHANGED <<row, shown, inbox, hist>>

\* The text beside the calls is recorded and then shown as said.
Commentary ==
  /\ drv.pc = "commentary"
  /\ logged' = ui.text
  /\ ui' = Marked("committed")
  /\ drv' = Goto("save")
  /\ UNCHANGED <<row, req, inbox, hist>>

\* The calls are saved before the first of them starts.
SaveCalls ==
  /\ drv.pc = "save"
  /\ row' = [Saved(drv.calls) EXCEPT !.batch = TRUE]
  /\ drv' = Goto("batch")
  /\ UNCHANGED <<shown, inbox, hist>>

RunBatch ==
  /\ drv.pc = "batch"
  /\ row' = [Saved(drv.calls) EXCEPT !.batch = FALSE]
  /\ drv' = Goto("boundary")
  /\ UNCHANGED <<shown, inbox, hist>>

-----------------------------------------------------------------------------
(* The gates of a candidate (ConversationFinalizationPipeline).            *)

\* A continuation counts in the driver, is told to the model and saved.
Continuation(d) ==
  /\ row' = Persisted(d)
  /\ drv' = [d EXCEPT !.pc = "boundary"]
  /\ ui' = Closed("discarded")
  /\ UNCHANGED <<req, logged, inbox>>

\* Cut off by the length limit, or blank.
Truncated ==
  /\ drv.pc = "gate" /\ req.resp.kind = "length"
  /\ \/ drv.calls < MaxCalls /\ Continuation(drv) /\ UNCHANGED hist
     \/ drv.calls >= MaxCalls /\ Partial

\* The last batch had an edit that was rejected before it started.
EditRejected ==
  /\ drv.pc = "gate" /\ req.resp.kind = "answer"
  /\ \/ /\ drv.calls < MaxCalls /\ drv.edits < 1
        /\ Continuation([drv EXCEPT !.edits = @ + 1])
        /\ hist' = [hist EXCEPT !.repaired = @ + 1]
     \/ (drv.calls >= MaxCalls \/ drv.edits >= 1) /\ Partial

CanContinue == drv.reviews < MaxReviews /\ drv.calls < MaxCalls

\* A stop policy, or then the reviewer, wants more.
WantsMore ==
  /\ drv.pc = "review" \/ (drv.pc = "gate" /\ req.resp.kind = "answer")
  /\ \/ /\ CanContinue
        /\ Continuation([drv EXCEPT !.reviews = @ + 1])
        /\ hist' = [hist EXCEPT !.reviewed = @ + 1]
     \/ ~CanContinue /\ Partial

\* The reviewer failed and its failure policy is INCOMPLETE.
ReviewerFails == drv.pc = "review" /\ Partial

GateAccepts ==
  /\ drv.pc = "gate" /\ req.resp.kind = "answer"
  /\ drv' = Goto("review")
  /\ UNCHANGED <<row, shown, inbox, hist>>

ReviewAccepts ==
  /\ drv.pc = "review"
  /\ drv' = Goto("accept")
  /\ UNCHANGED <<row, shown, inbox, hist>>

\* No steering arrived during the review.
SaveAccepted ==
  /\ drv.pc = "accept" /\ inbox = "none"
  /\ row' = Persisted(drv)
  /\ drv' = Goto("commit")
  /\ UNCHANGED <<shown, inbox, hist>>

\* _commit_final_agent_result, then the text is shown as said.
CommitAnswer ==
  /\ drv.pc = "commit"
  /\ row' = [row EXCEPT !.ckpt = FALSE,
                        !.state = IF @ = "EXECUTING" THEN "AWAITING_INPUT" ELSE @]
  /\ logged' = ui.text
  /\ ui' = Marked("committed")
  /\ drv' = NoDriver
  /\ UNCHANGED <<req, inbox, hist>>

-----------------------------------------------------------------------------
(* How a driver ends otherwise.                                            *)

\* _record_model_failure: a malformed response fails the Task, every other failure
\* keeps the checkpoint of an EXECUTING Task.  Then the exception goes on.
RecordFailure ==
  /\ drv.pc = "modelfailed"
  /\ row' = IF req.why = "malformed" THEN FailedRow
            ELSE IF row.state = "INTERRUPTED" THEN row
            ELSE IF row.state = "EXECUTING" /\ row.ckpt THEN [row EXCEPT !.state = "INTERRUPTED"]
            ELSE FailedRow
  /\ drv' = [Goto("raised") EXCEPT !.soft = req.why \in SafeToRetry]
  /\ ui' = Closed("interrupted")
  /\ hist' = BrokenOff
  /\ UNCHANGED <<req, logged, inbox>>

\* A commit is refused, the tool limit is exceeded, or a stop policy or the batch
\* raises: nothing is recorded.
Raises ==
  /\ drv.pc \in {"boundary", "budget", "modelfailed", "protocol", "check", "candidate", "record",
                 "commentary", "save", "batch", "gate", "review", "accept", "commit"}
  /\ drv' = Goto("raised")
  /\ ui' = Closed("interrupted")
  /\ hist' = BrokenOff
  /\ UNCHANGED <<row, req, logged, inbox>>

\* The caller: _run_submitted_task fails the Task unless the stop is resumable; a
\* resumption leaves the row as it is.
Unwinds ==
  /\ drv.pc = "raised"
  /\ drv' = NoDriver
  /\ \/ row' = row
     \/ ~drv.soft /\ row.state \notin TerminalStates /\ row' = FailedRow
  /\ UNCHANGED <<shown, inbox, hist>>

\* The process dies; what was shown stays on the screen.
Crash ==
  /\ drv.pc # "off"
  /\ drv' = NoDriver
  /\ hist' = BrokenOff
  /\ UNCHANGED <<row, shown, inbox>>

\* The commit of an interrupt or a cancellation; the driver does not notice.
Stop ==
  /\ drv.pc \in Waiting \cup {"off"}
  /\ \/ row.state = "EXECUTING" /\ row' = [row EXCEPT !.state = "INTERRUPTED"]
     \/ /\ row.state \in {"EXECUTING", "INTERRUPTED"}
        /\ row' = [row EXCEPT !.state = "CANCELLED", !.ckpt = FALSE]
  /\ UNCHANGED <<drv, shown, inbox, hist>>

\* Then the runner is cancelled where it waits.
CancelRunner ==
  /\ drv.pc \in Waiting /\ row.state \in {"INTERRUPTED", "CANCELLED"}
  /\ drv' = NoDriver
  /\ ui' = Closed("interrupted")
  /\ hist' = BrokenOff
  /\ UNCHANGED <<row, req, logged, inbox>>

\* resume_checkpoint and build_turn_state.
Resume ==
  /\ drv.pc = "off" /\ row.ckpt /\ row.state \in {"EXECUTING", "INTERRUPTED"}
  /\ hist.resumes < MaxResumes
  /\ row' = [row EXCEPT !.state = "EXECUTING"]
  /\ drv' = [NoDriver EXCEPT !.pc = IF row.batch THEN "batch" ELSE "boundary",
                             !.calls = row.calls, !.reviews = row.reviews, !.edits = row.edits]
  /\ hist' = [hist EXCEPT !.resumes = @ + 1]
  /\ UNCHANGED <<shown, inbox>>

\* The user says something to the running Turn.
Say ==
  /\ row.state \in {"EXECUTING", "INTERRUPTED"} /\ hist.inputs < MaxInputs
  /\ inbox' \in IF inbox = "replace" THEN {"replace"} ELSE {"steer", "replace"}
  /\ hist' = [hist EXCEPT !.inputs = @ + 1]
  /\ UNCHANGED <<row, drv, shown>>

-----------------------------------------------------------------------------
BetweenRounds == Boundary \/ BudgetSpent \/ StartRound
Attempts ==
  \/ SendAttempt \/ Delta \/ StreamCompletes \/ PostCompletes \/ AttemptFails
  \/ AdapterRejectsCalls \/ AnswerNoted \/ AnswerNotNoted \/ Decide \/ Retry \/ AttemptNotNoted
HandlesResponse ==
  \/ Unusable \/ RejectsCalls \/ Correct \/ Accepts \/ Supersede \/ NotSuperseded
  \/ Record \/ Commentary \/ SaveCalls \/ RunBatch
Finalizes ==
  \/ Truncated \/ EditRejected \/ WantsMore \/ ReviewerFails
  \/ GateAccepts \/ ReviewAccepts \/ SaveAccepted \/ CommitAnswer
Ends == RecordFailure \/ Raises \/ Unwinds \/ Crash \/ Stop \/ CancelRunner

Next == BetweenRounds \/ Attempts \/ HandlesResponse \/ Finalizes \/ Ends \/ Resume \/ Say

Spec == Init /\ [][Next]_vars

-----------------------------------------------------------------------------
Statuses == {"none", "generating", "reviewing", "committed", "discarded", "interrupted"}

TypeOK ==
  /\ row \in [state : {"EXECUTING", "INTERRUPTED", "CANCELLED", "FAILED", "AWAITING_INPUT"},
              ckpt : BOOLEAN, calls : 0..MaxCalls, reviews : 0..MaxReviews, edits : 0..1,
              batch : BOOLEAN]
  /\ drv \in [pc : Places, calls : 0..MaxCalls, reviews : 0..MaxReviews, edits : 0..1,
              soft : BOOLEAN]
  /\ req \in [attempt : 1..MaxAttempts, fallback : BOOLEAN, visible : BOOLEAN, why : Reasons,
              resp : Responses \cup {NoResponse}]
  /\ ui \in [text : SUBSET (1..MaxAttempts), status : Statuses]
  /\ logged \subseteq 1..MaxAttempts
  /\ inbox \in {"none", "steer", "replace"}
  /\ hist \in [rounds : Nat, reviewed : Nat, repaired : Nat, replaced : Nat, inputs : Nat,
               resumes : Nat]

\* The text the user sees of a round comes from one attempt, however often the
\* request was sent again and by whichever transport (with_visibility and the
\* first rule of the recovery policy).
OneAttemptShown == Cardinality(ui.text) <= 1

\* A request whose response has arrived is not sent again in its round, whatever
\* fails afterwards (ResilientModelProvider.stream_complete).
AnsweredNotResent ==
  [][req.resp # NoResponse => req'.attempt <= req.attempt]_vars

\* What the user is shown as said is what an event records as said, and what was
\* retracted is recorded nowhere, through refused commits, cancelled runners and
\* crashes (commentary and final answer, ResponseTextStream.commit).
ShownIsRecorded ==
  /\ ui.status = "committed" => logged = ui.text
  /\ ui.status \in {"discarded", "interrupted"} => logged = {}

\* Every round that was not broken off is counted in the store, whether its response
\* was rejected, superseded, sent back or accepted, and across resumptions the count
\* stays within the budget.
SamplesAreCounted ==
  /\ hist.rounds <= row.calls + IF drv.pc \in RoundPlaces THEN 1 ELSE 0
  /\ row.calls <= MaxCalls

\* A Turn is sent back by its reviewers, and to repair an edit, as often as the
\* limits say, and once more after each REPLACE, through crashes and resumptions.
ContinuationsBounded ==
  /\ hist.reviewed <= MaxReviews * (1 + hist.replaced)
  /\ hist.repaired <= 1 + hist.replaced

\* Stated, and false: a stopped Task sends no further request to the model.
StoppedSendsNothing ==
  [][row.state = "CANCELLED" => req'.attempt <= req.attempt]_vars

\* Stated, and false: an interruption that was recorded with its checkpoint kept is
\* not made a failure (a stream that dies after text was shown).
KeptIsNotFailed ==
  [][row.state = "INTERRUPTED" /\ row.ckpt /\ drv.pc = "raised" => row'.state # "FAILED"]_vars
=============================================================================
