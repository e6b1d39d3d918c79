------------------------------ MODULE Steering ------------------------------
(***************************************************************************)
(* What the user says to a Turn that is running: queue_steering and        *)
(* route_runtime_input append it to the Task's events, and the Turn's      *)
(* driver applies it at safe points between the model and the tools        *)
(* (SteeringMixin, InputMixin, ConversationAgentLoop).                     *)
(*                                                                         *)
(* The inputs come from other processes (`tsm steer`, `tsm replace`, the   *)
(* API server), so any of them may commit between the load and the commit  *)
(* of the driver.  A load is one action, its commit another; whoever       *)
(* loaded before somebody else's commit is no longer fresh, and the store  *)
(* refuses it.  Queueing and applying load again, a few times; the other   *)
(* commits of the driver do not, and their refusal ends the Turn.  The     *)
(* driver's saves stand for all of these.                                  *)
(*                                                                         *)
(* One driver runs at a time and stops are given in its process            *)
(* (TurnRunners).  Calls of a batch run one by one (groups: ToolBatch).    *)
(* RUNNING_WORKFLOW, AWAITING_USER and CONFLICT, where an input is queued  *)
(* as it is while INTERRUPTED, texts, and the goal, specification and      *)
(* memory that a REPLACE revises in the commit that applies it are left    *)
(* out.                                                                    *)
(***************************************************************************)
EXTENDS Naturals, Sequences, FiniteSets

CONSTANTS
  Inputs,      \* what the user says, by the identity the caller gave it
  Calls,       \* calls of queue_steering and route_runtime_input
  InputOf,     \* InputOf[c]: the input of call c; a retry repeats the input
  WaysOf,      \* WaysOf[i]: the paths by which input i may be sent
  Attempts,    \* how often a refused commit is tried (five in the code)
  MaxSamples,  \* max_model_calls
  MaxBatch,    \* bound: tool calls in one answer of the model
  MaxTurns,    \* bound: Turns of the Task
  None

ASSUME InputOfAssumption == InputOf \in [Calls -> Inputs]
ASSUME WaysOfAssumption == WaysOf \in [Inputs -> SUBSET {"queue", "explicit", "text"}]
ASSUME AttemptsAssumption == Attempts \in Nat \ {0}
ASSUME BoundsAssumption == {MaxSamples, MaxBatch, MaxTurns} \subseteq Nat \ {0}
ASSUME NamesAssumption == Inputs \cap {"call", "result", "answer"} = {} /\ None \notin Inputs

VARIABLES
  row,      \* the Task in the store
  queue,    \* its steering.queued events
  applied,  \* the inputs its steering.applied events name
  routed,   \* routed[i]: what its runtime_input.routed event says of input i
  path,     \* path[i]: how input i is sent, constant
  call,     \* call[c]: how far call c got
  turn,     \* the driver of the Turn
  turns,    \* how many Turns were started
  heard     \* history: the inputs applied, in order, each with its Turn

vars == <<row, queue, applied, routed, path, call, turn, turns, heard>>
events == <<queue, applied, routed>>
histories == <<turns, heard>>

\* queue_steering; an explicit STEER or REPLACE; ordinary text that falls back to STEER.
Paths == {"queue", "explicit", "text"}
SafePoints == {"before-model", "before-tool", "before-finalization", "before-finalization-commit"}
Places == SafePoints \cup {"off", "sample", "review", "tool", "answer"}

\* A checkpoint: `last` is last_steering_inbound_sequence, `owed` the number of
\* pending calls, `open` whether the batch's status is open, `told` the transcript.
NewCheckpoint == [last |-> 0, owed |-> 0, open |-> FALSE, samples |-> 0, told |-> <<>>]

\* `asks`: an approval is pending.  `ran`: an owed call whose result is in the ledger.
NewRow == [state |-> "AWAITING_INPUT", asks |-> FALSE, ran |-> 0, cp |-> None]

NoDriver == [pc |-> "off", then |-> "off", cp |-> NewCheckpoint, picked |-> <<>>,
             fresh |-> FALSE, tries |-> 0, consent |-> FALSE, seen |-> 0]

NewCall == [pc |-> "new", answer |-> "none", seq |-> 0, fresh |-> FALSE, tries |-> 0]

Init ==
  /\ row = NewRow
  /\ queue = <<>>
  /\ applied = {}
  /\ routed = [i \in Inputs |-> "no"]
  /\ path \in {p \in [Inputs -> Paths] : \A i \in Inputs : p[i] \in WaysOf[i]}
  /\ call = [c \in Calls |-> NewCall]
  /\ turn = NoDriver
  /\ turns = 0
  /\ heard = <<>>

-----------------------------------------------------------------------------
(* The store and the projection of its events (SteeringProjector).         *)

\* Mutant: the version is not compared.
AnyVersion(a) == TRUE

\* A commit goes through when nobody committed since a's load: the row it loaded
\* is then still the row.
SameVersion(a) == a.fresh

\* After a commit of the Task nobody else's load is current.
StaleCalls == [c \in Calls |-> [call[c] EXCEPT !.fresh = FALSE]]
StaleTurn == [turn EXCEPT !.fresh = FALSE]

QueuedIds == {queue[k].id : k \in DOMAIN queue}

LatestInbound ==
  LET Numbers == {0} \cup {queue[k].seq : k \in DOMAIN queue}
  IN CHOOSE n \in Numbers : \A m \in Numbers : m <= n

\* The events at some places of the queue, in order.
QueuedAt(places) ==
  [n \in 1..Cardinality(places) |->
     queue[CHOOSE k \in places : Cardinality({j \in places : j <= k}) = n]]

\* Mutant: the first input after the last one is passed over.
PendingLate(cp) ==
  QueuedAt({k \in DOMAIN queue : queue[k].id \notin applied /\ queue[k].seq > cp.last + 1})

\* Mutant: an input applied to an earlier Turn is pending again.
PendingAgain(cp) ==
  QueuedAt({k \in DOMAIN queue : queue[k].seq > cp.last})

\* The queued inputs not yet applied, after the last one this Turn has seen.
Pending(cp) ==
  QueuedAt({k \in DOMAIN queue : queue[k].id \notin applied /\ queue[k].seq > cp.last})

Ids(qs) == [k \in DOMAIN qs |-> qs[k].id]
IdSet(qs) == {qs[k].id : k \in DOMAIN qs}

-----------------------------------------------------------------------------
(* Saying something: queue_steering and route_runtime_input.               *)

Active == {"EXECUTING", "AWAITING_APPROVAL", "INTERRUPTED"}

\* The answer a call gets without a commit, "none" when it has to commit: the
\* state is checked first, then whether the identity is known; an approval of
\* an interrupted Turn cannot be resolved.
AnsweredAtOnce(i) ==
  IF row.state \notin Active THEN "refused"
  ELSE IF path[i] = "queue" THEN IF i \in QueuedIds THEN "queued" ELSE "none"
  ELSE IF routed[i] # "no" THEN routed[i]
  ELSE IF path[i] = "explicit" /\ row.asks /\ row.state = "INTERRUPTED" THEN "refused"
  ELSE "none"

\* An explicit STEER or REPLACE supersedes a pending approval: its calls are
\* answered and no longer owed, and the Task goes back to EXECUTING.  The
\* batch keeps its status.
Superseded(r) ==
  [r EXCEPT !.state = "EXECUTING", !.asks = FALSE,
            !.cp.owed = 0, !.cp.told = @ \o [k \in 1..r.cp.owed |-> "result"]]

CallLoads(c) ==
  LET i == InputOf[c]
      at == AnsweredAtOnce(i)
  IN /\ call[c].pc = "new"
     /\ call' = [call EXCEPT ![c] =
          IF at # "none" THEN [@ EXCEPT !.pc = "done", !.answer = at]
          ELSE [@ EXCEPT !.pc = "commit", !.fresh = TRUE, !.seq = LatestInbound + 1,
                         !.answer = IF path[i] = "text" /\ row.asks THEN "ambiguous" ELSE "queued"]]
     /\ UNCHANGED <<row, events, path, turn, histories>>

\* Ordinary text is recorded but not queued while an approval is pending.
CallCommits(c) ==
  LET i == InputOf[c]
      a == call[c]
  IN /\ a.pc = "commit" /\ SameVersion(a)
     /\ row' = IF path[i] = "explicit" /\ row.asks THEN Superseded(row) ELSE row
     /\ queue' = IF a.answer = "queued" THEN Append(queue, [id |-> i, seq |-> a.seq]) ELSE queue
     /\ routed' = IF path[i] = "queue" THEN routed ELSE [routed EXCEPT ![i] = a.answer]
     /\ call' = [StaleCalls EXCEPT ![c] = [NewCall EXCEPT !.pc = "done", !.answer = a.answer]]
     /\ turn' = StaleTurn
     /\ UNCHANGED <<applied, path, histories>>

CallConflicts(c) ==
  /\ call[c].pc = "commit" /\ ~SameVersion(call[c])
  /\ call' = [call EXCEPT ![c] =
       IF call[c].tries + 1 < Attempts THEN [NewCall EXCEPT !.tries = call[c].tries + 1]
       ELSE [NewCall EXCEPT !.pc = "done", !.answer = "failed"]]
  /\ UNCHANGED <<row, events, path, turn, histories>>

-----------------------------------------------------------------------------
(* The safe points of a Turn (_apply_pending_steering).                    *)

\* The driver goes on at a place; at a safe point it starts by loading.
GoTo(t, place) ==
  [t EXCEPT !.pc = place, !.then = "off", !.tries = 0, !.fresh = FALSE, !.picked = <<>>, !.seen = 0]

\* The driver saves its checkpoint and then goes on at a place.
SaveThen(t, cp, place) == [GoTo(t, "load") EXCEPT !.cp = cp, !.then = place]

Tell(cp, what) == [cp EXCEPT !.told = Append(@, what)]

\* Where the driver goes from a safe point; `changed` says that it applied something.
Onward(t, changed) ==
  CASE t.pc = "before-model" ->
         IF t.cp.samples = MaxSamples THEN SaveThen(t, t.cp, "off")
         ELSE [GoTo(t, "sample") EXCEPT !.seen = t.seen]
    [] t.pc = "before-tool" -> GoTo(t, "tool")
    [] t.pc \in {"before-finalization", "before-finalization-commit"} /\ changed ->
         GoTo(t, "before-model")
    [] t.pc = "before-finalization" /\ ~changed -> SaveThen(t, Tell(t.cp, "answer"), "review")
    [] OTHER -> [SaveThen(t, Tell(t.cp, "answer"), "answer") EXCEPT !.seen = t.seen]

\* Mutant: a batch that is open does not matter.
MayHearAlways(cp) == TRUE

\* Nothing is applied while calls are owed or the batch is open.
MayHear(cp) == cp.owed = 0 /\ ~cp.open

\* Loads the row and the events, and picks what is pending.
SafePointLoads ==
  LET picked == Pending(turn.cp)
      t == [turn EXCEPT !.seen = Len(queue)]
  IN /\ turn.pc \in SafePoints
     /\ turn.picked = <<>>
     /\ turn' = IF ~MayHear(t.cp) \/ picked = <<>> THEN Onward(t, FALSE)
                ELSE [t EXCEPT !.picked = picked, !.fresh = TRUE]
     /\ UNCHANGED <<row, events, path, call, histories>>

\* The checkpoint with the picked inputs told.
Hearing(cp, picked) ==
  [cp EXCEPT !.told = @ \o Ids(picked), !.last = picked[Len(picked)].seq]

\* Mutant: the driver goes on with the checkpoint it had.
GoesOnWithout(old, new) == old

\* The driver takes its messages from the checkpoint that was committed.
GoesOnWith(old, new) == new

\* One commit has the event and the checkpoint.
SafePointApplies ==
  LET picked == turn.picked
      cp == Hearing(turn.cp, picked)
  IN /\ picked # <<>> /\ SameVersion(turn)
     /\ row' = [row EXCEPT !.cp = cp]
     /\ applied' = applied \cup IdSet(picked)
     /\ heard' = heard \o [k \in DOMAIN picked |-> [id |-> picked[k].id, turn |-> turns]]
     /\ turn' = Onward([turn EXCEPT !.cp = GoesOnWith(@, cp)], TRUE)
     /\ call' = StaleCalls
     /\ UNCHANGED <<queue, routed, path, turns>>

\* The driver ends with an exception; a submitted Turn also fails its Task.
Raises ==
  /\ turn' = NoDriver
  /\ \/ row' = row /\ call' = call
     \/ row' = [NewRow EXCEPT !.state = "FAILED"] /\ call' = StaleCalls
  /\ UNCHANGED <<events, path, histories>>

SafePointConflicts ==
  /\ turn.picked # <<>> /\ ~SameVersion(turn)
  /\ \/ /\ turn.tries + 1 < Attempts
        /\ turn' = [turn EXCEPT !.picked = <<>>, !.tries = @ + 1]
        /\ UNCHANGED <<row, events, path, call, histories>>
     \/ turn.tries + 1 >= Attempts /\ Raises

-----------------------------------------------------------------------------
(* The rest of the Turn (ConversationAgentLoop, turn_tool_batch).          *)

\* run_task, or a message after a Turn that was stopped: a new checkpoint.
StartTurn ==
  /\ turn.pc = "off" /\ turns < MaxTurns
  /\ row.state \in {"AWAITING_INPUT", "INTERRUPTED"}
  /\ row' = [NewRow EXCEPT !.state = "EXECUTING", !.cp = NewCheckpoint]
  /\ turn' = GoTo(NoDriver, "before-model")
  /\ turns' = turns + 1
  /\ call' = StaleCalls
  /\ UNCHANGED <<events, path, heard>>

\* _save_agent_checkpoint: a load, and a commit that is not tried again.
SaveLoads ==
  /\ turn.pc = "load"
  /\ turn' = [turn EXCEPT !.pc = "save", !.fresh = TRUE]
  /\ UNCHANGED <<row, events, path, call, histories>>

SaveCommits ==
  /\ turn.pc = "save" /\ SameVersion(turn)
  /\ row' = [row EXCEPT !.cp = turn.cp, !.ran = 0]
  /\ turn' = IF turn.then = "off" THEN NoDriver
              ELSE [GoTo(turn, turn.then) EXCEPT !.seen = turn.seen]
  /\ call' = StaleCalls
  /\ UNCHANGED <<events, path, histories>>

SaveConflicts == turn.pc = "save" /\ ~SameVersion(turn) /\ Raises

\* The model proposes a batch of calls.
ModelCalls ==
  /\ turn.pc = "sample"
  /\ \E n \in 1..MaxBatch :
       turn' = SaveThen(turn, [turn.cp EXCEPT !.owed = n, !.open = TRUE, !.samples = @ + 1,
                                              !.told = @ \o [k \in 1..n |-> "call"]],
                        "before-tool")
  /\ UNCHANGED <<row, events, path, call, histories>>

ModelAnswers ==
  /\ turn.pc = "sample"
  /\ turn' = [GoTo(turn, "before-finalization") EXCEPT !.cp.samples = @ + 1]
  /\ UNCHANGED <<row, events, path, call, histories>>

\* The completion review takes the answer back for its last safe point, or asks
\* the model to go on.
Review ==
  /\ turn.pc = "review"
  /\ \/ turn' = [GoTo(turn, "before-finalization-commit") EXCEPT
                   !.cp.told = SubSeq(@, 1, Len(@) - 1)]
     \/ turn' = GoTo(turn, "before-model")
  /\ UNCHANGED <<row, events, path, call, histories>>

\* _commit_final_agent_result loads again after a conflict.
Answer ==
  /\ turn.pc = "answer"
  /\ row' = NewRow
  /\ turn' = NoDriver
  /\ call' = StaleCalls
  /\ UNCHANGED <<events, path, histories>>

\* The first pending call asks for approval: the Turn is suspended.
ToolAsks ==
  /\ turn.pc = "tool" /\ ~turn.consent /\ row.ran = 0 /\ row.state = "EXECUTING"
  /\ row' = [row EXCEPT !.state = "AWAITING_APPROVAL", !.asks = TRUE, !.cp = turn.cp]
  /\ turn' = NoDriver
  /\ call' = StaleCalls
  /\ UNCHANGED <<events, path, histories>>

\* Approved or refused: either way the call gets a result and the Turn goes on.
ResolveApproval ==
  /\ turn.pc = "off" /\ row.state = "AWAITING_APPROVAL"
  /\ row' = [row EXCEPT !.state = "EXECUTING", !.asks = FALSE]
  /\ turn' = [GoTo(NoDriver, "tool") EXCEPT !.cp = row.cp, !.consent = TRUE]
  /\ call' = StaleCalls
  /\ UNCHANGED <<events, path, histories>>

Answered(cp, n) ==
  [cp EXCEPT !.owed = @ - n, !.open = cp.owed > n, !.told = @ \o [k \in 1..n |-> "result"]]

\* The call's result is in the ledger; its checkpoint is saved next.
ToolReturns ==
  LET cp == Answered(turn.cp, 1)
  IN /\ turn.pc = "tool"
     /\ row' = [row EXCEPT !.ran = 1]
     /\ turn' = [SaveThen(turn, cp, IF cp.owed > 0 THEN "before-tool" ELSE "before-model")
                   EXCEPT !.consent = FALSE]
     /\ call' = StaleCalls
     /\ UNCHANGED <<events, path, histories>>

\* A model failure that may be resumed, a stop by the user, or the settlement of
\* a Task nothing runs: the checkpoint in the row is kept.
Interrupt ==
  /\ row.state \in {"EXECUTING", "AWAITING_APPROVAL"}
  /\ row' = [row EXCEPT !.state = "INTERRUPTED"]
  /\ turn' = NoDriver
  /\ call' = StaleCalls
  /\ UNCHANGED <<events, path, histories>>

\* The Task is cancelled.
CancelTask ==
  /\ row.state \notin {"CANCELLED", "FAILED"}
  /\ row' = [NewRow EXCEPT !.state = "CANCELLED"]
  /\ turn' = NoDriver
  /\ call' = StaleCalls
  /\ UNCHANGED <<events, path, histories>>

\* The process that drives the Turn dies.
Crash ==
  /\ turn.pc # "off"
  /\ turn' = NoDriver
  /\ UNCHANGED <<row, events, path, call, histories>>

\* resume_checkpoint: an EXECUTING Turn goes on as it is; an INTERRUPTED one only
\* when the ledger has the result of every owed call, and its batch is closed.
Resume ==
  LET settled == row.state = "INTERRUPTED"
      cp == IF settled THEN Answered(row.cp, row.cp.owed) ELSE row.cp
  IN /\ turn.pc = "off" /\ row.cp # None
     /\ row.state = "EXECUTING" \/ (settled /\ row.cp.owed = row.ran)
     /\ row' = [row EXCEPT !.state = "EXECUTING", !.cp = cp, !.ran = IF settled THEN 0 ELSE @]
     /\ turn' = [GoTo(NoDriver, IF cp.owed > 0 THEN "before-tool" ELSE "before-model")
                   EXCEPT !.cp = cp]
     /\ call' = StaleCalls
     /\ UNCHANGED <<events, path, histories>>

-----------------------------------------------------------------------------
SaysSomething == \E c \in Calls : CallLoads(c) \/ CallCommits(c) \/ CallConflicts(c)
AtSafePoint == SafePointLoads \/ SafePointApplies \/ SafePointConflicts
Saves == SaveLoads \/ SaveCommits \/ SaveConflicts
Works == ModelCalls \/ ModelAnswers \/ Review \/ Answer \/ ToolAsks \/ ToolReturns
Stops == Interrupt \/ CancelTask \/ Crash

Next == SaysSomething \/ StartTurn \/ AtSafePoint \/ Saves \/ Works \/ ResolveApproval \/ Stops \/ Resume

Spec == Init /\ [][Next]_vars

-----------------------------------------------------------------------------
Checkpoints == [last : Nat, owed : 0..MaxBatch, open : BOOLEAN, samples : 0..MaxSamples,
                told : Seq(Inputs \cup {"call", "result", "answer"})]
Queued == Seq([id : Inputs, seq : Nat])
TaskRow == [state : Active \cup {"AWAITING_INPUT", "CANCELLED", "FAILED"}, asks : BOOLEAN,
            ran : 0..1, cp : Checkpoints \cup {None}]

TypeOK ==
  /\ row \in TaskRow
  /\ queue \in Queued
  /\ applied \subseteq Inputs
  /\ routed \in [Inputs -> {"no", "queued", "ambiguous"}]
  /\ path \in [Inputs -> Paths]
  /\ call \in [Calls -> [pc : {"new", "commit", "done"}, seq : Nat, fresh : BOOLEAN,
                         answer : {"none", "queued", "ambiguous", "refused", "failed"},
                         tries : 0..Attempts]]
  /\ turn \in [pc : Places \cup {"load", "save"}, then : Places, cp : Checkpoints,
               picked : Queued, fresh : BOOLEAN, tries : 0..Attempts,
               consent : BOOLEAN, seen : Nat]
  /\ turns \in 0..MaxTurns
  /\ heard \in Seq([id : Inputs, turn : 1..MaxTurns])

\* However the processes interleave, and however often a caller repeats a call, an
\* input is queued once, and the inputs are numbered in the order of their events
\* (the version check of queue_steering and route_runtime_input).
QueuedOnce ==
  \A k \in DOMAIN queue : queue[k].seq = k /\ \A m \in 1..k - 1 : queue[m].id # queue[k].id

\* Over all Turns, crashes and resumptions an input is applied once, after every
\* input queued before it that is ever applied.
AppliedInOrder ==
  \A k, m \in DOMAIN heard :
    k < m => \E p, q \in DOMAIN queue :
               p < q /\ queue[p].id = heard[k].id /\ queue[q].id = heard[m].id

\* What a Turn was told is in the checkpoint of that Turn, in the store and with its
\* driver, through saves, suspensions, crashes and resumptions: an input that is no
\* longer pending has not been forgotten.
HeardIsKept ==
  \A k \in DOMAIN heard :
    heard[k].turn = turns =>
      /\ row.cp # None => \E n \in DOMAIN row.cp.told : row.cp.told[n] = heard[k].id
      /\ turn.pc # "off" => \E n \in DOMAIN turn.cp.told : turn.cp.told[n] = heard[k].id

\* In a transcript nothing the user says comes between the calls of a batch and
\* their results (the safe points of a Turn that crashes, suspends and resumes).
Unbroken(told) ==
  \A n \in DOMAIN told :
    told[n] \in Inputs =>
      LET Count(what) == Cardinality({k \in 1..n : told[k] = what})
      IN Count("call") = Count("result")

BatchesUnbroken ==
  /\ row.cp # None => Unbroken(row.cp.told)
  /\ Unbroken(turn.cp.told)

\* The batch of a superseded approval: nothing is owed, but it was never closed.
LeftOpen(cp) == cp.open /\ cp.owed = 0

\* The model is not asked, and no answer is committed, before every input that was
\* queued at the last safe point is applied.  Excused: a Turn resumed with a batch
\* left open.
HeardBeforeGoingOn ==
  turn.pc \in {"sample", "answer"} /\ ~LeftOpen(turn.cp) =>
    \A k \in 1..turn.seen : queue[k].id \in applied

\* Stated, and false: without the excuse.  The input that supersedes an approval is
\* not heard by the Turn it resumes (kernel_input.py, route_runtime_input).
SupersedingInputIsHeard ==
  turn.pc \in {"sample", "answer"} => \A k \in 1..turn.seen : queue[k].id \in applied

\* Stated, and false: an input from another process ends the Turn it was meant for,
\* when it is committed between the load and the commit of a save.
NobodyEndsTheTurn == turn.pc = "save" => turn.fresh
=============================================================================
