---------------------------- MODULE TurnRunners ----------------------------
(***************************************************************************)
(* The runners of one conversation Task in one process: the registry of    *)
(* EngineeringAgentClient (sdk/runtime.py), the messages that replace a    *)
(* running Turn, and the commands that stop it.                            *)
(*                                                                         *)
(* The store answers without suspending the event loop, so what a message, *)
(* a command or a runner does between two waits is one action.  A runner   *)
(* waits for its first step, for its barrier (the runner a redirect must   *)
(* let unwind), for the model and the tools of its Turn, and for the loop  *)
(* to call its done-callback; a stop that was asked is delivered later,    *)
(* and a foreground command swallows it (kernel_tool.py).                  *)
(*                                                                         *)
(* A message after the Task ended goes to a new Task (Sessions); explicit  *)
(* STEER and REPLACE go to the queue of Steering.                          *)
(***************************************************************************)
EXTENDS Naturals, Sequences, FiniteSets, TaskStates

CONSTANTS
  MaxTexts,     \* bound: ordinary messages of the user, the first included
  Replies,      \* answers of the user to approvals and questions
  MaxCommands   \* bound: interrupts and cancellations

ASSUME MaxTextsAssumption == MaxTexts \in Nat \ {0}
ASSUME MaxCommandsAssumption == MaxCommands \in Nat

VARIABLES
  row,         \* the durable state of the Task
  runner,      \* every runner of the Task so far, in the order they were made
  registered,  \* _run_tasks: the registered runner, 0 when there is none
  redirect,    \* _redirect_runners: the redirect runner, 0 when there is none
  target,      \* _redirect_wait_targets: its barrier, 0 when that is None
  routing,     \* _start_task_turn holds the Session's input lock while it polls
  reply,       \* reply[a]: how far answer a got, and the runner it waits for
  commands,    \* how many interrupts and cancellations were given
  fate         \* history: fate[t], what became of message t

vars == <<row, runner, registered, redirect, target, routing, reply, commands, fate>>
registry == <<registered, redirect, target>>

Texts == 1..MaxTexts
RunnerKinds == {"first", "turn", "redirect", "reply"}
Fates == {"unsaid", "refused", "dropped", "accepted", "heard", "replaced", "stopped", "overtaken"}

TypeOK ==
  /\ row \in TaskState
  /\ \A r \in DOMAIN runner :
       runner[r] \in [kind : RunnerKinds, text : 0..MaxTexts, barrier : 0..Len(runner),
                      pc : {"new", "wait", "turn", "done", "gone"}, stop : {"no", "asked", "lost"}]
  /\ {registered, redirect, target} \subseteq 0..Len(runner)
  /\ routing \in BOOLEAN
  /\ reply \in [Replies -> [is : {"unsent", "waiting", "given"}, on : 0..Len(runner)]]
  /\ commands \in 0..MaxCommands
  /\ fate \in [Texts -> Fates]

NewRunner(kind, text, barrier) ==
  [kind |-> kind, text |-> text, barrier |-> barrier, pc |-> "new", stop |-> "no"]

\* submit_task has created the Task and registered the runner of its first message.
Init ==
  /\ row = "CREATED"
  /\ runner = <<NewRunner("first", 1, 0)>>
  /\ registered = 1
  /\ redirect = 0
  /\ target = 0
  /\ routing = FALSE
  /\ reply = [a \in Replies |-> [is |-> "unsent", on |-> 0]]
  /\ commands = 0
  /\ fate = [t \in Texts |-> IF t = 1 THEN "accepted" ELSE "unsaid"]

-----------------------------------------------------------------------------
(* The registry.                                                           *)

\* Mutant: a runner that has not begun its Turn does not count.
LiveInTurn(r) == r # 0 /\ runner[r].pc = "turn"

\* `runner is not None and not runner.done()`.
Live(r) == r # 0 /\ runner[r].pc \notin {"done", "gone"}

NotBegun(r) == runner[r].pc \in {"new", "wait"}

\* Mutant: nobody cancels the runner.
NotCancelled(r) == runner

\* runner.cancel(): asked now, delivered when the runner next gets the loop.
Cancelled(r) == IF Live(r) THEN [runner EXCEPT ![r].stop = "asked"] ELSE runner

\* What cancelling runner r makes of the message it has not begun.
TextOfCancelled(r, outcome) ==
  IF Live(r) /\ NotBegun(r) /\ runner[r].text # 0
  THEN [fate EXCEPT ![runner[r].text] = IF @ = "accepted" THEN outcome ELSE @]
  ELSE fate

\* _has_pending_redirect.
PendingRedirect == Live(redirect)

\* Mutant: the callback clears the registry whoever is registered.
CallbackForgets(r) ==
  /\ registered' = 0
  /\ IF redirect = r THEN redirect' = 0 /\ target' = 0 ELSE UNCHANGED <<redirect, target>>

\* _runner_finished: a runner clears only its own entries.
CallbackClears(r) ==
  /\ registered' = IF registered = r THEN 0 ELSE registered
  /\ IF redirect = r THEN redirect' = 0 /\ target' = 0 ELSE UNCHANGED <<redirect, target>>

-----------------------------------------------------------------------------
(* Messages.  The Session's input lock makes them one at a time.           *)

Interruptible == RunningStates \cup {"AWAITING_APPROVAL", "AWAITING_USER"}

\* _settle_if_orphaned: nothing runs the Turn the row claims.
SettledRow == IF row = "EXECUTING" /\ ~Live(registered) THEN "INTERRUPTED" ELSE row

\* Message t is the next one to be said.
CanSay(t) ==
  /\ ~routing /\ row \notin TerminalStates
  /\ fate[t] = "unsaid" /\ \A u \in Texts : u < t => fate[u] # "unsaid"

\* Between stable states, or waiting for an answer the text is not.
SayRefused(t) ==
  /\ CanSay(t)
  /\ \/ SettledRow = "CREATED"
     \/ SettledRow = "AWAITING_USER" /\ ~PendingRedirect
  /\ fate' = [fate EXCEPT ![t] = "refused"]
  /\ UNCHANGED <<row, runner, registry, routing, reply, commands>>

\* Mutant: the barrier is read after the successor was registered.
BarrierReadLate == Len(runner) + 1

\* The runner the new redirect must let unwind: the registered one when it may
\* be inside a Turn, the barrier of the redirect it replaces otherwise.
Barrier ==
  IF SettledRow \in Interruptible \/ (registered = redirect /\ ~Live(target)) \/ target = 0
  THEN registered ELSE target

\* _interrupt_and_redirect: stop the Turn, or the redirect not begun yet, and
\* register the successor.
SayRedirects(t) ==
  /\ CanSay(t)
  /\ SettledRow # "CREATED"
  /\ PendingRedirect \/ SettledRow \in {"EXECUTING", "AWAITING_APPROVAL"}
  /\ row' = IF SettledRow \in Interruptible THEN "INTERRUPTED" ELSE SettledRow
  /\ runner' = Append(Cancelled(registered), NewRunner("redirect", t, Barrier))
  /\ registered' = Len(runner')
  /\ redirect' = Len(runner')
  /\ target' = Barrier
  /\ fate' = [TextOfCancelled(registered, "replaced") EXCEPT ![t] = "accepted"]
  /\ UNCHANGED <<routing, reply, commands>>

\* submit_session_text and _start_task_turn: the message is the next Turn of the
\* conversation, acknowledged even when a runner is left and none is registered.
SayContinues(t) ==
  /\ CanSay(t)
  /\ ~PendingRedirect
  /\ SettledRow \in {"AWAITING_INPUT", "INTERRUPTED"}
  /\ row' = SettledRow
  /\ routing' = (SettledRow = "AWAITING_INPUT")
  /\ IF Live(registered)
     THEN /\ fate' = [fate EXCEPT ![t] = "dropped"]
          /\ UNCHANGED <<runner, registered>>
     ELSE /\ runner' = Append(runner, NewRunner("turn", t, 0))
          /\ registered' = Len(runner')
          /\ fate' = [fate EXCEPT ![t] = "accepted"]
  /\ UNCHANGED <<redirect, target, reply, commands>>

\* The polling of _start_task_turn: the Turn has left AWAITING_INPUT, or a
\* hundred sleeps went by after the runner's first step.
PollEnds ==
  /\ routing
  /\ row = "AWAITING_INPUT" /\ registered # 0 => runner[registered].pc # "new"
  /\ routing' = FALSE
  /\ UNCHANGED <<row, runner, registry, reply, commands, fate>>

-----------------------------------------------------------------------------
(* Commands and answers, which do not take the input lock.                 *)

CommandLeft == commands < MaxCommands

\* interrupt: idempotent on an interrupted Task, refused on a Task at rest.
Interrupt ==
  /\ CommandLeft
  /\ row \in Interruptible \cup {"INTERRUPTED"}
  /\ row' = "INTERRUPTED"
  /\ runner' = Cancelled(registered)
  /\ fate' = TextOfCancelled(registered, "stopped")
  /\ commands' = commands + 1
  /\ UNCHANGED <<registry, routing, reply>>

CancelTask ==
  /\ CommandLeft
  /\ CanMove(row, "CANCELLED")
  /\ row' = "CANCELLED"
  /\ runner' = Cancelled(registered)
  /\ fate' = TextOfCancelled(registered, "stopped")
  /\ commands' = commands + 1
  /\ UNCHANGED <<registry, routing, reply>>

\* _run_owned_continuation: register, or wait for the runner that is registered.
RegistersReply(a) ==
  IF Live(registered)
  THEN /\ reply' = [reply EXCEPT ![a] = [is |-> "waiting", on |-> registered]]
       /\ UNCHANGED <<runner, registered>>
  ELSE /\ runner' = Append(runner, NewRunner("reply", 0, 0))
       /\ registered' = Len(runner')
       /\ reply' = [reply EXCEPT ![a] = [is |-> "given", on |-> 0]]

Answer(a) ==
  /\ reply[a].is = "unsent"
  /\ row \in {"AWAITING_APPROVAL", "AWAITING_USER"}
  /\ RegistersReply(a)
  /\ UNCHANGED <<row, redirect, target, routing, commands, fate>>

AnswerWakes(a) ==
  /\ reply[a].is = "waiting"
  /\ ~Live(reply[a].on)
  /\ RegistersReply(a)
  /\ UNCHANGED <<row, redirect, target, routing, commands, fate>>

-----------------------------------------------------------------------------
(* The runners.                                                            *)

\* The rows from which a runner starts its Turn: run_task, _run_redirected_turn
\* and the resumption of an answer.
StartsFrom(kind) ==
  CASE kind = "reply"    -> {"AWAITING_APPROVAL", "AWAITING_USER"}
    [] kind = "redirect" -> {"INTERRUPTED", "CONFLICT", "AWAITING_INPUT"}
    [] OTHER             -> {"CREATED", "INTERRUPTED", "CONFLICT", "AWAITING_INPUT"}

\* Asked to stop before its Turn: the coroutine never goes on.
Dies(r) ==
  /\ NotBegun(r)
  /\ runner[r].stop # "no"
  /\ runner' = [runner EXCEPT ![r].pc = "done"]
  /\ UNCHANGED <<row, registry, routing, reply, commands, fate>>

\* asyncio.shield(predecessor): only this runner's own cancellation ends the wait.
WaitsForBarrier(r) ==
  /\ runner[r].pc = "new" /\ runner[r].stop = "no"
  /\ Live(runner[r].barrier)
  /\ runner' = [runner EXCEPT ![r].pc = "wait"]
  /\ UNCHANGED <<row, registry, routing, reply, commands, fate>>

MayBegin(r) == NotBegun(r) /\ runner[r].stop = "no" /\ ~Live(runner[r].barrier)

TextOf(r, outcome) ==
  IF runner[r].text = 0 THEN fate ELSE [fate EXCEPT ![runner[r].text] = outcome]

Begins(r) ==
  /\ MayBegin(r)
  /\ row \in StartsFrom(runner[r].kind)
  /\ row' = "EXECUTING"
  /\ runner' = [runner EXCEPT ![r].pc = "turn"]
  /\ fate' = TextOf(r, "heard")
  /\ UNCHANGED <<registry, routing, reply, commands>>

\* The durable state is authoritative: another operation won the race.
Returns(r) ==
  /\ MayBegin(r)
  /\ row \notin StartsFrom(runner[r].kind)
  /\ runner' = [runner EXCEPT ![r].pc = "done"]
  /\ fate' = TextOf(r, "overtaken")
  /\ UNCHANGED <<row, registry, routing, reply, commands>>

\* Where a Turn that was not stopped leaves the row: an answer or a partial one,
\* a suspension, a resumable stop, a failure (_run_submitted_task).
Outcomes ==
  {"AWAITING_INPUT", "EXECUTING", "AWAITING_APPROVAL", "AWAITING_USER", "INTERRUPTED", "FAILED"}

\* A Turn that lost its stop goes on over whatever the row says now.  An answer
\* moves only an EXECUTING row; the next tool call is refused on any other row,
\* and the refusal fails the Task unless it is terminal or awaits the user.
OutcomesOver(s) ==
  CASE s = "EXECUTING" -> Outcomes
    [] s \in {"AWAITING_APPROVAL", "AWAITING_USER"} \cup TerminalStates -> {s}
    [] OTHER -> {s, "FAILED"}

Ends(r) ==
  /\ runner[r].pc = "turn"
  /\ runner[r].stop # "asked"
  /\ row' \in OutcomesOver(row)
  /\ runner' = [runner EXCEPT ![r].pc = "done"]
  /\ UNCHANGED <<registry, routing, reply, commands, fate>>

\* The stop is delivered, the tools have been drained and the Turn has unwound.
Unwinds(r) ==
  /\ runner[r].pc = "turn"
  /\ runner[r].stop = "asked"
  /\ runner' = [runner EXCEPT ![r].pc = "done"]
  /\ UNCHANGED <<row, registry, routing, reply, commands, fate>>

\* The stop reaches a foreground command, which keeps it from the Turn.
Swallows(r) ==
  /\ runner[r].pc = "turn"
  /\ runner[r].stop = "asked"
  /\ runner' = [runner EXCEPT ![r].stop = "lost"]
  /\ UNCHANGED <<row, registry, routing, reply, commands, fate>>

CallbackRuns(r) ==
  /\ runner[r].pc = "done"
  /\ runner' = [runner EXCEPT ![r].pc = "gone"]
  /\ CallbackClears(r)
  /\ UNCHANGED <<row, routing, reply, commands, fate>>

\* Everything a runner, the loop or a polling sender does by itself.
RunnerSteps(r) == \/ Dies(r) \/ WaitsForBarrier(r) \/ Begins(r) \/ Returns(r)
                  \/ Ends(r) \/ Unwinds(r) \/ CallbackRuns(r)

Next ==
  \/ \E t \in Texts : SayRefused(t) \/ SayRedirects(t) \/ SayContinues(t)
  \/ PollEnds
  \/ Interrupt
  \/ CancelTask
  \/ \E a \in Replies : Answer(a) \/ AnswerWakes(a)
  \/ \E r \in DOMAIN runner : RunnerSteps(r) \/ Swallows(r)

\* Every runner there can be.
Runners == 1..MaxTexts + Cardinality(Replies)

\* The event loop runs what is ready, calls done-callbacks and fires timers, and
\* a Turn ends: model calls and tools have deadlines (TaskLifecycle!TurnsEnd).
Fairness ==
  /\ \A r \in Runners : WF_vars(r \in DOMAIN runner /\ RunnerSteps(r))
  /\ WF_vars(PollEnds)
  /\ \A a \in Replies : WF_vars(AnswerWakes(a))

Spec == Init /\ [][Next]_vars /\ Fairness

-----------------------------------------------------------------------------
(* Properties.                                                             *)

\* When the row says INTERRUPTED, every Turn of the process has been asked to
\* stop: neither the settlement of an orphan nor a message ever marks as
\* interrupted a Turn that was left running.  (A Turn whose stop a foreground
\* command swallowed may write over its successor, and is left out.)
InterruptedMeansStopped ==
  row = "INTERRUPTED" /\ (\A r \in DOMAIN runner : runner[r].stop # "lost") =>
    \A r \in DOMAIN runner : runner[r].pc = "turn" => runner[r].stop = "asked"

\* A runner that goes on is the registered one, so the next message, interrupt
\* or cancellation finds it; a done-callback of an earlier runner, a redirect
\* and a repeated answer never hide it (_register_runner, _run_owned_continuation).
OnlyRegisteredGoesOn ==
  \A r \in DOMAIN runner : Live(r) /\ runner[r].stop = "no" => registered = r

\* Messages reach the conversation in the order the user sent them: a message
\* that a newer one overtook is never given to a later Turn.
HeardInOrder ==
  [][\A t, u \in Texts :
       t < u /\ fate[u] = "heard" /\ fate[t] # "heard" => fate'[t] # "heard"]_vars

\* Every acknowledged message that was given to a runner reaches a Turn or is
\* displaced by a newer message, a command or the end of the Task; no runner
\* waits for ever for the one it replaces.
AcceptedSettles ==
  \A t \in Texts : fate[t] = "accepted" ~> fate[t] # "accepted"

\* "_run_submitted_task has already recorded the old runner's failure. Its
\* successor must still be allowed to start a fresh conversation turn."
\* (_run_redirected_turn): only a cancellation keeps a successor from its Turn.
SuccessorStarts ==
  \A t \in Texts : fate[t] = "overtaken" => row = "CANCELLED"

\* "The replacement runner waits for the cancelled runner to leave its
\* cancellation scope before invoking start_fresh_conversation_turn"
\* (_interrupt_and_redirect): no Turn begins before the last one has unwound.
OneTurnAtATime ==
  \A r, q \in DOMAIN runner : runner[r].pc = "turn" /\ runner[q].pc = "turn" => r = q

\* An acknowledged message is handed to some runner (_start_task_turn).
NothingDropped == \A t \in Texts : fate[t] # "dropped"
=============================================================================
