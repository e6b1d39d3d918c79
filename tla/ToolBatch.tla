----------------------------- MODULE ToolBatch -----------------------------
(***************************************************************************)
(* run_tool_batch (core/turn_tool_batch.py) and the ToolExecutionGate      *)
(* (core/tool_concurrency.py): the open batch of one Turn is drained by    *)
(* groups of workers that share a lock, or one call at a time.             *)
(*                                                                         *)
(* A worker holds the lock while it runs the guards, the authorization and *)
(* the checkpoint path, gives it up only for the provider, and takes it    *)
(* back before it leaves.  Every action below is what one coroutine does   *)
(* between two suspensions.  A cancellation is a request (cancelling): the *)
(* coroutine meets it at its next resumption, so until then it does        *)
(* nothing else.                                                           *)
(***************************************************************************)
EXTENDS Integers, Sequences, FiniteSets

CONSTANTS
  Calls,         \* the calls of the batch
  Order,         \* the assistant's order: a sequence of all the calls
  Overlapping,   \* calls that pass every test of _parallel_prefix
  Withdrawn,     \* overlapping calls whose authoritative spec may be unsafe
  Limit,         \* max_parallel_tool_calls
  MaxInterrupts, \* bound: how often the Turn's coroutine is cancelled
  None           \* no call

ASSUME OrderAssumption ==
  /\ Order \in Seq(Calls)
  /\ \A c \in Calls : \E i \in 1..Len(Order) : Order[i] = c
  /\ \A i, j \in 1..Len(Order) : Order[i] = Order[j] => i = j
ASSUME NoneAssumption == None \notin Calls
ASSUME SubsetAssumption == Withdrawn \subseteq Overlapping /\ Overlapping \subseteq Calls

VARIABLES
  batch,      \* what the Turn's coroutine does
  parallel,   \* the current group runs behind a gate
  pc,         \* pc[c]: where the worker of call c is
  cancelling, \* workers with a cancellation request they have not met
  failed,     \* workers that ended with an exception
  holder,     \* the worker holding gate.lock, or None
  queue,      \* the workers waiting for gate.lock, first come first served
  running,    \* gate.running: overlapping calls not yet taken back
  stopped,    \* gate.stopped
  settled,    \* gate.settled is set
  outcomes,   \* calls that suspended the Turn
  pending,    \* state.pending_tool_calls, which stay in the assistant's order
  ledger,     \* ledger[c]: the execution record of the call
  results,    \* calls answered with what a guard or the provider said
  declined,   \* calls answered "was not started"
  interrupts  \* how often the Turn's coroutine has been cancelled

gate == <<holder, queue, running, stopped, settled>>
vars == <<batch, parallel, pc, cancelling, failed, gate, outcomes, pending,
          ledger, results, declined, interrupts>>

-----------------------------------------------------------------------------
WorkerState ==
  { "idle",       \* not in the current group
    "waiting",    \* async with gate.lock
    "guards",     \* holds the lock, before the provider
    "observing",  \* the provider runs, the lock is free for the siblings
    "draining",   \* unsafe after all: waits for gate.settled without the lock
    "reacquire",  \* _reacquire after the provider
    "redrain",    \* _reacquire after gate.settled
    "alone",      \* the provider runs and the lock is kept
    "recording",  \* holds the lock, the result is recorded
    "done" }

BatchState == {"loop", "gather", "abort", "suspended", "failed", "finished"}
Ended == {"suspended", "failed", "finished"}

Group == {c \in Calls : pc[c] # "idle"}
GroupDone == \A c \in Group : pc[c] = "done"

TypeOK ==
  /\ batch \in BatchState
  /\ parallel \in BOOLEAN
  /\ pc \in [Calls -> WorkerState]
  /\ cancelling \subseteq Calls
  /\ failed \subseteq Calls
  /\ holder \in Calls \cup {None}
  /\ queue \in Seq(Calls)
  /\ \A i, j \in 1..Len(queue) : queue[i] = queue[j] => i = j
  /\ running \subseteq Calls
  /\ stopped \in BOOLEAN
  /\ settled \in BOOLEAN
  /\ outcomes \subseteq Calls
  /\ pending \subseteq Calls
  /\ ledger \in [Calls -> {"new", "running", "committed"}]
  /\ results \subseteq Calls
  /\ declined \subseteq Calls
  /\ interrupts \in 0..MaxInterrupts

Init ==
  /\ batch = "loop"
  /\ parallel = FALSE
  /\ pc = [c \in Calls |-> "idle"]
  /\ cancelling = {}
  /\ failed = {}
  /\ holder = None
  /\ queue = <<>>
  /\ running = {}
  /\ stopped = FALSE
  /\ settled = FALSE
  /\ outcomes = {}
  /\ pending = Calls
  /\ ledger = [c \in Calls |-> "new"]
  /\ results = {}
  /\ declined = {}
  /\ interrupts = 0

Position(c) == CHOOSE i \in 1..Len(Order) : Order[i] = c
Ahead(c) == {d \in pending : Position(d) < Position(c)}

-----------------------------------------------------------------------------
\* The Turn's coroutine.

\* _parallel_prefix: the leading pending calls that may overlap.
Leading ==
  {c \in pending : /\ Cardinality(Ahead(c)) < Limit
                   /\ {c} \cup Ahead(c) \subseteq Overlapping}
RunsTogether == Cardinality(Leading) > 1

\* The calls of S, each once, in the assistant's order.
InOrder(S) ==
  {line \in [1..Cardinality(S) -> S] :
     \A i, j \in 1..Cardinality(S) : i < j => Position(line[i]) < Position(line[j])}

FreshGate(waiting) ==
  /\ holder' = None
  /\ queue' = waiting
  /\ running' = {}
  /\ stopped' = FALSE
  /\ settled' = FALSE

StartGroup ==
  /\ batch = "loop"
  /\ RunsTogether
  /\ \E line \in InOrder(Leading) : FreshGate(line)
  /\ pc' = [c \in Calls |-> IF c \in Leading THEN "waiting" ELSE "idle"]
  /\ parallel' = TRUE
  /\ batch' = "gather"
  /\ UNCHANGED <<cancelling, failed, outcomes, pending, ledger, results,
                 declined, interrupts>>

\* Every other call is a barrier: the Turn's coroutine runs it itself.
StartSerial ==
  /\ batch = "loop"
  /\ ~RunsTogether
  /\ FreshGate(<<>>)
  /\ \E first \in pending :
       /\ Ahead(first) = {}
       /\ pc' = [c \in Calls |-> IF c = first THEN "guards" ELSE "idle"]
  /\ parallel' = FALSE
  /\ batch' = "gather"
  /\ UNCHANGED <<cancelling, failed, outcomes, pending, ledger, results,
                 declined, interrupts>>

Finish ==
  /\ batch = "loop"
  /\ pending = {}
  /\ batch' = "finished"
  /\ UNCHANGED <<parallel, pc, cancelling, failed, gate, outcomes, pending,
                 ledger, results, declined, interrupts>>

\* gather returned: leave with the first outcome, or look for the next group.
GroupReturns ==
  /\ batch = "gather"
  /\ GroupDone
  /\ failed = {}
  /\ batch' = IF outcomes # {} THEN "suspended" ELSE "loop"
  /\ UNCHANGED <<parallel, pc, cancelling, failed, gate, outcomes, pending,
                 ledger, results, declined, interrupts>>

\* gather raised the first exception: cancel the siblings nobody cancelled yet.
Abort ==
  /\ batch = "gather"
  /\ failed # {}
  /\ batch' = "abort"
  /\ cancelling' = {c \in Group : pc[c] # "done"}
  /\ UNCHANGED <<parallel, pc, failed, gate, outcomes, pending, ledger,
                 results, declined, interrupts>>

RaisesAtOnce ==  \* mutant: cancels the siblings and does not await them
  /\ batch = "abort"
  /\ batch' = "failed"
  /\ UNCHANGED <<parallel, pc, cancelling, failed, gate, outcomes, pending,
                 ledger, results, declined, interrupts>>

\* The second gather has seen the last worker end.
Raise ==
  /\ batch = "abort"
  /\ GroupDone
  /\ batch' = "failed"
  /\ UNCHANGED <<parallel, pc, cancelling, failed, gate, outcomes, pending,
                 ledger, results, declined, interrupts>>

\* The Turn's coroutine is cancelled: gather passes it on to every worker.
Interrupt ==
  /\ batch \in {"gather", "abort"}
  /\ ~GroupDone
  /\ interrupts < MaxInterrupts
  /\ interrupts' = interrupts + 1
  /\ cancelling' = {c \in Group : pc[c] # "done"}
  /\ UNCHANGED <<batch, parallel, pc, failed, gate, outcomes, pending, ledger,
                 results, declined>>

-----------------------------------------------------------------------------
\* A worker.

Runs(c, where) == pc[c] = where /\ c \notin cancelling
Goto(c, where) == pc' = [pc EXCEPT ![c] = where]

\* `async with gate.lock` ends: the next in the queue may take the lock.
Leave(c) == Goto(c, "done") /\ holder' = None /\ UNCHANGED <<queue, settled>>

\* Take the lock; a worker that finds the gate stopped leaves at once.
Acquire(c) ==
  /\ Runs(c, "waiting")
  /\ holder = None
  /\ queue # <<>> /\ Head(queue) = c
  /\ queue' = Tail(queue)
  /\ IF stopped THEN Goto(c, "done") /\ UNCHANGED holder
                ELSE Goto(c, "guards") /\ holder' = c
  /\ UNCHANGED <<batch, parallel, cancelling, failed, running, stopped, settled,
                 outcomes, pending, ledger, results, declined, interrupts>>

GuardLeavesPending(c) ==  \* mutant: the answered call is tried again
  /\ Runs(c, "guards")
  /\ Leave(c)
  /\ UNCHANGED <<batch, parallel, cancelling, failed, running, stopped,
                 outcomes, pending, ledger, results, declined, interrupts>>

\* A guard or the policy answers the call: its provider is not asked.
GuardAnswers(c) ==
  /\ Runs(c, "guards")
  /\ pending' = pending \ {c}
  /\ results' = results \cup {c}
  /\ Leave(c)
  /\ UNCHANGED <<batch, parallel, cancelling, failed, running, stopped,
                 outcomes, ledger, declined, interrupts>>

\* The no-progress stop: every pending call that no sibling runs is told that
\* it was not started.
StopBatch(c) ==
  /\ Runs(c, "guards")
  /\ declined' = declined \cup (pending \ running)
  /\ pending' = pending \cap running
  /\ stopped' = parallel
  /\ Leave(c)
  /\ UNCHANGED <<batch, parallel, cancelling, failed, running, outcomes,
                 ledger, results, interrupts>>

SuspendsAlone(c) ==  \* mutant: does not stop the gate
  /\ Runs(c, "guards")
  /\ outcomes' = outcomes \cup {c}
  /\ Leave(c)
  /\ UNCHANGED <<batch, parallel, cancelling, failed, running, stopped, pending,
                 ledger, results, declined, interrupts>>

\* An approval or the user's answer is needed: the call stays pending.
Suspends(c) ==
  /\ Runs(c, "guards")
  /\ outcomes' = outcomes \cup {c}
  /\ stopped' = parallel
  /\ Leave(c)
  /\ UNCHANGED <<batch, parallel, cancelling, failed, running, pending, ledger,
                 results, declined, interrupts>>

\* The provider of an overlapping call starts and the lock is given up.
Observe(c) ==
  /\ Runs(c, "guards")
  /\ parallel
  /\ ledger' = [ledger EXCEPT ![c] = "running"]
  /\ running' = running \cup {c}
  /\ holder' = None
  /\ Goto(c, "observing")
  /\ UNCHANGED <<batch, parallel, cancelling, failed, queue, stopped, settled,
                 outcomes, pending, results, declined, interrupts>>

StartsBesideSiblings(c) ==  \* mutant: does not wait for the siblings
  /\ Runs(c, "guards")
  /\ ~parallel \/ c \in Withdrawn
  /\ ledger' = [ledger EXCEPT ![c] = "running"]
  /\ stopped' = parallel
  /\ Goto(c, "alone")
  /\ UNCHANGED <<batch, parallel, cancelling, failed, holder, queue, running,
                 settled, outcomes, pending, results, declined, interrupts>>

\* A barrier call, or a call whose spec is unsafe when it is looked at again:
\* the record is RUNNING, and the provider starts once no sibling is in flight.
StartUnsafe(c) ==
  /\ Runs(c, "guards")
  /\ ~parallel \/ c \in Withdrawn
  /\ ledger' = [ledger EXCEPT ![c] = "running"]
  /\ stopped' = parallel
  /\ IF running = {}
       THEN Goto(c, "alone") /\ UNCHANGED <<holder, settled>>
       ELSE Goto(c, "draining") /\ holder' = None /\ settled' = FALSE
  /\ UNCHANGED <<batch, parallel, cancelling, failed, queue, running,
                 outcomes, pending, results, declined, interrupts>>

\* The provider of an overlapping call returns, or raises into a result.
ObservationEnds(c) ==
  /\ Runs(c, "observing")
  /\ Goto(c, "reacquire")
  /\ queue' = Append(queue, c)
  /\ UNCHANGED <<batch, parallel, cancelling, failed, holder, running, stopped,
                 settled, outcomes, pending, ledger, results, declined, interrupts>>

\* A sibling has settled: the draining worker asks for the lock again.
Wake(c) ==
  /\ Runs(c, "draining")
  /\ settled
  /\ Goto(c, "redrain")
  /\ queue' = Append(queue, c)
  /\ UNCHANGED <<batch, parallel, cancelling, failed, holder, running, stopped,
                 settled, outcomes, pending, ledger, results, declined, interrupts>>

\* A worker that had given the lock up is first in the queue and takes it.
Reacquires(c, where) ==
  /\ pc[c] = where
  /\ holder = None
  /\ queue # <<>> /\ Head(queue) = c
  /\ queue' = Tail(queue)

\* The worker is off gate.running and its result is committed to the ledger.
TakeBack(c) ==
  /\ Reacquires(c, "reacquire")
  /\ c \notin cancelling
  /\ running' = running \ {c}
  /\ settled' = TRUE
  /\ Goto(c, "recording")
  /\ holder' = c
  /\ ledger' = [ledger EXCEPT ![c] = "committed"]
  /\ UNCHANGED <<batch, parallel, cancelling, failed, stopped,
                 outcomes, pending, results, declined, interrupts>>

\* It was cancelled meanwhile, or the commit of its result fails: the lock is
\* taken back all the same before the exception leaves.
TakeBackAndRaise(c) ==
  /\ Reacquires(c, "reacquire")
  /\ running' = running \ {c}
  /\ settled' = TRUE
  /\ Goto(c, "done")
  /\ failed' = failed \cup {c}
  /\ cancelling' = cancelling \ {c}
  /\ UNCHANGED <<batch, parallel, holder, stopped, outcomes, pending, ledger,
                 results, declined, interrupts>>

\* With the lock again, the unsafe call looks once more for siblings in flight.
Recheck(c) ==
  /\ Reacquires(c, "redrain")
  /\ c \notin cancelling
  /\ IF running = {}
       THEN Goto(c, "alone") /\ holder' = c /\ UNCHANGED settled
       ELSE Goto(c, "draining") /\ settled' = FALSE /\ UNCHANGED holder
  /\ UNCHANGED <<batch, parallel, cancelling, failed, running, stopped,
                 outcomes, pending, ledger, results, declined, interrupts>>

RecheckAndRaise(c) ==
  /\ Reacquires(c, "redrain")
  /\ c \in cancelling
  /\ Goto(c, "done")
  /\ failed' = failed \cup {c}
  /\ cancelling' = cancelling \ {c}
  /\ UNCHANGED <<batch, parallel, holder, running, stopped, settled, outcomes,
                 pending, ledger, results, declined, interrupts>>

\* A provider that ran alone returns; its result is committed under the lock.
AloneEnds(c) ==
  /\ Runs(c, "alone")
  /\ Goto(c, "recording")
  /\ ledger' = [ledger EXCEPT ![c] = "committed"]
  /\ UNCHANGED <<batch, parallel, cancelling, failed, gate, outcomes, pending,
                 results, declined, interrupts>>

RecordKeepsPending(c) ==  \* mutant: no _complete_pending_call
  /\ Runs(c, "recording")
  /\ results' = results \cup {c}
  /\ Leave(c)
  /\ UNCHANGED <<batch, parallel, cancelling, failed, running, stopped,
                 outcomes, pending, ledger, declined, interrupts>>

\* The result joins the transcript and the call is no longer pending.
Record(c) ==
  /\ Runs(c, "recording")
  /\ pending' = pending \ {c}
  /\ results' = results \cup {c}
  /\ Leave(c)
  /\ UNCHANGED <<batch, parallel, cancelling, failed, running, stopped,
                 outcomes, ledger, declined, interrupts>>

\* A commit under the lock raises (another process moved the row), or the
\* worker meets its cancellation there.
RaiseHoldingLock(c) ==
  /\ pc[c] \in {"guards", "alone", "recording"}
  /\ failed' = failed \cup {c}
  /\ cancelling' = cancelling \ {c}
  /\ Leave(c)
  /\ UNCHANGED <<batch, parallel, running, stopped, outcomes, pending, ledger,
                 results, declined, interrupts>>

\* A worker cancelled in the queue gives up its place and ends.
CancelWaiting(c) ==
  /\ pc[c] = "waiting"
  /\ c \in cancelling
  /\ Goto(c, "done")
  /\ \E i \in 1..Len(queue) :
       /\ queue[i] = c
       /\ queue' = SubSeq(queue, 1, i - 1) \o SubSeq(queue, i + 1, Len(queue))
  /\ failed' = failed \cup {c}
  /\ cancelling' = cancelling \ {c}
  /\ UNCHANGED <<batch, parallel, holder, running, stopped, settled, outcomes,
                 pending, ledger, results, declined, interrupts>>

\* A worker cancelled without the lock takes it back before it raises.
CancelUnlocked(c) ==
  /\ c \in cancelling
  /\ \/ pc[c] = "observing" /\ Goto(c, "reacquire")
     \/ pc[c] = "draining" /\ Goto(c, "redrain")
  /\ queue' = Append(queue, c)
  /\ UNCHANGED <<batch, parallel, cancelling, failed, holder, running, stopped,
                 settled, outcomes, pending, ledger, results, declined, interrupts>>

-----------------------------------------------------------------------------
Worker(c) ==
  \/ Acquire(c)
  \/ GuardAnswers(c)
  \/ StopBatch(c)
  \/ Suspends(c)
  \/ Observe(c)
  \/ StartUnsafe(c)
  \/ ObservationEnds(c)
  \/ Wake(c)
  \/ TakeBack(c)
  \/ TakeBackAndRaise(c)
  \/ Recheck(c)
  \/ RecheckAndRaise(c)
  \/ AloneEnds(c)
  \/ Record(c)
  \/ RaiseHoldingLock(c)
  \/ CancelWaiting(c)
  \/ CancelUnlocked(c)

Turn == StartGroup \/ StartSerial \/ Finish \/ GroupReturns \/ Abort \/ Raise

Next == Turn \/ Interrupt \/ \E c \in Calls : Worker(c)

Spec == Init /\ [][Next]_vars

\* The event loop resumes every coroutine that can go on, and asyncio.timeout
\* ends every provider call.  Nothing makes anybody cancel the Turn.
LiveSpec == Spec /\ WF_vars(Turn) /\ \A c \in Calls : WF_vars(Worker(c))

-----------------------------------------------------------------------------
\* Behind a gate the lock is held by exactly the worker that runs the guards,
\* records a result or invokes an unsafe provider, whatever was cancelled
\* (ToolExecutionGate._reacquire takes it back before `async with` gives it up).
LockMatchesWorkers ==
  \A c \in Calls :
    holder = c <=> parallel /\ pc[c] \in {"guards", "alone", "recording"}

\* When run_tool_batch returns or raises no worker is left, none waits for the
\* lock and no call counts as in flight ("Await every worker before returning,
\* cancelling, or resuming a Task").
NothingLeftRunning ==
  batch \in Ended =>
    /\ GroupDone
    /\ running = {}
    /\ holder = None
    /\ queue = <<>>

\* A call is pending, answered by a result, or declined, and never two of them:
\* the transcript gets one answer per call although workers finish out of order
\* and a stop answers for all calls at once.
AnsweredOnce ==
  /\ results \cap declined = {}
  /\ pending = Calls \ (results \cup declined)

\* Once a call of the group has suspended the Turn for the user, or a stop has
\* declined its calls, no further call of the batch starts: the workers queued
\* at the lock, and those in flight, find gate.stopped.
StoppedStartsNothing ==
  [][ outcomes # {} \/ declined # {} =>
        \A c \in Calls : ledger[c] = "new" => ledger'[c] = "new" ]_vars

Observing == {c \in Calls : pc[c] = "observing"}
Alone == IF \E c \in Calls : pc[c] = "alone"
           THEN CHOOSE c \in Calls : pc[c] = "alone" ELSE None
SC == INSTANCE SharedCalls WITH observing <- Observing, alone <- Alone

\* The batch promises SharedCalls: a call that is not a safe observation when
\* its provider is invoked runs with no sibling beside it ("never overlap a
\* newly unsafe invocation with running siblings").
UnsafeRunsAlone == SC!Spec

\* run_tool_batch ends: no worker waits for a lock nobody gives up.
BatchEnds == <>(batch \in Ended)

\* A withdrawn call that waits for its siblings is invoked, or its worker is
\* cancelled: the wake-up between two settlements is not lost.
DrainingEnds ==
  \A c \in Calls : pc[c] = "draining" ~> pc[c] \in {"alone", "done"}

\* A call that is told it "was not started because the Runtime reached a
\* no-progress safety stop" was not started by this batch.  The lock is first
\* come first served, so every worker of the group has passed the guards before
\* a sibling is back from its provider and may fail with its call pending.
DeclinedNeverStarted == \A c \in declined : ledger[c] = "new"
=============================================================================
