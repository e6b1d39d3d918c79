---------------------------- MODULE EventStream ----------------------------
(***************************************************************************)
(* How a committed event reaches a reader of the Task's UI stream:         *)
(* adapters' EventedRuntimeStore (a signal per Task, replaced and set by   *)
(* every commit) and subscribe_task_ui of sdk/ui_events.py (a generator    *)
(* that captures the signal, reads the durable log page by page, sends a   *)
(* snapshot and sleeps on what it captured).                               *)
(*                                                                         *)
(* Everything runs on one event loop, and a generator is suspended only    *)
(* where it yields a frame or sleeps.  The steps below are at least as     *)
(* fine as that.                                                           *)
(***************************************************************************)
EXTENDS Naturals, Sequences, FiniteSets

CONSTANTS
  Readers,      \* connections of the UI
  PageSize,     \* events read at once
  MaxEvents,    \* bound: events committed
  MaxOpens      \* bound: connections opened

ASSUME PageAssumption == PageSize \in Nat \ {0}
ASSUME BoundsAssumption == {MaxEvents, MaxOpens} \subseteq Nat

\* What the stream tells apart in an event: one it does not show, one it
\* shows, one that settles the Task (the view becomes final or waits for the
\* user), one that interrupts it, and one that sets it going again.
Kinds == {"quiet", "shown", "settle", "interrupt", "reopen"}
NoSnapshot == [cursor |-> 0, settled |-> FALSE, redirecting |-> FALSE]

VARIABLES
  log,       \* the durable events of the Task
  redirect,  \* _has_pending_redirect: the runner of a redirect is not done
  object,    \* the CommitSignal the store would notify; 0: none
  users,     \* CommitSignal.users
  opens,     \* connections opened so far
  reader,    \* reader[r]: "closed", "reading", "page", "answer" or "parked"
  mine,      \* mine[r]: the CommitSignal r watches
  woken,     \* woken[r]: the Event r has captured is set
  cursor,    \* cursor[r]: the last event delivered
  upto,      \* upto[r]: the end of the page being delivered
  full,      \* full[r]: the page has PageSize events
  visible,   \* visible[r]: something to show since the last sleep
  initial,   \* initial[r]: no snapshot sent yet
  candidate, \* candidate[r]: the snapshot about to be sent
  held       \* held[r]: the last snapshot sent said redirect_pending

store == <<log, redirect, object, users, opens>>
watch == <<mine, woken>>
page == <<upto, full>>
streamVars == <<store, reader, watch, cursor, page, visible, initial, candidate, held>>

\* After n events the state of the Task is the one this kind of event leads to.
RowIs(n, kind) ==
  \E i \in 1..n : log[i] = kind /\ \A j \in (i + 1)..n : log[j] \in {"quiet", "shown"}

Rests(n) == RowIs(n, "settle") \/ RowIs(n, "interrupt")

\* An interrupted Task whose successor Turn has a live runner is shown as running.
Snapshot(n) ==
  [cursor |-> n,
   settled |-> RowIs(n, "settle") \/ (RowIs(n, "interrupt") /\ ~redirect),
   redirecting |-> RowIs(n, "interrupt") /\ redirect]

Snapshots == [cursor : 0..MaxEvents, settled : BOOLEAN, redirecting : BOOLEAN]

StreamTypeOK ==
  /\ log \in Seq(Kinds) /\ Len(log) <= MaxEvents
  /\ redirect \in BOOLEAN
  /\ object \in 0..MaxOpens
  /\ users \in Nat
  /\ opens \in 0..MaxOpens
  /\ reader \in [Readers -> {"closed", "reading", "page", "answer", "parked"}]
  /\ mine \in [Readers -> 0..MaxOpens]
  /\ woken \in [Readers -> BOOLEAN]
  /\ cursor \in [Readers -> 0..Len(log)]
  /\ upto \in [Readers -> 0..Len(log)]
  /\ full \in [Readers -> BOOLEAN]
  /\ visible \in [Readers -> BOOLEAN]
  /\ initial \in [Readers -> BOOLEAN]
  /\ candidate \in [Readers -> Snapshots]
  /\ held \in [Readers -> BOOLEAN]

Of(x) == [r \in Readers |-> x]

StreamInit ==
  /\ log = <<>>
  /\ redirect = FALSE
  /\ object = 0
  /\ users = 0
  /\ opens = 0
  /\ reader = Of("closed")
  /\ mine = Of(0)
  /\ woken = Of(FALSE)
  /\ cursor = Of(0)
  /\ upto = Of(0)
  /\ full = Of(FALSE)
  /\ visible = Of(FALSE)
  /\ initial = Of(TRUE)
  /\ candidate = Of(NoSnapshot)
  /\ held = Of(FALSE)

-----------------------------------------------------------------------------
\* The store.

\* A new Event replaces the current one, which is set.
Notifies == woken' = [r \in Readers |-> woken[r] \/ (mine[r] = object /\ object # 0)]

Commit ==
  /\ Len(log) < MaxEvents
  /\ \E kind \in Kinds : log' = Append(log, kind)
  /\ Notifies
  /\ UNCHANGED <<redirect, object, users, opens, reader, mine, cursor, page,
                 visible, initial, candidate, held>>

\* Live content that is not in the log, or the end of a runner.
Progress ==
  /\ Notifies
  /\ UNCHANGED <<log, redirect, object, users, opens, reader, mine, cursor, page, visible,
                 initial, candidate, held>>

\* A redirect publishes its runner and waits; nobody is notified.
RedirectBegins ==
  /\ redirect' = TRUE
  /\ UNCHANGED <<log, object, users, opens, reader, watch, cursor, page, visible, initial,
                 candidate, held>>

\* Its coroutine has returned or was cancelled.  The callback notifies (Progress).
RedirectEnds ==
  /\ redirect
  /\ redirect' = FALSE
  /\ UNCHANGED <<log, object, users, opens, reader, watch, cursor, page, visible, initial,
                 candidate, held>>

Watches(r) ==
  /\ object' = IF object = 0 THEN opens + 1 ELSE object
  /\ users' = users + 1
  /\ mine' = [mine EXCEPT ![r] = object']

Releases ==
  /\ users' = users - 1
  /\ object' = IF users = 1 THEN 0 ELSE object

-----------------------------------------------------------------------------
\* One reader.

Away(r) == reader[r] = "closed"

\* It connects with the cursor it was left at, or with one of another log.
Open(r) ==
  /\ Away(r)
  /\ opens < MaxOpens
  /\ opens' = opens + 1
  /\ Watches(r)
  /\ woken' = [woken EXCEPT ![r] = FALSE]
  /\ \E after \in 0..MaxEvents :
       cursor' = [cursor EXCEPT ![r] = IF after > Len(log) THEN 0 ELSE after]
  /\ reader' = [reader EXCEPT ![r] = "reading"]
  /\ UNCHANGED <<log, redirect, page, visible, initial, candidate, held>>

\* The page is done with.
Forgets(r) ==
  /\ upto' = [upto EXCEPT ![r] = 0]
  /\ full' = [full EXCEPT ![r] = FALSE]

\* The generator is gone, and its variables with it.
Ends(r) ==
  /\ reader' = [reader EXCEPT ![r] = "closed"]
  /\ Releases
  /\ mine' = [mine EXCEPT ![r] = 0]
  /\ woken' = [woken EXCEPT ![r] = FALSE]
  /\ cursor' = [cursor EXCEPT ![r] = 0]
  /\ Forgets(r)
  /\ visible' = [visible EXCEPT ![r] = FALSE]
  /\ initial' = [initial EXCEPT ![r] = TRUE]
  /\ candidate' = [candidate EXCEPT ![r] = NoSnapshot]
  /\ held' = [held EXCEPT ![r] = FALSE]

\* The connection is dropped while a frame is being sent or nothing happens.
Close(r) ==
  /\ ~Away(r)
  /\ Ends(r)
  /\ UNCHANGED <<log, redirect, opens>>

ReadPage(r) ==
  /\ reader[r] = "reading"
  /\ LET end == cursor[r] + PageSize
     IN /\ upto' = [upto EXCEPT ![r] = IF end < Len(log) THEN end ELSE Len(log)]
        /\ full' = [full EXCEPT ![r] = end <= Len(log)]
  /\ reader' = [reader EXCEPT ![r] = "page"]
  /\ UNCHANGED <<store, watch, cursor, visible, initial, candidate, held>>

Deliver(r) ==
  /\ reader[r] = "page"
  /\ cursor[r] < upto[r]
  /\ cursor' = [cursor EXCEPT ![r] = @ + 1]
  /\ visible' = [visible EXCEPT ![r] = @ \/ log[cursor'[r]] # "quiet"]
  /\ UNCHANGED <<store, reader, watch, page, initial, candidate, held>>

\* A full page is followed by another one.
ReadOn(r) ==
  /\ reader[r] = "page"
  /\ cursor[r] = upto[r]
  /\ full[r]
  /\ reader' = [reader EXCEPT ![r] = "reading"]
  /\ Forgets(r)
  /\ UNCHANGED <<store, watch, cursor, visible, initial, candidate, held>>

Shows(r) == visible[r] \/ initial[r]

\* A short page ends the reading, unless the snapshot it calls for is newer
\* than what was delivered.
EndPage(r) ==
  /\ reader[r] = "page"
  /\ cursor[r] = upto[r]
  /\ ~full[r]
  /\ IF Shows(r) /\ cursor[r] < Len(log)
     THEN /\ reader' = [reader EXCEPT ![r] = "reading"]
          /\ UNCHANGED candidate
     ELSE /\ reader' = [reader EXCEPT ![r] = "answer"]
          /\ candidate' = IF Shows(r) THEN [candidate EXCEPT ![r] = Snapshot(Len(log))]
                                      ELSE candidate
  /\ Forgets(r)
  /\ UNCHANGED <<store, watch, cursor, visible, initial, held>>

\* After the live content: the snapshot, or only the cursor.
Settles(r) == Shows(r) /\ candidate[r].settled

AnswersVisible(r) ==  \* mutant: a reader who missed nothing gets no snapshot
  /\ reader[r] = "answer"
  /\ ~(visible[r] /\ candidate[r].settled)
  /\ held' = IF visible[r] THEN [held EXCEPT ![r] = candidate[r].redirecting] ELSE held
  /\ initial' = [initial EXCEPT ![r] = FALSE]
  /\ visible' = [visible EXCEPT ![r] = FALSE]
  /\ candidate' = [candidate EXCEPT ![r] = NoSnapshot]
  /\ reader' = [reader EXCEPT ![r] = "parked"]
  /\ UNCHANGED <<store, watch, cursor, page>>

Answer(r) ==
  /\ reader[r] = "answer"
  /\ ~Settles(r)
  /\ held' = IF Shows(r) THEN [held EXCEPT ![r] = candidate[r].redirecting] ELSE held
  /\ initial' = [initial EXCEPT ![r] = FALSE]
  /\ visible' = [visible EXCEPT ![r] = FALSE]
  /\ candidate' = [candidate EXCEPT ![r] = NoSnapshot]
  /\ reader' = [reader EXCEPT ![r] = "parked"]
  /\ UNCHANGED <<store, watch, cursor, page>>

\* A view that is final, or waits for the user, ends the stream.
AnswerFinally(r) ==
  /\ reader[r] = "answer"
  /\ Settles(r)
  /\ Ends(r)
  /\ UNCHANGED <<log, redirect, opens>>

\* The captured Event is set: the reader captures the next one and reads.
Wake(r) ==
  /\ reader[r] = "parked"
  /\ woken[r]
  /\ woken' = [woken EXCEPT ![r] = FALSE]
  /\ reader' = [reader EXCEPT ![r] = "reading"]
  /\ UNCHANGED <<store, mine, cursor, page, visible, initial, candidate, held>>

Steps(r) == \/ ReadPage(r) \/ Deliver(r) \/ ReadOn(r) \/ EndPage(r)
            \/ Answer(r) \/ AnswerFinally(r) \/ Wake(r)

StreamNext ==
  \/ Commit \/ Progress
  \/ RedirectBegins \/ RedirectEnds
  \/ \E r \in Readers : \/ Open(r) \/ Close(r) \/ ReadPage(r) \/ Deliver(r) \/ ReadOn(r)
                        \/ EndPage(r) \/ Answer(r) \/ AnswerFinally(r) \/ Wake(r)

StreamSpec == StreamInit /\ [][StreamNext]_streamVars

\* The loop resumes a reader whose frame was taken or whose Event is set.
StreamLiveSpec == StreamSpec /\ \A r \in Readers : WF_streamVars(Steps(r))

-----------------------------------------------------------------------------
\* "A commit between read and wait cannot be lost": a reader that nothing will
\* wake has delivered the whole log (evented_runtime_store.py).
SleepersAreCaughtUp ==
  \A r \in Readers : reader[r] = "parked" /\ ~woken[r] => cursor[r] = Len(log)

\* "Never acknowledge a newer snapshot cursor until every event through that
\* cursor has been delivered", although commits go on while frames are sent
\* (subscribe_task_ui).
SnapshotNeverAhead ==
  \A r \in Readers : reader[r] = "answer" /\ Shows(r) => candidate[r].cursor <= cursor[r]

\* Connections that come and go in any order leave every open one watching the
\* signal the store notifies, counted once (EventedRuntimeStore.watch).
WatchersShareSignal ==
  LET open == {r \in Readers : ~Away(r)}
  IN users = Cardinality(open) /\ \A r \in open : mine[r] = object /\ object # 0

\* What is committed reaches every connection that stays open.
EventsArrive ==
  \A r \in Readers, n \in 1..MaxEvents :
    Len(log) >= n /\ ~Away(r) ~> cursor[r] >= n \/ Away(r)

SettledNow == Snapshot(Len(log)).settled

\* A reader that nothing will wake has been told how the Task rests, and so ended,
\* unless its last snapshot said that a redirect was pending (subscribe_task_ui).
SleepersKnowTheEnd ==
  \A r \in Readers :
    reader[r] = "parked" /\ ~woken[r] => (Rests(Len(log)) => held[r])

SleepersMissNothing == SleepersAreCaughtUp /\ SleepersKnowTheEnd

\* A Task that has settled ends its streams, also those that reconnect at its
\* last event and have nothing left to be shown, unless their last snapshot said
\* that a redirect was pending (subscribe_task_ui, ui_snapshot).
SettledStreamsEnd ==
  \A r \in Readers : ~Away(r) /\ SettledNow ~> Away(r) \/ ~SettledNow \/ held[r]

\* Does not hold: when a redirect ends without another event to show, its callback
\* wakes the reader, who sends no snapshot and sleeps on (_runner_finished).
SettledStreamsAlwaysEnd ==
  \A r \in Readers : ~Away(r) /\ SettledNow ~> Away(r) \/ ~SettledNow

\* A connection is shown everything, and no longer than there is something to
\* show (subscribe_task_ui).
StreamsKeepUp == EventsArrive /\ SettledStreamsEnd
=============================================================================
