------------------------------ MODULE Sessions ------------------------------
(***************************************************************************)
(* One Session of several processes: its row, its events, the Tasks        *)
(* attached to it and the follow-ups queued behind them (SessionMixin,     *)
(* TaskMixin.create_task, the chat loop of the CLI, the Session tables of  *)
(* the SQLite store).                                                      *)
(*                                                                         *)
(* A change of a Session loads the row and the events, decides, and        *)
(* commits with the version it loaded.  Operations that decide by the row  *)
(* and the events alone, and load again after a conflict, are one action:  *)
(* the load and the commit that went through.  Those which keep what they  *)
(* read across other reads (create, consume, close, answer, settings) are  *)
(* two, with the row they loaded in base and stale once somebody else      *)
(* committed.  Titles, texts, revisions and hashes are left out, and so is *)
(* active_task_id, which no decision below reads.                          *)
(*                                                                         *)
(* An end of a Task is not for ever: what an approval of another process   *)
(* remembers of the row is written over it (RunApproved), whatever the     *)
(* Session decided by it meanwhile.                                        *)
(***************************************************************************)
EXTENDS Naturals, Sequences, FiniteSets

CONSTANTS
  Chats,       \* processes that run the interactive chat of the CLI
  Callers,     \* processes that call the kernel
  Tasks,       \* identities a new Task can get
  Inputs,      \* follow-ups the user queues
  MaxChoices,  \* bound: menus shown
  MaxRevived,  \* bound: Tasks taken back from their end by an old row
  None

Clients == Chats \cup Callers

ASSUME ClientsAssumption == Chats \cap Callers = {}
ASSUME NoneAssumption == None \notin Tasks \cup Inputs
ASSUME MaxChoicesAssumption == MaxChoices \in Nat
ASSUME MaxRevivedAssumption == MaxRevived \in Nat

VARIABLES
  session,   \* the row of the Session
  log,       \* what its events say
  row,       \* row[t]: the state of Task t, "none" before it is created
  command,   \* session_task_commands: the Task a follow-up's command created
  client,    \* client[c]: where client c is and what it read
  made,      \* history: made[i], the Tasks created for follow-up i
  revived    \* history: the Tasks an approval's old row took back from their end

vars == <<session, log, row, command, client, made, revived>>
histories == <<made, revived>>

Ended == {"SUCCEEDED", "CANCELLED"}
TaskState ==
  {"none", "CREATED", "EXECUTING", "AWAITING_INPUT", "AWAITING_USER", "INTERRUPTED"} \cup Ended
Menus == 0..MaxChoices  \* 0: no menu is pending

SessionRow == [state : {"ACTIVE", "CLOSED", "ARCHIVED"}, tasks : SUBSET Tasks,
               pending : Menus, profile : {"default", "chosen"}]

NewSession == [state |-> "ACTIVE", tasks |-> {}, pending |-> 0, profile |-> "default"]

Idle == [pc |-> "idle", item |-> None, task |-> None, base |-> NewSession, stale |-> FALSE,
         todo |-> {}, then |-> "idle"]

Steps == {"idle", "bind", "create", "supersede", "attach", "mark", "clear", "select", "run",
          "resume", "approved", "turn", "mirror", "consume", "close", "answer", "settings"}

TypeOK ==
  /\ session \in SessionRow
  /\ log.row \in SessionRow
  /\ log.taken \in [Inputs -> Tasks \cup {None}]
  /\ log.cancelled \subseteq Inputs
  /\ log.atomic \subseteq Inputs
  /\ \A n \in DOMAIN log.queue : log.queue[n] \in [input : Inputs, after : Tasks]
  /\ log.asked \in Menus
  /\ row \in [Tasks -> TaskState]
  /\ command \in [Inputs -> Tasks \cup {None}]
  /\ client \in [Clients -> [pc : Steps, item : Inputs \cup {None}, task : Tasks \cup {None},
                             base : SessionRow, stale : BOOLEAN, todo : SUBSET Tasks,
                             then : {"idle", "supersede"}]]
  /\ made \in [Inputs -> SUBSET Tasks]
  /\ revived \subseteq Tasks

Init ==
  /\ session = NewSession
  /\ log = [row |-> NewSession, queue |-> <<>>, taken |-> [i \in Inputs |-> None],
            cancelled |-> {}, atomic |-> {}, asked |-> 0]
  /\ row = [t \in Tasks |-> "none"]
  /\ command = [i \in Inputs |-> None]
  /\ client = [c \in Clients |-> Idle]
  /\ made = [i \in Inputs |-> {}]
  /\ revived = {}

-----------------------------------------------------------------------------
\* Reading and committing the Session.

Go(c, pc) == [client[c] EXCEPT !.pc = pc, !.stale = FALSE, !.base = NewSession]
Move(c, to) == client' = [client EXCEPT ![c] = to]
Forget(c) == Move(c, Idle)

\* What a client keeps of the row it loaded: nothing outside the operations that
\* commit what they loaded.
Loaded(x) == client[x].pc \in {"attach", "consume", "close", "answer", "settings"}
Read(c, pc) == [client[c] EXCEPT !.pc = pc, !.base = session, !.stale = FALSE]

\* Whoever loaded the row before is stale once c has committed.
MoveAndStale(c, to) ==
  client' = [x \in Clients |->
               IF x = c THEN to
               ELSE [client[x] EXCEPT !.stale = @ \/ Loaded(x)]]

\* The version c loaded is the version in the store.
AnyVersion(c) == client[c].stale \in BOOLEAN  \* mutant: no compare before the set
SameVersion(c) == ~client[c].stale

\* commit_session: the row c computed from the one it loaded, with the event that
\* tells the change.
Commit(c, Change(_), events, to) ==
  /\ SameVersion(c)
  /\ session' = Change(client[c].base)
  /\ log' = [events EXCEPT !.row = Change(@)]
  /\ MoveAndStale(c, to)

\* The same in one step: loaded, decided, committed, however often it took.
CommitNow(c, Change(_), events, to) ==
  /\ session' = Change(session)
  /\ log' = [events EXCEPT !.row = Change(@)]
  /\ MoveAndStale(c, to)

Same(s) == s
ClosedNow(s) == [s EXCEPT !.state = "CLOSED", !.pending = 0]
ArchivedNow(s) == [s EXCEPT !.state = "ARCHIVED"]
NoMenu(s) == [s EXCEPT !.pending = 0]
Chosen(s) == [s EXCEPT !.profile = "chosen"]

Active == session.state = "ACTIVE"

-----------------------------------------------------------------------------
\* The follow-ups of the Session.

QueuedInputs == {log.queue[n].input : n \in DOMAIN log.queue}
After(i) == LET n == CHOOSE m \in DOMAIN log.queue : log.queue[m].input = i
            IN log.queue[n].after
Waiting(i) == i \in QueuedInputs /\ log.taken[i] = None /\ i \notin log.cancelled
Ready(i) == Waiting(i) /\ row[After(i)] \in Ended

\* The first ready one in the order of the queue.
FirstReady(i) ==
  \E n \in DOMAIN log.queue :
    /\ log.queue[n].input = i /\ Ready(i)
    /\ \A k \in 1..(n - 1) : ~Ready(log.queue[k].input)

\* queue_session_follow_up: any Session the Task belongs to, active or not.
Queue(c, i, t) ==
  /\ client[c].pc \in {"idle", "turn"}
  /\ client[c].pc = "turn" => t = client[c].task
  /\ t \in session.tasks
  /\ i \notin QueuedInputs
  /\ CommitNow(c, Same, [log EXCEPT !.queue = Append(@, [input |-> i, after |-> t])], client[c])
  /\ UNCHANGED <<row, command, histories>>

\* cancel_session_follow_up.
Unqueue(c, i) ==
  /\ client[c].pc \in {"idle", "turn"}
  /\ Waiting(i)
  /\ CommitNow(c, Same, [log EXCEPT !.cancelled = @ \cup {i}], client[c])
  /\ UNCHANGED <<row, command, histories>>

\* consume_queued_session_follow_up: the row and the events are loaded, the Task
\* the input waits for is read, the command looked up; the command's Task is kept
\* in task (None: none yet).
ConsumeLoads(c, i) ==
  /\ c \in Callers /\ client[c].pc = "idle"
  /\ Ready(i)
  /\ command[i] # None \/ Active
  /\ Move(c, [Read(c, "consume") EXCEPT !.item = i, !.task = command[i]])
  /\ UNCHANGED <<session, log, row, command, histories>>

\* Its command ran before: the follow-up is marked with the Task it created.
ConsumeReplays(c) ==
  LET i == client[c].item
      t == client[c].task
  IN /\ client[c].pc = "consume" /\ t # None
     /\ Commit(c, Same, [log EXCEPT !.taken[i] = t], Go(c, "run"))
     /\ UNCHANGED <<row, command, histories>>

\* commit_session_and_task: a command that has a Task is refused before the
\* versions are compared.
CommandReplaced(i) == command[i] \in Tasks \cup {None}  \* mutant
CommandUnused(i) == command[i] = None

\* The Task, its attachment, the command and the dispatch are one commit.
ConsumeCreates(c, t) ==
  LET i == client[c].item
      Attached(s) == [s EXCEPT !.tasks = @ \cup {t}]
  IN /\ client[c].pc = "consume" /\ client[c].task = None
     /\ row[t] = "none"
     /\ CommandUnused(i)
     /\ Commit(c, Attached, [log EXCEPT !.taken[i] = t, !.atomic = @ \cup {i}],
               [Go(c, "run") EXCEPT !.task = t])
     /\ row' = [row EXCEPT ![t] = "CREATED"]
     /\ command' = [command EXCEPT ![i] = t]
     /\ made' = [made EXCEPT ![i] = @ \cup {t}]
     /\ UNCHANGED revived

\* Another commit came first: load again.
ConsumeRetries(c) ==
  /\ client[c].pc = "consume"
  /\ client[c].stale \/ (client[c].task = None /\ ~CommandUnused(client[c].item))
  /\ Forget(c)
  /\ UNCHANGED <<session, log, row, command, histories>>

-----------------------------------------------------------------------------
\* The chat loop: what a text is bound to.

\* A follow-up that is ready comes before the user's own input.
PickFollowUp(c, i) ==
  /\ c \in Chats /\ client[c].pc = "idle"
  /\ FirstReady(i)
  /\ Move(c, [Idle EXCEPT !.pc = "bind", !.item = i])
  /\ UNCHANGED <<session, log, row, command, histories>>

\* The user says something, or asks for a new Task.
Say(c, pc) ==
  /\ c \in Chats /\ client[c].pc = "idle"
  /\ ~\E i \in Inputs : FirstReady(i)
  /\ Move(c, [Idle EXCEPT !.pc = pc])
  /\ UNCHANGED <<session, log, row, command, histories>>

Continuable == {t \in session.tasks : row[t] \in {"AWAITING_INPUT", "INTERRUPTED"}}
Working == {t \in session.tasks : row[t] \in {"EXECUTING", "AWAITING_USER"}}

\* bind_task_input.
Bound(t) ==
  \/ Continuable = {t}
  \/ Cardinality(Continuable) # 1 /\ Working = {t} /\ Continuable = {} /\ row[t] = "EXECUTING"
BoundToNew == Cardinality(Continuable) # 1 /\ Working = {}
BoundToMenu == ~BoundToNew /\ ~\E t \in session.tasks : Bound(t)

\* With a menu on the screen no text is bound: each one creates a Task.
BindToNew(c) ==
  /\ client[c].pc = "bind"
  /\ session.pending # 0 \/ BoundToNew
  /\ Move(c, Go(c, "create"))
  /\ UNCHANGED <<session, log, row, command, histories>>

BindToTask(c, t) ==
  /\ client[c].pc = "bind"
  /\ session.pending = 0 /\ Bound(t)
  /\ Move(c, [Go(c, "clear") EXCEPT !.task = t])
  /\ UNCHANGED <<session, log, row, command, histories>>

\* request_session_task_choice.
BindToMenu(c) ==
  LET Asked(s) == [s EXCEPT !.pending = log.asked + 1]
  IN /\ client[c].pc = "bind"
     /\ session.pending = 0 /\ BoundToMenu
     /\ Active /\ log.asked < MaxChoices
     /\ CommitNow(c, Asked, [log EXCEPT !.asked = @ + 1], Idle)
     /\ UNCHANGED <<row, command, histories>>

\* clear_pending_session_interaction.
ClearMenu(c) ==
  /\ client[c].pc = "clear"
  /\ IF session.pending = 0
     THEN Move(c, Go(c, "select")) /\ UNCHANGED <<session, log>>
     ELSE CommitNow(c, NoMenu, log, Go(c, "select"))
  /\ UNCHANGED <<row, command, histories>>

\* select_session_task: an idle conversation takes the text as its next Turn, one
\* that was interrupted or lost its process resumes without it, any other is not
\* continued.  The follow-up is not marked here.
Select(c) ==
  LET t == client[c].task
      to == CASE row[t] = "AWAITING_INPUT" -> Go(c, "run")
              [] row[t] \in {"INTERRUPTED", "EXECUTING"} -> Go(c, "resume")
              [] OTHER -> Idle
  IN /\ client[c].pc = "select"
     /\ IF to = Idle THEN Forget(c) /\ UNCHANGED <<session, log>>
        ELSE Active /\ CommitNow(c, Same, log, to)
     /\ UNCHANGED <<row, command, histories>>

-----------------------------------------------------------------------------
\* Creating a Task (create_task).

\* The command of a follow-up is looked up first: its Task is not created twice.
CreateReplays(c) ==
  LET i == client[c].item
  IN /\ client[c].pc = "create" /\ i # None /\ command[i] # None
     /\ Move(c, [Go(c, "mark") EXCEPT !.task = command[i]])
     /\ UNCHANGED <<session, log, row, command, histories>>

CreateLoads(c) ==
  /\ client[c].pc = "create"
  /\ client[c].item # None => CommandUnused(client[c].item)
  /\ Move(c, [Go(c, "supersede") EXCEPT !.todo = session.tasks])
  /\ UNCHANGED <<session, log, row, command, histories>>

\* A Task comes to its end, by a version that is the current one.
EndTask(t, end) ==
  /\ row' = [row EXCEPT ![t] = end]
  /\ revived' = revived \ {t}

\* _supersede_idle_conversations: each idle conversation is closed by a commit of
\* its own, then its end is told to the Session.
SupersedeClose(c, t) ==
  /\ client[c].pc = "supersede" /\ t \in client[c].todo
  /\ row[t] = "AWAITING_INPUT"
  /\ EndTask(t, "SUCCEEDED")
  /\ Move(c, [Go(c, "mirror") EXCEPT !.task = t, !.todo = @ \ {t}, !.then = "supersede"])
  /\ UNCHANGED <<session, log, command, made>>

SupersedeSkip(c, t) ==
  /\ client[c].pc = "supersede" /\ t \in client[c].todo
  /\ row[t] # "AWAITING_INPUT"
  /\ Move(c, [client[c] EXCEPT !.todo = @ \ {t}])
  /\ UNCHANGED <<session, log, row, command, histories>>

CreateReloads(c) ==
  /\ client[c].pc = "supersede" /\ client[c].todo = {}
  /\ Move(c, [Read(c, "attach") EXCEPT !.task = None])
  /\ UNCHANGED <<session, log, row, command, histories>>

\* The Task, its attachment and the command are one commit, which is not tried
\* again.
Attach(c, t) ==
  LET i == client[c].item
      Attached(s) == [s EXCEPT !.tasks = @ \cup {t}]
  IN /\ client[c].pc = "attach" /\ client[c].base.state = "ACTIVE"
     /\ row[t] = "none"
     /\ i # None => CommandUnused(i)
     /\ Commit(c, Attached, log,
               [Go(c, IF i = None THEN "run" ELSE "mark") EXCEPT !.task = t])
     /\ row' = [row EXCEPT ![t] = "CREATED"]
     /\ command' = IF i = None THEN command ELSE [command EXCEPT ![i] = t]
     /\ made' = IF i = None THEN made ELSE [made EXCEPT ![i] = @ \cup {t}]
     /\ UNCHANGED revived

\* mark_session_follow_up_dispatched: whether it was cancelled is not looked at.
MarkDispatched(c) ==
  LET i == client[c].item
      t == client[c].task
  IN /\ client[c].pc = "mark"
     /\ log.taken[i] \in {None, t}
     /\ IF log.taken[i] = t
        THEN Move(c, Go(c, "run")) /\ UNCHANGED <<session, log>>
        ELSE CommitNow(c, Same, [log EXCEPT !.taken[i] = t], Go(c, "run"))
     /\ UNCHANGED <<row, command, histories>>

-----------------------------------------------------------------------------
\* Turns and ends of Tasks, as far as the Session sees them.

\* A client that drives a Turn of t: what it was bound by is behind it.
InTurn(t) == [Idle EXCEPT !.pc = "turn", !.task = t]

\* run_agent_turn: the text opens the Turn.
StartTurn(c) ==
  LET t == client[c].task
  IN /\ client[c].pc = "run"
     /\ row[t] \in {"CREATED", "AWAITING_INPUT"}
     /\ row' = [row EXCEPT ![t] = "EXECUTING"]
     /\ Move(c, InTurn(t))
     /\ UNCHANGED <<session, log, command, histories>>

\* resume_checkpointed_agent_turn: the Turn that stopped goes on, the text is not
\* part of it.
ResumeTurn(c) ==
  LET t == client[c].task
  IN /\ client[c].pc = "resume"
     /\ row[t] \in {"INTERRUPTED", "EXECUTING"}
     /\ row' = [row EXCEPT ![t] = "EXECUTING"]
     /\ Move(c, InTurn(t))
     /\ UNCHANGED <<session, log, command, histories>>

\* _commit_final_agent_result: the answer and the Session are one commit.
FinishTurn(c) ==
  LET t == client[c].task
  IN /\ client[c].pc = "turn" /\ row[t] = "EXECUTING"
     /\ Active
     /\ CommitNow(c, Same, log, Idle)
     /\ row' = [row EXCEPT ![t] = "AWAITING_INPUT"]
     /\ UNCHANGED <<command, histories>>

\* The Turn stops: interrupted, or the Agent asks the user.
StopTurn(c, next) ==
  LET t == client[c].task
  IN /\ client[c].pc = "turn" /\ row[t] = "EXECUTING"
     /\ row' = [row EXCEPT ![t] = next]
     /\ Forget(c)
     /\ UNCHANGED <<session, log, command, histories>>

\* The user answers or refuses ("turn"), or approves a call ("approved"): the
\* decision and the reopened Task are one commit, by the version that was loaded.
AnswerUser(c, t, pc) ==
  /\ client[c].pc = "idle" /\ row[t] = "AWAITING_USER"
  /\ row' = [row EXCEPT ![t] = "EXECUTING"]
  /\ Move(c, [Idle EXCEPT !.pc = pc, !.task = t])
  /\ UNCHANGED <<session, log, command, histories>>

\* _execute_authorized_tool: the approved call is prepared with the row the
\* approval remembers and a version read again, over whatever another process
\* has committed in between.
RunApproved(c) ==
  LET t == client[c].task
  IN /\ client[c].pc = "approved"
     /\ row' = [row EXCEPT ![t] = "EXECUTING"]
     /\ revived' = IF row[t] \in Ended THEN revived \cup {t} ELSE revived
     /\ Cardinality(revived') <= MaxRevived
     /\ Move(c, InTurn(t))
     /\ UNCHANGED <<session, log, command, made>>

\* A process that does not drive the Turn takes its owner for gone; one of another
\* process it cannot see (settle_if_orphaned).
Settle(c, t) ==
  /\ c \in Callers /\ client[c].pc = "idle" /\ row[t] = "EXECUTING"
  /\ row' = [row EXCEPT ![t] = "INTERRUPTED"]
  /\ UNCHANGED <<session, log, command, client, histories>>

\* CANCELLED is committed, then told to the Session.
CancelTask(c, t) ==
  /\ \/ client[c].pc = "idle"
     \/ client[c].pc = "turn" /\ client[c].task = t
  /\ row[t] \notin Ended \cup {"none"}
  /\ EndTask(t, "CANCELLED")
  /\ Move(c, [Idle EXCEPT !.pc = "mirror", !.task = t])
  /\ UNCHANGED <<session, log, command, made>>

\* _record_session_task_state: only an active Session can be told.
Mirror(c) ==
  LET then == client[c].then
  IN /\ client[c].pc = "mirror"
     /\ Active
     /\ CommitNow(c, Same, log,
                  IF then = "idle" THEN Idle ELSE [Go(c, then) EXCEPT !.then = "idle", !.task = None])
     /\ UNCHANGED <<row, command, histories>>

\* An exception, a conflict that is not tried again, or the end of the process.
Fails(c) ==
  /\ client[c].pc # "idle"
  /\ Forget(c)
  /\ UNCHANGED <<session, log, row, command, histories>>

-----------------------------------------------------------------------------
\* The other changes of the row: load, decide, commit.

\* close_session: every Task attached to the row it loaded has ended when it is
\* looked at.  Nothing makes an end found here last: see RunApproved.
CloseLoads(c) ==
  /\ c \in Callers /\ client[c].pc = "idle"
  /\ Active /\ \A t \in session.tasks : row[t] \in Ended
  /\ Move(c, Read(c, "close"))
  /\ UNCHANGED <<session, log, row, command, histories>>

CloseSession(c) ==
  /\ client[c].pc = "close"
  /\ Commit(c, ClosedNow, log, Idle)
  /\ UNCHANGED <<row, command, histories>>

ArchiveSession(c) ==
  /\ c \in Callers /\ client[c].pc = "idle"
  /\ session.state = "CLOSED"
  /\ CommitNow(c, ArchivedNow, log, Idle)
  /\ UNCHANGED <<row, command, histories>>

\* resolve_pending_session_choice: the menu the text was matched against is the
\* one still pending when the answer is committed.
AnswerLoads(c) ==
  /\ c \in Callers /\ client[c].pc = "idle"
  /\ session.pending # 0
  /\ Move(c, Read(c, "answer"))
  /\ UNCHANGED <<session, log, row, command, histories>>

AnswerMenu(c) ==
  /\ client[c].pc = "answer"
  /\ Commit(c, NoMenu, log, Idle)
  /\ UNCHANGED <<row, command, histories>>

\* update_session_model_profile, its effort and its skills.
SettingsLoads(c) ==
  /\ c \in Callers /\ client[c].pc = "idle"
  /\ session.profile = "default"
  /\ Move(c, Read(c, "settings"))
  /\ UNCHANGED <<session, log, row, command, histories>>

ChooseSettings(c) ==
  /\ client[c].pc = "settings"
  /\ Commit(c, Chosen, log, Idle)
  /\ UNCHANGED <<row, command, histories>>

-----------------------------------------------------------------------------

FollowUpSteps(c) ==
  \/ \E i \in Inputs : \/ \E t \in Tasks : Queue(c, i, t)
                       \/ Unqueue(c, i)
                       \/ ConsumeLoads(c, i)
  \/ ConsumeReplays(c)
  \/ \E t \in Tasks : ConsumeCreates(c, t)
  \/ ConsumeRetries(c)

BindSteps(c) ==
  \/ \E i \in Inputs : PickFollowUp(c, i)
  \/ Say(c, "bind")
  \/ Say(c, "create")
  \/ BindToNew(c) \/ BindToMenu(c) \/ \E t \in Tasks : BindToTask(c, t)
  \/ ClearMenu(c)
  \/ Select(c)

CreateSteps(c) ==
  \/ CreateReplays(c) \/ CreateLoads(c) \/ CreateReloads(c)
  \/ \E t \in Tasks : SupersedeClose(c, t) \/ SupersedeSkip(c, t) \/ Attach(c, t)
  \/ MarkDispatched(c)

TurnSteps(c) ==
  \/ StartTurn(c) \/ ResumeTurn(c) \/ FinishTurn(c)
  \/ StopTurn(c, "INTERRUPTED") \/ StopTurn(c, "AWAITING_USER")
  \/ \E t \in Tasks : \/ AnswerUser(c, t, "turn") \/ AnswerUser(c, t, "approved")
                     \/ Settle(c, t) \/ CancelTask(c, t)
  \/ RunApproved(c)
  \/ Mirror(c) \/ Fails(c)

RowSteps(c) ==
  \/ CloseLoads(c) \/ CloseSession(c) \/ ArchiveSession(c)
  \/ AnswerLoads(c) \/ AnswerMenu(c)
  \/ SettingsLoads(c) \/ ChooseSettings(c)

Next == \E c \in Clients :
  \/ FollowUpSteps(c) \/ BindSteps(c) \/ CreateSteps(c) \/ TurnSteps(c) \/ RowSteps(c)

Spec == Init /\ [][Next]_vars

-----------------------------------------------------------------------------
\* Properties.

\* The row is what the events tell, in the order they were committed: of two
\* processes that loaded the same version one is refused, and no attachment, menu,
\* setting or close is overwritten by a row computed before it
\* (_commit_session_in_transaction).
NoLostUpdate == session = log.row

\* However often the loop picks a follow-up and however many processes consume
\* it, at most one Task is created for it, and it is marked with that one
\* (session_task_commands).
OneTaskPerFollowUp ==
  \A i \in Inputs : /\ Cardinality(made[i]) <= 1
                    /\ log.taken[i] # None => made[i] = {log.taken[i]}

\* A follow-up whose cancellation was confirmed is not made a Task by
\* consume_queued_session_follow_up (the loop of the CLI does not keep this: it
\* decides before it creates).
CancelledNotConsumed == log.atomic \cap log.cancelled = {}

\* Whatever was attached while the Tasks were being looked at, a Session that is
\* closed holds no Task that could still run (close_session), but for one that had
\* ended and that the old row of an approval took back.
ClosedHoldsOnlyEnded ==
  \A r \in {session, log.row} :
    r.state # "ACTIVE" => \A t \in r.tasks \ revived : row[t] \in Ended

\* The same of every Task: "session cannot close while Tasks are unresolved"
\* (close_session).  Does not hold: see RunApproved.
ClosedHoldsNoLiveTask ==
  \A r \in {session, log.row} : r.state # "ACTIVE" => \A t \in r.tasks : row[t] \in Ended

\* "Persist one follow-up for delivery after the active Task ends": once its text
\* has opened a Turn it no longer waits for one.  Does not hold: a follow-up bound to
\* an idle conversation is not marked, and the loop picks it again.
FollowUpRunOnce ==
  [][\A c \in Clients : StartTurn(c) =>
       client[c].item = None \/ ~Waiting(client[c].item)]_vars

\* "never two live conversations" (_supersede_idle_conversations).  Does not hold:
\* only the idle ones are closed.
OneLiveConversation ==
  \A t, u \in session.tasks : row[t] \notin Ended /\ row[u] \notin Ended => t = u
=============================================================================
