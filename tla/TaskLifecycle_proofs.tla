----------------------- MODULE TaskLifecycle_proofs -----------------------
(***************************************************************************)
(* What holds of TaskLifecycle for every set of processes, calls and kinds,*)
(* however the processes interleave: TypeCorrect and RequestsPresent.      *)
(* The two rest on each other: an approval is decided by taking the call   *)
(* out of the row's request, so the types hold only because a waiting Task *)
(* has a request, and a stale row written after an approval is harmless    *)
(* only because it is a row the Task once had while EXECUTING.             *)
(* At the end, and as generally: a Turn can always go on and only goes     *)
(* forward, a cancellation is over only with the Task, and an end is left  *)
(* only by the start of an approved tool.  What lies between is about one  *)
(* process.                                                                *)
(***************************************************************************)
EXTENDS TaskLifecycle, TLAPS

\* RequestPresence as a predicate on any row.
Present(r) ==
  /\ r.state = "AWAITING_APPROVAL" => r.appr # None
  /\ r.state = "AWAITING_USER" => r.clar # None
  /\ DropsPending(r.state) => r.appr = None /\ r.clar = None

GoodRow(r) == r \in Row /\ Present(r)

\* The row a driver carries past an approval was committed EXECUTING.
GoodDriver(d) ==
  /\ d \in Driver
  /\ d.pc = "approved" => d.snap \in Row /\ d.snap.state = "EXECUTING"

\* The inductive invariant behind TypeOK and RequestPresence.
Inv == /\ TypeOK
       /\ Present(row)
       /\ \A p \in Procs : GoodDriver(drv[p])

-----------------------------------------------------------------------------
(* The operators the actions are built from stay in their types.            *)

LEMMA StateFacts ==
  /\ {"EXECUTING", "AWAITING_INPUT", "INTERRUPTED", "CONFLICT", "FAILED",
      "CANCELLED", "SUCCEEDED", "VERIFYING", "FINALIZING", "CREATED"}
       \subseteq TaskState \ {"AWAITING_APPROVAL", "AWAITING_USER"}
  /\ {"AWAITING_APPROVAL", "AWAITING_USER"} \subseteq TaskState
  /\ \A s \in {"AWAITING_APPROVAL", "AWAITING_USER", "EXECUTING", "AWAITING_INPUT"} :
       ~DropsPending(s)
BY DEF TaskState, SetupStates, RunningStates, AwaitingStates, TerminalStates, DropsPending

LEMMA SetupFacts ==
  \A s \in DOMAIN SetupNext :
    SetupNext[s] \in TaskState \ {"AWAITING_APPROVAL", "AWAITING_USER"}
BY DEF TaskState, SetupStates, RunningStates, AwaitingStates, TerminalStates, SetupNext

LEMMA TransitionType ==
  ASSUME NEW r \in Row, NEW t \in TaskState
  PROVE  /\ Transition(r, t) \in Row
         /\ Transition(r, t).state = t
         /\ DropsPending(t) => Transition(r, t).appr = None /\ Transition(r, t).clar = None
BY DEF Row, Transition

LEMMA TransitionGood ==
  ASSUME NEW r \in Row, NEW t \in TaskState \ {"AWAITING_APPROVAL", "AWAITING_USER"}
  PROVE  GoodRow(Transition(r, t))
BY TransitionType DEF GoodRow, Present

LEMMA MarkType ==
  ASSUME NEW v \in View, NEW cs, NEW how \in CallView
  PROVE  Mark(v, cs, how) \in View
BY DEF View, Mark

LEMMA FreshType == Fresh \in View
BY DEF Fresh, View, CallView

\* Saving a checkpoint touches neither the state nor the requests.
LEMMA SaveGood ==
  ASSUME NEW r, GoodRow(r), NEW v \in View \cup {None}, NEW b \in BOOLEAN
  PROVE  /\ GoodRow([r EXCEPT !.ckpt = v])
         /\ GoodRow([r EXCEPT !.ckpt = v, !.partial = b])
BY DEF GoodRow, Present, Row

\* Nor does recording an execution.
LEMMA ExecutedGood ==
  ASSUME NEW r, GoodRow(r), NEW c, NEW how \in ExecState
  PROVE  GoodRow(Executed(r, c, how))
BY DEF GoodRow, Present, Row, Executed

LEMMA FailedRowGood ==
  ASSUME NEW r, GoodRow(r), NEW b \in BOOLEAN
  PROVE  GoodRow(FailedRow(r, b))
BY TransitionGood, StateFacts DEF FailedRow, GoodRow

LEMMA ConflictedGood ==
  ASSUME NEW r, GoodRow(r)
  PROVE  GoodRow(Conflicted(r))
BY TransitionGood, StateFacts DEF Conflicted, GoodRow

LEMMA IdleGood == GoodDriver(IdleDriver) /\ GoodDriver([IdleDriver EXCEPT !.pc = "raised"])
BY FreshType DEF GoodDriver, IdleDriver, Driver, Pc

LEMMA NewDriverGood ==
  ASSUME NEW pc \in Pc \ {"approved"}, NEW v \in View, NEW b \in BOOLEAN
  PROVE  GoodDriver(NewDriver(pc, v, b))
BY DEF GoodDriver, NewDriver, IdleDriver, Driver, Pc

LEMMA ContinueGood ==
  ASSUME NEW d \in Driver, NEW v \in View
  PROVE  GoodDriver(Continue(d, v))
BY DEF GoodDriver, Continue, Driver, Pc

LEMMA MoveGood ==
  ASSUME NEW d \in Driver, NEW pc \in Pc \ {"approved"}, NEW c \in Calls
  PROVE  /\ GoodDriver([d EXCEPT !.pc = pc])
         /\ GoodDriver([d EXCEPT !.pc = pc, !.call = c])
         /\ GoodDriver([d EXCEPT !.pc = pc, !.snap = None])
<1>1. GoodDriver([d EXCEPT !.pc = pc])
  BY DEF GoodDriver, Driver
<1>2. GoodDriver([d EXCEPT !.pc = pc, !.call = c])
  BY DEF GoodDriver, Driver
<1>3. GoodDriver([d EXCEPT !.pc = pc, !.snap = None])
  BY DEF GoodDriver, Driver
<1> QED BY <1>1, <1>2, <1>3

-----------------------------------------------------------------------------
(* A step that writes a good row and a good driver keeps the invariant.     *)

LEMMA StepKeeps ==
  ASSUME Inv, NEW p \in Procs, NEW r, NEW d, GoodRow(r), GoodDriver(d), Step(p, r, d)
  PROVE  Inv'
<1>1. row' = r /\ drv' = [drv EXCEPT ![p] = d]
  BY DEF Step
<1>2. TypeOK'
  BY <1>1 DEF Inv, TypeOK, Step, GoodRow, GoodDriver
<1>3. Present(row)'
  BY <1>1 DEF Present, GoodRow
<1>4. \A q \in Procs : GoodDriver(drv[q])'
  <2>1. TAKE q \in Procs
  <2>2. drv'[q] = IF q = p THEN d ELSE drv[q]
    BY <1>1 DEF Inv, TypeOK
  <2> QED BY <2>2 DEF Inv, GoodDriver
<1> QED BY <1>2, <1>3, <1>4 DEF Inv

LEMMA RowKeeps ==
  ASSUME Inv, NEW r, GoodRow(r), row' = r,
         UNCHANGED <<drv, phase, cancel, used, runs, stopping>>,
         consent' \in [Calls -> {"none", "asked", "approved", "denied", "superseded"}]
  PROVE  Inv'
BY DEF Inv, TypeOK, GoodRow, GoodDriver, Present

LEMMA RaiseKeeps ==
  ASSUME Inv, NEW p \in Procs, NEW r, GoodRow(r), Raise(p, r)
  PROVE  Inv'
<1>1. GoodRow(FailedRow(r, drv[p].submitted))
  BY FailedRowGood DEF Inv, TypeOK, Driver
<1>2. Step(p, FailedRow(r, drv[p].submitted), [IdleDriver EXCEPT !.pc = "raised"])
  BY DEF Raise, Step
<1> QED BY <1>1, <1>2, IdleGood, StepKeeps

-----------------------------------------------------------------------------
(* Every action of a driver keeps the invariant.                            *)

LEMMA InvFacts ==
  ASSUME Inv, NEW p \in Procs
  PROVE  /\ GoodRow(row) /\ row \in Row
         /\ drv[p] \in Driver /\ GoodDriver(drv[p])
         /\ drv[p].view \in View
         /\ drv[p].submitted \in BOOLEAN
BY DEF Inv, TypeOK, GoodRow, GoodDriver, Driver

LEMMA PcFacts ==
  Pc \ {"approved"} =
    {"off", "raised", "setup", "opened", "model", "batch", "invoke",
     "prepared", "running", "rerunning", "recorded",
     "reconciled", "resuming", "verify", "finalize", "succeed"}
BY DEF Pc

LEMMA AtGood ==
  ASSUME Inv, NEW p \in Procs, NEW pc \in Pc \ {"approved"}
  PROVE  GoodDriver(At(p, pc))
<1>1. drv[p] \in Driver
  BY InvFacts
<1>2. GoodDriver([drv[p] EXCEPT !.pc = pc])
  BY <1>1 DEF GoodDriver, Driver
<1> QED BY <1>2 DEF At

LEMMA SamplingKeeps ==
  ASSUME Inv, NEW p \in Procs,
         \/ AdvanceSetup(p) \/ SaveFirstCheckpoint(p) \/ ModelProposes(p)
         \/ ModelFinishes(p) \/ PartialBoundary(p) \/ ModelFails(p)
         \/ ToolBudgetExceeded(p)
  PROVE  Inv'
<1> USE InvFacts, PcFacts
<1>1. CASE AdvanceSetup(p)
  <2>1. CASE row.state \in DOMAIN SetupNext
    <3> DEFINE t == SetupNext[row.state]
               d == [drv[p] EXCEPT !.pc = IF t = "EXECUTING" THEN "opened" ELSE @]
    <3>1. GoodRow(Transition(row, t))
      BY <2>1, SetupFacts, TransitionGood
    <3>2. GoodDriver(d)
      BY <1>1 DEF AdvanceSetup, DriverAt, GoodDriver, Driver
    <3>3. Step(p, Transition(row, t), d)
      BY <1>1, <2>1 DEF AdvanceSetup
    <3> QED BY <3>1, <3>2, <3>3, StepKeeps
  <2>2. CASE row.state \notin DOMAIN SetupNext
    BY <1>1, <2>2, RaiseKeeps DEF AdvanceSetup
  <2> QED BY <2>1, <2>2
<1>2. CASE SaveFirstCheckpoint(p)
  <2>1. GoodRow([row EXCEPT !.ckpt = Fresh, !.partial = FALSE])
    BY FreshType, SaveGood
  <2>2. GoodDriver([drv[p] EXCEPT !.pc = "model"])
    BY AtGood DEF At
  <2> QED BY <1>2, <2>1, <2>2, StepKeeps, RaiseKeeps DEF SaveFirstCheckpoint
<1>3. CASE ModelProposes(p)
  <2>1. PICK cs \in SUBSET (Calls \ used) :
          LET v == Mark(drv[p].view, cs, "pending") IN
          /\ row' = [row EXCEPT !.ckpt = v, !.partial = FALSE]
          /\ drv' = [drv EXCEPT ![p] = Continue(@, v)]
          /\ used' = used \cup cs
          /\ UNCHANGED <<phase, cancel, runs, consent, stopping>>
    BY <1>3 DEF ModelProposes
  <2> DEFINE v == Mark(drv[p].view, cs, "pending")
             r == [row EXCEPT !.ckpt = v, !.partial = FALSE]
  <2>2. v \in View
    BY MarkType DEF CallView
  <2>3. GoodRow(r) /\ row' = r
    BY <2>1, <2>2, SaveGood
  <2>4. drv' \in [Procs -> Driver] /\ \A q \in Procs : GoodDriver(drv'[q])
    <3>1. GoodDriver(Continue(drv[p], v))
      BY <2>2, ContinueGood
    <3>2. drv' = [drv EXCEPT ![p] = Continue(drv[p], v)]
      BY <2>1
    <3> QED BY <3>1, <3>2 DEF Inv, TypeOK, GoodDriver
  <2>5. TypeOK'
    BY <2>1, <2>3, <2>4 DEF Inv, TypeOK, GoodRow
  <2>6. Present(row)'
    BY <2>3 DEF GoodRow, Present
  <2>7. \A q \in Procs : GoodDriver(drv[q])'
    BY <2>4 DEF GoodDriver
  <2> QED BY <2>5, <2>6, <2>7 DEF Inv
<1>4. CASE ModelFinishes(p)
  <2> DEFINE cleared == [row EXCEPT !.ckpt = None]
             r == IF row.kind = "CONVERSATION" /\ row.state = "EXECUTING"
                  THEN Transition(cleared, "AWAITING_INPUT") ELSE cleared
             d == IF row.kind = "CONVERSATION" THEN IdleDriver
                  ELSE [drv[p] EXCEPT !.pc = "verify"]
  <2>1. GoodRow(cleared)
    BY SaveGood
  <2>2. GoodRow(r)
    BY <2>1, TransitionGood, StateFacts DEF GoodRow
  <2>3. GoodDriver(d)
    BY IdleGood, AtGood DEF At
  <2>4. Step(p, r, d)
    BY <1>4 DEF ModelFinishes
  <2> QED BY <2>2, <2>3, <2>4, StepKeeps
<1>5. CASE PartialBoundary(p)
  <2>1. GoodRow([row EXCEPT !.ckpt = drv[p].view, !.partial = TRUE])
    BY SaveGood
  <2> QED BY <1>5, <2>1, IdleGood, StepKeeps DEF PartialBoundary
<1>6. CASE ModelFails(p)
  <2>1. \A b \in BOOLEAN : GoodRow(RecordedModelFailure(b))
    BY TransitionGood, StateFacts DEF RecordedModelFailure, Interrupted
  <2>2. \A b \in BOOLEAN : GoodRow(FailedRow(RecordedModelFailure(b), drv[p].submitted))
    BY <2>1, FailedRowGood
  <2>3. PICK b \in BOOLEAN :
          \/ Step(p, RecordedModelFailure(b), IdleDriver)
          \/ Step(p, FailedRow(RecordedModelFailure(b), drv[p].submitted), IdleDriver)
    BY <1>6 DEF ModelFails
  <2> QED BY <2>1, <2>2, <2>3, IdleGood, StepKeeps
<1>7. CASE ToolBudgetExceeded(p)
  BY <1>7, RaiseKeeps DEF ToolBudgetExceeded
<1> QED BY <1>1, <1>2, <1>3, <1>4, <1>5, <1>6, <1>7

LEMMA BatchKeeps ==
  ASSUME Inv, NEW p \in Procs,
         BeginCall(p) \/ GuardCall(p) \/ StopBatch(p) \/ RecordResult(p)
  PROVE  Inv'
<1> USE InvFacts, PcFacts
<1>1. CASE BeginCall(p)
  <2>1. PICK c \in Calls :
          Step(p, [row EXCEPT !.ckpt = drv[p].view, !.partial = FALSE],
               [drv[p] EXCEPT !.pc = "invoke", !.call = c])
    BY <1>1 DEF BeginCall
  <2>2. GoodRow([row EXCEPT !.ckpt = drv[p].view, !.partial = FALSE])
    BY SaveGood
  <2>3. GoodDriver([drv[p] EXCEPT !.pc = "invoke", !.call = c])
    BY MoveGood
  <2> QED BY <2>1, <2>2, <2>3, StepKeeps
<1>2. CASE GuardCall(p)
  <2>1. PICK v \in View : Step(p, [row EXCEPT !.ckpt = v], Continue(drv[p], v))
    <3>1. PICK c \in Calls :
            LET v == Mark(drv[p].view, {c}, "declined") IN
            Step(p, [row EXCEPT !.ckpt = v], Continue(drv[p], v))
      BY <1>2 DEF GuardCall
    <3>2. Mark(drv[p].view, {c}, "declined") \in View
      BY MarkType DEF CallView
    <3> QED BY <3>1, <3>2
  <2> QED BY <2>1, SaveGood, ContinueGood, StepKeeps
<1>3. CASE StopBatch(p)
  <2> DEFINE v == Mark(drv[p].view, Pending(drv[p].view), "declined")
  <2>1. v \in View
    BY MarkType DEF CallView
  <2>2. Step(p, [row EXCEPT !.ckpt = v], Continue(drv[p], v))
    BY <1>3 DEF StopBatch
  <2> QED BY <2>1, <2>2, SaveGood, ContinueGood, StepKeeps
<1>4. CASE RecordResult(p)
  <2> DEFINE v == Mark(drv[p].view, {drv[p].call}, "answered")
  <2>1. v \in View
    BY MarkType DEF CallView
  <2>2. GoodRow(IF drv[p].approval THEN row ELSE [row EXCEPT !.ckpt = v])
    BY <2>1, SaveGood
  <2>3. Step(p, IF drv[p].approval THEN row ELSE [row EXCEPT !.ckpt = v],
             Continue(drv[p], v))
    BY <1>4 DEF RecordResult
  <2> QED BY <2>1, <2>2, <2>3, ContinueGood, StepKeeps
<1> QED BY <1>1, <1>2, <1>3, <1>4

\* A commit that starts a provider also counts it.
LEMMA StartKeeps ==
  ASSUME Inv, NEW p \in Procs, NEW c, NEW pc \in {"running", "rerunning"},
         StartProvider(p, c, pc)
  PROVE  Inv'
<1>1. GoodRow(Executed(row, c, "RUNNING")) /\ row' = Executed(row, c, "RUNNING")
  BY InvFacts, ExecutedGood DEF StartProvider, ExecState
<1>2. GoodDriver(At(p, pc)) /\ drv' = [drv EXCEPT ![p] = At(p, pc)]
  BY AtGood, PcFacts DEF StartProvider
<1>3. runs' \in [Calls -> 0 .. 2]
  <2> DEFINE n == IF runs[c] < RunCap(c) THEN runs[c] + 1 ELSE runs[c]
  <2>1. runs \in [Calls -> 0 .. 2] /\ runs' = [runs EXCEPT ![c] = n]
    BY DEF StartProvider, Inv, TypeOK
  <2>2. c \in Calls => n \in 0 .. 2
    BY <2>1 DEF RunCap
  <2> HIDE DEF n
  <2> QED BY <2>1, <2>2
<1>4. drv' \in [Procs -> Driver] /\ \A q \in Procs : GoodDriver(drv'[q])
  BY <1>2 DEF Inv, TypeOK, GoodDriver
<1>5. TypeOK'
  BY <1>1, <1>3, <1>4 DEF StartProvider, Inv, TypeOK, GoodRow
<1>6. Present(row)' /\ \A q \in Procs : GoodDriver(drv[q])'
  BY <1>1, <1>4 DEF GoodRow, Present, GoodDriver
<1> QED BY <1>5, <1>6 DEF Inv

\* The two steps that leave a Task waiting write the request it waits for.
LEMMA AskApprovalKeeps ==
  ASSUME Inv, NEW p \in Procs, AskApproval(p)
  PROVE  Inv'
<1> DEFINE c == drv[p].call
           q == [call |-> c, view |-> drv[p].view]
           t == Transition(row, "AWAITING_APPROVAL")
           r == [t EXCEPT !.appr = q]
<1>1. c \in Calls /\ q \in Request
  BY InvFacts, CallAssumption DEF AskApproval, Request
<1>2. t \in Row /\ t.state = "AWAITING_APPROVAL"
  BY InvFacts, TransitionType, StateFacts
<1>3. row' = r /\ drv' = [drv EXCEPT ![p] = IdleDriver]
      /\ UNCHANGED <<phase, cancel, used, runs, stopping>>
      /\ consent' = [consent EXCEPT ![c] = "asked"]
  BY DEF AskApproval
<1> HIDE DEF c, q, t
<1>4. r.state = "AWAITING_APPROVAL" /\ r.appr = q
  BY <1>2 DEF Row
<1>5. r \in Row
  BY <1>1, <1>2 DEF Row
<1>6. Present(r)
  BY <1>1, <1>4, NoneAssumption, StateFacts DEF Present
<1>7. drv' \in [Procs -> Driver] /\ \A s \in Procs : GoodDriver(drv'[s])
  BY <1>3, IdleGood DEF Inv, TypeOK, GoodDriver
<1> HIDE DEF r
<1>8. TypeOK'
  BY <1>3, <1>5, <1>7 DEF Inv, TypeOK
<1>9. Present(row)' /\ \A s \in Procs : GoodDriver(drv[s])'
  BY <1>3, <1>6, <1>7 DEF Present, GoodDriver
<1> QED BY <1>8, <1>9 DEF Inv

LEMMA AskUserKeeps ==
  ASSUME Inv, NEW p \in Procs, AskUser(p)
  PROVE  Inv'
<1> DEFINE c == drv[p].call
           v == drv[p].view
           t == Transition(row, "AWAITING_USER")
           r == [t EXCEPT !.clar = c, !.ckpt = v]
<1>1. c \in Calls /\ c # None /\ v \in View
  BY InvFacts, CallAssumption, NoneAssumption DEF AskUser
<1>2. t \in Row /\ t.state = "AWAITING_USER"
  BY InvFacts, TransitionType, StateFacts
<1>3. Step(p, r, IdleDriver)
  BY DEF AskUser
<1> HIDE DEF c, v, t
<1>4. r.state = "AWAITING_USER" /\ r.clar = c
  BY <1>2 DEF Row
<1>5. r \in Row
  BY <1>1, <1>2 DEF Row
<1>6. GoodRow(r)
  BY <1>1, <1>4, <1>5, StateFacts DEF GoodRow, Present
<1> HIDE DEF r
<1> QED BY <1>3, <1>6, IdleGood, StepKeeps

LEMMA InvokingKeeps ==
  ASSUME Inv, NEW p \in Procs,
         \/ InvokeRefused(p) \/ ReuseResult(p) \/ RecoverUnknown(p) \/ RecoverRun(p)
         \/ PolicyDenies(p) \/ AskApproval(p) \/ AskUser(p) \/ Prepare(p)
         \/ PrepareApproved(p) \/ MarkRunning(p) \/ ProviderReturns(p)
         \/ VersionConflict(p)
  PROVE  Inv'
<1> USE InvFacts, PcFacts
<1> \A how \in ExecState : \A c : GoodRow(Executed(row, c, how))
  BY ExecutedGood
<1> {"PREPARED", "RUNNING", "UNKNOWN_OUTCOME"} \cup Reusable \subseteq ExecState
  BY DEF ExecState, Reusable, Settled
<1>1. CASE InvokeRefused(p)
  BY <1>1, RaiseKeeps DEF InvokeRefused
<1>2. CASE ReuseResult(p)
  BY <1>2, AtGood, StepKeeps DEF ReuseResult
<1>3. CASE RecoverUnknown(p)
  BY <1>3, AtGood, StepKeeps DEF RecoverUnknown
<1>4. CASE RecoverRun(p)
  BY <1>4, StartKeeps DEF RecoverRun
<1>5. CASE PolicyDenies(p)
  BY <1>5, AtGood, StepKeeps DEF PolicyDenies
<1>6. CASE AskApproval(p)
  BY <1>6, AskApprovalKeeps
<1>7. CASE AskUser(p)
  BY <1>7, AskUserKeeps
<1>8. CASE Prepare(p)
  BY <1>8, AtGood, StepKeeps DEF Prepare
<1>9. CASE PrepareApproved(p)
  <2>1. GoodRow(drv[p].snap)
    BY <1>9, StateFacts DEF PrepareApproved, DriverAt, GoodDriver, GoodRow, Present
  <2>2. GoodRow(Executed(drv[p].snap, drv[p].call, "PREPARED"))
    BY <2>1, ExecutedGood DEF ExecState
  <2>3. GoodDriver([drv[p] EXCEPT !.pc = "prepared", !.snap = None])
    BY DEF GoodDriver, Driver
  <2> QED BY <1>9, <2>2, <2>3, StepKeeps DEF PrepareApproved
<1>10. CASE MarkRunning(p)
  BY <1>10, StartKeeps DEF MarkRunning
<1>11. CASE ProviderReturns(p)
  <2>1. PICK how \in Reusable : Step(p, Executed(row, drv[p].call, how), At(p, "recorded"))
    BY <1>11 DEF ProviderReturns
  <2> QED BY <2>1, AtGood, StepKeeps
<1>12. CASE VersionConflict(p)
  BY <1>12, RaiseKeeps DEF VersionConflict
<1> QED BY <1>1, <1>2, <1>3, <1>4, <1>5, <1>6, <1>7, <1>8, <1>9, <1>10, <1>11, <1>12

LEMMA FinishingKeeps ==
  ASSUME Inv, NEW p \in Procs,
         \/ CompleteVerify(p) \/ CompleteFinalize(p) \/ CompleteSucceed(p)
         \/ ResumeOpen(p) \/ ResumeSave(p)
  PROVE  Inv'
<1> USE InvFacts, PcFacts
<1> \A t \in {"VERIFYING", "FINALIZING", "SUCCEEDED", "EXECUTING"} :
      GoodRow(Transition(row, t))
  BY TransitionGood, StateFacts
<1>1. CASE CompleteVerify(p)
  BY <1>1, AtGood, StepKeeps, RaiseKeeps DEF CompleteVerify, CompleteHop
<1>2. CASE CompleteFinalize(p)
  BY <1>2, AtGood, StepKeeps, RaiseKeeps DEF CompleteFinalize, CompleteHop
<1>3. CASE CompleteSucceed(p)
  BY <1>3, IdleGood, StepKeeps, RaiseKeeps DEF CompleteSucceed, CompleteHop
<1>4. CASE ResumeOpen(p)
  BY <1>4, AtGood, StepKeeps, RaiseKeeps DEF ResumeOpen
<1>5. CASE ResumeSave(p)
  <2>1. [drv[p] EXCEPT !.recover = TRUE] \in Driver
    BY DEF Driver
  <2>2. GoodDriver(Continue([drv[p] EXCEPT !.recover = TRUE], drv[p].view))
    BY <2>1, ContinueGood
  <2>3. GoodRow([row EXCEPT !.ckpt = drv[p].view, !.partial = FALSE])
    BY SaveGood
  <2> QED BY <1>5, <2>2, <2>3, StepKeeps DEF ResumeSave
<1> QED BY <1>1, <1>2, <1>3, <1>4, <1>5

-----------------------------------------------------------------------------
(* Every action of the user, a cancellation or a settlement keeps it.       *)

\* A request that is there is a request: its call and its checkpoint have
\* their types.  This is where the types need the presence of requests.
LEMMA RequestFacts ==
  ASSUME Inv, row.state = "AWAITING_APPROVAL"
  PROVE  row.appr.call \in Calls /\ row.appr.view \in View
BY DEF Inv, TypeOK, Present, Row, Request

LEMMA UserKeeps ==
  ASSUME Inv, NEW p \in Procs,
         \/ StartTurn(p) \/ FreshTurn(p) \/ SupersedeConversation(p)
         \/ ApprovalConflict(p) \/ ResolveApproval(p) \/ AnswerUser(p)
         \/ SupersedeApproval(p) \/ Interrupt(p)
  PROVE  Inv'
<1> USE InvFacts, PcFacts
<1> \A t \in {"SUCCEEDED", "EXECUTING", "INTERRUPTED"} :
      GoodRow(Transition(row, t)) /\ Transition(row, t) \in Row
      /\ Transition(row, t).state = t
  <2> TAKE t \in {"SUCCEEDED", "EXECUTING", "INTERRUPTED"}
  <2>1. t \in TaskState /\ t \in TaskState \ {"AWAITING_APPROVAL", "AWAITING_USER"}
    BY StateFacts
  <2> QED BY <2>1, TransitionGood, TransitionType
<1>0. \A v \in View, b \in BOOLEAN : Mark(v, {}, "declined") \in View
  BY MarkType DEF CallView
<1>1. CASE StartTurn(p)
  <2>1. GoodDriver(NewDriver("opened", Fresh, TRUE))
    BY NewDriverGood, FreshType
  <2>2. GoodRow(FailedRow(row, TRUE))
    BY FailedRowGood
  <2> QED BY <1>1, <2>1, <2>2, StepKeeps DEF StartTurn
<1>2. CASE FreshTurn(p)
  <2>1. GoodDriver(NewDriver("opened", Fresh, TRUE))
    BY NewDriverGood, FreshType
  <2> DEFINE r == [Transition(row, "EXECUTING")
                     EXCEPT !.appr = None, !.clar = None, !.ckpt = None]
  <2>2. r \in Row /\ r.state = "EXECUTING"
    <3> DEFINE t == Transition(row, "EXECUTING")
    <3>1. t \in Row /\ t.state = "EXECUTING"
      OBVIOUS
    <3> HIDE DEF t
    <3> QED BY <3>1 DEF Row
  <2>3. GoodRow(r)
    BY <2>2, StateFacts DEF GoodRow, Present
  <2> QED BY <1>2, <2>1, <2>3, StepKeeps DEF FreshTurn
<1>3. CASE SupersedeConversation(p)
  BY <1>3, StepKeeps DEF SupersedeConversation
<1>4. CASE ApprovalConflict(p)
  <2>1. GoodRow(Conflicted(row))
    BY ConflictedGood
  <2> QED BY <1>4, <2>1, RowKeeps DEF ApprovalConflict, Inv, TypeOK
<1>5. CASE ResolveApproval(p)
  <2> DEFINE c == row.appr.call
             v == row.appr.view
             r == [Transition(row, "EXECUTING") EXCEPT !.appr = None, !.ckpt = v]
             d(decision) == Decided(NewDriver("approved", v, FALSE), r, c, decision)
  <2>1. c \in Calls /\ v \in View
    BY <1>5, RequestFacts DEF ResolveApproval
  <2>2. r \in Row /\ r.state = "EXECUTING"
    <3> DEFINE t == Transition(row, "EXECUTING")
    <3>1. t \in Row /\ t.state = "EXECUTING"
      OBVIOUS
    <3> HIDE DEF t, v
    <3> QED BY <2>1, <3>1 DEF Row
  <2>3. GoodRow(r)
    BY <2>2, StateFacts DEF GoodRow, Present
  <2>4. PICK decision \in {"approved", "denied"} :
          /\ row' = r
          /\ drv' = [drv EXCEPT ![p] = d(decision)]
          /\ consent' = [consent EXCEPT ![c] = decision]
          /\ UNCHANGED <<phase, cancel, used, runs, stopping>>
    BY <1>5 DEF ResolveApproval
  <2>5. GoodDriver(d(decision))
    <3>1. NewDriver("approved", v, FALSE) \in Driver
          /\ NewDriver("approved", v, FALSE).view = v
          /\ NewDriver("approved", v, FALSE).pc = "approved"
      BY <2>1 DEF NewDriver, IdleDriver, Driver, Pc
    <3>2. GoodDriver([NewDriver("approved", v, FALSE)
                        EXCEPT !.call = c, !.approval = TRUE, !.snap = r])
      BY <2>1, <2>2, <3>1 DEF GoodDriver, Driver
    <3>3. Mark(v, {c}, "declined") \in View
      BY <2>1, MarkType DEF CallView
    <3>4. GoodDriver(Continue(NewDriver("approved", v, FALSE), Mark(v, {c}, "declined")))
      BY <3>1, <3>3, ContinueGood
    <3> QED BY <3>1, <3>2, <3>4 DEF Decided
  <2> HIDE DEF r, d, c, v
  <2>6. drv' \in [Procs -> Driver] /\ \A s \in Procs : GoodDriver(drv'[s])
    BY <2>4, <2>5 DEF Inv, TypeOK, GoodDriver
  <2>7. TypeOK'
    BY <2>2, <2>4, <2>6 DEF Inv, TypeOK
  <2>8. Present(row)' /\ \A s \in Procs : GoodDriver(drv[s])'
    BY <2>3, <2>4, <2>6 DEF GoodRow, Present, GoodDriver
  <2> QED BY <2>7, <2>8 DEF Inv
<1>6. CASE AnswerUser(p)
  <2> DEFINE v == Mark(row.ckpt, {row.clar}, "answered")
             r == [Transition(row, "EXECUTING") EXCEPT !.clar = None, !.ckpt = v]
  <2>1. row.ckpt \in View
    BY <1>6 DEF AnswerUser, Row
  <2>2. v \in View
    BY <2>1, MarkType DEF CallView
  <2>3. r \in Row /\ r.state = "EXECUTING"
    <3> DEFINE t == Transition(row, "EXECUTING")
    <3>1. t \in Row /\ t.state = "EXECUTING"
      OBVIOUS
    <3> HIDE DEF t, v
    <3> QED BY <2>2, <3>1 DEF Row
  <2>4. GoodRow(r)
    BY <2>3, StateFacts DEF GoodRow, Present
  <2>5. NewDriver("batch", v, FALSE) \in Driver
    BY <2>2, NewDriverGood DEF GoodDriver
  <2>6. GoodDriver(Continue(NewDriver("batch", v, FALSE), v))
    BY <2>2, <2>5, ContinueGood
  <2> QED BY <1>6, <2>4, <2>6, StepKeeps DEF AnswerUser
<1>7. CASE SupersedeApproval(p)
  <2> DEFINE v == Mark(row.ckpt, Pending(row.ckpt), "declined")
             r == [Transition(row, "EXECUTING") EXCEPT !.appr = None, !.ckpt = v]
  <2>1. row.ckpt \in View
    BY <1>7 DEF SupersedeApproval, Row
  <2>2. v \in View
    BY <2>1, MarkType DEF CallView
  <2>3. r \in Row /\ r.state = "EXECUTING"
    <3> DEFINE t == Transition(row, "EXECUTING")
    <3>1. t \in Row /\ t.state = "EXECUTING"
      OBVIOUS
    <3> HIDE DEF t, v
    <3> QED BY <2>2, <3>1 DEF Row
  <2>4. GoodRow(r)
    BY <2>3, StateFacts DEF GoodRow, Present
  <2>5. row' = r /\ UNCHANGED <<drv, phase, cancel, used, runs, stopping>>
        /\ consent' = [consent EXCEPT ![row.appr.call] = "superseded"]
    BY <1>7 DEF SupersedeApproval
  <2>6. consent' \in [Calls -> {"none", "asked", "approved", "denied", "superseded"}]
    BY <2>5 DEF Inv, TypeOK
  <2> QED BY <2>4, <2>5, <2>6, RowKeeps
<1>8. CASE Interrupt(p)
  BY <1>8, IdleGood, StepKeeps DEF Interrupt, Interrupted
<1> QED BY <1>1, <1>2, <1>3, <1>4, <1>5, <1>6, <1>7, <1>8

LEMMA CancelKeeps ==
  ASSUME Inv, NEW p \in Procs, CancelBegin(p) \/ CancelCommit(p) \/ CancelDone(p)
  PROVE  Inv'
<1> USE InvFacts
<1>1. CASE CancelBegin(p)
  <2>1. GoodRow(SettledForCancel(row))
    <3>1. CASE SettledForCancel(row) = row
      BY <3>1
    <3>2. CASE SettledForCancel(row) # row
      <4> DEFINE v == Mark(row.ckpt, Pending(row.ckpt), "cancelled")
      <4>1. row.ckpt \in View /\ SettledForCancel(row) = [row EXCEPT !.ckpt = v]
        BY <3>2 DEF SettledForCancel, Row
      <4>2. v \in View
        BY <4>1, MarkType DEF CallView
      <4>3. GoodRow([row EXCEPT !.ckpt = v])
        BY <4>2, SaveGood
      <4> QED BY <4>1, <4>3
    <3> QED BY <3>1, <3>2
  <2>2. row' = SettledForCancel(row) /\ UNCHANGED <<drv, phase, used, runs, consent>>
        /\ stopping' = TRUE /\ cancel' = [cancel EXCEPT ![p] = "cleanup"]
    BY <1>1 DEF CancelBegin
  <2> QED BY <2>1, <2>2 DEF Inv, TypeOK, GoodRow, GoodDriver, Present
<1>2. CASE CancelCommit(p)
  <2>1. GoodRow(Transition(row, "CANCELLED"))
    BY TransitionGood, StateFacts
  <2>2. GoodRow(row') /\ UNCHANGED <<drv, phase, used, runs, consent, stopping>>
    BY <1>2, <2>1 DEF CancelCommit
  <2>3. cancel' \in [Procs -> {"no", "cleanup", "closing"}]
    BY <1>2 DEF CancelCommit, Inv, TypeOK
  <2> QED BY <2>2, <2>3 DEF Inv, TypeOK, GoodRow, GoodDriver, Present
<1>3. CASE CancelDone(p)
  <2>1. UNCHANGED <<row, phase, used, runs, consent, stopping>>
        /\ cancel' = [cancel EXCEPT ![p] = "no"]
        /\ drv' = [drv EXCEPT ![p] = IdleDriver]
    BY <1>3 DEF CancelDone
  <2>2. drv' \in [Procs -> Driver] /\ \A s \in Procs : GoodDriver(drv'[s])
    BY <2>1, IdleGood DEF Inv, TypeOK, GoodDriver
  <2> QED BY <2>1, <2>2 DEF Inv, TypeOK, GoodDriver, Present
<1> QED BY <1>1, <1>2, <1>3

LEMMA ResumeKeeps ==
  ASSUME Inv, NEW p \in Procs,
         \/ ResumeReconciled(p) \/ ResumeUnchanged(p)
         \/ ResumeConflict(p) \/ ResumeRefused(p)
  PROVE  Inv'
<1> USE InvFacts, PcFacts
<1>1. \A v \in View, b \in BOOLEAN : GoodDriver(Reconciled(v, b))
  BY NewDriverGood DEF Reconciled
<1>2. CASE ResumeReconciled(p)
  <2> DEFINE v == Mark(row.ckpt, Pending(row.ckpt), "answered")
  <2>1. PICK b \in BOOLEAN : Step(p, [row EXCEPT !.ckpt = v], Reconciled(v, b))
    BY <1>2 DEF ResumeReconciled
  <2>2. row.ckpt \in View
    BY <1>2 DEF ResumeReconciled, Row
  <2>3. v \in View
    BY <2>2, MarkType DEF CallView
  <2> QED BY <1>1, <2>1, <2>3, SaveGood, StepKeeps
<1>3. CASE ResumeUnchanged(p)
  <2>1. PICK b \in BOOLEAN : Step(p, row, Reconciled(row.ckpt, b))
    BY <1>3 DEF ResumeUnchanged
  <2>2. row.ckpt \in View
    BY <1>3 DEF ResumeUnchanged, Row
  <2> QED BY <1>1, <2>1, <2>2, StepKeeps
<1>4. CASE ResumeConflict(p)
  <2>1. PICK b \in BOOLEAN : row' = FailedRow(Conflicted(row), b)
    BY <1>4 DEF ResumeConflict
  <2>2. GoodRow(row')
    BY <2>1, ConflictedGood, FailedRowGood
  <2> QED BY <1>4, <2>2, RowKeeps DEF ResumeConflict, Inv, TypeOK
<1>5. CASE ResumeRefused(p)
  <2>1. GoodRow(FailedRow(row, TRUE))
    BY FailedRowGood
  <2> QED BY <1>5, <2>1, RowKeeps DEF ResumeRefused, Inv, TypeOK
<1> QED BY <1>2, <1>3, <1>4, <1>5

LEMMA SettleKeeps ==
  ASSUME Inv, NEW p \in Procs,
         SettleStep(p) \/ EndSettling(p) \/ BeginSettling(p) \/ Crash(p)
  PROVE  Inv'
<1> USE InvFacts
<1>1. CASE SettleStep(p)
  <2>1. \A t \in {"INTERRUPTED", "EXECUTING", "SUCCEEDED", "CANCELLED"} :
          GoodRow(Transition(row, t))
    BY TransitionGood, StateFacts
  <2>2. \E t \in {"INTERRUPTED", "EXECUTING", "SUCCEEDED", "CANCELLED"} :
          row' = Transition(row, t)
    <3>1. CASE row.state = "EXECUTING"
      BY <1>1, <3>1 DEF SettleStep, Interrupted
    <3>2. CASE row.state \in {"ROUTING", "VERIFYING"}
      BY <1>1, <3>2 DEF SettleStep
    <3>3. CASE row.state = "FINALIZING"
      BY <1>1, <3>3 DEF SettleStep
    <3>4. CASE row.state \notin {"EXECUTING", "ROUTING", "VERIFYING", "FINALIZING"}
      BY <1>1, <3>4 DEF SettleStep
    <3> QED BY <3>1, <3>2, <3>3, <3>4
  <2>3. GoodRow(row')
    BY <2>1, <2>2
  <2> QED BY <1>1, <2>3, RowKeeps DEF SettleStep, Inv, TypeOK
<1>2. CASE EndSettling(p) \/ BeginSettling(p)
  BY <1>2 DEF EndSettling, BeginSettling, Inv, TypeOK, GoodDriver, Present
<1>3. CASE Crash(p)
  <2>1. drv' \in [Procs -> Driver] /\ \A s \in Procs : GoodDriver(drv'[s])
    BY <1>3, IdleGood DEF Crash, Inv, TypeOK, GoodDriver
  <2> QED BY <1>3, <2>1 DEF Crash, Inv, TypeOK, GoodDriver, Present
<1> QED BY <1>1, <1>2, <1>3

-----------------------------------------------------------------------------
LEMMA InitInv == Init => Inv
<1> SUFFICES ASSUME Init PROVE Inv
  OBVIOUS
<1>1. PICK k \in Kinds : row = NewRow(k)
  BY DEF Init
<1>2. row \in Row /\ row.state = "CREATED"
  BY <1>1, StateFacts DEF NewRow, Row, ExecState
<1>3. Present(row)
  <2>1. ~DropsPending("CREATED")
    BY DEF DropsPending, TerminalStates
  <2> QED BY <1>2, <2>1 DEF Present
<1>4. drv \in [Procs -> Driver] /\ \A p \in Procs : GoodDriver(drv[p])
  <2> DEFINE d == NewDriver("setup", Fresh, TRUE)
  <2>1. d \in Driver /\ GoodDriver(d)
    BY NewDriverGood, FreshType, PcFacts DEF GoodDriver
  <2>2. IdleDriver \in Driver /\ GoodDriver(IdleDriver)
    BY IdleGood DEF GoodDriver
  <2>3. PICK p \in Procs : drv = [q \in Procs |-> IF q = p THEN d ELSE IdleDriver]
    BY DEF Init
  <2> HIDE DEF d
  <2> QED BY <2>1, <2>2, <2>3
<1>5. TypeOK
  <2>1. /\ phase \in [Procs -> {"up", "down", "settling"}]
        /\ cancel \in [Procs -> {"no", "cleanup", "closing"}]
    BY DEF Init
  <2>2. used \subseteq Calls /\ stopping \in BOOLEAN
    BY DEF Init
  <2>3. runs \in [Calls -> 0 .. 2]
    BY DEF Init
  <2>4. consent \in [Calls -> {"none", "asked", "approved", "denied", "superseded"}]
    BY DEF Init
  <2> QED BY <1>2, <1>4, <2>1, <2>2, <2>3, <2>4 DEF TypeOK
<1> QED BY <1>3, <1>4, <1>5 DEF Inv

LEMMA NextInv == Inv /\ [Next]_vars => Inv'
<1> SUFFICES ASSUME Inv, [Next]_vars PROVE Inv'
  OBVIOUS
<1>1. CASE UNCHANGED vars
  BY <1>1 DEF vars, Inv, TypeOK, GoodDriver, Present
<1>2. ASSUME NEW p \in Procs, DriverStep(p) PROVE Inv'
  BY <1>2, SamplingKeeps, BatchKeeps, InvokingKeeps, FinishingKeeps DEF DriverStep
<1>3. ASSUME NEW p \in Procs, UserStep(p) PROVE Inv'
  BY <1>3, UserKeeps, CancelKeeps, ResumeKeeps DEF UserStep
<1>4. ASSUME NEW p \in Procs,
             CancelStep(p) \/ SettlingStep(p) \/ BeginSettling(p) \/ Crash(p)
      PROVE  Inv'
  BY <1>4, CancelKeeps, SettleKeeps DEF CancelStep, SettlingStep
<1> QED BY <1>1, <1>2, <1>3, <1>4 DEF Next

THEOREM Invariance == Spec => []Inv
BY InitInv, NextInv, PTL DEF Spec

\* Type correctness for any number of processes, calls and kinds: the Task row
\* and the drivers only take values the code's own types allow.
THEOREM TypeCorrect == Spec => []TypeOK
BY Invariance, PTL DEF Inv

\* For any number of processes, with stale writes and version conflicts: a Task
\* in AWAITING_APPROVAL or AWAITING_USER has the request it waits for, and a
\* conflicted or ended Task offers none (TaskSnapshot.transition).
THEOREM RequestsPresent == Spec => []RequestPresence
<1>1. Inv => RequestPresence
  BY DEF Inv, Present, RequestPresence
<1> QED BY <1>1, Invariance, PTL

-----------------------------------------------------------------------------
(***************************************************************************)
(* What holds while one process has the database open: what the user       *)
(* refused never runs, a call that is not idempotent starts at most once,  *)
(* nothing starts for a Task that was stopped, and an ended Task stays as  *)
(* it ended.  With a second process the last one is false: a remembered    *)
(* row overwrites a cancellation (README, section 5).                      *)
(***************************************************************************)
OneProcessOnly == \A p, q \in Procs : p = q

-----------------------------------------------------------------------------
(* The inductive invariant.                                                 *)

\* What the driver holds agrees with the row: a row carried past an approval is
\* still the row, and the record of the call in hand is where the driver left it.
DriverAgrees(p) ==
  LET d == drv[p] IN
  /\ phase[p] # "up" => Idle(p)
  /\ d.pc \in {"invoke", "approved", "prepared", "running", "rerunning"} =>
       d.call \in Calls
  /\ d.pc = "approved" => /\ d.snap = row
                          /\ row.ledger[d.call] = "NEW"
                          /\ consent[d.call] = "approved"
  /\ d.pc = "prepared" => /\ row.state = "EXECUTING"
                          /\ row.ledger[d.call] = "PREPARED"
  /\ d.pc \in {"running", "rerunning"} => row.ledger[d.call] = "RUNNING"

\* What the ledger says of a call agrees with its starts and its consent.
LedgerAgrees(c) ==
  /\ row.ledger[c] = "NEW" => runs[c] = 0
  /\ c \in NonIdempotent => /\ row.ledger[c] = "PREPARED" => runs[c] = 0
                            /\ runs[c] <= 1
  /\ c \in Gated /\ row.ledger[c] # "NEW" => consent[c] = "approved"

Agrees == /\ Inv
          /\ \A p \in Procs : DriverAgrees(p)
          /\ \A c \in Calls : LedgerAgrees(c)
          /\ row.state = "AWAITING_APPROVAL" => row.ledger[row.appr.call] = "NEW"
          /\ row.state # "NEEDS_REVIEW"

-----------------------------------------------------------------------------
(* What one step must do.                                                   *)

\* A provider starts only for a running Task and with the user's consent.
StartsAllowed ==
  \A c \in Calls : runs'[c] # runs[c] =>
    row.state = "EXECUTING" /\ (c \in Gated => consent[c] = "approved")

StaysEnded == row.state \in TerminalStates => row'.state = row.state

GoodStep == Agrees' /\ StartsAllowed /\ StaysEnded

\* A row a step may write without touching executions: it neither asks for an
\* approval of its own nor moves a Task that has ended.
Calm(r) ==
  /\ r.ledger = row.ledger
  /\ r.state # "NEEDS_REVIEW"
  /\ r.state = "AWAITING_APPROVAL" => row.state = "AWAITING_APPROVAL" /\ r.appr = row.appr
  /\ row.state \in TerminalStates => r.state = row.state

Busy == {"approved", "prepared", "running", "rerunning"}

LEMMA CalmRow == Agrees => Calm(row)
BY DEF Agrees, Calm

LEMMA CalmSave ==
  ASSUME NEW r, r \in Row, Calm(r), NEW v, NEW b, NEW x, NEW y
  PROVE  /\ Calm([r EXCEPT !.ckpt = v])
         /\ Calm([r EXCEPT !.ckpt = v, !.partial = b])
         /\ r.state # "AWAITING_APPROVAL" =>
              /\ Calm([r EXCEPT !.appr = x, !.ckpt = v])
              /\ Calm([r EXCEPT !.clar = y, !.ckpt = v])
              /\ Calm([r EXCEPT !.appr = x, !.clar = y, !.ckpt = v])
BY DEF Calm, Row

LEMMA CalmMove ==
  ASSUME Agrees, NEW r \in Row, Calm(r), r.state \notin TerminalStates,
         NEW t, t \notin {"AWAITING_APPROVAL", "NEEDS_REVIEW"}
  PROVE  Calm(Transition(r, t))
BY DEF Calm, Transition, Row

LEMMA TerminalFacts ==
  ASSUME NEW s \in TerminalStates \ {"NEEDS_REVIEW"}, NEW t
  PROVE  ~CanMove(s, t)
<1>1. s \in TaskState /\ LegalTransitions[s] = {}
  BY DEF TerminalStates, TaskState, LegalTransitions
<1> QED BY <1>1 DEF CanMove

LEMMA CalmFailed ==
  ASSUME Agrees, NEW r \in Row, Calm(r), NEW b \in BOOLEAN
  PROVE  Calm(FailedRow(r, b))
BY CalmMove DEF FailedRow

LEMMA CalmConflicted ==
  ASSUME Agrees
  PROVE  Calm(Conflicted(row))
<1>1. row \in Row /\ Calm(row) /\ row.state # "NEEDS_REVIEW"
  BY CalmRow DEF Agrees, Inv, TypeOK
<1>2. CASE CanMove(row.state, "CONFLICT")
  BY <1>1, <1>2, TerminalFacts, CalmMove DEF Conflicted
<1>3. CASE ~CanMove(row.state, "CONFLICT")
  BY <1>1, <1>3 DEF Conflicted
<1> QED BY <1>2, <1>3

-----------------------------------------------------------------------------
(* Steps that leave the executions alone.                                   *)

\* A driver that is up moves on with a calm row and no execution in hand.
LEMMA CalmStep ==
  ASSUME OneProcessOnly, Agrees, Inv', NEW p \in Procs,
         NEW r, Calm(r), NEW d, d.pc \notin Busy, Step(p, r, d),
         d.pc = "invoke" => d.call \in Calls,
         phase[p] = "up" \/ d.pc \in {"off", "raised"}
  PROVE  GoodStep
<1>1. row' = r /\ drv'[p] = d /\ UNCHANGED <<phase, runs, consent>>
  BY DEF Step, Agrees, Inv, TypeOK
<1>2. \A q \in Procs : DriverAgrees(q)'
  <2>1. TAKE q \in Procs
  <2>2. q = p
    BY DEF OneProcessOnly
  <2> QED BY <1>1, <2>2 DEF DriverAgrees, Busy, Idle
<1>3. \A c \in Calls : LedgerAgrees(c)'
  BY <1>1 DEF Agrees, Calm, LedgerAgrees
<1>4. row'.state = "AWAITING_APPROVAL" => row'.ledger[row'.appr.call] = "NEW"
  BY <1>1 DEF Agrees, Calm
<1>5. row'.state # "NEEDS_REVIEW" /\ StaysEnded
  BY <1>1 DEF Calm, StaysEnded
<1>6. StartsAllowed
  BY <1>1 DEF StartsAllowed
<1> QED BY <1>2, <1>3, <1>4, <1>5, <1>6 DEF GoodStep, Agrees

\* A handler or a settlement writes a calm row while every driver is idle, or
\* one that moves no execution while a provider or a model runs.
LEMMA CalmHandler ==
  ASSUME OneProcessOnly, Agrees, Inv', NEW p \in Procs, Calm(row'),
         UNCHANGED <<drv, runs, consent>>,
         drv[p].pc \notin {"approved", "prepared"},
         Idle(p) \/ phase'[p] = "up"
  PROVE  GoodStep
<1>1. \A q \in Procs : DriverAgrees(q)'
  <2>1. TAKE q \in Procs
  <2>2. q = p
    BY DEF OneProcessOnly
  <2> QED BY <2>2 DEF DriverAgrees, Agrees, Calm, Idle
<1>2. \A c \in Calls : LedgerAgrees(c)'
  BY DEF Agrees, Calm, LedgerAgrees
<1>3. row'.state = "AWAITING_APPROVAL" => row'.ledger[row'.appr.call] = "NEW"
  BY DEF Agrees, Calm
<1>4. row'.state # "NEEDS_REVIEW" /\ StaysEnded /\ StartsAllowed
  BY DEF Calm, StaysEnded, StartsAllowed
<1> QED BY <1>1, <1>2, <1>3, <1>4 DEF GoodStep, Agrees

LEMMA CalmRaise ==
  ASSUME OneProcessOnly, Agrees, Inv', NEW p \in Procs, Raise(p, row)
  PROVE  GoodStep
<1> DEFINE d == [IdleDriver EXCEPT !.pc = "raised"]
<1>1. Calm(FailedRow(row, drv[p].submitted))
  BY CalmRow, CalmFailed, InvFacts DEF Agrees
<1>2. Step(p, FailedRow(row, drv[p].submitted), d)
  BY DEF Raise, Step
<1>3. d.pc = "raised"
  BY DEF IdleDriver
<1> HIDE DEF d
<1> QED BY <1>1, <1>2, <1>3, CalmStep DEF Busy

LEMMA PcOf ==
  /\ IdleDriver.pc = "off"
  /\ \A pc, v, b : NewDriver(pc, v, b).pc = pc
  /\ \A p \in Procs : \A pc : Agrees => At(p, pc).pc = pc
  /\ \A d \in Driver : \A v : Continue(d, v).pc \in {"model", "batch"}
<1>1. IdleDriver.pc = "off" /\ \A pc, v, b : NewDriver(pc, v, b).pc = pc
  BY DEF IdleDriver, NewDriver
<1>2. ASSUME Agrees, NEW p \in Procs, NEW pc PROVE At(p, pc).pc = pc
  <2>1. drv[p] \in Driver
    BY <1>2, InvFacts DEF Agrees
  <2> QED BY <2>1 DEF At, Driver
<1>3. ASSUME NEW d \in Driver, NEW v PROVE Continue(d, v).pc \in {"model", "batch"}
  BY DEF Continue, Driver
<1> QED BY <1>1, <1>2, <1>3

-----------------------------------------------------------------------------
(* Driver steps that start and record nothing.                              *)

LEMMA CalmFacts ==
  ASSUME Agrees, NEW p \in Procs
  PROVE  /\ Inv /\ Calm(row) /\ row \in Row
         /\ drv[p] \in Driver /\ drv[p].submitted \in BOOLEAN
         /\ row.state # "NEEDS_REVIEW"
         /\ {"EXECUTING", "AWAITING_INPUT", "AWAITING_APPROVAL", "AWAITING_USER",
             "INTERRUPTED", "CONFLICT"} \cap TerminalStates = {}
BY CalmRow, InvFacts DEF Agrees, TerminalStates

LEMMA SamplingSafe ==
  ASSUME OneProcessOnly, Agrees, Inv', NEW p \in Procs,
         \/ AdvanceSetup(p) \/ SaveFirstCheckpoint(p)
         \/ ModelFinishes(p) \/ PartialBoundary(p) \/ ModelFails(p)
         \/ ToolBudgetExceeded(p)
  PROVE  GoodStep
<1> USE CalmFacts, PcOf DEF Busy
<1>1. CASE AdvanceSetup(p)
  <2>1. CASE row.state \in DOMAIN SetupNext
    <3> DEFINE t == SetupNext[row.state]
               d == [drv[p] EXCEPT !.pc = IF t = "EXECUTING" THEN "opened" ELSE @]
    <3>1. t \notin {"AWAITING_APPROVAL", "NEEDS_REVIEW"} /\ row.state \notin TerminalStates
      BY <2>1 DEF SetupNext, SetupStates, TerminalStates
    <3>2. Calm(Transition(row, t))
      BY <3>1, CalmMove
    <3>3. phase[p] = "up" /\ drv[p].pc = "setup" /\ Step(p, Transition(row, t), d)
      BY <1>1, <2>1 DEF AdvanceSetup, DriverAt
    <3>4. d.pc \in {"opened", "setup"}
      BY <3>3 DEF Driver
    <3> HIDE DEF d, t
    <3> QED BY <3>2, <3>3, <3>4, CalmStep
  <2>2. CASE row.state \notin DOMAIN SetupNext
    BY <1>1, <2>2, CalmRaise DEF AdvanceSetup
  <2> QED BY <2>1, <2>2
<1>2. CASE SaveFirstCheckpoint(p)
  <2>1. CASE row.state = "EXECUTING" /\ row.appr = None
    <3>1. Step(p, [row EXCEPT !.ckpt = Fresh, !.partial = FALSE], At(p, "model"))
          /\ phase[p] = "up"
      BY <1>2, <2>1 DEF SaveFirstCheckpoint, DriverAt, At
    <3>2. Calm([row EXCEPT !.ckpt = Fresh, !.partial = FALSE])
      BY CalmSave
    <3> QED BY <3>1, <3>2, CalmStep
  <2>2. CASE ~(row.state = "EXECUTING" /\ row.appr = None)
    BY <1>2, <2>2, CalmRaise DEF SaveFirstCheckpoint
  <2> QED BY <2>1, <2>2
<1>3. CASE ModelFinishes(p)
  <2> DEFINE cleared == [row EXCEPT !.ckpt = None]
             talk == row.kind = "CONVERSATION"
             r == IF talk /\ row.state = "EXECUTING"
                  THEN Transition(cleared, "AWAITING_INPUT") ELSE cleared
             d == IF talk THEN IdleDriver ELSE At(p, "verify")
  <2>1. Calm(cleared) /\ cleared \in Row /\ cleared.state = row.state
    BY CalmSave DEF Row
  <2>2. Calm(r)
    BY <2>1, CalmMove
  <2>3. Step(p, r, d) /\ phase[p] = "up"
    BY <1>3 DEF ModelFinishes, DriverAt, At
  <2>4. d.pc \notin Busy
    OBVIOUS
  <2> QED BY <2>2, <2>3, <2>4, CalmStep
<1>4. CASE PartialBoundary(p)
  <2>1. Calm([row EXCEPT !.ckpt = drv[p].view, !.partial = TRUE])
    BY CalmSave
  <2> QED BY <1>4, <2>1, CalmStep DEF PartialBoundary
<1>5. CASE ModelFails(p)
  <2>1. \A b \in BOOLEAN : Calm(RecordedModelFailure(b)) /\ RecordedModelFailure(b) \in Row
    <3>1. Calm(Interrupted(row)) \/ row.state # "EXECUTING"
      BY CalmMove DEF Interrupted
    <3>2. Calm(Transition(row, "FAILED")) \/ ~CanMove(row.state, "FAILED")
      BY CalmMove, TerminalFacts
    <3>3. Interrupted(row) \in Row /\ Transition(row, "FAILED") \in Row
      BY TransitionType, StateFacts DEF Interrupted
    <3> QED BY <3>1, <3>2, <3>3 DEF RecordedModelFailure
  <2>2. \A b \in BOOLEAN : Calm(FailedRow(RecordedModelFailure(b), drv[p].submitted))
    BY <2>1, CalmFailed
  <2>3. PICK b \in BOOLEAN :
          \/ Step(p, RecordedModelFailure(b), IdleDriver)
          \/ Step(p, FailedRow(RecordedModelFailure(b), drv[p].submitted), IdleDriver)
    BY <1>5 DEF ModelFails
  <2> QED BY <2>1, <2>2, <2>3, CalmStep
<1>6. CASE ToolBudgetExceeded(p)
  BY <1>6, CalmRaise DEF ToolBudgetExceeded
<1> QED BY <1>1, <1>2, <1>3, <1>4, <1>5, <1>6

LEMMA ProposeSafe ==
  ASSUME OneProcessOnly, Agrees, Inv', NEW p \in Procs, ModelProposes(p)
  PROVE  GoodStep
<1>1. PICK cs : 
        LET v == Mark(drv[p].view, cs, "pending") IN
        /\ row' = [row EXCEPT !.ckpt = v, !.partial = FALSE]
        /\ drv' = [drv EXCEPT ![p] = Continue(@, v)]
        /\ UNCHANGED <<phase, runs, consent>>
  BY DEF ModelProposes
<1> DEFINE v == Mark(drv[p].view, cs, "pending")
<1>2. Calm(row')
  BY <1>1, CalmFacts, CalmSave
<1>3. phase[p] = "up" /\ drv'[p].pc \in {"model", "batch"}
  BY <1>1, CalmFacts, PcOf DEF Inv, TypeOK, ModelProposes, DriverAt
<1>4. \A q \in Procs : DriverAgrees(q)'
  <2>1. TAKE q \in Procs
  <2>2. q = p
    BY DEF OneProcessOnly
  <2> QED BY <1>1, <1>3, <2>2 DEF DriverAgrees
<1>5. \A c \in Calls : LedgerAgrees(c)'
  BY <1>1, <1>2 DEF Agrees, Calm, LedgerAgrees
<1>6. row'.state = "AWAITING_APPROVAL" => row'.ledger[row'.appr.call] = "NEW"
  BY <1>2 DEF Agrees, Calm
<1>7. row'.state # "NEEDS_REVIEW" /\ StaysEnded /\ StartsAllowed
  BY <1>1, <1>2 DEF Calm, StaysEnded, StartsAllowed
<1> QED BY <1>4, <1>5, <1>6, <1>7 DEF GoodStep, Agrees

LEMMA BatchSafe ==
  ASSUME OneProcessOnly, Agrees, Inv', NEW p \in Procs,
         BeginCall(p) \/ GuardCall(p) \/ StopBatch(p) \/ RecordResult(p)
  PROVE  GoodStep
<1> USE CalmFacts, PcOf DEF Busy
<1>1. CASE BeginCall(p)
  <2>1. PICK c \in Calls :
          Step(p, [row EXCEPT !.ckpt = drv[p].view, !.partial = FALSE],
               [drv[p] EXCEPT !.pc = "invoke", !.call = c])
          /\ phase[p] = "up"
    BY <1>1 DEF BeginCall, DriverAt
  <2>2. [drv[p] EXCEPT !.pc = "invoke", !.call = c].pc = "invoke"
        /\ [drv[p] EXCEPT !.pc = "invoke", !.call = c].call = c
    BY DEF Driver
  <2>3. Calm([row EXCEPT !.ckpt = drv[p].view, !.partial = FALSE])
    BY CalmSave
  <2> QED BY <2>1, <2>2, <2>3, CalmStep
<1>2. CASE GuardCall(p) \/ StopBatch(p)
  <2>1. PICK v : Step(p, [row EXCEPT !.ckpt = v], Continue(drv[p], v)) /\ phase[p] = "up"
    BY <1>2 DEF GuardCall, StopBatch, DriverAt
  <2>2. Calm([row EXCEPT !.ckpt = v]) /\ Continue(drv[p], v).pc \in {"model", "batch"}
    BY CalmSave
  <2> QED BY <2>1, <2>2, CalmStep
<1>3. CASE RecordResult(p)
  <2>1. PICK v, w : /\ Step(p, IF drv[p].approval THEN row ELSE [row EXCEPT !.ckpt = w],
                            Continue(drv[p], v))
                    /\ phase[p] = "up"
    BY <1>3 DEF RecordResult, DriverAt
  <2>2. Calm(IF drv[p].approval THEN row ELSE [row EXCEPT !.ckpt = w])
        /\ Continue(drv[p], v).pc \in {"model", "batch"}
    BY CalmSave
  <2> QED BY <2>1, <2>2, CalmStep
<1> QED BY <1>1, <1>2, <1>3

-----------------------------------------------------------------------------
(* Steps that change an execution record.                                   *)

LEMMA ExecutedIs ==
  ASSUME NEW r \in Row, NEW c, NEW how
  PROVE  LET e == Executed(r, c, how) IN
         /\ e.state = r.state /\ e.appr = r.appr
         /\ \A q \in Calls : e.ledger[q] = IF q = c THEN how ELSE r.ledger[q]
BY DEF Executed, Row

\* The record of the call in hand moves on, without a start.
LEMMA RecordStep ==
  ASSUME OneProcessOnly, Agrees, Inv', NEW p \in Procs, phase[p] = "up",
         NEW c \in Calls, NEW how, NEW d, Step(p, Executed(row, c, how), d),
         d.pc \in {"recorded", "prepared"}, how # "NEW",
         row.state = "AWAITING_APPROVAL" => row.ledger[c] # "NEW",
         d.pc = "prepared" => d.call = c /\ how = "PREPARED" /\ row.state = "EXECUTING",
         how = "PREPARED" => row.ledger[c] = "NEW",
         c \in Gated => consent[c] = "approved"
  PROVE  GoodStep
<1>1. /\ row'.state = row.state /\ row'.appr = row.appr
      /\ \A q \in Calls : row'.ledger[q] = IF q = c THEN how ELSE row.ledger[q]
      /\ drv'[p] = d /\ UNCHANGED <<phase, runs, consent>>
  BY ExecutedIs, CalmFacts DEF Step, Inv, TypeOK
<1>2. \A q \in Procs : DriverAgrees(q)'
  <2>1. TAKE q \in Procs
  <2>2. q = p
    BY DEF OneProcessOnly
  <2> QED BY <1>1, <2>2 DEF DriverAgrees
<1>3. \A q \in Calls : LedgerAgrees(q)'
  BY <1>1 DEF Agrees, LedgerAgrees
<1>4. row'.state = "AWAITING_APPROVAL" => row'.ledger[row'.appr.call] = "NEW"
  BY <1>1, RequestFacts DEF Agrees
<1>5. row'.state # "NEEDS_REVIEW" /\ StaysEnded /\ StartsAllowed
  BY <1>1 DEF Agrees, StaysEnded, StartsAllowed
<1> QED BY <1>2, <1>3, <1>4, <1>5 DEF GoodStep, Agrees

\* A provider starts: the one step the three theorems about starts turn on.
LEMMA StartStep ==
  ASSUME OneProcessOnly, Agrees, Inv', NEW p \in Procs, phase[p] = "up",
         NEW c \in Calls, c = drv[p].call, NEW pc \in {"running", "rerunning"},
         StartProvider(p, c, pc), row.state = "EXECUTING",
         \/ row.ledger[c] = "PREPARED"
         \/ row.ledger[c] = "RUNNING" /\ c \notin NonIdempotent
  PROVE  GoodStep
<1>1. /\ row'.state = row.state /\ row'.appr = row.appr
      /\ \A q \in Calls : row'.ledger[q] = IF q = c THEN "RUNNING" ELSE row.ledger[q]
      /\ UNCHANGED <<phase, consent>>
  BY ExecutedIs, CalmFacts DEF StartProvider
<1>2. drv'[p].pc = pc /\ drv'[p].call = c
  BY CalmFacts DEF StartProvider, At, Inv, TypeOK, Driver
<1>3. \A q \in Calls : /\ q # c => runs'[q] = runs[q]
                       /\ runs[q] = 0 => runs'[q] <= 1
  <2>1. runs \in [Calls -> 0 .. 2]
    BY DEF Agrees, Inv, TypeOK
  <2> DEFINE n == IF runs[c] < RunCap(c) THEN runs[c] + 1 ELSE runs[c]
  <2>2. runs' = [runs EXCEPT ![c] = n]
    BY DEF StartProvider
  <2>3. runs[c] = 0 => n <= 1
    BY DEF RunCap
  <2>4. \A q \in Calls : runs[q] = 0 => runs[q] <= 1
    OBVIOUS
  <2> HIDE DEF n
  <2> QED BY <2>1, <2>2, <2>3, <2>4
<1>4. \A q \in Procs : DriverAgrees(q)'
  <2>1. TAKE q \in Procs
  <2>2. q = p
    BY DEF OneProcessOnly
  <2> QED BY <1>1, <1>2, <2>2 DEF DriverAgrees
<1>5. \A q \in Calls : LedgerAgrees(q)'
  BY <1>1, <1>3 DEF Agrees, LedgerAgrees
<1>6. row'.state = "EXECUTING" /\ StaysEnded
  BY <1>1 DEF StaysEnded
<1>7. StartsAllowed
  BY <1>3 DEF StartsAllowed, Agrees, LedgerAgrees
<1> QED BY <1>4, <1>5, <1>6, <1>7 DEF GoodStep, Agrees

LEMMA InvokingSafe ==
  ASSUME OneProcessOnly, Agrees, Inv', NEW p \in Procs,
         \/ InvokeRefused(p) \/ ReuseResult(p) \/ RecoverUnknown(p) \/ RecoverRun(p)
         \/ PolicyDenies(p) \/ AskUser(p) \/ Prepare(p)
         \/ PrepareApproved(p) \/ MarkRunning(p) \/ ProviderReturns(p)
         \/ VersionConflict(p)
  PROVE  GoodStep
<1> USE CalmFacts, PcOf DEF DriverAt
<1> DEFINE c == drv[p].call
<1>0. DriverAgrees(p) /\ (c \in Calls => LedgerAgrees(c)) /\ At(p, "prepared").call = c
  BY DEF Agrees, At, Driver
<1>1. CASE InvokeRefused(p) \/ VersionConflict(p)
  BY <1>1, CalmRaise DEF InvokeRefused, VersionConflict
<1>2. CASE ReuseResult(p) \/ PolicyDenies(p)
  BY <1>2, CalmStep DEF ReuseResult, PolicyDenies, Busy
<1>3. CASE RecoverUnknown(p)
  BY <1>0, <1>3, RecordStep DEF RecoverUnknown, DriverAgrees, LedgerAgrees
<1>4. CASE RecoverRun(p)
  BY <1>0, <1>4, StartStep DEF RecoverRun, DriverAgrees
<1>5. CASE AskUser(p)
  <2> DEFINE r == [Transition(row, "AWAITING_USER") EXCEPT !.clar = c, !.ckpt = drv[p].view]
  <2>1. Calm(Transition(row, "AWAITING_USER")) /\ Transition(row, "AWAITING_USER") \in Row
        /\ Transition(row, "AWAITING_USER").state = "AWAITING_USER"
    BY <1>5, CalmMove, TransitionType, StateFacts DEF AskUser
  <2>2. Calm(r)
    BY <2>1, CalmSave
  <2> QED BY <1>5, <2>2, CalmStep DEF AskUser, Busy
<1>6. CASE Prepare(p)
  BY <1>0, <1>6, RecordStep DEF Prepare, DriverAgrees
<1>7. CASE PrepareApproved(p)
  <2> DEFINE d == [drv[p] EXCEPT !.pc = "prepared", !.snap = None]
  <2>1. d.pc = "prepared" /\ d.call = c
    BY DEF Driver
  <2>2. Step(p, Executed(row, c, "PREPARED"), d) /\ phase[p] = "up" /\ c \in Calls
        /\ row.ledger[c] = "NEW" /\ consent[c] = "approved"
    BY <1>0, <1>7 DEF PrepareApproved, DriverAgrees
  <2>3. row.state = "EXECUTING"
    BY <1>0, <1>7 DEF PrepareApproved, DriverAgrees, Inv, GoodDriver
  <2> HIDE DEF d, c
  <2> QED BY <2>1, <2>2, <2>3, RecordStep
<1>8. CASE MarkRunning(p)
  BY <1>0, <1>8, StartStep DEF MarkRunning, DriverAgrees
<1>9. CASE ProviderReturns(p)
  <2>1. PICK how \in Reusable : Step(p, Executed(row, c, how), At(p, "recorded"))
        /\ phase[p] = "up" /\ drv[p].pc \in {"running", "rerunning"}
    BY <1>9 DEF ProviderReturns
  <2>2. how # "NEW" /\ how # "PREPARED"
    BY DEF Reusable, Settled
  <2>3. c \in Calls /\ row.ledger[c] = "RUNNING"
    BY <1>0, <2>1 DEF DriverAgrees
  <2> QED BY <1>0, <2>1, <2>2, <2>3, RecordStep DEF LedgerAgrees
<1> QED BY <1>1, <1>2, <1>3, <1>4, <1>5, <1>6, <1>7, <1>8, <1>9

\* The request is made while the call has no record, and by an idle driver.
LEMMA AskApprovalSafe ==
  ASSUME OneProcessOnly, Agrees, Inv', NEW p \in Procs, AskApproval(p)
  PROVE  GoodStep
<1> DEFINE c == drv[p].call
<1> USE CalmFacts
<1>1. /\ row.state = "EXECUTING" /\ c \in Calls /\ row.ledger[c] = "NEW"
      /\ phase[p] = "up"
  BY CallAssumption DEF AskApproval, DriverAt
<1>2. /\ row'.state = "AWAITING_APPROVAL" /\ row'.appr.call = c
      /\ row'.ledger = row.ledger
  <2> DEFINE t == Transition(row, "AWAITING_APPROVAL")
  <2>1. t \in Row /\ t.state = "AWAITING_APPROVAL"
    BY TransitionType, StateFacts
  <2>2. row' = [t EXCEPT !.appr = [call |-> c, view |-> drv[p].view]]
    BY DEF AskApproval
  <2>3. t.ledger = row.ledger
    BY DEF Transition, Row
  <2> HIDE DEF t, c
  <2> QED BY <2>1, <2>2, <2>3 DEF Row
<1>3. /\ drv'[p].pc = "off" /\ UNCHANGED <<phase, runs>>
      /\ \A q \in Calls : consent'[q] = IF q = c THEN "asked" ELSE consent[q]
  BY DEF AskApproval, Inv, TypeOK, IdleDriver
<1>4. \A q \in Procs : DriverAgrees(q)'
  <2>1. TAKE q \in Procs
  <2>2. q = p
    BY DEF OneProcessOnly
  <2> QED BY <1>3, <2>2 DEF DriverAgrees, Idle
<1>5. \A q \in Calls : LedgerAgrees(q)'
  BY <1>1, <1>2, <1>3 DEF Agrees, LedgerAgrees
<1>6. row'.ledger[row'.appr.call] = "NEW" /\ row'.state # "NEEDS_REVIEW"
  BY <1>1, <1>2
<1>7. StaysEnded /\ StartsAllowed
  BY <1>1, <1>3 DEF StaysEnded, StartsAllowed
<1> QED BY <1>4, <1>5, <1>6, <1>7 DEF GoodStep, Agrees

\* The decision: consent moves only for a call that has no record.
LEMMA ResolveSafe ==
  ASSUME OneProcessOnly, Agrees, Inv', NEW p \in Procs, ResolveApproval(p)
  PROVE  GoodStep
<1> DEFINE c == row.appr.call
           v == row.appr.view
           r == [Transition(row, "EXECUTING") EXCEPT !.appr = None, !.ckpt = v]
           d(decision) == Decided(NewDriver("approved", v, FALSE), r, c, decision)
<1> USE CalmFacts
<1>1. /\ row.state = "AWAITING_APPROVAL" /\ row.ledger[c] = "NEW"
      /\ c \in Calls /\ v \in View /\ phase[p] = "up"
  BY RequestFacts DEF ResolveApproval, Agrees
<1>2. PICK decision \in {"approved", "denied"} :
        /\ row' = r
        /\ drv' = [drv EXCEPT ![p] = d(decision)]
        /\ consent' = [consent EXCEPT ![c] = decision]
        /\ UNCHANGED <<phase, runs>>
  BY DEF ResolveApproval
<1>3. row'.state = "EXECUTING" /\ row'.ledger = row.ledger
  BY <1>2, TransitionType, StateFacts DEF Transition, Row
<1>4. \A q \in Calls : consent'[q] = IF q = c THEN decision ELSE consent[q]
  BY <1>2 DEF Inv, TypeOK
<1>5. \/ /\ decision = "approved" /\ drv'[p].pc = "approved"
         /\ drv'[p].call = c /\ drv'[p].snap = row'
      \/ drv'[p].pc \in {"model", "batch"}
  <2>1. drv'[p] = d(decision)
    BY <1>2 DEF Inv, TypeOK
  <2>2. NewDriver("approved", v, FALSE) \in Driver
    BY <1>1 DEF NewDriver, IdleDriver, Driver, Pc
  <2>3. NewDriver("approved", v, FALSE).pc = "approved"
    BY DEF NewDriver, IdleDriver
  <2>4. CASE decision = "approved"
    <3> DEFINE n == NewDriver("approved", v, FALSE)
    <3>1. drv'[p] = [n EXCEPT !.call = c, !.approval = TRUE, !.snap = r]
      BY <2>1, <2>4 DEF Decided
    <3>2. n \in Driver /\ n.pc = "approved" /\ row' = r
      BY <1>2, <2>2, <2>3
    <3> HIDE DEF n, r, c, v
    <3> QED BY <2>4, <3>1, <3>2 DEF Driver
  <2>5. CASE decision # "approved"
    BY <2>1, <2>2, <2>5, PcOf DEF Decided
  <2> QED BY <2>4, <2>5
<1> HIDE DEF c, v, r, d
<1>6. \A q \in Procs : DriverAgrees(q)'
  <2>1. TAKE q \in Procs
  <2>2. q = p
    BY DEF OneProcessOnly
  <2> QED BY <1>1, <1>2, <1>3, <1>4, <1>5, <2>2 DEF DriverAgrees, Idle
<1>7. \A q \in Calls : LedgerAgrees(q)'
  BY <1>1, <1>2, <1>3, <1>4 DEF Agrees, LedgerAgrees
<1>8. StaysEnded /\ StartsAllowed
  BY <1>1, <1>2 DEF StaysEnded, StartsAllowed
<1> QED BY <1>3, <1>6, <1>7, <1>8 DEF GoodStep, Agrees

LEMMA SupersedeSafe ==
  ASSUME OneProcessOnly, Agrees, Inv', NEW p \in Procs, SupersedeApproval(p)
  PROVE  GoodStep
<1> DEFINE c == row.appr.call
<1> USE CalmFacts
<1>1. row.state = "AWAITING_APPROVAL" /\ row.ledger[c] = "NEW" /\ c \in Calls
  BY RequestFacts DEF SupersedeApproval, Agrees
<1>2. row'.state = "EXECUTING" /\ row'.ledger = row.ledger
      /\ UNCHANGED <<drv, phase, runs>> /\ Free(p)
  BY TransitionType, StateFacts DEF SupersedeApproval, Transition, Row
<1>3. \A q \in Calls : consent'[q] = IF q = c THEN "superseded" ELSE consent[q]
  BY DEF SupersedeApproval, Inv, TypeOK
<1>4. drv[p].pc \notin {"approved", "prepared"} /\ phase[p] = "up"
  BY <1>2 DEF Free, Suspended, Idle
<1>5. \A q \in Procs : DriverAgrees(q)'
  <2>1. TAKE q \in Procs
  <2>2. q = p
    BY DEF OneProcessOnly
  <2> QED BY <1>2, <1>4, <2>2 DEF DriverAgrees, Agrees
<1>6. \A q \in Calls : LedgerAgrees(q)'
  BY <1>1, <1>2, <1>3 DEF Agrees, LedgerAgrees
<1>7. StaysEnded /\ StartsAllowed
  BY <1>1, <1>2 DEF StaysEnded, StartsAllowed
<1> QED BY <1>2, <1>5, <1>6, <1>7 DEF GoodStep, Agrees

-----------------------------------------------------------------------------
(* The rest of the actions.                                                 *)

LEMMA RecoverSet ==
  ASSUME NEW d \in Driver
  PROVE  [d EXCEPT !.recover = TRUE] \in Driver
  BY DEF Driver

LEMMA FinishingSafe ==
  ASSUME OneProcessOnly, Agrees, Inv', NEW p \in Procs,
         \/ CompleteVerify(p) \/ CompleteFinalize(p) \/ CompleteSucceed(p)
         \/ ResumeOpen(p) \/ ResumeSave(p)
  PROVE  GoodStep
<1> USE CalmFacts, PcOf DEF DriverAt, Busy
<1>0. \A t \in {"VERIFYING", "FINALIZING", "SUCCEEDED", "EXECUTING"} :
        CanMove(row.state, t) => Calm(Transition(row, t))
  BY CalmMove, TerminalFacts
<1>1. CASE CompleteVerify(p)
  BY <1>0, <1>1, CalmStep, CalmRaise DEF CompleteVerify, CompleteHop
<1>2. CASE CompleteFinalize(p)
  BY <1>0, <1>2, CalmStep, CalmRaise DEF CompleteFinalize, CompleteHop
<1>3. CASE CompleteSucceed(p)
  BY <1>0, <1>3, CalmStep, CalmRaise DEF CompleteSucceed, CompleteHop
<1>4. CASE ResumeOpen(p)
  <2>1. MayResume(row) => Calm(Transition(row, "EXECUTING"))
    BY CalmMove, TerminalFacts DEF MayResume
  <2> QED BY <1>4, <2>1, CalmStep, CalmRaise DEF ResumeOpen
<1>5. CASE ResumeSave(p)
  <2> DEFINE d == [drv[p] EXCEPT !.recover = TRUE]
  <2>1. d \in Driver
    BY RecoverSet
  <2>2. Continue(d, drv[p].view).pc \in {"model", "batch"}
    BY <2>1
  <2>3. Calm([row EXCEPT !.ckpt = drv[p].view, !.partial = FALSE])
    BY CalmSave
  <2>4. Step(p, [row EXCEPT !.ckpt = drv[p].view, !.partial = FALSE],
             Continue(d, drv[p].view)) /\ phase[p] = "up"
    BY <1>5 DEF ResumeSave
  <2> HIDE DEF d
  <2> QED BY <2>2, <2>3, <2>4, CalmStep
<1> QED BY <1>1, <1>2, <1>3, <1>4, <1>5

LEMMA UserSafe ==
  ASSUME OneProcessOnly, Agrees, Inv', NEW p \in Procs,
         \/ StartTurn(p) \/ FreshTurn(p) \/ SupersedeConversation(p)
         \/ ApprovalConflict(p) \/ AnswerUser(p) \/ Interrupt(p)
  PROVE  GoodStep
<1> USE CalmFacts, PcOf DEF Busy
<1>0. \A t \in {"SUCCEEDED", "EXECUTING", "INTERRUPTED"} :
        /\ Transition(row, t) \in Row /\ Transition(row, t).state = t
        /\ row.state \notin TerminalStates => Calm(Transition(row, t))
  <2> TAKE t \in {"SUCCEEDED", "EXECUTING", "INTERRUPTED"}
  <2>1. t \in TaskState
    BY StateFacts
  <2> QED BY <2>1, TransitionType, CalmMove
<1> DEFINE opened == NewDriver("opened", Fresh, TRUE)
<1>o. opened.pc = "opened"
  BY DEF NewDriver, IdleDriver
<1>1. CASE StartTurn(p)
  <2>1. Calm(FailedRow(row, TRUE))
    BY CalmFailed
  <2>2. row.state \notin TerminalStates /\ phase[p] = "up"
        /\ drv[p].pc \in {"off", "raised"}
    BY <1>1 DEF StartTurn, Idle
  <2>3. \/ Step(p, Transition(row, "EXECUTING"), opened)
        \/ Step(p, FailedRow(row, TRUE), drv[p])
    BY <1>1 DEF StartTurn
  <2>4. Calm(Transition(row, "EXECUTING"))
    BY <1>0, <2>2
  <2> HIDE DEF opened
  <2> QED BY <1>o, <2>1, <2>2, <2>3, <2>4, CalmStep
<1>2. CASE FreshTurn(p)
  <2>1. row.state \notin TerminalStates /\ phase[p] = "up"
    BY <1>2 DEF FreshTurn, ConversationRestartable
  <2>2. Calm([Transition(row, "EXECUTING") EXCEPT !.appr = None, !.clar = None, !.ckpt = None])
    BY <1>0, <2>1, CalmSave
  <2>3. Step(p, [Transition(row, "EXECUTING") EXCEPT !.appr = None, !.clar = None, !.ckpt = None],
             opened)
    BY <1>2 DEF FreshTurn
  <2> HIDE DEF opened
  <2> QED BY <1>o, <2>1, <2>2, <2>3, CalmStep
<1>3. CASE SupersedeConversation(p)
  <2>1. row.state \notin TerminalStates /\ phase[p] = "up"
        /\ drv[p].pc \in {"off", "raised"}
    BY <1>3 DEF SupersedeConversation, Idle
  <2> QED BY <1>0, <1>3, <2>1, CalmStep DEF SupersedeConversation
<1>4. CASE ApprovalConflict(p)
  <2>1. Calm(row') /\ UNCHANGED <<drv, phase, runs, consent>> /\ Idle(p)
    BY <1>4, CalmConflicted DEF ApprovalConflict
  <2> QED BY <2>1, CalmHandler DEF Idle
<1>5. CASE AnswerUser(p)
  <2> DEFINE v == Mark(row.ckpt, {row.clar}, "answered")
             r == [Transition(row, "EXECUTING") EXCEPT !.clar = None, !.ckpt = v]
             d == NewDriver("batch", v, FALSE)
  <2>1. row.state \notin TerminalStates /\ phase[p] = "up" /\ Step(p, r, Continue(d, v))
    BY <1>5 DEF AnswerUser
  <2>2. Calm(r)
    BY <1>0, <2>1, CalmSave
  <2>3. v \in View
    BY <1>5, MarkType DEF AnswerUser, Row, CallView
  <2>4. d \in Driver
    BY <2>3, NewDriverGood, PcFacts DEF GoodDriver
  <2>5. Continue(d, v).pc \in {"model", "batch"}
    BY <2>4
  <2> HIDE DEF r, d, v
  <2> QED BY <2>1, <2>2, <2>5, CalmStep
<1>6. CASE Interrupt(p)
  <2>1. row.state \notin TerminalStates /\ phase[p] = "up"
    BY <1>6 DEF Interrupt, Free
  <2> QED BY <1>0, <1>6, <2>1, CalmStep DEF Interrupt, Interrupted
<1> QED BY <1>1, <1>2, <1>3, <1>4, <1>5, <1>6

LEMMA CancelSafe ==
  ASSUME OneProcessOnly, Agrees, Inv', NEW p \in Procs,
         CancelBegin(p) \/ CancelCommit(p) \/ CancelDone(p)
  PROVE  GoodStep
<1> USE CalmFacts
<1>0. phase[p] = "up" /\ drv[p].pc \notin {"approved", "prepared"} /\ UNCHANGED phase
  BY DEF CancelBegin, CancelCommit, CancelDone, Free, Suspended, Idle
<1>1. CASE CancelBegin(p)
  <2>1. Calm(SettledForCancel(row))
    BY CalmSave DEF SettledForCancel
  <2> QED BY <1>0, <1>1, <2>1, CalmHandler DEF CancelBegin
<1>2. CASE CancelCommit(p)
  <2>1. CanMove(row.state, "CANCELLED") => Calm(Transition(row, "CANCELLED"))
    BY CalmMove, TerminalFacts
  <2> QED BY <1>0, <1>2, <2>1, CalmHandler DEF CancelCommit
<1>3. CASE CancelDone(p)
  <2>1. drv'[p].pc = "off" /\ UNCHANGED <<row, runs, consent>>
    BY <1>3, PcOf DEF CancelDone, Inv, TypeOK
  <2>2. \A q \in Procs : DriverAgrees(q)'
    <3>1. TAKE q \in Procs
    <3>2. q = p
      BY DEF OneProcessOnly
    <3> QED BY <2>1, <3>2 DEF DriverAgrees, Idle
  <2> QED BY <2>1, <2>2 DEF GoodStep, Agrees, LedgerAgrees, StaysEnded, StartsAllowed
<1> QED BY <1>1, <1>2, <1>3

LEMMA ResumeSafe ==
  ASSUME OneProcessOnly, Agrees, Inv', NEW p \in Procs,
         \/ ResumeReconciled(p) \/ ResumeUnchanged(p)
         \/ ResumeConflict(p) \/ ResumeRefused(p)
  PROVE  GoodStep
<1> USE CalmFacts
<1>1. phase[p] = "up" /\ drv[p].pc \in {"off", "raised"} /\ Idle(p)
  BY DEF ResumeReconciled, ResumeUnchanged, ResumeConflict, ResumeRefused,
         MayContinue, Idle
<1>2. \A v, b : Reconciled(v, b).pc \in {"resuming", "reconciled"}
  BY DEF Reconciled, NewDriver, IdleDriver
<1>3. CASE ResumeReconciled(p)
  <2>1. PICK v, b : Step(p, [row EXCEPT !.ckpt = v], Reconciled(v, b))
    BY <1>3 DEF ResumeReconciled
  <2>2. Calm([row EXCEPT !.ckpt = v])
    BY CalmSave
  <2> QED BY <1>1, <1>2, <2>1, <2>2, CalmStep DEF Busy
<1>4. CASE ResumeUnchanged(p)
  <2>1. PICK b : Step(p, row, Reconciled(row.ckpt, b))
    BY <1>4 DEF ResumeUnchanged
  <2> QED BY <1>1, <1>2, <2>1, CalmStep DEF Busy
<1>5. CASE ResumeConflict(p)
  <2>1. PICK b \in BOOLEAN : row' = FailedRow(Conflicted(row), b)
    BY <1>5 DEF ResumeConflict
  <2>2. Calm(Conflicted(row)) /\ Conflicted(row) \in Row
    BY CalmConflicted, ConflictedGood, InvFacts DEF GoodRow
  <2>3. Calm(row')
    BY <2>1, <2>2, CalmFailed
  <2> QED BY <1>1, <1>5, <2>3, CalmHandler DEF ResumeConflict
<1>6. CASE ResumeRefused(p)
  <2>1. Calm(FailedRow(row, TRUE))
    BY CalmFailed
  <2> QED BY <1>1, <1>6, <2>1, CalmHandler DEF ResumeRefused
<1> QED BY <1>3, <1>4, <1>5, <1>6

LEMMA SettleSafe ==
  ASSUME OneProcessOnly, Agrees, Inv', NEW p \in Procs,
         SettleStep(p) \/ EndSettling(p) \/ BeginSettling(p) \/ Crash(p)
  PROVE  GoodStep
<1> USE CalmFacts
<1>1. DriverAgrees(p)
  BY DEF Agrees
<1>2. CASE SettleStep(p)
  <2>1. Idle(p) /\ drv[p].pc \notin {"approved", "prepared"}
        /\ UNCHANGED <<drv, phase, runs, consent>>
    BY <1>1, <1>2 DEF SettleStep, DriverAgrees, Idle
  <2>2. row.state \notin TerminalStates
    BY <1>2 DEF SettleStep, OrphanClaims, TerminalStates
  <2>3. \A t \in {"INTERRUPTED", "EXECUTING", "SUCCEEDED", "CANCELLED"} :
          Calm(Transition(row, t))
    BY <2>2, CalmMove
  <2>4. Calm(row')
    <3>1. CASE row.state = "EXECUTING"
      BY <1>2, <2>3, <3>1 DEF SettleStep, Interrupted
    <3>2. CASE row.state \in {"ROUTING", "VERIFYING"}
      BY <1>2, <2>3, <3>2 DEF SettleStep
    <3>3. CASE row.state = "FINALIZING"
      BY <1>2, <2>3, <3>3 DEF SettleStep
    <3>4. CASE row.state \notin {"EXECUTING", "ROUTING", "VERIFYING", "FINALIZING"}
      BY <1>2, <2>3, <3>4 DEF SettleStep
    <3> QED BY <3>1, <3>2, <3>3, <3>4
  <2> QED BY <2>1, <2>4, CalmHandler
<1>3. CASE EndSettling(p) \/ BeginSettling(p)
  <2>1. Idle(p) /\ drv[p].pc \notin {"approved", "prepared"}
        /\ UNCHANGED <<row, drv, runs, consent>>
    BY <1>1, <1>3 DEF EndSettling, BeginSettling, DriverAgrees, Idle
  <2>2. Calm(row')
    BY <2>1 DEF Calm
  <2> QED BY <2>1, <2>2, CalmHandler
<1>4. CASE Crash(p)
  <2>1. drv'[p].pc = "off" /\ UNCHANGED <<row, runs, consent>>
    BY <1>4, PcOf DEF Crash, Inv, TypeOK
  <2>2. \A q \in Procs : DriverAgrees(q)'
    <3>1. TAKE q \in Procs
    <3>2. q = p
      BY DEF OneProcessOnly
    <3> QED BY <2>1, <3>2 DEF DriverAgrees, Idle
  <2> QED BY <2>1, <2>2 DEF GoodStep, Agrees, LedgerAgrees, StaysEnded, StartsAllowed
<1> QED BY <1>2, <1>3, <1>4

-----------------------------------------------------------------------------
LEMMA InitAgrees == Init => Agrees
<1> SUFFICES ASSUME Init PROVE Agrees
  OBVIOUS
<1>1. row.state = "CREATED" /\ \A c \in Calls : row.ledger[c] = "NEW" /\ runs[c] = 0
  BY DEF Init, NewRow
<1>2. \A p \in Procs : phase[p] = "up" /\ drv[p].pc \in {"setup", "off"}
  BY DEF Init, NewDriver, IdleDriver
<1> QED BY <1>1, <1>2, InitInv DEF Agrees, DriverAgrees, LedgerAgrees

LEMMA NextAgrees ==
  ASSUME OneProcessOnly, Agrees, [Next]_vars
  PROVE  GoodStep
<1>1. Inv'
  BY NextInv DEF Agrees
<1>2. CASE UNCHANGED vars
  BY <1>1, <1>2 DEF vars, GoodStep, Agrees, DriverAgrees, LedgerAgrees, Idle,
                    StaysEnded, StartsAllowed
<1>3. ASSUME NEW p \in Procs, DriverStep(p) PROVE GoodStep
  BY <1>1, <1>3, SamplingSafe, ProposeSafe, BatchSafe, InvokingSafe, AskApprovalSafe,
     FinishingSafe DEF DriverStep
<1>4. ASSUME NEW p \in Procs, UserStep(p) PROVE GoodStep
  BY <1>1, <1>4, UserSafe, ResolveSafe, SupersedeSafe, CancelSafe, ResumeSafe DEF UserStep
<1>5. ASSUME NEW p \in Procs,
             CancelStep(p) \/ SettlingStep(p) \/ BeginSettling(p) \/ Crash(p)
      PROVE  GoodStep
  BY <1>1, <1>5, CancelSafe, SettleSafe DEF CancelStep, SettlingStep
<1> QED BY <1>2, <1>3, <1>4, <1>5 DEF Next

LEMMA AgreesAlways ==
  ASSUME OneProcessOnly
  PROVE  Spec => [](Agrees) /\ [][GoodStep]_vars
<1>1. Agrees /\ [Next]_vars => Agrees' /\ GoodStep
  BY NextAgrees DEF GoodStep
<1> QED BY <1>1, InitAgrees, PTL DEF Spec

\* ConsentBeforeRun with one process: a provider of a gated tool starts only
\* while the user's latest word on that call is "approved"
\* (invoke_tool, _resolve_approval, _recover_interrupted_tool).
THEOREM GatedRunsHaveConsent ==
  ASSUME OneProcessOnly
  PROVE  Spec => ConsentBeforeRun
<1>1. GoodStep => \A c \in Gated : runs'[c] # runs[c] => consent[c] = "approved"
  BY CallAssumption DEF GoodStep, StartsAllowed
<1> QED BY <1>1, AgreesAlways, PTL DEF ConsentBeforeRun

\* StartsOnlyWhileExecuting with one process: no provider starts for a Task that
\* was interrupted, cancelled or failed (_execute_authorized_tool checks the
\* state once, in the commit before the one that starts the provider).
THEOREM StartsWhileExecuting ==
  ASSUME OneProcessOnly
  PROVE  Spec => StartsOnlyWhileExecuting
<1>1. GoodStep => \A c \in Calls : runs'[c] # runs[c] => row.state = "EXECUTING"
  BY DEF GoodStep, StartsAllowed
<1> QED BY <1>1, AgreesAlways, PTL DEF StartsOnlyWhileExecuting

\* EndIsFinal with one process: no driver, handler or settlement moves a Task
\* that ended (LEGAL_TRANSITIONS; nothing in the code enters NEEDS_REVIEW).
THEOREM EndsAreFinal ==
  ASSUME OneProcessOnly
  PROVE  Spec => EndIsFinal
<1>1. GoodStep => (row.state \in TerminalStates => row'.state = row.state)
  BY DEF GoodStep, StaysEnded
<1> QED BY <1>1, AgreesAlways, PTL DEF EndIsFinal

\* NonIdempotentOnce with one process: however often a Turn crashes, is resumed
\* and recovers its calls, the provider of a NON_IDEMPOTENT tool starts at most
\* once for a call (_recover_interrupted_tool).
THEOREM NonIdempotentStartsOnce ==
  ASSUME OneProcessOnly
  PROVE  Spec => []NonIdempotentOnce
<1>1. Agrees => NonIdempotentOnce
  BY CallAssumption DEF Agrees, LedgerAgrees, NonIdempotentOnce
<1> QED BY <1>1, AgreesAlways, PTL

\* RefusedNeverRan with one process: what the user denied or superseded has not
\* run and its record is still empty (_resolve_approval, route_runtime_input).
THEOREM RefusedCallsNeverRan ==
  ASSUME OneProcessOnly
  PROVE  Spec => []RefusedNeverRan
<1>1. Agrees => RefusedNeverRan
  <2> SUFFICES ASSUME Agrees, NEW c \in Gated, consent[c] \in {"denied", "superseded"}
               PROVE  runs[c] = 0
    BY DEF RefusedNeverRan
  <2>1. c \in Calls /\ LedgerAgrees(c)
    BY CallAssumption DEF Agrees
  <2> QED BY <2>1 DEF LedgerAgrees
<1> QED BY <1>1, AgreesAlways, PTL

-----------------------------------------------------------------------------
(***************************************************************************)
(* Requests and states, with one process.  An approval or a question stays *)
(* in the row when its Turn is interrupted, and reopening the Task drops   *)
(* nothing.  What keeps a running Task free of old requests is the         *)
(* transcript: a request is about a call that the checkpoint holds open    *)
(* and that has no execution record, and such a checkpoint is never        *)
(* reconciled or rebased, so the Turn is not resumed under it.             *)
(***************************************************************************)
NoRequest(r) == r.appr = None /\ r.clar = None

\* The checkpoint holds the call open and nothing of it has been executed.
StillOpen(r, c) == r.ckpt # None /\ c \in Pending(r.ckpt) /\ r.ledger[c] = "NEW"

Waiting == {"AWAITING_APPROVAL", "AWAITING_USER"}

\* Every request is about a call that is still open, in a Task that waits for
\* it or was interrupted while it did.
RequestsOpen(r) ==
  /\ r.appr = None \/ r.clar = None
  /\ r.appr # None => /\ r.state \in {"AWAITING_APPROVAL", "INTERRUPTED"}
                      /\ StillOpen(r, r.appr.call)
  /\ r.clar # None => /\ r.state \in {"AWAITING_USER", "INTERRUPTED"}
                      /\ StillOpen(r, r.clar)

\* A Task that waits has no driver, an interrupted one at most a driver that is
\* about to reopen it; a call about to be invoked is open in the checkpoint.
DriverWaits(p) ==
  LET d == drv[p] IN
  /\ row.state \in Waiting => Idle(p)
  /\ row.state = "INTERRUPTED" =>
       Idle(p) \/ (d.pc = "reconciled" /\ (stopping \/ NoRequest(row)))
  /\ d.pc = "invoke" => row.ckpt = d.view /\ d.call \in Pending(d.view)
  /\ d.pc = "approved" => d.call \in Gated

Waits ==
  /\ \A p \in Procs : DriverWaits(p)
  /\ \A c \in Asks : row.ledger[c] = "NEW"
  /\ row.state = "AWAITING_APPROVAL" =>
       row.appr.call \in Pending(row.appr.view) /\ row.appr.call \in Gated
  /\ row.state = "AWAITING_USER" =>
       /\ row.clar \in Asks /\ row.ckpt # None
       /\ row.ckpt[row.clar] \in {"pending", "cancelled"}
  /\ ~stopping => RequestsOpen(row)

-----------------------------------------------------------------------------
(* Rows that wait for nothing.                                              *)

\* A row that waits for nothing and, before any cancellation, asks nothing.
Loose(r) ==
  /\ r.state \notin Waiting
  /\ \A c \in Asks : r.ledger[c] = "NEW"
  /\ stopping \/ NoRequest(r)

\* What a driver may hold over such a row.
Ready(d, r) ==
  /\ r.state = "INTERRUPTED" => d.pc \in {"off", "raised", "reconciled"}
  /\ d.pc = "invoke" => r.ckpt = d.view /\ d.call \in Pending(d.view)
  /\ d.pc = "approved" => d.call \in Gated

LEMMA LooseStep ==
  ASSUME OneProcessOnly, NEW p \in Procs, Loose(row'), Ready(drv'[p], row'),
         stopping' = stopping
  PROVE  Waits'
<1>1. \A q \in Procs : DriverWaits(q)'
  <2>1. TAKE q \in Procs
  <2>2. q = p
    BY DEF OneProcessOnly
  <2> QED BY <2>2 DEF Loose, Ready, DriverWaits, Idle, Waiting
<1>2. RequestsOpen(row') \/ stopping
  BY DEF Loose, NoRequest, RequestsOpen
<1> QED BY <1>1, <1>2 DEF Loose, Waits, Waiting

\* A step that leaves the row as it is, and the driver too or at rest.
LEMMA SameRow ==
  ASSUME OneProcessOnly, Waits, NEW p \in Procs, UNCHANGED <<row, stopping>>,
         drv' = drv \/ drv'[p].pc \in {"off", "raised"}
  PROVE  Waits'
<1>1. \A q \in Procs : DriverWaits(q)'
  <2>1. TAKE q \in Procs
  <2>2. q = p
    BY DEF OneProcessOnly
  <2> QED BY <2>2 DEF Waits, DriverWaits, Idle
<1> QED BY <1>1 DEF Waits

\* A handler that finds the driver at rest and leaves it so.
LEMMA HandlerWaits ==
  ASSUME OneProcessOnly, Waits, NEW p \in Procs, Idle(p), UNCHANGED <<drv, stopping>>,
         row' = row \/ Loose(row')
  PROVE  Waits'
<1>1. CASE row' = row
  BY <1>1, SameRow
<1>2. CASE Loose(row')
  <2>1. Ready(drv'[p], row')
    BY DEF Idle, Ready
  <2> QED BY <1>2, <2>1, LooseStep
<1> QED BY <1>1, <1>2

LEMMA LooseRow ==
  ASSUME Waits, row.state \notin Waiting \cup {"INTERRUPTED"}
  PROVE  Loose(row)
BY DEF Waits, RequestsOpen, Loose, NoRequest, Waiting

\* A driver that is not at rest works on a row that waits for nothing.
LEMMA ActiveRow ==
  ASSUME Waits, NEW p \in Procs, ~Idle(p)
  PROVE  Loose(row) /\ (drv[p].pc # "reconciled" => row.state # "INTERRUPTED")
<1>1. DriverWaits(p)
  BY DEF Waits
<1>2. CASE row.state = "INTERRUPTED"
  BY <1>1, <1>2 DEF DriverWaits, Waits, Loose, Waiting
<1>3. CASE row.state # "INTERRUPTED"
  BY <1>1, <1>3, LooseRow DEF DriverWaits
<1> QED BY <1>2, <1>3

\* Before a cancellation, an interrupted Task whose checkpoint holds no call open
\* that has no record asks nothing.
LEMMA InterruptedRow ==
  ASSUME Waits, row.state \notin Waiting, NEW v, row.ckpt = v,
         \A c \in Pending(v) : row.ledger[c] # "NEW"
  PROVE  Loose(row)
BY DEF Waits, RequestsOpen, StillOpen, Loose, NoRequest

\* Saving a checkpoint leaves what the row waits for and asks.
Resaved(s, r) == s.state = r.state /\ s.ledger = r.ledger /\ s.appr = r.appr /\ s.clar = r.clar

LEMMA LooseSave ==
  ASSUME NEW r, Loose(r), NEW s, Resaved(s, r)
  PROVE  Loose(s)
BY DEF Resaved, Loose, NoRequest

LEMMA LooseMove ==
  ASSUME NEW r \in Row, Loose(r), NEW t, t \notin Waiting
  PROVE  Loose(Transition(r, t))
BY DEF Loose, NoRequest, Transition, Row

LEMMA MoveIs ==
  ASSUME NEW r \in Row, NEW t
  PROVE  Transition(r, t).state = t
BY DEF Transition, Row

\* Ending the Task, or its conflict, drops whatever it asked.
LEMMA LooseDrop ==
  ASSUME NEW r \in Row, \A c \in Asks : r.ledger[c] = "NEW",
         NEW t, t \notin Waiting, DropsPending(t)
  PROVE  Loose(Transition(r, t))
BY DEF Loose, NoRequest, Transition, Row

LEMMA DropFacts ==
  /\ \A t \in {"SUCCEEDED", "CANCELLED", "FAILED", "CONFLICT"} :
       DropsPending(t) /\ t \notin Waiting
  /\ {"EXECUTING", "AWAITING_INPUT", "INTERRUPTED", "VERIFYING", "FINALIZING"}
       \cap Waiting = {}
BY DEF DropsPending, TerminalStates, Waiting

LEMMA LooseFailed ==
  ASSUME NEW r \in Row, Loose(r), NEW b
  PROVE  Loose(FailedRow(r, b))
BY LooseMove, DropFacts DEF FailedRow

\* Recording a failure or a conflict leaves the row, or drops what it asked.
LEMMA RowOrLoose ==
  ASSUME Agrees, Waits, NEW b
  PROVE  /\ FailedRow(row, b) = row \/ Loose(FailedRow(row, b))
         /\ Conflicted(row) = row \/ Loose(Conflicted(row))
<1>1. row \in Row /\ \A c \in Asks : row.ledger[c] = "NEW"
  BY DEF Agrees, Inv, TypeOK, Waits
<1> QED BY <1>1, LooseDrop, DropFacts DEF FailedRow, Conflicted

LEMMA LooseRaise ==
  ASSUME OneProcessOnly, Agrees, Waits, NEW p \in Procs, ~Idle(p), Raise(p, row)
  PROVE  Waits'
<1> DEFINE d == [IdleDriver EXCEPT !.pc = "raised"]
<1>1. row \in Row /\ Loose(FailedRow(row, drv[p].submitted))
  BY ActiveRow, CalmFacts, LooseFailed
<1>2. row' = FailedRow(row, drv[p].submitted) /\ drv'[p] = d /\ stopping' = stopping
  BY CalmFacts DEF Raise, Inv, TypeOK
<1>3. d.pc = "raised"
  BY DEF IdleDriver
<1> HIDE DEF d
<1>4. Ready(drv'[p], row')
  BY <1>2, <1>3 DEF Ready
<1> QED BY <1>1, <1>2, <1>4, LooseStep

\* A driver's step that writes a row which waits for nothing.
LEMMA LooseDriver ==
  ASSUME OneProcessOnly, Agrees, Waits, NEW p \in Procs, NEW r, NEW d,
         Step(p, r, d), Loose(r), Ready(d, r)
  PROVE  Waits'
<1>1. row' = r /\ drv'[p] = d /\ stopping' = stopping
  BY CalmFacts DEF Step, Inv, TypeOK
<1> QED BY <1>1, LooseStep

-----------------------------------------------------------------------------
(* Every step keeps requests and states together.                           *)

\* A driver that saves a checkpoint and goes on with its batch or the model.
LEMMA SavedWaits ==
  ASSUME OneProcessOnly, Waits, NEW p \in Procs,
         drv[p].pc \notin {"off", "raised", "reconciled"},
         drv'[p].pc \in {"model", "batch"}, Resaved(row', row), stopping' = stopping
  PROVE  Waits'
<1>1. Loose(row) /\ row.state # "INTERRUPTED"
  BY ActiveRow DEF Idle
<1>2. Loose(row') /\ row'.state # "INTERRUPTED"
  BY <1>1, LooseSave DEF Resaved
<1>3. Ready(drv'[p], row')
  BY <1>2 DEF Ready
<1> QED BY <1>2, <1>3, LooseStep

LEMMA SamplingWaits ==
  ASSUME OneProcessOnly, Agrees, Waits, NEW p \in Procs,
         \/ AdvanceSetup(p) \/ SaveFirstCheckpoint(p)
         \/ ModelFinishes(p) \/ PartialBoundary(p) \/ ModelFails(p)
         \/ ToolBudgetExceeded(p)
  PROVE  Waits'
<1>t. row \in Row /\ drv[p] \in Driver
  BY CalmFacts
<1> USE <1>t, PcOf
<1>0. ~Idle(p) /\ Loose(row) /\ row.state # "INTERRUPTED"
  <2>1. ~Idle(p) /\ drv[p].pc # "reconciled"
    BY DEF AdvanceSetup, SaveFirstCheckpoint, ModelFinishes, PartialBoundary, ModelFails,
           ToolBudgetExceeded, DriverAt, Idle
  <2> QED BY <2>1, ActiveRow
<1>l. Loose(row)
  BY <1>0
<1>1. CASE AdvanceSetup(p)
  <2>1. CASE row.state \in DOMAIN SetupNext
    <3> DEFINE t == SetupNext[row.state]
               d == [drv[p] EXCEPT !.pc = IF t = "EXECUTING" THEN "opened" ELSE @]
    <3>1. t \notin Waiting \cup {"INTERRUPTED"}
      BY <2>1 DEF SetupNext, SetupStates, Waiting
    <3>2. Loose(Transition(row, t)) /\ Transition(row, t).state = t
      BY <1>0, <3>1, LooseMove, MoveIs
    <3>3. drv[p].pc = "setup" /\ Step(p, Transition(row, t), d)
      BY <1>1, <2>1 DEF AdvanceSetup, DriverAt
    <3>4. d.pc \in {"opened", "setup"}
      BY <3>3 DEF Driver
    <3> HIDE DEF d, t
    <3>5. Ready(d, Transition(row, t))
      BY <3>1, <3>2, <3>4 DEF Ready
    <3> QED BY <3>2, <3>3, <3>5, LooseDriver
  <2>2. CASE row.state \notin DOMAIN SetupNext
    BY <1>0, <1>1, <2>2, LooseRaise DEF AdvanceSetup
  <2> QED BY <2>1, <2>2
<1>2. CASE SaveFirstCheckpoint(p)
  <2>1. CASE row.state = "EXECUTING" /\ row.appr = None
    <3> DEFINE r == [row EXCEPT !.ckpt = Fresh, !.partial = FALSE]
    <3>1. Step(p, r, At(p, "model"))
      BY <1>2, <2>1 DEF SaveFirstCheckpoint, At
    <3>2. Resaved(r, row) /\ r.state = "EXECUTING"
      BY <2>1 DEF Row, Resaved
    <3> HIDE DEF r
    <3>l. Loose(r)
      BY <1>l, <3>2, LooseSave
    <3>3. Ready(At(p, "model"), r)
      BY <3>2 DEF Ready
    <3> QED BY <3>1, <3>l, <3>3, LooseDriver
  <2>2. CASE ~(row.state = "EXECUTING" /\ row.appr = None)
    BY <1>0, <1>2, <2>2, LooseRaise DEF SaveFirstCheckpoint
  <2> QED BY <2>1, <2>2
<1>3. CASE ModelFinishes(p)
  <2> DEFINE cleared == [row EXCEPT !.ckpt = None]
             talk == row.kind = "CONVERSATION"
             r == IF talk /\ row.state = "EXECUTING"
                  THEN Transition(cleared, "AWAITING_INPUT") ELSE cleared
             d == IF talk THEN IdleDriver ELSE At(p, "verify")
  <2>1. Loose(cleared) /\ cleared \in Row /\ cleared.state = row.state
    <3>1. Resaved(cleared, row) /\ cleared \in Row
      BY DEF Row, Resaved
    <3> HIDE DEF cleared
    <3>2. cleared.state = row.state
      BY <3>1 DEF Resaved
    <3> QED BY <1>l, <3>1, <3>2, LooseSave
  <2>2. Loose(r) /\ r.state # "INTERRUPTED"
    <3>1. Loose(Transition(cleared, "AWAITING_INPUT"))
      BY <2>1, LooseMove, DropFacts
    <3>2. Transition(cleared, "AWAITING_INPUT").state = "AWAITING_INPUT"
      BY <2>1 DEF Transition, Row
    <3> QED BY <1>0, <2>1, <3>1, <3>2
  <2>3. Step(p, r, d)
    BY <1>3 DEF ModelFinishes, At
  <2>4. d.pc \in {"off", "verify"}
    OBVIOUS
  <2> HIDE DEF r, d
  <2>5. Ready(d, r)
    BY <2>2, <2>4 DEF Ready
  <2> QED BY <2>2, <2>3, <2>5, LooseDriver
<1>4. CASE PartialBoundary(p)
  <2> DEFINE r == [row EXCEPT !.ckpt = drv[p].view, !.partial = TRUE]
  <2>1. Resaved(r, row)
    BY DEF Row, Resaved
  <2>2. Step(p, r, IdleDriver)
    BY <1>4 DEF PartialBoundary
  <2> HIDE DEF r
  <2>3. Ready(IdleDriver, r)
    BY DEF Ready
  <2> QED BY <1>l, <2>1, <2>2, <2>3, LooseSave, LooseDriver
<1>5. CASE ModelFails(p)
  <2>1. \A b \in BOOLEAN : Loose(RecordedModelFailure(b)) /\ RecordedModelFailure(b) \in Row
    <3>1. Loose(Interrupted(row)) /\ Loose(Transition(row, "FAILED"))
      BY <1>0, LooseMove, DropFacts DEF Interrupted
    <3>2. Interrupted(row) \in Row /\ Transition(row, "FAILED") \in Row
      BY TransitionType, StateFacts DEF Interrupted
    <3> QED BY <1>0, <3>1, <3>2 DEF RecordedModelFailure
  <2>2. \A b \in BOOLEAN : Loose(FailedRow(RecordedModelFailure(b), drv[p].submitted))
    BY <2>1, LooseFailed
  <2>3. PICK b \in BOOLEAN :
          \/ Step(p, RecordedModelFailure(b), IdleDriver)
          \/ Step(p, FailedRow(RecordedModelFailure(b), drv[p].submitted), IdleDriver)
    BY <1>5 DEF ModelFails
  <2>4. \A r : Ready(IdleDriver, r)
    BY DEF Ready
  <2> QED BY <2>1, <2>2, <2>3, <2>4, LooseDriver
<1>6. CASE ToolBudgetExceeded(p)
  BY <1>0, <1>6, LooseRaise DEF ToolBudgetExceeded
<1> QED BY <1>1, <1>2, <1>3, <1>4, <1>5, <1>6

LEMMA BatchWaits ==
  ASSUME OneProcessOnly, Agrees, Waits, NEW p \in Procs,
         \/ ModelProposes(p) \/ BeginCall(p) \/ GuardCall(p) \/ StopBatch(p)
         \/ RecordResult(p)
  PROVE  Waits'
<1>t. row \in Row /\ drv[p] \in Driver
  BY CalmFacts
<1>1. CASE ModelProposes(p)
  <2> DEFINE v(cs) == Mark(drv[p].view, cs, "pending")
             r(cs) == [row EXCEPT !.ckpt = v(cs), !.partial = FALSE]
  <2>0. DriverAt(p, "model")
    BY <1>1 DEF ModelProposes
  <2>1. PICK cs \in SUBSET (Calls \ used) :
          LET w == Mark(drv[p].view, cs, "pending") IN
          /\ row' = [row EXCEPT !.ckpt = w, !.partial = FALSE]
          /\ drv' = [drv EXCEPT ![p] = Continue(@, w)]
          /\ used' = used \cup cs
          /\ UNCHANGED <<phase, cancel, runs, consent, stopping>>
    BY <1>1 DEF ModelProposes
  <2>2. row' = r(cs) /\ drv'[p] = Continue(drv[p], v(cs)) /\ stopping' = stopping
    BY <2>1, CalmFacts DEF Inv, TypeOK
  <2>3. Resaved(r(cs), row)
    BY <1>t DEF Row, Resaved
  <2>4. Continue(drv[p], v(cs)).pc \in {"model", "batch"}
    BY <1>t, PcOf
  <2> HIDE DEF r, v
  <2> QED BY <2>0, <2>2, <2>3, <2>4, SavedWaits DEF DriverAt
<1>2. CASE BeginCall(p)
  <2>0. DriverAt(p, "batch")
    BY <1>2 DEF BeginCall
  <2>1. PICK c \in Calls :
          /\ c \in Pending(drv[p].view)
          /\ Step(p, [row EXCEPT !.ckpt = drv[p].view, !.partial = FALSE],
                  [drv[p] EXCEPT !.pc = "invoke", !.call = c])
    BY <1>2 DEF BeginCall
  <2> DEFINE d == [drv[p] EXCEPT !.pc = "invoke", !.call = c]
             r == [row EXCEPT !.ckpt = drv[p].view, !.partial = FALSE]
  <2>2. d.pc = "invoke" /\ d.call = c /\ d.view = drv[p].view
    BY <1>t DEF Driver
  <2>3. r.ckpt = drv[p].view /\ Resaved(r, row)
    BY <1>t DEF Row, Resaved
  <2>4. Step(p, r, d)
    BY <2>1
  <2> HIDE DEF d, r
  <2>5. Loose(row) /\ row.state # "INTERRUPTED"
    BY <2>0, ActiveRow DEF DriverAt, Idle
  <2>6. Loose(r) /\ r.state # "INTERRUPTED"
    BY <2>3, <2>5, LooseSave DEF Resaved
  <2>7. Ready(d, r)
    BY <2>1, <2>2, <2>3, <2>6 DEF Ready
  <2> QED BY <2>4, <2>6, <2>7, LooseDriver
<1>3. CASE GuardCall(p) \/ StopBatch(p) \/ RecordResult(p)
  <2>1. PICK v : /\ drv[p].pc \in {"batch", "recorded"}
                 /\ \/ Step(p, row, Continue(drv[p], v))
                    \/ Step(p, [row EXCEPT !.ckpt = v], Continue(drv[p], v))
    <3>1. CASE GuardCall(p)
      BY <3>1 DEF GuardCall, DriverAt
    <3>2. CASE StopBatch(p)
      BY <3>2 DEF StopBatch, DriverAt
    <3>3. CASE RecordResult(p)
      BY <3>3 DEF RecordResult, DriverAt
    <3> QED BY <1>3, <3>1, <3>2, <3>3
  <2> DEFINE r == [row EXCEPT !.ckpt = v]
  <2>2. PICK s \in {row, r} : Step(p, s, Continue(drv[p], v))
    BY <2>1
  <2>3. Resaved(s, row)
    BY <1>t, <2>2 DEF Row, Resaved
  <2>4. Continue(drv[p], v).pc \in {"model", "batch"}
    BY <1>t, PcOf
  <2>5. row' = s /\ drv'[p] = Continue(drv[p], v) /\ stopping' = stopping
    BY <2>2, CalmFacts DEF Step, Inv, TypeOK
  <2> HIDE DEF r
  <2> QED BY <2>1, <2>3, <2>4, <2>5, SavedWaits DEF Idle
<1> QED BY <1>1, <1>2, <1>3

\* A call that is recorded, prepared or started is not a question.
LEMMA LooseExecuted ==
  ASSUME Agrees, Loose(row), NEW c \in Calls \ Asks, NEW how
  PROVE  Loose(Executed(row, c, how)) /\ Executed(row, c, how).state = row.state
BY CalmFacts, CallAssumption DEF Loose, NoRequest, Executed, Row

LEMMA InvokingWaits ==
  ASSUME OneProcessOnly, Agrees, Waits, NEW p \in Procs,
         \/ InvokeRefused(p) \/ ReuseResult(p) \/ RecoverUnknown(p) \/ RecoverRun(p)
         \/ PolicyDenies(p) \/ Prepare(p)
         \/ PrepareApproved(p) \/ MarkRunning(p) \/ ProviderReturns(p)
         \/ VersionConflict(p)
  PROVE  Waits'
<1> USE CalmFacts, PcOf DEF DriverAt
<1> DEFINE c == drv[p].call
<1>0. ~Idle(p) /\ Loose(row) /\ row.state # "INTERRUPTED"
  <2>1. ~Idle(p) /\ drv[p].pc # "reconciled"
    BY DEF InvokeRefused, ReuseResult, RecoverUnknown, RecoverRun, PolicyDenies, Prepare,
           PrepareApproved, MarkRunning, ProviderReturns, VersionConflict, Idle
  <2> QED BY <2>1, ActiveRow
<1>a. DriverAgrees(p) /\ DriverWaits(p) /\ \A q \in Asks : row.ledger[q] = "NEW"
  BY DEF Agrees, Waits
<1>b. \A d, r : r.state = row.state /\ d.pc \in {"recorded", "prepared", "running", "rerunning"}
               => Ready(d, r)
  BY <1>0 DEF Ready
<1>1. CASE InvokeRefused(p) \/ VersionConflict(p)
  BY <1>0, <1>1, LooseRaise DEF InvokeRefused, VersionConflict
<1>2. CASE ReuseResult(p) \/ PolicyDenies(p)
  BY <1>0, <1>b, <1>2, LooseDriver DEF ReuseResult, PolicyDenies
<1>3. CASE RecoverUnknown(p)
  <2>1. c \in Calls \ Asks /\ Step(p, Executed(row, c, "UNKNOWN_OUTCOME"), At(p, "recorded"))
    BY <1>a, <1>3 DEF RecoverUnknown, DriverAgrees
  <2> QED BY <1>0, <1>b, <2>1, LooseExecuted, LooseDriver
<1>4. CASE RecoverRun(p) \/ MarkRunning(p)
  <2>1. PICK pc \in {"running", "rerunning"} : StartProvider(p, c, pc)
    BY <1>4 DEF RecoverRun, MarkRunning
  <2>2. c \in Calls \ Asks
    BY <1>a, <1>4 DEF RecoverRun, MarkRunning, DriverAgrees
  <2>3. Loose(row') /\ row'.state = row.state /\ stopping' = stopping
    BY <1>0, <2>1, <2>2, LooseExecuted DEF StartProvider
  <2>4. drv'[p].pc = pc
    BY <2>1 DEF StartProvider, Inv, TypeOK
  <2> QED BY <1>b, <2>3, <2>4, LooseStep
<1>5. CASE Prepare(p)
  <2>1. c \in Calls \ Asks /\ Step(p, Executed(row, c, "PREPARED"), At(p, "prepared"))
    BY <1>a, <1>5 DEF Prepare, DriverAgrees
  <2> QED BY <1>0, <1>b, <2>1, LooseExecuted, LooseDriver
<1>6. CASE PrepareApproved(p)
  <2> DEFINE d == [drv[p] EXCEPT !.pc = "prepared", !.snap = None]
  <2>1. d.pc = "prepared"
    BY DEF Driver
  <2>2. c \in Calls \ Asks /\ Step(p, Executed(row, c, "PREPARED"), d)
    BY <1>a, <1>6, CallAssumption DEF PrepareApproved, DriverAgrees, DriverWaits
  <2> HIDE DEF d
  <2> QED BY <1>0, <1>b, <2>1, <2>2, LooseExecuted, LooseDriver
<1>7. CASE ProviderReturns(p)
  <2>1. PICK how : Step(p, Executed(row, c, how), At(p, "recorded"))
    BY <1>7 DEF ProviderReturns
  <2>2. c \in Calls \ Asks
    BY <1>a, <1>7 DEF ProviderReturns, DriverAgrees
  <2> QED BY <1>0, <1>b, <2>1, <2>2, LooseExecuted, LooseDriver
<1> QED BY <1>1, <1>2, <1>3, <1>4, <1>5, <1>6, <1>7

\* The request is made about a call that the checkpoint just saved holds open.
LEMMA AskApprovalWaits ==
  ASSUME OneProcessOnly, Agrees, Waits, NEW p \in Procs, AskApproval(p)
  PROVE  Waits'
<1> DEFINE c == drv[p].call
           v == drv[p].view
           t == Transition(row, "AWAITING_APPROVAL")
           r == [t EXCEPT !.appr = [call |-> c, view |-> v]]
<1>1. /\ row \in Row /\ drv[p].pc = "invoke" /\ c \in Gated /\ row.ledger[c] = "NEW"
      /\ row' = r /\ drv'[p] = IdleDriver /\ stopping' = stopping
  BY CalmFacts DEF AskApproval, DriverAt, Inv, TypeOK
<1>2. row.ckpt = v /\ c \in Pending(v)
  BY <1>1 DEF Waits, DriverWaits
<1>3. Loose(row)
  BY <1>1, ActiveRow DEF Idle
<1>4. row.ckpt # None
  BY <1>1, <1>2, CalmFacts, NoneAssumption DEF Driver
<1>5. /\ t \in Row /\ t.state = "AWAITING_APPROVAL"
      /\ t.ledger = row.ledger /\ t.ckpt = row.ckpt /\ t.clar = row.clar
  <2>1. t \in Row /\ t.state = "AWAITING_APPROVAL"
    BY <1>1, TransitionType, StateFacts
  <2>2. ~DropsPending("AWAITING_APPROVAL") /\ ~DropsCheckpoint("AWAITING_APPROVAL")
    BY DEF DropsPending, DropsCheckpoint, TerminalStates
  <2>3. t.ledger = row.ledger /\ t.ckpt = row.ckpt /\ t.clar = row.clar
    BY <1>1, <2>2 DEF Transition, Row
  <2> QED BY <2>1, <2>3
<1> HIDE DEF t
<1>6. /\ r.state = "AWAITING_APPROVAL" /\ r.ledger = row.ledger /\ r.ckpt = v
      /\ r.clar = row.clar /\ r.appr.call = c /\ r.appr.view = v
  BY <1>2, <1>5 DEF Row
<1> HIDE DEF r, c, v
<1>7. \A q \in Procs : DriverWaits(q)'
  <2>1. TAKE q \in Procs
  <2>2. q = p
    BY DEF OneProcessOnly
  <2> QED BY <1>1, <1>6, <2>2, PcOf DEF DriverWaits, Idle
<1>8. ~stopping => RequestsOpen(row')
  BY <1>1, <1>2, <1>3, <1>4, <1>6 DEF Loose, NoRequest, RequestsOpen, StillOpen
<1> QED BY <1>1, <1>2, <1>3, <1>6, <1>7, <1>8 DEF Waits, Loose

\* A question is put with its checkpoint, in which its call is open.
LEMMA AskUserWaits ==
  ASSUME OneProcessOnly, Agrees, Waits, NEW p \in Procs, AskUser(p)
  PROVE  Waits'
<1> DEFINE c == drv[p].call
           v == drv[p].view
           t == Transition(row, "AWAITING_USER")
           r == [t EXCEPT !.clar = c, !.ckpt = v]
<1>1. /\ row \in Row /\ drv[p].pc = "invoke" /\ c \in Asks /\ row.appr = None
      /\ row' = r /\ drv'[p] = IdleDriver /\ stopping' = stopping
  BY CalmFacts DEF AskUser, DriverAt, Step, Inv, TypeOK
<1>2. c \in Pending(v) /\ row.ledger[c] = "NEW"
  BY <1>1 DEF Waits, DriverWaits
<1>3. Loose(row)
  BY <1>1, ActiveRow DEF Idle
<1>4. v # None
  BY CalmFacts, NoneAssumption DEF Driver
<1>5. t \in Row /\ t.state = "AWAITING_USER" /\ t.ledger = row.ledger /\ t.appr = None
  <2>1. t \in Row /\ t.state = "AWAITING_USER"
    BY <1>1, TransitionType, StateFacts
  <2>2. t.ledger = row.ledger
    BY <1>1 DEF Transition, Row
  <2>3. t.appr = None
    BY <1>1 DEF Transition, Row
  <2> QED BY <2>1, <2>2, <2>3
<1> HIDE DEF t
<1>6. /\ r.state = "AWAITING_USER" /\ r.ledger = row.ledger /\ r.ckpt = v
      /\ r.clar = c /\ r.appr = None
  BY <1>5 DEF Row
<1> HIDE DEF r, c, v
<1>7. \A q \in Procs : DriverWaits(q)'
  <2>1. TAKE q \in Procs
  <2>2. q = p
    BY DEF OneProcessOnly
  <2> QED BY <1>1, <1>6, <2>2, PcOf DEF DriverWaits, Idle
<1>8. RequestsOpen(row')
  BY <1>1, <1>2, <1>4, <1>6 DEF RequestsOpen, StillOpen
<1>9. v[c] = "pending"
  BY <1>2 DEF Pending
<1> QED BY <1>1, <1>3, <1>4, <1>6, <1>7, <1>8, <1>9 DEF Waits, Loose

LEMMA FinishingWaits ==
  ASSUME OneProcessOnly, Agrees, Waits, NEW p \in Procs,
         \/ CompleteVerify(p) \/ CompleteFinalize(p) \/ CompleteSucceed(p)
         \/ ResumeOpen(p) \/ ResumeSave(p)
  PROVE  Waits'
<1>t. row \in Row /\ drv[p] \in Driver
  BY CalmFacts
<1>0. ~Idle(p) /\ Loose(row) /\ (drv[p].pc # "reconciled" => row.state # "INTERRUPTED")
  <2>1. drv[p].pc \in {"verify", "finalize", "succeed", "reconciled", "resuming"}
    BY DEF CompleteVerify, CompleteFinalize, CompleteSucceed, CompleteHop, ResumeOpen,
           ResumeSave, DriverAt
  <2> QED BY <2>1, ActiveRow DEF Idle
<1>m. \A t \in {"VERIFYING", "FINALIZING", "SUCCEEDED", "EXECUTING"} :
        Loose(Transition(row, t)) /\ Transition(row, t).state = t
  BY <1>t, <1>0, LooseMove, MoveIs, DropFacts
<1>r. \A r : \A d \in {IdleDriver, At(p, "finalize"), At(p, "succeed"), At(p, "resuming")} :
        r.state # "INTERRUPTED" => Ready(d, r)
  BY PcOf DEF Ready
<1>1. CASE CompleteVerify(p) \/ CompleteFinalize(p) \/ CompleteSucceed(p)
  <2>1. \/ Raise(p, row)
        \/ \E t \in {"VERIFYING", "FINALIZING", "SUCCEEDED"} :
             \E d \in {IdleDriver, At(p, "finalize"), At(p, "succeed")} :
               Step(p, Transition(row, t), d)
    BY <1>1 DEF CompleteVerify, CompleteFinalize, CompleteSucceed, CompleteHop
  <2>2. CASE Raise(p, row)
    BY <1>0, <2>2, LooseRaise
  <2>3. ASSUME NEW t \in {"VERIFYING", "FINALIZING", "SUCCEEDED"},
               NEW d \in {IdleDriver, At(p, "finalize"), At(p, "succeed")},
               Step(p, Transition(row, t), d)
        PROVE  Waits'
    <3>1. Loose(Transition(row, t)) /\ Ready(d, Transition(row, t))
      BY <1>m, <1>r
    <3> QED BY <2>3, <3>1, LooseDriver
  <2> QED BY <2>1, <2>2, <2>3
<1>2. CASE ResumeOpen(p)
  <2>1. \/ Raise(p, row)
        \/ Step(p, Transition(row, "EXECUTING"), At(p, "resuming"))
    BY <1>2 DEF ResumeOpen
  <2>2. Loose(Transition(row, "EXECUTING")) /\ Ready(At(p, "resuming"), Transition(row, "EXECUTING"))
    BY <1>m, <1>r
  <2> QED BY <1>0, <2>1, <2>2, LooseRaise, LooseDriver
<1>3. CASE ResumeSave(p)
  <2> DEFINE d == [drv[p] EXCEPT !.recover = TRUE]
             r == [row EXCEPT !.ckpt = drv[p].view, !.partial = FALSE]
  <2>1. DriverAt(p, "resuming") /\ Step(p, r, Continue(d, drv[p].view))
    BY <1>3 DEF ResumeSave
  <2>2. d \in Driver
    BY <1>t DEF Driver
  <2>3. Continue(d, drv[p].view).pc \in {"model", "batch"}
    BY <2>2, PcOf
  <2>4. Resaved(r, row)
    BY <1>t DEF Row, Resaved
  <2> HIDE DEF r, d
  <2>5. row' = r /\ drv'[p] = Continue(d, drv[p].view) /\ stopping' = stopping
    BY <2>1, CalmFacts DEF Step, Inv, TypeOK
  <2> QED BY <2>1, <2>3, <2>4, <2>5, SavedWaits DEF DriverAt
<1> QED BY <1>1, <1>2, <1>3

\* An approval or an answer drops the one request the Task had.
LEMMA DecidedWaits ==
  ASSUME OneProcessOnly, Agrees, Waits, NEW p \in Procs,
         ResolveApproval(p) \/ AnswerUser(p) \/ SupersedeApproval(p)
  PROVE  Waits'
<1>t. row \in Row /\ drv[p] \in Driver /\ Inv /\ \A c \in Asks : row.ledger[c] = "NEW"
  BY CalmFacts DEF Waits
<1> DEFINE t == Transition(row, "EXECUTING")
<1>m. /\ t \in Row /\ t.state = "EXECUTING" /\ t.ledger = row.ledger
      /\ row.appr = None => t.appr = None
      /\ row.clar = None => t.clar = None
  <2>1. t \in Row /\ t.state = "EXECUTING"
    BY <1>t, TransitionType, StateFacts
  <2>2. t.ledger = row.ledger /\ (row.appr = None => t.appr = None)
        /\ (row.clar = None => t.clar = None)
    BY <1>t DEF Transition, Row
  <2> QED BY <2>1, <2>2
<1>n. /\ row.state = "AWAITING_APPROVAL" => row.appr # None
      /\ row.state = "AWAITING_USER" => row.clar # None
      /\ stopping \/ row.appr = None \/ row.clar = None
  BY <1>t DEF Inv, Present, Waits, RequestsOpen
<1> HIDE DEF t
<1>a. \A w : row.state = "AWAITING_APPROVAL" =>
        LET r == [t EXCEPT !.appr = None, !.ckpt = w] IN
        r.state = "EXECUTING" /\ r.ledger = row.ledger /\ (stopping \/ NoRequest(r))
  BY <1>m, <1>n DEF NoRequest, Row
<1>b. \A w : row.state = "AWAITING_USER" =>
        LET r == [t EXCEPT !.clar = None, !.ckpt = w] IN
        r.state = "EXECUTING" /\ r.ledger = row.ledger /\ (stopping \/ NoRequest(r))
  BY <1>m, <1>n DEF NoRequest, Row
<1>c. \A r : r.state = "EXECUTING" /\ r.ledger = row.ledger /\ (stopping \/ NoRequest(r))
               => Loose(r)
  BY <1>t, DropFacts DEF Loose
<1>1. CASE ResolveApproval(p)
  <2> DEFINE c == row.appr.call
             v == row.appr.view
             r == [t EXCEPT !.appr = None, !.ckpt = v]
             n == NewDriver("approved", v, FALSE)
  <2>1. PICK decision \in {"approved", "denied"} :
          /\ row.state = "AWAITING_APPROVAL"
          /\ row' = r /\ stopping' = stopping
          /\ drv' = [drv EXCEPT ![p] = Decided(n, r, c, decision)]
    BY <1>1 DEF ResolveApproval, t
  <2>2. c \in Gated /\ v \in View
    BY <1>t, <2>1, RequestFacts DEF Waits
  <2>3. n \in Driver /\ n.pc = "approved"
    BY <2>2 DEF NewDriver, IdleDriver, Driver, Pc
  <2>4. drv'[p] = Decided(n, r, c, decision)
    BY <1>t, <2>1 DEF Inv, TypeOK
  <2>5. Loose(row') /\ row'.state = "EXECUTING"
    BY <1>a, <1>c, <2>1
  <2> HIDE DEF r, n, c, v
  <2>6. drv'[p].pc \in {"model", "batch"} \/ (drv'[p].call = c /\ drv'[p].pc # "invoke")
    <3>1. CASE decision = "approved"
      <4>1. drv'[p] = [n EXCEPT !.call = c, !.approval = TRUE, !.snap = r]
        BY <2>4, <3>1 DEF Decided
      <4> QED BY <2>3, <4>1 DEF Driver
    <3>2. CASE decision # "approved"
      BY <2>3, <2>4, <3>2, PcOf DEF Decided
    <3> QED BY <3>1, <3>2
  <2>7. Ready(drv'[p], row')
    BY <2>2, <2>5, <2>6 DEF Ready
  <2> QED BY <2>1, <2>5, <2>7, LooseStep
<1>2. CASE AnswerUser(p)
  <2> DEFINE v == Mark(row.ckpt, {row.clar}, "answered")
             r == [t EXCEPT !.clar = None, !.ckpt = v]
             d == NewDriver("batch", v, FALSE)
  <2>1. row.state = "AWAITING_USER" /\ row.ckpt # None /\ Step(p, r, Continue(d, v))
    BY <1>2 DEF AnswerUser, t
  <2>2. v \in View
    BY <1>t, <2>1, MarkType DEF Row, CallView
  <2>3. d \in Driver
    BY <2>2 DEF NewDriver, IdleDriver, Driver, Pc
  <2>4. Continue(d, v).pc \in {"model", "batch"}
    BY <2>3, PcOf
  <2>5. Loose(r) /\ r.state = "EXECUTING"
    BY <1>b, <1>c, <2>1
  <2> HIDE DEF r, d, v
  <2>6. Ready(Continue(d, v), r)
    BY <2>4, <2>5 DEF Ready
  <2> QED BY <2>1, <2>5, <2>6, LooseDriver
<1>3. CASE SupersedeApproval(p)
  <2> DEFINE v == Mark(row.ckpt, Pending(row.ckpt), "declined")
             r == [t EXCEPT !.appr = None, !.ckpt = v]
  <2>1. row.state = "AWAITING_APPROVAL" /\ row' = r /\ UNCHANGED <<drv, stopping>>
    BY <1>3 DEF SupersedeApproval, t
  <2>2. Loose(r)
    BY <1>a, <1>c, <2>1
  <2>3. Idle(p)
    BY <2>1 DEF Waits, DriverWaits, Waiting
  <2> HIDE DEF r
  <2> QED BY <2>1, <2>2, <2>3, HandlerWaits
<1> QED BY <1>1, <1>2, <1>3

LEMMA UserWaits ==
  ASSUME OneProcessOnly, Agrees, Waits, NEW p \in Procs,
         \/ StartTurn(p) \/ FreshTurn(p) \/ SupersedeConversation(p)
         \/ ApprovalConflict(p)
  PROVE  Waits'
<1>t. row \in Row /\ drv[p] \in Driver /\ \A c \in Asks : row.ledger[c] = "NEW"
  BY CalmFacts DEF Waits
<1>i. Idle(p)
  BY DEF StartTurn, FreshTurn, SupersedeConversation, ApprovalConflict
<1> DEFINE opened == NewDriver("opened", Fresh, TRUE)
<1>p. opened.pc = "opened"
  BY PcOf
<1> HIDE DEF opened
<1>o. \A r : r.state # "INTERRUPTED" => Ready(opened, r) /\ Ready(drv[p], r)
  BY <1>i, <1>p DEF Ready, Idle
<1>1. CASE StartTurn(p)
  <2>1. row.state = "AWAITING_INPUT"
    BY <1>1 DEF StartTurn
  <2>2. Loose(row)
    BY <2>1, LooseRow, DropFacts
  <2>3. \/ Step(p, Transition(row, "EXECUTING"), opened)
        \/ Step(p, FailedRow(row, TRUE), drv[p])
    BY <1>1 DEF StartTurn, opened
  <2>4. Loose(Transition(row, "EXECUTING")) /\ Transition(row, "EXECUTING").state = "EXECUTING"
    BY <1>t, <2>2, LooseMove, MoveIs, DropFacts
  <2>5. Loose(FailedRow(row, TRUE)) /\ FailedRow(row, TRUE).state # "INTERRUPTED"
    <3>1. Loose(FailedRow(row, TRUE))
      BY <1>t, <2>2, LooseFailed
    <3>2. FailedRow(row, TRUE).state \in {"AWAITING_INPUT", "FAILED"}
      BY <1>t, <2>1, MoveIs DEF FailedRow
    <3> QED BY <3>1, <3>2
  <2> QED BY <1>o, <2>3, <2>4, <2>5, LooseDriver
<1>2. CASE FreshTurn(p)
  <2> DEFINE t == Transition(row, "EXECUTING")
             r == [t EXCEPT !.appr = None, !.clar = None, !.ckpt = None]
  <2>1. Step(p, r, opened)
    BY <1>2 DEF FreshTurn, opened
  <2>2. t \in Row /\ t.state = "EXECUTING"
    BY <1>t, TransitionType, StateFacts
  <2>3. t.ledger = row.ledger
    BY <1>t DEF Transition, Row
  <2> HIDE DEF t
  <2>4. r.state = "EXECUTING" /\ r.ledger = row.ledger /\ NoRequest(r)
    BY <2>2, <2>3 DEF Row, NoRequest
  <2> HIDE DEF r
  <2>5. Loose(r) /\ Ready(opened, r)
    BY <1>t, <1>o, <2>4, DropFacts DEF Loose
  <2> QED BY <2>1, <2>5, LooseDriver
<1>3. CASE SupersedeConversation(p)
  <2>1. row.state = "AWAITING_INPUT" /\ Step(p, Transition(row, "SUCCEEDED"), drv[p])
    BY <1>3 DEF SupersedeConversation
  <2>2. Loose(Transition(row, "SUCCEEDED")) /\ Ready(drv[p], Transition(row, "SUCCEEDED"))
    BY <1>t, <1>o, LooseDrop, MoveIs, DropFacts
  <2> QED BY <2>1, <2>2, LooseDriver
<1>4. CASE ApprovalConflict(p)
  <2>1. row' = Conflicted(row) /\ UNCHANGED <<drv, stopping>>
    BY <1>4 DEF ApprovalConflict
  <2>2. row' = row \/ Loose(row')
    BY <2>1, RowOrLoose
  <2> QED BY <1>i, <2>1, <2>2, HandlerWaits
<1> QED BY <1>1, <1>2, <1>3, <1>4

\* An interrupt keeps the request, and the checkpoint that holds its call open.
LEMMA InterruptWaits ==
  ASSUME OneProcessOnly, Agrees, Waits, NEW p \in Procs, Interrupt(p)
  PROVE  Waits'
<1> DEFINE r == Transition(row, "INTERRUPTED")
<1>1. /\ row \in Row /\ row' = r /\ drv'[p] = IdleDriver /\ stopping' = stopping
      /\ row.state \in {"EXECUTING", "AWAITING_APPROVAL", "AWAITING_USER"}
  BY CalmFacts DEF Interrupt, Interrupted, Step, Inv, TypeOK
<1>2. /\ r.state = "INTERRUPTED" /\ r.appr = row.appr /\ r.clar = row.clar
      /\ r.ckpt = row.ckpt /\ r.ledger = row.ledger
  <2>1. ~DropsPending("INTERRUPTED") /\ ~DropsCheckpoint("INTERRUPTED")
    BY DEF DropsPending, DropsCheckpoint, TerminalStates
  <2> QED BY <1>1, <2>1 DEF Transition, Row
<1> HIDE DEF r
<1>3. \A q \in Procs : DriverWaits(q)'
  <2>1. TAKE q \in Procs
  <2>2. q = p
    BY DEF OneProcessOnly
  <2> QED BY <1>1, <1>2, <2>2, PcOf DEF DriverWaits, Idle, Waiting
<1>4. ~stopping => RequestsOpen(row')
  BY <1>1, <1>2 DEF Waits, RequestsOpen, StillOpen
<1> QED BY <1>1, <1>2, <1>3, <1>4 DEF Waits

\* A cancellation may close the calls of a waiting Task, whose request then
\* stands for a call that was told it never started.
LEMMA CancelWaits ==
  ASSUME OneProcessOnly, Agrees, Waits, NEW p \in Procs,
         CancelBegin(p) \/ CancelCommit(p) \/ CancelDone(p)
  PROVE  Waits'
<1>t. row \in Row /\ \A c \in Asks : row.ledger[c] = "NEW"
  BY CalmFacts DEF Waits
<1>1. CASE CancelBegin(p)
  <2> DEFINE v == Mark(row.ckpt, Pending(row.ckpt), "cancelled")
             r == [row EXCEPT !.ckpt = v]
  <2>1. /\ row' = SettledForCancel(row) /\ UNCHANGED drv /\ stopping' = TRUE
        /\ Free(p)
    BY <1>1 DEF CancelBegin
  <2>2. /\ row'.state = row.state /\ row'.ledger = row.ledger
        /\ row'.appr = row.appr /\ row'.clar = row.clar
        /\ row'.ckpt = row.ckpt \/ (row.ckpt # None /\ row'.ckpt = v)
    <3>1. row' = row \/ (row.ckpt # None /\ row' = r)
      BY <2>1 DEF SettledForCancel
    <3> HIDE DEF v
    <3> QED BY <1>t, <3>1 DEF Row
  <2>3. drv[p].pc \notin {"invoke", "approved", "reconciled"}
    BY <2>1 DEF Free, Suspended, Idle
  <2>4. \A q \in Procs : DriverWaits(q)'
    <3>1. TAKE q \in Procs
    <3>2. q = p
      BY DEF OneProcessOnly
    <3> QED BY <2>1, <2>2, <2>3, <3>2 DEF Waits, DriverWaits, Idle
  <2>5. row'.state = "AWAITING_USER" =>
          row'.ckpt # None /\ row'.ckpt[row'.clar] \in {"pending", "cancelled"}
    <3> SUFFICES ASSUME row.state = "AWAITING_USER"
                 PROVE  row'.ckpt # None /\ row'.ckpt[row'.clar] \in {"pending", "cancelled"}
      BY <2>2
    <3>1. /\ row.clar \in Calls /\ row.ckpt \in View
          /\ row.ckpt[row.clar] \in {"pending", "cancelled"}
      BY <1>t, CallAssumption DEF Waits, Row
    <3>2. v \in View /\ v[row.clar] \in {"pending", "cancelled"}
      <4>1. v \in View
        BY <3>1, MarkType DEF CallView
      <4>2. v[row.clar] \in {"pending", "cancelled"}
        BY <3>1 DEF Mark, Pending
      <4> QED BY <4>1, <4>2
    <3> HIDE DEF v
    <3> QED BY <2>2, <3>1, <3>2, NoneAssumption
  <2> HIDE DEF r, v
  <2> QED BY <2>1, <2>2, <2>4, <2>5 DEF Waits
<1>2. CASE CancelCommit(p)
  <2>2. row' = row \/ row' = Transition(row, "CANCELLED")
    BY <1>2 DEF CancelCommit
  <2>3. UNCHANGED <<drv, stopping>> /\ Free(p)
    BY <1>2 DEF CancelCommit
  <2>4. CASE row' = row
    BY <2>3, <2>4, SameRow
  <2>5. CASE row' = Transition(row, "CANCELLED")
    <3>1. Loose(row') /\ row'.state = "CANCELLED"
      BY <1>t, <2>5, LooseDrop, MoveIs, DropFacts
    <3>2. Ready(drv'[p], row')
      BY <2>3, <3>1 DEF Ready, Free, Suspended, Idle
    <3> QED BY <2>3, <3>1, <3>2, LooseStep
  <2> QED BY <2>2, <2>4, <2>5
<1>3. CASE CancelDone(p)
  <2>1. drv'[p] = IdleDriver /\ UNCHANGED <<row, stopping>>
    BY <1>3, CalmFacts DEF CancelDone, Inv, TypeOK
  <2> QED BY <2>1, PcOf, SameRow
<1> QED BY <1>1, <1>2, <1>3

\* A checkpoint that may be continued holds open no call without a record: the
\* step on which a running Task's freedom of old requests rests.
LEMMA ContinuedIsSettled ==
  ASSUME NEW v \in View, NEW drift
  PROVE  /\ AllPendingSettled(row, v) => \A c \in Pending(v) : row.ledger[c] # "NEW"
         /\ Compatibility(row, v, drift) = "REBASE_REQUIRED" => Pending(v) = {}
<1>1. AllPendingSettled(row, v) => \A c \in Pending(v) : row.ledger[c] # "NEW"
  BY DEF AllPendingSettled, Settled
<1>2. Compatibility(row, v, drift) = "REBASE_REQUIRED" => Pending(v) = {}
  BY DEF Compatibility
<1> QED BY <1>1, <1>2

LEMMA ResumeWaits ==
  ASSUME OneProcessOnly, Agrees, Waits, NEW p \in Procs,
         \/ ResumeReconciled(p) \/ ResumeUnchanged(p)
         \/ ResumeConflict(p) \/ ResumeRefused(p)
  PROVE  Waits'
<1>t. row \in Row /\ \A c \in Asks : row.ledger[c] = "NEW"
  BY CalmFacts DEF Waits
<1>i. Idle(p) /\ row.state \notin Waiting
  BY DEF ResumeReconciled, ResumeUnchanged, ResumeConflict, ResumeRefused, MayContinue,
         Waiting
<1>r. \A v, b, r : r.state = row.state => Ready(Reconciled(v, b), r)
  <2> TAKE v, b, r
  <2>1. Reconciled(v, b).pc = IF row.state = "EXECUTING" THEN "resuming" ELSE "reconciled"
    BY DEF Reconciled, NewDriver, IdleDriver
  <2> QED BY <2>1 DEF Ready
<1>1. CASE ResumeReconciled(p)
  <2>1. PICK v, b : /\ Step(p, [row EXCEPT !.ckpt = v], Reconciled(v, b))
                    /\ row.ckpt # None /\ AllPendingSettled(row, row.ckpt)
    BY <1>1 DEF ResumeReconciled
  <2> DEFINE r == [row EXCEPT !.ckpt = v]
  <2>2. Loose(row)
    BY <1>t, <1>i, <2>1, ContinuedIsSettled, InterruptedRow DEF Row
  <2>3. Resaved(r, row)
    BY <1>t DEF Row, Resaved
  <2>4. Step(p, r, Reconciled(v, b))
    BY <2>1
  <2> HIDE DEF r
  <2>5. Ready(Reconciled(v, b), r)
    BY <1>r, <2>3 DEF Resaved
  <2> QED BY <2>2, <2>3, <2>4, <2>5, LooseSave, LooseDriver
<1>2. CASE ResumeUnchanged(p)
  <2>1. PICK drift, b : /\ Step(p, row, Reconciled(row.ckpt, b)) /\ row.ckpt # None
                        /\ \/ row.state # "INTERRUPTED"
                           \/ Compatibility(row, row.ckpt, drift) = "REBASE_REQUIRED"
    BY <1>2 DEF ResumeUnchanged
  <2>2. Loose(row)
    <3>1. CASE row.state # "INTERRUPTED"
      BY <1>i, <3>1, LooseRow
    <3>2. CASE Compatibility(row, row.ckpt, drift) = "REBASE_REQUIRED"
      <4>1. Pending(row.ckpt) = {}
        BY <1>t, <2>1, <3>2, ContinuedIsSettled DEF Row
      <4> QED BY <1>i, <4>1, InterruptedRow
    <3> QED BY <2>1, <3>1, <3>2
  <2> QED BY <1>r, <2>1, <2>2, LooseDriver
<1>3. CASE ResumeConflict(p)
  <2>1. PICK b : row' = FailedRow(Conflicted(row), b) /\ UNCHANGED <<drv, stopping>>
    BY <1>3 DEF ResumeConflict
  <2>2. row' = row \/ Loose(row')
    <3>1. Conflicted(row) \in Row
      BY ConflictedGood, CalmFacts, InvFacts DEF GoodRow
    <3>2. CASE Conflicted(row) = row
      BY <2>1, <3>2, RowOrLoose
    <3>3. CASE Loose(Conflicted(row))
      BY <2>1, <3>1, <3>3, LooseFailed
    <3> QED BY <3>2, <3>3, RowOrLoose
  <2> QED BY <1>i, <2>1, <2>2, HandlerWaits
<1>4. CASE ResumeRefused(p)
  <2>1. row' = FailedRow(row, TRUE) /\ UNCHANGED <<drv, stopping>>
    BY <1>4 DEF ResumeRefused
  <2> QED BY <1>i, <2>1, RowOrLoose, HandlerWaits
<1> QED BY <1>1, <1>2, <1>3, <1>4

LEMMA SettleWaits ==
  ASSUME OneProcessOnly, Agrees, Waits, NEW p \in Procs,
         SettleStep(p) \/ EndSettling(p) \/ BeginSettling(p) \/ Crash(p)
  PROVE  Waits'
<1>1. CASE SettleStep(p)
  <2>1. Idle(p) /\ UNCHANGED <<drv, stopping>> /\ row.state \in OrphanClaims
    BY <1>1 DEF SettleStep, Agrees, DriverAgrees
  <2>2. PICK t \in {"INTERRUPTED", "EXECUTING", "SUCCEEDED", "CANCELLED"} :
          row' = Transition(row, t)
    BY <1>1 DEF SettleStep, Interrupted
  <2>3. Loose(row)
    BY <2>1, LooseRow DEF OrphanClaims, Waiting
  <2>4. Loose(row')
    BY <2>2, <2>3, CalmFacts, LooseMove, DropFacts
  <2> QED BY <2>1, <2>4, HandlerWaits
<1>2. CASE EndSettling(p) \/ BeginSettling(p)
  BY <1>2, SameRow DEF EndSettling, BeginSettling
<1>3. CASE Crash(p)
  <2>1. drv'[p] = IdleDriver /\ UNCHANGED <<row, stopping>>
    BY <1>3, CalmFacts DEF Crash, Inv, TypeOK
  <2> QED BY <2>1, PcOf, SameRow
<1> QED BY <1>1, <1>2, <1>3

-----------------------------------------------------------------------------
LEMMA InitWaits == Init => Waits
<1> SUFFICES ASSUME Init PROVE Waits
  OBVIOUS
<1>1. /\ row.state = "CREATED" /\ row.appr = None /\ row.clar = None
      /\ \A c \in Calls : row.ledger[c] = "NEW"
  BY DEF Init, NewRow
<1>2. \A p \in Procs : drv[p].pc \in {"setup", "off"}
  BY DEF Init, NewDriver, IdleDriver
<1> QED BY <1>1, <1>2, CallAssumption DEF Waits, DriverWaits, RequestsOpen, Waiting

LEMMA NextWaits ==
  ASSUME OneProcessOnly, Agrees, Waits, [Next]_vars
  PROVE  Waits'
<1>1. CASE UNCHANGED vars
  BY <1>1 DEF vars, Waits, DriverWaits, Idle
<1>2. ASSUME NEW p \in Procs, DriverStep(p) PROVE Waits'
  BY <1>2, SamplingWaits, BatchWaits, InvokingWaits, AskApprovalWaits, AskUserWaits,
     FinishingWaits DEF DriverStep
<1>3. ASSUME NEW p \in Procs, UserStep(p) PROVE Waits'
  BY <1>3, UserWaits, DecidedWaits, InterruptWaits, CancelWaits, ResumeWaits DEF UserStep
<1>4. ASSUME NEW p \in Procs,
             CancelStep(p) \/ SettlingStep(p) \/ BeginSettling(p) \/ Crash(p)
      PROVE  Waits'
  BY <1>4, CancelWaits, SettleWaits DEF CancelStep, SettlingStep
<1> QED BY <1>1, <1>2, <1>3, <1>4 DEF Next

LEMMA RequestsFit ==
  ASSUME Agrees, Waits
  PROVE  RequestMatchesState
<1>1. row.state = "AWAITING_APPROVAL" =>
        row.appr # None /\ row.appr.call \in Pending(row.appr.view)
        /\ row.ledger[row.appr.call] = "NEW"
  BY DEF Agrees, Inv, Present, Waits
<1>2. row.state = "AWAITING_USER" =>
        row.clar # None /\ row.ckpt # None /\ row.ckpt[row.clar] \in {"pending", "cancelled"}
  BY DEF Agrees, Inv, Present, Waits
<1>3. ~stopping => /\ row.appr = None \/ row.clar = None
                   /\ row.state \in {"EXECUTING", "AWAITING_INPUT", "VERIFYING", "FINALIZING"}
                        => row.appr = None /\ row.clar = None
  BY DEF Waits, RequestsOpen
<1> QED BY <1>1, <1>2, <1>3 DEF RequestMatchesState

\* RequestMatchesState with one process: a Task that waits has the request it
\* waits for, about a call its checkpoint holds open, and until a cancellation a
\* running or idle Task has none, although an interrupt keeps requests and a
\* resume drops none (request_approval, resolve_agent_clarification,
\* SDKRuntime.interrupt, resume_checkpoint).
THEOREM RequestsMatchStates ==
  ASSUME OneProcessOnly
  PROVE  Spec => []RequestMatchesState
<1>1. Agrees /\ Waits /\ [Next]_vars => Waits'
  BY NextWaits
<1>2. Spec => []Agrees
  BY AgreesAlways, PTL
<1>3. Agrees /\ Waits => RequestMatchesState
  BY RequestsFit
<1> QED BY <1>1, <1>2, <1>3, InitWaits, PTL DEF Spec
-----------------------------------------------------------------------------
(***************************************************************************)
(* Whatever was begun goes towards its end, for every set of processes.    *)
(* The driver of a Turn always has a step to take, and each of its steps   *)
(* brings it nearer the end of the Turn: a call identity is used up, a     *)
(* pending call is answered, or the call in hand or the setup moves on.    *)
(* What makes an answer count is that the call in hand is one of the       *)
(* pending ones, also when it came back from an approval: the request      *)
(* carries the checkpoint that holds its call open.  And a cancellation is *)
(* over only with the Task, because no commit leaves the row in RESUMING,  *)
(* the one state that ends nothing and cannot be cancelled.                *)
(***************************************************************************)

\* The states a commit leaves the row in once the Task is set up.
Reached == {"EXECUTING", "AWAITING_INPUT", "AWAITING_APPROVAL", "AWAITING_USER", "INTERRUPTED",
            "CONFLICT", "VERIFYING", "FINALIZING", "SUCCEEDED", "CANCELLED", "FAILED"}

\* Where a driver has a call in hand.
InHandPcs == {"invoke", "approved", "prepared", "running", "rerunning", "recorded"}

AsksForOpenCall(r) == r.appr # None => r.appr.call \in Pending(r.appr.view)

HoldsOpenCall(d) ==
  /\ d.pc \in InHandPcs => d.call \in Pending(d.view)
  /\ d.pc = "approved" => d.snap.appr = None

Held ==
  /\ Inv
  /\ AsksForOpenCall(row)
  /\ row.state \in Reached \cup DOMAIN SetupNext
  /\ \A p \in Procs : /\ HoldsOpenCall(drv[p])
                      /\ phase[p] # "up" => Idle(p)

\* How far a driver has come with what it has in hand.
Stage(pc) ==
  CASE pc = "reconciled" -> 0 [] pc = "resuming" -> 1 [] pc = "setup" -> 2
    [] pc = "opened" -> 3 [] pc = "batch" -> 4 [] pc \in {"invoke", "approved"} -> 5
    [] pc = "prepared" -> 6 [] pc \in {"running", "rerunning"} -> 7 [] pc = "recorded" -> 8
    [] pc = "model" -> 9 [] pc = "verify" -> 10 [] pc = "finalize" -> 11
    [] pc = "succeed" -> 12 [] OTHER -> 13

SetupStage(s) ==
  CASE s = "CREATED" -> 0 [] s = "INTAKE" -> 1 [] s = "RESOLVING_PROJECT" -> 2
    [] s = "SELECTING_EXTENSIONS" -> 3 [] s = "ROUTING" -> 4 [] OTHER -> 5

\* Driver e has no more to do than driver d had, or less.
NotBehind(d, e) ==
  /\ Pending(e.view) \subseteq Pending(d.view)
  /\ Pending(e.view) = Pending(d.view) => Stage(e.pc) >= Stage(d.pc)
Closer(d, e) ==
  /\ Pending(e.view) \subseteq Pending(d.view)
  /\ Pending(e.view) = Pending(d.view) => Stage(e.pc) > Stage(d.pc)

\* The Turn of p has not been set back by this step ...
NotSetBack(p) ==
  /\ used \subseteq used'
  /\ used' = used => NotBehind(drv[p], drv'[p])
  /\ SetupStage(row'.state) >= SetupStage(row.state)

\* ... and has been brought nearer its end.
Nearer(p) ==
  \/ used' # used
  \/ Closer(drv[p], drv'[p])
  \/ NotBehind(drv[p], drv'[p]) /\ SetupStage(row'.state) > SetupStage(row.state)

\* A row a step may commit.
MayCommit(r) ==
  /\ AsksForOpenCall(r)
  /\ r.state \in Reached \cup DOMAIN SetupNext
  /\ SetupStage(r.state) >= SetupStage(row.state)

-----------------------------------------------------------------------------
(* Rows.                                                                    *)

LEMMA StageFacts ==
  /\ \A pc : Stage(pc) \in 0..13
  /\ \A s : SetupStage(s) \in 0..5
  /\ \A s \in Reached : SetupStage(s) = 5 /\ s \in TaskState
<1>1. \A pc : Stage(pc) \in 0..13
  BY DEF Stage
<1>2. \A s : SetupStage(s) \in 0..5
  BY DEF SetupStage
<1>3. \A s \in Reached : SetupStage(s) = 5
  BY DEF Reached, SetupStage
<1>4. \A s \in Reached : s \in TaskState
  BY DEF Reached, TaskState, SetupStates, RunningStates, AwaitingStates, TerminalStates
<1> QED BY <1>1, <1>2, <1>3, <1>4

LEMMA CommitsRow ==
  ASSUME Held
  PROVE  MayCommit(row)
BY StageFacts DEF Held, MayCommit

LEMMA CommitsMove ==
  ASSUME Held, NEW r \in Row, AsksForOpenCall(r), NEW t \in Reached
  PROVE  /\ Transition(r, t) \in Row
         /\ Transition(r, t).state = t
         /\ MayCommit(Transition(r, t))
<1> DEFINE m == Transition(r, t)
<1>1. t \in TaskState /\ SetupStage(t) = 5 /\ SetupStage(row.state) \in 0..5
  BY StageFacts
<1>2. m \in Row /\ m.state = t
  BY <1>1, TransitionType
<1>3. m.appr = None \/ m.appr = r.appr
  BY DEF Transition, Row
<1> HIDE DEF m
<1>4. AsksForOpenCall(m)
  BY <1>3 DEF AsksForOpenCall
<1> QED BY <1>1, <1>2, <1>4 DEF MayCommit, m

LEMMA CommitsSave ==
  ASSUME NEW r \in Row, MayCommit(r), NEW v, NEW b
  PROVE  /\ MayCommit([r EXCEPT !.ckpt = v])
         /\ MayCommit([r EXCEPT !.ckpt = v, !.partial = b])
BY DEF MayCommit, AsksForOpenCall, Row

\* A row that asks for what another one asks for, or for nothing.
LEMMA CommitsLike ==
  ASSUME NEW r, MayCommit(r), NEW s, s.state = r.state, s.appr = r.appr \/ s.appr = None
  PROVE  MayCommit(s)
BY DEF MayCommit, AsksForOpenCall

LEMMA CommitsExecuted ==
  ASSUME NEW r \in Row, MayCommit(r), NEW c, NEW how
  PROVE  MayCommit(Executed(r, c, how))
<1>1. Executed(r, c, how).state = r.state /\ Executed(r, c, how).appr = r.appr
  BY DEF Executed, Row
<1> QED BY <1>1 DEF MayCommit, AsksForOpenCall

LEMMA CommitsFailed ==
  ASSUME Held, NEW r \in Row, MayCommit(r), NEW b
  PROVE  MayCommit(FailedRow(r, b))
BY CommitsMove DEF FailedRow, MayCommit, Reached

LEMMA CommitsConflicted ==
  ASSUME Held
  PROVE  Conflicted(row) \in Row /\ MayCommit(Conflicted(row))
<1>1. row \in Row /\ AsksForOpenCall(row) /\ MayCommit(row)
  BY CommitsRow DEF Held, Inv, TypeOK
<1>2. Transition(row, "CONFLICT") \in Row /\ MayCommit(Transition(row, "CONFLICT"))
  BY <1>1, CommitsMove DEF Reached
<1> QED BY <1>1, <1>2 DEF Conflicted

-----------------------------------------------------------------------------
(* Drivers.                                                                 *)

LEMMA MarkPending ==
  ASSUME NEW v \in View, NEW cs, NEW how, how # "pending"
  PROVE  Pending(Mark(v, cs, how)) = Pending(v) \ cs
BY DEF Pending, Mark, View

LEMMA FreshPending == Pending(Fresh) = {}
BY DEF Pending, Fresh

LEMMA IdleFacts ==
  /\ IdleDriver.pc = "off" /\ IdleDriver.view = Fresh
  /\ [IdleDriver EXCEPT !.pc = "raised"].pc = "raised"
  /\ [IdleDriver EXCEPT !.pc = "raised"].view = Fresh
  /\ HoldsOpenCall(IdleDriver) /\ HoldsOpenCall([IdleDriver EXCEPT !.pc = "raised"])
BY DEF IdleDriver, HoldsOpenCall, InHandPcs

\* Every end of a Turn is nearer than where the driver was.
LEMMA EndIsCloser ==
  ASSUME NEW d, d.pc \in Pc \ {"off", "raised"}, NEW e, e.pc \in {"off", "raised"}, e.view = Fresh
  PROVE  Closer(d, e)
<1>1. Stage(e.pc) = 13 /\ Stage(d.pc) < 13
  BY DEF Stage, Pc
<1> QED BY <1>1, FreshPending DEF Closer

LEMMA ContinueFacts ==
  ASSUME NEW d \in Driver, NEW v
  PROVE  LET e == Continue(d, v) IN
         /\ e.pc = IF Pending(v) = {} THEN "model" ELSE "batch"
         /\ e.view = v
         /\ HoldsOpenCall(e)
<1> DEFINE e == Continue(d, v)
<1>1. e.pc = (IF Pending(v) = {} THEN "model" ELSE "batch") /\ e.view = v
  BY DEF Continue, Driver
<1> HIDE DEF e
<1>2. HoldsOpenCall(e)
  BY <1>1 DEF HoldsOpenCall, InHandPcs
<1> QED BY <1>1, <1>2 DEF e

LEMMA CloserIsNotBehind ==
  ASSUME NEW d, NEW e, Closer(d, e)
  PROVE  NotBehind(d, e)
BY StageFacts DEF Closer, NotBehind

LEMMA SameIsNotBehind ==
  ASSUME NEW d
  PROVE  NotBehind(d, d)
BY StageFacts DEF NotBehind

-----------------------------------------------------------------------------
(* Steps.                                                                   *)

NobodySetBack == \A q \in Procs : ~Idle(q) => NotSetBack(q)

\* A step of process p that sets its driver to d.
LEMMA OneMoves ==
  ASSUME Held, Inv', NEW p \in Procs, NEW d, drv' = [drv EXCEPT ![p] = d],
         used \subseteq used', MayCommit(row'), HoldsOpenCall(d),
         \A q \in Procs : q # p => phase'[q] = phase[q],
         phase'[p] # "up" => d.pc \in {"off", "raised"},
         Idle(p) \/ used' # used \/ NotBehind(drv[p], d)
  PROVE  Held' /\ NobodySetBack /\ drv'[p] = d
<1>1. drv'[p] = d /\ \A q \in Procs : q # p => drv'[q] = drv[q]
  BY DEF Held, Inv, TypeOK
<1>2. ASSUME NEW q \in Procs
      PROVE  HoldsOpenCall(drv'[q]) /\ (phase'[q] # "up" => drv'[q].pc \in {"off", "raised"})
  <2>1. HoldsOpenCall(drv[q]) /\ (phase[q] # "up" => drv[q].pc \in {"off", "raised"})
    BY DEF Held, Idle
  <2> QED BY <1>1, <2>1
<1>3. Held'
  BY <1>2 DEF Held, MayCommit, AsksForOpenCall, Idle
<1>4. ASSUME NEW q \in Procs, ~Idle(q)
      PROVE  NotSetBack(q)
  <2>1. CASE q = p
    BY <1>1, <1>4, <2>1 DEF NotSetBack, MayCommit
  <2>2. CASE q # p
    BY <1>1, <2>2, SameIsNotBehind DEF NotSetBack, MayCommit
  <2> QED BY <2>1, <2>2
<1> QED BY <1>1, <1>3, <1>4 DEF NobodySetBack
GoesNearer(p) == Held' /\ NobodySetBack /\ Nearer(p)

LEMMA StepNearer ==
  ASSUME Held, Inv', NEW p \in Procs, NEW r, NEW d, Step(p, r, d), phase[p] = "up",
         MayCommit(r), HoldsOpenCall(d), NotBehind(drv[p], d),
         Closer(drv[p], d) \/ SetupStage(r.state) > SetupStage(row.state)
  PROVE  GoesNearer(p)
<1>1. row' = r /\ drv' = [drv EXCEPT ![p] = d] /\ UNCHANGED <<phase, used>>
  BY DEF Step
<1>2. Held' /\ NobodySetBack /\ drv'[p] = d
  BY <1>1, OneMoves
<1> QED BY <1>1, <1>2 DEF GoesNearer, Nearer

\* The usual case: one of the driver's own moves, with the row it may commit.
LEMMA StepCloser ==
  ASSUME Held, Inv', NEW p \in Procs, NEW r, NEW d, Step(p, r, d), phase[p] = "up",
         MayCommit(r), HoldsOpenCall(d), Closer(drv[p], d)
  PROVE  GoesNearer(p)
BY StepNearer, CloserIsNotBehind

\* A driver that ends.
LEMMA StepEnds ==
  ASSUME Held, Inv', NEW p \in Procs, NEW r, NEW d, Step(p, r, d), phase[p] = "up", ~Idle(p),
         MayCommit(r), d = IdleDriver \/ d = [IdleDriver EXCEPT !.pc = "raised"]
  PROVE  GoesNearer(p)
<1>1. drv[p].pc \in Pc \ {"off", "raised"}
  BY DEF Held, Inv, TypeOK, Driver, Idle
<1>2. HoldsOpenCall(d) /\ d.pc \in {"off", "raised"} /\ d.view = Fresh
  BY IdleFacts
<1>3. Closer(drv[p], d)
  BY <1>1, <1>2, EndIsCloser
<1> QED BY <1>2, <1>3, StepCloser

LEMMA HeldFacts ==
  ASSUME Held, NEW p \in Procs
  PROVE  /\ Inv /\ row \in Row /\ MayCommit(row) /\ AsksForOpenCall(row)
         /\ drv[p] \in Driver /\ drv[p].view \in View /\ HoldsOpenCall(drv[p])
         /\ drv[p].submitted \in BOOLEAN
BY CommitsRow, InvFacts DEF Held

LEMMA RaiseEnds ==
  ASSUME Held, Inv', NEW p \in Procs, Raise(p, row), phase[p] = "up", ~Idle(p)
  PROVE  GoesNearer(p)
<1>1. MayCommit(FailedRow(row, drv[p].submitted))
  BY HeldFacts, CommitsFailed
<1>2. Step(p, FailedRow(row, drv[p].submitted), [IdleDriver EXCEPT !.pc = "raised"])
  BY DEF Raise, Step
<1> QED BY <1>1, <1>2, StepEnds

\* A driver that moves along with its view.
LEMMA AtFacts ==
  ASSUME NEW d \in Driver, NEW pc, NEW c
  PROVE  /\ [d EXCEPT !.pc = pc].pc = pc /\ [d EXCEPT !.pc = pc].view = d.view
         /\ [d EXCEPT !.pc = pc].call = d.call
         /\ [d EXCEPT !.pc = pc, !.call = c].pc = pc
         /\ [d EXCEPT !.pc = pc, !.call = c].view = d.view
         /\ [d EXCEPT !.pc = pc, !.call = c].call = c
         /\ [d EXCEPT !.pc = pc, !.snap = None].pc = pc
         /\ [d EXCEPT !.pc = pc, !.snap = None].view = d.view
         /\ [d EXCEPT !.pc = pc, !.snap = None].call = d.call
BY DEF Driver

LEMMA MovesAlong ==
  ASSUME NEW d, NEW e, e.view = d.view, Stage(e.pc) > Stage(d.pc), e.pc # "approved",
         e.pc \in InHandPcs => e.call \in Pending(d.view)
  PROVE  Closer(d, e) /\ HoldsOpenCall(e)
BY DEF Closer, HoldsOpenCall

\* A driver that goes on with fewer pending calls, or as many and further on.
LEMMA GoesOnWithLess ==
  ASSUME NEW d \in Driver, NEW f \in Driver, NEW v, Pending(v) \subseteq Pending(d.view),
         Pending(v) = Pending(d.view) =>
           Stage(IF Pending(v) = {} THEN "model" ELSE "batch") > Stage(d.pc)
  PROVE  Closer(d, Continue(f, v)) /\ HoldsOpenCall(Continue(f, v))
BY ContinueFacts DEF Closer

-----------------------------------------------------------------------------
(* The steps of a driver.                                                   *)

LEMMA SamplingNearer ==
  ASSUME Held, Inv', NEW p \in Procs,
         \/ AdvanceSetup(p) \/ SaveFirstCheckpoint(p)
         \/ ModelFinishes(p) \/ PartialBoundary(p) \/ ModelFails(p)
         \/ ToolBudgetExceeded(p)
  PROVE  GoesNearer(p)
<1> USE HeldFacts
<1>0. phase[p] = "up" /\ drv[p].pc \in {"setup", "opened", "model"} /\ ~Idle(p)
  BY DEF AdvanceSetup, SaveFirstCheckpoint, ModelFinishes, PartialBoundary, ModelFails,
         ToolBudgetExceeded, DriverAt, Idle
<1>r. row \in Row /\ MayCommit(row)
  BY HeldFacts
<1>1. CASE AdvanceSetup(p)
  <2>1. CASE row.state \in DOMAIN SetupNext
    <3> DEFINE t == SetupNext[row.state]
               d == [drv[p] EXCEPT !.pc = IF t = "EXECUTING" THEN "opened" ELSE @]
    <3>1. /\ t \in Reached \cup DOMAIN SetupNext
          /\ SetupStage(t) > SetupStage(row.state)
          /\ t \in TaskState
      BY <2>1 DEF SetupNext, SetupStates, Reached, SetupStage, TaskState, RunningStates
    <3>2. MayCommit(Transition(row, t)) /\ Transition(row, t).state = t
      <4>1. Transition(row, t).state = t
        BY <3>1, TransitionType
      <4>2. Transition(row, t).appr = None \/ Transition(row, t).appr = row.appr
        BY DEF Transition, Row
      <4>3. AsksForOpenCall(Transition(row, t))
        BY <4>2 DEF AsksForOpenCall
      <4> QED BY <3>1, <4>1, <4>3, StageFacts DEF MayCommit
    <3>3. drv[p].pc = "setup" /\ Step(p, Transition(row, t), d)
      BY <1>1, <2>1 DEF AdvanceSetup, DriverAt
    <3>4. d.pc \in {"opened", "setup"} /\ d.view = drv[p].view
      BY <3>3 DEF Driver
    <3> HIDE DEF d, t
    <3>5. NotBehind(drv[p], d) /\ HoldsOpenCall(d)
      BY <3>3, <3>4 DEF NotBehind, HoldsOpenCall, InHandPcs, Stage
    <3> QED BY <1>0, <3>1, <3>2, <3>3, <3>5, StepNearer
  <2>2. CASE row.state \notin DOMAIN SetupNext
    BY <1>0, <1>1, <2>2, RaiseEnds DEF AdvanceSetup
  <2> QED BY <2>1, <2>2
<1>2. CASE SaveFirstCheckpoint(p)
  <2>1. CASE row.state = "EXECUTING" /\ row.appr = None
    <3> DEFINE d == [drv[p] EXCEPT !.pc = "model"]
               r == [row EXCEPT !.ckpt = Fresh, !.partial = FALSE]
    <3>1. Step(p, r, d) /\ drv[p].pc = "opened"
      BY <1>2, <2>1 DEF SaveFirstCheckpoint, DriverAt
    <3>2. d.pc = "model" /\ d.view = drv[p].view
      BY AtFacts
    <3>3. MayCommit(r)
      BY <1>r, CommitsSave
    <3> HIDE DEF d, r
    <3>4. Stage(d.pc) > Stage(drv[p].pc) /\ d.pc # "approved" /\ d.pc \notin InHandPcs
      BY <3>1, <3>2 DEF Stage, InHandPcs
    <3>5. Closer(drv[p], d) /\ HoldsOpenCall(d)
      BY <3>2, <3>4, MovesAlong
    <3> QED BY <1>0, <3>1, <3>3, <3>5, StepCloser
  <2>2. CASE ~(row.state = "EXECUTING" /\ row.appr = None)
    BY <1>0, <1>2, <2>2, RaiseEnds DEF SaveFirstCheckpoint
  <2> QED BY <2>1, <2>2
<1>3. CASE ModelFinishes(p)
  <2> DEFINE cleared == [row EXCEPT !.ckpt = None]
             talk == row.kind = "CONVERSATION"
             r == IF talk /\ row.state = "EXECUTING"
                  THEN Transition(cleared, "AWAITING_INPUT") ELSE cleared
             d == [drv[p] EXCEPT !.pc = "verify"]
  <2>1. MayCommit(cleared) /\ cleared \in Row
    BY <1>r, CommitsSave DEF Row
  <2>2. MayCommit(r)
    BY <2>1, CommitsMove DEF Reached, MayCommit
  <2>3. Step(p, r, IF talk THEN IdleDriver ELSE d) /\ drv[p].pc = "model"
    BY <1>3 DEF ModelFinishes, DriverAt
  <2>4. d.pc = "verify" /\ d.view = drv[p].view
    BY AtFacts
  <2> HIDE DEF d, r
  <2>5. Stage(d.pc) > Stage(drv[p].pc) /\ d.pc # "approved" /\ d.pc \notin InHandPcs
    BY <2>3, <2>4 DEF Stage, InHandPcs
  <2>6. Closer(drv[p], d) /\ HoldsOpenCall(d)
    BY <2>4, <2>5, MovesAlong
  <2>7. CASE talk
    BY <1>0, <2>2, <2>3, <2>7, StepEnds
  <2>8. CASE ~talk
    BY <1>0, <2>2, <2>3, <2>6, <2>8, StepCloser
  <2> QED BY <2>7, <2>8
<1>4. CASE PartialBoundary(p)
  <2>1. MayCommit([row EXCEPT !.ckpt = drv[p].view, !.partial = TRUE])
    BY <1>r, CommitsSave
  <2> QED BY <1>0, <1>4, <2>1, StepEnds DEF PartialBoundary
<1>5. CASE ModelFails(p)
  <2>1. \A b \in BOOLEAN : MayCommit(RecordedModelFailure(b)) /\ RecordedModelFailure(b) \in Row
    <3>1. /\ MayCommit(Interrupted(row)) /\ Interrupted(row) \in Row
          /\ MayCommit(Transition(row, "FAILED")) /\ Transition(row, "FAILED") \in Row
      BY CommitsMove DEF Interrupted, Reached
    <3> QED BY <3>1 DEF RecordedModelFailure
  <2>2. \A b \in BOOLEAN : MayCommit(FailedRow(RecordedModelFailure(b), drv[p].submitted))
    BY <2>1, CommitsFailed
  <2>3. PICK b \in BOOLEAN :
          \/ Step(p, RecordedModelFailure(b), IdleDriver)
          \/ Step(p, FailedRow(RecordedModelFailure(b), drv[p].submitted), IdleDriver)
    BY <1>5 DEF ModelFails
  <2> QED BY <1>0, <2>1, <2>2, <2>3, StepEnds
<1>6. CASE ToolBudgetExceeded(p)
  BY <1>0, <1>6, RaiseEnds DEF ToolBudgetExceeded
<1> QED BY <1>1, <1>2, <1>3, <1>4, <1>5, <1>6

\* A proposal uses up call identities: it may make the batch longer.
LEMMA ProposeNearer ==
  ASSUME Held, Inv', NEW p \in Procs, ModelProposes(p)
  PROVE  GoesNearer(p)
<1>1. PICK cs \in SUBSET (Calls \ used) :
        /\ cs # {} /\ used' = used \cup cs /\ phase[p] = "up"
        /\ row' = [row EXCEPT !.ckpt = Mark(drv[p].view, cs, "pending"), !.partial = FALSE]
        /\ drv' = [drv EXCEPT ![p] = Continue(@, Mark(drv[p].view, cs, "pending"))]
        /\ UNCHANGED phase
  BY Zenon DEF ModelProposes, DriverAt
<1> DEFINE v == Mark(drv[p].view, cs, "pending")
<1>2. MayCommit(row')
  <2>1. row \in Row /\ MayCommit(row)
    BY HeldFacts
  <2>2. MayCommit([row EXCEPT !.ckpt = v, !.partial = FALSE])
    BY <2>1, CommitsSave
  <2> QED BY <1>1, <2>2
<1>3. HoldsOpenCall(Continue(drv[p], v)) /\ drv' = [drv EXCEPT ![p] = Continue(drv[p], v)]
  BY <1>1, HeldFacts, ContinueFacts
<1>4. used' # used /\ used \subseteq used'
  BY <1>1
<1> HIDE DEF v
<1>5. Held' /\ NobodySetBack
  BY <1>1, <1>2, <1>3, <1>4, OneMoves
<1> QED BY <1>4, <1>5 DEF GoesNearer, Nearer
\* Pending calls of the driver's view get their answer.
LEMMA AnswersNearer ==
  ASSUME Held, Inv', NEW p \in Procs, NEW cs, NEW how, how # "pending", NEW r, MayCommit(r),
         phase[p] = "up", Step(p, r, Continue(drv[p], Mark(drv[p].view, cs, how))),
         \/ \E c \in cs : c \in Pending(drv[p].view)
         \/ drv[p].pc = "batch" /\ Pending(drv[p].view) = {}
  PROVE  GoesNearer(p)
<1> DEFINE v == Mark(drv[p].view, cs, how)
<1>1. drv[p] \in Driver /\ drv[p].view \in View
  BY HeldFacts
<1>2. Pending(v) = Pending(drv[p].view) \ cs
  BY <1>1, MarkPending
<1>3. Pending(v) = Pending(drv[p].view) =>
        Stage(IF Pending(v) = {} THEN "model" ELSE "batch") > Stage(drv[p].pc)
  BY <1>2 DEF Stage
<1> HIDE DEF v
<1>4. Closer(drv[p], Continue(drv[p], v)) /\ HoldsOpenCall(Continue(drv[p], v))
  BY <1>1, <1>2, <1>3, GoesOnWithLess
<1> QED BY <1>4, StepCloser DEF v

LEMMA BatchNearer ==
  ASSUME Held, Inv', NEW p \in Procs,
         BeginCall(p) \/ GuardCall(p) \/ StopBatch(p) \/ RecordResult(p)
  PROVE  GoesNearer(p)
<1> DEFINE view == drv[p].view
<1>0. /\ row \in Row /\ MayCommit(row) /\ drv[p] \in Driver /\ view \in View
      /\ HoldsOpenCall(drv[p])
  BY HeldFacts
<1>1. CASE BeginCall(p)
  <2>1. PICK c \in Pending(view) :
          /\ Step(p, [row EXCEPT !.ckpt = view, !.partial = FALSE],
                  [drv[p] EXCEPT !.pc = "invoke", !.call = c])
          /\ phase[p] = "up" /\ drv[p].pc = "batch"
    BY <1>1 DEF BeginCall, DriverAt, Pending
  <2> DEFINE d == [drv[p] EXCEPT !.pc = "invoke", !.call = c]
             r == [row EXCEPT !.ckpt = view, !.partial = FALSE]
  <2>2. d.pc = "invoke" /\ d.view = view /\ d.call = c
    BY <1>0, AtFacts
  <2>3. MayCommit(r)
    BY <1>0, CommitsSave
  <2>4. Step(p, r, d)
    BY <2>1
  <2> HIDE DEF d, r
  <2>5. Stage(d.pc) > Stage(drv[p].pc) /\ d.pc # "approved"
    BY <2>1, <2>2 DEF Stage
  <2>6. Closer(drv[p], d) /\ HoldsOpenCall(d)
    BY <2>2, <2>5, MovesAlong
  <2> QED BY <2>1, <2>3, <2>4, <2>6, StepCloser
<1>3. CASE GuardCall(p)
  <2>1. PICK c \in Calls :
          /\ c \in Pending(view) /\ phase[p] = "up"
          /\ Step(p, [row EXCEPT !.ckpt = Mark(view, {c}, "declined")],
                  Continue(drv[p], Mark(view, {c}, "declined")))
    BY <1>3 DEF GuardCall, DriverAt
  <2>2. MayCommit([row EXCEPT !.ckpt = Mark(view, {c}, "declined")])
    BY <1>0, CommitsSave
  <2> DEFINE r == [row EXCEPT !.ckpt = Mark(view, {c}, "declined")]
  <2>3. MayCommit(r) /\ Step(p, r, Continue(drv[p], Mark(drv[p].view, {c}, "declined")))
    BY <2>1, <2>2
  <2>4. \E q \in {c} : q \in Pending(drv[p].view)
    BY <2>1
  <2> HIDE DEF r
  <2> QED BY <2>1, <2>3, <2>4, AnswersNearer
<1>4. CASE StopBatch(p)
  <2> DEFINE v == Mark(view, Pending(view), "declined")
  <2>1. /\ drv[p].pc = "batch" /\ phase[p] = "up"
        /\ Step(p, [row EXCEPT !.ckpt = v], Continue(drv[p], v))
    BY <1>4 DEF StopBatch, DriverAt
  <2>2. MayCommit([row EXCEPT !.ckpt = v])
    BY <1>0, CommitsSave
  <2> DEFINE r == [row EXCEPT !.ckpt = v]
             cs == Pending(view)
  <2>3. MayCommit(r) /\ Step(p, r, Continue(drv[p], Mark(drv[p].view, cs, "declined")))
    BY <2>1, <2>2
  <2>4. (\E c \in cs : c \in Pending(drv[p].view)) \/ Pending(drv[p].view) = {}
    OBVIOUS
  <2> HIDE DEF r, cs
  <2> QED BY <2>1, <2>3, <2>4, AnswersNearer
<1>5. CASE RecordResult(p)
  <2> DEFINE c == drv[p].call
             v == Mark(view, {c}, "answered")
             r == IF drv[p].approval THEN row ELSE [row EXCEPT !.ckpt = v]
  <2>1. drv[p].pc = "recorded" /\ phase[p] = "up" /\ Step(p, r, Continue(drv[p], v))
    BY <1>5 DEF RecordResult, DriverAt
  <2>2. MayCommit(r)
    BY <1>0, CommitsSave
  <2>3. \E q \in {c} : q \in Pending(drv[p].view)
    BY <1>0, <2>1 DEF HoldsOpenCall, InHandPcs
  <2>4. Step(p, r, Continue(drv[p], Mark(drv[p].view, {c}, "answered")))
    BY <2>1
  <2> HIDE DEF r, c
  <2> QED BY <2>1, <2>2, <2>3, <2>4, AnswersNearer
<1> QED BY <1>1, <1>3, <1>4, <1>5

LEMMA CallStages ==
  /\ Stage("invoke") = 5 /\ Stage("approved") = 5 /\ Stage("prepared") = 6
  /\ Stage("running") = 7 /\ Stage("rerunning") = 7 /\ Stage("recorded") = 8
  /\ {"invoke", "approved", "prepared", "running", "rerunning", "recorded"} = InHandPcs
BY DEF Stage, InHandPcs

\* A driver that moves on with the call in hand.
LEMMA CallMovesAlong ==
  ASSUME Held, Inv', NEW p \in Procs, phase[p] = "up", drv[p].pc \in InHandPcs,
         NEW d, d.pc # "approved", Stage(d.pc) > Stage(drv[p].pc),
         d.view = drv[p].view, d.call = drv[p].call,
         drv' = [drv EXCEPT ![p] = d], UNCHANGED <<phase, used>>, MayCommit(row')
  PROVE  GoesNearer(p)
<1>1. drv[p].call \in Pending(drv[p].view)
  BY HeldFacts DEF HoldsOpenCall
<1>2. Closer(drv[p], d) /\ HoldsOpenCall(d)
  BY <1>1, MovesAlong
<1>3. Held' /\ NobodySetBack /\ drv'[p] = d
  BY <1>2, OneMoves, CloserIsNotBehind
<1> QED BY <1>2, <1>3 DEF GoesNearer, Nearer

LEMMA CallSteps ==
  ASSUME Held, Inv', NEW p \in Procs, phase[p] = "up", drv[p].pc \in InHandPcs,
         NEW pc, pc # "approved", Stage(pc) > Stage(drv[p].pc), NEW r, MayCommit(r),
         \/ Step(p, r, At(p, pc))
         \/ r = Executed(row, drv[p].call, "RUNNING") /\ StartProvider(p, drv[p].call, pc)
  PROVE  GoesNearer(p)
<1> DEFINE d == At(p, pc)
<1>1. d.pc = pc /\ d.view = drv[p].view /\ d.call = drv[p].call
  BY HeldFacts, AtFacts DEF At
<1>2. row' = r /\ drv' = [drv EXCEPT ![p] = d] /\ UNCHANGED <<phase, used>>
  BY DEF Step, StartProvider
<1> HIDE DEF d
<1> QED BY <1>1, <1>2, CallMovesAlong

LEMMA InvokingNearer ==
  ASSUME Held, Inv', NEW p \in Procs,
         \/ InvokeRefused(p) \/ ReuseResult(p) \/ RecoverUnknown(p) \/ RecoverRun(p)
         \/ PolicyDenies(p) \/ Prepare(p) \/ PrepareApproved(p) \/ MarkRunning(p)
         \/ ProviderReturns(p) \/ VersionConflict(p)
  PROVE  GoesNearer(p)
<1> DEFINE c == drv[p].call
<1>0. /\ row \in Row /\ MayCommit(row) /\ drv[p] \in Driver /\ HoldsOpenCall(drv[p])
      /\ phase[p] = "up" /\ ~Idle(p)
  BY HeldFacts DEF InvokeRefused, ReuseResult, RecoverUnknown, RecoverRun, PolicyDenies, Prepare,
     PrepareApproved, MarkRunning, ProviderReturns, VersionConflict, DriverAt, Idle
<1>1. \A how : MayCommit(Executed(row, c, how))
  BY <1>0, CommitsExecuted
<1>3. CASE InvokeRefused(p) \/ VersionConflict(p)
  BY <1>0, <1>3, RaiseEnds DEF InvokeRefused, VersionConflict
<1>4. CASE ReuseResult(p) \/ PolicyDenies(p)
  <2>1. drv[p].pc = "invoke" /\ Step(p, row, At(p, "recorded"))
    BY <1>4 DEF ReuseResult, PolicyDenies, DriverAt
  <2> QED BY <1>0, <2>1, CallStages, CallSteps
<1>5. CASE RecoverUnknown(p)
  <2>1. drv[p].pc = "invoke" /\ Step(p, Executed(row, c, "UNKNOWN_OUTCOME"), At(p, "recorded"))
    BY <1>5 DEF RecoverUnknown, DriverAt
  <2> QED BY <1>0, <1>1, <2>1, CallStages, CallSteps
<1>6. CASE RecoverRun(p)
  <2>1. drv[p].pc = "invoke" /\ StartProvider(p, c, "rerunning")
    BY <1>6 DEF RecoverRun, DriverAt
  <2> QED BY <1>0, <1>1, <2>1, CallStages, CallSteps
<1>7. CASE Prepare(p)
  <2>1. drv[p].pc = "invoke" /\ Step(p, Executed(row, c, "PREPARED"), At(p, "prepared"))
    BY <1>7 DEF Prepare, DriverAt
  <2> QED BY <1>0, <1>1, <2>1, CallStages, CallSteps
<1>8. CASE PrepareApproved(p)
  <2> DEFINE d == [drv[p] EXCEPT !.pc = "prepared", !.snap = None]
             s == drv[p].snap
  <2>1. drv[p].pc = "approved" /\ Step(p, Executed(s, c, "PREPARED"), d)
    BY <1>8 DEF PrepareApproved, DriverAt
  <2>2. d.pc = "prepared" /\ d.view = drv[p].view /\ d.call = c
    BY <1>0, AtFacts
  <2>3. s \in Row /\ s.state = "EXECUTING" /\ s.appr = None
    BY <1>0, <2>1 DEF Held, Inv, GoodDriver, HoldsOpenCall
  <2>4. SetupStage("EXECUTING") = 5 /\ SetupStage(row.state) \in 0..5
    BY StageFacts DEF SetupStage
  <2>5. MayCommit(s)
    BY <2>3, <2>4 DEF MayCommit, AsksForOpenCall, Reached
  <2>6. MayCommit(Executed(s, c, "PREPARED"))
    BY <2>3, <2>5, CommitsExecuted
  <2>7. row' = Executed(s, c, "PREPARED") /\ drv' = [drv EXCEPT ![p] = d]
        /\ UNCHANGED <<phase, used>>
    BY <2>1 DEF Step
  <2> HIDE DEF d, s
  <2>8. drv[p].pc \in InHandPcs /\ d.pc # "approved" /\ Stage(d.pc) > Stage(drv[p].pc)
    BY <2>1, <2>2, CallStages
  <2>9. MayCommit(row') /\ d.call = drv[p].call
    BY <2>2, <2>6, <2>7
  <2> HIDE DEF c
  <2> QED BY <1>0, <2>2, <2>7, <2>8, <2>9, CallMovesAlong
<1>9. CASE MarkRunning(p)
  <2>1. drv[p].pc = "prepared" /\ StartProvider(p, c, "running")
    BY <1>9 DEF MarkRunning, DriverAt
  <2> QED BY <1>0, <1>1, <2>1, CallStages, CallSteps
<1>10. CASE ProviderReturns(p)
  <2>1. PICK how : Step(p, Executed(row, c, how), At(p, "recorded"))
                   /\ drv[p].pc \in {"running", "rerunning"}
    BY <1>10 DEF ProviderReturns
  <2> QED BY <1>0, <1>1, <2>1, CallStages, CallSteps
<1> QED BY <1>3, <1>4, <1>5, <1>6, <1>7, <1>8, <1>9, <1>10
\* A driver that hands its call to the user ends; an approval carries the
\* checkpoint that holds the call open.
LEMMA AskingNearer ==
  ASSUME Held, Inv', NEW p \in Procs, AskApproval(p) \/ AskUser(p)
  PROVE  GoesNearer(p)
<1> DEFINE c == drv[p].call
           view == drv[p].view
<1>1. /\ row \in Row /\ AsksForOpenCall(row) /\ drv[p] \in Driver
      /\ phase[p] = "up" /\ drv[p].pc = "invoke" /\ ~Idle(p) /\ c \in Pending(view)
  BY HeldFacts, CallStages DEF AskApproval, AskUser, DriverAt, Idle, HoldsOpenCall
<1>2. /\ drv' = [drv EXCEPT ![p] = IdleDriver] /\ UNCHANGED <<phase, used>>
      /\ \/ row' = [Transition(row, "AWAITING_APPROVAL") EXCEPT !.appr = [call |-> c, view |-> view]]
         \/ row' = [Transition(row, "AWAITING_USER") EXCEPT !.clar = c, !.ckpt = view]
  BY DEF AskApproval, AskUser, Step
<1>3. \A t \in {"AWAITING_APPROVAL", "AWAITING_USER"} :
        Transition(row, t) \in Row /\ Transition(row, t).state = t /\ MayCommit(Transition(row, t))
  BY <1>1, CommitsMove DEF Reached
<1>4. MayCommit(row')
  <2>1. CASE row' = [Transition(row, "AWAITING_APPROVAL") EXCEPT !.appr = [call |-> c, view |-> view]]
    <3> DEFINE m == Transition(row, "AWAITING_APPROVAL")
    <3>1. m \in Row /\ MayCommit(m) /\ row' = [m EXCEPT !.appr = [call |-> c, view |-> view]]
      BY <1>3, <2>1
    <3> HIDE DEF m
    <3>2. row'.state = m.state /\ row'.appr = [call |-> c, view |-> view]
      BY <3>1 DEF Row
    <3> QED BY <1>1, <3>1, <3>2 DEF MayCommit, AsksForOpenCall
  <2>2. CASE row' = [Transition(row, "AWAITING_USER") EXCEPT !.clar = c, !.ckpt = view]
    <3> DEFINE m == Transition(row, "AWAITING_USER")
    <3>1. m \in Row /\ MayCommit(m) /\ row' = [m EXCEPT !.clar = c, !.ckpt = view]
      BY <1>3, <2>2
    <3> HIDE DEF m
    <3>2. row'.state = m.state /\ row'.appr = m.appr
      BY <3>1 DEF Row
    <3> QED BY <3>1, <3>2, CommitsLike
  <2> QED BY <1>2, <2>1, <2>2
<1>5. Closer(drv[p], IdleDriver) /\ HoldsOpenCall(IdleDriver)
  <2>1. drv[p].pc \in Pc \ {"off", "raised"}
    BY <1>1 DEF Driver
  <2> QED BY <2>1, IdleFacts, EndIsCloser
<1> HIDE DEF c, view
<1>6. Held' /\ NobodySetBack /\ drv'[p] = IdleDriver
  BY <1>1, <1>2, <1>4, <1>5, CloserIsNotBehind, OneMoves
<1> QED BY <1>5, <1>6 DEF GoesNearer, Nearer

LEMMA FinishingNearer ==
  ASSUME Held, Inv', NEW p \in Procs,
         \/ CompleteVerify(p) \/ CompleteFinalize(p) \/ CompleteSucceed(p)
         \/ ResumeOpen(p) \/ ResumeSave(p)
  PROVE  GoesNearer(p)
<1>0. /\ row \in Row /\ AsksForOpenCall(row) /\ MayCommit(row)
      /\ drv[p] \in Driver /\ drv[p].view \in View
  BY HeldFacts
<1>1. phase[p] = "up" /\ ~Idle(p)
  BY DEF CompleteVerify, CompleteFinalize, CompleteSucceed, CompleteHop, ResumeOpen, ResumeSave,
         DriverAt, Idle
<1>2. \A t \in {"VERIFYING", "FINALIZING", "SUCCEEDED", "EXECUTING"} : MayCommit(Transition(row, t))
  BY <1>0, CommitsMove DEF Reached
\* The driver's own moves, each a stage further on.
<1>3. ASSUME NEW pc, NEW t \in {"VERIFYING", "FINALIZING", "EXECUTING"},
             Stage(pc) > Stage(drv[p].pc), pc \notin InHandPcs, pc # "approved",
             Step(p, Transition(row, t), At(p, pc))
      PROVE  GoesNearer(p)
  <2> DEFINE d == At(p, pc)
  <2>1. d.pc = pc /\ d.view = drv[p].view
    BY <1>0, AtFacts DEF At
  <2> HIDE DEF d
  <2>2. Closer(drv[p], d) /\ HoldsOpenCall(d)
    BY <1>3, <2>1, MovesAlong
  <2> QED BY <1>1, <1>2, <1>3, <2>2, StepCloser DEF d
<1>4. CASE CompleteVerify(p)
  <2>1. drv[p].pc = "verify" /\ (Raise(p, row) \/ Step(p, Transition(row, "VERIFYING"), At(p, "finalize")))
    BY <1>4 DEF CompleteVerify, CompleteHop, DriverAt
  <2>2. Stage("finalize") > Stage("verify") /\ "finalize" \notin InHandPcs
    BY DEF Stage, InHandPcs
  <2> QED BY <1>1, <1>3, <2>1, <2>2, RaiseEnds
<1>5. CASE CompleteFinalize(p)
  <2>1. drv[p].pc = "finalize" /\ (Raise(p, row) \/ Step(p, Transition(row, "FINALIZING"), At(p, "succeed")))
    BY <1>5 DEF CompleteFinalize, CompleteHop, DriverAt
  <2>2. Stage("succeed") > Stage("finalize") /\ "succeed" \notin InHandPcs
    BY DEF Stage, InHandPcs
  <2> QED BY <1>1, <1>3, <2>1, <2>2, RaiseEnds
<1>6. CASE CompleteSucceed(p)
  <2>1. Raise(p, row) \/ Step(p, Transition(row, "SUCCEEDED"), IdleDriver)
    BY <1>6 DEF CompleteSucceed, CompleteHop
  <2> QED BY <1>1, <1>2, <2>1, RaiseEnds, StepEnds
<1>7. CASE ResumeOpen(p)
  <2>1. drv[p].pc = "reconciled" /\ (Raise(p, row) \/ Step(p, Transition(row, "EXECUTING"), At(p, "resuming")))
    BY <1>7 DEF ResumeOpen, DriverAt
  <2>2. Stage("resuming") > Stage("reconciled") /\ "resuming" \notin InHandPcs
    BY DEF Stage, InHandPcs
  <2> QED BY <1>1, <1>3, <2>1, <2>2, RaiseEnds
<1>8. CASE ResumeSave(p)
  <2> DEFINE f == [drv[p] EXCEPT !.recover = TRUE]
             r == [row EXCEPT !.ckpt = drv[p].view, !.partial = FALSE]
  <2>1. drv[p].pc = "resuming" /\ Step(p, r, Continue(f, drv[p].view))
    BY <1>8 DEF ResumeSave, DriverAt
  <2>2. f \in Driver /\ MayCommit(r)
    BY <1>0, RecoverSet, CommitsSave
  <2> HIDE DEF f, r
  <2>3. Stage(IF Pending(drv[p].view) = {} THEN "model" ELSE "batch") > Stage(drv[p].pc)
    BY <2>1 DEF Stage
  <2>4. Closer(drv[p], Continue(f, drv[p].view)) /\ HoldsOpenCall(Continue(f, drv[p].view))
    BY <1>0, <2>2, <2>3, GoesOnWithLess
  <2> QED BY <1>1, <2>1, <2>2, <2>4, StepCloser
<1> QED BY <1>4, <1>5, <1>6, <1>7, <1>8
-----------------------------------------------------------------------------
(* The steps of the user, of a cancellation and of a settlement.            *)

HoldsOn == Held' /\ NobodySetBack

\* A step that leaves every driver as it is.
LEMMA RowMoves ==
  ASSUME Held, Inv', UNCHANGED <<drv, used>>, MayCommit(row'),
         \A p \in Procs : phase'[p] = phase[p] \/ Idle(p)
  PROVE  HoldsOn
<1>1. ASSUME NEW q \in Procs
      PROVE  /\ HoldsOpenCall(drv'[q])
             /\ phase'[q] # "up" => drv'[q].pc \in {"off", "raised"}
             /\ NotBehind(drv[q], drv'[q])
  BY SameIsNotBehind DEF Held, Idle
<1>2. Held'
  BY <1>1 DEF Held, MayCommit, AsksForOpenCall, Idle
<1>3. NobodySetBack
  BY <1>1 DEF NobodySetBack, NotSetBack, MayCommit
<1> QED BY <1>2, <1>3 DEF HoldsOn

\* A user's step in a process without a Turn, which may begin one.
LEMMA IdleMoves ==
  ASSUME Held, Inv', NEW p \in Procs, Idle(p), NEW d, phase[p] = "up",
         drv' = [drv EXCEPT ![p] = d], UNCHANGED <<phase, used>>,
         MayCommit(row'), HoldsOpenCall(d)
  PROVE  HoldsOn
BY OneMoves DEF HoldsOn

\* A step that ends the Turn of p, if it has one.
LEMMA EndMoves ==
  ASSUME Held, Inv', NEW p \in Procs, drv' = [drv EXCEPT ![p] = IdleDriver], UNCHANGED used,
         MayCommit(row'), \A q \in Procs : q # p => phase'[q] = phase[q]
  PROVE  HoldsOn
<1>1. ~Idle(p) => drv[p].pc \in Pc \ {"off", "raised"}
  BY HeldFacts DEF Idle, Driver
<1>2. Idle(p) \/ NotBehind(drv[p], IdleDriver)
  BY <1>1, IdleFacts, EndIsCloser, CloserIsNotBehind
<1> QED BY <1>2, IdleFacts, OneMoves DEF HoldsOn

\* Drivers that begin with no call in hand.
LEMMA BeginsHolding ==
  ASSUME NEW pc \in {"opened", "resuming", "reconciled"}, NEW v, NEW b
  PROVE  HoldsOpenCall(NewDriver(pc, v, b))
<1>1. NewDriver(pc, v, b).pc = pc
  BY DEF NewDriver, IdleDriver
<1> QED BY <1>1 DEF HoldsOpenCall, InHandPcs

LEMMA StartingHolds ==
  ASSUME Held, Inv', NEW p \in Procs,
         StartTurn(p) \/ FreshTurn(p) \/ SupersedeConversation(p)
  PROVE  HoldsOn
<1>0. /\ phase[p] = "up" /\ Idle(p) /\ row \in Row /\ AsksForOpenCall(row) /\ MayCommit(row)
      /\ HoldsOpenCall(drv[p])
  BY HeldFacts DEF StartTurn, FreshTurn, SupersedeConversation
<1>1. \A t \in {"EXECUTING", "SUCCEEDED"} : Transition(row, t) \in Row /\ MayCommit(Transition(row, t))
  BY <1>0, CommitsMove DEF Reached
<1>2. MayCommit(FailedRow(row, TRUE))
  BY <1>0, CommitsFailed
<1>3. ASSUME NEW r, MayCommit(r), NEW d, HoldsOpenCall(d), Step(p, r, d)
      PROVE  HoldsOn
  BY <1>0, <1>3, IdleMoves DEF Step
<1>4. HoldsOpenCall(NewDriver("opened", Fresh, TRUE))
  BY BeginsHolding
<1>5. CASE StartTurn(p)
  BY <1>0, <1>1, <1>2, <1>3, <1>4, <1>5 DEF StartTurn
<1>6. CASE FreshTurn(p)
  <2> DEFINE m == Transition(row, "EXECUTING")
             r == [m EXCEPT !.appr = None, !.clar = None, !.ckpt = None]
  <2>1. Step(p, r, NewDriver("opened", Fresh, TRUE)) /\ m \in Row /\ MayCommit(m)
    BY <1>1, <1>6 DEF FreshTurn
  <2> HIDE DEF m
  <2>2. r.state = m.state /\ r.appr = None
    BY <2>1 DEF Row
  <2> HIDE DEF r
  <2>3. MayCommit(r)
    BY <2>1, <2>2, CommitsLike
  <2> QED BY <1>3, <1>4, <2>1, <2>3
<1>7. CASE SupersedeConversation(p)
  BY <1>0, <1>1, <1>3, <1>7 DEF SupersedeConversation
<1> QED BY <1>5, <1>6, <1>7

\* The decision on an approval takes its call, still open, to the tool.
LEMMA ResolvingHolds ==
  ASSUME Held, Inv', NEW p \in Procs, ResolveApproval(p)
  PROVE  HoldsOn
<1> DEFINE c == row.appr.call
           v == row.appr.view
           m == Transition(row, "EXECUTING")
           r == [m EXCEPT !.appr = None, !.ckpt = v]
           f == NewDriver("approved", v, FALSE)
<1>1. /\ phase[p] = "up" /\ Idle(p) /\ row.state = "AWAITING_APPROVAL"
      /\ row \in Row /\ AsksForOpenCall(row)
  BY HeldFacts DEF ResolveApproval
<1>2. row.appr \in Request /\ c \in Pending(v) /\ v \in View
  <2>1. row.appr # None
    BY <1>1 DEF Held, Inv, Present
  <2> QED BY <1>1, <2>1 DEF Row, Request, AsksForOpenCall
<1>3. PICK decision \in {"approved", "denied"} :
        /\ row' = r /\ drv' = [drv EXCEPT ![p] = Decided(f, r, c, decision)]
        /\ UNCHANGED <<phase, used>>
  BY DEF ResolveApproval
<1>4. m \in Row /\ MayCommit(m)
  BY <1>1, CommitsMove DEF Reached
<1> HIDE DEF m
<1>5. r.state = m.state /\ r.appr = None
  BY <1>4 DEF Row
<1> HIDE DEF r
<1>6. MayCommit(r)
  BY <1>4, <1>5, CommitsLike
<1>7. f \in Driver /\ f.view = v /\ f.pc = "approved"
  BY <1>2, FreshType DEF NewDriver, IdleDriver, Driver, Pc
<1> HIDE DEF f, c, v
<1>8. HoldsOpenCall(Decided(f, r, c, decision))
  <2>1. CASE decision = "approved"
    <3> DEFINE d == [f EXCEPT !.call = c, !.approval = TRUE, !.snap = r]
    <3>1. d.pc = "approved" /\ d.call = c /\ d.view = v /\ d.snap = r
      BY <1>7 DEF Driver
    <3>2. Decided(f, r, c, decision) = d
      BY <2>1 DEF Decided
    <3> HIDE DEF d
    <3> QED BY <1>2, <1>5, <3>1, <3>2 DEF HoldsOpenCall
  <2>2. CASE decision # "approved"
    BY <1>7, <2>2, ContinueFacts DEF Decided
  <2> QED BY <2>1, <2>2
<1> QED BY <1>1, <1>3, <1>6, <1>8, IdleMoves

LEMMA AnsweringHolds ==
  ASSUME Held, Inv', NEW p \in Procs,
         \/ ApprovalConflict(p) \/ AnswerUser(p) \/ SupersedeApproval(p)
         \/ Interrupt(p) \/ CancelBegin(p)
  PROVE  HoldsOn
<1>0. row \in Row /\ AsksForOpenCall(row) /\ MayCommit(row) /\ phase[p] = "up"
  BY HeldFacts DEF ApprovalConflict, AnswerUser, SupersedeApproval, Interrupt, CancelBegin, Free
<1>1. Transition(row, "EXECUTING") \in Row /\ MayCommit(Transition(row, "EXECUTING"))
  BY <1>0, CommitsMove DEF Reached
<1>2. CASE ApprovalConflict(p)
  BY <1>2, CommitsConflicted, RowMoves DEF ApprovalConflict
<1>3. CASE AnswerUser(p)
  <2> DEFINE v == Mark(row.ckpt, {row.clar}, "answered")
             m == Transition(row, "EXECUTING")
             r == [m EXCEPT !.clar = None, !.ckpt = v]
             f == NewDriver("batch", v, FALSE)
  <2>1. Idle(p) /\ Step(p, r, Continue(f, v)) /\ row.ckpt \in View
    BY <1>0, <1>3 DEF AnswerUser, Row
  <2>2. m \in Row /\ MayCommit(m)
    BY <1>1
  <2>3. v \in View
    BY <2>1, MarkType DEF CallView
  <2> HIDE DEF m, v
  <2>4. r.state = m.state /\ r.appr = m.appr
    BY <2>2 DEF Row
  <2>5. f \in Driver
    BY <2>3, FreshType DEF NewDriver, IdleDriver, Driver, Pc
  <2> HIDE DEF f, r
  <2>6. MayCommit(r)
    BY <2>2, <2>4, CommitsLike
  <2>7. HoldsOpenCall(Continue(f, v))
    BY <2>5, ContinueFacts
  <2>8. row' = r /\ drv' = [drv EXCEPT ![p] = Continue(f, v)] /\ UNCHANGED <<phase, used>>
    BY <2>1 DEF Step
  <2> QED BY <1>0, <2>1, <2>6, <2>7, <2>8, IdleMoves
<1>4. CASE SupersedeApproval(p)
  <2> DEFINE m == Transition(row, "EXECUTING")
  <2>1. /\ row' = [m EXCEPT !.appr = None, !.ckpt = Mark(row.ckpt, Pending(row.ckpt), "declined")]
        /\ m \in Row /\ MayCommit(m) /\ UNCHANGED <<drv, used, phase>>
    BY <1>1, <1>4 DEF SupersedeApproval
  <2> HIDE DEF m
  <2>2. row'.state = m.state /\ row'.appr = None
    BY <2>1 DEF Row
  <2> QED BY <2>1, <2>2, CommitsLike, RowMoves
<1>5. CASE Interrupt(p)
  <2>1. MayCommit(Interrupted(row))
    BY <1>0, CommitsMove DEF Interrupted, Reached
  <2> QED BY <1>5, <2>1, EndMoves DEF Interrupt, Step
<1>6. CASE CancelBegin(p)
  <2>1. row' = SettledForCancel(row) /\ UNCHANGED <<drv, used, phase>>
    BY <1>6 DEF CancelBegin
  <2>2. row'.state = row.state /\ row'.appr = row.appr
    BY <1>0, <2>1 DEF SettledForCancel, Row
  <2> QED BY <1>0, <2>1, <2>2, CommitsLike, RowMoves
<1> QED BY <1>2, <1>3, <1>4, <1>5, <1>6
LEMMA ResumingHolds ==
  ASSUME Held, Inv', NEW p \in Procs,
         \/ ResumeReconciled(p) \/ ResumeUnchanged(p) \/ ResumeConflict(p) \/ ResumeRefused(p)
  PROVE  HoldsOn
<1>0. /\ row \in Row /\ AsksForOpenCall(row) /\ MayCommit(row) /\ phase[p] = "up" /\ Idle(p)
  BY HeldFacts DEF ResumeReconciled, ResumeUnchanged, ResumeConflict, ResumeRefused, MayContinue
<1>1. \A v : \A b : HoldsOpenCall(Reconciled(v, b))
  BY BeginsHolding DEF Reconciled
<1>2. CASE ResumeReconciled(p)
  <2>1. PICK v, b : row' = [row EXCEPT !.ckpt = v] /\ drv' = [drv EXCEPT ![p] = Reconciled(v, b)]
                    /\ UNCHANGED <<phase, used>>
    BY <1>2 DEF ResumeReconciled, Step
  <2>2. MayCommit([row EXCEPT !.ckpt = v])
    BY <1>0, CommitsSave
  <2> QED BY <1>0, <1>1, <2>1, <2>2, IdleMoves
<1>3. CASE ResumeUnchanged(p)
  <2>1. PICK v, b : row' = row /\ drv' = [drv EXCEPT ![p] = Reconciled(v, b)]
                    /\ UNCHANGED <<phase, used>>
    BY <1>3 DEF ResumeUnchanged, Step
  <2> QED BY <1>0, <1>1, <2>1, IdleMoves
<1>4. CASE ResumeConflict(p)
  <2>1. PICK b : row' = FailedRow(Conflicted(row), b) /\ UNCHANGED <<drv, used, phase>>
    BY <1>4 DEF ResumeConflict
  <2>2. MayCommit(FailedRow(Conflicted(row), b))
    BY CommitsConflicted, CommitsFailed
  <2> QED BY <2>1, <2>2, RowMoves
<1>5. CASE ResumeRefused(p)
  BY <1>0, <1>5, CommitsFailed, RowMoves DEF ResumeRefused
<1> QED BY <1>2, <1>3, <1>4, <1>5

LEMMA StoppingHolds ==
  ASSUME Held, Inv', NEW p \in Procs,
         \/ CancelStep(p) \/ SettlingStep(p) \/ BeginSettling(p) \/ Crash(p)
  PROVE  HoldsOn
<1>0. row \in Row /\ AsksForOpenCall(row) /\ MayCommit(row)
  BY HeldFacts
<1>1. \A t \in {"CANCELLED", "EXECUTING", "INTERRUPTED", "SUCCEEDED"} : MayCommit(Transition(row, t))
  BY <1>0, CommitsMove DEF Reached
<1>2. \A q \in Procs : q # p => phase'[q] = phase[q]
  BY DEF CancelStep, CancelCommit, CancelDone, SettlingStep, SettleStep, EndSettling,
         BeginSettling, Crash, Held, Inv, TypeOK
<1>3. CASE CancelCommit(p)
  BY <1>0, <1>1, <1>3, RowMoves DEF CancelCommit
<1>4. CASE CancelDone(p)
  BY <1>0, <1>2, <1>4, EndMoves DEF CancelDone
<1>5. CASE SettleStep(p)
  <2>1. MayCommit(row')
    BY <1>1, <1>5 DEF SettleStep, Interrupted
  <2> QED BY <1>5, <2>1, RowMoves DEF SettleStep
<1>6. CASE EndSettling(p)
  <2>1. phase[p] = "settling" /\ UNCHANGED <<row, drv, used>>
    BY <1>6 DEF EndSettling
  <2>2. Idle(p)
    BY <2>1 DEF Held
  <2> QED BY <1>0, <1>2, <2>1, <2>2, RowMoves
<1>7. CASE BeginSettling(p)
  <2>1. UNCHANGED <<row, drv, used>> /\ (phase[p] = "down" \/ Idle(p))
    BY <1>7 DEF BeginSettling
  <2>2. Idle(p)
    BY <2>1 DEF Held
  <2> QED BY <1>0, <1>2, <2>1, <2>2, RowMoves
<1>8. CASE Crash(p)
  BY <1>0, <1>2, <1>8, EndMoves DEF Crash
<1> QED BY <1>3, <1>4, <1>5, <1>6, <1>7, <1>8 DEF CancelStep, SettlingStep

-----------------------------------------------------------------------------
LEMMA InitHeld == Init => Held
<1> SUFFICES ASSUME Init PROVE Held
  OBVIOUS
<1>1. Inv
  BY InitInv
<1>2. row.appr = None /\ row.state = "CREATED"
  BY DEF Init, NewRow
<1>3. ASSUME NEW p \in Procs
      PROVE  HoldsOpenCall(drv[p]) /\ phase[p] = "up"
  <2>1. drv[p].pc \in {"setup", "off"} /\ phase[p] = "up"
    BY DEF Init, NewDriver, IdleDriver
  <2> QED BY <2>1 DEF HoldsOpenCall, InHandPcs
<1> QED BY <1>1, <1>2, <1>3 DEF Held, AsksForOpenCall, SetupNext, SetupStates

LEMMA DriverGoesNearer ==
  ASSUME Held, Inv', NEW p \in Procs, DriverStep(p)
  PROVE  GoesNearer(p)
BY SamplingNearer, ProposeNearer, BatchNearer, InvokingNearer, AskingNearer, FinishingNearer
   DEF DriverStep

LEMMA NextHeld == Held /\ [Next]_vars => Held'
<1> SUFFICES ASSUME Held, [Next]_vars PROVE Held'
  OBVIOUS
<1>1. Inv'
  BY NextInv DEF Held
<1>2. CASE UNCHANGED vars
  BY <1>2, <1>1 DEF vars, Held, AsksForOpenCall, HoldsOpenCall, Idle
<1>3. ASSUME NEW p \in Procs, DriverStep(p)
      PROVE  Held'
  BY <1>1, <1>3, DriverGoesNearer DEF GoesNearer
<1>4. ASSUME NEW p \in Procs,
             UserStep(p) \/ CancelStep(p) \/ SettlingStep(p) \/ BeginSettling(p) \/ Crash(p)
      PROVE  Held'
  BY <1>1, <1>4, StartingHolds, ResolvingHolds, AnsweringHolds, ResumingHolds, StoppingHolds
     DEF UserStep, HoldsOn
<1> QED BY <1>2, <1>3, <1>4 DEF Next

LEMMA NextGoesForward ==
  ASSUME Held, [Next]_vars, NEW p \in Procs
  PROVE  /\ ~Idle(p) => NotSetBack(p)
         /\ DriverStep(p) => Nearer(p)
<1>1. Inv'
  BY NextInv DEF Held
<1>2. DriverStep(p) => Nearer(p)
  BY <1>1, DriverGoesNearer DEF GoesNearer
<1>3. NobodySetBack
  <2>1. CASE UNCHANGED vars
    BY <2>1, HeldFacts, SameIsNotBehind DEF vars, NobodySetBack, NotSetBack, MayCommit
  <2>2. ASSUME NEW q \in Procs,
               \/ DriverStep(q) \/ UserStep(q) \/ CancelStep(q)
               \/ SettlingStep(q) \/ BeginSettling(q) \/ Crash(q)
        PROVE  NobodySetBack
    <3>1. CASE DriverStep(q)
      BY <1>1, <3>1, DriverGoesNearer DEF GoesNearer
    <3>2. CASE UserStep(q)
      BY <1>1, <3>2, StartingHolds, ResolvingHolds, AnsweringHolds, ResumingHolds
         DEF UserStep, HoldsOn
    <3>3. CASE CancelStep(q) \/ SettlingStep(q) \/ BeginSettling(q) \/ Crash(q)
      BY <1>1, <3>3, StoppingHolds DEF HoldsOn
    <3> QED BY <2>2, <3>1, <3>2, <3>3
  <2> QED BY <2>1, <2>2 DEF Next
<1> QED BY <1>2, <1>3 DEF NobodySetBack

\* What is about a call that was begun stays true: an approval holds its call
\* open, and no commit leaves the row in RESUMING.
LEMMA HeldAlways == Spec => []Held
BY InitHeld, NextHeld, PTL DEF Spec

\* While a Turn lasts nothing sets it back, and every step its driver takes
\* brings it nearer its end (run_task, ConversationAgentLoop._drive,
\* turn_tool_batch): call identities are used up, and between two proposals
\* pending calls only get answers and the call in hand only moves on.  So a Turn
\* cannot go round without a new call, whatever crashes, other processes and the
\* user do meanwhile: what TurnsEnd rests on besides fairness.
THEOREM TurnsGoForward ==
  Spec => [][\A p \in Procs : /\ ~Idle(p) => NotSetBack(p)
                              /\ DriverStep(p) => Nearer(p)]_vars
<1> DEFINE Forward ==
      \A p \in Procs : /\ ~Idle(p) => NotSetBack(p)
                       /\ DriverStep(p) => Nearer(p)
<1>1. ASSUME Held, [Next]_vars PROVE Forward
  BY <1>1, NextGoesForward
<1>2. Held /\ [Next]_vars => [Forward]_vars
  BY <1>1
<1> QED BY <1>2, HeldAlways, PTL DEF Spec

\* The guards of the actions of an invocation, taken together.
InvocationGoesOn(p) ==
  LET c == drv[p].call
      open == row.ledger[c]
  IN
  \/ row.state # "EXECUTING"
  \/ open \in Reusable
  \/ open \in {"PREPARED", "RUNNING"} /\ ~drv[p].recover
  \/ open = "RUNNING" /\ c \in NonIdempotent /\ drv[p].recover
  \/ open = "PREPARED" /\ drv[p].recover
  \/ open = "RUNNING" /\ c \notin NonIdempotent /\ drv[p].recover
  \/ open = "NEW" /\ c \in Gated
  \/ c \in Asks
  \/ open = "NEW" /\ c \notin Gated \cup Asks

\* Where a driver is, an action of its own has its guard true: at an invocation
\* one of those above, anywhere else the one named for the place.
TurnGoesOn(p) ==
  ~Idle(p) => /\ phase[p] = "up"
              /\ drv[p].pc \in Pc \ {"off", "raised"}
              /\ drv[p].pc \in InHandPcs => drv[p].call \in Pending(drv[p].view)
              /\ drv[p].pc = "approved" => drv[p].snap \in Row /\ drv[p].snap.appr = None
              /\ drv[p].pc = "invoke" => InvocationGoesOn(p)

\* A Turn that has begun can always go on (ConversationAgentLoop._drive,
\* turn_tool_batch, Kernel._invoke_agent_tool): its process lives, the call it
\* has in hand is one the transcript still holds open, an approved call carries
\* a row that asks for nothing, and whatever the row has become meanwhile, also
\* by other processes, an invocation is run, recovered, reused, asked about or
\* refused.  With TurnsGoForward this is what TurnsEnd needs besides fairness.
THEOREM TurnsGoOn == Spec => [](\A p \in Procs : TurnGoesOn(p))
<1>1. Held => \A p \in Procs : TurnGoesOn(p)
  <2> SUFFICES ASSUME Held, NEW p \in Procs, ~Idle(p) PROVE TurnGoesOn(p)
    BY DEF TurnGoesOn
  <2>1. drv[p] \in Driver /\ row \in Row /\ HoldsOpenCall(drv[p]) /\ phase[p] = "up"
    BY HeldFacts DEF Held
  <2>2. drv[p].pc \in Pc \ {"off", "raised"}
    BY <2>1 DEF Idle, Driver
  <2>3. drv[p].pc = "approved" => drv[p].snap \in Row /\ drv[p].snap.appr = None
    BY <2>1 DEF Held, Inv, GoodDriver, HoldsOpenCall
  <2>4. ASSUME drv[p].pc = "invoke"
        PROVE  InvocationGoesOn(p)
    <3>1. drv[p].call \in Calls /\ drv[p].recover \in BOOLEAN
      BY <2>1, <2>4 DEF HoldsOpenCall, InHandPcs, Pending, Driver
    <3>2. row.ledger[drv[p].call] \in ExecState
      BY <2>1, <3>1 DEF Row
    <3> DEFINE open == row.ledger[drv[p].call]
    <3>3. \/ open \in {"PREPARED", "RUNNING"}
          \/ open \in Reusable \/ open = "NEW"
      BY <3>2 DEF ExecState, Reusable, Settled
    <3> QED BY <3>1, <3>3, Zenon DEF InvocationGoesOn
  <2> QED BY <2>1, <2>2, <2>3, <2>4 DEF TurnGoesOn, HoldsOpenCall
<1> QED BY <1>1, HeldAlways, PTL

\* CancelSettles for every set of processes: a cancel handler is done with its
\* commit only when the Task has ended, or its process has died (cancel_task).
\* Every state a commit leaves the row in ends the Task or may be cancelled.
THEOREM CancellationsSettle == Spec => CancelSettles
<1> DEFINE Settles ==
      \A p \in Procs :
        cancel[p] = "cleanup" /\ cancel'[p] # "cleanup" =>
          row'.state \in TerminalStates \/ phase'[p] = "down"
<1>1. ASSUME Held, NEW s \in Reached \cup DOMAIN SetupNext, s \notin TerminalStates
      PROVE  CanMove(s, "CANCELLED")
  BY <1>1 DEF CanMove, LegalTransitions, Stopped, Reached, SetupNext, SetupStates, TerminalStates,
     TaskState, RunningStates, AwaitingStates
<1>2. ASSUME Held, [Next]_vars, NEW p \in Procs, cancel[p] = "cleanup", cancel'[p] # "cleanup"
      PROVE  row'.state \in TerminalStates \/ phase'[p] = "down"
  <2>1. CancelCommit(p) \/ Crash(p)
    <3>1. PICK q \in Procs :
            \/ DriverStep(q) \/ UserStep(q) \/ CancelStep(q)
            \/ SettlingStep(q) \/ BeginSettling(q) \/ Crash(q)
      BY <1>2 DEF Next, vars
    <3>2. cancel \in [Procs -> {"no", "cleanup", "closing"}]
      BY <1>2 DEF Held, Inv, TypeOK
    <3>3. ~DriverStep(q)
      BY <1>2 DEF DriverStep, AdvanceSetup, SaveFirstCheckpoint, ModelProposes, ModelFinishes,
         PartialBoundary, ModelFails, ToolBudgetExceeded, BeginCall, GuardCall, StopBatch,
         RecordResult, InvokeRefused, ReuseResult, RecoverUnknown, RecoverRun, PolicyDenies,
         AskApproval, AskUser, Prepare, PrepareApproved, MarkRunning, ProviderReturns,
         VersionConflict, CompleteVerify, CompleteFinalize, CompleteSucceed, CompleteHop,
         ResumeOpen, ResumeSave, Raise, Step, StartProvider
    <3>4. ~UserStep(q)
      <4>1. ~CancelBegin(q)
        BY <1>2, <3>2 DEF CancelBegin
      <4>2. UserStep(q) => CancelBegin(q) \/ UNCHANGED cancel
        BY DEF UserStep, StartTurn, FreshTurn, SupersedeConversation, ApprovalConflict,
           ResolveApproval, AnswerUser, SupersedeApproval, Interrupt, ResumeReconciled,
           ResumeUnchanged, ResumeConflict, ResumeRefused, Step
      <4> QED BY <1>2, <4>1, <4>2
    <3>5. CancelStep(q) => CancelCommit(p)
      BY <1>2, <3>2 DEF CancelStep, CancelCommit, CancelDone
    <3>6. ~SettlingStep(q) /\ ~BeginSettling(q)
      BY <1>2 DEF SettlingStep, SettleStep, EndSettling, BeginSettling
    <3>7. Crash(q) => Crash(p)
      BY <1>2, <3>2 DEF Crash
    <3> QED BY <3>1, <3>3, <3>4, <3>5, <3>6, <3>7
  <2>2. CASE Crash(p)
    BY <1>2, <2>2 DEF Crash, Held, Inv, TypeOK
  <2>3. CASE CancelCommit(p)
    <3>1. row \in Row /\ row.state \in Reached \cup DOMAIN SetupNext
      BY <1>2 DEF Held, Inv, TypeOK
    <3>2. CASE CanMove(row.state, "CANCELLED")
      <4>1. row' = Transition(row, "CANCELLED")
        BY <2>3, <3>2 DEF CancelCommit
      <4> QED BY <3>1, <4>1, TransitionType DEF TerminalStates, TaskState
    <3>3. CASE ~CanMove(row.state, "CANCELLED")
      BY <1>1, <1>2, <2>3, <3>1, <3>3 DEF CancelCommit
    <3> QED BY <3>2, <3>3
  <2> QED BY <2>1, <2>2, <2>3
<1>3. Held /\ [Next]_vars => [Settles]_vars
  BY <1>2
<1> QED BY <1>3, HeldAlways, PTL DEF Spec, CancelSettles
-----------------------------------------------------------------------------
(***************************************************************************)
(* Ends, for every set of processes.  Nothing moves a Task out of an end   *)
(* but the start of an approved tool, which writes a row that another      *)
(* process may have left behind; NEEDS_REVIEW, the one end with moves, is  *)
(* never reached (Held).                                                   *)
(***************************************************************************)

StateKept == row'.state = row.state

\* What every handler finds when it looks at the row of a Task that has ended.
LEMMA EndedFacts ==
  ASSUME Held, row.state \in TerminalStates
  PROVE  /\ row \in Row
         /\ row.state \in {"SUCCEEDED", "CANCELLED", "FAILED"}
         /\ \A t : ~CanMove(row.state, t)
         /\ row.state \notin DOMAIN SetupNext \cup OrphanClaims
         /\ \A b : FailedRow(row, b) = row
         /\ Conflicted(row) = row
<1>1. row \in Row /\ row.state \in {"SUCCEEDED", "CANCELLED", "FAILED"}
  <2>1. row.state \in Reached \cup DOMAIN SetupNext /\ row \in Row
    BY DEF Held, Inv, TypeOK
  <2> QED BY <2>1 DEF Reached, SetupNext, SetupStates, TerminalStates
<1>2. \A t : ~CanMove(row.state, t)
  BY <1>1, TerminalFacts
<1>3. row.state \notin DOMAIN SetupNext \cup OrphanClaims
  BY <1>1 DEF SetupNext, SetupStates, OrphanClaims
<1> QED BY <1>1, <1>2, <1>3 DEF FailedRow, Conflicted

\* Saving a checkpoint, a request or a record leaves the state.
LEMMA StateOfRow ==
  ASSUME NEW r \in Row
  PROVE  /\ \A v : [r EXCEPT !.ckpt = v].state = r.state
         /\ \A v, b : [r EXCEPT !.ckpt = v, !.partial = b].state = r.state
         /\ \A c, how : Executed(r, c, how).state = r.state
BY DEF Row, Executed

LEMMA SamplingEnds ==
  ASSUME Held, row.state \in TerminalStates, NEW p \in Procs,
         \/ AdvanceSetup(p) \/ SaveFirstCheckpoint(p) \/ ModelProposes(p) \/ ModelFinishes(p)
         \/ PartialBoundary(p) \/ ModelFails(p) \/ ToolBudgetExceeded(p)
         \/ BeginCall(p) \/ GuardCall(p) \/ StopBatch(p) \/ RecordResult(p)
  PROVE  StateKept
<1> USE EndedFacts, StateOfRow DEF StateKept
<1>1. CASE AdvanceSetup(p)
  BY <1>1 DEF AdvanceSetup, Raise
<1>2. CASE SaveFirstCheckpoint(p) \/ ToolBudgetExceeded(p)
  BY <1>2 DEF SaveFirstCheckpoint, ToolBudgetExceeded, Step, Raise
<1>3. CASE ModelProposes(p)
  <2>1. PICK v : row' = [row EXCEPT !.ckpt = v, !.partial = FALSE]
    BY <1>3 DEF ModelProposes
  <2> QED BY <2>1
<1>4. CASE ModelFinishes(p)
  BY <1>4 DEF ModelFinishes, Step
<1>5. CASE PartialBoundary(p)
  BY <1>5 DEF PartialBoundary, Step
<1>6. CASE ModelFails(p)
  <2>1. \A malformed \in BOOLEAN : RecordedModelFailure(malformed) = row
    BY DEF RecordedModelFailure
  <2> QED BY <1>6, <2>1 DEF ModelFails, Step
<1>7. CASE BeginCall(p) \/ GuardCall(p) \/ StopBatch(p) \/ RecordResult(p)
  <2>1. \/ row' = row
        \/ \E v : row' = [row EXCEPT !.ckpt = v]
        \/ \E v : row' = [row EXCEPT !.ckpt = v, !.partial = FALSE]
    <3>1. CASE BeginCall(p)
      BY <3>1 DEF BeginCall, Step
    <3>2. CASE GuardCall(p) \/ StopBatch(p)
      BY <3>2 DEF GuardCall, StopBatch, Step
    <3>3. CASE RecordResult(p)
      BY <3>3 DEF RecordResult, Step
    <3> QED BY <1>7, <3>1, <3>2, <3>3
  <2>2. ASSUME NEW v, row' = [row EXCEPT !.ckpt = v] PROVE StateKept
    BY <2>2
  <2>3. ASSUME NEW v, row' = [row EXCEPT !.ckpt = v, !.partial = FALSE] PROVE StateKept
    BY <2>3
  <2> QED BY <2>1, <2>2, <2>3
<1> QED BY <1>1, <1>2, <1>3, <1>4, <1>5, <1>6, <1>7

LEMMA InvokingEnds ==
  ASSUME Held, row.state \in TerminalStates, NEW p \in Procs,
         \/ InvokeRefused(p) \/ ReuseResult(p) \/ RecoverUnknown(p) \/ RecoverRun(p)
         \/ PolicyDenies(p) \/ AskApproval(p) \/ AskUser(p) \/ Prepare(p)
         \/ MarkRunning(p) \/ ProviderReturns(p) \/ VersionConflict(p)
         \/ CompleteVerify(p) \/ CompleteFinalize(p) \/ CompleteSucceed(p)
         \/ ResumeOpen(p) \/ ResumeSave(p)
  PROVE  StateKept
<1> USE EndedFacts, StateOfRow DEF StateKept
<1>1. CASE InvokeRefused(p) \/ VersionConflict(p)
  BY <1>1 DEF InvokeRefused, VersionConflict, Raise
<1>2. CASE \/ ReuseResult(p) \/ RecoverUnknown(p) \/ RecoverRun(p) \/ PolicyDenies(p)
           \/ AskApproval(p) \/ AskUser(p) \/ Prepare(p)
  BY <1>2 DEF ReuseResult, RecoverUnknown, RecoverRun, PolicyDenies, AskApproval, AskUser, Prepare
<1>3. CASE MarkRunning(p)
  BY <1>3 DEF MarkRunning, StartProvider
<1>4. CASE ProviderReturns(p)
  BY <1>4 DEF ProviderReturns, Step
<1>5. CASE CompleteVerify(p) \/ CompleteFinalize(p) \/ CompleteSucceed(p)
  BY <1>5 DEF CompleteVerify, CompleteFinalize, CompleteSucceed, CompleteHop, Raise
<1>6. CASE ResumeOpen(p)
  BY <1>6 DEF ResumeOpen, MayResume, Raise
<1>7. CASE ResumeSave(p)
  BY <1>7 DEF ResumeSave, Step
<1> QED BY <1>1, <1>2, <1>3, <1>4, <1>5, <1>6, <1>7

LEMMA OutsideEnds ==
  ASSUME Held, row.state \in TerminalStates, NEW p \in Procs,
         UserStep(p) \/ CancelStep(p) \/ SettlingStep(p) \/ BeginSettling(p) \/ Crash(p)
  PROVE  StateKept
<1> USE EndedFacts, StateOfRow DEF StateKept
<1>1. CASE \/ StartTurn(p) \/ FreshTurn(p) \/ SupersedeConversation(p) \/ ResolveApproval(p)
           \/ AnswerUser(p) \/ SupersedeApproval(p) \/ Interrupt(p) \/ CancelBegin(p)
           \/ ResumeReconciled(p) \/ ResumeUnchanged(p) \/ ResumeConflict(p) \/ ResumeRefused(p)
  BY <1>1 DEF StartTurn, FreshTurn, SupersedeConversation, ResolveApproval, AnswerUser,
              SupersedeApproval, Interrupt, CancelBegin, ResumeReconciled, ResumeUnchanged,
              ResumeConflict, ResumeRefused, MayContinue, ConversationRestartable
<1>2. CASE ApprovalConflict(p)
  BY <1>2 DEF ApprovalConflict
<1>3. CASE CancelStep(p)
  BY <1>3 DEF CancelStep, CancelCommit, CancelDone
<1>4. CASE SettlingStep(p) \/ BeginSettling(p) \/ Crash(p)
  BY <1>4 DEF SettlingStep, SettleStep, EndSettling, BeginSettling, Crash
<1> QED BY <1>1, <1>2, <1>3, <1>4 DEF UserStep

\* The row an approval carries was EXECUTING when it was committed, so it is not
\* the row of a Task that has ended.
LEMMA ApprovalOverwrites ==
  ASSUME Held, row.state \in TerminalStates, NEW p \in Procs, PrepareApproved(p)
  PROVE  drv[p].pc = "approved" /\ drv'[p].pc = "prepared" /\ drv[p].snap # row
<1>1. drv \in [Procs -> Driver] /\ drv[p].pc = "approved"
  BY DEF PrepareApproved, DriverAt, Held, Inv, TypeOK
<1>2. drv[p].snap.state = "EXECUTING"
  BY <1>1 DEF Held, Inv, GoodDriver
<1>3. drv'[p] = [drv[p] EXCEPT !.pc = "prepared", !.snap = None]
  BY <1>1 DEF PrepareApproved, Step
<1>4. drv[p] \in Driver
  BY <1>1
<1>5. drv'[p].pc = "prepared"
  BY <1>3, <1>4 DEF Driver
<1> QED BY <1>1, <1>2, <1>5, EndedFacts

\* Whatever processes act on one Task, an end it has come to is left only by the
\* start of an approved tool whose remembered row is another than the one in the
\* store (_execute_authorized_tool with next_state).
THEOREM OnlyApprovalsOverwrite == Spec => OnlyApprovalsOverwriteEnds
<1> DEFINE EndLeft ==
      row.state \in TerminalStates =>
        \/ row'.state = row.state
        \/ \E p \in Procs : /\ drv[p].pc = "approved" /\ drv'[p].pc = "prepared"
                            /\ drv[p].snap # row
<1>1. ASSUME Held, Next, row.state \in TerminalStates
      PROVE  EndLeft
  <2>1. ASSUME NEW p \in Procs, DriverStep(p)
        PROVE  EndLeft
    BY <1>1, <2>1, SamplingEnds, InvokingEnds, ApprovalOverwrites DEF DriverStep, StateKept
  <2>2. ASSUME NEW p \in Procs,
               UserStep(p) \/ CancelStep(p) \/ SettlingStep(p) \/ BeginSettling(p) \/ Crash(p)
        PROVE  EndLeft
    BY <1>1, <2>2, OutsideEnds DEF StateKept
  <2> QED BY <1>1, <2>1, <2>2 DEF Next
<1>2. Held /\ [Next]_vars => [EndLeft]_vars
  BY <1>1
<1> QED BY <1>2, HeldAlways, PTL DEF Spec, OnlyApprovalsOverwriteEnds
=============================================================================
