-------------------------- MODULE ToolBatch_proofs --------------------------
(***************************************************************************)
(* For every batch, order and limit: the gate's lock is held by the worker *)
(* that keeps the books, every call is answered once, a stopped batch      *)
(* starts nothing, the batch implements SharedCalls, and an open group can *)
(* always go on and only goes forward.                                     *)
(***************************************************************************)
EXTENDS ToolBatch, SequenceTheorems, FiniteSetTheorems, TLAPS

Shape ==
  /\ pc \in [Calls -> WorkerState]
  /\ running \subseteq Calls
  /\ pending \subseteq Calls
  /\ results \subseteq Calls
  /\ declined \subseteq Calls
  /\ stopped \in BOOLEAN
  /\ parallel \in BOOLEAN

\* gate.running names exactly the workers that have given the lock up to
\* observe and have not taken it back.
InFlight == running = {c \in Calls : pc[c] \in {"observing", "reacquire"}}

\* An unsafe provider is invoked only while no sibling is in flight.
NobodyBeside == \A c \in Calls : pc[c] = "alone" => running = {}

\* Without a gate the Turn's coroutine runs one call, and never gives a lock up.
OneBySelf ==
  ~parallel =>
    \A c, d \in Calls :
      /\ pc[c] \in {"idle", "guards", "alone", "recording", "done"}
      /\ pc[c] # "idle" /\ pc[d] # "idle" => c = d

\* Outside a group every worker of the last one has ended.
BetweenGroups == batch \in {"loop"} \cup Ended => GroupDone

\* A call is pending for as long as its worker may still answer it; only a
\* worker at the lock may find its call declined, and it finds the gate stopped.
Owed ==
  \A c \in Calls :
    /\ pc[c] \notin {"idle", "waiting", "done"} => c \in pending
    /\ pc[c] = "waiting" => c \in pending \/ stopped
    /\ pc[c] \in {"draining", "redrain"} => stopped
    /\ pc[c] = "guards" /\ parallel => ~stopped

Inv ==
  /\ Shape
  /\ LockMatchesWorkers
  /\ InFlight
  /\ NobodyBeside
  /\ OneBySelf
  /\ BetweenGroups
  /\ AnsweredOnce
  /\ Owed

LEMMA InitInv == Init => Inv
  BY NoneAssumption
  DEF Init, Inv, Shape, WorkerState, LockMatchesWorkers, InFlight, NobodyBeside,
      OneBySelf, BetweenGroups, GroupDone, Group, AnsweredOnce, Owed, gate

\* The steps of the Turn's coroutine move no worker, except to form a group.
LEMMA TurnKeeps == Inv /\ (Turn \/ Interrupt) => Inv'
<1> SUFFICES ASSUME Inv, Turn \/ Interrupt PROVE Inv'
  OBVIOUS
<1> USE NoneAssumption
<1>1. CASE StartGroup
  <2>1. Leading \subseteq pending
    BY DEF Leading
  <2>2. GroupDone
    BY <1>1 DEF StartGroup, Inv, BetweenGroups
  <2>3. Shape' /\ InFlight' /\ NobodyBeside' /\ OneBySelf' /\ BetweenGroups'
    BY <1>1, <2>1
    DEF StartGroup, FreshGate, Inv, Shape, WorkerState, InFlight, NobodyBeside,
        OneBySelf, BetweenGroups, Ended
  <2>4. LockMatchesWorkers' /\ AnsweredOnce' /\ Owed'
    BY <1>1, <2>1
    DEF StartGroup, FreshGate, Inv, Shape, LockMatchesWorkers, AnsweredOnce, Owed
  <2> QED
    BY <2>3, <2>4 DEF Inv
<1>2. CASE StartSerial
  <2>1. PICK first \in pending :
          pc' = [c \in Calls |-> IF c = first THEN "guards" ELSE "idle"]
    BY <1>2 DEF StartSerial
  <2>2. Shape' /\ InFlight' /\ NobodyBeside' /\ OneBySelf' /\ BetweenGroups'
    BY <1>2, <2>1
    DEF StartSerial, FreshGate, Inv, Shape, WorkerState, InFlight, NobodyBeside,
        OneBySelf, BetweenGroups, Ended
  <2>3. LockMatchesWorkers' /\ AnsweredOnce' /\ Owed'
    BY <1>2, <2>1
    DEF StartSerial, FreshGate, Inv, Shape, LockMatchesWorkers, AnsweredOnce, Owed
  <2> QED
    BY <2>2, <2>3 DEF Inv
<1>3. CASE Finish \/ GroupReturns \/ Abort \/ Raise \/ Interrupt
  <2>1. BetweenGroups'
    BY <1>3
    DEF Finish, GroupReturns, Abort, Raise, Interrupt, Inv, BetweenGroups,
        GroupDone, Group, Ended
  <2>2. UNCHANGED <<pc, parallel, holder, running, stopped, pending, results, declined>>
    BY <1>3 DEF Finish, GroupReturns, Abort, Raise, Interrupt, gate
  <2> QED
    BY <2>1, <2>2
    DEF Inv, Shape, LockMatchesWorkers, InFlight, NobodyBeside, OneBySelf,
        AnsweredOnce, Owed
<1> QED
  BY <1>1, <1>2, <1>3 DEF Turn

\* A worker moves alone: what one of its steps may do to the others.
LEMMA WorkerKeeps ==
  ASSUME Inv, NEW c \in Calls, Worker(c)
  PROVE  Inv'
<1> USE NoneAssumption
<1> USE DEF Runs, Goto
<1>0. Shape /\ LockMatchesWorkers /\ InFlight /\ NobodyBeside /\ OneBySelf
        /\ BetweenGroups /\ AnsweredOnce /\ Owed
  BY DEF Inv
<1>1. pc[c] \notin {"idle", "done"}
  BY DEF Worker, Acquire, GuardAnswers, StopBatch, Suspends, Observe, StartUnsafe,
         ObservationEnds, Wake, TakeBack, TakeBackAndRaise, Recheck,
         RecheckAndRaise, AloneEnds, Record, RaiseHoldingLock, CancelWaiting,
         CancelUnlocked, Reacquires
<1>2. batch' = batch /\ parallel' = parallel
  BY DEF Worker, Acquire, GuardAnswers, StopBatch, Suspends, Observe, StartUnsafe,
         ObservationEnds, Wake, TakeBack, TakeBackAndRaise, Recheck,
         RecheckAndRaise, AloneEnds, Record, RaiseHoldingLock, CancelWaiting,
         CancelUnlocked
<1>3. BetweenGroups'
  BY <1>0, <1>1, <1>2 DEF BetweenGroups, GroupDone, Group
<1> USE DEF Shape, WorkerState, LockMatchesWorkers, InFlight, NobodyBeside,
            OneBySelf, AnsweredOnce, Owed
<1>4. CASE Acquire(c)
  BY <1>0, <1>3, <1>4 DEF Acquire, Inv
<1>5. CASE GuardAnswers(c)
  <2>1. Shape' /\ LockMatchesWorkers'
    BY <1>0, <1>5 DEF GuardAnswers, Leave
  <2>2. InFlight' /\ NobodyBeside' /\ OneBySelf'
    BY <1>0, <1>5 DEF GuardAnswers, Leave
  <2>3. AnsweredOnce' /\ Owed'
    BY <1>0, <1>5 DEF GuardAnswers, Leave
  <2> QED
    BY <1>3, <2>1, <2>2, <2>3 DEF Inv
<1>6. CASE StopBatch(c)
  <2>1. Shape' /\ LockMatchesWorkers'
    BY <1>0, <1>6 DEF StopBatch, Leave
  <2>2. InFlight' /\ NobodyBeside' /\ OneBySelf'
    BY <1>0, <1>6 DEF StopBatch, Leave
  <2>3. AnsweredOnce' /\ Owed'
    BY <1>0, <1>6 DEF StopBatch, Leave
  <2> QED
    BY <1>3, <2>1, <2>2, <2>3 DEF Inv
<1>7. CASE Suspends(c)
  <2>1. Shape' /\ LockMatchesWorkers'
    BY <1>0, <1>7 DEF Suspends, Leave
  <2>2. InFlight' /\ NobodyBeside' /\ OneBySelf'
    BY <1>0, <1>7 DEF Suspends, Leave
  <2>3. AnsweredOnce' /\ Owed'
    BY <1>0, <1>7 DEF Suspends, Leave
  <2> QED
    BY <1>3, <2>1, <2>2, <2>3 DEF Inv
<1>8. CASE Observe(c)
  <2>1. Shape' /\ LockMatchesWorkers'
    BY <1>0, <1>8 DEF Observe
  <2>2. InFlight' /\ NobodyBeside' /\ OneBySelf'
    BY <1>0, <1>8 DEF Observe
  <2>3. AnsweredOnce' /\ Owed'
    BY <1>0, <1>8 DEF Observe
  <2> QED
    BY <1>3, <2>1, <2>2, <2>3 DEF Inv
<1>9. CASE StartUnsafe(c)
  <2>1. Shape' /\ LockMatchesWorkers'
    BY <1>0, <1>9 DEF StartUnsafe
  <2>2. InFlight' /\ NobodyBeside' /\ OneBySelf'
    BY <1>0, <1>9 DEF StartUnsafe
  <2>3. AnsweredOnce' /\ Owed'
    BY <1>0, <1>9 DEF StartUnsafe
  <2> QED
    BY <1>3, <2>1, <2>2, <2>3 DEF Inv
<1>10. CASE ObservationEnds(c)
  BY <1>0, <1>3, <1>10 DEF ObservationEnds, Inv
<1>11. CASE Wake(c)
  BY <1>0, <1>3, <1>11 DEF Wake, Inv
<1>12. CASE TakeBack(c)
  BY <1>0, <1>3, <1>12 DEF TakeBack, Reacquires, Inv
<1>13. CASE TakeBackAndRaise(c)
  BY <1>0, <1>3, <1>13 DEF TakeBackAndRaise, Reacquires, Inv
<1>14. CASE Recheck(c)
  BY <1>0, <1>3, <1>14 DEF Recheck, Reacquires, Inv
<1>15. CASE RecheckAndRaise(c)
  BY <1>0, <1>3, <1>15 DEF RecheckAndRaise, Reacquires, Inv
<1>16. CASE AloneEnds(c)
  BY <1>0, <1>3, <1>16 DEF AloneEnds, gate, Inv
<1>17. CASE Record(c)
  BY <1>0, <1>3, <1>17 DEF Record, Leave, Inv
<1>18. CASE RaiseHoldingLock(c)
  BY <1>0, <1>3, <1>18 DEF RaiseHoldingLock, Leave, Inv
<1>19. CASE CancelWaiting(c)
  BY <1>0, <1>3, <1>19 DEF CancelWaiting, Inv
<1>20. CASE CancelUnlocked(c)
  BY <1>0, <1>3, <1>20 DEF CancelUnlocked, Inv
<1> QED
  BY <1>4, <1>5, <1>6, <1>7, <1>8, <1>9, <1>10, <1>11, <1>12, <1>13, <1>14,
     <1>15, <1>16, <1>17, <1>18, <1>19, <1>20 DEF Worker

LEMMA StepKeeps == Inv /\ [Next]_vars => Inv'
<1>1. CASE UNCHANGED vars
  BY <1>1
  DEF vars, gate, Inv, Shape, LockMatchesWorkers, InFlight, NobodyBeside,
      OneBySelf, BetweenGroups, GroupDone, Group, AnsweredOnce, Owed
<1> QED
  BY <1>1, TurnKeeps, WorkerKeeps DEF Next

THEOREM Invariance == Spec => []Inv
  BY InitInv, StepKeeps, PTL DEF Spec

\* The lock is held by exactly the worker that keeps the books, through every
\* cancellation and failure (ToolExecutionGate._reacquire).
THEOREM LockHeldByBookkeeper == Spec => []LockMatchesWorkers
  BY Invariance, PTL DEF Inv

\* Every call is pending, answered or declined, and only one of them, although
\* workers finish out of order (_complete_pending_call, the no-progress stop).
THEOREM EachCallAnsweredOnce == Spec => []AnsweredOnce
  BY Invariance, PTL DEF Inv

-----------------------------------------------------------------------------
\* Only one call is ever invoked alone, so the refinement mapping names it.
LEMMA AloneIsThatCall ==
  ASSUME Inv, NEW c \in Calls, pc[c] = "alone"
  PROVE  Alone = c
<1>1. \A d \in Calls : pc[d] = "alone" => d = c
  BY NoneAssumption DEF Inv, LockMatchesWorkers, OneBySelf
<1> QED
  BY <1>1 DEF Alone

LEMMA InitImplements == Init => SC!Init
  BY DEF Init, SC!Init, Observing, Alone

\* A worker that neither starts nor ends a provider is a stutter of SharedCalls.
LEMMA QuietStep ==
  ASSUME \A c \in Calls : /\ pc[c] = "observing" <=> pc'[c] = "observing"
                          /\ pc[c] = "alone" <=> pc'[c] = "alone"
  PROVE  UNCHANGED SC!vars
<1>1. Observing' = Observing
  BY DEF Observing
<1>2. Alone' = Alone
  <2>1. {c \in Calls : pc'[c] = "alone"} = {c \in Calls : pc[c] = "alone"}
    OBVIOUS
  <2>2. Alone = IF {c \in Calls : pc[c] = "alone"} # {}
                  THEN CHOOSE c \in Calls : pc[c] = "alone" ELSE None
    BY DEF Alone
  <2> QED
    BY DEF Alone
<1> QED
  BY <1>1, <1>2 DEF SC!vars

LEMMA StepImplements == Inv /\ Inv' /\ [Next]_vars => [SC!Next]_SC!vars
<1> SUFFICES ASSUME Inv, Inv', [Next]_vars PROVE [SC!Next]_SC!vars
  OBVIOUS
<1> USE DEF Runs, Goto
<1>0. pc \in [Calls -> WorkerState]
  BY DEF Inv, Shape
<1>1. CASE UNCHANGED vars
  BY <1>1, QuietStep DEF vars
<1>2. CASE Turn \/ Interrupt
  <2>1. CASE StartGroup \/ StartSerial
    <3>1. GroupDone
      BY <2>1 DEF StartGroup, StartSerial, Inv, BetweenGroups
    <3>2. \A c \in Calls : pc'[c] \in {"idle", "waiting", "guards"}
      BY <2>1 DEF StartGroup, StartSerial
    <3> QED
      BY <3>1, <3>2, QuietStep DEF GroupDone, Group
  <2>2. CASE Finish \/ GroupReturns \/ Abort \/ Raise \/ Interrupt
    <3>1. pc' = pc
      BY <2>2 DEF Finish, GroupReturns, Abort, Raise, Interrupt
    <3> QED
      BY <3>1, QuietStep
  <2> QED
    BY <1>2, <2>1, <2>2 DEF Turn
<1>3. ASSUME NEW c \in Calls, Worker(c) PROVE [SC!Next]_SC!vars
  <2>1. CASE Observe(c)
    <3>1. holder = c /\ pc[c] = "guards" /\ pc' = [pc EXCEPT ![c] = "observing"]
      BY <2>1 DEF Observe, Inv, LockMatchesWorkers
    <3>2. \A d \in Calls : pc[d] # "alone" /\ pc'[d] # "alone"
      BY <1>0, <2>1, <3>1 DEF Observe, Inv, LockMatchesWorkers
    <3>3. Alone = None /\ Alone' = None
      BY <3>2 DEF Alone
    <3>4. c \notin Observing /\ Observing' = Observing \cup {c}
      BY <1>0, <3>1 DEF Observing
    <3> QED
      BY <3>3, <3>4 DEF SC!Next, SC!Observe
  <2>2. CASE pc[c] = "observing"
    <3>1. pc' = [pc EXCEPT ![c] = "reacquire"]
      BY <2>2, <1>3
      DEF Worker, Acquire, GuardAnswers, StopBatch, Suspends, Observe, StartUnsafe,
          ObservationEnds, Wake, TakeBack, TakeBackAndRaise, Recheck,
          RecheckAndRaise, AloneEnds, Record, RaiseHoldingLock, CancelWaiting,
          CancelUnlocked, Reacquires
    <3>2. c \in Observing /\ Observing' = Observing \ {c}
      BY <1>0, <2>2, <3>1 DEF Observing
    <3>3. \A d \in Calls : pc[d] = "alone" <=> pc'[d] = "alone"
      BY <1>0, <2>2, <3>1
    <3>4. Alone' = Alone
      BY <2>2, <3>3 DEF Alone, Inv, NobodyBeside, InFlight
    <3> QED
      BY <3>2, <3>4 DEF SC!Next, SC!EndObservation
  <2>3. CASE pc[c] # "alone" /\ pc'[c] = "alone"
    <3>1. pc' = [pc EXCEPT ![c] = "alone"]
      BY <2>3, <1>0, <1>3
      DEF Worker, Acquire, GuardAnswers, StopBatch, Suspends, Observe, StartUnsafe,
          ObservationEnds, Wake, TakeBack, TakeBackAndRaise, Recheck,
          RecheckAndRaise, AloneEnds, Record, RaiseHoldingLock, CancelWaiting,
          CancelUnlocked, Reacquires, Leave
    <3>2. \A d \in Calls \ {c} : pc[d] # "alone"
      BY <1>0, <2>3, <3>1, NoneAssumption DEF Inv, LockMatchesWorkers, OneBySelf
    <3>3. Alone = None /\ Alone' = c
      BY <1>0, <2>3, <3>1, <3>2 DEF Alone
    <3>4. Observing = {} /\ Observing' = {}
      <4>1. running' = {}
        BY <2>3 DEF Inv, NobodyBeside
      <4>2. Observing' = {}
        BY <4>1 DEF Observing, Inv, InFlight
      <4> QED
        <5>1. \A d \in Calls : pc'[d] # "observing"
          BY <4>2 DEF Observing
        <5>2. pc[c] # "observing"
          BY <1>0, <1>3, <2>3
          DEF Worker, Acquire, GuardAnswers, StopBatch, Suspends, Observe, StartUnsafe,
              ObservationEnds, Wake, TakeBack, TakeBackAndRaise, Recheck,
              RecheckAndRaise, AloneEnds, Record, RaiseHoldingLock, CancelWaiting,
              CancelUnlocked, Reacquires, Leave
        <5> QED
          BY <1>0, <3>1, <4>2, <5>1, <5>2 DEF Observing
    <3> QED
      BY <3>3, <3>4 DEF SC!Next, SC!InvokeAlone
  <2>4. CASE pc[c] = "alone"
    <3>1. pc' = [pc EXCEPT ![c] = "recording"] \/ pc' = [pc EXCEPT ![c] = "done"]
      BY <2>4, <1>3
      DEF Worker, Acquire, GuardAnswers, StopBatch, Suspends, Observe, StartUnsafe,
          ObservationEnds, Wake, TakeBack, TakeBackAndRaise, Recheck,
          RecheckAndRaise, AloneEnds, Record, RaiseHoldingLock, CancelWaiting,
          CancelUnlocked, Reacquires, Leave
    <3>2. \A d \in Calls \ {c} : pc[d] # "alone"
      BY <2>4, NoneAssumption DEF Inv, LockMatchesWorkers, OneBySelf
    <3>3. Alone = c /\ Alone' = None
      BY <1>0, <2>4, <3>1, <3>2, AloneIsThatCall DEF Alone
    <3>4. Observing' = Observing
      BY <1>0, <2>4, <3>1 DEF Observing
    <3> QED
      BY <3>3, <3>4 DEF SC!Next, SC!EndAlone
  <2>5. CASE /\ ~Observe(c) /\ pc[c] \notin {"observing", "alone"}
             /\ pc'[c] # "alone"
    <3>1. /\ \A d \in Calls \ {c} : pc'[d] = pc[d]
          /\ pc'[c] # "observing"
      BY <1>0, <1>3, <2>5
      DEF Worker, Acquire, GuardAnswers, StopBatch, Suspends, StartUnsafe,
          ObservationEnds, Wake, TakeBack, TakeBackAndRaise, Recheck,
          RecheckAndRaise, AloneEnds, Record, RaiseHoldingLock, CancelWaiting,
          CancelUnlocked, Reacquires, Leave
    <3> QED
      BY <2>5, <3>1, QuietStep
  <2> QED
    BY <2>1, <2>2, <2>3, <2>4, <2>5
<1> QED
  BY <1>1, <1>2, <1>3 DEF Next

\* run_tool_batch implements SharedCalls: an unsafe provider runs by itself,
\* through any recheck, drain, failure and cancellation.
THEOREM BatchImplementsSharedCalls == Spec => UnsafeRunsAlone
<1>1. Init => SC!Init
  BY InitImplements
<1>2. Inv /\ Inv' /\ [Next]_vars => [SC!Next]_SC!vars
  BY StepImplements
<1> QED
  BY <1>1, <1>2, Invariance, PTL DEF Spec, UnsafeRunsAlone, SC!Spec

-----------------------------------------------------------------------------
(***************************************************************************)
(* A batch that was stopped starts nothing.  Behind the gate a worker that *)
(* queued for the lock finds gate.stopped; between groups it is the list   *)
(* of pending calls that says so: a suspension leaves the batch, and a     *)
(* stop leaves no call pending but those in flight, which are answered or  *)
(* fail the batch.                                                         *)
(***************************************************************************)

\* Where the worker of a call is that was in flight when the batch was stopped.
Returning(c) ==
  \/ pc[c] \in {"observing", "reacquire", "recording"}
  \/ pc[c] = "done" /\ failed # {}

NothingToStart ==
  /\ batch = "loop" => outcomes = {} /\ failed = {}
  /\ outcomes # {} => /\ parallel => stopped
                      /\ \A c \in Calls : pc[c] # "guards"
  /\ declined # {} => \A c \in pending : Returning(c)

\* No worker is at the guards once the Turn is suspended or calls are declined.
LEMMA NobodyAtGuards ==
  ASSUME Inv, NothingToStart, outcomes # {} \/ declined # {}
  PROVE  \A c \in Calls : pc[c] # "guards"
BY DEF Inv, Owed, NothingToStart, Returning

LEMMA TurnStartsNothing ==
  ASSUME Inv, NothingToStart, Turn \/ Interrupt
  PROVE  NothingToStart'
<1>1. CASE StartGroup \/ StartSerial
  <2>1. batch = "loop" /\ GroupDone /\ outcomes = {} /\ failed = {}
    BY <1>1 DEF StartGroup, StartSerial, Inv, BetweenGroups, NothingToStart
  <2>2. declined # {} => pending = {}
    BY <2>1 DEF NothingToStart, Returning, GroupDone, Group, Inv, Shape
  <2>3. batch' = "gather" /\ UNCHANGED <<outcomes, declined, pending>>
    BY <1>1 DEF StartGroup, StartSerial
  <2> QED BY <2>1, <2>2, <2>3 DEF NothingToStart
<1>2. CASE GroupReturns
  <2>1. /\ failed = {} /\ (batch' = "loop" => outcomes = {})
        /\ UNCHANGED <<pc, parallel, failed, stopped, outcomes, pending, declined>>
    BY <1>2 DEF GroupReturns, gate
  <2> QED BY <2>1 DEF NothingToStart, Returning
<1>3. CASE Finish \/ Abort \/ Raise \/ Interrupt
  <2>1. batch' # "loop" \/ batch' = batch
    BY <1>3 DEF Finish, Abort, Raise, Interrupt
  <2>2. UNCHANGED <<pc, parallel, failed, stopped, outcomes, pending, declined>>
    BY <1>3 DEF Finish, Abort, Raise, Interrupt, gate
  <2> QED BY <2>1, <2>2 DEF NothingToStart, Returning
<1> QED BY <1>1, <1>2, <1>3 DEF Turn

LEMMA WorkerStartsNothing ==
  ASSUME Inv, NothingToStart, NEW c \in Calls, Worker(c)
  PROVE  NothingToStart'
<1> USE NoneAssumption
<1> USE DEF Runs, Goto
<1>0. /\ pc \in [Calls -> WorkerState] /\ pending \subseteq Calls /\ running \subseteq Calls
      /\ stopped \in BOOLEAN /\ parallel \in BOOLEAN
  BY DEF Inv, Shape
<1>1. pc[c] \notin {"idle", "done"}
  BY DEF Worker, Acquire, GuardAnswers, StopBatch, Suspends, Observe, StartUnsafe,
         ObservationEnds, Wake, TakeBack, TakeBackAndRaise, Recheck,
         RecheckAndRaise, AloneEnds, Record, RaiseHoldingLock, CancelWaiting,
         CancelUnlocked, Reacquires
<1>2. batch # "loop" /\ batch' = batch
  <2>1. batch # "loop"
    BY <1>1 DEF Inv, BetweenGroups, GroupDone, Group
  <2>2. batch' = batch
    BY DEF Worker, Acquire, GuardAnswers, StopBatch, Suspends, Observe, StartUnsafe,
         ObservationEnds, Wake, TakeBack, TakeBackAndRaise, Recheck,
         RecheckAndRaise, AloneEnds, Record, RaiseHoldingLock, CancelWaiting,
         CancelUnlocked
  <2> QED BY <2>1, <2>2
<1>3. CASE Acquire(c)
  <2>1. /\ parallel /\ pc[c] = "waiting"
        /\ pc' = [pc EXCEPT ![c] = IF stopped THEN "done" ELSE "guards"]
        /\ UNCHANGED <<parallel, stopped, failed, outcomes, pending, declined>>
    BY <1>3 DEF Acquire, Inv, OneBySelf
  <2>2. outcomes # {} => stopped
    BY <2>1 DEF NothingToStart
  <2>3. declined # {} => c \notin pending
    BY <2>1 DEF NothingToStart, Returning
  <2> QED BY <1>0, <1>2, <2>1, <2>2, <2>3 DEF NothingToStart, Returning
<1>4. CASE Suspends(c)
  <2>1. /\ pc' = [pc EXCEPT ![c] = "done"] /\ stopped' = parallel
        /\ UNCHANGED <<parallel, failed, pending, declined>> /\ pc[c] = "guards"
    BY <1>4 DEF Suspends, Leave
  <2>2. \A d \in Calls \ {c} : pc[d] # "guards"
    BY <2>1 DEF Inv, LockMatchesWorkers, OneBySelf
  <2>3. declined = {}
    BY <2>1, NobodyAtGuards
  <2> QED BY <1>0, <1>2, <2>1, <2>2, <2>3 DEF NothingToStart
<1>5. CASE StopBatch(c)
  <2>1. /\ pc' = [pc EXCEPT ![c] = "done"] /\ pending' = pending \cap running
        /\ UNCHANGED <<outcomes, parallel, failed>> /\ pc[c] = "guards"
    BY <1>5 DEF StopBatch, Leave
  <2>2. outcomes = {}
    BY <2>1, NobodyAtGuards
  <2>3. \A d \in pending' : d # c /\ pc[d] \in {"observing", "reacquire"}
    BY <2>1 DEF Inv, InFlight
  <2> QED BY <1>0, <1>2, <2>1, <2>2, <2>3 DEF NothingToStart, Returning
<1>6. CASE GuardAnswers(c) \/ Observe(c) \/ StartUnsafe(c)
  <2>1. pc[c] = "guards" /\ pc'[c] # "guards" /\ UNCHANGED <<outcomes, declined>>
    BY <1>0, <1>6 DEF GuardAnswers, Observe, StartUnsafe, Leave
  <2>2. outcomes = {} /\ declined = {}
    BY <2>1, NobodyAtGuards
  <2> QED BY <1>2, <2>1, <2>2 DEF NothingToStart
<1>7. CASE \/ ObservationEnds(c) \/ TakeBack(c) \/ TakeBackAndRaise(c)
           \/ (CancelUnlocked(c) /\ pc[c] = "observing")
  <2>1. /\ \/ pc' = [pc EXCEPT ![c] = "reacquire"] /\ failed' = failed
           \/ pc' = [pc EXCEPT ![c] = "recording"] /\ failed' = failed
           \/ pc' = [pc EXCEPT ![c] = "done"] /\ failed' = failed \cup {c}
        /\ UNCHANGED <<parallel, stopped, outcomes, pending, declined>>
    BY <1>7 DEF ObservationEnds, TakeBack, TakeBackAndRaise, CancelUnlocked
  <2> QED BY <1>0, <1>2, <2>1 DEF NothingToStart, Returning
<1>8. CASE Record(c)
  <2>1. /\ pc' = [pc EXCEPT ![c] = "done"] /\ pending' = pending \ {c}
        /\ UNCHANGED <<parallel, stopped, outcomes, failed, declined>>
    BY <1>8 DEF Record, Leave
  <2> QED BY <1>0, <1>2, <2>1 DEF NothingToStart, Returning
<1>9. CASE RaiseHoldingLock(c) \/ CancelWaiting(c) \/ RecheckAndRaise(c)
  <2>1. /\ pc' = [pc EXCEPT ![c] = "done"] /\ failed' = failed \cup {c}
        /\ UNCHANGED <<parallel, stopped, outcomes, pending, declined>>
    BY <1>9 DEF RaiseHoldingLock, CancelWaiting, RecheckAndRaise, Leave
  <2> QED BY <1>0, <1>2, <2>1 DEF NothingToStart, Returning
<1>10. CASE \/ Wake(c) \/ Recheck(c) \/ AloneEnds(c)
            \/ (CancelUnlocked(c) /\ pc[c] = "draining")
  <2>1. /\ pc[c] \in {"draining", "redrain", "alone"}
        /\ \E where \in {"redrain", "alone", "draining", "recording"} :
             pc' = [pc EXCEPT ![c] = where]
        /\ UNCHANGED <<parallel, stopped, outcomes, failed, pending, declined>>
    BY <1>10 DEF Wake, Recheck, AloneEnds, CancelUnlocked, Reacquires, gate
  <2>2. declined # {} => c \notin pending
    BY <2>1 DEF NothingToStart, Returning
  <2> QED BY <1>0, <1>2, <2>1, <2>2 DEF NothingToStart, Returning
<1>11. CancelUnlocked(c) => pc[c] \in {"observing", "draining"}
  BY DEF CancelUnlocked
<1> QED
  BY <1>3, <1>4, <1>5, <1>6, <1>7, <1>8, <1>9, <1>10, <1>11 DEF Worker

\* A provider is running, or has run, only once its record says so.
Begun ==
  /\ ledger \in [Calls -> {"new", "running", "committed"}]
  /\ \A c \in Calls : pc[c] \in {"observing", "reacquire", "draining", "redrain", "alone"}
                      => ledger[c] # "new"

LEMMA BegunKeeps ==
  ASSUME Inv, Begun, [Next]_vars
  PROVE  Begun'
<1> USE DEF Begun
<1>0. pc \in [Calls -> WorkerState]
  BY DEF Inv, Shape
<1>1. CASE StartGroup \/ StartSerial
  <2>1. ledger' = ledger /\ \A c \in Calls : pc'[c] \in {"idle", "waiting", "guards"}
    BY <1>1 DEF StartGroup, StartSerial
  <2> QED BY <2>1
<1>2. CASE Finish \/ GroupReturns \/ Abort \/ Raise \/ Interrupt \/ UNCHANGED vars
  <2>1. UNCHANGED <<pc, ledger>>
    BY <1>2 DEF Finish, GroupReturns, Abort, Raise, Interrupt, vars
  <2> QED BY <2>1
<1>3. ASSUME NEW c \in Calls, Worker(c) PROVE Begun'
  <2>1. CASE Observe(c) \/ StartUnsafe(c)
    <3>1. /\ ledger' = [ledger EXCEPT ![c] = "running"]
          /\ \E where : pc' = [pc EXCEPT ![c] = where]
      BY <2>1 DEF Observe, StartUnsafe, Goto
    <3> QED BY <1>0, <3>1
  <2>2. CASE TakeBack(c) \/ AloneEnds(c)
    <3>1. /\ ledger' = [ledger EXCEPT ![c] = "committed"]
          /\ pc' = [pc EXCEPT ![c] = "recording"]
      BY <2>2 DEF TakeBack, AloneEnds, Goto
    <3> QED BY <1>0, <3>1
  <2>3. CASE ~Observe(c) /\ ~StartUnsafe(c) /\ ~TakeBack(c) /\ ~AloneEnds(c)
    <3>1. ledger' = ledger
      BY <1>3, <2>3
      DEF Worker, Acquire, GuardAnswers, StopBatch, Suspends, ObservationEnds, Wake,
          TakeBackAndRaise, Recheck, RecheckAndRaise, Record, RaiseHoldingLock,
          CancelWaiting, CancelUnlocked
    <3>2. \/ \E where \in {"done", "guards"} : pc' = [pc EXCEPT ![c] = where]
          \/ /\ pc[c] \in {"observing", "draining", "redrain"}
             /\ \E where : pc' = [pc EXCEPT ![c] = where]
      BY <1>3, <2>3
      DEF Worker, Acquire, GuardAnswers, StopBatch, Suspends, ObservationEnds, Wake,
          TakeBackAndRaise, Recheck, RecheckAndRaise, Record, RaiseHoldingLock,
          CancelWaiting, CancelUnlocked, Leave, Goto, Runs, Reacquires
    <3> QED BY <1>0, <3>1, <3>2
  <2> QED BY <2>1, <2>2, <2>3
<1> QED BY <1>1, <1>2, <1>3 DEF Next, Turn

\* Only a worker at the guards moves a record that is new.
LEMMA StartsAtGuards ==
  ASSUME Inv, Begun, [Next]_vars, NEW c \in Calls, ledger[c] = "new", ledger'[c] # "new"
  PROVE  \E d \in Calls : pc[d] = "guards"
<1>1. ledger' # ledger
  OBVIOUS
<1>2. CASE Turn \/ Interrupt \/ UNCHANGED vars
  BY <1>1, <1>2 DEF Turn, StartGroup, StartSerial, Finish, GroupReturns, Abort, Raise,
                    Interrupt, vars
<1>3. ASSUME NEW d \in Calls, Worker(d) PROVE pc[d] = "guards" \/ ledger'[c] = ledger[c]
  <2>1. CASE Observe(d) \/ StartUnsafe(d)
    BY <2>1 DEF Observe, StartUnsafe, Runs
  <2>2. CASE TakeBack(d) \/ AloneEnds(d)
    <3>1. ledger[d] # "new" /\ ledger' = [ledger EXCEPT ![d] = "committed"]
      BY <2>2 DEF TakeBack, AloneEnds, Reacquires, Runs, Begun
    <3> QED BY <3>1 DEF Begun
  <2>3. CASE ~Observe(d) /\ ~StartUnsafe(d) /\ ~TakeBack(d) /\ ~AloneEnds(d)
    BY <1>1, <1>3, <2>3
    DEF Worker, Acquire, GuardAnswers, StopBatch, Suspends, ObservationEnds, Wake,
        TakeBackAndRaise, Recheck, RecheckAndRaise, Record, RaiseHoldingLock,
        CancelWaiting, CancelUnlocked
  <2> QED BY <2>1, <2>2, <2>3
<1> QED BY <1>2, <1>3 DEF Next

LEMMA StopInvariance == Spec => [](Inv /\ Begun /\ NothingToStart)
<1>1. Init => Begun /\ NothingToStart
  BY DEF Init, Begun, NothingToStart
<1>2. Inv /\ Begun /\ NothingToStart /\ [Next]_vars => Begun' /\ NothingToStart'
  <2> SUFFICES ASSUME Inv, Begun, NothingToStart, [Next]_vars
               PROVE  Begun' /\ NothingToStart'
    OBVIOUS
  <2>1. CASE UNCHANGED vars
    BY <2>1, BegunKeeps DEF vars, gate, NothingToStart, Returning
  <2>2. CASE Next
    BY <2>2, BegunKeeps, TurnStartsNothing, WorkerStartsNothing DEF Next
  <2> QED BY <2>1, <2>2
<1> QED BY <1>1, <1>2, Invariance, PTL DEF Spec

\* StoppedStartsNothing: once a call has suspended the Turn or a stop has declined
\* calls, no provider of the batch starts any more (ToolExecutionGate.stopped, the
\* no-progress stop of run_tool_batch).
THEOREM StoppedBatchStartsNothing == Spec => StoppedStartsNothing
<1>1. Inv /\ Begun /\ NothingToStart /\ [Next]_vars =>
        (outcomes # {} \/ declined # {} =>
           \A c \in Calls : ledger[c] = "new" => ledger'[c] = "new")
  BY NobodyAtGuards, StartsAtGuards
<1> QED BY <1>1, StopInvariance, PTL DEF Spec, StoppedStartsNothing
-----------------------------------------------------------------------------
(***************************************************************************)
(* A call that was told it was not started has not been started.  A stop   *)
(* answers for every pending call that gate.running does not name, so the  *)
(* danger is a sibling that is back from its provider, off gate.running,   *)
(* and ends with its call pending.  The lock is what excludes it: it is    *)
(* first come first served, so a worker that comes back stands behind all  *)
(* those that still wait for their first turn.                             *)
(***************************************************************************)

InQueue == {"waiting", "reacquire", "redrain"}

\* The queue at the lock: each of its workers once, and those that wait for
\* their first turn before those that come back.
InLine ==
  /\ queue \in Seq(Calls)
  /\ \A i \in 1..Len(queue) : pc[queue[i]] \in InQueue
  /\ \A i, j \in 1..Len(queue) : queue[i] = queue[j] => i = j
  /\ \A i, j \in 1..Len(queue) :
       i < j /\ pc[queue[j]] = "waiting" => pc[queue[i]] = "waiting"

\* A pending call is started by its worker only, which ends with the call
\* still pending only when it fails.
Unstarted ==
  /\ \A c \in pending : pc[c] \in {"idle", "waiting", "guards"} => ledger[c] = "new"
  /\ \A c \in pending : pc[c] = "done" /\ ledger[c] # "new" => c \in failed
  /\ batch = "loop" => \A c \in pending : ledger[c] = "new"

\* Once a sibling is back from its provider nobody is before his anymore.
NobodyFresh ==
  /\ \A i \in 1..Len(queue) : pc[queue[i]] # "waiting"
  /\ \A d \in Calls : pc[d] # "guards"

Overtaken ==
  parallel /\ ~stopped =>
    /\ \A c \in Calls : pc[c] # "alone"
    /\ (\E c \in pending : pc[c] \in {"recording", "done"} /\ ledger[c] # "new")
         => NobodyFresh

\* r is q without its element i.
Without(r, q, i) ==
  /\ r \in Seq(Calls)
  /\ Len(r) = Len(q) - 1
  /\ \A j \in 1..Len(r) : r[j] = q[IF j < i THEN j ELSE j + 1]

LEMMA TailIsWithout ==
  ASSUME NEW q \in Seq(Calls), q # <<>>
  PROVE  /\ 1 \in 1..Len(q) /\ Head(q) = q[1]
         /\ Without(Tail(q), q, 1)
<1>1. Len(q) \in Nat \ {0}
  BY EmptySeq
<1>2. /\ Tail(q) \in Seq(Calls) /\ Len(Tail(q)) = Len(q) - 1
      /\ \A j \in 1..Len(Tail(q)) : Tail(q)[j] = q[j + 1]
  BY HeadTailProperties
<1>3. \A j \in 1..Len(Tail(q)) : ~(j < 1)
  BY <1>1, <1>2
<1>4. Without(Tail(q), q, 1)
  BY <1>2, <1>3 DEF Without
<1> QED BY <1>1, <1>4

LEMMA CutIsWithout ==
  ASSUME NEW q \in Seq(Calls), NEW i \in 1..Len(q)
  PROVE  Without(SubSeq(q, 1, i - 1) \o SubSeq(q, i + 1, Len(q)), q, i)
<1> DEFINE s == SubSeq(q, 1, i - 1)
           t == SubSeq(q, i + 1, Len(q))
           r == s \o t
           N == Len(q)
<1>1. N \in Nat /\ \A k \in 1..N : q[k] \in Calls
  BY ElementOfSeq, LenProperties
<1>2. /\ s \in Seq(Calls) /\ Len(s) = i - 1
      /\ \A j \in 1..(i - 1) : s[j] = q[j]
  <2>1. \A k \in 1..(i - 1) : q[k] \in Calls
    BY <1>1
  <2>2. /\ s \in Seq(Calls) /\ Len(s) = IF 1 <= i - 1 THEN (i - 1) - 1 + 1 ELSE 0
        /\ \A j \in 1..((i - 1) - 1 + 1) : s[j] = q[1 + j - 1]
    <3>1. 1 \in Int /\ i - 1 \in Int
      BY <1>1
    <3> QED BY <2>1, <3>1, SubSeqProperties
  <2> HIDE DEF s
  <2>3. (i - 1) - 1 + 1 = i - 1 /\ \A j \in 1..(i - 1) : 1 + j - 1 = j
    BY <1>1
  <2> QED BY <1>1, <2>2, <2>3
<1>3. /\ t \in Seq(Calls) /\ Len(t) = N - i
      /\ \A j \in 1..(N - i) : t[j] = q[i + j]
  <2>1. \A k \in (i + 1)..N : q[k] \in Calls
    BY <1>1
  <2>2. /\ t \in Seq(Calls) /\ Len(t) = IF i + 1 <= N THEN N - (i + 1) + 1 ELSE 0
        /\ \A j \in 1..(N - (i + 1) + 1) : t[j] = q[(i + 1) + j - 1]
    <3>1. i + 1 \in Int /\ N \in Int
      BY <1>1
    <3> QED BY <2>1, <3>1, SubSeqProperties
  <2> HIDE DEF t
  <2>3. N - (i + 1) + 1 = N - i /\ \A j \in 1..(N - i) : (i + 1) + j - 1 = i + j
    BY <1>1
  <2>4. Len(t) = N - i
    BY <1>1, <2>2
  <2>5. \A j \in 1..(N - i) : t[j] = q[(i + 1) + j - 1]
    BY <2>2, <2>3
  <2> QED BY <2>2, <2>3, <2>4, <2>5
<1> HIDE DEF s, t
<1>4. /\ r \in Seq(Calls) /\ Len(r) = Len(s) + Len(t)
      /\ \A j \in 1..(Len(s) + Len(t)) : r[j] = IF j <= Len(s) THEN s[j] ELSE t[j - Len(s)]
  BY <1>2, <1>3, ConcatProperties
<1> HIDE DEF r
<1>5. Len(r) = N - 1
  BY <1>1, <1>2, <1>3, <1>4
<1>6. ASSUME NEW j \in 1..Len(r) PROVE r[j] = q[IF j < i THEN j ELSE j + 1]
  <2>1. CASE j < i
    <3>1. j \in 1..(i - 1) /\ j <= Len(s) /\ j \in 1..(Len(s) + Len(t))
      BY <1>1, <1>2, <1>3, <1>5, <2>1
    <3> QED BY <2>1, <3>1, <1>2, <1>4
  <2>2. CASE ~(j < i)
    <3>1. /\ j - (i - 1) \in 1..(N - i) /\ ~(j <= Len(s)) /\ j \in 1..(Len(s) + Len(t))
          /\ i + (j - (i - 1)) = j + 1
      BY <1>1, <1>2, <1>3, <1>5, <2>2
    <3>2. r[j] = t[j - (i - 1)]
      BY <3>1, <1>2, <1>4
    <3>3. t[j - (i - 1)] = q[i + (j - (i - 1))]
      BY <3>1, <1>3
    <3> QED BY <2>2, <3>1, <3>2, <3>3
  <2> QED BY <2>1, <2>2
<1> QED BY <1>4, <1>5, <1>6 DEF Without, r, s, t

\* A worker leaves the line and moves on: the others stand as they stood.
LEMMA LeavingTheLine ==
  ASSUME Inv, InLine, NEW i \in 1..Len(queue), Without(queue', queue, i),
         NEW where, pc' = [pc EXCEPT ![queue[i]] = where]
  PROVE  InLine' /\ (\A j \in 1..Len(queue') : \E k \in 1..Len(queue) :
                       queue'[j] = queue[k] /\ pc'[queue'[j]] = pc[queue[k]])
<1> DEFINE At(j) == IF j < i THEN j ELSE j + 1
<1>1. Len(queue) \in Nat /\ \A k \in 1..Len(queue) : queue[k] \in Calls
  BY ElementOfSeq, LenProperties DEF InLine
<1>2. ASSUME NEW j \in 1..Len(queue')
      PROVE  At(j) \in 1..Len(queue) /\ At(j) # i /\ queue'[j] = queue[At(j)]
  BY <1>1, <1>2 DEF Without
<1>3. \A j, k \in 1..Len(queue') : /\ j < k => At(j) < At(k)
                                   /\ At(j) = At(k) => j = k
  BY <1>1 DEF Without
<1> HIDE DEF At
<1>4. \A j \in 1..Len(queue') : pc'[queue'[j]] = pc[queue[At(j)]]
  <2> SUFFICES ASSUME NEW j \in 1..Len(queue') PROVE pc'[queue'[j]] = pc[queue[At(j)]]
    OBVIOUS
  <2>1. queue[At(j)] # queue[i] /\ queue[At(j)] \in Calls
    BY <1>1, <1>2 DEF InLine
  <2> QED BY <1>2, <2>1 DEF Inv, Shape
<1>5. \A j \in 1..Len(queue') : pc'[queue'[j]] \in InQueue
  BY <1>2, <1>4 DEF InLine
<1>6. \A j, k \in 1..Len(queue') : queue'[j] = queue'[k] => j = k
  BY <1>2, <1>3 DEF InLine
<1>7. \A j, k \in 1..Len(queue') :
        j < k /\ pc'[queue'[k]] = "waiting" => pc'[queue'[j]] = "waiting"
  BY <1>2, <1>3, <1>4 DEF InLine
<1>8. queue' \in Seq(Calls)
  BY DEF Without
<1> QED BY <1>2, <1>4, <1>5, <1>6, <1>7, <1>8 DEF InLine

\* A worker that comes back queues at the end.
LEMMA JoiningTheLine ==
  ASSUME Inv, InLine, NEW c \in Calls, pc[c] \notin InQueue, queue' = Append(queue, c),
         NEW where \in {"reacquire", "redrain"}, pc' = [pc EXCEPT ![c] = where]
  PROVE  InLine' /\ (\A j \in 1..Len(queue') : pc'[queue'[j]] = "waiting" =>
                       j \in 1..Len(queue) /\ pc[queue[j]] = "waiting")
<1> DEFINE N == Len(queue)
<1>1. N \in Nat /\ \A k \in 1..N : queue[k] \in Calls
  BY ElementOfSeq, LenProperties DEF InLine
<1>2. /\ queue' \in Seq(Calls) /\ Len(queue') = N + 1 /\ queue'[N + 1] = c
      /\ \A k \in 1..N : queue'[k] = queue[k]
  BY AppendProperties DEF InLine
<1>3. \A k \in 1..N : queue[k] # c /\ pc'[queue[k]] = pc[queue[k]]
  BY <1>1 DEF InLine, Inv, Shape
<1>4. pc'[c] = where /\ where # "waiting" /\ where \in InQueue
  BY DEF Inv, Shape, InQueue
<1>5. \A j \in 1..Len(queue') : j \in 1..N \/ j = N + 1
  BY <1>1, <1>2
<1>6. \A j \in 1..N : j < N + 1 /\ ~(N + 1 < j)
  BY <1>1
<1> HIDE DEF N
<1>7. \A j \in 1..Len(queue') : pc'[queue'[j]] \in InQueue
  BY <1>2, <1>3, <1>4, <1>5 DEF InLine, N
<1>8. \A j, k \in 1..Len(queue') : queue'[j] = queue'[k] => j = k
  BY <1>2, <1>3, <1>5 DEF InLine, N
<1>9. \A j \in 1..Len(queue') : pc'[queue'[j]] = "waiting" => j \in 1..N /\ pc[queue[j]] = "waiting"
  BY <1>2, <1>3, <1>4, <1>5
<1>10. \A j, k \in 1..Len(queue') :
        j < k /\ pc'[queue'[k]] = "waiting" => pc'[queue'[j]] = "waiting"
  <2> SUFFICES ASSUME NEW j \in 1..Len(queue'), NEW k \in 1..Len(queue'),
                      j < k, pc'[queue'[k]] = "waiting"
               PROVE  pc'[queue'[j]] = "waiting"
    OBVIOUS
  <2>1. k \in 1..N /\ pc[queue[k]] = "waiting"
    BY <1>9
  <2>2. j \in 1..N
    BY <2>1, <1>5, <1>6
  <2>3. pc[queue[j]] = "waiting"
    BY <2>1, <2>2 DEF InLine, N
  <2> QED BY <2>2, <2>3, <1>2, <1>3
<1> QED BY <1>2, <1>7, <1>8, <1>9, <1>10 DEF InLine, N
LEMMA CallsAreFinite == IsFiniteSet(Calls)
<1>1. IsFiniteSet(1..Len(Order))
  BY FS_Interval, LenProperties, OrderAssumption DEF OrderAssumption
<1>2. Order \in Surjection(1..Len(Order), Calls)
  <2>1. Order \in [1..Len(Order) -> Calls]
    BY OrderAssumption, LenProperties DEF OrderAssumption
  <2> QED BY <2>1, OrderAssumption DEF OrderAssumption, Surjection
<1> QED BY <1>1, <1>2, FS_Surjection

\* The group queues up in the assistant's order, each worker once.
LEMMA GroupInLine ==
  ASSUME NEW S \in SUBSET Calls, NEW line \in InOrder(S)
  PROVE  /\ line \in Seq(Calls)
         /\ \A i \in 1..Len(line) : line[i] \in S
         /\ \A i, j \in 1..Len(line) : line[i] = line[j] => i = j
<1> DEFINE n == Cardinality(S)
<1>1. n \in Nat
  BY CallsAreFinite, FS_Subset, FS_CardinalityType
<1>2. /\ line \in [1..n -> S]
      /\ \A i, j \in 1..n : i < j => Position(line[i]) < Position(line[j])
  BY DEF InOrder
<1>3. \A c \in Calls : Position(c) \in 1..Len(Order)
  BY OrderAssumption DEF OrderAssumption, Position
<1>4. Len(Order) \in Nat
  BY OrderAssumption, LenProperties DEF OrderAssumption
<1> HIDE DEF n
<1>5. line \in [1..n -> Calls]
  BY <1>2
<1>6. line \in Seq(Calls)
  BY <1>1, <1>5, SeqDef
<1>7. Len(line) = n
  BY <1>1, <1>2, <1>6, LenProperties
<1>8. ASSUME NEW i \in 1..n, NEW j \in 1..n, i < j PROVE line[i] # line[j]
  <2>1. Position(line[i]) \in Nat /\ Position(line[i]) < Position(line[j])
    BY <1>2, <1>3, <1>4, <1>5, <1>8
  <2> QED BY <2>1
<1>9. \A i, j \in 1..n : i = j \/ i < j \/ j < i
  BY <1>1
<1> QED BY <1>2, <1>6, <1>7, <1>8, <1>9

LEMMA TurnLine ==
  ASSUME Inv, InLine, Turn \/ Interrupt
  PROVE  InLine'
<1>1. CASE StartGroup
  <2>1. PICK line \in InOrder(Leading) : queue' = line
    BY <1>1 DEF StartGroup, FreshGate
  <2>2. Leading \in SUBSET Calls
    BY DEF Leading, Inv, Shape
  <2>3. pc' = [c \in Calls |-> IF c \in Leading THEN "waiting" ELSE "idle"]
    BY <1>1 DEF StartGroup
  <2>4. /\ line \in Seq(Calls)
        /\ \A i \in 1..Len(line) : line[i] \in Leading
        /\ \A i, j \in 1..Len(line) : line[i] = line[j] => i = j
    BY <2>2, GroupInLine
  <2>5. \A i \in 1..Len(line) : pc'[line[i]] = "waiting"
    BY <2>2, <2>3, <2>4
  <2> QED BY <2>1, <2>4, <2>5 DEF InLine, InQueue
<1>2. CASE StartSerial
  <2>1. queue' = <<>>
    BY <1>2 DEF StartSerial, FreshGate
  <2>2. <<>> \in Seq(Calls) /\ Len(<<>>) = 0 /\ 1..0 = {}
    BY EmptySeq
  <2> QED BY <2>1, <2>2 DEF InLine
<1>3. CASE Finish \/ GroupReturns \/ Abort \/ Raise \/ Interrupt
  <2>1. UNCHANGED <<queue, pc>>
    BY <1>3 DEF Finish, GroupReturns, Abort, Raise, Interrupt, gate
  <2> QED BY <2>1 DEF InLine
<1> QED BY <1>1, <1>2, <1>3 DEF Turn

\* The first in the queue takes the lock, or passes it on as it leaves.
TakesTheLock(c) ==
  \/ Acquire(c) \/ TakeBack(c) \/ TakeBackAndRaise(c) \/ Recheck(c) \/ RecheckAndRaise(c)
ComesBack(c) == ObservationEnds(c) \/ Wake(c) \/ CancelUnlocked(c)
KeepsTheBooks(c) ==
  \/ GuardAnswers(c) \/ StopBatch(c) \/ Suspends(c) \/ Observe(c) \/ StartUnsafe(c)
  \/ AloneEnds(c) \/ Record(c) \/ RaiseHoldingLock(c)

LEMMA WorkerLine ==
  ASSUME Inv, InLine, NEW c \in Calls, Worker(c)
  PROVE  InLine'
<1>0. pc \in [Calls -> WorkerState]
  BY DEF Inv, Shape
<1>1. CASE TakesTheLock(c)
  <2>1. /\ queue # <<>> /\ Head(queue) = c /\ queue' = Tail(queue)
        /\ \E where : pc' = [pc EXCEPT ![c] = where]
    BY <1>1 DEF TakesTheLock, Acquire, TakeBack, TakeBackAndRaise, Recheck,
                RecheckAndRaise, Reacquires, Goto
  <2>2. queue \in Seq(Calls)
    BY DEF InLine
  <2>3. 1 \in 1..Len(queue) /\ queue[1] = c /\ Without(queue', queue, 1)
    BY <2>1, <2>2, TailIsWithout
  <2> QED BY <2>1, <2>3, LeavingTheLine
<1>2. CASE CancelWaiting(c)
  <2>1. PICK i \in 1..Len(queue) :
          /\ queue[i] = c
          /\ queue' = SubSeq(queue, 1, i - 1) \o SubSeq(queue, i + 1, Len(queue))
    BY <1>2 DEF CancelWaiting
  <2>2. queue \in Seq(Calls)
    BY DEF InLine
  <2>3. Without(queue', queue, i)
    BY <2>1, <2>2, CutIsWithout
  <2>4. pc' = [pc EXCEPT ![queue[i]] = "done"]
    BY <1>2, <2>1 DEF CancelWaiting, Goto
  <2> QED BY <2>3, <2>4, LeavingTheLine
<1>3. CASE ComesBack(c)
  <2>1. /\ pc[c] \in {"observing", "draining"} /\ queue' = Append(queue, c)
        /\ \E where \in {"reacquire", "redrain"} : pc' = [pc EXCEPT ![c] = where]
    BY <1>3 DEF ComesBack, ObservationEnds, Wake, CancelUnlocked, Runs, Goto
  <2>2. pc[c] \notin InQueue
    BY <2>1 DEF InQueue
  <2> QED BY <2>1, <2>2, JoiningTheLine
<1>4. CASE KeepsTheBooks(c)
  <2>1. /\ pc[c] \in {"guards", "alone", "recording"} /\ queue' = queue
        /\ \E where : pc' = [pc EXCEPT ![c] = where]
    BY <1>4 DEF KeepsTheBooks, GuardAnswers, StopBatch, Suspends, Observe, StartUnsafe,
                AloneEnds, Record, RaiseHoldingLock, Leave, Runs, Goto, gate
  <2>2. \A i \in 1..Len(queue) : queue[i] # c /\ queue[i] \in Calls
    BY <2>1, ElementOfSeq DEF InLine, InQueue
  <2>3. \A i \in 1..Len(queue) : pc'[queue[i]] = pc[queue[i]]
    BY <1>0, <2>1, <2>2
  <2> QED BY <2>1, <2>3 DEF InLine
<1> QED
  BY <1>1, <1>2, <1>3, <1>4 DEF Worker, TakesTheLock, ComesBack, KeepsTheBooks
\* While a group runs its workers move; outside they have all ended.
LEMMA WorkersOfAGroup ==
  ASSUME Inv, NEW c \in Calls, Worker(c)
  PROVE  batch # "loop" /\ batch' = batch /\ parallel' = parallel /\ pc[c] \notin {"idle", "done"}
<1>1. pc[c] \notin {"idle", "done"}
  BY DEF Worker, Acquire, GuardAnswers, StopBatch, Suspends, Observe, StartUnsafe,
         ObservationEnds, Wake, TakeBack, TakeBackAndRaise, Recheck,
         RecheckAndRaise, AloneEnds, Record, RaiseHoldingLock, CancelWaiting,
         CancelUnlocked, Reacquires, Runs
<1>2. batch' = batch /\ parallel' = parallel
  BY DEF Worker, Acquire, GuardAnswers, StopBatch, Suspends, Observe, StartUnsafe,
         ObservationEnds, Wake, TakeBack, TakeBackAndRaise, Recheck,
         RecheckAndRaise, AloneEnds, Record, RaiseHoldingLock, CancelWaiting,
         CancelUnlocked
<1> QED BY <1>1, <1>2 DEF Inv, BetweenGroups, GroupDone, Group

\* What a worker that takes the lock does to the books.
LEMMA LockTaken ==
  ASSUME Inv, NEW c \in Calls, TakesTheLock(c)
  PROVE  /\ pc \in [Calls -> WorkerState] /\ UNCHANGED <<pending, stopped>>
         /\ \/ /\ pc[c] = "waiting" /\ UNCHANGED <<ledger, failed>>
               /\ \/ stopped /\ pc' = [pc EXCEPT ![c] = "done"]
                  \/ ~stopped /\ pc' = [pc EXCEPT ![c] = "guards"]
            \/ /\ pc[c] = "reacquire" /\ holder = None
               /\ \/ /\ pc' = [pc EXCEPT ![c] = "recording"] /\ failed' = failed
                     /\ ledger' = [ledger EXCEPT ![c] = "committed"]
                  \/ /\ pc' = [pc EXCEPT ![c] = "done"] /\ failed' = failed \cup {c}
                     /\ ledger' = ledger
            \/ /\ pc[c] = "redrain" /\ ledger' = ledger
               /\ \/ /\ pc' = [pc EXCEPT ![c] = "done"] /\ failed' = failed \cup {c}
                  \/ /\ \E where \in {"alone", "draining"} : pc' = [pc EXCEPT ![c] = where]
                     /\ failed' = failed
<1>1. pc \in [Calls -> WorkerState]
  BY DEF Inv, Shape
<1>2. CASE Acquire(c)
  BY <1>1, <1>2 DEF Acquire, Runs, Goto
<1>3. CASE TakeBack(c) \/ TakeBackAndRaise(c)
  BY <1>1, <1>3 DEF TakeBack, TakeBackAndRaise, Reacquires, Goto
<1>4. CASE Recheck(c) \/ RecheckAndRaise(c)
  BY <1>1, <1>4 DEF Recheck, RecheckAndRaise, Reacquires, Goto
<1> QED BY <1>2, <1>3, <1>4 DEF TakesTheLock

LEMMA CameBack ==
  ASSUME Inv, NEW c \in Calls, ComesBack(c)
  PROVE  /\ pc \in [Calls -> WorkerState] /\ UNCHANGED <<pending, stopped, ledger, failed>>
         /\ queue' = Append(queue, c)
         /\ \/ pc[c] = "observing" /\ pc' = [pc EXCEPT ![c] = "reacquire"]
            \/ pc[c] = "draining" /\ pc' = [pc EXCEPT ![c] = "redrain"]
<1>1. pc \in [Calls -> WorkerState]
  BY DEF Inv, Shape
<1> QED
  BY <1>1 DEF ComesBack, ObservationEnds, Wake, CancelUnlocked, Runs, Goto

\* What a worker does to the books while it holds the lock.
LEMMA BooksKept ==
  ASSUME Inv, NEW c \in Calls, KeepsTheBooks(c)
  PROVE  /\ pc \in [Calls -> WorkerState] /\ queue' = queue
         /\ \/ /\ pc[c] = "guards" /\ UNCHANGED <<ledger, failed>>
               /\ pc' = [pc EXCEPT ![c] = "done"] /\ pending' \subseteq pending
               /\ stopped' = stopped \/ stopped' = parallel
            \/ /\ pc[c] = "guards" /\ UNCHANGED <<pending, failed>>
               /\ ledger' = [ledger EXCEPT ![c] = "running"]
               /\ \/ pc' = [pc EXCEPT ![c] = "observing"] /\ stopped' = stopped
                  \/ /\ \E where \in {"alone", "draining"} : pc' = [pc EXCEPT ![c] = where]
                     /\ stopped' = parallel
            \/ /\ pc[c] = "alone" /\ UNCHANGED <<pending, failed, stopped>>
               /\ pc' = [pc EXCEPT ![c] = "recording"]
               /\ ledger' = [ledger EXCEPT ![c] = "committed"]
            \/ /\ pc[c] = "recording" /\ UNCHANGED <<ledger, failed, stopped>>
               /\ pc' = [pc EXCEPT ![c] = "done"] /\ pending' = pending \ {c}
            \/ /\ pc[c] \in {"guards", "alone", "recording"}
               /\ UNCHANGED <<ledger, pending, stopped>>
               /\ pc' = [pc EXCEPT ![c] = "done"] /\ failed' = failed \cup {c}
<1>1. pc \in [Calls -> WorkerState]
  BY DEF Inv, Shape
<1>2. CASE GuardAnswers(c) \/ StopBatch(c) \/ Suspends(c)
  BY <1>1, <1>2 DEF GuardAnswers, StopBatch, Suspends, Leave, Runs, Goto
<1>3. CASE Observe(c)
  BY <1>1, <1>3 DEF Observe, Runs, Goto
<1>4. CASE StartUnsafe(c)
  BY <1>1, <1>4 DEF StartUnsafe, Runs, Goto
<1>5. CASE AloneEnds(c)
  BY <1>1, <1>5 DEF AloneEnds, Runs, Goto, gate
<1>6. CASE Record(c)
  BY <1>1, <1>6 DEF Record, Leave, Runs, Goto
<1>7. CASE RaiseHoldingLock(c)
  BY <1>1, <1>7 DEF RaiseHoldingLock, Leave, Goto
<1> QED BY <1>2, <1>3, <1>4, <1>5, <1>6, <1>7 DEF KeepsTheBooks

LEMMA WaiterCancelled ==
  ASSUME Inv, NEW c \in Calls, CancelWaiting(c)
  PROVE  /\ pc \in [Calls -> WorkerState] /\ UNCHANGED <<pending, stopped, ledger>>
         /\ pc[c] = "waiting" /\ pc' = [pc EXCEPT ![c] = "done"]
         /\ failed' = failed \cup {c}
  BY DEF CancelWaiting, Goto, Inv, Shape

LEMMA TurnUnstarted ==
  ASSUME Inv, NothingToStart, Unstarted, Turn \/ Interrupt
  PROVE  Unstarted'
<1>0. pending \subseteq Calls /\ pc \in [Calls -> WorkerState]
  BY DEF Inv, Shape
<1>1. CASE StartGroup \/ StartSerial
  <2>1. /\ batch = "loop" /\ batch' = "gather" /\ UNCHANGED <<pending, ledger, failed>>
        /\ \A c \in Calls : pc'[c] # "done"
    BY <1>1 DEF StartGroup, StartSerial
  <2> QED BY <1>0, <2>1 DEF Unstarted
<1>2. CASE GroupReturns
  <2>1. GroupDone /\ failed = {} /\ UNCHANGED <<pc, pending, ledger, failed>>
    BY <1>2 DEF GroupReturns
  <2>2. \A c \in pending : pc[c] \in {"idle", "done"}
    BY <1>0, <2>1 DEF GroupDone, Group
  <2>3. \A c \in pending : ledger[c] = "new"
    BY <2>1, <2>2 DEF Unstarted
  <2> QED BY <2>1, <2>3 DEF Unstarted
<1>3. CASE Finish \/ Abort \/ Raise \/ Interrupt
  <2>1. UNCHANGED <<pc, pending, ledger, failed>> /\ (batch' = "loop" => batch = "loop")
    BY <1>3 DEF Finish, Abort, Raise, Interrupt
  <2> QED BY <2>1 DEF Unstarted
<1> QED BY <1>1, <1>2, <1>3 DEF Turn

LEMMA WorkerUnstarted ==
  ASSUME Inv, Begun, Unstarted, NEW c \in Calls, Worker(c)
  PROVE  Unstarted'
<1>0. pending \subseteq Calls /\ batch' # "loop"
  BY WorkersOfAGroup DEF Inv, Shape
<1>1. CASE TakesTheLock(c)
  BY <1>0, <1>1, LockTaken DEF Unstarted, Begun
<1>2. CASE ComesBack(c)
  BY <1>0, <1>2, CameBack DEF Unstarted
<1>3. CASE KeepsTheBooks(c)
  BY <1>0, <1>3, BooksKept DEF Unstarted, Begun
<1>4. CASE CancelWaiting(c)
  BY <1>0, <1>4, WaiterCancelled DEF Unstarted
<1> QED
  BY <1>1, <1>2, <1>3, <1>4 DEF Worker, TakesTheLock, ComesBack, KeepsTheBooks

LEMMA TurnOvertaken ==
  ASSUME Inv, Overtaken, Turn \/ Interrupt
  PROVE  Overtaken'
<1>1. CASE StartGroup \/ StartSerial
  <2>1. pending' \subseteq Calls /\ \A c \in Calls : pc'[c] \in {"idle", "waiting", "guards"}
    BY <1>1 DEF StartGroup, StartSerial, Inv, Shape
  <2> QED BY <2>1 DEF Overtaken
<1>2. CASE Finish \/ GroupReturns \/ Abort \/ Raise \/ Interrupt
  <2>1. UNCHANGED <<parallel, stopped, pc, pending, ledger, queue>>
    BY <1>2 DEF Finish, GroupReturns, Abort, Raise, Interrupt, gate
  <2> QED BY <2>1 DEF Overtaken, NobodyFresh
<1> QED BY <1>1, <1>2 DEF Turn
\* A sibling that is back from its provider while its call is pending.
Back(c) == c \in pending /\ pc[c] \in {"recording", "done"} /\ ledger[c] # "new"

\* The worker of a call that was never started ends, or starts: nobody is back.
LEMMA FirstTurn ==
  ASSUME Inv, Begun, Unstarted, Overtaken, parallel, ~stopped, ~NobodyFresh, NEW c \in Calls,
         pc[c] \in {"waiting", "guards"}, pending' \subseteq pending,
         NEW where \in {"done", "guards", "observing"}, pc' = [pc EXCEPT ![c] = where],
         ledger' = ledger \/ (where = "observing" /\ \E l : ledger' = [ledger EXCEPT ![c] = l])
  PROVE  Overtaken'
<1>1. pc \in [Calls -> WorkerState] /\ pending \subseteq Calls
  BY DEF Inv, Shape
<1>2. \A e \in Calls : ~Back(e) /\ pc[e] # "alone"
  BY <1>1 DEF Overtaken, Back
<1>3. \A e \in Calls : pc'[e] # "alone"
  BY <1>1, <1>2
<1>4. c \in pending => ledger[c] = "new"
  BY DEF Unstarted
<1>5. \A e \in pending' : ~(pc'[e] \in {"recording", "done"} /\ ledger'[e] # "new")
  <2> SUFFICES ASSUME NEW e \in pending', pc'[e] \in {"recording", "done"}
               PROVE  ledger'[e] = "new"
    OBVIOUS
  <2>1. CASE e = c
    BY <1>1, <1>4, <2>1
  <2>2. CASE e # c
    <3>1. e \in Calls /\ pc'[e] = pc[e] /\ ledger'[e] = ledger[e]
      BY <1>1, <2>2 DEF Begun
    <3> QED BY <1>2, <3>1 DEF Back
  <2> QED BY <2>1, <2>2
<1> QED BY <1>3, <1>5 DEF Overtaken

\* Whoever takes the lock to start finds nobody back; whoever takes it to come
\* back finds nobody before him.
LEMMA LockTakenInTurn ==
  ASSUME Inv, Begun, InLine, Unstarted, Overtaken, NEW c \in Calls, TakesTheLock(c)
  PROVE  Overtaken'
<1>1. parallel' = parallel /\ stopped' = stopped
  BY LockTaken, WorkersOfAGroup DEF TakesTheLock, Worker
<1>2. SUFFICES ASSUME parallel, ~stopped PROVE Overtaken'
  BY <1>1 DEF Overtaken
<1>3. pc \in [Calls -> WorkerState] /\ pending \subseteq Calls /\ pending' = pending
  BY LockTaken DEF Inv, Shape
<1>4. queue # <<>> /\ Head(queue) = c /\ queue' = Tail(queue)
  BY DEF TakesTheLock, Acquire, TakeBack, TakeBackAndRaise, Recheck, RecheckAndRaise,
         Reacquires
<1>5. 1 \in 1..Len(queue) /\ queue[1] = c /\ Without(queue', queue, 1)
  BY <1>4, TailIsWithout DEF InLine
<1>6. CASE pc[c] = "waiting"
  <2>1. ~NobodyFresh
    BY <1>5, <1>6 DEF NobodyFresh
  <2>2. ledger' = ledger /\ pc' = [pc EXCEPT ![c] = "guards"]
    BY <1>2, <1>6, LockTaken
  <2> QED BY <1>2, <1>3, <1>6, <2>1, <2>2, FirstTurn
<1>7. CASE pc[c] = "reacquire"
  <2>1. /\ holder = None
        /\ \E where \in {"recording", "done"} : pc' = [pc EXCEPT ![c] = where]
    BY <1>7, LockTaken
  <2>2. \A d \in Calls : pc[d] # "guards" /\ pc'[d] # "guards"
    BY <1>2, <1>3, <2>1, NoneAssumption DEF Inv, LockMatchesWorkers
  <2>3. \A j \in 1..Len(queue) : pc[queue[j]] # "waiting"
    <3> SUFFICES ASSUME NEW j \in 1..Len(queue), pc[queue[j]] = "waiting" PROVE FALSE
      OBVIOUS
    <3>1. j = 1 \/ 1 < j
      BY LenProperties DEF InLine
    <3> QED BY <1>5, <1>7, <3>1 DEF InLine
  <2>4. \A j \in 1..Len(queue') : pc'[queue'[j]] # "waiting"
    <3>1. \A j \in 1..Len(queue') : \E k \in 1..Len(queue) :
             queue'[j] = queue[k] /\ pc'[queue'[j]] = pc[queue[k]]
      BY <1>5, <2>1, LeavingTheLine
    <3> QED BY <2>3, <3>1
  <2>5. \A d \in Calls : pc'[d] # "alone"
    BY <1>2, <1>3, <2>1 DEF Overtaken
  <2> QED BY <2>2, <2>4, <2>5 DEF Overtaken, NobodyFresh
<1>8. pc[c] # "redrain"
  BY <1>2 DEF Inv, Owed
<1> QED BY <1>6, <1>7, <1>8, LockTaken

LEMMA CameBackInTurn ==
  ASSUME Inv, InLine, Overtaken, NEW c \in Calls, ComesBack(c)
  PROVE  Overtaken'
<1>1. parallel' = parallel /\ stopped' = stopped
  BY CameBack, WorkersOfAGroup DEF ComesBack, Worker
<1>2. SUFFICES ASSUME parallel, ~stopped PROVE Overtaken'
  BY <1>1 DEF Overtaken
<1>3. /\ pc \in [Calls -> WorkerState] /\ pending \subseteq Calls
      /\ UNCHANGED <<pending, ledger>> /\ queue' = Append(queue, c)
  BY CameBack DEF Inv, Shape
<1>4. pc[c] # "draining"
  BY <1>2 DEF Inv, Owed
<1>5. pc[c] = "observing" /\ pc' = [pc EXCEPT ![c] = "reacquire"]
  BY <1>4, CameBack
<1>6. \A j \in 1..Len(queue') : pc'[queue'[j]] = "waiting" =>
        j \in 1..Len(queue) /\ pc[queue[j]] = "waiting"
  BY <1>3, <1>5, JoiningTheLine DEF InQueue
<1>7. \A d \in Calls : /\ pc'[d] = "alone" => pc[d] = "alone"
                       /\ pc'[d] = "guards" => pc[d] = "guards"
                       /\ pc'[d] \in {"recording", "done"} => pc[d] = pc'[d]
  BY <1>3, <1>5
<1>8. NobodyFresh => NobodyFresh'
  BY <1>6, <1>7 DEF NobodyFresh
<1> QED BY <1>2, <1>3, <1>7, <1>8 DEF Overtaken

LEMMA BooksKeptInTurn ==
  ASSUME Inv, Begun, InLine, Unstarted, Overtaken, NEW c \in Calls, KeepsTheBooks(c)
  PROVE  Overtaken'
<1>1. parallel' = parallel
  BY WorkersOfAGroup DEF KeepsTheBooks, Worker
<1>2. SUFFICES ASSUME parallel, ~stopped' PROVE Overtaken'
  BY <1>1 DEF Overtaken
<1>3. pc \in [Calls -> WorkerState] /\ pending \subseteq Calls /\ queue' = queue
  BY BooksKept DEF Inv, Shape
<1>4. ~stopped /\ stopped' = stopped
  BY <1>2, BooksKept DEF Inv, Owed
<1>5. CASE pc[c] = "guards"
  <2>1. ~NobodyFresh
    BY <1>5 DEF NobodyFresh
  <2>2. /\ pending' \subseteq pending
        /\ \/ ledger' = ledger /\ pc' = [pc EXCEPT ![c] = "done"]
           \/ ledger' = [ledger EXCEPT ![c] = "running"] /\ pc' = [pc EXCEPT ![c] = "observing"]
    BY <1>2, <1>4, <1>5, BooksKept
  <2> QED BY <1>2, <1>4, <1>5, <2>1, <2>2, FirstTurn
<1>6. pc[c] # "alone"
  BY <1>2, <1>4 DEF Overtaken
<1>7. CASE pc[c] = "recording"
  <2>1. /\ pc' = [pc EXCEPT ![c] = "done"] /\ ledger' = ledger /\ pending' \subseteq pending
    BY <1>7, BooksKept
  <2>2. \A d \in Calls : /\ pc'[d] = "alone" => pc[d] = "alone"
                         /\ pc'[d] = "guards" => pc[d] = "guards"
                         /\ pc'[d] = "waiting" => pc[d] = "waiting"
                         /\ pc'[d] \in {"recording", "done"} => pc[d] \in {"recording", "done"}
    BY <1>3, <1>7, <2>1
  <2>3. \A i \in 1..Len(queue) : queue[i] \in Calls
    BY ElementOfSeq DEF InLine
  <2>4. NobodyFresh => NobodyFresh'
    BY <1>3, <2>2, <2>3 DEF NobodyFresh
  <2>5. (\E e \in pending' : pc'[e] \in {"recording", "done"} /\ ledger'[e] # "new")
          => NobodyFresh
    BY <1>2, <1>3, <1>4, <2>1, <2>2 DEF Overtaken
  <2> QED BY <1>2, <1>4, <2>2, <2>4, <2>5 DEF Overtaken
<1> QED BY <1>5, <1>6, <1>7, BooksKept

LEMMA WaiterCancelledInTurn ==
  ASSUME Inv, Begun, InLine, Unstarted, Overtaken, NEW c \in Calls, CancelWaiting(c)
  PROVE  Overtaken'
<1>1. parallel' = parallel /\ stopped' = stopped
  BY WaiterCancelled, WorkersOfAGroup DEF Worker
<1>2. SUFFICES ASSUME parallel, ~stopped PROVE Overtaken'
  BY <1>1 DEF Overtaken
<1>3. /\ pending' = pending /\ ledger' = ledger
      /\ pc[c] = "waiting" /\ pc' = [pc EXCEPT ![c] = "done"]
  BY WaiterCancelled
<1>4. ~NobodyFresh
  BY <1>3 DEF CancelWaiting, NobodyFresh
<1> QED BY <1>2, <1>3, <1>4, FirstTurn

LEMMA OvertakenKeeps ==
  ASSUME Inv, Begun, InLine, Unstarted, Overtaken, [Next]_vars
  PROVE  Overtaken'
<1>1. CASE Turn \/ Interrupt
  BY <1>1, TurnOvertaken
<1>2. ASSUME NEW c \in Calls, Worker(c) PROVE Overtaken'
  BY <1>2, LockTakenInTurn, CameBackInTurn, BooksKeptInTurn, WaiterCancelledInTurn
  DEF Worker, TakesTheLock, ComesBack, KeepsTheBooks
<1>3. CASE UNCHANGED vars
  BY <1>3 DEF vars, gate, Overtaken, NobodyFresh
<1> QED BY <1>1, <1>2, <1>3 DEF Next
\* A stop finds every pending call unstarted, but for the siblings in flight.
LEMMA StopDeclinesUnstarted ==
  ASSUME Inv, Begun, Unstarted, Overtaken, NEW c \in Calls, StopBatch(c),
         NEW e \in pending \ running
  PROVE  ledger[e] = "new"
<1>1. pc[c] = "guards" /\ pc \in [Calls -> WorkerState] /\ e \in Calls
  BY DEF StopBatch, Runs, Inv, Shape
<1>2. CASE parallel
  <2>1. ~stopped
    BY <1>1, <1>2 DEF Inv, Owed
  <2>2. pc[e] \notin {"observing", "reacquire"}
    BY <1>1 DEF Inv, InFlight
  <2>3. pc[e] \notin {"draining", "redrain"}
    BY <1>1, <2>1 DEF Inv, Owed
  <2>4. pc[e] # "alone"
    BY <1>1, <1>2, <2>1 DEF Overtaken
  <2>5. CASE pc[e] \in {"recording", "done"}
    BY <1>1, <1>2, <2>1, <2>5 DEF Overtaken, NobodyFresh
  <2>6. CASE pc[e] \in {"idle", "waiting", "guards"}
    BY <2>6 DEF Unstarted
  <2> QED BY <1>1, <2>2, <2>3, <2>4, <2>5, <2>6 DEF WorkerState
<1>3. CASE ~parallel
  <2>1. pc[e] # "idle" => e = c
    BY <1>1, <1>3 DEF Inv, OneBySelf
  <2>2. pc[e] \in {"idle", "guards"}
    BY <1>1, <2>1
  <2> QED BY <2>2 DEF Unstarted
<1> QED BY <1>2, <1>3 DEF Inv, Shape

LEMMA DeclinedKeeps ==
  ASSUME Inv, Begun, Unstarted, Overtaken, DeclinedNeverStarted, [Next]_vars
  PROVE  DeclinedNeverStarted'
<1>0. declined \subseteq Calls /\ \A e \in declined : e \notin pending
  BY DEF Inv, Shape, AnsweredOnce
<1>1. CASE Turn \/ Interrupt \/ UNCHANGED vars
  <2>1. UNCHANGED <<declined, ledger>>
    BY <1>1 DEF Turn, StartGroup, StartSerial, Finish, GroupReturns, Abort, Raise,
                Interrupt, vars
  <2> QED BY <2>1 DEF DeclinedNeverStarted
<1>2. ASSUME NEW c \in Calls, Worker(c) PROVE DeclinedNeverStarted'
  <2>1. CASE StopBatch(c)
    <3>1. declined' = declined \cup (pending \ running) /\ ledger' = ledger
      BY <2>1 DEF StopBatch
    <3>2. \A e \in pending \ running : ledger[e] = "new"
      BY <2>1, StopDeclinesUnstarted
    <3> QED BY <3>1, <3>2 DEF DeclinedNeverStarted
  <2>2. CASE Observe(c) \/ StartUnsafe(c) \/ TakeBack(c) \/ AloneEnds(c)
    <3>1. /\ pc[c] \notin {"idle", "waiting", "done"} /\ declined' = declined
          /\ \E l : ledger' = [ledger EXCEPT ![c] = l]
      BY <2>2 DEF Observe, StartUnsafe, TakeBack, AloneEnds, Reacquires, Runs
    <3>2. c \in pending
      BY <3>1 DEF Inv, Owed
    <3>3. \A e \in declined : e # c /\ ledger'[e] = ledger[e]
      BY <1>0, <3>1, <3>2 DEF Begun
    <3> QED BY <3>1, <3>3 DEF DeclinedNeverStarted
  <2>3. CASE ~StopBatch(c) /\ ~(Observe(c) \/ StartUnsafe(c) \/ TakeBack(c) \/ AloneEnds(c))
    <3>1. UNCHANGED <<declined, ledger>>
      BY <1>2, <2>3
      DEF Worker, Acquire, GuardAnswers, Suspends, ObservationEnds, Wake,
          TakeBackAndRaise, Recheck, RecheckAndRaise, Record, RaiseHoldingLock,
          CancelWaiting, CancelUnlocked
    <3> QED BY <3>1 DEF DeclinedNeverStarted
  <2> QED BY <2>1, <2>2, <2>3
<1> QED BY <1>1, <1>2 DEF Next

Books ==
  /\ InLine
  /\ Unstarted
  /\ Overtaken
  /\ DeclinedNeverStarted

LEMMA BooksInvariance == Spec => [](Inv /\ Books)
<1>1. Init => Books
  <2> SUFFICES ASSUME Init PROVE Books
    OBVIOUS
  <2>1. InLine
    <3>1. queue = <<>> /\ <<>> \in Seq(Calls) /\ Len(<<>>) = 0 /\ 1..0 = {}
      BY EmptySeq DEF Init
    <3> QED BY <3>1 DEF InLine
  <2>2. Unstarted /\ Overtaken /\ DeclinedNeverStarted
    BY DEF Init, Unstarted, Overtaken, DeclinedNeverStarted
  <2> QED BY <2>1, <2>2 DEF Books
<1>2. Inv /\ Begun /\ NothingToStart /\ Books /\ [Next]_vars => Books'
  <2> SUFFICES ASSUME Inv, Begun, NothingToStart, Books, [Next]_vars PROVE Books'
    OBVIOUS
  <2>1. CASE UNCHANGED vars
    BY <2>1 DEF vars, gate, Books, InLine, Unstarted, Overtaken, NobodyFresh,
                DeclinedNeverStarted
  <2>2. CASE Next
    <3>1. InLine'
      BY <2>2, TurnLine, WorkerLine DEF Next, Books
    <3>2. Unstarted'
      BY <2>2, TurnUnstarted, WorkerUnstarted DEF Next, Books
    <3>3. Overtaken' /\ DeclinedNeverStarted'
      BY OvertakenKeeps, DeclinedKeeps DEF Books
    <3> QED BY <3>1, <3>2, <3>3 DEF Books
  <2> QED BY <2>1, <2>2
<1> QED BY <1>1, <1>2, StopInvariance, PTL DEF Spec

\* DeclinedNeverStarted: the call that is told it "was not started because the
\* Runtime reached a no-progress safety stop" (run_tool_batch) was not started by
\* this batch, however the workers of its group and their failures interleave.
THEOREM DeclinedCallsNeverStarted == Spec => []DeclinedNeverStarted
  BY BooksInvariance, PTL DEF Books

\* NothingLeftRunning: when run_tool_batch returns or raises, every worker has
\* ended, the lock is free, nobody queues for it and gate.running is empty.
THEOREM BatchLeavesNothing == Spec => []NothingLeftRunning
<1>1. Inv /\ Books /\ holder \in Calls \cup {None} => NothingLeftRunning
  <2> SUFFICES ASSUME Inv, Books, holder \in Calls \cup {None}, batch \in Ended
               PROVE  GroupDone /\ running = {} /\ holder = None /\ queue = <<>>
    BY DEF NothingLeftRunning
  <2>1. GroupDone
    BY DEF Inv, BetweenGroups
  <2>2. \A c \in Calls : pc[c] \in {"idle", "done"}
    BY <2>1 DEF GroupDone, Group
  <2>3. running = {}
    BY <2>2 DEF Inv, InFlight
  <2>4. holder = None
    BY <2>2 DEF Inv, LockMatchesWorkers
  <2>5. queue = <<>>
    <3> SUFFICES ASSUME queue # <<>> PROVE FALSE
      OBVIOUS
    <3>1. queue \in Seq(Calls)
      BY DEF Books, InLine
    <3>2. 1 \in 1..Len(queue)
      BY <3>1, TailIsWithout
    <3>3. queue[1] \in Calls /\ pc[queue[1]] \in InQueue
      BY <3>1, <3>2, ElementOfSeq DEF Books, InLine
    <3> QED BY <2>2, <3>3 DEF InQueue
  <2> QED BY <2>1, <2>3, <2>4, <2>5
<1>2. Spec => [](holder \in Calls \cup {None})
  <2>1. Init => holder \in Calls \cup {None}
    BY DEF Init
  <2>2. holder \in Calls \cup {None} /\ [Next]_vars => (holder \in Calls \cup {None})'
    BY DEF Next, vars, gate, Turn, StartGroup, StartSerial, FreshGate, Finish, GroupReturns,
           Abort, Raise, Interrupt, Worker, Acquire, GuardAnswers, StopBatch, Suspends,
           Observe, StartUnsafe, ObservationEnds, Wake, TakeBack, TakeBackAndRaise, Recheck,
           RecheckAndRaise, AloneEnds, Record, RaiseHoldingLock, CancelWaiting,
           CancelUnlocked, Reacquires, Leave
  <2> QED BY <2>1, <2>2, PTL DEF Spec
<1> QED BY <1>1, <1>2, BooksInvariance, PTL
-----------------------------------------------------------------------------
(***************************************************************************)
(* An open group never stands still.  A worker that waits for the lock has *)
(* somebody before it who goes on, the first of the queue if the lock is   *)
(* free; and a worker that waits for its siblings to settle has either     *)
(* been woken or has a sibling in flight whose return will wake it: no     *)
(* settlement falls between its look at gate.running and its wait.         *)
(***************************************************************************)

\* The guards of the Turn's coroutine while a group is open, and of a worker.
TurnResumes ==
  \/ batch = "gather" /\ (GroupDone \/ failed # {})
  \/ batch = "abort" /\ GroupDone

FirstInLine(c) == holder = None /\ queue # <<>> /\ Head(queue) = c

WorkerReady(c) ==
  \/ pc[c] \in {"guards", "observing", "alone", "recording"}
  \/ pc[c] = "draining" /\ (settled \/ c \in cancelling)
  \/ pc[c] = "waiting" /\ (FirstInLine(c) \/ c \in cancelling)
  \/ pc[c] \in {"reacquire", "redrain"} /\ FirstInLine(c)

OpenGroupGoesOn ==
  batch \in {"gather", "abort"} => TurnResumes \/ \E c \in Calls : WorkerReady(c)
\* A worker that drains has been woken or has a sibling in flight.
WokenOrAwaited == \A c \in Calls : pc[c] = "draining" /\ ~settled => running # {}

\* Whoever waits for the lock stands in the queue.
AllInLine == \A c \in Calls : pc[c] \in InQueue => \E i \in 1..Len(queue) : queue[i] = c

Waits == holder \in Calls \cup {None} /\ WokenOrAwaited /\ AllInLine

LEMMA WaitsGoOn == Inv /\ InLine /\ Waits => OpenGroupGoesOn
<1> SUFFICES ASSUME Inv, InLine, Waits, batch \in {"gather", "abort"}, ~TurnResumes
             PROVE  \E c \in Calls : WorkerReady(c)
  BY DEF OpenGroupGoesOn
<1>1. PICK c \in Calls : pc[c] \notin {"idle", "done"}
  BY DEF TurnResumes, GroupDone, Group
<1>2. pc[c] \in WorkerState
  BY DEF Inv, Shape
<1>3. CASE pc[c] \in {"guards", "observing", "alone", "recording"}
  BY <1>3 DEF WorkerReady
<1>4. CASE holder # None
  <2>1. holder \in Calls /\ pc[holder] \in {"guards", "alone", "recording"}
    BY <1>4 DEF Waits, Inv, LockMatchesWorkers
  <2> QED BY <2>1 DEF WorkerReady
<1>5. CASE holder = None /\ queue # <<>>
  <2>1. 1 \in 1..Len(queue) /\ Head(queue) = queue[1]
    BY <1>5, TailIsWithout DEF InLine
  <2>2. Head(queue) \in Calls /\ pc[Head(queue)] \in InQueue
    BY <2>1, ElementOfSeq DEF InLine
  <2>3. FirstInLine(Head(queue))
    BY <1>5 DEF FirstInLine
  <2> QED BY <2>2, <2>3 DEF WorkerReady, InQueue
<1>6. CASE queue = <<>> /\ pc[c] \in {"waiting", "draining", "reacquire", "redrain"}
  <2>1. \A d \in Calls : pc[d] \notin InQueue
    BY <1>6, EmptySeq DEF Waits, AllInLine
  <2>2. pc[c] = "draining"
    BY <1>6, <2>1 DEF InQueue
  <2>3. CASE settled
    BY <2>2, <2>3 DEF WorkerReady
  <2>4. CASE ~settled
    <3>1. PICK d \in running : TRUE
      BY <2>2, <2>4 DEF Waits, WokenOrAwaited
    <3>2. d \in Calls /\ pc[d] = "observing"
      BY <2>1, <3>1 DEF Inv, InFlight, InQueue
    <3> QED BY <3>2 DEF WorkerReady
  <2> QED BY <2>3, <2>4
<1> QED BY <1>1, <1>2, <1>3, <1>4, <1>5, <1>6 DEF WorkerState

\* The whole group stands in the line it starts with.
LEMMA GroupStandsInLine ==
  ASSUME NEW S \in SUBSET Calls, NEW line \in InOrder(S)
  PROVE  \A c \in S : \E i \in 1..Len(line) : line[i] = c
<1> DEFINE n == Cardinality(S)
<1>1. n \in Nat /\ IsFiniteSet(S)
  BY CallsAreFinite, FS_Subset, FS_CardinalityType
<1>2. /\ line \in [1..n -> S] /\ line \in Seq(Calls)
      /\ \A i, j \in 1..Len(line) : line[i] = line[j] => i = j
  BY GroupInLine DEF InOrder
<1>3. IsFiniteSet(1..n) /\ Cardinality(1..n) = n
  BY <1>1, FS_Interval
<1> HIDE DEF n
<1>4. Len(line) = n
  BY <1>1, <1>2, LenProperties
<1>5. line \in Injection(1..n, S)
  BY <1>2, <1>4 DEF Injection, IsInjective
<1>6. line \in Surjection(1..n, S)
  BY <1>1, <1>3, <1>5, FS_Injection DEF n
<1> QED BY <1>4, <1>6 DEF Surjection

LEMMA TurnWaits ==
  ASSUME Inv, Waits, Turn \/ Interrupt
  PROVE  Waits'
<1>1. CASE StartGroup
  <2>1. PICK line \in InOrder(Leading) : FreshGate(line)
    BY <1>1 DEF StartGroup
  <2>2. Leading \in SUBSET Calls
    BY DEF Leading, Inv, Shape
  <2>3. pc' = [c \in Calls |-> IF c \in Leading THEN "waiting" ELSE "idle"]
    BY <1>1 DEF StartGroup
  <2>4. \A c \in Leading : \E i \in 1..Len(line) : line[i] = c
    BY <2>2, GroupStandsInLine
  <2>5. \A c \in Calls : pc'[c] \in InQueue => c \in Leading
    BY <2>3 DEF InQueue
  <2>6. \A c \in Calls : pc'[c] # "draining"
    BY <2>3
  <2> QED BY <2>1, <2>4, <2>5, <2>6 DEF Waits, WokenOrAwaited, AllInLine, FreshGate
<1>2. CASE StartSerial
  <2>1. holder' = None /\ \A c \in Calls : pc'[c] \in {"idle", "guards"}
    BY <1>2 DEF StartSerial, FreshGate
  <2> QED BY <2>1 DEF Waits, WokenOrAwaited, AllInLine, InQueue
<1>3. CASE Finish \/ GroupReturns \/ Abort \/ Raise \/ Interrupt
  <2>1. UNCHANGED <<pc, gate>>
    BY <1>3 DEF Finish, GroupReturns, Abort, Raise, Interrupt
  <2> QED BY <2>1 DEF gate, Waits, WokenOrAwaited, AllInLine
<1> QED BY <1>1, <1>2, <1>3 DEF Turn

\* Whoever empties gate.running sets gate.settled, and whoever resets that has
\* seen a sibling in flight (ToolExecutionGate.invoke).
LEMMA WorkerWokenOrAwaited ==
  ASSUME Inv, Waits, NEW c \in Calls, Worker(c)
  PROVE  WokenOrAwaited' /\ holder' \in Calls \cup {None}
<1> USE DEF Inv, Shape, Waits, WokenOrAwaited, Goto
<1>1. CASE Acquire(c) \/ GuardAnswers(c) \/ StopBatch(c) \/ Suspends(c)
  BY <1>1 DEF Acquire, GuardAnswers, StopBatch, Suspends, Leave
<1>2. CASE Observe(c)
  BY <1>2 DEF Observe
<1>3. CASE StartUnsafe(c)
  BY <1>3 DEF StartUnsafe
<1>4. CASE ObservationEnds(c) \/ Wake(c) \/ CancelUnlocked(c)
  BY <1>4 DEF ObservationEnds, Wake, CancelUnlocked
<1>5. CASE TakeBack(c) \/ TakeBackAndRaise(c)
  BY <1>5 DEF TakeBack, TakeBackAndRaise
<1>6. CASE Recheck(c) \/ RecheckAndRaise(c)
  BY <1>6 DEF Recheck, RecheckAndRaise
<1>7. CASE AloneEnds(c) \/ Record(c) \/ RaiseHoldingLock(c) \/ CancelWaiting(c)
  <2>1. /\ UNCHANGED <<running, settled>> /\ holder' \in {holder, None}
        /\ \E where \in {"recording", "done"} : pc' = [pc EXCEPT ![c] = where]
    BY <1>7 DEF AloneEnds, Record, RaiseHoldingLock, CancelWaiting, Leave, gate
  <2> QED BY <2>1
<1> QED BY <1>1, <1>2, <1>3, <1>4, <1>5, <1>6, <1>7 DEF Worker

\* Who stands in a line that somebody leaves still stands in it.
LEMMA StillInLine ==
  ASSUME NEW q \in Seq(Calls), NEW r, NEW i \in 1..Len(q), Without(r, q, i),
         NEW k \in 1..Len(q), k # i
  PROVE  \E j \in 1..Len(r) : r[j] = q[k]
<1>1. Len(q) \in Nat /\ Len(r) = Len(q) - 1
  BY LenProperties DEF Without
<1>2. CASE k < i
  <2>1. k \in 1..Len(r)
    BY <1>1, <1>2
  <2> QED BY <1>2, <2>1 DEF Without
<1>3. CASE i < k
  <2>1. k - 1 \in 1..Len(r) /\ ~(k - 1 < i) /\ (k - 1) + 1 = k
    BY <1>1, <1>3
  <2> QED BY <2>1 DEF Without
<1> QED BY <1>1, <1>2, <1>3

\* One worker leaves the line, and the place it had there.
LEMMA OthersInLine ==
  ASSUME Inv, InLine, Waits, NEW i \in 1..Len(queue), Without(queue', queue, i),
         NEW where, where \notin InQueue, pc' = [pc EXCEPT ![queue[i]] = where]
  PROVE  AllInLine'
<1> SUFFICES ASSUME NEW d \in Calls, pc'[d] \in InQueue
             PROVE  \E j \in 1..Len(queue') : queue'[j] = d
  BY DEF AllInLine
<1>1. queue \in Seq(Calls) /\ queue[i] \in Calls
  BY ElementOfSeq DEF InLine
<1>2. d # queue[i] /\ pc[d] \in InQueue
  BY <1>1 DEF Inv, Shape
<1>3. PICK k \in 1..Len(queue) : queue[k] = d
  BY <1>2 DEF Waits, AllInLine
<1>4. k # i
  BY <1>2, <1>3
<1> QED BY <1>1, <1>3, <1>4, StillInLine

LEMMA WorkerAllInLine ==
  ASSUME Inv, InLine, Waits, NEW c \in Calls, Worker(c)
  PROVE  AllInLine'
<1>0. pc \in [Calls -> WorkerState] /\ queue \in Seq(Calls)
  BY DEF Inv, Shape, InLine
<1>1. CASE TakesTheLock(c)
  <2>1. /\ queue # <<>> /\ Head(queue) = c /\ queue' = Tail(queue)
        /\ \E where : where \notin InQueue /\ pc' = [pc EXCEPT ![c] = where]
    BY <1>1 DEF TakesTheLock, Acquire, TakeBack, TakeBackAndRaise, Recheck,
                RecheckAndRaise, Reacquires, Goto, InQueue
  <2>2. 1 \in 1..Len(queue) /\ queue[1] = c /\ Without(queue', queue, 1)
    BY <1>0, <2>1, TailIsWithout
  <2> QED BY <2>1, <2>2, OthersInLine
<1>2. CASE CancelWaiting(c)
  <2>1. PICK i \in 1..Len(queue) :
          /\ queue[i] = c
          /\ queue' = SubSeq(queue, 1, i - 1) \o SubSeq(queue, i + 1, Len(queue))
    BY <1>2 DEF CancelWaiting
  <2>2. Without(queue', queue, i)
    BY <1>0, <2>1, CutIsWithout
  <2>3. pc' = [pc EXCEPT ![queue[i]] = "done"] /\ "done" \notin InQueue
    BY <1>2, <2>1 DEF CancelWaiting, Goto, InQueue
  <2> QED BY <2>2, <2>3, OthersInLine
<1>3. CASE ComesBack(c)
  <2>1. queue' = Append(queue, c) /\ \E where : pc' = [pc EXCEPT ![c] = where]
    BY <1>3 DEF ComesBack, ObservationEnds, Wake, CancelUnlocked, Goto
  <2>2. /\ Len(queue) \in Nat /\ Len(queue') = Len(queue) + 1 /\ queue'[Len(queue) + 1] = c
        /\ \A k \in 1..Len(queue) : queue'[k] = queue[k]
    BY <1>0, <2>1, AppendProperties, LenProperties
  <2>3. \A k \in 1..Len(queue) : k \in 1..Len(queue')
    BY <2>2
  <2>4. Len(queue) + 1 \in 1..Len(queue')
    BY <2>2
  <2>5. \A d \in Calls \ {c} : pc'[d] = pc[d]
    BY <1>0, <2>1
  <2> QED BY <2>2, <2>3, <2>4, <2>5 DEF Waits, AllInLine
<1>4. CASE KeepsTheBooks(c)
  <2>1. /\ queue' = queue
        /\ \E where : where \notin InQueue /\ pc' = [pc EXCEPT ![c] = where]
    BY <1>4 DEF KeepsTheBooks, GuardAnswers, StopBatch, Suspends, Observe, StartUnsafe,
                AloneEnds, Record, RaiseHoldingLock, Leave, Goto, gate, InQueue
  <2>2. \A d \in Calls : pc'[d] \in InQueue => pc[d] \in InQueue
    BY <1>0, <2>1
  <2> QED BY <2>1, <2>2 DEF Waits, AllInLine
<1> QED
  BY <1>1, <1>2, <1>3, <1>4 DEF Worker, TakesTheLock, ComesBack, KeepsTheBooks

\* While a group is open its Turn or one of its workers can go on, whatever was
\* cancelled, failed or turned out unsafe: no worker waits for a lock that nobody
\* gives up, and none sleeps through the last settlement of its siblings
\* (run_tool_batch, ToolExecutionGate.invoke and _reacquire).
THEOREM OpenGroupsGoOn == Spec => []OpenGroupGoesOn
<1>1. Init => Waits
  BY DEF Init, Waits, WokenOrAwaited, AllInLine, InQueue
<1>2. Inv /\ Books /\ Waits /\ [Next]_vars => Waits'
  <2> SUFFICES ASSUME Inv, Books, Waits, [Next]_vars PROVE Waits'
    OBVIOUS
  <2>1. CASE UNCHANGED vars
    BY <2>1 DEF vars, gate, Waits, WokenOrAwaited, AllInLine
  <2>2. CASE Turn \/ Interrupt
    BY <2>2, TurnWaits
  <2>3. ASSUME NEW c \in Calls, Worker(c) PROVE Waits'
    BY <2>3, WorkerWokenOrAwaited, WorkerAllInLine DEF Waits, Books
  <2> QED BY <2>1, <2>2, <2>3 DEF Next
<1>3. Inv /\ Books /\ Waits => OpenGroupGoesOn
  BY WaitsGoOn DEF Books
<1> QED BY <1>1, <1>2, <1>3, BooksInvariance, PTL DEF Spec
-----------------------------------------------------------------------------
(***************************************************************************)
(* An open batch only goes forward.  A worker may look for siblings in     *)
(* flight again and again, but every new look takes a settlement since the *)
(* last one: somebody else came back.  And a group that leaves the batch   *)
(* in its loop has answered a call, because whoever stopped a gate did so  *)
(* with an answer, an outcome or an unsafe call of its own.                *)
(***************************************************************************)

\* How far a worker has come, and a draining one in its turns of waiting.
Place(s) ==
  CASE s \in {"idle", "waiting"} -> 0 [] s = "guards" -> 1 [] s = "observing" -> 2
    [] s \in {"draining", "redrain"} -> 2 [] s \in {"reacquire", "alone"} -> 3
    [] s = "recording" -> 4 [] OTHER -> 5

Look(s, told) ==
  CASE s = "draining" /\ told -> 0 [] s = "redrain" /\ told -> 1
    [] s = "draining" /\ ~told -> 2 [] OTHER -> 3

\* Only one worker drains, and one that asks for the lock again has been woken
\* or is cancelled.
Draining == {"draining", "redrain"}
OneDrains == \A c, d \in Calls : pc[c] \in Draining /\ pc[d] \in Draining => c = d
AsksWhenWoken == \A c \in Calls : pc[c] = "redrain" => settled \/ c \in cancelling

\* What has become, or will become, of a worker that is no longer in line.
Accounts(c) ==
  \/ pc[c] \in Draining \cup {"alone", "recording"}
  \/ pc[c] = "done" /\ (c \in failed \/ c \in outcomes \/ c \notin pending)
Answering ==
  batch \in {"gather", "abort"} =>
    /\ Group # {}
    /\ stopped => \E c \in Calls : Accounts(c)
    /\ \A c \in Calls : pc[c] = "done" => stopped \/ Accounts(c)

Goings == OneDrains /\ AsksWhenWoken /\ Answering

\* A step of the worker of c brings it further, or to its next look.
Advances(c) ==
  \/ Place(pc'[c]) > Place(pc[c])
  \/ /\ Place(pc'[c]) = Place(pc[c])
     /\ Look(pc'[c], settled') > Look(pc[c], settled)
     /\ \A d \in Calls : d # c => pc'[d] = pc[d]

BatchAdvance ==
  /\ pending' \subseteq pending
  /\ batch = "loop" /\ batch' = "gather" => Group' # {} /\ Group' \subseteq pending'
  /\ batch = "gather" /\ batch' = "loop" => \E c \in Group : c \notin pending
  /\ batch \in {"gather", "abort"} => \A c \in Calls : Place(pc'[c]) >= Place(pc[c])
  /\ \A c \in Calls : Worker(c) => Advances(c)

-----------------------------------------------------------------------------
(* What the steps of a worker do to its place and to what it accounts for.  *)

MovesAlone(c) ==
  /\ \A d \in Calls : d # c => pc'[d] = pc[d]
  /\ UNCHANGED <<batch, parallel>>
  /\ failed \subseteq failed' /\ outcomes \subseteq outcomes' /\ pending' \subseteq pending
  /\ cancelling \ {c} \subseteq cancelling'
  /\ stopped' = stopped \/ (pc[c] = "guards" /\ stopped' = parallel)

FromTheLine(c) ==
  \/ pc[c] = "waiting" /\ pc'[c] = "done" /\ (stopped \/ c \in failed')
  \/ pc[c] = "waiting" /\ pc'[c] = "guards"
FromTheGuards(c) ==
  /\ pc[c] = "guards"
  /\ \/ pc'[c] = "done" /\ (c \in failed' \/ c \in outcomes' \/ c \notin pending')
     \/ pc'[c] \in {"alone", "draining"}
     \/ pc'[c] = "observing" /\ stopped' = stopped
FromItsProvider(c) ==
  \/ pc[c] = "observing" /\ pc'[c] = "reacquire"
  \/ pc[c] = "reacquire" /\ pc'[c] = "recording"
  \/ pc[c] = "alone" /\ pc'[c] = "recording"
  \/ pc[c] = "recording" /\ pc'[c] = "done" /\ c \notin pending'
  \/ pc[c] \in {"reacquire", "alone", "recording"} /\ pc'[c] = "done" /\ c \in failed'
FromItsLook(c) ==
  \/ /\ pc[c] = "draining" /\ pc'[c] = "redrain"
     /\ settled' = settled /\ cancelling' = cancelling /\ (settled \/ c \in cancelling)
  \/ pc[c] = "redrain" /\ pc'[c] = "alone"
  \/ pc[c] = "redrain" /\ pc'[c] = "draining" /\ ~settled' /\ c \notin cancelling
  \/ pc[c] = "redrain" /\ pc'[c] = "done" /\ c \in failed'

Moves(c) == FromTheLine(c) \/ FromTheGuards(c) \/ FromItsProvider(c) \/ FromItsLook(c)

\* gate.settled is cleared by a worker that begins to drain, or looks in vain.
Clears(c) == settled /\ ~settled' => pc[c] \in {"guards", "redrain"} /\ pc'[c] = "draining"

LEMMA WorkerMoves ==
  ASSUME Inv, NEW c \in Calls, Worker(c)
  PROVE  MovesAlone(c) /\ Moves(c) /\ Clears(c)
<1> USE DEF Runs, Goto, Leave, Reacquires, gate
<1>0. pc \in [Calls -> WorkerState] /\ stopped \in BOOLEAN /\ parallel \in BOOLEAN
  BY DEF Inv, Shape
<1>1. MovesAlone(c)
  BY <1>0 DEF MovesAlone, Worker, Acquire, GuardAnswers, StopBatch, Suspends, Observe, StartUnsafe,
     ObservationEnds, Wake, TakeBack, TakeBackAndRaise, Recheck, RecheckAndRaise, AloneEnds,
     Record, RaiseHoldingLock, CancelWaiting, CancelUnlocked
<1>2. Clears(c)
  BY <1>0 DEF Clears, Worker, Acquire, GuardAnswers, StopBatch, Suspends, Observe, StartUnsafe,
     ObservationEnds, Wake, TakeBack, TakeBackAndRaise, Recheck, RecheckAndRaise, AloneEnds,
     Record, RaiseHoldingLock, CancelWaiting, CancelUnlocked
<1>3. CASE Acquire(c) \/ CancelWaiting(c)
  BY <1>0, <1>1, <1>2, <1>3 DEF Acquire, CancelWaiting, Moves, FromTheLine
<1>4. CASE GuardAnswers(c) \/ Suspends(c) \/ Observe(c) \/ StartUnsafe(c)
  BY <1>0, <1>1, <1>2, <1>4 DEF GuardAnswers, Suspends, Observe, StartUnsafe, Moves, FromTheGuards
<1>5. CASE StopBatch(c)
  <2>1. c \notin running
    BY <1>5 DEF StopBatch, Inv, InFlight
  <2> QED BY <1>0, <1>1, <1>2, <1>5, <2>1 DEF StopBatch, Moves, FromTheGuards
<1>6. CASE ObservationEnds(c) \/ TakeBack(c) \/ TakeBackAndRaise(c) \/ AloneEnds(c) \/ Record(c)
  BY <1>0, <1>1, <1>2, <1>6
     DEF ObservationEnds, TakeBack, TakeBackAndRaise, AloneEnds, Record, Moves, FromItsProvider
<1>7. CASE RaiseHoldingLock(c)
  BY <1>0, <1>1, <1>2, <1>7 DEF RaiseHoldingLock, Moves, FromTheGuards, FromItsProvider
<1>8. CASE Wake(c) \/ Recheck(c) \/ RecheckAndRaise(c)
  BY <1>0, <1>1, <1>2, <1>8 DEF Wake, Recheck, RecheckAndRaise, Moves, FromItsLook
<1>9. CASE CancelUnlocked(c)
  BY <1>0, <1>1, <1>2, <1>9 DEF CancelUnlocked, Moves, FromItsLook, FromItsProvider
<1> QED BY <1>1, <1>2, <1>3, <1>4, <1>5, <1>6, <1>7, <1>8, <1>9 DEF Worker
LEMMA PlaceFacts ==
  /\ \A s : Place(s) \in 0..5
  /\ Place("idle") = 0 /\ Place("waiting") = 0 /\ Place("guards") = 1 /\ Place("observing") = 2
  /\ Place("draining") = 2 /\ Place("redrain") = 2 /\ Place("reacquire") = 3 /\ Place("alone") = 3
  /\ Place("recording") = 4 /\ Place("done") = 5
BY DEF Place

LEMMA LookFacts ==
  \A told :
    IF told THEN Look("draining", told) = 0 /\ Look("redrain", told) = 1
            ELSE Look("draining", told) = 2 /\ Look("redrain", told) = 3
BY DEF Look

\* While somebody drains the gate is stopped, so nobody passes the guards.
LEMMA DrainsBesideNobody ==
  ASSUME Inv, NEW c \in Calls, pc[c] = "guards", NEW d \in Calls, pc[d] \in Draining
  PROVE  FALSE
<1>1. stopped /\ parallel
  BY DEF Draining, Inv, Owed, OneBySelf, Shape
<1> QED BY <1>1 DEF Inv, Owed

LEMMA WorkerAdvances ==
  ASSUME Inv, Goings, NEW c \in Calls, Worker(c)
  PROVE  Advances(c) /\ \A d \in Calls : Place(pc'[d]) >= Place(pc[d])
<1>1. MovesAlone(c) /\ Moves(c)
  BY WorkerMoves
<1>2. ASSUME Place(pc'[c]) > Place(pc[c])
      PROVE  Advances(c) /\ \A d \in Calls : Place(pc'[d]) >= Place(pc[d])
  <2>1. ASSUME NEW d \in Calls
        PROVE  Place(pc'[d]) >= Place(pc[d])
    BY <1>1, <1>2, PlaceFacts DEF MovesAlone
  <2> QED BY <1>2, <2>1 DEF Advances
<1>3. CASE FromTheLine(c) \/ FromTheGuards(c) \/ FromItsProvider(c)
  <2>1. Place(pc'[c]) > Place(pc[c])
    BY <1>3, PlaceFacts DEF FromTheLine, FromTheGuards, FromItsProvider
  <2> QED BY <1>2, <2>1
<1>4. CASE FromItsLook(c)
  <2>1. CASE pc'[c] \in {"alone", "done"}
    <3>1. Place(pc'[c]) > Place(pc[c])
      BY <1>4, <2>1, PlaceFacts DEF FromItsLook
    <3> QED BY <1>2, <3>1
  <2>2. CASE pc'[c] \notin {"alone", "done"}
    <3>1. Place(pc'[c]) = Place(pc[c])
      BY <1>4, <2>2, PlaceFacts DEF FromItsLook
    <3>2. CASE pc[c] = "draining" /\ pc'[c] = "redrain" /\ settled' = settled
      <4>1. Look(pc'[c], settled') > Look(pc[c], settled)
        BY <3>2, LookFacts
      <4> QED BY <1>1, <3>1, <4>1, PlaceFacts DEF Advances, MovesAlone
    <3>3. CASE pc[c] = "redrain" /\ pc'[c] = "draining" /\ ~settled' /\ c \notin cancelling
      <4>1. settled
        BY <3>3 DEF Goings, AsksWhenWoken
      <4>2. Look(pc'[c], settled') = 2 /\ Look(pc[c], settled) = 1
        BY <3>3, <4>1, LookFacts
      <4>3. Look(pc'[c], settled') > Look(pc[c], settled)
        BY <4>2
      <4> QED BY <1>1, <3>1, <4>3, PlaceFacts DEF Advances, MovesAlone
    <3> QED BY <1>4, <2>2, <3>2, <3>3 DEF FromItsLook
  <2> QED BY <2>1, <2>2
<1> QED BY <1>1, <1>3, <1>4 DEF Moves

LEMMA WorkerGoings ==
  ASSUME Inv, Goings, NEW c \in Calls, Worker(c)
  PROVE  Goings'
<1>1. MovesAlone(c) /\ Moves(c) /\ Clears(c)
  BY WorkerMoves
<1>2. OneDrains'
  <2> SUFFICES ASSUME NEW d \in Calls, NEW e \in Calls, pc'[d] \in Draining, pc'[e] \in Draining
               PROVE  d = e
    BY DEF OneDrains
  <2>1. pc'[c] \in Draining => pc[c] \in Draining \cup {"guards"}
    BY <1>1 DEF Moves, FromTheLine, FromTheGuards, FromItsProvider, FromItsLook, Draining
  <2>2. pc[d] \in Draining \/ d = c
    BY <1>1 DEF MovesAlone
  <2>3. pc[e] \in Draining \/ e = c
    BY <1>1 DEF MovesAlone
  <2> QED BY <2>1, <2>2, <2>3, DrainsBesideNobody DEF Goings, OneDrains
<1>3. AsksWhenWoken'
  <2> SUFFICES ASSUME NEW d \in Calls, pc'[d] = "redrain"
               PROVE  settled' \/ d \in cancelling'
    BY DEF AsksWhenWoken
  <2>1. CASE d = c
    BY <1>1, <2>1 DEF Moves, FromTheLine, FromTheGuards, FromItsProvider, FromItsLook
  <2>2. CASE d # c
    <3>1. pc[d] = "redrain" /\ (settled \/ d \in cancelling)
      BY <1>1, <2>2 DEF MovesAlone, Goings, AsksWhenWoken
    <3>2. d \in cancelling => d \in cancelling'
      BY <1>1, <2>2 DEF MovesAlone
    <3>3. ASSUME settled, ~settled'
          PROVE  FALSE
      <4>1. pc[c] \in {"guards", "redrain"}
        BY <1>1, <3>3 DEF Clears
      <4>2. pc[c] # "guards"
        BY <3>1, DrainsBesideNobody DEF Draining
      <4> QED BY <2>2, <3>1, <4>1, <4>2 DEF Goings, OneDrains, Draining
    <3> QED BY <3>1, <3>2, <3>3
  <2> QED BY <2>1, <2>2
<1>4. Answering'
  <2> SUFFICES ASSUME batch \in {"gather", "abort"}
               PROVE  /\ Group' # {}
                      /\ stopped' => \E d \in Calls : Accounts(d)'
                      /\ \A d \in Calls : pc'[d] = "done" => stopped' \/ Accounts(d)'
    BY <1>1 DEF Answering, MovesAlone
  <2>0. /\ stopped => \E d \in Calls : Accounts(d)
        /\ \A d \in Calls : pc[d] = "done" => stopped \/ Accounts(d)
    BY DEF Goings, Answering
  <2>1. Group' # {}
    <3>1. pc'[c] # "idle"
      BY <1>1 DEF Moves, FromTheLine, FromTheGuards, FromItsProvider, FromItsLook
    <3> QED BY <3>1 DEF Group
  <2>2. ASSUME NEW d \in Calls, d # c, Accounts(d)
        PROVE  Accounts(d)'
    BY <1>1, <2>2 DEF Accounts, MovesAlone
  <2>3. Accounts(c) => Accounts(c)'
    BY <1>1 DEF Accounts, Moves, FromTheLine, FromTheGuards, FromItsProvider, FromItsLook, Draining
  <2>4. CASE stopped' = stopped
    <3>1. \A d \in Calls : Accounts(d) => Accounts(d)'
      BY <2>2, <2>3
    <3>2. ASSUME NEW d \in Calls, pc'[d] = "done"
          PROVE  stopped' \/ Accounts(d)'
      <4>1. CASE d = c
        BY <1>1, <2>4, <3>2, <4>1
           DEF Accounts, Moves, FromTheLine, FromTheGuards, FromItsProvider, FromItsLook
      <4>2. CASE d # c
        BY <1>1, <2>0, <2>4, <3>1, <3>2, <4>2 DEF MovesAlone
      <4> QED BY <4>1, <4>2
    <3> QED BY <2>0, <2>1, <2>4, <3>1, <3>2
  <2>5. CASE stopped' # stopped
    <3>1. pc[c] = "guards" /\ stopped' = parallel
      BY <1>1, <2>5 DEF MovesAlone
    <3>2. Accounts(c)'
      BY <1>1, <2>5, <3>1
         DEF Accounts, Draining, Moves, FromTheLine, FromTheGuards, FromItsProvider, FromItsLook
    <3>3. ASSUME NEW d \in Calls, pc'[d] = "done", ~stopped'
          PROVE  Accounts(d)'
      <4>1. pc[d] = "idle" \/ d = c
        BY <3>1, <3>3 DEF Inv, OneBySelf
      <4>2. d = c
        BY <1>1, <3>3, <4>1 DEF MovesAlone
      <4> QED BY <3>2, <4>2
    <3> QED BY <2>1, <3>2, <3>3
  <2> QED BY <2>4, <2>5
<1> QED BY <1>2, <1>3, <1>4 DEF Goings
LEMMA TurnGoings ==
  ASSUME Inv, Goings, Turn \/ Interrupt
  PROVE  Goings'
<1>1. CASE StartGroup
  <2>1. Leading # {}
    BY <1>1, FS_EmptySet DEF StartGroup, RunsTogether
  <2>2. /\ \A c \in Calls : pc'[c] \in {"waiting", "idle"}
        /\ \E c \in Calls : pc'[c] # "idle"
        /\ stopped' = FALSE
    BY <1>1, <2>1 DEF StartGroup, FreshGate, Leading, Inv, Shape
  <2> QED BY <2>2 DEF Goings, OneDrains, AsksWhenWoken, Answering, Draining, Group
<1>2. CASE StartSerial
  <2>1. PICK first \in pending :
          pc' = [c \in Calls |-> IF c = first THEN "guards" ELSE "idle"]
    BY <1>2 DEF StartSerial
  <2>2. /\ \A c \in Calls : pc'[c] \in {"guards", "idle"}
        /\ \E c \in Calls : pc'[c] # "idle"
        /\ stopped' = FALSE
    BY <1>2, <2>1 DEF StartSerial, FreshGate, Inv, Shape
  <2> QED BY <2>2 DEF Goings, OneDrains, AsksWhenWoken, Answering, Draining, Group
<1>3. CASE Finish \/ GroupReturns \/ Raise
  <2>1. UNCHANGED <<pc, settled, cancelling>> /\ batch' \notin {"gather", "abort"}
    BY <1>3 DEF Finish, GroupReturns, Raise, gate
  <2> QED BY <2>1 DEF Goings, OneDrains, AsksWhenWoken, Answering
<1>4. CASE Abort \/ Interrupt
  <2>1. /\ UNCHANGED <<pc, settled, failed, outcomes, pending, stopped>>
        /\ batch \in {"gather", "abort"}
        /\ cancelling' = {c \in Group : pc[c] # "done"}
    BY <1>4 DEF Abort, Interrupt, gate
  <2>2. \A c \in Calls : pc[c] = "redrain" => c \in cancelling'
    BY <2>1 DEF Group
  <2>3. Answering'
    BY <2>1 DEF Goings, Answering, Group, Accounts
  <2> QED BY <2>1, <2>2, <2>3 DEF Goings, OneDrains, AsksWhenWoken
<1> QED BY <1>1, <1>2, <1>3, <1>4 DEF Turn

\* A group that leaves the batch in its loop has answered one of its calls.
LEMMA GroupsAnswer ==
  ASSUME Goings, GroupReturns, batch' = "loop"
  PROVE  \E c \in Group : c \notin pending
<1>1. /\ batch = "gather" /\ failed = {} /\ outcomes = {}
      /\ \A c \in Calls : pc[c] \in {"idle", "done"}
  BY DEF GroupReturns, GroupDone, Group
<1>2. PICK c \in Calls : pc[c] # "idle"
  BY <1>1 DEF Goings, Answering, Group
<1>3. PICK d \in Calls : Accounts(d)
  BY <1>1, <1>2 DEF Goings, Answering
<1>4. pc[d] = "done" /\ d \notin pending
  BY <1>1, <1>3 DEF Accounts, Draining
<1> QED BY <1>4 DEF Group

LEMMA StepAdvances ==
  ASSUME Inv, Goings, [Next]_vars
  PROVE  BatchAdvance
<1> DEFINE NoneBack ==
      batch \in {"gather", "abort"} => \A c \in Calls : Place(pc'[c]) >= Place(pc[c])
<1>1. \A c \in Calls : Worker(c) => Advances(c)
  BY WorkerAdvances
<1>2. CASE UNCHANGED vars
  <2>1. NoneBack
    BY <1>2, PlaceFacts DEF vars
  <2>2. pending' \subseteq pending /\ batch' = batch
    BY <1>2 DEF vars
  <2> HIDE DEF NoneBack
  <2> QED BY <1>1, <2>1, <2>2 DEF BatchAdvance, NoneBack
<1>3. ASSUME NEW c \in Calls, Worker(c)
      PROVE  BatchAdvance
  <2>1. NoneBack
    BY <1>3, WorkerAdvances
  <2>2. pending' \subseteq pending /\ batch' = batch
    BY <1>3, WorkerMoves DEF MovesAlone
  <2> HIDE DEF NoneBack
  <2> QED BY <1>1, <2>1, <2>2 DEF BatchAdvance, NoneBack
<1>4. CASE Turn \/ Interrupt
  <2>1. pending' = pending
    BY <1>4 DEF Turn, StartGroup, StartSerial, Finish, GroupReturns, Abort, Raise, Interrupt
  <2>2. NoneBack
    <3>1. batch \in {"gather", "abort"} => pc' = pc
      BY <1>4 DEF Turn, StartGroup, StartSerial, Finish, GroupReturns, Abort, Raise, Interrupt
    <3> QED BY <3>1, PlaceFacts
  <2>3. ASSUME batch = "loop", batch' = "gather"
        PROVE  Group' # {} /\ Group' \subseteq pending'
    <3>1. StartGroup \/ StartSerial
      BY <1>4, <2>3 DEF Turn, Finish, GroupReturns, Abort, Raise, Interrupt
    <3>2. Group' \subseteq pending'
      BY <2>1, <3>1 DEF StartGroup, StartSerial, Group, Leading
    <3>3. Goings'
      BY <1>4, TurnGoings
    <3> QED BY <2>3, <3>2, <3>3 DEF Goings, Answering
  <2>4. ASSUME batch = "gather", batch' = "loop"
        PROVE  \E c \in Group : c \notin pending
    <3>1. GroupReturns
      BY <1>4, <2>4 DEF Turn, StartGroup, StartSerial, Finish, Abort, Raise, Interrupt
    <3> QED BY <2>4, <3>1, GroupsAnswer
  <2> HIDE DEF NoneBack
  <2> QED BY <1>1, <2>1, <2>2, <2>3, <2>4 DEF BatchAdvance, NoneBack
<1> QED BY <1>2, <1>3, <1>4 DEF Next

\* An open batch only goes forward, whatever is cancelled or fails
\* (run_tool_batch, ToolExecutionGate.invoke and _reacquire): no step brings a worker
\* back, each of its own steps brings it further or, while it waits for its
\* siblings, to its next look; no call becomes pending again; and between two
\* passes of the loop a call of the group is answered.  With OpenGroupsGoOn this
\* is what BatchEnds needs besides fairness, but for the first step of a pass.
THEOREM BatchOnlyAdvances == Spec => [][BatchAdvance]_vars
<1>1. Init => Goings
  BY DEF Init, Goings, OneDrains, AsksWhenWoken, Answering, Draining
<1>2. Inv /\ Goings /\ [Next]_vars => Goings'
  <2> SUFFICES ASSUME Inv, Goings, [Next]_vars PROVE Goings'
    OBVIOUS
  <2>1. CASE UNCHANGED vars
    BY <2>1 DEF vars, gate, Goings, OneDrains, AsksWhenWoken, Answering, Group, Accounts
  <2> QED BY <2>1, WorkerGoings, TurnGoings DEF Next
<1>3. Inv /\ Goings /\ [Next]_vars => [BatchAdvance]_vars
  BY StepAdvances
<1> QED BY <1>1, <1>2, <1>3, Invariance, PTL DEF Spec
=============================================================================
