-------------------------- MODULE Steering_proofs --------------------------
(***************************************************************************)
(* Steering for any inputs, callers, retries and numbers of Turns.         *)
(*                                                                         *)
(* However the commits of the callers and the driver interleave, an input  *)
(* is queued once and the inputs are numbered in the order of their        *)
(* events.  A call that is still fresh loaded the queue that is there now: *)
(* the number it chose is the next one, and the input it is about to queue *)
(* is not in it.  Every commit makes the other calls stale.                *)
(*                                                                         *)
(* What was heard is the beginning of the queue, whatever Turn heard it,   *)
(* and the checkpoint of a Turn, in the row and with its driver, has told  *)
(* what that Turn heard.  A driver that is still fresh has picked all that *)
(* is left of the queue.                                                   *)
(*                                                                         *)
(* In a transcript there are as many calls as results and calls owed; at a *)
(* safe point that applies something nothing is owed.                      *)
(***************************************************************************)
EXTENDS Steering, FiniteSetTheorems, SequenceTheorems, TLAPS

CallStates == [pc : {"new", "commit", "done"}, seq : Nat, fresh : BOOLEAN,
               answer : {"none", "queued", "ambiguous", "refused", "failed"}, tries : Nat]

Types == /\ queue \in Queued
         /\ path \in [Inputs -> Paths]
         /\ routed \in [Inputs -> {"no", "queued", "ambiguous"}]
         /\ call \in [Calls -> CallStates]

\* What was queued by a routed call is known to the next one.
RoutedIsKnown ==
  \A k \in DOMAIN queue : path[queue[k].id] = "queue" \/ routed[queue[k].id] # "no"

FreshCalls ==
  \A c \in Calls :
    call[c].pc = "commit" /\ call[c].fresh =>
      /\ call[c].seq = Len(queue) + 1
      /\ call[c].answer \in {"queued", "ambiguous"}
      /\ call[c].answer = "queued" => \A k \in DOMAIN queue : queue[k].id # InputOf[c]

Inv == Types /\ QueuedOnce /\ RoutedIsKnown /\ FreshCalls

LEMMA Greatest ==
  ASSUME NEW n \in Nat
  PROVE  (CHOOSE k \in 0..n : \A m \in 0..n : m <= k) = n
<1>1. n \in 0..n /\ \A m \in 0..n : m <= n
  OBVIOUS
<1>2. ASSUME NEW k \in 0..n, \A m \in 0..n : m <= k PROVE k = n
  BY <1>1, <1>2
<1> QED
  BY <1>1, <1>2

LEMMA QueueShape ==
  ASSUME queue \in Queued
  PROVE  /\ Len(queue) \in Nat /\ DOMAIN queue = 1..Len(queue)
         /\ \A k \in DOMAIN queue : queue[k] \in [id : Inputs, seq : Nat]
<1> DEFINE S == [id : Inputs, seq : Nat]
<1>1. queue \in Seq(S)
  BY DEF Queued
<1> HIDE DEF S
<1>2. Len(queue) \in Nat /\ DOMAIN queue = 1..Len(queue) /\ \A k \in DOMAIN queue : queue[k] \in S
  BY <1>1
<1> QED
  BY <1>2 DEF S

LEMMA AppendShape ==
  ASSUME queue \in Queued, NEW e \in [id : Inputs, seq : Nat]
  PROVE  /\ Append(queue, e) \in Queued
         /\ DOMAIN Append(queue, e) = 1..Len(queue) + 1
         /\ Append(queue, e)[Len(queue) + 1] = e
         /\ \A k \in DOMAIN queue : Append(queue, e)[k] = queue[k]
<1> DEFINE S == [id : Inputs, seq : Nat]
<1>1. queue \in Seq(S) /\ e \in S
  BY DEF Queued
<1> HIDE DEF S
<1>2. /\ Append(queue, e) \in Seq(S) /\ Len(Append(queue, e)) = Len(queue) + 1
      /\ DOMAIN Append(queue, e) = 1..Len(queue) + 1
      /\ Append(queue, e)[Len(queue) + 1] = e
      /\ \A k \in DOMAIN queue : Append(queue, e)[k] = queue[k]
  BY <1>1
<1> QED
  BY <1>2 DEF S, Queued

\* The next number is one more than the events there are.
LEMMA NextNumber ==
  ASSUME queue \in Queued, QueuedOnce
  PROVE  LatestInbound = Len(queue)
<1> DEFINE Numbers == {0} \cup {queue[k].seq : k \in DOMAIN queue}
<1>1. Numbers = 0..Len(queue)
  BY QueueShape DEF QueuedOnce
<1>2. LatestInbound = CHOOSE n \in Numbers : \A m \in Numbers : m <= n
  BY DEF LatestInbound
<1> HIDE DEF Numbers
<1> QED
  BY <1>1, <1>2, Greatest, QueueShape

\* Nothing is queued and nobody has called.
LEMMA InitInv == Init => Inv
<1> SUFFICES ASSUME Init PROVE Inv
  OBVIOUS
<1>1. queue = <<>> /\ routed = [i \in Inputs |-> "no"] /\ call = [c \in Calls |-> NewCall]
      /\ path \in [Inputs -> Paths]
  BY DEF Init
<1>2. NewCall \in CallStates
  BY DEF NewCall, CallStates
<1>3. Types
  BY <1>1, <1>2 DEF Types, Queued
<1>4. QueuedOnce /\ RoutedIsKnown
  BY <1>1 DEF QueuedOnce, RoutedIsKnown
<1>5. FreshCalls
  BY <1>1 DEF FreshCalls, NewCall
<1> QED
  BY <1>3, <1>4, <1>5 DEF Inv

\* Whoever commits, the calls that had loaded before are no longer fresh.
LEMMA StaleKeeps ==
  ASSUME Inv, UNCHANGED <<queue, path, routed>>, call' = StaleCalls
  PROVE  Inv'
<1>1. \A c \in Calls : call'[c] = [call[c] EXCEPT !.fresh = FALSE]
  BY DEF StaleCalls
<1>2. call' \in [Calls -> CallStates]
  BY DEF StaleCalls, Inv, Types, CallStates
<1>3. \A c \in Calls : call'[c].fresh = FALSE
  BY <1>1 DEF Inv, Types, CallStates
<1> QED
  BY <1>2, <1>3 DEF Inv, Types, QueuedOnce, RoutedIsKnown, FreshCalls

\* The steps that touch neither the queue nor a call.
LEMMA OthersKeep ==
  ASSUME Inv, UNCHANGED <<queue, path, routed, call>>
  PROVE  Inv'
BY DEF Inv, Types, QueuedOnce, RoutedIsKnown, FreshCalls

\* A load: the number is the next one and the input is not in the queue.
LEMMA LoadKeeps ==
  ASSUME Inv, NEW c \in Calls, CallLoads(c)
  PROVE  Inv'
<1> DEFINE i == InputOf[c]
           at == AnsweredAtOnce(i)
<1>1. i \in Inputs
  BY InputOfAssumption
<1>2. UNCHANGED <<queue, path, routed>>
  BY DEF CallLoads, events
<1>3. at \in {"none", "queued", "ambiguous", "refused"}
  BY <1>1 DEF AnsweredAtOnce, Inv, Types
<1>4. LatestInbound = Len(queue) /\ Len(queue) \in Nat
  BY NextNumber, QueueShape DEF Inv, Types
<1>5. at = "none" => \A k \in DOMAIN queue : queue[k].id # i
  <2>1. at = "none" /\ path[i] = "queue" => i \notin QueuedIds
    BY DEF AnsweredAtOnce
  <2>2. at = "none" /\ path[i] # "queue" => routed[i] = "no"
    BY <1>1 DEF AnsweredAtOnce, Inv, Types
  <2> QED
    BY <2>1, <2>2 DEF QueuedIds, Inv, RoutedIsKnown
<1>6. call \in [Calls -> CallStates] /\ call[c] \in CallStates
  BY DEF Inv, Types
<1>7. /\ call' \in [Calls -> CallStates]
      /\ call'[c].pc = "commit" => at = "none" /\ call'[c].seq = Len(queue) + 1
                                   /\ call'[c].answer \in {"queued", "ambiguous"}
      /\ \A d \in Calls : d # c => call'[d] = call[d]
  <2>1. CASE at # "none"
    <3> DEFINE new == [call[c] EXCEPT !.pc = "done", !.answer = at]
    <3>1. call' = [call EXCEPT ![c] = new]
      BY <2>1 DEF CallLoads
    <3>2. new \in CallStates /\ new.pc = "done"
      BY <1>3, <1>6 DEF CallStates
    <3> HIDE DEF new
    <3> QED
      BY <1>6, <3>1, <3>2
  <2>2. CASE at = "none"
    <3> DEFINE answer == IF path[i] = "text" /\ row.asks THEN "ambiguous" ELSE "queued"
               number == LatestInbound + 1
               new == [call[c] EXCEPT !.pc = "commit", !.fresh = TRUE, !.seq = number,
                                      !.answer = answer]
    <3>1. call' = [call EXCEPT ![c] = new]
      BY <2>2 DEF CallLoads
    <3>2. answer \in {"queued", "ambiguous"} /\ number \in Nat /\ number = Len(queue) + 1
      BY <1>4
    <3> HIDE DEF answer, number
    <3>3. new \in CallStates
      BY <1>6, <3>2 DEF CallStates
    <3>4. new.seq = number /\ new.answer = answer
      BY <1>6 DEF CallStates
    <3> HIDE DEF new
    <3> QED
      BY <1>6, <2>2, <3>1, <3>2, <3>3, <3>4
  <2> QED
    BY <2>1, <2>2
<1>8. Types'
  BY <1>2, <1>7 DEF Inv, Types
<1>9. FreshCalls'
  BY <1>2, <1>5, <1>7 DEF FreshCalls, Inv
<1> QED
  BY <1>2, <1>8, <1>9 DEF Inv, QueuedOnce, RoutedIsKnown

\* A commit: by the freshness of the call, the event goes to the end of the queue
\* with the next number, and its input is new.
LEMMA CommitKeeps ==
  ASSUME Inv, NEW c \in Calls, CallCommits(c)
  PROVE  Inv'
<1> DEFINE i == InputOf[c]
           e == [id |-> i, seq |-> call[c].seq]
           done == [NewCall EXCEPT !.pc = "done", !.answer = call[c].answer]
<1>1. i \in Inputs /\ call[c] \in CallStates /\ path' = path
  BY InputOfAssumption DEF Inv, Types, CallCommits
<1>2. call[c].pc = "commit" /\ call[c].fresh
  BY DEF CallCommits, SameVersion
<1>3. /\ call[c].seq = Len(queue) + 1
      /\ call[c].answer \in {"queued", "ambiguous"}
      /\ call[c].answer = "queued" => \A k \in DOMAIN queue : queue[k].id # i
  BY <1>2 DEF Inv, FreshCalls
<1>4. queue' = IF call[c].answer = "queued" THEN Append(queue, e) ELSE queue
  BY DEF CallCommits
<1>5. routed' = IF path[i] = "queue" THEN routed ELSE [routed EXCEPT ![i] = call[c].answer]
  BY DEF CallCommits
<1>6. call' = [StaleCalls EXCEPT ![c] = done]
  BY DEF CallCommits
<1>7. done \in CallStates /\ done.pc = "done"
  BY <1>3 DEF NewCall, CallStates
<1>8. /\ call' \in [Calls -> CallStates]
      /\ \A d \in Calls : call'[d].pc = "done" \/ call'[d].fresh = FALSE
  BY <1>6, <1>7 DEF StaleCalls, Inv, Types, CallStates
<1>9. e \in [id : Inputs, seq : Nat]
  BY <1>1 DEF CallStates
<1>10. routed' \in [Inputs -> {"no", "queued", "ambiguous"}]
  BY <1>1, <1>3, <1>5 DEF Inv, Types
<1>11. Types'
  BY <1>1, <1>4, <1>8, <1>9, <1>10, AppendShape DEF Inv, Types
<1>12. FreshCalls'
  BY <1>8 DEF FreshCalls
<1>13. QueuedOnce' /\ RoutedIsKnown'
  <2>1. CASE call[c].answer # "queued"
    <3>1. queue' = queue /\ path' = path
      BY <2>1, <1>1, <1>4
    <3>2. \A j \in Inputs : routed[j] # "no" => routed'[j] # "no"
      BY <1>3, <1>5 DEF Inv, Types
    <3>3. \A k \in DOMAIN queue : queue[k].id \in Inputs
      BY QueueShape DEF Inv, Types
    <3> QED
      BY <3>1, <3>2, <3>3 DEF Inv, QueuedOnce, RoutedIsKnown
  <2>2. CASE call[c].answer = "queued"
    <3>1. queue' = Append(queue, e) /\ queue \in Queued
      BY <2>2, <1>4 DEF Inv, Types
    <3>2. /\ DOMAIN queue = 1..Len(queue) /\ DOMAIN queue' = 1..Len(queue) + 1 /\ Len(queue) \in Nat
          /\ queue'[Len(queue) + 1] = e
          /\ \A k \in DOMAIN queue : queue'[k] = queue[k] /\ queue[k].id \in Inputs
      BY <3>1, <1>9, QueueShape, AppendShape
    <3>3. QueuedOnce'
      BY <3>2, <2>2, <1>3 DEF Inv, QueuedOnce
    <3>4. path[i] = "queue" \/ routed'[i] # "no"
      BY <2>2, <1>1, <1>5 DEF Inv, Types
    <3>5. \A j \in Inputs : routed[j] # "no" => routed'[j] # "no"
      BY <2>2, <1>5 DEF Inv, Types
    <3>6. RoutedIsKnown'
      BY <3>2, <3>4, <3>5, <1>1 DEF Inv, RoutedIsKnown
    <3> QED
      BY <3>3, <3>6
  <2> QED
    BY <2>1, <2>2
<1> QED
  BY <1>11, <1>12, <1>13 DEF Inv

\* A refused commit is tried again from a new load, or given up.
LEMMA ConflictKeeps ==
  ASSUME Inv, NEW c \in Calls, CallConflicts(c)
  PROVE  Inv'
<1> DEFINE n == call[c].tries + 1
           new == IF n < Attempts THEN [NewCall EXCEPT !.tries = n]
                  ELSE [NewCall EXCEPT !.pc = "done", !.answer = "failed"]
<1>1. call' = [call EXCEPT ![c] = new] /\ UNCHANGED <<queue, path, routed>>
  BY DEF CallConflicts, events
<1>2. new \in CallStates /\ new.pc # "commit"
  <2>1. n \in Nat
    BY DEF CallStates, Inv, Types
  <2> HIDE DEF n
  <2>2. [NewCall EXCEPT !.tries = n] \in CallStates /\ [NewCall EXCEPT !.tries = n].pc = "new"
    BY <2>1 DEF NewCall, CallStates
  <2>3. LET given == [NewCall EXCEPT !.pc = "done", !.answer = "failed"]
        IN given \in CallStates /\ given.pc = "done"
    BY DEF NewCall, CallStates
  <2> QED
    BY <2>2, <2>3
<1> HIDE DEF new
<1> QED
  BY <1>1, <1>2 DEF Inv, Types, QueuedOnce, RoutedIsKnown, FreshCalls

\* Every step of every actor keeps the invariant: only the commit of a call
\* appends to the queue.
LEMMA StepInv == Inv /\ [Next]_vars => Inv'
<1> SUFFICES ASSUME Inv, [Next]_vars PROVE Inv'
  OBVIOUS
<1> DEFINE Quiet == UNCHANGED <<queue, path, routed>> /\ (call' = call \/ call' = StaleCalls)
<1>1. Quiet => Inv'
  BY StaleKeeps, OthersKeep
<1>2. ASSUME SaysSomething PROVE Inv'
  BY <1>2, LoadKeeps, CommitKeeps, ConflictKeeps DEF SaysSomething
<1>3. Raises => Quiet
  BY DEF Raises, events
<1>4. ASSUME AtSafePoint PROVE Quiet
  BY <1>4, <1>3 DEF AtSafePoint, SafePointLoads, SafePointApplies, SafePointConflicts, events
<1>5. ASSUME Saves PROVE Quiet
  BY <1>5, <1>3 DEF Saves, SaveLoads, SaveCommits, SaveConflicts, events
<1>6. ASSUME Works PROVE Quiet
  BY <1>6 DEF Works, ModelCalls, ModelAnswers, Review, Answer, ToolAsks, ToolReturns, events
<1>7. ASSUME Stops PROVE Quiet
  BY <1>7 DEF Stops, Interrupt, CancelTask, Crash, events
<1>8. ASSUME StartTurn \/ ResolveApproval \/ Resume PROVE Quiet
  BY <1>8 DEF StartTurn, ResolveApproval, Resume, events
<1>9. ASSUME UNCHANGED vars PROVE Quiet
  BY <1>9 DEF vars, events
<1> QED
  BY <1>1, <1>2, <1>4, <1>5, <1>6, <1>7, <1>8, <1>9 DEF Next

\* For any inputs and any number of callers, retries and Turns, an input is queued
\* once and the inputs are numbered in the order of their events: the version check
\* of queue_steering and route_runtime_input is enough.
THEOREM QueuedOnceHolds == Spec => []QueuedOnce
<1>1. Inv => QueuedOnce
  BY DEF Inv
<1> QED
  BY <1>1, InitInv, StepInv, PTL DEF Spec

-----------------------------------------------------------------------------
(* The inputs a Turn has heard.                                            *)

Words == Inputs \cup {"call", "result", "answer"}
SomeCheckpoint == [last : Nat, owed : Nat, open : BOOLEAN, samples : Nat, told : Seq(Words)]
SomeDriver == [pc : Places \cup {"load", "save"}, then : Places, cp : SomeCheckpoint,
               picked : Queued, fresh : BOOLEAN, tries : Nat, consent : BOOLEAN, seen : Nat]
SomeRow == [state : Active \cup {"AWAITING_INPUT", "CANCELLED", "FAILED"}, asks : BOOLEAN,
            ran : 0..1, cp : SomeCheckpoint \cup {None}]

\* What was heard is the beginning of the queue, whatever Turn heard it.
HeardGood(h, n, q, done) ==
  /\ h \in Seq([id : Inputs, turn : Nat]) /\ n \in Nat
  /\ Len(h) <= Len(q)
  /\ \A k \in DOMAIN h : h[k].id = q[k].id /\ h[k].turn <= n
  /\ done = {q[k].id : k \in 1..Len(h)}

\* A checkpoint of Turn n has told what that Turn heard, and has seen no more.
CheckpointGood(cp, h, n) ==
  /\ cp \in SomeCheckpoint /\ cp.last <= Len(h)
  /\ \A k \in DOMAIN h : h[k].turn = n => \E m \in DOMAIN cp.told : cp.told[m] = h[k].id

\* Where the driver is, or will be when its checkpoint is saved.
At(t) == IF t.pc \in {"load", "save"} THEN t.then ELSE t.pc

\* Calls are owed exactly where one is run next, and the answer under review is the
\* last thing told.
PlaceGood(place, cp) ==
  /\ place \in {"before-tool", "tool"} => cp.owed >= 1
  /\ place \in {"before-model", "sample", "before-finalization", "review",
                "before-finalization-commit", "answer"} => cp.owed = 0
  /\ place = "review" => Len(cp.told) >= 1 /\ cp.told[Len(cp.told)] = "answer"

\* What is left of the queue.
Rest(picked, h, q) ==
  Len(picked) = Len(q) - Len(h) /\ \A k \in DOMAIN picked : picked[k] = q[Len(h) + k]

DriverGood(t, h, n, q) ==
  /\ t \in SomeDriver
  /\ t.pc # "off" => CheckpointGood(t.cp, h, n) /\ PlaceGood(At(t), t.cp)
  /\ t.picked # <<>> => /\ t.pc \in SafePoints /\ t.cp.owed = 0
                        /\ t.fresh => Rest(t.picked, h, q) /\ t.seen = Len(q)
  /\ At(t) \in {"sample", "answer"} /\ ~LeftOpen(t.cp) => t.seen <= Len(h)

RowGood(r, h, n) ==
  /\ r \in SomeRow
  /\ r.cp # None \/ r.asks \/ r.state = "AWAITING_APPROVAL" => CheckpointGood(r.cp, h, n)
  /\ r.state = "AWAITING_APPROVAL" => r.cp.owed >= 1

Heard ==
  /\ HeardGood(heard, turns, queue, applied)
  /\ DriverGood(turn, heard, turns, queue)
  /\ RowGood(row, heard, turns)
  /\ row.state = "AWAITING_APPROVAL" => turn.pc = "off"

-----------------------------------------------------------------------------
(* What is pending is what is left of the queue.                           *)

LEMMA PendingIsRest ==
  ASSUME queue \in Queued, QueuedOnce, HeardGood(heard, turns, queue, applied),
         NEW cp \in SomeCheckpoint, cp.last <= Len(heard)
  PROVE  Pending(cp) \in Queued /\ Rest(Pending(cp), heard, queue)
<1> DEFINE L == Len(heard)
           Q == Len(queue)
           due == {k \in DOMAIN queue : queue[k].id \notin applied /\ queue[k].seq > cp.last}
<1>1. L \in Nat /\ Q \in Nat /\ L <= Q /\ DOMAIN queue = 1..Q /\ DOMAIN heard = 1..L
  BY QueueShape, LenProperties DEF HeardGood
<1>2. due = (L + 1)..Q
  <2>1. ASSUME NEW k \in 1..Q, k <= L PROVE queue[k].id \in applied
    BY <1>1, <2>1 DEF HeardGood
  <2>2. ASSUME NEW k \in 1..Q, k > L PROVE queue[k].id \notin applied /\ queue[k].seq > cp.last
    <3>1. \A m \in 1..L : queue[m].id # queue[k].id
      BY <1>1, <2>2 DEF QueuedOnce
    <3>2. queue[k].seq = k /\ cp.last \in Nat
      BY <1>1 DEF QueuedOnce, SomeCheckpoint
    <3> QED BY <3>1, <3>2, <1>1, <2>2 DEF HeardGood
  <2> QED BY <1>1, <2>1, <2>2
<1> HIDE DEF due
<1>3. Cardinality(due) = Q - L
  <2>1. L + 1 \in Int /\ Q \in Int
    BY <1>1
  <2>2. Cardinality((L + 1)..Q) = IF L + 1 > Q THEN 0 ELSE Q - (L + 1) + 1
    BY <2>1, FS_Interval
  <2> QED BY <1>1, <1>2, <2>2
<1>4. \A k \in due : Cardinality({j \in due : j <= k}) = k - L
  <2> SUFFICES ASSUME NEW k \in due PROVE Cardinality({j \in due : j <= k}) = k - L
    OBVIOUS
  <2>1. {j \in due : j <= k} = (L + 1)..k /\ k \in Int /\ k >= L + 1
    BY <1>1, <1>2
  <2>2. Cardinality((L + 1)..k) = k - L
    BY <1>1, <2>1, FS_Interval
  <2> QED BY <2>1, <2>2
<1>5. \A n \in 1..(Q - L) :
        (CHOOSE k \in due : Cardinality({j \in due : j <= k}) = n) = L + n
  <2> SUFFICES ASSUME NEW n \in 1..(Q - L)
               PROVE  (CHOOSE k \in due : Cardinality({j \in due : j <= k}) = n) = L + n
    OBVIOUS
  <2>1. L + n \in due /\ Cardinality({j \in due : j <= L + n}) = n
    BY <1>1, <1>2, <1>4
  <2>2. \A k \in due : Cardinality({j \in due : j <= k}) = n => k = L + n
    BY <1>1, <1>2, <1>4
  <2> QED BY <2>1, <2>2
<1>6. Pending(cp) = [n \in 1..(Q - L) |-> queue[L + n]]
  <2>1. Pending(cp) = [n \in 1..Cardinality(due) |->
                         queue[CHOOSE k \in due : Cardinality({j \in due : j <= k}) = n]]
    BY DEF Pending, QueuedAt, due
  <2> QED BY <2>1, <1>3, <1>5
<1>7. Q - L \in Nat
  BY <1>1
<1>8. \A n \in 1..(Q - L) : queue[L + n] \in [id : Inputs, seq : Nat]
  BY <1>1, QueueShape
<1>9. Pending(cp) \in Queued
  <2>1. Pending(cp) \in [1..(Q - L) -> [id : Inputs, seq : Nat]]
    BY <1>6, <1>8
  <2> QED BY <2>1, <1>7, SeqDef DEF Queued
<1>10. Len(Pending(cp)) = Q - L /\ DOMAIN Pending(cp) = 1..(Q - L)
  BY <1>6, <1>7
<1> QED BY <1>6, <1>9, <1>10 DEF Rest

-----------------------------------------------------------------------------
(* Checkpoints.                                                            *)

\* The words of a batch.
LEMMA Repeated ==
  ASSUME NEW n \in Nat, NEW what \in Words
  PROVE  [k \in 1..n |-> what] \in Seq(Words)
<1>1. [k \in 1..n |-> what] \in [1..n -> Words]
  OBVIOUS
<1> QED BY <1>1, SeqDef

\* A checkpoint that tells more keeps what it told.
LEMMA TellsMore ==
  ASSUME NEW h, NEW n, NEW cp, CheckpointGood(cp, h, n), NEW more \in Seq(Words),
         NEW new \in SomeCheckpoint, new.last = cp.last, new.told = cp.told \o more
  PROVE  CheckpointGood(new, h, n)
<1>1. cp.told \in Seq(Words)
  BY DEF CheckpointGood, SomeCheckpoint
<1>2. /\ Len(cp.told) \in Nat /\ Len(more) \in Nat /\ DOMAIN cp.told = 1..Len(cp.told)
      /\ DOMAIN new.told = 1..(Len(cp.told) + Len(more))
      /\ \A k \in DOMAIN cp.told : new.told[k] = cp.told[k]
  BY <1>1, LenProperties, ConcatProperties
<1> QED BY <1>2 DEF CheckpointGood

\* A checkpoint of which only the counters change.
LEMMA TellsTheSame ==
  ASSUME NEW h, NEW n, NEW cp, CheckpointGood(cp, h, n),
         NEW new \in SomeCheckpoint, new.last = cp.last, new.told = cp.told
  PROVE  CheckpointGood(new, h, n)
BY DEF CheckpointGood

LEMMA Telling ==
  ASSUME NEW h, NEW n, NEW cp, CheckpointGood(cp, h, n), NEW what \in Words
  PROVE  LET new == Tell(cp, what)
         IN /\ CheckpointGood(new, h, n) /\ new.owed = cp.owed /\ new.open = cp.open
            /\ Len(new.told) >= 1 /\ new.told[Len(new.told)] = what
<1> DEFINE new == Tell(cp, what)
<1>1. cp \in SomeCheckpoint /\ cp.told \in Seq(Words)
  BY DEF CheckpointGood, SomeCheckpoint
<1>2. /\ Append(cp.told, what) \in Seq(Words) /\ Len(cp.told) \in Nat
      /\ Len(Append(cp.told, what)) = Len(cp.told) + 1
      /\ Append(cp.told, what)[Len(cp.told) + 1] = what
      /\ \A k \in DOMAIN cp.told : /\ k \in DOMAIN Append(cp.told, what)
                                   /\ Append(cp.told, what)[k] = cp.told[k]
  BY <1>1, LenProperties
<1>3. /\ new \in SomeCheckpoint /\ new.told = Append(cp.told, what) /\ new.last = cp.last
      /\ new.owed = cp.owed /\ new.open = cp.open
  BY <1>1, <1>2 DEF Tell, SomeCheckpoint
<1> HIDE DEF new
<1>4. CheckpointGood(new, h, n)
  BY <1>2, <1>3 DEF CheckpointGood
<1> QED BY <1>2, <1>3, <1>4 DEF new

\* Results of owed calls.
LEMMA Answering ==
  ASSUME NEW h, NEW n, NEW cp, CheckpointGood(cp, h, n), NEW m \in Nat, m <= cp.owed
  PROVE  LET new == Answered(cp, m)
         IN CheckpointGood(new, h, n) /\ new.owed = cp.owed - m
<1> DEFINE new == Answered(cp, m)
           more == [k \in 1..m |-> "result"]
<1>1. cp \in SomeCheckpoint /\ cp.told \in Seq(Words) /\ cp.owed \in Nat
  BY DEF CheckpointGood, SomeCheckpoint
<1>2. more \in Seq(Words)
  BY Repeated DEF Words
<1> DEFINE open == cp.owed > m
           told == cp.told \o more
<1> HIDE DEF more
<1>3. told \in Seq(Words) /\ cp.owed - m \in Nat /\ open \in BOOLEAN
  BY <1>1, <1>2, ConcatProperties
<1>4. new = [cp EXCEPT !.owed = cp.owed - m, !.open = open, !.told = told]
  BY DEF Answered, more
<1> HIDE DEF open
<1>5. /\ new \in SomeCheckpoint /\ new.told = cp.told \o more /\ new.last = cp.last
      /\ new.owed = cp.owed - m
  BY <1>1, <1>3, <1>4 DEF SomeCheckpoint
<1> HIDE DEF new
<1>6. CheckpointGood(new, h, n)
  BY <1>2, <1>5, TellsMore
<1> QED BY <1>5, <1>6 DEF new

\* The model's calls.
Asking(cp, m) ==
  [cp EXCEPT !.owed = m, !.open = TRUE, !.samples = @ + 1, !.told = @ \o [k \in 1..m |-> "call"]]

LEMMA AskingGood ==
  ASSUME NEW h, NEW n, NEW cp, CheckpointGood(cp, h, n), NEW m \in Nat
  PROVE  CheckpointGood(Asking(cp, m), h, n) /\ Asking(cp, m).owed = m
<1> DEFINE new == Asking(cp, m)
           more == [k \in 1..m |-> "call"]
<1>1. cp \in SomeCheckpoint /\ cp.told \in Seq(Words) /\ cp.samples + 1 \in Nat
  BY DEF CheckpointGood, SomeCheckpoint
<1>2. more \in Seq(Words)
  BY Repeated DEF Words
<1> HIDE DEF more
<1>3. cp.told \o more \in Seq(Words)
  BY <1>1, <1>2, ConcatProperties
<1>4. new = [cp EXCEPT !.owed = m, !.open = TRUE, !.samples = cp.samples + 1, !.told = cp.told \o more]
  BY DEF Asking, more
<1>5. /\ new \in SomeCheckpoint /\ new.told = cp.told \o more /\ new.last = cp.last
      /\ new.owed = m
  BY <1>1, <1>3, <1>4 DEF SomeCheckpoint
<1> HIDE DEF new
<1>6. CheckpointGood(new, h, n)
  BY <1>2, <1>5, TellsMore
<1> QED BY <1>5, <1>6 DEF new

\* The review takes back the answer, which is nothing the user said.
TakenBack(cp) == [cp EXCEPT !.told = SubSeq(@, 1, Len(@) - 1)]

LEMMA TakingBack ==
  ASSUME NEW h \in Seq([id : Inputs, turn : Nat]), NEW n, NEW cp, CheckpointGood(cp, h, n),
         Len(cp.told) >= 1, cp.told[Len(cp.told)] = "answer"
  PROVE  CheckpointGood(TakenBack(cp), h, n) /\ TakenBack(cp).owed = cp.owed
<1> DEFINE new == TakenBack(cp)
           L == Len(cp.told)
<1>1. cp \in SomeCheckpoint /\ cp.told \in Seq(Words)
  BY DEF CheckpointGood, SomeCheckpoint
<1>2. /\ L \in Nat /\ DOMAIN cp.told = 1..L /\ L - 1 \in Nat
      /\ \A i \in 1..(L - 1) : cp.told[i] \in Words
  BY <1>1, LenProperties, ElementOfSeq
<1>3. /\ SubSeq(cp.told, 1, L - 1) \in Seq(Words)
      /\ Len(SubSeq(cp.told, 1, L - 1)) = L - 1
      /\ \A i \in 1..(L - 1) : SubSeq(cp.told, 1, L - 1)[i] = cp.told[i]
  BY <1>2, SubSeqProperties
<1>4. DOMAIN SubSeq(cp.told, 1, L - 1) = 1..(L - 1)
  BY <1>3, LenProperties
<1>5. /\ new \in SomeCheckpoint /\ new.told = SubSeq(cp.told, 1, L - 1) /\ new.last = cp.last
      /\ new.owed = cp.owed
  BY <1>1, <1>3 DEF TakenBack, SomeCheckpoint
<1> HIDE DEF new, L
<1>6. ASSUME NEW k \in DOMAIN h, h[k].turn = n
      PROVE  \E m \in DOMAIN new.told : new.told[m] = h[k].id
  <2>1. PICK m \in 1..L : cp.told[m] = h[k].id
    BY <1>2, <1>6 DEF CheckpointGood
  <2>2. h[k].id \in Inputs
    <3> DEFINE S == [id : Inputs, turn : Nat]
    <3>1. h \in Seq(S)
      OBVIOUS
    <3> HIDE DEF S
    <3>2. h[k] \in S
      BY <3>1, <1>6, LenProperties, ElementOfSeq
    <3> QED BY <3>2 DEF S
  <2>3. m # L
    BY <2>1, <2>2, NamesAssumption DEF L
  <2>4. m \in 1..(L - 1)
    BY <2>1, <2>3, <1>2
  <2> QED BY <2>1, <2>4, <1>3, <1>4, <1>5
<1> QED BY <1>5, <1>6 DEF CheckpointGood, new

-----------------------------------------------------------------------------
(* Where the driver goes.                                                  *)

LEMMA Standing ==
  ASSUME NEW h, NEW n, NEW q, NEW t \in SomeDriver, CheckpointGood(t.cp, h, n),
         t.pc \in Places, PlaceGood(t.pc, t.cp), t.picked = <<>>,
         t.pc \in {"sample", "answer"} /\ ~LeftOpen(t.cp) => t.seen <= Len(h)
  PROVE  DriverGood(t, h, n, q)
<1>1. t.pc \notin {"load", "save"}
  BY DEF Places, SafePoints
<1> QED BY <1>1 DEF DriverGood, At

LEMMA GoToTyped ==
  ASSUME NEW t \in SomeDriver, NEW place \in Places
  PROVE  /\ GoTo(t, place) \in SomeDriver /\ GoTo(t, place).pc = place
         /\ GoTo(t, place).cp = t.cp /\ GoTo(t, place).picked = <<>>
<1>1. <<>> \in Queued
  BY DEF Queued
<1> QED BY <1>1 DEF GoTo, SomeDriver, Places, SafePoints

\* The driver goes on knowing how much of the queue it has seen.
LEMMA GoingToSeen ==
  ASSUME NEW h, NEW n, NEW q, NEW t \in SomeDriver, CheckpointGood(t.cp, h, n),
         NEW place \in Places, PlaceGood(place, t.cp),
         place \in {"sample", "answer"} /\ ~LeftOpen(t.cp) => t.seen <= Len(h)
  PROVE  DriverGood([GoTo(t, place) EXCEPT !.seen = t.seen], h, n, q)
<1> DEFINE g == GoTo(t, place)
           new == [g EXCEPT !.seen = t.seen]
<1>1. g \in SomeDriver /\ g.pc = place /\ g.cp = t.cp /\ g.picked = <<>> /\ t.seen \in Nat
  BY GoToTyped DEF SomeDriver
<1> HIDE DEF g
<1>2. /\ new \in SomeDriver /\ new.pc = place /\ new.cp = t.cp /\ new.picked = <<>>
      /\ new.seen = t.seen
  BY <1>1 DEF SomeDriver
<1> HIDE DEF new
<1>3. DriverGood(new, h, n, q)
  BY <1>2, Standing
<1> QED BY <1>3 DEF new, g

LEMMA GoingTo ==
  ASSUME NEW h, NEW n, NEW q, NEW t \in SomeDriver, CheckpointGood(t.cp, h, n),
         NEW place \in Places \ {"sample", "answer"}, PlaceGood(place, t.cp)
  PROVE  DriverGood(GoTo(t, place), h, n, q)
BY GoToTyped, Standing

LEMMA SavingThen ==
  ASSUME NEW h, NEW n, NEW q, NEW t \in SomeDriver, NEW cp, CheckpointGood(cp, h, n),
         NEW place \in Places \ {"sample", "answer"}, PlaceGood(place, cp)
  PROVE  DriverGood(SaveThen(t, cp, place), h, n, q)
<1> DEFINE new == SaveThen(t, cp, place)
<1>1. <<>> \in Queued /\ cp \in SomeCheckpoint
  BY DEF Queued, CheckpointGood
<1>2. /\ new \in SomeDriver /\ new.pc = "load" /\ new.then = place /\ new.cp = cp
      /\ new.picked = <<>>
  BY <1>1 DEF SaveThen, GoTo, SomeDriver, Places, SafePoints
<1> HIDE DEF new
<1>3. At(new) = place
  BY <1>2 DEF At
<1> QED BY <1>2, <1>3 DEF DriverGood, new

\* From a safe point the driver goes on to the model or to its answer only when
\* nothing it has seen is left, unless its batch was left open.
LEMMA GoingOn ==
  ASSUME NEW h, NEW n, NEW q, NEW t \in SomeDriver, CheckpointGood(t.cp, h, n),
         t.pc \in SafePoints, PlaceGood(t.pc, t.cp), NEW changed \in BOOLEAN,
         t.pc # "before-tool" /\ ~LeftOpen(t.cp) => t.seen <= Len(h)
  PROVE  DriverGood(Onward(t, changed), h, n, q)
<1> DEFINE new == Onward(t, changed)
<1>0. <<>> \in Queued /\ t.cp \in SomeCheckpoint /\ t.seen \in Nat
  BY DEF Queued, CheckpointGood, SomeDriver
<1>1. CASE t.pc = "before-model"
  <2>1. CASE t.cp.samples = MaxSamples
    <3>1. new = SaveThen(t, t.cp, "off")
      BY <1>1, <2>1 DEF Onward
    <3>2. PlaceGood("off", t.cp) /\ "off" \in Places \ {"sample", "answer"}
      BY DEF PlaceGood, Places
    <3> QED BY <3>1, <3>2, SavingThen
  <2>2. CASE t.cp.samples # MaxSamples
    <3>1. new = [GoTo(t, "sample") EXCEPT !.seen = t.seen]
      BY <1>1, <2>2 DEF Onward
    <3>2. PlaceGood("sample", t.cp) /\ "sample" \in Places
      BY <1>1 DEF PlaceGood, Places
    <3> QED BY <1>1, <3>1, <3>2, GoingToSeen
  <2> QED BY <2>1, <2>2
<1>2. CASE t.pc = "before-tool"
  <2>1. new = GoTo(t, "tool")
    BY <1>2 DEF Onward
  <2>2. PlaceGood("tool", t.cp) /\ "tool" \in Places \ {"sample", "answer"}
    BY <1>2 DEF PlaceGood, Places
  <2> QED BY <2>1, <2>2, GoingTo
<1>3. CASE t.pc \in {"before-finalization", "before-finalization-commit"} /\ changed
  <2>1. new = GoTo(t, "before-model")
    BY <1>3 DEF Onward
  <2>2. PlaceGood("before-model", t.cp) /\ "before-model" \in Places \ {"sample", "answer"}
    BY <1>3 DEF PlaceGood, Places, SafePoints
  <2> QED BY <2>1, <2>2, GoingTo
<1> DEFINE cp == Tell(t.cp, "answer")
<1>4. /\ CheckpointGood(cp, h, n) /\ cp.owed = t.cp.owed /\ cp.open = t.cp.open
      /\ Len(cp.told) >= 1 /\ cp.told[Len(cp.told)] = "answer"
  BY Telling DEF Words
<1> HIDE DEF cp
<1>5. CASE t.pc = "before-finalization" /\ ~changed
  <2>1. new = SaveThen(t, cp, "review")
    BY <1>5 DEF Onward, cp
  <2>2. PlaceGood("review", cp) /\ "review" \in Places \ {"sample", "answer"}
    BY <1>4, <1>5 DEF PlaceGood, Places
  <2> QED BY <2>1, <2>2, <1>4, SavingThen
<1>6. CASE t.pc = "before-finalization-commit" /\ ~changed
  <2>1. new = [SaveThen(t, cp, "answer") EXCEPT !.seen = t.seen]
    BY <1>6 DEF Onward, cp
  <2>2. cp \in SomeCheckpoint
    BY <1>4 DEF CheckpointGood
  <2>3. /\ new \in SomeDriver /\ new.pc = "load" /\ new.then = "answer" /\ new.cp = cp
        /\ new.picked = <<>> /\ new.seen = t.seen
    <3> DEFINE g == SaveThen(t, cp, "answer")
    <3>1. /\ g \in SomeDriver /\ g.pc = "load" /\ g.then = "answer" /\ g.cp = cp
          /\ g.picked = <<>>
      BY <2>2, <1>0 DEF SaveThen, GoTo, SomeDriver, Places, SafePoints
    <3> HIDE DEF g
    <3>2. new = [g EXCEPT !.seen = t.seen]
      BY <2>1 DEF g
    <3> HIDE DEF new
    <3> QED BY <3>1, <3>2, <1>0 DEF SomeDriver
  <2> HIDE DEF new
  <2>4. At(new) = "answer" /\ PlaceGood("answer", cp)
    BY <2>3, <1>4, <1>6 DEF At, PlaceGood
  <2>5. LeftOpen(cp) <=> LeftOpen(t.cp)
    BY <1>4 DEF LeftOpen
  <2> QED BY <1>4, <1>6, <2>3, <2>4, <2>5 DEF DriverGood, new
<1> QED BY <1>1, <1>2, <1>3, <1>5, <1>6 DEF SafePoints

LEMMA NobodyDrives ==
  ASSUME NEW h, NEW n, NEW q
  PROVE  DriverGood(NoDriver, h, n, q) /\ NoDriver.pc = "off"
<1>1. <<>> \in Queued /\ <<>> \in Seq(Words)
  BY DEF Queued
<1>2. NewCheckpoint \in SomeCheckpoint
  BY <1>1 DEF NewCheckpoint, SomeCheckpoint
<1>3. NoDriver \in SomeDriver /\ NoDriver.pc = "off" /\ NoDriver.picked = <<>>
  BY <1>1, <1>2 DEF NoDriver, SomeDriver, Places
<1> QED BY <1>3 DEF DriverGood, At

-----------------------------------------------------------------------------
(* The steps.                                                              *)

LEMMA InitHeard == Init => Heard
<1> SUFFICES ASSUME Init PROVE Heard
  OBVIOUS
<1>1. <<>> \in Seq([id : Inputs, turn : Nat])
  OBVIOUS
<1>2. HeardGood(heard, turns, queue, applied)
  <2>1. heard = <<>> /\ turns = 0 /\ queue = <<>> /\ applied = {}
    BY DEF Init
  <2> QED BY <1>1, <2>1 DEF HeardGood
<1>3. NewRow \in SomeRow /\ NewRow.cp = None /\ ~NewRow.asks /\ NewRow.state = "AWAITING_INPUT"
  BY DEF NewRow, SomeRow
<1> QED BY <1>2, <1>3, NobodyDrives DEF Init, Heard, RowGood

\* The steps that leave the queue alone and apply nothing.
LEMMA OthersKeepHeard ==
  ASSUME Heard, UNCHANGED <<queue, applied, heard, turns>>,
         DriverGood(turn', heard, turns, queue), RowGood(row', heard, turns),
         row'.state = "AWAITING_APPROVAL" => turn'.pc = "off"
  PROVE  Heard'
BY DEF Heard

\* Rows.
LEMMA EmptyRow ==
  ASSUME NEW h, NEW n, NEW st \in {"AWAITING_INPUT", "CANCELLED", "FAILED"}
  PROVE  RowGood([NewRow EXCEPT !.state = st], h, n)
<1> DEFINE r == [NewRow EXCEPT !.state = st]
<1>1. r \in SomeRow /\ r.cp = None /\ r.asks = FALSE /\ r.state = st
  <2>1. NewRow \in SomeRow /\ NewRow.cp = None /\ NewRow.asks = FALSE
    BY DEF NewRow, SomeRow
  <2> QED BY <2>1 DEF SomeRow
<1> HIDE DEF r
<1>2. r.state # "AWAITING_APPROVAL"
  BY <1>1
<1>3. RowGood(r, h, n)
  BY <1>1, <1>2 DEF RowGood
<1> QED BY <1>3 DEF r

LEMMA RowWith ==
  ASSUME NEW h, NEW n, NEW r \in SomeRow, NEW cp, CheckpointGood(cp, h, n),
         r.state # "AWAITING_APPROVAL", NEW ran \in 0..1
  PROVE  /\ RowGood([r EXCEPT !.cp = cp], h, n)
         /\ RowGood([r EXCEPT !.cp = cp, !.ran = ran], h, n)
<1>1. cp \in SomeCheckpoint
  BY DEF CheckpointGood
<1> QED BY <1>1 DEF RowGood, SomeRow

LEMMA SupersededGood ==
  ASSUME NEW h, NEW n, NEW r, RowGood(r, h, n), r.asks
  PROVE  RowGood(Superseded(r), h, n) /\ Superseded(r).state = "EXECUTING"
<1> DEFINE new == [r.cp EXCEPT !.owed = 0, !.told = @ \o [k \in 1..r.cp.owed |-> "result"]]
           more == [k \in 1..r.cp.owed |-> "result"]
<1>1. r \in SomeRow /\ CheckpointGood(r.cp, h, n)
  BY DEF RowGood
<1>2. r.cp \in SomeCheckpoint /\ r.cp.told \in Seq(Words) /\ r.cp.owed \in Nat
  BY <1>1 DEF CheckpointGood, SomeCheckpoint
<1>3. more \in Seq(Words)
  BY <1>2, Repeated DEF Words
<1>4. new = [r.cp EXCEPT !.owed = 0, !.told = r.cp.told \o more]
  OBVIOUS
<1> HIDE DEF more
<1>5. r.cp.told \o more \in Seq(Words)
  BY <1>2, <1>3, ConcatProperties
<1>6. new \in SomeCheckpoint /\ new.told = r.cp.told \o more /\ new.last = r.cp.last
  BY <1>2, <1>4, <1>5 DEF SomeCheckpoint
<1>7. Superseded(r) = [r EXCEPT !.state = "EXECUTING", !.asks = FALSE, !.cp = new]
  BY <1>1 DEF Superseded, SomeRow
<1> HIDE DEF new
<1>8. CheckpointGood(new, h, n)
  BY <1>1, <1>3, <1>6, TellsMore
<1> QED BY <1>1, <1>6, <1>7, <1>8 DEF RowGood, SomeRow, Active

\* A commit of somebody else makes the driver stale, and changes nothing else of it.
LEMMA StaleDriver ==
  ASSUME NEW h, NEW n, NEW q, NEW more, DriverGood(turn, h, n, q)
  PROVE  DriverGood(StaleTurn, h, n, more) /\ StaleTurn.pc = turn.pc
<1>1. turn \in SomeDriver
  BY DEF DriverGood
<1>2. /\ StaleTurn \in SomeDriver /\ StaleTurn.pc = turn.pc /\ StaleTurn.then = turn.then
      /\ StaleTurn.cp = turn.cp /\ StaleTurn.picked = turn.picked
      /\ StaleTurn.fresh = FALSE /\ StaleTurn.seen = turn.seen
  BY <1>1 DEF StaleTurn, SomeDriver
<1>3. At(StaleTurn) = At(turn)
  BY <1>2 DEF At
<1> QED BY <1>2, <1>3 DEF DriverGood

\* Queueing appends to the queue, beyond what was heard.
LEMMA CallsKeepHeard ==
  ASSUME Types, Heard, SaysSomething
  PROVE  Heard'
<1> PICK c \in Calls : CallLoads(c) \/ CallCommits(c) \/ CallConflicts(c)
  BY DEF SaysSomething
<1>1. CASE CallLoads(c) \/ CallConflicts(c)
  <2>1. UNCHANGED <<row, queue, applied, turn, turns, heard>>
    BY <1>1 DEF CallLoads, CallConflicts, events, histories
  <2> QED BY <2>1 DEF Heard
<1>2. CASE CallCommits(c)
  <2>1. UNCHANGED <<applied, turns, heard>> /\ turn' = StaleTurn
    BY <1>2 DEF CallCommits, histories
  <2>2. row' = row \/ (row.asks /\ row' = Superseded(row))
    BY <1>2 DEF CallCommits
  <2>3. RowGood(row', heard, turns) /\ (row'.state = "AWAITING_APPROVAL" => row'.state = row.state)
    BY <2>2, SupersededGood DEF Heard
  <2>4. DriverGood(turn', heard, turns, queue') /\ turn'.pc = turn.pc
    BY <2>1, StaleDriver DEF Heard
  <2>5. HeardGood(heard, turns, queue', applied)
    <3>1. queue' = queue \/ \E e \in [id : Inputs, seq : Nat] : queue' = Append(queue, e)
      BY <1>2, InputOfAssumption DEF CallCommits, Types, CallStates
    <3>2. CASE queue' = queue
      BY <3>2 DEF Heard
    <3>3. ASSUME NEW e \in [id : Inputs, seq : Nat], queue' = Append(queue, e)
          PROVE  HeardGood(heard, turns, queue', applied)
      <4>1. queue \in Queued
        BY DEF Types
      <4>2. /\ Len(queue) \in Nat /\ DOMAIN queue = 1..Len(queue)
            /\ queue' \in Queued /\ DOMAIN queue' = 1..(Len(queue) + 1)
            /\ \A k \in DOMAIN queue : queue'[k] = queue[k]
        BY <4>1, <3>3, QueueShape, AppendShape
      <4>3. Len(queue') = Len(queue) + 1
        BY <4>2, LenProperties DEF Queued
      <4>4. HeardGood(heard, turns, queue, applied)
        BY DEF Heard
      <4>5. Len(heard) \in Nat /\ DOMAIN heard = 1..Len(heard) /\ Len(heard) <= Len(queue)
        BY <4>4, LenProperties DEF HeardGood
      <4>6. \A k \in 1..Len(heard) : queue'[k] = queue[k]
        BY <4>2, <4>5
      <4> HIDE DEF Heard
      <4>7. applied = {queue'[k].id : k \in 1..Len(heard)}
        BY <4>4, <4>6 DEF HeardGood
      <4> QED BY <4>3, <4>2, <4>4, <4>5, <4>6, <4>7 DEF HeardGood
    <3> QED BY <3>1, <3>2, <3>3
  <2> QED BY <2>1, <2>3, <2>4, <2>5 DEF Heard
<1> QED BY <1>1, <1>2

\* What a safe point picks is what is left of the queue; when it picks nothing,
\* nothing is left.
LEMMA PickingKeepsHeard ==
  ASSUME Types, QueuedOnce, Heard, SafePointLoads
  PROVE  Heard'
<1> DEFINE picked == Pending(turn.cp)
           t == [turn EXCEPT !.seen = Len(queue)]
           all == [t EXCEPT !.picked = picked, !.fresh = TRUE]
<1>1. /\ turn.pc \in SafePoints /\ turn.picked = <<>>
      /\ turn' = IF ~MayHear(t.cp) \/ picked = <<>> THEN Onward(t, FALSE) ELSE all
      /\ UNCHANGED <<row, queue, applied, turns, heard>>
  BY DEF SafePointLoads, events, histories
<1>2. queue \in Queued /\ Len(queue) \in Nat /\ DOMAIN queue = 1..Len(queue)
  BY QueueShape DEF Types
<1>3. HeardGood(heard, turns, queue, applied) /\ turn \in SomeDriver
  BY DEF Heard, DriverGood
<1>4. turn.pc # "off" /\ At(turn) = turn.pc /\ turn.pc \in Places
  BY <1>1 DEF SafePoints, At, Places
<1>5. /\ CheckpointGood(turn.cp, heard, turns) /\ PlaceGood(turn.pc, turn.cp)
      /\ turn.cp \in SomeCheckpoint /\ turn.cp.last <= Len(heard)
  BY <1>4 DEF Heard, DriverGood, CheckpointGood
<1>6. picked \in Queued /\ Rest(picked, heard, queue)
  BY <1>2, <1>3, <1>5, PendingIsRest
<1>7. /\ t \in SomeDriver /\ t.pc = turn.pc /\ t.cp = turn.cp /\ t.picked = <<>>
      /\ t.seen = Len(queue)
  BY <1>1, <1>2, <1>3 DEF SomeDriver
<1> HIDE DEF picked, t
<1>8. all \in SomeDriver /\ all.pc = turn.pc /\ all.cp = turn.cp /\ all.picked = picked
      /\ all.fresh = TRUE /\ all.seen = Len(queue)
  BY <1>6, <1>7 DEF SomeDriver
<1> HIDE DEF all
<1>9. DriverGood(turn', heard, turns, queue)
  <2>1. CASE ~MayHear(t.cp) \/ picked = <<>>
    <3>1. turn' = Onward(t, FALSE)
      BY <1>1, <2>1
    <3>2. t.pc # "before-tool" /\ ~LeftOpen(t.cp) => t.seen <= Len(heard)
      <4> SUFFICES ASSUME t.pc # "before-tool", ~LeftOpen(t.cp) PROVE t.seen <= Len(heard)
        OBVIOUS
      <4>1. t.cp.owed = 0
        BY <1>1, <1>5, <1>7 DEF PlaceGood, SafePoints
      <4>2. picked = <<>>
        BY <4>1, <2>1 DEF MayHear, LeftOpen
      <4>3. Len(queue) - Len(heard) = 0
        BY <1>6, <4>2 DEF Rest
      <4>4. Len(heard) \in Nat
        BY <1>3, LenProperties DEF HeardGood
      <4> QED BY <1>2, <1>7, <4>3, <4>4
    <3> QED BY <1>1, <1>5, <1>7, <3>1, <3>2, GoingOn
  <2>2. CASE ~(~MayHear(t.cp) \/ picked = <<>>)
    <3>1. turn' = all
      BY <1>1, <2>2
    <3>2. At(all) = turn.pc /\ turn.pc \notin {"sample", "answer"}
      BY <1>1, <1>4, <1>8 DEF At, SafePoints
    <3>3. all.cp.owed = 0
      BY <1>7, <1>8, <2>2 DEF MayHear
    <3> QED BY <1>1, <1>5, <1>6, <1>8, <3>1, <3>2, <3>3 DEF DriverGood
  <2> QED BY <2>1, <2>2
<1>10. RowGood(row', heard, turns) /\ row' = row /\ row.state # "AWAITING_APPROVAL"
  BY <1>1, <1>4 DEF Heard
<1> QED BY <1>1, <1>9, <1>10, OthersKeepHeard

\* The history of what is picked.
HeardNow(picked, n) == [k \in DOMAIN picked |-> [id |-> picked[k].id, turn |-> n]]

\* Whoever hears all that is left has heard the whole queue.
LEMMA HearingTheRest ==
  ASSUME Types, QueuedOnce, HeardGood(heard, turns, queue, applied),
         NEW picked \in Queued, picked # <<>>, Rest(picked, heard, queue)
  PROVE  LET more == heard \o HeardNow(picked, turns)
         IN /\ HeardGood(more, turns, queue, applied \cup IdSet(picked))
            /\ Len(more) = Len(queue) /\ Len(picked) >= 1
            /\ picked[Len(picked)].seq = Len(queue)
            /\ \A k \in 1..Len(heard) : more[k] = heard[k]
            /\ \A k \in 1..Len(picked) : more[Len(heard) + k].id = picked[k].id
<1> DEFINE new == HeardNow(picked, turns)
           more == heard \o new
           E == [id : Inputs, turn : Nat]
           L == Len(heard)
           P == Len(picked)
           Q == Len(queue)
<1>1. queue \in Queued /\ Q \in Nat /\ DOMAIN queue = 1..Q
  BY QueueShape DEF Types
<1>2. heard \in Seq(E) /\ L \in Nat /\ DOMAIN heard = 1..L /\ turns \in Nat
  BY LenProperties DEF HeardGood
<1>3. P \in Nat /\ DOMAIN picked = 1..P /\ P >= 1 /\ \A k \in 1..P : picked[k] \in [id : Inputs, seq : Nat]
  <2> DEFINE S == [id : Inputs, seq : Nat]
  <2>1. picked \in Seq(S)
    BY DEF Queued
  <2> HIDE DEF S
  <2>2. P \in Nat /\ DOMAIN picked = 1..P /\ P # 0 /\ \A k \in 1..P : picked[k] \in S
    BY <2>1, LenProperties, ElementOfSeq, EmptySeq
  <2> QED BY <2>2 DEF S
<1>4. P = Q - L /\ \A k \in 1..P : picked[k] = queue[L + k]
  BY <1>3 DEF Rest
<1>5. new = [k \in 1..P |-> [id |-> picked[k].id, turn |-> turns]]
  BY <1>3 DEF HeardNow
<1>6. new \in Seq(E) /\ Len(new) = P /\ \A k \in 1..P : new[k] = [id |-> picked[k].id, turn |-> turns]
  <2>1. \A k \in 1..P : picked[k].id \in Inputs
    BY <1>3
  <2>2. new \in [1..P -> E]
    BY <1>2, <1>5, <2>1
  <2> HIDE DEF E
  <2>3. new \in Seq(E) /\ DOMAIN new = 1..P
    BY <2>2, <1>3, SeqDef
  <2> QED BY <1>3, <1>5, <2>3, LenProperties
<1> HIDE DEF new, E
<1>7. /\ more \in Seq(E) /\ Len(more) = L + P
      /\ \A k \in 1..(L + P) : more[k] = IF k <= L THEN heard[k] ELSE new[k - L]
  <2>1. /\ more \in Seq(E) /\ Len(more) = Len(heard) + Len(new)
        /\ \A k \in 1..Len(heard) + Len(new) :
             more[k] = IF k <= Len(heard) THEN heard[k] ELSE new[k - Len(heard)]
    <3>1. heard \in Seq(E) /\ new \in Seq(E)
      BY <1>2, <1>6
    <3> QED BY <3>1, ConcatProperties
  <2>2. Len(heard) = L /\ Len(new) = P
    BY <1>6
  <2> HIDE DEF more, L, P
  <2> QED BY <2>1, <2>2
<1> HIDE DEF more, L, P, Q
<1>8. DOMAIN more = 1..Q /\ Len(more) = Q /\ L <= Q
  BY <1>1, <1>2, <1>3, <1>4, <1>7, LenProperties
<1>9. \A k \in 1..L : more[k] = heard[k]
  BY <1>1, <1>2, <1>3, <1>4, <1>7
<1>10. \A k \in 1..P : more[L + k] = [id |-> picked[k].id, turn |-> turns]
  <2> SUFFICES ASSUME NEW k \in 1..P PROVE more[L + k] = [id |-> picked[k].id, turn |-> turns]
    OBVIOUS
  <2>1. L + k \in 1..(L + P) /\ ~(L + k <= L) /\ L + k - L = k
    BY <1>2, <1>3
  <2>2. more[L + k] = new[k]
    <3>1. \A j \in 1..(L + P) : j > L => more[j] = new[j - L]
      BY <1>2, <1>3, <1>7
    <3>2. L + k \in 1..(L + P) /\ L + k > L
      BY <1>2, <1>3
    <3>3. more[L + k] = new[(L + k) - L]
      BY <3>1, <3>2
    <3>4. (L + k) - L = k
      BY <1>2, <1>3
    <3> QED BY <3>3, <3>4
  <2> QED BY <2>1, <2>2, <1>6
<1>11. \A k \in 1..Q : more[k].id = queue[k].id /\ more[k].turn <= turns
  <2> SUFFICES ASSUME NEW k \in 1..Q PROVE more[k].id = queue[k].id /\ more[k].turn <= turns
    OBVIOUS
  <2>1. CASE k <= L
    <3>1. k \in 1..L /\ k \in DOMAIN heard
      BY <1>1, <1>2, <2>1
    <3>2. heard[k].id = queue[k].id /\ heard[k].turn <= turns
      BY <3>1 DEF HeardGood
    <3> QED BY <3>1, <3>2, <1>9
  <2>2. CASE k > L
    <3>1. k - L \in 1..P /\ L + (k - L) = k
      BY <1>1, <1>2, <1>3, <1>4, <2>2
    <3>2. more[L + (k - L)] = [id |-> picked[k - L].id, turn |-> turns] /\ picked[k - L] = queue[L + (k - L)]
      BY <3>1, <1>10, <1>4
    <3>3. more[k] = [id |-> picked[k - L].id, turn |-> turns] /\ picked[k - L] = queue[k]
      BY <3>1, <3>2
    <3>4. turns <= turns
      BY <1>2
    <3> QED BY <3>3, <3>4
  <2>3. k <= L \/ k > L
    BY <1>1, <1>2
  <2> QED BY <2>1, <2>2, <2>3
<1>12. applied \cup IdSet(picked) = {queue[k].id : k \in 1..Q}
  <2>1. applied = {queue[k].id : k \in 1..L}
    BY DEF HeardGood, L
  <2>2. IdSet(picked) = {picked[k].id : k \in 1..P}
    BY <1>3 DEF IdSet
  <2>3. \A k \in 1..P : L + k \in 1..Q /\ picked[k].id = queue[L + k].id
    BY <1>1, <1>2, <1>3, <1>4
  <2>4. \A k \in 1..Q : k \in 1..L \/ (k - L \in 1..P /\ L + (k - L) = k)
    BY <1>1, <1>2, <1>3, <1>4
  <2>5. \A k \in 1..L : k \in 1..Q
    BY <1>8, <1>1, <1>2
  <2>6. \A k \in 1..Q : queue[k].id \in applied \cup IdSet(picked)
    <3> SUFFICES ASSUME NEW k \in 1..Q PROVE queue[k].id \in applied \cup IdSet(picked)
      OBVIOUS
    <3>1. CASE k \in 1..L
      BY <3>1, <2>1
    <3>2. CASE k - L \in 1..P /\ L + (k - L) = k
      <4>1. picked[k - L].id = queue[k].id
        BY <3>2, <2>3
      <4> QED BY <4>1, <3>2, <2>2
    <3> QED BY <2>4, <3>1, <3>2
  <2>7. \A i \in applied \cup IdSet(picked) : \E k \in 1..Q : i = queue[k].id
    BY <2>1, <2>2, <2>3, <2>5
  <2> QED BY <2>6, <2>7
<1>13. picked[P].seq = Q
  <2>1. P \in 1..P /\ L + P = Q /\ Q \in 1..Q
    BY <1>1, <1>2, <1>3, <1>4
  <2> QED BY <2>1, <1>1, <1>4 DEF QueuedOnce
<1>14. HeardGood(more, turns, queue, applied \cup IdSet(picked))
  <2>1. more \in Seq([id : Inputs, turn : Nat])
    BY <1>7 DEF E
  <2>2. Len(more) = Len(queue) /\ DOMAIN more = 1..Len(queue) /\ Len(queue) \in Nat /\ turns \in Nat
    BY <1>1, <1>2, <1>8 DEF Q
  <2>3. \A k \in 1..Len(queue) : more[k].id = queue[k].id /\ more[k].turn <= turns
    BY <1>11 DEF Q
  <2>4. applied \cup IdSet(picked) = {queue[k].id : k \in 1..Len(queue)}
    BY <1>12 DEF Q
  <2> HIDE DEF more
  <2> QED BY <2>1, <2>2, <2>3, <2>4 DEF HeardGood
<1>15. \A k \in 1..P : more[L + k].id = picked[k].id
  <2> SUFFICES ASSUME NEW k \in 1..P PROVE more[L + k].id = picked[k].id
    OBVIOUS
  <2>1. more[L + k] = [id |-> picked[k].id, turn |-> turns]
    BY <1>10
  <2> QED BY <2>1
<1> QED BY <1>3, <1>8, <1>9, <1>13, <1>14, <1>15 DEF more, new, L, P, Q

\* A history goes on with what was picked, to the end of the queue.
GoesOnBy(h, picked, more) ==
  /\ Len(more) = Len(h) + Len(picked) /\ DOMAIN more = 1..Len(more)
  /\ Len(picked) >= 1 /\ picked[Len(picked)].seq = Len(more)
  /\ \A k \in 1..Len(h) : more[k] = h[k]
  /\ \A k \in 1..Len(picked) : more[Len(h) + k].id = picked[k].id

\* A checkpoint that tells what its Turn just heard.
LEMMA HearingGood ==
  ASSUME NEW h \in Seq([id : Inputs, turn : Nat]), NEW n, NEW cp, CheckpointGood(cp, h, n),
         NEW picked \in Queued, NEW more, GoesOnBy(h, picked, more)
  PROVE  CheckpointGood(Hearing(cp, picked), more, n) /\ Hearing(cp, picked).owed = cp.owed
<1> DEFINE new == Hearing(cp, picked)
           L == Len(h)
           P == Len(picked)
           T == Len(cp.told)
<1>0. /\ Len(more) = L + P /\ DOMAIN more = 1..Len(more)
      /\ P >= 1 /\ picked[P].seq = Len(more)
      /\ \A k \in 1..L : more[k] = h[k]
      /\ \A k \in 1..P : more[L + k].id = picked[k].id
  BY DEF GoesOnBy
<1>1. cp \in SomeCheckpoint /\ cp.told \in Seq(Words)
  BY DEF CheckpointGood, SomeCheckpoint
<1>2. L \in Nat /\ DOMAIN h = 1..L /\ T \in Nat /\ DOMAIN cp.told = 1..T
  BY <1>1, LenProperties
<1>3. P \in Nat /\ DOMAIN picked = 1..P /\ \A k \in 1..P : picked[k] \in [id : Inputs, seq : Nat]
  <2> DEFINE S == [id : Inputs, seq : Nat]
  <2>1. picked \in Seq(S)
    BY DEF Queued
  <2> HIDE DEF S
  <2>2. P \in Nat /\ DOMAIN picked = 1..P /\ \A k \in 1..P : picked[k] \in S
    BY <2>1, LenProperties, ElementOfSeq
  <2> QED BY <2>2 DEF S
<1> DEFINE ids == Ids(picked)
<1>4. ids \in Seq(Words) /\ Len(ids) = P /\ \A k \in 1..P : ids[k] = picked[k].id
  <2>1. ids = [k \in 1..P |-> picked[k].id]
    BY <1>3 DEF Ids
  <2>2. \A k \in 1..P : picked[k].id \in Words
    BY <1>3 DEF Words
  <2> HIDE DEF ids, P
  <2>3. ids \in [1..P -> Words]
    BY <2>1, <2>2
  <2>4. ids \in Seq(Words)
    BY <2>3, <1>3, SeqDef
  <2> QED BY <2>1, <2>4, <1>3, LenProperties
<1> DEFINE told == cp.told \o ids
<1> HIDE DEF ids
<1>5. told \in Seq(Words) /\ Len(told) = T + P
      /\ \A k \in 1..(T + P) : told[k] = IF k <= T THEN cp.told[k] ELSE ids[k - T]
  <2>1. /\ told \in Seq(Words) /\ Len(told) = Len(cp.told) + Len(ids)
        /\ \A k \in 1..Len(cp.told) + Len(ids) :
             told[k] = IF k <= Len(cp.told) THEN cp.told[k] ELSE ids[k - Len(cp.told)]
    <3> DEFINE before == cp.told
    <3>1. before \in Seq(Words) /\ ids \in Seq(Words)
      BY <1>1, <1>4
    <3> HIDE DEF before
    <3>2. /\ before \o ids \in Seq(Words) /\ Len(before \o ids) = Len(before) + Len(ids)
          /\ \A k \in 1..Len(before) + Len(ids) :
               (before \o ids)[k] = IF k <= Len(before) THEN before[k] ELSE ids[k - Len(before)]
      BY <3>1, ConcatProperties
    <3> QED BY <3>2 DEF before
  <2> QED BY <2>1, <1>4
<1>6. DOMAIN told = 1..(T + P)
  BY <1>5, LenProperties
<1>7. picked[P].seq \in Nat
  BY <1>0, <1>2, <1>3
<1> HIDE DEF told
<1>8. new = [cp EXCEPT !.told = told, !.last = picked[P].seq]
  BY DEF Hearing, told, ids
<1>9. /\ new \in SomeCheckpoint /\ new.told = told /\ new.last = picked[P].seq
      /\ new.owed = cp.owed
  BY <1>1, <1>5, <1>7, <1>8 DEF SomeCheckpoint
<1> HIDE DEF new, L, P, T
<1>10. Len(more) = L + P /\ DOMAIN more = 1..(L + P) /\ new.last <= Len(more)
  BY <1>0, <1>2, <1>3, <1>9
<1>11. ASSUME NEW k \in DOMAIN more, more[k].turn = n
       PROVE  \E m \in DOMAIN told : told[m] = more[k].id
  <2>1. CASE k <= L
    <3>1. k \in 1..L /\ more[k] = h[k]
      BY <2>1, <1>0, <1>2, <1>3, <1>10
    <3>2. PICK m \in 1..T : cp.told[m] = h[k].id
      BY <3>1, <1>2, <1>11 DEF CheckpointGood
    <3>3. m \in 1..(T + P) /\ told[m] = cp.told[m]
      BY <3>2, <1>2, <1>3, <1>5
    <3> QED BY <3>1, <3>2, <3>3, <1>6
  <2>2. CASE k > L
    <3>1. k - L \in 1..P /\ L + (k - L) = k
      BY <2>2, <1>2, <1>3, <1>10
    <3>2. more[L + (k - L)].id = picked[k - L].id
      BY <3>1, <1>0
    <3> DEFINE m == T + (k - L)
    <3>3. m \in 1..(T + P) /\ ~(m <= T) /\ m - T = k - L
      BY <3>1, <1>2, <1>3, <1>10
    <3> HIDE DEF m
    <3>4. told[m] = ids[k - L]
      BY <3>3, <1>5
    <3>5. told[m] = picked[k - L].id
      BY <3>1, <3>4, <1>4
    <3> QED BY <3>1, <3>2, <3>3, <3>5, <1>6
  <2> QED BY <2>1, <2>2, <1>2, <1>3, <1>10
<1>12. CheckpointGood(new, more, n)
  BY <1>9, <1>10, <1>11 DEF CheckpointGood
<1> QED BY <1>9, <1>12 DEF new

\* The commit of a safe point hears all that is left, for nobody committed since it
\* was picked.
LEMMA ApplyingKeepsHeard ==
  ASSUME Types, QueuedOnce, Heard, SafePointApplies
  PROVE  Heard' /\ Hearing(turn.cp, turn.picked) \in SomeCheckpoint
<1> DEFINE picked == turn.picked
           cp == Hearing(turn.cp, picked)
           more == heard \o HeardNow(picked, turns)
           t == [turn EXCEPT !.cp = GoesOnWith(@, cp)]
<1>1. /\ picked # <<>> /\ turn.fresh
      /\ row' = [row EXCEPT !.cp = cp]
      /\ applied' = applied \cup IdSet(picked)
      /\ heard' = more
      /\ turn' = Onward(t, TRUE)
      /\ UNCHANGED <<queue, turns>>
  BY DEF SafePointApplies, SameVersion, HeardNow
<1>2. turn \in SomeDriver /\ picked \in Queued
  BY DEF Heard, DriverGood, SomeDriver
<1>3. turn.pc \in SafePoints /\ Rest(picked, heard, queue) /\ turn.seen = Len(queue)
  BY <1>1 DEF Heard, DriverGood
<1>4. turn.pc # "off" /\ At(turn) = turn.pc
  BY <1>3 DEF SafePoints, At
<1>5. CheckpointGood(turn.cp, heard, turns) /\ PlaceGood(turn.pc, turn.cp)
  BY <1>4 DEF Heard, DriverGood
<1>6. HeardGood(heard, turns, queue, applied) /\ heard \in Seq([id : Inputs, turn : Nat])
  BY DEF Heard, HeardGood
<1>7. /\ HeardGood(more, turns, queue, applied \cup IdSet(picked))
      /\ Len(more) = Len(queue) /\ Len(picked) >= 1
      /\ picked[Len(picked)].seq = Len(queue)
      /\ \A k \in 1..Len(heard) : more[k] = heard[k]
      /\ \A k \in 1..Len(picked) : more[Len(heard) + k].id = picked[k].id
  BY <1>1, <1>2, <1>3, <1>6, HearingTheRest
<1> HIDE DEF more, picked
<1>8. Len(more) = Len(heard) + Len(picked) /\ DOMAIN more = 1..Len(more)
  <2>1. Len(queue) \in Nat
    BY QueueShape DEF Types
  <2>2. Len(heard) \in Nat
    BY <1>6, LenProperties
  <2>3. DOMAIN more = 1..Len(more)
    BY <1>7, LenProperties DEF HeardGood
  <2> QED BY <2>1, <2>2, <2>3, <1>3, <1>7 DEF Rest
<1>9. CheckpointGood(cp, more, turns) /\ cp.owed = turn.cp.owed
  <2>1. GoesOnBy(heard, picked, more)
    BY <1>7, <1>8 DEF GoesOnBy
  <2> HIDE DEF cp
  <2>2. CheckpointGood(Hearing(turn.cp, picked), more, turns) /\ Hearing(turn.cp, picked).owed = turn.cp.owed
    BY <2>1, <1>2, <1>5, <1>6, HearingGood
  <2> QED BY <2>2 DEF cp
<1>10. cp \in SomeCheckpoint
  BY <1>9 DEF CheckpointGood
<1> HIDE DEF cp
<1>11. t \in SomeDriver /\ t.pc = turn.pc /\ t.cp = cp /\ t.seen = Len(queue)
  BY <1>2, <1>3, <1>10 DEF GoesOnWith, SomeDriver
<1> HIDE DEF t
<1>12. DriverGood(turn', more, turns, queue)
  <2>1. PlaceGood(t.pc, t.cp)
    BY <1>3, <1>5, <1>9, <1>11 DEF PlaceGood, SafePoints
  <2>2. t.seen <= Len(more)
    <3>1. Len(queue) \in Nat
      BY QueueShape DEF Types
    <3> QED BY <1>7, <1>11, <3>1
  <2> QED BY <1>1, <1>3, <1>9, <1>11, <2>1, <2>2, GoingOn
<1>13. row.state # "AWAITING_APPROVAL" /\ row \in SomeRow
  BY <1>4 DEF Heard, RowGood
<1>14. RowGood(row', more, turns) /\ row'.state = row.state
  BY <1>1, <1>9, <1>13, RowWith DEF SomeRow
<1>15. Heard'
  BY <1>1, <1>7, <1>12, <1>13, <1>14 DEF Heard
<1> QED BY <1>10, <1>15 DEF cp, picked

\* A driver that ends leaves the row as it is, or fails the Task.
LEMMA RaisingKeepsHeard ==
  ASSUME Heard, Raises
  PROVE  Heard'
<1>1. /\ turn' = NoDriver /\ UNCHANGED <<queue, applied, heard, turns>>
      /\ row' = row \/ row' = [NewRow EXCEPT !.state = "FAILED"]
  BY DEF Raises, events, histories
<1>2. DriverGood(turn', heard, turns, queue) /\ turn'.pc = "off"
  BY <1>1, NobodyDrives
<1>3. RowGood(row', heard, turns)
  BY <1>1, EmptyRow DEF Heard
<1> QED BY <1>1, <1>2, <1>3, OthersKeepHeard

\* A refused commit of a safe point.
LEMMA ConflictKeepsHeard ==
  ASSUME Heard, SafePointConflicts
  PROVE  Heard'
<1>1. CASE Raises
  BY <1>1, RaisingKeepsHeard
<1>2. CASE /\ turn' = [turn EXCEPT !.picked = <<>>, !.tries = @ + 1]
           /\ UNCHANGED <<row, events, path, call, histories>>
  <2>1. UNCHANGED <<row, queue, applied, turns, heard>>
    BY <1>2 DEF events, histories
  <2>2. turn \in SomeDriver /\ turn.tries + 1 \in Nat /\ <<>> \in Queued
    BY DEF Heard, DriverGood, SomeDriver, Queued
  <2>3. /\ turn' \in SomeDriver /\ turn'.pc = turn.pc /\ turn'.then = turn.then /\ turn'.cp = turn.cp
        /\ turn'.picked = <<>> /\ turn'.seen = turn.seen
    BY <1>2, <2>2 DEF SomeDriver
  <2>4. At(turn') = At(turn)
    BY <2>3 DEF At
  <2>5. DriverGood(turn', heard, turns, queue)
    BY <2>3, <2>4 DEF Heard, DriverGood
  <2> QED BY <2>1, <2>3, <2>5 DEF Heard
<1> QED BY <1>1, <1>2 DEF SafePointConflicts

\* What the driver's place says of its checkpoint.
LEMMA Driving ==
  ASSUME Heard, turn.pc # "off"
  PROVE  /\ turn \in SomeDriver /\ turn.cp \in SomeCheckpoint
         /\ CheckpointGood(turn.cp, heard, turns) /\ PlaceGood(At(turn), turn.cp)
         /\ row \in SomeRow /\ RowGood(row, heard, turns) /\ row.state # "AWAITING_APPROVAL"
BY DEF Heard, DriverGood, RowGood, CheckpointGood

\* A new Turn has heard nothing.
LEMMA StartKeepsHeard ==
  ASSUME Heard, StartTurn
  PROVE  Heard'
<1> DEFINE r == [NewRow EXCEPT !.state = "EXECUTING", !.cp = NewCheckpoint]
           g == GoTo(NoDriver, "before-model")
<1>1. row' = r /\ turn' = g /\ turns' = turns + 1 /\ UNCHANGED <<queue, applied, heard>>
  BY DEF StartTurn, events
<1>2. HeardGood(heard, turns, queue, applied)
  BY DEF Heard
<1>3. DOMAIN heard = 1..Len(heard) /\ Len(heard) \in Nat
  BY <1>2, LenProperties DEF HeardGood
<1>4. \A k \in DOMAIN heard : heard[k].turn \in Nat /\ heard[k].turn <= turns
  <2> DEFINE E == [id : Inputs, turn : Nat]
  <2>1. heard \in Seq(E) /\ turns \in Nat
    BY <1>2 DEF HeardGood
  <2> HIDE DEF E
  <2>2. \A k \in DOMAIN heard : heard[k] \in E
    BY <2>1, ElementOfSeq, LenProperties
  <2> QED BY <1>2, <2>2 DEF HeardGood, E
<1>5. turns \in Nat /\ turns + 1 \in Nat
  BY <1>2 DEF HeardGood
<1>6. HeardGood(heard, turns + 1, queue, applied)
  BY <1>2, <1>4, <1>5 DEF HeardGood
<1>7. NewCheckpoint \in SomeCheckpoint /\ NewCheckpoint.last = 0 /\ NewCheckpoint.owed = 0
  <2>1. <<>> \in Seq(Words)
    OBVIOUS
  <2> QED BY <2>1 DEF NewCheckpoint, SomeCheckpoint
<1>8. CheckpointGood(NewCheckpoint, heard, turns + 1)
  BY <1>3, <1>4, <1>5, <1>7 DEF CheckpointGood
<1>9. NoDriver \in SomeDriver /\ NoDriver.cp = NewCheckpoint
  BY NobodyDrives DEF DriverGood, NoDriver
<1>10. DriverGood(g, heard, turns + 1, queue)
  <2>1. PlaceGood("before-model", NoDriver.cp) /\ "before-model" \in Places \ {"sample", "answer"}
    BY <1>7, <1>9 DEF PlaceGood, Places, SafePoints
  <2> QED BY <1>8, <1>9, <2>1, GoingTo
<1>11. RowGood(r, heard, turns + 1) /\ r.state = "EXECUTING"
  <2>1. NewRow \in SomeRow /\ NewRow.asks = FALSE
    BY DEF NewRow, SomeRow
  <2>2. r \in SomeRow /\ r.state = "EXECUTING" /\ r.cp = NewCheckpoint
    BY <1>7, <2>1 DEF SomeRow, Active
  <2> HIDE DEF r
  <2> QED BY <1>8, <2>2 DEF RowGood
<1> HIDE DEF r, g
<1> QED BY <1>1, <1>6, <1>10, <1>11 DEF Heard

\* Saving the checkpoint of the driver.
LEMMA SavesKeepHeard ==
  ASSUME Heard, Saves
  PROVE  Heard'
<1>1. CASE SaveLoads
  <2>1. /\ turn.pc = "load" /\ turn' = [turn EXCEPT !.pc = "save", !.fresh = TRUE]
        /\ UNCHANGED <<row, queue, applied, turns, heard>>
    BY <1>1 DEF SaveLoads, events, histories
  <2>2. turn \in SomeDriver /\ DriverGood(turn, heard, turns, queue) /\ turn.pc # "off"
    BY <2>1 DEF Heard, DriverGood
  <2>3. turn.picked = <<>>
    BY <2>1, <2>2 DEF DriverGood, SafePoints
  <2>4. /\ turn' \in SomeDriver /\ turn'.pc = "save" /\ turn'.then = turn.then /\ turn'.cp = turn.cp
        /\ turn'.picked = turn.picked /\ turn'.seen = turn.seen
    BY <2>1, <2>2 DEF SomeDriver
  <2>5. At(turn') = At(turn)
    BY <2>1, <2>4 DEF At
  <2>6. DriverGood(turn', heard, turns, queue)
    BY <2>2, <2>3, <2>4, <2>5 DEF DriverGood
  <2> QED BY <2>1, <2>2, <2>6 DEF Heard
<1>2. CASE SaveCommits
  <2> DEFINE r == [row EXCEPT !.cp = turn.cp, !.ran = 0]
             g == [GoTo(turn, turn.then) EXCEPT !.seen = turn.seen]
  <2>1. /\ turn.pc = "save" /\ row' = r /\ turn' = IF turn.then = "off" THEN NoDriver ELSE g
        /\ UNCHANGED <<queue, applied, turns, heard>>
    BY <1>2 DEF SaveCommits, events, histories
  <2>2. /\ turn \in SomeDriver /\ CheckpointGood(turn.cp, heard, turns)
        /\ PlaceGood(turn.then, turn.cp) /\ turn.then \in Places
        /\ row \in SomeRow /\ row.state # "AWAITING_APPROVAL"
    BY <2>1, Driving DEF At, SomeDriver
  <2>3. RowGood(r, heard, turns) /\ r.state = row.state
    <3>1. 0 \in 0..1
      OBVIOUS
    <3>2. RowGood(r, heard, turns)
      BY <2>2, <3>1, RowWith
    <3>3. r.state = row.state
      BY <2>2 DEF SomeRow
    <3> QED BY <3>2, <3>3
  <2>4. turn.then \in {"sample", "answer"} /\ ~LeftOpen(turn.cp) => turn.seen <= Len(heard)
    BY <2>1 DEF Heard, DriverGood, At
  <2>5. DriverGood(g, heard, turns, queue)
    BY <2>2, <2>4, GoingToSeen
  <2> HIDE DEF r, g
  <2>6. DriverGood(turn', heard, turns, queue)
    BY <2>1, <2>5, NobodyDrives
  <2> QED BY <2>1, <2>2, <2>3, <2>6, OthersKeepHeard
<1>3. CASE SaveConflicts
  BY <1>3, RaisingKeepsHeard DEF SaveConflicts
<1> QED BY <1>1, <1>2, <1>3 DEF Saves

\* The model asks for tools, or answers.
LEMMA ModelKeepsHeard ==
  ASSUME Heard, ModelCalls \/ ModelAnswers
  PROVE  Heard'
<1>1. /\ turn.pc = "sample" /\ turn.pc # "off"
      /\ UNCHANGED <<row, queue, applied, turns, heard>>
  BY DEF ModelCalls, ModelAnswers, events, histories
<1>2. /\ turn \in SomeDriver /\ turn.cp \in SomeCheckpoint
      /\ CheckpointGood(turn.cp, heard, turns) /\ turn.cp.owed = 0
      /\ RowGood(row, heard, turns) /\ row.state # "AWAITING_APPROVAL"
  BY <1>1, Driving DEF At, PlaceGood
<1>3. CASE ModelCalls
  <2>1. PICK m \in 1..MaxBatch : turn' = SaveThen(turn, Asking(turn.cp, m), "before-tool")
    BY <1>3 DEF ModelCalls, Asking
  <2>2. m \in Nat /\ m >= 1
    BY BoundsAssumption
  <2>3. CheckpointGood(Asking(turn.cp, m), heard, turns) /\ Asking(turn.cp, m).owed = m
    BY <1>2, <2>2, AskingGood
  <2>4. /\ PlaceGood("before-tool", Asking(turn.cp, m))
        /\ "before-tool" \in Places \ {"sample", "answer"}
    BY <2>2, <2>3 DEF PlaceGood, Places, SafePoints
  <2>5. DriverGood(turn', heard, turns, queue)
    BY <1>2, <2>1, <2>3, <2>4, SavingThen
  <2> QED BY <1>1, <1>2, <2>5, OthersKeepHeard
<1>4. CASE ModelAnswers
  <2> DEFINE g == GoTo(turn, "before-finalization")
             cp == [g.cp EXCEPT !.samples = @ + 1]
  <2>1. turn' = [g EXCEPT !.cp.samples = @ + 1]
    BY <1>4 DEF ModelAnswers
  <2>2. "before-finalization" \in Places /\ "before-finalization" \in Places \ {"sample", "answer"}
    BY DEF Places, SafePoints
  <2>3. g \in SomeDriver /\ g.pc = "before-finalization" /\ g.cp = turn.cp /\ g.picked = <<>>
    BY <1>2, <2>2, GoToTyped
  <2> HIDE DEF g
  <2>4. /\ cp \in SomeCheckpoint /\ cp.last = turn.cp.last /\ cp.told = turn.cp.told
        /\ cp.owed = turn.cp.owed
    BY <1>2, <2>3 DEF SomeCheckpoint
  <2>5. turn' = [g EXCEPT !.cp = cp]
    BY <2>1, <2>3 DEF SomeDriver
  <2> HIDE DEF cp
  <2>6. /\ turn' \in SomeDriver /\ turn'.pc = "before-finalization" /\ turn'.cp = cp
        /\ turn'.picked = <<>>
    BY <2>3, <2>4, <2>5 DEF SomeDriver
  <2>7. CheckpointGood(cp, heard, turns) /\ PlaceGood("before-finalization", cp)
    BY <1>2, <2>4, TellsTheSame DEF PlaceGood
  <2>8. DriverGood(turn', heard, turns, queue)
    BY <2>2, <2>6, <2>7, Standing
  <2> QED BY <1>1, <1>2, <2>8, OthersKeepHeard
<1> QED BY <1>3, <1>4

\* The completion review.
LEMMA ReviewKeepsHeard ==
  ASSUME Heard, Review
  PROVE  Heard'
<1>1. /\ turn.pc = "review" /\ turn.pc # "off"
      /\ UNCHANGED <<row, queue, applied, turns, heard>>
  BY DEF Review, events, histories
<1>2. /\ turn \in SomeDriver /\ turn.cp \in SomeCheckpoint
      /\ CheckpointGood(turn.cp, heard, turns) /\ turn.cp.owed = 0
      /\ Len(turn.cp.told) >= 1 /\ turn.cp.told[Len(turn.cp.told)] = "answer"
      /\ RowGood(row, heard, turns) /\ row.state # "AWAITING_APPROVAL"
  BY <1>1, Driving DEF At, PlaceGood
<1>3. heard \in Seq([id : Inputs, turn : Nat])
  BY DEF Heard, HeardGood
<1>4. CASE turn' = GoTo(turn, "before-model")
  <2>1. PlaceGood("before-model", turn.cp) /\ "before-model" \in Places \ {"sample", "answer"}
    BY <1>2 DEF PlaceGood, Places, SafePoints
  <2>2. DriverGood(turn', heard, turns, queue)
    BY <1>2, <1>4, <2>1, GoingTo
  <2> QED BY <1>1, <1>2, <2>2, OthersKeepHeard
<1>5. CASE turn' = [GoTo(turn, "before-finalization-commit") EXCEPT !.cp.told = SubSeq(@, 1, Len(@) - 1)]
  <2> DEFINE g == GoTo(turn, "before-finalization-commit")
             cp == TakenBack(turn.cp)
  <2>1. turn' = [g EXCEPT !.cp.told = SubSeq(@, 1, Len(@) - 1)]
    BY <1>5
  <2>2. /\ "before-finalization-commit" \in Places
        /\ "before-finalization-commit" \in Places \ {"sample", "answer"}
    BY DEF Places, SafePoints
  <2>3. /\ g \in SomeDriver /\ g.pc = "before-finalization-commit" /\ g.cp = turn.cp
        /\ g.picked = <<>>
    BY <1>2, <2>2, GoToTyped
  <2> HIDE DEF g
  <2>4. turn' = [g EXCEPT !.cp = TakenBack(turn.cp)]
    BY <2>1, <2>3 DEF TakenBack, SomeDriver
  <2>5. CheckpointGood(cp, heard, turns) /\ cp.owed = 0
    BY <1>2, <1>3, TakingBack
  <2> HIDE DEF cp
  <2>6. cp \in SomeCheckpoint /\ PlaceGood("before-finalization-commit", cp)
    BY <2>5 DEF CheckpointGood, PlaceGood
  <2>7. /\ turn' \in SomeDriver /\ turn'.pc = "before-finalization-commit" /\ turn'.cp = cp
        /\ turn'.picked = <<>>
    BY <2>3, <2>4, <2>6 DEF SomeDriver, cp
  <2>8. DriverGood(turn', heard, turns, queue)
    BY <2>2, <2>5, <2>6, <2>7, Standing
  <2> QED BY <1>1, <1>2, <2>8, OthersKeepHeard
<1> QED BY <1>4, <1>5 DEF Review

\* The Turn ends with its answer, or is suspended for an approval.
LEMMA EndingKeepsHeard ==
  ASSUME Heard, Answer \/ ToolAsks
  PROVE  Heard'
<1>1. turn' = NoDriver /\ UNCHANGED <<queue, applied, turns, heard>>
  BY DEF Answer, ToolAsks, events, histories
<1>2. DriverGood(turn', heard, turns, queue) /\ turn'.pc = "off"
  BY <1>1, NobodyDrives
<1>3. CASE Answer
  <2>1. row' = NewRow
    BY <1>3 DEF Answer
  <2>2. NewRow \in SomeRow /\ NewRow.cp = None /\ ~NewRow.asks /\ NewRow.state = "AWAITING_INPUT"
    BY DEF NewRow, SomeRow
  <2>3. RowGood(NewRow, heard, turns)
    BY <2>2 DEF RowGood
  <2> QED BY <1>1, <1>2, <2>1, <2>3, OthersKeepHeard
<1>4. CASE ToolAsks
  <2> DEFINE r == [row EXCEPT !.state = "AWAITING_APPROVAL", !.asks = TRUE, !.cp = turn.cp]
  <2>1. row' = r /\ turn.pc = "tool" /\ turn.pc # "off"
    BY <1>4 DEF ToolAsks
  <2>2. CheckpointGood(turn.cp, heard, turns) /\ turn.cp.owed >= 1 /\ turn.cp \in SomeCheckpoint
        /\ row \in SomeRow
    BY <2>1, Driving DEF At, PlaceGood
  <2>3. r \in SomeRow /\ r.cp = turn.cp
    BY <2>2 DEF SomeRow, Active
  <2> HIDE DEF r
  <2>4. RowGood(r, heard, turns)
    BY <2>2, <2>3 DEF RowGood
  <2> QED BY <1>1, <1>2, <2>1, <2>4, OthersKeepHeard
<1> QED BY <1>3, <1>4

\* An owed call is answered.
LEMMA ToolKeepsHeard ==
  ASSUME Heard, ToolReturns
  PROVE  Heard'
<1> DEFINE cp == Answered(turn.cp, 1)
           place == IF cp.owed > 0 THEN "before-tool" ELSE "before-model"
           s == SaveThen(turn, cp, place)
<1>1. /\ turn.pc = "tool" /\ turn.pc # "off" /\ row' = [row EXCEPT !.ran = 1]
      /\ turn' = [s EXCEPT !.consent = FALSE] /\ UNCHANGED <<queue, applied, turns, heard>>
  BY DEF ToolReturns, events, histories
<1>2. /\ turn \in SomeDriver /\ turn.cp \in SomeCheckpoint
      /\ CheckpointGood(turn.cp, heard, turns) /\ turn.cp.owed >= 1
      /\ row \in SomeRow /\ RowGood(row, heard, turns) /\ row.state # "AWAITING_APPROVAL"
  BY <1>1, Driving DEF At, PlaceGood
<1>3. CheckpointGood(cp, heard, turns) /\ cp.owed = turn.cp.owed - 1 /\ turn.cp.owed \in Nat
  <2>1. turn.cp.owed \in Nat
    BY <1>2 DEF SomeCheckpoint
  <2> QED BY <1>2, <2>1, Answering
<1> HIDE DEF cp
<1>4. PlaceGood(place, cp) /\ place \in Places \ {"sample", "answer"}
  BY <1>2, <1>3 DEF PlaceGood, Places, SafePoints
<1> HIDE DEF place
<1>5. DriverGood(s, heard, turns, queue)
  BY <1>2, <1>3, <1>4, SavingThen
<1>6. s.pc = "load" /\ s.then = place /\ s.cp = cp /\ s.picked = <<>>
  BY <1>2 DEF SaveThen, GoTo, SomeDriver
<1> HIDE DEF s
<1>7. s \in SomeDriver
  BY <1>5 DEF DriverGood
<1>8. /\ turn' \in SomeDriver /\ turn'.pc = "load" /\ turn'.then = place /\ turn'.cp = cp
      /\ turn'.picked = <<>> /\ turn'.seen = s.seen
  BY <1>1, <1>6, <1>7 DEF SomeDriver
<1>9. DriverGood(turn', heard, turns, queue)
  BY <1>5, <1>6, <1>8 DEF DriverGood, At
<1>10. RowGood(row', heard, turns) /\ row'.state = row.state
  <2>1. row' \in SomeRow /\ row'.cp = row.cp /\ row'.asks = row.asks /\ row'.state = row.state
    BY <1>1, <1>2 DEF SomeRow
  <2> QED BY <1>2, <2>1 DEF RowGood
<1> QED BY <1>1, <1>2, <1>9, <1>10, OthersKeepHeard

\* Stops and crashes end the driver; the checkpoint stays in the row, or the Task is over.
LEMMA StopsKeepHeard ==
  ASSUME Heard, Stops
  PROVE  Heard'
<1>1. turn' = NoDriver /\ UNCHANGED <<queue, applied, turns, heard>>
  BY DEF Stops, Interrupt, CancelTask, Crash, events, histories
<1>2. DriverGood(turn', heard, turns, queue) /\ turn'.pc = "off"
  BY <1>1, NobodyDrives
<1>3. RowGood(row, heard, turns) /\ row \in SomeRow
  BY DEF Heard, RowGood
<1>4. RowGood(row', heard, turns)
  <2>1. CASE row' = row
    BY <1>3, <2>1
  <2>2. CASE row' = [NewRow EXCEPT !.state = "CANCELLED"]
    BY <2>2, EmptyRow
  <2>3. CASE row' = [row EXCEPT !.state = "INTERRUPTED"]
    <3>1. /\ row' \in SomeRow /\ row'.cp = row.cp /\ row'.asks = row.asks
          /\ row'.state = "INTERRUPTED"
      BY <1>3, <2>3 DEF SomeRow, Active
    <3> QED BY <1>3, <3>1 DEF RowGood
  <2> QED BY <2>1, <2>2, <2>3 DEF Stops, Interrupt, CancelTask, Crash
<1> QED BY <1>1, <1>2, <1>4, OthersKeepHeard

\* A Turn goes on from the checkpoint in the row, where nothing is owed or at a tool.
LEMMA Resuming ==
  ASSUME NEW h, NEW n, NEW q, NEW cp, CheckpointGood(cp, h, n),
         NEW place \in Places \ {"sample", "answer"}, PlaceGood(place, cp), NEW consent \in BOOLEAN
  PROVE  /\ DriverGood([GoTo(NoDriver, place) EXCEPT !.cp = cp, !.consent = consent], h, n, q)
         /\ DriverGood([GoTo(NoDriver, place) EXCEPT !.cp = cp], h, n, q)
<1> DEFINE g == GoTo(NoDriver, place)
           t == [g EXCEPT !.cp = cp, !.consent = consent]
           u == [g EXCEPT !.cp = cp]
<1>1. NoDriver \in SomeDriver /\ cp \in SomeCheckpoint
  BY NobodyDrives DEF DriverGood, CheckpointGood
<1>2. g \in SomeDriver /\ g.pc = place /\ g.picked = <<>>
  BY <1>1, GoToTyped
<1> HIDE DEF g
<1>3. /\ t \in SomeDriver /\ t.pc = place /\ t.cp = cp /\ t.picked = <<>>
      /\ u \in SomeDriver /\ u.pc = place /\ u.cp = cp /\ u.picked = <<>>
  BY <1>1, <1>2 DEF SomeDriver
<1> HIDE DEF t, u
<1>4. DriverGood(t, h, n, q) /\ DriverGood(u, h, n, q)
  BY <1>3, Standing
<1> QED BY <1>4 DEF t, u, g

\* The approval is resolved, and the Turn goes on at the call that asked.
LEMMA ApprovalKeepsHeard ==
  ASSUME Heard, ResolveApproval
  PROVE  Heard'
<1>1. /\ row.state = "AWAITING_APPROVAL" /\ row' = [row EXCEPT !.state = "EXECUTING", !.asks = FALSE]
      /\ turn' = [GoTo(NoDriver, "tool") EXCEPT !.cp = row.cp, !.consent = TRUE]
      /\ UNCHANGED <<queue, applied, turns, heard>>
  BY DEF ResolveApproval, events, histories
<1>2. row \in SomeRow /\ CheckpointGood(row.cp, heard, turns) /\ row.cp.owed >= 1
  BY <1>1 DEF Heard, RowGood
<1>3. PlaceGood("tool", row.cp) /\ "tool" \in Places \ {"sample", "answer"}
  BY <1>2 DEF PlaceGood, Places
<1>4. DriverGood(turn', heard, turns, queue)
  BY <1>1, <1>2, <1>3, Resuming
<1>5. RowGood(row', heard, turns) /\ row'.state = "EXECUTING"
  <2>1. row' \in SomeRow /\ row'.cp = row.cp /\ row'.state = "EXECUTING"
    BY <1>1, <1>2 DEF SomeRow, Active
  <2> QED BY <1>2, <2>1 DEF RowGood
<1> QED BY <1>1, <1>4, <1>5, OthersKeepHeard

\* A Turn that was interrupted goes on from the checkpoint in the row.
LEMMA ResumeKeepsHeard ==
  ASSUME Heard, Resume
  PROVE  Heard'
<1> DEFINE settled == row.state = "INTERRUPTED"
           cp == IF settled THEN Answered(row.cp, row.cp.owed) ELSE row.cp
           place == IF cp.owed > 0 THEN "before-tool" ELSE "before-model"
           ran == IF settled THEN 0 ELSE row.ran
<1>1. /\ row.cp # None
      /\ row' = [row EXCEPT !.state = "EXECUTING", !.cp = cp, !.ran = IF settled THEN 0 ELSE @]
      /\ turn' = [GoTo(NoDriver, place) EXCEPT !.cp = cp]
      /\ UNCHANGED <<queue, applied, turns, heard>>
  BY DEF Resume, events, histories
<1>2. row \in SomeRow /\ CheckpointGood(row.cp, heard, turns) /\ row.cp.owed \in Nat
  BY <1>1 DEF Heard, RowGood, CheckpointGood, SomeCheckpoint
<1>3. CheckpointGood(cp, heard, turns)
  <2>1. row.cp.owed <= row.cp.owed
    BY <1>2
  <2>2. CheckpointGood(Answered(row.cp, row.cp.owed), heard, turns)
    BY <1>2, <2>1, Answering
  <2> QED BY <1>2, <2>2
<1>4. cp \in SomeCheckpoint /\ cp.owed \in Nat
  BY <1>3 DEF CheckpointGood, SomeCheckpoint
<1>5. row' = [row EXCEPT !.state = "EXECUTING", !.cp = cp, !.ran = ran]
  BY <1>1, <1>2 DEF SomeRow
<1>6. ran \in 0..1
  BY <1>2 DEF SomeRow
<1> HIDE DEF cp, ran
<1>7. PlaceGood(place, cp) /\ place \in Places \ {"sample", "answer"}
  BY <1>4 DEF PlaceGood, Places, SafePoints
<1> HIDE DEF place
<1>8. DriverGood(turn', heard, turns, queue)
  BY <1>1, <1>3, <1>7, Resuming
<1>9. RowGood(row', heard, turns) /\ row'.state = "EXECUTING"
  <2>1. row' \in SomeRow /\ row'.cp = cp /\ row'.state = "EXECUTING"
    BY <1>2, <1>4, <1>5, <1>6 DEF SomeRow, Active
  <2> QED BY <1>3, <2>1 DEF RowGood
<1> QED BY <1>1, <1>8, <1>9, OthersKeepHeard

LEMMA StepHeard == Inv /\ Heard /\ [Next]_vars => Heard'
<1> SUFFICES ASSUME Inv, Heard, [Next]_vars PROVE Heard'
  OBVIOUS
<1>1. Types /\ QueuedOnce
  BY DEF Inv
<1>2. CASE SaysSomething
  BY <1>1, <1>2, CallsKeepHeard
<1>3. CASE StartTurn
  BY <1>3, StartKeepsHeard
<1>4. CASE AtSafePoint
  BY <1>1, <1>4, PickingKeepsHeard, ApplyingKeepsHeard, ConflictKeepsHeard DEF AtSafePoint
<1>5. CASE Saves
  BY <1>5, SavesKeepHeard
<1>6. CASE Works
  BY <1>6, ModelKeepsHeard, ReviewKeepsHeard, EndingKeepsHeard, ToolKeepsHeard DEF Works
<1>7. CASE ResolveApproval
  BY <1>7, ApprovalKeepsHeard
<1>8. CASE Stops
  BY <1>8, StopsKeepHeard
<1>9. CASE Resume
  BY <1>9, ResumeKeepsHeard
<1>10. CASE UNCHANGED vars
  BY <1>10 DEF vars, Heard
<1> QED BY <1>2, <1>3, <1>4, <1>5, <1>6, <1>7, <1>8, <1>9, <1>10 DEF Next

LEMMA AlwaysHeard == Spec => [](Inv /\ Heard)
<1>1. Init => Inv /\ Heard
  BY InitInv, InitHeard
<1>2. Inv /\ Heard /\ [Next]_vars => (Inv /\ Heard)'
  BY StepInv, StepHeard
<1> QED BY <1>1, <1>2, PTL DEF Spec

\* For any inputs, callers, retries and Turns, an input is applied once and after
\* every input queued before it, however callers and driver interleave at the safe
\* points (_apply_pending_steering): what was heard is the beginning of the queue.
THEOREM AppliedInOrderHolds == Spec => []AppliedInOrder
<1>1. Inv /\ Heard => AppliedInOrder
  <2> SUFFICES ASSUME Inv, Heard, NEW k \in DOMAIN heard, NEW m \in DOMAIN heard, k < m
               PROVE  \E p, q \in DOMAIN queue :
                        p < q /\ queue[p].id = heard[k].id /\ queue[q].id = heard[m].id
    BY DEF AppliedInOrder
  <2>1. HeardGood(heard, turns, queue, applied) /\ queue \in Queued
    BY DEF Heard, Inv, Types
  <2>2. /\ Len(heard) \in Nat /\ DOMAIN heard = 1..Len(heard) /\ Len(heard) <= Len(queue)
        /\ Len(queue) \in Nat /\ DOMAIN queue = 1..Len(queue)
    BY <2>1, QueueShape, LenProperties DEF HeardGood
  <2>3. k \in DOMAIN queue /\ m \in DOMAIN queue
    BY <2>2
  <2>4. queue[k].id = heard[k].id /\ queue[m].id = heard[m].id
    BY <2>1 DEF HeardGood
  <2> QED BY <2>3, <2>4
<1> QED BY <1>1, AlwaysHeard, PTL

\* For any batches, suspensions, crashes and resumptions, what a Turn was told is in
\* its checkpoint, in the store and with its driver: every save and every commit of a
\* safe point carries the messages on.
THEOREM HeardIsKeptHolds == Spec => []HeardIsKept
<1>1. Inv /\ Heard => HeardIsKept
  BY DEF Heard, DriverGood, RowGood, CheckpointGood, HeardIsKept
<1> QED BY <1>1, AlwaysHeard, PTL

\* For any inputs and any interleaving, the model is not asked and no answer is
\* committed before what was queued at the last safe point is applied, unless the
\* Turn was resumed with its batch left open.
THEOREM HeardBeforeGoingOnHolds == Spec => []HeardBeforeGoingOn
<1>1. Inv /\ Heard => HeardBeforeGoingOn
  <2> SUFFICES ASSUME Inv, Heard, turn.pc \in {"sample", "answer"}, ~LeftOpen(turn.cp),
                      NEW k \in 1..turn.seen
               PROVE  queue[k].id \in applied
    BY DEF HeardBeforeGoingOn
  <2>1. turn.seen <= Len(heard) /\ turn.seen \in Nat
    BY DEF Heard, DriverGood, At, SomeDriver
  <2>2. HeardGood(heard, turns, queue, applied) /\ Len(heard) \in Nat
    BY LenProperties DEF Heard, HeardGood
  <2>3. k \in 1..Len(heard)
    BY <2>1, <2>2
  <2> QED BY <2>2, <2>3 DEF HeardGood
<1> QED BY <1>1, AlwaysHeard, PTL

-----------------------------------------------------------------------------
(* Calls and results in a transcript.                                      *)

Number(told, what, n) == Cardinality({k \in 1..n : told[k] = what})

\* A transcript goes on, or a longer one is cut off.
Extends(told, new) ==
  /\ told \in Seq(Words) /\ new \in Seq(Words) /\ Len(told) <= Len(new)
  /\ \A k \in 1..Len(told) : new[k] = told[k]

Added(told, new) == {new[k] : k \in Len(told) + 1..Len(new)}

\* Every call has its result, but for those that are owed, and nothing the user says
\* comes in between.
Even(told, owed) ==
  /\ owed \in Nat
  /\ Number(told, "call", Len(told)) = Number(told, "result", Len(told)) + owed
  /\ Unbroken(told)

LEMMA NumberIsNat ==
  ASSUME NEW told, NEW what, NEW n \in Nat
  PROVE  Number(told, what, n) \in Nat /\ IsFiniteSet({k \in 1..n : told[k] = what})
<1>1. IsFiniteSet(1..n)
  BY FS_Interval
<1>2. {k \in 1..n : told[k] = what} \in SUBSET (1..n)
  OBVIOUS
<1>3. IsFiniteSet({k \in 1..n : told[k] = what})
  BY <1>1, <1>2, FS_Subset
<1> QED BY <1>3, FS_CardinalityType DEF Number

LEMMA NumberBefore ==
  ASSUME NEW told, NEW new, Extends(told, new), NEW what, NEW n \in Nat, n <= Len(told)
  PROVE  Number(new, what, n) = Number(told, what, n)
<1>1. Len(told) \in Nat
  BY LenProperties DEF Extends
<1>2. \A k \in 1..n : new[k] = told[k]
  BY <1>1 DEF Extends
<1>3. {k \in 1..n : new[k] = what} = {k \in 1..n : told[k] = what}
  BY <1>2
<1> QED BY <1>3 DEF Number

LEMMA NumberWithout ==
  ASSUME NEW told, NEW new, Extends(told, new), NEW what, what \notin Added(told, new),
         NEW n \in Nat, Len(told) <= n, n <= Len(new)
  PROVE  Number(new, what, n) = Number(told, what, Len(told))
<1> DEFINE L == Len(told)
<1>1. L \in Nat /\ Len(new) \in Nat
  BY LenProperties DEF Extends
<1>2. \A k \in 1..L : new[k] = told[k]
  BY DEF Extends
<1>3. \A k \in L + 1..Len(new) : new[k] # what
  BY DEF Added
<1> HIDE DEF L
<1>4. {k \in 1..n : new[k] = what} = {k \in 1..L : told[k] = what}
  <2>1. \A k \in 1..n : k \in 1..L \/ k \in L + 1..Len(new)
    BY <1>1
  <2>2. \A k \in 1..L : k \in 1..n
    BY <1>1 DEF L
  <2> QED BY <2>1, <2>2, <1>2, <1>3
<1> QED BY <1>4 DEF Number, L

LEMMA NumberWith ==
  ASSUME NEW told, NEW new, Extends(told, new), NEW what,
         \A k \in Len(told) + 1..Len(new) : new[k] = what
  PROVE  Number(new, what, Len(new)) = Number(told, what, Len(told)) + (Len(new) - Len(told))
<1> DEFINE L == Len(told)
           M == Len(new)
           before == {k \in 1..L : told[k] = what}
           after == L + 1..M
<1>1. L \in Nat /\ M \in Nat /\ L <= M
  BY LenProperties DEF Extends
<1>2. \A k \in 1..L : new[k] = told[k]
  BY DEF Extends
<1>3. \A k \in L + 1..M : new[k] = what
  OBVIOUS
<1> HIDE DEF L, M
<1>4. {k \in 1..M : new[k] = what} = before \cup after
  <2>1. \A k \in 1..M : k \in 1..L \/ k \in after
    BY <1>1
  <2>2. \A k \in 1..L : k \in 1..M
    BY <1>1
  <2>3. \A k \in after : k \in 1..M
    BY <1>1
  <2> QED BY <2>1, <2>2, <2>3, <1>2, <1>3
<1>5. before \cap after = {}
  BY <1>1
<1>6. IsFiniteSet(before) /\ Cardinality(before) \in Nat
  BY <1>1, NumberIsNat DEF Number
<1>7. IsFiniteSet(after) /\ Cardinality(after) = M - L
  <2>1. L + 1 \in Int /\ M \in Int
    BY <1>1
  <2>2. IsFiniteSet(after) /\ Cardinality(after) = IF L + 1 > M THEN 0 ELSE M - (L + 1) + 1
    BY <2>1, FS_Interval
  <2> QED BY <1>1, <2>2
<1>8. Cardinality(before \cup after) = Cardinality(before) + Cardinality(after) - Cardinality(before \cap after)
  BY <1>6, <1>7, FS_Union
<1>9. Cardinality(before \cap after) = 0
  BY <1>5, FS_EmptySet
<1> HIDE DEF before, after
<1>10. Cardinality({k \in 1..M : new[k] = what}) = Cardinality(before) + (M - L)
  <2>1. Cardinality(before \cup after) = Cardinality(before) + (M - L)
    BY <1>1, <1>6, <1>7, <1>8, <1>9
  <2> QED BY <1>4, <2>1
<1> QED BY <1>10 DEF Number, L, M, before

\* Nothing the user says is added, or no call is owed.
LEMMA UnbrokenOn ==
  ASSUME NEW told, NEW new, Extends(told, new), Unbroken(told),
         \/ Added(told, new) \cap Inputs = {}
         \/ /\ {"call", "result"} \cap Added(told, new) = {}
            /\ Number(told, "call", Len(told)) = Number(told, "result", Len(told))
  PROVE  Unbroken(new)
<1>1. /\ Len(told) \in Nat /\ Len(new) \in Nat
      /\ DOMAIN told = 1..Len(told) /\ DOMAIN new = 1..Len(new)
  BY LenProperties DEF Extends
<1>2. SUFFICES ASSUME NEW n \in DOMAIN new, new[n] \in Inputs
               PROVE  Number(new, "call", n) = Number(new, "result", n)
  BY DEF Unbroken, Number
<1>3. CASE n <= Len(told)
  <2>1. n \in DOMAIN told /\ n \in Nat /\ told[n] \in Inputs
    BY <1>1, <1>2, <1>3 DEF Extends
  <2>2. Number(told, "call", n) = Number(told, "result", n)
    BY <2>1 DEF Unbroken, Number
  <2> QED BY <1>3, <2>1, <2>2, NumberBefore
<1>4. CASE ~(n <= Len(told))
  <2>1. n \in Len(told) + 1..Len(new) /\ n \in Nat /\ Len(told) <= n /\ n <= Len(new)
    BY <1>1, <1>2, <1>4
  <2>2. new[n] \in Added(told, new)
    BY <2>1 DEF Added
  <2>3. /\ "call" \notin Added(told, new) /\ "result" \notin Added(told, new)
        /\ Number(told, "call", Len(told)) = Number(told, "result", Len(told))
    BY <1>2, <2>2
  <2> QED BY <2>1, <2>3, NumberWithout
<1> QED BY <1>3, <1>4

LEMMA EvenOn ==
  ASSUME NEW told, NEW new, Extends(told, new), NEW owed, Even(told, owed),
         {"call", "result"} \cap Added(told, new) = {},
         owed = 0 \/ Added(told, new) \cap Inputs = {}
  PROVE  Even(new, owed)
<1>1. Len(told) \in Nat /\ Len(new) \in Nat /\ Len(told) <= Len(new)
  BY LenProperties DEF Extends
<1>2. /\ Number(new, "call", Len(new)) = Number(told, "call", Len(told))
      /\ Number(new, "result", Len(new)) = Number(told, "result", Len(told))
  BY <1>1, NumberWithout
<1>3. Number(told, "result", Len(told)) \in Nat
  BY <1>1, NumberIsNat
<1>4. Unbroken(new)
  BY <1>3, UnbrokenOn DEF Even
<1> QED BY <1>2, <1>4 DEF Even

LEMMA EvenBefore ==
  ASSUME NEW told, NEW new, Extends(told, new), NEW owed, Even(new, owed),
         {"call", "result"} \cap Added(told, new) = {}
  PROVE  Even(told, owed)
<1>1. /\ Len(told) \in Nat /\ Len(new) \in Nat /\ Len(told) <= Len(new)
      /\ DOMAIN told = 1..Len(told) /\ DOMAIN new = 1..Len(new)
  BY LenProperties DEF Extends
<1>2. /\ Number(new, "call", Len(new)) = Number(told, "call", Len(told))
      /\ Number(new, "result", Len(new)) = Number(told, "result", Len(told))
  BY <1>1, NumberWithout
<1>3. ASSUME NEW n \in DOMAIN told, told[n] \in Inputs
      PROVE  Number(told, "call", n) = Number(told, "result", n)
  <2>1. n \in DOMAIN new /\ n \in Nat /\ n <= Len(told) /\ new[n] \in Inputs
    BY <1>1, <1>3 DEF Extends
  <2>2. Number(new, "call", n) = Number(new, "result", n)
    BY <2>1 DEF Even, Unbroken, Number
  <2> QED BY <2>1, <2>2, NumberBefore
<1>4. Unbroken(told)
  BY <1>3 DEF Unbroken, Number
<1> QED BY <1>2, <1>4 DEF Even

\* A batch of calls, and results of a batch.
LEMMA EvenCalls ==
  ASSUME NEW told, NEW new, Extends(told, new), Even(told, 0),
         \A k \in Len(told) + 1..Len(new) : new[k] = "call"
  PROVE  Even(new, Len(new) - Len(told))
<1>1. Len(told) \in Nat /\ Len(new) \in Nat /\ Len(told) <= Len(new)
  BY LenProperties DEF Extends
<1>2. Number(new, "call", Len(new)) = Number(told, "call", Len(told)) + (Len(new) - Len(told))
  BY NumberWith
<1>3. "result" \notin Added(told, new) /\ Added(told, new) \cap Inputs = {}
  BY NamesAssumption DEF Added
<1>4. Number(new, "result", Len(new)) = Number(told, "result", Len(told))
  BY <1>1, <1>3, NumberWithout
<1>5. Number(told, "result", Len(told)) \in Nat /\ Number(told, "call", Len(told)) \in Nat
  BY <1>1, NumberIsNat
<1>6. Unbroken(new)
  BY <1>3, UnbrokenOn DEF Even
<1>7. Number(told, "call", Len(told)) = Number(told, "result", Len(told)) + 0
  BY DEF Even
<1> QED BY <1>1, <1>2, <1>4, <1>5, <1>6, <1>7 DEF Even

LEMMA EvenResults ==
  ASSUME NEW told, NEW new, Extends(told, new), NEW owed, Even(told, owed),
         \A k \in Len(told) + 1..Len(new) : new[k] = "result",
         Len(new) - Len(told) <= owed
  PROVE  Even(new, owed - (Len(new) - Len(told)))
<1>1. Len(told) \in Nat /\ Len(new) \in Nat /\ Len(told) <= Len(new) /\ owed \in Nat
  BY LenProperties DEF Extends, Even
<1>2. Number(new, "result", Len(new)) = Number(told, "result", Len(told)) + (Len(new) - Len(told))
  BY NumberWith
<1>3. "call" \notin Added(told, new) /\ Added(told, new) \cap Inputs = {}
  BY NamesAssumption DEF Added
<1>4. Number(new, "call", Len(new)) = Number(told, "call", Len(told))
  BY <1>1, <1>3, NumberWithout
<1>5. Number(told, "result", Len(told)) \in Nat /\ Number(told, "call", Len(told)) \in Nat
  BY <1>1, NumberIsNat
<1>6. Unbroken(new)
  BY <1>3, UnbrokenOn DEF Even
<1>7. Number(told, "call", Len(told)) = Number(told, "result", Len(told)) + owed
  BY DEF Even
<1> QED BY <1>1, <1>2, <1>4, <1>5, <1>6, <1>7 DEF Even

LEMMA ConcatExtends ==
  ASSUME NEW told \in Seq(Words), NEW more \in Seq(Words)
  PROVE  /\ Extends(told, told \o more) /\ Len(told \o more) = Len(told) + Len(more)
         /\ \A k \in Len(told) + 1..Len(told \o more) :
              \E j \in 1..Len(more) : (told \o more)[k] = more[j]
<1> DEFINE new == told \o more
           L == Len(told)
           M == Len(more)
<1>1. L \in Nat /\ M \in Nat
  BY LenProperties
<1>2. /\ new \in Seq(Words) /\ Len(new) = L + M
      /\ \A k \in 1..L + M : new[k] = IF k <= L THEN told[k] ELSE more[k - L]
  BY ConcatProperties
<1> HIDE DEF new
<1>3. \A k \in 1..L : new[k] = told[k]
  BY <1>1, <1>2
<1>4. Extends(told, new)
  BY <1>1, <1>2, <1>3 DEF Extends
<1> HIDE DEF L, M
<1>5. ASSUME NEW k \in L + 1..L + M PROVE \E j \in 1..M : new[k] = more[j]
  <2>1. k \in 1..L + M /\ ~(k <= L) /\ k - L \in 1..M
    BY <1>1
  <2>2. new[k] = more[k - L]
    BY <2>1, <1>2
  <2> QED BY <2>1, <2>2
<1> QED BY <1>2, <1>4, <1>5 DEF new, L, M

CpEven(cp) == Even(cp.told, cp.owed)

LEMMA TellingEven ==
  ASSUME NEW cp \in SomeCheckpoint, CpEven(cp)
  PROVE  CpEven(Tell(cp, "answer"))
<1>1. cp.told \in Seq(Words) /\ "answer" \in Words
  BY DEF SomeCheckpoint, Words
<1> DEFINE told == cp.told
           new == Append(told, "answer")
<1> HIDE DEF told
<1>2. told \in Seq(Words)
  BY <1>1 DEF told
<1>3. /\ new \in Seq(Words) /\ Len(told) \in Nat /\ Len(new) = Len(told) + 1
      /\ new[Len(told) + 1] = "answer" /\ \A k \in 1..Len(told) : new[k] = told[k]
  BY <1>1, <1>2, LenProperties
<1> HIDE DEF new
<1>4. Extends(told, new) /\ Added(told, new) = {"answer"}
  BY <1>2, <1>3 DEF Extends, Added
<1>5. Even(told, cp.owed)
  BY DEF CpEven, told
<1>6. Even(new, cp.owed)
  BY <1>4, <1>5, EvenOn, NamesAssumption
<1>7. Tell(cp, "answer").told = new /\ Tell(cp, "answer").owed = cp.owed
  BY DEF Tell, SomeCheckpoint, new, told
<1> QED BY <1>6, <1>7 DEF CpEven

\* Words of one kind are added.
Repeats(told, n, what) == told \o [k \in 1..n |-> what]

LEMMA AddedRepeats ==
  ASSUME NEW told \in Seq(Words), NEW n \in Nat, NEW what \in Words
  PROVE  LET new == Repeats(told, n, what)
         IN /\ Extends(told, new) /\ Len(new) - Len(told) = n
            /\ \A k \in Len(told) + 1..Len(new) : new[k] = what
<1> DEFINE more == [k \in 1..n |-> what]
<1>1. more \in Seq(Words) /\ Len(more) = n /\ \A j \in 1..n : more[j] = what
  <2>1. more \in Seq(Words)
    BY Repeated
  <2>2. DOMAIN more = 1..n
    OBVIOUS
  <2> QED BY <2>1, <2>2, LenProperties
<1> HIDE DEF more
<1> DEFINE new == told \o more
<1>2. /\ Extends(told, new) /\ Len(new) = Len(told) + Len(more)
      /\ \A k \in Len(told) + 1..Len(new) : \E j \in 1..Len(more) : new[k] = more[j]
  BY <1>1, ConcatExtends
<1>3. Len(told) \in Nat
  BY LenProperties
<1> HIDE DEF new
<1>4. Extends(told, new) /\ Len(new) - Len(told) = n /\ \A k \in Len(told) + 1..Len(new) : new[k] = what
  BY <1>1, <1>2, <1>3
<1> QED BY <1>4 DEF new, more, Repeats

LEMMA AnsweringEven ==
  ASSUME NEW cp \in SomeCheckpoint, CpEven(cp), NEW n \in Nat, n <= cp.owed
  PROVE  CpEven(Answered(cp, n))
<1> DEFINE told == cp.told
           new == Repeats(told, n, "result")
<1>1. told \in Seq(Words) /\ "result" \in Words
  BY DEF SomeCheckpoint, Words
<1>2. Answered(cp, n).told = new /\ Answered(cp, n).owed = cp.owed - n
  BY DEF Answered, SomeCheckpoint, Repeats
<1> HIDE DEF told
<1>3. /\ Extends(told, new) /\ Len(new) - Len(told) = n
      /\ \A k \in Len(told) + 1..Len(new) : new[k] = "result"
  BY <1>1, AddedRepeats
<1> HIDE DEF new
<1>4. Even(told, cp.owed)
  BY DEF CpEven, told
<1>5. Even(new, cp.owed - (Len(new) - Len(told)))
  BY <1>3, <1>4, EvenResults
<1> QED BY <1>2, <1>3, <1>5 DEF CpEven

LEMMA AskingEven ==
  ASSUME NEW cp \in SomeCheckpoint, CpEven(cp), cp.owed = 0, NEW n \in Nat
  PROVE  CpEven(Asking(cp, n))
<1> DEFINE told == cp.told
           new == Repeats(told, n, "call")
<1>1. told \in Seq(Words) /\ "call" \in Words
  BY DEF SomeCheckpoint, Words
<1>2. Asking(cp, n).told = new /\ Asking(cp, n).owed = n
  BY DEF Asking, SomeCheckpoint, Repeats
<1> HIDE DEF told
<1>3. /\ Extends(told, new) /\ Len(new) - Len(told) = n
      /\ \A k \in Len(told) + 1..Len(new) : new[k] = "call"
  BY <1>1, AddedRepeats
<1> HIDE DEF new
<1>4. Even(told, 0)
  BY DEF CpEven, told
<1>5. Even(new, Len(new) - Len(told))
  BY <1>3, <1>4, EvenCalls
<1> QED BY <1>2, <1>3, <1>5 DEF CpEven

LEMMA TakingBackEven ==
  ASSUME NEW cp \in SomeCheckpoint, CpEven(cp), Len(cp.told) >= 1,
         cp.told[Len(cp.told)] = "answer"
  PROVE  CpEven(TakenBack(cp))
<1> DEFINE new == cp.told
           L == Len(cp.told)
           told == SubSeq(new, 1, L - 1)
<1>1. new \in Seq(Words)
  BY DEF SomeCheckpoint
<1>2. L \in Nat /\ L - 1 \in Nat /\ \A i \in 1..(L - 1) : new[i] \in Words
  BY <1>1, LenProperties, ElementOfSeq
<1>3. told \in Seq(Words) /\ Len(told) = L - 1 /\ \A i \in 1..(L - 1) : told[i] = new[i]
  BY <1>2, SubSeqProperties
<1>4. TakenBack(cp).told = told /\ TakenBack(cp).owed = cp.owed /\ Even(new, cp.owed)
  BY DEF TakenBack, SomeCheckpoint, CpEven
<1>5. new[L] = "answer" /\ L = Len(new)
  OBVIOUS
<1> HIDE DEF told, new, L
<1>6. Extends(told, new) /\ Added(told, new) = {"answer"}
  BY <1>1, <1>2, <1>3, <1>5 DEF Extends, Added
<1>7. Even(told, cp.owed)
  BY <1>4, <1>6, EvenBefore
<1> QED BY <1>4, <1>7 DEF CpEven

LEMMA HearingEven ==
  ASSUME NEW cp \in SomeCheckpoint, CpEven(cp), cp.owed = 0, NEW picked \in Queued
  PROVE  CpEven(Hearing(cp, picked))
<1> DEFINE told == cp.told
           ids == Ids(picked)
           new == told \o ids
<1>1. told \in Seq(Words)
  BY DEF SomeCheckpoint
<1>2. ids \in Seq(Words) /\ \A k \in 1..Len(ids) : ids[k] \in Inputs
  <2> DEFINE S == [id : Inputs, seq : Nat]
             P == Len(picked)
  <2>1. picked \in Seq(S)
    BY DEF Queued
  <2> HIDE DEF S
  <2>2. P \in Nat /\ DOMAIN picked = 1..P /\ \A k \in 1..P : picked[k] \in S
    BY <2>1, LenProperties, ElementOfSeq
  <2>3. \A k \in 1..P : picked[k].id \in Inputs /\ picked[k].id \in Words
    BY <2>2 DEF S, Words
  <2>4. ids = [k \in 1..P |-> picked[k].id]
    BY <2>2 DEF Ids
  <2> HIDE DEF ids, P
  <2>5. ids \in [1..P -> Words]
    BY <2>3, <2>4
  <2>6. ids \in Seq(Words) /\ DOMAIN ids = 1..P
    BY <2>2, <2>5, SeqDef
  <2>7. Len(ids) = P
    BY <2>2, <2>6, LenProperties
  <2> QED BY <2>3, <2>4, <2>6, <2>7
<1>3. Hearing(cp, picked).told = new /\ Hearing(cp, picked).owed = 0 /\ Even(told, 0)
  BY DEF Hearing, SomeCheckpoint, CpEven
<1> HIDE DEF told, ids
<1>4. /\ Extends(told, new)
      /\ \A k \in Len(told) + 1..Len(new) : \E j \in 1..Len(ids) : new[k] = ids[j]
  BY <1>1, <1>2, ConcatExtends
<1> HIDE DEF new
<1>5. {"call", "result"} \cap Added(told, new) = {}
  BY <1>2, <1>4, NamesAssumption DEF Added
<1>6. Even(new, 0)
  BY <1>3, <1>4, <1>5, EvenOn
<1> QED BY <1>3, <1>6 DEF CpEven

LEMMA SupersededEven ==
  ASSUME NEW r \in SomeRow, r.cp \in SomeCheckpoint, CpEven(r.cp)
  PROVE  CpEven(Superseded(r).cp)
<1> DEFINE told == r.cp.told
           new == Repeats(told, r.cp.owed, "result")
<1>1. told \in Seq(Words) /\ "result" \in Words /\ r.cp.owed \in Nat
  BY DEF SomeCheckpoint, Words
<1>2. Superseded(r).cp.told = new /\ Superseded(r).cp.owed = 0
  BY DEF Superseded, SomeCheckpoint, SomeRow, Repeats
<1> HIDE DEF told
<1>3. /\ Extends(told, new) /\ Len(new) - Len(told) = r.cp.owed
      /\ \A k \in Len(told) + 1..Len(new) : new[k] = "result"
  BY <1>1, AddedRepeats
<1> HIDE DEF new
<1>4. Even(told, r.cp.owed)
  BY DEF CpEven, told
<1>5. Even(new, r.cp.owed - (Len(new) - Len(told)))
  BY <1>1, <1>3, <1>4, EvenResults
<1>6. r.cp.owed - (Len(new) - Len(told)) = 0
  BY <1>1, <1>3
<1> QED BY <1>2, <1>5, <1>6 DEF CpEven

-----------------------------------------------------------------------------
(* The steps, again: the transcripts stay even.                            *)

RowEven(r) == r.cp # None \/ r.asks \/ r.state = "AWAITING_APPROVAL" => CpEven(r.cp)

Whole == RowEven(row) /\ CpEven(turn.cp)

LEMMA EmptyEven ==
  /\ CpEven(NewCheckpoint) /\ CpEven(NoDriver.cp)
  /\ \A state \in {"AWAITING_INPUT", "CANCELLED", "FAILED"} : RowEven([NewRow EXCEPT !.state = state])
  /\ RowEven(NewRow)
<1>1. Number(<<>>, "call", 0) = 0 /\ Number(<<>>, "result", 0) = 0
  <2>1. \A what : {k \in 1..0 : <<>>[k] = what} = {}
    OBVIOUS
  <2> QED BY <2>1, FS_EmptySet DEF Number
<1>2. Even(<<>>, 0)
  BY <1>1 DEF Even, Unbroken
<1>3. NewCheckpoint.told = <<>> /\ NewCheckpoint.owed = 0 /\ NoDriver.cp = NewCheckpoint
  BY DEF NewCheckpoint, NoDriver
<1>4. NewRow.cp = None /\ ~NewRow.asks /\ NewRow.state = "AWAITING_INPUT" /\ RowEven(NewRow)
  BY DEF NewRow, RowEven
<1>5. ASSUME NEW state \in {"AWAITING_INPUT", "CANCELLED", "FAILED"}
      PROVE  RowEven([NewRow EXCEPT !.state = state])
  <2> DEFINE r == [NewRow EXCEPT !.state = state]
  <2>1. r.cp = None /\ ~r.asks /\ r.state = state
    BY DEF NewRow
  <2> HIDE DEF r
  <2>2. RowEven(r)
    BY <2>1 DEF RowEven
  <2> QED BY <2>2 DEF r
<1> QED BY <1>2, <1>3, <1>4, <1>5 DEF CpEven

LEMMA OnwardEven ==
  ASSUME NEW t \in SomeDriver, t.pc \in SafePoints, CpEven(t.cp), NEW changed \in BOOLEAN
  PROVE  CpEven(Onward(t, changed).cp)
<1>1. t.cp \in SomeCheckpoint
  BY DEF SomeDriver
<1> DEFINE told == Tell(t.cp, "answer")
<1>2. CpEven(told)
  BY <1>1, TellingEven
<1> HIDE DEF told
<1>3. Onward(t, changed).cp = t.cp \/ Onward(t, changed).cp = told
  <2>1. CASE t.pc = "before-model"
    <3>1. /\ SaveThen(t, t.cp, "off").cp = t.cp
          /\ [GoTo(t, "sample") EXCEPT !.seen = t.seen].cp = t.cp
      BY DEF SaveThen, GoTo, SomeDriver
    <3> QED BY <2>1, <3>1 DEF Onward
  <2>2. CASE t.pc = "before-tool"
    <3>1. GoTo(t, "tool").cp = t.cp
      BY DEF GoTo, SomeDriver
    <3> QED BY <2>2, <3>1 DEF Onward
  <2>3. CASE t.pc \in {"before-finalization", "before-finalization-commit"} /\ changed
    <3>1. GoTo(t, "before-model").cp = t.cp
      BY DEF GoTo, SomeDriver
    <3> QED BY <2>3, <3>1 DEF Onward
  <2>4. CASE t.pc = "before-finalization" /\ ~changed
    <3>1. SaveThen(t, told, "review").cp = told
      BY DEF SaveThen, GoTo, SomeDriver
    <3>2. Onward(t, changed) = SaveThen(t, told, "review")
      BY <2>4 DEF Onward, told
    <3> QED BY <3>1, <3>2
  <2>5. CASE t.pc = "before-finalization-commit" /\ ~changed
    <3>1. [SaveThen(t, told, "answer") EXCEPT !.seen = t.seen].cp = told
      BY DEF SaveThen, GoTo, SomeDriver
    <3>2. Onward(t, changed) = [SaveThen(t, told, "answer") EXCEPT !.seen = t.seen]
      BY <2>5 DEF Onward, told
    <3> QED BY <3>1, <3>2
  <2> QED BY <2>1, <2>2, <2>3, <2>4, <2>5 DEF SafePoints
<1> QED BY <1>2, <1>3

LEMMA InitWhole == Init => Whole
BY EmptyEven DEF Init, Whole

LEMMA CallsKeepWhole ==
  ASSUME Types, Heard, Whole, SaysSomething
  PROVE  Whole'
<1> PICK c \in Calls : CallLoads(c) \/ CallCommits(c) \/ CallConflicts(c)
  BY DEF SaysSomething
<1>1. CASE CallLoads(c) \/ CallConflicts(c)
  BY <1>1 DEF CallLoads, CallConflicts, Whole, RowEven
<1>2. CASE CallCommits(c)
  <2>1. row' = row \/ (row.asks /\ row' = Superseded(row))
    BY <1>2 DEF CallCommits
  <2>2. turn'.cp = turn.cp
    BY <1>2 DEF CallCommits, StaleTurn, Heard, DriverGood, SomeDriver
  <2>3. ASSUME row.asks PROVE CpEven(Superseded(row).cp)
    <3>1. row \in SomeRow /\ row.cp \in SomeCheckpoint /\ CpEven(row.cp)
      BY <2>3 DEF Heard, RowGood, CheckpointGood, Whole, RowEven
    <3> QED BY <3>1, SupersededEven
  <2>4. RowEven(row')
    BY <2>1, <2>3 DEF RowEven, Whole
  <2> QED BY <2>2, <2>4 DEF Whole
<1> QED BY <1>1, <1>2

\* Nothing is told at a safe point while calls are owed.
LEMMA SafePointsKeepWhole ==
  ASSUME Types, QueuedOnce, Heard, Whole, AtSafePoint
  PROVE  Whole'
<1>1. turn \in SomeDriver /\ turn.cp \in SomeCheckpoint /\ row \in SomeRow /\ turn.seen \in Nat
  BY DEF Heard, DriverGood, SomeDriver, RowGood
<1>2. CASE SafePointLoads
  <2> DEFINE picked == Pending(turn.cp)
             t == [turn EXCEPT !.seen = Len(queue)]
             all == [t EXCEPT !.picked = picked, !.fresh = TRUE]
  <2>1. /\ turn.pc \in SafePoints /\ row' = row
        /\ turn' = IF ~MayHear(t.cp) \/ picked = <<>> THEN Onward(t, FALSE) ELSE all
    BY <1>2 DEF SafePointLoads
  <2>2. Len(queue) \in Nat
    BY QueueShape DEF Types
  <2>3. t \in SomeDriver /\ t.pc = turn.pc /\ t.cp = turn.cp
    BY <1>1, <2>2 DEF SomeDriver
  <2> HIDE DEF t
  <2>4. all.cp = turn.cp
    BY <2>3 DEF SomeDriver
  <2> HIDE DEF all, picked
  <2>5. CpEven(Onward(t, FALSE).cp)
    BY <2>1, <2>3, OnwardEven DEF Whole
  <2> QED BY <2>1, <2>4, <2>5 DEF Whole, RowEven
<1>3. CASE SafePointApplies
  <2> DEFINE cp == Hearing(turn.cp, turn.picked)
             t == [turn EXCEPT !.cp = GoesOnWith(@, cp)]
  <2>1. turn.picked # <<>> /\ row' = [row EXCEPT !.cp = cp] /\ turn' = Onward(t, TRUE)
    BY <1>3 DEF SafePointApplies
  <2>2. turn.pc \in SafePoints /\ turn.cp.owed = 0 /\ turn.picked \in Queued
    BY <1>1, <2>1 DEF Heard, DriverGood, SomeDriver
  <2>3. CpEven(cp)
    BY <1>1, <2>2, HearingEven DEF Whole
  <2>4. row'.cp = cp
    BY <1>1, <2>1 DEF SomeRow
  <2>5. cp \in SomeCheckpoint
    BY <1>3, ApplyingKeepsHeard
  <2> HIDE DEF cp
  <2>6. t \in SomeDriver /\ t.pc = turn.pc /\ t.cp = cp
    BY <1>1, <2>5 DEF SomeDriver, GoesOnWith
  <2> HIDE DEF t
  <2>7. CpEven(Onward(t, TRUE).cp)
    BY <2>2, <2>3, <2>6, OnwardEven
  <2> QED BY <2>1, <2>3, <2>4, <2>7 DEF Whole, RowEven
<1>4. CASE SafePointConflicts
  <2>1. CASE Raises
    BY <2>1, EmptyEven DEF Raises, Whole
  <2>2. CASE row' = row /\ turn' = [turn EXCEPT !.picked = <<>>, !.tries = @ + 1]
    <3>1. turn'.cp = turn.cp
      BY <1>1, <2>2 DEF SomeDriver
    <3> QED BY <2>2, <3>1 DEF Whole, RowEven
  <2> QED BY <1>4, <2>1, <2>2 DEF SafePointConflicts
<1> QED BY <1>2, <1>3, <1>4 DEF AtSafePoint

\* Starting, saving, suspending, resuming and ending pass checkpoints on.
LEMMA MovesKeepWhole ==
  ASSUME Heard, Whole,
         StartTurn \/ Saves \/ Answer \/ ToolAsks \/ ResolveApproval \/ Stops
  PROVE  Whole'
<1>1. /\ turn \in SomeDriver /\ turn.cp \in SomeCheckpoint /\ row \in SomeRow
      /\ NoDriver \in SomeDriver /\ turn.then \in Places
  BY NobodyDrives DEF Heard, DriverGood, SomeDriver, RowGood
<1>2. \A place \in Places : GoTo(turn, place).cp = turn.cp /\ GoTo(NoDriver, place).cp = NoDriver.cp
  BY <1>1, GoToTyped
<1>3. CASE StartTurn
  <2>1. row'.cp = NewCheckpoint /\ turn' = GoTo(NoDriver, "before-model")
    BY <1>3 DEF StartTurn, NewRow
  <2>2. "before-model" \in Places
    BY DEF Places, SafePoints
  <2> QED BY <1>2, <2>1, <2>2, EmptyEven DEF Whole, RowEven
<1>4. CASE SaveLoads
  <2>1. row' = row /\ turn'.cp = turn.cp
    BY <1>1, <1>4 DEF SaveLoads, SomeDriver
  <2> QED BY <2>1 DEF Whole, RowEven
<1>5. CASE SaveCommits
  <2>1. row'.cp = turn.cp
    BY <1>1, <1>5 DEF SaveCommits, SomeRow
  <2>2. turn'.cp = NoDriver.cp \/ turn'.cp = turn.cp
    <3> DEFINE g == GoTo(turn, turn.then)
    <3>1. g \in SomeDriver /\ g.cp = turn.cp
      BY <1>1, GoToTyped
    <3>2. turn' = NoDriver \/ turn' = [g EXCEPT !.seen = turn.seen]
      BY <1>5 DEF SaveCommits
    <3> HIDE DEF g
    <3> QED BY <3>1, <3>2 DEF SomeDriver
  <2> QED BY <2>1, <2>2, EmptyEven DEF Whole, RowEven
<1>6. CASE SaveConflicts
  BY <1>6, EmptyEven DEF SaveConflicts, Raises, Whole
<1>7. CASE Answer
  BY <1>7, EmptyEven DEF Answer, Whole
<1>8. CASE ToolAsks
  <2>1. row'.cp = turn.cp /\ turn' = NoDriver
    BY <1>1, <1>8 DEF ToolAsks, SomeRow
  <2> QED BY <2>1, EmptyEven DEF Whole, RowEven
<1>9. CASE ResolveApproval
  <2>1. row'.cp = row.cp /\ row.state = "AWAITING_APPROVAL"
    BY <1>1, <1>9 DEF ResolveApproval, SomeRow
  <2>2. turn'.cp = row.cp
    <3> DEFINE g == GoTo(NoDriver, "tool")
    <3>1. "tool" \in Places
      BY DEF Places
    <3>2. g \in SomeDriver
      BY <1>1, <3>1, GoToTyped
    <3>3. turn' = [g EXCEPT !.cp = row.cp, !.consent = TRUE]
      BY <1>9 DEF ResolveApproval
    <3> HIDE DEF g
    <3> QED BY <3>2, <3>3 DEF SomeDriver
  <2> QED BY <2>1, <2>2 DEF Whole, RowEven
<1>10. CASE Stops
  <2>1. turn' = NoDriver
    BY <1>10 DEF Stops, Interrupt, CancelTask, Crash
  <2>2. CASE Interrupt
    <3>1. row'.cp = row.cp /\ row'.asks = row.asks /\ row'.state = "INTERRUPTED"
      BY <1>1, <2>2 DEF Interrupt, SomeRow
    <3> QED BY <2>1, <3>1, EmptyEven DEF Whole, RowEven
  <2>3. CASE CancelTask \/ Crash
    BY <2>1, <2>3, EmptyEven DEF CancelTask, Crash, Whole
  <2> QED BY <1>10, <2>2, <2>3 DEF Stops
<1> QED BY <1>3, <1>4, <1>5, <1>6, <1>7, <1>8, <1>9, <1>10 DEF Saves

\* What the driver tells.
LEMMA WorksKeepWhole ==
  ASSUME Heard, Whole, ModelCalls \/ ModelAnswers \/ Review \/ ToolReturns
  PROVE  Whole'
<1>0. turn.pc # "off"
  BY DEF ModelCalls, ModelAnswers, Review, ToolReturns
<1>1. /\ turn \in SomeDriver /\ turn.cp \in SomeCheckpoint /\ row \in SomeRow
      /\ PlaceGood(At(turn), turn.cp) /\ CpEven(turn.cp)
  BY <1>0, Driving DEF Whole
<1>2. \A place \in Places : GoTo(turn, place) \in SomeDriver /\ GoTo(turn, place).cp = turn.cp
  BY <1>1, GoToTyped
<1>3. \A cp, place : SaveThen(turn, cp, place).cp = cp
  BY <1>1 DEF SaveThen, GoTo, SomeDriver
<1>4. CASE ModelCalls
  <2>1. PICK m \in 1..MaxBatch : turn' = SaveThen(turn, Asking(turn.cp, m), "before-tool")
    BY <1>4 DEF ModelCalls, Asking
  <2>2. m \in Nat
    BY BoundsAssumption
  <2>3. turn.cp.owed = 0 /\ row' = row
    BY <1>1, <1>4 DEF ModelCalls, At, PlaceGood
  <2>4. CpEven(Asking(turn.cp, m))
    BY <1>1, <2>2, <2>3, AskingEven
  <2>5. turn'.cp = Asking(turn.cp, m)
    BY <1>3, <2>1
  <2> QED BY <2>3, <2>4, <2>5 DEF Whole, RowEven
<1>5. CASE ModelAnswers
  <2> DEFINE g == GoTo(turn, "before-finalization")
  <2>1. turn' = [g EXCEPT !.cp.samples = @ + 1] /\ row' = row
    BY <1>5 DEF ModelAnswers
  <2>2. g \in SomeDriver /\ g.cp = turn.cp
    BY <1>2 DEF Places, SafePoints
  <2> HIDE DEF g
  <2>3. turn'.cp.told = turn.cp.told /\ turn'.cp.owed = turn.cp.owed
    BY <1>1, <2>1, <2>2 DEF SomeDriver, SomeCheckpoint
  <2> QED BY <1>1, <2>1, <2>3 DEF Whole, RowEven, CpEven
<1>6. CASE Review
  <2> DEFINE g == GoTo(turn, "before-finalization-commit")
  <2>1. /\ row' = row /\ turn.pc = "review"
        /\ \/ turn' = [g EXCEPT !.cp.told = SubSeq(@, 1, Len(@) - 1)]
           \/ turn' = GoTo(turn, "before-model")
    BY <1>6 DEF Review
  <2>2. g \in SomeDriver /\ g.cp = turn.cp
    BY <1>2 DEF Places, SafePoints
  <2> HIDE DEF g
  <2>3. CpEven(TakenBack(turn.cp))
    <3>1. Len(turn.cp.told) >= 1 /\ turn.cp.told[Len(turn.cp.told)] = "answer"
      BY <1>1, <2>1 DEF At, PlaceGood
    <3> QED BY <1>1, <3>1, TakingBackEven
  <2>4. turn'.cp = TakenBack(turn.cp) \/ turn'.cp = turn.cp
    <3>1. "before-model" \in Places
      BY DEF Places, SafePoints
    <3> QED BY <1>2, <2>1, <2>2, <3>1 DEF TakenBack, SomeDriver
  <2> QED BY <1>1, <2>1, <2>3, <2>4 DEF Whole, RowEven
<1>7. CASE ToolReturns
  <2> DEFINE cp == Answered(turn.cp, 1)
             s == SaveThen(turn, cp, IF cp.owed > 0 THEN "before-tool" ELSE "before-model")
  <2>1. turn.pc = "tool" /\ row' = [row EXCEPT !.ran = 1] /\ turn' = [s EXCEPT !.consent = FALSE]
    BY <1>7 DEF ToolReturns
  <2>2. CpEven(cp)
    <3>1. 1 <= turn.cp.owed /\ 1 \in Nat
      BY <1>1, <2>1 DEF At, PlaceGood, SomeCheckpoint
    <3> QED BY <1>1, <3>1, AnsweringEven
  <2> HIDE DEF cp
  <2>3. s.cp = cp
    BY <1>3
  <2>4. turn'.cp = cp
    <3>1. turn' = [s EXCEPT !.consent = FALSE]
      BY <2>1
    <3>2. [s EXCEPT !.consent = FALSE].cp = cp
      BY <1>1 DEF SaveThen, GoTo, SomeDriver
    <3> QED BY <3>1, <3>2
  <2>5. row'.cp = row.cp /\ row'.asks = row.asks /\ row'.state = row.state
    BY <1>1, <2>1 DEF SomeRow
  <2> QED BY <2>2, <2>4, <2>5 DEF Whole, RowEven
<1> QED BY <1>4, <1>5, <1>6, <1>7

LEMMA ResumeKeepsWhole ==
  ASSUME Heard, Whole, Resume
  PROVE  Whole'
<1> DEFINE cp == IF row.state = "INTERRUPTED" THEN Answered(row.cp, row.cp.owed) ELSE row.cp
           place == IF cp.owed > 0 THEN "before-tool" ELSE "before-model"
           g == GoTo(NoDriver, place)
<1>1. row.cp # None /\ turn' = [g EXCEPT !.cp = cp]
  BY DEF Resume
<1>2. row \in SomeRow /\ row.cp \in SomeCheckpoint /\ CpEven(row.cp) /\ NoDriver \in SomeDriver
  BY <1>1, NobodyDrives DEF Heard, RowGood, CheckpointGood, Whole, RowEven, DriverGood
<1>3. CpEven(cp)
  <2>1. row.cp.owed \in Nat /\ row.cp.owed <= row.cp.owed
    BY <1>2 DEF SomeCheckpoint
  <2>2. CpEven(Answered(row.cp, row.cp.owed))
    BY <1>2, <2>1, AnsweringEven
  <2> QED BY <1>2, <2>2
<1>4. row'.cp = cp
  BY <1>2 DEF Resume, SomeRow
<1> HIDE DEF cp
<1>5. g \in SomeDriver
  BY <1>2, GoToTyped DEF Places, SafePoints
<1> HIDE DEF g
<1>6. turn'.cp = cp
  BY <1>1, <1>5 DEF SomeDriver
<1> QED BY <1>3, <1>4, <1>6 DEF Whole, RowEven

LEMMA StepWhole == Inv /\ Heard /\ Whole /\ [Next]_vars => Whole'
<1> SUFFICES ASSUME Inv, Heard, Whole, [Next]_vars PROVE Whole'
  OBVIOUS
<1>1. Types /\ QueuedOnce
  BY DEF Inv
<1>2. CASE SaysSomething
  BY <1>1, <1>2, CallsKeepWhole
<1>3. CASE AtSafePoint
  BY <1>1, <1>3, SafePointsKeepWhole
<1>4. CASE StartTurn \/ Saves \/ ResolveApproval \/ Stops
  BY <1>4, MovesKeepWhole
<1>5. CASE Works
  BY <1>5, MovesKeepWhole, WorksKeepWhole DEF Works
<1>6. CASE Resume
  BY <1>6, ResumeKeepsWhole
<1>7. CASE UNCHANGED vars
  BY <1>7 DEF vars, Whole, RowEven
<1> QED BY <1>2, <1>3, <1>4, <1>5, <1>6, <1>7 DEF Next

\* For any batches, approvals, crashes and resumptions, nothing the user says comes
\* between the calls of a batch and their results: safe points apply nothing while
\* calls are owed (_apply_pending_steering, turn_tool_batch).
THEOREM BatchesUnbrokenHolds == Spec => []BatchesUnbroken
<1>1. Init => Inv /\ Heard /\ Whole
  BY InitInv, InitHeard, InitWhole
<1>2. (Inv /\ Heard /\ Whole) /\ [Next]_vars => (Inv /\ Heard /\ Whole)'
  BY StepInv, StepHeard, StepWhole
<1>3. Inv /\ Heard /\ Whole => BatchesUnbroken
  BY DEF Whole, RowEven, CpEven, Even, BatchesUnbroken
<1> QED BY <1>1, <1>2, <1>3, PTL DEF Spec
=============================================================================
