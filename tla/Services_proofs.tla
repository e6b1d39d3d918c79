--------------------------- MODULE Services_proofs ---------------------------
(***************************************************************************)
(* What holds of the services around a Task, each on its own, for every    *)
(* value of their constants: the receipts of commands, the managed         *)
(* processes, the UI's event streams and the connections to MCP servers.   *)
(* Each part states an inductive invariant, shows that every action keeps  *)
(* it, and reads the properties off it.                                    *)
(***************************************************************************)
EXTENDS CommandReceipts, BackgroundProcess, EventStream, MCPServers,
        FiniteSetTheorems, TLAPS

-----------------------------------------------------------------------------
(* Command receipts.  The receipt decides: without one nobody has begun,   *)
(* and with one exactly its owner has, for the request it carries.  What   *)
(* the owner is doing and the status of the receipt move together.         *)

Busy == {"executing", "saving"}

OwnerAlone ==
  /\ receipt.status = "none" => begun = {}
  /\ receipt.status # "none" =>
       receipt.owner \in Callers /\ begun = {receipt.owner}
                                 /\ receipt.request = Request[receipt.owner]
RunnersClaimed ==
  \A c \in Callers : caller[c] \in Busy => c \in begun /\ receipt.status = "in_progress"
SaversApplied == \A c \in Callers : caller[c] = "saving" => c \in applied
OwnerAccounted ==
  receipt.status = "in_progress" =>
    caller[receipt.owner] \in {"executing", "saving", "lost"} \/ receipt.owner \in unsettled
DoneCompleted ==
  \A c \in Callers : reply[c] = "done" => receipt.status = "completed"
CompletedApplied == receipt.status = "completed" => receipt.owner \in applied
ReplaysCompleted ==
  \A c \in Callers : reply[c] = "replayed" =>
    receipt.status = "completed" /\ receipt.request = Request[c]

ReceiptInv ==
  /\ ReceiptTypeOK /\ OwnerAlone /\ RunnersClaimed /\ SaversApplied
  /\ CompletedApplied /\ DoneCompleted /\ ReplaysCompleted /\ OwnerAccounted

\* Nothing is claimed and nobody has asked.
LEMMA ReceiptInitInv == ReceiptInit => ReceiptInv
<1> SUFFICES ASSUME ReceiptInit PROVE ReceiptInv
  OBVIOUS
<1> USE DEF ReceiptInit, NoReceipt
<1>1. ReceiptTypeOK
  BY DEF ReceiptTypeOK
<1>2. OwnerAlone /\ CompletedApplied /\ OwnerAccounted
  BY DEF OwnerAlone, CompletedApplied, OwnerAccounted
<1>3. RunnersClaimed /\ SaversApplied
  BY DEF RunnersClaimed, Busy, SaversApplied
<1>4. ReplaysCompleted /\ DoneCompleted
  BY NothingAssumption DEF ReplaysCompleted, DoneCompleted, Replies
<1> QED
  BY <1>1, <1>2, <1>3, <1>4 DEF ReceiptInv

\* Each step of a caller, and each death of a runtime, keeps the receipt and
\* what its owner is doing together.
LEMMA ReceiptStepInv == ReceiptInv /\ [ReceiptNext]_receiptVars => ReceiptInv'
<1> SUFFICES ASSUME ReceiptInv, [ReceiptNext]_receiptVars PROVE ReceiptInv'
  OBVIOUS
<1> USE NothingAssumption
<1>1. ASSUME NEW c \in Callers, Claim(c) PROVE ReceiptInv'
  BY <1>1 DEF Claim, ReceiptInv, ReceiptTypeOK, OwnerAlone, RunnersClaimed, Busy, SaversApplied,
     CompletedApplied, DoneCompleted, ReplaysCompleted, OwnerAccounted
<1>2. ASSUME NEW c \in Callers, Reused(c) PROVE ReceiptInv'
  BY <1>2 DEF Reused, AnswerCaller, Replies, ReceiptInv, ReceiptTypeOK, OwnerAlone, RunnersClaimed, Busy,
     SaversApplied, CompletedApplied, DoneCompleted, ReplaysCompleted, OwnerAccounted
<1>3. ASSUME NEW c \in Callers, Replay(c) PROVE ReceiptInv'
  BY <1>3 DEF Replay, AnswerCaller, Replies, ReceiptInv, ReceiptTypeOK, OwnerAlone, RunnersClaimed, Busy,
     SaversApplied, CompletedApplied, DoneCompleted, ReplaysCompleted, OwnerAccounted
<1>4. ASSUME NEW c \in Callers, InProgress(c) PROVE ReceiptInv'
  BY <1>4 DEF InProgress, AnswerCaller, Replies, ReceiptInv, ReceiptTypeOK, OwnerAlone, RunnersClaimed,
     Busy, SaversApplied, CompletedApplied, DoneCompleted, ReplaysCompleted, OwnerAccounted
<1>5. ASSUME NEW c \in Callers, Execute(c) PROVE ReceiptInv'
  BY <1>5 DEF Execute, ReceiptInv, ReceiptTypeOK, OwnerAlone, RunnersClaimed, Busy, SaversApplied,
     CompletedApplied, DoneCompleted, ReplaysCompleted, OwnerAccounted
<1>6. ASSUME NEW c \in Callers, CompleteReceipt(c) PROVE ReceiptInv'
  BY <1>6 DEF CompleteReceipt, AnswerCaller, Replies, ReceiptInv, ReceiptTypeOK, OwnerAlone, RunnersClaimed,
     Busy, SaversApplied, CompletedApplied, DoneCompleted, ReplaysCompleted, OwnerAccounted
<1>7. ASSUME NEW c \in Callers, Fail(c) PROVE ReceiptInv'
  <2>1. PICK what \in {"failed", "cancelled"} : AnswerCaller(c, what)
    BY <1>7 DEF Fail
  <2>2. /\ caller[c] = "executing"
        /\ receipt' = [receipt EXCEPT !.status = "failed"]
        /\ applied \subseteq applied' /\ applied' \subseteq Callers
        /\ begun' = begun /\ unsettled' = unsettled
    BY <1>7 DEF Fail, ReceiptInv, ReceiptTypeOK
  <2>3. /\ receipt.status = "in_progress" /\ begun = {receipt.owner}
        /\ receipt.owner = c
    BY <2>2 DEF ReceiptInv, OwnerAlone, RunnersClaimed, Busy
  <2>4. ReceiptTypeOK'
    BY <2>1, <2>2 DEF AnswerCaller, Replies, ReceiptInv, ReceiptTypeOK
  <2>5. OwnerAlone' /\ CompletedApplied' /\ OwnerAccounted'
    BY <2>2, <2>3 DEF ReceiptInv, ReceiptTypeOK, OwnerAlone, CompletedApplied, OwnerAccounted
  <2>6. RunnersClaimed' /\ SaversApplied'
    BY <2>1, <2>2, <2>3 DEF AnswerCaller, ReceiptInv, ReceiptTypeOK, RunnersClaimed, Busy, SaversApplied
  <2>7. ReplaysCompleted' /\ DoneCompleted'
    BY <2>1, <2>2, <2>3
       DEF AnswerCaller, ReceiptInv, ReceiptTypeOK, ReplaysCompleted, DoneCompleted
  <2> QED
    BY <2>4, <2>5, <2>6, <2>7 DEF ReceiptInv
<1>10. ASSUME NEW c \in Callers, ClaimRefused(c) PROVE ReceiptInv'
  BY <1>10 DEF ClaimRefused, AnswerCaller, Replies, ReceiptInv, ReceiptTypeOK, OwnerAlone, RunnersClaimed,
     Busy, SaversApplied, CompletedApplied, DoneCompleted, ReplaysCompleted, OwnerAccounted
<1>11. ASSUME NEW c \in Callers, SettlementRefused(c) PROVE ReceiptInv'
  <2>1. /\ caller[c] \in Busy
        /\ caller' = [caller EXCEPT ![c] = "ended"] /\ reply' = [reply EXCEPT ![c] = "failed"]
        /\ applied \subseteq applied' /\ applied' \subseteq Callers
        /\ unsettled' = unsettled \cup {c}
        /\ receipt' = receipt /\ begun' = begun
    BY <1>11 DEF SettlementRefused, AnswerCaller, Busy, ReceiptInv, ReceiptTypeOK
  <2>2. receipt.status = "in_progress" /\ begun = {receipt.owner} /\ receipt.owner = c
    BY <2>1 DEF ReceiptInv, OwnerAlone, RunnersClaimed
  <2>3. ReceiptTypeOK'
    BY <2>1 DEF Replies, ReceiptInv, ReceiptTypeOK
  <2>4. OwnerAlone' /\ CompletedApplied'
    BY <2>1, <2>2 DEF ReceiptInv, OwnerAlone, CompletedApplied
  <2>5. RunnersClaimed' /\ SaversApplied'
    BY <2>1, <2>2 DEF ReceiptInv, ReceiptTypeOK, RunnersClaimed, Busy, SaversApplied
  <2>6. ReplaysCompleted' /\ DoneCompleted'
    BY <2>1 DEF ReceiptInv, ReceiptTypeOK, ReplaysCompleted, DoneCompleted
  <2>7. OwnerAccounted'
    BY <2>1, <2>2 DEF OwnerAccounted
  <2> QED
    BY <2>3, <2>4, <2>5, <2>6, <2>7 DEF ReceiptInv
<1>8. ASSUME NEW r \in Runtimes, RuntimeDies(r) PROVE ReceiptInv'
  BY <1>8 DEF RuntimeDies, ReceiptInv, ReceiptTypeOK, OwnerAlone, RunnersClaimed, Busy, SaversApplied,
     CompletedApplied, DoneCompleted, ReplaysCompleted, OwnerAccounted
<1>9. CASE UNCHANGED receiptVars
  BY <1>9 DEF receiptVars, ReceiptInv, ReceiptTypeOK, OwnerAlone, RunnersClaimed, Busy, SaversApplied,
     CompletedApplied, DoneCompleted, ReplaysCompleted, OwnerAccounted
<1> QED
  BY <1>1, <1>2, <1>3, <1>4, <1>5, <1>6, <1>7, <1>8, <1>9, <1>10, <1>11 DEF ReceiptNext

\* The inductive invariant of the receipt and its owner (_command).
THEOREM ReceiptInvariance == ReceiptSpec => []ReceiptInv
<1>1. ReceiptInit => ReceiptInv
  BY ReceiptInitInv
<1>2. ReceiptInv /\ [ReceiptNext]_receiptVars => ReceiptInv'
  BY ReceiptStepInv
<1> QED
  BY <1>1, <1>2, PTL DEF ReceiptSpec

\* At most one caller ever executes the command (claim_runtime_command).
THEOREM ExecutesOnce == ReceiptSpec => []ExecutedAtMostOnce
<1>1. ReceiptInv => ExecutedAtMostOnce
  BY DEF ReceiptInv, ReceiptTypeOK, OwnerAlone, ExecutedAtMostOnce
<1> QED
  BY <1>1, ReceiptInvariance, PTL

\* A replay repeats what somebody did for the same request (_command).
THEOREM ReplaysAreTrue == ReceiptSpec => []ReplayIsTrue
<1>1. ReceiptInv => ReplayIsTrue
  BY DEF ReceiptInv, ReceiptTypeOK, OwnerAlone, CompletedApplied, DoneCompleted, ReplaysCompleted, ReplayIsTrue
<1> QED
  BY <1>1, ReceiptInvariance, PTL

\* A receipt in progress has a command behind it, a dead runtime or a settlement the
\* store refused, and nobody was told it was done (_command).
THEOREM ReceiptsFollow == ReceiptSpec => []ReceiptFollowsCoroutine
<1>1. ReceiptInv => ReceiptFollowsCoroutine
  BY DEF ReceiptInv, OwnerAccounted, DoneCompleted, ReplaysCompleted, ReceiptFollowsCoroutine
<1> QED
  BY <1>1, ReceiptInvariance, PTL

-----------------------------------------------------------------------------
(* Background processes.  A process is over once its pumps have ended, and *)
(* only a closer that saw them end keeps a result or commits one: that is  *)
(* the chain from the operating system to the row.  The rest says who may  *)
(* know a process (the runtime that owns it) and that the clean-up works   *)
(* off what it found.                                                      *)

\* The types of what the arguments look at; the crashes are not counted here.
ProcessShape ==
  /\ starting \in [Processes -> {"no", "spawning", "done"}]
  /\ leader \in [Processes -> {"unborn", "alive", "dead"}]
  /\ heirs \in [Processes -> BOOLEAN]
  /\ owned \in [Processes -> BOOLEAN]
  /\ pump \in [Processes -> {"none", "reading", "done", "cancelled"}]
  /\ kept \in [Processes -> Finished \cup {NoStatus}]
  /\ record \in [Processes -> Terminal \cup {"none", "RUNNING"}]
  /\ timer \in [Processes -> BOOLEAN]
  /\ closer \in [Closers -> [Processes -> {"idle", "exiting", "draining"}]]
  /\ todo \subseteq due /\ due \subseteq Processes
  /\ seen \subseteq Processes /\ (seen # {} => Shared)

\* Before its start is committed nothing is known of a process.
Unknown(p) ==
  starting[p] # "done" =>
    /\ ~owned[p] /\ record[p] = "none" /\ p \notin due \cup seen

\* What the executor, the timer and the closers hold belongs to a process that
\* this runtime owns, and that was born.
OwnedOnly(p) ==
  /\ pump[p] # "none" => owned[p]
  /\ kept[p] # NoStatus => owned[p]
  /\ timer[p] => owned[p]
  /\ \A k \in Closers : closer[k][p] # "idle" => owned[p]
  /\ owned[p] => leader[p] # "unborn"

\* Nobody writes to its pipes any more, nor ever will.
IsOver(p) == leader[p] = "dead" /\ ~heirs[p]

OverWhenSaid(p) ==
  /\ pump[p] = "done" => IsOver(p)
  /\ kept[p] # NoStatus => IsOver(p)
  /\ record[p] \in Finished => IsOver(p)

\* RunningHasDeadline, DeadlineHasProcess and KeptMatchesRecord of one process.
Timed(p) ==
  /\ record[p] = "RUNNING" /\ owned[p] /\ pump[p] # "cancelled" /\ kept[p] = NoStatus
       => timer[p]
  /\ timer[p] => record[p] = "RUNNING" \/ (Shared /\ record[p] = "ORPHANED")
  /\ ~Shared /\ kept[p] # NoStatus => record[p] = kept[p]

\* What the clean-up set out to stop and has not stopped is still on its list.
WorkedOff(p) ==
  p \in due /\ record[p] = "RUNNING" =>
    task # "ended" /\ (task = "ending" => p \in todo)

ProcessGood(p) ==
  Unknown(p) /\ OwnedOnly(p) /\ OverWhenSaid(p) /\ Timed(p) /\ WorkedOff(p)

ProcessInv == ProcessShape /\ \A p \in Processes : ProcessGood(p)

\* No process exists yet.
LEMMA ProcessInitInv == ProcessInit => ProcessInv
BY DEF ProcessInit, All, AllIdle, ProcessInv, ProcessShape, ProcessGood, Unknown, OwnedOnly,
   OverWhenSaid, Timed, WorkedOff, Finished, Terminal

\* A closer moves alone.
LEMMA CloserMoves ==
  ASSUME ProcessShape, NEW k \in Closers, NEW p \in Processes,
         NEW where \in {"idle", "exiting", "draining"}, CloserAt(k, p, where)
  PROVE  /\ closer' \in [Closers -> [Processes -> {"idle", "exiting", "draining"}]]
         /\ \A j \in Closers, q \in Processes :
              closer'[j][q] = IF j = k /\ q = p THEN where ELSE closer[j][q]
BY DEF CloserAt, ProcessShape

\* Whoever closes a process for good forgets its deadline task too.
LEMMA DeadlineForgotten ==
  ASSUME ProcessShape, NEW k \in Closers, NEW p \in Processes,
         \/ closer' = [closer EXCEPT !["deadline"][p] = "idle"]
         \/ closer' = [closer EXCEPT ![k][p] = "idle", !["deadline"][p] = "idle"]
  PROVE  /\ closer' \in [Closers -> [Processes -> {"idle", "exiting", "draining"}]]
         /\ \A j \in Closers, q \in Processes :
              closer'[j][q] # "idle" => closer'[j][q] = closer[j][q]
BY DEF ProcessShape, Closers

\* What a step leaves alone, for the processes it is not about.
SameProcess(q) ==
  /\ starting'[q] = starting[q] /\ leader'[q] = leader[q] /\ heirs'[q] = heirs[q]
  /\ owned'[q] = owned[q] /\ pump'[q] = pump[q] /\ kept'[q] = kept[q]
  /\ record'[q] = record[q] /\ timer'[q] = timer[q]
  /\ q \in seen' => q \in seen
  /\ \A j \in Closers : closer'[j][q] # "idle" => closer'[j][q] = closer[j][q]

\* The list of the clean-up, as another process sees it.
SameList(q) ==
  /\ q \in due' <=> q \in due
  /\ q \in todo /\ task' = "ending" => q \in todo'
  /\ task' = "ended" => task = "ended"
  /\ task' = "ending" => task = "ending"

\* A step about one process keeps what holds of the others.
LEMMA OthersStayGood ==
  ASSUME NEW q \in Processes, ProcessGood(q), SameProcess(q), SameList(q)
  PROVE  ProcessGood(q)'
BY DEF ProcessGood, SameProcess, SameList, Unknown, OwnedOnly, OverWhenSaid, IsOver, Timed,
   WorkedOff

\* A closer that finds the process at its executor or not (_stop_background_record,
\* and the observers).
LEMMA StopsKeeps ==
  ASSUME ProcessInv, NEW p \in Processes, NEW k \in Closers,
         Stops(k, p) \/ (k = "watch" /\ (\/ ~owned[p] /\ Disowns(p)
                                         \/ owned[p] /\ kept[p] # NoStatus /\ Recalls(p)
                                         \/ owned[p] /\ kept[p] = NoStatus /\ Observes(p))),
         starting[p] = "done",
         UNCHANGED <<starting, leader, heirs, executor, seen, due>>,
         \/ UNCHANGED <<task, todo>>
         \/ /\ task = "ending" /\ task' = task
            /\ todo' = IF owned[p] /\ kept[p] = NoStatus THEN todo ELSE todo \ {p}
  PROVE  ProcessInv'
<1> USE DEF executor
<1>1. CASE ~owned[p] /\ Disowns(p)
  <2>1. ProcessShape'
    BY <1>1 DEF Disowns, Orphan, ProcessInv, ProcessShape, Terminal
  <2>2. ProcessGood(p)'
    BY <1>1, StatusAssumption DEF Disowns, Orphan, ProcessInv, ProcessShape, ProcessGood,
       Unknown, OwnedOnly, OverWhenSaid, IsOver, Timed, WorkedOff, Finished
  <2>3. ASSUME NEW q \in Processes, q # p PROVE ProcessGood(q)'
    <3>1. SameProcess(q) /\ SameList(q)
      BY <1>1, <2>3 DEF Disowns, Orphan, ProcessInv, ProcessShape, SameProcess, SameList
    <3> QED
      BY <3>1, OthersStayGood DEF ProcessInv
  <2> QED
    BY <2>1, <2>2, <2>3 DEF ProcessInv
<1>2. CASE owned[p] /\ kept[p] # NoStatus /\ Recalls(p)
  <2>0. /\ closer' \in [Closers -> [Processes -> {"idle", "exiting", "draining"}]]
        /\ \A j \in Closers, q \in Processes :
             closer'[j][q] # "idle" => closer'[j][q] = closer[j][q]
    BY <1>2, DeadlineForgotten DEF Recalls, ProcessInv
  <2>1. ProcessShape'
    BY <1>2, <2>0 DEF Recalls, ProcessInv, ProcessShape, Terminal
  <2>2. ProcessGood(p)'
    BY <1>2, <2>0 DEF Recalls, ProcessInv, ProcessShape, ProcessGood, Unknown, OwnedOnly,
       OverWhenSaid, IsOver, Timed, WorkedOff, Finished
  <2>3. ASSUME NEW q \in Processes, q # p PROVE ProcessGood(q)'
    <3>1. SameProcess(q) /\ SameList(q)
      BY <1>2, <2>0, <2>3 DEF Recalls, ProcessInv, ProcessShape, SameProcess, SameList
    <3> QED
      BY <3>1, OthersStayGood DEF ProcessInv
  <2> QED
    BY <2>1, <2>2, <2>3 DEF ProcessInv
<1>3. CASE /\ owned[p] /\ kept[p] = NoStatus /\ UNCHANGED <<record, timer>>
           /\ CloserAt(k, p, IF leader[p] = "alive" THEN "exiting" ELSE "draining")
  <2>0. /\ closer' \in [Closers -> [Processes -> {"idle", "exiting", "draining"}]]
        /\ \A j \in Closers, q \in Processes : q # p => closer'[j][q] = closer[j][q]
    BY <1>3, CloserMoves DEF ProcessInv
  <2>1. ProcessShape'
    BY <1>3, <2>0 DEF ProcessInv, ProcessShape
  <2>2. ProcessGood(p)'
    BY <1>3, <2>0 DEF ProcessInv, ProcessShape, ProcessGood, Unknown, OwnedOnly,
       OverWhenSaid, IsOver, Timed, WorkedOff
  <2>3. ASSUME NEW q \in Processes, q # p PROVE ProcessGood(q)'
    <3>1. SameProcess(q) /\ SameList(q)
      BY <1>3, <2>0, <2>3 DEF ProcessInv, ProcessShape, SameProcess, SameList
    <3> QED
      BY <3>1, OthersStayGood DEF ProcessInv
  <2> QED
    BY <2>1, <2>2, <2>3 DEF ProcessInv
<1> QED
  BY <1>1, <1>2, <1>3 DEF Stops, Signals, Observes

\* A closer that ends with an exception, whatever it leaves with the executor.
LEMMA FailsKeeps ==
  ASSUME ProcessInv, NEW p \in Processes, NEW k \in Closers, closer[k][p] # "idle", Fails(k, p),
         \/ pump[p] = "cancelled" /\ UNCHANGED <<pump, kept>>
         \/ Shared /\ pump[p] = "done" /\ pump' = pump /\ kept' = [kept EXCEPT ![p] = Status[k]]
         \/ /\ k # "deadline" /\ kept' = kept
            /\ pump' = pump \/ pump' = [pump EXCEPT ![p] = "cancelled"],
         UNCHANGED <<up, crashes, starting, os, owned, record, seen, due>>
  PROVE  ProcessInv'
<1> USE DEF os
<1>0. /\ closer' \in [Closers -> [Processes -> {"idle", "exiting", "draining"}]]
      /\ \A j \in Closers, q \in Processes :
           closer'[j][q] # "idle" => closer'[j][q] = closer[j][q]
  BY CloserMoves DEF ProcessInv, Fails
<1>1. Status[k] \in Finished /\ owned[p]
  BY DEF Status, Finished, Closers, ProcessInv, ProcessGood, OwnedOnly
<1>2. ProcessShape'
  BY <1>0, <1>1 DEF Fails, ProcessInv, ProcessShape
<1>3. ProcessGood(p)'
  BY <1>0, <1>1, StatusAssumption DEF Fails, ProcessInv, ProcessShape, ProcessGood, Unknown,
     OwnedOnly, OverWhenSaid, IsOver, Timed, WorkedOff
<1>4. ASSUME NEW q \in Processes, q # p PROVE ProcessGood(q)'
  <2>1. SameProcess(q) /\ SameList(q)
    BY <1>0, <1>4 DEF Fails, ProcessInv, ProcessShape, SameProcess, SameList
  <2> QED
    BY <2>1, OthersStayGood DEF ProcessInv
<1> QED
  BY <1>2, <1>3, <1>4 DEF ProcessInv

\* What a start and what the operating system do to a process.
StartStep(p) == BeginStart(p) \/ Spawn(p) \/ CommitStart(p)
SystemMoves(p) == LeaderExits(p) \/ HeirsExit(p) \/ GroupDies(p) \/ PumpEnds(p)

\* A process is started, and lives and dies without its closers.
LEMMA StartKeeps ==
  ASSUME ProcessInv, NEW p \in Processes, StartStep(p) \/ SystemMoves(p)
  PROVE  ProcessInv'
<1> USE DEF os, executor
<1>1. ProcessShape'
  <2>1. CASE StartStep(p)
    <3>1. CASE BeginStart(p)
      BY <3>1 DEF BeginStart, ProcessInv, ProcessShape
    <3>2. CASE Spawn(p)
      <4>1. (p \in Daemonizing) \in BOOLEAN
        OBVIOUS
      <4>2. heirs' \in [Processes -> BOOLEAN]
        BY <3>2, <4>1, Zenon DEF Spawn, ProcessInv, ProcessShape
      <4> QED
        BY <3>2, <4>2 DEF Spawn, ProcessInv, ProcessShape
    <3>3. CASE CommitStart(p)
      BY <3>3 DEF CommitStart, ProcessInv, ProcessShape, Terminal
    <3> QED
      BY <2>1, <3>1, <3>2, <3>3 DEF StartStep
  <2>2. CASE SystemMoves(p)
    BY <2>2 DEF SystemMoves, LeaderExits, HeirsExit, GroupDies, PumpEnds, ProcessInv, ProcessShape
  <2> QED
    BY <2>1, <2>2
<1>2. UNCHANGED <<task, todo, due, closer>>
  <2>1. CASE StartStep(p)
    BY <2>1 DEF StartStep, BeginStart, Spawn, CommitStart
  <2>2. CASE SystemMoves(p)
    BY <2>2 DEF SystemMoves, LeaderExits, HeirsExit, GroupDies, PumpEnds
  <2> QED
    BY <2>1, <2>2
<1>3. ProcessGood(p)'
  <2> USE <1>2 DEF ProcessInv, ProcessShape, ProcessGood, Unknown, OwnedOnly, OverWhenSaid,
      IsOver, Timed, WorkedOff, Finished
  <2>1. CASE BeginStart(p)
    BY <2>1 DEF BeginStart
  <2>2. CASE Spawn(p)
    BY <2>2 DEF Spawn
  <2>3. CASE CommitStart(p)
    BY <2>3 DEF CommitStart
  <2>4. CASE LeaderExits(p) \/ HeirsExit(p) \/ GroupDies(p)
    BY <2>4 DEF LeaderExits, HeirsExit, GroupDies
  <2>5. CASE PumpEnds(p)
    BY <2>5 DEF PumpEnds, PipesOpen
  <2> QED
    BY <2>1, <2>2, <2>3, <2>4, <2>5 DEF StartStep, SystemMoves
<1>4. ASSUME NEW q \in Processes, q # p PROVE ProcessGood(q)'
  <2>1. CASE StartStep(p)
    BY <1>2, <1>4, <2>1, OthersStayGood DEF StartStep, BeginStart, Spawn, CommitStart, ProcessInv,
       ProcessShape, SameProcess, SameList
  <2>2. CASE SystemMoves(p)
    BY <1>2, <1>4, <2>2, OthersStayGood DEF SystemMoves, LeaderExits, HeirsExit, GroupDies,
       PumpEnds, ProcessInv, ProcessShape, SameProcess, SameList
  <2> QED
    BY <2>1, <2>2
<1> QED
  BY <1>1, <1>3, <1>4 DEF ProcessInv

\* The pumps have ended: executor, row and timer say so together.
LEMMA CompleteKeeps ==
  ASSUME ProcessInv, NEW p \in Processes, NEW k \in Closers, Complete(k, p)
  PROVE  ProcessInv'
<1> USE DEF os
<1>0. /\ closer' \in [Closers -> [Processes -> {"idle", "exiting", "draining"}]]
      /\ \A j \in Closers, q \in Processes :
           closer'[j][q] # "idle" => closer'[j][q] = closer[j][q]
  BY DeadlineForgotten DEF Complete, ProcessInv
<1>1. Status[k] \in Finished /\ owned[p] /\ IsOver(p)
  BY DEF Complete, Status, Finished, Closers, ProcessInv, ProcessGood, OwnedOnly, OverWhenSaid
<1>2. ProcessShape'
  <2>1. kept' \in [Processes -> Finished \cup {NoStatus}]
    BY <1>1 DEF Complete, ProcessInv, ProcessShape
  <2>2. record' \in [Processes -> Terminal \cup {"none", "RUNNING"}]
    BY <1>1 DEF Complete, ProcessInv, ProcessShape, Terminal
  <2>3. timer' \in [Processes -> BOOLEAN]
    BY DEF Complete, ProcessInv, ProcessShape
  <2> QED
    BY <1>0, <2>1, <2>2, <2>3 DEF Complete, ProcessInv, ProcessShape
<1>3. ProcessGood(p)'
  BY <1>0, <1>1 DEF Complete, ProcessInv, ProcessShape, ProcessGood, Unknown, OwnedOnly,
     OverWhenSaid, IsOver, Timed, WorkedOff, Finished
<1>4. ASSUME NEW q \in Processes, q # p PROVE ProcessGood(q)'
  <2>1. SameProcess(q)
    <3>1. kept'[q] = kept[q] /\ record'[q] = record[q] /\ timer'[q] = timer[q]
      BY <1>4 DEF Complete, ProcessInv, ProcessShape
    <3>2. \A j \in Closers : closer'[j][q] # "idle" => closer'[j][q] = closer[j][q]
      BY <1>0, <1>4 DEF Complete, ProcessInv, ProcessShape
    <3>3. UNCHANGED <<starting, leader, heirs, owned, pump, seen>>
      BY DEF Complete, os
    <3> QED BY <3>1, <3>2, <3>3 DEF SameProcess
  <2>2. SameList(q)
    BY <1>4 DEF Complete, SameList
  <2> QED
    BY <2>1, <2>2, OthersStayGood DEF ProcessInv
<1> QED
  BY <1>2, <1>3, <1>4 DEF ProcessInv

\* Every step of the processes, of those who close them and of the runtimes.
LEMMA ProcessStepInv == ProcessInv /\ [ProcessNext]_processVars => ProcessInv'
<1> SUFFICES ASSUME ProcessInv, [ProcessNext]_processVars PROVE ProcessInv'
  OBVIOUS
<1> USE DEF os, executor
<1>0. ASSUME NEW p \in Processes, record[p] = "RUNNING" \/ owned[p] \/ p \in due
      PROVE  starting[p] = "done"
  BY <1>0 DEF ProcessInv, ProcessGood, Unknown
<1>1. ASSUME NEW p \in Processes, StartStep(p) \/ SystemMoves(p) PROVE ProcessInv'
  BY <1>1, StartKeeps
<1>2. ASSUME NEW p \in Processes, Watch(p) PROVE ProcessInv'
  BY <1>0, <1>2, StopsKeeps DEF Watch, Closers
<1>3. ASSUME NEW p \in Processes, WatchLate(p) PROVE ProcessInv'
  BY <1>0, <1>3, StopsKeeps DEF WatchLate, Closers
<1>4. ASSUME NEW p \in Processes, Stop(p) PROVE ProcessInv'
  BY <1>0, <1>4, StopsKeeps DEF Stop, Closers
<1>5. ASSUME NEW p \in Processes, DeadlineFires(p) PROVE ProcessInv'
  <2>1. CASE record[p] = "RUNNING"
    BY <1>0, <1>5, <2>1, StopsKeeps DEF DeadlineFires, Closers
  <2>2. CASE record[p] # "RUNNING"
    <3>1. /\ timer' = [timer EXCEPT ![p] = FALSE]
          /\ UNCHANGED <<closer, record, task, starting, leader, heirs, owned, pump, kept, todo,
                         seen, due>>
      BY <1>5, <2>2 DEF DeadlineFires
    <3>2. ProcessShape'
      BY <3>1 DEF ProcessInv, ProcessShape
    <3>3. \A q \in Processes : ProcessGood(q)'
      BY <2>2, <3>1 DEF ProcessInv, ProcessShape, ProcessGood, Unknown, OwnedOnly, OverWhenSaid,
         IsOver, Timed, WorkedOff
    <3> QED
      BY <3>2, <3>3 DEF ProcessInv
  <2> QED
    BY <2>1, <2>2
<1>6. ASSUME NEW p \in Processes, CleanUp(p) PROVE ProcessInv'
  <2>1. starting[p] = "done"
    BY <1>0, <1>6 DEF CleanUp, ProcessInv, ProcessShape
  <2> QED
    BY <1>6, <2>1, StopsKeeps DEF CleanUp, Closers
<1>7. ASSUME NEW p \in Processes, NEW k \in Closers, Resume(k, p) PROVE ProcessInv'
  <2>1. /\ closer' \in [Closers -> [Processes -> {"idle", "exiting", "draining"}]]
        /\ \A j \in Closers, q \in Processes :
             closer'[j][q] # "idle" => closer[j][q] # "idle"
    BY <1>7, CloserMoves DEF Resume, ProcessInv
  <2>2. ProcessShape'
    BY <1>7, <2>1 DEF Resume, ProcessInv, ProcessShape
  <2>3. \A q \in Processes : ProcessGood(q)'
    BY <1>7, <2>1 DEF Resume, ProcessInv, ProcessGood, Unknown, OwnedOnly, OverWhenSaid, IsOver,
       Timed, WorkedOff
  <2> QED
    BY <2>2, <2>3 DEF ProcessInv
<1>8. ASSUME NEW p \in Processes, NEW k \in Closers, Complete(k, p) PROVE ProcessInv'
  BY <1>8, CompleteKeeps
<1>9. ASSUME NEW p \in Processes, NEW k \in Closers,
             CommitLost(k, p) \/ Raises(k, p) \/ CancelCloser(k, p)
      PROVE  ProcessInv'
  BY <1>9, FailsKeeps DEF CommitLost, Raises, CancelCloser
<1>10. ASSUME NEW p \in Processes, ForeignReads(p) \/ ForeignOrphan(p) PROVE ProcessInv'
  <2>1. UNCHANGED <<closer, task, starting, leader, heirs, owned, pump, kept, timer, todo, due>>
    BY <1>10 DEF ForeignReads, ForeignOrphan
  <2>2. ProcessShape'
    BY <1>10, <2>1 DEF ForeignReads, ForeignOrphan, Orphan, ProcessInv, ProcessShape, Terminal
  <2>3. \A q \in Processes :
          record'[q] = record[q] \/ (record'[q] = "ORPHANED" /\ Shared /\ q = p)
    BY <1>10 DEF ForeignReads, ForeignOrphan, Orphan, ProcessInv, ProcessShape
  <2>4. starting[p] = "done" /\ seen' \subseteq seen \cup {p}
    BY <1>10 DEF ForeignReads, ForeignOrphan, ProcessInv, ProcessGood, Unknown
  <2>5. \A q \in Processes : ProcessGood(q)'
    BY <2>1, <2>3, <2>4 DEF ProcessInv, ProcessGood, Unknown, OwnedOnly, OverWhenSaid, IsOver,
       Timed, WorkedOff, Finished
  <2> QED
    BY <2>2, <2>5 DEF ProcessInv
<1>11. ASSUME BeginEnd \/ End PROVE ProcessInv'
  BY <1>11, StopAssumption DEF BeginEnd, End, ProcessInv, ProcessShape, ProcessGood, Unknown,
     OwnedOnly, OverWhenSaid, IsOver, Timed, WorkedOff
<1>12. CASE Crash
  BY <1>12 DEF Crash, All, AllIdle, ProcessInv, ProcessShape, ProcessGood, Unknown, OwnedOnly,
     OverWhenSaid, IsOver, Timed, WorkedOff
<1>13. CASE Restart \/ UNCHANGED processVars
  BY <1>13 DEF Restart, processVars, ProcessInv, ProcessShape, ProcessGood, Unknown, OwnedOnly,
     OverWhenSaid, IsOver, Timed, WorkedOff
<1> QED
  BY <1>1, <1>2, <1>3, <1>4, <1>5, <1>6, <1>7, <1>8, <1>9, <1>10, <1>11, <1>12, <1>13
     DEF ProcessNext, StartStep, SystemMoves

\* The inductive invariant of the managed processes (kernel_process.py).
THEOREM ProcessInvariance == ProcessSpec => []ProcessInv
<1> QED
  BY ProcessInitInv, ProcessStepInv, PTL DEF ProcessSpec

\* A record that says how a process ended is never wrong about that it ended
\* (BackgroundProcessRecord.finish after LocalProcessExecutor._finish).
THEOREM FinishedIsTrulyOver == ProcessSpec => []FinishedIsOver
<1>1. ProcessInv => FinishedIsOver
  BY DEF ProcessInv, ProcessGood, OverWhenSaid, IsOver, FinishedIsOver
<1> QED
  BY <1>1, ProcessInvariance, PTL

\* What this runtime owns and calls RUNNING has a deadline that will stop it, and
\* a deadline has a process it is for (_schedule_background_deadline).
THEOREM DeadlinesMatchProcesses == ProcessSpec => [](RunningHasDeadline /\ DeadlineHasProcess)
<1>1. ProcessInv => RunningHasDeadline /\ DeadlineHasProcess
  BY DEF ProcessInv, ProcessGood, Timed, RunningHasDeadline, DeadlineHasProcess
<1> QED
  BY <1>1, ProcessInvariance, PTL

\* One runtime's executor and the row tell the same ending, however many closers
\* finished the process (_finish, _complete_background_process).
THEOREM KeptIsRecorded == ProcessSpec => []KeptMatchesRecord
<1>1. ProcessInv => KeptMatchesRecord
  BY DEF ProcessInv, ProcessGood, Timed, KeptMatchesRecord
<1> QED
  BY <1>1, ProcessInvariance, PTL

\* What was RUNNING when the Task began to end is recorded as RUNNING no longer
\* when it has ended (transition_task and its clean-up).
THEOREM EndHasStoppedWhatItFound == ProcessSpec => []EndStopsWhatItFound
<1>1. ProcessInv => EndStopsWhatItFound
  BY DEF ProcessInv, ProcessShape, ProcessGood, WorkedOff, EndStopsWhatItFound
<1> QED
  BY <1>1, ProcessInvariance, PTL

-----------------------------------------------------------------------------
(* Background processes, going on.  Whoever stops a process has a signal   *)
(* under way while the leader lives, and pumps to wait for when it is dead: *)
(* no stop waits for something that nobody is to bring about.              *)

\* What takes a closer of a process on: the signal that follows its stop, the
\* wait that ends, or the pumps (LocalProcessExecutor.stop_process, _finish).
EndComes(k, p) ==
  \/ signalled[p] /\ PipesOpen(p)
  \/ closer[k][p] = "exiting" /\ ~PipesOpen(p)
  \/ closer[k][p] = "draining" /\ pump[p] \in {"done", "cancelled"}
  \/ up /\ pump[p] = "reading" /\ ~PipesOpen(p)

StoppersGoOn ==
  \A k \in Stoppers, p \in Processes :
    closer[k][p] # "idle" => EndComes(k, p) \/ HeldOpen(p)

\* Who owns a process reads its output, and who stops it has signalled it.
Attended(p) ==
  /\ owned[p] => up /\ pump[p] # "none"
  /\ \A k \in Closers : closer[k][p] = "draining" => leader[p] = "dead"
  /\ \A k \in Stoppers : closer[k][p] = "exiting" => signalled[p] \/ leader[p] = "dead"

Attendance == signalled \in [Processes -> BOOLEAN] /\ \A p \in Processes : Attended(p)

LEMMA AttendedGoOn == ProcessInv /\ Attendance => StoppersGoOn
<1> SUFFICES ASSUME ProcessInv, Attendance, NEW k \in Stoppers, NEW p \in Processes,
                    closer[k][p] # "idle", ~HeldOpen(p)
             PROVE  EndComes(k, p)
  BY DEF StoppersGoOn
<1>1. /\ k \in Closers /\ owned[p] /\ leader[p] \in {"alive", "dead"}
      /\ closer[k][p] \in {"exiting", "draining"}
      /\ pump[p] \in {"none", "reading", "done", "cancelled"}
  BY DEF Stoppers, ProcessInv, ProcessShape, ProcessGood, OwnedOnly
<1>2. Attended(p)
  BY DEF Attendance
<1> QED
  BY <1>1, <1>2 DEF Attended, EndComes, PipesOpen, HeldOpen

\* A closer moves, and the process stays signalled if it was.
LEMMA OneCloserAttends ==
  ASSUME ProcessInv, Attendance, NEW k \in Closers, NEW p \in Processes,
         NEW where \in {"idle", "exiting", "draining"}, CloserAt(k, p, where),
         where = "draining" => leader[p] = "dead",
         where = "exiting" /\ k \in Stoppers => signalled'[p] \/ leader[p] = "dead",
         signalled' \in [Processes -> BOOLEAN],
         \A q \in Processes : signalled[q] => signalled'[q],
         UNCHANGED <<up, leader, owned>>,
         \A q \in Processes : pump'[q] = "none" => pump[q] = "none"
  PROVE  Attendance'
<1>1. \A j \in Closers, q \in Processes :
        closer'[j][q] = IF j = k /\ q = p THEN where ELSE closer[j][q]
  BY CloserMoves DEF ProcessInv
<1> QED
  BY <1>1 DEF Attendance, Attended, Stoppers

\* Closers only come to rest.
LEMMA RestAttends ==
  ASSUME Attendance, UNCHANGED <<signalled, up, owned>>,
         \A q \in Processes : leader[q] = "dead" => leader'[q] = "dead",
         \A q \in Processes : pump'[q] = "none" => pump[q] = "none",
         \A j \in Closers, q \in Processes : closer'[j][q] # "idle" => closer'[j][q] = closer[j][q]
  PROVE  Attendance'
BY DEF Attendance, Attended, Stoppers

\* Whatever an observer, a stop, the clean-up or the deadline finds.
LEMMA StopsAttend ==
  ASSUME ProcessInv, Attendance, NEW p \in Processes, NEW k \in Closers,
         Stops(k, p) \/ (k = "watch" /\ (\/ ~owned[p] /\ Disowns(p)
                                         \/ owned[p] /\ kept[p] # NoStatus /\ Recalls(p)
                                         \/ owned[p] /\ kept[p] = NoStatus /\ Observes(p))),
         UNCHANGED <<up, leader, executor>>
  PROVE  Attendance'
<1> USE DEF executor
<1>1. CASE Disowns(p)
  BY <1>1, RestAttends DEF Disowns
<1>2. CASE Recalls(p)
  <2>1. \A j \in Closers, q \in Processes : closer'[j][q] # "idle" => closer'[j][q] = closer[j][q]
    BY <1>2, DeadlineForgotten DEF Recalls, ProcessInv
  <2> QED
    BY <1>2, <2>1, RestAttends DEF Recalls
<1> DEFINE place == IF leader[p] = "alive" THEN "exiting" ELSE "draining"
<1>3. CASE owned[p] /\ (Signals(k, p) \/ (k = "watch" /\ Observes(p)))
  <2>1. leader[p] \in {"alive", "dead"} /\ signalled \in [Processes -> BOOLEAN]
    BY <1>3 DEF ProcessInv, ProcessShape, ProcessGood, OwnedOnly, Attendance
  <2>2. CloserAt(k, p, place) /\ place \in {"idle", "exiting", "draining"}
    BY <1>3 DEF Signals, Observes
  <2>3. signalled' \in [Processes -> BOOLEAN] /\ \A q \in Processes : signalled[q] => signalled'[q]
    BY <1>3, <2>1 DEF Signals, Observes
  <2>4. k \in Stoppers /\ leader[p] = "alive" => signalled'[p]
    BY <1>3, <2>1 DEF Signals, Stoppers
  <2>5. place = "draining" => leader[p] = "dead"
    BY <2>1
  <2>6. place = "exiting" /\ k \in Stoppers => signalled'[p] \/ leader[p] = "dead"
    BY <2>4
  <2> HIDE DEF place
  <2> QED
    BY <2>2, <2>3, <2>5, <2>6, OneCloserAttends
<1> QED
  BY <1>1, <1>2, <1>3 DEF Stops

LEMMA AttendanceStep == ProcessInv /\ Attendance /\ [ProcessNext]_processVars => Attendance'
<1> SUFFICES ASSUME ProcessInv, Attendance, [ProcessNext]_processVars PROVE Attendance'
  OBVIOUS
<1> USE DEF executor, os
<1>0. ProcessShape
  BY DEF ProcessInv
<1>1. CASE UNCHANGED processVars \/ BeginEnd \/ End
  BY <1>1, RestAttends DEF processVars, BeginEnd, End
<1>2. CASE Restart
  BY <1>2 DEF Restart, Attendance, Attended
<1>3. CASE Crash
  BY <1>3 DEF Crash, All, AllIdle, Attendance, Attended, Stoppers
<1>4. ASSUME NEW p \in Processes,
             \/ BeginStart(p) \/ Spawn(p) \/ LeaderExits(p) \/ HeirsExit(p) \/ GroupDies(p)
             \/ PumpEnds(p) \/ ForeignReads(p) \/ ForeignOrphan(p)
      PROVE  Attendance'
  <2>1. UNCHANGED <<signalled, up, owned, closer>>
    BY <1>4 DEF BeginStart, Spawn, LeaderExits, HeirsExit, GroupDies, PumpEnds, ForeignReads,
       ForeignOrphan
  <2>2. \A q \in Processes : leader[q] = "dead" => leader'[q] = "dead"
    BY <1>0, <1>4 DEF BeginStart, Spawn, LeaderExits, HeirsExit, GroupDies, PumpEnds, ForeignReads,
       ForeignOrphan, ProcessShape
  <2>3. \A q \in Processes : pump'[q] = "none" => pump[q] = "none"
    BY <1>0, <1>4 DEF BeginStart, Spawn, LeaderExits, HeirsExit, GroupDies, PumpEnds, ForeignReads,
       ForeignOrphan, ProcessShape
  <2> QED
    BY <2>1, <2>2, <2>3, RestAttends
<1>5. ASSUME NEW p \in Processes, CommitStart(p) PROVE Attendance'
  BY <1>0, <1>5 DEF CommitStart, ProcessShape, Attendance, Attended
<1>6. ASSUME NEW p \in Processes,
             Watch(p) \/ WatchLate(p) \/ Stop(p) \/ DeadlineFires(p) \/ CleanUp(p)
      PROVE  Attendance'
  <2>1. UNCHANGED <<up, leader, executor>>
    BY <1>6 DEF Watch, WatchLate, Stop, DeadlineFires, CleanUp
  <2>2. CASE Watch(p)
    BY <2>1, <2>2, StopsAttend DEF Watch, Closers
  <2>3. CASE WatchLate(p) \/ Stop(p) \/ CleanUp(p)
    BY <2>1, <2>3, StopsAttend DEF WatchLate, Stop, CleanUp, Closers
  <2>4. CASE DeadlineFires(p)
    <3>1. CASE record[p] = "RUNNING"
      BY <2>1, <2>4, <3>1, StopsAttend DEF DeadlineFires, Closers
    <3>2. CASE record[p] # "RUNNING"
      BY <2>1, <2>4, <3>2, RestAttends DEF DeadlineFires
    <3> QED
      BY <3>1, <3>2
  <2> QED
    BY <1>6, <2>2, <2>3, <2>4
<1>7. ASSUME NEW p \in Processes, NEW k \in Closers, Resume(k, p) PROVE Attendance'
  <2>1. CloserAt(k, p, "draining") /\ leader[p] = "dead" /\ UNCHANGED <<up, leader, owned, signalled, pump>>
    BY <1>7 DEF Resume
  <2> QED
    BY <2>1, OneCloserAttends DEF Attendance
<1>8. ASSUME NEW p \in Processes, NEW k \in Closers, Complete(k, p) PROVE Attendance'
  <2>1. \A j \in Closers, q \in Processes : closer'[j][q] # "idle" => closer'[j][q] = closer[j][q]
    BY <1>0, <1>8, DeadlineForgotten DEF Complete
  <2> QED
    BY <1>8, <2>1, RestAttends DEF Complete
<1>9. ASSUME NEW p \in Processes, NEW k \in Closers, Raises(k, p) \/ CommitLost(k, p) \/ CancelCloser(k, p)
      PROVE  Attendance'
  <2>1. CloserAt(k, p, "idle") /\ UNCHANGED <<up, leader, owned, signalled>>
    BY <1>9 DEF Raises, CommitLost, CancelCloser, Fails
  <2>2. \A q \in Processes : pump'[q] = "none" => pump[q] = "none"
    BY <1>0, <1>9 DEF Raises, CommitLost, CancelCloser, ProcessShape
  <2> QED
    BY <2>1, <2>2, OneCloserAttends DEF Attendance
<1> QED
  BY <1>1, <1>2, <1>3, <1>4, <1>5, <1>6, <1>7, <1>8, <1>9 DEF ProcessNext

\* Whoever stops a process (a tool, the end of the Task, its deadline) waits only
\* for what is to come about, through cancellations, failures and crashes, unless a
\* descendant keeps the output open (stop_background_process, transition_task).
THEOREM StopsGoOn == ProcessSpec => []StoppersGoOn
<1>1. ProcessInit => Attendance
  BY DEF ProcessInit, All, AllIdle, Attendance, Attended, Stoppers
<1> QED
  BY <1>1, AttendanceStep, AttendedGoOn, ProcessInvariance, PTL DEF ProcessSpec

-----------------------------------------------------------------------------
(* Event streams.  A reader that will not be woken has read the whole log, *)
(* because the signal it captured is set by every commit after its reading *)
(* began, and was told how the Task rests there, because what changes that *)
(* is shown; and the signal is shared and counted right, or a commit could *)
(* set one that nobody watches.                                            *)

\* The types of a stream; the bounds of its counters are the model's.
StreamShape ==
  /\ log \in Seq(Kinds)
  /\ redirect \in BOOLEAN /\ object \in Nat /\ users \in Nat /\ opens \in Nat
  /\ reader \in [Readers -> {"closed", "reading", "page", "answer", "parked"}]
  /\ mine \in [Readers -> Nat]
  /\ woken \in [Readers -> BOOLEAN]
  /\ cursor \in [Readers -> Nat]
  /\ upto \in [Readers -> Nat]
  /\ full \in [Readers -> BOOLEAN]
  /\ visible \in [Readers -> BOOLEAN]
  /\ initial \in [Readers -> BOOLEAN]
  /\ candidate \in [Readers -> [cursor : Nat, settled : BOOLEAN, redirecting : BOOLEAN]]
  /\ held \in [Readers -> BOOLEAN]

\* A reader is within the log, and its snapshots are of what it delivered.
Within(r) ==
  /\ cursor[r] <= Len(log)
  /\ reader[r] = "page" => cursor[r] <= upto[r] /\ upto[r] <= Len(log)
  /\ reader[r] = "answer" /\ Shows(r) => candidate[r].cursor = cursor[r]

\* What a reader will not read before it sleeps, something will wake it for.
CaughtUp(r) ==
  /\ reader[r] = "page" /\ ~woken[r] /\ ~full[r] => upto[r] = Len(log)
  /\ reader[r] \in {"answer", "parked"} /\ ~woken[r] => cursor[r] = Len(log)

\* A reader with nothing to show was told how the Task rests where it stands, or
\* that a redirect was pending; one with something to show is about to be.
Told(r) ==
  /\ ~Away(r) /\ ~Shows(r) => (Rests(cursor[r]) => held[r])
  /\ reader[r] = "answer" /\ Shows(r) =>
       (Rests(cursor[r]) => candidate[r].settled \/ candidate[r].redirecting)
  /\ reader[r] = "parked" => ~Shows(r)
  /\ Away(r) => initial[r]

ReaderGood == \A r \in Readers : Within(r) /\ CaughtUp(r) /\ Told(r)

OpenReaders == {r \in Readers : ~Away(r)}

\* The open readers watch one signal, the one the store will notify.
Shares ==
  /\ IsFiniteSet(OpenReaders)
  /\ users = Cardinality(OpenReaders)
  /\ \A r \in OpenReaders : mine[r] = object /\ object # 0

StreamInv == StreamShape /\ ReaderGood /\ Shares

\* Nobody is connected and nothing is committed.
LEMMA StreamInitInv == StreamInit => StreamInv
<1> SUFFICES ASSUME StreamInit PROVE StreamInv
  OBVIOUS
<1> USE DEF StreamInit, Of
<1>1. StreamShape
  <2>1. NoSnapshot \in [cursor : Nat, settled : BOOLEAN, redirecting : BOOLEAN]
    BY DEF NoSnapshot
  <2>2. candidate \in [Readers -> [cursor : Nat, settled : BOOLEAN, redirecting : BOOLEAN]]
    <3> DEFINE S == [cursor : Nat, settled : BOOLEAN, redirecting : BOOLEAN]
    <3>1. candidate = [r \in Readers |-> NoSnapshot]
      BY Zenon
    <3>2. NoSnapshot \in S
      BY <2>1
    <3> HIDE DEF S
    <3>3. candidate \in [Readers -> S]
      BY <3>1, <3>2
    <3> QED
      BY <3>3 DEF S
  <2>3. held \in [Readers -> BOOLEAN] /\ redirect \in BOOLEAN
    BY Zenon
  <2>4. log \in Seq(Kinds)
    OBVIOUS
  <2> QED
    BY <2>2, <2>3, <2>4 DEF StreamShape
<1>2. ReaderGood
  BY DEF ReaderGood, Within, CaughtUp, Told, Away
<1>3. OpenReaders = {}
  BY DEF OpenReaders, Away
<1>4. Shares
  BY <1>3, FS_EmptySet DEF Shares
<1> QED
  BY <1>1, <1>2, <1>4 DEF StreamInv

\* What the row was after n events does not change when others follow.
LEMMA RowStays ==
  ASSUME log \in Seq(Kinds), log' \in Seq(Kinds), NEW n \in Nat, n <= Len(log), NEW kind,
         \A i \in 1..Len(log) : log'[i] = log[i]
  PROVE  RowIs(n, kind)' <=> RowIs(n, kind)
<1>1. Len(log) \in Nat
  OBVIOUS
<1>2. \A i \in 1..n : log'[i] = log[i]
  BY <1>1
<1>3. \A i \in 1..n : \A j \in (i + 1)..n : j \in 1..n
  OBVIOUS
<1> QED
  BY <1>2, <1>3, Zenon DEF RowIs

\* Nor does what the stream does not show change it.
LEMMA QuietRests ==
  ASSUME NEW n \in Nat, NEW kind, kind # "quiet", log[n + 1] = "quiet", RowIs(n + 1, kind)
  PROVE  RowIs(n, kind)
<1>1. PICK i \in 1..(n + 1) :
        log[i] = kind /\ \A j \in (i + 1)..(n + 1) : log[j] \in {"quiet", "shown"}
  BY Zenon DEF RowIs
<1>2. i \in 1..n
  BY <1>1
<1>3. \A j \in (i + 1)..n : log[j] \in {"quiet", "shown"}
  BY <1>1
<1> QED
  BY <1>1, <1>2, <1>3, Zenon DEF RowIs

\* The snapshot of the first n events says that it is, and how the Task rests.
LEMMA SnapshotAt ==
  ASSUME NEW n \in Nat
  PROVE  /\ Snapshot(n) \in [cursor : Nat, settled : BOOLEAN, redirecting : BOOLEAN]
         /\ Snapshot(n).cursor = n
         /\ Rests(n) => Snapshot(n).settled \/ Snapshot(n).redirecting
<1> DEFINE over == RowIs(n, "settle") \/ (RowIs(n, "interrupt") /\ ~redirect)
           heldUp == RowIs(n, "interrupt") /\ redirect
<1>1. over \in BOOLEAN /\ heldUp \in BOOLEAN
  BY Zenon DEF RowIs
<1>2. Snapshot(n) = [cursor |-> n, settled |-> over, redirecting |-> heldUp]
  BY Zenon DEF Snapshot
<1>3. Rests(n) => over \/ heldUp
  BY Zenon DEF Rests
<1> HIDE DEF over, heldUp
<1> QED
  BY <1>1, <1>2, <1>3

\* A reader none of whose variables changes is as good as it was, if the log is.
LEMMA SameReader ==
  ASSUME StreamShape, NEW q \in Readers, Within(q) /\ CaughtUp(q) /\ Told(q), UNCHANGED log,
         reader'[q] = reader[q], woken'[q] = woken[q], cursor'[q] = cursor[q],
         upto'[q] = upto[q], full'[q] = full[q], visible'[q] = visible[q],
         initial'[q] = initial[q], candidate'[q] = candidate[q], held'[q] = held[q]
  PROVE  Within(q)' /\ CaughtUp(q)' /\ Told(q)'
<1>1. Within(q)' /\ CaughtUp(q)'
  BY DEF Within, CaughtUp, Away, Shows
<1>2. Rests(cursor[q])' <=> Rests(cursor[q])
  BY Zenon DEF Rests, RowIs
<1>3. Told(q)'
  BY <1>2 DEF Told, Away, Shows
<1> QED
  BY <1>1, <1>3

\* A commit, or a notification without one, wakes every reader that watches the
\* signal of the store, and they all do (EventedRuntimeStore).
LEMMA NotifyKeeps == ASSUME StreamInv, Commit \/ Progress PROVE StreamInv'
<1> USE DEF StreamInv
<1>1. woken' = [r \in Readers |-> woken[r] \/ (mine[r] = object /\ object # 0)]
  BY Zenon DEF Commit, Progress, Notifies
<1>2. /\ UNCHANGED <<redirect, object, users, opens, reader, mine, cursor, upto, full, visible,
                     initial, candidate, held>>
      /\ Len(log) <= Len(log)'
      /\ log' \in Seq(Kinds)
      /\ \A i \in 1..Len(log) : log'[i] = log[i]
  <2>1. CASE Progress
    BY <2>1 DEF Progress, StreamShape, page
  <2>2. CASE Commit
    <3>1. PICK kind \in Kinds : log' = Append(log, kind)
      BY <2>2 DEF Commit
    <3>2. /\ log' \in Seq(Kinds) /\ Len(log') = Len(log) + 1
          /\ \A i \in 1..Len(log) : log'[i] = log[i]
      BY <3>1 DEF StreamShape
    <3> QED
      BY <2>2, <3>2 DEF Commit, StreamShape, page
  <2> QED
    BY <2>1, <2>2
<1>3. woken' \in [Readers -> BOOLEAN]
  BY <1>1, Zenon
<1>4. StreamShape'
  BY <1>2, <1>3 DEF StreamShape
<1>5. \A r \in Readers : ~Away(r) => woken'[r]
  BY <1>1 DEF Shares, OpenReaders
<1>6. Len(log) \in Nat /\ Len(log') \in Nat
  BY <1>2 DEF StreamShape
<1>7. ReaderGood'
  <2> SUFFICES ASSUME NEW r \in Readers PROVE Within(r)' /\ CaughtUp(r)' /\ Told(r)'
    BY DEF ReaderGood
  <2>1. Within(r)'
    BY <1>2, <1>6 DEF ReaderGood, Within, Away, Shows, StreamShape
  <2>2. CaughtUp(r)'
    BY <1>2, <1>5 DEF CaughtUp, Away
  <2>3. cursor[r] \in Nat /\ cursor[r] <= Len(log)
    BY DEF ReaderGood, Within, StreamShape
  <2>4. \A kind : RowIs(cursor[r], kind)' <=> RowIs(cursor[r], kind)
    <3>1. ASSUME NEW n \in Nat, n <= Len(log), NEW kind
          PROVE  RowIs(n, kind)' <=> RowIs(n, kind)
      BY <1>2, <1>6, <3>1, RowStays DEF StreamShape
    <3> QED
      BY <1>2, <2>3, <3>1 DEF RowIs
  <2>5. Told(r)'
    BY <1>2, <2>4 DEF ReaderGood, Told, Rests, Away, Shows
  <2> QED
    BY <2>1, <2>2, <2>5
<1>8. OpenReaders' = OpenReaders
  BY <1>2 DEF OpenReaders, Away
<1>9. Shares'
  BY <1>2, <1>8 DEF Shares
<1> QED
  BY <1>4, <1>7, <1>9

\* A redirect that begins or ends tells nobody and changes nothing that was told
\* (_schedule_redirected_turn).
LEMMA RedirectKeeps == ASSUME StreamInv, RedirectBegins \/ RedirectEnds PROVE StreamInv'
<1> USE DEF StreamInv
<1>1. /\ redirect' \in BOOLEAN
      /\ UNCHANGED <<log, object, users, opens, reader, mine, woken, cursor, upto, full, visible,
                     initial, candidate, held>>
  BY DEF RedirectBegins, RedirectEnds, watch, page
<1>2. StreamShape'
  BY <1>1 DEF StreamShape
<1>3. ReaderGood'
  BY <1>1, SameReader DEF ReaderGood
<1>4. OpenReaders' = OpenReaders
  BY <1>1 DEF OpenReaders, Away
<1>5. Shares'
  BY <1>1, <1>4 DEF Shares
<1> QED
  BY <1>2, <1>3, <1>5

\* The other readers do not notice what one does to itself.
LEMMA OtherReaders ==
  ASSUME StreamInv, NEW r \in Readers, UNCHANGED log,
         \A q \in Readers \ {r} :
           /\ reader'[q] = reader[q] /\ woken'[q] = woken[q] /\ cursor'[q] = cursor[q]
           /\ upto'[q] = upto[q] /\ full'[q] = full[q] /\ visible'[q] = visible[q]
           /\ initial'[q] = initial[q] /\ candidate'[q] = candidate[q] /\ held'[q] = held[q],
         Within(r)' /\ CaughtUp(r)' /\ Told(r)'
  PROVE  ReaderGood'
<1> SUFFICES ASSUME NEW q \in Readers \ {r} PROVE Within(q)' /\ CaughtUp(q)' /\ Told(q)'
  BY DEF ReaderGood
<1> QED
  BY SameReader DEF StreamInv, ReaderGood

\* A new connection reads from where it was left, and watches with the others.
LEMMA OpenKeeps == ASSUME StreamInv, NEW r \in Readers, Open(r) PROVE StreamInv'
<1> USE DEF StreamInv
<1>1. Len(log) \in Nat /\ MaxEvents \in Nat
  BY BoundsAssumption DEF StreamShape
<1>2. PICK after \in 0..MaxEvents :
        cursor' = [cursor EXCEPT ![r] = IF after > Len(log) THEN 0 ELSE after]
  BY DEF Open
<1>3. /\ opens' = opens + 1 /\ users' = users + 1
      /\ object' = IF object = 0 THEN opens + 1 ELSE object
      /\ mine' = [mine EXCEPT ![r] = object']
      /\ woken' = [woken EXCEPT ![r] = FALSE]
      /\ reader' = [reader EXCEPT ![r] = "reading"]
      /\ UNCHANGED <<log, redirect, upto, full, visible, initial, candidate, held>>
  BY DEF Open, Watches, page
<1>4. object' \in Nat /\ object' # 0
  BY <1>3 DEF StreamShape
<1>5. cursor' \in [Readers -> Nat] /\ cursor'[r] \in Nat /\ cursor'[r] <= Len(log)
  BY <1>1, <1>2 DEF StreamShape
<1>6. StreamShape'
  <2>1. mine' \in [Readers -> Nat] /\ woken' \in [Readers -> BOOLEAN]
    BY <1>3, <1>4 DEF StreamShape
  <2>2. reader' \in [Readers -> {"closed", "reading", "page", "answer", "parked"}]
    BY <1>3 DEF StreamShape
  <2> QED
    BY <1>3, <1>4, <1>5, <2>1, <2>2 DEF StreamShape
<1>7. Within(r)' /\ CaughtUp(r)' /\ Told(r)'
  <2>1. Shows(r)'
    BY <1>3 DEF Open, ReaderGood, Told, Shows
  <2> QED
    BY <1>3, <1>5, <2>1 DEF Within, CaughtUp, Told, Away, Open, ReaderGood, StreamShape
<1>8. ReaderGood'
  BY <1>2, <1>3, <1>7, OtherReaders DEF StreamShape
<1>9. r \notin OpenReaders /\ OpenReaders' = OpenReaders \cup {r}
  BY <1>3 DEF OpenReaders, Away, Open, StreamShape
<1>10. IsFiniteSet(OpenReaders') /\ Cardinality(OpenReaders') = Cardinality(OpenReaders) + 1
  BY <1>9, FS_AddElement DEF Shares
<1>11. Shares'
  BY <1>3, <1>4, <1>9, <1>10 DEF Shares, OpenReaders, StreamShape
<1> QED
  BY <1>6, <1>8, <1>11

\* A connection that ends leaves the signal to the others, and the last one takes
\* it along (watch's finally).
LEMMA EndKeeps ==
  ASSUME StreamInv, NEW r \in Readers, ~Away(r), Ends(r), UNCHANGED <<log, redirect, opens>>
  PROVE  StreamInv'
<1> USE DEF StreamInv
<1>1. r \in OpenReaders
  BY DEF OpenReaders
<1>2. /\ IsFiniteSet(OpenReaders \ {r})
      /\ Cardinality(OpenReaders \ {r}) = Cardinality(OpenReaders) - 1
  BY <1>1, FS_RemoveElement DEF Shares
<1>3. Cardinality(OpenReaders \ {r}) \in Nat
  BY <1>2, FS_CardinalityType
<1>4. users' = Cardinality(OpenReaders \ {r}) /\ users' \in Nat
  BY <1>2, <1>3 DEF Ends, Releases, Shares
<1>5. OpenReaders' = OpenReaders \ {r}
  BY DEF OpenReaders, Away, Ends, StreamShape
<1>6. object' \in Nat
  BY DEF Ends, Releases, StreamShape
<1>7. StreamShape'
  BY <1>4, <1>6 DEF Ends, Forgets, StreamShape, NoSnapshot
<1>8. Within(r)' /\ CaughtUp(r)' /\ Told(r)'
  BY DEF Ends, Forgets, Within, CaughtUp, Told, Away, StreamShape
<1>9. ReaderGood'
  BY <1>8, OtherReaders DEF Ends, Forgets, StreamShape
<1>10. \A q \in OpenReaders' : mine'[q] = object /\ object # 0
  BY <1>5 DEF Ends, Shares, StreamShape, OpenReaders
<1>11. OpenReaders' # {} => users # 1
  BY <1>2, <1>5, FS_EmptySet DEF Shares
<1>12. Shares'
  BY <1>2, <1>4, <1>5, <1>10, <1>11 DEF Shares, Ends, Releases
<1> QED
  BY <1>7, <1>9, <1>12

\* What a reader does by itself, connected as it stays.
Reads(r) == ReadPage(r) \/ Deliver(r) \/ ReadOn(r) \/ EndPage(r) \/ Answer(r) \/ Wake(r)

\* A reader that reads, sends or sleeps stays within the log, and what it has
\* not read when it goes to sleep has set the signal it captured
\* (subscribe_task_ui).
LEMMA ReadsKeep == ASSUME StreamInv, NEW r \in Readers, Reads(r) PROVE StreamInv'
<1> USE DEF StreamInv, store, watch, page
<1>1. UNCHANGED <<log, redirect, object, users, opens, mine>>
  BY DEF Reads, ReadPage, Deliver, ReadOn, EndPage, Answer, Wake
<1>2. reader[r] # "closed" /\ reader'[r] # "closed" /\ \A q \in Readers \ {r} : reader'[q] = reader[q]
  BY DEF Reads, ReadPage, Deliver, ReadOn, EndPage, Answer, Wake, StreamShape
<1>3. Len(log) \in Nat
  BY DEF StreamShape
<1>4. StreamShape'
  <2>1. CASE ReadPage(r)
    <3>1. full' \in [Readers -> BOOLEAN]
      <4>1. full' = [full EXCEPT ![r] = cursor[r] + PageSize <= Len(log)]
        BY <2>1, Zenon DEF ReadPage
      <4> QED
        BY <4>1 DEF StreamShape
    <3>2. upto' \in [Readers -> Nat]
      BY <2>1, <1>3, PageAssumption DEF ReadPage, StreamShape
    <3>3. reader' \in [Readers -> {"closed", "reading", "page", "answer", "parked"}]
      BY <2>1 DEF ReadPage, StreamShape
    <3> QED
      BY <1>1, <2>1, <3>1, <3>2, <3>3 DEF ReadPage, StreamShape
  <2>2. CASE Deliver(r)
    <3>1. visible' \in [Readers -> BOOLEAN]
      <4>1. visible' = [visible EXCEPT ![r] = visible[r] \/ log[cursor'[r]] # "quiet"]
        BY <2>2, Zenon DEF Deliver
      <4> QED
        BY <4>1, Zenon DEF StreamShape
    <3> QED
      BY <1>1, <2>2, <3>1 DEF Deliver, StreamShape
  <2>3. CASE ReadOn(r)
    BY <1>1, <2>3 DEF ReadOn, Forgets, StreamShape
  <2>6. CASE Wake(r)
    BY <1>1, <2>6 DEF Wake, StreamShape
  <2>4. CASE EndPage(r)
    <3>1. candidate' \in [Readers -> [cursor : Nat, settled : BOOLEAN, redirecting : BOOLEAN]]
      <4>1. Snapshot(Len(log)) \in [cursor : Nat, settled : BOOLEAN, redirecting : BOOLEAN]
        BY <1>3, SnapshotAt
      <4> QED
        BY <2>4, <4>1 DEF EndPage, StreamShape
    <3>2. reader' \in [Readers -> {"closed", "reading", "page", "answer", "parked"}]
      BY <2>4 DEF EndPage, StreamShape
    <3> QED
      BY <1>1, <2>4, <3>1, <3>2 DEF EndPage, Forgets, StreamShape
  <2>5. CASE Answer(r)
    <3>1. held' \in [Readers -> BOOLEAN]
      BY <2>5 DEF Answer, StreamShape
    <3> QED
      BY <1>1, <2>5, <3>1 DEF Answer, StreamShape, NoSnapshot
  <2> QED
    BY <2>1, <2>2, <2>3, <2>4, <2>5, <2>6 DEF Reads
<1>5. Within(r) /\ CaughtUp(r) /\ Told(r)
  BY DEF ReaderGood
<1>6. Within(r)' /\ CaughtUp(r)'
  <2>1. CASE ReadPage(r)
    <3>1. full'[r] <=> cursor[r] + PageSize <= Len(log)
      BY <2>1, Zenon DEF ReadPage, StreamShape
    <3>2. upto'[r] = IF cursor[r] + PageSize < Len(log) THEN cursor[r] + PageSize ELSE Len(log)
      BY <2>1 DEF ReadPage, StreamShape
    <3>3. cursor[r] \in Nat /\ PageSize \in Nat
      BY PageAssumption DEF StreamShape
    <3>4. cursor[r] <= upto'[r] /\ upto'[r] <= Len(log) /\ (~full'[r] => upto'[r] = Len(log))
      BY <1>3, <1>5, <3>1, <3>2, <3>3 DEF Within
    <3> QED
      BY <1>5, <2>1, <3>4 DEF ReadPage, Within, CaughtUp, Away, StreamShape
  <2>2. CASE Deliver(r)
    BY <1>1, <1>3, <1>5, <2>2 DEF Deliver, Within, CaughtUp, Away, StreamShape
  <2>3. CASE ReadOn(r)
    BY <1>1, <1>5, <2>3 DEF ReadOn, Forgets, Within, CaughtUp, Away, StreamShape
  <2>4. CASE Wake(r)
    BY <1>1, <1>5, <2>4 DEF Wake, Within, CaughtUp, Away, StreamShape
  <2>5. CASE EndPage(r)
    <3>1. Snapshot(Len(log)).cursor = Len(log)
      BY <1>3, SnapshotAt
    <3>2. Shows(r)' <=> Shows(r)
      BY <2>5 DEF EndPage, Shows
    <3>3. reader'[r] = "answer" /\ Shows(r) => candidate'[r].cursor = Len(log) /\ cursor[r] = Len(log)
      BY <1>3, <1>5, <2>5, <3>1 DEF EndPage, StreamShape, Within
    <3> QED
      BY <1>1, <1>3, <1>5, <2>5, <3>2, <3>3 DEF EndPage, Forgets, Within, CaughtUp, Away, StreamShape
  <2>6. CASE Answer(r)
    BY <1>1, <1>5, <2>6 DEF Answer, Within, CaughtUp, Away, StreamShape
  <2> QED
    BY <2>1, <2>2, <2>3, <2>4, <2>5, <2>6 DEF Reads
<1>7. Told(r)'
  <2>1. CASE cursor' = cursor
    <3>1. Rests(cursor[r])' <=> Rests(cursor[r])
      BY <1>1, <2>1, Zenon DEF Rests, RowIs
    <3>2. CASE ReadPage(r) \/ ReadOn(r) \/ Wake(r)
      BY <1>5, <3>1, <3>2 DEF ReadPage, ReadOn, Wake, Forgets, Told, Away, Shows, StreamShape
    <3>3. CASE EndPage(r)
      <4>1. Shows(r)' <=> Shows(r)
        BY <3>3 DEF EndPage, Shows
      <4>2. Rests(Len(log)) => Snapshot(Len(log)).settled \/ Snapshot(Len(log)).redirecting
        BY <1>3, SnapshotAt
      <4>3. reader'[r] = "answer" /\ Shows(r) =>
              candidate'[r] = Snapshot(Len(log)) /\ cursor[r] = Len(log)
        BY <1>3, <1>5, <3>3 DEF EndPage, StreamShape, Within
      <4>4. reader'[r] = "answer" /\ Shows(r) /\ Rests(cursor[r]) =>
              candidate'[r].settled \/ candidate'[r].redirecting
        BY <4>2, <4>3
      <4>5. reader'[r] \in {"reading", "answer"} /\ held' = held /\ initial' = initial
        BY <3>3 DEF EndPage, StreamShape
      <4> QED
        BY <1>2, <1>5, <3>1, <4>1, <4>4, <4>5 DEF Told, Away
    <3>4. CASE Answer(r)
      <4>1. ~Shows(r)' /\ reader'[r] = "parked"
        BY <3>4 DEF Answer, Shows, StreamShape
      <4>2. ~Shows(r) => held'[r] = held[r]
        BY <3>4 DEF Answer
      <4>3. Shows(r) => held'[r] = candidate[r].redirecting /\ ~candidate[r].settled
        BY <3>4 DEF Answer, Settles, StreamShape
      <4>4. reader[r] = "answer"
        BY <3>4 DEF Answer
      <4>5. Rests(cursor[r]) => held'[r]
        BY <1>5, <4>2, <4>3, <4>4 DEF Told, Away
      <4> QED
        BY <3>1, <4>1, <4>5 DEF Told, Away
    <3>5. CASE Deliver(r)
      BY <1>3, <2>1, <3>5 DEF Deliver, StreamShape
    <3> QED
      BY <3>2, <3>3, <3>4, <3>5 DEF Reads
  <2>2. CASE Deliver(r)
    <3> DEFINE n == cursor[r]
    <3>1. n \in Nat /\ cursor'[r] = n + 1
      BY <2>2 DEF Deliver, StreamShape
    <3>2. visible'[r] <=> visible[r] \/ log[n + 1] # "quiet"
      BY <2>2, <3>1, Zenon DEF Deliver, StreamShape
    <3>3. reader'[r] = "page" /\ initial'[r] = initial[r] /\ held'[r] = held[r] /\ reader[r] = "page"
      BY <2>2 DEF Deliver
    <3>4. ~Shows(r)' => ~Shows(r) /\ log[n + 1] = "quiet"
      BY <3>2, <3>3 DEF Shows
    <3>5. log[n + 1] = "quiet" /\ Rests(n + 1) => Rests(n)
      <4> HIDE DEF n
      <4> QED
        BY <3>1, QuietRests DEF Rests
    <3>6. Rests(cursor[r])' <=> Rests(n + 1)
      BY <1>1, <3>1, Zenon DEF Rests, RowIs
    <3> QED
      BY <1>5, <3>3, <3>4, <3>5, <3>6 DEF Told, Away
  <2> QED
    BY <2>1, <2>2 DEF Reads, ReadPage, ReadOn, EndPage, Answer, Wake
<1>8. ReaderGood'
  <2>1. \A q \in Readers \ {r} :
          /\ reader'[q] = reader[q] /\ woken'[q] = woken[q] /\ cursor'[q] = cursor[q]
          /\ upto'[q] = upto[q] /\ full'[q] = full[q] /\ visible'[q] = visible[q]
          /\ initial'[q] = initial[q] /\ candidate'[q] = candidate[q] /\ held'[q] = held[q]
    <3>1. CASE ReadPage(r) \/ Deliver(r)
      BY <3>1 DEF ReadPage, Deliver, StreamShape
    <3>2. CASE ReadOn(r) \/ EndPage(r) \/ Wake(r)
      BY <3>2 DEF ReadOn, EndPage, Forgets, Wake, StreamShape
    <3>3. CASE Answer(r)
      BY <3>3 DEF Answer, StreamShape
    <3> QED
      BY <3>1, <3>2, <3>3 DEF Reads
  <2> QED
    BY <1>1, <1>6, <1>7, <2>1, OtherReaders
<1>9. OpenReaders' = OpenReaders
  BY <1>2 DEF OpenReaders, Away
<1>10. Shares'
  BY <1>1, <1>9 DEF Shares
<1> QED
  BY <1>4, <1>8, <1>10

\* Every step of the store and of the readers keeps the invariant.
LEMMA StreamStepInv == StreamInv /\ [StreamNext]_streamVars => StreamInv'
<1> SUFFICES ASSUME StreamInv, [StreamNext]_streamVars PROVE StreamInv'
  OBVIOUS
<1>1. CASE UNCHANGED streamVars
  <2>1. OpenReaders' = OpenReaders
    BY <1>1 DEF OpenReaders, Away, streamVars
  <2>2. ReaderGood'
    BY <1>1, SameReader DEF streamVars, store, watch, page, StreamInv, ReaderGood
  <2> QED
    BY <1>1, <2>1, <2>2 DEF streamVars, store, watch, page, StreamInv, StreamShape, Shares
<1>2. CASE Commit \/ Progress
  BY <1>2, NotifyKeeps
<1>3. ASSUME NEW r \in Readers, Open(r) PROVE StreamInv'
  BY <1>3, OpenKeeps
<1>4. ASSUME NEW r \in Readers, Close(r) PROVE StreamInv'
  BY <1>4, EndKeeps DEF Close
<1>5. ASSUME NEW r \in Readers, AnswerFinally(r) PROVE StreamInv'
  BY <1>5, EndKeeps DEF AnswerFinally, Away
<1>6. ASSUME NEW r \in Readers, Reads(r) PROVE StreamInv'
  BY <1>6, ReadsKeep
<1>7. CASE RedirectBegins \/ RedirectEnds
  BY <1>7, RedirectKeeps
<1> QED
  BY <1>1, <1>2, <1>3, <1>4, <1>5, <1>6, <1>7 DEF StreamNext, Reads

\* The inductive invariant of the streams (EventedRuntimeStore, subscribe_task_ui).
THEOREM StreamInvariance == StreamSpec => []StreamInv
<1> QED
  BY StreamInitInv, StreamStepInv, PTL DEF StreamSpec

\* "A commit between read and wait cannot be lost": a reader that nothing will
\* wake has delivered the whole log, and has been told how the Task rests unless
\* its last snapshot said that a redirect was pending (evented_runtime_store.py,
\* subscribe_task_ui).
THEOREM SleepersHaveReadAll == StreamSpec => []SleepersMissNothing
<1>1. StreamInv => SleepersAreCaughtUp
  BY DEF StreamInv, ReaderGood, CaughtUp, SleepersAreCaughtUp
<1>2. StreamInv => SleepersKnowTheEnd
  <2> SUFFICES ASSUME StreamInv, NEW r \in Readers, reader[r] = "parked", ~woken[r],
                      Rests(Len(log))
               PROVE  held[r]
    BY DEF SleepersKnowTheEnd
  <2>1. cursor[r] = Len(log) /\ Told(r)
    BY <1>1 DEF SleepersAreCaughtUp, StreamInv, ReaderGood
  <2> QED
    BY <2>1 DEF Told, Away
<1> QED
  BY <1>1, <1>2, StreamInvariance, PTL DEF SleepersMissNothing

\* No snapshot is sent beyond what was delivered, whatever is committed
\* while frames are being sent (subscribe_task_ui).
THEOREM SnapshotsFollowEvents == StreamSpec => []SnapshotNeverAhead
<1>1. StreamInv => SnapshotNeverAhead
  BY DEF StreamInv, StreamShape, ReaderGood, Within, SnapshotNeverAhead
<1> QED
  BY <1>1, StreamInvariance, PTL

\* Connections that come and go in any order leave every open one watching the
\* signal the store notifies, counted once (EventedRuntimeStore.watch).
THEOREM WatchersAreCounted == StreamSpec => []WatchersShareSignal
<1>1. StreamInv => WatchersShareSignal
  BY DEF StreamInv, Shares, OpenReaders, WatchersShareSignal
<1> QED
  BY <1>1, StreamInvariance, PTL

-----------------------------------------------------------------------------
(* MCP servers, the sessions.  A session is opened under the lock of its   *)
(* server, by a seeker that found no client and no closed manager there.   *)
(* From then on somebody answers for it: the seeker that opens it, the     *)
(* manager that registered it, or the close task that took it; and the     *)
(* close task takes what there is only when it has been through every      *)
(* lock of a manager that opens nothing any more.                          *)

\* The types; calls are apart.
ServersShape ==
  /\ started \in BOOLEAN /\ closed \in BOOLEAN /\ failed \in BOOLEAN /\ cut \in BOOLEAN
  /\ shown \subseteq Servers /\ passed \subseteq Servers
  /\ start \in {"idle", "waiting", "stopping", "returned", "raised"}
  /\ host \in {"idle", "stopping", "returned", "raised"}
  /\ stopper \in {"none", "born", "joining", "locking", "closing", "over"}
  /\ doomed \subseteq Seekers /\ closing \subseteq Seekers
  /\ clients \in [Servers -> Seekers \cup {None}]
  /\ target \in [Seekers -> Servers \cup {None}]
  /\ pc \in [Seekers -> Places]
  /\ told \in [Seekers -> {"no", "timeout", "cancel"}]
  /\ session \in [Seekers -> {"none", "over"} \cup Alive]
  /\ fault \in [Seekers -> {"none", "error", "cancelled"}]

\* Who goes for a server has one, and so has what is registered for it.
Aims ==
  /\ \A s \in Servers : target[s] = s
  /\ \A k \in Seekers : pc[k] # "idle" => target[k] \in Servers
  /\ \A s \in Servers : clients[s] # None => target[clients[s]] = s
  /\ start = "idle" => \A s \in Servers : pc[s] = "idle"

\* Nobody but its seeker knows of a session.
Unshared(k) == k \notin closing /\ k \notin doomed /\ \A s \in Servers : clients[s] # k

\* Before the lock there is no session.
Fresh(k) == pc[k] \in {"idle", "wants"} => session[k] = "none" /\ Unshared(k)

\* Inside the factory there is one nobody knows of, and no client beside it.
BeingOpened(k) ==
  pc[k] = "opening" =>
    /\ Unshared(k)
    /\ clients[target[k]] = None
    /\ session[k] = "breaking" => fault[k] = "error"

\* The connection broke before the factory looked at it.
BrokeEarly(k) == session[k] = "breaking" /\ k \notin closing /\ fault[k] = "error"

\* Who answers for a session.
Accounted(k) ==
  session[k] \in Alive =>
    \/ pc[k] \in {"opening", "unwinding", "disposing"}
    \/ target[k] \in Servers /\ clients[target[k]] = k
    \/ k \in doomed
    \/ BrokeEarly(k)

SeekersGood == \A k \in Seekers : Fresh(k) /\ BeingOpened(k) /\ Accounted(k)

LockHeldOnce ==
  \A j, k \in Seekers :
    j # k /\ target[j] = target[k] => ~(pc[j] \in Holding /\ pc[k] \in Holding)

\* How far the stop is, and what that rules out.
ShutDown ==
  /\ closed <=> stopper \in {"locking", "closing", "over"}
  /\ closed => StartupsOver
  /\ stopper # "none" => start # "idle"
  /\ \A s \in passed : closed /\ Free(s)
  /\ stopper \in {"closing", "over"} => passed = Servers /\ \A s \in Servers : clients[s] = None
  /\ doomed # {} => stopper = "closing"
  /\ start = "raised" \/ host \in {"returned", "raised"} => stopper = "over"

ServersInv ==
  ServersShape /\ Aims /\ SeekersGood /\ LockHeldOnce /\ OneSessionPerServer /\ ShutDown

\* Nothing is started and nobody has asked for a client.
LEMMA ServersInitInv == ServersInit => ServersInv
<1> SUFFICES ASSUME ServersInit PROVE ServersInv
  OBVIOUS
<1> USE ServerAssumption, NoneAssumption DEF ServersInit, Seekers
<1>1. ServersShape
  BY DEF ServersShape, Places
<1>2. Aims
  BY DEF Aims
<1>3. SeekersGood
  BY DEF SeekersGood, Fresh, BeingOpened, Accounted, Unshared, Alive
<1>4. LockHeldOnce /\ OneSessionPerServer
  BY DEF LockHeldOnce, OneSessionPerServer, Holding
<1>5. ShutDown
  BY DEF ShutDown
<1> QED
  BY <1>1, <1>2, <1>3, <1>4, <1>5 DEF ServersInv

\* The callers of start() and stop(), a cancellation, a timeout and a business
\* call leave locks, clients and sessions alone.
LEMMA CallersKeep ==
  ASSUME ServersInv, ServersShape',
         UNCHANGED <<closed, clients, target, pc, session, fault, closing, passed, doomed>>,
         \/ stopper' = stopper
         \/ start # "idle" /\ stopper \in {"none", "born"} /\ stopper' \in {"born", "joining"},
         start' = "idle" => start = "idle",
         start' = "raised" => start = "raised" \/ stopper = "over",
         host' \in {"returned", "raised"} => host \in {"returned", "raised"} \/ stopper = "over",
         start' = start \/ start' # "idle"
  PROVE  ServersInv'
<1> USE DEF ServersInv
<1>1. Aims'
  BY DEF Aims
<1>2. SeekersGood'
  BY DEF SeekersGood, Fresh, BeingOpened, Accounted, Unshared, BrokeEarly
<1>3. LockHeldOnce' /\ OneSessionPerServer'
  BY DEF LockHeldOnce, OneSessionPerServer
<1>4. ShutDown'
  BY DEF ShutDown, StartupsOver, Free
<1> QED
  BY <1>1, <1>2, <1>3, <1>4

\* A seeker that leaves get_client, or the list or the closing after it, holds no
\* lock and stands for no session any more.
LEMMA LeavingKeeps ==
  ASSUME ServersInv, NEW k \in Seekers,
         NEW place \in Places \ (Holding \cup {"idle", "wants"}),
         pc[k] \notin {"idle"} \cup Ended,
         pc[k] \in {"opening", "unwinding", "disposing"} /\ session[k] \in Alive => BrokeEarly(k),
         pc' = [pc EXCEPT ![k] = place],
         told' \in [Seekers -> {"no", "timeout", "cancel"}], shown' \subseteq Servers,
         UNCHANGED <<AroundSeeker, clients, target, sessionVars>>
  PROVE  ServersInv'
<1> USE DEF ServersInv, AroundSeeker, closerVars, sessionVars
<1>1. ServersShape'
  <2>1. pc' \in [Seekers -> Places]
    BY DEF ServersShape
  <2> QED
    BY <2>1 DEF ServersShape
<1>2. Aims'
  BY DEF Aims, ServersShape, Seekers
<1>3. SeekersGood'
  BY DEF SeekersGood, Fresh, BeingOpened, Accounted, Unshared, BrokeEarly, ServersShape, Holding
<1>4. LockHeldOnce' /\ OneSessionPerServer'
  BY DEF LockHeldOnce, OneSessionPerServer, ServersShape
<1>5. ShutDown'
  <2>1. StartupsOver => StartupsOver'
    BY DEF StartupsOver, ServersShape
  <2>2. \A s \in Servers : Free(s) => Free(s)'
    BY DEF Free, ServersShape
  <2> QED
    BY <2>1, <2>2 DEF ShutDown, ServersShape
<1> QED
  BY <1>1, <1>2, <1>3, <1>4, <1>5

\* Where get_client leaves a seeker.
LEMMA LeavePlace ==
  ASSUME ServersShape, NEW k \in Seekers, NEW how, Leave(k, how)
  PROVE  /\ \E place \in Places \ (Holding \cup {"idle", "wants"}) : pc' = [pc EXCEPT ![k] = place]
         /\ told' \in [Seekers -> {"no", "timeout", "cancel"}]
BY DEF Leave, Goto, Places, Holding, Ended, ServersShape

\* Without a session of its own that lives on, any way out of get_client is the
\* same to the sessions.
LEMMA LeaveKeeps ==
  ASSUME ServersInv, NEW k \in Seekers, NEW how, Leave(k, how),
         pc[k] \notin {"idle"} \cup Ended,
         pc[k] \in {"opening", "unwinding", "disposing"} /\ session[k] \in Alive => BrokeEarly(k),
         UNCHANGED <<AroundSeeker, shown, clients, target, sessionVars>>
  PROVE  ServersInv'
<1>1. PICK place \in Places \ (Holding \cup {"idle", "wants"}) : pc' = [pc EXCEPT ![k] = place]
  BY LeavePlace DEF ServersInv
<1>2. told' \in [Seekers -> {"no", "timeout", "cancel"}] /\ shown' \subseteq Servers
  BY LeavePlace DEF ServersInv, ServersShape
<1> QED
  BY <1>1, <1>2, LeavingKeeps

\* A session is opened where there is none: the lock is free, nothing is
\* registered and the manager is open (MCPClientManager.get_client).
LEMMA OpensKeeps == ASSUME ServersInv, NEW k \in Seekers, Opens(k) PROVE ServersInv'
<1> USE DEF ServersInv, AroundSeeker, closerVars, Opens, HasLock, MayOpen, Goto
<1>1. ServersShape'
  BY DEF ServersShape, Places, Holding, Alive
<1>2. Aims'
  BY DEF Aims, ServersShape, Seekers
<1>3. ~closed /\ doomed = {} /\ passed = {} /\ stopper \notin {"locking", "closing", "over"}
  BY DEF ShutDown, ServersShape
<1>4. Unshared(k) /\ target[k] \in Servers /\ clients[target[k]] = None
  BY DEF SeekersGood, Fresh, Aims
<1>5. SeekersGood'
  <2>1. ASSUME NEW q \in Seekers \ {k} PROVE Fresh(q)' /\ BeingOpened(q)' /\ Accounted(q)'
    BY <2>1 DEF SeekersGood, Fresh, BeingOpened, Accounted, Unshared, BrokeEarly, ServersShape
  <2>2. Fresh(k)' /\ BeingOpened(k)' /\ Accounted(k)'
    BY <1>4 DEF Fresh, BeingOpened, Accounted, Unshared, ServersShape
  <2> QED
    BY <2>1, <2>2 DEF SeekersGood
<1>6. LockHeldOnce'
  BY DEF LockHeldOnce, ServersShape, Free
<1>7. OneSessionPerServer'
  <2>1. ASSUME NEW q \in Seekers \ {k}, target[q] = target[k] PROVE session[q] \notin {"entering", "live"}
    <3>1. pc[q] \notin Holding
      BY <2>1 DEF Free
    <3>2. session[q] \in Alive => BrokeEarly(q)
      BY <1>3, <1>4, <2>1, <3>1, NoneAssumption DEF SeekersGood, Accounted, Holding, Seekers
    <3> QED
      BY <3>2 DEF BrokeEarly, Alive
  <2> QED
    BY <2>1 DEF OneSessionPerServer, ServersShape
<1>8. ShutDown'
  BY <1>3 DEF ShutDown
<1> QED
  BY <1>1, <1>2, <1>5, <1>6, <1>7, <1>8

\* The session the factory returns is registered, or disposed of by a manager that
\* was closed meanwhile (get_client).
LEMMA FactoryReturnsKeeps == ASSUME ServersInv, NEW k \in Seekers, FactoryReturns(k) PROVE ServersInv'
<1> USE DEF ServersInv, AroundSeeker, closerVars
<1>1. pc[k] = "opening" /\ session[k] = "live" /\ target[k] \in Servers
  BY DEF FactoryReturns, Aims
<1>2. CASE closed
  <2>1. /\ pc' = [pc EXCEPT ![k] = "disposing"] /\ closing' = closing \cup {k}
        /\ UNCHANGED <<started, start, host, cut, stopper, passed, doomed, failed, closed, callVars,
                       shown, clients, target, told, session, fault>>
    BY <1>2 DEF FactoryReturns, Goto
  <2>2. ServersShape'
    BY <2>1 DEF ServersShape, Places, Holding
  <2>3. Aims'
    BY <1>1, <2>1 DEF Aims, ServersShape, Seekers
  <2>4. SeekersGood'
    <3>1. ASSUME NEW q \in Seekers \ {k} PROVE Fresh(q)' /\ BeingOpened(q)' /\ Accounted(q)'
      BY <2>1, <3>1 DEF SeekersGood, Fresh, BeingOpened, Accounted, Unshared, BrokeEarly, ServersShape
    <3>2. Fresh(k)' /\ BeingOpened(k)' /\ Accounted(k)'
      BY <2>1 DEF Fresh, BeingOpened, Accounted, ServersShape
    <3> QED
      BY <3>1, <3>2 DEF SeekersGood
  <2>5. LockHeldOnce' /\ OneSessionPerServer'
    BY <1>1, <2>1 DEF LockHeldOnce, OneSessionPerServer, ServersShape, Holding
  <2>6. ShutDown'
    <3>1. StartupsOver => StartupsOver'
      BY <1>1, <2>1 DEF StartupsOver, ServersShape, Ended
    <3>2. \A s \in Servers : Free(s) => Free(s)'
      BY <1>1, <2>1 DEF Free, ServersShape, Holding
    <3> QED
      BY <2>1, <3>1, <3>2 DEF ShutDown, ServersShape
  <2> QED
    BY <2>2, <2>3, <2>4, <2>5, <2>6
<1>3. CASE ~closed
  <2>1. Leave(k, "client") /\ clients' = [clients EXCEPT ![target[k]] = k]
        /\ UNCHANGED <<started, start, host, cut, stopper, passed, doomed, failed, closed, callVars,
                       shown, target, session, fault, closing>>
    BY <1>3 DEF FactoryReturns
  <2>2. PICK place \in Places \ (Holding \cup {"idle", "wants"}) : pc' = [pc EXCEPT ![k] = place]
    BY <2>1, LeavePlace
  <2>3. told' \in [Seekers -> {"no", "timeout", "cancel"}]
    BY <2>1, LeavePlace
  <2>4. ServersShape'
    <3>1. pc' \in [Seekers -> Places]
      BY <2>2 DEF ServersShape
    <3>2. clients' \in [Servers -> Seekers \cup {None}]
      BY <1>1, <2>1 DEF ServersShape
    <3> QED
      BY <2>1, <2>3, <3>1, <3>2 DEF ServersShape
  <2>5. Aims'
    BY <1>1, <2>1, <2>2 DEF Aims, ServersShape, Seekers
  <2>6. doomed = {} /\ passed = {} /\ stopper \notin {"locking", "closing", "over"}
    BY <1>3 DEF ShutDown, ServersShape
  <2>7. SeekersGood'
    <3>1. ASSUME NEW q \in Seekers \ {k} PROVE Fresh(q)' /\ BeingOpened(q)' /\ Accounted(q)'
      <4>1. pc[q] = "opening" => target[q] # target[k]
        BY <1>1, <3>1 DEF LockHeldOnce, Holding
      <4>2. clients[target[k]] = None
        BY <1>1 DEF SeekersGood, BeingOpened
      <4>3. Unshared(q) => Unshared(q)'
        BY <2>1, <3>1 DEF Unshared, ServersShape
      <4>4. Fresh(q)'
        BY <2>1, <2>2, <3>1, <4>3 DEF SeekersGood, Fresh, ServersShape
      <4>5. BeingOpened(q)'
        BY <2>1, <2>2, <3>1, <4>1, <4>3 DEF SeekersGood, BeingOpened, ServersShape, Aims
      <4>6. Accounted(q)'
        BY <2>1, <2>2, <3>1, <4>2, NoneAssumption
           DEF SeekersGood, Accounted, BrokeEarly, ServersShape, Seekers
      <4> QED
        BY <4>4, <4>5, <4>6
    <3>2. Fresh(k)' /\ BeingOpened(k)' /\ Accounted(k)'
      BY <1>1, <2>1, <2>2 DEF Fresh, BeingOpened, Accounted, ServersShape, Holding
    <3> QED
      BY <3>1, <3>2 DEF SeekersGood
  <2>8. LockHeldOnce' /\ OneSessionPerServer'
    BY <2>1, <2>2 DEF LockHeldOnce, OneSessionPerServer, ServersShape
  <2>9. ShutDown'
    BY <1>3, <2>1, <2>6 DEF ShutDown
  <2> QED
    BY <2>4, <2>5, <2>7, <2>8, <2>9
<1> QED
  BY <1>2, <1>3

\* A cancelled factory waits for its owner, which it has cancelled.
LEMMA FactoryCancelledKeeps ==
  ASSUME ServersInv, NEW k \in Seekers, FactoryCancelled(k) PROVE ServersInv'
<1> USE DEF ServersInv, AroundSeeker, closerVars
<1>1. /\ pc[k] = "opening" /\ target[k] \in Servers
      /\ pc' = [pc EXCEPT ![k] = "unwinding"]
      /\ UNCHANGED <<started, start, host, cut, stopper, passed, doomed, failed, closed,
                     shown, clients, target, told, closing>>
  BY DEF FactoryCancelled, Aims, Goto
<1>2. \/ UNCHANGED <<session, fault>>
      \/ /\ \E d \in {"breaking", "failing"} : session' = [session EXCEPT ![k] = d]
         /\ fault' = [fault EXCEPT ![k] = "cancelled"]
  BY DEF FactoryCancelled, OwnerCancelled
<1>3. ServersShape'
  <2>1. pc' \in [Seekers -> Places]
    BY <1>1 DEF ServersShape, Places, Holding
  <2>2. /\ session' \in [Seekers -> {"none", "over"} \cup Alive]
        /\ fault' \in [Seekers -> {"none", "error", "cancelled"}]
    BY <1>2 DEF ServersShape, Alive
  <2> QED
    BY <1>1, <2>1, <2>2 DEF ServersShape
<1>4. Aims'
  BY <1>1 DEF Aims, ServersShape, Seekers
<1>5. SeekersGood'
  <2>1. ASSUME NEW q \in Seekers \ {k} PROVE Fresh(q)' /\ BeingOpened(q)' /\ Accounted(q)'
    <3>1. pc'[q] = pc[q] /\ session'[q] = session[q] /\ fault'[q] = fault[q]
      BY <1>1, <1>2, <2>1 DEF ServersShape
    <3> QED
      BY <1>1, <2>1, <3>1 DEF SeekersGood, Fresh, BeingOpened, Accounted, Unshared, BrokeEarly
  <2>2. Fresh(k)' /\ BeingOpened(k)' /\ Accounted(k)'
    BY <1>1 DEF Fresh, BeingOpened, Accounted, ServersShape
  <2> QED
    BY <2>1, <2>2 DEF SeekersGood
<1>6. LockHeldOnce'
  BY <1>1 DEF LockHeldOnce, ServersShape, Holding
<1>7. OneSessionPerServer'
  <2>1. \A q \in Seekers : session'[q] \in {"entering", "live"} => session[q] \in {"entering", "live"}
    BY <1>2 DEF ServersShape
  <2> QED
    BY <1>1, <2>1 DEF OneSessionPerServer
<1>8. ShutDown'
  <2>1. StartupsOver => StartupsOver'
    BY <1>1 DEF StartupsOver, ServersShape, Ended
  <2>2. \A s \in Servers : Free(s) => Free(s)'
    BY <1>1 DEF Free, ServersShape, Holding
  <2> QED
    BY <1>1, <2>1, <2>2 DEF ShutDown, ServersShape
<1> QED
  BY <1>3, <1>4, <1>5, <1>6, <1>7, <1>8

\* What the owner task of a session does, or the server to it.
OwnerStep(k) == Initialized(k) \/ InitFails(k) \/ Breaks(k) \/ OwnerStops(k) \/ TornDown(k)

\* A session that breaks, stops or is over is nobody's burden more than before,
\* and none comes to life but by its own initialization (_WrappedMCPClient._run).
LEMMA OwnerKeeps == ASSUME ServersInv, NEW k \in Seekers, OwnerStep(k) PROVE ServersInv'
<1> USE DEF ServersInv, AroundSession, providerVars, closerVars, managerVars, seekerVars
<1>1. UNCHANGED <<started, shown, start, host, cut, stopper, passed, doomed, failed, closed, clients,
                  target, pc, told, closing>>
  BY DEF OwnerStep, Initialized, InitFails, Breaks, OwnerStops, TornDown
<1>2. \A q \in Seekers \ {k} : session'[q] = session[q] /\ fault'[q] = fault[q]
  BY DEF OwnerStep, Initialized, InitFails, Breaks, OwnerStops, TornDown, ServersShape
<1>3. session[k] \in Alive /\ session'[k] \in Alive \cup {"over"}
  BY DEF OwnerStep, Initialized, InitFails, Breaks, OwnerStops, TornDown, ServersShape, Alive
<1>4. ServersShape'
  <2>1. /\ session' \in [Seekers -> {"none", "over"} \cup Alive]
        /\ fault' \in [Seekers -> {"none", "error", "cancelled"}]
    BY DEF OwnerStep, Initialized, InitFails, Breaks, OwnerStops, TornDown, ServersShape, Alive
  <2> QED
    BY <1>1, <2>1 DEF ServersShape
<1>5. Aims'
  BY <1>1 DEF Aims
<1>6. SeekersGood'
  <2>1. ASSUME NEW q \in Seekers \ {k} PROVE Fresh(q)' /\ BeingOpened(q)' /\ Accounted(q)'
    BY <1>1, <1>2, <2>1 DEF SeekersGood, Fresh, BeingOpened, Accounted, Unshared, BrokeEarly
  <2>2. Fresh(k)'
    BY <1>1, <1>3 DEF SeekersGood, Fresh, Alive
  <2>3. BeingOpened(k)'
    BY <1>1 DEF SeekersGood, BeingOpened, Unshared, OwnerStep, Initialized, InitFails, Breaks,
       OwnerStops, TornDown, ServersShape
  <2>4. Accounted(k)'
    <3>1. BrokeEarly(k) => session'[k] = "over"
      BY DEF BrokeEarly, OwnerStep, Initialized, InitFails, Breaks, OwnerStops, TornDown, ServersShape
    <3> QED
      BY <1>1, <1>3, <3>1 DEF SeekersGood, Accounted, Alive
  <2> QED
    BY <2>1, <2>2, <2>3, <2>4 DEF SeekersGood
<1>7. OneSessionPerServer'
  <2>1. session'[k] \in {"entering", "live"} => session[k] \in {"entering", "live"}
    BY DEF OwnerStep, Initialized, InitFails, Breaks, OwnerStops, TornDown, ServersShape
  <2> QED
    BY <1>1, <1>2, <2>1 DEF OneSessionPerServer
<1>8. LockHeldOnce' /\ ShutDown'
  BY <1>1 DEF LockHeldOnce, ShutDown, StartupsOver, Free
<1> QED
  BY <1>4, <1>5, <1>6, <1>7, <1>8

\* A failed startup takes the lock to close its client: whoever opened that one
\* has left the factory (MCPClientManager.close_server).
LEMMA ClearBeginsKeeps == ASSUME ServersInv, NEW s \in Servers, ClearBegins(s) PROVE ServersInv'
<1> USE DEF ServersInv, AroundSeeker, closerVars
<1>1. pc[s] = "clearing" /\ target[s] = s /\ Free(s) /\ s \in Seekers
  BY DEF ClearBegins, Aims, Seekers
<1>2. CASE clients[s] = None
  <2>1. Over(s) \in Places \ (Holding \cup {"idle", "wants"})
    BY DEF Over, Places, Holding, Ended
  <2> QED
    BY <1>1, <1>2, <2>1, LeavingKeeps
       DEF ClearBegins, Goto, sessionVars, ServersShape, Ended
<1>3. CASE clients[s] # None
  <2>1. /\ pc' = [pc EXCEPT ![s] = "closing"] /\ closing' = closing \cup {clients[s]}
        /\ UNCHANGED <<started, start, host, cut, stopper, passed, doomed, failed, closed,
                       shown, clients, target, told, session, fault>>
    BY <1>3 DEF ClearBegins, Goto
  <2>2. clients[s] \in Seekers /\ target[clients[s]] = s
    BY <1>3 DEF ServersShape, Aims
  <2>3. ServersShape'
    <3>1. pc' \in [Seekers -> Places]
      BY <2>1 DEF ServersShape, Places, Holding
    <3>2. closing' \subseteq Seekers
      BY <2>1, <2>2 DEF ServersShape
    <3> QED
      BY <2>1, <3>1, <3>2 DEF ServersShape
  <2>4. Aims'
    BY <1>1, <2>1 DEF Aims, ServersShape, Seekers
  <2>5. SeekersGood'
    <3> SUFFICES ASSUME NEW q \in Seekers PROVE Fresh(q)' /\ BeingOpened(q)' /\ Accounted(q)'
      BY DEF SeekersGood
    <3>1. Unshared(q) => Unshared(q)'
      BY <2>1 DEF Unshared
    <3>2. pc'[q] = IF q = s THEN "closing" ELSE pc[q]
      BY <1>1, <2>1 DEF ServersShape
    <3>3. Fresh(q)' /\ BeingOpened(q)'
      BY <2>1, <3>1, <3>2 DEF SeekersGood, Fresh, BeingOpened
    <3>4. Accounted(q)'
      BY <1>1, <2>1, <2>2, <3>2 DEF SeekersGood, Accounted, BrokeEarly
    <3> QED
      BY <3>3, <3>4
  <2>6. LockHeldOnce'
    BY <1>1, <2>1 DEF LockHeldOnce, Free, ServersShape
  <2>7. OneSessionPerServer'
    BY <2>1 DEF OneSessionPerServer
  <2>8. ~closed
    BY <1>1 DEF ShutDown, StartupsOver, Ended
  <2>9. ShutDown'
    BY <2>1, <2>8 DEF ShutDown
  <2> QED
    BY <2>3, <2>4, <2>5, <2>6, <2>7, <2>9
<1> QED
  BY <1>2, <1>3

\* A client is forgotten only when its session is over (MCPClientManager.close_server).
LEMMA ClearedKeeps == ASSUME ServersInv, NEW s \in Servers, Cleared(s) PROVE ServersInv'
<1> USE DEF ServersInv, AroundSeeker, closerVars, sessionVars
<1>1. pc[s] = "closing" /\ target[s] = s /\ s \in Seekers /\ session[clients[s]] = "over"
  BY DEF Cleared, OwnerJoined, Aims, Seekers
<1>2. UNCHANGED <<started, start, host, cut, stopper, passed, doomed, failed, closed, shown, target,
                  told, session, fault, closing>>
  BY DEF Cleared
<1>3. PICK place \in Ended : pc' = [pc EXCEPT ![s] = place]
  BY DEF Cleared, Goto, Over, Ended
<1>4. clients' = clients \/ clients' = [clients EXCEPT ![s] = None]
  BY DEF Cleared
<1>5. ServersShape'
  <2>1. pc' \in [Seekers -> Places]
    BY <1>3 DEF ServersShape, Places
  <2>2. clients' \in [Servers -> Seekers \cup {None}]
    BY <1>4 DEF ServersShape
  <2> QED
    BY <1>2, <2>1, <2>2 DEF ServersShape
<1>6. Aims'
  BY <1>1, <1>2, <1>3, <1>4 DEF Aims, ServersShape, Seekers
<1>7. SeekersGood'
  <2> SUFFICES ASSUME NEW q \in Seekers PROVE Fresh(q)' /\ BeingOpened(q)' /\ Accounted(q)'
    BY DEF SeekersGood
  <2>1. Unshared(q) => Unshared(q)'
    BY <1>2, <1>4, NoneAssumption DEF Unshared, ServersShape, Seekers
  <2>2. pc'[q] = IF q = s THEN place ELSE pc[q]
    BY <1>1, <1>3 DEF ServersShape
  <2>3. Fresh(q)' /\ BeingOpened(q)'
    BY <1>2, <1>4, <2>1, <2>2 DEF SeekersGood, Fresh, BeingOpened, ServersShape, Ended, Aims
  <2>4. Accounted(q)'
    BY <1>1, <1>2, <1>4, <2>2 DEF SeekersGood, Accounted, BrokeEarly, ServersShape, Alive
  <2> QED
    BY <2>3, <2>4
<1>8. LockHeldOnce' /\ OneSessionPerServer'
  BY <1>2, <1>3 DEF LockHeldOnce, OneSessionPerServer, ServersShape, Ended, Holding
<1>9. ~closed
  BY <1>1 DEF ShutDown, StartupsOver, Ended
<1>10. ShutDown'
  BY <1>2, <1>9 DEF ShutDown
<1> QED
  BY <1>5, <1>6, <1>7, <1>8, <1>10

\* Every step of a seeker in get_client.
LEMMA SeekerKeeps == ASSUME ServersInv, NEW k \in Seekers, SeekerStep(k) PROVE ServersInv'
<1>1. CASE FindsClient(k) \/ FindsClosed(k) \/ WaitCancelled(k)
  BY <1>1, LeaveKeeps DEF FindsClient, FindsClosed, WaitCancelled, HasLock, Ended
<1>2. CASE FactoryRaises(k)
  <2>1. session[k] \in Alive => BrokeEarly(k)
    BY <1>2 DEF FactoryRaises, IsReady, Alive, BrokeEarly, ServersInv, SeekersGood, BeingOpened, Unshared
  <2> QED
    BY <1>2, <2>1, LeaveKeeps DEF FactoryRaises, Ended
<1>3. CASE FactoryUnwound(k) \/ Disposed(k)
  <2>1. session[k] \notin Alive
    BY <1>3 DEF FactoryUnwound, Disposed, OwnerJoined, Alive
  <2>2. PICK how \in {"error", "cancelled"} : Leave(k, how)
    BY <1>3 DEF FactoryUnwound, Disposed
  <2> QED
    BY <1>3, <2>1, <2>2, LeaveKeeps DEF FactoryUnwound, Disposed, Ended
<1> QED
  BY <1>1, <1>2, <1>3, OpensKeeps, FactoryReturnsKeeps, FactoryCancelledKeeps DEF SeekerStep

\* Every step of a startup task after get_client.
LEMMA StartupKeeps ==
  ASSUME ServersInv, NEW s \in Servers, StartupStep(s) \/ Lists(s) \/ ListingFails(s)
  PROVE  ServersInv'
<1>1. s \in Seekers
  BY DEF Seekers
<1>2. CASE ListingCancelled(s) \/ ListingFails(s)
  BY <1>1, <1>2, LeaveKeeps DEF ListingCancelled, ListingFails, Ended
<1>3. CASE Lists(s)
  <2>1. shown' \subseteq Servers
    BY <1>3 DEF Lists, ServersInv, ServersShape
  <2> QED
    BY <1>1, <1>3, <2>1, LeavingKeeps DEF Lists, Goto, Places, Holding, Ended, ServersInv, ServersShape
<1>4. CASE ClearCancelled(s)
  BY <1>1, <1>4, LeavingKeeps
     DEF ClearCancelled, Goto, Places, Holding, Ended, ServersInv, ServersShape
<1> QED
  BY <1>2, <1>3, <1>4, ClearBeginsKeeps, ClearedKeeps DEF StartupStep

\* Every step of the stop task and of the close task it waits for.  The first lock
\* is passed when no startup is left and nothing is opened any more, so that no
\* lock that was passed is taken again (MCPClientManager.aclose).
LEMMA CloserKeeps == ASSUME ServersInv, CloserStep PROVE ServersInv'
<1> USE DEF ServersInv, providerVars, managerVars, seekerVars, sessionVars
<1>1. CASE StopBegins
  <2>1. told' \in [Seekers -> {"no", "timeout", "cancel"}]
    BY <1>1 DEF StopBegins, ServersShape
  <2>2. ServersShape'
    BY <1>1, <2>1 DEF StopBegins, ServersShape
  <2>3. start # "idle"
    BY <1>1 DEF StopBegins, ShutDown
  <2> QED
    BY <1>1, <2>2, <2>3, CallersKeep DEF StopBegins
<1>2. CASE StopJoins
  <2>1. UNCHANGED <<started, shown, start, host, cut, passed, doomed, failed, clients, target, pc,
                    told, session, fault, closing>>
    BY <1>2 DEF StopJoins
  <2>2. ServersShape' /\ Aims'
    BY <1>2, <2>1 DEF StopJoins, ServersShape, Aims
  <2>3. SeekersGood' /\ LockHeldOnce' /\ OneSessionPerServer'
    BY <2>1 DEF SeekersGood, Fresh, BeingOpened, Accounted, Unshared, BrokeEarly, LockHeldOnce,
       OneSessionPerServer
  <2>4. ShutDown'
    BY <1>2, <2>1 DEF StopJoins, ShutDown, StartupsOver, Free
  <2> QED
    BY <2>2, <2>3, <2>4
<1>3. ASSUME NEW s \in Servers, PassLock(s) PROVE ServersInv'
  <2>1. UNCHANGED <<started, shown, start, host, cut, stopper, doomed, failed, closed, clients, target,
                    pc, told, session, fault, closing>>
    BY <1>3 DEF PassLock
  <2>2. ServersShape' /\ Aims'
    BY <1>3, <2>1 DEF PassLock, ServersShape, Aims
  <2>3. SeekersGood' /\ LockHeldOnce' /\ OneSessionPerServer'
    BY <2>1 DEF SeekersGood, Fresh, BeingOpened, Accounted, Unshared, BrokeEarly, LockHeldOnce,
       OneSessionPerServer
  <2>4. ShutDown'
    BY <1>3, <2>1 DEF PassLock, ShutDown, StartupsOver, Free
  <2> QED
    BY <2>2, <2>3, <2>4
<1>4. CASE TakeClients
  <2>1. /\ UNCHANGED <<started, shown, start, host, cut, passed, failed, closed, target, pc, told,
                       session, fault, closing>>
        /\ stopper = "locking" /\ stopper' = "closing" /\ passed = Servers
        /\ clients' = [s \in Servers |-> None]
    BY <1>4 DEF TakeClients
  <2>2. doomed' = {clients[s] : s \in Servers} \ {None}
    BY <1>4 DEF TakeClients
  <2>3. doomed' \subseteq Seekers /\ doomed = {}
    BY <2>1, <2>2 DEF ServersShape, ShutDown
  <2>4. ServersShape' /\ Aims'
    BY <2>1, <2>3 DEF ServersShape, Aims
  <2>5. SeekersGood'
    <3> SUFFICES ASSUME NEW k \in Seekers PROVE Fresh(k)' /\ BeingOpened(k)' /\ Accounted(k)'
      BY DEF SeekersGood
    <3>1. k # None /\ (Unshared(k) => Unshared(k)')
      BY <2>1, <2>2, NoneAssumption DEF Unshared, Seekers
    <3>2. Fresh(k)'
      BY <2>1, <3>1 DEF SeekersGood, Fresh
    <3>3. pc[k] # "opening"
      BY <2>1 DEF ShutDown, Free, Aims, Holding
    <3>4. BeingOpened(k)'
      BY <2>1, <3>3 DEF BeingOpened
    <3>5. Accounted(k)'
      BY <2>1, <2>2, <2>3, <3>1 DEF SeekersGood, Accounted, BrokeEarly
    <3> QED
      BY <3>2, <3>4, <3>5
  <2>6. LockHeldOnce' /\ OneSessionPerServer'
    BY <2>1 DEF LockHeldOnce, OneSessionPerServer
  <2>7. ShutDown'
    BY <2>1 DEF ShutDown, StartupsOver, Free
  <2> QED
    BY <2>4, <2>5, <2>6, <2>7
<1>5. ASSUME NEW k \in Seekers, CloseBegins(k) PROVE ServersInv'
  <2>1. /\ UNCHANGED <<started, shown, start, host, cut, stopper, passed, doomed, failed, closed,
                       clients, target, pc, told, session, fault>>
        /\ closing' = closing \cup {k} /\ k \in doomed
    BY <1>5 DEF CloseBegins, closerVars
  <2>2. ServersShape' /\ Aims'
    BY <2>1 DEF ServersShape, Aims
  <2>3. SeekersGood'
    BY <2>1 DEF SeekersGood, Fresh, BeingOpened, Accounted, Unshared, BrokeEarly
  <2>4. LockHeldOnce' /\ OneSessionPerServer' /\ ShutDown'
    BY <2>1 DEF LockHeldOnce, OneSessionPerServer, ShutDown, StartupsOver, Free
  <2> QED
    BY <2>2, <2>3, <2>4
<1>6. ASSUME NEW k \in Seekers, CloseEnds(k) PROVE ServersInv'
  <2>1. /\ UNCHANGED <<started, shown, start, host, cut, stopper, passed, closed,
                       clients, target, pc, told, session, fault, closing>>
        /\ doomed' = doomed \ {k} /\ session[k] = "over" /\ stopper = "closing"
    BY <1>6 DEF CloseEnds
  <2>2. failed' \in BOOLEAN
    BY <1>6, Zenon DEF CloseEnds
  <2>3. ServersShape' /\ Aims'
    BY <2>1, <2>2 DEF ServersShape, Aims
  <2>4. SeekersGood'
    BY <2>1 DEF SeekersGood, Fresh, BeingOpened, Accounted, Unshared, BrokeEarly, Alive
  <2>5. LockHeldOnce' /\ OneSessionPerServer' /\ ShutDown'
    BY <2>1 DEF LockHeldOnce, OneSessionPerServer, ShutDown, StartupsOver, Free
  <2> QED
    BY <2>3, <2>4, <2>5
<1>7. CASE StopEnds
  <2>1. /\ UNCHANGED <<started, start, host, cut, passed, doomed, failed, closed,
                       clients, target, pc, told, session, fault, closing>>
        /\ stopper = "closing" /\ stopper' = "over" /\ doomed = {} /\ shown' = {}
    BY <1>7 DEF StopEnds
  <2>2. ServersShape' /\ Aims'
    BY <2>1 DEF ServersShape, Aims
  <2>3. SeekersGood' /\ LockHeldOnce' /\ OneSessionPerServer'
    BY <2>1 DEF SeekersGood, Fresh, BeingOpened, Accounted, Unshared, BrokeEarly, LockHeldOnce,
       OneSessionPerServer
  <2>4. ShutDown'
    BY <2>1 DEF ShutDown, StartupsOver, Free
  <2> QED
    BY <2>2, <2>3, <2>4
<1> QED
  BY <1>1, <1>2, <1>3, <1>4, <1>5, <1>6, <1>7 DEF CloserStep

\* start() sends every startup task off, each for its own server.
LEMMA StartProviderKeeps == ASSUME ServersInv, StartProvider PROVE ServersInv'
<1> USE DEF ServersInv, closerVars, managerVars, sessionVars
<1>1. /\ UNCHANGED <<shown, host, cut, stopper, passed, doomed, failed, closed, clients, target, told,
                     session, fault, closing>>
      /\ start = "idle" /\ start' = "waiting" /\ started' = TRUE
      /\ pc' = [k \in Seekers |-> IF k \in Servers THEN "wants" ELSE pc[k]]
  BY DEF StartProvider
<1>2. /\ \A k \in Seekers : pc'[k] = pc[k] \/ (k \in Servers /\ pc[k] = "idle" /\ pc'[k] = "wants")
      /\ pc' \in [Seekers -> Places]
  BY <1>1 DEF Aims, ServersShape, Places
<1>3. ServersShape'
  BY <1>1, <1>2 DEF ServersShape
<1>4. Aims'
  BY <1>1, <1>2 DEF Aims
<1>5. SeekersGood'
  BY <1>1, <1>2 DEF SeekersGood, Fresh, BeingOpened, Accounted, Unshared, BrokeEarly
<1>6. LockHeldOnce' /\ OneSessionPerServer'
  BY <1>1, <1>2 DEF LockHeldOnce, OneSessionPerServer, Holding
<1>7. ShutDown'
  BY <1>1 DEF ShutDown, ServersShape
<1> QED
  BY <1>3, <1>4, <1>5, <1>6, <1>7

\* A direct caller of get_client goes for a server.
LEMMA UserSeeksKeeps ==
  ASSUME ServersInv, NEW u \in Users, NEW s \in Servers, UserSeeks(u, s) PROVE ServersInv'
<1> USE DEF ServersInv, AroundSeeker, closerVars, sessionVars
<1>1. /\ UNCHANGED <<started, shown, start, host, cut, stopper, passed, doomed, failed, closed, clients,
                     told, session, fault, closing>>
      /\ target' = [target EXCEPT ![u] = s] /\ pc' = [pc EXCEPT ![u] = "wants"]
      /\ pc[u] = "idle" /\ ~closed
  BY DEF UserSeeks, Goto
<1>2. u \in Seekers /\ u \notin Servers
  BY ServerAssumption DEF Seekers
<1>3. session[u] = "none" /\ Unshared(u)
  BY <1>1, <1>2 DEF SeekersGood, Fresh
<1>4. ServersShape'
  BY <1>1 DEF ServersShape, Places
<1>5. Aims'
  BY <1>1, <1>2, <1>3 DEF Aims, ServersShape, Unshared
<1>6. SeekersGood'
  BY <1>1, <1>2, <1>3 DEF SeekersGood, Fresh, BeingOpened, Accounted, Unshared, BrokeEarly,
     ServersShape, Alive
<1>7. LockHeldOnce' /\ OneSessionPerServer'
  BY <1>1, <1>2, <1>3 DEF LockHeldOnce, OneSessionPerServer, ServersShape, Holding
<1>8. ShutDown'
  BY <1>1 DEF ShutDown
<1> QED
  BY <1>4, <1>5, <1>6, <1>7, <1>8

\* Every step of the hosts, tasks, sessions and calls keeps the invariant.
LEMMA ServersStepInv == ServersInv /\ [ServersNext]_serversVars => ServersInv'
<1> SUFFICES ASSUME ServersInv, [ServersNext]_serversVars PROVE ServersInv'
  OBVIOUS
<1> USE DEF providerVars, closerVars, managerVars, seekerVars, sessionVars
<1>1. CASE UNCHANGED serversVars
  <2>1. ServersShape'
    BY <1>1 DEF serversVars, ServersInv, ServersShape
  <2> QED
    BY <1>1, <2>1, CallersKeep DEF serversVars
<1>2. CASE CutStart
  <2>1. told' \in [Seekers -> {"no", "timeout", "cancel"}]
    BY <1>2 DEF CutStart, ServersInv, ServersShape
  <2>2. ServersShape'
    BY <1>2, <2>1 DEF CutStart, ServersInv, ServersShape
  <2> QED
    BY <1>2, <2>2, CallersKeep DEF CutStart
<1>3. CASE HostStops \/ CallerStep
  <2>1. ServersShape'
    BY <1>3 DEF HostStops, CallerStep, StartReturns, StartFails, StartRaises, HostReturns, JoinsStop,
       ServersInv, ServersShape
  <2> QED
    BY <1>3, <2>1, CallersKeep
       DEF HostStops, CallerStep, StartReturns, StartFails, StartRaises, HostReturns, JoinsStop, Joined
<1>4. ASSUME NEW k \in Seekers, UserCancelled(k) \/ Expires(k) PROVE ServersInv'
  <2>1. told' \in [Seekers -> {"no", "timeout", "cancel"}]
    BY <1>4 DEF UserCancelled, Expires, ServersInv, ServersShape
  <2>2. ServersShape'
    BY <1>4, <2>1 DEF UserCancelled, Expires, AroundSeeker, ServersInv, ServersShape
  <2> QED
    BY <1>4, <2>2, CallersKeep DEF UserCancelled, Expires, AroundSeeker
<1>5. ASSUME NEW c \in Calls, Brings(c) \/ Executes(c) \/ Answers(c) \/ Loses(c) PROVE ServersInv'
  <2>1. UNCHANGED AroundCall
    BY <1>5 DEF Brings, Executes, Answers, Loses
  <2>2. ServersShape'
    BY <2>1 DEF AroundCall, ServersInv, ServersShape
  <2> QED
    BY <2>1, <2>2, CallersKeep DEF AroundCall
<1>6. \A u \in Users : u \in Seekers
  BY DEF Seekers
<1>7. \A s \in Servers : s \in Seekers
  BY DEF Seekers
<1> QED
  BY <1>1, <1>2, <1>3, <1>4, <1>5, <1>6, <1>7, SeekerKeeps, OwnerKeeps, StartupKeeps, CloserKeeps,
     StartProviderKeeps, UserSeeksKeeps
     DEF ServersNext, OwnerStep

\* The inductive invariant of the connections to the MCP servers of a process.
THEOREM ServersInvariance == ServersSpec => []ServersInv
<1> QED
  BY ServersInitInv, ServersStepInv, PTL DEF ServersSpec

\* A server has one session that is neither over nor tearing itself down, and when
\* a stop, or a start that failed, has come back none is left that somebody should
\* have closed (MCPClientManager.get_client and aclose, MCPToolProvider.stop).
THEOREM SessionsAreAccounted == ServersSpec => []SessionsAccounted
<1>1. ServersInv => SessionsAccounted
  <2> SUFFICES ASSUME ServersInv, start = "raised" \/ host \in {"returned", "raised"},
                      NEW k \in Seekers, session[k] \in Alive
               PROVE  StartupsOver /\ BrokeEarly(k)
    BY DEF SessionsAccounted, NothingLeftOpen, BrokeEarly, ServersInv, ShutDown
  <2> USE DEF ServersInv
  <2>1. /\ stopper = "over" /\ closed /\ StartupsOver /\ doomed = {}
        /\ \A s \in Servers : Free(s) /\ clients[s] = None
    BY DEF ShutDown
  <2>2. pc[k] \notin {"opening", "unwinding", "disposing"}
    BY <2>1 DEF Aims, Free, Holding
  <2>3. k # None
    BY NoneAssumption DEF Seekers
  <2> QED
    BY <2>1, <2>2, <2>3 DEF SeekersGood, Accounted
<1> QED
  BY <1>1, ServersInvariance, PTL

-----------------------------------------------------------------------------
(* MCP servers, the calls.  A call is at its server once if it was sent,   *)
(* and not at all if it was not.                                           *)

CallGood(c) ==
  /\ ran[c] + inbox[c] <= 1
  /\ call[c] \in {"new", "notSent"} => ran[c] + inbox[c] = 0

CallsInv ==
  /\ call \in [Calls -> {"new", "notSent", "sent", "answered", "unknown"}]
  /\ inbox \in [Calls -> Nat] /\ ran \in [Calls -> Nat]
  /\ \A c \in Calls : CallGood(c)

\* The steps that are about calls, and that no call takes part in.
CallStep(c) == Brings(c) \/ Executes(c) \/ Answers(c) \/ Loses(c)

\* Only calls change calls.
LEMMA CallsUndisturbed ==
  [ServersNext]_serversVars => UNCHANGED callVars \/ \E c \in Calls : CallStep(c)
<1> SUFFICES ASSUME [ServersNext]_serversVars, ~\E c \in Calls : CallStep(c)
             PROVE  UNCHANGED callVars
  OBVIOUS
<1> USE DEF AroundSeeker, AroundSession
<1>1. CASE UNCHANGED serversVars
  BY <1>1 DEF serversVars
<1>2. CASE StartProvider \/ CutStart \/ HostStops \/ CallerStep
  BY <1>2 DEF StartProvider, CutStart, HostStops, CallerStep, StartReturns, StartFails, StartRaises,
     HostReturns
<1>3. CASE CloserStep
  BY <1>3 DEF CloserStep, StopBegins, StopJoins, PassLock, TakeClients, CloseBegins, CloseEnds, StopEnds
<1>4. ASSUME NEW k \in Seekers, SeekerStep(k) PROVE UNCHANGED callVars
  BY <1>4 DEF SeekerStep, FindsClient, FindsClosed, Opens, WaitCancelled, FactoryReturns,
     FactoryRaises, FactoryCancelled, FactoryUnwound, Disposed
<1>5. ASSUME NEW k \in Seekers, OwnerStep(k) PROVE UNCHANGED callVars
  BY <1>5 DEF OwnerStep, Initialized, InitFails, Breaks, OwnerStops, TornDown
<1>6. ASSUME NEW s \in Servers, StartupStep(s) \/ Expires(s) \/ Lists(s) \/ ListingFails(s)
      PROVE  UNCHANGED callVars
  BY <1>6 DEF StartupStep, ListingCancelled, ClearBegins, ClearCancelled, Cleared, Expires, Lists,
     ListingFails
<1>7. ASSUME NEW u \in Users, NEW s \in Servers, UserCancelled(u) \/ UserSeeks(u, s)
      PROVE  UNCHANGED callVars
  BY <1>7 DEF UserCancelled, UserSeeks
<1>8. ASSUME NEW u \in Users, UserCancelled(u) PROVE UNCHANGED callVars
  BY <1>8 DEF UserCancelled
<1> QED
  BY <1>1, <1>2, <1>3, <1>4, <1>5, <1>6, <1>7, <1>8 DEF ServersNext, OwnerStep, CallStep

\* Bringing, executing, answering and losing a call keep the count: a call whose
\* outcome is not known is not brought again (LostOutcome).
LEMMA CallsStepInv == CallsInv /\ [ServersNext]_serversVars => CallsInv'
<1> SUFFICES ASSUME CallsInv, [ServersNext]_serversVars PROVE CallsInv'
  OBVIOUS
<1>1. CASE UNCHANGED callVars
  BY <1>1 DEF callVars, CallsInv, CallGood
<1>2. ASSUME NEW c \in Calls, CallStep(c) PROVE CallsInv'
  <2>1. /\ call' \in [Calls -> {"new", "notSent", "sent", "answered", "unknown"}]
        /\ inbox' \in [Calls -> Nat] /\ ran' \in [Calls -> Nat]
    BY <1>2 DEF CallStep, Brings, Executes, Answers, Loses, LostOutcome, CallsInv, CallGood
  <2>2. \A d \in Calls \ {c} : call'[d] = call[d] /\ inbox'[d] = inbox[d] /\ ran'[d] = ran[d]
    BY <1>2 DEF CallStep, Brings, Executes, Answers, Loses, CallsInv
  <2>3. CallGood(c)'
    BY <1>2 DEF CallStep, Brings, Executes, Answers, Loses, LostOutcome, CallsInv, CallGood
  <2> QED
    BY <2>1, <2>2, <2>3 DEF CallsInv, CallGood
<1> QED
  BY <1>1, <1>2, CallsUndisturbed

\* A call the model is told was not sent has not run and will not, and bringing it
\* again executes it once (MCPToolProvider.invoke, MCPCallNotSentError).
THEOREM CallsRunAtMostOnce == ServersSpec => []RunsAtMostOnce
<1>1. ServersInit => CallsInv
  BY DEF ServersInit, CallsInv, CallGood
<1>2. CallsInv => RunsAtMostOnce
  BY DEF CallsInv, CallGood, RunsAtMostOnce
<1> QED
  BY <1>1, <1>2, CallsStepInv, PTL DEF ServersSpec

-----------------------------------------------------------------------------
(* MCP servers, going on.  While start() or stop() is awaited some guard   *)
(* of the system's own steps holds: what it waits for is a startup task, a *)
(* lock or a session, whoever holds a lock has a session behind it, and    *)
(* every session past its initialization is torn down by its owner alone.  *)

\* Initialization is behind this session, and it succeeded.
Opened(k) == session[k] \in {"live", "breaking", "over"}

\* What a seeker at a place has, of a session and of itself.
Equipped(k) ==
  /\ pc[k] = "opening" => session[k] # "none"
  /\ pc[k] = "unwinding" => session[k] \in {"breaking", "failing", "over"}
  /\ pc[k] = "disposing" => k \in closing /\ Opened(k)
  /\ pc[k] \in {"listing", "clearing", "closing"} => k \in Servers

\* What a registered session is, and one that is being closed for its startup.
Registered(s) ==
  /\ clients[s] # None => Opened(clients[s])
  /\ pc[s] = "closing" => clients[s] # None /\ clients[s] \in closing

Underway ==
  /\ \A k \in Seekers : Equipped(k)
  /\ \A s \in Servers : Registered(s)
  /\ \A k \in doomed : Opened(k)
  /\ start # "idle" => \A s \in Servers : pc[s] # "idle"
  /\ start = "stopping" \/ host = "stopping" => stopper # "none"

\* An opened session that is asked to close does so without its server.
LEMMA ClosingGoesOn ==
  ASSUME NEW k \in Seekers, Opened(k), k \in closing, session[k] # "over" PROVE Ready
BY DEF Opened, Ready, OwnerReady

\* Whoever holds the lock of a server goes on, or its session does, but for a
\* direct caller whose server does not answer (MCPClientManager.get_client).
LEMMA HolderGoesOn ==
  ASSUME ServersInv, Underway, ~Hangs, NEW k \in Seekers, pc[k] \in Holding
  PROVE  Ready
<1>1. session[k] \in {"none", "over"} \cup Alive /\ told[k] \in {"no", "timeout", "cancel"}
  BY DEF ServersInv, ServersShape
<1>2. Equipped(k)
  BY DEF Underway
<1>3. CASE pc[k] = "opening"
  <2>1. CASE session[k] = "entering" /\ told[k] = "no"
    BY <1>3, <2>1 DEF Hangs, Seekers, Ready, StartupReady
  <2>2. CASE told[k] # "no"
    BY <1>3, <2>2 DEF Ready, SeekerReady
  <2>3. CASE session[k] \in {"live", "breaking", "failing", "over"}
    BY <1>3, <2>3 DEF Ready, SeekerReady, OwnerReady, IsReady
  <2> QED
    BY <1>1, <1>2, <1>3, <2>1, <2>2, <2>3 DEF Equipped, Alive
<1>4. CASE pc[k] = "unwinding"
  BY <1>2, <1>4 DEF Equipped, Ready, SeekerReady, OwnerReady, OwnerJoined
<1>5. CASE pc[k] = "disposing"
  BY <1>2, <1>5, ClosingGoesOn DEF Equipped, Ready, SeekerReady, OwnerJoined
<1>6. CASE pc[k] = "closing"
  <2>1. k \in Servers /\ clients[k] \in closing /\ Opened(clients[k])
    BY <1>2, <1>6 DEF Equipped, Underway, Registered
  <2>2. clients[k] \in Seekers
    BY <2>1 DEF ServersInv, ServersShape
  <2> QED
    BY <1>6, <2>1, <2>2, ClosingGoesOn DEF Ready, StartupReady, OwnerJoined
<1> QED
  BY <1>3, <1>4, <1>5, <1>6 DEF Holding

\* A startup task goes on wherever it is: it meets its cancellation or its
\* timeout, or whoever it waits for goes on (MCPToolProvider._start_server).
LEMMA StartupGoesOn ==
  ASSUME ServersInv, Underway, ~Hangs, NEW s \in Servers, pc[s] \notin Ended \cup {"idle"}
  PROVE  Ready
<1>1. s \in Seekers /\ target[s] = s /\ pc[s] \in Places
  BY DEF Seekers, ServersInv, ServersShape, Aims
<1>2. CASE pc[s] \in Holding
  BY <1>1, <1>2, HolderGoesOn
<1>3. CASE pc[s] = "wants"
  <2>1. CASE told[s] # "no"
    BY <1>1, <1>3, <2>1 DEF Ready, SeekerReady
  <2>2. CASE Contended(s)
    BY <1>3, <2>2 DEF Ready, StartupReady
  <2>3. CASE told[s] = "no" /\ ~Contended(s)
    <3>1. Free(target[s])
      BY <1>1, <1>3, <2>3 DEF Free, Contended, Holding
    <3> QED
      BY <1>1, <1>3, <2>3, <3>1 DEF Ready, SeekerReady, HasLock
  <2> QED
    BY <2>1, <2>2, <2>3
<1>4. CASE pc[s] = "listing"
  BY <1>4 DEF Ready, StartupReady
<1>5. CASE pc[s] = "clearing"
  <2>1. CASE Free(s)
    BY <1>5, <2>1 DEF Ready, StartupReady
  <2>2. CASE ~Free(s)
    BY <2>2, HolderGoesOn DEF Free
  <2> QED
    BY <2>1, <2>2
<1> QED
  BY <1>1, <1>2, <1>3, <1>4, <1>5 DEF Places

\* The stop task and the close task go on: a startup task they join, a lock they
\* pass or a session they close does (MCPToolProvider.stop, MCPClientManager.aclose).
LEMMA StopGoesOn ==
  ASSUME ServersInv, Underway, ~Hangs, stopper \notin {"none", "over"} PROVE Ready
<1>1. CASE stopper = "born"
  BY <1>1 DEF Ready, CloserReady
<1>2. CASE stopper = "joining"
  <2>1. CASE StartupsOver
    BY <1>2, <2>1 DEF Ready, CloserReady
  <2>2. CASE ~StartupsOver
    <3>1. PICK s \in Servers : pc[s] \notin Ended
      BY <2>2 DEF StartupsOver
    <3>2. pc[s] # "idle"
      BY <1>2 DEF Underway, ServersInv, ShutDown
    <3> QED
      BY <3>1, <3>2, StartupGoesOn
  <2> QED
    BY <2>1, <2>2
<1>3. CASE stopper = "locking"
  <2>1. CASE passed = Servers \/ \E s \in Servers \ passed : Free(s)
    BY <1>3, <2>1 DEF Ready, CloserReady
  <2>2. CASE \E s \in Servers \ passed : ~Free(s)
    BY <2>2, HolderGoesOn DEF Free
  <2>3. passed \subseteq Servers
    BY DEF ServersInv, ServersShape
  <2> QED
    BY <2>1, <2>2, <2>3
<1>4. CASE stopper = "closing"
  <2>1. CASE doomed \cap closing = {} \/ \E k \in doomed \cap closing : session[k] = "over"
    BY <1>4, <2>1 DEF Ready, CloserReady
  <2>2. ASSUME NEW k \in doomed \cap closing, session[k] # "over" PROVE Ready
    BY <2>2, ClosingGoesOn DEF Underway, ServersInv, ServersShape
  <2> QED
    BY <2>1, <2>2
<1> QED
  BY <1>1, <1>2, <1>3, <1>4 DEF ServersInv, ServersShape

LEMMA UnderwayGoesOn == ServersInv /\ Underway => AwaitedGoesOn
<1> SUFFICES ASSUME ServersInv, Underway, ~Hangs,
                    start \in {"waiting", "stopping"} \/ host = "stopping"
             PROVE  Ready
  BY DEF AwaitedGoesOn
<1>1. CASE start = "waiting"
  <2>1. CASE \E s \in Required : pc[s] \notin Ended
    <3>1. PICK s \in Required : pc[s] \notin Ended
      BY <2>1
    <3>2. s \in Servers /\ pc[s] # "idle"
      BY <1>1, <3>1, ServerAssumption DEF Underway
    <3> QED
      BY <3>1, <3>2, StartupGoesOn
  <2>2. CASE \A s \in Required : pc[s] \in Ended
    BY <1>1, <2>2 DEF Ready, CallerReady, Ended
  <2> QED
    BY <2>1, <2>2
<1>2. CASE start = "stopping" \/ host = "stopping"
  <2>1. CASE stopper = "over"
    BY <1>2, <2>1 DEF Ready, CallerReady, Joined
  <2>2. CASE stopper # "over"
    BY <1>2, <2>2, StopGoesOn DEF Underway
  <2> QED
    BY <2>1, <2>2
<1> QED
  BY <1>1, <1>2

LEMMA UnderwayInit == ServersInit => Underway
BY ServerAssumption DEF ServersInit, Underway, Equipped, Registered, Seekers

\* A step of one seeker, or of its session, that registers no session.
LEMMA StepUnderway ==
  ASSUME ServersInv, Underway, NEW k \in Seekers,
         \A q \in Seekers \ {k} : pc'[q] = pc[q] /\ session'[q] = session[q],
         closing \subseteq closing', Opened(k) => Opened(k)', Equipped(k)',
         pc'[k] = pc[k] \/ pc'[k] \notin {"idle", "closing"},
         UNCHANGED <<start, host, stopper, clients, doomed>>
  PROVE  Underway'
<1>1. \A q \in Seekers : Opened(q) => Opened(q)'
  BY DEF Opened
<1>2. \A q \in Seekers : Equipped(q)'
  BY <1>1 DEF Underway, Equipped, Opened
<1>3. \A s \in Servers : s \in Seekers /\ clients[s] \in Seekers \cup {None}
  BY DEF Seekers, ServersInv, ServersShape
<1>4. \A s \in Servers : Registered(s)'
  BY <1>1, <1>3 DEF Underway, Registered
<1>5. \A q \in doomed' : Opened(q)'
  BY <1>1 DEF Underway, ServersInv, ServersShape
<1> QED
  BY <1>2, <1>3, <1>4, <1>5 DEF Underway

\* Steps that leave every seeker, session and client where they are.
LEMMA OthersUnderway ==
  ASSUME Underway, UNCHANGED <<pc, session, closing, clients>>, doomed' \subseteq doomed,
         start' # "idle" => start # "idle",
         start' = "stopping" \/ host' = "stopping" => stopper' # "none"
  PROVE  Underway'
BY DEF Underway, Equipped, Registered, Opened

\* Nobody is equipped with less for having left get_client.
LEMMA LeaveUnderway ==
  ASSUME ServersInv, Underway, NEW k \in Seekers, NEW how, Leave(k, how),
         UNCHANGED <<AroundSeeker, shown, clients, target, sessionVars>>
  PROVE  Underway'
<1> USE DEF AroundSeeker, closerVars, sessionVars
<1>1. PICK place \in {"done", "listing", "clearing", "cancelled"} :
           pc' = [pc EXCEPT ![k] = place] /\ (place \in {"listing", "clearing"} => k \in Servers)
  BY DEF Leave, Goto, Seekers
<1>2. pc'[k] = place /\ \A q \in Seekers \ {k} : pc'[q] = pc[q]
  BY <1>1 DEF ServersInv, ServersShape
<1>3. Equipped(k)' /\ (Opened(k) => Opened(k)')
  BY <1>1, <1>2 DEF Equipped, Opened
<1> QED
  BY <1>2, <1>3, StepUnderway

\* Every step of a seeker in get_client.
LEMMA SeekerUnderway == ASSUME ServersInv, Underway, NEW k \in Seekers, SeekerStep(k) PROVE Underway'
<1> USE DEF AroundSeeker, closerVars
<1> DEFINE Others == \A q \in Seekers \ {k} : pc'[q] = pc[q] /\ session'[q] = session[q]
<1>1. ServersShape /\ Equipped(k)
  BY DEF ServersInv, Underway
<1>2. CASE \/ FindsClient(k) \/ FindsClosed(k) \/ WaitCancelled(k) \/ FactoryRaises(k)
           \/ FactoryUnwound(k) \/ Disposed(k)
  BY <1>2, LeaveUnderway
     DEF FindsClient, FindsClosed, WaitCancelled, FactoryRaises, FactoryUnwound, Disposed
<1>3. CASE Opens(k)
  <2>1. Others /\ pc'[k] = "opening" /\ session'[k] = "entering"
    BY <1>1, <1>3 DEF Opens, Goto, ServersShape
  <2>2. ~Opened(k)
    BY <1>3 DEF Opens, HasLock, Opened, ServersInv, SeekersGood, Fresh
  <2>3. Equipped(k)'
    BY <2>1 DEF Equipped
  <2> QED
    BY <1>3, <2>1, <2>2, <2>3, StepUnderway DEF Opens
<1>4. CASE FactoryReturns(k) /\ closed
  <2>1. Others /\ pc'[k] = "disposing" /\ session' = session /\ session[k] = "live"
    BY <1>1, <1>4 DEF FactoryReturns, Goto, ServersShape
  <2>2. closing \subseteq closing' /\ k \in closing'
    BY <1>4 DEF FactoryReturns
  <2>3. Equipped(k)' /\ Opened(k)'
    BY <2>1, <2>2 DEF Equipped, Opened
  <2> QED
    BY <1>4, <2>1, <2>2, <2>3, StepUnderway DEF FactoryReturns
<1>5. CASE FactoryReturns(k) /\ ~closed
  <2>1. /\ Leave(k, "client") /\ clients' = [clients EXCEPT ![target[k]] = k]
        /\ pc[k] = "opening" /\ session[k] = "live" /\ target[k] \in Servers
        /\ UNCHANGED <<start, host, stopper, doomed, session, closing>>
    BY <1>5 DEF FactoryReturns, ServersInv, Aims
  <2>2. PICK place \in {"done", "listing", "clearing", "cancelled"} :
             pc' = [pc EXCEPT ![k] = place] /\ (place \in {"listing", "clearing"} => k \in Servers)
    BY <2>1 DEF Leave, Goto, Seekers
  <2>3. pc'[k] = place /\ \A q \in Seekers \ {k} : pc'[q] = pc[q]
    BY <1>1, <2>2 DEF ServersShape
  <2>4. \A q \in Seekers : Equipped(q)'
    BY <2>1, <2>2, <2>3 DEF Underway, Equipped, Opened
  <2>5. ASSUME NEW s \in Servers PROVE Registered(s)' /\ (pc[s] # "idle" => pc'[s] # "idle")
    <3>1. s \in Seekers /\ target[s] = s
      BY DEF Seekers, ServersInv, Aims
    <3>2. pc[s] = "closing" => s # target[k]
      BY <2>1, <3>1 DEF ServersInv, LockHeldOnce, Holding
    <3>3. pc'[s] = "closing" => pc[s] = "closing" /\ clients'[s] = clients[s]
      BY <1>1, <2>1, <2>2, <2>3, <3>1, <3>2 DEF ServersShape
    <3>4. clients'[s] = IF s = target[k] THEN k ELSE clients[s]
      BY <1>1, <2>1 DEF ServersShape
    <3> QED
      BY <2>1, <2>2, <2>3, <3>1, <3>3, <3>4 DEF Underway, Registered, Opened
  <2> QED
    BY <2>1, <2>4, <2>5 DEF Underway, Opened
<1>6. CASE FactoryCancelled(k)
  <2>1. pc[k] = "opening" /\ Others /\ pc'[k] = "unwinding" /\ session'[k] \in {"breaking", "failing", "over"}
    <3>1. pc[k] = "opening" /\ pc' = [pc EXCEPT ![k] = "unwinding"] /\ OwnerCancelled(k)
      BY <1>6 DEF FactoryCancelled, Goto
    <3>2. session[k] \in {"entering", "live", "breaking", "failing", "over"}
      BY <1>1, <3>1 DEF Equipped, ServersShape, Alive
    <3>3. \/ UNCHANGED session /\ session[k] \notin {"entering", "live"}
          \/ \E d \in {"breaking", "failing"} : session' = [session EXCEPT ![k] = d]
      BY <3>1 DEF OwnerCancelled
    <3> QED
      BY <1>1, <3>1, <3>2, <3>3 DEF ServersShape
  <2>2. Opened(k) => Opened(k)'
    BY <1>1, <1>6 DEF FactoryCancelled, OwnerCancelled, Opened, ServersShape
  <2>3. Equipped(k)'
    BY <2>1 DEF Equipped
  <2> QED
    BY <1>6, <2>1, <2>2, <2>3, StepUnderway DEF FactoryCancelled
<1> QED
  BY <1>2, <1>3, <1>4, <1>5, <1>6 DEF SeekerStep

\* Every step of an owner task, or of the server behind it.
LEMMA OwnerUnderway == ASSUME ServersInv, Underway, NEW k \in Seekers, OwnerStep(k) PROVE Underway'
<1> USE DEF AroundSession, providerVars, closerVars, managerVars, seekerVars
<1>1. UNCHANGED <<start, host, stopper, doomed, clients, pc, closing>>
  BY DEF OwnerStep, Initialized, InitFails, Breaks, OwnerStops, TornDown
<1>2. \A q \in Seekers \ {k} : session'[q] = session[q]
  BY DEF OwnerStep, Initialized, InitFails, Breaks, OwnerStops, TornDown, ServersInv, ServersShape
<1>3. \/ session[k] = "entering" /\ session'[k] \in {"live", "failing"}
      \/ session[k] = "live" /\ session'[k] = "breaking"
      \/ session[k] \in {"breaking", "failing"} /\ session'[k] = "over"
  BY DEF OwnerStep, Initialized, InitFails, Breaks, OwnerStops, TornDown, ServersInv, ServersShape
<1>4. Opened(k) => Opened(k)'
  BY <1>3 DEF Opened
<1>5. Equipped(k)'
  BY <1>1, <1>3, <1>4 DEF Underway, Equipped
<1> QED
  BY <1>1, <1>2, <1>4, <1>5, StepUnderway

\* Every step of a startup task after get_client.
LEMMA StartupUnderway ==
  ASSUME ServersInv, Underway, NEW s \in Servers, StartupStep(s) \/ Lists(s) \/ ListingFails(s)
  PROVE  Underway'
<1> USE DEF AroundSeeker, closerVars, sessionVars
<1>1. s \in Seekers /\ ServersShape /\ Equipped(s)
  BY DEF Seekers, ServersInv, Underway
<1>2. CASE ListingCancelled(s) \/ ListingFails(s)
  BY <1>1, <1>2, LeaveUnderway DEF ListingCancelled, ListingFails
<1>3. CASE Lists(s) \/ ClearCancelled(s) \/ (ClearBegins(s) /\ clients[s] = None)
  <2>1. PICK place \in {"done", "raised", "cancelled"} :
             pc' = [pc EXCEPT ![s] = place] /\ UNCHANGED <<start, host, stopper, doomed, clients, session, closing>>
    BY <1>3 DEF Lists, ClearCancelled, ClearBegins, Over, Goto
  <2>2. pc'[s] = place /\ \A q \in Seekers \ {s} : pc'[q] = pc[q]
    BY <1>1, <2>1 DEF ServersShape
  <2>3. Equipped(s)' /\ (Opened(s) => Opened(s)')
    BY <2>1, <2>2 DEF Equipped, Opened
  <2> QED
    BY <1>1, <2>1, <2>2, <2>3, StepUnderway
<1>4. CASE ClearBegins(s) /\ clients[s] # None
  <2>1. /\ pc' = [pc EXCEPT ![s] = "closing"] /\ closing' = closing \cup {clients[s]}
        /\ UNCHANGED <<start, host, stopper, doomed, clients, session>>
    BY <1>4 DEF ClearBegins, Goto
  <2>2. pc'[s] = "closing" /\ \A q \in Seekers \ {s} : pc'[q] = pc[q]
    BY <1>1, <2>1 DEF ServersShape
  <2>3. \A q \in Seekers : Equipped(q)'
    BY <2>1, <2>2 DEF Underway, Equipped, Opened
  <2>4. \A q \in Servers : q \in Seekers
    BY DEF Seekers
  <2>5. \A q \in Servers : Registered(q)'
    BY <1>4, <2>1, <2>2, <2>4 DEF Underway, Registered, Opened
  <2> QED
    BY <2>1, <2>2, <2>3, <2>4, <2>5 DEF Underway, Opened
<1>5. CASE Cleared(s)
  <2>1. PICK place \in {"done", "raised", "cancelled"} :
             pc' = [pc EXCEPT ![s] = place] /\ UNCHANGED <<start, host, stopper, doomed, session, closing>>
    BY <1>5 DEF Cleared, Over, Goto
  <2>2. pc'[s] = place /\ \A q \in Seekers \ {s} : pc'[q] = pc[q]
    BY <1>1, <2>1 DEF ServersShape
  <2>3. \A q \in Servers \ {s} : clients'[q] = clients[q]
    BY <1>5 DEF Cleared, ServersInv, ServersShape
  <2>4. clients'[s] \in {clients[s], None}
    BY <1>5 DEF Cleared, ServersInv, ServersShape
  <2>5. \A q \in Seekers : Equipped(q)'
    BY <2>1, <2>2 DEF Underway, Equipped, Opened
  <2>6. \A q \in Servers : q \in Seekers
    BY DEF Seekers
  <2>7. \A q \in Servers : Registered(q)'
    BY <2>1, <2>2, <2>3, <2>4, <2>6 DEF Underway, Registered, Opened
  <2> QED
    BY <2>1, <2>2, <2>5, <2>6, <2>7 DEF Underway, Opened
<1> QED
  BY <1>2, <1>3, <1>4, <1>5 DEF StartupStep

\* Every step of the stop task and of the close task it waits for.
LEMMA CloserUnderway == ASSUME ServersInv, Underway, CloserStep PROVE Underway'
<1> USE DEF providerVars, managerVars, seekerVars, sessionVars, closerVars
<1>1. CASE \/ StopBegins \/ StopJoins \/ StopEnds \/ (\E s \in Servers : PassLock(s))
           \/ \E k \in Seekers : CloseEnds(k)
  <2>1. UNCHANGED <<start, host, pc, session, closing, clients>> /\ doomed' \subseteq doomed
    BY <1>1 DEF StopBegins, StopJoins, StopEnds, PassLock, CloseEnds
  <2>2. stopper # "none" => stopper' # "none"
    BY <1>1 DEF StopBegins, StopJoins, StopEnds, PassLock, CloseEnds
  <2> QED
    BY <2>1, <2>2, OthersUnderway DEF Underway
<1>2. CASE TakeClients
  <2>1. /\ UNCHANGED <<start, host, pc, session, closing>> /\ stopper' = "closing"
        /\ doomed' = {clients[s] : s \in Servers} \ {None}
        /\ clients' = [s \in Servers |-> None]
    BY <1>2 DEF TakeClients
  <2>2. StartupsOver
    BY <1>2 DEF TakeClients, ServersInv, ShutDown
  <2>3. \A s \in Servers : Registered(s)'
    BY <2>1, <2>2 DEF Registered, StartupsOver, Ended
  <2>4. \A k \in doomed' : Opened(k)'
    BY <2>1 DEF Underway, Registered, Opened
  <2> QED
    BY <2>1, <2>3, <2>4 DEF Underway, Equipped, Opened
<1>3. CASE \E k \in Seekers : CloseBegins(k)
  <2>1. UNCHANGED <<start, host, stopper, pc, session, clients, doomed>> /\ closing \subseteq closing'
    BY <1>3 DEF CloseBegins
  <2> QED
    BY <2>1 DEF Underway, Equipped, Registered, Opened
<1> QED
  BY <1>1, <1>2, <1>3 DEF CloserStep

\* Every step of the hosts, tasks, sessions and calls.
LEMMA UnderwayStep == ServersInv /\ Underway /\ [ServersNext]_serversVars => Underway'
<1> SUFFICES ASSUME ServersInv, Underway, [ServersNext]_serversVars PROVE Underway'
  OBVIOUS
<1> USE DEF providerVars, closerVars, managerVars, seekerVars, sessionVars
<1>1. CASE \/ UNCHANGED serversVars \/ CutStart
           \/ \E k \in Seekers : UserCancelled(k) \/ Expires(k)
           \/ \E c \in Calls : CallStep(c)
  <2>1. UNCHANGED <<start, host, stopper, doomed, pc, session, closing, clients>>
    BY <1>1 DEF serversVars, CutStart, UserCancelled, Expires, AroundSeeker, CallStep, Brings, Executes,
       Answers, Loses, AroundCall
  <2> QED
    BY <2>1, OthersUnderway DEF Underway
<1>2. CASE HostStops \/ CallerStep
  <2>1. UNCHANGED <<doomed, pc, session, closing, clients>>
    BY <1>2 DEF HostStops, CallerStep, StartReturns, StartFails, StartRaises, HostReturns
  <2>2. start' # "idle" => start # "idle"
    BY <1>2 DEF HostStops, CallerStep, StartReturns, StartFails, StartRaises, HostReturns
  <2>3. start' = "stopping" \/ host' = "stopping" => stopper' # "none"
    BY <1>2 DEF HostStops, CallerStep, StartReturns, StartFails, StartRaises, HostReturns, JoinsStop,
       Underway
  <2> QED
    BY <2>1, <2>2, <2>3, OthersUnderway
<1>3. CASE StartProvider
  <2>1. /\ UNCHANGED <<host, stopper, doomed, session, closing, clients>> /\ start = "idle" /\ start' = "waiting"
        /\ pc' = [k \in Seekers |-> IF k \in Servers THEN "wants" ELSE pc[k]]
    BY <1>3 DEF StartProvider
  <2>2. \A s \in Servers : pc'[s] = "wants"
    BY <2>1 DEF Seekers
  <2>3. \A k \in Seekers : pc'[k] \in {"wants", pc[k]}
    BY <2>1
  <2>4. \A k \in Seekers : Equipped(k)'
    BY <2>1, <2>3 DEF Underway, Equipped, Opened
  <2> QED
    BY <2>1, <2>2, <2>4 DEF Underway, Registered, Opened
<1>4. ASSUME NEW u \in Users, NEW s \in Servers, UserSeeks(u, s) PROVE Underway'
  <2>1. u \in Seekers
    BY DEF Seekers
  <2>2. /\ UNCHANGED <<start, host, stopper, doomed, session, closing, clients>>
        /\ pc'[u] = "wants" /\ \A q \in Seekers \ {u} : pc'[q] = pc[q]
    BY <1>4, <2>1 DEF UserSeeks, Goto, AroundSeeker, ServersInv, ServersShape
  <2>3. Equipped(u)' /\ (Opened(u) => Opened(u)')
    BY <2>2 DEF Equipped, Opened
  <2> QED
    BY <2>1, <2>2, <2>3, StepUnderway
<1>5. Users \subseteq Seekers /\ Servers \subseteq Seekers
  BY DEF Seekers
<1> QED
  BY <1>1, <1>2, <1>3, <1>4, <1>5, SeekerUnderway, OwnerUnderway, StartupUnderway, CloserUnderway
     DEF ServersNext, OwnerStep, CallStep

\* Whatever the servers do, and whoever is cancelled when: while somebody waits for
\* start() or stop() a step of the system's own is ready, unless a direct caller
\* holds the lock of a server that does not answer (MCPToolProvider.start and stop,
\* MCPClientManager.aclose).
THEOREM AwaitedServersGoOn == ServersSpec => []AwaitedGoesOn
<1>1. ServersInv /\ ServersInv' /\ Underway /\ [ServersNext]_serversVars => Underway'
  BY UnderwayStep
<1> QED
  BY <1>1, UnderwayInit, UnderwayGoesOn, ServersInvariance, PTL DEF ServersSpec

-----------------------------------------------------------------------------
(* MCP servers, an end of going on.  Every coroutine, session and task of  *)
(* the close has a stage, no step takes one back to an earlier stage, and  *)
(* each of the system's own steps takes one further: with finitely many    *)
(* servers and callers there are finitely many such steps.                 *)

PlaceStage(place) ==
  CASE place = "idle" -> 0
    [] place = "wants" -> 1
    [] place = "opening" -> 2
    [] place \in {"unwinding", "disposing"} -> 3
    [] place = "listing" -> 4
    [] place = "clearing" -> 5
    [] place = "closing" -> 6
    [] OTHER -> 7

\* A cancellation, or a timeout, that a seeker has not met yet takes it half on.
SeekerStage(k) == 2 * PlaceStage(pc[k]) + (IF told[k] = "no" THEN 0 ELSE 1)

SessionStage(k) ==
  CASE session[k] = "none" -> 0
    [] session[k] = "entering" -> 1
    [] session[k] = "live" -> 2
    [] session[k] \in {"breaking", "failing"} -> 3
    [] OTHER -> 4

StopperStage ==
  CASE stopper = "none" -> 0
    [] stopper = "born" -> 1
    [] stopper = "joining" -> 2
    [] stopper = "locking" -> 3
    [] stopper = "closing" -> 4
    [] OTHER -> 5

StartStage ==
  CASE start = "idle" -> 0
    [] start = "waiting" -> 1
    [] start = "stopping" -> 2
    [] OTHER -> 3

HostStage == CASE host = "idle" -> 0 [] host = "stopping" -> 1 [] OTHER -> 2

\* What the close task has behind it: the locks it passed, the sessions it asked
\* to close, and those it has seen closed.
NoneGoesBack ==
  /\ StartStage <= StartStage' /\ HostStage <= HostStage' /\ StopperStage <= StopperStage'
  /\ passed \subseteq passed' /\ closing \subseteq closing'
  /\ stopper = "closing" => doomed' \subseteq doomed
  /\ \A k \in Seekers : SeekerStage(k) <= SeekerStage(k)' /\ SessionStage(k) <= SessionStage(k)'

OneGoesOn ==
  \/ StartStage < StartStage' \/ HostStage < HostStage' \/ StopperStage < StopperStage'
  \/ passed # passed' \/ closing # closing' \/ (stopper = "closing" /\ doomed' # doomed)
  \/ \E k \in Seekers : SeekerStage(k) < SeekerStage(k)' \/ SessionStage(k) < SessionStage(k)'

StagesAdvance == NoneGoesBack /\ (SystemStep => OneGoesOn)

\* A seeker at a later place is at a later stage, whatever it has been told.
LEMMA PlaceForward ==
  ASSUME ServersShape, NEW k \in Seekers, NEW place, pc' = [pc EXCEPT ![k] = place],
         PlaceStage(pc[k]) < PlaceStage(place),
         told' \in {told, [told EXCEPT ![k] = "no"]}
  PROVE  SeekerStage(k) < SeekerStage(k)' /\ \A q \in Seekers : SeekerStage(q) <= SeekerStage(q)'
<1>1. pc'[k] = place /\ \A q \in Seekers \ {k} : pc'[q] = pc[q] /\ told'[q] = told[q]
  BY DEF ServersShape
<1>2. \A p : PlaceStage(p) \in 0..7
  BY DEF PlaceStage
<1>3. SeekerStage(k) < SeekerStage(k)'
  BY <1>1, <1>2 DEF SeekerStage
<1>4. ASSUME NEW q \in Seekers \ {k} PROVE SeekerStage(q)' = SeekerStage(q)
  BY <1>1, <1>4 DEF SeekerStage
<1>5. ASSUME NEW q \in Seekers PROVE SeekerStage(q) <= SeekerStage(q)'
  <2>1. SeekerStage(q) \in Int /\ SeekerStage(k) \in Int /\ SeekerStage(k)' \in Int
    BY <1>2 DEF SeekerStage
  <2>2. CASE q = k
    BY <1>3, <2>1, <2>2
  <2>3. CASE q # k
    BY <1>4, <2>1, <2>3
  <2> QED
    BY <2>2, <2>3
<1> QED
  BY <1>3, <1>5

\* A step of one seeker that takes it to a later place.
LEMMA SeekerForward ==
  ASSUME ServersShape, NEW k \in Seekers, NEW place, pc' = [pc EXCEPT ![k] = place],
         PlaceStage(pc[k]) < PlaceStage(place),
         told' \in {told, [told EXCEPT ![k] = "no"]},
         \A q \in Seekers : SessionStage(q) <= SessionStage(q)',
         closing \subseteq closing', UNCHANGED <<start, host, stopper, passed, doomed>>
  PROVE  NoneGoesBack /\ OneGoesOn
<1>1. SeekerStage(k) < SeekerStage(k)' /\ \A q \in Seekers : SeekerStage(q) <= SeekerStage(q)'
  BY PlaceForward
<1> QED
  BY <1>1 DEF NoneGoesBack, OneGoesOn, StartStage, HostStage, StopperStage

LEMMA SessionsStay ==
  ASSUME UNCHANGED session PROVE \A q \in Seekers : SessionStage(q) <= SessionStage(q)'
BY DEF SessionStage

\* A seeker that leaves get_client.
LEMMA LeaveForward ==
  ASSUME ServersShape, NEW k \in Seekers, NEW how, Leave(k, how),
         pc[k] \in {"wants", "opening", "unwinding", "disposing", "listing"},
         pc[k] = "listing" => k \notin Users /\ how # "client",
         UNCHANGED <<start, host, closerVars, session, closing>>
  PROVE  NoneGoesBack /\ OneGoesOn
<1>1. PICK place \in {"done", "listing", "clearing", "cancelled"} :
           pc' = [pc EXCEPT ![k] = place] /\ (place = "listing" => how = "client" /\ k \notin Users)
  BY DEF Leave, Goto
<1>2. told' = [told EXCEPT ![k] = "no"]
  BY DEF Leave
<1>3. PlaceStage(pc[k]) < PlaceStage(place)
  BY <1>1 DEF PlaceStage
<1> QED
  BY <1>1, <1>2, <1>3, SeekerForward, SessionsStay DEF closerVars

\* Every step of a seeker in get_client, and of a startup task after it.
LEMMA SeekerAdvances == ASSUME ServersInv, NEW k \in Seekers, SeekerStep(k) PROVE NoneGoesBack /\ OneGoesOn
<1> USE DEF AroundSeeker, closerVars, sessionVars
<1>1. ServersShape
  BY DEF ServersInv
<1>2. CASE \/ FindsClient(k) \/ FindsClosed(k) \/ WaitCancelled(k) \/ FactoryRaises(k)
           \/ FactoryUnwound(k) \/ Disposed(k)
  BY <1>1, <1>2, LeaveForward
     DEF FindsClient, FindsClosed, WaitCancelled, FactoryRaises, FactoryUnwound, Disposed, HasLock
<1>3. CASE Opens(k)
  <2>1. session[k] = "none" /\ session' = [session EXCEPT ![k] = "entering"]
    BY <1>3 DEF Opens, HasLock, ServersInv, SeekersGood, Fresh
  <2>2. \A q \in Seekers : SessionStage(q) <= SessionStage(q)'
    BY <1>1, <2>1 DEF SessionStage, ServersShape
  <2>3. PlaceStage(pc[k]) < PlaceStage("opening")
    BY <1>3 DEF Opens, HasLock, PlaceStage
  <2> QED
    BY <1>1, <1>3, <2>2, <2>3, SeekerForward DEF Opens, Goto
<1>4. CASE FactoryReturns(k) /\ closed
  <2>1. PlaceStage(pc[k]) < PlaceStage("disposing")
    BY <1>4 DEF FactoryReturns, PlaceStage
  <2> QED
    BY <1>1, <1>4, <2>1, SeekerForward, SessionsStay DEF FactoryReturns, Goto
<1>5. CASE FactoryReturns(k) /\ ~closed
  BY <1>1, <1>5, LeaveForward DEF FactoryReturns
<1>6. CASE FactoryCancelled(k)
  <2>1. \A q \in Seekers : SessionStage(q) <= SessionStage(q)'
    BY <1>1, <1>6 DEF FactoryCancelled, OwnerCancelled, SessionStage, ServersShape
  <2>2. PlaceStage(pc[k]) < PlaceStage("unwinding")
    BY <1>6 DEF FactoryCancelled, PlaceStage
  <2> QED
    BY <1>1, <1>6, <2>1, <2>2, SeekerForward DEF FactoryCancelled, Goto
<1> QED
  BY <1>2, <1>3, <1>4, <1>5, <1>6 DEF SeekerStep

LEMMA StartupAdvances ==
  ASSUME ServersInv, NEW s \in Servers, StartupStep(s) \/ Lists(s) \/ ListingFails(s)
  PROVE  NoneGoesBack /\ OneGoesOn
<1> USE DEF AroundSeeker, closerVars, sessionVars
<1>1. ServersShape /\ s \in Seekers /\ s \notin Users
  BY ServerAssumption DEF ServersInv, Seekers
<1>2. CASE ListingCancelled(s) \/ ListingFails(s)
  BY <1>1, <1>2, LeaveForward DEF ListingCancelled, ListingFails
<1>3. CASE Lists(s) \/ ClearCancelled(s) \/ ClearBegins(s) \/ Cleared(s)
  <2>1. PICK place \in {"closing", "done", "raised", "cancelled"} :
             pc' = [pc EXCEPT ![s] = place] /\ (place = "closing" => pc[s] = "clearing")
    BY <1>3 DEF Lists, ClearCancelled, ClearBegins, Cleared, Over, Goto
  <2>2. pc[s] \in {"listing", "clearing", "closing"}
    BY <1>3 DEF Lists, ClearCancelled, ClearBegins, Cleared
  <2>3. PlaceStage(pc[s]) < PlaceStage(place)
    BY <2>1, <2>2 DEF PlaceStage
  <2>4. UNCHANGED <<start, host, stopper, passed, doomed, told, session>> /\ closing \subseteq closing'
    BY <1>3 DEF Lists, ClearCancelled, ClearBegins, Cleared
  <2> QED
    BY <1>1, <2>1, <2>3, <2>4, SeekerForward, SessionsStay
<1> QED
  BY <1>2, <1>3 DEF StartupStep

\* A seeker that is told something stays where it is; one that knew already is
\* told nothing less.
LEMMA ToldForward ==
  ASSUME ServersShape, UNCHANGED pc,
         \A k \in Seekers : told'[k] = told[k] \/ told'[k] # "no"
  PROVE  /\ \A k \in Seekers : SeekerStage(k) <= SeekerStage(k)'
         /\ \A k \in Seekers : told[k] = "no" /\ told'[k] # "no" => SeekerStage(k) < SeekerStage(k)'
<1>1. \A p : PlaceStage(p) \in 0..7
  BY DEF PlaceStage
<1> QED
  BY <1>1 DEF SeekerStage

LEMMA SeekersStay ==
  ASSUME UNCHANGED <<pc, told>> PROVE \A k \in Seekers : SeekerStage(k) <= SeekerStage(k)'
<1>1. \A p : PlaceStage(p) \in 0..7
  BY DEF PlaceStage
<1> QED
  BY <1>1 DEF SeekerStage

LEMMA ToldAdvances ==
  ASSUME ServersInv, NEW k \in Seekers, UserCancelled(k) \/ Expires(k) PROVE NoneGoesBack /\ OneGoesOn
<1> USE DEF AroundSeeker, closerVars, sessionVars
<1>1. UNCHANGED <<start, host, stopper, passed, doomed, pc, session, closing>>
  BY DEF UserCancelled, Expires
<1>2. told[k] = "no" /\ told'[k] # "no" /\ \A q \in Seekers : told'[q] = told[q] \/ told'[q] # "no"
  BY DEF UserCancelled, Expires, ServersInv, ServersShape
<1> QED
  BY <1>1, <1>2, ToldForward, SessionsStay
     DEF NoneGoesBack, OneGoesOn, ServersInv, StartStage, HostStage, StopperStage

\* The owner of a session, and the server behind it.
LEMMA OwnerAdvances == ASSUME ServersInv, NEW k \in Seekers, OwnerStep(k) PROVE NoneGoesBack /\ OneGoesOn
<1> USE DEF AroundSession, providerVars, closerVars, managerVars, seekerVars
<1>1. UNCHANGED <<start, host, stopper, passed, doomed, pc, told, closing>>
  BY DEF OwnerStep, Initialized, InitFails, Breaks, OwnerStops, TornDown
<1>2. \A q \in Seekers \ {k} : session'[q] = session[q]
  BY DEF OwnerStep, Initialized, InitFails, Breaks, OwnerStops, TornDown, ServersInv, ServersShape
<1>3. SessionStage(k) < SessionStage(k)'
  BY DEF OwnerStep, Initialized, InitFails, Breaks, OwnerStops, TornDown, ServersInv, ServersShape,
     SessionStage
<1>4. \A q \in Seekers : SessionStage(q) <= SessionStage(q)'
  BY <1>2, <1>3 DEF SessionStage
<1> QED
  BY <1>1, <1>3, <1>4, SeekersStay DEF NoneGoesBack, OneGoesOn, StartStage, HostStage, StopperStage

\* The callers of start() and stop(), and the close.
LEMMA CloserAdvances ==
  ASSUME ServersInv, CallerStep \/ CloserStep \/ HostStops PROVE NoneGoesBack /\ OneGoesOn
<1> USE DEF providerVars, managerVars, seekerVars, sessionVars, closerVars
<1>1. ServersShape
  BY DEF ServersInv
<1>2. CASE CallerStep \/ HostStops
  <2>1. UNCHANGED <<passed, doomed, pc, told, session, closing>>
    BY <1>2 DEF CallerStep, HostStops, StartReturns, StartFails, StartRaises, HostReturns
  <2>2. /\ StartStage <= StartStage' /\ HostStage <= HostStage' /\ StopperStage <= StopperStage'
        /\ StartStage < StartStage' \/ HostStage < HostStage'
    BY <1>1, <1>2 DEF CallerStep, HostStops, StartReturns, StartFails, StartRaises, HostReturns,
       JoinsStop, StartStage, HostStage, StopperStage, ServersShape
  <2> QED
    BY <2>1, <2>2, SeekersStay, SessionsStay DEF NoneGoesBack, OneGoesOn
<1>3. CASE StopBegins
  <2>1. UNCHANGED <<start, host, passed, doomed, pc, session, closing>> /\ stopper = "born" /\ stopper' = "joining"
    BY <1>3 DEF StopBegins
  <2>2. \A k \in Seekers : told'[k] = told[k] \/ told'[k] # "no"
    BY <1>3 DEF StopBegins
  <2> QED
    BY <1>1, <2>1, <2>2, ToldForward, SessionsStay
       DEF NoneGoesBack, OneGoesOn, StartStage, HostStage, StopperStage
<1>4. CASE StopJoins \/ TakeClients \/ StopEnds
  <2>1. /\ UNCHANGED <<start, host, passed, pc, told, session, closing>>
        /\ stopper = "closing" => doomed' = doomed
        /\ StopperStage < StopperStage' /\ StopperStage <= StopperStage'
    BY <1>4 DEF StopJoins, TakeClients, StopEnds, StopperStage
  <2> QED
    BY <2>1, SeekersStay, SessionsStay DEF NoneGoesBack, OneGoesOn, StartStage, HostStage
<1>5. CASE \/ \E s \in Servers : PassLock(s)
           \/ \E k \in Seekers : CloseBegins(k) \/ CloseEnds(k)
  <2>1. UNCHANGED <<start, host, stopper, pc, told, session>>
    BY <1>5 DEF PassLock, CloseBegins, CloseEnds
  <2>2. passed \subseteq passed' /\ closing \subseteq closing' /\ doomed' \subseteq doomed
    BY <1>5 DEF PassLock, CloseBegins, CloseEnds
  <2>3. passed # passed' \/ closing # closing' \/ (stopper = "closing" /\ doomed # doomed')
    BY <1>5 DEF PassLock, CloseBegins, CloseEnds
  <2> QED
    BY <2>1, <2>2, <2>3, SeekersStay, SessionsStay
       DEF NoneGoesBack, OneGoesOn, StartStage, HostStage, StopperStage
<1> QED
  BY <1>2, <1>3, <1>4, <1>5 DEF CloserStep

\* No step of anybody goes back, and one of the system's own goes on.
LEMMA StepsAdvance == ServersInv /\ [ServersNext]_serversVars => [StagesAdvance]_serversVars
<1> SUFFICES ASSUME ServersInv, ServersNext PROVE StagesAdvance
  OBVIOUS
<1> USE DEF providerVars, closerVars, managerVars, seekerVars, sessionVars
<1>1. ServersShape /\ Users \subseteq Seekers /\ Servers \subseteq Seekers
  BY DEF ServersInv, Seekers
<1>2. SystemStep => NoneGoesBack /\ OneGoesOn
  BY <1>1, SeekerAdvances, StartupAdvances, ToldAdvances, OwnerAdvances, CloserAdvances
     DEF SystemStep, OwnerStep
<1>3. CASE StartProvider
  <2>1. /\ UNCHANGED <<host, stopper, passed, doomed, told, session, closing>>
        /\ start = "idle" /\ start' = "waiting"
        /\ pc' = [k \in Seekers |-> IF k \in Servers THEN "wants" ELSE pc[k]]
    BY <1>3 DEF StartProvider
  <2>2. \A k \in Seekers : pc'[k] = pc[k] \/ (pc[k] = "idle" /\ pc'[k] = "wants")
    BY <2>1 DEF ServersInv, Aims
  <2>3. \A p : PlaceStage(p) \in 0..7
    BY DEF PlaceStage
  <2>4. PlaceStage("idle") <= PlaceStage("wants")
    BY DEF PlaceStage
  <2>5. \A k \in Seekers : SeekerStage(k) <= SeekerStage(k)'
    BY <2>1, <2>2, <2>3, <2>4 DEF SeekerStage
  <2>6. NoneGoesBack
    BY <2>1, <2>5, SessionsStay DEF NoneGoesBack, StartStage, HostStage, StopperStage
  <2> QED
    BY <1>2, <2>6 DEF StagesAdvance
<1>4. CASE CutStart
  <2>1. UNCHANGED <<start, host, stopper, passed, doomed, pc, session, closing>>
    BY <1>4 DEF CutStart
  <2>2. \A k \in Seekers : told'[k] = told[k] \/ told'[k] # "no"
    BY <1>4 DEF CutStart
  <2>3. NoneGoesBack
    BY <1>1, <2>1, <2>2, ToldForward, SessionsStay DEF NoneGoesBack, StartStage, HostStage, StopperStage
  <2> QED
    BY <1>2, <2>3 DEF StagesAdvance
<1>5. ASSUME NEW u \in Users, NEW s \in Servers, UserSeeks(u, s) PROVE NoneGoesBack
  <2>1. u \in Seekers
    BY <1>1
  <2>2. PlaceStage(pc[u]) < PlaceStage("wants")
    BY <1>5 DEF UserSeeks, PlaceStage
  <2> QED
    BY <1>1, <1>5, <2>1, <2>2, SeekerForward, SessionsStay DEF UserSeeks, Goto, AroundSeeker
<1>6. CASE \E c \in Calls : CallStep(c)
  <2>1. UNCHANGED <<start, host, stopper, passed, doomed, pc, told, session, closing>>
    BY <1>6 DEF CallStep, Brings, Executes, Answers, Loses, AroundCall
  <2>2. NoneGoesBack
    BY <2>1, SeekersStay, SessionsStay DEF NoneGoesBack, StartStage, HostStage, StopperStage
  <2> QED
    BY <1>2, <2>2 DEF StagesAdvance
<1> QED
  BY <1>1, <1>2, <1>3, <1>4, <1>5, <1>6, SeekerAdvances, StartupAdvances, ToldAdvances, OwnerAdvances,
     CloserAdvances
     DEF ServersNext, OwnerStep, CallStep, StagesAdvance

\* No step takes a startup task, a caller, a session or the close back, and each
\* step of the system's own takes one of them further: of going on, which
\* AwaitedServersGoOn promises, there is an end (_start_server and stop of
\* MCPToolProvider, get_client and aclose of MCPClientManager).
THEOREM ServersGoForward == ServersSpec => [][StagesAdvance]_serversVars
<1> QED
  BY StepsAdvance, ServersInvariance, PTL DEF ServersSpec
=============================================================================
