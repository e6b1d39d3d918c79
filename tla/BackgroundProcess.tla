------------------------- MODULE BackgroundProcess -------------------------
(***************************************************************************)
(* The managed processes of one Task: core/kernel_process.py over the      *)
(* executor of adapters/local_process/executor.py.                         *)
(*                                                                         *)
(* A managed process has a durable record in the Task row, an entry in the *)
(* executor of the runtime that started it, a deadline timer there, and a  *)
(* life of its own in the operating system.  Four coroutines may close it: *)
(* an observer that waits or polls, an explicit stop, the clean-up at the  *)
(* end of the Task and the deadline.  Each reads the record, suspends for  *)
(* the process and for its output pumps, and then commits the record it    *)
(* remembers, finished.                                                    *)
(***************************************************************************)
EXTENDS Integers, FiniteSets

CONSTANTS
  Processes,    \* process identities the Turn may start
  StopOnEnd,    \* processes started with stop_on_task_end
  Daemonizing,  \* commands that leave a descendant holding their output pipes
  Shared,       \* another runtime has the same database open
  MaxCrashes,   \* bound: how often this runtime dies
  NoStatus      \* no result retained

ASSUME StopAssumption == StopOnEnd \subseteq Processes
ASSUME DaemonAssumption == Daemonizing \subseteq Processes

VARIABLES
  task,      \* "running", "ending" (clean-up under way) or "ended"
  up,        \* this runtime is alive
  crashes,   \* how often it died
  starting,  \* starting[p]: "no", "spawning" or "done"
  leader,    \* leader[p]: the process itself: "unborn", "alive" or "dead"
  heirs,     \* heirs[p]: a descendant holds the output pipes
  signalled, \* signalled[p]: the group has been sent TERM, and KILL follows
  owned,     \* owned[p]: the executor has p in _live or _completed
  pump,      \* pump[p]: the executor's _drain tasks
  kept,      \* kept[p]: the status in the executor's _completed, or NoStatus
  record,    \* record[p]: the state in the Task row
  timer,     \* timer[p]: the deadline task is pending
  closer,    \* closer[k][p]: where closer k of p is
  seen,      \* processes the other runtime has read as RUNNING
  todo,      \* processes the clean-up has still to stop
  due        \* history: processes the clean-up set out to stop

executor == <<owned, pump, kept>>
os == <<leader, heirs, signalled>>
processVars ==
  <<task, up, crashes, starting, os, executor, record, timer, closer, seen, todo, due>>

Closers == {"watch", "late", "stop", "cleanup", "deadline"}
Stoppers == Closers \ {"watch"}

\* ProcessExitStatus each closer reports (BackgroundProcessRecord.finish).
Status == [k \in Closers |-> CASE k = "watch"    -> "EXITED"
                               [] k \in {"late", "deadline"} -> "TIMED_OUT"
                               [] OTHER          -> "CANCELLED"]
Finished == {"EXITED", "CANCELLED", "TIMED_OUT"}
Terminal == Finished \cup {"ORPHANED"}
ASSUME StatusAssumption == NoStatus \notin Finished

ProcessTypeOK ==
  /\ task \in {"running", "ending", "ended"}
  /\ up \in BOOLEAN
  /\ crashes \in 0..MaxCrashes
  /\ starting \in [Processes -> {"no", "spawning", "done"}]
  /\ leader \in [Processes -> {"unborn", "alive", "dead"}]
  /\ heirs \in [Processes -> BOOLEAN]
  /\ signalled \in [Processes -> BOOLEAN]
  /\ owned \in [Processes -> BOOLEAN]
  /\ pump \in [Processes -> {"none", "reading", "done", "cancelled"}]
  /\ kept \in [Processes -> Finished \cup {NoStatus}]
  /\ record \in [Processes -> Terminal \cup {"none", "RUNNING"}]
  /\ timer \in [Processes -> BOOLEAN]
  /\ closer \in [Closers -> [Processes -> {"idle", "exiting", "draining"}]]
  /\ seen \subseteq Processes
  /\ todo \subseteq StopOnEnd
  /\ due \subseteq StopOnEnd

All(x) == [p \in Processes |-> x]
AllIdle == [k \in Closers |-> All("idle")]

ProcessInit ==
  /\ task = "running"
  /\ up = TRUE
  /\ crashes = 0
  /\ starting = All("no")
  /\ leader = All("unborn")
  /\ heirs = All(FALSE)
  /\ signalled = All(FALSE)
  /\ owned = All(FALSE)
  /\ pump = All("none")
  /\ kept = All(NoStatus)
  /\ record = All("none")
  /\ timer = All(FALSE)
  /\ closer = AllIdle
  /\ seen = {}
  /\ todo = {}
  /\ due = {}

-----------------------------------------------------------------------------
\* Starting.

\* The row is EXECUTING when it is read; it stays so while a cancellation is
\* cleaning up, and may have ended when the spawn returns.
BeginStart(p) ==
  /\ up
  /\ task # "ended"
  /\ starting[p] = "no"
  /\ starting' = [starting EXCEPT ![p] = "spawning"]
  /\ UNCHANGED <<task, up, crashes, os, executor, record, timer, closer, todo, seen, due>>

Spawn(p) ==
  /\ starting[p] = "spawning"
  /\ leader[p] = "unborn"
  /\ leader' = [leader EXCEPT ![p] = "alive"]
  /\ heirs' = [heirs EXCEPT ![p] = p \in Daemonizing]
  /\ UNCHANGED <<task, up, crashes, starting, signalled, executor, record, timer,
                 closer, todo, seen, due>>

\* The spawn returns: executor entry, record and deadline in one go.
CommitStart(p) ==
  /\ up
  /\ starting[p] = "spawning"
  /\ leader[p] # "unborn"
  /\ starting' = [starting EXCEPT ![p] = "done"]
  /\ owned' = [owned EXCEPT ![p] = TRUE]
  /\ pump' = [pump EXCEPT ![p] = "reading"]
  /\ record' = [record EXCEPT ![p] = "RUNNING"]
  /\ timer' = [timer EXCEPT ![p] = TRUE]
  /\ UNCHANGED <<task, up, crashes, os, kept, closer, todo, seen, due>>

-----------------------------------------------------------------------------
\* The operating system.

\* The command ends by itself, or before a signal reaches it.
LeaderExits(p) ==
  /\ leader[p] = "alive"
  /\ leader' = [leader EXCEPT ![p] = "dead"]
  /\ UNCHANGED <<task, up, crashes, starting, heirs, signalled, executor, record,
                 timer, closer, todo, seen, due>>

HeirsExit(p) ==
  /\ leader[p] = "dead"
  /\ heirs[p]
  /\ heirs' = [heirs EXCEPT ![p] = FALSE]
  /\ UNCHANGED <<task, up, crashes, starting, leader, signalled, executor, record,
                 timer, closer, todo, seen, due>>

\* A signal ends the process group.
GroupDies(p) ==
  /\ signalled[p]
  /\ leader[p] = "alive" \/ heirs[p]
  /\ leader' = [leader EXCEPT ![p] = "dead"]
  /\ heirs' = [heirs EXCEPT ![p] = FALSE]
  /\ UNCHANGED <<task, up, crashes, starting, signalled, executor, record, timer,
                 closer, todo, seen, due>>

PipesOpen(p) == leader[p] = "alive" \/ heirs[p]

\* The executor's pumps have read both pipes to their ends.
PumpEnds(p) ==
  /\ up
  /\ pump[p] = "reading"
  /\ ~PipesOpen(p)
  /\ pump' = [pump EXCEPT ![p] = "done"]
  /\ UNCHANGED <<task, up, crashes, starting, os, owned, kept, record, timer, closer,
                 todo, seen, due>>

-----------------------------------------------------------------------------
\* The closers.

CloserAt(k, p, where) == closer' = [closer EXCEPT ![k][p] = where]
Orphan(p) == record' = [record EXCEPT ![p] = "ORPHANED"]

\* executor.wait_process and poll_process: a poll of a live process changes
\* nothing, a dead one is finished.
Observes(p) ==
  /\ CloserAt("watch", p, IF leader[p] = "alive" THEN "exiting" ELSE "draining")
  /\ UNCHANGED <<signalled, record, timer>>

SignalsNobody(k, p) ==  \* mutant: signals the group once its leader is gone
  /\ CloserAt(k, p, IF leader[p] = "alive" THEN "exiting" ELSE "draining")
  /\ signalled' = [signalled EXCEPT ![p] = @ \/ leader[p] = "dead"]
  /\ UNCHANGED <<record, timer>>

\* executor.stop_process: only a live leader has its group signalled.
Signals(k, p) ==
  /\ CloserAt(k, p, IF leader[p] = "alive" THEN "exiting" ELSE "draining")
  /\ signalled' = [signalled EXCEPT ![p] = @ \/ leader[p] = "alive"]
  /\ UNCHANGED <<record, timer>>

\* The executor kept a result whose commit was lost: this one commits it.
Recalls(p) ==
  /\ record' = [record EXCEPT ![p] = kept[p]]
  /\ timer' = [timer EXCEPT ![p] = FALSE]
  /\ closer' = [closer EXCEPT !["deadline"][p] = "idle"]
  /\ UNCHANGED signalled

\* _mark_background_orphaned: nobody here can prove what p is.
Disowns(p) ==
  /\ Orphan(p)
  /\ UNCHANGED <<signalled, timer, closer>>

\* _stop_background_record.
Stops(k, p) == \/ ~owned[p] /\ Disowns(p)
               \/ owned[p] /\ kept[p] # NoStatus /\ Recalls(p)
               \/ owned[p] /\ kept[p] = NoStatus /\ Signals(k, p)

\* wait_background_process, get_background_process_status and
\* reconcile_background_processes.
Watch(p) ==
  /\ up
  /\ closer["watch"][p] = "idle"
  /\ record[p] = "RUNNING"
  /\ \/ ~owned[p] /\ Disowns(p)
     \/ owned[p] /\ kept[p] # NoStatus /\ Recalls(p)
     \/ owned[p] /\ kept[p] = NoStatus /\ Observes(p)
  /\ UNCHANGED <<task, up, crashes, starting, leader, heirs, executor, todo, seen, due>>

\* The same observers past the deadline, before its timer ran.
WatchLate(p) ==
  /\ up
  /\ closer["late"][p] = "idle"
  /\ record[p] = "RUNNING"
  /\ Stops("late", p)
  /\ UNCHANGED <<task, up, crashes, starting, leader, heirs, executor, todo, seen, due>>

StopDropsTimer(p) ==  \* mutant: forgets the deadline before the process ended
  /\ up
  /\ closer["stop"][p] = "idle"
  /\ record[p] = "RUNNING"
  /\ kept[p] = NoStatus
  /\ owned[p]
  /\ CloserAt("stop", p, IF leader[p] = "alive" THEN "exiting" ELSE "draining")
  /\ signalled' = [signalled EXCEPT ![p] = @ \/ leader[p] = "alive"]
  /\ timer' = [timer EXCEPT ![p] = FALSE]
  /\ UNCHANGED <<task, up, crashes, starting, leader, heirs, executor, record, todo,
                 seen, due>>

\* stop_background_process.
Stop(p) ==
  /\ up
  /\ closer["stop"][p] = "idle"
  /\ record[p] = "RUNNING"
  /\ Stops("stop", p)
  /\ UNCHANGED <<task, up, crashes, starting, leader, heirs, executor, todo, seen, due>>

\* The deadline task wakes up; it reads the record again.
DeadlineFires(p) ==
  /\ timer[p]
  /\ closer["deadline"][p] = "idle"
  /\ IF record[p] = "RUNNING"
       THEN Stops("deadline", p)
       ELSE timer' = [timer EXCEPT ![p] = FALSE] /\ UNCHANGED <<closer, signalled, record>>
  /\ UNCHANGED <<task, up, crashes, starting, leader, heirs, executor, todo, seen, due>>

\* A terminal transition validates itself and snapshots what it must stop.
BeginEnd ==
  /\ up
  /\ task = "running"
  /\ task' = "ending"
  /\ todo' = {p \in StopOnEnd : record[p] = "RUNNING"}
  /\ due' = {p \in StopOnEnd : record[p] = "RUNNING"}
  /\ UNCHANGED <<up, crashes, starting, os, executor, record, timer, closer, seen>>

\* The clean-up takes the next record of its snapshot, whatever it is by now,
\* and goes on at once unless it has to wait for the process.
CleanUp(p) ==
  /\ task = "ending"
  /\ p \in todo
  /\ \A q \in Processes : closer["cleanup"][q] = "idle"
  /\ Stops("cleanup", p)
  /\ todo' = IF owned[p] /\ kept[p] = NoStatus THEN todo ELSE todo \ {p}
  /\ UNCHANGED <<task, up, crashes, starting, leader, heirs, executor, seen, due>>

\* The transition commits.
End ==
  /\ task = "ending"
  /\ todo = {}
  /\ task' = "ended"
  /\ UNCHANGED <<up, crashes, starting, os, executor, record, timer, closer, todo, seen, due>>

FailsBusy(k, p) ==  \* mutant: a failed clean-up leaves its transition pending
  /\ CloserAt(k, p, "idle")
  /\ timer' = IF k = "deadline" THEN [timer EXCEPT ![p] = FALSE] ELSE timer
  /\ UNCHANGED <<task, todo>>

\* A closer ends with an exception.  A deadline task is not started again, and
\* the transition a clean-up belongs to fails: its row stays what it was.
Fails(k, p) ==
  /\ CloserAt(k, p, "idle")
  /\ timer' = IF k = "deadline" THEN [timer EXCEPT ![p] = FALSE] ELSE timer
  /\ task' = IF k = "cleanup" THEN "running" ELSE task
  /\ todo' = IF k = "cleanup" THEN {} ELSE todo

\* process.wait() returns: the leader is dead and its pipes are disconnected.
Resume(k, p) ==
  /\ closer[k][p] = "exiting"
  /\ leader[p] = "dead"
  /\ ~heirs[p]
  /\ CloserAt(k, p, "draining")
  /\ UNCHANGED <<task, up, crashes, starting, os, executor, record, timer, todo, seen, due>>

CompletesUndrained(k, p) ==  \* mutant: does not wait for the output pumps
  /\ closer[k][p] = "draining"
  /\ kept' = [kept EXCEPT ![p] = Status[k]]
  /\ record' = [record EXCEPT ![p] = Status[k]]
  /\ timer' = [timer EXCEPT ![p] = FALSE]
  /\ closer' = [closer EXCEPT ![k][p] = "idle", !["deadline"][p] = "idle"]
  /\ todo' = IF k = "cleanup" THEN todo \ {p} ELSE todo
  /\ UNCHANGED <<task, up, crashes, starting, os, owned, pump, seen, due>>

\* The pumps are done: the executor keeps the closer's result, the record is
\* committed as that result, and the deadline task is cancelled.
Complete(k, p) ==
  /\ closer[k][p] = "draining"
  /\ pump[p] = "done"
  /\ kept' = [kept EXCEPT ![p] = Status[k]]
  /\ record' = [record EXCEPT ![p] = Status[k]]
  /\ timer' = [timer EXCEPT ![p] = FALSE]
  /\ closer' = [closer EXCEPT ![k][p] = "idle", !["deadline"][p] = "idle"]
  /\ todo' = IF k = "cleanup" THEN todo \ {p} ELSE todo
  /\ UNCHANGED <<task, up, crashes, starting, os, owned, pump, seen, due>>

\* The pumps were cancelled: gather raises in every closer from now on.
Raises(k, p) ==
  /\ closer[k][p] = "draining"
  /\ pump[p] = "cancelled"
  /\ Fails(k, p)
  /\ UNCHANGED <<pump, kept>>
  /\ UNCHANGED <<up, crashes, starting, os, owned, record, seen, due>>

\* Another runtime commits to the row between the load and the commit of
\* _commit_background_process: the executor has the result, the row has not.
CommitLost(k, p) ==
  /\ Shared
  /\ closer[k][p] = "draining"
  /\ pump[p] = "done"
  /\ kept' = [kept EXCEPT ![p] = Status[k]]
  /\ Fails(k, p)
  /\ UNCHANGED <<up, crashes, starting, os, owned, pump, record, seen, due>>

\* A wait window or a tool deadline ends, or the Turn is interrupted, while a
\* tool or a clean-up waits: gather cancels the pumps it waits for.
CancelCloser(k, p) ==
  /\ k # "deadline"
  /\ closer[k][p] # "idle"
  /\ pump' = IF closer[k][p] = "draining" /\ pump[p] = "reading"
               THEN [pump EXCEPT ![p] = "cancelled"] ELSE pump
  /\ Fails(k, p)
  /\ UNCHANGED <<up, crashes, starting, os, owned, kept, record, seen, due>>

-----------------------------------------------------------------------------
\* Runtimes come and go.

\* The runtime dies: its children live on in sessions of their own, a spawn
\* that had not returned is never recorded, and the row is what it was.
Crash ==
  /\ up
  /\ crashes < MaxCrashes
  /\ crashes' = crashes + 1
  /\ up' = FALSE
  /\ task' = IF task = "ending" THEN "running" ELSE task
  /\ starting' = [p \in Processes |-> IF starting[p] = "spawning" THEN "done" ELSE starting[p]]
  /\ owned' = All(FALSE)
  /\ pump' = All("none")
  /\ kept' = All(NoStatus)
  /\ timer' = All(FALSE)
  /\ closer' = AllIdle
  /\ todo' = {}
  /\ UNCHANGED <<os, record, seen, due>>

Restart ==
  /\ ~up
  /\ up' = TRUE
  /\ UNCHANGED <<task, crashes, starting, os, executor, record, timer, closer, todo,
                 seen, due>>

\* Another runtime reads a process it does not own, and later commits the
\* record it remembers, orphaned.
ForeignReads(p) ==
  /\ Shared
  /\ record[p] = "RUNNING"
  /\ p \notin seen
  /\ seen' = seen \cup {p}
  /\ UNCHANGED <<task, up, crashes, starting, os, executor, record, timer, closer, todo, due>>

ForeignOrphan(p) ==
  /\ p \in seen
  /\ seen' = seen \ {p}
  /\ Orphan(p)
  /\ UNCHANGED <<task, up, crashes, starting, os, executor, timer, closer, todo, due>>

ProcessNext ==
  \/ \E p \in Processes :
       \/ BeginStart(p) \/ Spawn(p) \/ CommitStart(p)
       \/ LeaderExits(p) \/ HeirsExit(p) \/ GroupDies(p) \/ PumpEnds(p)
       \/ Watch(p) \/ WatchLate(p) \/ Stop(p) \/ DeadlineFires(p) \/ CleanUp(p)
       \/ ForeignReads(p) \/ ForeignOrphan(p)
       \/ \E k \in Closers : \/ Resume(k, p) \/ Complete(k, p) \/ CommitLost(k, p)
                             \/ Raises(k, p) \/ CancelCloser(k, p)
  \/ BeginEnd \/ End \/ Crash \/ Restart

ProcessSpec == ProcessInit /\ [][ProcessNext]_processVars

\* The event loop resumes what can go on, deadlines pass, and a stopper that is
\* still waiting follows TERM with KILL.  Nothing makes a command, or what it
\* leaves behind, end by itself.
StopperWaits(p) == \E k \in Stoppers : closer[k][p] = "exiting"
ProcessLiveSpec ==
  /\ ProcessSpec
  /\ WF_processVars(End)
  /\ \A p \in Processes :
       /\ WF_processVars(StopperWaits(p) /\ GroupDies(p)) /\ WF_processVars(PumpEnds(p))
       /\ WF_processVars(CleanUp(p)) /\ WF_processVars(DeadlineFires(p))
       /\ \A k \in Closers :
            WF_processVars(Resume(k, p) \/ Complete(k, p) \/ Raises(k, p))

-----------------------------------------------------------------------------
\* A record that says how a process ended is never wrong about that it ended:
\* the leader is dead and nobody writes to its pipes, so no output is missing
\* (BackgroundProcessRecord.finish is committed only after LocalProcessExecutor._finish).
FinishedIsOver ==
  \A p \in Processes : record[p] \in Finished => leader[p] = "dead" /\ ~heirs[p]

\* A process that this runtime owns and calls RUNNING has a deadline that will
\* stop it, through every stop, wait and clean-up that was cut short, as long
\* as its output can be collected (_schedule_background_deadline).
RunningHasDeadline ==
  \A p \in Processes :
    record[p] = "RUNNING" /\ owned[p] /\ pump[p] # "cancelled" /\ kept[p] = NoStatus
      => timer[p]

\* A deadline outlives its process only where another runtime gave it up
\* (_complete_background_process cancels the timer).
DeadlineHasProcess ==
  \A p \in Processes :
    timer[p] => record[p] = "RUNNING" \/ (Shared /\ record[p] = "ORPHANED")

\* The result the executor hands out and the state in the row are the same
\* ending, however many closers finished the process.
KeptMatchesRecord ==
  ~Shared => \A p \in Processes : kept[p] # NoStatus => record[p] = kept[p]

\* What was RUNNING when the Task began to end is over when it has ended
\* ("a terminal Task must not leave background processes running").
EndStopsWhatItFound ==
  task = "ended" => \A p \in due : record[p] # "RUNNING"

\* A descendant of a command that is over keeps its output open.
HeldOpen(p) == leader[p] = "dead" /\ heirs[p]

\* A stop comes back (stop_process), unless what the command left behind keeps
\* its output open.
StopReturns ==
  \A p \in Processes : closer["stop"][p] # "idle" ~> closer["stop"][p] = "idle" \/ HeldOpen(p)

\* Under the same condition a Task whose clean-up began ends or is told that it
\* did not (transition_task).
EndReturns == task = "ending" ~> task # "ending" \/ \E p \in Processes : HeldOpen(p)

\* Nobody who closes a process waits for ever, neither a stop nor the end of the
\* Task (stop_process, transition_task).
ClosersReturn == StopReturns /\ EndReturns

\* "a terminal Task must not leave background processes running": neither those
\* it found nor those started meanwhile.
EndLeavesNoneRunning ==
  task = "ended" => \A p \in StopOnEnd : record[p] # "RUNNING"

\* A record that is terminal (BackgroundProcessState.is_terminal) stays as it is.
TerminalIsFinal ==
  [][\A p \in Processes : record[p] \in Terminal => record'[p] = record[p]]_processVars

\* The deadline ends every process the runtime owns.
DeadlineEnforced ==
  \A p \in Processes :
    record[p] = "RUNNING" /\ timer[p] ~> record[p] \in Terminal \/ ~up
=============================================================================
