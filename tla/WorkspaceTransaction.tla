------------------------ MODULE WorkspaceTransaction ------------------------
(***************************************************************************)
(* Changes of one Task to its workspace: core/kernel_workspace.py over the *)
(* files of core/workspace.py.                                             *)
(*                                                                         *)
(* A change to several files writes a manifest, replaces the files one by  *)
(* one, commits their records to the journal of the Task row and removes   *)
(* the manifest; when something fails it puts the files back.  A change to *)
(* one file has no manifest.  Every operation first recovers what the      *)
(* manifests it finds say was left unfinished.  Files are locked across    *)
(* runtimes, in one order, while they are worked on.                       *)
(***************************************************************************)
EXTENDS Integers, Sequences, FiniteSets, FiniteSetsExt

CONSTANTS
  Files,       \* paths, numbered in the order of their lock keys
  Contents,    \* contents a file can have
  Absent,      \* no file
  Initial,     \* what the workspace held when the Task began
  Begun,       \* the journal of what the Task has done so far
  Runtimes,    \* processes with the same database and workspace
  MaxChanges,  \* bound: changes attempted
  MaxEdits,    \* bound: edits by somebody else
  MaxCrashes,  \* bound: crashes
  None

ASSUME FilesAssumption == IsFiniteSet(Files) /\ Files \subseteq Nat
ASSUME NobodyAssumption == None \notin Runtimes
ASSUME InitialAssumption == Initial \in [Files -> Contents \cup {Absent}]
ASSUME AbsentAssumption == Absent \notin Contents
ASSUME BegunAssumption ==
  Begun \in [Files -> Seq([tx : {0}, before : Contents \cup {Absent},
                           after : Contents \cup {Absent}, reverts : Nat])]

\* In a log of records, a mutation is rolled back at most once, and a roll-back never.
RevertsOnce(log) ==
  \A i, j \in DOMAIN log :
    log[j].reverts = i =>
      /\ log[i].reverts = 0
      /\ \A k \in DOMAIN log \ {j} : log[k].reverts # i

ASSUME BegunRevertsAssumption ==
  \A f \in Files :
    RevertsOnce(Begun[f]) /\ \A j \in DOMAIN Begun[f] : Begun[f][j].reverts < j

\* Nobody else has changed a file so far: each record of what the Task has done
\* starts from what the one before it left.
ASSUME BegunChainAssumption ==
  \A f \in Files : \A i \in DOMAIN Begun[f] :
    Begun[f][i].before = IF i = 1 THEN Initial[f] ELSE Begun[f][i - 1].after

VARIABLES
  disk,       \* disk[f]: the content of f
  journal,    \* journal[f]: the mutation records of f in the Task row
  manifests,  \* the transactions that have a manifest
  holder,     \* holder[f]: the runtime that holds the lock of f
  pc,         \* pc[r]: where the operation of r is
  want,       \* want[r]: the files it locks
  job,        \* job[r]: the transaction it carries out or recovers
  found,      \* found[r]: manifests it has still to recover
  left,       \* left[r]: files it has still to replace or restore
  attempted,  \* attempted[r]: files to put back if it fails, the last first
  unsafe,     \* unsafe[r]: a file could not be put back
  fresh,      \* fresh[r]: r has loaded the row for its commit and nobody has committed since
  changes, edits, crashes,
  excused     \* history: why a file may hold what no record says

files == <<disk, excused>>
row == <<journal, fresh>>
bounds == <<changes, edits, crashes>>
work == <<job, found, left, attempted, unsafe>>
vars == <<files, row, manifests, holder, pc, want, work, bounds>>

State == Contents \cup {Absent}
Holding(r) == {f \in Files : holder[f] = r}

-----------------------------------------------------------------------------
\* The journal.

ActiveOnceMore(f) ==  \* mutant: what is rolled back can be rolled back again
  {i \in DOMAIN journal[f] : journal[f][i].reverts = 0}

\* Mutations that are no roll-backs and have not been rolled back.
Active(f) ==
  {i \in DOMAIN journal[f] :
     /\ journal[f][i].reverts = 0
     /\ \A j \in DOMAIN journal[f] : journal[f][j].reverts # i}

Committed(tx) == \E f \in Files : \E i \in DOMAIN journal[f] : journal[f][i].tx = tx.id

\* The newest active mutations of f, each picking up where the one before it
\* left off.
Chains(f) ==
  {c \in SUBSET Active(f) :
     /\ c # {}
     /\ \A i \in Active(f) : i > Min(c) => i \in c
     /\ \A i \in c \ {Min(c)} :
          journal[f][i].before = journal[f][Max({j \in c : j < i})].after}

Entry(before, after, undoes) == [before |-> before, after |-> after, undoes |-> undoes]

RecordsInOrder(id, f, e) ==  \* mutant: undoes the oldest mutation first
  IF e.undoes = {} THEN <<[tx |-> id, before |-> e.before, after |-> e.after, reverts |-> 0]>>
  ELSE [n \in 1..Cardinality(e.undoes) |->
          LET i == CHOOSE i \in e.undoes : Cardinality({j \in e.undoes : j <= i}) = n
          IN [tx |-> id, before |-> journal[f][i].after,
              after |-> journal[f][i].before, reverts |-> i]]

\* The records of a change of f; a roll-back has one for every mutation it
\* undoes, the newest first.
Records(id, f, e) ==
  IF e.undoes = {} THEN <<[tx |-> id, before |-> e.before, after |-> e.after, reverts |-> 0]>>
  ELSE [n \in 1..Cardinality(e.undoes) |->
          LET i == CHOOSE i \in e.undoes : Cardinality({j \in e.undoes : j >= i}) = n
          IN [tx |-> id, before |-> journal[f][i].after,
              after |-> journal[f][i].before, reverts |-> i]]

\* What the journal says f holds.
Said(f) == IF journal[f] = <<>> THEN Initial[f] ELSE journal[f][Len(journal[f])].after

-----------------------------------------------------------------------------
NoTx == [id |-> 0, entries |-> <<>>]

Init ==
  /\ journal = Begun
  /\ disk = [f \in Files |-> Said(f)]
  /\ manifests = {}
  /\ holder = [f \in Files |-> None]
  /\ pc = [r \in Runtimes |-> "idle"]
  /\ want = [r \in Runtimes |-> {}]
  /\ job = [r \in Runtimes |-> NoTx]
  /\ found = [r \in Runtimes |-> {}]
  /\ left = [r \in Runtimes |-> {}]
  /\ attempted = [r \in Runtimes |-> <<>>]
  /\ unsafe = [r \in Runtimes |-> FALSE]
  /\ fresh = [r \in Runtimes |-> FALSE]
  /\ changes = 0
  /\ edits = 0
  /\ crashes = 0
  /\ excused = {}

Places == {"idle", "sweeping", "recovering", "restoring", "preparing",
           "writing", "closing", "undoing"}
Goto(r, where) == pc' = [pc EXCEPT ![r] = where]
Durable(r) == Cardinality(DOMAIN job[r].entries) > 1
Goes(r) == job[r].entries

Unlocks(r) ==
  /\ holder' = [f \in Files |-> IF holder[f] = r THEN None ELSE holder[f]]
  /\ want' = [want EXCEPT ![r] = {}]

\* The operation returns, or ends with an exception.
Ends(r) ==
  /\ Goto(r, "idle")
  /\ Unlocks(r)
  /\ job' = [job EXCEPT ![r] = NoTx]
  /\ found' = [found EXCEPT ![r] = {}]
  /\ left' = [left EXCEPT ![r] = {}]
  /\ attempted' = [attempted EXCEPT ![r] = <<>>]
  /\ unsafe' = [unsafe EXCEPT ![r] = FALSE]

\* Somebody commits to the row: what the others have loaded is stale.
Stales(r) == fresh' = [q \in Runtimes |-> FALSE]

-----------------------------------------------------------------------------
\* Recovery, at the beginning of every operation.

Begin(r) ==
  /\ pc[r] = "idle"
  /\ found' = [found EXCEPT ![r] = manifests]
  /\ Goto(r, "sweeping")
  /\ UNCHANGED <<files, row, manifests, holder, want, job, left, attempted, unsafe, bounds>>

NextManifest(r) ==
  /\ pc[r] = "sweeping"
  /\ \E tx \in found[r] :
       /\ job' = [job EXCEPT ![r] = tx]
       /\ want' = [want EXCEPT ![r] = DOMAIN tx.entries]
  /\ Goto(r, "recovering")
  /\ UNCHANGED <<files, row, manifests, holder, found, left, attempted, unsafe, bounds>>

\* Nothing left to recover: a resume ends here, a change asks for its files.
Resumed(r) ==
  /\ pc[r] = "sweeping"
  /\ found[r] = {}
  /\ Ends(r)
  /\ UNCHANGED <<files, row, manifests, bounds>>

AskFiles(r) ==
  /\ pc[r] = "sweeping"
  /\ found[r] = {}
  /\ changes < MaxChanges
  /\ \E fs \in SUBSET Files \ {{}} : want' = [want EXCEPT ![r] = fs]
  /\ Goto(r, "preparing")
  /\ UNCHANGED <<files, row, manifests, holder, work, bounds>>

LockAnyOrder(r) ==  \* mutant: locks the files as they were asked for
  /\ \E f \in want[r] \ Holding(r) :
       /\ holder[f] = None
       /\ holder' = [holder EXCEPT ![f] = r]
  /\ UNCHANGED <<files, row, manifests, pc, want, work, bounds>>

\* hold_many: one lock after the other, in the order of their keys.
Lock(r) ==
  /\ \E f \in want[r] \ Holding(r) :
       /\ \A g \in want[r] \ Holding(r) : f <= g
       /\ holder[f] = None
       /\ holder' = [holder EXCEPT ![f] = r]
  /\ UNCHANGED <<files, row, manifests, pc, want, work, bounds>>

Locked(r) == want[r] # {} /\ want[r] \subseteq Holding(r)

\* The operation is cancelled while it waits for a lock.
CancelWaiting(r) ==
  /\ want[r] \ Holding(r) # {}
  /\ Ends(r)
  /\ UNCHANGED <<files, row, manifests, bounds>>

\* Each file is as it was before the transaction, or as it was after.
Recoverable(tx) ==
  \A f \in DOMAIN tx.entries : disk[f] \in {tx.entries[f].before, tx.entries[f].after}

RestoreAll(r) ==  \* mutant: restores without asking the journal
  /\ pc[r] = "recovering"
  /\ Locked(r)
  /\ Recoverable(job[r])
  /\ left' = [left EXCEPT ![r] = {f \in want[r] : disk[f] # Goes(r)[f].before}]
  /\ Goto(r, "restoring")
  /\ UNCHANGED <<files, row, manifests, holder, want, job, found, attempted, unsafe, bounds>>

\* An uncommitted transaction is undone: its files that have been replaced are
\* found, and nothing is restored when one of them is neither.
Inspect(r) ==
  /\ pc[r] = "recovering"
  /\ Locked(r)
  /\ Committed(job[r]) \/ Recoverable(job[r])
  /\ left' = [left EXCEPT ![r] = IF Committed(job[r]) THEN {}
                                 ELSE {f \in want[r] : disk[f] # Goes(r)[f].before}]
  /\ Goto(r, "restoring")
  /\ UNCHANGED <<files, row, manifests, holder, want, job, found, attempted, unsafe, bounds>>

\* WorkspaceMutationConflict: the manifest stays for another time.
Conflicts(r) ==
  /\ pc[r] = "recovering"
  /\ Locked(r)
  /\ ~Committed(job[r])
  /\ ~Recoverable(job[r])
  /\ Ends(r)
  /\ UNCHANGED <<files, row, manifests, bounds>>

\* Each restoration checks its file again.
Restore(r) ==
  /\ pc[r] = "restoring"
  /\ \E f \in left[r] :
       /\ disk[f] = Goes(r)[f].after
       /\ disk' = [disk EXCEPT ![f] = Goes(r)[f].before]
       /\ left' = [left EXCEPT ![r] = @ \ {f}]
       /\ excused' = IF \E i \in DOMAIN journal[f] : journal[f][i].tx > job[r].id
                       THEN excused \cup {<<f, "unswept">>} ELSE excused
  /\ UNCHANGED <<row, manifests, holder, pc, want, job, found, attempted, unsafe, bounds>>

\* A file has changed meanwhile or cannot be written, or the event cannot be
\* committed: the manifest stays.
RecoveryFails(r) ==
  /\ pc[r] = "restoring"
  /\ Ends(r)
  /\ UNCHANGED <<files, row, manifests, bounds>>

\* The recovery is reported and its manifest removed; if somebody has removed
\* it already, that raises.
Recovered(r) ==
  /\ pc[r] = "restoring"
  /\ left[r] = {}
  /\ Stales(r)
  /\ manifests' = manifests \ {job[r]}
  /\ \/ /\ job[r] \in manifests
        /\ found' = [found EXCEPT ![r] = @ \ {job[r]}]
        /\ job' = [job EXCEPT ![r] = NoTx]
        /\ Unlocks(r)
        /\ Goto(r, "sweeping")
        /\ UNCHANGED <<left, attempted, unsafe>>
     \/ job[r] \notin manifests /\ Ends(r)
  /\ UNCHANGED <<files, journal, bounds>>

-----------------------------------------------------------------------------
\* A change: a write, a deletion or a roll-back of one file or several.

\* Contents are given by the caller; only a single file can be deleted.
WriteEntries(fs) ==
  {[f \in fs |-> Entry(disk[f], after[f], {})] : after \in [fs -> Contents]}
DeleteEntries(fs) ==
  {entries \in {[f \in fs |-> Entry(disk[f], Absent, {})]} :
     Cardinality(fs) = 1 /\ \A f \in fs : disk[f] # Absent}
RollbackEntries(fs) ==
  LET undoable(f) == IF Cardinality(fs) = 1 THEN {{i} : i \in Active(f)} ELSE Chains(f)
      chains == UNION {undoable(f) : f \in fs}
  IN {[f \in fs |-> Entry(journal[f][Max(c[f])].after, journal[f][Min(c[f])].before, c[f])] :
        c \in {c \in [fs -> chains] : \A f \in fs : c[f] \in undoable(f)}}

\* Under the locks the row is loaded and the change prepared: each file is what
\* the caller, or the journal, expects.  Several files get a manifest; one that
\* is missing and stays so is not touched.
Prepare(r) ==
  /\ pc[r] = "preparing"
  /\ Locked(r)
  /\ changes < MaxChanges
  /\ changes' = changes + 1
  /\ fresh' = [fresh EXCEPT ![r] = TRUE]
  /\ \E entries \in RollbackEntries(want[r]) \cup
       IF job[r] = NoTx THEN WriteEntries(want[r]) \cup DeleteEntries(want[r]) ELSE {} :
       LET tx == [id |-> changes + 1, entries |-> entries]
       IN /\ \A f \in want[r] : disk[f] = entries[f].before
          /\ job' = [job EXCEPT ![r] = tx]
          /\ left' = [left EXCEPT ![r] = {f \in want[r] :
               entries[f].before # Absent \/ entries[f].after # Absent}]
          /\ manifests' = IF Cardinality(want[r]) > 1 THEN manifests \cup {tx} ELSE manifests
  /\ Goto(r, "writing")
  /\ excused' = excused \cup {<<f, "unswept">> : f \in {f \in want[r] :
       \E tx \in manifests : f \in DOMAIN tx.entries /\ ~Committed(tx)}}
  /\ UNCHANGED <<disk, journal, holder, want, found, attempted, unsafe, edits, crashes>>

\* The caller expected something else, or has nothing to roll back.
Refuse(r) ==
  /\ pc[r] = "preparing"
  /\ Locked(r)
  /\ Ends(r)
  /\ UNCHANGED <<files, row, manifests, bounds>>

\* One file after the other is replaced.  The first one that has changed
\* meanwhile, or that fails before or after its replacement, ends the change:
\* several files are put back, a single one is left as it is.
Write(r) ==
  /\ pc[r] = "writing"
  /\ \E f \in left[r] :
       /\ left' = [left EXCEPT ![r] = @ \ {f}]
       /\ attempted' = [attempted EXCEPT ![r] = <<f>> \o @]
       /\ disk[f] = Goes(r)[f].before
       /\ disk' = [disk EXCEPT ![f] = Goes(r)[f].after]
  /\ UNCHANGED <<excused, row, manifests, holder, pc, want, job, found, unsafe, bounds>>

WriteFails(r) ==
  /\ pc[r] = "writing"
  /\ \E f \in left[r] :
       /\ \/ disk' = disk
          \/ disk[f] = Goes(r)[f].before /\ disk' = [disk EXCEPT ![f] = Goes(r)[f].after]
       /\ IF Durable(r)
            THEN /\ attempted' = [attempted EXCEPT ![r] = <<f>> \o @]
                 /\ left' = [left EXCEPT ![r] = {}]
                 /\ Goto(r, "undoing")
                 /\ UNCHANGED <<excused, holder, want, job, found, unsafe>>
            ELSE /\ excused' = IF disk' = disk THEN excused ELSE excused \cup {<<f, "dropped">>}
                 /\ Ends(r)
  /\ fresh' = [fresh EXCEPT ![r] = FALSE]
  /\ UNCHANGED <<journal, manifests, bounds>>

\* The records are committed, all of them at once.
Commit(r) ==
  /\ pc[r] = "writing"
  /\ left[r] = {}
  /\ fresh[r]
  /\ journal' = [f \in Files |-> journal[f] \o
       IF f \in want[r] THEN Records(job[r].id, f, Goes(r)[f]) ELSE <<>>]
  /\ Stales(r)
  /\ Goto(r, "closing")
  /\ UNCHANGED <<files, manifests, holder, want, work, bounds>>

\* Version conflict.
CommitFails(r) ==
  /\ pc[r] = "writing"
  /\ left[r] = {}
  /\ ~fresh[r]
  /\ Goto(r, "undoing")
  /\ UNCHANGED <<files, row, manifests, holder, want, work, bounds>>

\* A failed removal of the manifest is left to recovery.
Close(r) ==
  /\ pc[r] = "closing"
  /\ manifests' \in {manifests, manifests \ {job[r]}}
  /\ Ends(r)
  /\ UNCHANGED <<files, row, bounds>>

\* A cascade goes on with another mutation of the file it holds.
Cascade(r) ==
  /\ pc[r] = "closing"
  /\ ~Durable(r)
  /\ \A f \in want[r] : Goes(r)[f].undoes # {}
  /\ attempted' = [attempted EXCEPT ![r] = <<>>]
  /\ Goto(r, "preparing")
  /\ UNCHANGED <<files, row, manifests, holder, want, job, found, left, unsafe, bounds>>

\* The attempted files are put back, the last first: one that was replaced is
\* restored, one that was not stays, another one, or a failure, is remembered.
Undo(r) ==
  /\ pc[r] = "undoing"
  /\ attempted[r] # <<>>
  /\ LET f == Head(attempted[r])
     IN \/ /\ disk[f] \in {Goes(r)[f].before, Goes(r)[f].after}
           /\ disk' = [disk EXCEPT ![f] = Goes(r)[f].before]
           /\ UNCHANGED <<unsafe, excused>>
        \/ /\ unsafe' = [unsafe EXCEPT ![r] = TRUE]
           /\ excused' = IF Durable(r) THEN excused ELSE excused \cup {<<f, "dropped">>}
           /\ UNCHANGED disk
  /\ attempted' = [attempted EXCEPT ![r] = Tail(@)]
  /\ UNCHANGED <<row, manifests, holder, pc, want, job, found, left, bounds>>

\* The manifest is removed when every file is back; that can fail too.
Undone(r) ==
  /\ pc[r] = "undoing"
  /\ attempted[r] = <<>>
  /\ \/ UNCHANGED manifests
     \/ ~unsafe[r] /\ manifests' = manifests \ {job[r]}
  /\ Ends(r)
  /\ UNCHANGED <<files, row, bounds>>

-----------------------------------------------------------------------------
\* The surroundings.

\* The runtime dies: its locks are free, its files and manifests stay.
Crash(r) ==
  /\ pc[r] # "idle"
  /\ crashes < MaxCrashes
  /\ crashes' = crashes + 1
  /\ excused' = IF pc[r] \in {"writing", "undoing"} /\ ~Durable(r) /\ attempted[r] # <<>>
                   THEN excused \cup (want[r] \X {"dropped"}) ELSE excused
  /\ fresh' = [fresh EXCEPT ![r] = FALSE]
  /\ Ends(r)
  /\ UNCHANGED <<disk, journal, manifests, changes, edits>>

\* Somebody else changes a file.
Edit ==
  /\ edits < MaxEdits
  /\ edits' = edits + 1
  /\ \E f \in Files : \E c \in State \ {disk[f]} :
       /\ disk' = [disk EXCEPT ![f] = c]
       /\ excused' = excused \cup {<<f, "edited">>}
  /\ UNCHANGED <<row, manifests, holder, pc, want, work, changes, crashes>>

\* Another runtime commits something else to the row.
OtherCommit ==
  /\ Cardinality(Runtimes) > 1
  /\ \E r \in Runtimes : fresh[r] /\ Stales(r)
  /\ UNCHANGED <<files, journal, manifests, holder, pc, want, work, bounds>>

Next ==
  \/ \E r \in Runtimes :
       \/ Begin(r) \/ NextManifest(r) \/ Resumed(r) \/ AskFiles(r) \/ Lock(r) \/ CancelWaiting(r)
       \/ Inspect(r) \/ Conflicts(r) \/ Restore(r) \/ RecoveryFails(r) \/ Recovered(r)
       \/ Prepare(r) \/ Refuse(r) \/ Write(r) \/ WriteFails(r) \/ Commit(r) \/ CommitFails(r)
       \/ Close(r) \/ Cascade(r) \/ Undo(r) \/ Undone(r) \/ Crash(r)
  \/ Edit \/ OtherCommit

Spec == Init /\ [][Next]_vars

-----------------------------------------------------------------------------
Entries == [before : State, after : State, undoes : SUBSET Nat]
TypeOK ==
  /\ disk \in [Files -> State]
  /\ \A f \in Files : \A i \in DOMAIN journal[f] :
       journal[f][i] \in [tx : 0..MaxChanges, before : State, after : State, reverts : 0..(i - 1)]
  /\ \A tx \in manifests :
       tx.id \in 1..MaxChanges /\ \A f \in DOMAIN tx.entries : tx.entries[f] \in Entries
  /\ holder \in [Files -> Runtimes \cup {None}]
  /\ pc \in [Runtimes -> Places]
  /\ want \in [Runtimes -> SUBSET Files]
  /\ left \in [Runtimes -> SUBSET Files]
  /\ unsafe \in [Runtimes -> BOOLEAN]
  /\ fresh \in [Runtimes -> BOOLEAN]
  /\ excused \subseteq Files \X {"edited", "dropped", "unswept"}

Excuses(f) == {why \in {"edited", "dropped", "unswept"} : <<f, why>> \in excused}

\* A file nobody works on and no manifest covers holds what the journal of the
\* Task says: whatever failed or crashed, a change of several files is recorded
\* for all of them or undone on all of them (write_workspace_text_batch and its
\* compensation, recover_workspace_transactions).  Excused are files somebody
\* else edited, a change of a single file that failed half-way, which has no
\* manifest, and a file whose manifest appeared after the operation had looked.
JournalMatchesDisk ==
  \A f \in Files :
    /\ Excuses(f) = {}
    /\ holder[f] = None
    /\ \A tx \in manifests : f \notin DOMAIN tx.entries
    => disk[f] = Said(f)

\* No change begins on a file an unfinished transaction has left half-done, and
\* recovery never puts back a change committed later.  So it is for operations
\* one after the other (one runtime); it fails for two, because the manifests
\* are read before the files are locked.
SweepsInTime == \A f \in Files : "unswept" \notin Excuses(f)

\* The records of a file follow each other, each starting from what the one
\* before it left, through roll-backs of several mutations at a time.
JournalIsChain ==
  \A f \in Files : Excuses(f) = {} =>
    \A i \in DOMAIN journal[f] :
      journal[f][i].before = IF i = 1 THEN Initial[f] ELSE journal[f][i - 1].after

\* A mutation is rolled back at most once, and a roll-back never: what was
\* validated before the lock is validated again under it.
RolledBackOnce == \A f \in Files : RevertsOnce(journal[f])

\* Two operations never wait for each other: hold_many takes its locks in one
\* global order.
Awaits(r, q) == \E f \in want[r] \ Holding(r) : holder[f] = q
NoMutualWait == \A r, q \in Runtimes : ~(Awaits(r, q) /\ Awaits(q, r))
=============================================================================
