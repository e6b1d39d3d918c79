--------------------- MODULE WorkspaceTransaction_proofs ---------------------
(***************************************************************************)
(* What is proved about WorkspaceTransaction for every set of files,       *)
(* contents and runtimes: the operations never wait for each other, no     *)
(* mutation is rolled back twice, and the files and the journal agree.     *)
(***************************************************************************)
EXTENDS WorkspaceTransaction, FiniteSetTheorems, SequenceTheorems, TLAPS

\* The locks of an operation are the first ones of those it wants.
Locks ==
  /\ holder \in [Files -> Runtimes \cup {None}]
  /\ want \in [Runtimes -> SUBSET Files]

InOrder ==
  \A r \in Runtimes, f, g \in Files :
    f \in want[r] /\ holder[f] # r /\ holder[g] = r => g < f

Prefixes == Locks /\ InOrder

\* Whatever ends an operation gives its locks back.
LEMMA UnlocksKeepsOrder ==
  ASSUME Prefixes, NEW r \in Runtimes, Unlocks(r)
  PROVE  Prefixes'
<1>1. Locks'
  BY DEF Prefixes, Locks, Unlocks
<1>2. InOrder'
  <2> SUFFICES ASSUME NEW q \in Runtimes, NEW f \in Files, NEW g \in Files,
                      f \in want'[q], holder'[f] # q, holder'[g] = q
               PROVE  g < f
    BY DEF InOrder
  <2>1. q # r /\ holder[g] = q /\ want'[q] = want[q]
    BY NobodyAssumption DEF Prefixes, Locks, Unlocks
  <2>2. holder[f] # q
    BY <2>1 DEF Prefixes, Locks, Unlocks
  <2> QED
    BY <2>1, <2>2 DEF Prefixes, InOrder
<1> QED
  BY <1>1, <1>2 DEF Prefixes

\* An operation that holds nothing may ask for anything.
LEMMA AskingKeepsOrder ==
  ASSUME Prefixes, NEW r \in Runtimes, NEW fs \in SUBSET Files,
         \A f \in Files : holder[f] # r,
         want' = [want EXCEPT ![r] = fs], UNCHANGED holder
  PROVE  Prefixes'
  BY DEF Prefixes, Locks, InOrder

\* hold_many takes the first of the locks it still wants.
LEMMA LockKeepsOrder ==
  ASSUME Prefixes, NEW r \in Runtimes, Lock(r)
  PROVE  Prefixes'
<1> PICK f \in want[r] \ Holding(r) :
      /\ \A g \in want[r] \ Holding(r) : f <= g
      /\ holder[f] = None
      /\ holder' = [holder EXCEPT ![f] = r]
  BY DEF Lock
<1>1. f \in Files /\ want' = want
  BY DEF Prefixes, Locks, Lock
<1>2. Locks'
  BY <1>1 DEF Prefixes, Locks
<1>3. InOrder'
  <2> SUFFICES ASSUME NEW q \in Runtimes, NEW h \in Files, NEW g \in Files,
                      h \in want[q], holder'[h] # q, holder'[g] = q
               PROVE  g < h
    BY <1>1 DEF InOrder
  <2>1. holder[h] # q
    BY <1>1, NobodyAssumption DEF Prefixes, Locks
  <2>2. CASE holder[g] = q
    BY <2>1, <2>2 DEF Prefixes, InOrder
  <2>3. CASE holder[g] # q
    <3>1. g = f /\ q = r
      BY <2>3, <1>1 DEF Prefixes, Locks
    <3>2. h \in want[r] \ Holding(r) /\ h # f
      BY <3>1, <2>1, <1>1 DEF Holding, Prefixes, Locks
    <3> QED
      BY <3>1, <3>2, <1>1, FilesAssumption
  <2> QED
    BY <2>2, <2>3
<1> QED
  BY <1>2, <1>3 DEF Prefixes

-----------------------------------------------------------------------------
\* An operation asks for files only while it holds none.
FreeWhileSweeping ==
  /\ pc \in [Runtimes -> Places]
  /\ \A r \in Runtimes :
       pc[r] \in {"idle", "sweeping"} =>
         /\ want[r] = {}
         /\ \A f \in Files : holder[f] # r

Order == Prefixes /\ FreeWhileSweeping

\* Every manifest there is, or was when it was read, is about files.
Covers(txs) == \A tx \in txs : DOMAIN tx.entries \in SUBSET Files
Manifests ==
  /\ Covers(manifests)
  /\ DOMAIN found = Runtimes
  /\ \A r \in Runtimes : Covers(found[r])

Inv == Order /\ Manifests

LEMMA InitOrder == Init => Order
<1> SUFFICES ASSUME Init PROVE Order
  OBVIOUS
<1>1. Prefixes
  BY NobodyAssumption DEF Init, Prefixes, Locks, InOrder
<1>2. FreeWhileSweeping
  <2>1. pc \in [Runtimes -> Places]
    BY DEF Init, Places
  <2>2. \A r \in Runtimes : want[r] = {} /\ \A f \in Files : holder[f] # r
    BY NobodyAssumption DEF Init
  <2> QED
    BY <2>1, <2>2 DEF FreeWhileSweeping
<1> QED
  BY <1>1, <1>2 DEF Order

\* An operation that leaves its locks alone and goes on.
LEMMA GoingOnKeepsFree ==
  ASSUME Order, NEW r \in Runtimes,
         UNCHANGED <<holder, want>>,
         UNCHANGED pc \/ \E where \in Places \ {"idle", "sweeping"} : Goto(r, where)
  PROVE  Order'
<1>1. Prefixes'
  BY DEF Order, Prefixes, Locks, InOrder
<1>2. FreeWhileSweeping'
  BY DEF Order, FreeWhileSweeping, Goto
<1> QED
  BY <1>1, <1>2 DEF Order

\* An operation that gives its locks back ends or goes on sweeping.
LEMMA LettingGoKeepsFree ==
  ASSUME Order, NEW r \in Runtimes, Unlocks(r), NEW where \in Places, Goto(r, where)
  PROVE  Order'
<1>1. Prefixes'
  BY UnlocksKeepsOrder DEF Order
<1>2. FreeWhileSweeping'
  <2> SUFFICES ASSUME NEW q \in Runtimes, pc'[q] \in {"idle", "sweeping"}
               PROVE  want'[q] = {} /\ \A f \in Files : holder'[f] # q
    BY DEF FreeWhileSweeping, Order, Goto
  <2>1. CASE q = r
    BY <2>1, NobodyAssumption DEF Unlocks, Order, Prefixes, Locks
  <2>2. CASE q # r
    BY <2>2, NobodyAssumption DEF Unlocks, Goto, Order, Prefixes, Locks, FreeWhileSweeping
  <2> QED
    BY <2>1, <2>2
<1> QED
  BY <1>1, <1>2 DEF Order

\* An operation that asks for files.
LEMMA AskingKeepsFree ==
  ASSUME Order, NEW r \in Runtimes, pc[r] = "sweeping",
         NEW fs \in SUBSET Files, want' = [want EXCEPT ![r] = fs], UNCHANGED holder,
         NEW where \in Places \ {"idle", "sweeping"}, Goto(r, where)
  PROVE  Order'
<1>1. \A f \in Files : holder[f] # r
  BY DEF Order, FreeWhileSweeping
<1>2. Prefixes'
  BY <1>1, AskingKeepsOrder DEF Order
<1>3. FreeWhileSweeping'
  BY DEF Order, FreeWhileSweeping, Prefixes, Locks, Goto
<1> QED
  BY <1>2, <1>3 DEF Order

LEMMA LockKeepsFree ==
  ASSUME Order, NEW r \in Runtimes, Lock(r)
  PROVE  Order'
<1>1. Prefixes'
  BY LockKeepsOrder DEF Order
<1>2. FreeWhileSweeping'
  <2>1. want[r] # {} /\ UNCHANGED <<pc, want>>
    BY DEF Lock
  <2>2. PICK f \in Files : holder' = [holder EXCEPT ![f] = r]
    BY DEF Lock, Order, Prefixes, Locks
  <2> QED
    BY <2>1, <2>2 DEF Order, FreeWhileSweeping, Prefixes, Locks
<1> QED
  BY <1>1, <1>2 DEF Order

\* A step that adds at most one manifest, about the files it wants.
LEMMA ManifestsKept ==
  ASSUME Manifests, DOMAIN found' = Runtimes,
         \A tx \in manifests' : tx \in manifests \/ DOMAIN tx.entries \in SUBSET Files,
         \A r \in Runtimes : found'[r] \subseteq found[r] \cup manifests
  PROVE  Manifests'
  BY DEF Manifests, Covers

LEMMA PrepareKeepsManifests ==
  ASSUME Order, Manifests, NEW r \in Runtimes, Prepare(r)
  PROVE  Manifests'
<1>1. PICK entries \in RollbackEntries(want[r]) \cup WriteEntries(want[r]) \cup DeleteEntries(want[r]) :
        manifests' = IF Cardinality(want[r]) > 1
                       THEN manifests \cup {[id |-> changes + 1, entries |-> entries]}
                       ELSE manifests
  BY DEF Prepare
<1>2. DOMAIN entries = want[r]
  BY DEF RollbackEntries, WriteEntries, DeleteEntries
<1>3. want[r] \in SUBSET Files /\ found' = found
  BY DEF Order, Prefixes, Locks, Prepare
<1> QED
  BY <1>1, <1>2, <1>3, ManifestsKept DEF Manifests

LEMMA StepKeepsOrder == Inv /\ [Next]_vars => Order'
<1> SUFFICES ASSUME Inv, [Next]_vars PROVE Order'
  OBVIOUS
<1> USE DEF Inv
<1>0. /\ {"recovering", "restoring", "preparing", "writing", "closing", "undoing"}
           \subseteq Places \ {"idle", "sweeping"}
      /\ {"idle", "sweeping"} \subseteq Places
  BY DEF Places
<1>1. ASSUME NEW r \in Runtimes, Ends(r)
      PROVE  Order'
  BY <1>1, <1>0, LettingGoKeepsFree DEF Ends
<1>2. ASSUME NEW r \in Runtimes, NextManifest(r)
      PROVE  Order'
  <2>1. PICK tx \in found[r] : want' = [want EXCEPT ![r] = DOMAIN tx.entries]
    BY <1>2 DEF NextManifest
  <2>2. DOMAIN tx.entries \in SUBSET Files
    BY <2>1 DEF Manifests, Covers
  <2>3. pc[r] = "sweeping" /\ UNCHANGED holder /\ Goto(r, "recovering")
    BY <1>2 DEF NextManifest
  <2> QED
    BY <1>0, <2>1, <2>2, <2>3, AskingKeepsFree
<1>3. ASSUME NEW r \in Runtimes, AskFiles(r)
      PROVE  Order'
  <2>1. PICK fs \in SUBSET Files : want' = [want EXCEPT ![r] = fs]
    BY <1>3 DEF AskFiles
  <2>2. pc[r] = "sweeping" /\ UNCHANGED holder /\ Goto(r, "preparing")
    BY <1>3 DEF AskFiles
  <2> QED
    BY <1>0, <2>1, <2>2, AskingKeepsFree
<1>4. ASSUME NEW r \in Runtimes, Begin(r)
      PROVE  Order'
  BY <1>4 DEF Begin, Goto, Order, FreeWhileSweeping, Prefixes, Locks, InOrder, Places
<1>5. ASSUME NEW r \in Runtimes, Recovered(r)
      PROVE  Order'
  <2>1. CASE Ends(r)
    BY <2>1, <1>1
  <2>2. CASE Unlocks(r) /\ Goto(r, "sweeping")
    BY <2>2, <1>0, LettingGoKeepsFree
  <2> QED
    BY <2>1, <2>2, <1>5 DEF Recovered
<1>6. ASSUME NEW r \in Runtimes, WriteFails(r)
      PROVE  Order'
  <2>1. CASE Ends(r)
    BY <2>1, <1>1
  <2>2. CASE Goto(r, "undoing") /\ UNCHANGED <<holder, want>>
    BY <2>2, <1>0, GoingOnKeepsFree
  <2> QED
    BY <2>1, <2>2, <1>6 DEF WriteFails
<1>7. ASSUME NEW r \in Runtimes,
             Resumed(r) \/ CancelWaiting(r) \/ Conflicts(r) \/ RecoveryFails(r)
               \/ Refuse(r) \/ Close(r) \/ Undone(r) \/ Crash(r)
      PROVE  Order'
  <2>1. Ends(r)
    BY <1>7 DEF Resumed, CancelWaiting, Conflicts, RecoveryFails, Refuse, Close, Undone, Crash
  <2> QED
    BY <2>1, <1>1
<1>8. ASSUME NEW r \in Runtimes,
             Inspect(r) \/ Prepare(r) \/ Commit(r) \/ CommitFails(r) \/ Cascade(r)
      PROVE  Order'
  <2>1. /\ UNCHANGED <<holder, want>>
        /\ Goto(r, "restoring") \/ Goto(r, "writing") \/ Goto(r, "closing")
             \/ Goto(r, "undoing") \/ Goto(r, "preparing")
    BY <1>8 DEF Inspect, Prepare, Commit, CommitFails, Cascade
  <2> QED
    BY <2>1, <1>0, GoingOnKeepsFree
<1>9. ASSUME NEW r \in Runtimes, Restore(r) \/ Write(r) \/ Undo(r)
      PROVE  Order'
  <2>1. UNCHANGED <<holder, want, pc>>
    BY <1>9 DEF Restore, Write, Undo
  <2> QED
    BY <2>1, GoingOnKeepsFree
<1>10. ASSUME UNCHANGED <<holder, want, pc>>
       PROVE  Order'
  BY <1>10 DEF Order, FreeWhileSweeping, Prefixes, Locks, InOrder
<1>11. CASE Edit \/ OtherCommit \/ UNCHANGED vars
  BY <1>11, <1>10 DEF Edit, OtherCommit, vars
<1> QED
  BY <1>2, <1>3, <1>4, <1>5, <1>6, <1>7, <1>8, <1>9, <1>11, LockKeepsFree DEF Next

LEMMA StepKeepsManifests == Inv /\ [Next]_vars => Manifests'
<1> SUFFICES ASSUME Inv, [Next]_vars PROVE Manifests'
  OBVIOUS
<1>1. DOMAIN found = Runtimes
  BY DEF Inv, Manifests
<1>2. ASSUME NEW r \in Runtimes, Prepare(r)
      PROVE  Manifests'
  BY <1>2, PrepareKeepsManifests DEF Inv
<1>3. ASSUME manifests' \subseteq manifests, DOMAIN found' = Runtimes,
             \A r \in Runtimes : found'[r] \subseteq found[r] \cup manifests
      PROVE  Manifests'
  BY <1>3, ManifestsKept DEF Inv
<1>4. ASSUME NEW r \in Runtimes, Ends(r), manifests' \subseteq manifests
      PROVE  Manifests'
  <2>1. found' = [found EXCEPT ![r] = {}]
    BY <1>4 DEF Ends
  <2> QED
    BY <2>1, <1>1, <1>3, <1>4
<1>5. ASSUME manifests' \subseteq manifests, UNCHANGED found
      PROVE  Manifests'
  BY <1>5, <1>1, <1>3
<1>6. ASSUME NEW r \in Runtimes,
             Resumed(r) \/ CancelWaiting(r) \/ Conflicts(r) \/ RecoveryFails(r)
               \/ Refuse(r) \/ Close(r) \/ Undone(r) \/ Crash(r)
      PROVE  Manifests'
  <2>1. Ends(r) /\ manifests' \subseteq manifests
    BY <1>6 DEF Resumed, CancelWaiting, Conflicts, RecoveryFails, Refuse, Close, Undone, Crash
  <2> QED
    BY <2>1, <1>4
<1>7. ASSUME NEW r \in Runtimes, Begin(r)
      PROVE  Manifests'
  <2>1. UNCHANGED manifests /\ found' = [found EXCEPT ![r] = manifests]
    BY <1>7 DEF Begin
  <2> QED
    BY <2>1, <1>1, <1>3
<1>8. ASSUME NEW r \in Runtimes, Recovered(r)
      PROVE  Manifests'
  <2>1. manifests' \subseteq manifests
    BY <1>8 DEF Recovered
  <2>2. CASE Ends(r)
    BY <2>1, <2>2, <1>4
  <2>3. CASE found' = [found EXCEPT ![r] = @ \ {job[r]}]
    BY <2>1, <2>3, <1>1, <1>3
  <2> QED
    BY <2>2, <2>3, <1>8 DEF Recovered
<1>9. ASSUME NEW r \in Runtimes, WriteFails(r)
      PROVE  Manifests'
  <2>1. UNCHANGED manifests /\ (Ends(r) \/ UNCHANGED found)
    BY <1>9 DEF WriteFails
  <2> QED
    BY <2>1, <1>4, <1>5
<1>10. ASSUME NEW r \in Runtimes,
              NextManifest(r) \/ AskFiles(r) \/ Lock(r) \/ Inspect(r) \/ Restore(r)
                \/ Write(r) \/ Commit(r) \/ CommitFails(r) \/ Cascade(r) \/ Undo(r)
       PROVE  Manifests'
  <2>1. UNCHANGED <<manifests, found>>
    BY <1>10 DEF NextManifest, AskFiles, Lock, Inspect, Restore, Write, Commit,
                 CommitFails, Cascade, Undo, work
  <2> QED
    BY <2>1, <1>5
<1>11. CASE Edit \/ OtherCommit \/ UNCHANGED vars
  BY <1>11, <1>5 DEF Edit, OtherCommit, vars, work
<1> QED
  BY <1>2, <1>6, <1>7, <1>8, <1>9, <1>10, <1>11 DEF Next

THEOREM Invariance == Spec => []Inv
<1>1. Init => Inv
  <2>1. Init => Manifests
    BY DEF Init, Manifests, Covers
  <2> QED
    BY <2>1, InitOrder DEF Inv
<1>2. Inv /\ [Next]_vars => Inv'
  BY StepKeepsOrder, StepKeepsManifests DEF Inv
<1> QED
  BY <1>1, <1>2, PTL DEF Spec

\* Whatever files the operations of any runtimes change or recover, no two of
\* them wait for each other: hold_many takes its locks in one global order, so
\* what an operation still wants comes after everything it holds.
THEOREM NeverWaitMutually == Spec => []NoMutualWait
<1>1. Inv => NoMutualWait
  <2> SUFFICES ASSUME Inv, NEW r \in Runtimes, NEW q \in Runtimes,
                      NEW f \in want[r] \ Holding(r), holder[f] = q,
                      NEW g \in want[q] \ Holding(q), holder[g] = r
               PROVE  FALSE
    BY DEF NoMutualWait, Awaits
  <2>1. f \in Files /\ g \in Files
    BY DEF Inv, Order, Prefixes, Locks
  <2>2. holder[f] # r /\ holder[g] # q
    BY <2>1 DEF Holding
  <2>3. g < f /\ f < g
    BY <2>1, <2>2 DEF Inv, Order, Prefixes, InOrder
  <2> QED
    BY <2>1, <2>3, FilesAssumption
<1> QED
  BY <1>1, Invariance, PTL

-----------------------------------------------------------------------------
(* The records of a file.                                                  *)

\* A log is a sequence, and what a record rolls back was recorded before it.
Log(s) ==
  /\ s \in Seq({s[i] : i \in DOMAIN s})
  /\ \A j \in DOMAIN s : s[j].reverts \in 0..(j - 1)

LEMMA LogDomain ==
  ASSUME NEW s, Log(s)
  PROVE  Len(s) \in Nat /\ DOMAIN s = 1..Len(s)
BY LenProperties DEF Log

\* The mutations of a log that are no roll-backs and have not been rolled back.
ActiveIn(s) ==
  {i \in DOMAIN s : s[i].reverts = 0 /\ \A j \in DOMAIN s : s[j].reverts # i}

\* New records, each of which rolls back nothing or another active mutation.
Additions(s, t) ==
  /\ t \in Seq({t[n] : n \in DOMAIN t})
  /\ \A n \in DOMAIN t :
       \/ t[n].reverts = 0
       \/ /\ t[n].reverts \in ActiveIn(s)
          /\ \A m \in DOMAIN t \ {n} : t[m].reverts # t[n].reverts

LEMMA AppendedLog ==
  ASSUME NEW s, NEW t, Log(s), RevertsOnce(s), Additions(s, t)
  PROVE  Log(s \o t) /\ RevertsOnce(s \o t)
<1> DEFINE T == {s[i] : i \in DOMAIN s} \cup {t[n] : n \in DOMAIN t}
           u == s \o t
           L == Len(s)
<1>1. s \in Seq(T) /\ t \in Seq(T)
  BY SeqMonotonic DEF Log, Additions
<1>2. /\ L \in Nat /\ Len(t) \in Nat /\ DOMAIN s = 1..L /\ DOMAIN t = 1..Len(t)
  BY <1>1, LenProperties
<1>3. /\ u \in Seq(T) /\ DOMAIN u = 1..(L + Len(t))
      /\ \A i \in DOMAIN u : u[i] = IF i <= L THEN s[i] ELSE t[i - L]
  <2>1. u \in Seq(T) /\ Len(u) = L + Len(t)
    BY <1>1, ConcatProperties
  <2>2. DOMAIN u = 1..Len(u)
    BY <2>1, LenProperties
  <2> HIDE DEF T, u
  <2> QED BY <1>1, <2>1, <2>2, ConcatProperties DEF u
<1>4. u \in Seq({u[i] : i \in DOMAIN u})
  <2> HIDE DEF u, T
  <2>1. u \in [1..Len(u) -> {u[i] : i \in DOMAIN u}] /\ Len(u) \in Nat
    BY <1>3, LenProperties
  <2> QED BY <2>1, SeqDef
<1> HIDE DEF u, T
\* An old record, or a new one.
<1>5. \A j \in DOMAIN u : j \in DOMAIN s \/ (j > L /\ j - L \in DOMAIN t /\ u[j] = t[j - L])
  BY <1>2, <1>3
<1>6. \A j \in DOMAIN s : j \in DOMAIN u /\ u[j] = s[j]
  BY <1>2, <1>3
<1>7. \A j \in DOMAIN u : u[j].reverts \in 0..(j - 1)
  <2> SUFFICES ASSUME NEW j \in DOMAIN u PROVE u[j].reverts \in 0..(j - 1)
    OBVIOUS
  <2>1. CASE j \in DOMAIN s
    BY <2>1, <1>6 DEF Log
  <2>2. CASE j > L /\ j - L \in DOMAIN t /\ u[j] = t[j - L]
    <3>1. u[j].reverts = 0 \/ u[j].reverts \in 1..L
      BY <2>2, <1>2 DEF Additions, ActiveIn
    <3>2. j \in Nat
      BY <1>2, <1>3
    <3> QED BY <3>1, <3>2, <2>2, <1>2
  <2> QED BY <2>1, <2>2, <1>5
<1>8. RevertsOnce(u)
  <2> SUFFICES ASSUME NEW i \in DOMAIN u, NEW j \in DOMAIN u, u[j].reverts = i
               PROVE  u[i].reverts = 0 /\ \A k \in DOMAIN u \ {j} : u[k].reverts # i
    BY DEF RevertsOnce
  <2>1. i # 0
    BY <1>2, <1>3
  <2>2. CASE j \in DOMAIN s
    <3>1. i \in DOMAIN s /\ s[j].reverts = i
      BY <2>1, <2>2, <1>2, <1>6 DEF Log
    <3>2. s[i].reverts = 0 /\ \A k \in DOMAIN s \ {j} : s[k].reverts # i
      BY <3>1, <2>2 DEF RevertsOnce
    <3>3. \A k \in DOMAIN t : t[k].reverts # i
      BY <3>1, <2>1, <2>2 DEF Additions, ActiveIn
    <3> QED BY <3>1, <3>2, <3>3, <1>5, <1>6
  <2>3. CASE j > L /\ j - L \in DOMAIN t /\ u[j] = t[j - L]
    <3>1. i \in ActiveIn(s) /\ \A m \in DOMAIN t \ {j - L} : t[m].reverts # i
      BY <2>1, <2>3 DEF Additions
    <3>2. u[i].reverts = 0 /\ \A k \in DOMAIN s : s[k].reverts # i
      BY <3>1, <1>6 DEF ActiveIn
    <3>3. \A k \in DOMAIN u \ {j} : k > L => k - L # j - L
      BY <1>2, <1>3
    <3> QED BY <3>1, <3>2, <3>3, <1>5, <1>6
  <2> QED BY <2>2, <2>3, <1>5
<1> QED BY <1>4, <1>7, <1>8 DEF Log, u

\* Counted from the largest, every element of a finite set of numbers has a place
\* of its own, and no place stays empty.
Place(S, i) == Cardinality({j \in S : j >= i})

LEMMA PlacesFilled ==
  ASSUME NEW S \in SUBSET Nat, IsFiniteSet(S)
  PROVE  /\ Cardinality(S) \in Nat
         /\ \A n \in 1..Cardinality(S) : \E i \in S : Place(S, i) = n
<1> DEFINE N == Cardinality(S)
           place == [i \in S |-> Place(S, i)]
<1>1. N \in Nat
  BY FS_CardinalityType
<1>2. \A i \in S : Place(S, i) \in 1..N
  <2> SUFFICES ASSUME NEW i \in S PROVE Place(S, i) \in 1..N
    OBVIOUS
  <2> DEFINE U == {j \in S : j >= i}
  <2>1. i \in U /\ U \in SUBSET S
    OBVIOUS
  <2>2. IsFiniteSet(U) /\ Cardinality(U) <= N
    BY <2>1, FS_Subset
  <2>3. Cardinality(U) \in Nat /\ Cardinality(U) # 0
    BY <2>1, <2>2, FS_CardinalityType, FS_EmptySet
  <2> QED BY <1>1, <2>2, <2>3 DEF Place
<1>3. \A i, j \in S : i < j => Place(S, j) # Place(S, i)
  <2> SUFFICES ASSUME NEW i \in S, NEW j \in S, i < j PROVE Place(S, j) # Place(S, i)
    OBVIOUS
  <2> DEFINE U == {k \in S : k >= i}
             V == {k \in S : k >= j}
  <2>1. V \in SUBSET U /\ i \in U /\ i \notin V /\ U \in SUBSET S
    <3>1. i \in Nat /\ j \in Nat /\ \A k \in S : k \in Nat
      OBVIOUS
    <3>2. \A k \in S : k >= j => k >= i
      BY <3>1
    <3>3. ~(i >= j) /\ i >= i
      BY <3>1
    <3> QED BY <3>2, <3>3
  <2>2. IsFiniteSet(U)
    BY <2>1, FS_Subset
  <2>3. Cardinality(U) = Cardinality(V) => U = V
    BY <2>1, <2>2, FS_Subset
  <2> QED BY <2>1, <2>3 DEF Place
<1>4. place \in Injection(S, 1..N)
  <2>1. place \in [S -> 1..N]
    BY <1>2
  <2>2. \A i, j \in S : place[i] = place[j] => i = j
    BY <1>3
  <2> QED BY <2>1, <2>2 DEF Injection, IsInjective
<1>5. IsFiniteSet(1..N) /\ Cardinality(1..N) = N
  BY <1>1, FS_Interval
<1>6. place \in Surjection(S, 1..N)
  BY <1>4, <1>5, FS_Injection
<1>7. \A n \in 1..N : \E i \in S : place[i] = n
  BY <1>6 DEF Surjection
<1> QED BY <1>1, <1>7

\* The records of a roll-back undo each of its mutations once.
LEMMA RecordsAreAdditions ==
  ASSUME NEW id, NEW f \in Files, NEW e, Log(journal[f]),
         e.undoes \subseteq ActiveIn(journal[f])
  PROVE  Additions(journal[f], Records(id, f, e))
<1> DEFINE s == journal[f]
           t == Records(id, f, e)
<1>1. CASE e.undoes = {}
  <2> DEFINE only == [tx |-> id, before |-> e.before, after |-> e.after, reverts |-> 0]
  <2>1. t = <<only>>
    BY <1>1 DEF Records
  <2>2. DOMAIN t = {1} /\ t[1] = only
    BY <2>1
  <2>3. t \in Seq({t[n] : n \in DOMAIN t})
    BY <2>1, <2>2
  <2> QED BY <2>2, <2>3 DEF Additions
<1>2. CASE e.undoes # {}
  <2> DEFINE S == e.undoes
             N == Cardinality(S)
             at == [n \in 1..N |-> CHOOSE i \in S : Cardinality({j \in S : j >= i}) = n]
  <2>1. S \subseteq 1..Len(s) /\ Len(s) \in Nat
    BY LogDomain DEF ActiveIn
  <2>2. S \in SUBSET Nat /\ IsFiniteSet(S)
    <3>1. IsFiniteSet(1..Len(s))
      BY <2>1, FS_Interval
    <3> QED BY <2>1, <3>1, FS_Subset
  <2>3. N \in Nat /\ \A n \in 1..N : \E i \in S : Cardinality({j \in S : j >= i}) = n
    BY <2>2, PlacesFilled DEF Place
  <2>4. \A n \in 1..N : at[n] \in S /\ Cardinality({j \in S : j >= at[n]}) = n
    <3> SUFFICES ASSUME NEW n \in 1..N
                 PROVE  at[n] \in S /\ Cardinality({j \in S : j >= at[n]}) = n
      OBVIOUS
    <3>1. at[n] = CHOOSE i \in S : Cardinality({j \in S : j >= i}) = n
      OBVIOUS
    <3>2. \E i \in S : Cardinality({j \in S : j >= i}) = n
      BY <2>3
    <3> QED BY <3>1, <3>2
  <2>5. t = [n \in 1..N |-> [tx |-> id, before |-> s[at[n]].after,
                             after |-> s[at[n]].before, reverts |-> at[n]]]
    BY <1>2 DEF Records
  <2> HIDE DEF at
  <2>6. DOMAIN t = 1..N /\ \A n \in 1..N : t[n].reverts = at[n]
    BY <2>5
  <2>7. t \in Seq({t[n] : n \in DOMAIN t})
    <3> HIDE DEF t
    <3>1. t \in [1..N -> {t[n] : n \in DOMAIN t}]
      BY <2>5
    <3> QED BY <3>1, <2>3, SeqDef
  <2>8. \A n, m \in 1..N : n # m => at[n] # at[m]
    BY <2>4
  <2> QED BY <2>4, <2>6, <2>7, <2>8 DEF Additions
<1> QED BY <1>1, <1>2

-----------------------------------------------------------------------------
(* What is rolled back once.                                               *)

Logs ==
  /\ DOMAIN journal = Files
  /\ \A f \in Files : Log(journal[f]) /\ RevertsOnce(journal[f])

\* While nobody has committed since the row was loaded, what the operation undoes is
\* still active.
StillActive ==
  /\ DOMAIN fresh = Runtimes /\ DOMAIN job = Runtimes /\ pc \in [Runtimes -> Places]
  /\ \A r \in Runtimes : pc[r] = "writing" /\ fresh[r] =>
       \A f \in want[r] : f \in Files /\ Goes(r)[f].undoes \subseteq ActiveIn(journal[f])

Once == Logs /\ StillActive

LEMMA InitOnce == Init => Once
<1> SUFFICES ASSUME Init PROVE Once
  OBVIOUS
<1>1. Logs
  <2>1. DOMAIN journal = Files /\ \A f \in Files : journal[f] = Begun[f]
    BY BegunAssumption DEF Init
  <2>2. ASSUME NEW f \in Files
        PROVE  Log(journal[f]) /\ RevertsOnce(journal[f])
    <3> DEFINE s == journal[f]
    <3>1. \E S : s \in Seq(S) /\ \A r \in S : r.reverts \in Nat
      <4> DEFINE R == [tx : {0}, before : Contents \cup {Absent},
                       after : Contents \cup {Absent}, reverts : Nat]
      <4>1. s \in Seq(R)
        BY <2>1, BegunAssumption
      <4>2. \A r \in R : r.reverts \in Nat
        OBVIOUS
      <4> HIDE DEF R
      <4> QED BY <4>1, <4>2
    <3>2. PICK S : s \in Seq(S) /\ \A r \in S : r.reverts \in Nat
      BY <3>1
    <3> HIDE DEF s
    <3>3. Len(s) \in Nat /\ s \in [1..Len(s) -> S] /\ DOMAIN s = 1..Len(s)
      BY <3>2, LenProperties
    <3>4. s \in [1..Len(s) -> {s[i] : i \in DOMAIN s}]
      BY <3>3
    <3>5. s \in Seq({s[i] : i \in DOMAIN s})
      BY <3>3, <3>4, SeqDef
    <3>6. RevertsOnce(s) /\ \A j \in DOMAIN s : s[j].reverts < j
      BY <2>1, BegunRevertsAssumption DEF s
    <3>7. \A j \in DOMAIN s : s[j].reverts \in 0..(j - 1)
      BY <3>2, <3>3, <3>6
    <3> QED BY <3>5, <3>6, <3>7 DEF Log, s
  <2> QED BY <2>1, <2>2 DEF Logs
<1>2. StillActive
  BY DEF Init, StillActive, Places
<1> QED BY <1>1, <1>2 DEF Once

\* A step that commits nothing, and starts no change.
LEMMA OthersKeepOnce ==
  ASSUME Once, UNCHANGED journal,
         DOMAIN fresh' = Runtimes, DOMAIN job' = Runtimes, pc' \in [Runtimes -> Places],
         \A r \in Runtimes : pc'[r] = "writing" /\ fresh'[r] =>
           pc[r] = "writing" /\ fresh[r] /\ want'[r] = want[r] /\ job'[r] = job[r]
  PROVE  Once'
<1>1. Logs'
  BY DEF Once, Logs
<1>2. StillActive'
  <2> SUFFICES ASSUME NEW r \in Runtimes, pc'[r] = "writing", fresh'[r], NEW f \in want'[r]
               PROVE  f \in Files /\ (job'[r].entries)[f].undoes \subseteq ActiveIn(journal'[f])
    BY DEF StillActive, Goes
  <2> QED BY DEF Once, StillActive, Goes
<1> QED BY <1>1, <1>2 DEF Once

\* Under the locks and with the row just loaded, a roll-back is prepared from the
\* mutations that are active now.
LEMMA PrepareKeepsOnce ==
  ASSUME Order, Once, NEW r \in Runtimes, Prepare(r)
  PROVE  Once'
<1>1. PICK entries \in RollbackEntries(want[r]) \cup WriteEntries(want[r]) \cup DeleteEntries(want[r]) :
        job' = [job EXCEPT ![r] = [id |-> changes + 1, entries |-> entries]]
  BY DEF Prepare
<1>2. \A f \in want[r] : f \in Files
  BY DEF Order, Prefixes, Locks
<1>3. \A f \in Files : Active(f) = ActiveIn(journal[f])
  BY DEF Active, ActiveIn
<1>4. \A f \in want[r] : entries[f].undoes \subseteq ActiveIn(journal[f])
  <2>1. CASE entries \in RollbackEntries(want[r])
    <3> DEFINE undoable(f) == IF Cardinality(want[r]) = 1 THEN {{i} : i \in Active(f)} ELSE Chains(f)
               chains == UNION {undoable(f) : f \in want[r]}
    <3>1. PICK c \in [want[r] -> chains] :
            /\ \A f \in want[r] : c[f] \in undoable(f)
            /\ entries = [f \in want[r] |->
                 Entry(journal[f][Max(c[f])].after, journal[f][Min(c[f])].before, c[f])]
      BY <2>1 DEF RollbackEntries
    <3>2. \A f \in want[r] : undoable(f) \subseteq SUBSET Active(f)
      BY DEF Chains
    <3> HIDE DEF undoable
    <3>3. \A f \in want[r] : entries[f].undoes = c[f]
      BY <3>1 DEF Entry
    <3>4. \A f \in want[r] : c[f] \subseteq Active(f)
      BY <3>1, <3>2
    <3> QED BY <3>3, <3>4, <1>2, <1>3
  <2>2. CASE entries \in WriteEntries(want[r]) \cup DeleteEntries(want[r])
    <3>1. \A f \in want[r] : entries[f].undoes = {}
      BY <2>2 DEF WriteEntries, DeleteEntries, Entry
    <3> QED BY <3>1
  <2> QED BY <2>1, <2>2, <1>1
<1>5. Logs'
  BY DEF Prepare, Once, Logs
<1>6. StillActive'
  <2>1. /\ DOMAIN fresh' = Runtimes /\ DOMAIN job' = Runtimes /\ pc' \in [Runtimes -> Places]
        /\ UNCHANGED <<want, journal>>
    BY <1>1 DEF Prepare, Once, StillActive, Goto, Places
  <2> SUFFICES ASSUME NEW q \in Runtimes, pc'[q] = "writing", fresh'[q], NEW f \in want[q]
               PROVE  f \in Files /\ job'[q].entries[f].undoes \subseteq ActiveIn(journal[f])
    BY <2>1 DEF StillActive, Goes
  <2>2. CASE q = r
    BY <2>2, <1>1, <1>2, <1>4 DEF Once, StillActive
  <2>3. CASE q # r
    <3>1. pc[q] = "writing" /\ fresh[q] /\ job'[q] = job[q]
      BY <2>3, <1>1 DEF Prepare, Goto, Once, StillActive
    <3> QED BY <3>1 DEF Once, StillActive, Goes
  <2> QED BY <2>2, <2>3
<1> QED BY <1>5, <1>6 DEF Once

\* The commit adds roll-backs of mutations that are active in the row it was
\* prepared from, which nobody has changed since.
LEMMA CommitKeepsOnce ==
  ASSUME Once, NEW r \in Runtimes, Commit(r)
  PROVE  Once'
<1>1. pc[r] = "writing" /\ fresh[r]
  BY DEF Commit
<1>2. Logs'
  <2>1. DOMAIN journal' = Files
    BY DEF Commit
  <2>2. ASSUME NEW f \in Files
        PROVE  Log(journal'[f]) /\ RevertsOnce(journal'[f])
    <3>1. Log(journal[f]) /\ RevertsOnce(journal[f])
      BY DEF Once, Logs
    <3>2. CASE f \in want[r]
      <4>1. journal'[f] = journal[f] \o Records(job[r].id, f, Goes(r)[f])
        BY <3>2 DEF Commit
      <4>2. Goes(r)[f].undoes \subseteq ActiveIn(journal[f])
        BY <1>1, <3>2 DEF Once, StillActive
      <4>3. Additions(journal[f], Records(job[r].id, f, Goes(r)[f]))
        BY <3>1, <4>2, RecordsAreAdditions
      <4> QED BY <3>1, <4>1, <4>3, AppendedLog
    <3>3. CASE f \notin want[r]
      <4>1. journal'[f] = journal[f] \o <<>>
        BY <3>3 DEF Commit
      <4>2. journal[f] \o <<>> = journal[f]
        BY <3>1, ConcatEmptySeq DEF Log
      <4> QED BY <3>1, <4>1, <4>2
    <3> QED BY <3>2, <3>3
  <2> QED BY <2>1, <2>2 DEF Logs
<1>3. StillActive'
  <2>1. DOMAIN fresh' = Runtimes /\ \A q \in Runtimes : ~fresh'[q]
    BY DEF Commit, Stales
  <2>2. DOMAIN job' = Runtimes /\ pc' \in [Runtimes -> Places]
    BY DEF Commit, work, Goto, Places, Once, StillActive
  <2> QED BY <2>1, <2>2 DEF StillActive
<1> QED BY <1>2, <1>3 DEF Once

LEMMA StepKeepsOnce == Inv /\ Once /\ [Next]_vars => Once'
<1> SUFFICES ASSUME Inv, Once, [Next]_vars PROVE Once'
  OBVIOUS
<1>0. /\ DOMAIN fresh = Runtimes /\ DOMAIN job = Runtimes /\ pc \in [Runtimes -> Places]
  BY DEF Once, StillActive
\* Whatever ends an operation: it writes no more.
<1>1. ASSUME NEW r \in Runtimes, Ends(r), UNCHANGED journal,
             DOMAIN fresh' = Runtimes, \A q \in Runtimes : fresh'[q] => fresh[q]
      PROVE  Once'
  <2>1. /\ pc' = [pc EXCEPT ![r] = "idle"] /\ want' = [want EXCEPT ![r] = {}]
        /\ job' = [job EXCEPT ![r] = NoTx]
    BY <1>1 DEF Ends, Goto, Unlocks
  <2>2. DOMAIN job' = Runtimes /\ pc' \in [Runtimes -> Places]
    BY <2>1, <1>0 DEF Places
  <2>3. \A q \in Runtimes : pc'[q] = "writing" =>
          q # r /\ pc[q] = "writing" /\ want'[q] = want[q] /\ job'[q] = job[q]
    BY <2>1, <1>0 DEF Inv, Order, Prefixes, Locks
  <2> QED BY <1>1, <2>2, <2>3, OthersKeepOnce
\* An operation that is not writing goes on, or one that is goes to undo it.
<1>2. ASSUME NEW r \in Runtimes, NEW where \in Places \ {"writing"}, Goto(r, where),
             UNCHANGED journal, DOMAIN fresh' = Runtimes, DOMAIN job' = Runtimes,
             \A q \in Runtimes : fresh'[q] => fresh[q],
             \A q \in Runtimes \ {r} : want'[q] = want[q] /\ job'[q] = job[q]
      PROVE  Once'
  <2>1. pc' = [pc EXCEPT ![r] = where]
    BY <1>2 DEF Goto
  <2>2. pc' \in [Runtimes -> Places]
    BY <2>1, <1>0, <1>2
  <2>3. \A q \in Runtimes : pc'[q] = "writing" => q # r /\ pc[q] = "writing"
    BY <2>1, <1>0, <1>2
  <2> QED BY <1>2, <2>2, <2>3, OthersKeepOnce
<1>3. ASSUME UNCHANGED <<journal, want, job, pc>>, DOMAIN fresh' = Runtimes,
             \A q \in Runtimes : fresh'[q] => fresh[q]
      PROVE  Once'
  BY <1>0, <1>3, OthersKeepOnce
<1>4. ASSUME NEW r \in Runtimes,
             Resumed(r) \/ CancelWaiting(r) \/ Conflicts(r) \/ RecoveryFails(r)
               \/ Refuse(r) \/ Close(r) \/ Undone(r) \/ Crash(r)
      PROVE  Once'
  <2>1. Ends(r) /\ UNCHANGED journal /\ (UNCHANGED fresh \/ fresh' = [fresh EXCEPT ![r] = FALSE])
    BY <1>4 DEF Resumed, CancelWaiting, Conflicts, RecoveryFails, Refuse, Close, Undone, Crash, row
  <2>2. DOMAIN fresh' = Runtimes /\ \A q \in Runtimes : fresh'[q] => fresh[q]
    BY <2>1, <1>0
  <2> QED BY <2>1, <2>2, <1>1
<1>5. ASSUME NEW r \in Runtimes,
             Begin(r) \/ NextManifest(r) \/ AskFiles(r) \/ Inspect(r) \/ CommitFails(r) \/ Cascade(r)
      PROVE  Once'
  <2>1. PICK where \in {"sweeping", "recovering", "preparing", "restoring", "undoing"} : Goto(r, where)
    BY <1>5 DEF Begin, NextManifest, AskFiles, Inspect, CommitFails, Cascade
  <2>2. UNCHANGED <<journal, fresh>> /\ where \in Places \ {"writing"}
    BY <1>5 DEF Begin, NextManifest, AskFiles, Inspect, CommitFails, Cascade, row, Places
  <2>3. DOMAIN job' = Runtimes /\ \A q \in Runtimes \ {r} : want'[q] = want[q] /\ job'[q] = job[q]
    <3>1. /\ job' = job \/ \E tx : job' = [job EXCEPT ![r] = tx]
          /\ want' = want \/ \E fs : want' = [want EXCEPT ![r] = fs]
      BY <1>5 DEF Begin, NextManifest, AskFiles, Inspect, CommitFails, Cascade, work
    <3> QED BY <3>1, <1>0 DEF Inv, Order, Prefixes, Locks
  <2> QED BY <2>1, <2>2, <2>3, <1>0, <1>2
<1>6. ASSUME NEW r \in Runtimes, Lock(r) \/ Restore(r) \/ Write(r) \/ Undo(r)
      PROVE  Once'
  <2>1. UNCHANGED <<journal, want, job, pc, fresh>>
    BY <1>6 DEF Lock, Restore, Write, Undo, row, work
  <2> QED BY <2>1, <1>0, <1>3
<1>7. ASSUME NEW r \in Runtimes, Recovered(r)
      PROVE  Once'
  <2>1. UNCHANGED journal /\ DOMAIN fresh' = Runtimes /\ \A q \in Runtimes : ~fresh'[q]
    BY <1>7 DEF Recovered, Stales
  <2>2. CASE Ends(r)
    BY <2>1, <2>2, <1>1
  <2>3. CASE job' = [job EXCEPT ![r] = NoTx] /\ Unlocks(r) /\ Goto(r, "sweeping")
    <3>1. \A q \in Runtimes \ {r} : want'[q] = want[q] /\ job'[q] = job[q]
      BY <2>3 DEF Unlocks, Inv, Order, Prefixes, Locks
    <3>2. DOMAIN job' = Runtimes /\ "sweeping" \in Places \ {"writing"}
      BY <2>3, <1>0 DEF Places
    <3> QED BY <2>1, <2>3, <3>1, <3>2, <1>2
  <2> QED BY <2>2, <2>3, <1>7 DEF Recovered
<1>8. ASSUME NEW r \in Runtimes, WriteFails(r)
      PROVE  Once'
  <2>1. UNCHANGED journal /\ fresh' = [fresh EXCEPT ![r] = FALSE]
    BY <1>8 DEF WriteFails
  <2>2. DOMAIN fresh' = Runtimes /\ \A q \in Runtimes : fresh'[q] => fresh[q]
    BY <2>1, <1>0
  <2>3. CASE Ends(r)
    BY <2>1, <2>2, <2>3, <1>1
  <2>4. CASE Goto(r, "undoing") /\ UNCHANGED <<want, job>>
    BY <2>1, <2>2, <2>4, <1>0, <1>2 DEF Places
  <2> QED BY <2>3, <2>4, <1>8 DEF WriteFails
<1>9. CASE Edit \/ OtherCommit \/ UNCHANGED vars
  <2>1. UNCHANGED <<journal, want, job, pc>>
    BY <1>9 DEF Edit, OtherCommit, vars, row, work
  <2>2. fresh' = fresh \/ fresh' = [q \in Runtimes |-> FALSE]
    BY <1>9 DEF Edit, OtherCommit, vars, row, Stales
  <2> QED BY <2>1, <2>2, <1>0, <1>3
<1>10. Order
  BY DEF Inv
<1> QED
  BY <1>4, <1>5, <1>6, <1>7, <1>8, <1>9, <1>10, PrepareKeepsOnce, CommitKeepsOnce DEF Next

\* Whichever runtimes roll back whatever of the same files, however their operations
\* fail, crash or overtake each other: a mutation is rolled back at most once and a
\* roll-back never, because the row's version check refuses a commit whose mutations
\* were chosen from a row that somebody has changed since.
THEOREM RollsBackOnce == Spec => []RolledBackOnce
<1>1. Init => Once
  BY InitOnce
<1>2. Once => RolledBackOnce
  BY DEF Once, Logs, RolledBackOnce
<1> QED
  BY <1>1, <1>2, StepKeepsOnce, Invariance, PTL DEF Spec

-----------------------------------------------------------------------------
(* Chains of records.                                                      *)

\* A finite set of numbers has a largest and a smallest element: those in the
\* first place and in the last.
LEMMA MaxAndMin ==
  ASSUME NEW S \in SUBSET Nat, IsFiniteSet(S), S # {}
  PROVE  /\ Max(S) \in S /\ \A j \in S : j <= Max(S)
         /\ Min(S) \in S /\ \A j \in S : j >= Min(S)
<1> DEFINE N == Cardinality(S)
<1>1. N \in Nat /\ N # 0
  BY FS_CardinalityType, FS_EmptySet
<1>2. PICK a \in S : Place(S, a) = 1
  BY <1>1, PlacesFilled
<1>3. PICK b \in S : Place(S, b) = N
  BY <1>1, PlacesFilled
<1>4. \A j \in S : j <= a
  <2> DEFINE U == {j \in S : j >= a}
  <2>1. IsFiniteSet(U) /\ Cardinality(U) = 1
    BY <1>2, FS_Subset DEF Place
  <2>2. PICK x : U = {x}
    BY <2>1, FS_Singleton
  <2>3. a \in U
    OBVIOUS
  <2>4. \A j \in S : j >= a => j = a
    BY <2>2, <2>3
  <2> QED BY <2>4
<1>5. \A j \in S : j >= b
  <2> DEFINE U == {j \in S : j >= b}
  <2>1. U = S
    BY <1>3, FS_Subset DEF Place
  <2> QED BY <2>1
<1>6. \E x \in S : \A y \in S : x >= y
  BY <1>4
<1>7. \E x \in S : \A y \in S : x =< y
  BY <1>5
<1>8. Max(S) \in S /\ \A y \in S : Max(S) >= y
  BY <1>6 DEF Max
<1>9. Min(S) \in S /\ \A y \in S : Min(S) =< y
  BY <1>7 DEF Min
<1> QED BY <1>8, <1>9

\* The elements of a set from the largest to the smallest.
Downwards(S) == [n \in 1..Cardinality(S) |-> CHOOSE i \in S : Place(S, i) = n]

LEMMA DownwardsIs ==
  ASSUME NEW S \in SUBSET Nat, IsFiniteSet(S), S # {}
  PROVE  LET N == Cardinality(S)
             at == Downwards(S)
         IN /\ N \in Nat \ {0} /\ DOMAIN at = 1..N
            /\ \A n \in 1..N : at[n] \in S
            /\ at[1] = Max(S) /\ at[N] = Min(S)
            /\ \A n \in 1..(N - 1) : at[n] \in S \ {Min(S)} /\ at[n + 1] = Max({j \in S : j < at[n]})
<1> DEFINE N == Cardinality(S)
           at == Downwards(S)
<1>1. N \in Nat \ {0} /\ DOMAIN at = 1..N
  BY FS_CardinalityType, FS_EmptySet DEF Downwards
<1>2. \A n \in 1..N : at[n] \in S /\ Place(S, at[n]) = n
  <2> SUFFICES ASSUME NEW n \in 1..N PROVE at[n] \in S /\ Place(S, at[n]) = n
    OBVIOUS
  <2>1. \E i \in S : Place(S, i) = n
    BY PlacesFilled
  <2>2. at[n] = CHOOSE i \in S : Place(S, i) = n
    BY DEF Downwards
  <2> QED BY <2>1, <2>2
<1> HIDE DEF at
<1> DEFINE Up(i) == {j \in S : j >= i}
<1>3. \A i \in S : IsFiniteSet(Up(i)) /\ Place(S, i) = Cardinality(Up(i))
  BY FS_Subset DEF Place
\* A larger place is that of a smaller element.
<1>4. \A m, n \in 1..N : m < n => at[n] < at[m]
  <2> SUFFICES ASSUME NEW m \in 1..N, NEW n \in 1..N, m < n, at[n] >= at[m]
               PROVE  FALSE
    <3>1. \A n \in 1..N : at[n] \in Nat
      BY <1>2
    <3> QED BY <3>1
  <2>1. at[m] \in S /\ at[n] \in S
    BY <1>2
  <2>2. Up(at[n]) \in SUBSET Up(at[m])
    <3>1. at[m] \in Nat /\ at[n] \in Nat /\ \A j \in S : j \in Nat
      BY <2>1
    <3>2. \A j \in S : j >= at[n] => j >= at[m]
      BY <3>1
    <3> QED BY <3>2
  <2>3. Cardinality(Up(at[n])) <= Cardinality(Up(at[m]))
    BY <1>3, <2>1, <2>2, FS_Subset
  <2>4. n <= m
    BY <1>2, <1>3, <2>1, <2>3
  <2> QED BY <2>4
\* Every element has a place.
<1>5. \A j \in S : \E n \in 1..N : at[n] = j
  <2> SUFFICES ASSUME NEW j \in S PROVE \E n \in 1..N : at[n] = j
    OBVIOUS
  <2>1. Place(S, j) \in 1..N
    <3>1. Up(j) \in SUBSET S /\ j \in Up(j)
      OBVIOUS
    <3>2. Cardinality(Up(j)) <= N /\ Cardinality(Up(j)) \in Nat /\ Cardinality(Up(j)) # 0
      BY <1>3, <3>1, FS_Subset, FS_CardinalityType, FS_EmptySet
    <3> QED BY <1>1, <1>3, <3>2
  <2> DEFINE i == at[Place(S, j)]
  <2>2. i \in S /\ Place(S, i) = Place(S, j)
    BY <1>2, <2>1
  <2>3. i = j
    <3> HIDE DEF i
    <3>1. i \in Nat /\ j \in Nat
      BY <2>2
    <3>2. Cardinality(Up(i)) = Cardinality(Up(j))
      BY <1>3, <2>2
    <3>3. CASE i < j
      <4>1. Up(j) \in SUBSET Up(i)
        <5>1. \A k \in S : k \in Nat
          OBVIOUS
        <5>2. \A k \in S : k >= j => k >= i
          BY <3>1, <3>3, <5>1
        <5> QED BY <5>2
      <4>2. Up(i) = Up(j)
        BY <4>1, <1>3, <2>2, <3>2, FS_Subset
      <4> QED BY <4>2, <2>2, <3>1, <3>3
    <3>4. CASE j < i
      <4>1. Up(i) \in SUBSET Up(j)
        <5>1. \A k \in S : k \in Nat
          OBVIOUS
        <5>2. \A k \in S : k >= i => k >= j
          BY <3>1, <3>4, <5>1
        <5> QED BY <5>2
      <4>2. Up(i) = Up(j)
        BY <4>1, <1>3, <3>2, FS_Subset
      <4> QED BY <4>2, <3>1, <3>4
    <3> QED BY <3>1, <3>3, <3>4
  <2> QED BY <2>1, <2>3
<1>6. /\ Max(S) \in S /\ \A j \in S : j <= Max(S)
      /\ Min(S) \in S /\ \A j \in S : j >= Min(S)
  BY MaxAndMin
<1> HIDE DEF N, Up
<1>7. \A j \in S : j \in Nat
  OBVIOUS
<1>8. at[1] = Max(S)
  <2>1. PICK n \in 1..N : at[n] = Max(S)
    BY <1>5, <1>6
  <2>2. 1 \in 1..N /\ (n = 1 \/ 1 < n)
    BY <1>1
  <2>3. at[1] \in Nat /\ at[1] <= Max(S) /\ Max(S) \in Nat
    BY <2>2, <1>2, <1>6, <1>7
  <2>4. 1 < n => at[n] < at[1]
    BY <2>2, <1>4
  <2> QED BY <2>1, <2>2, <2>3, <2>4
<1>9. at[N] = Min(S)
  <2>1. PICK n \in 1..N : at[n] = Min(S)
    BY <1>5, <1>6
  <2>2. N \in 1..N /\ (n = N \/ n < N)
    BY <1>1
  <2>3. at[N] \in Nat /\ at[N] >= Min(S) /\ Min(S) \in Nat
    BY <2>2, <1>2, <1>6, <1>7
  <2>4. n < N => at[N] < at[n]
    BY <2>2, <1>4
  <2> QED BY <2>1, <2>2, <2>3, <2>4
<1>10. ASSUME NEW n \in 1..(N - 1)
       PROVE  at[n] \in S \ {Min(S)} /\ at[n + 1] = Max({j \in S : j < at[n]})
  <2> DEFINE B == {j \in S : j < at[n]}
  <2>1. n \in 1..N /\ n + 1 \in 1..N /\ N \in 1..N /\ n < N /\ n < n + 1
    BY <1>1
  <2>2. at[n] \in S /\ at[N] < at[n] /\ at[n] \in Nat /\ at[N] \in Nat
    BY <2>1, <1>2, <1>4, <1>7
  <2>3. at[n] # Min(S)
    BY <2>2, <1>9
  <2>4. at[n + 1] \in B /\ at[n + 1] \in Nat
    BY <2>1, <1>2, <1>4, <1>7
  <2>5. B \in SUBSET Nat /\ IsFiniteSet(B)
    BY FS_Subset
  <2>6. \A m \in 1..N : at[m] < at[n] => at[m] <= at[n + 1]
    <3> SUFFICES ASSUME NEW m \in 1..N, at[m] < at[n] PROVE at[m] <= at[n + 1]
      OBVIOUS
    <3>1. at[m] \in Nat
      BY <1>2, <1>7
    <3>2. m < n => at[n] < at[m]
      BY <2>1, <1>4
    <3>3. n + 1 < m => at[m] < at[n + 1]
      BY <2>1, <1>4
    <3>4. m < n \/ m = n \/ m = n + 1 \/ n + 1 < m
      BY <2>1, <1>1
    <3> QED BY <3>1, <3>2, <3>3, <3>4, <2>2, <2>4
  <2>7. \A j \in B : j <= at[n + 1]
    BY <2>6, <1>5
  <2>8. Max(B) \in B /\ \A j \in B : j <= Max(B)
    BY <2>4, <2>5, MaxAndMin
  <2>9. Max(B) \in Nat /\ Max(B) <= at[n + 1] /\ at[n + 1] <= Max(B)
    BY <2>4, <2>5, <2>7, <2>8
  <2> QED BY <2>2, <2>3, <2>4, <2>9
<1> QED BY <1>1, <1>2, <1>8, <1>9, <1>10 DEF at, N

\* What the records s of a file f say it holds, and that each of them starts from
\* what the one before it left.
SaidIn(s, f) == IF s = <<>> THEN Initial[f] ELSE s[Len(s)].after
ChainIn(s, f) ==
  \A i \in DOMAIN s : s[i].before = IF i = 1 THEN Initial[f] ELSE s[i - 1].after

\* A roll-back of mutations among s, each of which starts from what the next older
\* one of them left.
Fits(e, s) ==
  e.undoes # {} =>
    /\ e.undoes \subseteq DOMAIN s
    /\ e.before = s[Max(e.undoes)].after /\ e.after = s[Min(e.undoes)].before
    /\ \A i \in e.undoes \ {Min(e.undoes)} :
         s[i].before = s[Max({j \in e.undoes : j < i})].after

\* Records of one transaction that lead from one content to another.
Leads(t, id, before, after) ==
  /\ t \in Seq({t[n] : n \in DOMAIN t}) /\ Len(t) \in Nat \ {0}
  /\ \A n \in 1..Len(t) : t[n].tx = id
  /\ t[1].before = before /\ t[Len(t)].after = after
  /\ \A n \in 1..(Len(t) - 1) : t[n + 1].before = t[n].after

LEMMA RecordsLead ==
  ASSUME NEW id, NEW f \in Files, NEW e, Log(journal[f]), Fits(e, journal[f])
  PROVE  Leads(Records(id, f, e), id, e.before, e.after)
<1> DEFINE s == journal[f]
           t == Records(id, f, e)
<1>1. CASE e.undoes = {}
  <2> DEFINE only == [tx |-> id, before |-> e.before, after |-> e.after, reverts |-> 0]
  <2>1. t = <<only>>
    BY <1>1 DEF Records
  <2>2. DOMAIN t = {1} /\ t[1] = only /\ Len(t) = 1
    BY <2>1
  <2>3. t \in Seq({t[n] : n \in DOMAIN t})
    BY <2>1, <2>2
  <2> QED BY <2>2, <2>3 DEF Leads
<1>2. CASE e.undoes # {}
  <2> DEFINE S == e.undoes
             N == Cardinality(S)
             at == Downwards(S)
             made(i) == [tx |-> id, before |-> s[i].after, after |-> s[i].before, reverts |-> i]
  <2>1. S \subseteq 1..Len(s) /\ Len(s) \in Nat
    BY <1>2, LogDomain DEF Fits
  <2>2. S \in SUBSET Nat /\ IsFiniteSet(S)
    <3>1. IsFiniteSet(1..Len(s))
      BY <2>1, FS_Interval
    <3> QED BY <2>1, <3>1, FS_Subset
  <2>3. /\ N \in Nat \ {0} /\ DOMAIN at = 1..N
        /\ \A n \in 1..N : at[n] \in S
        /\ at[1] = Max(S) /\ at[N] = Min(S)
        /\ \A n \in 1..(N - 1) : at[n] \in S \ {Min(S)} /\ at[n + 1] = Max({j \in S : j < at[n]})
    BY <1>2, <2>2, DownwardsIs
  <2>4. t = [n \in 1..N |-> made(at[n])]
    <3>1. t = [n \in 1..N |-> made(CHOOSE i \in S : Cardinality({j \in S : j >= i}) = n)]
      BY <1>2 DEF Records
    <3>2. \A n \in 1..N : at[n] = CHOOSE i \in S : Cardinality({j \in S : j >= i}) = n
      BY DEF Downwards, Place
    <3> HIDE DEF at, made
    <3> QED BY <3>1, <3>2
  <2> HIDE DEF at, N, S, s, t
  <2>5. DOMAIN t = 1..N /\ \A n \in 1..N : t[n] = made(at[n])
    BY <2>4
  <2>6. t \in Seq({t[n] : n \in DOMAIN t}) /\ Len(t) = N
    <3>1. t \in [1..N -> {t[n] : n \in DOMAIN t}]
      BY <2>4
    <3>2. t \in Seq({t[n] : n \in DOMAIN t})
      BY <3>1, <2>3, SeqDef
    <3>3. DOMAIN t = 1..Len(t) /\ Len(t) \in Nat
      BY <3>2, LenProperties
    <3> DEFINE M == Len(t)
    <3>4. N \in Nat \ {0} /\ M \in Nat /\ 1..M = 1..N
      BY <3>3, <2>3, <2>5
    <3> HIDE DEF M
    <3>5. N \in 1..M
      BY <3>4
    <3>6. M \in 1..N
      <4>1. M \in 1..M
        BY <3>4, <3>5
      <4> QED BY <4>1, <3>4
    <3>7. M = N
      BY <3>4, <3>5, <3>6
    <3> QED BY <3>2, <3>7 DEF M
  <2>7. \A n \in 1..N : t[n].tx = id
    BY <2>5
  <2>8. /\ e.before = s[Max(S)].after /\ e.after = s[Min(S)].before
        /\ \A i \in S \ {Min(S)} : s[i].before = s[Max({j \in S : j < i})].after
    BY <1>2 DEF Fits, S, s
  <2>9. t[1].before = e.before /\ t[N].after = e.after
    <3>1. 1 \in 1..N /\ N \in 1..N
      BY <2>3
    <3> QED BY <3>1, <2>3, <2>5, <2>8
  <2>10. ASSUME NEW n \in 1..(N - 1)
         PROVE  t[n + 1].before = t[n].after
    <3>1. n \in 1..N /\ n + 1 \in 1..N
      BY <2>3
    <3>2. t[n + 1].before = s[at[n + 1]].after /\ t[n].after = s[at[n]].before
      BY <3>1, <2>5
    <3>3. at[n] \in S \ {Min(S)} /\ at[n + 1] = Max({j \in S : j < at[n]})
      BY <2>3
    <3> QED BY <3>2, <3>3, <2>8
  <2> QED BY <2>3, <2>6, <2>7, <2>9, <2>10 DEF Leads, t
<1> QED BY <1>1, <1>2

\* The records u of a file f are the records s and, after them, records of one
\* transaction that lead from one content to another.
Prolongs(u, s, f, id, before, after) ==
  /\ SaidIn(u, f) = after
  /\ ChainIn(s, f) /\ before = SaidIn(s, f) => ChainIn(u, f)
  /\ \A i \in DOMAIN u : (i \in DOMAIN s /\ u[i] = s[i]) \/ u[i].tx = id
  /\ \A i \in DOMAIN s : i \in DOMAIN u /\ u[i] = s[i]
  /\ \E i \in DOMAIN u : u[i].tx = id

LEMMA RecordsAdded ==
  ASSUME NEW s, NEW t, NEW f, NEW id, NEW before, NEW after, Log(s), Leads(t, id, before, after)
  PROVE  Prolongs(s \o t, s, f, id, before, after)
<1> DEFINE T == {s[i] : i \in DOMAIN s} \cup {t[n] : n \in DOMAIN t}
           u == s \o t
           L == Len(s)
           N == Len(t)
<1>1. s \in Seq(T) /\ t \in Seq(T)
  BY SeqMonotonic DEF Log, Leads
<1>2. L \in Nat /\ N \in Nat \ {0} /\ DOMAIN s = 1..L /\ DOMAIN t = 1..N
  BY <1>1, LenProperties DEF Leads
<1>3. u \in Seq(T) /\ Len(u) = L + N /\ \A i \in 1..(L + N) : u[i] = IF i <= L THEN s[i] ELSE t[i - L]
  BY <1>1, ConcatProperties
<1>4. DOMAIN u = 1..(L + N)
  BY <1>3, LenProperties
<1>5. s # <<>> <=> L # 0
  BY <1>1, EmptySeq
<1> HIDE DEF u, T, L, N
<1>6. u # <<>>
  <2>1. Len(u) # 0
    BY <1>2, <1>3
  <2> QED BY <2>1
<1>7. \A i \in DOMAIN s : i \in DOMAIN u /\ u[i] = s[i]
  BY <1>2, <1>3, <1>4
<1>8. \A n \in 1..N : L + n \in DOMAIN u /\ u[L + n] = t[n]
  <2> SUFFICES ASSUME NEW n \in 1..N PROVE L + n \in DOMAIN u /\ u[L + n] = t[n]
    OBVIOUS
  <2>1. L + n \in 1..(L + N) /\ ~(L + n <= L) /\ (L + n) - L = n
    BY <1>2
  <2>2. u[L + n] = t[(L + n) - L]
    BY <2>1, <1>3
  <2> QED BY <2>1, <2>2, <1>4
<1>9. \A i \in DOMAIN u : i \in DOMAIN s \/ \E n \in 1..N : i = L + n
  <2> SUFFICES ASSUME NEW i \in DOMAIN u, i \notin DOMAIN s PROVE \E n \in 1..N : i = L + n
    OBVIOUS
  <2>1. i - L \in 1..N /\ i = L + (i - L)
    BY <1>2, <1>4
  <2> QED BY <2>1
<1>10. SaidIn(u, f) = after
  <2>1. SaidIn(u, f) = u[L + N].after
    BY <1>3, <1>6 DEF SaidIn
  <2>2. N \in 1..N
    BY <1>2
  <2> QED BY <2>1, <2>2, <1>8 DEF Leads, N
<1>11. ASSUME ChainIn(s, f), before = SaidIn(s, f)
       PROVE  ChainIn(u, f)
  <2> SUFFICES ASSUME NEW i \in DOMAIN u
               PROVE  u[i].before = IF i = 1 THEN Initial[f] ELSE u[i - 1].after
    BY DEF ChainIn
  <2>1. CASE i \in DOMAIN s
    <3>1. i # 1 => i - 1 \in DOMAIN s
      BY <2>1, <1>2
    <3> QED BY <2>1, <3>1, <1>7, <1>11 DEF ChainIn
  <2>2. CASE i = L + 1
    <3>1. u[i] = t[1]
      BY <2>2, <1>2, <1>8
    <3>2. t[1].before = before
      BY DEF Leads
    <3>3. CASE L = 0
      BY <2>2, <3>1, <3>2, <3>3, <1>5, <1>11 DEF SaidIn
    <3>4. CASE L # 0
      <4>1. L \in DOMAIN s /\ i - 1 = L /\ i # 1
        BY <2>2, <3>4, <1>2
      <4>2. before = s[L].after
        BY <3>4, <1>5, <1>11 DEF SaidIn, L
      <4> QED BY <3>1, <3>2, <4>1, <4>2, <1>7
    <3> QED BY <3>3, <3>4
  <2>3. ASSUME NEW n \in 1..(N - 1), i = L + (n + 1)
        PROVE  u[i].before = IF i = 1 THEN Initial[f] ELSE u[i - 1].after
    <3>1. n \in 1..N /\ n + 1 \in 1..N /\ i # 1 /\ i - 1 = L + n
      BY <2>3, <1>2
    <3>2. u[i] = t[n + 1] /\ u[i - 1] = t[n]
      BY <2>3, <3>1, <1>8
    <3>3. t[n + 1].before = t[n].after
      BY DEF Leads, N
    <3> QED BY <3>1, <3>2, <3>3
  <2>4. i \in DOMAIN s \/ i = L + 1 \/ \E n \in 1..(N - 1) : i = L + (n + 1)
    <3>1. CASE i \in DOMAIN s
      BY <3>1
    <3>2. CASE \E m \in 1..N : i = L + m
      <4>1. PICK m \in 1..N : i = L + m
        BY <3>2
      <4>2. m = 1 \/ (m - 1 \in 1..(N - 1) /\ m = (m - 1) + 1)
        BY <1>2
      <4> QED BY <4>1, <4>2
    <3> QED BY <3>1, <3>2, <1>9
  <2> QED BY <2>1, <2>2, <2>3, <2>4
<1>12. \A i \in DOMAIN u : (i \in DOMAIN s /\ u[i] = s[i]) \/ u[i].tx = id
  <2> SUFFICES ASSUME NEW i \in DOMAIN u PROVE (i \in DOMAIN s /\ u[i] = s[i]) \/ u[i].tx = id
    OBVIOUS
  <2>1. CASE i \in DOMAIN s
    BY <2>1, <1>7
  <2>2. ASSUME NEW m \in 1..N, i = L + m PROVE u[i].tx = id
    <3>1. u[i] = t[m]
      BY <2>2, <1>8
    <3>2. t[m].tx = id
      BY DEF Leads, N
    <3> QED BY <3>1, <3>2
  <2> QED BY <2>1, <2>2, <1>9
<1>13. \E i \in DOMAIN u : u[i].tx = id
  <2>1. 1 \in 1..N
    BY <1>2
  <2>2. L + 1 \in DOMAIN u /\ u[L + 1] = t[1] /\ t[1].tx = id
    BY <2>1, <1>8 DEF Leads, N
  <2> QED BY <2>2
<1> QED BY <1>7, <1>10, <1>11, <1>12, <1>13 DEF u, Prolongs

-----------------------------------------------------------------------------
(* What the journal says and what the files hold.                          *)

\* Nothing excuses file f.
CleanIn(x, f) == \A why \in {"edited", "dropped", "unswept"} : <<f, why>> \notin x
CommittedIn(j, tx) == \E f \in Files : \E i \in DOMAIN j[f] : j[f][i].tx = tx.id

Members(s) == {s[k] : k \in DOMAIN s}

\* What runtime r works on.
Work(r) ==
  [pc |-> pc[r], want |-> want[r], job |-> job[r], left |-> left[r],
   tried |-> Members(attempted[r]), unsafe |-> unsafe[r]]
IdleWork ==
  [pc |-> "idle", want |-> {}, job |-> NoTx, left |-> {}, tried |-> {}, unsafe |-> FALSE]

Busy == {"writing", "undoing"}

WorkShape(w, r, h) ==
  /\ w.pc \in Places /\ w.want \subseteq Files /\ w.left \subseteq w.want /\ w.tried \subseteq w.want
  /\ w.pc \in {"idle", "sweeping", "recovering", "preparing", "closing"} => w.left = {}
  /\ w.pc \notin {"writing", "undoing", "closing"} => w.tried = {}
  /\ w.pc \notin {"idle", "sweeping", "preparing"} => DOMAIN w.job.entries = w.want
  /\ w.pc \in {"restoring", "writing", "undoing", "closing"} =>
       w.want # {} /\ \A f \in w.want : h[f] = r
  /\ w.unsafe \in BOOLEAN /\ (w.pc # "undoing" => w.unsafe = FALSE)

\* A transaction in the making is not committed, and if it is of several files it
\* has its manifest.
JobGood(w, j, m) ==
  /\ w.pc \in Busy =>
       ~CommittedIn(j, w.job) /\ (Cardinality(DOMAIN w.job.entries) > 1 => w.job \in m)
  /\ w.pc = "closing" => CommittedIn(j, w.job)
  /\ w.pc = "restoring" /\ w.left # {} => ~CommittedIn(j, w.job)

\* A file the work is about: its content d, its records s, whether anything excuses
\* it and whether the work is committed.
FileGood(w, f, d, s, clean, committed) ==
  LET e == w.job.entries[f] IN
  /\ w.pc = "writing" => Fits(e, s)
  /\ clean /\ w.pc \in Busy => e.before = SaidIn(s, f)
  /\ clean /\ w.pc = "writing" =>
       /\ d = IF f \in w.left THEN e.before ELSE e.after
       /\ f \in w.left \/ f \in w.tried \/ d = e.before
  /\ clean /\ w.pc = "undoing" =>
       /\ d \in {e.before, e.after}
       /\ f \in w.tried \/ w.unsafe = TRUE \/ d = e.before
       /\ w.unsafe = FALSE \/ Cardinality(DOMAIN w.job.entries) > 1
  /\ clean /\ w.pc = "restoring" /\ ~committed => f \in w.left \/ d = e.before

FilesGood(w, d, j, x) ==
  \A f \in w.want : FileGood(w, f, d[f], j[f], CleanIn(x, f), CommittedIn(j, w.job))

WorkGood(w, r, h, d, j, m, x) == WorkShape(w, r, h) /\ JobGood(w, j, m) /\ FilesGood(w, d, j, x)

\* The transactions that somebody knows of.
KnownOf(m, read, at) ==
  m \cup (UNION {read[r] : r \in Runtimes}) \cup {at[r] : r \in Runtimes} \cup {NoTx}
Known == KnownOf(manifests, found, job)

Numbered(txs, j, n) ==
  /\ n \in Nat
  /\ \A tx \in txs : tx.id \in 0..n
  /\ \A tx, other \in txs : tx.id = other.id => tx = other
  /\ \A f \in Files : \A i \in DOMAIN j[f] : j[f][i].tx \in 0..n

\* Nobody knows a later transaction of a file than the one that is written.
Newest(w, txs) ==
  w.pc = "writing" =>
    \A f \in w.want : \A tx \in txs : f \in DOMAIN tx.entries => tx.id <= w.job.id

\* What an uncommitted transaction would put back is what the records say, unless
\* there are later ones.
Based(txs, j, x) ==
  \A f \in Files : \A tx \in txs :
    /\ CleanIn(x, f) /\ f \in DOMAIN tx.entries /\ ~CommittedIn(j, tx)
    /\ \A i \in DOMAIN j[f] : ~(j[f][i].tx > tx.id)
    => tx.entries[f].before = SaidIn(j[f], f)

\* A file holds what its records say, or what a transaction left that has a manifest
\* and starts from what they say.
Explained(f, d, j, m) ==
  \/ d = SaidIn(j[f], f)
  \/ \E tx \in m : /\ f \in DOMAIN tx.entries /\ ~CommittedIn(j, tx)
                   /\ tx.entries[f].before = SaidIn(j[f], f) /\ tx.entries[f].after = d

InWork(f) == \E r \in Runtimes : pc[r] \in Busy /\ f \in want[r]

Settled ==
  \A f \in Files : CleanIn(excused, f) /\ ~InWork(f) => Explained(f, disk[f], journal, manifests)

Chained == \A f \in Files : CleanIn(excused, f) => ChainIn(journal[f], f)

Maps ==
  /\ DOMAIN disk = Files /\ DOMAIN holder = Files /\ DOMAIN pc = Runtimes
  /\ DOMAIN want = Runtimes /\ DOMAIN job = Runtimes /\ DOMAIN found = Runtimes
  /\ DOMAIN left = Runtimes /\ DOMAIN attempted = Runtimes /\ DOMAIN unsafe = Runtimes
  /\ \A r \in Runtimes : attempted[r] \in Seq(Files)

Workers ==
  \A r \in Runtimes : WorkGood(Work(r), r, holder, disk, journal, manifests, excused)

Agrees ==
  /\ Maps /\ Workers /\ Numbered(Known, journal, changes)
  /\ \A r \in Runtimes : Newest(Work(r), Known)
  /\ Based(Known, journal, excused) /\ Settled /\ Chained

LEMMA KnownIs ==
  ASSUME NEW m, NEW read, NEW at, NEW tx
  PROVE  tx \in KnownOf(m, read, at) <=>
           \/ tx \in m \/ tx = NoTx
           \/ \E r \in Runtimes : tx \in read[r] \/ tx = at[r]
BY DEF KnownOf

LEMMA CommittedIs == \A tx : Committed(tx) <=> CommittedIn(journal, tx)
BY DEF Committed, CommittedIn

LEMMA SaidIs == \A f : Said(f) = SaidIn(journal[f], f)
BY DEF Said, SaidIn

LEMMA CleanIs == \A f : Excuses(f) = {} <=> CleanIn(excused, f)
BY DEF Excuses, CleanIn

LEMMA WorkFields ==
  ASSUME NEW r \in Runtimes
  PROVE  /\ Work(r).pc = pc[r] /\ Work(r).want = want[r] /\ Work(r).job = job[r]
         /\ Work(r).left = left[r] /\ Work(r).unsafe = unsafe[r]
         /\ Work(r).tried = Members(attempted[r])
BY DEF Work

\* Work on which nothing depends.
LEMMA IdleGood ==
  ASSUME NEW r, NEW h, NEW d, NEW j, NEW m, NEW x
  PROVE  WorkGood(IdleWork, r, h, d, j, m, x)
BY DEF IdleWork, WorkGood, WorkShape, JobGood, FilesGood, Busy, Places

\* Work of a runtime whose files others leave alone.
LEMMA OthersStay ==
  ASSUME NEW w, NEW r, NEW h, NEW d, NEW j, NEW m, NEW x, NEW h2, NEW d2, NEW j2, NEW m2, NEW x2,
         WorkGood(w, r, h, d, j, m, x), x \subseteq x2,
         \A f \in Files : h[f] = r =>
           /\ h2[f] = r /\ j2[f] = j[f]
           /\ CleanIn(x2, f) => d2[f] = d[f],
         w.pc \in {"restoring", "writing", "undoing", "closing"} =>
           (CommittedIn(j, w.job) <=> CommittedIn(j2, w.job)),
         w.pc \in Busy /\ w.job \in m => w.job \in m2
  PROVE  WorkGood(w, r, h2, d2, j2, m2, x2)
<1>1. WorkShape(w, r, h2)
  BY DEF WorkGood, WorkShape
<1>2. JobGood(w, j2, m2)
  BY DEF WorkGood, JobGood, Busy
<1>3. FilesGood(w, d2, j2, x2)
  <2> SUFFICES ASSUME NEW f \in w.want
               PROVE  FileGood(w, f, d2[f], j2[f], CleanIn(x2, f), CommittedIn(j2, w.job))
    BY DEF FilesGood
  <2>1. CASE w.pc \in {"restoring", "writing", "undoing", "closing"}
    <3>1. f \in Files /\ h[f] = r
      BY <2>1 DEF WorkGood, WorkShape
    <3>2. j2[f] = j[f] /\ (CleanIn(x2, f) => d2[f] = d[f] /\ CleanIn(x, f))
      BY <3>1 DEF CleanIn
    <3>3. FileGood(w, f, d[f], j[f], CleanIn(x, f), CommittedIn(j, w.job))
      BY DEF WorkGood, FilesGood
    <3> QED BY <2>1, <3>2, <3>3 DEF FileGood
  <2>2. CASE w.pc \notin {"restoring", "writing", "undoing", "closing"}
    BY <2>2 DEF FileGood, Busy
  <2> QED BY <2>1, <2>2
<1> QED BY <1>1, <1>2, <1>3 DEF WorkGood

-----------------------------------------------------------------------------
(* The shapes of a step.                                                   *)

\* Runtime r takes a step: the others go on with what they have, under their locks.
StepOf(r) ==
  /\ Maps' /\ excused \subseteq excused'
  /\ \A q \in Runtimes \ {r} : Work(q)' = Work(q) /\ found'[q] = found[q]
  /\ \A f \in Files : holder[f] \in Runtimes \ {r} => holder'[f] = holder[f]

\* It commits nothing, and touches the files it holds and the manifest of its job.
QuietStepOf(r) ==
  /\ StepOf(r) /\ UNCHANGED <<journal, changes>>
  /\ \A f \in Files : disk'[f] = disk[f] \/ holder[f] = r
  /\ manifests' \subseteq manifests
  /\ \A tx \in manifests \ manifests' :
       tx = job[r] /\ DOMAIN tx.entries = want[r] /\ \A f \in want[r] : holder[f] = r
  /\ found'[r] \subseteq Known /\ job'[r] \in Known
  /\ pc'[r] = "writing" => pc[r] = "writing" /\ want'[r] = want[r] /\ job'[r] = job[r]

LEMMA OtherWorks ==
  ASSUME NEW r \in Runtimes, StepOf(r)
  PROVE  \A q \in Runtimes \ {r} : pc'[q] = pc[q] /\ want'[q] = want[q] /\ job'[q] = job[q]
BY DEF StepOf, Work

LEMMA QuietWorkers ==
  ASSUME Agrees, NEW r \in Runtimes, QuietStepOf(r),
         WorkGood(Work(r)', r, holder', disk', journal', manifests', excused')
  PROVE  Workers'
<1> SUFFICES ASSUME NEW q \in Runtimes, q # r
             PROVE  WorkGood(Work(q)', q, holder', disk', journal', manifests', excused')
  BY DEF Workers
<1> DEFINE w == Work(q)
<1>1. w' = w /\ excused \subseteq excused' /\ journal' = journal
  BY DEF QuietStepOf, StepOf
<1>2. WorkGood(w, q, holder, disk, journal, manifests, excused)
  BY DEF Agrees, Workers
<1>3. \A f \in Files : holder[f] = q => holder'[f] = q /\ disk'[f] = disk[f]
  BY DEF QuietStepOf, StepOf
<1>4. w.pc \in Busy /\ w.job \in manifests => w.job \in manifests'
  <2> SUFFICES ASSUME w.pc \in Busy, w.job \in manifests \ manifests' PROVE FALSE
    OBVIOUS
  <2>1. DOMAIN w.job.entries = want[r] /\ \A f \in want[r] : holder[f] = r
    BY DEF QuietStepOf
  <2>2. w.want = want[r] /\ w.want # {} /\ \A f \in w.want : holder[f] = q
    BY <1>2, <2>1 DEF WorkGood, WorkShape, Busy
  <2> QED BY <2>1, <2>2
<1> HIDE DEF w
<1>5. WorkGood(w, q, holder', disk', journal', manifests', excused')
  BY <1>1, <1>2, <1>3, <1>4, OthersStay
<1> QED BY <1>1, <1>5 DEF w

LEMMA QuietKnown ==
  ASSUME Agrees, NEW r \in Runtimes, QuietStepOf(r)
  PROVE  Known' \subseteq Known
<1> SUFFICES ASSUME NEW tx \in Known' PROVE tx \in Known
  OBVIOUS
<1>1. \A q \in Runtimes \ {r} : found'[q] = found[q] /\ job'[q] = job[q]
  BY OtherWorks DEF QuietStepOf, StepOf
<1>2. \/ tx \in manifests' \/ tx = NoTx
      \/ \E q \in Runtimes : tx \in found'[q] \/ tx = job'[q]
  BY KnownIs DEF Known
<1>3. manifests' \subseteq manifests /\ found'[r] \subseteq Known /\ job'[r] \in Known
  BY DEF QuietStepOf
<1> QED BY <1>1, <1>2, <1>3, KnownIs DEF Known

\* What holds of all transactions goes on to hold.
LEMMA QuietRest ==
  ASSUME Agrees, NEW r \in Runtimes, QuietStepOf(r)
  PROVE  /\ Numbered(Known', journal', changes')
         /\ \A q \in Runtimes : Newest(Work(q)', Known')
         /\ Based(Known', journal', excused') /\ Chained'
<1>1. Known' \subseteq Known /\ journal' = journal /\ changes' = changes /\ excused \subseteq excused'
  BY QuietKnown DEF QuietStepOf, StepOf
<1>2. \A f \in Files : CleanIn(excused', f) => CleanIn(excused, f)
  BY <1>1 DEF CleanIn
<1>3. Numbered(Known', journal', changes')
  BY <1>1 DEF Agrees, Numbered
<1>4. ASSUME NEW q \in Runtimes
      PROVE  Newest(Work(q)', Known')
  <2>1. Newest(Work(q), Known)
    BY DEF Agrees
  <2>2. pc'[q] = "writing" => pc[q] = "writing" /\ want'[q] = want[q] /\ job'[q] = job[q]
    BY OtherWorks DEF QuietStepOf
  <2>3. /\ Work(q).pc = pc[q] /\ Work(q).want = want[q] /\ Work(q).job = job[q]
        /\ Work(q)'.pc = pc'[q] /\ Work(q)'.want = want'[q] /\ Work(q)'.job = job'[q]
    BY DEF Work
  <2> QED BY <1>1, <2>1, <2>2, <2>3 DEF Newest
<1>5. Based(Known', journal', excused')
  BY <1>1, <1>2 DEF Agrees, Based
<1>6. Chained'
  BY <1>1, <1>2 DEF Agrees, Chained
<1> QED BY <1>3, <1>4, <1>5, <1>6

LEMMA QuietAgrees ==
  ASSUME Agrees, NEW r \in Runtimes, QuietStepOf(r),
         WorkGood(Work(r)', r, holder', disk', journal', manifests', excused'),
         Settled'
  PROVE  Agrees'
<1>1. Workers' /\ Maps'
  BY QuietWorkers DEF QuietStepOf, StepOf
<1>2. /\ Numbered(Known, journal, changes)'
      /\ (\A q \in Runtimes : Newest(Work(q), Known))'
      /\ Based(Known, journal, excused)' /\ Chained'
  BY QuietRest
<1> QED BY <1>1, <1>2 DEF Agrees

\* A file in which nothing has changed is still explained.
LEMMA StaysExplained ==
  ASSUME Agrees, NEW r \in Runtimes, QuietStepOf(r), NEW f \in Files,
         CleanIn(excused', f), ~InWork(f), disk'[f] = disk[f],
         \A tx \in manifests \ manifests' : f \in DOMAIN tx.entries => CommittedIn(journal, tx)
  PROVE  Explained(f, disk'[f], journal', manifests')
<1>1. journal' = journal /\ CleanIn(excused, f)
  BY DEF QuietStepOf, StepOf, CleanIn
<1>2. Explained(f, disk[f], journal, manifests)
  BY <1>1 DEF Agrees, Settled
<1> QED BY <1>1, <1>2 DEF Explained

\* A step that leaves the files alone nobody is writing or putting back.
LEMMA SameInWork ==
  ASSUME Agrees, NEW r \in Runtimes, QuietStepOf(r), UNCHANGED manifests,
         \A f \in Files : (InWork(f)' <=> InWork(f)) /\ (disk'[f] = disk[f] \/ InWork(f)),
         WorkGood(Work(r)', r, holder', disk', journal', manifests', excused')
  PROVE  Agrees'
<1>1. Settled'
  <2> SUFFICES ASSUME NEW f \in Files, CleanIn(excused', f), ~InWork(f)'
               PROVE  Explained(f, disk'[f], journal', manifests')
    BY DEF Settled
  <2> QED BY StaysExplained
<1> QED BY <1>1, QuietAgrees

LEMMA CalmStep ==
  ASSUME Agrees, NEW r \in Runtimes, QuietStepOf(r), UNCHANGED <<disk, manifests>>,
         pc[r] \notin Busy, pc'[r] \notin Busy,
         WorkGood(Work(r)', r, holder', disk', journal', manifests', excused')
  PROVE  Agrees'
<1>1. \A f \in Files : InWork(f)' <=> InWork(f)
  BY OtherWorks DEF InWork, QuietStepOf
<1> QED BY <1>1, SameInWork

LEMMA BusyStep ==
  ASSUME Agrees, NEW r \in Runtimes, QuietStepOf(r), UNCHANGED manifests,
         pc[r] \in Busy, pc'[r] \in Busy, want'[r] = want[r],
         \A f \in Files : disk'[f] = disk[f] \/ f \in want[r],
         WorkGood(Work(r)', r, holder', disk', journal', manifests', excused')
  PROVE  Agrees'
<1>1. \A f \in Files : InWork(f)' <=> InWork(f)
  BY OtherWorks DEF InWork, QuietStepOf
<1>2. \A f \in Files : disk'[f] = disk[f] \/ InWork(f)
  BY DEF InWork
<1> QED BY <1>1, <1>2, SameInWork

\* What a runtime was writing or undoing is explained when it lets go.
LEMMA LetsGo ==
  ASSUME Agrees, NEW r \in Runtimes, QuietStepOf(r), pc[r] \in Busy,
         \A f \in Files : disk'[f] = disk[f] \/ f \in want[r],
         \A f \in want[r] : CleanIn(excused', f) => Explained(f, disk'[f], journal', manifests'),
         WorkGood(Work(r)', r, holder', disk', journal', manifests', excused')
  PROVE  Agrees'
<1>1. Settled'
  <2> SUFFICES ASSUME NEW f \in Files, CleanIn(excused', f), ~InWork(f)'
               PROVE  Explained(f, disk'[f], journal', manifests')
    BY DEF Settled
  <2>1. CASE f \in want[r]
    BY <2>1
  <2>2. CASE f \notin want[r]
    <3>1. ~InWork(f)
      BY <2>2, OtherWorks DEF InWork, QuietStepOf
    <3>2. \A tx \in manifests \ manifests' : f \notin DOMAIN tx.entries
      BY <2>2 DEF QuietStepOf
    <3> QED BY <2>2, <3>1, <3>2, StaysExplained
  <2> QED BY <2>1, <2>2
<1> QED BY <1>1, QuietAgrees

\* The other runtimes are where they were.
Elsewhere(r) ==
  /\ DOMAIN holder' = Files /\ DOMAIN pc' = Runtimes
  /\ DOMAIN want' = Runtimes /\ DOMAIN job' = Runtimes /\ DOMAIN found' = Runtimes
  /\ DOMAIN left' = Runtimes /\ DOMAIN attempted' = Runtimes /\ DOMAIN unsafe' = Runtimes
  /\ attempted'[r] \in Seq(Files)
  /\ \A q \in Runtimes \ {r} :
       /\ pc'[q] = pc[q] /\ want'[q] = want[q] /\ job'[q] = job[q] /\ found'[q] = found[q]
       /\ left'[q] = left[q] /\ attempted'[q] = attempted[q] /\ unsafe'[q] = unsafe[q]
  /\ \A f \in Files : holder[f] \in Runtimes \ {r} => holder'[f] = holder[f]

LEMMA ElsewhereIsStep ==
  ASSUME Maps, NEW r \in Runtimes, Elsewhere(r), DOMAIN disk' = Files, excused \subseteq excused'
  PROVE  StepOf(r)
<1>1. Maps'
  BY DEF Elsewhere, Maps
<1>2. ASSUME NEW q \in Runtimes \ {r}
      PROVE  Work(q)' = Work(q)
  <2>1. /\ pc'[q] = pc[q] /\ want'[q] = want[q] /\ job'[q] = job[q]
        /\ left'[q] = left[q] /\ attempted'[q] = attempted[q] /\ unsafe'[q] = unsafe[q]
    BY DEF Elsewhere
  <2>2. Members(attempted'[q]) = Members(attempted[q])
    BY <2>1
  <2> QED BY <2>1, <2>2 DEF Work
<1> QED BY <1>1, <1>2 DEF StepOf, Elsewhere

\* Whatever ends an operation leaves nothing of it.
LEMMA EndsLeavesNothing ==
  ASSUME Maps, NEW r \in Runtimes, Ends(r)
  PROVE  /\ Elsewhere(r) /\ Work(r)' = IdleWork
         /\ pc'[r] = "idle" /\ want'[r] = {} /\ job'[r] = NoTx /\ found'[r] = {}
<1>1. /\ pc'[r] = "idle" /\ want'[r] = {} /\ job'[r] = NoTx /\ found'[r] = {}
      /\ left'[r] = {} /\ attempted'[r] = <<>> /\ unsafe'[r] = FALSE
  BY DEF Ends, Goto, Unlocks, Maps
<1>2. /\ DOMAIN holder' = Files /\ DOMAIN pc' = Runtimes
      /\ DOMAIN want' = Runtimes /\ DOMAIN job' = Runtimes /\ DOMAIN found' = Runtimes
      /\ DOMAIN left' = Runtimes /\ DOMAIN attempted' = Runtimes /\ DOMAIN unsafe' = Runtimes
  BY DEF Ends, Goto, Unlocks, Maps
<1>3. \A q \in Runtimes \ {r} :
        /\ pc'[q] = pc[q] /\ want'[q] = want[q] /\ job'[q] = job[q] /\ found'[q] = found[q]
        /\ left'[q] = left[q] /\ attempted'[q] = attempted[q] /\ unsafe'[q] = unsafe[q]
  BY DEF Ends, Goto, Unlocks, Maps
<1>4. \A f \in Files : holder[f] \in Runtimes \ {r} => holder'[f] = holder[f]
  BY DEF Ends, Unlocks
<1>5. attempted'[r] \in Seq(Files) /\ Members(attempted'[r]) = {}
  BY <1>1 DEF Members
<1>6. Elsewhere(r)
  BY <1>2, <1>3, <1>4, <1>5 DEF Elsewhere
<1>7. Work(r)' = IdleWork
  BY <1>1, <1>5 DEF Work, IdleWork
<1> QED BY <1>1, <1>6, <1>7

LEMMA EndsQuietly ==
  ASSUME Agrees, NEW r \in Runtimes, Ends(r), UNCHANGED <<journal, changes>>,
         excused \subseteq excused', DOMAIN disk' = Files,
         \A f \in Files : disk'[f] = disk[f] \/ holder[f] = r,
         manifests' \subseteq manifests,
         \A tx \in manifests \ manifests' :
           tx = job[r] /\ DOMAIN tx.entries = want[r] /\ \A f \in want[r] : holder[f] = r
  PROVE  /\ QuietStepOf(r)
         /\ WorkGood(Work(r)', r, holder', disk', journal', manifests', excused')
         /\ pc'[r] = "idle" /\ want'[r] = {}
<1>1. /\ Elsewhere(r) /\ Work(r)' = IdleWork
      /\ pc'[r] = "idle" /\ want'[r] = {} /\ job'[r] = NoTx /\ found'[r] = {}
  BY EndsLeavesNothing DEF Agrees
<1>2. StepOf(r)
  BY <1>1, ElsewhereIsStep DEF Agrees
<1>3. NoTx \in Known
  BY KnownIs DEF Known
<1>4. QuietStepOf(r)
  BY <1>1, <1>2, <1>3 DEF QuietStepOf
<1> QED BY <1>1, <1>4, IdleGood

\* An operation ends that was not writing or undoing.
LEMMA CalmEnd ==
  ASSUME Agrees, NEW r \in Runtimes, Ends(r), UNCHANGED <<disk, journal, manifests, changes>>,
         excused \subseteq excused', pc[r] \notin Busy
  PROVE  Agrees'
<1>1. /\ QuietStepOf(r) /\ pc'[r] = "idle"
      /\ WorkGood(Work(r)', r, holder', disk', journal', manifests', excused')
  BY EndsQuietly DEF Agrees, Maps
<1> QED BY <1>1, CalmStep DEF Busy

\* An operation goes on, and commits nothing.
LEMMA GoesOnQuietly ==
  ASSUME Agrees, NEW r \in Runtimes, Elsewhere(r), UNCHANGED <<journal, changes>>,
         excused \subseteq excused', DOMAIN disk' = Files,
         \A f \in Files : disk'[f] = disk[f] \/ holder[f] = r,
         manifests' = manifests,
         found'[r] \subseteq found[r] \cup manifests, job'[r] \in {job[r], NoTx} \cup found[r],
         pc'[r] = "writing" => pc[r] = "writing" /\ want'[r] = want[r] /\ job'[r] = job[r]
  PROVE  QuietStepOf(r)
<1>1. StepOf(r)
  BY ElsewhereIsStep DEF Agrees
<1>2. found'[r] \subseteq Known /\ job'[r] \in Known
  <2>1. \A tx : tx \in manifests \/ tx = NoTx \/ tx \in found[r] \/ tx = job[r] => tx \in Known
    BY KnownIs DEF Known
  <2> QED BY <2>1
<1> QED BY <1>1, <1>2 DEF QuietStepOf

-----------------------------------------------------------------------------
(* Steps that leave the files alone.                                       *)

LEMMA CalmEnds ==
  ASSUME Inv, Agrees, NEW r \in Runtimes,
         \/ Resumed(r) \/ CancelWaiting(r) \/ Conflicts(r) \/ RecoveryFails(r) \/ Refuse(r)
         \/ Crash(r) /\ pc[r] \notin Busy
  PROVE  Agrees'
<1>1. /\ Ends(r) /\ UNCHANGED <<disk, journal, manifests, changes>> /\ excused \subseteq excused'
  BY DEF Resumed, CancelWaiting, Conflicts, RecoveryFails, Refuse, Crash, files, row, bounds
<1>2. pc[r] \notin Busy
  <2>1. CASE CancelWaiting(r)
    <3>1. PICK f \in want[r] : f \notin Holding(r)
      BY <2>1 DEF CancelWaiting
    <3>2. f \in Files /\ holder[f] # r
      BY <3>1 DEF Holding, Inv, Order, Prefixes, Locks
    <3>3. WorkShape(Work(r), r, holder)
      BY DEF Agrees, Workers, WorkGood
    <3> QED BY <3>1, <3>2, <3>3, WorkFields DEF WorkShape, Busy
  <2>2. CASE ~CancelWaiting(r)
    BY <2>2 DEF Resumed, Conflicts, RecoveryFails, Refuse, Busy
  <2> QED BY <2>1, <2>2
<1> QED BY <1>1, <1>2, CalmEnd

LEMMA BeginAgrees ==
  ASSUME Inv, Agrees, NEW r \in Runtimes, Begin(r) \/ NextManifest(r) \/ AskFiles(r)
  PROVE  Agrees'
<1>1. UNCHANGED <<disk, excused, journal, manifests, holder, left, attempted, unsafe, changes>>
  BY DEF Begin, NextManifest, AskFiles, files, row, bounds, work
<1>2. /\ pc[r] \in {"idle", "sweeping"}
      /\ pc'[r] \in {"sweeping", "recovering", "preparing"}
      /\ job'[r] \in {job[r]} \cup found[r]
      /\ found'[r] \in {found[r], manifests}
      /\ want'[r] \in SUBSET Files
      /\ pc'[r] = "recovering" => DOMAIN job'[r].entries = want'[r]
  <2>1. CASE Begin(r)
    BY <2>1 DEF Begin, Goto, Agrees, Maps, Inv, Order, Prefixes, Locks
  <2>2. CASE NextManifest(r)
    <3>1. PICK tx \in found[r] : job' = [job EXCEPT ![r] = tx]
                                 /\ want' = [want EXCEPT ![r] = DOMAIN tx.entries]
      BY <2>2 DEF NextManifest
    <3>2. DOMAIN tx.entries \in SUBSET Files
      BY <3>1 DEF Inv, Manifests, Covers
    <3> QED BY <2>2, <3>1, <3>2 DEF NextManifest, Goto, Agrees, Maps
  <2>3. CASE AskFiles(r)
    BY <2>3 DEF AskFiles, Goto, Agrees, Maps, work
  <2> QED BY <2>1, <2>2, <2>3
<1>3. Elsewhere(r)
  <2>1. /\ DOMAIN pc' = Runtimes /\ DOMAIN want' = Runtimes
        /\ DOMAIN job' = Runtimes /\ DOMAIN found' = Runtimes
        /\ \A q \in Runtimes \ {r} :
             pc'[q] = pc[q] /\ want'[q] = want[q] /\ job'[q] = job[q] /\ found'[q] = found[q]
    <3>1. CASE Begin(r)
      BY <3>1 DEF Begin, Goto, Agrees, Maps
    <3>2. CASE NextManifest(r)
      BY <3>2 DEF NextManifest, Goto, Agrees, Maps
    <3>3. CASE AskFiles(r)
      BY <3>3 DEF AskFiles, Goto, Agrees, Maps, work
    <3> QED BY <3>1, <3>2, <3>3
  <2> QED BY <1>1, <2>1 DEF Elsewhere, Agrees, Maps
<1>4. QuietStepOf(r)
  BY <1>1, <1>2, <1>3, GoesOnQuietly DEF Agrees, Maps
<1>5. WorkGood(Work(r)', r, holder', disk', journal', manifests', excused')
  <2> DEFINE w == Work(r)
             v == Work(r)'
  <2>1. WorkShape(w, r, holder)
    BY DEF Agrees, Workers, WorkGood
  <2>2. /\ w.pc \in {"idle", "sweeping"} /\ v.pc \in {"sweeping", "recovering", "preparing"}
        /\ v.left = w.left /\ v.tried = w.tried /\ v.unsafe = w.unsafe
        /\ v.want \in SUBSET Files /\ (v.pc = "recovering" => DOMAIN v.job.entries = v.want)
    BY <1>1, <1>2 DEF Work
  <2> HIDE DEF w, v
  <2>3. WorkShape(v, r, holder')
    BY <2>1, <2>2 DEF WorkShape, Places
  <2>4. JobGood(v, journal', manifests') /\ FilesGood(v, disk', journal', excused')
    BY <2>2 DEF JobGood, FilesGood, FileGood, Busy
  <2> QED BY <2>3, <2>4 DEF WorkGood, v
<1> QED BY <1>1, <1>2, <1>4, <1>5, CalmStep DEF Busy

LEMMA LockAgrees ==
  ASSUME Inv, Agrees, NEW r \in Runtimes, Lock(r)
  PROVE  Agrees'
<1>1. PICK f \in Files : /\ f \in want[r] /\ holder[f] = None /\ holder' = [holder EXCEPT ![f] = r]
                         /\ f \notin Holding(r)
  BY DEF Lock, Inv, Order, Prefixes, Locks
<1>2. UNCHANGED <<disk, excused, journal, manifests, pc, want, job, found, left, attempted, unsafe, changes>>
  BY DEF Lock, files, row, work, bounds
<1>3. Elsewhere(r)
  BY <1>1, <1>2, NobodyAssumption DEF Elsewhere, Agrees, Maps
<1>4. QuietStepOf(r)
  BY <1>2, <1>3, GoesOnQuietly DEF Agrees, Maps
<1>5. WorkGood(Work(r)', r, holder', disk', journal', manifests', excused')
  <2> DEFINE w == Work(r)
  <2>1. WorkGood(w, r, holder, disk, journal, manifests, excused)
    BY DEF Agrees, Workers
  <2>2. w' = w
    BY <1>2 DEF Work
  <2>3. \A g \in Files : holder[g] = r => holder'[g] = r
    BY <1>1 DEF Agrees, Maps
  <2> HIDE DEF w
  <2>4. WorkGood(w, r, holder', disk', journal', manifests', excused')
    BY <1>2, <2>1, <2>3, OthersStay
  <2> QED BY <2>2, <2>4 DEF w
<1>6. pc[r] \notin Busy
  <2>1. WorkShape(Work(r), r, holder)
    BY DEF Agrees, Workers, WorkGood
  <2> QED BY <1>1, <2>1, WorkFields, NobodyAssumption DEF WorkShape, Busy
<1> QED BY <1>2, <1>4, <1>5, <1>6, CalmStep

LEMMA MyWork ==
  ASSUME Agrees, NEW r \in Runtimes
  PROVE  /\ WorkGood(Work(r), r, holder, disk, journal, manifests, excused)
         /\ WorkShape(Work(r), r, holder) /\ JobGood(Work(r), journal, manifests)
         /\ \A f \in want[r] :
              FileGood(Work(r), f, disk[f], journal[f], CleanIn(excused, f), CommittedIn(journal, job[r]))
BY DEF Agrees, Workers, WorkGood, FilesGood, Work

LEMMA InspectAgrees ==
  ASSUME Inv, Agrees, NEW r \in Runtimes, Inspect(r)
  PROVE  Agrees'
<1> DEFINE w == Work(r)
           v == Work(r)'
<1>1. UNCHANGED <<disk, excused, journal, manifests, holder, want, job, found, attempted, unsafe, changes>>
  BY DEF Inspect, files, row, bounds
<1>2. /\ pc[r] = "recovering" /\ pc'[r] = "restoring" /\ want[r] # {}
      /\ \A f \in want[r] : holder[f] = r
      /\ left'[r] = IF CommittedIn(journal, job[r]) THEN {}
                    ELSE {f \in want[r] : disk[f] # job[r].entries[f].before}
  BY CommittedIs DEF Inspect, Goto, Agrees, Maps, Locked, Holding, Goes
<1>3. Elsewhere(r)
  BY <1>1 DEF Inspect, Goto, Elsewhere, Agrees, Maps
<1>4. QuietStepOf(r)
  BY <1>1, <1>2, <1>3, GoesOnQuietly DEF Agrees, Maps
<1>5. /\ w.pc = "recovering" /\ v.pc = "restoring"
      /\ v.want = w.want /\ v.job = w.job /\ v.tried = w.tried /\ v.unsafe = w.unsafe
      /\ w.want = want[r] /\ w.job = job[r] /\ v.left = left'[r]
  BY <1>1, <1>2 DEF Work
<1>6. WorkShape(w, r, holder)
  BY MyWork
<1> HIDE DEF w, v
<1>7. WorkShape(v, r, holder')
  BY <1>1, <1>2, <1>5, <1>6 DEF WorkShape, Places
<1>8. JobGood(v, journal', manifests')
  BY <1>1, <1>2, <1>5 DEF JobGood, Busy
<1>9. FilesGood(v, disk', journal', excused')
  BY <1>1, <1>2, <1>5 DEF FilesGood, FileGood, Busy
<1>10. WorkGood(v, r, holder', disk', journal', manifests', excused')
  BY <1>7, <1>8, <1>9 DEF WorkGood
<1> QED BY <1>1, <1>2, <1>4, <1>10, CalmStep DEF v, Busy

LEMMA CascadeAgrees ==
  ASSUME Inv, Agrees, NEW r \in Runtimes, Cascade(r)
  PROVE  Agrees'
<1> DEFINE w == Work(r)
           v == Work(r)'
<1>1. UNCHANGED <<disk, excused, journal, manifests, holder, want, job, found, left, unsafe, changes>>
  BY DEF Cascade, files, row, bounds
<1>2. pc[r] = "closing" /\ pc'[r] = "preparing" /\ attempted'[r] = <<>>
  BY DEF Cascade, Goto, Agrees, Maps
<1>3. Elsewhere(r)
  BY <1>1, <1>2 DEF Cascade, Goto, Elsewhere, Agrees, Maps
<1>4. QuietStepOf(r)
  BY <1>1, <1>2, <1>3, GoesOnQuietly DEF Agrees, Maps
<1>5. /\ w.pc = "closing" /\ v.pc = "preparing" /\ v.tried = {}
      /\ v.want = w.want /\ v.left = w.left /\ v.unsafe = w.unsafe
  BY <1>1, <1>2 DEF Work, Members
<1>6. WorkShape(w, r, holder)
  BY MyWork
<1> HIDE DEF w, v
<1>7. WorkShape(v, r, holder')
  BY <1>5, <1>6 DEF WorkShape, Places
<1>8. JobGood(v, journal', manifests') /\ FilesGood(v, disk', journal', excused')
  BY <1>5 DEF JobGood, FilesGood, FileGood, Busy
<1>9. WorkGood(v, r, holder', disk', journal', manifests', excused')
  BY <1>7, <1>8 DEF WorkGood
<1> QED BY <1>1, <1>2, <1>4, <1>9, CalmStep DEF v, Busy

LEMMA CommitFailsAgrees ==
  ASSUME Inv, Agrees, NEW r \in Runtimes, CommitFails(r)
  PROVE  Agrees'
<1> DEFINE w == Work(r)
           v == Work(r)'
<1>1. UNCHANGED <<disk, excused, journal, manifests, holder, want, job, found, left, attempted, unsafe, changes>>
  BY DEF CommitFails, files, row, work, bounds
<1>2. pc[r] = "writing" /\ pc'[r] = "undoing" /\ left[r] = {}
  BY DEF CommitFails, Goto, Agrees, Maps
<1>3. Elsewhere(r)
  BY <1>1, <1>2 DEF CommitFails, Goto, Elsewhere, Agrees, Maps
<1>4. QuietStepOf(r)
  BY <1>1, <1>2, <1>3, GoesOnQuietly DEF Agrees, Maps
<1>5. /\ w.pc = "writing" /\ v.pc = "undoing" /\ w.left = {} /\ v.tried = w.tried
      /\ v.want = w.want /\ v.left = w.left /\ v.unsafe = w.unsafe /\ v.job = w.job
      /\ w.want = want[r] /\ w.job = job[r]
  BY <1>1, <1>2 DEF Work
<1>6. WorkShape(w, r, holder) /\ JobGood(w, journal, manifests)
  BY MyWork
<1>7. \A f \in want[r] :
        FileGood(w, f, disk[f], journal[f], CleanIn(excused, f), CommittedIn(journal, job[r]))
  BY MyWork
<1> HIDE DEF w, v
<1>8. WorkShape(v, r, holder')
  BY <1>1, <1>5, <1>6 DEF WorkShape, Places
<1>9. JobGood(v, journal', manifests')
  BY <1>1, <1>5, <1>6 DEF JobGood, Busy
<1>10. ASSUME NEW f \in want[r]
       PROVE  FileGood(v, f, disk[f], journal[f], CleanIn(excused, f), CommittedIn(journal, job[r]))
  BY <1>5, <1>6, <1>7 DEF FileGood, Busy, WorkShape
<1>11. WorkGood(v, r, holder', disk', journal', manifests', excused')
  BY <1>1, <1>5, <1>8, <1>9, <1>10 DEF WorkGood, FilesGood
<1>12. pc[r] \in Busy /\ pc'[r] \in Busy
  BY <1>2 DEF Busy
<1> QED BY <1>1, <1>4, <1>11, <1>12, BusyStep DEF v

\* The members of a sequence with one file more, or one less.
LEMMA MembersOf ==
  ASSUME NEW s \in Seq(Files)
  PROVE  /\ s = <<>> => Members(s) = {}
         /\ \A f \in Files : <<f>> \o s \in Seq(Files) /\ Members(<<f>> \o s) = {f} \cup Members(s)
         /\ s # <<>> => /\ Head(s) \in Members(s) /\ Head(s) \in Files /\ Tail(s) \in Seq(Files)
                        /\ Members(s) = {Head(s)} \cup Members(Tail(s))
<1>1. Len(s) \in Nat /\ DOMAIN s = 1..Len(s) /\ \A k \in 1..Len(s) : s[k] \in Files
  BY LenProperties
<1>2. s = <<>> => Members(s) = {}
  BY DEF Members
<1>3. ASSUME NEW f \in Files
      PROVE  <<f>> \o s \in Seq(Files) /\ Members(<<f>> \o s) = {f} \cup Members(s)
  <2> DEFINE u == <<f>> \o s
  <2>1. <<f>> \in Seq(Files) /\ Len(<<f>>) = 1 /\ <<f>>[1] = f
    OBVIOUS
  <2>2. /\ u \in Seq(Files) /\ Len(u) = 1 + Len(s)
        /\ \A k \in 1..(1 + Len(s)) : u[k] = IF k <= 1 THEN f ELSE s[k - 1]
    BY <2>1, ConcatProperties
  <2>3. DOMAIN u = 1..(1 + Len(s))
    BY <2>2, LenProperties
  <2> HIDE DEF u
  <2>4. Members(u) \subseteq {f} \cup Members(s)
    <3> SUFFICES ASSUME NEW k \in 1..(1 + Len(s)) PROVE u[k] = f \/ u[k] \in Members(s)
      BY <2>3 DEF Members
    <3>1. ~(k <= 1) => k - 1 \in 1..Len(s)
      BY <1>1
    <3> QED BY <3>1, <1>1, <2>2 DEF Members
  <2>5. f \in Members(u)
    <3>1. 1 \in 1..(1 + Len(s))
      BY <1>1
    <3> QED BY <3>1, <2>2, <2>3 DEF Members
  <2>6. Members(s) \subseteq Members(u)
    <3> SUFFICES ASSUME NEW k \in 1..Len(s) PROVE s[k] \in Members(u)
      BY <1>1 DEF Members
    <3>1. k + 1 \in 1..(1 + Len(s)) /\ ~(k + 1 <= 1) /\ (k + 1) - 1 = k
      BY <1>1
    <3>2. u[k + 1] = s[k]
      BY <3>1, <2>2
    <3> QED BY <3>1, <3>2, <2>3 DEF Members
  <2> QED BY <2>2, <2>4, <2>5, <2>6 DEF u
<1>4. ASSUME s # <<>>
      PROVE  /\ Head(s) \in Members(s) /\ Head(s) \in Files /\ Tail(s) \in Seq(Files)
             /\ Members(s) = {Head(s)} \cup Members(Tail(s))
  <2> DEFINE t == Tail(s)
  <2>1. Len(s) # 0
    BY <1>4, EmptySeq
  <2>2. Head(s) = s[1] /\ 1 \in 1..Len(s)
    BY <1>1, <1>4, <2>1, HeadTailProperties
  <2>3. t \in Seq(Files) /\ Len(t) = Len(s) - 1 /\ \A k \in 1..(Len(s) - 1) : t[k] = s[k + 1]
    BY <1>4, HeadTailProperties
  <2>4. DOMAIN t = 1..(Len(s) - 1)
    BY <2>3, LenProperties
  <2> HIDE DEF t
  <2>5. Members(s) \subseteq {s[1]} \cup Members(t)
    <3> SUFFICES ASSUME NEW k \in 1..Len(s) PROVE s[k] = s[1] \/ s[k] \in Members(t)
      BY <1>1 DEF Members
    <3>1. k # 1 => k - 1 \in 1..(Len(s) - 1) /\ (k - 1) + 1 = k
      BY <1>1
    <3> QED BY <3>1, <2>3, <2>4 DEF Members
  <2>6. Members(t) \subseteq Members(s)
    <3> SUFFICES ASSUME NEW k \in 1..(Len(s) - 1) PROVE t[k] \in Members(s)
      BY <2>4 DEF Members
    <3>1. k + 1 \in 1..Len(s)
      BY <1>1
    <3> QED BY <3>1, <1>1, <2>3 DEF Members
  <2>7. s[1] \in Members(s)
    BY <1>1, <2>2 DEF Members
  <2> QED BY <1>1, <2>2, <2>3, <2>5, <2>6, <2>7 DEF t
<1> QED BY <1>2, <1>3, <1>4

\* What a change holds, and a change of a single file.
LEMMA HeldFiles ==
  ASSUME Agrees, NEW r \in Runtimes, pc[r] \in {"restoring", "writing", "undoing", "closing"}
  PROVE  /\ want[r] \in SUBSET Files /\ left[r] \subseteq want[r] /\ want[r] # {}
         /\ \A f \in want[r] : f \in Files /\ holder[f] = r
         /\ DOMAIN job[r].entries = want[r]
         /\ Durable(r) <=> Cardinality(DOMAIN job[r].entries) > 1
         /\ ~Durable(r) => \E f \in Files : want[r] = {f}
<1>1. WorkShape(Work(r), r, holder)
  BY MyWork
<1>2. /\ want[r] \in SUBSET Files /\ left[r] \subseteq want[r] /\ want[r] # {}
      /\ \A f \in want[r] : f \in Files /\ holder[f] = r
      /\ DOMAIN job[r].entries = want[r]
  BY <1>1, WorkFields DEF WorkShape
<1>3. ASSUME ~Durable(r)
      PROVE  \E f \in Files : want[r] = {f}
  <2>1. IsFiniteSet(want[r])
    BY <1>2, FilesAssumption, FS_Subset
  <2>2. Cardinality(want[r]) \in Nat /\ Cardinality(want[r]) # 0
    BY <1>2, <2>1, FS_CardinalityType, FS_EmptySet
  <2>3. Cardinality(want[r]) = 1
    BY <1>2, <1>3, <2>2 DEF Durable
  <2> QED BY <1>2, <2>1, <2>3, FS_Singleton
<1> QED BY <1>2, <1>3 DEF Durable

LEMMA WriteAgrees ==
  ASSUME Inv, Agrees, NEW r \in Runtimes, Write(r)
  PROVE  Agrees'
<1> DEFINE w == Work(r)
           v == Work(r)'
<1>1. PICK f \in left[r] :
        /\ left' = [left EXCEPT ![r] = @ \ {f}]
        /\ attempted' = [attempted EXCEPT ![r] = <<f>> \o @]
        /\ disk[f] = job[r].entries[f].before
        /\ disk' = [disk EXCEPT ![f] = job[r].entries[f].after]
  BY DEF Write, Goes
<1>2. UNCHANGED <<excused, journal, manifests, holder, pc, want, job, found, unsafe, changes>>
  BY DEF Write, row, bounds
<1>3. pc[r] = "writing"
  BY DEF Write
<1>4. f \in want[r] /\ f \in Files /\ holder[f] = r
  BY <1>1, <1>3, HeldFiles
<1>5. /\ attempted[r] \in Seq(Files) /\ left'[r] = left[r] \ {f}
      /\ attempted'[r] = <<f>> \o attempted[r]
      /\ disk'[f] = job[r].entries[f].after /\ \A g \in Files \ {f} : disk'[g] = disk[g]
  BY <1>1, <1>4 DEF Agrees, Maps
<1>6. attempted'[r] \in Seq(Files) /\ Members(attempted'[r]) = {f} \cup Members(attempted[r])
  BY <1>4, <1>5, MembersOf
<1>7. Elsewhere(r)
  BY <1>1, <1>2, <1>6 DEF Elsewhere, Agrees, Maps
<1>8. QuietStepOf(r)
  BY <1>1, <1>2, <1>3, <1>4, <1>7, GoesOnQuietly DEF Agrees, Maps
<1>9. /\ w.pc = "writing" /\ v.pc = "writing" /\ v.left = w.left \ {f} /\ v.tried = {f} \cup w.tried
      /\ v.want = w.want /\ v.unsafe = w.unsafe /\ v.job = w.job
      /\ w.want = want[r] /\ w.job = job[r] /\ f \in w.left
  BY <1>1, <1>2, <1>3, <1>5, <1>6 DEF Work
<1>10. WorkShape(w, r, holder) /\ JobGood(w, journal, manifests)
  BY MyWork
<1>11. \A g \in want[r] :
         FileGood(w, g, disk[g], journal[g], CleanIn(excused, g), CommittedIn(journal, job[r]))
  BY MyWork
<1> HIDE DEF w, v
<1>12. WorkShape(v, r, holder')
  BY <1>2, <1>4, <1>9, <1>10 DEF WorkShape
<1>13. JobGood(v, journal', manifests')
  BY <1>2, <1>9, <1>10 DEF JobGood, Busy
<1>14. ASSUME NEW g \in want[r]
       PROVE  FileGood(v, g, disk'[g], journal[g], CleanIn(excused, g), CommittedIn(journal, job[r]))
  <2>1. FileGood(w, g, disk[g], journal[g], CleanIn(excused, g), CommittedIn(journal, job[r]))
    BY <1>11
  <2>2. g \in Files
    BY <1>3, HeldFiles
  <2>3. CASE g = f
    BY <2>1, <2>3, <1>5, <1>9 DEF FileGood, Busy
  <2>4. CASE g # f
    BY <2>1, <2>2, <2>4, <1>5, <1>9 DEF FileGood, Busy
  <2> QED BY <2>3, <2>4
<1>15. WorkGood(v, r, holder', disk', journal', manifests', excused')
  BY <1>2, <1>9, <1>12, <1>13, <1>14 DEF WorkGood, FilesGood
<1>16. pc[r] \in Busy /\ pc'[r] \in Busy /\ \A g \in Files : disk'[g] = disk[g] \/ g \in want[r]
  BY <1>2, <1>3, <1>4, <1>5 DEF Busy
<1> QED BY <1>2, <1>8, <1>15, <1>16, BusyStep DEF v

LEMMA UndoAgrees ==
  ASSUME Inv, Agrees, NEW r \in Runtimes, Undo(r)
  PROVE  Agrees'
<1> DEFINE w == Work(r)
           v == Work(r)'
           f == Head(attempted[r])
<1>1. UNCHANGED <<journal, manifests, holder, pc, want, job, found, left, changes>>
  BY DEF Undo, row, bounds
<1>2. pc[r] = "undoing" /\ attempted[r] # <<>> /\ attempted' = [attempted EXCEPT ![r] = Tail(@)]
  BY DEF Undo
<1>3. \/ /\ disk' = [disk EXCEPT ![f] = job[r].entries[f].before]
         /\ unsafe' = unsafe /\ excused' = excused
      \/ /\ unsafe' = [unsafe EXCEPT ![r] = TRUE] /\ disk' = disk
         /\ excused' = IF Durable(r) THEN excused ELSE excused \cup {<<f, "dropped">>}
  BY DEF Undo, Goes
<1>4. WorkShape(w, r, holder) /\ JobGood(w, journal, manifests)
  BY MyWork
<1>5. /\ attempted[r] \in Seq(Files) /\ attempted'[r] = Tail(attempted[r])
  BY <1>2 DEF Agrees, Maps
<1>6. /\ f \in Members(attempted[r]) /\ f \in Files /\ attempted'[r] \in Seq(Files)
      /\ Members(attempted[r]) = {f} \cup Members(attempted'[r])
  BY <1>2, <1>5, MembersOf
<1> HIDE DEF f
<1>7. f \in want[r] /\ holder[f] = r
  <2>1. w.tried \subseteq w.want
    BY <1>4 DEF WorkShape
  <2> QED BY <1>2, <1>6, <2>1, WorkFields, HeldFiles
<1>8. Elsewhere(r)
  BY <1>1, <1>2, <1>3, <1>6 DEF Elsewhere, Agrees, Maps
<1>9. DOMAIN disk' = Files /\ \A g \in Files \ {f} : disk'[g] = disk[g]
  BY <1>3 DEF Agrees, Maps
<1>10. QuietStepOf(r)
  <2>1. excused \subseteq excused'
    BY <1>3
  <2>2. \A g \in Files : disk'[g] = disk[g] \/ holder[g] = r
    BY <1>7, <1>9
  <2>3. pc'[r] # "writing" /\ manifests' = manifests
    BY <1>1, <1>2
  <2> QED BY <1>1, <1>8, <1>9, <2>1, <2>2, <2>3, GoesOnQuietly
<1>11. /\ w.pc = "undoing" /\ v.pc = "undoing" /\ v.left = w.left
       /\ w.tried = {f} \cup v.tried /\ v.want = w.want /\ v.job = w.job
       /\ w.want = want[r] /\ w.job = job[r] /\ w.unsafe = unsafe[r] /\ v.unsafe = unsafe'[r]
  BY <1>1, <1>2, <1>6 DEF Work
<1>12. \A g \in want[r] :
         FileGood(w, g, disk[g], journal[g], CleanIn(excused, g), CommittedIn(journal, job[r]))
  BY MyWork
<1> HIDE DEF w, v
<1>13. unsafe'[r] \in BOOLEAN
  <2>1. w.unsafe \in BOOLEAN
    BY <1>4 DEF WorkShape
  <2> QED BY <1>3, <1>11, <2>1 DEF Agrees, Maps
<1>14. WorkShape(v, r, holder')
  BY <1>1, <1>4, <1>11, <1>13 DEF WorkShape
<1>15. JobGood(v, journal', manifests')
  BY <1>1, <1>4, <1>11 DEF JobGood, Busy
<1>16. ASSUME NEW g \in want[r]
       PROVE  FileGood(v, g, disk'[g], journal[g], CleanIn(excused', g), CommittedIn(journal, job[r]))
  <2>1. FileGood(w, g, disk[g], journal[g], CleanIn(excused, g), CommittedIn(journal, job[r]))
    BY <1>12
  <2>2. g \in Files
    BY <1>2, HeldFiles
  <2>3. CASE unsafe' = unsafe /\ disk' = [disk EXCEPT ![f] = job[r].entries[f].before] /\ excused' = excused
    <3>1. disk'[f] = job[r].entries[f].before
      BY <2>3, <1>6 DEF Agrees, Maps
    <3>2. v.unsafe = w.unsafe
      BY <2>3, <1>11
    <3>3. CASE g = f
      BY <2>1, <2>3, <3>1, <3>2, <3>3, <1>11 DEF FileGood, Busy
    <3>4. CASE g # f
      BY <2>1, <2>2, <2>3, <3>2, <3>4, <1>9, <1>11 DEF FileGood, Busy
    <3> QED BY <3>3, <3>4
  <2>4. CASE /\ unsafe' = [unsafe EXCEPT ![r] = TRUE] /\ disk' = disk
             /\ excused' = IF Durable(r) THEN excused ELSE excused \cup {<<f, "dropped">>}
    <3>1. v.unsafe = TRUE
      BY <2>4, <1>11 DEF Agrees, Maps
    <3>2. CASE Durable(r)
      <4>1. Cardinality(DOMAIN job[r].entries) > 1
        BY <3>2, <1>2, HeldFiles
      <4> QED BY <2>1, <2>4, <3>1, <3>2, <4>1, <1>11 DEF FileGood, Busy
    <3>3. CASE ~Durable(r)
      <4>1. g = f
        BY <3>3, <1>2, <1>7, HeldFiles
      <4>2. ~CleanIn(excused', g)
        BY <4>1, <2>4, <3>3 DEF CleanIn
      <4> QED BY <4>2, <1>11 DEF FileGood
    <3> QED BY <3>2, <3>3
  <2> QED BY <2>3, <2>4, <1>3
<1>17. WorkGood(v, r, holder', disk', journal', manifests', excused')
  BY <1>1, <1>11, <1>14, <1>15, <1>16 DEF WorkGood, FilesGood
<1>18. pc[r] \in Busy /\ pc'[r] \in Busy /\ \A g \in Files : disk'[g] = disk[g] \/ g \in want[r]
  BY <1>1, <1>2, <1>7, <1>9 DEF Busy
<1> QED BY <1>1, <1>10, <1>17, <1>18, BusyStep DEF v

LEMMA WriteFailsAgrees ==
  ASSUME Inv, Agrees, NEW r \in Runtimes, WriteFails(r)
  PROVE  Agrees'
<1> DEFINE w == Work(r)
           v == Work(r)'
<1>1. pc[r] = "writing" /\ UNCHANGED <<journal, manifests, changes>>
  BY DEF WriteFails, bounds
<1>2. PICK f \in left[r] :
        /\ \/ disk' = disk
           \/ disk[f] = job[r].entries[f].before /\ disk' = [disk EXCEPT ![f] = job[r].entries[f].after]
        /\ IF Durable(r)
             THEN /\ attempted' = [attempted EXCEPT ![r] = <<f>> \o @]
                  /\ left' = [left EXCEPT ![r] = {}]
                  /\ Goto(r, "undoing")
                  /\ UNCHANGED <<excused, holder, want, job, found, unsafe>>
             ELSE /\ excused' = IF disk' = disk THEN excused ELSE excused \cup {<<f, "dropped">>}
                  /\ Ends(r)
  BY DEF WriteFails, Goes
<1>3. f \in want[r] /\ f \in Files /\ holder[f] = r
  BY <1>1, HeldFiles
<1>4. DOMAIN disk' = Files /\ \A g \in Files \ {f} : disk'[g] = disk[g]
  BY <1>2 DEF Agrees, Maps
<1>5. disk'[f] \in {disk[f], job[r].entries[f].after}
  BY <1>2, <1>3 DEF Agrees, Maps
<1>6. WorkShape(w, r, holder) /\ JobGood(w, journal, manifests)
  BY MyWork
<1>7. \A g \in want[r] :
        FileGood(w, g, disk[g], journal[g], CleanIn(excused, g), CommittedIn(journal, job[r]))
  BY MyWork
<1>8. w.pc = "writing" /\ w.want = want[r] /\ w.job = job[r] /\ w.left = left[r]
  BY <1>1 DEF Work
<1>9. CASE Durable(r)
  <2>1. /\ attempted' = [attempted EXCEPT ![r] = <<f>> \o @]
        /\ left' = [left EXCEPT ![r] = {}]
        /\ pc' = [pc EXCEPT ![r] = "undoing"]
        /\ UNCHANGED <<excused, holder, want, job, found, unsafe>>
    BY <1>2, <1>9 DEF Goto
  <2>2. /\ attempted[r] \in Seq(Files) /\ left'[r] = {} /\ pc'[r] = "undoing"
        /\ attempted'[r] = <<f>> \o attempted[r]
    BY <2>1 DEF Agrees, Maps
  <2>3. attempted'[r] \in Seq(Files) /\ Members(attempted'[r]) = {f} \cup Members(attempted[r])
    BY <1>3, <2>2, MembersOf
  <2>4. Elsewhere(r)
    BY <2>1, <2>3 DEF Elsewhere, Agrees, Maps
  <2>5. QuietStepOf(r)
    BY <1>1, <1>3, <1>4, <2>1, <2>2, <2>4, GoesOnQuietly
  <2>6. /\ v.pc = "undoing" /\ v.left = {} /\ v.tried = {f} \cup w.tried
        /\ v.want = w.want /\ v.unsafe = w.unsafe /\ v.job = w.job
    BY <2>1, <2>2, <2>3 DEF Work
  <2> HIDE DEF w, v
  <2>7. WorkShape(v, r, holder')
    BY <1>3, <1>6, <1>8, <2>1, <2>6 DEF WorkShape, Places
  <2>8. JobGood(v, journal', manifests')
    BY <1>1, <1>6, <1>8, <2>6 DEF JobGood, Busy
  <2>9. ASSUME NEW g \in want[r]
        PROVE  FileGood(v, g, disk'[g], journal[g], CleanIn(excused, g), CommittedIn(journal, job[r]))
    <3>1. FileGood(w, g, disk[g], journal[g], CleanIn(excused, g), CommittedIn(journal, job[r]))
      BY <1>7
    <3>2. g \in Files /\ w.unsafe = FALSE
      BY <1>1, <1>6, <1>8, HeldFiles DEF WorkShape
    <3>3. CASE g = f
      BY <3>1, <3>2, <3>3, <1>5, <1>8, <2>6 DEF FileGood, Busy
    <3>4. CASE g # f
      BY <3>1, <3>2, <3>4, <1>4, <1>8, <2>6 DEF FileGood, Busy
    <3> QED BY <3>3, <3>4
  <2>10. WorkGood(v, r, holder', disk', journal', manifests', excused')
    BY <1>1, <1>8, <2>1, <2>6, <2>7, <2>8, <2>9 DEF WorkGood, FilesGood
  <2>11. /\ pc[r] \in Busy /\ pc'[r] \in Busy /\ want'[r] = want[r]
         /\ \A g \in Files : disk'[g] = disk[g] \/ g \in want[r]
    BY <1>1, <1>3, <1>4, <2>1, <2>2 DEF Busy
  <2> QED BY <1>1, <2>5, <2>10, <2>11, BusyStep DEF v
<1>10. CASE ~Durable(r)
  <2>1. /\ excused' = IF disk' = disk THEN excused ELSE excused \cup {<<f, "dropped">>}
        /\ Ends(r)
    BY <1>2, <1>10
  <2>2. excused \subseteq excused' /\ \A g \in Files : disk'[g] = disk[g] \/ holder[g] = r
    BY <2>1, <1>3, <1>4
  <2>3. /\ QuietStepOf(r)
        /\ WorkGood(Work(r)', r, holder', disk', journal', manifests', excused')
    BY <1>1, <1>4, <2>1, <2>2, EndsQuietly
  <2>4. ASSUME NEW g \in want[r], CleanIn(excused', g)
        PROVE  Explained(g, disk'[g], journal', manifests')
    <3>1. g = f
      BY <1>1, <1>3, <1>10, HeldFiles
    <3>2. disk' = disk /\ CleanIn(excused, f)
      BY <2>1, <2>4, <3>1 DEF CleanIn
    <3>3. FileGood(w, f, disk[f], journal[f], CleanIn(excused, f), CommittedIn(journal, job[r]))
      BY <1>3, <1>7
    <3> HIDE DEF w
    <3>4. disk[f] = SaidIn(journal[f], f)
      BY <3>2, <3>3, <1>2, <1>8 DEF FileGood, Busy
    <3> QED BY <3>1, <3>2, <3>4, <1>1 DEF Explained
  <2>5. pc[r] \in Busy /\ \A g \in Files : disk'[g] = disk[g] \/ g \in want[r]
    BY <1>1, <1>3, <1>4 DEF Busy
  <2> QED BY <2>3, <2>4, <2>5, LetsGo
<1> QED BY <1>9, <1>10

\* What an operation that ends leaves behind.
LEMMA LeavesExplained ==
  ASSUME Agrees, NEW r \in Runtimes, Ends(r), pc[r] \in Busy,
         UNCHANGED <<disk, journal, changes>>, excused \subseteq excused',
         manifests' = manifests \/ manifests' = manifests \ {job[r]},
         \A f \in want[r] : CleanIn(excused', f) =>
           disk[f] = job[r].entries[f].before \/ (Durable(r) /\ manifests' = manifests)
  PROVE  Agrees'
<1> DEFINE w == Work(r)
<1>1. /\ DOMAIN job[r].entries = want[r] /\ \A f \in want[r] : f \in Files /\ holder[f] = r
      /\ Durable(r) <=> Cardinality(DOMAIN job[r].entries) > 1
  BY HeldFiles DEF Busy
<1>2. \A tx \in manifests \ manifests' :
        tx = job[r] /\ DOMAIN tx.entries = want[r] /\ \A f \in want[r] : holder[f] = r
  BY <1>1
<1>3. /\ QuietStepOf(r)
      /\ WorkGood(Work(r)', r, holder', disk', journal', manifests', excused')
  BY <1>2, EndsQuietly DEF Agrees, Maps
<1>4. w.pc \in Busy /\ w.want = want[r] /\ w.job = job[r]
  BY DEF Work
<1>5. JobGood(w, journal, manifests)
  BY MyWork
<1>6. ASSUME NEW f \in want[r], CleanIn(excused', f)
      PROVE  Explained(f, disk'[f], journal', manifests')
  <2>1. CleanIn(excused, f)
    BY <1>6 DEF CleanIn
  <2>2. FileGood(w, f, disk[f], journal[f], CleanIn(excused, f), CommittedIn(journal, job[r]))
    BY MyWork
  <2> HIDE DEF w
  <2>3. job[r].entries[f].before = SaidIn(journal[f], f)
    BY <2>1, <2>2, <1>4 DEF FileGood
  <2>4. CASE disk[f] = job[r].entries[f].before
    BY <2>3, <2>4 DEF Explained
  <2>5. CASE disk[f] # job[r].entries[f].before
    <3>1. Durable(r) /\ manifests' = manifests
      BY <2>5, <1>6
    <3>2. job[r] \in manifests /\ ~CommittedIn(journal, job[r])
      BY <3>1, <1>1, <1>4, <1>5 DEF JobGood
    <3>3. disk[f] = job[r].entries[f].after
      BY <2>1, <2>2, <2>5, <1>4 DEF FileGood, Busy
    <3> QED BY <3>1, <3>2, <3>3, <2>3, <1>1 DEF Explained
  <2> QED BY <2>4, <2>5
<1> QED BY <1>3, <1>6, LetsGo

LEMMA UndoneAgrees ==
  ASSUME Inv, Agrees, NEW r \in Runtimes, Undone(r)
  PROVE  Agrees'
<1> DEFINE w == Work(r)
<1>1. /\ pc[r] = "undoing" /\ attempted[r] = <<>> /\ Ends(r)
      /\ UNCHANGED <<disk, excused, journal, changes>>
      /\ manifests' = manifests \/ (~unsafe[r] /\ manifests' = manifests \ {job[r]})
  BY DEF Undone, files, row, bounds
<1>2. w.pc = "undoing" /\ w.job = job[r] /\ w.unsafe = unsafe[r] /\ w.tried = {}
  BY <1>1, MembersOf DEF Work, Members
<1>3. /\ Durable(r) <=> Cardinality(DOMAIN job[r].entries) > 1
  BY <1>1, HeldFiles
<1>4. ASSUME NEW f \in want[r], CleanIn(excused', f)
      PROVE  disk[f] = job[r].entries[f].before \/ (Durable(r) /\ manifests' = manifests)
  <2>1. FileGood(w, f, disk[f], journal[f], CleanIn(excused, f), CommittedIn(journal, job[r]))
    BY MyWork
  <2>2. CleanIn(excused, f)
    BY <1>1, <1>4
  <2> HIDE DEF w
  <2> QED BY <1>1, <1>2, <1>3, <2>1, <2>2 DEF FileGood
<1>5. pc[r] \in Busy
  BY <1>1 DEF Busy
<1> QED BY <1>1, <1>4, <1>5, LeavesExplained

LEMMA CrashAgrees ==
  ASSUME Inv, Agrees, NEW r \in Runtimes, Crash(r), pc[r] \in Busy
  PROVE  Agrees'
<1> DEFINE w == Work(r)
<1>1. /\ Ends(r) /\ UNCHANGED <<disk, journal, manifests, changes>>
      /\ excused' = IF ~Durable(r) /\ attempted[r] # <<>>
                      THEN excused \cup (want[r] \X {"dropped"}) ELSE excused
  BY DEF Crash, Busy
<1>2. w.pc = pc[r] /\ w.job = job[r] /\ w.unsafe = unsafe[r] /\ w.tried = Members(attempted[r])
  BY DEF Work
<1>3. Durable(r) <=> Cardinality(DOMAIN job[r].entries) > 1
  BY HeldFiles DEF Busy
<1>4. WorkShape(w, r, holder)
  BY MyWork
<1>5. ASSUME NEW f \in want[r], CleanIn(excused', f)
      PROVE  disk[f] = job[r].entries[f].before \/ (Durable(r) /\ manifests' = manifests)
  <2> SUFFICES ASSUME ~Durable(r) PROVE disk[f] = job[r].entries[f].before
    BY <1>1
  <2>1. FileGood(w, f, disk[f], journal[f], CleanIn(excused, f), CommittedIn(journal, job[r]))
    BY MyWork
  <2>2. CleanIn(excused, f) /\ attempted[r] = <<>>
    BY <1>1, <1>5 DEF CleanIn
  <2>3. w.tried = {}
    BY <1>2, <2>2 DEF Members
  <2> HIDE DEF w
  <2>4. CASE pc[r] = "writing"
    BY <1>2, <2>1, <2>2, <2>3, <2>4 DEF FileGood, Busy
  <2>5. CASE pc[r] = "undoing"
    BY <1>2, <1>3, <2>1, <2>2, <2>3, <2>5 DEF FileGood, Busy
  <2> QED BY <2>4, <2>5 DEF Busy
<1>6. excused \subseteq excused'
  BY <1>1
<1> QED BY <1>1, <1>5, <1>6, LeavesExplained

LEMMA CloseAgrees ==
  ASSUME Inv, Agrees, NEW r \in Runtimes, Close(r)
  PROVE  Agrees'
<1>1. /\ pc[r] = "closing" /\ Ends(r) /\ UNCHANGED <<disk, excused, journal, changes>>
      /\ manifests' \in {manifests, manifests \ {job[r]}}
  BY DEF Close, files, row, bounds
<1>2. /\ DOMAIN job[r].entries = want[r] /\ \A f \in want[r] : f \in Files /\ holder[f] = r
  BY <1>1, HeldFiles
<1>3. \A tx \in manifests \ manifests' :
        tx = job[r] /\ DOMAIN tx.entries = want[r] /\ \A f \in want[r] : holder[f] = r
  BY <1>1, <1>2
<1>4. /\ QuietStepOf(r) /\ pc'[r] = "idle"
      /\ WorkGood(Work(r)', r, holder', disk', journal', manifests', excused')
  BY <1>1, <1>3, EndsQuietly DEF Agrees, Maps
<1>5. CommittedIn(journal, job[r])
  BY <1>1, MyWork, WorkFields DEF JobGood
<1>6. ASSUME NEW f \in Files, CleanIn(excused', f), ~InWork(f)'
      PROVE  Explained(f, disk'[f], journal', manifests')
  <2>1. ~InWork(f)
    BY <1>1, <1>4, <1>6, OtherWorks DEF InWork, QuietStepOf, Busy
  <2>2. \A tx \in manifests \ manifests' : f \in DOMAIN tx.entries => CommittedIn(journal, tx)
    BY <1>3, <1>5
  <2> QED BY <1>1, <1>4, <1>6, <2>1, <2>2, StaysExplained
<1> QED BY <1>4, <1>6, QuietAgrees DEF Settled

\* A manifest is removed when its transaction is committed or has been undone.
LEMMA RecoveredAgrees ==
  ASSUME Inv, Agrees, NEW r \in Runtimes, Recovered(r)
  PROVE  Agrees'
<1> DEFINE w == Work(r)
           v == Work(r)'
<1>1. /\ pc[r] = "restoring" /\ left[r] = {} /\ manifests' = manifests \ {job[r]}
      /\ UNCHANGED <<disk, excused, journal, changes>>
  BY DEF Recovered, files, bounds
<1>2. /\ DOMAIN job[r].entries = want[r] /\ \A f \in want[r] : f \in Files /\ holder[f] = r
  BY <1>1, HeldFiles
<1>3. \A tx \in manifests \ manifests' :
        tx = job[r] /\ DOMAIN tx.entries = want[r] /\ \A f \in want[r] : holder[f] = r
  BY <1>1, <1>2
<1>4. /\ QuietStepOf(r) /\ pc'[r] \in {"idle", "sweeping"}
      /\ WorkGood(Work(r)', r, holder', disk', journal', manifests', excused')
  <2>1. CASE Ends(r)
    BY <1>1, <1>3, <2>1, EndsQuietly DEF Agrees, Maps
  <2>2. CASE /\ found' = [found EXCEPT ![r] = @ \ {job[r]}]
             /\ job' = [job EXCEPT ![r] = NoTx]
             /\ Unlocks(r)
             /\ Goto(r, "sweeping")
             /\ UNCHANGED <<left, attempted, unsafe>>
    <3>1. /\ pc'[r] = "sweeping" /\ want'[r] = {} /\ job'[r] = NoTx /\ found'[r] \subseteq found[r]
      BY <2>2 DEF Goto, Unlocks, Agrees, Maps
    <3>2. Elsewhere(r)
      BY <2>2 DEF Elsewhere, Goto, Unlocks, Agrees, Maps
    <3>3. StepOf(r)
      BY <1>1, <3>2, ElsewhereIsStep DEF Agrees, Maps
    <3>4. found'[r] \subseteq Known /\ job'[r] \in Known
      <4>1. \A tx : tx = NoTx \/ tx \in found[r] => tx \in Known
        BY KnownIs DEF Known
      <4> QED BY <3>1, <4>1
    <3>5. QuietStepOf(r)
      BY <1>1, <1>3, <3>1, <3>3, <3>4 DEF QuietStepOf
    <3>6. WorkShape(w, r, holder)
      BY MyWork
    <3>7. /\ w.pc = "restoring" /\ v.pc = "sweeping" /\ v.want = {} /\ v.left = {}
          /\ v.tried = w.tried /\ v.unsafe = w.unsafe
      BY <1>1, <2>2, <3>1 DEF Work
    <3> HIDE DEF w, v
    <3>8. WorkShape(v, r, holder')
      BY <3>6, <3>7 DEF WorkShape, Places
    <3>9. JobGood(v, journal', manifests') /\ FilesGood(v, disk', journal', excused')
      BY <3>7 DEF JobGood, FilesGood, Busy
    <3> QED BY <3>1, <3>5, <3>8, <3>9 DEF WorkGood, v
  <2> QED BY <2>1, <2>2 DEF Recovered
<1>5. ASSUME NEW f \in Files, CleanIn(excused', f), ~InWork(f)'
      PROVE  Explained(f, disk'[f], journal', manifests')
  <2>1. ~InWork(f)
    BY <1>1, <1>4, <1>5, OtherWorks DEF InWork, QuietStepOf, Busy
  <2>2. CASE f \notin want[r] \/ CommittedIn(journal, job[r])
    <3>1. \A tx \in manifests \ manifests' : f \in DOMAIN tx.entries => CommittedIn(journal, tx)
      BY <1>3, <2>2
    <3> QED BY <1>1, <1>4, <1>5, <2>1, <3>1, StaysExplained
  <2>3. CASE f \in want[r] /\ ~CommittedIn(journal, job[r])
    <3>1. FileGood(w, f, disk[f], journal[f], CleanIn(excused, f), CommittedIn(journal, job[r]))
      BY <2>3, MyWork
    <3>2. w.pc = "restoring" /\ w.left = {} /\ w.job = job[r] /\ CleanIn(excused, f)
      BY <1>1, <1>5 DEF Work
    <3> HIDE DEF w
    <3>3. disk[f] = job[r].entries[f].before
      BY <2>3, <3>1, <3>2 DEF FileGood
    <3>4. Explained(f, disk[f], journal, manifests)
      BY <2>1, <3>2 DEF Agrees, Settled
    <3>5. CASE disk[f] = SaidIn(journal[f], f)
      BY <1>1, <3>5 DEF Explained
    <3>6. CASE disk[f] # SaidIn(journal[f], f)
      <4>1. PICK tx \in manifests : /\ f \in DOMAIN tx.entries /\ ~CommittedIn(journal, tx)
                                    /\ tx.entries[f].before = SaidIn(journal[f], f)
                                    /\ tx.entries[f].after = disk[f]
        BY <3>4, <3>6 DEF Explained
      <4>2. tx \in manifests'
        BY <1>1, <3>3, <3>6, <4>1
      <4> QED BY <1>1, <4>1, <4>2 DEF Explained
    <3> QED BY <3>5, <3>6
  <2> QED BY <2>2, <2>3
<1> QED BY <1>4, <1>5, QuietAgrees DEF Settled

\* Recovery puts back what the records say, unless they have been overtaken.
LEMMA RestoreAgrees ==
  ASSUME Inv, Agrees, NEW r \in Runtimes, Restore(r)
  PROVE  Agrees'
<1> DEFINE w == Work(r)
           v == Work(r)'
<1>1. PICK f \in left[r] :
        /\ disk' = [disk EXCEPT ![f] = job[r].entries[f].before]
        /\ left' = [left EXCEPT ![r] = @ \ {f}]
        /\ excused' = IF \E i \in DOMAIN journal[f] : journal[f][i].tx > job[r].id
                        THEN excused \cup {<<f, "unswept">>} ELSE excused
  BY DEF Restore, Goes
<1>2. /\ pc[r] = "restoring"
      /\ UNCHANGED <<journal, manifests, holder, pc, want, job, found, attempted, unsafe, changes>>
  BY DEF Restore, row, bounds
<1>3. /\ f \in want[r] /\ f \in Files /\ holder[f] = r /\ DOMAIN job[r].entries = want[r]
      /\ \A g \in want[r] : g \in Files
  BY <1>1, <1>2, HeldFiles
<1>4. /\ DOMAIN disk' = Files /\ disk'[f] = job[r].entries[f].before
      /\ \A g \in Files \ {f} : disk'[g] = disk[g]
      /\ left'[r] = left[r] \ {f} /\ excused \subseteq excused'
  BY <1>1, <1>3 DEF Agrees, Maps
<1>5. Elsewhere(r)
  BY <1>1, <1>2 DEF Elsewhere, Agrees, Maps
<1>6. QuietStepOf(r)
  BY <1>2, <1>3, <1>4, <1>5, GoesOnQuietly
<1>7. /\ w.pc = "restoring" /\ v.pc = "restoring" /\ v.left = w.left \ {f} /\ v.tried = w.tried
      /\ v.want = w.want /\ v.unsafe = w.unsafe /\ v.job = w.job
      /\ w.want = want[r] /\ w.job = job[r] /\ f \in w.left
  BY <1>1, <1>2, <1>4 DEF Work
<1>8. WorkShape(w, r, holder) /\ JobGood(w, journal, manifests)
  BY MyWork
<1>9. \A g \in want[r] :
        FileGood(w, g, disk[g], journal[g], CleanIn(excused, g), CommittedIn(journal, job[r]))
  BY MyWork
<1> HIDE DEF w, v
<1>10. WorkShape(v, r, holder')
  BY <1>2, <1>7, <1>8 DEF WorkShape
<1>11. JobGood(v, journal', manifests')
  BY <1>2, <1>7, <1>8 DEF JobGood, Busy
<1>12. \A g \in Files : CleanIn(excused', g) => CleanIn(excused, g)
  BY <1>4 DEF CleanIn
<1>13. ASSUME NEW g \in want[r]
       PROVE  FileGood(v, g, disk'[g], journal[g], CleanIn(excused', g), CommittedIn(journal, job[r]))
  <2>1. FileGood(w, g, disk[g], journal[g], CleanIn(excused, g), CommittedIn(journal, job[r]))
    BY <1>9
  <2>2. CASE g = f
    BY <2>2, <1>4, <1>7 DEF FileGood, Busy
  <2>3. CASE g # f
    BY <2>1, <2>3, <1>3, <1>4, <1>7, <1>12 DEF FileGood, Busy
  <2> QED BY <2>2, <2>3
<1>14. WorkGood(v, r, holder', disk', journal', manifests', excused')
  BY <1>2, <1>7, <1>10, <1>11, <1>13 DEF WorkGood, FilesGood
<1>15. ASSUME NEW g \in Files, CleanIn(excused', g), ~InWork(g)'
       PROVE  Explained(g, disk'[g], journal', manifests')
  <2>1. CASE g = f
    <3>1. \A i \in DOMAIN journal[f] : ~(journal[f][i].tx > job[r].id)
      BY <1>1, <1>15, <2>1 DEF CleanIn
    <3>2. ~CommittedIn(journal, job[r])
      BY <1>7, <1>8 DEF JobGood
    <3>3. job[r] \in Known
      BY KnownIs DEF Known
    <3>4. job[r].entries[f].before = SaidIn(journal[f], f)
      BY <1>3, <1>12, <1>15, <2>1, <3>1, <3>2, <3>3 DEF Agrees, Based
    <3> QED BY <1>2, <1>4, <2>1, <3>4 DEF Explained
  <2>2. CASE g # f
    <3>1. ~InWork(g)
      BY <1>2, <1>15 DEF InWork
    <3> QED BY <1>2, <1>4, <1>6, <1>15, <2>2, <3>1, StaysExplained
  <2> QED BY <2>1, <2>2
<1> QED BY <1>6, <1>14, <1>15, QuietAgrees DEF Settled, v

\* The surroundings change nothing but files that are excused from then on.
LEMMA SurroundingsAgree ==
  ASSUME Agrees,
         UNCHANGED <<journal, manifests, holder, pc, want, job, found, left, attempted, unsafe, changes>>,
         DOMAIN disk' = Files, excused \subseteq excused',
         \A f \in Files : CleanIn(excused', f) => disk'[f] = disk[f]
  PROVE  Agrees'
<1>1. Maps'
  BY DEF Agrees, Maps
<1>2. \A f \in Files : CleanIn(excused', f) => CleanIn(excused, f)
  BY DEF CleanIn
<1>3. \A r \in Runtimes : Work(r)' = Work(r)
  BY DEF Work
<1>4. Workers'
  <2> SUFFICES ASSUME NEW r \in Runtimes
               PROVE  WorkGood(Work(r)', r, holder', disk', journal', manifests', excused')
    BY DEF Workers
  <2> DEFINE w == Work(r)
  <2>1. WorkGood(w, r, holder, disk, journal, manifests, excused)
    BY MyWork
  <2>2. w' = w
    BY <1>3
  <2> HIDE DEF w
  <2>3. WorkGood(w, r, holder', disk', journal', manifests', excused')
    BY <2>1, OthersStay
  <2> QED BY <2>2, <2>3 DEF w
<1>5. Known' = Known
  BY DEF Known, KnownOf
<1>6. Numbered(Known', journal', changes')
  BY <1>5 DEF Agrees
<1>7. \A r \in Runtimes : Newest(Work(r)', Known')
  BY <1>3, <1>5 DEF Agrees
<1>8. Based(Known', journal', excused')
  BY <1>2, <1>5 DEF Agrees, Based
<1>9. Settled'
  <2>1. \A f \in Files : InWork(f)' <=> InWork(f)
    BY DEF InWork
  <2> QED BY <1>2, <2>1 DEF Agrees, Settled
<1>10. Chained'
  BY <1>2 DEF Agrees, Chained
<1> QED BY <1>1, <1>4, <1>6, <1>7, <1>8, <1>9, <1>10 DEF Agrees

LEMMA EditAgrees ==
  ASSUME Agrees, Edit \/ OtherCommit \/ UNCHANGED vars
  PROVE  Agrees'
<1>1. UNCHANGED <<journal, manifests, holder, pc, want, job, found, left, attempted, unsafe, changes>>
  BY DEF Edit, OtherCommit, vars, files, row, work, bounds
<1>2. CASE Edit
  <2>1. PICK f \in Files : \E c \in State \ {disk[f]} :
          /\ disk' = [disk EXCEPT ![f] = c]
          /\ excused' = excused \cup {<<f, "edited">>}
    BY <1>2 DEF Edit
  <2>2. DOMAIN disk' = Files /\ \A g \in Files \ {f} : disk'[g] = disk[g]
    BY <2>1 DEF Agrees, Maps
  <2>3. excused \subseteq excused' /\ ~CleanIn(excused', f)
    BY <2>1 DEF CleanIn
  <2> QED BY <1>1, <2>2, <2>3, SurroundingsAgree
<1>3. CASE OtherCommit \/ UNCHANGED vars
  <2>1. UNCHANGED <<disk, excused>>
    BY <1>3 DEF OtherCommit, vars, files
  <2> QED BY <1>1, <2>1, SurroundingsAgree DEF Agrees, Maps
<1> QED BY <1>2, <1>3

-----------------------------------------------------------------------------
(* A change begins.                                                        *)

LEMMA RollbacksFit ==
  ASSUME Logs, NEW fs \in SUBSET Files, NEW entries \in RollbackEntries(fs)
  PROVE  DOMAIN entries = fs /\ \A f \in fs : Fits(entries[f], journal[f])
<1> DEFINE undoable(f) == IF Cardinality(fs) = 1 THEN {{i} : i \in Active(f)} ELSE Chains(f)
           chains == UNION {undoable(f) : f \in fs}
<1>1. PICK c \in [fs -> chains] :
        /\ \A f \in fs : c[f] \in undoable(f)
        /\ entries = [f \in fs |->
             Entry(journal[f][Max(c[f])].after, journal[f][Min(c[f])].before, c[f])]
  BY DEF RollbackEntries
<1>2. ASSUME NEW f \in fs
      PROVE  Fits(entries[f], journal[f])
  <2> DEFINE s == journal[f]
             C == c[f]
  <2>1. entries[f] = Entry(s[Max(C)].after, s[Min(C)].before, C) /\ C \in undoable(f)
    BY <1>1
  <2>2. /\ entries[f].undoes = C
        /\ entries[f].before = s[Max(C)].after /\ entries[f].after = s[Min(C)].before
    BY <2>1 DEF Entry
  <2>3. Active(f) \subseteq DOMAIN s /\ Active(f) \in SUBSET Nat
    BY LogDomain DEF Active, Logs
  <2>4. CASE Cardinality(fs) = 1
    <3>1. PICK i \in Active(f) : C = {i}
      BY <2>1, <2>4
    <3>2. {i} \in SUBSET Nat /\ IsFiniteSet({i})
      BY <2>3, FS_Singleton
    <3>3. Min(C) = i
      BY <3>1, <3>2, MaxAndMin
    <3> HIDE DEF s
    <3> QED BY <2>2, <2>3, <3>1, <3>3 DEF Fits, s
  <2>5. CASE Cardinality(fs) # 1
    <3>1. C \in Chains(f)
      BY <2>1, <2>5
    <3>2. C \subseteq Active(f)
          /\ \A i \in C \ {Min(C)} : s[i].before = s[Max({j \in C : j < i})].after
      BY <3>1 DEF Chains
    <3> HIDE DEF C, s
    <3> QED BY <2>2, <2>3, <3>2 DEF Fits, s, C
  <2> QED BY <2>4, <2>5
<1> QED BY <1>1, <1>2

\* Under the locks, a file that no manifest covers holds what the records say.
LEMMA PrepareAgrees ==
  ASSUME Inv, Logs, Agrees, NEW r \in Runtimes, Prepare(r)
  PROVE  Agrees'
<1> DEFINE w == Work(r)
           v == Work(r)'
           n == changes + 1
<1>1. /\ pc[r] = "preparing" /\ pc' = [pc EXCEPT ![r] = "writing"] /\ changes' = n
      /\ UNCHANGED <<disk, journal, holder, want, found, attempted, unsafe>>
      /\ excused' = excused \cup {<<f, "unswept">> : f \in {f \in want[r] :
           \E tx \in manifests : f \in DOMAIN tx.entries /\ ~Committed(tx)}}
  BY DEF Prepare, Goto
<1>2. PICK entries \in RollbackEntries(want[r]) \cup WriteEntries(want[r]) \cup DeleteEntries(want[r]) :
        /\ \A f \in want[r] : disk[f] = entries[f].before
        /\ job' = [job EXCEPT ![r] = [id |-> n, entries |-> entries]]
        /\ left' = [left EXCEPT ![r] = {f \in want[r] :
             entries[f].before # Absent \/ entries[f].after # Absent}]
        /\ manifests' = IF Cardinality(want[r]) > 1
                          THEN manifests \cup {[id |-> n, entries |-> entries]} ELSE manifests
  BY DEF Prepare
<1> DEFINE tx == [id |-> n, entries |-> entries]
<1>3. /\ want[r] \in SUBSET Files /\ want[r] # {}
      /\ \A f \in want[r] : f \in Files /\ holder[f] = r
  BY DEF Prepare, Locked, Holding, Inv, Order, Prefixes, Locks
<1>4. DOMAIN entries = want[r] /\ \A f \in want[r] : Fits(entries[f], journal[f])
  <2>1. CASE entries \in RollbackEntries(want[r])
    BY <1>3, <2>1, RollbacksFit
  <2>2. CASE entries \in WriteEntries(want[r]) \cup DeleteEntries(want[r])
    <3>1. DOMAIN entries = want[r] /\ \A f \in want[r] : entries[f].undoes = {}
      BY <2>2 DEF WriteEntries, DeleteEntries, Entry
    <3> QED BY <3>1 DEF Fits
  <2> QED BY <1>2, <2>1, <2>2
<1>5. /\ changes \in Nat /\ n \in Nat /\ changes < n
      /\ \A f \in Files : \A i \in DOMAIN journal[f] : journal[f][i].tx \in 0..changes
      /\ \A other \in Known : other.id \in 0..changes
      /\ \A other, another \in Known : other.id = another.id => other = another
  BY DEF Agrees, Numbered
<1>6. tx.id = n /\ tx.entries = entries
  OBVIOUS
<1> HIDE DEF n, tx
<1>7. ~CommittedIn(journal, tx)
  BY <1>5, <1>6 DEF CommittedIn
<1>8. /\ job'[r] = tx /\ (\A q \in Runtimes \ {r} : job'[q] = job[q])
      /\ left'[r] = {f \in want[r] : entries[f].before # Absent \/ entries[f].after # Absent}
      /\ manifests \subseteq manifests' /\ manifests' \subseteq manifests \cup {tx}
      /\ Cardinality(want[r]) > 1 => tx \in manifests'
      /\ pc'[r] = "writing" /\ excused \subseteq excused'
  BY <1>1, <1>2 DEF Agrees, Maps, tx
<1>9. StepOf(r)
  <2>1. Elsewhere(r)
    BY <1>1, <1>2 DEF Elsewhere, Agrees, Maps
  <2> QED BY <1>1, <1>8, <2>1, ElsewhereIsStep DEF Agrees, Maps
<1>10. Maps'
  BY <1>9 DEF StepOf
<1>11. \A f \in Files : CleanIn(excused', f) => CleanIn(excused, f)
  BY <1>8 DEF CleanIn
\* Somebody else's work is on other files.
<1>12. ASSUME NEW q \in Runtimes \ {r}, pc[q] \in Busy, NEW f \in want[q]
       PROVE  f \notin want[r]
  BY <1>3, <1>12, HeldFiles DEF Busy
<1>13. ASSUME NEW f \in want[r], CleanIn(excused', f)
       PROVE  disk[f] = SaidIn(journal[f], f) /\ entries[f].before = SaidIn(journal[f], f)
  <2>1. f \in Files /\ CleanIn(excused, f)
    BY <1>3, <1>11, <1>13
  <2>2. ~InWork(f)
    BY <1>1, <1>12 DEF InWork, Busy
  <2>3. Explained(f, disk[f], journal, manifests)
    BY <2>1, <2>2 DEF Agrees, Settled
  <2>4. ~\E other \in manifests : f \in DOMAIN other.entries /\ ~CommittedIn(journal, other)
    BY <1>1, <1>13, CommittedIs DEF CleanIn
  <2> QED BY <1>2, <2>3, <2>4 DEF Explained
<1>14. WorkGood(v, r, holder', disk', journal', manifests', excused')
  <2>1. WorkShape(w, r, holder)
    BY MyWork
  <2>2. /\ w.pc = "preparing" /\ v.pc = "writing" /\ v.want = want[r] /\ v.job = tx
        /\ v.left = left'[r] /\ v.tried = w.tried /\ v.unsafe = w.unsafe /\ w.want = want[r]
    BY <1>1, <1>8 DEF Work
  <2> HIDE DEF w, v
  <2>3. WorkShape(v, r, holder')
    BY <1>1, <1>3, <1>4, <1>6, <1>8, <2>1, <2>2 DEF WorkShape, Places
  <2>4. JobGood(v, journal', manifests')
    BY <1>1, <1>4, <1>6, <1>7, <1>8, <2>2 DEF JobGood, Busy
  <2>5. ASSUME NEW f \in want[r]
        PROVE  FileGood(v, f, disk[f], journal[f], CleanIn(excused', f), CommittedIn(journal, tx))
    BY <1>2, <1>4, <1>6, <1>8, <1>13, <2>2 DEF FileGood, Busy
  <2> QED BY <1>1, <2>2, <2>3, <2>4, <2>5 DEF WorkGood, FilesGood
<1>15. Workers'
  <2> SUFFICES ASSUME NEW q \in Runtimes, q # r
               PROVE  WorkGood(Work(q)', q, holder', disk', journal', manifests', excused')
    BY <1>14 DEF Workers
  <2> DEFINE u == Work(q)
  <2>1. WorkGood(u, q, holder, disk, journal, manifests, excused)
    BY MyWork
  <2>2. u' = u
    BY <1>9 DEF StepOf
  <2> HIDE DEF u
  <2>3. WorkGood(u, q, holder', disk', journal', manifests', excused')
    BY <1>1, <1>8, <2>1, OthersStay
  <2> QED BY <2>2, <2>3 DEF u
<1>16. Known' \subseteq Known \cup {tx}
  <2> SUFFICES ASSUME NEW other \in Known' PROVE other \in Known \/ other = tx
    OBVIOUS
  <2>1. \/ other \in manifests' \/ other = NoTx
        \/ \E q \in Runtimes : other \in found'[q] \/ other = job'[q]
    BY KnownIs DEF Known
  <2> QED BY <1>1, <1>8, <2>1, KnownIs DEF Known
<1>17. Numbered(Known', journal', changes')
  <2>1. \A i \in 0..changes : i \in 0..n /\ i # n
    BY <1>5 DEF n
  <2>2. n \in 0..n
    BY <1>5
  <2>3. \A other \in Known' : other.id \in 0..n
    BY <1>5, <1>6, <1>16, <2>1, <2>2
  <2>4. \A other, another \in Known' : other.id = another.id => other = another
    BY <1>5, <1>6, <1>16, <2>1
  <2> QED BY <1>1, <1>5, <2>1, <2>3, <2>4 DEF Numbered
<1>18. ASSUME NEW q \in Runtimes
       PROVE  Newest(Work(q)', Known')
  <2> SUFFICES ASSUME pc'[q] = "writing", NEW f \in want[q], NEW other \in Known',
                      f \in DOMAIN other.entries
               PROVE  other.id <= job'[q].id
    BY <1>1 DEF Newest, Work
  <2>1. CASE q = r
    <3>1. other.id \in 0..n
      BY <1>1, <1>17 DEF Numbered
    <3> QED BY <1>5, <1>6, <1>8, <2>1, <3>1
  <2>2. CASE q # r
    <3>1. pc[q] = "writing" /\ job'[q] = job[q]
      BY <1>1, <1>8, <2>2 DEF Agrees, Maps
    <3>2. f \notin want[r]
      BY <1>12, <2>2, <3>1 DEF Busy
    <3>3. other \in Known
      BY <1>4, <1>6, <1>16, <3>2
    <3>4. Newest(Work(q), Known)
      BY DEF Agrees
    <3> QED BY <3>1, <3>3, <3>4, WorkFields DEF Newest
  <2> QED BY <2>1, <2>2
<1>19. Based(Known', journal', excused')
  <2>1. Based(Known, journal, excused)
    BY DEF Agrees
  <2> SUFFICES ASSUME NEW f \in Files, NEW other \in Known',
                      CleanIn(excused', f), f \in DOMAIN other.entries, ~CommittedIn(journal, other),
                      \A i \in DOMAIN journal[f] : ~(journal[f][i].tx > other.id)
               PROVE  other.entries[f].before = SaidIn(journal[f], f)
    BY <1>1 DEF Based
  <2>2. CASE other \in Known
    BY <1>11, <2>1, <2>2 DEF Based
  <2>3. CASE other = tx
    BY <1>4, <1>6, <1>13, <2>3
  <2> QED BY <1>16, <2>2, <2>3
<1>20. Settled'
  <2> SUFFICES ASSUME NEW f \in Files, CleanIn(excused', f), ~InWork(f)'
               PROVE  Explained(f, disk[f], journal, manifests')
    BY <1>1 DEF Settled
  <2>1. f \notin want[r]
    BY <1>1, <1>8 DEF InWork, Busy
  <2>2. ~InWork(f)
    BY <1>9, <2>1, OtherWorks DEF InWork
  <2>3. Explained(f, disk[f], journal, manifests)
    BY <1>11, <2>2 DEF Agrees, Settled
  <2> QED BY <1>8, <2>3 DEF Explained
<1>21. Chained'
  BY <1>1, <1>11 DEF Agrees, Chained
<1> QED BY <1>10, <1>15, <1>17, <1>18, <1>19, <1>20, <1>21 DEF Agrees

-----------------------------------------------------------------------------
(* A change is committed.                                                  *)

LEMMA CommitAgrees ==
  ASSUME Inv, Logs, Agrees, NEW r \in Runtimes, Commit(r)
  PROVE  Agrees'
<1> DEFINE w == Work(r)
           v == Work(r)'
           id == job[r].id
           e(f) == job[r].entries[f]
<1>1. /\ pc[r] = "writing" /\ left[r] = {} /\ pc' = [pc EXCEPT ![r] = "closing"]
      /\ UNCHANGED <<disk, excused, manifests, holder, want, job, found, left, attempted, unsafe, changes>>
      /\ journal' = [f \in Files |-> journal[f] \o
           IF f \in want[r] THEN Records(id, f, e(f)) ELSE <<>>]
  BY DEF Commit, Goto, Goes, files, work, bounds
<1>2. /\ want[r] \in SUBSET Files /\ want[r] # {} /\ DOMAIN job[r].entries = want[r]
      /\ \A f \in want[r] : f \in Files /\ holder[f] = r
  BY <1>1, HeldFiles
<1>3. JobGood(w, journal, manifests) /\ WorkShape(w, r, holder)
  BY MyWork
<1>4. w.pc = "writing" /\ w.left = {} /\ w.job = job[r] /\ w.want = want[r]
  BY <1>1 DEF Work
<1>5. ASSUME NEW f \in want[r]
      PROVE  /\ Fits(e(f), journal[f])
             /\ CleanIn(excused, f) => e(f).before = SaidIn(journal[f], f) /\ disk[f] = e(f).after
  <2>1. FileGood(w, f, disk[f], journal[f], CleanIn(excused, f), CommittedIn(journal, job[r]))
    BY MyWork
  <2> HIDE DEF w
  <2> QED BY <2>1, <1>4 DEF FileGood, Busy
<1>6. \A f \in Files : Log(journal[f])
  BY DEF Logs
<1>7. \A f \in Files \ want[r] : journal'[f] = journal[f]
  BY <1>1, <1>6, ConcatEmptySeq DEF Log
<1>8. ASSUME NEW f \in want[r]
      PROVE  Prolongs(journal'[f], journal[f], f, id, e(f).before, e(f).after)
  <2> DEFINE t == Records(id, f, e(f))
  <2>1. f \in Files /\ Log(journal[f]) /\ journal'[f] = journal[f] \o t
    BY <1>1, <1>2, <1>6
  <2>2. Leads(t, id, e(f).before, e(f).after)
    BY <1>5, <2>1, RecordsLead
  <2> HIDE DEF t, id, e
  <2> QED BY <2>1, <2>2, RecordsAdded
<1> HIDE DEF e, id
<1>9. \A tx : CommittedIn(journal', tx) <=> CommittedIn(journal, tx) \/ tx.id = id
  <2> SUFFICES ASSUME NEW tx
               PROVE  CommittedIn(journal', tx) <=> CommittedIn(journal, tx) \/ tx.id = id
    OBVIOUS
  <2>1. ASSUME CommittedIn(journal', tx)
        PROVE  CommittedIn(journal, tx) \/ tx.id = id
    <3>1. PICK f \in Files : \E i \in DOMAIN journal'[f] : journal'[f][i].tx = tx.id
      BY <2>1 DEF CommittedIn
    <3>2. CASE f \in want[r]
      BY <3>1, <3>2, <1>8 DEF CommittedIn, Prolongs
    <3>3. CASE f \notin want[r]
      BY <3>1, <3>3, <1>7 DEF CommittedIn
    <3> QED BY <3>2, <3>3
  <2>2. ASSUME CommittedIn(journal, tx)
        PROVE  CommittedIn(journal', tx)
    <3>1. PICK f \in Files : \E i \in DOMAIN journal[f] : journal[f][i].tx = tx.id
      BY <2>2 DEF CommittedIn
    <3>2. CASE f \in want[r]
      BY <3>1, <3>2, <1>8 DEF CommittedIn, Prolongs
    <3>3. CASE f \notin want[r]
      BY <3>1, <3>3, <1>7 DEF CommittedIn
    <3> QED BY <3>2, <3>3
  <2>3. ASSUME tx.id = id
        PROVE  CommittedIn(journal', tx)
    <3>1. PICK f \in want[r] : TRUE
      BY <1>2
    <3> QED BY <2>3, <3>1, <1>2, <1>8 DEF CommittedIn, Prolongs
  <2> QED BY <2>1, <2>2, <2>3
<1>10. /\ job[r] \in Known /\ changes \in Nat
       /\ \A tx \in Known : tx.id \in 0..changes
       /\ \A tx \in Known : tx.id = id => tx = job[r]
       /\ \A f \in Files : \A i \in DOMAIN journal[f] : journal[f][i].tx \in 0..changes
  <2>1. job[r] \in Known
    BY KnownIs DEF Known
  <2> QED BY <2>1 DEF Agrees, Numbered, id
<1>11. /\ pc'[r] = "closing" /\ \A q \in Runtimes \ {r} : pc'[q] = pc[q]
  BY <1>1 DEF Agrees, Maps
<1>12. StepOf(r)
  <2>1. Elsewhere(r)
    BY <1>1 DEF Elsewhere, Agrees, Maps
  <2> QED BY <1>1, <2>1, ElsewhereIsStep DEF Agrees, Maps
<1>13. Maps'
  BY <1>12 DEF StepOf
<1>14. WorkGood(v, r, holder', disk', journal', manifests', excused')
  <2>1. /\ v.pc = "closing" /\ v.want = w.want /\ v.left = w.left /\ v.tried = w.tried
        /\ v.unsafe = w.unsafe /\ v.job = w.job
    BY <1>1, <1>11 DEF Work
  <2> HIDE DEF w, v
  <2>2. WorkShape(v, r, holder')
    BY <1>1, <1>3, <1>4, <2>1 DEF WorkShape, Places
  <2>3. JobGood(v, journal', manifests')
    BY <1>4, <1>9, <2>1 DEF JobGood, Busy, id
  <2>4. FilesGood(v, disk', journal', excused')
    BY <2>1 DEF FilesGood, FileGood, Busy
  <2> QED BY <2>2, <2>3, <2>4 DEF WorkGood
<1>15. Workers'
  <2> SUFFICES ASSUME NEW q \in Runtimes, q # r
               PROVE  WorkGood(Work(q)', q, holder', disk', journal', manifests', excused')
    BY <1>14 DEF Workers
  <2> DEFINE u == Work(q)
  <2>1. WorkGood(u, q, holder, disk, journal, manifests, excused)
    BY MyWork
  <2>2. u' = u
    BY <1>12 DEF StepOf
  <2>3. \A f \in Files : holder[f] = q => journal'[f] = journal[f]
    BY <1>2, <1>7
  <2>4. ASSUME u.pc \in {"restoring", "writing", "undoing", "closing"}
        PROVE  u.job.id # id
    <3>1. u.pc = pc[q] /\ u.job = job[q]
      BY DEF Work
    <3>2. DOMAIN job[q].entries = want[q] /\ want[q] # {} /\ \A f \in want[q] : holder[f] = q
      BY <2>4, <3>1, HeldFiles
    <3>3. job[q] # job[r]
      BY <3>2, <1>2
    <3>4. job[q] \in Known
      BY KnownIs DEF Known
    <3> QED BY <3>1, <3>3, <3>4, <1>10
  <2> HIDE DEF u
  <2>5. WorkGood(u, q, holder', disk', journal', manifests', excused')
    <3>1. u.pc \in {"restoring", "writing", "undoing", "closing"} =>
            (CommittedIn(journal, u.job) <=> CommittedIn(journal', u.job))
      BY <1>9, <2>4
    <3>2. \A f \in Files : holder[f] = q =>
            /\ holder'[f] = q /\ journal'[f] = journal[f]
            /\ CleanIn(excused', f) => disk'[f] = disk[f]
      BY <1>1, <2>3
    <3>3. excused \subseteq excused' /\ (u.pc \in Busy /\ u.job \in manifests => u.job \in manifests')
      BY <1>1
    <3> QED BY <2>1, <3>1, <3>2, <3>3, OthersStay
  <2> QED BY <2>2, <2>5 DEF u
<1>16. Known' = Known
  BY <1>1 DEF Known, KnownOf
<1>17. Numbered(Known', journal', changes')
  <2>1. \A f \in Files : \A i \in DOMAIN journal'[f] : journal'[f][i].tx \in 0..changes
    <3> SUFFICES ASSUME NEW f \in Files, NEW i \in DOMAIN journal'[f]
                 PROVE  journal'[f][i].tx \in 0..changes
      OBVIOUS
    <3>1. id \in 0..changes
      BY <1>10 DEF id
    <3>2. CASE f \in want[r]
      BY <3>1, <3>2, <1>8, <1>10 DEF Prolongs
    <3>3. CASE f \notin want[r]
      BY <3>3, <1>7, <1>10
    <3> QED BY <3>2, <3>3
  <2> QED BY <1>1, <1>16, <2>1 DEF Agrees, Numbered
<1>18. \A q \in Runtimes : Newest(Work(q)', Known')
  <2> SUFFICES ASSUME NEW q \in Runtimes, q # r
               PROVE  Newest(Work(q)', Known')
    BY <1>11 DEF Newest, Work
  <2>1. Work(q)' = Work(q)
    BY <1>12 DEF StepOf
  <2> QED BY <1>16, <2>1 DEF Agrees
<1>19. Based(Known', journal', excused')
  <2> SUFFICES ASSUME NEW f \in Files, NEW tx \in Known,
                      CleanIn(excused, f), f \in DOMAIN tx.entries, ~CommittedIn(journal', tx),
                      \A i \in DOMAIN journal'[f] : ~(journal'[f][i].tx > tx.id)
               PROVE  tx.entries[f].before = SaidIn(journal'[f], f)
    BY <1>1, <1>16 DEF Based
  <2>1. CASE f \notin want[r]
    BY <2>1, <1>7, <1>9 DEF Agrees, Based
  <2>2. CASE f \in want[r]
    <3>1. ~(id > tx.id) /\ tx.id # id
      BY <2>2, <1>8, <1>9 DEF Prolongs
    <3>2. Newest(w, Known)
      BY DEF Agrees
    <3> HIDE DEF w
    <3>3. tx.id <= id
      BY <2>2, <3>2, <1>4 DEF Newest, id
    <3> QED BY <3>1, <3>3, <1>10 DEF id
  <2> QED BY <2>1, <2>2
<1>20. Settled'
  <2> SUFFICES ASSUME NEW f \in Files, CleanIn(excused, f), ~InWork(f)'
               PROVE  Explained(f, disk[f], journal', manifests)
    BY <1>1 DEF Settled
  <2>1. CASE f \in want[r]
    BY <2>1, <1>5, <1>8 DEF Explained, Prolongs
  <2>2. CASE f \notin want[r]
    <3>1. ~InWork(f)
      BY <2>2, <1>1, <1>11 DEF InWork
    <3>2. Explained(f, disk[f], journal, manifests)
      BY <3>1 DEF Agrees, Settled
    <3>3. CASE disk[f] = SaidIn(journal[f], f)
      BY <2>2, <3>3, <1>7 DEF Explained
    <3>4. CASE disk[f] # SaidIn(journal[f], f)
      <4>1. PICK tx \in manifests : /\ f \in DOMAIN tx.entries /\ ~CommittedIn(journal, tx)
                                    /\ tx.entries[f].before = SaidIn(journal[f], f)
                                    /\ tx.entries[f].after = disk[f]
        BY <3>2, <3>4 DEF Explained
      <4>2. tx \in Known /\ tx # job[r]
        BY <2>2, <4>1, <1>2, KnownIs DEF Known
      <4>3. ~CommittedIn(journal', tx)
        BY <4>1, <4>2, <1>9, <1>10
      <4> QED BY <2>2, <4>1, <4>3, <1>7 DEF Explained
    <3> QED BY <3>3, <3>4
  <2> QED BY <2>1, <2>2
<1>21. Chained'
  <2> SUFFICES ASSUME NEW f \in Files, CleanIn(excused, f) PROVE ChainIn(journal'[f], f)
    BY <1>1 DEF Chained
  <2>1. ChainIn(journal[f], f)
    BY DEF Agrees, Chained
  <2>2. CASE f \in want[r]
    BY <2>1, <2>2, <1>5, <1>8 DEF Prolongs
  <2>3. CASE f \notin want[r]
    BY <2>1, <2>3, <1>7
  <2> QED BY <2>2, <2>3
<1> QED BY <1>13, <1>15, <1>17, <1>18, <1>19, <1>20, <1>21 DEF Agrees

-----------------------------------------------------------------------------
(* The files and the journal agree.                                        *)

LEMMA InitAgrees == Init => Agrees
<1> SUFFICES ASSUME Init PROVE Agrees
  OBVIOUS
<1>1. /\ journal = Begun /\ manifests = {} /\ changes = 0
      /\ DOMAIN disk = Files /\ \A f \in Files : disk[f] = SaidIn(journal[f], f)
  BY SaidIs DEF Init
<1>2. \A r \in Runtimes :
        /\ pc[r] = "idle" /\ want[r] = {} /\ job[r] = NoTx /\ found[r] = {} /\ left[r] = {}
        /\ attempted[r] = <<>> /\ unsafe[r] = FALSE
  BY DEF Init
<1>3. Maps
  BY <1>1, <1>2 DEF Init, Maps
<1>4. ASSUME NEW r \in Runtimes
      PROVE  Work(r) = IdleWork
  <2>1. Members(attempted[r]) = {}
    BY <1>2 DEF Members
  <2> QED BY <1>2, <2>1 DEF Work, IdleWork
<1>5. Workers
  BY <1>4, IdleGood DEF Workers
<1>6. \A tx \in Known : tx = NoTx
  BY <1>1, <1>2, KnownIs DEF Known
<1>7. NoTx.id = 0 /\ DOMAIN NoTx.entries = {}
  BY DEF NoTx
<1>8. Numbered(Known, journal, changes)
  <2>1. \A f \in Files : \A i \in DOMAIN journal[f] : journal[f][i].tx \in 0..changes
    <3> SUFFICES ASSUME NEW f \in Files, NEW i \in DOMAIN Begun[f] PROVE Begun[f][i].tx = 0
      BY <1>1
    <3> DEFINE R == [tx : {0}, before : Contents \cup {Absent},
                     after : Contents \cup {Absent}, reverts : Nat]
    <3>1. Begun[f] \in Seq(R)
      BY BegunAssumption
    <3>2. \A x \in R : x.tx = 0
      OBVIOUS
    <3> HIDE DEF R
    <3>3. Begun[f][i] \in R
      BY <3>1, LenProperties
    <3> QED BY <3>2, <3>3
  <2> QED BY <1>1, <1>6, <1>7, <2>1 DEF Numbered
<1>9. \A r \in Runtimes : Newest(Work(r), Known)
  BY <1>4 DEF Newest, IdleWork
<1>10. Based(Known, journal, excused)
  BY <1>6, <1>7 DEF Based
<1>11. Settled
  BY <1>1 DEF Settled, Explained
<1>12. Chained
  BY <1>1, BegunChainAssumption DEF Chained, ChainIn
<1> QED BY <1>3, <1>5, <1>8, <1>9, <1>10, <1>11, <1>12 DEF Agrees

LEMMA StepKeepsAgrees == Inv /\ Once /\ Agrees /\ [Next]_vars => Agrees'
<1> SUFFICES ASSUME Inv, Once, Agrees, [Next]_vars PROVE Agrees'
  OBVIOUS
<1>1. Logs
  BY DEF Once
<1>2. ASSUME NEW r \in Runtimes,
             \/ Begin(r) \/ NextManifest(r) \/ Resumed(r) \/ AskFiles(r) \/ Lock(r) \/ CancelWaiting(r)
             \/ Inspect(r) \/ Conflicts(r) \/ Restore(r) \/ RecoveryFails(r) \/ Recovered(r)
      PROVE  Agrees'
  BY <1>2, BeginAgrees, CalmEnds, LockAgrees, InspectAgrees, RestoreAgrees, RecoveredAgrees
<1>3. ASSUME NEW r \in Runtimes,
             \/ Prepare(r) \/ Refuse(r) \/ Write(r) \/ WriteFails(r) \/ Commit(r) \/ CommitFails(r)
             \/ Close(r) \/ Cascade(r) \/ Undo(r) \/ Undone(r)
      PROVE  Agrees'
  BY <1>1, <1>3, PrepareAgrees, CalmEnds, WriteAgrees, WriteFailsAgrees, CommitAgrees,
     CommitFailsAgrees, CloseAgrees, CascadeAgrees, UndoAgrees, UndoneAgrees
<1>4. ASSUME NEW r \in Runtimes, Crash(r)
      PROVE  Agrees'
  BY <1>4, CalmEnds, CrashAgrees
<1> QED BY <1>2, <1>3, <1>4, EditAgrees DEF Next

LEMMA AlwaysAgrees == Spec => []Agrees
<1>1. Init => Once /\ Agrees
  BY InitOnce, InitAgrees
<1>2. Inv /\ Once /\ Agrees /\ [Next]_vars => Once' /\ Agrees'
  BY StepKeepsOnce, StepKeepsAgrees
<1> QED
  BY <1>1, <1>2, Invariance, PTL DEF Spec

\* However changes of any runtimes to any files fail, are cancelled, crash, recover or
\* overtake each other: a file that nobody works on, that no manifest covers and that
\* nothing excuses holds what the journal says.  A change of several files is recorded
\* for all of them or undone on all of them, because the manifest stays until it is
\* known which, and because recovery asks the journal before it restores.
THEOREM JournalAlwaysMatchesDisk == Spec => []JournalMatchesDisk
<1>1. Agrees => JournalMatchesDisk
  <2> SUFFICES ASSUME Agrees, NEW f \in Files, Excuses(f) = {}, holder[f] = None,
                      \A tx \in manifests : f \notin DOMAIN tx.entries
               PROVE  disk[f] = Said(f)
    BY DEF JournalMatchesDisk
  <2>1. ~InWork(f)
    <3> SUFFICES ASSUME NEW r \in Runtimes, pc[r] \in Busy, f \in want[r] PROVE FALSE
      BY DEF InWork
    <3>1. holder[f] = r
      BY HeldFiles DEF Busy
    <3> QED BY <3>1, NobodyAssumption
  <2>2. Explained(f, disk[f], journal, manifests)
    BY <2>1, CleanIs DEF Agrees, Settled
  <2> QED BY <2>2, SaidIs DEF Explained
<1> QED
  BY <1>1, AlwaysAgrees, PTL

\* Under the same circumstances the records of a file follow each other, through
\* roll-backs of any number of mutations: a change starts from what the file holds
\* under its lock, which is what the records say, the lock is kept until the records
\* are committed, and what a roll-back undoes is a chain itself.
THEOREM JournalAlwaysChains == Spec => []JournalIsChain
<1>1. Agrees => JournalIsChain
  BY CleanIs DEF Agrees, Chained, ChainIn, JournalIsChain
<1> QED
  BY <1>1, AlwaysAgrees, PTL
=============================================================================
