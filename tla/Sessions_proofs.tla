-------------------------- MODULE Sessions_proofs --------------------------
(***************************************************************************)
(* Sessions for any processes, Tasks, follow-ups and menus.                *)
(*                                                                         *)
(* Two facts carry the rest: a client whose version is still current holds *)
(* the row that is in the store (Fresh parts of GoodClient), and the       *)
(* command of a follow-up is set once, together with its Task (Tables).    *)
(* What can be said of the Tasks of a closed Session is that they are over *)
(* (Over): ended, or taken back from their end by the old row of an        *)
(* approval.  No other step takes a Task out of Over.                      *)
(***************************************************************************)
EXTENDS Sessions, FiniteSetTheorems, TLAPS

LoadedPcs == {"attach", "consume", "close", "answer", "settings"}

ClientRecord ==
  [pc : Steps, item : Inputs \cup {None}, task : Tasks \cup {None}, base : SessionRow,
   stale : BOOLEAN, todo : SUBSET Tasks, then : {"idle", "supersede"}]
LogRecord ==
  [row : SessionRow, queue : Seq([input : Inputs, after : Tasks]),
   taken : [Inputs -> Tasks \cup {None}], cancelled : SUBSET Inputs, atomic : SUBSET Inputs,
   asked : Menus]

\* The Tasks that are over: they have ended, though an old row may have taken them
\* back.
Over == {t \in Tasks : row[t] \in Ended} \cup revived

OnlyEnded(s, over) == s.tasks \subseteq over

\* What client x knows, given the Session s, the cancelled follow-ups, the Tasks
\* that are over and the commands.
GoodClient(x, s, cancelled, over, commands) ==
  /\ x \in ClientRecord
  /\ x.pc \in LoadedPcs /\ x.stale = FALSE => x.base = s
  /\ x.pc = "mark" => x.item \in Inputs /\ x.task # None /\ commands[x.item] = x.task
  /\ x.pc = "consume" => x.item \in Inputs /\ (x.task = None \/ commands[x.item] = x.task)
  /\ x.pc = "consume" /\ x.task = None /\ x.stale = FALSE =>
       s.state = "ACTIVE" /\ x.item \notin cancelled
  /\ x.pc = "close" /\ x.stale = FALSE => OnlyEnded(s, over)

ClientsGood == /\ client = [c \in Clients |-> client[c]]
               /\ \A c \in Clients : GoodClient(client[c], session, log.cancelled, Over, command)

\* The command of a follow-up, the Tasks made for it and the mark of its dispatch.
Tables ==
  /\ row \in [Tasks -> TaskState]
  /\ command \in [Inputs -> Tasks \cup {None}]
  /\ made \in [Inputs -> SUBSET Tasks]
  /\ \A i \in Inputs : /\ made[i] = IF command[i] = None THEN {} ELSE {command[i]}
                       /\ log.taken[i] = None \/ log.taken[i] = command[i]
  /\ \A i \in log.atomic : log.taken[i] # None /\ i \notin log.cancelled

Rows == /\ session \in SessionRow /\ log \in LogRecord /\ session = log.row
        /\ session.state # "ACTIVE" => OnlyEnded(session, Over)

Inv == Rows /\ Tables /\ ClientsGood

-----------------------------------------------------------------------------
(* The two shapes of a step.                                               *)

\* A Task that is over stays so, and a command that is set stays set.
OverStays == Over \subseteq Over'
CommandStays == \A i \in Inputs : command[i] # None => command'[i] = command[i]

\* A step that commits nothing to the Session.
LEMMA QuietStep ==
  ASSUME Inv, NEW c \in Clients, NEW to, Move(c, to), UNCHANGED <<session, log, command, made>>,
         row' \in [Tasks -> TaskState], OverStays,
         GoodClient(to, session, log.cancelled, Over', command)
  PROVE  Inv'
<1>1. \A s : OnlyEnded(s, Over) => OnlyEnded(s, Over')
  BY DEF OnlyEnded, OverStays
<1>2. Rows' /\ Tables'
  BY <1>1 DEF Inv, Rows, Tables
<1>3. /\ client' = [d \in Clients |-> client'[d]] /\ client'[c] = to
      /\ \A d \in Clients : d # c => client'[d] = client[d]
  BY DEF Move, Inv, ClientsGood
<1>4. ASSUME NEW d \in Clients, d # c
      PROVE  GoodClient(client[d], session, log.cancelled, Over', command)
  BY <1>1, <1>4 DEF Inv, ClientsGood, GoodClient, Rows
<1>5. ClientsGood'
  BY <1>3, <1>4 DEF ClientsGood
<1> QED
  BY <1>2, <1>5 DEF Inv

\* A commit of the Session: every other client that had loaded it is stale.
LEMMA CommitStep ==
  ASSUME Inv, NEW c \in Clients, NEW to, MoveAndStale(c, to),
         Rows', Tables', CommandStays,
         GoodClient(to, session', log'.cancelled, Over', command')
  PROVE  Inv'
<1>1. /\ client' = [d \in Clients |-> client'[d]] /\ client'[c] = to
      /\ \A d \in Clients : d # c => client'[d] = [client[d] EXCEPT !.stale = @ \/ Loaded(d)]
  BY DEF MoveAndStale
<1>2. ASSUME NEW d \in Clients, d # c
      PROVE  GoodClient(client'[d], session', log'.cancelled, Over', command')
  <2> DEFINE x == client[d]
             y == client'[d]
             b == x.stale \/ Loaded(d)
  <2>1. x \in ClientRecord
    BY DEF Inv, ClientsGood, GoodClient
  <2>2. /\ y \in ClientRecord /\ y.pc = x.pc /\ y.item = x.item /\ y.task = x.task
        /\ x.pc \in LoadedPcs => y.stale = TRUE
    <3>1. b \in BOOLEAN /\ (x.pc \in LoadedPcs => b = TRUE)
      BY DEF Loaded, LoadedPcs
    <3>2. y = [x EXCEPT !.stale = b]
      BY <1>1, <1>2
    <3> HIDE DEF b, x, y
    <3> QED
      BY <2>1, <3>1, <3>2 DEF ClientRecord
  <2>3. /\ x.pc = "mark" => x.item \in Inputs /\ x.task # None /\ command[x.item] = x.task
        /\ x.pc = "consume" => x.item \in Inputs /\ (x.task = None \/ command[x.item] = x.task)
    BY DEF Inv, ClientsGood, GoodClient
  <2> HIDE DEF x, y
  <2>4. /\ x.pc = "mark" => x.item \in Inputs /\ x.task # None /\ command'[x.item] = x.task
        /\ x.pc = "consume" => x.item \in Inputs /\ (x.task = None \/ command'[x.item] = x.task)
    BY <2>3 DEF CommandStays
  <2>5. GoodClient(y, session', log'.cancelled, Over', command')
    BY <2>2, <2>4 DEF GoodClient, LoadedPcs
  <2> QED
    BY <2>5 DEF y
<1>3. ClientsGood'
  BY <1>1, <1>2 DEF ClientsGood
<1> QED
  BY <1>3 DEF Inv

\* A commit that touches no Task, command or follow-up.
LEMMA PlainCommit ==
  ASSUME Inv, NEW c \in Clients, NEW to, MoveAndStale(c, to),
         UNCHANGED <<row, command, made, revived>>,
         session' \in SessionRow, log' \in LogRecord, log'.row = session',
         log'.taken = log.taken, log'.cancelled = log.cancelled, log'.atomic = log.atomic,
         session'.state # "ACTIVE" => OnlyEnded(session', Over),
         GoodClient(to, session', log.cancelled, Over, command)
  PROVE  Inv'
<1>1. Over' = Over
  BY DEF Over
<1>2. Rows' /\ Tables'
  BY <1>1 DEF Inv, Rows, Tables
<1>3. CommandStays
  BY DEF CommandStays
<1> QED
  BY <1>1, <1>2, <1>3, CommitStep

-----------------------------------------------------------------------------
(* What a client holds after its step.                                     *)

LEMMA Facts ==
  ASSUME Inv, NEW c \in Clients
  PROVE  /\ client[c] \in ClientRecord
         /\ GoodClient(client[c], session, log.cancelled, Over, command)
         /\ session \in SessionRow /\ log \in LogRecord /\ session = log.row
         /\ row \in [Tasks -> TaskState] /\ command \in [Inputs -> Tasks \cup {None}]
BY DEF Inv, ClientsGood, GoodClient, Rows, Tables

\* A step that changes nothing but what client c keeps.
LEMMA StillKeeps ==
  ASSUME Inv, NEW c \in Clients, NEW to, Move(c, to),
         UNCHANGED <<session, log, row, command, made, revived>>,
         GoodClient(to, session, log.cancelled, Over, command)
  PROVE  Inv'
<1>1. Over' = Over
  BY DEF Over
<1> QED
  BY <1>1, Facts, QuietStep DEF OverStays

LEMMA NewSessionType == NewSession \in SessionRow
BY MaxChoicesAssumption DEF NewSession, SessionRow, Menus

\* A client that has loaded nothing and holds no command is good in any Session.
LEMMA LightClient ==
  ASSUME NEW x \in ClientRecord, x.pc \notin LoadedPcs \cup {"mark"},
         NEW s, NEW cancelled, NEW over, NEW commands
  PROVE  GoodClient(x, s, cancelled, over, commands)
BY DEF GoodClient, LoadedPcs

LEMMA IdleLight ==
  /\ Idle \in ClientRecord /\ Idle.pc = "idle"
  /\ \A s, cancelled, over, commands : GoodClient(Idle, s, cancelled, over, commands)
<1>1. Idle \in ClientRecord /\ Idle.pc = "idle"
  BY NewSessionType DEF Idle, ClientRecord, Steps
<1> QED
  BY <1>1, LightClient DEF LoadedPcs

\* Going on to a place where nothing of the row is kept.
LEMMA GoType ==
  ASSUME Inv, NEW c \in Clients, NEW pc \in Steps
  PROVE  /\ Go(c, pc) \in ClientRecord /\ Go(c, pc).pc = pc
         /\ Go(c, pc).item = client[c].item /\ Go(c, pc).task = client[c].task
         /\ Go(c, pc).stale = FALSE /\ Go(c, pc).todo = client[c].todo
         /\ Go(c, pc).then = client[c].then
<1>1. client[c] \in ClientRecord
  BY Facts
<1> QED
  BY <1>1, NewSessionType DEF Go, ClientRecord

LEMMA GoLight ==
  ASSUME Inv, NEW c \in Clients, NEW pc \in Steps \ (LoadedPcs \cup {"mark"})
  PROVE  \A s, cancelled, over, commands : GoodClient(Go(c, pc), s, cancelled, over, commands)
<1>1. Go(c, pc) \in ClientRecord /\ Go(c, pc).pc = pc
  BY GoType
<1> QED
  BY <1>1, LightClient

LEMMA ReadType ==
  ASSUME Inv, NEW c \in Clients, NEW pc \in Steps
  PROVE  /\ Read(c, pc) \in ClientRecord /\ Read(c, pc).pc = pc
         /\ Read(c, pc).item = client[c].item /\ Read(c, pc).task = client[c].task
         /\ Read(c, pc).base = session
<1>1. client[c] \in ClientRecord /\ session \in SessionRow
  BY Facts
<1> QED
  BY <1>1 DEF Read, ClientRecord

LEMMA LogRow ==
  ASSUME NEW l \in LogRecord, NEW r \in SessionRow
  PROVE  LET m == [l EXCEPT !.row = r]
         IN /\ m \in LogRecord /\ m.row = r
            /\ m.taken = l.taken /\ m.cancelled = l.cancelled /\ m.atomic = l.atomic
BY DEF LogRecord

LEMMA LogQueue ==
  ASSUME NEW l \in LogRecord, NEW i \in Inputs, NEW t \in Tasks
  PROVE  LET m == [l EXCEPT !.queue = Append(@, [input |-> i, after |-> t])]
         IN /\ m \in LogRecord /\ m.row = l.row
            /\ m.taken = l.taken /\ m.cancelled = l.cancelled /\ m.atomic = l.atomic
<1> DEFINE e == [input |-> i, after |-> t]
           E == [input : Inputs, after : Tasks]
           q == Append(l.queue, e)
<1>1. e \in E /\ l.queue \in Seq(E)
  BY DEF LogRecord
<1> HIDE DEF e, E
<1>2. q \in Seq(E)
  BY <1>1
<1> HIDE DEF q
<1>3. LET m == [l EXCEPT !.queue = q]
      IN /\ m \in LogRecord /\ m.row = l.row
         /\ m.taken = l.taken /\ m.cancelled = l.cancelled /\ m.atomic = l.atomic
  BY <1>2 DEF LogRecord, E
<1> QED
  BY <1>3 DEF q, e

-----------------------------------------------------------------------------
(* The commits that change neither a Task nor a command.                   *)

\* A commit of the row that is there now.
LEMMA NowKeeps ==
  ASSUME Inv, NEW c \in Clients, NEW to, NEW events \in LogRecord, NEW new \in SessionRow,
         events.taken = log.taken, events.cancelled = log.cancelled, events.atomic = log.atomic,
         session' = new, log' = [events EXCEPT !.row = new], MoveAndStale(c, to),
         UNCHANGED <<row, command, made, revived>>,
         new.tasks = session.tasks, new.state # "ACTIVE" => session.state # "ACTIVE" \/ OnlyEnded(session, Over),
         GoodClient(to, new, log.cancelled, Over, command)
  PROVE  Inv'
<1>1. log' \in LogRecord /\ log'.row = session'
      /\ log'.taken = log.taken /\ log'.cancelled = log.cancelled /\ log'.atomic = log.atomic
  BY LogRow
<1>2. session'.state # "ACTIVE" => OnlyEnded(session', Over)
  BY DEF Inv, Rows, OnlyEnded
<1> QED
  BY <1>1, <1>2, PlainCommit

LEMMA QueueKeeps ==
  ASSUME Inv, NEW c \in Clients, NEW i \in Inputs, NEW t \in Tasks, Queue(c, i, t)
  PROVE  Inv'
<1> DEFINE events == [log EXCEPT !.queue = Append(@, [input |-> i, after |-> t])]
<1>1. /\ session' = session /\ log' = [events EXCEPT !.row = events.row]
      /\ MoveAndStale(c, client[c]) /\ client[c].pc \in {"idle", "turn"}
      /\ UNCHANGED <<row, command, made, revived>>
  BY DEF Queue, CommitNow, Same, histories
<1>2. /\ events \in LogRecord /\ events.row = session
      /\ events.taken = log.taken /\ events.cancelled = log.cancelled /\ events.atomic = log.atomic
  BY Facts, LogQueue
<1>3. GoodClient(client[c], session, log.cancelled, Over, command) /\ session \in SessionRow
  BY Facts
<1> HIDE DEF events
<1> QED
  BY <1>1, <1>2, <1>3, NowKeeps

LEMMA AskedType ==
  ASSUME Inv, log.asked < MaxChoices
  PROVE  /\ [session EXCEPT !.pending = log.asked + 1] \in SessionRow
         /\ [log EXCEPT !.asked = @ + 1] \in LogRecord
<1>1. log.asked + 1 \in Menus
  BY Facts, MaxChoicesAssumption DEF LogRecord, Menus, Inv, Rows
<1> QED
  BY <1>1 DEF SessionRow, LogRecord, Inv, Rows

LEMMA BindToMenuKeeps ==
  ASSUME Inv, NEW c \in Clients, BindToMenu(c)
  PROVE  Inv'
<1> DEFINE events == [log EXCEPT !.asked = @ + 1]
           new == [session EXCEPT !.pending = log.asked + 1]
<1>1. /\ session' = new /\ log' = [events EXCEPT !.row = [events.row EXCEPT !.pending = log.asked + 1]]
      /\ MoveAndStale(c, Idle) /\ UNCHANGED <<row, command, made, revived>> /\ log.asked < MaxChoices
  BY DEF BindToMenu, CommitNow, histories
<1>2. /\ events \in LogRecord /\ new \in SessionRow
      /\ events.row = session /\ new.tasks = session.tasks /\ new.state = session.state
      /\ events.taken = log.taken /\ events.cancelled = log.cancelled /\ events.atomic = log.atomic
  BY <1>1, AskedType, Facts DEF LogRecord, SessionRow
<1>3. log' = [events EXCEPT !.row = new]
  BY <1>1, <1>2
<1> HIDE DEF events, new
<1> QED
  BY <1>1, <1>2, <1>3, IdleLight, NowKeeps

LEMMA NoMenuType ==
  ASSUME NEW s \in SessionRow
  PROVE  NoMenu(s) \in SessionRow /\ NoMenu(s).tasks = s.tasks /\ NoMenu(s).state = s.state
BY MaxChoicesAssumption DEF NoMenu, SessionRow, Menus

LEMMA ClearMenuKeeps ==
  ASSUME Inv, NEW c \in Clients, ClearMenu(c)
  PROVE  Inv'
<1>1. GoodClient(Go(c, "select"), session, log.cancelled, Over, command)
      /\ GoodClient(Go(c, "select"), NoMenu(session), log.cancelled, Over, command)
  BY GoLight DEF Steps, LoadedPcs
<1>2. CASE session.pending = 0
  BY <1>1, <1>2, StillKeeps DEF ClearMenu, histories
<1>3. CASE session.pending # 0
  <2>1. /\ session.pending # 0 /\ NoMenu(session) \in SessionRow /\ session \in SessionRow
        /\ NoMenu(session).tasks = session.tasks /\ NoMenu(session).state = session.state
    BY <1>3, Facts, NoMenuType
  <2> DEFINE new == NoMenu(session)
             to == Go(c, "select")
  <2>2. session' = new /\ log' = [log EXCEPT !.row = new] /\ MoveAndStale(c, to)
        /\ UNCHANGED <<row, command, made, revived>>
    BY <1>3, Facts DEF ClearMenu, CommitNow, histories
  <2>3. log \in LogRecord /\ GoodClient(to, new, log.cancelled, Over, command)
    BY <1>1, Facts
  <2> HIDE DEF new, to
  <2>4. new \in SessionRow /\ new.tasks = session.tasks /\ new.state = session.state
    BY <2>1 DEF new
  <2> QED
    BY <2>2, <2>3, <2>4, NowKeeps
<1> QED
  BY <1>2, <1>3

LEMMA SelectKeeps ==
  ASSUME Inv, NEW c \in Clients, Select(c)
  PROVE  Inv'
<1> DEFINE to == CASE row[client[c].task] = "AWAITING_INPUT" -> Go(c, "run")
                   [] row[client[c].task] \in {"INTERRUPTED", "EXECUTING"} -> Go(c, "resume")
                   [] OTHER -> Idle
<1>1. GoodClient(to, session, log.cancelled, Over, command)
  <2>1. to \in {Go(c, "run"), Go(c, "resume"), Idle}
    OBVIOUS
  <2>2. GoodClient(Go(c, "run"), session, log.cancelled, Over, command)
    BY GoLight DEF Steps, LoadedPcs
  <2>3. GoodClient(Go(c, "resume"), session, log.cancelled, Over, command)
    BY GoLight DEF Steps, LoadedPcs
  <2>4. GoodClient(Idle, session, log.cancelled, Over, command)
    BY IdleLight
  <2> HIDE DEF to
  <2> QED
    BY <2>1, <2>2, <2>3, <2>4
<1>2. CASE to = Idle
  BY <1>1, <1>2, IdleLight, StillKeeps DEF Select, Forget, histories
<1>3. CASE to # Idle
  BY <1>1, <1>3, Facts, NowKeeps DEF Select, CommitNow, Same, histories
<1> QED
  BY <1>2, <1>3

\* The commits of a row loaded before: the version says it is the row still.
LEMMA FreshBase ==
  ASSUME Inv, NEW c \in Clients, SameVersion(c), client[c].pc \in LoadedPcs
  PROVE  client[c].base = session /\ client[c].stale = FALSE
BY Facts DEF SameVersion, GoodClient, ClientRecord

LEMMA ClosedNowType ==
  ASSUME NEW s \in SessionRow
  PROVE  ClosedNow(s) \in SessionRow /\ ClosedNow(s).tasks = s.tasks
<1>1. 0 \in Menus
  BY MaxChoicesAssumption DEF Menus
<1> QED
  BY <1>1 DEF ClosedNow, SessionRow

LEMMA CloseSessionKeeps ==
  ASSUME Inv, NEW c \in Clients, CloseSession(c)
  PROVE  Inv'
<1>1. SameVersion(c) /\ client[c].pc = "close"
  BY DEF CloseSession, Commit
<1>2. client[c].base = session /\ OnlyEnded(session, Over)
  BY <1>1, FreshBase, Facts DEF LoadedPcs, GoodClient
<1>3. /\ session' = ClosedNow(session) /\ log' = [log EXCEPT !.row = ClosedNow(session)]
      /\ MoveAndStale(c, Idle) /\ UNCHANGED <<row, command, made, revived>>
  BY <1>2, Facts DEF CloseSession, Commit, histories
<1>4. ClosedNow(session) \in SessionRow /\ ClosedNow(session).tasks = session.tasks
  BY Facts, ClosedNowType
<1> QED
  BY <1>2, <1>3, <1>4, Facts, IdleLight, NowKeeps

LEMMA ArchiveSessionKeeps ==
  ASSUME Inv, NEW c \in Clients, ArchiveSession(c)
  PROVE  Inv'
<1>1. /\ session' = ArchivedNow(session) /\ log' = [log EXCEPT !.row = ArchivedNow(session)]
      /\ MoveAndStale(c, Idle) /\ UNCHANGED <<row, command, made, revived>> /\ session.state = "CLOSED"
  BY Facts DEF ArchiveSession, CommitNow, histories
<1>2. ArchivedNow(session) \in SessionRow /\ ArchivedNow(session).tasks = session.tasks
  BY Facts DEF ArchivedNow, SessionRow
<1> QED
  BY <1>1, <1>2, Facts, IdleLight, NowKeeps

LEMMA AnswerMenuKeeps ==
  ASSUME Inv, NEW c \in Clients, AnswerMenu(c)
  PROVE  Inv'
<1>1. client[c].base = session
  BY FreshBase DEF AnswerMenu, Commit, LoadedPcs
<1>2. /\ session' = NoMenu(session) /\ log' = [log EXCEPT !.row = NoMenu(session)]
      /\ MoveAndStale(c, Idle) /\ UNCHANGED <<row, command, made, revived>>
  BY <1>1, Facts DEF AnswerMenu, Commit, histories
<1> QED
  BY <1>2, Facts, NoMenuType, IdleLight, NowKeeps

LEMMA ChooseSettingsKeeps ==
  ASSUME Inv, NEW c \in Clients, ChooseSettings(c)
  PROVE  Inv'
<1>1. client[c].base = session
  BY FreshBase DEF ChooseSettings, Commit, LoadedPcs
<1>2. /\ session' = Chosen(session) /\ log' = [log EXCEPT !.row = Chosen(session)]
      /\ MoveAndStale(c, Idle) /\ UNCHANGED <<row, command, made, revived>>
  BY <1>1, Facts DEF ChooseSettings, Commit, histories
<1>3. Chosen(session) \in SessionRow /\ Chosen(session).tasks = session.tasks
      /\ Chosen(session).state = session.state
  BY Facts DEF Chosen, SessionRow
<1> QED
  BY <1>2, <1>3, Facts, IdleLight, NowKeeps

-----------------------------------------------------------------------------
(* The commits that tell the Session of a Task or of a follow-up.          *)

\* A Turn that finishes, or a Task that has ended.
LEMMA FinishTurnKeeps ==
  ASSUME Inv, NEW c \in Clients, FinishTurn(c)
  PROVE  Inv'
<1>1. /\ session' = session /\ log' = [log EXCEPT !.row = session] /\ session.state = "ACTIVE"
      /\ MoveAndStale(c, Idle) /\ UNCHANGED <<command, made>>
      /\ row' = [row EXCEPT ![client[c].task] = "AWAITING_INPUT"]
  BY Facts DEF FinishTurn, CommitNow, Same, histories, Active
<1>2. /\ log' \in LogRecord /\ log'.row = session /\ log'.taken = log.taken
      /\ log'.cancelled = log.cancelled /\ log'.atomic = log.atomic
  BY <1>1, Facts, LogRow
<1>3. row' \in [Tasks -> TaskState]
  BY <1>1, Facts DEF TaskState
<1>4. Rows' /\ Tables' /\ CommandStays
  BY <1>1, <1>2, <1>3 DEF Inv, Rows, Tables, CommandStays
<1> QED
  BY <1>1, <1>4, IdleLight, CommitStep

LEMMA MirrorKeeps ==
  ASSUME Inv, NEW c \in Clients, Mirror(c)
  PROVE  Inv'
<1> DEFINE then == client[c].then
           to == IF then = "idle" THEN Idle
                 ELSE [Go(c, then) EXCEPT !.then = "idle", !.task = None]
<1>1. /\ session' = session /\ log' = [log EXCEPT !.row = session]
      /\ MoveAndStale(c, to) /\ UNCHANGED <<row, command, made, revived>>
  BY Facts DEF Mirror, CommitNow, Same, histories
<1>2. to \in ClientRecord /\ to.pc \in {"idle", "supersede"}
  <2>1. then \in {"idle", "supersede"}
    BY Facts DEF ClientRecord
  <2>2. LET x == [Go(c, "supersede") EXCEPT !.then = "idle", !.task = None]
        IN x \in ClientRecord /\ x.pc = "supersede"
    <3> DEFINE g == Go(c, "supersede")
    <3>1. g \in ClientRecord /\ g.pc = "supersede"
      BY GoType DEF Steps
    <3> HIDE DEF g
    <3>2. LET x == [g EXCEPT !.then = "idle", !.task = None]
          IN x \in ClientRecord /\ x.pc = "supersede"
      BY <3>1 DEF ClientRecord
    <3> QED
      BY <3>2 DEF g
  <2> QED
    BY <2>1, <2>2, IdleLight
<1> HIDE DEF to
<1>3. GoodClient(to, session, log.cancelled, Over, command)
  BY <1>2, LightClient DEF LoadedPcs
<1> QED
  BY <1>1, <1>3, Facts, NowKeeps

\* Only a follow-up that no Task has taken is cancelled.
LEMMA UnqueueKeeps ==
  ASSUME Inv, NEW c \in Clients, NEW i \in Inputs, Unqueue(c, i)
  PROVE  Inv'
<1> DEFINE events == [log EXCEPT !.cancelled = @ \cup {i}]
<1>1. /\ session' = session /\ log' = [events EXCEPT !.row = events.row]
      /\ MoveAndStale(c, client[c]) /\ client[c].pc \in {"idle", "turn"}
      /\ UNCHANGED <<row, command, made, revived>> /\ log.taken[i] = None
  BY DEF Unqueue, CommitNow, Same, Waiting, histories
<1>2. /\ events \in LogRecord /\ events.row = session /\ events.taken = log.taken
      /\ events.cancelled = log.cancelled \cup {i} /\ events.atomic = log.atomic
  BY Facts DEF LogRecord
<1> HIDE DEF events
<1>3. /\ log' \in LogRecord /\ log'.row = session /\ log'.taken = log.taken
      /\ log'.cancelled = log.cancelled \cup {i} /\ log'.atomic = log.atomic
  BY <1>1, <1>2, Facts, LogRow
<1>4. Rows' /\ Tables' /\ CommandStays
  <2>1. Over' = Over
    BY <1>1 DEF Over
  <2> QED
    BY <1>1, <1>3, <2>1 DEF Inv, Rows, Tables, CommandStays
<1>5. GoodClient(client[c], session', log'.cancelled, Over', command')
  BY <1>1, Facts, LightClient DEF LoadedPcs
<1> QED
  BY <1>1, <1>4, <1>5, CommitStep

\* A dispatch is told: the follow-up is marked with the Task of its command.
LEMMA TakenType ==
  ASSUME Inv, NEW i \in Inputs, NEW t \in Tasks
  PROVE  LET events == [log EXCEPT !.taken[i] = t]
         IN /\ events \in LogRecord /\ events.row = session
            /\ events.taken = [log.taken EXCEPT ![i] = t]
            /\ events.cancelled = log.cancelled /\ events.atomic = log.atomic
BY Facts DEF LogRecord, Inv, Rows

LEMMA TakenKeeps ==
  ASSUME Inv, NEW c \in Clients, NEW i \in Inputs, NEW t \in Tasks, command[i] = t,
         NEW events \in LogRecord, events.taken = [log.taken EXCEPT ![i] = t],
         events.cancelled = log.cancelled, events.atomic = log.atomic,
         session' = session, log' = [events EXCEPT !.row = session],
         MoveAndStale(c, Go(c, "run")), UNCHANGED <<row, command, made, revived>>
  PROVE  Inv'
<1>1. /\ log' \in LogRecord /\ log'.row = session /\ log'.taken = events.taken
      /\ log'.cancelled = log.cancelled /\ log'.atomic = log.atomic
  BY Facts, LogRow
<1>2. log.taken \in [Inputs -> Tasks \cup {None}] /\ log.atomic \subseteq Inputs
  BY Facts DEF LogRecord
<1>3. t # None
  BY NoneAssumption
<1>4. Tables'
  BY <1>1, <1>2, <1>3 DEF Inv, Tables
<1>5. Rows' /\ CommandStays
  <2>1. Over' = Over
    BY DEF Over
  <2> QED
    BY <1>1, <2>1 DEF Inv, Rows, CommandStays
<1>6. GoodClient(Go(c, "run"), session', log'.cancelled, Over', command')
  BY GoLight DEF Steps, LoadedPcs
<1> QED
  BY <1>4, <1>5, <1>6, CommitStep

LEMMA ConsumeReplaysKeeps ==
  ASSUME Inv, NEW c \in Clients, ConsumeReplays(c)
  PROVE  Inv'
<1> DEFINE i == client[c].item
           t == client[c].task
<1>1. client[c].pc = "consume" /\ t # None /\ SameVersion(c)
  BY DEF ConsumeReplays, Commit
<1>2. client[c].base = session
  BY <1>1, FreshBase DEF LoadedPcs
<1>3. i \in Inputs /\ t \in Tasks /\ command[i] = t
  BY <1>1, Facts DEF GoodClient, ClientRecord
<1> DEFINE events == [log EXCEPT !.taken[i] = t]
<1>4. /\ events \in LogRecord /\ events.row = session
      /\ events.taken = [log.taken EXCEPT ![i] = t]
      /\ events.cancelled = log.cancelled /\ events.atomic = log.atomic
  BY <1>3, TakenType
<1>5. /\ session' = session /\ log' = [events EXCEPT !.row = session]
      /\ MoveAndStale(c, Go(c, "run")) /\ UNCHANGED <<row, command, made, revived>>
  BY <1>2, <1>4 DEF ConsumeReplays, Commit, Same, histories
<1> HIDE DEF events
<1> QED
  BY <1>3, <1>4, <1>5, TakenKeeps

LEMMA MarkDispatchedKeeps ==
  ASSUME Inv, NEW c \in Clients, MarkDispatched(c)
  PROVE  Inv'
<1> DEFINE i == client[c].item
           t == client[c].task
<1>1. i \in Inputs /\ t \in Tasks /\ command[i] = t
  BY Facts DEF MarkDispatched, GoodClient, ClientRecord
<1>2. CASE log.taken[i] = t
  <2>1. GoodClient(Go(c, "run"), session, log.cancelled, Over, command)
    <3>1. "run" \in Steps /\ "run" \notin LoadedPcs
      BY DEF Steps, LoadedPcs
    <3>2. Go(c, "run") \in ClientRecord /\ Go(c, "run").pc = "run"
      BY <3>1, GoType
    <3> QED BY <3>1, <3>2, LightClient
  <2> QED
    BY <1>2, <2>1, StillKeeps DEF MarkDispatched, histories
<1>3. CASE log.taken[i] # t
  <2> DEFINE events == [log EXCEPT !.taken[i] = t]
  <2>1. /\ events \in LogRecord /\ events.row = session
        /\ events.taken = [log.taken EXCEPT ![i] = t]
        /\ events.cancelled = log.cancelled /\ events.atomic = log.atomic
    BY <1>1, TakenType
  <2>2. /\ session' = session /\ log' = [events EXCEPT !.row = session]
        /\ MoveAndStale(c, Go(c, "run")) /\ UNCHANGED <<row, command, made, revived>>
    BY <1>3, <2>1 DEF MarkDispatched, CommitNow, Same, histories
  <2> HIDE DEF events
  <2> QED
    BY <1>1, <2>1, <2>2, TakenKeeps
<1> QED
  BY <1>2, <1>3

-----------------------------------------------------------------------------
(* The commits that create a Task.                                         *)

LEMMA CreatedKeeps ==
  ASSUME Inv, NEW c \in Clients, NEW t \in Tasks, NEW to, NEW events \in LogRecord,
         session.state = "ACTIVE", session' = [session EXCEPT !.tasks = @ \cup {t}],
         log' = [events EXCEPT !.row = session'], MoveAndStale(c, to),
         Tables', CommandStays, GoodClient(to, session', log'.cancelled, Over', command')
  PROVE  Inv'
<1>1. session' \in SessionRow /\ session'.state = "ACTIVE"
  BY Facts DEF SessionRow
<1>2. log' \in LogRecord /\ log'.row = session'
  BY <1>1, LogRow
<1>3. Rows'
  BY <1>1, <1>2 DEF Rows
<1> QED
  BY <1>3, CommitStep

LEMMA CreatedRow ==
  ASSUME Inv, NEW t \in Tasks
  PROVE  [row EXCEPT ![t] = "CREATED"] \in [Tasks -> TaskState]
BY Facts, "CREATED" \in TaskState DEF TaskState, Inv, Tables

\* The command was unused, the follow-up not cancelled in the version loaded, and
\* that version is the current one.
LEMMA ConsumeCreatesKeeps ==
  ASSUME Inv, NEW c \in Clients, NEW t \in Tasks, ConsumeCreates(c, t)
  PROVE  Inv'
<1> DEFINE i == client[c].item
           events == [log EXCEPT !.taken[i] = t, !.atomic = @ \cup {i}]
           to == [Go(c, "run") EXCEPT !.task = t]
<1>1. /\ client[c].pc = "consume" /\ client[c].task = None /\ SameVersion(c)
      /\ command[i] = None /\ row[t] = "none"
  BY DEF ConsumeCreates, Commit, CommandUnused
<1>2. client[c].base = session /\ client[c].stale = FALSE
  BY <1>1, FreshBase DEF LoadedPcs
<1>3. i \in Inputs /\ session.state = "ACTIVE" /\ i \notin log.cancelled
  BY <1>1, <1>2, Facts DEF GoodClient
<1>4. /\ session' = [session EXCEPT !.tasks = @ \cup {t}]
      /\ log' = [events EXCEPT !.row = [events.row EXCEPT !.tasks = @ \cup {t}]]
      /\ MoveAndStale(c, to)
      /\ row' = [row EXCEPT ![t] = "CREATED"] /\ command' = [command EXCEPT ![i] = t]
      /\ made' = [made EXCEPT ![i] = @ \cup {t}]
  BY <1>2 DEF ConsumeCreates, Commit
<1>5. /\ events \in LogRecord /\ events.row = session
      /\ events.taken = [log.taken EXCEPT ![i] = t]
      /\ events.cancelled = log.cancelled /\ events.atomic = log.atomic \cup {i}
  BY <1>3, Facts DEF LogRecord
<1>6. log' = [events EXCEPT !.row = session']
  BY <1>4, <1>5
<1>7. to \in ClientRecord /\ to.pc = "run"
  <2> DEFINE g == Go(c, "run")
  <2>1. g \in ClientRecord /\ g.pc = "run"
    BY GoType DEF Steps
  <2> HIDE DEF g
  <2>2. [g EXCEPT !.task = t] \in ClientRecord /\ [g EXCEPT !.task = t].pc = "run"
    BY <2>1 DEF ClientRecord
  <2> QED
    BY <2>2 DEF g
<1> HIDE DEF events, to
<1>8. session' \in SessionRow
  BY <1>4, Facts DEF SessionRow
<1>9. log'.taken = events.taken /\ log'.cancelled = log.cancelled /\ log'.atomic = log.atomic \cup {i}
  BY <1>5, <1>6, <1>8, LogRow
<1>10. Tables'
  <2>1. log.taken \in [Inputs -> Tasks \cup {None}] /\ log.atomic \subseteq Inputs
    BY Facts DEF LogRecord
  <2>2. row' \in [Tasks -> TaskState]
    BY <1>4, CreatedRow
  <2>3. command' \in [Inputs -> Tasks \cup {None}] /\ made' \in [Inputs -> SUBSET Tasks]
    BY <1>3, <1>4 DEF Inv, Tables
  <2>4. t # None
    BY NoneAssumption
  <2>5. ASSUME NEW j \in Inputs
        PROVE  /\ made'[j] = IF command'[j] = None THEN {} ELSE {command'[j]}
               /\ log'.taken[j] = None \/ log'.taken[j] = command'[j]
    <3>1. CASE j = i
      <4>1. command'[i] = t /\ made'[i] = made[i] \cup {t} /\ log'.taken[i] = t
        BY <1>3, <1>4, <1>5, <1>9, <2>1 DEF Inv, Tables
      <4>2. made[i] = {}
        BY <1>1, <1>3 DEF Inv, Tables
      <4> QED
        BY <3>1, <4>1, <4>2, <2>4
    <3>2. CASE j # i
      BY <1>3, <1>4, <1>5, <1>9, <2>1, <3>2 DEF Inv, Tables
    <3> QED
      BY <3>1, <3>2
  <2>6. \A j \in log'.atomic : log'.taken[j] # None /\ j \notin log'.cancelled
    BY <1>3, <1>5, <1>9, <2>1, <2>4 DEF Inv, Tables
  <2> QED
    BY <2>2, <2>3, <2>5, <2>6 DEF Tables
<1>11. CommandStays
  BY <1>1, <1>4, Facts DEF CommandStays
<1>12. GoodClient(to, session', log'.cancelled, Over', command')
  BY <1>7, LightClient DEF LoadedPcs
<1> QED
  BY <1>3, <1>4, <1>5, <1>6, <1>10, <1>11, <1>12, CreatedKeeps

\* A client remembers another Task.
LEMMA TaskNamed ==
  ASSUME NEW x \in ClientRecord, NEW t \in Tasks \cup {None}
  PROVE  LET y == [x EXCEPT !.task = t]
         IN y \in ClientRecord /\ y.pc = x.pc /\ y.item = x.item /\ y.task = t
<1> DEFINE y == [x EXCEPT !.task = t]
<1>1. y \in ClientRecord
  BY DEF ClientRecord
<1>2. y.pc = x.pc /\ y.item = x.item /\ y.task = t
  BY DEF ClientRecord
<1> QED BY <1>1, <1>2

LEMMA AttachKeeps ==
  ASSUME Inv, NEW c \in Clients, NEW t \in Tasks, Attach(c, t)
  PROVE  Inv'
<1> DEFINE i == client[c].item
           g == Go(c, IF i = None THEN "run" ELSE "mark")
           to == [g EXCEPT !.task = t]
<1>1. /\ client[c].pc = "attach" /\ client[c].base.state = "ACTIVE" /\ SameVersion(c)
      /\ row[t] = "none" /\ (i # None => command[i] = None)
  BY DEF Attach, Commit, CommandUnused
<1>2. client[c].base = session /\ session.state = "ACTIVE"
  BY <1>1, FreshBase DEF LoadedPcs
<1>3. i \in Inputs \cup {None} /\ t # None
  BY Facts, NoneAssumption DEF ClientRecord
<1>4. /\ session' = [session EXCEPT !.tasks = @ \cup {t}]
      /\ log' = [log EXCEPT !.row = [log.row EXCEPT !.tasks = @ \cup {t}]]
      /\ MoveAndStale(c, to)
      /\ row' = [row EXCEPT ![t] = "CREATED"]
      /\ command' = IF i = None THEN command ELSE [command EXCEPT ![i] = t]
      /\ made' = IF i = None THEN made ELSE [made EXCEPT ![i] = @ \cup {t}]
  BY <1>2 DEF Attach, Commit
<1>5. log' = [log EXCEPT !.row = session'] /\ log \in LogRecord /\ session' \in SessionRow
  BY <1>4, Facts DEF SessionRow
<1>6. log'.taken = log.taken /\ log'.cancelled = log.cancelled /\ log'.atomic = log.atomic
  BY <1>5, LogRow
<1>7. /\ to \in ClientRecord /\ to.pc = (IF i = None THEN "run" ELSE "mark")
      /\ to.item = i /\ to.task = t
  <2>1. g \in ClientRecord /\ g.pc = (IF i = None THEN "run" ELSE "mark") /\ g.item = i
    <3>1. (IF i = None THEN "run" ELSE "mark") \in Steps
      BY DEF Steps
    <3> HIDE DEF Steps
    <3> QED BY <3>1, GoType
  <2> HIDE DEF g, i
  <2> QED
    BY <2>1, TaskNamed
<1> HIDE DEF to, g
<1>8. Tables'
  <2>1. log.taken \in [Inputs -> Tasks \cup {None}]
    BY Facts DEF LogRecord
  <2>2. row' \in [Tasks -> TaskState]
    BY <1>4, CreatedRow
  <2>3. CASE i = None
    BY <1>4, <1>6, <2>2, <2>3 DEF Inv, Tables
  <2>4. CASE i # None
    <3>1. command' \in [Inputs -> Tasks \cup {None}] /\ made' \in [Inputs -> SUBSET Tasks]
      BY <1>4, <2>4 DEF Inv, Tables
    <3>2. ASSUME NEW j \in Inputs
          PROVE  /\ made'[j] = IF command'[j] = None THEN {} ELSE {command'[j]}
                 /\ log'.taken[j] = None \/ log'.taken[j] = command'[j]
      <4>1. CASE j = i
        BY <1>1, <1>3, <1>4, <1>6, <2>4, <4>1 DEF Inv, Tables
      <4>2. CASE j # i
        BY <1>4, <1>6, <2>4, <4>2 DEF Inv, Tables
      <4> QED
        BY <4>1, <4>2
    <3> QED
      BY <1>6, <2>2, <3>1, <3>2 DEF Inv, Tables
  <2> QED
    BY <2>3, <2>4
<1>9. CommandStays
  BY <1>1, <1>4, Facts DEF CommandStays
<1>10. GoodClient(to, session', log'.cancelled, Over', command')
  <2>1. CASE i = None
    BY <1>7, <2>1, LightClient DEF LoadedPcs
  <2>2. CASE i # None
    BY <1>3, <1>4, <1>7, <2>2, Facts DEF GoodClient, LoadedPcs
  <2> QED
    BY <2>1, <2>2
<1> QED
  BY <1>2, <1>4, <1>5, <1>8, <1>9, <1>10, CreatedKeeps

-----------------------------------------------------------------------------
(* The steps that commit nothing to the Session.                           *)

\* One Task that has not ended changes its state, or one ends, or an old row takes
\* one back.
LEMMA TaskKeeps ==
  ASSUME Inv, NEW c \in Clients, NEW to, Move(c, to),
         UNCHANGED <<session, log, command, made>>,
         NEW t, NEW state \in TaskState, row' = [row EXCEPT ![t] = state],
         \/ row[t] \notin Ended /\ UNCHANGED revived
         \/ t \in Tasks /\ state \in Ended /\ revived' = revived \ {t}
         \/ t \in revived' /\ revived \subseteq revived',
         \A over : GoodClient(to, session, log.cancelled, over, command)
  PROVE  Inv'
<1>1. row' \in [Tasks -> TaskState]
  BY Facts
<1>2. ASSUME NEW u \in Over
      PROVE  u \in Over'
  <2>1. \A v \in Tasks : v # t => row'[v] = row[v]
    BY Facts
  <2>2. t \in Tasks => row'[t] = state
    BY Facts
  <2> QED
    BY <1>2, <2>1, <2>2 DEF Over
<1>3. GoodClient(to, session, log.cancelled, Over', command)
  OBVIOUS
<1> QED
  BY <1>1, <1>2, <1>3, QuietStep DEF OverStays

\* A client that goes on with another Task.
LEMMA GoTaskLight ==
  ASSUME Inv, NEW c \in Clients, NEW pc \in Steps \ (LoadedPcs \cup {"mark"}),
         NEW t \in Tasks, NEW s, NEW cancelled, NEW over, NEW commands
  PROVE  /\ GoodClient([Go(c, pc) EXCEPT !.task = t], s, cancelled, over, commands)
         /\ GoodClient([Idle EXCEPT !.pc = pc, !.task = t], s, cancelled, over, commands)
<1> DEFINE g == Go(c, pc)
           x == Idle
<1>1. g \in ClientRecord /\ g.pc = pc /\ x \in ClientRecord
  BY GoType, IdleLight
<1> HIDE DEF g, x
<1>2. /\ [g EXCEPT !.task = t] \in ClientRecord /\ [g EXCEPT !.task = t].pc = pc
      /\ [x EXCEPT !.pc = pc, !.task = t] \in ClientRecord
      /\ [x EXCEPT !.pc = pc, !.task = t].pc = pc
  BY <1>1 DEF ClientRecord
<1>3. /\ GoodClient([g EXCEPT !.task = t], s, cancelled, over, commands)
      /\ GoodClient([x EXCEPT !.pc = pc, !.task = t], s, cancelled, over, commands)
  BY <1>2, LightClient
<1> QED
  BY <1>3 DEF g, x

LEMMA ConsumeLoadsKeeps ==
  ASSUME Inv, NEW c \in Clients, NEW i \in Inputs, ConsumeLoads(c, i)
  PROVE  Inv'
<1> DEFINE r == Read(c, "consume")
           to == [r EXCEPT !.item = i, !.task = command[i]]
<1>1. r \in ClientRecord /\ r.pc = "consume" /\ r.base = session
  BY ReadType DEF Steps
<1>2. command[i] \in Tasks \cup {None}
  BY Facts
<1> HIDE DEF r
<1>3. /\ to \in ClientRecord /\ to.pc = "consume" /\ to.base = session
      /\ to.item = i /\ to.task = command[i]
  BY <1>1, <1>2 DEF ClientRecord
<1>4. /\ Move(c, to) /\ UNCHANGED <<session, log, row, command, made, revived>>
      /\ i \notin log.cancelled /\ (command[i] = None => session.state = "ACTIVE")
  BY DEF ConsumeLoads, Ready, Waiting, Active, histories, r
<1> HIDE DEF to
<1>5. GoodClient(to, session, log.cancelled, Over, command)
  BY <1>3, <1>4 DEF GoodClient
<1> QED
  BY <1>4, <1>5, StillKeeps

LEMMA PickFollowUpKeeps ==
  ASSUME Inv, NEW c \in Clients, NEW i \in Inputs, PickFollowUp(c, i)
  PROVE  Inv'
<1> DEFINE to == [Idle EXCEPT !.pc = "bind", !.item = i]
<1>1. to \in ClientRecord /\ to.pc = "bind"
  BY IdleLight DEF ClientRecord, Steps
<1>2. Move(c, to) /\ UNCHANGED <<session, log, row, command, made, revived>>
  BY DEF PickFollowUp, histories
<1> HIDE DEF to
<1> QED
  BY <1>1, <1>2, LightClient, StillKeeps DEF LoadedPcs

LEMMA SayKeeps ==
  ASSUME Inv, NEW c \in Clients, NEW pc \in {"bind", "create"}, Say(c, pc)
  PROVE  Inv'
<1> DEFINE to == [Idle EXCEPT !.pc = pc]
<1>1. to \in ClientRecord /\ to.pc = pc
  BY IdleLight DEF ClientRecord, Steps
<1>2. Move(c, to) /\ UNCHANGED <<session, log, row, command, made, revived>>
  BY DEF Say, histories
<1> HIDE DEF to
<1> QED
  BY <1>1, <1>2, LightClient, StillKeeps DEF LoadedPcs

LEMMA BindKeeps ==
  ASSUME Inv, NEW c \in Clients, BindToNew(c) \/ \E t \in Tasks : BindToTask(c, t)
  PROVE  Inv'
<1>1. CASE BindToNew(c)
  BY <1>1, GoLight, StillKeeps DEF BindToNew, histories, Steps, LoadedPcs
<1>2. ASSUME NEW t \in Tasks, BindToTask(c, t)
      PROVE  Inv'
  <2> DEFINE to == [Go(c, "clear") EXCEPT !.task = t]
  <2>1. GoodClient(to, session, log.cancelled, Over, command)
    BY GoTaskLight DEF Steps, LoadedPcs
  <2>2. Move(c, to) /\ UNCHANGED <<session, log, row, command, made, revived>>
    BY <1>2 DEF BindToTask, histories
  <2> HIDE DEF to
  <2> QED
    BY <2>1, <2>2, StillKeeps
<1> QED
  BY <1>1, <1>2

\* The command of the follow-up tells the Task to mark it with.
LEMMA CreateReplaysKeeps ==
  ASSUME Inv, NEW c \in Clients, CreateReplays(c)
  PROVE  Inv'
<1> DEFINE i == client[c].item
           g == Go(c, "mark")
           to == [g EXCEPT !.task = command[i]]
<1>1. /\ i \in Inputs /\ command[i] \in Tasks /\ command[i] # None
      /\ Move(c, to) /\ UNCHANGED <<session, log, row, command, made, revived>>
  BY Facts DEF CreateReplays, histories, ClientRecord
<1>2. g \in ClientRecord /\ g.pc = "mark" /\ g.item = i
  BY GoType DEF Steps
<1> HIDE DEF g
<1> HIDE DEF i
<1>3. to \in ClientRecord /\ to.pc = "mark" /\ to.item = i /\ to.task = command[i]
  BY <1>1, <1>2, TaskNamed
<1> HIDE DEF to
<1>4. GoodClient(to, session, log.cancelled, Over, command)
  BY <1>1, <1>3 DEF GoodClient, LoadedPcs
<1> QED
  BY <1>1, <1>4, StillKeeps

LEMMA CreateLoadsKeeps ==
  ASSUME Inv, NEW c \in Clients, CreateLoads(c)
  PROVE  Inv'
<1> DEFINE to == [Go(c, "supersede") EXCEPT !.todo = session.tasks]
<1>1. session.tasks \in SUBSET Tasks
  BY Facts DEF SessionRow
<1>2. GoodClient(to, session, log.cancelled, Over, command)
  <2> DEFINE g == Go(c, "supersede")
  <2>1. g \in ClientRecord /\ g.pc = "supersede"
    BY GoType DEF Steps
  <2> HIDE DEF g
  <2>2. [g EXCEPT !.todo = session.tasks] \in ClientRecord
        /\ [g EXCEPT !.todo = session.tasks].pc = "supersede"
    BY <1>1, <2>1 DEF ClientRecord
  <2> QED
    BY <2>2, LightClient DEF LoadedPcs, g
<1>3. Move(c, to) /\ UNCHANGED <<session, log, row, command, made, revived>>
  BY DEF CreateLoads, histories
<1> HIDE DEF to
<1> QED
  BY <1>2, <1>3, StillKeeps

LEMMA SupersedeCloseKeeps ==
  ASSUME Inv, NEW c \in Clients, NEW t \in Tasks, SupersedeClose(c, t)
  PROVE  Inv'
<1> DEFINE g == Go(c, "mirror")
           to == [g EXCEPT !.task = t, !.todo = @ \ {t}, !.then = "supersede"]
<1>1. g \in ClientRecord /\ g.pc = "mirror"
  BY GoType DEF Steps
<1> HIDE DEF g
<1>2. to \in ClientRecord /\ to.pc = "mirror"
  BY <1>1 DEF ClientRecord
<1>3. Move(c, to) /\ UNCHANGED <<session, log, command, made>>
      /\ row' = [row EXCEPT ![t] = "SUCCEEDED"] /\ revived' = revived \ {t}
  BY DEF SupersedeClose, EndTask, g
<1> HIDE DEF to
<1>4. \A over : GoodClient(to, session, log.cancelled, over, command)
  BY <1>2, LightClient DEF LoadedPcs
<1>5. "SUCCEEDED" \in TaskState /\ "SUCCEEDED" \in Ended
  BY DEF TaskState, Ended
<1> QED
  BY <1>3, <1>4, <1>5, TaskKeeps

LEMMA SupersedeSkipKeeps ==
  ASSUME Inv, NEW c \in Clients, NEW t \in Tasks, SupersedeSkip(c, t)
  PROVE  Inv'
<1> DEFINE g == client[c]
           to == [g EXCEPT !.todo = @ \ {t}]
<1>1. g \in ClientRecord /\ g.pc = "supersede"
  BY Facts DEF SupersedeSkip
<1>2. Move(c, to) /\ UNCHANGED <<session, log, row, command, made, revived>>
  BY DEF SupersedeSkip, histories
<1> HIDE DEF g
<1>3. to \in ClientRecord /\ to.pc = "supersede"
  BY <1>1 DEF ClientRecord
<1> HIDE DEF to
<1> QED
  BY <1>2, <1>3, LightClient, StillKeeps DEF LoadedPcs

\* A row that has just been loaded is current.
LEMMA CreateReloadsKeeps ==
  ASSUME Inv, NEW c \in Clients, CreateReloads(c)
  PROVE  Inv'
<1> DEFINE r == Read(c, "attach")
           to == [r EXCEPT !.task = None]
<1>1. r \in ClientRecord /\ r.pc = "attach" /\ r.base = session
  BY ReadType DEF Steps
<1>2. Move(c, to) /\ UNCHANGED <<session, log, row, command, made, revived>>
  BY DEF CreateReloads, histories
<1> HIDE DEF r
<1>3. to \in ClientRecord /\ to.pc = "attach" /\ to.base = session
  BY <1>1 DEF ClientRecord
<1> HIDE DEF to
<1>4. GoodClient(to, session, log.cancelled, Over, command)
  BY <1>3 DEF GoodClient
<1> QED
  BY <1>2, <1>4, StillKeeps

LEMMA LoadsKeeps ==
  ASSUME Inv, NEW c \in Clients, CloseLoads(c) \/ AnswerLoads(c) \/ SettingsLoads(c)
  PROVE  Inv'
<1>1. ASSUME NEW pc \in {"close", "answer", "settings"}, Move(c, Read(c, pc)),
             UNCHANGED <<session, log, row, command, made, revived>>,
             pc = "close" => OnlyEnded(session, Over)
      PROVE  Inv'
  <2> DEFINE to == Read(c, pc)
  <2>1. to \in ClientRecord /\ to.pc = pc /\ to.base = session
    BY ReadType DEF Steps
  <2> HIDE DEF to
  <2>2. GoodClient(to, session, log.cancelled, Over, command)
    BY <1>1, <2>1 DEF GoodClient
  <2> QED
    BY <1>1, <2>2, StillKeeps DEF to
<1>2. CloseLoads(c) => OnlyEnded(session, Over)
  BY Facts DEF CloseLoads, SessionRow, OnlyEnded, Over
<1> QED
  BY <1>1, <1>2 DEF CloseLoads, AnswerLoads, SettingsLoads, histories

LEMMA InTurnLight ==
  ASSUME Inv, NEW c \in Clients
  PROVE  \A s, cancelled, over, commands :
           GoodClient(InTurn(client[c].task), s, cancelled, over, commands)
<1> DEFINE x == Idle
           t == client[c].task
           to == [x EXCEPT !.pc = "turn", !.task = t]
<1>1. t \in Tasks \cup {None} /\ x \in ClientRecord
  BY Facts, IdleLight DEF ClientRecord
<1> HIDE DEF t, x
<1>2. to \in ClientRecord /\ to.pc = "turn"
  BY <1>1 DEF ClientRecord, Steps
<1> HIDE DEF to
<1>3. \A s, cancelled, over, commands : GoodClient(to, s, cancelled, over, commands)
  BY <1>2, LightClient DEF LoadedPcs
<1> QED
  BY <1>3 DEF to, t, x, InTurn

LEMMA TurnKeeps ==
  ASSUME Inv, NEW c \in Clients,
         \/ StartTurn(c) \/ ResumeTurn(c)
         \/ StopTurn(c, "INTERRUPTED") \/ StopTurn(c, "AWAITING_USER")
  PROVE  Inv'
<1>1. \A over : GoodClient(InTurn(client[c].task), session, log.cancelled, over, command)
  BY InTurnLight
<1>2. {"EXECUTING", "INTERRUPTED", "AWAITING_USER"} \subseteq TaskState
  BY DEF TaskState
<1>3. CASE StartTurn(c)
  BY <1>1, <1>2, <1>3, TaskKeeps DEF StartTurn, Ended, histories
<1>4. CASE ResumeTurn(c)
  BY <1>1, <1>2, <1>4, TaskKeeps DEF ResumeTurn, Ended, histories
<1>5. ASSUME NEW next \in {"INTERRUPTED", "AWAITING_USER"}, StopTurn(c, next)
      PROVE  Inv'
  BY <1>2, <1>5, IdleLight, TaskKeeps DEF StopTurn, Forget, Ended, histories
<1> QED
  BY <1>3, <1>4, <1>5

LEMMA TaskStepKeeps ==
  ASSUME Inv, NEW c \in Clients, NEW t \in Tasks,
         AnswerUser(c, t, "turn") \/ AnswerUser(c, t, "approved") \/ CancelTask(c, t)
  PROVE  Inv'
<1>1. {"EXECUTING", "CANCELLED"} \subseteq TaskState
  BY DEF TaskState, Ended
<1>2. ASSUME NEW pc \in {"turn", "approved"}, AnswerUser(c, t, pc)
      PROVE  Inv'
  <2> DEFINE to == [Idle EXCEPT !.pc = pc, !.task = t]
  <2>1. \A over : GoodClient(to, session, log.cancelled, over, command)
    BY GoTaskLight DEF Steps, LoadedPcs
  <2>2. Move(c, to) /\ UNCHANGED <<session, log, command, made, revived>>
        /\ row[t] \notin Ended /\ row' = [row EXCEPT ![t] = "EXECUTING"]
    BY <1>2 DEF AnswerUser, histories, Ended
  <2> HIDE DEF to
  <2> QED
    BY <1>1, <2>1, <2>2, TaskKeeps
<1>3. CASE CancelTask(c, t)
  <2> DEFINE to == [Idle EXCEPT !.pc = "mirror", !.task = t]
  <2>1. \A over : GoodClient(to, session, log.cancelled, over, command)
    BY GoTaskLight DEF Steps, LoadedPcs
  <2>2. Move(c, to) /\ UNCHANGED <<session, log, command, made>>
        /\ row' = [row EXCEPT ![t] = "CANCELLED"] /\ revived' = revived \ {t}
    BY <1>3 DEF CancelTask, EndTask
  <2> HIDE DEF to
  <2>3. "CANCELLED" \in Ended
    BY DEF Ended
  <2> QED
    BY <1>1, <2>1, <2>2, <2>3, TaskKeeps
<1> QED
  BY <1>2, <1>3

\* The old row of an approval: a Task that had ended joins those taken back.
LEMMA RunApprovedKeeps ==
  ASSUME Inv, NEW c \in Clients, RunApproved(c)
  PROVE  Inv'
<1> DEFINE t == client[c].task
<1>1. "EXECUTING" \in TaskState
  BY DEF TaskState
<1>2. /\ Move(c, InTurn(t)) /\ UNCHANGED <<session, log, command, made>>
      /\ row' = [row EXCEPT ![t] = "EXECUTING"]
      /\ revived' = IF row[t] \in Ended THEN revived \cup {t} ELSE revived
  BY DEF RunApproved
<1>3. \A over : GoodClient(InTurn(t), session, log.cancelled, over, command)
  BY InTurnLight
<1> HIDE DEF t
<1>4. \/ row[t] \notin Ended /\ UNCHANGED revived
      \/ t \in revived' /\ revived \subseteq revived'
  BY <1>2
<1> QED
  BY <1>1, <1>2, <1>3, <1>4, TaskKeeps

LEMMA SettleKeeps ==
  ASSUME Inv, NEW c \in Clients, NEW t \in Tasks, Settle(c, t)
  PROVE  Inv'
<1>1. Move(c, client[c])
  BY DEF Settle, Move, Inv, ClientsGood
<1>2. client[c] \in ClientRecord /\ client[c].pc = "idle"
  BY Facts DEF Settle
<1>3. \A over : GoodClient(client[c], session, log.cancelled, over, command)
  BY <1>2, LightClient DEF LoadedPcs
<1>4. "INTERRUPTED" \in TaskState
  BY DEF TaskState
<1> QED
  BY <1>1, <1>3, <1>4, TaskKeeps DEF Settle, Ended, histories

LEMMA ForgetKeeps ==
  ASSUME Inv, NEW c \in Clients, ConsumeRetries(c) \/ Fails(c)
  PROVE  Inv'
BY IdleLight, StillKeeps DEF ConsumeRetries, Fails, Forget, histories

-----------------------------------------------------------------------------
(* The invariant and what follows from it.                                 *)

LEMMA InitInv == Init => Inv
<1> SUFFICES ASSUME Init PROVE Inv
  OBVIOUS
<1>1. Rows
  <2>1. NewSession \in SessionRow /\ NewSession.state = "ACTIVE" /\ 0 \in Menus
    BY NewSessionType, MaxChoicesAssumption DEF NewSession, Menus
  <2>2. log \in LogRecord /\ log.row = NewSession
    BY <2>1 DEF Init, LogRecord
  <2> QED
    BY <2>1, <2>2 DEF Init, Rows
<1>2. Tables
  BY DEF Init, Tables, TaskState
<1>3. ClientsGood
  BY IdleLight DEF Init, ClientsGood
<1> QED
  BY <1>1, <1>2, <1>3 DEF Inv

LEMMA StepInv == Inv /\ [Next]_vars => Inv'
<1> SUFFICES ASSUME Inv, [Next]_vars PROVE Inv'
  OBVIOUS
<1>1. ASSUME NEW c \in Clients, FollowUpSteps(c)
      PROVE  Inv'
  BY <1>1, QueueKeeps, UnqueueKeeps, ConsumeLoadsKeeps, ConsumeReplaysKeeps, ConsumeCreatesKeeps,
     ForgetKeeps DEF FollowUpSteps
<1>2. ASSUME NEW c \in Clients, BindSteps(c)
      PROVE  Inv'
  BY <1>2, PickFollowUpKeeps, SayKeeps, BindKeeps, BindToMenuKeeps, ClearMenuKeeps, SelectKeeps
     DEF BindSteps
<1>3. ASSUME NEW c \in Clients, CreateSteps(c)
      PROVE  Inv'
  BY <1>3, CreateReplaysKeeps, CreateLoadsKeeps, CreateReloadsKeeps, SupersedeCloseKeeps,
     SupersedeSkipKeeps, AttachKeeps, MarkDispatchedKeeps DEF CreateSteps
<1>4. ASSUME NEW c \in Clients, TurnSteps(c)
      PROVE  Inv'
  BY <1>4, TurnKeeps, FinishTurnKeeps, TaskStepKeeps, RunApprovedKeeps, SettleKeeps, MirrorKeeps, ForgetKeeps
     DEF TurnSteps
<1>5. ASSUME NEW c \in Clients, RowSteps(c)
      PROVE  Inv'
  BY <1>5, LoadsKeeps, CloseSessionKeeps, ArchiveSessionKeeps, AnswerMenuKeeps, ChooseSettingsKeeps
     DEF RowSteps
<1>6. CASE UNCHANGED vars
  <2>1. Over' = Over
    BY <1>6 DEF vars, Over, histories
  <2> QED
    BY <1>6, <2>1 DEF vars, histories, Inv, Rows, Tables, ClientsGood, OnlyEnded
<1> QED
  BY <1>1, <1>2, <1>3, <1>4, <1>5, <1>6 DEF Next

\* Everything known of a Session holds in every state of it: the types, the
\* freshness of the rows its clients hold, the commands.
THEOREM InvHolds == Spec => []Inv
BY InitInv, StepInv, PTL DEF Spec

\* No change of the Session is lost to another process (commit_session).
THEOREM NoLostUpdateHolds == Spec => []NoLostUpdate
<1>1. Inv => NoLostUpdate
  BY DEF Inv, Rows, NoLostUpdate
<1> QED
  BY <1>1, InvHolds, PTL

\* One Task at most is created for a follow-up, and the mark names it
\* (session_task_commands).
THEOREM OneTaskPerFollowUpHolds == Spec => []OneTaskPerFollowUp
<1>1. ASSUME Inv, NEW i \in Inputs
      PROVE  /\ Cardinality(made[i]) <= 1
             /\ log.taken[i] # None => made[i] = {log.taken[i]}
  <2>1. /\ made[i] = IF command[i] = None THEN {} ELSE {command[i]}
        /\ log.taken[i] = None \/ log.taken[i] = command[i]
    BY <1>1 DEF Inv, Tables
  <2>2. Cardinality(made[i]) \in {0, 1}
    BY <2>1, FS_EmptySet, FS_Singleton
  <2> QED
    BY <2>1, <2>2
<1>2. Inv => OneTaskPerFollowUp
  BY <1>1 DEF OneTaskPerFollowUp
<1> QED
  BY <1>2, InvHolds, PTL

\* A follow-up whose cancellation was confirmed is not consumed
\* (consume_queued_session_follow_up).
THEOREM CancelledNotConsumedHolds == Spec => []CancelledNotConsumed
<1>1. Inv => CancelledNotConsumed
  BY DEF Inv, Tables, CancelledNotConsumed
<1> QED
  BY <1>1, InvHolds, PTL

\* A closed Session holds no Task that could still run (close_session), but for one
\* that had ended and that the old row of an approval took back
\* (_execute_authorized_tool).
THEOREM ClosedHoldsOnlyEndedHolds == Spec => []ClosedHoldsOnlyEnded
<1>1. Inv => ClosedHoldsOnlyEnded
  BY DEF Inv, Rows, Over, OnlyEnded, ClosedHoldsOnlyEnded
<1> QED
  BY <1>1, InvHolds, PTL
=============================================================================
