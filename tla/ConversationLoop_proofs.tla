------------------------ MODULE ConversationLoop_proofs ------------------------
(***************************************************************************)
(* What holds of a Turn for any limits, any number of messages and any     *)
(* number of resumptions: the user sees one text of a round, and it is     *)
(* the one an event records; no request whose response has arrived is sent *)
(* again; every round that was not broken off is counted in the row; and   *)
(* the gates send a Turn back as often as their limits say.                *)
(***************************************************************************)
EXTENDS ConversationLoop, FiniteSetTheorems, TLAPS

-----------------------------------------------------------------------------
(* The inductive invariant.                                                *)

\* The text shown is that of the present attempt, and an attempt that may be made
\* again has shown nothing and has no response.
AttemptsGood ==
  /\ ui.text \subseteq {req.attempt}
  /\ drv.pc \in {"attempt", "post", "backoff"} => ui.text = {}
  /\ drv.pc = "stream" /\ ui.text # {} => req.visible
  /\ drv.pc \in {"attempt", "stream", "post", "backoff"} => req.resp = NoResponse
  /\ drv.pc = "backoff" => req.attempt < MaxAttempts
  /\ drv.pc = "failed" /\ (ui.text # {} \/ req.resp # NoResponse) =>
       req.why \in {"unsafe", "never"}

\* Until the text beside its calls is recorded nothing of a round is committed.
TextGood ==
  /\ IF ui.status = "committed" THEN logged = ui.text ELSE logged = {}
  /\ drv.pc \in RoundPlaces \ {"save"} => ui.status # "committed"

\* Where the response of the round has not been counted, and where it has but only
\* by the driver.
Uncounted == {"attempt", "stream", "post", "completed", "failed", "backoff", "modelfailed",
              "protocol", "check"}
Unsaved == {"candidate", "record", "commentary", "save", "gate", "review", "accept"}
Live == Places \ {"off", "raised"}

CallsGood ==
  /\ drv.pc \in Uncounted => drv.calls < MaxCalls /\ hist.rounds <= drv.calls + 1
  /\ drv.pc \in Live \ Uncounted => hist.rounds <= drv.calls
  /\ drv.pc \in Unsaved => drv.calls = row.calls + 1
  /\ drv.pc \in Live \ Unsaved => drv.calls = row.calls
  /\ drv.pc \notin Live => hist.rounds <= row.calls
  /\ drv.pc \in RoundPlaces => hist.rounds >= 1

\* The row is at most behind the driver, and each REPLACE gives what it clears.
ContinuationsGood ==
  /\ drv.pc \in Live => row.reviews <= drv.reviews /\ row.edits <= drv.edits
  /\ MaxReviews = 0 => hist.reviewed = 0
  /\ MaxReviews = 1 => hist.reviewed <= row.reviews + hist.replaced
  /\ hist.repaired <= row.edits + hist.replaced

Inv == TypeOK /\ AttemptsGood /\ TextGood /\ CallsGood /\ ContinuationsGood

-----------------------------------------------------------------------------
(* Types.                                                                  *)

Row == [state : {"EXECUTING", "INTERRUPTED", "CANCELLED", "FAILED", "AWAITING_INPUT"},
        ckpt : BOOLEAN, calls : 0..MaxCalls, reviews : 0..MaxReviews, edits : 0..1,
        batch : BOOLEAN]
Driver == [pc : Places, calls : 0..MaxCalls, reviews : 0..MaxReviews, edits : 0..1,
           soft : BOOLEAN]
Request == [attempt : 1..MaxAttempts, fallback : BOOLEAN, visible : BOOLEAN, why : Reasons,
            resp : Responses \cup {NoResponse}]
Text == [text : SUBSET (1..MaxAttempts), status : Statuses]
History == [rounds : Nat, reviewed : Nat, repaired : Nat, replaced : Nat, inputs : Nat,
            resumes : Nat]
Inboxes == {"none", "steer", "replace"}

LEMMA Types ==
  TypeOK <=> /\ row \in Row /\ drv \in Driver /\ req \in Request /\ ui \in Text
             /\ logged \subseteq 1..MaxAttempts /\ inbox \in Inboxes /\ hist \in History
BY DEF TypeOK, Row, Driver, Request, Text, History, Inboxes

\* _save_agent_checkpoint and persist_finalization_state change counters only.
LEMMA SavedTyped ==
  ASSUME row \in Row, NEW n \in 0..MaxCalls
  PROVE  Saved(n) \in Row /\ Saved(n).calls = n
         /\ Saved(n).reviews = row.reviews /\ Saved(n).edits = row.edits
BY DEF Saved, Row

LEMMA PersistedTyped ==
  ASSUME row \in Row, NEW d \in Driver
  PROVE  Persisted(d) \in Row /\ Persisted(d).calls = d.calls
         /\ Persisted(d).reviews = d.reviews /\ Persisted(d).edits = d.edits
<1>1. d.calls \in 0..MaxCalls /\ d.reviews \in 0..MaxReviews /\ d.edits \in 0..1
  BY DEF Driver
<1>2. Saved(d.calls) \in Row /\ Saved(d.calls).calls = d.calls
  BY <1>1, SavedTyped
<1> QED BY <1>1, <1>2 DEF Persisted, Row

\* The end of a driver's text.
LEMMA ClosedTyped ==
  ASSUME ui \in Text, NEW status \in Statuses, status # "committed"
  PROVE  /\ Marked(status) \in Text /\ Closed(status) \in Text
         /\ Closed(status).text = ui.text
         /\ Closed(status).status = "committed" <=> ui.status = "committed"
<1>1. Marked(status) \in Text /\ Marked(status).text = ui.text
  BY DEF Marked, Text
<1>2. Marked(status).status \in {ui.status, status}
  BY DEF Marked, Text
<1> QED BY <1>1, <1>2 DEF Closed

LEMMA CommittedTyped ==
  ASSUME ui \in Text
  PROVE  Marked("committed") \in Text /\ Marked("committed").text = ui.text
BY DEF Marked, Text, Statuses

LEMMA GotoTyped ==
  ASSUME drv \in Driver, NEW pc \in Places
  PROVE  /\ Goto(pc) \in Driver /\ Goto(pc).pc = pc /\ Goto(pc).calls = drv.calls
         /\ Goto(pc).reviews = drv.reviews /\ Goto(pc).edits = drv.edits
BY DEF Goto, Driver

LEMMA NoDriverTyped == NoDriver \in Driver /\ NoDriver.pc = "off"
BY LimitsAssumption, ReviewsAssumption DEF NoDriver, Driver, Places

LEMMA FailedTyped ==
  ASSUME row \in Row
  PROVE  /\ FailedRow \in Row /\ FailedRow.calls = row.calls
         /\ FailedRow.reviews = row.reviews /\ FailedRow.edits = row.edits
BY DEF FailedRow, Row

\* A round that is broken off was begun.
LEMMA BrokenOffTyped ==
  ASSUME hist \in History, CallsGood
  PROVE  /\ BrokenOff \in History /\ BrokenOff.reviewed = hist.reviewed
         /\ BrokenOff.repaired = hist.repaired /\ BrokenOff.replaced = hist.replaced
         /\ BrokenOff.rounds = hist.rounds - IF drv.pc \in RoundPlaces THEN 1 ELSE 0
<1>1. CASE drv.pc \in RoundPlaces
  <2>1. hist.rounds - 1 \in Nat
    BY <1>1 DEF CallsGood, History
  <2> QED BY <1>1, <2>1 DEF BrokenOff, History
<1>2. CASE drv.pc \notin RoundPlaces
  BY <1>2 DEF BrokenOff, History
<1> QED BY <1>1, <1>2

\* Steering applied at a safe point: the counters of the gates in the row stay, or are
\* cleared by a REPLACE that is counted.
LEMMA SteeredTyped ==
  ASSUME TypeOK, AppliesInbox
  PROVE  /\ row' \in Row /\ inbox' \in Inboxes /\ hist' \in History
         /\ row'.calls = drv.calls /\ hist'.rounds = hist.rounds
         /\ hist'.reviewed = hist.reviewed /\ hist'.repaired = hist.repaired
         /\ \/ row'.reviews = row.reviews /\ row'.edits = row.edits
               /\ hist'.replaced = hist.replaced
            \/ row'.reviews = 0 /\ row'.edits = 0 /\ hist'.replaced = hist.replaced + 1
<1>1. drv.calls \in 0..MaxCalls
  BY Types DEF Driver
<1>2. /\ Saved(drv.calls) \in Row /\ Saved(drv.calls).calls = drv.calls
      /\ Saved(drv.calls).reviews = row.reviews /\ Saved(drv.calls).edits = row.edits
  BY <1>1, Types, SavedTyped
<1>3. 0 \in 0..MaxReviews /\ 0 \in 0..1
  BY ReviewsAssumption
<1>4. CASE inbox = "replace"
  <2>1. row' = [Saved(drv.calls) EXCEPT !.reviews = 0, !.edits = 0]
    BY <1>4 DEF AppliesInbox, Steered
  <2>2. row' \in Row /\ row'.calls = drv.calls /\ row'.reviews = 0 /\ row'.edits = 0
    BY <1>2, <1>3, <2>1 DEF Row
  <2>3. hist' = [hist EXCEPT !.replaced = @ + 1] /\ inbox' = "none"
    BY <1>4 DEF AppliesInbox
  <2> QED BY <2>2, <2>3, Types DEF History, Inboxes
<1>5. CASE inbox # "replace"
  <2>1. row' = Saved(drv.calls)
    BY <1>5 DEF AppliesInbox, Steered
  <2>2. hist' = [hist EXCEPT !.replaced = @ + 0] /\ inbox' = "none"
    BY <1>5 DEF AppliesInbox
  <2> QED BY <1>2, <2>1, <2>2, Types DEF History, Inboxes
<1> QED BY <1>4, <1>5

LEMMA TypesNext ==
  TypeOK' <=> /\ row' \in Row /\ drv' \in Driver /\ req' \in Request /\ ui' \in Text
              /\ logged' \subseteq 1..MaxAttempts /\ inbox' \in Inboxes /\ hist' \in History
BY DEF TypeOK, Row, Driver, Request, Text, History, Inboxes

-----------------------------------------------------------------------------
(* What several actions do.                                                *)

LEMMA PartialKeeps ==
  ASSUME Inv, Partial, drv.pc \in {"budget", "gate", "review"}
  PROVE  Inv'
<1>1. drv \in Driver /\ row \in Row /\ ui \in Text /\ hist \in History
  BY Types DEF Inv
<1>2. /\ row' \in Row /\ row'.calls = drv.calls
      /\ row'.reviews = drv.reviews /\ row'.edits = drv.edits
  BY <1>1, PersistedTyped DEF Partial
<1>3. drv' \in Driver /\ drv'.pc = "off"
  BY NoDriverTyped DEF Partial
<1>4. ui' \in Text /\ ui'.text = ui.text /\ (ui'.status = "committed" <=> ui.status = "committed")
  BY <1>1, ClosedTyped DEF Partial, Statuses
<1>5. UNCHANGED <<req, logged, inbox, hist>>
  BY DEF Partial
<1>6. TypeOK'
  BY <1>2, <1>3, <1>4, <1>5, Types, TypesNext DEF Inv
<1>7. AttemptsGood'
  BY <1>3, <1>4, <1>5 DEF Inv, AttemptsGood
<1>8. TextGood'
  BY <1>3, <1>4, <1>5 DEF Inv, TextGood, RoundPlaces
<1>9. CallsGood'
  BY <1>1, <1>2, <1>3, <1>5 DEF Inv, CallsGood, Uncounted, Unsaved, Live, Places, RoundPlaces
<1>10. ContinuationsGood'
  <2>1. row.reviews <= drv.reviews /\ row.edits <= drv.edits
    BY DEF Inv, ContinuationsGood, Live, Places, RoundPlaces
  <2> QED BY <1>1, <1>2, <1>3, <1>5, <2>1 DEF Inv, ContinuationsGood, Live, Row, Driver, History
<1> QED BY <1>6, <1>7, <1>8, <1>9, <1>10 DEF Inv

\* A continuation is counted in `d` as it is in the history.
LEMMA ContinuationKeeps ==
  ASSUME Inv, NEW d \in Driver, Continuation(d), drv.pc \in {"gate", "review"},
         d.calls = drv.calls, d.reviews >= drv.reviews, d.edits >= drv.edits,
         hist' \in History, hist'.rounds = hist.rounds, hist'.replaced = hist.replaced,
         hist'.reviewed = hist.reviewed + (d.reviews - drv.reviews),
         hist'.repaired = hist.repaired + (d.edits - drv.edits)
  PROVE  Inv'
<1>1. drv \in Driver /\ row \in Row /\ ui \in Text /\ hist \in History
  BY Types DEF Inv
<1>2. /\ row' \in Row /\ row'.calls = drv.calls
      /\ row'.reviews = d.reviews /\ row'.edits = d.edits
  BY PersistedTyped, <1>1 DEF Continuation
<1>3. /\ drv' \in Driver /\ drv'.pc = "boundary" /\ drv'.calls = drv.calls
      /\ drv'.reviews = d.reviews /\ drv'.edits = d.edits
  BY DEF Continuation, Driver, Places
<1>4. ui' \in Text /\ ui'.text = ui.text /\ (ui'.status = "committed" <=> ui.status = "committed")
  BY <1>1, ClosedTyped DEF Continuation, Statuses
<1>5. UNCHANGED <<req, logged, inbox>>
  BY DEF Continuation
<1>6. TypeOK'
  BY <1>2, <1>3, <1>4, <1>5, Types, TypesNext DEF Inv
<1>7. AttemptsGood'
  BY <1>3, <1>4, <1>5 DEF Inv, AttemptsGood
<1>8. TextGood'
  BY <1>3, <1>4, <1>5 DEF Inv, TextGood, RoundPlaces
<1>9. CallsGood'
  BY <1>1, <1>2, <1>3 DEF Inv, CallsGood, Uncounted, Unsaved, Live, Places, RoundPlaces
<1>10. ContinuationsGood'
  <2>1. row.reviews <= drv.reviews /\ row.edits <= drv.edits
    BY DEF Inv, ContinuationsGood, Live, Places, RoundPlaces
  <2>2. MaxReviews = 0 => d.reviews = 0 /\ drv.reviews = 0
    BY <1>1 DEF Driver
  <2> QED BY <1>1, <1>2, <1>3, <2>1, <2>2
       DEF Inv, ContinuationsGood, Row, Driver, History
<1> QED BY <1>6, <1>7, <1>8, <1>9, <1>10 DEF Inv

-----------------------------------------------------------------------------
(* Between the rounds.                                                     *)

LEMMA BetweenRoundsKeeps == Inv /\ BetweenRounds => Inv'
<1> SUFFICES ASSUME Inv, BetweenRounds PROVE Inv'
  OBVIOUS
<1> USE LimitsAssumption, ReviewsAssumption, BoundsAssumption DEF Inv
<1>1. CASE Boundary
  <2>1. TypeOK'
    <3>1. drv' \in Driver
      BY <1>1, Types, GotoTyped DEF Boundary, Places, RoundPlaces
    <3>2. row' \in Row /\ inbox' \in Inboxes /\ hist' \in History
      BY <1>1, Types, SteeredTyped DEF Boundary
    <3>3. UNCHANGED <<req, ui, logged>>
      BY <1>1 DEF Boundary, shown
    <3> QED BY <3>1, <3>2, <3>3, Types, TypesNext
  <2>2. AttemptsGood'
    BY <1>1 DEF Boundary, AppliesInbox, Steered, Saved, Goto, shown, TypeOK, AttemptsGood
  <2>3. TextGood'
    BY <1>1
       DEF Boundary, AppliesInbox, Steered, Saved, Goto, shown, TypeOK, TextGood, RoundPlaces,
           Places
  <2>4. CallsGood'
    <3>1. drv.pc = "boundary" /\ drv' = Goto("budget") /\ "budget" \in Places
      BY <1>1 DEF Boundary, Places
    <3>2. drv'.pc = "budget" /\ drv'.calls = drv.calls
      BY <3>1, Types, GotoTyped
    <3>3. drv.calls = row.calls /\ hist.rounds <= drv.calls
      BY <3>1 DEF CallsGood, Live, Places, Unsaved, Uncounted
    <3>4. row'.calls = drv.calls /\ hist'.rounds = hist.rounds
      BY <1>1, <3>3, SteeredTyped DEF Boundary
    <3> QED BY <3>2, <3>3, <3>4 DEF CallsGood, Uncounted, Unsaved, RoundPlaces
  <2>5. ContinuationsGood'
    <3>1. drv' = Goto("budget") /\ drv'.reviews = drv.reviews /\ drv'.edits = drv.edits
      BY <1>1, Types, GotoTyped DEF Boundary, Places, RoundPlaces
    <3>2. row.reviews <= drv.reviews /\ row.edits <= drv.edits
      BY <1>1 DEF Boundary, ContinuationsGood, Live, Places, RoundPlaces
    <3>3. CASE AppliesInbox
      BY <3>1, <3>2, <3>3, Types, SteeredTyped DEF ContinuationsGood, Row, Driver, History
    <3>4. CASE UNCHANGED <<row, hist>>
      BY <3>1, <3>2, <3>4 DEF ContinuationsGood
    <3> QED BY <1>1, <3>3, <3>4 DEF Boundary
  <2> QED BY <2>1, <2>2, <2>3, <2>4, <2>5
<1>2. CASE BudgetSpent
  BY <1>2, PartialKeeps DEF BudgetSpent
<1>3. CASE StartRound
  <2>1. TypeOK'
    BY <1>3
       DEF StartRound, NewRequest, NothingShown, Goto, shown, TypeOK, Places, RoundPlaces,
           Statuses, Reasons, SafeToRetry
  <2>2. AttemptsGood'
    BY <1>3 DEF StartRound, NewRequest, NothingShown, Goto, shown, TypeOK, AttemptsGood
  <2>3. TextGood'
    BY <1>3
       DEF StartRound, NewRequest, NothingShown, Goto, shown, TypeOK, TextGood, RoundPlaces,
           Places
  <2>4. CallsGood'
    BY <1>3
       DEF StartRound, NewRequest, NothingShown, Goto, shown, TypeOK, CallsGood, RoundPlaces,
           Places, Uncounted, Unsaved, Live
  <2>5. ContinuationsGood'
    BY <1>3
       DEF StartRound, NewRequest, NothingShown, Goto, shown, TypeOK, ContinuationsGood, Live,
           Places, RoundPlaces
  <2> QED BY <2>1, <2>2, <2>3, <2>4, <2>5
<1> QED BY <1>1, <1>2, <1>3 DEF BetweenRounds

-----------------------------------------------------------------------------
(* The attempts of a round.                                                *)

LEMMA AttemptsKeeps == Inv /\ Attempts => Inv'
<1> SUFFICES ASSUME Inv, Attempts PROVE Inv'
  OBVIOUS
<1> USE LimitsAssumption, ReviewsAssumption, BoundsAssumption DEF Inv
<1>1. CASE SendAttempt
  <2>1. TypeOK'
    BY <1>1
       DEF SendAttempt, Goto, shown, TypeOK, Places, RoundPlaces, Statuses, Reasons, SafeToRetry
  <2>2. AttemptsGood'
    BY <1>1 DEF SendAttempt, Goto, shown, TypeOK, AttemptsGood
  <2>3. TextGood'
    BY <1>1 DEF SendAttempt, Goto, shown, TypeOK, TextGood, RoundPlaces, Places
  <2>4. CallsGood'
    BY <1>1
       DEF SendAttempt, Goto, shown, TypeOK, CallsGood, RoundPlaces, Places, Uncounted, Unsaved,
           Live
  <2>5. ContinuationsGood'
    BY <1>1 DEF SendAttempt, Goto, shown, TypeOK, ContinuationsGood, Live, Places, RoundPlaces
  <2> QED BY <2>1, <2>2, <2>3, <2>4, <2>5
<1>2. CASE Delta
  <2>1. TypeOK'
    <3>1. req' \in Request
      BY <1>2, Types DEF Delta, Request
    <3>2. ui' \in Text
      BY <1>2, Types DEF Delta, Text, Request, Statuses
    <3>3. UNCHANGED <<row, drv, logged, inbox, hist>>
      BY <1>2 DEF Delta
    <3> QED BY <3>1, <3>2, <3>3, Types, TypesNext
  <2>2. AttemptsGood'
    BY <1>2 DEF Delta, shown, TypeOK, AttemptsGood
  <2>3. TextGood'
    BY <1>2 DEF Delta, shown, TypeOK, TextGood, RoundPlaces, Places
  <2>4. CallsGood'
    BY <1>2 DEF Delta, shown, TypeOK, CallsGood, RoundPlaces, Places, Uncounted, Unsaved, Live
  <2>5. ContinuationsGood'
    BY <1>2 DEF Delta, shown, TypeOK, ContinuationsGood, Live, Places, RoundPlaces
  <2> QED BY <2>1, <2>2, <2>3, <2>4, <2>5
<1>3. CASE StreamCompletes
  <2>1. TypeOK'
    <3>1. req' \in Request
      BY <1>3, Types DEF StreamCompletes, Request, Responses
    <3>2. ui' \in Text
      BY <1>3, Types DEF StreamCompletes, Text, Request, Statuses
    <3>3. drv' \in Driver
      BY <1>3, Types, GotoTyped DEF StreamCompletes, Places, RoundPlaces
    <3>4. UNCHANGED <<row, logged, inbox, hist>>
      BY <1>3 DEF StreamCompletes
    <3> QED BY <3>1, <3>2, <3>3, <3>4, Types, TypesNext
  <2>2. AttemptsGood'
    BY <1>3 DEF StreamCompletes, Goto, shown, TypeOK, AttemptsGood
  <2>3. TextGood'
    BY <1>3 DEF StreamCompletes, Goto, shown, TypeOK, TextGood, RoundPlaces, Places
  <2>4. CallsGood'
    BY <1>3
       DEF StreamCompletes, Goto, shown, TypeOK, CallsGood, RoundPlaces, Places, Uncounted,
           Unsaved, Live
  <2>5. ContinuationsGood'
    BY <1>3 DEF StreamCompletes, Goto, shown, TypeOK, ContinuationsGood, Live, Places, RoundPlaces
  <2> QED BY <2>1, <2>2, <2>3, <2>4, <2>5
<1>4. CASE PostCompletes
  <2>1. TypeOK'
    BY <1>4
       DEF PostCompletes, Goto, shown, TypeOK, Places, RoundPlaces, Statuses, Reasons,
           SafeToRetry
  <2>2. AttemptsGood'
    BY <1>4 DEF PostCompletes, Goto, shown, TypeOK, AttemptsGood
  <2>3. TextGood'
    BY <1>4 DEF PostCompletes, Goto, shown, TypeOK, TextGood, RoundPlaces, Places
  <2>4. CallsGood'
    BY <1>4
       DEF PostCompletes, Goto, shown, TypeOK, CallsGood, RoundPlaces, Places, Uncounted,
           Unsaved, Live
  <2>5. ContinuationsGood'
    BY <1>4 DEF PostCompletes, Goto, shown, TypeOK, ContinuationsGood, Live, Places, RoundPlaces
  <2> QED BY <2>1, <2>2, <2>3, <2>4, <2>5
<1>5. CASE AttemptFails
  <2>1. TypeOK'
    BY <1>5
       DEF AttemptFails, Goto, FailedFor, shown, TypeOK, Places, RoundPlaces, Statuses, Reasons,
           SafeToRetry
  <2>2. AttemptsGood'
    BY <1>5 DEF AttemptFails, Goto, FailedFor, shown, TypeOK, AttemptsGood
  <2>3. TextGood'
    BY <1>5 DEF AttemptFails, Goto, FailedFor, shown, TypeOK, TextGood, RoundPlaces, Places
  <2>4. CallsGood'
    BY <1>5
       DEF AttemptFails, Goto, FailedFor, shown, TypeOK, CallsGood, RoundPlaces, Places,
           Uncounted, Unsaved, Live
  <2>5. ContinuationsGood'
    BY <1>5
       DEF AttemptFails, Goto, FailedFor, shown, TypeOK, ContinuationsGood, Live, Places,
           RoundPlaces
  <2> QED BY <2>1, <2>2, <2>3, <2>4, <2>5
<1>6. CASE AdapterRejectsCalls
  <2>1. TypeOK'
    BY <1>6
       DEF AdapterRejectsCalls, Goto, shown, TypeOK, Places, RoundPlaces, Statuses, Reasons,
           SafeToRetry
  <2>2. AttemptsGood'
    BY <1>6 DEF AdapterRejectsCalls, Goto, shown, TypeOK, AttemptsGood
  <2>3. TextGood'
    BY <1>6 DEF AdapterRejectsCalls, Goto, shown, TypeOK, TextGood, RoundPlaces, Places
  <2>4. CallsGood'
    BY <1>6
       DEF AdapterRejectsCalls, Goto, shown, TypeOK, CallsGood, RoundPlaces, Places, Uncounted,
           Unsaved, Live
  <2>5. ContinuationsGood'
    BY <1>6
       DEF AdapterRejectsCalls, Goto, shown, TypeOK, ContinuationsGood, Live, Places, RoundPlaces
  <2> QED BY <2>1, <2>2, <2>3, <2>4, <2>5
<1>7. CASE AnswerNoted
  <2>1. TypeOK'
    BY <1>7
       DEF AnswerNoted, Goto, shown, TypeOK, Places, RoundPlaces, Statuses, Reasons, SafeToRetry
  <2>2. AttemptsGood'
    BY <1>7 DEF AnswerNoted, Goto, shown, TypeOK, AttemptsGood
  <2>3. TextGood'
    BY <1>7 DEF AnswerNoted, Goto, shown, TypeOK, TextGood, RoundPlaces, Places
  <2>4. CallsGood'
    BY <1>7
       DEF AnswerNoted, Goto, shown, TypeOK, CallsGood, RoundPlaces, Places, Uncounted, Unsaved,
           Live
  <2>5. ContinuationsGood'
    BY <1>7 DEF AnswerNoted, Goto, shown, TypeOK, ContinuationsGood, Live, Places, RoundPlaces
  <2> QED BY <2>1, <2>2, <2>3, <2>4, <2>5
<1>8. CASE AnswerNotNoted
  <2>1. TypeOK'
    BY <1>8
       DEF AnswerNotNoted, Goto, FailedFor, shown, TypeOK, Places, RoundPlaces, Statuses,
           Reasons, SafeToRetry
  <2>2. AttemptsGood'
    BY <1>8 DEF AnswerNotNoted, Goto, FailedFor, shown, TypeOK, AttemptsGood
  <2>3. TextGood'
    BY <1>8 DEF AnswerNotNoted, Goto, FailedFor, shown, TypeOK, TextGood, RoundPlaces, Places
  <2>4. CallsGood'
    BY <1>8
       DEF AnswerNotNoted, Goto, FailedFor, shown, TypeOK, CallsGood, RoundPlaces, Places,
           Uncounted, Unsaved, Live
  <2>5. ContinuationsGood'
    BY <1>8
       DEF AnswerNotNoted, Goto, FailedFor, shown, TypeOK, ContinuationsGood, Live, Places,
           RoundPlaces
  <2> QED BY <2>1, <2>2, <2>3, <2>4, <2>5
<1>9. CASE Decide
  <2>1. TypeOK'
    <3>1. req' \in Request
      BY <1>9, Types DEF Decide, Request
    <3>2. drv' \in Driver
      BY <1>9, Types, GotoTyped DEF Decide, Places, RoundPlaces
    <3>3. UNCHANGED <<row, ui, logged, inbox, hist>>
      BY <1>9 DEF Decide
    <3> QED BY <3>1, <3>2, <3>3, Types, TypesNext
  <2>2. AttemptsGood'
    <3>1. /\ ui' = ui /\ drv.pc = "failed" /\ req.attempt \in 1..MaxAttempts
          /\ req'.attempt = req.attempt /\ req'.resp = req.resp
      BY <1>9, Types DEF Decide, Request
    <3>2. CASE Decision = "stop"
      <4>1. drv'.pc = "modelfailed"
        BY <1>9, <3>2, Types, GotoTyped DEF Decide, Places, RoundPlaces
      <4> QED BY <3>1, <4>1 DEF AttemptsGood
    <3>3. CASE Decision # "stop"
      <4>1. drv'.pc = "backoff"
        BY <1>9, <3>3, Types, GotoTyped DEF Decide, Places, RoundPlaces
      <4>2. ~(req.why \in {"unsafe", "never"} \/ req.attempt >= MaxAttempts)
        BY <3>3 DEF Decision
      <4>3. req.attempt < MaxAttempts
        BY <3>1, <4>2, LimitsAssumption
      <4> QED BY <3>1, <4>1, <4>2, <4>3 DEF AttemptsGood
    <3> QED BY <3>2, <3>3
  <2>3. TextGood'
    BY <1>9 DEF Decide, Goto, Decision, shown, TypeOK, TextGood, RoundPlaces, Places
  <2>4. CallsGood'
    BY <1>9
       DEF Decide, Goto, Decision, shown, TypeOK, CallsGood, RoundPlaces, Places, Uncounted,
           Unsaved, Live
  <2>5. ContinuationsGood'
    BY <1>9 DEF Decide, Goto, Decision, shown, TypeOK, ContinuationsGood, Live, Places, RoundPlaces
  <2> QED BY <2>1, <2>2, <2>3, <2>4, <2>5
<1>10. CASE Retry
  <2>1. TypeOK'
    <3>1. req.attempt + 1 \in 1..MaxAttempts
      BY <1>10, Types DEF AttemptsGood, Retry, Request
    <3>2. req' \in Request
      BY <1>10, <3>1, Types DEF Retry, Request, Reasons
    <3>3. drv' \in Driver
      BY <1>10, Types, GotoTyped DEF Retry, Places, RoundPlaces
    <3>4. UNCHANGED <<row, ui, logged, inbox, hist>>
      BY <1>10 DEF Retry
    <3> QED BY <3>1, <3>2, <3>3, <3>4, Types, TypesNext
  <2>2. AttemptsGood'
    BY <1>10 DEF Retry, Goto, shown, TypeOK, AttemptsGood
  <2>3. TextGood'
    BY <1>10 DEF Retry, Goto, shown, TypeOK, TextGood, RoundPlaces, Places
  <2>4. CallsGood'
    BY <1>10
       DEF Retry, Goto, shown, TypeOK, CallsGood, RoundPlaces, Places, Uncounted, Unsaved, Live
  <2>5. ContinuationsGood'
    BY <1>10 DEF Retry, Goto, shown, TypeOK, ContinuationsGood, Live, Places, RoundPlaces
  <2> QED BY <2>1, <2>2, <2>3, <2>4, <2>5
<1>11. CASE AttemptNotNoted
  <2>1. TypeOK'
    BY <1>11
       DEF AttemptNotNoted, Goto, shown, TypeOK, Places, RoundPlaces, Statuses, Reasons,
           SafeToRetry
  <2>2. AttemptsGood'
    BY <1>11 DEF AttemptNotNoted, Goto, shown, TypeOK, AttemptsGood
  <2>3. TextGood'
    BY <1>11 DEF AttemptNotNoted, Goto, shown, TypeOK, TextGood, RoundPlaces, Places
  <2>4. CallsGood'
    BY <1>11
       DEF AttemptNotNoted, Goto, shown, TypeOK, CallsGood, RoundPlaces, Places, Uncounted,
           Unsaved, Live
  <2>5. ContinuationsGood'
    BY <1>11 DEF AttemptNotNoted, Goto, shown, TypeOK, ContinuationsGood, Live, Places, RoundPlaces
  <2> QED BY <2>1, <2>2, <2>3, <2>4, <2>5
<1> QED BY <1>1, <1>2, <1>3, <1>4, <1>5, <1>6, <1>7, <1>8, <1>9, <1>10, <1>11 DEF Attempts

-----------------------------------------------------------------------------
(* What the loop makes of the response.                                    *)

LEMMA HandlesResponseKeeps == Inv /\ HandlesResponse => Inv'
<1> SUFFICES ASSUME Inv, HandlesResponse PROVE Inv'
  OBVIOUS
<1> USE LimitsAssumption, ReviewsAssumption, BoundsAssumption DEF Inv
<1>1. CASE Unusable
  <2>1. TypeOK'
    BY <1>1
       DEF Unusable, Goto, Malformed, shown, TypeOK, Places, RoundPlaces, Statuses, Reasons,
           SafeToRetry
  <2>2. AttemptsGood'
    BY <1>1 DEF Unusable, Goto, Malformed, shown, TypeOK, AttemptsGood
  <2>3. TextGood'
    BY <1>1 DEF Unusable, Goto, Malformed, shown, TypeOK, TextGood, RoundPlaces, Places
  <2>4. CallsGood'
    BY <1>1
       DEF Unusable, Goto, Malformed, shown, TypeOK, CallsGood, RoundPlaces, Places, Uncounted,
           Unsaved, Live
  <2>5. ContinuationsGood'
    BY <1>1
       DEF Unusable, Goto, Malformed, shown, TypeOK, ContinuationsGood, Live, Places, RoundPlaces
  <2> QED BY <2>1, <2>2, <2>3, <2>4, <2>5
<1>2. CASE RejectsCalls
  <2>1. TypeOK'
    BY <1>2
       DEF RejectsCalls, Goto, shown, TypeOK, Places, RoundPlaces, Statuses, Reasons, SafeToRetry
  <2>2. AttemptsGood'
    BY <1>2 DEF RejectsCalls, Goto, shown, TypeOK, AttemptsGood
  <2>3. TextGood'
    BY <1>2 DEF RejectsCalls, Goto, shown, TypeOK, TextGood, RoundPlaces, Places
  <2>4. CallsGood'
    BY <1>2
       DEF RejectsCalls, Goto, shown, TypeOK, CallsGood, RoundPlaces, Places, Uncounted,
           Unsaved, Live
  <2>5. ContinuationsGood'
    BY <1>2 DEF RejectsCalls, Goto, shown, TypeOK, ContinuationsGood, Live, Places, RoundPlaces
  <2> QED BY <2>1, <2>2, <2>3, <2>4, <2>5
<1>3. CASE Correct
  <2>1. TypeOK'
    <3>1. drv.calls + 1 \in 0..MaxCalls
      BY <1>3, Types DEF Correct, CallsGood, Uncounted, Driver
    <3>2. row' \in Row
      BY <1>3, <3>1, Types, SavedTyped DEF Correct
    <3>3. drv' \in Driver
      BY <1>3, <3>1, Types, GotoTyped DEF Correct, Driver, Places, RoundPlaces
    <3>4. ui' \in Text
      BY <1>3, Types, ClosedTyped DEF Correct, Statuses
    <3>5. UNCHANGED <<req, logged, inbox, hist>>
      BY <1>3 DEF Correct
    <3> QED BY <3>1, <3>2, <3>3, <3>4, <3>5, Types, TypesNext
  <2>2. AttemptsGood'
    BY <1>3 DEF Correct, Goto, Saved, Closed, Marked, shown, TypeOK, AttemptsGood
  <2>3. TextGood'
    BY <1>3 DEF Correct, Goto, Saved, Closed, Marked, shown, TypeOK, TextGood, RoundPlaces, Places
  <2>4. CallsGood'
    BY <1>3
       DEF Correct, Goto, Saved, Closed, Marked, shown, TypeOK, CallsGood, RoundPlaces, Places,
           Uncounted, Unsaved, Live
  <2>5. ContinuationsGood'
    BY <1>3
       DEF Correct, Goto, Saved, Closed, Marked, shown, TypeOK, ContinuationsGood, Live, Places,
           RoundPlaces
  <2> QED BY <2>1, <2>2, <2>3, <2>4, <2>5
<1>4. CASE Accepts
  <2>1. TypeOK'
    <3>1. drv.calls + 1 \in 0..MaxCalls
      BY <1>4, Types DEF Accepts, CallsGood, Uncounted, Driver
    <3>2. \A pc \in {"record", "candidate"} : [Goto(pc) EXCEPT !.calls = @ + 1] \in Driver
      BY <3>1, Types, GotoTyped DEF Driver, Places, RoundPlaces
    <3>3. drv' \in Driver
      BY <1>4, <3>2 DEF Accepts
    <3>4. ui' \in Text
      BY <1>4, Types DEF Accepts, Text, Request, Statuses
    <3>5. UNCHANGED <<row, req, logged, inbox, hist>>
      BY <1>4 DEF Accepts
    <3> QED BY <3>1, <3>2, <3>3, <3>4, <3>5, Types, TypesNext
  <2>2. AttemptsGood'
    BY <1>4 DEF Accepts, Goto, shown, TypeOK, AttemptsGood
  <2>3. TextGood'
    BY <1>4 DEF Accepts, Goto, shown, TypeOK, TextGood, RoundPlaces, Places
  <2>4. CallsGood'
    BY <1>4
       DEF Accepts, Goto, shown, TypeOK, CallsGood, RoundPlaces, Places, Uncounted, Unsaved, Live
  <2>5. ContinuationsGood'
    BY <1>4 DEF Accepts, Goto, shown, TypeOK, ContinuationsGood, Live, Places, RoundPlaces
  <2> QED BY <2>1, <2>2, <2>3, <2>4, <2>5
<1>5. CASE Supersede
  <2>1. TypeOK'
    <3>1. drv' \in Driver
      BY <1>5, Types, GotoTyped DEF Supersede, Places, RoundPlaces
    <3>2. row' \in Row /\ inbox' \in Inboxes /\ hist' \in History
      BY <1>5, Types, SteeredTyped DEF Supersede
    <3>3. ui' \in Text
      BY <1>5, Types, ClosedTyped DEF Supersede, Statuses
    <3>4. UNCHANGED <<req, logged>>
      BY <1>5 DEF Supersede
    <3> QED BY <3>1, <3>2, <3>3, <3>4, Types, TypesNext
  <2>2. AttemptsGood'
    BY <1>5
       DEF Supersede, Goto, AppliesInbox, Steered, Saved, Closed, Marked, shown, TypeOK,
           AttemptsGood
  <2>3. TextGood'
    BY <1>5
       DEF Supersede, Goto, AppliesInbox, Steered, Saved, Closed, Marked, shown, TypeOK,
           TextGood, RoundPlaces, Places
  <2>4. CallsGood'
    BY <1>5
       DEF Supersede, Goto, AppliesInbox, Steered, Saved, Closed, Marked, shown, TypeOK,
           CallsGood, RoundPlaces, Places, Uncounted, Unsaved, Live
  <2>5. ContinuationsGood'
    BY <1>5
       DEF Supersede, Goto, AppliesInbox, Steered, Saved, Closed, Marked, shown, TypeOK,
           ContinuationsGood, Live, Places, RoundPlaces
  <2> QED BY <2>1, <2>2, <2>3, <2>4, <2>5
<1>6. CASE NotSuperseded
  <2>1. TypeOK'
    BY <1>6
       DEF NotSuperseded, Goto, shown, TypeOK, Places, RoundPlaces, Statuses, Reasons,
           SafeToRetry
  <2>2. AttemptsGood'
    BY <1>6 DEF NotSuperseded, Goto, shown, TypeOK, AttemptsGood
  <2>3. TextGood'
    BY <1>6 DEF NotSuperseded, Goto, shown, TypeOK, TextGood, RoundPlaces, Places
  <2>4. CallsGood'
    BY <1>6
       DEF NotSuperseded, Goto, shown, TypeOK, CallsGood, RoundPlaces, Places, Uncounted,
           Unsaved, Live
  <2>5. ContinuationsGood'
    BY <1>6 DEF NotSuperseded, Goto, shown, TypeOK, ContinuationsGood, Live, Places, RoundPlaces
  <2> QED BY <2>1, <2>2, <2>3, <2>4, <2>5
<1>7. CASE Record
  <2>1. TypeOK'
    BY <1>7 DEF Record, Goto, shown, TypeOK, Places, RoundPlaces, Statuses, Reasons, SafeToRetry
  <2>2. AttemptsGood'
    BY <1>7 DEF Record, Goto, shown, TypeOK, AttemptsGood
  <2>3. TextGood'
    BY <1>7 DEF Record, Goto, shown, TypeOK, TextGood, RoundPlaces, Places
  <2>4. CallsGood'
    BY <1>7
       DEF Record, Goto, shown, TypeOK, CallsGood, RoundPlaces, Places, Uncounted, Unsaved, Live
  <2>5. ContinuationsGood'
    BY <1>7 DEF Record, Goto, shown, TypeOK, ContinuationsGood, Live, Places, RoundPlaces
  <2> QED BY <2>1, <2>2, <2>3, <2>4, <2>5
<1>8. CASE Commentary
  <2>1. TypeOK'
    BY <1>8
       DEF Commentary, Goto, Marked, shown, TypeOK, Places, RoundPlaces, Statuses, Reasons,
           SafeToRetry
  <2>2. AttemptsGood'
    BY <1>8 DEF Commentary, Goto, Marked, shown, TypeOK, AttemptsGood
  <2>3. TextGood'
    BY <1>8 DEF Commentary, Goto, Marked, shown, TypeOK, TextGood, RoundPlaces, Places
  <2>4. CallsGood'
    BY <1>8
       DEF Commentary, Goto, Marked, shown, TypeOK, CallsGood, RoundPlaces, Places, Uncounted,
           Unsaved, Live
  <2>5. ContinuationsGood'
    BY <1>8
       DEF Commentary, Goto, Marked, shown, TypeOK, ContinuationsGood, Live, Places, RoundPlaces
  <2> QED BY <2>1, <2>2, <2>3, <2>4, <2>5
<1>9. CASE SaveCalls
  <2>1. TypeOK'
    <3>1. drv' \in Driver
      BY <1>9, Types, GotoTyped DEF SaveCalls, Places, RoundPlaces
    <3>2. row' \in Row
      <4>1. row \in Row /\ drv.calls \in 0..MaxCalls
        BY Types DEF Driver
      <4>2. Saved(drv.calls) \in Row
        BY <4>1, SavedTyped
      <4> QED BY <1>9, <4>2 DEF SaveCalls, Row
    <3>3. UNCHANGED <<req, ui, logged, inbox, hist>>
      BY <1>9 DEF SaveCalls, shown
    <3> QED BY <3>1, <3>2, <3>3, Types, TypesNext
  <2>2. AttemptsGood'
    BY <1>9 DEF SaveCalls, Goto, Saved, shown, TypeOK, AttemptsGood
  <2>3. TextGood'
    BY <1>9 DEF SaveCalls, Goto, Saved, shown, TypeOK, TextGood, RoundPlaces, Places
  <2>4. CallsGood'
    BY <1>9
       DEF SaveCalls, Goto, Saved, shown, TypeOK, CallsGood, RoundPlaces, Places, Uncounted,
           Unsaved, Live
  <2>5. ContinuationsGood'
    BY <1>9 DEF SaveCalls, Goto, Saved, shown, TypeOK, ContinuationsGood, Live, Places, RoundPlaces
  <2> QED BY <2>1, <2>2, <2>3, <2>4, <2>5
<1>10. CASE RunBatch
  <2>1. TypeOK'
    <3>1. drv' \in Driver
      BY <1>10, Types, GotoTyped DEF RunBatch, Places, RoundPlaces
    <3>2. row' \in Row
      <4>1. row \in Row /\ drv.calls \in 0..MaxCalls
        BY Types DEF Driver
      <4>2. Saved(drv.calls) \in Row
        BY <4>1, SavedTyped
      <4> QED BY <1>10, <4>2 DEF RunBatch, Row
    <3>3. UNCHANGED <<req, ui, logged, inbox, hist>>
      BY <1>10 DEF RunBatch, shown
    <3> QED BY <3>1, <3>2, <3>3, Types, TypesNext
  <2>2. AttemptsGood'
    BY <1>10 DEF RunBatch, Goto, Saved, shown, TypeOK, AttemptsGood
  <2>3. TextGood'
    BY <1>10 DEF RunBatch, Goto, Saved, shown, TypeOK, TextGood, RoundPlaces, Places
  <2>4. CallsGood'
    BY <1>10
       DEF RunBatch, Goto, Saved, shown, TypeOK, CallsGood, RoundPlaces, Places, Uncounted,
           Unsaved, Live
  <2>5. ContinuationsGood'
    BY <1>10 DEF RunBatch, Goto, Saved, shown, TypeOK, ContinuationsGood, Live, Places, RoundPlaces
  <2> QED BY <2>1, <2>2, <2>3, <2>4, <2>5
<1> QED BY <1>1, <1>2, <1>3, <1>4, <1>5, <1>6, <1>7, <1>8, <1>9, <1>10 DEF HandlesResponse

-----------------------------------------------------------------------------
(* The gates.                                                              *)

LEMMA FinalizesKeeps == Inv /\ Finalizes => Inv'
<1> SUFFICES ASSUME Inv, Finalizes PROVE Inv'
  OBVIOUS
<1> USE LimitsAssumption, ReviewsAssumption, BoundsAssumption DEF Inv
<1>1. CASE Truncated
  <2>1. CASE Partial
    BY <1>1, <2>1, PartialKeeps DEF Truncated
  <2>2. CASE Continuation(drv) /\ UNCHANGED hist
    BY <1>1, <2>2, ContinuationKeeps, Types DEF Truncated, Driver, History
  <2> QED BY <1>1, <2>1, <2>2 DEF Truncated
<1>2. CASE EditRejected
  <2>1. CASE Partial
    BY <1>2, <2>1, PartialKeeps DEF EditRejected
  <2>2. CASE /\ drv.edits < 1
             /\ Continuation([drv EXCEPT !.edits = @ + 1])
             /\ hist' = [hist EXCEPT !.repaired = @ + 1]
    <3> DEFINE d == [drv EXCEPT !.edits = @ + 1]
    <3>1. /\ d \in Driver /\ d.calls = drv.calls /\ d.reviews = drv.reviews
          /\ d.edits = drv.edits + 1
      BY <2>2, Types DEF Driver
    <3>2. /\ hist' \in History /\ hist'.rounds = hist.rounds /\ hist'.replaced = hist.replaced
          /\ hist'.reviewed = hist.reviewed /\ hist'.repaired = hist.repaired + 1
      BY <2>2, Types DEF History
    <3>3. Continuation(d)
      BY <2>2
    <3>4. drv.pc = "gate"
      BY <1>2 DEF EditRejected
    <3>5. drv \in Driver /\ hist \in History
      BY Types
    <3> HIDE DEF d
    <3>6. /\ d.reviews >= drv.reviews /\ d.edits >= drv.edits
          /\ d.reviews - drv.reviews = 0 /\ d.edits - drv.edits = 1
          /\ hist.reviewed + 0 = hist.reviewed
      BY <3>1, <3>5 DEF Driver, History
    <3> QED BY <3>1, <3>2, <3>3, <3>4, <3>6, ContinuationKeeps
  <2> QED BY <1>2, <2>1, <2>2 DEF EditRejected
<1>3. CASE WantsMore
  <2>1. CASE Partial
    BY <1>3, <2>1, PartialKeeps DEF WantsMore
  <2>2. CASE /\ drv.reviews < MaxReviews
             /\ Continuation([drv EXCEPT !.reviews = @ + 1])
             /\ hist' = [hist EXCEPT !.reviewed = @ + 1]
    <3> DEFINE d == [drv EXCEPT !.reviews = @ + 1]
    <3>1. /\ d \in Driver /\ d.calls = drv.calls /\ d.edits = drv.edits
          /\ d.reviews = drv.reviews + 1
      BY <2>2, Types DEF Driver
    <3>2. /\ hist' \in History /\ hist'.rounds = hist.rounds /\ hist'.replaced = hist.replaced
          /\ hist'.repaired = hist.repaired /\ hist'.reviewed = hist.reviewed + 1
      BY <2>2, Types DEF History
    <3>3. Continuation(d)
      BY <2>2
    <3>4. drv.pc \in {"gate", "review"}
      BY <1>3 DEF WantsMore
    <3>5. drv \in Driver /\ hist \in History
      BY Types
    <3> HIDE DEF d
    <3>6. /\ d.reviews >= drv.reviews /\ d.edits >= drv.edits
          /\ d.edits - drv.edits = 0 /\ d.reviews - drv.reviews = 1
          /\ hist.repaired + 0 = hist.repaired
      BY <3>1, <3>5 DEF Driver, History
    <3> QED BY <3>1, <3>2, <3>3, <3>4, <3>6, ContinuationKeeps
  <2> QED BY <1>3, <2>1, <2>2 DEF WantsMore, CanContinue
<1>4. CASE ReviewerFails
  BY <1>4, PartialKeeps DEF ReviewerFails
<1>5. CASE GateAccepts
  <2>1. TypeOK'
    BY <1>5
       DEF GateAccepts, Goto, shown, TypeOK, Places, RoundPlaces, Statuses, Reasons, SafeToRetry
  <2>2. AttemptsGood'
    BY <1>5 DEF GateAccepts, Goto, shown, TypeOK, AttemptsGood
  <2>3. TextGood'
    BY <1>5 DEF GateAccepts, Goto, shown, TypeOK, TextGood, RoundPlaces, Places
  <2>4. CallsGood'
    BY <1>5
       DEF GateAccepts, Goto, shown, TypeOK, CallsGood, RoundPlaces, Places, Uncounted, Unsaved,
           Live
  <2>5. ContinuationsGood'
    BY <1>5 DEF GateAccepts, Goto, shown, TypeOK, ContinuationsGood, Live, Places, RoundPlaces
  <2> QED BY <2>1, <2>2, <2>3, <2>4, <2>5
<1>6. CASE ReviewAccepts
  <2>1. TypeOK'
    BY <1>6
       DEF ReviewAccepts, Goto, shown, TypeOK, Places, RoundPlaces, Statuses, Reasons,
           SafeToRetry
  <2>2. AttemptsGood'
    BY <1>6 DEF ReviewAccepts, Goto, shown, TypeOK, AttemptsGood
  <2>3. TextGood'
    BY <1>6 DEF ReviewAccepts, Goto, shown, TypeOK, TextGood, RoundPlaces, Places
  <2>4. CallsGood'
    BY <1>6
       DEF ReviewAccepts, Goto, shown, TypeOK, CallsGood, RoundPlaces, Places, Uncounted,
           Unsaved, Live
  <2>5. ContinuationsGood'
    BY <1>6 DEF ReviewAccepts, Goto, shown, TypeOK, ContinuationsGood, Live, Places, RoundPlaces
  <2> QED BY <2>1, <2>2, <2>3, <2>4, <2>5
<1>7. CASE SaveAccepted
  <2>1. TypeOK'
    BY <1>7
       DEF SaveAccepted, Goto, Persisted, Saved, shown, TypeOK, Places, RoundPlaces, Statuses,
           Reasons, SafeToRetry
  <2>2. AttemptsGood'
    BY <1>7 DEF SaveAccepted, Goto, Persisted, Saved, shown, TypeOK, AttemptsGood
  <2>3. TextGood'
    BY <1>7 DEF SaveAccepted, Goto, Persisted, Saved, shown, TypeOK, TextGood, RoundPlaces, Places
  <2>4. CallsGood'
    BY <1>7
       DEF SaveAccepted, Goto, Persisted, Saved, shown, TypeOK, CallsGood, RoundPlaces, Places,
           Uncounted, Unsaved, Live
  <2>5. ContinuationsGood'
    BY <1>7
       DEF SaveAccepted, Goto, Persisted, Saved, shown, TypeOK, ContinuationsGood, Live, Places,
           RoundPlaces
  <2> QED BY <2>1, <2>2, <2>3, <2>4, <2>5
<1>8. CASE CommitAnswer
  <2>1. TypeOK'
    <3>1. row' \in Row
      BY <1>8, Types DEF CommitAnswer, Row
    <3>2. drv' \in Driver
      BY <1>8, NoDriverTyped DEF CommitAnswer
    <3>3. ui' \in Text /\ logged' \subseteq 1..MaxAttempts
      BY <1>8, Types, CommittedTyped DEF CommitAnswer, Text
    <3>4. UNCHANGED <<req, inbox, hist>>
      BY <1>8 DEF CommitAnswer
    <3> QED BY <3>1, <3>2, <3>3, <3>4, Types, TypesNext
  <2>2. AttemptsGood'
    BY <1>8 DEF CommitAnswer, NoDriver, Marked, shown, TypeOK, AttemptsGood
  <2>3. TextGood'
    BY <1>8 DEF CommitAnswer, NoDriver, Marked, shown, TypeOK, TextGood, RoundPlaces, Places
  <2>4. CallsGood'
    BY <1>8
       DEF CommitAnswer, NoDriver, Marked, shown, TypeOK, CallsGood, RoundPlaces, Places,
           Uncounted, Unsaved, Live
  <2>5. ContinuationsGood'
    BY <1>8
       DEF CommitAnswer, NoDriver, Marked, shown, TypeOK, ContinuationsGood, Live, Places,
           RoundPlaces
  <2> QED BY <2>1, <2>2, <2>3, <2>4, <2>5
<1> QED BY <1>1, <1>2, <1>3, <1>4, <1>5, <1>6, <1>7, <1>8 DEF Finalizes

-----------------------------------------------------------------------------
(* The ends of a driver.                                                   *)

LEMMA EndsKeeps == Inv /\ Ends => Inv'
<1> SUFFICES ASSUME Inv, Ends PROVE Inv'
  OBVIOUS
<1> USE LimitsAssumption, ReviewsAssumption, BoundsAssumption DEF Inv
<1>1. CASE RecordFailure
  <2>1. TypeOK'
    <3>1. row' \in Row
      BY <1>1, Types, FailedTyped DEF RecordFailure, Row
    <3>2. (req.why \in SafeToRetry) \in BOOLEAN
      OBVIOUS
    <3>3. \A b \in BOOLEAN : [Goto("raised") EXCEPT !.soft = b] \in Driver
      BY Types, GotoTyped DEF Driver, Places, RoundPlaces
    <3>4. drv' \in Driver
      BY <1>1, <3>2, <3>3 DEF RecordFailure
    <3>5. ui' \in Text
      BY <1>1, Types, ClosedTyped DEF RecordFailure, Statuses
    <3>6. hist' \in History
      BY <1>1, Types, BrokenOffTyped DEF RecordFailure
    <3>7. UNCHANGED <<req, logged, inbox>>
      BY <1>1 DEF RecordFailure
    <3> QED BY <3>1, <3>2, <3>3, <3>4, <3>5, <3>6, <3>7, Types, TypesNext
  <2>2. AttemptsGood'
    BY <1>1
       DEF RecordFailure, Goto, FailedRow, Closed, Marked, BrokenOff, shown, TypeOK, AttemptsGood
  <2>3. TextGood'
    BY <1>1
       DEF RecordFailure, Goto, FailedRow, Closed, Marked, BrokenOff, shown, TypeOK, TextGood,
           RoundPlaces, Places
  <2>4. CallsGood'
    BY <1>1
       DEF RecordFailure, Goto, FailedRow, Closed, Marked, BrokenOff, shown, TypeOK, CallsGood,
           RoundPlaces, Places, Uncounted, Unsaved, Live
  <2>5. ContinuationsGood'
    BY <1>1
       DEF RecordFailure, Goto, FailedRow, Closed, Marked, BrokenOff, shown, TypeOK,
           ContinuationsGood, Live, Places, RoundPlaces
  <2> QED BY <2>1, <2>2, <2>3, <2>4, <2>5
<1>2. CASE Raises
  <2>1. TypeOK'
    <3>1. drv' \in Driver
      BY <1>2, Types, GotoTyped DEF Raises, Places, RoundPlaces
    <3>2. ui' \in Text
      BY <1>2, Types, ClosedTyped DEF Raises, Statuses
    <3>3. hist' \in History
      BY <1>2, Types, BrokenOffTyped DEF Raises
    <3>4. UNCHANGED <<row, req, logged, inbox>>
      BY <1>2 DEF Raises
    <3> QED BY <3>1, <3>2, <3>3, <3>4, Types, TypesNext
  <2>2. AttemptsGood'
    BY <1>2 DEF Raises, Goto, Closed, Marked, BrokenOff, shown, TypeOK, AttemptsGood
  <2>3. TextGood'
    BY <1>2
       DEF Raises, Goto, Closed, Marked, BrokenOff, shown, TypeOK, TextGood, RoundPlaces, Places
  <2>4. CallsGood'
    BY <1>2
       DEF Raises, Goto, Closed, Marked, BrokenOff, shown, TypeOK, CallsGood, RoundPlaces,
           Places, Uncounted, Unsaved, Live
  <2>5. ContinuationsGood'
    BY <1>2
       DEF Raises, Goto, Closed, Marked, BrokenOff, shown, TypeOK, ContinuationsGood, Live,
           Places, RoundPlaces
  <2> QED BY <2>1, <2>2, <2>3, <2>4, <2>5
<1>3. CASE Unwinds
  <2>1. TypeOK'
    <3>1. row' \in Row
      BY <1>3, Types, FailedTyped DEF Unwinds
    <3>2. drv' \in Driver
      BY <1>3, NoDriverTyped DEF Unwinds
    <3>3. UNCHANGED <<req, ui, logged, inbox, hist>>
      BY <1>3 DEF Unwinds, shown
    <3> QED BY <3>1, <3>2, <3>3, Types, TypesNext
  <2>2. AttemptsGood'
    BY <1>3 DEF Unwinds, NoDriver, FailedRow, shown, TypeOK, AttemptsGood
  <2>3. TextGood'
    BY <1>3 DEF Unwinds, NoDriver, FailedRow, shown, TypeOK, TextGood, RoundPlaces, Places
  <2>4. CallsGood'
    <3>1. drv.pc = "raised" /\ drv'.pc = "off" /\ hist' = hist
      BY <1>3, NoDriverTyped DEF Unwinds
    <3>2. row'.calls = row.calls
      BY <1>3, Types, FailedTyped DEF Unwinds
    <3>3. hist.rounds <= row.calls
      BY <3>1 DEF CallsGood, Live
    <3> QED BY <3>1, <3>2, <3>3 DEF CallsGood, Live, Uncounted, Unsaved, RoundPlaces
  <2>5. ContinuationsGood'
    <3>1. drv'.pc = "off" /\ hist' = hist
      BY <1>3, NoDriverTyped DEF Unwinds
    <3>2. row'.reviews = row.reviews /\ row'.edits = row.edits
      BY <1>3, Types, FailedTyped DEF Unwinds
    <3> QED BY <3>1, <3>2 DEF ContinuationsGood, Live
  <2> QED BY <2>1, <2>2, <2>3, <2>4, <2>5
<1>4. CASE Crash
  <2>1. TypeOK'
    <3>1. drv' \in Driver
      BY <1>4, NoDriverTyped DEF Crash
    <3>2. hist' \in History
      BY <1>4, Types, BrokenOffTyped DEF Crash
    <3>3. UNCHANGED <<row, req, ui, logged, inbox>>
      BY <1>4 DEF Crash, shown
    <3> QED BY <3>1, <3>2, <3>3, Types, TypesNext
  <2>2. AttemptsGood'
    BY <1>4 DEF Crash, NoDriver, BrokenOff, shown, TypeOK, AttemptsGood
  <2>3. TextGood'
    BY <1>4 DEF Crash, NoDriver, BrokenOff, shown, TypeOK, TextGood, RoundPlaces, Places
  <2>4. CallsGood'
    BY <1>4
       DEF Crash, NoDriver, BrokenOff, shown, TypeOK, CallsGood, RoundPlaces, Places, Uncounted,
           Unsaved, Live
  <2>5. ContinuationsGood'
    BY <1>4
       DEF Crash, NoDriver, BrokenOff, shown, TypeOK, ContinuationsGood, Live, Places,
           RoundPlaces
  <2> QED BY <2>1, <2>2, <2>3, <2>4, <2>5
<1>5. CASE Stop
  <2>1. TypeOK'
    <3>1. row' \in Row
      BY <1>5, Types DEF Stop, Row
    <3>2. UNCHANGED <<drv, req, ui, logged, inbox, hist>>
      BY <1>5 DEF Stop, shown
    <3> QED BY <3>1, <3>2, Types, TypesNext
  <2>2. AttemptsGood'
    BY <1>5 DEF Stop, shown, TypeOK, AttemptsGood
  <2>3. TextGood'
    BY <1>5 DEF Stop, shown, TypeOK, TextGood, RoundPlaces, Places
  <2>4. CallsGood'
    <3>1. UNCHANGED <<drv, hist>>
      BY <1>5 DEF Stop
    <3>2. row'.calls = row.calls
      BY <1>5, Types DEF Stop, Row
    <3> QED BY <3>1, <3>2 DEF CallsGood
  <2>5. ContinuationsGood'
    BY <1>5 DEF Stop, shown, TypeOK, ContinuationsGood, Live, Places, RoundPlaces
  <2> QED BY <2>1, <2>2, <2>3, <2>4, <2>5
<1>6. CASE CancelRunner
  <2>1. TypeOK'
    <3>1. drv' \in Driver
      BY <1>6, NoDriverTyped DEF CancelRunner
    <3>2. ui' \in Text
      BY <1>6, Types, ClosedTyped DEF CancelRunner, Statuses
    <3>3. hist' \in History
      BY <1>6, Types, BrokenOffTyped DEF CancelRunner
    <3>4. UNCHANGED <<row, req, logged, inbox>>
      BY <1>6 DEF CancelRunner
    <3> QED BY <3>1, <3>2, <3>3, <3>4, Types, TypesNext
  <2>2. AttemptsGood'
    BY <1>6
       DEF CancelRunner, NoDriver, Closed, Marked, BrokenOff, Waiting, shown, TypeOK,
           AttemptsGood
  <2>3. TextGood'
    BY <1>6
       DEF CancelRunner, NoDriver, Closed, Marked, BrokenOff, Waiting, shown, TypeOK, TextGood,
           RoundPlaces, Places
  <2>4. CallsGood'
    BY <1>6
       DEF CancelRunner, NoDriver, Closed, Marked, BrokenOff, Waiting, shown, TypeOK, CallsGood,
           RoundPlaces, Places, Uncounted, Unsaved, Live
  <2>5. ContinuationsGood'
    BY <1>6
       DEF CancelRunner, NoDriver, Closed, Marked, BrokenOff, Waiting, shown, TypeOK,
           ContinuationsGood, Live, Places, RoundPlaces
  <2> QED BY <2>1, <2>2, <2>3, <2>4, <2>5
<1> QED BY <1>1, <1>2, <1>3, <1>4, <1>5, <1>6 DEF Ends

-----------------------------------------------------------------------------
(* What the user does.                                                     *)

LEMMA ResumeKeeps == Inv /\ Resume => Inv'
<1> SUFFICES ASSUME Inv, Resume PROVE Inv'
  OBVIOUS
<1> USE DEF Inv
<1>1. row \in Row /\ drv \in Driver /\ hist \in History /\ drv.pc = "off"
  BY Types DEF Resume
<1>2. /\ row' \in Row /\ row'.calls = row.calls
      /\ row'.reviews = row.reviews /\ row'.edits = row.edits
  BY <1>1 DEF Resume, Row
<1>3. /\ drv' \in Driver /\ drv'.pc \in {"batch", "boundary"} /\ drv'.calls = row.calls
      /\ drv'.reviews = row.reviews /\ drv'.edits = row.edits
  BY <1>1, NoDriverTyped DEF Resume, Row, Driver, NoDriver, Places
<1>4. /\ hist' \in History /\ hist'.rounds = hist.rounds /\ hist'.replaced = hist.replaced
      /\ hist'.reviewed = hist.reviewed /\ hist'.repaired = hist.repaired
  BY <1>1 DEF Resume, History
<1>5. UNCHANGED <<req, ui, logged, inbox>>
  BY DEF Resume, shown
<1>6. TypeOK'
  BY <1>2, <1>3, <1>4, <1>5, Types, TypesNext
<1>7. AttemptsGood' /\ TextGood'
  BY <1>3, <1>5 DEF AttemptsGood, TextGood, RoundPlaces
<1>8. CallsGood'
  BY <1>1, <1>2, <1>3, <1>4 DEF CallsGood, Uncounted, Unsaved, Live, Places, RoundPlaces
<1>9. ContinuationsGood'
  BY <1>1, <1>2, <1>3, <1>4 DEF ContinuationsGood, Row
<1> QED BY <1>6, <1>7, <1>8, <1>9

LEMMA SayKeeps == Inv /\ Say => Inv'
<1> SUFFICES ASSUME Inv, Say PROVE Inv'
  OBVIOUS
<1> USE DEF Inv
<1>1. /\ hist' \in History /\ hist'.rounds = hist.rounds /\ hist'.replaced = hist.replaced
      /\ hist'.reviewed = hist.reviewed /\ hist'.repaired = hist.repaired
  BY Types DEF Say, History
<1>2. inbox' \in Inboxes /\ UNCHANGED <<row, drv, req, ui, logged>>
  BY DEF Say, Inboxes, shown
<1>3. TypeOK'
  BY <1>1, <1>2, Types, TypesNext
<1> QED BY <1>1, <1>2, <1>3 DEF AttemptsGood, TextGood, CallsGood, ContinuationsGood

-----------------------------------------------------------------------------
(* The theorems.                                                           *)

LEMMA InitInv == Init => Inv
<1> SUFFICES ASSUME Init PROVE Inv
  OBVIOUS
<1> USE LimitsAssumption, ReviewsAssumption
<1>1. /\ drv.pc = "boundary" /\ drv \in Driver
      /\ drv.calls = 0 /\ drv.reviews = 0 /\ drv.edits = 0
  <2>1. drv = [pc |-> "boundary", calls |-> 0, reviews |-> 0, edits |-> 0, soft |-> FALSE]
    BY DEF Init, NoDriver
  <2>2. "boundary" \in Places
    BY DEF Places
  <2>3. 0 \in 0..MaxCalls /\ 0 \in 0..MaxReviews /\ 0 \in 0..1
    OBVIOUS
  <2> QED BY <2>1, <2>2, <2>3 DEF Driver
<1>2. /\ row \in Row /\ row.calls = 0 /\ row.reviews = 0 /\ row.edits = 0
  BY DEF Init, Row
<1>3. req \in Request
  BY DEF Init, NewRequest, Request, Reasons
<1>4. ui \in Text /\ ui.text = {} /\ ui.status = "none" /\ logged = {} /\ inbox \in Inboxes
  BY DEF Init, NothingShown, Text, Statuses, Inboxes
<1>5. /\ hist \in History /\ hist.rounds = 0 /\ hist.replaced = 0
      /\ hist.reviewed = 0 /\ hist.repaired = 0
  BY DEF Init, History
<1>6. TypeOK
  BY <1>1, <1>2, <1>3, <1>4, <1>5, Types
<1>7. AttemptsGood /\ TextGood
  BY <1>1, <1>4 DEF AttemptsGood, TextGood, RoundPlaces
<1>8. CallsGood /\ ContinuationsGood
  BY <1>1, <1>2, <1>5
     DEF CallsGood, ContinuationsGood, Uncounted, Unsaved, Live, Places, RoundPlaces
<1> QED BY <1>6, <1>7, <1>8 DEF Inv

LEMMA NextInv == Inv /\ [Next]_vars => Inv'
<1> SUFFICES ASSUME Inv, [Next]_vars PROVE Inv'
  OBVIOUS
<1>1. CASE UNCHANGED vars
  BY <1>1 DEF vars, Inv, TypeOK, AttemptsGood, TextGood, CallsGood, ContinuationsGood
<1>2. CASE Next
  BY <1>2, BetweenRoundsKeeps, AttemptsKeeps, HandlesResponseKeeps, FinalizesKeeps, EndsKeeps,
     ResumeKeeps, SayKeeps DEF Next
<1> QED BY <1>1, <1>2

THEOREM Invariance == Spec => []Inv
BY InitInv, NextInv, PTL DEF Spec

\* For any limits and any number of messages and resumptions, the counters and the
\* text take only the values the code's types allow.
THEOREM TypeCorrect == Spec => []TypeOK
BY Invariance, PTL DEF Inv

\* However often the resilient provider sends a request again, and by whichever
\* transport, the user sees the text of one attempt of a round.
THEOREM OneTextIsShown == Spec => []OneAttemptShown
<1>1. Inv => OneAttemptShown
  <2> SUFFICES ASSUME Inv PROVE Cardinality(ui.text) <= 1
    BY DEF OneAttemptShown
  <2>1. ui.text = {} \/ ui.text = {req.attempt}
    BY DEF Inv, AttemptsGood
  <2>2. Cardinality({}) = 0 /\ Cardinality({req.attempt}) = 1
    BY FS_EmptySet, FS_Singleton
  <2> QED BY <2>1, <2>2
<1> QED BY <1>1, Invariance, PTL

\* What the user sees as said is what an event of the round records, and what was
\* taken back is recorded nowhere, wherever the driver ends.
THEOREM ShownTextIsRecorded == Spec => []ShownIsRecorded
<1>1. Inv => ShownIsRecorded
  BY DEF Inv, TextGood, ShownIsRecorded
<1> QED BY <1>1, Invariance, PTL

\* Every round that was not broken off is counted in the row, so that no resumption
\* gives it back to the budget of the Turn.
THEOREM SamplesCounted == Spec => []SamplesAreCounted
<1>1. Inv => SamplesAreCounted
  <2> SUFFICES ASSUME Inv PROVE SamplesAreCounted
    OBVIOUS
  <2>1. row \in Row /\ drv \in Driver /\ hist \in History
    BY Types DEF Inv
  <2> QED BY <2>1, LimitsAssumption
       DEF Inv, CallsGood, SamplesAreCounted, Uncounted, Unsaved, Live, Places, RoundPlaces, Row,
           Driver, History
<1> QED BY <1>1, Invariance, PTL

\* The gates and the reviewers send a Turn back as often as their limits say, and
\* once more after each REPLACE, through crashes and resumptions.
THEOREM ContinuationsAreBounded == Spec => []ContinuationsBounded
<1>1. Inv => ContinuationsBounded
  <2> SUFFICES ASSUME Inv PROVE ContinuationsBounded
    OBVIOUS
  <2>1. row \in Row /\ hist \in History
    BY Types DEF Inv
  <2>2. CASE MaxReviews = 0
    BY <2>1, <2>2 DEF Inv, ContinuationsGood, ContinuationsBounded, Row, History
  <2>3. CASE MaxReviews = 1
    BY <2>1, <2>3 DEF Inv, ContinuationsGood, ContinuationsBounded, Row, History
  <2> QED BY <2>2, <2>3, ReviewsAssumption
<1> QED BY <1>1, Invariance, PTL

\* A request whose response has arrived is not sent again in its round, though its
\* completion could not be recorded.
THEOREM AnsweredRequestsNotResent == Spec => AnsweredNotResent
<1>1. Inv /\ [Next]_vars => [req.resp # NoResponse => req'.attempt <= req.attempt]_vars
  <2> SUFFICES ASSUME Inv, [Next]_vars, req.resp # NoResponse
               PROVE  req'.attempt <= req.attempt
    OBVIOUS
  <2>1. req \in Request /\ req.attempt \in Nat /\ req.attempt >= 1
    BY LimitsAssumption, Types DEF Inv, Request
  <2>2. CASE UNCHANGED req
    BY <2>1, <2>2
  <2>3. CASE StartRound
    BY <2>1, <2>3 DEF StartRound, NewRequest
  <2>4. CASE Attempts
    <3>1. drv.pc # "backoff"
      BY DEF Inv, AttemptsGood
    <3>2. CASE SendAttempt \/ AdapterRejectsCalls \/ AnswerNoted
      BY <2>1, <3>2 DEF SendAttempt, AdapterRejectsCalls, AnswerNoted, shown
    <3>3. CASE Delta
      BY <2>1, <3>3 DEF Delta, Request
    <3>4. CASE StreamCompletes
      BY <2>1, <3>4 DEF StreamCompletes, Request
    <3>5. CASE PostCompletes
      BY <2>1, <3>5 DEF PostCompletes, Request
    <3>6. CASE AttemptFails \/ AnswerNotNoted
      BY <2>1, <3>6 DEF AttemptFails, AnswerNotNoted, FailedFor, Request
    <3>7. CASE Decide \/ AttemptNotNoted
      BY <2>1, <3>7 DEF Decide, AttemptNotNoted, Request
    <3>8. CASE Retry
      BY <3>1, <3>8 DEF Retry
    <3> QED BY <2>4, <3>2, <3>3, <3>4, <3>5, <3>6, <3>7, <3>8 DEF Attempts
  <2>5. CASE Unusable
    BY <2>1, <2>5 DEF Unusable, Request
  <2>6. CASE ~(Attempts \/ StartRound \/ Unusable)
    <3>1. UNCHANGED req
      BY <2>6 DEF Next, vars, BetweenRounds, Boundary, BudgetSpent, HandlesResponse, RejectsCalls,
          Correct, Accepts, Supersede, NotSuperseded, Record, Commentary, SaveCalls, RunBatch,
          Finalizes, Truncated, EditRejected, WantsMore, ReviewerFails, GateAccepts,
          ReviewAccepts, SaveAccepted, CommitAnswer, Partial, Continuation, Ends, RecordFailure,
          Raises, Unwinds, Crash, Stop, CancelRunner, Resume, Say, shown
    <3> QED BY <2>1, <3>1
  <2> QED BY <2>3, <2>4, <2>5, <2>6
<1> QED BY <1>1, Invariance, PTL DEF Spec, AnsweredNotResent
=============================================================================
