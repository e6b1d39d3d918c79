------------------------- MODULE TurnRunners_proofs -------------------------
(***************************************************************************)
(* TurnRunners for any number of messages, answers and commands: the       *)
(* registry always holds the newest runner or none, only the registered    *)
(* runner goes on, and with the order in which messages were said that is  *)
(* why an overtaken message is never heard after a newer one.  Whatever    *)
(* was accepted is in the hands of a runner that can go on, or waits for   *)
(* one that can.                                                           *)
(***************************************************************************)
EXTENDS TurnRunners, TLAPS

LivePcs == {"new", "wait", "turn"}
RunnerRecord ==
  [kind : RunnerKinds, text : 0..MaxTexts, barrier : Nat,
   pc : LivePcs \cup {"done", "gone"}, stop : {"no", "asked", "lost"}]

\* Runner x of a list of runners would go on if it were scheduled.
GoesOn(x) == x.pc \in LivePcs /\ x.stop = "no"

Types == /\ runner \in Seq(RunnerRecord)
         /\ registered \in {0, Len(runner)}
         /\ target \in Nat
         /\ fate \in [Texts -> Fates]

OneGoesOn == \A r \in DOMAIN runner : GoesOn(runner[r]) => registered = r

SaidInOrder == \A t, u \in Texts : t < u /\ fate[u] # "unsaid" => fate[t] # "unsaid"
RunnersOfSaid ==
  \A r \in DOMAIN runner : runner[r].text # 0 => fate[runner[r].text] # "unsaid"
TextsGrow ==
  \A q, r \in DOMAIN runner :
    q < r /\ runner[q].text # 0 /\ runner[r].text # 0 => runner[q].text < runner[r].text
HeardHaveRunners ==
  \A t \in Texts : fate[t] = "heard" => \E q \in DOMAIN runner : runner[q].text = t

Inv == /\ Types /\ OneGoesOn /\ InterruptedMeansStopped
       /\ SaidInOrder /\ RunnersOfSaid /\ TextsGrow /\ HeardHaveRunners

-----------------------------------------------------------------------------
(* Sequences of runners.                                                   *)

LEMMA Shape ==
  ASSUME NEW s \in Seq(RunnerRecord)
  PROVE  /\ Len(s) \in Nat /\ DOMAIN s = 1..Len(s)
         /\ \A r \in DOMAIN s : s[r] \in RunnerRecord
<1> DEFINE R == RunnerRecord
<1> HIDE DEF R
<1>1. s \in Seq(R)
  BY DEF R
<1>2. Len(s) \in Nat /\ DOMAIN s = 1..Len(s) /\ \A r \in DOMAIN s : s[r] \in R
  BY <1>1
<1> QED
  BY <1>2 DEF R

LEMMA AppendShape ==
  ASSUME NEW s \in Seq(RunnerRecord), NEW x \in RunnerRecord
  PROVE  /\ Append(s, x) \in Seq(RunnerRecord)
         /\ Len(Append(s, x)) = Len(s) + 1
         /\ Append(s, x)[Len(s) + 1] = x
         /\ \A r \in DOMAIN s : Append(s, x)[r] = s[r]
<1> DEFINE R == RunnerRecord
<1> HIDE DEF R
<1>1. s \in Seq(R) /\ x \in R
  BY DEF R
<1>2. /\ Append(s, x) \in Seq(R) /\ Len(Append(s, x)) = Len(s) + 1
      /\ Append(s, x)[Len(s) + 1] = x
      /\ \A r \in DOMAIN s : Append(s, x)[r] = s[r]
  BY <1>1
<1> QED
  BY <1>2 DEF R

LEMMA ExceptShape ==
  ASSUME NEW s \in Seq(RunnerRecord), NEW r \in DOMAIN s, NEW x \in RunnerRecord
  PROVE  /\ [s EXCEPT ![r] = x] \in Seq(RunnerRecord)
         /\ Len([s EXCEPT ![r] = x]) = Len(s)
         /\ [s EXCEPT ![r] = x][r] = x
         /\ \A q \in DOMAIN s : q # r => [s EXCEPT ![r] = x][q] = s[q]
<1> DEFINE R == RunnerRecord
<1> HIDE DEF R
<1>1. s \in Seq(R) /\ x \in R
  BY DEF R
<1>2. /\ [s EXCEPT ![r] = x] \in Seq(R) /\ Len([s EXCEPT ![r] = x]) = Len(s)
      /\ [s EXCEPT ![r] = x][r] = x
      /\ \A q \in DOMAIN s : q # r => [s EXCEPT ![r] = x][q] = s[q]
  BY <1>1
<1> QED
  BY <1>2 DEF R

\* A new list in which every runner has kept its text and none has begun to go on.
Calmer(s) ==
  /\ s \in Seq(RunnerRecord) /\ Len(s) = Len(runner)
  /\ \A r \in DOMAIN runner : /\ s[r].text = runner[r].text
                              /\ s[r].pc = "turn" => runner[r].pc = "turn" \/ GoesOn(runner[r])
                              /\ GoesOn(s[r]) => GoesOn(runner[r])

\* A runner moves along without starting to go on.
LEMMA PcMove ==
  ASSUME Types, NEW r \in DOMAIN runner, NEW pc \in LivePcs \cup {"done", "gone"},
         pc = "turn" => runner[r].pc = "turn" \/ GoesOn(runner[r]),
         pc \in LivePcs /\ runner[r].stop = "no" => GoesOn(runner[r]),
         runner' = [runner EXCEPT ![r].pc = pc]
  PROVE  /\ Calmer(runner')
         /\ runner'[r] = [runner[r] EXCEPT !.pc = pc]
         /\ runner'[r].pc = pc /\ runner'[r].stop = runner[r].stop
         /\ \A q \in DOMAIN runner : q # r => runner'[q] = runner[q]
<1> DEFINE x == [runner[r] EXCEPT !.pc = pc]
<1>1. runner[r] \in RunnerRecord
  BY Shape DEF Types
<1>2. x \in RunnerRecord /\ x.text = runner[r].text /\ x.pc = pc /\ x.stop = runner[r].stop
  BY <1>1 DEF RunnerRecord
<1>3. GoesOn(x) => GoesOn(runner[r])
  BY <1>2 DEF GoesOn
<1>4. runner' = [runner EXCEPT ![r] = x]
  OBVIOUS
<1> HIDE DEF x
<1>5. /\ runner' \in Seq(RunnerRecord) /\ Len(runner') = Len(runner) /\ runner'[r] = x
      /\ \A q \in DOMAIN runner : q # r => runner'[q] = runner[q]
  <2>1. runner \in Seq(RunnerRecord) /\ x \in RunnerRecord
    BY <1>2 DEF Types
  <2>2. /\ [runner EXCEPT ![r] = x] \in Seq(RunnerRecord)
        /\ Len([runner EXCEPT ![r] = x]) = Len(runner)
        /\ [runner EXCEPT ![r] = x][r] = x
        /\ \A q \in DOMAIN runner : q # r => [runner EXCEPT ![r] = x][q] = runner[q]
    BY <2>1, ExceptShape
  <2> QED BY <2>2, <1>4
<1>6. Calmer(runner')
  BY <1>2, <1>3, <1>5 DEF Calmer
<1> QED
  BY <1>2, <1>5, <1>6 DEF x

\* Cancelling the registered runner leaves nobody going on.
LEMMA CancelledShape ==
  ASSUME Types, OneGoesOn
  PROVE  /\ Calmer(Cancelled(registered))
         /\ \A r \in DOMAIN runner :
              ~GoesOn(Cancelled(registered)[r])
              /\ Cancelled(registered)[r].stop \in {runner[r].stop, "asked"}
              /\ Cancelled(registered)[r].pc = runner[r].pc
<1> DEFINE r == registered
           x == [runner[r] EXCEPT !.stop = "asked"]
<1>1. CASE ~Live(r)
  <2>1. Cancelled(r) = runner
    BY <1>1 DEF Cancelled
  <2>2. \A q \in DOMAIN runner : ~GoesOn(runner[q])
    BY <1>1, Shape DEF Live, Types, OneGoesOn, GoesOn, LivePcs
  <2> QED
    BY <2>1, <2>2 DEF Calmer, Types
<1>2. CASE Live(r)
  <2>1. r \in DOMAIN runner /\ runner[r] \in RunnerRecord
    BY <1>2, Shape DEF Live, Types
  <2>2. Cancelled(r) = [runner EXCEPT ![r] = x]
    BY <1>2 DEF Cancelled
  <2>3. /\ x \in RunnerRecord /\ x.text = runner[r].text /\ x.pc = runner[r].pc
        /\ x.stop = "asked"
    BY <2>1 DEF RunnerRecord
  <2>4. ~GoesOn(x)
    BY <2>3 DEF GoesOn
  <2>5. \A q \in DOMAIN runner : q # r => ~GoesOn(runner[q])
    BY DEF OneGoesOn
  <2> HIDE DEF x, r
  <2>6. /\ Cancelled(r) \in Seq(RunnerRecord) /\ Len(Cancelled(r)) = Len(runner)
        /\ Cancelled(r)[r] = x
        /\ \A q \in DOMAIN runner : q # r => Cancelled(r)[q] = runner[q]
    BY <2>1, <2>2, <2>3, ExceptShape DEF Types
  <2>7. Calmer(Cancelled(r))
    BY <2>3, <2>4, <2>6 DEF Calmer
  <2>8. \A q \in DOMAIN runner :
          /\ ~GoesOn(Cancelled(r)[q])
          /\ Cancelled(r)[q].stop \in {runner[q].stop, "asked"}
          /\ Cancelled(r)[q].pc = runner[q].pc
    BY <2>3, <2>4, <2>5, <2>6
  <2> QED
    BY <2>7, <2>8 DEF r
<1> QED
  BY <1>1, <1>2

-----------------------------------------------------------------------------
(* What a step may do to the messages, and that it keeps their order.      *)

Messages == SaidInOrder /\ RunnersOfSaid /\ TextsGrow /\ HeardHaveRunners

\* A message is said after all that precede it, and heard through its runner.
FateStep ==
  /\ fate' \in [Texts -> Fates]
  /\ \A t \in Texts :
       /\ fate[t] # "unsaid" => fate'[t] # "unsaid"
       /\ fate[t] = "unsaid" /\ fate'[t] # "unsaid" =>
            \A u \in Texts : u < t => fate[u] # "unsaid"
       /\ fate'[t] = "heard" =>
            fate[t] = "heard" \/ \E q \in DOMAIN runner : runner[q].text = t

LEMMA FateKeepsOrder ==
  ASSUME SaidInOrder, FateStep
  PROVE  SaidInOrder'
<1> SUFFICES ASSUME NEW t \in Texts, NEW u \in Texts, t < u, fate'[u] # "unsaid"
             PROVE  fate'[t] # "unsaid"
  BY DEF SaidInOrder
<1>1. fate[t] # "unsaid"
  BY DEF FateStep, SaidInOrder
<1> QED
  BY <1>1 DEF FateStep

\* The steps that make no runner.
LEMMA CalmKeeps ==
  ASSUME Types, OneGoesOn, Messages, Calmer(runner'), FateStep,
         registered' # registered =>
           registered' = 0 /\ \A r \in DOMAIN runner : ~GoesOn(runner'[r]),
         target' \in Nat
  PROVE  Types' /\ OneGoesOn' /\ Messages'
<1>1. DOMAIN runner' = DOMAIN runner /\ Len(runner') = Len(runner) /\ DOMAIN runner = 1..Len(runner)
  BY Shape DEF Calmer, Types
<1>2. \A r \in DOMAIN runner : runner[r].text \in 0..MaxTexts
  BY Shape DEF Types, RunnerRecord
<1>3. Types'
  BY <1>1 DEF Types, Calmer, FateStep
<1>4. OneGoesOn'
  BY <1>1 DEF OneGoesOn, Calmer
<1>5. RunnersOfSaid'
  <2> SUFFICES ASSUME NEW r \in DOMAIN runner, runner[r].text # 0
               PROVE  fate'[runner[r].text] # "unsaid"
    BY <1>1 DEF RunnersOfSaid, Calmer
  <2>1. runner[r].text \in Texts
    BY <1>2, MaxTextsAssumption DEF Texts
  <2> QED
    BY <2>1 DEF FateStep, Messages, RunnersOfSaid
<1>6. TextsGrow'
  BY <1>1 DEF Messages, TextsGrow, Calmer
<1>7. HeardHaveRunners'
  <2> SUFFICES ASSUME NEW t \in Texts, fate'[t] = "heard"
               PROVE  \E q \in DOMAIN runner' : runner'[q].text = t
    BY DEF HeardHaveRunners
  <2>1. \E q \in DOMAIN runner : runner[q].text = t
    BY DEF FateStep, Messages, HeardHaveRunners
  <2> QED
    BY <2>1, <1>1 DEF Calmer
<1> QED
  BY <1>3, <1>4, <1>5, <1>6, <1>7, FateKeepsOrder DEF Messages

\* The steps that register a new runner, for the message said in this step or none.
LEMMA AddKeeps ==
  ASSUME Types, Messages, NEW s, Calmer(s), \A r \in DOMAIN runner : ~GoesOn(s[r]),
         NEW x \in RunnerRecord, runner' = Append(s, x), registered' = Len(runner'), FateStep,
         target' \in Nat,
         x.text # 0 => fate[x.text] = "unsaid" /\ fate'[x.text] # "unsaid"
  PROVE  Types' /\ OneGoesOn' /\ Messages'
<1> DEFINE n == Len(runner)
<1>1. /\ n \in Nat /\ DOMAIN runner = 1..n /\ Len(s) = n /\ DOMAIN s = 1..n /\ s \in Seq(RunnerRecord)
  BY Shape DEF Calmer, Types
<1>2. /\ runner' \in Seq(RunnerRecord) /\ Len(runner') = n + 1 /\ runner'[n + 1] = x
      /\ \A r \in 1..n : runner'[r] = s[r]
  BY <1>1, AppendShape
<1>3. DOMAIN runner' = 1..n + 1
  BY <1>2, Shape
<1>4. \A r \in 1..n : runner'[r].text = runner[r].text /\ ~GoesOn(runner'[r])
  BY <1>1, <1>2 DEF Calmer
<1>5. \A r \in 1..n : runner[r].text \in 0..MaxTexts
  BY <1>1, Shape DEF Types, RunnerRecord
<1> HIDE DEF n
<1>6. Types'
  BY <1>2 DEF Types, FateStep
<1>7. OneGoesOn'
  BY <1>1, <1>2, <1>3, <1>4 DEF OneGoesOn
<1>8. x.text \in 0..MaxTexts /\ \A k \in 0..MaxTexts : k # 0 => k \in Texts
  BY MaxTextsAssumption DEF RunnerRecord, Texts
<1>9. RunnersOfSaid'
  <2> SUFFICES ASSUME NEW r \in 1..n + 1, runner'[r].text # 0
               PROVE  fate'[runner'[r].text] # "unsaid"
    BY <1>3 DEF RunnersOfSaid
  <2>1. CASE r = n + 1
    BY <2>1, <1>2
  <2>2. CASE r # n + 1
    <3>1. r \in 1..n
      BY <2>2, <1>1
    <3>2. runner[r].text \in Texts /\ runner'[r].text = runner[r].text
      BY <3>1, <1>4, <1>5, <1>8
    <3>3. fate[runner[r].text] # "unsaid"
      BY <3>1, <3>2, <1>1 DEF Messages, RunnersOfSaid
    <3> QED
      BY <3>2, <3>3 DEF FateStep
  <2> QED
    BY <2>1, <2>2
<1>10. TextsGrow'
  <2> SUFFICES ASSUME NEW q \in 1..n + 1, NEW r \in 1..n + 1, q < r,
                      runner'[q].text # 0, runner'[r].text # 0
               PROVE  runner'[q].text < runner'[r].text
    BY <1>3 DEF TextsGrow
  <2>1. q \in 1..n /\ runner'[q].text = runner[q].text
    BY <1>1, <1>4
  <2>2. CASE r \in 1..n
    BY <2>1, <2>2, <1>1, <1>4 DEF Messages, TextsGrow
  <2>3. CASE r = n + 1
    <3>1. runner[q].text \in Texts /\ x.text \in Texts
      BY <2>1, <2>3, <1>2, <1>5, <1>8
    <3>2. fate[runner[q].text] # "unsaid" /\ fate[x.text] = "unsaid"
      BY <2>1, <2>3, <1>1, <1>2 DEF Messages, RunnersOfSaid
    <3>3. ~(x.text <= runner[q].text)
      BY <3>1, <3>2 DEF Messages, SaidInOrder, Texts
    <3> QED
      BY <2>1, <2>3, <3>1, <3>3, <1>2, MaxTextsAssumption DEF Texts
  <2> QED
    BY <2>2, <2>3, <1>1
<1>11. HeardHaveRunners'
  <2> SUFFICES ASSUME NEW t \in Texts, fate'[t] = "heard"
               PROVE  \E q \in DOMAIN runner' : runner'[q].text = t
    BY DEF HeardHaveRunners
  <2>1. \E q \in 1..n : runner[q].text = t
    BY <1>1 DEF FateStep, Messages, HeardHaveRunners
  <2> QED
    BY <2>1, <1>1, <1>3, <1>4
<1> QED
  BY <1>6, <1>7, <1>9, <1>10, <1>11, FateKeepsOrder DEF Messages

-----------------------------------------------------------------------------
(* The actions.                                                            *)

LEMMA FatesOfCancelled ==
  ASSUME Types, NEW outcome \in {"replaced", "stopped"}
  PROVE  LET f == TextOfCancelled(registered, outcome)
         IN /\ f \in [Texts -> Fates]
            /\ \A t \in Texts : f[t] = fate[t] \/ (fate[t] = "accepted" /\ f[t] = outcome)
<1> DEFINE f == TextOfCancelled(registered, outcome)
           k == runner[registered].text
           to == IF fate[k] = "accepted" THEN outcome ELSE fate[k]
<1>1. f = fate \/ f = [fate EXCEPT ![k] = to]
  BY DEF TextOfCancelled
<1>2. k \in Texts => to \in Fates /\ (to = fate[k] \/ (fate[k] = "accepted" /\ to = outcome))
  BY DEF Types, Fates
<1> HIDE DEF f, k, to
<1>3. /\ f \in [Texts -> Fates]
      /\ \A t \in Texts : f[t] = fate[t] \/ (fate[t] = "accepted" /\ f[t] = outcome)
  BY <1>1, <1>2 DEF Types
<1> QED
  BY <1>3 DEF f

\* With nobody going on, every Turn has been asked to stop or has lost the request.
LEMMA NobodyGoesOn ==
  ASSUME NEW s \in Seq(RunnerRecord), \A r \in DOMAIN s : ~GoesOn(s[r])
  PROVE  (\A r \in DOMAIN s : s[r].stop # "lost") =>
           \A r \in DOMAIN s : s[r].pc = "turn" => s[r].stop = "asked"
BY Shape DEF GoesOn, LivePcs, RunnerRecord

\* A new runner has not begun.
LEMMA NewRunnerShape ==
  ASSUME NEW kind \in RunnerKinds, NEW text \in 0..MaxTexts, NEW barrier \in Nat
  PROVE  /\ NewRunner(kind, text, barrier) \in RunnerRecord
         /\ NewRunner(kind, text, barrier).pc = "new"
         /\ NewRunner(kind, text, barrier).text = text
BY DEF NewRunner, RunnerRecord, LivePcs

LEMMA AddIsInterrupted ==
  ASSUME NEW s \in Seq(RunnerRecord), \A r \in DOMAIN s : ~GoesOn(s[r]),
         NEW x \in RunnerRecord, x.pc = "new", runner' = Append(s, x)
  PROVE  InterruptedMeansStopped'
<1> DEFINE n == Len(s)
<1>1. n \in Nat /\ DOMAIN s = 1..n
  BY Shape
<1>2. DOMAIN runner' = 1..n + 1 /\ runner'[n + 1] = x /\ \A r \in 1..n : runner'[r] = s[r]
  BY <1>1, AppendShape, Shape
<1> HIDE DEF n
<1> SUFFICES ASSUME \A r \in 1..n + 1 : runner'[r].stop # "lost", NEW r \in 1..n + 1,
                    runner'[r].pc = "turn"
             PROVE  runner'[r].stop = "asked"
  BY <1>2 DEF InterruptedMeansStopped
<1>3. r \in 1..n
  BY <1>1, <1>2
<1> QED
  BY <1>1, <1>2, <1>3, NobodyGoesOn

LEMMA SayRedirectsKeeps ==
  ASSUME Inv, NEW t \in Texts, SayRedirects(t)
  PROVE  Inv'
<1> DEFINE s == Cancelled(registered)
           f == TextOfCancelled(registered, "replaced")
<1>1. Types /\ OneGoesOn /\ Messages
  BY DEF Inv, Messages
<1>2. Calmer(s) /\ \A r \in DOMAIN runner : ~GoesOn(s[r])
  BY <1>1, CancelledShape
<1>3. DOMAIN s = DOMAIN runner /\ s \in Seq(RunnerRecord)
  BY <1>1, <1>2, Shape DEF Calmer, Types
<1>4. Barrier \in Nat
  BY <1>1, Shape DEF Barrier, Types
<1>5. /\ runner' = Append(s, NewRunner("redirect", t, Barrier))
      /\ registered' = Len(runner') /\ target' = Barrier
      /\ fate' = [f EXCEPT ![t] = "accepted"]
      /\ fate[t] = "unsaid" /\ \A u \in Texts : u < t => fate[u] # "unsaid"
  BY DEF SayRedirects, CanSay
<1>6. /\ f \in [Texts -> Fates]
      /\ \A u \in Texts : f[u] = fate[u] \/ (fate[u] = "accepted" /\ f[u] = "replaced")
  BY <1>1, FatesOfCancelled
<1>7. t \in 0..MaxTexts /\ t # 0 /\ "redirect" \in RunnerKinds
  BY MaxTextsAssumption DEF Texts, RunnerKinds
<1> DEFINE x == NewRunner("redirect", t, Barrier)
<1>8. x \in RunnerRecord /\ x.pc = "new" /\ x.text = t
  BY <1>4, <1>7, NewRunnerShape
<1> HIDE DEF s, f, x
<1>9. FateStep /\ fate'[t] # "unsaid"
  <2>1. /\ fate' \in [Texts -> Fates] /\ fate'[t] = "accepted"
        /\ \A u \in Texts : u # t => fate'[u] = f[u]
    BY <1>5, <1>6 DEF Fates
  <2>2. \A u \in Texts : u # t =>
          fate'[u] = fate[u] \/ (fate[u] = "accepted" /\ fate'[u] = "replaced")
    BY <2>1, <1>6
  <2>3. ASSUME NEW u \in Texts
        PROVE  /\ fate[u] # "unsaid" => fate'[u] # "unsaid"
               /\ fate[u] = "unsaid" /\ fate'[u] # "unsaid" =>
                    \A v \in Texts : v < u => fate[v] # "unsaid"
               /\ fate'[u] = "heard" => fate[u] = "heard"
    <3>1. CASE u = t
      BY <3>1, <2>1, <1>5
    <3>2. CASE u # t
      BY <3>2, <2>2
    <3> QED
      BY <3>1, <3>2
  <2> QED
    BY <2>1, <2>3 DEF FateStep
<1>10. runner' = Append(s, x)
  BY <1>5 DEF x
<1>11. Types' /\ OneGoesOn' /\ Messages'
  BY <1>1, <1>2, <1>4, <1>5, <1>8, <1>9, <1>10, AddKeeps
<1>12. InterruptedMeansStopped'
  BY <1>2, <1>3, <1>8, <1>10, AddIsInterrupted
<1> QED
  BY <1>11, <1>12 DEF Inv, Messages

\* A message that changes its own fate only.
LEMMA OneFate ==
  ASSUME Types, NEW t \in Texts, NEW outcome \in Fates \ {"unsaid"},
         fate' = [fate EXCEPT ![t] = outcome],
         fate[t] = "unsaid" => \A u \in Texts : u < t => fate[u] # "unsaid",
         outcome = "heard" => \E q \in DOMAIN runner : runner[q].text = t
  PROVE  FateStep /\ fate'[t] = outcome
BY DEF Types, FateStep

LEMMA NoFate ==
  ASSUME Types, fate' = fate
  PROVE  FateStep
BY DEF Types, FateStep

\* With no runner registered and live, nobody goes on.
LEMMA Unregistered ==
  ASSUME Types, OneGoesOn, ~Live(registered)
  PROVE  \A r \in DOMAIN runner : ~GoesOn(runner[r])
BY Shape DEF Live, Types, OneGoesOn, GoesOn, LivePcs

LEMMA SelfCalmer ==
  ASSUME Types
  PROVE  Calmer(runner)
BY DEF Types, Calmer

LEMMA SayRefusedKeeps ==
  ASSUME Inv, NEW t \in Texts, SayRefused(t)
  PROVE  Inv'
<1>1. Types /\ OneGoesOn /\ Messages
  BY DEF Inv, Messages
<1>2. UNCHANGED <<row, runner, registered, target>>
  BY DEF SayRefused, registry
<1>3. FateStep
  BY <1>1, OneFate DEF SayRefused, CanSay, Fates
<1>4. Types' /\ OneGoesOn' /\ Messages'
  BY <1>1, <1>2, <1>3, SelfCalmer, CalmKeeps DEF Types
<1> QED
  BY <1>2, <1>4 DEF Inv, InterruptedMeansStopped, Messages

LEMMA SayContinuesKeeps ==
  ASSUME Inv, NEW t \in Texts, SayContinues(t)
  PROVE  Inv'
<1>1. Types /\ OneGoesOn /\ Messages
  BY DEF Inv, Messages
<1>2. target' = target /\ target \in Nat
  BY <1>1 DEF SayContinues, Types
<1>3. fate[t] = "unsaid" /\ \A u \in Texts : u < t => fate[u] # "unsaid"
  BY DEF SayContinues, CanSay
<1>4. CASE Live(registered)
  <2>1. UNCHANGED <<runner, registered>> /\ fate' = [fate EXCEPT ![t] = "dropped"]
    BY <1>4 DEF SayContinues
  <2>2. FateStep
    BY <2>1, <1>1, <1>3, OneFate DEF Fates
  <2>3. row' = row
    BY <1>4 DEF SayContinues, SettledRow
  <2>4. Types' /\ OneGoesOn' /\ Messages'
    BY <1>1, <1>2, <2>1, <2>2, SelfCalmer, CalmKeeps
  <2> QED
    BY <2>1, <2>3, <2>4 DEF Inv, InterruptedMeansStopped, Messages
<1>5. CASE ~Live(registered)
  <2> DEFINE x == NewRunner("turn", t, 0)
  <2>1. runner' = Append(runner, x) /\ registered' = Len(runner')
        /\ fate' = [fate EXCEPT ![t] = "accepted"]
    BY <1>5 DEF SayContinues
  <2>2. FateStep /\ fate'[t] # "unsaid"
    BY <2>1, <1>1, <1>3, OneFate DEF Fates
  <2>3. x \in RunnerRecord /\ x.pc = "new" /\ x.text = t
    BY NewRunnerShape, MaxTextsAssumption DEF Texts, RunnerKinds
  <2>4. Calmer(runner) /\ \A r \in DOMAIN runner : ~GoesOn(runner[r])
    BY <1>1, <1>5, Unregistered, SelfCalmer
  <2> HIDE DEF x
  <2>5. Types' /\ OneGoesOn' /\ Messages'
    BY <1>1, <1>2, <1>3, <2>1, <2>2, <2>3, <2>4, AddKeeps
  <2>6. InterruptedMeansStopped'
    BY <2>1, <2>3, <2>4, AddIsInterrupted DEF Calmer
  <2> QED
    BY <2>5, <2>6 DEF Inv, Messages
<1> QED
  BY <1>4, <1>5

\* interrupt and cancel: the registered runner is asked to stop.
LEMMA CommandKeeps ==
  ASSUME Inv, runner' = Cancelled(registered), fate' = TextOfCancelled(registered, "stopped"),
         registered' = registered, target' = target
  PROVE  Inv'
<1> DEFINE s == Cancelled(registered)
           f == TextOfCancelled(registered, "stopped")
<1>1. Types /\ OneGoesOn /\ Messages
  BY DEF Inv, Messages
<1>2. Calmer(s) /\ \A r \in DOMAIN runner : ~GoesOn(s[r])
  BY <1>1, CancelledShape
<1>3. DOMAIN s = DOMAIN runner /\ s \in Seq(RunnerRecord)
  BY <1>1, <1>2, Shape DEF Calmer, Types
<1>4. /\ f \in [Texts -> Fates]
      /\ \A u \in Texts : f[u] = fate[u] \/ (fate[u] = "accepted" /\ f[u] = "stopped")
  BY <1>1, FatesOfCancelled
<1>5. runner' = s /\ fate' = f
  OBVIOUS
<1> HIDE DEF s, f
<1>6. FateStep
  BY <1>4, <1>5 DEF FateStep
<1>7. Types' /\ OneGoesOn' /\ Messages'
  BY <1>1, <1>2, <1>5, <1>6, CalmKeeps DEF Types
<1>8. InterruptedMeansStopped'
  BY <1>2, <1>3, <1>5, NobodyGoesOn DEF InterruptedMeansStopped
<1> QED
  BY <1>7, <1>8 DEF Inv, Messages

\* An answer registers its runner only when no live one is registered.
LEMMA ReplyKeeps ==
  ASSUME Inv, NEW a, RegistersReply(a), UNCHANGED <<row, target, fate>>
  PROVE  Inv'
<1>1. Types /\ OneGoesOn /\ Messages /\ FateStep /\ target' \in Nat
  BY NoFate DEF Inv, Messages, Types
<1>2. CASE Live(registered)
  <2>1. UNCHANGED <<runner, registered>>
    BY <1>2 DEF RegistersReply
  <2>2. Types' /\ OneGoesOn' /\ Messages'
    BY <1>1, <2>1, SelfCalmer, CalmKeeps
  <2> QED
    BY <2>1, <2>2 DEF Inv, InterruptedMeansStopped, Messages
<1>3. CASE ~Live(registered)
  <2> DEFINE x == NewRunner("reply", 0, 0)
  <2>1. runner' = Append(runner, x) /\ registered' = Len(runner')
    BY <1>3 DEF RegistersReply
  <2>2. x \in RunnerRecord /\ x.pc = "new" /\ x.text = 0
    BY NewRunnerShape, MaxTextsAssumption DEF RunnerKinds
  <2>3. Calmer(runner) /\ \A r \in DOMAIN runner : ~GoesOn(runner[r])
    BY <1>1, <1>3, Unregistered, SelfCalmer
  <2> HIDE DEF x
  <2>4. Types' /\ OneGoesOn' /\ Messages'
    BY <1>1, <2>1, <2>2, <2>3, AddKeeps
  <2>5. InterruptedMeansStopped'
    BY <2>1, <2>2, <2>3, AddIsInterrupted DEF Calmer
  <2> QED
    BY <2>4, <2>5 DEF Inv, Messages
<1> QED
  BY <1>2, <1>3

\* A runner that leaves its place without beginning a Turn.
LEMMA LeavesKeeps ==
  ASSUME Inv, NEW r \in DOMAIN runner, NEW pc \in {"wait", "done", "gone"},
         pc = "wait" => GoesOn(runner[r]),
         runner' = [runner EXCEPT ![r].pc = pc], FateStep, row' = row, target' \in Nat,
         registered' # registered => registered' = 0 /\ registered = r /\ pc # "wait"
  PROVE  Inv'
<1>1. Types /\ OneGoesOn /\ Messages
  BY DEF Inv, Messages
<1>2. /\ Calmer(runner')
      /\ runner'[r].pc = pc /\ runner'[r].stop = runner[r].stop
      /\ \A q \in DOMAIN runner : q # r => runner'[q] = runner[q]
  BY <1>1, PcMove DEF LivePcs
<1>3. registered' # registered => \A q \in DOMAIN runner : ~GoesOn(runner'[q])
  BY <1>1, <1>2 DEF OneGoesOn, GoesOn, LivePcs
<1>4. Types' /\ OneGoesOn' /\ Messages'
  BY <1>1, <1>2, <1>3, CalmKeeps
<1>5. DOMAIN runner' = DOMAIN runner
  BY <1>1, <1>2, Shape DEF Calmer, Types
<1>6. InterruptedMeansStopped'
  BY <1>2, <1>5 DEF Inv, InterruptedMeansStopped
<1> QED
  BY <1>4, <1>6 DEF Inv, Messages

LEMMA LiveRunner ==
  ASSUME Types, NEW r \in DOMAIN runner, NotBegun(r), runner[r].stop = "no"
  PROVE  GoesOn(runner[r]) /\ runner[r].text \in 0..MaxTexts
BY Shape DEF NotBegun, GoesOn, LivePcs, Types, RunnerRecord

LEMMA TextOfIsStep ==
  ASSUME Inv, NEW r \in DOMAIN runner, NEW outcome \in {"heard", "overtaken"},
         fate' = TextOf(r, outcome)
  PROVE  FateStep
<1>1. Types /\ RunnersOfSaid
  BY DEF Inv
<1>2. runner[r].text \in 0..MaxTexts
  BY <1>1, Shape DEF Types, RunnerRecord
<1>3. CASE runner[r].text = 0
  BY <1>1, <1>3, NoFate DEF TextOf
<1>4. CASE runner[r].text # 0
  <2> DEFINE t == runner[r].text
  <2>1. t \in Texts /\ fate[t] # "unsaid" /\ fate' = [fate EXCEPT ![t] = outcome]
    BY <1>1, <1>2, <1>4, MaxTextsAssumption DEF Texts, RunnersOfSaid, TextOf
  <2> QED
    BY <1>1, <2>1, OneFate DEF Fates
<1> QED
  BY <1>3, <1>4

LEMMA BeginsKeeps ==
  ASSUME Inv, NEW r \in DOMAIN runner, Begins(r)
  PROVE  Inv'
<1>1. Types /\ OneGoesOn /\ Messages
  BY DEF Inv, Messages
<1>2. /\ NotBegun(r) /\ runner[r].stop = "no" /\ runner' = [runner EXCEPT ![r].pc = "turn"]
      /\ fate' = TextOf(r, "heard") /\ UNCHANGED <<registered, target>> /\ row' = "EXECUTING"
  BY DEF Begins, MayBegin, registry
<1>3. GoesOn(runner[r])
  BY <1>1, <1>2, LiveRunner
<1>4. Calmer(runner')
  BY <1>1, <1>2, <1>3, PcMove DEF LivePcs
<1>5. FateStep
  BY <1>2, TextOfIsStep
<1>6. Types' /\ OneGoesOn' /\ Messages'
  BY <1>1, <1>2, <1>4, <1>5, CalmKeeps DEF Types
<1> QED
  BY <1>2, <1>6 DEF Inv, InterruptedMeansStopped, Messages

\* A Turn that ends by itself was the one that went on, or had lost its stop.
LEMMA EndsKeeps ==
  ASSUME Inv, NEW r \in DOMAIN runner, Ends(r)
  PROVE  Inv'
<1>1. Types /\ OneGoesOn /\ Messages
  BY DEF Inv, Messages
<1>2. /\ runner[r].pc = "turn" /\ runner[r].stop # "asked"
      /\ runner' = [runner EXCEPT ![r].pc = "done"]
      /\ UNCHANGED <<registered, target, fate>>
  BY DEF Ends, registry
<1>3. /\ Calmer(runner')
      /\ runner'[r].pc = "done" /\ runner'[r].stop = runner[r].stop
      /\ \A q \in DOMAIN runner : q # r => runner'[q] = runner[q]
  BY <1>1, <1>2, PcMove DEF LivePcs
<1>4. Types' /\ OneGoesOn' /\ Messages'
  BY <1>1, <1>2, <1>3, NoFate, CalmKeeps DEF Types
<1>5. DOMAIN runner' = DOMAIN runner /\ runner' \in Seq(RunnerRecord)
  BY <1>1, <1>3, Shape DEF Calmer, Types
<1>6. ASSUME runner[r].stop = "lost" PROVE InterruptedMeansStopped'
  BY <1>3, <1>5, <1>6 DEF InterruptedMeansStopped
<1>7. ASSUME runner[r].stop = "no" PROVE InterruptedMeansStopped'
  <2>1. registered = r
    BY <1>1, <1>2, <1>7 DEF OneGoesOn, GoesOn, LivePcs
  <2>2. \A q \in DOMAIN runner' : ~GoesOn(runner'[q])
    BY <1>1, <1>3, <1>5, <2>1 DEF OneGoesOn, GoesOn, LivePcs
  <2> QED
    BY <1>5, <2>2, NobodyGoesOn DEF InterruptedMeansStopped
<1>8. runner[r].stop \in {"no", "asked", "lost"}
  BY <1>1, Shape DEF Types, RunnerRecord
<1> QED
  BY <1>2, <1>4, <1>6, <1>7, <1>8 DEF Inv, Messages

LEMMA SwallowsKeeps ==
  ASSUME Inv, NEW r \in DOMAIN runner, Swallows(r)
  PROVE  Inv'
<1> DEFINE x == [runner[r] EXCEPT !.stop = "lost"]
<1>1. Types /\ OneGoesOn /\ Messages
  BY DEF Inv, Messages
<1>2. /\ runner[r].pc = "turn" /\ runner' = [runner EXCEPT ![r] = x]
      /\ UNCHANGED <<registered, target, fate>>
  BY DEF Swallows, registry
<1>3. runner[r] \in RunnerRecord
  BY <1>1, Shape DEF Types
<1>4. x \in RunnerRecord /\ x.text = runner[r].text /\ x.stop = "lost"
  BY <1>3 DEF RunnerRecord
<1> HIDE DEF x
<1>5. /\ runner' \in Seq(RunnerRecord) /\ Len(runner') = Len(runner) /\ runner'[r] = x
      /\ \A q \in DOMAIN runner : q # r => runner'[q] = runner[q]
  BY <1>1, <1>2, <1>4, ExceptShape DEF Types
<1>6. Calmer(runner')
  BY <1>2, <1>4, <1>5 DEF Calmer, GoesOn
<1>7. Types' /\ OneGoesOn' /\ Messages'
  BY <1>1, <1>2, <1>6, NoFate, CalmKeeps DEF Types
<1>8. r \in DOMAIN runner'
  BY <1>1, <1>5, Shape DEF Types
<1> QED
  BY <1>4, <1>5, <1>7, <1>8 DEF Inv, InterruptedMeansStopped, Messages

-----------------------------------------------------------------------------
(* The theorems.                                                           *)

LEMMA InitInv == Init => Inv
<1> SUFFICES ASSUME Init PROVE Inv
  OBVIOUS
<1> DEFINE x == NewRunner("first", 1, 0)
<1>1. x \in RunnerRecord /\ x.pc = "new" /\ x.text = 1
  BY NewRunnerShape, MaxTextsAssumption DEF RunnerKinds
<1>2. runner = <<x>> /\ registered = 1 /\ target = 0
  BY DEF Init
<1> HIDE DEF x
<1>3. runner \in Seq(RunnerRecord) /\ Len(runner) = 1 /\ DOMAIN runner = {1} /\ runner[1] = x
  BY <1>1, <1>2
<1>4. /\ fate \in [Texts -> Fates]
      /\ \A t \in Texts : fate[t] = IF t = 1 THEN "accepted" ELSE "unsaid"
  BY DEF Init, Fates
<1>5. Types /\ OneGoesOn /\ InterruptedMeansStopped
  BY <1>1, <1>2, <1>3, <1>4 DEF Types, OneGoesOn, InterruptedMeansStopped
<1>6. SaidInOrder /\ HeardHaveRunners
  BY <1>4, MaxTextsAssumption DEF SaidInOrder, HeardHaveRunners, Texts
<1>7. RunnersOfSaid /\ TextsGrow
  BY <1>1, <1>3, <1>4, MaxTextsAssumption DEF RunnersOfSaid, TextsGrow, Texts
<1> QED
  BY <1>5, <1>6, <1>7 DEF Inv

\* What the runners, the loop and the polling sender do by themselves.
LEMMA RunnerStepsKeep ==
  ASSUME Inv, NEW r \in DOMAIN runner, RunnerSteps(r)
  PROVE  Inv'
<1>1. Types
  BY DEF Inv
<1>2. ASSUME Dies(r) PROVE Inv'
  BY <1>1, <1>2, LeavesKeeps, NoFate DEF Dies, registry, Types
<1>3. ASSUME WaitsForBarrier(r) PROVE Inv'
  <2>1. GoesOn(runner[r])
    BY <1>1, <1>3, LiveRunner DEF WaitsForBarrier, NotBegun
  <2> QED
    BY <1>1, <1>3, <2>1, LeavesKeeps, NoFate DEF WaitsForBarrier, registry, Types
<1>4. ASSUME Returns(r) PROVE Inv'
  BY <1>1, <1>4, LeavesKeeps, TextOfIsStep DEF Returns, registry, Types
<1>5. ASSUME Unwinds(r) PROVE Inv'
  BY <1>1, <1>5, LeavesKeeps, NoFate DEF Unwinds, registry, Types
<1>6. ASSUME CallbackRuns(r) PROVE Inv'
  <2>1. target' \in Nat /\ (registered' # registered => registered' = 0 /\ registered = r)
    BY <1>1, <1>6 DEF CallbackRuns, CallbackClears, Types
  <2> QED
    BY <1>1, <1>6, <2>1, LeavesKeeps, NoFate DEF CallbackRuns
<1> QED
  BY <1>2, <1>3, <1>4, <1>5, <1>6, BeginsKeeps, EndsKeeps DEF RunnerSteps

LEMMA StepInv == Inv /\ [Next]_vars => Inv'
<1> SUFFICES ASSUME Inv, [Next]_vars PROVE Inv'
  OBVIOUS
<1>1. ASSUME NEW t \in Texts, SayRefused(t) \/ SayRedirects(t) \/ SayContinues(t) PROVE Inv'
  BY <1>1, SayRefusedKeeps, SayRedirectsKeeps, SayContinuesKeeps
<1>2. ASSUME UNCHANGED <<row, runner, registered, target, fate>> PROVE Inv'
  BY <1>2 DEF Inv, Types, OneGoesOn, InterruptedMeansStopped, SaidInOrder, RunnersOfSaid,
     TextsGrow, HeardHaveRunners
<1>3. ASSUME PollEnds PROVE Inv'
  BY <1>2, <1>3 DEF PollEnds, registry
<1>4. ASSUME Interrupt PROVE Inv'
  BY <1>4, CommandKeeps DEF Interrupt, registry
<1>5. ASSUME CancelTask PROVE Inv'
  BY <1>5, CommandKeeps DEF CancelTask, registry
<1>6. ASSUME NEW a \in Replies, Answer(a) \/ AnswerWakes(a) PROVE Inv'
  BY <1>6, ReplyKeeps DEF Answer, AnswerWakes
<1>7. ASSUME NEW r \in DOMAIN runner, RunnerSteps(r) \/ Swallows(r) PROVE Inv'
  BY <1>7, RunnerStepsKeep, SwallowsKeeps
<1>8. ASSUME UNCHANGED vars PROVE Inv'
  BY <1>2, <1>8 DEF vars, registry
<1> QED
  BY <1>1, <1>3, <1>4, <1>5, <1>6, <1>7, <1>8 DEF Next

LEMMA InvHolds == Spec => []Inv
BY InitInv, StepInv, PTL DEF Spec

\* For any number of messages, answers and commands, a runner that goes on is the
\* registered one (_register_runner, _run_owned_continuation, _runner_finished).
THEOREM OnlyRegisteredHolds == Spec => []OnlyRegisteredGoesOn
<1>1. Inv => OnlyRegisteredGoesOn
  <2> SUFFICES ASSUME Inv, NEW r \in DOMAIN runner, Live(r), runner[r].stop = "no"
               PROVE  registered = r
    BY DEF OnlyRegisteredGoesOn
  <2>1. GoesOn(runner[r])
    BY Shape DEF Inv, Types, RunnerRecord, Live, GoesOn
  <2> QED
    BY <2>1 DEF Inv, OneGoesOn
<1> QED
  BY <1>1, InvHolds, PTL

\* For any number of messages, answers and commands, an INTERRUPTED row means that
\* every Turn of the process has been asked to stop, unless one lost the request.
THEOREM InterruptedMeansStoppedHolds == Spec => []InterruptedMeansStopped
<1>1. Inv => InterruptedMeansStopped
  BY DEF Inv
<1> QED
  BY <1>1, InvHolds, PTL

\* A message is heard only when its runner begins its Turn.
LEMMA HeardBegins ==
  ASSUME Inv, [Next]_vars, NEW t \in Texts, fate[t] # "heard", fate'[t] = "heard"
  PROVE  \E r \in DOMAIN runner : Begins(r) /\ runner[r].text = t
<1>1. Types
  BY DEF Inv
<1>2. ASSUME NEW u \in Texts, SayRefused(u) \/ SayRedirects(u) \/ SayContinues(u) PROVE FALSE
  <2>1. SayRedirects(u)
    BY <1>1, <1>2 DEF SayRefused, SayContinues, Types
  <2>2. fate' = [TextOfCancelled(registered, "replaced") EXCEPT ![u] = "accepted"]
    BY <2>1 DEF SayRedirects
  <2> QED
    BY <1>1, <2>2, FatesOfCancelled
<1>3. ASSUME Interrupt \/ CancelTask PROVE FALSE
  <2>1. fate' = TextOfCancelled(registered, "stopped")
    BY <1>3 DEF Interrupt, CancelTask
  <2> QED
    BY <1>1, <2>1, FatesOfCancelled
<1>4. ~UNCHANGED fate
  OBVIOUS
<1>5. ~PollEnds /\ ~UNCHANGED vars /\ \A a \in Replies : ~Answer(a) /\ ~AnswerWakes(a)
  BY <1>4 DEF PollEnds, vars, Answer, AnswerWakes
<1>6. PICK r \in DOMAIN runner : RunnerSteps(r) \/ Swallows(r)
  BY <1>2, <1>3, <1>5 DEF Next
<1>7. Begins(r) \/ Returns(r)
  BY <1>4, <1>6 DEF RunnerSteps, Dies, WaitsForBarrier, Ends, Unwinds, CallbackRuns, Swallows
<1>8. runner[r].text \in 0..MaxTexts
  BY <1>1, Shape DEF Types, RunnerRecord
<1>9. Begins(r) /\ runner[r].text = t
  <2>1. ASSUME Returns(r) PROVE FALSE
    BY <1>1, <1>8, <2>1 DEF Returns, TextOf, Types
  <2>2. fate' = TextOf(r, "heard")
    BY <1>7, <2>1 DEF Begins
  <2> QED
    BY <1>1, <1>7, <1>8, <2>1, <2>2 DEF TextOf, Types
<1> QED
  BY <1>9

\* For any number of messages, answers and commands, no message is heard after one
\* that was said later: a runner that begins is the newest, so its message is the
\* last that any runner was made for.
THEOREM HeardInOrderHolds == Spec => HeardInOrder
<1> DEFINE Ordered ==
      \A t, u \in Texts : t < u /\ fate[u] = "heard" /\ fate[t] # "heard" => fate'[t] # "heard"
<1>1. ASSUME Inv, [Next]_vars PROVE Ordered
  <2> SUFFICES ASSUME NEW t \in Texts, NEW u \in Texts, t < u, fate[u] = "heard",
                      fate[t] # "heard", fate'[t] = "heard"
               PROVE  FALSE
    OBVIOUS
  <2>1. PICK r \in DOMAIN runner : Begins(r) /\ runner[r].text = t
    BY <1>1, HeardBegins
  <2>2. PICK q \in DOMAIN runner : runner[q].text = u
    BY <1>1 DEF Inv, HeardHaveRunners
  <2>3. GoesOn(runner[r])
    BY <1>1, <2>1, LiveRunner DEF Begins, MayBegin, Inv
  <2>4. r = Len(runner)
    BY <1>1, <2>3, Shape DEF Inv, Types, OneGoesOn
  <2>5. q < r
    BY <1>1, <2>1, <2>2, <2>4, Shape DEF Inv, Types, Texts
  <2> QED
    BY <1>1, <2>1, <2>2, <2>5 DEF Inv, TextsGrow, Texts
<1>2. Inv /\ [Next]_vars => [Ordered]_vars
  BY <1>1
<1> QED
  BY <1>2, InvHolds, PTL DEF Spec, HeardInOrder
-----------------------------------------------------------------------------
(* No message is left waiting.  Every accepted message is with the         *)
(* registered runner, which has not begun and was not asked to stop; and   *)
(* every runner either has a step of its own to take or waits for one      *)
(* runner, made before it, that has.  No runner goes back, so with the     *)
(* scheduler's fairness an accepted message is settled after boundedly     *)
(* many steps of its runner and of the one it replaces.                    *)

\* A runner that will begin its Turn.
Pending(x) == x.pc \in {"new", "wait"} /\ x.stop = "no"

\* A step of runner r itself is enabled (RunnerSteps).
RunnerReady(r) ==
  \/ NotBegun(r) /\ (runner[r].stop # "no" \/ runner[r].pc = "new" \/ ~Live(runner[r].barrier))
  \/ runner[r].pc \in {"turn", "done"}

\* Or the runner it waits for has one; that one waits for nobody.
InHand(r) ==
  \/ RunnerReady(r)
  \/ runner[r].barrier \in 1..r - 1 /\ RunnerReady(runner[r].barrier)

AcceptedRegistered ==
  \A t \in Texts : fate[t] = "accepted" =>
    registered # 0 /\ runner[registered].text = t /\ Pending(runner[registered])

AwaitedRunners == \A a \in Replies : reply[a].is = "waiting" => reply[a].on \in DOMAIN runner

NobodyIsLeftWaiting ==
  /\ AcceptedRegistered
  /\ AwaitedRunners
  /\ \A r \in DOMAIN runner : runner[r].pc # "gone" => InHand(r)

\* Barriers are earlier runners, and so is the one the next redirect may inherit.
Links == /\ \A r \in DOMAIN runner : runner[r].barrier < r
         /\ target <= Len(runner)
         /\ DOMAIN reply = Replies
         /\ AwaitedRunners
         /\ AcceptedRegistered

\* How far a runner is on its way.
Place(pc) ==
  CASE pc = "new" -> 0 [] pc = "wait" -> 1 [] pc = "turn" -> 2 [] pc = "done" -> 3 [] OTHER -> 4

\* Runner x of one state is y in a later one.
Later(x, y) == /\ y.text = x.text /\ y.barrier = x.barrier
               /\ Place(y.pc) >= Place(x.pc)
               /\ x.stop # "no" => y.stop # "no"

Onward ==
  /\ Len(runner) <= Len(runner')
  /\ \A r \in DOMAIN runner' :
       IF r \in DOMAIN runner THEN Later(runner[r], runner'[r]) ELSE runner'[r].barrier < r

LEMMA LaterSelf == ASSUME NEW x PROVE Later(x, x)
BY DEF Later, Place

\* The runners after a step that makes none.
LEMMA SameRunners ==
  ASSUME Types, NEW s, Calmer(s), runner' = s, \A r \in DOMAIN runner : Later(runner[r], s[r])
  PROVE  Onward
<1>1. DOMAIN runner' = DOMAIN runner /\ Len(runner') = Len(runner) /\ Len(runner) \in Nat
  BY Shape DEF Calmer, Types
<1> QED
  BY <1>1 DEF Onward

\* The runners after a step that makes one.
LEMMA OneMoreRunner ==
  ASSUME Types, NEW s, Calmer(s), NEW x \in RunnerRecord, runner' = Append(s, x),
         x.barrier <= Len(runner), \A r \in DOMAIN runner : Later(runner[r], s[r])
  PROVE  Onward
<1> DEFINE n == Len(runner)
<1>1. n \in Nat /\ DOMAIN runner = 1..n /\ Len(s) = n /\ DOMAIN s = 1..n /\ s \in Seq(RunnerRecord)
  BY Shape DEF Calmer, Types
<1>2. /\ runner' \in Seq(RunnerRecord) /\ Len(runner') = n + 1 /\ runner'[n + 1] = x
      /\ \A r \in 1..n : runner'[r] = s[r]
  BY <1>1, AppendShape
<1>3. DOMAIN runner' = 1..n + 1
  BY <1>2, Shape
<1>4. x.barrier \in Nat
  BY DEF RunnerRecord
<1>5. \A r \in 1..n + 1 : r \notin 1..n => r = n + 1
  BY <1>1
<1>6. n <= Len(runner') /\ x.barrier < n + 1
  BY <1>1, <1>2, <1>4
<1>7. \A r \in 1..n : Later(runner[r], runner'[r])
  BY <1>1, <1>2
<1> HIDE DEF n
<1>8. ASSUME NEW r \in 1..n + 1
      PROVE  IF r \in 1..n THEN Later(runner[r], runner'[r]) ELSE runner'[r].barrier < r
  BY <1>2, <1>5, <1>6, <1>7, <1>8
<1> QED
  BY <1>1, <1>3, <1>6, <1>8 DEF Onward, n

LEMMA CancelledLater ==
  ASSUME Types
  PROVE  \A r \in DOMAIN runner : Later(runner[r], Cancelled(registered)[r])
<1>1. CASE ~Live(registered)
  BY <1>1, LaterSelf DEF Cancelled
<1>2. CASE Live(registered)
  <2> DEFINE k == registered
             x == [runner[k] EXCEPT !.stop = "asked"]
  <2>1. k \in DOMAIN runner /\ runner[k] \in RunnerRecord
    BY <1>2, Shape DEF Live, Types
  <2>2. Cancelled(k) = [runner EXCEPT ![k] = x]
    BY <1>2 DEF Cancelled
  <2>3. x.text = runner[k].text /\ x.barrier = runner[k].barrier /\ x.pc = runner[k].pc /\ x.stop = "asked"
    BY <2>1 DEF RunnerRecord
  <2>4. Later(runner[k], x)
    BY <2>3 DEF Later, Place
  <2> HIDE DEF x
  <2>5. ASSUME NEW r \in DOMAIN runner PROVE Later(runner[r], [runner EXCEPT ![k] = x][r])
    BY <2>1, <2>4, LaterSelf
  <2> QED
    BY <2>2, <2>5
<1> QED
  BY <1>1, <1>2

\* A runner moves along.
LEMMA PcLater ==
  ASSUME Types, NEW r \in DOMAIN runner, NEW pc \in LivePcs \cup {"done", "gone"},
         Place(pc) > Place(runner[r].pc),
         pc = "turn" => GoesOn(runner[r]), pc = "wait" => GoesOn(runner[r]),
         runner' = [runner EXCEPT ![r].pc = pc]
  PROVE  /\ Onward /\ runner'[r].pc = pc /\ runner'[r].text = runner[r].text
         /\ runner'[r].stop = runner[r].stop
         /\ \A q \in DOMAIN runner : q # r => runner'[q] = runner[q]
         /\ DOMAIN runner' = DOMAIN runner
<1>1. pc # "new"
  BY Shape DEF Place, Types, RunnerRecord, LivePcs
<1>2. /\ Calmer(runner') /\ runner'[r] = [runner[r] EXCEPT !.pc = pc]
      /\ runner'[r].pc = pc /\ runner'[r].stop = runner[r].stop
      /\ \A q \in DOMAIN runner : q # r => runner'[q] = runner[q]
  BY <1>1, PcMove DEF LivePcs
<1>3. runner'[r].text = runner[r].text /\ runner'[r].barrier = runner[r].barrier
  <2>1. runner[r] \in RunnerRecord
    BY Shape DEF Types
  <2> QED
    BY <1>2, <2>1 DEF RunnerRecord
<1>4. Place(pc) >= Place(runner[r].pc)
  BY DEF Place
<1>5. Later(runner[r], runner'[r])
  BY <1>2, <1>3, <1>4 DEF Later
<1>6. \A q \in DOMAIN runner : Later(runner[q], runner'[q])
  BY <1>2, <1>5, LaterSelf
<1>7. Onward
  BY <1>2, <1>6, SameRunners
<1>8. DOMAIN runner' = DOMAIN runner
  BY <1>2, Shape DEF Calmer, Types
<1> QED
  BY <1>2, <1>3, <1>7, <1>8

\* A runner whose stop is swallowed keeps its place.
LEMMA SwallowsLater ==
  ASSUME Types, NEW r \in DOMAIN runner, Swallows(r)
  PROVE  /\ Onward /\ DOMAIN runner' = DOMAIN runner
         /\ \A q \in DOMAIN runner : q # r => runner'[q] = runner[q]
<1> DEFINE x == [runner[r] EXCEPT !.stop = "lost"]
<1>1. runner' = [runner EXCEPT ![r] = x] /\ runner[r] \in RunnerRecord
  BY Shape DEF Swallows, Types
<1>2. /\ x \in RunnerRecord /\ x.text = runner[r].text /\ x.barrier = runner[r].barrier
      /\ x.pc = runner[r].pc /\ x.stop = "lost"
  BY <1>1 DEF RunnerRecord
<1> HIDE DEF x
<1>3. /\ runner' \in Seq(RunnerRecord) /\ Len(runner') = Len(runner) /\ runner'[r] = x
      /\ \A q \in DOMAIN runner : q # r => runner'[q] = runner[q]
  BY <1>1, <1>2, ExceptShape DEF Types
<1>4. Calmer(runner')
  BY <1>2, <1>3 DEF Calmer, GoesOn
<1>5. Later(runner[r], runner'[r])
  BY <1>2, <1>3 DEF Later, Place
<1>6. \A q \in DOMAIN runner : Later(runner[q], runner'[q])
  BY <1>3, <1>5, LaterSelf
<1> QED
  BY <1>3, <1>4, <1>6, SameRunners, Shape DEF Types
-----------------------------------------------------------------------------
(* The steps.                                                              *)

\* A message is accepted only while the registered runner is to begin its Turn.
LEMMA NoneAccepted ==
  ASSUME AcceptedRegistered, registered = 0 \/ ~Pending(runner[registered])
  PROVE  \A t \in Texts : fate[t] # "accepted"
BY DEF AcceptedRegistered

\* A step that leaves the registered runner alone, or meets one that waits for nothing.
LEMMA AcceptedStays ==
  ASSUME AcceptedRegistered, fate' = fate,
         registered # 0 /\ Pending(runner[registered]) =>
           /\ registered' = registered
           /\ runner'[registered].text = runner[registered].text
           /\ Pending(runner'[registered])
  PROVE  AcceptedRegistered'
BY DEF AcceptedRegistered

\* A cancelled runner takes the message it has not begun with it.
LEMMA CommandAccepts ==
  ASSUME Types, AcceptedRegistered, NEW outcome \in {"replaced", "stopped"}
  PROVE  \A t \in Texts : TextOfCancelled(registered, outcome)[t] # "accepted"
<1> SUFFICES ASSUME NEW t \in Texts, TextOfCancelled(registered, outcome)[t] = "accepted"
             PROVE  FALSE
  OBVIOUS
<1>1. fate[t] = "accepted"
  BY FatesOfCancelled
<1>2. registered # 0 /\ runner[registered].text = t /\ Pending(runner[registered])
  BY <1>1 DEF AcceptedRegistered
<1>3. Live(registered) /\ NotBegun(registered) /\ t # 0
  BY <1>2 DEF Live, NotBegun, Pending, Texts
<1>4. TextOfCancelled(registered, outcome) = [fate EXCEPT ![t] = IF @ = "accepted" THEN outcome ELSE @]
  BY <1>2, <1>3 DEF TextOfCancelled
<1> QED
  BY <1>1, <1>4 DEF Types

\* What is with a registered runner that is to begin goes on.
LEMMA PendingIsLive ==
  ASSUME NEW r \in DOMAIN runner, Pending(runner[r])
  PROVE  Live(r) <=> r # 0
BY DEF Pending, Live

\* The parts of Links that do not speak of one message.
LEMMA LinksFollow ==
  ASSUME Types, Types', Links, Onward, target' <= Len(runner'), AcceptedRegistered',
         DOMAIN reply' = Replies,
         \A a \in Replies : reply'[a].is = "waiting" =>
           reply'[a] = reply[a] \/ reply'[a].on \in DOMAIN runner
  PROVE  Links'
<1>1. /\ DOMAIN runner = 1..Len(runner) /\ DOMAIN runner' = 1..Len(runner')
      /\ Len(runner) \in Nat /\ Len(runner') \in Nat
  BY Shape DEF Types
<1>2. \A r \in DOMAIN runner : r \in DOMAIN runner'
  BY <1>1 DEF Onward
<1>3. \A r \in DOMAIN runner' : runner'[r].barrier < r
  BY DEF Onward, Later, Links
<1>4. AwaitedRunners'
  BY <1>2 DEF AwaitedRunners, Links
<1> QED
  BY <1>3, <1>4 DEF Links

LEMMA SayRedirectsLinks ==
  ASSUME Inv, Inv', Links, NEW t \in Texts, SayRedirects(t)
  PROVE  Onward /\ Links'
<1> DEFINE s == Cancelled(registered)
           f == TextOfCancelled(registered, "replaced")
           x == NewRunner("redirect", t, Barrier)
<1>1. Types /\ Types' /\ OneGoesOn /\ AcceptedRegistered
  BY DEF Inv, Links
<1>2. Calmer(s) /\ \A r \in DOMAIN runner : Later(runner[r], s[r])
  BY <1>1, CancelledShape, CancelledLater
<1>3. Barrier \in Nat /\ Barrier <= Len(runner)
  BY <1>1, Shape DEF Barrier, Types, Links
<1>4. t \in 0..MaxTexts /\ t # 0 /\ "redirect" \in RunnerKinds
  BY MaxTextsAssumption DEF Texts, RunnerKinds
<1>5. /\ x \in RunnerRecord /\ x.pc = "new" /\ x.text = t
      /\ x.barrier = Barrier /\ x.stop = "no"
  BY <1>3, <1>4, NewRunnerShape DEF NewRunner
<1>6. /\ runner' = Append(s, x) /\ registered' = Len(runner') /\ target' = Barrier
      /\ fate' = [f EXCEPT ![t] = "accepted"] /\ reply' = reply
  BY DEF SayRedirects
<1>7. /\ f \in [Texts -> Fates] /\ \A u \in Texts : f[u] # "accepted"
  BY <1>1, FatesOfCancelled, CommandAccepts
<1> HIDE DEF s, f, x
<1>8. Onward
  BY <1>1, <1>2, <1>3, <1>5, <1>6, OneMoreRunner
<1>9. registered' # 0 /\ runner'[registered'] = x
  <2>1. s \in Seq(RunnerRecord) /\ Len(s) \in Nat
    BY <1>2, Shape DEF Calmer
  <2> QED
    BY <2>1, <1>5, <1>6, AppendShape
<1>10. AcceptedRegistered'
  <2> SUFFICES ASSUME NEW u \in Texts, fate'[u] = "accepted"
               PROVE  u = t
    BY <1>5, <1>9 DEF AcceptedRegistered, Pending
  <2> QED
    BY <1>6, <1>7
<1>11. target' <= Len(runner')
  BY <1>1, <1>3, <1>6, <1>8, Shape DEF Onward, Types
<1> QED
  BY <1>1, <1>6, <1>8, <1>10, <1>11, LinksFollow DEF Links

LEMMA SayContinuesLinks ==
  ASSUME Inv, Inv', Links, NEW t \in Texts, SayContinues(t)
  PROVE  Onward /\ Links'
<1>1. Types /\ Types' /\ AcceptedRegistered
  BY DEF Inv, Links
<1>2. target' = target /\ reply' = reply /\ Calmer(runner)
  BY <1>1, SelfCalmer DEF SayContinues
<1>3. CASE Live(registered)
  <2>1. UNCHANGED <<runner, registered>> /\ fate' = [fate EXCEPT ![t] = "dropped"]
    BY <1>3 DEF SayContinues
  <2>2. Onward
    BY <1>1, <1>2, <2>1, SameRunners, LaterSelf
  <2>3. AcceptedRegistered'
    BY <1>1, <2>1 DEF AcceptedRegistered, Types
  <2> QED
    BY <1>1, <1>2, <2>1, <2>2, <2>3, LinksFollow DEF Links
<1>4. CASE ~Live(registered)
  <2> DEFINE x == NewRunner("turn", t, 0)
  <2>1. runner' = Append(runner, x) /\ registered' = Len(runner')
        /\ fate' = [fate EXCEPT ![t] = "accepted"]
    BY <1>4 DEF SayContinues
  <2>2. x \in RunnerRecord /\ x.pc = "new" /\ x.text = t /\ x.barrier = 0 /\ x.stop = "no"
    BY NewRunnerShape, MaxTextsAssumption DEF Texts, RunnerKinds, NewRunner
  <2> HIDE DEF x
  <2>3. Len(runner) \in Nat
    BY <1>1, Shape DEF Types
  <2>4. Onward
    BY <1>1, <1>2, <2>1, <2>2, <2>3, OneMoreRunner, LaterSelf
  <2>5. \A u \in Texts : fate[u] # "accepted"
    BY <1>1, <1>4, NoneAccepted DEF Live, Pending
  <2>6. registered' # 0 /\ runner'[registered'] = x
    BY <1>1, <2>1, <2>2, <2>3, AppendShape DEF Types
  <2>7. AcceptedRegistered'
    <3> SUFFICES ASSUME NEW u \in Texts, fate'[u] = "accepted"
                 PROVE  u = t
      BY <2>2, <2>6 DEF AcceptedRegistered, Pending
    <3> QED
      BY <1>1, <2>1, <2>5 DEF Types
  <2>8. target' <= Len(runner')
    BY <1>1, <1>2, <2>4, Shape DEF Onward, Types, Links
  <2> QED
    BY <1>1, <1>2, <2>4, <2>7, <2>8, LinksFollow DEF Links
<1> QED
  BY <1>3, <1>4

LEMMA CommandLinks ==
  ASSUME Inv, Inv', Links, runner' = Cancelled(registered),
         fate' = TextOfCancelled(registered, "stopped"), UNCHANGED <<registered, target, reply>>
  PROVE  Onward /\ Links'
<1>1. Types /\ Types' /\ OneGoesOn /\ AcceptedRegistered
  BY DEF Inv, Links
<1>2. Onward
  BY <1>1, CancelledShape, CancelledLater, SameRunners
<1>3. AcceptedRegistered'
  BY <1>1, CommandAccepts DEF AcceptedRegistered
<1>4. target' <= Len(runner')
  BY <1>1, <1>2, Shape DEF Onward, Types, Links
<1> QED
  BY <1>1, <1>2, <1>3, <1>4, LinksFollow DEF Links

LEMMA ReplyLinks ==
  ASSUME Inv, Inv', Links, NEW a \in Replies, RegistersReply(a), UNCHANGED <<target, fate>>
  PROVE  Onward /\ Links'
<1>1. Types /\ Types' /\ AcceptedRegistered /\ DOMAIN reply = Replies /\ Calmer(runner)
  BY SelfCalmer DEF Inv, Links
<1>2. CASE Live(registered)
  <2>1. UNCHANGED <<runner, registered>>
        /\ reply' = [reply EXCEPT ![a] = [is |-> "waiting", on |-> registered]]
    BY <1>2 DEF RegistersReply
  <2>2. Onward
    BY <1>1, <2>1, SameRunners, LaterSelf
  <2>3. AcceptedRegistered'
    BY <1>1, <2>1 DEF AcceptedRegistered
  <2>4. registered \in DOMAIN runner
    BY <1>1, <1>2, Shape DEF Live, Types
  <2>5. DOMAIN reply' = Replies /\ \A b \in Replies : reply'[b].is = "waiting" =>
          reply'[b] = reply[b] \/ reply'[b].on \in DOMAIN runner
    BY <1>1, <2>1, <2>4
  <2> QED
    BY <1>1, <2>1, <2>2, <2>3, <2>5, LinksFollow DEF Links
<1>3. CASE ~Live(registered)
  <2> DEFINE x == NewRunner("reply", 0, 0)
  <2>1. runner' = Append(runner, x) /\ registered' = Len(runner')
        /\ reply' = [reply EXCEPT ![a] = [is |-> "given", on |-> 0]]
    BY <1>3 DEF RegistersReply
  <2>2. x \in RunnerRecord /\ x.barrier = 0
    BY NewRunnerShape, MaxTextsAssumption DEF RunnerKinds, NewRunner
  <2> HIDE DEF x
  <2>3. Len(runner) \in Nat
    BY <1>1, Shape DEF Types
  <2>4. Onward
    BY <1>1, <2>1, <2>2, <2>3, OneMoreRunner, LaterSelf
  <2>5. AcceptedRegistered'
    <3>1. \A t \in Texts : fate[t] # "accepted"
      BY <1>1, <1>3, NoneAccepted DEF Live, Pending
    <3> QED
      BY <3>1 DEF AcceptedRegistered
  <2>6. DOMAIN reply' = Replies /\ \A b \in Replies : reply'[b].is = "waiting" => reply'[b] = reply[b]
    BY <1>1, <2>1
  <2>7. target' <= Len(runner')
    BY <1>1, <2>4, Shape DEF Onward, Types, Links
  <2> QED
    BY <1>1, <2>4, <2>5, <2>6, <2>7, LinksFollow
<1> QED
  BY <1>2, <1>3
\* A runner that is not to begin moves along: the registered one that is stays.
LEMMA OtherMoves ==
  ASSUME Inv, Inv', Links, NEW r \in DOMAIN runner, ~Pending(runner[r]),
         NEW pc \in {"done", "gone"}, Place(pc) > Place(runner[r].pc),
         runner' = [runner EXCEPT ![r].pc = pc],
         UNCHANGED <<fate, reply>>, target' \in {0, target},
         registered' # registered => registered = r
  PROVE  Onward /\ Links' /\ runner'[r].pc = pc
<1>1. Types /\ Types' /\ AcceptedRegistered /\ DOMAIN reply = Replies
  BY DEF Inv, Links
<1>2. /\ Onward /\ runner'[r].pc = pc
      /\ \A q \in DOMAIN runner : q # r => runner'[q] = runner[q]
  BY <1>1, PcLater DEF LivePcs
<1>3. registered # 0 => registered \in DOMAIN runner
  BY <1>1, Shape DEF Types
<1>4. AcceptedRegistered'
  BY <1>1, <1>2, <1>3, AcceptedStays
<1>5. target' <= Len(runner')
  BY <1>1, <1>2, Shape DEF Onward, Types, Links
<1> QED
  BY <1>1, <1>2, <1>4, <1>5, LinksFollow

\* The runner that was to begin does, or returns: its message is settled.
LEMMA PendingMoves ==
  ASSUME Inv, Inv', Links, NEW r \in DOMAIN runner, Pending(runner[r]),
         NEW pc \in {"turn", "done"}, NEW outcome \in {"heard", "overtaken"},
         runner' = [runner EXCEPT ![r].pc = pc], fate' = TextOf(r, outcome),
         UNCHANGED <<registered, target, reply>>
  PROVE  Onward /\ Links' /\ runner'[r].pc = pc
<1>1. Types /\ Types' /\ OneGoesOn /\ AcceptedRegistered /\ DOMAIN reply = Replies
  BY DEF Inv, Links
<1>2. GoesOn(runner[r]) /\ Place(pc) > Place(runner[r].pc)
  BY DEF GoesOn, Pending, LivePcs, Place
<1>3. Onward /\ runner'[r].pc = pc
  BY <1>1, <1>2, PcLater DEF LivePcs
<1>4. registered = r
  BY <1>1, <1>2 DEF OneGoesOn
<1>5. \A t \in Texts : fate'[t] # "accepted"
  <2> SUFFICES ASSUME NEW t \in Texts, fate'[t] = "accepted" PROVE FALSE
    OBVIOUS
  <2>1. fate[t] = "accepted" /\ (runner[r].text # 0 => t # runner[r].text)
    BY <1>1 DEF TextOf, Types
  <2>2. runner[r].text = t /\ t # 0
    BY <1>1, <1>4, <2>1 DEF AcceptedRegistered, Texts
  <2> QED
    BY <2>1, <2>2
<1>6. AcceptedRegistered'
  BY <1>5 DEF AcceptedRegistered
<1>7. target' <= Len(runner')
  BY <1>1, <1>3, Shape DEF Onward, Types, Links
<1> QED
  BY <1>1, <1>3, <1>6, <1>7, LinksFollow

LEMMA RunnerStepsLinks ==
  ASSUME Inv, Inv', Links, NEW r \in DOMAIN runner, RunnerSteps(r)
  PROVE  Onward /\ Links' /\ Place(runner'[r].pc) > Place(runner[r].pc)
<1>1. Types /\ Types' /\ AcceptedRegistered /\ DOMAIN reply = Replies
  BY DEF Inv, Links
<1>2. CASE Dies(r)
  <2>1. ~Pending(runner[r]) /\ Place("done") > Place(runner[r].pc)
    BY <1>2 DEF Dies, Pending, NotBegun, Place
  <2>2. /\ runner' = [runner EXCEPT ![r].pc = "done"]
        /\ UNCHANGED <<fate, reply>> /\ target' = target /\ registered' = registered
    BY <1>2 DEF Dies, registry
  <2> QED
    BY <2>1, <2>2, OtherMoves
<1>3. CASE WaitsForBarrier(r)
  <2>1. /\ runner[r].pc = "new" /\ runner[r].stop = "no"
        /\ runner' = [runner EXCEPT ![r].pc = "wait"]
        /\ UNCHANGED <<fate, reply, registered, target>>
    BY <1>3 DEF WaitsForBarrier, registry
  <2>2. GoesOn(runner[r]) /\ Place("wait") > Place(runner[r].pc)
    BY <2>1 DEF GoesOn, LivePcs, Place
  <2>3. /\ Onward /\ runner'[r].pc = "wait" /\ runner'[r].stop = "no"
        /\ runner'[r].text = runner[r].text
        /\ \A q \in DOMAIN runner : q # r => runner'[q] = runner[q]
    BY <1>1, <2>1, <2>2, PcLater DEF LivePcs
  <2>4. registered # 0 => registered \in DOMAIN runner
    BY <1>1, Shape DEF Types
  <2>5. AcceptedRegistered'
    BY <1>1, <2>1, <2>3, <2>4, AcceptedStays DEF Pending
  <2>6. target' <= Len(runner')
    BY <1>1, <2>1, <2>3, Shape DEF Onward, Types, Links
  <2> QED
    BY <1>1, <2>1, <2>2, <2>3, <2>5, <2>6, LinksFollow
<1>4. CASE Begins(r)
  <2>1. /\ Pending(runner[r]) /\ runner' = [runner EXCEPT ![r].pc = "turn"]
        /\ fate' = TextOf(r, "heard") /\ UNCHANGED <<registered, target, reply>>
    BY <1>4 DEF Begins, MayBegin, NotBegun, Pending, registry
  <2>2. Onward /\ Links' /\ runner'[r].pc = "turn"
    <3>1. "turn" \in {"turn", "done"} /\ "heard" \in {"heard", "overtaken"}
      OBVIOUS
    <3> QED
      BY <2>1, <3>1, PendingMoves
  <2> QED
    BY <2>1, <2>2 DEF Pending, Place
<1>5. CASE Returns(r)
  <2>1. /\ Pending(runner[r]) /\ runner' = [runner EXCEPT ![r].pc = "done"]
        /\ fate' = TextOf(r, "overtaken") /\ UNCHANGED <<registered, target, reply>>
    BY <1>5 DEF Returns, MayBegin, NotBegun, Pending, registry
  <2>2. Onward /\ Links' /\ runner'[r].pc = "done"
    <3>1. "done" \in {"turn", "done"} /\ "overtaken" \in {"heard", "overtaken"}
      OBVIOUS
    <3> QED
      BY <2>1, <3>1, PendingMoves
  <2> QED
    BY <2>1, <2>2 DEF Pending, Place
<1>6. CASE Ends(r) \/ Unwinds(r)
  <2>1. /\ runner[r].pc = "turn" /\ runner' = [runner EXCEPT ![r].pc = "done"]
        /\ UNCHANGED <<fate, reply>> /\ target' = target /\ registered' = registered
    BY <1>6 DEF Ends, Unwinds, registry
  <2>2. ~Pending(runner[r]) /\ Place("done") > Place(runner[r].pc)
    BY <2>1 DEF Pending, Place
  <2> QED
    BY <2>1, <2>2, OtherMoves
<1>7. CASE CallbackRuns(r)
  <2>1. /\ runner[r].pc = "done" /\ runner' = [runner EXCEPT ![r].pc = "gone"]
        /\ UNCHANGED <<fate, reply>>
        /\ target' \in {0, target} /\ (registered' # registered => registered = r)
    BY <1>7 DEF CallbackRuns, CallbackClears
  <2>2. ~Pending(runner[r]) /\ Place("gone") > Place(runner[r].pc)
    BY <2>1 DEF Pending, Place
  <2> QED
    BY <2>1, <2>2, OtherMoves
<1> QED
  BY <1>2, <1>3, <1>4, <1>5, <1>6, <1>7 DEF RunnerSteps

LEMMA SwallowsLinks ==
  ASSUME Inv, Inv', Links, NEW r \in DOMAIN runner, Swallows(r)
  PROVE  Onward /\ Links'
<1>1. Types /\ Types' /\ AcceptedRegistered
  BY DEF Inv, Links
<1>2. /\ runner[r].pc = "turn" /\ UNCHANGED <<fate, reply, registered, target>>
      /\ Onward /\ \A q \in DOMAIN runner : q # r => runner'[q] = runner[q]
  BY <1>1, SwallowsLater DEF Swallows, registry
<1>3. registered # 0 => registered \in DOMAIN runner
  BY <1>1, Shape DEF Types
<1>4. AcceptedRegistered'
  BY <1>1, <1>2, <1>3, AcceptedStays DEF Pending
<1>5. target' <= Len(runner')
  BY <1>1, <1>2, Shape DEF Onward, Types, Links
<1> QED
  BY <1>1, <1>2, <1>4, <1>5, LinksFollow DEF Links

LEMMA StepLinks ==
  ASSUME Inv, Inv', Links, [Next]_vars
  PROVE  Onward /\ Links'
<1>1. Types /\ Types' /\ Calmer(runner)
  BY SelfCalmer DEF Inv
<1>2. ASSUME UNCHANGED <<runner, registered, target, reply>>,
             \A t \in Texts : fate'[t] = "accepted" => fate[t] = "accepted"
      PROVE  Onward /\ Links'
  <2>1. Onward
    BY <1>1, <1>2, SameRunners, LaterSelf
  <2>2. AcceptedRegistered'
    BY <1>2 DEF Links, AcceptedRegistered
  <2> QED
    BY <1>1, <1>2, <2>1, <2>2, LinksFollow DEF Links
<1>3. ASSUME NEW t \in Texts, SayRefused(t) PROVE Onward /\ Links'
  BY <1>1, <1>2, <1>3 DEF SayRefused, registry, Types
<1>4. ASSUME NEW t \in Texts, SayRedirects(t) \/ SayContinues(t) PROVE Onward /\ Links'
  BY <1>4, SayRedirectsLinks, SayContinuesLinks
<1>5. ASSUME PollEnds \/ UNCHANGED vars PROVE Onward /\ Links'
  BY <1>2, <1>5 DEF PollEnds, vars, registry
<1>6. ASSUME Interrupt \/ CancelTask PROVE Onward /\ Links'
  BY <1>6, CommandLinks DEF Interrupt, CancelTask, registry
<1>7. ASSUME NEW a \in Replies, Answer(a) \/ AnswerWakes(a) PROVE Onward /\ Links'
  BY <1>7, ReplyLinks DEF Answer, AnswerWakes
<1>8. ASSUME NEW r \in DOMAIN runner, RunnerSteps(r) \/ Swallows(r) PROVE Onward /\ Links'
  BY <1>8, RunnerStepsLinks, SwallowsLinks
<1> QED
  BY <1>3, <1>4, <1>5, <1>6, <1>7, <1>8 DEF Next

LEMMA InitLinks == Init => Links
<1> SUFFICES ASSUME Init PROVE Links
  OBVIOUS
<1> DEFINE x == NewRunner("first", 1, 0)
<1>1. x.pc = "new" /\ x.text = 1 /\ x.stop = "no" /\ x.barrier = 0
  BY DEF NewRunner
<1>2. /\ runner = <<x>> /\ registered = 1 /\ target = 0
      /\ reply = [a \in Replies |-> [is |-> "unsent", on |-> 0]]
      /\ \A t \in Texts : fate[t] = IF t = 1 THEN "accepted" ELSE "unsaid"
  BY DEF Init
<1> HIDE DEF x
<1>3. Len(runner) = 1 /\ DOMAIN runner = {1} /\ runner[1] = x
  BY <1>2
<1>4. AcceptedRegistered
  BY <1>1, <1>2, <1>3 DEF AcceptedRegistered, Pending
<1> QED
  BY <1>1, <1>2, <1>3, <1>4 DEF Links, AwaitedRunners

LEMMA LinksHold == Spec => [](Inv /\ Links)
<1>1. Init => Inv /\ Links
  BY InitInv, InitLinks
<1>2. Inv /\ Links /\ [Next]_vars => (Inv /\ Links)'
  BY StepInv, StepLinks
<1> QED
  BY <1>1, <1>2, PTL DEF Spec

\* A runner that waits for another waits for one that was asked to stop or lost it.
LEMMA EveryRunnerInHand ==
  ASSUME Inv, Links, NEW r \in DOMAIN runner, runner[r].pc # "gone"
  PROVE  InHand(r)
<1> DEFINE b == runner[r].barrier
<1>1. Types /\ OneGoesOn
  BY DEF Inv
<1>2. runner[r] \in RunnerRecord /\ b \in Nat /\ b < r
  BY <1>1, Shape DEF Types, RunnerRecord, Links
<1>3. SUFFICES ASSUME runner[r].pc = "wait", runner[r].stop = "no", Live(b) PROVE InHand(r)
  BY <1>2 DEF InHand, RunnerReady, NotBegun, RunnerRecord, LivePcs
<1>4. b \in 1..r - 1 /\ b \in DOMAIN runner
  BY <1>1, <1>2, <1>3, Shape DEF Live, Types
<1>5. registered = r
  BY <1>1, <1>3 DEF OneGoesOn, GoesOn, LivePcs
<1>6. ~GoesOn(runner[b]) /\ runner[b] \in RunnerRecord
  BY <1>1, <1>2, <1>4, <1>5, Shape DEF OneGoesOn, Types
<1>7. RunnerReady(b)
  BY <1>3, <1>6 DEF RunnerReady, GoesOn, NotBegun, Live, LivePcs, RunnerRecord
<1> QED
  BY <1>4, <1>7 DEF InHand

\* For any number of messages, answers and commands, an accepted message is with the
\* registered runner, which was not asked to stop, and no runner waits for ever for the
\* one it replaces (_run_redirected_turn, _redirect_wait_targets): it has a step of its
\* own, or its barrier has one.  An answer waits for a runner there is.
THEOREM AcceptedAreInHand == Spec => []NobodyIsLeftWaiting
<1>1. Inv /\ Links => NobodyIsLeftWaiting
  BY EveryRunnerInHand DEF NobodyIsLeftWaiting, Links
<1> QED
  BY <1>1, LinksHold, PTL

\* For any number of messages, answers and commands, a step brings no runner back,
\* changes no barrier and takes no stop back, and a runner's own step brings it nearer
\* its end: with the fairness of the event loop no runner outlasts four of its steps.
THEOREM RunnersOnlyAdvance ==
  Spec => [][\A r \in DOMAIN runner :
               /\ Later(runner[r], runner'[r])
               /\ RunnerSteps(r) => Place(runner'[r].pc) > Place(runner[r].pc)]_vars
<1> DEFINE Advance ==
      \A r \in DOMAIN runner : /\ Later(runner[r], runner'[r])
                               /\ RunnerSteps(r) => Place(runner'[r].pc) > Place(runner[r].pc)
<1>1. ASSUME Inv, Links, Inv', [Next]_vars PROVE Advance
  <2>1. Onward
    BY <1>1, StepLinks
  <2>2. DOMAIN runner = 1..Len(runner) /\ DOMAIN runner' = 1..Len(runner')
        /\ Len(runner) \in Nat /\ Len(runner') \in Nat
    BY <1>1, Shape DEF Inv, Types
  <2> QED
    BY <1>1, <2>1, <2>2, RunnerStepsLinks DEF Onward
<1>2. Inv /\ Links /\ Inv' /\ Links' /\ [Next]_vars => [Advance]_vars
  BY <1>1
<1> QED
  BY <1>2, LinksHold, PTL DEF Spec
=============================================================================
