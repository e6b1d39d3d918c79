-------------------------- MODULE CommandReceipts --------------------------
(***************************************************************************)
(* The receipt of one command_id: EngineeringAgentClient._command over the *)
(* runtime_commands table.  A caller claims the receipt, runs the command  *)
(* while it is suspended for it, and settles the receipt; everybody else   *)
(* who brings the same command_id is answered from the receipt.            *)
(***************************************************************************)
EXTENDS Naturals

CONSTANTS
  Callers,     \* client calls that bring this command_id, retries included
  Runtimes,    \* processes with the database open
  Home,        \* Home[c]: the runtime caller c calls
  Request,     \* Request[c]: the hash of what it asks for
  Nothing      \* nobody, no reply

ASSUME HomeAssumption == Home \in [Callers -> Runtimes]

Replies == {"done", "replayed", "in progress", "reused", "failed", "cancelled"}
ASSUME NothingAssumption == Nothing \notin Callers \cup Replies

VARIABLES
  receipt,  \* the row: its status, who claimed it and with which request
  caller,   \* caller[c]: "new", "executing", "saving", "ended" or "lost"
  reply,    \* reply[c]: what the caller is told
  begun,    \* who began to execute the command
  applied,  \* who executed it to its end
  unsettled \* who began and was refused by the store when it settled the receipt

receiptVars == <<receipt, caller, reply, begun, applied, unsettled>>

NoReceipt == [status |-> "none", owner |-> Nothing, request |-> Nothing]

ReceiptTypeOK ==
  /\ receipt \in [status : {"none", "in_progress", "completed", "failed"},
                  owner : Callers \cup {Nothing},
                  request : {Request[c] : c \in Callers} \cup {Nothing}]
  /\ caller \in [Callers -> {"new", "executing", "saving", "ended", "lost"}]
  /\ reply \in [Callers -> Replies \cup {Nothing}]
  /\ begun \subseteq Callers
  /\ applied \subseteq Callers
  /\ unsettled \subseteq Callers

ReceiptInit ==
  /\ receipt = NoReceipt
  /\ caller = [c \in Callers |-> "new"]
  /\ reply = [c \in Callers |-> Nothing]
  /\ begun = {}
  /\ applied = {}
  /\ unsettled = {}

AnswerCaller(c, what) ==
  /\ caller' = [caller EXCEPT ![c] = "ended"]
  /\ reply' = [reply EXCEPT ![c] = what]

-----------------------------------------------------------------------------
\* claim_runtime_command: one transaction, whose answer is looked at at once.

ClaimsFailed(c) ==  \* mutant: a failed receipt can be claimed again
  /\ caller[c] = "new"
  /\ receipt.status \in {"none", "failed"}
  /\ receipt' = [status |-> "in_progress", owner |-> c, request |-> Request[c]]
  /\ caller' = [caller EXCEPT ![c] = "executing"]
  /\ begun' = begun \cup {c}
  /\ UNCHANGED <<reply, applied, unsettled>>

Claim(c) ==
  /\ caller[c] = "new"
  /\ receipt.status = "none"
  /\ receipt' = [status |-> "in_progress", owner |-> c, request |-> Request[c]]
  /\ caller' = [caller EXCEPT ![c] = "executing"]
  /\ begun' = begun \cup {c}
  /\ UNCHANGED <<reply, applied, unsettled>>

\* The same command_id with another request.
Reused(c) ==
  /\ caller[c] = "new"
  /\ receipt.status # "none"
  /\ receipt.request # Request[c]
  /\ AnswerCaller(c, "reused")
  /\ UNCHANGED <<receipt, begun, applied, unsettled>>

ReplaysSettled(c) ==  \* mutant: replays whatever is settled
  /\ caller[c] = "new"
  /\ receipt.status \in {"completed", "failed"}
  /\ receipt.request = Request[c]
  /\ AnswerCaller(c, "replayed")
  /\ UNCHANGED <<receipt, begun, applied, unsettled>>

Replay(c) ==
  /\ caller[c] = "new"
  /\ receipt.status = "completed"
  /\ receipt.request = Request[c]
  /\ AnswerCaller(c, "replayed")
  /\ UNCHANGED <<receipt, begun, applied, unsettled>>

\* The receipt holds another claim token, or none any more.
InProgress(c) ==
  /\ caller[c] = "new"
  /\ receipt.status \in {"in_progress", "failed"}
  /\ receipt.request = Request[c]
  /\ AnswerCaller(c, "in progress")
  /\ UNCHANGED <<receipt, begun, applied, unsettled>>

-----------------------------------------------------------------------------
\* The command.

Execute(c) ==
  /\ caller[c] = "executing"
  /\ applied' = applied \cup {c}
  /\ caller' = [caller EXCEPT ![c] = "saving"]
  /\ UNCHANGED <<receipt, reply, begun, unsettled>>

\* complete_runtime_command.
CompleteReceipt(c) ==
  /\ caller[c] = "saving"
  /\ receipt' = [receipt EXCEPT !.status = "completed"]
  /\ AnswerCaller(c, "done")
  /\ UNCHANGED <<begun, applied, unsettled>>

\* The command raises or its caller is cancelled, before or after its effect:
\* fail_runtime_command.
Fail(c) ==
  /\ caller[c] = "executing"
  /\ \E what \in {"failed", "cancelled"} : AnswerCaller(c, what)
  /\ receipt' = [receipt EXCEPT !.status = "failed"]
  /\ applied' \in {applied, applied \cup {c}}
  /\ UNCHANGED <<begun, unsettled>>

\* The store raises (a lock, a full disk): a claim leaves no receipt ...
ClaimRefused(c) ==
  /\ caller[c] = "new"
  /\ AnswerCaller(c, "failed")
  /\ UNCHANGED <<receipt, begun, applied, unsettled>>

\* ... and what should settle one, complete_runtime_command outside the try or
\* fail_runtime_command in the handlers, leaves it as it is.
SettlementRefused(c) ==
  /\ caller[c] \in {"executing", "saving"}
  /\ AnswerCaller(c, "failed")
  /\ applied' \in {applied, applied \cup {c}}
  /\ unsettled' = unsettled \cup {c}
  /\ UNCHANGED <<receipt, begun>>

\* A runtime dies, between the effect and the receipt too.
RuntimeDies(r) ==
  /\ caller' = [c \in Callers |-> IF Home[c] = r /\ caller[c] \in {"executing", "saving"}
                                THEN "lost" ELSE caller[c]]
  /\ \E c \in Callers : caller'[c] # caller[c]
  /\ UNCHANGED <<receipt, reply, begun, applied, unsettled>>

ReceiptNext ==
  \/ \E c \in Callers : \/ Claim(c) \/ Reused(c) \/ Replay(c) \/ InProgress(c)
                        \/ Execute(c) \/ CompleteReceipt(c) \/ Fail(c)
                        \/ ClaimRefused(c) \/ SettlementRefused(c)
  \/ \E r \in Runtimes : RuntimeDies(r)

ReceiptSpec == ReceiptInit /\ [][ReceiptNext]_receiptVars

-----------------------------------------------------------------------------
\* However often a command is brought, retried and cut short, by callers of any
\* runtime, at most one of them executes it (claim_runtime_command).
ExecutedAtMostOnce == \A c, d \in begun : c = d

\* Who is told that the command was done before asked for the same thing, and
\* somebody did it (RuntimeCommandResult.replayed).
ReplayIsTrue ==
  \A c \in Callers :
    reply[c] = "replayed" => \E d \in applied : Request[d] = Request[c]

\* A receipt in progress belongs to a running command, to one whose runtime died,
\* or to one whose settlement the store refused; nobody was told it was done, and
\* what it did is not replayed (_command).
ReceiptFollowsCoroutine ==
  receipt.status = "in_progress" =>
    /\ \/ caller[receipt.owner] \in {"executing", "saving", "lost"}
       \/ receipt.owner \in unsettled
    /\ \A c \in Callers : reply[c] \notin {"done", "replayed"}

\* "A background command must never retain an in_progress receipt forever after
\* its coroutine has already failed".  Does not hold when the store refuses the
\* settlement.
NoReceiptIsRetained ==
  receipt.status = "in_progress" =>
    caller[receipt.owner] \in {"executing", "saving", "lost"}

\* "Runtime command is already in progress" is said only while it is.
InProgressIsTrue ==
  [][\A c \in Callers :
       reply'[c] = "in progress" /\ reply[c] = Nothing =>
         receipt.status = "in_progress"]_receiptVars
=============================================================================
