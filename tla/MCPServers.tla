----------------------------- MODULE MCPServers -----------------------------
(***************************************************************************)
(* The connections to MCP servers of one process: the startup tasks of     *)
(* MCPToolProvider, the clients and locks of MCPClientManager, the owner   *)
(* task of each SDK session, and the calls that go through them, while the *)
(* host starts and stops the provider and may be cancelled in either.      *)
(*                                                                         *)
(* A seeker is a coroutine that may open a session: the startup task of a  *)
(* server, or a direct caller of get_client.  A session is named by the    *)
(* seeker whose factory call opened it.  A cancellation is a request which *)
(* the coroutine meets at its next resumption.  Waiting for a lock is not  *)
(* ordered here: the FIFO of asyncio.Lock is one of the orders.            *)
(***************************************************************************)
EXTENDS Naturals

CONSTANTS
  Servers,   \* configured servers; each also names its startup task
  Required,  \* those start() waits for (MCPServerConfig.required)
  Users,     \* direct callers of MCPClientManager.get_client
  Calls,     \* business calls of the model
  ServerOf,  \* the server whose tool a call names
  MaxTries,  \* bound: how often the model brings one call
  None

ASSUME ServerAssumption == Required \subseteq Servers /\ Servers \cap Users = {}
ASSUME NoneAssumption == None \notin Servers \cup Users
ASSUME CallAssumption == ServerOf \in [Calls -> Servers] /\ MaxTries \in Nat

Seekers == Servers \cup Users

VARIABLES
  started,   \* provider: _started
  shown,     \* provider: servers whose tools are in _tools
  start,     \* where the caller of start() is
  host,      \* where the caller of stop() is
  cut,       \* the caller of start() has been cancelled while it waited
  stopper,   \* where the stop task is, and the close task it waits for
  passed,    \* locks the close task has been through
  doomed,    \* sessions the close task has still to close
  failed,    \* one of them did not close cleanly
  closed,    \* manager: _closed
  clients,   \* manager: the session registered for a server
  target,    \* the server a seeker seeks
  pc,        \* where a seeker is
  told,      \* whether a seeker has been cancelled, or timed out, and does not know yet
  session,   \* where the owner task of a session is
  fault,     \* its _failure
  closing,   \* sessions asked to close (_closing, _stop)
  call,      \* how far a call is
  tries,     \* how often it was brought
  inbox,     \* calls a server has received and not executed
  ran        \* how often a server executed a call

providerVars == <<started, shown, start, host, cut>>
closerVars == <<stopper, passed, doomed, failed>>
managerVars == <<closed, clients>>
seekerVars == <<target, pc, told>>
sessionVars == <<session, fault, closing>>
callVars == <<call, tries, inbox, ran>>
serversVars == <<providerVars, closerVars, managerVars, seekerVars, sessionVars, callVars>>

Ended == {"done", "raised", "cancelled"}
Holding == {"opening", "unwinding", "disposing", "closing"}
Places == {"idle", "wants", "listing", "clearing"} \cup Holding \cup Ended
Alive == {"entering", "live", "breaking", "failing"}

ServersTypeOK ==
  /\ started \in BOOLEAN /\ closed \in BOOLEAN /\ failed \in BOOLEAN /\ cut \in BOOLEAN
  /\ shown \subseteq Servers /\ passed \subseteq Servers
  /\ start \in {"idle", "waiting", "stopping", "returned", "raised"}
  /\ host \in {"idle", "stopping", "returned", "raised"}
  /\ stopper \in {"none", "born", "joining", "locking", "closing", "over"}
  /\ doomed \subseteq Seekers /\ closing \subseteq Seekers
  /\ clients \in [Servers -> Seekers \cup {None}]
  /\ target \in [Seekers -> Servers \cup {None}]
  /\ pc \in [Seekers -> Places]
  /\ told \in [Seekers -> {"no", "timeout", "cancel"}]
  /\ session \in [Seekers -> {"none", "over"} \cup Alive]
  /\ fault \in [Seekers -> {"none", "error", "cancelled"}]
  /\ call \in [Calls -> {"new", "notSent", "sent", "answered", "unknown"}]
  /\ tries \in [Calls -> 0..MaxTries]
  /\ inbox \in [Calls -> Nat] /\ ran \in [Calls -> Nat]

ServersInit ==
  /\ started = FALSE
  /\ shown = {}
  /\ start = "idle"
  /\ host = "idle"
  /\ cut = FALSE
  /\ stopper = "none"
  /\ passed = {}
  /\ doomed = {}
  /\ failed = FALSE
  /\ closed = FALSE
  /\ clients = [s \in Servers |-> None]
  /\ target = [k \in Seekers |-> IF k \in Servers THEN k ELSE None]
  /\ pc = [k \in Seekers |-> "idle"]
  /\ told = [k \in Seekers |-> "no"]
  /\ session = [k \in Seekers |-> "none"]
  /\ fault = [k \in Seekers |-> "none"]
  /\ closing = {}
  /\ call = [c \in Calls |-> "new"]
  /\ tries = [c \in Calls |-> 0]
  /\ inbox = [c \in Calls |-> 0]
  /\ ran = [c \in Calls |-> 0]

-----------------------------------------------------------------------------
(* The lock of a server, and the session of a seeker.                      *)

Free(s) == \A k \in Seekers : target[k] = s => pc[k] \notin Holding

\* A seeker that waits for the lock of its server really is suspended: somebody
\* holds it, or waits beside it.
Contended(k) ==
  \E j \in Seekers \ {k} :
    target[j] = target[k] /\ pc[j] \in Holding \cup {"wants", "clearing"}

\* The future _ready is set once initialize succeeded, or else by the end of the
\* owner.
IsReady(k) == session[k] \in {"live", "breaking", "over"}

\* What call_tool and list_tools need of a client.
Usable(k) == k # None /\ k \notin closing /\ session[k] = "live"

Goto(k, place) == pc' = [pc EXCEPT ![k] = place]

-----------------------------------------------------------------------------
(* start() and stop() of the provider.                                     *)

\* stop(): the first caller creates the task that stops, the others join it.
JoinsStop == stopper' = IF stopper = "none" THEN "born" ELSE stopper

\* start() gives every server a startup task and waits for the required ones.
StartProvider ==
  /\ start = "idle"
  /\ start' = "waiting"
  /\ started' = TRUE
  /\ pc' = [k \in Seekers |-> IF k \in Servers THEN "wants" ELSE pc[k]]
  /\ UNCHANGED <<shown, host, cut, closerVars, managerVars, target, told, sessionVars, callVars>>

StartReturns ==
  /\ start = "waiting"
  /\ ~cut
  /\ \A s \in Required : pc[s] = "done"
  /\ start' = "returned"
  /\ UNCHANGED <<started, shown, host, cut, closerVars, managerVars, seekerVars,
                 sessionVars, callVars>>

\* The gather ends with the first required task that failed or was cancelled; a
\* cancelled caller meets its cancellation when the gather has ended.
StartFails ==
  /\ start = "waiting"
  /\ \/ \E s \in Required : pc[s] \in {"raised", "cancelled"}
     \/ cut /\ \A s \in Required : pc[s] = "done"
  /\ start' = "stopping"
  /\ JoinsStop
  /\ UNCHANGED <<started, shown, host, cut, passed, doomed, failed, managerVars,
                 seekerVars, sessionVars, callVars>>

\* A caller of stop() comes back when the stop task is done, however often it
\* is cancelled meanwhile: it shields the task and waits again.
Joined == stopper = "over"

StartRaises ==
  /\ start = "stopping"
  /\ Joined
  /\ start' = "raised"
  /\ UNCHANGED <<started, shown, host, cut, closerVars, managerVars, seekerVars,
                 sessionVars, callVars>>

\* The caller of start() is cancelled: the gather it waits for cancels the
\* required startup tasks.
CutStart ==
  /\ start = "waiting"
  /\ Required # {}
  /\ ~cut
  /\ cut' = TRUE
  /\ told' = [k \in Seekers |->
                IF k \in Required /\ pc[k] \notin Ended THEN "cancel" ELSE told[k]]
  /\ UNCHANGED <<started, shown, start, host, closerVars, managerVars, target, pc,
                 sessionVars, callVars>>

HostStops ==
  /\ start # "idle"
  /\ host = "idle"
  /\ host' = "stopping"
  /\ JoinsStop
  /\ UNCHANGED <<started, shown, start, cut, passed, doomed, failed, managerVars,
                 seekerVars, sessionVars, callVars>>

HostReturns ==
  /\ host = "stopping"
  /\ Joined
  /\ host' = IF failed THEN "raised" ELSE "returned"
  /\ UNCHANGED <<started, shown, start, cut, closerVars, managerVars, seekerVars,
                 sessionVars, callVars>>

-----------------------------------------------------------------------------
(* The stop task, and the close task of the manager it waits for.          *)

StopBegins ==
  /\ stopper = "born"
  /\ stopper' = "joining"
  /\ started' = FALSE
  /\ told' = [k \in Seekers |->
                IF k \in Servers /\ pc[k] \notin Ended THEN "cancel" ELSE told[k]]
  /\ UNCHANGED <<shown, start, host, cut, passed, doomed, failed, managerVars,
                 target, pc, sessionVars, callVars>>

StartupsOver == \A s \in Servers : pc[s] \in Ended

StopJoins ==
  /\ stopper = "joining"
  /\ StartupsOver
  /\ stopper' = "locking"
  /\ closed' = TRUE
  /\ UNCHANGED <<providerVars, passed, doomed, failed, clients, seekerVars, sessionVars, callVars>>

\* The close task goes through every lock: a factory that is still inside one
\* disposes of its session before it gives the lock back.
PassLock(s) ==
  /\ stopper = "locking"
  /\ s \notin passed
  /\ Free(s)
  /\ passed' = passed \cup {s}
  /\ UNCHANGED <<providerVars, stopper, doomed, failed, managerVars, seekerVars, sessionVars,
                 callVars>>

TakeClients ==
  /\ stopper = "locking"
  /\ passed = Servers
  /\ stopper' = "closing"
  /\ doomed' = {clients[s] : s \in Servers} \ {None}
  /\ clients' = [s \in Servers |-> None]
  /\ UNCHANGED <<providerVars, passed, failed, closed, seekerVars, sessionVars, callVars>>

\* One after the other; the order is that of registration, reversed, in the code.
CloseBegins(k) ==
  /\ stopper = "closing"
  /\ k \in doomed
  /\ doomed \cap closing = {}
  /\ closing' = closing \cup {k}
  /\ UNCHANGED <<providerVars, closerVars, managerVars, seekerVars, session, fault, callVars>>

CloseEnds(k) ==
  /\ stopper = "closing"
  /\ k \in doomed \cap closing
  /\ session[k] = "over"
  /\ doomed' = doomed \ {k}
  /\ failed' = (failed \/ fault[k] = "error")
  /\ UNCHANGED <<providerVars, stopper, passed, managerVars, seekerVars, sessionVars, callVars>>

StopEnds ==
  /\ stopper = "closing"
  /\ doomed = {}
  /\ stopper' = "over"
  /\ shown' = {}
  /\ UNCHANGED <<started, start, host, cut, passed, doomed, failed, managerVars, seekerVars,
                 sessionVars, callVars>>

-----------------------------------------------------------------------------
(* get_client, by startup tasks and direct callers.                        *)

\* How get_client leaves a seeker: with a client, an error or a cancellation.  A
\* startup task that was cancelled by its own timeout alone, or met an error,
\* goes on to close its server as failed; any other cancellation ends it.
Leave(k, how) ==
  LET fails == how = "error" \/ (how = "cancelled" /\ told[k] = "timeout")
  IN  /\ IF k \in Users THEN Goto(k, "done")
         ELSE Goto(k, IF how = "client" THEN "listing" ELSE IF fails THEN "clearing" ELSE "cancelled")
      /\ told' = [told EXCEPT ![k] = "no"]

\* What of the provider a step of a seeker never touches.
AroundSeeker == <<started, start, host, cut, closerVars, closed, callVars>>

\* A direct caller; one who finds the manager closed, or a client, is answered
\* at once and leaves nothing behind.
UserSeeks(u, s) ==
  /\ pc[u] = "idle"
  /\ ~closed
  /\ clients[s] = None
  /\ target' = [target EXCEPT ![u] = s]
  /\ Goto(u, "wants")
  /\ UNCHANGED <<AroundSeeker, shown, clients, told, sessionVars>>

HasLock(k) == pc[k] = "wants" /\ told[k] = "no" /\ Free(target[k])

FindsClient(k) ==
  /\ HasLock(k)
  /\ clients[target[k]] # None
  /\ Leave(k, "client")
  /\ UNCHANGED <<AroundSeeker, shown, clients, target, sessionVars>>

FindsClosed(k) ==
  /\ HasLock(k)
  /\ clients[target[k]] = None
  /\ closed
  /\ Leave(k, "error")
  /\ UNCHANGED <<AroundSeeker, shown, clients, target, sessionVars>>

\* (mutants: it looks only before it waits for the lock)
MayOpenBeside(k) == ~closed
MayOpenLate(k) == clients[target[k]] = None

\* What a seeker looks at again under the lock before it opens a session.
MayOpen(k) == clients[target[k]] = None /\ ~closed

\* The factory creates the owner task of the session and waits until it is ready.
Opens(k) ==
  /\ HasLock(k)
  /\ MayOpen(k)
  /\ Goto(k, "opening")
  /\ session' = [session EXCEPT ![k] = "entering"]
  /\ UNCHANGED <<AroundSeeker, shown, clients, target, told, fault, closing>>

\* A task that is cancelled before its first step, or while it waits for the lock.
WaitCancelled(k) ==
  /\ pc[k] = "wants"
  /\ told[k] # "no"
  /\ Leave(k, "cancelled")
  /\ UNCHANGED <<AroundSeeker, shown, clients, target, sessionVars>>

\* The session is registered, unless the manager was closed meanwhile.
FactoryReturns(k) ==
  /\ pc[k] = "opening"
  /\ told[k] = "no"
  /\ session[k] = "live"
  /\ IF closed
       THEN /\ Goto(k, "disposing")
            /\ closing' = closing \cup {k}
            /\ UNCHANGED <<told, clients>>
       ELSE /\ Leave(k, "client")
            /\ clients' = [clients EXCEPT ![target[k]] = k]
            /\ UNCHANGED closing
  /\ UNCHANGED <<AroundSeeker, shown, target, session, fault>>

\* Initialization failed; or it succeeded and the connection broke before the
\* factory looked, which then does not wait for the owner.
FactoryRaises(k) ==
  /\ pc[k] = "opening"
  /\ told[k] = "no"
  /\ IsReady(k) /\ session[k] # "live"
  /\ Leave(k, "error")
  /\ UNCHANGED <<AroundSeeker, shown, clients, target, sessionVars>>

\* (mutant: the owner is waited for and not cancelled)
OwnerLeftAlone(k) == UNCHANGED <<session, fault>>

\* The cancellation of the factory goes on to an owner that is not tearing down
\* already.
OwnerCancelled(k) ==
  IF session[k] \in {"entering", "live"}
    THEN /\ session' = [session EXCEPT ![k] = IF @ = "live" THEN "breaking" ELSE "failing"]
         /\ fault' = [fault EXCEPT ![k] = "cancelled"]
    ELSE UNCHANGED <<session, fault>>

\* The factory then waits for the owner.
FactoryCancelled(k) ==
  /\ pc[k] = "opening"
  /\ told[k] # "no"
  /\ Goto(k, "unwinding")
  /\ OwnerCancelled(k)
  /\ UNCHANGED <<AroundSeeker, shown, clients, target, told, closing>>

\* Further cancellations do not end the wait for the owner.
OwnerJoined(k) == session[k] = "over"

FactoryUnwound(k) ==
  /\ pc[k] = "unwinding"
  /\ OwnerJoined(k)
  /\ Leave(k, "cancelled")
  /\ UNCHANGED <<AroundSeeker, shown, clients, target, sessionVars>>

Disposed(k) ==
  /\ pc[k] = "disposing"
  /\ OwnerJoined(k)
  /\ Leave(k, IF told[k] = "no" THEN "error" ELSE "cancelled")
  /\ UNCHANGED <<AroundSeeker, shown, clients, target, sessionVars>>

UserCancelled(u) ==
  /\ pc[u] \in {"wants"} \cup Holding
  /\ pc[u] = "wants" => Contended(u)
  /\ told[u] = "no"
  /\ told' = [told EXCEPT ![u] = "cancel"]
  /\ UNCHANGED <<AroundSeeker, shown, clients, target, pc, sessionVars>>

-----------------------------------------------------------------------------
(* The rest of a startup task: discovery, and closing a failed server.     *)

\* startup_timeout_seconds, which covers the connection and the discovery; after
\* a cancellation it changes nothing, before one it is forgotten.
Expires(s) ==
  /\ pc[s] \in {"wants", "opening", "unwinding", "disposing", "listing"}
  /\ pc[s] = "wants" => Contended(s)
  /\ told[s] = "no"
  /\ told' = [told EXCEPT ![s] = "timeout"]
  /\ UNCHANGED <<AroundSeeker, shown, clients, target, pc, sessionVars>>

\* The last page arrived: the whole catalogue of the server is published.
Lists(s) ==
  /\ pc[s] = "listing"
  /\ told[s] = "no"
  /\ Usable(clients[s])
  /\ Goto(s, "done")
  /\ shown' = IF started THEN shown \cup {s} ELSE shown
  /\ UNCHANGED <<AroundSeeker, clients, target, told, sessionVars>>

\* The session is gone, a page cannot be read, or a tool has no valid name.
ListingFails(s) ==
  /\ pc[s] = "listing"
  /\ told[s] = "no"
  /\ Leave(s, "error")
  /\ UNCHANGED <<AroundSeeker, shown, clients, target, sessionVars>>

ListingCancelled(s) ==
  /\ pc[s] = "listing"
  /\ told[s] # "no"
  /\ Leave(s, "cancelled")
  /\ UNCHANGED <<AroundSeeker, shown, clients, target, sessionVars>>

\* The error of a required server leaves its startup task, and with it start().
Over(s) == IF s \in Required THEN "raised" ELSE "done"

ClearBegins(s) ==
  /\ pc[s] = "clearing"
  /\ Free(s)
  /\ told[s] = "no" \/ ~Contended(s)
  /\ IF clients[s] = None
       THEN Goto(s, Over(s)) /\ UNCHANGED closing
       ELSE Goto(s, "closing") /\ closing' = closing \cup {clients[s]}
  /\ UNCHANGED <<AroundSeeker, shown, clients, target, told, session, fault>>

ClearCancelled(s) ==
  /\ pc[s] = "clearing"
  /\ told[s] # "no"
  /\ Contended(s)
  /\ Goto(s, "cancelled")
  /\ UNCHANGED <<AroundSeeker, shown, clients, target, told, sessionVars>>

\* A client is forgotten only after it closed cleanly.
Cleared(s) ==
  /\ pc[s] = "closing"
  /\ OwnerJoined(clients[s])
  /\ Goto(s, IF told[s] = "no" THEN Over(s) ELSE "cancelled")
  /\ clients' = IF told[s] = "no" /\ fault[clients[s]] # "error"
                  THEN [clients EXCEPT ![s] = None] ELSE clients
  /\ UNCHANGED <<AroundSeeker, shown, target, told, sessionVars>>

-----------------------------------------------------------------------------
(* The owner task of a session, and the server behind it.                  *)

AroundSession == <<providerVars, closerVars, managerVars, seekerVars, closing, callVars>>

Initialized(k) ==
  /\ session[k] = "entering"
  /\ session' = [session EXCEPT ![k] = "live"]
  /\ UNCHANGED <<AroundSession, fault>>

InitFails(k) ==
  /\ session[k] = "entering"
  /\ session' = [session EXCEPT ![k] = "failing"]
  /\ fault' = [fault EXCEPT ![k] = "error"]
  /\ UNCHANGED AroundSession

\* The server or the transport dies.
Breaks(k) ==
  /\ session[k] = "live"
  /\ session' = [session EXCEPT ![k] = "breaking"]
  /\ fault' = [fault EXCEPT ![k] = "error"]
  /\ UNCHANGED AroundSession

OwnerStops(k) ==
  /\ session[k] = "live"
  /\ k \in closing
  /\ session' = [session EXCEPT ![k] = "breaking"]
  /\ UNCHANGED <<AroundSession, fault>>

\* The SDK contexts have been left, perhaps with an error.
TornDown(k) ==
  /\ session[k] \in {"breaking", "failing"}
  /\ session' = [session EXCEPT ![k] = "over"]
  /\ \E f \in {fault[k], "error"} : fault' = [fault EXCEPT ![k] = f]
  /\ UNCHANGED AroundSession

-----------------------------------------------------------------------------
(* Business calls.                                                         *)

AroundCall == <<providerVars, closerVars, managerVars, seekerVars, sessionVars>>

\* A call goes to the session, or is answered by an error that says it did not:
\* the provider is stopped, the tool not advertised, the session not there.  The
\* model may bring such a call again.
Brings(c) ==
  LET s == ServerOf[c]
      sends == started /\ s \in shown /\ Usable(clients[s])
  IN  /\ call[c] \in {"new", "notSent"}
      /\ tries[c] < MaxTries
      /\ tries' = [tries EXCEPT ![c] = @ + 1]
      /\ call' = [call EXCEPT ![c] = IF sends THEN "sent" ELSE "notSent"]
      /\ inbox' = IF sends THEN [inbox EXCEPT ![c] = @ + 1] ELSE inbox
      /\ UNCHANGED <<AroundCall, ran>>

\* The server executes what it received, whatever became of the session since.
Executes(c) ==
  /\ inbox[c] > 0
  /\ inbox' = [inbox EXCEPT ![c] = @ - 1]
  /\ ran' = [ran EXCEPT ![c] = @ + 1]
  /\ UNCHANGED <<AroundCall, call, tries>>

Answers(c) ==
  /\ call[c] = "sent"
  /\ ran[c] > 0
  /\ clients[ServerOf[c]] # None /\ session[clients[ServerOf[c]]] = "live"
  /\ call' = [call EXCEPT ![c] = "answered"]
  /\ UNCHANGED <<AroundCall, tries, inbox, ran>>

\* (mutant: a lost call is reported like one that was refused)
LostAsNotSent == "notSent"

\* What the model is told when no result can be trusted.
LostOutcome == "unknown"

\* The session breaks or is closed, the response is invalid, or the deadline of
\* the call passes: the server may have executed it, or may yet.
Loses(c) ==
  /\ call[c] = "sent"
  /\ call' = [call EXCEPT ![c] = LostOutcome]
  /\ UNCHANGED <<AroundCall, tries, inbox, ran>>

-----------------------------------------------------------------------------
SeekerStep(k) ==
  \/ FindsClient(k) \/ FindsClosed(k) \/ Opens(k) \/ WaitCancelled(k)
  \/ FactoryReturns(k) \/ FactoryRaises(k) \/ FactoryCancelled(k) \/ FactoryUnwound(k)
  \/ Disposed(k)

StartupStep(s) ==
  \/ ListingCancelled(s) \/ ClearBegins(s) \/ ClearCancelled(s) \/ Cleared(s)

CloserStep ==
  \/ StopBegins \/ StopJoins \/ TakeClients \/ StopEnds
  \/ \E s \in Servers : PassLock(s)
  \/ \E k \in Seekers : CloseBegins(k) \/ CloseEnds(k)

CallerStep == StartReturns \/ StartFails \/ StartRaises \/ HostReturns

ServersNext ==
  \/ StartProvider \/ CutStart \/ HostStops
  \/ CallerStep \/ CloserStep
  \/ \E k \in Seekers :
       \/ SeekerStep(k)
       \/ Initialized(k) \/ InitFails(k) \/ Breaks(k) \/ OwnerStops(k) \/ TornDown(k)
  \/ \E s \in Servers : StartupStep(s) \/ Expires(s) \/ Lists(s) \/ ListingFails(s)
  \/ \E u \in Users : UserCancelled(u) \/ \E s \in Servers : UserSeeks(u, s)
  \/ \E c \in Calls : Brings(c) \/ Executes(c) \/ Answers(c) \/ Loses(c)

ServersSpec == ServersInit /\ [][ServersNext]_serversVars

\* What goes on by itself: the loop resumes a coroutine that need not wait any
\* longer, timers fire, and the SDK leaves its contexts (the stdio transport
\* kills a server that does not end).  No server has to answer initialize or
\* tools/list, and nobody has to stop or to call.
SystemStep ==
  \/ CallerStep \/ CloserStep
  \/ \E k \in Seekers : SeekerStep(k) \/ OwnerStops(k) \/ TornDown(k)
  \/ \E s \in Servers : StartupStep(s) \/ Expires(s)

-----------------------------------------------------------------------------
\* Who called stop(), or start() in vain, and came back, however often it was
\* cancelled, leaves no startup task and no session behind, those of direct
\* callers included (MCPClientManager.aclose: "Join in-progress starts and close
\* peers even if a caller cancels").  A session that broke before its factory
\* looked at it is left out: nobody waits for its owner.
NothingLeftOpen ==
  start = "raised" \/ host \in {"returned", "raised"} =>
    /\ StartupsOver
    /\ \A k \in Seekers : session[k] \in Alive =>
         session[k] = "breaking" /\ k \notin closing /\ fault[k] = "error"

\* Whatever startup tasks, direct callers, failed starts and clients that did not
\* close interleave, a server has one session that is neither over nor tearing
\* itself down ("Create one client per configured server").
OneSessionPerServer ==
  \A j, k \in Seekers :
    j # k /\ target[j] = target[k] =>
      ~(session[j] \in {"entering", "live"} /\ session[k] \in {"entering", "live"})

\* Every session has exactly one who answers for it, and none when all have gone.
SessionsAccounted == OneSessionPerServer /\ NothingLeftOpen

\* A call the model is told was not sent has not run and will not, so that
\* bringing it again cannot execute it twice (MCPCallNotSentError).
RunsAtMostOnce ==
  \A c \in Calls :
    /\ ran[c] + inbox[c] <= 1
    /\ call[c] = "notSent" => ran[c] + inbox[c] = 0

\* A direct caller waits for a server that does not answer initialize:
\* get_client has no timeout of its own.
Hangs == \E u \in Users : pc[u] = "opening" /\ session[u] = "entering"

\* What lets SystemStep go on, without ENABLED: the guards of its actions.
CallerReady ==
  \/ start = "waiting" /\ ((\E s \in Required : pc[s] \in {"raised", "cancelled"})
                           \/ \A s \in Required : pc[s] = "done")
  \/ (start = "stopping" \/ host = "stopping") /\ Joined

CloserReady ==
  \/ stopper = "born"
  \/ stopper = "joining" /\ StartupsOver
  \/ stopper = "locking" /\ (passed = Servers \/ \E s \in Servers \ passed : Free(s))
  \/ stopper = "closing" /\ (doomed \cap closing = {}
                             \/ \E k \in doomed \cap closing : session[k] = "over")

SeekerReady(k) ==
  \/ HasLock(k)
  \/ pc[k] \in {"wants", "opening"} /\ told[k] # "no"
  \/ pc[k] = "opening" /\ IsReady(k)
  \/ pc[k] \in {"unwinding", "disposing"} /\ OwnerJoined(k)

OwnerReady(k) ==
  session[k] \in {"breaking", "failing"} \/ (session[k] = "live" /\ k \in closing)

StartupReady(s) ==
  \/ pc[s] = "wants" /\ Contended(s)
  \/ pc[s] \in {"opening", "unwinding", "disposing"} /\ told[s] = "no"
  \/ pc[s] = "listing"
  \/ pc[s] = "clearing" /\ (Free(s) \/ told[s] # "no")
  \/ pc[s] = "closing" /\ OwnerJoined(clients[s])

Ready ==
  \/ CallerReady \/ CloserReady
  \/ \E k \in Seekers : SeekerReady(k) \/ OwnerReady(k)
  \/ \E s \in Servers : StartupReady(s)

\* start() and stop() come back whatever the servers do, unless a direct caller
\* of get_client holds a lock for ever: while one of them is awaited, some step
\* that needs no server goes on.  Every step here takes a coroutine, a session or
\* a call further, none goes back, so that going on ends.
AwaitedGoesOn ==
  (start \in {"waiting", "stopping"} \/ host = "stopping") /\ ~Hangs => Ready

\* The same of the steps themselves: what is ready is a step that can be taken,
\* and there is no other.
NoStandstill == AwaitedGoesOn /\ (Ready <=> ENABLED SystemStep)

\* A stop reports no error.  False, see the README.
StopSucceeds == host # "raised"
=============================================================================
