---------------------------- MODULE SharedCalls ----------------------------
(***************************************************************************)
(* What the tool batch promises to the providers it calls: repeatable      *)
(* observations may overlap each other, and every other invocation has the *)
(* Turn for itself.                                                        *)
(***************************************************************************)
CONSTANTS
  Calls,  \* the calls of a Turn's open batch
  None    \* no call

VARIABLES
  observing,  \* calls whose providers may overlap and are being invoked now
  alone       \* the call that is invoked with nothing beside it, or None

vars == <<observing, alone>>

Init == observing = {} /\ alone = None

Observe(c) ==
  /\ alone = None
  /\ c \notin observing
  /\ observing' = observing \cup {c}
  /\ UNCHANGED alone

EndObservation(c) ==
  /\ c \in observing
  /\ observing' = observing \ {c}
  /\ UNCHANGED alone

\* Invoke an unsafe call: nothing else is being invoked.
InvokeAlone(c) ==
  /\ alone = None
  /\ observing = {}
  /\ alone' = c
  /\ UNCHANGED observing

EndAlone(c) ==
  /\ alone = c
  /\ alone' = None
  /\ UNCHANGED observing

Next ==
  \E c \in Calls : \/ Observe(c) \/ EndObservation(c)
                   \/ InvokeAlone(c) \/ EndAlone(c)

Spec == Init /\ [][Next]_vars
=============================================================================
