----------------------------- MODULE ReliableLink -----------------------------
(***************************************************************************)
(* What an endpoint's OpticalDevice promises the stack above it: a message *)
(* it accepts is handed up at the other end at most once, and is handed up *)
(* unless the device gives it up because its control queue is full.        *)
(***************************************************************************)
EXTENDS Naturals

CONSTANT Message

VARIABLES
  accepted,   \* messages Send returned TRUE for
  handed,     \* message |-> times it was handed to the receiver's stack
  givenUp     \* messages no attempt is scheduled for any more

linkVars == <<accepted, handed, givenUp>>

Init == accepted = {} /\ handed = [m \in Message |-> 0] /\ givenUp = {}

Accept(m) ==
  /\ m \notin accepted
  /\ accepted' = accepted \cup {m}
  /\ UNCHANGED <<handed, givenUp>>

Deliver(m) ==
  /\ m \in accepted /\ handed[m] = 0
  /\ handed' = [handed EXCEPT ![m] = 1]
  /\ UNCHANGED <<accepted, givenUp>>

GiveUp(m) ==
  /\ m \in accepted \ givenUp
  /\ givenUp' = givenUp \cup {m}
  /\ UNCHANGED <<accepted, handed>>

Next == \E m \in Message : Accept(m) \/ Deliver(m) \/ GiveUp(m)

Spec == Init /\ [][Next]_linkVars

\* An accepted message is handed up, or the device stops trying.
Served == \A m \in Message : (m \in accepted) ~> (handed[m] = 1 \/ m \in givenUp)
=============================================================================
