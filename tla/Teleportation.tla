---------------------------- MODULE Teleportation ----------------------------
(***************************************************************************)
(* What the application promises for every operation: the two halves of    *)
(* one entangled pair are held by its sender and its receiver, each is     *)
(* measured or corrected once and in the order the protocol asks for,      *)
(* while the other half is still held idle, and both are given back.       *)
(*                                                                         *)
(*   teledata: the receiver measures, and is done; the sender corrects.    *)
(*   telegate: the receiver measures; the sender gates and measures; the   *)
(*             receiver corrects.                                          *)
(*                                                                         *)
(* Neither the packets nor what is spoiled of them can be seen here.       *)
(***************************************************************************)
EXTENDS Integers, FiniteSets

CONSTANTS
  Node,
  Protocols,
  Op,         \* operations: their sender, and their number there
  Qubits      \* qubits of a node for each direction

VARIABLES
  sender,     \* operation |-> what its sender does
  receiver,   \* operation |-> what its receiver does
  job         \* operation |-> its protocol and its receiver, while it lasts

vars == <<sender, receiver, job>>

SenderPhase == {"new", "waiting", "holding", "gating", "spent", "done"}
ReceiverPhase == {"idle", "measuring", "measured", "spent", "done"}

\* A qubit is in use.
SenderHolds == {"holding", "gating", "spent"}
ReceiverHolds == {"measuring", "measured", "spent"}

NoJob == <<>>
Telegate(op) == job[op] # NoJob /\ job[op][1] = "telegate"

\* The waiting operations of node n that get a qubit, the oldest first.
HandOut(phase, n) ==
  [op \in Op |->
     IF /\ op[1] = n /\ phase[op] = "waiting"
        /\ Cardinality({o \in Op : /\ o[1] = n
                                   /\ \/ phase[o] \in SenderHolds
                                      \/ phase[o] = "waiting" /\ o[2] < op[2]}) < Qubits
     THEN "holding" ELSE phase[op]]

\* Both ends of op move on; the job is over when both are done.
Becomes(op, s, r) ==
  /\ sender' = IF s = "done" THEN HandOut([sender EXCEPT ![op] = s], op[1])
               ELSE [sender EXCEPT ![op] = s]
  /\ receiver' = [receiver EXCEPT ![op] = r]
  /\ job' = IF s = "done" /\ r = "done" THEN [job EXCEPT ![op] = NoJob] ELSE job

\* In the actions s and r are what the two ends of op do.
Start(op, s) ==
  /\ s = "new"
  /\ \A o \in Op : o[1] = op[1] /\ o[2] < op[2] => sender[o] # "new"
  /\ sender' = HandOut([sender EXCEPT ![op] = "waiting"], op[1])
  /\ \E protocol \in Protocols, peer \in Node \ {op[1]} :
       job' = [job EXCEPT ![op] = <<protocol, peer>>]
  /\ UNCHANGED receiver

\* The pair is shared: the receiver takes a free qubit and operates on it.
Share(op, s, r) ==
  /\ s = "holding" /\ r = "idle"
  /\ Cardinality({o \in Op : receiver[o] \in ReceiverHolds /\ job[o][2] = job[op][2]}) < Qubits
  /\ Becomes(op, "holding", "measuring")

Measure(op, s, r) ==
  /\ s = "holding" /\ r = "measuring"
  /\ Becomes(op, "holding", IF Telegate(op) THEN "measured" ELSE "done")

CorrectTeledata(op, s, r) ==
  /\ s = "holding" /\ r = "done" /\ ~Telegate(op)
  /\ Becomes(op, "spent", "done")

BeginGate(op, s, r) ==
  /\ s = "holding" /\ r = "measured"
  /\ Becomes(op, "gating", "measured")

EndGate(op, s, r) ==
  /\ s = "gating" /\ r = "measured"
  /\ Becomes(op, "spent", "measured")

CorrectTelegate(op, s, r) ==
  /\ s \in {"spent", "done"} /\ r = "measured"
  /\ Becomes(op, s, "spent")

ReleaseSender(op, s, r) == s = "spent" /\ Becomes(op, "done", r)

ReleaseReceiver(op, s, r) == r = "spent" /\ Becomes(op, s, "done")

Step(op, s, r) ==
  \/ Start(op, s) \/ Share(op, s, r) \/ Measure(op, s, r)
  \/ CorrectTeledata(op, s, r) \/ BeginGate(op, s, r) \/ EndGate(op, s, r)
  \/ CorrectTelegate(op, s, r) \/ ReleaseSender(op, s, r) \/ ReleaseReceiver(op, s, r)

Init ==
  /\ sender = [op \in Op |-> "new"]
  /\ receiver = [op \in Op |-> "idle"]
  /\ job = [op \in Op |-> NoJob]

\* Every step moves an end of its operation.
Next ==
  \E op \in Op :
    /\ sender'[op] # sender[op] \/ receiver'[op] # receiver[op]
    /\ Step(op, sender[op], receiver[op])

Spec == Init /\ [][Next]_vars
=============================================================================
