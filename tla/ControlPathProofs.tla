-------------------------- MODULE ControlPathProofs --------------------------
(***************************************************************************)
(* Proofs about the control messages, for any ways of the messages, any    *)
(* delays and lengths of the queues: a burst is late, and a message sent   *)
(* again, only if a control message was refused or has waited for others.  *)
(*                                                                         *)
(* The invariant follows a message by two clocks that do not wait.         *)
(* CtrlDue(m, hop) is when its control message would be read behind its    *)
(* hop-th fibre, AnswerDue(m, hop) the same for the AWK; HeraldOK and      *)
(* Answered say that the real one is behind by no more than it has waited. *)
(* The burst keeps to HeadDue exactly (BurstOK), so a burst that is first  *)
(* shows how long its control message has waited; and CheckSent, due when  *)
(* the AWK's clock has run for the span of the property, shows the same of *)
(* the AWK (LateReason, RetryReason).                                      *)
(*                                                                         *)
(* In the sender's queue the wait is not counted but planned for: LaneInv  *)
(* says that each place still to be served before a message is in the lead *)
(* of its burst.  A control message is in one place only (PlaceInv).       *)
(***************************************************************************)
EXTENDS ControlPath, SequencesExt, SequenceTheorems, WellFoundedInduction, TLAPS

\* The search loops find a first match whenever there is one.
LEMMA SetHasMin ==
  ASSUME NEW S \in SUBSET Nat, S # {}
  PROVE  \E x \in S : \A y \in S : x <= y
<1>1. PICK x \in S : \A y \in S : ~ (<<y, x>> \in OpToRel(<, Nat))
  BY WFMin, NatLessThanWellFounded
<1>2. \A y \in S : ~(y < x)
  BY <1>1 DEF OpToRel
<1> QED BY <1>2


\* What the messages have in the control queues.
Entry == [msg : Message, type : Type, hop : Nat, since : Nat]
Queued == UNION {{queue[d][i] : i \in DOMAIN queue[d]} : d \in Device}

Of(m) == {e \in events : e.msg = m}
Waiting(m) == {c \in Queued : c.msg = m}

\* Products, by name: what the proofs need of them are the lemmas below.
Stops(hop) == hop * (Processing + Tx)
Turns(places) == places * Busy
Passed(hop) == hop * Propagation

HopOK(m, hop) == hop \in 1..Len(Path[m])

EventOK(e) ==
  /\ e.fn = "Receive" => HopOK(e.msg, e.hop)
  /\ e.fn = "Burst" => e.hop <= Len(Path[e.msg])
  /\ e.fn = "SendCTRL" => e.type = "AWK" /\ e.hop = 1
  /\ e.fn = "UpdateReceived" => e.hop = Len(Path[e.msg])
  /\ e.fn \notin {"Receive", "SendCTRL"} => e.type = "CTRL"

TypeInv ==
  /\ now \in Nat
  /\ events \subseteq Event /\ \A e \in events : EventOK(e)
  /\ queue \in [Device -> Seq(Entry)] /\ \A c \in Queued : HopOK(c.msg, c.hop)
  /\ done \in [Device -> Nat \cup {Idle}]
  /\ next_transmit \in [Device -> Nat]
  /\ plan \in [Message -> Nat \cup {Unsent}]
  /\ booked \in [Message -> Nat]
  /\ wait \in [Message \X Type -> Nat]
  /\ expected \cup acked \cup nacked \cup retried \cup refused \cup late \subseteq Message

TimeInv ==
  /\ \A e \in events : now <= e.at
  /\ \A d \in Device : done[d] # Idle => now <= done[d] /\ done[d] <= now + Busy
  /\ \A c \in Queued : c.since <= now

\* The i-th message of a queue starts when those before it are done.
LaneInv ==
  \A d \in Device : \A i \in DOMAIN queue[d] :
    /\ done[d] # Idle
    /\ ~Counts(queue[d][i]) =>
         done[d] + Turns(i - 1) + Processing + PacketDelay <= plan[queue[d][i].msg]

\* A control message is in one place only.
PlaceInv ==
  \A d \in Device, f \in Device : \A i \in DOMAIN queue[d], j \in DOMAIN queue[f] :
    /\ queue[d][i].type = "CTRL" /\ queue[f][j].type = "CTRL"
    /\ queue[d][i].msg = queue[f][j].msg
    => d = f /\ i = j

-----------------------------------------------------------------------------
\* What a message takes to be read and sent grows with its stops.
LEMMA StopsLemma ==
  /\ Stops(0) = 0
  /\ \A h \in Nat : Stops(h) \in Nat /\ Stops(h + 1) = Stops(h) + Processing + Tx
  /\ \A h, k \in Nat : h <= k => Stops(h) <= Stops(k)
<1>1. Processing \in Nat /\ Tx \in Nat
  BY PathAssumption
<1>2. PICK p : p = Processing + Tx /\ p \in Nat
  BY <1>1
<1>3. \A h \in Nat : h * p \in Nat /\ (h + 1) * p = h * p + p
  BY <1>2
<1>4. \A h, k \in Nat : h <= k => h * p <= k * p
  <2> SUFFICES ASSUME NEW h \in Nat, NEW k \in Nat, h <= k PROVE h * p <= k * p
    OBVIOUS
  <2>1. PICK i \in Nat : k = h + i
    <3>1. k - h \in Nat /\ k = h + (k - h)
      OBVIOUS
    <3> QED BY <3>1
  <2>2. k * p = h * p + i * p /\ i * p \in Nat /\ h * p \in Nat
    BY <1>2, <2>1
  <2> QED
    BY <2>2
<1>5. 0 * p = 0
  BY <1>2
<1> QED
  BY <1>1, <1>2, <1>3, <1>4, <1>5 DEF Stops

\* So does what a burst takes in the switches.
LEMMA PassedLemma ==
  /\ Passed(0) = 0
  /\ \A h \in Nat : Passed(h) \in Nat /\ Passed(h + 1) = Passed(h) + Propagation
  /\ \A h, k \in Nat : h <= k => Passed(h) <= Passed(k)
<1>1. Propagation \in Nat
  BY PathAssumption
<1>3. \A h \in Nat : /\ h * Propagation \in Nat
                     /\ (h + 1) * Propagation = h * Propagation + Propagation
  BY <1>1
<1>4. \A h, k \in Nat : h <= k => h * Propagation <= k * Propagation
  <2> SUFFICES ASSUME NEW h \in Nat, NEW k \in Nat, h <= k
               PROVE  h * Propagation <= k * Propagation
    OBVIOUS
  <2>1. PICK i \in Nat : k = h + i
    <3>1. k - h \in Nat /\ k = h + (k - h)
      OBVIOUS
    <3> QED BY <3>1
  <2>2. /\ k * Propagation = h * Propagation + i * Propagation
        /\ i * Propagation \in Nat /\ h * Propagation \in Nat
    BY <1>1, <2>1
  <2> QED
    BY <2>2
<1>5. 0 * Propagation = 0
  BY <1>1
<1> QED
  BY <1>3, <1>4, <1>5 DEF Passed

\* And the wait with the places in a queue.
LEMMA TurnsLemma ==
  /\ Busy \in Nat /\ Turns(0) = 0
  /\ \A i \in Nat : Turns(i) \in Nat /\ Turns(i + 1) = Turns(i) + Busy
<1>1. PICK b \in Nat : b = Busy
  BY PathAssumption DEF Busy
<1>2. \A i \in Nat : i * b \in Nat /\ (i + 1) * b = i * b + b
  BY <1>1
<1>3. 0 * b = 0
  BY <1>1
<1> QED
  BY <1>1, <1>2, <1>3 DEF Turns

\* Delays only add up.
LEMMA SumsGrow ==
  ASSUME NEW n \in Nat, NEW sum \in [0..n -> Nat], \A h \in 1..n : sum[h - 1] <= sum[h]
  PROVE  \A a, b \in 0..n : a <= b => sum[a] <= sum[b]
<1> SUFFICES ASSUME NEW a \in 0..n, NEW b \in 0..n, a <= b, ~(sum[a] <= sum[b]) PROVE FALSE
  OBVIOUS
<1> DEFINE S == {h \in 0..n : a <= h /\ ~(sum[a] <= sum[h])}
<1>0. b \in S
  OBVIOUS
<1>1. S \in SUBSET Nat /\ S # {}
  <2>1. \A h \in S : h \in Nat
    OBVIOUS
  <2> QED
    BY <1>0, <2>1
<1>2. PICK h \in S : \A k \in S : h <= k
  BY <1>1, SetHasMin
<1>3. h # a /\ h - 1 \in 0..n /\ a <= h - 1 /\ h \in 1..n
  OBVIOUS
<1>4. h - 1 \notin S
  BY <1>2, <1>3
<1>5. sum[a] <= sum[h - 1]
  BY <1>3, <1>4
<1>6. sum[h - 1] <= sum[h] /\ sum[a] \in Nat /\ sum[h] \in Nat /\ sum[h - 1] \in Nat
  BY <1>3
<1> QED
  BY <1>5, <1>6

\* The two ways of a message.
LEMMA Ways ==
  ASSUME NEW m \in Message
  PROVE  /\ Len(Path[m]) \in Nat /\ Len(Path[m]) >= 2 /\ Len(Back[m]) = Len(Path[m])
         /\ \A h \in 1..Len(Path[m]) : Path[m][h] \in Device /\ Back[m][h] \in Device
         /\ \A h \in 0..Len(Path[m]) : Reach[m][h] \in Nat /\ Return[m][h] \in Nat
         /\ Reach[m][0] = 0 /\ Return[m][0] = 0
         /\ \A h \in 1..Len(Path[m]) :
              /\ Reach[m][h] = Reach[m][h - 1] + Delay[Path[m][h]]
              /\ Return[m][h] = Return[m][h - 1] + Delay[Back[m][h]]
              /\ Delay[Path[m][h]] \in Nat /\ Delay[Back[m][h]] \in Nat
         /\ \A a, b \in 0..Len(Path[m]) : a <= b => /\ Reach[m][a] <= Reach[m][b]
                                                    /\ Return[m][a] <= Return[m][b]
<1>1. /\ Path[m] \in Seq(Device) /\ Back[m] \in Seq(Device)
      /\ SumsOf(Path[m], Reach[m]) /\ SumsOf(Back[m], Return[m])
      /\ Len(Path[m]) >= 2 /\ Len(Back[m]) = Len(Path[m]) /\ Delay \in [Device -> Nat]
  BY PathAssumption
<1>2. PICK n \in Nat : n = Len(Path[m])
  BY <1>1
<1>3. \A h \in 1..n : Path[m][h] \in Device /\ Back[m][h] \in Device
  BY SMTT(20), <1>1, <1>2
<1>4. /\ Reach[m] \in [0..n -> Nat] /\ Return[m] \in [0..n -> Nat]
      /\ Reach[m][0] = 0 /\ Return[m][0] = 0
      /\ \A h \in 1..n : /\ Reach[m][h] = Reach[m][h - 1] + Delay[Path[m][h]]
                         /\ Return[m][h] = Return[m][h - 1] + Delay[Back[m][h]]
  BY <1>1, <1>2 DEF SumsOf
<1>5. \A h \in 1..n : Delay[Path[m][h]] \in Nat /\ Delay[Back[m][h]] \in Nat
  BY <1>1, <1>3
<1>6. PICK f \in [0..n -> Nat] : f = Reach[m]
  BY <1>4
<1>7. PICK g \in [0..n -> Nat] : g = Return[m]
  BY <1>4
<1>8. \A h \in 1..n : f[h - 1] <= f[h] /\ g[h - 1] <= g[h]
  <2> SUFFICES ASSUME NEW h \in 1..n PROVE f[h - 1] <= f[h] /\ g[h - 1] <= g[h]
    OBVIOUS
  <2>1. h - 1 \in 0..n
    OBVIOUS
  <2>2. f[h - 1] \in Nat /\ g[h - 1] \in Nat
    BY <2>1
  <2>3. f[h] = f[h - 1] + Delay[Path[m][h]] /\ g[h] = g[h - 1] + Delay[Back[m][h]]
    BY <1>4, <1>6, <1>7
  <2> QED
    BY SMTT(20), <1>5, <2>2, <2>3
<1>9. \A a, b \in 0..n : a <= b => f[a] <= f[b]
  BY <1>8, SumsGrow
<1>10. \A a, b \in 0..n : a <= b => g[a] <= g[b]
  BY <1>8, SumsGrow
<1> QED
  BY <1>1, <1>2, <1>3, <1>4, <1>5, <1>6, <1>7, <1>9, <1>10

-----------------------------------------------------------------------------
\* The entries of the queues, by their places.
LEMMA InQueue ==
  /\ \A c : c \in Queued <=> \E d \in Device : \E i \in DOMAIN queue[d] : queue[d][i] = c
  /\ \A d \in Device : \A i \in DOMAIN queue[d] : queue[d][i] \in Queued
BY DEF Queued

\* The waits of a message, by its entries.
LEMMA WaitIs ==
  ASSUME NEW m, NEW type, NEW span
  PROVE  WaitedMoreThan(m, type, span) <=>
           \/ wait[m, type] > span
           \/ \E c \in Queued : /\ c.msg = m /\ c.type = type /\ Counts(c)
                                /\ wait[m, type] + (now - c.since) > span
<1> DEFINE Long(c) == /\ c.msg = m /\ c.type = type /\ Counts(c)
                      /\ wait[m, type] + (now - c.since) > span
<1>1. WaitedMoreThan(m, type, span) <=>
        wait[m, type] > span \/ \E d \in Device : \E i \in DOMAIN queue[d] : Long(queue[d][i])
  BY DEF WaitedMoreThan
<1>2. (\E d \in Device : \E i \in DOMAIN queue[d] : Long(queue[d][i])) <=> \E c \in Queued : Long(c)
  <2> HIDE DEF Long
  <2> QED
    BY InQueue
<1> QED
  BY <1>1, <1>2

\* A message joins a queue.
LEMMA AppendStep ==
  ASSUME TypeInv, NEW d \in Device, NEW c \in Entry,
         queue' = [queue EXCEPT ![d] = Append(@, c)]
  PROVE  /\ queue' \in [Device -> Seq(Entry)]
         /\ \A x \in Device : \A i \in DOMAIN queue'[x] :
              \/ i \in DOMAIN queue[x] /\ queue'[x][i] = queue[x][i]
              \/ x = d /\ i = Len(queue[d]) + 1 /\ queue'[x][i] = c
         /\ Queued' = Queued \cup {c}
<1>1. queue \in [Device -> Seq(Entry)]
  BY DEF TypeInv
<1>2. PICK q \in Seq(Entry) : q = queue[d]
  BY <1>1
<1>3. /\ Append(q, c) \in Seq(Entry) /\ Len(Append(q, c)) = Len(q) + 1 /\ Len(q) \in Nat
      /\ \A i \in 1..Len(q) : Append(q, c)[i] = q[i]
      /\ Append(q, c)[Len(q) + 1] = c
      /\ DOMAIN q = 1..Len(q) /\ DOMAIN Append(q, c) = 1..(Len(q) + 1)
  BY <1>2
<1>4. queue'[d] = Append(q, c) /\ \A x \in Device : x # d => queue'[x] = queue[x]
  BY <1>1, <1>2
<1>5. queue' \in [Device -> Seq(Entry)]
  BY <1>1, <1>2, <1>3
<1>6. ASSUME NEW x \in Device, NEW i \in DOMAIN queue'[x]
      PROVE  \/ i \in DOMAIN queue[x] /\ queue'[x][i] = queue[x][i]
             \/ x = d /\ i = Len(queue[d]) + 1 /\ queue'[x][i] = c
  BY <1>2, <1>3, <1>4, <1>6
<1>7. \A x \in Device : \A i \in DOMAIN queue[x] : i \in DOMAIN queue'[x] /\ queue'[x][i] = queue[x][i]
  BY <1>2, <1>3, <1>4
<1>8. Len(q) + 1 \in DOMAIN queue'[d] /\ queue'[d][Len(q) + 1] = c
  BY <1>3, <1>4
<1>9. \A e : e \in Queued' <=> \E x \in Device : \E i \in DOMAIN queue'[x] : queue'[x][i] = e
  BY DEF Queued
<1>10. \A e : e \in Queued' <=> e \in Queued \cup {c}
  <2>1. ASSUME NEW e \in Queued' PROVE e \in Queued \cup {c}
    BY <1>6, <1>9, <2>1, InQueue
  <2>2. ASSUME NEW e \in Queued PROVE e \in Queued'
    BY <1>7, <1>9, <2>2, InQueue
  <2>3. c \in Queued'
    BY <1>8, <1>9
  <2> QED
    BY <2>1, <2>2, <2>3
<1> QED
  BY <1>5, <1>6, <1>10

\* The head of a queue leaves it.
LEMMA TailStep ==
  ASSUME TypeInv, NEW d \in Device, queue[d] # <<>>,
         queue' = [queue EXCEPT ![d] = Tail(@)]
  PROVE  /\ queue' \in [Device -> Seq(Entry)]
         /\ \A x \in Device : \A i \in DOMAIN queue'[x] :
              \/ x # d /\ i \in DOMAIN queue[x] /\ queue'[x][i] = queue[x][i]
              \/ /\ x = d /\ i \in Nat /\ i >= 1 /\ i + 1 \in DOMAIN queue[d]
                 /\ queue'[x][i] = queue[d][i + 1]
         /\ 1 \in DOMAIN queue[d] /\ Head(queue[d]) = queue[d][1]
         /\ Queued' \subseteq Queued
         /\ Head(queue[d]) \in Queued
         /\ \A c \in Queued : c \in Queued' \/ c = Head(queue[d])
<1>1. queue \in [Device -> Seq(Entry)]
  BY DEF TypeInv
<1>2. PICK q \in Seq(Entry) : q = queue[d]
  BY <1>1
<1>3. /\ Tail(q) \in Seq(Entry) /\ Len(Tail(q)) = Len(q) - 1 /\ Len(q) \in Nat /\ Len(q) >= 1
      /\ \A i \in 1..(Len(q) - 1) : Tail(q)[i] = q[i + 1]
      /\ DOMAIN q = 1..Len(q) /\ DOMAIN Tail(q) = 1..(Len(q) - 1) /\ Head(q) = q[1]
  BY <1>2
<1>4. queue'[d] = Tail(q) /\ \A x \in Device : x # d => queue'[x] = queue[x]
  BY <1>1, <1>2
<1>5. queue' \in [Device -> Seq(Entry)]
  BY <1>1, <1>2, <1>3
<1>6. ASSUME NEW x \in Device, NEW i \in DOMAIN queue'[x]
      PROVE  \/ x # d /\ i \in DOMAIN queue[x] /\ queue'[x][i] = queue[x][i]
             \/ /\ x = d /\ i \in Nat /\ i >= 1 /\ i + 1 \in DOMAIN queue[d]
                /\ queue'[x][i] = queue[d][i + 1]
  <2>1. CASE x # d
    BY <1>4, <1>6, <2>1
  <2>2. CASE x = d
    <3>1. i \in 1..(Len(q) - 1)
      BY <1>3, <1>4, <1>6, <2>2
    <3>2. i \in Nat /\ i >= 1 /\ i + 1 \in 1..Len(q) /\ Tail(q)[i] = q[i + 1]
      BY <1>3, <3>1
    <3> QED
      BY <1>2, <1>3, <1>4, <2>2, <3>2
  <2> QED
    BY <2>1, <2>2
<1>7. ASSUME NEW x \in Device, NEW i \in DOMAIN queue[x], ~(x = d /\ i = 1)
      PROVE  \E k \in DOMAIN queue'[x] : queue'[x][k] = queue[x][i]
  <2>1. CASE x # d
    BY <1>4, <2>1
  <2>2. CASE x = d
    <3>1. i \in 1..Len(q) /\ i # 1 /\ i - 1 \in 1..(Len(q) - 1) /\ (i - 1) + 1 = i
      BY <1>2, <1>3, <1>7, <2>2
    <3>2. Tail(q)[i - 1] = q[i]
      BY <1>3, <3>1
    <3> QED
      BY <1>2, <1>3, <1>4, <2>2, <3>1, <3>2
  <2> QED
    BY <2>1, <2>2
<1>8. \A e : e \in Queued' <=> \E x \in Device : \E i \in DOMAIN queue'[x] : queue'[x][i] = e
  BY DEF Queued
<1>9. 1 \in DOMAIN queue[d] /\ Head(queue[d]) = queue[d][1]
  BY <1>2, <1>3
<1>10. Head(queue[d]) \in Queued
  BY <1>9, InQueue
<1>11. \A e \in Queued' : e \in Queued
  BY <1>6, <1>8, InQueue
<1>12. \A e \in Queued : e \in Queued' \/ e = Head(queue[d])
  BY <1>7, <1>8, <1>9, InQueue
<1> QED
  BY <1>5, <1>6, <1>9, <1>10, <1>11, <1>12

-----------------------------------------------------------------------------
Posted(m, type, hop) == [msg |-> m, type |-> type, hop |-> hop, since |-> now]

\* What ControlSend does to a message: it is refused, it leaves, or it waits.
Accepted(m, type, hop, left, no) ==
  \/ refused' = no \cup {m} /\ events' = left /\ Queued' = Queued
  \/ refused' = no /\ events' = left \cup {Received(m, type, hop)} /\ Queued' = Queued
  \/ refused' = no /\ events' = left /\ Queued' = Queued \cup {Posted(m, type, hop)}

QueuesOK ==
  /\ queue \in [Device -> Seq(Entry)] /\ \A c \in Queued : HopOK(c.msg, c.hop)
  /\ done \in [Device -> Nat \cup {Idle}]
  /\ \A d \in Device : done[d] # Idle => now <= done[d] /\ done[d] <= now + Busy
  /\ \A c \in Queued : c.since <= now
  /\ LaneInv /\ PlaceInv

\* The devices of a way exist.
LEMMA RouteDevice ==
  ASSUME NEW m \in Message, NEW type \in Type, NEW hop, HopOK(m, hop)
  PROVE  Route(type, m)[hop] \in Device /\ Delay[Route(type, m)[hop]] \in Nat
BY Ways DEF Route, HopOK

\* ControlSend leaves the queues in order, if the lead of a new burst covers its place.
LEMMA SendQueues ==
  ASSUME TypeInv, TimeInv, LaneInv, PlaceInv,
         NEW m \in Message, NEW type \in Type, NEW hop, HopOK(m, hop), NEW left, NEW no,
         ControlSend(m, type, hop, left, no), now' = now,
         \A c \in Queued : plan'[c.msg] = plan[c.msg],
         type = "CTRL" => \A c \in Queued : ~(c.msg = m /\ c.type = "CTRL"),
         type = "CTRL" /\ hop = 1 /\ ~Full(Path[m][1]) =>
           now + Backlog(Path[m][1]) + PacketDelay <= plan'[m],
         plan'[m] \in Nat \cup {Unsent}
  PROVE  Accepted(m, type, hop, left, no) /\ QueuesOK'
<1>1. PICK d \in Device : d = Route(type, m)[hop]
  BY RouteDevice
<1>2. QueuesOK
  BY DEF TypeInv, TimeInv, QueuesOK
<1>3. Busy \in Nat /\ now \in Nat /\ PacketDelay \in Nat /\ Processing \in Nat
  BY TurnsLemma, PathAssumption DEF TypeInv
<1>4. hop \in Nat
  BY Ways DEF HopOK
<1>5. ASSUME UNCHANGED queue, done' \in [Device -> Nat \cup {Idle}],
             \A x \in Device : done[x] # Idle => done'[x] = done[x],
             \A x \in Device : done'[x] # Idle => now <= done'[x] /\ done'[x] <= now + Busy
      PROVE  Queued' = Queued /\ QueuesOK'
  <2>1. Queued' = Queued
    BY <1>5 DEF Queued
  <2>2. LaneInv'
    BY <1>2, <1>5, InQueue DEF QueuesOK, LaneInv
  <2>3. PlaceInv'
    BY <1>2, <1>5 DEF QueuesOK, PlaceInv
  <2> QED
    BY <1>2, <1>5, <2>1, <2>2, <2>3 DEF QueuesOK
<1>6. CASE Full(d) /\ refused' = no \cup {m} /\ events' = left /\ UNCHANGED <<queue, done>>
  BY <1>2, <1>5, <1>6 DEF QueuesOK, Accepted
<1>7. CASE /\ ~Full(d) /\ done[d] = Idle
           /\ done' = [done EXCEPT ![d] = now + Busy]
           /\ events' = left \cup {Received(m, type, hop)} /\ refused' = no /\ UNCHANGED queue
  <2>1. now + Busy \in Nat /\ now <= now + Busy
    BY <1>3
  <2>2. /\ done' \in [Device -> Nat \cup {Idle}]
        /\ \A x \in Device : done'[x] = IF x = d THEN now + Busy ELSE done[x]
    BY <1>2, <1>7, <2>1 DEF QueuesOK
  <2> QED
    BY <1>2, <1>5, <1>7, <2>1, <2>2 DEF QueuesOK, Accepted
<1>8. CASE /\ ~Full(d) /\ done[d] # Idle
           /\ queue' = [queue EXCEPT ![d] = Append(@, Posted(m, type, hop))]
           /\ events' = left /\ refused' = no /\ UNCHANGED done
  <2>1. PICK c \in Entry : c = Posted(m, type, hop)
    BY <1>3, <1>4 DEF Entry, Posted
  <2>2. /\ c.msg = m /\ c.type = type /\ c.hop = hop /\ c.since = now
        /\ queue' = [queue EXCEPT ![d] = Append(@, c)]
    BY <1>8, <2>1 DEF Posted
  <2>3. /\ queue' \in [Device -> Seq(Entry)]
        /\ \A x \in Device : \A i \in DOMAIN queue'[x] :
             \/ i \in DOMAIN queue[x] /\ queue'[x][i] = queue[x][i]
             \/ x = d /\ i = Len(queue[d]) + 1 /\ queue'[x][i] = c
        /\ Queued' = Queued \cup {c}
    BY <2>2, AppendStep
  <2>4. LaneInv'
    <3> SUFFICES ASSUME NEW x \in Device, NEW i \in DOMAIN queue'[x]
                 PROVE  /\ done'[x] # Idle
                        /\ ~Counts(queue'[x][i]) =>
                             done'[x] + Turns(i - 1) + Processing + PacketDelay
                               <= plan'[queue'[x][i].msg]
      BY DEF LaneInv, Counts
    <3>1. CASE i \in DOMAIN queue[x] /\ queue'[x][i] = queue[x][i]
      BY <1>8, <3>1, InQueue DEF LaneInv
    <3>2. CASE x = d /\ i = Len(queue[d]) + 1 /\ queue'[x][i] = c
      <4>1. ASSUME ~Counts(c)
            PROVE  done[d] + Turns(i - 1) + Processing + PacketDelay <= plan'[m]
        <5>1. type = "CTRL" /\ hop = 1 /\ d = Path[m][1]
          BY <1>1, <2>2, <4>1 DEF Counts, Route
        <5>2. now + Backlog(d) + PacketDelay <= plan'[m]
          BY <1>8, <5>1
        <5>3. PICK n \in Nat : n = Len(queue[d])
          BY <1>2 DEF QueuesOK
        <5>4. /\ Backlog(d) = Processing + Turns(n + 1)
              /\ Turns(n) \in Nat /\ Turns(n + 1) = Turns(n) + Busy
          <6>1. Backlog(d) = Processing + Busy * (n + 1)
            BY <1>8, <5>3 DEF Backlog
          <6>2. Busy * (n + 1) = Turns(n + 1)
            BY <1>3, <5>3 DEF Turns
          <6> QED
            BY <6>1, <6>2, <5>3, TurnsLemma
        <5>5. i - 1 = n /\ done[d] \in Nat /\ done[d] <= now + Busy
          BY <1>2, <1>8, <3>2, <5>3 DEF QueuesOK
        <5> QED
          BY SMTT(20), <1>3, <5>2, <5>3, <5>4, <5>5 DEF Unsent
      <4> QED
        BY <1>8, <2>2, <3>2, <4>1
    <3> QED
      BY <2>3, <3>1, <3>2
  <2>5. PlaceInv'
    <3> SUFFICES ASSUME NEW x \in Device, NEW y \in Device,
                        NEW i \in DOMAIN queue'[x], NEW j \in DOMAIN queue'[y],
                        queue'[x][i].type = "CTRL", queue'[y][j].type = "CTRL",
                        queue'[x][i].msg = queue'[y][j].msg
                 PROVE  x = y /\ i = j
      BY DEF PlaceInv
    <3>1. ASSUME NEW z \in Device, NEW k \in DOMAIN queue[z],
                 queue[z][k].msg = m, queue[z][k].type = "CTRL", type = "CTRL"
          PROVE  FALSE
      BY <3>1, InQueue
    <3> QED
      BY <2>2, <2>3, <3>1 DEF PlaceInv
  <2>6. /\ \A f \in Queued' : HopOK(f.msg, f.hop)
        /\ \A f \in Queued' : f.since <= now
    BY <1>2, <1>3, <2>2, <2>3 DEF QueuesOK
  <2>7. QueuesOK'
    BY <1>2, <1>8, <2>3, <2>4, <2>5, <2>6 DEF QueuesOK, HopOK
  <2> QED
    BY <1>8, <2>1, <2>3, <2>7 DEF Accepted
<1> QED
  BY <1>1, <1>6, <1>7, <1>8 DEF ControlSend, Posted

-----------------------------------------------------------------------------
\* When the control message is read behind its hop-th fibre, if it never waits.
CtrlDue(m, hop) == plan[m] - PacketDelay + Tx + Stops(hop - 1) + Reach[m][hop]

\* When the burst is at its hop-th stop: its head at a switch, its tail at the end.
HeadDue(m, hop) ==
  IF hop = 0 THEN plan[m]
  ELSE plan[m] + Reach[m][hop] + Passed(hop - 1) + IF hop = Len(Path[m]) THEN Length ELSE 0

\* When the answer is read behind the hop-th fibre of the way back.
AnswerDue(m, hop) ==
  plan[m] + Flight(m) + Length + OpticalProcessing + Stops(hop) + Return[m][hop]

HeraldEvents(m) ==
  {e \in Of(m) : e.fn = "UpdateReceived" \/ (e.fn = "Receive" /\ e.type = "CTRL")}
HeraldEntries(m) == {c \in Waiting(m) : c.type = "CTRL"}
Bursts(m) == {e \in Of(m) : e.fn = "Burst"}

\* Nothing is known of a message that was not sent.
Fresh(m) ==
  /\ Of(m) = {} /\ Waiting(m) = {} /\ booked[m] = 0
  /\ m \notin expected \cup acked \cup nacked \cup retried \cup late
  /\ \A type \in Type : wait[m, type] = 0

\* The control message is in one place, one hop behind the last booking, and
\* late by no more than it has waited.
HeraldOK(m) ==
  /\ \A e \in HeraldEvents(m) :
       /\ e.fn = "Receive" =>
            e.hop = booked[m] + 1 /\ e.at <= CtrlDue(m, e.hop) + wait[m, "CTRL"]
       /\ e.fn = "UpdateReceived" =>
            /\ booked[m] = Len(Path[m]) - 1
            /\ e.at <= CtrlDue(m, Len(Path[m])) + Processing + wait[m, "CTRL"]
  /\ \A e, f \in HeraldEvents(m) : e = f
  /\ \A c \in HeraldEntries(m) :
       /\ HeraldEvents(m) = {} /\ c.hop = booked[m] + 1
       /\ Counts(c) => c.since <= CtrlDue(m, c.hop - 1) + wait[m, "CTRL"]
  /\ m \in expected => booked[m] = Len(Path[m]) - 1

BurstOK(m) ==
  /\ \A e \in Bursts(m) : e.at = HeadDue(m, e.hop)
  /\ \A e, f \in Bursts(m) : e = f

CheckOK(m) == \A e \in Of(m) : e.fn = "CheckSent" => e.at = CheckTime(plan[m])

BaseOK(m) == HeraldOK(m) /\ BurstOK(m) /\ CheckOK(m)

Spared(m) ==
  /\ \A e \in Of(m) : e.type # "NACK"
  /\ \A c \in Waiting(m) : c.type # "NACK"
  /\ m \notin nacked

\* The burst is announced, or its control message is still on its way.
Heralded(m) ==
  Bursts(m) # {} => HeraldEvents(m) # {} \/ HeraldEntries(m) # {} \/ m \in expected

\* The burst is still to come, or its answer is late by no more than it has waited.
Answered(m) ==
  \/ Bursts(m) # {}
  \/ \E e \in Of(m) : e.fn = "SendCTRL" /\ e.at <= AnswerDue(m, 0)
  \/ \E e \in Of(m) : /\ e.fn = "Receive" /\ e.type = "AWK"
                      /\ e.at <= AnswerDue(m, e.hop) + wait[m, "AWK"]
  \/ \E c \in Waiting(m) : /\ c.type = "AWK"
                           /\ c.since <= AnswerDue(m, c.hop - 1) + wait[m, "AWK"]
  \/ m \in acked

LiveOK(m) == Spared(m) /\ Heralded(m) /\ (m \notin retried => Answered(m))

MsgOK(m) ==
  IF plan[m] = Unsent THEN Fresh(m)
  ELSE BaseOK(m) /\ (m \notin late \cup refused => LiveOK(m))

Inv ==
  /\ TypeInv /\ TimeInv /\ LaneInv /\ PlaceInv
  /\ \A m \in Message : MsgOK(m)
  /\ LateOnlyIfWaited /\ RetryOnlyIfWaited

-----------------------------------------------------------------------------
LEMMA OnFields ==
  ASSUME NEW fn, NEW m, NEW type, NEW hop, NEW at
  PROVE  LET e == On(fn, m, type, hop, at)
         IN e.fn = fn /\ e.msg = m /\ e.type = type /\ e.hop = hop /\ e.at = at
BY DEF On

\* Fields of the events and of the entries.
LEMMA EventFields ==
  ASSUME TypeInv, NEW e \in events
  PROVE  /\ e.fn \in {"Receive", "UpdateReceived", "Burst", "SendCTRL", "CheckSent"}
         /\ e.msg \in Message /\ e.type \in Type /\ e.hop \in Nat /\ e.at \in Nat
         /\ EventOK(e)
BY DEF TypeInv, Event

LEMMA EntryFields ==
  ASSUME TypeInv, NEW c \in Queued
  PROVE  /\ c \in Entry /\ c.msg \in Message /\ c.type \in Type /\ c.hop \in Nat /\ c.since \in Nat
         /\ HopOK(c.msg, c.hop)
<1>1. PICK d \in Device : \E i \in DOMAIN queue[d] : queue[d][i] = c
  BY InQueue
<1>2. PICK q \in Seq(Entry) : q = queue[d]
  BY DEF TypeInv
<1>3. PICK i \in DOMAIN q : q[i] = c
  BY <1>1, <1>2
<1>4. c \in Entry
  BY <1>2, <1>3
<1> QED
  BY <1>4 DEF Entry, TypeInv

\* What the instants are made of.
LEMMA TimesAreInt ==
  /\ PacketDelay \in Nat /\ Tx \in Nat /\ Tx > 0 /\ Length \in Nat /\ Length > 0
  /\ Processing \in Nat /\ OpticalProcessing \in Nat /\ Propagation \in Nat
  /\ TotalPropagation \in Nat /\ Gap \in Nat /\ DataGap \in Nat
BY PathAssumption

\* The way of a burst, and the room its control message has.
LEMMA FlightIs ==
  ASSUME NEW m \in Message
  PROVE  /\ Flight(m) = Reach[m][Len(Path[m])] + Passed(Len(Path[m]) - 1)
         /\ Flight(m) \in Nat
         /\ Margin(m) = PacketDelay - Stops(Len(Path[m])) /\ Margin(m) \in Int
<1>1. PICK n \in Nat : n = Len(Path[m]) /\ n >= 2
  BY Ways
<1>2. n - 1 \in Nat /\ n \in 0..n
  BY <1>1
<1>4. Passed(n - 1) \in Nat /\ Stops(n) \in Nat
  BY <1>1, <1>2, PassedLemma, StopsLemma
<1>5. Reach[m][n] \in Nat
  BY <1>1, <1>2, Ways
<1>3. Flight(m) = Reach[m][n] + Passed(n - 1) /\ Margin(m) = PacketDelay - Stops(n)
  BY <1>1 DEF Flight, Margin, Passed, Stops
<1> QED
  BY SMTT(20), <1>1, <1>3, <1>4, <1>5, TimesAreInt

\* The clocks are numbers, and move with the plan only.
LEMMA DuesAreInt ==
  ASSUME TypeInv, NEW m \in Message
  PROVE  /\ plan[m] \in Int
         /\ \A h \in 1..Len(Path[m]) : CtrlDue(m, h) \in Int
         /\ \A h \in 0..Len(Path[m]) : HeadDue(m, h) \in Int /\ AnswerDue(m, h) \in Int
         /\ \A type \in Type : wait[m, type] \in Nat
<1>1. plan[m] \in Int
  BY DEF TypeInv, Unsent
<1>0. Len(Path[m]) \in Nat
  BY Ways
<1>2. ASSUME NEW h \in 1..Len(Path[m])
      PROVE  CtrlDue(m, h) \in Int
  <2>1. h - 1 \in Nat /\ h \in 0..Len(Path[m])
    BY <1>0
  <2>2. Stops(h - 1) \in Nat
    BY <2>1, StopsLemma
  <2>3. Reach[m][h] \in Nat
    BY <2>1, Ways
  <2> QED
    BY SMTT(20), <1>1, <2>2, <2>3, TimesAreInt DEF CtrlDue
<1>3. ASSUME NEW h \in 0..Len(Path[m])
      PROVE  HeadDue(m, h) \in Int /\ AnswerDue(m, h) \in Int
  <2>1. h \in Nat /\ (h # 0 => h - 1 \in Nat)
    BY <1>0
  <2>2. Stops(h) \in Nat /\ (h # 0 => Passed(h - 1) \in Nat)
    BY <2>1, StopsLemma, PassedLemma
  <2>3. Reach[m][h] \in Nat /\ Return[m][h] \in Nat
    BY Ways
  <2>4. Flight(m) \in Nat
    BY FlightIs
  <2>5. HeadDue(m, h) \in Int
    BY <1>1, <2>2, <2>3, TimesAreInt DEF HeadDue
  <2>6. AnswerDue(m, h) \in Int
    BY SMTT(20), <1>1, <2>2, <2>3, <2>4, TimesAreInt DEF AnswerDue
  <2> QED
    BY <2>5, <2>6
<1>4. \A type \in Type : wait[m, type] \in Nat
  BY DEF TypeInv
<1> QED
  BY <1>1, <1>2, <1>3, <1>4

LEMMA DuesSame ==
  ASSUME NEW m, plan'[m] = plan[m]
  PROVE  \A h : /\ CtrlDue(m, h)' = CtrlDue(m, h) /\ HeadDue(m, h)' = HeadDue(m, h)
                /\ AnswerDue(m, h)' = AnswerDue(m, h)
BY DEF CtrlDue, HeadDue, AnswerDue, Flight

\* A wait is not forgotten.
LEMMA WaitKept ==
  ASSUME TypeInv, Queued \subseteq Queued', UNCHANGED wait, now' \in Nat, now <= now',
         NEW m \in Message, NEW type \in Type, NEW span \in Int, WaitedMoreThan(m, type, span)
  PROVE  WaitedMoreThan(m, type, span)'
<1>1. CASE wait[m, type] > span
  BY <1>1 DEF WaitedMoreThan
<1>2. CASE ~(wait[m, type] > span)
  <2>1. PICK c \in Queued : /\ c.msg = m /\ c.type = type /\ Counts(c)
                            /\ wait[m, type] + (now - c.since) > span
    BY <1>2, WaitIs
  <2>2. c.since \in Nat /\ now \in Nat
    BY EntryFields DEF TypeInv
  <2>3. PICK w \in Nat : w = wait[m, type]
    BY DEF TypeInv
  <2>4. w + (now' - c.since) > span
    <3>1. PICK since \in Nat : since = c.since
      BY <2>2
    <3>2. w + (now - since) > span
      BY <2>1, <2>3, <3>1
    <3>3. \A a, b, x, t \in Int : a <= b /\ x + (a - t) > span => x + (b - t) > span
      OBVIOUS
    <3>4. PICK a \in Int : a = now
      BY <2>2
    <3>5. PICK b \in Int : b = now' /\ a <= b
      BY <3>4
    <3>6. w + (b - since) > span
      BY <3>1, <3>2, <3>3, <3>4, <3>5
    <3> QED
      BY <3>1, <3>5, <3>6
  <2>5. PICK d \in Device : \E i \in DOMAIN queue'[d] : queue'[d][i] = c
    <3>1. c \in Queued'
      OBVIOUS
    <3> QED
      BY <3>1 DEF Queued
  <2> QED
    BY ZenonT(20), <2>1, <2>3, <2>4, <2>5 DEF WaitedMoreThan, Counts
<1> QED
  BY <1>1, <1>2

-----------------------------------------------------------------------------
\* A step that does not concern message m.
Untouched(m) ==
  /\ Of(m)' = Of(m) /\ Waiting(m)' = Waiting(m)
  /\ plan'[m] = plan[m] /\ booked'[m] = booked[m]
  /\ \A type \in Type : wait'[m, type] = wait[m, type]
  /\ m \in expected' <=> m \in expected
  /\ m \in acked' <=> m \in acked
  /\ m \in nacked' <=> m \in nacked
  /\ m \in retried' <=> m \in retried
  /\ m \in refused' <=> m \in refused
  /\ m \in late' <=> m \in late

\* Such a step leaves the invariant of the message true.
LEMMA UntouchedOK ==
  ASSUME NEW m, MsgOK(m), Untouched(m)
  PROVE  MsgOK(m)'
<1>1. /\ HeraldEvents(m)' = HeraldEvents(m) /\ HeraldEntries(m)' = HeraldEntries(m)
      /\ Bursts(m)' = Bursts(m)
  BY DEF Untouched, HeraldEvents, HeraldEntries, Bursts
<1>2. \A h : /\ CtrlDue(m, h)' = CtrlDue(m, h) /\ HeadDue(m, h)' = HeadDue(m, h)
             /\ AnswerDue(m, h)' = AnswerDue(m, h)
  BY DuesSame DEF Untouched
<1>3. wait'[m, "CTRL"] = wait[m, "CTRL"] /\ wait'[m, "AWK"] = wait[m, "AWK"]
  BY DEF Untouched, Type
<1>4. CASE plan[m] = Unsent
  <2>1. Fresh(m)
    BY <1>4 DEF MsgOK
  <2>2. Fresh(m)'
    BY <2>1 DEF Untouched, Fresh
  <2> QED
    BY <1>4, <2>2 DEF MsgOK, Untouched
<1>5. CASE plan[m] # Unsent
  <2>1. HeraldOK(m)'
    BY <1>1, <1>2, <1>3, <1>5 DEF MsgOK, BaseOK, HeraldOK, Untouched, Counts
  <2>2. BurstOK(m)' /\ CheckOK(m)'
    BY <1>1, <1>2, <1>5 DEF MsgOK, BaseOK, BurstOK, CheckOK, Untouched, CheckTime
  <2>3. ASSUME m \notin late \cup refused
        PROVE  LiveOK(m)'
    <3>1. Spared(m) /\ Heralded(m) /\ (m \notin retried => Answered(m))
      BY <1>5, <2>3 DEF MsgOK, LiveOK
    <3>2. Spared(m)' /\ Heralded(m)'
      BY <1>1, <3>1 DEF Spared, Heralded, Untouched
    <3>3. Answered(m) => Answered(m)'
      BY <1>1, <1>2, <1>3 DEF Answered, Untouched
    <3> QED
      BY <3>1, <3>2, <3>3 DEF LiveOK, Untouched
  <2> QED
    BY <1>5, <2>1, <2>2, <2>3 DEF MsgOK, BaseOK, Untouched
<1> QED
  BY <1>4, <1>5

\* A step that adds no herald and no burst keeps the clocks.
LEMMA BaseKept ==
  ASSUME NEW m, BaseOK(m), plan'[m] = plan[m], wait'[m, "CTRL"] = wait[m, "CTRL"],
         \A e \in Of(m)' : \/ e \in Of(m) \/ e.fn = "SendCTRL"
                           \/ e.fn = "Receive" /\ e.type # "CTRL",
         \A c \in Waiting(m)' : c \in Waiting(m) \/ c.type # "CTRL",
         \/ booked'[m] = booked[m]
         \/ HeraldEvents(m)' = {} /\ HeraldEntries(m)' = {} /\ m \notin expected',
         m \in expected' => m \in expected
  PROVE  BaseOK(m)'
<1>1. /\ HeraldEvents(m)' \subseteq HeraldEvents(m) /\ HeraldEntries(m)' \subseteq HeraldEntries(m)
      /\ Bursts(m)' \subseteq Bursts(m)
  BY DEF HeraldEvents, HeraldEntries, Bursts
<1>2. \A h : CtrlDue(m, h)' = CtrlDue(m, h) /\ HeadDue(m, h)' = HeadDue(m, h)
  BY DuesSame
<1>3. HeraldOK(m)'
  <2>1. HeraldOK(m)
    BY DEF BaseOK
  <2>2. CASE HeraldEvents(m)' = {} /\ HeraldEntries(m)' = {} /\ m \notin expected'
    BY <2>2 DEF HeraldOK
  <2>3. CASE booked'[m] = booked[m]
    BY <1>1, <1>2, <2>1, <2>3 DEF HeraldOK, Counts
  <2> QED
    BY <2>2, <2>3
<1>4. BurstOK(m)'
  BY <1>1, <1>2 DEF BaseOK, BurstOK
<1>5. CheckOK(m)'
  <2>1. \A e \in Of(m)' : e.fn = "CheckSent" => e \in Of(m)
    OBVIOUS
  <2> QED
    BY <2>1 DEF BaseOK, CheckOK, CheckTime
<1> QED
  BY <1>3, <1>4, <1>5 DEF BaseOK

\* What an event of the message says of it.
LEMMA SentHasEvents ==
  ASSUME NEW m, MsgOK(m), Of(m) # {} \/ Waiting(m) # {}
  PROVE  plan[m] # Unsent /\ BaseOK(m) /\ (m \notin late \cup refused => LiveOK(m))
BY DEF MsgOK, Fresh

\* A step that concerns message x only.
LEMMA OthersOK ==
  ASSUME Inv, NEW x \in Message, UNCHANGED <<plan, wait>>,
         \A e : e.msg # x => (e \in events' <=> e \in events),
         \A c : c.msg # x => (c \in Queued' <=> c \in Queued),
         \A m \in Message : m # x => /\ booked'[m] = booked[m]
                                     /\ m \in expected' <=> m \in expected
                                     /\ m \in acked' <=> m \in acked
                                     /\ m \in nacked' <=> m \in nacked
                                     /\ m \in retried' <=> m \in retried
                                     /\ m \in refused' <=> m \in refused
                                     /\ m \in late' <=> m \in late
  PROVE  \A m \in Message : m # x => MsgOK(m)'
<1> SUFFICES ASSUME NEW m \in Message, m # x PROVE MsgOK(m)'
  OBVIOUS
<1>1. Of(m)' = Of(m) /\ Waiting(m)' = Waiting(m)
  BY DEF Of, Waiting
<1>2. Untouched(m)
  BY <1>1 DEF Untouched
<1> QED
  BY <1>2, UntouchedOK DEF Inv

-----------------------------------------------------------------------------
EventsOK == events \subseteq Event /\ \A e \in events : EventOK(e) /\ now <= e.at

\* The part of the invariant that does not look back.
StateOK ==
  /\ QueuesOK /\ EventsOK
  /\ now \in Nat /\ next_transmit \in [Device -> Nat]
  /\ plan \in [Message -> Nat \cup {Unsent}] /\ booked \in [Message -> Nat]
  /\ wait \in [Message \X Type -> Nat]
  /\ expected \cup acked \cup nacked \cup retried \cup refused \cup late \subseteq Message
  /\ \A m \in Message : MsgOK(m)

\* The invariant without its two properties.
LEMMA StateOfInv ==
  Inv <=> StateOK /\ LateOnlyIfWaited /\ RetryOnlyIfWaited
BY DEF Inv, StateOK, QueuesOK, EventsOK, TypeInv, TimeInv

\* Steps that leave the queues alone.
LEMMA StillQueues ==
  ASSUME StateOK, UNCHANGED <<now, queue, done, plan>>
  PROVE  QueuesOK' /\ Queued' = Queued
<1>1. Queued' = Queued
  BY DEF Queued
<1>2. LaneInv' /\ PlaceInv'
  BY DEF StateOK, QueuesOK, LaneInv, PlaceInv, Counts
<1> QED
  BY <1>1, <1>2 DEF StateOK, QueuesOK

\* What is scheduled, and what is queued.
LEMMA NewEvent ==
  ASSUME NEW fn \in {"Receive", "UpdateReceived", "Burst", "SendCTRL", "CheckSent"},
         NEW m \in Message, NEW type \in Type, NEW hop \in Nat, NEW at \in Nat,
         NEW e, e = On(fn, m, type, hop, at)
  PROVE  e \in Event /\ e.fn = fn /\ e.msg = m /\ e.type = type /\ e.hop = hop /\ e.at = at
BY DEF On, Event

LEMMA ReceivedIs ==
  ASSUME now \in Nat, NEW m \in Message, NEW type \in Type, NEW hop, HopOK(m, hop),
         NEW e, e = Received(m, type, hop)
  PROVE  /\ e \in Event /\ EventOK(e) /\ e.fn = "Receive" /\ e.msg = m /\ e.type = type
         /\ e.hop = hop /\ e.at = now + Processing + Tx + Delay[Route(type, m)[hop]]
         /\ now <= e.at
<1>1. PICK delay \in Nat : delay = Delay[Route(type, m)[hop]]
  BY RouteDevice
<1>2. hop \in Nat
  BY Ways DEF HopOK
<1>3. PICK at \in Nat : at = now + Processing + Tx + delay /\ now <= at
  BY <1>1, TimesAreInt
<1>4. e = On("Receive", m, type, hop, at)
  BY <1>1, <1>3 DEF Received
<1>5. e \in Event /\ e.fn = "Receive" /\ e.msg = m /\ e.type = type /\ e.hop = hop /\ e.at = at
  BY <1>2, <1>3, <1>4, NewEvent
<1> QED
  BY <1>1, <1>3, <1>5 DEF EventOK

LEMMA PostedIs ==
  ASSUME NEW m, NEW type, NEW hop, NEW c, c = Posted(m, type, hop)
  PROVE  c.msg = m /\ c.type = type /\ c.hop = hop /\ c.since = now
BY DEF Posted

\* UpdateReceived: the message is expected.
LEMMA UpdateReceivedOK ==
  ASSUME Inv, NEW e \in events, e.at = now, UpdateReceived(e),
         UNCHANGED <<now, next_transmit, plan, wait>>
  PROVE  StateOK' /\ Queued' = Queued
<1>1. StateOK
  BY StateOfInv
<1>2. QueuesOK' /\ Queued' = Queued
  BY <1>1, StillQueues DEF UpdateReceived
<1>3. PICK x \in Message : x = e.msg
  BY EventFields DEF Inv
<1>4. /\ events' = events \ {e} /\ e.fn = "UpdateReceived" /\ expected' = expected \cup {x}
      /\ UNCHANGED <<booked, acked, nacked, retried, refused, late>>
  BY <1>3 DEF UpdateReceived
<1>5. EventsOK'
  BY <1>1, <1>4 DEF StateOK, EventsOK, EventOK, HopOK
<1>6. \A m \in Message : m # x => MsgOK(m)'
  BY <1>2, <1>3, <1>4, OthersOK
<1>7. MsgOK(x)'
  <2>1. e \in Of(x) /\ e \in HeraldEvents(x)
    BY <1>3, <1>4 DEF Of, HeraldEvents
  <2>2. plan[x] # Unsent /\ BaseOK(x) /\ (x \notin late \cup refused => LiveOK(x))
    BY <1>1, <2>1, SentHasEvents DEF StateOK
  <2>3. /\ HeraldEvents(x)' = {} /\ HeraldEntries(x)' = {} /\ Bursts(x)' = Bursts(x)
        /\ Of(x)' = Of(x) \ {e} /\ Waiting(x)' = Waiting(x)
    <3>1. Of(x)' = Of(x) \ {e} /\ Waiting(x)' = Waiting(x)
      BY <1>2, <1>4 DEF Of, Waiting
    <3>2. \A f \in HeraldEvents(x) : f = e
      BY <2>1, <2>2 DEF BaseOK, HeraldOK
    <3>3. HeraldEntries(x) = {}
      BY <2>1, <2>2 DEF BaseOK, HeraldOK
    <3> QED
      BY <1>4, <3>1, <3>2, <3>3 DEF HeraldEvents, HeraldEntries, Bursts
  <2>4. booked[x] = Len(Path[x]) - 1
    BY <1>4, <2>1, <2>2 DEF BaseOK, HeraldOK
  <2>5. HeraldOK(x)'
    BY <1>4, <2>3, <2>4 DEF HeraldOK
  <2>6. BurstOK(x)' /\ CheckOK(x)'
    <3>1. \A h : HeadDue(x, h)' = HeadDue(x, h)
      BY DuesSame
    <3> QED
      BY <2>2, <2>3, <3>1 DEF BaseOK, BurstOK, CheckOK, CheckTime
  <2>7. ASSUME x \notin late \cup refused
        PROVE  LiveOK(x)'
    <3>1. LiveOK(x)
      BY <2>2, <2>7
    <3>2. Spared(x)' /\ Heralded(x)'
      BY <1>4, <2>3, <3>1 DEF LiveOK, Spared, Heralded
    <3>3. Answered(x) => Answered(x)'
      <4>1. \A h : AnswerDue(x, h)' = AnswerDue(x, h)
        BY DuesSame
      <4> QED
        BY <1>4, <2>3, <4>1 DEF Answered
    <3> QED
      BY <1>4, <3>1, <3>2, <3>3 DEF LiveOK
  <2> QED
    BY <1>4, <2>2, <2>5, <2>6, <2>7 DEF MsgOK, BaseOK
<1> QED
  BY <1>1, <1>2, <1>4, <1>5, <1>6, <1>7 DEF StateOK

\* CheckSent: the entry of a message that was acknowledged is gone.
LEMMA CheckSentOK ==
  ASSUME Inv, NEW e \in events, e.at = now, CheckSent(e),
         UNCHANGED <<now, next_transmit, plan, wait>>
  PROVE  StateOK' /\ Queued' = Queued
<1>1. StateOK
  BY StateOfInv
<1>2. QueuesOK' /\ Queued' = Queued
  BY <1>1, StillQueues DEF CheckSent
<1>3. PICK x \in Message : x = e.msg
  BY EventFields DEF Inv
<1>4. /\ events' = events \ {e} /\ e.fn = "CheckSent"
      /\ retried' = IF x \in acked THEN retried ELSE retried \cup {x}
      /\ UNCHANGED <<booked, expected, acked, nacked, refused, late>>
  BY <1>3 DEF CheckSent
<1>5. EventsOK'
  BY <1>1, <1>4 DEF StateOK, EventsOK, EventOK, HopOK
<1>6. \A m \in Message : m # x => MsgOK(m)'
  BY <1>2, <1>3, <1>4, OthersOK
<1>7. MsgOK(x)'
  <2>1. e \in Of(x)
    BY <1>3 DEF Of
  <2>2. plan[x] # Unsent /\ BaseOK(x) /\ (x \notin late \cup refused => LiveOK(x))
    BY <1>1, <2>1, SentHasEvents DEF StateOK
  <2>3. /\ HeraldEvents(x)' = HeraldEvents(x) /\ HeraldEntries(x)' = HeraldEntries(x)
        /\ Bursts(x)' = Bursts(x) /\ Of(x)' = Of(x) \ {e} /\ Waiting(x)' = Waiting(x)
    <3>1. Of(x)' = Of(x) \ {e} /\ Waiting(x)' = Waiting(x)
      BY <1>2, <1>4 DEF Of, Waiting
    <3> QED
      BY <1>4, <3>1 DEF HeraldEvents, HeraldEntries, Bursts
  <2>4. BaseOK(x)'
    BY <1>4, <2>2, <2>3, BaseKept
  <2>5. ASSUME x \notin late \cup refused
        PROVE  LiveOK(x)'
    <3>1. LiveOK(x)
      BY <2>2, <2>5
    <3>2. Spared(x)' /\ Heralded(x)'
      BY <1>4, <2>3, <3>1 DEF LiveOK, Spared, Heralded
    <3>3. Answered(x) => Answered(x)'
      <4>1. \A h : AnswerDue(x, h)' = AnswerDue(x, h)
        BY DuesSame
      <4> QED
        BY <1>4, <2>3, <4>1 DEF Answered
    <3> QED
      BY <1>4, <3>1, <3>2, <3>3 DEF LiveOK
  <2> QED
    BY <1>4, <2>2, <2>4, <2>5 DEF MsgOK
<1> QED
  BY <1>1, <1>2, <1>4, <1>5, <1>6, <1>7 DEF StateOK

-----------------------------------------------------------------------------
\* A way has two devices or more.
LEMMA WayLen ==
  ASSUME NEW m \in Message
  PROVE  \E n \in Nat : n = Len(Path[m]) /\ n >= 2
BY Ways

\* From one stop to the next.
LEMMA NextStop ==
  ASSUME StateOK, NEW m \in Message, NEW h \in 0..(Len(Path[m]) - 1)
  PROVE  /\ h > 0 => CtrlDue(m, h + 1) = CtrlDue(m, h) + Processing + Tx + Delay[Path[m][h + 1]]
         /\ AnswerDue(m, h + 1) = AnswerDue(m, h) + Processing + Tx + Delay[Back[m][h + 1]]
         /\ HeadDue(m, h + 1) =
              HeadDue(m, h) + Delay[Path[m][h + 1]] + (IF h = 0 THEN 0 ELSE Propagation)
                + (IF h + 1 = Len(Path[m]) THEN Length ELSE 0)
<1>1. PICK n \in Nat : n = Len(Path[m]) /\ n >= 2
  BY WayLen
<1>2. h \in Nat /\ h + 1 \in 1..n /\ h \in 0..n /\ h # n /\ (h + 1) - 1 = h
  BY <1>1
<1>3. PICK p \in Int : p = plan[m]
  BY DEF StateOK, Unsent
<1>4. PICK r \in Nat, b \in Nat, d \in Nat, e \in Nat :
        /\ r = Reach[m][h] /\ b = Return[m][h]
        /\ d = Delay[Path[m][h + 1]] /\ e = Delay[Back[m][h + 1]]
        /\ Reach[m][h + 1] = r + d /\ Return[m][h + 1] = b + e
  <2>1. Reach[m][h] \in Nat /\ Return[m][h] \in Nat
    BY <1>1, <1>2, Ways
  <2>2. /\ Reach[m][h + 1] = Reach[m][h] + Delay[Path[m][h + 1]]
        /\ Return[m][h + 1] = Return[m][h] + Delay[Back[m][h + 1]]
        /\ Delay[Path[m][h + 1]] \in Nat /\ Delay[Back[m][h + 1]] \in Nat
    BY <1>1, <1>2, Ways
  <2> QED
    BY <2>1, <2>2
<1>5. PICK s \in Nat : s = Stops(h) /\ Stops(h + 1) = s + Processing + Tx
  BY <1>2, StopsLemma
<1>6. Reach[m][0] = 0
  BY Ways
<1>7. ASSUME h > 0
      PROVE  CtrlDue(m, h + 1) = CtrlDue(m, h) + Processing + Tx + d
  <2>1. h - 1 \in Nat /\ (h - 1) + 1 = h
    BY <1>2, <1>7
  <2>2. Stops(h - 1) \in Nat /\ s = Stops(h - 1) + Processing + Tx
    BY <1>5, <2>1, StopsLemma
  <2>3. PICK t \in Nat : t = Stops(h - 1) /\ s = t + Processing + Tx
    BY <2>2
  <2>4. CtrlDue(m, h) = p - PacketDelay + Tx + t + r
    BY <1>3, <1>4, <2>3 DEF CtrlDue
  <2>5. CtrlDue(m, h + 1) = p - PacketDelay + Tx + s + (r + d)
    BY <1>2, <1>3, <1>4, <1>5 DEF CtrlDue
  <2>6. PICK o \in Int : o = p - PacketDelay + Tx
    BY TimesAreInt
  <2>7. o + (t + Processing + Tx) + (r + d) = (o + t + r) + Processing + Tx + d
    BY TimesAreInt
  <2> QED
    BY <2>3, <2>4, <2>5, <2>6, <2>7
<1>8. AnswerDue(m, h + 1) = AnswerDue(m, h) + Processing + Tx + e
  <2>1. Flight(m) \in Nat
    BY FlightIs
  <2>2. PICK o \in Int : o = p + Flight(m) + Length + OpticalProcessing
    BY <2>1, TimesAreInt
  <2>3. AnswerDue(m, h) = o + s + b /\ AnswerDue(m, h + 1) = o + (s + Processing + Tx) + (b + e)
    BY <1>3, <1>4, <1>5, <2>2 DEF AnswerDue
  <2> QED
    BY <2>3, TimesAreInt
<1>9. HeadDue(m, h + 1) = HeadDue(m, h) + d + (IF h = 0 THEN 0 ELSE Propagation)
                            + (IF h + 1 = n THEN Length ELSE 0)
  <2>1. CASE h = 0
    <3>1. Passed(0) = 0
      BY PassedLemma
    <3>2. r = 0 /\ HeadDue(m, h) = p
      BY <1>3, <1>4, <1>6, <2>1 DEF HeadDue
    <3>3. HeadDue(m, h + 1) = p + (r + d) + Passed(0) + (IF h + 1 = n THEN Length ELSE 0)
      BY <1>1, <1>2, <1>3, <1>4, <2>1 DEF HeadDue
    <3> QED
      BY <1>3, <1>4, <2>1, <3>1, <3>2, <3>3, TimesAreInt
  <2>2. CASE h > 0
    <3>1. h - 1 \in Nat /\ (h - 1) + 1 = h
      BY <1>2, <2>2
    <3>2. PICK q \in Nat : q = Passed(h - 1) /\ Passed(h) = q + Propagation
      BY <3>1, PassedLemma
    <3>3. HeadDue(m, h) = p + r + q + 0
      BY <1>1, <1>2, <1>3, <1>4, <2>2, <3>2 DEF HeadDue
    <3>4. HeadDue(m, h + 1) = p + (r + d) + (q + Propagation) + (IF h + 1 = n THEN Length ELSE 0)
      BY <1>1, <1>2, <1>3, <1>4, <2>2, <3>2 DEF HeadDue
    <3>5. PICK l \in Nat : l = IF h + 1 = n THEN Length ELSE 0
      BY TimesAreInt
    <3>6. p + (r + d) + (q + Propagation) + l = (p + r + q + 0) + d + Propagation + l
      BY TimesAreInt
    <3> QED
      BY <2>2, <3>3, <3>4, <3>5, <3>6
  <2> QED
    BY <1>2, <2>1, <2>2
<1> QED
  BY <1>1, <1>4, <1>7, <1>8, <1>9

\* Later stops are due later.
LEMMA DuesGrow ==
  ASSUME StateOK, NEW m \in Message
  PROVE  /\ \A g, h \in 1..Len(Path[m]) : g <= h => CtrlDue(m, g) <= CtrlDue(m, h)
         /\ \A h \in 0..Len(Path[m]) :
              /\ AnswerDue(m, h) <= AnswerDue(m, Len(Path[m]))
              /\ plan[m] <= HeadDue(m, h) /\ HeadDue(m, h) <= plan[m] + Flight(m) + Length
         /\ HeadDue(m, Len(Path[m])) = plan[m] + Flight(m) + Length
         /\ AnswerDue(m, 0) = plan[m] + Flight(m) + Length + OpticalProcessing
<1>1. PICK n \in Nat : n = Len(Path[m]) /\ n >= 2
  BY WayLen
<1>2. PICK p \in Int : p = plan[m]
  BY DEF StateOK, Unsent
<1>3. /\ \A h \in 0..n : Reach[m][h] \in Nat /\ Return[m][h] \in Nat
      /\ \A a, b \in 0..n : a <= b => /\ Reach[m][a] <= Reach[m][b]
                                      /\ Return[m][a] <= Return[m][b]
  BY <1>1, Ways
<1>4. PICK f \in Nat : f = Flight(m) /\ f = Reach[m][n] + Passed(n - 1)
  BY <1>1, FlightIs
<1>5. ASSUME NEW g \in 1..n, NEW h \in 1..n, g <= h
      PROVE  CtrlDue(m, g) <= CtrlDue(m, h)
  <2>1. g - 1 \in Nat /\ h - 1 \in Nat /\ g - 1 <= h - 1 /\ g \in 0..n /\ h \in 0..n
    BY <1>5
  <2>2. Stops(g - 1) \in Nat /\ Stops(h - 1) \in Nat /\ Stops(g - 1) <= Stops(h - 1)
    BY <2>1, StopsLemma
  <2>3. Reach[m][g] \in Nat /\ Reach[m][h] \in Nat /\ Reach[m][g] <= Reach[m][h]
    BY <1>3, <1>5, <2>1
  <2> QED
    BY <1>2, <2>2, <2>3, TimesAreInt DEF CtrlDue
<1>6. ASSUME NEW h \in 0..n
      PROVE  AnswerDue(m, h) <= AnswerDue(m, n)
  <2>1. h \in Nat /\ h <= n /\ n \in 0..n
    BY <1>6
  <2>2. Stops(h) \in Nat /\ Stops(n) \in Nat /\ Stops(h) <= Stops(n)
    BY <2>1, StopsLemma
  <2>3. Return[m][h] \in Nat /\ Return[m][n] \in Nat /\ Return[m][h] <= Return[m][n]
    BY <1>3, <1>6, <2>1
  <2> QED
    BY <1>2, <1>4, <2>2, <2>3, TimesAreInt DEF AnswerDue
<1>7. HeadDue(m, n) = p + f + Length
  <2>1. n # 0 /\ n - 1 \in Nat /\ n \in 0..n
    BY <1>1
  <2>2. Passed(n - 1) \in Nat /\ Reach[m][n] \in Nat
    BY <1>3, <2>1, PassedLemma
  <2>3. HeadDue(m, n) = p + Reach[m][n] + Passed(n - 1) + Length
    BY <1>1, <1>2, <2>1 DEF HeadDue
  <2> QED
    BY <1>2, <1>4, <2>2, <2>3, TimesAreInt
<1>8. ASSUME NEW h \in 0..n
      PROVE  p <= HeadDue(m, h) /\ HeadDue(m, h) <= p + f + Length
  <2>1. CASE h = 0
    BY <1>2, <1>4, <2>1, TimesAreInt DEF HeadDue
  <2>2. CASE h = n
    BY <1>2, <1>4, <1>7, <2>2, TimesAreInt
  <2>3. CASE h # 0 /\ h # n
    <3>1. h - 1 \in Nat /\ n - 1 \in Nat /\ h - 1 <= n - 1 /\ h <= n /\ n \in 0..n
      BY <1>1, <1>8, <2>3
    <3>2. Passed(h - 1) \in Nat /\ Passed(n - 1) \in Nat /\ Passed(h - 1) <= Passed(n - 1)
      BY <3>1, PassedLemma
    <3>3. Reach[m][h] \in Nat /\ Reach[m][n] \in Nat /\ Reach[m][h] <= Reach[m][n]
      BY <1>3, <1>8, <3>1
    <3>4. HeadDue(m, h) = p + Reach[m][h] + Passed(h - 1) + 0
      BY <1>1, <1>2, <2>3 DEF HeadDue
    <3> QED
      BY <1>2, <1>4, <3>2, <3>3, <3>4, TimesAreInt
  <2> QED
    BY <2>1, <2>2, <2>3
<1>9. AnswerDue(m, 0) = p + f + Length + OpticalProcessing
  <2>1. Stops(0) = 0 /\ Return[m][0] = 0
    BY StopsLemma, Ways
  <2> QED
    BY <1>2, <1>4, <2>1, TimesAreInt DEF AnswerDue
<1> QED
  BY <1>1, <1>2, <1>4, <1>5, <1>6, <1>7, <1>8, <1>9

\* What is left of the lead at the h-th stop is more than the margin.
LEMMA LeadIsLonger ==
  ASSUME StateOK, NEW m \in Message, NEW h \in 1..Len(Path[m])
  PROVE  /\ HeadDue(m, h) > CtrlDue(m, h) + Margin(m)
         /\ h = Len(Path[m]) => HeadDue(m, h) > CtrlDue(m, h) + Processing + Margin(m)
<1>1. PICK n \in Nat : n = Len(Path[m]) /\ n >= 2
  BY WayLen
<1>2. PICK p \in Int : p = plan[m]
  BY DEF StateOK, Unsent
<1>3. h - 1 \in Nat /\ h \in Nat /\ h <= n /\ h # 0 /\ h \in 0..n /\ (h - 1) + 1 = h
  BY <1>1
<1>4. PICK r \in Nat : r = Reach[m][h]
  BY <1>1, <1>3, Ways
<1>5. PICK s \in Nat : s = Stops(h - 1) /\ Stops(h) = s + Processing + Tx /\ Stops(h) \in Nat
  BY <1>3, StopsLemma
<1>6. PICK q \in Nat : q = Passed(h - 1)
  BY <1>3, PassedLemma
<1>7. Stops(n) \in Nat /\ Margin(m) = PacketDelay - Stops(n)
  BY <1>1, FlightIs, StopsLemma
<1>8. CtrlDue(m, h) = p - PacketDelay + Tx + s + r
  BY <1>2, <1>4, <1>5 DEF CtrlDue
<1>9. HeadDue(m, h) = p + r + q + IF h = n THEN Length ELSE 0
  BY <1>1, <1>2, <1>3, <1>4, <1>6 DEF HeadDue
<1>10. CASE h = n
  <2>1. Stops(n) = s + Processing + Tx
    BY <1>5, <1>10
  <2>2. HeadDue(m, h) = p + r + q + Length
    BY <1>9, <1>10
  <2>3. /\ CtrlDue(m, h) + Margin(m)
             = (p - PacketDelay + Tx + s + r) + (PacketDelay - (s + Processing + Tx))
    BY <1>7, <1>8, <2>1
  <2>4. (p - PacketDelay + Tx + s + r) + (PacketDelay - (s + Processing + Tx)) = p + r - Processing
    BY TimesAreInt
  <2>5. CtrlDue(m, h) \in Int /\ Margin(m) \in Int
    BY <1>7, <1>8, TimesAreInt
  <2>6. CtrlDue(m, h) + Processing + Margin(m) = p + r
    BY <2>3, <2>4, <2>5, TimesAreInt
  <2> QED
    BY <2>2, <2>3, <2>4, <2>6, TimesAreInt
<1>11. CASE h # n
  <2>1. h + 1 \in Nat /\ h + 1 <= n
    BY <1>3, <1>11
  <2>2. Stops(h + 1) \in Nat /\ Stops(h + 1) = Stops(h) + Processing + Tx /\ Stops(h + 1) <= Stops(n)
    BY <1>1, <1>3, <2>1, StopsLemma
  <2>3. HeadDue(m, h) = p + r + q
    BY <1>9, <1>11
  <2>4. PICK k \in Nat : k = Stops(n) /\ (s + Processing + Tx) + Processing + Tx <= k
    BY <1>5, <1>7, <2>2
  <2>5. CtrlDue(m, h) + Margin(m) = (p - PacketDelay + Tx + s + r) + (PacketDelay - k)
    BY <1>7, <1>8, <2>4
  <2>6. (p - PacketDelay + Tx + s + r) + (PacketDelay - k) < p + r + q
    BY <2>4, TimesAreInt
  <2> QED
    BY <1>1, <1>11, <2>3, <2>5, <2>6
<1> QED
  BY <1>10, <1>11

-----------------------------------------------------------------------------
\* A burst that comes before its control message has a reason.
LEMMA LateReason ==
  ASSUME Inv, NEW m \in Message, BaseOK(m), NEW h \in 1..Len(Path[m]), now = HeadDue(m, h),
         booked[m] < h, HeraldEvents(m) # {} \/ HeraldEntries(m) # {}
  PROVE  WaitedMoreThan(m, "CTRL", Margin(m))
<1>1. PICK n \in Nat : n = Len(Path[m]) /\ n >= 2
  BY WayLen
<1>2. StateOK
  BY StateOfInv
<1>3. PICK w \in Nat : w = wait[m, "CTRL"]
  BY <1>2, TimesAreInt DEF StateOK, Type
<1>4. /\ now \in Nat /\ booked[m] \in Nat
      /\ CtrlDue(m, h) \in Int /\ Margin(m) \in Int
      /\ now > CtrlDue(m, h) + Margin(m)
      /\ h = n => now > CtrlDue(m, h) + Processing + Margin(m)
  BY <1>1, <1>2, DuesAreInt, FlightIs, LeadIsLonger DEF Inv, StateOK
<1>5. HeraldOK(m)
  BY DEF BaseOK
<1>6. ASSUME w > Margin(m)
      PROVE  WaitedMoreThan(m, "CTRL", Margin(m))
  BY <1>3, <1>6 DEF WaitedMoreThan
<1>7. ASSUME NEW e \in HeraldEvents(m)
      PROVE  w > Margin(m)
  <2>1. /\ e \in events /\ e.msg = m /\ e.fn \in {"Receive", "UpdateReceived"}
        /\ (e.fn = "Receive" => HopOK(m, e.hop))
    BY <1>2, <1>7 DEF HeraldEvents, Of, StateOK, EventsOK, EventOK
  <2>2. PICK at \in Nat : at = e.at /\ now <= at
    BY <1>2, <2>1, EventFields DEF Inv, TimeInv
  <2>3. CASE e.fn = "Receive"
    <3>1. e.hop = booked[m] + 1 /\ at <= CtrlDue(m, e.hop) + w
      BY <1>3, <1>5, <1>7, <2>2, <2>3 DEF HeraldOK
    <3>2. PICK g \in 1..n : g = e.hop /\ g <= h
      BY SMTT(20), <1>1, <1>4, <2>1, <2>3, <3>1 DEF HopOK
    <3>3. CtrlDue(m, g) \in Int /\ CtrlDue(m, g) <= CtrlDue(m, h)
      BY <1>1, <1>2, <3>2, DuesAreInt, DuesGrow DEF Inv
    <3> QED
      BY SMTT(20), <1>4, <2>2, <3>1, <3>2, <3>3
  <2>4. CASE e.fn = "UpdateReceived"
    <3>1. booked[m] = n - 1 /\ at <= CtrlDue(m, n) + Processing + w
      BY <1>1, <1>3, <1>5, <1>7, <2>2, <2>4 DEF HeraldOK
    <3>2. h = n
      BY <1>1, <1>4, <3>1
    <3> QED
      BY SMTT(20), <1>4, <2>2, <3>1, <3>2, TimesAreInt
  <2> QED
    BY <2>1, <2>3, <2>4
<1>8. ASSUME NEW c \in HeraldEntries(m)
      PROVE  WaitedMoreThan(m, "CTRL", Margin(m))
  <2>1. c \in Queued /\ c.msg = m /\ c.type = "CTRL" /\ c.hop = booked[m] + 1
    BY <1>5, <1>8 DEF HeraldEntries, Waiting, HeraldOK
  <2>2. HopOK(m, c.hop)
    BY <2>1, EntryFields DEF Inv
  <2>3. CASE Counts(c)
    <3>1. PICK since \in Nat : since = c.since
      BY <2>1, EntryFields DEF Inv
    <3>2. PICK g \in 1..n : g = c.hop - 1 /\ g <= h
      BY SMTT(20), <1>1, <1>4, <2>1, <2>2, <2>3 DEF HopOK, Counts
    <3>3. since <= CtrlDue(m, g) + w
      BY <1>3, <1>5, <1>8, <2>3, <3>1, <3>2 DEF HeraldOK
    <3>4. CtrlDue(m, g) \in Int /\ CtrlDue(m, g) <= CtrlDue(m, h)
      BY <1>1, <1>2, <3>2, DuesAreInt, DuesGrow DEF Inv
    <3>5. w + (now - since) > Margin(m)
      BY SMTT(20), <1>4, <3>1, <3>3, <3>4
    <3> QED
      BY <1>3, <2>1, <2>3, <3>1, <3>5, WaitIs
  <2>4. CASE ~Counts(c)
    <3>1. PICK d \in Device : \E i \in DOMAIN queue[d] : queue[d][i] = c
      BY <2>1, InQueue
    <3>2. PICK i \in DOMAIN queue[d] : queue[d][i] = c
      BY <3>1
    <3>3. done[d] # Idle /\ done[d] + Turns(i - 1) + Processing + PacketDelay <= plan[m]
      BY <2>1, <2>4, <3>2 DEF Inv, LaneInv
    <3>4. done[d] \in Nat /\ now <= done[d]
      BY <3>3 DEF Inv, TimeInv, TypeInv
    <3>5. i - 1 \in Nat
      <4>1. PICK q \in Seq(Entry) : q = queue[d]
        BY DEF Inv, TypeInv
      <4>2. i \in 1..Len(q) /\ Len(q) \in Nat
        BY <3>2, <4>1
      <4> QED
        BY <4>2
    <3>6. PICK t \in Nat : t = Turns(i - 1)
      BY <3>5, TurnsLemma
    <3>7. PICK p \in Int : p = plan[m] /\ p <= now
      BY SMTT(20), <1>1, <1>2, DuesGrow DEF StateOK, Unsent
    <3>8. PacketDelay = 0
      BY SMTT(20), <1>4, <3>3, <3>4, <3>6, <3>7, TimesAreInt
    <3>9. Margin(m) < 0
      <4>1. n - 1 \in Nat /\ (n - 1) + 1 = n
        BY <1>1
      <4>2. Stops(n - 1) \in Nat /\ Stops(n) = Stops(n - 1) + Processing + Tx
        BY <4>1, StopsLemma
      <4>3. Margin(m) = PacketDelay - Stops(n)
        BY <1>1, FlightIs
      <4> QED
        BY <3>8, <4>2, <4>3, TimesAreInt
    <3> QED
      BY <1>4, <1>6, <3>9
  <2> QED
    BY <2>3, <2>4
<1> QED
  BY <1>6, <1>7, <1>8

\* The answer of a message CheckSent sends again has waited.
LEMMA RetryReason ==
  ASSUME Inv, NEW m \in Message, Answered(m), BurstOK(m), m \notin acked,
         now = CheckTime(plan[m])
  PROVE  WaitedMoreThan(m, "AWK", Margin(m) + Processing + TotalPropagation - Flight(m)
                                    - Return[m][Len(Back[m])])
<1>1. PICK n \in Nat : n = Len(Path[m]) /\ n >= 2 /\ n = Len(Back[m])
  BY WayLen, Ways
<1>2. StateOK
  BY StateOfInv
<1>3. PICK w \in Nat : w = wait[m, "AWK"]
  BY <1>2 DEF StateOK, Type
<1>4. PICK span \in Int :
        span = Margin(m) + Processing + TotalPropagation - Flight(m) - Return[m][n]
  <2>1. n \in 0..n
    OBVIOUS
  <2>2. Return[m][n] \in Nat
    BY <1>1, <2>1, Ways
  <2> QED
    BY <2>2, FlightIs, TimesAreInt
<1>5. now \in Nat /\ AnswerDue(m, n) \in Int /\ now = AnswerDue(m, n) + span + 1
  <2>1. n \in 0..n
    OBVIOUS
  <2>2. PICK r \in Nat, s \in Nat, f \in Nat, p \in Int :
          r = Return[m][n] /\ s = Stops(n) /\ f = Flight(m) /\ p = plan[m]
    <3>1. Return[m][n] \in Nat
      BY <1>1, <2>1, Ways
    <3>2. Stops(n) \in Nat /\ Flight(m) \in Nat /\ plan[m] \in Int
      BY <1>2, StopsLemma, FlightIs DEF StateOK, Unsent
    <3> QED
      BY <3>1, <3>2
  <2>3. AnswerDue(m, n) = p + f + Length + OpticalProcessing + s + r
    BY <2>2 DEF AnswerDue
  <2>4. span = (PacketDelay - s) + Processing + TotalPropagation - f - r
    BY <1>1, <1>4, <2>2, FlightIs
  <2>5. now = p + Length + TotalPropagation + OpticalProcessing + PacketDelay + Processing + 1
    BY <2>2 DEF CheckTime
  <2>6. PICK a \in Int, b \in Int : /\ a = p + Length + OpticalProcessing
                                    /\ b = PacketDelay + Processing + TotalPropagation
    BY TimesAreInt
  <2>7. AnswerDue(m, n) = a + f + s + r /\ span = b - s - f - r /\ now = a + b + 1
    BY <2>3, <2>4, <2>5, <2>6, TimesAreInt
  <2> QED
    BY <1>2, <2>7 DEF StateOK
<1>6. ASSUME w > span
      PROVE  WaitedMoreThan(m, "AWK", span)
  BY <1>3, <1>6 DEF WaitedMoreThan
<1>7. ASSUME NEW h \in 0..n
      PROVE  AnswerDue(m, h) \in Int /\ AnswerDue(m, h) <= AnswerDue(m, n)
  BY <1>1, <1>2, <1>7, DuesAreInt, DuesGrow DEF Inv
<1>8. ASSUME NEW e \in Of(m), e.fn = "Receive", e.type = "AWK",
             e.at <= AnswerDue(m, e.hop) + w
      PROVE  WaitedMoreThan(m, "AWK", span)
  <2>1. e \in events /\ e.msg = m
    BY DEF Of
  <2>2. PICK at \in Nat : at = e.at /\ now <= at
    BY <2>1, EventFields DEF Inv, TimeInv
  <2>3. PICK h \in 0..n : h = e.hop
    <3>1. HopOK(m, e.hop)
      BY <1>2, <1>8, <2>1 DEF StateOK, EventsOK, EventOK
    <3> QED
      BY <1>1, <3>1 DEF HopOK
  <2> QED
    BY <1>5, <1>6, <1>7, <1>8, <2>2, <2>3
<1>9. ASSUME NEW e \in Of(m), e.fn \in {"SendCTRL", "Burst"}, e.at <= AnswerDue(m, 0)
      PROVE  WaitedMoreThan(m, "AWK", span)
  <2>1. e \in events /\ e.msg = m
    BY DEF Of
  <2>2. PICK at \in Nat : at = e.at /\ now <= at
    BY <2>1, EventFields DEF Inv, TimeInv
  <2>3. AnswerDue(m, 0) \in Int /\ AnswerDue(m, 0) <= AnswerDue(m, n)
    BY <1>7
  <2> QED
    BY <1>5, <1>6, <1>9, <2>2, <2>3
<1>10. ASSUME NEW b \in Bursts(m)
       PROVE  b \in Of(m) /\ b.fn = "Burst" /\ b.at <= AnswerDue(m, 0)
  <2>1. b \in Of(m) /\ b \in events /\ b.msg = m /\ b.fn = "Burst" /\ b.at = HeadDue(m, b.hop)
    BY <1>10 DEF Bursts, Of, BurstOK
  <2>2. b.hop \in 0..n
    <3>1. EventOK(b) /\ b.hop \in Nat
      BY <2>1, EventFields DEF Inv
    <3>2. b.hop <= Len(Path[m])
      BY <2>1, <3>1 DEF EventOK
    <3> QED
      BY <1>1, <3>1, <3>2
  <2>3. PICK x \in Int : x = plan[m] + Flight(m) + Length
    <3>1. plan[m] \in Int /\ Flight(m) \in Nat
      BY <1>2, FlightIs DEF StateOK, Unsent
    <3> QED
      BY <3>1, TimesAreInt
  <2>4. /\ AnswerDue(m, 0) = x + OpticalProcessing
        /\ HeadDue(m, b.hop) \in Int /\ HeadDue(m, b.hop) <= x
    BY <1>1, <1>2, <2>2, <2>3, DuesAreInt, DuesGrow DEF Inv
  <2> QED
    BY <2>1, <2>3, <2>4, TimesAreInt
<1>11. ASSUME NEW c \in Waiting(m), c.type = "AWK", c.since <= AnswerDue(m, c.hop - 1) + w
       PROVE  WaitedMoreThan(m, "AWK", span)
  <2>1. c \in Queued /\ c.msg = m /\ Counts(c)
    BY <1>11 DEF Waiting, Counts
  <2>2. PICK since \in Nat : since = c.since
    BY <2>1, EntryFields DEF Inv
  <2>3. HopOK(m, c.hop)
    BY <2>1, EntryFields DEF Inv
  <2>4. PICK h \in 0..n : h = c.hop - 1
    BY <1>1, <2>3 DEF HopOK
  <2>5. w + (now - since) > span
    BY <1>5, <1>7, <1>11, <2>2, <2>4
  <2> QED
    BY <1>3, <1>11, <2>1, <2>2, <2>5, WaitIs
<1> QED
  BY <1>1, <1>3, <1>4, <1>8, <1>9, <1>10, <1>11 DEF Answered

-----------------------------------------------------------------------------
\* A step that leaves the answer alone.
LEMMA AnsweredKept ==
  ASSUME NEW m, plan'[m] = plan[m], wait'[m, "AWK"] = wait[m, "AWK"],
         Bursts(m) # {} => Bursts(m)' # {},
         \A e \in Of(m) : e.fn = "SendCTRL" \/ (e.fn = "Receive" /\ e.type = "AWK") => e \in Of(m)',
         \A c \in Waiting(m) : c.type = "AWK" => c \in Waiting(m)',
         m \in acked => m \in acked', Answered(m)
  PROVE  Answered(m)'
<1>1. \A h : AnswerDue(m, h)' = AnswerDue(m, h)
  BY DuesSame
<1> QED
  BY <1>1 DEF Answered

\* BurstPasses: the burst goes on, or nothing was booked for it.
LEMMA BurstPassesOK ==
  ASSUME Inv, NEW e \in events, e.at = now, BurstPasses(e),
         UNCHANGED <<now, next_transmit, plan, wait>>
  PROVE  /\ StateOK' /\ Queued' = Queued /\ UNCHANGED retried
         /\ \A m \in late' : \/ m \in late \/ m \in refused
                             \/ WaitedMoreThan(m, "CTRL", Margin(m))
<1>1. StateOK
  BY StateOfInv
<1>2. QueuesOK' /\ Queued' = Queued
  BY <1>1, StillQueues DEF BurstPasses
<1>3. PICK x \in Message : x = e.msg
  BY EventFields DEF Inv
<1>4. PICK h \in 0..(Len(Path[x]) - 1) : h = e.hop
  <2>1. e.hop \in Nat /\ e.hop < Len(Path[x]) /\ Len(Path[x]) \in Nat
    BY <1>3, EventFields, Ways DEF Inv, BurstPasses
  <2> QED
    BY <2>1
<1>5. /\ e.fn = "Burst" /\ UNCHANGED <<booked, expected, acked, nacked, retried, refused>>
      /\ \/ events' = (events \ {e}) \cup {Ahead(x, h)} /\ late' = late
         \/ booked[x] < h /\ events' = events \ {e} /\ late' = late \cup {x}
  <2>1. booked[x] \in Nat /\ h \in Nat
    BY <1>1, <1>3, <1>4 DEF StateOK
  <2> QED
    BY <1>3, <1>4, <2>1 DEF BurstPasses
<1>6. e \in Of(x) /\ e \in Bursts(x)
  BY <1>3, <1>5 DEF Of, Bursts
<1>7. plan[x] # Unsent /\ BaseOK(x) /\ (x \notin late \cup refused => LiveOK(x))
  BY <1>1, <1>6, SentHasEvents DEF StateOK
<1>8. now = HeadDue(x, h) /\ \A f \in Bursts(x) : f = e
  BY <1>4, <1>6, <1>7 DEF BaseOK, BurstOK
<1>9. PICK a : a = Ahead(x, h)
  OBVIOUS
<1>10. /\ a \in Event /\ EventOK(a) /\ now <= a.at /\ a.fn = "Burst" /\ a.msg = x
       /\ a.type = "CTRL" /\ a.at = HeadDue(x, h + 1) /\ a.hop = h + 1
  <2>1. PICK n \in Nat : n = Len(Path[x]) /\ n >= 2
    BY WayLen
  <2>2. h + 1 \in Nat /\ h + 1 \in 1..n /\ h + 1 <= n
    BY <1>4, <2>1
  <2>3. PICK d \in Nat : d = Delay[Path[x][h + 1]]
    BY <2>1, <2>2, Ways
  <2>4. PICK p \in Nat, l \in Nat : /\ p = IF h = 0 THEN 0 ELSE Propagation
                                    /\ l = IF h + 1 = n THEN Length ELSE 0
    BY TimesAreInt
  <2>5. PICK at \in Nat : at = now + d + p + l /\ now <= at
    <3>1. now \in Nat
      BY <1>1 DEF StateOK
    <3> QED
      BY <3>1
  <2>6. HeadDue(x, h + 1) = at
    <3>1. HeadDue(x, h + 1) = HeadDue(x, h) + d + p + l
      BY <1>1, <2>1, <2>3, <2>4, NextStop
    <3> QED
      BY <1>8, <2>5, <3>1
  <2>7. a = On("Burst", x, "CTRL", h + 1, at)
    BY <1>1, <1>9, <2>1, <2>3, <2>4, <2>5 DEF Ahead, StateOK
  <2>8. "CTRL" \in Type
    BY DEF Type
  <2>9. /\ a \in Event /\ a.fn = "Burst" /\ a.msg = x /\ a.type = "CTRL" /\ a.hop = h + 1
        /\ a.at = at
    BY <2>2, <2>7, <2>8, NewEvent
  <2> QED
    BY <2>1, <2>2, <2>5, <2>6, <2>9 DEF EventOK
<1>11. EventsOK'
  BY <1>1, <1>5, <1>9, <1>10 DEF StateOK, EventsOK, EventOK, HopOK
<1>12. \A m \in Message : m # x => MsgOK(m)'
  BY <1>2, <1>3, <1>5, <1>9, <1>10, OthersOK
<1>13. MsgOK(x)'
  <2>1. /\ HeraldEvents(x)' = HeraldEvents(x) /\ HeraldEntries(x)' = HeraldEntries(x)
        /\ Waiting(x)' = Waiting(x)
        /\ \A f : f \in Of(x)' => f \in Of(x) \/ f = a
        /\ \A f \in Of(x) : f = e \/ f \in Of(x)'
        /\ Bursts(x)' \subseteq {a}
        /\ x \notin late' => a \in Bursts(x)'
    <3>1. Waiting(x)' = Waiting(x)
      BY <1>2 DEF Waiting
    <3>2. \/ Of(x)' = (Of(x) \ {e}) \cup {a} /\ late' = late
          \/ Of(x)' = Of(x) \ {e} /\ x \in late'
      BY <1>5, <1>9, <1>10 DEF Of
    <3>3. HeraldEvents(x)' = HeraldEvents(x)
      BY <1>5, <1>10, <3>2 DEF HeraldEvents
    <3>4. Bursts(x)' \subseteq {a}
      BY <1>8, <3>2 DEF Bursts
    <3>5. x \notin late' => a \in Bursts(x)'
      BY <1>10, <3>2 DEF Bursts
    <3> QED
      BY <3>1, <3>2, <3>3, <3>4, <3>5 DEF HeraldEntries
  <2>2. HeraldOK(x)'
    <3>1. \A k : CtrlDue(x, k)' = CtrlDue(x, k)
      BY DuesSame
    <3> QED
      BY <1>5, <1>7, <2>1, <3>1 DEF BaseOK, HeraldOK, Counts
  <2>3. BurstOK(x)'
    <3>1. \A k : HeadDue(x, k)' = HeadDue(x, k)
      BY DuesSame
    <3> QED
      BY <1>10, <2>1, <3>1 DEF BurstOK
  <2>4. CheckOK(x)'
    BY <1>7, <1>10, <2>1 DEF BaseOK, CheckOK, CheckTime
  <2>5. ASSUME x \notin late' \cup refused'
        PROVE  LiveOK(x)'
    <3>1. late' = late /\ LiveOK(x)
      BY <1>5, <1>7, <2>5
    <3>2. Spared(x)' /\ Heralded(x)'
      BY <1>5, <1>6, <1>10, <2>1, <3>1 DEF LiveOK, Spared, Heralded
    <3>3. Answered(x)'
      BY <2>1, <2>5 DEF Answered
    <3> QED
      BY <3>2, <3>3 DEF LiveOK
  <2> QED
    BY <1>7, <2>2, <2>3, <2>4, <2>5 DEF MsgOK, BaseOK
<1>14. ASSUME NEW m \in late', m \notin late, m \notin refused
       PROVE  WaitedMoreThan(m, "CTRL", Margin(m))
  <2>1. m = x /\ booked[x] < h
    BY <1>5, <1>14
  <2>2. LiveOK(x)
    BY <1>7, <1>14, <2>1
  <2>3. /\ x \in expected => booked[x] = Len(Path[x]) - 1
        /\ HeraldEvents(x) # {} \/ HeraldEntries(x) # {} \/ x \in expected
    BY <1>6, <1>7, <2>2 DEF LiveOK, Heralded, BaseOK, HeraldOK
  <2>4. x \notin expected /\ h \in 1..Len(Path[x])
    <3>1. Len(Path[x]) \in Nat /\ booked[x] \in Nat
      BY <1>1, Ways DEF StateOK
    <3> QED
      BY <1>4, <2>1, <2>3, <3>1
  <2> QED
    BY <1>7, <1>8, <2>1, <2>3, <2>4, LateReason
<1> QED
  BY <1>1, <1>2, <1>3, <1>5, <1>11, <1>12, <1>13, <1>14 DEF StateOK

-----------------------------------------------------------------------------
\* What a handler may add for the answer of a message, or for a refusal.
AnswerEffect(m, type, hop, left, no) ==
  /\ QueuesOK' /\ EventsOK' /\ Queued \subseteq Queued'
  /\ Accepted(m, type, hop, left, no)
  /\ no \subseteq refused' /\ refused' \subseteq no \cup {m}
  /\ left \subseteq events'
  /\ \A e \in events' : e \in left \/ (e.fn = "Receive" /\ e.msg = m /\ e.type = type)
  /\ \A c \in Queued' : c \in Queued \/ (c.msg = m /\ c.type = type)

LEMMA AnswerSent ==
  ASSUME Inv, now' = now, UNCHANGED plan, NEW m \in Message, NEW type \in {"AWK", "NACK"},
         NEW hop, HopOK(m, hop), NEW left, left \subseteq events, NEW no, no \subseteq Message,
         ControlSend(m, type, hop, left, no)
  PROVE  AnswerEffect(m, type, hop, left, no)
<1>1. StateOK
  BY StateOfInv
<1>2. type \in Type /\ plan'[m] \in Nat \cup {Unsent}
  BY <1>1 DEF Type, StateOK
<1>3. Accepted(m, type, hop, left, no) /\ QueuesOK'
  BY <1>1, <1>2, SendQueues DEF Inv
<1>4. PICK r : r = Received(m, type, hop)
  OBVIOUS
<1>5. /\ r \in Event /\ EventOK(r) /\ r.fn = "Receive" /\ r.msg = m /\ r.type = type
      /\ now <= r.at
  BY <1>1, <1>2, <1>4, ReceivedIs DEF StateOK
<1>6. PICK c : c = Posted(m, type, hop)
  OBVIOUS
<1>7. c.msg = m /\ c.type = type
  BY <1>6, PostedIs
<1>8. \A e \in events' : e \in left \/ e = r
  BY <1>3, <1>4 DEF Accepted
<1>9. EventsOK'
  BY <1>1, <1>5, <1>8 DEF StateOK, EventsOK, EventOK, HopOK
<1> QED
  BY <1>3, <1>4, <1>5, <1>6, <1>7, <1>8, <1>9 DEF Accepted, AnswerEffect

\* The acknowledgement of a message leaves by its next device, or waits there.
InTime(m, hop) == now <= AnswerDue(m, hop) + wait[m, "AWK"]

LEMMA AnswerGoesOn ==
  ASSUME StateOK, UNCHANGED <<plan, wait>>, NEW m \in Message, NEW h \in 0..(Len(Path[m]) - 1),
         InTime(m, h), NEW left, NEW no, NEW g, g = h + 1,
         Accepted(m, "AWK", g, left, no), m \notin refused'
  PROVE  Answered(m)'
<1>1. PICK n \in Nat : n = Len(Path[m]) /\ n >= 2
  BY WayLen
<1>2. h \in Nat /\ g \in 1..n /\ h \in 0..n /\ g \in 0..n /\ g - 1 = h
  BY <1>1
<1>3. now \in Nat
  BY DEF StateOK
<1>4. PICK t \in Nat : t = now
  BY <1>3
<1>5. TypeInv
  BY DEF StateOK, QueuesOK, EventsOK, TypeInv
<1>6. PICK due \in Int : due = AnswerDue(m, h)
  BY <1>1, <1>2, <1>5, DuesAreInt
<1>7. PICK w \in Nat : w = wait[m, "AWK"]
  BY DEF StateOK, Type
<1>13. t <= due + w
  BY <1>4, <1>6, <1>7 DEF InTime
<1>8. \A k : AnswerDue(m, k)' = AnswerDue(m, k)
  BY DuesSame
<1>9. wait'[m, "AWK"] = w
  BY <1>7
<1>10. "AWK" \in Type /\ HopOK(m, g)
  BY <1>1, <1>2 DEF Type, HopOK
<1>11. CASE events' = left \cup {Received(m, "AWK", g)}
  <2>1. PICK r : r = Received(m, "AWK", g)
    OBVIOUS
  <2>2. PICK d \in Nat : d = Delay[Back[m][g]]
    BY <1>1, <1>2, Ways
  <2>3. Delay[Route("AWK", m)[g]] = d
    BY <2>2 DEF Route
  <2>4. /\ r.fn = "Receive" /\ r.msg = m /\ r.type = "AWK" /\ r.hop = g
        /\ r.at = t + Processing + Tx + d
    BY <1>3, <1>4, <1>10, <2>1, <2>3, ReceivedIs
  <2>5. AnswerDue(m, g) = due + Processing + Tx + d
    BY <1>6, <2>2, NextStop
  <2>6. t + Processing + Tx + d <= due + Processing + Tx + d + w
    BY <1>13, TimesAreInt
  <2>7. r.at <= AnswerDue(m, r.hop) + w
    BY <2>4, <2>5, <2>6
  <2>8. r \in Of(m)'
    BY <1>11, <2>1, <2>4 DEF Of
  <2> QED
    BY <1>8, <1>9, <2>4, <2>7, <2>8 DEF Answered
<1>12. CASE Queued' = Queued \cup {Posted(m, "AWK", g)}
  <2>1. PICK c : c = Posted(m, "AWK", g)
    OBVIOUS
  <2>2. c.msg = m /\ c.type = "AWK" /\ c.hop = g /\ c.since = t
    BY <1>4, <2>1, PostedIs
  <2>3. c.since <= AnswerDue(m, c.hop - 1) + w
    BY <1>2, <1>6, <1>13, <2>2
  <2>4. c \in Waiting(m)'
    BY <1>12, <2>1, <2>2 DEF Waiting
  <2> QED
    BY <1>8, <1>9, <2>2, <2>3, <2>4 DEF Answered
<1> QED
  BY <1>11, <1>12 DEF Accepted

\* SendCTRL: the acknowledgement leaves.
LEMMA SendCTRLOK ==
  ASSUME Inv, NEW e \in events, e.at = now, SendCTRL(e),
         UNCHANGED <<now, next_transmit, plan, wait>>
  PROVE  /\ StateOK' /\ Queued \subseteq Queued' /\ refused \subseteq refused'
         /\ UNCHANGED <<retried, late>>
<1>1. StateOK
  BY StateOfInv
<1>2. PICK x \in Message : x = e.msg
  BY EventFields DEF Inv
<1>3. /\ e.fn = "SendCTRL" /\ e.type = "AWK" /\ HopOK(x, 1)
      /\ UNCHANGED <<booked, expected, acked, nacked, retried, late>>
      /\ ControlSend(x, "AWK", 1, events \ {e}, refused)
  <2>1. e.fn = "SendCTRL" /\ EventOK(e)
    BY EventFields DEF Inv, SendCTRL
  <2>2. HopOK(x, 1)
    BY Ways DEF HopOK
  <2> QED
    BY <1>2, <2>1, <2>2 DEF EventOK, SendCTRL
<1>4. PICK left : left = events \ {e}
  OBVIOUS
<1>5. PICK no : no = refused /\ no \subseteq Message
  BY <1>1 DEF StateOK
<1>6. /\ QueuesOK' /\ EventsOK' /\ Queued \subseteq Queued'
      /\ Accepted(x, "AWK", 1, left, no)
      /\ refused \subseteq refused' /\ refused' \subseteq refused \cup {x}
      /\ left \subseteq events'
      /\ \A f \in events' : f \in left \/ (f.fn = "Receive" /\ f.msg = x /\ f.type = "AWK")
      /\ \A c \in Queued' : c \in Queued \/ (c.msg = x /\ c.type = "AWK")
  <2>1. left \subseteq events /\ ControlSend(x, "AWK", 1, left, no) /\ HopOK(x, 1)
    BY <1>3, <1>4, <1>5
  <2>2. "AWK" \in {"AWK", "NACK"} /\ no \subseteq Message
    BY <1>5
  <2>3. now' = now /\ UNCHANGED plan
    OBVIOUS
  <2>4. AnswerEffect(x, "AWK", 1, left, no)
    BY <2>1, <2>2, <2>3, AnswerSent
  <2> QED
    BY <1>5, <2>4 DEF AnswerEffect
<1>7. \A m \in Message : m # x => MsgOK(m)'
  <2>1. /\ \A f : f.msg # x => (f \in events' <=> f \in events)
        /\ \A c : c.msg # x => (c \in Queued' <=> c \in Queued)
    BY <1>2, <1>4, <1>6
  <2> QED
    BY <1>3, <1>6, <2>1, OthersOK
<1>8. MsgOK(x)'
  <2>1. e \in Of(x)
    BY <1>2 DEF Of
  <2>2. plan[x] # Unsent /\ BaseOK(x) /\ (x \notin late \cup refused => LiveOK(x))
    BY <1>1, <2>1, SentHasEvents DEF StateOK
  <2>3. /\ \A f \in Of(x)' : (f \in Of(x) /\ f # e) \/ (f.fn = "Receive" /\ f.type = "AWK")
        /\ \A f \in Of(x) : f = e \/ f \in Of(x)'
        /\ \A c \in Waiting(x)' : c \in Waiting(x) \/ c.type = "AWK"
        /\ \A c \in Waiting(x) : c \in Waiting(x)'
    BY <1>4, <1>6 DEF Of, Waiting
  <2>4. BaseOK(x)'
    BY <1>3, <2>2, <2>3, BaseKept
  <2>5. ASSUME x \notin late' \cup refused'
        PROVE  LiveOK(x)'
    <3>1. LiveOK(x)
      BY <1>3, <1>6, <2>2, <2>5
    <3>2. /\ HeraldEvents(x)' = HeraldEvents(x) /\ HeraldEntries(x)' = HeraldEntries(x)
          /\ Bursts(x)' = Bursts(x)
      BY <1>3, <2>3 DEF HeraldEvents, HeraldEntries, Bursts
    <3>3. Spared(x)' /\ Heralded(x)'
      BY <1>3, <2>3, <3>1, <3>2 DEF LiveOK, Spared, Heralded
    <3>4. ASSUME x \notin retried, e.at <= AnswerDue(x, 0)
          PROVE  Answered(x)'
      <4>1. 0 \in 0..(Len(Path[x]) - 1) /\ 0 \in 0..Len(Path[x]) /\ 1 = 0 + 1
        <5>1. PICK n \in Nat : n = Len(Path[x]) /\ n >= 2
          BY WayLen
        <5> QED
          BY <5>1
      <4>2. PICK due \in Int : due = AnswerDue(x, 0)
        BY <4>1, DuesAreInt DEF Inv
      <4>3. PICK w \in Nat : w = wait[x, "AWK"]
        BY <1>1 DEF StateOK, Type
      <4>4. PICK t \in Nat : t = now
        BY <1>1 DEF StateOK
      <4>7. t <= due + w
        BY <3>4, <4>2, <4>4
      <4>5. InTime(x, 0)
        BY <4>2, <4>3, <4>4, <4>7 DEF InTime
      <4>6. x \notin refused' /\ Accepted(x, "AWK", 1, left, no)
        BY <1>6, <2>5
      <4> QED
        BY <1>1, <4>1, <4>5, <4>6, AnswerGoesOn
    <3>5. ASSUME x \notin retried, ~(e.at <= AnswerDue(x, 0))
          PROVE  Answered(x)'
      <4>1. Answered(x)
        BY <3>1, <3>5 DEF LiveOK
      <4>2. \A h : AnswerDue(x, h)' = AnswerDue(x, h)
        BY DuesSame
      <4> QED
        BY <1>3, <2>3, <3>2, <3>5, <4>1, <4>2 DEF Answered
    <3> QED
      BY <1>3, <3>3, <3>4, <3>5 DEF LiveOK
  <2> QED
    BY <2>2, <2>4, <2>5 DEF MsgOK
<1> QED
  BY <1>1, <1>3, <1>6, <1>7, <1>8 DEF StateOK

-----------------------------------------------------------------------------
\* A message whose burst is still to come has not passed its last stop.
LEMMA HeraldBehind ==
  ASSUME Inv, NEW m \in Message, BaseOK(m), HeraldEvents(m) # {} \/ HeraldEntries(m) # {}
  PROVE  booked[m] < Len(Path[m])
<1>1. PICK n \in Nat : n = Len(Path[m]) /\ n >= 2
  BY WayLen
<1>2. PICK b \in Nat : b = booked[m]
  BY DEF Inv, TypeInv
<1>3. HeraldOK(m)
  BY DEF BaseOK
<1>4. ASSUME NEW e \in HeraldEvents(m) PROVE b < n
  <2>1. e \in events /\ e.msg = m /\ e.fn \in {"Receive", "UpdateReceived"}
    BY <1>4 DEF HeraldEvents, Of
  <2>2. CASE e.fn = "UpdateReceived"
    <3>1. b = n - 1
      BY <1>1, <1>2, <1>3, <1>4, <2>2 DEF HeraldOK
    <3> QED BY <3>1
  <2>3. CASE e.fn = "Receive"
    <3>1. e.hop = b + 1 /\ HopOK(m, e.hop)
      BY <1>2, <1>3, <1>4, <2>1, <2>3, EventFields DEF Inv, HeraldOK, EventOK
    <3> QED
      BY <1>1, <3>1 DEF HopOK
  <2> QED BY <2>1, <2>2, <2>3
<1>5. ASSUME NEW c \in HeraldEntries(m) PROVE b < n
  <2>1. c \in Queued /\ c.msg = m
    BY <1>5 DEF HeraldEntries, Waiting
  <2>2. c.hop = b + 1 /\ HopOK(m, c.hop)
    BY <1>2, <1>3, <1>5, <2>1, EntryFields DEF Inv, HeraldOK
  <2> QED
    BY <1>1, <2>2 DEF HopOK
<1> QED
  BY <1>1, <1>2, <1>4, <1>5

\* BurstArrives: the acknowledgement is due, or a NACK leaves.
LEMMA BurstArrivesOK ==
  ASSUME Inv, NEW e \in events, e.at = now, BurstArrives(e),
         UNCHANGED <<now, next_transmit, plan, wait>>
  PROVE  /\ StateOK' /\ Queued \subseteq Queued' /\ UNCHANGED retried
         /\ refused \subseteq refused' /\ late \subseteq late'
         /\ \A m \in late' : \/ m \in late \/ m \in refused
                             \/ WaitedMoreThan(m, "CTRL", Margin(m))
<1>1. StateOK
  BY StateOfInv
<1>2. PICK x \in Message : x = e.msg
  BY EventFields DEF Inv
<1>3. PICK n \in Nat : n = Len(Path[x]) /\ n >= 2
  BY WayLen
<1>4. PICK left : left = events \ {e}
  OBVIOUS
<1>5. /\ e.fn = "Burst" /\ e.hop = n /\ UNCHANGED <<booked, acked, nacked, retried>>
      /\ e \in Of(x) /\ e \in Bursts(x)
  BY <1>2, <1>3 DEF BurstArrives, Of, Bursts
<1>6. plan[x] # Unsent /\ BaseOK(x) /\ (x \notin late \cup refused => LiveOK(x))
  BY <1>1, <1>5, SentHasEvents DEF StateOK
<1>7. e.at = HeadDue(x, n) /\ \A f \in Bursts(x) : f = e
  BY <1>5, <1>6 DEF BaseOK, BurstOK
<1>8. CASE x \in expected
  <2>1. PICK a : a = On("SendCTRL", x, "AWK", 1, now + OpticalProcessing)
    OBVIOUS
  <2>2. /\ expected' = expected \ {x} /\ events' = left \cup {a}
        /\ UNCHANGED <<queue, done, refused, late>>
    BY <1>2, <1>4, <1>8, <2>1 DEF BurstArrives
  <2>3. PICK t \in Nat : t = e.at /\ t = now
    BY EventFields DEF Inv
  <2>4. PICK at \in Nat : at = t + OpticalProcessing /\ now <= at
    BY <2>3, TimesAreInt
  <2>5. /\ a \in Event /\ a.fn = "SendCTRL" /\ a.msg = x /\ a.type = "AWK" /\ a.hop = 1 /\ a.at = at
    <3>1. "AWK" \in Type /\ a = On("SendCTRL", x, "AWK", 1, at)
      BY <2>1, <2>3, <2>4 DEF Type
    <3> QED
      BY <3>1, NewEvent
  <2>6. QueuesOK' /\ Queued' = Queued
    BY <1>1, <2>2, StillQueues
  <2>7. EventsOK'
    BY <1>1, <1>4, <2>2, <2>4, <2>5 DEF StateOK, EventsOK, EventOK, HopOK
  <2>8. \A m \in Message : m # x => MsgOK(m)'
    BY <1>2, <1>4, <1>5, <2>2, <2>5, <2>6, OthersOK
  <2>9. /\ Of(x)' = (Of(x) \ {e}) \cup {a} /\ Waiting(x)' = Waiting(x)
        /\ Bursts(x)' = {}
    <3>1. Of(x)' = (Of(x) \ {e}) \cup {a} /\ Waiting(x)' = Waiting(x)
      BY <1>4, <2>2, <2>5, <2>6 DEF Of, Waiting
    <3> QED
      BY <1>7, <2>5, <3>1 DEF Bursts
  <2>10. BaseOK(x)'
    BY <1>5, <1>6, <2>2, <2>5, <2>9, BaseKept
  <2>11. ASSUME x \notin late' \cup refused'
         PROVE  LiveOK(x)'
    <3>1. LiveOK(x)
      BY <1>6, <2>2, <2>11
    <3>2. Spared(x)' /\ Heralded(x)'
      BY <1>5, <2>5, <2>9, <3>1 DEF LiveOK, Spared, Heralded
    <3>3. at <= AnswerDue(x, 0)
      <4>1. /\ HeadDue(x, n) = plan[x] + Flight(x) + Length
            /\ AnswerDue(x, 0) = plan[x] + Flight(x) + Length + OpticalProcessing
        BY <1>1, <1>3, DuesGrow
      <4>2. plan[x] \in Int /\ Flight(x) \in Int
        BY <1>1, FlightIs DEF StateOK, Unsent
      <4>3. PICK p \in Int : p = plan[x] + Flight(x) + Length
        BY <4>2, TimesAreInt
      <4>4. t = p
        BY <1>7, <2>3, <4>1, <4>3
      <4>5. AnswerDue(x, 0) = p + OpticalProcessing
        BY <4>1, <4>3
      <4> QED
        BY <2>4, <4>4, <4>5, TimesAreInt
    <3>4. AnswerDue(x, 0)' = AnswerDue(x, 0)
      BY DuesSame
    <3>5. Answered(x)'
      BY <2>5, <2>9, <3>3, <3>4 DEF Answered
    <3> QED
      BY <3>2, <3>5 DEF LiveOK
  <2>12. MsgOK(x)'
    BY <1>6, <2>10, <2>11 DEF MsgOK
  <2> QED
    BY <1>1, <1>5, <2>2, <2>6, <2>7, <2>8, <2>12 DEF StateOK
<1>9. CASE x \notin expected
  <2>1. late' = late \cup {x} /\ UNCHANGED expected /\ ControlSend(x, "NACK", 1, left, refused)
    BY <1>2, <1>4, <1>9 DEF BurstArrives
  <2>2. AnswerEffect(x, "NACK", 1, left, refused)
    <3>1. HopOK(x, 1) /\ left \subseteq events /\ refused \subseteq Message
      BY <1>1, <1>3, <1>4 DEF HopOK, StateOK
    <3>2. "NACK" \in {"AWK", "NACK"} /\ now' = now /\ UNCHANGED plan
      OBVIOUS
    <3> QED
      BY <2>1, <3>1, <3>2, AnswerSent
  <2>3. /\ QueuesOK' /\ EventsOK' /\ Queued \subseteq Queued'
        /\ refused \subseteq refused' /\ refused' \subseteq refused \cup {x}
        /\ left \subseteq events'
        /\ \A f \in events' : f \in left \/ (f.fn = "Receive" /\ f.msg = x /\ f.type = "NACK")
        /\ \A c \in Queued' : c \in Queued \/ (c.msg = x /\ c.type = "NACK")
    BY <2>2 DEF AnswerEffect
  <2>4. \A m \in Message : m # x => MsgOK(m)'
    <3>1. /\ \A f : f.msg # x => (f \in events' <=> f \in events)
          /\ \A c : c.msg # x => (c \in Queued' <=> c \in Queued)
      BY <1>2, <1>4, <2>3
    <3> QED
      BY <1>5, <2>1, <2>3, <3>1, OthersOK
  <2>5. BaseOK(x)'
    <3>1. /\ \A f \in Of(x)' : f \in Of(x) \/ (f.fn = "Receive" /\ f.type # "CTRL")
          /\ \A c \in Waiting(x)' : c \in Waiting(x) \/ c.type # "CTRL"
      BY <1>4, <2>3 DEF Of, Waiting
    <3> QED
      BY <1>5, <1>6, <2>1, <3>1, BaseKept
  <2>6. MsgOK(x)'
    BY <1>6, <2>1, <2>5 DEF MsgOK
  <2>7. ASSUME x \notin late, x \notin refused
        PROVE  WaitedMoreThan(x, "CTRL", Margin(x))
    <3>1. HeraldEvents(x) # {} \/ HeraldEntries(x) # {}
      BY <1>5, <1>6, <1>9, <2>7 DEF LiveOK, Heralded
    <3>2. booked[x] < n /\ now = HeadDue(x, n) /\ n \in 1..Len(Path[x])
      BY <1>3, <1>6, <1>7, <3>1, HeraldBehind
    <3> QED
      BY <1>6, <3>1, <3>2, LateReason
  <2> QED
    BY <1>1, <1>2, <1>5, <2>1, <2>3, <2>4, <2>6, <2>7 DEF StateOK
<1> QED
  BY <1>8, <1>9

-----------------------------------------------------------------------------
\* A CTRL at the receiver is read a processing time later.
LEMMA ReceiveCTRLOK ==
  ASSUME Inv, NEW e \in events, e.at = now, ReceiveAtEndpoint(e), e.type = "CTRL",
         UNCHANGED <<now, next_transmit, plan, wait>>
  PROVE  StateOK' /\ Queued' = Queued
<1>1. StateOK
  BY StateOfInv
<1>2. PICK x \in Message : x = e.msg
  BY EventFields DEF Inv
<1>3. PICK n \in Nat : n = Len(Path[x]) /\ n >= 2
  BY WayLen
<1>4. PICK left : left = events \ {e}
  OBVIOUS
<1>5. PICK a : a = On("UpdateReceived", x, "CTRL", n, now + Processing)
  OBVIOUS
<1>6. /\ e.fn = "Receive" /\ e.hop = n /\ e \in Of(x) /\ e \in HeraldEvents(x)
      /\ events' = left \cup {a}
      /\ UNCHANGED <<queue, done, booked, expected, acked, nacked, retried, refused, late>>
  BY <1>2, <1>3, <1>4, <1>5 DEF ReceiveAtEndpoint, Of, HeraldEvents
<1>7. plan[x] # Unsent /\ BaseOK(x) /\ (x \notin late \cup refused => LiveOK(x))
  BY <1>1, <1>6, SentHasEvents DEF StateOK
<1>8. PICK t \in Nat : t = e.at /\ t = now
  BY EventFields DEF Inv
<1>9. PICK at \in Nat : at = t + Processing /\ t <= at
  BY TimesAreInt
<1>10. /\ a \in Event /\ a.fn = "UpdateReceived" /\ a.msg = x /\ a.type = "CTRL" /\ a.hop = n
       /\ a.at = at
  <2>1. "CTRL" \in Type /\ a = On("UpdateReceived", x, "CTRL", n, at)
    BY <1>5, <1>8, <1>9 DEF Type
  <2> QED
    BY <2>1, NewEvent
<1>11. QueuesOK' /\ Queued' = Queued
  BY <1>1, <1>6, StillQueues
<1>12. EventsOK'
  <2>1. EventOK(a) /\ now <= a.at
    BY <1>3, <1>8, <1>9, <1>10 DEF EventOK
  <2> QED
    BY <1>1, <1>4, <1>6, <1>10, <2>1 DEF StateOK, EventsOK, EventOK, HopOK
<1>13. \A m \in Message : m # x => MsgOK(m)'
  BY <1>2, <1>4, <1>6, <1>10, <1>11, OthersOK
<1>14. HeraldOK(x) /\ \A f \in HeraldEvents(x) : f = e
  BY <1>6, <1>7 DEF BaseOK, HeraldOK
<1>15. /\ Of(x)' = (Of(x) \ {e}) \cup {a} /\ Waiting(x)' = Waiting(x)
       /\ HeraldEvents(x)' = {a} /\ HeraldEntries(x)' = {} /\ Bursts(x)' = Bursts(x)
  <2>1. Of(x)' = (Of(x) \ {e}) \cup {a} /\ Waiting(x)' = Waiting(x)
    BY <1>4, <1>6, <1>10, <1>11 DEF Of, Waiting
  <2>2. HeraldEntries(x) = {}
    BY <1>6, <1>14 DEF HeraldOK
  <2> QED
    BY <1>6, <1>10, <1>14, <2>1, <2>2 DEF HeraldEvents, HeraldEntries, Bursts
<1>16. HeraldOK(x)'
  <2>0. n = booked[x] + 1
    BY <1>6, <1>14 DEF HeraldOK
  <2>1. e.at <= CtrlDue(x, n) + wait[x, "CTRL"]
    BY <1>6, <1>14 DEF HeraldOK
  <2>2. PICK w \in Nat : w = wait[x, "CTRL"]
    BY <1>1 DEF StateOK, Type
  <2>3. PICK due \in Int : due = CtrlDue(x, n)
    <3>1. n \in 1..Len(Path[x])
      BY <1>3
    <3> QED
      BY <3>1, DuesAreInt DEF Inv
  <2>4. t <= due + w
    BY <1>8, <2>1, <2>2, <2>3
  <2>5. at <= due + Processing + w
    BY <1>9, <2>4, TimesAreInt
  <2>6. CtrlDue(x, n)' = due
    BY <2>3, DuesSame
  <2>7. PICK b \in Nat : b = booked[x]
    BY <1>1 DEF StateOK
  <2>8. b = n - 1
    BY <2>0, <2>7
  <2>9. booked'[x] = n - 1 /\ wait'[x, "CTRL"] = w
    BY <1>6, <2>2, <2>7, <2>8
  <2>10. a.at <= CtrlDue(x, n)' + Processing + wait'[x, "CTRL"]
    BY <1>10, <2>5, <2>6, <2>9
  <2>11. x \in expected' => booked'[x] = n - 1
    BY <2>9
  <2> QED
    BY <1>3, <1>10, <1>15, <2>9, <2>10, <2>11 DEF HeraldOK
<1>17. BurstOK(x)' /\ CheckOK(x)'
  <2>1. \A h : HeadDue(x, h)' = HeadDue(x, h)
    BY DuesSame
  <2> QED
    BY <1>7, <1>10, <1>15, <2>1 DEF BaseOK, BurstOK, CheckOK, CheckTime
<1>18. ASSUME x \notin late' \cup refused'
       PROVE  LiveOK(x)'
  <2>1. LiveOK(x)
    BY <1>6, <1>7, <1>18
  <2>2. Spared(x)' /\ Heralded(x)'
    BY <1>6, <1>10, <1>15, <2>1 DEF LiveOK, Spared, Heralded
  <2>3. Answered(x) => Answered(x)'
    BY <1>6, <1>10, <1>15, AnsweredKept
  <2> QED
    BY <1>6, <2>1, <2>2, <2>3 DEF LiveOK
<1>19. MsgOK(x)'
  BY <1>7, <1>16, <1>17, <1>18 DEF MsgOK, BaseOK
<1> QED
  BY <1>1, <1>6, <1>11, <1>12, <1>13, <1>19 DEF StateOK

\* An answer at the sender erases the entry of the attempt.
LEMMA ReceiveAnswerOK ==
  ASSUME Inv, NEW e \in events, e.at = now, ReceiveAtEndpoint(e), e.type # "CTRL",
         UNCHANGED <<now, next_transmit, plan, wait>>
  PROVE  StateOK' /\ Queued' = Queued
<1>1. StateOK
  BY StateOfInv
<1>2. PICK x \in Message : x = e.msg
  BY EventFields DEF Inv
<1>3. e.type \in {"AWK", "NACK"}
  BY EventFields DEF Inv, Type
<1>4. /\ e.fn = "Receive" /\ e \in Of(x)
      /\ acked \subseteq acked' /\ acked' \subseteq acked \cup {x}
      /\ nacked \subseteq nacked' /\ nacked' \subseteq nacked \cup {x}
      /\ events' \subseteq events
      /\ \A f \in events : f = e \/ f.msg = x \/ f \in events'
      /\ UNCHANGED <<queue, done, booked, expected, retried, refused, late>>
  BY <1>2 DEF ReceiveAtEndpoint, Of
<1>5. e.type = "AWK" => /\ events' = events \ {e} /\ nacked' = nacked
                        /\ x \in retried \cup acked' \cup nacked
  BY <1>2 DEF ReceiveAtEndpoint
<1>6. plan[x] # Unsent /\ BaseOK(x) /\ (x \notin late \cup refused => LiveOK(x))
  BY <1>1, <1>4, SentHasEvents DEF StateOK
<1>7. QueuesOK' /\ Queued' = Queued
  BY <1>1, <1>4, StillQueues
<1>8. EventsOK'
  BY <1>1, <1>4 DEF StateOK, EventsOK, EventOK, HopOK
<1>9. \A m \in Message : m # x => MsgOK(m)'
  BY <1>2, <1>4, <1>7, OthersOK
<1>10. Of(x)' \subseteq Of(x) /\ Waiting(x)' = Waiting(x)
  BY <1>4, <1>7 DEF Of, Waiting
<1>11. BaseOK(x)'
  BY <1>4, <1>6, <1>10, BaseKept
<1>12. ASSUME x \notin late' \cup refused'
       PROVE  LiveOK(x)'
  <2>1. LiveOK(x)
    BY <1>4, <1>6, <1>12
  <2>2. e.type = "AWK"
    BY <1>3, <1>4, <2>1 DEF LiveOK, Spared
  <2>3. Of(x)' = Of(x) \ {e}
    BY <1>5, <2>2 DEF Of
  <2>4. /\ HeraldEvents(x)' = HeraldEvents(x) /\ HeraldEntries(x)' = HeraldEntries(x)
        /\ Bursts(x)' = Bursts(x)
    BY <1>4, <1>10, <2>2, <2>3 DEF HeraldEvents, HeraldEntries, Bursts
  <2>5. Spared(x)' /\ Heralded(x)'
    BY <1>4, <1>5, <1>10, <2>1, <2>2, <2>3, <2>4 DEF LiveOK, Spared, Heralded
  <2>6. x \notin retried' => x \in acked'
    BY <1>4, <1>5, <2>1, <2>2 DEF LiveOK, Spared
  <2> QED
    BY <2>5, <2>6 DEF LiveOK, Answered
<1>13. MsgOK(x)'
  BY <1>6, <1>11, <1>12 DEF MsgOK
<1>14. acked' \cup nacked' \subseteq Message
  BY <1>1, <1>4 DEF StateOK
<1> QED
  BY <1>1, <1>4, <1>7, <1>8, <1>9, <1>13, <1>14 DEF StateOK

-----------------------------------------------------------------------------
\* A switch passes an answer on.
LEMMA SwitchAnswersOK ==
  ASSUME Inv, NEW e \in events, e.at = now, ReceiveAtSwitch(e), e.type # "CTRL",
         UNCHANGED <<now, next_transmit, plan, wait>>
  PROVE  /\ StateOK' /\ Queued \subseteq Queued' /\ refused \subseteq refused'
         /\ UNCHANGED <<retried, late>>
<1>1. StateOK
  BY StateOfInv
<1>2. PICK x \in Message : x = e.msg
  BY EventFields DEF Inv
<1>3. PICK n \in Nat : n = Len(Path[x]) /\ n >= 2
  BY WayLen
<1>4. PICK left : left = events \ {e}
  OBVIOUS
<1>5. PICK type \in {"AWK", "NACK"} : type = e.type
  BY EventFields DEF Inv, Type
<1>6. PICK h \in 0..(n - 1) : h = e.hop
  BY <1>2, <1>3, EventFields DEF Inv, ReceiveAtSwitch
<1>7. PICK g \in 1..n : g = h + 1
  OBVIOUS
<1>8. /\ e.fn = "Receive" /\ e \in Of(x)
      /\ ControlSend(x, type, g, left, refused)
      /\ UNCHANGED <<booked, expected, acked, nacked, retried, late>>
  BY <1>2, <1>4, <1>5, <1>6, <1>7 DEF ReceiveAtSwitch, Of
<1>9. plan[x] # Unsent /\ BaseOK(x) /\ (x \notin late \cup refused => LiveOK(x))
  BY <1>1, <1>8, SentHasEvents DEF StateOK
<1>10. AnswerEffect(x, type, g, left, refused)
  <2>1. HopOK(x, g) /\ left \subseteq events /\ refused \subseteq Message
    BY <1>1, <1>3, <1>4 DEF HopOK, StateOK
  <2>2. now' = now /\ UNCHANGED plan
    OBVIOUS
  <2> QED
    BY <1>8, <2>1, <2>2, AnswerSent
<1>11. /\ QueuesOK' /\ EventsOK' /\ Queued \subseteq Queued'
       /\ Accepted(x, type, g, left, refused)
       /\ refused \subseteq refused' /\ refused' \subseteq refused \cup {x}
       /\ left \subseteq events'
       /\ \A f \in events' : f \in left \/ (f.fn = "Receive" /\ f.msg = x /\ f.type = type)
       /\ \A c \in Queued' : c \in Queued \/ (c.msg = x /\ c.type = type)
  BY <1>10 DEF AnswerEffect
<1>12. \A m \in Message : m # x => MsgOK(m)'
  <2>1. /\ \A f : f.msg # x => (f \in events' <=> f \in events)
        /\ \A c : c.msg # x => (c \in Queued' <=> c \in Queued)
    BY <1>2, <1>4, <1>11
  <2> QED
    BY <1>8, <1>11, <2>1, OthersOK
<1>13. /\ \A f \in Of(x)' : (f \in Of(x) /\ f # e) \/ (f.fn = "Receive" /\ f.type = type)
       /\ \A f \in Of(x) : f = e \/ f \in Of(x)'
       /\ \A c \in Waiting(x)' : c \in Waiting(x) \/ c.type = type
       /\ \A c \in Waiting(x) : c \in Waiting(x)'
  BY <1>4, <1>11 DEF Of, Waiting
<1>14. BaseOK(x)'
  BY <1>8, <1>9, <1>13, BaseKept
<1>15. ASSUME x \notin late' \cup refused'
       PROVE  LiveOK(x)'
  <2>1. LiveOK(x)
    BY <1>8, <1>9, <1>11, <1>15
  <2>2. type = "AWK"
    BY <1>5, <1>8, <2>1 DEF LiveOK, Spared
  <2>3. /\ HeraldEvents(x)' = HeraldEvents(x) /\ HeraldEntries(x)' = HeraldEntries(x)
        /\ Bursts(x)' = Bursts(x)
    BY <1>5, <1>8, <1>13 DEF HeraldEvents, HeraldEntries, Bursts
  <2>4. Spared(x)' /\ Heralded(x)'
    BY <1>8, <1>13, <2>1, <2>2, <2>3 DEF LiveOK, Spared, Heralded
  <2>5. CASE InTime(x, h)
    <3>1. h \in 0..(Len(Path[x]) - 1) /\ Accepted(x, "AWK", g, left, refused) /\ x \notin refused'
      BY <1>3, <1>11, <1>15, <2>2
    <3>2. Answered(x)'
      BY <1>1, <1>7, <2>5, <3>1, AnswerGoesOn
    <3> QED
      BY <2>4, <3>2 DEF LiveOK
  <2>6. CASE ~InTime(x, h)
    <3>1. ~(e.at <= AnswerDue(x, e.hop) + wait[x, "AWK"])
      BY <1>6, <2>6 DEF InTime
    <3>2. \A k : AnswerDue(x, k)' = AnswerDue(x, k)
      BY DuesSame
    <3>3. Answered(x) => Answered(x)'
      BY <1>8, <1>13, <2>3, <3>1, <3>2 DEF Answered
    <3> QED
      BY <1>8, <2>1, <2>4, <3>3 DEF LiveOK
  <2> QED
    BY <2>5, <2>6
<1>16. MsgOK(x)'
  BY <1>9, <1>14, <1>15 DEF MsgOK
<1> QED
  BY <1>1, <1>8, <1>11, <1>12, <1>16 DEF StateOK

\* A switch refuses a control message.
LEMMA SwitchRefusesOK ==
  ASSUME Inv, NEW e \in events, e.at = now, UNCHANGED <<now, next_transmit, plan, wait>>,
         NEW x \in Message, x = e.msg, e.fn = "Receive", e.type = "CTRL", e.hop < Len(Path[x]),
         NEW fits, booked' = IF fits THEN [booked EXCEPT ![x] = e.hop] ELSE booked,
         ControlSend(x, "NACK", Len(Path[x]) + 1 - e.hop, events \ {e}, refused \cup {x}),
         UNCHANGED <<expected, acked, nacked, retried, late>>
  PROVE  StateOK' /\ Queued \subseteq Queued' /\ refused \subseteq refused'
<1>1. StateOK
  BY StateOfInv
<1>2. PICK n \in Nat : n = Len(Path[x]) /\ n >= 2
  BY WayLen
<1>3. PICK left : left = events \ {e}
  OBVIOUS
<1>4. PICK no : no = refused \cup {x}
  OBVIOUS
<1>5. PICK h \in 1..(n - 1) : h = e.hop
  <2>1. HopOK(x, e.hop)
    BY EventFields DEF Inv, EventOK
  <2> QED
    BY <1>2, <2>1 DEF HopOK
<1>6. PICK g \in 1..n : g = n + 1 - h
  OBVIOUS
<1>7. ControlSend(x, "NACK", g, left, no)
  BY <1>2, <1>3, <1>4, <1>5, <1>6
<1>8. AnswerEffect(x, "NACK", g, left, no)
  <2>1. HopOK(x, g) /\ left \subseteq events /\ no \subseteq Message
    BY <1>1, <1>2, <1>3, <1>4 DEF HopOK, StateOK
  <2>2. "NACK" \in {"AWK", "NACK"} /\ now' = now /\ UNCHANGED plan
    OBVIOUS
  <2> QED
    BY <1>7, <2>1, <2>2, AnswerSent
<1>9. /\ QueuesOK' /\ EventsOK' /\ Queued \subseteq Queued'
      /\ no \subseteq refused' /\ refused' \subseteq no \cup {x}
      /\ left \subseteq events'
      /\ \A f \in events' : f \in left \/ (f.fn = "Receive" /\ f.msg = x /\ f.type = "NACK")
      /\ \A c \in Queued' : c \in Queued \/ (c.msg = x /\ c.type = "NACK")
  BY <1>8 DEF AnswerEffect
<1>10. e \in Of(x) /\ e \in HeraldEvents(x)
  BY DEF Of, HeraldEvents
<1>11. plan[x] # Unsent /\ BaseOK(x)
  BY <1>1, <1>10, SentHasEvents DEF StateOK
<1>12. booked' \in [Message -> Nat] /\ \A m \in Message : m # x => booked'[m] = booked[m]
  <2>1. booked \in [Message -> Nat] /\ e.hop \in Nat
    BY <1>1, EventFields DEF Inv, StateOK
  <2> QED
    BY <2>1
<1>13. \A m \in Message : m # x => MsgOK(m)'
  <2>1. /\ \A f : f.msg # x => (f \in events' <=> f \in events)
        /\ \A c : c.msg # x => (c \in Queued' <=> c \in Queued)
    BY <1>3, <1>9
  <2>2. \A m \in Message : m # x => (m \in refused' <=> m \in refused)
    BY <1>4, <1>9
  <2> QED
    BY <1>12, <2>1, <2>2, OthersOK
<1>14. /\ \A f \in Of(x)' : (f \in Of(x) /\ f # e) \/ (f.fn = "Receive" /\ f.type = "NACK")
       /\ \A c \in Waiting(x)' : c \in Waiting(x) \/ c.type = "NACK"
  BY <1>3, <1>9 DEF Of, Waiting
<1>15. HeraldEvents(x)' = {} /\ HeraldEntries(x)' = {} /\ x \notin expected'
  <2>1. HeraldOK(x) /\ HeraldEntries(x) = {} /\ \A f \in HeraldEvents(x) : f = e
    BY <1>10, <1>11 DEF BaseOK, HeraldOK
  <2>2. h = booked[x] + 1
    BY <1>5, <1>10, <2>1 DEF HeraldOK
  <2>3. PICK b \in Nat : b = booked[x]
    BY <1>1 DEF StateOK
  <2>4. b # n - 1
    BY <1>5, <2>2, <2>3
  <2>5. x \notin expected
    BY <1>2, <2>1, <2>3, <2>4 DEF HeraldOK
  <2> QED
    BY <1>14, <2>1, <2>5 DEF HeraldEvents, HeraldEntries
<1>16. BaseOK(x)'
  BY <1>11, <1>14, <1>15, BaseKept
<1>17. MsgOK(x)'
  BY <1>4, <1>9, <1>11, <1>16 DEF MsgOK
<1>18. refused' \subseteq Message /\ refused \subseteq refused'
  BY <1>1, <1>4, <1>9 DEF StateOK
<1> QED
  BY <1>1, <1>9, <1>12, <1>13, <1>17, <1>18 DEF StateOK

-----------------------------------------------------------------------------
\* A switch books a place and passes a control message on.
LEMMA SwitchForwardsOK ==
  ASSUME Inv, NEW e \in events, e.at = now, UNCHANGED <<now, next_transmit, plan, wait>>,
         NEW x \in Message, x = e.msg, e.fn = "Receive", e.type = "CTRL", e.hop < Len(Path[x]),
         booked' = [booked EXCEPT ![x] = e.hop],
         ControlSend(x, "CTRL", e.hop + 1, events \ {e}, refused),
         UNCHANGED <<expected, acked, nacked, retried, late>>
  PROVE  StateOK' /\ Queued \subseteq Queued' /\ refused \subseteq refused'
<1>1. StateOK
  BY StateOfInv
<1>2. PICK n \in Nat : n = Len(Path[x]) /\ n >= 2
  BY WayLen
<1>3. PICK left : left = events \ {e}
  OBVIOUS
<1>4. e \in Of(x) /\ e \in HeraldEvents(x)
  BY DEF Of, HeraldEvents
<1>5. plan[x] # Unsent /\ BaseOK(x) /\ (x \notin late \cup refused => LiveOK(x))
  BY <1>1, <1>4, SentHasEvents DEF StateOK
<1>6. HeraldOK(x) /\ HeraldEntries(x) = {} /\ \A f \in HeraldEvents(x) : f = e
  BY <1>4, <1>5 DEF BaseOK, HeraldOK
<1>7. PICK h \in 1..(n - 1) : h = e.hop
  <2>1. HopOK(x, e.hop)
    BY EventFields DEF Inv, EventOK
  <2> QED
    BY <1>2, <2>1 DEF HopOK
<1>8. PICK g \in 2..n : g = h + 1
  OBVIOUS
<1>9. HopOK(x, g) /\ "CTRL" \in Type
  BY <1>2 DEF HopOK, Type
<1>10. Accepted(x, "CTRL", g, left, refused) /\ QueuesOK'
  <2>1. ControlSend(x, "CTRL", g, left, refused)
    BY <1>3, <1>7, <1>8
  <2>2. \A c \in Queued : ~(c.msg = x /\ c.type = "CTRL")
    BY <1>6 DEF HeraldEntries, Waiting
  <2>3. g # 1 /\ now' = now /\ plan'[x] \in Nat \cup {Unsent}
    BY <1>1 DEF StateOK
  <2>4. \A c \in Queued : plan'[c.msg] = plan[c.msg]
    OBVIOUS
  <2> QED
    BY <1>9, <2>1, <2>2, <2>3, <2>4, SendQueues DEF Inv
<1>11. PICK r : r = Received(x, "CTRL", g)
  OBVIOUS
<1>12. PICK d \in Nat : d = Delay[Path[x][g]]
  <2>1. g \in 1..Len(Path[x])
    BY <1>2
  <2> QED
    BY <2>1, Ways
<1>13. PICK t \in Nat : t = e.at /\ t = now
  BY EventFields DEF Inv
<1>14. /\ r \in Event /\ EventOK(r) /\ r.fn = "Receive" /\ r.msg = x /\ r.type = "CTRL"
       /\ r.hop = g /\ r.at = t + Processing + Tx + d /\ now <= r.at
  <2>1. Delay[Route("CTRL", x)[g]] = d
    BY <1>12 DEF Route
  <2> QED
    BY <1>9, <1>11, <1>13, <2>1, ReceivedIs
<1>15. PICK c : c = Posted(x, "CTRL", g)
  OBVIOUS
<1>16. c.msg = x /\ c.type = "CTRL" /\ c.hop = g /\ c.since = t /\ Counts(c)
  <2>1. c.msg = x /\ c.type = "CTRL" /\ c.hop = g /\ c.since = t
    BY <1>13, <1>15, PostedIs
  <2> QED
    BY <2>1 DEF Counts
<1>17. \/ refused' = refused \cup {x} /\ events' = left /\ Queued' = Queued
       \/ refused' = refused /\ events' = left \cup {r} /\ Queued' = Queued
       \/ refused' = refused /\ events' = left /\ Queued' = Queued \cup {c}
  BY <1>10, <1>11, <1>15 DEF Accepted
<1>18. EventsOK'
  BY <1>1, <1>3, <1>14, <1>17 DEF StateOK, EventsOK, EventOK, HopOK
<1>19. /\ booked' \in [Message -> Nat] /\ booked'[x] = h
       /\ \A m \in Message : m # x => booked'[m] = booked[m]
  BY <1>1, <1>7 DEF StateOK
<1>20. \A m \in Message : m # x => MsgOK(m)'
  <2>1. /\ \A f : f.msg # x => (f \in events' <=> f \in events)
        /\ \A f : f.msg # x => (f \in Queued' <=> f \in Queued)
    BY <1>3, <1>14, <1>16, <1>17
  <2>2. \A m \in Message : m # x => (m \in refused' <=> m \in refused)
    BY <1>17
  <2> QED
    BY <1>19, <2>1, <2>2, OthersOK
<1>21. \/ x \in refused' /\ Of(x)' = Of(x) \ {e} /\ Waiting(x)' = Waiting(x)
       \/ Of(x)' = (Of(x) \ {e}) \cup {r} /\ Waiting(x)' = Waiting(x)
       \/ Of(x)' = Of(x) \ {e} /\ Waiting(x)' = Waiting(x) \cup {c}
  BY <1>3, <1>14, <1>16, <1>17 DEF Of, Waiting
<1>22. /\ Bursts(x)' = Bursts(x)
       /\ \/ x \in refused' /\ HeraldEvents(x)' = {} /\ HeraldEntries(x)' = {}
          \/ HeraldEvents(x)' = {r} /\ HeraldEntries(x)' = {}
          \/ HeraldEvents(x)' = {} /\ HeraldEntries(x)' = {c}
  <2>1. Bursts(x)' = Bursts(x)
    BY <1>14, <1>21 DEF Bursts
  <2>2. HeraldEvents(x)' = IF r \in Of(x)' THEN {r} ELSE {}
    BY <1>6, <1>14, <1>21 DEF HeraldEvents
  <2>3. HeraldEntries(x)' = IF c \in Waiting(x)' THEN {c} ELSE {}
    BY <1>6, <1>16, <1>21 DEF HeraldEntries
  <2>4. r \notin Of(x) \ {e} /\ c \notin Waiting(x)
    BY <1>6, <1>14, <1>16 DEF HeraldEvents, HeraldEntries
  <2> QED
    BY <1>21, <2>1, <2>2, <2>3, <2>4
<1>23. PICK w \in Nat : w = wait[x, "CTRL"]
  BY <1>1 DEF StateOK, Type
<1>24. PICK due \in Int : due = CtrlDue(x, h)
  <2>1. h \in 1..Len(Path[x])
    BY <1>2
  <2> QED
    BY <2>1, DuesAreInt DEF Inv
<1>25. t <= due + w
  <2>1. e.at <= CtrlDue(x, h) + wait[x, "CTRL"]
    BY <1>4, <1>6, <1>7 DEF HeraldOK
  <2> QED
    BY <1>13, <1>23, <1>24, <2>1
<1>26. r.at <= CtrlDue(x, g) + w
  <2>1. h \in 0..(Len(Path[x]) - 1) /\ h > 0
    BY <1>2
  <2>2. CtrlDue(x, g) = due + Processing + Tx + d
    BY <1>1, <1>8, <1>12, <1>24, <2>1, NextStop
  <2>3. t + Processing + Tx + d <= due + Processing + Tx + d + w
    BY <1>25, TimesAreInt
  <2> QED
    BY <1>14, <2>2, <2>3
<1>27. HeraldOK(x)'
  <2>1. \A k : CtrlDue(x, k)' = CtrlDue(x, k)
    BY DuesSame
  <2>2. g = booked'[x] + 1 /\ g - 1 = h
    BY <1>8, <1>19
  <2>3. wait'[x, "CTRL"] = w
    BY <1>23
  <2>4. x \notin expected'
    <3>1. h = booked[x] + 1
      BY <1>4, <1>6, <1>7 DEF HeraldOK
    <3>2. PICK b \in Nat : b = booked[x]
      BY <1>1 DEF StateOK
    <3>3. b # n - 1
      BY <3>1, <3>2
    <3> QED
      BY <1>2, <1>6, <3>2, <3>3 DEF HeraldOK
  <2>5. CASE HeraldEvents(x)' = {} /\ HeraldEntries(x)' = {}
    BY <2>4, <2>5 DEF HeraldOK
  <2>6. CASE HeraldEvents(x)' = {r} /\ HeraldEntries(x)' = {}
    <3>1. r.hop = booked'[x] + 1 /\ r.at <= CtrlDue(x, r.hop)' + wait'[x, "CTRL"]
      BY <1>14, <1>26, <2>1, <2>2, <2>3
    <3> QED
      BY <1>14, <2>4, <2>6, <3>1 DEF HeraldOK
  <2>7. CASE HeraldEvents(x)' = {} /\ HeraldEntries(x)' = {c}
    <3>1. c.hop = booked'[x] + 1
      BY <1>16, <2>2
    <3>2. c.since <= CtrlDue(x, c.hop - 1)' + wait'[x, "CTRL"]
      BY <1>16, <1>24, <1>25, <2>1, <2>2, <2>3
    <3> QED
      BY <2>4, <2>7, <3>1, <3>2 DEF HeraldOK
  <2> QED
    BY <1>22, <2>5, <2>6, <2>7
<1>28. BurstOK(x)' /\ CheckOK(x)'
  <2>1. \A k : HeadDue(x, k)' = HeadDue(x, k)
    BY DuesSame
  <2> QED
    BY <1>5, <1>14, <1>21, <1>22, <2>1 DEF BaseOK, BurstOK, CheckOK, CheckTime
<1>29. ASSUME x \notin late' \cup refused'
       PROVE  LiveOK(x)'
  <2>1. LiveOK(x)
    BY <1>5, <1>17, <1>29
  <2>2. Spared(x)'
    BY <1>14, <1>16, <1>21, <2>1 DEF LiveOK, Spared
  <2>3. Heralded(x)'
    BY <1>22, <1>29 DEF Heralded
  <2>4. Answered(x) => Answered(x)'
    <3>1. \A f \in Of(x) : f = e \/ f \in Of(x)'
      BY <1>21
    <3>2. \A f \in Waiting(x) : f \in Waiting(x)'
      BY <1>21
    <3>3. Bursts(x) # {} => Bursts(x)' # {}
      BY <1>22
    <3> QED
      BY <3>1, <3>2, <3>3, AnsweredKept
  <2> QED
    BY <2>1, <2>2, <2>3, <2>4 DEF LiveOK
<1>30. MsgOK(x)'
  BY <1>5, <1>27, <1>28, <1>29 DEF MsgOK, BaseOK
<1> QED
  BY <1>1, <1>10, <1>17, <1>18, <1>19, <1>20, <1>30 DEF StateOK

-----------------------------------------------------------------------------
\* The backlog counts at least the processing of the message.
LEMMA BacklogIs ==
  ASSUME StateOK, NEW d \in Device
  PROVE  Backlog(d) \in Nat /\ Backlog(d) >= Processing
<1>1. PICK q \in Seq(Entry) : q = queue[d]
  BY DEF StateOK, QueuesOK
<1>2. PICK n \in Nat : n = Len(queue[d])
  BY <1>1
<1>3. PICK k \in Nat : k = n + IF done[d] # Idle THEN 1 ELSE 0
  OBVIOUS
<1>4. PICK b \in Nat : b = Busy
  BY TurnsLemma
<1>5. b * k \in Nat
  OBVIOUS
<1>6. Backlog(d) = Processing + b * k
  BY <1>2, <1>3, <1>4 DEF Backlog
<1> QED
  BY <1>5, <1>6, TimesAreInt

\* What Send leaves of the message: the burst and CheckSent are scheduled.
Planned(m, send) ==
  {On("Burst", m, "CTRL", 0, send), On("CheckSent", m, "CTRL", 0, CheckTime(send))}

\* Send: the lead covers the wait in the queue of the sender.
LEMMA SendAcceptedOK ==
  ASSUME Inv, NEW m \in Message, plan[m] = Unsent, m \notin refused, NEW send \in Nat,
         ~Full(Path[m][1]), now + Backlog(Path[m][1]) + PacketDelay <= send,
         next_transmit' \in [Device -> Nat], plan' = [plan EXCEPT ![m] = send],
         ControlSend(m, "CTRL", 1, events \cup Planned(m, send), refused),
         UNCHANGED <<now, booked, expected, acked, nacked, retried, late, wait>>
  PROVE  StateOK' /\ Queued \subseteq Queued' /\ refused \subseteq refused'
<1>1. StateOK
  BY StateOfInv
<1>2. PICK n \in Nat : n = Len(Path[m]) /\ n >= 2
  BY WayLen
<1>3. Fresh(m)
  BY <1>1 DEF StateOK, MsgOK
<1>4. PICK left : left = events \cup Planned(m, send)
  OBVIOUS
<1>5. PICK f : f = Path[m][1]
  OBVIOUS
<1>6. f \in Device /\ HopOK(m, 1) /\ 1 \in 1..Len(Path[m]) /\ "CTRL" \in Type
  BY <1>2, <1>5, Ways DEF HopOK, Type
<1>7. /\ plan' \in [Message -> Nat \cup {Unsent}] /\ plan'[m] = send
      /\ \A x \in Message : x # m => plan'[x] = plan[x]
  BY <1>1 DEF StateOK
<1>8. \A c \in Queued : c.msg # m /\ plan'[c.msg] = plan[c.msg]
  <2>1. \A c \in Queued : c.msg # m
    BY <1>3 DEF Fresh, Waiting
  <2> QED
    BY <1>7, <2>1, EntryFields DEF Inv
<1>9. Accepted(m, "CTRL", 1, left, refused) /\ QueuesOK'
  <2>1. now + Backlog(Path[m][1]) + PacketDelay <= plan'[m] /\ plan'[m] \in Nat \cup {Unsent}
    BY <1>7
  <2>2. \A c \in Queued : ~(c.msg = m /\ c.type = "CTRL")
    BY <1>8
  <2>3. ControlSend(m, "CTRL", 1, left, refused) /\ now' = now
    BY <1>4
  <2> QED
    BY <1>6, <1>8, <2>1, <2>2, <2>3, SendQueues DEF Inv
<1>10. PICK t \in Nat : t = now
  BY <1>1 DEF StateOK
<1>11. t + Processing + PacketDelay <= send
  <2>1. PICK b \in Nat : b = Backlog(f) /\ b >= Processing
    BY <1>1, <1>6, BacklogIs
  <2>2. t + b + PacketDelay <= send
    BY <1>5, <1>10, <2>1
  <2> QED
    BY <2>1, <2>2, TimesAreInt
<1>12. PICK d \in Nat : d = Delay[f]
  BY <1>5, <1>6, Ways
<1>13. PICK r : r = Received(m, "CTRL", 1)
  OBVIOUS
<1>14. /\ r \in Event /\ EventOK(r) /\ r.fn = "Receive" /\ r.msg = m /\ r.type = "CTRL"
       /\ r.hop = 1 /\ r.at = t + Processing + Tx + d /\ now <= r.at
  <2>1. Delay[Route("CTRL", m)[1]] = d
    BY <1>5, <1>12 DEF Route
  <2> QED
    BY <1>6, <1>10, <1>13, <2>1, ReceivedIs
<1>15. PICK c : c = Posted(m, "CTRL", 1)
  OBVIOUS
<1>16. c.msg = m /\ c.type = "CTRL" /\ c.hop = 1 /\ ~Counts(c)
  BY <1>15, PostedIs DEF Counts
<1>17. PICK b : b = On("Burst", m, "CTRL", 0, send)
  OBVIOUS
<1>18. PICK k : k = On("CheckSent", m, "CTRL", 0, CheckTime(send))
  OBVIOUS
<1>19. PICK check \in Nat : check = CheckTime(send) /\ send <= check
  BY TimesAreInt DEF CheckTime
<1>20. /\ b \in Event /\ b.fn = "Burst" /\ b.msg = m /\ b.type = "CTRL" /\ b.hop = 0 /\ b.at = send
       /\ k \in Event /\ k.fn = "CheckSent" /\ k.msg = m /\ k.type = "CTRL" /\ k.hop = 0
       /\ k.at = check
  <2>1. k = On("CheckSent", m, "CTRL", 0, check)
    BY <1>18, <1>19
  <2>2. /\ b \in Event /\ b.fn = "Burst" /\ b.msg = m /\ b.type = "CTRL" /\ b.hop = 0
        /\ b.at = send
    BY <1>6, <1>17, NewEvent
  <2>3. /\ k \in Event /\ k.fn = "CheckSent" /\ k.msg = m /\ k.type = "CTRL" /\ k.hop = 0
        /\ k.at = check
    BY <1>6, <2>1, NewEvent
  <2> QED
    BY <2>2, <2>3
<1>21. left = events \cup {b, k}
  BY <1>4, <1>17, <1>18 DEF Planned
<1>22. \/ refused' = refused \cup {m} /\ events' = left /\ Queued' = Queued
       \/ refused' = refused /\ events' = left \cup {r} /\ Queued' = Queued
       \/ refused' = refused /\ events' = left /\ Queued' = Queued \cup {c}
  BY <1>9, <1>13, <1>15 DEF Accepted
<1>23. EventsOK'
  <2>1. now <= send /\ now <= check
    BY <1>10, <1>11, <1>19, TimesAreInt
  <2>2. EventOK(b) /\ EventOK(k)
    BY <1>2, <1>20 DEF EventOK
  <2>3. \A e \in events' : e \in events \/ e \in {b, k, r}
    BY <1>21, <1>22
  <2> QED
    BY <1>1, <1>14, <1>20, <2>1, <2>2, <2>3 DEF StateOK, EventsOK, EventOK, HopOK
<1>24. ASSUME NEW x \in Message, x # m
       PROVE  MsgOK(x)'
  <2>1. Of(x)' = Of(x) /\ Waiting(x)' = Waiting(x)
    BY <1>14, <1>16, <1>20, <1>21, <1>22, <1>24 DEF Of, Waiting
  <2>2. x \in refused' <=> x \in refused
    BY <1>22, <1>24
  <2>3. Untouched(x)
    BY <1>7, <1>24, <2>1, <2>2 DEF Untouched
  <2> QED
    BY <1>1, <2>3, UntouchedOK DEF StateOK
<1>25. \/ m \in refused' /\ Of(m)' = {b, k} /\ Waiting(m)' = {}
       \/ Of(m)' = {b, k, r} /\ Waiting(m)' = {}
       \/ Of(m)' = {b, k} /\ Waiting(m)' = {c}
  <2>1. Of(m) = {} /\ Waiting(m) = {}
    BY <1>3 DEF Fresh
  <2>2. CASE refused' = refused \cup {m} /\ events' = left /\ Queued' = Queued
    BY <1>20, <1>21, <2>1, <2>2 DEF Of, Waiting
  <2>3. CASE refused' = refused /\ events' = left \cup {r} /\ Queued' = Queued
    BY <1>14, <1>20, <1>21, <2>1, <2>3 DEF Of, Waiting
  <2>4. CASE refused' = refused /\ events' = left /\ Queued' = Queued \cup {c}
    BY <1>16, <1>20, <1>21, <2>1, <2>4 DEF Of, Waiting
  <2> QED
    BY <1>22, <2>2, <2>3, <2>4
<1>26. /\ Bursts(m)' = {b}
       /\ \/ m \in refused' /\ HeraldEvents(m)' = {} /\ HeraldEntries(m)' = {}
          \/ HeraldEvents(m)' = {r} /\ HeraldEntries(m)' = {}
          \/ HeraldEvents(m)' = {} /\ HeraldEntries(m)' = {c}
  <2>1. Bursts(m)' = {b}
    BY <1>14, <1>20, <1>25 DEF Bursts
  <2>2. CASE m \in refused' /\ Of(m)' = {b, k} /\ Waiting(m)' = {}
    BY <1>20, <2>1, <2>2 DEF HeraldEvents, HeraldEntries
  <2>3. CASE Of(m)' = {b, k, r} /\ Waiting(m)' = {}
    BY <1>14, <1>20, <2>1, <2>3 DEF HeraldEvents, HeraldEntries
  <2>4. CASE Of(m)' = {b, k} /\ Waiting(m)' = {c}
    BY <1>16, <1>20, <2>1, <2>4 DEF HeraldEvents, HeraldEntries
  <2> QED
    BY <1>25, <2>2, <2>3, <2>4
<1>27. r.at <= CtrlDue(m, 1)'
  <2>1. Reach[m][1] = d
    <3>1. Reach[m][1] = Reach[m][1 - 1] + Delay[Path[m][1]] /\ Reach[m][0] = 0 /\ 1 - 1 = 0
      BY SMTT(20), <1>6, Ways
    <3> QED
      BY <1>5, <1>12, <3>1
  <2>2. CtrlDue(m, 1)' = send - PacketDelay + Tx + 0 + d
    <3>1. Stops(1 - 1) = 0
      BY StopsLemma
    <3> QED
      BY <1>7, <2>1, <3>1 DEF CtrlDue
  <2> QED
    BY <1>11, <1>14, <2>2, TimesAreInt
<1>28. HeraldOK(m)'
  <2>0. m \notin expected'
    BY <1>3 DEF Fresh
  <2>1. booked'[m] = 0
    BY <1>3 DEF Fresh
  <2>5. wait'[m, "CTRL"] = 0
    BY <1>3 DEF Fresh, Type
  <2>2. CASE HeraldEvents(m)' = {} /\ HeraldEntries(m)' = {}
    BY <2>0, <2>2 DEF HeraldOK
  <2>3. CASE HeraldEvents(m)' = {r} /\ HeraldEntries(m)' = {}
    <3>1. PICK due \in Int : due = CtrlDue(m, 1)'
      <4>1. 1 \in 0..Len(Path[m]) /\ 1 - 1 \in Nat
        BY <1>2
      <4>2. Reach[m][1] \in Nat /\ Stops(1 - 1) \in Nat
        BY <4>1, Ways, StopsLemma
      <4> QED
        BY <1>7, <4>2, TimesAreInt DEF CtrlDue
    <3>2. r.at <= due + 0
      BY <1>27, <3>1
    <3>3. r.fn = "Receive" /\ r.hop = booked'[m] + 1
      BY <1>14, <2>1
    <3>4. r.at <= CtrlDue(m, r.hop)' + wait'[m, "CTRL"]
      BY <1>14, <2>5, <3>1, <3>2
    <3> QED
      BY <2>0, <2>3, <3>3, <3>4 DEF HeraldOK
  <2>4. CASE HeraldEvents(m)' = {} /\ HeraldEntries(m)' = {c}
    <3>1. c.hop = booked'[m] + 1 /\ ~Counts(c)'
      BY <1>16, <2>1 DEF Counts
    <3> QED
      BY <2>0, <2>4, <3>1 DEF HeraldOK
  <2> QED
    BY <1>26, <2>2, <2>3, <2>4
<1>29. BurstOK(m)' /\ CheckOK(m)'
  <2>1. HeadDue(m, 0)' = send
    BY <1>7 DEF HeadDue
  <2>2. BurstOK(m)'
    BY <1>20, <1>26, <2>1 DEF BurstOK
  <2>3. \A e \in Of(m)' : e.fn = "CheckSent" => e = k
    BY <1>14, <1>20, <1>25
  <2>4. CheckOK(m)'
    BY <1>7, <1>19, <1>20, <2>3 DEF CheckOK, CheckTime
  <2> QED
    BY <2>2, <2>4
<1>30. ASSUME m \notin late' \cup refused'
       PROVE  LiveOK(m)'
  <2>1. Spared(m)'
    BY <1>3, <1>14, <1>16, <1>20, <1>25 DEF Spared, Fresh
  <2>2. Heralded(m)'
    BY <1>26, <1>30 DEF Heralded
  <2>3. Answered(m)'
    BY <1>26 DEF Answered
  <2> QED
    BY <2>1, <2>2, <2>3 DEF LiveOK
<1>31. MsgOK(m)'
  BY <1>7, <1>28, <1>29, <1>30 DEF MsgOK, BaseOK, Unsent
<1> QED
  BY <1>1, <1>7, <1>9, <1>22, <1>23, <1>24, <1>31 DEF StateOK

-----------------------------------------------------------------------------
\* Send: a full queue refuses the message, which stays unsent.
LEMMA SendRefusedOK ==
  ASSUME Inv, NEW m \in Message, plan[m] = Unsent,
         next_transmit' \in [Device -> Nat],
         refused' = refused \cup {m}, UNCHANGED <<events, queue, done, plan>>,
         UNCHANGED <<now, booked, expected, acked, nacked, retried, late, wait>>
  PROVE  StateOK' /\ Queued \subseteq Queued' /\ refused \subseteq refused'
<1>1. StateOK
  BY StateOfInv
<1>2. QueuesOK' /\ Queued' = Queued
  BY <1>1, StillQueues
<1>3. EventsOK'
  BY <1>1 DEF StateOK, EventsOK, EventOK, HopOK
<1>4. \A x \in Message : x # m => MsgOK(x)'
  BY <1>2, OthersOK
<1>5. Of(m)' = Of(m) /\ Waiting(m)' = Waiting(m)
  BY <1>2 DEF Of, Waiting
<1>6. MsgOK(m)'
  BY <1>1, <1>5 DEF StateOK, MsgOK, Fresh
<1> QED
  BY <1>1, <1>2, <1>3, <1>4, <1>6 DEF StateOK

\* Send: either way the invariant holds.
LEMMA SendOK ==
  ASSUME Inv, NEW m \in Message, Send(m)
  PROVE  /\ StateOK' /\ Queued \subseteq Queued' /\ refused \subseteq refused'
         /\ UNCHANGED <<now, retried, late, wait>>
<1>1. StateOK
  BY StateOfInv
<1>2. PICK d \in Device : d = Path[m][1]
  <2>1. 1 \in 1..Len(Path[m])
    BY Ways
  <2> QED
    BY <2>1, Ways
<1>3. PICK t \in Nat : t = now
  BY <1>1 DEF StateOK
<1>4. PICK b \in Nat : b = Backlog(d)
  BY <1>1, BacklogIs
<1>5. PICK free \in Nat : free = next_transmit[d]
  BY <1>1 DEF StateOK
<1>6. PICK estimate \in Nat : estimate = t + b + PacketDelay
  BY TimesAreInt
<1>7. PICK send \in Nat : /\ send = IF estimate >= free THEN estimate ELSE free
                          /\ estimate <= send
  OBVIOUS
<1>8. /\ plan[m] = Unsent /\ m \notin refused
      /\ next_transmit' = [next_transmit EXCEPT ![d] = send + Length + DataGap + 1]
      /\ plan' = [plan EXCEPT ![m] = IF ~Full(d) THEN send ELSE @]
      /\ ControlSend(m, "CTRL", 1, events \cup IF ~Full(d) THEN Planned(m, send) ELSE {}, refused)
      /\ UNCHANGED <<now, booked, expected, acked, nacked, retried, late, wait>>
  BY <1>2, <1>3, <1>4, <1>5, <1>6, <1>7 DEF Send, Planned
<1>9. next_transmit' \in [Device -> Nat]
  <2>1. send + Length + DataGap + 1 \in Nat
    BY TimesAreInt
  <2> QED
    BY <1>1, <1>8, <2>1 DEF StateOK
<1>10. CASE ~Full(d)
  <2>1. now + Backlog(Path[m][1]) + PacketDelay <= send
    BY <1>2, <1>3, <1>4, <1>6, <1>7
  <2>2. /\ plan' = [plan EXCEPT ![m] = send]
        /\ ControlSend(m, "CTRL", 1, events \cup Planned(m, send), refused)
    BY <1>8, <1>10
  <2> QED
    BY <1>2, <1>8, <1>9, <1>10, <2>1, <2>2, SendAcceptedOK
<1>11. CASE Full(d)
  <2>1. plan' = plan
    BY <1>1, <1>8, <1>11 DEF StateOK
  <2>2. Route("CTRL", m)[1] = d
    BY <1>2 DEF Route
  <2>3. refused' = refused \cup {m} /\ UNCHANGED <<events, queue, done>>
    <3>1. ControlSend(m, "CTRL", 1, events, refused)
      BY <1>8, <1>11
    <3> QED
      BY <1>11, <2>2, <3>1 DEF ControlSend
  <2> QED
    BY <1>8, <1>9, <2>1, <2>3, SendRefusedOK
<1> QED
  BY <1>10, <1>11

-----------------------------------------------------------------------------
\* The next message of the queue leaves: how the queues are left.
LEMMA NextLeaves ==
  ASSUME Inv, NEW d \in Device, done[d] = now, queue[d] # <<>>,
         queue' = [queue EXCEPT ![d] = Tail(@)], done' = [done EXCEPT ![d] = now + Busy],
         UNCHANGED <<now, plan>>
  PROVE  QueuesOK'
<1>1. StateOK
  BY StateOfInv
<1>2. /\ queue' \in [Device -> Seq(Entry)]
      /\ \A x \in Device : \A i \in DOMAIN queue'[x] :
           \/ x # d /\ i \in DOMAIN queue[x] /\ queue'[x][i] = queue[x][i]
           \/ /\ x = d /\ i \in Nat /\ i >= 1 /\ i + 1 \in DOMAIN queue[d]
              /\ queue'[x][i] = queue[d][i + 1]
      /\ Queued' \subseteq Queued
  BY TailStep DEF Inv
<1>3. PICK t \in Nat : t = now
  BY <1>1 DEF StateOK
<1>4. Busy \in Nat
  BY TurnsLemma
<1>5. /\ done' \in [Device -> Nat \cup {Idle}] /\ done'[d] = t + Busy
      /\ \A x \in Device : x # d => done'[x] = done[x]
  BY <1>1, <1>3, <1>4 DEF StateOK, QueuesOK
<1>6. \A x \in Device : done'[x] # Idle => now' <= done'[x] /\ done'[x] <= now' + Busy
  <2>1. t <= t + Busy
    BY <1>4
  <2> QED
    BY <1>1, <1>3, <1>4, <1>5, <2>1 DEF StateOK, QueuesOK
<1>7. LaneInv'
  <2> SUFFICES ASSUME NEW x \in Device, NEW i \in DOMAIN queue'[x]
               PROVE  /\ done'[x] # Idle
                      /\ ~Counts(queue'[x][i]) =>
                           done'[x] + Turns(i - 1) + Processing + PacketDelay
                             <= plan'[queue'[x][i].msg]
    BY DEF LaneInv, Counts
  <2>1. CASE x # d
    BY <1>2, <1>5, <2>1 DEF Inv, LaneInv
  <2>2. CASE x = d
    <3>1. i \in Nat /\ i >= 1 /\ i + 1 \in DOMAIN queue[d] /\ queue'[x][i] = queue[d][i + 1]
      BY <1>2, <2>2
    <3>2. t + Busy # Idle
      BY <1>4 DEF Idle
    <3>3. ASSUME ~Counts(queue[d][i + 1])
          PROVE  t + Busy + Turns(i - 1) + Processing + PacketDelay <= plan[queue[d][i + 1].msg]
      <4>1. PICK j \in Nat : j = i - 1
        BY <3>1
      <4>2. (i + 1) - 1 = j + 1
        BY <3>1, <4>1
      <4>3. done[d] + Turns(j + 1) + Processing + PacketDelay <= plan[queue[d][i + 1].msg]
        BY <3>1, <3>3, <4>2 DEF Inv, LaneInv
      <4>4. Turns(j) \in Nat /\ Turns(j + 1) = Turns(j) + Busy
        BY TurnsLemma
      <4>5. t + (Turns(j) + Busy) + Processing + PacketDelay <= plan[queue[d][i + 1].msg]
        BY <1>3, <4>3, <4>4
      <4>6. t + Busy + Turns(j) + Processing + PacketDelay
              = t + (Turns(j) + Busy) + Processing + PacketDelay
        BY <1>4, <4>4, TimesAreInt
      <4> QED
        BY <4>1, <4>5, <4>6
    <3> QED
      BY <1>5, <2>2, <3>1, <3>2, <3>3
  <2> QED
    BY <2>1, <2>2
<1>8. PlaceInv'
  <2> SUFFICES ASSUME NEW x \in Device, NEW y \in Device,
                      NEW i \in DOMAIN queue'[x], NEW j \in DOMAIN queue'[y],
                      queue'[x][i].type = "CTRL", queue'[y][j].type = "CTRL",
                      queue'[x][i].msg = queue'[y][j].msg
               PROVE  x = y /\ i = j
    BY DEF PlaceInv
  <2>1. CASE x # d /\ y # d
    BY <1>2, <2>1 DEF Inv, PlaceInv
  <2>2. CASE x # d /\ y = d
    BY <1>2, <2>2 DEF Inv, PlaceInv
  <2>3. CASE x = d /\ y # d
    BY <1>2, <2>3 DEF Inv, PlaceInv
  <2>4. CASE x = d /\ y = d
    <3>1. /\ i \in Nat /\ i + 1 \in DOMAIN queue[d] /\ queue'[d][i] = queue[d][i + 1]
          /\ j \in Nat /\ j + 1 \in DOMAIN queue[d] /\ queue'[d][j] = queue[d][j + 1]
      BY <1>2, <2>4
    <3>2. i + 1 = j + 1
      BY <2>4, <3>1 DEF Inv, PlaceInv
    <3> QED
      BY <2>4, <3>1, <3>2
  <2> QED
    BY <2>1, <2>2, <2>3, <2>4
<1>9. /\ \A c \in Queued' : HopOK(c.msg, c.hop)
      /\ \A c \in Queued' : c.since <= now
  BY <1>1, <1>2 DEF StateOK, QueuesOK
<1> QED
  BY <1>2, <1>5, <1>6, <1>7, <1>8, <1>9 DEF QueuesOK, HopOK

-----------------------------------------------------------------------------
\* Nothing is left to transmit.
LEMMA QueueEmptyOK ==
  ASSUME Inv, NEW d \in Device, done[d] = now, queue[d] = <<>>,
         done' = [done EXCEPT ![d] = Idle],
         UNCHANGED <<events, queue, wait, now, next_transmit, plan, booked, expected, acked,
                     nacked, retried, refused, late>>
  PROVE  StateOK' /\ Queued' = Queued
<1>1. StateOK
  BY StateOfInv
<1>2. Queued' = Queued
  BY DEF Queued
<1>3. done' \in [Device -> Nat \cup {Idle}] /\ \A x \in Device : done'[x] = Idle \/ done'[x] = done[x]
  BY <1>1 DEF StateOK, QueuesOK
<1>4. LaneInv'
  <2> SUFFICES ASSUME NEW x \in Device, NEW i \in DOMAIN queue'[x]
               PROVE  /\ done'[x] # Idle
                      /\ ~Counts(queue'[x][i]) =>
                           done'[x] + Turns(i - 1) + Processing + PacketDelay
                             <= plan'[queue'[x][i].msg]
    BY DEF LaneInv, Counts
  <2>1. x # d
    OBVIOUS
  <2>2. done'[x] = done[x]
    BY <1>1, <2>1 DEF StateOK, QueuesOK
  <2> QED
    BY <2>2 DEF Inv, LaneInv
<1>5. PlaceInv'
  BY DEF Inv, PlaceInv
<1>6. QueuesOK'
  BY <1>1, <1>2, <1>3, <1>4, <1>5 DEF StateOK, QueuesOK
<1>7. EventsOK'
  BY <1>1 DEF StateOK, EventsOK, EventOK, HopOK
<1>8. ASSUME NEW m \in Message
      PROVE  MsgOK(m)'
  <2>1. Untouched(m)
    BY <1>2 DEF Untouched, Of, Waiting
  <2> QED
    BY <1>1, <2>1, UntouchedOK DEF StateOK
<1> QED
  BY <1>1, <1>2, <1>6, <1>7, <1>8 DEF StateOK

-----------------------------------------------------------------------------
\* The head of a queue leaves, and what it has waited is counted.
Leaves(d, c) ==
  /\ done[d] = now /\ queue[d] # <<>> /\ c = Head(queue[d])
  /\ done' = [done EXCEPT ![d] = now + Busy]
  /\ queue' = [queue EXCEPT ![d] = Tail(@)]
  /\ events' = events \cup {Received(c.msg, c.type, c.hop)}
  /\ wait' = [wait EXCEPT ![<<c.msg, c.type>>] = IF Counts(c) THEN @ + (now - c.since) ELSE @]
  /\ UNCHANGED <<now, next_transmit, plan, booked, expected, acked, nacked, retried,
                 refused, late>>

\* What leaves, and what stays.
LEMMA HeadIs ==
  ASSUME Inv, NEW d \in Device, NEW c, Leaves(d, c)
  PROVE  /\ c \in Queued /\ c.msg \in Message /\ c.type \in Type /\ c.hop \in Nat /\ c.since \in Nat
         /\ HopOK(c.msg, c.hop) /\ c.since <= now
         /\ 1 \in DOMAIN queue[d] /\ c = queue[d][1]
         /\ Queued' \subseteq Queued /\ \A f \in Queued : f \in Queued' \/ f = c
         /\ c.type = "CTRL" => \A f \in Queued' : f.msg = c.msg => f.type # "CTRL"
<1>1. queue' = [queue EXCEPT ![d] = Tail(@)] /\ queue[d] # <<>> /\ c = Head(queue[d])
  BY DEF Leaves
<1>2. /\ \A x \in Device : \A i \in DOMAIN queue'[x] :
           \/ x # d /\ i \in DOMAIN queue[x] /\ queue'[x][i] = queue[x][i]
           \/ /\ x = d /\ i \in Nat /\ i >= 1 /\ i + 1 \in DOMAIN queue[d]
              /\ queue'[x][i] = queue[d][i + 1]
      /\ 1 \in DOMAIN queue[d] /\ c = queue[d][1]
      /\ Queued' \subseteq Queued /\ c \in Queued
      /\ \A f \in Queued : f \in Queued' \/ f = c
  BY <1>1, TailStep DEF Inv
<1>3. /\ c.msg \in Message /\ c.type \in Type /\ c.hop \in Nat /\ c.since \in Nat
      /\ HopOK(c.msg, c.hop) /\ c.since <= now
  BY <1>2, EntryFields DEF Inv, TimeInv
<1>4. ASSUME c.type = "CTRL", NEW f \in Queued', f.msg = c.msg, f.type = "CTRL"
      PROVE  FALSE
  <2>1. PICK x \in Device : \E i \in DOMAIN queue'[x] : queue'[x][i] = f
    BY DEF Queued
  <2>2. PICK i \in DOMAIN queue'[x] : queue'[x][i] = f
    BY <2>1
  <2>3. CASE x # d /\ i \in DOMAIN queue[x] /\ queue'[x][i] = queue[x][i]
    BY <1>2, <1>4, <2>2, <2>3 DEF Inv, PlaceInv
  <2>4. CASE /\ x = d /\ i \in Nat /\ i >= 1 /\ i + 1 \in DOMAIN queue[d]
             /\ queue'[x][i] = queue[d][i + 1]
    <3>1. i + 1 = 1
      BY <1>2, <1>4, <2>2, <2>4 DEF Inv, PlaceInv
    <3> QED
      BY <2>4, <3>1
  <2> QED
    BY <1>2, <2>3, <2>4
<1> QED
  BY <1>2, <1>3, <1>4

\* Only the wait of what leaves grows.
LEMMA WaitStep ==
  ASSUME Inv, NEW d \in Device, NEW c, Leaves(d, c)
  PROVE  /\ wait' \in [Message \X Type -> Nat]
         /\ \A m \in Message, type \in Type :
              /\ wait[m, type] <= wait'[m, type]
              /\ m # c.msg \/ type # c.type \/ ~Counts(c) => wait'[m, type] = wait[m, type]
         /\ Counts(c) => wait'[c.msg, c.type] = wait[c.msg, c.type] + (now - c.since)
<1>1. wait \in [Message \X Type -> Nat]
  BY DEF Inv, TypeInv
<1>2. PICK x \in Message, ty \in Type, since \in Nat : x = c.msg /\ ty = c.type /\ since = c.since
  BY HeadIs
<1>3. PICK t \in Nat : t = now /\ since <= t
  BY <1>2, HeadIs DEF Inv, TypeInv
<1>4. PICK delta \in Nat : delta = IF Counts(c) THEN t - since ELSE 0
  <2>1. t - since \in Nat
    BY <1>3
  <2> QED
    BY <2>1
<1>5. PICK w \in Nat : w = wait[<<x, ty>>]
  BY <1>1
<1>6. wait' = [wait EXCEPT ![<<x, ty>>] = w + delta]
  <2>1. wait' = [wait EXCEPT ![<<x, ty>>] = IF Counts(c) THEN w + (t - since) ELSE w]
    BY <1>1, <1>2, <1>3, <1>5 DEF Leaves
  <2>2. w + delta = IF Counts(c) THEN w + (t - since) ELSE w
    BY <1>3, <1>4
  <2> QED
    BY <2>1, <2>2
<1>7. wait' \in [Message \X Type -> Nat]
  BY <1>1, <1>6
<1>8. wait'[<<x, ty>>] = w + delta
  BY <1>1, <1>6
<1>9. \A m \in Message, type \in Type :
        <<m, type>> # <<x, ty>> => wait'[<<m, type>>] = wait[<<m, type>>]
  BY <1>1, <1>6
<1>10. ASSUME NEW m \in Message, NEW type \in Type
       PROVE  /\ wait[m, type] <= wait'[m, type]
              /\ m # c.msg \/ type # c.type \/ ~Counts(c) => wait'[m, type] = wait[m, type]
  <2>1. CASE m = x /\ type = ty
    <3>1. w <= w + delta
      OBVIOUS
    <3>2. ~Counts(c) => w + delta = w
      BY <1>4
    <3> QED
      BY <1>2, <1>5, <1>8, <2>1, <3>1, <3>2
  <2>2. CASE m # x \/ type # ty
    <3>1. wait'[m, type] = wait[m, type]
      BY <1>9, <2>2
    <3>2. PICK k \in Nat : k = wait[m, type]
      BY <1>1
    <3>3. wait'[m, type] = k
      BY <3>1, <3>2
    <3>4. k <= k
      OBVIOUS
    <3>5. wait[m, type] <= wait'[m, type]
      BY <3>2, <3>3, <3>4
    <3> QED
      BY <3>1, <3>5
  <2> QED
    BY <2>1, <2>2
<1>11. Counts(c) => wait'[c.msg, c.type] = wait[c.msg, c.type] + (now - c.since)
  BY <1>2, <1>3, <1>4, <1>5, <1>8
<1> QED
  BY <1>7, <1>10, <1>11

\* What a message has waited is not forgotten when it leaves.
LEMMA LeavesKept ==
  ASSUME Inv, NEW d \in Device, NEW c, Leaves(d, c),
         NEW m \in Message, NEW type \in Type, NEW span \in Int, WaitedMoreThan(m, type, span)
  PROVE  WaitedMoreThan(m, type, span)'
<1>1. PICK w \in Nat, v \in Nat : w = wait[m, type] /\ v = wait'[m, type]
  BY WaitStep DEF Inv, TypeInv
<1>2. w <= v
  BY <1>1, WaitStep
<1>3. CASE v > span
  BY <1>1, <1>3 DEF WaitedMoreThan
<1>4. CASE ~(v > span)
  <2>1. ~(w > span)
    BY <1>2, <1>4
  <2>2. PICK f \in Queued : /\ f.msg = m /\ f.type = type /\ Counts(f)
                            /\ w + (now - f.since) > span
    BY <1>1, <2>1, WaitIs
  <2>3. PICK since \in Nat : since = f.since
    BY EntryFields DEF Inv
  <2>4. PICK t \in Nat : t = now
    BY DEF Inv, TypeInv
  <2>5. w + (t - since) > span
    BY <2>2, <2>3, <2>4
  <2>6. f # c
    <3>1. SUFFICES ASSUME f = c PROVE FALSE
      OBVIOUS
    <3>2. v = w + (t - since)
      BY <1>1, <2>2, <2>3, <2>4, <3>1, WaitStep
    <3> QED
      BY <1>4, <2>5, <3>2
  <2>7. PICK x \in Device : \E i \in DOMAIN queue'[x] : queue'[x][i] = f
    <3>1. f \in Queued'
      BY <2>6, HeadIs
    <3> QED
      BY <3>1 DEF Queued
  <2>8. v + (t - since) > span
    BY <1>2, <2>5
  <2>9. now' = t
    BY <2>4 DEF Leaves
  <2> QED
    BY ZenonT(20), <1>1, <2>2, <2>3, <2>7, <2>8, <2>9 DEF WaitedMoreThan, Counts
<1> QED
  BY <1>3, <1>4

-----------------------------------------------------------------------------
\* What it has waited covers its delay.
LEMMA LeavesOK ==
  ASSUME Inv, NEW d \in Device, NEW c, Leaves(d, c)
  PROVE  StateOK'
<1>1. StateOK
  BY StateOfInv
<1>2. QueuesOK'
  BY NextLeaves DEF Leaves
<1>3. PICK x \in Message : x = c.msg
  BY HeadIs
<1>4. PICK n \in Nat : n = Len(Path[x]) /\ n >= 2
  BY WayLen
<1>5. PICK type \in Type : type = c.type
  BY HeadIs
<1>6. PICK h \in 1..n : h = c.hop
  BY <1>3, <1>4, HeadIs DEF HopOK
<1>7. PICK since \in Nat : since = c.since
  BY HeadIs
<1>8. PICK t \in Nat : t = now
  BY <1>1 DEF StateOK
<1>9. since <= t
  BY <1>7, <1>8, HeadIs
<1>10. PICK l \in Nat : l = Delay[Route(type, x)[h]]
  <2>1. HopOK(x, h)
    BY <1>4 DEF HopOK
  <2> QED
    BY <2>1, RouteDevice
<1>11. PICK r : r = Received(x, type, h)
  OBVIOUS
<1>12. /\ r \in Event /\ EventOK(r) /\ r.fn = "Receive" /\ r.msg = x /\ r.type = type
       /\ r.hop = h /\ r.at = t + Processing + Tx + l /\ now <= r.at
  <2>1. HopOK(x, h) /\ now \in Nat
    BY <1>4, <1>8 DEF HopOK
  <2> QED
    BY <1>8, <1>10, <1>11, <2>1, ReceivedIs
<1>13. /\ events' = events \cup {r}
       /\ UNCHANGED <<now, next_transmit, plan, booked, expected, acked, nacked, retried,
                      refused, late>>
  BY <1>3, <1>5, <1>6, <1>11 DEF Leaves
<1>14. /\ c \in Queued /\ Queued' \subseteq Queued
       /\ \A f \in Queued : f \in Queued' \/ f = c
       /\ type = "CTRL" => \A f \in Queued' : f.msg = x => f.type # "CTRL"
  BY <1>3, <1>5, HeadIs
<1>15. EventsOK'
  BY <1>1, <1>12, <1>13 DEF StateOK, EventsOK, EventOK, HopOK
<1>16. wait' \in [Message \X Type -> Nat]
  BY WaitStep
<1>17. ASSUME NEW m \in Message, m # x
       PROVE  MsgOK(m)'
  <2>1. Of(m)' = Of(m)
    BY <1>12, <1>13, <1>17 DEF Of
  <2>2. Waiting(m)' = Waiting(m)
    BY <1>3, <1>14, <1>17 DEF Waiting
  <2>3. \A k \in Type : wait'[m, k] = wait[m, k]
    BY ZenonT(20), <1>3, <1>17, WaitStep
  <2>4. Untouched(m)
    BY <1>13, <2>1, <2>2, <2>3 DEF Untouched
  <2> QED
    BY <1>1, <2>4, UntouchedOK DEF StateOK
<1>18. c \in Waiting(x)
  BY <1>3, <1>14 DEF Waiting
<1>19. plan[x] # Unsent /\ BaseOK(x) /\ (x \notin late \cup refused => LiveOK(x))
  BY <1>1, <1>18, SentHasEvents DEF StateOK
<1>20. /\ Of(x)' = Of(x) \cup {r} /\ Waiting(x)' \subseteq Waiting(x)
       /\ \A f \in Waiting(x) : f \in Waiting(x)' \/ f = c
       /\ Bursts(x)' = Bursts(x)
  <2>1. Of(x)' = Of(x) \cup {r}
    BY <1>12, <1>13 DEF Of
  <2>2. /\ Waiting(x)' \subseteq Waiting(x)
        /\ \A f \in Waiting(x) : f \in Waiting(x)' \/ f = c
    BY <1>14 DEF Waiting
  <2> QED
    BY <1>12, <2>1, <2>2 DEF Bursts
<1>21. BaseOK(x)'
  <2>1. CASE type # "CTRL"
    <3>1. wait'[x, "CTRL"] = wait[x, "CTRL"]
      BY <1>3, <1>5, <2>1, WaitStep DEF Type
    <3> QED
      BY <1>5, <1>12, <1>13, <1>19, <1>20, <2>1, <3>1, BaseKept
  <2>2. CASE type = "CTRL"
    <3>1. c \in HeraldEntries(x) /\ HeraldOK(x)
      BY <1>5, <1>18, <1>19, <2>2 DEF HeraldEntries, BaseOK
    <3>2. HeraldEvents(x) = {} /\ h = booked[x] + 1
      BY <1>6, <3>1 DEF HeraldOK
    <3>3. HeraldEvents(x)' = {r} /\ HeraldEntries(x)' = {}
      <4>1. HeraldEvents(x)' = {r}
        BY <1>12, <1>20, <2>2, <3>2 DEF HeraldEvents
      <4>2. \A f \in Waiting(x)' : f.type # "CTRL"
        BY <1>14, <2>2 DEF Waiting
      <4> QED
        BY <4>1, <4>2 DEF HeraldEntries
    <3>4. PICK w \in Nat, v \in Nat : w = wait[x, "CTRL"] /\ v = wait'[x, "CTRL"]
      BY <1>1, <1>16 DEF StateOK, Type
    <3>5. w <= v
      BY <3>4, WaitStep DEF Type
    <3>6. l = Delay[Path[x][h]]
      BY <1>10, <2>2 DEF Route
    <3>7. PICK due \in Int : due = CtrlDue(x, h)
      <4>1. h \in 1..Len(Path[x])
        BY <1>4
      <4> QED
        BY <4>1, DuesAreInt DEF Inv
    <3>8. t + Processing + Tx + l <= due + v
      <4>1. CASE Counts(c)
        <5>1. PICK g \in 1..(n - 1) : g = h - 1 /\ h = g + 1
          <6>1. h # 1
            BY <1>5, <1>6, <2>2, <4>1 DEF Counts
          <6> QED
            BY <6>1
        <5>2. PICK before \in Int : before = CtrlDue(x, g)
          <6>1. g \in 1..Len(Path[x])
            BY <1>4
          <6> QED
            BY <6>1, DuesAreInt DEF Inv
        <5>3. since <= before + w
          <6>1. c.since <= CtrlDue(x, c.hop - 1) + wait[x, "CTRL"]
            BY <3>1, <4>1 DEF HeraldOK
          <6> QED
            BY <1>6, <1>7, <3>4, <5>1, <5>2, <6>1
        <5>4. due = before + Processing + Tx + l
          <6>1. g \in 0..(Len(Path[x]) - 1) /\ g > 0
            BY <1>4
          <6> QED
            BY <1>1, <3>6, <3>7, <5>1, <5>2, <6>1, NextStop
        <5>5. v = w + (t - since)
          BY <1>3, <1>5, <1>7, <1>8, <2>2, <3>4, <4>1, WaitStep
        <5> QED
          BY <5>3, <5>4, <5>5, TimesAreInt
      <4>2. CASE ~Counts(c)
        <5>1. h = 1
          BY <1>6, <4>2 DEF Counts
        <5>2. PICK p \in Int : p = plan[x]
          BY <1>1 DEF StateOK, Unsent
        <5>3. t + Processing + PacketDelay <= p
          <6>1. 1 \in DOMAIN queue[d] /\ c = queue[d][1] /\ done[d] = now
            BY HeadIs DEF Leaves
          <6>2. done[d] + Turns(1 - 1) + Processing + PacketDelay <= plan[x]
            BY <1>3, <4>2, <6>1 DEF Inv, LaneInv
          <6>3. Turns(1 - 1) = 0
            BY TurnsLemma
          <6> QED
            BY <1>8, <5>2, <6>1, <6>2, <6>3, TimesAreInt
        <5>4. due = p - PacketDelay + Tx + l
          <6>1. Reach[x][1] = Reach[x][1 - 1] + Delay[Path[x][1]] /\ Reach[x][0] = 0 /\ 1 - 1 = 0
            <7>1. 1 \in 1..Len(Path[x])
              BY <1>4
            <7> QED
              BY <7>1, Ways
          <6>2. Reach[x][1] = l
            BY <3>6, <5>1, <6>1
          <6>3. Stops(1 - 1) = 0
            BY StopsLemma
          <6> QED
            BY <3>7, <5>1, <5>2, <6>2, <6>3, TimesAreInt DEF CtrlDue
        <5> QED
          BY <5>3, <5>4, TimesAreInt
      <4> QED
        BY <4>1, <4>2
    <3>9. r.fn = "Receive" /\ r.hop = booked'[x] + 1
      BY <1>12, <1>13, <3>2
    <3>10. r.at <= CtrlDue(x, r.hop)' + wait'[x, "CTRL"]
      <4>1. CtrlDue(x, h)' = due
        BY <1>13, <3>7, DuesSame
      <4> QED
        BY <1>12, <3>4, <3>8, <4>1
    <3>11. HeraldOK(x)'
      <4>1. x \in expected' => booked'[x] = Len(Path[x]) - 1
        BY <1>13, <3>1 DEF HeraldOK
      <4> QED
        BY <3>3, <3>9, <3>10, <4>1 DEF HeraldOK
    <3>12. BurstOK(x)' /\ CheckOK(x)'
      <4>1. \A k : HeadDue(x, k)' = HeadDue(x, k)
        BY <1>13, DuesSame
      <4> QED
        BY <1>12, <1>13, <1>19, <1>20, <4>1 DEF BaseOK, BurstOK, CheckOK, CheckTime
    <3> QED
      BY <3>11, <3>12 DEF BaseOK
  <2> QED
    BY <2>1, <2>2
<1>22. ASSUME x \notin late' \cup refused'
       PROVE  LiveOK(x)'
  <2>1. LiveOK(x)
    BY <1>13, <1>19, <1>22
  <2>2. type \in {"CTRL", "AWK"}
    BY <1>5, <1>18, <2>1 DEF LiveOK, Spared, Type
  <2>3. Spared(x)'
    BY <1>12, <1>13, <1>20, <2>1, <2>2 DEF LiveOK, Spared
  <2>4. Heralded(x)'
    <3>1. CASE type = "CTRL"
      <4>1. r \in HeraldEvents(x)'
        BY <1>12, <1>20, <3>1 DEF HeraldEvents
      <4> QED
        BY <4>1 DEF Heralded
    <3>2. CASE type = "AWK"
      <4>1. HeraldEvents(x) \subseteq HeraldEvents(x)' /\ HeraldEntries(x) \subseteq HeraldEntries(x)'
        BY <1>5, <1>20, <3>2 DEF HeraldEvents, HeraldEntries
      <4> QED
        BY <1>13, <1>20, <2>1, <4>1 DEF LiveOK, Heralded
    <3> QED
      BY <2>2, <3>1, <3>2
  <2>5. Answered(x) => Answered(x)'
    <3>1. CASE type = "CTRL"
      <4>1. wait'[x, "AWK"] = wait[x, "AWK"]
        BY <1>5, <3>1, WaitStep DEF Type
      <4> QED
        BY <1>5, <1>13, <1>20, <3>1, <4>1, AnsweredKept
    <3>2. CASE type = "AWK"
      <4>1. PICK w \in Nat, v \in Nat : w = wait[x, "AWK"] /\ v = wait'[x, "AWK"]
        BY <1>1, <1>16 DEF StateOK, Type
      <4>2. w <= v
        BY <4>1, WaitStep DEF Type
      <4>3. v = w + (t - since)
        <5>1. Counts(c)
          BY <1>5, <3>2 DEF Counts
        <5> QED
          BY <1>3, <1>5, <1>7, <1>8, <3>2, <4>1, <5>1, WaitStep
      <4>4. \A k : AnswerDue(x, k)' = AnswerDue(x, k)
        BY <1>13, DuesSame
      <4>5. \A k \in 0..n : AnswerDue(x, k) \in Int
        BY <1>4, DuesAreInt DEF Inv
      <4>6. CASE c.since <= AnswerDue(x, c.hop - 1) + w
        <5>1. PICK g \in 0..(n - 1) : g = h - 1 /\ h = g + 1
          OBVIOUS
        <5>2. PICK before \in Int : before = AnswerDue(x, g)
          BY <4>5, <5>1
        <5>3. since <= before + w
          BY <1>6, <1>7, <4>6, <5>1, <5>2
        <5>4. l = Delay[Back[x][h]]
          BY <1>10, <3>2 DEF Route
        <5>5. AnswerDue(x, h) = before + Processing + Tx + l
          <6>1. g \in 0..(Len(Path[x]) - 1)
            BY <1>4
          <6> QED
            BY <1>1, <5>1, <5>2, <5>4, <6>1, NextStop
        <5>6. t + Processing + Tx + l <= before + Processing + Tx + l + v
          BY <4>3, <5>3, TimesAreInt
        <5>7. r.at <= AnswerDue(x, r.hop) + v
          BY <1>12, <5>5, <5>6
        <5>8. r \in Of(x)'
          BY <1>20
        <5> QED
          BY <1>12, <3>2, <4>1, <4>4, <5>7, <5>8 DEF Answered
      <4>7. CASE ~(c.since <= AnswerDue(x, c.hop - 1) + w)
        <5>1. ASSUME NEW e \in Of(x), e.fn = "Receive", e.type = "AWK",
                     e.at <= AnswerDue(x, e.hop) + w
              PROVE  e.at <= AnswerDue(x, e.hop) + v
          <6>1. e \in events /\ e.msg = x
            BY DEF Of
          <6>2. PICK at \in Nat, k \in 0..n : at = e.at /\ k = e.hop
            <7>1. HopOK(x, e.hop) /\ e.at \in Nat
              BY <5>1, <6>1, EventFields DEF Inv, EventOK
            <7> QED
              BY <1>4, <7>1 DEF HopOK
          <6> QED
            BY <4>2, <4>5, <5>1, <6>2
        <5>2. ASSUME NEW e \in Waiting(x), e.type = "AWK", e.since <= AnswerDue(x, e.hop - 1) + w
              PROVE  e \in Waiting(x)' /\ e.since <= AnswerDue(x, e.hop - 1) + v
          <6>1. e \in Queued /\ e.msg = x
            BY DEF Waiting
          <6>2. PICK at \in Nat, k \in 0..n : at = e.since /\ k = e.hop - 1
            <7>1. HopOK(x, e.hop) /\ e.since \in Nat
              BY <6>1, EntryFields DEF Inv
            <7> QED
              BY <1>4, <7>1 DEF HopOK
          <6>3. e \in Waiting(x)'
            BY <1>20, <4>7, <5>2
          <6>4. e.since <= AnswerDue(x, e.hop - 1) + v
            BY <4>2, <4>5, <5>2, <6>2
          <6> QED
            BY <6>3, <6>4
        <5>3. Of(x) \subseteq Of(x)'
          BY <1>20
        <5>4. Bursts(x)' = Bursts(x) /\ acked' = acked
          BY <1>13, <1>20
        <5> QED
          BY <4>1, <4>4, <5>1, <5>2, <5>3, <5>4 DEF Answered
      <4> QED
        BY <4>6, <4>7
    <3> QED
      BY <2>2, <3>1, <3>2
  <2> QED
    BY <1>13, <2>1, <2>3, <2>4, <2>5 DEF LiveOK
<1>23. MsgOK(x)'
  BY <1>13, <1>19, <1>21, <1>22 DEF MsgOK
<1> QED
  BY <1>1, <1>2, <1>13, <1>15, <1>16, <1>17, <1>23 DEF StateOK

-----------------------------------------------------------------------------
RetrySpan(m) ==
  Margin(m) + Processing + TotalPropagation - Flight(m) - Return[m][Len(Back[m])]

\* Both spans are numbers.
LEMMA SpansAreInt ==
  ASSUME NEW m \in Message
  PROVE  Margin(m) \in Int /\ RetrySpan(m) \in Int
<1>1. Len(Back[m]) \in 0..Len(Path[m])
  BY Ways
<1>2. Return[m][Len(Back[m])] \in Nat
  BY <1>1, Ways
<1> QED
  BY SMTT(20), <1>2, FlightIs, TimesAreInt DEF RetrySpan

\* Both properties survive a step that forgets no wait and gives reasons.
LEMMA ReasonsKept ==
  ASSUME Inv, refused \subseteq refused', late \subseteq late',
         \A m \in Message, type \in Type, span \in Int :
           WaitedMoreThan(m, type, span) => WaitedMoreThan(m, type, span)',
         late' \cup retried' \subseteq Message,
         \A m \in late' \ (late \cup refused) : WaitedMoreThan(m, "CTRL", Margin(m)),
         \A m \in retried' \ (retried \cup late \cup refused) :
           WaitedMoreThan(m, "AWK", RetrySpan(m))
  PROVE  LateOnlyIfWaited' /\ RetryOnlyIfWaited'
<1>1. ASSUME NEW m \in late' \ refused'
      PROVE  WaitedMoreThan(m, "CTRL", Margin(m))'
  <2>1. m \in Message /\ Margin(m) \in Int /\ "CTRL" \in Type
    BY SpansAreInt DEF Type
  <2>2. WaitedMoreThan(m, "CTRL", Margin(m))
    BY <2>1 DEF Inv, LateOnlyIfWaited
  <2> QED
    BY <2>1, <2>2
<1>2. ASSUME NEW m \in retried' \ (late' \cup refused')
      PROVE  WaitedMoreThan(m, "AWK", RetrySpan(m))'
  <2>1. m \in Message /\ RetrySpan(m) \in Int /\ "AWK" \in Type
    BY SpansAreInt DEF Type
  <2>2. WaitedMoreThan(m, "AWK", RetrySpan(m))
    BY <2>1 DEF Inv, RetryOnlyIfWaited, RetrySpan
  <2> QED
    BY <2>1, <2>2
<1> QED
  BY <1>1, <1>2 DEF LateOnlyIfWaited, RetryOnlyIfWaited, RetrySpan

\* What the event the simulator runs does.
LEMMA RunOK ==
  ASSUME Inv, NEW e \in events, Run(e)
  PROVE  /\ StateOK' /\ Queued \subseteq Queued' /\ refused \subseteq refused'
         /\ late \subseteq late'
         /\ \A m \in late' \ (late \cup refused) : WaitedMoreThan(m, "CTRL", Margin(m))
         /\ \A m \in retried' \ (retried \cup late \cup refused) :
              WaitedMoreThan(m, "AWK", RetrySpan(m))
<1>1. e.at = now /\ UNCHANGED <<now, next_transmit, plan, wait>>
  BY DEF Run
<1>2. PICK x \in Message : x = e.msg
  BY EventFields DEF Inv
<1>3. CASE ReceiveAtSwitch(e)
  <2>1. CASE e.type # "CTRL"
    BY <1>1, <1>3, <2>1, SwitchAnswersOK
  <2>2. CASE e.type = "CTRL"
    <3>1. /\ e.fn = "Receive" /\ e.hop < Len(Path[x])
          /\ UNCHANGED <<expected, acked, nacked, retried, late>>
      BY <1>2, <1>3 DEF ReceiveAtSwitch
    <3>2. PICK fits \in {TRUE, ~Refusing} :
            /\ booked' = IF fits THEN [booked EXCEPT ![x] = e.hop] ELSE booked
            /\ IF fits /\ ~Full(Path[x][e.hop + 1])
               THEN ControlSend(x, "CTRL", e.hop + 1, events \ {e}, refused)
               ELSE ControlSend(x, "NACK", Len(Path[x]) + 1 - e.hop, events \ {e}, refused \cup {x})
      BY <1>2, <1>3, <2>2 DEF ReceiveAtSwitch
    <3>3. CASE fits /\ ~Full(Path[x][e.hop + 1])
      <4>1. /\ booked' = [booked EXCEPT ![x] = e.hop]
            /\ ControlSend(x, "CTRL", e.hop + 1, events \ {e}, refused)
        BY <3>2, <3>3
      <4>2. StateOK' /\ Queued \subseteq Queued' /\ refused \subseteq refused'
        BY <1>1, <1>2, <2>2, <3>1, <4>1, SwitchForwardsOK
      <4> QED
        BY <3>1, <4>2
    <3>4. CASE ~(fits /\ ~Full(Path[x][e.hop + 1]))
      <4>1. ControlSend(x, "NACK", Len(Path[x]) + 1 - e.hop, events \ {e}, refused \cup {x})
        BY <3>2, <3>4
      <4>2. StateOK' /\ Queued \subseteq Queued' /\ refused \subseteq refused'
        BY <1>1, <1>2, <2>2, <3>1, <3>2, <4>1, SwitchRefusesOK
      <4> QED
        BY <3>1, <4>2
    <3> QED
      BY <3>3, <3>4
  <2> QED
    BY <2>1, <2>2
<1>4. CASE ReceiveAtEndpoint(e)
  <2>1. StateOK' /\ Queued' = Queued
    BY <1>1, <1>4, ReceiveCTRLOK, ReceiveAnswerOK
  <2> QED
    BY <1>4, <2>1 DEF ReceiveAtEndpoint
<1>5. CASE UpdateReceived(e)
  <2>1. StateOK' /\ Queued' = Queued
    BY <1>1, <1>5, UpdateReceivedOK
  <2> QED
    BY <1>5, <2>1 DEF UpdateReceived
<1>6. CASE BurstPasses(e)
  <2>1. /\ StateOK' /\ Queued' = Queued /\ UNCHANGED retried
        /\ \A m \in late' : m \in late \/ m \in refused \/ WaitedMoreThan(m, "CTRL", Margin(m))
    BY <1>1, <1>6, BurstPassesOK
  <2>2. late \subseteq late' /\ refused' = refused
    BY <1>6 DEF BurstPasses
  <2> QED
    BY <2>1, <2>2
<1>7. CASE BurstArrives(e)
  BY <1>1, <1>7, BurstArrivesOK
<1>8. CASE SendCTRL(e)
  BY <1>1, <1>8, SendCTRLOK
<1>9. CASE CheckSent(e)
  <2>1. StateOK' /\ Queued' = Queued
    BY <1>1, <1>9, CheckSentOK
  <2>2. /\ retried' = IF x \in acked THEN retried ELSE retried \cup {x}
        /\ UNCHANGED <<refused, late>> /\ e.fn = "CheckSent"
    BY <1>2, <1>9 DEF CheckSent
  <2>3. ASSUME x \notin acked, x \notin retried \cup late \cup refused
        PROVE  WaitedMoreThan(x, "AWK", RetrySpan(x))
    <3>1. e \in Of(x)
      BY <1>2 DEF Of
    <3>2. plan[x] # Unsent /\ BaseOK(x) /\ LiveOK(x)
      BY <2>3, <3>1, SentHasEvents DEF Inv
    <3>3. now = CheckTime(plan[x])
      BY <1>1, <2>2, <3>1, <3>2 DEF BaseOK, CheckOK
    <3>4. Answered(x) /\ BurstOK(x)
      BY <2>3, <3>2 DEF LiveOK, BaseOK
    <3> QED
      BY <2>3, <3>3, <3>4, RetryReason DEF RetrySpan
  <2> QED
    BY <2>1, <2>2, <2>3
<1> QED
  BY <1>3, <1>4, <1>5, <1>6, <1>7, <1>8, <1>9 DEF Run

\* The clock jumps to the next instant something is scheduled for.
LEMMA TickOK ==
  ASSUME Inv, Tick
  PROVE  StateOK' /\ Queued' = Queued /\ now <= now' /\ now' \in Nat
<1>1. StateOK
  BY StateOfInv
<1>2. Instants \subseteq Nat
  <2>1. \A e \in events : e.at \in Nat
    BY EventFields DEF Inv
  <2>2. \A d \in {x \in Device : done[x] # Idle} : done[d] \in Nat
    BY <1>1 DEF StateOK, QueuesOK
  <2> QED
    BY <2>1, <2>2, PathAssumption DEF Instants
<1>3. PICK a \in Instants : \A b \in Instants : a <= b
  BY <1>2, SetHasMin DEF Tick
<1>4. Min(Instants) \in Instants /\ \A b \in Instants : Min(Instants) <= b
  BY <1>3 DEF Min
<1>5. /\ now' \in Instants /\ now' \in Nat /\ now < now'
      /\ \A b \in Instants : now' <= b
  BY <1>2, <1>4 DEF Tick
<1>6. PICK t \in Nat : t = now
  BY <1>1 DEF StateOK
<1>7. PICK u \in Nat : u = now' /\ t <= u
  BY <1>5, <1>6
<1>8. /\ UNCHANGED <<events, queue, done, next_transmit, plan, booked, expected, acked,
                     nacked, retried, refused, late, wait>>
      /\ Queued' = Queued
  BY DEF Tick, Queued
<1>9. EventsOK'
  <2>1. \A e \in events : now' <= e.at
    BY <1>5 DEF Instants
  <2> QED
    BY <1>1, <1>8, <2>1 DEF StateOK, EventsOK, EventOK, HopOK
<1>10. QueuesOK'
  <2>1. LaneInv' /\ PlaceInv'
    BY <1>8 DEF Inv, LaneInv, PlaceInv, Counts
  <2>2. \A d \in Device : done[d] # Idle => now' <= done[d] /\ done[d] <= now' + Busy
    <3> SUFFICES ASSUME NEW d \in Device, done[d] # Idle
                 PROVE  now' <= done[d] /\ done[d] <= now' + Busy
      OBVIOUS
    <3>1. now' <= done[d]
      BY <1>5 DEF Instants
    <3>2. PICK f \in Nat, b \in Nat : f = done[d] /\ b = Busy
      BY <1>1, TurnsLemma DEF StateOK, QueuesOK
    <3>3. f <= t + b
      BY <1>1, <1>6, <3>2 DEF StateOK, QueuesOK
    <3> QED
      BY <1>7, <3>1, <3>2, <3>3
  <2>3. \A c \in Queued : c.since <= now'
    <3> SUFFICES ASSUME NEW c \in Queued PROVE c.since <= now'
      OBVIOUS
    <3>1. PICK since \in Nat : since = c.since
      BY EntryFields DEF Inv
    <3>2. since <= t
      BY <1>6, <3>1 DEF Inv, TimeInv
    <3> QED
      BY <1>7, <3>1, <3>2
  <2> QED
    BY <1>1, <1>8, <2>1, <2>2, <2>3 DEF StateOK, QueuesOK
<1>11. ASSUME NEW m \in Message
       PROVE  MsgOK(m)'
  <2>1. Untouched(m)
    BY <1>8 DEF Untouched, Of, Waiting
  <2> QED
    BY <1>1, <2>1, UntouchedOK DEF StateOK
<1>12. now <= now'
  BY <1>6, <1>7
<1> QED
  BY <1>1, <1>5, <1>8, <1>9, <1>10, <1>11, <1>12 DEF StateOK

-----------------------------------------------------------------------------
\* The invariant holds at the start, and after every step.
LEMMA InitInv == Init => Inv
<1> SUFFICES ASSUME Init PROVE Inv
  OBVIOUS
<1>1. /\ queue \in [Device -> Seq(Entry)] /\ Queued = {}
      /\ \A d \in Device : DOMAIN queue[d] = {}
  <2>1. \A d \in Device : queue[d] = <<>>
    BY DEF Init
  <2>2. queue \in [Device -> Seq(Entry)]
    BY DEF Init
  <2> QED
    BY <2>1, <2>2 DEF Queued
<1>2. TypeInv
  BY <1>1 DEF Init, TypeInv, Unsent, Idle
<1>3. TimeInv /\ LaneInv /\ PlaceInv
  BY <1>1 DEF Init, TimeInv, LaneInv, PlaceInv
<1>4. ASSUME NEW m \in Message PROVE MsgOK(m)
  <2>1. Of(m) = {} /\ Waiting(m) = {}
    BY <1>1 DEF Init, Of, Waiting
  <2>2. \A type \in Type : wait[m, type] = 0
    BY DEF Init
  <2>3. /\ plan[m] = Unsent /\ booked[m] = 0
        /\ m \notin expected \cup acked \cup nacked \cup retried \cup late
    BY DEF Init
  <2> QED
    BY <2>1, <2>2, <2>3 DEF MsgOK, Fresh
<1>5. LateOnlyIfWaited /\ RetryOnlyIfWaited
  BY DEF Init, LateOnlyIfWaited, RetryOnlyIfWaited
<1> QED
  BY <1>2, <1>3, <1>4, <1>5 DEF Inv

LEMMA NextInv == Inv /\ [Next]_vars => Inv'
<1> SUFFICES ASSUME Inv, [Next]_vars PROVE Inv'
  OBVIOUS
<1>0. now \in Nat
  BY DEF Inv, TypeInv
<1>1. ASSUME StateOK', Queued \subseteq Queued', UNCHANGED wait, now' \in Nat, now <= now',
             refused \subseteq refused', late \subseteq late',
             \A m \in late' \ (late \cup refused) : WaitedMoreThan(m, "CTRL", Margin(m)),
             \A m \in retried' \ (retried \cup late \cup refused) :
               WaitedMoreThan(m, "AWK", RetrySpan(m))
      PROVE  Inv'
  <2>1. \A m \in Message, type \in Type, span \in Int :
          WaitedMoreThan(m, type, span) => WaitedMoreThan(m, type, span)'
    BY <1>1, WaitKept DEF Inv
  <2>2. late' \cup retried' \subseteq Message
    BY <1>1 DEF StateOK
  <2>3. LateOnlyIfWaited' /\ RetryOnlyIfWaited'
    BY <1>1, <2>1, <2>2, ReasonsKept
  <2>4. Inv' <=> StateOK' /\ LateOnlyIfWaited' /\ RetryOnlyIfWaited'
    BY StateOfInv, PTL
  <2> QED
    BY <1>1, <2>3, <2>4
<1>2. ASSUME NEW m \in Message, Send(m) PROVE Inv'
  <2>1. /\ StateOK' /\ Queued \subseteq Queued' /\ refused \subseteq refused'
        /\ UNCHANGED <<now, retried, late, wait>>
    BY <1>2, SendOK
  <2> QED
    BY <1>0, <1>1, <2>1
<1>3. ASSUME NEW e \in events, Run(e) PROVE Inv'
  <2>1. UNCHANGED <<now, wait>>
    BY <1>3 DEF Run
  <2> QED
    BY <1>0, <1>1, <1>3, <2>1, RunOK
<1>4. ASSUME NEW d \in Device, ControlTransmitComplete(d) PROVE Inv'
  <2>1. CASE queue[d] = <<>>
    <3>1. /\ done[d] = now /\ done' = [done EXCEPT ![d] = Idle]
          /\ UNCHANGED <<events, queue, wait, now, next_transmit, plan, booked, expected, acked,
                         nacked, retried, refused, late>>
      BY <1>4, <2>1 DEF ControlTransmitComplete
    <3>2. StateOK' /\ Queued' = Queued
      BY <2>1, <3>1, QueueEmptyOK
    <3> QED
      BY <1>0, <1>1, <3>1, <3>2
  <2>2. CASE queue[d] # <<>>
    <3>1. Leaves(d, Head(queue[d]))
      BY <1>4, <2>2 DEF ControlTransmitComplete, Leaves
    <3>2. StateOK'
      BY <3>1, LeavesOK
    <3>3. \A m \in Message, type \in Type, span \in Int :
            WaitedMoreThan(m, type, span) => WaitedMoreThan(m, type, span)'
      BY <3>1, LeavesKept
    <3>4. UNCHANGED <<refused, late, retried>>
      BY <3>1 DEF Leaves
    <3>5. late' \cup retried' \subseteq Message
      BY <3>2 DEF StateOK
    <3>6. LateOnlyIfWaited' /\ RetryOnlyIfWaited'
      BY <3>3, <3>4, <3>5, ReasonsKept
    <3>7. Inv' <=> StateOK' /\ LateOnlyIfWaited' /\ RetryOnlyIfWaited'
      BY StateOfInv, PTL
    <3> QED
      BY <3>2, <3>6, <3>7
  <2> QED
    BY <2>1, <2>2
<1>5. CASE Tick
  <2>1. StateOK' /\ Queued' = Queued /\ now <= now' /\ now' \in Nat
    BY <1>5, TickOK
  <2>2. UNCHANGED <<retried, refused, late, wait>>
    BY <1>5 DEF Tick
  <2> QED
    BY <1>1, <2>1, <2>2
<1>6. CASE UNCHANGED vars
  <2>1. UNCHANGED <<now, events, queue, done, next_transmit, plan, booked, expected, acked,
                    nacked, retried, refused, late, wait>>
    BY <1>6 DEF vars
  <2>2. StateOK
    BY StateOfInv
  <2>3. QueuesOK' /\ Queued' = Queued
    BY <2>1, <2>2, StillQueues
  <2>4. EventsOK'
    BY <2>1, <2>2 DEF StateOK, EventsOK, EventOK, HopOK
  <2>5. ASSUME NEW m \in Message
        PROVE  MsgOK(m)'
    <3>1. Untouched(m)
      BY <2>1, <2>3 DEF Untouched, Of, Waiting
    <3> QED
      BY <2>2, <3>1, UntouchedOK DEF StateOK
  <2>6. StateOK'
    BY <2>1, <2>2, <2>3, <2>4, <2>5 DEF StateOK
  <2> QED
    BY <1>0, <1>1, <2>1, <2>3, <2>6
<1> QED
  BY <1>2, <1>3, <1>4, <1>5, <1>6 DEF Next

\* A burst comes before its control message only if that one was refused or has
\* waited longer than the packet delay leaves room for.
THEOREM LateOnlyIfWaitedHolds == Spec => []LateOnlyIfWaited
<1>1. Inv => LateOnlyIfWaited
  BY DEF Inv
<1> QED
  BY <1>1, InitInv, NextInv, PTL DEF Spec

\* CheckSent sends a message again only if a control message of it was refused, its
\* burst was late, or its AWK has waited longer than CheckSent allows for.
THEOREM RetryOnlyIfWaitedHolds == Spec => []RetryOnlyIfWaited
<1>1. Inv => RetryOnlyIfWaited
  BY DEF Inv
<1> QED
  BY <1>1, InitInv, NextInv, PTL DEF Spec
=============================================================================
