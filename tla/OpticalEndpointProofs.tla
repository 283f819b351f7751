------------------------ MODULE OpticalEndpointProofs ------------------------
(***************************************************************************)
(* Proofs about the retransmission protocol, for any network and any       *)
(* number of messages.                                                     *)
(*                                                                         *)
(* What the device keeps of a message (the entry, the events that can be   *)
(* cancelled) and what the receiver has taken are related to each other    *)
(* for every id space: that is enough for the reliable link.  Only that    *)
(* an AWK is never taken for another message's, and that no entry is kept  *)
(* out by another one, needs the ids not to be used twice.                 *)
(***************************************************************************)
EXTENDS OpticalEndpoint, FiniteSetTheorems, TLAPS

\* No two messages have the same id: m_msg_count has not wrapped.
NoWrap == MaxMessages <= IdSpace

LinkedIn(tms, id) == {t \in tms : t.id = id /\ t.linked}

\* An entry is of an accepted message that is neither acknowledged nor given up,
\* under its id, with one attempt linked to it; no attempt is linked to no entry.
EntriesOK(table, tms, acc, gone) ==
  \A id \in Id :
    IF table[id] = NoMessage THEN LinkedIn(tms, id) = {}
    ELSE /\ IdOf(table[id]) = id
         /\ table[id] \in acc \ gone
         /\ \E t \in tms : LinkedIn(tms, id) = {t}

\* Attempts are of accepted messages, under their ids.
TimersOK(tms, acc) == \A t \in tms : t.id = IdOf(t.msg) /\ t.msg \in acc

SenderOK ==
  /\ EntriesOK(sent_table, timers, accepted, givenUp)
  /\ TimersOK(timers, accepted)
  /\ accepted \subseteq 0..(count - 1)
  /\ givenUp \subseteq accepted /\ acked \subseteq accepted

\* A message is handed up once at most, and only one that was accepted; its id is
\* received from the moment its burst is taken.
ReceiverOK ==
  /\ \A m \in Message : bursts[m] > 0 => m \in accepted
  /\ \A m \in arriving : m \in accepted /\ IdOf(m) \in received /\ handed[m] = 0
  /\ \A m \in Message : \/ handed[m] = 0
                        \/ handed[m] = 1 /\ m \in accepted /\ IdOf(m) \in received

\* Only what was received is acknowledged.
AcksOK == \A id \in Id : ctl[<<"AWK", id>>] > 0 => id \in received

\* What was received is the message of that id, and a message that is not there
\* yet has its own entry.
UniqueOK ==
  /\ \A m \in Message : IdOf(m) \in received => m \in arriving \/ handed[m] > 0
  /\ AckedIsDelivered
  /\ \A m \in accepted \ (delivered \cup givenUp \cup arriving) : sent_table[IdOf(m)] = m

IInv ==
  /\ TypeOK
  /\ SenderOK
  /\ ReceiverOK
  /\ AcksOK
  /\ NoWrap => UniqueOK

-----------------------------------------------------------------------------
(***************************************************************************)
(* Ids, and copies in flight.                                              *)
(***************************************************************************)
LEMMA IdOfType ==
  ASSUME NEW m \in Nat
  PROVE  IdOf(m) \in Id
BY EndpointAssumption DEF IdOf, Id

LEMMA IdOfUnique ==
  ASSUME NoWrap, NEW m \in Message
  PROVE  IdOf(m) = m
BY EndpointAssumption DEF IdOf, NoWrap, Message

LEMMA WithCopies ==
  ASSUME NEW S, NEW bag \in [S -> 0..MaxCopies], NEW x \in S
  PROVE  /\ With(bag, x) \in [S -> 0..MaxCopies]
         /\ \A y \in S : With(bag, x)[y] > 0 => y = x \/ bag[y] > 0
BY EndpointAssumption DEF With

LEMMA WithoutCopies ==
  ASSUME NEW S, NEW bag \in [S -> 0..MaxCopies], NEW x \in S, bag[x] > 0
  PROVE  /\ Without(bag, x) \in [S -> 0..MaxCopies]
         /\ \A y \in S : Without(bag, x)[y] > 0 => bag[y] > 0
BY EndpointAssumption DEF Without

Ctl == {"CTRL", "NACK", "AWK"} \X Id

\* ControlSend adds a control message, if any.
LEMMA ControlSendCopies ==
  ASSUME NEW bag \in [Ctl -> 0..MaxCopies], NEW type \in {"CTRL", "NACK", "AWK"},
         NEW id \in Id, NEW after \in ControlSend(bag, type, id)
  PROVE  /\ after \in [Ctl -> 0..MaxCopies]
         /\ \A y \in Ctl : after[y] > 0 => y = <<type, id>> \/ bag[y] > 0
<1>1. <<type, id>> \in Ctl
  BY DEF Ctl
<1>2. after = With(bag, <<type, id>>) \/ after = bag
  BY DEF ControlSend
<1> QED
  BY <1>1, <1>2, WithCopies

-----------------------------------------------------------------------------
(***************************************************************************)
(* InternalSend.                                                           *)
(***************************************************************************)
LEMMA InternalSendType ==
  ASSUME TypeOK, NEW m \in Message, NEW table \in [Id -> Message \cup {NoMessage}],
         NEW left \in SUBSET Timer, NEW bag \in [Ctl -> 0..MaxCopies],
         InternalSend(m, table, left, bag)
  PROVE  /\ sent_table' \in [Id -> Message \cup {NoMessage}]
         /\ timers' \subseteq Timer
         /\ ctl' \in [Ctl -> 0..MaxCopies]
         /\ accepted' \subseteq Message /\ givenUp' \subseteq Message
         /\ \A y \in Ctl : ctl'[y] > 0 => y = <<"CTRL", IdOf(m)>> \/ bag[y] > 0
<1>1. IdOf(m) \in Id
  BY IdOfType, EndpointAssumption DEF Message
<1>2. <<"CTRL", IdOf(m)>> \in Ctl
  BY <1>1 DEF Ctl
<1>3. CASE /\ ctl' = With(bag, <<"CTRL", IdOf(m)>>)
           /\ timers' = left \cup {[id |-> IdOf(m), msg |-> m, stage |-> "data",
                                    linked |-> table[IdOf(m)] = NoMessage]}
           /\ sent_table' = [table EXCEPT ![IdOf(m)] = IF @ = NoMessage THEN m ELSE @]
           /\ accepted' = accepted \cup {m}
           /\ UNCHANGED givenUp
  <2>1. [id |-> IdOf(m), msg |-> m, stage |-> "data",
         linked |-> table[IdOf(m)] = NoMessage] \in Timer
    BY <1>1, Zenon DEF Timer
  <2>2. ctl' \in [Ctl -> 0..MaxCopies]
        /\ \A y \in Ctl : ctl'[y] > 0 => y = <<"CTRL", IdOf(m)>> \/ bag[y] > 0
    BY <1>2, <1>3, WithCopies
  <2> QED
    BY <1>1, <1>3, <2>1, <2>2 DEF TypeOK
<1>4. CASE /\ ctl' = bag /\ timers' = left /\ sent_table' = table
           /\ givenUp' = IF m \in accepted THEN givenUp \cup {m} ELSE givenUp
           /\ UNCHANGED accepted
  BY <1>4 DEF TypeOK
<1> QED
  BY <1>3, <1>4 DEF InternalSend

\* The entry that InternalSend makes has the attempt it schedules.
LEMMA InternalSendEntries ==
  ASSUME NEW m \in Message, NEW table \in [Id -> Message \cup {NoMessage}],
         NEW left, NEW bag, InternalSend(m, table, left, bag),
         EntriesOK(table, left, accepted, givenUp), TimersOK(left, accepted),
         \A id \in Id : table[id] # m, m \notin givenUp, givenUp \subseteq accepted
  PROVE  /\ EntriesOK(sent_table', timers', accepted', givenUp')
         /\ TimersOK(timers', accepted')
         /\ accepted' \subseteq accepted \cup {m}
         /\ accepted \subseteq accepted'
         /\ givenUp' \subseteq accepted'
         /\ \A id \in Id : table[id] # NoMessage => sent_table'[id] = table[id]
         /\ m \in accepted' \ givenUp' /\ table[IdOf(m)] = NoMessage =>
              sent_table'[IdOf(m)] = m
<1> DEFINE i == IdOf(m)
           t0 == [id |-> i, msg |-> m, stage |-> "data", linked |-> table[i] = NoMessage]
<1>1. i \in Id
  BY IdOfType, EndpointAssumption DEF Message
<1>2. m # NoMessage
  BY EndpointAssumption DEF Message, NoMessage
<1>3. CASE /\ ctl' = With(bag, <<"CTRL", i>>)
           /\ timers' = left \cup {t0}
           /\ sent_table' = [table EXCEPT ![i] = IF @ = NoMessage THEN m ELSE @]
           /\ accepted' = accepted \cup {m}
           /\ UNCHANGED givenUp
  <2>0. t0.id = i /\ t0.msg = m /\ (t0.linked <=> table[i] = NoMessage)
    OBVIOUS
  <2> HIDE DEF t0
  <2>1. TimersOK(timers', accepted')
    BY <1>3, <2>0 DEF TimersOK
  <2>2. ASSUME NEW id \in Id
        PROVE  IF sent_table'[id] = NoMessage THEN LinkedIn(timers', id) = {}
               ELSE /\ IdOf(sent_table'[id]) = id
                    /\ sent_table'[id] \in accepted' \ givenUp'
                    /\ \E t \in timers' : LinkedIn(timers', id) = {t}
    <3>1. CASE id = i /\ table[i] = NoMessage
      <4>1. LinkedIn(left, id) = {}
        BY <3>1 DEF EntriesOK
      <4>2. LinkedIn(timers', id) = {t0}
        BY <1>3, <2>0, <3>1, <4>1 DEF LinkedIn
      <4>3. sent_table'[id] = m
        BY <1>3, <3>1
      <4> QED
        BY <1>2, <1>3, <3>1, <4>2, <4>3
    <3>2. CASE ~(id = i /\ table[i] = NoMessage)
      <4>1. LinkedIn(timers', id) = LinkedIn(left, id)
        BY <1>3, <2>0, <3>2 DEF LinkedIn
      <4>2. sent_table'[id] = table[id]
        BY <1>1, <1>3, <3>2
      <4> QED
        BY <1>3, <4>1, <4>2 DEF EntriesOK
    <3> QED
      BY <3>1, <3>2
  <2>3. EntriesOK(sent_table', timers', accepted', givenUp')
    BY <2>2 DEF EntriesOK
  <2> QED
    BY <1>1, <1>3, <2>1, <2>3
<1>4. CASE /\ ctl' = bag /\ timers' = left /\ sent_table' = table
           /\ givenUp' = IF m \in accepted THEN givenUp \cup {m} ELSE givenUp
           /\ UNCHANGED accepted
  BY <1>4 DEF EntriesOK
<1> QED
  BY <1>3, <1>4 DEF InternalSend

\* What every step of the sender owes to the receiver's side of the invariant.
LEMMA SenderStep ==
  ASSUME IInv, UNCHANGED <<receiverVars, bursts, acked>>, accepted \subseteq accepted',
         \A id \in Id : ctl'[<<"AWK", id>>] > 0 => ctl[<<"AWK", id>>] > 0,
         NoWrap => \A m \in accepted' \ (delivered \cup givenUp' \cup arriving) :
                     sent_table'[IdOf(m)] = m
  PROVE  ReceiverOK' /\ AcksOK' /\ (NoWrap => UniqueOK')
<1>1. ReceiverOK'
  BY DEF IInv, ReceiverOK, receiverVars
<1>2. AcksOK'
  BY DEF IInv, AcksOK, receiverVars
<1>3. ASSUME NoWrap PROVE UniqueOK'
  BY <1>3 DEF IInv, UniqueOK, AckedIsDelivered, delivered, receiverVars
<1> QED
  BY <1>1, <1>2, <1>3

LEMMA CtlShape == Ctl = {"CTRL", "NACK", "AWK"} \X Id
BY DEF Ctl

\* Resend of an entry by one of its own attempts (CheckSent) or a NACK.
LEMMA ResendIInv ==
  ASSUME IInv, NEW id \in Id, sent_table[id] # NoMessage,
         NEW left, left = timers \/ (\E t \in timers : t.id = id /\ left = timers \ {t}),
         NEW bag \in [Ctl -> 0..MaxCopies],
         \A y \in Ctl : bag[y] > 0 => ctl[y] > 0,
         Resend(id, left, bag),
         UNCHANGED <<count, acked, receiverVars, bursts>>
  PROVE  IInv'
<1> DEFINE m == sent_table[id]
           table == [sent_table EXCEPT ![id] = NoMessage]
           rest == left \ Linked(id)
<1>1. /\ m \in Message /\ IdOf(m) = id /\ m \in accepted \ givenUp
      /\ table \in [Id -> Message \cup {NoMessage}]
  BY DEF IInv, TypeOK, SenderOK, EntriesOK
<1>2. InternalSend(m, table, rest, bag)
  BY DEF Resend
<1>3. rest \in SUBSET Timer
  BY DEF IInv, TypeOK
<1>4. TimersOK(rest, accepted)
  BY DEF IInv, SenderOK, TimersOK
<1>5. EntriesOK(table, rest, accepted, givenUp)
  <2>1. ASSUME NEW j \in Id, j # id
        PROVE  table[j] = sent_table[j] /\ LinkedIn(rest, j) = LinkedIn(timers, j)
    BY <2>1 DEF IInv, TypeOK, Linked, LinkedIn
  <2>2. table[id] = NoMessage /\ LinkedIn(rest, id) = {}
    BY DEF IInv, TypeOK, Linked, LinkedIn
  <2>3. ASSUME NEW j \in Id, j # id, table[j] # NoMessage
        PROVE  \E t \in rest : LinkedIn(rest, j) = {t}
    <3>1. PICK t \in timers : LinkedIn(timers, j) = {t}
      BY <2>1, <2>3 DEF IInv, SenderOK, EntriesOK
    <3>2. t \in rest
      BY <2>1, <2>3, <3>1 DEF LinkedIn
    <3> QED
      BY <2>1, <2>3, <3>1, <3>2
  <2> QED
    BY <2>1, <2>2, <2>3 DEF IInv, SenderOK, EntriesOK
<1>6. \A j \in Id : table[j] # m
  BY <1>1, EndpointAssumption DEF IInv, TypeOK, SenderOK, EntriesOK, Message, NoMessage
<1> HIDE DEF m, table, rest
<1>7. /\ sent_table' \in [Id -> Message \cup {NoMessage}]
      /\ timers' \subseteq Timer
      /\ ctl' \in [Ctl -> 0..MaxCopies]
      /\ accepted' \subseteq Message /\ givenUp' \subseteq Message
      /\ \A y \in Ctl : ctl'[y] > 0 => y = <<"CTRL", IdOf(m)>> \/ bag[y] > 0
  BY <1>1, <1>2, <1>3, InternalSendType DEF IInv
<1>8. /\ EntriesOK(sent_table', timers', accepted', givenUp')
      /\ TimersOK(timers', accepted')
      /\ accepted' \subseteq accepted \cup {m}
      /\ accepted \subseteq accepted'
      /\ givenUp' \subseteq accepted'
      /\ \A j \in Id : table[j] # NoMessage => sent_table'[j] = table[j]
      /\ m \in accepted' \ givenUp' /\ table[IdOf(m)] = NoMessage => sent_table'[IdOf(m)] = m
  BY <1>1, <1>2, <1>4, <1>5, <1>6, InternalSendEntries DEF IInv, SenderOK
<1>9. TypeOK'
  BY <1>7 DEF IInv, TypeOK, receiverVars, Ctl
<1>10. SenderOK'
  BY <1>1, <1>8 DEF IInv, SenderOK
<1>11. \A j \in Id : ctl'[<<"AWK", j>>] > 0 => ctl[<<"AWK", j>>] > 0
  BY <1>7 DEF Ctl
<1>12. ASSUME NoWrap, NEW x \in accepted' \ (delivered \cup givenUp' \cup arriving)
       PROVE  sent_table'[IdOf(x)] = x
  <2>1. x \in Message /\ x \in accepted /\ IdOf(x) \in Id /\ x # NoMessage
    BY <1>1, <1>7, <1>8, <1>12, IdOfType, EndpointAssumption DEF Message, NoMessage
  <2>2. CASE x = m
    BY <1>1, <1>8, <1>12, <2>2 DEF table, IInv, TypeOK
  <2>3. CASE x # m
    <3>1. x \notin givenUp
      BY <1>2, <1>12 DEF InternalSend
    <3>2. sent_table[IdOf(x)] = x
      BY <1>12, <2>1, <3>1 DEF IInv, UniqueOK
    <3>3. IdOf(x) # id
      BY <2>3, <3>2 DEF m
    <3>4. table[IdOf(x)] = x
      BY <2>1, <3>2, <3>3 DEF table, IInv, TypeOK
    <3> QED
      BY <1>8, <2>1, <3>4
  <2> QED
    BY <2>2, <2>3
<1>13. ReceiverOK' /\ AcksOK' /\ (NoWrap => UniqueOK')
  BY <1>8, <1>11, <1>12, SenderStep
<1> QED
  BY <1>9, <1>10, <1>13 DEF IInv

-----------------------------------------------------------------------------
(***************************************************************************)
(* The steps.                                                              *)
(***************************************************************************)
LEMMA InitIInv == Init => IInv
<1> SUFFICES ASSUME Init PROVE IInv
  OBVIOUS
<1>1. TypeOK
  BY EndpointAssumption DEF Init, TypeOK
<1>2. SenderOK
  BY DEF Init, SenderOK, EntriesOK, TimersOK, LinkedIn
<1>3. ReceiverOK /\ AcksOK
  BY DEF Init, ReceiverOK, AcksOK
<1>4. UniqueOK
  BY DEF Init, UniqueOK, AckedIsDelivered
<1> QED
  BY <1>1, <1>2, <1>3, <1>4 DEF IInv

LEMMA SendIInv == IInv /\ Send => IInv'
<1> SUFFICES ASSUME IInv, Send PROVE IInv'
  OBVIOUS
<1>1. /\ count \in Message /\ count' = count + 1
      /\ InternalSend(count, sent_table, timers, ctl)
      /\ UNCHANGED <<acked, receiverVars, bursts>>
  BY EndpointAssumption DEF Send, IInv, TypeOK, Message
<1>2. count \notin accepted /\ \A id \in Id : sent_table[id] # count
  BY <1>1, EndpointAssumption DEF IInv, SenderOK, EntriesOK, TypeOK, Message, NoMessage
<1>3. /\ sent_table' \in [Id -> Message \cup {NoMessage}]
      /\ timers' \subseteq Timer
      /\ ctl' \in [Ctl -> 0..MaxCopies]
      /\ accepted' \subseteq Message /\ givenUp' \subseteq Message
      /\ \A y \in Ctl : ctl'[y] > 0 => y = <<"CTRL", IdOf(count)>> \/ ctl[y] > 0
  BY <1>1, InternalSendType, CtlShape DEF IInv, TypeOK
<1>4. /\ EntriesOK(sent_table', timers', accepted', givenUp')
      /\ TimersOK(timers', accepted')
      /\ accepted' \subseteq accepted \cup {count}
      /\ accepted \subseteq accepted'
      /\ givenUp' \subseteq accepted'
      /\ \A j \in Id : sent_table[j] # NoMessage => sent_table'[j] = sent_table[j]
      /\ count \in accepted' \ givenUp' /\ sent_table[IdOf(count)] = NoMessage =>
           sent_table'[IdOf(count)] = count
  BY <1>1, <1>2, InternalSendEntries DEF IInv, TypeOK, SenderOK
<1>5. TypeOK'
  <2>1. count' \in 0..MaxMessages
    BY <1>1, EndpointAssumption DEF Message
  <2> QED
    BY <1>1, <1>3, <2>1 DEF IInv, TypeOK, receiverVars, Ctl
<1>6. SenderOK'
  <2>1. accepted' \subseteq 0..(count' - 1)
    BY <1>1, <1>4 DEF IInv, TypeOK, SenderOK
  <2> QED
    BY <1>1, <1>4, <2>1 DEF IInv, SenderOK
<1>7. \A j \in Id : ctl'[<<"AWK", j>>] > 0 => ctl[<<"AWK", j>>] > 0
  BY <1>3 DEF Ctl
<1>8. ASSUME NoWrap, NEW x \in accepted' \ (delivered \cup givenUp' \cup arriving)
      PROVE  sent_table'[IdOf(x)] = x
  <2>1. x \in Message /\ IdOf(x) \in Id /\ IdOf(x) = x /\ x # NoMessage
    BY <1>3, <1>8, IdOfType, IdOfUnique, EndpointAssumption DEF Message, NoMessage
  <2>2. CASE x = count
    <3>1. sent_table[IdOf(x)] = NoMessage
      <4>1. SUFFICES ASSUME sent_table[IdOf(x)] # NoMessage PROVE FALSE
        OBVIOUS
      <4>2. sent_table[IdOf(x)] \in Message /\ IdOf(sent_table[IdOf(x)]) = IdOf(x)
        BY <2>1, <4>1 DEF IInv, TypeOK, SenderOK, EntriesOK
      <4>3. sent_table[IdOf(x)] = x
        BY <1>8, <2>1, <4>2, IdOfUnique
      <4> QED
        BY <1>2, <2>1, <2>2, <4>3
    <3> QED
      BY <1>4, <1>8, <2>2, <3>1
  <2>3. CASE x # count
    <3>1. x \in accepted /\ x \notin givenUp
      BY <1>1, <1>4, <1>8, <2>3 DEF InternalSend
    <3>2. sent_table[IdOf(x)] = x
      BY <1>8, <3>1 DEF IInv, UniqueOK
    <3> QED
      BY <1>4, <2>1, <3>2
  <2> QED
    BY <2>2, <2>3
<1>9. ReceiverOK' /\ AcksOK' /\ (NoWrap => UniqueOK')
  BY <1>1, <1>4, <1>7, <1>8, SenderStep
<1> QED
  BY <1>5, <1>6, <1>9 DEF IInv

LEMMA DataTransmitStartIInv ==
  ASSUME IInv, NEW m \in Message, DataTransmitStart(m)
  PROVE  IInv'
<1>1. PICK t \in timers :
        /\ t.stage = "data" /\ t.msg = m
        /\ timers' = (timers \ {t}) \cup {[t EXCEPT !.stage = "check"]}
        /\ bursts' = With(bursts, m)
        /\ UNCHANGED <<count, sent_table, accepted, acked, givenUp, receiverVars, ctl>>
  BY DEF DataTransmitStart
<1> DEFINE u == [t EXCEPT !.stage = "check"]
<1>2. t \in Timer /\ u \in Timer /\ u.id = t.id /\ u.msg = t.msg /\ u.linked = t.linked
  BY DEF IInv, TypeOK, Timer
<1> HIDE DEF u
<1>3. /\ bursts' \in [Message -> 0..MaxCopies]
      /\ \A x \in Message : bursts'[x] > 0 => x = m \/ bursts[x] > 0
  BY <1>1, WithCopies DEF IInv, TypeOK
<1>4. TypeOK'
  BY <1>1, <1>2, <1>3 DEF IInv, TypeOK, receiverVars, u
<1>5. m \in accepted
  BY <1>1 DEF IInv, SenderOK, TimersOK
<1>6. SenderOK'
  <2>1. TimersOK(timers', accepted)
    BY <1>1, <1>2 DEF IInv, SenderOK, TimersOK, u
  <2>2. ASSUME NEW id \in Id
        PROVE  IF sent_table[id] = NoMessage THEN LinkedIn(timers', id) = {}
               ELSE \E x \in timers' : LinkedIn(timers', id) = {x}
    <3>1. CASE t.id = id /\ t.linked
      <4>1. sent_table[id] # NoMessage
        BY <3>1 DEF IInv, SenderOK, EntriesOK, LinkedIn
      <4>2. LinkedIn(timers, id) = {t}
        BY <3>1, <4>1 DEF IInv, SenderOK, EntriesOK, LinkedIn
      <4>3. LinkedIn(timers', id) = {u}
        BY <1>1, <1>2, <3>1, <4>2 DEF LinkedIn, u
      <4> QED
        BY <1>1, <4>1, <4>3 DEF u
    <3>2. CASE ~(t.id = id /\ t.linked)
      <4>1. LinkedIn(timers', id) = LinkedIn(timers, id)
        BY <1>1, <1>2, <3>2, Zenon DEF LinkedIn, u
      <4>2. LinkedIn(timers', id) \subseteq timers'
        BY DEF LinkedIn
      <4> QED
        BY <4>1, <4>2 DEF IInv, SenderOK, EntriesOK
    <3> QED
      BY <3>1, <3>2
  <2>3. EntriesOK(sent_table, timers', accepted, givenUp)
    BY <2>2 DEF IInv, SenderOK, EntriesOK
  <2> QED
    BY <1>1, <2>1, <2>3 DEF IInv, SenderOK
<1>7. ReceiverOK'
  BY <1>1, <1>3, <1>5 DEF IInv, ReceiverOK, receiverVars
<1>8. AcksOK'
  BY <1>1 DEF IInv, AcksOK, receiverVars
<1>9. ASSUME NoWrap PROVE UniqueOK'
  BY <1>1, <1>9 DEF IInv, UniqueOK, AckedIsDelivered, delivered, receiverVars
<1> QED
  BY <1>4, <1>6, <1>7, <1>8, <1>9 DEF IInv

LEMMA CheckSentIInv ==
  ASSUME IInv, NEW id \in Id, CheckSent(id)
  PROVE  IInv'
<1>1. PICK t \in timers :
        /\ t.stage = "check" /\ t.id = id
        /\ IF sent_table[id] # NoMessage
           THEN Resend(id, timers \ {t}, ctl)
           ELSE timers' = timers \ {t} /\ UNCHANGED <<ctl, sent_table, accepted, givenUp>>
        /\ UNCHANGED <<count, acked, receiverVars, bursts>>
  BY DEF CheckSent
<1>2. CASE sent_table[id] # NoMessage
  <2>1. ctl \in [Ctl -> 0..MaxCopies]
    BY CtlShape DEF IInv, TypeOK
  <2> QED
    BY <1>1, <1>2, <2>1, ResendIInv
<1>3. CASE sent_table[id] = NoMessage
  <2>1. TypeOK'
    BY <1>1, <1>3 DEF IInv, TypeOK, receiverVars
  <2>2. SenderOK'
    <3>1. TimersOK(timers', accepted)
      BY <1>1, <1>3 DEF IInv, SenderOK, TimersOK
    <3>2. \A j \in Id : LinkedIn(timers', j) = LinkedIn(timers, j)
      BY <1>1, <1>3 DEF IInv, SenderOK, EntriesOK, LinkedIn
    <3>3. \A j \in Id : LinkedIn(timers', j) \subseteq timers'
      BY DEF LinkedIn
    <3>4. EntriesOK(sent_table, timers', accepted, givenUp)
      BY <3>2, <3>3 DEF IInv, SenderOK, EntriesOK
    <3> QED
      BY <1>1, <1>3, <3>1, <3>4 DEF IInv, SenderOK
  <2>3. ReceiverOK' /\ AcksOK' /\ (NoWrap => UniqueOK')
    <3>1. ASSUME NoWrap, NEW x \in accepted \ (delivered \cup givenUp \cup arriving)
          PROVE  sent_table[IdOf(x)] = x
      BY <3>1 DEF IInv, UniqueOK
    <3> QED
      BY <1>1, <1>3, <3>1, SenderStep
  <2> QED
    BY <2>1, <2>2, <2>3 DEF IInv
<1> QED
  BY <1>2, <1>3

LEMMA ReceiveNACKIInv ==
  ASSUME IInv, NEW id \in Id, ReceiveNACK(id)
  PROVE  IInv'
<1> DEFINE bag == Without(ctl, <<"NACK", id>>)
<1>1. /\ ctl[<<"NACK", id>>] > 0
      /\ IF sent_table[id] # NoMessage
         THEN Resend(id, timers, bag)
         ELSE ctl' = bag /\ UNCHANGED <<timers, sent_table, accepted, givenUp>>
      /\ UNCHANGED <<count, acked, receiverVars, bursts>>
  BY DEF ReceiveNACK
<1>2. bag \in [Ctl -> 0..MaxCopies] /\ \A y \in Ctl : bag[y] > 0 => ctl[y] > 0
  <2>1. <<"NACK", id>> \in Ctl /\ ctl \in [Ctl -> 0..MaxCopies]
    BY DEF Ctl, IInv, TypeOK
  <2> QED
    BY <1>1, <2>1, WithoutCopies
<1> HIDE DEF bag
<1>3. CASE sent_table[id] # NoMessage
  BY <1>1, <1>2, <1>3, ResendIInv
<1>4. CASE sent_table[id] = NoMessage
  <2>1. TypeOK'
    BY <1>1, <1>2, <1>4 DEF IInv, TypeOK, receiverVars, Ctl
  <2>2. SenderOK'
    BY <1>1, <1>4 DEF IInv, SenderOK
  <2>3. \A j \in Id : ctl'[<<"AWK", j>>] > 0 => ctl[<<"AWK", j>>] > 0
    BY <1>1, <1>2, <1>4 DEF Ctl
  <2>4. ASSUME NoWrap, NEW x \in accepted \ (delivered \cup givenUp \cup arriving)
        PROVE  sent_table[IdOf(x)] = x
    BY <2>4 DEF IInv, UniqueOK
  <2>5. ReceiverOK' /\ AcksOK' /\ (NoWrap => UniqueOK')
    BY <1>1, <1>4, <2>3, <2>4, SenderStep
  <2> QED
    BY <2>1, <2>2, <2>5 DEF IInv
<1> QED
  BY <1>3, <1>4

\* An AWK erases the entry of a message that was received: with ids of its own
\* that message is handed up or in optical processing.
LEMMA ReceiveAWKIInv ==
  ASSUME IInv, NEW id \in Id, ReceiveAWK(id)
  PROVE  IInv'
<1>1. /\ ctl[<<"AWK", id>>] > 0
      /\ ctl' = Without(ctl, <<"AWK", id>>)
      /\ sent_table' = [sent_table EXCEPT ![id] = NoMessage]
      /\ acked' = acked \cup ({sent_table[id]} \ {NoMessage})
      /\ timers' = (timers \ Linked(id)) \cup {[t EXCEPT !.linked = FALSE] : t \in Linked(id)}
      /\ UNCHANGED <<count, accepted, givenUp, receiverVars, bursts>>
  BY DEF ReceiveAWK
<1>2. ctl' \in [Ctl -> 0..MaxCopies] /\ \A y \in Ctl : ctl'[y] > 0 => ctl[y] > 0
  <2>1. <<"AWK", id>> \in Ctl /\ ctl \in [Ctl -> 0..MaxCopies]
    BY DEF Ctl, IInv, TypeOK
  <2> QED
    BY <1>1, <2>1, WithoutCopies
<1>3. /\ id \in received
      /\ sent_table[id] # NoMessage =>
           sent_table[id] \in Message /\ sent_table[id] \in accepted /\ IdOf(sent_table[id]) = id
  BY <1>1 DEF IInv, TypeOK, AcksOK, SenderOK, EntriesOK
<1> DEFINE cut(t) == [t EXCEPT !.linked = FALSE]
<1>4. \A t \in Linked(id) : /\ t \in timers /\ cut(t) \in Timer
                            /\ cut(t).id = t.id /\ cut(t).msg = t.msg /\ ~cut(t).linked
  <2> SUFFICES ASSUME NEW t \in Linked(id)
               PROVE  /\ t \in timers /\ cut(t) \in Timer
                      /\ cut(t).id = t.id /\ cut(t).msg = t.msg /\ ~cut(t).linked
    OBVIOUS
  <2>1. t \in timers /\ t \in Timer
    BY DEF Linked, IInv, TypeOK
  <2> QED
    BY <2>1 DEF Timer
<1>5. timers' = (timers \ Linked(id)) \cup {cut(t) : t \in Linked(id)}
  BY <1>1
<1> HIDE DEF cut
<1>6. TypeOK'
  BY <1>1, <1>2, <1>3, <1>4, <1>5 DEF IInv, TypeOK, receiverVars, Ctl
<1>7. SenderOK'
  <2>1. TimersOK(timers', accepted)
    BY <1>4, <1>5 DEF IInv, SenderOK, TimersOK
  <2>2. LinkedIn(timers', id) = {}
    BY <1>4, <1>5 DEF LinkedIn, Linked
  <2>3. ASSUME NEW j \in Id, j # id
        PROVE  LinkedIn(timers', j) = LinkedIn(timers, j)
    <3>1. \A t \in Linked(id) : t.id = id
      BY DEF Linked
    <3> QED
      BY <1>4, <1>5, <2>3, <3>1 DEF LinkedIn
  <2>4. \A j \in Id : LinkedIn(timers', j) \subseteq timers'
    BY DEF LinkedIn
  <2>5. EntriesOK(sent_table', timers', accepted, givenUp)
    BY <1>1, <2>2, <2>3, <2>4 DEF IInv, TypeOK, SenderOK, EntriesOK
  <2> QED
    BY <1>1, <1>3, <2>1, <2>5 DEF IInv, SenderOK
<1>8. ReceiverOK'
  BY <1>1 DEF IInv, ReceiverOK, receiverVars
<1>9. AcksOK'
  BY <1>1, <1>2 DEF IInv, AcksOK, receiverVars, Ctl
<1>10. ASSUME NoWrap PROVE UniqueOK'
  <2>1. sent_table[id] # NoMessage => sent_table[id] \in delivered \cup arriving
    BY <1>3, <1>10 DEF IInv, UniqueOK, delivered
  <2>2. AckedIsDelivered'
    BY <1>1, <1>10, <2>1 DEF IInv, UniqueOK, AckedIsDelivered, delivered, receiverVars
  <2>3. ASSUME NEW x \in accepted \ (delivered \cup givenUp \cup arriving)
        PROVE  sent_table'[IdOf(x)] = x
    <3>1. x \in Message /\ x # NoMessage /\ sent_table[IdOf(x)] = x
      BY <1>10, EndpointAssumption DEF IInv, TypeOK, UniqueOK, Message, NoMessage
    <3>2. IdOf(x) # id
      BY <2>1, <3>1
    <3> QED
      BY <1>1, <3>1, <3>2 DEF IInv, TypeOK
  <2> QED
    BY <1>1, <1>10, <2>2, <2>3 DEF IInv, UniqueOK, delivered, receiverVars
<1> QED
  BY <1>6, <1>7, <1>8, <1>9, <1>10 DEF IInv

\* The receiver and the network leave the sender alone; copies of an AWK only
\* come from the receiver, bursts only from the sender.
LEMMA NetworkStep ==
  ASSUME IInv, UNCHANGED <<senderVars, received, arriving, handed>>,
         expected' \subseteq Id, ctl' \in [Ctl -> 0..MaxCopies],
         bursts' \in [Message -> 0..MaxCopies],
         \A id \in Id : ctl'[<<"AWK", id>>] > 0 => ctl[<<"AWK", id>>] > 0 \/ id \in received,
         \A m \in Message : bursts'[m] > 0 => bursts[m] > 0
  PROVE  IInv'
<1>1. TypeOK'
  BY DEF IInv, TypeOK, senderVars, Ctl
<1>2. SenderOK'
  BY DEF IInv, SenderOK, senderVars
<1>3. ReceiverOK'
  BY DEF IInv, ReceiverOK, senderVars
<1>4. AcksOK'
  BY DEF IInv, AcksOK
<1>5. ASSUME NoWrap PROVE UniqueOK'
  BY <1>5 DEF IInv, UniqueOK, AckedIsDelivered, delivered, senderVars
<1> QED
  BY <1>1, <1>2, <1>3, <1>4, <1>5 DEF IInv

LEMMA CtlTaken ==
  ASSUME IInv, NEW x \in Ctl, ctl[x] > 0
  PROVE  /\ Without(ctl, x) \in [Ctl -> 0..MaxCopies]
         /\ \A y \in Ctl : Without(ctl, x)[y] > 0 => ctl[y] > 0
<1>1. ctl \in [Ctl -> 0..MaxCopies]
  BY CtlShape DEF IInv, TypeOK
<1> QED
  BY <1>1, WithoutCopies

LEMMA BurstTaken ==
  ASSUME IInv, NEW m \in Message, bursts[m] > 0
  PROVE  /\ Without(bursts, m) \in [Message -> 0..MaxCopies]
         /\ \A x \in Message : Without(bursts, m)[x] > 0 => bursts[x] > 0
         /\ m \in accepted /\ m \in Nat
<1>1. bursts \in [Message -> 0..MaxCopies]
  BY DEF IInv, TypeOK
<1>2. m \in accepted /\ m \in Nat
  BY EndpointAssumption DEF IInv, ReceiverOK, Message
<1> QED
  BY <1>1, <1>2, WithoutCopies

LEMMA UpdateReceivedIInv ==
  ASSUME IInv, NEW id \in Id, UpdateReceived(id)
  PROVE  IInv'
<1> DEFINE bag == Without(ctl, <<"CTRL", id>>)
<1>1. /\ ctl[<<"CTRL", id>>] > 0
      /\ IF id \in received
         THEN /\ ctl' \in ControlSend(bag, "AWK", id)
              /\ UNCHANGED expected
         ELSE expected' = expected \cup {id} /\ ctl' = bag
      /\ UNCHANGED <<senderVars, received, arriving, handed, bursts>>
  BY DEF UpdateReceived
<1>2. bag \in [Ctl -> 0..MaxCopies] /\ \A y \in Ctl : bag[y] > 0 => ctl[y] > 0
  <2>1. <<"CTRL", id>> \in Ctl
    BY DEF Ctl
  <2> QED
    BY <1>1, <2>1, CtlTaken
<1> HIDE DEF bag
<1>3. /\ ctl' \in [Ctl -> 0..MaxCopies]
      /\ \A y \in Ctl : ctl'[y] > 0 => ctl[y] > 0 \/ (y = <<"AWK", id>> /\ id \in received)
  <2>1. CASE id \in received
    BY <1>1, <1>2, <2>1, ControlSendCopies
  <2>2. CASE id \notin received
    BY <1>1, <1>2, <2>2
  <2> QED
    BY <2>1, <2>2
<1>4. \A j \in Id : ctl'[<<"AWK", j>>] > 0 => ctl[<<"AWK", j>>] > 0 \/ j \in received
  BY <1>3 DEF Ctl
<1>5. expected' \subseteq Id /\ bursts' = bursts /\ bursts \in [Message -> 0..MaxCopies]
  BY <1>1 DEF IInv, TypeOK
<1> QED
  BY <1>1, <1>3, <1>4, <1>5, NetworkStep

LEMMA DropBurstIInv ==
  ASSUME IInv, NEW m \in Message, DropBurst(m)
  PROVE  IInv'
<1>1. /\ bursts[m] > 0
      /\ bursts' = Without(bursts, m)
      /\ ctl' = ctl \/ ctl' \in ControlSend(ctl, "NACK", IdOf(m))
      /\ UNCHANGED <<senderVars, receiverVars>>
  BY DEF DropBurst
<1>2. /\ bursts' \in [Message -> 0..MaxCopies]
      /\ \A x \in Message : bursts'[x] > 0 => bursts[x] > 0
      /\ m \in Nat
  BY <1>1, BurstTaken
<1>3. IdOf(m) \in Id /\ ctl \in [Ctl -> 0..MaxCopies]
  BY <1>2, IdOfType, CtlShape DEF IInv, TypeOK
<1>4. /\ ctl' \in [Ctl -> 0..MaxCopies]
      /\ \A y \in Ctl : ctl'[y] > 0 => ctl[y] > 0 \/ y = <<"NACK", IdOf(m)>>
  BY <1>1, <1>3, ControlSendCopies
<1>5. \A j \in Id : ctl'[<<"AWK", j>>] > 0 => ctl[<<"AWK", j>>] > 0
  BY <1>4 DEF Ctl
<1>6. expected' \subseteq Id /\ UNCHANGED <<received, arriving, handed>>
  BY <1>1 DEF IInv, TypeOK, receiverVars
<1> QED
  BY <1>1, <1>2, <1>4, <1>5, <1>6, NetworkStep

LEMMA LossIInv ==
  ASSUME IInv, \/ \E id \in Id : Refuse(id)
               \/ LoseControl
               \/ \E m \in Message : LoseBurst(m)
  PROVE  IInv'
<1>1. ASSUME NEW id \in Id, Refuse(id)
      PROVE  IInv'
  <2> DEFINE bag == Without(ctl, <<"CTRL", id>>)
  <2>1. <<"CTRL", id>> \in Ctl /\ <<"NACK", id>> \in Ctl
    BY DEF Ctl
  <2>2. bag \in [Ctl -> 0..MaxCopies] /\ \A y \in Ctl : bag[y] > 0 => ctl[y] > 0
    BY <1>1, <2>1, CtlTaken DEF Refuse
  <2>3. ctl' = With(bag, <<"NACK", id>>) /\ UNCHANGED <<senderVars, receiverVars, bursts>>
    BY <1>1 DEF Refuse
  <2> HIDE DEF bag
  <2>4. /\ ctl' \in [Ctl -> 0..MaxCopies]
        /\ \A y \in Ctl : ctl'[y] > 0 => y = <<"NACK", id>> \/ ctl[y] > 0
    BY <2>1, <2>2, <2>3, WithCopies
  <2>5. \A j \in Id : ctl'[<<"AWK", j>>] > 0 => ctl[<<"AWK", j>>] > 0
    BY <2>4 DEF Ctl
  <2>6. /\ expected' \subseteq Id /\ UNCHANGED <<received, arriving, handed>>
        /\ bursts' = bursts /\ bursts \in [Message -> 0..MaxCopies]
    BY <2>3 DEF IInv, TypeOK, receiverVars
  <2> QED
    BY <2>3, <2>4, <2>5, <2>6, NetworkStep
<1>2. ASSUME LoseControl
      PROVE  IInv'
  <2>1. DOMAIN ctl = Ctl
    BY CtlShape DEF IInv, TypeOK
  <2>2. PICK x \in Ctl : ctl[x] > 0 /\ ctl' = Without(ctl, x)
    BY <1>2, <2>1 DEF LoseControl
  <2>3. ctl' \in [Ctl -> 0..MaxCopies] /\ \A y \in Ctl : ctl'[y] > 0 => ctl[y] > 0
    BY <2>2, CtlTaken
  <2>4. \A j \in Id : ctl'[<<"AWK", j>>] > 0 => ctl[<<"AWK", j>>] > 0
    BY <2>3 DEF Ctl
  <2>5. /\ expected' \subseteq Id /\ UNCHANGED <<senderVars, received, arriving, handed>>
        /\ bursts' = bursts /\ bursts \in [Message -> 0..MaxCopies]
    BY <1>2 DEF LoseControl, IInv, TypeOK, receiverVars
  <2> QED
    BY <2>3, <2>4, <2>5, NetworkStep
<1>3. ASSUME NEW m \in Message, LoseBurst(m)
      PROVE  IInv'
  <2>1. bursts[m] > 0 /\ bursts' = Without(bursts, m) /\ UNCHANGED <<senderVars, receiverVars, ctl>>
    BY <1>3 DEF LoseBurst
  <2>2. /\ bursts' \in [Message -> 0..MaxCopies]
        /\ \A x \in Message : bursts'[x] > 0 => bursts[x] > 0
    BY <2>1, BurstTaken
  <2>3. /\ expected' \subseteq Id /\ UNCHANGED <<received, arriving, handed>>
        /\ ctl' = ctl /\ ctl \in [Ctl -> 0..MaxCopies]
    BY <2>1, CtlShape DEF IInv, TypeOK, receiverVars
  <2> QED
    BY <2>1, <2>2, <2>3, NetworkStep
<1> QED
  BY <1>1, <1>2, <1>3

\* The burst of an id that was not received has not been handed up before.
LEMMA TakeBurstIInv ==
  ASSUME IInv, NEW m \in Message, TakeBurst(m)
  PROVE  IInv'
<1>1. /\ bursts[m] > 0 /\ IdOf(m) \in expected \ received
      /\ bursts' = Without(bursts, m)
      /\ expected' = expected \ {IdOf(m)}
      /\ received' = received \cup {IdOf(m)}
      /\ arriving' = arriving \cup {m}
      /\ UNCHANGED <<senderVars, ctl, handed>>
  BY DEF TakeBurst
<1>2. /\ bursts' \in [Message -> 0..MaxCopies]
      /\ \A x \in Message : bursts'[x] > 0 => bursts[x] > 0
      /\ m \in accepted
  BY <1>1, BurstTaken
<1>3. TypeOK'
  BY <1>1, <1>2 DEF IInv, TypeOK, senderVars
<1>4. SenderOK'
  BY <1>1 DEF IInv, SenderOK, senderVars
<1>5. ReceiverOK'
  <2>1. handed[m] = 0
    BY <1>1 DEF IInv, ReceiverOK
  <2> QED
    BY <1>1, <1>2, <2>1 DEF IInv, ReceiverOK, senderVars
<1>6. AcksOK'
  BY <1>1 DEF IInv, AcksOK
<1>7. ASSUME NoWrap PROVE UniqueOK'
  <2>1. ASSUME NEW x \in Message, IdOf(x) \in received'
        PROVE  x \in arriving' \/ handed'[x] > 0
    <3>1. CASE IdOf(x) \in received
      BY <1>1, <1>7, <2>1, <3>1 DEF IInv, UniqueOK
    <3>2. CASE IdOf(x) = IdOf(m)
      BY <1>1, <1>7, <3>2, IdOfUnique
    <3> QED
      BY <1>1, <2>1, <3>1, <3>2
  <2> QED
    BY <1>1, <1>7, <2>1 DEF IInv, UniqueOK, AckedIsDelivered, delivered, senderVars
<1> QED
  BY <1>3, <1>4, <1>5, <1>6, <1>7 DEF IInv

LEMMA FinalCallbackIInv ==
  ASSUME IInv, NEW m \in Message, FinalCallback(m)
  PROVE  IInv'
<1>1. /\ m \in arriving
      /\ arriving' = arriving \ {m}
      /\ handed' = [handed EXCEPT ![m] = @ + 1]
      /\ ctl' \in ControlSend(ctl, "AWK", IdOf(m))
      /\ UNCHANGED <<senderVars, expected, received, bursts>>
  BY DEF FinalCallback
<1>2. /\ handed[m] = 0 /\ m \in accepted /\ IdOf(m) \in received
      /\ IdOf(m) \in Id /\ ctl \in [Ctl -> 0..MaxCopies]
  BY <1>1, CtlShape DEF IInv, ReceiverOK, TypeOK
<1>3. /\ ctl' \in [Ctl -> 0..MaxCopies]
      /\ \A y \in Ctl : ctl'[y] > 0 => ctl[y] > 0 \/ y = <<"AWK", IdOf(m)>>
  BY <1>1, <1>2, ControlSendCopies
<1>4. handed' = [handed EXCEPT ![m] = 1]
  BY <1>1, <1>2 DEF IInv, TypeOK
<1>5. TypeOK'
  BY <1>1, <1>3, <1>4 DEF IInv, TypeOK, senderVars, Ctl
<1>6. SenderOK'
  BY <1>1 DEF IInv, SenderOK, senderVars
<1>7. ReceiverOK'
  BY <1>1, <1>2, <1>4 DEF IInv, TypeOK, ReceiverOK, senderVars
<1>8. AcksOK'
  BY <1>1, <1>2, <1>3 DEF IInv, AcksOK, Ctl
<1>9. ASSUME NoWrap PROVE UniqueOK'
  <2>1. delivered' = delivered \cup {m}
    BY <1>1, <1>4 DEF delivered, IInv, TypeOK
  <2>2. \A x \in Message : IdOf(x) \in received => x \in arriving' \/ handed'[x] > 0
    BY <1>1, <1>4, <1>9 DEF IInv, TypeOK, UniqueOK
  <2> QED
    BY <1>1, <1>9, <2>1, <2>2 DEF IInv, UniqueOK, AckedIsDelivered, senderVars
<1> QED
  BY <1>5, <1>6, <1>7, <1>8, <1>9 DEF IInv

LEMMA NextIInv == IInv /\ [Next]_vars => IInv'
<1> SUFFICES ASSUME IInv, [Next]_vars PROVE IInv'
  OBVIOUS
<1>1. CASE Send
  BY <1>1, SendIInv
<1>2. ASSUME NEW id \in Id, CheckSent(id) \/ ReceiveNACK(id) \/ ReceiveAWK(id)
      PROVE  IInv'
  BY <1>2, CheckSentIInv, ReceiveNACKIInv, ReceiveAWKIInv
<1>3. ASSUME NEW id \in Id, UpdateReceived(id) \/ Refuse(id)
      PROVE  IInv'
  BY <1>3, UpdateReceivedIInv, LossIInv
<1>4. ASSUME NEW m \in Message, DataTransmitStart(m) \/ TakeBurst(m) \/ DropBurst(m)
      PROVE  IInv'
  BY <1>4, DataTransmitStartIInv, TakeBurstIInv, DropBurstIInv
<1>5. ASSUME NEW m \in Message, FinalCallback(m) \/ LoseBurst(m)
      PROVE  IInv'
  BY <1>5, FinalCallbackIInv, LossIInv
<1>6. CASE LoseControl
  BY <1>6, LossIInv
<1>7. CASE UNCHANGED vars
  <2>1. TypeOK' /\ SenderOK' /\ ReceiverOK' /\ AcksOK'
    BY <1>7 DEF IInv, TypeOK, SenderOK, ReceiverOK, AcksOK, vars, senderVars, receiverVars
  <2>2. NoWrap => UniqueOK'
    BY <1>7 DEF IInv, UniqueOK, AckedIsDelivered, delivered, vars, senderVars, receiverVars
  <2> QED
    BY <2>1, <2>2 DEF IInv
<1> QED
  BY <1>1, <1>2, <1>3, <1>4, <1>5, <1>6, <1>7 DEF Next

\* The invariant that the theorems below follow from.
THEOREM Invariance == Spec => []IInv
<1> QED
  BY InitIInv, NextIInv, PTL DEF Spec

-----------------------------------------------------------------------------
(***************************************************************************)
(* The theorems.                                                           *)
(***************************************************************************)

\* The variables of the endpoints keep their types, for every bound.
THEOREM TypeCorrect == Spec => []TypeOK
<1>1. IInv => TypeOK
  BY DEF IInv
<1> QED
  BY <1>1, Invariance, PTL

\* While no id is used twice, an AWK only ends the attempts of a message that has
\* come: late copies of the AWKs, bursts and control messages of earlier attempts
\* included.
THEOREM AckedIsDeliveredHolds ==
  ASSUME NoWrap
  PROVE  Spec => []AckedIsDelivered
<1>1. IInv => AckedIsDelivered
  BY DEF IInv, UniqueOK
<1> QED
  BY <1>1, Invariance, PTL

\* While no id is used twice, a message that was accepted is tried until it has
\* come or is given up: CheckSent, NACKs and AWKs, in any order and number, leave
\* its entry with exactly one attempt that can be cancelled.
THEOREM StillTriedHolds ==
  ASSUME NoWrap
  PROVE  Spec => []StillTried
<1>1. IInv => StillTried
  <2> SUFFICES ASSUME IInv, NEW m \in accepted \ (delivered \cup givenUp \cup arriving)
               PROVE  /\ sent_table[IdOf(m)] = m
                      /\ Cardinality(Linked(IdOf(m))) = 1
    BY DEF StillTried
  <2>1. sent_table[IdOf(m)] = m
    BY DEF IInv, UniqueOK
  <2>2. m \in Message /\ m # NoMessage /\ IdOf(m) \in Id
    BY IdOfType, EndpointAssumption DEF IInv, TypeOK, Message, NoMessage
  <2>3. PICK t \in timers : LinkedIn(timers, IdOf(m)) = {t}
    BY <2>1, <2>2 DEF IInv, SenderOK, EntriesOK
  <2>4. Linked(IdOf(m)) = {t}
    BY <2>3 DEF Linked, LinkedIn
  <2> QED
    BY <2>1, <2>4, FS_Singleton
<1> QED
  BY <1>1, Invariance, PTL

\* A step of the endpoints is a step of the reliable link: Send is its Accept, or
\* nothing when the queue is full; a full queue at a retransmission its GiveUp,
\* once; FinalCallback its Deliver; no other step is seen.
LEMMA StepsOfTheLink ==
  ASSUME IInv, [Next]_vars
  PROVE  [Link!Next]_(Link!linkVars)
<1> USE DEF Link!linkVars
<1>1. ASSUME NEW m \in Message, NEW table, NEW left, NEW bag,
             InternalSend(m, table, left, bag), UNCHANGED handed,
             m \notin givenUp
      PROVE  [Link!Next]_(Link!linkVars)
  <2>1. CASE accepted' = accepted \cup {m} /\ UNCHANGED givenUp
    <3>1. m \in accepted \/ Link!Accept(m)
      BY <1>1, <2>1 DEF Link!Accept
    <3> QED
      BY <1>1, <2>1, <3>1 DEF Link!Next
  <2>2. CASE /\ givenUp' = IF m \in accepted THEN givenUp \cup {m} ELSE givenUp
             /\ UNCHANGED accepted
    <3>1. m \notin accepted \/ Link!GiveUp(m)
      BY <1>1, <2>2 DEF Link!GiveUp
    <3> QED
      BY <1>1, <2>2, <3>1 DEF Link!Next
  <2> QED
    BY <1>1, <2>1, <2>2 DEF InternalSend
<1>2. CASE Send
  <2>1. count \in Message /\ count \notin givenUp
    <3>1. count \in 0..MaxMessages /\ count < MaxMessages
      BY <1>2 DEF Send, IInv, TypeOK
    <3>2. givenUp \subseteq 0..(count - 1)
      BY DEF IInv, SenderOK
    <3> QED
      BY <3>1, <3>2, EndpointAssumption DEF Message
  <2> QED
    BY <1>1, <1>2, <2>1 DEF Send, receiverVars
<1>3. ASSUME NEW id \in Id, sent_table[id] # NoMessage, NEW left, NEW bag,
             Resend(id, left, bag), UNCHANGED handed
      PROVE  [Link!Next]_(Link!linkVars)
  <2>1. sent_table[id] \in Message /\ sent_table[id] \notin givenUp
    BY <1>3 DEF IInv, TypeOK, SenderOK, EntriesOK
  <2> QED
    BY <1>1, <1>3, <2>1 DEF Resend
<1>4. ASSUME NEW id \in Id, CheckSent(id) \/ ReceiveNACK(id)
      PROVE  [Link!Next]_(Link!linkVars)
  BY <1>3, <1>4 DEF CheckSent, ReceiveNACK, receiverVars
<1>5. ASSUME NEW m \in Message, FinalCallback(m)
      PROVE  [Link!Next]_(Link!linkVars)
  <2>1. m \in accepted /\ handed[m] = 0 /\ handed' = [handed EXCEPT ![m] = 1]
    <3>1. m \in arriving /\ handed' = [handed EXCEPT ![m] = @ + 1]
      BY <1>5 DEF FinalCallback
    <3>2. m \in accepted /\ handed[m] = 0 /\ handed \in [Message -> Nat]
      BY <3>1 DEF IInv, TypeOK, ReceiverOK
    <3> QED
      BY <3>1, <3>2
  <2>2. Link!Deliver(m)
    BY <1>5, <2>1 DEF FinalCallback, senderVars, Link!Deliver
  <2> QED
    BY <2>2 DEF Link!Next
<1>6. ASSUME \/ \E id \in Id : ReceiveAWK(id) \/ UpdateReceived(id) \/ Refuse(id)
             \/ \E m \in Message : DataTransmitStart(m) \/ TakeBurst(m)
                                   \/ DropBurst(m) \/ LoseBurst(m)
             \/ LoseControl
             \/ UNCHANGED vars
      PROVE  UNCHANGED <<accepted, handed, givenUp>>
  BY <1>6 DEF ReceiveAWK, UpdateReceived, Refuse, DataTransmitStart, TakeBurst, DropBurst,
              LoseBurst, LoseControl, vars, senderVars, receiverVars
<1> QED
  BY <1>2, <1>4, <1>5, <1>6 DEF Next

\* The endpoints implement the reliable link for every network, every bound and
\* every id space, a wrapped m_msg_count included: a message is handed up at most
\* once, only after Send accepted it, and given up at most once.
THEOREM LinkSpecHolds == Spec => LinkSpec
<1>1. Init => Link!Init
  BY DEF Init, Link!Init
<1>2. IInv /\ [Next]_vars => [Link!Next]_(Link!linkVars)
  BY StepsOfTheLink
<1> QED
  BY <1>1, <1>2, Invariance, PTL DEF Spec, LinkSpec, Link!Spec
=============================================================================
