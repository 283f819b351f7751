---------------------------- MODULE Installation ----------------------------
(***************************************************************************)
(* How a simulation is put together (helper/optical-helper.cc), and what   *)
(* the optical devices of a node then do in step (UpdateRoutes and         *)
(* BeginReconfigure of model/optical-device.cc).  A script installs links  *)
(* and the internet stack, which adds a loopback device, marks endpoints   *)
(* and initialises every node; the simulator then runs the events, the     *)
(* earliest first and those of one instant in the order of their Schedule  *)
(* calls.  One more event, which may schedule itself again after any       *)
(* delay, stands for all the others: messages, bursts and applications.    *)
(***************************************************************************)
EXTENDS Integers, SequencesExt, FiniteSets

CONSTANTS
  Node,
  Links,            \* the pairs of nodes Install is called for, in any order
  Endpoints,        \* the nodes given to SetEndpoints
  ReconfigureTime,  \* m_reconfigure_time
  SlotDuration,     \* m_timeslot_duration
  ScheduleSize,     \* m_schedule_size
  MaxDelay,         \* bound: delays of the other event
  MaxDrift,         \* bound: what a clock gains
  MaxTime           \* Simulator::Stop

ASSUME InstallationAssumption ==
  /\ Links \subseteq Node \X Node /\ \A link \in Links : link[1] # link[2]
  /\ IsFiniteSet(Links)
  /\ Endpoints \subseteq Node
  /\ {ReconfigureTime, MaxDelay, MaxDrift, MaxTime} \subseteq Nat
  /\ SlotDuration \in Nat \ {0}   \* a timeslot in which something can be sent
  /\ ScheduleSize \in Nat \ {0}

VARIABLES
  dev_count,     \* m_dev_count: the devices are 0, 1, ... and have these addresses
  devices,       \* node |-> its devices by index
  channel,       \* device |-> the two ends of its channel, m_dev0 first
  endpoint,      \* devices with m_is_endpoint
  routes,        \* device |-> m_route_table: address |-> index
  slots,         \* device |-> the keys of m_schedule_table
  reconfiguring, \* devices with m_is_reconfiguring
  begun,         \* history: device |-> how often it began to reconfigure
  failed,        \* whether an assertion failed
  now, queue,    \* the simulator: the instant and the events to come
  gained,        \* node |-> what its clock has gained
  initialized    \* history: the nodes Initialize has come to

setup == <<dev_count, devices, channel, endpoint>>
vars == <<setup, routes, slots, reconfiguring, begun, failed, now, queue, gained, initialized>>

Loopback == -1
Device == 0..(2 * Cardinality(Links) - 1)
Optical(n) == {d \in Device : d \in ToSet(devices[n])}
NodeOf(d) == CHOOSE n \in Node : d \in Optical(n)

Event == [fn : {"BeginReconfigure", "CompleteReconfigure", "Other"},
          dev : Device \cup {Loopback}, at : Nat]

On(fn, d, at) == [fn |-> fn, dev |-> d, at |-> at]

\* Events of several devices at one instant.
Events(fn, ds, at) == [i \in DOMAIN ds |-> On(fn, ds[i], at)]

\* Mutant of Schedule: behind all events.
ScheduleLast(q, fn, ds, at) == q \o Events(fn, ds, at)

\* Simulator::Schedule, called for one device after the other: their events come
\* behind those that are due by their instant.
Schedule(q, fn, ds, at) ==
  LET k == CHOOSE k \in 0..Len(q) : \A i \in DOMAIN q : i <= k <=> q[i].at <= at
  IN SubSeq(q, 1, k) \o Events(fn, ds, at) \o SubSeq(q, k + 1, Len(q))

-----------------------------------------------------------------------------
\* The script.
Linked ==
  {link \in Links : \E d \in DOMAIN channel :
     channel[d][1] \in Optical(link[1]) /\ channel[d][2] \in Optical(link[2])}
Building == initialized = {} /\ endpoint = {}

\* Install makes two devices and attaches both to a new channel.
Install(link) ==
  LET d == dev_count
      Added(n) == IF n = link[1] THEN <<d>> ELSE IF n = link[2] THEN <<d + 1>> ELSE <<>>
  IN /\ Building /\ link \in Links \ Linked
     /\ dev_count' = dev_count + 2
     /\ devices' = [n \in Node |-> devices[n] \o Added(n)]
     /\ channel' = [x \in 0..(d + 1) |-> IF x < d THEN channel[x] ELSE <<d, d + 1>>]
     /\ UNCHANGED <<endpoint, routes, slots, reconfiguring, begun, failed, now, queue, gained,
                    initialized>>

InstallStack(n) ==
  /\ Building /\ ~Contains(devices[n], Loopback)
  /\ devices' = [devices EXCEPT ![n] = Append(@, Loopback)]
  /\ UNCHANGED <<dev_count, channel, endpoint, routes, slots, reconfiguring, begun, failed,
                 now, queue, gained, initialized>>

\* SetEndpoints marks the devices that are there.
SetEndpoints ==
  /\ Building /\ Linked = Links
  /\ endpoint' = UNION {Optical(n) : n \in Endpoints}
  /\ UNCHANGED <<dev_count, devices, channel, routes, slots, reconfiguring, begun, failed,
                 now, queue, gained, initialized>>

\* An event of something else is scheduled before the simulator runs.
ScheduleOther(at) ==
  /\ Linked = Links /\ initialized # Node
  /\ \A i \in DOMAIN queue : queue[i].fn # "Other"
  /\ queue' = Schedule(queue, "Other", <<Loopback>>, at)
  /\ UNCHANGED <<setup, routes, slots, reconfiguring, begun, failed, now, gained, initialized>>

-----------------------------------------------------------------------------
Remote(d) == IF channel[d][1] = d THEN channel[d][2] ELSE channel[d][1]

\* Mutant of RoutesOf: only the optical devices are counted.
RoutesOfCounted(n) ==
  LET optical == RemoveFirst(devices[n], Loopback)
  IN [a \in {Remote(d) : d \in Optical(n)} |->
        CHOOSE i \in 0..(Len(optical) - 1) : Remote(optical[i + 1]) = a]

\* The table UpdateRoutes makes, the same for every device of n.
RoutesOf(n) ==
  [a \in {Remote(d) : d \in Optical(n)} |->
     CHOOSE i \in 0..(Len(devices[n]) - 1) :
       devices[n][i + 1] # Loopback /\ Remote(devices[n][i + 1]) = a]

LocalTime(n) == now + gained[n]

\* The keys of the tables once d has begun: all of them, or those left and one more.
NextSlots(d) ==
  LET start == LocalTime(NodeOf(d)) + ReconfigureTime
      Slot(k) == start + k * (ReconfigureTime + SlotDuration)
  IN IF slots[d] = {} THEN {Slot(k) : k \in 0..(ScheduleSize - 1)}
     ELSE (slots[d] \ {Min(slots[d])}) \cup {Slot(ScheduleSize - 1)}

\* BeginReconfigure of the devices of a sequence, one after the other: each
\* schedules its CompleteReconfigure and the next BeginReconfigure, at two
\* instants that do not mix.
BeginReconfigure(ds, left) ==
  LET complete == now + ReconfigureTime
      next == complete + SlotDuration
  IN /\ failed' = (ToSet(ds) \cap reconfiguring # {} \/ ~IsInjective(ds))
     /\ reconfiguring' = reconfiguring \cup ToSet(ds)
     /\ begun' = [d \in Device |-> begun[d] + Cardinality({i \in DOMAIN ds : ds[i] = d})]
     /\ slots' = [d \in Device |-> IF d \in ToSet(ds) THEN NextSlots(d) ELSE slots[d]]
     /\ queue' = Schedule(Schedule(left, "CompleteReconfigure", ds, complete),
                          "BeginReconfigure", ds, next)

\* Mutant of UpdateRoutes: the other devices of the node are not called.
UpdateRoutesAlone(first, others) == <<first>>

\* The devices UpdateRoutes(true) comes to: it calls the others, then goes on.
UpdateRoutes(first, others) == Append(others, first)

\* Initialize calls UpdateRoutes(true) of the first optical device of the node.
Initialize(n) ==
  LET optical == RemoveFirst(devices[n], Loopback)
      reached == IF optical = <<>> THEN <<>> ELSE UpdateRoutes(Head(optical), Tail(optical))
  IN /\ endpoint # {} /\ n \notin initialized
     /\ initialized' = initialized \cup {n}
     /\ routes' = [d \in Device |-> IF d \in ToSet(reached) THEN RoutesOf(n) ELSE routes[d]]
     /\ BeginReconfigure(reached, queue)
     /\ UNCHANGED <<setup, now, gained>>

-----------------------------------------------------------------------------
\* The simulator: time goes on to the next event, and so do the clocks, then the
\* events of the instant run.
Advance ==
  /\ initialized = Node /\ ~failed
  /\ queue # <<>> /\ now < Head(queue).at /\ Head(queue).at <= MaxTime
  /\ now' = Head(queue).at
  /\ \E faster \in SUBSET Node :
       gained' = [n \in Node |-> IF n \in faster /\ gained[n] < MaxDrift
                                 THEN gained[n] + 1 ELSE gained[n]]
  /\ UNCHANGED <<setup, routes, slots, reconfiguring, begun, failed, queue, initialized>>

Due(fn) ==
  /\ initialized = Node /\ ~failed
  /\ queue # <<>> /\ Head(queue).fn = fn /\ Head(queue).at = now

BeginDue ==
  /\ Due("BeginReconfigure")
  /\ BeginReconfigure(<<Head(queue).dev>>, Tail(queue))
  /\ UNCHANGED <<setup, routes, now, gained, initialized>>

CompleteReconfigure ==
  /\ Due("CompleteReconfigure")
  /\ failed' = (Head(queue).dev \notin reconfiguring)
  /\ reconfiguring' = reconfiguring \ {Head(queue).dev}
  /\ queue' = Tail(queue)
  /\ UNCHANGED <<setup, routes, slots, begun, now, gained, initialized>>

OtherRuns ==
  /\ Due("Other")
  /\ \/ queue' = Tail(queue)
     \/ \E delay \in 0..MaxDelay :
          queue' = Schedule(Tail(queue), "Other", <<Loopback>>, now + delay)
  /\ UNCHANGED <<setup, routes, slots, reconfiguring, begun, failed, now, gained, initialized>>

Init ==
  /\ dev_count = 0
  /\ devices = [n \in Node |-> <<>>]
  /\ channel = <<>>
  /\ endpoint = {}
  /\ routes = [d \in Device |-> <<>>]
  /\ slots = [d \in Device |-> {}]
  /\ reconfiguring = {} /\ failed = FALSE
  /\ begun = [d \in Device |-> 0]
  /\ now = 0 /\ queue = <<>>
  /\ gained = [n \in Node |-> 0]
  /\ initialized = {}

Next ==
  \/ \E link \in Links : Install(link)
  \/ \E n \in Node : InstallStack(n)
  \/ SetEndpoints
  \/ \E n \in Node : Initialize(n)
  \/ \E at \in 0..MaxDelay : ScheduleOther(at)
  \/ Advance
  \/ BeginDue
  \/ CompleteReconfigure
  \/ OtherRuns

Spec == Init /\ [][Next]_vars

-----------------------------------------------------------------------------
(***************************************************************************)
(* Properties.                                                             *)
(***************************************************************************)
TypeOK ==
  /\ dev_count \in Nat
  /\ devices \in [Node -> Seq(Device \cup {Loopback})]
  /\ DOMAIN channel = 0..(dev_count - 1)
  /\ \A d \in DOMAIN channel : channel[d] \in Seq(Device) /\ Len(channel[d]) = 2
  /\ endpoint \subseteq Device /\ reconfiguring \subseteq Device
  /\ DOMAIN routes = Device
  /\ slots \in [Device -> SUBSET Nat]
  /\ begun \in [Device -> Nat]
  /\ failed \in BOOLEAN /\ now \in Nat
  /\ queue \in Seq(Event)
  /\ \A i, j \in DOMAIN queue : i < j => queue[i].at <= queue[j].at
  /\ gained \in [Node -> 0..MaxDrift]
  /\ initialized \subseteq Node

\* The route every device of an initialized node has for the address of a neighbour
\* is the index of the device whose fibre leads there, wherever the loopback device
\* got in between.
RoutesLead ==
  \A n \in initialized : \A d \in Optical(n) :
    /\ DOMAIN routes[d] = {Remote(x) : x \in Optical(n)}
    /\ \A a \in DOMAIN routes[d] :
         LET by == devices[n][routes[d][a] + 1] IN by # Loopback /\ Remote(by) = a

\* The devices of a node begin and complete their reconfigurations one right after
\* the other: no event of anything else comes between, though it may be due in the
\* same instant, and none is told to reconfigure while it does.  Their slots are then
\* the same instants, m_schedule_size of them, also on a clock that drifts: "Tx list
\* should have same timeslots as sched", says ScheduleMessage, which looks a slot of
\* one device up in the list of another.
InStep ==
  /\ ~failed
  /\ \A n \in initialized : \A d, e \in Optical(n) :
       /\ Cardinality(slots[d]) = ScheduleSize
       /\ begun[d] = begun[e] => slots[d] = slots[e]
       /\ \/ begun[d] = begun[e] /\ (d \in reconfiguring <=> e \in reconfiguring)
          \/ queue # <<>> /\ Head(queue).fn # "Other" /\ Head(queue).dev \in Optical(n)
=============================================================================
