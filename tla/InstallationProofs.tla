-------------------------- MODULE InstallationProofs --------------------------
(***************************************************************************)
(* Proofs about the installation, for any network, any order of the calls  *)
(* of a script and any times: the tables have their types, routes lead to  *)
(* the neighbours, and the devices of a node reconfigure in step.          *)
(*                                                                         *)
(* The last rests on the order in which the simulator runs the events of   *)
(* one instant.  The devices of a node schedule theirs one right after the *)
(* other, so they stand one behind the other in the queue, and run so; and *)
(* the new ones go behind all that is due by their instant, so behind      *)
(* those of the devices of the node that went before.                      *)
(***************************************************************************)
EXTENDS Installation, SequencesExt, SequenceTheorems, WellFoundedInduction,
        FiniteSetTheorems, TLAPS

\* The search loops find a first match whenever there is one.
LEMMA SetHasMin ==
  ASSUME NEW S \in SUBSET Nat, S # {}
  PROVE  \E x \in S : \A y \in S : x <= y
<1>1. PICK x \in S : \A y \in S : ~ (<<y, x>> \in OpToRel(<, Nat))
  BY WFMin, NatLessThanWellFounded
<1>2. \A y \in S : ~(y < x)
  BY <1>1 DEF OpToRel
<1> QED BY <1>2

\* vector::erase keeps the other items, in their order.
LEMMA RemoveAtElements ==
  ASSUME NEW S, NEW s \in Seq(S), NEW k \in 1..Len(s)
  PROVE  /\ RemoveAt(s, k) \in Seq(S)
         /\ Len(RemoveAt(s, k)) = Len(s) - 1
         /\ \A i \in 1..(Len(s) - 1) : RemoveAt(s, k)[i] = IF i < k THEN s[i] ELSE s[i + 1]
<1> DEFINE a == SubSeq(s, 1, k - 1)
           b == SubSeq(s, k + 1, Len(s))
<1>1. /\ a \in Seq(S) /\ Len(a) = k - 1 /\ \A i \in 1..(k - 1) : a[i] = s[i]
  BY SubSeqProperties
<1>2. /\ b \in Seq(S) /\ Len(b) = Len(s) - k /\ \A i \in 1..(Len(s) - k) : b[i] = s[k + i]
  BY SubSeqProperties
<1>3. RemoveAt(s, k) = a \o b
  BY DEF RemoveAt
<1>4. Len(s) \in Nat
  BY LenProperties
<1> HIDE DEF a, b
<1>5. /\ a \o b \in Seq(S) /\ Len(a \o b) = Len(a) + Len(b)
      /\ \A i \in 1..(Len(a) + Len(b)) :
           (a \o b)[i] = IF i <= Len(a) THEN a[i] ELSE b[i - Len(a)]
  BY <1>1, <1>2, ConcatProperties
<1>6. Len(a) + Len(b) = Len(s) - 1
  BY <1>1, <1>2, <1>4
<1>7. ASSUME NEW i \in 1..(Len(s) - 1)
      PROVE  (a \o b)[i] = IF i < k THEN s[i] ELSE s[i + 1]
  <2>0. (a \o b)[i] = IF i <= k - 1 THEN a[i] ELSE b[i - (k - 1)]
    BY <1>1, <1>5, <1>6
  <2>1. CASE i < k
    <3>1. i \in 1..(k - 1) /\ i <= k - 1
      BY <1>4, <2>1
    <3> QED
      BY <1>1, <2>0, <2>1, <3>1
  <2>2. CASE ~(i < k)
    <3>1. i - (k - 1) \in 1..(Len(s) - k) /\ k + (i - (k - 1)) = i + 1 /\ ~(i <= k - 1)
      BY <1>4, <2>2
    <3> QED
      BY <1>2, <2>0, <2>2, <3>1
  <2> QED
    BY <2>1, <2>2
<1> QED
  BY <1>3, <1>5, <1>6, <1>7


Installed == 0..(dev_count - 1)

\* Every device is in one place of one node, and so is a loopback device.
SetupOK ==
  /\ dev_count = 2 * Cardinality(Linked)
  /\ devices \in [Node -> Seq(Installed \cup {Loopback})]
  /\ \A n, m \in Node : \A i \in DOMAIN devices[n], j \in DOMAIN devices[m] :
       devices[n][i] = devices[m][j] /\ devices[n][i] # Loopback => n = m /\ i = j
  /\ \A n \in Node : \A i, j \in DOMAIN devices[n] : devices[n][i] = devices[n][j] => i = j
  /\ \A d \in Installed : \E n \in Node : d \in Optical(n)
  /\ DOMAIN channel = Installed
  /\ \A d \in Installed : channel[d] \in Seq(Installed) /\ Len(channel[d]) = 2
  /\ endpoint \subseteq Installed

\* What a node that was not initialized has not done.
Asleep ==
  /\ \A d \in Device : slots[d] # {} \/ begun[d] # 0 \/ d \in reconfiguring =>
       d \in Installed /\ NodeOf(d) \in initialized
  /\ \A i \in DOMAIN queue : queue[i].fn # "Other" =>
       queue[i].dev \in Installed /\ NodeOf(queue[i].dev) \in initialized

Sorted(q) == \A i, j \in DOMAIN q : i < j => q[i].at <= q[j].at

\* The types of what runs.
RunOK ==
  /\ reconfiguring \subseteq Device
  /\ DOMAIN routes = Device
  /\ slots \in [Device -> SUBSET Nat]
  /\ begun \in [Device -> Nat]
  /\ failed \in BOOLEAN /\ now \in Nat
  /\ queue \in Seq(Event) /\ Sorted(queue)
  /\ gained \in [Node -> 0..MaxDrift]
  /\ initialized \subseteq Node

IInv ==
  /\ SetupOK /\ RunOK /\ Asleep
  /\ endpoint = {} => initialized = {}
  /\ \A n \in initialized : \A d \in Optical(n) : routes[d] = RoutesOf(n)


LEMMA Constants ==
  /\ ReconfigureTime \in Nat /\ SlotDuration \in Nat /\ SlotDuration > 0
  /\ MaxDelay \in Nat /\ MaxDrift \in Nat /\ MaxTime \in Nat
  /\ ScheduleSize \in Nat /\ ScheduleSize > 0
  /\ IsFiniteSet(Links) /\ Cardinality(Links) \in Nat
  /\ Device = 0..(2 * Cardinality(Links) - 1)
BY InstallationAssumption, FS_CardinalityType DEF Device

\* The devices that are there are some of those there will be.
LEMMA InstalledIs ==
  ASSUME SetupOK
  PROVE  /\ dev_count \in Nat /\ IsFiniteSet(Linked) /\ Cardinality(Linked) \in Nat
         /\ Installed \subseteq Device /\ Loopback \notin Installed
<1>1. /\ IsFiniteSet(Linked) /\ Cardinality(Linked) \in Nat
      /\ Cardinality(Linked) <= Cardinality(Links)
  BY Constants, FS_Subset, FS_CardinalityType DEF Linked
<1>2. Cardinality(Links) \in Nat /\ Device = 0..(2 * Cardinality(Links) - 1)
  BY Constants
<1>3. dev_count = 2 * Cardinality(Linked)
  BY DEF SetupOK
<1> QED
  BY <1>1, <1>2, <1>3 DEF Installed, Loopback

LEMMA OpticalIs ==
  ASSUME SetupOK, NEW n \in Node
  PROVE  /\ Optical(n) \subseteq Installed
         /\ \A d : d \in Optical(n) <=> d # Loopback /\ \E i \in DOMAIN devices[n] : devices[n][i] = d
         /\ \A m \in Node, d \in Optical(n) : d \in Optical(m) => m = n
         /\ \A d \in Optical(n) : NodeOf(d) = n
<1>1. devices[n] \in Seq(Installed \cup {Loopback})
  BY DEF SetupOK
<1>2. \A i \in DOMAIN devices[n] : devices[n][i] \in Installed \cup {Loopback}
  BY <1>1, ElementOfSeq, LenProperties
<1>3. \A d : d \in Optical(n) <=> d # Loopback /\ \E i \in DOMAIN devices[n] : devices[n][i] = d
  BY <1>2, InstalledIs DEF Optical, ToSet, Loopback, Device
<1>4. \A m \in Node, d \in Optical(n) : d \in Optical(m) => m = n
  <2>1. \A m \in Node : \A d \in Optical(m) : \E j \in DOMAIN devices[m] : devices[m][j] = d
    BY DEF Optical, ToSet
  <2> QED
    BY <1>3, <2>1 DEF SetupOK
<1>5. Optical(n) \subseteq Installed
  BY <1>2, <1>3
<1> QED
  BY <1>3, <1>4, <1>5 DEF NodeOf

LEMMA InstalledHasNode ==
  ASSUME SetupOK, NEW d \in Installed
  PROVE  NodeOf(d) \in Node /\ d \in Optical(NodeOf(d))
<1>1. PICK n \in Node : d \in Optical(n)
  BY DEF SetupOK
<1> QED
  BY <1>1, OpticalIs

-----------------------------------------------------------------------------
(***************************************************************************)
(* The script.                                                             *)
(***************************************************************************)
\* The devices of a node after a call of Install.
AddedTo(n, link, d) ==
  IF n = link[1] THEN <<d>> ELSE IF n = link[2] THEN <<d + 1>> ELSE <<>>

LEMMA InstallDevices ==
  ASSUME SetupOK, NEW link \in Links, Install(link), NEW n \in Node
  PROVE  LET s == devices[n]
             t == devices'[n]
             a == AddedTo(n, link, dev_count)
         IN /\ t = s \o a /\ s \in Seq(Installed \cup {Loopback})
            /\ t \in Seq(0..(dev_count + 1) \cup {Loopback})
            /\ Len(t) = Len(s) + Len(a) /\ Len(s) \in Nat /\ Len(a) \in 0..1
            /\ DOMAIN s = 1..Len(s) /\ DOMAIN t = 1..Len(t)
            /\ \A i \in 1..Len(s) : t[i] = s[i]
            /\ Len(a) = 1 => t[Len(s) + 1] = a[1]
<1> DEFINE s == devices[n]
           t == devices'[n]
           a == AddedTo(n, link, dev_count)
           S == 0..(dev_count + 1) \cup {Loopback}
<1>1. t = s \o a
  BY DEF Install, AddedTo, SetupOK
<1>2. s \in Seq(Installed \cup {Loopback}) /\ dev_count \in Nat
  BY InstalledIs DEF SetupOK
<1>3. Installed \cup {Loopback} \subseteq S
  BY <1>2 DEF Installed
<1>4. s \in Seq(S)
  BY <1>2, <1>3, SeqMonotonic
<1>5. a \in Seq(S) /\ Len(a) \in 0..1
  <2>1. dev_count \in S /\ dev_count + 1 \in S
    BY <1>2
  <2> HIDE DEF S
  <2>2. <<>> \in Seq(S) /\ <<dev_count>> \in Seq(S) /\ <<dev_count + 1>> \in Seq(S)
    BY <2>1
  <2>3. Len(<<>>) \in 0..1 /\ Len(<<dev_count>>) \in 0..1 /\ Len(<<dev_count + 1>>) \in 0..1
    OBVIOUS
  <2> QED
    BY <2>2, <2>3 DEF AddedTo
<1>6. /\ t \in Seq(S) /\ Len(t) = Len(s) + Len(a)
      /\ \A i \in 1..(Len(s) + Len(a)) : t[i] = IF i <= Len(s) THEN s[i] ELSE a[i - Len(s)]
  BY <1>1, <1>4, <1>5, ConcatProperties
<1>7. Len(s) \in Nat /\ DOMAIN s = 1..Len(s) /\ DOMAIN t = 1..Len(t)
  BY <1>4, <1>6, LenProperties
<1>8. \A i \in 1..Len(s) : t[i] = s[i]
  BY <1>5, <1>6, <1>7
<1>9. Len(a) = 1 => t[Len(s) + 1] = a[1]
  BY <1>6, <1>7
<1> QED
  BY <1>1, <1>2, <1>5, <1>6, <1>7, <1>8, <1>9

\* A call of Install adds one device to each end of the link.
LEMMA InstallAdds ==
  ASSUME SetupOK, NEW link \in Links, Install(link), NEW n \in Node
  PROVE  /\ \A i \in DOMAIN devices'[n] :
              \/ i \in DOMAIN devices[n] /\ devices'[n][i] = devices[n][i]
              \/ /\ i = Len(devices[n]) + 1
                 /\ devices'[n][i] = IF n = link[1] THEN dev_count ELSE dev_count + 1
                 /\ n \in {link[1], link[2]}
         /\ \A i \in DOMAIN devices[n] : i \in DOMAIN devices'[n] /\ devices'[n][i] = devices[n][i]
         /\ n = link[1] => \E i \in DOMAIN devices'[n] : devices'[n][i] = dev_count
         /\ n = link[2] => \E i \in DOMAIN devices'[n] : devices'[n][i] = dev_count + 1
         /\ link[1] # link[2] /\ link[1] \in Node /\ link[2] \in Node /\ link = <<link[1], link[2]>>
<1> DEFINE s == devices[n]
           t == devices'[n]
           a == AddedTo(n, link, dev_count)
<1>0. /\ Len(t) = Len(s) + Len(a) /\ Len(s) \in Nat
      /\ DOMAIN s = 1..Len(s) /\ DOMAIN t = 1..Len(t)
      /\ \A i \in 1..Len(s) : t[i] = s[i]
      /\ Len(a) = 1 => t[Len(s) + 1] = a[1]
  BY InstallDevices
<1>1. link \in Node \X Node /\ link[1] # link[2]
  BY InstallationAssumption
<1>2. CASE n = link[1]
  <2>1. a = <<dev_count>> /\ Len(a) = 1 /\ a[1] = dev_count
    BY <1>2 DEF AddedTo
  <2> HIDE DEF a
  <2>2. DOMAIN t = 1..(Len(s) + 1) /\ t[Len(s) + 1] = dev_count
    BY <1>0, <2>1
  <2> QED
    BY <1>0, <1>1, <1>2, <2>2
<1>3. CASE n = link[2]
  <2>1. a = <<dev_count + 1>> /\ Len(a) = 1 /\ a[1] = dev_count + 1
    BY <1>1, <1>3 DEF AddedTo
  <2> HIDE DEF a
  <2>2. DOMAIN t = 1..(Len(s) + 1) /\ t[Len(s) + 1] = dev_count + 1
    BY <1>0, <2>1
  <2>3. n # link[1]
    BY <1>1, <1>3
  <2>4. \A i \in DOMAIN t : i \in DOMAIN s \/ i = Len(s) + 1
    BY <1>0, <2>2
  <2>5. Len(s) + 1 \in DOMAIN t /\ DOMAIN s \subseteq DOMAIN t
    BY <1>0, <2>2
  <2> HIDE DEF s, t
  <2>6. \A i \in DOMAIN s : t[i] = s[i]
    BY <1>0
  <2> QED
    BY <1>1, <1>3, <2>2, <2>3, <2>4, <2>5, <2>6 DEF s, t
<1>4. CASE n # link[1] /\ n # link[2]
  <2>1. a = <<>> /\ Len(a) = 0
    BY <1>4 DEF AddedTo
  <2> HIDE DEF a
  <2>2. DOMAIN t = DOMAIN s
    BY <1>0, <2>1
  <2> QED
    BY <1>0, <1>1, <1>4, <2>2
<1> QED
  BY <1>2, <1>3, <1>4

LEMMA InstallOptical ==
  ASSUME SetupOK, NEW link \in Links, Install(link), NEW d \in Nat, d = dev_count,
         NEW e \in Nat, e = d + 1
  PROVE  /\ d \in Device /\ e \in Device /\ d \notin Installed /\ e \notin Installed
         /\ \A n \in Node : Optical(n)' =
              Optical(n) \cup {x \in {d, e} : n = IF x = d THEN link[1] ELSE link[2]}
         /\ \A x \in Installed : NodeOf(x)' = NodeOf(x)
         /\ NodeOf(d)' = link[1] /\ NodeOf(e)' = link[2]
<1>1. link \notin Linked /\ Linked \subseteq Links /\ dev_count = 2 * Cardinality(Linked)
  BY DEF Install, SetupOK, Linked
<1>2. /\ IsFiniteSet(Linked \cup {link}) /\ Cardinality(Linked \cup {link}) = Cardinality(Linked) + 1
      /\ Linked \cup {link} \subseteq Links
  BY <1>1, FS_AddElement, InstalledIs
<1>3. /\ Cardinality(Linked) + 1 <= Cardinality(Links)
      /\ Cardinality(Linked) \in Nat /\ Cardinality(Links) \in Nat
  BY <1>2, FS_Subset, Constants, InstalledIs
<1>4. d \in Nat /\ d \in Device /\ e \in Device
  BY <1>1, <1>3, Constants
<1>5. link[1] \in Node /\ link[2] \in Node /\ link[1] # link[2]
  BY InstallationAssumption
<1>6. ASSUME NEW n \in Node
      PROVE  Optical(n)' = Optical(n) \cup {x \in {d, e} : n = IF x = d THEN link[1] ELSE link[2]}
  <2>1. \A x : x \in Optical(n)' <=> x \in Device /\ \E i \in DOMAIN devices'[n] : devices'[n][i] = x
    BY DEF Optical, ToSet
  <2>2. \A x : x \in Optical(n) <=> x \in Device /\ \E i \in DOMAIN devices[n] : devices[n][i] = x
    BY DEF Optical, ToSet
  <2>3. d # e
    BY <1>4
  <2> QED
    BY <1>4, <1>5, <2>1, <2>2, <2>3, InstallAdds
<1>7. d \notin Installed /\ e \notin Installed /\ d # e
  BY <1>4 DEF Installed
<1>8. \A n \in Node : d \notin Optical(n) /\ e \notin Optical(n)
  BY <1>7, OpticalIs
<1>9. \A x \in Installed : NodeOf(x)' = NodeOf(x)
  <2> SUFFICES ASSUME NEW x \in Installed PROVE NodeOf(x)' = NodeOf(x)
    OBVIOUS
  <2>1. \A n \in Node : x \in Optical(n)' <=> x \in Optical(n)
    BY <1>6, <1>7
  <2> QED
    BY <2>1 DEF NodeOf
<1>10. NodeOf(d)' = link[1]
  <2>1. \A n \in Node : d \in Optical(n)' <=> n = link[1]
    BY <1>6, <1>7, <1>8
  <2> QED
    BY <1>5, <2>1 DEF NodeOf
<1>11. NodeOf(e)' = link[2]
  <2>1. \A n \in Node : e \in Optical(n)' <=> n = link[2]
    BY <1>6, <1>7, <1>8
  <2> QED
    BY <1>5, <2>1 DEF NodeOf
<1> QED
  BY <1>4, <1>6, <1>7, <1>9, <1>10, <1>11

LEMMA InstallLinks ==
  ASSUME SetupOK, NEW link \in Links, Install(link)
  PROVE  /\ Linked' = Linked \cup {link} /\ link \notin Linked
         /\ \A d \in Installed' : channel'[d] \in Seq(Installed') /\ Len(channel'[d]) = 2
         /\ DOMAIN channel' = Installed'
         /\ Installed' = Installed \cup {dev_count, dev_count + 1}
<1>1. PICK d \in Nat : d = dev_count
  BY InstalledIs
<1>2. PICK e \in Nat : e = d + 1
  OBVIOUS
<1> DEFINE new == <<d, e>>
<1>3. Installed = 0..(d - 1) /\ Installed' = 0..e /\ d - 1 < d
  BY <1>1, <1>2 DEF Installed, Install
<1>4. Installed' = Installed \cup {d, e} /\ d \in Installed' /\ e \in Installed'
  BY <1>2, <1>3
<1>5. /\ DOMAIN channel' = Installed'
      /\ \A x \in Installed : channel'[x] = channel[x]
      /\ channel'[d] = new /\ channel'[e] = new
  <2>1. channel' = [x \in 0..e |-> IF x < d THEN channel[x] ELSE new]
    BY <1>1, <1>2 DEF Install
  <2> HIDE DEF new
  <2>2. \A x \in Installed : x < d /\ x \in 0..e
    BY <1>2, <1>3
  <2>3. d \in 0..e /\ e \in 0..e /\ ~(d < d) /\ ~(e < d)
    BY <1>2
  <2> QED
    BY <1>3, <2>1, <2>2, <2>3
<1>6. new \in Seq(Installed') /\ Len(new) = 2 /\ new[1] = d /\ new[2] = e
  BY <1>4
<1> HIDE DEF new
<1>7. \A x \in Installed : channel[x] \in Seq(Installed) /\ Len(channel[x]) = 2
  BY DEF SetupOK
<1>8. \A x \in Installed : channel[x] \in Seq(Installed')
  BY <1>4, <1>7, SeqMonotonic
<1>9. \A x \in Installed : channel[x][1] \in Installed /\ channel[x][2] \in Installed
  BY <1>7, ElementOfSeq
<1>10. DOMAIN channel = Installed /\ link \notin Linked /\ link \in Links
  BY DEF SetupOK, Install
<1>11. ASSUME NEW l \in Links
       PROVE  l \in Linked' <=> l \in Linked \/ l = link
  <2>0. /\ l[1] \in Node /\ l[2] \in Node /\ l = <<l[1], l[2]>>
        /\ link[1] \in Node /\ link[2] \in Node /\ link = <<link[1], link[2]>>
        /\ link[1] # link[2]
    BY InstallationAssumption
  <2>1. l \in Linked' <=> \E x \in Installed' :
          channel'[x][1] \in Optical(l[1])' /\ channel'[x][2] \in Optical(l[2])'
    BY <1>5 DEF Linked
  <2>2. l \in Linked <=> \E x \in Installed :
          channel[x][1] \in Optical(l[1]) /\ channel[x][2] \in Optical(l[2])
    BY <1>10 DEF Linked
  <2>3. /\ d \notin Installed /\ e \notin Installed /\ d # e
        /\ \A n \in Node : Optical(n)' =
             Optical(n) \cup {x \in {d, e} : n = IF x = d THEN link[1] ELSE link[2]}
    BY <1>1, <1>2, InstallOptical
  <2>4. \A n \in Node : \A x \in Installed : x \in Optical(n)' <=> x \in Optical(n)
    BY <2>3
  <2>5. \A n \in Node : (d \in Optical(n)' <=> n = link[1]) /\ (e \in Optical(n)' <=> n = link[2])
    <3>1. \A n \in Node : d \notin Optical(n) /\ e \notin Optical(n)
      BY <2>3, OpticalIs
    <3> QED
      BY <2>3, <3>1
  <2>6. \A x \in Installed :
          channel'[x][1] \in Optical(l[1])' /\ channel'[x][2] \in Optical(l[2])' <=>
            channel[x][1] \in Optical(l[1]) /\ channel[x][2] \in Optical(l[2])
    BY <1>5, <1>9, <2>0, <2>4
  <2>7. \A x \in {d, e} :
          channel'[x][1] \in Optical(l[1])' /\ channel'[x][2] \in Optical(l[2])' <=> l = link
    BY <1>5, <1>6, <2>0, <2>5
  <2> QED
    BY <1>4, <2>1, <2>2, <2>6, <2>7
<1>12. Linked' = Linked \cup {link}
  BY <1>10, <1>11 DEF Linked
<1>13. \A x \in Installed' : channel'[x] \in Seq(Installed') /\ Len(channel'[x]) = 2
  BY <1>4, <1>5, <1>6, <1>7, <1>8
<1> QED
  BY <1>1, <1>2, <1>4, <1>5, <1>10, <1>12, <1>13

LEMMA InstallSetup ==
  ASSUME SetupOK, NEW link \in Links, Install(link)
  PROVE  SetupOK'
<1>1. PICK d \in Nat : d = dev_count
  BY InstalledIs
<1>2. PICK e \in Nat : e = d + 1
  OBVIOUS
<1>3. /\ d \notin Installed /\ e \notin Installed /\ d # e
      /\ \A n \in Node : Optical(n)' =
           Optical(n) \cup {x \in {d, e} : n = IF x = d THEN link[1] ELSE link[2]}
  BY <1>1, <1>2, InstallOptical
<1>4. /\ link[1] # link[2] /\ link[1] \in Node /\ link[2] \in Node
  BY InstallationAssumption
<1>5. Installed' = Installed \cup {d, e}
  BY <1>1, <1>2, InstallLinks
<1>6. dev_count' = 2 * Cardinality(Linked')
  <2>1. Cardinality(Linked \cup {link}) = Cardinality(Linked) + 1 /\ Cardinality(Linked) \in Nat
    BY FS_AddElement, InstalledIs, InstallLinks
  <2>2. dev_count' = dev_count + 2 /\ dev_count = 2 * Cardinality(Linked)
    BY DEF Install, SetupOK
  <2>3. Linked' = Linked \cup {link}
    BY InstallLinks
  <2>4. Cardinality(Linked') = Cardinality(Linked) + 1
    BY <2>1, <2>3
  <2> QED
    BY <2>1, <2>2, <2>4
<1>7. devices' \in [Node -> Seq(Installed' \cup {Loopback})]
  <2>1. devices' = [n \in Node |-> devices'[n]]
    BY DEF Install
  <2>2. 0..(dev_count + 1) = Installed'
    BY <1>1 DEF Install, Installed
  <2>3. \A n \in Node : devices'[n] \in Seq(Installed' \cup {Loopback})
    BY <2>2, InstallDevices
  <2> QED
    BY <2>1, <2>3
<1>8. ASSUME NEW n \in Node, NEW i \in DOMAIN devices'[n]
      PROVE  \/ i \in DOMAIN devices[n] /\ devices'[n][i] = devices[n][i]
                /\ devices[n][i] # d /\ devices[n][i] # e
             \/ i = Len(devices[n]) + 1 /\ devices'[n][i] = d /\ n = link[1]
             \/ i = Len(devices[n]) + 1 /\ devices'[n][i] = e /\ n = link[2]
  <2>1. devices[n] \in Seq(Installed \cup {Loopback})
    BY DEF SetupOK
  <2>2. \A j \in DOMAIN devices[n] : devices[n][j] \in Installed \cup {Loopback}
    BY <2>1, ElementOfSeq, LenProperties
  <2>3. d # Loopback /\ e # Loopback
    BY <1>2 DEF Loopback
  <2> QED
    BY <1>1, <1>2, <1>3, <1>4, <2>2, <2>3, InstallAdds
<1>9. ASSUME NEW n \in Node, NEW m \in Node,
             NEW i \in DOMAIN devices'[n], NEW j \in DOMAIN devices'[m],
             devices'[n][i] = devices'[m][j], devices'[n][i] # Loopback
      PROVE  n = m /\ i = j
  <2>1. i \in DOMAIN devices[n] /\ j \in DOMAIN devices[m] /\ devices[n][i] = devices[m][j]
          /\ devices[n][i] # Loopback => n = m /\ i = j
    BY DEF SetupOK
  <2> QED
    BY <1>3, <1>4, <1>8, <1>9, <2>1
<1>10. ASSUME NEW n \in Node, NEW i \in DOMAIN devices'[n], NEW j \in DOMAIN devices'[n],
              devices'[n][i] = devices'[n][j]
       PROVE  i = j
  <2>1. i \in DOMAIN devices[n] /\ j \in DOMAIN devices[n] /\ devices[n][i] = devices[n][j]
          => i = j
    BY DEF SetupOK
  <2> QED
    BY <1>3, <1>4, <1>8, <1>10, <2>1
<1>11. \A x \in Installed' : \E n \in Node : x \in Optical(n)'
  BY <1>3, <1>4, <1>5 DEF SetupOK
<1>12. endpoint' \subseteq Installed'
  BY <1>5 DEF Install, SetupOK
<1> QED
  BY <1>6, <1>7, <1>9, <1>10, <1>11, <1>12, InstallLinks DEF SetupOK

\* The stack adds no optical device.
LEMMA StackSetup ==
  ASSUME SetupOK, NEW n \in Node, InstallStack(n)
  PROVE  SetupOK' /\ \A m \in Node : Optical(m)' = Optical(m)
<1> DEFINE S == Installed \cup {Loopback}
           s == devices[n]
<1>1. s \in Seq(S) /\ Loopback \in S /\ devices \in [Node -> Seq(S)]
  BY DEF SetupOK
<1>2. devices' = [devices EXCEPT ![n] = Append(s, Loopback)]
  BY DEF InstallStack
<1>3. \A i \in DOMAIN s : s[i] # Loopback
  BY <1>1, LenProperties DEF InstallStack, Contains
<1>4. UNCHANGED <<dev_count, channel, endpoint>> /\ Installed' = Installed
  BY DEF InstallStack, Installed
<1> HIDE DEF S
<1>5. /\ Append(s, Loopback) \in Seq(S)
      /\ DOMAIN s = 1..Len(s) /\ DOMAIN Append(s, Loopback) = 1..(Len(s) + 1) /\ Len(s) \in Nat
      /\ \A i \in DOMAIN s : Append(s, Loopback)[i] = s[i]
      /\ Append(s, Loopback)[Len(s) + 1] = Loopback
  <2>1. /\ Append(s, Loopback) \in Seq(S) /\ Len(Append(s, Loopback)) = Len(s) + 1
        /\ \A i \in 1..Len(s) : Append(s, Loopback)[i] = s[i]
        /\ Append(s, Loopback)[Len(s) + 1] = Loopback
    BY <1>1, AppendProperties
  <2>2. Len(s) \in Nat /\ DOMAIN s = 1..Len(s) /\ DOMAIN Append(s, Loopback) = 1..(Len(s) + 1)
    BY <1>1, <2>1, LenProperties
  <2> QED
    BY <2>1, <2>2
<1>6. devices' \in [Node -> Seq(S)]
  BY <1>1, <1>2, <1>5
<1>7. \A m \in Node : \A i \in DOMAIN devices'[m] :
        \/ i \in DOMAIN devices[m] /\ devices'[m][i] = devices[m][i]
        \/ m = n /\ i = Len(s) + 1 /\ devices'[m][i] = Loopback
  BY <1>1, <1>2, <1>5
<1>8. \A m \in Node : \A i \in DOMAIN devices[m] :
        i \in DOMAIN devices'[m] /\ devices'[m][i] = devices[m][i]
  BY <1>1, <1>2, <1>5
<1>9. ASSUME NEW m \in Node
      PROVE  Optical(m)' = Optical(m)
  <2>1. Loopback \notin Device
    BY Constants DEF Loopback
  <2>2. \A x \in Device : (\E i \in DOMAIN devices'[m] : devices'[m][i] = x) <=>
                          (\E i \in DOMAIN devices[m] : devices[m][i] = x)
    BY <1>7, <1>8, <2>1
  <2> QED
    BY <2>2 DEF Optical, ToSet
<1>10. Linked' = Linked
  <2>1. \A l \in Links : l[1] \in Node /\ l[2] \in Node
    BY InstallationAssumption
  <2> QED
    BY <1>4, <1>9, <2>1 DEF Linked
<1>11. \A m, k \in Node : \A i \in DOMAIN devices'[m], j \in DOMAIN devices'[k] :
         devices'[m][i] = devices'[k][j] /\ devices'[m][i] # Loopback => m = k /\ i = j
  BY <1>7 DEF SetupOK
<1>12. \A m \in Node : \A i, j \in DOMAIN devices'[m] : devices'[m][i] = devices'[m][j] => i = j
  <2> SUFFICES ASSUME NEW m \in Node, NEW i \in DOMAIN devices'[m], NEW j \in DOMAIN devices'[m],
                      devices'[m][i] = devices'[m][j]
               PROVE  i = j
    OBVIOUS
  <2>1. CASE m # n
    BY <1>7, <2>1 DEF SetupOK
  <2>2. CASE m = n
    BY <1>3, <1>7, <2>2 DEF SetupOK
  <2> QED
    BY <2>1, <2>2
<1> QED
  BY <1>4, <1>6, <1>9, <1>10, <1>11, <1>12 DEF SetupOK, S

LEMMA EndpointsSetup ==
  ASSUME SetupOK, SetEndpoints
  PROVE  SetupOK' /\ \A m \in Node : Optical(m)' = Optical(m)
<1>1. UNCHANGED <<dev_count, devices, channel>>
  BY DEF SetEndpoints
<1>2. \A m : Optical(m)' = Optical(m)
  BY <1>1 DEF Optical
<1>3. Linked' = Linked
  BY <1>1, <1>2 DEF Linked
<1>4. endpoint' \subseteq Installed
  BY InstallationAssumption, OpticalIs DEF SetEndpoints
<1> QED
  BY <1>1, <1>2, <1>3, <1>4 DEF SetupOK, Installed

LEMMA SameSetup ==
  ASSUME SetupOK, UNCHANGED setup
  PROVE  /\ SetupOK' /\ Installed' = Installed
         /\ \A m : Optical(m)' = Optical(m)
         /\ \A d : NodeOf(d)' = NodeOf(d) /\ Remote(d)' = Remote(d)
<1>1. UNCHANGED <<dev_count, devices, channel, endpoint>>
  BY DEF setup
<1>2. \A m : Optical(m)' = Optical(m)
  BY <1>1 DEF Optical
<1>3. Linked' = Linked
  BY <1>1, <1>2 DEF Linked
<1>4. \A d : NodeOf(d)' = NodeOf(d)
  BY <1>2 DEF NodeOf
<1>5. \A d : Remote(d)' = Remote(d)
  BY <1>1 DEF Remote
<1> QED
  BY <1>1, <1>2, <1>3, <1>4, <1>5 DEF SetupOK, Installed

-----------------------------------------------------------------------------
(***************************************************************************)
(* The queue of the simulator.                                             *)
(***************************************************************************)
Kind == {"BeginReconfigure", "CompleteReconfigure", "Other"}

\* Where an item of a list is once L others were put in behind the first k.
Moved(i, k, L) == IF i <= k THEN i ELSE i + L

\* Schedule puts the new events behind the first k, those due by their instant.
Put(q, fn, ds, at, k, r) ==
  /\ r \in Seq(Event) /\ DOMAIN r = 1..(Len(q) + Len(ds)) /\ Len(r) = Len(q) + Len(ds)
  /\ DOMAIN q = 1..Len(q) /\ Len(q) \in Nat /\ Len(ds) \in Nat /\ k \in 0..Len(q)
  /\ \A i \in 1..Len(q) : i <= k <=> q[i].at <= at
  /\ \A i \in 1..Len(q) :
       Moved(i, k, Len(ds)) \in 1..(Len(q) + Len(ds)) /\ r[Moved(i, k, Len(ds))] = q[i]
  /\ \A i \in 1..Len(ds) : k + i \in 1..(Len(q) + Len(ds)) /\ r[k + i] = On(fn, ds[i], at)
  /\ \A j \in 1..(Len(q) + Len(ds)) :
       \/ \E i \in 1..Len(q) : j = Moved(i, k, Len(ds))
       \/ \E i \in 1..Len(ds) : j = k + i

LEMMA EventFields ==
  ASSUME NEW q \in Seq(Event), NEW i \in DOMAIN q
  PROVE  /\ q[i] \in Event /\ q[i].at \in Nat /\ q[i].fn \in Kind
         /\ q[i].dev \in Device \cup {Loopback}
<1>1. q[i] \in Event
  BY ElementOfSeq, LenProperties
<1> QED
  BY <1>1 DEF Event, Kind

LEMMA PlaceExists ==
  ASSUME NEW q \in Seq(Event), Sorted(q), NEW at \in Nat
  PROVE  \E k \in 0..Len(q) : \A i \in DOMAIN q : i <= k <=> q[i].at <= at
<1>1. DOMAIN q = 1..Len(q) /\ Len(q) \in Nat /\ \A i \in DOMAIN q : q[i].at \in Nat
  BY LenProperties, EventFields
<1> DEFINE S == {i \in DOMAIN q : q[i].at > at}
<1>2. CASE S = {}
  <2>1. \A i \in DOMAIN q : i <= Len(q) /\ q[i].at <= at
    BY <1>1, <1>2
  <2> QED
    BY <1>1, <2>1
<1>3. CASE S # {}
  <2>1. S \in SUBSET Nat
    BY <1>1
  <2>2. PICK m \in S : \A y \in S : m <= y
    BY <1>3, <2>1, SetHasMin
  <2>3. m \in 1..Len(q) /\ q[m].at > at
    BY <1>1, <2>2
  <2>4. ASSUME NEW i \in DOMAIN q
        PROVE  i <= m - 1 <=> q[i].at <= at
    <3>1. CASE i < m
      <4>1. i \notin S
        BY <1>1, <2>2, <2>3, <3>1
      <4> QED
        BY <1>1, <2>3, <3>1, <4>1
    <3>2. CASE i = m
      BY <1>1, <2>3, <3>2
    <3>3. CASE m < i
      <4>1. q[m].at <= q[i].at
        BY <1>1, <2>3, <3>3 DEF Sorted
      <4> QED
        BY <1>1, <2>3, <3>3, <4>1
    <3> QED
      BY <1>1, <2>3, <3>1, <3>2, <3>3
  <2>5. m - 1 \in 0..Len(q)
    BY <1>1, <2>3
  <2> QED
    BY <2>4, <2>5
<1> QED
  BY <1>2, <1>3

LEMMA SchedulePuts ==
  ASSUME NEW q \in Seq(Event), Sorted(q), NEW fn \in Kind,
         NEW ds \in Seq(Device \cup {Loopback}), NEW at \in Nat
  PROVE  \E k \in 0..Len(q) : Put(q, fn, ds, at, k, Schedule(q, fn, ds, at))
<1> DEFINE k == CHOOSE k \in 0..Len(q) : \A i \in DOMAIN q : i <= k <=> q[i].at <= at
           a == SubSeq(q, 1, k)
           b == Events(fn, ds, at)
           c == SubSeq(q, k + 1, Len(q))
           L == Len(ds)
           e == a \o b
           r == e \o c
<1>1. k \in 0..Len(q) /\ \A i \in DOMAIN q : i <= k <=> q[i].at <= at
  BY PlaceExists
<1>2. Schedule(q, fn, ds, at) = r
  BY DEF Schedule
<1>3. DOMAIN q = 1..Len(q) /\ Len(q) \in Nat /\ DOMAIN ds = 1..L /\ L \in Nat
  BY LenProperties
<1>4. \A i \in 1..Len(q) : q[i] \in Event
  BY ElementOfSeq
<1>5. \A i \in 1..L : On(fn, ds[i], at) \in Event
  <2>1. \A i \in 1..L : ds[i] \in Device \cup {Loopback}
    BY ElementOfSeq
  <2> QED
    BY <2>1 DEF On, Event, Kind
<1> HIDE DEF k, L, r
<1>6. /\ a \in Seq(Event) /\ Len(a) = k /\ \A i \in 1..k : a[i] = q[i]
  BY <1>1, <1>3, <1>4, SubSeqProperties
<1>7. /\ c \in Seq(Event) /\ Len(c) = Len(q) - k /\ \A i \in 1..(Len(q) - k) : c[i] = q[k + i]
  <2>1. c \in Seq(Event) /\ Len(c) = (IF k + 1 <= Len(q) THEN Len(q) - (k + 1) + 1 ELSE 0)
        /\ \A i \in 1..(Len(q) - (k + 1) + 1) : c[i] = q[k + 1 + i - 1]
    BY <1>1, <1>3, <1>4, SubSeqProperties
  <2> HIDE DEF c
  <2>2. Len(c) = Len(q) - k
    <3>1. CASE k + 1 <= Len(q)
      <4>1. Len(q) - (k + 1) + 1 = Len(q) - k
        BY <1>1, <1>3
      <4> QED
        BY <2>1, <3>1, <4>1
    <3>2. CASE ~(k + 1 <= Len(q))
      <4>1. Len(q) - k = 0
        <5>1. k \in Nat /\ k <= Len(q) /\ ~(k + 1 <= Len(q)) /\ Len(q) \in Nat
          BY <1>1, <1>3, <3>2
        <5> QED
          BY <5>1
      <4>2. Len(c) = 0
        BY <2>1, <3>2
      <4> QED
        BY <4>1, <4>2
    <3> QED
      BY <3>1, <3>2
  <2>3. ASSUME NEW i \in 1..(Len(q) - k)
        PROVE  c[i] = q[k + i]
    <3>1. i \in 1..(Len(q) - (k + 1) + 1) /\ k + 1 + i - 1 = k + i
      BY <1>1, <1>3
    <3> QED
      BY <2>1, <3>1
  <2> QED
    BY <2>1, <2>2, <2>3
<1>8. b \in Seq(Event) /\ Len(b) = L /\ \A i \in 1..L : b[i] = On(fn, ds[i], at)
  <2>1. b = [i \in 1..L |-> On(fn, ds[i], at)]
    BY <1>3 DEF Events
  <2> HIDE DEF b
  <2> QED
    BY <1>3, <1>5, <2>1
<1> HIDE DEF a, b, c
<1>9. /\ e \in Seq(Event) /\ Len(e) = k + L
      /\ \A i \in 1..(k + L) : e[i] = IF i <= k THEN a[i] ELSE b[i - k]
  BY <1>6, <1>8, ConcatProperties
<1> HIDE DEF e
<1>10. /\ r \in Seq(Event) /\ Len(r) = k + L + (Len(q) - k)
       /\ \A i \in 1..(k + L + (Len(q) - k)) :
            r[i] = IF i <= k + L THEN e[i] ELSE c[i - (k + L)]
  <2>1. /\ e \o c \in Seq(Event) /\ Len(e \o c) = Len(e) + Len(c)
        /\ \A i \in 1..(Len(e) + Len(c)) :
             (e \o c)[i] = IF i <= Len(e) THEN e[i] ELSE c[i - Len(e)]
    BY <1>7, <1>9, ConcatProperties
  <2>2. r = e \o c
    BY DEF r
  <2>3. Len(c) = Len(q) - k
    BY <1>7
  <2> QED
    BY <1>9, <2>1, <2>2, <2>3
<1>11. Len(r) = Len(q) + L /\ DOMAIN r = 1..(Len(q) + L) /\ k + L + (Len(q) - k) = Len(q) + L
  <2>1. k + L + (Len(q) - k) = Len(q) + L
    BY <1>1, <1>3
  <2> QED
    BY <1>10, <2>1, LenProperties
<1>12. ASSUME NEW i \in 1..Len(q)
       PROVE  Moved(i, k, L) \in 1..(Len(q) + L) /\ r[Moved(i, k, L)] = q[i]
  <2>1. CASE i <= k
    <3>1. Moved(i, k, L) = i /\ i \in 1..(Len(q) + L) /\ i <= k + L /\ i \in 1..(k + L) /\ i \in 1..k
      BY <1>1, <1>3, <2>1 DEF Moved
    <3> QED
      BY <1>6, <1>9, <1>10, <1>11, <2>1, <3>1
  <2>2. CASE ~(i <= k)
    <3>1. /\ Moved(i, k, L) = i + L /\ i + L \in 1..(Len(q) + L) /\ ~(i + L <= k + L)
          /\ i + L - (k + L) = i - k /\ i - k \in 1..(Len(q) - k) /\ k + (i - k) = i
      BY <1>1, <1>3, <2>2 DEF Moved
    <3>2. r[i + L] = c[i + L - (k + L)]
      <4>1. PICK j \in 1..(k + L + (Len(q) - k)) : j = i + L
        BY <1>11, <3>1
      <4>2. ~(j <= k + L)
        BY <3>1, <4>1
      <4>3. r[j] = c[j - (k + L)]
        BY <1>1, <1>3, <1>10, <4>2
      <4>4. j - (k + L) = i + L - (k + L)
        BY <1>1, <1>3, <4>1
      <4> QED
        BY <4>1, <4>3, <4>4
    <3>3. c[i - k] = q[k + (i - k)]
      BY <1>7, <3>1
    <3> QED
      BY <3>1, <3>2, <3>3
  <2> QED
    BY <2>1, <2>2
<1>13. ASSUME NEW i \in 1..L
       PROVE  k + i \in 1..(Len(q) + L) /\ r[k + i] = On(fn, ds[i], at)
  <2>1. /\ k + i \in 1..(Len(q) + L) /\ k + i \in 1..(k + L) /\ k + i <= k + L
        /\ ~(k + i <= k) /\ k + i - k = i
    BY <1>1, <1>3
  <2>2. r[k + i] = e[k + i]
    BY <1>10, <1>11, <2>1
  <2>3. e[k + i] = b[k + i - k]
    <3>1. PICK j \in 1..(k + L) : j = k + i
      BY <2>1
    <3>2. ~(j <= k)
      BY <2>1, <3>1
    <3>3. e[j] = b[j - k]
      BY <1>1, <1>3, <1>9, <3>2
    <3>4. j - k = k + i - k
      BY <1>1, <1>3, <3>1
    <3> QED
      BY <3>1, <3>3, <3>4
  <2> QED
    BY <1>8, <2>1, <2>2, <2>3
<1>14. ASSUME NEW j \in 1..(Len(q) + L)
       PROVE  \/ \E i \in 1..Len(q) : j = Moved(i, k, L)
              \/ \E i \in 1..L : j = k + i
  <2>1. CASE j <= k
    <3>1. j \in 1..Len(q) /\ j = Moved(j, k, L)
      BY <1>1, <1>3, <2>1 DEF Moved
    <3> QED
      BY <3>1
  <2>2. CASE k < j /\ j <= k + L
    <3>1. j - k \in 1..L /\ j = k + (j - k)
      BY <1>1, <1>3, <2>2
    <3> QED
      BY <3>1
  <2>3. CASE k + L < j
    <3>1. j - L \in 1..Len(q) /\ j = Moved(j - L, k, L)
      BY <1>1, <1>3, <2>3 DEF Moved
    <3> QED
      BY <3>1
  <2> QED
    BY <1>1, <1>3, <2>1, <2>2, <2>3
<1>15. \A i \in 1..Len(q) : i <= k <=> q[i].at <= at
  BY <1>1, <1>3
<1>16. Put(q, fn, ds, at, k, r)
  BY <1>1, <1>3, <1>10, <1>11, <1>12, <1>13, <1>14, <1>15 DEF Put, L
<1> QED
  BY <1>1, <1>2, <1>16

LEMMA PutSorted ==
  ASSUME NEW q \in Seq(Event), Sorted(q), NEW fn \in Kind,
         NEW ds \in Seq(Device \cup {Loopback}), NEW at \in Nat,
         NEW k, NEW r, Put(q, fn, ds, at, k, r)
  PROVE  Sorted(r)
<1> DEFINE L == Len(ds)
           N == Len(q)
<1>1. N \in Nat /\ L \in Nat /\ k \in 0..N /\ \A i \in 1..N : q[i].at \in Nat
  BY EventFields DEF Put
<1>2. \A i, j \in 1..N : i < j => q[i].at <= q[j].at
  BY DEF Put, Sorted
<1>3. \A i \in 1..N : r[Moved(i, k, L)].at = q[i].at
  BY DEF Put
<1>4. \A i \in 1..L : r[k + i].at = at
  <2>1. \A x : On(fn, x, at).at = at
    BY DEF On
  <2>2. \A i \in 1..L : r[k + i] = On(fn, ds[i], at)
    BY DEF Put
  <2> QED
    BY <2>1, <2>2
<1>5. \A i \in 1..N : i <= k <=> q[i].at <= at
  BY DEF Put
<1>6. ASSUME NEW i \in 1..(N + L), NEW j \in 1..(N + L), i < j
      PROVE  r[i].at <= r[j].at
  <2>1. /\ (\E x \in 1..N : i = Moved(x, k, L)) \/ (\E x \in 1..L : i = k + x)
        /\ (\E x \in 1..N : j = Moved(x, k, L)) \/ (\E x \in 1..L : j = k + x)
    BY DEF Put
  <2>2. ASSUME NEW x \in 1..N, NEW y \in 1..N, i = Moved(x, k, L), j = Moved(y, k, L)
        PROVE  r[i].at <= r[j].at
    <3>1. x < y
      BY <1>1, <1>6, <2>2 DEF Moved
    <3> QED
      BY <1>2, <1>3, <2>2, <3>1
  <2>3. ASSUME NEW x \in 1..N, NEW y \in 1..L, i = Moved(x, k, L), j = k + y
        PROVE  r[i].at <= r[j].at
    <3>1. x <= k
      BY <1>1, <1>6, <2>3 DEF Moved
    <3> QED
      BY <1>3, <1>4, <1>5, <2>3, <3>1
  <2>4. ASSUME NEW x \in 1..L, NEW y \in 1..N, i = k + x, j = Moved(y, k, L)
        PROVE  r[i].at <= r[j].at
    <3>1. ~(y <= k)
      BY <1>1, <1>6, <2>4 DEF Moved
    <3>2. at <= q[y].at
      BY <1>1, <1>5, <3>1
    <3> QED
      BY <1>3, <1>4, <2>4, <3>2
  <2>5. ASSUME NEW x \in 1..L, NEW y \in 1..L, i = k + x, j = k + y
        PROVE  r[i].at <= r[j].at
    BY <1>4, <2>5
  <2> QED
    BY <2>1, <2>2, <2>3, <2>4, <2>5
<1>7. DOMAIN r = 1..(N + L)
  BY DEF Put
<1> QED
  BY <1>6, <1>7 DEF Sorted

-----------------------------------------------------------------------------
(***************************************************************************)
(* Which devices begin, and what that changes.                             *)
(***************************************************************************)
\* The devices Initialize comes to.
Reached(n) ==
  LET optical == RemoveFirst(devices[n], Loopback)
  IN IF optical = <<>> THEN <<>> ELSE UpdateRoutes(Head(optical), Tail(optical))

Differ(s) == \A i, j \in DOMAIN s : s[i] = s[j] => i = j

\* All items of a list but one, when no two are equal.
LEMMA WithoutOne ==
  ASSUME NEW S, NEW s \in Seq(S), Differ(s), NEW e
  PROVE  LET t == RemoveFirst(s, e)
         IN t \in Seq(S) /\ Differ(t) /\ ToSet(t) = ToSet(s) \ {e}
<1> DEFINE I == {i \in 1..Len(s) : s[i] = e}
           m == CHOOSE x \in I : \A y \in I : x =< y
<1>1. DOMAIN s = 1..Len(s) /\ Len(s) \in Nat
  BY LenProperties
<1>2. CASE I = {}
  <2>1. RemoveFirst(s, e) = s
    BY <1>2 DEF RemoveFirst
  <2>2. e \notin ToSet(s)
    BY <1>1, <1>2 DEF ToSet
  <2> QED
    BY <2>1, <2>2
<1>3. CASE I # {}
  <2>1. RemoveFirst(s, e) = RemoveAt(s, m)
    BY <1>3 DEF RemoveFirst, SelectInSeq, Min
  <2>2. I \in SUBSET Nat
    BY <1>1
  <2>3. m \in I
    <3>1. \E x \in I : \A y \in I : x <= y
      BY <1>3, <2>2, SetHasMin
    <3> QED
      BY <3>1
  <2> HIDE DEF m
  <2>4. m \in 1..Len(s) /\ s[m] = e
    BY <2>3
  <2> DEFINE t == RemoveAt(s, m)
  <2>5. /\ t \in Seq(S) /\ Len(t) = Len(s) - 1
        /\ \A i \in 1..(Len(s) - 1) : t[i] = IF i < m THEN s[i] ELSE s[i + 1]
    BY <2>4, RemoveAtElements
  <2> HIDE DEF t
  <2>6. DOMAIN t = 1..(Len(s) - 1)
    BY <2>5, LenProperties
  <2>7. ASSUME NEW i \in DOMAIN t, NEW j \in DOMAIN t, t[i] = t[j]
        PROVE  i = j
    <3> DEFINE x == IF i < m THEN i ELSE i + 1
               y == IF j < m THEN j ELSE j + 1
    <3>1. x \in DOMAIN s /\ y \in DOMAIN s /\ (x = y => i = j)
      BY <1>1, <2>4, <2>6
    <3>2. t[i] = s[x] /\ t[j] = s[y]
      BY <2>5, <2>6
    <3> HIDE DEF x, y
    <3> QED
      BY <2>7, <3>1, <3>2 DEF Differ
  <2>8. ASSUME NEW i \in DOMAIN t
        PROVE  t[i] \in ToSet(s) \ {e}
    <3> DEFINE x == IF i < m THEN i ELSE i + 1
    <3>1. x \in DOMAIN s /\ x # m /\ m \in DOMAIN s
      BY <1>1, <2>4, <2>6
    <3>2. t[i] = s[x]
      BY <2>5, <2>6
    <3> HIDE DEF x
    <3> QED
      BY <2>4, <3>1, <3>2 DEF Differ, ToSet
  <2>9. ASSUME NEW j \in DOMAIN s, s[j] # e
        PROVE  \E i \in DOMAIN t : t[i] = s[j]
    <3>1. CASE j < m
      <4>1. j \in 1..(Len(s) - 1)
        BY <1>1, <2>4, <3>1
      <4> QED
        BY <2>5, <2>6, <3>1, <4>1
    <3>2. CASE ~(j < m)
      <4>1. j # m
        BY <2>4, <2>9
      <4>2. j - 1 \in 1..(Len(s) - 1) /\ ~(j - 1 < m) /\ j - 1 + 1 = j
        BY <1>1, <2>4, <3>2, <4>1
      <4>3. PICK i \in 1..(Len(s) - 1) : i = j - 1
        BY <4>2
      <4>4. i + 1 = j /\ ~(i < m)
        BY <4>2, <4>3
      <4>5. t[i] = s[i + 1]
        BY <2>5, <4>4
      <4> QED
        BY <2>6, <4>3, <4>4, <4>5
    <3> QED
      BY <3>1, <3>2
  <2>10. ToSet(t) = ToSet(s) \ {e}
    BY <2>8, <2>9 DEF ToSet
  <2>11. Differ(t)
    BY <2>7 DEF Differ
  <2>12. RemoveFirst(s, e) = t
    BY <2>1 DEF t
  <2> QED
    BY <2>5, <2>10, <2>11, <2>12
<1> QED
  BY <1>2, <1>3

\* The same items with the first at the end.
LEMMA FirstLast ==
  ASSUME NEW S, NEW s \in Seq(S), s # <<>>, Differ(s)
  PROVE  LET t == UpdateRoutes(Head(s), Tail(s))
         IN t \in Seq(S) /\ Differ(t) /\ ToSet(t) = ToSet(s)
<1> DEFINE a == Tail(s)
           h == Head(s)
           t == Append(a, h)
<1>1. DOMAIN s = 1..Len(s) /\ Len(s) \in Nat /\ Len(s) # 0
  BY LenProperties, EmptySeq
<1>2. h \in S /\ a \in Seq(S) /\ Len(a) = Len(s) - 1 /\ h = s[1]
      /\ \A i \in 1..(Len(s) - 1) : a[i] = s[i + 1]
  <2>1. h = s[1]
    BY <1>1
  <2> QED
    BY <2>1, HeadTailProperties
<1> HIDE DEF a, h
<1>3. /\ t \in Seq(S) /\ Len(t) = Len(a) + 1
      /\ \A i \in 1..Len(a) : t[i] = a[i]
      /\ t[Len(a) + 1] = h
  BY <1>2, AppendProperties
<1> HIDE DEF t
<1>4. DOMAIN t = 1..Len(s)
  <2>1. Len(t) = Len(s)
    BY <1>1, <1>2, <1>3
  <2> QED
    BY <1>3, <2>1, LenProperties
<1>5. ASSUME NEW i \in 1..Len(s), i < Len(s)
      PROVE  i + 1 \in DOMAIN s /\ t[i] = s[i + 1]
  <2>1. i \in 1..(Len(s) - 1) /\ i \in 1..Len(a) /\ i + 1 \in 1..Len(s)
    BY <1>1, <1>2, <1>5
  <2>2. t[i] = a[i] /\ a[i] = s[i + 1]
    BY <1>2, <1>3, <2>1
  <2> QED
    BY <1>1, <2>1, <2>2
<1>6. 1 \in DOMAIN s /\ t[Len(s)] = s[1]
  <2>1. Len(a) + 1 = Len(s)
    BY <1>1, <1>2
  <2> QED
    BY <1>1, <1>2, <1>3, <2>1
<1>7. \A j \in DOMAIN s : \E i \in DOMAIN t : t[i] = s[j]
  <2> SUFFICES ASSUME NEW j \in DOMAIN s PROVE \E i \in DOMAIN t : t[i] = s[j]
    OBVIOUS
  <2>1. CASE j = 1
    <3>1. Len(s) \in 1..Len(s)
      BY <1>1
    <3> QED
      BY <1>4, <1>6, <2>1, <3>1
  <2>2. CASE j # 1
    <3>1. PICK i \in 1..Len(s) : i = j - 1
      BY <1>1, <2>2
    <3>2. i < Len(s) /\ i + 1 = j
      BY <1>1, <3>1
    <3> QED
      BY <1>4, <1>5, <3>2
  <2> QED
    BY <2>1, <2>2
<1>8. ASSUME NEW i \in DOMAIN t
      PROVE  \E j \in DOMAIN s : t[i] = s[j] /\ (j = 1 <=> i = Len(s)) /\ (j = 1 \/ j = i + 1)
  <2>1. CASE i < Len(s)
    <3>1. PICK j \in DOMAIN s : j = i + 1 /\ t[i] = s[j]
      BY <1>4, <1>5, <2>1
    <3>2. j # 1 /\ i # Len(s)
      BY <1>1, <1>4, <2>1, <3>1
    <3> QED
      BY <3>1, <3>2
  <2>2. CASE i = Len(s)
    BY <1>6, <2>2
  <2> QED
    BY <1>1, <1>4, <2>1, <2>2
<1>12. ASSUME NEW i \in DOMAIN t, NEW j \in DOMAIN t, t[i] = t[j]
       PROVE  i = j
  <2>1. PICK x \in DOMAIN s : t[i] = s[x] /\ (x = 1 <=> i = Len(s)) /\ (x = 1 \/ x = i + 1)
    BY <1>8
  <2>2. PICK y \in DOMAIN s : t[j] = s[y] /\ (y = 1 <=> j = Len(s)) /\ (y = 1 \/ y = j + 1)
    BY <1>8
  <2>3. x = y
    BY <1>12, <2>1, <2>2 DEF Differ
  <2> QED
    BY <1>1, <1>4, <2>1, <2>2, <2>3
<1>9. UpdateRoutes(Head(s), Tail(s)) = t
  BY DEF UpdateRoutes, t, a, h
<1>10. ToSet(t) = ToSet(s)
  BY <1>7, <1>8 DEF ToSet
<1>11. Differ(t)
  BY <1>12 DEF Differ
<1> QED
  BY <1>3, <1>9, <1>10, <1>11

\* UpdateRoutes comes to every optical device of the node once.
LEMMA ReachedIs ==
  ASSUME SetupOK, NEW n \in Node
  PROVE  Reached(n) \in Seq(Device) /\ Differ(Reached(n)) /\ ToSet(Reached(n)) = Optical(n)
<1> DEFINE s == devices[n]
           o == RemoveFirst(s, Loopback)
<1>1. s \in Seq(Installed \cup {Loopback}) /\ Differ(s)
  BY DEF SetupOK, Differ
<1>2. o \in Seq(Installed \cup {Loopback}) /\ Differ(o) /\ ToSet(o) = ToSet(s) \ {Loopback}
  BY <1>1, WithoutOne
<1>3. ToSet(o) = Optical(n)
  BY <1>2, OpticalIs DEF ToSet
<1> HIDE DEF o
<1>4. DOMAIN o = 1..Len(o) /\ Len(o) \in Nat
  BY <1>2, LenProperties
<1>5. \A i \in 1..Len(o) : o[i] \in Device
  BY <1>3, <1>4 DEF ToSet, Optical
<1>6. o \in Seq(Device)
  BY <1>2, <1>4, <1>5
<1>7. CASE o = <<>>
  <2>1. Reached(n) = <<>>
    BY <1>7 DEF Reached, o
  <2> QED
    BY <1>2, <1>3, <1>6, <1>7, <2>1
<1>8. CASE o # <<>>
  <2>1. Reached(n) = UpdateRoutes(Head(o), Tail(o))
    BY <1>8 DEF Reached, o
  <2> QED
    BY <1>2, <1>3, <1>6, <1>8, <2>1, FirstLast
<1> QED
  BY <1>7, <1>8

LEMMA BeginEffect ==
  ASSUME NEW ds \in Seq(Device), Differ(ds), NEW left \in Seq(Event), Sorted(left),
         now \in Nat, begun \in [Device -> Nat], BeginReconfigure(ds, left)
  PROVE  /\ failed' = (ToSet(ds) \cap reconfiguring # {})
         /\ reconfiguring' = reconfiguring \cup ToSet(ds)
         /\ begun' \in [Device -> Nat]
         /\ \A d \in Device : begun'[d] = begun[d] + IF d \in ToSet(ds) THEN 1 ELSE 0
         /\ slots' = [d \in Device |-> IF d \in ToSet(ds) THEN NextSlots(d) ELSE slots[d]]
         /\ now + ReconfigureTime \in Nat /\ now + ReconfigureTime + SlotDuration \in Nat
         /\ \E mid \in Seq(Event), k1, k2 \in Nat :
              /\ Put(left, "CompleteReconfigure", ds, now + ReconfigureTime, k1, mid)
              /\ Sorted(mid)
              /\ Put(mid, "BeginReconfigure", ds, now + ReconfigureTime + SlotDuration, k2, queue')
              /\ Sorted(queue')
<1>1. DOMAIN ds = 1..Len(ds) /\ Len(ds) \in Nat
  BY LenProperties
<1>2. IsInjective(ds)
  BY DEF IsInjective, Differ
<1>3. ASSUME NEW d \in Device
      PROVE  Cardinality({i \in DOMAIN ds : ds[i] = d}) = IF d \in ToSet(ds) THEN 1 ELSE 0
  <2>1. CASE d \in ToSet(ds)
    <3>1. PICK i \in DOMAIN ds : ds[i] = d
      BY <2>1 DEF ToSet
    <3>2. {j \in DOMAIN ds : ds[j] = d} = {i}
      BY <3>1 DEF Differ
    <3> QED
      BY <2>1, <3>2, FS_Singleton
  <2>2. CASE d \notin ToSet(ds)
    <3>1. {j \in DOMAIN ds : ds[j] = d} = {}
      BY <2>2 DEF ToSet
    <3> QED
      BY <2>2, <3>1, FS_EmptySet
  <2> QED
    BY <2>1, <2>2
<1>4. \A d \in Device : begun'[d] = begun[d] + IF d \in ToSet(ds) THEN 1 ELSE 0
  BY <1>3 DEF BeginReconfigure
<1>5. begun' \in [Device -> Nat]
  <2>1. \A d \in Device : begun[d] + (IF d \in ToSet(ds) THEN 1 ELSE 0) \in Nat
    OBVIOUS
  <2>2. begun' = [d \in Device |-> begun'[d]]
    BY DEF BeginReconfigure
  <2> QED
    BY <1>4, <2>1, <2>2
<1>6. PICK t1 \in Nat : t1 = now + ReconfigureTime
  BY Constants
<1>7. PICK t2 \in Nat : t2 = now + ReconfigureTime + SlotDuration
  BY Constants
<1>8. ds \in Seq(Device \cup {Loopback})
  BY SeqMonotonic
<1>9. PICK mid : mid = Schedule(left, "CompleteReconfigure", ds, t1)
  OBVIOUS
<1>10. PICK k1 \in 0..Len(left) : Put(left, "CompleteReconfigure", ds, t1, k1, mid)
  BY <1>8, <1>9, SchedulePuts DEF Kind
<1>11. mid \in Seq(Event) /\ Sorted(mid)
  <2>1. mid \in Seq(Event)
    BY <1>10 DEF Put
  <2> QED
    BY <1>8, <1>10, <2>1, PutSorted DEF Kind
<1>12. queue' = Schedule(mid, "BeginReconfigure", ds, t2)
  BY <1>6, <1>7, <1>9 DEF BeginReconfigure
<1>13. PICK k2 \in 0..Len(mid) : Put(mid, "BeginReconfigure", ds, t2, k2, queue')
  BY <1>8, <1>11, <1>12, SchedulePuts DEF Kind
<1>14. Sorted(queue')
  BY <1>8, <1>11, <1>13, PutSorted DEF Kind
<1>15. k1 \in Nat /\ k2 \in Nat
  BY <1>10, <1>13, LenProperties
<1> QED
  BY <1>2, <1>4, <1>5, <1>6, <1>7, <1>10, <1>11, <1>13, <1>14, <1>15 DEF BeginReconfigure

LEMMA NextSlotsType ==
  ASSUME IInv, NEW d \in Installed
  PROVE  NextSlots(d) \in SUBSET Nat
<1>1. NodeOf(d) \in Node /\ now \in Nat /\ gained[NodeOf(d)] \in Nat
  BY InstalledHasNode, Constants DEF IInv, RunOK
<1>2. LocalTime(NodeOf(d)) + ReconfigureTime \in Nat
  BY <1>1, Constants DEF LocalTime
<1>3. PICK p \in Nat : p = ReconfigureTime + SlotDuration
  BY Constants
<1>4. slots[d] \subseteq Nat
  BY InstalledIs DEF IInv, RunOK
<1>5. \A k \in Nat : LocalTime(NodeOf(d)) + ReconfigureTime + k * p \in Nat
  BY <1>2, <1>3
<1>6. ScheduleSize - 1 \in Nat
  BY Constants
<1> HIDE DEF LocalTime
<1> QED
  BY <1>3, <1>4, <1>5, <1>6 DEF NextSlots

\* The instant and the kind of what the queue begins with.
LEMMA QueueTail ==
  ASSUME RunOK, queue # <<>>
  PROVE  /\ Head(queue) = queue[1] /\ 1 \in DOMAIN queue /\ Tail(queue) \in Seq(Event)
         /\ DOMAIN Tail(queue) = 1..(Len(queue) - 1) /\ Len(queue) \in Nat
         /\ DOMAIN queue = 1..Len(queue) /\ Len(Tail(queue)) = Len(queue) - 1
         /\ \A i \in DOMAIN Tail(queue) : i + 1 \in DOMAIN queue /\ Tail(queue)[i] = queue[i + 1]
         /\ Sorted(queue) /\ Sorted(Tail(queue))
<1>1. queue \in Seq(Event) /\ Sorted(queue)
  BY DEF RunOK
<1>2. DOMAIN queue = 1..Len(queue) /\ Len(queue) \in Nat /\ Len(queue) # 0
  BY <1>1, LenProperties, EmptySeq
<1>3. Head(queue) = queue[1] /\ 1 \in DOMAIN queue
  BY <1>2
<1>4. /\ Tail(queue) \in Seq(Event) /\ Len(Tail(queue)) = Len(queue) - 1
      /\ \A i \in 1..Len(Tail(queue)) : Tail(queue)[i] = queue[i + 1]
  BY <1>1, HeadTailProperties
<1> DEFINE t == Tail(queue)
<1> HIDE DEF t
<1>5. t \in Seq(Event) /\ Len(t) = Len(queue) - 1 /\ \A i \in 1..Len(t) : t[i] = queue[i + 1]
  BY <1>4 DEF t
<1>6. DOMAIN t = 1..(Len(queue) - 1)
  BY <1>5, LenProperties
<1>7. \A i \in DOMAIN t : i + 1 \in DOMAIN queue /\ t[i] = queue[i + 1]
  BY <1>2, <1>5, <1>6
<1>8. Sorted(t)
  <2> SUFFICES ASSUME NEW i \in DOMAIN t, NEW j \in DOMAIN t, i < j
               PROVE  t[i].at <= t[j].at
    BY DEF Sorted
  <2>1. i + 1 < j + 1
    BY <1>6
  <2> QED
    BY <1>1, <1>7, <2>1 DEF Sorted
<1> QED
  BY <1>1, <1>2, <1>3, <1>5, <1>6, <1>7, <1>8 DEF t

LEMMA PutElements ==
  ASSUME NEW q, NEW fn, NEW ds, NEW at, NEW k, NEW r, Put(q, fn, ds, at, k, r),
         DOMAIN ds = 1..Len(ds)
  PROVE  \A j \in DOMAIN r :
           \/ \E i \in DOMAIN q : r[j] = q[i]
           \/ \E i \in DOMAIN ds : r[j] = On(fn, ds[i], at)
<1> SUFFICES ASSUME NEW j \in DOMAIN r
             PROVE  \/ \E i \in DOMAIN q : r[j] = q[i]
                    \/ \E i \in DOMAIN ds : r[j] = On(fn, ds[i], at)
  OBVIOUS
<1>1. \/ \E i \in 1..Len(q) : j = Moved(i, k, Len(ds))
      \/ \E i \in 1..Len(ds) : j = k + i
  BY DEF Put
<1>2. ASSUME NEW i \in 1..Len(q), j = Moved(i, k, Len(ds))
      PROVE  \E x \in DOMAIN q : r[j] = q[x]
  BY <1>2 DEF Put
<1>3. ASSUME NEW i \in 1..Len(ds), j = k + i
      PROVE  \E x \in DOMAIN ds : r[j] = On(fn, ds[x], at)
  <2>1. r[k + i] = On(fn, ds[i], at)
    BY DEF Put
  <2> QED
    BY <1>3, <2>1
<1> QED
  BY <1>1, <1>2, <1>3

-----------------------------------------------------------------------------
(***************************************************************************)
(* Types, and routes.                                                      *)
(***************************************************************************)
LEMMA BeginRuns ==
  ASSUME IInv, NEW ds \in Seq(Device), Differ(ds), NEW left \in Seq(Event), Sorted(left),
         \A i \in DOMAIN left : \E j \in DOMAIN queue : left[i] = queue[j],
         \A d \in ToSet(ds) : d \in Installed /\ NodeOf(d) \in initialized',
         BeginReconfigure(ds, left), UNCHANGED <<setup, now, gained>>,
         initialized \subseteq initialized', initialized' \subseteq Node, DOMAIN routes' = Device
  PROVE  RunOK' /\ Asleep'
<1>1. now \in Nat /\ begun \in [Device -> Nat] /\ reconfiguring \subseteq Device
      /\ slots \in [Device -> SUBSET Nat]
  BY DEF IInv, RunOK
<1>2. PICK mid \in Seq(Event), k1 \in Nat, k2 \in Nat :
        /\ Put(left, "CompleteReconfigure", ds, now + ReconfigureTime, k1, mid)
        /\ Put(mid, "BeginReconfigure", ds, now + ReconfigureTime + SlotDuration, k2, queue')
        /\ Sorted(queue')
  BY <1>1, BeginEffect
<1>3. /\ failed' = (ToSet(ds) \cap reconfiguring # {})
      /\ reconfiguring' = reconfiguring \cup ToSet(ds)
      /\ begun' \in [Device -> Nat]
      /\ \A d \in Device : begun'[d] = begun[d] + IF d \in ToSet(ds) THEN 1 ELSE 0
      /\ slots' = [d \in Device |-> IF d \in ToSet(ds) THEN NextSlots(d) ELSE slots[d]]
  BY <1>1, BeginEffect
<1>4. DOMAIN ds = 1..Len(ds) /\ \A i \in DOMAIN ds : ds[i] \in ToSet(ds) /\ ds[i] \in Device
  BY LenProperties, ElementOfSeq DEF ToSet
<1>5. queue' \in Seq(Event) /\ Sorted(queue')
  BY <1>2 DEF Put
<1>6. ToSet(ds) \subseteq Device
  BY <1>4 DEF ToSet
<1>7. slots' \in [Device -> SUBSET Nat]
  <2>1. \A d \in ToSet(ds) : NextSlots(d) \in SUBSET Nat
    BY NextSlotsType
  <2> QED
    BY <1>1, <1>3, <2>1
<1>8. RunOK'
  <2>1. now' = now /\ gained' = gained /\ failed' \in BOOLEAN
    BY <1>3
  <2>2. Sorted(queue)'
    BY <1>5 DEF Sorted
  <2> QED
    BY <1>1, <1>3, <1>5, <1>6, <1>7, <2>1, <2>2 DEF IInv, RunOK
<1>9. Installed' = Installed /\ \A d : NodeOf(d)' = NodeOf(d)
  BY SameSetup DEF IInv
<1>10. ASSUME NEW j \in DOMAIN queue', queue'[j].fn # "Other"
       PROVE  queue'[j].dev \in Installed /\ NodeOf(queue'[j].dev) \in initialized'
  <2>1. \A fn, at : \A i \in DOMAIN ds : On(fn, ds[i], at).dev \in ToSet(ds)
    BY <1>4 DEF On
  <2>2. CASE queue'[j].dev \in ToSet(ds)
    BY <2>2
  <2>3. CASE \E i \in DOMAIN queue : queue'[j] = queue[i]
    BY <1>10, <2>3 DEF IInv, Asleep
  <2>4. \/ \E i \in DOMAIN mid : queue'[j] = mid[i]
        \/ \E i \in DOMAIN ds : queue'[j] = On("BeginReconfigure", ds[i],
                                             now + ReconfigureTime + SlotDuration)
    BY <1>2, <1>4, PutElements
  <2>5. \A x \in DOMAIN mid :
          \/ \E i \in DOMAIN left : mid[x] = left[i]
          \/ \E i \in DOMAIN ds : mid[x] = On("CompleteReconfigure", ds[i], now + ReconfigureTime)
    <3>1. PICK t : t = now + ReconfigureTime
      OBVIOUS
    <3>2. Put(left, "CompleteReconfigure", ds, t, k1, mid)
      BY <1>2, <3>1
    <3>3. \A x \in DOMAIN mid :
            \/ \E i \in DOMAIN left : mid[x] = left[i]
            \/ \E i \in DOMAIN ds : mid[x] = On("CompleteReconfigure", ds[i], t)
      BY <1>4, <3>2, PutElements
    <3> QED
      BY <3>1, <3>3
  <2>6. \A x \in DOMAIN mid : mid[x].dev \in ToSet(ds) \/ \E i \in DOMAIN left : mid[x] = left[i]
    BY <2>1, <2>5
  <2>7. queue'[j].dev \in ToSet(ds) \/ \E i \in DOMAIN mid : queue'[j] = mid[i]
    BY <2>1, <2>4
  <2> QED
    BY <2>2, <2>3, <2>6, <2>7
<1>11. \A d \in Device : slots'[d] # {} \/ begun'[d] # 0 \/ d \in reconfiguring' =>
         d \in Installed /\ NodeOf(d) \in initialized'
  <2> SUFFICES ASSUME NEW d \in Device, slots'[d] # {} \/ begun'[d] # 0 \/ d \in reconfiguring'
               PROVE  d \in Installed /\ NodeOf(d) \in initialized'
    OBVIOUS
  <2>1. CASE d \in ToSet(ds)
    BY <2>1
  <2>2. CASE d \notin ToSet(ds)
    <3>1. slots'[d] = slots[d] /\ begun'[d] = begun[d] /\ (d \in reconfiguring' <=> d \in reconfiguring)
      BY <1>1, <1>3, <2>2
    <3> QED
      BY <3>1 DEF IInv, Asleep
  <2> QED
    BY <2>1, <2>2
<1>12. Asleep'
  <2>1. \A j \in DOMAIN queue' : queue'[j].fn # "Other" => queue'[j].dev \in Device
    BY <1>10, InstalledIs DEF IInv
  <2> QED
    BY <1>9, <1>10, <1>11 DEF Asleep
<1> QED
  BY <1>8, <1>12

LEMMA SameRoutes ==
  ASSUME UNCHANGED setup, NEW n
  PROVE  RoutesOf(n)' = RoutesOf(n)
<1>1. UNCHANGED <<dev_count, devices, channel>>
  BY DEF setup
<1> QED
  BY <1>1 DEF RoutesOf, Remote, Optical

RoutesOK == \A n \in initialized : \A d \in Optical(n) : routes[d] = RoutesOf(n)

LEMMA SameRoutesOK ==
  ASSUME SetupOK, UNCHANGED <<setup, routes, initialized>>, RoutesOK
  PROVE  RoutesOK'
<1>1. \A n : RoutesOf(n)' = RoutesOf(n) /\ Optical(n)' = Optical(n)
  BY SameRoutes, SameSetup
<1> QED
  BY <1>1 DEF RoutesOK

\* While the script builds, nothing has begun.
LEMMA BuildingAsleep ==
  ASSUME IInv, initialized = {}
  PROVE  /\ \A d \in Device : slots[d] = {} /\ begun[d] = 0 /\ d \notin reconfiguring
         /\ \A i \in DOMAIN queue : queue[i].fn = "Other"
BY DEF IInv, Asleep

LEMMA BuildStep ==
  ASSUME IInv, SetupOK', initialized = {},
         UNCHANGED <<routes, slots, reconfiguring, begun, failed, now, queue, gained, initialized>>
  PROVE  IInv'
<1>1. RunOK'
  BY DEF IInv, RunOK, Sorted
<1>2. Asleep'
  BY BuildingAsleep DEF Asleep
<1> QED
  BY <1>1, <1>2 DEF IInv

LEMMA SchedulesOther ==
  ASSUME IInv, NEW left \in Seq(Event), Sorted(left), NEW at \in Nat,
         queue' = Schedule(left, "Other", <<Loopback>>, at),
         \A i \in DOMAIN left : \E j \in DOMAIN queue : left[i] = queue[j],
         UNCHANGED <<setup, routes, slots, reconfiguring, begun, failed, now, gained, initialized>>
  PROVE  /\ IInv'
         /\ \E k \in Nat : Put(left, "Other", <<Loopback>>, at, k, queue')
<1>1. <<Loopback>> \in Seq(Device \cup {Loopback})
  OBVIOUS
<1>2. PICK k \in 0..Len(left) : Put(left, "Other", <<Loopback>>, at, k, queue')
  BY <1>1, SchedulePuts DEF Kind
<1>3. Sorted(queue') /\ queue' \in Seq(Event)
  <2>1. Sorted(queue')
    BY <1>1, <1>2, PutSorted DEF Kind
  <2> QED
    BY <1>2, <2>1 DEF Put
<1>4. RunOK'
  <2>1. Sorted(queue)'
    BY <1>3 DEF Sorted
  <2> QED
    BY <1>3, <2>1 DEF IInv, RunOK
<1>5. \A j \in DOMAIN queue' : queue'[j].fn = "Other" \/ \E i \in DOMAIN queue : queue'[j] = queue[i]
  <2>1. \A j \in DOMAIN queue' :
          \/ \E i \in DOMAIN left : queue'[j] = left[i]
          \/ \E i \in DOMAIN <<Loopback>> : queue'[j] = On("Other", <<Loopback>>[i], at)
    BY <1>2, PutElements
  <2>2. \A x : On("Other", x, at).fn = "Other"
    BY DEF On
  <2> QED
    BY <2>1, <2>2
<1>6. SetupOK' /\ Installed' = Installed /\ \A d : NodeOf(d)' = NodeOf(d)
  BY SameSetup DEF IInv
<1>7. Asleep'
  <2>1. \A j \in DOMAIN queue' : queue'[j].fn # "Other" =>
          queue'[j].dev \in Installed /\ NodeOf(queue'[j].dev) \in initialized
    BY <1>5 DEF IInv, Asleep
  <2> QED
    BY <1>6, <2>1 DEF IInv, Asleep
<1>8. RoutesOK'
  BY SameRoutesOK DEF IInv, RoutesOK
<1>9. k \in Nat
  BY <1>2, LenProperties
<1> QED
  BY <1>2, <1>4, <1>6, <1>7, <1>8, <1>9 DEF IInv, RoutesOK, setup

LEMMA TailRuns ==
  ASSUME IInv, queue # <<>>, queue' = Tail(queue), failed' \in BOOLEAN,
         reconfiguring' \subseteq reconfiguring,
         UNCHANGED <<setup, routes, slots, begun, now, gained, initialized>>
  PROVE  IInv'
<1>0. RunOK
  BY DEF IInv
<1>1. /\ queue' \in Seq(Event) /\ Sorted(queue')
      /\ \A i \in DOMAIN queue' : i + 1 \in DOMAIN queue /\ queue'[i] = queue[i + 1]
  BY <1>0, QueueTail
<1>2. RunOK'
  <2>1. Sorted(queue)'
    BY <1>1 DEF Sorted
  <2> QED
    BY <1>1, <2>1 DEF IInv, RunOK
<1>3. SetupOK' /\ Installed' = Installed /\ \A d : NodeOf(d)' = NodeOf(d)
  BY SameSetup DEF IInv
<1>4. Asleep'
  <2>1. \A j \in DOMAIN queue' : queue'[j].fn # "Other" =>
          queue'[j].dev \in Installed /\ NodeOf(queue'[j].dev) \in initialized
    BY <1>1 DEF IInv, Asleep
  <2> QED
    BY <1>3, <2>1 DEF IInv, Asleep
<1>5. RoutesOK'
  BY SameRoutesOK DEF IInv, RoutesOK
<1> QED
  BY <1>2, <1>3, <1>4, <1>5 DEF IInv, RoutesOK, setup

LEMMA InitializeBegins ==
  ASSUME IInv, NEW n \in Node, Initialize(n)
  PROVE  /\ BeginReconfigure(Reached(n), queue)
         /\ n \notin initialized /\ initialized' = initialized \cup {n} /\ endpoint # {}
         /\ routes' = [d \in Device |-> IF d \in Optical(n) THEN RoutesOf(n) ELSE routes[d]]
         /\ UNCHANGED <<setup, now, gained>>
<1>1. ToSet(Reached(n)) = Optical(n)
  BY ReachedIs DEF IInv
<1> QED
  BY <1>1 DEF Initialize, Reached

LEMMA InitializeStep ==
  ASSUME IInv, NEW n \in Node, Initialize(n)
  PROVE  IInv'
<1>1. PICK ds \in Seq(Device) : ds = Reached(n) /\ Differ(ds) /\ ToSet(ds) = Optical(n)
  BY ReachedIs DEF IInv
<1>2. PICK left \in Seq(Event) : left = queue /\ Sorted(left)
  BY DEF IInv, RunOK
<1>3. BeginReconfigure(ds, left)
  BY <1>1, <1>2, InitializeBegins
<1>4. initialized \subseteq initialized' /\ initialized' \subseteq Node /\ DOMAIN routes' = Device
  BY InitializeBegins DEF IInv, RunOK
<1>5. \A d \in ToSet(ds) : d \in Installed /\ NodeOf(d) \in initialized'
  BY <1>1, OpticalIs, InitializeBegins DEF IInv
<1>6. UNCHANGED <<setup, now, gained>>
  BY InitializeBegins
<1>7. RunOK' /\ Asleep'
  BY <1>1, <1>2, <1>3, <1>4, <1>5, <1>6, BeginRuns
<1>8. SetupOK' /\ \A m : Optical(m)' = Optical(m)
  BY <1>6, SameSetup DEF IInv
<1>9. \A m : RoutesOf(m)' = RoutesOf(m)
  BY <1>6, SameRoutes
<1>10. RoutesOK'
  <2> SUFFICES ASSUME NEW m \in initialized', NEW d \in Optical(m)
               PROVE  routes'[d] = RoutesOf(m)
    BY <1>8, <1>9 DEF RoutesOK
  <2>0. d \in Device /\ m \in Node
    BY <1>4 DEF Optical
  <2>1. routes' = [x \in Device |-> IF x \in Optical(n) THEN RoutesOf(n) ELSE routes[x]]
    BY InitializeBegins
  <2>2. CASE m = n
    BY <2>0, <2>1, <2>2
  <2>3. CASE m # n
    <3>1. d \notin Optical(n) /\ m \in initialized
      BY <2>0, <2>3, OpticalIs, InitializeBegins DEF IInv
    <3> QED
      BY <2>0, <2>1, <3>1 DEF IInv
  <2> QED
    BY <2>2, <2>3
<1>11. endpoint' # {}
  BY InitializeBegins DEF setup
<1> QED
  BY <1>7, <1>8, <1>10, <1>11 DEF IInv, RoutesOK

\* The device of a BeginReconfigure that is due, and the queue without that event.
LEMMA BeginDueBegins ==
  ASSUME IInv, BeginDue
  PROVE  /\ queue # <<>> /\ RunOK /\ initialized = Node /\ ~failed
         /\ Head(queue).dev \in Installed /\ NodeOf(Head(queue).dev) \in initialized
         /\ <<Head(queue).dev>> \in Seq(Device) /\ Differ(<<Head(queue).dev>>)
         /\ ToSet(<<Head(queue).dev>>) = {Head(queue).dev}
         /\ Head(queue).fn = "BeginReconfigure" /\ Head(queue).at = now
         /\ BeginReconfigure(<<Head(queue).dev>>, Tail(queue))
         /\ UNCHANGED <<setup, routes, now, gained, initialized>>
<1>1. RunOK /\ queue # <<>> /\ Head(queue).fn = "BeginReconfigure" /\ Head(queue).at = now
      /\ initialized = Node /\ ~failed
  BY DEF IInv, BeginDue, Due
<1>2. Head(queue) = queue[1] /\ 1 \in DOMAIN queue
  BY <1>1, QueueTail
<1>3. Head(queue).dev \in Installed /\ NodeOf(Head(queue).dev) \in initialized
  BY <1>1, <1>2 DEF IInv, Asleep
<1>4. Head(queue).dev \in Device
  BY <1>3, InstalledIs DEF IInv
<1>5. PICK d \in Device : d = Head(queue).dev
  BY <1>4
<1>6. <<d>> \in Seq(Device) /\ Differ(<<d>>) /\ ToSet(<<d>>) = {d}
  BY DEF Differ, ToSet
<1> QED
  BY <1>1, <1>3, <1>5, <1>6 DEF BeginDue

LEMMA BeginDueStep == IInv /\ BeginDue => IInv'
<1> SUFFICES ASSUME IInv, BeginDue PROVE IInv'
  OBVIOUS
<1>1. PICK ds \in Seq(Device) : ds = <<Head(queue).dev>>
  BY BeginDueBegins
<1>2. Differ(ds) /\ \A d \in ToSet(ds) : d \in Installed /\ NodeOf(d) \in initialized'
  BY <1>1, BeginDueBegins
<1>3. PICK left \in Seq(Event) : left = Tail(queue)
  BY BeginDueBegins, QueueTail
<1>4. Sorted(left) /\ \A i \in DOMAIN left : \E j \in DOMAIN queue : left[i] = queue[j]
  BY <1>3, BeginDueBegins, QueueTail
<1>5. BeginReconfigure(ds, left) /\ UNCHANGED <<setup, routes, now, gained, initialized>>
  BY <1>1, <1>3, BeginDueBegins
<1>6. initialized' \subseteq Node /\ DOMAIN routes' = Device
  BY <1>5 DEF IInv, RunOK
<1>7. RunOK' /\ Asleep'
  BY <1>2, <1>4, <1>5, <1>6, BeginRuns
<1>8. SetupOK'
  BY <1>5, SameSetup DEF IInv
<1>9. RoutesOK'
  BY <1>5, SameRoutesOK DEF IInv, RoutesOK
<1> QED
  BY <1>5, <1>7, <1>8, <1>9 DEF IInv, RoutesOK, setup

LEMMA AdvanceStep == IInv /\ Advance => IInv'
<1> SUFFICES ASSUME IInv, Advance PROVE IInv'
  OBVIOUS
<1>1. RunOK /\ queue # <<>> /\ now' = Head(queue).at
      /\ UNCHANGED <<setup, routes, slots, reconfiguring, begun, failed, queue, initialized>>
  BY DEF IInv, Advance
<1>2. now' \in Nat
  BY <1>1, QueueTail, EventFields DEF RunOK
<1>3. gained' \in [Node -> 0..MaxDrift]
  <2>1. PICK faster \in SUBSET Node :
          gained' = [n \in Node |-> IF n \in faster /\ gained[n] < MaxDrift
                                    THEN gained[n] + 1 ELSE gained[n]]
    BY DEF Advance
  <2>2. gained \in [Node -> 0..MaxDrift] /\ MaxDrift \in Nat
    BY Constants DEF IInv, RunOK
  <2>3. \A n \in Node : (IF n \in faster /\ gained[n] < MaxDrift
                         THEN gained[n] + 1 ELSE gained[n]) \in 0..MaxDrift
    BY <2>2
  <2> QED
    BY <2>1, <2>3
<1>4. RunOK'
  BY <1>1, <1>2, <1>3 DEF RunOK, Sorted
<1>5. SetupOK' /\ Installed' = Installed /\ \A d : NodeOf(d)' = NodeOf(d)
  BY <1>1, SameSetup DEF IInv
<1>6. Asleep'
  BY <1>1, <1>5 DEF IInv, Asleep
<1>7. RoutesOK'
  BY <1>1, SameRoutesOK DEF IInv, RoutesOK
<1> QED
  BY <1>1, <1>4, <1>5, <1>6, <1>7 DEF IInv, RoutesOK, setup

LEMMA Starts == Init => IInv
<1> SUFFICES ASSUME Init PROVE IInv
  OBVIOUS
<1>1. Installed = {} /\ channel = <<>> /\ DOMAIN channel = {}
  BY DEF Init, Installed
<1>2. Linked = {} /\ dev_count = 2 * Cardinality(Linked)
  <2>1. Linked = {}
    BY <1>1 DEF Linked
  <2> QED
    BY <2>1, FS_EmptySet DEF Init
<1>3. SetupOK
  BY <1>1, <1>2 DEF Init, SetupOK
<1>4. RunOK
  <2>1. queue \in Seq(Event) /\ Sorted(queue)
    BY DEF Init, Sorted
  <2>2. gained \in [Node -> 0..MaxDrift]
    BY Constants DEF Init
  <2> QED
    BY <2>1, <2>2 DEF Init, RunOK
<1>5. Asleep
  BY DEF Init, Asleep
<1> QED
  BY <1>3, <1>4, <1>5 DEF IInv, Init

LEMMA Keeps == IInv /\ [Next]_vars => IInv'
<1> SUFFICES ASSUME IInv, [Next]_vars PROVE IInv'
  OBVIOUS
<1>0. SetupOK
  BY DEF IInv
<1>1. ASSUME NEW link \in Links, Install(link) PROVE IInv'
  <2>1. initialized = {} /\ UNCHANGED <<routes, slots, reconfiguring, begun, failed, now, queue,
                                        gained, initialized>>
    BY <1>1 DEF Install, Building
  <2> QED
    BY <1>0, <1>1, <2>1, InstallSetup, BuildStep
<1>2. ASSUME NEW n \in Node, InstallStack(n) PROVE IInv'
  <2>1. initialized = {} /\ UNCHANGED <<routes, slots, reconfiguring, begun, failed, now, queue,
                                        gained, initialized>>
    BY <1>2 DEF InstallStack, Building
  <2> QED
    BY <1>0, <1>2, <2>1, StackSetup, BuildStep
<1>3. CASE SetEndpoints
  <2>1. initialized = {} /\ UNCHANGED <<routes, slots, reconfiguring, begun, failed, now, queue,
                                        gained, initialized>>
    BY <1>3 DEF SetEndpoints, Building
  <2> QED
    BY <1>0, <1>3, <2>1, EndpointsSetup, BuildStep
<1>4. ASSUME NEW n \in Node, Initialize(n) PROVE IInv'
  BY <1>4, InitializeStep
<1>5. ASSUME NEW at \in 0..MaxDelay, ScheduleOther(at) PROVE IInv'
  <2>1. PICK left \in Seq(Event) : left = queue /\ Sorted(left)
    BY DEF IInv, RunOK
  <2>2. at \in Nat
    BY Constants
  <2> QED
    BY <1>5, <2>1, <2>2, SchedulesOther DEF ScheduleOther
<1>6. CASE Advance
  BY <1>6, AdvanceStep
<1>7. CASE BeginDue
  BY <1>7, BeginDueStep
<1>8. CASE CompleteReconfigure
  <2>1. reconfiguring' \subseteq reconfiguring /\ failed' \in BOOLEAN
    BY <1>8 DEF CompleteReconfigure
  <2> QED
    BY <1>8, <2>1, TailRuns DEF CompleteReconfigure, Due
<1>9. CASE OtherRuns
  <2>1. queue # <<>> /\ UNCHANGED <<setup, routes, slots, reconfiguring, begun, failed, now,
                                    gained, initialized>>
    BY <1>9 DEF OtherRuns, Due
  <2>2. CASE queue' = Tail(queue)
    <3>1. failed' \in BOOLEAN /\ reconfiguring' \subseteq reconfiguring
      BY <2>1 DEF IInv, RunOK
    <3> QED
      BY <2>1, <2>2, <3>1, TailRuns
  <2>3. ASSUME NEW delay \in 0..MaxDelay,
               queue' = Schedule(Tail(queue), "Other", <<Loopback>>, now + delay)
        PROVE  IInv'
    <3>1. PICK left \in Seq(Event) : left = Tail(queue) /\ Sorted(left)
      BY <2>1, QueueTail DEF IInv
    <3>2. \A i \in DOMAIN left : \E j \in DOMAIN queue : left[i] = queue[j]
      BY <2>1, <3>1, QueueTail DEF IInv
    <3>3. PICK at \in Nat : at = now + delay
      BY Constants DEF IInv, RunOK
    <3> QED
      BY <2>1, <2>3, <3>1, <3>2, <3>3, SchedulesOther
  <2> QED
    BY <1>9, <2>2, <2>3 DEF OtherRuns
<1>10. CASE UNCHANGED vars
  <2>1. UNCHANGED <<setup, routes, slots, reconfiguring, begun, failed, now, queue, gained, initialized>>
    BY <1>10 DEF vars
  <2>2. RunOK'
    BY <2>1 DEF IInv, RunOK, Sorted
  <2>3. SetupOK' /\ Installed' = Installed /\ \A d : NodeOf(d)' = NodeOf(d)
    BY <1>0, <2>1, SameSetup
  <2>4. Asleep'
    BY <2>1, <2>3 DEF IInv, Asleep
  <2>5. RoutesOK'
    BY <2>1, SameRoutesOK DEF IInv, RoutesOK
  <2> QED
    BY <2>1, <2>2, <2>3, <2>4, <2>5 DEF IInv, RoutesOK, setup
<1> QED
  BY <1>1, <1>2, <1>3, <1>4, <1>5, <1>6, <1>7, <1>8, <1>9, <1>10 DEF Next

THEOREM Invariance == Spec => []IInv
BY Starts, Keeps, PTL DEF Spec

LEMMA IInvTypes == IInv => TypeOK
<1> SUFFICES ASSUME IInv PROVE TypeOK
  OBVIOUS
<1>1. Installed \subseteq Device /\ dev_count \in Nat
  BY InstalledIs DEF IInv
<1>2. \A n \in Node : devices[n] \in Seq(Device \cup {Loopback})
  <2>1. \A n \in Node : devices[n] \in Seq(Installed \cup {Loopback})
    BY DEF IInv, SetupOK
  <2>2. Installed \cup {Loopback} \subseteq Device \cup {Loopback}
    BY <1>1
  <2> QED
    BY <2>1, <2>2, SeqMonotonic
<1>3. \A d \in DOMAIN channel : channel[d] \in Seq(Device) /\ Len(channel[d]) = 2
  BY <1>1, SeqMonotonic DEF IInv, SetupOK
<1>4. devices \in [Node -> Seq(Device \cup {Loopback})]
  BY <1>2 DEF IInv, SetupOK
<1>5. endpoint \subseteq Device /\ DOMAIN channel = 0..(dev_count - 1)
  BY <1>1 DEF IInv, SetupOK, Installed
<1> QED
  BY <1>1, <1>3, <1>4, <1>5 DEF IInv, RunOK, Sorted, TypeOK

\* The tables of the installation keep their types (Install, SetEndpoints, UpdateRoutes,
\* BeginReconfigure), for any links in any order.
THEOREM TypeCorrect == Spec => []TypeOK
BY Invariance, IInvTypes, PTL

\* The table UpdateRoutes makes leads to the neighbours.
LEMMA RoutesOfLead ==
  ASSUME SetupOK, NEW n \in Node, NEW r, r = RoutesOf(n)
  PROVE  /\ DOMAIN r = {Remote(x) : x \in Optical(n)}
         /\ \A a \in DOMAIN r :
              devices[n][r[a] + 1] # Loopback /\ Remote(devices[n][r[a] + 1]) = a
<1> DEFINE P(a, i) == devices[n][i + 1] # Loopback /\ Remote(devices[n][i + 1]) = a
           A == {Remote(x) : x \in Optical(n)}
<1>1. r = [a \in A |-> CHOOSE i \in 0..(Len(devices[n]) - 1) : P(a, i)]
  BY DEF RoutesOf
<1>2. DOMAIN devices[n] = 1..Len(devices[n]) /\ Len(devices[n]) \in Nat
  BY LenProperties DEF SetupOK
<1>3. ASSUME NEW a \in A
      PROVE  \E i \in 0..(Len(devices[n]) - 1) : P(a, i)
  <2>1. PICK x \in Optical(n) : a = Remote(x)
    OBVIOUS
  <2>2. PICK j \in DOMAIN devices[n] : devices[n][j] = x /\ x # Loopback
    BY OpticalIs
  <2>3. PICK i \in 0..(Len(devices[n]) - 1) : i + 1 = j
    <3>1. j - 1 \in 0..(Len(devices[n]) - 1) /\ j - 1 + 1 = j
      BY <1>2
    <3> QED
      BY <3>1
  <2> QED
    BY <2>1, <2>2, <2>3
<1> HIDE DEF A, P
<1>4. \A a \in A : P(a, r[a])
  BY <1>1, <1>3
<1> QED
  BY <1>1, <1>4 DEF A, P

\* Whatever order devices and stacks were installed in, the route for a neighbour is the
\* index of the device whose fibre leads there (UpdateRoutes, GetRemote).
THEOREM RoutesLeadHolds == Spec => []RoutesLead
<1>1. IInv => RoutesLead
  <2> SUFFICES ASSUME IInv, NEW n \in initialized, NEW d \in Optical(n)
               PROVE  /\ DOMAIN routes[d] = {Remote(x) : x \in Optical(n)}
                      /\ \A a \in DOMAIN routes[d] :
                           devices[n][routes[d][a] + 1] # Loopback
                           /\ Remote(devices[n][routes[d][a] + 1]) = a
    BY DEF RoutesLead
  <2>1. SetupOK /\ n \in Node /\ routes[d] = RoutesOf(n)
    BY DEF IInv, RunOK
  <2>2. PICK r : r = routes[d]
    OBVIOUS
  <2> QED
    BY <2>1, <2>2, RoutesOfLead
<1> QED
  BY <1>1, Invariance, PTL

-----------------------------------------------------------------------------
(***************************************************************************)
(* In step.                                                                *)
(***************************************************************************)
Period == ReconfigureTime + SlotDuration

\* From the instant of a BeginReconfigure to the last slot it adds.
Reach == ReconfigureTime + (ScheduleSize - 1) * Period

\* The node a device belongs to.
Owner == [d \in Device \cup {Loopback} |-> NodeOf(d)]

\* Events that belong together: of one kind, one node, one instant.
Alike(own, x, y) == x.fn = y.fn /\ own[x.dev] = own[y.dev] /\ x.at = y.at

Contiguous(q, own) ==
  \A i, j, k \in DOMAIN q :
    i < j /\ j < k /\ Alike(own, q[i], q[k]) /\ q[i].fn # "Other" => Alike(own, q[i], q[j])

\* Every event of a device is there once.
Single(q) ==
  \A i, j \in DOMAIN q :
    q[i].fn = q[j].fn /\ q[i].fn # "Other" /\ q[i].dev = q[j].dev => i = j

Pending(q, fn, d, t) == \E i \in DOMAIN q : q[i] = On(fn, d, t)

\* The instants d is to begin, and to complete, its reconfiguration.
BeginsAt(d, t) == Pending(queue, "BeginReconfigure", d, t)
CompletesAt(d, t) == Pending(queue, "CompleteReconfigure", d, t)

\* Some devices of a node have begun and others have not.
Between(n) == \E d, e \in Optical(n) : begun[d] # begun[e]

\* Some devices of a node have completed and others have not.
Halfway(n) == \E d, e \in Optical(n) : d \in reconfiguring /\ e \notin reconfiguring

HeadIs(fn, n) == queue # <<>> /\ Head(queue).fn = fn /\ Head(queue).dev \in Optical(n)

OrderInv ==
  /\ \A i \in DOMAIN queue : now <= queue[i].at
  /\ Contiguous(queue, Owner) /\ Single(queue)

\* What a device has in the queue.
AgendaInv ==
  \A n \in initialized : \A d \in Optical(n) :
    /\ \E t \in Nat : BeginsAt(d, t)
    /\ d \in reconfiguring <=> \E t \in Nat : CompletesAt(d, t)
    /\ \A t, u \in Nat : CompletesAt(d, t) /\ BeginsAt(d, u) => u = t + SlotDuration

\* No device of a node is more than one reconfiguration ahead of another, and then
\* the other is to begin now.
PaceInv ==
  \A n \in initialized : \A d, e \in Optical(n) : \A t, u \in Nat :
    BeginsAt(d, t) /\ BeginsAt(e, u) =>
      /\ begun[d] = begun[e] => t = u /\ slots[d] = slots[e]
      /\ begun[d] > begun[e] =>
           /\ begun[d] = begun[e] + 1 /\ d \in reconfiguring
           /\ u = now /\ t = now + Period /\ slots[d] = NextSlots(e)

SlotsInv ==
  \A n \in initialized : \A d \in Optical(n) :
    /\ IsFiniteSet(slots[d]) /\ Cardinality(slots[d]) = ScheduleSize
    /\ \A t \in Nat : BeginsAt(d, t) =>
         \A x \in slots[d] : x + Period <= t + gained[n] + Reach

\* Nothing comes between the devices of a node.
TurnInv ==
  \A n \in initialized :
    /\ Between(n) => HeadIs("BeginReconfigure", n)
    /\ ~Between(n) /\ Halfway(n) => HeadIs("CompleteReconfigure", n)

\* While they begin, what they have scheduled is the last of its instant.
LastInv ==
  \A n \in initialized : Between(n) =>
    \A i, j \in DOMAIN queue :
      /\ i < j /\ queue[j].at = queue[i].at
      /\ queue[i].fn # "Other" /\ queue[i].dev \in Optical(n)
      /\ queue[i].fn = "BeginReconfigure" => queue[i].at # now
      => Alike(Owner, queue[i], queue[j])

\* Before the simulator runs.
WaitingInv ==
  initialized # Node =>
    /\ now = 0
    /\ \A n \in initialized : \A d \in Optical(n) : begun[d] = 1 /\ d \in reconfiguring

SInv ==
  /\ ~failed /\ OrderInv /\ AgendaInv /\ PaceInv /\ SlotsInv /\ TurnInv /\ LastInv /\ WaitingInv

-----------------------------------------------------------------------------
(***************************************************************************)
(* What Schedule and running the first event do to the order.              *)
(***************************************************************************)
LEMMA OnFields ==
  ASSUME NEW fn, NEW d, NEW t
  PROVE  On(fn, d, t).fn = fn /\ On(fn, d, t).dev = d /\ On(fn, d, t).at = t
BY DEF On

LEMMA PutPending ==
  ASSUME NEW q, NEW fn, NEW ds, NEW at, NEW k, NEW r, Put(q, fn, ds, at, k, r),
         DOMAIN ds = 1..Len(ds), NEW f, NEW d, NEW t
  PROVE  Pending(r, f, d, t) <=>
           Pending(q, f, d, t) \/ (f = fn /\ t = at /\ d \in ToSet(ds))
<1>1. ASSUME NEW j \in DOMAIN r, r[j] = On(f, d, t)
      PROVE  Pending(q, f, d, t) \/ (f = fn /\ t = at /\ d \in ToSet(ds))
  <2>1. CASE \E i \in DOMAIN q : r[j] = q[i]
    BY <1>1, <2>1 DEF Pending
  <2>2. ASSUME NEW i \in DOMAIN ds, r[j] = On(fn, ds[i], at)
        PROVE  f = fn /\ t = at /\ d \in ToSet(ds)
    <3>1. On(f, d, t) = On(fn, ds[i], at)
      BY <1>1, <2>2
    <3>2. f = fn /\ t = at /\ d = ds[i]
      BY <3>1 DEF On
    <3> QED
      BY <3>2 DEF ToSet
  <2> QED
    BY <2>1, <2>2, PutElements
<1>2. ASSUME NEW i \in DOMAIN q, q[i] = On(f, d, t)
      PROVE  Pending(r, f, d, t)
  <2>1. Moved(i, k, Len(ds)) \in DOMAIN r /\ r[Moved(i, k, Len(ds))] = q[i]
    BY DEF Put
  <2> QED
    BY <1>2, <2>1 DEF Pending
<1>3. ASSUME f = fn, t = at, NEW i \in DOMAIN ds, d = ds[i]
      PROVE  Pending(r, f, d, t)
  <2>1. k + i \in DOMAIN r /\ r[k + i] = On(fn, ds[i], at)
    BY DEF Put
  <2> QED
    BY <1>3, <2>1 DEF Pending
<1> QED
  BY <1>1, <1>2, <1>3 DEF Pending, ToSet

\* Where items stand after a Schedule: the order of the old ones is kept, and the
\* new ones are between those due by their instant and the others.
LEMMA PutPlaces ==
  ASSUME NEW q \in Seq(Event), NEW fn, NEW ds, NEW at \in Nat, NEW k, NEW r, Put(q, fn, ds, at, k, r)
  PROVE  /\ \A x, y \in 1..Len(q) : Moved(x, k, Len(ds)) < Moved(y, k, Len(ds)) => x < y
         /\ \A x \in 1..Len(q), z \in 1..Len(ds) :
              Moved(x, k, Len(ds)) < k + z => x <= k /\ q[x].at <= at
         /\ \A x \in 1..Len(q), z \in 1..Len(ds) :
              k + z < Moved(x, k, Len(ds)) => ~(x <= k) /\ at < q[x].at
         /\ \A x \in 1..Len(q), z \in 1..Len(ds) : Moved(x, k, Len(ds)) # k + z
         /\ \A x, y \in 1..Len(q) : Moved(x, k, Len(ds)) = Moved(y, k, Len(ds)) => x = y
<1> DEFINE L == Len(ds)
           N == Len(q)
<1>1. N \in Nat /\ L \in Nat /\ k \in 0..N /\ \A i \in 1..N : i <= k <=> q[i].at <= at
  BY DEF Put
<1>2. \A i \in 1..N : q[i].at \in Nat
  BY EventFields DEF Put
<1> HIDE DEF L, N
<1>3. \A x, y \in 1..N : Moved(x, k, L) < Moved(y, k, L) => x < y
  BY <1>1 DEF Moved
<1>4. \A x \in 1..N, z \in 1..L : Moved(x, k, L) < k + z => x <= k
  BY <1>1 DEF Moved
<1>5. \A x \in 1..N, z \in 1..L : k + z < Moved(x, k, L) => ~(x <= k)
  BY <1>1 DEF Moved
<1>6. \A x \in 1..N, z \in 1..L : Moved(x, k, L) # k + z
  BY <1>1 DEF Moved
<1>7. \A x, y \in 1..N : Moved(x, k, L) = Moved(y, k, L) => x = y
  BY <1>1 DEF Moved
<1>8. \A x \in 1..N : ~(x <= k) => at < q[x].at
  BY <1>1, <1>2
<1>9. \A x \in 1..N, z \in 1..L : Moved(x, k, L) < k + z => q[x].at <= at
  BY <1>1, <1>4
<1>10. \A x \in 1..N, z \in 1..L : k + z < Moved(x, k, L) => at < q[x].at
  BY <1>5, <1>8
<1> QED
  BY <1>3, <1>4, <1>5, <1>6, <1>7, <1>9, <1>10 DEF L, N

Belong(ds, own, o) == \A i \in DOMAIN ds : own[ds[i]] = o

\* Behind the events of a node nothing else is due in their instant.
Clear(q, fn, at, own, o) ==
  \A i, j \in DOMAIN q :
    /\ i < j /\ q[i].at = at /\ q[j].at = at /\ q[i].fn = fn /\ own[q[i].dev] = o
    => Alike(own, q[i], q[j])

LEMMA PutContiguous ==
  ASSUME NEW q \in Seq(Event), Sorted(q), NEW fn, NEW ds \in Seq(Device \cup {Loopback}),
         NEW at \in Nat, NEW k, NEW r, Put(q, fn, ds, at, k, r),
         NEW own, Contiguous(q, own), NEW o, Belong(ds, own, o),
         fn # "Other" => Clear(q, fn, at, own, o)
  PROVE  Contiguous(r, own)
<1> DEFINE L == Len(ds)
           N == Len(q)
           M(x) == Moved(x, k, L)
           n(z) == k + z
           A(x, y) == Alike(own, x, y)
<1>1. DOMAIN q = 1..N /\ DOMAIN ds = 1..L /\ DOMAIN r = 1..(N + L)
      /\ N \in Nat /\ L \in Nat /\ k \in 0..N /\ \A i \in 1..N : q[i].at \in Nat
  BY LenProperties, EventFields DEF Put
<1>2. /\ \A x \in 1..N : r[M(x)] = q[x]
      /\ \A z \in 1..L : r[n(z)].fn = fn /\ own[r[n(z)].dev] = o /\ r[n(z)].at = at
  <2>1. \A z \in 1..L : r[n(z)] = On(fn, ds[z], at)
    BY DEF Put
  <2>2. \A z \in 1..L : own[ds[z]] = o
    BY <1>1 DEF Belong
  <2>3. \A x \in 1..N : r[M(x)] = q[x]
    BY DEF Put
  <2> QED
    BY <2>1, <2>2, <2>3, OnFields
<1>3. \A j \in DOMAIN r : (\E x \in 1..N : j = M(x)) \/ (\E z \in 1..L : j = n(z))
  BY DEF Put
<1>4. /\ \A x, y \in 1..N : M(x) < M(y) => x < y
      /\ \A x \in 1..N, z \in 1..L : M(x) < n(z) => x <= k /\ q[x].at <= at
      /\ \A x \in 1..N, z \in 1..L : n(z) < M(x) => ~(x <= k) /\ at < q[x].at
  BY PutPlaces
<1>5. \A x \in 1..N, z, w \in 1..L : ~(n(z) < M(x) /\ M(x) < n(w))
  BY <1>4
<1>6. \A z, w \in 1..L : A(r[n(z)], r[n(w)])
  BY <1>2 DEF Alike
<1>7. \A x \in 1..N, z, w \in 1..L : A(q[x], r[n(z)]) => A(q[x], r[n(w)])
  BY <1>2 DEF Alike
<1>8. \A x \in 1..N, z \in 1..L :
        A(q[x], r[n(z)]) => q[x].fn = fn /\ own[q[x].dev] = o /\ q[x].at = at
  BY <1>2 DEF Alike
<1>9. \A z \in 1..L : \A x \in 1..N :
        A(r[n(z)], q[x]) => q[x].at = at
  BY <1>2 DEF Alike
<1>10. \A x, y \in 1..N : A(q[x], q[y]) => q[x].at = q[y].at
  BY DEF Alike
<1>11. \A x, y, z \in 1..N : x < z /\ z < y /\ A(q[x], q[y]) /\ q[x].fn # "Other" => A(q[x], q[z])
  BY <1>1 DEF Contiguous
<1>12. \A x, y \in 1..N : x < y => q[x].at <= q[y].at
  BY <1>1 DEF Sorted
<1>13. ASSUME NEW x \in 1..N, NEW y \in 1..N, fn # "Other",
              x < y, q[x].at = at, q[y].at <= at, q[x].fn = fn, own[q[x].dev] = o
       PROVE  A(q[x], q[y])
  <2>1. q[y].at = at
    BY <1>1, <1>12, <1>13
  <2> QED
    BY <1>1, <1>13, <2>1 DEF Clear
<1> SUFFICES ASSUME NEW i \in DOMAIN r, NEW j \in DOMAIN r, NEW m \in DOMAIN r,
                    i < j, j < m, A(r[i], r[m]), r[i].fn # "Other"
             PROVE  A(r[i], r[j])
  BY DEF Contiguous
<1>14. i < m
  BY <1>1
<1> HIDE DEF A, M, n, L, N
<1>20. ASSUME NEW z \in 1..L, i = n(z), NEW w \in 1..L, m = n(w)
       PROVE  A(r[i], r[j])
  <2>1. PICK y \in 1..L : j = n(y)
    BY <1>3, <1>5, <1>20
  <2> QED
    BY <1>6, <1>20, <2>1
<1>21. ASSUME NEW z \in 1..L, i = n(z), NEW x \in 1..N, m = M(x)
       PROVE  FALSE
  <2>1. at < q[x].at
    BY <1>4, <1>14, <1>21
  <2>2. q[x].at = at
    BY <1>2, <1>9, <1>21
  <2> QED
    BY <2>1, <2>2
<1>22. ASSUME NEW x \in 1..N, i = M(x), NEW w \in 1..L, m = n(w)
       PROVE  A(r[i], r[j])
  <2>1. r[i] = q[x] /\ A(q[x], r[n(w)])
    BY <1>2, <1>22
  <2>2. ASSUME NEW z \in 1..L, j = n(z)
        PROVE  A(r[i], r[j])
    BY <1>7, <2>1, <2>2
  <2>3. ASSUME NEW y \in 1..N, j = M(y)
        PROVE  A(r[i], r[j])
    <3>1. x < y /\ q[y].at <= at
      BY <1>4, <1>22, <2>3
    <3>2. q[x].fn = fn /\ own[q[x].dev] = o /\ q[x].at = at
      BY <1>8, <2>1
    <3>3. fn # "Other"
      BY <2>1, <3>2
    <3>4. A(q[x], q[y])
      BY <1>13, <3>1, <3>2, <3>3
    <3> QED
      BY <1>2, <2>1, <2>3, <3>4
  <2> QED
    BY <1>3, <2>2, <2>3
<1>23. ASSUME NEW x \in 1..N, i = M(x), NEW y \in 1..N, m = M(y)
       PROVE  A(r[i], r[j])
  <2>1. r[i] = q[x] /\ A(q[x], q[y])
    BY <1>2, <1>23
  <2>2. ASSUME NEW z \in 1..L, j = n(z)
        PROVE  FALSE
    <3>1. q[x].at <= at /\ at < q[y].at
      BY <1>4, <1>23, <2>2
    <3>2. q[x].at = q[y].at
      BY <1>10, <2>1
    <3> QED
      BY <1>1, <3>1, <3>2
  <2>3. ASSUME NEW z \in 1..N, j = M(z)
        PROVE  A(r[i], r[j])
    <3>1. x < z /\ z < y
      BY <1>4, <1>23, <2>3
    <3>2. A(q[x], q[z])
      BY <1>11, <2>1, <3>1
    <3> QED
      BY <1>2, <2>1, <2>3, <3>2
  <2> QED
    BY <1>3, <2>2, <2>3
<1> QED
  BY <1>3, <1>20, <1>21, <1>22, <1>23

LEMMA PutSingle ==
  ASSUME NEW q \in Seq(Event), NEW fn, NEW ds \in Seq(Device \cup {Loopback}),
         NEW at \in Nat, NEW k, NEW r, Put(q, fn, ds, at, k, r), Single(q),
         fn # "Other" =>
           Differ(ds) /\ \A i \in DOMAIN q : q[i].fn = fn => q[i].dev \notin ToSet(ds)
  PROVE  Single(r)
<1> DEFINE L == Len(ds)
           N == Len(q)
           M(x) == Moved(x, k, L)
           n(z) == k + z
<1>1. DOMAIN q = 1..N /\ DOMAIN ds = 1..L
  BY LenProperties DEF Put
<1>2. /\ \A x \in 1..N : r[M(x)] = q[x]
      /\ \A z \in 1..L : r[n(z)].fn = fn /\ r[n(z)].dev = ds[z]
  <2>1. \A z \in 1..L : r[n(z)] = On(fn, ds[z], at)
    BY DEF Put
  <2>2. \A x \in 1..N : r[M(x)] = q[x]
    BY DEF Put
  <2> QED
    BY <2>1, <2>2, OnFields
<1>3. \A j \in DOMAIN r : (\E x \in 1..N : j = M(x)) \/ (\E z \in 1..L : j = n(z))
  BY DEF Put
<1>4. \A x, y \in 1..N :
        q[x].fn = q[y].fn /\ q[x].fn # "Other" /\ q[x].dev = q[y].dev => x = y
  BY <1>1 DEF Single
<1>5. fn # "Other" => \A z, w \in 1..L : ds[z] = ds[w] => z = w
  BY <1>1 DEF Differ
<1>6. fn # "Other" => \A x \in 1..N, z \in 1..L : q[x].fn = fn => q[x].dev # ds[z]
  BY <1>1 DEF ToSet
<1> SUFFICES ASSUME NEW i \in DOMAIN r, NEW j \in DOMAIN r,
                    r[i].fn = r[j].fn, r[i].fn # "Other", r[i].dev = r[j].dev
             PROVE  i = j
  BY DEF Single
<1> HIDE DEF M, n, L, N
<1>7. ASSUME NEW x \in 1..N, i = M(x), NEW y \in 1..N, j = M(y)
      PROVE  i = j
  BY <1>2, <1>4, <1>7
<1>8. ASSUME NEW x \in 1..N, NEW z \in 1..L, {i, j} = {M(x), n(z)}
      PROVE  FALSE
  <2>1. q[x].fn = fn /\ fn # "Other" /\ q[x].dev = ds[z]
    BY <1>2, <1>8
  <2> QED
    BY <1>6, <2>1
<1>9. ASSUME NEW z \in 1..L, i = n(z), NEW w \in 1..L, j = n(w)
      PROVE  i = j
  BY <1>2, <1>5, <1>9
<1> QED
  BY <1>3, <1>7, <1>8, <1>9

\* The queue behind its first event.
LEMMA TailOrder ==
  ASSUME RunOK, queue # <<>>, NEW own, Contiguous(queue, own), Single(queue)
  PROVE  Contiguous(Tail(queue), own) /\ Single(Tail(queue))
<1>1. PICK t : t = Tail(queue)
  OBVIOUS
<1>2. /\ \A i \in DOMAIN t : i \in Int /\ i + 1 \in DOMAIN queue /\ t[i] = queue[i + 1]
  BY <1>1, QueueTail
<1>3. Contiguous(t, own)
  <2> SUFFICES ASSUME NEW i \in DOMAIN t, NEW j \in DOMAIN t, NEW k \in DOMAIN t,
                      i < j, j < k, Alike(own, t[i], t[k]), t[i].fn # "Other"
               PROVE  Alike(own, t[i], t[j])
    BY DEF Contiguous
  <2>1. i + 1 < j + 1 /\ j + 1 < k + 1
    BY <1>2
  <2> QED
    BY <1>2, <2>1 DEF Contiguous
<1>4. Single(t)
  <2> SUFFICES ASSUME NEW i \in DOMAIN t, NEW j \in DOMAIN t,
                      t[i].fn = t[j].fn, t[i].fn # "Other", t[i].dev = t[j].dev
               PROVE  i = j
    BY DEF Single
  <2>1. i + 1 = j + 1
    BY <1>2 DEF Single
  <2> QED
    BY <1>2, <2>1
<1> QED
  BY <1>1, <1>3, <1>4

LEMMA TailPending ==
  ASSUME RunOK, queue # <<>>, Single(queue), NEW f, f # "Other", NEW d, NEW t
  PROVE  Pending(Tail(queue), f, d, t) <=>
           Pending(queue, f, d, t) /\ ~(Head(queue).fn = f /\ Head(queue).dev = d)
<1>1. PICK q : q = Tail(queue)
  OBVIOUS
<1>2. /\ \A i \in DOMAIN q : i \in Int /\ i >= 1 /\ i + 1 \in DOMAIN queue /\ q[i] = queue[i + 1]
      /\ Head(queue) = queue[1] /\ 1 \in DOMAIN queue
      /\ \A j \in DOMAIN queue : j # 1 => j - 1 \in DOMAIN q /\ j - 1 + 1 = j
  BY <1>1, QueueTail
<1>3. ASSUME NEW i \in DOMAIN q, q[i] = On(f, d, t)
      PROVE  Pending(queue, f, d, t) /\ ~(Head(queue).fn = f /\ Head(queue).dev = d)
  <2>1. Pending(queue, f, d, t)
    BY <1>2, <1>3 DEF Pending
  <2>2. queue[i + 1].fn = f /\ queue[i + 1].dev = d /\ i + 1 # 1 /\ i + 1 \in DOMAIN queue
    BY <1>2, <1>3, OnFields
  <2> QED
    BY <1>2, <2>1, <2>2 DEF Single
<1>4. ASSUME NEW j \in DOMAIN queue, queue[j] = On(f, d, t),
             ~(Head(queue).fn = f /\ Head(queue).dev = d)
      PROVE  Pending(q, f, d, t)
  <2>1. j # 1
    BY <1>2, <1>4, OnFields
  <2>2. PICK i \in DOMAIN q : i + 1 = j
    BY <1>2, <2>1
  <2>3. q[i] = On(f, d, t)
    BY <1>2, <1>4, <2>2
  <2> QED
    BY <2>3 DEF Pending
<1> QED
  BY <1>1, <1>3, <1>4 DEF Pending

\* A device is to begin once, and to complete once.
LEMMA PendingOnce ==
  ASSUME NEW q, Single(q), NEW f, f # "Other", NEW d, NEW t, NEW u,
         Pending(q, f, d, t), Pending(q, f, d, u)
  PROVE  t = u
<1>1. PICK i \in DOMAIN q : q[i] = On(f, d, t)
  BY DEF Pending
<1>2. PICK j \in DOMAIN q : q[j] = On(f, d, u)
  BY DEF Pending
<1>3. i = j
  BY <1>1, <1>2, OnFields DEF Single
<1>4. On(f, d, t) = On(f, d, u)
  BY <1>1, <1>2, <1>3
<1> QED
  BY <1>4 DEF On

\* The event of an index of the queue.
LEMMA EventPending ==
  ASSUME NEW q \in Seq(Event), NEW i \in DOMAIN q
  PROVE  Pending(q, q[i].fn, q[i].dev, q[i].at) /\ q[i] = On(q[i].fn, q[i].dev, q[i].at)
<1>1. q[i] \in Event
  BY ElementOfSeq, LenProperties
<1>2. q[i] = On(q[i].fn, q[i].dev, q[i].at)
  BY <1>1 DEF Event, On
<1> QED
  BY <1>2 DEF Pending

\* Which of two events of one instant comes first: the one that was scheduled first.
InTurn(q, fn, ds, at, r) ==
  \A i, j \in DOMAIN r : i < j /\ r[i].at = r[j].at =>
    \/ \E x, y \in DOMAIN q : x < y /\ r[i] = q[x] /\ r[j] = q[y]
    \/ /\ \E z \in DOMAIN ds : r[j] = On(fn, ds[z], at)
       /\ \/ \E x \in DOMAIN q : r[i] = q[x]
          \/ \E z \in DOMAIN ds : r[i] = On(fn, ds[z], at)

LEMMA PutInTurn ==
  ASSUME NEW q \in Seq(Event), NEW fn, NEW ds \in Seq(Device \cup {Loopback}),
         NEW at \in Nat, NEW k, NEW r, Put(q, fn, ds, at, k, r)
  PROVE  InTurn(q, fn, ds, at, r)
<1> SUFFICES ASSUME NEW i \in DOMAIN r, NEW j \in DOMAIN r, i < j, r[i].at = r[j].at
             PROVE  \/ \E x, y \in DOMAIN q : x < y /\ r[i] = q[x] /\ r[j] = q[y]
                    \/ /\ \E z \in DOMAIN ds : r[j] = On(fn, ds[z], at)
                       /\ \/ \E x \in DOMAIN q : r[i] = q[x]
                          \/ \E z \in DOMAIN ds : r[i] = On(fn, ds[z], at)
  BY DEF InTurn
<1> DEFINE L == Len(ds)
           N == Len(q)
           M(x) == Moved(x, k, L)
           n(z) == k + z
<1>1. DOMAIN q = 1..N /\ DOMAIN ds = 1..L /\ \A x \in 1..N : q[x].at \in Nat
  BY LenProperties, EventFields DEF Put
<1>2. \A x \in 1..N : r[M(x)] = q[x]
  BY DEF Put
<1>3. \A z \in 1..L : r[n(z)] = On(fn, ds[z], at)
  BY DEF Put
<1>4. \A p \in DOMAIN r : (\E x \in 1..N : p = M(x)) \/ (\E z \in 1..L : p = n(z))
  BY DEF Put
<1>5. /\ \A x, y \in 1..N : M(x) < M(y) => x < y
      /\ \A x \in 1..N, z \in 1..L : n(z) < M(x) => at < q[x].at
  BY PutPlaces
<1>6. \A z \in 1..L : r[n(z)].at = at
  BY <1>3, OnFields
<1> HIDE DEF M, n, L, N
<1>7. ASSUME NEW x \in 1..N, i = M(x), NEW y \in 1..N, j = M(y)
      PROVE  \E v, w \in DOMAIN q : v < w /\ r[i] = q[v] /\ r[j] = q[w]
  BY <1>1, <1>2, <1>5, <1>7
<1>8. ASSUME NEW z \in 1..L, i = n(z), NEW y \in 1..N, j = M(y)
      PROVE  FALSE
  <2>1. at < q[y].at
    BY <1>5, <1>8
  <2>2. at = q[y].at
    BY <1>2, <1>6, <1>8
  <2> QED
    BY <2>1, <2>2
<1>9. ASSUME NEW z \in 1..L, j = n(z)
      PROVE  /\ \E w \in DOMAIN ds : r[j] = On(fn, ds[w], at)
             /\ \/ \E x \in DOMAIN q : r[i] = q[x]
                \/ \E w \in DOMAIN ds : r[i] = On(fn, ds[w], at)
  BY <1>1, <1>2, <1>3, <1>4, <1>9
<1> QED
  BY <1>4, <1>7, <1>8, <1>9

\* What is due first stays first.
LEMMA PutFirst ==
  ASSUME NEW q \in Seq(Event), NEW fn, NEW ds \in Seq(Device \cup {Loopback}),
         NEW at \in Nat, NEW k, NEW r, Put(q, fn, ds, at, k, r), 1 \in DOMAIN q, q[1].at <= at
  PROVE  1 \in DOMAIN r /\ r[1] = q[1]
<1>1. Len(q) \in Nat /\ 1 \in 1..Len(q) /\ Len(ds) \in Nat /\ k \in 0..Len(q)
  BY DEF Put
<1>2. 1 <= k /\ r[Moved(1, k, Len(ds))] = q[1] /\ DOMAIN r = 1..(Len(q) + Len(ds))
  BY <1>1 DEF Put
<1>3. Moved(1, k, Len(ds)) = 1
  BY <1>2 DEF Moved
<1> QED
  BY <1>1, <1>2, <1>3

LEMMA PutLater ==
  ASSUME NEW q \in Seq(Event), NEW fn, NEW ds \in Seq(Device \cup {Loopback}),
         NEW at \in Nat, NEW k, NEW r, Put(q, fn, ds, at, k, r), NEW t, t <= at,
         \A i \in DOMAIN q : t <= q[i].at
  PROVE  \A j \in DOMAIN r : t <= r[j].at
<1>1. DOMAIN ds = 1..Len(ds)
  BY LenProperties
<1>2. \A j \in DOMAIN r :
        \/ \E i \in DOMAIN q : r[j] = q[i]
        \/ \E i \in DOMAIN ds : r[j] = On(fn, ds[i], at)
  BY <1>1, PutElements
<1> QED
  BY <1>2, OnFields

-----------------------------------------------------------------------------
\* The two blocks of events BeginReconfigure schedules.
Fresh(ds, x) ==
  \E d \in ToSet(ds) : \/ x = On("CompleteReconfigure", d, now + ReconfigureTime)
                       \/ x = On("BeginReconfigure", d, now + Period)

DueLater(q) == \A i \in DOMAIN q : now <= q[i].at
NoneOf(q, ds) == \A i \in DOMAIN q : q[i].fn # "Other" => q[i].dev \notin ToSet(ds)

\* No event would come between the new ones and those of the node that are there.
Room(q, own, o) ==
  /\ Clear(q, "CompleteReconfigure", now + ReconfigureTime, own, o)
  /\ Clear(q, "BeginReconfigure", now + Period, own, o)

\* What BeginReconfigure does to a queue without events of its devices.
LEMMA BeginQueue ==
  ASSUME RunOK, NEW ds \in Seq(Device), Differ(ds), NEW left \in Seq(Event), Sorted(left),
         BeginReconfigure(ds, left),
         NEW own, Contiguous(left, own), Single(left), DueLater(left),
         NEW o, Belong(ds, own, o), NoneOf(left, ds), Room(left, own, o)
  PROVE  /\ Contiguous(queue', own) /\ Single(queue') /\ \A i \in DOMAIN queue' : now <= queue'[i].at
         /\ 1 \in DOMAIN left /\ left[1].at = now => 1 \in DOMAIN queue' /\ queue'[1] = left[1]
         /\ \A f, d, t : Pending(queue', f, d, t) <=>
              \/ Pending(left, f, d, t)
              \/ d \in ToSet(ds) /\ f = "CompleteReconfigure" /\ t = now + ReconfigureTime
              \/ d \in ToSet(ds) /\ f = "BeginReconfigure" /\ t = now + Period
         /\ \A i, j \in DOMAIN queue' : i < j /\ queue'[i].at = queue'[j].at =>
              \/ \E x, y \in DOMAIN left : x < y /\ queue'[i] = left[x] /\ queue'[j] = left[y]
              \/ /\ Fresh(ds, queue'[j])
                 /\ Fresh(ds, queue'[i]) \/ \E x \in DOMAIN left : queue'[i] = left[x]
<1>0. now \in Nat
  BY DEF RunOK
<1>1. PICK c : c \in Nat /\ c = now + ReconfigureTime
  BY <1>0, Constants
<1>2. PICK b : b \in Nat /\ b = now + Period /\ b = now + ReconfigureTime + SlotDuration
  BY <1>0, Constants DEF Period
<1>3. PICK mid \in Seq(Event), k1 \in Nat, k2 \in Nat :
        /\ Put(left, "CompleteReconfigure", ds, c, k1, mid) /\ Sorted(mid)
        /\ Put(mid, "BeginReconfigure", ds, b, k2, queue')
  <2>1. \E mid \in Seq(Event), k1, k2 \in Nat :
              /\ Put(left, "CompleteReconfigure", ds, now + ReconfigureTime, k1, mid)
              /\ Sorted(mid)
              /\ Put(mid, "BeginReconfigure", ds, now + ReconfigureTime + SlotDuration, k2, queue')
              /\ Sorted(queue')
    BY <1>0, BeginEffect DEF RunOK
  <2> QED
    BY <1>1, <1>2, <2>1
<1>4. c \in Nat /\ b \in Nat /\ now <= c /\ c < b /\ now <= b /\ c # b
  BY <1>0, <1>1, <1>2, Constants
<1>5. ds \in Seq(Device \cup {Loopback}) /\ DOMAIN ds = 1..Len(ds)
  BY SeqMonotonic, LenProperties
<1>6. PICK r : r = queue'
  OBVIOUS
<1>7. Put(mid, "BeginReconfigure", ds, b, k2, r)
  BY <1>3, <1>6
<1>8. /\ \A j \in DOMAIN mid : \/ \E i \in DOMAIN left : mid[j] = left[i]
                               \/ \E i \in DOMAIN ds : mid[j] = On("CompleteReconfigure", ds[i], c)
  BY <1>3, <1>5, PutElements
<1>9. \A i \in DOMAIN ds : ds[i] \in ToSet(ds)
  BY DEF ToSet
<1>10. Contiguous(mid, own)
  <2>1. Clear(left, "CompleteReconfigure", c, own, o)
    BY <1>1 DEF Room
  <2> QED
    BY <1>3, <1>4, <1>5, <2>1, PutContiguous
<1>11. Contiguous(r, own)
  <2>0. InTurn(left, "CompleteReconfigure", ds, c, mid)
    BY <1>3, <1>4, <1>5, PutInTurn
  <2>1. ASSUME NEW i \in DOMAIN mid, NEW j \in DOMAIN mid, i < j, mid[i].at = b, mid[j].at = b,
               mid[i].fn = "BeginReconfigure", own[mid[i].dev] = o
        PROVE  Alike(own, mid[i], mid[j])
    <3>1. \A z \in DOMAIN ds : mid[j] # On("CompleteReconfigure", ds[z], c)
      BY <1>4, <2>1, OnFields
    <3>2. PICK x, y \in DOMAIN left : x < y /\ mid[i] = left[x] /\ mid[j] = left[y]
      BY <2>0, <2>1, <3>1 DEF InTurn
    <3> QED
      BY <1>2, <2>1, <3>2 DEF Room, Clear
  <2>2. Clear(mid, "BeginReconfigure", b, own, o)
    BY <2>1 DEF Clear
  <2> QED
    BY <1>3, <1>4, <1>5, <1>7, <1>10, <2>2, PutContiguous
<1>12. Single(mid)
  BY <1>3, <1>4, <1>5, PutSingle DEF NoneOf
<1>13. Single(r)
  <2>1. \A i \in DOMAIN mid : mid[i].fn = "BeginReconfigure" => mid[i].dev \notin ToSet(ds)
    BY <1>8, OnFields DEF NoneOf
  <2> QED
    BY <1>4, <1>5, <1>7, <1>12, <2>1, PutSingle
<1>14. \A i \in DOMAIN r : now <= r[i].at
  <2>1. \A i \in DOMAIN mid : now <= mid[i].at
    BY <1>3, <1>4, <1>5, PutLater DEF DueLater
  <2> QED
    BY <1>4, <1>5, <1>7, <2>1, PutLater
<1>15. 1 \in DOMAIN left /\ left[1].at = now => 1 \in DOMAIN r /\ r[1] = left[1]
  <2> SUFFICES ASSUME 1 \in DOMAIN left, left[1].at = now
               PROVE  1 \in DOMAIN r /\ r[1] = left[1]
    OBVIOUS
  <2>1. 1 \in DOMAIN mid /\ mid[1] = left[1]
    BY <1>3, <1>4, <1>5, PutFirst
  <2> QED
    BY <1>4, <1>5, <1>7, <2>1, PutFirst
<1>16. \A f, d, t : Pending(r, f, d, t) <=>
         \/ Pending(left, f, d, t)
         \/ d \in ToSet(ds) /\ f = "CompleteReconfigure" /\ t = c
         \/ d \in ToSet(ds) /\ f = "BeginReconfigure" /\ t = b
  <2>1. \A f, d, t : Pending(mid, f, d, t) <=>
          \/ Pending(left, f, d, t)
          \/ d \in ToSet(ds) /\ f = "CompleteReconfigure" /\ t = c
    BY <1>3, <1>5, PutPending
  <2>2. \A f, d, t : Pending(r, f, d, t) <=>
          \/ Pending(mid, f, d, t)
          \/ d \in ToSet(ds) /\ f = "BeginReconfigure" /\ t = b
    BY <1>5, <1>7, PutPending
  <2> QED
    BY <2>1, <2>2
<1>17. ASSUME NEW i \in DOMAIN r, NEW j \in DOMAIN r, i < j, r[i].at = r[j].at
       PROVE  \/ \E x, y \in DOMAIN left : x < y /\ r[i] = left[x] /\ r[j] = left[y]
              \/ /\ Fresh(ds, r[j])
                 /\ Fresh(ds, r[i]) \/ \E x \in DOMAIN left : r[i] = left[x]
  <2>0. InTurn(left, "CompleteReconfigure", ds, c, mid) /\ InTurn(mid, "BeginReconfigure", ds, b, r)
    <3>1. InTurn(left, "CompleteReconfigure", ds, c, mid)
      BY <1>3, <1>4, <1>5, PutInTurn
    <3> QED
      BY <1>4, <1>5, <1>7, <3>1, PutInTurn
  <2>1. \A z \in DOMAIN ds : /\ Fresh(ds, On("CompleteReconfigure", ds[z], c))
                             /\ Fresh(ds, On("BeginReconfigure", ds[z], b))
    BY <1>1, <1>2, <1>9 DEF Fresh
  <2>2. ASSUME NEW x \in DOMAIN mid
        PROVE  Fresh(ds, mid[x]) \/ \E y \in DOMAIN left : mid[x] = left[y]
    BY <1>8, <2>1
  <2>3. ASSUME NEW x \in DOMAIN mid, NEW y \in DOMAIN mid, x < y, mid[x].at = mid[y].at
        PROVE  \/ \E v, w \in DOMAIN left : v < w /\ mid[x] = left[v] /\ mid[y] = left[w]
               \/ /\ Fresh(ds, mid[y])
                  /\ Fresh(ds, mid[x]) \/ \E v \in DOMAIN left : mid[x] = left[v]
    <3>1. \/ \E v, w \in DOMAIN left : v < w /\ mid[x] = left[v] /\ mid[y] = left[w]
          \/ \E z \in DOMAIN ds : mid[y] = On("CompleteReconfigure", ds[z], c)
      BY <2>0, <2>3 DEF InTurn
    <3> QED
      BY <2>1, <2>2, <3>1
  <2>4. \/ \E x, y \in DOMAIN mid : x < y /\ r[i] = mid[x] /\ r[j] = mid[y]
        \/ /\ \E z \in DOMAIN ds : r[j] = On("BeginReconfigure", ds[z], b)
           /\ \/ \E x \in DOMAIN mid : r[i] = mid[x]
              \/ \E z \in DOMAIN ds : r[i] = On("BeginReconfigure", ds[z], b)
    BY <1>17, <2>0 DEF InTurn
  <2>5. CASE \E x, y \in DOMAIN mid : x < y /\ r[i] = mid[x] /\ r[j] = mid[y]
    BY <1>17, <2>3, <2>5
  <2>6. CASE /\ \E z \in DOMAIN ds : r[j] = On("BeginReconfigure", ds[z], b)
             /\ \/ \E x \in DOMAIN mid : r[i] = mid[x]
                \/ \E z \in DOMAIN ds : r[i] = On("BeginReconfigure", ds[z], b)
    BY <2>1, <2>2, <2>6
  <2> QED
    BY <2>4, <2>5, <2>6
<1> QED
  BY <1>1, <1>2, <1>6, <1>11, <1>13, <1>14, <1>15, <1>16, <1>17

-----------------------------------------------------------------------------
(***************************************************************************)
(* A device begins: its turn among the devices of its node.                *)
(***************************************************************************)
LEMMA SpanIs ==
  /\ Period \in Nat /\ Period = ReconfigureTime + SlotDuration /\ Period > 0
  /\ Period > ReconfigureTime /\ ReconfigureTime \in Nat /\ SlotDuration \in Nat
  /\ Reach \in Nat
<1>1. PICK p \in Nat : p = Period
  BY Constants DEF Period
<1>2. PICK s \in Nat : s = ScheduleSize - 1
  BY Constants
<1>3. Reach = ReconfigureTime + s * p
  BY <1>1, <1>2 DEF Reach
<1>4. Reach \in Nat
  BY <1>3, Constants
<1> QED
  BY <1>4, Constants DEF Period

LEMMA PendingTimes ==
  ASSUME RunOK, OrderInv, NEW f, NEW d, NEW t, Pending(queue, f, d, t)
  PROVE  t \in Nat /\ now <= t
<1>1. PICK i \in DOMAIN queue : queue[i] = On(f, d, t)
  BY DEF Pending
<1>2. queue[i].at \in Nat /\ now <= queue[i].at
  BY EventFields DEF RunOK, OrderInv
<1> QED
  BY <1>1, <1>2, OnFields

\* The agenda of a device whose event is at an index of the queue, and that of its node.
LEMMA OwnerIs ==
  ASSUME IInv, NEW i \in DOMAIN queue, queue[i].fn # "Other"
  PROVE  LET d == queue[i].dev
         IN /\ d \in Installed /\ d \in Device /\ NodeOf(d) \in initialized /\ NodeOf(d) \in Node
            /\ d \in Optical(NodeOf(d)) /\ Owner[d] = NodeOf(d)
            /\ \A m \in Node : d \in Optical(m) => m = NodeOf(d)
<1>1. queue[i].dev \in Installed /\ NodeOf(queue[i].dev) \in initialized
  BY DEF IInv, Asleep
<1>2. SetupOK /\ initialized \subseteq Node
  BY DEF IInv, RunOK
<1> QED
  BY <1>1, <1>2, InstalledIs, InstalledHasNode, OpticalIs DEF Owner

\* When a device begins, the others of its node either have just begun, or are to begin
\* in this instant.
LEMMA DueFacts ==
  ASSUME IInv, SInv, BeginDue, NEW d, d = Head(queue).dev, NEW n, n = NodeOf(d)
  PROVE  /\ RunOK /\ SetupOK /\ queue # <<>> /\ initialized = Node
         /\ n \in Node /\ d \in Optical(n) /\ d \in Device /\ d \notin reconfiguring
         /\ BeginsAt(d, now) /\ now \in Nat /\ begun[d] \in Nat
         /\ \A m \in Node : m # n => ~Between(m) /\ ~Halfway(m)
         /\ \A e \in Optical(n) :
              \/ /\ begun[e] = begun[d] /\ e \notin reconfiguring /\ slots[e] = slots[d]
                 /\ BeginsAt(e, now) /\ \A t : ~CompletesAt(e, t)
              \/ /\ begun[e] = begun[d] + 1 /\ e \in reconfiguring /\ slots[e] = NextSlots(d)
                 /\ BeginsAt(e, now + Period)
                 /\ \A t : CompletesAt(e, t) => t = now + ReconfigureTime
<1>1. /\ queue # <<>> /\ RunOK /\ initialized = Node /\ SetupOK
      /\ Head(queue).fn = "BeginReconfigure" /\ Head(queue).at = now
  BY BeginDueBegins DEF IInv
<1>2. Head(queue) = queue[1] /\ 1 \in DOMAIN queue /\ queue \in Seq(Event)
  BY <1>1, QueueTail DEF RunOK
<1>3. /\ d \in Installed /\ d \in Device /\ n \in Node /\ d \in Optical(n)
      /\ \A m \in Node : d \in Optical(m) => m = n
  BY <1>1, <1>2, OwnerIs
<1>4. BeginsAt(d, now)
  BY <1>1, <1>2, EventPending DEF BeginsAt
<1>5. now \in Nat /\ begun \in [Device -> Nat]
  BY <1>1 DEF RunOK
<1>6. \A m \in Node : m # n => ~Between(m) /\ ~Halfway(m)
  BY <1>1, <1>3 DEF SInv, TurnInv, HeadIs
<1>7. ASSUME NEW e \in Optical(n), NEW t, CompletesAt(e, t)
      PROVE  t \in Nat /\ now <= t /\ e \in reconfiguring /\ \A u \in Nat : BeginsAt(e, u) => u = t + SlotDuration
  <2>1. t \in Nat /\ now <= t
    BY <1>1, <1>7, PendingTimes DEF SInv, CompletesAt
  <2> QED
    BY <1>1, <1>3, <1>7, <2>1 DEF SInv, AgendaInv
<1>8. ASSUME NEW e \in Optical(n), BeginsAt(e, now)
      PROVE  e \notin reconfiguring /\ \A t : ~CompletesAt(e, t)
  <2>1. \A t : ~CompletesAt(e, t)
    BY <1>5, <1>7, <1>8, Constants
  <2> QED
    BY <1>1, <1>3, <2>1 DEF SInv, AgendaInv
<1>9. ASSUME NEW e \in Optical(n)
      PROVE  \/ /\ begun[e] = begun[d] /\ e \notin reconfiguring /\ slots[e] = slots[d]
                /\ BeginsAt(e, now) /\ \A t : ~CompletesAt(e, t)
             \/ /\ begun[e] = begun[d] + 1 /\ e \in reconfiguring /\ slots[e] = NextSlots(d)
                /\ BeginsAt(e, now + Period)
                /\ \A t : CompletesAt(e, t) => t = now + ReconfigureTime
  <2>1. PICK u \in Nat : BeginsAt(e, u)
    BY <1>1, <1>3, <1>9 DEF SInv, AgendaInv
  <2>2. e \in Device /\ begun[e] \in Nat /\ begun[d] \in Nat
    BY <1>3, <1>5, <1>9 DEF Optical
  <2>3. /\ begun[e] = begun[d] => u = now /\ slots[e] = slots[d]
        /\ begun[e] > begun[d] =>
             /\ begun[e] = begun[d] + 1 /\ e \in reconfiguring
             /\ u = now + Period /\ slots[e] = NextSlots(d)
        /\ begun[d] > begun[e] => now = now + Period
    BY <1>1, <1>3, <1>4, <1>5, <1>9, <2>1 DEF SInv, PaceInv
  <2>4. ~(now = now + Period)
    BY <1>5, SpanIs
  <2>5. CASE begun[e] = begun[d]
    BY <1>8, <1>9, <2>1, <2>3, <2>5
  <2>6. CASE begun[e] > begun[d]
    <3>1. u = now + Period /\ u \in Nat
      BY <2>1, <2>3, <2>6
    <3>2. \A t : CompletesAt(e, t) => t = now + ReconfigureTime
      BY <1>5, <1>7, <1>9, <2>1, <3>1, SpanIs
    <3> QED
      BY <2>1, <2>3, <2>6, <3>2
  <2> QED
    BY <2>2, <2>3, <2>4, <2>5, <2>6
<1> QED
  BY <1>1, <1>3, <1>4, <1>5, <1>6, <1>8, <1>9

\* The queue behind the first event, and where its events were.
LEMMA Behind ==
  ASSUME RunOK, queue # <<>>, NEW left, left = Tail(queue)
  PROVE  /\ left \in Seq(Event) /\ Sorted(left) /\ Head(queue) = queue[1] /\ 1 \in DOMAIN queue
         /\ \A i \in DOMAIN left : /\ i + 1 \in DOMAIN queue /\ left[i] = queue[i + 1]
                                   /\ i + 1 # 1
         /\ \A i, j \in DOMAIN left : i < j => i + 1 < j + 1
         /\ \A j \in DOMAIN queue : j # 1 => \E i \in DOMAIN left : j = i + 1
<1>1. DOMAIN left = 1..(Len(queue) - 1) /\ Len(queue) \in Nat /\ DOMAIN queue = 1..Len(queue)
  BY QueueTail
<1>2. \A j \in DOMAIN queue : j # 1 => j - 1 \in DOMAIN left /\ j = (j - 1) + 1
  BY <1>1
<1> QED
  BY <1>1, <1>2, QueueTail

LEMMA BeginDueQueue ==
  ASSUME IInv, SInv, BeginDue, NEW d, d = Head(queue).dev, NEW n, n = NodeOf(d)
  PROVE  /\ OrderInv'
         /\ \A e, t : BeginsAt(e, t)' <=> \/ BeginsAt(e, t) /\ e # d
                                          \/ e = d /\ t = now + Period
         /\ \A e, t : CompletesAt(e, t)' <=> \/ CompletesAt(e, t)
                                             \/ e = d /\ t = now + ReconfigureTime
         /\ 2 \in DOMAIN queue /\ queue[2].at = now => 1 \in DOMAIN queue' /\ queue'[1] = queue[2]
         /\ \A i, j \in DOMAIN queue' : i < j /\ queue'[i].at = queue'[j].at =>
              \/ \E x, y \in DOMAIN queue : x < y /\ x # 1 /\ queue'[i] = queue[x] /\ queue'[j] = queue[y]
              \/ /\ Fresh(<<d>>, queue'[j])
                 /\ Fresh(<<d>>, queue'[i]) \/ \E x \in DOMAIN queue : x # 1 /\ queue'[i] = queue[x]
<1>1. /\ RunOK /\ SetupOK /\ queue # <<>> /\ n \in Node /\ d \in Optical(n) /\ d \in Device
      /\ BeginsAt(d, now) /\ now \in Nat
  BY DueFacts
<1>2. /\ \A e \in Optical(n) :
              \/ /\ begun[e] = begun[d] /\ BeginsAt(e, now) /\ \A t : ~CompletesAt(e, t)
              \/ begun[e] = begun[d] + 1 /\ BeginsAt(e, now + Period)
      /\ begun[d] \in Nat
  BY DueFacts
<1>3. PICK left : left = Tail(queue)
  OBVIOUS
<1>4. /\ left \in Seq(Event) /\ Sorted(left) /\ Head(queue) = queue[1] /\ 1 \in DOMAIN queue
      /\ \A i \in DOMAIN left : i + 1 \in DOMAIN queue /\ left[i] = queue[i + 1] /\ i + 1 # 1
      /\ \A i, j \in DOMAIN left : i < j => i + 1 < j + 1
      /\ \A j \in DOMAIN queue : j # 1 => \E i \in DOMAIN left : j = i + 1
  BY <1>1, <1>3, Behind
<1>5. PICK ds \in Seq(Device) : ds = <<d>> /\ Differ(ds) /\ ToSet(ds) = {d}
  BY BeginDueBegins
<1>6. BeginReconfigure(ds, left) /\ Head(queue).fn = "BeginReconfigure" /\ Head(queue).at = now
      /\ UNCHANGED <<setup, now>>
  BY <1>3, <1>5, BeginDueBegins
<1>7. PICK own : own = Owner
  OBVIOUS
<1>8. Contiguous(left, own) /\ Single(left)
  BY <1>1, <1>3, <1>7, TailOrder DEF SInv, OrderInv
<1>9. DueLater(left)
  BY <1>4 DEF SInv, OrderInv, DueLater
<1>10. Belong(ds, own, n)
  <2>1. own[d] = n
    BY <1>1, <1>7 DEF Owner
  <2>2. \A i \in DOMAIN ds : ds[i] = d
    BY <1>5 DEF ToSet
  <2> QED
    BY <2>1, <2>2 DEF Belong
<1>11. \A i \in DOMAIN queue : CompletesAt(queue[i].dev, queue[i].at) \/ queue[i].fn # "CompleteReconfigure"
  BY <1>1, EventPending DEF RunOK, CompletesAt
<1>12. \A i \in DOMAIN queue : BeginsAt(queue[i].dev, queue[i].at) \/ queue[i].fn # "BeginReconfigure"
  BY <1>1, EventPending DEF RunOK, BeginsAt
<1>13. \A i \in DOMAIN queue : queue[i].fn \in Kind
  BY <1>1, EventFields DEF RunOK
<1>14. NoneOf(left, ds)
  <2> SUFFICES ASSUME NEW i \in DOMAIN left, left[i].fn # "Other", left[i].dev = d
               PROVE  FALSE
    BY <1>5 DEF NoneOf
  <2>1. left[i].fn = "BeginReconfigure"
    <3>1. begun[d] # begun[d] + 1
      BY <1>2
    <3> QED
      BY <1>1, <1>2, <1>4, <1>11, <1>13, <3>1 DEF Kind
  <2> QED
    BY <1>4, <1>6, <2>1 DEF SInv, OrderInv, Single
<1>15. ASSUME NEW i \in DOMAIN queue, own[queue[i].dev] = n,
              \/ queue[i].fn = "CompleteReconfigure"
              \/ queue[i].fn = "BeginReconfigure" /\ queue[i].at # now
       PROVE  queue[i].dev \in Optical(n) /\ queue[i].fn # "Other" /\ Between(n)
  <2>1. queue[i].dev \in Optical(n)
    BY <1>7, <1>15, OwnerIs
  <2>2. ~BeginsAt(queue[i].dev, now) \/ CompletesAt(queue[i].dev, queue[i].at)
    <3>1. CASE queue[i].fn = "BeginReconfigure"
      <4>1. BeginsAt(queue[i].dev, queue[i].at) /\ queue[i].at # now
        BY <1>12, <1>15, <3>1
      <4> QED
        BY <4>1, PendingOnce DEF SInv, OrderInv, BeginsAt
    <3> QED
      BY <1>11, <1>15, <3>1
  <2>3. begun[queue[i].dev] # begun[d]
    BY <1>2, <2>1, <2>2
  <2> QED
    BY <1>1, <1>15, <2>1, <2>3 DEF Between
<1>16. Room(left, own, n)
  <2>1. ASSUME NEW i \in DOMAIN left, NEW j \in DOMAIN left, i < j, left[i].at = left[j].at,
               own[left[i].dev] = n,
               \/ left[i].fn = "CompleteReconfigure"
               \/ left[i].fn = "BeginReconfigure" /\ left[i].at # now
        PROVE  Alike(own, left[i], left[j])
    <3>1. i + 1 \in DOMAIN queue /\ j + 1 \in DOMAIN queue /\ i + 1 < j + 1
          /\ left[i] = queue[i + 1] /\ left[j] = queue[j + 1]
      BY <1>4, <2>1
    <3>2. queue[i + 1].dev \in Optical(n) /\ queue[i + 1].fn # "Other" /\ Between(n)
      BY <1>15, <2>1, <3>1
    <3>3. n \in initialized
      BY DueFacts
    <3> QED
      BY <1>7, <2>1, <3>1, <3>2, <3>3 DEF SInv, LastInv
  <2>2. now + Period # now
    BY <1>1, SpanIs
  <2> QED
    BY <2>1, <2>2 DEF Room, Clear
<1>17. /\ Contiguous(queue', own) /\ Single(queue') /\ \A i \in DOMAIN queue' : now <= queue'[i].at
       /\ 1 \in DOMAIN left /\ left[1].at = now => 1 \in DOMAIN queue' /\ queue'[1] = left[1]
       /\ \A f, e, t : Pending(queue', f, e, t) <=>
            \/ Pending(left, f, e, t)
            \/ e \in ToSet(ds) /\ f = "CompleteReconfigure" /\ t = now + ReconfigureTime
            \/ e \in ToSet(ds) /\ f = "BeginReconfigure" /\ t = now + Period
       /\ \A i, j \in DOMAIN queue' : i < j /\ queue'[i].at = queue'[j].at =>
            \/ \E x, y \in DOMAIN left : x < y /\ queue'[i] = left[x] /\ queue'[j] = left[y]
            \/ /\ Fresh(ds, queue'[j])
               /\ Fresh(ds, queue'[i]) \/ \E x \in DOMAIN left : queue'[i] = left[x]
  BY <1>1, <1>4, <1>5, <1>6, <1>8, <1>9, <1>10, <1>14, <1>16, BeginQueue
<1>18. \A f, e, t : f # "Other" =>
         (Pending(left, f, e, t) <=> Pending(queue, f, e, t) /\ ~(f = "BeginReconfigure" /\ e = d))
  BY <1>1, <1>3, <1>6, TailPending DEF SInv, OrderInv
<1>19. \A e, t : BeginsAt(e, t)' <=> \/ BeginsAt(e, t) /\ e # d
                                     \/ e = d /\ t = now + Period
  <2>1. \A e, t : BeginsAt(e, t)' <=> Pending(queue', "BeginReconfigure", e, t)
    BY DEF BeginsAt, Pending
  <2> QED
    BY <1>5, <1>17, <1>18, <2>1 DEF BeginsAt
<1>20. \A e, t : CompletesAt(e, t)' <=> \/ CompletesAt(e, t)
                                        \/ e = d /\ t = now + ReconfigureTime
  <2>1. \A e, t : CompletesAt(e, t)' <=> Pending(queue', "CompleteReconfigure", e, t)
    BY DEF CompletesAt, Pending
  <2> QED
    BY <1>5, <1>17, <1>18, <2>1 DEF CompletesAt
<1>21. OrderInv'
  <2>1. Owner' = Owner
    BY <1>1, <1>6, SameSetup DEF Owner
  <2>2. PICK q : q = queue'
    OBVIOUS
  <2>3. Contiguous(q, own) /\ Single(q) /\ \A i \in DOMAIN q : now <= q[i].at
    BY <1>17, <2>2
  <2>4. Contiguous(queue, Owner)' <=> Contiguous(q, own)
    BY <1>7, <2>1, <2>2 DEF Contiguous, Alike
  <2>5. Single(queue)' <=> Single(q)
    BY <2>2 DEF Single
  <2> QED
    BY <1>6, <2>2, <2>3, <2>4, <2>5 DEF OrderInv
<1>22. 2 \in DOMAIN queue /\ queue[2].at = now => 1 \in DOMAIN queue' /\ queue'[1] = queue[2]
  <2> SUFFICES ASSUME 2 \in DOMAIN queue, queue[2].at = now
               PROVE  1 \in DOMAIN queue' /\ queue'[1] = queue[2]
    OBVIOUS
  <2>1. PICK i \in DOMAIN left : 2 = i + 1
    BY <1>4
  <2>2. i = 1
    BY <1>4, <2>1, LenProperties
  <2> QED
    BY <1>4, <1>17, <2>1, <2>2
<1>23. ASSUME NEW i \in DOMAIN queue', NEW j \in DOMAIN queue', i < j, queue'[i].at = queue'[j].at
       PROVE  \/ \E x, y \in DOMAIN queue : x < y /\ x # 1 /\ queue'[i] = queue[x] /\ queue'[j] = queue[y]
              \/ /\ Fresh(<<d>>, queue'[j])
                 /\ Fresh(<<d>>, queue'[i]) \/ \E x \in DOMAIN queue : x # 1 /\ queue'[i] = queue[x]
  <2>1. \/ \E x, y \in DOMAIN left : x < y /\ queue'[i] = left[x] /\ queue'[j] = left[y]
        \/ /\ Fresh(ds, queue'[j])
           /\ Fresh(ds, queue'[i]) \/ \E x \in DOMAIN left : queue'[i] = left[x]
    BY <1>17, <1>23
  <2>2. CASE \E x, y \in DOMAIN left : x < y /\ queue'[i] = left[x] /\ queue'[j] = left[y]
    BY <1>4, <2>2
  <2>3. CASE /\ Fresh(ds, queue'[j])
             /\ Fresh(ds, queue'[i]) \/ \E x \in DOMAIN left : queue'[i] = left[x]
    BY <1>4, <1>5, <2>3
  <2> QED
    BY <2>1, <2>2, <2>3
<1> QED
  BY <1>19, <1>20, <1>21, <1>22, <1>23

LEMMA BeginDueEffect ==
  ASSUME IInv, SInv, BeginDue, NEW d, d = Head(queue).dev, NEW n, n = NodeOf(d)
  PROVE  /\ ~failed' /\ reconfiguring' = reconfiguring \cup {d}
         /\ \A e \in Device : begun'[e] = begun[e] + IF e = d THEN 1 ELSE 0
         /\ \A e \in Device : slots'[e] = IF e = d THEN NextSlots(d) ELSE slots[e]
         /\ UNCHANGED <<setup, routes, now, gained, initialized>>
         /\ SetupOK' /\ \A m : Optical(m)' = Optical(m)
         /\ \A m : NodeOf(m)' = NodeOf(m)
         /\ Owner' = Owner
         /\ \A e \in Device : e # d => NextSlots(e)' = NextSlots(e)
<1>1. /\ RunOK /\ SetupOK /\ queue # <<>> /\ d \in Device /\ d \notin reconfiguring
  BY DueFacts
<1>2. PICK ds \in Seq(Device) : ds = <<d>> /\ Differ(ds) /\ ToSet(ds) = {d}
  BY BeginDueBegins
<1>3. PICK left : left = Tail(queue)
  OBVIOUS
<1>4. left \in Seq(Event) /\ Sorted(left)
  BY <1>1, <1>3, QueueTail
<1>5. BeginReconfigure(ds, left) /\ UNCHANGED <<setup, routes, now, gained, initialized>>
  BY <1>2, <1>3, BeginDueBegins
<1>6. now \in Nat /\ begun \in [Device -> Nat]
  BY <1>1 DEF RunOK
<1>7. /\ failed' = (ToSet(ds) \cap reconfiguring # {})
      /\ reconfiguring' = reconfiguring \cup ToSet(ds)
      /\ \A e \in Device : begun'[e] = begun[e] + IF e \in ToSet(ds) THEN 1 ELSE 0
      /\ slots' = [e \in Device |-> IF e \in ToSet(ds) THEN NextSlots(e) ELSE slots[e]]
  BY <1>2, <1>4, <1>5, <1>6, BeginEffect
<1>8. SetupOK' /\ (\A m : Optical(m)' = Optical(m)) /\ \A m : NodeOf(m)' = NodeOf(m)
  BY <1>1, <1>5, SameSetup
<1>9. Owner' = Owner
  BY <1>8 DEF Owner
<1>10. \A e \in Device : slots'[e] = IF e = d THEN NextSlots(d) ELSE slots[e]
  BY <1>2, <1>7
<1>11. \A e \in Device : e # d => NextSlots(e)' = NextSlots(e)
  <2> SUFFICES ASSUME NEW e \in Device, e # d PROVE NextSlots(e)' = NextSlots(e)
    OBVIOUS
  <2>1. slots'[e] = slots[e]
    BY <1>10
  <2>2. LocalTime(NodeOf(e))' = LocalTime(NodeOf(e))
    BY <1>5, <1>8 DEF LocalTime
  <2> QED
    BY <2>1, <2>2 DEF NextSlots
<1> QED
  BY <1>1, <1>2, <1>5, <1>7, <1>8, <1>9, <1>10, <1>11

LEMMA BeginDueLast ==
  ASSUME IInv, SInv, BeginDue
  PROVE  LastInv'
<1>1. PICK d : d = Head(queue).dev
  OBVIOUS
<1>2. PICK n : n = NodeOf(d)
  OBVIOUS
<1>3. /\ RunOK /\ SetupOK /\ initialized = Node /\ n \in Node /\ d \in Optical(n)
      /\ now \in Nat /\ begun[d] \in Nat
      /\ \A m \in Node : m # n => ~Between(m)
  BY <1>1, <1>2, DueFacts
<1>4. \A e \in Optical(n) :
        \/ begun[e] = begun[d] /\ BeginsAt(e, now) /\ \A t : ~CompletesAt(e, t)
        \/ /\ begun[e] = begun[d] + 1 /\ BeginsAt(e, now + Period)
           /\ \A t : CompletesAt(e, t) => t = now + ReconfigureTime
  BY <1>1, <1>2, DueFacts
<1>5. /\ \A e \in Device : begun'[e] = begun[e] + IF e = d THEN 1 ELSE 0
      /\ UNCHANGED <<setup, now, initialized>>
      /\ \A m : Optical(m)' = Optical(m)
      /\ Owner' = Owner
  BY <1>1, <1>2, BeginDueEffect
<1>6. \A i, j \in DOMAIN queue' : i < j /\ queue'[i].at = queue'[j].at =>
        \/ \E x, y \in DOMAIN queue : x < y /\ x # 1 /\ queue'[i] = queue[x] /\ queue'[j] = queue[y]
        \/ /\ Fresh(<<d>>, queue'[j])
           /\ Fresh(<<d>>, queue'[i]) \/ \E x \in DOMAIN queue : x # 1 /\ queue'[i] = queue[x]
  BY <1>1, <1>2, BeginDueQueue
<1>7. ASSUME NEW m \in Node, m # n
      PROVE  ~Between(m)'
  <2>1. \A e \in Optical(m) : e \in Device /\ e # d
    BY <1>3, <1>7, OpticalIs DEF Optical
  <2>2. \A e \in Optical(m) : begun'[e] = begun[e]
    <3>1. \A e \in Device : begun[e] \in Nat
      BY <1>3 DEF RunOK
    <3> QED
      BY <1>5, <2>1, <3>1
  <2> QED
    BY <1>3, <1>5, <1>7, <2>2 DEF Between
<1>8. now + ReconfigureTime # now + Period /\ now # now + Period
  BY <1>3, SpanIs
<1>9. Owner[d] = n
  BY <1>2, <1>3 DEF Owner, Optical
<1>10. \A x : Fresh(<<d>>, x) =>
         /\ Owner[x.dev] = n
         /\ \/ x.fn = "CompleteReconfigure" /\ x.at = now + ReconfigureTime
            \/ x.fn = "BeginReconfigure" /\ x.at = now + Period
  <2>1. ToSet(<<d>>) = {d}
    BY <1>1, BeginDueBegins
  <2> QED
    BY <1>9, <2>1, OnFields DEF Fresh
<1>11. ASSUME NEW i \in DOMAIN queue', NEW j \in DOMAIN queue', i < j,
              queue'[j].at = queue'[i].at, queue'[i].fn # "Other", queue'[i].dev \in Optical(n),
              queue'[i].fn = "BeginReconfigure" => queue'[i].at # now
       PROVE  Alike(Owner, queue'[i], queue'[j])
  <2>1. ASSUME NEW x \in DOMAIN queue, queue'[i] = queue[x]
        PROVE  /\ Owner[queue[x].dev] = n
               /\ \/ queue[x].fn = "CompleteReconfigure" /\ queue[x].at = now + ReconfigureTime
                  \/ queue[x].fn = "BeginReconfigure" /\ queue[x].at = now + Period
               /\ Between(n)
    <3>1. queue[x].fn \in Kind /\ Pending(queue, queue[x].fn, queue[x].dev, queue[x].at)
      BY <1>3, EventFields, EventPending DEF RunOK
    <3>2. Owner[queue[x].dev] = n
      BY <1>3, <1>11, <2>1, OwnerIs
    <3>3. queue[x].dev \in Optical(n)
      BY <1>11, <2>1
    <3>4. CASE queue[x].fn = "CompleteReconfigure"
      <4>1. CompletesAt(queue[x].dev, queue[x].at)
        BY <3>1, <3>4 DEF CompletesAt
      <4>2. begun[queue[x].dev] # begun[d] /\ queue[x].at = now + ReconfigureTime
        BY <1>3, <1>4, <3>3, <4>1
      <4> QED
        BY <1>3, <3>2, <3>3, <3>4, <4>2 DEF Between
    <3>5. CASE queue[x].fn = "BeginReconfigure"
      <4>1. BeginsAt(queue[x].dev, queue[x].at) /\ queue[x].at # now
        BY <1>11, <2>1, <3>1, <3>5 DEF BeginsAt
      <4>2. \A t : BeginsAt(queue[x].dev, t) => t = queue[x].at
        BY <4>1, PendingOnce DEF SInv, OrderInv, BeginsAt
      <4>3. begun[queue[x].dev] # begun[d] /\ queue[x].at = now + Period
        BY <1>3, <1>4, <3>3, <4>1, <4>2
      <4> QED
        BY <1>3, <3>2, <3>3, <3>5, <4>3 DEF Between
    <3> QED
      BY <1>11, <2>1, <3>1, <3>4, <3>5 DEF Kind
  <2>2. CASE \E x, y \in DOMAIN queue : x < y /\ x # 1 /\ queue'[i] = queue[x] /\ queue'[j] = queue[y]
    <3>1. PICK x, y \in DOMAIN queue : x < y /\ queue'[i] = queue[x] /\ queue'[j] = queue[y]
      BY <2>2
    <3>2. Between(n) /\ n \in initialized
      BY <1>3, <2>1, <3>1
    <3> QED
      BY <1>11, <3>1, <3>2 DEF SInv, LastInv
  <2>3. CASE /\ Fresh(<<d>>, queue'[j])
             /\ Fresh(<<d>>, queue'[i]) \/ \E x \in DOMAIN queue : x # 1 /\ queue'[i] = queue[x]
    <3>1. /\ Owner[queue'[i].dev] = n
          /\ \/ queue'[i].fn = "CompleteReconfigure" /\ queue'[i].at = now + ReconfigureTime
             \/ queue'[i].fn = "BeginReconfigure" /\ queue'[i].at = now + Period
      BY <1>10, <2>1, <2>3
    <3> QED
      BY <1>8, <1>10, <1>11, <2>3, <3>1 DEF Alike
  <2> QED
    BY <1>6, <1>11, <2>2, <2>3
<1> QED
  BY <1>3, <1>5, <1>7, <1>11 DEF LastInv

\* What follows the first event, when the node has more of its kind in the instant.
LEMMA NextAlike ==
  ASSUME IInv, OrderInv, queue # <<>>, NEW f, f # "Other", Head(queue).fn = f,
         NEW n \in Node, Head(queue).dev \in Optical(n),
         NEW e \in Optical(n), e # Head(queue).dev, Pending(queue, f, e, Head(queue).at)
  PROVE  /\ 2 \in DOMAIN queue /\ queue[2].fn = f /\ queue[2].at = Head(queue).at
         /\ queue[2].dev \in Optical(n)
<1>1. RunOK /\ SetupOK
  BY DEF IInv
<1>2. PICK j \in DOMAIN queue : queue[j] = On(f, e, Head(queue).at)
  BY DEF Pending
<1>3. /\ Head(queue) = queue[1] /\ 1 \in DOMAIN queue
      /\ DOMAIN queue = 1..Len(queue) /\ Len(queue) \in Nat
  BY <1>1, QueueTail
<1>4. queue[j].fn = f /\ queue[j].dev = e /\ queue[j].at = queue[1].at /\ j # 1
  BY <1>2, <1>3, OnFields
<1>5. \A x \in Optical(n) : Owner[x] = n
  BY <1>1, OpticalIs DEF Owner, Optical
<1>6. Alike(Owner, queue[1], queue[j])
  BY <1>3, <1>4, <1>5 DEF Alike
<1>7. 2 \in DOMAIN queue /\ Alike(Owner, queue[1], queue[2])
  <2>1. CASE j = 2
    BY <1>6, <2>1
  <2>2. CASE j # 2
    <3>1. 2 \in DOMAIN queue /\ 1 < 2 /\ 2 < j
      BY <1>3, <1>4, <2>2
    <3> QED
      BY <1>3, <1>6, <3>1 DEF OrderInv, Contiguous
  <2> QED
    BY <2>1, <2>2
<1>8. queue[2].fn = f /\ queue[2].at = Head(queue).at /\ Owner[queue[2].dev] = n
  BY <1>3, <1>5, <1>7 DEF Alike
<1>9. queue[2].dev \in Optical(n)
  BY <1>7, <1>8, OwnerIs
<1> QED
  BY <1>7, <1>8, <1>9

LEMMA BeginDueTurn ==
  ASSUME IInv, SInv, BeginDue
  PROVE  TurnInv'
<1>1. PICK d : d = Head(queue).dev
  OBVIOUS
<1>2. PICK n : n = NodeOf(d)
  OBVIOUS
<1>3. /\ RunOK /\ SetupOK /\ queue # <<>> /\ initialized = Node /\ n \in Node /\ d \in Optical(n)
      /\ now \in Nat /\ begun[d] \in Nat
      /\ \A m \in Node : m # n => ~Between(m) /\ ~Halfway(m)
  BY <1>1, <1>2, DueFacts
<1>4. \A e \in Optical(n) :
        \/ begun[e] = begun[d] /\ e \notin reconfiguring /\ BeginsAt(e, now)
        \/ begun[e] = begun[d] + 1 /\ e \in reconfiguring
  BY <1>1, <1>2, DueFacts
<1>5. /\ \A e \in Device : begun'[e] = begun[e] + IF e = d THEN 1 ELSE 0
      /\ reconfiguring' = reconfiguring \cup {d}
      /\ UNCHANGED <<setup, now, initialized>>
      /\ \A m : Optical(m)' = Optical(m)
  BY <1>1, <1>2, BeginDueEffect
<1>6. \A m : Optical(m) \subseteq Device
  BY DEF Optical
<1>7. \A e \in Device : begun[e] \in Nat
  BY <1>3 DEF RunOK
<1>8. ASSUME NEW m \in Node, m # n
      PROVE  ~Between(m)' /\ ~Halfway(m)'
  <2>1. \A e \in Optical(m) : e \in Device /\ e # d
    BY <1>3, <1>6, <1>8, OpticalIs
  <2>2. \A e \in Optical(m) : begun'[e] = begun[e] /\ (e \in reconfiguring' <=> e \in reconfiguring)
    BY <1>5, <1>7, <2>1
  <2>3. ~Between(m)'
    BY <1>3, <1>5, <1>8, <2>2 DEF Between
  <2>4. ~Halfway(m)'
    BY <1>3, <1>5, <1>8, <2>2 DEF Halfway
  <2> QED
    BY <2>3, <2>4
<1>9. \A e \in Optical(n) :
        \/ begun'[e] = begun[d] /\ e # d /\ e \notin reconfiguring' /\ BeginsAt(e, now)
        \/ begun'[e] = begun[d] + 1 /\ e \in reconfiguring'
  BY <1>3, <1>4, <1>5, <1>6, <1>7
<1>10. ASSUME Between(n)'
       PROVE  HeadIs("BeginReconfigure", n)'
  <2>1. PICK e \in Optical(n) : begun'[e] = begun[d] /\ e # d /\ BeginsAt(e, now)
    BY <1>5, <1>9, <1>10 DEF Between
  <2>2. Head(queue).fn = "BeginReconfigure" /\ Head(queue).at = now
    BY BeginDueBegins
  <2>3. /\ 2 \in DOMAIN queue /\ queue[2].fn = "BeginReconfigure" /\ queue[2].at = now
        /\ queue[2].dev \in Optical(n)
    BY <1>1, <1>3, <2>1, <2>2, NextAlike DEF SInv, BeginsAt
  <2>4. 1 \in DOMAIN queue' /\ queue'[1] = queue[2]
    BY <1>1, <1>2, <2>3, BeginDueQueue
  <2>5. queue' # <<>> /\ Head(queue') = queue'[1]
    BY <2>4
  <2> QED
    BY <1>5, <2>3, <2>4, <2>5 DEF HeadIs
<1>11. ~Between(n)' => ~Halfway(n)'
  <2> SUFFICES ASSUME ~Between(n)', NEW e \in Optical(n), NEW x \in Optical(n),
                      e \in reconfiguring', x \notin reconfiguring'
               PROVE  FALSE
    BY <1>5 DEF Halfway
  <2>1. begun'[e] = begun'[x]
    BY <1>5 DEF Between
  <2> QED
    BY <1>3, <1>9, <2>1
<1> QED
  BY <1>3, <1>5, <1>8, <1>10, <1>11 DEF TurnInv

LEMMA BeginDuePace ==
  ASSUME IInv, SInv, BeginDue
  PROVE  AgendaInv' /\ PaceInv'
<1>1. PICK d : d = Head(queue).dev
  OBVIOUS
<1>2. PICK n : n = NodeOf(d)
  OBVIOUS
<1>3. /\ RunOK /\ SetupOK /\ initialized = Node /\ n \in Node /\ d \in Optical(n) /\ d \in Device
      /\ now \in Nat /\ begun[d] \in Nat
  BY <1>1, <1>2, DueFacts
<1>4. \A e \in Optical(n) :
        \/ /\ begun[e] = begun[d] /\ e \notin reconfiguring /\ slots[e] = slots[d]
           /\ BeginsAt(e, now) /\ \A t : ~CompletesAt(e, t)
        \/ /\ begun[e] = begun[d] + 1 /\ e \in reconfiguring /\ slots[e] = NextSlots(d)
           /\ BeginsAt(e, now + Period)
  BY <1>1, <1>2, DueFacts
<1>5. /\ \A e \in Device : begun'[e] = begun[e] + IF e = d THEN 1 ELSE 0
      /\ \A e \in Device : slots'[e] = IF e = d THEN NextSlots(d) ELSE slots[e]
      /\ reconfiguring' = reconfiguring \cup {d}
      /\ UNCHANGED <<setup, now, initialized>>
      /\ \A m : Optical(m)' = Optical(m)
      /\ \A e \in Device : e # d => NextSlots(e)' = NextSlots(e)
  BY <1>1, <1>2, BeginDueEffect
<1>6. /\ \A e, t : BeginsAt(e, t)' <=> \/ BeginsAt(e, t) /\ e # d
                                       \/ e = d /\ t = now + Period
      /\ \A e, t : CompletesAt(e, t)' <=> \/ CompletesAt(e, t)
                                          \/ e = d /\ t = now + ReconfigureTime
  BY <1>1, <1>2, BeginDueQueue
<1>7. \A m : Optical(m) \subseteq Device
  BY DEF Optical
<1>8. \A e \in Device : begun[e] \in Nat
  BY <1>3 DEF RunOK
<1>9. now + Period \in Nat /\ now + ReconfigureTime \in Nat
      /\ now + Period = now + ReconfigureTime + SlotDuration /\ now # now + Period
  BY <1>3, SpanIs
<1>10. AgendaInv'
  <2>1. ASSUME NEW m \in Node, NEW e \in Optical(m), e # d
        PROVE  /\ \E t \in Nat : BeginsAt(e, t)'
               /\ e \in reconfiguring' <=> \E t \in Nat : CompletesAt(e, t)'
               /\ \A t, u \in Nat : CompletesAt(e, t)' /\ BeginsAt(e, u)' => u = t + SlotDuration
    BY <1>3, <1>5, <1>6, <2>1 DEF SInv, AgendaInv
  <2>2. \A t : ~CompletesAt(d, t)
    BY <1>3, <1>4
  <2>3. /\ \E t \in Nat : BeginsAt(d, t)'
        /\ d \in reconfiguring' <=> \E t \in Nat : CompletesAt(d, t)'
        /\ \A t, u \in Nat : CompletesAt(d, t)' /\ BeginsAt(d, u)' => u = t + SlotDuration
    BY <1>5, <1>6, <1>9, <2>2
  <2> QED
    BY <1>3, <1>5, <2>1, <2>3 DEF AgendaInv
<1>11. ASSUME NEW m \in Node, m # n, NEW e \in Optical(m), NEW x \in Optical(m),
              NEW t \in Nat, NEW u \in Nat, BeginsAt(e, t)', BeginsAt(x, u)'
       PROVE  /\ begun'[e] = begun'[x] => t = u /\ slots'[e] = slots'[x]
              /\ begun'[e] > begun'[x] =>
                   /\ begun'[e] = begun'[x] + 1 /\ e \in reconfiguring'
                   /\ u = now' /\ t = now' + Period /\ slots'[e] = NextSlots(x)'
  <2>1. e \in Device /\ x \in Device /\ e # d /\ x # d
    BY <1>3, <1>7, <1>11, OpticalIs
  <2>2. begun'[e] = begun[e] /\ begun'[x] = begun[x] /\ slots'[e] = slots[e] /\ slots'[x] = slots[x]
        /\ NextSlots(x)' = NextSlots(x) /\ (e \in reconfiguring' <=> e \in reconfiguring) /\ now' = now
    BY <1>5, <1>8, <2>1
  <2>3. BeginsAt(e, t) /\ BeginsAt(x, u)
    BY <1>6, <1>11, <2>1
  <2> QED
    BY <1>3, <1>11, <2>2, <2>3 DEF SInv, PaceInv
<1>12. \A e, t, u : BeginsAt(e, t) /\ BeginsAt(e, u) => t = u
  BY PendingOnce DEF SInv, OrderInv, BeginsAt
<1>13. ASSUME NEW e \in Optical(n), NEW t, BeginsAt(e, t)'
       PROVE  \/ begun'[e] = begun[d] /\ slots'[e] = slots[d] /\ t = now /\ e # d
              \/ /\ begun'[e] = begun[d] + 1 /\ slots'[e] = NextSlots(d) /\ t = now + Period
                 /\ e \in reconfiguring'
  <2>1. CASE e = d
    BY <1>3, <1>5, <1>6, <1>13, <2>1
  <2>2. CASE e # d
    <3>1. BeginsAt(e, t) /\ e \in Device
      BY <1>6, <1>7, <1>13, <2>2
    <3>2. begun'[e] = begun[e] /\ slots'[e] = slots[e]
      BY <1>5, <1>8, <2>2, <3>1
    <3> QED
      BY <1>4, <1>5, <1>12, <1>13, <2>2, <3>1, <3>2
  <2> QED
    BY <2>1, <2>2
<1>14. \A e \in Optical(n) : e # d /\ slots'[e] = slots[d] => NextSlots(e)' = NextSlots(d)
  <2> SUFFICES ASSUME NEW e \in Optical(n), e # d, slots'[e] = slots[d]
               PROVE  NextSlots(e)' = NextSlots(d)
    OBVIOUS
  <2>1. slots[e] = slots[d]
    BY <1>5, <1>7
  <2>2. NodeOf(e) = NodeOf(d)
    BY <1>3, OpticalIs
  <2>3. NextSlots(e) = NextSlots(d)
    BY <2>1, <2>2 DEF NextSlots
  <2> QED
    BY <1>5, <1>7, <2>3
<1>15. ASSUME NEW e \in Optical(n), NEW x \in Optical(n),
              NEW t \in Nat, NEW u \in Nat, BeginsAt(e, t)', BeginsAt(x, u)'
       PROVE  /\ begun'[e] = begun'[x] => t = u /\ slots'[e] = slots'[x]
              /\ begun'[e] > begun'[x] =>
                   /\ begun'[e] = begun'[x] + 1 /\ e \in reconfiguring'
                   /\ u = now' /\ t = now' + Period /\ slots'[e] = NextSlots(x)'
  <2>1. now' = now /\ begun[d] # begun[d] + 1 /\ ~(begun[d] > begun[d] + 1) /\ ~(begun[d] > begun[d])
    BY <1>3, <1>5
  <2>2. \/ begun'[e] = begun[d] /\ slots'[e] = slots[d] /\ t = now
        \/ begun'[e] = begun[d] + 1 /\ slots'[e] = NextSlots(d) /\ t = now + Period /\ e \in reconfiguring'
    BY <1>13, <1>15
  <2>3. \/ begun'[x] = begun[d] /\ slots'[x] = slots[d] /\ u = now /\ NextSlots(x)' = NextSlots(d)
        \/ begun'[x] = begun[d] + 1 /\ slots'[x] = NextSlots(d) /\ u = now + Period
    BY <1>13, <1>14, <1>15
  <2>4. ~(begun[d] + 1 > begun[d] + 1)
    BY <1>3
  <2> QED
    BY <2>1, <2>2, <2>3, <2>4
<1>16. ASSUME NEW m \in initialized', NEW e \in Optical(m)', NEW x \in Optical(m)',
              NEW t \in Nat, NEW u \in Nat, BeginsAt(e, t)', BeginsAt(x, u)'
       PROVE  /\ begun'[e] = begun'[x] => t = u /\ slots'[e] = slots'[x]
              /\ begun'[e] > begun'[x] =>
                   /\ begun'[e] = begun'[x] + 1 /\ e \in reconfiguring'
                   /\ u = now' /\ t = now' + Period /\ slots'[e] = NextSlots(x)'
  <2>1. m \in Node /\ e \in Optical(m) /\ x \in Optical(m)
    BY <1>3, <1>5, <1>16
  <2>2. CASE m = n
    BY <1>15, <1>16, <2>1, <2>2
  <2>3. CASE m # n
    BY <1>11, <1>16, <2>1, <2>3
  <2> QED
    BY <2>2, <2>3
<1>17. PaceInv'
  BY <1>16 DEF PaceInv
<1> QED
  BY <1>10, <1>17

-----------------------------------------------------------------------------
(***************************************************************************)
(* The slots of a device.                                                  *)
(***************************************************************************)
LEMMA TimesGrows ==
  ASSUME NEW i \in Nat, NEW j \in Nat, NEW p \in Nat, p > 0, i < j
  PROVE  i * p < j * p
<1>1. PICK m \in Nat : j = i + m /\ m >= 1
  <2>1. j - i \in Nat /\ j = i + (j - i) /\ j - i >= 1
    OBVIOUS
  <2> QED
    BY <2>1
<1>2. j * p = i * p + m * p
  BY <1>1
<1>3. m * p > 0
  BY <1>1
<1>4. i * p \in Nat /\ m * p \in Nat
  BY <1>1
<1> QED
  BY <1>2, <1>3, <1>4

\* The first schedule of a device: m_schedule_size slots.
LEMMA FirstSlots ==
  ASSUME NEW start \in Nat, NEW p \in Nat, p > 0, NEW size \in Nat \ {0},
         NEW T, T = {start + k * p : k \in 0..(size - 1)}
  PROVE  /\ IsFiniteSet(T) /\ Cardinality(T) = size
         /\ \A x \in T : x \in Nat /\ x <= start + (size - 1) * p
<1> DEFINE f == [k \in 0..(size - 1) |-> start + k * p]
<1>1. \A k \in 0..(size - 1) : k * p \in Nat /\ start + k * p \in Nat
  OBVIOUS
<1>2. \A i, j \in 0..(size - 1) : i < j => i * p < j * p
  <2> TAKE i \in 0..(size - 1), j \in 0..(size - 1)
  <2>1. i \in Nat /\ j \in Nat
    OBVIOUS
  <2> QED
    BY <2>1, TimesGrows
<1>3. \A i, j \in 0..(size - 1) : f[i] = f[j] => i = j
  <2> SUFFICES ASSUME NEW i \in 0..(size - 1), NEW j \in 0..(size - 1), f[i] = f[j]
               PROVE  i = j
    OBVIOUS
  <2>1. i * p \in Nat /\ j * p \in Nat /\ i * p = j * p
    <3>1. PICK a \in Nat : a = i * p
      BY <1>1
    <3>2. PICK b \in Nat : b = j * p
      BY <1>1
    <3>3. start + a = start + b
      BY <3>1, <3>2
    <3> QED
      BY <3>1, <3>2, <3>3
  <2>2. ~(i * p < j * p) /\ ~(j * p < i * p)
    BY <2>1
  <2>3. ~(i < j) /\ ~(j < i)
    BY <1>2, <2>2
  <2> QED
    BY <2>3
<1>4. f \in Bijection(0..(size - 1), T)
  <2>1. f \in [0..(size - 1) -> T]
    OBVIOUS
  <2>2. \A x \in T : \E k \in 0..(size - 1) : f[k] = x
    OBVIOUS
  <2>3. IsInjective(f)
    BY <1>3 DEF IsInjective
  <2> QED
    BY <2>1, <2>2, <2>3 DEF Bijection, Injection, Surjection
<1>5. IsFiniteSet(0..(size - 1)) /\ Cardinality(0..(size - 1)) = size
  <2>1. size - 1 \in Int /\ 0 \in Int /\ ~(0 > size - 1) /\ size - 1 - 0 + 1 = size
    OBVIOUS
  <2> QED
    BY <2>1, FS_Interval
<1>6. IsFiniteSet(T) /\ Cardinality(T) = size
  <2>1. ExistsBijection(0..(size - 1), T)
    BY <1>4 DEF ExistsBijection
  <2> QED
    BY <1>5, <2>1, FS_Bijection
<1>7. ASSUME NEW k \in 0..(size - 1)
      PROVE  start + k * p \in Nat /\ start + k * p <= start + (size - 1) * p
  <2>1. PICK e \in Nat : e = size - 1
    OBVIOUS
  <2>2. k \in Nat /\ k <= e /\ k * p \in Nat /\ e * p \in Nat
    BY <1>1, <2>1
  <2>3. k * p <= e * p
    <3>1. CASE k < e
      BY <2>2, <3>1, TimesGrows
    <3>2. CASE k = e
      BY <2>2, <3>2
    <3> QED
      BY <2>2, <3>1, <3>2
  <2>4. start + k * p <= start + e * p
    BY <2>2, <2>3
  <2> QED
    BY <2>1, <2>2, <2>4
<1> QED
  BY <1>6, <1>7

\* A later one: the first slot is taken out and one is added behind the last.
LEMMA MoreSlots ==
  ASSUME NEW S \in SUBSET Nat, IsFiniteSet(S), S # {}, NEW z \in Nat, \A x \in S : x < z
  PROVE  LET T == (S \ {Min(S)}) \cup {z}
         IN /\ IsFiniteSet(T) /\ Cardinality(T) = Cardinality(S)
            /\ \A x \in T : x \in Nat /\ x <= z
<1>1. Min(S) \in S
  <2>1. \E x \in S : \A y \in S : x <= y
    BY SetHasMin
  <2> QED
    BY <2>1 DEF Min
<1>2. PICK m \in S : m = Min(S)
  BY <1>1
<1>3. PICK c \in Nat : c = Cardinality(S)
  BY FS_CardinalityType
<1>4. IsFiniteSet(S \ {m}) /\ Cardinality(S \ {m}) = c - 1
  BY <1>2, <1>3, FS_RemoveElement
<1>5. z \notin S \ {m}
  OBVIOUS
<1>6. IsFiniteSet((S \ {m}) \cup {z}) /\ Cardinality((S \ {m}) \cup {z}) = c - 1 + 1
  BY <1>4, <1>5, FS_AddElement
<1>7. \A x \in (S \ {m}) \cup {z} : x \in Nat /\ x <= z
  OBVIOUS
<1> QED
  BY <1>2, <1>3, <1>6, <1>7

LEMMA NextSlotsIs ==
  ASSUME IInv, NEW d \in Installed, NEW z, z = now + gained[NodeOf(d)] + Reach,
         \/ slots[d] = {}
         \/ /\ IsFiniteSet(slots[d]) /\ Cardinality(slots[d]) = ScheduleSize
            /\ \A x \in slots[d] : x + Period <= z
  PROVE  /\ IsFiniteSet(NextSlots(d)) /\ Cardinality(NextSlots(d)) = ScheduleSize
         /\ \A x \in NextSlots(d) : x \in Nat /\ x <= z
<1> DEFINE start == now + gained[NodeOf(d)] + ReconfigureTime
           size == ScheduleSize
           Slot(k) == start + k * Period
<1>1. NodeOf(d) \in Node /\ now \in Nat /\ gained[NodeOf(d)] \in Nat
  BY InstalledHasNode, Constants DEF IInv, RunOK
<1>2. start \in Nat /\ size \in Nat \ {0} /\ Period \in Nat /\ Period > 0 /\ Reach \in Nat
  BY <1>1, Constants, SpanIs
<1>3. z = start + (size - 1) * Period /\ z \in Nat
  <2>1. PICK g \in Nat : g = now + gained[NodeOf(d)]
    BY <1>1
  <2>2. PICK w \in Nat : w = (size - 1) * Period
    BY <1>2
  <2>3. Reach = ReconfigureTime + w /\ ReconfigureTime \in Nat
    BY <2>2, Constants DEF Reach
  <2>4. z = g + (ReconfigureTime + w) /\ start = g + ReconfigureTime
    BY <2>1, <2>3
  <2> QED
    BY <2>2, <2>3, <2>4
<1>4. slots[d] \in SUBSET Nat
  BY InstalledIs DEF IInv, RunOK
<1>5. NextSlots(d) = IF slots[d] = {} THEN {Slot(k) : k \in 0..(size - 1)}
                     ELSE (slots[d] \ {Min(slots[d])}) \cup {Slot(size - 1)}
  BY DEF NextSlots, LocalTime, Period
<1>6. CASE slots[d] = {}
  <2>1. NextSlots(d) = {start + k * Period : k \in 0..(size - 1)}
    BY <1>5, <1>6
  <2> HIDE DEF start
  <2>2. /\ IsFiniteSet(NextSlots(d)) /\ Cardinality(NextSlots(d)) = size
        /\ \A x \in NextSlots(d) : x \in Nat /\ x <= start + (size - 1) * Period
    BY <1>2, <2>1, FirstSlots
  <2> QED
    BY <1>3, <2>2
<1>7. CASE slots[d] # {}
  <2>1. NextSlots(d) = (slots[d] \ {Min(slots[d])}) \cup {z}
    BY <1>3, <1>5, <1>7
  <2>2. \A x \in slots[d] : x < z
    <3>1. \A x \in slots[d] : x \in Nat /\ x + Period <= z
      BY <1>4, <1>7
    <3> QED
      BY <1>2, <1>3, <3>1
  <2>3. /\ IsFiniteSet(NextSlots(d)) /\ Cardinality(NextSlots(d)) = Cardinality(slots[d])
        /\ \A x \in NextSlots(d) : x \in Nat /\ x <= z
    BY <1>3, <1>4, <1>7, <2>1, <2>2, MoreSlots
  <2> QED
    BY <1>7, <2>3
<1> QED
  BY <1>6, <1>7

LEMMA BeginDueSlots ==
  ASSUME IInv, SInv, BeginDue
  PROVE  SlotsInv'
<1>1. PICK d : d = Head(queue).dev
  OBVIOUS
<1>2. PICK n : n = NodeOf(d)
  OBVIOUS
<1>3. /\ RunOK /\ SetupOK /\ initialized = Node /\ n \in Node /\ d \in Optical(n) /\ d \in Device
      /\ BeginsAt(d, now) /\ now \in Nat
  BY <1>1, <1>2, DueFacts
<1>4. /\ \A e \in Device : slots'[e] = IF e = d THEN NextSlots(d) ELSE slots[e]
      /\ UNCHANGED <<now, gained, initialized>>
      /\ \A m : Optical(m)' = Optical(m)
  BY <1>1, <1>2, BeginDueEffect
<1>5. \A e, t : BeginsAt(e, t)' <=> \/ BeginsAt(e, t) /\ e # d
                                    \/ e = d /\ t = now + Period
  BY <1>1, <1>2, BeginDueQueue
<1>6. ASSUME NEW m \in Node, NEW e \in Optical(m), e # d
      PROVE  /\ IsFiniteSet(slots'[e]) /\ Cardinality(slots'[e]) = ScheduleSize
             /\ \A t \in Nat : BeginsAt(e, t)' =>
                  \A x \in slots'[e] : x + Period <= t + gained'[m] + Reach
  <2>1. slots'[e] = slots[e] /\ gained' = gained
    BY <1>4, <1>6 DEF Optical
  <2> QED
    BY <1>3, <1>5, <1>6, <2>1 DEF SInv, SlotsInv
<1>7. /\ IsFiniteSet(slots'[d]) /\ Cardinality(slots'[d]) = ScheduleSize
      /\ \A t \in Nat : BeginsAt(d, t)' =>
           \A x \in slots'[d] : x + Period <= t + gained'[n] + Reach
  <2>1. d \in Installed
    BY <1>3, OpticalIs
  <2>2. PICK z \in Nat : z = now + gained[n] + Reach
    BY <1>3, Constants, SpanIs DEF RunOK
  <2>3. /\ IsFiniteSet(slots[d]) /\ Cardinality(slots[d]) = ScheduleSize
        /\ \A x \in slots[d] : x + Period <= z
    BY <1>3, <2>2 DEF SInv, SlotsInv
  <2>4. /\ IsFiniteSet(NextSlots(d)) /\ Cardinality(NextSlots(d)) = ScheduleSize
        /\ \A x \in NextSlots(d) : x \in Nat /\ x <= z
    BY <1>2, <2>1, <2>2, <2>3, NextSlotsIs
  <2>5. slots'[d] = NextSlots(d) /\ gained' = gained
    BY <1>3, <1>4
  <2>6. ASSUME NEW x \in slots'[d]
        PROVE  x + Period <= now + Period + gained'[n] + Reach
    <3>1. x \in Nat /\ x <= z
      BY <2>4, <2>5, <2>6
    <3>2. gained[n] \in Nat
      BY <1>3, Constants DEF RunOK
    <3> QED
      BY <1>3, <2>2, <2>5, <3>1, <3>2, SpanIs
  <2> QED
    BY <1>5, <2>4, <2>5, <2>6
<1>8. ASSUME NEW m \in initialized', NEW e \in Optical(m)'
      PROVE  /\ IsFiniteSet(slots'[e]) /\ Cardinality(slots'[e]) = ScheduleSize
             /\ \A t \in Nat : BeginsAt(e, t)' =>
                  \A x \in slots'[e] : x + Period <= t + gained'[m] + Reach
  <2>1. m \in Node /\ e \in Optical(m)
    BY <1>3, <1>4, <1>8
  <2>2. CASE e = d
    <3>1. m = n
      BY <1>3, <2>1, <2>2, OpticalIs
    <3> QED
      BY <1>7, <2>2, <3>1
  <2>3. CASE e # d
    BY <1>6, <2>1, <2>3
  <2> QED
    BY <2>2, <2>3
<1> QED
  BY <1>8 DEF SlotsInv

LEMMA BeginDueInStep ==
  ASSUME IInv, SInv, BeginDue
  PROVE  SInv'
<1>1. PICK d : d = Head(queue).dev
  OBVIOUS
<1>2. PICK n : n = NodeOf(d)
  OBVIOUS
<1>3. ~failed' /\ initialized' = initialized /\ initialized = Node
  BY <1>1, <1>2, BeginDueEffect, DueFacts
<1>4. OrderInv'
  BY <1>1, <1>2, BeginDueQueue
<1>5. WaitingInv'
  BY <1>3 DEF WaitingInv
<1> QED
  BY <1>3, <1>4, <1>5, BeginDuePace, BeginDueSlots, BeginDueTurn, BeginDueLast DEF SInv

-----------------------------------------------------------------------------
(***************************************************************************)
(* The other steps.                                                        *)
(***************************************************************************)
LEMMA AgendaKept ==
  ASSUME IInv, SInv, UNCHANGED <<setup, slots, reconfiguring, begun, now, gained, initialized>>,
         \A e, t : BeginsAt(e, t)' <=> BeginsAt(e, t),
         \A e, t : CompletesAt(e, t)' <=> CompletesAt(e, t)
  PROVE  AgendaInv' /\ PaceInv' /\ SlotsInv' /\ WaitingInv'
<1>1. /\ \A m : Optical(m)' = Optical(m)
      /\ \A m : NodeOf(m)' = NodeOf(m)
  BY SameSetup DEF IInv
<1>2. \A e : NextSlots(e)' = NextSlots(e)
  BY <1>1 DEF NextSlots, LocalTime
<1>3. AgendaInv'
  BY <1>1 DEF SInv, AgendaInv
<1>4. PaceInv'
  BY <1>1, <1>2 DEF SInv, PaceInv
<1>5. SlotsInv'
  BY <1>1 DEF SInv, SlotsInv
<1>6. WaitingInv'
  BY <1>1 DEF SInv, WaitingInv
<1> QED
  BY <1>3, <1>4, <1>5, <1>6

\* No node is in the middle of its turn.
AllSettled == \A m \in Node : ~Between(m) /\ ~Halfway(m)

LEMMA StaySettled ==
  ASSUME AllSettled, UNCHANGED <<begun, reconfiguring>>, \A m : Optical(m)' = Optical(m),
         initialized' \subseteq Node
  PROVE  TurnInv' /\ LastInv'
<1>1. \A m \in Node : ~Between(m)'
  BY DEF AllSettled, Between
<1>2. \A m \in Node : ~Halfway(m)'
  BY DEF AllSettled, Halfway
<1> QED
  BY <1>1, <1>2 DEF TurnInv, LastInv

\* One more event of something else.
LEMMA OtherInStep ==
  ASSUME IInv, SInv, AllSettled, NEW left \in Seq(Event), Sorted(left), NEW at \in Nat, now <= at,
         Contiguous(left, Owner), Single(left), DueLater(left),
         \A i \in DOMAIN left : \E j \in DOMAIN queue : left[i] = queue[j],
         \A f, e, t : f # "Other" => (Pending(left, f, e, t) <=> Pending(queue, f, e, t)),
         queue' = Schedule(left, "Other", <<Loopback>>, at),
         UNCHANGED <<setup, routes, slots, reconfiguring, begun, failed, now, gained, initialized>>
  PROVE  SInv'
<1>1. PICK k \in Nat : Put(left, "Other", <<Loopback>>, at, k, queue')
  BY SchedulesOther
<1>2. PICK ds \in Seq(Device \cup {Loopback}) : ds = <<Loopback>> /\ DOMAIN ds = 1..Len(ds)
  <2>1. <<Loopback>> \in Seq(Device \cup {Loopback})
    OBVIOUS
  <2> QED
    BY <2>1, LenProperties
<1>3. PICK q : q = queue'
  OBVIOUS
<1>4. Put(left, "Other", ds, at, k, q)
  BY <1>1, <1>2, <1>3
<1>5. PICK own : own = Owner
  OBVIOUS
<1>6. Contiguous(q, own)
  <2>1. \A i \in DOMAIN ds : ds[i] = Loopback
    BY <1>2
  <2>2. Belong(ds, own, own[Loopback])
    BY <2>1 DEF Belong
  <2> QED
    BY <1>2, <1>4, <1>5, <2>2, PutContiguous
<1>7. Single(q)
  BY <1>2, <1>4, PutSingle
<1>8. \A i \in DOMAIN q : now <= q[i].at
  BY <1>2, <1>4, PutLater DEF DueLater
<1>9. \A f, e, t : f # "Other" => (Pending(q, f, e, t) <=> Pending(left, f, e, t))
  BY <1>2, <1>4, PutPending
<1>10. \A m : Optical(m)' = Optical(m) /\ NodeOf(m)' = NodeOf(m)
  BY SameSetup DEF IInv
<1>11. OrderInv'
  <2>1. Owner' = own
    BY <1>5, <1>10 DEF Owner
  <2>2. Contiguous(queue, Owner)' <=> Contiguous(q, own)
    BY <1>3, <2>1 DEF Contiguous, Alike
  <2>3. Single(queue)' <=> Single(q)
    BY <1>3 DEF Single
  <2> QED
    BY <1>3, <1>6, <1>7, <1>8, <2>2, <2>3 DEF OrderInv
<1>12. /\ \A e, t : BeginsAt(e, t)' <=> BeginsAt(e, t)
       /\ \A e, t : CompletesAt(e, t)' <=> CompletesAt(e, t)
  <2>1. /\ \A e, t : BeginsAt(e, t)' <=> Pending(q, "BeginReconfigure", e, t)
        /\ \A e, t : CompletesAt(e, t)' <=> Pending(q, "CompleteReconfigure", e, t)
    BY <1>3 DEF BeginsAt, CompletesAt, Pending
  <2> QED
    BY <1>9, <2>1 DEF BeginsAt, CompletesAt
<1>13. AgendaInv' /\ PaceInv' /\ SlotsInv' /\ WaitingInv'
  BY <1>12, AgendaKept
<1>14. TurnInv' /\ LastInv'
  BY <1>10, StaySettled DEF IInv, RunOK
<1> QED
  BY <1>11, <1>13, <1>14 DEF SInv

\* The first event is of something else, or of a node that is not the one asked about.
LEMMA HeadSettles ==
  ASSUME SInv, NEW m \in initialized, \A f \in {"BeginReconfigure", "CompleteReconfigure"} : ~HeadIs(f, m)
  PROVE  ~Between(m) /\ ~Halfway(m)
BY DEF SInv, TurnInv

LEMMA OtherRunsInStep ==
  ASSUME IInv, SInv, OtherRuns
  PROVE  SInv'
<1>1. /\ initialized = Node /\ queue # <<>> /\ Head(queue).fn = "Other" /\ RunOK /\ SetupOK
      /\ UNCHANGED <<setup, routes, slots, reconfiguring, begun, failed, now, gained, initialized>>
  BY DEF OtherRuns, Due, IInv
<1>2. AllSettled
  <2>1. \A m \in Node : \A f \in {"BeginReconfigure", "CompleteReconfigure"} : ~HeadIs(f, m)
    BY <1>1 DEF HeadIs
  <2> QED
    BY <1>1, <2>1, HeadSettles DEF AllSettled
<1>3. PICK left \in Seq(Event) : left = Tail(queue)
  BY <1>1, QueueTail
<1>4. /\ Sorted(left) /\ \A i \in DOMAIN left : i + 1 \in DOMAIN queue /\ left[i] = queue[i + 1]
  BY <1>1, <1>3, Behind
<1>5. PICK own : own = Owner
  OBVIOUS
<1>6. Contiguous(left, own) /\ Single(left)
  BY <1>1, <1>3, <1>5, TailOrder DEF SInv, OrderInv
<1>7. DueLater(left)
  BY <1>4 DEF SInv, OrderInv, DueLater
<1>8. \A f, e, t : f # "Other" => (Pending(left, f, e, t) <=> Pending(queue, f, e, t))
  BY <1>1, <1>3, TailPending DEF SInv, OrderInv
<1>9. CASE queue' = Tail(queue)
  <2>1. \A m : Optical(m)' = Optical(m) /\ NodeOf(m)' = NodeOf(m)
    BY <1>1, SameSetup
  <2>2. OrderInv'
    <3>1. Owner' = own
      BY <1>5, <2>1 DEF Owner
    <3>2. Contiguous(queue, Owner)' <=> Contiguous(left, own)
      BY <1>3, <1>9, <3>1 DEF Contiguous, Alike
    <3>3. Single(queue)' <=> Single(left)
      BY <1>3, <1>9 DEF Single
    <3> QED
      BY <1>1, <1>3, <1>6, <1>7, <1>9, <3>2, <3>3 DEF OrderInv, DueLater
  <2>3. /\ \A e, t : BeginsAt(e, t)' <=> BeginsAt(e, t)
        /\ \A e, t : CompletesAt(e, t)' <=> CompletesAt(e, t)
    <3>1. /\ \A e, t : BeginsAt(e, t)' <=> Pending(left, "BeginReconfigure", e, t)
          /\ \A e, t : CompletesAt(e, t)' <=> Pending(left, "CompleteReconfigure", e, t)
      BY <1>3, <1>9 DEF BeginsAt, CompletesAt, Pending
    <3> QED
      BY <1>8, <3>1 DEF BeginsAt, CompletesAt
  <2>4. AgendaInv' /\ PaceInv' /\ SlotsInv' /\ WaitingInv'
    BY <1>1, <2>3, AgendaKept
  <2>5. TurnInv' /\ LastInv'
    BY <1>1, <1>2, <2>1, StaySettled DEF RunOK
  <2> QED
    BY <1>1, <2>2, <2>4, <2>5 DEF SInv
<1>10. ASSUME NEW delay \in 0..MaxDelay,
              queue' = Schedule(Tail(queue), "Other", <<Loopback>>, now + delay)
       PROVE  SInv'
  <2>1. PICK at \in Nat : at = now + delay /\ now <= at
    BY <1>1, Constants DEF RunOK
  <2>2. queue' = Schedule(left, "Other", <<Loopback>>, at)
    BY <1>3, <1>10, <2>1
  <2>3. \A i \in DOMAIN left : \E j \in DOMAIN queue : left[i] = queue[j]
    BY <1>4
  <2> QED
    BY <1>1, <1>2, <1>4, <1>5, <1>6, <1>7, <1>8, <2>1, <2>2, <2>3, OtherInStep
<1> QED
  BY <1>9, <1>10 DEF OtherRuns

LEMMA ScheduleOtherInStep ==
  ASSUME IInv, SInv, NEW at \in 0..MaxDelay, ScheduleOther(at)
  PROVE  SInv'
<1>1. /\ initialized # Node /\ queue' = Schedule(queue, "Other", <<Loopback>>, at) /\ RunOK /\ SetupOK
      /\ UNCHANGED <<setup, routes, slots, reconfiguring, begun, failed, now, gained, initialized>>
  BY DEF ScheduleOther, IInv
<1>2. now = 0 /\ at \in Nat /\ now <= at
  BY <1>1, Constants DEF SInv, WaitingInv
<1>3. AllSettled
  <2>1. ASSUME NEW m \in Node, m \in initialized
        PROVE  ~Between(m) /\ ~Halfway(m)
    BY <1>1, <2>1 DEF SInv, WaitingInv, Between, Halfway
  <2>2. ASSUME NEW m \in Node, m \notin initialized
        PROVE  ~Between(m) /\ ~Halfway(m)
    <3>1. \A d \in Optical(m) : d \in Device /\ NodeOf(d) = m
      BY <1>1, OpticalIs DEF Optical
    <3>2. \A d \in Optical(m) : begun[d] = 0 /\ d \notin reconfiguring
      BY <2>2, <3>1 DEF IInv, Asleep
    <3> QED
      BY <3>2 DEF Between, Halfway
  <2> QED
    BY <2>1, <2>2 DEF AllSettled
<1>4. PICK left \in Seq(Event) : left = queue /\ Sorted(left)
  BY <1>1 DEF RunOK
<1>5. Contiguous(left, Owner) /\ Single(left) /\ DueLater(left)
  BY <1>4 DEF SInv, OrderInv, DueLater
<1> QED
  BY <1>1, <1>2, <1>3, <1>4, <1>5, OtherInStep

LEMMA AdvanceInStep ==
  ASSUME IInv, SInv, Advance
  PROVE  SInv'
<1>1. /\ initialized = Node /\ queue # <<>> /\ now < Head(queue).at /\ now' = Head(queue).at
      /\ UNCHANGED <<setup, routes, slots, reconfiguring, begun, failed, queue, initialized>>
      /\ RunOK /\ SetupOK
  BY DEF Advance, IInv
<1>2. /\ Head(queue) = queue[1] /\ 1 \in DOMAIN queue /\ DOMAIN queue = 1..Len(queue)
      /\ Len(queue) \in Nat /\ Sorted(queue)
  BY <1>1, QueueTail
<1>3. \A i \in DOMAIN queue : queue[i].at \in Nat
  BY <1>1, EventFields DEF RunOK
<1>4. \A i \in DOMAIN queue : now' <= queue[i].at
  BY <1>1, <1>2, <1>3 DEF Sorted
<1>5. \A m : Optical(m)' = Optical(m) /\ NodeOf(m)' = NodeOf(m)
  BY <1>1, SameSetup
<1>6. now \in Nat /\ begun \in [Device -> Nat]
  BY <1>1 DEF RunOK
<1>7. ASSUME NEW m \in Node
      PROVE  ~Between(m)
  <2> SUFFICES ASSUME NEW d \in Optical(m), NEW e \in Optical(m), begun[d] > begun[e]
               PROVE  FALSE
    <3>1. \A d, e \in Optical(m) : begun[d] \in Nat /\ begun[e] \in Nat
      BY <1>6 DEF Optical
    <3> QED
      BY <3>1 DEF Between
  <2>1. PICK t \in Nat : BeginsAt(d, t)
    BY <1>1 DEF SInv, AgendaInv
  <2>2. PICK u \in Nat : BeginsAt(e, u)
    BY <1>1 DEF SInv, AgendaInv
  <2>3. u = now
    BY <1>1, <2>1, <2>2 DEF SInv, PaceInv
  <2>4. PICK j \in DOMAIN queue : queue[j].at = now
    BY <2>2, <2>3, OnFields DEF BeginsAt, Pending
  <2> QED
    BY <1>1, <1>2, <1>3, <1>4, <1>6, <2>4
<1>8. OrderInv'
  <2>1. Owner' = Owner
    BY <1>5 DEF Owner
  <2> QED
    BY <1>1, <1>4, <2>1 DEF SInv, OrderInv, Contiguous, Single, Alike
<1>9. /\ \A e, t : BeginsAt(e, t)' <=> BeginsAt(e, t)
      /\ \A e, t : CompletesAt(e, t)' <=> CompletesAt(e, t)
  BY <1>1 DEF BeginsAt, CompletesAt, Pending
<1>10. AgendaInv'
  BY <1>1, <1>5, <1>9 DEF SInv, AgendaInv
<1>11. PaceInv'
  <2> SUFFICES ASSUME NEW m \in Node, NEW d \in Optical(m), NEW e \in Optical(m),
                      NEW t \in Nat, NEW u \in Nat, BeginsAt(d, t), BeginsAt(e, u)
               PROVE  begun[d] = begun[e] /\ t = u /\ slots[d] = slots[e]
    <3>1. \A d \in Device : ~(begun[d] > begun[d])
      BY <1>6
    <3>2. \A m \in Node : Optical(m) \subseteq Device
      BY DEF Optical
    <3>3. \A m \in Node : \A d, e \in Optical(m) : \A t, u \in Nat :
            BeginsAt(d, t) /\ BeginsAt(e, u) =>
              begun[d] = begun[e] /\ t = u /\ slots[d] = slots[e] /\ ~(begun[d] > begun[e])
      BY <3>1, <3>2
    <3> QED
      BY <1>1, <1>5, <1>9, <3>3 DEF PaceInv
  <2>1. begun[d] = begun[e]
    BY <1>7 DEF Between
  <2> QED
    BY <1>1, <2>1 DEF SInv, PaceInv
<1>12. SlotsInv'
  <2>1. \A m \in Node : gained'[m] \in Nat /\ gained[m] \in Nat /\ gained[m] <= gained'[m]
    <3>1. PICK faster \in SUBSET Node :
          gained' = [n \in Node |-> IF n \in faster /\ gained[n] < MaxDrift
                                    THEN gained[n] + 1 ELSE gained[n]]
      BY DEF Advance
    <3>2. gained \in [Node -> 0..MaxDrift] /\ MaxDrift \in Nat
      BY <1>1, Constants DEF RunOK
    <3>3. \A m \in Node : gained[m] \in Nat
      BY <3>2
    <3> QED
      BY <3>1, <3>3
  <2> SUFFICES ASSUME NEW m \in Node, NEW d \in Optical(m)
               PROVE  /\ IsFiniteSet(slots[d]) /\ Cardinality(slots[d]) = ScheduleSize
                      /\ \A t \in Nat : BeginsAt(d, t) =>
                           \A x \in slots[d] : x + Period <= t + gained'[m] + Reach
    BY <1>1, <1>5, <1>9 DEF SlotsInv
  <2>2. /\ IsFiniteSet(slots[d]) /\ Cardinality(slots[d]) = ScheduleSize
        /\ \A t \in Nat : BeginsAt(d, t) =>
             \A x \in slots[d] : x + Period <= t + gained[m] + Reach
    BY <1>1 DEF SInv, SlotsInv
  <2>3. ASSUME NEW t \in Nat, BeginsAt(d, t), NEW x \in slots[d]
        PROVE  x + Period <= t + gained'[m] + Reach
    <3>1. x \in Nat
      BY <1>1 DEF RunOK, Optical
    <3> QED
      BY <2>1, <2>2, <2>3, <3>1, SpanIs
  <2> QED
    BY <2>2, <2>3
<1>13. TurnInv'
  <2>1. \A m : Between(m)' <=> Between(m)
    BY <1>1, <1>5 DEF Between
  <2>2. \A m : Halfway(m)' <=> Halfway(m)
    BY <1>1, <1>5 DEF Halfway
  <2>3. \A m : HeadIs("CompleteReconfigure", m)' <=> HeadIs("CompleteReconfigure", m)
    BY <1>1, <1>5 DEF HeadIs
  <2> QED
    BY <1>1, <1>7, <2>1, <2>2, <2>3 DEF SInv, TurnInv
<1>14. LastInv'
  <2>1. \A m : Between(m)' <=> Between(m)
    BY <1>1, <1>5 DEF Between
  <2> QED
    BY <1>1, <1>7, <2>1 DEF LastInv
<1>15. WaitingInv' /\ ~failed'
  BY <1>1 DEF SInv, WaitingInv
<1> QED
  BY <1>8, <1>10, <1>11, <1>12, <1>13, <1>14, <1>15 DEF SInv

LEMMA CompleteInStep ==
  ASSUME IInv, SInv, CompleteReconfigure
  PROVE  SInv'
<1>1. PICK d : d = Head(queue).dev
  OBVIOUS
<1>2. PICK n : n = NodeOf(d)
  OBVIOUS
<1>3. /\ initialized = Node /\ queue # <<>> /\ RunOK /\ SetupOK
      /\ Head(queue).fn = "CompleteReconfigure" /\ Head(queue).at = now
      /\ failed' = (d \notin reconfiguring) /\ reconfiguring' = reconfiguring \ {d}
      /\ queue' = Tail(queue)
      /\ UNCHANGED <<setup, routes, slots, begun, now, gained, initialized>>
  BY <1>1 DEF CompleteReconfigure, Due, IInv
<1>4. Head(queue) = queue[1] /\ 1 \in DOMAIN queue /\ queue \in Seq(Event)
  BY <1>3, QueueTail DEF RunOK
<1>5. /\ d \in Device /\ n \in Node /\ d \in Optical(n)
      /\ \A m \in Node : d \in Optical(m) => m = n
  BY <1>1, <1>2, <1>3, <1>4, OwnerIs
<1>6. CompletesAt(d, now) /\ now \in Nat
  BY <1>1, <1>3, <1>4, EventPending DEF CompletesAt, RunOK
<1>7. d \in reconfiguring
  BY <1>3, <1>5, <1>6 DEF SInv, AgendaInv
<1>8. /\ \A m \in Node : ~Between(m)
      /\ \A m \in Node : m # n => ~Halfway(m)
  BY <1>1, <1>3, <1>5 DEF SInv, TurnInv, HeadIs
<1>9. \A m : Optical(m)' = Optical(m) /\ NodeOf(m)' = NodeOf(m)
  BY <1>3, SameSetup
<1>10. PICK left \in Seq(Event) : left = Tail(queue)
  BY <1>3, QueueTail
<1>11. PICK own : own = Owner
  OBVIOUS
<1>12. Contiguous(left, own) /\ Single(left)
  BY <1>3, <1>10, <1>11, TailOrder DEF SInv, OrderInv
<1>13. \A i \in DOMAIN left : i + 1 \in DOMAIN queue /\ left[i] = queue[i + 1]
  BY <1>3, <1>10, Behind
<1>14. OrderInv'
  <2>1. Owner' = own
    BY <1>9, <1>11 DEF Owner
  <2>2. Contiguous(queue, Owner)' <=> Contiguous(left, own)
    BY <1>3, <1>10, <2>1 DEF Contiguous, Alike
  <2>3. Single(queue)' <=> Single(left)
    BY <1>3, <1>10 DEF Single
  <2>4. \A i \in DOMAIN left : now <= left[i].at
    BY <1>13 DEF SInv, OrderInv
  <2> QED
    BY <1>3, <1>10, <1>12, <2>2, <2>3, <2>4 DEF OrderInv
<1>15. /\ \A e, t : BeginsAt(e, t)' <=> BeginsAt(e, t)
       /\ \A e, t : CompletesAt(e, t)' <=> CompletesAt(e, t) /\ e # d
  <2>1. /\ \A e, t : BeginsAt(e, t)' <=> Pending(left, "BeginReconfigure", e, t)
        /\ \A e, t : CompletesAt(e, t)' <=> Pending(left, "CompleteReconfigure", e, t)
    BY <1>3, <1>10 DEF BeginsAt, CompletesAt, Pending
  <2>2. \A f, e, t : f # "Other" =>
          (Pending(left, f, e, t) <=> Pending(queue, f, e, t) /\ ~(f = "CompleteReconfigure" /\ e = d))
    BY <1>1, <1>3, <1>10, TailPending DEF SInv, OrderInv
  <2> QED
    BY <2>1, <2>2 DEF BeginsAt, CompletesAt
<1>16. AgendaInv'
  <2> SUFFICES ASSUME NEW m \in Node, NEW e \in Optical(m)
               PROVE  /\ \E t \in Nat : BeginsAt(e, t)'
                      /\ e \in reconfiguring' <=> \E t \in Nat : CompletesAt(e, t)'
                      /\ \A t, u \in Nat : CompletesAt(e, t)' /\ BeginsAt(e, u)' => u = t + SlotDuration
    BY <1>3, <1>9 DEF AgendaInv
  <2>1. /\ \E t \in Nat : BeginsAt(e, t)
        /\ e \in reconfiguring <=> \E t \in Nat : CompletesAt(e, t)
        /\ \A t, u \in Nat : CompletesAt(e, t) /\ BeginsAt(e, u) => u = t + SlotDuration
    BY <1>3 DEF SInv, AgendaInv
  <2> QED
    BY <1>3, <1>15, <2>1
<1>17. \A m \in Node : \A e, x \in Optical(m) : begun[e] = begun[x] /\ ~(begun[e] > begun[x])
  <2>1. \A m \in Node : \A e, x \in Optical(m) : begun[e] \in Nat /\ begun[e] = begun[x]
    BY <1>3, <1>8 DEF RunOK, Optical, Between
  <2> QED
    BY <2>1
<1>18. \A m \in Node : \A e, x \in Optical(m) : \A t, u \in Nat :
         BeginsAt(e, t) /\ BeginsAt(x, u) => t = u /\ slots[e] = slots[x]
  BY <1>3, <1>17 DEF SInv, PaceInv
<1>19. PaceInv'
  BY <1>3, <1>9, <1>15, <1>17, <1>18 DEF PaceInv
<1>20. SlotsInv'
  BY <1>3, <1>9, <1>15 DEF SInv, SlotsInv
<1>21. \A m \in Node : ~Between(m)'
  BY <1>3, <1>8, <1>9 DEF Between
<1>22. \A m \in Node : m # n => ~Halfway(m)'
  <2> SUFFICES ASSUME NEW m \in Node, m # n, NEW e \in Optical(m), NEW x \in Optical(m),
                      e \in reconfiguring', x \notin reconfiguring'
               PROVE  FALSE
    BY <1>9 DEF Halfway
  <2>1. x # d /\ e \in reconfiguring /\ x \notin reconfiguring
    BY <1>3, <1>5
  <2> QED
    BY <1>8, <2>1 DEF Halfway
<1>23. Halfway(n)' => HeadIs("CompleteReconfigure", n)'
  <2> SUFFICES ASSUME NEW e \in Optical(n), e \in reconfiguring'
               PROVE  HeadIs("CompleteReconfigure", n)'
    BY <1>9 DEF Halfway
  <2>1. e # d /\ e \in reconfiguring
    BY <1>3
  <2>2. PICK t \in Nat : CompletesAt(e, t)
    BY <1>3, <1>5, <2>1 DEF SInv, AgendaInv
  <2>3. PICK u \in Nat : BeginsAt(e, u)
    BY <1>3, <1>5 DEF SInv, AgendaInv
  <2>4. PICK v \in Nat : BeginsAt(d, v)
    BY <1>3, <1>5 DEF SInv, AgendaInv
  <2>5. u = t + SlotDuration /\ v = now + SlotDuration /\ u = v
    <3>1. u = t + SlotDuration
      BY <1>3, <1>5, <2>2, <2>3 DEF SInv, AgendaInv
    <3>2. v = now + SlotDuration
      BY <1>3, <1>5, <1>6, <2>4 DEF SInv, AgendaInv
    <3> QED
      BY <1>5, <1>18, <2>3, <2>4, <3>1, <3>2
  <2>6. CompletesAt(e, now)
    <3>1. t = now
      BY <1>6, <2>5, Constants
    <3> QED
      BY <2>2, <3>1
  <2>7. 2 \in DOMAIN queue /\ queue[2].fn = "CompleteReconfigure" /\ queue[2].dev \in Optical(n)
    BY <1>1, <1>3, <1>5, <2>1, <2>6, NextAlike DEF SInv, CompletesAt
  <2>8. 1 \in DOMAIN left /\ left[1] = queue[2]
    <3>1. DOMAIN left = 1..(Len(queue) - 1) /\ Len(queue) \in Nat /\ DOMAIN queue = 1..Len(queue)
      BY <1>3, <1>10, QueueTail
    <3>2. 1 \in DOMAIN left /\ 1 + 1 = 2
      BY <2>7, <3>1
    <3> QED
      BY <1>13, <3>2
  <2>9. left # <<>> /\ Head(left) = left[1]
    BY <2>8
  <2> QED
    BY <1>3, <1>9, <1>10, <2>7, <2>8, <2>9 DEF HeadIs
<1>24. TurnInv' /\ LastInv'
  <2>1. TurnInv'
    BY <1>3, <1>21, <1>22, <1>23 DEF TurnInv
  <2>2. LastInv'
    BY <1>3, <1>21 DEF LastInv
  <2> QED
    BY <2>1, <2>2
<1>25. WaitingInv' /\ ~failed'
  BY <1>3, <1>7 DEF WaitingInv
<1> QED
  BY <1>14, <1>16, <1>19, <1>20, <1>24, <1>25 DEF SInv

\* The node a call of Initialize wakes: its devices have no events yet.
LEMMA InitializeFacts ==
  ASSUME IInv, SInv, NEW n \in Node, Initialize(n)
  PROVE  /\ RunOK /\ SetupOK /\ n \notin initialized /\ initialized # Node
         /\ initialized' = initialized \cup {n} /\ now = 0
         /\ UNCHANGED <<setup, now, gained>>
         /\ \A d \in Optical(n) : /\ begun[d] = 0 /\ d \notin reconfiguring /\ slots[d] = {}
                                  /\ d \in Installed /\ d \in Device /\ NodeOf(d) = n
                                  /\ \A t : ~BeginsAt(d, t) /\ ~CompletesAt(d, t)
         /\ \A i \in DOMAIN queue : queue[i].fn # "Other" => queue[i].dev \notin Optical(n)
<1>1. /\ RunOK /\ SetupOK /\ n \notin initialized /\ initialized' = initialized \cup {n}
      /\ UNCHANGED <<setup, now, gained>>
  BY InitializeBegins DEF IInv
<1>2. now = 0 /\ initialized # Node
  BY <1>1 DEF SInv, WaitingInv
<1>3. \A d \in Optical(n) : d \in Installed /\ d \in Device /\ NodeOf(d) = n
  BY <1>1, OpticalIs, InstalledIs
<1>4. \A d \in Optical(n) : begun[d] = 0 /\ d \notin reconfiguring /\ slots[d] = {}
  BY <1>1, <1>3 DEF IInv, Asleep
<1>5. \A i \in DOMAIN queue : queue[i].fn # "Other" => queue[i].dev \notin Optical(n)
  BY <1>1, <1>3 DEF IInv, Asleep
<1>6. \A d \in Optical(n) : \A t : ~BeginsAt(d, t) /\ ~CompletesAt(d, t)
  BY <1>5, OnFields DEF BeginsAt, CompletesAt, Pending
<1> QED
  BY <1>1, <1>2, <1>3, <1>4, <1>5, <1>6

LEMMA InitializeInStep ==
  ASSUME IInv, SInv, NEW n \in Node, Initialize(n)
  PROVE  SInv'
<1>1. /\ RunOK /\ SetupOK /\ n \notin initialized /\ initialized # Node
      /\ initialized' = initialized \cup {n} /\ now = 0
      /\ UNCHANGED <<setup, now, gained>>
      /\ \A d \in Optical(n) : /\ begun[d] = 0 /\ d \notin reconfiguring /\ slots[d] = {}
                               /\ d \in Installed /\ d \in Device /\ NodeOf(d) = n
                               /\ \A t : ~BeginsAt(d, t) /\ ~CompletesAt(d, t)
      /\ \A i \in DOMAIN queue : queue[i].fn # "Other" => queue[i].dev \notin Optical(n)
  BY InitializeFacts
<1>2. PICK ds \in Seq(Device) : ds = Reached(n) /\ Differ(ds) /\ ToSet(ds) = Optical(n)
  BY <1>1, ReachedIs
<1>3. PICK left \in Seq(Event) : left = queue /\ Sorted(left)
  BY <1>1 DEF RunOK
<1>4. BeginReconfigure(ds, left)
  BY <1>2, <1>3, InitializeBegins
<1>5. now \in Nat /\ begun \in [Device -> Nat] /\ initialized \subseteq Node /\ initialized' \subseteq Node
  BY <1>1 DEF RunOK
<1>6. /\ failed' = (ToSet(ds) \cap reconfiguring # {})
      /\ reconfiguring' = reconfiguring \cup Optical(n)
      /\ \A d \in Device : begun'[d] = begun[d] + IF d \in Optical(n) THEN 1 ELSE 0
      /\ slots' = [d \in Device |-> IF d \in Optical(n) THEN NextSlots(d) ELSE slots[d]]
  BY <1>2, <1>3, <1>4, <1>5, BeginEffect
<1>7. PICK own : own = Owner
  OBVIOUS
<1>8. Contiguous(left, own) /\ Single(left) /\ DueLater(left)
  BY <1>3, <1>7 DEF SInv, OrderInv, DueLater
<1>9. Belong(ds, own, n)
  <2>1. \A d \in Optical(n) : own[d] = n
    BY <1>1, <1>7 DEF Owner
  <2> QED
    BY <1>2, <2>1 DEF Belong, ToSet
<1>10. NoneOf(left, ds)
  BY <1>1, <1>2, <1>3 DEF NoneOf
<1>11. Room(left, own, n)
  <2>1. \A i \in DOMAIN left : left[i].fn # "Other" => own[left[i].dev] # n
    BY <1>1, <1>3, <1>7, OwnerIs
  <2> QED
    BY <2>1 DEF Room, Clear
<1>12. /\ Contiguous(queue', own) /\ Single(queue') /\ \A i \in DOMAIN queue' : now <= queue'[i].at
       /\ \A f, d, t : Pending(queue', f, d, t) <=>
            \/ Pending(left, f, d, t)
            \/ d \in ToSet(ds) /\ f = "CompleteReconfigure" /\ t = now + ReconfigureTime
            \/ d \in ToSet(ds) /\ f = "BeginReconfigure" /\ t = now + Period
  BY <1>1, <1>2, <1>3, <1>4, <1>8, <1>9, <1>10, <1>11, BeginQueue
<1>13. \A m : Optical(m)' = Optical(m) /\ NodeOf(m)' = NodeOf(m)
  BY <1>1, SameSetup
<1>14. OrderInv'
  <2>1. Owner' = own
    BY <1>7, <1>13 DEF Owner
  <2>2. PICK q : q = queue'
    OBVIOUS
  <2>3. Contiguous(q, own) /\ Single(q) /\ \A i \in DOMAIN q : now <= q[i].at
    BY <1>12, <2>2
  <2>4. Contiguous(queue, Owner)' <=> Contiguous(q, own)
    BY <2>1, <2>2 DEF Contiguous, Alike
  <2>5. Single(queue)' <=> Single(q)
    BY <2>2 DEF Single
  <2> QED
    BY <1>1, <2>2, <2>3, <2>4, <2>5 DEF OrderInv
<1>15. /\ \A d, t : BeginsAt(d, t)' <=> BeginsAt(d, t) \/ (d \in Optical(n) /\ t = now + Period)
       /\ \A d, t : CompletesAt(d, t)' <=> CompletesAt(d, t) \/ (d \in Optical(n) /\ t = now + ReconfigureTime)
  <2>1. /\ \A d, t : BeginsAt(d, t)' <=> Pending(queue', "BeginReconfigure", d, t)
        /\ \A d, t : CompletesAt(d, t)' <=> Pending(queue', "CompleteReconfigure", d, t)
    BY DEF BeginsAt, CompletesAt, Pending
  <2> QED
    BY <1>2, <1>3, <1>12, <2>1 DEF BeginsAt, CompletesAt
<1>16. ASSUME NEW m \in initialized, NEW d \in Optical(m)
       PROVE  d \in Device /\ d \notin Optical(n) /\ m # n
  BY <1>1, <1>5, <1>16, OpticalIs DEF Optical
<1>17. now + Period \in Nat /\ now + ReconfigureTime \in Nat
       /\ now + Period = now + ReconfigureTime + SlotDuration
  BY <1>5, SpanIs
<1>18. AgendaInv'
  <2>1. ASSUME NEW m \in initialized, NEW d \in Optical(m)
        PROVE  /\ \E t \in Nat : BeginsAt(d, t)'
               /\ d \in reconfiguring' <=> \E t \in Nat : CompletesAt(d, t)'
               /\ \A t, u \in Nat : CompletesAt(d, t)' /\ BeginsAt(d, u)' => u = t + SlotDuration
    <3>1. d \notin Optical(n)
      BY <1>16
    <3>2. /\ \E t \in Nat : BeginsAt(d, t)
          /\ d \in reconfiguring <=> \E t \in Nat : CompletesAt(d, t)
          /\ \A t, u \in Nat : CompletesAt(d, t) /\ BeginsAt(d, u) => u = t + SlotDuration
      BY DEF SInv, AgendaInv
    <3> QED
      BY <1>6, <1>15, <3>1, <3>2
  <2>2. ASSUME NEW d \in Optical(n)
        PROVE  /\ \E t \in Nat : BeginsAt(d, t)'
               /\ d \in reconfiguring' <=> \E t \in Nat : CompletesAt(d, t)'
               /\ \A t, u \in Nat : CompletesAt(d, t)' /\ BeginsAt(d, u)' => u = t + SlotDuration
    BY <1>1, <1>6, <1>15, <1>17
  <2> QED
    BY <1>1, <1>13, <2>1, <2>2 DEF AgendaInv
<1>19. ASSUME NEW m \in initialized', NEW d \in Optical(m)
       PROVE  begun'[d] = 1 /\ d \in reconfiguring'
  <2>1. CASE m = n
    BY <1>1, <1>6, <2>1
  <2>2. CASE m # n
    <3>1. m \in initialized /\ d \in Device /\ d \notin Optical(n)
      BY <1>1, <1>16, <1>19, <2>2
    <3>2. begun[d] = 1 /\ d \in reconfiguring
      BY <1>1, <3>1 DEF SInv, WaitingInv
    <3> QED
      BY <1>6, <3>1, <3>2
  <2> QED
    BY <2>1, <2>2
<1>20. WaitingInv'
  BY <1>1, <1>13, <1>19 DEF WaitingInv
<1>21. \A m \in initialized' : ~Between(m)' /\ ~Halfway(m)'
  BY <1>13, <1>19 DEF Between, Halfway
<1>22. TurnInv' /\ LastInv'
  BY <1>21 DEF TurnInv, LastInv
<1>23. PaceInv'
  <2> SUFFICES ASSUME NEW m \in initialized', NEW d \in Optical(m), NEW e \in Optical(m),
                      NEW t \in Nat, NEW u \in Nat, BeginsAt(d, t)', BeginsAt(e, u)'
               PROVE  t = u /\ slots'[d] = slots'[e]
    <3>1. \A m \in initialized' : \A d, e \in Optical(m) : begun'[d] = begun'[e] /\ ~(begun'[d] > begun'[e])
      BY <1>19
    <3>2. \A m \in initialized' : \A d, e \in Optical(m)' : \A t, u \in Nat :
             BeginsAt(d, t)' /\ BeginsAt(e, u)' =>
               t = u /\ slots'[d] = slots'[e] /\ ~(begun'[d] > begun'[e])
      BY <1>13, <3>1
    <3> QED
      BY <3>2 DEF PaceInv
  <2>1. CASE m = n
    <3>1. t = now + Period /\ u = now + Period
      BY <1>1, <1>15, <2>1
    <3>2. slots'[d] = NextSlots(d) /\ slots'[e] = NextSlots(e)
      BY <1>1, <1>6, <2>1
    <3>3. NodeOf(d) = NodeOf(e) /\ slots[d] = slots[e]
      BY <1>1, <2>1
    <3>4. NextSlots(d) = NextSlots(e)
      BY <3>3 DEF NextSlots
    <3> QED
      BY <3>1, <3>2, <3>4
  <2>2. CASE m # n
    <3>1. m \in initialized
      BY <1>1, <2>2
    <3>2. d \in Device /\ e \in Device /\ d \notin Optical(n) /\ e \notin Optical(n)
      BY <1>16, <3>1
    <3>3. BeginsAt(d, t) /\ BeginsAt(e, u) /\ begun[d] = begun[e]
      BY <1>1, <1>15, <3>1, <3>2 DEF SInv, WaitingInv
    <3>4. t = u /\ slots[d] = slots[e]
      BY <3>1, <3>3 DEF SInv, PaceInv
    <3> QED
      BY <1>6, <3>2, <3>4
  <2> QED
    BY <2>1, <2>2
<1>24. SlotsInv'
  <2> SUFFICES ASSUME NEW m \in initialized', NEW d \in Optical(m)
               PROVE  /\ IsFiniteSet(slots'[d]) /\ Cardinality(slots'[d]) = ScheduleSize
                      /\ \A t \in Nat : BeginsAt(d, t)' =>
                           \A x \in slots'[d] : x + Period <= t + gained'[m] + Reach
    BY <1>13 DEF SlotsInv
  <2>1. CASE m = n
    <3>1. d \in Installed /\ d \in Device /\ NodeOf(d) = n /\ slots[d] = {} /\ slots'[d] = NextSlots(d)
          /\ gained' = gained /\ \A t : ~BeginsAt(d, t)
      BY <1>1, <1>6, <2>1
    <3>2. gained[n] \in Nat
      BY <1>1, Constants DEF RunOK
    <3>3. PICK z \in Nat : z = now + gained[n] + Reach
      BY <1>5, <3>2, SpanIs
    <3>4. /\ IsFiniteSet(NextSlots(d)) /\ Cardinality(NextSlots(d)) = ScheduleSize
          /\ \A x \in NextSlots(d) : x \in Nat /\ x <= z
      BY <3>1, <3>3, NextSlotsIs
    <3>5. ASSUME NEW t \in Nat, BeginsAt(d, t)', NEW x \in slots'[d]
          PROVE  x + Period <= t + gained'[m] + Reach
      <4>1. t = now + Period
        BY <1>15, <3>1, <3>5
      <4>2. x \in Nat /\ x <= z
        BY <3>1, <3>4
      <4> QED
        BY <1>5, <2>1, <3>1, <3>2, <3>3, <4>1, <4>2, SpanIs
    <3> QED
      BY <3>1, <3>4, <3>5
  <2>2. CASE m # n
    <3>1. m \in initialized
      BY <1>1, <2>2
    <3>2. d \in Device /\ d \notin Optical(n)
      BY <1>16, <3>1
    <3>3. slots'[d] = slots[d] /\ gained' = gained
      BY <1>1, <1>6, <3>2
    <3> QED
      BY <1>15, <3>1, <3>2, <3>3 DEF SInv, SlotsInv
  <2> QED
    BY <2>1, <2>2
<1>25. ~failed'
  BY <1>1, <1>2, <1>6
<1> QED
  BY <1>14, <1>18, <1>20, <1>22, <1>23, <1>24, <1>25 DEF SInv

-----------------------------------------------------------------------------
\* While the script builds, there are only events of something else.
LEMMA BuildInStep ==
  ASSUME IInv, SInv, initialized = {},
         UNCHANGED <<routes, slots, reconfiguring, begun, failed, now, queue, gained, initialized>>
  PROVE  SInv'
<1>1. \A i \in DOMAIN queue : queue[i].fn = "Other"
  BY BuildingAsleep
<1>2. OrderInv'
  <2>1. Contiguous(queue, Owner)'
    BY <1>1 DEF Contiguous
  <2> QED
    BY <2>1 DEF SInv, OrderInv, Single
<1>3. now' = 0 \/ Node = {}
  BY DEF SInv, WaitingInv
<1>4. AgendaInv' /\ PaceInv' /\ SlotsInv' /\ TurnInv' /\ LastInv'
  BY DEF AgendaInv, PaceInv, SlotsInv, TurnInv, LastInv
<1> QED
  BY <1>2, <1>3, <1>4 DEF SInv, WaitingInv

LEMMA StutterInStep ==
  ASSUME IInv, SInv, UNCHANGED vars
  PROVE  SInv'
<1>1. UNCHANGED <<setup, routes, slots, reconfiguring, begun, failed, now, queue, gained, initialized>>
  BY DEF vars
<1>2. \A m : Optical(m)' = Optical(m) /\ NodeOf(m)' = NodeOf(m)
  BY <1>1, SameSetup DEF IInv
<1>3. OrderInv'
  <2>1. Owner' = Owner
    BY <1>2 DEF Owner
  <2> QED
    BY <1>1, <2>1 DEF SInv, OrderInv, Contiguous, Single, Alike
<1>4. /\ \A e, t : BeginsAt(e, t)' <=> BeginsAt(e, t)
      /\ \A e, t : CompletesAt(e, t)' <=> CompletesAt(e, t)
  BY <1>1 DEF BeginsAt, CompletesAt, Pending
<1>5. AgendaInv' /\ PaceInv' /\ SlotsInv' /\ WaitingInv'
  BY <1>1, <1>4, AgendaKept
<1>6. /\ \A m : Between(m)' <=> Between(m)
      /\ \A m : Halfway(m)' <=> Halfway(m)
      /\ \A f, m : HeadIs(f, m)' <=> HeadIs(f, m)
  BY <1>1, <1>2 DEF Between, Halfway, HeadIs
<1>7. TurnInv'
  BY <1>1, <1>6 DEF SInv, TurnInv
<1>8. LastInv'
  <2>1. Owner' = Owner
    BY <1>2 DEF Owner
  <2> QED
    BY <1>1, <1>2, <1>6, <2>1 DEF SInv, LastInv, Alike
<1> QED
  BY <1>1, <1>3, <1>5, <1>7, <1>8 DEF SInv

LEMMA InStepStarts == Init => SInv
<1> SUFFICES ASSUME Init PROVE SInv
  OBVIOUS
<1>1. initialized = {} /\ queue = <<>> /\ now = 0 /\ ~failed
  BY DEF Init
<1>2. OrderInv
  BY <1>1 DEF OrderInv, Contiguous, Single
<1>3. AgendaInv /\ PaceInv /\ SlotsInv /\ TurnInv /\ LastInv /\ WaitingInv
  BY <1>1 DEF AgendaInv, PaceInv, SlotsInv, TurnInv, LastInv, WaitingInv
<1> QED
  BY <1>1, <1>2, <1>3 DEF SInv

LEMMA InStepKeeps == IInv /\ SInv /\ [Next]_vars => SInv'
<1> SUFFICES ASSUME IInv, SInv, [Next]_vars PROVE SInv'
  OBVIOUS
<1>1. ASSUME NEW link \in Links, Install(link) PROVE SInv'
  BY <1>1, BuildInStep DEF Install, Building
<1>2. ASSUME NEW n \in Node, InstallStack(n) PROVE SInv'
  BY <1>2, BuildInStep DEF InstallStack, Building
<1>3. CASE SetEndpoints
  BY <1>3, BuildInStep DEF SetEndpoints, Building
<1>4. ASSUME NEW n \in Node, Initialize(n) PROVE SInv'
  BY <1>4, InitializeInStep
<1>5. ASSUME NEW at \in 0..MaxDelay, ScheduleOther(at) PROVE SInv'
  BY <1>5, ScheduleOtherInStep
<1>6. CASE Advance
  BY <1>6, AdvanceInStep
<1>7. CASE BeginDue
  BY <1>7, BeginDueInStep
<1>8. CASE CompleteReconfigure
  BY <1>8, CompleteInStep
<1>9. CASE OtherRuns
  BY <1>9, OtherRunsInStep
<1>10. CASE UNCHANGED vars
  BY <1>10, StutterInStep
<1> QED
  BY <1>1, <1>2, <1>3, <1>4, <1>5, <1>6, <1>7, <1>8, <1>9, <1>10 DEF Next

\* Devices of a node that began as often have the same slots; and one of them is ahead, or
\* reconfigures while another does not, only while the node's next event comes next.
LEMMA InStepFollows == IInv /\ SInv => InStep
<1> SUFFICES ASSUME IInv, SInv PROVE InStep
  OBVIOUS
<1>1. ASSUME NEW n \in initialized, NEW d \in Optical(n), NEW e \in Optical(n)
      PROVE  /\ Cardinality(slots[d]) = ScheduleSize
             /\ begun[d] = begun[e] => slots[d] = slots[e]
             /\ \/ begun[d] = begun[e] /\ (d \in reconfiguring <=> e \in reconfiguring)
                \/ queue # <<>> /\ Head(queue).fn # "Other" /\ Head(queue).dev \in Optical(n)
  <2>1. Cardinality(slots[d]) = ScheduleSize
    BY DEF SInv, SlotsInv
  <2>2. begun[d] = begun[e] => slots[d] = slots[e]
    <3>1. PICK t \in Nat : BeginsAt(d, t)
      BY DEF SInv, AgendaInv
    <3>2. PICK u \in Nat : BeginsAt(e, u)
      BY DEF SInv, AgendaInv
    <3> QED
      BY <3>1, <3>2 DEF SInv, PaceInv
  <2>3. CASE Between(n) \/ Halfway(n)
    BY <2>1, <2>2, <2>3 DEF SInv, TurnInv, HeadIs
  <2>4. CASE ~(Between(n) \/ Halfway(n))
    BY <2>1, <2>2, <2>4 DEF Between, Halfway
  <2> QED
    BY <2>3, <2>4
<1>2. ~failed
  BY DEF SInv
<1> QED
  BY <1>1, <1>2 DEF InStep

\* BeginReconfigure and CompleteReconfigure keep the devices of a node in step, on any
\* network, with any other events, and on clocks that drift.
THEOREM InStepHolds == Spec => []InStep
<1>1. Spec => []SInv
  BY InStepStarts, InStepKeeps, Invariance, PTL DEF Spec
<1> QED
  BY <1>1, InStepFollows, Invariance, PTL
=============================================================================
