---------------------------- MODULE RingDelayerProofs ----------------------------
(***************************************************************************)
(* Proofs about RingDelayer, for any number of writers and packets and a   *)
(* ring of any size that has a slot for each writer.                       *)
(*                                                                         *)
(* The argument: the slots in use are those from head to tail, wherever    *)
(* they wrap around (Region), and hold what is accepted and not yet in     *)
(* hand or delivered (Order); a notification, in the channel, about to be  *)
(* put there or taken by the consumer, stands for a slot in use of its own *)
(* (Counted).                                                              *)
(***************************************************************************)
EXTENDS RingDelayer, FiniteSetTheorems, TLAPS

(* The slots in use, their number, and how far each is from head.          *)
Within(i) == IF head < tail THEN head <= i /\ i < tail ELSE head <= i \/ i < tail
Held == IF ring[head] = Empty THEN 0
        ELSE IF head < tail THEN tail - head ELSE Size - head + tail
Slot(i) == IF head <= i THEN i - head ELSE Size - head + i

Region ==
  /\ ring[head] = Empty => head = tail /\ \A i \in Slots : ring[i] = Empty
  /\ ring[head] # Empty => \A i \in Slots : ring[i] # Empty <=> Within(i)

(* Writers that have put their packet and are yet to notify, and the       *)
(* notification in the hands of the consumer.                              *)
Owing == {w \in Writers : wpc[w] \in {"recheck", "notify"}}
Hand  == IF kpc \in {"look", "sleep"} THEN 1 ELSE 0
Counted == tokens + Cardinality(Owing) + Hand <= Held

(* The times of the packets, wherever they are.                            *)
Timed ==
  /\ \A i \in Slots : ring[i] # Empty => ring[i] <= written /\ sendTime[i] = due[ring[i]]
  /\ \A w \in Writers : /\ packet[w] <= written
                        /\ wpc[w] \in {"put", "waiting"} => packet[w] # Empty
  /\ buffer <= written
  /\ kpc = "sleep" => buffer = ring[head] /\ wake = sendTime[head]
  /\ kpc = "write" => buffer # Empty /\ due[buffer] <= clock

(* The channel is closed, and the upstream broken, for a reason.           *)
Service ==
  /\ closed => termination # "nil"
  /\ cpc # "open" => termination # "nil"
  /\ broken /\ termination = "nil" => kpc = "fail"
  /\ kpc = "fail" => broken
  /\ crashed => termination # "nil"

(* What is owed, as long as the upstream takes packets.                    *)
InHand == IF kpc = "write" THEN 1 ELSE 0
Order ==
  /\ Len(delivered) <= Len(accepted)
  /\ delivered = SubSeq(accepted, 1, Len(delivered))
  /\ ~broken =>
       /\ Len(accepted) = Len(delivered) + InHand + Held
       /\ kpc = "write" => accepted[Len(delivered) + 1] = buffer
       /\ \A i \in Slots : ring[i] # Empty =>
            accepted[Len(delivered) + InHand + 1 + Slot(i)] = ring[i]

(* How much can be owed: one packet of each writer when the delayer fails. *)
Putting == {w \in Writers : wpc[w] \in {"put", "waiting"}}
Bound ==
  /\ termination = "nil" => Len(accepted) <= Len(delivered) + 1 + Held
  /\ termination # "nil" =>
       Len(accepted) + Cardinality(Putting)
         <= Len(delivered) + Size + 1 + Cardinality(Writers)

IInv == TypeOK /\ Region /\ Counted /\ Timed /\ Service /\ Order /\ Bound

-----------------------------------------------------------------------------
(* There is a slot.                                                        *)
LEMMA Positive == Size \in Nat \ {0} /\ Cardinality(Writers) \in Nat
  BY RingAssumption, FS_CardinalityType, FS_EmptySet

(* The slot after another.                                                 *)
LEMMA AfterIs ==
  ASSUME NEW i \in Slots
  PROVE  After(i) = (IF i = Size - 1 THEN 0 ELSE i + 1) /\ After(i) \in Slots
  BY Positive DEF After, Slots

(* The number of slots in use.                                             *)
LEMMA HeldIs ==
  ASSUME TypeOK
  PROVE  /\ Held \in 0..Size
         /\ Held > 0 <=> ring[head] # Empty
  BY Positive DEF TypeOK, Held, Slots

(* A sequence with one item more.                                          *)
LEMMA Appended ==
  ASSUME NEW S, NEW s \in Seq(S), NEW e \in S
  PROVE  /\ Append(s, e) \in Seq(S) /\ Len(Append(s, e)) = Len(s) + 1
         /\ Append(s, e)[Len(s) + 1] = e
         /\ \A i \in 1..Len(s) : Append(s, e)[i] = s[i]
         /\ \A n \in 0..Len(s) : SubSeq(Append(s, e), 1, n) = SubSeq(s, 1, n)
         /\ \A n \in 0..(Len(s) - 1) :
              SubSeq(s, 1, n + 1) = Append(SubSeq(s, 1, n), s[n + 1])
OBVIOUS

(* A slot in use is less far from head than there are of them.             *)
LEMMA SlotIs ==
  ASSUME TypeOK, Region, NEW i \in Slots, ring[i] # Empty
  PROVE  ring[head] # Empty /\ Slot(i) \in 0..(Held - 1)
<1>1. ring[head] # Empty /\ Within(i) /\ Within(head)
  BY DEF Region, TypeOK
<1> QED BY <1>1, Positive DEF Within, Slot, Held, TypeOK, Slots

(* The writers that owe a notification, and those about to put a packet.   *)
LEMMA Finite ==
  /\ IsFiniteSet(Owing) /\ Cardinality(Owing) \in Nat
  /\ IsFiniteSet(Putting) /\ Cardinality(Putting) \in 0..Cardinality(Writers)
<1>1. Owing \subseteq Writers /\ Putting \subseteq Writers
  BY DEF Owing, Putting
<1> QED BY <1>1, RingAssumption, FS_Subset, FS_CardinalityType

(* A notification, and so a packet, is with the consumer.                  *)
LEMMA Occupies ==
  ASSUME TypeOK, Counted, kpc \in {"look", "sleep"}
  PROVE  ring[head] # Empty /\ Held > 0
<1>1. Held > 0
  BY Finite, HeldIs DEF Counted, Hand, TypeOK
<1> QED BY <1>1, HeldIs

(* A writer that puts its packet takes the first slot beyond those in use. *)
LEMMA Put ==
  ASSUME IInv, NEW w \in Writers, WritePut(w)
  PROVE  /\ Held = Slot(tail) /\ Held < Size /\ Held' = Held + 1
         /\ Region'
<1> USE Positive
<1>1. /\ ring[tail] = Empty /\ ring' = [ring EXCEPT ![tail] = packet[w]] /\ head' = head
      /\ packet[w] # Empty /\ tail' = (IF tail = Size - 1 THEN 0 ELSE tail + 1)
      /\ TypeOK /\ Region /\ ring \in [Slots -> Packets \cup {Empty}]
      /\ head \in Slots /\ tail \in Slots
  BY AfterIs DEF IInv, TypeOK, Timed, WritePut
<1>2. ASSUME head < tail
      PROVE  Held = Slot(tail) /\ Held < Size /\ Held' = Held + 1 /\ Region'
  <2>1. ring[head] # Empty /\ ring'[head] # Empty
    BY <1>1, <1>2 DEF Region, Slots
  <2> QED BY <1>1, <1>2, <2>1 DEF Held, Slot, Region, Within, Slots
<1>3. ASSUME tail < head
      PROVE  Held = Slot(tail) /\ Held < Size /\ Held' = Held + 1 /\ Region'
  <2>1. ring[head] # Empty /\ ring'[head] # Empty
    BY <1>1, <1>3 DEF Region, Slots
  <2> QED BY <1>1, <1>3, <2>1 DEF Held, Slot, Region, Within, Slots
<1>4. ASSUME tail = head
      PROVE  Held = Slot(tail) /\ Held < Size /\ Held' = Held + 1 /\ Region'
  <2>1. ring[head] = Empty /\ ring'[head] # Empty
    BY <1>1, <1>4
  <2> QED BY <1>1, <1>4, <2>1 DEF Held, Slot, Region, Within, Slots
<1> QED BY <1>1, <1>2, <1>3, <1>4 DEF Slots

(* The consumer frees the first slot in use.                               *)
LEMMA Taken ==
  ASSUME IInv, Take, kpc \in {"look", "sleep"}
  PROVE  /\ ring[head] # Empty /\ Held > 0 /\ Held' = Held - 1
         /\ Region'
         /\ \A i \in Slots : ring'[i] # Empty =>
              i # head /\ ring'[i] = ring[i] /\ Slot(i)' = Slot(i) - 1
<1> USE Positive
<1>0. ring[head] # Empty /\ Held > 0
  BY Occupies DEF IInv
<1>1. /\ ring' = [ring EXCEPT ![head] = Empty] /\ tail' = tail
      /\ head' = (IF head = Size - 1 THEN 0 ELSE head + 1)
      /\ TypeOK /\ Region /\ ring \in [Slots -> Packets \cup {Empty}]
      /\ head \in Slots /\ tail \in Slots
  BY AfterIs DEF IInv, TypeOK, Take
<1>2. \A i \in Slots : ring'[i] # Empty => i # head /\ ring'[i] = ring[i]
  BY <1>1
<1>3. \A i \in Slots : i # head => Slot(i)' = Slot(i) - 1
  BY <1>1 DEF Slot, Slots
<1>4. \A i \in Slots : ring'[i] # Empty <=> i # head /\ Within(i)
  BY <1>0, <1>1 DEF Region
<1>5. head' = tail \/ ring'[head'] # Empty
  BY <1>1, <1>4 DEF Within, Slots
<1>6. head' = tail <=> ring'[head'] = Empty
  BY <1>1, <1>4 DEF Within, Slots
<1>7. Region'
  BY <1>1, <1>4, <1>6 DEF Region, Within, Slots
<1>8. Held' = Held - 1
  BY <1>0, <1>1, <1>6 DEF Held, Slots
<1> QED BY <1>0, <1>2, <1>3, <1>7, <1>8

(* The initial state satisfies the invariant.                              *)
LEMMA InitIInv == Init => IInv
<1> SUFFICES ASSUME Init PROVE IInv
  OBVIOUS
<1>1. TypeOK
  <2>1. 0 \in 0..MaxTime /\ 0 \in Slots /\ 0 \in 0..Size /\ 0 \in 0..MaxPackets
    BY Positive, RingAssumption DEF Slots
  <2> QED BY <2>1 DEF Init, TypeOK, Empty
<1>2. Owing = {} /\ Putting = {}
  BY DEF Init, Owing, Putting
<1>3. Region /\ Timed /\ Service
  BY Positive DEF Init, Region, Timed, Service, Slots, Empty
<1>4. Held = 0 /\ Hand = 0 /\ InHand = 0
  BY Positive DEF Init, Held, Hand, InHand, Slots
<1>5. Counted
  BY <1>2, <1>4, FS_EmptySet DEF Init, Counted
<1>6. Order
  BY <1>4, Positive DEF Init, Order, Slots
<1>7. Bound
  BY <1>4, Positive DEF Init, Bound
<1> QED BY <1>1, <1>3, <1>5, <1>6, <1>7 DEF IInv

(* WriteCall keeps the invariant.                                           *)
LEMMA WriteCallStep ==
  ASSUME IInv, NEW w \in Writers, WriteCall(w)
  PROVE  IInv'
<1>1. UNCHANGED <<ring, head, tail, closed, termination, kpc, buffer, cpc, crashed,
     broken, accepted, delivered>>
  BY DEF WriteCall, ringVars, chanVars, consVars, endVars
<1>2. Region'
  BY <1>1 DEF IInv, Region, Within
<1>3. Service'
  BY <1>1 DEF IInv, Service
<1>4. Order'
  BY <1>1 DEF IInv, Order, InHand, Held, Slot
<1>5. TypeOK'
  <2>1. /\ wpc' \in [Writers
          -> {"idle", "put", "waiting", "recheck", "notify", "return", "stopped"}]
        /\ written' \in 0..MaxPackets
    <3>1. written' = written \/ (written < MaxPackets /\ written' = written + 1)
      BY DEF WriteCall
    <3>2. wpc' \in [Writers
            -> {"idle", "put", "waiting", "recheck", "notify", "return", "stopped"}]
      BY DEF IInv, TypeOK, WriteCall
    <3> QED BY <3>1, <3>2, RingAssumption DEF IInv, TypeOK
  <2>2. packet' \in [Writers -> Packets \cup {Empty}] /\ due' \in [Packets -> 0..MaxTime]
    <3>1. written + 1 \in Packets /\ clock + Delay \in 0..MaxTime
      BY RingAssumption DEF IInv, TypeOK, WriteCall, Packets
    <3>2. /\ packet' = packet \/ packet' = [packet EXCEPT ![w] = written + 1]
          /\ due' = due \/ due' = [due EXCEPT ![written + 1] = clock + Delay]
      BY DEF WriteCall
    <3>3. /\ packet \in [Writers -> Packets \cup {Empty}]
          /\ due \in [Packets -> 0..MaxTime]
      BY DEF IInv, TypeOK
    <3> QED BY <3>1, <3>2, <3>3
  <2>3. UNCHANGED <<ring, sendTime, head, tail, tokens, closed, termination, kpc,
       buffer, wake, cpc, crashed, broken, clock, accepted, delivered>>
    BY DEF WriteCall, ringVars, chanVars, consVars, endVars
  <2> QED BY <2>1, <2>2, <2>3 DEF IInv, TypeOK
<1>6. Counted'
  <2>1. wpc[w] = "idle" /\ \E q \in {"put", "stopped"} : wpc' = [wpc EXCEPT ![w] = q]
    BY DEF WriteCall
  <2>2. Owing' = Owing
    BY <2>1 DEF Owing, IInv, TypeOK
  <2>3. Held' = Held /\ Hand' = Hand /\ tokens' = tokens
    BY DEF Held, Hand, WriteCall, ringVars, chanVars, consVars, endVars
  <2> QED BY <2>2, <2>3 DEF IInv, Counted
<1>7. Timed'
  <2>1. CASE termination = "nil"
    <3>1. /\ written' = written + 1 /\ packet' = [packet EXCEPT ![w] = written + 1]
          /\ due' = [due EXCEPT ![written + 1] = clock + Delay]
          /\ wpc' = [wpc EXCEPT ![w] = "put"]
          /\ UNCHANGED <<ring, head, sendTime, buffer, kpc, wake, clock>>
          /\ written \in Nat /\ due \in [Packets -> 0..MaxTime]
          /\ packet \in [Writers -> Packets \cup {Empty}] 
          /\ wpc \in [Writers
                  -> {"idle", "put", "waiting", "recheck", "notify", "return", "stopped"}]
          /\ ring \in [Slots -> Packets \cup {Empty}] /\ buffer \in Packets \cup {Empty}
      BY <2>1 DEF IInv, TypeOK, WriteCall, ringVars, chanVars, consVars, endVars
    <3>2. \A p \in Packets : p <= written => due'[p] = due[p]
      BY <3>1 DEF Packets
    <3>3. \A p \in Packets \cup {Empty} : p <= written => p <= written'
      BY <3>1, RingAssumption DEF Packets, Empty
    <3>4. \A i \in Slots : ring'[i] # Empty => ring'[i] <= written' /\ sendTime'[i] =
         due'[ring'[i]]
      BY <3>1, <3>2, <3>3 DEF IInv, Timed
    <3>5. \A v \in Writers : /\ packet'[v] <= written'
                             /\ wpc'[v] \in {"put", "waiting"} => packet'[v] # Empty
      <4>1. written + 1 # Empty /\ written + 1 <= written'
        BY <3>1 DEF Empty
      <4> QED BY <3>1, <3>3, <4>1 DEF IInv, Timed
    <3>6. kpc' = "write" => buffer' # Empty /\ due'[buffer'] <= clock'
      BY <3>1, <3>2 DEF IInv, Timed
    <3> QED BY <3>1, <3>3, <3>4, <3>5, <3>6 DEF IInv, Timed
  <2>2. CASE termination # "nil"
    <3>1. /\ wpc' = [wpc EXCEPT ![w] = "stopped"]
          /\ UNCHANGED <<ring, head, sendTime, buffer, kpc, wake, clock, due, packet,
               written>>
      BY <2>2 DEF WriteCall, ringVars, chanVars, consVars, endVars
    <3> QED BY <3>1 DEF IInv, TypeOK, Timed
  <2> QED BY <2>1, <2>2
<1>8. Bound'
  BY RingAssumption DEF IInv, WriteCall, TypeOK, Bound, Held, Putting, ringVars,
       chanVars, consVars, endVars
<1> QED BY <1>2, <1>3, <1>4, <1>5, <1>6, <1>7, <1>8 DEF IInv

(* WriteWait keeps the invariant.                                           *)
LEMMA WriteWaitStep ==
  ASSUME IInv, NEW w \in Writers, WriteWait(w)
  PROVE  IInv'
<1>1. UNCHANGED <<ring, head, tail, closed, termination, kpc, buffer, cpc, crashed,
     broken, accepted, delivered>>
  BY DEF WriteWait, ringVars, chanVars, consVars, endVars
<1>2. Region'
  BY <1>1 DEF IInv, Region, Within
<1>3. Service'
  BY <1>1 DEF IInv, Service
<1>4. Order'
  BY <1>1 DEF IInv, Order, InHand, Held, Slot
<1>5. TypeOK'
  BY RingAssumption DEF IInv, WriteWait, TypeOK, Packets, Slots, Empty, ringVars,
       chanVars, consVars, endVars
<1>6. Counted'
  BY RingAssumption DEF IInv, WriteWait, TypeOK, Counted, Owing, Held, Hand, ringVars,
       chanVars, consVars, endVars
<1>7. Timed'
  BY RingAssumption DEF IInv, WriteWait, TypeOK, Timed, Empty, Packets, ringVars,
       chanVars, consVars, endVars
<1>8. Bound'
  BY RingAssumption DEF IInv, WriteWait, TypeOK, Bound, Held, Putting, ringVars,
       chanVars, consVars, endVars
<1> QED BY <1>2, <1>3, <1>4, <1>5, <1>6, <1>7, <1>8 DEF IInv

(* WritePut keeps the invariant.                                            *)
LEMMA WritePutStep ==
  ASSUME IInv, NEW w \in Writers, WritePut(w)
  PROVE  IInv'
<1>0. /\ packet[w] \in Packets /\ due[packet[w]] \in 0..MaxTime /\ wpc[w] = "put"
      /\ ring[tail] = Empty
      /\ ring' = [ring EXCEPT ![tail] = packet[w]]
      /\ accepted' = Append(accepted, packet[w])
      /\ sendTime' = [sendTime EXCEPT ![tail] = due[packet[w]]]
      /\ packet' = [packet EXCEPT ![w] = Empty] /\ wpc' = [wpc EXCEPT ![w] = "recheck"]
      /\ tail \in Slots /\ head \in Slots /\ head' = head /\ kpc' = kpc
      /\ tokens' = tokens
      /\ UNCHANGED <<delivered, broken, buffer, termination>>
  BY DEF IInv, TypeOK, Timed, WritePut, chanVars, consVars, endVars
<1>1. UNCHANGED <<closed, termination, kpc, cpc, crashed, broken>>
  BY DEF WritePut, chanVars, consVars, endVars
<1>2. Service'
  BY <1>1 DEF IInv, Service
<1>3. TypeOK'
  <2>1. ring' \in [Slots -> Packets \cup {Empty}] /\ sendTime' \in [Slots -> 0..MaxTime]
    BY <1>0 DEF IInv, TypeOK
  <2>2. tail' \in Slots
    BY <1>0, AfterIs DEF WritePut
  <2>3. /\ wpc' \in [Writers
          -> {"idle", "put", "waiting", "recheck", "notify", "return", "stopped"}]
        /\ packet' \in [Writers -> Packets \cup {Empty}]
    BY <1>0 DEF IInv, TypeOK
  <2>4. accepted' \in Seq(Packets)
    BY <1>0, Appended DEF IInv, TypeOK
  <2>5. UNCHANGED <<head, tokens, closed, termination, kpc, buffer, wake, cpc, crashed,
       broken, clock, due, written, delivered>>
    BY DEF WritePut, chanVars, consVars, endVars
  <2> QED BY <2>1, <2>2, <2>3, <2>4, <2>5 DEF IInv, TypeOK
<1>4. Region'
  BY Put
<1>5. Counted'
  <2>1. Owing' = Owing \cup {w} /\ w \notin Owing
    BY <1>0 DEF Owing, IInv, TypeOK
  <2>2. Cardinality(Owing') = Cardinality(Owing) + 1
    BY <2>1, Finite, FS_AddElement
  <2>3. Held' = Held + 1 /\ Hand' = Hand /\ Held \in 0..Size /\ Hand \in Nat
                         /\ tokens \in 0..Size
    BY <1>0, Put, HeldIs DEF Hand, IInv, TypeOK
  <2> QED BY <1>0, <2>2, <2>3, Finite, Positive DEF IInv, Counted
<1>6. Timed'
  <2>1. UNCHANGED <<due, written, clock, wake>>
    BY DEF WritePut, chanVars, consVars, endVars
  <2>2. \A i \in Slots : ring'[i] # Empty => ring'[i] <= written' /\ sendTime'[i] =
       due'[ring'[i]]
    BY <1>0, <2>1 DEF IInv, TypeOK, Timed
  <2>3. \A v \in Writers : /\ packet'[v] <= written'
                           /\ wpc'[v] \in {"put", "waiting"} => packet'[v] # Empty
    BY <1>0, <2>1 DEF IInv, TypeOK, Timed, Empty
  <2>4. kpc' = "sleep" => buffer' = ring'[head'] /\ wake' = sendTime'[head']
    <3>1. kpc = "sleep" => head # tail
      BY <1>0, Occupies DEF IInv
    <3> QED BY <1>0, <2>1, <3>1 DEF IInv, TypeOK, Timed
  <2> QED BY <1>0, <2>1, <2>2, <2>3, <2>4 DEF IInv, Timed
<1>7. Order'
  <2>1. /\ Len(accepted') = Len(accepted) + 1 /\ accepted'[Len(accepted) + 1] = packet[w]
        /\ \A j \in 1..Len(accepted) : accepted'[j] = accepted[j]
        /\ \A n \in 0..Len(accepted) : SubSeq(accepted', 1, n) = SubSeq(accepted, 1, n)
        /\ Len(accepted) \in Nat /\ Len(delivered) \in Nat
    BY <1>0, Appended DEF IInv, TypeOK
  <2>2. Held = Slot(tail) /\ Held < Size /\ Held' = Held + 1 /\ Held \in 0..Size
    BY Put, HeldIs DEF IInv
  <2>3. InHand' = InHand /\ InHand \in 0..1 /\ \A i \in Slots : Slot(i)' = Slot(i)
    BY <1>0 DEF InHand, Slot
  <2>4. Len(delivered) <= Len(accepted) /\ delivered = SubSeq(accepted, 1, Len(delivered))
    BY DEF IInv, Order
  <2>5. Len(delivered') <= Len(accepted') /\ delivered' = SubSeq(accepted', 1,
       Len(delivered'))
    BY <1>0, <2>1, <2>4
  <2>6. ASSUME ~broken'
        PROVE  /\ Len(accepted') = Len(delivered') + InHand' + Held'
               /\ kpc' = "write" => accepted'[Len(delivered') + 1] = buffer'
               /\ \A i \in Slots : ring'[i] # Empty =>
                    accepted'[Len(delivered') + InHand' + 1 + Slot(i)'] = ring'[i]
    <3>1. /\ Len(accepted) = Len(delivered) + InHand + Held
          /\ kpc = "write" => accepted[Len(delivered) + 1] = buffer
          /\ \A i \in Slots : ring[i] # Empty =>
               accepted[Len(delivered) + InHand + 1 + Slot(i)] = ring[i]
      BY <1>0, <2>6 DEF IInv, Order
    <3>2. kpc' = "write" => accepted'[Len(delivered') + 1] = buffer'
      <4>1. kpc = "write" => Len(delivered) + 1 \in 1..Len(accepted)
        BY <2>1, <2>2, <3>1, Positive DEF InHand
      <4> QED BY <1>0, <2>1, <3>1, <4>1
    <3>3. ASSUME NEW i \in Slots, ring'[i] # Empty
          PROVE  accepted'[Len(delivered') + InHand' + 1 + Slot(i)'] = ring'[i]
      <4>1. CASE i = tail
        <5>1. Len(delivered') + InHand' + 1 + Slot(i)' = Len(accepted) + 1
          BY <1>0, <2>1, <2>2, <2>3, <3>1, <4>1, Positive
        <5>2. ring'[i] = packet[w]
          BY <1>0, <4>1 DEF IInv, TypeOK
        <5> QED BY <2>1, <5>1, <5>2
      <4>2. CASE i # tail
        <5>1. ring'[i] = ring[i]
          BY <1>0, <4>2 DEF IInv, TypeOK
        <5>2. Slot(i) \in 0..(Held - 1)
          BY <3>3, <5>1, SlotIs DEF IInv
        <5>3. Len(delivered) + InHand + 1 + Slot(i) \in 1..Len(accepted)
          <6>1. Len(accepted) = Len(delivered) + InHand + Held
            BY <3>1
          <6>2. /\ Len(accepted) \in Nat /\ Len(delivered) \in Nat
                /\ InHand \in 0..1 /\ Held \in 0..Size
            BY <2>1, <2>2, <2>3
          <6> QED BY <5>2, <6>1, <6>2, Positive
        <5>4. Len(delivered') + InHand' + 1 + Slot(i)' = Len(delivered) + InHand + 1 +
             Slot(i)
          BY <1>0, <2>3
        <5> QED BY <2>1, <3>1, <3>3, <5>1, <5>3, <5>4
      <4> QED BY <4>1, <4>2
    <3>4. Len(accepted') = Len(delivered') + InHand' + Held'
      BY <1>0, <2>1, <2>2, <2>3, <3>1, Positive
    <3> QED BY <3>2, <3>3, <3>4
  <2> QED BY <2>5, <2>6 DEF Order
<1>8. Bound'
  <2>1. Putting' = Putting \ {w} /\ w \in Putting
    BY <1>0 DEF Putting, IInv, TypeOK
  <2>2. Cardinality(Putting') = Cardinality(Putting) - 1
    BY <2>1, Finite, FS_RemoveElement
  <2>3. Len(accepted') = Len(accepted) + 1 /\ Len(accepted) \in Nat
                                           /\ Len(delivered) \in Nat
    BY <1>0, Appended DEF IInv, TypeOK
  <2>4. Held' = Held + 1 /\ Held \in 0..Size
    BY Put, HeldIs DEF IInv
  <2> QED BY <1>0, <2>2, <2>3, <2>4, Finite, Positive DEF IInv, Bound
<1> QED BY <1>2, <1>3, <1>4, <1>5, <1>6, <1>7, <1>8 DEF IInv

(* WriteRecheck keeps the invariant.                                        *)
LEMMA WriteRecheckStep ==
  ASSUME IInv, NEW w \in Writers, WriteRecheck(w)
  PROVE  IInv'
<1>1. UNCHANGED <<ring, head, tail, closed, termination, kpc, buffer, cpc, crashed,
     broken, accepted, delivered>>
  BY DEF WriteRecheck, ringVars, chanVars, consVars, endVars
<1>2. Region'
  BY <1>1 DEF IInv, Region, Within
<1>3. Service'
  BY <1>1 DEF IInv, Service
<1>4. Order'
  BY <1>1 DEF IInv, Order, InHand, Held, Slot
<1>5. TypeOK'
  BY RingAssumption DEF IInv, WriteRecheck, TypeOK, Packets, Slots, Empty, ringVars,
       chanVars, consVars, endVars
<1>6. Counted'
  <2>1. Owing' \subseteq Owing
    BY DEF Owing, IInv, TypeOK, WriteRecheck
  <2>2. Cardinality(Owing') <= Cardinality(Owing) /\ Cardinality(Owing') \in Nat
    BY <2>1, Finite, FS_Subset, FS_CardinalityType
  <2>3. /\ tokens' = tokens /\ Held' = Held /\ Hand' = Hand
        /\ tokens \in 0..Size /\ Held \in 0..Size /\ Hand \in Nat
    BY HeldIs DEF Held, Hand, IInv, TypeOK, WriteRecheck, ringVars, chanVars, consVars,
         endVars
  <2> QED BY <2>2, <2>3, Finite, Positive DEF IInv, Counted
<1>7. Timed'
  BY RingAssumption DEF IInv, WriteRecheck, TypeOK, Timed, Empty, Packets, ringVars,
       chanVars, consVars, endVars
<1>8. Bound'
  BY RingAssumption DEF IInv, WriteRecheck, TypeOK, Bound, Held, Putting, ringVars,
       chanVars, consVars, endVars
<1> QED BY <1>2, <1>3, <1>4, <1>5, <1>6, <1>7, <1>8 DEF IInv

(* WriteNotify keeps the invariant.                                         *)
LEMMA WriteNotifyStep ==
  ASSUME IInv, NEW w \in Writers, WriteNotify(w)
  PROVE  IInv'
<1>1. UNCHANGED <<ring, head, tail, kpc, buffer, broken, accepted, delivered>>
  BY DEF WriteNotify, ringVars, consVars
<1>2. Region'
  BY <1>1 DEF IInv, Region, Within
<1>3. Order'
  BY <1>1 DEF IInv, Order, InHand, Held, Slot
<1>4. TypeOK'
  <2>1. tokens' \in 0..Size
    BY Positive DEF IInv, TypeOK, WriteNotify
  <2>2. /\ wpc' \in [Writers
          -> {"idle", "put", "waiting", "recheck", "notify", "return", "stopped"}]
        /\ crashed' \in BOOLEAN
    BY DEF IInv, TypeOK, WriteNotify
  <2>3. UNCHANGED <<ring, sendTime, head, tail, closed, termination, kpc, buffer, wake,
       packet, cpc, broken, clock, due, written, accepted, delivered>>
    BY DEF WriteNotify, ringVars, consVars
  <2> QED BY <2>1, <2>2, <2>3 DEF IInv, TypeOK
<1>5. Counted'
  <2>1. Held' = Held /\ Hand' = Hand /\ tokens \in 0..Size /\ Held \in 0..Size
                     /\ Hand \in Nat
    BY HeldIs DEF Held, Hand, IInv, TypeOK, WriteNotify, ringVars, consVars
  <2>2. CASE ~closed /\ tokens < Size
    <3>1. tokens' = tokens + 1 /\ Owing' = Owing \ {w} /\ w \in Owing
      BY <2>2 DEF Owing, IInv, TypeOK, WriteNotify
    <3>2. Cardinality(Owing') = Cardinality(Owing) - 1
      BY <3>1, Finite, FS_RemoveElement
    <3> QED BY <2>1, <3>1, <3>2, Finite, Positive DEF IInv, Counted
  <2>3. CASE closed
    <3>1. tokens' = tokens /\ Owing' = Owing
      BY <2>3 DEF Owing, WriteNotify
    <3> QED BY <2>1, <3>1 DEF IInv, Counted
  <2> QED BY <2>2, <2>3 DEF WriteNotify
<1>6. Timed'
  BY RingAssumption DEF IInv, WriteNotify, TypeOK, Timed, Empty, Packets, ringVars,
       consVars
<1>7. Service'
  BY RingAssumption DEF IInv, WriteNotify, TypeOK, Service, ringVars,
       consVars
<1>8. Bound'
  BY RingAssumption DEF IInv, WriteNotify, TypeOK, Bound, Held, Putting, ringVars,
       consVars
<1> QED BY <1>2, <1>3, <1>4, <1>5, <1>6, <1>7, <1>8 DEF IInv

(* WriteReturn keeps the invariant.                                         *)
LEMMA WriteReturnStep ==
  ASSUME IInv, NEW w \in Writers, WriteReturn(w)
  PROVE  IInv'
<1>1. UNCHANGED <<ring, head, tail, closed, termination, kpc, buffer, cpc, crashed,
     broken, accepted, delivered>>
  BY DEF WriteReturn, ringVars, chanVars, consVars, endVars
<1>2. Region'
  BY <1>1 DEF IInv, Region, Within
<1>3. Service'
  BY <1>1 DEF IInv, Service
<1>4. Order'
  BY <1>1 DEF IInv, Order, InHand, Held, Slot
<1>5. TypeOK'
  BY RingAssumption DEF IInv, WriteReturn, TypeOK, Packets, Slots, Empty, ringVars,
       chanVars, consVars, endVars
<1>6. Counted'
  BY RingAssumption DEF IInv, WriteReturn, TypeOK, Counted, Owing, Held, Hand, ringVars,
       chanVars, consVars, endVars
<1>7. Timed'
  BY RingAssumption DEF IInv, WriteReturn, TypeOK, Timed, Empty, Packets, ringVars,
       chanVars, consVars, endVars
<1>8. Bound'
  BY RingAssumption DEF IInv, WriteReturn, TypeOK, Bound, Held, Putting, ringVars,
       chanVars, consVars, endVars
<1> QED BY <1>2, <1>3, <1>4, <1>5, <1>6, <1>7, <1>8 DEF IInv

(* Receive keeps the invariant.                                             *)
LEMMA ReceiveStep ==
  ASSUME IInv, Receive
  PROVE  IInv'
<1>1. UNCHANGED <<ring, head, tail, termination, wpc, accepted, delivered>>
  BY DEF Receive, ringVars, callVars, endVars
<1>2. Region'
  BY <1>1 DEF IInv, Region, Within
<1>3. Bound'
  BY <1>1 DEF IInv, Bound, Held, Putting
<1>4. TypeOK'
  BY RingAssumption DEF IInv, Receive, TypeOK, Packets, Slots, Empty, ringVars,
       callVars, endVars
<1>5. Counted'
  <2>1. Held' = Held /\ Owing' = Owing /\ Hand = 0 /\ Hand' = 1 /\ tokens' = tokens - 1
    BY DEF Held, Owing, Hand, Receive, ringVars, callVars, endVars
  <2>2. tokens \in 0..Size /\ Held \in 0..Size
    BY HeldIs DEF IInv, TypeOK
  <2> QED BY <2>1, <2>2, Finite, Positive DEF IInv, Counted
<1>6. Timed'
  BY RingAssumption DEF IInv, Receive, TypeOK, Timed, Empty, Packets, ringVars,
       callVars, endVars
<1>7. Service'
  BY RingAssumption DEF IInv, Receive, TypeOK, Service, ringVars,
       callVars, endVars
<1>8. Order'
  BY RingAssumption DEF IInv, Receive, TypeOK, Order, InHand, Held, Slot, ringVars,
       callVars, endVars
<1> QED BY <1>2, <1>3, <1>4, <1>5, <1>6, <1>7, <1>8 DEF IInv

(* Finish keeps the invariant.                                              *)
LEMMA FinishStep ==
  ASSUME IInv, Finish
  PROVE  IInv'
<1>1. UNCHANGED <<ring, head, tail, termination, wpc, accepted, delivered>>
  BY DEF Finish, ringVars, chanVars, callVars, endVars
<1>2. Region'
  BY <1>1 DEF IInv, Region, Within
<1>3. Bound'
  BY <1>1 DEF IInv, Bound, Held, Putting
<1>4. TypeOK'
  BY RingAssumption DEF IInv, Finish, TypeOK, Packets, Slots, Empty, ringVars, chanVars,
       callVars, endVars
<1>5. Counted'
  BY RingAssumption DEF IInv, Finish, TypeOK, Counted, Owing, Held, Hand, ringVars,
       chanVars, callVars, endVars
<1>6. Timed'
  BY RingAssumption DEF IInv, Finish, TypeOK, Timed, Empty, Packets, ringVars, chanVars,
       callVars, endVars
<1>7. Service'
  BY RingAssumption DEF IInv, Finish, TypeOK, Service, ringVars,
       chanVars, callVars, endVars
<1>8. Order'
  BY RingAssumption DEF IInv, Finish, TypeOK, Order, InHand, Held, Slot, ringVars,
       chanVars, callVars, endVars
<1> QED BY <1>2, <1>3, <1>4, <1>5, <1>6, <1>7, <1>8 DEF IInv

(* TakeNow keeps the invariant.                                             *)
LEMMA TakeNowStep ==
  ASSUME IInv, TakeNow
  PROVE  IInv'
<1>0. /\ ring[head] # Empty /\ kpc \in {"look", "sleep"} /\ Take /\ kpc' = "write"
      /\ head \in Slots
      /\ ring' = [ring EXCEPT ![head] = Empty] /\ buffer' = ring[head]
      /\ ring[head] \in Packets
      /\ sendTime[head] <= clock /\ wake' \in 0..MaxTime
      /\ wpc' \in [Writers
              -> {"idle", "put", "waiting", "recheck", "notify", "return", "stopped"}]
  <2>1. kpc \in {"look", "sleep"} /\ Take /\ kpc' = "write" /\ head \in Slots
        /\ ring' = [ring EXCEPT ![head] = Empty]
    BY DEF IInv, TypeOK, TakeNow, Take
  <2>2. ring[head] # Empty /\ ring[head] \in Packets
    BY <2>1, Occupies DEF IInv, TypeOK
  <2>3. buffer' = ring[head] /\ sendTime[head] <= clock /\ wake' \in 0..MaxTime
    BY <2>1, RingAssumption DEF IInv, TypeOK, Timed, TakeNow
  <2>4. wpc' \in [Writers
          -> {"idle", "put", "waiting", "recheck", "notify", "return", "stopped"}]
    BY <2>1 DEF IInv, TypeOK, Take, Signal
  <2> QED BY <2>1, <2>2, <2>3, <2>4
<1>a. /\ \A v \in Writers : wpc'[v] = wpc[v] \/ (wpc[v] = "waiting" /\ wpc'[v] = "put")
      /\ UNCHANGED <<tail, accepted, delivered, sendTime, tokens, closed, packet, due,
           written,
                     termination, crashed, broken, cpc, clock>>
  <2>1. UNCHANGED <<tail, accepted, delivered, sendTime, tokens, closed, packet, due,
       written,
                    termination, crashed, broken, cpc, clock>>
    BY DEF TakeNow, Take, chanVars, endVars
  <2>2. \A v \in Writers : wpc'[v] = wpc[v] \/ (wpc[v] = "waiting" /\ wpc'[v] = "put")
    BY <1>0 DEF IInv, TypeOK, Take, Signal
  <2> QED BY <2>1, <2>2
<1>b. ring' \in [Slots -> Packets \cup {Empty}] /\ head' \in Slots
  BY <1>0, AfterIs DEF IInv, TypeOK, Take
<1>1. TypeOK'
  BY <1>0, <1>a, <1>b DEF IInv, TypeOK
<1>2. Region'
  BY Taken DEF TakeNow
<1>3. Counted'
  <2>1. Owing' = Owing
    BY <1>0, <1>a DEF Owing
  <2>2. Hand = 1 /\ Hand' = 0
    BY <1>0 DEF Hand
  <2>3. Held' = Held - 1 /\ Held \in 0..Size /\ tokens \in 0..Size
    BY <1>0, Taken, HeldIs DEF IInv, TypeOK
  <2> QED BY <1>a, <2>1, <2>2, <2>3, Finite, Positive DEF IInv, Counted
<1>4. Timed'
  <2>1. /\ buffer' <= written' /\ due'[buffer'] <= clock'
        /\ buffer' # Empty
    BY <1>0, <1>a DEF IInv, Timed
  <2>2. \A i \in Slots : ring'[i] # Empty => ring'[i] <= written' /\ sendTime'[i] =
       due'[ring'[i]]
    BY <1>0, <1>a DEF IInv, TypeOK, Timed
  <2>3. \A v \in Writers : /\ packet'[v] <= written'
                           /\ wpc'[v] \in {"put", "waiting"} => packet'[v] # Empty
    BY <1>a DEF IInv, Timed
  <2> QED BY <1>0, <2>1, <2>2, <2>3 DEF Timed
<1>5. Service'
  BY <1>0, RingAssumption DEF IInv, TakeNow, Take, Signal, TypeOK, Service,
       chanVars, endVars
<1>6. Order'
  <2>1. /\ Len(delivered') <= Len(accepted')
        /\ delivered' = SubSeq(accepted', 1, Len(delivered'))
    BY <1>a DEF IInv, Order
  <2>2. ASSUME ~broken'
        PROVE  /\ Len(accepted') = Len(delivered') + InHand' + Held'
               /\ accepted'[Len(delivered') + 1] = buffer'
               /\ \A i \in Slots : ring'[i] # Empty =>
                    accepted'[Len(delivered') + InHand' + 1 + Slot(i)'] = ring'[i]
    <3>1. InHand = 0 /\ InHand' = 1 /\ Len(delivered) \in Nat /\ Len(accepted) \in Nat
      BY <1>0 DEF InHand, IInv, TypeOK
    <3>2. /\ Held' = Held - 1 /\ Held \in 0..Size
          /\ \A i \in Slots : ring'[i] # Empty =>
               i # head /\ ring'[i] = ring[i] /\ Slot(i)' = Slot(i) - 1
      BY <1>0, Taken, HeldIs DEF IInv
    <3>3. /\ Len(accepted) = Len(delivered) + InHand + Held
          /\ \A i \in Slots : ring[i] # Empty =>
               accepted[Len(delivered) + InHand + 1 + Slot(i)] = ring[i]
      BY <1>a, <2>2 DEF IInv, Order
    <3>4. accepted[Len(delivered) + 1] = ring[head]
      <4>1. Slot(head) = 0
        BY <1>0, Positive DEF Slot, Slots
      <4>2. accepted[Len(delivered) + InHand + 1 + Slot(head)] = ring[head]
        BY <1>0, <3>3
      <4> QED BY <3>1, <4>1, <4>2
    <3>5. ASSUME NEW i \in Slots, ring'[i] # Empty
          PROVE  accepted'[Len(delivered') + InHand' + 1 + Slot(i)'] = ring'[i]
      <4>1. ring[i] # Empty /\ Slot(i) \in 0..(Held - 1) /\ Slot(i)' = Slot(i) - 1
        BY <3>2, <3>5, SlotIs DEF IInv
      <4>2. Len(delivered) + InHand + 1 + Slot(i) = Len(delivered') + InHand' + 1 +
           Slot(i)'
        BY <1>a, <3>1, <3>2, <4>1, Positive
      <4> QED BY <1>a, <3>2, <3>3, <3>5, <4>1, <4>2
    <3> QED BY <1>0, <1>a, <3>1, <3>2, <3>3, <3>4, <3>5, Positive
  <2> QED BY <2>1, <2>2 DEF Order
<1>7. Bound'
  <2>1. Putting' = Putting
    BY <1>0, <1>a DEF Putting
  <2>2. Held' = Held - 1 /\ Held \in 0..Size /\ Len(delivered) \in Nat
                         /\ Len(accepted) \in Nat
    BY <1>0, Taken, HeldIs DEF IInv, TypeOK
  <2>3. termination = "nil" => Len(accepted) = Len(delivered) + Held
    BY <1>0, <2>2, Positive DEF IInv, Service, Order, InHand
  <2> QED BY <1>a, <2>1, <2>2, <2>3, Positive DEF IInv, Bound
<1> QED BY <1>1, <1>2, <1>3, <1>4, <1>5, <1>6, <1>7 DEF IInv

(* Sleep keeps the invariant.                                               *)
LEMMA SleepStep ==
  ASSUME IInv, Sleep
  PROVE  IInv'
<1>1. UNCHANGED <<ring, head, tail, termination, wpc, accepted, delivered>>
  BY DEF Sleep, ringVars, chanVars, callVars, endVars
<1>2. Region'
  BY <1>1 DEF IInv, Region, Within
<1>3. Bound'
  BY <1>1 DEF IInv, Bound, Held, Putting
<1>4. TypeOK'
  BY RingAssumption DEF IInv, Sleep, TypeOK, Packets, Slots, Empty, ringVars, chanVars,
       callVars, endVars
<1>5. Counted'
  BY RingAssumption DEF IInv, Sleep, TypeOK, Counted, Owing, Held, Hand, ringVars,
       chanVars, callVars, endVars
<1>6. Timed'
  BY RingAssumption DEF IInv, Sleep, TypeOK, Timed, Empty, Packets, ringVars, chanVars,
       callVars, endVars
<1>7. Service'
  BY RingAssumption DEF IInv, Sleep, TypeOK, Service, ringVars,
       chanVars, callVars, endVars
<1>8. Order'
  BY RingAssumption DEF IInv, Sleep, TypeOK, Order, InHand, Held, Slot, ringVars,
       chanVars, callVars, endVars
<1> QED BY <1>2, <1>3, <1>4, <1>5, <1>6, <1>7, <1>8 DEF IInv

(* TakeLater keeps the invariant.                                           *)
LEMMA TakeLaterStep ==
  ASSUME IInv, TakeLater
  PROVE  IInv'
<1>0. /\ ring[head] # Empty /\ kpc \in {"look", "sleep"} /\ Take /\ kpc' = "write"
      /\ head \in Slots
      /\ ring' = [ring EXCEPT ![head] = Empty] /\ buffer' = ring[head]
      /\ ring[head] \in Packets
      /\ sendTime[head] <= clock /\ wake' \in 0..MaxTime
      /\ wpc' \in [Writers
              -> {"idle", "put", "waiting", "recheck", "notify", "return", "stopped"}]
  <2>1. kpc \in {"look", "sleep"} /\ Take /\ kpc' = "write" /\ head \in Slots
        /\ ring' = [ring EXCEPT ![head] = Empty]
    BY DEF IInv, TypeOK, TakeLater, Take
  <2>2. ring[head] # Empty /\ ring[head] \in Packets
    BY <2>1, Occupies DEF IInv, TypeOK
  <2>3. buffer' = ring[head] /\ sendTime[head] <= clock /\ wake' \in 0..MaxTime
    BY <2>1, RingAssumption DEF IInv, TypeOK, Timed, TakeLater
  <2>4. wpc' \in [Writers
          -> {"idle", "put", "waiting", "recheck", "notify", "return", "stopped"}]
    BY <2>1 DEF IInv, TypeOK, Take, Signal
  <2> QED BY <2>1, <2>2, <2>3, <2>4
<1>a. /\ \A v \in Writers : wpc'[v] = wpc[v] \/ (wpc[v] = "waiting" /\ wpc'[v] = "put")
      /\ UNCHANGED <<tail, accepted, delivered, sendTime, tokens, closed, packet, due,
           written,
                     termination, crashed, broken, cpc, clock>>
  <2>1. UNCHANGED <<tail, accepted, delivered, sendTime, tokens, closed, packet, due,
       written,
                    termination, crashed, broken, cpc, clock>>
    BY DEF TakeLater, Take, chanVars, endVars
  <2>2. \A v \in Writers : wpc'[v] = wpc[v] \/ (wpc[v] = "waiting" /\ wpc'[v] = "put")
    BY <1>0 DEF IInv, TypeOK, Take, Signal
  <2> QED BY <2>1, <2>2
<1>b. ring' \in [Slots -> Packets \cup {Empty}] /\ head' \in Slots
  BY <1>0, AfterIs DEF IInv, TypeOK, Take
<1>1. TypeOK'
  BY <1>0, <1>a, <1>b DEF IInv, TypeOK
<1>2. Region'
  BY Taken DEF TakeLater
<1>3. Counted'
  <2>1. Owing' = Owing
    BY <1>0, <1>a DEF Owing
  <2>2. Hand = 1 /\ Hand' = 0
    BY <1>0 DEF Hand
  <2>3. Held' = Held - 1 /\ Held \in 0..Size /\ tokens \in 0..Size
    BY <1>0, Taken, HeldIs DEF IInv, TypeOK
  <2> QED BY <1>a, <2>1, <2>2, <2>3, Finite, Positive DEF IInv, Counted
<1>4. Timed'
  <2>1. /\ buffer' <= written' /\ due'[buffer'] <= clock'
        /\ buffer' # Empty
    BY <1>0, <1>a DEF IInv, Timed
  <2>2. \A i \in Slots : ring'[i] # Empty => ring'[i] <= written' /\ sendTime'[i] =
       due'[ring'[i]]
    BY <1>0, <1>a DEF IInv, TypeOK, Timed
  <2>3. \A v \in Writers : /\ packet'[v] <= written'
                           /\ wpc'[v] \in {"put", "waiting"} => packet'[v] # Empty
    BY <1>a DEF IInv, Timed
  <2> QED BY <1>0, <2>1, <2>2, <2>3 DEF Timed
<1>5. Service'
  BY <1>0, RingAssumption DEF IInv, TakeLater, Take, Signal, TypeOK, Service,
       chanVars, endVars
<1>6. Order'
  <2>1. /\ Len(delivered') <= Len(accepted')
        /\ delivered' = SubSeq(accepted', 1, Len(delivered'))
    BY <1>a DEF IInv, Order
  <2>2. ASSUME ~broken'
        PROVE  /\ Len(accepted') = Len(delivered') + InHand' + Held'
               /\ accepted'[Len(delivered') + 1] = buffer'
               /\ \A i \in Slots : ring'[i] # Empty =>
                    accepted'[Len(delivered') + InHand' + 1 + Slot(i)'] = ring'[i]
    <3>1. InHand = 0 /\ InHand' = 1 /\ Len(delivered) \in Nat /\ Len(accepted) \in Nat
      BY <1>0 DEF InHand, IInv, TypeOK
    <3>2. /\ Held' = Held - 1 /\ Held \in 0..Size
          /\ \A i \in Slots : ring'[i] # Empty =>
               i # head /\ ring'[i] = ring[i] /\ Slot(i)' = Slot(i) - 1
      BY <1>0, Taken, HeldIs DEF IInv
    <3>3. /\ Len(accepted) = Len(delivered) + InHand + Held
          /\ \A i \in Slots : ring[i] # Empty =>
               accepted[Len(delivered) + InHand + 1 + Slot(i)] = ring[i]
      BY <1>a, <2>2 DEF IInv, Order
    <3>4. accepted[Len(delivered) + 1] = ring[head]
      <4>1. Slot(head) = 0
        BY <1>0, Positive DEF Slot, Slots
      <4>2. accepted[Len(delivered) + InHand + 1 + Slot(head)] = ring[head]
        BY <1>0, <3>3
      <4> QED BY <3>1, <4>1, <4>2
    <3>5. ASSUME NEW i \in Slots, ring'[i] # Empty
          PROVE  accepted'[Len(delivered') + InHand' + 1 + Slot(i)'] = ring'[i]
      <4>1. ring[i] # Empty /\ Slot(i) \in 0..(Held - 1) /\ Slot(i)' = Slot(i) - 1
        BY <3>2, <3>5, SlotIs DEF IInv
      <4>2. Len(delivered) + InHand + 1 + Slot(i) = Len(delivered') + InHand' + 1 +
           Slot(i)'
        BY <1>a, <3>1, <3>2, <4>1, Positive
      <4> QED BY <1>a, <3>2, <3>3, <3>5, <4>1, <4>2
    <3> QED BY <1>0, <1>a, <3>1, <3>2, <3>3, <3>4, <3>5, Positive
  <2> QED BY <2>1, <2>2 DEF Order
<1>7. Bound'
  <2>1. Putting' = Putting
    BY <1>0, <1>a DEF Putting
  <2>2. Held' = Held - 1 /\ Held \in 0..Size /\ Len(delivered) \in Nat
                         /\ Len(accepted) \in Nat
    BY <1>0, Taken, HeldIs DEF IInv, TypeOK
  <2>3. termination = "nil" => Len(accepted) = Len(delivered) + Held
    BY <1>0, <2>2, Positive DEF IInv, Service, Order, InHand
  <2> QED BY <1>a, <2>1, <2>2, <2>3, Positive DEF IInv, Bound
<1> QED BY <1>1, <1>2, <1>3, <1>4, <1>5, <1>6, <1>7 DEF IInv

(* Send keeps the invariant.                                                *)
LEMMA SendStep ==
  ASSUME IInv, Send
  PROVE  IInv'
<1>1. UNCHANGED <<ring, head, tail>>
  BY DEF Send, ringVars, chanVars, callVars, endVars
<1>2. Region'
  BY <1>1 DEF IInv, Region, Within
<1>3. TypeOK'
  <2>1. buffer \in Packets /\ delivered' = Append(delivered, buffer)
    BY DEF IInv, TypeOK, Timed, Send
  <2>2. delivered' \in Seq(Packets)
    BY <2>1, Appended DEF IInv, TypeOK
  <2>3. buffer' = Empty /\ kpc' = "receive"
    BY DEF Send
  <2>4. UNCHANGED <<ring, sendTime, head, tail, tokens, closed, termination, wake, wpc,
       packet, cpc, crashed, broken, clock, due, written, accepted>>
    BY DEF Send, ringVars, chanVars, callVars, endVars
  <2> QED BY <2>1, <2>2, <2>3, <2>4 DEF IInv, TypeOK
<1>4. Counted'
  BY RingAssumption DEF IInv, Send, TypeOK, Counted, Owing, Held, Hand, ringVars,
       chanVars, callVars, endVars
<1>5. Timed'
  BY RingAssumption DEF IInv, Send, TypeOK, Timed, Empty, Packets, ringVars, chanVars,
       callVars, endVars
<1>6. Service'
  BY RingAssumption DEF IInv, Send, TypeOK, Service, ringVars,
       chanVars, callVars, endVars
<1>7. Order'
  <2>1. /\ buffer \in Packets /\ delivered' = Append(delivered, buffer)
        /\ kpc = "write" /\ ~broken
        /\ kpc' = "receive"
        /\ UNCHANGED <<accepted, ring, head, tail, termination, wpc, broken>>
        /\ delivered \in Seq(Packets) /\ accepted \in Seq(Packets)
    BY DEF IInv, TypeOK, Timed, Send, ringVars, chanVars, callVars, endVars
  <2>2. Len(delivered') = Len(delivered) + 1 /\ Len(delivered) \in Nat
                                             /\ Len(accepted) \in Nat
    BY <2>1, Appended
  <2>3. Held' = Held /\ Held \in 0..Size
    BY <2>1, HeldIs DEF Held, IInv
  <2>4. InHand = 1 /\ InHand' = 0 /\ \A i \in Slots : Slot(i)' = Slot(i)
    BY <2>1 DEF InHand, Slot
  <2>5. /\ Len(accepted) = Len(delivered) + 1 + Held
        /\ accepted[Len(delivered) + 1] = buffer
        /\ \A i \in Slots : ring[i] # Empty =>
             accepted[Len(delivered) + 1 + 1 + Slot(i)] = ring[i]
        /\ delivered = SubSeq(accepted, 1, Len(delivered))
    BY <2>1, <2>4 DEF IInv, Order
  <2>6. Len(delivered) \in 0..(Len(accepted) - 1)
    BY <2>2, <2>3, <2>5, Positive
  <2>7. delivered' = SubSeq(accepted', 1, Len(delivered'))
    BY <2>1, <2>2, <2>5, <2>6, Appended
  <2>8. \A i \in Slots : ring'[i] # Empty =>
          accepted'[Len(delivered') + InHand' + 1 + Slot(i)'] = ring'[i]
    BY <2>1, <2>2, <2>4, <2>5
  <2> QED BY <2>1, <2>2, <2>3, <2>4, <2>5, <2>6, <2>7, <2>8, Positive DEF Order
<1>8. Bound'
  <2>1. /\ buffer \in Packets /\ delivered' = Append(delivered, buffer)
        /\ kpc = "write" /\ ~broken
        /\ kpc' = "receive"
        /\ UNCHANGED <<accepted, ring, head, tail, termination, wpc, broken>>
        /\ delivered \in Seq(Packets) /\ accepted \in Seq(Packets)
    BY DEF IInv, TypeOK, Timed, Send, ringVars, chanVars, callVars, endVars
  <2>2. Len(delivered') = Len(delivered) + 1 /\ Len(delivered) \in Nat
                                             /\ Len(accepted) \in Nat
    BY <2>1, Appended
  <2>3. Held' = Held /\ Held \in 0..Size
    BY <2>1, HeldIs DEF Held, IInv
  <2>4. Putting' = Putting
    BY <2>1 DEF Putting
  <2> QED BY <2>1, <2>2, <2>3, <2>4, Positive, Finite DEF IInv, Bound
<1> QED BY <1>2, <1>3, <1>4, <1>5, <1>6, <1>7, <1>8 DEF IInv

(* SendFails keeps the invariant.                                           *)
LEMMA SendFailsStep ==
  ASSUME IInv, SendFails
  PROVE  IInv'
<1>1. UNCHANGED <<ring, head, tail, termination, wpc, accepted, delivered>>
  BY DEF SendFails, ringVars, chanVars, callVars
<1>2. Region'
  BY <1>1 DEF IInv, Region, Within
<1>3. Bound'
  BY <1>1 DEF IInv, Bound, Held, Putting
<1>4. TypeOK'
  BY RingAssumption DEF IInv, SendFails, TypeOK, Packets, Slots, Empty, ringVars,
       chanVars, callVars
<1>5. Counted'
  BY RingAssumption DEF IInv, SendFails, TypeOK, Counted, Owing, Held, Hand, ringVars,
       chanVars, callVars
<1>6. Timed'
  BY RingAssumption DEF IInv, SendFails, TypeOK, Timed, Empty, Packets, ringVars,
       chanVars, callVars
<1>7. Service'
  BY RingAssumption DEF IInv, SendFails, TypeOK, Service, ringVars,
       chanVars, callVars
<1>8. Order'
  BY RingAssumption DEF IInv, SendFails, TypeOK, Order, InHand, Held, Slot, ringVars,
       chanVars, callVars
<1> QED BY <1>2, <1>3, <1>4, <1>5, <1>6, <1>7, <1>8 DEF IInv

(* Terminate keeps the invariant.                                           *)
LEMMA TerminateStep ==
  ASSUME IInv, Terminate
  PROVE  IInv'
<1>1. UNCHANGED <<ring, head, tail>>
  BY DEF Terminate, ringVars, callVars
<1>2. Region'
  BY <1>1 DEF IInv, Region, Within
<1>3. TypeOK'
  BY RingAssumption DEF IInv, Terminate, TypeOK, Packets, Slots, Empty, ringVars, callVars
<1>4. Counted'
  BY RingAssumption DEF IInv, Terminate, TypeOK, Counted, Owing, Held, Hand, ringVars,
       callVars
<1>5. Timed'
  BY RingAssumption DEF IInv, Terminate, TypeOK, Timed, Empty, Packets, ringVars, callVars
<1>6. Service'
  BY RingAssumption DEF IInv, Terminate, TypeOK, Service, ringVars,
       callVars
<1>7. Order'
  BY RingAssumption DEF IInv, Terminate, TypeOK, Order, InHand, Held, Slot, ringVars,
       callVars
<1>8. Bound'
  <2>1. UNCHANGED <<accepted, delivered, ring, head, tail, wpc>> /\ (termination # "nil"
       => termination' # "nil")
    BY DEF Terminate, ringVars, callVars
  <2>2. Held' = Held /\ Putting' = Putting /\ Held \in 0..Size
    BY <2>1, HeldIs DEF Held, Putting, IInv
  <2>3. Len(accepted) \in Nat /\ Len(delivered) \in Nat
    BY DEF IInv, TypeOK
  <2> QED BY <2>1, <2>2, <2>3, Finite, Positive DEF IInv, Bound
<1> QED BY <1>2, <1>3, <1>4, <1>5, <1>6, <1>7, <1>8 DEF IInv

(* CloseMark keeps the invariant.                                           *)
LEMMA CloseMarkStep ==
  ASSUME IInv, CloseMark
  PROVE  IInv'
<1>1. UNCHANGED <<ring, sendTime, head, tail, tokens, kpc, buffer, wake, wpc, packet,
     broken, clock, due, written, accepted, delivered>>
  BY DEF CloseMark, ringVars, chanVars, consVars, callVars
<1>2. Region'
  BY <1>1 DEF IInv, Region, Within
<1>3. Counted'
  BY <1>1 DEF IInv, Counted, Owing, Held, Hand
<1>4. Timed'
  BY <1>1 DEF IInv, Timed, Empty, Packets
<1>5. Order'
  BY <1>1 DEF IInv, Order, InHand, Held, Slot
<1>6. TypeOK'
  BY RingAssumption DEF IInv, CloseMark, TypeOK, Packets, Slots, Empty, ringVars,
       chanVars, consVars, callVars
<1>7. Service'
  BY RingAssumption DEF IInv, CloseMark, TypeOK, Service, ringVars,
       chanVars, consVars, callVars
<1>8. Bound'
  <2>1. UNCHANGED <<accepted, delivered, ring, head, tail, wpc>> /\ (termination # "nil"
       => termination' # "nil")
    BY DEF CloseMark, ringVars, chanVars, consVars, callVars
  <2>2. Held' = Held /\ Putting' = Putting /\ Held \in 0..Size
    BY <2>1, HeldIs DEF Held, Putting, IInv
  <2>3. Len(accepted) \in Nat /\ Len(delivered) \in Nat
    BY DEF IInv, TypeOK
  <2> QED BY <2>1, <2>2, <2>3, Finite, Positive DEF IInv, Bound
<1> QED BY <1>2, <1>3, <1>4, <1>5, <1>6, <1>7, <1>8 DEF IInv

(* CloseChan keeps the invariant.                                           *)
LEMMA CloseChanStep ==
  ASSUME IInv, CloseChan
  PROVE  IInv'
<1>1. UNCHANGED <<ring, sendTime, head, tail, tokens, termination, kpc, buffer, wake,
     wpc, packet, broken, clock, due, written, accepted, delivered>>
  BY DEF CloseChan, ringVars, consVars, callVars
<1>2. Region'
  BY <1>1 DEF IInv, Region, Within
<1>3. Counted'
  BY <1>1 DEF IInv, Counted, Owing, Held, Hand
<1>4. Timed'
  BY <1>1 DEF IInv, Timed, Empty, Packets
<1>5. Order'
  BY <1>1 DEF IInv, Order, InHand, Held, Slot
<1>6. Bound'
  BY <1>1 DEF IInv, Bound, Held, Putting
<1>7. TypeOK'
  BY RingAssumption DEF IInv, CloseChan, TypeOK, Packets, Slots, Empty, ringVars,
       consVars, callVars
<1>8. Service'
  BY RingAssumption DEF IInv, CloseChan, TypeOK, Service, ringVars,
       consVars, callVars
<1> QED BY <1>2, <1>3, <1>4, <1>5, <1>6, <1>7, <1>8 DEF IInv

(* CloseUpstream keeps the invariant.                                       *)
LEMMA CloseUpstreamStep ==
  ASSUME IInv, CloseUpstream
  PROVE  IInv'
<1>1. UNCHANGED <<ring, sendTime, head, tail, tokens, termination, kpc, buffer, wake,
     wpc, packet, clock, due, written, accepted, delivered>>
  BY DEF CloseUpstream, ringVars, chanVars, consVars, callVars
<1>2. Region'
  BY <1>1 DEF IInv, Region, Within
<1>3. Counted'
  BY <1>1 DEF IInv, Counted, Owing, Held, Hand
<1>4. Timed'
  BY <1>1 DEF IInv, Timed, Empty, Packets
<1>5. Bound'
  BY <1>1 DEF IInv, Bound, Held, Putting
<1>6. TypeOK'
  BY RingAssumption DEF IInv, CloseUpstream, TypeOK, Packets, Slots, Empty, ringVars,
       chanVars, consVars, callVars
<1>7. Service'
  BY RingAssumption DEF IInv, CloseUpstream, TypeOK, Service,
       ringVars, chanVars, consVars, callVars
<1>8. Order'
  BY RingAssumption DEF IInv, CloseUpstream, TypeOK, Order, InHand, Held, Slot,
       ringVars, chanVars, consVars, callVars
<1> QED BY <1>2, <1>3, <1>4, <1>5, <1>6, <1>7, <1>8 DEF IInv

(* Tick keeps the invariant.                                                *)
LEMMA TickStep ==
  ASSUME IInv, Tick
  PROVE  IInv'
<1>1. UNCHANGED <<ring, head, tail, tokens, closed, termination, kpc, buffer, wpc, cpc,
     crashed, broken, accepted, delivered>>
  BY DEF Tick, ringVars, chanVars, consVars, callVars, endVars
<1>2. Region'
  BY <1>1 DEF IInv, Region, Within
<1>3. Counted'
  BY <1>1 DEF IInv, Counted, Owing, Held, Hand
<1>4. Service'
  BY <1>1 DEF IInv, Service
<1>5. Order'
  BY <1>1 DEF IInv, Order, InHand, Held, Slot
<1>6. Bound'
  BY <1>1 DEF IInv, Bound, Held, Putting
<1>7. TypeOK'
  BY RingAssumption DEF IInv, Tick, TypeOK, Packets, Slots, Empty, ringVars, chanVars,
       consVars, callVars, endVars
<1>8. Timed'
  BY RingAssumption DEF IInv, Tick, TypeOK, Timed, Empty, Packets, ringVars, chanVars,
       consVars, callVars, endVars
<1> QED BY <1>2, <1>3, <1>4, <1>5, <1>6, <1>7, <1>8 DEF IInv

(* The invariant holds throughout.                                         *)
THEOREM Invariant == Spec => []IInv
<1>1. IInv /\ [Next]_vars => IInv'
  <2> SUFFICES ASSUME IInv, [Next]_vars PROVE IInv'
    OBVIOUS
  <2>1. CASE \E w \in Writers : WriteCall(w) \/ WriteOn(w)
    BY <2>1, WriteCallStep, WriteWaitStep, WritePutStep, WriteRecheckStep, WriteNotifyStep,
       WriteReturnStep DEF WriteOn
  <2>2. CASE Consumer
    BY <2>2, ReceiveStep, FinishStep, TakeNowStep, SleepStep, TakeLaterStep, SendStep,
       SendFailsStep, TerminateStep DEF Consumer
  <2>3. CASE Closer \/ Tick
    BY <2>3, CloseMarkStep, CloseChanStep, CloseUpstreamStep, TickStep DEF Closer
  <2>4. CASE UNCHANGED vars
    <3>1. TypeOK' /\ Region' /\ Timed' /\ Service'
      BY <2>4 DEF IInv, TypeOK, Region, Within, Timed, Service, vars,
         ringVars, chanVars, consVars, callVars, endVars
    <3>2. UNCHANGED <<ring, head, tail, tokens, wpc, kpc, accepted, delivered, broken,
                      buffer, termination>>
      BY <2>4 DEF vars, ringVars, chanVars, consVars, callVars, endVars
    <3>3. Counted' /\ Order' /\ Bound'
      BY <3>2 DEF IInv, Counted, Owing, Held, Hand, Order, InHand, Slot, Bound, Putting
    <3> QED BY <3>1, <3>3 DEF IInv
  <2> QED BY <2>1, <2>2, <2>3, <2>4 DEF Next
<1> QED BY InitIInv, <1>1, PTL DEF Spec

(* What the run checks, as consequences.  Every state is of its type       *)
(* (delay.go:19-129).                                                      *)
THEOREM Types == Spec => []TypeOK
<1>1. IInv => TypeOK
  BY DEF IInv
<1> QED BY Invariant, <1>1, PTL

(* A notification always finds a packet at head (delay.go:58-64, :129).    *)
THEOREM Occupied == Spec => []HeadOccupied
<1>1. IInv => HeadOccupied
  BY Occupies DEF IInv, HeadOccupied
<1> QED BY Invariant, <1>1, PTL

(* A writer that has put its packet never blocks on notifyChan             *)
(* (delay.go:55, :129).                                                    *)
THEOREM Room == Spec => []RoomToNotify
<1>1. ASSUME IInv PROVE RoomToNotify
  <2> SUFFICES ASSUME NEW w \in Writers, wpc[w] = "notify" PROVE tokens < Size
    BY DEF RoomToNotify
  <2>1. Cardinality(Owing) > 0
    <3>1. w \in Owing
      BY DEF Owing
    <3> QED BY <3>1, Finite, FS_EmptySet
  <2>2. tokens \in 0..Size /\ Held \in 0..Size /\ Hand \in Nat
    BY <1>1, HeldIs DEF IInv, TypeOK, Hand
  <2> QED BY <1>1, <2>1, <2>2, Finite, Positive DEF IInv, Counted
<1> QED BY Invariant, <1>1, PTL

(* A drained delayer stays so: no step puts a notification, or closes      *)
(* notifyChan twice.                                                       *)
LEMMA StaysDrained ==
  ASSUME IInv, Drained, [Next]_vars
  PROVE  Drained'
<1> USE DEF Drained, IInv, TypeOK
<1>1. ASSUME NEW w \in Writers, WriteCall(w) \/ WriteOn(w) PROVE Drained'
  BY <1>1 DEF WriteOn, WriteCall, WriteWait, WritePut, WriteRecheck, WriteNotify,
              WriteReturn, chanVars, consVars, endVars
<1>2. CASE Consumer
  BY <1>2 DEF Consumer, Receive, Finish, TakeNow, Sleep, TakeLater, Send, SendFails,
              Terminate, chanVars, callVars, endVars
<1>3. CASE Closer
  BY <1>3 DEF Closer, CloseMark, CloseChan, CloseUpstream, Service, chanVars, consVars,
              callVars
<1>4. CASE Tick \/ UNCHANGED vars
  BY <1>4 DEF Tick, vars, chanVars, consVars, callVars, endVars
<1> QED BY <1>1, <1>2, <1>3, <1>4 DEF Next

(* Once drained, a delayer never panics (delay.go:80-98, :106, :126-129).  *)
THEOREM EndsClean == Spec => CleanEnd
<1>1. IInv /\ Drained /\ [Next]_vars => Drained'
  BY StaysDrained
<1>2. Drained => ~crashed
  BY DEF Drained
<1> QED BY Invariant, <1>1, <1>2, PTL DEF Spec, CleanEnd

(* Only Send delivers, and what it delivers is due.                        *)
LEMMA Delivers ==
  ASSUME IInv, [Next]_vars, delivered' # delivered
  PROVE  Send
<1>1. ~UNCHANGED vars
  BY DEF vars
<1>2. ~\E w \in Writers : WriteCall(w) \/ WriteOn(w)
  BY DEF WriteCall, WriteOn, WriteWait, WritePut, WriteRecheck, WriteNotify, WriteReturn
<1>3. ~(Closer \/ Tick)
  BY DEF Closer, CloseMark, CloseChan, CloseUpstream, Tick
<1>4. Consumer => Send
  BY DEF Consumer, Receive, Finish, TakeNow, Sleep, TakeLater, Take, SendFails, Terminate
<1> QED BY <1>1, <1>2, <1>3, <1>4 DEF Next

(* No packet is sent before its time (delay.go:61-75).                     *)
THEOREM Punctual == Spec => NotEarly
<1>1. ASSUME IInv, [Next]_vars
      PROVE  [delivered' # delivered => clock >= due[delivered'[Len(delivered')]]]_vars
  <2> SUFFICES ASSUME delivered' # delivered
               PROVE  clock >= due[delivered'[Len(delivered')]]
    OBVIOUS
  <2>1. Send
    BY <1>1, Delivers
  <2>2. /\ delivered' = Append(delivered, buffer) /\ buffer \in Packets
        /\ due[buffer] <= clock /\ delivered \in Seq(Packets)
        /\ due[buffer] \in 0..MaxTime /\ clock \in 0..MaxTime
    BY <1>1, <2>1 DEF IInv, TypeOK, Timed, Send
  <2>3. delivered'[Len(delivered')] = buffer
    BY <2>2, Appended
  <2> QED BY <2>2, <2>3, RingAssumption
<1> QED BY Invariant, <1>1, PTL DEF Spec, NotEarly

(* A RingDelayer is a stream of packets: they reach the upstream in the    *)
(* order in which they entered the ring, each once, and no more are owed   *)
(* than its slots, the one in hand and one of each writer (delay.go:58-86, *)
(* :114-125).                                                              *)
THEOREM Refinement == Spec => IsStream
<1>1. Init => Stream!Init
  BY DEF Init, Stream!Init
<1>2. ASSUME IInv, [Next]_vars, IInv'
      PROVE  [Stream!Next]_<<accepted, delivered>>
  <2> SUFFICES ASSUME <<accepted, delivered>>' # <<accepted, delivered>>
               PROVE  Stream!Next
    OBVIOUS
  <2>0. accepted \in Seq(Packets) /\ delivered \in Seq(Packets)
    BY <1>2 DEF IInv, TypeOK
  <2>1. CASE delivered' # delivered
    <3>1. Send
      BY <1>2, <2>1, Delivers
    <3>2. /\ accepted' = accepted /\ delivered' = Append(delivered, buffer)
          /\ buffer \in Packets
      BY <1>2, <3>1 DEF IInv, TypeOK, Timed, Send, ringVars
    <3>3. Len(delivered') = Len(delivered) + 1
      BY <2>0, <3>2, Appended
    <3>4. /\ Len(delivered') <= Len(accepted)
          /\ delivered' = SubSeq(accepted, 1, Len(delivered'))
      BY <1>2, <3>2 DEF IInv, Order
    <3>5. Len(delivered') \in Len(delivered) + 1 .. Len(accepted)
      BY <2>0, <3>3, <3>4
    <3> QED BY <3>2, <3>4, <3>5 DEF Stream!Next, Stream!Deliver
  <2>2. CASE delivered' = delivered
    <3>1. PICK w \in Writers : WritePut(w)
      BY <1>2, <2>2 DEF Next, WriteCall, WriteOn, WriteWait, WriteRecheck, WriteNotify,
         WriteReturn, Consumer, Receive, Finish, TakeNow, Sleep, TakeLater, Take, Send,
         SendFails, Terminate, Closer, CloseMark, CloseChan, CloseUpstream, Tick,
         ringVars, vars
    <3>2. packet[w] \in Packets /\ accepted' = Append(accepted, packet[w])
      BY <1>2, <3>1 DEF IInv, TypeOK, Timed, WritePut
    <3>3. /\ Len(accepted') = Len(accepted) + 1 /\ accepted' \in Seq(Packets)
          /\ SubSeq(accepted', 1, Len(accepted)) = accepted
      <4>1. SubSeq(accepted, 1, Len(accepted)) = accepted
        BY <2>0
      <4>2. Len(accepted) \in 0..Len(accepted)
        BY <2>0
      <4>3. \A n \in 0..Len(accepted) : SubSeq(accepted', 1, n) = SubSeq(accepted, 1, n)
        BY <2>0, <3>2, Appended
      <4>4. Len(accepted') = Len(accepted) + 1 /\ accepted' \in Seq(Packets)
        BY <2>0, <3>2, Appended
      <4> QED BY <4>1, <4>2, <4>3, <4>4
    <3>4. Len(accepted') - Len(delivered) <= Size + 1 + Cardinality(Writers)
      <4>1. (Held \in 0..Size)' /\ (Cardinality(Putting) \in 0..Cardinality(Writers))'
        BY <1>2, HeldIs, Finite, PTL DEF IInv
      <4>2. Len(accepted') \in Nat /\ Len(delivered) \in Nat
        BY <2>0, <3>3
      <4> QED BY <1>2, <2>2, <4>1, <4>2, Positive DEF IInv, Bound
    <3> QED BY <2>0, <2>2, <3>3, <3>4 DEF Stream!Next, Stream!Accept
  <2> QED BY <2>1, <2>2
<1> QED BY Invariant, <1>1, <1>2, PTL DEF Spec, IsStream, Stream!Spec

-----------------------------------------------------------------------------
(***************************************************************************)
(* What the liveness properties rest on.  Counted bounds the notifications *)
(* from above; a second invariant, kept by the steps that keep the first,  *)
(* bounds them from below: a slot in use has a notification, or a writer   *)
(* that is about to notify or has returned without (Enough), and a writer  *)
(* that waits has a notification to come (Covered).  The two meet where    *)
(* the ring is full: it has at least as many slots as there are writers,   *)
(* so that one that begins to wait finds a notification still to come.     *)
(***************************************************************************)
Waiting == {w \in Writers : wpc[w] = "waiting"}
Leaving == {w \in Writers : wpc[w] \in {"recheck", "notify", "stopped"}}

InTime  == termination = "nil" => \A w \in Writers : wpc[w] # "stopped"
Enough  == Held <= tokens + Hand + Cardinality(Leaving)
Covered == Cardinality(Waiting) <= tokens + Hand

LInv == InTime /\ Enough /\ Covered

(* How a set of writers grows and shrinks by one.                          *)
LEMMA OneMore ==
  ASSUME NEW A \in SUBSET Writers, NEW w \in Writers
  PROVE  /\ Cardinality(A) \in Nat
         /\ w \notin A => Cardinality(A \cup {w}) = Cardinality(A) + 1
         /\ w \in A => Cardinality(A \ {w}) = Cardinality(A) - 1
BY RingAssumption, FS_Subset, FS_CardinalityType, FS_AddElement, FS_RemoveElement

(* Nobody waits and leaves, and there are slots for all.                   *)
LEMMA Apart ==
  ASSUME NEW A \in SUBSET Writers, NEW B \in SUBSET Writers, A \cap B = {}
  PROVE  Cardinality(A) + Cardinality(B) <= Size
<1>1. IsFiniteSet(A) /\ IsFiniteSet(B) /\ A \cup B \subseteq Writers
  BY RingAssumption, FS_Subset
<1>2. Cardinality(A \cup B) <= Cardinality(Writers)
  BY <1>1, RingAssumption, FS_Subset
<1>3. Cardinality(A \cup B) = Cardinality(A) + Cardinality(B) - Cardinality({})
  BY <1>1, FS_Union
<1>4. Cardinality(A) \in Nat /\ Cardinality(B) \in Nat /\ Cardinality(Writers) \in Nat
  BY <1>1, RingAssumption, FS_CardinalityType
<1> QED BY <1>2, <1>3, <1>4, FS_EmptySet, RingAssumption

(* The terms of the invariant are numbers.                                 *)
LEMMA Numbers ==
  ASSUME TypeOK
  PROVE  /\ Waiting \in SUBSET Writers /\ Leaving \in SUBSET Writers
         /\ Cardinality(Waiting) \in Nat /\ Cardinality(Leaving) \in Nat
         /\ tokens \in Nat /\ Hand \in Nat /\ Held \in 0..Size /\ Size \in Nat
<1>1. Waiting \in SUBSET Writers /\ Leaving \in SUBSET Writers
  BY DEF Waiting, Leaving
<1>2. Cardinality(Waiting) \in Nat /\ Cardinality(Leaving) \in Nat
  BY <1>1, RingAssumption, FS_Subset, FS_CardinalityType
<1> QED BY <1>1, <1>2, HeldIs, Positive DEF TypeOK, Hand

(* A call of Write keeps the second invariant: one that begins, ...        *)
LEMMA CallKeeps ==
  ASSUME IInv, LInv, NEW w \in Writers, WriteCall(w)
  PROVE  LInv'
<1>1. UNCHANGED <<tokens, Hand, Held>>
  BY DEF WriteCall, Hand, Held, ringVars, chanVars, consVars
<1>2. /\ termination' = termination /\ wpc[w] = "idle"
      /\ wpc' = [wpc EXCEPT ![w] = IF termination = "nil" THEN "put" ELSE "stopped"]
  BY DEF WriteCall, endVars
<1>3. InTime'
  BY <1>2 DEF LInv, InTime, IInv, TypeOK
<1>4. /\ Waiting' = Waiting /\ w \notin Leaving
      /\ Leaving' = Leaving \/ Leaving' = Leaving \cup {w}
  BY <1>2 DEF Waiting, Leaving, IInv, TypeOK
<1>5. Cardinality(Leaving') \in {Cardinality(Leaving), Cardinality(Leaving) + 1}
  BY <1>4, Numbers, OneMore DEF IInv
<1> QED BY <1>1, <1>3, <1>4, <1>5, Numbers DEF LInv, Enough, Covered, IInv

(* ... one that finds the ring full, ...                                   *)
LEMMA WaitKeeps ==
  ASSUME IInv, LInv, NEW w \in Writers, WriteWait(w)
  PROVE  LInv'
<1>1. UNCHANGED <<tokens, Hand, Held>>
  BY DEF WriteWait, Hand, Held, ringVars, chanVars, consVars
<1>2. /\ termination' = termination /\ wpc[w] = "put" /\ ring[tail] # Empty
      /\ wpc' = [wpc EXCEPT ![w] = "waiting"]
  BY DEF WriteWait, endVars
<1>3. InTime'
  BY <1>2 DEF LInv, InTime, IInv, TypeOK
<1>4. /\ Waiting' = Waiting \cup {w} /\ Waiting' \cap Leaving = {}
      /\ Leaving' = Leaving /\ Waiting' \in SUBSET Writers
  BY <1>2 DEF Waiting, Leaving, IInv, TypeOK
<1>5. Held = Size
  <2>1. tail \in Slots /\ head \in Slots /\ ring[head] # Empty /\ Within(tail)
    BY <1>2 DEF IInv, Region, TypeOK
  <2> QED BY <2>1, Positive DEF Within, Held, Slots
<1>6. Cardinality(Waiting') + Cardinality(Leaving) <= Size
  BY <1>4, Numbers, Apart DEF IInv
<1>7. Cardinality(Waiting') \in Nat
  BY <1>4, OneMore
<1>8. Covered'
  BY <1>1, <1>5, <1>6, <1>7, Numbers DEF LInv, Enough, Covered, IInv
<1> QED BY <1>1, <1>3, <1>4, <1>8 DEF LInv, Enough

(* ... that puts its packet, ...                                           *)
LEMMA PutKeeps ==
  ASSUME IInv, LInv, NEW w \in Writers, WritePut(w)
  PROVE  LInv'
<1>1. UNCHANGED <<tokens, Hand>> /\ Held' = Held + 1
  BY Put DEF WritePut, Hand, chanVars, consVars
<1>2. /\ termination' = termination /\ wpc[w] = "put"
      /\ wpc' = [wpc EXCEPT ![w] = "recheck"]
  BY DEF WritePut, endVars
<1>3. InTime'
  BY <1>2 DEF LInv, InTime, IInv, TypeOK
<1>4. Waiting' = Waiting /\ Leaving' = Leaving \cup {w} /\ w \notin Leaving
  BY <1>2 DEF Waiting, Leaving, IInv, TypeOK
<1>5. Cardinality(Leaving') = Cardinality(Leaving) + 1
  BY <1>4, Numbers, OneMore DEF IInv
<1> QED BY <1>1, <1>3, <1>4, <1>5, Numbers DEF LInv, Enough, Covered, IInv

(* ... that looks at termination, ...                                      *)
LEMMA RecheckKeeps ==
  ASSUME IInv, LInv, NEW w \in Writers, WriteRecheck(w)
  PROVE  LInv'
<1>1. UNCHANGED <<tokens, Hand, Held>>
  BY DEF WriteRecheck, Hand, Held, ringVars, chanVars, consVars
<1>2. /\ termination' = termination /\ wpc[w] = "recheck"
      /\ wpc' = [wpc EXCEPT ![w] = IF termination = "nil" THEN "notify" ELSE "stopped"]
  BY DEF WriteRecheck, endVars
<1>3. InTime'
  BY <1>2 DEF LInv, InTime, IInv, TypeOK
<1>4. Waiting' = Waiting /\ Leaving' = Leaving
  BY <1>2 DEF Waiting, Leaving, IInv, TypeOK
<1> QED BY <1>1, <1>3, <1>4 DEF LInv, Enough, Covered

(* ... that notifies, ...                                                  *)
LEMMA NotifyKeeps ==
  ASSUME IInv, LInv, NEW w \in Writers, WriteNotify(w)
  PROVE  LInv'
<1>1. UNCHANGED <<Hand, Held, termination>> /\ wpc[w] = "notify"
  BY DEF WriteNotify, Hand, Held, ringVars, consVars
<1>2. CASE UNCHANGED <<tokens, wpc>>
  BY <1>1, <1>2 DEF LInv, InTime, Enough, Covered, Waiting, Leaving
<1>3. CASE tokens' = tokens + 1 /\ wpc' = [wpc EXCEPT ![w] = "return"]
  <2>1. InTime'
    BY <1>1, <1>3 DEF LInv, InTime, IInv, TypeOK
  <2>2. Waiting' = Waiting /\ Leaving' = Leaving \ {w} /\ w \in Leaving
    BY <1>1, <1>3 DEF Waiting, Leaving, IInv, TypeOK
  <2>3. Cardinality(Leaving') = Cardinality(Leaving) - 1
    BY <2>2, Numbers, OneMore DEF IInv
  <2> QED BY <1>1, <1>3, <2>1, <2>2, <2>3, Numbers DEF LInv, Enough, Covered, IInv
<1> QED BY <1>2, <1>3 DEF WriteNotify

(* ... and that returns.                                                   *)
LEMMA ReturnKeeps ==
  ASSUME IInv, LInv, NEW w \in Writers, WriteReturn(w)
  PROVE  LInv'
<1>1. UNCHANGED <<tokens, Hand, Held>>
  BY DEF WriteReturn, Hand, Held, ringVars, chanVars, consVars
<1>2. /\ termination' = termination /\ wpc[w] = "return"
      /\ wpc' = [wpc EXCEPT ![w] = IF termination = "nil" THEN "idle" ELSE "stopped"]
  BY DEF WriteReturn, endVars
<1>3. InTime'
  BY <1>2 DEF LInv, InTime, IInv, TypeOK
<1>4. /\ Waiting' = Waiting /\ w \notin Leaving
      /\ Leaving' = Leaving \/ Leaving' = Leaving \cup {w}
  BY <1>2 DEF Waiting, Leaving, IInv, TypeOK
<1>5. Cardinality(Leaving') \in {Cardinality(Leaving), Cardinality(Leaving) + 1}
  BY <1>4, Numbers, OneMore DEF IInv
<1> QED BY <1>1, <1>3, <1>4, <1>5, Numbers DEF LInv, Enough, Covered, IInv

(* The consumer frees a slot, and lets one writer go if any waits.         *)
LEMMA TakeKeeps ==
  ASSUME IInv, LInv, Take, kpc \in {"look", "sleep"}
  PROVE  LInv'
<1>1. Held' = Held - 1 /\ tokens' = tokens /\ Hand = 1 /\ Hand' = 0
  BY Taken DEF Take, Hand, chanVars
<1>2. termination' = termination
  BY DEF Take, endVars
<1>3. CASE \E w \in Writers : wpc[w] = "waiting" /\ wpc' = [wpc EXCEPT ![w] = "put"]
  <2>1. PICK w \in Writers : wpc[w] = "waiting" /\ wpc' = [wpc EXCEPT ![w] = "put"]
    BY <1>3
  <2>2. InTime'
    BY <1>2, <2>1 DEF LInv, InTime, IInv, TypeOK
  <2>3. Leaving' = Leaving /\ Waiting' = Waiting \ {w} /\ w \in Waiting
    BY <2>1 DEF Waiting, Leaving, IInv, TypeOK
  <2>4. Cardinality(Waiting') = Cardinality(Waiting) - 1
    BY <2>3, Numbers, OneMore DEF IInv
  <2> QED BY <1>1, <2>2, <2>3, <2>4, Numbers DEF LInv, Enough, Covered, IInv
<1>4. CASE (\A w \in Writers : wpc[w] # "waiting") /\ wpc' = wpc
  <2>1. InTime' /\ Leaving' = Leaving /\ Waiting' = {}
    BY <1>2, <1>4 DEF LInv, InTime, Leaving, Waiting
  <2> QED BY <1>1, <2>1, FS_EmptySet, Numbers DEF LInv, Enough, Covered, IInv
<1> QED BY <1>3, <1>4 DEF Take, Signal

(* The other steps of the consumer, and those of Close and of time.        *)
LEMMA RestKeeps ==
  ASSUME IInv, LInv,
         \/ Receive \/ Finish \/ Sleep \/ Send \/ SendFails \/ Terminate
         \/ Closer \/ Tick \/ UNCHANGED vars
  PROVE  LInv'
<1>1. /\ wpc' = wpc /\ Held' = Held
      /\ termination # "nil" => termination' # "nil"
  BY DEF Receive, Finish, Sleep, Send, SendFails, Terminate, Closer, CloseMark, CloseChan,
     CloseUpstream, Tick, Held, vars, ringVars, callVars, endVars
<1>2. tokens' + Hand' = tokens + Hand
  BY Numbers DEF Receive, Finish, Sleep, Send, SendFails, Terminate, Closer, CloseMark,
     CloseChan, CloseUpstream, Tick, Hand, vars, chanVars, consVars, IInv
<1>3. InTime' /\ Leaving' = Leaving /\ Waiting' = Waiting
  BY <1>1 DEF LInv, InTime, Leaving, Waiting
<1> QED BY <1>1, <1>2, <1>3 DEF LInv, Enough, Covered

(* The second invariant holds throughout.                                  *)
THEOREM Supply == Spec => []LInv
<1>1. Init => LInv
  <2> SUFFICES ASSUME Init PROVE LInv
    OBVIOUS
  <2>1. Waiting = {} /\ Leaving = {} /\ InTime
    BY DEF Init, Waiting, Leaving, InTime
  <2>2. Held = 0 /\ Hand = 0 /\ tokens = 0
    BY Positive DEF Init, Held, Hand, Slots
  <2> QED BY <2>1, <2>2, FS_EmptySet DEF LInv, Enough, Covered
<1>2. IInv /\ LInv /\ [Next]_vars => LInv'
  <2> SUFFICES ASSUME IInv, LInv, [Next]_vars PROVE LInv'
    OBVIOUS
  <2>1. CASE \E w \in Writers : WriteCall(w) \/ WriteOn(w)
    BY <2>1, CallKeeps, WaitKeeps, PutKeeps, RecheckKeeps, NotifyKeeps, ReturnKeeps
       DEF WriteOn
  <2>2. CASE TakeNow \/ TakeLater
    BY <2>2, TakeKeeps DEF TakeNow, TakeLater
  <2> QED BY <2>1, <2>2, RestKeeps DEF Next, Consumer
<1> QED BY Invariant, <1>1, <1>2, PTL DEF Spec

(* In service, each packet owed to the upstream has a notification or the  *)
(* attention of the consumer (delay.go:58-86, :114-129).                   *)
THEOREM Notified == Spec => []PacketsNotified
<1>1. ASSUME IInv, LInv PROVE PacketsNotified
  <2> SUFFICES ASSUME termination = "nil", ~broken
               PROVE  Len(accepted) - Len(delivered)
                        = tokens + Cardinality(Owing)
                            + (IF kpc \in {"look", "sleep", "write"} THEN 1 ELSE 0)
    BY DEF PacketsNotified, Owing
  <2>1. Leaving = Owing
    BY <1>1 DEF LInv, InTime, Leaving, Owing
  <2>2. Held = tokens + Cardinality(Owing) + Hand
    BY <1>1, <2>1, Numbers DEF LInv, Enough, IInv, Counted
  <2>3. Len(accepted) = Len(delivered) + InHand + Held
    BY <1>1 DEF IInv, Order
  <2>4. Len(accepted) \in Nat /\ Len(delivered) \in Nat
    BY <1>1 DEF IInv, TypeOK
  <2> DEFINE Attention == IF kpc \in {"look", "sleep", "write"} THEN 1 ELSE 0
  <2>5. InHand + Hand = Attention /\ InHand \in Nat
    BY DEF InHand, Hand
  <2> HIDE DEF Attention
  <2>6. Held \in Nat /\ tokens \in Nat /\ Hand \in Nat /\ Cardinality(Owing) \in Nat
    BY <1>1, Numbers, Finite DEF IInv
  <2>7. Len(accepted) - Len(delivered) = tokens + Cardinality(Owing) + Attention
    BY <2>2, <2>3, <2>4, <2>5, <2>6
  <2> QED BY <2>7 DEF Attention
<1> QED BY Invariant, Supply, <1>1, PTL

(* For each writer that waits there is a notification to come              *)
(* (delay.go:76, :116, :126).                                              *)
THEOREM Relief == Spec => []WaitersCovered
<1>1. LInv => WaitersCovered
  BY DEF LInv, Covered, WaitersCovered, Waiting, Hand
<1> QED BY Supply, <1>1, PTL
=============================================================================
