--------------------------- MODULE KeystrokesProofs ---------------------------
(***************************************************************************)
(* An Asynk in front of a RingDelayer is one stream of bytes, for every    *)
(* capacity and every size of the ring.                                    *)
(***************************************************************************)
EXTENDS Keystrokes, TLAPS

Sizes == Capacity \in Nat /\ Slots \in Nat

(* Where packet i ends; before the first packet is the beginning.          *)
Cut(i) == IF i = 0 THEN 0 ELSE cuts[i]

Types ==
  /\ typed \in Seq(Byte) /\ handed \in Seq(Byte)
  /\ cuts \in Seq(Nat) /\ passed \in Seq(Nat)

InOrder ==
  /\ Len(passed) <= Len(cuts)
  /\ \A i \in 1..Len(passed) : passed[i] = cuts[i]

(* Packets follow one another, and none is larger than the Asynk.          *)
Apart ==
  \A i, j \in 0..Len(cuts) :
    i <= j => Cut(i) <= Cut(j) /\ Cut(j) <= Cut(i) + (j - i) * Capacity

(* Nothing is put that was not typed, and nothing is handed over that was  *)
(* not put.                                                                *)
Within == Len(handed) <= Cut(Len(cuts)) /\ Cut(Len(cuts)) <= Len(typed)

Rooms == Len(typed) - Len(handed) <= Capacity /\ Len(cuts) - Len(passed) <= Slots

IInv == Types /\ InOrder /\ Apart /\ Within /\ Rooms

-----------------------------------------------------------------------------
(* Multiples of a capacity.                                                *)
LEMMA Multiples ==
  ASSUME NEW a \in Nat, NEW b \in Nat, NEW c \in Nat
  PROVE  /\ a * c \in Nat
         /\ a <= b => a * c <= b * c
         /\ (a + 1) * c = a * c + c
<1>1. a * c \in Nat /\ (a + 1) * c = a * c + c
  OBVIOUS
<1>2. ASSUME a <= b PROVE a * c <= b * c
  <2>1. b - a \in Nat /\ (b - a) * c >= 0 /\ (b - a) * c = b * c - a * c
    BY <1>2
  <2> QED BY <1>1, <2>1
<1> QED BY <1>1, <1>2

(* Beginnings of a sequence.                                               *)
LEMMA Beginning ==
  ASSUME NEW S, NEW s \in Seq(S), NEW k \in 0..Len(s)
  PROVE  /\ SubSeq(s, 1, k) \in Seq(S) /\ Len(SubSeq(s, 1, k)) = k
         /\ \A i \in 1..k : SubSeq(s, 1, k)[i] = s[i]
OBVIOUS

(* Where packets end.                                                      *)
LEMMA Ends ==
  ASSUME IInv
  PROVE  /\ End(cuts) = Cut(Len(cuts)) /\ End(passed) = Cut(Len(passed))
         /\ \A i \in 0..Len(cuts) : Cut(i) \in 0..Len(typed)
         /\ Len(typed) \in Nat /\ Len(handed) \in Nat
         /\ Len(cuts) \in Nat /\ Len(passed) \in 0..Len(cuts)
<1>1. /\ Len(typed) \in Nat /\ Len(handed) \in Nat
      /\ Len(cuts) \in Nat /\ Len(passed) \in 0..Len(cuts)
  BY DEF IInv, Types, InOrder
<1>2. ASSUME NEW i \in 0..Len(cuts) PROVE Cut(i) \in Nat
  BY <1>2 DEF Cut, IInv, Types
<1>3. ASSUME NEW i \in 0..Len(cuts) PROVE Cut(i) \in 0..Len(typed)
  <2>1. Cut(i) <= Cut(Len(cuts)) /\ Cut(Len(cuts)) <= Len(typed)
    BY <1>1, <1>3 DEF IInv, Apart, Within
  <2> QED BY <1>1, <1>2, <1>3, <2>1
<1>4. End(cuts) = Cut(Len(cuts)) /\ End(passed) = Cut(Len(passed))
  BY <1>1 DEF IInv, Types, InOrder, End, Cut
<1> QED BY <1>1, <1>3, <1>4

LEMMA InitIInv == ASSUME Sizes, Init PROVE IInv
<1>1. typed = <<>> /\ handed = <<>> /\ cuts = <<>> /\ passed = <<>>
  BY DEF Init, Buffer!Init, Ring!Init
<1>2. Types /\ InOrder /\ Within /\ Rooms
  BY <1>1 DEF Sizes, Types, InOrder, Within, Rooms, Cut
<1>3. Apart
  BY <1>1 DEF Sizes, Apart, Cut
<1> QED BY <1>2, <1>3 DEF IInv

(* More is typed.                                                          *)
LEMMA TypeKeeps == ASSUME Sizes, IInv, Type PROVE IInv'
<1>1. /\ typed' \in Seq(Byte) /\ Len(typed') > Len(typed)
      /\ Len(typed') - Len(handed) <= Capacity
      /\ UNCHANGED <<handed, cuts, passed>>
  BY DEF Type, Buffer!Accept
<1>2. \A i : Cut(i)' = Cut(i)
  BY <1>1 DEF Cut
<1>3. Types' /\ InOrder' /\ Rooms'
  BY <1>1 DEF IInv, Types, InOrder, Rooms
<1>4. Apart'
  BY <1>1, <1>2 DEF IInv, Apart
<1>5. Within'
  <2>1. Len(typed') \in Nat
    BY <1>1
  <2> QED BY <1>1, <1>2, <2>1, Ends DEF IInv, Within
<1> QED BY <1>3, <1>4, <1>5 DEF IInv

(* A packet more: it begins where the one before ended.                    *)
LEMMA AppendKeeps ==
  ASSUME Sizes, IInv, NEW k \in End(cuts) .. Len(typed), k <= End(cuts) + Capacity,
         cuts' = Append(cuts, k), Ring!Accept, UNCHANGED <<typed, handed>>
  PROVE  IInv'
<1>0. PICK n \in Nat : n = Len(cuts)
  BY Ends
<1>1. k \in Cut(n) .. Len(typed) /\ k <= Cut(n) + Capacity
  BY <1>0, Ends
<1>2. /\ n \in Nat /\ k \in Nat /\ Len(cuts') = n + 1 /\ Cut(n) \in Nat
      /\ UNCHANGED <<typed, handed, passed>> /\ Len(cuts') - Len(passed) <= Slots
  BY <1>0, <1>1, Ends DEF Ring!Accept, IInv, Types
<1>3. Cut(n + 1)' = k /\ \A i \in 0..n : Cut(i)' = Cut(i)
  BY <1>0, <1>1, <1>2 DEF Cut, IInv, Types
<1>4. Types' /\ InOrder' /\ Rooms'
  <2>1. Types'
    BY <1>1, <1>2 DEF IInv, Types
  <2>2. InOrder'
    <3>1. Len(passed) \in 0..n /\ \A i \in 1..n : cuts'[i] = cuts[i]
      BY <1>0, <1>2, Ends DEF IInv, Types
    <3> QED BY <1>0, <1>2, <3>1 DEF IInv, InOrder
  <2> QED BY <1>2, <2>1, <2>2 DEF IInv, Rooms
<1>5. Within'
  BY <1>0, <1>1, <1>2, <1>3, Ends DEF IInv, Within
<1>6. Apart'
  <2> SUFFICES ASSUME NEW i \in 0..n + 1, NEW j \in 0..n + 1, i <= j
               PROVE  Cut(i)' <= Cut(j)' /\ Cut(j)' <= Cut(i)' + (j - i) * Capacity
    BY <1>2 DEF Apart
  <2>1. CASE j <= n
    <3>1. Cut(i) <= Cut(j) /\ Cut(j) <= Cut(i) + (j - i) * Capacity
      BY <1>0, <2>1 DEF IInv, Apart
    <3>2. Cut(i)' = Cut(i) /\ Cut(j)' = Cut(j)
      BY <1>3, <2>1
    <3> QED BY <3>1, <3>2
  <2>2. CASE i = n + 1
    <3>1. j = i /\ (j - i) * Capacity = 0
      BY <1>2, <2>2, Multiples DEF Sizes
    <3>2. k \in Nat /\ Cut(i)' = k /\ Cut(j)' = k
      BY <1>2, <1>3, <2>2, <3>1
    <3> QED BY <3>1, <3>2
  <2>3. CASE i <= n /\ j = n + 1
    <3>1. Cut(i) <= Cut(n) /\ Cut(n) <= Cut(i) + (n - i) * Capacity
      BY <1>0, <1>2, <2>3 DEF IInv, Apart
    <3>2. k <= Cut(n) + Capacity
      BY <1>1
    <3>3. n - i \in Nat /\ (j - i) = (n - i) + 1
      BY <1>2, <2>3
    <3>4. PICK x \in Nat : x = (n - i) * Capacity /\ (j - i) * Capacity = x + Capacity
      BY <3>3, Multiples DEF Sizes
    <3>5. Cut(i) \in Nat /\ Cut(n) \in Nat /\ Cut(n) <= k
      BY <1>0, <1>1, <1>2, <2>3, Ends
    <3>6. Cut(i)' = Cut(i) /\ Cut(j)' = k
      BY <1>2, <1>3, <2>3
    <3>7. Cut(i) <= k /\ k <= Cut(i) + (x + Capacity)
      BY <1>2, <3>1, <3>2, <3>4, <3>5 DEF Sizes
    <3> QED BY <3>4, <3>6, <3>7
  <2> QED BY <1>2, <2>1, <2>2, <2>3
<1> QED BY <1>4, <1>5, <1>6 DEF IInv

(* The sink puts what the Asynk holds.                                     *)
LEMMA PutKeeps == ASSUME Sizes, IInv, Put PROVE IInv'
<1>1. PICK k \in Len(handed) .. Len(typed) : cuts' = Append(cuts, k)
  BY DEF Put
<1>2. /\ End(cuts) = Len(handed) /\ Ring!Accept /\ UNCHANGED <<typed, handed>>
      /\ k <= End(cuts) + Capacity
  BY <1>1, Ends DEF Put, IInv, Rooms, Sizes
<1> QED BY <1>1, <1>2, AppendKeeps

(* A report has nothing that was typed.                                    *)
LEMMA ReportKeeps == ASSUME Sizes, IInv, Report PROVE IInv'
<1>1. End(cuts) \in End(cuts) .. Len(typed) /\ End(cuts) <= End(cuts) + Capacity
  BY Ends DEF Sizes
<1> QED BY <1>1, AppendKeeps DEF Report

(* The call returns: everything put is handed over.                        *)
LEMMA ReturnKeeps == ASSUME Sizes, IInv, Return PROVE IInv'
<1>1. handed' = SubSeq(typed, 1, Cut(Len(cuts))) /\ UNCHANGED <<typed, cuts, passed>>
  BY Ends DEF Return, Buffer!Deliver
<1>2. handed' \in Seq(Byte) /\ Len(handed') = Cut(Len(cuts))
  <2>1. Cut(Len(cuts)) \in 0..Len(typed) /\ typed \in Seq(Byte)
    BY Ends DEF IInv, Types
  <2> QED BY <1>1, <2>1, Beginning
<1>3. \A i : Cut(i)' = Cut(i)
  BY <1>1 DEF Cut
<1>4. Types' /\ InOrder' /\ Apart'
  BY <1>1, <1>2, <1>3 DEF IInv, Types, InOrder, Apart
<1>5. Within' /\ Rooms'
  BY <1>1, <1>2, <1>3, Ends DEF IInv, Within, Rooms, Sizes
<1> QED BY <1>4, <1>5 DEF IInv

(* Packets are written to the channel.                                     *)
LEMMA PassKeeps ==
  ASSUME Sizes, IInv, Pass
  PROVE  /\ IInv' /\ UNCHANGED <<typed, handed, cuts>>
         /\ Len(passed') \in Len(passed) + 1 .. Len(cuts)
<1>1. PICK k \in Len(passed) + 1 .. Len(cuts) : passed' = SubSeq(cuts, 1, k)
  BY DEF Pass, Ring!Deliver
<1>2. UNCHANGED <<typed, handed, cuts>>
  BY DEF Pass, Ring!Deliver
<1>3. /\ passed' \in Seq(Nat) /\ Len(passed') = k
      /\ \A i \in 1..k : passed'[i] = cuts[i]
  <2>1. k \in 0..Len(cuts) /\ cuts \in Seq(Nat)
    BY <1>1, Ends DEF IInv, Types
  <2> QED BY <1>1, <2>1, Beginning
<1>4. \A i : Cut(i)' = Cut(i)
  BY <1>2 DEF Cut
<1>5. Types' /\ InOrder' /\ Apart' /\ Within'
  BY <1>2, <1>3, <1>4, Ends DEF IInv, Types, InOrder, Apart, Within
<1>6. Rooms'
  BY <1>1, <1>2, <1>3, Ends DEF IInv, Rooms, Sizes
<1> QED BY <1>1, <1>2, <1>3, <1>5, <1>6 DEF IInv

LEMMA NextKeeps == ASSUME Sizes, IInv, [Next]_vars PROVE IInv'
<1>1. CASE UNCHANGED vars
  <2>1. \A i : Cut(i)' = Cut(i)
    BY <1>1 DEF vars, Cut
  <2> QED BY <1>1, <2>1 DEF vars, IInv, Types, InOrder, Apart, Within, Rooms
<1> QED BY <1>1, TypeKeeps, PutKeeps, ReportKeeps, ReturnKeeps, PassKeeps DEF Next

-----------------------------------------------------------------------------
(* What is on its way: the packets of the ring, each of at most a          *)
(* capacity, and what the Asynk holds.                                     *)
LEMMA OnItsWay ==
  ASSUME Sizes, IInv, NEW t \in Nat, t - Len(handed) <= Capacity
  PROVE  t - End(passed) <= Capacity * (Slots + 1)
<1> DEFINE owed == Len(cuts) - Len(passed)
<1>1. Cut(Len(cuts)) <= Cut(Len(passed)) + owed * Capacity
  BY Ends DEF IInv, Apart
<1>2. owed \in Nat /\ owed <= Slots
  BY Ends DEF IInv, Rooms
<1>3. owed * Capacity \in Nat /\ owed * Capacity <= Slots * Capacity
  BY <1>2, Multiples DEF Sizes
<1>4. Capacity * (Slots + 1) = Slots * Capacity + Capacity /\ Slots * Capacity \in Nat
  BY Multiples DEF Sizes
<1>5. /\ Len(handed) <= Cut(Len(cuts)) /\ Cut(Len(cuts)) \in Nat
      /\ Cut(Len(passed)) \in Nat /\ End(passed) = Cut(Len(passed))
  BY Ends DEF IInv, Within
<1>6. Len(handed) \in Nat /\ Capacity \in Nat
  BY Ends DEF Sizes
<1> HIDE DEF owed
<1> QED BY <1>1, <1>3, <1>4, <1>5, <1>6

StreamStep ==
  [Whole!Next]_<<typed, SubSeq(typed, 1, End(passed))>>

(* Typing is accepting, passing a packet is delivering its bytes.          *)
LEMMA Mapped == ASSUME Sizes, IInv, [Next]_vars PROVE StreamStep
<1> DEFINE m == End(passed)
<1>0. m \in 0..Len(typed) /\ typed \in Seq(Byte) /\ Len(SubSeq(typed, 1, m)) = m
  BY Ends, Beginning DEF IInv, Types
<1>1. CASE Type
  <2>1. /\ typed' \in Seq(Byte) /\ Len(typed') > Len(typed)
        /\ SubSeq(typed', 1, Len(typed)) = typed
        /\ Len(typed') - Len(handed) <= Capacity /\ m' = m
    BY <1>1 DEF Type, Buffer!Accept, End
  <2>2. Len(typed') - m <= Capacity * (Slots + 1)
    BY <2>1, OnItsWay
  <2>3. SubSeq(typed', 1, m) = SubSeq(typed, 1, m)
    <3>1. \A i \in 1..Len(typed) : typed'[i] = typed[i]
      <4>1. Len(typed) \in 0..Len(typed')
        BY <1>0, <2>1
      <4> QED BY <2>1, <4>1, Beginning
    <3> QED BY <1>0, <2>1, <3>1
  <2>4. Whole!Accept
    BY <1>0, <2>1, <2>2, <2>3 DEF Whole!Accept
  <2> QED BY <2>4 DEF StreamStep, Whole!Next
<1>2. CASE Put \/ Report \/ Return \/ UNCHANGED vars
  <2>1. typed' = typed /\ passed' = passed
    <3>1. Put => typed' = typed /\ passed' = passed
      BY DEF Put, Ring!Accept
    <3>2. Report => typed' = typed /\ passed' = passed
      BY DEF Report, Ring!Accept
    <3>3. Return => typed' = typed /\ passed' = passed
      BY DEF Return, Buffer!Deliver
    <3> QED BY <1>2, <3>1, <3>2, <3>3 DEF vars
  <2>2. m' = m
    BY <2>1 DEF End
  <2> QED BY <2>1, <2>2 DEF StreamStep
<1>3. CASE Pass
  <2>1. /\ IInv' /\ UNCHANGED <<typed, handed, cuts>>
        /\ Len(passed') \in Len(passed) + 1 .. Len(cuts)
    BY <1>3, PassKeeps
  <2>2. m' = Cut(Len(passed')) /\ m = Cut(Len(passed))
    <3>1. m = Cut(Len(passed))
      BY Ends
    <3>2. /\ passed' \in Seq(Nat) /\ Len(passed') \in Nat /\ Len(passed') # 0
          /\ passed'[Len(passed')] = cuts[Len(passed')]
      BY <2>1, Ends DEF IInv, Types, InOrder
    <3>3. m' = Cut(Len(passed'))
      BY <3>2 DEF End, Cut
    <3> QED BY <3>1, <3>3
  <2>3. m <= m' /\ m' \in 0..Len(typed)
    BY <2>1, <2>2, Ends DEF IInv, Apart
  <2>4. CASE m' = m
    BY <2>1, <2>4 DEF StreamStep
  <2>5. CASE m' # m
    <3>1. m' \in Len(SubSeq(typed, 1, m)) + 1 .. Len(typed)
      BY <1>0, <2>3, <2>5
    <3>2. Whole!Deliver
      BY <2>1, <3>1 DEF Whole!Deliver
    <3> QED BY <3>2 DEF StreamStep, Whole!Next
  <2> QED BY <2>4, <2>5
<1> QED BY <1>1, <1>2, <1>3 DEF Next

(* From the keyboard to the channel (main.go:326-331, termemu.go:274), for *)
(* every capacity and any ring, with the puller's reports between: in      *)
(* order, once, and no more on its way than the two can hold.              *)
THEOREM Composition == ASSUME Sizes PROVE Spec => IsStream
<1>1. Init => Whole!Init
  <2>1. Init => typed = <<>> /\ passed = <<>>
    BY DEF Init, Buffer!Init, Ring!Init
  <2> QED BY <2>1 DEF Whole!Init, End
<1>2. Init => IInv
  BY InitIInv
<1>3. IInv /\ [Next]_vars => IInv'
  BY NextKeeps
<1>4. IInv /\ [Next]_vars => StreamStep
  BY Mapped
<1> QED BY <1>1, <1>2, <1>3, <1>4, PTL DEF Spec, IsStream, Whole!Spec, StreamStep
=============================================================================
