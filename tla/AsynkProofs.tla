------------------------------ MODULE AsynkProofs ------------------------------
(***************************************************************************)
(* For every capacity and every sequence of writes an Asynk implements     *)
(* ByteStream, and upstream never sees its slice change under it.          *)
(***************************************************************************)
EXTENDS Asynk, SequenceTheorems, TLAPS

(* Nothing a call of Write has left exceeds the bound of the model.        *)
CallFits == accepted + rest <= MaxBytes

(* The slice being written, and what is left of the buffer after it.       *)
SliceInside ==
  /\ lastTransmittedIndex <= bufferIndex
  /\ spc \in {"write", "test", "settle"} =>
       lastTransmittedIndex <= nextIndex /\ nextIndex <= bufferIndex
  /\ spc \in {"test", "settle"} => lastTransmittedIndex = nextIndex

(* The sink has stopped, or is about to, at a failed write.                *)
Failed == spc = "done" \/ (spc = "test" /\ upstreamErr = "err")

(* What is owed to the upstream is what the buffer holds, in order; after  *)
(* a failed write some of it is gone.                                      *)
Owed ==
  /\ Len(delivered) <= accepted /\ accepted - Len(delivered) <= bufferIndex
  /\ ~Failed =>
       /\ accepted - Len(delivered) = bufferIndex - lastTransmittedIndex
       /\ \A i \in lastTransmittedIndex..(bufferIndex - 1) :
            buffer[i] = Len(delivered) + 1 + (i - lastTransmittedIndex)

(* The upstream has the first bytes of the stream.                         *)
InOrder == \A i \in 1..Len(delivered) : delivered[i] = i

IInv == TypeOK /\ CallFits /\ SliceInside /\ Owed /\ InOrder

-----------------------------------------------------------------------------
LEMMA Bounds ==
  /\ Capacity \in Nat /\ Capacity > 0
  /\ MaxBytes \in Nat /\ MaxWrite \in Nat /\ MaxWrite > 0
BY SizesAssumption

LEMMA FirstBytesSeq ==
  ASSUME NEW k \in 0..MaxBytes
  PROVE  /\ FirstBytes(k) \in Seq(Bytes) /\ Len(FirstBytes(k)) = k
         /\ \A i \in 1..k : FirstBytes(k)[i] = i
<1>1. FirstBytes(k) \in [1..k -> Bytes]
  BY Bounds DEF FirstBytes, Bytes
<1>2. k \in Nat
  BY Bounds
<1>3. QED
  BY <1>1, <1>2 DEF FirstBytes

LEMMA InitIInv == Init => IInv
<1> SUFFICES ASSUME Init PROVE IInv
  OBVIOUS
<1>1. buffer \in [Slots -> 0..MaxBytes]
  BY Bounds DEF Init
<1>2. delivered \in Seq(Bytes) /\ Len(delivered) = 0
  BY DEF Init
<1>3. /\ bufferIndex \in 0..Capacity /\ lastTransmittedIndex \in 0..Capacity
      /\ nextIndex \in 0..Capacity /\ accepted \in 0..MaxBytes
      /\ asked \in 0..MaxWrite /\ rest \in 0..MaxWrite /\ n \in 0..MaxWrite
  BY Bounds DEF Init
<1>4. TypeOK
  BY <1>1, <1>2, <1>3 DEF Init, TypeOK
<1>5. CallFits /\ SliceInside
  BY Bounds DEF Init, CallFits, SliceInside
<1>6. Owed /\ InOrder
  <2>1. Len(delivered) = 0 /\ accepted = 0 /\ bufferIndex = 0 /\ lastTransmittedIndex = 0
    BY <1>2 DEF Init
  <2>2. \A i \in 0..(0 - 1) : FALSE
    OBVIOUS
  <2>3. QED
    BY <2>1, <2>2 DEF Owed, InOrder
<1>7. QED
  BY <1>4, <1>5, <1>6 DEF IInv

(* What copy puts into the buffer.                                         *)
LEMMA CopyFits ==
  ASSUME IInv, WriteCopy
  PROVE  /\ Fitting \in Nat /\ Fitting <= rest /\ bufferIndex + Fitting <= Capacity
         /\ bufferIndex' = bufferIndex + Fitting
         /\ accepted' = accepted + Fitting /\ accepted' <= MaxBytes
         /\ rest' = rest - Fitting
         /\ \A i \in Slots : buffer'[i] = IF i \in bufferIndex..(bufferIndex + Fitting - 1)
                                            THEN accepted + 1 + (i - bufferIndex)
                                            ELSE buffer[i]
<1>1. /\ bufferIndex \in 0..Capacity /\ rest \in 0..MaxWrite
      /\ accepted \in 0..MaxBytes /\ accepted + rest <= MaxBytes
  BY DEF IInv, TypeOK, CallFits
<1>2. Fitting \in Nat /\ Fitting <= rest /\ bufferIndex + Fitting <= Capacity
  BY <1>1, Bounds DEF Fitting
<1>3. QED
  BY <1>1, <1>2, Bounds DEF WriteCopy

LEMMA CopyStep == IInv /\ WriteCopy => IInv'
<1> SUFFICES ASSUME IInv, WriteCopy PROVE IInv'
  OBVIOUS
<1>1. /\ bufferIndex \in 0..Capacity /\ lastTransmittedIndex \in 0..Capacity
      /\ rest \in 0..MaxWrite /\ accepted \in 0..MaxBytes
      /\ delivered \in Seq(Bytes) /\ Len(delivered) \in Nat
      /\ buffer \in [Slots -> 0..MaxBytes]
  BY DEF IInv, TypeOK
<1>2. UNCHANGED <<lastTransmittedIndex, nextIndex, spc, delivered, asked,
                  writeNotify, upstreamErr, cpc>>
  BY DEF WriteCopy, sinkVars
<1>3. buffer' \in [Slots -> 0..MaxBytes]
  <2>1. \A i \in bufferIndex..(bufferIndex + Fitting - 1) :
          accepted + 1 + (i - bufferIndex) \in 0..MaxBytes
    BY <1>1, CopyFits, Bounds
  <2>2. QED
    BY <1>1, <2>1 DEF WriteCopy
<1>4. TypeOK'
  <2>1. /\ bufferIndex' \in 0..Capacity /\ accepted' \in 0..MaxBytes
        /\ rest' \in 0..MaxWrite /\ n' \in 0..MaxWrite
    BY <1>1, CopyFits, Bounds DEF WriteCopy
  <2>2. wpc' = "notify"
    BY DEF WriteCopy
  <2>3. QED
    BY <1>2, <1>3, <2>1, <2>2 DEF IInv, TypeOK
<1>5. CallFits'
  BY <1>1, CopyFits, Bounds DEF IInv, CallFits
<1>6. SliceInside'
  <2>1. nextIndex \in 0..Capacity
    BY DEF IInv, TypeOK
  <2>2. QED
    BY <1>1, <1>2, <2>1, CopyFits, Bounds DEF IInv, SliceInside
<1>7. Owed'
  <2>1. Failed' <=> Failed
    BY <1>2 DEF Failed
  <2>2. Len(delivered') <= accepted' /\ accepted' - Len(delivered') <= bufferIndex'
    BY <1>1, <1>2, CopyFits, Bounds DEF IInv, Owed
  <2>3. ASSUME ~Failed
        PROVE  /\ accepted' - Len(delivered') = bufferIndex' - lastTransmittedIndex'
               /\ \A i \in lastTransmittedIndex'..(bufferIndex' - 1) :
                    buffer'[i] = Len(delivered') + 1 + (i - lastTransmittedIndex')
    <3>1. accepted - Len(delivered) = bufferIndex - lastTransmittedIndex
      BY <2>3 DEF IInv, Owed
    <3>2. ASSUME NEW i \in lastTransmittedIndex..(bufferIndex + Fitting - 1)
          PROVE  buffer'[i] = Len(delivered) + 1 + (i - lastTransmittedIndex)
      <4>1. i \in Slots
        BY <1>1, CopyFits, Bounds DEF Slots
      <4>2. CASE i < bufferIndex
        <5>1. buffer'[i] = buffer[i]
          BY <1>1, <4>1, <4>2, CopyFits
        <5>2. i \in lastTransmittedIndex..(bufferIndex - 1)
          BY <1>1, <4>2
        <5>3. QED
          BY <2>3, <5>1, <5>2 DEF IInv, Owed
      <4>3. CASE i >= bufferIndex
        <5>1. i \in bufferIndex..(bufferIndex + Fitting - 1)
          BY <1>1, <4>3, CopyFits
        <5>2. buffer'[i] = accepted + 1 + (i - bufferIndex)
          BY <4>1, <5>1, CopyFits
        <5>3. accepted + 1 + (i - bufferIndex)
                = Len(delivered) + 1 + (i - lastTransmittedIndex)
          BY <1>1, <3>1, <5>1
        <5>4. QED
          BY <5>2, <5>3
      <4>4. QED
        BY <1>1, <4>2, <4>3
    <3>3. /\ Fitting \in Nat /\ bufferIndex' = bufferIndex + Fitting
          /\ accepted' = accepted + Fitting
          /\ delivered' = delivered /\ lastTransmittedIndex' = lastTransmittedIndex
      BY <1>2, CopyFits
    <3>4. accepted' - Len(delivered) = bufferIndex' - lastTransmittedIndex
      BY <1>1, <3>1, <3>3
    <3>5. ASSUME NEW i \in lastTransmittedIndex'..(bufferIndex' - 1)
          PROVE  buffer'[i] = Len(delivered') + 1 + (i - lastTransmittedIndex')
      <4>1. i \in lastTransmittedIndex..(bufferIndex + Fitting - 1)
        BY <1>1, <3>3
      <4>2. QED
        BY <3>2, <3>3, <4>1
    <3>6. QED
      BY <3>3, <3>4, <3>5
  <2>4. QED
    BY <2>1, <2>2, <2>3 DEF Owed
<1>8. InOrder'
  BY <1>2 DEF IInv, InOrder
<1>9. QED
  BY <1>4, <1>5, <1>6, <1>7, <1>8 DEF IInv

(* What upstream takes is what comes next in the stream.                   *)
LEMMA SliceNext ==
  ASSUME IInv, spc = "write", NEW k \in 0..(nextIndex - lastTransmittedIndex)
  PROVE  /\ Slice(k) \in Seq(Bytes) /\ Len(Slice(k)) = k
         /\ \A i \in 1..k : Slice(k)[i] = Len(delivered) + i
         /\ Len(delivered) + k <= accepted
<1>1. /\ bufferIndex \in 0..Capacity /\ lastTransmittedIndex \in 0..Capacity
      /\ nextIndex \in 0..Capacity /\ accepted \in 0..MaxBytes
      /\ Len(delivered) \in Nat
  BY DEF IInv, TypeOK
<1>2. lastTransmittedIndex <= nextIndex /\ nextIndex <= bufferIndex /\ k \in Nat
  BY <1>1, Bounds DEF IInv, SliceInside
<1>3. /\ accepted - Len(delivered) = bufferIndex - lastTransmittedIndex
      /\ \A i \in lastTransmittedIndex..(bufferIndex - 1) :
           buffer[i] = Len(delivered) + 1 + (i - lastTransmittedIndex)
  BY DEF IInv, Owed, Failed
<1>4. Len(delivered) + k <= accepted
  BY <1>1, <1>2, <1>3, Bounds
<1>5. ASSUME NEW i \in 1..k
      PROVE  buffer[lastTransmittedIndex + i - 1] = Len(delivered) + i
  <2>1. lastTransmittedIndex + i - 1 \in lastTransmittedIndex..(bufferIndex - 1)
    BY <1>1, <1>2, Bounds
  <2>2. QED
    BY <1>1, <1>3, <2>1, Bounds
<1>6. \A i \in 1..k : Len(delivered) + i \in Bytes
  BY <1>1, <1>2, <1>4, Bounds DEF Bytes
<1>7. Slice(k) \in [1..k -> Bytes] /\ \A i \in 1..k : Slice(k)[i] = Len(delivered) + i
  BY <1>5, <1>6 DEF Slice
<1>8. QED
  BY <1>2, <1>4, <1>7

LEMMA SinkWriteStep ==
  ASSUME IInv, NEW k \in 0..(nextIndex - lastTransmittedIndex), SinkWrite(k)
  PROVE  IInv' /\ Len(delivered') = Len(delivered) + k
<1>1. /\ bufferIndex \in 0..Capacity /\ lastTransmittedIndex \in 0..Capacity
      /\ nextIndex \in 0..Capacity /\ accepted \in 0..MaxBytes
      /\ delivered \in Seq(Bytes) /\ Len(delivered) \in Nat
  BY DEF IInv, TypeOK
<1>2. /\ UNCHANGED <<buffer, bufferIndex, accepted, wpc, asked, rest, n, nextIndex,
                     writeNotify, cpc>>
      /\ spc = "write" /\ spc' = "test" /\ lastTransmittedIndex' = nextIndex
      /\ delivered' = delivered \o Slice(k)
      /\ upstreamErr' \in {"nil", "err"}
      /\ upstreamErr' # "err" => k = nextIndex - lastTransmittedIndex
  BY DEF SinkWrite, bufVars, callVars
<1>3. lastTransmittedIndex <= nextIndex /\ nextIndex <= bufferIndex /\ k \in Nat
  BY <1>1, <1>2, Bounds DEF IInv, SliceInside
<1>4. /\ delivered' \in Seq(Bytes) /\ Len(delivered') = Len(delivered) + k
      /\ Len(delivered) + k <= accepted
  <2>1. /\ Slice(k) \in Seq(Bytes) /\ Len(Slice(k)) = k
        /\ Len(delivered) + k <= accepted
    BY <1>2, SliceNext
  <2>2. QED
    BY <1>1, <1>2, <2>1, ConcatProperties
<1>5. TypeOK'
  BY <1>1, <1>2, <1>4 DEF IInv, TypeOK
<1>6. CallFits'
  BY <1>2 DEF IInv, CallFits
<1>7. SliceInside'
  BY <1>1, <1>2, <1>3 DEF SliceInside
<1>8. Owed'
  <2>1. /\ ~Failed
        /\ accepted - Len(delivered) = bufferIndex - lastTransmittedIndex
    BY <1>2 DEF IInv, Owed, Failed
  <2>2. Len(delivered') <= accepted' /\ accepted' - Len(delivered') <= bufferIndex'
    BY <1>1, <1>2, <1>3, <1>4, <2>1, Bounds
  <2>3. ASSUME ~Failed'
        PROVE  /\ accepted' - Len(delivered') = bufferIndex' - lastTransmittedIndex'
               /\ \A i \in lastTransmittedIndex'..(bufferIndex' - 1) :
                    buffer'[i] = Len(delivered') + 1 + (i - lastTransmittedIndex')
    <3>1. k = nextIndex - lastTransmittedIndex
      BY <1>2, <2>3 DEF Failed
    <3>2. Len(delivered') = Len(delivered) + nextIndex - lastTransmittedIndex
      BY <1>1, <1>4, <3>1
    <3>3. ASSUME NEW i \in nextIndex..(bufferIndex - 1)
          PROVE  buffer[i] = Len(delivered') + 1 + (i - nextIndex)
      <4>1. i \in lastTransmittedIndex..(bufferIndex - 1)
        BY <1>1, <1>3
      <4>2. buffer[i] = Len(delivered) + 1 + (i - lastTransmittedIndex)
        BY <2>1, <4>1 DEF IInv, Owed
      <4>3. QED
        BY <1>1, <3>2, <4>2
    <3>4. accepted - Len(delivered') = bufferIndex - nextIndex
      BY <1>1, <2>1, <3>2
    <3>5. QED
      BY <1>2, <3>3, <3>4
  <2>4. QED
    BY <2>2, <2>3 DEF Owed
<1>9. InOrder'
  <2>0. /\ Slice(k) \in Seq(Bytes) /\ Len(Slice(k)) = k
        /\ \A i \in 1..k : Slice(k)[i] = Len(delivered) + i
    BY <1>2, SliceNext
  <2>1. ASSUME NEW i \in 1..Len(delivered') PROVE delivered'[i] = i
    <3>1. CASE i <= Len(delivered)
      <4>1. delivered[i] = i
        BY <1>1, <3>1 DEF IInv, InOrder
      <4>2. QED
        BY <1>1, <1>2, <1>4, <2>0, <3>1, <4>1, ConcatProperties
    <3>2. CASE i > Len(delivered)
      <4>1. i - Len(delivered) \in 1..k
        BY <1>1, <1>3, <1>4, <3>2
      <4>2. Slice(k)[i - Len(delivered)] = i
        BY <1>1, <2>0, <4>1
      <4>3. delivered'[i] = Slice(k)[i - Len(delivered)]
        BY <1>1, <1>2, <1>3, <1>4, <2>0, <3>2, ConcatProperties
      <4>4. QED
        BY <4>2, <4>3
    <3>3. QED
      BY <1>1, <1>4, <3>1, <3>2
  <2>2. QED
    BY <2>1 DEF InOrder
<1>10. QED
  BY <1>4, <1>5, <1>6, <1>7, <1>8, <1>9 DEF IInv

LEMMA SinkReadStep == IInv /\ SinkRead => IInv'
<1> SUFFICES ASSUME IInv, SinkRead PROVE IInv'
  OBVIOUS
<1>1. /\ UNCHANGED <<buffer, bufferIndex, accepted, wpc, asked, rest, n,
                     lastTransmittedIndex, delivered, writeNotify, upstreamErr, cpc>>
      /\ nextIndex' = bufferIndex /\ spc = "read" /\ spc' = "write"
  BY DEF SinkRead, bufVars, callVars
<1>2. bufferIndex \in 0..Capacity
  BY DEF IInv, TypeOK
<1>3. TypeOK'
  BY <1>1, <1>2 DEF IInv, TypeOK
<1>4. CallFits' /\ InOrder'
  BY <1>1 DEF IInv, CallFits, InOrder
<1>5. SliceInside'
  BY <1>1, <1>2, Bounds DEF IInv, SliceInside
<1>6. Owed'
  BY <1>1 DEF IInv, Owed, Failed
<1>7. QED
  BY <1>3, <1>4, <1>5, <1>6 DEF IInv

LEMMA SinkSettleStep == IInv /\ SinkSettle => IInv'
<1> SUFFICES ASSUME IInv, SinkSettle PROVE IInv'
  OBVIOUS
<1>1. /\ UNCHANGED <<buffer, accepted, nextIndex, delivered, asked, rest, n,
                     writeNotify, upstreamErr, cpc>>
      /\ spc = "settle" /\ spc' = "receive"
      /\ wpc' \in {wpc, "check"}
  BY DEF SinkSettle
<1>2. /\ bufferIndex \in 0..Capacity /\ lastTransmittedIndex \in 0..Capacity
      /\ accepted \in 0..MaxBytes /\ Len(delivered) \in Nat
      /\ lastTransmittedIndex = nextIndex
  BY <1>1 DEF IInv, TypeOK, SliceInside
<1>3. CallFits' /\ InOrder'
  BY <1>1 DEF IInv, CallFits, InOrder
<1>4. CASE bufferIndex # nextIndex
  <2>1. UNCHANGED <<bufferIndex, lastTransmittedIndex>>
    BY <1>4 DEF SinkSettle, Reclaim
  <2>2. TypeOK'
    BY <1>1, <2>1 DEF IInv, TypeOK
  <2>3. SliceInside' /\ Owed'
    BY <1>1, <2>1 DEF IInv, SliceInside, Owed, Failed
  <2>4. QED
    BY <1>3, <2>2, <2>3 DEF IInv
<1>5. CASE bufferIndex = nextIndex
  <2>1. bufferIndex' = 0 /\ lastTransmittedIndex' = 0
    BY <1>5 DEF SinkSettle, Reclaim
  <2>2. 0 \in 0..Capacity
    BY Bounds
  <2>3. TypeOK'
    BY <1>1, <2>1, <2>2 DEF IInv, TypeOK
  <2>4. SliceInside'
    BY <1>1, <2>1 DEF SliceInside
  <2>5. accepted - Len(delivered) = bufferIndex - lastTransmittedIndex
    BY <1>1 DEF IInv, Owed, Failed
  <2>6. Len(delivered) = accepted
    BY <1>2, <1>5, <2>5
  <2>7. Owed'
    <3>1. \A i \in 0..(0 - 1) : FALSE
      OBVIOUS
    <3>2. QED
      BY <1>1, <1>2, <2>1, <2>6, <3>1 DEF Owed
  <2>8. QED
    BY <1>3, <2>3, <2>4, <2>7 DEF IInv
<1>6. QED
  BY <1>4, <1>5

LEMMA CallStep == ASSUME IInv, NEW k \in 1..MaxWrite, WriteCall(k) PROVE IInv'
<1>1. /\ UNCHANGED <<buffer, bufferIndex, accepted, lastTransmittedIndex, nextIndex,
                     spc, delivered, writeNotify, upstreamErr, cpc>>
      /\ asked' = k /\ rest' = k /\ n' = 0 /\ wpc' = "check" /\ accepted + k <= MaxBytes
  BY DEF WriteCall, bufVars, sinkVars
<1>2. k \in 0..MaxWrite /\ 0 \in 0..MaxWrite
  BY Bounds
<1>3. TypeOK'
  BY <1>1, <1>2 DEF IInv, TypeOK
<1>4. CallFits'
  BY <1>1 DEF CallFits
<1>5. SliceInside' /\ Owed' /\ InOrder'
  BY <1>1 DEF IInv, SliceInside, Owed, Failed, InOrder
<1>6. QED
  BY <1>3, <1>4, <1>5 DEF IInv

(* The steps that move neither bytes nor indices.                          *)
LEMMA QuietStep ==
  ASSUME IInv, TypeOK',
         UNCHANGED <<buffer, bufferIndex, accepted, rest, lastTransmittedIndex,
                     nextIndex, delivered>>,
         \/ UNCHANGED <<spc, upstreamErr>>
         \/ spc = spc' /\ spc # "test"
         \/ spc = spc' /\ upstreamErr' # "err" /\ upstreamErr # "err"
         \/ spc = "receive" /\ spc' \in {"read", "done"}
         \/ spc = "test" /\ spc' = "done"
         \/ spc = "test" /\ spc' = "settle" /\ upstreamErr = "nil"
  PROVE  IInv'
<1>1. CallFits' /\ InOrder'
  BY DEF IInv, CallFits, InOrder
<1>2. SliceInside'
  BY DEF IInv, SliceInside
<1>3. ~Failed' => ~Failed
  BY DEF Failed
<1>4. Owed'
  BY <1>3 DEF IInv, Owed
<1>5. QED
  BY <1>1, <1>2, <1>4 DEF IInv

LEMMA IInvStep == IInv /\ [Next]_vars => IInv'
<1> SUFFICES ASSUME IInv, [Next]_vars PROVE IInv'
  OBVIOUS
<1> USE DEF bufVars, sinkVars, callVars
<1>1. CASE CallerDone \/ WriteCheck \/ WriteNotify \/ WriteWait
  <2>1. TypeOK'
    BY <1>1 DEF IInv, TypeOK, CallerDone, WriteCheck, WriteNotify, WriteWait,
                Returned, Blocked
  <2>2. QED
    BY <1>1, <2>1, QuietStep DEF CallerDone, WriteCheck, WriteNotify, WriteWait
<1>2. CASE SinkReceive \/ SinkDone \/ SinkTest
  <2>1. TypeOK'
    BY <1>2 DEF IInv, TypeOK, SinkReceive, SinkDone, SinkTest
  <2>2. QED
    BY <1>2, <2>1, QuietStep DEF SinkReceive, SinkDone, SinkTest
<1>3. CASE CloseMark \/ CloseNotify \/ CloseRelease
  <2>1. TypeOK'
    BY <1>3 DEF IInv, TypeOK, CloseMark, CloseNotify, CloseRelease
  <2>2. QED
    BY <1>3, <2>1, QuietStep DEF CloseMark, CloseNotify, CloseRelease
<1>4. CASE UNCHANGED vars
  <2>1. TypeOK'
    BY <1>4 DEF IInv, TypeOK, vars
  <2>2. QED
    BY <1>4, <2>1, QuietStep DEF vars
<1>5. QED
  BY <1>1, <1>2, <1>3, <1>4, CopyStep, SinkWriteStep, SinkReadStep, SinkSettleStep,
     CallStep
  DEF Next, Caller, Sink, Closer

-----------------------------------------------------------------------------
(* The inductive invariant holds in every reachable state.                 *)
THEOREM Inductive == Spec => []IInv
BY InitIInv, IInvStep, PTL DEF Spec

(* Every variable keeps its type (asynk.go:36-58).                         *)
THEOREM Types == Spec => []TypeOK
<1>1. IInv => TypeOK
  BY DEF IInv
<1>2. QED
  BY <1>1, Inductive, PTL

(* The slice upstream.Write works on is not written to (asynk.go:61, :98). *)
THEOREM Stable == Spec => SliceStable
<1>1. ASSUME IInv, [Next]_vars
      PROVE  [spc = "write" => \A i \in lastTransmittedIndex..(nextIndex - 1) :
                                 buffer'[i] = buffer[i]]_vars
  <2>1. CASE WriteCopy
    <3>1. /\ bufferIndex \in 0..Capacity /\ lastTransmittedIndex \in 0..Capacity
          /\ nextIndex \in 0..Capacity
      BY <1>1 DEF IInv, TypeOK
    <3>2. SUFFICES ASSUME spc = "write", NEW i \in lastTransmittedIndex..(nextIndex - 1)
                   PROVE  buffer'[i] = buffer[i]
      OBVIOUS
    <3>3. nextIndex <= bufferIndex
      BY <1>1, <3>2 DEF IInv, SliceInside
    <3>4. i \in Slots /\ i < bufferIndex
      BY <3>1, <3>2, <3>3, Bounds DEF Slots
    <3>5. QED
      BY <1>1, <2>1, <3>1, <3>4, CopyFits
  <2>2. ~WriteCopy => UNCHANGED buffer
    BY <1>1 DEF Next, Caller, WriteCall, CallerDone, WriteCheck, WriteNotify, WriteWait,
                Sink, SinkReceive, SinkDone, SinkRead, SinkWrite, SinkTest, SinkSettle,
                Closer, CloseMark, CloseNotify, CloseRelease, bufVars, vars
  <2>3. QED
    BY <2>1, <2>2
<1>2. QED
  BY <1>1, Inductive, PTL DEF Spec, SliceStable

-----------------------------------------------------------------------------
(* Copying is accepting.                                                   *)
LEMMA CopyAccepts ==
  ASSUME IInv, IInv', WriteCopy
  PROVE  Stream!Accept \/ UNCHANGED <<FirstBytes(accepted), delivered>>
<1>1. /\ accepted \in 0..MaxBytes /\ accepted' \in 0..MaxBytes
      /\ accepted' = accepted + Fitting /\ Fitting \in Nat
      /\ bufferIndex' \in 0..Capacity /\ delivered \in Seq(Bytes)
      /\ delivered' = delivered
  <2>1. delivered' = delivered
    BY DEF WriteCopy, sinkVars
  <2>2. QED
    BY <2>1, CopyFits DEF IInv, TypeOK
<1>2. CASE Fitting = 0
  BY <1>1, <1>2
<1>3. CASE Fitting > 0
  <2>1. /\ FirstBytes(accepted) \in Seq(Bytes) /\ Len(FirstBytes(accepted)) = accepted
        /\ \A i \in 1..accepted : FirstBytes(accepted)[i] = i
    BY <1>1, FirstBytesSeq
  <2>2. /\ FirstBytes(accepted') \in Seq(Bytes) /\ Len(FirstBytes(accepted')) = accepted'
        /\ \A i \in 1..accepted' : FirstBytes(accepted')[i] = i
    BY <1>1, FirstBytesSeq
  <2>3. accepted' > accepted /\ accepted \in Nat /\ accepted' \in Nat
    BY <1>1, <1>3, Bounds
  <2>4. accepted' - Len(delivered) <= Capacity
    <3>1. accepted' - Len(delivered) <= bufferIndex'
      BY <1>1 DEF IInv, Owed
    <3>2. QED
      BY <1>1, <2>3, <3>1, Bounds
  <2>5. SubSeq(FirstBytes(accepted'), 1, accepted) = FirstBytes(accepted)
    <3>1. \A i \in 1..accepted : FirstBytes(accepted')[i] \in Bytes
      BY <1>1, <2>2, <2>3, Bounds DEF Bytes
    <3>2. /\ SubSeq(FirstBytes(accepted'), 1, accepted) \in Seq(Bytes)
          /\ Len(SubSeq(FirstBytes(accepted'), 1, accepted)) = accepted
          /\ \A i \in 1..accepted :
               SubSeq(FirstBytes(accepted'), 1, accepted)[i] = FirstBytes(accepted')[i]
      BY <2>2, <2>3, <3>1, SubSeqProperties
    <3>3. QED
      BY <2>1, <2>2, <2>3, <3>2, SeqEqual
  <2>6. QED
    BY <1>1, <2>1, <2>2, <2>3, <2>4, <2>5 DEF Stream!Accept
<1>4. QED
  BY <1>1, <1>2, <1>3

(* A write to the upstream is a delivery.                                  *)
LEMMA SinkWriteDelivers ==
  ASSUME IInv, IInv', NEW k \in 0..(nextIndex - lastTransmittedIndex), SinkWrite(k)
  PROVE  Stream!Deliver \/ UNCHANGED <<FirstBytes(accepted), delivered>>
<1>1. /\ accepted \in 0..MaxBytes /\ accepted' = accepted /\ accepted \in Nat
      /\ delivered \in Seq(Bytes) /\ delivered' \in Seq(Bytes)
      /\ Len(delivered) \in Nat /\ Len(delivered') \in Nat
      /\ Len(delivered') <= accepted
  BY Bounds DEF IInv, TypeOK, Owed, SinkWrite, bufVars
<1>2. Len(delivered') = Len(delivered) + k /\ k \in Nat
  BY SinkWriteStep
<1>3. /\ FirstBytes(accepted) \in Seq(Bytes) /\ Len(FirstBytes(accepted)) = accepted
      /\ \A i \in 1..accepted : FirstBytes(accepted)[i] = i
  BY <1>1, FirstBytesSeq
<1>4. delivered' = SubSeq(FirstBytes(accepted), 1, Len(delivered'))
  <2>1. \A i \in 1..Len(delivered') : FirstBytes(accepted)[i] \in Bytes
    BY <1>1, <1>3, Bounds DEF Bytes
  <2>2. /\ SubSeq(FirstBytes(accepted), 1, Len(delivered')) \in Seq(Bytes)
        /\ Len(SubSeq(FirstBytes(accepted), 1, Len(delivered'))) = Len(delivered')
        /\ \A i \in 1..Len(delivered') :
             SubSeq(FirstBytes(accepted), 1, Len(delivered'))[i] = FirstBytes(accepted)[i]
    BY <1>1, <1>3, <2>1, SubSeqProperties
  <2>3. \A i \in 1..Len(delivered') : delivered'[i] = i
    BY DEF IInv, InOrder
  <2>4. QED
    BY <1>1, <1>3, <2>2, <2>3, SeqEqual
<1>5. CASE k = 0
  <2>1. Slice(k) = <<>>
    BY <1>5 DEF Slice
  <2>2. delivered' = delivered
    BY <1>1, <2>1 DEF SinkWrite
  <2>3. QED
    BY <1>1, <2>2
<1>6. CASE k > 0
  <2>1. Len(delivered') \in Len(delivered) + 1 .. Len(FirstBytes(accepted))
    BY <1>1, <1>2, <1>3, <1>6
  <2>2. QED
    BY <1>1, <1>4, <2>1 DEF Stream!Deliver
<1>7. QED
  BY <1>2, <1>5, <1>6

(* An Asynk implements ByteStream: everything accepted is handed to the    *)
(* upstream in order and once, and no more than its capacity is owed       *)
(* (asynk.go:56-76, :97-100).                                              *)
THEOREM Refinement == Spec => IsStream
<1>1. Init => Stream!Init
  BY DEF Init, Stream!Init, FirstBytes
<1>2. ASSUME IInv, IInv', [Next]_vars
      PROVE  [Stream!Next]_<<FirstBytes(accepted), delivered>>
  <2>1. CASE WriteCopy
    BY <1>2, <2>1, CopyAccepts DEF Stream!Next
  <2>2. ASSUME NEW k \in 0..(nextIndex - lastTransmittedIndex), SinkWrite(k)
        PROVE  [Stream!Next]_<<FirstBytes(accepted), delivered>>
    BY <1>2, <2>2, SinkWriteDelivers DEF Stream!Next
  <2>3. CASE UNCHANGED <<accepted, delivered>>
    BY <2>3
  <2>4. QED
    <3> USE DEF bufVars, sinkVars, callVars
    <3>1. CASE Caller
      BY <2>1, <2>3, <3>1 DEF Caller, WriteCall, CallerDone, WriteCheck, WriteNotify,
                              WriteWait
    <3>2. CASE Sink
      BY <2>2, <2>3, <3>2 DEF Sink, SinkReceive, SinkDone, SinkRead, SinkTest, SinkSettle
    <3>3. CASE Closer \/ UNCHANGED vars
      BY <2>3, <3>3 DEF Closer, CloseMark, CloseNotify, CloseRelease, vars
    <3>4. QED
      BY <1>2, <3>1, <3>2, <3>3 DEF Next
<1>3. QED
  BY <1>1, <1>2, Inductive, PTL DEF Spec, IsStream, Stream!Spec

-----------------------------------------------------------------------------
(* Bytes in the buffer are never left without a notification under way     *)
(* (asynk.go:53, :66-75, :102-125).                                        *)
THEOREM Accounted == Spec => []NotStranded
<1>1. Init => NotStranded
  BY DEF Init, NotStranded
<1>2. NotStranded /\ [Next]_vars => NotStranded'
  <2> SUFFICES ASSUME NotStranded, [Next]_vars PROVE NotStranded'
    OBVIOUS
  <2> USE DEF NotStranded, bufVars, sinkVars, callVars
  <2>1. CASE Caller
    BY <2>1 DEF Caller, WriteCall, CallerDone, WriteCheck, WriteCopy, WriteNotify, WriteWait
  <2>2. CASE SinkSettle
    <3>1. spc = "settle" /\ spc' = "receive" /\ UNCHANGED writeNotify
          /\ (wpc = "notify" => wpc' = "notify")
      BY <2>2 DEF SinkSettle
    <3>2. CASE bufferIndex = nextIndex
      BY <2>2, <3>1, <3>2 DEF SinkSettle, Reclaim
    <3>3. CASE bufferIndex # nextIndex
      BY <3>1, <3>3
    <3>4. QED
      BY <3>2, <3>3
  <2>3. CASE SinkReceive \/ SinkDone \/ SinkRead \/ SinkTest
    BY <2>3 DEF SinkReceive, SinkDone, SinkRead, SinkTest
  <2>4. ASSUME NEW k \in 0..(nextIndex - lastTransmittedIndex), SinkWrite(k)
        PROVE  NotStranded'
    BY <2>4 DEF SinkWrite
  <2>5. CASE Closer \/ UNCHANGED vars
    BY <2>5 DEF Closer, CloseMark, CloseNotify, CloseRelease, vars
  <2>6. QED
    BY <2>1, <2>2, <2>3, <2>4, <2>5 DEF Next, Sink
<1>3. QED
  BY <1>1, <1>2, PTL DEF Spec
=============================================================================
