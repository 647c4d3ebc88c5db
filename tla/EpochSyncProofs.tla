----------------------------- MODULE EpochSyncProofs -----------------------------
(***************************************************************************)
(* Proofs about EpochSync, for any number of writes.                       *)
(*                                                                         *)
(* The argument: while the channel lasts only one callback waits for a     *)
(* reply, so the reply that wakes it is that of its own ping (Asked); and  *)
(* a ping, then its reply, stays behind what was on the wire before it and *)
(* ahead of what came after (OnWire).                                      *)
(***************************************************************************)
EXTENDS EpochSync, TLAPS

(* Each Write is handed over once, and a callback belongs to a Write.      *)
Counted ==
  /\ epoch = IF wpc = "send" THEN buffered + 1 ELSE buffered
  /\ \A e \in Epochs : callback[e] # "none" => e <= buffered

(* What is before a ping, or its reply, on the wire.                       *)
OnWire ==
  \A e \in Epochs :
    /\ ping[e] = "up" => taken <= pos[e] /\ pos[e] <= sent
    /\ ping[e] = "down" => received <= pos[e] /\ pos[e] <= taken

(* Whose ping is on the wire.                                              *)
Asked ==
  /\ \A e, f \in Epochs : callback[e] = "asking" /\ callback[f] = "asking" => e = f
  /\ \A e \in Epochs : callback[e] \in {"none", "spawned"} => ping[e] = "none"
  /\ \A e \in Epochs : ~gone /\ ping[e] \in {"up", "down"} => callback[e] = "asking"

IInv == TypeOK /\ Counted /\ OnWire /\ Asked

-----------------------------------------------------------------------------
(* The initial state satisfies the invariant.                              *)
LEMMA InitIInv == Init => IInv
<1> SUFFICES ASSUME Init PROVE IInv
  OBVIOUS
<1>1. 0 \in Counts
  BY EpochAssumption DEF Counts
<1>2. TypeOK
  <2>1. /\ epoch \in Counts /\ remote \in Counts /\ complete \in 0..remote
        /\ buffered \in Counts /\ sent \in 0..buffered
        /\ taken \in 0..sent /\ received \in remote..taken
    BY <1>1 DEF Init
  <2>2. /\ callback \in [Epochs -> {"none", "spawned", "asking", "sleeping", "done"}]
        /\ ping \in [Epochs -> {"none", "up", "down", "back"}] /\ pos \in [Epochs -> Counts]
    BY <1>1 DEF Init
  <2> QED BY <2>1, <2>2 DEF Init, TypeOK
<1>3. Counted /\ OnWire /\ Asked
  BY DEF Init, Counted, OnWire, Asked
<1> QED BY <1>2, <1>3 DEF IInv

(* OpenEpoch keeps the invariant. *)
LEMMA OpenEpochStep ==
  ASSUME IInv, OpenEpoch
  PROVE  IInv'
<1>1. TypeOK'
  BY EpochAssumption DEF IInv, TypeOK, OpenEpoch, Epochs, Counts, pingVars, wireVars
<1>2. Counted'
  BY EpochAssumption DEF IInv, TypeOK, OpenEpoch, Counted, Epochs, Counts, pingVars,
       wireVars
<1>3. OnWire'
  BY EpochAssumption DEF IInv, TypeOK, OpenEpoch, OnWire, Counted, Asked, Epochs,
       Counts, pingVars, wireVars
<1>4. Asked'
  BY EpochAssumption DEF IInv, TypeOK, OpenEpoch, Asked, OnWire, Counted, Epochs,
       Counts, pingVars, wireVars
<1> QED BY <1>1, <1>2, <1>3, <1>4 DEF IInv

(* HandOver keeps the invariant. *)
LEMMA HandOverStep ==
  ASSUME IInv, HandOver
  PROVE  IInv'
<1>1. TypeOK'
  BY EpochAssumption DEF IInv, TypeOK, HandOver, Counted, Epochs, Counts, interVars,
       wireVars
<1>2. Counted'
  BY EpochAssumption DEF IInv, TypeOK, HandOver, Counted, Epochs, Counts, interVars,
       wireVars
<1>3. OnWire'
  BY EpochAssumption DEF IInv, TypeOK, HandOver, OnWire, Counted, Asked, Epochs, Counts,
       interVars, wireVars
<1>4. Asked'
  BY EpochAssumption DEF IInv, TypeOK, HandOver, Asked, OnWire, Counted, Epochs, Counts,
       interVars, wireVars
<1> QED BY <1>1, <1>2, <1>3, <1>4 DEF IInv

(* SinkWrite keeps the invariant. *)
LEMMA SinkWriteStep ==
  ASSUME IInv, SinkWrite
  PROVE  IInv'
<1>1. TypeOK'
  BY EpochAssumption DEF IInv, TypeOK, SinkWrite, Epochs, Counts, interVars, pingVars,
       wireVars
<1>2. Counted'
  BY EpochAssumption DEF IInv, TypeOK, SinkWrite, Counted, Epochs, Counts, interVars,
       pingVars, wireVars
<1>3. OnWire'
  BY EpochAssumption DEF IInv, TypeOK, SinkWrite, OnWire, Counted, Asked, Epochs,
       Counts, interVars, pingVars, wireVars
<1>4. Asked'
  BY EpochAssumption DEF IInv, TypeOK, SinkWrite, Asked, OnWire, Counted, Epochs,
       Counts, interVars, pingVars, wireVars
<1> QED BY <1>1, <1>2, <1>3, <1>4 DEF IInv

(* ServerEcho keeps the invariant. *)
LEMMA ServerEchoStep ==
  ASSUME IInv, ServerEcho
  PROVE  IInv'
<1>1. TypeOK'
  BY EpochAssumption DEF IInv, TypeOK, ServerEcho, Epochs, Counts, interVars, dataVars,
       pingVars
<1>2. Counted'
  BY EpochAssumption DEF IInv, TypeOK, ServerEcho, Counted, Epochs, Counts, interVars,
       dataVars, pingVars
<1>3. OnWire'
  BY EpochAssumption DEF IInv, TypeOK, ServerEcho, OnWire, Counted, Asked, Epochs,
       Counts, interVars, dataVars, pingVars
<1>4. Asked'
  BY EpochAssumption DEF IInv, TypeOK, ServerEcho, Asked, OnWire, Counted, Epochs,
       Counts, interVars, dataVars, pingVars
<1> QED BY <1>1, <1>2, <1>3, <1>4 DEF IInv

(* MuxOutput keeps the invariant. *)
LEMMA MuxOutputStep ==
  ASSUME IInv, MuxOutput
  PROVE  IInv'
<1>1. TypeOK'
  BY EpochAssumption DEF IInv, TypeOK, MuxOutput, Epochs, Counts, interVars, dataVars,
       pingVars
<1>2. Counted'
  BY EpochAssumption DEF IInv, TypeOK, MuxOutput, Counted, Epochs, Counts, interVars,
       dataVars, pingVars
<1>3. OnWire'
  BY EpochAssumption DEF IInv, TypeOK, MuxOutput, OnWire, Counted, Asked, Epochs,
       Counts, interVars, dataVars, pingVars
<1>4. Asked'
  BY EpochAssumption DEF IInv, TypeOK, MuxOutput, Asked, OnWire, Counted, Epochs,
       Counts, interVars, dataVars, pingVars
<1> QED BY <1>1, <1>2, <1>3, <1>4 DEF IInv

(* ChannelEnds keeps the invariant. *)
LEMMA ChannelEndsStep ==
  ASSUME IInv, ChannelEnds
  PROVE  IInv'
<1>1. TypeOK'
  BY EpochAssumption DEF IInv, TypeOK, ChannelEnds, Epochs, Counts, interVars, dataVars,
       pingVars
<1>2. Counted'
  BY EpochAssumption DEF IInv, TypeOK, ChannelEnds, Counted, Epochs, Counts, interVars,
       dataVars, pingVars
<1>3. OnWire'
  BY EpochAssumption DEF IInv, TypeOK, ChannelEnds, OnWire, Counted, Asked, Epochs,
       Counts, interVars, dataVars, pingVars
<1>4. Asked'
  BY EpochAssumption DEF IInv, TypeOK, ChannelEnds, Asked, OnWire, Counted, Epochs,
       Counts, interVars, dataVars, pingVars
<1> QED BY <1>1, <1>2, <1>3, <1>4 DEF IInv

(* Pull keeps the invariant. *)
LEMMA PullStep ==
  ASSUME IInv, Pull
  PROVE  IInv'
<1>1. TypeOK'
  BY EpochAssumption DEF IInv, TypeOK, Pull, Epochs, Counts, dataVars, pingVars, wireVars
<1>2. Counted'
  BY EpochAssumption DEF IInv, TypeOK, Pull, Counted, Epochs, Counts, dataVars,
       pingVars, wireVars
<1>3. OnWire'
  BY EpochAssumption DEF IInv, TypeOK, Pull, OnWire, Counted, Asked, Epochs, Counts,
       dataVars, pingVars, wireVars
<1>4. Asked'
  BY EpochAssumption DEF IInv, TypeOK, Pull, Asked, OnWire, Counted, Epochs, Counts,
       dataVars, pingVars, wireVars
<1> QED BY <1>1, <1>2, <1>3, <1>4 DEF IInv

(* Ping keeps the invariant. *)
LEMMA PingStep ==
  ASSUME IInv, NEW e \in Epochs, Ping(e)
  PROVE  IInv'
<1>1. TypeOK'
  BY EpochAssumption DEF IInv, TypeOK, Ping, Epochs, Counts, interVars, dataVars, wireVars
<1>2. Counted'
  BY EpochAssumption DEF IInv, TypeOK, Ping, Counted, Epochs, Counts, interVars,
       dataVars, wireVars
<1>3. OnWire'
  BY EpochAssumption DEF IInv, TypeOK, Ping, OnWire, Counted, Asked, Epochs, Counts,
       interVars, dataVars, wireVars
<1>4. Asked'
  BY EpochAssumption DEF IInv, TypeOK, Ping, Asked, OnWire, Counted, Epochs, Counts,
       interVars, dataVars, wireVars
<1> QED BY <1>1, <1>2, <1>3, <1>4 DEF IInv

(* PingFails keeps the invariant. *)
LEMMA PingFailsStep ==
  ASSUME IInv, NEW e \in Epochs, PingFails(e)
  PROVE  IInv'
<1>1. TypeOK'
  BY EpochAssumption DEF IInv, TypeOK, PingFails, Epochs, Counts, interVars, dataVars,
       wireVars
<1>2. Counted'
  BY EpochAssumption DEF IInv, TypeOK, PingFails, Counted, Epochs, Counts, interVars,
       dataVars, wireVars
<1>3. OnWire'
  BY EpochAssumption DEF IInv, TypeOK, PingFails, OnWire, Counted, Asked, Epochs,
       Counts, interVars, dataVars, wireVars
<1>4. Asked'
  BY EpochAssumption DEF IInv, TypeOK, PingFails, Asked, OnWire, Counted, Epochs,
       Counts, interVars, dataVars, wireVars
<1> QED BY <1>1, <1>2, <1>3, <1>4 DEF IInv

(* CloseEpoch keeps the invariant. *)
LEMMA CloseEpochStep ==
  ASSUME IInv, NEW e \in Epochs, CloseEpoch(e)
  PROVE  IInv'
<1>1. TypeOK'
  BY EpochAssumption DEF IInv, TypeOK, CloseEpoch, Epochs, Counts, dataVars, wireVars
<1>2. Counted'
  BY EpochAssumption DEF IInv, TypeOK, CloseEpoch, Counted, Epochs, Counts, dataVars,
       wireVars
<1>3. OnWire'
  BY EpochAssumption DEF IInv, TypeOK, CloseEpoch, OnWire, Counted, Asked, Epochs,
       Counts, dataVars, wireVars
<1>4. Asked'
  BY EpochAssumption DEF IInv, TypeOK, CloseEpoch, Asked, OnWire, Counted, Epochs,
       Counts, dataVars, wireVars
<1> QED BY <1>1, <1>2, <1>3, <1>4 DEF IInv

(* ServerReply keeps the invariant. *)
LEMMA ServerReplyStep ==
  ASSUME IInv, NEW e \in Epochs, ServerReply(e)
  PROVE  IInv'
<1>1. TypeOK'
  BY EpochAssumption DEF IInv, TypeOK, ServerReply, Epochs, Counts, interVars, dataVars,
       wireVars
<1>2. Counted'
  BY EpochAssumption DEF IInv, TypeOK, ServerReply, Counted, Epochs, Counts, interVars,
       dataVars, wireVars
<1>3. OnWire'
  BY EpochAssumption DEF IInv, TypeOK, ServerReply, OnWire, Counted, Asked, Epochs,
       Counts, interVars, dataVars, wireVars
<1>4. Asked'
  BY EpochAssumption DEF IInv, TypeOK, ServerReply, Asked, OnWire, Counted, Epochs,
       Counts, interVars, dataVars, wireVars
<1> QED BY <1>1, <1>2, <1>3, <1>4 DEF IInv

(* MuxReply keeps the invariant. *)
LEMMA MuxReplyStep ==
  ASSUME IInv, NEW e \in Epochs, MuxReply(e)
  PROVE  IInv'
<1>1. TypeOK'
  BY EpochAssumption DEF IInv, TypeOK, MuxReply, Epochs, Counts, interVars, dataVars,
       wireVars
<1>2. Counted'
  BY EpochAssumption DEF IInv, TypeOK, MuxReply, Counted, Epochs, Counts, interVars,
       dataVars, wireVars
<1>3. OnWire'
  BY EpochAssumption DEF IInv, TypeOK, MuxReply, OnWire, Counted, Asked, Epochs, Counts,
       interVars, dataVars, wireVars
<1>4. Asked'
  BY EpochAssumption DEF IInv, TypeOK, MuxReply, Asked, OnWire, Counted, Epochs, Counts,
       interVars, dataVars, wireVars
<1> QED BY <1>1, <1>2, <1>3, <1>4 DEF IInv

(* The invariant holds throughout.                                         *)
THEOREM Invariant == Spec => []IInv
<1>1. IInv /\ [Next]_vars => IInv'
  <2> SUFFICES ASSUME IInv, [Next]_vars PROVE IInv'
    OBVIOUS
  <2>1. CASE OpenEpoch \/ HandOver \/ SinkWrite \/ ChannelEnds \/ Pull
    BY <2>1, OpenEpochStep, HandOverStep, SinkWriteStep, ChannelEndsStep, PullStep
  <2>2. CASE Wire
    BY <2>2, ServerEchoStep, MuxOutputStep, ServerReplyStep, MuxReplyStep DEF Wire
  <2>3. CASE \E e \in Epochs : Callback(e)
    BY <2>3, PingStep, PingFailsStep, CloseEpochStep DEF Callback
  <2>4. CASE UNCHANGED vars
    BY <2>4 DEF vars, interVars, dataVars, pingVars, wireVars, IInv, TypeOK, Counted,
       OnWire, Asked
  <2> QED BY <2>1, <2>2, <2>3, <2>4 DEF Next
<1> QED BY InitIInv, <1>1, PTL DEF Spec

(* TypeOK: output is emulated only when it has arrived, arrives only when  *)
(* the server has sent it, and is an echo of what the Asynk has written.   *)
THEOREM Types == Spec => []TypeOK
BY Invariant, PTL DEF IInv

(* A callback that waits for a reply has its own ping, or the reply, on    *)
(* the wire (main.go:340): no reply ever goes to another.                  *)
THEOREM Waited == Spec => []WaitAnswered
<1>1. Init => WaitAnswered
  BY DEF Init, WaitAnswered
<1>2. IInv /\ WaitAnswered /\ [Next]_vars => WaitAnswered'
  <2> SUFFICES ASSUME IInv, WaitAnswered, [Next]_vars PROVE WaitAnswered'
    OBVIOUS
  <2> USE DEF WaitAnswered, IInv, TypeOK, interVars, dataVars, pingVars, wireVars
  <2>1. CASE OpenEpoch \/ SinkWrite \/ ChannelEnds \/ Pull
    BY <2>1 DEF OpenEpoch, SinkWrite, ChannelEnds, Pull
  <2>2. CASE HandOver
    BY <2>2 DEF HandOver
  <2>3. CASE ServerEcho \/ MuxOutput
    BY <2>3 DEF ServerEcho, MuxOutput
  <2>4. ASSUME NEW e \in Epochs, ServerReply(e) PROVE WaitAnswered'
    BY <2>4 DEF ServerReply
  <2>5. ASSUME NEW e \in Epochs, MuxReply(e) PROVE WaitAnswered'
    <3>1. callback[e] = "asking"
      BY <2>5 DEF MuxReply, Asked
    <3>2. PICK f \in Epochs :
            callback[f] = "asking" /\ callback' = [callback EXCEPT ![f] = "sleeping"]
      BY <2>5 DEF MuxReply
    <3>3. f = e
      BY <3>1, <3>2 DEF Asked
    <3>4. QED
      BY <2>5, <3>2, <3>3 DEF MuxReply
  <2>6. ASSUME NEW e \in Epochs, Callback(e) PROVE WaitAnswered'
    BY <2>6 DEF Callback, Ping, PingFails, CloseEpoch
  <2>7. CASE UNCHANGED vars
    BY <2>7 DEF vars
  <2>8. QED
    BY <2>1, <2>2, <2>3, <2>4, <2>5, <2>6, <2>7 DEF Next, Wire
<1>3. QED
  BY <1>1, <1>2, Invariant, PTL DEF Spec

-----------------------------------------------------------------------------
(* What the interposer of this module shows is what Screen allows.         *)
Limit == IF pendingEpoch THEN complete ELSE MaxEpoch
pictureVars == <<Echoes(remote), Echoes(complete), Echoes(0), Limit>>

LEMMA PictureStep ==
  ASSUME TypeOK, TypeOK', [Next]_vars
  PROVE  Picture!Next \/ UNCHANGED pictureVars
<1> USE EpochAssumption DEF pictureVars, Limit, Echoes
<1>0. /\ remote \in Nat /\ complete \in Nat /\ complete <= remote /\ remote <= MaxEpoch
      /\ remote' \in Counts /\ pendingEpoch \in BOOLEAN
  BY DEF TypeOK, Counts
<1>1. CASE OpenEpoch
  <2>1. Limit' = complete /\ complete \in complete .. remote
    BY <1>0, <1>1 DEF OpenEpoch
  <2>2. Picture!Hold
    BY <1>1, <2>1 DEF OpenEpoch, Picture!Hold
  <2>3. QED
    BY <2>2 DEF Picture!Next
<1>2. ASSUME NEW e \in Epochs, CloseEpoch(e) PROVE Picture!Next
  <2>1. Limit' \in {remote, MaxEpoch}
    BY <1>2 DEF CloseEpoch
  <2>2. Picture!Answer
    BY <1>2, <2>1 DEF CloseEpoch, Picture!Answer
  <2>3. QED
    BY <2>2 DEF Picture!Next
<1>3. CASE Pull
  <2>1. remote < remote' /\ remote' <= MaxEpoch /\ UNCHANGED pendingEpoch
    BY <1>0, <1>3 DEF Pull, Counts
  <2>2. Picture!Behind(Echoes(remote), Echoes(remote'))
    BY <1>0, <2>1 DEF Picture!Behind, Counts
  <2>3. CASE pendingEpoch
    BY <1>0, <1>3, <2>2, <2>3 DEF Pull, Picture!Next, Picture!Receive
  <2>4. CASE ~pendingEpoch
    BY <1>0, <1>3, <2>1, <2>2, <2>4 DEF Pull, Picture!Next, Picture!Receive
  <2>5. QED
    BY <2>3, <2>4
<1>4. CASE UNCHANGED interVars
  BY <1>4 DEF interVars
<1>5. QED
  <2>1. CASE HandOver \/ SinkWrite \/ ChannelEnds
    BY <1>4, <2>1 DEF HandOver, SinkWrite, ChannelEnds
  <2>2. CASE Wire
    BY <1>4, <2>2 DEF Wire, ServerEcho, ServerReply, MuxOutput, MuxReply
  <2>3. ASSUME NEW e \in Epochs, Callback(e) PROVE Picture!Next \/ UNCHANGED pictureVars
    BY <1>2, <1>4, <2>3 DEF Callback, Ping, PingFails
  <2>4. CASE UNCHANGED vars
    BY <1>4, <2>4 DEF vars
  <2>5. QED
    BY <1>1, <1>3, <2>1, <2>2, <2>3, <2>4 DEF Next

(* Echoes are released as Screen allows (termemu.go:327-336, :376): the    *)
(* interposer as this module has it keeps the promise that Interposer,     *)
(* which has all its steps, keeps.                                         *)
THEOREM Refinement == Spec => IsScreen
<1>1. Init => Picture!Init
  BY DEF Init, Picture!Init, Echoes
<1>2. TypeOK /\ TypeOK' /\ [Next]_vars => [Picture!Next]_pictureVars
  BY PictureStep
<1>3. QED
  BY <1>1, <1>2, Types, PTL DEF Spec, IsScreen, Picture!Spec, pictureVars, Limit
=============================================================================
