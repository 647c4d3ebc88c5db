--------------------------- MODULE InterposerProofs ---------------------------
(***************************************************************************)
(* Safety of the interposer for every number of Writes, chunks and         *)
(* resizes: IInv is inductive, and the invariants and the action property  *)
(* of Interposer follow from it.                                           *)
(***************************************************************************)
EXTENDS Interposer, TLAPS

(* A callback exists only for an epoch that was opened, and is started     *)
(* after its Write has left the mutex.                                     *)
CallbacksOpened ==
  /\ \A e \in Epochs : callback[e] # "none" => e <= epoch
  /\ wpc = "send" => epoch # 0 /\ callback[epoch] = "none"

(* Only pullFromUpstream takes chunks, so the copy it made of the emulator *)
(* has every chunk.                                                        *)
CopyCurrent == pendingRemoteState.out = emulator.out

(* A puller that found no epoch pending may be overtaken by a Write, but   *)
(* that Write held back only what was to come.                             *)
CopyAllowed == ppc = "copy" /\ pendingEpoch => pendingRemoteState.out <= heldOut

(* The part of a frame the client has not got is in the pending buffer.    *)
RestPending ==
  /\ rpc = "start" => frameWhole \/ \E i \in 1..Len(pending) : pending[i] = "frame"
  /\ DeltaBase

IInv ==
  /\ TypeOK /\ StatesOrdered /\ WakeupAccounted /\ HeldBack
  /\ ReleasedWhenAnswered /\ CallbacksOpened /\ CopyCurrent /\ CopyAllowed
  /\ RestPending

-----------------------------------------------------------------------------
LEMMA InitIInv == Init => IInv
<1> SUFFICES ASSUME Init PROVE IInv
  OBVIOUS
<1>1. TypeOK
  <2>1. Blank \in Screens
    BY BoundsAssumption DEF Blank, Screens
  <2>2. callback \in [Epochs -> CallbackStates]
    BY DEF Init, CallbackStates
  <2>3. pending \in Seq({"open", "frame", "close"})
    BY DEF Init
  <2>4. /\ emulator \in Screens /\ pendingRemoteState \in Screens
        /\ completeRemoteState \in Screens /\ localState \in Screens
    BY <2>1 DEF Init
  <2>5. /\ epoch \in 0..MaxEpoch /\ pendingEpochStarted \in 0..MaxEpoch
        /\ lateAcked \in 0..MaxEpoch /\ heldOut \in 0..MaxOut
    BY BoundsAssumption DEF Init
  <2>6. predictions \in SUBSET Epochs /\ shown \in SUBSET Epochs
    BY DEF Init
  <2>7. /\ initialized \in BOOLEAN /\ opened \in BOOLEAN
        /\ pendingEpoch \in BOOLEAN /\ droppedUpdate \in BOOLEAN
        /\ frameWhole \in BOOLEAN
    BY DEF Init
  <2>8. /\ lastUpstreamErr \in Errors
        /\ rpc \in ReaderStates /\ ppc \in PullerStates
        /\ wpc \in {"idle", "send", "stopped"}
        /\ cpc \in {"open", "closing", "closed"}
    BY DEF Init, Errors, ReaderStates, PullerStates
  <2>9. QED
    BY <2>2, <2>3, <2>4, <2>5, <2>6, <2>7, <2>8 DEF TypeOK
<1>2. QED
  BY <1>1, BoundsAssumption
  DEF IInv, Init, StatesOrdered, WakeupAccounted, NeedsFrame, HeldBack,
      ReleasedWhenAnswered, CallbacksOpened, CopyCurrent, CopyAllowed,
      RestPending, DeltaBase, Behind, Blank, Epochs

(* What a notification may change keeps its type.                          *)
LEMMA NotifyTypes ==
  ASSUME TypeOK, NEW err, Notify(err)
  PROVE  rpc' \in ReaderStates /\ droppedUpdate' \in BOOLEAN
BY DEF TypeOK, Notify, ReaderStates

(* One more chunk or resize, below its bound, gives a framebuffer.         *)
LEMMA ScreenSteps ==
  ASSUME NEW s \in Screens
  PROVE  /\ s.out < MaxOut => [s EXCEPT !.out = @ + 1] \in Screens
         /\ s.size < MaxSize => [s EXCEPT !.size = @ + 1] \in Screens
BY BoundsAssumption DEF Screens

(* Every step keeps the types.                                             *)
LEMMA TypeStep == TypeOK /\ CallbacksOpened /\ [Next]_vars => TypeOK'
<1> SUFFICES ASSUME TypeOK, CallbacksOpened, [Next]_vars PROVE TypeOK'
  OBVIOUS
<1> USE DEF fbVars, drawVars, outVars, epochVars, predVars, errVars, pcVars
<1>1. ASSUME NEW r \in BOOLEAN, WriteBegin(r) PROVE TypeOK'
  <2>1. epoch' \in 0..MaxEpoch /\ pendingEpochStarted' \in 0..MaxEpoch
    BY <1>1, BoundsAssumption DEF TypeOK, WriteBegin, PendingSince
  <2>2. predictions' \in SUBSET Epochs
    BY <1>1, BoundsAssumption DEF TypeOK, WriteBegin, Epochs
  <2>3. initialized' \in BOOLEAN /\ pendingEpoch' \in BOOLEAN
    BY <1>1 DEF WriteBegin
  <2>4. heldOut' \in 0..MaxOut
    BY <1>1 DEF TypeOK, WriteBegin, Screens
  <2>5. rpc' \in ReaderStates /\ droppedUpdate' \in BOOLEAN
    BY <1>1, NotifyTypes DEF WriteBegin
  <2>6. QED
    BY <1>1, <2>1, <2>2, <2>3, <2>4, <2>5 DEF TypeOK, WriteBegin
<1>2. ASSUME NEW ok \in BOOLEAN, WriteSend(ok) PROVE TypeOK'
  <2>1. callback' \in [Epochs -> CallbackStates]
    BY <1>2 DEF TypeOK, CallbacksOpened, WriteSend, Epochs, CallbackStates
  <2>2. QED
    BY <1>2, <2>1 DEF TypeOK, WriteSend
<1>3. CASE ClientDone
  BY <1>3 DEF TypeOK, ClientDone
<1>4. CASE CloseBuffer
  <2>1. pending' \in Seq({"open", "frame", "close"})
    BY <1>4 DEF TypeOK, CloseBuffer
  <2>2. QED
    BY <1>4, <2>1 DEF TypeOK, CloseBuffer
<1>5. CASE CloseUpstream
  BY <1>5 DEF TypeOK, CloseUpstream
<1>6. ASSUME NEW e \in Epochs, CloseEpoch(e) PROVE TypeOK'
  <2>1. callback' \in [Epochs -> CallbackStates]
    BY <1>6 DEF TypeOK, CloseEpoch, CallbackStates
  <2>2. lateAcked' \in 0..MaxEpoch /\ pendingEpochStarted' \in 0..MaxEpoch
    BY <1>6, BoundsAssumption DEF TypeOK, CloseEpoch, Epochs
  <2>3. heldOut' \in 0..MaxOut
    BY <1>6 DEF TypeOK, CloseEpoch, Screens
  <2>4. pendingEpoch' \in BOOLEAN
    BY <1>6 DEF CloseEpoch, StillPending
  <2>5. QED
    BY <1>6, <2>1, <2>2, <2>3, <2>4 DEF TypeOK, CloseEpoch
<1>7. ASSUME NEW e \in Epochs, CloseEpochNotify(e) PROVE TypeOK'
  <2>1. callback' \in [Epochs -> CallbackStates]
    BY <1>7 DEF TypeOK, CloseEpochNotify, CallbackStates
  <2>2. QED
    BY <1>7, <2>1, NotifyTypes DEF TypeOK, CloseEpochNotify
<1>8. ASSUME NEW r \in BOOLEAN, PullData(r) PROVE TypeOK'
  <2>1. emulator' \in Screens /\ pendingRemoteState' \in Screens
    <3>1. emulator \in Screens /\ emulator.out < MaxOut
      BY <1>8 DEF TypeOK, PullData
    <3>2. [emulator EXCEPT !.out = @ + 1] \in Screens
      BY <3>1, ScreenSteps
    <3>3. QED
      BY <1>8, <3>2 DEF PullData
  <2>2. QED
    BY <1>8, <2>1 DEF TypeOK, PullData, PullerStates
<1>9. ASSUME NEW ok \in BOOLEAN, PullReport(ok) PROVE TypeOK'
  BY <1>9 DEF TypeOK, PullReport, PullerStates, Errors
<1>10. CASE PullCheck
  BY <1>10 DEF TypeOK, PullCheck, AfterCheck, PullerStates
<1>11. CASE PullCopy
  BY <1>11 DEF TypeOK, PullCopy, PullerStates
<1>12. CASE PullNotify
  BY <1>12, NotifyTypes DEF TypeOK, PullNotify, PullerStates
<1>13. CASE PullEof
  BY <1>13 DEF TypeOK, PullEof, PullerStates, Errors
<1>14. CASE PullNotifyErr
  BY <1>14, NotifyTypes DEF TypeOK, PullNotifyErr, PullerStates
<1>15. CASE ReadPending
  <2>1. pending' \in Seq({"open", "frame", "close"})
    BY <1>15 DEF TypeOK, ReadPending
  <2>2. frameWhole' \in BOOLEAN
    BY <1>15 DEF TypeOK, ReadPending
  <2>3. QED
    BY <1>15, <2>1, <2>2 DEF TypeOK, ReadPending
<1>16. ASSUME NEW f \in BOOLEAN, ReadOpen(f) PROVE TypeOK'
  <2>1. pending' \in Seq({"open", "frame", "close"})
    <3>1. <<>> \in Seq({"open", "frame", "close"})
      OBVIOUS
    <3>2. <<"open">> \in Seq({"open", "frame", "close"})
      OBVIOUS
    <3>3. pending' = <<>> \/ pending' = <<"open">>
      BY <1>16 DEF ReadOpen
    <3>4. QED
      BY <3>1, <3>2, <3>3
  <2>2. QED
    BY <1>16, <2>1 DEF TypeOK, ReadOpen
<1>17. CASE ReadFailed
  BY <1>17 DEF TypeOK, ReadFailed, ReaderStates
<1>18. CASE ReadIdle
  BY <1>18 DEF TypeOK, ReadIdle, ReaderStates
<1>19. CASE ReadCheckDropped
  BY <1>19 DEF TypeOK, ReadCheckDropped, ReaderStates
<1>20. CASE ReadSelect
  BY <1>20 DEF TypeOK, ReadSelect, ReaderStates
<1>21. CASE ReadClear
  BY <1>21 DEF TypeOK, ReadClear, ReaderStates
<1>22. CASE ReadEmit
  <2>1. predictions' \in SUBSET Epochs /\ shown' \in SUBSET Epochs
    BY <1>22 DEF TypeOK, ReadEmit, Culled
  <2>2. QED
    BY <1>22, <2>1 DEF TypeOK, ReadEmit, FrameBase, ReaderStates
<1>23. ASSUME NEW f \in BOOLEAN, ReadReturn(f) PROVE TypeOK'
  <2>1. pending' \in Seq({"open", "frame", "close"})
    BY <1>23 DEF TypeOK, ReadReturn
  <2>2. QED
    BY <1>23, <2>1 DEF TypeOK, ReadReturn, ReaderStates
<1>24. CASE Resize
  <2>1. emulator' \in Screens
    <3>1. emulator \in Screens /\ emulator.size < MaxSize
      BY <1>24 DEF TypeOK, Resize
    <3>2. [emulator EXCEPT !.size = @ + 1] \in Screens
      BY <3>1, ScreenSteps
    <3>3. QED
      BY <1>24, <3>2 DEF Resize
  <2>2. QED
    BY <1>24, <2>1 DEF TypeOK, Resize
<1>25. CASE UNCHANGED vars
  BY <1>25 DEF TypeOK, vars
<1>26. QED
  BY <1>1, <1>2, <1>3, <1>4, <1>5, <1>6, <1>7, <1>8, <1>9, <1>10, <1>11, <1>12,
     <1>13, <1>14, <1>15, <1>16, <1>17, <1>18, <1>19, <1>20, <1>21, <1>22,
     <1>23, <1>24, <1>25
  DEF Next, Writer, Puller, Reader, Callback

-----------------------------------------------------------------------------
(* The steps that move a framebuffer or the frame drawn from it.           *)
LEMMA ScreenMoves ==
  ASSUME [Next]_vars
  PROVE  \/ \E r \in BOOLEAN : PullData(r)
         \/ PullCopy \/ ReadEmit \/ Resize
         \/ \E e \in Epochs : CloseEpoch(e)
         \/ UNCHANGED <<emulator, pendingRemoteState, completeRemoteState, localState>>
<1> USE DEF fbVars, drawVars
<1>1. CASE UNCHANGED vars
  BY <1>1 DEF vars
<1>2. CASE Writer
  BY <1>2 DEF Writer, WriteBegin, WriteSend, ClientDone
<1>3. CASE Puller
  BY <1>3 DEF Puller, PullReport, PullCheck, PullNotify, PullEof, PullNotifyErr
<1>4. CASE Reader
  BY <1>4 DEF Reader, ReadPending, ReadOpen, ReadFailed, ReadIdle,
              ReadCheckDropped, ReadSelect, ReadClear, ReadReturn
<1>5. CASE CloseBuffer \/ CloseUpstream
  BY <1>5 DEF CloseBuffer, CloseUpstream
<1>6. ASSUME NEW e \in Epochs, Callback(e), ~CloseEpoch(e)
      PROVE  UNCHANGED <<emulator, pendingRemoteState, completeRemoteState, localState>>
  BY <1>6 DEF Callback, CloseEpochNotify
<1>7. QED
  BY <1>1, <1>2, <1>3, <1>4, <1>5, <1>6 DEF Next, Callback

LEMMA StatesOrderedStep == TypeOK /\ StatesOrdered /\ [Next]_vars => StatesOrdered'
<1> SUFFICES ASSUME TypeOK, StatesOrdered, [Next]_vars PROVE StatesOrdered'
  OBVIOUS
<1> USE DEF StatesOrdered, Behind
<1>0. /\ emulator \in Screens /\ pendingRemoteState \in Screens
      /\ completeRemoteState \in Screens /\ localState \in Screens
  BY DEF TypeOK
<1>1. ASSUME NEW r \in BOOLEAN, PullData(r) PROVE StatesOrdered'
  <2>1. /\ emulator'.out = emulator.out + 1 /\ emulator'.size = emulator.size
        /\ pendingRemoteState' = emulator'
    BY <1>0, <1>1 DEF PullData, Screens
  <2>2. UNCHANGED <<completeRemoteState, localState>>
    BY <1>1 DEF PullData, drawVars
  <2>3. QED
    BY <1>0, <2>1, <2>2, BoundsAssumption DEF Screens
<1>2. CASE PullCopy
  BY <1>0, <1>2, BoundsAssumption DEF PullCopy, drawVars, Screens
<1>3. CASE ReadEmit
  BY <1>0, <1>3, BoundsAssumption DEF ReadEmit, FrameBase, fbVars, Screens
<1>4. CASE Resize
  <2>1. emulator'.size = emulator.size + 1 /\ emulator'.out = emulator.out
    BY <1>0, <1>4 DEF Resize, Screens
  <2>2. UNCHANGED <<pendingRemoteState, completeRemoteState, localState>>
    BY <1>4 DEF Resize, drawVars
  <2>3. QED
    BY <1>0, <2>1, <2>2, BoundsAssumption DEF Screens
<1>5. ASSUME NEW e \in Epochs, CloseEpoch(e) PROVE StatesOrdered'
  BY <1>0, <1>5, BoundsAssumption DEF CloseEpoch, drawVars, Screens
<1>6. CASE UNCHANGED <<emulator, pendingRemoteState, completeRemoteState, localState>>
  BY <1>6
<1>7. QED
  BY <1>1, <1>2, <1>3, <1>4, <1>5, <1>6, ScreenMoves

(* A frame is drawn from completeRemoteState, which is never behind it.    *)
LEMMA ScreenAdvancesStep ==
  TypeOK /\ StatesOrdered /\ [Next]_vars => [Behind(localState, localState')]_localState
<1> SUFFICES ASSUME TypeOK, StatesOrdered, [Next]_vars
             PROVE  [Behind(localState, localState')]_localState
  OBVIOUS
<1>1. CASE ReadEmit
  BY <1>1 DEF ReadEmit, FrameBase, StatesOrdered
<1>2. ~ReadEmit => UNCHANGED localState
  BY ScreenMoves DEF PullData, PullCopy, Resize, CloseEpoch, drawVars
<1>3. QED
  BY <1>1, <1>2

-----------------------------------------------------------------------------
(* The callbacks.                                                          *)
LEMMA CallbacksStep ==
  TypeOK /\ ReleasedWhenAnswered /\ CallbacksOpened /\ [Next]_vars
    => ReleasedWhenAnswered' /\ CallbacksOpened'
<1> SUFFICES ASSUME TypeOK, ReleasedWhenAnswered, CallbacksOpened, [Next]_vars
             PROVE  ReleasedWhenAnswered' /\ CallbacksOpened'
  OBVIOUS
<1>0. /\ epoch \in 0..MaxEpoch /\ MaxEpoch \in Nat /\ pendingEpoch \in BOOLEAN
      /\ callback \in [Epochs -> CallbackStates]
  BY BoundsAssumption DEF TypeOK
<1> USE DEF Epochs
<1>1. ASSUME NEW r \in BOOLEAN, WriteBegin(r)
      PROVE  ReleasedWhenAnswered' /\ CallbacksOpened'
  <2>1. epoch' = epoch + 1 /\ callback' = callback /\ pendingEpoch' = TRUE
    BY <1>1 DEF WriteBegin
  <2>2. epoch + 1 \in Epochs
    BY <1>0, <1>1 DEF WriteBegin
  <2>3. callback[epoch + 1] = "none"
    BY <1>0, <2>2 DEF CallbacksOpened
  <2>4. QED
    BY <1>0, <2>1, <2>2, <2>3 DEF ReleasedWhenAnswered, CallbacksOpened
<1>2. ASSUME NEW ok \in BOOLEAN, WriteSend(ok)
      PROVE  ReleasedWhenAnswered' /\ CallbacksOpened'
  <2>1. /\ callback' = [callback EXCEPT ![epoch] = "spawned"]
        /\ UNCHANGED <<epoch, pendingEpoch, pendingEpochStarted>>
        /\ wpc = "send" /\ wpc' # "send"
    BY <1>2 DEF WriteSend, epochVars
  <2>2. epoch # 0 /\ callback[epoch] = "none" /\ epoch \in Epochs
    BY <1>0, <2>1 DEF CallbacksOpened
  <2>3. pendingEpoch
    BY <2>2 DEF ReleasedWhenAnswered
  <2>4. \A e \in Epochs : callback'[e] # "none" => e <= epoch
    BY <1>0, <2>1 DEF CallbacksOpened
  <2>5. QED
    BY <2>1, <2>3, <2>4 DEF ReleasedWhenAnswered, CallbacksOpened
<1>3. ASSUME NEW e \in Epochs, CloseEpoch(e)
      PROVE  ReleasedWhenAnswered' /\ CallbacksOpened'
  <2>1. /\ callback' = [callback EXCEPT ![e] = "notify"]
        /\ callback[e] = "spawned" /\ UNCHANGED <<epoch, wpc>>
    BY <1>3 DEF CloseEpoch, epochVars
  <2>2. epoch > e => pendingEpoch'
    BY <1>3 DEF CloseEpoch, StillPending
  <2>3. epoch <= e => pendingEpochStarted' = 0
    BY <1>0, <1>3 DEF CloseEpoch, StillPending
  <2>4. e <= epoch
    BY <2>1 DEF CallbacksOpened
  <2>5. ReleasedWhenAnswered'
    <3>1. CASE epoch > e
      BY <2>1, <2>2, <3>1 DEF ReleasedWhenAnswered
    <3>2. CASE epoch = e
      <4>1. callback'[epoch'] = "notify" /\ pendingEpochStarted' = 0
        BY <1>0, <2>1, <2>3, <3>2
      <4>2. QED
        BY <4>1 DEF ReleasedWhenAnswered
    <3>3. QED
      BY <1>0, <2>4, <3>1, <3>2
  <2>6. \A f \in Epochs : callback'[f] # "none" => f <= epoch
    BY <1>0, <2>1, <2>4 DEF CallbacksOpened
  <2>7. wpc = "send" => callback'[epoch] = "none"
    BY <1>0, <2>1 DEF CallbacksOpened
  <2>8. QED
    BY <2>1, <2>5, <2>6, <2>7 DEF CallbacksOpened
<1>4. ASSUME NEW e \in Epochs, CloseEpochNotify(e)
      PROVE  ReleasedWhenAnswered' /\ CallbacksOpened'
  <2>1. /\ callback' = [callback EXCEPT ![e] = "done"] /\ callback[e] = "notify"
        /\ UNCHANGED <<epoch, pendingEpoch, pendingEpochStarted, wpc>>
    BY <1>4 DEF CloseEpochNotify, epochVars
  <2>2. ReleasedWhenAnswered'
    BY <1>0, <2>1 DEF ReleasedWhenAnswered
  <2>3. CallbacksOpened'
    BY <1>0, <2>1 DEF CallbacksOpened
  <2>4. QED
    BY <2>2, <2>3
<1>5. CASE /\ UNCHANGED <<callback, epoch, pendingEpoch, pendingEpochStarted>>
           /\ wpc' = wpc \/ wpc' # "send"
  BY <1>5 DEF ReleasedWhenAnswered, CallbacksOpened
<1>6. QED
  <2> USE DEF epochVars, pcVars
  <2>1. CASE UNCHANGED vars
    BY <1>5, <2>1 DEF vars
  <2>2. CASE Writer
    BY <1>1, <1>2, <1>5, <2>2 DEF Writer, ClientDone
  <2>3. CASE Puller
    BY <1>5, <2>3 DEF Puller, PullData, PullReport, PullCheck, PullCopy,
                      PullNotify, PullEof, PullNotifyErr
  <2>4. CASE Reader
    BY <1>5, <2>4 DEF Reader, ReadPending, ReadOpen, ReadFailed, ReadIdle,
                      ReadCheckDropped, ReadSelect, ReadClear, ReadEmit, ReadReturn
  <2>5. CASE Resize \/ CloseBuffer \/ CloseUpstream
    BY <1>5, <2>5 DEF Resize, CloseBuffer, CloseUpstream
  <2>6. QED
    BY <1>3, <1>4, <2>1, <2>2, <2>3, <2>4, <2>5 DEF Next, Callback

-----------------------------------------------------------------------------
(* Holding output back.                                                    *)
HeldVars == <<emulator, pendingRemoteState, completeRemoteState, pendingEpoch, heldOut>>

LEMMA HeldBackStep ==
  TypeOK /\ StatesOrdered /\ HeldBack /\ CopyCurrent /\ CopyAllowed /\ [Next]_vars
    => HeldBack' /\ CopyCurrent' /\ CopyAllowed'
<1> DEFINE Held == HeldBack /\ CopyCurrent /\ CopyAllowed
<1> SUFFICES ASSUME TypeOK, StatesOrdered, Held, [Next]_vars PROVE Held'
  OBVIOUS
<1> USE DEF HeldBack, CopyCurrent, CopyAllowed
<1>0. /\ emulator \in Screens /\ pendingRemoteState \in Screens
      /\ completeRemoteState \in Screens
      /\ completeRemoteState.out <= pendingRemoteState.out
  BY DEF TypeOK, StatesOrdered, Behind
<1>1. ASSUME NEW r \in BOOLEAN, WriteBegin(r) PROVE Held'
  <2>1. /\ completeRemoteState.out <= emulator.out
        /\ pendingRemoteState.out <= emulator.out
    BY <1>0 DEF Screens
  <2>2. heldOut' = emulator.out /\ UNCHANGED fbVars
    BY <1>1 DEF WriteBegin
  <2>3. QED
    BY <2>1, <2>2 DEF fbVars
<1>2. ASSUME NEW r \in BOOLEAN, PullData(r) PROVE Held'
  BY <1>2 DEF PullData, epochVars
<1>3. CASE PullCheck
  BY <1>3 DEF PullCheck, AfterCheck, fbVars, epochVars
<1>4. CASE PullCopy
  BY <1>4 DEF PullCopy, epochVars
<1>5. CASE Resize
  <2>1. emulator'.out = emulator.out
    BY <1>0, <1>5 DEF Resize, Screens
  <2>2. QED
    BY <1>5, <2>1 DEF Resize, epochVars, pcVars
<1>6. ASSUME NEW e \in Epochs, CloseEpoch(e) PROVE Held'
  <2>1. pendingRemoteState.out <= pendingRemoteState.out
    BY <1>0 DEF Screens
  <2>2. QED
    BY <1>6, <2>1 DEF CloseEpoch
<1>7. CASE UNCHANGED HeldVars /\ (ppc' = ppc \/ ppc' # "copy")
  BY <1>7 DEF HeldVars
<1>8. QED
  <2> USE DEF fbVars, epochVars, pcVars, HeldVars
  <2>1. CASE UNCHANGED vars
    BY <1>7, <2>1 DEF vars
  <2>2. CASE Writer
    BY <1>1, <1>7, <2>2 DEF Writer, WriteSend, ClientDone
  <2>3. CASE Puller
    BY <1>2, <1>3, <1>4, <1>7, <2>3
    DEF Puller, PullReport, PullNotify, PullEof, PullNotifyErr
  <2>4. CASE Reader
    BY <1>7, <2>4 DEF Reader, ReadPending, ReadOpen, ReadFailed, ReadIdle,
                      ReadCheckDropped, ReadSelect, ReadClear, ReadEmit, ReadReturn
  <2>5. CASE CloseBuffer \/ CloseUpstream
    BY <1>7, <2>5 DEF CloseBuffer, CloseUpstream
  <2>6. ASSUME NEW e \in Epochs, CloseEpochNotify(e) PROVE Held'
    BY <1>7, <2>6 DEF CloseEpochNotify
  <2>7. QED
    BY <1>5, <1>6, <2>1, <2>2, <2>3, <2>4, <2>5, <2>6 DEF Next, Callback

-----------------------------------------------------------------------------
(* Frames and the rest of the last one.                                    *)
LEMMA RestPendingStep == TypeOK /\ RestPending /\ [Next]_vars => RestPending'
<1> SUFFICES ASSUME TypeOK, RestPending, [Next]_vars PROVE RestPending'
  OBVIOUS
<1> DEFINE Rest(q) == \E i \in 1..Len(q) : q[i] = "frame"
<1> USE DEF RestPending, DeltaBase
<1>0. pending \in Seq({"open", "frame", "close"})
  BY DEF TypeOK
<1>1. CASE ReadPending
  <2>1. PICK n \in 1..Len(pending) :
          /\ pending' = SubSeq(pending, n + 1, Len(pending))
          /\ frameWhole' = (frameWhole \/ "frame" \in {pending[i] : i \in 1..n})
    BY <1>1 DEF ReadPending
  <2>2. rpc = "start" /\ rpc' = "start"
    BY <1>1 DEF ReadPending, pcVars
  <2>3. CASE frameWhole
    BY <2>1, <2>2, <2>3
  <2>4. CASE ~frameWhole
    <3>1. PICK i \in 1..Len(pending) : pending[i] = "frame"
      BY <2>2, <2>4
    <3>2. CASE i <= n
      <4>1. "frame" \in {pending[j] : j \in 1..n}
        BY <3>1, <3>2
      <4>2. QED
        BY <2>1, <2>2, <4>1
    <3>3. CASE i > n
      <4>1. Len(pending') = Len(pending) - n /\ pending'[i - n] = pending[i]
        BY <1>0, <2>1, <3>3
      <4>2. i - n \in 1..Len(pending')
        BY <1>0, <3>3, <4>1
      <4>3. QED
        BY <2>2, <3>1, <4>1, <4>2
    <3>4. QED
      BY <3>2, <3>3
  <2>5. QED
    BY <2>3, <2>4
<1>2. ASSUME NEW f \in BOOLEAN, ReadOpen(f) PROVE RestPending'
  <2>1. frameWhole
    BY <1>2 DEF ReadOpen
  <2>2. QED
    BY <1>2, <2>1 DEF ReadOpen, drawVars
<1>3. CASE ReadIdle
  <2>1. frameWhole
    BY <1>3 DEF ReadIdle
  <2>2. QED
    BY <1>3, <2>1 DEF ReadIdle, drawVars
<1>4. CASE ReadEmit
  BY <1>4 DEF ReadEmit
<1>5. ASSUME NEW f \in BOOLEAN, ReadReturn(f) PROVE RestPending'
  <2>1. rpc' = "start" /\ (f => frameWhole')
    BY <1>5 DEF ReadReturn
  <2>2. ~f => pending' = Append(pending, "frame")
    BY <1>5 DEF ReadReturn
  <2>3. ~f => Rest(pending')
    BY <1>0, <2>2
  <2>4. QED
    BY <2>1, <2>3
<1>6. CASE CloseBuffer
  <2>1. UNCHANGED <<rpc, frameWhole>>
    BY <1>6 DEF CloseBuffer, drawVars
  <2>2. pending' = pending \/ pending' = Append(pending, "close")
    BY <1>6 DEF CloseBuffer
  <2>3. Rest(pending) => Rest(pending')
    BY <1>0, <2>2
  <2>4. QED
    BY <2>1, <2>3
<1>7. CASE /\ UNCHANGED <<pending, frameWhole>>
           /\ \/ rpc' = rpc
              \/ rpc' = "done"
              \/ rpc \in {"check", "choose", "select", "clear"} /\ rpc' # "start"
  BY <1>7
<1>8. QED
  <2> USE DEF drawVars, outVars, pcVars
  <2>1. CASE UNCHANGED vars
    BY <1>7, <2>1 DEF vars
  <2>2. CASE Writer
    BY <1>7, <2>2 DEF Writer, WriteBegin, WriteSend, ClientDone, Notify
  <2>3. CASE Puller
    BY <1>7, <2>3 DEF Puller, PullData, PullReport, PullCheck, PullCopy,
                      PullNotify, PullEof, PullNotifyErr, Notify
  <2>4. CASE Reader
    BY <1>1, <1>2, <1>3, <1>4, <1>5, <1>7, <2>4
    DEF Reader, ReadFailed, ReadCheckDropped, ReadSelect, ReadClear
  <2>5. CASE Resize \/ CloseUpstream
    BY <1>7, <2>5 DEF Resize, CloseUpstream
  <2>6. ASSUME NEW e \in Epochs, Callback(e) PROVE RestPending'
    BY <1>7, <2>6 DEF Callback, CloseEpoch, CloseEpochNotify, Notify
  <2>7. QED
    BY <1>6, <2>1, <2>2, <2>3, <2>4, <2>5, <2>6 DEF Next

-----------------------------------------------------------------------------
(* No wakeup is lost before a reader has looked.                           *)
Accounted == \/ droppedUpdate
             \/ rpc \in {"clear", "emit", "done"}
             \/ ppc = "notify"
             \/ \E e \in Epochs : callback[e] = "notify"

(* A notification is taken or leaves its mark.                             *)
LEMMA NotifyAccounts ==
  ASSUME NEW err, Notify(err)
  PROVE  droppedUpdate' \/ rpc' \in {"clear", "done"}
BY DEF Notify

LEMMA WakeupStep ==
  TypeOK /\ CallbacksOpened /\ WakeupAccounted /\ [Next]_vars => WakeupAccounted'
<1> SUFFICES ASSUME TypeOK, CallbacksOpened, WakeupAccounted, [Next]_vars
             PROVE  WakeupAccounted'
  OBVIOUS
<1>0. (WakeupAccounted <=> (NeedsFrame => Accounted))
      /\ (WakeupAccounted' <=> (NeedsFrame' => Accounted'))
  BY DEF WakeupAccounted, Accounted
<1>1. droppedUpdate' \/ rpc' \in {"clear", "done"} => Accounted'
  BY DEF Accounted
<1>2. ASSUME NEW r \in BOOLEAN, WriteBegin(r) PROVE Accounted'
  BY <1>1, <1>2, NotifyAccounts DEF WriteBegin
<1>3. CASE PullNotify \/ PullNotifyErr \/ \E e \in Epochs : CloseEpochNotify(e)
  BY <1>0, <1>1, <1>3, NotifyAccounts DEF PullNotify, PullNotifyErr, CloseEpochNotify
<1>4. ASSUME NEW e \in Epochs, CloseEpoch(e) PROVE Accounted'
  <2>1. callback'[e] = "notify"
    BY <1>4 DEF CloseEpoch, TypeOK
  <2>2. QED
    BY <2>1 DEF Accounted
<1>5. CASE PullCopy
  BY <1>0, <1>5 DEF PullCopy, Accounted
<1>6. CASE ReadClear
  BY <1>0, <1>6 DEF ReadClear, Accounted
<1>7. CASE ReadEmit
  <2>1. localState' = completeRemoteState' /\ predictions' \subseteq shown'
    BY <1>7 DEF ReadEmit, FrameBase, fbVars
  <2>2. QED
    BY <1>0, <2>1 DEF NeedsFrame
<1>8. CASE Resize
  <2>1. /\ predictions' = {} /\ UNCHANGED <<localState, completeRemoteState>>
    BY <1>8 DEF Resize, drawVars
  <2>2. UNCHANGED <<droppedUpdate, rpc, ppc, callback>>
    BY <1>8 DEF Resize, errVars, pcVars
  <2>3. NeedsFrame' => NeedsFrame
    BY <2>1 DEF NeedsFrame
  <2>4. Accounted => Accounted'
    BY <2>2 DEF Accounted
  <2>5. QED
    BY <1>0, <2>3, <2>4
<1>9. ASSUME NEW ok \in BOOLEAN, WriteSend(ok) PROVE WakeupAccounted'
  <2>1. UNCHANGED <<localState, completeRemoteState, predictions, shown,
                    droppedUpdate, rpc, ppc>>
    BY <1>9 DEF WriteSend, drawVars, fbVars, predVars, errVars
  <2>2. \A e \in Epochs : callback[e] = "notify" => callback'[e] = "notify"
    BY <1>9 DEF WriteSend, TypeOK, CallbacksOpened
  <2>3. Accounted => Accounted'
    BY <2>1, <2>2 DEF Accounted
  <2>4. QED
    BY <1>0, <2>1, <2>3 DEF NeedsFrame
<1>10. CASE /\ UNCHANGED <<localState, completeRemoteState, predictions, shown,
                           droppedUpdate, callback>>
            /\ ppc = "notify" => ppc' = "notify"
            /\ \/ rpc' = rpc \/ rpc' = "done"
               \/ rpc \notin {"clear", "emit", "done"}
  BY <1>0, <1>10 DEF NeedsFrame, Accounted
<1>11. QED
  <2> USE DEF fbVars, drawVars, predVars, errVars, pcVars
  <2>1. CASE UNCHANGED vars
    BY <1>10, <2>1 DEF vars
  <2>2. CASE Writer
    BY <1>0, <1>2, <1>9, <1>10, <2>2 DEF Writer, ClientDone
  <2>3. CASE Puller
    <3>1. ASSUME NEW r \in BOOLEAN, PullData(r) PROVE WakeupAccounted'
      BY <1>10, <3>1 DEF PullData
    <3>2. ASSUME NEW ok \in BOOLEAN, PullReport(ok) PROVE WakeupAccounted'
      BY <1>10, <3>2 DEF PullReport
    <3>3. CASE PullCheck \/ PullEof
      BY <1>10, <3>3 DEF PullCheck, PullEof
    <3>4. QED
      BY <1>0, <1>3, <1>5, <2>3, <3>1, <3>2, <3>3 DEF Puller
  <2>4. CASE Reader
    BY <1>0, <1>6, <1>7, <1>10, <2>4
    DEF Reader, ReadPending, ReadOpen, ReadFailed, ReadIdle, ReadCheckDropped,
        ReadSelect, ReadReturn
  <2>5. CASE CloseBuffer \/ CloseUpstream
    BY <1>10, <2>5 DEF CloseBuffer, CloseUpstream
  <2>6. ASSUME NEW e \in Epochs, Callback(e) PROVE WakeupAccounted'
    BY <1>0, <1>3, <1>4, <2>6 DEF Callback
  <2>7. QED
    BY <1>8, <2>1, <2>2, <2>3, <2>4, <2>5, <2>6 DEF Next

-----------------------------------------------------------------------------
(* Nothing is held back for nothing.                                       *)
LEMMA FreeStep == ReleasedWhenFree /\ [Next]_vars => ReleasedWhenFree'
<1> SUFFICES ASSUME ReleasedWhenFree, [Next]_vars PROVE ReleasedWhenFree'
  OBVIOUS
<1> USE DEF ReleasedWhenFree, fbVars, epochVars, errVars, pcVars
<1>1. CASE Puller
  BY <1>1 DEF Puller, PullData, PullReport, PullCheck, AfterCheck, PullCopy, PullNotify,
              PullEof, PullNotifyErr
<1>2. ASSUME NEW r \in BOOLEAN, WriteBegin(r) PROVE ReleasedWhenFree'
  BY <1>2 DEF WriteBegin
<1>3. ASSUME NEW e \in Epochs, CloseEpoch(e) PROVE ReleasedWhenFree'
  BY <1>3 DEF CloseEpoch
<1>4. CASE UNCHANGED <<pendingRemoteState, completeRemoteState, pendingEpoch, ppc,
                       lastUpstreamErr>>
  BY <1>4
<1>5. QED
  <2>1. CASE UNCHANGED vars
    BY <1>4, <2>1 DEF vars
  <2>2. CASE Writer
    BY <1>2, <1>4, <2>2 DEF Writer, WriteSend, ClientDone
  <2>3. CASE Reader
    BY <1>4, <2>3 DEF Reader, ReadPending, ReadOpen, ReadFailed, ReadIdle, ReadCheckDropped,
                      ReadSelect, ReadClear, ReadEmit, ReadReturn
  <2>4. CASE Resize \/ CloseBuffer \/ CloseUpstream
    BY <1>4, <2>4 DEF Resize, CloseBuffer, CloseUpstream
  <2>5. ASSUME NEW e \in Epochs, CloseEpochNotify(e) PROVE ReleasedWhenFree'
    BY <1>4, <2>5 DEF CloseEpochNotify
  <2>6. QED
    BY <1>1, <1>3, <2>1, <2>2, <2>3, <2>4, <2>5 DEF Next, Callback

-----------------------------------------------------------------------------
(* What the interposer shows is what Screen allows.                        *)
Limit == IF pendingEpoch THEN heldOut ELSE MaxOut
pictureVars == <<pendingRemoteState, completeRemoteState, localState, Limit>>

LEMMA PictureStep ==
  TypeOK /\ TypeOK' /\ StatesOrdered /\ HeldBack /\ CopyCurrent /\ CopyAllowed /\ [Next]_vars
    => Picture!Next \/ UNCHANGED pictureVars
<1> SUFFICES ASSUME TypeOK, TypeOK', StatesOrdered, HeldBack, CopyCurrent, CopyAllowed,
                    [Next]_vars
             PROVE  Picture!Next \/ UNCHANGED pictureVars
  OBVIOUS
<1> USE DEF pictureVars, Limit
<1>0. /\ pendingRemoteState \in Screens /\ completeRemoteState \in Screens
      /\ pendingRemoteState' \in Screens
      /\ heldOut \in 0..MaxOut /\ pendingEpoch \in BOOLEAN
  BY DEF TypeOK
<1>1. ASSUME NEW r \in BOOLEAN, WriteBegin(r) PROVE Picture!Next
  <2>1. Limit' = pendingRemoteState.out
    BY <1>1 DEF WriteBegin, CopyCurrent
  <2>2. Limit' \in completeRemoteState.out .. pendingRemoteState.out
    BY <1>0, <2>1, BoundsAssumption DEF StatesOrdered, Behind, Screens
  <2>3. Picture!Hold
    BY <1>1, <2>2 DEF WriteBegin, Picture!Hold, fbVars
  <2>4. QED
    BY <2>3 DEF Picture!Next
<1>2. ASSUME NEW r \in BOOLEAN, PullData(r) PROVE Picture!Next
  <2>1. pendingRemoteState'.out = emulator.out + 1 /\ pendingRemoteState'.size = emulator.size
    BY <1>2 DEF TypeOK, PullData, Screens
  <2>2. /\ emulator.out \in Nat /\ pendingRemoteState.out = emulator.out
        /\ pendingRemoteState.size <= emulator.size /\ pendingRemoteState' = emulator'
    <3>1. emulator \in Screens
      BY DEF TypeOK
    <3>2. QED
      BY <1>2, <3>1, BoundsAssumption DEF PullData, StatesOrdered, Behind, CopyCurrent, Screens
  <2>3. Picture!Behind(pendingRemoteState, pendingRemoteState')
    BY <2>1, <2>2 DEF Picture!Behind
  <2>4. Picture!Receive
    BY <1>0, <1>2, <2>3 DEF PullData, Picture!Receive, drawVars, epochVars
  <2>5. QED
    BY <2>4 DEF Picture!Next
<1>3. CASE PullCopy
  <2>1. pendingRemoteState.out <= Limit
    BY <1>0, <1>3, BoundsAssumption DEF PullCopy, CopyAllowed, Screens
  <2>2. Picture!Release
    BY <1>3, <2>1 DEF PullCopy, Picture!Release, drawVars, epochVars
  <2>3. QED
    BY <2>2 DEF Picture!Next
<1>4. ASSUME NEW e \in Epochs, CloseEpoch(e) PROVE Picture!Next
  <2>1. Limit' \in {pendingRemoteState.out, MaxOut}
    BY <1>4 DEF CloseEpoch
  <2>2. Picture!Answer
    BY <1>4, <2>1 DEF CloseEpoch, Picture!Answer, drawVars
  <2>3. QED
    BY <2>2 DEF Picture!Next
<1>5. CASE ReadEmit
  BY <1>5 DEF ReadEmit, FrameBase, Picture!Next, Picture!Draw, fbVars, epochVars
<1>6. CASE UNCHANGED <<pendingRemoteState, completeRemoteState, localState, pendingEpoch, heldOut>>
  BY <1>6
<1>7. QED
  <2> USE DEF fbVars, drawVars, epochVars
  <2>1. CASE UNCHANGED vars
    BY <1>6, <2>1 DEF vars
  <2>2. CASE Writer
    BY <1>1, <1>6, <2>2 DEF Writer, WriteSend, ClientDone
  <2>3. CASE Puller
    BY <1>2, <1>3, <1>6, <2>3
    DEF Puller, PullReport, PullCheck, PullNotify, PullEof, PullNotifyErr
  <2>4. CASE Reader
    BY <1>5, <1>6, <2>4 DEF Reader, ReadPending, ReadOpen, ReadFailed, ReadIdle,
                            ReadCheckDropped, ReadSelect, ReadClear, ReadReturn
  <2>5. CASE Resize \/ CloseBuffer \/ CloseUpstream
    BY <1>6, <2>5 DEF Resize, CloseBuffer, CloseUpstream
  <2>6. ASSUME NEW e \in Epochs, CloseEpochNotify(e) PROVE UNCHANGED pictureVars
    BY <1>6, <2>6 DEF CloseEpochNotify
  <2>7. QED
    BY <1>4, <2>1, <2>2, <2>3, <2>4, <2>5, <2>6 DEF Next, Callback

-----------------------------------------------------------------------------
LEMMA IInvStep == IInv /\ [Next]_vars => IInv'
BY TypeStep, StatesOrderedStep, WakeupStep, HeldBackStep, CallbacksStep, RestPendingStep
DEF IInv

(* Every state of every run satisfies the inductive invariant: the types,  *)
(* the order of the framebuffers, and the parts below.                     *)
THEOREM Inductive == Spec => []IInv
BY InitIInv, IInvStep, PTL DEF Spec

(* Every variable keeps its type (termemu.go:74-112).                      *)
THEOREM Types == Spec => []TypeOK
<1>1. IInv => TypeOK
  BY DEF IInv
<1>2. QED
  BY <1>1, Inductive, PTL

(* The client's frame never runs ahead of the released state, nor that of  *)
(* what was received (termemu.go:333, :355-377, :475).                     *)
THEOREM Ordered == Spec => []StatesOrdered
<1>1. IInv => StatesOrdered
  BY DEF IInv
<1>2. QED
  BY <1>1, Inductive, PTL

(* The screen never goes back (termemu.go:473-482).                        *)
THEOREM Advances == Spec => ScreenAdvances
<1>1. IInv /\ [Next]_vars => [Behind(localState, localState')]_localState
  BY ScreenAdvancesStep DEF IInv
<1>2. QED
  BY <1>1, Inductive, PTL DEF Spec, ScreenAdvances

(* No change of the picture is forgotten (termemu.go:342-347, :384-388,    *)
(* :453-482, :527-531).                                                    *)
THEOREM Wakeups == Spec => []WakeupAccounted
<1>1. IInv => WakeupAccounted
  BY DEF IInv
<1>2. QED
  BY <1>1, Inductive, PTL

(* Output that follows a keystroke is held back, although pendingEpoch is  *)
(* read without the mutex (termemu.go:376-378).                            *)
THEOREM Held == Spec => []HeldBack
<1>1. IInv => HeldBack
  BY DEF IInv
<1>2. QED
  BY <1>1, Inductive, PTL

(* Output flows freely only once the newest keystroke has been answered    *)
(* (termemu.go:327-336).                                                   *)
THEOREM Released == Spec => []ReleasedWhenAnswered
<1>1. IInv => ReleasedWhenAnswered
  BY DEF IInv
<1>2. QED
  BY <1>1, Inductive, PTL

(* A frame is drawn only when the client has all of the frame it is drawn  *)
(* against (termemu.go:412-422, :475-493).                                 *)
THEOREM Deltas == Spec => []DeltaBase
<1>1. IInv => DeltaBase
  BY DEF IInv, RestPending
<1>2. QED
  BY <1>1, Inductive, PTL

(* Output is held back only while an epoch is pending, or until the puller *)
(* has copied what it read (termemu.go:327-336, :361-378).                 *)
THEOREM Free == Spec => []ReleasedWhenFree
<1>1. Init => ReleasedWhenFree
  BY DEF Init, ReleasedWhenFree
<1>2. QED
  BY <1>1, FreeStep, PTL DEF Spec

(* The interposer shows what Screen allows (termemu.go:327-336, :376-378,  *)
(* :475, :537): the picture is the server's and never goes back, and what  *)
(* followed a keystroke waits for an answer.                               *)
THEOREM Refinement == Spec => IsScreen
<1>1. Init => Picture!Init
  BY DEF Init, Picture!Init, Blank
<1>2. IInv /\ IInv' /\ [Next]_vars => [Picture!Next]_pictureVars
  BY PictureStep DEF IInv
<1>3. QED
  BY <1>1, <1>2, Inductive, PTL DEF Spec, IsScreen, Picture!Spec, pictureVars, Limit
=============================================================================
