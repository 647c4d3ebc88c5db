------------------------------ MODULE Interposer ------------------------------
(***************************************************************************)
(* The predictive interposer of internal/predictive/termemu.go: one        *)
(* Interposer, the goroutines that call it and the goroutines it starts.   *)
(*                                                                         *)
(*   reader     io.Copy(clientChan, interposer): Read in a loop            *)
(*   writer     io.Copy(interposer, clientChan): Write in a loop           *)
(*   puller     pullFromUpstream, started by Interpose                     *)
(*   callbacks  one goroutine per Write, which ends by calling CloseEpoch  *)
(*   requests   the pty-req / window-change handler, which calls Resize    *)
(*   closer     the goroutine that calls Close when the client is done     *)
(*                                                                         *)
(* A section under emulatorMutex is one step, and every access outside the *)
(* mutex is a step of its own.  A framebuffer is abstracted to the number  *)
(* of upstream chunks and of resizes it reflects; a prediction to the      *)
(* epoch of the Write that made it.  The predictor and the emulator are    *)
(* go-mosh, modelled from the calls termemu.go makes on them.  Time only   *)
(* delays the steps: the coalescing sleep is the gap between ReadIdle and  *)
(* ReadCheckDropped.                                                       *)
(***************************************************************************)
EXTENDS Naturals, Sequences

CONSTANTS
  MaxEpoch, \* bound: number of calls of Write
  MaxOut,   \* bound: number of chunks read from the upstream
  MaxSize   \* bound: number of calls of Resize

ASSUME BoundsAssumption ==
  MaxEpoch \in Nat /\ MaxOut \in Nat /\ MaxSize \in Nat

VARIABLES
  emulator,            \* framebuffer of the terminal emulator
  pendingRemoteState,  \* copy of it after the last chunk
  completeRemoteState, \* copy of that which frames may be drawn from
  localState,          \* the frame drawn last
  initialized,         \* FALSE: the next frame is drawn from scratch
  opened,              \* display.Open() has been sent
  pending,             \* bytes a Read could not return yet
  epoch,
  pendingEpoch,
  pendingEpochStarted, \* the epoch whose opening time it holds, 0 for none
  lastUpstreamErr,
  droppedUpdate,
  predictions,         \* predictor: epochs with a prediction in flight
  lateAcked,           \* predictor: the epoch acknowledged last
  shown,               \* predictions drawn in localState
  rpc, ppc, wpc, cpc,  \* control state of reader, puller, writer, closer
  callback,            \* control state of the callback of each epoch
  heldOut,             \* history: emulator.out at the last Write or CloseEpoch
  frameWhole           \* history: the client has all bytes of localState's frame

fbVars   == <<emulator, pendingRemoteState, completeRemoteState>>
drawVars == <<localState, initialized, shown, frameWhole>>
outVars  == <<opened, pending>>
epochVars == <<epoch, pendingEpoch, pendingEpochStarted, heldOut>>
predVars == <<predictions, lateAcked>>
errVars  == <<lastUpstreamErr, droppedUpdate>>
pcVars   == <<rpc, ppc, wpc, cpc, callback>>
vars == <<fbVars, drawVars, outVars, epochVars, predVars, errVars, pcVars>>

Epochs  == 1..MaxEpoch
Screens == [out : 0..MaxOut, size : 0..MaxSize]
Blank   == [out |-> 0, size |-> 0]
Errors  == {"nil", "eof", "err"}

ReaderStates == {"start", "check", "choose", "select", "clear", "emit", "return", "done"}
PullerStates == {"read", "report", "publish", "copy", "notify", "notifyErr", "done"}
CallbackStates == {"none", "spawned", "notify", "done"}

TypeOK ==
  /\ emulator \in Screens /\ pendingRemoteState \in Screens
  /\ completeRemoteState \in Screens /\ localState \in Screens
  /\ initialized \in BOOLEAN /\ opened \in BOOLEAN
  /\ pending \in Seq({"open", "frame", "close"})
  /\ epoch \in 0..MaxEpoch /\ pendingEpochStarted \in 0..MaxEpoch
  /\ pendingEpoch \in BOOLEAN
  /\ lastUpstreamErr \in Errors /\ droppedUpdate \in BOOLEAN
  /\ predictions \in SUBSET Epochs /\ shown \in SUBSET Epochs
  /\ lateAcked \in 0..MaxEpoch
  /\ rpc \in ReaderStates /\ ppc \in PullerStates
  /\ wpc \in {"idle", "send", "stopped"}
  /\ cpc \in {"open", "closing", "closed"}
  /\ callback \in [Epochs -> CallbackStates]
  /\ heldOut \in 0..MaxOut /\ frameWhole \in BOOLEAN

(***************************************************************************)
(* Interpose: the state a new interposer starts in.                        *)
(***************************************************************************)
Init ==
  /\ emulator = Blank /\ pendingRemoteState = Blank
  /\ completeRemoteState = Blank /\ localState = Blank
  /\ initialized = FALSE /\ opened = FALSE /\ pending = <<>>
  /\ epoch = 0 /\ pendingEpoch = FALSE /\ pendingEpochStarted = 0
  /\ lastUpstreamErr = "nil" /\ droppedUpdate = FALSE
  /\ predictions = {} /\ lateAcked = 0 /\ shown = {}
  /\ rpc = "start" /\ ppc = "read" /\ wpc = "idle" /\ cpc = "open"
  /\ callback = [e \in Epochs |-> "none"]
  /\ heldOut = 0 /\ frameWhole = TRUE

-----------------------------------------------------------------------------
(***************************************************************************)
(* The non-blocking put on upstreamErr or predictionNotification: the      *)
(* channels are unbuffered, so it is taken only by a reader parked in the  *)
(* select, and otherwise leaves the mark droppedUpdate.  A reader that     *)
(* takes an error returns it (after display.Close() when it is EOF).       *)
(***************************************************************************)
Notify_ForgetsDrop(err) == \* mutant: the default branch leaves no mark
  /\ rpc' = IF rpc = "select" THEN "clear" ELSE rpc
  /\ UNCHANGED droppedUpdate

Notify(err) ==
  \/ /\ rpc = "select"
     /\ rpc' = IF err = "nil" THEN "clear" ELSE "done"
     /\ UNCHANGED droppedUpdate
  \/ /\ rpc # "select"
     /\ droppedUpdate' = TRUE
     /\ UNCHANGED rpc

(***************************************************************************)
(* predictor.Cull (go-mosh): every prediction whose epoch is acknowledged  *)
(* is compared with the frame and leaves, and a wrong one may take all     *)
(* others with it.                                                         *)
(***************************************************************************)
Culled == LET waiting == {e \in predictions : e > lateAcked}
          IN  {waiting} \cup (IF waiting # predictions THEN {{}} ELSE {})

(***************************************************************************)
(* Write.  WriteBegin is the section under emulatorMutex, WriteSend the    *)
(* hand-over to the asynk, which starts the callback whatever it returns;  *)
(* io.Copy stops at an error or a short count, and when the client sends   *)
(* no more (ClientDone).                                                   *)
(***************************************************************************)
PendingSince_Next == epoch + 2 \* mutant: names the epoch after the new one
PendingSince ==
  IF pendingEpochStarted = 0 THEN epoch + 1 ELSE pendingEpochStarted

WriteBegin(repaint) ==
  /\ wpc = "idle" /\ cpc = "open" /\ epoch < MaxEpoch
  /\ pendingEpochStarted' = PendingSince
  /\ predictions' = predictions \cup {epoch + 1}
  /\ initialized' = (initialized /\ ~repaint)
  /\ Notify("nil")
  /\ epoch' = epoch + 1
  /\ pendingEpoch' = TRUE
  /\ heldOut' = emulator.out
  /\ wpc' = "send"
  /\ UNCHANGED <<fbVars, localState, shown, frameWhole, outVars,
                 lateAcked, lastUpstreamErr, ppc, cpc, callback>>

WriteSend(ok) ==
  /\ wpc = "send"
  /\ wpc' = IF ok THEN "idle" ELSE "stopped"
  /\ callback' = [callback EXCEPT ![epoch] = "spawned"]
  /\ UNCHANGED <<fbVars, drawVars, outVars, epochVars, predVars, errVars,
                 rpc, ppc, cpc>>

ClientDone ==
  /\ wpc = "idle"
  /\ wpc' = "stopped"
  /\ UNCHANGED <<fbVars, drawVars, outVars, epochVars, predVars, errVars,
                 rpc, ppc, cpc, callback>>

(***************************************************************************)
(* CloseEpoch, called by the callback goroutine of epoch e.  Goroutines    *)
(* run in no particular order, and so do the calls.                        *)
(***************************************************************************)
StillPending(e) == epoch > e

CloseEpoch(e) ==
  /\ callback[e] = "spawned"
  /\ lateAcked' = e
  /\ completeRemoteState' = pendingRemoteState
  /\ pendingEpoch' = StillPending(e)
  /\ pendingEpochStarted' = IF StillPending(e) THEN pendingEpochStarted ELSE 0
  /\ heldOut' = pendingRemoteState.out
  /\ callback' = [callback EXCEPT ![e] = "notify"]
  /\ UNCHANGED <<emulator, pendingRemoteState, drawVars, outVars, epoch,
                 predictions, errVars, rpc, ppc, wpc, cpc>>

CloseEpochNotify(e) ==
  /\ callback[e] = "notify"
  /\ Notify("nil")
  /\ callback' = [callback EXCEPT ![e] = "done"]
  /\ UNCHANGED <<fbVars, drawVars, outVars, epochVars, predVars,
                 lastUpstreamErr, ppc, wpc, cpc>>

(***************************************************************************)
(* pullFromUpstream: read a chunk, let the emulator act on it, write the   *)
(* emulator's own reports back, release the result unless an epoch is      *)
(* pending (read without the mutex, and acted on later), and notify.       *)
(***************************************************************************)
PullData(reports) ==
  /\ ppc = "read" /\ emulator.out < MaxOut
  /\ emulator' = [emulator EXCEPT !.out = @ + 1]
  /\ pendingRemoteState' = emulator'
  /\ ppc' = IF reports THEN "report" ELSE "publish"
  /\ UNCHANGED <<completeRemoteState, drawVars, outVars, epochVars, predVars,
                 errVars, rpc, wpc, cpc, callback>>

PullReport(ok) ==
  /\ ppc = "report"
  /\ ppc' = IF ok THEN "publish" ELSE "notifyErr"
  /\ lastUpstreamErr' = IF ok THEN lastUpstreamErr ELSE "err"
  /\ UNCHANGED <<fbVars, drawVars, outVars, epochVars, predVars,
                 droppedUpdate, rpc, wpc, cpc, callback>>

AfterCheck_Always == "copy" \* mutant: released whatever is pending
AfterCheck == IF pendingEpoch THEN "notify" ELSE "copy"

PullCheck ==
  /\ ppc = "publish"
  /\ ppc' = AfterCheck
  /\ UNCHANGED <<fbVars, drawVars, outVars, epochVars, predVars, errVars,
                 rpc, wpc, cpc, callback>>

PullCopy ==
  /\ ppc = "copy"
  /\ completeRemoteState' = pendingRemoteState
  /\ ppc' = "notify"
  /\ UNCHANGED <<emulator, pendingRemoteState, drawVars, outVars, epochVars,
                 predVars, errVars, rpc, wpc, cpc, callback>>

PullNotify ==
  /\ ppc = "notify"
  /\ Notify("nil")
  /\ ppc' = "read"
  /\ UNCHANGED <<fbVars, drawVars, outVars, epochVars, predVars,
                 lastUpstreamErr, wpc, cpc, callback>>

PullEof ==
  /\ ppc = "read"
  /\ lastUpstreamErr' = "eof"
  /\ ppc' = "notifyErr"
  /\ UNCHANGED <<fbVars, drawVars, outVars, epochVars, predVars,
                 droppedUpdate, rpc, wpc, cpc, callback>>

PullNotifyErr ==
  /\ ppc = "notifyErr"
  /\ Notify(lastUpstreamErr)
  /\ ppc' = "done"
  /\ UNCHANGED <<fbVars, drawVars, outVars, epochVars, predVars,
                 lastUpstreamErr, wpc, cpc, callback>>

(***************************************************************************)
(* Read, one action for each way through it.  ReadPending hands out bytes  *)
(* an earlier call kept (all of them, or some), ReadOpen display.Open(),   *)
(* ReadFailed the error that ended the upstream.                           *)
(***************************************************************************)
ReadPending ==
  /\ rpc = "start" /\ pending # <<>>
  /\ \E n \in 1..Len(pending) :
       /\ pending' = SubSeq(pending, n + 1, Len(pending))
       /\ frameWhole' = (frameWhole \/ \E i \in 1..n : pending[i] = "frame")
  /\ UNCHANGED <<fbVars, localState, initialized, shown, opened, epochVars,
                 predVars, errVars, pcVars>>

ReadOpen(fits) ==
  /\ rpc = "start" /\ pending = <<>> /\ ~opened
  /\ opened' = TRUE
  /\ pending' = IF fits THEN <<>> ELSE <<"open">>
  /\ UNCHANGED <<fbVars, drawVars, epochVars, predVars, errVars,
                 pcVars>>

ReadFailed ==
  /\ rpc = "start" /\ pending = <<>> /\ opened /\ lastUpstreamErr # "nil"
  /\ rpc' = "done"
  /\ UNCHANGED <<fbVars, drawVars, outVars, epochVars, predVars, errVars,
                 ppc, wpc, cpc, callback>>

ReadIdle_Pending == \* mutant: a frame may overtake the rest of the last one
  /\ rpc = "start" /\ opened /\ lastUpstreamErr = "nil"
  /\ rpc' = "check"
  /\ UNCHANGED <<fbVars, drawVars, outVars, epochVars, predVars, errVars,
                 ppc, wpc, cpc, callback>>

ReadIdle ==
  /\ rpc = "start" /\ pending = <<>> /\ opened /\ lastUpstreamErr = "nil"
  /\ rpc' = "check"
  /\ UNCHANGED <<fbVars, drawVars, outVars, epochVars, predVars, errVars,
                 ppc, wpc, cpc, callback>>

ReadCheckDropped ==
  /\ rpc = "check"
  /\ rpc' = IF droppedUpdate THEN "clear" ELSE "choose"
  /\ UNCHANGED <<fbVars, drawVars, outVars, epochVars, predVars, errVars,
                 ppc, wpc, cpc, callback>>

ReadSelect ==
  /\ rpc = "choose"
  /\ rpc' = "select"
  /\ UNCHANGED <<fbVars, drawVars, outVars, epochVars, predVars, errVars,
                 ppc, wpc, cpc, callback>>

ReadClear ==
  /\ rpc = "clear"
  /\ droppedUpdate' = FALSE
  /\ rpc' = "emit"
  /\ UNCHANGED <<fbVars, drawVars, outVars, epochVars, predVars,
                 lastUpstreamErr, ppc, wpc, cpc, callback>>

FrameBase_Pending == pendingRemoteState \* mutant: draws what is not released
FrameBase == completeRemoteState

ReadEmit ==
  /\ rpc = "emit"
  /\ predictions' \in Culled
  /\ shown' = predictions'
  /\ localState' = FrameBase
  /\ initialized' = TRUE
  /\ frameWhole' = FALSE
  /\ rpc' = "return"
  /\ UNCHANGED <<fbVars, outVars, epochVars, lateAcked, errVars, ppc, wpc,
                 cpc, callback>>

ReadReturn(fits) ==
  /\ rpc = "return"
  /\ pending' = IF fits THEN pending ELSE Append(pending, "frame")
  /\ frameWhole' = fits
  /\ rpc' = "start"
  /\ UNCHANGED <<fbVars, localState, initialized, shown, opened,
                 epochVars, predVars, errVars, ppc, wpc, cpc, callback>>

(***************************************************************************)
(* Resize acts on the emulator and resets the predictor; it notifies no    *)
(* one and leaves the remote states to the next chunk.                     *)
(***************************************************************************)
Resize ==
  /\ cpc = "open" /\ emulator.size < MaxSize
  /\ emulator' = [emulator EXCEPT !.size = @ + 1]
  /\ predictions' = {}
  /\ UNCHANGED <<pendingRemoteState, completeRemoteState, drawVars, outVars,
                 epochVars, lateAcked, errVars, pcVars>>

(***************************************************************************)
(* Close.  handleSshChannel calls it once the client has neither requests  *)
(* nor data left, so after the writer has stopped.                         *)
(***************************************************************************)
CloseBuffer ==
  /\ cpc = "open" /\ wpc = "stopped"
  /\ pending' = IF opened THEN Append(pending, "close") ELSE pending
  /\ cpc' = "closing"
  /\ UNCHANGED <<fbVars, drawVars, opened, epochVars, predVars,
                 errVars, rpc, ppc, wpc, callback>>

CloseUpstream ==
  /\ cpc = "closing"
  /\ cpc' = "closed"
  /\ UNCHANGED <<fbVars, drawVars, outVars, epochVars, predVars, errVars,
                 rpc, ppc, wpc, callback>>

-----------------------------------------------------------------------------
Writer == \/ \E repaint \in BOOLEAN : WriteBegin(repaint)
          \/ \E ok \in BOOLEAN : WriteSend(ok)
          \/ ClientDone

Puller == \/ \E reports \in BOOLEAN : PullData(reports)
          \/ \E ok \in BOOLEAN : PullReport(ok)
          \/ PullCheck \/ PullCopy \/ PullNotify \/ PullEof \/ PullNotifyErr

Reader == \/ ReadPending \/ ReadFailed \/ ReadIdle \/ ReadCheckDropped
          \/ ReadSelect \/ ReadClear \/ ReadEmit
          \/ \E fits \in BOOLEAN : ReadOpen(fits) \/ ReadReturn(fits)

Callback(e) == CloseEpoch(e) \/ CloseEpochNotify(e)

Next == \/ Writer \/ Puller \/ Reader \/ Resize \/ CloseBuffer \/ CloseUpstream
        \/ \E e \in Epochs : Callback(e)

Spec == Init /\ [][Next]_vars

(***************************************************************************)
(* Fairness: a goroutine that can run does run.  Nobody promises that the  *)
(* server speaks (PullData), ends the channel while it is open (PullEof),  *)
(* that the user types, resizes or leaves.  The callback waits for the     *)
(* reply to a request the server must answer, or for the channel to fail.  *)
(***************************************************************************)
Fairness ==
  /\ WF_vars(Reader)
  /\ WF_vars(Puller /\ ppc # "read")
  /\ WF_vars(PullEof /\ cpc = "closed")
  /\ WF_vars(\E ok \in BOOLEAN : WriteSend(ok))
  /\ WF_vars(CloseUpstream)
  /\ \A e \in Epochs : WF_vars(Callback(e))

FairSpec == Spec /\ Fairness

-----------------------------------------------------------------------------
(***************************************************************************)
(* Properties.                                                             *)
(***************************************************************************)

(* What the client sees never runs ahead of what the interposer released,  *)
(* nor that of what the emulator made of the upstream, in output and size, *)
(* although two goroutines assign completeRemoteState and one of them does *)
(* so without the mutex (termemu.go:333, :377).                            *)
Behind(a, b) == a.out <= b.out /\ a.size <= b.size

StatesOrdered ==
  /\ Behind(localState, completeRemoteState)
  /\ Behind(completeRemoteState, pendingRemoteState)
  /\ Behind(pendingRemoteState, emulator)

(* The screen never goes back to an earlier remote state.                  *)
ScreenAdvances == [][Behind(localState, localState')]_localState

(* The picture is the server's, never goes back, and while a keystroke     *)
(* waits for its answer shows nothing that arrived after it, although      *)
(* puller and callbacks release output concurrently and the puller tests   *)
(* pendingEpoch and copies without the mutex (termemu.go:327-336,          *)
(* :376-378, :475, :537).                                                  *)
Picture == INSTANCE Screen WITH
             Frame <- Screens, NoLimit <- MaxOut,
             received <- pendingRemoteState, released <- completeRemoteState,
             drawn <- localState, limit <- IF pendingEpoch THEN heldOut ELSE MaxOut

IsScreen == Picture!Spec

(* The frame a client sees lags what it should see: remote state released  *)
(* after it was drawn, or a keystroke predicted after it was drawn.        *)
NeedsFrame ==
  \/ localState # completeRemoteState
  \/ ~(predictions \subseteq shown)

(* No change is forgotten: as long as the client's screen is out of date,  *)
(* a goroutine is about to notify, the mark droppedUpdate stands, or the   *)
(* reader is past clearing it and has yet to draw (termemu.go:342-347,     *)
(* :384-388, :453-482).                                                    *)
WakeupAccounted ==
  NeedsFrame =>
    \/ droppedUpdate
    \/ rpc \in {"clear", "emit", "done"}
    \/ ppc = "notify"
    \/ \E e \in Epochs : callback[e] = "notify"

(* Output that arrives after a Write stays off the screen until an epoch   *)
(* is closed: the unlocked test of pendingEpoch in pullFromUpstream may    *)
(* be overtaken by a Write, but never releases output that followed it     *)
(* (termemu.go:376-378 against :537).                                      *)
HeldBack == pendingEpoch => completeRemoteState.out <= heldOut

(* And it is held back for that reason only: when no epoch is pending, all *)
(* that arrived is released or still with the puller, whose unlocked test  *)
(* may have seen an epoch that is closed by now.  The exception is output  *)
(* whose report to the server fails (termemu.go:327-336, :361-378).        *)
ReleasedWhenFree ==
  ~pendingEpoch =>
    \/ completeRemoteState = pendingRemoteState
    \/ ppc \in {"report", "publish", "copy"}
    \/ lastUpstreamErr # "nil"

(* Output flows freely only when the newest keystroke has been answered.   *)
ReleasedWhenAnswered ==
  ~pendingEpoch => /\ epoch # 0 => callback[epoch] \in {"notify", "done"}
                   /\ pendingEpochStarted = 0

(* Each frame is a delta against the frame before (display.NewFrame), so   *)
(* one is drawn only when the client has every byte of the last            *)
(* (termemu.go:412-422, :484-493).                                         *)
DeltaBase == rpc \in {"check", "choose", "select", "clear", "emit"} => frameWhole

(* The reader sleeps on a notification that was dropped between its look   *)
(* at droppedUpdate and its select; the next event wakes it.               *)
WakeupLost == rpc = "select" /\ droppedUpdate

(* Released output reaches the screen unless the upstream has ended or the *)
(* reader lost a wakeup in that one window: no other way to strand it.     *)
ReleasedOutputShown ==
  \A k \in 1..MaxOut :
    completeRemoteState.out >= k ~>
      localState.out >= k \/ lastUpstreamErr # "nil" \/ WakeupLost

(* Every keystroke's prediction is drawn or judged, with the same two      *)
(* exceptions, however Writes and acknowledgements interleave.             *)
PredictionShown ==
  \A e \in Epochs :
    e \in predictions ~>
      e \in shown \/ e \notin predictions \/ rpc = "done" \/ WakeupLost

-----------------------------------------------------------------------------
(***************************************************************************)
(* What a comment of the code says and it does not do.                     *)
(***************************************************************************)

(* termemu.go:451, "check if an upstream read is ready -- otherwise wait   *)
(* until one is received": when the upstream has ended, Read returns.      *)
EndIsRead == ppc = "done" ~> rpc = "done"
=============================================================================
