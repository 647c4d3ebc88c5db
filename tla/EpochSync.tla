-------------------------------- MODULE EpochSync --------------------------------
(***************************************************************************)
(* How an epoch is tied to the output that reflects it: Interposer.Write,  *)
(* the Asynk behind it, the callback of cmd/nosshtradamus/main.go, which   *)
(* sends a ping request for each Write and closes the epoch when it is     *)
(* answered, and the puller, all on one SSH channel.                       *)
(*                                                                         *)
(*   writer     Interposer.Write in a loop                                 *)
(*   sink       the goroutine of the Asynk                                 *)
(*   callbacks  one goroutine per epoch                                    *)
(*   mux        x/crypto/ssh, which sorts what arrives into output and     *)
(*              replies                                                    *)
(*   puller     pullFromUpstream                                           *)
(*                                                                         *)
(* Write e is what is typed in epoch e, and its echo what the server then  *)
(* outputs.  Output, and a reply, keep their order on the wire; a reply    *)
(* does not say what it answers, so SendRequest lets one request at a time *)
(* wait (sentRequestMu).  The server takes what arrives in order, echoes   *)
(* and answers at once, as README.md:80-83 assumes.  A fakeDelay and the   *)
(* sleep before CloseEpoch only take time.                                 *)
(***************************************************************************)
EXTENDS Naturals

CONSTANT MaxEpoch \* bound: number of calls of Write

ASSUME EpochAssumption == MaxEpoch \in Nat

VARIABLES
  epoch, pendingEpoch,
  remote, complete, \* echoes in pendingRemoteState, completeRemoteState
  wpc,              \* control state of the writer
  buffered, sent,   \* writes the Asynk has taken, has put on the wire
  callback,         \* control state of each callback
  ping,             \* where the ping of each callback is
  pos,              \* how many writes, or echoes, are before it there
  taken, received,  \* writes the server has echoed, echoes that have arrived
  gone              \* the channel has ended

interVars == <<epoch, pendingEpoch, remote, complete>>
dataVars  == <<wpc, buffered, sent>>
pingVars  == <<callback, ping, pos>>
wireVars  == <<taken, received, gone>>
vars == <<interVars, dataVars, pingVars, wireVars>>

Epochs == 1..MaxEpoch
Counts == 0..MaxEpoch

TypeOK ==
  /\ epoch \in Counts /\ pendingEpoch \in BOOLEAN
  /\ remote \in Counts /\ complete \in 0..remote
  /\ wpc \in {"idle", "send"}
  /\ buffered \in Counts /\ sent \in 0..buffered
  /\ callback \in [Epochs -> {"none", "spawned", "asking", "sleeping", "done"}]
  /\ ping \in [Epochs -> {"none", "up", "down", "back"}] /\ pos \in [Epochs -> Counts]
  /\ taken \in 0..sent /\ received \in remote..taken /\ gone \in BOOLEAN

Init ==
  /\ epoch = 0 /\ pendingEpoch = FALSE /\ remote = 0 /\ complete = 0
  /\ wpc = "idle" /\ buffered = 0 /\ sent = 0
  /\ callback = [e \in Epochs |-> "none"]
  /\ ping = [e \in Epochs |-> "none"] /\ pos = [e \in Epochs |-> 0]
  /\ taken = 0 /\ received = 0 /\ gone = FALSE

-----------------------------------------------------------------------------
(***************************************************************************)
(* Interposer.Write: the epoch is opened under the mutex, then the data is *)
(* handed to the Asynk, then the callback is started.  Asynk.Write may not *)
(* return when its buffer is full: Asynk shows how its caller sleeps on.   *)
(***************************************************************************)
OpenEpoch ==
  /\ wpc = "idle" /\ epoch < MaxEpoch
  /\ epoch' = epoch + 1 /\ pendingEpoch' = TRUE
  /\ wpc' = "send"
  /\ UNCHANGED <<remote, complete, buffered, sent, pingVars, wireVars>>

HandOver ==
  /\ wpc = "send"
  /\ buffered' = buffered + 1
  /\ callback' = [callback EXCEPT ![epoch] = "spawned"]
  /\ wpc' = "idle"
  /\ UNCHANGED <<interVars, sent, ping, pos, wireVars>>

(* The sink; upstream.Write returns when the data is on the wire.          *)
SinkWrite ==
  /\ sent < buffered /\ ~gone
  /\ sent' = sent + 1
  /\ UNCHANGED <<interVars, wpc, buffered, pingVars, wireVars>>

-----------------------------------------------------------------------------
(***************************************************************************)
(* The callback: SendRequest, a sleep, CloseEpoch.                         *)
(***************************************************************************)
Ping(e) ==
  /\ callback[e] = "spawned" /\ ~gone
  /\ \A f \in Epochs : callback[f] # "asking"
  /\ callback' = [callback EXCEPT ![e] = "asking"]
  /\ ping' = [ping EXCEPT ![e] = "up"] /\ pos' = [pos EXCEPT ![e] = sent]
  /\ UNCHANGED <<interVars, dataVars, wireVars>>

(* The channel has ended: SendRequest fails, and the error is ignored.     *)
PingFails_Returns(e) == \* mutant: gives up when the request fails
  /\ gone /\ callback[e] \in {"spawned", "asking"}
  /\ callback' = [callback EXCEPT ![e] = "returned"]
  /\ UNCHANGED <<interVars, dataVars, ping, pos, wireVars>>

PingFails(e) ==
  /\ gone /\ callback[e] \in {"spawned", "asking"}
  /\ callback' = [callback EXCEPT ![e] = "sleeping"]
  /\ UNCHANGED <<interVars, dataVars, ping, pos, wireVars>>

(* Interposer.CloseEpoch.                                                  *)
CloseEpoch_Keeps(e) == \* mutant: leaves the frame to the puller
  /\ callback[e] = "sleeping"
  /\ pendingEpoch' = (epoch > e)
  /\ callback' = [callback EXCEPT ![e] = "done"]
  /\ UNCHANGED <<epoch, remote, complete, dataVars, ping, pos, wireVars>>

CloseEpoch_Arrived(e) == \* mutant: takes output the emulator has not seen for released
  /\ callback[e] = "sleeping"
  /\ complete' = received
  /\ pendingEpoch' = (epoch > e)
  /\ callback' = [callback EXCEPT ![e] = "done"]
  /\ UNCHANGED <<epoch, remote, dataVars, ping, pos, wireVars>>

CloseEpoch(e) ==
  /\ callback[e] = "sleeping"
  /\ complete' = remote
  /\ pendingEpoch' = (epoch > e)
  /\ callback' = [callback EXCEPT ![e] = "done"]
  /\ UNCHANGED <<epoch, remote, dataVars, ping, pos, wireVars>>

-----------------------------------------------------------------------------
(***************************************************************************)
(* The server and the wire.  Nothing overtakes a ping, nor its reply.      *)
(***************************************************************************)
ServerEcho ==
  /\ ~gone /\ taken < sent
  /\ \A e \in Epochs : ping[e] = "up" => taken < pos[e]
  /\ taken' = taken + 1
  /\ UNCHANGED <<interVars, dataVars, pingVars, received, gone>>

ServerReply(e) ==
  /\ ~gone /\ ping[e] = "up" /\ taken = pos[e]
  /\ ping' = [ping EXCEPT ![e] = "down"]
  /\ UNCHANGED <<interVars, dataVars, callback, pos, wireVars>>

MuxOutput ==
  /\ ~gone /\ received < taken
  /\ \A e \in Epochs : ping[e] = "down" => received < pos[e]
  /\ received' = received + 1
  /\ UNCHANGED <<interVars, dataVars, pingVars, taken, gone>>

(* A reply wakes whoever waits for one.                                    *)
MuxReply(e) ==
  /\ ~gone /\ ping[e] = "down" /\ received = pos[e]
  /\ ping' = [ping EXCEPT ![e] = "back"]
  /\ \E f \in Epochs :
       /\ callback[f] = "asking"
       /\ callback' = [callback EXCEPT ![f] = "sleeping"]
  /\ UNCHANGED <<interVars, dataVars, pos, wireVars>>

ChannelEnds ==
  /\ ~gone /\ gone' = TRUE
  /\ UNCHANGED <<interVars, dataVars, pingVars, taken, received>>

(* pullFromUpstream: a Read takes what has arrived, and releases it unless *)
(* an epoch is pending (Interposer has the steps of this).                 *)
Pull ==
  /\ remote < received
  /\ remote' = received
  /\ complete' = IF pendingEpoch THEN complete ELSE received
  /\ UNCHANGED <<epoch, pendingEpoch, dataVars, pingVars, wireVars>>

-----------------------------------------------------------------------------
Callback(e) == Ping(e) \/ PingFails(e) \/ CloseEpoch(e)

Wire == ServerEcho \/ MuxOutput \/ \E e \in Epochs : ServerReply(e) \/ MuxReply(e)

Next == \/ OpenEpoch \/ HandOver \/ SinkWrite \/ Wire \/ ChannelEnds \/ Pull
        \/ \E e \in Epochs : Callback(e)

Spec == Init /\ [][Next]_vars

(***************************************************************************)
(* Fairness: the goroutines run, and what is on the wire arrives and is    *)
(* answered until the channel ends.  sync.Mutex starves no one, so of      *)
(* several callbacks each gets to send.  HandOver is not fair, because     *)
(* Asynk.Write need not return.                                            *)
(***************************************************************************)
FairSpec ==
  /\ Spec
  /\ WF_vars(SinkWrite) /\ WF_vars(Wire) /\ WF_vars(Pull)
  /\ \A e \in Epochs : SF_vars(Callback(e))

-----------------------------------------------------------------------------
(***************************************************************************)
(* Properties.                                                             *)
(***************************************************************************)

(* Every epoch whose callback was started is closed, whatever becomes of   *)
(* its ping and of those before it: one that is late, or finds the channel *)
(* gone, still closes its epoch (main.go:332-348).                         *)
EpochsClosed == \A e \in Epochs : callback[e] # "none" ~> callback[e] = "done"

(* What EpochsClosed rests on: a callback that waits for a reply has its   *)
(* own ping, or the reply, on the wire, so nobody else takes the reply     *)
(* (main.go:340).                                                          *)
WaitAnswered == \A e \in Epochs : callback[e] = "asking" /\ ~gone => ping[e] \in {"up", "down"}

(* The echoes that have arrived are released, however epochs overlap.  The *)
(* exception: they are held back for good when an epoch is pending that no *)
(* callback is going to close.  Either the last was closed before an       *)
(* earlier one, or its Write has not returned from the Asynk               *)
(* (termemu.go:327-334, :376, :541-542).                                   *)
HeldBack == pendingEpoch /\ \A e \in 1..epoch : callback[e] \in {"none", "done"}

(* What this module says of the interposer is what Interposer says of it:  *)
(* both implement Screen.  Nothing is drawn here, and an echo is output.   *)
Echoes(k) == [out |-> k, size |-> 0]

Picture == INSTANCE Screen WITH
             Frame <- {Echoes(k) : k \in Counts}, NoLimit <- MaxEpoch,
             received <- Echoes(remote), released <- Echoes(complete),
             drawn <- Echoes(0), limit <- IF pendingEpoch THEN complete ELSE MaxEpoch

IsScreen == Picture!Spec

=============================================================================
