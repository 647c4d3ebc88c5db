------------------------------ MODULE ChannelProxy ------------------------------
(***************************************************************************)
(* One proxied SSH channel: handleSshChannel and reflectRequests of        *)
(* internal/sshproxy/proxy.go, with the request filter that main.go puts   *)
(* in front of an interposed session.                                      *)
(*                                                                         *)
(* handleSshChannel treats its two directions alike: one goroutine copies  *)
(* the data, one the requests, and the second closes the far channel when  *)
(* both are done.  "up" runs from the client to the server, "down" back;   *)
(* the channel that is read in one direction is written in the other.      *)
(* In a filtered channel, a session of a proxy that predicts, requests     *)
(* going up are handed to a goroutine that forwards them, and a pty-req    *)
(* puts an interposer between the channel to the server and both copying   *)
(* goroutines: data going up is buffered in its Asynk, and data going down *)
(* is pulled into its emulator and drawn from there.  Of the interposer    *)
(* this module has what concerns the end of a channel (Interposer and      *)
(* Asynk have the rest): its Read may return the end before it has drawn   *)
(* all, or never return, and so may its Write.  Every other channel is     *)
(* passed through.  The two peers and the channels are                     *)
(* golang.org/x/crypto/ssh, modelled from the calls made on them.  Data    *)
(* and requests are counted, not named.                                    *)
(***************************************************************************)
EXTENDS Naturals

CONSTANTS
  MaxData, \* bound: pieces of data each peer sends
  MaxReqs  \* bound: requests each peer sends

ASSUME ProxyAssumption == MaxData \in Nat /\ MaxReqs \in Nat

VARIABLES
  filtered, \* what the filter makes of the channel, by its type
  phase,    \* of handleSshChannel itself
  sent, reqSent,       \* what the near peer has sent
  eof, closed,         \* the near peer has sent its EOF, its CLOSE
  copied, written,     \* data read from the near, given to the far channel
  reqTaken, forwarded, \* requests taken from the near, sent on the far channel
  farEof, farClosed,   \* the proxy has half-closed, closed the far channel
  cpc, rpc,            \* control state of the copying and the request goroutine
  sinkHas,             \* the forwarding goroutine holds a request
  interposed,          \* the IoSwitch is enabled
  buffered, sinkErr,   \* of the Asynk: data not yet written; it takes no more
  pulled, ended        \* of the interposer: data not yet drawn; the puller is done

modeVars == <<filtered, phase>>
peerVars == <<sent, reqSent, eof, closed>>
dataVars == <<copied, written>>
reqVars  == <<reqTaken, forwarded, sinkHas>>
farVars  == <<farEof, farClosed>>
interVars == <<interposed, buffered, sinkErr, pulled, ended>>
vars == <<modeVars, peerVars, dataVars, reqVars, farVars, cpc, rpc, interVars>>

Directions == {"up", "down"}
Back(d) == IF d = "up" THEN "down" ELSE "up"
Filters(d) == filtered /\ d = "up"

(* What the interposer holds of the data that was read.                    *)
Inside(d) == IF d = "up" THEN buffered ELSE pulled

TypeOK ==
  /\ filtered \in BOOLEAN
  /\ phase \in {"opening", "refused", "accepting", "running", "ended", "crashed"}
  /\ sent \in [Directions -> 0..MaxData] /\ reqSent \in [Directions -> 0..MaxReqs]
  /\ eof \in [Directions -> BOOLEAN] /\ closed \in [Directions -> BOOLEAN]
  /\ copied \in [Directions -> 0..MaxData] /\ written \in [Directions -> 0..MaxData]
  /\ reqTaken \in [Directions -> 0..MaxReqs] /\ forwarded \in [Directions -> 0..MaxReqs]
  /\ farEof \in [Directions -> BOOLEAN] /\ farClosed \in [Directions -> BOOLEAN]
  /\ cpc \in [Directions -> {"read", "draw", "write", "buffer", "closeWrite", "signal", "done"}]
  /\ rpc \in [Directions -> {"receive", "forward", "wait", "target", "done"}]
  /\ sinkHas \in BOOLEAN /\ interposed \in BOOLEAN
  /\ buffered \in 0..MaxData /\ sinkErr \in BOOLEAN
  /\ pulled \in 0..MaxData /\ ended \in BOOLEAN

Init ==
  /\ filtered \in BOOLEAN /\ phase = "opening"
  /\ sent = [d \in Directions |-> 0] /\ reqSent = [d \in Directions |-> 0]
  /\ eof = [d \in Directions |-> FALSE] /\ closed = [d \in Directions |-> FALSE]
  /\ copied = [d \in Directions |-> 0] /\ written = [d \in Directions |-> 0]
  /\ reqTaken = [d \in Directions |-> 0] /\ forwarded = [d \in Directions |-> 0]
  /\ farEof = [d \in Directions |-> FALSE] /\ farClosed = [d \in Directions |-> FALSE]
  /\ cpc = [d \in Directions |-> "read"] /\ rpc = [d \in Directions |-> "receive"]
  /\ sinkHas = FALSE /\ interposed = FALSE
  /\ buffered = 0 /\ sinkErr = FALSE /\ pulled = 0 /\ ended = FALSE

-----------------------------------------------------------------------------
(***************************************************************************)
(* Opening.  The channel is opened towards the server first; a refusal is  *)
(* passed on with Reject, after which Accept fails, and proxyChan is nil.  *)
(***************************************************************************)
Open(granted) ==
  /\ phase = "opening"
  /\ phase' = IF granted THEN "accepting" ELSE "refused"
  /\ UNCHANGED <<filtered, peerVars, dataVars, reqVars, farVars, cpc, rpc, interVars>>

Accept ==
  /\ phase = "accepting"
  /\ phase' = "running"
  /\ UNCHANGED <<filtered, peerVars, dataVars, reqVars, farVars, cpc, rpc, interVars>>

AcceptFails ==
  /\ phase \in {"accepting", "refused"}
  /\ phase' = IF phase = "refused" THEN "crashed" ELSE "ended"
  /\ farClosed' = [farClosed EXCEPT !["up"] = (phase = "accepting")]
  /\ UNCHANGED <<filtered, peerVars, dataVars, reqVars, farEof, cpc, rpc, interVars>>

-----------------------------------------------------------------------------
(***************************************************************************)
(* The peers.  The near peer of d writes to the channel d is read from.    *)
(* After its EOF it sends no data, after its CLOSE nothing at all.         *)
(***************************************************************************)
PeerSend(d) ==
  /\ phase = "running" /\ ~eof[d] /\ sent[d] < MaxData
  /\ sent' = [sent EXCEPT ![d] = @ + 1]
  /\ UNCHANGED <<modeVars, reqSent, eof, closed, dataVars, reqVars, farVars,
                 cpc, rpc, interVars>>

PeerRequest(d) ==
  /\ phase = "running" /\ ~closed[d] /\ reqSent[d] < MaxReqs
  /\ reqSent' = [reqSent EXCEPT ![d] = @ + 1]
  /\ UNCHANGED <<modeVars, sent, eof, closed, dataVars, reqVars, farVars,
                 cpc, rpc, interVars>>

PeerEof(d) ==
  /\ phase = "running" /\ ~eof[d]
  /\ eof' = [eof EXCEPT ![d] = TRUE]
  /\ UNCHANGED <<modeVars, sent, reqSent, closed, dataVars, reqVars, farVars,
                 cpc, rpc, interVars>>

PeerClose(d) ==
  /\ phase = "running" /\ ~closed[d]
  /\ eof' = [eof EXCEPT ![d] = TRUE] /\ closed' = [closed EXCEPT ![d] = TRUE]
  /\ UNCHANGED <<modeVars, sent, reqSent, dataVars, reqVars, farVars, cpc, rpc, interVars>>

(* What the far channel of d still takes.                                  *)
TakesRequests(d) == ~farClosed[d] /\ ~closed[Back(d)]
TakesData(d) == TakesRequests(d) /\ ~farEof[d]

-----------------------------------------------------------------------------
(***************************************************************************)
(* The copying goroutine of each direction.  A Read or Write that meets    *)
(* the IoSwitch disabled is one on the channel, and stays one.             *)
(***************************************************************************)
CopyRead(d) ==
  /\ phase = "running" /\ cpc[d] = "read" /\ copied[d] < sent[d]
  /\ copied' = [copied EXCEPT ![d] = @ + 1]
  /\ cpc' = [cpc EXCEPT ![d] = IF d = "up" /\ interposed THEN "buffer" ELSE "write"]
  /\ UNCHANGED <<modeVars, peerVars, written, reqVars, farVars, rpc, interVars>>

CopyEof_Early(d) == \* mutant: takes the end before the data that preceded it
  /\ phase = "running" /\ cpc[d] = "read" /\ eof[d]
  /\ cpc' = [cpc EXCEPT ![d] = "closeWrite"]
  /\ UNCHANGED <<modeVars, peerVars, dataVars, reqVars, farVars, rpc, interVars>>

CopyEof(d) ==
  /\ phase = "running" /\ cpc[d] = "read" /\ copied[d] = sent[d] /\ eof[d]
  /\ cpc' = [cpc EXCEPT ![d] = "closeWrite"]
  /\ UNCHANGED <<modeVars, peerVars, dataVars, reqVars, farVars, rpc, interVars>>

(* The next Read of the interposer returns an error that it has had.       *)
CopyWrite(d) ==
  /\ cpc[d] = "write" /\ TakesData(d)
  /\ written' = [written EXCEPT ![d] = copied[d] - Inside(d)]
  /\ cpc' = [cpc EXCEPT ![d] = IF d = "up" \/ ~interposed THEN "read"
                               ELSE IF ended THEN "closeWrite" ELSE "draw"]
  /\ UNCHANGED <<modeVars, peerVars, copied, reqVars, farVars, rpc, interVars>>

CopyFails_Returns(d) == \* mutant: a failed write ends the goroutine at once
  /\ cpc[d] = "write" /\ ~TakesData(d)
  /\ cpc' = [cpc EXCEPT ![d] = "returned"]
  /\ UNCHANGED <<modeVars, peerVars, dataVars, reqVars, farVars, rpc, interVars>>

CopyFails(d) ==
  /\ cpc[d] = "write" /\ ~TakesData(d)
  /\ cpc' = [cpc EXCEPT ![d] = "closeWrite"]
  /\ UNCHANGED <<modeVars, peerVars, dataVars, reqVars, farVars, rpc, interVars>>

CopyCloseWrite(d) ==
  /\ cpc[d] = "closeWrite"
  /\ farEof' = [farEof EXCEPT ![d] = @ \/ TakesRequests(d)]
  /\ cpc' = [cpc EXCEPT ![d] = "signal"]
  /\ UNCHANGED <<modeVars, peerVars, dataVars, reqVars, farClosed, rpc, interVars>>

CopySignal(d) ==
  /\ cpc[d] = "signal"
  /\ cpc' = [cpc EXCEPT ![d] = "done"]
  /\ UNCHANGED <<modeVars, peerVars, dataVars, reqVars, farVars, rpc, interVars>>

-----------------------------------------------------------------------------
(***************************************************************************)
(* The interposer.  The puller reads the channel, and ends when that does, *)
(* or when it cannot write a report.                                       *)
(***************************************************************************)
Pull ==
  /\ interposed /\ ~ended /\ copied["down"] < sent["down"]
  /\ copied' = [copied EXCEPT !["down"] = @ + 1] /\ pulled' = pulled + 1
  /\ ended' \in {FALSE, ~TakesData("up")}
  /\ UNCHANGED <<modeVars, peerVars, written, reqVars, farVars, cpc, rpc,
                 interposed, buffered, sinkErr>>

PullEnd ==
  /\ interposed /\ ~ended /\ copied["down"] = sent["down"] /\ eof["down"]
  /\ ended' = TRUE
  /\ UNCHANGED <<modeVars, peerVars, dataVars, reqVars, farVars, cpc, rpc,
                 interposed, buffered, sinkErr, pulled>>

(* The first Read comes when the IoSwitch has been enabled.                *)
CopySwitch ==
  /\ interposed /\ cpc["down"] = "read"
  /\ cpc' = [cpc EXCEPT !["down"] = "draw"]
  /\ UNCHANGED <<modeVars, peerVars, dataVars, reqVars, farVars, rpc, interVars>>

(* Interposer.Read: a frame has some of what was pulled, and a prediction  *)
(* may be all there is in it.                                              *)
Draw ==
  /\ cpc["down"] = "draw"
  /\ \E n \in 0..pulled : pulled' = pulled - n
  /\ cpc' = [cpc EXCEPT !["down"] = "write"]
  /\ UNCHANGED <<modeVars, peerVars, dataVars, reqVars, farVars, rpc,
                 interposed, buffered, sinkErr, ended>>

(* The error, whatever has been pulled and not been drawn.                 *)
DrawEnd ==
  /\ cpc["down"] = "draw" /\ ended
  /\ cpc' = [cpc EXCEPT !["down"] = "closeWrite"]
  /\ UNCHANGED <<modeVars, peerVars, dataVars, reqVars, farVars, rpc, interVars>>

(* Interposer.Write, which ends in that of the Asynk.                      *)
CopyBuffer ==
  /\ cpc["up"] = "buffer"
  /\ buffered' = IF sinkErr THEN buffered ELSE buffered + 1
  /\ cpc' = [cpc EXCEPT !["up"] = IF sinkErr THEN "closeWrite" ELSE "read"]
  /\ UNCHANGED <<modeVars, peerVars, dataVars, reqVars, farVars, rpc,
                 interposed, sinkErr, pulled, ended>>

(* The sink of the Asynk.                                                  *)
Drain ==
  /\ buffered > 0
  /\ buffered' = buffered - 1
  /\ written' = [written EXCEPT !["up"] = IF TakesData("up") THEN @ + 1 ELSE @]
  /\ sinkErr' = (sinkErr \/ ~TakesData("up"))
  /\ UNCHANGED <<modeVars, peerVars, copied, reqVars, farVars, cpc, rpc,
                 interposed, pulled, ended>>

-----------------------------------------------------------------------------
(***************************************************************************)
(* The request goroutine of each direction.  SendRequest fails on a closed *)
(* channel, and the request is dropped; when a reply is wanted it returns  *)
(* with the reply, or when the channel closes.  A filter enables the       *)
(* IoSwitch, when it meets a pty-req, before it hands the request on.      *)
(***************************************************************************)
RequestTake(d) ==
  /\ phase = "running" /\ rpc[d] = "receive" /\ reqTaken[d] < reqSent[d]
  /\ reqTaken' = [reqTaken EXCEPT ![d] = @ + 1]
  /\ rpc' = [rpc EXCEPT ![d] = "forward"]
  /\ UNCHANGED interposed \/ (Filters(d) /\ interposed' = TRUE)
  /\ UNCHANGED <<modeVars, peerVars, dataVars, forwarded, sinkHas, farVars, cpc,
                 buffered, sinkErr, pulled, ended>>

RequestForward(d) ==
  /\ rpc[d] = "forward" /\ ~Filters(d)
  /\ forwarded' = [forwarded EXCEPT ![d] = IF TakesRequests(d) THEN @ + 1 ELSE @]
  /\ rpc' = [rpc EXCEPT ![d] = "receive"]
  /\ UNCHANGED <<modeVars, peerVars, dataVars, reqTaken, sinkHas, farVars, cpc, interVars>>

RequestHand(d) ==
  /\ rpc[d] = "forward" /\ Filters(d) /\ ~sinkHas
  /\ sinkHas' = TRUE
  /\ rpc' = [rpc EXCEPT ![d] = "receive"]
  /\ UNCHANGED <<modeVars, peerVars, dataVars, reqTaken, forwarded, farVars, cpc, interVars>>

RequestSink ==
  /\ sinkHas
  /\ sinkHas' = FALSE
  /\ forwarded' = [forwarded EXCEPT !["up"] = IF TakesRequests("up") THEN @ + 1 ELSE @]
  /\ UNCHANGED <<modeVars, peerVars, dataVars, reqTaken, farVars, cpc, rpc, interVars>>

RequestsEnd(d) ==
  /\ phase = "running" /\ rpc[d] = "receive" /\ reqTaken[d] = reqSent[d] /\ closed[d]
  /\ rpc' = [rpc EXCEPT ![d] = "wait"]
  /\ UNCHANGED <<modeVars, peerVars, dataVars, reqVars, farVars, cpc, interVars>>

CopyDone_Ignored(d) == TRUE \* mutant: closes without waiting for the data
CopyDone(d) == cpc[d] = "done"

CloseFar(d) ==
  /\ rpc[d] = "wait" /\ CopyDone(d)
  /\ farClosed' = [farClosed EXCEPT ![d] = TRUE]
  /\ rpc' = [rpc EXCEPT ![d] = IF Filters(d) THEN "target" ELSE "done"]
  /\ UNCHANGED <<modeVars, peerVars, dataVars, reqVars, farEof, cpc, interVars>>

CloseTarget(d) ==
  /\ rpc[d] = "target"
  /\ sinkErr' = (sinkErr \/ interposed)
  /\ rpc' = [rpc EXCEPT ![d] = "done"]
  /\ UNCHANGED <<modeVars, peerVars, dataVars, reqVars, farVars, cpc,
                 interposed, buffered, pulled, ended>>

-----------------------------------------------------------------------------
Opening == Accept \/ AcceptFails \/ \E granted \in BOOLEAN : Open(granted)

Peer(d) == PeerSend(d) \/ PeerRequest(d) \/ PeerEof(d) \/ PeerClose(d)

Copy(d) == \/ CopyRead(d) \/ CopyEof(d) \/ CopyWrite(d)
           \/ CopyFails(d) \/ CopyCloseWrite(d) \/ CopySignal(d)

Puller == Pull \/ PullEnd

Calls == CopySwitch \/ Draw \/ DrawEnd \/ CopyBuffer

Requests(d) == \/ RequestTake(d) \/ RequestForward(d) \/ RequestHand(d)
               \/ RequestsEnd(d) \/ CloseFar(d) \/ CloseTarget(d)

Next == \/ Opening \/ Puller \/ Calls \/ Drain \/ RequestSink
        \/ \E d \in Directions : Peer(d) \/ Copy(d) \/ Requests(d)

Spec == Init /\ [][Next]_vars

(***************************************************************************)
(* Fairness: the goroutines run, and a peer answers a CLOSE with its own.  *)
(* Nobody promises that a peer sends, half-closes or closes by itself, nor *)
(* that a Read or Write of the interposer returns (Calls).                 *)
(***************************************************************************)
Fairness ==
  /\ WF_vars(Puller) /\ WF_vars(Drain) /\ WF_vars(RequestSink)
  /\ \A d \in Directions :
       WF_vars(Copy(d)) /\ WF_vars(Requests(d)) /\ WF_vars(farClosed[Back(d)] /\ PeerClose(d))

FairSpec == Spec /\ Fairness

-----------------------------------------------------------------------------
(***************************************************************************)
(* Properties.                                                             *)
(***************************************************************************)

(* Each direction is a relay, however data, requests, half-closes and      *)
(* closes of both interleave: nothing overtakes what came before it.  A    *)
(* far peer that has closed need not get all, nor one that was not there.  *)
(* Nor need the server, of what the filter has handed over or the Asynk    *)
(* buffers, or the client, once an interposer draws what it gets           *)
(* (proxy.go:225-261; termemu.go:440).                                     *)
Gone(d) ==
  \/ closed[Back(d)] \/ phase \in {"ended", "crashed"}
  \/ IF d = "up" THEN filtered ELSE interposed

Up == INSTANCE Relay WITH
        sent <- sent["up"], asked <- reqSent["up"], ended <- eof["up"], left <- closed["up"],
        given <- written["up"], passed <- forwarded["up"], told <- farEof["up"],
        shut <- farClosed["up"], gone <- Gone("up")

Down == INSTANCE Relay WITH
          sent <- sent["down"], asked <- reqSent["down"], ended <- eof["down"],
          left <- closed["down"], given <- written["down"], passed <- forwarded["down"],
          told <- farEof["down"], shut <- farClosed["down"], gone <- Gone("down")

IsRelay == Up!Spec /\ Down!Spec

(* Data reaches the far peer unless that closes: the half-close of one     *)
(* direction does not cut off the other (proxy.go:237-246).  With an       *)
(* interposer, what reaches the client is Interposer's to say, and what    *)
(* reaches the server the Asynk's.                                         *)
DataPassedOn ==
  \A d \in Directions : \A k \in 1..MaxData :
    sent[d] >= k ~> written[d] >= k \/ closed[Back(d)] \/ interposed

(* When one peer closes, the proxy closes the channel to the other, and    *)
(* leaves no goroutine behind, nor that of an interposer that pulls        *)
(* (proxy.go:237-261, termemu.go:339-395).  The exception is a call of the *)
(* interposer that never returns: a Read that sleeps over the end of the   *)
(* channel, or a Write that nobody wakes (termemu.go:453-455,              *)
(* asynk.go:114-120); Interposer and Asynk show how that comes about.      *)
InInterposer == cpc["down"] = "draw" \/ cpc["up"] = "buffer"

CloseReturned ==
  \A d \in Directions :
    closed[d] ~> \/ /\ farClosed[d] /\ interposed => ended
                    /\ \A b \in Directions : rpc[b] = "done" /\ cpc[b] = "done"
                 \/ []InInterposer

-----------------------------------------------------------------------------
(***************************************************************************)
(* What a text of the code says and it does not do.                        *)
(***************************************************************************)

(* README.md:75, "All other SSH channels are passed through unmodified":   *)
(* a refused channel is refused to the client, and the proxy goes on.      *)
RefusalPassedOn == phase # "crashed"
=============================================================================
