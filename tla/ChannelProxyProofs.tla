---------------------------- MODULE ChannelProxyProofs --------------------------
(***************************************************************************)
(* Nothing is cut off on a channel, or a direction of it, that no filter   *)
(* and no interposer takes part in, for any amount of data and requests:   *)
(* neither the half-close nor the close of one peer overtakes what it sent *)
(* before.                                                                 *)
(***************************************************************************)
EXTENDS ChannelProxy, TLAPS

(* Before the channel runs its goroutines have not started.                *)
NotStarted(d) ==
  /\ phase # "running" => cpc[d] = "read" /\ rpc[d] = "receive" /\ ~farEof[d]
  /\ phase \in {"opening", "refused", "accepting"} => ~farClosed[d]

(* The far channel is half-closed by the copying goroutine after its last  *)
(* write, and closed by the request goroutine at its end.                  *)
FarOpen(d) ==
  /\ farEof[d] => cpc[d] \in {"signal", "done"}
  /\ phase = "running" /\ farClosed[d] => rpc[d] \in {"target", "done"} /\ cpc[d] = "done"

(* Nothing is given that was not read; what is inside the interposer is    *)
(* still to come.                                                          *)
DataBounded(d) ==
  /\ written[d] + Inside(d) <= copied[d]
  /\ cpc[d] = "buffer" => written[d] + Inside(d) < copied[d]

(* The same for requests, of which the forwarding goroutine holds one.     *)
HeldRequests(d) == IF d = "up" /\ sinkHas THEN 1 ELSE 0

RequestsBounded(d) ==
  /\ forwarded[d] + HeldRequests(d) <= reqTaken[d]
  /\ rpc[d] = "forward" => forwarded[d] + HeldRequests(d) < reqTaken[d]

(* Neither filter nor interposer takes part in a direction.                *)
Plain(d) == IF d = "up" THEN ~filtered ELSE ~interposed

(* Then, and unless the far peer has closed, what was read has been given, *)
(* and the copying goroutine leaves its loop only at the end of the data.  *)
DataKept(d) ==
  Plain(d) /\ ~closed[Back(d)] =>
    /\ cpc[d] = "write" => copied[d] = written[d] + 1
    /\ cpc[d] # "write" => copied[d] = written[d]
    /\ cpc[d] \in {"closeWrite", "signal", "done"} => eof[d] /\ copied[d] = sent[d]

(* The same for requests.                                                  *)
RequestsKept(d) ==
  ~Filters(d) /\ ~closed[Back(d)] =>
    /\ rpc[d] = "forward" => reqTaken[d] = forwarded[d] + 1
    /\ rpc[d] # "forward" => reqTaken[d] = forwarded[d]

(* The request goroutine leaves its loop when the near peer has closed.    *)
RequestsOver(d) ==
  rpc[d] \in {"wait", "target", "done"} => closed[d] /\ reqTaken[d] = reqSent[d]

Kept(d) == /\ NotStarted(d) /\ FarOpen(d) /\ DataBounded(d) /\ RequestsBounded(d)
           /\ DataKept(d) /\ RequestsKept(d) /\ RequestsOver(d)

(* Without a filter its goroutines have nothing to do, and without an      *)
(* interposer nothing is inside it, nor calls it.                          *)
Idle ==
  /\ ~filtered => ~interposed /\ ~sinkHas
  /\ interposed => phase = "running"
  /\ ~interposed =>
       \A d \in Directions : Inside(d) = 0 /\ cpc[d] \notin {"draw", "buffer"}
  /\ cpc["up"] # "draw" /\ cpc["down"] # "buffer"

IInv == TypeOK /\ Idle /\ \A d \in Directions : Kept(d)

-----------------------------------------------------------------------------
LEMMA BackIn ==
  ASSUME NEW d \in Directions
  PROVE  Back(d) \in Directions /\ Back(d) # d /\ Back(Back(d)) = d
BY DEF Back, Directions

(* The counters are natural numbers.                                       *)
LEMMA Bounds ==
  TypeOK => /\ MaxData \in Nat /\ MaxReqs \in Nat /\ buffered \in Nat /\ pulled \in Nat
            /\ "up" \in Directions /\ "down" \in Directions
            /\ \A d \in Directions :
                 /\ sent[d] \in Nat /\ copied[d] \in Nat /\ written[d] \in Nat
                 /\ reqSent[d] \in Nat /\ reqTaken[d] \in Nat /\ forwarded[d] \in Nat
                 /\ Inside(d) \in Nat
BY ProxyAssumption DEF TypeOK, Directions, Inside

LEMMA InitIInv == Init => IInv
<1> SUFFICES ASSUME Init PROVE IInv
  OBVIOUS
<1> USE ProxyAssumption
<1>1. /\ phase \in {"opening", "refused", "accepting", "running", "ended", "crashed"}
      /\ filtered \in BOOLEAN /\ sinkHas \in BOOLEAN
  BY DEF Init
<1>2. /\ buffered \in 0..MaxData /\ sinkErr \in BOOLEAN /\ interposed \in BOOLEAN
      /\ pulled \in 0..MaxData /\ ended \in BOOLEAN
  <2>1. buffered = 0 /\ pulled = 0 /\ 0 \in 0..MaxData
    BY DEF Init
  <2>2. sinkErr \in BOOLEAN /\ interposed \in BOOLEAN /\ ended \in BOOLEAN
    BY DEF Init
  <2>3. QED
    BY <2>1, <2>2
<1>3. /\ sent \in [Directions -> 0..MaxData] /\ reqSent \in [Directions -> 0..MaxReqs]
      /\ copied \in [Directions -> 0..MaxData] /\ written \in [Directions -> 0..MaxData]
      /\ reqTaken \in [Directions -> 0..MaxReqs]
      /\ forwarded \in [Directions -> 0..MaxReqs]
  <2>1. 0 \in 0..MaxData /\ 0 \in 0..MaxReqs
    OBVIOUS
  <2>2. QED
    BY ONLY <2>1, Init DEF Init
<1>4. /\ eof \in [Directions -> BOOLEAN] /\ closed \in [Directions -> BOOLEAN]
      /\ farEof \in [Directions -> BOOLEAN] /\ farClosed \in [Directions -> BOOLEAN]
  BY DEF Init
<1>5. /\ cpc \in [Directions
         -> {"read", "draw", "write", "buffer", "closeWrite", "signal", "done"}]
      /\ rpc \in [Directions -> {"receive", "forward", "wait", "target", "done"}]
  BY DEF Init
<1>6. TypeOK
  BY <1>1, <1>2, <1>3, <1>4, <1>5 DEF TypeOK
<1>7. ASSUME NEW d \in Directions PROVE Kept(d)
  BY BackIn DEF Init, Kept, NotStarted, FarOpen, DataBounded, RequestsBounded, Inside,
                HeldRequests, DataKept, RequestsKept, RequestsOver
<1>8. Idle
  BY DEF Init, Idle, Inside, Directions
<1>9. QED
  BY <1>6, <1>7, <1>8 DEF IInv

(* The peers only send more, end or close.                                 *)
LEMMA PeerStep ==
  ASSUME IInv, NEW d \in Directions, Peer(d)
  PROVE  IInv'
<1> USE ProxyAssumption DEF modeVars, peerVars, dataVars, reqVars, farVars, interVars
<1>0. /\ TypeOK /\ Idle
      /\ \A e \in Directions : Kept(e) /\ Back(e) \in Directions /\ Back(e) # e
  BY BackIn DEF IInv
<1>1. CASE PeerSend(d)
  <2>1. TypeOK'
    BY <1>0, <1>1, Bounds
    DEF PeerSend, TypeOK, Idle, Kept, DataBounded, RequestsBounded, Inside, HeldRequests,
        Filters, TakesData, TakesRequests, Directions
  <2>2. ASSUME NEW e \in Directions PROVE Kept(e)'
    <3>1. NotStarted(e)' /\ FarOpen(e)'
      BY <1>0, <1>1 DEF PeerSend, TypeOK, Idle, Kept, NotStarted, FarOpen, Filters, CopyDone
    <3>2. DataBounded(e)' /\ RequestsBounded(e)'
      BY <1>0, <1>1, Bounds
      DEF PeerSend, TypeOK, Idle, Kept, DataBounded, RequestsBounded, Inside, HeldRequests,
          Filters, Directions
    <3>3. DataKept(e)' /\ RequestsKept(e)' /\ RequestsOver(e)'
      BY <1>0, <1>1, Bounds
      DEF PeerSend, TypeOK, Idle, Kept, NotStarted, FarOpen, DataKept, RequestsKept,
          RequestsOver, TakesData, TakesRequests, Filters, Plain, Inside
    <3>4. QED
      BY <3>1, <3>2, <3>3 DEF Kept
  <2>3. Idle'
    BY <1>0, <1>1, Bounds DEF PeerSend, TypeOK, Idle, Kept, NotStarted, Inside, Filters, Directions
  <2>4. QED
    BY <2>1, <2>2, <2>3 DEF IInv
<1>2. CASE PeerRequest(d)
  <2>1. TypeOK'
    BY <1>0, <1>2, Bounds
    DEF PeerRequest, TypeOK, Idle, Kept, DataBounded, RequestsBounded, Inside, HeldRequests,
        Filters, TakesData, TakesRequests, Directions
  <2>2. ASSUME NEW e \in Directions PROVE Kept(e)'
    <3>1. NotStarted(e)' /\ FarOpen(e)'
      BY <1>0, <1>2 DEF PeerRequest, TypeOK, Idle, Kept, NotStarted, FarOpen, Filters, CopyDone
    <3>2. DataBounded(e)' /\ RequestsBounded(e)'
      BY <1>0, <1>2, Bounds
      DEF PeerRequest, TypeOK, Idle, Kept, DataBounded, RequestsBounded, Inside, HeldRequests,
          Filters, Directions
    <3>3. DataKept(e)' /\ RequestsKept(e)' /\ RequestsOver(e)'
      BY <1>0, <1>2, Bounds
      DEF PeerRequest, TypeOK, Idle, Kept, NotStarted, FarOpen, DataKept, RequestsKept,
          RequestsOver, TakesData, TakesRequests, Filters, Plain, Inside
    <3>4. QED
      BY <3>1, <3>2, <3>3 DEF Kept
  <2>3. Idle'
    BY <1>0, <1>2, Bounds
    DEF PeerRequest, TypeOK, Idle, Kept, NotStarted, Inside, Filters, Directions
  <2>4. QED
    BY <2>1, <2>2, <2>3 DEF IInv
<1>3. CASE PeerEof(d)
  <2>1. TypeOK'
    BY <1>0, <1>3, Bounds
    DEF PeerEof, TypeOK, Idle, Kept, DataBounded, RequestsBounded, Inside, HeldRequests,
        Filters, TakesData, TakesRequests, Directions
  <2>2. ASSUME NEW e \in Directions PROVE Kept(e)'
    <3>1. NotStarted(e)' /\ FarOpen(e)'
      BY <1>0, <1>3 DEF PeerEof, TypeOK, Idle, Kept, NotStarted, FarOpen, Filters, CopyDone
    <3>2. DataBounded(e)' /\ RequestsBounded(e)'
      BY <1>0, <1>3, Bounds
      DEF PeerEof, TypeOK, Idle, Kept, DataBounded, RequestsBounded, Inside, HeldRequests,
          Filters, Directions
    <3>3. DataKept(e)' /\ RequestsKept(e)' /\ RequestsOver(e)'
      BY <1>0, <1>3, Bounds
      DEF PeerEof, TypeOK, Idle, Kept, NotStarted, FarOpen, DataKept, RequestsKept,
          RequestsOver, TakesData, TakesRequests, Filters, Plain, Inside
    <3>4. QED
      BY <3>1, <3>2, <3>3 DEF Kept
  <2>3. Idle'
    BY <1>0, <1>3, Bounds DEF PeerEof, TypeOK, Idle, Kept, NotStarted, Inside, Filters, Directions
  <2>4. QED
    BY <2>1, <2>2, <2>3 DEF IInv
<1>4. CASE PeerClose(d)
  <2>1. TypeOK'
    BY <1>0, <1>4, Bounds
    DEF PeerClose, TypeOK, Idle, Kept, DataBounded, RequestsBounded, Inside, HeldRequests,
        Filters, TakesData, TakesRequests, Directions
  <2>2. ASSUME NEW e \in Directions PROVE Kept(e)'
    <3>1. NotStarted(e)' /\ FarOpen(e)'
      BY <1>0, <1>4 DEF PeerClose, TypeOK, Idle, Kept, NotStarted, FarOpen, Filters, CopyDone
    <3>2. DataBounded(e)' /\ RequestsBounded(e)'
      BY <1>0, <1>4, Bounds
      DEF PeerClose, TypeOK, Idle, Kept, DataBounded, RequestsBounded, Inside, HeldRequests,
          Filters, Directions
    <3>3. DataKept(e)' /\ RequestsKept(e)' /\ RequestsOver(e)'
      BY <1>0, <1>4, Bounds
      DEF PeerClose, TypeOK, Idle, Kept, NotStarted, FarOpen, DataKept, RequestsKept,
          RequestsOver, TakesData, TakesRequests, Filters, Plain, Inside
    <3>4. QED
      BY <3>1, <3>2, <3>3 DEF Kept
  <2>3. Idle'
    BY <1>0, <1>4, Bounds DEF PeerClose, TypeOK, Idle, Kept, NotStarted, Inside, Filters, Directions
  <2>4. QED
    BY <2>1, <2>2, <2>3 DEF IInv
<1>5. QED
  BY <1>1, <1>2, <1>3, <1>4 DEF Peer

(* The copying goroutines.                                                 *)
LEMMA CopyStep ==
  ASSUME IInv, NEW d \in Directions, Copy(d)
  PROVE  IInv'
<1> USE ProxyAssumption DEF modeVars, peerVars, dataVars, reqVars, farVars, interVars
<1>0. /\ TypeOK /\ Idle
      /\ \A e \in Directions : Kept(e) /\ Back(e) \in Directions /\ Back(e) # e
  BY BackIn DEF IInv
<1>1. CASE CopyRead(d)
  <2>1. TypeOK'
    BY <1>0, <1>1, Bounds
    DEF CopyRead, TypeOK, Idle, Kept, DataBounded, RequestsBounded, Inside, HeldRequests,
        Filters, TakesData, TakesRequests, Directions
  <2>2. ASSUME NEW e \in Directions PROVE Kept(e)'
    <3>1. NotStarted(e)' /\ FarOpen(e)'
      BY <1>0, <1>1 DEF CopyRead, TypeOK, Idle, Kept, NotStarted, FarOpen, Filters, CopyDone
    <3>2. DataBounded(e)' /\ RequestsBounded(e)'
      BY <1>0, <1>1, Bounds
      DEF CopyRead, TypeOK, Idle, Kept, DataBounded, RequestsBounded, Inside, HeldRequests,
          Filters, Directions
    <3>3. DataKept(e)' /\ RequestsKept(e)' /\ RequestsOver(e)'
      BY <1>0, <1>1, Bounds
      DEF CopyRead, TypeOK, Idle, Kept, NotStarted, FarOpen, DataKept, RequestsKept,
          RequestsOver, TakesData, TakesRequests, Filters, Plain, Inside
    <3>4. QED
      BY <3>1, <3>2, <3>3 DEF Kept
  <2>3. Idle'
    BY <1>0, <1>1, Bounds DEF CopyRead, TypeOK, Idle, Kept, NotStarted, Inside, Filters, Directions
  <2>4. QED
    BY <2>1, <2>2, <2>3 DEF IInv
<1>2. CASE CopyEof(d)
  <2>1. TypeOK'
    BY <1>0, <1>2, Bounds
    DEF CopyEof, TypeOK, Idle, Kept, DataBounded, RequestsBounded, Inside, HeldRequests,
        Filters, TakesData, TakesRequests, Directions
  <2>2. ASSUME NEW e \in Directions PROVE Kept(e)'
    <3>1. NotStarted(e)' /\ FarOpen(e)'
      BY <1>0, <1>2 DEF CopyEof, TypeOK, Idle, Kept, NotStarted, FarOpen, Filters, CopyDone
    <3>2. DataBounded(e)' /\ RequestsBounded(e)'
      BY <1>0, <1>2, Bounds
      DEF CopyEof, TypeOK, Idle, Kept, DataBounded, RequestsBounded, Inside, HeldRequests,
          Filters, Directions
    <3>3. DataKept(e)' /\ RequestsKept(e)' /\ RequestsOver(e)'
      BY <1>0, <1>2, Bounds
      DEF CopyEof, TypeOK, Idle, Kept, NotStarted, FarOpen, DataKept, RequestsKept,
          RequestsOver, TakesData, TakesRequests, Filters, Plain, Inside
    <3>4. QED
      BY <3>1, <3>2, <3>3 DEF Kept
  <2>3. Idle'
    BY <1>0, <1>2, Bounds DEF CopyEof, TypeOK, Idle, Kept, NotStarted, Inside, Filters, Directions
  <2>4. QED
    BY <2>1, <2>2, <2>3 DEF IInv
<1>3. CASE CopyWrite(d)
  <2>1. TypeOK'
    BY <1>0, <1>3, Bounds
    DEF CopyWrite, TypeOK, Idle, Kept, DataBounded, RequestsBounded, Inside, HeldRequests,
        Filters, TakesData, TakesRequests, Directions
  <2>2. ASSUME NEW e \in Directions PROVE Kept(e)'
    <3>1. NotStarted(e)' /\ FarOpen(e)'
      BY <1>0, <1>3 DEF CopyWrite, TypeOK, Idle, Kept, NotStarted, FarOpen, Filters, CopyDone
    <3>2. DataBounded(e)' /\ RequestsBounded(e)'
      BY <1>0, <1>3, Bounds
      DEF CopyWrite, TypeOK, Idle, Kept, DataBounded, RequestsBounded, Inside, HeldRequests,
          Filters, Directions
    <3>3. DataKept(e)' /\ RequestsKept(e)' /\ RequestsOver(e)'
      BY <1>0, <1>3, Bounds
      DEF CopyWrite, TypeOK, Idle, Kept, NotStarted, FarOpen, DataKept, RequestsKept,
          RequestsOver, TakesData, TakesRequests, Filters, Plain, Inside
    <3>4. QED
      BY <3>1, <3>2, <3>3 DEF Kept
  <2>3. Idle'
    BY <1>0, <1>3, Bounds DEF CopyWrite, TypeOK, Idle, Kept, NotStarted, Inside, Filters, Directions
  <2>4. QED
    BY <2>1, <2>2, <2>3 DEF IInv
<1>4. CASE CopyFails(d)
  <2>1. TypeOK'
    BY <1>0, <1>4, Bounds
    DEF CopyFails, TypeOK, Idle, Kept, DataBounded, RequestsBounded, Inside, HeldRequests,
        Filters, TakesData, TakesRequests, Directions
  <2>2. ASSUME NEW e \in Directions PROVE Kept(e)'
    <3>1. NotStarted(e)' /\ FarOpen(e)'
      BY <1>0, <1>4 DEF CopyFails, TypeOK, Idle, Kept, NotStarted, FarOpen, Filters, CopyDone
    <3>2. DataBounded(e)' /\ RequestsBounded(e)'
      BY <1>0, <1>4, Bounds
      DEF CopyFails, TypeOK, Idle, Kept, DataBounded, RequestsBounded, Inside, HeldRequests,
          Filters, Directions
    <3>3. DataKept(e)' /\ RequestsKept(e)' /\ RequestsOver(e)'
      BY <1>0, <1>4, Bounds
      DEF CopyFails, TypeOK, Idle, Kept, NotStarted, FarOpen, DataKept, RequestsKept,
          RequestsOver, TakesData, TakesRequests, Filters, Plain, Inside
    <3>4. QED
      BY <3>1, <3>2, <3>3 DEF Kept
  <2>3. Idle'
    BY <1>0, <1>4, Bounds DEF CopyFails, TypeOK, Idle, Kept, NotStarted, Inside, Filters, Directions
  <2>4. QED
    BY <2>1, <2>2, <2>3 DEF IInv
<1>5. CASE CopyCloseWrite(d)
  <2>1. TypeOK'
    BY <1>0, <1>5, Bounds
    DEF CopyCloseWrite, TypeOK, Idle, Kept, DataBounded, RequestsBounded, Inside, HeldRequests,
        Filters, TakesData, TakesRequests, Directions
  <2>2. ASSUME NEW e \in Directions PROVE Kept(e)'
    <3>1. NotStarted(e)' /\ FarOpen(e)'
      BY <1>0, <1>5 DEF CopyCloseWrite, TypeOK, Idle, Kept, NotStarted, FarOpen, Filters, CopyDone
    <3>2. DataBounded(e)' /\ RequestsBounded(e)'
      BY <1>0, <1>5, Bounds
      DEF CopyCloseWrite, TypeOK, Idle, Kept, DataBounded, RequestsBounded, Inside, HeldRequests,
          Filters, Directions
    <3>3. DataKept(e)' /\ RequestsKept(e)' /\ RequestsOver(e)'
      BY <1>0, <1>5, Bounds
      DEF CopyCloseWrite, TypeOK, Idle, Kept, NotStarted, FarOpen, DataKept, RequestsKept,
          RequestsOver, TakesData, TakesRequests, Filters, Plain, Inside
    <3>4. QED
      BY <3>1, <3>2, <3>3 DEF Kept
  <2>3. Idle'
    BY <1>0, <1>5, Bounds
    DEF CopyCloseWrite, TypeOK, Idle, Kept, NotStarted, Inside, Filters, Directions
  <2>4. QED
    BY <2>1, <2>2, <2>3 DEF IInv
<1>6. CASE CopySignal(d)
  <2>1. TypeOK'
    BY <1>0, <1>6, Bounds
    DEF CopySignal, TypeOK, Idle, Kept, DataBounded, RequestsBounded, Inside, HeldRequests,
        Filters, TakesData, TakesRequests, Directions
  <2>2. ASSUME NEW e \in Directions PROVE Kept(e)'
    <3>1. NotStarted(e)' /\ FarOpen(e)'
      BY <1>0, <1>6 DEF CopySignal, TypeOK, Idle, Kept, NotStarted, FarOpen, Filters, CopyDone
    <3>2. DataBounded(e)' /\ RequestsBounded(e)'
      BY <1>0, <1>6, Bounds
      DEF CopySignal, TypeOK, Idle, Kept, DataBounded, RequestsBounded, Inside, HeldRequests,
          Filters, Directions
    <3>3. DataKept(e)' /\ RequestsKept(e)' /\ RequestsOver(e)'
      BY <1>0, <1>6, Bounds
      DEF CopySignal, TypeOK, Idle, Kept, NotStarted, FarOpen, DataKept, RequestsKept,
          RequestsOver, TakesData, TakesRequests, Filters, Plain, Inside
    <3>4. QED
      BY <3>1, <3>2, <3>3 DEF Kept
  <2>3. Idle'
    BY <1>0, <1>6, Bounds
    DEF CopySignal, TypeOK, Idle, Kept, NotStarted, Inside, Filters, Directions
  <2>4. QED
    BY <2>1, <2>2, <2>3 DEF IInv
<1>7. QED
  BY <1>1, <1>2, <1>3, <1>4, <1>5, <1>6 DEF Copy

(* The interposer.                                                         *)
LEMMA InterposerStep ==
  ASSUME IInv, Puller \/ Calls \/ Drain
  PROVE  IInv'
<1> USE ProxyAssumption DEF modeVars, peerVars, dataVars, reqVars, farVars, interVars
<1>0. /\ TypeOK /\ Idle
      /\ \A e \in Directions : Kept(e) /\ Back(e) \in Directions /\ Back(e) # e
  BY BackIn DEF IInv
<1>1. CASE Pull
  <2>1. TypeOK'
    <3>1. pulled + 1 <= copied["down"] + 1 /\ copied["down"] + 1 <= MaxData
      BY <1>0, <1>1, Bounds DEF Pull, TypeOK, Kept, DataBounded, Inside
    <3>2. pulled' \in 0..MaxData
      BY <1>0, <1>1, <3>1, Bounds DEF Pull
    <3>3. copied' \in [Directions -> 0..MaxData]
      BY <1>0, <1>1, <3>1, Bounds DEF Pull, TypeOK
    <3>4. ended' \in BOOLEAN
      BY <1>1 DEF Pull, TakesData, TakesRequests
    <3>5. QED
      BY <1>0, <1>1, <3>2, <3>3, <3>4 DEF Pull, TypeOK
  <2>2. ASSUME NEW e \in Directions PROVE Kept(e)'
    <3>1. NotStarted(e)' /\ FarOpen(e)'
      BY <1>0, <1>1 DEF Pull, TypeOK, Idle, Kept, NotStarted, FarOpen, Filters, CopyDone
    <3>2. DataBounded(e)' /\ RequestsBounded(e)'
      BY <1>0, <1>1, Bounds
      DEF Pull, TypeOK, Idle, Kept, DataBounded, RequestsBounded, Inside, HeldRequests,
          Filters, Directions
    <3>3. DataKept(e)' /\ RequestsKept(e)' /\ RequestsOver(e)'
      BY <1>0, <1>1, Bounds
      DEF Pull, TypeOK, Idle, Kept, NotStarted, FarOpen, DataKept, RequestsKept,
          RequestsOver, TakesData, TakesRequests, Filters, Plain, Inside
    <3>4. QED
      BY <3>1, <3>2, <3>3 DEF Kept
  <2>3. Idle'
    BY <1>0, <1>1, Bounds DEF Pull, TypeOK, Idle, Kept, NotStarted, Inside, Filters, Directions
  <2>4. QED
    BY <2>1, <2>2, <2>3 DEF IInv
<1>2. CASE PullEnd
  <2>1. TypeOK'
    BY <1>0, <1>2, Bounds
    DEF PullEnd, TypeOK, Idle, Kept, DataBounded, RequestsBounded, Inside, HeldRequests,
        Filters, TakesData, TakesRequests, Directions
  <2>2. ASSUME NEW e \in Directions PROVE Kept(e)'
    <3>1. NotStarted(e)' /\ FarOpen(e)'
      BY <1>0, <1>2 DEF PullEnd, TypeOK, Idle, Kept, NotStarted, FarOpen, Filters, CopyDone
    <3>2. DataBounded(e)' /\ RequestsBounded(e)'
      BY <1>0, <1>2, Bounds
      DEF PullEnd, TypeOK, Idle, Kept, DataBounded, RequestsBounded, Inside, HeldRequests,
          Filters, Directions
    <3>3. DataKept(e)' /\ RequestsKept(e)' /\ RequestsOver(e)'
      BY <1>0, <1>2, Bounds
      DEF PullEnd, TypeOK, Idle, Kept, NotStarted, FarOpen, DataKept, RequestsKept,
          RequestsOver, TakesData, TakesRequests, Filters, Plain, Inside
    <3>4. QED
      BY <3>1, <3>2, <3>3 DEF Kept
  <2>3. Idle'
    BY <1>0, <1>2, Bounds DEF PullEnd, TypeOK, Idle, Kept, NotStarted, Inside, Filters, Directions
  <2>4. QED
    BY <2>1, <2>2, <2>3 DEF IInv
<1>3. CASE CopySwitch
  <2>1. TypeOK'
    BY <1>0, <1>3, Bounds
    DEF CopySwitch, TypeOK, Idle, Kept, DataBounded, RequestsBounded, Inside, HeldRequests,
        Filters, TakesData, TakesRequests, Directions
  <2>2. ASSUME NEW e \in Directions PROVE Kept(e)'
    <3>1. NotStarted(e)' /\ FarOpen(e)'
      BY <1>0, <1>3 DEF CopySwitch, TypeOK, Idle, Kept, NotStarted, FarOpen, Filters, CopyDone
    <3>2. DataBounded(e)' /\ RequestsBounded(e)'
      BY <1>0, <1>3, Bounds
      DEF CopySwitch, TypeOK, Idle, Kept, DataBounded, RequestsBounded, Inside, HeldRequests,
          Filters, Directions
    <3>3. DataKept(e)' /\ RequestsKept(e)' /\ RequestsOver(e)'
      BY <1>0, <1>3, Bounds
      DEF CopySwitch, TypeOK, Idle, Kept, NotStarted, FarOpen, DataKept, RequestsKept,
          RequestsOver, TakesData, TakesRequests, Filters, Plain, Inside
    <3>4. QED
      BY <3>1, <3>2, <3>3 DEF Kept
  <2>3. Idle'
    BY <1>0, <1>3, Bounds
    DEF CopySwitch, TypeOK, Idle, Kept, NotStarted, Inside, Filters, Directions
  <2>4. QED
    BY <2>1, <2>2, <2>3 DEF IInv
<1>4. CASE Draw
  <2>1. TypeOK'
    BY <1>0, <1>4, Bounds
    DEF Draw, TypeOK, Idle, Kept, DataBounded, RequestsBounded, Inside, HeldRequests,
        Filters, TakesData, TakesRequests, Directions
  <2>2. ASSUME NEW e \in Directions PROVE Kept(e)'
    <3>1. NotStarted(e)' /\ FarOpen(e)'
      BY <1>0, <1>4 DEF Draw, TypeOK, Idle, Kept, NotStarted, FarOpen, Filters, CopyDone
    <3>2. DataBounded(e)' /\ RequestsBounded(e)'
      BY <1>0, <1>4, Bounds
      DEF Draw, TypeOK, Idle, Kept, DataBounded, RequestsBounded, Inside, HeldRequests,
          Filters, Directions
    <3>3. DataKept(e)' /\ RequestsKept(e)' /\ RequestsOver(e)'
      BY <1>0, <1>4, Bounds
      DEF Draw, TypeOK, Idle, Kept, NotStarted, FarOpen, DataKept, RequestsKept,
          RequestsOver, TakesData, TakesRequests, Filters, Plain, Inside
    <3>4. QED
      BY <3>1, <3>2, <3>3 DEF Kept
  <2>3. Idle'
    BY <1>0, <1>4, Bounds DEF Draw, TypeOK, Idle, Kept, NotStarted, Inside, Filters, Directions
  <2>4. QED
    BY <2>1, <2>2, <2>3 DEF IInv
<1>5. CASE DrawEnd
  <2>1. TypeOK'
    BY <1>0, <1>5, Bounds
    DEF DrawEnd, TypeOK, Idle, Kept, DataBounded, RequestsBounded, Inside, HeldRequests,
        Filters, TakesData, TakesRequests, Directions
  <2>2. ASSUME NEW e \in Directions PROVE Kept(e)'
    <3>1. NotStarted(e)' /\ FarOpen(e)'
      BY <1>0, <1>5 DEF DrawEnd, TypeOK, Idle, Kept, NotStarted, FarOpen, Filters, CopyDone
    <3>2. DataBounded(e)' /\ RequestsBounded(e)'
      BY <1>0, <1>5, Bounds
      DEF DrawEnd, TypeOK, Idle, Kept, DataBounded, RequestsBounded, Inside, HeldRequests,
          Filters, Directions
    <3>3. DataKept(e)' /\ RequestsKept(e)' /\ RequestsOver(e)'
      BY <1>0, <1>5, Bounds
      DEF DrawEnd, TypeOK, Idle, Kept, NotStarted, FarOpen, DataKept, RequestsKept,
          RequestsOver, TakesData, TakesRequests, Filters, Plain, Inside
    <3>4. QED
      BY <3>1, <3>2, <3>3 DEF Kept
  <2>3. Idle'
    BY <1>0, <1>5, Bounds DEF DrawEnd, TypeOK, Idle, Kept, NotStarted, Inside, Filters, Directions
  <2>4. QED
    BY <2>1, <2>2, <2>3 DEF IInv
<1>6. CASE CopyBuffer
  <2>1. TypeOK'
    BY <1>0, <1>6, Bounds
    DEF CopyBuffer, TypeOK, Idle, Kept, DataBounded, RequestsBounded, Inside, HeldRequests,
        Filters, TakesData, TakesRequests, Directions
  <2>2. ASSUME NEW e \in Directions PROVE Kept(e)'
    <3>1. NotStarted(e)' /\ FarOpen(e)'
      BY <1>0, <1>6 DEF CopyBuffer, TypeOK, Idle, Kept, NotStarted, FarOpen, Filters, CopyDone
    <3>2. DataBounded(e)' /\ RequestsBounded(e)'
      BY <1>0, <1>6, Bounds
      DEF CopyBuffer, TypeOK, Idle, Kept, DataBounded, RequestsBounded, Inside, HeldRequests,
          Filters, Directions
    <3>3. DataKept(e)' /\ RequestsKept(e)' /\ RequestsOver(e)'
      BY <1>0, <1>6, Bounds
      DEF CopyBuffer, TypeOK, Idle, Kept, NotStarted, FarOpen, DataKept, RequestsKept,
          RequestsOver, TakesData, TakesRequests, Filters, Plain, Inside
    <3>4. QED
      BY <3>1, <3>2, <3>3 DEF Kept
  <2>3. Idle'
    BY <1>0, <1>6, Bounds
    DEF CopyBuffer, TypeOK, Idle, Kept, NotStarted, Inside, Filters, Directions
  <2>4. QED
    BY <2>1, <2>2, <2>3 DEF IInv
<1>7. CASE Drain
  <2>1. TypeOK'
    BY <1>0, <1>7, Bounds
    DEF Drain, TypeOK, Idle, Kept, DataBounded, RequestsBounded, Inside, HeldRequests,
        Filters, TakesData, TakesRequests, Directions
  <2>2. ASSUME NEW e \in Directions PROVE Kept(e)'
    <3>1. NotStarted(e)' /\ FarOpen(e)'
      BY <1>0, <1>7 DEF Drain, TypeOK, Idle, Kept, NotStarted, FarOpen, Filters, CopyDone
    <3>2. DataBounded(e)' /\ RequestsBounded(e)'
      BY <1>0, <1>7, Bounds
      DEF Drain, TypeOK, Idle, Kept, DataBounded, RequestsBounded, Inside, HeldRequests,
          Filters, Directions
    <3>3. DataKept(e)' /\ RequestsKept(e)' /\ RequestsOver(e)'
      BY <1>0, <1>7, Bounds
      DEF Drain, TypeOK, Idle, Kept, NotStarted, FarOpen, DataKept, RequestsKept,
          RequestsOver, TakesData, TakesRequests, Filters, Plain, Inside
    <3>4. QED
      BY <3>1, <3>2, <3>3 DEF Kept
  <2>3. Idle'
    BY <1>0, <1>7, Bounds DEF Drain, TypeOK, Idle, Kept, NotStarted, Inside, Filters, Directions
  <2>4. QED
    BY <2>1, <2>2, <2>3 DEF IInv
<1>8. QED
  BY <1>1, <1>2, <1>3, <1>4, <1>5, <1>6, <1>7 DEF Puller, Calls

(* The request goroutines.                                                 *)
LEMMA RequestStep ==
  ASSUME IInv, NEW d \in Directions, Requests(d)
  PROVE  IInv'
<1> USE ProxyAssumption DEF modeVars, peerVars, dataVars, reqVars, farVars, interVars
<1>0. /\ TypeOK /\ Idle
      /\ \A e \in Directions : Kept(e) /\ Back(e) \in Directions /\ Back(e) # e
  BY BackIn DEF IInv
<1>1. CASE RequestTake(d)
  <2>1. TypeOK'
    <3>1. reqTaken' \in [Directions -> 0..MaxReqs]
      BY <1>0, <1>1, Bounds DEF RequestTake, TypeOK
    <3>2. rpc' \in [Directions -> {"receive", "forward", "wait", "target", "done"}]
      BY <1>0, <1>1 DEF RequestTake, TypeOK
    <3>3. interposed' \in BOOLEAN
      BY <1>0, <1>1 DEF RequestTake, TypeOK
    <3>4. QED
      BY <1>0, <1>1, <3>1, <3>2, <3>3 DEF RequestTake, TypeOK
  <2>2. ASSUME NEW e \in Directions PROVE Kept(e)'
    <3>1. NotStarted(e)' /\ FarOpen(e)'
      BY <1>0, <1>1 DEF RequestTake, TypeOK, Idle, Kept, NotStarted, FarOpen, Filters, CopyDone
    <3>2. DataBounded(e)' /\ RequestsBounded(e)'
      BY <1>0, <1>1, Bounds
      DEF RequestTake, TypeOK, Idle, Kept, DataBounded, RequestsBounded, Inside, HeldRequests,
          Filters, Directions
    <3>3. DataKept(e)' /\ RequestsKept(e)' /\ RequestsOver(e)'
      BY <1>0, <1>1, Bounds
      DEF RequestTake, TypeOK, Idle, Kept, NotStarted, FarOpen, DataKept, RequestsKept,
          RequestsOver, TakesData, TakesRequests, Filters, Plain, Inside
    <3>4. QED
      BY <3>1, <3>2, <3>3 DEF Kept
  <2>3. Idle'
    BY <1>0, <1>1, Bounds
    DEF RequestTake, TypeOK, Idle, Kept, NotStarted, Inside, Filters, Directions
  <2>4. QED
    BY <2>1, <2>2, <2>3 DEF IInv
<1>2. CASE RequestForward(d)
  <2>1. TypeOK'
    BY <1>0, <1>2, Bounds
    DEF RequestForward, TypeOK, Idle, Kept, DataBounded, RequestsBounded, Inside, HeldRequests,
        Filters, TakesData, TakesRequests, Directions
  <2>2. ASSUME NEW e \in Directions PROVE Kept(e)'
    <3>1. NotStarted(e)' /\ FarOpen(e)'
      BY <1>0, <1>2 DEF RequestForward, TypeOK, Idle, Kept, NotStarted, FarOpen, Filters, CopyDone
    <3>2. DataBounded(e)' /\ RequestsBounded(e)'
      BY <1>0, <1>2, Bounds
      DEF RequestForward, TypeOK, Idle, Kept, DataBounded, RequestsBounded, Inside, HeldRequests,
          Filters, Directions
    <3>3. DataKept(e)' /\ RequestsKept(e)' /\ RequestsOver(e)'
      BY <1>0, <1>2, Bounds
      DEF RequestForward, TypeOK, Idle, Kept, NotStarted, FarOpen, DataKept, RequestsKept,
          RequestsOver, TakesData, TakesRequests, Filters, Plain, Inside
    <3>4. QED
      BY <3>1, <3>2, <3>3 DEF Kept
  <2>3. Idle'
    BY <1>0, <1>2, Bounds
    DEF RequestForward, TypeOK, Idle, Kept, NotStarted, Inside, Filters, Directions
  <2>4. QED
    BY <2>1, <2>2, <2>3 DEF IInv
<1>3. CASE RequestHand(d)
  <2>1. TypeOK'
    BY <1>0, <1>3, Bounds
    DEF RequestHand, TypeOK, Idle, Kept, DataBounded, RequestsBounded, Inside, HeldRequests,
        Filters, TakesData, TakesRequests, Directions
  <2>2. ASSUME NEW e \in Directions PROVE Kept(e)'
    <3>1. NotStarted(e)' /\ FarOpen(e)'
      BY <1>0, <1>3 DEF RequestHand, TypeOK, Idle, Kept, NotStarted, FarOpen, Filters, CopyDone
    <3>2. DataBounded(e)' /\ RequestsBounded(e)'
      BY <1>0, <1>3, Bounds
      DEF RequestHand, TypeOK, Idle, Kept, DataBounded, RequestsBounded, Inside, HeldRequests,
          Filters, Directions
    <3>3. DataKept(e)' /\ RequestsKept(e)' /\ RequestsOver(e)'
      BY <1>0, <1>3, Bounds
      DEF RequestHand, TypeOK, Idle, Kept, NotStarted, FarOpen, DataKept, RequestsKept,
          RequestsOver, TakesData, TakesRequests, Filters, Plain, Inside
    <3>4. QED
      BY <3>1, <3>2, <3>3 DEF Kept
  <2>3. Idle'
    BY <1>0, <1>3, Bounds
    DEF RequestHand, TypeOK, Idle, Kept, NotStarted, Inside, Filters, Directions
  <2>4. QED
    BY <2>1, <2>2, <2>3 DEF IInv
<1>4. CASE RequestsEnd(d)
  <2>1. TypeOK'
    BY <1>0, <1>4, Bounds
    DEF RequestsEnd, TypeOK, Idle, Kept, DataBounded, RequestsBounded, Inside, HeldRequests,
        Filters, TakesData, TakesRequests, Directions
  <2>2. ASSUME NEW e \in Directions PROVE Kept(e)'
    <3>1. NotStarted(e)' /\ FarOpen(e)'
      BY <1>0, <1>4 DEF RequestsEnd, TypeOK, Idle, Kept, NotStarted, FarOpen, Filters, CopyDone
    <3>2. DataBounded(e)' /\ RequestsBounded(e)'
      BY <1>0, <1>4, Bounds
      DEF RequestsEnd, TypeOK, Idle, Kept, DataBounded, RequestsBounded, Inside, HeldRequests,
          Filters, Directions
    <3>3. DataKept(e)' /\ RequestsKept(e)' /\ RequestsOver(e)'
      BY <1>0, <1>4, Bounds
      DEF RequestsEnd, TypeOK, Idle, Kept, NotStarted, FarOpen, DataKept, RequestsKept,
          RequestsOver, TakesData, TakesRequests, Filters, Plain, Inside
    <3>4. QED
      BY <3>1, <3>2, <3>3 DEF Kept
  <2>3. Idle'
    BY <1>0, <1>4, Bounds
    DEF RequestsEnd, TypeOK, Idle, Kept, NotStarted, Inside, Filters, Directions
  <2>4. QED
    BY <2>1, <2>2, <2>3 DEF IInv
<1>5. CASE CloseFar(d)
  <2>1. TypeOK'
    BY <1>0, <1>5, Bounds
    DEF CloseFar, TypeOK, Idle, Kept, DataBounded, RequestsBounded, Inside, HeldRequests,
        Filters, TakesData, TakesRequests, Directions
  <2>2. ASSUME NEW e \in Directions PROVE Kept(e)'
    <3>1. NotStarted(e)' /\ FarOpen(e)'
      BY <1>0, <1>5 DEF CloseFar, TypeOK, Idle, Kept, NotStarted, FarOpen, Filters, CopyDone
    <3>2. DataBounded(e)' /\ RequestsBounded(e)'
      BY <1>0, <1>5, Bounds
      DEF CloseFar, TypeOK, Idle, Kept, DataBounded, RequestsBounded, Inside, HeldRequests,
          Filters, Directions
    <3>3. DataKept(e)' /\ RequestsKept(e)' /\ RequestsOver(e)'
      BY <1>0, <1>5, Bounds
      DEF CloseFar, TypeOK, Idle, Kept, NotStarted, FarOpen, DataKept, RequestsKept,
          RequestsOver, TakesData, TakesRequests, Filters, Plain, Inside
    <3>4. QED
      BY <3>1, <3>2, <3>3 DEF Kept
  <2>3. Idle'
    BY <1>0, <1>5, Bounds DEF CloseFar, TypeOK, Idle, Kept, NotStarted, Inside, Filters, Directions
  <2>4. QED
    BY <2>1, <2>2, <2>3 DEF IInv
<1>6. CASE CloseTarget(d)
  <2>1. TypeOK'
    BY <1>0, <1>6, Bounds
    DEF CloseTarget, TypeOK, Idle, Kept, DataBounded, RequestsBounded, Inside, HeldRequests,
        Filters, TakesData, TakesRequests, Directions
  <2>2. ASSUME NEW e \in Directions PROVE Kept(e)'
    <3>1. NotStarted(e)' /\ FarOpen(e)'
      BY <1>0, <1>6 DEF CloseTarget, TypeOK, Idle, Kept, NotStarted, FarOpen, Filters, CopyDone
    <3>2. DataBounded(e)' /\ RequestsBounded(e)'
      BY <1>0, <1>6, Bounds
      DEF CloseTarget, TypeOK, Idle, Kept, DataBounded, RequestsBounded, Inside, HeldRequests,
          Filters, Directions
    <3>3. DataKept(e)' /\ RequestsKept(e)' /\ RequestsOver(e)'
      BY <1>0, <1>6, Bounds
      DEF CloseTarget, TypeOK, Idle, Kept, NotStarted, FarOpen, DataKept, RequestsKept,
          RequestsOver, TakesData, TakesRequests, Filters, Plain, Inside
    <3>4. QED
      BY <3>1, <3>2, <3>3 DEF Kept
  <2>3. Idle'
    BY <1>0, <1>6, Bounds
    DEF CloseTarget, TypeOK, Idle, Kept, NotStarted, Inside, Filters, Directions
  <2>4. QED
    BY <2>1, <2>2, <2>3 DEF IInv
<1>7. QED
  BY <1>1, <1>2, <1>3, <1>4, <1>5, <1>6 DEF Requests

(* The forwarding goroutine of the filter.                                 *)
LEMMA SinkStep ==
  ASSUME IInv, RequestSink
  PROVE  IInv'
<1> USE ProxyAssumption DEF modeVars, peerVars, dataVars, reqVars, farVars, interVars
<1>0. /\ TypeOK /\ Idle
      /\ \A e \in Directions : Kept(e) /\ Back(e) \in Directions /\ Back(e) # e
  BY BackIn DEF IInv
<1>1. CASE RequestSink
  <2>1. TypeOK'
    <3>1. "up" \in Directions /\ forwarded["up"] + 1 <= reqTaken["up"]
      BY <1>0, <1>1 DEF RequestSink, Kept, RequestsBounded, HeldRequests, Directions
    <3>2. forwarded["up"] + 1 \in 0..MaxReqs
      BY <1>0, <3>1 DEF TypeOK
    <3>3. forwarded' \in [Directions -> 0..MaxReqs]
      BY <1>0, <1>1, <3>2 DEF RequestSink, TypeOK
    <3>4. QED
      BY <1>0, <1>1, <3>3 DEF RequestSink, TypeOK
  <2>2. ASSUME NEW e \in Directions PROVE Kept(e)'
    <3>1. NotStarted(e)' /\ FarOpen(e)'
      BY <1>0, <1>1 DEF RequestSink, TypeOK, Idle, Kept, NotStarted, FarOpen, Filters, CopyDone
    <3>2. DataBounded(e)' /\ RequestsBounded(e)'
      BY <1>0, <1>1, Bounds
      DEF RequestSink, TypeOK, Idle, Kept, DataBounded, RequestsBounded, Inside, HeldRequests,
          Filters, Directions
    <3>3. DataKept(e)' /\ RequestsKept(e)' /\ RequestsOver(e)'
      BY <1>0, <1>1, Bounds
      DEF RequestSink, TypeOK, Idle, Kept, NotStarted, FarOpen, DataKept, RequestsKept,
          RequestsOver, TakesData, TakesRequests, Filters, Plain, Inside
    <3>4. QED
      BY <3>1, <3>2, <3>3 DEF Kept
  <2>3. Idle'
    BY <1>0, <1>1, Bounds
    DEF RequestSink, TypeOK, Idle, Kept, NotStarted, Inside, Filters, Directions
  <2>4. QED
    BY <2>1, <2>2, <2>3 DEF IInv
<1>2. QED
  BY <1>1

(* Opening the channel.                                                    *)
LEMMA OpeningStep == IInv /\ Opening => IInv'
<1> SUFFICES ASSUME IInv, Opening PROVE IInv'
  OBVIOUS
<1> USE DEF modeVars, peerVars, dataVars, reqVars, farVars, interVars, IInv, TypeOK, Idle,
            Kept, NotStarted, FarOpen, DataBounded, RequestsBounded, Inside, HeldRequests, DataKept,
            RequestsKept, RequestsOver, Filters, Plain
<1>1. CASE Accept
  BY <1>1 DEF Accept
<1>2. CASE AcceptFails
  <2>1. /\ phase \in {"accepting", "refused"} /\ phase' \in {"crashed", "ended"}
        /\ UNCHANGED <<filtered, peerVars, dataVars, reqVars, farEof, cpc, rpc, interVars>>
    BY ONLY <1>2 DEF AcceptFails
  <2>2. farClosed' \in [Directions -> BOOLEAN]
    BY ONLY <1>2, IInv DEF AcceptFails
  <2>3. TypeOK' /\ Idle'
    BY ONLY <2>1, <2>2, IInv
  <2>4. ASSUME NEW d \in Directions PROVE Kept(d)'
    BY ONLY <2>1, <2>4, IInv
  <2>5. QED
    BY ONLY <2>3, <2>4 DEF IInv
<1>3. ASSUME NEW granted \in BOOLEAN, Open(granted) PROVE IInv'
  <2>1. /\ phase = "opening" /\ phase' \in {"accepting", "refused"}
        /\ UNCHANGED <<filtered, peerVars, dataVars, reqVars, farVars, cpc, rpc, interVars>>
    BY ONLY <1>3 DEF Open
  <2>2. TypeOK' /\ Idle'
    BY ONLY <2>1, IInv
  <2>3. ASSUME NEW d \in Directions PROVE Kept(d)'
    BY ONLY <2>1, <2>3, IInv
  <2>4. QED
    BY ONLY <2>2, <2>3 DEF IInv
<1>4. QED
  BY <1>1, <1>2, <1>3 DEF Opening

LEMMA NextIInv == IInv /\ [Next]_vars => IInv'
<1> SUFFICES ASSUME IInv, [Next]_vars PROVE IInv'
  OBVIOUS
<1>1. CASE UNCHANGED vars
  BY <1>1 DEF vars, modeVars, peerVars, dataVars, reqVars, farVars, interVars, IInv, TypeOK,
              Idle, Kept, NotStarted, FarOpen, DataBounded, RequestsBounded, Inside, HeldRequests,
              DataKept, RequestsKept, RequestsOver, Filters, Plain
<1>2. QED
  BY <1>1, OpeningStep, InterposerStep, SinkStep, PeerStep, CopyStep, RequestStep DEF Next

-----------------------------------------------------------------------------
(* The invariant the theorems below follow from.                           *)
THEOREM Inductive == Spec => []IInv
BY InitIInv, NextIInv, PTL DEF Spec

(* TypeOK: no counter exceeds what the peers sent (proxy.go:236-278).      *)
THEOREM Types == Spec => []TypeOK
<1>1. IInv => TypeOK
  BY DEF IInv
<1>2. QED
  BY Inductive, <1>1, PTL

-----------------------------------------------------------------------------
(***************************************************************************)
(* Each direction implements Relay.  What the mapping needs besides the    *)
(* invariant: no more is taken than was sent, and a far peer that has not  *)
(* closed has been told of the end before the copying goroutine is done.   *)
(***************************************************************************)
Taken(d) == copied[d] <= sent[d] /\ reqTaken[d] <= reqSent[d]
Told(d)  == cpc[d] \in {"signal", "done"} /\ ~closed[Back(d)] => farEof[d]

WInv == \A d \in Directions : Taken(d) /\ Told(d)

(* A peer only sends more, and closes for good.                            *)
LEMMA PeerTold ==
  ASSUME IInv, WInv, NEW d \in Directions, Peer(d)
  PROVE  WInv'
<1>1. UNCHANGED <<copied, reqTaken, cpc, farEof>>
  BY DEF Peer, PeerSend, PeerRequest, PeerEof, PeerClose, dataVars, reqVars, farVars
<1>2. ASSUME NEW e \in Directions
      PROVE  /\ closed[e] => closed'[e]
             /\ sent'[e] \in {sent[e], sent[e] + 1}
             /\ reqSent'[e] \in {reqSent[e], reqSent[e] + 1}
  BY DEF Peer, PeerSend, PeerRequest, PeerEof, PeerClose, IInv, TypeOK
<1>3. ASSUME NEW e \in Directions PROVE Taken(e)'
  BY <1>1, <1>2, Bounds DEF IInv, WInv, Taken
<1>4. ASSUME NEW e \in Directions PROVE Told(e)'
  BY <1>1, <1>2, BackIn DEF WInv, Told
<1> QED BY <1>3, <1>4 DEF WInv

(* The copying goroutine takes what was sent, and tells of the end.        *)
LEMMA CopyTold ==
  ASSUME IInv, WInv, NEW d \in Directions, Copy(d)
  PROVE  WInv'
<1>1. UNCHANGED <<sent, reqSent, reqTaken, closed>>
  BY DEF Copy, CopyRead, CopyEof, CopyWrite, CopyFails, CopyCloseWrite, CopySignal, peerVars,
         reqVars
<1>2. copied' = copied \/ (copied[d] < sent[d] /\ copied' = [copied EXCEPT ![d] = @ + 1])
  BY DEF Copy, CopyRead, CopyEof, CopyWrite, CopyFails, CopyCloseWrite, CopySignal, dataVars
<1>3. ASSUME NEW e \in Directions PROVE Taken(e)'
  BY <1>1, <1>2, Bounds DEF IInv, TypeOK, WInv, Taken
<1>4. CASE CopyCloseWrite(d)
  <2>1. ~farClosed[d]
    BY <1>4 DEF CopyCloseWrite, IInv, Kept, NotStarted, FarOpen
  <2>2. /\ cpc' = [cpc EXCEPT ![d] = "signal"]
        /\ farEof' = [farEof EXCEPT ![d] = @ \/ TakesRequests(d)]
    BY <1>4 DEF CopyCloseWrite
  <2>3. ASSUME NEW e \in Directions PROVE Told(e)'
    BY <1>1, <2>1, <2>2 DEF IInv, TypeOK, WInv, Told, TakesRequests
  <2> QED BY <1>3, <2>3 DEF WInv
<1>5. CASE ~CopyCloseWrite(d)
  <2>1. /\ farEof' = farEof
        /\ \/ \E q \in {"read", "draw", "write", "buffer", "closeWrite"} :
                cpc' = [cpc EXCEPT ![d] = q]
           \/ cpc[d] = "signal" /\ cpc' = [cpc EXCEPT ![d] = "done"]
    BY <1>5 DEF Copy, CopyRead, CopyEof, CopyWrite, CopyFails, CopySignal,
       farVars
  <2>2. ASSUME NEW e \in Directions PROVE Told(e)'
    BY <1>1, <2>1 DEF IInv, TypeOK, WInv, Told
  <2> QED BY <1>3, <2>2 DEF WInv
<1> QED BY <1>4, <1>5

(* So does the interposer.                                                 *)
LEMMA InterposerTold ==
  ASSUME IInv, WInv, Puller \/ Calls \/ Drain
  PROVE  WInv'
<1>1. UNCHANGED <<sent, reqSent, reqTaken, closed, farEof>>
  BY DEF Puller, Pull, PullEnd, Calls, CopySwitch, Draw, DrawEnd, CopyBuffer, Drain,
     peerVars, reqVars, farVars
<1>2. \/ copied' = copied
      \/ /\ copied["down"] < sent["down"]
         /\ copied' = [copied EXCEPT !["down"] = @ + 1]
  BY DEF Puller, Pull, PullEnd, Calls, CopySwitch, Draw, DrawEnd, CopyBuffer, Drain,
     dataVars
<1>3. ASSUME NEW e \in Directions PROVE Taken(e)'
  BY <1>1, <1>2, Bounds DEF IInv, TypeOK, WInv, Taken
<1>4. ASSUME NEW e \in Directions, cpc'[e] \in {"signal", "done"} PROVE cpc[e] = cpc'[e]
  BY <1>4 DEF Puller, Pull, PullEnd, Calls, CopySwitch, Draw, DrawEnd, CopyBuffer, Drain,
     IInv, TypeOK
<1>5. ASSUME NEW e \in Directions PROVE Told(e)'
  BY <1>1, <1>4 DEF WInv, Told
<1> QED BY <1>3, <1>5 DEF WInv

(* So does the request goroutine; the others touch none of this.           *)
LEMMA RequestTold ==
  ASSUME IInv, WInv,
         \/ \E d \in Directions : Requests(d)
         \/ Opening \/ RequestSink \/ UNCHANGED vars
  PROVE  WInv'
<1>1. UNCHANGED <<sent, reqSent, copied, closed, cpc, farEof>>
  BY DEF Requests, RequestTake, RequestForward, RequestHand, RequestsEnd, CloseFar,
     CloseTarget, Opening, Open, Accept, AcceptFails, RequestSink, vars, peerVars,
     dataVars, farVars
<1>2. \/ reqTaken' = reqTaken
      \/ \E d \in Directions : /\ reqTaken[d] < reqSent[d]
                               /\ reqTaken' = [reqTaken EXCEPT ![d] = @ + 1]
  BY DEF Requests, RequestTake, RequestForward, RequestHand, RequestsEnd, CloseFar,
     CloseTarget, Opening, Open, Accept, AcceptFails, RequestSink, vars, reqVars
<1>3. ASSUME NEW e \in Directions PROVE Taken(e)'
  BY <1>1, <1>2, Bounds DEF IInv, TypeOK, WInv, Taken
<1>4. ASSUME NEW e \in Directions PROVE Told(e)'
  BY <1>1 DEF WInv, Told
<1> QED BY <1>3, <1>4 DEF WInv

THEOREM Supplied == Spec => []WInv
<1>1. Init => WInv
  BY DEF Init, WInv, Taken, Told
<1>2. IInv /\ WInv /\ [Next]_vars => WInv'
  BY PeerTold, CopyTold, InterposerTold, RequestTold DEF Next
<1> QED BY Inductive, <1>1, <1>2, PTL DEF Spec

(* Relay of one direction: d stands for "up" or "down".                    *)
Wire(d) == INSTANCE Relay WITH
             sent <- sent[d], asked <- reqSent[d], ended <- eof[d], left <- closed[d],
             given <- written[d], passed <- forwarded[d], told <- farEof[d],
             shut <- farClosed[d], gone <- Gone(d)

(* The variables of a relay, and a step that leaves them alone.            *)
LEMMA Stutters ==
  ASSUME NEW d \in Directions,
         UNCHANGED <<sent[d], reqSent[d], eof[d], closed[d], written[d], forwarded[d],
                     farEof[d], farClosed[d], Gone(d)>>
  PROVE  UNCHANGED Wire(d)!vars
BY DEF Wire!vars, Wire!near, Wire!far

(* The near peer sends, ends or leaves.                                    *)
LEMMA PeerRelays ==
  ASSUME IInv, NEW d \in Directions, Peer(d)
  PROVE  [Wire(d)!Next]_(Wire(d)!vars)
<1>1. UNCHANGED <<written[d], forwarded[d], farEof[d], farClosed[d], Gone(d)>>
  BY BackIn DEF Peer, PeerSend, PeerRequest, PeerEof, PeerClose, Gone, modeVars, interVars,
     dataVars, reqVars, farVars, IInv, TypeOK
<1>2. CASE PeerSend(d)
  BY <1>1, <1>2 DEF PeerSend, IInv, TypeOK, Wire!Next, Wire!Send, Wire!far
<1>3. CASE PeerRequest(d)
  BY <1>1, <1>3 DEF PeerRequest, IInv, TypeOK, Wire!Next, Wire!Ask, Wire!far
<1>4. CASE PeerEof(d)
  BY <1>1, <1>4 DEF PeerEof, IInv, TypeOK, Wire!Next, Wire!End, Wire!far
<1>5. CASE PeerClose(d)
  BY <1>1, <1>5 DEF PeerClose, IInv, TypeOK, Wire!Next, Wire!Leave, Wire!far
<1> QED BY <1>2, <1>3, <1>4, <1>5 DEF Peer

(* When it closes, it is lost to the relay of the other direction.         *)
LEMMA PeerLost ==
  ASSUME IInv, NEW d \in Directions, NEW e \in Directions, e # d, Peer(d)
  PROVE  [Wire(e)!Next]_(Wire(e)!vars)
<1>1. UNCHANGED <<sent[e], reqSent[e], eof[e], closed[e], written[e], forwarded[e],
                  farEof[e], farClosed[e], phase, filtered, interposed>>
  BY DEF Peer, PeerSend, PeerRequest, PeerEof, PeerClose, modeVars, interVars,
     dataVars, reqVars, farVars, IInv, TypeOK
<1>2. CASE closed' = closed
  <2>1. Gone(e)' = Gone(e)
    BY <1>1, <1>2 DEF Gone
  <2> QED BY <1>1, <2>1, Stutters
<1>3. CASE closed' # closed
  <2>1. closed'[Back(e)]
    BY <1>3, BackIn DEF Peer, PeerSend, PeerRequest, PeerEof, PeerClose, Back, Directions,
       IInv, TypeOK
  <2>2. Gone(e)' = TRUE
    BY <2>1 DEF Gone
  <2> QED BY <1>1, <2>2 DEF Wire!Next, Wire!Lose, Wire!near
<1> QED BY <1>2, <1>3

(* The copying goroutine of direction d gives data or tells of its end.    *)
LEMMA CopyRelays ==
  ASSUME IInv, WInv, NEW d \in Directions, Copy(d)
  PROVE  [Wire(d)!Next]_(Wire(d)!vars)
<1>1. UNCHANGED <<sent[d], reqSent[d], eof[d], closed[d], forwarded[d], farClosed[d], Gone(d)>>
  BY DEF Copy, CopyRead, CopyEof, CopyWrite, CopyFails, CopyCloseWrite, CopySignal,
     Gone, modeVars, peerVars, reqVars, farVars, interVars
<1>2. CASE CopyWrite(d)
  <2>1. /\ written'[d] = copied[d] - Inside(d) /\ ~farEof[d]
        /\ ~farClosed[d] /\ farEof' = farEof
    BY <1>2 DEF CopyWrite, IInv, TypeOK, TakesData, TakesRequests, farVars
  <2>2. written'[d] \in written[d] .. sent[d]
    BY <2>1, Bounds DEF IInv, Kept, DataBounded, WInv, Taken
  <2>3. CASE written'[d] = written[d]
    BY <1>1, <2>1, <2>3, Stutters
  <2>4. CASE written'[d] # written[d]
    <3>1. written[d] < sent[d] /\ written'[d] \in written[d] + 1 .. sent[d]
      BY <2>2, <2>4, Bounds DEF IInv
    <3> QED BY <1>1, <2>1, <3>1 DEF Wire!Next, Wire!Give, Wire!near
  <2> QED BY <2>3, <2>4
<1>3. CASE CopyCloseWrite(d) /\ TakesRequests(d)
  <2>1. /\ ~farClosed[d] /\ farEof'[d] = TRUE /\ written' = written
        /\ ~Gone(d) => eof[d] /\ written[d] = sent[d]
    BY <1>3 DEF CopyCloseWrite, TakesRequests, IInv, TypeOK, Kept, DataKept, Plain, Gone, dataVars
  <2> QED BY <1>1, <2>1 DEF Wire!Next, Wire!Tell, Wire!near
<1>4. CASE ~CopyWrite(d) /\ ~(CopyCloseWrite(d) /\ TakesRequests(d))
  <2>1. written'[d] = written[d] /\ farEof'[d] = farEof[d]
    BY <1>4 DEF Copy, CopyRead, CopyEof, CopyFails, CopyCloseWrite, CopySignal, dataVars,
       farVars, IInv, TypeOK
  <2> QED BY <1>1, <2>1, Stutters
<1> QED BY <1>2, <1>3, <1>4

(* So does, of what passes the Asynk, its sink; whatever else the          *)
(* interposer does gives nothing.                                          *)
LEMMA InterposerRelays ==
  ASSUME IInv, WInv, Puller \/ Calls \/ Drain, NEW d \in Directions
  PROVE  [Wire(d)!Next]_(Wire(d)!vars)
<1>1. UNCHANGED <<sent[d], reqSent[d], eof[d], closed[d], forwarded[d], farEof[d],
                  farClosed[d], Gone(d)>>
  <2>1. UNCHANGED <<sent, reqSent, eof, closed, forwarded, farEof, farClosed, filtered,
                    phase, interposed>>
    BY DEF Puller, Pull, PullEnd, Calls, CopySwitch, Draw, DrawEnd, CopyBuffer, Drain,
       modeVars, peerVars, reqVars, farVars, interVars
  <2> QED BY <2>1 DEF Gone
<1>2. CASE Drain /\ d = "up" /\ TakesData("up")
  <2>1. /\ written'[d] = written[d] + 1 /\ written[d] < sent[d]
        /\ ~farEof[d] /\ ~farClosed[d]
    BY <1>2, Bounds DEF Drain, IInv, TypeOK, Kept, DataBounded, Inside, TakesData,
       TakesRequests, WInv, Taken
  <2>2. written'[d] \in written[d] + 1 .. sent[d]
    BY <2>1, Bounds DEF IInv
  <2> QED BY <1>1, <2>1, <2>2 DEF Wire!Next, Wire!Give, Wire!near
<1>3. CASE ~(Drain /\ d = "up" /\ TakesData("up"))
  <2>1. CASE Drain
    <3>1. /\ d # "up" \/ ~TakesData("up")
          /\ written' = [written EXCEPT !["up"] = IF TakesData("up") THEN @ + 1 ELSE @]
          /\ written \in [Directions -> 0..MaxData]
      BY <1>3, <2>1 DEF Drain, IInv, TypeOK
    <3>2. written'[d] = written[d]
      BY <3>1
    <3> QED BY <1>1, <3>2, Stutters
  <2>2. CASE Puller \/ Calls
    <3>1. written' = written
      BY <2>2 DEF Puller, Pull, PullEnd, Calls, CopySwitch, Draw, DrawEnd, CopyBuffer,
         dataVars
    <3> QED BY <1>1, <3>1, Stutters
  <2> QED BY <2>1, <2>2
<1> QED BY <1>2, <1>3

(* The request goroutine passes requests on and closes at its end, and may *)
(* interpose the other direction.                                          *)
LEMMA RequestsRelay ==
  ASSUME IInv, WInv, NEW d \in Directions, Requests(d)
  PROVE  [Wire(d)!Next]_(Wire(d)!vars)
<1>1. UNCHANGED <<sent[d], reqSent[d], eof[d], closed[d], written[d], farEof[d], Gone(d)>>
  <2>1. UNCHANGED <<sent, reqSent, eof, closed, written, farEof, filtered, phase>>
    BY DEF Requests, RequestTake, RequestForward, RequestHand, RequestsEnd, CloseFar,
       CloseTarget, modeVars, peerVars, dataVars, farVars
  <2>2. d = "up" \/ interposed' = interposed
    BY DEF Requests, RequestTake, RequestForward, RequestHand, RequestsEnd, CloseFar,
       CloseTarget, Filters, interVars
  <2> QED BY <2>1, <2>2 DEF Gone
<1>2. CASE RequestForward(d) /\ TakesRequests(d)
  <2>1. /\ forwarded'[d] = forwarded[d] + 1 /\ forwarded[d] < reqSent[d]
        /\ ~farClosed[d] /\ farClosed' = farClosed
    BY <1>2, Bounds DEF RequestForward, IInv, TypeOK, Kept, RequestsBounded, HeldRequests,
       TakesRequests, WInv, Taken, farVars
  <2> QED BY <1>1, <2>1 DEF Wire!Next, Wire!Pass, Wire!near
<1>3. CASE CloseFar(d)
  <2>1. farClosed'[d] = TRUE /\ forwarded' = forwarded /\ rpc[d] = "wait" /\ cpc[d] = "done"
    BY <1>3 DEF CloseFar, CopyDone, IInv, TypeOK, reqVars
  <2>2. ~Gone(d) => closed[d] /\ farEof[d] /\ written[d] = sent[d] /\ forwarded[d] = reqSent[d]
    BY <2>1 DEF Gone, Plain, Filters, IInv, Kept, DataKept, RequestsKept, RequestsOver,
       WInv, Told
  <2> QED BY <1>1, <2>1, <2>2 DEF Wire!Next, Wire!Shut, Wire!near
<1>4. CASE ~(RequestForward(d) /\ TakesRequests(d)) /\ ~CloseFar(d)
  <2>1. forwarded'[d] = forwarded[d] /\ farClosed'[d] = farClosed[d]
    BY <1>4 DEF Requests, RequestTake, RequestForward, RequestHand, RequestsEnd,
       CloseTarget, reqVars, farVars, IInv, TypeOK
  <2> QED BY <1>1, <2>1, Stutters
<1> QED BY <1>2, <1>3, <1>4

(* So does the goroutine of a filter.                                      *)
LEMMA SinkRelays ==
  ASSUME IInv, WInv, RequestSink, NEW d \in Directions
  PROVE  [Wire(d)!Next]_(Wire(d)!vars)
<1>1. UNCHANGED <<sent[d], reqSent[d], eof[d], closed[d], written[d], farEof[d],
                  farClosed[d], Gone(d)>>
  BY DEF RequestSink, Gone, modeVars, interVars, peerVars, dataVars, farVars
<1>2. CASE d = "up" /\ TakesRequests("up")
  <2>1. forwarded'[d] = forwarded[d] + 1 /\ forwarded[d] < reqSent[d] /\ ~farClosed[d]
    BY <1>2, Bounds DEF RequestSink, IInv, TypeOK, Kept, RequestsBounded, HeldRequests,
       TakesRequests, WInv, Taken
  <2> QED BY <1>1, <2>1 DEF Wire!Next, Wire!Pass, Wire!near
<1>3. CASE ~(d = "up" /\ TakesRequests("up"))
  <2>1. forwarded'[d] = forwarded[d]
    BY <1>3 DEF RequestSink, IInv, TypeOK
  <2> QED BY <1>1, <2>1, Stutters
<1> QED BY <1>2, <1>3

(* What the goroutines of the other direction do does not concern it, but  *)
(* that the client is lost to it once an interposer draws what it gets.    *)
LEMMA OthersRelay ==
  ASSUME IInv, NEW d \in Directions, NEW e \in Directions, e # d, Copy(d) \/ Requests(d)
  PROVE  [Wire(e)!Next]_(Wire(e)!vars)
<1>1. UNCHANGED <<sent, reqSent, eof, closed, phase, filtered>>
  BY DEF Copy, CopyRead, CopyEof, CopyWrite, CopyFails, CopyCloseWrite, CopySignal,
     Requests, RequestTake, RequestForward, RequestHand, RequestsEnd, CloseFar,
     CloseTarget, modeVars, peerVars
<1>2. UNCHANGED <<written[e], forwarded[e], farEof[e], farClosed[e]>>
  BY DEF Copy, CopyRead, CopyEof, CopyWrite, CopyFails, CopyCloseWrite, CopySignal,
     Requests, RequestTake, RequestForward, RequestHand, RequestsEnd, CloseFar,
     CloseTarget, dataVars, reqVars, farVars, IInv, TypeOK
<1>3. CASE Gone(e)' = Gone(e)
  BY <1>1, <1>2, <1>3, Stutters
<1>4. CASE Gone(e)' # Gone(e)
  <2>1. interposed' = interposed \/ interposed' = TRUE
    BY DEF Copy, CopyRead, CopyEof, CopyWrite, CopyFails, CopyCloseWrite, CopySignal,
       Requests, RequestTake, RequestForward, RequestHand, RequestsEnd, CloseFar,
       CloseTarget, interVars
  <2>2. Gone(e)' = TRUE
    BY <1>1, <1>4, <2>1 DEF Gone
  <2> QED BY <1>1, <1>2, <2>2 DEF Wire!Next, Wire!Lose, Wire!near
<1> QED BY <1>3, <1>4

(* A channel that is not accepted has lost both peers.                     *)
LEMMA OpeningRelays ==
  ASSUME IInv, Opening, NEW d \in Directions
  PROVE  [Wire(d)!Next]_(Wire(d)!vars)
<1>1. UNCHANGED <<sent, reqSent, eof, closed, written, forwarded, farEof, filtered,
                  interposed>>
  BY DEF Opening, Open, Accept, AcceptFails, peerVars, dataVars, reqVars, farVars,
     interVars
<1>2. CASE AcceptFails
  <2>1. Gone(d)' = TRUE /\ farClosed'[d] \in {farClosed[d], TRUE}
    BY <1>2 DEF AcceptFails, Gone, IInv, TypeOK, Kept, NotStarted
  <2> QED BY <1>1, <2>1 DEF Wire!Next, Wire!Lose, Wire!near
<1>3. CASE ~AcceptFails
  <2>1. farClosed' = farClosed /\ Gone(d)' = Gone(d)
    BY <1>1, <1>3 DEF Opening, Open, Accept, Gone, farVars
  <2> QED BY <1>1, <2>1, Stutters
<1> QED BY <1>2, <1>3

(* A step of the proxy is one of each relay, or a stutter.                 *)
LEMMA StepRelays ==
  ASSUME IInv, WInv, [Next]_vars, NEW d \in Directions
  PROVE  [Wire(d)!Next]_(Wire(d)!vars)
<1>1. CASE \E e \in Directions : Peer(e) \/ Copy(e) \/ Requests(e)
  BY <1>1, PeerRelays, PeerLost, CopyRelays, RequestsRelay, OthersRelay
<1>2. CASE Opening \/ Puller \/ Calls \/ Drain \/ RequestSink
  BY <1>2, OpeningRelays, InterposerRelays, SinkRelays
<1>3. CASE UNCHANGED vars
  BY <1>3, Stutters DEF vars, modeVars, peerVars, dataVars, reqVars, farVars, interVars, Gone
<1> QED BY <1>1, <1>2, <1>3 DEF Next

(* IsRelay: nothing overtakes what came before it in a direction without   *)
(* filter and interposer, and until the far peer is gone nothing is left   *)
(* out; in the others nothing is given after the end or the close          *)
(* (proxy.go:225-261).                                                     *)
THEOREM Refinement == Spec => IsRelay
<1>1. Init => Up!Init /\ Down!Init
  BY DEF Init, Up!Init, Down!Init, Gone, Directions, Back
<1>2. ASSUME IInv, WInv, [Next]_vars
      PROVE  [Up!Next]_(Up!vars) /\ [Down!Next]_(Down!vars)
  <2>1. [Wire("up")!Next]_(Wire("up")!vars) /\ [Wire("down")!Next]_(Wire("down")!vars)
    BY <1>2, StepRelays DEF Directions
  <2> QED BY <2>1 DEF Wire!Next, Wire!Send, Wire!Ask, Wire!End, Wire!Leave, Wire!Give,
             Wire!Pass, Wire!Tell, Wire!Shut, Wire!Lose, Wire!near, Wire!far, Wire!vars,
             Up!Next, Up!Send, Up!Ask, Up!End, Up!Leave, Up!Give,
             Up!Pass, Up!Tell, Up!Shut, Up!Lose, Up!near, Up!far, Up!vars,
             Down!Next, Down!Send, Down!Ask, Down!End, Down!Leave, Down!Give,
             Down!Pass, Down!Tell, Down!Shut, Down!Lose, Down!near, Down!far, Down!vars
<1> QED BY Inductive, Supplied, <1>1, <1>2, PTL DEF Spec, IsRelay, Up!Spec, Down!Spec
============================
