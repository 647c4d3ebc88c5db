-------------------------------- MODULE Asynk --------------------------------
(***************************************************************************)
(* The asynchronous writer of internal/predictive/asynk.go: one caller of  *)
(* Write, the sink goroutine that MakeAsynk starts, and the goroutine that *)
(* calls Close.                                                            *)
(*                                                                         *)
(* A section under cond.L is one step.  upstreamErr is read and assigned   *)
(* without it, and so is the slice of the buffer that upstream.Write       *)
(* reads, so these are steps of their own.  The k-th byte that callers     *)
(* hand over is the number k; upstream reads the slice when SinkWrite      *)
(* happens, at any moment of the call.                                     *)
(***************************************************************************)
EXTENDS Integers, Sequences

CONSTANTS
  Capacity, \* length of the buffer
  MaxBytes, \* bound: bytes handed to Write by all calls
  MaxWrite  \* bound: bytes handed to one call of Write

ASSUME SizesAssumption ==
  Capacity \in Nat \ {0} /\ MaxBytes \in Nat /\ MaxWrite \in Nat \ {0}

VARIABLES
  buffer, bufferIndex,
  lastTransmittedIndex, nextIndex, \* of the sink goroutine
  writeNotify,  \* a notification is in the channel of capacity one
  upstreamErr,
  cpc,          \* Close: "open", "marked", "closed" (the channel), "done"
  spc,          \* control state of the sink
  wpc,          \* control state of the caller of Write
  asked,        \* bytes the caller's call of Write was given
  rest,         \* bytes of p left for this (recursive) call
  n,            \* bytes this (recursive) call has copied
  accepted,     \* history: bytes copied into the buffer by all calls
  delivered     \* history: bytes upstream has taken

bufVars  == <<buffer, bufferIndex, accepted>>
sinkVars == <<lastTransmittedIndex, nextIndex, spc, delivered>>
callVars == <<wpc, asked, rest, n>>
vars == <<bufVars, sinkVars, callVars, writeNotify, upstreamErr, cpc>>

Slots  == 0..(Capacity - 1)
Bytes  == 1..MaxBytes
Closed == cpc \in {"closed", "done"} \* the channel writeNotify

TypeOK ==
  /\ buffer \in [Slots -> 0..MaxBytes] /\ bufferIndex \in 0..Capacity
  /\ lastTransmittedIndex \in 0..Capacity /\ nextIndex \in 0..Capacity
  /\ writeNotify \in BOOLEAN
  /\ upstreamErr \in {"nil", "eof", "err"}
  /\ cpc \in {"open", "marked", "closed", "done"}
  /\ spc \in {"receive", "read", "write", "test", "settle", "done"}
  /\ wpc \in {"idle", "check", "copy", "notify", "wait", "waiting", "stopped"}
  /\ asked \in 0..MaxWrite /\ rest \in 0..MaxWrite /\ n \in 0..MaxWrite
  /\ accepted \in 0..MaxBytes
  /\ delivered \in Seq(Bytes)

(***************************************************************************)
(* MakeAsynk: an empty buffer, and the sink waiting for a notification.    *)
(***************************************************************************)
Init ==
  /\ buffer = [i \in Slots |-> 0] /\ bufferIndex = 0
  /\ lastTransmittedIndex = 0 /\ nextIndex = 0
  /\ writeNotify = FALSE /\ upstreamErr = "nil" /\ cpc = "open"
  /\ spc = "receive" /\ wpc = "idle"
  /\ asked = 0 /\ rest = 0 /\ n = 0
  /\ accepted = 0 /\ delivered = <<>>

-----------------------------------------------------------------------------
(***************************************************************************)
(* Write.  The caller is an io.Copy: it stops at an error, at a short      *)
(* count, or when it has nothing more to write.                            *)
(***************************************************************************)
WriteCall(k) ==
  /\ wpc = "idle" /\ accepted + k <= MaxBytes
  /\ wpc' = "check"
  /\ asked' = k /\ rest' = k /\ n' = 0
  /\ UNCHANGED <<bufVars, sinkVars, writeNotify, upstreamErr, cpc>>

CallerDone ==
  /\ wpc = "idle"
  /\ wpc' = "stopped"
  /\ UNCHANGED <<bufVars, sinkVars, asked, rest, n, writeNotify, upstreamErr, cpc>>

WriteCheck ==
  /\ wpc = "check"
  /\ wpc' = IF upstreamErr = "nil" THEN "copy" ELSE "stopped"
  /\ UNCHANGED <<bufVars, sinkVars, asked, rest, n, writeNotify, upstreamErr, cpc>>

(* copy takes what fits, and the recursive call goes on with p[n:].        *)
Fitting_Whole == rest \* mutant: copies past the end of the buffer
Fitting == IF rest <= Capacity - bufferIndex THEN rest ELSE Capacity - bufferIndex

WriteCopy ==
  /\ wpc = "copy"
  /\ n' = Fitting
  /\ buffer' = [i \in Slots |-> IF i \in bufferIndex..(bufferIndex + Fitting - 1)
                                  THEN accepted + 1 + (i - bufferIndex)
                                  ELSE buffer[i]]
  /\ bufferIndex' = bufferIndex + Fitting
  /\ accepted' = accepted + Fitting
  /\ rest' = rest - Fitting
  /\ wpc' = "notify"
  /\ UNCHANGED <<sinkVars, asked, writeNotify, upstreamErr, cpc>>

(* The non-blocking put.  A call that has copied all of its own p returns  *)
(* n, through every call that recursed into it.                            *)
Returned == IF n = asked THEN "idle" ELSE "stopped"

Blocked == IF writeNotify THEN "wait" ELSE "check"

WriteNotify_WhenDone == \* mutant: notifies only once all of p is copied
  /\ wpc = "notify"
  /\ writeNotify' = (writeNotify \/ rest = 0)
  /\ wpc' = IF rest = 0 THEN Returned ELSE "wait"
  /\ UNCHANGED <<bufVars, sinkVars, asked, rest, n, upstreamErr, cpc>>

WriteNotify ==
  /\ wpc = "notify"
  /\ writeNotify' = TRUE
  /\ wpc' = IF rest = 0 THEN Returned ELSE Blocked
  /\ UNCHANGED <<bufVars, sinkVars, asked, rest, n, upstreamErr, cpc>>

WriteWait ==
  /\ wpc = "wait"
  /\ wpc' = "waiting"
  /\ UNCHANGED <<bufVars, sinkVars, asked, rest, n, writeNotify, upstreamErr, cpc>>

-----------------------------------------------------------------------------
(***************************************************************************)
(* The sink goroutine.                                                     *)
(***************************************************************************)
SinkReceive ==
  /\ spc = "receive" /\ writeNotify
  /\ writeNotify' = FALSE
  /\ spc' = "read"
  /\ UNCHANGED <<bufVars, callVars, lastTransmittedIndex, nextIndex, delivered,
                 upstreamErr, cpc>>

SinkDone ==
  /\ spc = "receive" /\ ~writeNotify /\ Closed
  /\ spc' = "done"
  /\ UNCHANGED <<bufVars, callVars, lastTransmittedIndex, nextIndex, delivered,
                 writeNotify, upstreamErr, cpc>>

SinkRead_Reclaims == \* mutant: gives the space back before it is written
  /\ spc = "read"
  /\ nextIndex' = bufferIndex /\ bufferIndex' = 0
  /\ spc' = "write"
  /\ UNCHANGED <<buffer, accepted, callVars, lastTransmittedIndex, delivered,
                 writeNotify, upstreamErr, cpc>>

SinkRead ==
  /\ spc = "read"
  /\ nextIndex' = bufferIndex
  /\ spc' = "write"
  /\ UNCHANGED <<bufVars, callVars, lastTransmittedIndex, delivered,
                 writeNotify, upstreamErr, cpc>>

(* buffer[lastTransmittedIndex:nextIndex], of which upstream takes k bytes *)
Slice(k) == [i \in 1..k |-> buffer[lastTransmittedIndex + i - 1]]

SinkWrite(k) ==
  LET whole == k = nextIndex - lastTransmittedIndex
  IN  /\ spc = "write"
      /\ delivered' = delivered \o Slice(k)
      /\ \/ whole /\ upstreamErr' = "nil"
         \/ upstreamErr' = "err"
      /\ lastTransmittedIndex' = nextIndex
      /\ spc' = "test"
      /\ UNCHANGED <<bufVars, callVars, nextIndex, writeNotify, cpc>>

SinkTest ==
  /\ spc = "test"
  /\ spc' = IF upstreamErr = "nil" THEN "settle" ELSE "done"
  /\ UNCHANGED <<bufVars, callVars, lastTransmittedIndex, nextIndex, delivered,
                 writeNotify, upstreamErr, cpc>>

Reclaim_Always == TRUE \* mutant: forgets what arrived during the write
Reclaim == bufferIndex = nextIndex

SinkSettle ==
  /\ spc = "settle"
  /\ bufferIndex' = IF Reclaim THEN 0 ELSE bufferIndex
  /\ lastTransmittedIndex' = IF Reclaim THEN 0 ELSE lastTransmittedIndex
  /\ wpc' = IF wpc = "waiting" THEN "check" ELSE wpc
  /\ spc' = "receive"
  /\ UNCHANGED <<buffer, accepted, nextIndex, delivered, asked, rest, n,
                 writeNotify, upstreamErr, cpc>>

-----------------------------------------------------------------------------
(***************************************************************************)
(* Close.  handleSshChannel closes its copyTarget only after the io.Copy   *)
(* that writes to it has returned (proxy.go:251-254).                      *)
(***************************************************************************)
CloseMark ==
  /\ cpc = "open" /\ wpc = "stopped"
  /\ upstreamErr' = IF upstreamErr = "nil" THEN "eof" ELSE upstreamErr
  /\ cpc' = "marked"
  /\ UNCHANGED <<bufVars, sinkVars, callVars, writeNotify>>

CloseNotify ==
  /\ cpc = "marked"
  /\ cpc' = "closed"
  /\ UNCHANGED <<bufVars, sinkVars, callVars, writeNotify, upstreamErr>>

(* Broadcast, and upstream.Close().                                        *)
CloseRelease ==
  /\ cpc = "closed"
  /\ cpc' = "done"
  /\ wpc' = IF wpc = "waiting" THEN "check" ELSE wpc
  /\ UNCHANGED <<bufVars, sinkVars, asked, rest, n, writeNotify, upstreamErr>>

-----------------------------------------------------------------------------
Caller == \/ \E k \in 1..MaxWrite : WriteCall(k)
          \/ CallerDone \/ WriteCheck \/ WriteCopy \/ WriteNotify \/ WriteWait

Sink == \/ SinkReceive \/ SinkDone \/ SinkRead \/ SinkTest \/ SinkSettle
        \/ \E k \in 0..(nextIndex - lastTransmittedIndex) : SinkWrite(k)

Closer == CloseMark \/ CloseNotify \/ CloseRelease

Next == Caller \/ Sink \/ Closer

Spec == Init /\ [][Next]_vars

(***************************************************************************)
(* Fairness: goroutines run, a call of Write in progress included, and the *)
(* upstream returns from its Write.  Nobody promises another call, or a    *)
(* Close.                                                                  *)
(***************************************************************************)
Fairness ==
  /\ WF_vars(Sink)
  /\ WF_vars(WriteCheck \/ WriteCopy \/ WriteNotify \/ WriteWait)
  /\ WF_vars(CloseNotify \/ CloseRelease)

FairSpec == Spec /\ Fairness

-----------------------------------------------------------------------------
(***************************************************************************)
(* Properties.                                                             *)
(***************************************************************************)

(* An Asynk is a stream: whatever the interleaving of caller and sink, and *)
(* through every reuse of the buffer, upstream gets the accepted bytes in  *)
(* order, each once and unaltered, and at most a buffer of them is owed    *)
(* (asynk.go:56-76, :97-100).                                              *)
FirstBytes(k) == [i \in 1..k |-> i]

Stream == INSTANCE ByteStream WITH
            Item <- Bytes, Room <- Capacity,
            accepted <- FirstBytes(accepted), delivered <- delivered

IsStream == Stream!Spec

(* The slice given to upstream.Write is not written to during the call,    *)
(* although the call is made without cond.L (asynk.go:61 against :98).     *)
SliceStable ==
  [][spc = "write" =>
       \A i \in lastTransmittedIndex..(nextIndex - 1) : buffer'[i] = buffer[i]]_vars

(* Bytes upstream has not been given are never left without someone about  *)
(* to send them: a notification stands, the caller is about to put one,    *)
(* or the sink has yet to look at bufferIndex (asynk.go:53, :75).          *)
NotStranded ==
  spc \in {"receive", "write", "test", "settle"} =>
    \/ writeNotify
    \/ wpc = "notify"
    \/ bufferIndex = IF spc = "receive" THEN lastTransmittedIndex ELSE nextIndex

(* A byte that Write took reaches the upstream, unless that fails or the   *)
(* Asynk is closed first.                                                  *)
AcceptedDelivered ==
  \A k \in Bytes :
    accepted >= k ~> Len(delivered) >= k \/ upstreamErr # "nil" \/ cpc # "open"

-----------------------------------------------------------------------------
(***************************************************************************)
(* What a comment of the code says and it does not do.                     *)
(***************************************************************************)

(* asynk.go:30, "If buffer capacity is exceeded, however, the asynk will   *)
(* block until the underlying writer starts to clear": a caller blocked    *)
(* while the upstream goes on taking bytes goes on as well.                *)
BlockedWriterResumes ==
  wpc = "waiting" ~> wpc # "waiting" \/ upstreamErr # "nil"
=============================================================================
