------------------------------ MODULE RingDelayer ------------------------------
(***************************************************************************)
(* The delaying writer of internal/predictive/delay.go: the goroutines     *)
(* that call Write, the consumer goroutine that RingDelay starts, and the  *)
(* goroutine that calls Close.                                             *)
(*                                                                         *)
(* An interposed session has two writers, the sink of its Asynk and        *)
(* pullFromUpstream, which writes the emulator's reports.  A section under *)
(* cond.L is one step; termination and notifyChan are used without it.     *)
(* Packets are numbered by the order of the calls of Write.  Time is a     *)
(* clock that ticks between steps.  A panic ends the process.  A local     *)
(* variable that is dead is reset.                                         *)
(***************************************************************************)
EXTENDS Integers, Sequences, FiniteSets

CONSTANTS
  Writers,    \* the goroutines that call Write
  Size,       \* slots of the ring, and capacity of notifyChan
  Delay,      \* how long a packet is held
  MaxPackets, \* bound: number of calls of Write
  MaxTime     \* bound: how far the clock goes

ASSUME RingAssumption ==
  /\ IsFiniteSet(Writers) /\ Writers # {}
  /\ Size \in Nat /\ Size >= Cardinality(Writers) \* 512 slots, two writers
  /\ Delay \in Nat /\ MaxPackets \in Nat /\ MaxTime \in Nat

VARIABLES
  ring, sendTime, head, tail,
  tokens, closed, \* notifyChan: notifications in it, and whether it is closed
  termination,
  kpc,            \* control state of the consumer
  buffer, wake,   \* of the consumer: the packet in hand, the end of its sleep
  wpc, packet,    \* control state and packet of each writer
  cpc,            \* control state of Close
  crashed,        \* a goroutine has panicked
  broken,         \* the upstream takes no more
  clock,
  due,            \* of Write: the sendTime computed for each packet
  written,        \* number of calls of Write
  accepted,       \* history: packets in the order they entered the ring
  delivered       \* history: packets the upstream has taken

ringVars  == <<ring, sendTime, head, tail, accepted>>
chanVars  == <<tokens, closed>>
consVars  == <<kpc, buffer, wake>>
callVars  == <<wpc, packet, due, written>>
endVars   == <<termination, crashed, broken>>
vars == <<ringVars, chanVars, consVars, callVars, endVars, cpc, clock, delivered>>

Slots   == 0..(Size - 1)
Packets == 1..MaxPackets
Empty   == 0 \* the nil of an unused slot

TypeOK ==
  /\ ring \in [Slots -> Packets \cup {Empty}] /\ sendTime \in [Slots -> 0..MaxTime]
  /\ head \in Slots /\ tail \in Slots
  /\ tokens \in 0..Size /\ closed \in BOOLEAN
  /\ termination \in {"nil", "eof", "err"}
  /\ kpc \in {"receive", "look", "sleep", "write", "fail", "done"}
  /\ buffer \in Packets \cup {Empty} /\ wake \in 0..MaxTime
  /\ wpc \in [Writers -> {"idle", "put", "waiting", "recheck", "notify", "return", "stopped"}]
  /\ packet \in [Writers -> Packets \cup {Empty}]
  /\ cpc \in {"open", "marked", "closed", "done"}
  /\ crashed \in BOOLEAN /\ broken \in BOOLEAN
  /\ clock \in 0..MaxTime /\ due \in [Packets -> 0..MaxTime] /\ written \in 0..MaxPackets
  /\ accepted \in Seq(Packets) /\ delivered \in Seq(Packets)

(***************************************************************************)
(* RingDelay: an empty ring and the consumer.                              *)
(***************************************************************************)
Init ==
  /\ ring = [i \in Slots |-> Empty] /\ sendTime = [i \in Slots |-> 0]
  /\ head = 0 /\ tail = 0
  /\ tokens = 0 /\ closed = FALSE /\ termination = "nil"
  /\ kpc = "receive" /\ buffer = Empty /\ wake = 0
  /\ wpc = [w \in Writers |-> "idle"] /\ packet = [w \in Writers |-> Empty]
  /\ cpc = "open" /\ crashed = FALSE /\ broken = FALSE
  /\ clock = 0 /\ due = [p \in Packets |-> 0] /\ written = 0
  /\ accepted = <<>> /\ delivered = <<>>

After_Unwrapped(i) == i + 1 \* mutant: runs off the end of the ring
After(i) == (i + 1) % Size

-----------------------------------------------------------------------------
(***************************************************************************)
(* Write.  A writer that gets an error does not call again.                *)
(***************************************************************************)
WriteCall(w) ==
  /\ ~crashed /\ wpc[w] = "idle" /\ written < MaxPackets /\ clock + Delay <= MaxTime
  /\ \/ /\ termination = "nil"
        /\ written' = written + 1
        /\ packet' = [packet EXCEPT ![w] = written + 1]
        /\ due' = [due EXCEPT ![written + 1] = clock + Delay]
        /\ wpc' = [wpc EXCEPT ![w] = "put"]
     \/ /\ termination # "nil"
        /\ wpc' = [wpc EXCEPT ![w] = "stopped"]
        /\ UNCHANGED <<written, packet, due>>
  /\ UNCHANGED <<ringVars, chanVars, consVars, endVars, cpc, clock, delivered>>

WriteWait(w) ==
  /\ ~crashed /\ wpc[w] = "put" /\ ring[tail] # Empty
  /\ wpc' = [wpc EXCEPT ![w] = "waiting"]
  /\ UNCHANGED <<ringVars, chanVars, consVars, packet, due, written, endVars,
                 cpc, clock, delivered>>

WritePut_Overwrites(w) == \* mutant: does not wait for the slot at tail
  /\ ~crashed /\ wpc[w] = "put"
  /\ ring' = [ring EXCEPT ![tail] = packet[w]]
  /\ sendTime' = [sendTime EXCEPT ![tail] = due[packet[w]]]
  /\ tail' = After(tail)
  /\ accepted' = Append(accepted, packet[w])
  /\ packet' = [packet EXCEPT ![w] = Empty]
  /\ wpc' = [wpc EXCEPT ![w] = "recheck"]
  /\ UNCHANGED <<head, chanVars, consVars, due, written, endVars, cpc,
                 clock, delivered>>

WritePut_Undated(w) == \* mutant: leaves the slot its last sendTime
  /\ ~crashed /\ wpc[w] = "put" /\ ring[tail] = Empty
  /\ ring' = [ring EXCEPT ![tail] = packet[w]]
  /\ tail' = After(tail)
  /\ accepted' = Append(accepted, packet[w])
  /\ packet' = [packet EXCEPT ![w] = Empty]
  /\ wpc' = [wpc EXCEPT ![w] = "recheck"]
  /\ UNCHANGED <<sendTime, head, chanVars, consVars, due, written,
                 endVars, cpc, clock, delivered>>

WritePut(w) ==
  /\ ~crashed /\ wpc[w] = "put" /\ ring[tail] = Empty
  /\ ring' = [ring EXCEPT ![tail] = packet[w]]
  /\ sendTime' = [sendTime EXCEPT ![tail] = due[packet[w]]]
  /\ tail' = After(tail)
  /\ accepted' = Append(accepted, packet[w])
  /\ packet' = [packet EXCEPT ![w] = Empty]
  /\ wpc' = [wpc EXCEPT ![w] = "recheck"]
  /\ UNCHANGED <<head, chanVars, consVars, due, written, endVars, cpc,
                 clock, delivered>>

WriteRecheck_Omitted(w) == \* mutant: does not look at termination again
  /\ ~crashed /\ wpc[w] = "recheck"
  /\ wpc' = [wpc EXCEPT ![w] = "notify"]
  /\ UNCHANGED <<ringVars, chanVars, consVars, packet, due, written, endVars,
                 cpc, clock, delivered>>

WriteRecheck(w) ==
  /\ ~crashed /\ wpc[w] = "recheck"
  /\ wpc' = [wpc EXCEPT ![w] = IF termination = "nil" THEN "notify" ELSE "stopped"]
  /\ UNCHANGED <<ringVars, chanVars, consVars, packet, due, written, endVars,
                 cpc, clock, delivered>>

WriteNotify_Once(w) == \* mutant: notifies as the Asynk does, not over another one
  /\ ~crashed /\ wpc[w] = "notify"
  /\ \/ /\ ~closed
        /\ tokens' = IF tokens = 0 THEN 1 ELSE tokens
        /\ wpc' = [wpc EXCEPT ![w] = "return"]
        /\ UNCHANGED crashed
     \/ /\ closed
        /\ crashed' = TRUE
        /\ UNCHANGED <<tokens, wpc>>
  /\ UNCHANGED <<ringVars, closed, consVars, packet, due, written, termination,
                 broken, cpc, clock, delivered>>

(* A send on the closed channel panics.                                    *)
WriteNotify(w) ==
  /\ ~crashed /\ wpc[w] = "notify"
  /\ \/ /\ ~closed /\ tokens < Size
        /\ tokens' = tokens + 1
        /\ wpc' = [wpc EXCEPT ![w] = "return"]
        /\ UNCHANGED crashed
     \/ /\ closed
        /\ crashed' = TRUE
        /\ UNCHANGED <<tokens, wpc>>
  /\ UNCHANGED <<ringVars, closed, consVars, packet, due, written, termination,
                 broken, cpc, clock, delivered>>

WriteReturn(w) ==
  /\ ~crashed /\ wpc[w] = "return"
  /\ wpc' = [wpc EXCEPT ![w] = IF termination = "nil" THEN "idle" ELSE "stopped"]
  /\ UNCHANGED <<ringVars, chanVars, consVars, packet, due, written, endVars,
                 cpc, clock, delivered>>

-----------------------------------------------------------------------------
(***************************************************************************)
(* The consumer.  Range over notifyChan goes on until the channel is       *)
(* closed and empty.                                                       *)
(***************************************************************************)
Receive ==
  /\ ~crashed /\ kpc = "receive" /\ tokens > 0
  /\ tokens' = tokens - 1
  /\ kpc' = "look"
  /\ UNCHANGED <<ringVars, closed, buffer, wake, callVars, endVars, cpc, clock,
                 delivered>>

Finish ==
  /\ ~crashed /\ kpc = "receive" /\ tokens = 0 /\ closed
  /\ kpc' = "done"
  /\ UNCHANGED <<ringVars, chanVars, buffer, wake, callVars, endVars, cpc,
                 clock, delivered>>

(* Free the slot at head, and signal one waiting writer.                   *)
Signal ==
  \/ \E w \in Writers : wpc[w] = "waiting" /\ wpc' = [wpc EXCEPT ![w] = "put"]
  \/ (\A w \in Writers : wpc[w] # "waiting") /\ UNCHANGED wpc

Take_Silent == \* mutant: frees the slot and tells no one
  /\ ring' = [ring EXCEPT ![head] = Empty]
  /\ head' = After(head)
  /\ kpc' = "write"
  /\ UNCHANGED <<wpc, sendTime, tail, accepted, chanVars, packet, due, written,
                 endVars, cpc, clock, delivered>>

Take ==
  /\ ring' = [ring EXCEPT ![head] = Empty]
  /\ head' = After(head)
  /\ Signal
  /\ kpc' = "write"
  /\ UNCHANGED <<sendTime, tail, accepted, chanVars, packet, due, written,
                 endVars, cpc, clock, delivered>>

TakeNow ==
  /\ ~crashed /\ kpc = "look" /\ sendTime[head] <= clock
  /\ buffer' = ring[head]
  /\ Take
  /\ UNCHANGED wake

Sleep ==
  /\ ~crashed /\ kpc = "look" /\ sendTime[head] > clock
  /\ buffer' = ring[head] /\ wake' = sendTime[head]
  /\ kpc' = "sleep"
  /\ UNCHANGED <<ringVars, chanVars, callVars, endVars, cpc, clock, delivered>>

TakeLater ==
  /\ ~crashed /\ kpc = "sleep" /\ clock >= wake
  /\ Take
  /\ wake' = 0
  /\ UNCHANGED buffer

(* upstream.Write: an SSH channel that has failed once fails ever after.   *)
Send ==
  /\ ~crashed /\ kpc = "write" /\ ~broken
  /\ delivered' = Append(delivered, buffer)
  /\ buffer' = Empty
  /\ kpc' = "receive"
  /\ UNCHANGED <<ringVars, chanVars, wake, callVars, endVars, cpc, clock>>

SendFails ==
  /\ ~crashed /\ kpc = "write"
  /\ broken' = TRUE
  /\ kpc' = "fail"
  /\ buffer' = Empty
  /\ UNCHANGED <<ringVars, chanVars, wake, callVars, termination,
                 crashed, cpc, clock, delivered>>

(* Closing a closed channel panics.                                        *)
Terminate ==
  /\ ~crashed /\ kpc = "fail"
  /\ termination' = "err"
  /\ closed' = TRUE /\ crashed' = closed
  /\ kpc' = "receive"
  /\ UNCHANGED <<ringVars, tokens, buffer, wake, callVars, broken, cpc, clock,
                 delivered>>

-----------------------------------------------------------------------------
(***************************************************************************)
(* Close, which Interposer.Close calls twice, through its Asynk and        *)
(* directly: the second call only finds termination set.                   *)
(***************************************************************************)
CloseMark ==
  /\ ~crashed /\ cpc = "open"
  /\ cpc' = IF termination = "nil" THEN "marked" ELSE "done"
  /\ termination' = IF termination = "nil" THEN "eof" ELSE termination
  /\ UNCHANGED <<ringVars, chanVars, consVars, callVars, crashed, broken, clock,
                 delivered>>

CloseChan ==
  /\ ~crashed /\ cpc = "marked"
  /\ closed' = TRUE /\ crashed' = closed
  /\ cpc' = "closed"
  /\ UNCHANGED <<ringVars, tokens, consVars, callVars, termination, broken,
                 clock, delivered>>

CloseUpstream ==
  /\ ~crashed /\ cpc = "closed"
  /\ broken' = TRUE
  /\ cpc' = "done"
  /\ UNCHANGED <<ringVars, chanVars, consVars, callVars, termination, crashed,
                 clock, delivered>>

Tick ==
  /\ ~crashed /\ clock < MaxTime
  /\ clock' = clock + 1
  /\ UNCHANGED <<ringVars, chanVars, consVars, callVars, endVars, cpc, delivered>>

-----------------------------------------------------------------------------
WriteOn(w) == \/ WriteWait(w) \/ WritePut(w) \/ WriteRecheck(w)
              \/ WriteNotify(w) \/ WriteReturn(w)

Consumer == \/ Receive \/ Finish \/ TakeNow \/ Sleep \/ TakeLater
            \/ Send \/ SendFails \/ Terminate

Closer == CloseMark \/ CloseChan \/ CloseUpstream

Next == \/ \E w \in Writers : WriteCall(w) \/ WriteOn(w)
        \/ Consumer \/ Closer \/ Tick

Spec == Init /\ [][Next]_vars

(***************************************************************************)
(* Fairness: goroutines run, time passes, the upstream returns from its    *)
(* Write.  Nobody promises a call of Write, or of Close.                   *)
(***************************************************************************)
Fairness ==
  /\ \A w \in Writers : WF_vars(WriteOn(w))
  /\ WF_vars(Consumer)
  /\ WF_vars(CloseChan \/ CloseUpstream)
  /\ WF_vars(Tick)

FairSpec == Spec /\ Fairness

-----------------------------------------------------------------------------
(***************************************************************************)
(* Properties.                                                             *)
(***************************************************************************)

(* A RingDelayer is a stream of packets: the upstream gets them in the     *)
(* order in which they entered the ring, each once, whatever wraps around  *)
(* and whoever waits.  Owed are those in the ring, the one in hand and,    *)
(* after a failure, the one each writer was about to put (delay.go:58-86,  *)
(* :114-125).                                                              *)
Stream == INSTANCE ByteStream WITH
            Item <- Packets, Room <- Size + 1 + Cardinality(Writers),
            accepted <- accepted, delivered <- delivered

IsStream == Stream!Spec

(* No packet is sent before its time, although the consumer looks at the   *)
(* ring, sleeps without the mutex and looks again (delay.go:61-75).        *)
NotEarly ==
  [][delivered' # delivered => clock >= due[delivered'[Len(delivered')]]]_vars

(* Notifications and slots agree although they are handed over separately: *)
(* a notification always finds a packet at head (delay.go:58-64, :129).    *)
HeadOccupied == kpc = "look" => ring[head] # Empty

(* A writer that has put its packet never blocks on notifyChan, which has  *)
(* as many places as the ring (delay.go:55, :129).                         *)
RoomToNotify == \A w \in Writers : wpc[w] = "notify" => tokens < Size

(* A packet in the ring is sent, unless the upstream fails or the delayer  *)
(* is closed.                                                              *)
PacketSent ==
  \A p \in Packets :
    (\E i \in 1..Len(accepted) : accepted[i] = p) ~>
      (\E i \in 1..Len(delivered) : delivered[i] = p) \/ termination # "nil"

(* delay.go:76, :116: a writer that waits for room is let go, also when    *)
(* the upstream has failed or the delayer is closed.                       *)
WaitEnds == \A w \in Writers : wpc[w] = "waiting" ~> wpc[w] # "waiting" \/ crashed

(* An ended delayer with nothing left to send: no notification is left, or *)
(* about to be put, none is in the hands of the consumer, and Close is not *)
(* on its way to a channel that the consumer has closed.                   *)
Drained ==
  /\ termination # "nil" /\ ~crashed
  /\ tokens = 0 /\ kpc \in {"receive", "done"}
  /\ \A w \in Writers : wpc[w] # "notify"
  /\ ~(closed /\ cpc = "marked")

(* While something is left to send, closing or sending on notifyChan may   *)
(* panic: the consumer closes it again when a second packet fails, or when *)
(* Close has, Close when the consumer has, and a Write may meet it closed. *)
(* Once drained, the delayer is safe for ever, whoever still holds a       *)
(* packet for it, waits for room, calls Write or calls Close               *)
(* (delay.go:80-98, :106, :126-129).                                       *)
CleanEnd == [](Drained => []~crashed)

(* What PacketSent rests on: while the delayer is in service each packet   *)
(* the upstream has yet to get has a notification in notifyChan, a writer  *)
(* that is about to put one, or the attention of the consumer, although    *)
(* packet and notification are handed over in separate sections            *)
(* (delay.go:58-86, :114-129).                                             *)
PacketsNotified ==
  termination = "nil" /\ ~broken =>
    Len(accepted) - Len(delivered)
      = tokens + Cardinality({w \in Writers : wpc[w] \in {"recheck", "notify"}})
               + (IF kpc \in {"look", "sleep", "write"} THEN 1 ELSE 0)

(* What WaitEnds rests on: a freed slot signals one writer only, but for   *)
(* each that waits there is a notification to come, also when the delayer  *)
(* is closed or its upstream has failed and writers return without having  *)
(* notified (delay.go:76, :116, :126).                                     *)
WaitersCovered ==
  Cardinality({w \in Writers : wpc[w] = "waiting"})
    <= tokens + (IF kpc \in {"look", "sleep"} THEN 1 ELSE 0)
=============================================================================
