------------------------------ MODULE Keystrokes ------------------------------
(***************************************************************************)
(* What is typed in an interposed session with a simulated delay, on its   *)
(* way to the SSH channel: an Asynk, whose sink writes to a RingDelayer    *)
(* (main.go:326-331, termemu.go:274).  Both are taken from what they       *)
(* promise, ByteStream, which Asynk and RingDelayer implement.             *)
(*                                                                         *)
(* A packet of the ring is what one Write was given, and is named by the   *)
(* number of typed bytes handed over up to its end.  The ring has a second *)
(* writer, pullFromUpstream, which replies to the server for the emulator: *)
(* a report has no typed byte, and takes a place in the ring.              *)
(***************************************************************************)
EXTENDS Integers, Sequences

CONSTANTS Byte,     \* what is typed
          Capacity, \* bytes the Asynk holds
          Slots     \* packets the RingDelayer has room for: its ring, the one in
                    \* hand, and one of the sink and one of pullFromUpstream

VARIABLES typed,  \* bytes accepted by the Asynk
          handed, \* bytes the sink has written, as it knows
          cuts,   \* packets put in the ring
          passed  \* packets written to the channel

vars == <<typed, handed, cuts, passed>>

Buffer == INSTANCE ByteStream WITH
            Item <- Byte, Room <- Capacity, accepted <- typed, delivered <- handed

Ring == INSTANCE ByteStream WITH
          Item <- Nat, Room <- Slots, accepted <- cuts, delivered <- passed

Init == Buffer!Init /\ Ring!Init

End(packets) == IF packets = <<>> THEN 0 ELSE packets[Len(packets)]

Type == Buffer!Accept /\ UNCHANGED <<cuts, passed>>

(* The sink calls Write with what the Asynk holds by now, which is nothing *)
(* when an earlier call has taken the bytes of a later notification, and   *)
(* makes one call at a time (asynk.go:57-61).                              *)
Put ==
  /\ End(cuts) = Len(handed)
  /\ \E k \in Len(handed) .. Len(typed) : cuts' = Append(cuts, k)
  /\ Ring!Accept
  /\ UNCHANGED <<typed, handed>>

(* pullFromUpstream calls Write with a report, whatever the sink does.     *)
Report ==
  /\ cuts' = Append(cuts, End(cuts))
  /\ Ring!Accept
  /\ UNCHANGED <<typed, handed>>

(* The call returns.  It need not: a Write that finds the delayer closed   *)
(* reports an error for a packet that may yet be sent (delay.go:126).      *)
Return ==
  /\ handed' = SubSeq(typed, 1, End(cuts))
  /\ Buffer!Deliver
  /\ UNCHANGED <<cuts, passed>>

Pass == Ring!Deliver /\ UNCHANGED <<typed, handed>>

Next == Type \/ Put \/ Report \/ Return \/ Pass

Spec == Init /\ [][Next]_vars

-----------------------------------------------------------------------------
(* Asynk and RingDelayer in a row are one stream: every byte typed reaches *)
(* the channel in order and once, however the two interleave, whatever     *)
(* reports come between them and whatever becomes of a Write that fails,   *)
(* and no more than this is on its way (main.go:326-331, termemu.go:363).  *)
Whole == INSTANCE ByteStream WITH
           Item <- Byte, Room <- Capacity * (Slots + 1),
           accepted <- typed, delivered <- SubSeq(typed, 1, End(passed))

IsStream == Whole!Spec
=============================================================================
