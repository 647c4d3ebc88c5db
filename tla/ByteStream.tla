------------------------------ MODULE ByteStream ------------------------------
(***************************************************************************)
(* What a write buffer in front of an io.Writer promises: everything it    *)
(* accepts is handed on in order, once and unaltered, and no more than     *)
(* Room items are held at a time.  Items are what Write takes: bytes for   *)
(* an Asynk, packets for a RingDelayer.                                    *)
(***************************************************************************)
EXTENDS Integers, Sequences

CONSTANTS Item, \* what is written
          Room  \* how many items the buffer holds at most

VARIABLES accepted, \* every item taken from a caller, in order
          delivered \* every item handed to the upstream writer, in order

Init == accepted = <<>> /\ delivered = <<>>

Accept ==
  /\ accepted' \in Seq(Item) /\ Len(accepted') > Len(accepted)
  /\ SubSeq(accepted', 1, Len(accepted)) = accepted
  /\ Len(accepted') - Len(delivered) <= Room
  /\ UNCHANGED delivered

Deliver ==
  /\ \E k \in Len(delivered) + 1 .. Len(accepted) :
       delivered' = SubSeq(accepted, 1, k)
  /\ UNCHANGED accepted

Next == Accept \/ Deliver

Spec == Init /\ [][Next]_<<accepted, delivered>>
=============================================================================
