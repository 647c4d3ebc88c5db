-------------------------------- MODULE Screen --------------------------------
(***************************************************************************)
(* What an interposer promises about the picture its client sees: it is a  *)
(* picture the server has drawn, it never goes back, and while keystrokes  *)
(* wait for their answer it shows nothing that arrived after them.         *)
(***************************************************************************)
EXTENDS Naturals

CONSTANTS
  Frame,  \* framebuffers, with the output and the resizes they reflect
  NoLimit \* as much output as there may be

VARIABLES
  received, \* the framebuffer after the last output
  released, \* the one that may be shown
  drawn,    \* the one the client was shown last
  limit     \* how much output may be released

Behind(a, b) == a.out <= b.out /\ a.size <= b.size

Init == received.out = 0 /\ released = received /\ drawn = received /\ limit = NoLimit

(* Output arrives, and is released at once or later.                       *)
Receive ==
  /\ received' \in Frame /\ Behind(received, received')
  /\ UNCHANGED released \/ (received'.out <= limit /\ released' = received')
  /\ UNCHANGED <<drawn, limit>>

Release ==
  /\ received.out <= limit
  /\ released' = received
  /\ UNCHANGED <<received, drawn, limit>>

(* A keystroke: output that arrives from now on is held back.              *)
Hold ==
  /\ limit' \in released.out .. received.out
  /\ UNCHANGED <<received, released, drawn>>

(* An answer releases what has arrived, and the rest when it is the last.  *)
Answer ==
  /\ released' = received
  /\ limit' \in {received.out, NoLimit}
  /\ UNCHANGED <<received, drawn>>

Draw ==
  /\ drawn' = released
  /\ UNCHANGED <<received, released, limit>>

Next == Receive \/ Release \/ Hold \/ Answer \/ Draw

Spec == Init /\ [][Next]_<<received, released, drawn, limit>>
=============================================================================
