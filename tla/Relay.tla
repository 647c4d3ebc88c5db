---------------------------------- MODULE Relay ----------------------------------
(***************************************************************************)
(* What a proxied channel promises in one direction, from a near peer to a *)
(* far one: the far peer is given what the near peer sent, then told of    *)
(* the end of the data, then closed; until it is gone, nothing is left     *)
(* out.                                                                    *)
(***************************************************************************)
EXTENDS Naturals

VARIABLES
  sent, asked, ended, left,  \* the near peer: data, requests, its EOF, its CLOSE
  given, passed, told, shut, \* the same for the far peer
  gone                       \* the far peer takes no more, or need not get all

near == <<sent, asked, ended, left>>
far  == <<given, passed, told, shut>>
vars == <<near, far, gone>>

Init ==
  /\ sent = 0 /\ asked = 0 /\ ~ended /\ ~left
  /\ given = 0 /\ passed = 0 /\ ~told /\ ~shut
  /\ gone \in BOOLEAN

Send == ~ended /\ sent' = sent + 1 /\ UNCHANGED <<asked, ended, left, far, gone>>
Ask  == ~left /\ asked' = asked + 1 /\ UNCHANGED <<sent, ended, left, far, gone>>
End  == ended' = TRUE /\ UNCHANGED <<sent, asked, left, far, gone>>
Leave == ended' = TRUE /\ left' = TRUE /\ UNCHANGED <<sent, asked, far, gone>>

Give ==
  /\ given < sent /\ ~told /\ ~shut
  /\ given' \in given + 1 .. sent
  /\ UNCHANGED <<near, passed, told, shut, gone>>

Pass ==
  /\ passed < asked /\ ~shut
  /\ passed' = passed + 1
  /\ UNCHANGED <<near, given, told, shut, gone>>

(* The end is told after all the data ...                                  *)
Tell ==
  /\ ~shut /\ (gone \/ (ended /\ given = sent))
  /\ told' = TRUE
  /\ UNCHANGED <<near, given, passed, shut, gone>>

(* ... and the close comes last of all.                                    *)
Shut ==
  /\ gone \/ (left /\ told /\ given = sent /\ passed = asked)
  /\ shut' = TRUE
  /\ UNCHANGED <<near, given, passed, told, gone>>

(* The far peer leaves, or has never been there.                           *)
Lose ==
  /\ gone' = TRUE /\ shut' \in {shut, TRUE}
  /\ UNCHANGED <<near, given, passed, told>>

Next == Send \/ Ask \/ End \/ Leave \/ Give \/ Pass \/ Tell \/ Shut \/ Lose

Spec == Init /\ [][Next]_vars
=============================================================================
