--------------------------------- MODULE PtyReq ---------------------------------
(***************************************************************************)
(* The payloads of pty-req and window-change requests, and the parsers of  *)
(* internal/sshproxy/ptyreq.go.                                            *)
(*                                                                         *)
(* A payload is a sequence of numbers, one for each uint32 and one for     *)
(* each character of the terminal's name.  The end of a payload, wherever  *)
(* it comes, is the only error there is: a field that is cut is missing.   *)
(***************************************************************************)
EXTENDS Naturals, Sequences

Error == <<>>

(* What a client puts into a request (RFC 4254, 6.2 and 6.7): a size, and  *)
(* more that the proxy does not look at.                                   *)
PtyPayload(term, size, rest) == <<Len(term)>> \o term \o size \o rest
WindowPayload(size, rest) == size \o rest

(* binary.Read of n numbers at a reader that stands behind number at.      *)
Has(payload, at, n) == Len(payload) >= at + n

InterpretWindowChange_Swapped(payload) == \* mutant: reads the height first
  IF Has(payload, 0, 2) THEN <<payload[2], payload[1]>> ELSE Error

InterpretWindowChange(payload) ==
  IF Has(payload, 0, 2) THEN <<payload[1], payload[2]>> ELSE Error

(* The name is as long as its length says.                                 *)
InterpretPtyReq(payload) ==
  IF Has(payload, 0, 1) /\ Has(payload, 1, payload[1] + 2)
    THEN LET at == 1 + payload[1] IN <<payload[at + 1], payload[at + 2]>>
    ELSE Error
=============================================================================
