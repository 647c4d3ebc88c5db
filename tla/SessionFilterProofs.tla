--------------------------- MODULE SessionFilterProofs ---------------------------
(***************************************************************************)
(* Proofs about SessionFilter, for any number of requests and of pieces of *)
(* input and output.                                                       *)
(*                                                                         *)
(* The argument: a request is passed on only when what it asks for has     *)
(* been done (Handled, Resized), and all that happens later, its arrival   *)
(* at the server, the answer, the output and the input that follow the     *)
(* answer, happens to requests that were passed on (Order).                *)
(***************************************************************************)
EXTENDS SessionFilter, Integers, TLAPS

(* Requests the filter is done with.                                       *)
Busy == {"handle", "refract", "enable", "resize", "pass"}
Passed == IF fpc \in Busy THEN taken - 1 ELSE taken

(* A request that means a size, and one that is a pty-req.                 *)
IsSized(i) == i \in 1..Len(requests) /\ requests[i].means # Error
IsPty(i) == IsSized(i) /\ requests[i].kind = "pty"

(* How far activateInterposer and Enable are.                              *)
Front == IF interposer THEN "interposer" ELSE "delayer"
Switched ==
  /\ activated => interposer = predict
  /\ ~activated => /\ refractor = "nil" /\ ~enabled /\ ~interposer
                   /\ fpc \notin {"refract", "enable"}
  /\ fpc = "refract" => refractor = "nil"
  /\ activated /\ fpc # "refract" => refractor = Front
  /\ fpc \in {"refract", "enable"} => ~enabled
  /\ activated /\ fpc \notin {"refract", "enable"} => enabled
  /\ fpc = "resize" => interposer

(* A pty-req is passed on only when the IoSwitch is enabled.               *)
Handled ==
  /\ Len(requests) <= MaxReqs
  /\ fpc \in Busy => taken > 0
  /\ \A i \in 1..Passed : IsPty(i) => enabled
  /\ fpc = "pass" /\ IsPty(taken) => enabled
  /\ fpc = "handle" /\ requests[taken].kind = "pty" => ~activated /\ IsPty(taken)
  /\ fpc = "handle" => requests[taken].kind \in {"pty", "setting", "unknown"}

(* And a request about a size only when the interposer has been told.      *)
SizedFor(i) == IsSized(i) => \A p \in 1..i : IsPty(p) => sizedBy >= i
Resized ==
  /\ sizedBy <= taken
  /\ predict => \A i \in 1..Passed : SizedFor(i)
  /\ predict /\ fpc = "pass" => SizedFor(taken)

(* The size of the interposer is that of a request that followed a pty-req. *)
Sizing ==
  /\ activated => \E p \in 1..taken : IsPty(p)
  /\ fpc \in {"refract", "enable", "resize"} => IsSized(taken)
  /\ sizedBy > 0 => /\ IsSized(sizedBy) /\ size = requests[sizedBy].means
                    /\ \E p \in 1..sizedBy : IsPty(p)

(* Requests go on in order, and only those passed on are sent or answered. *)
Order ==
  /\ \A i \in 1..Len(forwarded) : forwarded[i] <= Passed
  /\ \A i \in 1..Len(replies) : replies[i] <= Passed
  /\ spc \in {"send", "await"} => held \in 1..Passed
  /\ spc = "send" => \A i \in 1..Len(forwarded) : forwarded[i] < held
  /\ ForwardedInOrder

(* Output that follows a pty-req finds the IoSwitch enabled.               *)
Output ==
  /\ \A i \in 1..Len(wire) : wire[i] => enabled
  /\ predict => dpc # "delayer"
  /\ around <= 1
  /\ around > 0 => predict /\ enabled /\ dpc # "channel"
  /\ dpc # "nil"

Routed == \A b \in BOOLEAN : <<b, "nil">> \notin inputs

IInv == /\ TypeOK /\ Switched /\ Handled /\ Resized /\ Sizing /\ Order /\ Output
        /\ Routed /\ InputInterposed /\ InterposerShut

-----------------------------------------------------------------------------
(* What a concatenation is.                                                *)
LEMMA Concat ==
  ASSUME NEW S, NEW s \in Seq(S), NEW t \in Seq(S)
  PROVE  /\ s \o t \in Seq(S) /\ Len(s \o t) = Len(s) + Len(t)
         /\ \A i \in 1..Len(s) : (s \o t)[i] = s[i]
         /\ \A i \in 1..Len(t) : (s \o t)[Len(s) + i] = t[i]
  OBVIOUS

(* The parser of window-change (ptyreq.go:70-85) finds the size that was   *)
(* put in, whatever follows it.                                            *)
LEMMA WindowExact ==
  ASSUME NEW w \in Nat, NEW h \in Nat, NEW rest \in Seq(Nat)
  PROVE  InterpretWindowChange(WindowPayload(<<w, h>>, rest)) = <<w, h>>
<1>1. /\ <<w, h>> \in Seq(Nat) /\ Len(<<w, h>>) = 2 /\ Len(rest) \in Nat
  OBVIOUS
<1>2. /\ Len(<<w, h>> \o rest) = 2 + Len(rest)
      /\ (<<w, h>> \o rest)[1] = w /\ (<<w, h>> \o rest)[2] = h
  BY <1>1, Concat
<1> QED BY <1>1, <1>2 DEF InterpretWindowChange, WindowPayload, Has

(* And that of pty-req (ptyreq.go:34-56), whatever the name of the         *)
(* terminal and whatever follows.                                          *)
THEOREM PtyExact ==
  ASSUME NEW w \in Nat, NEW h \in Nat, NEW term \in Seq(Nat), NEW rest \in Seq(Nat)
  PROVE  InterpretPtyReq(PtyPayload(term, <<w, h>>, rest)) = <<w, h>>
<1> DEFINE n == Len(term)
           a == <<n>> \o term
           b == a \o <<w, h>>
           p == b \o rest
<1>1. /\ n \in Nat /\ Len(rest) \in Nat /\ <<n>> \in Seq(Nat) /\ Len(<<n>>) = 1 /\ <<n>>[1] = n
      /\ <<w, h>> \in Seq(Nat) /\ Len(<<w, h>>) = 2 /\ <<w, h>>[1] = w /\ <<w, h>>[2] = h
  OBVIOUS
<1>2. a \in Seq(Nat) /\ Len(a) = 1 + n /\ a[1] = n
  BY <1>1, Concat
<1>3. b \in Seq(Nat) /\ Len(b) = 3 + n /\ b[1] = n /\ b[1 + n + 1] = w /\ b[1 + n + 2] = h
  <2> HIDE DEF a, n
  <2>1. Len(b) = (1 + n) + 2 /\ b \in Seq(Nat)
    BY <1>1, <1>2, Concat
  <2>2. b[1] = n
    BY <1>1, <1>2, Concat
  <2>3. b[1 + n + 1] = w /\ b[1 + n + 2] = h
    BY <1>1, <1>2, Concat
  <2> QED BY <1>1, <2>1, <2>2, <2>3
<1>4. Len(p) = 3 + n + Len(rest) /\ p[1] = n /\ p[1 + n + 1] = w /\ p[1 + n + 2] = h
  <2> HIDE DEF b, n
  <2>1. Len(p) = (3 + n) + Len(rest)
    <3>1. b \in Seq(Nat) /\ Len(b) = 3 + n
      BY <1>3
    <3> QED BY <3>1, Concat
  <2>2. \A i \in 1..Len(b) : p[i] = b[i]
    <3>1. b \in Seq(Nat)
      BY <1>3
    <3> QED BY <3>1, Concat
  <2>3. 1 \in 1..Len(b) /\ 1 + n + 1 \in 1..Len(b) /\ 1 + n + 2 \in 1..Len(b)
    BY <1>1, <1>3
  <2> QED BY <1>3, <2>1, <2>2, <2>3
<1>5. PtyPayload(term, <<w, h>>, rest) = p
  BY DEF PtyPayload
<1> HIDE DEF p, n
<1>6. Has(p, 0, 1) /\ Has(p, 1, p[1] + 2)
  BY <1>1, <1>4 DEF Has
<1>7. InterpretPtyReq(p) = <<p[1 + p[1] + 1], p[1 + p[1] + 2]>>
  BY <1>6 DEF InterpretPtyReq
<1> QED BY <1>4, <1>5, <1>7

(* What the filter reads is what the client means.                         *)
LEMMA Exact == ASSUME NEW r \in Requests PROVE Asked(r) = r.means
<1>1. /\ InterpretPtyReq(PtyPayload(<<7>>, <<1, 2>>, <<8>>)) = <<1, 2>>
      /\ InterpretWindowChange(WindowPayload(<<2, 1>>, <<16, 8>>)) = <<2, 1>>
  <2>1. /\ <<7>> \in Seq(Nat) /\ <<8>> \in Seq(Nat) /\ <<16, 8>> \in Seq(Nat)
        /\ 1 \in Nat /\ 2 \in Nat
    OBVIOUS
  <2> QED BY <2>1, PtyExact, WindowExact
<1>2. /\ InterpretPtyReq(<<3, 7, 1, 2>>) = Error
      /\ InterpretWindowChange(<<1>>) = Error
  BY DEF InterpretPtyReq, InterpretWindowChange, Has
<1>3. PICK c \in Whole \cup Plain \cup Odd : r.kind = c[1] /\ r.means = c[2] /\ r.payload = c[3]
  BY DEF Requests, Request
<1>4. CASE c \in Whole
  BY <1>1, <1>3, <1>4 DEF Whole, Asked
<1>5. CASE c \in Cut
  BY <1>2, <1>3, <1>5 DEF Cut, Asked
<1>6. CASE c \in Plain \cup {<<"unknown", Error, <<>>>>}
  BY <1>3, <1>6 DEF Plain, Asked
<1> QED BY <1>4, <1>5, <1>6 DEF Odd

-----------------------------------------------------------------------------
(* What an Append is, and a Tail.                                          *)
LEMMA AppendLast ==
  ASSUME NEW S, NEW s \in Seq(S), NEW x \in S
  PROVE  /\ Append(s, x) \in Seq(S) /\ Len(Append(s, x)) = Len(s) + 1
         /\ Len(s) \in Nat
         /\ \A i \in 1..Len(s) : Append(s, x)[i] = s[i]
         /\ Append(s, x)[Len(s) + 1] = x
  OBVIOUS

LEMMA HeadTail ==
  ASSUME NEW S, NEW s \in Seq(S), s # <<>>
  PROVE  /\ Len(s) \in Nat \ {0} /\ Head(s) = s[1] /\ Head(s) \in S
         /\ Tail(s) \in Seq(S) /\ Len(Tail(s)) = Len(s) - 1
         /\ \A i \in 1..Len(Tail(s)) : Tail(s)[i] = s[i + 1]
  OBVIOUS

(* Members of a sequence as indices, and the sets in terms of requests.    *)
LEMMA PtyInIs ==
  ASSUME NEW s PROVE PtyIn(s) <=> \E k \in 1..Len(s) : IsPty(s[k])
  BY DEF PtyIn, Among, Ptys, Sized, IsPty, IsSized

LEMMA SizedIs ==
  /\ \A i : i \in Sized <=> IsSized(i)
  /\ \A i : i \in Ptys <=> IsPty(i)
  BY DEF Ptys, Sized, IsPty, IsSized

(* What has been sent or answered, and is a pty-req, has enabled the        *)
(* IoSwitch.                                                               *)
LEMMA SentEnabled ==
  ASSUME IInv PROVE (PtyIn(forwarded) => enabled) /\ (PtyIn(replies) => enabled)
<1>1. ASSUME NEW i \in Indices, i <= Passed, IsPty(i) PROVE enabled
  <2>1. i \in 1..Passed
    BY <1>1, FilterAssumption DEF IInv, TypeOK, Passed, Indices
  <2> QED BY <1>1, <2>1 DEF IInv, Handled
<1>2. /\ \A k \in 1..Len(forwarded) : forwarded[k] \in Indices /\ forwarded[k] <= Passed
      /\ \A k \in 1..Len(replies) : replies[k] \in Indices /\ replies[k] <= Passed
  BY DEF IInv, TypeOK, Order
<1> QED BY <1>1, <1>2, PtyInIs

(* What the filter does with a request.                                    *)
LEMMA Handles ==
  ASSUME NEW r \in Requests
  PROVE  /\ Handling(r) \in {"handle", "resize", "pass"}
         /\ Handling(r) = "handle" =>
              /\ r.kind \in {"pty", "setting", "unknown"}
              /\ r.kind = "pty" => r.means # Error /\ ~activated
         /\ Handling(r) = "resize" => interposer /\ r.means # Error
         /\ Handling(r) = "pass" /\ r.means # Error =>
              ~interposer /\ (r.kind = "pty" => activated)
         /\ r.kind \notin {"pty", "winch"} => r.means = Error
<1>1. Asked(r) = r.means
  BY Exact
<1>2. r.kind \notin {"pty", "winch"} => Asked(r) = Error
  BY DEF Asked
<1> HIDE DEF Asked
<1> QED BY <1>1, <1>2 DEF Handling

(* Where the IoSwitch leads.                                               *)
LEMMA Leads ==
  ASSUME IInv
  PROVE  /\ Target \in {"channel", "delayer", "interposer"}
         /\ enabled /\ predict => Target = "interposer"
         /\ ~enabled => Target = "channel"
  BY DEF IInv, Switched, Front, Target

(* The requests in forwarded and in replies are numbers.                   *)
LEMMA Numbers ==
  ASSUME IInv
  PROVE  /\ \A i \in 1..Len(forwarded) : forwarded[i] \in Nat /\ forwarded[i] <= Passed
         /\ \A i \in 1..Len(replies) : replies[i] \in Nat /\ replies[i] <= Passed
         /\ Passed \in Int /\ taken \in Nat /\ Len(replies) \in Nat
<1>1. /\ \A i \in 1..Len(forwarded) : forwarded[i] \in Indices
      /\ \A i \in 1..Len(replies) : replies[i] \in Indices
      /\ Len(replies) \in Nat
  BY DEF IInv, TypeOK
<1>2. taken \in Nat
  BY DEF IInv, TypeOK
<1> QED BY <1>1, <1>2, FilterAssumption DEF IInv, Order, Indices, Passed

(* The request in hand.                                                    *)
LEMMA InHand ==
  ASSUME IInv, fpc \in Busy
  PROVE  /\ taken \in 1..Len(requests) /\ taken \in Indices /\ Len(requests) \in Nat
         /\ requests[taken] \in Requests /\ Passed = taken - 1 /\ taken \in Nat
  BY FilterAssumption DEF IInv, TypeOK, Handled, Indices, Passed

(* The initial state satisfies the invariant.                              *)
LEMMA InitIInv == Init => IInv
<1> SUFFICES ASSUME Init PROVE IInv
  OBVIOUS
<1>1. TypeOK
  <2>1. size \in Sizes
    BY DEF Init, Sizes, Error
  <2>2. inputs \in SUBSET (BOOLEAN \X Targets) /\ refractor \in Targets /\ shut \in Targets
    BY DEF Init, Targets
  <2>3. /\ requests \in Seq(Requests) /\ wire \in Seq(BOOLEAN) /\ Len(requests) = 0
        /\ forwarded \in Seq(Indices) /\ replies \in Seq(Indices)
    BY DEF Init
  <2>4. taken \in 0..Len(requests) /\ writing \in 0..MaxIn /\ around \in Nat
    BY <2>3, FilterAssumption DEF Init
  <2>5. held \in 0..MaxReqs /\ sizedBy \in 0..MaxReqs
    BY FilterAssumption DEF Init
  <2> QED BY <2>1, <2>2, <2>3, <2>4, <2>5 DEF Init, TypeOK
<1>2. Switched /\ Handled /\ Resized /\ Sizing
  BY FilterAssumption DEF Init, Switched, Handled, Resized, Sizing, Passed, Busy
<1>3. Order /\ Output /\ Routed /\ InputInterposed /\ InterposerShut
  BY DEF Init, Order, Output, Routed, InputInterposed, InterposerShut, ForwardedInOrder
<1> QED BY <1>1, <1>2, <1>3 DEF IInv

(* ClientRequest keeps the invariant. *)
LEMMA ClientRequestStep ==
  ASSUME IInv, NEW r \in Requests, ClientRequest(r)
  PROVE  IInv'
<1>1. UNCHANGED <<predict, fpc, dpc, activated, interposer, refractor, enabled, shut,
     forwarded, wire, around, inputs>>
  BY DEF ClientRequest, switchVars, interVars, sinkVars, outVars
<1>2. Switched'
  BY <1>1 DEF IInv, Switched, Front
<1>3. Output'
  BY <1>1 DEF IInv, Output
<1>4. Routed'
  BY <1>1 DEF IInv, Routed
<1>5. InputInterposed'
  BY <1>1 DEF IInv, InputInterposed
<1>6. InterposerShut'
  BY <1>1 DEF IInv, InterposerShut
<1>7. TypeOK'
  BY FilterAssumption DEF IInv, ClientRequest, TypeOK, switchVars, interVars, sinkVars,
       outVars
<1>8. Handled'
  BY FilterAssumption DEF IInv, ClientRequest, TypeOK, Handled, Passed, Busy, IsPty,
       IsSized, Switched, switchVars, interVars, sinkVars, outVars
<1>9. Resized'
  BY FilterAssumption DEF IInv, ClientRequest, TypeOK, Resized, Passed, Busy, IsPty,
       IsSized, SizedFor, switchVars, interVars, sinkVars, outVars
<1>10. Sizing'
  BY FilterAssumption DEF IInv, ClientRequest, TypeOK, Sizing, IsPty, IsSized,
       switchVars, interVars, sinkVars, outVars
<1>11. Order'
  BY FilterAssumption DEF IInv, ClientRequest, TypeOK, Order, Passed, Busy,
       ForwardedInOrder, switchVars, interVars, sinkVars, outVars
<1> QED BY <1>2, <1>3, <1>4, <1>5, <1>6, <1>7, <1>8, <1>9, <1>10, <1>11 DEF IInv

(* ClientClose keeps the invariant. *)
LEMMA ClientCloseStep ==
  ASSUME IInv, ClientClose
  PROVE  IInv'
<1>1. UNCHANGED <<predict, requests, taken, fpc, spc, dpc, held, activated, interposer,
     size, sizedBy, refractor, enabled, shut, forwarded, replies, wire, around, inputs>>
  BY DEF ClientClose, switchVars, interVars, sinkVars, outVars
<1>2. Switched'
  BY <1>1 DEF IInv, Switched, Front
<1>3. Handled'
  BY <1>1 DEF IInv, Handled, Passed, Busy, IsPty, IsSized
<1>4. Resized'
  BY <1>1 DEF IInv, Resized, Passed, Busy, IsPty, IsSized, SizedFor
<1>5. Sizing'
  BY <1>1 DEF IInv, Sizing, IsPty, IsSized
<1>6. Order'
  BY <1>1 DEF IInv, Order, Passed, Busy, ForwardedInOrder
<1>7. Output'
  BY <1>1 DEF IInv, Output
<1>8. Routed'
  BY <1>1 DEF IInv, Routed
<1>9. InputInterposed'
  BY <1>1 DEF IInv, InputInterposed
<1>10. InterposerShut'
  BY <1>1 DEF IInv, InterposerShut
<1>11. TypeOK'
  BY FilterAssumption DEF IInv, ClientClose, TypeOK, switchVars, interVars, sinkVars,
       outVars
<1> QED BY <1>2, <1>3, <1>4, <1>5, <1>6, <1>7, <1>8, <1>9, <1>10, <1>11 DEF IInv

(* ServerSend keeps the invariant. *)
LEMMA ServerSendStep ==
  ASSUME IInv, ServerSend
  PROVE  IInv'
<1>1. UNCHANGED <<predict, requests, taken, fpc, spc, held, activated, interposer, size,
     sizedBy, refractor, enabled, shut, forwarded, replies, inputs>>
  BY DEF ServerSend, clientVars, switchVars, interVars, sinkVars
<1>2. Switched'
  BY <1>1 DEF IInv, Switched, Front
<1>3. Handled'
  BY <1>1 DEF IInv, Handled, Passed, Busy, IsPty, IsSized
<1>4. Resized'
  BY <1>1 DEF IInv, Resized, Passed, Busy, IsPty, IsSized, SizedFor
<1>5. Sizing'
  BY <1>1 DEF IInv, Sizing, IsPty, IsSized
<1>6. Order'
  BY <1>1 DEF IInv, Order, Passed, Busy, ForwardedInOrder
<1>7. Routed'
  BY <1>1 DEF IInv, Routed
<1>8. InputInterposed'
  BY <1>1 DEF IInv, InputInterposed
<1>9. InterposerShut'
  BY <1>1 DEF IInv, InterposerShut
<1>10. TypeOK'
  <2>1. wire' \in Seq(BOOLEAN)
    <3>1. PtyIn(forwarded) \in BOOLEAN /\ wire \in Seq(BOOLEAN)
      BY DEF PtyIn, IInv, TypeOK
    <3> HIDE DEF PtyIn
    <3> QED BY <3>1, AppendLast DEF ServerSend
  <2> QED BY <2>1, FilterAssumption DEF IInv, ServerSend, TypeOK, clientVars,
       switchVars, interVars, sinkVars, outVars
<1>11. Output'
  <2>1. /\ wire \in Seq(BOOLEAN) /\ wire' = Append(wire, PtyIn(forwarded))
        /\ PtyIn(forwarded) \in BOOLEAN
    BY DEF IInv, TypeOK, ServerSend, PtyIn
  <2>2. PtyIn(forwarded) => enabled
    BY SentEnabled
  <2>3. \A i \in 1..Len(wire') : wire'[i] => enabled
    <3> HIDE DEF PtyIn
    <3> QED BY <2>1, <2>2, AppendLast DEF IInv, Output
  <2>4. UNCHANGED <<enabled, predict, dpc, around>>
    BY DEF ServerSend, switchVars, outVars
  <2> QED BY <2>3, <2>4 DEF IInv, Output
<1> QED BY <1>2, <1>3, <1>4, <1>5, <1>6, <1>7, <1>8, <1>9, <1>10, <1>11 DEF IInv

(* ServerEof keeps the invariant. *)
LEMMA ServerEofStep ==
  ASSUME IInv, ServerEof
  PROVE  IInv'
<1>1. UNCHANGED <<predict, requests, taken, fpc, spc, dpc, held, activated, interposer,
     size, sizedBy, refractor, enabled, shut, forwarded, replies, wire, around, inputs>>
  BY DEF ServerEof, clientVars, switchVars, interVars, sinkVars
<1>2. Switched'
  BY <1>1 DEF IInv, Switched, Front
<1>3. Handled'
  BY <1>1 DEF IInv, Handled, Passed, Busy, IsPty, IsSized
<1>4. Resized'
  BY <1>1 DEF IInv, Resized, Passed, Busy, IsPty, IsSized, SizedFor
<1>5. Sizing'
  BY <1>1 DEF IInv, Sizing, IsPty, IsSized
<1>6. Order'
  BY <1>1 DEF IInv, Order, Passed, Busy, ForwardedInOrder
<1>7. Output'
  BY <1>1 DEF IInv, Output
<1>8. Routed'
  BY <1>1 DEF IInv, Routed
<1>9. InputInterposed'
  BY <1>1 DEF IInv, InputInterposed
<1>10. InterposerShut'
  BY <1>1 DEF IInv, InterposerShut
<1>11. TypeOK'
  BY FilterAssumption DEF IInv, ServerEof, TypeOK, clientVars, switchVars, interVars,
       sinkVars
<1> QED BY <1>2, <1>3, <1>4, <1>5, <1>6, <1>7, <1>8, <1>9, <1>10, <1>11 DEF IInv

(* FilterTake keeps the invariant. *)
LEMMA FilterTakeStep ==
  ASSUME IInv, FilterTake
  PROVE  IInv'
<1> DEFINE r == requests[taken + 1]
<1>0. /\ fpc = "receive" /\ fpc' = Handling(r) /\ taken' = taken + 1 /\ r \in Requests
      /\ taken \in Nat /\ Len(requests) \in Nat /\ taken + 1 \in 1..Len(requests)
      /\ Passed = taken
      /\ UNCHANGED <<predict, clientVars, dpc, interVars, switchVars, sinkVars, replies,
                      outVars>>
  BY DEF FilterTake, IInv, TypeOK, Passed, Busy
<1>a. UNCHANGED <<requests, activated, interposer, sizedBy, refractor, enabled, spc, held,
                  forwarded, replies, shut, predict>>
  BY <1>0 DEF clientVars, interVars, switchVars, sinkVars
<1>b. /\ fpc' \in {"handle", "resize", "pass"}
      /\ fpc' = "handle" => /\ r.kind \in {"pty", "setting", "unknown"}
                            /\ r.kind = "pty" => r.means # Error /\ ~activated
      /\ fpc' = "resize" => interposer /\ r.means # Error
      /\ fpc' = "pass" /\ r.means # Error => ~interposer /\ (r.kind = "pty" => activated)
  BY <1>0, Handles
<1>c. Passed' = taken /\ taken' - 1 = taken
  BY <1>0, <1>b DEF Passed, Busy
<1> HIDE DEF r
<1>1. UNCHANGED <<predict, dpc, enabled, forwarded, wire, around, inputs>>
  BY DEF FilterTake, clientVars, switchVars, interVars, sinkVars, outVars
<1>2. Output'
  BY <1>1 DEF IInv, Output
<1>3. Routed'
  BY <1>1 DEF IInv, Routed
<1>4. InputInterposed'
  BY <1>1 DEF IInv, InputInterposed
<1>5. TypeOK'
  BY <1>0, <1>b DEF IInv, TypeOK, clientVars, interVars, switchVars, sinkVars, outVars
<1>6. Switched'
  BY <1>0, <1>a, <1>b DEF IInv, Switched, Front
<1>7. Handled'
  <2>1. \A i \in 1..Passed' : IsPty(i)' => enabled'
    BY <1>0, <1>a, <1>c DEF IInv, Handled, IsPty, IsSized
  <2>2. fpc' = "pass" /\ IsPty(taken)' => enabled'
    <3>1. activated => enabled
      BY <1>0 DEF IInv, Switched
    <3> QED BY <1>0, <1>a, <1>b, <3>1 DEF r, IsPty, IsSized
  <2>3. fpc' = "handle" /\ r.kind = "pty" => ~activated' /\ IsPty(taken)'
    BY <1>0, <1>a, <1>b DEF r, IsPty, IsSized
  <2>4. requests'[taken'] = r /\ Len(requests') <= MaxReqs /\ taken' > 0
    BY <1>0, <1>a DEF IInv, Handled, r
  <2> QED BY <2>1, <2>2, <2>3, <2>4, <1>b DEF Handled
<1>8. Resized'
  <2>1. sizedBy' <= taken'
    BY <1>0, <1>a DEF IInv, TypeOK, Resized
  <2>2. predict' => \A i \in 1..Passed' : SizedFor(i)'
    BY <1>0, <1>a, <1>c DEF IInv, Resized, SizedFor, IsPty, IsSized
  <2>3. ASSUME predict, fpc' = "pass", r.means # Error, NEW p \in 1..taken', IsPty(p)
        PROVE  FALSE
    <3>1. ~activated
      BY <1>0, <1>b, <2>3 DEF IInv, Switched
    <3>2. p # taken + 1
      BY <1>b, <2>3, <3>1 DEF IsPty, r
    <3>3. p \in 1..Passed
      BY <1>0, <2>3, <3>2
    <3>4. enabled
      BY <2>3, <3>3 DEF IInv, Handled
    <3> QED BY <3>1, <3>4 DEF IInv, Switched
  <2>4. predict' /\ fpc' = "pass" => SizedFor(taken)'
    BY <1>0, <1>a, <2>3 DEF SizedFor, IsPty, IsSized, r
  <2> QED BY <2>1, <2>2, <2>4 DEF Resized
<1>9. Sizing'
  <2>1. activated' => \E p \in 1..taken' : IsPty(p)'
    <3>1. activated => \E p \in 1..taken : IsPty(p)
      BY DEF IInv, Sizing
    <3>2. \A p \in 1..taken : p \in 1..taken' /\ (IsPty(p) => IsPty(p)')
      BY <1>0, <1>a DEF IsPty, IsSized
    <3> QED BY <1>a, <3>1, <3>2
  <2>2. fpc' \in {"refract", "enable", "resize"} => IsSized(taken)'
    BY <1>0, <1>a, <1>b DEF IsSized, r
  <2>3. UNCHANGED <<size, sizedBy, requests>>
    BY <1>0 DEF interVars, clientVars
  <2> QED BY <2>1, <2>2, <2>3 DEF IInv, Sizing, IsPty, IsSized
<1>10. Order'
  BY <1>0, <1>a, <1>c DEF IInv, Order, ForwardedInOrder
<1>11. InterposerShut'
  BY <1>b DEF InterposerShut
<1> QED BY <1>2, <1>3, <1>4, <1>5, <1>6, <1>7, <1>8, <1>9, <1>10, <1>11 DEF IInv

(* Activate keeps the invariant. *)
LEMMA ActivateStep ==
  ASSUME IInv, Activate
  PROVE  IInv'
<1>1. UNCHANGED <<predict, dpc, enabled, forwarded, wire, around, inputs>>
  BY DEF Activate, clientVars, switchVars, sinkVars, outVars
<1>2. Output'
  BY <1>1 DEF IInv, Output
<1>3. Routed'
  BY <1>1 DEF IInv, Routed
<1>4. InputInterposed'
  BY <1>1 DEF IInv, InputInterposed
<1>5. TypeOK'
  BY FilterAssumption DEF IInv, Activate, TypeOK, clientVars, switchVars, sinkVars,
       outVars
<1>6. Switched'
  BY DEF IInv, Activate, Switched, Handled, Front, Current, switchVars
<1>7. Handled'
  BY FilterAssumption DEF IInv, Activate, TypeOK, Handled, Passed, Busy, IsPty, IsSized,
       Switched, clientVars, switchVars, sinkVars, outVars
<1>8. Resized'
  BY FilterAssumption DEF IInv, Activate, TypeOK, Resized, Passed, Busy, IsPty, IsSized,
       SizedFor, clientVars, switchVars, sinkVars, outVars
<1>9. Sizing'
  <2>1. /\ fpc = "handle" /\ requests[taken].kind = "pty" /\ fpc' = "refract"
        /\ UNCHANGED <<requests, taken, size, sizedBy>>
    BY DEF Activate, Current, clientVars
  <2>2. IsPty(taken) /\ IsSized(taken) /\ taken \in 1..taken
    <3>1. taken \in Nat /\ taken > 0
      BY <2>1, InHand DEF Busy
    <3> QED BY <2>1, <3>1 DEF IInv, Handled, IsPty
  <2> QED BY <2>1, <2>2 DEF IInv, Sizing, IsPty, IsSized
<1>10. Order'
  BY FilterAssumption DEF IInv, Activate, TypeOK, Order, Passed, Busy, ForwardedInOrder,
       clientVars, switchVars, sinkVars, outVars
<1>11. InterposerShut'
  BY FilterAssumption DEF IInv, Activate, TypeOK, InterposerShut, clientVars,
       switchVars, sinkVars, outVars
<1> QED BY <1>2, <1>3, <1>4, <1>5, <1>6, <1>7, <1>8, <1>9, <1>10, <1>11 DEF IInv

(* Refract keeps the invariant. *)
LEMMA RefractStep ==
  ASSUME IInv, Refract
  PROVE  IInv'
<1>1. UNCHANGED <<predict, dpc, enabled, forwarded, wire, around, inputs>>
  BY DEF Refract, clientVars, interVars, sinkVars, outVars
<1>2. Output'
  BY <1>1 DEF IInv, Output
<1>3. Routed'
  BY <1>1 DEF IInv, Routed
<1>4. InputInterposed'
  BY <1>1 DEF IInv, InputInterposed
<1>5. TypeOK'
  BY DEF IInv, Refract, TypeOK, Targets, clientVars, interVars, sinkVars, outVars
<1>6. Switched'
  BY FilterAssumption DEF IInv, Refract, TypeOK, Switched, Front, clientVars, interVars,
       sinkVars, outVars
<1>7. Handled'
  BY FilterAssumption DEF IInv, Refract, TypeOK, Handled, Passed, Busy, IsPty, IsSized,
       Switched, clientVars, interVars, sinkVars, outVars
<1>8. Resized'
  BY FilterAssumption DEF IInv, Refract, TypeOK, Resized, Passed, Busy, IsPty, IsSized,
       SizedFor, clientVars, interVars, sinkVars, outVars
<1>9. Sizing'
  BY FilterAssumption DEF IInv, Refract, TypeOK, Sizing, IsPty, IsSized, clientVars,
       interVars, sinkVars, outVars
<1>10. Order'
  BY FilterAssumption DEF IInv, Refract, TypeOK, Order, Passed, Busy, ForwardedInOrder,
       clientVars, interVars, sinkVars, outVars
<1>11. InterposerShut'
  BY FilterAssumption DEF IInv, Refract, TypeOK, InterposerShut, clientVars, interVars,
       sinkVars, outVars
<1> QED BY <1>2, <1>3, <1>4, <1>5, <1>6, <1>7, <1>8, <1>9, <1>10, <1>11 DEF IInv

(* Enable keeps the invariant. *)
LEMMA EnableStep ==
  ASSUME IInv, Enable
  PROVE  IInv'
<1>1. UNCHANGED <<predict, inputs>>
  BY DEF Enable, clientVars, interVars, sinkVars, outVars
<1>2. Routed'
  BY <1>1 DEF IInv, Routed
<1>3. InputInterposed'
  BY <1>1 DEF IInv, InputInterposed
<1>4. TypeOK'
  BY FilterAssumption DEF IInv, Enable, TypeOK, clientVars, interVars, sinkVars, outVars
<1>5. Switched'
  BY FilterAssumption DEF IInv, Enable, TypeOK, Switched, Front, clientVars, interVars,
       sinkVars, outVars
<1>6. Handled'
  BY FilterAssumption DEF IInv, Enable, TypeOK, Handled, Passed, Busy, IsPty, IsSized,
       Switched, clientVars, interVars, sinkVars, outVars
<1>7. Resized'
  <2>1. /\ UNCHANGED <<predict, requests, taken, sizedBy, interposer>> /\ fpc = "enable"
        /\ fpc' = IF interposer THEN "resize" ELSE "pass"
    BY DEF Enable, clientVars, interVars
  <2>2. Passed' = Passed /\ (predict => fpc' # "pass")
    BY <2>1 DEF IInv, Switched, Passed, Busy
  <2> QED BY <2>1, <2>2 DEF IInv, Resized, SizedFor, IsPty, IsSized
<1>8. Sizing'
  BY FilterAssumption DEF IInv, Enable, TypeOK, Sizing, IsPty, IsSized, clientVars,
       interVars, sinkVars, outVars
<1>9. Order'
  BY FilterAssumption DEF IInv, Enable, TypeOK, Order, Passed, Busy, ForwardedInOrder,
       clientVars, interVars, sinkVars, outVars
<1>10. Output'
  BY FilterAssumption DEF IInv, Enable, TypeOK, Output, clientVars, interVars, sinkVars,
       outVars
<1>11. InterposerShut'
  BY FilterAssumption DEF IInv, Enable, TypeOK, InterposerShut, clientVars, interVars,
       sinkVars, outVars
<1> QED BY <1>2, <1>3, <1>4, <1>5, <1>6, <1>7, <1>8, <1>9, <1>10, <1>11 DEF IInv

(* FilterResize keeps the invariant. *)
LEMMA FilterResizeStep ==
  ASSUME IInv, FilterResize
  PROVE  IInv'
<1>1. UNCHANGED <<predict, dpc, enabled, forwarded, wire, around, inputs>>
  BY DEF FilterResize, clientVars, switchVars, sinkVars, outVars
<1>2. Output'
  BY <1>1 DEF IInv, Output
<1>3. Routed'
  BY <1>1 DEF IInv, Routed
<1>4. InputInterposed'
  BY <1>1 DEF IInv, InputInterposed
<1>5. TypeOK'
  <2>1. size' \in Sizes /\ sizedBy' \in 0..MaxReqs
    <3>1. fpc \in Busy
      BY DEF FilterResize, Busy
    <3> QED BY <3>1, InHand, FilterAssumption DEF FilterResize, Sizes, Current, Indices
  <2> QED BY <2>1, FilterAssumption DEF IInv, FilterResize, TypeOK, clientVars,
       switchVars, interVars, sinkVars, outVars
<1>6. Switched'
  BY FilterAssumption DEF IInv, FilterResize, TypeOK, Switched, Front, clientVars,
       switchVars, sinkVars, outVars
<1>7. Handled'
  BY FilterAssumption DEF IInv, FilterResize, TypeOK, Handled, Passed, Busy, IsPty,
       IsSized, Switched, clientVars, switchVars, sinkVars, outVars
<1>8. Resized'
  BY FilterAssumption DEF IInv, FilterResize, TypeOK, Resized, Passed, Busy, IsPty,
       IsSized, SizedFor, clientVars, switchVars, sinkVars, outVars
<1>9. Sizing'
  <2>1. /\ fpc = "resize" /\ fpc' = "pass" /\ size' = Asked(requests[taken])
        /\ sizedBy' = taken /\ UNCHANGED <<requests, taken, activated>>
    BY DEF FilterResize, Current, clientVars
  <2>2. IsSized(taken) /\ \E p \in 1..taken : IsPty(p)
    BY <2>1 DEF IInv, Switched, Sizing
  <2>3. Asked(requests[taken]) = requests[taken].means
    BY <2>1, InHand, Exact DEF Busy
  <2> QED BY <2>1, <2>2, <2>3 DEF IInv, Sizing, IsPty, IsSized
<1>10. Order'
  BY FilterAssumption DEF IInv, FilterResize, TypeOK, Order, Passed, Busy,
       ForwardedInOrder, clientVars, switchVars, sinkVars, outVars
<1>11. InterposerShut'
  BY FilterAssumption DEF IInv, FilterResize, TypeOK, InterposerShut, clientVars,
       switchVars, sinkVars, outVars
<1> QED BY <1>2, <1>3, <1>4, <1>5, <1>6, <1>7, <1>8, <1>9, <1>10, <1>11 DEF IInv

(* FilterSet keeps the invariant. *)
LEMMA FilterSetStep ==
  ASSUME IInv, FilterSet
  PROVE  IInv'
<1>0. /\ fpc = "handle" /\ fpc' = "receive" /\ requests[taken].kind # "pty"
      /\ replies' \in {replies, Append(replies, taken)}
      /\ UNCHANGED <<predict, clientVars, taken, dpc, interVars, switchVars, sinkVars,
                      outVars>>
  BY DEF FilterSet, Current
<1>a. UNCHANGED <<requests, activated, interposer, sizedBy, refractor, enabled, spc, held,
                  forwarded, shut, predict, taken>>
  BY <1>0 DEF clientVars, interVars, switchVars, sinkVars
<1>b. /\ taken \in 1..Len(requests) /\ taken \in Indices /\ taken \in Nat
      /\ requests[taken] \in Requests /\ Passed = taken - 1
      /\ Passed' = taken
  BY <1>0, InHand DEF Busy, Passed
<1>c. requests[taken].means = Error
  BY <1>0, <1>b, Handles DEF IInv, Handled
<1>1. UNCHANGED <<predict, dpc, enabled, forwarded, wire, around, inputs>>
  BY DEF FilterSet, clientVars, switchVars, interVars, sinkVars, outVars
<1>2. Output'
  BY <1>1 DEF IInv, Output
<1>3. Routed'
  BY <1>1 DEF IInv, Routed
<1>4. InputInterposed'
  BY <1>1 DEF IInv, InputInterposed
<1>5. TypeOK'
  <2>1. replies' \in Seq(Indices)
    <3>1. replies \in Seq(Indices)
      BY DEF IInv, TypeOK
    <3>2. Append(replies, taken) \in Seq(Indices)
      BY <3>1, <1>b, AppendLast
    <3> QED BY <1>0, <3>1, <3>2
  <2> QED BY <1>0, <2>1 DEF IInv, TypeOK, clientVars, interVars, switchVars, sinkVars,
                            outVars
<1>6. Switched'
  BY <1>0, FilterAssumption DEF IInv, FilterSet, TypeOK, Switched, Front, clientVars,
       switchVars, interVars, sinkVars, outVars
<1>7. Handled'
  <2>1. \A i \in 1..Passed' : IsPty(i)' => enabled'
    BY <1>0, <1>a, <1>b, <1>c DEF IInv, Handled, IsPty, IsSized
  <2> QED BY <1>0, <1>a, <2>1 DEF IInv, Handled, Busy
<1>8. Resized'
  BY <1>0, <1>a, <1>b, <1>c DEF IInv, Resized, SizedFor, IsPty, IsSized
<1>9. Sizing'
  BY <1>0, FilterAssumption DEF IInv, FilterSet, TypeOK, Sizing, IsPty, IsSized,
       clientVars, switchVars, interVars, sinkVars, outVars
<1>10. Order'
  <2>1. \A i \in 1..Len(replies') : replies'[i] <= taken
    <3>1. replies \in Seq(Indices)
      BY DEF IInv, TypeOK
    <3>2. \A i \in 1..Len(replies) : replies[i] <= taken
      BY <1>b, Numbers
    <3> QED BY <1>0, <1>b, <3>1, <3>2, AppendLast
  <2>2. \A i \in 1..Len(forwarded) : forwarded[i] <= taken
    BY <1>b, Numbers
  <2>3. spc' \in {"send", "await"} => held' \in 1..Passed'
    BY <1>a, <1>b DEF IInv, TypeOK, Order
  <2> QED BY <1>a, <1>b, <2>1, <2>2, <2>3 DEF IInv, Order, ForwardedInOrder
<1>11. InterposerShut'
  BY <1>0, FilterAssumption DEF IInv, FilterSet, TypeOK, InterposerShut, clientVars,
       switchVars, interVars, sinkVars, outVars
<1> QED BY <1>2, <1>3, <1>4, <1>5, <1>6, <1>7, <1>8, <1>9, <1>10, <1>11 DEF IInv

(* FilterPass keeps the invariant. *)
LEMMA FilterPassStep ==
  ASSUME IInv, FilterPass
  PROVE  IInv'
<1>1. UNCHANGED <<predict, dpc, enabled, forwarded, wire, around, inputs>>
  BY DEF FilterPass, clientVars, switchVars, interVars, outVars
<1>2. Output'
  BY <1>1 DEF IInv, Output
<1>3. Routed'
  BY <1>1 DEF IInv, Routed
<1>4. InputInterposed'
  BY <1>1 DEF IInv, InputInterposed
<1>5. TypeOK'
  <2>1. held' \in 0..MaxReqs
    <3>1. fpc \in Busy
      BY DEF FilterPass, Busy
    <3> QED BY <3>1, InHand, FilterAssumption DEF FilterPass, Indices
  <2> QED BY <2>1, FilterAssumption DEF IInv, FilterPass, TypeOK, clientVars,
       switchVars, interVars, sinkVars, outVars
<1>6. Switched'
  BY FilterAssumption DEF IInv, FilterPass, TypeOK, Switched, Front, clientVars,
       switchVars, interVars, outVars
<1>7. Handled'
  BY FilterAssumption DEF IInv, FilterPass, TypeOK, Handled, Passed, Busy, IsPty,
       IsSized, Switched, clientVars, switchVars, interVars, outVars
<1>8. Resized'
  BY FilterAssumption DEF IInv, FilterPass, TypeOK, Resized, Passed, Busy, IsPty,
       IsSized, SizedFor, clientVars, switchVars, interVars, outVars
<1>9. Sizing'
  BY FilterAssumption DEF IInv, FilterPass, TypeOK, Sizing, IsPty, IsSized, clientVars,
       switchVars, interVars, outVars
<1>10. Order'
  <2>1. /\ fpc = "pass" /\ fpc' = "receive" /\ held' = taken /\ spc' = "send"
        /\ UNCHANGED <<requests, taken, forwarded, replies>>
    BY DEF FilterPass, clientVars
  <2>2. /\ taken \in 1..Len(requests) /\ taken \in Nat /\ Passed = taken - 1
        /\ Passed' = taken
    BY <2>1, InHand DEF Busy, Passed
  <2>3. /\ \A i \in 1..Len(forwarded) : forwarded[i] < taken
        /\ \A i \in 1..Len(replies) : replies[i] <= taken
    BY <2>2, Numbers
  <2>4. \A i \in 1..Len(forwarded) : forwarded[i] <= taken
    BY <2>2, Numbers
  <2> QED BY <2>1, <2>2, <2>3, <2>4 DEF IInv, Order, ForwardedInOrder
<1>11. InterposerShut'
  BY FilterAssumption DEF IInv, FilterPass, TypeOK, InterposerShut, clientVars,
       switchVars, interVars, outVars
<1> QED BY <1>2, <1>3, <1>4, <1>5, <1>6, <1>7, <1>8, <1>9, <1>10, <1>11 DEF IInv

(* FilterEnd keeps the invariant. *)
LEMMA FilterEndStep ==
  ASSUME IInv, FilterEnd
  PROVE  IInv'
<1>1. UNCHANGED <<predict, dpc, enabled, forwarded, wire, around, inputs>>
  BY DEF FilterEnd, clientVars, switchVars, interVars, sinkVars, outVars
<1>2. Output'
  BY <1>1 DEF IInv, Output
<1>3. Routed'
  BY <1>1 DEF IInv, Routed
<1>4. InputInterposed'
  BY <1>1 DEF IInv, InputInterposed
<1>5. TypeOK'
  BY FilterAssumption DEF IInv, FilterEnd, TypeOK, clientVars, switchVars, interVars,
       sinkVars, outVars
<1>6. Switched'
  BY FilterAssumption DEF IInv, FilterEnd, TypeOK, Switched, Front, clientVars,
       switchVars, interVars, sinkVars, outVars
<1>7. Handled'
  BY FilterAssumption DEF IInv, FilterEnd, TypeOK, Handled, Passed, Busy, IsPty,
       IsSized, Switched, clientVars, switchVars, interVars, sinkVars, outVars
<1>8. Resized'
  BY FilterAssumption DEF IInv, FilterEnd, TypeOK, Resized, Passed, Busy, IsPty,
       IsSized, SizedFor, clientVars, switchVars, interVars, sinkVars, outVars
<1>9. Sizing'
  BY FilterAssumption DEF IInv, FilterEnd, TypeOK, Sizing, IsPty, IsSized, clientVars,
       switchVars, interVars, sinkVars, outVars
<1>10. Order'
  BY FilterAssumption DEF IInv, FilterEnd, TypeOK, Order, Passed, Busy,
       ForwardedInOrder, clientVars, switchVars, interVars, sinkVars, outVars
<1>11. InterposerShut'
  BY FilterAssumption DEF IInv, FilterEnd, TypeOK, InterposerShut, clientVars,
       switchVars, interVars, sinkVars, outVars
<1> QED BY <1>2, <1>3, <1>4, <1>5, <1>6, <1>7, <1>8, <1>9, <1>10, <1>11 DEF IInv

(* CloseSwitch keeps the invariant. *)
LEMMA CloseSwitchStep ==
  ASSUME IInv, CloseSwitch
  PROVE  IInv'
<1>1. UNCHANGED <<predict, dpc, enabled, forwarded, wire, around, inputs>>
  BY DEF CloseSwitch, clientVars, interVars, sinkVars, outVars
<1>2. Output'
  BY <1>1 DEF IInv, Output
<1>3. Routed'
  BY <1>1 DEF IInv, Routed
<1>4. InputInterposed'
  BY <1>1 DEF IInv, InputInterposed
<1>5. TypeOK'
  <2>1. shut' \in Targets
    BY Leads DEF CloseSwitch, Targets
  <2> QED BY <2>1, FilterAssumption DEF IInv, CloseSwitch, TypeOK, clientVars,
       switchVars, interVars, sinkVars, outVars
<1>6. Switched'
  BY FilterAssumption DEF IInv, CloseSwitch, TypeOK, Switched, Front, clientVars,
       interVars, sinkVars, outVars
<1>7. Handled'
  BY FilterAssumption DEF IInv, CloseSwitch, TypeOK, Handled, Passed, Busy, IsPty,
       IsSized, Switched, clientVars, interVars, sinkVars, outVars
<1>8. Resized'
  BY FilterAssumption DEF IInv, CloseSwitch, TypeOK, Resized, Passed, Busy, IsPty,
       IsSized, SizedFor, clientVars, interVars, sinkVars, outVars
<1>9. Sizing'
  BY FilterAssumption DEF IInv, CloseSwitch, TypeOK, Sizing, IsPty, IsSized, clientVars,
       interVars, sinkVars, outVars
<1>10. Order'
  BY FilterAssumption DEF IInv, CloseSwitch, TypeOK, Order, Passed, Busy,
       ForwardedInOrder, clientVars, interVars, sinkVars, outVars
<1>11. InterposerShut'
  <2>1. fpc = "ended" /\ shut' = Target /\ UNCHANGED <<refractor, activated>>
    BY DEF CloseSwitch, interVars
  <2>2. enabled <=> activated
    BY <2>1 DEF IInv, Switched
  <2> QED BY <2>1, <2>2 DEF InterposerShut, Target
<1> QED BY <1>2, <1>3, <1>4, <1>5, <1>6, <1>7, <1>8, <1>9, <1>10, <1>11 DEF IInv

(* SinkForward keeps the invariant. *)
LEMMA SinkForwardStep ==
  ASSUME IInv, SinkForward
  PROVE  IInv'
<1>1. UNCHANGED <<predict, requests, taken, fpc, activated, interposer, size, sizedBy,
     refractor, enabled, shut, inputs>>
  BY DEF SinkForward, clientVars, switchVars, interVars, outVars
<1>2. Switched'
  BY <1>1 DEF IInv, Switched, Front
<1>3. Handled'
  BY <1>1 DEF IInv, Handled, Passed, Busy, IsPty, IsSized
<1>4. Resized'
  BY <1>1 DEF IInv, Resized, Passed, Busy, IsPty, IsSized, SizedFor
<1>5. Sizing'
  BY <1>1 DEF IInv, Sizing, IsPty, IsSized
<1>6. Routed'
  BY <1>1 DEF IInv, Routed
<1>7. InputInterposed'
  BY <1>1 DEF IInv, InputInterposed
<1>8. InterposerShut'
  BY <1>1 DEF IInv, InterposerShut
<1>9. TypeOK'
  <2>1. forwarded' \in Seq(Indices) /\ held' \in 0..MaxReqs
    <3>1. held \in Indices /\ forwarded \in Seq(Indices)
      BY FilterAssumption DEF IInv, TypeOK, Order, Indices, SinkForward
    <3> QED BY <3>1, AppendLast, FilterAssumption DEF SinkForward, Sent, Indices
  <2> QED BY <2>1, FilterAssumption DEF IInv, SinkForward, TypeOK, clientVars,
       switchVars, interVars, sinkVars, outVars
<1>10. Order'
  <2>1. /\ spc = "send" /\ forwarded' = Append(forwarded, held)
        /\ spc' \in {"await", "receive"}
        /\ spc' = "await" => held' = held
        /\ UNCHANGED <<requests, taken, fpc, replies>>
    BY DEF SinkForward, Sent, clientVars
  <2>2. held \in 1..Passed /\ Passed' = Passed /\ forwarded \in Seq(Indices)
    BY <2>1 DEF IInv, TypeOK, Order, Passed
  <2>3. held \in Indices /\ Passed \in Nat
    BY <2>2, FilterAssumption DEF IInv, TypeOK, Passed, Busy, Handled, Indices
  <2>4. /\ Len(forwarded') = Len(forwarded) + 1 /\ Len(forwarded) \in Nat
        /\ \A i \in 1..Len(forwarded) : forwarded'[i] = forwarded[i]
        /\ forwarded'[Len(forwarded) + 1] = held
    BY <2>1, <2>2, <2>3, AppendLast
  <2>5. \A i \in 1..Len(forwarded) : forwarded[i] < held /\ forwarded[i] <= Passed
    BY <2>1 DEF IInv, Order
  <2>6. ForwardedInOrder'
    BY <2>4, <2>5 DEF IInv, Order, ForwardedInOrder
  <2>7. \A i \in 1..Len(forwarded') : forwarded'[i] <= Passed'
    BY <2>2, <2>4, <2>5
  <2> QED BY <2>1, <2>2, <2>6, <2>7 DEF IInv, Order
<1>11. Output'
  BY FilterAssumption DEF IInv, SinkForward, TypeOK, Output, clientVars, switchVars,
       interVars, outVars
<1> QED BY <1>2, <1>3, <1>4, <1>5, <1>6, <1>7, <1>8, <1>9, <1>10, <1>11 DEF IInv

(* SinkFails keeps the invariant. *)
LEMMA SinkFailsStep ==
  ASSUME IInv, SinkFails
  PROVE  IInv'
<1>1. UNCHANGED <<predict, requests, taken, fpc, dpc, activated, interposer, size,
     sizedBy, refractor, enabled, shut, forwarded, wire, around, inputs>>
  BY DEF SinkFails, clientVars, switchVars, interVars, outVars
<1>2. Switched'
  BY <1>1 DEF IInv, Switched, Front
<1>3. Handled'
  BY <1>1 DEF IInv, Handled, Passed, Busy, IsPty, IsSized
<1>4. Resized'
  BY <1>1 DEF IInv, Resized, Passed, Busy, IsPty, IsSized, SizedFor
<1>5. Sizing'
  BY <1>1 DEF IInv, Sizing, IsPty, IsSized
<1>6. Output'
  BY <1>1 DEF IInv, Output
<1>7. Routed'
  BY <1>1 DEF IInv, Routed
<1>8. InputInterposed'
  BY <1>1 DEF IInv, InputInterposed
<1>9. InterposerShut'
  BY <1>1 DEF IInv, InterposerShut
<1>10. TypeOK'
  <2>1. replies' \in Seq(Indices) /\ held' \in 0..MaxReqs
    <3>1. held \in Indices /\ replies \in Seq(Indices)
      BY FilterAssumption DEF IInv, TypeOK, Order, Indices, SinkFails
    <3>2. Append(replies, held) \in Seq(Indices)
      BY <3>1, AppendLast
    <3>3. replies' \in {replies, Append(replies, held)} /\ held' = 0
      BY DEF SinkFails
    <3> QED BY <3>1, <3>2, <3>3, FilterAssumption
  <2> QED BY <2>1, FilterAssumption DEF IInv, SinkFails, TypeOK, clientVars, switchVars,
       interVars, sinkVars, outVars
<1>11. Order'
  <2>1. /\ replies' \in {replies, Append(replies, held)} /\ spc' = "receive"
        /\ spc \in {"send", "await"}
        /\ UNCHANGED <<requests, taken, fpc, forwarded>>
    BY DEF SinkFails, clientVars
  <2>2. held \in 1..Passed /\ Passed' = Passed /\ replies \in Seq(Indices)
    BY <2>1 DEF IInv, TypeOK, Order, Passed
  <2>3. held \in Indices
    BY <2>1, <2>2, FilterAssumption DEF IInv, TypeOK, Order, Indices
  <2>4. \A i \in 1..Len(replies') : replies'[i] <= Passed
    <3>1. \A i \in 1..Len(replies) : replies[i] <= Passed
      BY DEF IInv, Order
    <3> QED BY <2>1, <2>2, <2>3, <3>1, AppendLast
  <2> QED BY <2>1, <2>2, <2>4 DEF IInv, Order, ForwardedInOrder
<1> QED BY <1>2, <1>3, <1>4, <1>5, <1>6, <1>7, <1>8, <1>9, <1>10, <1>11 DEF IInv

(* SinkAnswer keeps the invariant. *)
LEMMA SinkAnswerStep ==
  ASSUME IInv, SinkAnswer
  PROVE  IInv'
<1>1. UNCHANGED <<predict, requests, taken, fpc, dpc, activated, interposer, size,
     sizedBy, refractor, enabled, shut, forwarded, wire, around, inputs>>
  BY DEF SinkAnswer, clientVars, switchVars, interVars, outVars
<1>2. Switched'
  BY <1>1 DEF IInv, Switched, Front
<1>3. Handled'
  BY <1>1 DEF IInv, Handled, Passed, Busy, IsPty, IsSized
<1>4. Resized'
  BY <1>1 DEF IInv, Resized, Passed, Busy, IsPty, IsSized, SizedFor
<1>5. Sizing'
  BY <1>1 DEF IInv, Sizing, IsPty, IsSized
<1>6. Output'
  BY <1>1 DEF IInv, Output
<1>7. Routed'
  BY <1>1 DEF IInv, Routed
<1>8. InputInterposed'
  BY <1>1 DEF IInv, InputInterposed
<1>9. InterposerShut'
  BY <1>1 DEF IInv, InterposerShut
<1>10. TypeOK'
  <2>1. replies' \in Seq(Indices) /\ held' \in 0..MaxReqs
    <3>1. held \in Indices /\ replies \in Seq(Indices)
      BY FilterAssumption DEF IInv, TypeOK, Order, Indices, SinkAnswer
    <3>2. Append(replies, held) \in Seq(Indices)
      BY <3>1, AppendLast
    <3>3. replies' \in {replies, Append(replies, held)} /\ held' = 0
      BY DEF SinkAnswer
    <3> QED BY <3>1, <3>2, <3>3, FilterAssumption
  <2> QED BY <2>1, FilterAssumption DEF IInv, SinkAnswer, TypeOK, clientVars,
       switchVars, interVars, sinkVars, outVars
<1>11. Order'
  <2>1. /\ replies' \in {replies, Append(replies, held)} /\ spc' = "receive"
        /\ spc \in {"send", "await"}
        /\ UNCHANGED <<requests, taken, fpc, forwarded>>
    BY DEF SinkAnswer, clientVars
  <2>2. held \in 1..Passed /\ Passed' = Passed /\ replies \in Seq(Indices)
    BY <2>1 DEF IInv, TypeOK, Order, Passed
  <2>3. held \in Indices
    BY <2>1, <2>2, FilterAssumption DEF IInv, TypeOK, Order, Indices
  <2>4. \A i \in 1..Len(replies') : replies'[i] <= Passed
    <3>1. \A i \in 1..Len(replies) : replies[i] <= Passed
      BY DEF IInv, Order
    <3> QED BY <2>1, <2>2, <2>3, <3>1, AppendLast
  <2> QED BY <2>1, <2>2, <2>4 DEF IInv, Order, ForwardedInOrder
<1> QED BY <1>2, <1>3, <1>4, <1>5, <1>6, <1>7, <1>8, <1>9, <1>10, <1>11 DEF IInv

(* SinkDone keeps the invariant. *)
LEMMA SinkDoneStep ==
  ASSUME IInv, SinkDone
  PROVE  IInv'
<1>1. UNCHANGED <<predict, requests, taken, fpc, dpc, activated, interposer, size,
     sizedBy, refractor, enabled, shut, forwarded, wire, around, inputs>>
  BY DEF SinkDone, clientVars, switchVars, interVars, outVars
<1>2. Switched'
  BY <1>1 DEF IInv, Switched, Front
<1>3. Handled'
  BY <1>1 DEF IInv, Handled, Passed, Busy, IsPty, IsSized
<1>4. Resized'
  BY <1>1 DEF IInv, Resized, Passed, Busy, IsPty, IsSized, SizedFor
<1>5. Sizing'
  BY <1>1 DEF IInv, Sizing, IsPty, IsSized
<1>6. Output'
  BY <1>1 DEF IInv, Output
<1>7. Routed'
  BY <1>1 DEF IInv, Routed
<1>8. InputInterposed'
  BY <1>1 DEF IInv, InputInterposed
<1>9. InterposerShut'
  BY <1>1 DEF IInv, InterposerShut
<1>10. TypeOK'
  BY FilterAssumption DEF IInv, SinkDone, TypeOK, clientVars, switchVars, interVars,
       outVars
<1>11. Order'
  BY FilterAssumption DEF IInv, SinkDone, TypeOK, Order, Passed, Busy, ForwardedInOrder,
       clientVars, switchVars, interVars, outVars
<1> QED BY <1>2, <1>3, <1>4, <1>5, <1>6, <1>7, <1>8, <1>9, <1>10, <1>11 DEF IInv

(* ReadCall keeps the invariant. *)
LEMMA ReadCallStep ==
  ASSUME IInv, ReadCall
  PROVE  IInv'
<1>1. UNCHANGED <<predict, requests, taken, fpc, spc, held, activated, interposer, size,
     sizedBy, refractor, enabled, shut, forwarded, replies, inputs>>
  BY DEF ReadCall, clientVars, switchVars, interVars, sinkVars, outVars
<1>2. Switched'
  BY <1>1 DEF IInv, Switched, Front
<1>3. Handled'
  BY <1>1 DEF IInv, Handled, Passed, Busy, IsPty, IsSized
<1>4. Resized'
  BY <1>1 DEF IInv, Resized, Passed, Busy, IsPty, IsSized, SizedFor
<1>5. Sizing'
  BY <1>1 DEF IInv, Sizing, IsPty, IsSized
<1>6. Order'
  BY <1>1 DEF IInv, Order, Passed, Busy, ForwardedInOrder
<1>7. Routed'
  BY <1>1 DEF IInv, Routed
<1>8. InputInterposed'
  BY <1>1 DEF IInv, InputInterposed
<1>9. InterposerShut'
  BY <1>1 DEF IInv, InterposerShut
<1>10. TypeOK'
  <2>1. dpc' \in Targets
    BY Leads DEF ReadCall, Targets
  <2> QED BY <2>1, FilterAssumption DEF IInv, ReadCall, TypeOK, clientVars, switchVars,
       interVars, sinkVars, outVars
<1>11. Output'
  <2>1. dpc' = Target /\ UNCHANGED <<wire, enabled, around, predict>>
    BY DEF ReadCall, outVars, switchVars
  <2>2. /\ predict => Target # "delayer"
        /\ enabled /\ predict => Target # "channel"
        /\ Target # "nil"
    BY Leads
  <2>3. around > 0 => predict /\ enabled
    BY DEF IInv, Output
  <2> QED BY <2>1, <2>2, <2>3 DEF IInv, Output
<1> QED BY <1>2, <1>3, <1>4, <1>5, <1>6, <1>7, <1>8, <1>9, <1>10, <1>11 DEF IInv

(* ReadChannel keeps the invariant. *)
LEMMA ReadChannelStep ==
  ASSUME IInv, ReadChannel
  PROVE  IInv'
<1>1. UNCHANGED <<predict, requests, taken, fpc, spc, held, activated, interposer, size,
     sizedBy, refractor, enabled, shut, forwarded, replies, inputs>>
  BY DEF ReadChannel, clientVars, switchVars, interVars, sinkVars
<1>2. Switched'
  BY <1>1 DEF IInv, Switched, Front
<1>3. Handled'
  BY <1>1 DEF IInv, Handled, Passed, Busy, IsPty, IsSized
<1>4. Resized'
  BY <1>1 DEF IInv, Resized, Passed, Busy, IsPty, IsSized, SizedFor
<1>5. Sizing'
  BY <1>1 DEF IInv, Sizing, IsPty, IsSized
<1>6. Order'
  BY <1>1 DEF IInv, Order, Passed, Busy, ForwardedInOrder
<1>7. Routed'
  BY <1>1 DEF IInv, Routed
<1>8. InputInterposed'
  BY <1>1 DEF IInv, InputInterposed
<1>9. InterposerShut'
  BY <1>1 DEF IInv, InterposerShut
<1>10. TypeOK'
  <2>1. wire' \in Seq(BOOLEAN) /\ around' \in Nat
    <3>1. wire \in Seq(BOOLEAN) /\ wire # <<>> /\ wire' = Tail(wire)
      BY DEF ReadChannel, IInv, TypeOK
    <3>2. around' \in {around, around + 1} /\ around \in Nat
      BY DEF ReadChannel, IInv, TypeOK
    <3> QED BY <3>1, <3>2, HeadTail
  <2>2. /\ dpc' = "idle"
        /\ UNCHANGED <<predict, clientVars, taken, fpc, interVars, switchVars, sinkVars,
                       replies, eof, fresh>>
    BY DEF ReadChannel
  <2> QED BY <2>1, <2>2 DEF IInv, TypeOK, clientVars, interVars, switchVars, sinkVars
<1>11. Output'
  <2>1. /\ wire \in Seq(BOOLEAN) /\ wire # <<>> /\ wire' = Tail(wire) /\ dpc' = "idle"
        /\ dpc \in {"channel", "delayer"} /\ UNCHANGED <<enabled, predict>>
        /\ around' = IF Head(wire) /\ predict THEN around + 1 ELSE around
    BY DEF ReadChannel, IInv, TypeOK, switchVars
  <2>2. \A i \in 1..Len(wire') : wire'[i] => enabled
    <3>1. /\ \A i \in 1..Len(wire') : wire'[i] = wire[i + 1]
          /\ Len(wire) \in Nat /\ Len(wire') = Len(wire) - 1
      BY <2>1, HeadTail
    <3>2. \A i \in 1..Len(wire') : i + 1 \in 1..Len(wire)
      BY <3>1
    <3> QED BY <3>1, <3>2 DEF IInv, Output
  <2>3. Head(wire) => enabled
    <3>1. Head(wire) = wire[1] /\ Len(wire) \in Nat \ {0}
      BY <2>1, HeadTail
    <3>2. 1 \in 1..Len(wire)
      BY <3>1
    <3> QED BY <3>1, <3>2 DEF IInv, Output
  <2>4. around \in Nat /\ (predict => dpc = "channel" /\ around = 0)
    <3>1. predict => dpc = "channel"
      BY <2>1 DEF IInv, Output
    <3>2. around \in Nat
      BY DEF IInv, TypeOK
    <3>3. dpc = "channel" => ~(around > 0)
      BY DEF IInv, Output
    <3> QED BY <3>1, <3>2, <3>3
  <2>5. around' <= 1 /\ (around' > 0 => predict /\ enabled)
    <3>1. CASE Head(wire) /\ predict
      <4>1. around' = around + 1
        BY <2>1, <3>1
      <4>2. enabled /\ predict /\ around = 0
        BY <2>3, <2>4, <3>1
      <4> QED BY <4>1, <4>2
    <3>2. CASE ~(Head(wire) /\ predict)
      BY <2>1, <3>2 DEF IInv, Output
    <3> QED BY <3>1, <3>2
  <2> QED BY <2>1, <2>2, <2>5 DEF Output
<1> QED BY <1>2, <1>3, <1>4, <1>5, <1>6, <1>7, <1>8, <1>9, <1>10, <1>11 DEF IInv

(* ReadFrame keeps the invariant. *)
LEMMA ReadFrameStep ==
  ASSUME IInv, ReadFrame
  PROVE  IInv'
<1>1. UNCHANGED <<predict, requests, taken, fpc, spc, held, activated, interposer, size,
     sizedBy, refractor, enabled, shut, forwarded, replies, inputs>>
  BY DEF ReadFrame, clientVars, switchVars, interVars, sinkVars
<1>2. Switched'
  BY <1>1 DEF IInv, Switched, Front
<1>3. Handled'
  BY <1>1 DEF IInv, Handled, Passed, Busy, IsPty, IsSized
<1>4. Resized'
  BY <1>1 DEF IInv, Resized, Passed, Busy, IsPty, IsSized, SizedFor
<1>5. Sizing'
  BY <1>1 DEF IInv, Sizing, IsPty, IsSized
<1>6. Order'
  BY <1>1 DEF IInv, Order, Passed, Busy, ForwardedInOrder
<1>7. Routed'
  BY <1>1 DEF IInv, Routed
<1>8. InputInterposed'
  BY <1>1 DEF IInv, InputInterposed
<1>9. InterposerShut'
  BY <1>1 DEF IInv, InterposerShut
<1>10. TypeOK'
  <2>1. fresh' \in BOOLEAN /\ dpc' = "idle"
    BY DEF ReadFrame
  <2>2. UNCHANGED <<predict, clientVars, taken, fpc, interVars, switchVars, sinkVars,
                    replies, wire, eof, around>>
    BY DEF ReadFrame
  <2> QED BY <2>1, <2>2 DEF IInv, TypeOK, clientVars, interVars, switchVars, sinkVars
<1>11. Output'
  BY FilterAssumption DEF IInv, ReadFrame, TypeOK, Output, clientVars, switchVars,
       interVars, sinkVars
<1> QED BY <1>2, <1>3, <1>4, <1>5, <1>6, <1>7, <1>8, <1>9, <1>10, <1>11 DEF IInv

(* ReadEof keeps the invariant. *)
LEMMA ReadEofStep ==
  ASSUME IInv, ReadEof
  PROVE  IInv'
<1>1. UNCHANGED <<predict, requests, taken, fpc, spc, held, activated, interposer, size,
     sizedBy, refractor, enabled, shut, forwarded, replies, inputs>>
  BY DEF ReadEof, clientVars, switchVars, interVars, sinkVars, outVars
<1>2. Switched'
  BY <1>1 DEF IInv, Switched, Front
<1>3. Handled'
  BY <1>1 DEF IInv, Handled, Passed, Busy, IsPty, IsSized
<1>4. Resized'
  BY <1>1 DEF IInv, Resized, Passed, Busy, IsPty, IsSized, SizedFor
<1>5. Sizing'
  BY <1>1 DEF IInv, Sizing, IsPty, IsSized
<1>6. Order'
  BY <1>1 DEF IInv, Order, Passed, Busy, ForwardedInOrder
<1>7. Routed'
  BY <1>1 DEF IInv, Routed
<1>8. InputInterposed'
  BY <1>1 DEF IInv, InputInterposed
<1>9. InterposerShut'
  BY <1>1 DEF IInv, InterposerShut
<1>10. TypeOK'
  BY FilterAssumption DEF IInv, ReadEof, TypeOK, clientVars, switchVars, interVars,
       sinkVars, outVars
<1>11. Output'
  BY FilterAssumption DEF IInv, ReadEof, TypeOK, Output, clientVars, switchVars,
       interVars, sinkVars, outVars
<1> QED BY <1>2, <1>3, <1>4, <1>5, <1>6, <1>7, <1>8, <1>9, <1>10, <1>11 DEF IInv

(* Pull keeps the invariant. *)
LEMMA PullStep ==
  ASSUME IInv, Pull
  PROVE  IInv'
<1>1. UNCHANGED <<predict, requests, taken, fpc, spc, held, activated, interposer, size,
     sizedBy, refractor, enabled, shut, forwarded, replies, inputs>>
  BY DEF Pull, clientVars, switchVars, interVars, sinkVars
<1>2. Switched'
  BY <1>1 DEF IInv, Switched, Front
<1>3. Handled'
  BY <1>1 DEF IInv, Handled, Passed, Busy, IsPty, IsSized
<1>4. Resized'
  BY <1>1 DEF IInv, Resized, Passed, Busy, IsPty, IsSized, SizedFor
<1>5. Sizing'
  BY <1>1 DEF IInv, Sizing, IsPty, IsSized
<1>6. Order'
  BY <1>1 DEF IInv, Order, Passed, Busy, ForwardedInOrder
<1>7. Routed'
  BY <1>1 DEF IInv, Routed
<1>8. InputInterposed'
  BY <1>1 DEF IInv, InputInterposed
<1>9. InterposerShut'
  BY <1>1 DEF IInv, InterposerShut
<1>10. TypeOK'
  BY FilterAssumption DEF IInv, Pull, TypeOK, clientVars, switchVars, interVars, sinkVars
<1>11. Output'
  <2>1. /\ wire \in Seq(BOOLEAN) /\ wire # <<>> /\ wire' = Tail(wire)
        /\ UNCHANGED <<enabled, predict, dpc, around>>
    BY DEF Pull, IInv, TypeOK, switchVars
  <2>2. \A i \in 1..Len(wire') : wire'[i] => enabled
    <3>1. /\ \A i \in 1..Len(wire') : wire'[i] = wire[i + 1]
          /\ Len(wire) \in Nat /\ Len(wire') = Len(wire) - 1
      BY <2>1, HeadTail
    <3>2. \A i \in 1..Len(wire') : i + 1 \in 1..Len(wire)
      BY <3>1
    <3> QED BY <3>1, <3>2 DEF IInv, Output
  <2> QED BY <2>1, <2>2 DEF IInv, Output
<1> QED BY <1>2, <1>3, <1>4, <1>5, <1>6, <1>7, <1>8, <1>9, <1>10, <1>11 DEF IInv

(* WriteCall keeps the invariant. *)
LEMMA WriteCallStep ==
  ASSUME IInv, WriteCall
  PROVE  IInv'
<1>0. inputs' = inputs \cup {<<PtyIn(replies), Target>>} /\ UNCHANGED predict
  BY DEF WriteCall
<1>a. PtyIn(replies) \in BOOLEAN /\ Target \in Targets /\ Target # "nil"
  BY Leads DEF PtyIn, Targets
<1>b. predict /\ PtyIn(replies) => Target = "interposer"
  BY Leads, SentEnabled
<1> HIDE DEF PtyIn, Target
<1>1. UNCHANGED <<predict, requests, taken, fpc, spc, dpc, held, activated, interposer,
     size, sizedBy, refractor, enabled, shut, forwarded, replies, wire, around>>
  BY DEF WriteCall, switchVars, interVars, sinkVars, outVars
<1>2. Switched'
  BY <1>1 DEF IInv, Switched, Front
<1>3. Handled'
  BY <1>1 DEF IInv, Handled, Passed, Busy, IsPty, IsSized
<1>4. Resized'
  BY <1>1 DEF IInv, Resized, Passed, Busy, IsPty, IsSized, SizedFor
<1>5. Sizing'
  BY <1>1 DEF IInv, Sizing, IsPty, IsSized
<1>6. Order'
  BY <1>1 DEF IInv, Order, Passed, Busy, ForwardedInOrder
<1>7. Output'
  BY <1>1 DEF IInv, Output
<1>8. InterposerShut'
  BY <1>1 DEF IInv, InterposerShut
<1>9. TypeOK'
  <2>1. inputs' \in SUBSET (BOOLEAN \X Targets)
    BY <1>0, <1>a DEF IInv, TypeOK
  <2> QED BY <2>1, FilterAssumption DEF IInv, WriteCall, TypeOK, clientVars, switchVars,
       interVars, sinkVars, outVars
<1>10. Routed'
  BY <1>0, <1>a DEF IInv, Routed
<1>11. InputInterposed'
  BY <1>0, <1>b DEF IInv, InputInterposed
<1> QED BY <1>2, <1>3, <1>4, <1>5, <1>6, <1>7, <1>8, <1>9, <1>10, <1>11 DEF IInv

(* WriterEnd keeps the invariant. *)
LEMMA WriterEndStep ==
  ASSUME IInv, WriterEnd
  PROVE  IInv'
<1>1. UNCHANGED <<predict, requests, taken, fpc, spc, dpc, held, activated, interposer,
     size, sizedBy, refractor, enabled, shut, forwarded, replies, wire, around, inputs>>
  BY DEF WriterEnd, switchVars, interVars, sinkVars, outVars
<1>2. Switched'
  BY <1>1 DEF IInv, Switched, Front
<1>3. Handled'
  BY <1>1 DEF IInv, Handled, Passed, Busy, IsPty, IsSized
<1>4. Resized'
  BY <1>1 DEF IInv, Resized, Passed, Busy, IsPty, IsSized, SizedFor
<1>5. Sizing'
  BY <1>1 DEF IInv, Sizing, IsPty, IsSized
<1>6. Order'
  BY <1>1 DEF IInv, Order, Passed, Busy, ForwardedInOrder
<1>7. Output'
  BY <1>1 DEF IInv, Output
<1>8. Routed'
  BY <1>1 DEF IInv, Routed
<1>9. InputInterposed'
  BY <1>1 DEF IInv, InputInterposed
<1>10. InterposerShut'
  BY <1>1 DEF IInv, InterposerShut
<1>11. TypeOK'
  BY FilterAssumption DEF IInv, WriterEnd, TypeOK, switchVars, interVars, sinkVars,
       outVars
<1> QED BY <1>2, <1>3, <1>4, <1>5, <1>6, <1>7, <1>8, <1>9, <1>10, <1>11 DEF IInv

(* The invariant holds throughout.                                         *)
THEOREM Invariant == Spec => []IInv
<1>1. IInv /\ [Next]_vars => IInv'
  <2> SUFFICES ASSUME IInv, [Next]_vars PROVE IInv'
    OBVIOUS
  <2>1. CASE Peers
    BY <2>1, ClientRequestStep, ClientCloseStep, ServerSendStep, ServerEofStep DEF Peers
  <2>2. CASE Filter
    BY <2>2, FilterTakeStep, ActivateStep, RefractStep, EnableStep, FilterResizeStep,
       FilterSetStep, FilterPassStep, FilterEndStep, CloseSwitchStep DEF Filter
  <2>3. CASE Sink
    BY <2>3, SinkForwardStep, SinkFailsStep, SinkAnswerStep, SinkDoneStep DEF Sink
  <2>4. CASE Reader \/ Pull \/ WriteCall \/ WriterEnd
    BY <2>4, ReadCallStep, ReadChannelStep, ReadFrameStep, ReadEofStep, PullStep,
       WriteCallStep, WriterEndStep DEF Reader
  <2>5. CASE UNCHANGED vars
    <3>1. UNCHANGED <<clientVars, switchVars, interVars, sinkVars, outVars, predict, taken,
                      fpc, dpc, replies>>
      BY <2>5 DEF vars
    <3>2. TypeOK' /\ Switched' /\ Order' /\ Output'
      BY <3>1 DEF clientVars, switchVars, interVars, sinkVars, outVars, IInv, TypeOK,
         Switched, Front, Order, ForwardedInOrder, Passed, Busy, Output
    <3>3. Handled' /\ Resized' /\ Sizing'
      BY <3>1 DEF clientVars, switchVars, interVars, IInv, Handled, Resized, Sizing, SizedFor,
         Passed, Busy, IsPty, IsSized
    <3>4. Routed' /\ InputInterposed' /\ InterposerShut'
      BY <3>1 DEF clientVars, switchVars, interVars, IInv, Routed, InputInterposed,
         InterposerShut
    <3> QED BY <3>2, <3>3, <3>4 DEF IInv
  <2> QED BY <2>1, <2>2, <2>3, <2>4, <2>5 DEF Next
<1> QED BY InitIInv, <1>1, PTL DEF Spec

(* The invariant says that the interposer knows the sizes.                 *)
LEMMA KnownStep == IInv => SizeKnown
<1> SUFFICES ASSUME IInv, predict, NEW k \in 1..Len(forwarded), IsSized(forwarded[k]),
                    NEW p, IsPty(p), p <= forwarded[k]
             PROVE  sizedBy >= forwarded[k]
  <2> HIDE DEF IsSized, IsPty
  <2> QED BY SizedIs DEF SizeKnown, Among
<1>1. forwarded[k] \in 1..Passed /\ p \in 1..forwarded[k]
  BY Numbers DEF IsSized, IsPty
<1> QED BY <1>1 DEF IInv, Resized, SizedFor

(* What the runs check, as consequences.  Every state of SessionFilter is   *)
(* of its type (main.go:355-466, ioswitch.go).                             *)
THEOREM Types == Spec => []TypeOK
<1>1. IInv => TypeOK
  BY DEF IInv
<1> QED BY Invariant, <1>1, PTL

(* A size the server has been told is one the interposer knows             *)
(* (main.go:365-374, :431).                                                *)
THEOREM Known == Spec => []SizeKnown
<1>1. IInv => SizeKnown
  BY KnownStep
<1> QED BY Invariant, <1>1, PTL

(* And whenever no such request is under way the two agree on the size     *)
(* (ptyreq.go:34-56, :70-85; main.go:363-374).                             *)
THEOREM Agreed == Spec => []SizeAgreed
<1>1. ASSUME IInv PROVE SizeAgreed
  <2> DEFINE told == {i \in Sized : \E p \in Ptys : p <= i}
  <2> SUFFICES ASSUME predict, told # {}, told \subseteq Among(forwarded)
               PROVE  size = requests[CHOOSE i \in told : \A j \in told : j <= i].means
    BY DEF SizeAgreed
  <2>1. told \subseteq 1..Len(requests) /\ Len(requests) \in Nat /\ sizedBy \in Nat
    BY <1>1 DEF Sized, IInv, TypeOK
  <2>2. \A i \in told : sizedBy >= i
    <3>1. SizeKnown
      BY <1>1, KnownStep
    <3> QED BY <3>1 DEF SizeKnown
  <2>3. sizedBy > 0
    BY <2>1, <2>2
  <2>4. sizedBy \in told /\ size = requests[sizedBy].means
    <3>1. PICK p \in 1..sizedBy : IsPty(p)
      BY <1>1, <2>3 DEF IInv, Sizing
    <3>2. p \in Ptys /\ p <= sizedBy /\ sizedBy \in Sized
      BY <1>1, <2>1, <2>3, <3>1, SizedIs DEF IInv, Sizing
    <3> QED BY <1>1, <2>3, <3>2 DEF IInv, Sizing
  <2> HIDE DEF told
  <2>5. \A i \in told : (\A j \in told : j <= i) => i = sizedBy
    BY <2>1, <2>2, <2>4
  <2>6. (CHOOSE i \in told : \A j \in told : j <= i) = sizedBy
    BY <2>1, <2>2, <2>4, <2>5
  <2> QED BY <2>4, <2>6
<1> QED BY Invariant, <1>1, PTL

(* Input after the answer to a pty-req is interposed (main.go:352, :431).  *)
THEOREM Interposed == Spec => []InputInterposed
<1>1. IInv => InputInterposed
  BY DEF IInv
<1> QED BY Invariant, <1>1, PTL

(* No goroutine meets an IoSwitch without a refractor (ioswitch.go:39-68). *)
THEOREM Complete == Spec => []SwitchComplete
<1>1. IInv => SwitchComplete
  BY DEF IInv, Routed, Output, SwitchComplete
<1> QED BY Invariant, <1>1, PTL

(* At most one chunk of output goes around the interposer (ioswitch.go:43). *)
THEOREM Around == Spec => []AtMostOneAround
<1>1. IInv => AtMostOneAround
  BY DEF IInv, Output, AtMostOneAround
<1> QED BY Invariant, <1>1, PTL

(* Close reaches the interposer (ioswitch.go:55-61).                       *)
THEOREM Shut == Spec => []InterposerShut
<1>1. IInv => InterposerShut
  BY DEF IInv
<1> QED BY Invariant, <1>1, PTL

(* Requests reach the server in their order (main.go:355-399).             *)
THEOREM InOrder == Spec => []ForwardedInOrder
<1>1. IInv => ForwardedInOrder
  BY DEF IInv, Order
<1> QED BY Invariant, <1>1, PTL

-----------------------------------------------------------------------------
(***************************************************************************)
(* Answers: a second invariant, kept by the steps that keep the first.     *)
(* What the filter has answered is older than all it will take up, and the *)
(* sink holds one request at a time; so an answer of the filter's own can  *)
(* overtake that request and no other (Overtaken).                         *)
(***************************************************************************)
Holding ==
  /\ spc \in {"send", "await"} <=> held # 0
  /\ spc = "await" => requests[held].reply

Overtakes(i) ==
  /\ requests[replies[i]].kind = "setting"
  /\ \A k \in i + 1..Len(replies) : replies[k] > replies[i]

Overtaken ==
  held # 0 => \A i \in 1..Len(replies) :
                replies[i] < held \/ (held < replies[i] /\ Overtakes(i))

RInv == Holding /\ AnswersInOrder /\ Overtaken /\ NoneForgotten

(* The requests that were taken, and those that were answered.             *)
LEMMA AnswersAre ==
  ASSUME IInv
  PROVE  /\ Len(replies) \in Nat /\ taken \in 0..Len(requests) /\ Len(requests) \in Nat
         /\ replies \in Seq(Indices) /\ Indices \subseteq Nat /\ held \in Nat
         /\ \A i \in 1..Len(replies) :
              replies[i] \in 1..Len(requests) /\ replies[i] <= Passed
         /\ Passed \in Int /\ Passed <= taken
         /\ fpc \in Busy => Passed = taken - 1 /\ taken > 0
<1>1. /\ replies \in Seq(Indices) /\ taken \in 0..Len(requests) /\ Len(requests) \in Nat
      /\ Len(replies) \in Nat
      /\ \A i \in 1..Len(replies) : replies[i] \in Indices
  BY DEF IInv, TypeOK
<1>2. Indices \subseteq Nat /\ 0 \notin Indices /\ held \in Nat
  BY FilterAssumption DEF Indices, IInv, TypeOK
<1>3. /\ Passed \in Int /\ Passed <= taken
      /\ fpc \in Busy => Passed = taken - 1 /\ taken > 0
  BY <1>1 DEF Passed, IInv, Handled
<1>4. \A i \in 1..Len(replies) : replies[i] <= Passed /\ replies[i] \in Nat /\ replies[i] # 0
  BY <1>1, <1>2 DEF IInv, Order
<1> QED BY <1>1, <1>2, <1>3, <1>4

(* One answer more, that of x.                                             *)
LEMMA OneMore ==
  ASSUME IInv, AnswersInOrder, NEW x \in Indices, replies' = Append(replies, x),
         requests' = requests,
         \A i \in 1..Len(replies) : replies[i] < x \/ (x < replies[i] /\ Overtakes(i))
  PROVE  AnswersInOrder' /\ Among(replies') = Among(replies) \cup {x}
<1> DEFINE n == Len(replies)
<1>1. /\ n \in Nat /\ Len(replies') = n + 1 /\ replies'[n + 1] = x
      /\ \A i \in 1..n : replies'[i] = replies[i] /\ replies[i] \in Nat
      /\ x \in Nat
  BY AnswersAre, AppendLast
<1>2. Among(replies') = Among(replies) \cup {x}
  <2>1. 1..n + 1 = 1..n \cup {n + 1}
    BY <1>1
  <2> QED BY <1>1, <2>1 DEF Among
<1>3. ASSUME NEW i \in 1..n + 1, NEW j \in 1..n + 1, i < j, ~(replies'[i] < replies'[j])
      PROVE  /\ replies'[j] < replies'[i] /\ requests[replies'[i]].kind = "setting"
             /\ \A k \in i + 1..n + 1 : replies'[k] < replies'[i] => k = j
  <2>0. i \in 1..n
    BY <1>1, <1>3
  <2>1. CASE j = n + 1
    <3>1. x < replies[i] /\ Overtakes(i) /\ replies'[i] = replies[i] /\ replies'[j] = x
      BY <1>1, <1>3, <2>0, <2>1
    <3>2. \A k \in i + 1..n + 1 : k = j \/ (k \in 1..n /\ k \in i + 1..n)
      BY <1>1, <2>0, <2>1
    <3>3. \A k \in i + 1..n + 1 : k = j \/ ~(replies'[k] < replies'[i])
      BY <1>1, <2>0, <3>1, <3>2 DEF Overtakes
    <3> QED BY <3>1, <3>3 DEF Overtakes
  <2>2. CASE j \in 1..n
    <3>1. /\ replies[j] < replies[i] /\ requests[replies[i]].kind = "setting"
          /\ \A k \in i + 1..n : replies[k] < replies[i] => k = j
      BY <1>1, <1>3, <2>0, <2>2 DEF AnswersInOrder
    <3>2. ~Overtakes(i)
      BY <1>1, <1>3, <2>0, <2>2, <3>1 DEF Overtakes
    <3>3. ~(x < replies[i])
      BY <1>1, <2>0, <3>2
    <3>4. \A k \in i + 1..n + 1 : k = n + 1 \/ (k \in 1..n /\ k \in i + 1..n)
      BY <1>1, <2>0
    <3>5. \A k \in i + 1..n + 1 : replies'[k] < replies'[i] => k = j
      BY <1>1, <2>0, <3>1, <3>3, <3>4
    <3> QED BY <1>1, <2>0, <2>2, <3>1, <3>5
  <2> QED BY <1>1, <2>1, <2>2
<1>4. AnswersInOrder'
  <2> HIDE DEF n
  <2>1. Len(replies') = n + 1
    BY <1>1
  <2> QED BY <1>3, <2>1 DEF AnswersInOrder
<1> QED BY <1>2, <1>4

(* The client sends a request.                                             *)
LEMMA RequestKeeps ==
  ASSUME IInv, RInv, NEW r \in Requests, ClientRequest(r)
  PROVE  RInv'
<1>1. /\ UNCHANGED <<taken, fpc, spc, held, replies>> /\ requests' = Append(requests, r)
      /\ requests \in Seq(Requests)
  BY DEF ClientRequest, sinkVars, IInv, TypeOK
<1>2. \A i \in 1..Len(requests) : requests'[i] = requests[i]
  BY <1>1, AppendLast
<1>3. spc \in {"send", "await"} => held \in 1..Len(requests)
  BY AnswersAre DEF IInv, Order
<1>4. Holding' /\ NoneForgotten'
  BY <1>1, <1>2, <1>3, AnswersAre DEF RInv, Holding, NoneForgotten, Among
<1>5. \A i \in 1..Len(replies) : requests'[replies[i]] = requests[replies[i]]
  BY <1>2, AnswersAre
<1>6. AnswersInOrder'
  BY <1>1, <1>5 DEF RInv, AnswersInOrder
<1>7. Overtaken'
  BY <1>1, <1>5 DEF RInv, Overtaken, Overtakes
<1> QED BY <1>4, <1>6, <1>7 DEF RInv

(* The filter takes one.                                                   *)
LEMMA TakeKeeps ==
  ASSUME IInv, RInv, FilterTake
  PROVE  RInv'
<1>1. /\ UNCHANGED <<requests, spc, held, replies>> /\ taken' = taken + 1
      /\ fpc = "receive" /\ fpc' = Handling(requests[taken + 1]) /\ taken < Len(requests)
  BY DEF FilterTake, clientVars, sinkVars
<1>2. requests[taken + 1] \in Requests /\ taken \in Nat
  BY <1>1, AnswersAre DEF IInv, TypeOK
<1>3. fpc' \in {"handle", "resize", "pass"}
  BY <1>1, <1>2, Handles
<1>4. NoneForgotten'
  BY <1>1, <1>2, <1>3 DEF RInv, NoneForgotten
<1>5. Holding' /\ AnswersInOrder' /\ Overtaken'
  BY <1>1 DEF RInv, Holding, AnswersInOrder, Overtaken, Overtakes
<1> QED BY <1>4, <1>5 DEF RInv

(* The filter answers one itself, or drops it.                             *)
LEMMA SetKeeps ==
  ASSUME IInv, RInv, FilterSet
  PROVE  RInv'
<1>1. /\ UNCHANGED <<requests, spc, held, taken>> /\ fpc = "handle" /\ fpc' = "receive"
      /\ requests[taken].kind \notin {"pty", "winch", "other"}
      /\ replies' = replies
           \/ (replies' = Append(replies, taken) /\ requests[taken].kind = "setting")
  BY DEF FilterSet, clientVars, sinkVars, Current, IInv, Handled
<1>2. /\ taken \in Indices /\ taken \in Nat /\ taken > 0 /\ Passed = taken - 1
      /\ spc \in {"send", "await"} => held \in 1..Passed
  BY <1>1, InHand, AnswersAre DEF Busy, IInv, Order
<1>3. CASE replies' = replies
  BY <1>1, <1>3 DEF RInv, Holding, AnswersInOrder, Overtaken, Overtakes, NoneForgotten
<1>4. CASE replies' = Append(replies, taken) /\ requests[taken].kind = "setting"
  <2>1. \A i \in 1..Len(replies) : replies[i] < taken
    BY <1>2, AnswersAre
  <2>2. AnswersInOrder' /\ Among(replies') = Among(replies) \cup {taken}
    BY <1>1, <1>2, <1>4, <2>1, OneMore DEF RInv
  <2>3. Holding' /\ NoneForgotten'
    BY <1>1, <2>2 DEF RInv, Holding, NoneForgotten
  <2>4. Overtaken'
    <3> DEFINE n == Len(replies)
    <3>1. /\ n \in Nat /\ Len(replies') = n + 1 /\ replies'[n + 1] = taken
          /\ \A i \in 1..n : replies'[i] = replies[i] /\ replies[i] \in Nat
      BY <1>2, <1>4, AnswersAre, AppendLast
    <3> SUFFICES ASSUME held # 0, NEW i \in 1..n + 1
                 PROVE  replies'[i] < held \/ (held < replies'[i] /\ Overtakes(i)')
      BY <1>1, <3>1 DEF Overtaken
    <3>2. held < taken
      BY <1>2 DEF RInv, Holding
    <3>3. CASE i = n + 1
      BY <1>1, <1>4, <3>1, <3>2, <3>3 DEF Overtakes
    <3>4. CASE i \in 1..n
      <4>1. replies[i] < held \/ (held < replies[i] /\ Overtakes(i))
        BY <3>4 DEF RInv, Overtaken
      <4>2. \A k \in i + 1..n + 1 : k = n + 1 \/ (k \in 1..n /\ k \in i + 1..n)
        BY <3>1, <3>4
      <4>3. Overtakes(i) => Overtakes(i)'
        BY <1>1, <2>1, <3>1, <3>4, <4>2 DEF Overtakes
      <4> QED BY <3>1, <3>4, <4>1, <4>3
    <3> QED BY <3>1, <3>3, <3>4
  <2> QED BY <2>2, <2>3, <2>4 DEF RInv
<1> QED BY <1>1, <1>3, <1>4

(* The sink gets the latest.                                               *)
LEMMA PassKeeps ==
  ASSUME IInv, RInv, FilterPass
  PROVE  RInv'
<1>1. /\ UNCHANGED <<requests, replies, taken>> /\ fpc = "pass" /\ fpc' = "receive"
      /\ held' = taken /\ spc' = "send" /\ spc = "receive"
  BY DEF FilterPass, clientVars
<1>2. /\ taken \in Nat /\ taken > 0 /\ held = 0
      /\ \A i \in 1..Len(replies) : replies[i] < taken
  BY <1>1, AnswersAre DEF Busy, RInv, Holding
<1>3. Holding' /\ AnswersInOrder' /\ Overtaken'
  BY <1>1, <1>2 DEF RInv, Holding, AnswersInOrder, Overtaken
<1>4. NoneForgotten'
  BY <1>1, <1>2 DEF RInv, NoneForgotten
<1> QED BY <1>3, <1>4 DEF RInv

(* The sink sends its request, and waits for an answer or does not.        *)
LEMMA ForwardKeeps ==
  ASSUME IInv, RInv, SinkForward
  PROVE  RInv'
<1>1. /\ UNCHANGED <<requests, replies, taken, fpc>> /\ spc = "send" /\ held # 0
      /\ \/ requests[held].reply /\ spc' = "await" /\ held' = held
         \/ ~requests[held].reply /\ spc' = "receive" /\ held' = 0
  BY DEF SinkForward, clientVars, RInv, Holding
<1>2. Holding' /\ AnswersInOrder' /\ Overtaken'
  BY <1>1 DEF RInv, Holding, AnswersInOrder, Overtaken, Overtakes
<1>3. NoneForgotten'
  BY <1>1 DEF RInv, NoneForgotten
<1> QED BY <1>2, <1>3 DEF RInv

(* The sink hands back an answer, or lets a request go that wants none.    *)
LEMMA AnswerKeeps ==
  ASSUME IInv, RInv, SinkFails \/ SinkAnswer
  PROVE  RInv'
<1>1. /\ UNCHANGED <<requests, taken, fpc>> /\ held # 0 /\ held \in Indices
      /\ spc' = "receive" /\ held' = 0
      /\ replies' = Append(replies, held)
           \/ (replies' = replies /\ ~requests[held].reply)
  BY DEF SinkFails, SinkAnswer, clientVars, RInv, Holding, IInv, TypeOK, Indices
<1>2. Holding' /\ Overtaken'
  BY <1>1 DEF Holding, Overtaken
<1>3. CASE replies' = replies /\ ~requests[held].reply
  <2>1. AnswersInOrder' /\ NoneForgotten'
    BY <1>1, <1>3 DEF RInv, AnswersInOrder, NoneForgotten
  <2> QED BY <1>2, <2>1 DEF RInv
<1>4. CASE replies' = Append(replies, held)
  <2>1. AnswersInOrder' /\ Among(replies') = Among(replies) \cup {held}
    BY <1>1, <1>4, OneMore DEF RInv, Overtaken
  <2>2. NoneForgotten'
    BY <1>1, <2>1 DEF RInv, NoneForgotten
  <2> QED BY <1>2, <2>1, <2>2 DEF RInv
<1> QED BY <1>1, <1>3, <1>4

(* The other steps concern neither answers nor whose turn it is.           *)
LEMMA RestKeeps ==
  ASSUME IInv, RInv,
         \/ ClientClose \/ ServerSend \/ ServerEof
         \/ Activate \/ Refract \/ Enable \/ FilterResize \/ FilterEnd \/ CloseSwitch
         \/ SinkDone \/ Reader \/ Pull \/ WriteCall \/ WriterEnd \/ UNCHANGED vars
  PROVE  RInv'
<1>1. UNCHANGED <<requests, taken, replies, held>>
  BY DEF ClientClose, ServerSend, ServerEof, Activate, Refract, Enable, FilterResize,
     FilterEnd, CloseSwitch, SinkDone, Reader, ReadCall, ReadChannel, ReadFrame, ReadEof,
     Pull, WriteCall, WriterEnd, vars, clientVars, sinkVars
<1>2. spc' = spc \/ (spc = "receive" /\ spc' = "done")
  BY DEF ClientClose, ServerSend, ServerEof, Activate, Refract, Enable, FilterResize,
     FilterEnd, CloseSwitch, SinkDone, Reader, ReadCall, ReadChannel, ReadFrame, ReadEof,
     Pull, WriteCall, WriterEnd, vars, sinkVars
<1>3. fpc \in Busy => fpc' \in Busy
  BY DEF ClientClose, ServerSend, ServerEof, Activate, Refract, Enable, FilterResize,
     FilterEnd, CloseSwitch, SinkDone, Reader, ReadCall, ReadChannel, ReadFrame, ReadEof,
     Pull, WriteCall, WriterEnd, vars, Busy
<1>4. Holding' /\ AnswersInOrder' /\ Overtaken'
  BY <1>1, <1>2 DEF RInv, Holding, AnswersInOrder, Overtaken, Overtakes
<1>5. NoneForgotten'
  BY <1>1, <1>3 DEF RInv, NoneForgotten, Busy
<1> QED BY <1>4, <1>5 DEF RInv

(* The second invariant holds throughout.                                  *)
THEOREM Answering == Spec => []RInv
<1>1. Init => RInv
  BY DEF Init, RInv, Holding, AnswersInOrder, Overtaken, NoneForgotten
<1>2. IInv /\ RInv /\ [Next]_vars => RInv'
  <2> SUFFICES ASSUME IInv, RInv, [Next]_vars PROVE RInv'
    OBVIOUS
  <2> QED BY RequestKeeps, TakeKeeps, SetKeeps, PassKeeps, ForwardKeeps, AnswerKeeps,
             RestKeeps DEF Next, Peers, Filter, Sink
<1> QED BY Invariant, <1>1, <1>2, PTL DEF Spec

(* Answers come in the order of the requests, each once, but for one that  *)
(* an answer of the filter's own overtakes (main.go:384, :399).            *)
THEOREM AnsweredInOrder == Spec => []AnswersInOrder
<1>1. RInv => AnswersInOrder
  BY DEF RInv
<1> QED BY Answering, <1>1, PTL

(* No request that wants an answer is lost between the filter and the sink *)
(* (main.go:359-399).                                                      *)
THEOREM Remembered == Spec => []NoneForgotten
<1>1. RInv => NoneForgotten
  BY DEF RInv
<1> QED BY Answering, <1>1, PTL
=============================================================================
