----------------------------- MODULE ProxyAuthProofs -----------------------------
(***************************************************************************)
(* Proofs about ProxyAuth, for any number of clients and of questions.     *)
(*                                                                         *)
(* The argument: only the dial of the handshake under way, and dials of    *)
(* handshakes that failed, can still be at work (Dials), because the       *)
(* callback returns without an error only after its dial has ended.  So a  *)
(* connection found in proxyConn at the end of a handshake is the client's *)
(* own or was put there late (Own), and has been given to nobody (Fresh).  *)
(***************************************************************************)
EXTENDS ProxyAuth, FunctionTheorems, FiniteSetTheorems, TLAPS

Ended == {"assigned", "established"}
Idle  == {"accept", "crashed"}
ConnOf(d) == IF connErr[d] THEN 0 ELSE d

(* Which handshakes are still to be decided.                               *)
Turns ==
  /\ hpc \notin Idle => shake \in Shakes
  /\ \A h \in Shakes :
       outcome[h] = "open" <=> h > shake \/ (h = shake /\ hpc \notin Idle)

(* How far the dial of each handshake is.                                  *)
Dials ==
  /\ \A d \in Shakes : connErr[d] => dial[d] \in Ended
  /\ \A d \in Shakes : outcome[d] = "served" => dial[d] = "established" /\ ~connErr[d]
  /\ \A d \in Shakes : d > shake \/ (d = shake /\ hpc = "auth") => dial[d] = "none"
  /\ hpc = "final" => connErr[shake] \/ dial[shake] = "established"
  /\ hpc = "granted" => dial[shake] = "established" /\ ~connErr[shake]
  /\ \A d \in late : dial[d] \in Ended

(* The callback holds a question exactly while it puts it to the client.   *)
Held ==
  /\ question # 0 <=> hpc = "challenge"
  /\ question # 0 => dial[question] = "waiting"

(* What the end of the client's dial left in proxyConn, or a late one.     *)
Own ==
  hpc \notin Idle /\ dial[shake] \in Ended =>
    \E d \in {shake} \cup late : proxyConn = ConnOf(d)

(* What may still be given has not been given, and is given once.          *)
Fresh ==
  /\ \A h \in Shakes : given[h] # 0 => dial[given[h]] \in Ended /\ outcome[h] = "served"
  /\ hpc \notin Idle /\ dial[shake] \in Ended /\ proxyConn # 0 =>
       \A h \in Shakes : given[h] # proxyConn
  /\ \A g, h \in Shakes : g # h /\ given[g] = given[h] => given[g] = 0

(* What has been closed belonged to a session that is over.                *)
Over ==
  /\ \A h \in live : outcome[h] = "served"
  /\ \A c \in closed : c # 0 => \E g \in Shakes \ live : given[g] = c

IInv == TypeOK /\ Turns /\ Dials /\ Held /\ Own /\ GivenOwn /\ Fresh /\ Over

-----------------------------------------------------------------------------
(* What Head and Tail of a queue are.                                      *)
LEMMA HeadTail ==
  ASSUME NEW S, NEW s \in Seq(S), s # <<>>
  PROVE  /\ Len(s) \in Nat \ {0} /\ Head(s) = s[1] /\ Head(s) \in S
         /\ Tail(s) \in Seq(S) /\ Len(Tail(s)) = Len(s) - 1
         /\ \A i \in 1..Len(Tail(s)) : Tail(s)[i] = s[i + 1]
  OBVIOUS

(* What an Append is.                                                      *)
LEMMA AppendLast ==
  ASSUME NEW S, NEW s \in Seq(S), NEW x \in S
  PROVE  /\ Append(s, x) \in Seq(S) /\ Len(Append(s, x)) = Len(s) + 1
         /\ Len(s) \in Nat
         /\ \A i \in 1..Len(s) : Append(s, x)[i] = s[i]
         /\ Append(s, x)[Len(s) + 1] = x
  OBVIOUS

(* The initial state satisfies the invariant.                              *)
LEMMA InitIInv == Init => IInv
<1> SUFFICES ASSUME Init PROVE IInv
  OBVIOUS
<1>1. Queued
  BY DEF Init, Queued
<1>2. TypeOK
  <2>1. 0 \in Conns /\ 0 \in 0..MaxAsks
    BY AuthAssumption DEF Conns
  <2>2. <<>> \in Seq(Shakes)
    OBVIOUS
  <2> QED BY <1>1, <2>1, <2>2 DEF Init, TypeOK
<1>3. Turns /\ Dials /\ Held /\ Own
  BY AuthAssumption DEF Init, Turns, Dials, Held, Own, Shakes, Idle
<1>4. GivenOwn /\ Fresh /\ Over
  BY DEF Init, GivenOwn, Fresh, Over, Idle
<1> QED BY <1>1, <1>2, <1>3, <1>4 DEF IInv

(* Accept keeps the invariant. *)
LEMMA AcceptStep ==
  ASSUME IInv, Accept
  PROVE  IInv'
<1>1. TypeOK'
  <2>1. Queued'
    BY DEF IInv, TypeOK, Queued, Accept, Shakes, Conns, modeVars, dialVars, askVars,
         sessVars
  <2>2. shake' \in Conns
    BY AuthAssumption DEF IInv, TypeOK, Accept, Conns
  <2> QED BY <2>1, <2>2 DEF IInv, TypeOK, Accept, dialVars, askVars, sessVars, modeVars
<1>2. Turns'
  BY AuthAssumption DEF IInv, TypeOK, Accept, Turns, Idle, Shakes, Conns, modeVars,
       dialVars, askVars, sessVars
<1>3. Dials'
  BY AuthAssumption DEF IInv, TypeOK, Accept, Dials, Ended, Turns, Idle, Shakes, Conns,
       modeVars, dialVars, askVars, sessVars
<1>4. Held'
  BY AuthAssumption DEF IInv, TypeOK, Accept, Held, Shakes, Conns, modeVars, dialVars,
       askVars, sessVars
<1>5. Own'
  BY AuthAssumption DEF IInv, TypeOK, Accept, Own, Ended, Idle, ConnOf, Turns, Dials,
       Shakes, Conns, modeVars, dialVars, askVars, sessVars
<1>6. GivenOwn'
  BY AuthAssumption DEF IInv, TypeOK, Accept, GivenOwn, Dials, Turns, Idle, Shakes,
       Conns, modeVars, dialVars, askVars, sessVars
<1>7. Fresh'
  BY AuthAssumption DEF IInv, TypeOK, Accept, Fresh, Ended, Idle, Turns, Dials, Shakes,
       Conns, modeVars, dialVars, askVars, sessVars
<1>8. Over'
  BY AuthAssumption DEF IInv, TypeOK, Accept, Over, Turns, Idle, Fresh, Shakes, Conns,
       modeVars, dialVars, askVars, sessVars
<1> QED BY <1>1, <1>2, <1>3, <1>4, <1>5, <1>6, <1>7, <1>8 DEF IInv

(* ClientLeaves keeps the invariant. *)
LEMMA ClientLeavesStep ==
  ASSUME IInv, ClientLeaves
  PROVE  IInv'
<1>1. TypeOK'
  <2>1. Queued'
    BY DEF IInv, TypeOK, Queued, ClientLeaves, Fail, Shakes, Conns, modeVars, dialVars,
         askVars, sessVars
  <2> QED BY <2>1, AuthAssumption DEF IInv, TypeOK, ClientLeaves, Fail, Shakes, Conns,
       modeVars, dialVars, askVars, sessVars
<1>2. Turns'
  BY AuthAssumption DEF IInv, TypeOK, ClientLeaves, Fail, Turns, Idle, Shakes, Conns,
       modeVars, dialVars, askVars, sessVars
<1>3. Dials'
  BY AuthAssumption DEF IInv, TypeOK, ClientLeaves, Fail, Dials, Ended, Turns, Idle,
       Shakes, Conns, modeVars, dialVars, askVars, sessVars
<1>4. Held'
  BY AuthAssumption DEF IInv, TypeOK, ClientLeaves, Fail, Held, Shakes, Conns, modeVars,
       dialVars, askVars, sessVars
<1>5. Own'
  BY AuthAssumption DEF IInv, TypeOK, ClientLeaves, Fail, Own, Ended, Idle, ConnOf,
       Turns, Dials, Shakes, Conns, modeVars, dialVars, askVars, sessVars
<1>6. GivenOwn'
  BY AuthAssumption DEF IInv, TypeOK, ClientLeaves, Fail, GivenOwn, Dials, Turns, Idle,
       Shakes, Conns, modeVars, dialVars, askVars, sessVars
<1>7. Fresh'
  BY AuthAssumption DEF IInv, TypeOK, ClientLeaves, Fail, Fresh, Ended, Idle, Turns,
       Dials, Shakes, Conns, modeVars, dialVars, askVars, sessVars
<1>8. Over'
  BY AuthAssumption DEF IInv, TypeOK, ClientLeaves, Fail, Over, Turns, Idle, Fresh,
       Shakes, Conns, modeVars, dialVars, askVars, sessVars
<1> QED BY <1>1, <1>2, <1>3, <1>4, <1>5, <1>6, <1>7, <1>8 DEF IInv

(* StartCallback keeps the invariant. *)
LEMMA StartCallbackStep ==
  ASSUME IInv, StartCallback
  PROVE  IInv'
<1>1. TypeOK'
  <2>1. Queued'
    BY DEF IInv, TypeOK, Queued, StartCallback, Dials, Turns, Idle, askVars
  <2> QED BY <2>1, AuthAssumption DEF IInv, TypeOK, StartCallback, Shakes, Conns,
       modeVars, askVars, sessVars
<1>2. Turns'
  BY AuthAssumption DEF IInv, TypeOK, StartCallback, Turns, Idle, Shakes, Conns,
       modeVars, askVars, sessVars
<1>3. Dials'
  BY AuthAssumption DEF IInv, TypeOK, StartCallback, Dials, Ended, Turns, Idle, Shakes,
       Conns, modeVars, askVars, sessVars
<1>4. Held'
  BY AuthAssumption DEF IInv, TypeOK, StartCallback, Held, Shakes, Conns, modeVars,
       askVars, sessVars
<1>5. Own'
  BY AuthAssumption DEF IInv, TypeOK, StartCallback, Own, Ended, Idle, ConnOf, Turns,
       Dials, Shakes, Conns, modeVars, askVars, sessVars
<1>6. GivenOwn'
  BY AuthAssumption DEF IInv, TypeOK, StartCallback, GivenOwn, Dials, Turns, Idle,
       Shakes, Conns, modeVars, askVars, sessVars
<1>7. Fresh'
  BY AuthAssumption DEF IInv, TypeOK, StartCallback, Fresh, Ended, Idle, Turns, Dials,
       Shakes, Conns, modeVars, askVars, sessVars
<1>8. Over'
  BY AuthAssumption DEF IInv, TypeOK, StartCallback, Over, Turns, Idle, Fresh, Shakes,
       Conns, modeVars, askVars, sessVars
<1> QED BY <1>1, <1>2, <1>3, <1>4, <1>5, <1>6, <1>7, <1>8 DEF IInv

(* TakeQuestion keeps the invariant. *)
LEMMA TakeQuestionStep ==
  ASSUME IInv, TakeQuestion
  PROVE  IInv'
<1> DEFINE q == Head(asking)
<1>0. /\ q \in Shakes /\ dial[q] = "asking"
      /\ dial' = [dial EXCEPT ![q] = "waiting"] /\ dial'[q] = "waiting"
      /\ \A d \in Shakes \ {q} : dial'[d] = dial[d]
  <2>1. asking \in Seq(Shakes) /\ asking # <<>>
    BY DEF IInv, TypeOK, TakeQuestion
  <2>2. q \in Shakes /\ q = asking[1] /\ 1 \in 1..Len(asking)
    BY <2>1, HeadTail
  <2>3. dial[q] = "asking"
    BY <2>2 DEF IInv, TypeOK, Queued
  <2> QED BY <2>2, <2>3 DEF IInv, TypeOK, TakeQuestion
<1> HIDE DEF q
<1>1. TypeOK'
  <2>1. Queued'
    <3>1. /\ asking \in Seq(Shakes) /\ Len(asking) \in Nat \ {0} /\ q = asking[1]
          /\ asking' \in Seq(Shakes) /\ Len(asking') = Len(asking) - 1
          /\ \A i \in 1..Len(asking') : asking'[i] = asking[i + 1]
      BY HeadTail DEF IInv, TypeOK, TakeQuestion, q
    <3>2. \A i, j \in 1..Len(asking') : asking'[i] = asking'[j] => i = j
      <4>1. \A i \in 1..Len(asking') : i \in Nat /\ i + 1 \in 1..Len(asking)
        BY <3>1
      <4>2. \A i, j \in 1..Len(asking) : asking[i] = asking[j] => i = j
        BY DEF IInv, TypeOK, Queued
      <4> QED BY <3>1, <4>1, <4>2
    <3>3. \A i \in 1..Len(asking') : asking'[i] \in Shakes \ {q} /\ dial[asking'[i]] =
         "asking"
      <4> SUFFICES ASSUME NEW i \in 1..Len(asking')
                   PROVE  asking'[i] \in Shakes \ {q} /\ dial[asking'[i]] = "asking"
        OBVIOUS
      <4>1. i + 1 \in 1..Len(asking) /\ i + 1 # 1 /\ 1 \in 1..Len(asking)
        BY <3>1
      <4>2. asking[i + 1] \in Shakes /\ asking[i + 1] # q
        BY <3>1, <4>1 DEF IInv, TypeOK, Queued
      <4>3. dial[asking[i + 1]] = "asking"
        BY <4>1, <4>2 DEF IInv, TypeOK, Queued
      <4> QED BY <3>1, <4>2, <4>3
    <3>4. ASSUME NEW d \in Shakes \ {q}, dial[d] = "asking"
          PROVE  \E i \in 1..Len(asking') : asking'[i] = d
      <4>1. PICK i \in 1..Len(asking) : asking[i] = d
        BY <3>4 DEF IInv, TypeOK, Queued
      <4>2. i # 1 /\ i - 1 \in 1..Len(asking') /\ asking'[i - 1] = asking[(i - 1) + 1]
        BY <4>1, <3>1
      <4>3. (i - 1) + 1 = i
        BY <4>1
      <4> QED BY <4>1, <4>2, <4>3
    <3> QED BY <1>0, <3>2, <3>3, <3>4 DEF Queued
  <2>2. asking' \in Seq(Shakes)
    BY HeadTail DEF IInv, TypeOK, TakeQuestion
  <2>3. question' \in Conns
    BY <1>0 DEF TakeQuestion, q, Shakes, Conns
  <2> QED BY <1>0, <2>1, <2>2, <2>3 DEF IInv, TypeOK, TakeQuestion, modeVars, shakeVars,
       dialVars, askVars, sessVars
<1>2. Turns'
  BY DEF IInv, TakeQuestion, Turns, Idle
<1>3. Dials'
  BY <1>0 DEF IInv, TypeOK, TakeQuestion, Dials, Ended, Turns, Idle, Shakes, Conns
<1>4. Held'
  BY <1>0 DEF IInv, TakeQuestion, Held, q, Shakes
<1>5. Own'
  BY <1>0 DEF IInv, TypeOK, TakeQuestion, Own, Turns, Dials, Ended, Idle, ConnOf
<1>6. GivenOwn'
  BY AuthAssumption DEF IInv, TypeOK, TakeQuestion, GivenOwn, Dials, Turns, Idle,
       Shakes, Conns, modeVars, sessVars
<1>7. Fresh'
  BY <1>0 DEF IInv, TypeOK, TakeQuestion, Fresh, Turns, Dials, Ended, Idle, Shakes,
       Conns, sessVars
<1>8. Over'
  BY AuthAssumption DEF IInv, TypeOK, TakeQuestion, Over, Turns, Idle, Fresh, Shakes,
       Conns, modeVars, sessVars
<1> QED BY <1>1, <1>2, <1>3, <1>4, <1>5, <1>6, <1>7, <1>8 DEF IInv

(* ChallengeFails keeps the invariant. *)
LEMMA ChallengeFailsStep ==
  ASSUME IInv, ChallengeFails
  PROVE  IInv'
<1>1. TypeOK'
  <2>1. Queued'
    BY DEF IInv, TypeOK, Queued, ChallengeFails, Fail, Shakes, Conns, modeVars,
         dialVars, askVars, sessVars
  <2>2. question' \in Conns
    BY AuthAssumption DEF ChallengeFails, Conns
  <2> QED BY <2>1, <2>2 DEF IInv, TypeOK, ChallengeFails, Fail, dialVars, askVars,
       sessVars, modeVars
<1>2. Turns'
  BY AuthAssumption DEF IInv, TypeOK, ChallengeFails, Fail, Turns, Idle, Shakes, Conns,
       modeVars, dialVars, askVars, sessVars
<1>3. Dials'
  BY AuthAssumption DEF IInv, TypeOK, ChallengeFails, Fail, Dials, Ended, Turns, Idle,
       Shakes, Conns, modeVars, dialVars, askVars, sessVars
<1>4. Held'
  BY AuthAssumption DEF IInv, TypeOK, ChallengeFails, Fail, Held, Shakes, Conns,
       modeVars, dialVars, askVars, sessVars
<1>5. Own'
  BY AuthAssumption DEF IInv, TypeOK, ChallengeFails, Fail, Own, Ended, Idle, ConnOf,
       Turns, Dials, Shakes, Conns, modeVars, dialVars, askVars, sessVars
<1>6. GivenOwn'
  BY AuthAssumption DEF IInv, TypeOK, ChallengeFails, Fail, GivenOwn, Dials, Turns,
       Idle, Shakes, Conns, modeVars, dialVars, askVars, sessVars
<1>7. Fresh'
  BY AuthAssumption DEF IInv, TypeOK, ChallengeFails, Fail, Fresh, Ended, Idle, Turns,
       Dials, Shakes, Conns, modeVars, dialVars, askVars, sessVars
<1>8. Over'
  BY AuthAssumption DEF IInv, TypeOK, ChallengeFails, Fail, Over, Turns, Idle, Fresh,
       Shakes, Conns, modeVars, dialVars, askVars, sessVars
<1> QED BY <1>1, <1>2, <1>3, <1>4, <1>5, <1>6, <1>7, <1>8 DEF IInv

(* Answer keeps the invariant. *)
LEMMA AnswerStep ==
  ASSUME IInv, Answer
  PROVE  IInv'
<1>0. /\ question \in Shakes /\ dial[question] = "waiting" /\ dial'[question] = "dialling"
      /\ \A d \in Shakes \ {question} : dial'[d] = dial[d]
  BY DEF IInv, TypeOK, Answer, Held, Shakes, Conns
<1>at. shake \in Shakes /\ outcome[shake] = "open"
  BY DEF IInv, TypeOK, Answer, Turns, Idle, Conns
<1>out. /\ \A h \in Shakes \ {shake} : outcome'[h] = outcome[h]
        /\ \/ hpc' = "answered" /\ outcome' = outcome
           \/ hpc' = "accept" /\ outcome'[shake] = "failed"
  BY <1>at DEF IInv, TypeOK, Answer, Fail
<1>1. TypeOK'
  <2>1. Queued'
    <3>1. \A d \in Shakes : dial'[d] = "asking" <=> dial[d] = "asking"
      BY <1>0
    <3>2. asking' = asking /\ Queued
      BY DEF Answer, IInv, TypeOK
    <3> QED BY <3>1, <3>2 DEF Queued
  <2>2. question' \in Conns
    BY AuthAssumption DEF Answer, Conns
  <2>3. /\ outcome' \in [Shakes -> {"open", "failed", "served"}]
        /\ hpc' \in {"accept", "answered"}
    BY DEF IInv, TypeOK, Answer, Fail
  <2>4. unlocked' \in BOOLEAN
    BY DEF IInv, TypeOK, Answer, Fail
  <2> QED BY <2>1, <2>2, <2>3, <2>4 DEF IInv, TypeOK, Answer, sessVars, modeVars
<1>2. Turns'
  BY AuthAssumption DEF IInv, TypeOK, Answer, Fail, Turns, Idle, Shakes, Conns,
       modeVars, sessVars
<1>3. Dials'
  <2>1. /\ shake' = shake /\ connErr' = connErr /\ late' = late
        /\ hpc' # "final" /\ hpc' # "granted" /\ hpc' # "auth" /\ hpc # "auth"
    BY <1>out DEF Answer
  <2>2. \A d \in Shakes : dial[d] \in Ended \cup {"none"} => dial'[d] = dial[d]
    BY <1>0 DEF Ended
  <2>3. \A h \in Shakes : outcome'[h] = "served" => outcome[h] = "served"
    BY <1>out, <1>at
  <2> QED BY <2>1, <2>2, <2>3 DEF IInv, TypeOK, Dials, Ended
<1>4. Held'
  BY AuthAssumption DEF IInv, TypeOK, Answer, Fail, Held, Shakes, Conns, modeVars,
       sessVars
<1>5. Own'
  BY AuthAssumption DEF IInv, TypeOK, Answer, Fail, Own, Ended, Idle, ConnOf, Turns,
       Dials, Shakes, Conns, modeVars, sessVars
<1>6. GivenOwn'
  BY AuthAssumption DEF IInv, TypeOK, Answer, Fail, GivenOwn, Dials, Turns, Idle,
       Shakes, Conns, modeVars, sessVars
<1>7. Fresh'
  BY <1>0, <1>at, <1>out DEF IInv, TypeOK, Answer, Fresh, Turns, Dials, Ended, Idle,
       Shakes, Conns, sessVars
<1>8. Over'
  BY AuthAssumption DEF IInv, TypeOK, Answer, Fail, Over, Turns, Idle, Fresh, Shakes,
       Conns, modeVars, sessVars
<1> QED BY <1>1, <1>2, <1>3, <1>4, <1>5, <1>6, <1>7, <1>8 DEF IInv

(* CheckErr keeps the invariant. *)
LEMMA CheckErrStep ==
  ASSUME IInv, CheckErr
  PROVE  IInv'
<1>1. TypeOK'
  <2>1. Queued'
    BY DEF IInv, TypeOK, Queued, CheckErr, Fail, Return, Shakes, Conns, modeVars,
         dialVars, askVars, sessVars
  <2> QED BY <2>1, AuthAssumption DEF IInv, TypeOK, CheckErr, Fail, Return, Shakes,
       Conns, modeVars, dialVars, askVars, sessVars
<1>2. Turns'
  BY AuthAssumption DEF IInv, TypeOK, CheckErr, Fail, Return, Turns, Idle, Shakes,
       Conns, modeVars, dialVars, askVars, sessVars
<1>3. Dials'
  BY AuthAssumption DEF IInv, TypeOK, CheckErr, Fail, Return, Dials, Ended, Turns, Idle,
       Shakes, Conns, modeVars, dialVars, askVars, sessVars
<1>4. Held'
  BY AuthAssumption DEF IInv, TypeOK, CheckErr, Fail, Return, Held, Shakes, Conns,
       modeVars, dialVars, askVars, sessVars
<1>5. Own'
  BY AuthAssumption DEF IInv, TypeOK, CheckErr, Fail, Return, Own, Ended, Idle, ConnOf,
       Turns, Dials, Shakes, Conns, modeVars, dialVars, askVars, sessVars
<1>6. GivenOwn'
  BY AuthAssumption DEF IInv, TypeOK, CheckErr, Fail, Return, GivenOwn, Dials, Turns,
       Idle, Shakes, Conns, modeVars, dialVars, askVars, sessVars
<1>7. Fresh'
  BY AuthAssumption DEF IInv, TypeOK, CheckErr, Fail, Return, Fresh, Ended, Idle, Turns,
       Dials, Shakes, Conns, modeVars, dialVars, askVars, sessVars
<1>8. Over'
  BY AuthAssumption DEF IInv, TypeOK, CheckErr, Fail, Return, Over, Turns, Idle, Fresh,
       Shakes, Conns, modeVars, dialVars, askVars, sessVars
<1> QED BY <1>1, <1>2, <1>3, <1>4, <1>5, <1>6, <1>7, <1>8 DEF IInv

(* Established keeps the invariant. *)
LEMMA EstablishedStep ==
  ASSUME IInv, Established
  PROVE  IInv'
<1>1. TypeOK'
  <2>1. Queued'
    BY DEF IInv, TypeOK, Queued, Established, Fail, Return, Shakes, Conns, modeVars,
         dialVars, askVars, sessVars
  <2> QED BY <2>1, AuthAssumption DEF IInv, TypeOK, Established, Fail, Return, Shakes,
       Conns, modeVars, dialVars, askVars, sessVars
<1>2. Turns'
  BY AuthAssumption DEF IInv, TypeOK, Established, Fail, Return, Turns, Idle, Shakes,
       Conns, modeVars, dialVars, askVars, sessVars
<1>3. Dials'
  BY AuthAssumption DEF IInv, TypeOK, Established, Fail, Return, Dials, Ended, Turns,
       Idle, Shakes, Conns, modeVars, dialVars, askVars, sessVars
<1>4. Held'
  BY AuthAssumption DEF IInv, TypeOK, Established, Fail, Return, Held, Shakes, Conns,
       modeVars, dialVars, askVars, sessVars
<1>5. Own'
  BY AuthAssumption DEF IInv, TypeOK, Established, Fail, Return, Own, Ended, Idle,
       ConnOf, Turns, Dials, Shakes, Conns, modeVars, dialVars, askVars, sessVars
<1>6. GivenOwn'
  BY AuthAssumption DEF IInv, TypeOK, Established, Fail, Return, GivenOwn, Dials, Turns,
       Idle, Shakes, Conns, modeVars, dialVars, askVars, sessVars
<1>7. Fresh'
  BY AuthAssumption DEF IInv, TypeOK, Established, Fail, Return, Fresh, Ended, Idle,
       Turns, Dials, Shakes, Conns, modeVars, dialVars, askVars, sessVars
<1>8. Over'
  BY AuthAssumption DEF IInv, TypeOK, Established, Fail, Return, Over, Turns, Idle,
       Fresh, Shakes, Conns, modeVars, dialVars, askVars, sessVars
<1> QED BY <1>1, <1>2, <1>3, <1>4, <1>5, <1>6, <1>7, <1>8 DEF IInv

(* FinalChallenge keeps the invariant. *)
LEMMA FinalChallengeStep ==
  ASSUME IInv, FinalChallenge
  PROVE  IInv'
<1>1. TypeOK'
  <2>1. Queued'
    BY DEF IInv, TypeOK, Queued, FinalChallenge, Fail, Shakes, Conns, modeVars,
         dialVars, askVars, sessVars
  <2> QED BY <2>1, AuthAssumption DEF IInv, TypeOK, FinalChallenge, Fail, Shakes, Conns,
       modeVars, dialVars, askVars, sessVars
<1>2. Turns'
  BY AuthAssumption DEF IInv, TypeOK, FinalChallenge, Fail, Turns, Idle, Shakes, Conns,
       modeVars, dialVars, askVars, sessVars
<1>3. Dials'
  BY AuthAssumption DEF IInv, TypeOK, FinalChallenge, Fail, Dials, Ended, Turns, Idle,
       Shakes, Conns, modeVars, dialVars, askVars, sessVars
<1>4. Held'
  BY AuthAssumption DEF IInv, TypeOK, FinalChallenge, Fail, Held, Shakes, Conns,
       modeVars, dialVars, askVars, sessVars
<1>5. Own'
  BY AuthAssumption DEF IInv, TypeOK, FinalChallenge, Fail, Own, Ended, Idle, ConnOf,
       Turns, Dials, Shakes, Conns, modeVars, dialVars, askVars, sessVars
<1>6. GivenOwn'
  BY AuthAssumption DEF IInv, TypeOK, FinalChallenge, Fail, GivenOwn, Dials, Turns,
       Idle, Shakes, Conns, modeVars, dialVars, askVars, sessVars
<1>7. Fresh'
  BY AuthAssumption DEF IInv, TypeOK, FinalChallenge, Fail, Fresh, Ended, Idle, Turns,
       Dials, Shakes, Conns, modeVars, dialVars, askVars, sessVars
<1>8. Over'
  BY AuthAssumption DEF IInv, TypeOK, FinalChallenge, Fail, Over, Turns, Idle, Fresh,
       Shakes, Conns, modeVars, dialVars, askVars, sessVars
<1> QED BY <1>1, <1>2, <1>3, <1>4, <1>5, <1>6, <1>7, <1>8 DEF IInv

(* Serve keeps the invariant. *)
LEMMA ServeStep ==
  ASSUME IInv, Serve
  PROVE  IInv'
<1>0. /\ shake \in Shakes /\ outcome[shake] = "open" /\ given[shake] = 0
      /\ dial[shake] = "established" /\ ~connErr[shake]
      /\ given'[shake] = proxyConn /\ outcome'[shake] = "served"
      /\ \A h \in Shakes \ {shake} : given'[h] = given[h] /\ outcome'[h] = outcome[h]
      /\ hpc' \in Idle
  BY DEF IInv, TypeOK, Serve, Turns, Dials, Fresh, Idle
<1>own. \E d \in {shake} \cup late : proxyConn = ConnOf(d)
  BY <1>0 DEF IInv, Own, Serve, Idle, Ended
<1>1. TypeOK'
  <2>1. Queued'
    BY DEF IInv, TypeOK, Queued, Serve, Shakes, Conns, modeVars, dialVars, askVars
  <2>2. hpc' \in {"accept", "crashed"}
    BY DEF Serve
  <2>3. given' \in [Shakes -> Conns] /\ live' \in SUBSET Shakes
    BY <1>0 DEF IInv, TypeOK, Serve
  <2>4. outcome' \in [Shakes -> {"open", "failed", "served"}]
    BY DEF IInv, TypeOK, Serve
  <2> QED BY <2>1, <2>2, <2>3, <2>4 DEF IInv, TypeOK, Serve, dialVars, askVars, modeVars
<1>2. Turns'
  BY AuthAssumption DEF IInv, TypeOK, Serve, Turns, Idle, Shakes, Conns, modeVars,
       dialVars, askVars
<1>3. Dials'
  BY AuthAssumption DEF IInv, TypeOK, Serve, Dials, Ended, Turns, Idle, Shakes, Conns,
       modeVars, dialVars, askVars
<1>4. Held'
  BY AuthAssumption DEF IInv, TypeOK, Serve, Held, Shakes, Conns, modeVars, dialVars,
       askVars
<1>5. Own'
  BY AuthAssumption DEF IInv, TypeOK, Serve, Own, Ended, Idle, ConnOf, Turns, Dials,
       Shakes, Conns, modeVars, dialVars, askVars
<1>6. GivenOwn'
  BY <1>0, <1>own DEF IInv, TypeOK, Serve, GivenOwn, ConnOf, dialVars
<1>7. Fresh'
  <2>1. proxyConn # 0 => dial[proxyConn] \in Ended /\ \A h \in Shakes : given[h] #
       proxyConn
    BY <1>0, <1>own DEF IInv, TypeOK, Serve, Fresh, Dials, ConnOf, Idle, Ended
  <2> QED BY <1>0, <2>1 DEF IInv, TypeOK, Serve, Fresh, dialVars
<1>8. Over'
  BY AuthAssumption DEF IInv, TypeOK, Serve, Over, Turns, Idle, Fresh, Shakes, Conns,
       modeVars, dialVars, askVars
<1> QED BY <1>1, <1>2, <1>3, <1>4, <1>5, <1>6, <1>7, <1>8 DEF IInv

(* DialAsk keeps the invariant. *)
LEMMA DialAskStep ==
  ASSUME IInv, NEW d \in Shakes, DialAsk(d)
  PROVE  IInv'
<1>0. \A e \in Shakes : dial'[e] = dial[e] \/ (dial[e] = "dialling" /\ dial'[e] =
     "asking")
  BY DEF IInv, TypeOK, DialAsk
<1>1. TypeOK'
  <2>1. Queued'
    <3>1. /\ asking \in Seq(Shakes) /\ Len(asking) \in Nat /\ asking' = Append(asking, d)
          /\ Len(asking') = Len(asking) + 1 /\ asking'[Len(asking) + 1] = d
          /\ \A i \in 1..Len(asking) : asking'[i] = asking[i]
      BY AppendLast DEF IInv, TypeOK, DialAsk
    <3>2. \A i \in 1..Len(asking) : asking[i] # d
      BY DEF IInv, TypeOK, Queued, DialAsk
    <3>3. \A i, j \in 1..Len(asking') : asking'[i] = asking'[j] => i = j
      <4>1. \A i \in 1..Len(asking') : i \in 1..Len(asking) \/ i = Len(asking) + 1
        BY <3>1
      <4>2. \A i, j \in 1..Len(asking) : asking[i] = asking[j] => i = j
        BY DEF IInv, TypeOK, Queued
      <4> QED BY <3>1, <3>2, <4>1, <4>2
    <3>4. ASSUME NEW e \in Shakes
          PROVE  dial'[e] = "asking" <=> \E i \in 1..Len(asking') : asking'[i] = e
      <4>1. CASE e = d
        <5>1. dial'[e] = "asking"
          BY <4>1 DEF IInv, TypeOK, DialAsk
        <5> QED BY <3>1, <4>1, <5>1
      <4>2. CASE e # d
        <5>1. dial'[e] = dial[e]
          BY <4>2 DEF IInv, TypeOK, DialAsk
        <5>2. dial[e] = "asking" <=> \E i \in 1..Len(asking) : asking[i] = e
          BY DEF IInv, TypeOK, Queued
        <5> QED BY <3>1, <4>2, <5>1, <5>2
      <4> QED BY <4>1, <4>2
    <3> QED BY <3>3, <3>4 DEF Queued
  <2> QED BY <2>1, AuthAssumption DEF IInv, TypeOK, DialAsk, Shakes, Conns, modeVars,
       shakeVars, sessVars
<1>2. Turns'
  BY AuthAssumption DEF IInv, TypeOK, DialAsk, Turns, Idle, Shakes, Conns, modeVars,
       shakeVars, sessVars
<1>3. Dials'
  BY AuthAssumption DEF IInv, TypeOK, DialAsk, Dials, Ended, Turns, Idle, Shakes, Conns,
       modeVars, shakeVars, sessVars
<1>4. Held'
  BY AuthAssumption DEF IInv, TypeOK, DialAsk, Held, Shakes, Conns, modeVars, shakeVars,
       sessVars
<1>5. Own'
  BY AuthAssumption DEF IInv, TypeOK, DialAsk, Own, Ended, Idle, ConnOf, Turns, Dials,
       Shakes, Conns, modeVars, shakeVars, sessVars
<1>6. GivenOwn'
  BY AuthAssumption DEF IInv, TypeOK, DialAsk, GivenOwn, Dials, Turns, Idle, Shakes,
       Conns, modeVars, shakeVars, sessVars
<1>7. Fresh'
  BY <1>0 DEF IInv, TypeOK, DialAsk, Fresh, Ended, Turns, Idle, Shakes, Conns,
       shakeVars, sessVars
<1>8. Over'
  BY AuthAssumption DEF IInv, TypeOK, DialAsk, Over, Turns, Idle, Fresh, Shakes, Conns,
       modeVars, shakeVars, sessVars
<1> QED BY <1>1, <1>2, <1>3, <1>4, <1>5, <1>6, <1>7, <1>8 DEF IInv

(* DialEnds keeps the invariant. *)
LEMMA DialEndsStep ==
  ASSUME IInv, NEW d \in Shakes, DialEnds(d)
  PROVE  IInv'
<1>0. /\ dial[d] = "dialling" /\ d \notin late /\ dial'[d] = "assigned"
      /\ \A e \in Shakes \ {d} : dial'[e] = dial[e] /\ connErr'[e] = connErr[e]
      /\ late \subseteq late' /\ outcome' = outcome /\ given' = given
  BY DEF IInv, TypeOK, DialEnds, Dials, Ended, shakeVars, sessVars
<1>1. TypeOK'
  <2>1. Queued'
    BY DEF IInv, TypeOK, Queued, DialEnds, Shakes, Conns, modeVars, shakeVars, askVars,
         sessVars
  <2>2. proxyConn' \in Conns
    BY AuthAssumption DEF DialEnds, Conns, Shakes
  <2>3. connErr' \in [Shakes -> BOOLEAN]
    BY DEF IInv, TypeOK, DialEnds
  <2>4. late' \in SUBSET Shakes
    BY DEF IInv, TypeOK, DialEnds
  <2> QED BY <2>1, <2>2, <2>3, <2>4 DEF IInv, TypeOK, DialEnds, shakeVars, askVars,
       sessVars, modeVars
<1>2. Turns'
  BY AuthAssumption DEF IInv, TypeOK, DialEnds, Turns, Idle, Shakes, Conns, modeVars,
       shakeVars, askVars, sessVars
<1>3. Dials'
  <2>1. \A e \in late' : dial'[e] \in Ended
    BY <1>0 DEF IInv, TypeOK, DialEnds, Dials, Ended
  <2>2. d <= shake /\ ~(d = shake /\ hpc \in {"auth", "granted"})
    BY <1>0 DEF IInv, TypeOK, Dials, Shakes, Conns
  <2>3. \A e \in Shakes : connErr'[e] => dial'[e] \in Ended
    BY <1>0 DEF IInv, TypeOK, Dials, Ended
  <2>4. \A e \in Shakes : outcome[e] = "served" => dial'[e] = "established" /\
       ~connErr'[e]
    BY <1>0 DEF IInv, TypeOK, Dials
  <2>5. hpc \notin Idle => shake \in Shakes
    BY DEF IInv, Turns
  <2>6. hpc = "final" => connErr'[shake] \/ dial'[shake] = "established"
    BY <1>0, <2>5 DEF IInv, TypeOK, Dials, Ended, Idle
  <2>7. hpc = "granted" => dial'[shake] = "established" /\ ~connErr'[shake]
    BY <1>0, <2>2, <2>5 DEF IInv, TypeOK, Dials, Idle
  <2>8. \A e \in Shakes : e > shake \/ (e = shake /\ hpc = "auth") => dial'[e] = "none"
    BY <1>0, <2>2 DEF IInv, TypeOK, Dials, Shakes, Conns
  <2> QED BY <1>0, <2>1, <2>3, <2>4, <2>6, <2>7, <2>8 DEF Dials, DialEnds, shakeVars
<1>4. Held'
  BY AuthAssumption DEF IInv, TypeOK, DialEnds, Held, Shakes, Conns, modeVars,
       shakeVars, askVars, sessVars
<1>5. Own'
  <2>1. proxyConn' = ConnOf(d)'
    BY <1>0 DEF IInv, TypeOK, DialEnds, Dials, Ended, ConnOf
  <2>2. hpc \notin Idle /\ d # shake => d \in late'
    BY <1>0 DEF IInv, TypeOK, DialEnds, Turns, Dials, Shakes, Conns
  <2> QED BY <1>0, <2>1, <2>2 DEF Own, DialEnds, shakeVars
<1>6. GivenOwn'
  <2> SUFFICES ASSUME NEW h \in Shakes, outcome[h] = "served", given[h] # h
               PROVE  \E e \in late' : given[h] = IF connErr'[e] THEN 0 ELSE e
    BY <1>0 DEF GivenOwn
  <2>1. PICK e \in late : given[h] = IF connErr[e] THEN 0 ELSE e
    BY DEF IInv, GivenOwn
  <2>2. e \in late' /\ connErr'[e] = connErr[e]
    BY <1>0 DEF IInv, TypeOK
  <2> QED BY <2>1, <2>2
<1>7. Fresh'
  <2>1. \A h \in Shakes : given[h] # 0 =>
          /\ given[h] # d /\ dial'[given[h]] \in Ended /\ outcome[h] = "served"
    BY <1>0 DEF IInv, TypeOK, Fresh, Ended, Shakes, Conns
  <2>2. proxyConn' \in {0, d}
    BY DEF DialEnds
  <2>3. \A g, h \in Shakes : g # h /\ given[g] = given[h] => given[g] = 0
    BY DEF IInv, Fresh
  <2>4. d # 0
    BY DEF Shakes
  <2> QED BY <1>0, <2>1, <2>2, <2>3, <2>4 DEF Fresh
<1>8. Over'
  BY AuthAssumption DEF IInv, TypeOK, DialEnds, Over, Turns, Idle, Fresh, Shakes, Conns,
       modeVars, shakeVars, askVars, sessVars
<1> QED BY <1>1, <1>2, <1>3, <1>4, <1>5, <1>6, <1>7, <1>8 DEF IInv

(* CloseEstablished keeps the invariant. *)
LEMMA CloseEstablishedStep ==
  ASSUME IInv, NEW d \in Shakes, CloseEstablished(d)
  PROVE  IInv'
<1>0. \A e \in Shakes : dial'[e] \in Ended <=> dial[e] \in Ended
  BY DEF IInv, TypeOK, CloseEstablished, Ended
<1>1. TypeOK'
  <2>1. Queued'
    BY DEF IInv, TypeOK, Queued, CloseEstablished, Shakes, Conns, modeVars, shakeVars,
         askVars, sessVars
  <2> QED BY <2>1, AuthAssumption DEF IInv, TypeOK, CloseEstablished, Shakes, Conns,
       modeVars, shakeVars, askVars, sessVars
<1>2. Turns'
  BY AuthAssumption DEF IInv, TypeOK, CloseEstablished, Turns, Idle, Shakes, Conns,
       modeVars, shakeVars, askVars, sessVars
<1>3. Dials'
  BY AuthAssumption DEF IInv, TypeOK, CloseEstablished, Dials, Ended, Turns, Idle,
       Shakes, Conns, modeVars, shakeVars, askVars, sessVars
<1>4. Held'
  BY AuthAssumption DEF IInv, TypeOK, CloseEstablished, Held, Shakes, Conns, modeVars,
       shakeVars, askVars, sessVars
<1>5. Own'
  BY AuthAssumption DEF IInv, TypeOK, CloseEstablished, Own, Ended, Idle, ConnOf, Turns,
       Dials, Shakes, Conns, modeVars, shakeVars, askVars, sessVars
<1>6. GivenOwn'
  BY AuthAssumption DEF IInv, TypeOK, CloseEstablished, GivenOwn, Dials, Turns, Idle,
       Shakes, Conns, modeVars, shakeVars, askVars, sessVars
<1>7. Fresh'
  BY <1>0 DEF IInv, TypeOK, CloseEstablished, Fresh, Turns, Shakes, Conns, shakeVars,
       sessVars
<1>8. Over'
  BY AuthAssumption DEF IInv, TypeOK, CloseEstablished, Over, Turns, Idle, Fresh,
       Shakes, Conns, modeVars, shakeVars, askVars, sessVars
<1> QED BY <1>1, <1>2, <1>3, <1>4, <1>5, <1>6, <1>7, <1>8 DEF IInv

(* SessionEnds keeps the invariant. *)
LEMMA SessionEndsStep ==
  ASSUME IInv, NEW d \in Shakes, SessionEnds(d)
  PROVE  IInv'
<1>1. TypeOK'
  <2>1. Queued'
    BY DEF IInv, TypeOK, Queued, SessionEnds, Shakes, Conns, modeVars, shakeVars,
         dialVars, askVars
  <2>2. live' \in SUBSET Shakes /\ closed' \in SUBSET Conns
    BY DEF IInv, TypeOK, SessionEnds
  <2> QED BY <2>1, <2>2 DEF IInv, TypeOK, SessionEnds, modeVars, shakeVars, dialVars,
       askVars
<1>2. Turns'
  BY AuthAssumption DEF IInv, TypeOK, SessionEnds, Turns, Idle, Shakes, Conns, modeVars,
       shakeVars, dialVars, askVars
<1>3. Dials'
  BY AuthAssumption DEF IInv, TypeOK, SessionEnds, Dials, Ended, Turns, Idle, Shakes,
       Conns, modeVars, shakeVars, dialVars, askVars
<1>4. Held'
  BY AuthAssumption DEF IInv, TypeOK, SessionEnds, Held, Shakes, Conns, modeVars,
       shakeVars, dialVars, askVars
<1>5. Own'
  BY AuthAssumption DEF IInv, TypeOK, SessionEnds, Own, Ended, Idle, ConnOf, Turns,
       Dials, Shakes, Conns, modeVars, shakeVars, dialVars, askVars
<1>6. GivenOwn'
  BY AuthAssumption DEF IInv, TypeOK, SessionEnds, GivenOwn, Dials, Turns, Idle, Shakes,
       Conns, modeVars, shakeVars, dialVars, askVars
<1>7. Fresh'
  BY AuthAssumption DEF IInv, TypeOK, SessionEnds, Fresh, Ended, Idle, Turns, Dials,
       Shakes, Conns, modeVars, shakeVars, dialVars, askVars
<1>8. Over'
  BY AuthAssumption DEF IInv, TypeOK, SessionEnds, Over, Turns, Idle, Fresh, Shakes,
       Conns, modeVars, shakeVars, dialVars, askVars
<1> QED BY <1>1, <1>2, <1>3, <1>4, <1>5, <1>6, <1>7, <1>8 DEF IInv

(* The invariant holds throughout.                                         *)
THEOREM Invariant == Spec => []IInv
<1>1. IInv /\ [Next]_vars => IInv'
  <2> SUFFICES ASSUME IInv, [Next]_vars PROVE IInv'
    OBVIOUS
  <2>1. CASE Accept \/ Handshake
    BY <2>1, AcceptStep, ClientLeavesStep, StartCallbackStep, TakeQuestionStep,
       ChallengeFailsStep, AnswerStep, CheckErrStep, EstablishedStep,
       FinalChallengeStep, ServeStep DEF Handshake
  <2>2. CASE \E d \in Shakes : Dial(d) \/ SessionEnds(d)
    BY <2>2, DialAskStep, DialEndsStep, CloseEstablishedStep, SessionEndsStep DEF Dial
  <2>3. CASE UNCHANGED vars
    BY <2>3 DEF vars, modeVars, shakeVars, dialVars, askVars, sessVars, IInv, TypeOK,
       Queued, Turns, Dials, Held, Own, GivenOwn, Fresh, Over, ConnOf
  <2> QED BY <2>1, <2>2, <2>3 DEF Next
<1> QED BY InitIInv, <1>1, PTL DEF Spec

(* TypeOK: every state of the handshakes is one the code can be in, and    *)
(* the dials that wait on the channel are the ones queued on it.           *)
THEOREM Types == Spec => []TypeOK
BY Invariant, PTL DEF IInv

(* GivenOwn: proxyConn (proxy.go:99, :169) is the client's own connection  *)
(* when its session starts, unless the dial of a failed handshake came     *)
(* late.                                                                   *)
THEOREM Owned == Spec => []GivenOwn
BY Invariant, PTL DEF IInv

(* AskedOwn: nobody answers a question of a client who is logged in.       *)
THEOREM Asked == Spec => []AskedOwn
<1>1. IInv => AskedOwn
  BY DEF IInv, TypeOK, AskedOwn, Held, Turns, Dials, Ended, Shakes, Conns
<1> QED BY Invariant, <1>1, PTL

(* SessionsApart: no connection is given twice, and none is closed while   *)
(* the session it was given to goes on (proxy.go:169, :191).               *)
THEOREM Apart == Spec => []SessionsApart
<1>1. IInv => SessionsApart
  BY DEF IInv, TypeOK, SessionsApart, Fresh, Over, Shakes, Conns
<1> QED BY Invariant, <1>1, PTL

-----------------------------------------------------------------------------
(***************************************************************************)
(* What HandshakeEnds rests on, and what a failed handshake costs: a       *)
(* second invariant, kept by the steps that keep the first.                *)
(***************************************************************************)

(* Once the callback has begun, its dial has; only the acceptor, while it  *)
(* puts the question, makes that dial wait for an answer.                  *)
Attended ==
  hpc \in {"select", "challenge", "answered"} =>
    dial[shake] # "none" /\ (dial[shake] = "waiting" => question = shake)

(* Late dials are those of failed handshakes.                              *)
Late == \A d \in late : outcome[d] = "failed"

(* A session started without a connection was the last.                    *)
Nil ==
  \A h \in Shakes : outcome[h] = "served" /\ given[h] = 0 => hpc = "crashed" /\ h = shake

AInv == Attended /\ Late /\ Nil

(* A step of the acceptor keeps it.                                        *)
LEMMA AcceptorKeeps ==
  ASSUME IInv, AInv, hpc # "crashed", Accept \/ Handshake
  PROVE  AInv'
<1>1. /\ shake' \in Conns /\ late' = late /\ connErr' = connErr
      /\ outcome \in [Shakes -> {"open", "failed", "served"}]
      /\ dial \in [Shakes ->
                     {"none", "dialling", "asking", "waiting", "assigned", "established"}]
      /\ late \in SUBSET Shakes /\ given \in [Shakes -> Conns]
  <2>1. connErr' = connErr /\ late' = late
    BY DEF Accept, Handshake, ClientLeaves, StartCallback, TakeQuestion, ChallengeFails,
       Answer, CheckErr, Established, FinalChallenge, Serve, dialVars
  <2>2. shake' \in Conns
    BY AcceptStep, ClientLeavesStep, StartCallbackStep, TakeQuestionStep,
       ChallengeFailsStep, AnswerStep, CheckErrStep, EstablishedStep,
       FinalChallengeStep, ServeStep DEF Handshake, IInv, TypeOK
  <2> QED BY <2>1, <2>2 DEF IInv, TypeOK
<1>2. /\ hpc \notin Idle => shake \in Shakes /\ outcome[shake] = "open"
      /\ \A h \in Shakes : outcome[h] = "served" => given[h] # 0
      /\ \A d \in late : outcome[d] = "failed"
  BY DEF IInv, Turns, AInv, Nil, Late
<1>3. CASE Accept
  <2>1. UNCHANGED <<outcome, given>> /\ hpc' = "auth"
    BY <1>3 DEF Accept, sessVars
  <2> QED BY <1>1, <1>2, <2>1 DEF AInv, Attended, Late, Nil
<1>4. CASE ClientLeaves \/ ChallengeFails
  <2>1. /\ given' = given /\ hpc' = "accept" /\ shake \in Shakes
        /\ outcome' = [outcome EXCEPT ![shake] = "failed"]
    BY <1>2, <1>4 DEF ClientLeaves, ChallengeFails, Fail, sessVars, Idle
  <2> QED BY <1>1, <1>2, <2>1 DEF AInv, Attended, Late, Nil
<1>5. CASE StartCallback
  <2>1. /\ UNCHANGED <<outcome, given, shake>> /\ shake \in Shakes
        /\ dial'[shake] = "dialling"
    BY <1>1, <1>2, <1>5 DEF StartCallback, sessVars, Idle
  <2> QED BY <1>1, <1>2, <2>1 DEF AInv, Attended, Late, Nil
<1>6. CASE TakeQuestion
  <2>1. /\ UNCHANGED <<outcome, given, shake>> /\ question' = Head(asking)
        /\ dial' = [dial EXCEPT ![Head(asking)] = "waiting"]
        /\ shake \in Shakes /\ hpc = "select" /\ asking # <<>>
    BY <1>2, <1>6 DEF TakeQuestion, sessVars, Idle
  <2>2. question = 0 /\ 0 \notin Shakes /\ Head(asking) \in Shakes
    <3>1. asking \in Seq(Shakes) /\ question = 0
      BY <2>1 DEF IInv, TypeOK, Held
    <3>2. 0 \notin Shakes
      BY DEF Shakes
    <3> QED BY <2>1, <3>1, <3>2, HeadTail
  <2>3. Attended'
    BY <1>1, <2>1, <2>2 DEF AInv, Attended
  <2> QED BY <1>1, <1>2, <2>1, <2>3 DEF AInv, Late, Nil
<1>7. CASE Answer
  <2>1. /\ UNCHANGED <<given, shake>> /\ shake \in Shakes /\ hpc = "challenge"
        /\ dial' = [dial EXCEPT ![question] = "dialling"] /\ question' = 0
        /\ \/ hpc' = "answered" /\ outcome' = outcome
           \/ hpc' = "accept" /\ outcome' = [outcome EXCEPT ![shake] = "failed"]
    BY <1>2, <1>7 DEF Answer, Fail, sessVars, Idle
  <2>2. question \in Shakes
    BY <2>1 DEF IInv, TypeOK, Held, Shakes, Conns
  <2>3. Attended'
    BY <1>1, <2>1, <2>2 DEF AInv, Attended
  <2> QED BY <1>1, <1>2, <2>1, <2>3 DEF AInv, Late, Nil
<1>8. CASE CheckErr \/ Established \/ FinalChallenge
  <2>1. /\ UNCHANGED <<given, shake, dial, question>> /\ shake \in Shakes
        /\ \/ hpc' \in {"select", "final", "granted"} /\ outcome' = outcome
           \/ hpc' = "accept" /\ outcome' = [outcome EXCEPT ![shake] = "failed"]
    BY <1>2, <1>8 DEF CheckErr, Established, FinalChallenge, Return, Fail, dialVars,
       sessVars, Idle
  <2>2. hpc' = "select" => hpc = "answered"
    BY <1>8 DEF CheckErr, Established, FinalChallenge, Return, Fail
  <2> QED BY <1>1, <1>2, <2>1, <2>2 DEF AInv, Attended, Late, Nil
<1>9. CASE Serve
  <2>1. /\ given' = [given EXCEPT ![shake] = proxyConn] /\ shake' = shake
        /\ outcome' = [outcome EXCEPT ![shake] = "served"] /\ shake \in Shakes
        /\ hpc' = (IF proxyConn = 0 THEN "crashed" ELSE "accept")
        /\ outcome[shake] = "open"
    BY <1>2, <1>9 DEF Serve, Idle
  <2> QED BY <1>1, <1>2, <2>1 DEF AInv, Attended, Late, Nil, Idle
<1> QED BY <1>3, <1>4, <1>5, <1>6, <1>7, <1>8, <1>9 DEF Handshake

(* A step of a dial or the end of a session keeps it.                      *)
LEMMA OthersKeep ==
  ASSUME IInv, AInv, NEW d \in Shakes, Dial(d) \/ SessionEnds(d)
  PROVE  AInv'
<1>1. /\ UNCHANGED <<hpc, shake, question, outcome, given>>
      /\ late' \subseteq late \cup {d}
      /\ d \in late' => d \in late \/ outcome[d] = "failed"
  BY DEF Dial, DialAsk, DialEnds, CloseEstablished, SessionEnds, shakeVars, dialVars,
     sessVars
<1>2. dial' = dial
        \/ \E q \in {"asking", "assigned", "established"} : dial' = [dial EXCEPT ![d] = q]
  BY DEF Dial, DialAsk, DialEnds, CloseEstablished, SessionEnds, dialVars
<1>3. \A e \in Shakes : dial'[e] = dial[e] \/ dial'[e] \notin {"none", "waiting"}
  BY <1>2 DEF IInv, TypeOK
<1>4. hpc \in {"select", "challenge", "answered"} => shake \in Shakes
  BY DEF IInv, Turns, Idle
<1> QED BY <1>1, <1>3, <1>4 DEF AInv, Attended, Late, Nil

(* The second invariant holds throughout.                                  *)
THEOREM Attention == Spec => []AInv
<1>1. Init => AInv
  BY DEF Init, AInv, Attended, Late, Nil
<1>2. IInv /\ AInv /\ [Next]_vars => AInv'
  <2> SUFFICES ASSUME IInv, AInv, [Next]_vars PROVE AInv'
    OBVIOUS
  <2>1. CASE UNCHANGED vars
    BY <2>1 DEF AInv, Attended, Late, Nil, vars, shakeVars, dialVars, sessVars
  <2> QED BY <2>1, AcceptorKeeps, OthersKeep DEF Next
<1> QED BY Invariant, <1>1, <1>2, PTL DEF Spec

(* SelectAwaited: the acceptor never waits for a dial whose question was   *)
(* taken and not answered (proxy.go:118-136).                              *)
THEOREM Awaited == Spec => []SelectAwaited
<1>1. ASSUME IInv, AInv PROVE SelectAwaited
  <2> SUFFICES ASSUME hpc = "select", asking = <<>>
               PROVE  dial[shake] \in {"dialling", "assigned", "established"}
    BY DEF SelectAwaited
  <2>1. shake \in Shakes /\ question = 0
    BY <1>1 DEF IInv, Turns, Idle, Held
  <2>2. dial[shake] # "asking"
    BY <1>1, <2>1 DEF IInv, TypeOK, Queued
  <2>3. dial[shake] # "none" /\ dial[shake] # "waiting"
    BY <1>1, <2>1 DEF AInv, Attended, Shakes
  <2> QED BY <1>1, <2>1, <2>2, <2>3 DEF IInv, TypeOK
<1> QED BY Invariant, Attention, <1>1, PTL

(* LostBounded: a failed handshake costs one connection at the most        *)
(* (proxy.go:103).  A connection is lost to its own client's failure, or   *)
(* to the late dial of another failed handshake, whose connection, or nil, *)
(* its client was given in its place and nobody else was.                  *)
THEOREM Bounded == Spec => []LostBounded
<1>1. ASSUME IInv, AInv PROVE LostBounded
  <2> DEFINE Failed == {h \in Shakes : outcome[h] = "failed"}
             Cause(d) == IF outcome[d] = "failed" THEN d
                         ELSE CHOOSE e \in late : given[d] = ConnOf(e)
             F == [d \in Lost |-> Cause(d)]
  <2>1. ASSUME NEW d \in Lost, outcome[d] # "failed"
        PROVE  /\ Cause(d) \in late /\ given[d] = ConnOf(Cause(d))
               /\ d \in Shakes /\ outcome[d] = "served"
    <3>1. d \in Shakes /\ outcome[d] = "served" /\ given[d] # d
      BY <1>1, <2>1 DEF Lost, IInv, TypeOK
    <3>2. \E e \in late : given[d] = ConnOf(e)
      BY <1>1, <3>1 DEF IInv, GivenOwn, ConnOf
    <3> QED BY <2>1, <3>1, <3>2
  <2>2. F \in [Lost -> Failed]
    <3> SUFFICES ASSUME NEW d \in Lost PROVE Cause(d) \in Failed
      OBVIOUS
    <3>1. CASE outcome[d] = "failed"
      BY <3>1 DEF Lost
    <3>2. CASE outcome[d] # "failed"
      <4>1. Cause(d) \in late
        BY <2>1, <3>2
      <4> HIDE DEF Cause
      <4> QED BY <1>1, <4>1 DEF IInv, TypeOK, AInv, Late
    <3> QED BY <3>1, <3>2
  <2>3. ASSUME NEW c \in Lost, NEW d \in Lost, F[c] = F[d]
        PROVE  c = d
    <3>1. Cause(c) = Cause(d)
      BY <2>3
    <3>2. CASE outcome[c] = "failed" /\ outcome[d] = "failed"
      BY <3>1, <3>2
    <3>3. ASSUME NEW a \in Lost, NEW b \in Lost, Cause(a) = Cause(b),
                 outcome[a] = "failed", outcome[b] # "failed"
          PROVE  FALSE
      <4>1. given[b] = ConnOf(a) /\ b \in Shakes
        BY <2>1, <3>3
      <4>2. ConnOf(a) = a /\ given[b] # a
        BY <4>1 DEF Lost, ConnOf
      <4> QED BY <4>1, <4>2
    <3>4. CASE outcome[c] # "failed" /\ outcome[d] # "failed"
      <4>1. /\ given[c] = given[d] /\ c \in Shakes /\ d \in Shakes
            /\ outcome[c] = "served" /\ outcome[d] = "served"
        BY <2>1, <3>1, <3>4
      <4>2. given[c] # 0 => c = d
        BY <1>1, <4>1 DEF IInv, Fresh
      <4>3. given[c] = 0 => c = shake /\ d = shake
        BY <1>1, <4>1 DEF AInv, Nil
      <4> QED BY <4>2, <4>3
    <3> QED BY <3>1, <3>2, <3>3, <3>4
  <2>4. F \in Injection(Lost, Failed)
    <3> HIDE DEF F
    <3> QED BY <2>2, <2>3, Fun_IsInj
  <2>5. IsFiniteSet(Failed)
    <3>1. IsFiniteSet(Shakes)
      BY AuthAssumption, FS_Interval DEF Shakes
    <3> QED BY <3>1, FS_Subset
  <2>6. Cardinality(Lost) <= Cardinality(Failed)
    <3> HIDE DEF F, Failed
    <3> QED BY <2>4, <2>5, FS_Injection
  <2> QED BY <2>6 DEF LostBounded
<1> QED BY Invariant, Attention, <1>1, PTL
=============================================================================
