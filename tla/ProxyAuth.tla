-------------------------------- MODULE ProxyAuth --------------------------------
(***************************************************************************)
(* How clients log in: RunProxy of internal/sshproxy/proxy.go and the      *)
(* authentication methods of cmd/nosshtradamus/main.go.                    *)
(*                                                                         *)
(*   acceptor   the loop of RunProxy, which takes one client after the     *)
(*              other through its handshake, KeyboardInteractiveCallback   *)
(*              included                                                   *)
(*   dial d     the goroutine the callback of handshake d starts: it logs  *)
(*              in to the target for that client, and may outlive it       *)
(*   session h  the goroutines started when handshake h has succeeded      *)
(*                                                                         *)
(* proxyConn is one variable for all handshakes, and ExtraQuestions one    *)
(* unbuffered channel for all dials; connErr and established belong to one *)
(* callback.  A connection is named by its dial; what a question says does *)
(* not matter here, nor does an answer but for its being a passphrase that *)
(* opens the key.  The target takes the methods it likes in any order.     *)
(***************************************************************************)
EXTENDS Naturals, Sequences, FiniteSets

CONSTANTS
  MaxShakes, \* bound: clients that connect
  MaxAsks    \* bound: questions of one dial

ASSUME AuthAssumption == MaxShakes \in Nat /\ MaxAsks \in Nat

VARIABLES
  extraQuestions, \* not dumbAuth
  reportAuthErr,
  hpc,        \* control state of the acceptor
  shake,      \* the handshake it is at, or did last
  asked, question, \* of the callback: question is the dial that asked
  outcome,    \* of each handshake
  proxyConn,  \* 0 is nil
  dial,       \* control state of each dial
  connErr,    \* of each callback, as its dial sets it
  asks, kind, \* questions of each dial, and what the latest is about
  asking,     \* dials that wait to put a question on the channel
  unlocked,   \* the deferred signer has its key
  given,      \* the connection each session was started with
  live,       \* sessions under way
  closed,     \* connections closed by sessions
  late        \* history: dials that ended after their handshake had failed

shakeVars == <<hpc, shake, asked, question, outcome>>
dialVars  == <<proxyConn, dial, connErr, late>>
askVars   == <<asks, kind, asking, unlocked>>
sessVars  == <<given, live, closed>>
vars == <<extraQuestions, reportAuthErr, shakeVars, dialVars, askVars, sessVars>>

Shakes == 1..MaxShakes
Conns  == 0..MaxShakes

(* The dials that wait on the channel, each once.                          *)
Queued ==
  /\ \A d \in Shakes : dial[d] = "asking" <=> \E i \in 1..Len(asking) : asking[i] = d
  /\ \A i, j \in 1..Len(asking) : asking[i] = asking[j] => i = j

TypeOK ==
  /\ extraQuestions \in BOOLEAN /\ reportAuthErr \in BOOLEAN
  /\ hpc \in {"accept", "auth", "select", "challenge", "answered", "final",
              "granted", "crashed"}
  /\ shake \in Conns /\ asked \in BOOLEAN /\ question \in Conns
  /\ outcome \in [Shakes -> {"open", "failed", "served"}]
  /\ proxyConn \in Conns
  /\ dial \in [Shakes -> {"none", "dialling", "asking", "waiting", "assigned", "established"}]
  /\ connErr \in [Shakes -> BOOLEAN]
  /\ asks \in [Shakes -> 0..MaxAsks] /\ kind \in [Shakes -> {"key", "other"}]
  /\ asking \in Seq(Shakes) /\ unlocked \in BOOLEAN
  /\ Queued
  /\ given \in [Shakes -> Conns] /\ live \in SUBSET Shakes
  /\ closed \in SUBSET Conns /\ late \in SUBSET Shakes

Init ==
  /\ extraQuestions \in BOOLEAN /\ reportAuthErr \in BOOLEAN
  /\ hpc = "accept" /\ shake = 0 /\ asked = FALSE /\ question = 0
  /\ outcome = [h \in Shakes |-> "open"]
  /\ proxyConn = 0
  /\ dial = [d \in Shakes |-> "none"] /\ connErr = [d \in Shakes |-> FALSE]
  /\ asks = [d \in Shakes |-> 0] /\ kind = [d \in Shakes |-> "other"]
  /\ asking = <<>> /\ unlocked = FALSE
  /\ given = [h \in Shakes |-> 0] /\ live = {} /\ closed = {} /\ late = {}

modeVars == <<extraQuestions, reportAuthErr>>

-----------------------------------------------------------------------------
(***************************************************************************)
(* The acceptor.                                                           *)
(***************************************************************************)
Accept ==
  /\ hpc = "accept" /\ shake < MaxShakes
  /\ shake' = shake + 1 /\ asked' = FALSE
  /\ hpc' = "auth"
  /\ UNCHANGED <<modeVars, question, outcome, dialVars, askVars, sessVars>>

(* A failed handshake leaves its dial as it is, and the loop goes on.      *)
Fail == hpc' = "accept" /\ outcome' = [outcome EXCEPT ![shake] = "failed"]

(* The client leaves before the callback, or after the callback has        *)
(* granted it access.                                                      *)
ClientLeaves ==
  /\ hpc \in {"auth", "granted"}
  /\ Fail
  /\ UNCHANGED <<modeVars, shake, asked, question, dialVars, askVars, sessVars>>

StartCallback ==
  /\ hpc = "auth"
  /\ hpc' = "select" /\ dial' = [dial EXCEPT ![shake] = "dialling"]
  /\ UNCHANGED <<modeVars, shake, asked, question, outcome, proxyConn, connErr, late,
                 askVars, sessVars>>

(* The select of the callback: the dial that has waited longest hands over *)
(* its question, whichever handshake it belongs to.                        *)
TakeQuestion ==
  /\ hpc = "select" /\ asking # <<>>
  /\ question' = Head(asking) /\ asking' = Tail(asking)
  /\ dial' = [dial EXCEPT ![Head(asking)] = "waiting"]
  /\ asked' = TRUE
  /\ hpc' = "challenge"
  /\ UNCHANGED <<modeVars, shake, outcome, proxyConn, connErr, late, asks, kind,
                 unlocked, sessVars>>

(* The client does not answer as it should: nobody answers the dial.       *)
ChallengeFails_PutsBack == \* mutant: leaves the question to the next client
  /\ hpc = "challenge"
  /\ Fail
  /\ asking' = Append(asking, question) /\ question' = 0
  /\ UNCHANGED <<modeVars, shake, asked, dialVars, asks, kind, unlocked, sessVars>>

ChallengeFails ==
  /\ hpc = "challenge"
  /\ Fail
  /\ question' = 0
  /\ UNCHANGED <<modeVars, shake, asked, dialVars, askVars, sessVars>>

(* OnAnswer of the key question refuses what does not open the key, and    *)
(* the handshake ends; the answer channels have room, so it never waits.   *)
Answer_NoWait == \* mutant: a right answer ends the loop
  /\ hpc = "challenge"
  /\ dial' = [dial EXCEPT ![question] = "dialling"] /\ question' = 0
  /\ hpc' = "granted"
  /\ UNCHANGED <<modeVars, shake, asked, outcome, proxyConn, connErr, late, asks, kind,
                 asking, unlocked, sessVars>>

Answer ==
  /\ hpc = "challenge"
  /\ dial' = [dial EXCEPT ![question] = "dialling"] /\ question' = 0
  /\ \/ /\ hpc' = "answered" /\ unlocked' = (unlocked \/ kind[question] = "key")
        /\ UNCHANGED outcome
     \/ kind[question] = "key" /\ Fail /\ UNCHANGED unlocked
  /\ UNCHANGED <<modeVars, shake, asked, proxyConn, connErr, late, asks, kind, asking,
                 sessVars>>

(* After the loop: a last challenge without a question, whose result does  *)
(* not matter, and the return of connErr.                                  *)
Return ==
  IF ~asked \/ (reportAuthErr /\ connErr[shake])
    THEN hpc' = "final" /\ UNCHANGED outcome
    ELSE IF connErr[shake] THEN Fail ELSE hpc' = "granted" /\ UNCHANGED outcome

CheckErr ==
  /\ hpc = "answered"
  /\ IF connErr[shake] THEN Return ELSE hpc' = "select" /\ UNCHANGED outcome
  /\ UNCHANGED <<modeVars, shake, asked, question, dialVars, askVars, sessVars>>

Established_Assigned == \* mutant: goes on as soon as anything is assigned
  /\ hpc = "select" /\ proxyConn # 0
  /\ Return
  /\ UNCHANGED <<modeVars, shake, asked, question, dialVars, askVars, sessVars>>

Established ==
  /\ hpc = "select" /\ dial[shake] = "established"
  /\ Return
  /\ UNCHANGED <<modeVars, shake, asked, question, dialVars, askVars, sessVars>>

FinalChallenge_Grants == \* mutant: returns the result of the last challenge
  /\ hpc = "final"
  /\ hpc' = "granted"
  /\ UNCHANGED <<modeVars, shake, asked, question, outcome, dialVars, askVars, sessVars>>

FinalChallenge ==
  /\ hpc = "final"
  /\ IF connErr[shake] THEN Fail ELSE hpc' = "granted" /\ UNCHANGED outcome
  /\ UNCHANGED <<modeVars, shake, asked, question, dialVars, askVars, sessVars>>

(* NewServerConn has succeeded: the loop reads proxyConn and starts the    *)
(* session with it, which a nil connection ends with a panic.              *)
Serve ==
  /\ hpc = "granted"
  /\ given' = [given EXCEPT ![shake] = proxyConn] /\ live' = live \cup {shake}
  /\ outcome' = [outcome EXCEPT ![shake] = "served"]
  /\ hpc' = IF proxyConn = 0 THEN "crashed" ELSE "accept"
  /\ UNCHANGED <<modeVars, shake, asked, question, dialVars, askVars, closed>>

-----------------------------------------------------------------------------
(***************************************************************************)
(* A dial.  DialEnds and DialAsk follow what the target does; it asks the  *)
(* passphrase only while the signer has no key.                            *)
(***************************************************************************)
DialAsk(d) ==
  /\ dial[d] = "dialling" /\ extraQuestions /\ asks[d] < MaxAsks
  /\ \E k \in {"key", "other"} :
       /\ k = "key" => ~unlocked
       /\ kind' = [kind EXCEPT ![d] = k]
  /\ asks' = [asks EXCEPT ![d] = @ + 1]
  /\ asking' = Append(asking, d)
  /\ dial' = [dial EXCEPT ![d] = "asking"]
  /\ UNCHANGED <<modeVars, shakeVars, proxyConn, connErr, late, unlocked, sessVars>>

DialEnds(d) ==
  /\ dial[d] = "dialling"
  /\ dial' = [dial EXCEPT ![d] = "assigned"]
  /\ \/ proxyConn' = d /\ UNCHANGED connErr
     \/ proxyConn' = 0 /\ connErr' = [connErr EXCEPT ![d] = TRUE]
  /\ late' = IF outcome[d] = "failed" THEN late \cup {d} ELSE late
  /\ UNCHANGED <<modeVars, shakeVars, askVars, sessVars>>

CloseEstablished_Connected(d) == \* mutant: not after a failure
  /\ dial[d] = "assigned" /\ ~connErr[d]
  /\ dial' = [dial EXCEPT ![d] = "established"]
  /\ UNCHANGED <<modeVars, shakeVars, proxyConn, connErr, late, askVars, sessVars>>

CloseEstablished(d) ==
  /\ dial[d] = "assigned"
  /\ dial' = [dial EXCEPT ![d] = "established"]
  /\ UNCHANGED <<modeVars, shakeVars, proxyConn, connErr, late, askVars, sessVars>>

-----------------------------------------------------------------------------
(* The client of session h is gone: its goroutine closes its connection,   *)
(* which was passed to it when it was started.                             *)
SessionEnds_Shared(h) == \* mutant: closes the variable of RunProxy
  /\ h \in live
  /\ live' = live \ {h} /\ closed' = closed \cup {proxyConn}
  /\ UNCHANGED <<modeVars, shakeVars, dialVars, askVars, given>>

SessionEnds(h) ==
  /\ h \in live
  /\ live' = live \ {h} /\ closed' = closed \cup {given[h]}
  /\ UNCHANGED <<modeVars, shakeVars, dialVars, askVars, given>>

-----------------------------------------------------------------------------
Handshake == \/ ClientLeaves \/ StartCallback \/ TakeQuestion \/ ChallengeFails
             \/ Answer \/ CheckErr \/ Established \/ FinalChallenge \/ Serve

Dial(d) == DialAsk(d) \/ DialEnds(d) \/ CloseEstablished(d)

Next ==
  /\ hpc # "crashed"
  /\ \/ Accept \/ Handshake
     \/ \E d \in Shakes : Dial(d) \/ SessionEnds(d)

Spec == Init /\ [][Next]_vars

(***************************************************************************)
(* Fairness: the goroutines run, the client of the handshake answers or    *)
(* leaves, and the target ends what it began.  The code has no timeout for *)
(* the latter two: without them nobody else gets in.                       *)
(***************************************************************************)
FairSpec == Spec /\ WF_vars(Handshake) /\ \A d \in Shakes : WF_vars(Dial(d))

-----------------------------------------------------------------------------
(***************************************************************************)
(* Properties.                                                             *)
(***************************************************************************)

(* A client is served by the connection that was made for it, unless a     *)
(* dial that a failed handshake has left behind ended in the meantime and  *)
(* put its own, or nil, in proxyConn (proxy.go:99, :169): a handshake that *)
(* succeeded never disturbs another.                                       *)
GivenOwn ==
  \A h \in Shakes : outcome[h] = "served" =>
    \/ given[h] = h
    \/ \E d \in late : given[h] = IF connErr[d] THEN 0 ELSE d

(* The question a client is asked is that of its own dial, or of the dial  *)
(* of a handshake that failed, never of one who is logged in already.      *)
AskedOwn == question # 0 => question = shake \/ outcome[question] = "failed"

(* No two clients are ever given the same connection, and the end of one   *)
(* session closes nobody else's (proxy.go:169, :191).                      *)
SessionsApart ==
  /\ \A g, h \in Shakes : g # h /\ given[g] = given[h] => given[g] = 0
  /\ \A h \in live : given[h] # 0 => given[h] \notin closed

(* A connection to the target that no session has been given is closed by  *)
(* nobody (proxy.go:103).  There is never more than one for each handshake *)
(* that failed, although it need not be the failed client's own: a late    *)
(* dial takes proxyConn from a client that is then served what it left.    *)
Lost ==
  {d \in Shakes : /\ dial[d] \in {"assigned", "established"} /\ ~connErr[d]
                  /\ outcome[d] # "open"
                  /\ \A h \in Shakes : given[h] # d}

LostBounded == Cardinality(Lost) <= Cardinality({h \in Shakes : outcome[h] = "failed"})

(* What HandshakeEnds rests on: the acceptor never waits in its select for *)
(* a dial of its own whose question was taken and not answered, as may     *)
(* happen to a client that has left (proxy.go:118-136).                    *)
SelectAwaited ==
  hpc = "select" => asking # <<>> \/ dial[shake] \in {"dialling", "assigned", "established"}

(* Whatever dials are about and however many questions they ask, a         *)
(* handshake ends, and the next client is let in (proxy.go:165).           *)
HandshakeEnds == hpc # "accept" ~> hpc \in {"accept", "crashed"}

-----------------------------------------------------------------------------
(***************************************************************************)
(* What a text of the repository says and the code does not do.            *)
(***************************************************************************)

(* README.md:94-97: the target's challenges "are forwarded to the          *)
(* connecting client": the one whose connection asks.                      *)
ForwardedToClient == question # 0 => question = shake
=============================================================================
