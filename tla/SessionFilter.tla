----------------------------- MODULE SessionFilter -----------------------------
(***************************************************************************)
(* The session filter of cmd/nosshtradamus/main.go and the IoSwitch of     *)
(* internal/predictive/ioswitch.go: what happens on a "session" channel    *)
(* between its opening and the moment it is interposed, and after.         *)
(*                                                                         *)
(*   filter   the request goroutine of handleSshChannel: handles requests  *)
(*            and passes the others on; at its end it closes the IoSwitch  *)
(*   sink     reflectRequests, started by the filter                       *)
(*   reader   io.Copy(clientChan, ioSwitch)                                *)
(*   writer   io.Copy(ioSwitch, clientChan)                                *)
(*   puller   pullFromUpstream, once there is an interposer                *)
(*                                                                         *)
(* IoSwitch has no lock: each access to it is a step.  A piece of input or *)
(* of output is abstracted to whether it followed the pty-req.             *)
(***************************************************************************)
EXTENDS PtyReq

CONSTANTS
  MaxReqs, \* bound: requests of the client
  MaxOut,  \* bound: chunks of output on their way
  MaxIn    \* bound: pieces of input of the client

ASSUME FilterAssumption == MaxReqs \in Nat /\ MaxOut \in Nat /\ MaxIn \in Nat

VARIABLES
  predict,           \* not noPrediction; otherwise there is a fakeDelay
  requests, closed,  \* what the client has sent, and that it has closed
  taken,             \* number of requests the filter has taken
  fpc, spc, dpc,     \* control state of filter, sink and reader
  held,              \* request in the hands of the sink
  activated, interposer,
  size,              \* of the interposer
  sizedBy,           \* history: the request that set it
  refractor, enabled, \* of the IoSwitch
  shut,              \* what Close of the IoSwitch has closed
  forwarded,         \* requests sent to the server
  replies,           \* requests answered, in the order of the answers
  wire, eof,         \* output on its way to the proxy, and that the server ended
  around,            \* output after the pty-req that went around an interposer
  fresh,             \* the interposer has output it has not drawn
  inputs, writing    \* the ways input has gone, and that more may come

clientVars == <<requests, closed, inputs, writing>>
switchVars == <<refractor, enabled, shut>>
interVars  == <<activated, interposer, size, sizedBy>>
sinkVars   == <<spc, held, forwarded>>
outVars    == <<wire, eof, around, fresh>>
vars == <<predict, clientVars, taken, fpc, dpc, interVars, switchVars, sinkVars,
          replies, outVars>>

(***************************************************************************)
(* Requests.  A request that is not about a size has no payload here, and  *)
(* one about a size means one, or is cut short and means none.  "setting"  *)
(* is a nosshtradamus request with a value the filter knows, "unknown" a   *)
(* displayPreference it does not know.  Requests nobody should send want a *)
(* reply here, the harder case.                                            *)
(***************************************************************************)
Kinds == {"pty", "winch", "setting", "unknown", "other"}
Whole == {<<"pty", <<1, 2>>, PtyPayload(<<7>>, <<1, 2>>, <<8>>)>>,
          <<"winch", <<2, 1>>, WindowPayload(<<2, 1>>, <<16, 8>>)>>}
Cut   == {<<"pty", Error, <<3, 7, 1, 2>>>>, <<"winch", Error, <<1>>>>}
Plain == {<<kind, Error, <<>>>> : kind \in {"setting", "other"}}
Odd   == Cut \cup {<<"unknown", Error, <<>>>>}
Request(c, reply) == [kind |-> c[1], means |-> c[2], payload |-> c[3], reply |-> reply]
Requests == {Request(c, reply) : c \in Whole \cup Plain, reply \in BOOLEAN}
              \cup {Request(c, TRUE) : c \in Odd}

(* The size a request asks for, as the filter reads it.                    *)
Asked(r) == CASE r.kind = "pty"   -> InterpretPtyReq(r.payload)
              [] r.kind = "winch" -> InterpretWindowChange(r.payload)
              [] OTHER            -> Error

Sizes    == {Error} \cup {Asked(r) : r \in Requests}
Indices  == 1..MaxReqs
Targets  == {"channel", "delayer", "interposer", "nil"}

TypeOK ==
  /\ predict \in BOOLEAN /\ closed \in BOOLEAN
  /\ requests \in Seq(Requests) /\ taken \in 0..Len(requests)
  /\ fpc \in {"receive", "handle", "refract", "enable", "resize", "pass", "ended", "done"}
  /\ spc \in {"receive", "send", "await", "done"}
  /\ dpc \in {"idle", "done"} \cup Targets
  /\ held \in 0..MaxReqs /\ size \in Sizes /\ sizedBy \in 0..MaxReqs
  /\ activated \in BOOLEAN /\ interposer \in BOOLEAN /\ enabled \in BOOLEAN
  /\ refractor \in Targets /\ shut \in Targets
  /\ forwarded \in Seq(Indices) /\ replies \in Seq(Indices)
  /\ wire \in Seq(BOOLEAN) /\ eof \in BOOLEAN
  /\ around \in Nat /\ fresh \in BOOLEAN
  /\ inputs \in SUBSET (BOOLEAN \X Targets) /\ writing \in 0..MaxIn

Init ==
  /\ predict \in BOOLEAN
  /\ requests = <<>> /\ closed = FALSE /\ taken = 0
  /\ fpc = "receive" /\ spc = "receive" /\ dpc = "idle" /\ held = 0
  /\ activated = FALSE /\ interposer = FALSE /\ size = <<>> /\ sizedBy = 0
  /\ refractor = "nil" /\ enabled = FALSE /\ shut = "nil"
  /\ forwarded = <<>> /\ replies = <<>>
  /\ wire = <<>> /\ eof = FALSE /\ around = 0 /\ fresh = FALSE
  /\ inputs = {} /\ writing = MaxIn

Among(s) == {s[i] : i \in 1..Len(s)}
Sized == {i \in 1..Len(requests) : requests[i].means # Error}
Ptys  == {i \in Sized : requests[i].kind = "pty"}
PtyIn(s) == Among(s) \cap Ptys # {}

(* Where the IoSwitch leads.                                               *)
Target_Channel == "channel" \* mutant: never switches
Target == IF enabled THEN refractor ELSE "channel"

-----------------------------------------------------------------------------
(***************************************************************************)
(* The peers.  The server may speak before the pty-req as well as after.   *)
(***************************************************************************)
ClientRequest(r) ==
  /\ ~closed /\ Len(requests) < MaxReqs
  /\ requests' = Append(requests, r)
  /\ UNCHANGED <<predict, closed, inputs, writing, taken, fpc, dpc, interVars,
                 switchVars, sinkVars, replies, outVars>>

ClientClose ==
  /\ ~closed /\ closed' = TRUE
  /\ UNCHANGED <<predict, requests, inputs, writing, taken, fpc, dpc, interVars,
                 switchVars, sinkVars, replies, outVars>>

ServerSend ==
  /\ ~eof /\ Len(wire) < MaxOut
  /\ wire' = Append(wire, PtyIn(forwarded))
  /\ UNCHANGED <<predict, clientVars, taken, fpc, dpc, interVars, switchVars,
                 sinkVars, replies, eof, around, fresh>>

ServerEof ==
  /\ ~eof /\ eof' = TRUE
  /\ UNCHANGED <<predict, clientVars, taken, fpc, dpc, interVars, switchVars,
                 sinkVars, replies, wire, around, fresh>>

-----------------------------------------------------------------------------
(***************************************************************************)
(* The filter.                                                             *)
(***************************************************************************)
Current == requests[taken]

(* What there is to do for a request before it is passed on.               *)
Handling_PtyOnly(r) == \* mutant: passes a window-change on unread
  CASE r.kind \in {"setting", "unknown"} \/ (r.kind = "pty" /\ Asked(r) # Error /\ ~activated) -> "handle"
    [] r.kind = "pty" /\ Asked(r) # Error /\ interposer -> "resize"
    [] OTHER -> "pass"

Handling(r) ==
  CASE r.kind \in {"setting", "unknown"} \/ (r.kind = "pty" /\ Asked(r) # Error /\ ~activated) -> "handle"
    [] Asked(r) # Error /\ interposer -> "resize"
    [] OTHER -> "pass"

FilterTake ==
  /\ fpc = "receive" /\ taken < Len(requests)
  /\ taken' = taken + 1
  /\ fpc' = Handling(requests[taken + 1])
  /\ UNCHANGED <<predict, clientVars, dpc, interVars, switchVars, sinkVars,
                 replies, outVars>>

(* activateInterposer up to the call of Enable: the puller starts here.    *)
Activate ==
  /\ fpc = "handle" /\ Current.kind = "pty"
  /\ activated' = TRUE /\ interposer' = predict
  /\ fpc' = "refract"
  /\ UNCHANGED <<predict, clientVars, taken, dpc, size, sizedBy, switchVars, sinkVars,
                 replies, outVars>>

(* IoSwitch.Enable, its two assignments.                                   *)
Refract_Late == \* mutant: sets enabled before there is a refractor
  /\ fpc = "refract"
  /\ enabled' = TRUE
  /\ fpc' = "enable"
  /\ UNCHANGED <<predict, clientVars, taken, dpc, interVars, refractor, shut,
                 sinkVars, replies, outVars>>

Refract ==
  /\ fpc = "refract"
  /\ refractor' = IF interposer THEN "interposer" ELSE "delayer"
  /\ fpc' = "enable"
  /\ UNCHANGED <<predict, clientVars, taken, dpc, interVars, enabled, shut,
                 sinkVars, replies, outVars>>

Enable ==
  /\ fpc = "enable"
  /\ enabled' = TRUE
  /\ fpc' = IF interposer THEN "resize" ELSE "pass"
  /\ UNCHANGED <<predict, clientVars, taken, dpc, interVars, refractor, shut,
                 sinkVars, replies, outVars>>

FilterResize ==
  /\ fpc = "resize"
  /\ size' = Asked(Current) /\ sizedBy' = taken
  /\ fpc' = "pass"
  /\ UNCHANGED <<predict, clientVars, taken, dpc, activated, interposer,
                 switchVars, sinkVars, replies, outVars>>

(* A nosshtradamus request is not passed on, and is answered when there is *)
(* an interposer and the value is known.                                   *)
FilterSet_PassesOn == \* mutant: the continue is missing
  /\ fpc = "handle" /\ Current.kind # "pty"
  /\ replies' = IF interposer /\ Current.kind = "setting" /\ Current.reply
                  THEN Append(replies, taken) ELSE replies
  /\ fpc' = "pass"
  /\ UNCHANGED <<predict, clientVars, taken, dpc, interVars, switchVars, sinkVars,
                 outVars>>

FilterSet ==
  /\ fpc = "handle" /\ Current.kind # "pty"
  /\ replies' = IF interposer /\ Current.kind = "setting" /\ Current.reply
                  THEN Append(replies, taken) ELSE replies
  /\ fpc' = "receive"
  /\ UNCHANGED <<predict, clientVars, taken, dpc, interVars, switchVars, sinkVars,
                 outVars>>

(* passthrough is unbuffered: the request waits for the sink.              *)
FilterPass ==
  /\ fpc = "pass" /\ spc = "receive"
  /\ held' = taken /\ spc' = "send"
  /\ fpc' = "receive"
  /\ UNCHANGED <<predict, clientVars, taken, dpc, interVars, switchVars,
                 forwarded, replies, outVars>>

FilterEnd ==
  /\ fpc = "receive" /\ closed /\ taken = Len(requests)
  /\ fpc' = "ended"
  /\ UNCHANGED <<predict, clientVars, taken, dpc, interVars, switchVars, sinkVars,
                 replies, outVars>>

(* handleSshChannel closes the IoSwitch once the input has ended too.      *)
CloseSwitch ==
  /\ fpc = "ended" /\ writing = 0
  /\ shut' = Target
  /\ fpc' = "done"
  /\ UNCHANGED <<predict, clientVars, taken, dpc, interVars, refractor, enabled,
                 sinkVars, replies, outVars>>

-----------------------------------------------------------------------------
(***************************************************************************)
(* The sink.  A request that wants a reply is answered when the server has *)
(* answered, or at once when the channel is closed.                        *)
(***************************************************************************)
Sent_Next == held + 1 \* mutant: off by one
Sent == held

SinkForward ==
  /\ spc = "send" /\ fpc # "done"
  /\ forwarded' = Append(forwarded, Sent)
  /\ IF requests[held].reply THEN spc' = "await" /\ UNCHANGED held
                             ELSE spc' = "receive" /\ held' = 0
  /\ UNCHANGED <<predict, clientVars, taken, fpc, dpc, interVars, switchVars,
                 replies, outVars>>

SinkFails ==
  /\ spc = "send" /\ (fpc = "done" \/ eof)
  /\ replies' = IF requests[held].reply THEN Append(replies, held) ELSE replies
  /\ spc' = "receive" /\ held' = 0
  /\ UNCHANGED <<predict, clientVars, taken, fpc, dpc, interVars, switchVars,
                 forwarded, outVars>>

SinkAnswer_Drops == \* mutant: does not hand the answer back
  /\ spc = "await"
  /\ spc' = "receive" /\ held' = 0
  /\ UNCHANGED <<predict, clientVars, taken, fpc, dpc, interVars, switchVars,
                 forwarded, replies, outVars>>

SinkAnswer ==
  /\ spc = "await"
  /\ replies' = Append(replies, held)
  /\ spc' = "receive" /\ held' = 0
  /\ UNCHANGED <<predict, clientVars, taken, fpc, dpc, interVars, switchVars,
                 forwarded, outVars>>

SinkDone ==
  /\ spc = "receive" /\ fpc \in {"ended", "done"}
  /\ spc' = "done"
  /\ UNCHANGED <<predict, clientVars, taken, fpc, dpc, interVars, switchVars, held,
                 forwarded, replies, outVars>>

-----------------------------------------------------------------------------
(***************************************************************************)
(* Output.  A Read that has gone to the channel stays there until the      *)
(* channel has something for it, whatever the IoSwitch has become since;   *)
(* the puller reads the same channel.                                      *)
(***************************************************************************)
ReadCall_Remembers == \* mutant: keeps to the target of the first Read
  /\ dpc = "idle"
  /\ dpc' = "channel"
  /\ UNCHANGED <<predict, clientVars, taken, fpc, interVars, switchVars, sinkVars,
                 replies, outVars>>

ReadCall ==
  /\ dpc = "idle"
  /\ dpc' = Target
  /\ UNCHANGED <<predict, clientVars, taken, fpc, interVars, switchVars, sinkVars,
                 replies, outVars>>

ReadChannel ==
  /\ dpc \in {"channel", "delayer"} /\ wire # <<>>
  /\ around' = IF Head(wire) /\ predict THEN around + 1 ELSE around
  /\ wire' = Tail(wire)
  /\ dpc' = "idle"
  /\ UNCHANGED <<predict, clientVars, taken, fpc, interVars, switchVars, sinkVars,
                 replies, eof, fresh>>

Pull ==
  /\ interposer /\ wire # <<>>
  /\ fresh' = TRUE
  /\ wire' = Tail(wire)
  /\ UNCHANGED <<predict, clientVars, taken, fpc, dpc, interVars, switchVars,
                 sinkVars, replies, eof, around>>

ReadFrame ==
  /\ dpc = "interposer" /\ fresh
  /\ fresh' = FALSE
  /\ dpc' = "idle"
  /\ UNCHANGED <<predict, clientVars, taken, fpc, interVars, switchVars, sinkVars,
                 replies, wire, eof, around>>

ReadEof ==
  /\ dpc \in {"channel", "delayer", "interposer"} /\ eof /\ wire = <<>>
  /\ dpc' = "done"
  /\ UNCHANGED <<predict, clientVars, taken, fpc, interVars, switchVars, sinkVars,
                 replies, outVars>>

(***************************************************************************)
(* Input: one Write of the IoSwitch, marked with whether the client has    *)
(* had the answer to a pty-req.                                            *)
(***************************************************************************)
WriteCall ==
  /\ writing > 0
  /\ writing' = writing - 1
  /\ inputs' = inputs \cup {<<PtyIn(replies), Target>>}
  /\ UNCHANGED <<predict, requests, closed, taken, fpc, dpc, interVars, switchVars,
                 sinkVars, replies, outVars>>

WriterEnd ==
  /\ writing > 0
  /\ writing' = 0
  /\ UNCHANGED <<predict, requests, closed, inputs, taken, fpc, dpc, interVars,
                 switchVars, sinkVars, replies, outVars>>

-----------------------------------------------------------------------------
Peers == \/ \E r \in Requests : ClientRequest(r)
         \/ ClientClose \/ ServerSend \/ ServerEof

Filter == \/ FilterTake \/ Activate \/ Refract \/ Enable \/ FilterResize
          \/ FilterSet \/ FilterPass \/ FilterEnd \/ CloseSwitch

Sink == SinkForward \/ SinkFails \/ SinkAnswer \/ SinkDone

Reader == ReadCall \/ ReadChannel \/ ReadFrame \/ ReadEof

Next == Peers \/ Filter \/ Sink \/ Reader \/ Pull \/ WriteCall \/ WriterEnd

Spec == Init /\ [][Next]_vars

(***************************************************************************)
(* Fairness: the goroutines run, and the server answers what it is asked.  *)
(* Nobody promises that either peer sends or ends.                         *)
(***************************************************************************)
Fairness == WF_vars(Filter) /\ WF_vars(Sink) /\ WF_vars(Reader) /\ WF_vars(Pull)

FairSpec == Spec /\ Fairness

-----------------------------------------------------------------------------
(***************************************************************************)
(* Properties.                                                             *)
(***************************************************************************)

(* The server never formats output for a size the interposer has yet to    *)
(* hear of: a pty-req or window-change reaches it only once the interposer *)
(* has been sized by it or by a later one (main.go:365-374, :431).         *)
SizeKnown ==
  predict => \A i \in Among(forwarded) \cap Sized :
               (\E p \in Ptys : p <= i) => sizedBy >= i

(* The interposer and the server agree on the size whenever no request     *)
(* about it is under way: the proxy reads from a payload what the client   *)
(* meant, and from a payload that is cut nothing (ptyreq.go:34-56,         *)
(* :70-85; main.go:363-374).                                               *)
SizeAgreed ==
  LET told == {i \in Sized : \E p \in Ptys : p <= i}
  IN  predict /\ told # {} /\ told \subseteq Among(forwarded) =>
        size = requests[CHOOSE i \in told : \A j \in told : j <= i].means

(* What a client types after the answer to its pty-req passes through the  *)
(* interposer (main.go:352, :431; ioswitch.go:47-53).                      *)
InputInterposed ==
  predict => \A route \in Targets : <<TRUE, route>> \in inputs => route = "interposer"

(* No goroutine is led to the refractor before there is one, although      *)
(* IoSwitch has no lock: Enable sets it first (ioswitch.go:39-68).         *)
SwitchComplete == dpc # "nil" /\ \A b \in BOOLEAN : <<b, "nil">> \notin inputs

(* Sessions with a pty are interposed (README.md:74-75): only the Read that *)
(* has waited on the channel since before the switch can lead output       *)
(* around the interposer, and no more than one chunk (ioswitch.go:43).     *)
AtMostOneAround == around <= 1

(* Close reaches what was put in front of the channel, so that an          *)
(* interposer's goroutines end with its session (ioswitch.go:55-61).       *)
InterposerShut == fpc = "done" => shut = (IF activated THEN refractor ELSE "channel")

(* Requests reach the server in the order the client sent them, each once, *)
(* although they pass through two goroutines.                              *)
ForwardedInOrder ==
  \A i, j \in 1..Len(forwarded) : i < j => forwarded[i] < forwarded[j]

(* Answers bear no number: the client takes them in the order of its       *)
(* requests.  Filter and sink both answer, but each request once, and only *)
(* the filter's own answer overtakes, and no more than the one request     *)
(* that waits for the server (main.go:384, :399).                          *)
AnswersInOrder ==
  \A i, j \in 1..Len(replies) : i < j =>
    \/ replies[i] < replies[j]
    \/ /\ replies[j] < replies[i] /\ requests[replies[i]].kind = "setting"
       /\ \A k \in i + 1..Len(replies) : replies[k] < replies[i] => k = j

(* What Answered rests on: a request to be passed on that wants an answer  *)
(* is not lost on its way through two goroutines: it has been answered, or *)
(* the filter has yet to pass it on, or the sink has it (main.go:359-399). *)
NoneForgotten ==
  \A i \in 1..taken :
    requests[i].reply /\ requests[i].kind \in {"pty", "winch", "other"} =>
      \/ i \in Among(replies) \/ held = i
      \/ i = taken /\ fpc \in {"handle", "refract", "enable", "resize", "pass"}

(* A request that is passed on and wants an answer gets one, and so does a *)
(* nosshtradamus request the filter knows, once there is an interposer.    *)
Answered ==
  \A i \in Indices :
    (/\ i \in 1..Len(requests) /\ requests[i].reply
     /\ \/ requests[i].kind \in {"pty", "winch", "other"}
        \/ requests[i].kind = "setting" /\ predict /\ PtyIn(forwarded) /\ i > taken)
      ~> i \in Among(replies)

=============================================================================
