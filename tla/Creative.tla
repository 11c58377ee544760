------------------------------ MODULE Creative ------------------------------
(***************************************************************************)
(* Creative generation and the gateway: CreativeController,                *)
(* CreativeService with its Ollama streams, and GatewayService with its    *)
(* streams, its credential and its connection state, kept up to date by a  *)
(* periodic status request (AppContext's checkGateway).                    *)
(*                                                                         *)
(* All of it runs on the GUI thread, where signals are direct calls: a     *)
(* step is one event of the loop with everything it emits.  What the steps *)
(* interleave with is the keychain, the network and the user.  Aborting a  *)
(* reply finishes it inside the call, so the forced errors of a stream     *)
(* never outlive the step that sets them.  A text is a number of chunks; a *)
(* stream id stands for its request's, one to one.  Chunk slots that call  *)
(* back into the service are left out.                                     *)
(***************************************************************************)
EXTENDS Naturals, Sequences

CONSTANTS
  MaxRequests,  \* bound: how many requests the user makes
  StreamCap,    \* kStreamCap, in frames
  Checks,       \* bound: the status requests that can overlap
  FlawedKeys    \* the configuration keys that may be invalid at the start

ConfigKeys == {"gateway.baseUrl", "gateway.connectTimeoutMs",
               "gateway.maxResponseBytes", "ollama.baseUrl"}

ASSUME CreativeAssumption ==
  /\ MaxRequests \in Nat
  /\ StreamCap \in Nat
  /\ FlawedKeys \subseteq ConfigKeys

Requests == 1..MaxRequests
None     == 0
Backends == {"ollama", "gateway"}
Stages   == {"new", "refused", "queued", "token", "open", "over"}
Kinds    == {"stop", "cancelled", "failed"}
Links    == {"disconnected", "connecting", "connected", "error"}

VARIABLES
  stage,      \* where a request is: posted to the loop, waiting for the
              \* credential, streaming
  backend,    \* of each request
  live,       \* keys of results_
  text,       \* chunks in the request's result
  received,   \* frames its reply has brought
  gatewayIds, \* keys of gatewayRequestIds_
  cancelledRequests,
  cancelledStreams,
  ends,       \* finished and failed signals of each request
  busy, current, finishReason,    \* busy_, requestId_, finishReason_
  output,     \* output_: whose text it is, and how much of it
  buffered,   \* keys of outputBuffers_
  buffer,     \* their texts
  connection, \* connectionState_
  check,      \* where each status request is
  badKeys     \* keys whose stored value is invalid

service    == <<live, text, received, gatewayIds, cancelledRequests, cancelledStreams>>
controller == <<busy, current, finishReason, output, buffered, buffer>>
gateway    == <<connection, check, badKeys>>
vars       == <<stage, backend, ends, service, controller, gateway>>

NoOutput == [of |-> None, n |-> 0]

Init ==
  /\ stage = [r \in Requests |-> "new"]
  /\ backend \in [Requests -> Backends]
  /\ live = {}
  /\ text = [r \in Requests |-> 0]
  /\ received = [r \in Requests |-> 0]
  /\ gatewayIds = {}
  /\ cancelledRequests = {}
  /\ cancelledStreams = {}
  /\ ends = [r \in Requests |-> <<>>]
  /\ busy = FALSE
  /\ current = None
  /\ finishReason = "none"
  /\ output = NoOutput
  /\ buffered = {}
  /\ buffer = [r \in Requests |-> 0]
  /\ connection = "disconnected"
  /\ check = [k \in Checks |-> "idle"]
  /\ badKeys \in SUBSET FlawedKeys

-----------------------------------------------------------------------------
\* The controller's chunk slot.
OnChunk(r) ==
  /\ buffer' = [buffer EXCEPT ![r] = IF r \in buffered THEN @ + 1 ELSE @]
  /\ output' = IF r \in buffered /\ r = current
               THEN [of |-> r, n |-> buffer'[r]] ELSE output
  /\ UNCHANGED <<busy, current, finishReason, buffered>>

\* Mutant: the controller does not look whose end it is told of.
OnEndOfAny(r, kind) ==
  /\ buffered' = buffered \ {r}
  /\ busy' = FALSE
  /\ finishReason' = IF kind = "failed" THEN "error" ELSE kind
  /\ output' = IF kind # "failed" /\ r \in buffered
               THEN [of |-> r, n |-> buffer[r]] ELSE output
  /\ UNCHANGED <<current, buffer>>

\* Mutant: the final text is shown before the stale request is told apart.
OnEndShown(r, kind) ==
  /\ buffered' = buffered \ {r}
  /\ output' = IF kind # "failed" /\ r \in buffered
               THEN [of |-> r, n |-> buffer[r]] ELSE output
  /\ IF r = current
     THEN /\ busy' = FALSE
          /\ finishReason' = IF kind = "failed" THEN "error" ELSE kind
     ELSE UNCHANGED <<busy, finishReason>>
  /\ UNCHANGED <<current, buffer>>

\* The controller's finished and failed slots.
OnEnd(r, kind) ==
  /\ buffered' = buffered \ {r}
  /\ IF r = current /\ (r \in buffered \/ kind = "failed")
     THEN /\ busy' = FALSE
          /\ finishReason' = IF kind = "failed" THEN "error" ELSE kind
          /\ output' = IF kind = "failed" THEN output ELSE [of |-> r, n |-> buffer[r]]
     ELSE UNCHANGED <<busy, finishReason, output>>
  /\ UNCHANGED <<current, buffer>>

\* The service drops the request and signals its end.
End(r, kind) ==
  /\ stage' = [stage EXCEPT ![r] = "over"]
  /\ live' = live \ {r}
  /\ gatewayIds' = gatewayIds \ {r}
  /\ ends' = [ends EXCEPT ![r] = Append(@, kind)]
  /\ OnEnd(r, kind)
  /\ UNCHANGED <<backend, text, received>>

\* Mutant: a stream that is cancelled while it runs stays marked.
MarkAll(S) ==
  /\ cancelledRequests' = cancelledRequests \cup {r \in S : stage[r] = "queued"}
  /\ cancelledStreams' = cancelledStreams \cup {r \in S : stage[r] \in {"token", "open"}}

\* Requests of S that cancel() only marks, for the event that starts them or for
\* the answer of the keychain.
Mark(S) ==
  /\ cancelledRequests' = cancelledRequests \cup {r \in S : stage[r] = "queued"}
  /\ cancelledStreams' = cancelledStreams \cup {r \in S : stage[r] = "token"}

KeepMarks == UNCHANGED <<cancelledRequests, cancelledStreams>>

-----------------------------------------------------------------------------
\* CreativeController::generate: cancels what it is busy with, which ends at once
\* if its reply is open, and makes a new request; an invalid one is only refused
\* by a later event.
Generate(r) ==
  LET old     == {q \in live : busy /\ q = current}
      aborted == {q \in old : stage[q] = "open"}
  IN  /\ stage[r] = "new"
      /\ \A q \in 1..(r - 1) : stage[q] # "new"
      /\ \E valid \in BOOLEAN :
           /\ stage' = [q \in Requests |->
                          CASE q \in aborted -> "over"
                            [] q = r         -> IF valid THEN "queued" ELSE "refused"
                            [] OTHER         -> stage[q]]
           /\ live' = (live \ aborted) \cup IF valid THEN {r} ELSE {}
      /\ Mark(old)
      /\ gatewayIds' = gatewayIds \ aborted
      /\ ends' = [q \in Requests |-> IF q \in aborted THEN Append(ends[q], "cancelled")
                                                      ELSE ends[q]]
      /\ busy' = TRUE
      /\ current' = r
      /\ finishReason' = "none"
      /\ output' = NoOutput
      /\ buffered' = (buffered \ aborted) \cup {r}
      /\ UNCHANGED <<backend, text, received, buffer, gateway>>

\* CreativeController::cancel and CreativeService::cancel.
Cancel ==
  /\ current \in live
  /\ Mark({current})
  /\ IF stage[current] = "open"
     THEN End(current, "cancelled")
     ELSE UNCHANGED <<stage, backend, ends, live, text, received, gatewayIds, controller>>
  /\ UNCHANGED gateway

\* The posted failure of an invalid request.
Refuse(r) ==
  /\ stage[r] = "refused"
  /\ End(r, "failed")
  /\ KeepMarks
  /\ UNCHANGED gateway

Opened(r) ==
  /\ stage' = [stage EXCEPT ![r] = "open"]
  /\ UNCHANGED <<backend, ends, live, text, received, gatewayIds, controller>>

\* The posted start of a valid one.
Start(r) ==
  /\ stage[r] = "queued"
  /\ UNCHANGED <<check, cancelledStreams>>
  /\ \/ /\ r \in cancelledRequests
        /\ cancelledRequests' = cancelledRequests \ {r}
        /\ End(r, "cancelled")
        /\ UNCHANGED <<connection, badKeys>>
     \/ /\ r \notin cancelledRequests /\ backend[r] = "gateway"
        /\ stage' = [stage EXCEPT ![r] = "token"]
        /\ gatewayIds' = gatewayIds \cup {r}
        /\ connection' = "connecting"
        /\ UNCHANGED <<backend, ends, live, text, received, cancelledRequests,
                       controller, badKeys>>
     \/ /\ r \notin cancelledRequests /\ backend[r] = "ollama"
        /\ IF "ollama.baseUrl" \in badKeys THEN End(r, "failed") ELSE Opened(r)
        /\ badKeys' = badKeys \ {"ollama.baseUrl"}
        /\ UNCHANGED <<connection, cancelledRequests>>

\* Mutant: a cancelled stream is forgotten when its credential arrives.
TokenReadSilent(r) ==
  /\ stage[r] = "token"
  /\ UNCHANGED <<check, cancelledRequests>>
  /\ cancelledStreams' = cancelledStreams \ {r}
  /\ r \notin cancelledStreams
  /\ Opened(r)
  /\ UNCHANGED <<connection, badKeys>>

\* Mutant: the cancellation is only looked at once the reply runs.
TokenReadUnmarked(r) ==
  /\ stage[r] = "token"
  /\ UNCHANGED <<check, cancelledRequests>>
  /\ cancelledStreams' = cancelledStreams \ {r}
  /\ \/ /\ connection' = "error"
        /\ End(r, "failed")
        /\ UNCHANGED badKeys
     \/ /\ Opened(r)
        /\ UNCHANGED <<connection, badKeys>>

\* The keychain answers a stream: with nothing, with a credential but an invalid
\* configuration, which reading it resets, or so that the request can be sent.
TokenRead(r) ==
  LET read == {"gateway.baseUrl", "gateway.connectTimeoutMs"}
  IN  /\ stage[r] = "token"
      /\ UNCHANGED <<check, cancelledRequests>>
      /\ cancelledStreams' = cancelledStreams \ {r}
      /\ \/ /\ r \in cancelledStreams
            /\ End(r, "cancelled")
            /\ UNCHANGED <<connection, badKeys>>
         \/ /\ r \notin cancelledStreams
            /\ connection' = "error"
            /\ End(r, "failed")
            /\ UNCHANGED badKeys
         \/ /\ r \notin cancelledStreams
            /\ badKeys' = badKeys \ read
            /\ IF badKeys \cap read # {}
               THEN connection' = "error" /\ End(r, "failed")
               ELSE Opened(r) /\ UNCHANGED connection

\* Mutant: the cap is not looked at.
FrameUncapped(r) ==
  /\ stage[r] = "open"
  /\ received' = [received EXCEPT ![r] = @ + 1]
  /\ text' = [text EXCEPT ![r] = @ + 1]
  /\ OnChunk(r)
  /\ UNCHANGED <<stage, backend, ends, live, gatewayIds, gateway>>
  /\ KeepMarks

\* A frame arrives, with text or without; the one beyond the cap ends the stream.
Frame(r) ==
  /\ stage[r] = "open"
  /\ received[r] < StreamCap
  /\ received' = [received EXCEPT ![r] = @ + 1]
  /\ \/ /\ text' = [text EXCEPT ![r] = @ + 1]
        /\ OnChunk(r)
     \/ UNCHANGED <<text, controller>>
  /\ UNCHANGED <<stage, backend, ends, live, gatewayIds, gateway>>
  /\ KeepMarks

Observe(r, link) ==
  /\ connection' = IF backend[r] = "gateway" THEN link ELSE connection
  /\ UNCHANGED <<check, badKeys>>

\* The reply fails by itself: an error frame, a malformed one, one too many, a
\* status or the network.
ReplyFailed(r) ==
  /\ stage[r] = "open"
  /\ End(r, "failed")
  /\ Observe(r, "error")
  /\ KeepMarks

\* The connect, idle or total timer of the stream aborts it.
TimedOut(r) == ReplyFailed(r)

\* The reply ends well.
ReplyFinished(r) ==
  /\ stage[r] = "open"
  /\ End(r, "stop")
  /\ Observe(r, "connected")
  /\ KeepMarks

-----------------------------------------------------------------------------
\* checkGateway: GatewayService::get of the status path, at the start and every
\* 30 s, whether or not the last one has ended.
Check(k) ==
  /\ check[k] = "idle"
  /\ check' = [check EXCEPT ![k] = "token"]
  /\ connection' = "connecting"
  /\ UNCHANGED <<stage, backend, ends, service, controller, badKeys>>

\* Mutant: a missing credential ends the request but is not shown.
CheckTokenHidden(k) ==
  /\ check[k] = "token"
  /\ \/ /\ check' = [check EXCEPT ![k] = "idle"]
        /\ UNCHANGED <<connection, badKeys>>
     \/ /\ check' = [check EXCEPT ![k] = "http"]
        /\ UNCHANGED <<connection, badKeys>>
  /\ UNCHANGED <<stage, backend, ends, service, controller>>

\* The keychain answers it.  An invalid timeout or cap is reset, and the request
\* ends with the connection state as it was.
CheckToken(k) ==
  LET read == {"gateway.connectTimeoutMs", "gateway.maxResponseBytes"}
  IN  /\ check[k] = "token"
      /\ \/ /\ check' = [check EXCEPT ![k] = "idle"]
            /\ connection' = "error"
            /\ UNCHANGED badKeys
         \/ /\ "gateway.baseUrl" \in badKeys
            /\ badKeys' = badKeys \ {"gateway.baseUrl"}
            /\ check' = [check EXCEPT ![k] = "idle"]
            /\ connection' = "error"
         \/ /\ "gateway.baseUrl" \notin badKeys
            /\ badKeys' = badKeys \ read
            /\ check' = [check EXCEPT ![k] = IF badKeys \cap read # {} THEN "idle"
                                                                      ELSE "http"]
            /\ UNCHANGED connection
      /\ UNCHANGED <<stage, backend, ends, service, controller>>

\* HttpClient::getJson has its result; a malformed body still shows a gateway.
CheckDone(k) ==
  /\ check[k] = "http"
  /\ check' = [check EXCEPT ![k] = "idle"]
  /\ connection' \in {"connected", "error"}
  /\ UNCHANGED <<stage, backend, ends, service, controller, badKeys>>

-----------------------------------------------------------------------------
Posted(r) == Refuse(r) \/ Start(r)
Health(k) == Check(k) \/ CheckToken(k) \/ CheckDone(k)

Next ==
  \/ Cancel
  \/ \E r \in Requests :
       Generate(r) \/ Posted(r) \/ TokenRead(r) \/ Frame(r)
         \/ ReplyFailed(r) \/ ReplyFinished(r)
  \/ \E k \in Checks : Health(k)

Spec == Init /\ [][Next]_vars

\* Posted events run, the keychain answers, the 300 s timer ends every stream,
\* and the status requests go on.
FairSpec ==
  /\ Spec
  /\ \A r \in Requests : WF_vars(Posted(r)) /\ WF_vars(TokenRead(r)) /\ WF_vars(TimedOut(r))
  /\ \A k \in Checks : WF_vars(Health(k))

-----------------------------------------------------------------------------
TypeOK ==
  /\ stage \in [Requests -> Stages]
  /\ backend \in [Requests -> Backends]
  /\ live \in SUBSET Requests
  /\ text \in [Requests -> Nat]
  /\ received \in [Requests -> 0..StreamCap]
  /\ gatewayIds \in SUBSET Requests
  /\ cancelledRequests \in SUBSET Requests
  /\ cancelledStreams \in SUBSET Requests
  /\ ends \in [Requests -> Seq(Kinds)]
  /\ busy \in BOOLEAN
  /\ current \in Requests \cup {None}
  /\ finishReason \in {"none", "stop", "cancelled", "error"}
  /\ output \in [of : Requests \cup {None}, n : Nat]
  /\ buffered \in SUBSET Requests
  /\ buffer \in [Requests -> Nat]
  /\ connection \in Links
  /\ check \in [Checks -> {"idle", "token", "http"}]
  /\ badKeys \in SUBSET ConfigKeys

Under(stages) == {r \in Requests : stage[r] \in stages}

\* The service's and the gateway's tables hold exactly the requests at the stage
\* they are about, and no mark of a cancellation outlives the request it is for:
\* nothing is left over when a request has ended, whichever of the ends it took.
NoLeftovers ==
  /\ live = Under({"queued", "token", "open"})
  /\ gatewayIds = {r \in Under({"token", "open"}) : backend[r] = "gateway"}
  /\ cancelledRequests \subseteq Under({"queued"})
  /\ cancelledStreams \subseteq Under({"token"})
  /\ buffered = Under({"refused", "queued", "token", "open"})

\* The output shown is the current request's, all of it that its result holds,
\* at every moment: no chunk or end of an earlier request, whenever it comes,
\* shows through ("no stale final token", SPEC.md:778).
ShownIsCurrent ==
  /\ output.of \in {None, current}
  /\ current # None => output.n = text[current]

\* The controller is busy exactly while its current request has not ended.
BusyWithCurrent ==
  busy <=> current # None /\ stage[current] # "over"

\* The service keeps its promises to whoever holds a request id.
Promise == INSTANCE CreativeRequests WITH
  Requests   <- Requests,
  open       <- Under({"refused", "queued", "token", "open"}),
  cancelling <- cancelledRequests \cup cancelledStreams,
  chunks     <- text,
  ends       <- ends

PromiseKept == Promise!Spec

\* Every request ends.
RequestsEnd == \A r \in Requests : stage[r] \notin {"new", "over"} ~> stage[r] = "over"

\* The status bar does not stay at "connecting": cancelling a stream, and the
\* early return of get(), leave the state there, and the next status request
\* that gets through corrects it.
ConnectingEnds == connection = "connecting" ~> connection # "connecting"
=============================================================================
