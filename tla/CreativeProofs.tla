--------------------------- MODULE CreativeProofs ---------------------------
(***************************************************************************)
(* Creative for any number of requests and status requests: the inductive  *)
(* invariant, and that the service implements CreativeRequests.            *)
(***************************************************************************)
EXTENDS Creative, TLAPS

\* The controller's buffer of a request is the text of its result, and a request
\* that has not been made has none; the requests that are over are those with an
\* end; the current request has been made.
TextInv    == /\ buffer = text
              /\ \A r \in Requests : stage[r] = "new" => text[r] = 0
EndsInv    == \A r \in Requests : stage[r] = "over" <=> ends[r] # <<>>
CurrentInv == current # None => stage[current] # "new"

IInv == /\ TypeOK
        /\ NoLeftovers
        /\ ShownIsCurrent
        /\ BusyWithCurrent
        /\ TextInv
        /\ EndsInv
        /\ CurrentInv

\* None is not a request.
LEMMA NoneNoRequest == None \notin Requests
  BY CreativeAssumption DEF None, Requests

LEMMA InitIInv == Init => IInv
<1> SUFFICES ASSUME Init PROVE IInv
  OBVIOUS
<1>1. TypeOK
  <2>1. /\ stage \in [Requests -> Stages]
        /\ backend \in [Requests -> Backends]
        /\ live \in SUBSET Requests /\ gatewayIds \in SUBSET Requests
        /\ cancelledRequests \in SUBSET Requests /\ cancelledStreams \in SUBSET Requests
        /\ ends \in [Requests -> Seq(Kinds)]
    BY DEF Init, Stages
  <2>2. /\ text \in [Requests -> Nat]
        /\ received \in [Requests -> 0..StreamCap]
        /\ buffer \in [Requests -> Nat]
        /\ output \in [of : Requests \cup {None}, n : Nat]
    BY CreativeAssumption DEF Init, NoOutput
  <2>3. /\ busy \in BOOLEAN /\ current \in Requests \cup {None}
        /\ finishReason \in {"none", "stop", "cancelled", "error"}
        /\ buffered \in SUBSET Requests
        /\ connection \in Links
        /\ check \in [Checks -> {"idle", "token", "http"}]
        /\ badKeys \in SUBSET ConfigKeys
    BY CreativeAssumption DEF Init, Links
  <2>. QED BY <2>1, <2>2, <2>3 DEF TypeOK
<1>2. NoLeftovers
  BY DEF Init, NoLeftovers, Under
<1>3. ShownIsCurrent /\ BusyWithCurrent
  BY DEF Init, ShownIsCurrent, BusyWithCurrent, NoOutput
<1>4. TextInv /\ EndsInv /\ CurrentInv
  BY DEF Init, TextInv, EndsInv, CurrentInv
<1>. QED BY <1>1, <1>2, <1>3, <1>4 DEF IInv

\* Ending a request, with its marks gone, keeps the invariant.
LEMMA EndInv ==
  ASSUME IInv, NEW r \in Requests, NEW kind \in Kinds,
         stage[r] \in {"refused", "queued", "token", "open"},
         End(r, kind),
         cancelledRequests' = cancelledRequests \ {r},
         cancelledStreams' = cancelledStreams \ {r},
         connection' \in Links,
         check' = check,
         badKeys' \in SUBSET ConfigKeys
  PROVE  IInv'
<1>1. /\ stage' = [stage EXCEPT ![r] = "over"]
      /\ live' = live \ {r}
      /\ gatewayIds' = gatewayIds \ {r}
      /\ ends' = [ends EXCEPT ![r] = Append(@, kind)]
      /\ backend' = backend /\ text' = text /\ received' = received
      /\ buffered' = buffered \ {r} /\ buffer' = buffer /\ current' = current
  BY DEF End, OnEnd
<1>2. r \in buffered
  BY DEF IInv, NoLeftovers, Under
<1>3. IF r = current
      THEN /\ busy' = FALSE
           /\ finishReason' = IF kind = "failed" THEN "error" ELSE kind
           /\ output' = IF kind = "failed" THEN output ELSE [of |-> r, n |-> buffer[r]]
      ELSE busy' = busy /\ finishReason' = finishReason /\ output' = output
  BY <1>2 DEF End, OnEnd
<1>4. TypeOK'
  <2>1. stage' \in [Requests -> Stages]
    BY <1>1 DEF IInv, TypeOK, Stages
  <2>2. ends' \in [Requests -> Seq(Kinds)]
    BY <1>1 DEF IInv, TypeOK
  <2>3. output' \in [of : Requests \cup {None}, n : Nat]
    BY <1>3 DEF IInv, TypeOK
  <2>4. finishReason' \in {"none", "stop", "cancelled", "error"} /\ busy' \in BOOLEAN
    BY <1>3 DEF IInv, TypeOK, Kinds
  <2>. QED
    BY <1>1, <2>1, <2>2, <2>3, <2>4 DEF IInv, TypeOK
<1>5. \A q \in Requests : stage'[q] = IF q = r THEN "over" ELSE stage[q]
  BY <1>1 DEF IInv, TypeOK
<1>6. NoLeftovers'
  BY <1>1, <1>5 DEF IInv, TypeOK, NoLeftovers, Under
<1>7. ShownIsCurrent'
  BY <1>1, <1>3, NoneNoRequest DEF IInv, TypeOK, ShownIsCurrent, TextInv
<1>8. BusyWithCurrent'
  BY <1>1, <1>3, <1>5, NoneNoRequest DEF IInv, TypeOK, BusyWithCurrent
<1>9. TextInv'
  BY <1>1, <1>5 DEF IInv, TextInv
<1>10. EndsInv'
  <2>1. ends'[r] # <<>>
    BY <1>1 DEF IInv, TypeOK
  <2>2. \A q \in Requests : q # r => ends'[q] = ends[q]
    BY <1>1 DEF IInv, TypeOK
  <2>. QED BY <1>5, <2>1, <2>2 DEF IInv, EndsInv
<1>11. CurrentInv'
  BY <1>1, <1>5, NoneNoRequest DEF IInv, TypeOK, CurrentInv
<1>. QED BY <1>4, <1>6, <1>7, <1>8, <1>9, <1>10, <1>11 DEF IInv

\* Moving a live request on, to the credential or to its reply.
LEMMA MoveInv ==
  ASSUME IInv, NEW r \in Requests, NEW to \in {"token", "open"},
         \/ stage[r] = "queued" /\ (to = "open" => backend[r] = "ollama")
         \/ stage[r] = "token" /\ to = "open",
         stage' = [stage EXCEPT ![r] = to],
         gatewayIds' = gatewayIds \cup {q \in {r} : backend[r] = "gateway"},
         cancelledRequests' = cancelledRequests \ {r},
         cancelledStreams' = cancelledStreams \ {r},
         connection' \in Links,
         badKeys' \in SUBSET ConfigKeys,
         UNCHANGED <<backend, ends, live, text, received, controller, check>>
  PROVE  IInv'
<1>1. \A q \in Requests : stage'[q] = IF q = r THEN to ELSE stage[q]
  BY DEF IInv, TypeOK
<1>2. TypeOK'
  <2>1. stage' \in [Requests -> Stages]
    BY DEF IInv, TypeOK, Stages
  <2>. QED BY <2>1 DEF IInv, TypeOK, controller
<1>3. NoLeftovers'
  <2>1. live' = Under({"queued", "token", "open"})'
    BY <1>1 DEF IInv, NoLeftovers, Under
  <2>2. gatewayIds' = {q \in Under({"token", "open"}) : backend[q] = "gateway"}'
    BY <1>1 DEF IInv, NoLeftovers, Under
  <2>3. (cancelledRequests \subseteq Under({"queued"}))'
        /\ (cancelledStreams \subseteq Under({"token"}))'
    BY <1>1 DEF IInv, NoLeftovers, Under
  <2>4. buffered' = Under({"refused", "queued", "token", "open"})'
    BY <1>1 DEF IInv, NoLeftovers, Under, controller
  <2>. QED BY <2>1, <2>2, <2>3, <2>4 DEF NoLeftovers
<1>4. ShownIsCurrent' /\ TextInv' /\ EndsInv'
  BY <1>1 DEF IInv, ShownIsCurrent, TextInv, EndsInv, controller
<1>5. BusyWithCurrent' /\ CurrentInv'
  BY <1>1, NoneNoRequest DEF IInv, TypeOK, BusyWithCurrent, CurrentInv, controller
<1>. QED BY <1>2, <1>3, <1>4, <1>5 DEF IInv

\* Steps that change nothing but the gateway's state.
LEMMA GatewayInv ==
  ASSUME IInv,
         connection' \in Links,
         check' \in [Checks -> {"idle", "token", "http"}],
         badKeys' \in SUBSET ConfigKeys,
         UNCHANGED <<stage, backend, ends, service, controller>>
  PROVE  IInv'
<1>1. TypeOK'
  BY DEF IInv, TypeOK, service, controller
<1>2. NoLeftovers'
  BY DEF IInv, NoLeftovers, Under, service, controller
<1>3. ShownIsCurrent' /\ BusyWithCurrent' /\ TextInv' /\ EndsInv' /\ CurrentInv'
  BY DEF IInv, ShownIsCurrent, BusyWithCurrent, TextInv, EndsInv, CurrentInv, service,
         controller
<1>. QED BY <1>1, <1>2, <1>3 DEF IInv

\* A frame of an open stream.
LEMMA FrameInv ==
  ASSUME IInv, NEW r \in Requests, Frame(r)
  PROVE  IInv'
<1>1. /\ stage[r] = "open" /\ r \in buffered
      /\ received' \in [Requests -> 0..StreamCap]
      /\ UNCHANGED <<stage, backend, ends, live, gatewayIds, gateway>>
      /\ UNCHANGED <<cancelledRequests, cancelledStreams, busy, current, finishReason,
                     buffered>>
  <2>1. stage[r] = "open" /\ received[r] < StreamCap
        /\ received' = [received EXCEPT ![r] = @ + 1]
    BY DEF Frame
  <2>2. received[r] + 1 \in 0..StreamCap
    BY <2>1, CreativeAssumption DEF IInv, TypeOK
  <2>. QED
    BY <2>1, <2>2
    DEF Frame, OnChunk, KeepMarks, controller, IInv, TypeOK, NoLeftovers, Under
<1>2. \/ /\ text' = [text EXCEPT ![r] = @ + 1]
         /\ buffer' = [buffer EXCEPT ![r] = @ + 1]
         /\ output' = IF r = current THEN [of |-> r, n |-> buffer'[r]] ELSE output
      \/ text' = text /\ buffer' = buffer /\ output' = output
  BY <1>1 DEF Frame, OnChunk, controller
<1>3. TypeOK'
  <2>1. text' \in [Requests -> Nat] /\ buffer' \in [Requests -> Nat]
    <3>1. text \in [Requests -> Nat] /\ buffer \in [Requests -> Nat]
      BY DEF IInv, TypeOK
    <3>2. [text EXCEPT ![r] = @ + 1] \in [Requests -> Nat]
      BY ONLY r \in Requests, <3>1
    <3>3. [buffer EXCEPT ![r] = @ + 1] \in [Requests -> Nat]
      BY ONLY r \in Requests, <3>1
    <3>. QED BY <1>2, <3>1, <3>2, <3>3
  <2>2. output' \in [of : Requests \cup {None}, n : Nat]
    BY <1>2, <2>1 DEF IInv, TypeOK
  <2>. QED BY <1>1, <2>1, <2>2 DEF IInv, TypeOK, gateway
<1>4. NoLeftovers'
  BY <1>1 DEF IInv, NoLeftovers, Under
<1>5. ShownIsCurrent'
  BY <1>1, <1>2, NoneNoRequest DEF IInv, TypeOK, ShownIsCurrent, TextInv
<1>6. TextInv'
  BY <1>1, <1>2 DEF IInv, TypeOK, TextInv
<1>7. BusyWithCurrent' /\ EndsInv' /\ CurrentInv'
  BY <1>1 DEF IInv, BusyWithCurrent, EndsInv, CurrentInv
<1>. QED BY <1>3, <1>4, <1>5, <1>6, <1>7 DEF IInv

\* A new request, and the cancellation of the one before it.
LEMMA GenerateInv ==
  ASSUME IInv, NEW r \in Requests, Generate(r)
  PROVE  IInv'
<1> DEFINE old     == {q \in live : busy /\ q = current}
           aborted == {q \in old : stage[q] = "open"}
<1>1. PICK valid \in BOOLEAN :
        /\ stage' = [q \in Requests |->
                       CASE q \in aborted -> "over"
                         [] q = r         -> IF valid THEN "queued" ELSE "refused"
                         [] OTHER         -> stage[q]]
        /\ live' = (live \ aborted) \cup IF valid THEN {r} ELSE {}
  BY DEF Generate
<1>2. /\ stage[r] = "new"
      /\ Mark(old)
      /\ gatewayIds' = gatewayIds \ aborted
      /\ ends' = [q \in Requests |-> IF q \in aborted THEN Append(ends[q], "cancelled")
                                                      ELSE ends[q]]
      /\ busy' = TRUE /\ current' = r /\ finishReason' = "none" /\ output' = NoOutput
      /\ buffered' = (buffered \ aborted) \cup {r}
      /\ UNCHANGED <<backend, text, received, buffer, gateway>>
  BY DEF Generate
<1>3. aborted \subseteq live /\ aborted \subseteq Requests /\ r \notin aborted
      /\ \A q \in aborted : stage[q] = "open"
  BY <1>2 DEF IInv, TypeOK
<1>4. old \subseteq Requests
  BY DEF IInv, TypeOK
<1>5. /\ cancelledRequests' = cancelledRequests \cup {q \in old : stage[q] = "queued"}
      /\ cancelledStreams' = cancelledStreams \cup {q \in old : stage[q] = "token"}
  BY <1>2 DEF Mark
<1>. HIDE DEF old, aborted
<1>6. \A q \in Requests :
        /\ q \in aborted => stage'[q] = "over"
        /\ q = r => stage'[q] \in {"queued", "refused"}
        /\ q = r => (valid <=> stage'[q] = "queued")
        /\ q \notin aborted /\ q # r => stage'[q] = stage[q]
  BY <1>1, <1>3
<1>7. TypeOK'
  <2>1. stage' \in [Requests -> Stages]
    BY <1>1 DEF IInv, TypeOK, Stages
  <2>2. \A q \in Requests : Append(ends[q], "cancelled") \in Seq(Kinds)
    BY DEF IInv, TypeOK, Kinds
  <2>3. ends' \in [Requests -> Seq(Kinds)]
    BY <1>2, <2>2 DEF IInv, TypeOK
  <2>4. live' \in SUBSET Requests
    BY <1>1 DEF IInv, TypeOK
  <2>5. cancelledRequests' \in SUBSET Requests /\ cancelledStreams' \in SUBSET Requests
    BY <1>4, <1>5 DEF IInv, TypeOK
  <2>6. output' \in [of : Requests \cup {None}, n : Nat]
    BY <1>2 DEF NoOutput
  <2>. QED
    BY <1>2, <2>1, <2>3, <2>4, <2>5, <2>6 DEF IInv, TypeOK, gateway
<1>8. NoLeftovers'
  <2>1. live' = Under({"queued", "token", "open"})'
    BY <1>1, <1>2, <1>3, <1>6 DEF IInv, NoLeftovers, Under
  <2>2. gatewayIds' = {q \in Under({"token", "open"}) : backend[q] = "gateway"}'
    BY <1>2, <1>3, <1>6 DEF IInv, NoLeftovers, Under
  <2>3. (cancelledRequests \subseteq Under({"queued"}))'
        /\ (cancelledStreams \subseteq Under({"token"}))'
    BY <1>2, <1>3, <1>4, <1>5, <1>6 DEF IInv, NoLeftovers, Under
  <2>4. buffered' = Under({"refused", "queued", "token", "open"})'
    BY <1>2, <1>3, <1>6 DEF IInv, NoLeftovers, Under
  <2>. QED BY <2>1, <2>2, <2>3, <2>4 DEF NoLeftovers
<1>9. ShownIsCurrent' /\ BusyWithCurrent' /\ CurrentInv'
  BY <1>2, <1>6, NoneNoRequest
  DEF IInv, TypeOK, ShownIsCurrent, BusyWithCurrent, CurrentInv, TextInv, NoOutput
<1>10. TextInv'
  BY <1>2, <1>3, <1>6 DEF IInv, TextInv
<1>11. EndsInv'
  <2>1. ASSUME NEW q \in aborted PROVE ends'[q] # <<>>
    <3>1. q \in Requests /\ ends[q] \in Seq(Kinds)
      BY <1>3 DEF IInv, TypeOK
    <3>2. ends'[q] = Append(ends[q], "cancelled")
      BY <1>2, <3>1
    <3>. QED BY <3>1, <3>2
  <2>2. \A q \in Requests : q \notin aborted => ends'[q] = ends[q]
    BY <1>2
  <2>. QED BY <1>2, <1>6, <2>1, <2>2 DEF IInv, EndsInv
<1>. QED BY <1>7, <1>8, <1>9, <1>10, <1>11 DEF IInv

-----------------------------------------------------------------------------
\* Each event of a request is an end, a move or a frame: the facts that both the
\* invariant and the refinement use.
LEMMA RefuseEnds ==
  ASSUME IInv, NEW r \in Requests, Refuse(r)
  PROVE  /\ stage[r] = "refused" /\ End(r, "failed")
         /\ cancelledRequests' = cancelledRequests \ {r}
         /\ cancelledStreams' = cancelledStreams \ {r}
         /\ UNCHANGED gateway
  BY DEF Refuse, KeepMarks, IInv, NoLeftovers, Under

\* What the posted start of a request comes to.
Begins(r, to) ==
  /\ stage' = [stage EXCEPT ![r] = to]
  /\ gatewayIds' = gatewayIds \cup {q \in {r} : backend[r] = "gateway"}
  /\ UNCHANGED <<backend, ends, live, text, received, controller>>

LEMMA StartMoves ==
  ASSUME IInv, NEW r \in Requests, Start(r)
  PROVE  /\ stage[r] = "queued"
         /\ cancelledRequests' = cancelledRequests \ {r}
         /\ cancelledStreams' = cancelledStreams \ {r}
         /\ check' = check /\ connection' \in Links /\ badKeys' \in SUBSET ConfigKeys
         /\ \/ r \in cancelledRequests /\ End(r, "cancelled")
            \/ r \notin cancelledRequests /\ End(r, "failed")
            \/ /\ r \notin cancelledRequests
               /\ \E to \in {"token", "open"} :
                    Begins(r, to) /\ (to = "open" => backend[r] = "ollama")
<1>1. stage[r] = "queued" /\ check' = check /\ cancelledStreams' = cancelledStreams
  BY DEF Start
<1>2. r \notin cancelledStreams /\ r \notin gatewayIds
  BY <1>1 DEF IInv, NoLeftovers, Under
<1>3. CASE /\ r \in cancelledRequests
           /\ cancelledRequests' = cancelledRequests \ {r}
           /\ End(r, "cancelled")
           /\ UNCHANGED <<connection, badKeys>>
  BY <1>1, <1>2, <1>3 DEF IInv, TypeOK
<1>4. CASE /\ r \notin cancelledRequests /\ backend[r] = "gateway"
           /\ stage' = [stage EXCEPT ![r] = "token"]
           /\ gatewayIds' = gatewayIds \cup {r}
           /\ connection' = "connecting"
           /\ UNCHANGED <<backend, ends, live, text, received, cancelledRequests,
                          controller, badKeys>>
  <2>1. Begins(r, "token")
    BY <1>4 DEF Begins
  <2>. QED BY <1>1, <1>2, <1>4, <2>1 DEF IInv, TypeOK, Links
<1>5. CASE /\ r \notin cancelledRequests /\ backend[r] = "ollama"
           /\ IF "ollama.baseUrl" \in badKeys THEN End(r, "failed") ELSE Opened(r)
           /\ badKeys' = badKeys \ {"ollama.baseUrl"}
           /\ UNCHANGED <<connection, cancelledRequests>>
  <2>1. End(r, "failed") \/ Begins(r, "open")
    BY <1>5 DEF Begins, Opened
  <2>. QED BY <1>1, <1>2, <1>5, <2>1 DEF IInv, TypeOK
<1>. QED BY <1>3, <1>4, <1>5 DEF Start

LEMMA TokenReadMoves ==
  ASSUME IInv, NEW r \in Requests, TokenRead(r)
  PROVE  /\ stage[r] = "token"
         /\ cancelledRequests' = cancelledRequests \ {r}
         /\ cancelledStreams' = cancelledStreams \ {r}
         /\ check' = check /\ connection' \in Links /\ badKeys' \in SUBSET ConfigKeys
         /\ \/ r \in cancelledStreams /\ End(r, "cancelled")
            \/ r \notin cancelledStreams /\ End(r, "failed")
            \/ r \notin cancelledStreams /\ Begins(r, "open")
<1>1. /\ stage[r] = "token" /\ check' = check
      /\ cancelledRequests' = cancelledRequests /\ cancelledStreams' = cancelledStreams \ {r}
  BY DEF TokenRead
<1>2. r \notin cancelledRequests
  BY <1>1 DEF IInv, NoLeftovers, Under
<1>3. backend[r] = "gateway" => r \in gatewayIds
  BY <1>1 DEF IInv, NoLeftovers, Under
<1>4. Opened(r) => Begins(r, "open")
  BY <1>3 DEF Opened, Begins
<1>5. connection' \in Links /\ badKeys' \in SUBSET ConfigKeys
  BY DEF TokenRead, IInv, TypeOK, Links
<1>6. \/ r \in cancelledStreams /\ End(r, "cancelled")
      \/ r \notin cancelledStreams /\ End(r, "failed")
      \/ r \notin cancelledStreams /\ Opened(r)
  BY DEF TokenRead
<1>. QED BY <1>1, <1>2, <1>4, <1>5, <1>6

LEMMA ReplyEnds ==
  ASSUME IInv, NEW r \in Requests, ReplyFailed(r) \/ ReplyFinished(r)
  PROVE  /\ stage[r] = "open"
         /\ r \notin cancelledRequests \cup cancelledStreams
         /\ cancelledRequests' = cancelledRequests \ {r}
         /\ cancelledStreams' = cancelledStreams \ {r}
         /\ check' = check /\ connection' \in Links /\ badKeys' = badKeys
         /\ End(r, "failed") \/ End(r, "stop")
<1>1. stage[r] = "open" /\ KeepMarks
  BY DEF ReplyFailed, ReplyFinished
<1>2. r \notin cancelledRequests \cup cancelledStreams
  BY <1>1 DEF IInv, NoLeftovers, Under
<1>3. check' = check /\ connection' \in Links /\ badKeys' = badKeys
  BY DEF ReplyFailed, ReplyFinished, Observe, IInv, TypeOK, Links
<1>4. End(r, "failed") \/ End(r, "stop")
  BY DEF ReplyFailed, ReplyFinished
<1>. QED BY <1>1, <1>2, <1>3, <1>4 DEF KeepMarks

\* A cancellation ends an open request or marks one that is not open yet.
LEMMA CancelMoves ==
  ASSUME IInv, Cancel
  PROVE  /\ current \in Requests /\ current \in live
         /\ UNCHANGED gateway
         /\ \/ /\ stage[current] = "open" /\ End(current, "cancelled")
               /\ current \notin cancelledRequests \cup cancelledStreams
               /\ cancelledRequests' = cancelledRequests \ {current}
               /\ cancelledStreams' = cancelledStreams \ {current}
            \/ /\ stage[current] \in {"queued", "token"}
               /\ cancelledRequests' \cup cancelledStreams'
                    = (cancelledRequests \cup cancelledStreams) \cup {current}
               /\ cancelledRequests' \subseteq Under({"queued"})
               /\ cancelledStreams' \subseteq Under({"token"})
               /\ UNCHANGED <<stage, backend, ends, live, text, received, gatewayIds,
                              controller>>
<1>1. current \in live /\ current \in Requests /\ Mark({current}) /\ UNCHANGED gateway
  BY DEF Cancel, IInv, TypeOK
<1>2. CASE stage[current] = "open"
  BY <1>1, <1>2 DEF Cancel, Mark, IInv, NoLeftovers, Under
<1>3. CASE stage[current] # "open"
  <2>1. stage[current] \in {"queued", "token"}
    BY <1>1, <1>3 DEF IInv, NoLeftovers, Under
  <2>. QED BY <1>1, <1>3, <2>1 DEF Cancel, Mark, IInv, NoLeftovers, Under
<1>. QED BY <1>1, <1>2, <1>3

-----------------------------------------------------------------------------
\* Every step keeps the inductive invariant.
LEMMA NextIInv == IInv /\ [Next]_vars => IInv'
<1> SUFFICES ASSUME IInv, [Next]_vars PROVE IInv'
  OBVIOUS
<1>1. CASE Cancel
  <2>1. CASE stage[current] = "open" /\ End(current, "cancelled")
    <3>1. connection' \in Links /\ check' = check /\ badKeys' \in SUBSET ConfigKeys
      BY <1>1, CancelMoves DEF gateway, IInv, TypeOK
    <3>2. "cancelled" \in Kinds
      BY DEF Kinds
    <3>. QED
      BY <1>1, <2>1, <3>1, <3>2, CancelMoves, EndInv
  <2>2. CASE /\ cancelledRequests' \subseteq Under({"queued"})
             /\ cancelledStreams' \subseteq Under({"token"})
             /\ UNCHANGED <<stage, backend, ends, live, text, received, gatewayIds,
                            controller>>
    <3>1. UNCHANGED gateway
      BY <1>1, CancelMoves
    <3>2. TypeOK'
      <4>1. cancelledRequests' \in SUBSET Requests /\ cancelledStreams' \in SUBSET Requests
        BY <2>2 DEF Under
      <4>. QED BY <2>2, <3>1, <4>1 DEF IInv, TypeOK, gateway, controller
    <3>3. NoLeftovers'
      BY <2>2 DEF IInv, NoLeftovers, Under, controller
    <3>4. /\ ShownIsCurrent' /\ BusyWithCurrent'
          /\ TextInv' /\ EndsInv' /\ CurrentInv'
      BY <2>2
      DEF IInv, ShownIsCurrent, BusyWithCurrent, TextInv, EndsInv, CurrentInv, controller
    <3>. QED BY <3>2, <3>3, <3>4 DEF IInv
  <2>. QED BY <1>1, <2>1, <2>2, CancelMoves
<1>2. ASSUME NEW r \in Requests, Generate(r) PROVE IInv'
  BY <1>2, GenerateInv
<1>3. ASSUME NEW r \in Requests, Refuse(r) PROVE IInv'
  <2>1. connection' \in Links /\ check' = check /\ badKeys' \in SUBSET ConfigKeys
    BY <1>3, RefuseEnds DEF gateway, IInv, TypeOK
  <2>2. "failed" \in Kinds
    BY DEF Kinds
  <2>. QED BY <1>3, <2>1, <2>2, RefuseEnds, EndInv
<1>4. ASSUME NEW r \in Requests, Start(r) PROVE IInv'
  <2>1. CASE End(r, "cancelled") \/ End(r, "failed")
    <3>1. "cancelled" \in Kinds /\ "failed" \in Kinds
      BY DEF Kinds
    <3>. QED BY <1>4, <2>1, <3>1, StartMoves, EndInv
  <2>2. CASE \E to \in {"token", "open"} :
               Begins(r, to) /\ (to = "open" => backend[r] = "ollama")
    <3>1. PICK to \in {"token", "open"} :
            Begins(r, to) /\ (to = "open" => backend[r] = "ollama")
      BY <2>2
    <3>. QED BY <1>4, <3>1, StartMoves, MoveInv DEF Begins
  <2>. QED BY <1>4, <2>1, <2>2, StartMoves
<1>5. ASSUME NEW r \in Requests, TokenRead(r) PROVE IInv'
  <2>1. CASE End(r, "cancelled") \/ End(r, "failed")
    <3>1. "cancelled" \in Kinds /\ "failed" \in Kinds
      BY DEF Kinds
    <3>. QED BY <1>5, <2>1, <3>1, TokenReadMoves, EndInv
  <2>2. CASE Begins(r, "open")
    BY <1>5, <2>2, TokenReadMoves, MoveInv DEF Begins
  <2>. QED BY <1>5, <2>1, <2>2, TokenReadMoves
<1>6. ASSUME NEW r \in Requests, Frame(r) PROVE IInv'
  BY <1>6, FrameInv
<1>7. ASSUME NEW r \in Requests, ReplyFailed(r) \/ ReplyFinished(r) PROVE IInv'
  <2>1. "failed" \in Kinds /\ "stop" \in Kinds /\ badKeys \in SUBSET ConfigKeys
    BY DEF Kinds, IInv, TypeOK
  <2>. QED BY <1>7, <2>1, ReplyEnds, EndInv
<1>8. ASSUME NEW k \in Checks, Health(k) PROVE IInv'
  <2>1. UNCHANGED <<stage, backend, ends, service, controller>>
    BY <1>8 DEF Health, Check, CheckToken, CheckDone
  <2>2. /\ connection' \in Links
        /\ check' \in [Checks -> {"idle", "token", "http"}]
        /\ badKeys' \in SUBSET ConfigKeys
    <3>1. CASE Check(k)
      BY <3>1 DEF Check, IInv, TypeOK, Links
    <3>2. CASE CheckToken(k)
      BY <3>2 DEF CheckToken, IInv, TypeOK, Links
    <3>3. CASE CheckDone(k)
      BY <3>3 DEF CheckDone, IInv, TypeOK, Links
    <3>. QED BY <1>8, <3>1, <3>2, <3>3 DEF Health
  <2>. QED BY <2>1, <2>2, GatewayInv
<1>9. CASE UNCHANGED vars
  <2>1. UNCHANGED <<stage, backend, ends, service, controller, gateway>>
    BY <1>9 DEF vars
  <2>. QED BY <2>1, GatewayInv DEF gateway, IInv, TypeOK
<1>. QED
  BY <1>1, <1>2, <1>3, <1>4, <1>5, <1>6, <1>7, <1>8, <1>9 DEF Next, Posted

THEOREM IInvHolds == Spec => []IInv
<1>. QED BY InitIInv, NextIInv, PTL DEF Spec

\* The types of the state, and with them the cap on what a stream may bring.
THEOREM TypeCorrect == Spec => []TypeOK
<1>1. IInv => TypeOK
  BY DEF IInv
<1>. QED BY <1>1, IInvHolds, PTL

\* No table and no mark of the services outlives the request it is about.
THEOREM NothingLeftOver == Spec => []NoLeftovers
<1>1. IInv => NoLeftovers
  BY DEF IInv
<1>. QED BY <1>1, IInvHolds, PTL

\* What is shown is always the current request's text.
THEOREM CurrentIsShown == Spec => []ShownIsCurrent
<1>1. IInv => ShownIsCurrent
  BY DEF IInv
<1>. QED BY <1>1, IInvHolds, PTL

\* The controller is busy exactly while the current request has not ended.
THEOREM BusyIsCurrent == Spec => []BusyWithCurrent
<1>1. IInv => BusyWithCurrent
  BY DEF IInv
<1>. QED BY <1>1, IInvHolds, PTL

-----------------------------------------------------------------------------
\* The refinement's variables.
Running == Under({"refused", "queued", "token", "open"})
Marked  == cancelledRequests \cup cancelledStreams

LEMMA InitRefines == Init => Promise!Init
  BY DEF Init, Promise!Init, Under

\* An end of the service is an end of the promise.
LEMMA EndRefines ==
  ASSUME IInv, NEW r \in Requests, NEW kind \in Kinds, r \in Running,
         End(r, kind),
         r \in Marked => kind = "cancelled",
         cancelledRequests' = cancelledRequests \ {r},
         cancelledStreams' = cancelledStreams \ {r}
  PROVE  Promise!Next
<1>1. Running' = Running \ {r}
  BY DEF Running, Under, End, IInv, TypeOK
<1>2. Marked' = Marked \ {r}
  BY DEF Marked
<1>3. ends' = [ends EXCEPT ![r] = Append(@, kind)] /\ text' = text
  BY DEF End
<1>4. Promise!End(r, kind)
  BY <1>1, <1>2, <1>3 DEF Promise!End, Promise!Ended, Running, Marked
<1>5. kind \in Promise!Kinds
  BY DEF Kinds, Promise!Kinds
<1>. QED BY <1>4, <1>5 DEF Promise!Next

\* A move from one stage to the next, with no mark touched, is not seen.
LEMMA MoveRefines ==
  ASSUME IInv, NEW r \in Requests, NEW to \in {"token", "open"}, r \in Running,
         Begins(r, to), r \notin Marked,
         cancelledRequests' = cancelledRequests \ {r},
         cancelledStreams' = cancelledStreams \ {r}
  PROVE  UNCHANGED Promise!vars
<1>1. Running' = Running
  BY DEF Running, Under, Begins, IInv, TypeOK
<1>2. Marked' = Marked
  BY DEF Marked
<1>. QED BY <1>1, <1>2 DEF Promise!vars, Begins, Running, Marked

LEMMA GenerateRefines ==
  ASSUME IInv, NEW r \in Requests, Generate(r)
  PROVE  Promise!Generate(r)
<1> DEFINE old     == {q \in live : busy /\ q = current}
           aborted == {q \in old : stage[q] = "open"}
<1>1. PICK valid \in BOOLEAN :
        stage' = [q \in Requests |->
                       CASE q \in aborted -> "over"
                         [] q = r         -> IF valid THEN "queued" ELSE "refused"
                         [] OTHER         -> stage[q]]
  BY DEF Generate
<1>2. /\ stage[r] = "new"
      /\ Mark(old)
      /\ ends' = [q \in Requests |-> IF q \in aborted THEN Append(ends[q], "cancelled")
                                                      ELSE ends[q]]
      /\ text' = text
  BY DEF Generate
<1>3. r \notin Running /\ ends[r] = <<>>
  BY <1>2 DEF IInv, EndsInv, Running, Under
<1>4. Promise!Made(r)
  BY <1>3 DEF Promise!Made, Running
<1>5. old \subseteq Running /\ old \subseteq Requests
  BY DEF IInv, TypeOK, NoLeftovers, Running, Under
<1>6. Running' = (Running \ aborted) \cup {r}
  <2>1. ASSUME NEW q \in Requests PROVE q \in Running' <=> q \in (Running \ aborted) \cup {r}
    <3>1. CASE q \in aborted
      BY <1>1, <1>2, <3>1 DEF Running, Under
    <3>2. CASE q \notin aborted /\ q = r
      BY <1>1, <3>2 DEF Running, Under
    <3>3. CASE q \notin aborted /\ q # r
      BY <1>1, <3>3 DEF Running, Under
    <3>. QED BY <3>1, <3>2, <3>3
  <2>. QED BY <2>1 DEF Running, Under
<1>7. CASE aborted = {}
  <2>1. Running' = Running \cup {r} /\ ends' = ends
    BY <1>2, <1>6, <1>7 DEF IInv, TypeOK
  <2>2. Marked' = Marked \cup {q \in old : stage[q] \in {"queued", "token"}}
    BY <1>2 DEF Mark, Marked
  <2>3. {q \in old : stage[q] \in {"queued", "token"}} \in SUBSET Running
    BY <1>5
  <2>. QED
    BY <1>2, <1>4, <2>1, <2>2, <2>3 DEF Promise!Generate, Running, Marked
<1>8. CASE aborted # {}
  <2>1. aborted = {current} /\ old = {current} /\ current \in Running
        /\ stage[current] = "open" /\ current \in Requests
    BY <1>5, <1>8
  <2>2. Marked' = Marked
    BY <1>2, <2>1 DEF Mark, Marked
  <2>3. current \notin Marked
    BY <2>1 DEF IInv, NoLeftovers, Marked, Under
  <2>4. ends' = [ends EXCEPT ![current] = Append(@, "cancelled")]
    BY <1>2, <2>1 DEF IInv, TypeOK
  <2>5. Running' = (Running \ {current}) \cup {r}
    BY <1>6, <2>1
  <2>. QED
    BY <1>2, <1>4, <2>1, <2>2, <2>3, <2>4, <2>5
    DEF Promise!Generate, Promise!Ended, Running, Marked
<1>. QED BY <1>7, <1>8

\* Every step is a step of the promise or is not seen by it.
LEMMA NextRefines == IInv /\ [Next]_vars => [Promise!Next]_(Promise!vars)
<1> SUFFICES ASSUME IInv, [Next]_vars PROVE Promise!Next \/ UNCHANGED Promise!vars
  OBVIOUS
<1>0. "cancelled" \in Kinds /\ "failed" \in Kinds /\ "stop" \in Kinds
  BY DEF Kinds
<1>1. CASE Cancel
  <2>1. current \in Requests /\ current \in Running
    BY <1>1, CancelMoves DEF IInv, NoLeftovers, Running, Under
  <2>2. CASE /\ End(current, "cancelled")
             /\ cancelledRequests' = cancelledRequests \ {current}
             /\ cancelledStreams' = cancelledStreams \ {current}
    BY <1>0, <2>1, <2>2, EndRefines
  <2>3. CASE /\ Marked' = Marked \cup {current}
             /\ UNCHANGED <<stage, ends, text>>
    <3>1. Running' = Running
      BY <2>3 DEF Running, Under
    <3>2. Promise!Cancel(current)
      BY <2>1, <2>3, <3>1 DEF Promise!Cancel, Running, Marked
    <3>. QED BY <2>1, <3>2 DEF Promise!Next
  <2>. QED BY <1>1, <2>2, <2>3, CancelMoves DEF Marked
<1>2. ASSUME NEW r \in Requests, Generate(r) PROVE Promise!Next
  BY <1>2, GenerateRefines DEF Promise!Next
<1>3. ASSUME NEW r \in Requests, Refuse(r) PROVE Promise!Next
  <2>1. r \in Running /\ r \notin Marked
    BY <1>3, RefuseEnds DEF IInv, NoLeftovers, Running, Marked, Under
  <2>. QED BY <1>0, <1>3, <2>1, RefuseEnds, EndRefines
<1>4. ASSUME NEW r \in Requests, Start(r) PROVE Promise!Next \/ UNCHANGED Promise!vars
  <2>1. r \in Running /\ r \notin cancelledStreams
    BY <1>4, StartMoves DEF IInv, NoLeftovers, Running, Under
  <2>2. CASE r \in cancelledRequests /\ End(r, "cancelled")
    BY <1>0, <1>4, <2>1, <2>2, StartMoves, EndRefines
  <2>3. CASE r \notin cancelledRequests /\ End(r, "failed")
    BY <1>0, <1>4, <2>1, <2>3, StartMoves, EndRefines DEF Marked
  <2>4. CASE r \notin cancelledRequests /\ \E to \in {"token", "open"} : Begins(r, to)
    BY <1>4, <2>1, <2>4, StartMoves, MoveRefines DEF Marked
  <2>. QED BY <1>4, <2>2, <2>3, <2>4, StartMoves
<1>5. ASSUME NEW r \in Requests, TokenRead(r) PROVE Promise!Next \/ UNCHANGED Promise!vars
  <2>1. r \in Running /\ r \notin cancelledRequests
    BY <1>5, TokenReadMoves DEF IInv, NoLeftovers, Running, Under
  <2>2. CASE r \in cancelledStreams /\ End(r, "cancelled")
    BY <1>0, <1>5, <2>1, <2>2, TokenReadMoves, EndRefines
  <2>3. CASE r \notin cancelledStreams /\ End(r, "failed")
    BY <1>0, <1>5, <2>1, <2>3, TokenReadMoves, EndRefines DEF Marked
  <2>4. CASE r \notin cancelledStreams /\ Begins(r, "open")
    BY <1>5, <2>1, <2>4, TokenReadMoves, MoveRefines DEF Marked
  <2>. QED BY <1>5, <2>2, <2>3, <2>4, TokenReadMoves
<1>6. ASSUME NEW r \in Requests, Frame(r) PROVE Promise!Next \/ UNCHANGED Promise!vars
  <2>1. /\ r \in Running /\ r \notin Marked
        /\ UNCHANGED <<stage, ends, cancelledRequests, cancelledStreams>>
    BY <1>6 DEF Frame, KeepMarks, IInv, NoLeftovers, Running, Marked, Under
  <2>2. text' = [text EXCEPT ![r] = @ + 1] \/ text' = text
    BY <1>6 DEF Frame
  <2>3. Running' = Running /\ Marked' = Marked
    BY <2>1 DEF Running, Marked, Under
  <2>4. CASE text' = [text EXCEPT ![r] = @ + 1]
    <3>1. Promise!Chunk(r)
      BY <2>1, <2>3, <2>4 DEF Promise!Chunk, Promise!Signal, Running, Marked
    <3>. QED BY <3>1 DEF Promise!Next
  <2>5. CASE text' = text
    BY <2>1, <2>3, <2>5 DEF Promise!vars, Running, Marked
  <2>. QED BY <2>2, <2>4, <2>5
<1>7. ASSUME NEW r \in Requests, ReplyFailed(r) \/ ReplyFinished(r) PROVE Promise!Next
  <2>1. r \in Running
    BY <1>7, ReplyEnds DEF Running, Under
  <2>. QED BY <1>0, <1>7, <2>1, ReplyEnds, EndRefines DEF Marked
<1>8. CASE UNCHANGED <<stage, ends, service>>
  BY <1>8 DEF service, Promise!vars, Under
<1>9. ASSUME NEW k \in Checks, Health(k) PROVE Promise!Next \/ UNCHANGED Promise!vars
  <2>1. UNCHANGED <<stage, ends, service>>
    BY <1>9 DEF Health, Check, CheckToken, CheckDone
  <2>. QED BY <1>8, <2>1
<1>10. CASE UNCHANGED vars
  BY <1>8, <1>10 DEF vars
<1>. QED
  BY <1>1, <1>2, <1>3, <1>4, <1>5, <1>6, <1>7, <1>9, <1>10 DEF Next, Posted

\* Each request that is made is answered by chunks and then exactly one end, and an
\* accepted cancellation by "cancelled" alone.
THEOREM Refinement == Spec => PromiseKept
<1>. QED BY InitRefines, IInvHolds, NextRefines, PTL DEF Spec, PromiseKept, Promise!Spec
=============================================================================
