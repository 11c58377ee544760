---------------------------- MODULE HttpRequest ----------------------------
(***************************************************************************)
(* HttpClient::request: one RequestOperation, from the call to the         *)
(* finished promise.  The network is the environment: headers, chunks and  *)
(* the end of a reply come when they like, or never; two timers bound each *)
(* attempt and a third one delays the next.                                *)
(*                                                                         *)
(* Time is a count of ticks, and a timer that is due fires before the next *)
(* tick.  Bytes are counted, not shown.  QNetworkReply::abort() emits      *)
(* finished() before it returns, so an abort and handleFinished are one    *)
(* step.  HTTP status codes are taken by class.                            *)
(***************************************************************************)
EXTENDS Integers

CONSTANTS
  ConnectTimeout, TotalTimeout, RetryDelay,  \* in ticks
  Cap,         \* maxResponseBytes
  MaxRetries,
  MaxChunk     \* bound: the largest piece of a body that arrives at once

ASSUME HttpAssumption ==
  /\ ConnectTimeout \in Nat \ {0}
  /\ TotalTimeout \in Nat \ {0}
  /\ RetryDelay \in Nat
  /\ Cap \in Nat \ {0}
  /\ MaxRetries \in Nat
  /\ MaxChunk \in Nat

VARIABLES
  phase,    \* the operation; "abandoned" once HttpClient has been destroyed
  attempt,  \* attemptNumber_
  status,   \* of this attempt: the class of its status code, once known
  buffer,   \* bytes in buffer_
  sent,     \* bytes the server has delivered in this attempt
  forced,   \* forcedError_
  armed,    \* the active timers, all started when clock was 0
  clock,    \* ticks since they were
  elapsed,  \* ticks since the request
  result    \* of the promise: "body", an error code, or "none" yet

vars == <<phase, attempt, status, buffer, sent, forced, armed, clock, elapsed, result>>

Phases        == {"idle", "running", "waiting", "done", "abandoned"}
Timers        == {"connect", "total", "retry"}
Classes       == {"2xx", "4xx", "5xx"}
NetworkErrors == {"timeout", "tls", "unreachable"}
Results       == NetworkErrors \cup {"body", "tooLarge", "httpStatus", "invalid"}

Deadline(t) == CASE t = "connect" -> ConnectTimeout
                 [] t = "total"   -> TotalTimeout
                 [] t = "retry"   -> RetryDelay

Due(t) == t \in armed /\ clock >= Deadline(t)

-----------------------------------------------------------------------------
Init ==
  /\ phase = "idle"
  /\ attempt = 0
  /\ status = "none"
  /\ buffer = 0
  /\ sent = 0
  /\ forced = "none"
  /\ armed = {}
  /\ clock = 0
  /\ elapsed = 0
  /\ result = "none"

Complete(r) ==
  /\ phase' = "done"
  /\ result' = r

\* Mutant: the buffer keeps what an earlier attempt received.
StartAttemptDirty ==
  /\ phase' = "running"
  /\ attempt' = attempt + 1
  /\ status' = "none"
  /\ sent' = 0
  /\ forced' = "none"
  /\ armed' = {"connect", "total"}
  /\ clock' = 0
  /\ UNCHANGED <<buffer, elapsed, result>>

\* Mutant: the forced error of the last attempt is kept.
StartAttemptForced ==
  /\ phase' = "running"
  /\ attempt' = attempt + 1
  /\ status' = "none"
  /\ buffer' = 0
  /\ sent' = 0
  /\ armed' = {"connect", "total"}
  /\ clock' = 0
  /\ UNCHANGED <<forced, elapsed, result>>

\* startAttempt.  The manager is there: the first attempt is started by its
\* owner, and the retry timer's context is the manager.
StartAttempt ==
  /\ phase' = "running"
  /\ attempt' = attempt + 1
  /\ status' = "none"
  /\ buffer' = 0
  /\ sent' = 0
  /\ forced' = "none"
  /\ armed' = {"connect", "total"}
  /\ clock' = 0
  /\ UNCHANGED <<elapsed, result>>

\* request: an invalid URL or nonsensical options end it at once.
Request ==
  /\ phase = "idle"
  /\ \/ StartAttempt
     \/ /\ Complete("invalid")
        /\ UNCHANGED <<attempt, status, buffer, sent, forced, armed, clock, elapsed>>

\* What handleFinished makes of a finished reply: a forced error wins over the
\* status, and the status over the reply's own error.
Outcome(f, class, reply) ==
  CASE f # "none"              -> f
    [] class \in {"4xx", "5xx"} -> "httpStatus"
    [] OTHER                   -> reply

\* Mutant: one attempt too many.
CanRetryOnceMore(outcome, class) ==
  /\ outcome # "body"
  /\ attempt <= MaxRetries + 1
  /\ outcome \in {"timeout", "unreachable"} \/ class = "5xx"

\* Anything on a 5xx reply is retried, a forced error too.
CanRetry(outcome, class) ==
  /\ outcome # "body"
  /\ attempt <= MaxRetries
  /\ outcome \in {"timeout", "unreachable"} \/ class = "5xx"

\* handleFinished, after its last consumeAvailable: retry later or complete.
HandleFinished(reply) ==
  LET outcome == Outcome(forced', status', reply)
  IN  /\ IF CanRetry(outcome, status')
         THEN /\ phase' = "waiting"
              /\ armed' = {"retry"}
              /\ clock' = 0
              /\ UNCHANGED result
         ELSE /\ Complete(outcome)
              /\ armed' = {}
              /\ UNCHANGED clock
      /\ UNCHANGED <<attempt, elapsed>>

\* abortWith: only the first forced error counts.
AbortWith(error) ==
  IF forced = "none"
  THEN /\ forced' = error
       /\ HandleFinished("cancelled")
  ELSE UNCHANGED <<forced, phase, armed, clock, result, attempt, elapsed>>

\* Mutant: without the first test the unsigned subtraction wraps around (at 2^64
\* in the code; any modulus above the sizes shows it).
ExceedsWrapped(chunk) == buffer > (Cap - chunk) % (Cap + MaxChunk + 1)

\* consumeAvailable's test; the subtraction is only reached when it is exact.
Exceeds(chunk) == chunk > Cap \/ buffer > Cap - chunk

-----------------------------------------------------------------------------
\* Mutant: headers do not stop the connect timer.
MetaDataChangedTimed ==
  /\ phase = "running"
  /\ status = "none"
  /\ status' \in Classes
  /\ UNCHANGED <<buffer, sent>>
  /\ \/ AbortWith("tooLarge")
     \/ UNCHANGED <<armed, phase, attempt, forced, clock, elapsed, result>>

\* Headers arrive; their Content-Length is above the cap, or not or not given.
MetaDataChanged ==
  /\ phase = "running"
  /\ status = "none"
  /\ status' \in Classes
  /\ UNCHANGED <<buffer, sent>>
  /\ \/ AbortWith("tooLarge")
     \/ /\ armed' = armed \ {"connect"}
        /\ UNCHANGED <<phase, attempt, forced, clock, elapsed, result>>

\* Part of the body arrives.
ReadyRead ==
  /\ phase = "running"
  /\ status # "none"
  /\ forced = "none"
  /\ UNCHANGED status
  /\ \E chunk \in 1..MaxChunk :
       /\ sent' = sent + chunk
       /\ IF Exceeds(chunk)
          THEN /\ AbortWith("tooLarge")
               /\ UNCHANGED buffer
          ELSE /\ buffer' = buffer + chunk
               /\ armed' = armed \ {"connect"}
               /\ UNCHANGED <<phase, attempt, forced, clock, elapsed, result>>

\* The reply finishes, whole or with an error of the network, with what is left
\* of the body still to be read.
Finished ==
  /\ phase = "running"
  /\ UNCHANGED status
  /\ \E chunk \in 0..MaxChunk, reply \in NetworkErrors \cup {"body"} :
       /\ status = "none" => chunk = 0 /\ reply # "body"
       /\ sent' = sent + chunk
       /\ IF forced = "none" /\ Exceeds(chunk)
          THEN forced' = "tooLarge" /\ UNCHANGED buffer
          ELSE buffer' = (IF forced = "none" THEN buffer + chunk ELSE buffer)
               /\ UNCHANGED forced
       /\ HandleFinished(reply)

\* The connect or the total timer of the attempt fires.
TimedOut ==
  /\ phase = "running"
  /\ \E t \in {"connect", "total"} : Due(t)
  /\ AbortWith("timeout")
  /\ UNCHANGED <<status, buffer, sent>>

\* The delay before the next attempt is over.
Retry ==
  /\ phase = "waiting"
  /\ Due("retry")
  /\ StartAttempt

\* HttpClient is destroyed, and with its manager the reply, the retry timer and
\* the operation they hold: the promise finishes as cancelled, without a result.
Destroy ==
  /\ phase \in {"running", "waiting"}
  /\ phase' = "abandoned"
  /\ armed' = {}
  /\ UNCHANGED <<attempt, status, buffer, sent, forced, clock, elapsed, result>>

\* Time passes; it is only watched while a timer is active.
Tick ==
  /\ armed # {}
  /\ \A t \in armed : ~Due(t)
  /\ clock' = clock + 1
  /\ elapsed' = elapsed + 1
  /\ UNCHANGED <<phase, attempt, status, buffer, sent, forced, armed, result>>

Network == MetaDataChanged \/ ReadyRead \/ Finished
Timer   == TimedOut \/ Retry

Next == Request \/ Network \/ Timer \/ Destroy \/ Tick

Spec == Init /\ [][Next]_vars

\* Timers fire and time passes; the network owes nothing.
FairSpec == Spec /\ WF_vars(Timer) /\ WF_vars(Tick)

-----------------------------------------------------------------------------
TypeOK ==
  /\ phase \in Phases
  /\ attempt \in 0..MaxRetries + 1
  /\ status \in Classes \cup {"none"}
  /\ buffer \in 0..Cap
  /\ sent \in Nat
  /\ forced \in {"none", "timeout", "tooLarge"}
  /\ armed \in SUBSET Timers
  /\ clock \in Nat
  /\ elapsed \in Nat
  /\ result \in Results \cup {"none"}

\* A caller that gets a body gets all the bytes of one successful attempt and
\* not one of another, and never more than the cap; in particular an attempt cut
\* short by a timer or by the cap is never delivered (http_client.cpp:128-195).
WholeBody ==
  result = "body" => /\ buffer = sent
                     /\ sent <= Cap
                     /\ status = "2xx"
                     /\ forced = "none"

\* A timer aborts only what is late: after the total timeout of the attempt, or
\* after the connect timeout if the server has not answered at all.  No timer of
\* an earlier attempt, and no connect timer of an answered one, cuts a reply.
OnlyLateIsCut ==
  [][forced' = "timeout" /\ forced # "timeout" =>
       \/ clock >= TotalTimeout
       \/ clock >= ConnectTimeout /\ status = "none"]_<<forced, clock, status>>

\* Timeouts, retries and delays together: whatever the network does, a request
\* costs at most this long.
TimeBounded ==
  elapsed <= (MaxRetries + 1) * TotalTimeout + MaxRetries * RetryDelay

\* "every network call has a connect timeout and a total-deadline QTimer"
\* (SPEC.md:100): a call lasts no longer than its total timeout.
TotalDeadline == elapsed <= TotalTimeout

\* A request that has started ends, with a result or with its client, though the
\* network never does anything again.
RequestSettles == phase = "running" ~> phase \in {"done", "abandoned"}
=============================================================================
