-------------------------- MODULE HttpRequestProofs --------------------------
(***************************************************************************)
(* HttpRequest: the type invariant, the whole-body property, the bound on  *)
(* the time a request takes and the rule for timeouts, for every choice of *)
(* timeouts, cap and number of retries.                                    *)
(***************************************************************************)
EXTENDS HttpRequest, TLAPS

\* The longest n attempts can take, each with the delay that follows it.
Spent(n) == n * (TotalTimeout + RetryDelay)

\* While an attempt runs, its total timer is active and nothing has been forced;
\* the connect timer is active only until the server answers; the buffer holds
\* what was sent.
RunningInv ==
  phase = "running" =>
    /\ attempt >= 1
    /\ "total" \in armed
    /\ armed \subseteq {"connect", "total"}
    /\ "connect" \in armed => status = "none"
    /\ clock <= TotalTimeout
    /\ forced = "none"
    /\ buffer = sent
    /\ elapsed <= Spent(attempt - 1) + clock

WaitingInv ==
  phase = "waiting" =>
    /\ attempt \in 1..MaxRetries
    /\ armed = {"retry"}
    /\ clock <= RetryDelay
    /\ elapsed <= Spent(attempt - 1) + TotalTimeout + clock

\* An operation that is not under way has no timer, and the promise of one that
\* is not done has no result.
StoppedInv ==
  /\ phase = "idle" => attempt = 0 /\ elapsed = 0
  /\ phase \in {"idle", "done", "abandoned"} => armed = {}
  /\ phase # "done" => result = "none"

IInv == TypeOK /\ RunningInv /\ WaitingInv /\ StoppedInv /\ WholeBody /\ TimeBounded

\* One more attempt takes one more total timeout and one more delay.
LEMMA SpentStep ==
  ASSUME NEW n \in Nat
  PROVE  /\ Spent(n) \in Nat
         /\ Spent(0) = 0
         /\ Spent(n + 1) = Spent(n) + TotalTimeout + RetryDelay
<1>1. TotalTimeout + RetryDelay \in Nat
  BY HttpAssumption
<1>2. n * (TotalTimeout + RetryDelay) \in Nat
  BY <1>1
<1>3. (n + 1) * (TotalTimeout + RetryDelay)
        = n * (TotalTimeout + RetryDelay) + (TotalTimeout + RetryDelay)
  BY <1>1
<1>. QED
  BY <1>1, <1>2, <1>3, HttpAssumption DEF Spent

\* What the last attempt leaves in the budget is its own total timeout.
LEMMA SpentBound ==
  ASSUME NEW n \in 0..MaxRetries
  PROVE  Spent(n) + TotalTimeout <= (MaxRetries + 1) * TotalTimeout + MaxRetries * RetryDelay
<1> DEFINE Round == TotalTimeout + RetryDelay
<1>1. Round \in Nat /\ MaxRetries \in Nat /\ n \in Nat
  BY HttpAssumption
<1>2. PICK k \in Nat : MaxRetries = n + k
  <2>1. MaxRetries - n \in Nat /\ MaxRetries = n + (MaxRetries - n)
    BY <1>1
  <2>. QED BY <2>1
<1>3. (n + k) * Round = n * Round + k * Round /\ k * Round \in Nat
  BY <1>1, <1>2
<1>4. MaxRetries * Round = MaxRetries * TotalTimeout + MaxRetries * RetryDelay
  BY HttpAssumption
<1>5. (MaxRetries + 1) * TotalTimeout = MaxRetries * TotalTimeout + TotalTimeout
  BY HttpAssumption
<1>6. n * Round \in Nat /\ MaxRetries * TotalTimeout \in Nat /\ MaxRetries * RetryDelay \in Nat
  BY <1>1, HttpAssumption
<1>. QED
  BY <1>1, <1>2, <1>3, <1>4, <1>5, <1>6, HttpAssumption DEF Spent

\* Starting an attempt, the first one or one after a delay that is over.
LEMMA StartAttemptInv ==
  ASSUME IInv, StartAttempt, phase = "idle" \/ (phase = "waiting" /\ Due("retry"))
  PROVE  IInv'
<1>. USE HttpAssumption
<1>1. attempt \in 0..MaxRetries /\ attempt' = attempt + 1 /\ attempt' - 1 = attempt
  BY DEF IInv, TypeOK, StoppedInv, WaitingInv, StartAttempt
<1>2. TypeOK'
  BY <1>1 DEF IInv, TypeOK, StartAttempt, Phases, Timers
<1>3. elapsed' <= Spent(attempt' - 1) + clock'
  <2>1. elapsed' = elapsed /\ clock' = 0 /\ elapsed \in Nat
    BY DEF StartAttempt, IInv, TypeOK
  <2>2. CASE phase = "idle"
    BY <1>1, <2>1, <2>2, SpentStep DEF IInv, StoppedInv
  <2>3. CASE phase = "waiting"
    <3>1. clock = RetryDelay /\ elapsed <= Spent(attempt - 1) + TotalTimeout + clock
      BY <2>3 DEF IInv, WaitingInv, TypeOK, Due, Deadline
    <3>2. attempt - 1 \in Nat /\ (attempt - 1) + 1 = attempt
      BY <1>1, <2>3 DEF IInv, WaitingInv
    <3>3. Spent(attempt) = Spent(attempt - 1) + TotalTimeout + RetryDelay
          /\ Spent(attempt) \in Nat /\ Spent(attempt - 1) \in Nat
      BY <1>1, <3>2, SpentStep
    <3>. QED
      BY <1>1, <2>1, <3>1, <3>3
  <2>. QED BY <2>2, <2>3
<1>4. RunningInv'
  BY <1>1, <1>3 DEF RunningInv, StartAttempt
<1>5. WaitingInv' /\ StoppedInv' /\ WholeBody'
  BY DEF IInv, WaitingInv, StoppedInv, WholeBody, StartAttempt
<1>6. TimeBounded'
  BY DEF IInv, TimeBounded, StartAttempt
<1>. QED
  BY <1>2, <1>4, <1>5, <1>6 DEF IInv

\* Finishing an attempt, whatever was read last and whether or not it was forced.
LEMMA HandleFinishedInv ==
  ASSUME IInv, phase = "running",
         NEW reply \in NetworkErrors \cup {"body", "cancelled"},
         HandleFinished(reply),
         status' \in Classes \cup {"none"},
         buffer' \in 0..Cap,
         sent' \in Nat,
         forced' \in {"none", "timeout", "tooLarge"},
         forced' = "none" => buffer' = sent' /\ reply # "cancelled",
         reply = "body" => status' # "none"
  PROVE  IInv'
<1>. USE HttpAssumption
<1> DEFINE outcome == Outcome(forced', status', reply)
<1>1. /\ outcome \in Results
      /\ outcome = "body" => forced' = "none" /\ status' = "2xx"
  BY DEF Outcome, Results, NetworkErrors, Classes
<1>2. attempt' = attempt /\ elapsed' = elapsed
  BY DEF HandleFinished
<1>5. IF CanRetry(outcome, status')
      THEN phase' = "waiting" /\ armed' = {"retry"} /\ clock' = 0 /\ result' = result
      ELSE Complete(outcome) /\ armed' = {} /\ clock' = clock
  BY DEF HandleFinished
<1>. HIDE DEF outcome
<1>3. CASE CanRetry(outcome, status')
  <2>1. phase' = "waiting" /\ armed' = {"retry"} /\ clock' = 0 /\ result' = result
    BY <1>3, <1>5
  <2>2. attempt \in 1..MaxRetries
    BY <1>3 DEF CanRetry, IInv, RunningInv, TypeOK
  <2>3. elapsed <= Spent(attempt - 1) + TotalTimeout
    <3>1. Spent(attempt - 1) \in Nat
      BY <2>2, SpentStep
    <3>. QED BY <3>1 DEF IInv, RunningInv, TypeOK
  <2>4. TypeOK'
    BY <1>2, <2>1, <2>2 DEF IInv, TypeOK, Phases, Timers
  <2>5. RunningInv' /\ StoppedInv' /\ WholeBody' /\ TimeBounded'
    BY <1>2, <2>1 DEF IInv, RunningInv, StoppedInv, WholeBody, TimeBounded
  <2>6. WaitingInv'
    <3>1. Spent(attempt - 1) \in Nat /\ elapsed \in Nat
      BY <2>2, SpentStep DEF IInv, TypeOK
    <3>. QED BY <1>2, <2>1, <2>2, <2>3, <3>1 DEF WaitingInv
  <2>. QED BY <2>4, <2>5, <2>6 DEF IInv
<1>4. CASE ~CanRetry(outcome, status')
  <2>1. phase' = "done" /\ armed' = {} /\ clock' = clock /\ result' = outcome
    BY <1>4, <1>5 DEF Complete
  <2>2. TypeOK'
    <3>1. result' \in Results \cup {"none"}
      BY <1>1, <2>1
    <3>. QED BY <1>2, <2>1, <3>1 DEF IInv, TypeOK, Phases
  <2>3. WholeBody'
    BY <1>1, <2>1 DEF WholeBody
  <2>4. RunningInv' /\ WaitingInv' /\ StoppedInv' /\ TimeBounded'
    BY <1>2, <2>1 DEF IInv, RunningInv, WaitingInv, StoppedInv, TimeBounded
  <2>. QED BY <2>2, <2>3, <2>4 DEF IInv
<1>. QED BY <1>3, <1>4

LEMMA InitIInv == Init => IInv
<1>1. (MaxRetries + 1) * TotalTimeout + MaxRetries * RetryDelay \in Nat
  BY HttpAssumption
<1>. QED
  BY <1>1, HttpAssumption
  DEF Init, IInv, TypeOK, Phases, Results, RunningInv, WaitingInv, StoppedInv, WholeBody,
      TimeBounded

\* Every step keeps the inductive invariant.
LEMMA NextIInv == IInv /\ [Next]_vars => IInv'
<1>. USE HttpAssumption
<1> SUFFICES ASSUME IInv, [Next]_vars PROVE IInv'
  OBVIOUS
<1>1. CASE Request
  <2>1. CASE StartAttempt
    <3>1. phase = "idle"
      BY <1>1 DEF Request
    <3>. QED BY <2>1, <3>1, StartAttemptInv
  <2>2. CASE Complete("invalid") /\ UNCHANGED <<attempt, status, buffer, sent, forced,
                                               armed, clock, elapsed>>
    <3>1. phase = "idle" /\ phase' = "done" /\ result' = "invalid"
      BY <1>1, <2>2 DEF Request, Complete
    <3>2. TypeOK'
      BY <2>2, <3>1 DEF IInv, TypeOK, Phases, Results
    <3>3. RunningInv' /\ WaitingInv' /\ StoppedInv' /\ WholeBody' /\ TimeBounded'
      BY <2>2, <3>1
      DEF IInv, RunningInv, WaitingInv, StoppedInv, WholeBody, TimeBounded
    <3>. QED BY <3>2, <3>3 DEF IInv
  <2>. QED BY <1>1, <2>1, <2>2 DEF Request
<1>2. CASE MetaDataChanged
  <2>1. /\ phase = "running" /\ forced = "none" /\ buffer = sent
        /\ status' \in Classes \cup {"none"}
        /\ buffer' = buffer /\ sent' = sent
    BY <1>2 DEF MetaDataChanged, IInv, RunningInv
  <2>2. CASE AbortWith("tooLarge")
    <3>1. forced' = "tooLarge" /\ HandleFinished("cancelled")
      BY <2>1, <2>2 DEF AbortWith
    <3>. QED BY <2>1, <3>1, HandleFinishedInv DEF IInv, TypeOK
  <2>3. CASE /\ armed' = armed \ {"connect"}
             /\ UNCHANGED <<phase, attempt, forced, clock, elapsed, result>>
    <3>1. TypeOK'
      BY <2>1, <2>3 DEF IInv, TypeOK
    <3>2. RunningInv'
      BY <2>1, <2>3 DEF IInv, RunningInv
    <3>3. WaitingInv' /\ StoppedInv' /\ WholeBody' /\ TimeBounded'
      BY <2>1, <2>3 DEF IInv, WaitingInv, StoppedInv, WholeBody, TimeBounded
    <3>. QED BY <3>1, <3>2, <3>3 DEF IInv
  <2>. QED BY <1>2, <2>2, <2>3 DEF MetaDataChanged
<1>3. CASE ReadyRead
  <2>1. /\ phase = "running" /\ forced = "none" /\ buffer = sent
        /\ status # "none" /\ status' = status
    BY <1>3 DEF ReadyRead, IInv, RunningInv
  <2>2. PICK chunk \in 1..MaxChunk :
          /\ sent' = sent + chunk
          /\ IF Exceeds(chunk)
             THEN AbortWith("tooLarge") /\ UNCHANGED buffer
             ELSE /\ buffer' = buffer + chunk
                  /\ armed' = armed \ {"connect"}
                  /\ UNCHANGED <<phase, attempt, forced, clock, elapsed, result>>
    BY <1>3 DEF ReadyRead
  <2>3. CASE Exceeds(chunk)
    <3>1. forced' = "tooLarge" /\ HandleFinished("cancelled") /\ buffer' = buffer
      BY <2>1, <2>2, <2>3 DEF AbortWith
    <3>. QED BY <2>1, <2>2, <3>1, HandleFinishedInv DEF IInv, TypeOK
  <2>4. CASE ~Exceeds(chunk)
    <3>1. /\ buffer' = buffer + chunk
          /\ armed' = armed \ {"connect"}
          /\ UNCHANGED <<phase, attempt, forced, clock, elapsed, result>>
      BY <2>2, <2>4
    <3>2. buffer' \in 0..Cap
      BY <2>4, <3>1 DEF Exceeds, IInv, TypeOK
    <3>3. TypeOK'
      BY <2>1, <2>2, <3>1, <3>2 DEF IInv, TypeOK
    <3>4. RunningInv'
      BY <2>1, <2>2, <3>1 DEF IInv, RunningInv
    <3>5. WaitingInv' /\ StoppedInv' /\ WholeBody' /\ TimeBounded'
      BY <2>1, <3>1 DEF IInv, WaitingInv, StoppedInv, WholeBody, TimeBounded
    <3>. QED BY <3>3, <3>4, <3>5 DEF IInv
  <2>. QED BY <2>3, <2>4
<1>4. CASE Finished
  <2>1. phase = "running" /\ forced = "none" /\ buffer = sent /\ status' = status
    BY <1>4 DEF Finished, IInv, RunningInv
  <2>2. PICK chunk \in 0..MaxChunk, reply \in NetworkErrors \cup {"body"} :
          /\ status = "none" => chunk = 0 /\ reply # "body"
          /\ sent' = sent + chunk
          /\ IF Exceeds(chunk)
             THEN forced' = "tooLarge" /\ buffer' = buffer
             ELSE buffer' = buffer + chunk /\ forced' = forced
          /\ HandleFinished(reply)
    BY <1>4, <2>1 DEF Finished
  <2>3. /\ buffer' \in 0..Cap
        /\ sent' \in Nat
        /\ forced' \in {"none", "tooLarge"}
        /\ forced' = "none" => buffer' = sent'
    BY <2>1, <2>2 DEF Exceeds, IInv, TypeOK
  <2>4. reply # "cancelled"
    BY DEF NetworkErrors
  <2>. QED BY <2>1, <2>2, <2>3, <2>4, HandleFinishedInv DEF IInv, TypeOK
<1>5. CASE TimedOut
  <2>1. /\ phase = "running" /\ forced = "none"
        /\ status' = status /\ buffer' = buffer /\ sent' = sent
        /\ AbortWith("timeout")
    BY <1>5 DEF TimedOut, IInv, RunningInv
  <2>2. forced' = "timeout" /\ HandleFinished("cancelled")
    BY <2>1 DEF AbortWith
  <2>. QED BY <2>1, <2>2, HandleFinishedInv DEF IInv, TypeOK
<1>6. CASE Retry
  BY <1>6, StartAttemptInv DEF Retry
<1>7. CASE Destroy
  <2>1. TypeOK'
    BY <1>7 DEF Destroy, IInv, TypeOK, Phases
  <2>2. RunningInv' /\ WaitingInv' /\ StoppedInv' /\ WholeBody' /\ TimeBounded'
    BY <1>7
    DEF Destroy, IInv, RunningInv, WaitingInv, StoppedInv, WholeBody, TimeBounded
  <2>. QED BY <2>1, <2>2 DEF IInv
<1>8. CASE Tick
  <2>1. /\ clock' = clock + 1 /\ elapsed' = elapsed + 1
        /\ UNCHANGED <<phase, attempt, status, buffer, sent, forced, armed, result>>
    BY <1>8 DEF Tick
  <2>2. phase \in {"running", "waiting"}
    BY <1>8 DEF Tick, IInv, TypeOK, Phases, StoppedInv
  <2>3. TypeOK'
    BY <2>1 DEF IInv, TypeOK
  <2>4. StoppedInv' /\ WholeBody'
    BY <2>1, <2>2 DEF IInv, StoppedInv, WholeBody
  <2>5. phase = "running" => clock + 1 <= TotalTimeout
    BY <1>8 DEF Tick, Due, Deadline, IInv, RunningInv, TypeOK
  <2>6. phase = "waiting" => clock + 1 <= RetryDelay
    BY <1>8 DEF Tick, Due, Deadline, IInv, WaitingInv, TypeOK
  <2>7. attempt - 1 \in Nat
    BY <2>2 DEF IInv, TypeOK, RunningInv, WaitingInv
  <2>8. Spent(attempt - 1) \in Nat
    BY <2>7, SpentStep
  <2>9. RunningInv'
    BY <2>1, <2>5, <2>8 DEF IInv, RunningInv, TypeOK
  <2>10. WaitingInv'
    BY <2>1, <2>6, <2>8 DEF IInv, WaitingInv, TypeOK
  <2>11. TimeBounded'
    <3>1. CASE phase = "running"
      <4>1. attempt - 1 \in 0..MaxRetries
        BY <2>7 DEF IInv, TypeOK
      <4>. QED
        BY <2>1, <2>5, <2>8, <3>1, <4>1, SpentBound
        DEF IInv, RunningInv, TypeOK, TimeBounded
    <3>2. CASE phase = "waiting"
      <4>1. attempt \in 0..MaxRetries /\ (attempt - 1) + 1 = attempt
        BY <3>2 DEF IInv, WaitingInv
      <4>2. Spent(attempt) = Spent(attempt - 1) + TotalTimeout + RetryDelay
        BY <2>7, <4>1, SpentStep
      <4>. QED
        BY <2>1, <2>6, <2>8, <3>2, <4>1, <4>2, SpentBound
        DEF IInv, WaitingInv, TypeOK, TimeBounded
    <3>. QED BY <2>2, <3>1, <3>2
  <2>. QED BY <2>3, <2>4, <2>9, <2>10, <2>11 DEF IInv
<1>9. CASE UNCHANGED vars
  <2>1. TypeOK' /\ RunningInv' /\ WaitingInv'
    BY <1>9 DEF vars, IInv, TypeOK, RunningInv, WaitingInv, Spent
  <2>2. StoppedInv' /\ WholeBody' /\ TimeBounded'
    BY <1>9 DEF vars, IInv, StoppedInv, WholeBody, TimeBounded
  <2>. QED BY <2>1, <2>2 DEF IInv
<1>. QED
  BY <1>1, <1>2, <1>3, <1>4, <1>5, <1>6, <1>7, <1>8, <1>9 DEF Next, Network, Timer

THEOREM IInvHolds == Spec => []IInv
<1>. QED BY InitIInv, NextIInv, PTL DEF Spec

\* The types of the operation's state, and with them the cap on the buffer and on
\* the number of attempts.
THEOREM TypeCorrect == Spec => []TypeOK
<1>1. IInv => TypeOK
  BY DEF IInv
<1>. QED BY <1>1, IInvHolds, PTL

\* A delivered body is the whole of one successful attempt and within the cap.
THEOREM BodyIsWhole == Spec => []WholeBody
<1>1. IInv => WholeBody
  BY DEF IInv
<1>. QED BY <1>1, IInvHolds, PTL

\* A request takes at most all its attempts' total timeouts and the delays
\* between them.
THEOREM RequestTimeBounded == Spec => []TimeBounded
<1>1. IInv => TimeBounded
  BY DEF IInv
<1>. QED BY <1>1, IInvHolds, PTL

\* Timers cut only what is late.
THEOREM TimersCutOnlyLate == Spec => OnlyLateIsCut
<1> DEFINE Late == forced' = "timeout" /\ forced # "timeout" =>
                     \/ clock >= TotalTimeout
                     \/ clock >= ConnectTimeout /\ status = "none"
<1>1. IInv /\ [Next]_vars => [Late]_<<forced, clock, status>>
  <2> SUFFICES ASSUME IInv, [Next]_vars, forced' = "timeout", forced # "timeout"
               PROVE  clock >= TotalTimeout \/ (clock >= ConnectTimeout /\ status = "none")
    OBVIOUS
  <2>1. CASE TimedOut
    <3>1. PICK t \in {"connect", "total"} : t \in armed /\ clock >= Deadline(t)
      BY <2>1 DEF TimedOut, Due
    <3>2. t = "connect" => status = "none"
      BY <2>1, <3>1 DEF TimedOut, IInv, RunningInv
    <3>. QED BY <3>1, <3>2 DEF Deadline
  <2>2. CASE Request \/ Retry
    BY <2>2 DEF Request, Retry, StartAttempt
  <2>3. CASE Network
    BY <2>3 DEF Network, MetaDataChanged, ReadyRead, Finished, AbortWith
  <2>4. CASE Destroy \/ Tick \/ UNCHANGED vars
    BY <2>4 DEF Destroy, Tick, vars
  <2>. QED BY <2>1, <2>2, <2>3, <2>4 DEF Next, Timer
<1>. QED BY <1>1, IInvHolds, PTL DEF Spec, OnlyLateIsCut
=============================================================================
