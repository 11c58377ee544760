------------------------------- MODULE Usage -------------------------------
(***************************************************************************)
(* Provider quotas: UsageController, ProviderManager and the fetchers.     *)
(* Everything runs on the GUI thread; what is concurrent is the outside:   *)
(* network replies and the Gemini CLI finish in any order, and each        *)
(* fetcher must report done or failed exactly once per fetch() for the     *)
(* manager's count-down to reach zero and the controller to stop loading.  *)
(*                                                                         *)
(* A quota's numbers do not matter here: an entry is "quota" or "error".   *)
(* A fetch is a number of outstanding legs (replies or a process).  HTTP   *)
(* legs always finish, because httpGet arms a 10 s abort for each one; the *)
(* CLI leg has no deadline.                                                *)
(***************************************************************************)
EXTENDS Integers, FiniteSets

CONSTANTS
  Providers,  \* the registered fetchers, i.e. the providers enabled in the config
  Style,      \* provider -> how its fetcher works, see Styles
  Lifetime    \* kCacheSeconds, in ticks of the clock

Styles == {"reply",    \* one request: zai, openai, anthropic
           "cascade",  \* a token request, then a cookie request: minimax
           "join",     \* three requests in parallel: xiaomi
           "cli",      \* a child process: gemini
           "local"}    \* local files only, reports inside fetch(): xai

ASSUME UsageAssumption ==
  /\ IsFiniteSet(Providers)
  /\ Style \in [Providers -> Styles]
  /\ Lifetime \in Nat \ {0}

Legs     == {"reply", "token", "balance", "detail", "plan", "process"}
JoinLegs == {"balance", "detail", "plan"}
Entries  == {"none", "quota", "error"}
Answers  == {"quota", "error"}

VARIABLES
  loading,   \* UsageController::loading_
  shown,     \* UsageController::providers_
  cache,     \* ProviderManager::m_cache
  age,       \* ticks since m_fetchedAt, saturating at Lifetime
  pending,   \* ProviderManager::m_pending
  inflight,  \* per provider and leg: requests or processes still running
  left,      \* XiaomiFetcher::m_pending
  status     \* XiaomiFetcher's three statuses: what each reply was worth

vars == <<loading, shown, cache, age, pending, inflight, left, status>>

Statuses == {"unset", "ok", "bad", "expired"}

-----------------------------------------------------------------------------
Init ==
  /\ loading = FALSE
  /\ shown = [p \in Providers |-> "none"]
  /\ cache = [p \in Providers |-> "none"]
  /\ age = [p \in Providers |-> Lifetime]
  /\ pending = {}
  /\ inflight = [p \in Providers |-> [l \in Legs |-> 0]]
  /\ left = [p \in Providers |-> 0]
  /\ status = [p \in Providers |-> [l \in JoinLegs |-> "unset"]]

\* An entry younger than kCacheSeconds, errors included, is not fetched again.
Fresh(p) == cache[p] # "none" /\ age[p] < Lifetime

\* Mutant: the age of an entry is not looked at.
StaleAll == Providers

\* The providers a refresh asks.
Stale == {p \in Providers : ~Fresh(p)}

\* The legs fetch() starts when it finds credentials.  MiniMax tries its token
\* first, if it has one.
FirstLegs(p, tokenless) ==
  CASE Style[p] = "reply"   -> {"reply"}
    [] Style[p] = "cascade" -> IF p \in tokenless THEN {"reply"} ELSE {"token"}
    [] Style[p] = "join"    -> JoinLegs
    [] Style[p] = "cli"     -> {"process"}
    [] Style[p] = "local"   -> {}

\* quotasReady: the controller shows the manager's cache and stops loading.
Publish ==
  /\ shown' = cache'
  /\ loading' = FALSE

\* ProviderManager::refresh: stale providers become pending and are asked.  Those
\* without credentials, and xai, answer inside fetch() and are settled when the
\* loop ends.
Asks(answered, tokenless, answer) ==
  LET asked == Stale \ answered
      joins == {p \in asked : Style[p] = "join"}
  IN  /\ {p \in Stale : Style[p] = "local"} \subseteq answered
      /\ \A p \in answered : Style[p] # "local" => answer[p] = "error"
      /\ \A p \in tokenless : Style[p] = "cascade" /\ p \in asked
      /\ cache' = [p \in Providers |-> IF p \in answered THEN answer[p] ELSE cache[p]]
      /\ age' = [p \in Providers |-> IF p \in answered THEN 0 ELSE age[p]]
      /\ pending' = asked
      /\ inflight' = [p \in Providers |-> [l \in Legs |->
                        IF p \in asked /\ l \in FirstLegs(p, tokenless)
                        THEN inflight[p][l] + 1 ELSE inflight[p][l]]]
      /\ left' = [p \in Providers |-> IF p \in joins THEN 3 ELSE left[p]]
      /\ status' = [p \in Providers |->
                      IF p \in joins THEN [l \in JoinLegs |-> "unset"] ELSE status[p]]
      /\ IF pending' = {} THEN Publish ELSE loading' = TRUE /\ UNCHANGED shown

\* UsageController::refresh, with all of the manager's in it.
Refresh ==
  /\ ~loading
  /\ \E answered \in SUBSET Stale, tokenless \in SUBSET Stale :
     \E answer \in [answered -> Answers] : Asks(answered, tokenless, answer)

\* Mutant: every report publishes.
ReportEagerly(p, answer) ==
  /\ cache' = [cache EXCEPT ![p] = answer]
  /\ age' = [age EXCEPT ![p] = 0]
  /\ pending' = pending \ {p}
  /\ Publish

\* Mutant: a failure is cached but not counted down.
ReportUncounted(p, answer) ==
  /\ cache' = [cache EXCEPT ![p] = answer]
  /\ age' = [age EXCEPT ![p] = 0]
  /\ pending' = IF answer = "error" THEN pending ELSE pending \ {p}
  /\ IF pending' = {} THEN Publish ELSE UNCHANGED <<shown, loading>>

\* onFetcherDone and onFetcherFailed: both are cached for kCacheSeconds, and the
\* last one publishes.
Report(p, answer) ==
  /\ cache' = [cache EXCEPT ![p] = answer]
  /\ age' = [age EXCEPT ![p] = 0]
  /\ pending' = pending \ {p}
  /\ IF pending' = {} THEN Publish ELSE UNCHANGED <<shown, loading>>

NoReport == UNCHANGED <<cache, age, pending, shown, loading>>

Ends(p, leg) ==
  /\ inflight[p][leg] > 0
  /\ inflight' = [inflight EXCEPT ![p][leg] = @ - 1]

-----------------------------------------------------------------------------
\* The only reply of a one-request fetcher, or MiniMax's cookie reply: parsed,
\* refused or aborted.
ReplyFinished(p) ==
  /\ Ends(p, "reply")
  /\ \E answer \in Answers : Report(p, answer)
  /\ UNCHANGED <<left, status>>

\* Mutant: the failed token request is reported, then the cookie is tried.
TokenFinishedTwice(p) ==
  /\ inflight[p]["token"] > 0
  /\ inflight' = [inflight EXCEPT ![p]["token"] = @ - 1, ![p]["reply"] = @ + 1]
  /\ Report(p, "error")
  /\ UNCHANGED <<left, status>>

\* MiniMax's token reply: usable, or useless without a cookie, or
\* useless with a cookie to try next.
TokenFinished(p) ==
  /\ inflight[p]["token"] > 0
  /\ \/ /\ Ends(p, "token")
        /\ \E answer \in Answers : Report(p, answer)
     \/ /\ inflight' = [inflight EXCEPT ![p]["token"] = @ - 1, ![p]["reply"] = @ + 1]
        /\ NoReport
  /\ UNCHANGED <<left, status>>

\* onAllRepliesFinished: an expired session on the balance request is an error;
\* otherwise any usable reply makes a quota.
JoinAnswer(s) ==
  IF s["balance"] # "expired" /\ \E l \in JoinLegs : s[l] = "ok"
  THEN "quota" ELSE "error"

\* Mutant: a failed reply is counted in its error handler and in finished.
JoinLegFinishedTwice(p, leg) ==
  /\ Ends(p, leg)
  /\ \E s \in {"ok", "bad"} :
       /\ status' = [status EXCEPT ![p][leg] = s]
       /\ left' = [left EXCEPT ![p] = IF s = "bad" THEN @ - 2 ELSE @ - 1]
  /\ IF left'[p] <= 0 THEN Report(p, JoinAnswer(status'[p])) ELSE NoReport

\* One of Xiaomi's replies; the last one evaluates all three.
JoinLegFinished(p, leg) ==
  /\ Ends(p, leg)
  /\ \E s \in IF leg = "balance" THEN {"ok", "bad", "expired"} ELSE {"ok", "bad"} :
       status' = [status EXCEPT ![p][leg] = s]
  /\ left' = [left EXCEPT ![p] = @ - 1]
  /\ IF left'[p] <= 0 THEN Report(p, JoinAnswer(status'[p])) ELSE NoReport

\* QProcess::finished, or errorOccurred(FailedToStart); never both.
CliExited(p) ==
  /\ Ends(p, "process")
  /\ \E answer \in Answers : Report(p, answer)
  /\ UNCHANGED <<left, status>>

\* Time passes.
Tick ==
  /\ age' = [p \in Providers |-> IF age[p] < Lifetime THEN age[p] + 1 ELSE age[p]]
  /\ UNCHANGED <<loading, shown, cache, pending, inflight, left, status>>

Network(p) ==
  \/ ReplyFinished(p)
  \/ TokenFinished(p)
  \/ \E leg \in JoinLegs : JoinLegFinished(p, leg)

Next ==
  \/ Refresh
  \/ \E p \in Providers : Network(p) \/ CliExited(p)
  \/ Tick

Spec == Init /\ [][Next]_vars

\* What the code itself guarantees: every reply finishes, by its abort timer if
\* need be.  Nothing ends the CLI.
TimedSpec == Spec /\ \A p \in Providers : WF_vars(Network(p))

\* With a CLI that always terminates by itself.
FairSpec == TimedSpec /\ \A p \in Providers : WF_vars(CliExited(p))

\* What the quota page promises of the manager and the fetchers.
Page == INSTANCE Rounds WITH held <- cache, waiting <- pending

\* Quotas are collected in rounds: however many replies, retries and child
\* processes a fetcher goes through, it answers once in a round it was asked in
\* and never outside one, and the page changes with the last answer only
\* (provider_manager.cpp:75-147, usage_controller.cpp:51-70).
QuotasComeInRounds == Page!Spec

-----------------------------------------------------------------------------
TypeOK ==
  /\ loading \in BOOLEAN
  /\ shown \in [Providers -> Entries]
  /\ cache \in [Providers -> Entries]
  /\ age \in [Providers -> 0..Lifetime]
  /\ pending \in SUBSET Providers
  /\ inflight \in [Providers -> [Legs -> Nat]]
  /\ left \in [Providers -> 0..3]
  /\ status \in [Providers -> [JoinLegs -> Statuses]]

Running(p) == {l \in Legs : inflight[p][l] > 0}

\* The count-down and the outside agree: the controller loads exactly while some
\* provider is pending, a provider is pending exactly while one fetch of it is
\* running, and Xiaomi's counter is the number of its open replies.  A fetcher
\* that reported twice, or not at all, breaks it (provider_manager.cpp:75-147).
PendingIsRunning ==
  /\ loading <=> pending # {}
  /\ \A p \in Providers :
       /\ p \in pending <=> Running(p) # {}
       /\ \A l \in Legs : inflight[p][l] <= 1
       /\ Running(p) \notin SUBSET JoinLegs => Cardinality(Running(p)) = 1
       /\ Style[p] = "join" => Cardinality(Running(p)) = left[p]

\* A round is published whole: what is shown is what the manager holds whenever
\* no round is running, and no card appears before every provider has one
\* (usage_controller.cpp:51-70).
PublishedWhole ==
  /\ ~loading => shown = cache
  /\ \A p, q \in Providers : shown[p] # "none" => shown[q] # "none"

\* A provider that answered within kCacheSeconds, even with an error, is left
\* alone however often the user refreshes and whatever the others do.
FreshLeftAlone ==
  [][\A p \in Providers : Fresh(p) => inflight'[p] = inflight[p]
                                       /\ cache'[p] = cache[p]]_<<inflight, cache>>

\* "every QProcess call has a kill-after deadline" (SPEC.md:100): the timers of
\* the code alone make every provider that is asked answer.
EveryFetchHasDeadline == \A p \in Providers : p \in pending ~> p \notin pending

\* A refresh ends (usage_controller.cpp:73: until then every other one is
\* ignored).
RefreshEnds == loading ~> ~loading
=============================================================================
