----------------------------- MODULE UsageProofs -----------------------------
(* Proofs about Usage: what is pending is running, rounds are published       *)
(* whole, providers that answered lately are left alone, and the fetchers     *)
(* implement Rounds.                                                          *)
EXTENDS Usage, FiniteSetTheorems, TLAPS

-----------------------------------------------------------------------------
\* The legs of p: Xiaomi's three are counted by its fetcher, the others have one
\* at a time; and p is pending while it has any.
LegsFit(p) ==
  /\ \A l \in Legs : inflight[p][l] \in {0, 1}
  /\ Style[p] = "join" =>
       /\ \A l \in Legs \ JoinLegs : inflight[p][l] = 0
       /\ left[p] = inflight[p]["balance"] + inflight[p]["detail"] + inflight[p]["plan"]
  /\ Style[p] # "join" =>
       /\ \A l \in JoinLegs : inflight[p][l] = 0
       /\ \A l, m \in Legs : inflight[p][l] = 1 /\ inflight[p][m] = 1 => l = m
  /\ p \in pending <=> \E l \in Legs : inflight[p][l] = 1

\* Cards appear together, and who is not pending in a round has an entry.
WholeInv ==
  /\ ~loading => shown = cache
  /\ (\A p \in Providers : shown[p] = "none") \/ (\A p \in Providers : shown[p] # "none")
  /\ loading => \A p \in Providers \ pending : cache[p] # "none"

IInv ==
  /\ TypeOK
  /\ loading <=> pending # {}
  /\ \A p \in Providers : LegsFit(p)
  /\ WholeInv
  /\ \A p \in pending : ~Fresh(p)

-----------------------------------------------------------------------------
LEMMA TypeFacts ==
  ASSUME IInv, NEW p \in Providers
  PROVE  /\ inflight[p] \in [Legs -> Nat] /\ left[p] \in 0..3 /\ age[p] \in 0..Lifetime
         /\ cache[p] \in Entries /\ shown[p] \in Entries
         /\ status[p] \in [JoinLegs -> Statuses]
         /\ Style[p] \in Styles /\ LegsFit(p)
  BY UsageAssumption DEF IInv, TypeOK

\* The legs a provider with credentials starts with.
LEMMA FirstLegsFit ==
  ASSUME NEW p \in Providers, NEW tokenless
  PROVE  /\ Style[p] = "join" => FirstLegs(p, tokenless) = JoinLegs
         /\ Style[p] \notin {"join", "local"} =>
              \E l \in Legs \ JoinLegs : FirstLegs(p, tokenless) = {l}
<1>1. Style[p] \in Styles
  BY UsageAssumption
<1>2. CASE Style[p] = "reply"
  BY <1>2 DEF FirstLegs, Legs, JoinLegs
<1>3. CASE Style[p] = "cascade"
  BY <1>3 DEF FirstLegs, Legs, JoinLegs
<1>4. CASE Style[p] = "join"
  BY <1>4 DEF FirstLegs
<1>5. CASE Style[p] = "cli"
  BY <1>5 DEF FirstLegs, Legs, JoinLegs
<1>6. CASE Style[p] = "local"
  BY <1>6
<1> QED
  BY <1>1, <1>2, <1>3, <1>4, <1>5, <1>6 DEF Styles

\* What a report does, once the legs of p are over.
LEMMA ReportFits ==
  ASSUME IInv, NEW p \in Providers, p \in pending, NEW answer \in Answers,
         Report(p, answer),
         inflight' \in [Providers -> [Legs -> Nat]],
         left' \in [Providers -> 0..3],
         status' \in [Providers -> [JoinLegs -> Statuses]],
         \A q \in Providers \ {p} : inflight'[q] = inflight[q] /\ left'[q] = left[q],
         \A l \in Legs : inflight'[p][l] = 0,
         Style[p] = "join" => left'[p] = 0
  PROVE  IInv'
<1>1. /\ cache' = [cache EXCEPT ![p] = answer] /\ age' = [age EXCEPT ![p] = 0]
      /\ pending' = pending \ {p}
      /\ IF pending' = {} THEN shown' = cache' /\ loading' = FALSE
                          ELSE UNCHANGED <<shown, loading>>
  BY DEF Report, Publish
<1>2. /\ answer \in Entries /\ answer # "none" /\ 0 \in 0..Lifetime
      /\ loading /\ pending \subseteq Providers
  BY UsageAssumption DEF Answers, Entries, IInv, TypeOK
<1>3. TypeOK'
  <2>1. cache' \in [Providers -> Entries] /\ age' \in [Providers -> 0..Lifetime]
    BY <1>1, <1>2 DEF IInv, TypeOK
  <2>2. shown' \in [Providers -> Entries] /\ loading' \in BOOLEAN
    BY <1>1, <2>1 DEF IInv, TypeOK
  <2> QED
    BY <1>1, <1>2, <2>1, <2>2 DEF IInv, TypeOK
<1>4. loading' <=> pending' # {}
  BY <1>1, <1>2
<1>5. ASSUME NEW q \in Providers
      PROVE  LegsFit(q)'
  <2>1. CASE q = p
    <3>1. JoinLegs \subseteq Legs /\ JoinLegs = {"balance", "detail", "plan"}
      BY DEF Legs, JoinLegs
    <3> QED
      BY <1>1, <2>1, <3>1 DEF LegsFit
  <2>2. CASE q # p
    BY <1>1, <2>2, TypeFacts DEF LegsFit
  <2> QED
    BY <2>1, <2>2
<1>6. WholeInv'
  <2>1. \A q \in Providers \ pending' : cache'[q] # "none"
    BY <1>1, <1>2 DEF IInv, TypeOK, WholeInv
  <2>2. CASE pending' = {}
    BY <1>1, <2>1, <2>2 DEF WholeInv
  <2>3. CASE pending' # {}
    BY <1>1, <1>2, <2>1, <2>3 DEF WholeInv, IInv
  <2> QED
    BY <2>2, <2>3
<1>7. \A q \in pending' : ~Fresh(q)'
  BY <1>1, <1>2 DEF Fresh, IInv, TypeOK
<1> QED
  BY <1>3, <1>4, <1>5, <1>6, <1>7 DEF IInv

\* What the end of a leg does when another one goes on.
LEMMA NoReportFits ==
  ASSUME IInv, NEW p \in Providers, p \in pending, NoReport,
         inflight' \in [Providers -> [Legs -> Nat]],
         left' \in [Providers -> 0..3],
         status' \in [Providers -> [JoinLegs -> Statuses]],
         \A q \in Providers \ {p} : inflight'[q] = inflight[q] /\ left'[q] = left[q],
         LegsFit(p)'
  PROVE  IInv'
<1>1. UNCHANGED <<cache, age, pending, shown, loading>>
  BY DEF NoReport
<1>2. TypeOK'
  BY <1>1 DEF IInv, TypeOK
<1>3. \A q \in Providers \ {p} : LegsFit(q)'
  BY <1>1, TypeFacts DEF LegsFit
<1>4. WholeInv' /\ (\A q \in pending' : ~Fresh(q)') /\ (loading' <=> pending' # {})
  BY <1>1 DEF IInv, WholeInv, Fresh
<1> QED
  BY <1>2, <1>3, <1>4 DEF IInv

\* The last leg of a provider that has one at a time.
LEMMA LastLeg ==
  ASSUME IInv, NEW p \in Providers, NEW leg \in Legs \ JoinLegs, Ends(p, leg),
         UNCHANGED <<left, status>>
  PROVE  /\ p \in pending /\ Style[p] # "join"
         /\ inflight' \in [Providers -> [Legs -> Nat]]
         /\ left' \in [Providers -> 0..3]
         /\ status' \in [Providers -> [JoinLegs -> Statuses]]
         /\ \A q \in Providers \ {p} : inflight'[q] = inflight[q] /\ left'[q] = left[q]
         /\ \A l \in Legs : inflight'[p][l] = 0
<1>1. /\ inflight' = [inflight EXCEPT ![p][leg] = @ - 1] /\ inflight[p][leg] = 1
  BY TypeFacts DEF Ends, LegsFit
<1>2. p \in pending /\ Style[p] # "join"
  BY <1>1, TypeFacts DEF LegsFit
<1>3. /\ inflight \in [Providers -> [Legs -> Nat]]
      /\ left \in [Providers -> 0..3] /\ status \in [Providers -> [JoinLegs -> Statuses]]
  BY DEF IInv, TypeOK
<1>4. inflight' \in [Providers -> [Legs -> Nat]]
  BY <1>1, <1>3
<1>5. \A l \in Legs : l # leg => inflight[p][l] = 0
  BY <1>1, <1>2, TypeFacts DEF LegsFit
<1>6. \A l \in Legs : inflight'[p][l] = 0
  BY <1>1, <1>3, <1>5
<1>7. \A q \in Providers \ {p} : inflight'[q] = inflight[q]
  BY <1>1, <1>3
<1> QED
  BY <1>2, <1>3, <1>4, <1>6, <1>7

\* MiniMax's token reply is worth an answer, or the cookie is tried.
LEMMA TokenFits ==
  ASSUME IInv, NEW p \in Providers, TokenFinished(p)
  PROVE  IInv'
<1>1. UNCHANGED <<left, status>>
  BY DEF TokenFinished
<1>l. "token" \in Legs \ JoinLegs /\ "reply" \in Legs \ JoinLegs
  BY DEF Legs, JoinLegs
<1>2. ASSUME NEW answer \in Answers, Ends(p, "token"), Report(p, answer)
      PROVE  IInv'
  BY <1>1, <1>2, <1>l, LastLeg, ReportFits
<1>3. CASE /\ inflight' = [inflight EXCEPT ![p]["token"] = @ - 1, ![p]["reply"] = @ + 1]
           /\ NoReport
  <2>1. /\ inflight[p]["token"] = 1 /\ p \in pending /\ Style[p] # "join"
        /\ \A l \in Legs : l # "token" => inflight[p][l] = 0
    BY <1>l, TypeFacts DEF LegsFit, TokenFinished
  <2>2. /\ inflight \in [Providers -> [Legs -> Nat]]
        /\ left \in [Providers -> 0..3] /\ status \in [Providers -> [JoinLegs -> Statuses]]
    BY DEF IInv, TypeOK
  <2>3. \A l \in Legs : inflight'[p][l] = IF l = "reply" THEN 1 ELSE 0
    BY <1>3, <1>l, <2>1, <2>2
  <2>4. inflight' \in [Providers -> [Legs -> Nat]]
    BY <1>3, <1>l, <2>1, <2>2
  <2>5. \A q \in Providers \ {p} : inflight'[q] = inflight[q] /\ left'[q] = left[q]
    BY <1>1, <1>3, <2>2
  <2>6. LegsFit(p)'
    <3>1. /\ \A l \in Legs : inflight'[p][l] \in {0, 1}
          /\ \A l \in JoinLegs : inflight'[p][l] = 0
          /\ \A l, m \in Legs : inflight'[p][l] = 1 /\ inflight'[p][m] = 1 => l = m
          /\ \E l \in Legs : inflight'[p][l] = 1
      BY <1>l, <2>3 DEF Legs, JoinLegs
    <3>2. p \in pending'
      BY <1>3, <2>1 DEF NoReport
    <3> QED
      BY <2>1, <3>1, <3>2 DEF LegsFit
  <2> QED
    BY <1>1, <1>3, <2>1, <2>2, <2>4, <2>5, <2>6, NoReportFits
<1> QED
  BY <1>2, <1>3 DEF TokenFinished

\* One of Xiaomi's replies is counted; with the last one the fetcher reports.
LEMMA JoinFits ==
  ASSUME IInv, NEW p \in Providers, NEW leg \in JoinLegs, JoinLegFinished(p, leg)
  PROVE  IInv'
<1>l. leg \in Legs /\ JoinLegs \subseteq Legs /\ JoinLegs = {"balance", "detail", "plan"}
  BY DEF Legs, JoinLegs
<1>t. /\ inflight \in [Providers -> [Legs -> Nat]] /\ inflight[p] \in [Legs -> Nat]
      /\ left \in [Providers -> 0..3] /\ status \in [Providers -> [JoinLegs -> Statuses]]
  BY DEF IInv, TypeOK
<1>1. /\ inflight[p][leg] = 1 /\ Style[p] = "join" /\ p \in pending
      /\ inflight' = [inflight EXCEPT ![p][leg] = @ - 1]
      /\ left' = [left EXCEPT ![p] = @ - 1]
  BY <1>l, TypeFacts DEF JoinLegFinished, Ends, LegsFit
<1>2. inflight' \in [Providers -> [Legs -> Nat]]
  BY <1>l, <1>t, <1>1
<1>3. status' \in [Providers -> [JoinLegs -> Statuses]]
  <2>1. PICK s \in Statuses : status' = [status EXCEPT ![p][leg] = s]
    BY DEF JoinLegFinished, Statuses
  <2> QED
    BY <1>t, <2>1
<1>4. \A q \in Providers \ {p} : inflight'[q] = inflight[q] /\ left'[q] = left[q]
  BY <1>t, <1>1
<1>5. \A l \in Legs : inflight'[p][l] = IF l = leg THEN 0 ELSE inflight[p][l]
  BY <1>l, <1>t, <1>1
<1>6. /\ \A l \in Legs : inflight[p][l] \in {0, 1}
      /\ \A l \in Legs \ JoinLegs : inflight[p][l] = 0
      /\ left[p] = inflight[p]["balance"] + inflight[p]["detail"] + inflight[p]["plan"]
  BY <1>1, TypeFacts DEF LegsFit
<1>7. left'[p] = inflight'[p]["balance"] + inflight'[p]["detail"] + inflight'[p]["plan"]
  BY <1>l, <1>t, <1>1, <1>5, <1>6
<1>8. left' \in [Providers -> 0..3]
  <2>1. left'[p] \in 0..3
    BY <1>l, <1>5, <1>6, <1>7
  <2> QED
    BY <1>t, <1>1, <2>1
<1>9. CASE left'[p] <= 0
  <2>1. left'[p] = 0 /\ \A l \in Legs : inflight'[p][l] = 0
    BY <1>l, <1>5, <1>6, <1>7, <1>9
  <2>2. JoinAnswer(status'[p]) \in Answers /\ Report(p, JoinAnswer(status'[p]))
    BY <1>9 DEF JoinLegFinished, JoinAnswer, Answers
  <2>3. PICK answer \in Answers : answer = JoinAnswer(status'[p])
    BY <2>2
  <2>4. Report(p, answer)
    BY <2>2, <2>3
  <2> QED
    BY <1>1, <1>2, <1>3, <1>4, <1>8, <2>1, <2>4, ReportFits
<1>10. CASE ~(left'[p] <= 0)
  <2>1. NoReport
    BY <1>10 DEF JoinLegFinished
  <2>2. \E l \in Legs : inflight'[p][l] = 1
    BY <1>l, <1>5, <1>6, <1>7, <1>8, <1>10
  <2>3. \A l \in Legs : inflight'[p][l] \in {0, 1}
    BY <1>5, <1>6
  <2>4. \A l \in Legs \ JoinLegs : inflight'[p][l] = 0
    BY <1>l, <1>5, <1>6
  <2>5. LegsFit(p)'
    BY <1>1, <1>7, <2>1, <2>2, <2>3, <2>4 DEF LegsFit, NoReport
  <2> QED
    BY <1>1, <1>2, <1>3, <1>4, <1>8, <2>1, <2>5, NoReportFits
<1> QED
  BY <1>9, <1>10

-----------------------------------------------------------------------------
\* A refresh begins a round: no provider has a leg yet, the fresh ones and those
\* that answer at once have an entry, the others get their first legs.
LEMMA RefreshFits ==
  ASSUME IInv, Refresh
  PROVE  IInv'
<1>1. PICK answered \in SUBSET Stale, tokenless \in SUBSET Stale :
        \E answer \in [answered -> Answers] : Asks(answered, tokenless, answer)
  BY DEF Refresh
<1> DEFINE asked == Stale \ answered
           joins == {p \in asked : Style[p] = "join"}
<1>2. PICK answer \in [answered -> Answers] :
        Asks(answered, tokenless, answer)
  BY <1>1
<1>3. /\ {p \in Stale : Style[p] = "local"} \subseteq answered
      /\ age' = [p \in Providers |-> IF p \in answered THEN 0 ELSE age[p]]
      /\ pending' = asked
      /\ inflight' = [p \in Providers |-> [l \in Legs |->
                        IF p \in asked /\ l \in FirstLegs(p, tokenless)
                        THEN inflight[p][l] + 1 ELSE inflight[p][l]]]
      /\ left' = [p \in Providers |-> IF p \in joins THEN 3 ELSE left[p]]
      /\ status' = [p \in Providers |->
                      IF p \in joins THEN [l \in JoinLegs |-> "unset"] ELSE status[p]]
      /\ IF pending' = {} THEN Publish ELSE loading' = TRUE /\ UNCHANGED shown
      /\ cache' = [p \in Providers |-> IF p \in answered THEN answer[p] ELSE cache[p]]
  BY <1>2, Zenon DEF Asks
<1>4. ~loading /\ pending = {}
  BY DEF Refresh, IInv
<1>5. \A p \in Providers, l \in Legs : inflight[p][l] = 0
  BY <1>4, TypeFacts DEF LegsFit
<1>6. /\ Stale \subseteq Providers /\ answered \subseteq Providers
      /\ \A p \in Providers : p \in Stale <=> ~Fresh(p)
      /\ \A p \in Providers : Fresh(p) => cache[p] # "none"
  BY DEF Stale, Fresh
<1>7. \A p \in answered : answer[p] \in Entries /\ answer[p] # "none"
  BY DEF Answers, Entries
<1>8. /\ JoinLegs \subseteq Legs /\ JoinLegs = {"balance", "detail", "plan"}
      /\ asked \subseteq Providers /\ joins \subseteq asked
  BY <1>6 DEF Legs, JoinLegs
<1>9. ASSUME NEW p \in Providers, NEW l \in Legs
      PROVE  inflight'[p][l] = IF p \in asked /\ l \in FirstLegs(p, tokenless) THEN 1 ELSE 0
  BY <1>3, <1>5
<1>10. TypeOK'
  <2>t. TypeOK
    BY DEF IInv
  <2>1. cache' \in [Providers -> Entries]
    BY <1>3, <1>7, <2>t DEF TypeOK
  <2>2. age' \in [Providers -> 0..Lifetime]
    BY <1>3, <2>t, UsageAssumption DEF TypeOK
  <2>3. inflight' \in [Providers -> [Legs -> Nat]]
    BY <1>3, <2>t DEF TypeOK
  <2>4. left' \in [Providers -> 0..3]
    BY <1>3, <2>t DEF TypeOK
  <2>5. status' \in [Providers -> [JoinLegs -> Statuses]]
    BY <1>3, <2>t DEF TypeOK, Statuses
  <2>6. shown' \in [Providers -> Entries] /\ loading' \in BOOLEAN
    BY <1>3, <2>1, <2>t DEF TypeOK, Publish
  <2> QED
    BY <1>3, <1>8, <2>1, <2>2, <2>3, <2>4, <2>5, <2>6 DEF TypeOK
<1>11. loading' <=> pending' # {}
  BY <1>3 DEF Publish
<1>12. ASSUME NEW p \in Providers
       PROVE  LegsFit(p)'
  <2> HIDE DEF asked, joins
  <2>1. CASE p \notin asked
    <3>1. \A l \in Legs : inflight'[p][l] = 0
      BY <1>9, <2>1
    <3>2. Style[p] = "join" => left'[p] = 0
      <4>1. p \notin joins
        BY <1>8, <2>1
      <4>2. left'[p] = left[p]
        BY <1>3, <4>1
      <4> QED
        BY <1>5, <1>8, <4>2, TypeFacts DEF LegsFit
    <3> QED
      BY <1>3, <1>8, <2>1, <3>1, <3>2 DEF LegsFit
  <2>2. CASE p \in asked /\ Style[p] = "join"
    <3>1. \A l \in Legs : inflight'[p][l] = IF l \in JoinLegs THEN 1 ELSE 0
      BY <1>9, <2>2, FirstLegsFit
    <3>2. left'[p] = 3
      BY <1>3, <2>2 DEF joins
    <3> QED
      BY <1>3, <1>8, <2>2, <3>1, <3>2 DEF LegsFit
  <2>3. CASE p \in asked /\ Style[p] # "join"
    <3>1. Style[p] # "local"
      BY <1>3, <2>3 DEF asked
    <3>2. PICK m \in Legs \ JoinLegs : FirstLegs(p, tokenless) = {m}
      BY <2>3, <3>1, FirstLegsFit
    <3>3. \A l \in Legs : inflight'[p][l] = IF l = m THEN 1 ELSE 0
      BY <1>9, <2>3, <3>2
    <3> QED
      BY <1>3, <1>8, <2>3, <3>3 DEF LegsFit
  <2> QED
    BY <2>1, <2>2, <2>3
<1>13. WholeInv'
  <2>1. \A p \in Providers \ pending' : cache'[p] # "none"
    <3> TAKE p \in Providers \ pending'
    <3>1. CASE p \in answered
      BY <1>3, <1>7, <3>1
    <3>2. CASE p \notin answered
      BY <1>3, <1>6, <3>2
    <3> QED
      BY <3>1, <3>2
  <2>2. CASE pending' = {}
    BY <1>3, <2>1, <2>2 DEF WholeInv, Publish
  <2>3. CASE pending' # {}
    BY <1>3, <2>1, <2>3 DEF WholeInv, IInv
  <2> QED
    BY <2>2, <2>3
<1>14. \A p \in pending' : ~Fresh(p)'
  <2> TAKE p \in pending'
  <2>1. p \in Providers /\ p \notin answered /\ ~Fresh(p)
    BY <1>3, <1>6
  <2>2. cache'[p] = cache[p] /\ age'[p] = age[p]
    BY <1>3, <2>1
  <2> QED
    BY <2>1, <2>2 DEF Fresh
<1> QED
  BY <1>10, <1>11, <1>12, <1>13, <1>14 DEF IInv

-----------------------------------------------------------------------------
LEMMA InitIInv == Init => IInv
<1> SUFFICES ASSUME Init PROVE IInv
  OBVIOUS
<1>1. TypeOK
  <2>1. Lifetime \in 0..Lifetime /\ "none" \in Entries /\ "unset" \in Statuses
    BY UsageAssumption DEF Entries, Statuses
  <2>2. /\ inflight \in [Providers -> [Legs -> Nat]] /\ left \in [Providers -> 0..3]
        /\ status \in [Providers -> [JoinLegs -> Statuses]]
    BY <2>1 DEF Init
  <2>3. /\ shown \in [Providers -> Entries] /\ cache \in [Providers -> Entries]
        /\ age \in [Providers -> 0..Lifetime]
    BY <2>1 DEF Init
  <2> QED
    BY <2>2, <2>3 DEF Init, TypeOK
<1>2. ASSUME NEW p \in Providers
      PROVE  LegsFit(p)
  <2>1. \A l \in Legs : inflight[p][l] = 0
    BY DEF Init
  <2> QED
    BY <2>1 DEF Init, LegsFit, Legs, JoinLegs
<1>3. WholeInv
  BY DEF Init, WholeInv
<1> QED
  BY <1>1, <1>2, <1>3 DEF Init, IInv

LEMMA NextIInv == IInv /\ [Next]_vars => IInv'
<1> SUFFICES ASSUME IInv, [Next]_vars
             PROVE  IInv'
  OBVIOUS
<1>1. CASE Refresh
  BY <1>1, RefreshFits
<1>2. ASSUME NEW p \in Providers, ReplyFinished(p) \/ CliExited(p)
      PROVE  IInv'
  <2>1. PICK leg \in {"reply", "process"} : Ends(p, leg)
    BY <1>2 DEF ReplyFinished, CliExited
  <2>2. PICK answer \in Answers : Report(p, answer)
    BY <1>2 DEF ReplyFinished, CliExited
  <2>3. leg \in Legs \ JoinLegs /\ UNCHANGED <<left, status>>
    BY <1>2, <2>1 DEF Legs, JoinLegs, ReplyFinished, CliExited
  <2> QED
    BY <2>1, <2>2, <2>3, LastLeg, ReportFits
<1>3. ASSUME NEW p \in Providers, TokenFinished(p)
      PROVE  IInv'
  BY <1>3, TokenFits
<1>4. ASSUME NEW p \in Providers, NEW leg \in JoinLegs, JoinLegFinished(p, leg)
      PROVE  IInv'
  BY <1>4, JoinFits
<1>5. CASE Tick
  <2>1. /\ UNCHANGED <<loading, shown, cache, pending, inflight, left, status>>
        /\ age' = [p \in Providers |-> IF age[p] < Lifetime THEN age[p] + 1 ELSE age[p]]
    BY <1>5 DEF Tick
  <2>2. age' \in [Providers -> 0..Lifetime]
    BY <2>1, UsageAssumption DEF IInv, TypeOK
  <2>3. TypeOK'
    BY <2>1, <2>2 DEF IInv, TypeOK
  <2>4. \A p \in Providers : LegsFit(p)'
    BY <2>1 DEF IInv, LegsFit
  <2>5. \A p \in pending' : ~Fresh(p)'
    <3> TAKE p \in pending'
    <3>1. p \in Providers /\ ~Fresh(p) /\ age[p] \in 0..Lifetime
      BY <2>1 DEF IInv, TypeOK
    <3> QED
      BY <2>1, <3>1, UsageAssumption DEF Fresh
  <2> QED
    BY <2>1, <2>3, <2>4, <2>5 DEF IInv, WholeInv
<1>6. CASE UNCHANGED vars
  BY <1>6 DEF vars, IInv, TypeOK, LegsFit, WholeInv, Fresh
<1> QED
  BY <1>1, <1>2, <1>3, <1>4, <1>5, <1>6 DEF Next, Network

LEMMA IInvHolds == Spec => []IInv
<1> QED
  BY InitIInv, NextIInv, PTL DEF Spec

-----------------------------------------------------------------------------
\* Every variable has its type; Xiaomi's counter never goes below zero.
THEOREM UsageTypes == Spec => []TypeOK
<1>1. IInv => TypeOK
  BY DEF IInv
<1> QED
  BY <1>1, IInvHolds, PTL

\* A set that has its one element or not.
LEMMA OneOrNone ==
  ASSUME NEW e, NEW n \in {0, 1}
  PROVE  /\ IsFiniteSet(IF n > 0 THEN {e} ELSE {})
         /\ Cardinality(IF n > 0 THEN {e} ELSE {}) = n
<1>1. CASE n = 0
  BY <1>1, FS_EmptySet
<1>2. CASE n = 1
  <2>1. (IF n > 0 THEN {e} ELSE {}) = {e}
    BY <1>2
  <2>2. IsFiniteSet({e}) /\ Cardinality({e}) = 1
    BY FS_Singleton
  <2> QED
    BY <1>2, <2>1, <2>2
<1> QED
  BY <1>1, <1>2

\* The open legs of Xiaomi, counted.
LEMMA JoinCount ==
  ASSUME IInv, NEW p \in Providers, Style[p] = "join"
  PROVE  Cardinality(Running(p)) = left[p]
<1> DEFINE B == IF inflight[p]["balance"] > 0 THEN {"balance"} ELSE {}
           D == IF inflight[p]["detail"] > 0 THEN {"detail"} ELSE {}
           L == IF inflight[p]["plan"] > 0 THEN {"plan"} ELSE {}
<1>1. /\ \A l \in Legs : inflight[p][l] \in {0, 1}
      /\ \A l \in Legs \ JoinLegs : inflight[p][l] = 0
      /\ left[p] = inflight[p]["balance"] + inflight[p]["detail"] + inflight[p]["plan"]
  BY TypeFacts DEF LegsFit
<1>2. Running(p) = (B \cup D) \cup L
  BY <1>1 DEF Running, Legs, JoinLegs
<1>3. /\ IsFiniteSet(B) /\ Cardinality(B) = inflight[p]["balance"]
      /\ IsFiniteSet(D) /\ Cardinality(D) = inflight[p]["detail"]
      /\ IsFiniteSet(L) /\ Cardinality(L) = inflight[p]["plan"]
  <2>1. /\ inflight[p]["balance"] \in {0, 1} /\ inflight[p]["detail"] \in {0, 1}
        /\ inflight[p]["plan"] \in {0, 1}
    BY <1>1 DEF Legs
  <2> QED
    BY <2>1, OneOrNone
<1>4. B \cap D = {} /\ (B \cup D) \cap L = {}
  OBVIOUS
<1> HIDE DEF B, D, L
<1>5. /\ IsFiniteSet(B \cup D)
      /\ Cardinality(B \cup D) = inflight[p]["balance"] + inflight[p]["detail"]
  BY <1>1, <1>3, <1>4, FS_Union, FS_EmptySet DEF Legs
<1>6. Cardinality((B \cup D) \cup L)
        = inflight[p]["balance"] + inflight[p]["detail"] + inflight[p]["plan"]
  BY <1>1, <1>3, <1>4, <1>5, FS_Union, FS_EmptySet DEF Legs
<1> QED
  BY <1>1, <1>2, <1>6

\* PendingIsRunning: the count-down agrees with what is running outside
\* (provider_manager.cpp:75-147).
THEOREM PendingRuns == Spec => []PendingIsRunning
<1>1. ASSUME IInv PROVE PendingIsRunning
  <2>1. ASSUME NEW p \in Providers
        PROVE  /\ p \in pending <=> Running(p) # {}
               /\ \A l \in Legs : inflight[p][l] <= 1
               /\ Running(p) \notin SUBSET JoinLegs => Cardinality(Running(p)) = 1
               /\ Style[p] = "join" => Cardinality(Running(p)) = left[p]
    <3>1. /\ \A l \in Legs : inflight[p][l] \in {0, 1}
          /\ p \in pending <=> \E l \in Legs : inflight[p][l] = 1
      BY <1>1, TypeFacts DEF LegsFit
    <3>2. p \in pending <=> Running(p) # {}
      BY <3>1 DEF Running
    <3>3. ASSUME Running(p) \notin SUBSET JoinLegs
          PROVE  Cardinality(Running(p)) = 1
      <4>1. PICK l \in Legs \ JoinLegs : inflight[p][l] = 1
        BY <3>1, <3>3 DEF Running
      <4>2. Style[p] # "join"
        BY <1>1, <4>1, TypeFacts DEF LegsFit
      <4>3. Running(p) = {l}
        BY <1>1, <3>1, <4>1, <4>2, TypeFacts DEF Running, LegsFit
      <4> QED
        BY <4>3, FS_Singleton
    <3> QED
      BY <1>1, <3>1, <3>2, <3>3, JoinCount
  <2> QED
    BY <1>1, <2>1 DEF PendingIsRunning, IInv
<1> QED
  BY <1>1, IInvHolds, PTL

\* PublishedWhole: a round's cards appear together (usage_controller.cpp:51-70).
THEOREM RoundIsWhole == Spec => []PublishedWhole
<1>1. IInv => PublishedWhole
  BY DEF IInv, WholeInv, PublishedWhole
<1> QED
  BY <1>1, IInvHolds, PTL

\* FreshLeftAlone: a provider that answered lately is neither asked nor changed
\* (provider_manager.cpp:75-147).
THEOREM FreshIsLeftAlone == Spec => FreshLeftAlone
<1>1. IInv /\ [Next]_vars =>
        [\A p \in Providers : Fresh(p) => inflight'[p] = inflight[p]
                                          /\ cache'[p] = cache[p]]_<<inflight, cache>>
  <2> SUFFICES ASSUME IInv, [Next]_vars, NEW p \in Providers, Fresh(p)
               PROVE  inflight'[p] = inflight[p] /\ cache'[p] = cache[p]
    BY Zenon
  <2>t. inflight \in [Providers -> [Legs -> Nat]] /\ cache \in [Providers -> Entries]
    BY DEF IInv, TypeOK
  <2>0. p \notin pending /\ \A l \in Legs : inflight[p][l] = 0
    BY TypeFacts DEF IInv, LegsFit
  <2>1. CASE Refresh
    <3>1. p \notin Stale
      BY DEF Stale
    <3>2. PICK answered \in SUBSET Stale, tokenless \in SUBSET Stale :
            \E answer \in [answered -> Answers] : Asks(answered, tokenless, answer)
      BY <2>1 DEF Refresh
    <3>3. inflight'[p] = [l \in Legs |-> inflight[p][l]] /\ cache'[p] = cache[p]
      BY <3>1, <3>2 DEF Asks
    <3> QED
      BY <2>t, <3>3
  <2>2. ASSUME NEW q \in Providers, Network(q) \/ CliExited(q)
        PROVE  inflight'[p] = inflight[p] /\ cache'[p] = cache[p]
    <3>1. \E l \in Legs : inflight[q][l] > 0
      BY <2>2 DEF Network, CliExited, ReplyFinished, TokenFinished, JoinLegFinished, Ends,
                  Legs, JoinLegs
    <3>2. q # p
      BY <2>0, <3>1
    <3>3. cache' = cache \/ \E a : cache' = [cache EXCEPT ![q] = a]
      BY <2>2, Zenon DEF Network, CliExited, ReplyFinished, TokenFinished, JoinLegFinished, Report,
                  NoReport
    <3>4. \E m : inflight' = [inflight EXCEPT ![q] = m]
      <4>1. CASE \E leg : Ends(q, leg)
        BY <4>1 DEF Ends
      <4>2. CASE inflight' = [inflight EXCEPT ![q]["token"] = @ - 1, ![q]["reply"] = @ + 1]
        BY <2>t, <4>2
      <4> QED
        BY <2>2, <4>1, <4>2, Zenon DEF Network, CliExited, ReplyFinished, TokenFinished,
                                JoinLegFinished
    <3> QED
      BY <2>t, <3>2, <3>3, <3>4
  <2>3. CASE Tick \/ UNCHANGED vars
    BY <2>3 DEF Tick, vars
  <2> QED
    BY <2>1, <2>2, <2>3 DEF Next
<1> QED
  BY <1>1, IInvHolds, PTL DEF Spec, FreshLeftAlone

-----------------------------------------------------------------------------
\* A report is one answer of a round.
LEMMA ReportAnswers ==
  ASSUME IInv, NEW p \in Providers, p \in pending, NEW answer \in Answers, Report(p, answer)
  PROVE  Page!Answer(p)
<1> DEFINE given == [q \in {p} |-> answer]
<1>1. /\ cache' = [cache EXCEPT ![p] = answer] /\ age' = [age EXCEPT ![p] = 0]
      /\ pending' = pending \ {p}
      /\ IF pending' = {} THEN shown' = cache' /\ loading' = FALSE
                          ELSE UNCHANGED <<shown, loading>>
  BY DEF Report, Publish
<1>2. loading = TRUE /\ cache \in [Providers -> Entries] /\ age \in [Providers -> 0..Lifetime]
  BY DEF IInv, TypeOK
<1>3. given \in [{p} -> Answers] /\ DOMAIN given = {p} /\ given[p] = answer
  OBVIOUS
<1>4. Page!Keep(given)
  BY <1>1, <1>2, <1>3 DEF Page!Keep
<1>5. Page!ShowWhenComplete
  BY <1>1, <1>2 DEF Page!ShowWhenComplete
<1> HIDE DEF given
<1> QED
  BY <1>1, <1>3, <1>4, <1>5 DEF Page!Answer

\* A leg that ends has a provider that waits for it.
LEMMA EndsPending ==
  ASSUME IInv, NEW p \in Providers, NEW leg \in Legs, inflight[p][leg] > 0
  PROVE  p \in pending
  BY TypeFacts DEF LegsFit

\* A refresh begins a round, and nothing is asked twice in it.
LEMMA RefreshBegins ==
  ASSUME IInv, Refresh
  PROVE  Page!Begin
<1>0. PICK answered \in SUBSET Stale, tokenless \in SUBSET Stale :
        \E answer \in [answered -> Answers] : Asks(answered, tokenless, answer)
  BY DEF Refresh
<1>1. PICK answer \in [answered -> Answers] : Asks(answered, tokenless, answer)
  BY <1>0
<1>2. /\ age' = [p \in Providers |-> IF p \in answered THEN 0 ELSE age[p]]
      /\ cache' = [p \in Providers |-> IF p \in answered THEN answer[p] ELSE cache[p]]
      /\ pending' = Stale \ answered
      /\ IF pending' = {} THEN Publish ELSE loading' = TRUE /\ UNCHANGED shown
  BY <1>1, Zenon DEF Asks
<1>3. Stale = Page!Due
  BY UsageAssumption DEF Stale, Fresh, Page!Due, IInv, TypeOK
<1>4. DOMAIN answer = answered
  OBVIOUS
<1>5. Page!Keep(answer)
  BY <1>2, <1>4 DEF Page!Keep
<1>6. Page!ShowWhenComplete
  BY <1>2 DEF Page!ShowWhenComplete, Publish
<1>7. ~loading
  BY DEF Refresh
<1> QED
  BY <1>2, <1>3, <1>5, <1>6, <1>7, Zenon DEF Page!Begin

\* What the fetchers do in between is not seen.
LEMMA QuietStep ==
  ASSUME NoReport
  PROVE  UNCHANGED Page!rounds
  BY DEF NoReport, Page!rounds

\* A step of one fetcher is its answer in the round, or is not seen.
LEMMA FetcherAnswers ==
  ASSUME IInv, NEW p \in Providers, Network(p) \/ CliExited(p)
  PROVE  Page!Answer(p) \/ UNCHANGED Page!rounds
<1>1. p \in pending
  BY EndsPending DEF Network, CliExited, ReplyFinished, TokenFinished, JoinLegFinished, Ends,
                     Legs, JoinLegs
<1>2. NoReport \/ \E answer \in Answers : Report(p, answer)
  <2>1. CASE \E leg \in JoinLegs : JoinLegFinished(p, leg)
    <3>1. JoinAnswer(status'[p]) \in Answers
      BY DEF JoinAnswer, Answers
    <3> QED
      BY <2>1, <3>1, Zenon DEF JoinLegFinished
  <2> QED
    BY <2>1, Zenon DEF Network, CliExited, ReplyFinished, TokenFinished
<1> QED
  BY <1>1, <1>2, ReportAnswers, QuietStep

\* QuotasComeInRounds: replies, joins, cascades and children are one answer per
\* provider and round, and the page changes with the last (provider_manager.cpp:75-147,
\* usage_controller.cpp:51-70).
THEOREM Refinement == Spec => QuotasComeInRounds
<1>1. Init => Page!Init
  BY DEF Init, Page!Init
<1>2. IInv /\ [Next]_vars => [Page!Next]_(Page!rounds)
  <2> SUFFICES ASSUME IInv, [Next]_vars
               PROVE  Page!Next \/ UNCHANGED Page!rounds
    OBVIOUS
  <2>1. CASE Refresh
    BY <2>1, RefreshBegins DEF Page!Next
  <2>2. ASSUME NEW p \in Providers, Network(p) \/ CliExited(p)
        PROVE  Page!Next \/ UNCHANGED Page!rounds
    BY <2>2, FetcherAnswers DEF Page!Next
  <2>3. CASE Tick
    BY <2>3 DEF Tick, Page!Tick, Page!Next
  <2>4. CASE UNCHANGED vars
    BY <2>4 DEF vars, Page!rounds
  <2> QED
    BY <2>1, <2>2, <2>3, <2>4 DEF Next
<1> QED
  BY <1>1, <1>2, IInvHolds, PTL DEF Spec, QuotasComeInRounds, Page!Spec
=============================================================================
