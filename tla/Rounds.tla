------------------------------- MODULE Rounds -------------------------------
(***************************************************************************)
(* What the quota page promises, whatever a fetcher does to get its answer: *)
(* quotas are collected in rounds.  A round asks every provider whose       *)
(* answer is missing or too old, and no other; each of them answers once,   *)
(* well or badly; the cards change only when the last one has answered, all *)
(* of them at once, and no round begins while one is running.               *)
(***************************************************************************)
EXTENDS Naturals

CONSTANTS
  Providers,  \* who is asked
  Answers,    \* what an answer may be
  Lifetime    \* how long an answer counts

VARIABLES
  loading,  \* a round is running
  shown,    \* the cards
  held,     \* the latest answer of each provider, or "none"
  age,      \* how old it is, up to Lifetime
  waiting   \* who has not answered in this round

rounds == <<loading, shown, held, age, waiting>>

Init ==
  /\ loading = FALSE
  /\ shown = [p \in Providers |-> "none"]
  /\ held = [p \in Providers |-> "none"]
  /\ age = [p \in Providers |-> Lifetime]
  /\ waiting = {}

\* The providers a round has to ask.
Due == {p \in Providers : held[p] = "none" \/ age[p] >= Lifetime}

\* The answers of a set of providers are kept, new as they are.
Keep(given) ==
  /\ held' = [p \in Providers |-> IF p \in DOMAIN given THEN given[p] ELSE held[p]]
  /\ age' = [p \in Providers |-> IF p \in DOMAIN given THEN 0 ELSE age[p]]

\* The cards wait for the last answer.
ShowWhenComplete ==
  /\ loading' = (waiting' # {})
  /\ shown' = IF waiting' = {} THEN held' ELSE shown

\* A round: some of the providers answer at once.
Begin ==
  /\ ~loading
  /\ \E atOnce \in SUBSET Due :
     \E given \in [atOnce -> Answers] :
       /\ Keep(given)
       /\ waiting' = Due \ atOnce
  /\ ShowWhenComplete

\* One of the others answers.
Answer(p) ==
  /\ p \in waiting
  /\ \E given \in [{p} -> Answers] : Keep(given)
  /\ waiting' = waiting \ {p}
  /\ ShowWhenComplete

\* Answers grow older.
Tick ==
  /\ age' = [p \in Providers |-> IF age[p] < Lifetime THEN age[p] + 1 ELSE age[p]]
  /\ UNCHANGED <<loading, shown, held, waiting>>

Next ==
  \/ Begin
  \/ \E p \in Providers : Answer(p)
  \/ Tick

Spec == Init /\ [][Next]_rounds
=============================================================================
