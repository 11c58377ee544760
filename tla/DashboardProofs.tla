--------------------------- MODULE DashboardProofs ---------------------------
(* Proofs about Dashboard: the lists implement Snapshots, success is the      *)
(* whole output, the rates are true, and every spinner is owed an answer.     *)
EXTENDS Dashboard, TLAPS

-----------------------------------------------------------------------------
\* What holds of a call, by how far it is.
CallFits(c) ==
  /\ c.stage \in {"done", "told"} => c.read = c.out /\ c.out <= Cap
  /\ c.op = "list" =>
       /\ loading[c.view]
       /\ c.seen <= world[c.view]
       /\ c.stage \in {"exited", "done"} => c.seen > 0
       /\ c.seen > 0 => asked[c.view] <= c.seen
       /\ c.leg = 2 =>
            /\ c.view = "agents"
            /\ asked[c.view] <= c.rows /\ c.rows <= world[c.view]
            /\ c.seen > 0 => c.rows <= c.seen

\* What holds of a view: when the list it waits for was asked for, what it shows
\* had been read.
ViewFits(v) ==
  /\ world[v] > 0 /\ shown[v].state <= world[v]
  /\ loading[v] <=> asked[v] > 0
  /\ loading[v] => shown[v].state <= asked[v] /\ asked[v] <= world[v]

\* The guard of refresh() keeps one list per view.
OneList ==
  \A c, d \in calls : c.op = "list" /\ d.op = "list" /\ c.view = d.view => c = d

ListsInv ==
  /\ ListsTypeOK
  /\ \A c \in calls : CallFits(c)
  /\ OneList
  /\ \A v \in Views : ViewFits(v)

\* What the sampler keeps of its last sample, and what has been counted since.
SinceLast(s) ==
  /\ previous[s].life <= counter[s].life
  /\ counter[s].life > 0
  /\ IF previous[s].life = counter[s].life
     THEN counter[s].value = previous[s].value + since[s]
     ELSE since[s] = counter[s].value

\* RateTrue, of one sample.
SampleTrue(s, r) ==
  /\ s = "vitals" => r.rate <= r.counted
  /\ s = "processes" => r.rate = r.counted
  /\ s = "stats" /\ r.same => r.rate = r.counted % Word

SamplersInv ==
  /\ SamplersTypeOK
  /\ \A s \in Samplers : SinceLast(s)
  /\ \A s \in Samplers : SampleTrue(s, sample[s]) /\ SampleTrue(s, reading[s])

PartsOK == present \in Setups /\ steps \in 0..Budget[present]

DashboardInv == PartsOK /\ ListsInv /\ SamplersInv /\ AccessTypeOK

-----------------------------------------------------------------------------
\* A call gets on; what it works on may have changed meanwhile.
LEMMA ReplaceFits ==
  ASSUME ListsInv, NEW c \in calls, NEW d \in Calls, Replace(c, d),
         d.view = c.view, d.op = c.op, CallFits(d)', UNCHANGED views,
         world' \in [Views -> Nat], \A v \in Views : world[v] <= world'[v]
  PROVE  ListsInv'
<1>1. calls' = (calls \ {c}) \cup {d} /\ UNCHANGED <<loading, asked, shown, active>>
  BY DEF Replace, views
<1>2. ListsTypeOK'
  BY <1>1 DEF ListsInv, ListsTypeOK
<1>3. OneList'
  BY <1>1 DEF ListsInv, OneList
<1>4. ASSUME NEW e \in calls', e # d
      PROVE  CallFits(e)'
  <2>1. e \in calls /\ e.view \in Views /\ e.seen \in Nat /\ e.rows \in Nat
    BY <1>1, <1>4 DEF ListsInv, ListsTypeOK, Calls
  <2>2. world[e.view] <= world'[e.view] /\ world[e.view] \in Nat /\ world'[e.view] \in Nat
    BY <2>1 DEF ListsInv, ListsTypeOK
  <2> QED
    BY <1>1, <2>1, <2>2 DEF ListsInv, CallFits
<1>5. \A v \in Views : ViewFits(v)'
  BY <1>1 DEF ListsInv, ListsTypeOK, ViewFits
<1> QED
  BY <1>2, <1>3, <1>4, <1>5 DEF ListsInv

\* Some calls are no longer there, some views are refreshed.
LEMMA ListingFits ==
  ASSUME ListsInv, PartsOK, NEW vs \in SUBSET Views, NEW others \in SUBSET calls,
         Listing(vs, others), UNCHANGED <<shown, active, world>>
  PROVE  ListsInv'
<1> DEFINE new == {Called(v, "list") : v \in Idle(vs)}
<1>0. steps \in Nat
  BY PartsAssumption DEF PartsOK
<1>1. /\ calls' = others \cup new
      /\ loading' = [v \in Views |-> loading[v] \/ v \in vs]
      /\ asked' = [v \in Views |-> IF v \in Idle(vs) THEN world[v] ELSE asked[v]]
  BY DEF Listing
<1>2. \A e \in new :
        /\ e \in Calls /\ e.view \in vs /\ e.view \in Views /\ ~loading[e.view]
        /\ e.op = "list" /\ e.seen = 0 /\ e.leg = 1 /\ e.stage = "queued"
        /\ e = Called(e.view, "list")
  BY <1>0, ListsAssumption DEF Called, Idle, Calls, Stages
<1>3. ListsTypeOK'
  BY <1>1, <1>2 DEF ListsInv, ListsTypeOK
<1>4. ASSUME NEW e \in others
      PROVE  CallFits(e)' /\ (e.op = "list" => loading[e.view]) /\ e.view \in Views
  <2>1. e \in calls /\ e.view \in Views
    BY DEF ListsInv, ListsTypeOK, Calls
  <2> QED
    BY <1>1, <2>1 DEF ListsInv, CallFits, Idle
<1>5. ASSUME NEW e \in new
      PROVE  CallFits(e)'
  <2> HIDE DEF new
  <2>1. /\ e.view \in vs /\ e.view \in Views /\ e.seen = 0
        /\ e.leg = 1 /\ e.stage = "queued"
    BY <1>2
  <2>2. loading'[e.view] /\ world'[e.view] \in Nat
    BY <1>1, <2>1 DEF ListsInv, ListsTypeOK
  <2> QED
    BY <2>1, <2>2 DEF CallFits
<1>6. OneList'
  <2> HIDE DEF new
  <2> SUFFICES ASSUME NEW c \in calls', NEW d \in calls',
                      c.op = "list", d.op = "list", c.view = d.view
               PROVE  c = d
    BY DEF OneList
  <2>1. CASE c \in new /\ d \in new
    BY <1>2, <2>1
  <2>2. CASE c \in others /\ d \in others
    BY <2>2 DEF ListsInv, OneList
  <2>3. ~(c \in new /\ d \in others) /\ ~(d \in new /\ c \in others)
    BY <1>2, <1>4
  <2> QED
    BY <1>1, <2>1, <2>2, <2>3
<1>7. ASSUME NEW v \in Views
      PROVE  ViewFits(v)'
  <2>1. /\ ViewFits(v) /\ world[v] \in Nat /\ shown[v].state \in Nat /\ asked[v] \in Nat
        /\ shown'[v] = shown[v] /\ world'[v] = world[v]
    BY DEF ListsInv, ListsTypeOK
  <2>2. CASE v \in Idle(vs)
    <3>1. loading'[v] /\ asked'[v] = world[v]
      BY <1>1, <2>2 DEF Idle
    <3> QED
      BY <2>1, <3>1 DEF ViewFits
  <2>3. CASE v \notin Idle(vs)
    <3>1. loading'[v] = loading[v] /\ asked'[v] = asked[v]
      BY <1>1, <2>3 DEF Idle, ListsInv, ListsTypeOK
    <3> QED
      BY <2>1, <3>1 DEF ViewFits
  <2> QED
    BY <2>2, <2>3
<1> QED
  BY <1>1, <1>3, <1>4, <1>5, <1>6, <1>7 DEF ListsInv

\* Every step of the lists keeps their invariant.
LEMMA ListsStep ==
  ASSUME ListsInv, PartsOK, ListsNext
  PROVE  ListsInv'
<1> USE DEF Views
<1>t. /\ ListsTypeOK
      /\ \A c \in calls : CallFits(c) /\ c \in Calls /\ c.view \in Views
      /\ world \in [Views -> Nat] /\ \A v \in Views : world[v] <= world[v]
      /\ steps \in Nat
  BY PartsAssumption DEF ListsInv, ListsTypeOK, Calls, PartsOK
<1>1. ASSUME NEW v \in Views, Refresh(v)
      PROVE  ListsInv'
  BY <1>1, ListingFits DEF Refresh
<1>2. ASSUME NEW v \in Views, Drift(v)
      PROVE  ListsInv'
  <2>1. /\ UNCHANGED <<calls, loading, asked, shown, active>>
        /\ world' = [world EXCEPT ![v] = @ + 1]
    BY <1>2 DEF Drift, views
  <2>2. world' \in [Views -> Nat] /\ \A u \in Views : world[u] <= world'[u]
    BY <1>t, <2>1
  <2>3. ListsTypeOK'
    BY <1>t, <2>1, <2>2 DEF ListsTypeOK
  <2>4. \A c \in calls : CallFits(c)'
    BY <1>t, <2>1, <2>2 DEF CallFits, Calls
  <2>5. \A u \in Views : ViewFits(u)'
    BY <1>t, <2>1, <2>2 DEF ListsInv, ListsTypeOK, ViewFits
  <2> QED
    BY <1>t, <2>1, <2>2, <2>3, <2>4, <2>5 DEF ListsInv, OneList
<1>3. ASSUME NEW v \in Views, NEW op \in {"change", "run"}, Ask(v, op)
      PROVE  ListsInv'
  <2> DEFINE c == Called(v, op)
  <2>1. calls' = calls \cup {c} /\ UNCHANGED <<loading, asked, shown, active, world>>
    BY <1>3 DEF Ask, views
  <2>2. c \in Calls /\ c.op # "list" /\ c.stage = "queued"
    BY <1>t, ListsAssumption DEF Called, Calls, Stages
  <2> HIDE DEF c
  <2>3. \A e \in calls' : CallFits(e)'
    BY <1>t, <2>1, <2>2 DEF CallFits
  <2> QED
    BY <1>t, <2>1, <2>2, <2>3 DEF ListsInv, ListsTypeOK, OneList, ViewFits
<1>4. ASSUME NEW c \in calls, Start(c)
      PROVE  ListsInv'
  <2>1. PICK s \in {"running", "failed"} : Replace(c, [c EXCEPT !.stage = s])
    BY <1>4 DEF Start
  <2>2. UNCHANGED <<views, world>> /\ c.stage = "queued"
    BY <1>4 DEF Start
  <2> DEFINE d == [c EXCEPT !.stage = s]
  <2>3. /\ d \in Calls /\ d.view = c.view /\ d.op = c.op /\ d.leg = c.leg
        /\ d.seen = c.seen /\ d.rows = c.rows /\ d.stage = s
    BY <1>t DEF Calls, Stages
  <2>4. CallFits(d)'
    BY <1>t, <2>2, <2>3 DEF CallFits, views
  <2> QED
    BY <1>t, <2>1, <2>2, <2>3, <2>4, ReplaceFits
<1>5. ASSUME NEW c \in calls, Act(c)
      PROVE  ListsInv'
  <2>1. /\ Replace(c, [c EXCEPT !.seen = world'[c.view]]) /\ UNCHANGED views
        /\ world' = [world EXCEPT ![c.view] = IF c.op = "change" THEN @ + 1 ELSE @]
        /\ c.stage = "running"
    BY <1>5 DEF Act
  <2>2. world' \in [Views -> Nat] /\ \A v \in Views : world[v] <= world'[v]
    BY <1>t, <2>1
  <2>3. PICK n \in Nat : n = world'[c.view]
    BY <1>t, <2>2
  <2> DEFINE d == [c EXCEPT !.seen = n]
  <2>4. Replace(c, d)
    BY <2>1, <2>3
  <2>5. /\ d \in Calls /\ d.view = c.view /\ d.op = c.op /\ d.leg = c.leg
        /\ d.rows = c.rows /\ d.seen = n /\ d.stage = c.stage /\ c.rows \in Nat
    BY <1>t DEF Calls
  <2>6. c.op = "list" => n = world[c.view] /\ UNCHANGED world
    BY <1>t, <2>1, <2>3
  <2>7. c.op = "list" => loading'[c.view] /\ asked'[c.view] <= n
    BY <1>t, <2>1, <2>2, <2>3 DEF ListsInv, ListsTypeOK, CallFits, ViewFits, views
  <2> HIDE DEF d
  <2>8. CallFits(d)'
    BY <1>t, <2>1, <2>3, <2>5, <2>6, <2>7 DEF CallFits, views
  <2> QED
    BY <2>1, <2>2, <2>4, <2>5, <2>8, ReplaceFits
<1>6. ASSUME NEW c \in calls, Emit(c)
      PROVE  ListsInv'
  <2> DEFINE d == [c EXCEPT !.out = @ + 1]
  <2>1. /\ Replace(c, d) /\ UNCHANGED <<views, world>>
        /\ c.stage = "running" /\ c.out < MaxOutput
    BY <1>6 DEF Emit
  <2>2. /\ d \in Calls /\ d.view = c.view /\ d.op = c.op /\ d.leg = c.leg
        /\ d.seen = c.seen /\ d.rows = c.rows /\ d.stage = c.stage
    BY <1>t, <2>1, ListsAssumption DEF Calls
  <2>3. CallFits(d)'
    BY <1>t, <2>1, <2>2 DEF CallFits, views
  <2> QED
    BY <1>t, <2>1, <2>2, <2>3, ReplaceFits
<1>7. ASSUME NEW c \in calls, Exit(c)
      PROVE  ListsInv'
  <2>1. PICK s \in {"exited", "crashed"} :
          /\ Replace(c, [c EXCEPT !.stage = s])
          /\ s = "exited" => (Decisive(c) => c.seen > 0)
    BY <1>7 DEF Exit
  <2>2. UNCHANGED <<views, world>> /\ c.stage = "running"
    BY <1>7 DEF Exit
  <2> DEFINE d == [c EXCEPT !.stage = s]
  <2>3. /\ d \in Calls /\ d.view = c.view /\ d.op = c.op /\ d.leg = c.leg
        /\ d.seen = c.seen /\ d.rows = c.rows /\ d.stage = s
    BY <1>t DEF Calls, Stages
  <2>4. c.op = "list" /\ s = "exited" => c.seen > 0
    BY <2>1 DEF Decisive
  <2>5. CallFits(d)'
    BY <1>t, <2>2, <2>3, <2>4 DEF CallFits, views
  <2> QED
    BY <1>t, <2>1, <2>2, <2>3, <2>5, ReplaceFits
<1>8. ASSUME NEW c \in calls, Collect(c)
      PROVE  ListsInv'
  <2> DEFINE s == IF c.out > Cap THEN "failed" ELSE c.stage
             d == [c EXCEPT !.read = c.out, !.stage = s]
  <2>1. /\ Replace(c, d) /\ UNCHANGED <<views, world>>
        /\ c.stage \in {"running", "exited", "crashed"}
    BY <1>8 DEF Collect
  <2>2. /\ d \in Calls /\ d.view = c.view /\ d.op = c.op /\ d.leg = c.leg
        /\ d.seen = c.seen /\ d.rows = c.rows /\ d.stage \in {c.stage, "failed"}
    BY <1>t DEF Calls, Stages
  <2>3. CallFits(d)'
    BY <1>t, <2>1, <2>2 DEF CallFits, views
  <2> QED
    BY <1>t, <2>1, <2>2, <2>3, ReplaceFits
<1>9. ASSUME NEW c \in calls, Deadline(c)
      PROVE  ListsInv'
  <2> DEFINE d == [c EXCEPT !.stage = "failed"]
  <2>1. Replace(c, d) /\ UNCHANGED <<views, world>>
    BY <1>9 DEF Deadline
  <2>2. /\ d \in Calls /\ d.view = c.view /\ d.op = c.op /\ d.leg = c.leg
        /\ d.seen = c.seen /\ d.rows = c.rows /\ d.stage = "failed"
    BY <1>t DEF Calls, Stages
  <2>3. CallFits(d)'
    BY <1>t, <2>1, <2>2 DEF CallFits, views
  <2> QED
    BY <1>t, <2>1, <2>2, <2>3, ReplaceFits
<1>10. ASSUME NEW c \in calls, Finish(c)
       PROVE  ListsInv'
  <2>1. PICK s \in {"failed", "done"} :
          /\ Replace(c, [c EXCEPT !.read = c.out, !.stage = s])
          /\ s = "done" => c.stage = "exited" /\ c.out <= Cap
    BY <1>10 DEF Finish
  <2>2. UNCHANGED <<views, world>>
    BY <1>10 DEF Finish
  <2> DEFINE d == [c EXCEPT !.read = c.out, !.stage = s]
  <2>3. /\ d \in Calls /\ d.view = c.view /\ d.op = c.op /\ d.leg = c.leg
        /\ d.seen = c.seen /\ d.rows = c.rows /\ d.stage = s /\ d.read = d.out /\ d.out = c.out
    BY <1>t DEF Calls, Stages
  <2>4. CallFits(d)'
    BY <1>t, <2>1, <2>2, <2>3 DEF CallFits, views
  <2> QED
    BY <1>t, <2>1, <2>2, <2>3, <2>4, ReplaceFits
<1>11. ASSUME NEW c \in calls, NextLeg(c)
       PROVE  ListsInv'
  <2> DEFINE d == [c EXCEPT !.leg = 2, !.stage = "queued", !.out = 0, !.read = 0,
                            !.rows = c.seen, !.seen = 0]
  <2>1. Replace(c, d) /\ UNCHANGED <<views, world>> /\ c.stage = "done" /\ c.leg < Legs(c)
    BY <1>11 DEF NextLeg
  <2>2. /\ d \in Calls /\ d.view = c.view /\ d.op = c.op /\ d.leg = 2
        /\ d.rows = c.seen /\ d.seen = 0 /\ d.stage = "queued"
    <3>1. 2 \in {1, 2} /\ 0 \in 0..MaxOutput /\ 0 \in Nat /\ "queued" \in Stages
      BY ListsAssumption DEF Stages
    <3>2. c \in Calls /\ c.seen \in Nat
      BY <1>t DEF Calls
    <3> QED
      BY <3>1, <3>2 DEF Calls
  <2>3. c.op = "list" => c.view = "agents"
    BY <1>t, <2>1 DEF Legs, Calls
  <2> HIDE DEF d
  <2>4. CallFits(d)'
    BY <1>t, <2>1, <2>2, <2>3 DEF CallFits, views
  <2> QED
    BY <1>t, <2>1, <2>2, <2>4, ReplaceFits
<1>12. ASSUME NEW c \in calls, OnActive(c)
       PROVE  ListsInv'
  <2> DEFINE d == [c EXCEPT !.stage = "told"]
  <2>1. /\ calls' = (calls \ {c}) \cup {d} /\ active' = c.seen
        /\ UNCHANGED <<loading, asked, shown, world>>
        /\ c.stage = "done" /\ c.op = "change"
    BY <1>12 DEF OnActive, Replace
  <2>2. /\ d \in Calls /\ d.op = "change" /\ d.read = c.read /\ d.out = c.out
    BY <1>t, <2>1 DEF Calls, Stages
  <2>3. \A e \in calls' : CallFits(e)' /\ e \in Calls
    BY <1>t, <2>1, <2>2 DEF CallFits
  <2>4. ListsTypeOK'
    BY <1>t, <2>1, <2>3 DEF ListsTypeOK, Calls
  <2> QED
    BY <2>1, <2>2, <2>3, <2>4 DEF ListsInv, OneList, ViewFits
<1>13. ASSUME NEW c \in calls, OnListed(c)
       PROVE  ListsInv'
  <2>1. /\ calls' = calls \ {c} /\ c.op = "list" /\ UNCHANGED world
        /\ loading' = [loading EXCEPT ![c.view] = FALSE]
        /\ asked' = [asked EXCEPT ![c.view] = 0]
        /\ shown' = shown \/ (/\ shown' = [shown EXCEPT ![c.view] = Read(c)]
                              /\ Read(c).state <= world[c.view])
        /\ active' = active \/ active' = c.seen
    BY <1>13, <1>t DEF OnListed, CallFits, Read
  <2>r. Read(c) \in [rows : Nat, state : Nat] /\ c.seen \in Nat
    BY <1>t DEF Read, Calls
  <2>2. ListsTypeOK'
    BY <1>t, <2>1, <2>r DEF ListsTypeOK
  <2>3. ASSUME NEW e \in calls'
        PROVE  CallFits(e)'
    <3>1. e \in calls /\ (e.op = "list" => e.view # c.view)
      BY <2>1 DEF ListsInv, OneList
    <3>2. CASE e.op = "list"
      <4>1. e.view # c.view /\ e.view \in Views /\ c.view \in Views
        BY <1>t, <3>1, <3>2
      <4>2. loading'[e.view] = loading[e.view] /\ asked'[e.view] = asked[e.view]
        BY <1>t, <2>1, <4>1 DEF ListsTypeOK
      <4> QED
        BY <1>t, <2>1, <3>1, <4>2 DEF CallFits
    <3>3. CASE e.op # "list"
      BY <1>t, <3>1, <3>3 DEF CallFits
    <3> QED
      BY <3>2, <3>3
  <2>4. ASSUME NEW v \in Views
        PROVE  ViewFits(v)'
    <3>1. /\ ViewFits(v) /\ world'[v] = world[v] /\ c.view \in Views
          /\ shown \in [Views -> [rows : Nat, state : Nat]] /\ asked \in [Views -> Nat]
          /\ loading \in [Views -> BOOLEAN]
      BY <1>t, <2>1 DEF ListsInv, ListsTypeOK
    <3>2. CASE v = c.view
      <4>1. /\ ~loading'[v] /\ asked'[v] = 0
            /\ shown'[v].state <= world[v] /\ world[v] > 0
        BY <2>1, <3>1, <3>2 DEF ViewFits
      <4> QED
        BY <3>1, <4>1 DEF ViewFits
    <3>3. CASE v # c.view
      <4>1. loading'[v] = loading[v] /\ asked'[v] = asked[v] /\ shown'[v] = shown[v]
        BY <2>1, <3>1, <3>3
      <4> QED
        BY <3>1, <4>1 DEF ViewFits
    <3> QED
      BY <3>2, <3>3
  <2> QED
    BY <2>1, <2>2, <2>3, <2>4 DEF ListsInv, OneList
<1>14. ASSUME NEW c \in calls, OnAsked(c)
       PROVE  ListsInv'
  <2>1. CASE Listing({c.view}, calls \ {c})
    BY <1>14, <1>t, <2>1, ListingFits DEF OnAsked
  <2>2. CASE calls' = calls \ {c} /\ UNCHANGED <<loading, asked>>
    <3>1. UNCHANGED <<shown, active, world>>
      BY <1>14 DEF OnAsked
    <3> QED
      BY <2>2, <3>1 DEF ListsInv, ListsTypeOK, OneList, CallFits, ViewFits
  <2> QED
    BY <1>14, <2>1, <2>2 DEF OnAsked
<1>15. ASSUME NEW c \in calls, Malformed(c)
       PROVE  ListsInv'
  <2> DEFINE d == [c EXCEPT !.stage = "failed"]
  <2>1. Replace(c, d) /\ UNCHANGED <<views, world>>
    BY <1>15 DEF Malformed
  <2>2. /\ d \in Calls /\ d.view = c.view /\ d.op = c.op /\ d.leg = c.leg
        /\ d.seen = c.seen /\ d.rows = c.rows /\ d.stage = "failed"
    BY <1>t DEF Calls, Stages
  <2>3. CallFits(d)'
    BY <1>t, <2>1, <2>2 DEF CallFits, views
  <2> QED
    BY <1>t, <2>1, <2>2, <2>3, ReplaceFits
<1> QED
  BY <1>1, <1>2, <1>3, <1>4, <1>5, <1>6, <1>7, <1>8, <1>9, <1>10, <1>11, <1>12,
     <1>13, <1>14, <1>15 DEF ListsNext, ListUser, Child, ListWorker, ListSlot

-----------------------------------------------------------------------------
\* What a sampler computes from the counter and the last sample is true.
LEMMA FoundTrue ==
  ASSUME SamplersInv, NEW s \in Samplers
  PROVE  Found(s) \in Samples /\ SampleTrue(s, Found(s))
<1> DEFINE last == previous[s]
           now == counter[s]
           n == since[s]
           rate == RateOf(s, last, now)
<1>1. /\ last.value \in Nat /\ last.life \in Nat
      /\ now.value \in Nat /\ now.life \in Nat /\ n \in Nat
      /\ Word \in Nat /\ Word > 0
  BY SamplersAssumption DEF SamplersInv, SamplersTypeOK, Counters
<1>2. /\ last.life <= now.life /\ now.life > 0
      /\ last.life = now.life => now.value = last.value + n
      /\ last.life # now.life => n = now.value
  BY DEF SamplersInv, SinceLast
<1>3. Found(s) = [rate |-> rate, counted |-> n, same |-> last.life = now.life]
  BY DEF Found
<1> HIDE DEF last, now, n
<1>4. CASE s = "vitals"
  <2>1. rate = IF last # None /\ now.value >= last.value THEN now.value - last.value ELSE 0
    BY <1>4 DEF RateOf, Increase
  <2>2. rate \in Nat /\ rate <= n
    BY <1>1, <1>2, <2>1
  <2> HIDE DEF rate
  <2> QED
    BY <1>1, <1>3, <1>4, <2>2 DEF Samples, SampleTrue
<1>5. CASE s = "processes"
  <2>1. rate = IF last.life = now.life /\ now.value >= last.value
               THEN now.value - last.value ELSE now.value
    BY <1>5 DEF RateOf, Used
  <2>2. rate \in Nat /\ rate = n
    BY <1>1, <1>2, <2>1
  <2> HIDE DEF rate
  <2> QED
    BY <1>1, <1>3, <1>5, <2>2 DEF Samples, SampleTrue
<1>6. CASE s = "stats"
  <2>1. rate = (now.value - last.value) % Word
    BY <1>6 DEF RateOf, Wrapped
  <2>2. now.value - last.value \in Int
    BY <1>1
  <2>3. rate \in Nat
    BY <1>1, <2>1, <2>2
  <2>4. last.life = now.life => now.value - last.value = n
    BY <1>1, <1>2
  <2>5. last.life = now.life => rate = n % Word
    BY <2>1, <2>4
  <2> HIDE DEF rate
  <2> QED
    <3>1. Found(s) \in Samples
      BY <1>1, <1>3, <2>3 DEF Samples
    <3>2. /\ Found(s).rate = rate /\ Found(s).counted = n
          /\ Found(s).same = (last.life = now.life)
      BY <1>3
    <3>3. Found(s).same => Found(s).rate = Found(s).counted % Word
      BY <2>5, <3>2, Zenon
    <3>4. s # "vitals" /\ s # "processes"
      BY <1>6
    <3> QED
      BY <3>1, <3>3, <3>4, Zenon DEF SampleTrue
<1>7. CASE s = "containers"
  <2>1. rate = 0
    BY <1>7 DEF RateOf
  <2> HIDE DEF rate
  <2> QED
    BY <1>1, <1>3, <1>7, <2>1 DEF Samples, SampleTrue
<1> QED
  BY <1>4, <1>5, <1>6, <1>7 DEF Samplers, Pooled

\* Nothing was sampled.
LEMMA NothingTrue ==
  Nothing \in Samples /\ \A s \in Samplers : SampleTrue(s, Nothing)
<1>1. Nothing \in Samples
  BY DEF Nothing, Samples
<1>2. 0 % Word = 0
  BY SamplersAssumption
<1> QED
  BY <1>1, <1>2 DEF Nothing, SampleTrue

\* Timers and refreshes start samples; what is known of them stays.
LEMMA OnlyStarted ==
  ASSUME SamplersInv, UNCHANGED <<counter, since, previous, sample, reading>>,
         ticking' \in [Samplers -> BOOLEAN], waiting' \in [Asking -> BOOLEAN],
         sampling' \in [Samplers -> SampleStages]
  PROVE  SamplersInv'
<1>1. SamplersTypeOK'
  BY DEF SamplersInv, SamplersTypeOK
<1>2. \A s \in Samplers : SinceLast(s)'
  BY DEF SamplersInv, SinceLast
<1>3. \A s \in Samplers : SampleTrue(s, sample[s])' /\ SampleTrue(s, reading[s])'
  BY DEF SamplersInv, SampleTrue
<1> QED
  BY <1>1, <1>2, <1>3 DEF SamplersInv

\* The slots of refresh() start samples too.
LEMMA SamplingFits ==
  ASSUME SamplersInv, NEW ss \in SUBSET Asking, Sampling(ss),
         UNCHANGED <<ticking, counter, since, previous, sample, reading>>
  PROVE  SamplersInv'
<1>1. waiting' = [s \in Asking |-> waiting[s] \/ s \in ss]
  BY DEF Sampling
<1>2. waiting' \in [Asking -> BOOLEAN]
  BY <1>1
<1>3. sampling' \in [Samplers -> SampleStages]
  BY DEF Sampling, SamplersInv, SamplersTypeOK, SampleStages
<1>4. ticking' \in [Samplers -> BOOLEAN]
  BY DEF SamplersInv, SamplersTypeOK
<1> QED
  BY <1>2, <1>3, <1>4, OnlyStarted

\* Every step of the samplers keeps their invariant.
LEMMA SamplersStep ==
  ASSUME SamplersInv, SamplersNext
  PROVE  SamplersInv'
<1>t. /\ ticking \in [Samplers -> BOOLEAN] /\ waiting \in [Asking -> BOOLEAN]
      /\ sampling \in [Samplers -> SampleStages]
      /\ counter \in [Samplers -> Counters] /\ previous \in [Samplers -> Counters]
      /\ since \in [Samplers -> Nat]
      /\ sample \in [Samplers -> Samples] /\ reading \in [Samplers -> Samples]
  BY DEF SamplersInv, SamplersTypeOK
<1>s. \A s \in Samplers : /\ SinceLast(s)
                          /\ SampleTrue(s, sample[s]) /\ SampleTrue(s, reading[s])
                          /\ counter[s].value \in Nat /\ counter[s].life \in Nat
                          /\ previous[s].value \in Nat /\ previous[s].life \in Nat
                          /\ since[s] \in Nat
  BY <1>t DEF SamplersInv, Counters
<1>p. Asking \subseteq Samplers /\ Pooled \subseteq Samplers /\ "stats" \in Samplers
  BY DEF Asking, Pooled, Samplers
<1>1. CASE StartVitals
  <2>1. ticking' \in [Samplers -> BOOLEAN] /\ waiting' \in [Asking -> BOOLEAN]
    BY <1>1, <1>t DEF StartVitals
  <2>2. sampling' \in [Samplers -> SampleStages]
    BY <1>1, <1>t DEF StartVitals, SampleNow, SampleStages
  <2> QED
    BY <1>1, <2>1, <2>2, OnlyStarted DEF StartVitals
<1>2. ASSUME NEW s \in Samplers, Tick(s)
      PROVE  SamplersInv'
  <2>1. ticking' \in [Samplers -> BOOLEAN] /\ waiting' \in [Asking -> BOOLEAN]
    BY <1>2, <1>t DEF Tick
  <2>2. sampling' \in [Samplers -> SampleStages]
    BY <1>2, <1>t DEF Tick, SampleNow, SampleStages
  <2> QED
    BY <1>2, <2>1, <2>2, OnlyStarted DEF Tick
<1>3. ASSUME NEW s \in Samplers, NEW on \in BOOLEAN, Pause(s, on)
      PROVE  SamplersInv'
  <2>1. ticking' = [ticking EXCEPT ![s] = on]
    BY <1>3 DEF Pause
  <2>2. ticking' \in [Samplers -> BOOLEAN]
    BY <1>t, <2>1
  <2>3. waiting' \in [Asking -> BOOLEAN] /\ sampling' \in [Samplers -> SampleStages]
    BY <1>3, <1>t DEF Pause
  <2> QED
    BY <1>3, <2>2, <2>3, OnlyStarted DEF Pause
<1>4. ASSUME NEW s \in Asking, RefreshSample(s)
      PROVE  SamplersInv'
  BY <1>4, SamplingFits DEF RefreshSample
<1>5. ASSUME NEW s \in Pooled, TakeSample(s)
      PROVE  SamplersInv'
  <2>0. UNCHANGED <<ticking, waiting, counter, reading>> /\ s \in Samplers
    BY <1>5, <1>p DEF TakeSample
  <2>s. /\ SinceLast(s) /\ counter[s] \in Counters
        /\ counter[s].value \in Nat /\ counter[s].life \in Nat
    BY <1>s, <1>t, <2>0
  <2>1. CASE /\ sampling' = [sampling EXCEPT ![s] = "sampled"]
             /\ sample' = [sample EXCEPT ![s] = Found(s)]
             /\ previous' = [previous EXCEPT ![s] = counter[s]]
             /\ since' = [since EXCEPT ![s] = 0]
    <3>1. Found(s) \in Samples /\ SampleTrue(s, Found(s))
      BY <2>0, FoundTrue
    <3>2. SamplersTypeOK'
      BY <1>t, <2>0, <2>1, <2>s, <3>1 DEF SamplersTypeOK, SampleStages
    <3>3. \A t \in Samplers : SinceLast(t)'
      BY <1>s, <1>t, <2>0, <2>1, <2>s DEF SinceLast
    <3>4. \A t \in Samplers : SampleTrue(t, sample'[t]) /\ SampleTrue(t, reading'[t])
      <4> TAKE t \in Samplers
      <4>1. reading'[t] = reading[t] /\ sample'[t] = IF t = s THEN Found(s) ELSE sample[t]
        BY <1>t, <2>0, <2>1
      <4> QED
        BY <1>s, <3>1, <4>1
    <3> QED
      BY <3>2, <3>3, <3>4 DEF SamplersInv, SampleTrue
  <2>2. CASE /\ sampling' = [sampling EXCEPT ![s] = "sampled"]
             /\ sample' = [sample EXCEPT ![s] = Nothing]
             /\ previous' = [previous EXCEPT ![s] = None]
             /\ since' = [since EXCEPT ![s] = counter[s].value]
    <3>1. SamplersTypeOK'
      <4>1. None \in Counters /\ Nothing \in Samples
        BY NothingTrue DEF None, Counters
      <4> QED
        BY <1>t, <2>0, <2>2, <2>s, <4>1 DEF SamplersTypeOK, SampleStages
    <3>2. None.life = 0
      BY DEF None
    <3>3. \A t \in Samplers : SinceLast(t)'
      BY <1>s, <1>t, <2>0, <2>2, <2>s, <3>2 DEF SinceLast
    <3>4. \A t \in Samplers : SampleTrue(t, sample'[t]) /\ SampleTrue(t, reading'[t])
      <4> TAKE t \in Samplers
      <4>1. reading'[t] = reading[t] /\ sample'[t] = IF t = s THEN Nothing ELSE sample[t]
        BY <1>t, <2>0, <2>2
      <4> QED
        BY <1>s, <4>1, NothingTrue
    <3> QED
      BY <3>1, <3>3, <3>4 DEF SamplersInv, SampleTrue
  <2>3. CASE /\ sampling' = [sampling EXCEPT ![s] = "failed"]
             /\ UNCHANGED <<sample, previous, since>>
    <3>1. sampling' \in [Samplers -> SampleStages]
      BY <1>t, <2>0, <2>3 DEF SampleStages
    <3> QED
      BY <1>t, <2>0, <2>3, <3>1, OnlyStarted
  <2> QED
    BY <1>5, <2>1, <2>2, <2>3 DEF TakeSample, Counted, Missing, Unreadable
<1>6. ASSUME NEW s \in Pooled, Deliver(s)
      PROVE  SamplersInv'
  <2>1. /\ sampling' = [sampling EXCEPT ![s] = "idle"]
        /\ reading' = reading \/ reading' = [reading EXCEPT ![s] = sample[s]]
        /\ sample' = [sample EXCEPT ![s] = Nothing]
        /\ waiting' = [t \in Asking |-> waiting[t] /\ t # s]
        /\ UNCHANGED <<ticking, counter, since, previous>> /\ s \in Samplers
    BY <1>6, <1>p DEF Deliver
  <2>2. SamplersTypeOK'
    <3>1. waiting' \in [Asking -> BOOLEAN]
      BY <2>1
    <3> QED
      BY <1>t, <2>1, <3>1, NothingTrue DEF SamplersTypeOK, SampleStages
  <2>3. \A t \in Samplers : SinceLast(t)'
    BY <1>s, <2>1 DEF SinceLast
  <2>4. \A t \in Samplers : SampleTrue(t, sample'[t]) /\ SampleTrue(t, reading'[t])
    <3> TAKE t \in Samplers
    <3>1. /\ reading'[t] = reading[t] \/ (t = s /\ reading'[t] = sample[t])
          /\ sample'[t] = IF t = s THEN Nothing ELSE sample[t]
      BY <1>t, <2>1
    <3> QED
      BY <1>s, <3>1, NothingTrue
  <2> QED
    BY <2>2, <2>3, <2>4 DEF SamplersInv, SampleTrue
<1>7. CASE SampleStats
  <2> DEFINE s == "stats"
  <2>1. /\ reading' = [reading EXCEPT ![s] = Found(s)]
        /\ previous' = [previous EXCEPT ![s] = counter[s]]
        /\ since' = [since EXCEPT ![s] = 0]
        /\ UNCHANGED <<ticking, sampling, waiting, counter, sample>> /\ s \in Samplers
    BY <1>7, <1>p DEF SampleStats
  <2> HIDE DEF s
  <2>2. Found(s) \in Samples /\ SampleTrue(s, Found(s))
    BY <2>1, FoundTrue
  <2>s. /\ SinceLast(s) /\ counter[s] \in Counters
        /\ counter[s].value \in Nat /\ counter[s].life \in Nat
    BY <1>s, <1>t, <2>1
  <2>3. SamplersTypeOK'
    BY <1>t, <2>1, <2>2, <2>s DEF SamplersTypeOK
  <2>4. \A t \in Samplers : SinceLast(t)'
    BY <1>s, <1>t, <2>1, <2>s DEF SinceLast
  <2>5. \A t \in Samplers : SampleTrue(t, sample'[t]) /\ SampleTrue(t, reading'[t])
    <3> TAKE t \in Samplers
    <3>1. sample'[t] = sample[t] /\ reading'[t] = IF t = s THEN Found(s) ELSE reading[t]
      BY <1>t, <2>1
    <3> QED
      BY <1>s, <2>2, <3>1
  <2> QED
    BY <2>3, <2>4, <2>5 DEF SamplersInv, SampleTrue
<1>8. ASSUME NEW s \in Samplers, Grow(s) \/ Renew(s)
      PROVE  SamplersInv'
  <2>1. UNCHANGED <<ticking, sampling, waiting, previous, sample, reading>>
    BY <1>8 DEF Grow, Renew
  <2>2. PICK now \in Counters, n \in Nat :
          /\ counter' = [counter EXCEPT ![s] = now] /\ since' = [since EXCEPT ![s] = n]
          /\ \/ /\ now.life = counter[s].life
                /\ now.value = counter[s].value + 1 /\ n = since[s] + 1
             \/ now.life = counter[s].life + 1 /\ now.value = 0 /\ n = 0
    <3>1. CASE Grow(s)
      <4> DEFINE new == [counter[s] EXCEPT !.value = @ + 1]
                 more == since[s] + 1
      <4>1. /\ counter' = [counter EXCEPT ![s] = new]
            /\ since' = [since EXCEPT ![s] = more]
        BY <1>t, <3>1 DEF Grow
      <4>2. /\ new \in Counters /\ new.life = counter[s].life
            /\ new.value = counter[s].value + 1 /\ more \in Nat
        BY <1>t, <1>s DEF Counters
      <4> HIDE DEF new
      <4> QED
        BY <4>1, <4>2
    <3>2. CASE Renew(s)
      <4> DEFINE now == [value |-> 0, life |-> counter[s].life + 1]
      <4>1. counter' = [counter EXCEPT ![s] = now] /\ since' = [since EXCEPT ![s] = 0]
        BY <1>t, <3>2 DEF Renew
      <4>2. now \in Counters
        BY <1>s DEF Counters
      <4> QED
        BY <1>s, <4>1, <4>2
    <3> QED
      BY <1>8, <3>1, <3>2
  <2>3. SamplersTypeOK'
    BY <1>t, <2>1, <2>2 DEF SamplersTypeOK
  <2>4. ASSUME NEW t \in Samplers
        PROVE  SinceLast(t)'
    <3>1. CASE t = s
      <4>1. counter'[t] = now /\ since'[t] = n /\ previous'[t] = previous[t]
        BY <1>t, <2>1, <2>2, <3>1
      <4>2. /\ SinceLast(s) /\ counter[s].life \in Nat /\ counter[s].value \in Nat
            /\ previous[s].life \in Nat /\ previous[s].value \in Nat /\ since[s] \in Nat
        BY <1>s
      <4>3. /\ previous[s].life <= now.life /\ now.life > 0
            /\ IF previous[s].life = now.life
               THEN now.value = previous[s].value + n ELSE n = now.value
        BY <2>2, <4>2 DEF SinceLast
      <4> QED
        BY <3>1, <4>1, <4>3 DEF SinceLast
    <3>2. CASE t # s
      BY <1>s, <1>t, <2>1, <2>2, <3>2 DEF SinceLast
    <3> QED
      BY <3>1, <3>2
  <2> QED
    BY <1>s, <2>1, <2>3, <2>4 DEF SamplersInv, SampleTrue
<1> QED
  BY <1>1, <1>2, <1>3, <1>4, <1>5, <1>6, <1>7, <1>8 DEF SamplersNext

-----------------------------------------------------------------------------
\* Every step of the keychain keeps its types.
LEMMA AccessStep ==
  ASSUME AccessTypeOK, AccessNext
  PROVE  AccessTypeOK'
<1>t. /\ keychain \in SUBSET Secrets /\ jobs \in Seq(Jobs)
      /\ configured \in SUBSET Secrets /\ locked \in BOOLEAN
  BY DEF AccessTypeOK
<1>1. ASSUME NEW s \in Secrets, UpdateAccess(s)
      PROVE  AccessTypeOK'
  <2>1. Job("update", s) \in Jobs
    BY DEF Job, Jobs
  <2>2. jobs' = Append(jobs, Job("update", s)) /\ UNCHANGED <<keychain, configured, locked>>
    BY <1>1 DEF UpdateAccess
  <2>3. jobs' \in Seq(Jobs)
    BY <1>t, <2>1, <2>2
  <2> QED
    BY <1>t, <2>2, <2>3 DEF AccessTypeOK
<1>2. CASE JobFinished
  <2> DEFINE job == Head(jobs)
             again == AskedAgain(job, ~locked)
  <2>1. job \in Jobs /\ Tail(jobs) \in Seq(Jobs) /\ job.secret \in Secrets
    <3>1. jobs # <<>>
      BY <1>2 DEF JobFinished
    <3>2. Head(jobs) \in Jobs /\ Tail(jobs) \in Seq(Jobs)
      BY <1>t, <3>1
    <3> QED
      BY <3>2 DEF Jobs
  <2>2. again \in Seq(Jobs)
    <3>1. Job("has", job.secret) \in Jobs
      BY <2>1 DEF Job, Jobs
    <3> HIDE DEF job
    <3>2. <<Job("has", job.secret)>> \in Seq(Jobs) /\ <<>> \in Seq(Jobs)
      BY <3>1
    <3> QED
      BY <3>2 DEF AskedAgain
  <2>3. /\ jobs' = Tail(jobs) \o again /\ locked' = locked
        /\ keychain' \in {keychain, keychain \cup {job.secret}}
        /\ configured' \in {configured, configured \cup {job.secret},
                            configured \ {job.secret}}
    BY <1>2 DEF JobFinished
  <2> HIDE DEF job, again
  <2>4. jobs' \in Seq(Jobs)
    BY <2>1, <2>2, <2>3
  <2> QED
    BY <1>t, <2>1, <2>3, <2>4 DEF AccessTypeOK
<1>3. CASE Unlock
  BY <1>t, <1>3 DEF Unlock, AccessTypeOK
<1> QED
  BY <1>1, <1>2, <1>3 DEF AccessNext

-----------------------------------------------------------------------------
LEMMA DashboardStart == Init => DashboardInv
<1> SUFFICES ASSUME Init PROVE DashboardInv
  OBVIOUS
<1>1. PartsOK
  BY PartsAssumption DEF Init, PartsInit, PartsOK
<1>2. ListsInv
  BY DEF Init, ListsInit, ListsInv, ListsTypeOK, OneList, ViewFits
<1>3. SamplersInv
  <2>i. SamplersInit
    BY DEF Init
  <2>1. /\ \A s \in Samplers : counter[s] = [value |-> 0, life |-> 1] /\ since[s] = 0
        /\ \A s \in Samplers : previous[s] \in {None, counter[s]}
        /\ \A s \in Samplers : sample[s] = Nothing /\ reading[s] = Nothing
    BY <2>i DEF SamplersInit
  <2>2. /\ [value |-> 0, life |-> 1] \in Counters /\ None \in Counters
        /\ Nothing \in Samples /\ None.life = 0
    BY NothingTrue DEF None, Counters
  <2>3. \A s \in Samplers : previous[s] \in Counters
    BY <2>1, <2>2
  <2>4. /\ ticking \in [Samplers -> BOOLEAN] /\ sampling \in [Samplers -> SampleStages]
        /\ waiting \in [Asking -> BOOLEAN]
    BY <2>i DEF SamplersInit, SampleStages
  <2>5. /\ counter \in [Samplers -> Counters] /\ since \in [Samplers -> Nat]
        /\ sample \in [Samplers -> Samples] /\ reading \in [Samplers -> Samples]
    BY <2>i, <2>2 DEF SamplersInit
  <2>6. previous \in [Samplers -> Counters]
    <3>1. previous = [s \in Samplers |-> IF s = "stats" THEN counter[s] ELSE None]
      BY <2>i DEF SamplersInit
    <3> QED
      BY <2>2, <2>5, <3>1
  <2>7. SamplersTypeOK
    BY <2>4, <2>5, <2>6 DEF SamplersTypeOK
  <2>8. \A s \in Samplers : SinceLast(s)
    <3> TAKE s \in Samplers
    <3>1. counter[s].value = 0 /\ counter[s].life = 1 /\ since[s] = 0
      BY <2>1
    <3>2. previous[s] = None \/ (previous[s].value = 0 /\ previous[s].life = 1)
      BY <2>1
    <3> QED
      BY <2>2, <3>1, <3>2 DEF SinceLast
  <2>9. \A s \in Samplers : SampleTrue(s, sample[s]) /\ SampleTrue(s, reading[s])
    BY <2>1, NothingTrue
  <2> QED
    BY <2>7, <2>8, <2>9 DEF SamplersInv
<1>4. AccessTypeOK
  <2>1. AccessInit
    BY DEF Init
  <2>2. /\ Job("has", "gateway.token") \in Jobs /\ Job("has", "git.credential") \in Jobs
        /\ Job("detected", "gateway.token") \in Jobs
    BY DEF Job, Jobs, Secrets
  <2>3. \A token \in BOOLEAN : Started(token) \in Seq(Jobs)
    <3>1. <<Job("has", "gateway.token"), Job("has", "git.credential")>> \in Seq(Jobs)
      BY <2>2
    <3>2. <<Job("detected", "gateway.token")>> \in Seq(Jobs) /\ <<>> \in Seq(Jobs)
      BY <2>2
    <3> QED
      BY <3>1, <3>2 DEF Started
  <2>4. keychain \in SUBSET Secrets /\ configured \in SUBSET Secrets /\ locked \in BOOLEAN
    BY <2>1 DEF AccessInit
  <2>5. jobs \in Seq(Jobs)
    <3>1. <<>> \in Seq(Jobs)
      OBVIOUS
    <3>2. (\E token \in BOOLEAN : jobs = Started(token)) \/ jobs = <<>>
      BY <2>1 DEF AccessInit
    <3> QED
      BY <2>3, <3>1, <3>2
  <2> QED
    BY <2>4, <2>5 DEF AccessTypeOK
<1> QED
  BY <1>1, <1>2, <1>3, <1>4 DEF DashboardInv

\* The bound on what happens holds in every step.
LEMMA StepsBounded ==
  ASSUME PartsOK, Next
  PROVE  PartsOK'
<1>1. (\E part : Spend(part)) => PartsOK'
  BY PartsAssumption DEF Spend, PartsOK
<1>2. Free => PartsOK'
  BY DEF Free, PartsOK
<1>3. (\E part : Spend(part)) \/ Free
  <2>1. CASE RefreshAll
    BY <2>1, Zenon DEF RefreshAll
  <2>2. CASE ListsNext
    BY <2>2, Zenon DEF ListsNext, ListUser, Refresh, Drift, Ask
  <2>3. CASE SamplersNext
    BY <2>3, Zenon DEF SamplersNext, StartVitals, Tick, Pause, RefreshSample, TakeSample,
                Deliver, SampleStats, Grow, Renew
  <2>4. CASE AccessNext
    BY <2>4, Zenon DEF AccessNext, UpdateAccess, JobFinished, Unlock
  <2> QED
    BY <2>1, <2>2, <2>3, <2>4 DEF Next
<1> QED
  BY <1>1, <1>2, <1>3

LEMMA DashboardStep == DashboardInv /\ [Next]_vars => DashboardInv'
<1> SUFFICES ASSUME DashboardInv, [Next]_vars
             PROVE  DashboardInv'
  OBVIOUS
<1>i. PartsOK /\ ListsInv /\ SamplersInv /\ AccessTypeOK
  BY DEF DashboardInv
<1>l. UNCHANGED listsVars => ListsInv'
  BY <1>i DEF listsVars, views, ListsInv, ListsTypeOK, CallFits, OneList,
                     ViewFits
<1>s. UNCHANGED samplersVars => SamplersInv'
  BY <1>i DEF samplersVars, SamplersInv, SamplersTypeOK, SinceLast, SampleTrue
<1>a. UNCHANGED accessVars => AccessTypeOK'
  BY <1>i DEF accessVars, AccessTypeOK
<1>1. CASE RefreshAll
  <2>1. ListsInv'
    <3>1. present \cap Views \in SUBSET Views /\ calls \in SUBSET calls
      OBVIOUS
    <3>2. Listing(present \cap Views, calls) /\ UNCHANGED <<shown, active, world>>
      BY <1>1 DEF RefreshAll
    <3> QED
      BY <1>i, <3>1, <3>2, ListingFits
  <2>2. SamplersInv'
    <3>1. present \cap Asking \in SUBSET Asking
      OBVIOUS
    <3>2. /\ Sampling(present \cap Asking)
          /\ UNCHANGED <<ticking, counter, since, previous, sample, reading>>
      BY <1>1 DEF RefreshAll
    <3> QED
      BY <1>i, <3>1, <3>2, SamplingFits
  <2>3. AccessTypeOK'
    BY <1>1, <1>a DEF RefreshAll
  <2> QED
    BY <1>1, <1>i, <2>1, <2>2, <2>3, StepsBounded DEF Next, DashboardInv
<1>2. CASE ListsNext /\ UNCHANGED <<samplersVars, accessVars>>
  <2>1. ListsInv' /\ SamplersInv' /\ AccessTypeOK'
    BY <1>2, <1>i, <1>s, <1>a, ListsStep
  <2> QED
    BY <1>2, <1>i, <2>1, StepsBounded DEF Next, DashboardInv
<1>3. CASE SamplersNext /\ UNCHANGED <<listsVars, accessVars>>
  <2>1. ListsInv' /\ SamplersInv' /\ AccessTypeOK'
    BY <1>3, <1>i, <1>l, <1>a, SamplersStep
  <2> QED
    BY <1>3, <1>i, <2>1, StepsBounded DEF Next, DashboardInv
<1>4. CASE AccessNext /\ UNCHANGED <<listsVars, samplersVars>>
  <2>1. ListsInv' /\ SamplersInv' /\ AccessTypeOK'
    BY <1>4, <1>i, <1>l, <1>s, AccessStep
  <2> QED
    BY <1>4, <1>i, <2>1, StepsBounded DEF Next, DashboardInv
<1>5. CASE UNCHANGED vars
  <2>1. PartsOK'
    BY <1>5, <1>i DEF vars, PartsOK
  <2> QED
    BY <1>5, <1>l, <1>s, <1>a, <2>1 DEF vars, DashboardInv
<1> QED
  BY <1>1, <1>2, <1>3, <1>4, <1>5 DEF Next

LEMMA DashboardInvariant == Spec => []DashboardInv
<1> QED
  BY DashboardStart, DashboardStep, PTL DEF Spec

-----------------------------------------------------------------------------
\* Every variable has its type.
THEOREM DashboardTypes == Spec => []DashboardTypeOK
<1>1. DashboardInv => DashboardTypeOK
  BY DEF DashboardInv, PartsOK, ListsInv, SamplersInv, DashboardTypeOK
<1> QED
  BY <1>1, DashboardInvariant, PTL

\* WholeOutput: a call that succeeds has all its last child printed, and never
\* more than the cap (openclaw_cli.cpp:103-137, package_service.cpp:23-37).
THEOREM OutputIsWhole == Spec => []WholeOutput
<1>1. DashboardInv => WholeOutput
  BY DEF DashboardInv, ListsInv, CallFits, WholeOutput
<1> QED
  BY <1>1, DashboardInvariant, PTL

\* RateTrue: readings do not count what a process or interface of the same name
\* did before (process_service.cpp:244-252, vitals_service.cpp:284-299,
\* system_stats.cpp:131-137).
THEOREM RatesAreTrue == Spec => []RateTrue
<1>1. DashboardInv => RateTrue
  <2> SUFFICES ASSUME \A s \in Samplers : SampleTrue(s, reading[s])
               PROVE  RateTrue
    BY DEF DashboardInv, SamplersInv
  <2>1. {"vitals", "processes", "stats"} \subseteq Samplers
    BY DEF Samplers, Pooled
  <2> QED
    BY <2>1, Zenon DEF SampleTrue, RateTrue
<1> QED
  BY <1>1, DashboardInvariant, PTL

\* NeverOlder: no view goes back; the next list was read after all of the one
\* before (agent_controller.cpp:21-54, cron_controller.cpp:5-6,
\* openclaw_cli.cpp:141-183).
THEOREM ViewsNeverGoBack == Spec => NeverOlder
<1>1. DashboardInv /\ [Next]_vars =>
        [\A v \in Views : shown'[v] # shown[v] => shown'[v].rows >= shown[v].state]_shown
  <2> SUFFICES ASSUME DashboardInv, [Next]_vars, shown' # shown,
                      NEW v \in Views, shown'[v] # shown[v]
               PROVE  shown'[v].rows >= shown[v].state
    OBVIOUS
  <2>1. PICK c \in calls : OnListed(c)
    BY Zenon DEF Next, vars, RefreshAll, listsVars, views, ListsNext, ListUser, Child, ListWorker,
           ListSlot, Refresh, Drift, Ask, Act, Emit, Exit, Start, Collect, Deadline,
           Finish, Malformed, NextLeg, OnActive, OnAsked
  <2>2. /\ Answered(c) /\ c.op = "list" /\ shown' = [shown EXCEPT ![c.view] = Read(c)]
    BY <2>1 DEF OnListed
  <2>3. /\ CallFits(c) /\ c \in Calls /\ shown \in [Views -> [rows : Nat, state : Nat]]
        /\ \A u \in Views : ViewFits(u) /\ asked[u] \in Nat
    BY DEF DashboardInv, ListsInv, ListsTypeOK
  <2>4. v = c.view /\ shown'[v] = Read(c)
    BY <2>2, <2>3
  <2>5. asked[v] <= Read(c).rows /\ loading[v]
    BY <2>2, <2>3, <2>4 DEF CallFits, Answered, Read, Calls
  <2>6. Read(c).rows \in Nat /\ shown[v].state \in Nat
    BY <2>3 DEF Read, Calls
  <2> QED
    BY <2>3, <2>4, <2>5, <2>6 DEF ViewFits
<1> QED
  BY <1>1, DashboardInvariant, PTL DEF Spec, NeverOlder

-----------------------------------------------------------------------------
\* refresh() asks for the lists of the views that wait for none.
LEMMA ListingRequests ==
  ASSUME ListsInv, NEW vs \in SUBSET Views, NEW others,
         Listing(vs, others), UNCHANGED <<shown, world>>
  PROVE  Outside!Next
<1>1. \A v \in Views : v \in Idle(vs) <=> v \in vs /\ asked[v] = 0
  BY DEF Idle, ListsInv, ListsTypeOK, ViewFits
<1>2. asked' = [v \in Views |-> IF v \in vs /\ asked[v] = 0 THEN world[v] ELSE asked[v]]
  BY <1>1 DEF Listing
<1>3. Outside!Request(vs)
  BY <1>2 DEF Outside!Request
<1> QED
  BY <1>3 DEF Outside!Next

\* Every step of the lists is one of Snapshots, or is not seen there.
LEMMA ListsSimulate ==
  ASSUME ListsInv, ListsNext
  PROVE  Outside!Next \/ UNCHANGED <<world, shown, asked>>
<1>t. /\ ListsTypeOK
      /\ \A c \in calls : CallFits(c) /\ c \in Calls /\ c.view \in Views /\ c.seen \in Nat
  BY DEF ListsInv, ListsTypeOK, Calls
<1>1. ASSUME NEW v \in Views, Refresh(v)
      PROVE  Outside!Next
  BY <1>1, ListingRequests DEF Refresh
<1>2. ASSUME NEW v \in Views, Drift(v)
      PROVE  Outside!Next
  <2>1. Outside!Change(v)
    BY <1>2 DEF Drift, views, Outside!Change
  <2> QED
    BY <2>1 DEF Outside!Next
<1>3. ASSUME NEW c \in calls, Act(c)
      PROVE  Outside!Next \/ UNCHANGED <<world, shown, asked>>
  <2>1. CASE c.op = "change"
    <3>1. Outside!Change(c.view)
      BY <1>3, <2>1 DEF Act, views, Outside!Change
    <3> QED
      BY <1>t, <3>1 DEF Outside!Next
  <2>2. CASE c.op # "change"
    <3>1. world' = [world EXCEPT ![c.view] = world[c.view]] /\ UNCHANGED <<shown, asked>>
      BY <1>3, <2>2 DEF Act, views
    <3> QED
      BY <1>t, <3>1 DEF ListsTypeOK
  <2> QED
    BY <2>1, <2>2
<1>4. ASSUME NEW c \in calls, OnListed(c)
      PROVE  Outside!Next
  <2> DEFINE v == c.view
  <2>1. /\ loading[v] /\ ViewFits(v) /\ v \in Views /\ CallFits(c) /\ c \in Calls
    BY <1>4, <1>t DEF OnListed, CallFits, ListsInv
  <2>2. asked[v] > 0 /\ asked[v] \in Nat /\ world[v] \in Nat
    BY <1>t, <2>1 DEF ViewFits, ListsTypeOK
  <2>3. ASSUME Answered(c)
        PROVE  Read(c) \in Outside!Fresh(v)
    <3> DEFINE rows == IF c.leg = 2 THEN c.rows ELSE c.seen
    <3>1. c.op = "list" /\ c.stage = "done" /\ c.seen \in Nat /\ c.rows \in Nat
      BY <1>4, <2>1, <2>3 DEF OnListed, Answered, Calls
    <3>2. /\ c.seen \in asked[v]..world[v] /\ rows \in asked[v]..world[v]
          /\ rows = c.seen \/ (v = "agents" /\ rows < c.seen)
      BY <2>1, <2>2, <3>1 DEF CallFits
    <3>3. Read(c) = [rows |-> rows, state |-> c.seen]
      BY DEF Read
    <3> HIDE DEF rows
    <3> QED
      BY <3>2, <3>3 DEF Outside!Fresh, Outside!Period
  <2>4. /\ asked' = [asked EXCEPT ![v] = 0] /\ world' = world
        /\ shown' = IF Answered(c) THEN [shown EXCEPT ![v] = Read(c)] ELSE shown
    BY <1>4 DEF OnListed
  <2>5. Outside!Answer(v)
    BY <2>2, <2>3, <2>4 DEF Outside!Answer
  <2> QED
    BY <2>1, <2>5 DEF Outside!Next
<1>5. ASSUME NEW c \in calls, OnAsked(c)
      PROVE  Outside!Next \/ UNCHANGED <<world, shown, asked>>
  <2>1. CASE Listing({c.view}, calls \ {c})
    BY <1>5, <1>t, <2>1, ListingRequests DEF OnAsked
  <2>2. CASE UNCHANGED <<loading, asked>>
    BY <1>5, <2>2 DEF OnAsked
  <2> QED
    BY <1>5, <2>1, <2>2 DEF OnAsked
<1>6. ASSUME \/ \E v \in Views, op \in {"change", "run"} : Ask(v, op)
             \/ ListWorker
             \/ \E c \in calls : Emit(c) \/ Exit(c) \/ Malformed(c) \/ NextLeg(c) \/ OnActive(c)
      PROVE  UNCHANGED <<world, shown, asked>>
  BY <1>6, Zenon DEF Ask, ListWorker, Start, Collect, Deadline, Finish, Emit, Exit, Malformed,
                     NextLeg, OnActive, views
<1> QED
  BY <1>1, <1>2, <1>3, <1>4, <1>5, <1>6 DEF ListsNext, ListUser, Child, ListSlot

\* ListsAreSnapshots: every list a view shows was there at some moment after it
\* was asked for, the agents at one and their state at that one or a later one
\* (agent_controller.cpp:21-54, cron_controller.cpp:5-6, openclaw_cli.cpp:141-183).
THEOREM Refinement == Spec => ListsAreSnapshots
<1>1. Init => Outside!Init
  BY DEF Init, ListsInit, Outside!Init
<1>2. DashboardInv /\ [Next]_vars => [Outside!Next]_(Outside!vars)
  <2> SUFFICES ASSUME DashboardInv, [Next]_vars
               PROVE  Outside!Next \/ UNCHANGED <<world, shown, asked>>
    BY DEF Outside!vars
  <2>i. ListsInv
    BY DEF DashboardInv
  <2>1. CASE RefreshAll
    <3>1. /\ Listing(present \cap Views, calls) /\ UNCHANGED <<shown, world>>
          /\ present \cap Views \in SUBSET Views
      BY <2>1 DEF RefreshAll
    <3> QED
      BY <2>i, <3>1, ListingRequests
  <2>2. CASE ListsNext
    BY <2>i, <2>2, ListsSimulate
  <2>3. CASE UNCHANGED listsVars
    BY <2>3 DEF listsVars, views
  <2> QED
    BY <2>1, <2>2, <2>3 DEF Next, vars
<1> QED
  BY <1>1, <1>2, DashboardInvariant, PTL DEF Spec, ListsAreSnapshots, Outside!Spec
-----------------------------------------------------------------------------
\* A view that waits has a list call: the half of SpinnersAreOwed that needs an
\* induction of its own (the other is in CallFits).
Owed(v) == loading[v] => \E c \in calls : c.view = v /\ c.op = "list"

\* The list calls that wait go on, and no other view waits.
LEMMA OwedStays ==
  ASSUME ListsInv, \A v \in Views : Owed(v),
         \A v \in Views : loading'[v] => loading[v],
         \A c \in calls : c.op = "list" /\ loading'[c.view]
                            => \E d \in calls' : d.view = c.view /\ d.op = "list"
  PROVE  \A v \in Views : Owed(v)'
<1> SUFFICES ASSUME NEW v \in Views, loading'[v]
             PROVE  \E c \in calls' : c.view = v /\ c.op = "list"
  BY DEF Owed
<1>1. PICK c \in calls : c.view = v /\ c.op = "list"
  BY DEF Owed
<1> QED
  BY <1>1

\* refresh() leaves the views that wait alone and asks for the other lists.
LEMMA ListingOwes ==
  ASSUME ListsInv, \A v \in Views : Owed(v), NEW vs \in SUBSET Views, NEW others,
         Listing(vs, others), \A c \in calls : c.op = "list" => c \in others
  PROVE  \A v \in Views : Owed(v)'
<1> SUFFICES ASSUME NEW v \in Views, loading'[v]
             PROVE  \E c \in calls' : c.view = v /\ c.op = "list"
  BY DEF Owed
<1>1. /\ calls' = others \cup {Called(u, "list") : u \in Idle(vs)}
      /\ loading[v] \/ v \in vs
  BY DEF Listing
<1>2. CASE loading[v]
  <2>1. PICK c \in calls : c.view = v /\ c.op = "list"
    BY <1>2 DEF Owed
  <2> QED
    BY <1>1, <2>1
<1>3. CASE ~loading[v]
  <2>1. Called(v, "list") \in calls'
    BY <1>1, <1>3 DEF Idle
  <2>2. Called(v, "list").view = v /\ Called(v, "list").op = "list"
    BY DEF Called
  <2> QED
    BY <2>1, <2>2
<1> QED
  BY <1>2, <1>3

\* Every step of the lists leaves somebody to stop each spinner.
LEMMA ListsOwe ==
  ASSUME ListsInv, \A v \in Views : Owed(v), ListsNext
  PROVE  \A v \in Views : Owed(v)'
<1>t. \A c \in calls : c \in Calls /\ c.view \in Views
  BY DEF ListsInv, ListsTypeOK, Calls
<1>1. ASSUME NEW v \in Views, Refresh(v)
      PROVE  \A u \in Views : Owed(u)'
  BY <1>1, ListingOwes DEF Refresh
<1>2. CASE \E v \in Views : Drift(v) \/ \E op \in {"change", "run"} : Ask(v, op)
  <2>1. loading' = loading /\ \A c \in calls : c \in calls'
    BY <1>2 DEF Drift, Ask, views
  <2> QED
    BY <2>1, OwedStays
<1>3. ASSUME NEW c \in calls, NEW d, Replace(c, d), d.view = c.view, d.op = c.op,
             loading' = loading
      PROVE  \A v \in Views : Owed(v)'
  BY <1>3, OwedStays DEF Replace
<1>4. ASSUME NEW c \in calls, Act(c)
      PROVE  \A v \in Views : Owed(v)'
  <2> DEFINE d == [c EXCEPT !.seen = world'[c.view]]
  <2>1. Replace(c, d) /\ loading' = loading
    BY <1>4 DEF Act, views
  <2>2. d.view = c.view /\ d.op = c.op
    BY <1>t DEF Calls
  <2> QED
    BY <1>3, <2>1, <2>2
<1>5. ASSUME NEW c \in calls, Emit(c)
      PROVE  \A v \in Views : Owed(v)'
  <2> DEFINE d == [c EXCEPT !.out = @ + 1]
  <2>1. Replace(c, d) /\ loading' = loading
    BY <1>5 DEF Emit, views
  <2>2. d.view = c.view /\ d.op = c.op
    BY <1>t DEF Calls
  <2> QED
    BY <1>3, <2>1, <2>2
<1>6. ASSUME NEW c \in calls,
             Start(c) \/ Exit(c) \/ Deadline(c) \/ Malformed(c) \/ OnActive(c)
      PROVE  \A v \in Views : Owed(v)'
  <2>1. /\ \E s \in Stages : Replace(c, [c EXCEPT !.stage = s])
        /\ loading' = loading
    BY <1>6 DEF Start, Exit, Deadline, Malformed, OnActive, views, Stages
  <2>2. PICK s \in Stages : Replace(c, [c EXCEPT !.stage = s])
    BY <2>1
  <2> DEFINE d == [c EXCEPT !.stage = s]
  <2>3. d.view = c.view /\ d.op = c.op
    BY <1>t DEF Calls
  <2> QED
    BY <1>3, <2>1, <2>2, <2>3
<1>7. ASSUME NEW c \in calls, Collect(c) \/ Finish(c)
      PROVE  \A v \in Views : Owed(v)'
  <2>1. /\ \E s \in Stages : Replace(c, [c EXCEPT !.read = c.out, !.stage = s])
        /\ loading' = loading
    <3>1. CASE Collect(c)
      <4> DEFINE s == IF c.out > Cap THEN "failed" ELSE c.stage
      <4>1. Replace(c, [c EXCEPT !.read = c.out, !.stage = s]) /\ loading' = loading
        BY <3>1 DEF Collect, views
      <4>2. s \in Stages
        BY <1>t DEF Calls, Stages
      <4> QED
        BY <4>1, <4>2
    <3>2. CASE Finish(c)
      BY <3>2 DEF Finish, views, Stages
    <3> QED
      BY <1>7, <3>1, <3>2
  <2>2. PICK s \in Stages : Replace(c, [c EXCEPT !.read = c.out, !.stage = s])
    BY <2>1
  <2> DEFINE d == [c EXCEPT !.read = c.out, !.stage = s]
  <2>3. d.view = c.view /\ d.op = c.op
    BY <1>t DEF Calls
  <2> QED
    BY <1>3, <2>1, <2>2, <2>3
<1>8. ASSUME NEW c \in calls, NextLeg(c)
      PROVE  \A v \in Views : Owed(v)'
  <2> DEFINE d == [c EXCEPT !.leg = 2, !.stage = "queued", !.out = 0, !.read = 0,
                            !.rows = c.seen, !.seen = 0]
  <2>1. Replace(c, d) /\ loading' = loading
    BY <1>8 DEF NextLeg, views
  <2>2. d.view = c.view /\ d.op = c.op
    BY <1>t DEF Calls
  <2> QED
    BY <1>3, <2>1, <2>2
<1>9. ASSUME NEW c \in calls, OnListed(c)
      PROVE  \A v \in Views : Owed(v)'
  <2>1. calls' = calls \ {c} /\ loading' = [loading EXCEPT ![c.view] = FALSE]
    BY <1>9 DEF OnListed
  <2>2. c.view \in Views /\ loading \in [Views -> BOOLEAN]
    BY <1>t DEF ListsInv, ListsTypeOK
  <2>3. \A v \in Views : loading'[v] => loading[v] /\ v # c.view
    BY <2>1, <2>2
  <2> QED
    BY <1>t, <2>1, <2>3, OwedStays
<1>10. ASSUME NEW c \in calls, OnAsked(c)
       PROVE  \A v \in Views : Owed(v)'
  <2>1. c.op # "list" /\ c.view \in Views
    BY <1>10, <1>t DEF OnAsked
  <2>2. CASE Listing({c.view}, calls \ {c})
    BY <2>1, <2>2, ListingOwes
  <2>3. CASE calls' = calls \ {c} /\ loading' = loading
    BY <2>1, <2>3, OwedStays
  <2> QED
    BY <1>10, <2>2, <2>3 DEF OnAsked
<1> QED
  BY <1>1, <1>2, <1>4, <1>5, <1>6, <1>7, <1>8, <1>9, <1>10
     DEF ListsNext, ListUser, Child, ListWorker, ListSlot

\* Every step of the samplers leaves a sample for each controller that waits.
LEMMA SamplersOwe ==
  ASSUME SamplersInv, SamplersNext, \A s \in Asking : waiting[s] => sampling[s] # "idle"
  PROVE  \A s \in Asking : waiting'[s] => sampling'[s] # "idle"
<1>t. /\ waiting \in [Asking -> BOOLEAN] /\ sampling \in [Samplers -> SampleStages]
      /\ Asking \subseteq Samplers /\ Pooled \subseteq Samplers
  BY DEF SamplersInv, SamplersTypeOK, Asking, Pooled, Samplers
<1>1. ASSUME NEW s \in Samplers, SampleNow(s), waiting' = waiting
      PROVE  \A t \in Asking : waiting'[t] => sampling'[t] # "idle"
  BY <1>t, <1>1 DEF SampleNow
<1>2. ASSUME NEW ss, Sampling(ss)
      PROVE  \A t \in Asking : waiting'[t] => sampling'[t] # "idle"
  BY <1>t, <1>2 DEF Sampling
<1>3. ASSUME NEW s \in Pooled, TakeSample(s)
      PROVE  \A t \in Asking : waiting'[t] => sampling'[t] # "idle"
  <2>1. /\ waiting' = waiting
        /\ \/ sampling' = [sampling EXCEPT ![s] = "sampled"]
           \/ sampling' = [sampling EXCEPT ![s] = "failed"]
    BY <1>3 DEF TakeSample, Counted, Missing, Unreadable
  <2> QED
    BY <1>t, <2>1
<1>4. ASSUME NEW s \in Pooled, Deliver(s)
      PROVE  \A t \in Asking : waiting'[t] => sampling'[t] # "idle"
  <2>1. /\ sampling' = [sampling EXCEPT ![s] = "idle"]
        /\ waiting' = [t \in Asking |-> waiting[t] /\ t # s]
    BY <1>4 DEF Deliver
  <2> QED
    BY <1>t, <2>1
<1>5. CASE UNCHANGED <<sampling, waiting>>
  BY <1>5
<1>6. CASE StartVitals
  BY <1>1, <1>6 DEF StartVitals, Samplers, Pooled
<1>7. ASSUME NEW s \in Samplers, Tick(s)
      PROVE  \A t \in Asking : waiting'[t] => sampling'[t] # "idle"
  BY <1>1, <1>7 DEF Tick
<1>8. ASSUME NEW s \in Asking, RefreshSample(s)
      PROVE  \A t \in Asking : waiting'[t] => sampling'[t] # "idle"
  BY <1>2, <1>8 DEF RefreshSample
<1>9. CASE \/ SampleStats
           \/ \E s \in Samplers, on \in BOOLEAN : Pause(s, on)
           \/ \E s \in Samplers : Grow(s) \/ Renew(s)
  BY <1>5, <1>9 DEF SampleStats, Pause, Grow, Renew
<1> QED
  BY <1>3, <1>4, <1>6, <1>7, <1>8, <1>9 DEF SamplersNext

\* What is inductive next to DashboardInv.
AllOwed ==
  /\ \A v \in Views : Owed(v)
  /\ \A s \in Asking : waiting[s] => sampling[s] # "idle"

\* SpinnersAreOwed: no spinner ever spins for nothing (agent_controller.cpp:21-54,
\* process_controller.cpp:9-31).  It is what ViewsSettle needs besides fairness.
THEOREM NoLostSpinner == Spec => []SpinnersAreOwed
<1>1. Init => AllOwed
  BY DEF Init, ListsInit, SamplersInit, AllOwed, Owed
<1>2. DashboardInv /\ AllOwed /\ [Next]_vars => AllOwed'
  <2> SUFFICES ASSUME DashboardInv, AllOwed, [Next]_vars
               PROVE  AllOwed'
    OBVIOUS
  <2>i. /\ ListsInv /\ SamplersInv /\ \A v \in Views : Owed(v)
        /\ \A s \in Asking : waiting[s] => sampling[s] # "idle"
    BY DEF DashboardInv, AllOwed
  <2>1. CASE RefreshAll
    <3>1. /\ Listing(present \cap Views, calls) /\ present \cap Views \in SUBSET Views
          /\ Sampling(present \cap Asking)
      BY <2>1 DEF RefreshAll
    <3>2. \A v \in Views : Owed(v)'
      BY <2>i, <3>1, ListingOwes
    <3>3. \A s \in Asking : waiting'[s] => sampling'[s] # "idle"
      BY <2>i, <3>1 DEF Sampling, SamplersInv, SamplersTypeOK, Asking, Pooled, Samplers
    <3> QED
      BY <3>2, <3>3 DEF AllOwed
  <2>2. UNCHANGED listsVars => \A v \in Views : Owed(v)'
    BY <2>i DEF Owed, listsVars, views
  <2>3. UNCHANGED samplersVars => \A s \in Asking : waiting'[s] => sampling'[s] # "idle"
    BY <2>i DEF samplersVars
  <2>4. CASE ListsNext /\ UNCHANGED samplersVars
    BY <2>i, <2>3, <2>4, ListsOwe DEF AllOwed
  <2>5. CASE SamplersNext /\ UNCHANGED listsVars
    BY <2>i, <2>2, <2>5, SamplersOwe DEF AllOwed
  <2>6. CASE UNCHANGED listsVars /\ UNCHANGED samplersVars
    BY <2>2, <2>3, <2>6 DEF AllOwed
  <2> QED
    BY <2>1, <2>4, <2>5, <2>6 DEF Next, vars
<1>3. DashboardInv /\ AllOwed => SpinnersAreOwed
  BY DEF DashboardInv, ListsInv, AllOwed, Owed, CallFits, SpinnersAreOwed
<1> QED
  BY <1>1, <1>2, <1>3, DashboardInvariant, PTL DEF Spec
=============================================================================
