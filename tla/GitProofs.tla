----------------------------- MODULE GitProofs -----------------------------
(***************************************************************************)
(* Proofs about Git for any number of calls, files and commits: types, no  *)
(* edit lost, true answers, that the branches implement AtomicGit, and     *)
(* that a busy view is owed an answer.                                     *)
(***************************************************************************)
EXTENDS Git, TLAPS

Branches == Seq(Commits) \ {<<>>}

-----------------------------------------------------------------------------
(* Prefixes                                                                *)

\* IsPrefix, element by element.
LEMMA PrefixByElements ==
  ASSUME NEW s \in Branches, NEW t \in Branches
  PROVE  IsPrefix(s, t) <=>
           Len(s) <= Len(t) /\ \A i \in 1 .. Len(s) : s[i] = t[i]
BY DEF IsPrefix, Branches

LEMMA PrefixReflexive ==
  ASSUME NEW s \in Branches
  PROVE  IsPrefix(s, s)
BY PrefixByElements DEF Branches

LEMMA PrefixTransitive ==
  ASSUME NEW s \in Branches, NEW t \in Branches, NEW u \in Branches,
         IsPrefix(s, t), IsPrefix(t, u)
  PROVE  IsPrefix(s, u)
BY PrefixByElements DEF Branches

LEMMA PrefixAppend ==
  ASSUME NEW s \in Branches, NEW commit \in Commits
  PROVE  Append(s, commit) \in Branches /\ IsPrefix(s, Append(s, commit))
<1>1. Append(s, commit) \in Seq(Commits) /\ Len(Append(s, commit)) = Len(s) + 1
  BY DEF Branches
<1>2. Append(s, commit) \in Branches
  BY <1>1 DEF Branches
<1>3. \A i \in 1 .. Len(s) : s[i] = Append(s, commit)[i]
  BY DEF Branches
<1>4. Len(s) \in Nat
  BY DEF Branches
<1>. DEFINE t == Append(s, commit)
<1>. HIDE DEF t
<1>5. t \in Branches /\ Len(t) = Len(s) + 1 /\ \A i \in 1 .. Len(s) : s[i] = t[i]
  BY <1>1, <1>2, <1>3 DEF t
<1>6. IsPrefix(s, t)
  BY <1>4, <1>5, PrefixByElements
<1>. QED
  BY <1>5, <1>6 DEF t

\* The last commit of a branch has a tree.
LEMMA TipTreeType ==
  ASSUME NEW s \in Branches
  PROVE  TipTree(s) \in Trees /\ Len(s) \in DOMAIN s /\ TipTree(s) = s[Len(s)].tree
<1>1. Len(s) \in 1 .. Len(s)
  BY DEF Branches
<1>2. s[Len(s)] \in Commits
  BY <1>1 DEF Branches
<1>. QED
  BY <1>1, <1>2 DEF TipTree, Last, Commits, Branches

-----------------------------------------------------------------------------
(* The inductive invariant, in the part that speaks of the repository and  *)
(* the calls and the part that speaks of the status calls                  *)

Repository ==
  /\ work \in Trees /\ index \in Trees
  /\ head \in Branches /\ tracked \in Branches /\ upstream \in Branches
  /\ phase \in [Calls -> Phases]
  /\ kind \in [Calls -> Kinds \cup {None}]
  /\ path \in [Calls -> Paths \cup {None}]
  /\ declared \in [Calls -> SUBSET Paths]
  /\ tree \in [Calls -> Trees]
  /\ seen \in [Calls -> Branches]
  /\ goal \in [Calls -> Branches]
  /\ fetched \in [Calls -> Seq(Commits)]
  /\ ok \in [Calls -> BOOLEAN]
  /\ Reported(head) /\ Reported(tracked) /\ Reported(upstream)
  /\ IsPrefix(tracked, upstream)
  /\ \A c \in Calls :
       Fits(c) /\ Landed(c) /\ Reported(seen[c]) /\ Reported(goal[c])

Controller ==
  /\ changed \subseteq Calls
  /\ read \in [Reads -> {"free", "queued", "returned"}]
  /\ answer \in [Reads -> [Paths -> States] \cup {None}]
  /\ busy \in BOOLEAN
  /\ shown \in [Paths -> States]
  /\ \A r \in Reads : read[r] = "returned" => answer[r] # None

LEMMA IInvParts ==
  /\ IInv <=> Repository /\ Controller
  /\ IInv' <=> Repository' /\ Controller'
BY DEF IInv, TypeOK, Repository, Controller, Branches

Grows ==
  /\ IsPrefix(head, head') /\ IsPrefix(upstream, upstream')
  /\ IsPrefix(tracked, tracked')

LEMMA InitIInv == Init => IInv
<1>. SUFFICES ASSUME Init PROVE IInv
  OBVIOUS
<1>. USE DEF Init
<1>1. AllBase \in Trees /\ [Paths -> {"base", "mine"}] \subseteq Trees
  BY DEF AllBase, Trees, Contents
<1>2. head \in Branches /\ head[1].by = Other /\ DOMAIN head = {1}
  BY <1>1 DEF Branches, Commits
<1>3. Reported(head)
  BY <1>2, GitAssumption DEF Reported
<1>r. IsPrefix(tracked, upstream) /\ fetched \in [Calls -> Seq(Commits)]
  BY <1>2, PrefixReflexive
<1>4. Repository
  BY <1>1, <1>2, <1>3, <1>r DEF Repository, Reported, Fits, Landed, Phases
<1>5. Controller
  BY DEF Controller, States
<1>. QED
  BY <1>4, <1>5, IInvParts

\* What is not touched does not shrink.
LEMMA GrowsStable ==
  ASSUME Repository, UNCHANGED <<head, upstream, tracked>>
  PROVE  Grows
BY PrefixReflexive DEF Grows, Repository

\* Steps that leave the repository and the calls alone.
LEMMA RepositoryStable ==
  ASSUME Repository, UNCHANGED <<repo, callvars>>
  PROVE  Repository'
BY DEF Repository, Reported, Fits, Landed, repo, callvars, request, scratch

LEMMA StatusType ==
  ASSUME Repository
  PROVE  Status \in [Paths -> States]
BY DEF Status, StatusOf, States

\* Refreshing, or not, keeps the controller's part.
LEMMA RefreshAtType ==
  ASSUME Controller, NEW now \in BOOLEAN, RefreshAt(now),
         changed' \subseteq Calls, UNCHANGED <<answer, shown>>
  PROVE  Controller'
BY DEF RefreshAt, Controller

\* The controller's own steps: refresh, its status call, repoChanged.
LEMMA GuiSteps ==
  ASSUME Repository, Controller,
         \/ Refresh
         \/ \E c \in Calls : OnChanged(c)
         \/ \E r \in Reads : ReadStatus(r) \/ OnStatus(r)
  PROVE  Repository' /\ Controller' /\ Grows
<1>1. UNCHANGED <<repo, callvars>>
  BY DEF Refresh, OnChanged, ReadStatus, OnStatus
<1>2. Repository' /\ Grows
  BY <1>1, RepositoryStable, GrowsStable DEF repo
<1>3. busy \in BOOLEAN
  BY DEF Controller
<1>4. CASE Refresh
  <2>1. changed' \subseteq Calls
    BY <1>4 DEF Refresh, Controller
  <2>. QED BY <1>2, <1>3, <1>4, <2>1, RefreshAtType DEF Refresh
<1>5. ASSUME NEW c \in Calls, OnChanged(c) PROVE Controller'
  <2>1. changed' \subseteq Calls
    BY <1>5 DEF OnChanged, Controller
  <2>. QED BY <1>3, <1>5, <2>1, RefreshAtType DEF OnChanged
<1>6. ASSUME NEW r \in Reads, ReadStatus(r) PROVE Controller'
  BY <1>6, StatusType, GitAssumption DEF Controller, ReadStatus
<1>7. ASSUME NEW r \in Reads, OnStatus(r) PROVE Controller'
  <2>1. answer[r] \in [Paths -> States]
    BY <1>7 DEF OnStatus, Controller
  <2>. QED
    BY <1>7, <2>1 DEF Controller, OnStatus
<1>. QED
  BY <1>2, <1>4, <1>5, <1>6, <1>7

-----------------------------------------------------------------------------
(* Steps of a call                                                         *)

LEMMA ControllerStable ==
  ASSUME Controller, changed' \subseteq Calls, UNCHANGED gui
  PROVE  Controller'
BY DEF Controller, gui

LEMMA SucceedType ==
  ASSUME Repository, Controller, NEW c \in Calls, Succeed(c)
  PROVE  ok' \in [Calls -> BOOLEAN] /\ ok'[c] /\ changed' \subseteq Calls
BY DEF Succeed, Repository, Controller

\* The types of the calls, the branches kept, and what c itself has to show: then
\* the other calls keep what they had, for branches only grow.
CallTypes ==
  /\ work \in Trees /\ index \in Trees
  /\ head \in Branches /\ tracked \in Branches /\ upstream \in Branches
  /\ phase \in [Calls -> Phases]
  /\ kind \in [Calls -> Kinds \cup {None}]
  /\ path \in [Calls -> Paths \cup {None}]
  /\ declared \in [Calls -> SUBSET Paths]
  /\ tree \in [Calls -> Trees]
  /\ seen \in [Calls -> Branches]
  /\ goal \in [Calls -> Branches]
  /\ fetched \in [Calls -> Seq(Commits)]
  /\ ok \in [Calls -> BOOLEAN]

OthersKept(c) ==
  \A d \in Calls \ {c} :
    /\ phase'[d] = phase[d] /\ kind'[d] = kind[d] /\ ok'[d] = ok[d] /\ path'[d] = path[d]
    /\ seen'[d] = seen[d] /\ goal'[d] = goal[d] /\ fetched'[d] = fetched[d]

LEMMA LandedKept ==
  ASSUME Repository, CallTypes', Grows, NEW d \in Calls,
         phase'[d] = phase[d], kind'[d] = kind[d], ok'[d] = ok[d],
         seen'[d] = seen[d], goal'[d] = goal[d], fetched'[d] = fetched[d]
  PROVE  Landed(d)'
<1>. USE DEF CallTypes, Repository
<1>0. /\ head \in Branches /\ head' \in Branches
      /\ upstream \in Branches /\ upstream' \in Branches
      /\ tracked \in Branches /\ tracked' \in Branches
      /\ seen[d] \in Branches /\ goal[d] \in Branches /\ fetched[d] \in Seq(Commits)
      /\ IsPrefix(head, head') /\ IsPrefix(upstream, upstream') /\ IsPrefix(tracked, tracked')
      /\ Landed(d)
  BY DEF Grows
<1>1. ASSUME \E i \in DOMAIN head : head[i].by = d
      PROVE  \E i \in DOMAIN head' : head'[i].by = d
  <2>1. Len(head) <= Len(head') /\ \A i \in 1 .. Len(head) : head[i] = head'[i]
    BY <1>0, PrefixByElements
  <2>2. DOMAIN head = 1 .. Len(head) /\ DOMAIN head' = 1 .. Len(head')
        /\ Len(head) \in Nat /\ Len(head') \in Nat
    BY <1>0 DEF Branches
  <2>. QED BY <1>1, <2>1, <2>2
<1>2. ASSUME NEW s \in Branches
      PROVE  /\ IsPrefix(s, head) => IsPrefix(s, head')
             /\ IsPrefix(s, upstream) => IsPrefix(s, upstream')
             /\ IsPrefix(s, tracked) => IsPrefix(s, tracked')
  BY <1>0, PrefixTransitive
<1>3. fetched[d] # <<>> => fetched[d] \in Branches
  BY <1>0 DEF Branches
<1>. HIDE DEF CallTypes, Repository
<1>. QED
  BY <1>0, <1>1, <1>2, <1>3 DEF Landed

\* The tracking branch follows the server's.
LEMMA TrackedBehind ==
  ASSUME Repository, CallTypes', Grows, tracked' \in {tracked, upstream'}
  PROVE  IsPrefix(tracked, upstream)'
<1>1. /\ tracked \in Branches /\ upstream \in Branches /\ upstream' \in Branches
      /\ IsPrefix(tracked, upstream) /\ IsPrefix(upstream, upstream')
  BY DEF Repository, CallTypes, Grows
<1>2. IsPrefix(tracked, upstream') /\ IsPrefix(upstream', upstream')
  BY <1>1, PrefixTransitive, PrefixReflexive
<1>. QED
  BY <1>2

LEMMA CallStep ==
  ASSUME Repository, CallTypes', Grows, NEW c \in Calls,
         OthersKept(c),
         Fits(c)', Landed(c)',
         ok[c] => ok'[c] /\ kind'[c] = kind[c],
         tracked' \in {tracked, upstream'},
         Reported(head)', Reported(tracked)', Reported(upstream)',
         Reported(seen[c])', Reported(goal[c])'
  PROVE  Repository'
<1>1. ASSUME NEW d \in Calls \ {c} PROVE Fits(d)' /\ Landed(d)'
  <2>1. Landed(d)'
    BY <1>1, LandedKept DEF OthersKept
  <2>2. Fits(d)'
    BY <1>1 DEF Fits, Repository, OthersKept
  <2>. QED BY <2>1, <2>2
<1>2. ASSUME NEW e \in Calls, kind[e] = "commit" /\ ok[e]
      PROVE  kind'[e] = "commit" /\ ok'[e]
  BY <1>2 DEF OthersKept
<1>3. ASSUME NEW d \in Calls \ {c} PROVE Reported(seen[d])' /\ Reported(goal[d])'
  <2>1. seen'[d] = seen[d] /\ goal'[d] = goal[d]
    BY <1>3 DEF OthersKept
  <2>2. Reported(seen[d]) /\ Reported(goal[d])
    BY <1>3 DEF Repository
  <2>. QED BY <1>2, <2>1, <2>2 DEF Reported
<1>4. \A d \in Calls : Fits(d)' /\ Landed(d)' /\ Reported(seen[d])' /\ Reported(goal[d])'
  BY <1>1, <1>3
<1>. QED
  BY <1>4, TrackedBehind DEF Repository, CallTypes

\* Most steps only pass on branches that exist already.
LEMMA KnownStep ==
  ASSUME Repository, CallTypes', Grows, NEW c \in Calls,
         OthersKept(c),
         Fits(c)', Landed(c)',
         ok[c] => ok'[c] /\ kind'[c] = kind[c],
         tracked' \in {tracked, upstream'},
         {head', tracked', upstream', seen'[c], goal'[c]} \subseteq
           {head, tracked, upstream, seen[c], goal[c]}
  PROVE  Repository'
<1>1. ASSUME NEW e \in Calls, kind[e] = "commit" /\ ok[e]
      PROVE  kind'[e] = "commit" /\ ok'[e]
  BY <1>1 DEF OthersKept
<1>2. ASSUME NEW branch \in {head, tracked, upstream, seen[c], goal[c]},
             NEW i \in DOMAIN branch, branch[i].by \in Calls
      PROVE  kind'[branch[i].by] = "commit" /\ ok'[branch[i].by]
  <2>1. Reported(branch)
    BY DEF Repository
  <2>. QED BY <1>1, <1>2, <2>1 DEF Reported
<1>3. /\ Reported(head)' /\ Reported(tracked)' /\ Reported(upstream)'
      /\ Reported(seen[c])' /\ Reported(goal[c])'
  BY <1>2 DEF Reported
<1>. QED
  BY <1>3, CallStep

\* A click or a confirmation hands a new call to the pool.
LEMMA QueueSteps ==
  ASSUME Repository, Controller, NEW c \in Calls,
         \/ \E p \in Paths : StagePath(c, p) \/ UnstagePath(c, p)
         \/ ConfirmCommit(c)
         \/ \E k \in Remote : ConfirmRemote(c, k)
  PROVE  Repository' /\ Controller' /\ Grows
<1>. USE DEF StagePath, UnstagePath, ConfirmCommit, ConfirmRemote
<1>1. /\ UNCHANGED <<repo, scratch, ok, changed, read, answer, shown>>
      /\ phase[c] = "free" /\ phase' = [phase EXCEPT ![c] = "queued"]
      /\ \E k \in Kinds : kind' = [kind EXCEPT ![c] = k]
      /\ busy' \in {busy, TRUE}
  BY DEF Queue, Kinds, Remote, gui
<1>2. /\ path' \in [Calls -> Paths \cup {None}]
      /\ \A d \in Calls \ {c} : path'[d] = path[d]
      /\ kind'[c] \in {"stage", "unstage"} => path'[c] \in Paths
  <2>1. path \in [Calls -> Paths \cup {None}] /\ kind \in [Calls -> Kinds \cup {None}]
    BY DEF Repository
  <2>2. CASE \E p \in Paths : StagePath(c, p) \/ UnstagePath(c, p)
    BY <2>1, <2>2
  <2>3. CASE ConfirmCommit(c)
    BY <2>1, <2>3 DEF Queue
  <2>4. CASE \E k \in Remote : ConfirmRemote(c, k)
    BY <2>1, <2>4 DEF Queue, Remote
  <2>. QED BY <2>2, <2>3, <2>4
<1>3. declared' \in [Calls -> SUBSET Paths]
  BY DEF StagedIn, Repository
<1>4. Grows
  BY <1>1, GrowsStable DEF repo
<1>5. CallTypes'
  <2>1. /\ phase' \in [Calls -> Phases]
        /\ kind' \in [Calls -> Kinds \cup {None}]
    BY <1>1 DEF Repository, Phases
  <2>2. UNCHANGED <<work, index, head, tracked, upstream, tree, seen, goal, ok>>
    BY <1>1 DEF repo, scratch
  <2>3. fetched' = fetched
    BY <1>1 DEF scratch
  <2>. QED
    BY <1>2, <1>3, <2>1, <2>3, <2>2 DEF CallTypes, Repository
<1>6. /\ OthersKept(c)
      /\ phase'[c] = "queued" /\ ok'[c] = FALSE /\ ok[c] = FALSE
  BY <1>1, <1>2 DEF OthersKept, Repository, scratch, Fits
<1>7. Fits(c)' /\ Landed(c)'
  <2>1. fetched'[c] = <<>>
    BY <1>1 DEF Repository, Landed, scratch
  <2>. QED BY <1>2, <1>6, <2>1 DEF Fits, Landed
<1>8. Repository'
  BY <1>1, <1>4, <1>5, <1>6, <1>7, KnownStep DEF repo, scratch
<1>9. Controller'
  BY <1>1 DEF Controller
<1>. QED
  BY <1>4, <1>8, <1>9

\* Steps of a worker that only go on: a check, a private copy, an error.
LEMMA PrivateSteps ==
  ASSUME Repository, Controller, NEW c \in Calls,
         LoadIndex(c) \/ CheckStaged(c) \/ WriteTree(c) \/ Refuse(c) \/ Fail(c)
  PROVE  Repository' /\ Controller' /\ Grows
<1>. USE DEF LoadIndex, CheckStaged, WriteTree, Refuse, Fail, Step
<1>1. /\ UNCHANGED <<repo, request, seen, goal, fetched, ok, changed, gui>>
      /\ \E to \in {"loaded", "checked", "written", "returned"} :
           phase' = [phase EXCEPT ![c] = to]
  BY DEF scratch
<1>2. tree' \in [Calls -> Trees]
  <2>1. CASE LoadIndex(c)
    <3>1. path[c] \in Paths
      BY <2>1 DEF Repository, Fits
    <3>2. TipTree(head) \in Trees /\ work \in Trees /\ index \in Trees
      BY TipTreeType DEF Repository
    <3>. QED BY <2>1, <3>1, <3>2 DEF Repository, Trees
  <2>2. CASE WriteTree(c)
    BY <2>2 DEF Repository
  <2>3. CASE CheckStaged(c) \/ Refuse(c) \/ Fail(c)
    BY <2>3 DEF Repository, scratch
  <2>. QED BY <2>1, <2>2, <2>3
<1>3. Grows /\ Controller'
  BY <1>1, GrowsStable, ControllerStable DEF repo, Controller
<1>4. CallTypes'
  BY <1>1, <1>2 DEF CallTypes, Repository, repo, request, Phases
<1>5. OthersKept(c)
  BY <1>1 DEF OthersKept, Repository, request
<1>6. Fits(c)'
  BY <1>1 DEF Repository, Fits, request, Waiting
<1>7. Landed(c)'
  BY <1>1 DEF Repository, Landed, request, repo
<1>8. Repository'
  BY <1>1, <1>3, <1>4, <1>5, <1>6, <1>7, KnownStep DEF repo, request
<1>. QED
  BY <1>3, <1>8

\* The index is replaced by the worker's copy.
LEMMA WriteIndexStep ==
  ASSUME Repository, Controller, NEW c \in Calls, WriteIndex(c)
  PROVE  Repository' /\ Controller' /\ Grows
<1>. USE DEF WriteIndex, Step
<1>1. /\ UNCHANGED <<work, head, tracked, upstream, request, scratch, gui>>
      /\ index' = tree[c] /\ phase' = [phase EXCEPT ![c] = "returned"]
      /\ ok' = [ok EXCEPT ![c] = TRUE] /\ changed' \subseteq Calls
      /\ kind[c] \in {"stage", "unstage"} /\ ok[c] = FALSE
  BY SucceedType DEF Succeed, Repository, Fits
<1>2. Grows /\ Controller'
  BY <1>1, GrowsStable, ControllerStable
<1>3. CallTypes'
  BY <1>1 DEF CallTypes, Repository, request, scratch, Phases
<1>4. OthersKept(c)
  BY <1>1 DEF OthersKept, Repository, request, scratch
<1>5. Fits(c)' /\ Landed(c)'
  BY <1>1 DEF Repository, Fits, Landed, request, scratch
<1>6. Repository'
  BY <1>1, <1>2, <1>3, <1>4, <1>5, KnownStep DEF request, scratch
<1>. QED
  BY <1>2, <1>6

\* The parent is read.
LEMMA ReadParentStep ==
  ASSUME Repository, Controller, NEW c \in Calls, ReadParent(c)
  PROVE  Repository' /\ Controller' /\ Grows
<1>. USE DEF ReadParent, Step
<1>1. /\ UNCHANGED <<repo, request, tree, goal, fetched, ok, changed, gui>>
      /\ phase' = [phase EXCEPT ![c] = "parented"]
      /\ seen' = [seen EXCEPT ![c] = head]
      /\ kind[c] = "commit" /\ ok[c] = FALSE
  BY DEF Repository, Fits
<1>2. Grows /\ Controller'
  BY <1>1, GrowsStable, ControllerStable DEF repo, Controller
<1>3. CallTypes'
  BY <1>1 DEF CallTypes, Repository, repo, request, Phases
<1>4. OthersKept(c)
  BY <1>1 DEF OthersKept, Repository, request
<1>5. Fits(c)' /\ Landed(c)'
  BY <1>1 DEF Repository, Fits, Landed, request
<1>6. {head', tracked', upstream', seen'[c], goal'[c]} \subseteq
        {head, tracked, upstream, seen[c], goal[c]}
  BY <1>1 DEF Repository, repo
<1>7. Repository'
  BY <1>1, <1>2, <1>3, <1>4, <1>5, <1>6, KnownStep DEF repo, request
<1>. QED
  BY <1>2, <1>7

\* The branch grows by the call's own commit, which is reported in the same step.
LEMMA CreateCommitStep ==
  ASSUME Repository, Controller, NEW c \in Calls, CreateCommit(c)
  PROVE  Repository' /\ Controller' /\ Grows
<1>. USE DEF CreateCommit, Step
<1>. DEFINE made == [by |-> c, tree |-> tree[c]]
<1>1. /\ UNCHANGED <<work, index, tracked, upstream, request, scratch, gui>>
      /\ head' = Append(head, made)
      /\ phase' = [phase EXCEPT ![c] = "returned"]
      /\ ok' = [ok EXCEPT ![c] = TRUE] /\ changed' \subseteq Calls
      /\ kind[c] = "commit" /\ ok[c] = FALSE
  BY SucceedType DEF Succeed, Repository, Fits
<1>2. made \in Commits
  BY DEF Repository, Commits
<1>3. head' \in Branches /\ IsPrefix(head, head')
  BY <1>1, <1>2, PrefixAppend DEF Repository
<1>4. Grows /\ Controller'
  BY <1>1, <1>3, PrefixReflexive, ControllerStable DEF Grows, Repository
<1>5. CallTypes'
  BY <1>1, <1>3 DEF CallTypes, Repository, request, scratch, Phases
<1>6. OthersKept(c)
  BY <1>1 DEF OthersKept, Repository, request, scratch
<1>7. /\ head \in Seq(Commits) /\ Len(head') = Len(head) + 1
      /\ head'[Len(head) + 1] = made
      /\ \A i \in DOMAIN head' : head'[i] \in {made} \cup {head[j] : j \in DOMAIN head}
      /\ Len(head) + 1 \in DOMAIN head'
  BY <1>1, <1>2 DEF Repository, Branches
<1>8. Fits(c)' /\ Landed(c)'
  <2>1. kind'[c] = "commit" /\ phase'[c] = "returned"
    BY <1>1 DEF Repository, request
  <2>2. \E i \in DOMAIN head' : head'[i].by = c
    BY <1>7
  <2>. QED BY <2>1, <2>2 DEF Fits, Landed
<1>9. ASSUME NEW e \in Calls, kind[e] = "commit" /\ ok[e]
      PROVE  kind'[e] = "commit" /\ ok'[e]
  BY <1>1, <1>9 DEF Repository, request
<1>10. Reported(head)'
  <2>1. made.by = c /\ kind'[c] = "commit" /\ ok'[c]
    BY <1>1 DEF Repository, request
  <2>2. Reported(head)
    BY DEF Repository
  <2>. HIDE DEF made
  <2>. QED BY <1>7, <1>9, <2>1, <2>2 DEF Reported
<1>11. /\ Reported(tracked)' /\ Reported(upstream)'
       /\ Reported(seen[c])' /\ Reported(goal[c])'
  <2>1. /\ Reported(tracked) /\ Reported(upstream)
        /\ Reported(seen[c]) /\ Reported(goal[c])
    BY DEF Repository
  <2>2. tracked' = tracked /\ upstream' = upstream /\ seen' = seen /\ goal' = goal
    BY <1>1 DEF scratch
  <2>. QED BY <1>9, <2>1, <2>2 DEF Reported
<1>12. Repository'
  BY <1>1, <1>4, <1>5, <1>6, <1>8, <1>10, <1>11, CallStep
<1>. QED
  BY <1>4, <1>12

\* A fetch moves only the remote-tracking branch.
LEMMA FetchStep ==
  ASSUME Repository, Controller, NEW c \in Calls, Fetch(c)
  PROVE  Repository' /\ Controller' /\ Grows
<1>. USE DEF Fetch, Step
<1>1. /\ UNCHANGED <<work, index, head, upstream, request, tree, seen, goal, ok, changed, gui>>
      /\ tracked' = upstream
      /\ fetched' = [fetched EXCEPT ![c] = upstream]
      /\ phase' = [phase EXCEPT ![c] = "fetched"]
      /\ kind[c] = "pull" /\ ok[c] = FALSE
      /\ upstream \in Branches /\ head \in Branches /\ IsPrefix(tracked, upstream)
  BY DEF Repository, Fits
<1>2. Grows
  BY <1>1, PrefixReflexive DEF Grows
<1>3. Controller'
  BY <1>1, ControllerStable DEF Controller
<1>4. CallTypes'
  BY <1>1 DEF CallTypes, Repository, request, Phases, Branches
<1>5. OthersKept(c)
  BY <1>1 DEF OthersKept, Repository, request
<1>6. /\ fetched'[c] = upstream /\ fetched'[c] # <<>> /\ IsPrefix(fetched'[c], tracked')
      /\ phase'[c] = "fetched" /\ kind'[c] = "pull" /\ ok'[c] = FALSE
  BY <1>1, PrefixReflexive DEF Repository, request, Branches
<1>7. Fits(c)' /\ Landed(c)'
  BY <1>6 DEF Fits, Landed
<1>8. {head', tracked', upstream', seen'[c], goal'[c]} \subseteq
        {head, tracked, upstream, seen[c], goal[c]}
  BY <1>1
<1>9. Repository'
  BY <1>1, <1>2, <1>4, <1>5, <1>7, <1>8, KnownStep DEF request
<1>. QED
  BY <1>2, <1>3, <1>9

\* The merge analysis: the branch and its upstream are read.
LEMMA AnalysisSteps ==
  ASSUME Repository, Controller, NEW c \in Calls, UpToDate(c) \/ FastForward(c)
  PROVE  Repository' /\ Controller' /\ Grows
<1>. USE DEF UpToDate, FastForward, Step
<1>1. /\ UNCHANGED <<repo, request, tree, fetched, gui>>
      /\ seen' = [seen EXCEPT ![c] = head] /\ goal' = [goal EXCEPT ![c] = tracked]
      /\ phase' \in {[phase EXCEPT ![c] = "returned"], [phase EXCEPT ![c] = "aimed"]}
      /\ kind[c] = "pull" /\ ok[c] = FALSE
  BY DEF Repository, Fits
<1>2. ok' \in [Calls -> BOOLEAN] /\ changed' \subseteq Calls
  BY SucceedType DEF Repository, Controller
<1>3. Grows /\ Controller'
  BY <1>1, <1>2, GrowsStable, ControllerStable DEF repo
<1>4. CallTypes'
  BY <1>1, <1>2 DEF CallTypes, Repository, repo, request, Phases
<1>5. OthersKept(c)
  BY <1>1 DEF OthersKept, Repository, request, Succeed
<1>6. /\ fetched'[c] # <<>>
      /\ phase'[c] = "returned" => IsPrefix(fetched'[c], head')
      /\ phase'[c] = "aimed" => /\ IsPrefix(seen'[c], goal'[c]) /\ ok'[c] = FALSE
                                /\ IsPrefix(fetched'[c], goal'[c])
                                /\ IsPrefix(goal'[c], upstream')
      /\ phase'[c] \in {"returned", "aimed"} /\ kind'[c] = "pull"
  <2>1. /\ fetched[c] # <<>> /\ IsPrefix(fetched[c], tracked) /\ IsPrefix(tracked, upstream)
        /\ fetched[c] \in Branches /\ tracked \in Branches /\ head \in Branches
    BY DEF Repository, Landed, Branches
  <2>2. /\ phase'[c] \in {"returned", "aimed"} /\ kind'[c] = "pull" /\ fetched' = fetched
        /\ UNCHANGED <<head, tracked, upstream>> /\ seen'[c] = head /\ goal'[c] = tracked
    BY <1>1 DEF Repository, repo, request
  <2>3. CASE UpToDate(c)
    <3>1. phase'[c] = "returned" /\ IsPrefix(tracked, head)
      BY <2>3 DEF Repository
    <3>. QED BY <2>1, <2>2, <3>1, PrefixTransitive
  <2>4. CASE FastForward(c)
    <3>1. phase'[c] = "aimed" /\ IsPrefix(head, tracked) /\ ok'[c] = FALSE
      BY <1>1, <2>4 DEF Repository
    <3>. QED BY <2>1, <2>2, <3>1
  <2>. QED BY <2>3, <2>4
<1>7. Fits(c)' /\ Landed(c)'
  BY <1>6 DEF Fits, Landed
<1>8. {head', tracked', upstream', seen'[c], goal'[c]} \subseteq
        {head, tracked, upstream, seen[c], goal[c]}
  BY <1>1 DEF Repository, repo
<1>9. Repository'
  BY <1>1, <1>3, <1>4, <1>5, <1>7, <1>8, KnownStep DEF repo, request
<1>. QED
  BY <1>3, <1>9

\* The branch moves from what the pull read to its goal, which extends it.
LEMMA MoveBranchStep ==
  ASSUME Repository, Controller, NEW c \in Calls, MoveBranch(c)
  PROVE  Repository' /\ Controller' /\ Grows
<1>. USE DEF MoveBranch, Step
<1>1. /\ UNCHANGED <<work, index, tracked, upstream, request, scratch, ok, changed, gui>>
      /\ head' = goal[c]
      /\ phase' = [phase EXCEPT ![c] = "moved"]
      /\ kind[c] = "pull" /\ ok[c] = FALSE
      /\ head = seen[c] /\ IsPrefix(seen[c], goal[c])
      /\ fetched[c] # <<>> /\ IsPrefix(fetched[c], goal[c])
      /\ head \in Branches /\ goal[c] \in Branches
      /\ upstream \in Branches /\ tracked \in Branches
  <2>1. phase[c] = "aimed" /\ Fits(c) /\ Landed(c) /\ ok \in [Calls -> BOOLEAN]
    BY DEF Repository
  <2>2. /\ kind[c] = "pull" /\ ok[c] = FALSE
        /\ IsPrefix(seen[c], goal[c])
        /\ fetched[c] # <<>> /\ IsPrefix(fetched[c], goal[c])
    BY <2>1 DEF Fits, Landed
  <2>3. /\ head \in Branches /\ goal[c] \in Branches
        /\ upstream \in Branches /\ tracked \in Branches
    BY DEF Repository
  <2>. QED
    BY <2>2, <2>3
<1>2. Grows
  BY <1>1, PrefixReflexive DEF Grows
<1>3. Controller'
  BY <1>1, ControllerStable DEF Controller
<1>4. CallTypes'
  BY <1>1 DEF CallTypes, Repository, request, scratch, Phases
<1>5. OthersKept(c)
  BY <1>1 DEF OthersKept, Repository, request, scratch
<1>6. /\ IsPrefix(seen'[c], head') /\ IsPrefix(fetched'[c], head') /\ fetched'[c] # <<>>
      /\ phase'[c] = "moved" /\ kind'[c] = "pull" /\ ok'[c] = FALSE
  BY <1>1, PrefixReflexive DEF Repository, request, scratch
<1>7. Fits(c)' /\ Landed(c)'
  BY <1>6 DEF Fits, Landed
<1>8. {head', tracked', upstream', seen'[c], goal'[c]} \subseteq
        {head, tracked, upstream, seen[c], goal[c]}
  BY <1>1 DEF scratch
<1>9. Repository'
  BY <1>1, <1>2, <1>4, <1>5, <1>7, <1>8, KnownStep DEF request
<1>. QED
  BY <1>2, <1>3, <1>9

\* The checkout writes files and index, and the pull succeeds.
LEMMA CheckoutStep ==
  ASSUME Repository, Controller, NEW c \in Calls, Checkout(c)
  PROVE  Repository' /\ Controller' /\ Grows
<1>. USE DEF Checkout, Step
<1>1. /\ UNCHANGED <<head, tracked, upstream, request, scratch, gui>>
      /\ phase' = [phase EXCEPT ![c] = "returned"]
      /\ ok' = [ok EXCEPT ![c] = TRUE] /\ changed' \subseteq Calls
      /\ kind[c] = "pull" /\ ok[c] = FALSE 
      /\ fetched[c] # <<>> /\ IsPrefix(fetched[c], head)
  BY SucceedType DEF Succeed, Repository, Fits, Landed
<1>2. work' \in Trees /\ index' \in Trees
  <2>1. TipTree(head) \in Trees /\ work \in Trees /\ index \in Trees
    BY TipTreeType DEF Repository
  <2>. QED BY <2>1 DEF Trees
<1>3. Grows /\ Controller'
  BY <1>1, GrowsStable, ControllerStable
<1>4. CallTypes'
  BY <1>1, <1>2 DEF CallTypes, Repository, request, scratch, Phases
<1>5. OthersKept(c)
  BY <1>1 DEF OthersKept, Repository, request, scratch
<1>6. Fits(c)' /\ Landed(c)'
  BY <1>1 DEF Repository, Fits, Landed, request, scratch
<1>7. Repository'
  BY <1>1, <1>3, <1>4, <1>5, <1>6, KnownStep DEF request, scratch
<1>. QED
  BY <1>3, <1>7

\* A push that the server accepted.
LEMMA SendStep ==
  ASSUME Repository, Controller, NEW c \in Calls, Send(c)
  PROVE  Repository' /\ Controller' /\ Grows
<1>. USE DEF Send, Step
<1>1. /\ UNCHANGED <<work, index, head, request, tree, goal, fetched, gui>>
      /\ upstream' = head /\ tracked' = head
      /\ seen' = [seen EXCEPT ![c] = head]
      /\ phase' = [phase EXCEPT ![c] = "returned"]
      /\ ok' = [ok EXCEPT ![c] = TRUE] /\ changed' \subseteq Calls
      /\ kind[c] = "push" /\ ok[c] = FALSE /\ IsPrefix(upstream, head)
  BY SucceedType DEF Succeed, Repository, Fits
<1>2. /\ head \in Branches /\ upstream \in Branches /\ tracked \in Branches
      /\ IsPrefix(tracked, upstream)
  BY DEF Repository
<1>3. Grows /\ Controller'
  BY <1>1, <1>2, PrefixReflexive, PrefixTransitive, ControllerStable DEF Grows
<1>4. CallTypes'
  BY <1>1 DEF CallTypes, Repository, request, Phases
<1>5. OthersKept(c)
  BY <1>1 DEF OthersKept, Repository, request
<1>6. IsPrefix(seen'[c], upstream') /\ kind'[c] = "push" /\ phase'[c] = "returned"
  BY <1>1, <1>2, PrefixReflexive DEF Repository, request
<1>7. Fits(c)' /\ Landed(c)'
  BY <1>6 DEF Fits, Landed
<1>8. {head', tracked', upstream', seen'[c], goal'[c]} \subseteq
        {head, tracked, upstream, seen[c], goal[c]}
  BY <1>1 DEF Repository
<1>9. Repository'
  BY <1>1, <1>3, <1>4, <1>5, <1>7, <1>8, KnownStep DEF request
<1>. QED
  BY <1>3, <1>9

\* The controller takes a call's answer.
LEMMA AnswerStep ==
  ASSUME Repository, Controller, NEW c \in Calls, OnAnswer(c)
  PROVE  Repository' /\ Controller' /\ Grows
<1>. USE DEF OnAnswer, Step
<1>1. /\ UNCHANGED <<repo, request, scratch, ok, changed, answer, shown>>
      /\ phase' = [phase EXCEPT ![c] = "settled"]
      /\ phase[c] = "returned"
  OBVIOUS
<1>2. Grows
  BY <1>1, GrowsStable DEF repo
<1>3. Controller'
  <2>. DEFINE now == busy /\ kind[c] \in {"stage", "unstage"}
  <2>1. now \in BOOLEAN /\ changed' \subseteq Calls
    BY <1>1 DEF Controller
  <2>2. CASE ok[c]
    <3>1. RefreshAt(now)
      BY <2>2
    <3>. HIDE DEF now
    <3>. QED BY <1>1, <2>1, <3>1, RefreshAtType
  <2>3. CASE ~ok[c]
    <3>1. busy' = now /\ read' = read
      BY <2>3
    <3>. HIDE DEF now
    <3>. QED BY <1>1, <2>1, <3>1 DEF Controller
  <2>. QED BY <2>2, <2>3
<1>4. CallTypes'
  BY <1>1 DEF CallTypes, Repository, repo, request, scratch, Phases
<1>5. OthersKept(c)
  BY <1>1 DEF OthersKept, Repository, request, scratch
<1>6. Fits(c)' /\ Landed(c)'
  BY <1>1 DEF Repository, Fits, Landed, repo, request, scratch
<1>7. Repository'
  BY <1>1, <1>2, <1>4, <1>5, <1>6, KnownStep DEF repo, request, scratch
<1>. QED
  BY <1>2, <1>3, <1>7

-----------------------------------------------------------------------------
(* Steps of others                                                         *)

LEMMA EditStep ==
  ASSUME Repository, Controller, NEW p \in Paths, EditFile(p)
  PROVE  Repository' /\ Controller' /\ Grows
<1>1. UNCHANGED <<index, head, tracked, upstream, callvars, changed, gui>>
  BY DEF EditFile
<1>2. work' \in Trees
  BY DEF EditFile, Repository, Trees, Contents
<1>3. Grows /\ Controller'
  BY <1>1, GrowsStable, ControllerStable DEF Controller
<1>4. Repository'
  BY <1>1, <1>2
  DEF Repository, Reported, Fits, Landed, callvars, request, scratch
<1>. QED
  BY <1>3, <1>4

LEMMA PushElsewhereStep ==
  ASSUME Repository, Controller, NEW p \in Paths, PushElsewhere(p)
  PROVE  Repository' /\ Controller' /\ Grows
<1>. DEFINE made == [by |-> Other, tree |-> [TipTree(upstream) EXCEPT ![p] = "theirs"]]
<1>1. /\ UNCHANGED <<work, index, head, tracked, callvars, changed, gui>>
      /\ upstream' = Append(upstream, made)
  BY DEF PushElsewhere
<1>2. made \in Commits
  <2>1. TipTree(upstream) \in Trees
    BY TipTreeType DEF Repository
  <2>. QED BY <2>1 DEF Commits, Trees, Contents
<1>3. upstream' \in Branches /\ IsPrefix(upstream, upstream')
  BY <1>1, <1>2, PrefixAppend DEF Repository
<1>4. Grows /\ Controller'
  BY <1>1, <1>3, PrefixReflexive, ControllerStable DEF Grows, Repository, Controller
<1>5. CallTypes'
  BY <1>1, <1>3 DEF CallTypes, Repository, callvars, request, scratch
<1>6. \A d \in Calls : Fits(d)' /\ Landed(d)'
  <2>. SUFFICES ASSUME NEW d \in Calls PROVE Fits(d)' /\ Landed(d)'
    OBVIOUS
  <2>1. Landed(d)'
    BY <1>1, <1>4, <1>5, LandedKept DEF callvars, request, scratch
  <2>2. Fits(d)'
    BY <1>1 DEF Fits, Repository, callvars, request
  <2>. QED BY <2>1, <2>2
<1>7. Reported(upstream)'
  <2>1. Reported(upstream) /\ made.by \notin Calls
    BY GitAssumption DEF Repository
  <2>2. \A i \in DOMAIN upstream' :
          upstream'[i] \in {made} \cup {upstream[j] : j \in DOMAIN upstream}
    BY <1>1, <1>2 DEF Repository, Branches
  <2>3. kind' = kind /\ ok' = ok
    BY <1>1 DEF callvars, request
  <2>. HIDE DEF made
  <2>. QED BY <2>1, <2>2, <2>3 DEF Reported
<1>8. /\ Reported(head)' /\ Reported(tracked)'
      /\ \A d \in Calls : Reported(seen[d])' /\ Reported(goal[d])'
  BY <1>1 DEF Repository, Reported, callvars, request, scratch
<1>9. Repository'
  BY <1>1, <1>4, <1>5, <1>6, <1>7, <1>8, TrackedBehind DEF Repository, CallTypes
<1>. QED
  BY <1>4, <1>9

-----------------------------------------------------------------------------
LEMMA StepIInv ==
  ASSUME IInv, [Next]_vars
  PROVE  IInv' /\ Grows
<1>. SUFFICES ASSUME Repository, Controller, [Next]_vars
              PROVE  Repository' /\ Controller' /\ Grows
  BY IInvParts
<1>1. CASE User
  BY <1>1, GuiSteps, QueueSteps DEF User
<1>2. ASSUME NEW c \in Calls, LocalStep(c)
      PROVE  Repository' /\ Controller' /\ Grows
  BY <1>2, PrivateSteps, WriteIndexStep, ReadParentStep, CreateCommitStep,
     AnalysisSteps, MoveBranchStep, CheckoutStep DEF LocalStep
<1>3. ASSUME NEW c \in Calls, Network(c)
      PROVE  Repository' /\ Controller' /\ Grows
  BY <1>3, FetchStep, SendStep, PrivateSteps DEF Network
<1>4. CASE (\E r \in Reads : ReadStatus(r)) \/ EventLoop
  BY <1>4, GuiSteps, AnswerStep DEF EventLoop
<1>5. CASE Outside
  BY <1>5, EditStep, PushElsewhereStep DEF Outside
<1>6. CASE UNCHANGED vars
  <2>1. UNCHANGED <<repo, callvars>> /\ UNCHANGED gui /\ changed' = changed
    BY <1>6 DEF vars
  <2>. QED
    BY <2>1, RepositoryStable, GrowsStable, ControllerStable DEF repo, Controller
<1>. QED
  BY <1>1, <1>2, <1>3, <1>4, <1>5, <1>6 DEF Next

LEMMA IInvHolds == Spec => []IInv
<1>1. Init => IInv
  BY InitIInv
<1>2. IInv /\ [Next]_vars => IInv'
  BY StepIInv
<1>. QED
  BY <1>1, <1>2, PTL DEF Spec

\* An edit disappears from a file only by a checkout of a clean file, whose content
\* was the tip of the branch the pull read; that branch is part of the present one.
LEMMA EditStaysCommitted ==
  ASSUME Repository, [Next]_vars, NEW p \in Paths, work[p] = "mine", work'[p] # "mine"
  PROVE  \E i \in DOMAIN head : head[i].tree[p] = "mine"
<1>1. PICK c \in Calls : Checkout(c)
  <2>. SUFFICES ASSUME \A c \in Calls : ~Checkout(c) PROVE work' = work \/ EditFile(p)
    BY DEF EditFile
  <2>1. CASE User
    BY <2>1 DEF User, Refresh, StagePath, UnstagePath, ConfirmCommit, ConfirmRemote,
                repo
  <2>2. ASSUME NEW c \in Calls, LocalStep(c) PROVE work' = work
    BY <2>2 DEF LocalStep, LoadIndex, WriteIndex, CheckStaged, WriteTree, ReadParent,
                CreateCommit, UpToDate, FastForward, MoveBranch, Fail, repo
  <2>3. ASSUME NEW c \in Calls, Network(c) PROVE work' = work
    BY <2>3 DEF Network, Fetch, Send, Refuse, repo
  <2>4. CASE (\E r \in Reads : ReadStatus(r)) \/ EventLoop
    BY <2>4 DEF EventLoop, ReadStatus, OnStatus, OnChanged, OnAnswer, repo
  <2>5. ASSUME NEW q \in Paths, EditFile(q) \/ PushElsewhere(q)
        PROVE  work' = work \/ EditFile(p)
    BY <2>5 DEF EditFile, PushElsewhere, Repository, Trees
  <2>6. CASE UNCHANGED vars
    BY <2>6 DEF vars, repo
  <2>. QED
    BY <2>1, <2>2, <2>3, <2>4, <2>5, <2>6 DEF Next, Outside
<1>2. CleanSince(seen[c], p)
  BY <1>1 DEF Checkout, Repository, Trees
<1>3. phase[c] = "moved" /\ seen[c] \in Branches /\ head \in Branches
  BY <1>1 DEF Checkout, Step, Repository
<1>4. IsPrefix(seen[c], head)
  BY <1>3 DEF Repository, Landed
<1>5. Len(seen[c]) \in DOMAIN head /\ head[Len(seen[c])] = seen[c][Len(seen[c])]
  BY <1>3, <1>4, PrefixByElements DEF Branches
<1>6. TipTree(seen[c])[p] = "mine"
  BY <1>2 DEF CleanSince
<1>. QED
  BY <1>3, <1>5, <1>6, TipTreeType

-----------------------------------------------------------------------------
\* Every variable keeps its type, for any number of calls, files and commits.
THEOREM TypeCorrect == Spec => []TypeOK
BY IInvHolds, PTL DEF IInv

\* Neither the local branch nor the server's ever loses a commit, however pulls,
\* commits and pushes overlap (git_service.cpp, commit and pull).
THEOREM NoCommitIsLost == Spec => NoCommitLost
<1>1. IInv /\ [Next]_vars =>
        [IsPrefix(head, head') /\ IsPrefix(upstream, upstream')]_<<head, upstream>>
  BY StepIInv DEF Grows
<1>. QED
  BY <1>1, IInvHolds, PTL DEF Spec, NoCommitLost

\* What the user is told about commits, pulls and pushes is so, and stays so.
THEOREM AnswersAreTrue == Spec => []AnswersTrue
<1>1. IInv => AnswersTrue
  BY DEF IInv, AnswersTrue, Landed, Reported
<1>. QED
  BY <1>1, IInvHolds, PTL

\* A pull replaces an edited file only when the edit is in some commit of the branch.
THEOREM NoEditIsLost == Spec => NoEditLost
<1>1. IInv /\ [Next]_vars =>
        [\A p \in Paths : work[p] = "mine" /\ work'[p] # "mine" =>
           \E i \in DOMAIN head : head[i].tree[p] = "mine"]_work
  BY EditStaysCommitted, IInvParts
<1>. QED
  BY <1>1, IInvHolds, PTL DEF Spec, NoEditLost

-----------------------------------------------------------------------------
(* Who clears the busy flag                                                *)

Owing(c) == kind[c] \in {"commit", "pull", "push"} /\ phase[c] \notin {"free", "settled"}
Reading  == \E r \in Reads : read[r] # "free"

\* Workers answer nobody.
LEMMA WorkersLeaveBusy ==
  ASSUME Repository, NEW c \in Calls, LocalStep(c) \/ Network(c)
  PROVE  /\ UNCHANGED <<kind, read, busy>>
         /\ phase[c] \notin {"free", "settled"} /\ phase'[c] \notin {"free", "settled"}
         /\ \A d \in Calls \ {c} : phase'[d] = phase[d]
<1>1. UNCHANGED <<kind, read, busy>>
  BY DEF LocalStep, Network, LoadIndex, WriteIndex, CheckStaged, WriteTree, ReadParent,
         CreateCommit, UpToDate, FastForward, MoveBranch, Checkout, Fail, Fetch, Send,
         Refuse, request, gui
<1>2. PICK to \in Phases \ {"free", "settled"} : phase' = [phase EXCEPT ![c] = to]
  BY DEF LocalStep, Network, LoadIndex, WriteIndex, CheckStaged, WriteTree, ReadParent,
         CreateCommit, UpToDate, FastForward, MoveBranch, Checkout, Fail, Fetch, Send,
         Refuse, Step, Phases
<1>3. phase[c] \notin {"free", "settled"}
  BY DEF LocalStep, Network, LoadIndex, WriteIndex, CheckStaged, WriteTree, ReadParent,
         CreateCommit, UpToDate, FastForward, MoveBranch, Checkout, Fail, Fetch, Send,
         Refuse, Step, Waiting
<1>. QED
  BY <1>1, <1>2, <1>3 DEF Repository

\* A refresh is either one more status call, or left to who made the view busy.
LEMMA RefreshOwes ==
  ASSUME Controller, NEW now \in BOOLEAN, RefreshAt(now)
  PROVE  IF now THEN busy' /\ UNCHANGED read ELSE Reading'
BY DEF RefreshAt, Controller, Reading

LEMMA BusyStaysOwed ==
  ASSUME Repository, Controller, BusyIsOwed, [Next]_vars
  PROVE  BusyIsOwed'
<1>t. phase \in [Calls -> Phases] /\ kind \in [Calls -> Kinds \cup {None}] /\ busy \in BOOLEAN
  BY DEF Repository, Controller
<1>o. busy => Reading \/ \E c \in Calls : Owing(c)
  BY DEF BusyIsOwed, Reading, Owing
<1>. SUFFICES ASSUME busy' PROVE Reading' \/ \E c \in Calls : Owing(c)'
  BY DEF BusyIsOwed, Reading, Owing
<1>1. CASE Refresh
  BY <1>1, <1>t, RefreshOwes DEF Refresh
<1>2. ASSUME NEW c \in Calls, NEW k, Queue(c, k), UNCHANGED <<read, busy>>
      PROVE  Reading' \/ \E d \in Calls : Owing(d)'
  <2>1. \A d \in Calls : Owing(d) => d # c
    BY <1>2 DEF Queue, Owing
  <2>2. \A d \in Calls \ {c} : phase'[d] = phase[d] /\ kind'[d] = kind[d]
    BY <1>2, <1>t DEF Queue
  <2>. QED
    BY <1>2, <1>o, <2>1, <2>2 DEF Reading, Owing
<1>3. ASSUME NEW c \in Calls, NEW k \in {"commit", "pull", "push"}, Queue(c, k)
      PROVE  Owing(c)'
  BY <1>3, <1>t DEF Queue, Owing
<1>4. CASE User
  <2>1. ASSUME NEW c \in Calls, NEW p \in Paths, StagePath(c, p) \/ UnstagePath(c, p)
        PROVE  Reading' \/ \E d \in Calls : Owing(d)'
    BY <1>2, <2>1 DEF StagePath, UnstagePath, gui
  <2>2. ASSUME NEW c \in Calls, ConfirmCommit(c) \/ \E k \in Remote : ConfirmRemote(c, k)
        PROVE  Owing(c)'
    BY <1>3, <2>2 DEF ConfirmCommit, ConfirmRemote, Remote
  <2>. QED
    BY <1>1, <1>4, <2>1, <2>2 DEF User
<1>5. ASSUME NEW c \in Calls, LocalStep(c) \/ Network(c)
      PROVE  Reading' \/ \E d \in Calls : Owing(d)'
  <2>1. \A d \in Calls : Owing(d) => Owing(d)'
    BY <1>5, WorkersLeaveBusy DEF Owing
  <2>2. Reading => Reading'
    BY <1>5, WorkersLeaveBusy DEF Reading
  <2>3. busy
    BY <1>5, WorkersLeaveBusy
  <2>. QED
    BY <1>o, <2>1, <2>2, <2>3
<1>6. ASSUME NEW r \in Reads, ReadStatus(r)
      PROVE  Reading'
  BY <1>6 DEF ReadStatus, Reading, Controller
<1>7. ASSUME NEW r \in Reads, OnStatus(r)
      PROVE  FALSE
  BY <1>7 DEF OnStatus
<1>8. ASSUME NEW c \in Calls, OnChanged(c)
      PROVE  Reading' \/ \E d \in Calls : Owing(d)'
  <2>1. RefreshAt(busy) /\ UNCHANGED <<phase, kind>>
    BY <1>8 DEF OnChanged, callvars, request
  <2>2. IF busy THEN busy' /\ UNCHANGED read ELSE Reading'
    BY <1>t, <2>1, RefreshOwes
  <2>. QED
    BY <1>o, <2>1, <2>2 DEF Reading, Owing
<1>9. ASSUME NEW c \in Calls, OnAnswer(c)
      PROVE  Reading' \/ \E d \in Calls : Owing(d)'
  <2>. DEFINE now == busy /\ kind[c] \in {"stage", "unstage"}
  <2>1. /\ UNCHANGED kind /\ phase' = [phase EXCEPT ![c] = "settled"]
        /\ IF ok[c] THEN RefreshAt(now) ELSE busy' = now /\ UNCHANGED read
    BY <1>9 DEF OnAnswer, Step, request
  <2>2. now \in BOOLEAN
    BY <1>t
  <2>. HIDE DEF now
  <2>3. Reading' \/ (now /\ UNCHANGED read)
    BY <2>1, <2>2, RefreshOwes
  <2>4. ASSUME now, UNCHANGED read
        PROVE  Reading' \/ \E d \in Calls : Owing(d)'
    <3>1. busy /\ ~Owing(c)
      BY <2>4 DEF now, Owing
    <3>2. \A d \in Calls \ {c} : Owing(d) => Owing(d)'
      BY <1>t, <2>1 DEF Owing
    <3>. QED
      BY <1>o, <2>4, <3>1, <3>2 DEF Reading
  <2>. QED
    BY <2>3, <2>4
<1>10. CASE Outside \/ UNCHANGED vars
  <2>1. UNCHANGED <<phase, kind, read, busy>>
    BY <1>10 DEF Outside, EditFile, PushElsewhere, vars, callvars, request, gui
  <2>. QED
    BY <1>o, <2>1 DEF Reading, Owing
<1>. QED
  BY <1>4, <1>5, <1>6, <1>7, <1>8, <1>9, <1>10 DEF Next, EventLoop

\* BusyIsOwed: no answer is needed that nobody is going to give
\* (git_controller.cpp; what keeps a view busy is a call or a status read).
THEOREM BusyAlwaysOwed == Spec => []BusyIsOwed
<1>1. Init => BusyIsOwed
  BY DEF Init, BusyIsOwed
<1>2. IInv /\ BusyIsOwed /\ [Next]_vars => BusyIsOwed'
  BY IInvParts, BusyStaysOwed
<1>. QED
  BY <1>1, <1>2, IInvHolds, PTL DEF Spec

-----------------------------------------------------------------------------
(* Git implements AtomicGit                                                *)

Succeeded(k) == {c \in Calls : kind[c] = k /\ ok[c]}

\* What AtomicGit sees.
Visible ==
  <<head, upstream, fetched, Succeeded("commit"), Succeeded("pull"), Succeeded("push")>>

LEMMA VisibleIsAtomic ==
  /\ Atomic!vars = Visible
  /\ Atomic!vars' = Visible'
BY DEF Atomic!vars, Visible, Succeeded

\* A call that fits is handed over with ok FALSE, so no set changes.
LEMMA NoneSucceeds ==
  ASSUME Repository, ok' = ok, \A c \in Calls : ok[c] => kind'[c] = kind[c]
  PROVE  \A k \in Kinds : Succeeded(k)' = Succeeded(k)
BY DEF Succeeded, Repository

LEMMA OneSucceeds ==
  ASSUME Repository, NEW c \in Calls, ~ok[c], ok' = [ok EXCEPT ![c] = TRUE], kind' = kind
  PROVE  /\ Succeeded(kind[c])' = Succeeded(kind[c]) \cup {c} /\ c \notin Succeeded(kind[c])
         /\ \A k \in Kinds \ {kind[c]} : Succeeded(k)' = Succeeded(k)
BY DEF Succeeded, Repository

LEMMA PrefixIsOne ==
  ASSUME NEW s \in Branches, NEW t \in Branches, IsPrefix(s, t)
  PROVE  s \in Atomic!Prefixes(t) /\ Atomic!IsPrefix(s, t)
<1>1. Len(s) \in 0 .. Len(t) /\ s = SubSeq(t, 1, Len(s))
  BY PrefixByElements DEF Branches, IsPrefix
<1>. QED
  BY <1>1 DEF Atomic!Prefixes, Atomic!IsPrefix, IsPrefix

\* The steps that AtomicGit does not see.
LEMMA HiddenSteps ==
  ASSUME Repository, [Next]_vars,
         \A c \in Calls : ~(Fetch(c) \/ MoveBranch(c) \/ CreateCommit(c) \/ UpToDate(c)
                            \/ Checkout(c) \/ Send(c)),
         \A p \in Paths : ~PushElsewhere(p)
  PROVE  UNCHANGED Visible
<1>1. ASSUME UNCHANGED <<head, upstream, fetched, ok>>,
             \A c \in Calls : ok[c] => kind'[c] = kind[c]
      PROVE  UNCHANGED Visible
  BY <1>1, NoneSucceeds DEF Visible, Kinds
<1>2. CASE User
  <2>1. CASE Refresh
    BY <1>1, <2>1 DEF Refresh, repo, callvars, request, scratch
  <2>2. ASSUME NEW c \in Calls, NEW k, Queue(c, k), UNCHANGED repo
        PROVE  UNCHANGED Visible
    <3>1. phase[c] = "free" /\ ~ok[c]
      BY <2>2 DEF Queue, Repository, Fits
    <3>. QED
      BY <1>1, <2>2, <3>1 DEF Queue, Repository, repo, scratch
  <2>. QED
    BY <1>2, <2>1, <2>2, Zenon DEF User, StagePath, UnstagePath, ConfirmCommit, ConfirmRemote
<1>3. ASSUME NEW c \in Calls, LocalStep(c) \/ Network(c)
      PROVE  UNCHANGED Visible
  <2>1. CASE WriteIndex(c)
    <3>1. kind[c] \in {"stage", "unstage"} /\ ~ok[c]
      BY <2>1 DEF WriteIndex, Step, Repository, Fits
    <3>2. /\ UNCHANGED <<head, upstream, fetched, kind>>
          /\ ok' = [ok EXCEPT ![c] = TRUE]
      BY <2>1 DEF WriteIndex, Succeed, request, scratch
    <3>. QED
      BY <3>1, <3>2, OneSucceeds DEF Visible, Kinds
  <2>2. CASE ~WriteIndex(c)
    <3>1. LoadIndex(c) \/ CheckStaged(c) \/ WriteTree(c) \/ ReadParent(c) \/ FastForward(c)
          \/ Fail(c) \/ Refuse(c)
      BY <1>3, <2>2, Zenon DEF LocalStep, Network
    <3>2. UNCHANGED <<head, upstream, fetched, ok, kind>>
      BY <3>1 DEF LoadIndex, CheckStaged, WriteTree, ReadParent, FastForward, Fail, Refuse,
                  repo, request, scratch
    <3>. QED
      BY <1>1, <3>2
  <2>. QED BY <2>1, <2>2
<1>4. CASE (\E r \in Reads : ReadStatus(r)) \/ EventLoop \/ UNCHANGED vars
  <2>1. UNCHANGED <<head, upstream, fetched, ok, kind>>
    BY <1>4 DEF EventLoop, ReadStatus, OnStatus, OnChanged, OnAnswer, vars, repo, callvars,
                request, scratch
  <2>. QED BY <1>1, <2>1
<1>5. ASSUME NEW p \in Paths, EditFile(p)
      PROVE  UNCHANGED Visible
  BY <1>1, <1>5 DEF EditFile, callvars, request, scratch
<1>. QED
  BY <1>2, <1>3, <1>4, <1>5, Zenon DEF Next, Outside

\* The steps in which calls take effect, one by one.
LEMMA AtomicSteps ==
  ASSUME Repository, Repository', NEW c \in Calls,
         Fetch(c) \/ MoveBranch(c) \/ CreateCommit(c) \/ UpToDate(c) \/ Checkout(c) \/ Send(c)
  PROVE  Atomic!Next
<1>. USE DEF Succeed, Step, Succeeded
<1>1. CASE Fetch(c)
  <2>1. /\ UNCHANGED <<head, upstream, kind, ok>> /\ fetched[c] = <<>>
        /\ fetched' = [fetched EXCEPT ![c] = upstream]
    BY <1>1 DEF Fetch, request, Repository, Landed
  <2>2. Atomic!Fetches(c)
    BY <2>1 DEF Atomic!Fetches
  <2>. QED BY <2>2 DEF Atomic!Next
<1>2. CASE MoveBranch(c)
  <2>1. /\ UNCHANGED <<upstream, fetched, kind, ok>> /\ head' = goal[c] /\ head = seen[c]
        /\ goal[c] \in Branches /\ upstream \in Branches /\ seen[c] \in Branches
        /\ IsPrefix(seen[c], goal[c]) /\ IsPrefix(goal[c], upstream)
    BY <1>2 DEF MoveBranch, request, scratch, Repository, Landed
  <2>2. head' \in Atomic!Prefixes(upstream) /\ Atomic!IsPrefix(head, head')
    BY <2>1, PrefixIsOne
  <2>3. \A k : Succeeded(k)' = Succeeded(k)
    BY <2>1
  <2>4. /\ Succeeded("commit")' = Succeeded("commit") /\ Succeeded("pull")' = Succeeded("pull")
        /\ Succeeded("push")' = Succeeded("push")
    BY <2>3
  <2>5. Atomic!MovesForward
    BY <2>1, <2>2, <2>4, Zenon DEF Atomic!MovesForward
  <2>. QED BY <2>5 DEF Atomic!Next
<1>3. ASSUME NEW k \in Kinds, kind[c] = k, ~ok[c], ok' = [ok EXCEPT ![c] = TRUE], kind' = kind
      PROVE  /\ c \notin Succeeded(k) /\ Succeeded(k)' = Succeeded(k) \cup {c}
             /\ \A l \in Kinds \ {k} : Succeeded(l)' = Succeeded(l)
  BY <1>3, OneSucceeds
<1>4. CASE CreateCommit(c)
  <2>1. /\ UNCHANGED <<upstream, fetched, kind>> /\ ok' = [ok EXCEPT ![c] = TRUE]
        /\ head' = Append(head, [by |-> c, tree |-> tree[c]]) /\ tree[c] \in Trees
        /\ kind[c] = "commit" /\ ~ok[c]
    BY <1>4 DEF CreateCommit, request, scratch, Repository, Fits
  <2>2. Atomic!Commits(c)
    BY <1>3, <2>1 DEF Atomic!Commits, Atomic!Commit, Kinds
  <2>. QED BY <2>2 DEF Atomic!Next
<1>5. CASE UpToDate(c) \/ Checkout(c)
  <2>1. /\ UNCHANGED <<head, upstream, fetched, kind>> /\ ok' = [ok EXCEPT ![c] = TRUE]
        /\ kind[c] = "pull" /\ ~ok[c]
    BY <1>5 DEF UpToDate, Checkout, repo, request, scratch, Repository, Fits
  <2>2. fetched[c] # <<>> /\ Atomic!IsPrefix(fetched[c], head)
    <3>1. fetched[c] # <<>> /\ IsPrefix(fetched[c], head)
      BY <2>1 DEF Repository, Landed
    <3>2. fetched[c] \in Branches /\ head \in Branches
      BY <3>1 DEF Repository, Branches
    <3>. QED BY <3>1, <3>2, PrefixIsOne
  <2>3. /\ c \notin Succeeded("pull") /\ Succeeded("pull")' = Succeeded("pull") \cup {c}
        /\ Succeeded("commit")' = Succeeded("commit") /\ Succeeded("push")' = Succeeded("push")
    BY <1>3, <2>1 DEF Kinds
  <2>4. Atomic!Pulls(c)
    BY <2>1, <2>2, <2>3, Zenon DEF Atomic!Pulls
  <2>. QED BY <2>4 DEF Atomic!Next
<1>6. CASE Send(c)
  <2>1. /\ UNCHANGED <<head, fetched, kind>> /\ ok' = [ok EXCEPT ![c] = TRUE]
        /\ upstream' = head /\ Atomic!IsPrefix(upstream, head)
        /\ kind[c] = "push" /\ ~ok[c]
    BY <1>6, PrefixIsOne DEF Send, request, Repository, Fits
  <2>2. /\ c \notin Succeeded("push") /\ Succeeded("push")' = Succeeded("push") \cup {c}
        /\ Succeeded("commit")' = Succeeded("commit") /\ Succeeded("pull")' = Succeeded("pull")
    BY <1>3, <2>1 DEF Kinds
  <2>3. Atomic!Pushes(c)
    BY <2>1, <2>2, Zenon DEF Atomic!Pushes
  <2>. QED BY <2>3 DEF Atomic!Next
<1>. QED
  BY <1>1, <1>2, <1>4, <1>5, <1>6

\* AtomicBranches: the branches change as if commits, pulls and pushes came one at
\* a time, each at most once (git_service.cpp: commit, pull and push).
THEOREM Refinement == Spec => AtomicBranches
<1>1. Init => Atomic!Init
  <2>. SUFFICES ASSUME Init PROVE Atomic!Init
    OBVIOUS
  <2>1. AllBase \in Trees
    BY DEF AllBase, Trees, Contents
  <2>2. \A c \in Calls : ~ok[c]
    BY DEF Init
  <2>. QED
    BY <2>1, <2>2 DEF Init, Atomic!Init, Atomic!Commit
<1>2. IInv /\ IInv' /\ [Next]_vars => [Atomic!Next]_(Atomic!vars)
  <2>. SUFFICES ASSUME Repository, Repository', [Next]_vars
                PROVE  Atomic!Next \/ UNCHANGED Visible
    BY IInvParts, VisibleIsAtomic
  <2>1. ASSUME NEW c \in Calls,
               Fetch(c) \/ MoveBranch(c) \/ CreateCommit(c) \/ UpToDate(c) \/ Checkout(c) \/ Send(c)
        PROVE  Atomic!Next
    BY <2>1, AtomicSteps
  <2>2. ASSUME NEW p \in Paths, PushElsewhere(p)
        PROVE  Atomic!Next
    <3>. DEFINE new == [TipTree(upstream) EXCEPT ![p] = "theirs"]
    <3>1. /\ UNCHANGED <<head, fetched, ok, kind>>
          /\ upstream' = Append(upstream, [by |-> Other, tree |-> new])
      BY <2>2 DEF PushElsewhere, callvars, request, scratch
    <3>2. new \in Trees
      BY TipTreeType DEF Repository, Trees, Contents
    <3>3. Atomic!OthersPush
      BY <3>1, <3>2 DEF Atomic!OthersPush, Atomic!Commit
    <3>. QED BY <3>3 DEF Atomic!Next
  <2>. QED
    BY <2>1, <2>2, HiddenSteps
<1>. QED
  BY <1>1, <1>2, IInvHolds, PTL DEF Spec, AtomicBranches, Atomic!Spec
=============================================================================
