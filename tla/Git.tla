-------------------------------- MODULE Git --------------------------------
(***************************************************************************)
(* GitController and GitService over one repository.  Stage, unstage,      *)
(* commit, pull and push run on pool workers and share the repository      *)
(* without a mutex; each opens it anew, so it reads the index or the       *)
(* branch in one step and uses what it read in a later one.  The           *)
(* controller has one busy flag for its refreshes and its confirmed calls, *)
(* and every answer of either clears it.                                   *)
(*                                                                         *)
(* A file's content is what distinguishes it: as in the first commit, as   *)
(* edited here, as changed upstream.  A branch is the sequence of its      *)
(* commits.  libgit2 is external: it moves a reference only from the       *)
(* commit the caller read, accepts a new commit only on top of the tip,    *)
(* and a safe checkout may write clean files only.                         *)
(***************************************************************************)
EXTENDS Naturals, Sequences, SequencesExt

CONSTANTS
  Paths,      \* tracked files
  Calls,      \* calls the user may make, each used once
  MaxReads,   \* bound: status calls in flight; enough: one more than Calls
  MaxOthers,  \* bound: commits that other people push
  Other,      \* author of the commits made elsewhere
  None        \* no answer, no path

Reads    == 1 .. MaxReads
Contents == {"base", "mine", "theirs"}
Trees    == [Paths -> Contents]
Commits  == [by : Calls \cup {Other}, tree : Trees]
States   == {"clean", "changed", "staged"}
Kinds    == {"stage", "unstage", "commit", "pull", "push"}
Remote   == {"pull", "push"}

ASSUME GitAssumption ==
  /\ Other \notin Calls
  /\ None \notin [Paths -> States]
  /\ MaxOthers \in Nat /\ MaxReads \in Nat

VARIABLES
  work,      \* the files
  index,     \* the index file
  head,      \* the local branch
  tracked,   \* the remote-tracking branch
  upstream,  \* the branch on the server
  phase,     \* per call: how far its worker is
  kind,
  path,      \* per call: the path to stage or unstage
  declared,  \* per call: the paths a commit was confirmed for
  tree,      \* per call: its private index, or the tree it wrote
  seen,      \* per call: the branch as it read it
  goal,      \* per call: the commit a pull moves the branch to
  fetched,   \* history, per call: the branch on the server when a pull fetched it
  ok,        \* per call: its Result holds a value
  changed,   \* calls whose repoChanged is queued for the controller
  read,      \* per status call: free, queued, returned
  answer,    \* per status call: what it found
  busy,      \* GitController::busy_
  shown      \* files_ of the controller

repo     == <<work, index, head, tracked, upstream>>
request  == <<kind, path, declared>>
scratch  == <<tree, seen, goal, fetched>>
callvars == <<phase, request, scratch, ok>>
gui      == <<read, answer, busy, shown>>
vars     == <<repo, callvars, changed, gui>>

TipTree(branch) == Last(branch).tree
AllBase == [p \in Paths |-> "base"]

\* An entry of repositoryStatus: `staged` wins where both differ.
StatusOf(p) ==
  CASE index[p] # TipTree(head)[p] -> "staged"
    [] index[p] = TipTree(head)[p] /\ work[p] # index[p] -> "changed"
    [] OTHER -> "clean"

Status == [p \in Paths |-> StatusOf(p)]

StagedIn(status) == {p \in Paths : status[p] = "staged"}

-----------------------------------------------------------------------------
Init ==
  /\ work \in [Paths -> {"base", "mine"}]
  /\ index \in [Paths -> {"base", "mine"}]
  /\ head = <<[by |-> Other, tree |-> AllBase]>>
  /\ tracked = head
  /\ upstream = head
  /\ phase = [c \in Calls |-> "free"]
  /\ kind = [c \in Calls |-> None]
  /\ path = [c \in Calls |-> None]
  /\ declared = [c \in Calls |-> {}]
  /\ tree = [c \in Calls |-> AllBase]
  /\ seen = [c \in Calls |-> head]
  /\ goal = [c \in Calls |-> head]
  /\ fetched = [c \in Calls |-> <<>>]
  /\ ok = [c \in Calls |-> FALSE]
  /\ changed = {}
  /\ read = [r \in Reads |-> "free"]
  /\ answer = [r \in Reads |-> None]
  /\ busy = FALSE
  /\ shown = [p \in Paths |-> "clean"]

-----------------------------------------------------------------------------
(* GUI thread: what QML invokes                                            *)

\* refresh() when busy_ is `now`: nothing while busy.
RefreshAt(now) ==
  IF now THEN busy' = now /\ UNCHANGED read
  ELSE \E r \in Reads : /\ read[r] = "free"
                        /\ \A s \in 1 .. r - 1 : read[s] # "free"
                        /\ read' = [read EXCEPT ![r] = "queued"]
                        /\ busy' = TRUE

Refresh ==
  /\ ~busy
  /\ RefreshAt(busy)
  /\ UNCHANGED <<repo, callvars, changed, answer, shown>>

\* async::run hands call c to the pool.
Queue(c, k) ==
  /\ phase[c] = "free"
  /\ phase' = [phase EXCEPT ![c] = "queued"]
  /\ kind' = [kind EXCEPT ![c] = k]
  /\ UNCHANGED <<scratch, ok>>

\* A click on a listed file, whether or not the controller is busy.
StagePath(c, p) ==
  /\ shown[p] = "changed"
  /\ Queue(c, "stage")
  /\ path' = [path EXCEPT ![c] = p]
  /\ UNCHANGED <<repo, declared, changed, gui>>

UnstagePath(c, p) ==
  /\ shown[p] = "staged"
  /\ Queue(c, "unstage")
  /\ path' = [path EXCEPT ![c] = p]
  /\ UNCHANGED <<repo, declared, changed, gui>>

\* commit(), pull() and push() only ask for confirmation.  The declared set is what
\* the list shows now.  Fail covers a commit without a message.
ConfirmCommit(c) ==
  /\ Queue(c, "commit")
  /\ declared' = [declared EXCEPT ![c] = StagedIn(shown)]
  /\ busy' = TRUE
  /\ UNCHANGED <<repo, path, changed, read, answer, shown>>

ConfirmRemote(c, k) ==
  /\ Queue(c, k)
  /\ busy' = TRUE
  /\ UNCHANGED <<repo, path, declared, changed, read, answer, shown>>

-----------------------------------------------------------------------------
(* Pool workers: stage and unstage                                         *)

Step(c, from, to) ==
  /\ phase[c] = from
  /\ phase' = [phase EXCEPT ![c] = to]

\* The worker returns a value; repoChanged is queued before its answer.
Succeed(c) ==
  /\ ok' = [ok EXCEPT ![c] = TRUE]
  /\ changed' = changed \cup {c}

\* Read the index, then git_index_add_bypath or git_reset_default on the copy.
LoadIndex(c) ==
  /\ kind[c] \in {"stage", "unstage"}
  /\ Step(c, "queued", "loaded")
  /\ LET entry == IF kind[c] = "stage" THEN work[path[c]]
                                       ELSE TipTree(head)[path[c]]
     IN  tree' = [tree EXCEPT ![c] = [index EXCEPT ![path[c]] = entry]]
  /\ UNCHANGED <<repo, request, seen, goal, fetched, ok, changed, gui>>

\* git_index_write replaces the whole file.
WriteIndex(c) ==
  /\ Step(c, "loaded", "returned")
  /\ index' = tree[c]
  /\ Succeed(c)
  /\ UNCHANGED <<work, head, tracked, upstream, request, scratch, gui>>

-----------------------------------------------------------------------------
(* Pool workers: commit                                                    *)

\* The paths staged now are the declared ones.
CheckStaged(c) ==
  /\ kind[c] = "commit"
  /\ declared[c] # {}
  /\ declared[c] = StagedIn(Status)
  /\ Step(c, "queued", "checked")
  /\ UNCHANGED <<repo, request, scratch, ok, changed, gui>>

WriteTree(c) ==
  /\ Step(c, "checked", "written")
  /\ tree' = [tree EXCEPT ![c] = index]
  /\ UNCHANGED <<repo, request, seen, goal, fetched, ok, changed, gui>>

ReadParent(c) ==
  /\ Step(c, "written", "parented")
  /\ seen' = [seen EXCEPT ![c] = head]
  /\ UNCHANGED <<repo, request, tree, goal, fetched, ok, changed, gui>>

\* Mutant: the code of git_commit_create is not looked at.
CreateCommitUnchecked(c) ==
  /\ Step(c, "parented", "returned")
  /\ head' = IF head = seen[c] THEN Append(head, [by |-> c, tree |-> tree[c]])
             ELSE head
  /\ Succeed(c)
  /\ UNCHANGED <<work, index, tracked, upstream, request, scratch, gui>>

\* git_commit_create: the parent has to be the tip still.
CreateCommit(c) ==
  /\ Step(c, "parented", "returned")
  /\ head = seen[c]
  /\ head' = Append(head, [by |-> c, tree |-> tree[c]])
  /\ Succeed(c)
  /\ UNCHANGED <<work, index, tracked, upstream, request, scratch, gui>>

-----------------------------------------------------------------------------
(* Pool workers: pull and push                                             *)

Waiting(c) == phase[c] = "queued" /\ kind[c] \in Remote

\* The credential was read and the server answered the fetch.
Fetch(c) ==
  /\ kind[c] = "pull"
  /\ Step(c, "queued", "fetched")
  /\ tracked' = upstream
  /\ fetched' = [fetched EXCEPT ![c] = upstream]
  /\ UNCHANGED <<work, index, head, upstream, request, tree, seen, goal, ok, changed, gui>>

\* git_merge_analysis of the branch and its upstream: nothing to do.
UpToDate(c) ==
  /\ Step(c, "fetched", "returned")
  /\ seen' = [seen EXCEPT ![c] = head]
  /\ goal' = [goal EXCEPT ![c] = tracked]
  /\ IsPrefix(tracked, head)
  /\ Succeed(c)
  /\ UNCHANGED <<repo, request, tree, fetched, gui>>

\* A fast-forward is possible.  Diverged branches are a GitConflict, see Fail.
FastForward(c) ==
  /\ Step(c, "fetched", "aimed")
  /\ seen' = [seen EXCEPT ![c] = head]
  /\ goal' = [goal EXCEPT ![c] = tracked]
  /\ ~IsPrefix(tracked, head)
  /\ IsPrefix(head, tracked)
  /\ UNCHANGED <<repo, request, tree, fetched, ok, changed, gui>>

\* Mutant: the branch is set by force.
MoveBranchForced(c) ==
  /\ Step(c, "aimed", "moved")
  /\ head' = goal[c]
  /\ UNCHANGED <<work, index, tracked, upstream, request, scratch, ok, changed, gui>>

\* git_reference_set_target moves the branch it read, before the checkout.
MoveBranch(c) ==
  /\ Step(c, "aimed", "moved")
  /\ head = seen[c]
  /\ head' = goal[c]
  /\ UNCHANGED <<work, index, tracked, upstream, request, scratch, ok, changed, gui>>

CleanSince(branch, p) == index[p] = TipTree(branch)[p] /\ work[p] = index[p]

\* Mutant: GIT_CHECKOUT_FORCE.
CheckoutForced(c) ==
  /\ Step(c, "moved", "returned")
  /\ work' = TipTree(head)
  /\ index' = TipTree(head)
  /\ Succeed(c)
  /\ UNCHANGED <<head, tracked, upstream, request, scratch, gui>>

\* GIT_CHECKOUT_SAFE: any clean files, none of the others.
Checkout(c) ==
  /\ Step(c, "moved", "returned")
  /\ \E written \in SUBSET {p \in Paths : CleanSince(seen[c], p)} :
       LET over(files) ==
             [p \in Paths |-> IF p \in written THEN TipTree(head)[p] ELSE files[p]]
       IN  work' = over(work) /\ index' = over(index)
  /\ Succeed(c)
  /\ UNCHANGED <<head, tracked, upstream, request, scratch, gui>>

\* The refspec has no `+`: the server refuses what is not a fast-forward.
Send(c) ==
  /\ kind[c] = "push"
  /\ Step(c, "queued", "returned")
  /\ IsPrefix(upstream, head)
  /\ upstream' = head
  /\ tracked' = head
  /\ seen' = [seen EXCEPT ![c] = head]
  /\ Succeed(c)
  /\ UNCHANGED <<work, index, head, request, tree, goal, fetched, gui>>

\* No credential, or the server refused.
Refuse(c) ==
  /\ Waiting(c)
  /\ phase' = [phase EXCEPT ![c] = "returned"]
  /\ UNCHANGED <<repo, request, scratch, ok, changed, gui>>

\* Any early return with an error, the failed checkout after MoveBranch included.
Fail(c) ==
  /\ phase[c] \notin {"free", "returned", "settled"}
  /\ ~Waiting(c)
  /\ phase' = [phase EXCEPT ![c] = "returned"]
  /\ UNCHANGED <<repo, request, scratch, ok, changed, gui>>

\* repositoryStatus.
ReadStatus(r) ==
  /\ read[r] = "queued"
  /\ read' = [read EXCEPT ![r] = "returned"]
  /\ answer' = [answer EXCEPT ![r] = Status]
  /\ UNCHANGED <<repo, callvars, changed, busy, shown>>

-----------------------------------------------------------------------------
(* GUI thread: signals and continuations                                   *)

OnChanged(c) ==
  /\ c \in changed
  /\ changed' = changed \ {c}
  /\ RefreshAt(busy)
  /\ UNCHANGED <<repo, callvars, answer, shown>>

\* Mutant: no answer to a call that failed.
OnAnswerSilent(c) ==
  /\ c \notin changed
  /\ ok[c]
  /\ Step(c, "returned", "settled")
  /\ RefreshAt(busy /\ kind[c] \in {"stage", "unstage"})
  /\ UNCHANGED <<repo, request, scratch, ok, changed, answer, shown>>

\* Only the confirmed calls own the busy flag.
OnAnswer(c) ==
  /\ c \notin changed
  /\ Step(c, "returned", "settled")
  /\ LET now == busy /\ kind[c] \in {"stage", "unstage"}
     IN  IF ok[c] THEN RefreshAt(now) ELSE busy' = now /\ UNCHANGED read
  /\ UNCHANGED <<repo, request, scratch, ok, changed, answer, shown>>

\* Mutant: an error returns before the flag is cleared.
OnStatusStuck(r) ==
  /\ read[r] = "returned"
  /\ read' = [read EXCEPT ![r] = "free"]
  /\ \/ busy' = FALSE /\ shown' = answer[r]
     \/ UNCHANGED <<busy, shown>>
  /\ answer' = [answer EXCEPT ![r] = None]
  /\ UNCHANGED <<repo, callvars, changed>>

\* Mutant: a failed Result is dereferenced.
OnStatusUnchecked(r) ==
  /\ read[r] = "returned"
  /\ read' = [read EXCEPT ![r] = "free"]
  /\ busy' = FALSE
  /\ shown' \in {None, answer[r]}
  /\ answer' = [answer EXCEPT ![r] = None]
  /\ UNCHANGED <<repo, callvars, changed>>

\* An error leaves the list as it is.
OnStatus(r) ==
  /\ read[r] = "returned"
  /\ read' = [read EXCEPT ![r] = "free"]
  /\ busy' = FALSE
  /\ shown' \in {shown, answer[r]}
  /\ answer' = [answer EXCEPT ![r] = None]
  /\ UNCHANGED <<repo, callvars, changed>>

-----------------------------------------------------------------------------
(* Other programs and other people                                         *)

EditFile(p) ==
  /\ work[p] # "mine"
  /\ work' = [work EXCEPT ![p] = "mine"]
  /\ UNCHANGED <<index, head, tracked, upstream, callvars, changed, gui>>

PushElsewhere(p) ==
  /\ Len(SelectSeq(upstream, LAMBDA commit : commit.by = Other)) <= MaxOthers
  /\ upstream' = Append(upstream,
       [by |-> Other, tree |-> [TipTree(upstream) EXCEPT ![p] = "theirs"]])
  /\ UNCHANGED <<work, index, head, tracked, callvars, changed, gui>>

-----------------------------------------------------------------------------
User ==
  \/ Refresh
  \/ \E c \in Calls : \/ \E p \in Paths : StagePath(c, p) \/ UnstagePath(c, p)
                      \/ ConfirmCommit(c)
                      \/ \E k \in Remote : ConfirmRemote(c, k)

LocalStep(c) ==
  \/ LoadIndex(c)
  \/ WriteIndex(c)
  \/ CheckStaged(c)
  \/ WriteTree(c)
  \/ ReadParent(c)
  \/ CreateCommit(c)
  \/ UpToDate(c)
  \/ FastForward(c)
  \/ MoveBranch(c)
  \/ Checkout(c)
  \/ Fail(c)

Network(c) == Fetch(c) \/ Send(c) \/ Refuse(c)

EventLoop ==
  \/ \E c \in Calls : OnChanged(c) \/ OnAnswer(c)
  \/ \E r \in Reads : OnStatus(r)

Outside == \E p \in Paths : EditFile(p) \/ PushElsewhere(p)

Next ==
  \/ User
  \/ \E c \in Calls : LocalStep(c) \/ Network(c)
  \/ \E r \in Reads : ReadStatus(r)
  \/ EventLoop
  \/ Outside

Spec == Init /\ [][Next]_vars

\* The pool and the event loop go on.  The keychain and the server owe nothing:
\* GitService sets no deadline for a fetch or a push.
Fairness ==
  /\ \A c \in Calls : WF_vars(LocalStep(c) \/ OnChanged(c) \/ OnAnswer(c))
  /\ \A r \in Reads : WF_vars(ReadStatus(r) \/ OnStatus(r))

FairSpec == Spec /\ Fairness

-----------------------------------------------------------------------------
Phases == {"free", "queued", "loaded", "checked", "written", "parented",
           "fetched", "aimed", "moved", "returned", "settled"}

TypeOK ==
  /\ work \in Trees /\ index \in Trees
  /\ {head, tracked, upstream} \subseteq Seq(Commits) \ {<<>>}
  /\ phase \in [Calls -> Phases]
  /\ kind \in [Calls -> Kinds \cup {None}]
  /\ path \in [Calls -> Paths \cup {None}]
  /\ declared \in [Calls -> SUBSET Paths]
  /\ tree \in [Calls -> Trees]
  /\ seen \in [Calls -> Seq(Commits) \ {<<>>}]
  /\ goal \in [Calls -> Seq(Commits) \ {<<>>}]
  /\ fetched \in [Calls -> Seq(Commits)]
  /\ ok \in [Calls -> BOOLEAN]
  /\ changed \subseteq Calls
  /\ read \in [Reads -> {"free", "queued", "returned"}]
  /\ answer \in [Reads -> [Paths -> States] \cup {None}]
  /\ busy \in BOOLEAN
  /\ shown \in [Paths -> States]

\* The local branch and the server's change as if commits, pulls and pushes came
\* one at a time, each taking effect at most once and when it succeeds
\* (git_service.cpp: commit, pull and push, which share no mutex).
Atomic == INSTANCE AtomicGit WITH
  branch <- head,
  server <- upstream,
  committed <- {c \in Calls : kind[c] = "commit" /\ ok[c]},
  pulled <- {c \in Calls : kind[c] = "pull" /\ ok[c]},
  pushed <- {c \in Calls : kind[c] = "push" /\ ok[c]}
AtomicBranches == Atomic!Spec

\* So neither branch ever loses a commit.
NoCommitLost ==
  [][IsPrefix(head, head') /\ IsPrefix(upstream, upstream')]_<<head, upstream>>

\* An edit of a file is replaced only once some commit of the branch has it
\* (git_service.cpp pull checks out with GIT_CHECKOUT_SAFE).
NoEditLost ==
  [][\A p \in Paths : work[p] = "mine" /\ work'[p] # "mine" =>
       \E i \in DOMAIN head : head[i].tree[p] = "mine"]_work

\* The user is told the truth: a commit is on the branch exactly if it was
\* reported, a successful pull has brought in what it fetched, a successful push
\* has delivered the branch it read.
AnswersTrue ==
  \A c \in Calls : phase[c] = "settled" =>
    /\ kind[c] = "commit" => (ok[c] <=> \E i \in DOMAIN head : head[i].by = c)
    /\ kind[c] = "pull" /\ ok[c] => IsPrefix(fetched[c], head)
    /\ kind[c] = "push" /\ ok[c] => IsPrefix(seen[c], upstream)

\* What makes these inductive: a worker's stage fits its call; a branch, wherever it
\* was read, only has commits that were reported; the tracking branch is behind the
\* server; and what a pull has fetched, where it is going and where it comes from
\* are in order.
Reported(branch) ==
  \A i \in DOMAIN branch : branch[i].by \in Calls =>
    kind[branch[i].by] = "commit" /\ ok[branch[i].by]

Fits(c) ==
  /\ ok[c] => phase[c] \in {"returned", "settled"}
  /\ phase[c] # "free" /\ kind[c] \in {"stage", "unstage"} => path[c] \in Paths
  /\ phase[c] = "loaded" => kind[c] \in {"stage", "unstage"}
  /\ phase[c] \in {"checked", "written", "parented"} => kind[c] = "commit"
  /\ phase[c] \in {"fetched", "aimed", "moved"} => kind[c] = "pull"

Landed(c) ==
  /\ kind[c] = "commit" /\ ok[c] => \E i \in DOMAIN head : head[i].by = c
  /\ phase[c] \in {"free", "queued"} => fetched[c] = <<>>
  /\ phase[c] \in {"fetched", "aimed", "moved"} => fetched[c] # <<>>
  /\ phase[c] = "fetched" => IsPrefix(fetched[c], tracked)
  /\ phase[c] = "aimed" =>
       /\ IsPrefix(seen[c], goal[c]) /\ IsPrefix(fetched[c], goal[c])
       /\ IsPrefix(goal[c], upstream)
  /\ phase[c] = "moved" => IsPrefix(seen[c], head) /\ IsPrefix(fetched[c], head)
  /\ kind[c] = "pull" /\ ok[c] => fetched[c] # <<>> /\ IsPrefix(fetched[c], head)
  /\ kind[c] = "push" /\ ok[c] => IsPrefix(seen[c], upstream)

IInv ==
  /\ TypeOK
  /\ \A r \in Reads : read[r] = "returned" => answer[r] # None
  /\ Reported(head) /\ Reported(tracked) /\ Reported(upstream)
  /\ IsPrefix(tracked, upstream)
  /\ \A c \in Calls :
       Fits(c) /\ Landed(c) /\ Reported(seen[c]) /\ Reported(goal[c])

\* A commit changes only what the user confirmed: the staged set is compared with
\* the declared one first (git_service.cpp commit).
CommitsOnlyDeclared ==
  \A i \in 2 .. Len(head) : head[i].by \in Calls =>
    {p \in Paths : head[i].tree[p] # head[i - 1].tree[p]} \subseteq
      declared[head[i].by]

\* The busy flag always has somebody to clear it: a status call, or a confirmed call
\* that has not been answered (git_controller.cpp: of the answers, only those of
\* stage and unstage leave it as it is).
BusyIsOwed ==
  busy => \/ \E r \in Reads : read[r] # "free"
          \/ \E c \in Calls : /\ kind[c] \in {"commit", "pull", "push"}
                            /\ phase[c] \notin {"free", "settled"}

\* A click that needs no server is answered, whatever the others wait for.
LocalCallsSettle ==
  \A c \in Calls :
    phase[c] = "queued" /\ kind[c] \notin Remote ~> phase[c] = "settled"

\* The view is not left busy, unless a server does not answer.
BusyEnds == busy ~> ~busy \/ \E c \in Calls : Waiting(c)
=============================================================================
