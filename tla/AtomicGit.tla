------------------------------ MODULE AtomicGit ------------------------------
(***************************************************************************)
(* What GitService promises about the local branch and the server's: they  *)
(* change as if commits, pulls and pushes came one at a time.  A commit    *)
(* puts one commit on the tip, a push delivers the whole branch, and each  *)
(* does so in the moment it succeeds and at most once; a pull moves the    *)
(* branch forward to something the server has, and succeeds only with all  *)
(* of what the server had when it asked.  A pull may move the branch and   *)
(* fail all the same.  There are no workers here, no index and no files.   *)
(***************************************************************************)
EXTENDS Sequences, SequencesExt

CONSTANTS
  Calls,   \* calls the user may make
  Trees,   \* what a commit may contain
  Other    \* author of the commits made elsewhere

Commit(author, tree) == [by |-> author, tree |-> tree]

VARIABLES
  branch,     \* the local branch
  server,     \* the branch on the server
  fetched,    \* per pull: the server's branch when it asked, <<>> before
  committed,  \* the commits that succeeded
  pulled,     \* the pulls that succeeded
  pushed      \* the pushes that succeeded

vars == <<branch, server, fetched, committed, pulled, pushed>>

Init ==
  /\ \E tree \in Trees : branch = <<Commit(Other, tree)>>
  /\ server = branch
  /\ fetched = [c \in Calls |-> <<>>]
  /\ committed = {}
  /\ pulled = {}
  /\ pushed = {}

Commits(c) ==
  /\ c \notin committed
  /\ committed' = committed \cup {c}
  /\ \E tree \in Trees : branch' = Append(branch, Commit(c, tree))
  /\ UNCHANGED <<server, fetched, pulled, pushed>>

Fetches(c) ==
  /\ fetched[c] = <<>>
  /\ fetched' = [fetched EXCEPT ![c] = server]
  /\ UNCHANGED <<branch, server, committed, pulled, pushed>>

MovesForward ==
  /\ branch' \in Prefixes(server)
  /\ IsPrefix(branch, branch')
  /\ UNCHANGED <<server, fetched, committed, pulled, pushed>>

Pulls(c) ==
  /\ c \notin pulled
  /\ fetched[c] # <<>>
  /\ IsPrefix(fetched[c], branch)
  /\ pulled' = pulled \cup {c}
  /\ UNCHANGED <<branch, server, fetched, committed, pushed>>

Pushes(c) ==
  /\ c \notin pushed
  /\ pushed' = pushed \cup {c}
  /\ IsPrefix(server, branch)
  /\ server' = branch
  /\ UNCHANGED <<branch, fetched, committed, pulled>>

OthersPush ==
  /\ \E tree \in Trees : server' = Append(server, Commit(Other, tree))
  /\ UNCHANGED <<branch, fetched, committed, pulled, pushed>>

Next ==
  \/ \E c \in Calls : Commits(c) \/ Fetches(c) \/ Pulls(c) \/ Pushes(c)
  \/ MovesForward
  \/ OthersPush

Spec == Init /\ [][Next]_vars
=============================================================================
