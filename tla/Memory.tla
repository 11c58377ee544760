------------------------------- MODULE Memory -------------------------------
(***************************************************************************)
(* MemoryController, MemoryService and PathGuard, together with the        *)
(* settings they read: AppContext connects settingsApplied to              *)
(* reconfigureRoots and to a restart of the vitals timer.                  *)
(*                                                                         *)
(* A call takes the root's directory and the size cap from the settings    *)
(* when it is made, works on a pool thread and is answered on the GUI      *)
(* thread; answers carry no mark of the call they belong to and are        *)
(* applied in the order they come.  Meanwhile others change the roots:     *)
(* files grow while they are read, links are pointed elsewhere, and a file *)
(* is removed or exchanged for a link.                                     *)
(***************************************************************************)
EXTENDS Settings, Sequences

CONSTANTS
  RootMap,   \* value of memory.roots -> root id -> its directory
  Tree,      \* the entries of the directories, as [place, name]
  Under,     \* entry -> the directories it lies in itself
  Markdown,  \* the entries whose own name ends in .md
  Layouts,   \* what others make of the tree: entry -> what it leads to
  Found      \* the layout at first

RootsKey == "memory.roots"
Interval == "vitals.intervalMs"
RootIds == UNION {DOMAIN RootMap[v] : v \in {"default", "other"}}
Places  == UNION {{RootMap[v][id] : id \in DOMAIN RootMap[v]} : v \in {"default", "other"}}
Names   == {f.name : f \in Tree}
Nothing == [place |-> "none", name |-> "none"]

ASSUME MemoryAssumption ==
  /\ {RootsKey, Interval} \subseteq Keys
  /\ DOMAIN RootMap["default"] # {} /\ DOMAIN RootMap["other"] # {}
  /\ {"none"} \cap (RootIds \cup Places \cup Names) = {}
  /\ Tree \subseteq [place : Places, name : STRING]
  /\ Under \in [Tree -> SUBSET Places]
  /\ Markdown \subseteq Tree
  /\ Layouts \subseteq [Tree -> Tree \cup {Nothing}]
  /\ Found \in Layouts
  /\ \A layout \in Layouts, f \in Tree :
       layout[f] # Nothing => layout[layout[f]] = layout[f]

CallStages == {"queued", "resolved", "opened", "listed", "read", "failed", "shown", "lost"}
Calls == [op : {"list", "read"}, place : Places \cup {"none"},
          name : Names \cup {"none"}, stage : CallStages,
          file : Tree \cup {Nothing}, over : BOOLEAN, moved : BOOLEAN,
          switch : BOOLEAN, alone : BOOLEAN]
Contents == [place : Places \cup {"none"}, file : Tree \cup {Nothing},
             over : BOOLEAN, moved : BOOLEAN]
NoFile == [place |-> "none", file |-> Nothing, over |-> FALSE, moved |-> FALSE]

VARIABLES
  currentRoot, \* currentRoot_, "none" when empty
  shownList,   \* files_: the directory it was listed from, or "none"
  shownFile,   \* currentContent_: the root and the file it was read from
  calls,       \* the calls in the order they were made
  large,       \* the files above memory.maxFileBytes
  target,      \* the canonical path each entry leads to now
  interval     \* the value of vitals.intervalMs the vitals timer runs with

outside == <<large, target>>
browser == <<currentRoot, shownList, shownFile, calls, outside>>
memVars == <<browser, interval>>
allVars == <<vars, memVars>>

-----------------------------------------------------------------------------
\* memoryRoots(): none if the setting is refused.
Roots(map) ==
  IF Valid(RootsKey, Value(map, RootsKey)) THEN RootMap[Value(map, RootsKey)] ELSE <<>>

\* ids.first(), or an empty id.
FirstRoot(map) ==
  IF DOMAIN Roots(map) = {} THEN "none" ELSE CHOOSE id \in DOMAIN Roots(map) : TRUE

\* The directory of a root id.
Place(map, id) == IF id \in DOMAIN Roots(map) THEN Roots(map)[id] ELSE "none"

Outstanding == {i \in DOMAIN calls : calls[i].stage \notin {"shown", "lost"}}

\* The call a controller function makes, with the root as the settings have it.
\* It may be the first of a newly chosen root, and nothing else be outstanding.
Call(map, op, root, name, switch) ==
  [op |-> op, place |-> Place(map, root), name |-> name, stage |-> "queued",
   file |-> Nothing, over |-> FALSE, moved |-> FALSE,
   switch |-> switch, alone |-> Outstanding = {}]

\* PathGuard::resolve: the canonical path is that of a file inside the root, for a
\* read a Markdown one, and not above the cap.
Resolves(f, requireMarkdown) ==
  /\ f \in Tree
  /\ target[f] # Nothing
  /\ f.place \in Under[target[f]]
  /\ requireMarkdown => target[f] \in Markdown
  /\ target[f] \notin large

\* What "*.md" matches among the files of a directory: their own names.
Listing(place) == {f \in Tree : f.place = place /\ f \in Markdown /\ target[f] # Nothing}

\* The constructors: the first root, and a refresh posted for the event loop.
BrowserStarted(root, map, list, file, made, each) ==
  /\ root = FirstRoot(map)
  /\ list = "none"
  /\ file = NoFile
  /\ made = <<[op |-> "list", place |-> Place(map, FirstRoot(map)), name |-> "none",
               stage |-> "queued", file |-> Nothing, over |-> FALSE, moved |-> FALSE,
               switch |-> TRUE, alone |-> TRUE]>>
  /\ each = Value(map, Interval)

MemoryInit ==
  /\ Init
  /\ BrowserStarted(currentRoot, ini, shownList, shownFile, calls, interval)
  /\ large = {}
  /\ target = Found

-----------------------------------------------------------------------------
CanCall == GuiFree /\ Spend

\* refresh(), from the view or from refreshAll.
Refresh ==
  /\ CanCall
  /\ currentRoot # "none"
  /\ calls' = Append(calls, Call(ini, "list", currentRoot, "none", FALSE))
  /\ UNCHANGED <<held, currentRoot, shownList, shownFile, outside, interval>>

\* setRoot reads the roots twice, for the check and for the list; a running save
\* may write them in between (once, so that needs no step of the bound).
Between == (Spend /\ UNCHANGED held) \/ WriteKey(RootsKey)

\* Mutant: the content of the old root stays.
SetRootKeeping(root) ==
  /\ GuiFree
  /\ root \in DOMAIN Roots(ini)
  /\ Between
  /\ currentRoot' = root
  /\ calls' = Append(calls, Call(ini', "list", root, "none", TRUE))
  /\ UNCHANGED <<shownList, shownFile, outside, interval>>

\* setRoot(): a configured root becomes current; the content is cleared.
SetRoot(root) ==
  /\ GuiFree
  /\ root \in DOMAIN Roots(ini)
  /\ Between
  /\ currentRoot' = root
  /\ shownFile' = NoFile
  /\ calls' = Append(calls, Call(ini', "list", root, "none", TRUE))
  /\ UNCHANGED <<shownList, outside, interval>>

\* selectFile().
SelectFile(name) ==
  /\ CanCall
  /\ calls' = Append(calls, Call(ini, "read", currentRoot, name, FALSE))
  /\ UNCHANGED <<held, currentRoot, shownList, shownFile, outside, interval>>

-----------------------------------------------------------------------------
(* MemoryService on its pool threads                                       *)

\* A call becomes c, and nothing else changes.
Becomes(i, c) ==
  /\ calls' = [calls EXCEPT ![i] = c]
  /\ UNCHANGED <<vars, currentRoot, shownList, shownFile, outside, interval>>

\* A call that ends has nothing of a file any more.
Ended(c, s) ==
  [c EXCEPT !.stage = s, !.file = Nothing, !.over = FALSE, !.moved = FALSE]

Fails(i) == Becomes(i, Ended(calls[i], "failed"))

\* list(): one entry that does not resolve fails all of it.
List(i) ==
  /\ calls[i].op = "list"
  /\ calls[i].stage = "queued"
  /\ LET ok == calls[i].place # "none" /\ \A f \in Listing(calls[i].place) : Resolves(f, FALSE)
     IN  IF ok THEN Becomes(i, [calls[i] EXCEPT !.stage = "listed"]) ELSE Fails(i)

\* The entry a read asks for.
Entry(i) == [place |-> calls[i].place, name |-> calls[i].name]

\* read() up to the canonical path.
Resolve(i) ==
  /\ calls[i].op = "read"
  /\ calls[i].stage = "queued"
  /\ \/ /\ Resolves(Entry(i), TRUE)
        /\ Becomes(i, [calls[i] EXCEPT !.stage = "resolved", !.file = target[Entry(i)]])
     \/ /\ ~Resolves(Entry(i), TRUE)
        /\ Fails(i)

\* Mutant: the path that was asked for is opened, not the one that was checked.
OpenAsked(i) ==
  /\ calls[i].stage = "resolved"
  /\ target[Entry(i)] # Nothing
  /\ Becomes(i, [calls[i] EXCEPT !.stage = "opened", !.file = target[Entry(i)]])

\* QFile::open looks the path up again; it fails if nothing is there, or if the
\* file may not be read.
Open(i) ==
  /\ calls[i].stage = "resolved"
  /\ \/ /\ target[calls[i].file] # Nothing
        /\ Becomes(i, [calls[i] EXCEPT !.stage = "opened", !.file = target[@]])
     \/ Fails(i)

\* readAll of the open file: what was read is measured again.
ReadAll(i) ==
  /\ calls[i].stage = "opened"
  /\ LET over == calls[i].file \in large
     IN  IF over THEN Fails(i)
         ELSE Becomes(i, [calls[i] EXCEPT !.stage = "read", !.over = over])

-----------------------------------------------------------------------------
\* The continuations of refresh and selectFile; an error leaves what is shown.
OnAnswer(i) ==
  /\ GuiFree
  /\ calls[i].stage \in {"listed", "read", "failed"}
  /\ calls' = [calls EXCEPT ![i] = Ended(@, IF @.stage = "failed" THEN "lost" ELSE "shown")]
  /\ shownList' = IF calls[i].stage = "listed" THEN calls[i].place ELSE shownList
  /\ shownFile' = IF calls[i].stage # "read" THEN shownFile
                  ELSE [place |-> calls[i].place, file |-> calls[i].file,
                        over |-> calls[i].over, moved |-> calls[i].moved]
  /\ UNCHANGED <<vars, currentRoot, outside, interval>>

\* Somebody appends to a file.
Grow(f) ==
  /\ Spend
  /\ target[f] = f /\ f \notin large
  /\ large' = large \cup {f}
  /\ UNCHANGED <<held, currentRoot, shownList, shownFile, calls, target, interval>>

\* Somebody points a link elsewhere, removes a file or puts a link in its place.
\* History: a read whose path no longer leads to what was resolved is marked.
Exchange(layout) ==
  /\ Spend
  /\ layout # target
  /\ target' = layout
  /\ calls' = [i \in DOMAIN calls |->
       IF calls[i].stage = "resolved" /\ layout[calls[i].file] # calls[i].file
       THEN [calls[i] EXCEPT !.moved = TRUE] ELSE calls[i]]
  /\ UNCHANGED <<held, currentRoot, shownList, shownFile, large, interval>>

\* Mutant: no root is chosen in place of one that is gone.
ReconfigureToNone ==
  LET gone == currentRoot \notin DOMAIN Roots(ini)
      root == IF gone THEN "none" ELSE currentRoot
  IN  /\ currentRoot' = root
      /\ shownFile' = IF gone THEN NoFile ELSE shownFile
      /\ calls' = Append(calls, Call(ini, "list", root, "none", gone))
      /\ interval' = Value(ini, Interval)
      /\ UNCHANGED <<shownList, outside>>

\* Mutant: the current root is kept although it is gone.
ReconfigureKeeping ==
  /\ calls' = Append(calls, Call(ini, "list", currentRoot, "none", FALSE))
  /\ interval' = Value(ini, Interval)
  /\ UNCHANGED <<currentRoot, shownList, shownFile, outside>>

\* The slots of settingsApplied: reconfigureRoots, which moves to the first root
\* if the current one is gone, and the restart of the vitals timer.
Reconfigure ==
  LET gone == currentRoot \notin DOMAIN Roots(ini)
      root == IF gone THEN FirstRoot(ini) ELSE currentRoot
  IN  /\ currentRoot' = root
      /\ shownFile' = IF gone THEN NoFile ELSE shownFile
      /\ calls' = IF root = "none" THEN calls
                  ELSE Append(calls, Call(ini, "list", root, "none", gone))
      /\ interval' = Value(ini, Interval)
      /\ UNCHANGED <<shownList, outside>>

\* A save is answered; only success is announced to the other components.
Announce ==
  /\ OnSaved
  /\ IF result = "applied" THEN Reconfigure ELSE UNCHANGED memVars

Restarted ==
  /\ Restart
  /\ BrowserStarted(currentRoot', ini', shownList', shownFile', calls', interval')
  /\ UNCHANGED outside

Clicks == Refresh \/ (\E root \in RootIds : SetRoot(root))
                  \/ (\E name \in Names : SelectFile(name))

Reader == \E i \in DOMAIN calls : List(i) \/ Resolve(i) \/ Open(i) \/ ReadAll(i)

Alone == Inner /\ UNCHANGED memVars

MemoryNext ==
  \/ Alone
  \/ Announce
  \/ Restarted
  \/ Clicks
  \/ Reader
  \/ \E i \in DOMAIN calls : OnAnswer(i)
  \/ \E f \in Tree : Grow(f)
  \/ \E layout \in Layouts : Exchange(layout)

MemorySpec == MemoryInit /\ [][MemoryNext]_allVars

\* Pool threads run, a getter resets what it has refused, and the event loop,
\* which is first in first out, gets to every posted event however often getters
\* run in between.
FairMemorySpec ==
  /\ MemorySpec
  /\ WF_allVars(Worker /\ UNCHANGED memVars)
  /\ WF_allVars(InvalidAndReset /\ UNCHANGED memVars)
  /\ SF_allVars(Announce)

-----------------------------------------------------------------------------
MemoryTypeOK ==
  /\ TypeOK
  /\ currentRoot \in RootIds
  /\ shownList \in Places \cup {"none"}
  /\ shownFile \in Contents
  /\ calls \in Seq(Calls)
  /\ large \in SUBSET Tree
  /\ target \in Layouts
  /\ interval \in Values

\* To the settings the browser is one more reader: with it and the slots it has
\* connected, they still do only what ConfigService and SettingsController do by
\* themselves, and what holds of those holds here.
SettingsAsAlone == Init /\ [][Next]_held

\* Content was within the cap when it was read, also if the file grew after it had
\* been checked; and it is that of a Markdown file inside its root wherever links
\* are pointed meanwhile.  The one exception is that the file that was checked is
\* itself exchanged before it is opened (memory_service.cpp:72-86,
\* path_guard.cpp:27-71; the exception is W3 of REVIEW_FROZONE.md:150-156).
ShownWithinRules ==
  shownFile # NoFile =>
    /\ ~shownFile.over
    /\ \/ shownFile.moved
       \/ shownFile.file \in Markdown /\ shownFile.place \in Under[shownFile.file]

\* When no save is running and the last one was not left half done by the disk,
\* the browser stands at a configured root and the vitals timer runs with the
\* configured interval: a removed root is left, also one chosen while the save
\* was being written (app_context.cpp:118-129, memory_controller.cpp:67-77).
ServicesFollow ==
  stage = "idle" /\ result \in {"none", "applied"} =>
    /\ currentRoot \in DOMAIN Roots(ini)
    /\ interval = Value(ini, Interval)

\* After a change of root made while nothing was outstanding, nothing of another
\* root is shown again, whatever is clicked and in whatever order the answers
\* come, until a call with another directory is made.  Answers carry no mark, so
\* this does not hold of a change that leaves a call behind
\* (memory_controller.cpp:26-65).
CleanSwitch ==
  \A j \in DOMAIN calls :
    LET here  == calls[j].place
        since == {i \in DOMAIN calls : i >= j}
    IN  /\ calls[j].switch /\ calls[j].alone
        /\ \A i \in since : calls[i].place = here
        => /\ shownFile.place \in {"none", here}
           /\ (\E i \in since : calls[i].op = "list" /\ calls[i].stage = "shown")
                => shownList = here
=============================================================================
