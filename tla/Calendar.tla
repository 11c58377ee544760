------------------------------ MODULE Calendar ------------------------------
(***************************************************************************)
(* CalendarStore and CalendarController.  The controller lives on the GUI  *)
(* thread; every store call runs on a pool worker, which takes the store   *)
(* mutex, reads the whole file, edits it and writes it back atomically.    *)
(* `changed` is posted to the GUI from inside the critical section, the    *)
(* call's own answer only after the worker returned, and the GUI drops a   *)
(* refresh while one is running.                                           *)
(*                                                                         *)
(* An event is represented by the call that last wrote it, because the     *)
(* properties only ask which write is visible where.  A mutating call is   *)
(* identified by an element of Calls, used once; the id a create draws is  *)
(* the call itself (QUuid::createUuid never repeats).  The refresh has no  *)
(* identity: loading_ admits one at a time.                                *)
(***************************************************************************)
EXTENDS Naturals, Sequences, FiniteSets, FiniteSetsExt

CONSTANTS
  Calls,       \* mutating calls the user may make
  Stored,      \* ids of the events already on disk
  MaxEvents,   \* kMaxEvents
  MaxBytes,    \* the 32 MiB read limit, in units of Weight
  Weight,      \* size of the text each call (or stored event) writes
  MaxCrashes,  \* bound: how often the process may be killed
  None         \* no call, no id

Ids == Calls \cup Stored

ASSUME CalendarAssumption ==
  /\ Calls \cap Stored = {}
  /\ None \notin Ids
  /\ {"changed", "loaded"} \cap Calls = {}
  /\ IsFiniteSet(Stored)
  /\ Cardinality(Stored) <= MaxEvents
  /\ MaxEvents \in Nat /\ MaxBytes \in Nat /\ MaxCrashes \in Nat
  /\ Weight \in [Ids -> Nat]

VARIABLES
  damaged,        \* the file exists and does not parse or validate
  events,         \* its events otherwise: id -> the call that last wrote it
  lock,           \* CalendarStore::mutex_: the call that holds it, or None
  edited,         \* the holder's private copy of the events, already edited
  phase,          \* per call: free, queued, editing, returned, posted, settled
  kind,           \* per call: create, update or remove
  target,         \* per call: the event id it is about
  ok,             \* per call: its Result holds a value
  load,           \* the refresh's worker: idle, queued, returned, posted
  loaded,         \* the events that worker read
  loadOk,         \* its Result holds a value
  posted,         \* the GUI thread's event queue
  loading,        \* CalendarController::loading_
  shown,          \* CalendarController::events_
  pendingDelete,  \* CalendarController::pendingDeleteId_
  crashes

disk    == <<damaged, events>>
callvars == <<phase, kind, target, ok>>
loadvars == <<load, loaded, loadOk>>
gui     == <<posted, loading, shown, pendingDelete>>
vars    == <<disk, lock, edited, callvars, loadvars, gui, crashes>>

Contents == UNION {[S -> Ids] : S \in SUBSET Ids}
NoEvents == [e \in {} |-> None]

-----------------------------------------------------------------------------
(* loadLocked and writeLocked, as functions of what is on disk             *)

\* The size of the file, which loadLocked compares with its limit.
Bytes(content) == MapThenSumSet(LAMBDA e : Weight[content[e]], DOMAIN content)

\* Mutant: a malformed file is taken for an empty one.
ReadableCoerced == Cardinality(DOMAIN events) <= MaxEvents

\* loadLocked returns the events; otherwise every store call returns its error.
Readable ==
  /\ ~damaged
  /\ Cardinality(DOMAIN events) <= MaxEvents
  /\ Bytes(events) <= MaxBytes

\* The cap check of create, the lookup of update and remove.
Accepts(c, content) ==
  IF kind[c] = "create" THEN Cardinality(DOMAIN content) < MaxEvents
                        ELSE target[c] \in DOMAIN content

\* append, assignment through the iterator, erase.
Edited(c, content) ==
  IF kind[c] = "remove"
  THEN [e \in DOMAIN content \ {target[c]} |-> content[e]]
  ELSE [e \in DOMAIN content \cup {target[c]} |->
          IF e = target[c] THEN c ELSE content[e]]

-----------------------------------------------------------------------------
Init ==
  /\ damaged \in BOOLEAN
  /\ events = [e \in Stored |-> e]
  /\ lock = None
  /\ edited = NoEvents
  /\ phase = [c \in Calls |-> "free"]
  /\ kind = [c \in Calls |-> "create"]
  /\ target = [c \in Calls |-> None]
  /\ ok = [c \in Calls |-> FALSE]
  /\ load = "idle"
  /\ loaded = NoEvents
  /\ loadOk = FALSE
  /\ posted = <<>>
  /\ loading = FALSE
  /\ shown = NoEvents
  /\ pendingDelete = None
  /\ crashes = 0

-----------------------------------------------------------------------------
(* GUI thread: what QML invokes                                            *)

\* async::run hands call c to the pool.
Queue(c, k, id) ==
  /\ phase[c] = "free"
  /\ phase' = [phase EXCEPT ![c] = "queued"]
  /\ kind' = [kind EXCEPT ![c] = k]
  /\ target' = [target EXCEPT ![c] = id]
  /\ UNCHANGED ok

\* The body of refresh(): nothing at all while a load is running.
StartLoad ==
  IF loading THEN UNCHANGED <<loading, load>>
             ELSE loading' = TRUE /\ load' = "queued"

Refresh ==
  /\ ~loading
  /\ StartLoad
  /\ UNCHANGED <<disk, lock, edited, callvars, loaded, loadOk, posted, shown,
                 pendingDelete, crashes>>

CreateEvent(c) ==
  /\ Queue(c, "create", c)
  /\ UNCHANGED <<disk, lock, edited, loadvars, gui, crashes>>

\* An id that is not in the list only raises an error.
UpdateEvent(c, id) ==
  /\ id \in DOMAIN shown
  /\ Queue(c, "update", id)
  /\ UNCHANGED <<disk, lock, edited, loadvars, gui, crashes>>

\* Any id is taken; the store looks it up when the deletion is confirmed.
DeleteEvent(id) ==
  /\ pendingDelete' = id
  /\ UNCHANGED <<disk, lock, edited, callvars, loadvars, posted, loading,
                 shown, crashes>>

ConfirmDeleteEvent(c) ==
  /\ pendingDelete # None
  /\ Queue(c, "remove", pendingDelete)
  /\ pendingDelete' = None
  /\ UNCHANGED <<disk, lock, edited, loadvars, posted, loading, shown, crashes>>

-----------------------------------------------------------------------------
(* Pool workers                                                            *)

\* Mutant: the file is read before the mutex is taken.
ReadForEditUnlocked(c) ==
  /\ phase[c] = "queued"
  /\ Readable
  /\ Accepts(c, events)
  /\ lock' = c
  /\ edited' = Edited(c, events)
  /\ phase' = [phase EXCEPT ![c] = "editing"]
  /\ UNCHANGED <<disk, kind, target, ok, loadvars, gui, crashes>>

\* Take the mutex, read the file, find the event, validate, edit the copy.
ReadForEdit(c) ==
  /\ phase[c] = "queued"
  /\ lock = None
  /\ Readable
  /\ Accepts(c, events)
  /\ lock' = c
  /\ edited' = Edited(c, events)
  /\ phase' = [phase EXCEPT ![c] = "editing"]
  /\ UNCHANGED <<disk, kind, target, ok, loadvars, gui, crashes>>

\* An early return with an error.  Only a remove carries no draft to validate.
Reject(c) ==
  /\ phase[c] = "queued"
  /\ lock = None
  /\ ~Readable \/ ~Accepts(c, events) \/ kind[c] # "remove"
  /\ phase' = [phase EXCEPT ![c] = "returned"]
  /\ UNCHANGED <<disk, lock, edited, kind, target, ok, loadvars, gui, crashes>>

\* AtomicFile::write committed; `changed` is posted before the mutex is freed.
WriteBack(c) ==
  /\ phase[c] = "editing"
  /\ events' = edited
  /\ damaged' = FALSE
  /\ ok' = [ok EXCEPT ![c] = TRUE]
  /\ posted' = Append(posted, "changed")
  /\ lock' = None
  /\ edited' = NoEvents
  /\ phase' = [phase EXCEPT ![c] = "returned"]
  /\ UNCHANGED <<kind, target, loadvars, loading, shown, pendingDelete, crashes>>

\* Mutant: the target itself is written (no temporary file) before the error.
WriteFailsInPlace(c) ==
  /\ phase[c] = "editing"
  /\ events' = edited
  /\ lock' = None
  /\ edited' = NoEvents
  /\ phase' = [phase EXCEPT ![c] = "returned"]
  /\ UNCHANGED <<damaged, kind, target, ok, loadvars, gui, crashes>>

\* Mutant: the error path returns without freeing the mutex.
WriteFailsLocked(c) ==
  /\ phase[c] = "editing"
  /\ phase' = [phase EXCEPT ![c] = "returned"]
  /\ UNCHANGED <<disk, lock, edited, kind, target, ok, loadvars, gui, crashes>>

\* The temporary file could not be opened, written or renamed.
WriteFails(c) ==
  /\ phase[c] = "editing"
  /\ lock' = None
  /\ edited' = NoEvents
  /\ phase' = [phase EXCEPT ![c] = "returned"]
  /\ UNCHANGED <<disk, kind, target, ok, loadvars, gui, crashes>>

\* The future finishes and its continuation is posted to the controller.
PostAnswer(c) ==
  /\ phase[c] = "returned"
  /\ phase' = [phase EXCEPT ![c] = "posted"]
  /\ posted' = Append(posted, c)
  /\ UNCHANGED <<disk, lock, edited, kind, target, ok, loadvars, loading, shown,
                 pendingDelete, crashes>>

\* Mutant: a failed Result is dereferenced.
ReadForViewUnchecked ==
  /\ load = "queued"
  /\ lock = None
  /\ load' = "returned"
  /\ loaded' = IF Readable THEN events ELSE None
  /\ loadOk' = Readable
  /\ UNCHANGED <<disk, lock, edited, callvars, gui, crashes>>

\* load(): the whole critical section.
ReadForView ==
  /\ load = "queued"
  /\ lock = None
  /\ load' = "returned"
  /\ loaded' = events
  /\ loadOk' = Readable
  /\ UNCHANGED <<disk, lock, edited, callvars, gui, crashes>>

PostLoaded ==
  /\ load = "returned"
  /\ load' = "posted"
  /\ posted' = Append(posted, "loaded")
  /\ UNCHANGED <<disk, lock, edited, callvars, loaded, loadOk, loading, shown,
                 pendingDelete, crashes>>

-----------------------------------------------------------------------------
(* GUI thread: the events the workers posted                               *)

Take(message) == posted # <<>> /\ Head(posted) = message /\ posted' = Tail(posted)

OnChanged ==
  /\ Take("changed")
  /\ StartLoad
  /\ UNCHANGED <<disk, lock, edited, callvars, loaded, loadOk, shown,
                 pendingDelete, crashes>>

\* Mutant: loading_ is not cleared.
OnLoadedStuck ==
  /\ Take("loaded")
  /\ load' = "idle"
  /\ shown' = IF loadOk THEN loaded ELSE shown
  /\ UNCHANGED <<disk, lock, edited, callvars, loaded, loadOk, loading,
                 pendingDelete, crashes>>

OnLoaded ==
  /\ Take("loaded")
  /\ loading' = FALSE
  /\ load' = "idle"
  /\ shown' = IF loadOk THEN loaded ELSE shown
  /\ UNCHANGED <<disk, lock, edited, callvars, loaded, loadOk, pendingDelete,
                 crashes>>

\* A toast or an error message; neither changes what is shown.
OnAnswer(c) ==
  /\ Take(c)
  /\ phase' = [phase EXCEPT ![c] = "settled"]
  /\ UNCHANGED <<disk, lock, edited, kind, target, ok, loadvars, loading, shown,
                 pendingDelete, crashes>>

-----------------------------------------------------------------------------
\* The process is killed and started again: only the file survives, and
\* QSaveFile leaves either the old one or the new one.
CrashRestart ==
  /\ crashes < MaxCrashes
  /\ crashes' = crashes + 1
  /\ lock' = None
  /\ edited' = NoEvents
  /\ phase' = [c \in Calls |-> IF phase[c] = "free" THEN "free" ELSE "settled"]
  /\ load' = "idle"
  /\ loaded' = NoEvents
  /\ loadOk' = FALSE
  /\ posted' = <<>>
  /\ loading' = FALSE
  /\ shown' = NoEvents
  /\ pendingDelete' = None
  /\ UNCHANGED <<disk, kind, target, ok>>

User ==
  \/ Refresh
  \/ \E id \in Ids : DeleteEvent(id)
  \/ \E c \in Calls : \/ CreateEvent(c)
                      \/ \E id \in Ids : UpdateEvent(c, id)
                      \/ ConfirmDeleteEvent(c)

Worker(c) ==
  \/ ReadForEdit(c)
  \/ Reject(c)
  \/ WriteBack(c)
  \/ WriteFails(c)
  \/ PostAnswer(c)

Loader == ReadForView \/ PostLoaded

EventLoop == OnChanged \/ OnLoaded \/ \E c \in Calls : OnAnswer(c)

Next ==
  \/ User
  \/ \E c \in Calls : Worker(c)
  \/ Loader
  \/ EventLoop
  \/ CrashRestart

Spec == Init /\ [][Next]_vars

\* The pool runs every queued task, the mutex is not held forever and the
\* event loop keeps turning.  Nothing makes the user or a crash happen.
FairSpec ==
  /\ Spec
  /\ \A c \in Calls : WF_vars(Worker(c))
  /\ WF_vars(Loader)
  /\ WF_vars(EventLoop)

\* The same, with a user who looks again: the view's refresh is invoked now
\* and then (it is opened, or its retry button is pressed).
LookingSpec == FairSpec /\ WF_vars(Refresh)

-----------------------------------------------------------------------------
Phases == {"free", "queued", "editing", "returned", "posted", "settled"}

TypeOK ==
  /\ damaged \in BOOLEAN
  /\ events \in Contents
  /\ lock \in Calls \cup {None}
  /\ edited \in Contents
  /\ phase \in [Calls -> Phases]
  /\ kind \in [Calls -> {"create", "update", "remove"}]
  /\ target \in [Calls -> Ids \cup {None}]
  /\ ok \in [Calls -> BOOLEAN]
  /\ load \in {"idle", "queued", "returned", "posted"}
  /\ loaded \in Contents
  /\ loadOk \in BOOLEAN
  /\ posted \in Seq(Calls \cup {"changed", "loaded"})
  /\ loading \in BOOLEAN
  /\ shown \in Contents
  /\ pendingDelete \in Ids \cup {None}
  /\ crashes \in Nat

\* Whoever holds the mutex is about to write its own edit of what is on disk
\* now, so no completed write of another call is lost (calendar_store.cpp: the
\* mutex is held from loadLocked to writeLocked in every mutation).
HolderIsCurrent ==
  \A c \in Calls : phase[c] = "editing" =>
    /\ lock = c
    /\ edited = Edited(c, events)

\* What makes HolderIsCurrent inductive: an id on disk came with the file or from
\* a call that succeeded, so a create's id is new; an edit in progress passed the
\* cap check or the lookup on a file that parsed; no call has a value before it
\* wrote; and only calls that were made are answered.
IInv ==
  /\ TypeOK
  /\ HolderIsCurrent
  /\ DOMAIN events \subseteq Stored \cup {c \in Calls : ok[c]}
  /\ \A c \in Calls : phase[c] = "editing" => Accepts(c, events) /\ ~damaged
  /\ \A c \in Calls : ok[c] => phase[c] \in {"returned", "posted", "settled"}
  /\ \A c \in Calls : kind[c] = "create" /\ phase[c] # "free" => target[c] = c
  /\ \A c \in Calls : phase[c] # "free" => target[c] \in Ids
  /\ \A i \in DOMAIN posted : posted[i] \in Calls => phase[posted[i]] # "free"

\* A store that cannot be read, because it is malformed or because its own texts
\* have made it too large, is never replaced: every mutation returns the load error
\* before it writes, and none that has read the store meets one that has become
\* unreadable (calendar_store.cpp:47, :146; SPEC.md 5.4, "refuses to overwrite").
UnreadableKept == [][~damaged /\ Bytes(events) <= MaxBytes]_disk

\* The store implements the atomic one: each successful call edits the events
\* once, as they are at that instant, and a failed or killed one not at all.
Atomic == INSTANCE AtomicCalendar WITH applied <- {c \in Calls : ok[c]}
AtomicStore == Atomic!Spec

\* Nobody waits for what will not come: the mutex is held only by a call that is
\* editing, the controller loads exactly while its worker is on its way, and a
\* call or a load that the event loop has to answer is in its queue, once
\* (calendar_store.cpp: QMutexLocker; calendar_controller.cpp:6-12).
NothingForgotten ==
  /\ lock # None => phase[lock] = "editing"
  /\ loading <=> load # "idle"
  /\ \A c \in Calls : phase[c] = "posted" <=> \E i \in DOMAIN posted : posted[i] = c
  /\ load = "posted" <=> \E i \in DOMAIN posted : posted[i] = "loaded"
  /\ \A i, j \in DOMAIN posted : posted[i] = posted[j] => i = j \/ posted[i] = "changed"

\* The cap on events never shuts the store: a file it can parse and that is not
\* above the read limit is read (calendar_store.cpp:146).
OnlyBytesStop == ~damaged /\ Bytes(events) <= MaxBytes => Readable

\* Every call the user made is answered with a toast or an error.
EveryCallSettles ==
  \A c \in Calls : phase[c] = "queued" ~> phase[c] = "settled"

\* A refresh ends, and a user who looks again after the last change sees it: the
\* list cannot stay different from a readable file forever.
LookingShowsFile == []<>(Readable => shown = events)

\* The controllers "await results ... no silent divergence" (SPEC.md:772): once a
\* write has committed and posted `changed`, the list comes to show the file
\* without another click (calendar_controller.cpp:6-8).  Nothing is asked of a
\* list no write has concerned.
NoSilentDivergence ==
  (\E i \in DOMAIN posted : posted[i] = "changed") ~> (Readable => shown = events)

\* A store the program wrote itself can be read again: the whole-store cap is
\* the number of events (SPEC.md:325).
WrittenStoreReadable == ~damaged => Readable
=============================================================================
