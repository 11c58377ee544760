--------------------------- MODULE CalendarProofs ---------------------------
(***************************************************************************)
(* Proofs about Calendar for any number of calls, crashes and stored       *)
(* events: the inductive invariant, that nobody waits for nothing, that    *)
(* only the size of its file shuts the store, and that the store           *)
(* implements AtomicCalendar.                                              *)
(***************************************************************************)
EXTENDS Calendar, FiniteSetTheorems, TLAPS

\* The store's editing operator stays within the contents of the type invariant.
LEMMA EditedContents ==
  ASSUME NEW c \in Calls, NEW content \in Contents, target[c] \in Ids
  PROVE  Edited(c, content) \in Contents
<1>1. PICK S \in SUBSET Ids : content \in [S -> Ids]
  BY DEF Contents
<1>2. CASE kind[c] = "remove"
  <2>1. Edited(c, content) \in [S \ {target[c]} -> Ids]
    BY <1>1, <1>2 DEF Edited
  <2>. QED BY <2>1 DEF Contents
<1>3. CASE kind[c] # "remove"
  <2>1. Edited(c, content) \in [S \cup {target[c]} -> Ids]
    BY <1>1, <1>3 DEF Edited, Ids
  <2>2. S \cup {target[c]} \in SUBSET Ids
    OBVIOUS
  <2>. QED BY <2>1, <2>2 DEF Contents
<1>. QED BY <1>2, <1>3

\* The empty list is a content.
LEMMA NoEventsContents == NoEvents \in Contents
<1>1. NoEvents \in [{} -> Ids]
  BY DEF NoEvents
<1>. QED BY <1>1 DEF Contents

\* Initially the inductive invariant holds.
LEMMA InitIInv == Init => IInv
<1> SUFFICES ASSUME Init PROVE IInv
  OBVIOUS
<1>1. TypeOK
  <2>1. events \in [Stored -> Ids] /\ Stored \in SUBSET Ids
    BY DEF Init, Ids
  <2>2. events \in Contents
    BY <2>1 DEF Contents
  <2>3. posted \in Seq(Calls \cup {"changed", "loaded"})
    BY DEF Init
  <2>4. phase \in [Calls -> Phases] /\ ok \in [Calls -> BOOLEAN]
    BY DEF Init, Phases
  <2>5. /\ kind \in [Calls -> {"create", "update", "remove"}]
        /\ target \in [Calls -> Ids \cup {None}]
    BY DEF Init
  <2>6. edited \in Contents /\ loaded \in Contents /\ shown \in Contents
    BY NoEventsContents DEF Init
  <2>. QED
    BY <2>2, <2>3, <2>4, <2>5, <2>6 DEF Init, TypeOK
<1>. QED
  BY <1>1 DEF Init, IInv, HolderIsCurrent

\* An edit is determined by the call's kind and target and the file.
LEMMA EditedStable ==
  ASSUME NEW c \in Calls, kind'[c] = kind[c], target'[c] = target[c],
         events' = events
  PROVE  Edited(c, events)' = Edited(c, events)
<1>1. \A S : [e \in S |-> events'[e]] = [e \in S |-> events[e]]
  BY events' = events
<1>2. \A S, t : [e \in S |-> IF e = t THEN c ELSE events'[e]]
                  = [e \in S |-> IF e = t THEN c ELSE events[e]]
  BY events' = events
<1>. QED
  BY <1>1, <1>2 DEF Edited

\* So HolderIsCurrent survives every step that leaves the file, the mutex and
\* the editing calls alone.
LEMMA HolderStable ==
  ASSUME HolderIsCurrent, events' = events, lock' = lock, edited' = edited,
         \A c \in Calls : phase'[c] = "editing" =>
           phase[c] = "editing" /\ kind'[c] = kind[c] /\ target'[c] = target[c]
  PROVE  HolderIsCurrent'
<1>. SUFFICES ASSUME NEW c \in Calls, phase'[c] = "editing"
              PROVE  lock' = c /\ edited' = Edited(c, events)'
  BY DEF HolderIsCurrent
<1>. QED
  BY EditedStable DEF HolderIsCurrent

\* A call handed to the pool disturbs no edit in progress: it was free before.
LEMMA QueueIInv ==
  ASSUME IInv, NEW c \in Calls, NEW k \in {"create", "update", "remove"},
         NEW id \in Ids, k = "create" => id = c, Queue(c, k, id),
         UNCHANGED <<disk, lock, edited, loadvars, posted, loading, shown, crashes>>,
         pendingDelete' \in Ids \cup {None}
  PROVE  IInv'
<1>1. TypeOK'
  BY DEF IInv, TypeOK, Queue, Phases, disk, loadvars
<1>2. HolderIsCurrent'
  BY HolderStable DEF IInv, TypeOK, Queue, disk
<1>3. \A d \in Calls : (phase[d] = "editing" => Accepts(d, events) /\ ~damaged)'
  BY DEF IInv, TypeOK, Queue, Accepts, disk
<1>. QED
  BY <1>1, <1>2, <1>3 DEF IInv, TypeOK, Queue, disk

\* Steps of the GUI thread and of the loader that leave every call as it is.
LEMMA ViewIInv ==
  ASSUME IInv, UNCHANGED <<disk, lock, edited, callvars>>,
         load' \in {"idle", "queued", "returned", "posted"},
         loaded' \in Contents, loadOk' \in BOOLEAN,
         posted' \in Seq(Calls \cup {"changed", "loaded"}),
         \A i \in DOMAIN posted' : posted'[i] \in Calls => phase[posted'[i]] # "free",
         loading' \in BOOLEAN, shown' \in Contents,
         pendingDelete' \in Ids \cup {None}, crashes' \in Nat
  PROVE  IInv'
<1>. USE DEF disk, callvars
<1>1. TypeOK'
  BY DEF IInv, TypeOK
<1>2. HolderIsCurrent'
  BY HolderStable DEF IInv
<1>3. \A d \in Calls : (phase[d] = "editing" => Accepts(d, events) /\ ~damaged)'
  BY DEF IInv, Accepts
<1>. QED
  BY <1>1, <1>2, <1>3 DEF IInv

\* Every action keeps the inductive invariant.
LEMMA NextIInv == IInv /\ [Next]_vars => IInv'
<1>. SUFFICES ASSUME IInv, [Next]_vars PROVE IInv'
  OBVIOUS
<1>1. CASE Refresh
  BY <1>1, ViewIInv DEF Refresh, StartLoad, IInv, TypeOK
<1>2. ASSUME NEW c \in Calls, CreateEvent(c) PROVE IInv'
  <2>1. c \in Ids
    BY DEF Ids
  <2>. QED
    BY <1>2, <2>1, QueueIInv DEF CreateEvent, gui, IInv, TypeOK
<1>3. ASSUME NEW c \in Calls, NEW id \in Ids, UpdateEvent(c, id) PROVE IInv'
  BY <1>3, QueueIInv DEF UpdateEvent, gui, IInv, TypeOK
<1>4. ASSUME NEW id \in Ids, DeleteEvent(id) PROVE IInv'
  BY <1>4, ViewIInv DEF DeleteEvent, loadvars, IInv, TypeOK
<1>5. ASSUME NEW c \in Calls, ConfirmDeleteEvent(c) PROVE IInv'
  <2>1. pendingDelete \in Ids
    BY <1>5 DEF ConfirmDeleteEvent, IInv, TypeOK
  <2>. QED
    BY <1>5, <2>1, QueueIInv DEF ConfirmDeleteEvent
<1>6. ASSUME NEW c \in Calls, ReadForEdit(c) PROVE IInv'
  <2>. USE <1>6 DEF disk, loadvars, gui
  <2>1. target[c] \in Ids
    BY DEF ReadForEdit, IInv
  <2>2. Edited(c, events) \in Contents
    BY <2>1, EditedContents DEF IInv, TypeOK
  <2>3. TypeOK'
    BY <2>2 DEF ReadForEdit, IInv, TypeOK, Phases
  <2>4. \A d \in Calls : phase'[d] = "editing" => d = c
    BY CalendarAssumption DEF ReadForEdit, IInv, TypeOK, HolderIsCurrent, Ids
  <2>5. HolderIsCurrent'
    BY <2>4 DEF ReadForEdit, HolderIsCurrent, Edited
  <2>6. Accepts(c, events)' /\ ~damaged'
    BY DEF ReadForEdit, Readable, Accepts
  <2>. QED
    BY <2>3, <2>4, <2>5, <2>6 DEF ReadForEdit, IInv, TypeOK
<1>7. ASSUME NEW c \in Calls, Reject(c) PROVE IInv'
  <2>. USE <1>7 DEF disk, loadvars, gui
  <2>1. TypeOK'
    BY DEF Reject, IInv, TypeOK, Phases
  <2>2. HolderIsCurrent'
    BY HolderStable DEF Reject, IInv, TypeOK
  <2>3. \A d \in Calls : (phase[d] = "editing" => Accepts(d, events) /\ ~damaged)'
    BY DEF Reject, IInv, TypeOK, Accepts
  <2>. QED
    BY <2>1, <2>2, <2>3 DEF Reject, IInv, TypeOK
<1>8. ASSUME NEW c \in Calls, WriteBack(c) PROVE IInv'
  <2>. USE <1>8 DEF loadvars
  <2>1. edited = Edited(c, events) /\ lock = c
    BY DEF WriteBack, IInv, HolderIsCurrent
  <2>7. "changed" \notin Calls
    BY CalendarAssumption
  <2>8. /\ posted' \in Seq(Calls \cup {"changed", "loaded"})
        /\ \A i \in DOMAIN posted' :
             posted'[i] \in Calls => phase[posted'[i]] # "free"
    BY <2>7 DEF WriteBack, IInv, TypeOK
  <2>9. ok' \in [Calls -> BOOLEAN] /\ phase' \in [Calls -> Phases]
    BY DEF WriteBack, IInv, TypeOK, Phases
  <2>2. TypeOK'
    BY <2>8, <2>9, NoEventsContents DEF WriteBack, IInv, TypeOK
  <2>3. \A d \in Calls : phase'[d] # "editing"
    BY <2>1 DEF WriteBack, IInv, TypeOK, HolderIsCurrent
  <2>4. DOMAIN events' \subseteq (DOMAIN events) \cup
          {d \in Calls : kind[d] = "create" /\ d = c} \cup {target[c]}
    BY <2>1 DEF WriteBack, Edited
  <2>5. target[c] \in DOMAIN events \/ target[c] = c
    BY DEF WriteBack, IInv, Accepts, TypeOK
  <2>6. DOMAIN events' \subseteq Stored \cup {d \in Calls : ok'[d]}
    BY <2>4, <2>5 DEF WriteBack, IInv, TypeOK
  <2>. QED
    BY <2>2, <2>3, <2>6, <2>8 DEF WriteBack, IInv, TypeOK, HolderIsCurrent
<1>9. ASSUME NEW c \in Calls, WriteFails(c) PROVE IInv'
  <2>. USE <1>9 DEF disk, loadvars, gui
  <2>1. TypeOK'
    BY NoEventsContents DEF WriteFails, IInv, TypeOK, Phases
  <2>2. \A d \in Calls : phase'[d] # "editing"
    BY DEF WriteFails, IInv, TypeOK, HolderIsCurrent
  <2>. QED
    BY <2>1, <2>2 DEF WriteFails, IInv, TypeOK, HolderIsCurrent
<1>10. ASSUME NEW c \in Calls, PostAnswer(c) PROVE IInv'
  <2>. USE <1>10 DEF disk, loadvars
  <2>4. /\ posted' \in Seq(Calls \cup {"changed", "loaded"})
        /\ \A i \in DOMAIN posted' :
             posted'[i] \in Calls => phase[posted'[i]] # "free"
    BY DEF PostAnswer, IInv, TypeOK
  <2>1. TypeOK'
    BY <2>4 DEF PostAnswer, IInv, TypeOK, Phases
  <2>2. HolderIsCurrent'
    BY HolderStable DEF PostAnswer, IInv, TypeOK
  <2>3. \A d \in Calls : (phase[d] = "editing" => Accepts(d, events) /\ ~damaged)'
    BY DEF PostAnswer, IInv, TypeOK, Accepts
  <2>. QED
    BY <2>1, <2>2, <2>3, <2>4 DEF PostAnswer, IInv, TypeOK
<1>11. CASE ReadForView
  <2>1. (~damaged /\ Cardinality(DOMAIN events) <= MaxEvents
           /\ Bytes(events) <= MaxBytes) \in BOOLEAN
    OBVIOUS
  <2>2. loadOk' \in BOOLEAN
    BY <1>11, <2>1, Zenon DEF ReadForView, Readable
  <2>. QED
    BY <1>11, <2>2, ViewIInv DEF ReadForView, gui, IInv, TypeOK
<1>12. CASE PostLoaded
  <2>1. "loaded" \notin Calls
    BY CalendarAssumption
  <2>2. /\ posted' \in Seq(Calls \cup {"changed", "loaded"})
        /\ \A i \in DOMAIN posted' :
             posted'[i] \in Calls => phase[posted'[i]] # "free"
    BY <1>12, <2>1 DEF PostLoaded, IInv, TypeOK
  <2>. QED
    BY <1>12, <2>2, ViewIInv DEF PostLoaded, IInv, TypeOK
<1>13. CASE OnChanged
  <2>1. /\ posted' \in Seq(Calls \cup {"changed", "loaded"})
        /\ \A i \in DOMAIN posted' :
             posted'[i] \in Calls => phase[posted'[i]] # "free"
    BY <1>13 DEF OnChanged, Take, IInv, TypeOK
  <2>2. /\ loading' \in BOOLEAN
        /\ load' \in {"idle", "queued", "returned", "posted"}
    BY <1>13 DEF OnChanged, StartLoad, IInv, TypeOK
  <2>. QED
    BY <1>13, <2>1, <2>2, ViewIInv DEF OnChanged, IInv, TypeOK
<1>14. CASE OnLoaded
  <2>1. /\ posted' \in Seq(Calls \cup {"changed", "loaded"})
        /\ \A i \in DOMAIN posted' :
             posted'[i] \in Calls => phase[posted'[i]] # "free"
    BY <1>14 DEF OnLoaded, Take, IInv, TypeOK
  <2>2. shown' \in Contents
    BY <1>14 DEF OnLoaded, IInv, TypeOK
  <2>. QED
    BY <1>14, <2>1, <2>2, ViewIInv DEF OnLoaded, IInv, TypeOK
<1>15. ASSUME NEW c \in Calls, OnAnswer(c) PROVE IInv'
  <2>. USE <1>15 DEF disk, loadvars
  <2>0. /\ posted' \in Seq(Calls \cup {"changed", "loaded"})
        /\ phase[c] # "free"
        /\ \A i \in DOMAIN posted' :
             posted'[i] \in Calls => phase[posted'[i]] # "free"
    BY DEF OnAnswer, Take, IInv, TypeOK
  <2>1. TypeOK'
    BY <2>0 DEF OnAnswer, IInv, TypeOK, Phases
  <2>2. HolderIsCurrent'
    BY HolderStable DEF OnAnswer, IInv, TypeOK
  <2>3. \A d \in Calls : (phase[d] = "editing" => Accepts(d, events) /\ ~damaged)'
    BY DEF OnAnswer, IInv, TypeOK, Accepts
  <2>. QED
    BY <2>0, <2>1, <2>2, <2>3 DEF OnAnswer, IInv, TypeOK
<1>16. CASE CrashRestart
  <2>. USE <1>16 DEF disk
  <2>3. phase' \in [Calls -> Phases] /\ posted' = <<>>
    BY DEF CrashRestart, IInv, TypeOK, Phases
  <2>4. crashes' \in Nat
    BY DEF CrashRestart, IInv, TypeOK
  <2>5. posted' \in Seq(Calls \cup {"changed", "loaded"})
    BY <2>3
  <2>6. /\ edited' \in Contents /\ loaded' \in Contents /\ shown' \in Contents
        /\ lock' \in Calls \cup {None} /\ pendingDelete' \in Ids \cup {None}
        /\ load' \in {"idle", "queued", "returned", "posted"}
        /\ loadOk' \in BOOLEAN /\ loading' \in BOOLEAN
    BY NoEventsContents DEF CrashRestart
  <2>1. TypeOK'
    BY <2>3, <2>4, <2>5, <2>6 DEF CrashRestart, IInv, TypeOK
  <2>2. \A d \in Calls : phase'[d] # "editing"
    BY DEF CrashRestart
  <2>. QED
    BY <2>1, <2>2, <2>3 DEF CrashRestart, IInv, TypeOK, HolderIsCurrent
<1>17. CASE UNCHANGED vars
  BY <1>17, ViewIInv DEF vars, loadvars, gui, IInv, TypeOK
<1>. QED
  BY <1>1, <1>2, <1>3, <1>4, <1>5, <1>6, <1>7, <1>8, <1>9, <1>10, <1>11, <1>12,
     <1>13, <1>14, <1>15, <1>16, <1>17
     DEF Next, User, Worker, Loader, EventLoop

\* The inductive invariant holds in every reachable state.
THEOREM IInvHolds == Spec => []IInv
<1>. QED
  BY InitIInv, NextIInv, PTL DEF Spec

\* Every variable keeps its type.
THEOREM TypeCorrect == Spec => []TypeOK
<1>1. IInv => TypeOK
  BY DEF IInv
<1>. QED
  BY <1>1, IInvHolds, PTL

\* Whoever holds the mutex is about to write its own edit of what is on disk.
THEOREM NoLostUpdate == Spec => []HolderIsCurrent
<1>1. IInv => HolderIsCurrent
  BY DEF IInv
<1>. QED
  BY <1>1, IInvHolds, PTL

\* Whether a file can be read depends on nothing but the file.
LEMMA ReadableStable ==
  ASSUME UNCHANGED disk, Readable
  PROVE  Readable'
<1>1. damaged' = damaged /\ events' = events
  BY DEF disk
<1>2. \A x, y : x = y => Bytes(x) = Bytes(y)
  OBVIOUS
<1>3. Bytes(events)' = Bytes(events)
  BY <1>1, <1>2
<1>. QED
  BY <1>1, <1>3 DEF Readable

\* The file an edit was read from can still be read when the edit is written.
EditsReadable == \A c \in Calls : phase[c] = "editing" => Readable

LEMMA NextEditsReadable == IInv /\ EditsReadable /\ [Next]_vars => EditsReadable'
<1>. SUFFICES ASSUME IInv, EditsReadable, [Next]_vars PROVE EditsReadable'
  OBVIOUS
<1>0. phase \in [Calls -> Phases]
  BY DEF IInv, TypeOK
<1>1. ASSUME NEW c \in Calls, ReadForEdit(c) PROVE EditsReadable'
  BY <1>1, ReadableStable DEF ReadForEdit, EditsReadable
<1>2. ASSUME NEW c \in Calls, WriteBack(c) PROVE EditsReadable'
  BY <1>2 DEF WriteBack, IInv, TypeOK, HolderIsCurrent, EditsReadable
<1>3. CASE CrashRestart
  BY <1>3 DEF CrashRestart, EditsReadable
<1>4. ASSUME UNCHANGED disk,
             \A d \in Calls : phase'[d] = "editing" => phase[d] = "editing"
      PROVE  EditsReadable'
  BY <1>4, ReadableStable DEF EditsReadable
<1>5. ASSUME NEW c \in Calls, NEW id \in Ids,
             CreateEvent(c) \/ UpdateEvent(c, id) \/ ConfirmDeleteEvent(c)
      PROVE  EditsReadable'
  BY <1>0, <1>4, <1>5 DEF CreateEvent, UpdateEvent, ConfirmDeleteEvent, Queue
<1>6. ASSUME NEW c \in Calls, Reject(c) \/ WriteFails(c) \/ PostAnswer(c) \/ OnAnswer(c)
      PROVE  EditsReadable'
  BY <1>0, <1>4, <1>6 DEF Reject, WriteFails, PostAnswer, OnAnswer
<1>7. ASSUME UNCHANGED <<disk, callvars>> PROVE EditsReadable'
  BY <1>4, <1>7 DEF callvars
<1>8. CASE Refresh \/ ReadForView \/ PostLoaded \/ OnChanged \/ OnLoaded
  BY <1>7, <1>8 DEF Refresh, ReadForView, PostLoaded, OnChanged, OnLoaded
<1>9. ASSUME NEW id \in Ids, DeleteEvent(id) PROVE EditsReadable'
  BY <1>7, <1>9 DEF DeleteEvent
<1>10. CASE UNCHANGED vars
  BY <1>7, <1>10 DEF vars
<1>11. ASSUME NEW c \in Calls PROVE c \in Ids
  BY DEF Ids
<1>. QED
  BY <1>1, <1>2, <1>3, <1>5, <1>6, <1>8, <1>9, <1>10, <1>11
     DEF Next, User, Worker, Loader, EventLoop

\* A file that does not parse or is too large is never replaced or repaired by a
\* store call.
THEOREM UnreadableIsKept == Spec => UnreadableKept
<1>1. Init => EditsReadable
  BY DEF Init, EditsReadable
<1>2. EditsReadable /\ [Next]_vars => [~damaged /\ Bytes(events) <= MaxBytes]_disk
  <2>. SUFFICES ASSUME EditsReadable, Next, ~Readable PROVE UNCHANGED disk
    BY DEF vars, disk, Readable
  <2>1. ASSUME NEW c \in Calls, WriteBack(c) PROVE FALSE
    BY <2>1 DEF WriteBack, EditsReadable
  <2>. QED
    BY <2>1 DEF Next, User, Worker, Loader, EventLoop, Refresh, CreateEvent,
       UpdateEvent, DeleteEvent, ConfirmDeleteEvent, ReadForEdit, Reject,
       WriteFails, PostAnswer, ReadForView, PostLoaded, OnChanged, OnLoaded,
       OnAnswer, CrashRestart
<1>. QED
  BY <1>1, <1>2, IInvHolds, NextEditsReadable, PTL DEF Spec, UnreadableKept

\* A write is one edit of the abstract map by a call that had not taken effect.
LEMMA WriteApplies ==
  ASSUME IInv, NEW c \in Calls, WriteBack(c)
  PROVE  Atomic!Apply(c)
<1>1. edited = Edited(c, events) /\ Accepts(c, events) /\ ~ok[c]
  BY DEF WriteBack, IInv, HolderIsCurrent
<1>2. {d \in Calls : ok'[d]} = {d \in Calls : ok[d]} \cup {c}
  BY DEF WriteBack, IInv, TypeOK
<1>3. CASE kind[c] = "create"
  <2>1. target[c] = c
    BY <1>3 DEF WriteBack, IInv
  <2>2. c \notin DOMAIN events
    BY <1>1, CalendarAssumption DEF IInv
  <2>3. events' = Atomic!Put(events, c, c)
    BY <1>1, <1>3, <2>1 DEF WriteBack, Edited, Atomic!Put
  <2>4. Cardinality(DOMAIN events) < MaxEvents
    BY <1>1, <1>3 DEF Accepts
  <2>5. c \notin {d \in Calls : ok[d]}
    BY <1>1
  <2>6. Atomic!Cardinality(DOMAIN events) < MaxEvents
    BY <2>4 DEF Cardinality, Atomic!Cardinality
  <2>. QED
    BY <1>2, <2>2, <2>3, <2>5, <2>6, Zenon DEF Atomic!Apply
<1>4. CASE kind[c] = "update"
  <2>1. target[c] \in DOMAIN events
    BY <1>1, <1>4 DEF Accepts
  <2>2. events' = Atomic!Put(events, target[c], c)
    BY <1>1, <1>4 DEF WriteBack, Edited, Atomic!Put
  <2>. QED
    BY <1>1, <1>2, <2>1, <2>2 DEF Atomic!Apply
<1>5. CASE kind[c] = "remove"
  <2>1. target[c] \in DOMAIN events
    BY <1>1, <1>5 DEF Accepts
  <2>2. events' = Atomic!Without(events, target[c])
    BY <1>1, <1>5 DEF WriteBack, Edited, Atomic!Without
  <2>. QED
    BY <1>1, <1>2, <2>1, <2>2 DEF Atomic!Apply
<1>. QED
  BY <1>3, <1>4, <1>5 DEF IInv, TypeOK

\* The store implements the atomic map: concurrent calls, failed writes and
\* crashes included, the file changes by one whole edit at a time.
THEOREM Refinement == Spec => AtomicStore
<1>1. Init => Atomic!Init
  BY DEF Init, Atomic!Init
<1>2. IInv /\ [Next]_vars => [Atomic!Next]_(Atomic!vars)
  <2>. SUFFICES ASSUME IInv, [Next]_vars
                PROVE  Atomic!Next \/ UNCHANGED Atomic!vars
    OBVIOUS
  <2>1. ASSUME NEW c \in Calls, WriteBack(c) PROVE Atomic!Next
    BY <2>1, WriteApplies DEF Atomic!Next
  <2>2. CASE UNCHANGED <<disk, ok>>
    BY <2>2 DEF Atomic!vars, disk
  <2>. QED
    BY <2>1, <2>2 DEF Next, vars, callvars, User, Worker, Loader, EventLoop,
       Refresh, CreateEvent, UpdateEvent, DeleteEvent, ConfirmDeleteEvent,
       Queue, ReadForEdit, Reject, WriteFails, PostAnswer, ReadForView,
       PostLoaded, OnChanged, OnLoaded, OnAnswer, CrashRestart
<1>. QED
  BY <1>1, <1>2, IInvHolds, PTL DEF Spec, AtomicStore, Atomic!Spec

-----------------------------------------------------------------------------
(* The event queue                                                         *)

Queued(m, queue) == \E i \in DOMAIN queue : queue[i] = m
Once(queue) ==
  \A i, j \in DOMAIN queue : queue[i] = queue[j] => i = j \/ queue[i] = "changed"

Messages == Calls \cup {"changed", "loaded"}

\* What is posted comes last.
LEMMA AppendQueued ==
  ASSUME NEW queue \in Seq(Messages), NEW m \in Messages
  PROVE  /\ \A x : Queued(x, Append(queue, m)) <=> Queued(x, queue) \/ x = m
         /\ Once(queue) /\ (m = "changed" \/ ~Queued(m, queue)) => Once(Append(queue, m))
<1> DEFINE longer == Append(queue, m)
<1>1. /\ DOMAIN longer = DOMAIN queue \cup {Len(queue) + 1} /\ longer[Len(queue) + 1] = m
      /\ \A i \in DOMAIN queue : longer[i] = queue[i]
  OBVIOUS
<1> HIDE DEF longer
<1>2. \A x : Queued(x, longer) <=> Queued(x, queue) \/ x = m
  BY <1>1 DEF Queued
<1>3. Once(queue) /\ (m = "changed" \/ ~Queued(m, queue)) => Once(longer)
  BY <1>1 DEF Queued, Once
<1> QED
  BY <1>2, <1>3 DEF longer

\* What is taken came first, and was posted once.
LEMMA TakenQueued ==
  ASSUME NEW queue \in Seq(Messages), queue # <<>>
  PROVE  /\ \A x : x # Head(queue) => (Queued(x, Tail(queue)) <=> Queued(x, queue))
         /\ Queued(Head(queue), queue)
         /\ Once(queue) => Once(Tail(queue))
         /\ Once(queue) /\ Head(queue) # "changed" => ~Queued(Head(queue), Tail(queue))
<1> DEFINE rest == Tail(queue)
<1>1. /\ Len(queue) \in Nat \ {0} /\ DOMAIN queue = 1 .. Len(queue)
      /\ DOMAIN rest = 1 .. Len(queue) - 1 /\ Head(queue) = queue[1]
      /\ \A i \in DOMAIN rest : rest[i] = queue[i + 1]
  OBVIOUS
<1> HIDE DEF rest
<1>2. \A x : Queued(x, rest) => \E i \in 2 .. Len(queue) : queue[i] = x
  BY <1>1 DEF Queued
<1>3. \A i \in 2 .. Len(queue) : i - 1 \in DOMAIN rest /\ rest[i - 1] = queue[i]
  BY <1>1
<1>4. \A x : x # Head(queue) => (Queued(x, rest) <=> Queued(x, queue))
  <2> TAKE x
  <2>1. ASSUME x # Head(queue), Queued(x, queue)
        PROVE  Queued(x, rest)
    <3>1. PICK i \in DOMAIN queue : queue[i] = x
      BY <2>1 DEF Queued
    <3>2. i \in 2 .. Len(queue)
      BY <1>1, <2>1, <3>1
    <3> QED
      BY <1>3, <3>1, <3>2 DEF Queued
  <2>2. ASSUME Queued(x, rest)
        PROVE  Queued(x, queue)
    BY <1>1, <1>2, <2>2 DEF Queued
  <2> QED
    BY <2>1, <2>2
<1>5. Queued(Head(queue), queue)
  BY <1>1 DEF Queued
<1>6. Once(queue) => Once(rest)
  BY <1>1 DEF Once
<1>7. Once(queue) /\ Head(queue) # "changed" => ~Queued(Head(queue), rest)
  BY <1>1, <1>2 DEF Once
<1> QED
  BY <1>4, <1>5, <1>6, <1>7 DEF rest

\* NothingForgotten, with the queue's operators.
LEMMA ForgottenByQueue ==
  NothingForgotten <=>
    /\ lock # None => phase[lock] = "editing"
    /\ loading <=> load # "idle"
    /\ \A c \in Calls : phase[c] = "posted" <=> Queued(c, posted)
    /\ load = "posted" <=> Queued("loaded", posted)
    /\ Once(posted)
BY DEF NothingForgotten, Queued, Once

\* Posting and taking, stepwise.
LEMMA NextNothingForgotten ==
  ASSUME IInv, NothingForgotten, [Next]_vars
  PROVE  NothingForgotten'
<1>t. /\ posted \in Seq(Messages) /\ phase \in [Calls -> Phases]
      /\ lock \in Calls \cup {None} /\ None \notin Calls
      /\ "changed" \in Messages /\ "loaded" \in Messages /\ Calls \subseteq Messages
      /\ "changed" \notin Calls /\ "loaded" \notin Calls
  BY CalendarAssumption DEF IInv, TypeOK, Messages, Ids
<1>f. /\ lock # None => phase[lock] = "editing"
      /\ loading <=> load # "idle"
      /\ \A c \in Calls : phase[c] = "posted" <=> Queued(c, posted)
      /\ load = "posted" <=> Queued("loaded", posted)
      /\ Once(posted)
  BY ForgottenByQueue
<1> DEFINE Goal ==
      /\ lock' # None => phase'[lock'] = "editing"
      /\ loading' <=> load' # "idle"
      /\ \A c \in Calls : phase'[c] = "posted" <=> Queued(c, posted')
      /\ load' = "posted" <=> Queued("loaded", posted')
      /\ Once(posted')
<1> SUFFICES Goal
  BY DEF NothingForgotten, Queued, Once
<1>b. loading \in BOOLEAN /\ loading' \in BOOLEAN
  BY NextIInv DEF IInv, TypeOK
<1>1. CASE Refresh \/ \E id \in Ids : DeleteEvent(id)
  BY <1>1, <1>b, <1>f DEF Refresh, StartLoad, DeleteEvent, disk, callvars, loadvars
<1>2. ASSUME NEW c \in Calls, NEW k, NEW id, Queue(c, k, id),
             UNCHANGED <<lock, load, loading, posted>>
      PROVE  Goal
  <2>1. \A d \in Calls : phase'[d] = IF d = c THEN "queued" ELSE phase[d]
    BY <1>2, <1>t DEF Queue
  <2>2. phase[c] = "free"
    BY <1>2 DEF Queue
  <2> QED
    BY <1>2, <1>b, <1>t, <1>f, <2>1, <2>2
<1>3. ASSUME NEW c \in Calls, ReadForEdit(c) \/ Reject(c) \/ WriteFails(c)
      PROVE  Goal
  <2>1. /\ UNCHANGED <<load, loading, posted>>
        /\ phase[c] \in {"queued", "editing"} /\ phase'[c] \in {"editing", "returned"}
        /\ \A d \in Calls \ {c} : phase'[d] = phase[d]
    BY <1>3, <1>t DEF ReadForEdit, Reject, WriteFails, loadvars, gui
  <2>2. lock' # None => phase'[lock'] = "editing"
    BY <1>3, <1>b, <1>t, <1>f, <2>1 DEF ReadForEdit, Reject, WriteFails
  <2> QED
    BY <1>f, <2>1, <2>2
<1>4. ASSUME NEW c \in Calls, WriteBack(c)
      PROVE  Goal
  <2>1. /\ UNCHANGED <<load, loading>> /\ posted' = Append(posted, "changed")
        /\ lock' = None /\ phase[c] = "editing" /\ phase'[c] = "returned"
        /\ \A d \in Calls \ {c} : phase'[d] = phase[d]
    BY <1>4, <1>t DEF WriteBack, loadvars
  <2>2. /\ \A x : Queued(x, posted') <=> Queued(x, posted) \/ x = "changed"
        /\ Once(posted')
    BY <1>b, <1>t, <1>f, <2>1, AppendQueued
  <2> QED
    BY <1>b, <1>t, <1>f, <2>1, <2>2
<1>5. ASSUME NEW c \in Calls, PostAnswer(c)
      PROVE  Goal
  <2>1. /\ UNCHANGED <<lock, load, loading>> /\ posted' = Append(posted, c)
        /\ phase[c] = "returned" /\ phase'[c] = "posted"
        /\ \A d \in Calls \ {c} : phase'[d] = phase[d]
    BY <1>5, <1>t DEF PostAnswer, loadvars
  <2>2. /\ \A x : Queued(x, posted') <=> Queued(x, posted) \/ x = c
        /\ Once(posted')
    BY <1>b, <1>t, <1>f, <2>1, AppendQueued
  <2> QED
    BY <1>b, <1>t, <1>f, <2>1, <2>2
<1>6. CASE ReadForView
  BY <1>6, <1>b, <1>f DEF ReadForView, disk, callvars, gui
<1>7. CASE PostLoaded
  <2>1. /\ UNCHANGED <<lock, phase, loading>> /\ posted' = Append(posted, "loaded")
        /\ load = "returned" /\ load' = "posted"
    BY <1>7 DEF PostLoaded, callvars
  <2>2. /\ \A x : Queued(x, posted') <=> Queued(x, posted) \/ x = "loaded"
        /\ Once(posted')
    BY <1>b, <1>t, <1>f, <2>1, AppendQueued
  <2> QED
    BY <1>b, <1>t, <1>f, <2>1, <2>2
<1>8. ASSUME NEW m \in Messages, Take(m)
      PROVE  /\ \A x : x # m => (Queued(x, posted') <=> Queued(x, posted))
             /\ Queued(m, posted) /\ Once(posted')
             /\ m # "changed" => ~Queued(m, posted')
  BY <1>8, <1>b, <1>t, <1>f, TakenQueued DEF Take
<1>9. CASE OnChanged
  <2>1. /\ Take("changed") /\ UNCHANGED <<lock, phase>>
        /\ IF loading THEN UNCHANGED <<loading, load>> ELSE loading' = TRUE /\ load' = "queued"
    BY <1>9 DEF OnChanged, StartLoad, callvars
  <2> QED
    BY <1>b, <1>t, <1>f, <1>8, <2>1
<1>10. CASE OnLoaded
  <2>1. Take("loaded") /\ UNCHANGED <<lock, phase>> /\ loading' = FALSE /\ load' = "idle"
    BY <1>10 DEF OnLoaded, callvars
  <2> QED
    BY <1>b, <1>t, <1>f, <1>8, <2>1
<1>11. ASSUME NEW c \in Calls, OnAnswer(c)
       PROVE  Goal
  <2>1. Take(c) /\ UNCHANGED <<lock, load, loading>>
    BY <1>11 DEF OnAnswer, loadvars
  <2>2. phase[c] = "posted" /\ \A d \in Calls : phase'[d] = IF d = c THEN "settled" ELSE phase[d]
    BY <1>11, <1>b, <1>t, <1>f, <1>8, <2>1 DEF OnAnswer
  <2> QED
    BY <1>b, <1>t, <1>f, <1>8, <2>1, <2>2
<1>12. CASE CrashRestart
  <2>1. /\ lock' = None /\ loading' = FALSE /\ load' = "idle" /\ posted' = <<>>
        /\ \A c \in Calls : phase'[c] # "posted"
    BY <1>12 DEF CrashRestart
  <2>2. Once(posted') /\ \A x : ~Queued(x, posted')
    BY <2>1 DEF Once, Queued
  <2> QED
    BY <2>1, <2>2
<1>13. CASE UNCHANGED vars
  BY <1>13, <1>b, <1>f DEF vars, callvars, loadvars, gui
<1>14. ASSUME NEW c \in Calls,
              CreateEvent(c) \/ (\E id \in Ids : UpdateEvent(c, id)) \/ ConfirmDeleteEvent(c)
       PROVE  Goal
  BY <1>14, <1>2 DEF CreateEvent, UpdateEvent, ConfirmDeleteEvent, loadvars, gui
<1> HIDE DEF Goal
<1> QED
  BY <1>1, <1>3, <1>4, <1>5, <1>6, <1>7, <1>9, <1>10, <1>11, <1>12, <1>13, <1>14
     DEF Next, User, Worker, Loader, EventLoop

\* NothingForgotten: the mutex, the loading flag and the event queue always have
\* somebody to clear them (calendar_store.cpp, calendar_controller.cpp:6-12).
THEOREM NothingIsForgotten == Spec => []NothingForgotten
<1>1. Init => NothingForgotten
  BY DEF Init, NothingForgotten
<1>2. IInv /\ NothingForgotten /\ [Next]_vars => NothingForgotten'
  BY NextNothingForgotten
<1> QED
  BY <1>1, <1>2, IInvHolds, PTL DEF Spec

-----------------------------------------------------------------------------
(* The cap on events                                                       *)

Counted == IsFiniteSet(DOMAIN events) /\ Cardinality(DOMAIN events) <= MaxEvents

\* Only a create adds an event, and it has checked the cap on the same file.
LEMMA WriteCounted ==
  ASSUME IInv, Counted, NEW c \in Calls, WriteBack(c)
  PROVE  Counted'
<1>1. events' = Edited(c, events) /\ Accepts(c, events) /\ MaxEvents \in Nat
  BY CalendarAssumption DEF WriteBack, IInv, HolderIsCurrent
<1>2. CASE kind[c] = "remove"
  <2>1. DOMAIN events' = DOMAIN events \ {target[c]}
    BY <1>1, <1>2 DEF Edited
  <2>2. IsFiniteSet(DOMAIN events') /\ Cardinality(DOMAIN events') <= Cardinality(DOMAIN events)
    BY <2>1, FS_Subset DEF Counted
  <2>3. Cardinality(DOMAIN events) \in Nat /\ Cardinality(DOMAIN events') \in Nat
    BY <2>2, FS_CardinalityType DEF Counted
  <2> QED
    BY <1>1, <2>2, <2>3 DEF Counted
<1>3. CASE kind[c] = "update"
  <2>1. DOMAIN events' = DOMAIN events
    BY <1>1, <1>3 DEF Edited, Accepts
  <2> QED
    BY <2>1 DEF Counted
<1>4. CASE kind[c] = "create"
  <2>1. DOMAIN events' = DOMAIN events \cup {target[c]}
    BY <1>1, <1>4 DEF Edited
  <2>2. Cardinality(DOMAIN events) < MaxEvents /\ Cardinality(DOMAIN events) \in Nat
    BY <1>1, <1>4, FS_CardinalityType DEF Accepts, Counted
  <2>3. /\ IsFiniteSet(DOMAIN events')
        /\ \/ Cardinality(DOMAIN events') = Cardinality(DOMAIN events)
           \/ Cardinality(DOMAIN events') = Cardinality(DOMAIN events) + 1
    BY <2>1, FS_AddElement DEF Counted
  <2> QED
    BY <1>1, <2>2, <2>3 DEF Counted
<1> QED
  BY <1>2, <1>3, <1>4 DEF IInv, TypeOK

\* OnlyBytesStop: the store stays within the cap on events, so that only the
\* read limit can refuse what it has written (calendar_store.cpp:146).
THEOREM OnlyBytesStopTheStore == Spec => []OnlyBytesStop
<1>1. Init => Counted
  BY CalendarAssumption DEF Init, Counted
<1>2. IInv /\ Counted /\ [Next]_vars => Counted'
  <2> SUFFICES ASSUME IInv, Counted, [Next]_vars
               PROVE  Counted'
    OBVIOUS
  <2>1. ASSUME NEW c \in Calls, WriteBack(c) PROVE Counted'
    BY <2>1, WriteCounted
  <2>2. CASE UNCHANGED events
    BY <2>2 DEF Counted
  <2> QED
    BY <2>1, <2>2 DEF Next, vars, disk, User, Worker, Loader, EventLoop,
       Refresh, CreateEvent, UpdateEvent, DeleteEvent, ConfirmDeleteEvent,
       ReadForEdit, Reject, WriteFails, PostAnswer, ReadForView,
       PostLoaded, OnChanged, OnLoaded, OnAnswer, CrashRestart
<1>3. IInv /\ Counted => OnlyBytesStop
  BY DEF Counted, OnlyBytesStop, Readable
<1> QED
  BY <1>1, <1>2, <1>3, IInvHolds, PTL DEF Spec
=============================================================================
