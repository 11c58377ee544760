--------------------------- MODULE AtomicCalendar ---------------------------
(***************************************************************************)
(* What the calendar store promises its callers: a map from event ids to   *)
(* the call that last wrote them, changed by one successful call at a time *)
(* and by each call at most once.  There is no file, no lock and no        *)
(* snapshot here: a call edits the map as it is when the call takes        *)
(* effect, so an update that overwrites a concurrent one with an older     *)
(* copy is not a behaviour of this specification.                          *)
(***************************************************************************)
EXTENDS Naturals, FiniteSets

CONSTANTS
  Calls,      \* mutating calls of one run of the program; a create's id is its call
  Stored,     \* ids of the events found on disk
  MaxEvents   \* kMaxEvents

Ids == Calls \cup Stored

VARIABLES
  events,     \* the events on disk: id -> the call that last wrote it
  applied     \* the calls that took effect

vars == <<events, applied>>

Contents == UNION {[S -> Ids] : S \in SUBSET Ids}

Put(content, id, call) ==
  [e \in DOMAIN content \cup {id} |-> IF e = id THEN call ELSE content[e]]

Without(content, id) == [e \in DOMAIN content \ {id} |-> content[e]]

Init ==
  /\ events = [e \in Stored |-> e]
  /\ applied = {}

Apply(c) ==
  /\ c \notin applied
  /\ applied' = applied \cup {c}
  /\ \/ /\ c \notin DOMAIN events
        /\ Cardinality(DOMAIN events) < MaxEvents
        /\ events' = Put(events, c, c)
     \/ \E id \in DOMAIN events :
          events' \in {Put(events, id, c), Without(events, id)}

Next == \E c \in Calls : Apply(c)

Spec == Init /\ [][Next]_vars
=============================================================================
