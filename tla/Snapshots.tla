------------------------------ MODULE Snapshots ------------------------------
(***************************************************************************)
(* What a view of something outside the program promises: it has one       *)
(* request at a time, and the list it shows next is what was outside at    *)
(* some moment between that request and its answer.  A list that is read   *)
(* in two halves has two such moments, the second not before the first.    *)
(* There are no children here, no output and no deadlines: a list read     *)
(* before it was asked for, or one that overtakes a younger one, is not a  *)
(* behaviour of this specification, and neither is a view that goes back.  *)
(***************************************************************************)
EXTENDS Naturals

CONSTANTS
  Views,
  Halved  \* the views whose rows are read first and whose state later

VARIABLES
  world,  \* the version outside of what each view shows
  shown,  \* the versions of the rows and of the state each view shows, 0 at first
  asked   \* the version outside at the request that is not answered, or 0

vars == <<world, shown, asked>>

Init ==
  /\ world = [v \in Views |-> 1]
  /\ shown = [v \in Views |-> [rows |-> 0, state |-> 0]]
  /\ asked = [v \in Views |-> 0]

Change(v) ==
  /\ world' = [world EXCEPT ![v] = @ + 1]
  /\ UNCHANGED <<shown, asked>>

Request(vs) ==
  /\ asked' = [v \in Views |-> IF v \in vs /\ asked[v] = 0 THEN world[v] ELSE asked[v]]
  /\ UNCHANGED <<world, shown>>

\* What a view may show once it is answered: one moment, or two if it is halved.
Period(v) == asked[v]..world[v]
Fresh(v) ==
  {list \in [rows : Period(v), state : Period(v)] :
     list.rows = list.state \/ (v \in Halved /\ list.rows < list.state)}

Answer(v) ==
  /\ asked[v] > 0
  /\ asked' = [asked EXCEPT ![v] = 0]
  /\ \/ \E list \in Fresh(v) : shown' = [shown EXCEPT ![v] = list]
     \/ UNCHANGED shown
  /\ UNCHANGED world

Next ==
  \/ \E v \in Views : Change(v) \/ Answer(v)
  \/ \E vs \in SUBSET Views : Request(vs)

Spec == Init /\ [][Next]_vars
=============================================================================
