----------------------------- MODULE MCCalendar -----------------------------
(* Instances of Calendar for TLC.                                          *)
EXTENDS Calendar, TLC

CONSTANT c1  \* one of the calls

\* Every text is one unit long.
MCWeight == [id \in Ids |-> 1]

\* One call's text is longer: with it two events are above the read limit.
MCMixed == [id \in Ids |-> IF id = c1 THEN 2 ELSE 1]

\* Long texts: two events fit the event cap but not the read limit.  (The
\* program's numbers: 10000 events of up to 4000 characters and a 32 MiB limit.)
MCHeavy == [id \in Ids |-> 2]

=============================================================================
