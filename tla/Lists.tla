-------------------------------- MODULE Lists --------------------------------
(***************************************************************************)
(* The agents, cron jobs, models and packages: their controllers and       *)
(* services, and OpenClawCli and PackageService, which run a child process *)
(* on a pool thread and collect what it prints.  Listing agents and        *)
(* choosing a model take two children, one after the other: the agents are *)
(* listed by the first, and what the second has read of their sessions     *)
(* overwrites their state.                                                 *)
(*                                                                         *)
(* What a child works on is outside; a version counts its changes.  A list *)
(* has the version of its rows and that of the state they show.            *)
(***************************************************************************)
EXTENDS Parts

CONSTANTS
  MaxOutput,  \* the most a child prints
  Cap         \* openclaw.cliOutputCap, the 8 MiB of PackageService

ASSUME ListsAssumption == MaxOutput \in Nat /\ Cap \in Nat

Views == {"agents", "cron", "models", "packages"}
Stages == {"queued", "running", "exited", "crashed", "done", "told", "failed"}
Calls == [view : Views, op : {"list", "change", "run"}, at : Nat, leg : {1, 2},
          stage : Stages, out : 0..MaxOutput, read : 0..MaxOutput,
          rows : Nat, seen : Nat]

VARIABLES
  calls,    \* the calls that are not answered yet
  loading,  \* loading_ of the controllers
  asked,    \* history: the version outside when the running list was asked for
  shown,    \* the list in each view: the versions of its rows and of their state
  active,   \* the version activeModel_ is from
  world     \* the version outside

views == <<loading, asked, shown, active>>
listsVars == <<calls, views, world>>

ListsInit ==
  /\ calls = {}
  /\ loading = [v \in Views |-> FALSE]
  /\ asked = [v \in Views |-> 0]
  /\ shown = [v \in Views |-> [rows |-> 0, state |-> 0]]
  /\ active = 0
  /\ world = [v \in Views |-> 1]

-----------------------------------------------------------------------------
\* How many children a call takes.  Every child of a list looks; the last one of
\* a change or a run does what is asked.
Legs(c) == IF <<c.view, c.op>> \in {<<"agents", "list">>, <<"models", "change">>} THEN 2 ELSE 1
Decisive(c) == c.op = "list" \/ c.leg = Legs(c)

Called(v, op) ==
  [view |-> v, op |-> op, at |-> steps, leg |-> 1, stage |-> "queued",
   out |-> 0, read |-> 0, rows |-> 0, seen |-> 0]

\* Mutant: a list may be asked for while one is running.
AnyOf(vs) == vs

\* refresh() of a controller returns at once while its list is running.
Idle(vs) == {v \in vs : ~loading[v]}

\* The refresh() of some controllers, next to the calls there are.
Listing(vs, others) ==
  /\ calls' = others \cup {Called(v, "list") : v \in Idle(vs)}
  /\ loading' = [v \in Views |-> loading[v] \/ v \in vs]
  /\ asked' = [v \in Views |-> IF v \in Idle(vs) THEN world[v] ELSE asked[v]]

Refresh(v) ==
  /\ Spend(v)
  /\ Listing({v}, calls)
  /\ UNCHANGED <<shown, active, world>>

\* toggleJob and setActiveModel, as often as the user clicks, and runJob.
Ask(v, op) ==
  /\ <<v, op>> \in {<<"cron", "change">>, <<"models", "change">>, <<"cron", "run">>}
  /\ Spend(v)
  /\ calls' = calls \cup {Called(v, op)}
  /\ UNCHANGED <<views, world>>

\* Somebody else changes what is listed.
Drift(v) ==
  /\ Spend(v)
  /\ world' = [world EXCEPT ![v] = @ + 1]
  /\ UNCHANGED <<calls, views>>

-----------------------------------------------------------------------------
Replace(c, d) == calls' = (calls \ {c}) \cup {d}

\* The program is not configured, a limit or argument is refused, or the child
\* does not start within five seconds.
Start(c) ==
  /\ c.stage = "queued"
  /\ \E s \in {"running", "failed"} : Replace(c, [c EXCEPT !.stage = s])
  /\ UNCHANGED <<views, world>>

\* The child looks at what is outside, or changes it, once.
Act(c) ==
  /\ c.stage = "running"
  /\ Decisive(c) /\ c.seen = 0
  /\ world' = [world EXCEPT ![c.view] = IF c.op = "change" THEN @ + 1 ELSE @]
  /\ Replace(c, [c EXCEPT !.seen = world'[c.view]])
  /\ UNCHANGED views

Emit(c) ==
  /\ c.stage = "running"
  /\ c.out < MaxOutput
  /\ Replace(c, [c EXCEPT !.out = @ + 1])
  /\ UNCHANGED <<views, world>>

\* It exits with 0 only after it has done what was asked.
Exit(c) ==
  /\ c.stage = "running"
  /\ \/ /\ Decisive(c) => c.seen > 0
        /\ Replace(c, [c EXCEPT !.stage = "exited"])
     \/ Replace(c, [c EXCEPT !.stage = "crashed"])
  /\ UNCHANGED <<views, world>>

\* The loop of OpenClawCli::run reads while the child runs and kills it above
\* the cap; PackageService only waits.
Collect(c) ==
  /\ c.view # "packages"
  /\ c.stage \in {"running", "exited", "crashed"}
  /\ c.read < c.out
  /\ Replace(c, [c EXCEPT !.read = c.out, !.stage = IF c.out > Cap THEN "failed" ELSE @])
  /\ UNCHANGED <<views, world>>

\* The child is killed, whatever it has done; the loop looks at the deadline also
\* in the pass in which the child has exited.
Deadline(c) ==
  /\ c.stage \in {"running", "exited", "crashed"}
  /\ c.view = "packages" => c.stage = "running"
  /\ Replace(c, [c EXCEPT !.stage = "failed"])
  /\ UNCHANGED <<views, world>>

\* Mutant: what was printed after the last pass of the loop is not read.
FinishEarly(c) ==
  /\ c.stage \in {"exited", "crashed"}
  /\ \/ /\ c.stage = "crashed" \/ c.view = "packages"
        /\ Replace(c, [c EXCEPT !.stage = "failed"])
     \/ /\ c.stage = "exited"
        /\ Replace(c, [c EXCEPT !.stage = "done"])
  /\ UNCHANGED <<views, world>>

\* The rest is read and measured and the exit status looked at; PackageService
\* also parses its output here, which may fail.
Finish(c) ==
  /\ c.stage \in {"exited", "crashed"}
  /\ \/ /\ c.stage = "crashed" \/ c.out > Cap \/ c.view = "packages"
        /\ Replace(c, [c EXCEPT !.read = c.out, !.stage = "failed"])
     \/ /\ c.stage = "exited"
        /\ c.out <= Cap
        /\ Replace(c, [c EXCEPT !.read = c.out, !.stage = "done"])
  /\ UNCHANGED <<views, world>>

-----------------------------------------------------------------------------
\* The continuations of OpenClawCli, CronService and ModelService parse what a
\* child has printed, unless it only ran a job or set the model.
Malformed(c) ==
  /\ c.stage = "done"
  /\ c.view # "packages" /\ c.op # "run"
  /\ <<c.view, c.op, c.leg>> # <<"models", "change", 2>>
  /\ Replace(c, [c EXCEPT !.stage = "failed"])
  /\ UNCHANGED <<views, world>>

\* The continuation that runs the second child; it keeps what the first has read.
NextLeg(c) ==
  /\ c.stage = "done"
  /\ c.leg < Legs(c)
  /\ Replace(c, [c EXCEPT !.leg = 2, !.stage = "queued", !.out = 0, !.read = 0,
                          !.rows = c.seen, !.seen = 0])
  /\ UNCHANGED <<views, world>>

\* ModelService emits activeModelChanged, before the controller is answered.
OnActive(c) ==
  /\ c.view = "models" /\ c.op = "change"
  /\ c.stage = "done" /\ c.leg = 2
  /\ active' = c.seen
  /\ Replace(c, [c EXCEPT !.stage = "told"])
  /\ UNCHANGED <<loading, asked, shown, world>>

\* The list of a call that succeeded: the second child's sessions are put over
\* the first one's agents (those that have sessions).
Read(c) == [rows |-> IF c.leg = 2 THEN c.rows ELSE c.seen, state |-> c.seen]

Answered(c) ==
  IF c.view = "models" /\ c.op = "change" THEN c.stage = "told"
  ELSE c.stage = "done" /\ c.leg = Legs(c)

\* Mutant: the spinner is stopped only when the list is replaced.
OnListedDone(c) ==
  /\ c.op = "list"
  /\ Answered(c) \/ c.stage = "failed"
  /\ calls' = calls \ {c}
  /\ loading' = [loading EXCEPT ![c.view] = ~Answered(c)]
  /\ asked' = [asked EXCEPT ![c.view] = 0]
  /\ shown' = IF Answered(c) THEN [shown EXCEPT ![c.view] = Read(c)] ELSE shown
  /\ active' = IF Answered(c) /\ c.view = "models" THEN c.seen ELSE active
  /\ UNCHANGED world

\* The controllers' continuations of list().
OnListed(c) ==
  /\ c.op = "list"
  /\ Answered(c) \/ c.stage = "failed"
  /\ calls' = calls \ {c}
  /\ loading' = [loading EXCEPT ![c.view] = FALSE]
  /\ asked' = [asked EXCEPT ![c.view] = 0]
  /\ shown' = IF Answered(c) THEN [shown EXCEPT ![c.view] = Read(c)] ELSE shown
  /\ active' = IF Answered(c) /\ c.view = "models" THEN c.seen ELSE active
  /\ UNCHANGED world

\* Those of toggle, setActive and runNow: a change that succeeded is listed,
\* unless a list is running.
OnAsked(c) ==
  /\ c.op # "list"
  /\ \/ /\ Answered(c) /\ c.op = "change"
        /\ Listing({c.view}, calls \ {c})
     \/ /\ c.stage = "failed" \/ (Answered(c) /\ c.op = "run")
        /\ calls' = calls \ {c}
        /\ UNCHANGED <<loading, asked>>
  /\ UNCHANGED <<shown, active, world>>

ListUser ==
  \/ \E v \in Views : Refresh(v) \/ Drift(v)
  \/ \E v \in Views, op \in {"change", "run"} : Ask(v, op)

Child == \E c \in calls : Act(c) \/ Emit(c) \/ Exit(c)

ListWorker == \E c \in calls : Start(c) \/ Collect(c) \/ Deadline(c) \/ Finish(c)

ListSlot ==
  \E c \in calls :
    Malformed(c) \/ NextLeg(c) \/ OnActive(c) \/ OnListed(c) \/ OnAsked(c)

ListsNext == ListUser \/ (Free /\ (Child \/ ListWorker \/ ListSlot))

-----------------------------------------------------------------------------
ListsTypeOK ==
  /\ calls \in SUBSET Calls
  /\ loading \in [Views -> BOOLEAN]
  /\ asked \in [Views -> Nat]
  /\ shown \in [Views -> [rows : Nat, state : Nat]]
  /\ active \in Nat
  /\ world \in [Views -> Nat]

\* A call that succeeds has all its last child printed, also what came between
\* the last pass of the reading loop and the exit, and never more than the cap
\* (openclaw_cli.cpp:103-137, package_service.cpp:23-37).
WholeOutput ==
  \A c \in calls : c.stage \in {"done", "told"} => c.read = c.out /\ c.out <= Cap

\* Every list a view shows is what was outside at some moment after it was asked
\* for; the agents are what was outside then and their state what it was at that
\* moment or a later one before the answer.  However refreshes, changes that ask
\* for another list, and children that hang or fail overlap
\* (agent_controller.cpp:21-54, cron_controller.cpp:5-6, openclaw_cli.cpp:141-183).
Outside == INSTANCE Snapshots WITH Halved <- {"agents"}
ListsAreSnapshots == Outside!Spec

\* So no view ever goes back: the next list was read after all of the one before.
NeverOlder ==
  [][\A v \in Views : shown'[v] # shown[v] => shown'[v].rows >= shown[v].state]_shown
=============================================================================
