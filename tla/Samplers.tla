------------------------------ MODULE Samplers ------------------------------
(***************************************************************************)
(* VitalsService, ProcessService, ContainerService and SystemStats with    *)
(* their controllers: timers that take samples one at a time.  A sampler   *)
(* stands for one counter it reads: an interface, a processor, a process.  *)
(* The counter grows, and starts again from zero when the interface is     *)
(* created again or the process id is given to a new process.              *)
(*                                                                         *)
(* SystemStats samples on the GUI thread, the others on a pool thread.     *)
(* Containers are listed by podman and have no counter.                    *)
(***************************************************************************)
EXTENDS Parts

CONSTANTS
  Word       \* the counters of SystemStats are subtracted modulo this

ASSUME SamplersAssumption == Word \in Nat \ {0}

Pooled == {"vitals", "processes", "containers"}
Samplers == Pooled \cup {"stats"}
Asking == {"processes", "containers"}   \* whose controllers have a refresh()
SampleStages == {"idle", "collecting", "sampled", "failed"}

None == [value |-> 0, life |-> 0]    \* no previous sample
Counters == [value : Nat, life : Nat]

\* What a sample says of the counter, and what is true of it.
Samples == [rate : Nat, counted : Nat, same : BOOLEAN]
Nothing == [rate |-> 0, counted |-> 0, same |-> TRUE]

VARIABLES
  ticking,   \* whether the timer runs
  sampling,  \* sampling_ and how far the sample is
  waiting,   \* loading_ of the process and container controllers
  counter,   \* the counter, and which life of it this is
  since,     \* how far it has been counted in this life since the last sample
  previous,  \* what the sampler keeps of its last sample
  sample,    \* what the running sample has found
  reading    \* what is shown

samplersVars ==
  <<ticking, sampling, waiting, counter, since, previous, sample, reading>>

\* The constructors of the services and AppContext start every timer and take a
\* first sample.
SamplersInit ==
  /\ ticking = [s \in Samplers |-> s \in present]
  /\ sampling = [s \in Samplers |->
                   IF s \in present \cap Pooled THEN "collecting" ELSE "idle"]
  /\ waiting = [s \in Asking |-> FALSE]
  /\ counter = [s \in Samplers |-> [value |-> 0, life |-> 1]]
  /\ since = [s \in Samplers |-> 0]
  /\ previous = [s \in Samplers |-> IF s = "stats" THEN counter[s] ELSE None]
  /\ sample = [s \in Samplers |-> Nothing]
  /\ reading = [s \in Samplers |-> Nothing]

-----------------------------------------------------------------------------
\* Mutant: the counter is taken to go only up.
RateUnguarded(s, last, now) == (now.value - last.value) % Word

\* What is shown of an interface or a processor, unless it starts anew.
Increase(last, now) ==
  IF last # None /\ now.value >= last.value THEN now.value - last.value ELSE 0

\* What the same process has used since, or else the average over its life.
Used(last, now) ==
  IF last.life = now.life /\ now.value >= last.value
  THEN now.value - last.value ELSE now.value

\* Unsigned subtraction.
Wrapped(last, now) == (now.value - last.value) % Word

RateOf(s, last, now) ==
  CASE s = "vitals" -> Increase(last, now)
    [] s = "processes" -> Used(last, now)
    [] s = "stats" -> Wrapped(last, now)
    [] s = "containers" -> 0

Found(s) ==
  [rate |-> RateOf(s, previous[s], counter[s]), counted |-> since[s],
   same |-> previous[s].life = counter[s].life]

\* sampleNow() does nothing while a sample is taken.
SampleNow(s) ==
  sampling' = [sampling EXCEPT ![s] = IF @ = "idle" THEN "collecting" ELSE @]

\* The timer of a service.
Tick(s) ==
  /\ s \in Pooled
  /\ ticking[s]
  /\ SampleNow(s)
  /\ Free
  /\ UNCHANGED <<ticking, waiting, counter, since, previous, sample, reading>>

\* VitalsService::start, from the view or because settings were applied; with an
\* interval that is refused it does nothing.
StartVitals ==
  /\ Spend("vitals")
  /\ ticking' = [ticking EXCEPT !["vitals"] = TRUE]
  /\ SampleNow("vitals")
  /\ UNCHANGED <<waiting, counter, since, previous, sample, reading>>

\* VitalsService::stop, SystemStats::setPaused in both directions.
Pause(s, on) ==
  /\ s \in {"vitals", "stats"}
  /\ on => s = "stats"
  /\ ticking[s] # on
  /\ Spend(s)
  /\ ticking' = [ticking EXCEPT ![s] = on]
  /\ UNCHANGED <<sampling, waiting, counter, since, previous, sample, reading>>

\* refresh() of some controllers: those that do not wait already.
Sampling(ss) ==
  LET asked == {s \in ss : ~waiting[s]}
  IN  /\ waiting' = [s \in Asking |-> waiting[s] \/ s \in ss]
      /\ sampling' = [s \in Samplers |->
           IF s \in asked /\ sampling[s] = "idle" THEN "collecting" ELSE sampling[s]]

RefreshSample(s) ==
  /\ Spend(s)
  /\ Sampling({s})
  /\ UNCHANGED <<ticking, counter, since, previous, sample, reading>>

\* The counter is read and left for the next sample.
Counted(s) ==
  /\ sampling' = [sampling EXCEPT ![s] = "sampled"]
  /\ sample' = [sample EXCEPT ![s] = Found(s)]
  /\ previous' = [previous EXCEPT ![s] = counter[s]]
  /\ since' = [since EXCEPT ![s] = 0]

\* It is not there now: left out of this sample, and new to the next one.
Missing(s) ==
  /\ sampling' = [sampling EXCEPT ![s] = "sampled"]
  /\ sample' = [sample EXCEPT ![s] = Nothing]
  /\ previous' = [previous EXCEPT ![s] = None]
  /\ since' = [since EXCEPT ![s] = counter[s].value]

\* Something else cannot be read: the sample fails, and nothing is left.
Unreadable(s) ==
  /\ sampling' = [sampling EXCEPT ![s] = "failed"]
  /\ UNCHANGED <<sample, previous, since>>

\* The pool thread.
TakeSample(s) ==
  /\ sampling[s] = "collecting"
  /\ Counted(s) \/ Missing(s) \/ Unreadable(s)
  /\ Free
  /\ UNCHANGED <<ticking, waiting, counter, reading>>

\* The slot of the watcher, and the controller's: a failure too ends the waiting.
Deliver(s) ==
  /\ sampling[s] \in {"sampled", "failed"}
  /\ sampling' = [sampling EXCEPT ![s] = "idle"]
  /\ reading' = IF sampling[s] = "failed" THEN reading
                ELSE [reading EXCEPT ![s] = sample[s]]
  /\ sample' = [sample EXCEPT ![s] = Nothing]
  /\ waiting' = [t \in Asking |-> waiting[t] /\ t # s]
  /\ Free
  /\ UNCHANGED <<ticking, counter, since, previous>>

\* SystemStats::sample.
SampleStats ==
  /\ ticking["stats"]
  /\ reading' = [reading EXCEPT !["stats"] = Found("stats")]
  /\ previous' = [previous EXCEPT !["stats"] = counter["stats"]]
  /\ since' = [since EXCEPT !["stats"] = 0]
  /\ Free
  /\ UNCHANGED <<ticking, sampling, waiting, counter, sample>>

Grow(s) ==
  /\ Spend(s)
  /\ counter' = [counter EXCEPT ![s].value = @ + 1]
  /\ since' = [since EXCEPT ![s] = @ + 1]
  /\ UNCHANGED <<ticking, sampling, waiting, previous, sample, reading>>

\* It starts again: a new life of it, counted from nothing.
Renew(s) ==
  /\ Spend(s)
  /\ counter' = [counter EXCEPT ![s] = [value |-> 0, life |-> @.life + 1]]
  /\ since' = [since EXCEPT ![s] = 0]
  /\ UNCHANGED <<ticking, sampling, waiting, previous, sample, reading>>

SamplersNext ==
  \/ StartVitals
  \/ \E s \in Samplers : Tick(s) \/ (\E on \in BOOLEAN : Pause(s, on))
  \/ \E s \in Asking : RefreshSample(s)
  \/ \E s \in Pooled : TakeSample(s) \/ Deliver(s)
  \/ SampleStats
  \/ \E s \in Samplers \ {"containers"} : Grow(s) \/ Renew(s)

-----------------------------------------------------------------------------
SamplersTypeOK ==
  /\ ticking \in [Samplers -> BOOLEAN]
  /\ sampling \in [Samplers -> SampleStages]
  /\ waiting \in [Asking -> BOOLEAN]
  /\ counter \in [Samplers -> Counters]
  /\ since \in [Samplers -> Nat]
  /\ previous \in [Samplers -> Counters]
  /\ sample \in [Samplers -> Samples]
  /\ reading \in [Samplers -> Samples]

\* No reading is above what was counted: that of a process is exactly what this
\* process has used since it was last sampled, also when its id was another one's
\* then and when samples failed or were skipped in between; an interface that is
\* created again may be shown too low, never too high.  SystemStats does not look
\* for a restart, so its readings are right only without one
\* (process_service.cpp:244-252, vitals_service.cpp:284-299,
\* system_stats.cpp:131-137).
RateTrue ==
  /\ reading["vitals"].rate <= reading["vitals"].counted
  /\ reading["processes"].rate = reading["processes"].counted
  /\ reading["stats"].same => reading["stats"].rate = reading["stats"].counted % Word
=============================================================================
