------------------------------ MODULE Dashboard ------------------------------
(***************************************************************************)
(* What AppContext puts together: the lists, the samplers and the shown    *)
(* state of the keychain, and AppController::refreshAll, which refreshes   *)
(* every list and every sampler that can be refreshed in one pass of the   *)
(* event loop.  Otherwise they share only that loop.                       *)
(***************************************************************************)
EXTENDS Lists, Samplers, Access

vars == <<present, steps, listsVars, samplersVars, accessVars>>

Init == PartsInit /\ ListsInit /\ SamplersInit /\ AccessInit

\* The signal refreshAllRequested and the slots connected to it.
RefreshAll ==
  /\ \E part \in present : Spend(part)
  /\ Listing(present \cap Views, calls)
  /\ Sampling(present \cap Asking)
  /\ UNCHANGED <<shown, active, world, ticking, counter, since, previous, sample,
                 reading, accessVars>>

Next ==
  \/ RefreshAll
  \/ ListsNext /\ UNCHANGED <<samplersVars, accessVars>>
  \/ SamplersNext /\ UNCHANGED <<listsVars, accessVars>>
  \/ AccessNext /\ UNCHANGED <<listsVars, samplersVars>>

Spec == Init /\ [][Next]_vars

\* Pool threads and the event loop go on, so a child that neither prints nor
\* exits meets its deadline.  Nothing is assumed of children, timers and users.
FairSpec ==
  /\ Spec
  /\ WF_vars(Free /\ ListWorker /\ UNCHANGED <<samplersVars, accessVars>>)
  /\ WF_vars(Free /\ ListSlot /\ UNCHANGED <<samplersVars, accessVars>>)
  /\ \A s \in Pooled :
       /\ WF_vars(TakeSample(s) /\ UNCHANGED <<listsVars, accessVars>>)
       /\ WF_vars(Deliver(s) /\ UNCHANGED <<listsVars, accessVars>>)
  /\ WF_vars(JobFinished /\ UNCHANGED <<listsVars, samplersVars>>)

-----------------------------------------------------------------------------
DashboardTypeOK ==
  /\ present \in Setups
  /\ steps \in 0..Budget[present]
  /\ ListsTypeOK
  /\ SamplersTypeOK
  /\ AccessTypeOK

\* A spinner spins only for an answer that is still to come: a view waits exactly
\* while one of its list calls is there, and a controller of a sampler only while
\* a sample is taken or is to be delivered, whatever children, timers and other
\* calls do in between (agent_controller.cpp:21-54, process_controller.cpp:9-31).
SpinnersAreOwed ==
  /\ \A v \in Views : loading[v] <=> \E c \in calls : c.view = v /\ c.op = "list"
  /\ \A s \in Asking : waiting[s] => sampling[s] # "idle"

\* No spinner spins for ever: a list that is asked for is answered, whether its
\* children hang, crash or print too much; a refresh of a sampler ends, also one
\* that came while a sample was running and so takes none of its own.  And an
\* access token that is stored while the keychain is open, or looked for when it
\* is there, is shown in the end, however many updates are queued.  (Not the
\* token AppContext finds at the start: nobody looks again.)
ViewsSettle ==
  /\ \A v \in Views : loading[v] ~> ~loading[v]
  /\ \A s \in Asking : waiting[s] ~> ~waiting[s]
  /\ \A s \in Secrets :
       /\ ~locked
       /\ \E i \in DOMAIN jobs :
            /\ jobs[i].secret = s
            /\ jobs[i].op = "update" \/ (jobs[i].op = "has" /\ s \in keychain)
       ~> s \in configured
=============================================================================
