---------------------------- MODULE MemoryProofs ----------------------------
(* Proofs about Memory: what the browser shows of its roots, and how it and   *)
(* the vitals timer follow the settings.                                      *)
EXTENDS Memory, SettingsProofs

\* A Markdown file inside the call's root.
Proper(c) == c.file \in Tree /\ c.file \in Markdown /\ c.place \in Under[c.file]

\* What a call has established when it has got to a stage: a resolved path leads to
\* itself until it is exchanged.
CallFits(c) ==
  /\ c.op = "list" => c.stage \notin {"resolved", "opened", "read"}
  /\ c.stage = "resolved" => Proper(c) /\ (c.moved \/ target[c.file] = c.file)
  /\ c.stage \in {"opened", "read"} => c.moved \/ Proper(c)
  /\ c.stage = "read" => ~c.over

CallsFit == \A i \in DOMAIN calls : CallFits(calls[i])

\* A call made alone stays so: what was made before has been answered.
AloneIsDone ==
  \A j \in DOMAIN calls : calls[j].alone =>
    \A i \in DOMAIN calls : i < j => calls[i].stage \in {"shown", "lost"}

MemoryInv ==
  /\ SettingsInv
  /\ MemoryTypeOK
  /\ CallsFit
  /\ ShownWithinRules
  /\ ServicesFollow
  /\ AloneIsDone
  /\ CleanSwitch

-----------------------------------------------------------------------------
LEMMA PlainKeys == RootsKey \in Plain /\ Interval \in Plain
  BY MemoryAssumption DEF Plain, Programs, RootsKey, Interval

\* What valid settings say: there is a first root, and every root a directory.
RootsSound ==
  /\ DOMAIN Roots(ini) # {}
  /\ DOMAIN Roots(ini) \subseteq RootIds
  /\ FirstRoot(ini) \in DOMAIN Roots(ini)
  /\ \A id : Place(ini, id) \in Places \cup {"none"}
  /\ Value(ini, Interval) \in Values

LEMMA RootsFit == TypeOK /\ ValidStored => RootsSound
<1> SUFFICES ASSUME TypeOK, ValidStored
             PROVE  RootsSound
  OBVIOUS
<1>1. /\ Valid(RootsKey, Value(ini, RootsKey))
      /\ Value(ini, RootsKey) \in {"default", "other"}
      /\ Value(ini, Interval) \in {"default", "other"}
  BY PlainKeys DEF ValidStored, Valid, Plain
<1>2. /\ Roots(ini) = RootMap["default"] \/ Roots(ini) = RootMap["other"]
      /\ DOMAIN Roots(ini) # {}
  BY <1>1, MemoryAssumption DEF Roots
<1>3. DOMAIN Roots(ini) \subseteq RootIds
  BY <1>2 DEF RootIds
<1>4. FirstRoot(ini) \in DOMAIN Roots(ini)
  BY <1>2 DEF FirstRoot
<1>5. ASSUME NEW id
      PROVE  Place(ini, id) \in Places \cup {"none"}
  BY <1>2 DEF Place, Places
<1> QED
  BY <1>1, <1>2, <1>3, <1>4, <1>5 DEF RootsSound, Values

\* Roots depend on the map alone, not on which programs are installed.
LEMMA RootsKept ==
  ASSUME TypeOK, TypeOK', ini'[RootsKey] = ini[RootsKey], ini'[Interval] = ini[Interval]
  PROVE  /\ DOMAIN Roots(ini)' = DOMAIN Roots(ini)
         /\ Value(ini, Interval)' = Value(ini, Interval)
  BY PlainKeys DEF Roots, Valid, Value, Fallback, Plain

-----------------------------------------------------------------------------
\* The part of the invariant that is about the browser.
BrowserInv == MemoryTypeOK /\ CallsFit /\ ShownWithinRules /\ AloneIsDone /\ CleanSwitch

\* A browser just started shows nothing and has made one call.
LEMMA StartedFits ==
  TypeOK /\ ValidStored /\ large \in SUBSET Tree /\ target \in Layouts
  /\ BrowserStarted(currentRoot, ini, shownList, shownFile, calls, interval)
  => BrowserInv /\ ServicesFollow
<1> SUFFICES ASSUME TypeOK, ValidStored, large \in SUBSET Tree, target \in Layouts,
                    BrowserStarted(currentRoot, ini, shownList, shownFile, calls, interval)
             PROVE  BrowserInv /\ ServicesFollow
  OBVIOUS
<1> DEFINE c == [op |-> "list", place |-> Place(ini, FirstRoot(ini)), name |-> "none",
                 stage |-> "queued", file |-> Nothing, over |-> FALSE, moved |-> FALSE,
                 switch |-> TRUE, alone |-> TRUE]
<1>1. RootsSound
  BY RootsFit
<1>2. /\ calls = <<c>>
      /\ currentRoot = FirstRoot(ini)
      /\ shownList = "none"
      /\ shownFile = NoFile
      /\ interval = Value(ini, Interval)
  BY DEF BrowserStarted
<1>3. c \in Calls
  BY <1>1 DEF RootsSound, Calls, CallStages
<1> HIDE DEF c
<1>4. calls \in Seq(Calls) /\ DOMAIN calls = {1} /\ calls[1] = c
  BY <1>2, <1>3
<1>5. c.stage = "queued" /\ c.op = "list"
  BY DEF c
<1>6. MemoryTypeOK
  BY <1>1, <1>2, <1>4 DEF RootsSound, MemoryTypeOK, Contents, NoFile
<1>7. CallsFit /\ AloneIsDone
  BY <1>4, <1>5 DEF CallsFit, CallFits, AloneIsDone
<1>8. ShownWithinRules /\ CleanSwitch
  BY <1>2, <1>4, <1>5 DEF ShownWithinRules, CleanSwitch, NoFile
<1>9. ServicesFollow
  BY <1>1, <1>2 DEF RootsSound, ServicesFollow
<1> QED
  BY <1>6, <1>7, <1>8, <1>9 DEF BrowserInv

\* A new call is made at the end, and what is shown stays or is cleared; a change
\* of root clears it.
LEMMA AppendFits ==
  ASSUME BrowserInv, TypeOK', currentRoot' \in RootIds, interval' \in Values,
         NEW c \in Calls, calls' = Append(calls, c),
         c.stage = "queued", c.alone => Outstanding = {},
         shownList' = shownList, UNCHANGED outside,
         shownFile' = shownFile \/ shownFile' = NoFile,
         c.switch => shownFile' = NoFile
  PROVE  BrowserInv'
<1>1. calls \in Seq(Calls)
  BY DEF BrowserInv, MemoryTypeOK
<1>2. /\ calls' \in Seq(Calls)
      /\ DOMAIN calls = 1..Len(calls)
      /\ Len(calls) \in Nat
      /\ DOMAIN calls' = 1..(Len(calls) + 1)
      /\ calls'[Len(calls) + 1] = c
      /\ \A i \in DOMAIN calls : calls'[i] = calls[i]
  BY <1>1
<1>3. MemoryTypeOK'
  <2>1. shownFile' \in Contents
    <3>1. NoFile \in Contents
      BY DEF NoFile, Contents
    <3> QED
      BY <3>1 DEF BrowserInv, MemoryTypeOK
  <2>2. /\ shownList' \in Places \cup {"none"}
        /\ large' \in SUBSET Tree /\ target' \in Layouts
    BY DEF BrowserInv, MemoryTypeOK, outside
  <2> QED
    BY <1>2, <2>1, <2>2 DEF MemoryTypeOK
<1>4. CallsFit'
  BY <1>2 DEF BrowserInv, CallsFit, CallFits, Proper, outside
<1>5. AloneIsDone'
  BY <1>2 DEF BrowserInv, AloneIsDone, Outstanding
<1>6. ShownWithinRules'
  BY DEF BrowserInv, ShownWithinRules
<1>7. CleanSwitch'
  <2> SUFFICES ASSUME NEW j \in DOMAIN calls',
                      calls'[j].switch, calls'[j].alone,
                      \A i \in {n \in DOMAIN calls' : n >= j} :
                        calls'[i].place = calls'[j].place
               PROVE  /\ shownFile'.place \in {"none", calls'[j].place}
                      /\ (\E i \in {n \in DOMAIN calls' : n >= j} :
                            calls'[i].op = "list" /\ calls'[i].stage = "shown")
                           => shownList' = calls'[j].place
    BY DEF CleanSwitch
  <2>1. CASE j = Len(calls) + 1
    <3>1. calls'[j] = c /\ shownFile' = NoFile
      BY <1>2, <2>1
    <3>2. \A i \in DOMAIN calls' : i >= j => calls'[i].stage = "queued"
      BY <1>2, <2>1
    <3> QED
      BY <3>1, <3>2 DEF NoFile
  <2>2. CASE j # Len(calls) + 1
    <3>1. j \in DOMAIN calls /\ calls'[j] = calls[j]
      BY <1>2, <2>2
    <3>2. \A i \in {n \in DOMAIN calls : n >= j} : calls[i].place = calls[j].place
      BY <1>2, <3>1
    <3>3. /\ shownFile.place \in {"none", calls[j].place}
          /\ (\E i \in {n \in DOMAIN calls : n >= j} :
                calls[i].op = "list" /\ calls[i].stage = "shown")
               => shownList = calls[j].place
      BY <3>1, <3>2 DEF BrowserInv, CleanSwitch
    <3>4. \A i \in DOMAIN calls' :
            calls'[i].stage = "shown" => i \in DOMAIN calls /\ calls'[i] = calls[i]
      BY <1>2
    <3> QED
      BY <3>1, <3>3, <3>4 DEF NoFile
  <2> QED
    BY <2>1, <2>2
<1> QED
  BY <1>3, <1>4, <1>5, <1>6, <1>7 DEF BrowserInv

\* A call gets on, before it is answered.
LEMMA BecomesFits ==
  ASSUME BrowserInv, TypeOK', NEW i \in DOMAIN calls, NEW d \in Calls, Becomes(i, d),
         d.place = calls[i].place, d.op = calls[i].op,
         d.switch = calls[i].switch, d.alone = calls[i].alone,
         calls[i].stage \notin {"shown", "lost"}, d.stage \notin {"shown", "lost"},
         CallFits(d)
  PROVE  BrowserInv'
<1>1. calls \in Seq(Calls) /\ calls' = [calls EXCEPT ![i] = d]
  BY DEF BrowserInv, MemoryTypeOK, Becomes
<1>2. /\ calls' \in Seq(Calls)
      /\ DOMAIN calls' = DOMAIN calls
      /\ calls'[i] = d
      /\ \A j \in DOMAIN calls : j # i => calls'[j] = calls[j]
  BY <1>1
<1>3. UNCHANGED <<currentRoot, shownList, shownFile, large, target, interval>>
  BY DEF Becomes, outside
<1>4. MemoryTypeOK'
  BY <1>2, <1>3 DEF BrowserInv, MemoryTypeOK
<1>5. CallsFit'
  BY <1>2, <1>3 DEF BrowserInv, CallsFit, CallFits, Proper
<1>6. AloneIsDone'
  BY <1>2 DEF BrowserInv, AloneIsDone
<1>7. ShownWithinRules'
  BY <1>3 DEF BrowserInv, ShownWithinRules
<1>8. CleanSwitch'
  <2>1. \A j \in DOMAIN calls :
          /\ calls'[j].place = calls[j].place
          /\ calls'[j].switch = calls[j].switch
          /\ calls'[j].alone = calls[j].alone
          /\ calls'[j].op = calls[j].op
          /\ calls'[j].stage = "shown" <=> calls[j].stage = "shown"
    BY <1>2
  <2> QED
    BY <1>2, <1>3, <2>1 DEF BrowserInv, CleanSwitch
<1> QED
  BY <1>4, <1>5, <1>6, <1>7, <1>8 DEF BrowserInv

\* A call that ends is the same call.
LEMMA EndedFits ==
  ASSUME NEW c \in Calls, NEW s \in {"failed", "shown", "lost"}
  PROVE  /\ Ended(c, s) \in Calls /\ Ended(c, s).stage = s
         /\ Ended(c, s).place = c.place /\ Ended(c, s).op = c.op
         /\ Ended(c, s).switch = c.switch /\ Ended(c, s).alone = c.alone
         /\ CallFits(Ended(c, s))
<1> DEFINE d == Ended(c, s)
<1>1. /\ d \in Calls /\ d.stage = s /\ d.place = c.place /\ d.op = c.op
      /\ d.switch = c.switch /\ d.alone = c.alone
  BY DEF Ended, Calls, CallStages
<1> HIDE DEF d
<1>2. CallFits(d)
  BY <1>1 DEF CallFits
<1> QED
  BY <1>1, <1>2 DEF d

LEMMA FailsFits ==
  ASSUME BrowserInv, TypeOK', NEW i \in DOMAIN calls, Fails(i),
         calls[i].stage \notin {"shown", "lost"}
  PROVE  BrowserInv'
<1> DEFINE d == Ended(calls[i], "failed")
<1>1. calls[i] \in Calls
  BY DEF BrowserInv, MemoryTypeOK
<1>2. /\ d \in Calls /\ d.stage = "failed" /\ d.place = calls[i].place
      /\ d.op = calls[i].op /\ d.switch = calls[i].switch /\ d.alone = calls[i].alone
      /\ CallFits(d)
  BY <1>1, EndedFits
<1>3. Becomes(i, d)
  BY DEF Fails
<1> HIDE DEF d
<1> QED
  BY <1>2, <1>3, BecomesFits

\* A call is answered.
LEMMA AnswerFits ==
  ASSUME BrowserInv, TypeOK', NEW i \in DOMAIN calls, OnAnswer(i)
  PROVE  BrowserInv'
<1> DEFINE s == IF calls[i].stage = "failed" THEN "lost" ELSE "shown"
           d == Ended(calls[i], s)
<1>1. calls \in Seq(Calls) /\ calls[i] \in Calls
  BY DEF BrowserInv, MemoryTypeOK
<1>2. /\ d \in Calls /\ d.place = calls[i].place /\ d.op = calls[i].op
      /\ d.switch = calls[i].switch /\ d.alone = calls[i].alone
      /\ d.stage = s /\ s \in {"shown", "lost"} /\ CallFits(d)
  BY <1>1, EndedFits
<1>3. calls' = [calls EXCEPT ![i] = d]
  BY DEF OnAnswer
<1>4. /\ calls[i].stage \in {"listed", "read", "failed"}
      /\ calls[i].stage = "failed" <=> s = "lost"
  BY DEF OnAnswer
<1> HIDE DEF d, s
<1>5. /\ calls' \in Seq(Calls)
      /\ DOMAIN calls' = DOMAIN calls
      /\ calls'[i] = d
      /\ \A j \in DOMAIN calls : j # i => calls'[j] = calls[j]
  BY <1>1, <1>2, <1>3
<1>6. UNCHANGED <<currentRoot, large, target, interval>>
  BY DEF OnAnswer, outside
<1>7. CallFits(calls[i])
  BY DEF BrowserInv, CallsFit
<1>8. /\ calls[i].stage # "listed" => shownList' = shownList
      /\ calls[i].stage = "listed" => shownList' = calls[i].place
      /\ calls[i].stage # "read" => shownFile' = shownFile
      /\ calls[i].stage = "read" =>
           shownFile' = [place |-> calls[i].place, file |-> calls[i].file,
                         over |-> calls[i].over, moved |-> calls[i].moved]
  BY DEF OnAnswer
<1>9. MemoryTypeOK'
  <2>1. shownFile' \in Contents
    BY <1>1, <1>8 DEF BrowserInv, MemoryTypeOK, Calls, Contents
  <2>2. shownList' \in Places \cup {"none"}
    BY <1>1, <1>8 DEF BrowserInv, MemoryTypeOK, Calls
  <2> QED
    BY <1>5, <1>6, <2>1, <2>2 DEF BrowserInv, MemoryTypeOK
<1>10. CallsFit'
  BY <1>2, <1>5, <1>6 DEF BrowserInv, CallsFit, CallFits, Proper
<1>11. AloneIsDone'
  BY <1>2, <1>4, <1>5 DEF BrowserInv, AloneIsDone
<1>12. ShownWithinRules'
  <2>1. CASE calls[i].stage = "read"
    BY <1>7, <1>8, <2>1 DEF CallFits, Proper, ShownWithinRules
  <2>2. CASE calls[i].stage # "read"
    BY <1>8, <2>2 DEF BrowserInv, ShownWithinRules
  <2> QED
    BY <2>1, <2>2
<1>13. CleanSwitch'
  <2> SUFFICES ASSUME NEW j \in DOMAIN calls,
                      calls[j].switch, calls[j].alone,
                      \A k \in {n \in DOMAIN calls : n >= j} :
                        calls[k].place = calls[j].place
               PROVE  /\ shownFile'.place \in {"none", calls[j].place}
                      /\ (\E k \in {n \in DOMAIN calls : n >= j} :
                            calls'[k].op = "list" /\ calls'[k].stage = "shown")
                           => shownList' = calls[j].place
    <3>1. \A j \in DOMAIN calls :
            /\ calls'[j].place = calls[j].place
            /\ calls'[j].switch = calls[j].switch
            /\ calls'[j].alone = calls[j].alone
      BY <1>2, <1>5
    <3> QED
      BY <1>5, <3>1 DEF CleanSwitch
  <2>1. i >= j
    BY <1>1, <1>4 DEF BrowserInv, AloneIsDone
  <2>2. calls[i].place = calls[j].place
    BY <2>1
  <2>3. /\ shownFile.place \in {"none", calls[j].place}
        /\ (\E k \in {n \in DOMAIN calls : n >= j} :
              calls[k].op = "list" /\ calls[k].stage = "shown")
             => shownList = calls[j].place
    BY DEF BrowserInv, CleanSwitch
  <2>4. shownFile'.place \in {"none", calls[j].place}
    BY <1>8, <2>2, <2>3
  <2>5. CASE calls[i].stage = "listed"
    BY <1>8, <2>2, <2>4, <2>5
  <2>6. CASE calls[i].stage # "listed"
    <3>1. calls[i].op = "list" => s = "lost"
      BY <1>4, <1>7, <2>6 DEF CallFits
    <3>2. \A k \in DOMAIN calls :
            calls'[k].op = "list" /\ calls'[k].stage = "shown"
              => calls[k].op = "list" /\ calls[k].stage = "shown"
      BY <1>2, <1>5, <3>1
    <3> QED
      BY <1>8, <2>3, <2>4, <2>6, <3>2
  <2> QED
    BY <2>5, <2>6
<1> QED
  BY <1>9, <1>10, <1>11, <1>12, <1>13 DEF BrowserInv

-----------------------------------------------------------------------------
\* While no save runs, the settings other components follow stay as they are.
LEMMA IdleKept ==
  ASSUME SettingsInv, Inner, stage' = "idle"
  PROVE  /\ stage = "idle"
         /\ result' = result
         /\ \A k \in Plain : ini'[k] = ini[k]
<1> USE DEF SettingsInv
<1>1. ASSUME NEW k \in Keys, NEW v \in Values, Edit(k, v)
      PROVE  UNCHANGED <<ini, stage, result>>
  BY <1>1 DEF Edit, config, saving
<1>2. ASSUME ResetDefaults
      PROVE  UNCHANGED <<ini, stage, result>>
  BY <1>2 DEF ResetDefaults, saving
<1>3. ~Save
  BY DEF Save
<1>4. ASSUME NEW k \in Keys, Refuse(k)
      PROVE  UNCHANGED <<ini, stage, result>>
  BY <1>4 DEF Refuse, saving
<1>5. ASSUME InvalidAndReset
      PROVE  UNCHANGED <<stage, result>> /\ \A k \in Plain : ini'[k] = ini[k]
  <2>1. doubt \in Programs
    BY <1>5 DEF InvalidAndReset, GuiFree, DoubtIsProgram
  <2> QED
    BY <1>5, <2>1 DEF InvalidAndReset, saving, TypeOK, Plain
<1>6. ~Validate /\ (\A k \in Keys : ~WriteKey(k)) /\ ~Sync
  BY DEF Validate, WriteKey, Sync
<1>7. ASSUME NEW k \in Programs, Install(k)
      PROVE  UNCHANGED <<ini, stage, result>>
  BY <1>7 DEF Install, config, saving
<1> QED
  BY <1>1, <1>2, <1>3, <1>4, <1>5, <1>6, <1>7
     DEF Inner, User, Getter, Worker, Outside

\* Nothing the services follow changes.
LEMMA StillFollows ==
  ASSUME TypeOK, TypeOK', ServicesFollow,
         currentRoot' = currentRoot, interval' = interval,
         stage' = "idle" /\ result' \in {"none", "applied"}
           => /\ stage = "idle" /\ result' = result
              /\ \A k \in Plain : ini'[k] = ini[k]
  PROVE  ServicesFollow'
  BY PlainKeys, RootsKept DEF ServicesFollow

\* A step of the settings only.
LEMMA AloneFits ==
  ASSUME MemoryInv, Alone
  PROVE  MemoryInv'
<1>1. SettingsInv'
  BY StepSettings DEF MemoryInv, Alone
<1>2. UNCHANGED <<currentRoot, shownList, shownFile, calls, large, target, interval>>
  BY DEF Alone, memVars, browser, outside
<1>3. ServicesFollow'
  BY <1>1, <1>2, IdleKept, StillFollows DEF MemoryInv, SettingsInv, Alone
<1> QED
  BY <1>1, <1>2, <1>3 DEF MemoryInv, SettingsInv, MemoryTypeOK, CallsFit, CallFits, Proper,
     ShownWithinRules, AloneIsDone, CleanSwitch

\* A save is answered, and announced if it succeeded.
LEMMA AnnounceFits ==
  ASSUME MemoryInv, Announce
  PROVE  MemoryInv'
<1>1. SettingsInv' /\ TypeOK' /\ TypeOK /\ ValidStored
  BY StepSettings DEF MemoryInv, SettingsInv, Announce
<1>2. /\ ini' = ini /\ result' = result /\ UNCHANGED works
      /\ stage' = "idle"
  BY DEF Announce, OnSaved, config
<1>3. RootsSound
  BY <1>1, RootsFit
<1>b. BrowserInv
  BY DEF MemoryInv, BrowserInv
<1>4. CASE result = "applied"
  <2> DEFINE gone == currentRoot \notin DOMAIN Roots(ini)
             root == IF gone THEN FirstRoot(ini) ELSE currentRoot
             c == Call(ini, "list", root, "none", gone)
  <2>2. root \in DOMAIN Roots(ini) /\ root \in RootIds
    BY <1>3 DEF RootsSound
  <2>0. root # "none"
    BY <2>2, MemoryAssumption
  <2>1. /\ currentRoot' = root
        /\ shownFile' = IF gone THEN NoFile ELSE shownFile
        /\ calls' = Append(calls, c)
        /\ interval' = Value(ini, Interval)
        /\ UNCHANGED <<shownList, outside>>
    BY <1>4, <2>0 DEF Announce, Reconfigure
  <2>3. c \in Calls
    BY <1>3 DEF RootsSound, Call, Calls, CallStages
  <2>4. c.stage = "queued" /\ (c.alone => Outstanding = {}) /\ c.switch = gone
    BY DEF Call
  <2>5. interval' \in Values
    BY <1>3, <2>1 DEF RootsSound
  <2> HIDE DEF root, gone, c
  <2>6. BrowserInv'
    BY <1>1, <1>b, <2>1, <2>2, <2>3, <2>4, <2>5, AppendFits
  <2>7. ServicesFollow'
    BY <1>1, <1>2, <2>1, <2>2, RootsKept DEF ServicesFollow
  <2> QED
    BY <1>1, <2>6, <2>7 DEF MemoryInv, BrowserInv
<1>5. CASE result # "applied"
  <2>1. UNCHANGED <<currentRoot, shownList, shownFile, calls, large, target, interval>>
    BY <1>5 DEF Announce, memVars, browser, outside
  <2>2. result # "none"
    BY DEF Announce, OnSaved, MemoryInv, SettingsInv, AnswerHasResult
  <2>3. ServicesFollow'
    BY <1>2, <1>5, <2>2 DEF ServicesFollow
  <2> QED
    BY <1>1, <2>1, <2>3 DEF MemoryInv, SettingsInv, MemoryTypeOK, CallsFit, CallFits, Proper,
       ShownWithinRules, AloneIsDone, CleanSwitch
<1> QED
  BY <1>4, <1>5

\* The program is started again.
LEMMA RestartFits ==
  ASSUME MemoryInv, Restarted
  PROVE  MemoryInv'
<1>1. SettingsInv' /\ TypeOK' /\ ValidStored'
  BY StepSettings DEF MemoryInv, SettingsInv, Restarted
<1>2. UNCHANGED works /\ large' \in SUBSET Tree /\ target' \in Layouts
  BY DEF Restarted, Restart, MemoryInv, MemoryTypeOK, outside
<1>3. BrowserStarted(currentRoot, ini, shownList, shownFile, calls, interval)'
  BY <1>2 DEF Restarted, BrowserStarted, FirstRoot, Place, Roots, Valid, Value, Fallback
<1>4. (BrowserInv /\ ServicesFollow)'
  <2>1. (TypeOK /\ ValidStored /\ large \in SUBSET Tree /\ target \in Layouts
         /\ BrowserStarted(currentRoot, ini, shownList, shownFile, calls, interval)
         => BrowserInv /\ ServicesFollow)'
    BY StartedFits, PTL
  <2> QED
    BY <1>1, <1>2, <1>3, <2>1
<1> QED
  BY <1>1, <1>4 DEF MemoryInv, BrowserInv

\* The user refreshes or chooses a file.
LEMMA ClickFits ==
  ASSUME MemoryInv, Refresh \/ \E name \in Names : SelectFile(name)
  PROVE  MemoryInv'
<1>b. BrowserInv /\ SettingsInv /\ TypeOK /\ ValidStored /\ ServicesFollow
  BY DEF MemoryInv, BrowserInv, SettingsInv
<1>h. /\ UNCHANGED held /\ Spend
      /\ UNCHANGED <<currentRoot, shownList, shownFile, outside, interval>>
  BY DEF Refresh, SelectFile, CanCall
<1>1. SettingsInv' /\ TypeOK'
  BY <1>b, <1>h, SpendType, HeldSettings DEF SettingsInv
<1>2. RootsSound
  BY <1>b, RootsFit
<1>3. UNCHANGED <<ini, works, stage, result>>
  BY <1>h DEF held, config, saving
<1>4. currentRoot \in RootIds /\ interval \in Values
  BY <1>b DEF BrowserInv, MemoryTypeOK
<1>5. ServicesFollow'
  BY <1>b, <1>1, <1>3, <1>h, StillFollows
<1>6. PICK op \in {"list", "read"}, name \in Names \cup {"none"} :
        calls' = Append(calls, Call(ini, op, currentRoot, name, FALSE))
  BY DEF Refresh, SelectFile
<1> DEFINE c == Call(ini, op, currentRoot, name, FALSE)
<1>7. c \in Calls
  BY <1>2 DEF RootsSound, Call, Calls, CallStages
<1>8. c.stage = "queued" /\ (c.alone => Outstanding = {}) /\ ~c.switch
  BY DEF Call
<1> HIDE DEF c
<1>9. BrowserInv'
  BY <1>b, <1>h, <1>1, <1>4, <1>6, <1>7, <1>8, AppendFits DEF c
<1> QED
  BY <1>1, <1>5, <1>9 DEF MemoryInv, BrowserInv

\* The user chooses a root, which a running save may take away in between.
LEMMA SetRootFits ==
  ASSUME MemoryInv, NEW root \in RootIds, SetRoot(root)
  PROVE  MemoryInv'
<1>b. BrowserInv /\ SettingsInv /\ TypeOK /\ ValidStored /\ ServicesFollow
  BY DEF MemoryInv, BrowserInv, SettingsInv
<1>1. /\ root \in DOMAIN Roots(ini) /\ Between /\ currentRoot' = root
      /\ shownFile' = NoFile /\ UNCHANGED <<shownList, outside, interval>>
      /\ calls' = Append(calls, Call(ini', "list", root, "none", TRUE))
  BY DEF SetRoot
<1>2. SettingsInv' /\ TypeOK' /\ ValidStored'
  <2>1. CASE Spend /\ UNCHANGED held
    BY <1>b, <2>1, SpendType, HeldSettings DEF SettingsInv
  <2>2. CASE WriteKey(RootsKey)
    <3>1. Inner
      BY <2>2, MemoryAssumption DEF Inner, Worker
    <3> QED
      BY <1>b, <3>1, StepSettings DEF SettingsInv
  <2> QED
    BY <1>1, <2>1, <2>2 DEF Between
<1>3. RootsSound'
  <2>1. (TypeOK /\ ValidStored => RootsSound)'
    BY RootsFit, PTL
  <2> QED
    BY <1>2, <2>1
<1>4. ServicesFollow'
  <2>1. CASE Spend /\ UNCHANGED held
    <3>1. UNCHANGED <<ini, works, stage, result>>
      BY <2>1 DEF held, config, saving
    <3> QED
      BY <1>b, <1>1, <1>2, <3>1, RootsKept DEF ServicesFollow
  <2>2. CASE WriteKey(RootsKey)
    BY <2>2 DEF WriteKey, ServicesFollow
  <2> QED
    BY <1>1, <2>1, <2>2 DEF Between
<1> DEFINE c == Call(ini', "list", root, "none", TRUE)
<1>5. Place(ini', root) \in Places \cup {"none"}
  <2>1. CASE Spend /\ UNCHANGED held
    <3>1. UNCHANGED ini /\ RootsSound
      BY <1>b, <2>1, RootsFit DEF held, config
    <3> QED
      BY <3>1 DEF RootsSound
  <2>2. CASE WriteKey(RootsKey)
    <3>1. UNCHANGED works
      BY <2>2 DEF WriteKey
    <3>2. Place(ini, root)' = Place(ini', root)
      BY <3>1 DEF Place, Roots, Valid, Value, Fallback
    <3> QED
      BY <1>3, <3>2 DEF RootsSound
  <2> QED
    BY <1>1, <2>1, <2>2 DEF Between
<1>6. c \in Calls
  BY <1>5 DEF Call, Calls, CallStages
<1>7. c.stage = "queued" /\ (c.alone => Outstanding = {})
  BY DEF Call
<1>8. interval' \in Values
  BY <1>b, <1>1 DEF BrowserInv, MemoryTypeOK
<1> HIDE DEF c
<1>9. BrowserInv'
  BY <1>b, <1>1, <1>2, <1>6, <1>7, <1>8, AppendFits DEF c
<1> QED
  BY <1>2, <1>4, <1>9 DEF MemoryInv, BrowserInv

\* A pool thread lists a directory, resolves a path, opens a file or reads it.
LEMMA ReaderFits ==
  ASSUME BrowserInv, TypeOK', Reader
  PROVE  BrowserInv'
<1>1. PICK i \in DOMAIN calls : List(i) \/ Resolve(i) \/ Open(i) \/ ReadAll(i)
  BY DEF Reader
<1>2. calls[i] \in Calls /\ CallFits(calls[i]) /\ calls[i].stage \notin {"shown", "lost"}
  <2>1. calls \in Seq(Calls) /\ CallFits(calls[i])
    BY DEF BrowserInv, MemoryTypeOK, CallsFit
  <2>2. calls[i] \in Calls
    BY <2>1
  <2>3. calls[i].stage \in {"queued", "resolved", "opened"}
    BY <1>1 DEF List, Resolve, Open, ReadAll
  <2> QED
    BY <2>1, <2>2, <2>3
<1>3. target \in [Tree -> Tree \cup {Nothing}]
  BY MemoryAssumption DEF BrowserInv, MemoryTypeOK
<1>4. CASE Fails(i)
  BY <1>2, <1>4, FailsFits
<1>5. CASE List(i) /\ ~Fails(i)
  <2> DEFINE d == [calls[i] EXCEPT !.stage = "listed"]
  <2>1. Becomes(i, d) /\ calls[i].op = "list"
    BY <1>5 DEF List
  <2>2. /\ d \in Calls /\ d.stage = "listed" /\ d.place = calls[i].place
        /\ d.op = calls[i].op /\ d.switch = calls[i].switch /\ d.alone = calls[i].alone
    BY <1>2 DEF Calls, CallStages
  <2> HIDE DEF d
  <2>3. CallFits(d)
    BY <2>2 DEF CallFits
  <2> QED
    BY <1>2, <2>1, <2>2, <2>3, BecomesFits
<1>6. CASE Resolve(i) /\ ~Fails(i)
  <2> DEFINE f == target[Entry(i)]
             d == [calls[i] EXCEPT !.stage = "resolved", !.file = f]
  <2>1. /\ Becomes(i, d) /\ calls[i].op = "read" /\ Resolves(Entry(i), TRUE)
        /\ Entry(i).place = calls[i].place
    BY <1>6 DEF Resolve, Entry
  <2>2. /\ f \in Tree /\ f \in Markdown /\ calls[i].place \in Under[f]
    BY <1>3, <2>1 DEF Resolves
  <2>3. target[f] = f
    BY <2>1, MemoryAssumption DEF Resolves, BrowserInv, MemoryTypeOK
  <2> HIDE DEF f
  <2>4. /\ d \in Calls /\ d.stage = "resolved" /\ d.file = f /\ d.place = calls[i].place
        /\ d.op = calls[i].op /\ d.switch = calls[i].switch /\ d.alone = calls[i].alone
    BY <1>2, <2>2 DEF Calls, CallStages
  <2> HIDE DEF d
  <2>5. CallFits(d)
    BY <2>1, <2>2, <2>3, <2>4 DEF CallFits, Proper
  <2> QED
    BY <1>2, <2>1, <2>4, <2>5, BecomesFits
<1>7. CASE Open(i) /\ ~Fails(i)
  <2> DEFINE f == target[calls[i].file]
             d == [calls[i] EXCEPT !.stage = "opened", !.file = f]
  <2>1. Becomes(i, d) /\ calls[i].stage = "resolved" /\ f # Nothing
    BY <1>7 DEF Open
  <2>2. /\ Proper(calls[i]) /\ (calls[i].moved \/ f = calls[i].file)
        /\ f \in Tree /\ calls[i].op # "list"
    BY <1>2, <1>3, <2>1 DEF CallFits, Proper
  <2> HIDE DEF f
  <2>3. /\ d \in Calls /\ d.stage = "opened" /\ d.file = f /\ d.place = calls[i].place
        /\ d.moved = calls[i].moved /\ d.op = calls[i].op
        /\ d.switch = calls[i].switch /\ d.alone = calls[i].alone
    BY <1>2, <2>2 DEF Calls, CallStages
  <2> HIDE DEF d
  <2>4. CallFits(d)
    BY <2>2, <2>3 DEF CallFits, Proper
  <2> QED
    BY <1>2, <2>1, <2>3, <2>4, BecomesFits
<1>8. CASE ReadAll(i) /\ ~Fails(i)
  <2> DEFINE over == calls[i].file \in large
             d == [calls[i] EXCEPT !.stage = "read", !.over = over]
  <2>1. Becomes(i, d) /\ calls[i].stage = "opened" /\ over = FALSE
    BY <1>8 DEF ReadAll
  <2> HIDE DEF over
  <2>2. /\ d \in Calls /\ d.stage = "read" /\ d.file = calls[i].file /\ ~d.over
        /\ d.place = calls[i].place /\ d.moved = calls[i].moved /\ d.op = calls[i].op
        /\ d.switch = calls[i].switch /\ d.alone = calls[i].alone
    BY <1>2, <2>1 DEF Calls, CallStages
  <2> HIDE DEF d
  <2>3. CallFits(d)
    BY <1>2, <2>1, <2>2 DEF CallFits, Proper
  <2> QED
    BY <1>2, <2>1, <2>2, <2>3, BecomesFits
<1> QED
  BY <1>1, <1>4, <1>5, <1>6, <1>7, <1>8

\* Others rearrange the tree.
LEMMA ExchangeFits ==
  ASSUME BrowserInv, TypeOK', NEW layout \in Layouts, Exchange(layout)
  PROVE  BrowserInv'
<1>1. /\ target' = layout
      /\ UNCHANGED <<currentRoot, shownList, shownFile, large, interval>>
  BY DEF Exchange
<1>2. calls \in Seq(Calls)
  BY DEF BrowserInv, MemoryTypeOK
<1>3. ASSUME NEW i \in DOMAIN calls
      PROVE  /\ calls'[i] \in Calls /\ CallFits(calls[i])'
             /\ calls'[i].place = calls[i].place /\ calls'[i].op = calls[i].op
             /\ calls'[i].stage = calls[i].stage /\ calls'[i].switch = calls[i].switch
             /\ calls'[i].alone = calls[i].alone
  <2> DEFINE c == calls[i]
             d == calls'[i]
             exchanged == c.stage = "resolved" /\ layout[c.file] # c.file
  <2>1. c \in Calls /\ CallFits(c)
    BY <1>2 DEF BrowserInv, CallsFit
  <2>2. d = IF exchanged THEN [c EXCEPT !.moved = TRUE] ELSE c
    BY DEF Exchange
  <2>3. CASE exchanged
    <3>1. d = [c EXCEPT !.moved = TRUE]
      BY <2>2, <2>3
    <3>2. c.stage = "resolved"
      BY <2>3
    <3> HIDE DEF d, c, exchanged
    <3>3. /\ d \in Calls /\ d.moved /\ d.file = c.file /\ d.place = c.place
          /\ d.op = c.op /\ d.stage = c.stage /\ d.switch = c.switch /\ d.alone = c.alone
      BY <2>1, <3>1 DEF Calls
    <3>4. Proper(c)
      BY <2>1, <3>2 DEF CallFits
    <3>5. CallFits(calls[i])'
      BY <3>2, <3>3, <3>4, <2>1 DEF CallFits, Proper, d
    <3> QED
      BY <3>3, <3>5 DEF c, d
  <2>4. CASE ~exchanged
    <3>1. d = c
      BY <2>2, <2>4
    <3>2. c.stage = "resolved" => layout[c.file] = c.file
      BY <2>4
    <3> HIDE DEF exchanged
    <3>3. CallFits(calls[i])'
      BY <1>1, <2>1, <3>1, <3>2 DEF CallFits, Proper
    <3> QED
      BY <2>1, <3>1, <3>3
  <2> QED
    BY <2>3, <2>4
<1>4. calls' \in Seq(Calls) /\ DOMAIN calls' = DOMAIN calls
  <2>1. DOMAIN calls = 1..Len(calls) /\ Len(calls) \in Nat
    BY <1>2
  <2>2. DOMAIN calls' = DOMAIN calls /\ calls' \in [1..Len(calls) -> Calls]
    BY <1>3, <2>1 DEF Exchange
  <2> QED
    BY <2>1, <2>2
<1>5. MemoryTypeOK'
  BY <1>1, <1>4 DEF BrowserInv, MemoryTypeOK
<1>6. CallsFit'
  BY <1>3, <1>4 DEF CallsFit
<1>7. AloneIsDone' /\ CleanSwitch'
  BY <1>1, <1>3, <1>4 DEF BrowserInv, AloneIsDone, CleanSwitch
<1>8. ShownWithinRules'
  BY <1>1 DEF BrowserInv, ShownWithinRules
<1> QED
  BY <1>5, <1>6, <1>7, <1>8 DEF BrowserInv

-----------------------------------------------------------------------------
LEMMA MemoryInvariant == MemorySpec => []MemoryInv
<1>1. MemoryInit => MemoryInv
  <2> SUFFICES ASSUME MemoryInit
               PROVE  MemoryInv
    OBVIOUS
  <2>1. SettingsInv
    BY InitSettings DEF MemoryInit
  <2> QED
    <3>1. TypeOK /\ ValidStored
      BY <2>1 DEF SettingsInv
    <3>2. /\ large \in SUBSET Tree /\ target \in Layouts
          /\ BrowserStarted(currentRoot, ini, shownList, shownFile, calls, interval)
      BY MemoryAssumption DEF MemoryInit
    <3>3. BrowserInv /\ ServicesFollow
      BY <3>1, <3>2, StartedFits
    <3> QED
      BY <2>1, <3>3 DEF MemoryInv, BrowserInv
<1>2. MemoryInv /\ [MemoryNext]_allVars => MemoryInv'
  <2> SUFFICES ASSUME MemoryInv, [MemoryNext]_allVars
               PROVE  MemoryInv'
    OBVIOUS
  <2>b. BrowserInv /\ SettingsInv /\ TypeOK /\ ServicesFollow
    BY DEF MemoryInv, BrowserInv, SettingsInv
  \* The settings are left alone by the steps of the browser.
  <2>h. ASSUME UNCHANGED held, steps' \in 0..MaxSteps,
               UNCHANGED <<currentRoot, interval>>
        PROVE  SettingsInv' /\ TypeOK' /\ ServicesFollow'
    <3>1. SettingsInv' /\ TypeOK'
      BY <2>b, <2>h, HeldSettings DEF SettingsInv
    <3>2. UNCHANGED <<ini, stage, result>>
      BY <2>h DEF held, config, saving
    <3> QED
      BY <2>b, <2>h, <3>1, <3>2, StillFollows
  <2>u. ASSUME UNCHANGED vars
        PROVE  UNCHANGED held /\ steps' \in 0..MaxSteps
    BY <2>b, <2>u DEF vars, TypeOK
  <2>1. CASE Alone
    BY <2>1, AloneFits
  <2>2. CASE Announce
    BY <2>2, AnnounceFits
  <2>3. CASE Restarted
    BY <2>3, RestartFits
  <2>4. CASE Clicks
    BY <2>4, ClickFits, SetRootFits DEF Clicks
  <2>5. CASE Reader
    <3>1. UNCHANGED <<vars, currentRoot, interval>>
      BY <2>5 DEF Reader, List, Resolve, Open, ReadAll, Fails, Becomes
    <3> QED
      BY <2>b, <2>5, <2>h, <2>u, <3>1, ReaderFits DEF MemoryInv, BrowserInv
  <2>6. ASSUME NEW i \in DOMAIN calls, OnAnswer(i)
        PROVE  MemoryInv'
    <3>1. UNCHANGED <<vars, currentRoot, interval>>
      BY <2>6 DEF OnAnswer
    <3> QED
      BY <2>b, <2>6, <2>h, <2>u, <3>1, AnswerFits DEF MemoryInv, BrowserInv
  <2>7. ASSUME NEW f \in Tree, Grow(f)
        PROVE  MemoryInv'
    <3>1. /\ UNCHANGED <<held, currentRoot, shownList, shownFile, calls, target, interval>>
          /\ Spend /\ large' \in SUBSET Tree
      BY <2>7 DEF Grow, MemoryInv, MemoryTypeOK
    <3>2. SettingsInv' /\ TypeOK' /\ ServicesFollow'
      BY <2>b, <2>h, <3>1, SpendType
    <3> QED
      BY <3>1, <3>2 DEF MemoryInv, MemoryTypeOK, CallsFit, CallFits, Proper,
         ShownWithinRules, AloneIsDone, CleanSwitch
  <2>8. ASSUME NEW layout \in Layouts, Exchange(layout)
        PROVE  MemoryInv'
    <3>1. UNCHANGED <<held, currentRoot, interval>> /\ Spend
      BY <2>8 DEF Exchange
    <3>2. SettingsInv' /\ TypeOK' /\ ServicesFollow'
      BY <2>b, <2>h, <3>1, SpendType
    <3> QED
      BY <2>b, <2>8, <3>2, ExchangeFits DEF MemoryInv, BrowserInv
  <2>9. CASE UNCHANGED allVars
    <3>1. UNCHANGED <<vars, currentRoot, shownList, shownFile, calls, large, target, interval>>
      BY <2>9 DEF allVars, memVars, browser, outside
    <3>2. SettingsInv' /\ TypeOK' /\ ServicesFollow'
      BY <2>h, <2>u, <3>1
    <3> QED
      BY <3>1, <3>2 DEF MemoryInv, MemoryTypeOK, CallsFit, CallFits, Proper,
         ShownWithinRules, AloneIsDone, CleanSwitch
  <2> QED
    BY <2>1, <2>2, <2>3, <2>4, <2>5, <2>6, <2>7, <2>8, <2>9 DEF MemoryNext
<1> QED
  BY <1>1, <1>2, PTL DEF MemorySpec

\* The state of the browser and of the settings below it is always well formed
\* (memory_controller.cpp, config_service.cpp).
THEOREM MemoryTypes == MemorySpec => []MemoryTypeOK
  BY MemoryInvariant, PTL DEF MemoryInv

\* The browser's steps are stutters of the settings, its slots part of their steps
\* (app_context.cpp:118-129, memory_controller.cpp:67-77).
THEOREM SettingsRunAlone == MemorySpec => SettingsAsAlone
<1>1. MemoryInit => Init
  BY DEF MemoryInit
<1>2. [MemoryNext]_allVars => [Next]_held
  <2> SUFFICES ASSUME [MemoryNext]_allVars
               PROVE  Next \/ UNCHANGED held
    OBVIOUS
  <2>1. CASE Alone \/ Announce \/ Restarted
    BY <2>1 DEF Alone, Announce, Restarted, Next
  <2>2. CASE Clicks
    <3>1. WriteKey(RootsKey) => Next
      BY MemoryAssumption DEF Next, Inner, Worker
    <3> QED
      BY <2>2, <3>1 DEF Clicks, Refresh, SetRoot, SelectFile, Between
  <2>3. CASE Reader
    BY <2>3 DEF Reader, List, Resolve, Open, ReadAll, Fails, Becomes, vars
  <2>4. CASE \E i \in DOMAIN calls : OnAnswer(i)
    BY <2>4 DEF OnAnswer, vars
  <2>5. CASE \E f \in Tree : Grow(f)
    BY <2>5 DEF Grow
  <2>6. CASE \E layout \in Layouts : Exchange(layout)
    BY <2>6 DEF Exchange
  <2>7. CASE UNCHANGED allVars
    BY <2>7 DEF allVars, vars
  <2> QED
    BY <2>1, <2>2, <2>3, <2>4, <2>5, <2>6, <2>7 DEF MemoryNext
<1> QED
  BY <1>1, <1>2, PTL DEF MemorySpec, SettingsAsAlone

\* With the browser and its services running on them, settings stay valid
\* (config_service.cpp:330-351).
THEOREM MemoryStoredIsValid == MemorySpec => []ValidStored
  BY MemoryInvariant, PTL DEF MemoryInv, SettingsInv

\* And a save that is answered with success is stored
\* (settings_controller.cpp:276-311).
THEOREM MemoryAppliedIsStored == MemorySpec => []AppliedIsStored
  BY MemoryInvariant, PTL DEF MemoryInv, SettingsInv

\* ShownWithinRules: content is within the cap, and that of a Markdown file inside
\* its root unless that file itself was exchanged between the check and the opening
\* (memory_service.cpp:72-86, path_guard.cpp:27-71).
THEOREM ShownIsWithinRules == MemorySpec => []ShownWithinRules
  BY MemoryInvariant, PTL DEF MemoryInv

\* The browser and the vitals timer follow the settings that were applied
\* (app_context.cpp:118-129, memory_controller.cpp:67-77).
THEOREM ServicesDoFollow == MemorySpec => []ServicesFollow
  BY MemoryInvariant, PTL DEF MemoryInv

\* After a clean change of root nothing of another root is shown again
\* (memory_controller.cpp:26-65).
THEOREM SwitchIsClean == MemorySpec => []CleanSwitch
  BY MemoryInvariant, PTL DEF MemoryInv
=============================================================================
