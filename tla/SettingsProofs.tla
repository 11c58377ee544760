--------------------------- MODULE SettingsProofs ---------------------------
(* Proofs about Settings.  The step lemmas speak of a step of Settings and of *)
(* one that leaves it alone, so that Memory can use them for its own steps.   *)
EXTENDS Settings, TLAPS

\* Only program settings are ever refused after the start.
DoubtIsProgram == doubt \in Programs \cup {"none"}

\* A save writes only fields it has found valid.
SnapshotValid ==
  stage = "write" => \A k \in Plain : snapshot[k] \in {"default", "other"}

\* What the save has written so far is in the map.
WrittenSoFar ==
  stage = "write" => \A k \in Plain \ todo : ini[k] = snapshot[k]

\* A save that is answered has a result.
AnswerHasResult == stage = "answered" => result # "none"

SettingsInv ==
  /\ TypeOK
  /\ ValidStored
  /\ DoubtIsProgram
  /\ SnapshotValid
  /\ WrittenSoFar
  /\ AppliedIsStored
  /\ AnswerHasResult

-----------------------------------------------------------------------------
\* The fallback of a key is a value; of a setting that names no program, it is
\* the default.
LEMMA FallbackType ==
  ASSUME NEW k \in Keys
  PROVE  /\ Fallback(k) \in Values
         /\ k \in Plain => Fallback(k) = "default"
  BY DEF Fallback, Values, Plain

\* What a started program finds in a file: values, and valid ones where no
\* program is named.
LEMMA LoadedFits ==
  ASSUME NEW file \in [Keys -> Stored],
         works \in [Programs -> SUBSET {"default", "other"}]
  PROVE  /\ Loaded(file) \in [Keys -> Stored]
         /\ Reload(file) \in [Keys -> Values]
         /\ \A k \in Plain : Valid(k, Value(Loaded(file), k))
<1>1. Loaded(file) \in [Keys -> Stored]
  BY FallbackType DEF Loaded, Stored
<1>2. ASSUME NEW k \in Keys
      PROVE  Reload(file)[k] \in Values
  <2>1. CASE k \in Refused(file)
    BY <2>1 DEF Reload, Blank, Values
  <2>2. CASE k \notin Refused(file)
    <3>1. Valid(k, Value(file, k))
      BY <2>2 DEF Refused
    <3>2. Value(file, k) \in {"default", "other"}
      BY <3>1 DEF Valid, Programs
    <3> QED
      BY <2>2, <3>2 DEF Reload, Values
  <2> QED
    BY <2>1, <2>2
<1>3. ASSUME NEW k \in Plain
      PROVE  Valid(k, Value(Loaded(file), k))
  <2>1. k \in Keys /\ k \notin Programs
    BY DEF Plain
  <2>2. Fallback(k) = "default"
    BY <2>1, FallbackType
  <2>3. CASE k \in Refused(file)
    BY <2>1, <2>2, <2>3 DEF Loaded, Value, Valid
  <2>4. CASE k \notin Refused(file)
    BY <2>1, <2>2, <2>4 DEF Loaded, Refused, Value, Valid
  <2> QED
    BY <2>3, <2>4
<1> QED
  BY <1>1, <1>2, <1>3 DEF Reload

\* What the file gives back is a file.
LEMMA RereadType ==
  ASSUME NEW map \in [Keys -> Stored]
  PROVE  Reread(map) \in [Keys -> Stored]
  BY DEF Reread, Stored

\* Validity of a stored value of a plain key, spelled out.
LEMMA PlainValid ==
  ASSUME NEW map \in [Keys -> Stored], NEW k \in Plain
  PROVE  Valid(k, Value(map, k)) <=> map[k] \in {"default", "other", "absent"}
<1>1. k \in Keys /\ k \notin Programs /\ Fallback(k) = "default"
  BY FallbackType DEF Plain
<1> QED
  BY <1>1 DEF Valid, Value

-----------------------------------------------------------------------------
\* The invariant holds when the program starts.
LEMMA InitSettings == Init => SettingsInv
<1> SUFFICES ASSUME Init
             PROVE  SettingsInv
  OBVIOUS
<1>1. PICK file \in Files : /\ ini = Loaded(file)
                            /\ fields = Reload(file)
                            /\ disk = IF Refused(file) = {} THEN file ELSE ini
  BY DEF Init
<1>2. file \in [Keys -> Stored]
  BY SettingsAssumption DEF Stored, Values
<1>3. /\ Loaded(file) \in [Keys -> Stored]
      /\ Reload(file) \in [Keys -> Values]
      /\ \A k \in Plain : Valid(k, Value(Loaded(file), k))
  BY <1>2, LoadedFits DEF Init
<1>4. TypeOK
  BY <1>1, <1>2, <1>3, SettingsAssumption DEF Init, TypeOK, Stages, Results
<1> QED
  BY <1>1, <1>3, <1>4 DEF Init, SettingsInv, ValidStored, DoubtIsProgram,
     SnapshotValid, WrittenSoFar, AppliedIsStored, AnswerHasResult

\* A step that leaves the settings alone keeps the invariant.
LEMMA HeldSettings ==
  ASSUME SettingsInv, UNCHANGED held, steps' \in 0..MaxSteps
  PROVE  SettingsInv'
  BY DEF SettingsInv, held, config, saving, TypeOK, ValidStored, Valid, Value,
     Fallback, DoubtIsProgram, SnapshotValid, WrittenSoFar, AppliedIsStored, AnswerHasResult

\* So does each step of Settings.
LEMMA SpendType == TypeOK /\ Spend => steps' \in 0..MaxSteps
  BY SettingsAssumption DEF TypeOK, Spend

LEMMA StepSettings ==
  ASSUME SettingsInv, Inner \/ OnSaved \/ Restart
  PROVE  SettingsInv'
<1> USE DEF SettingsInv
<1>t. TypeOK /\ ValidStored /\ DoubtIsProgram
  OBVIOUS
<1>p. \A k \in Plain : ini[k] \in {"default", "other", "absent"}
  BY PlainValid DEF TypeOK, ValidStored
\* What the file and the map hold of the plain keys decides about ValidStored.
<1>v. ASSUME ini' \in [Keys -> Stored],
             \A k \in Plain : ini'[k] \in {"default", "other", "absent"}
      PROVE  ValidStored'
  <2>1. \A k \in Plain : Fallback(k)' = "default"
    BY DEF Fallback, Plain
  <2> QED
    BY <1>v, <2>1 DEF ValidStored, Valid, Value, Plain
<1>1. ASSUME NEW k \in Keys, NEW v \in Values, Edit(k, v)
      PROVE  SettingsInv'
  <2>1. TypeOK'
    BY <1>1, SpendType DEF Edit, TypeOK, config, saving
  <2>2. ValidStored'
    BY <1>1, <1>p, <1>v, <2>1 DEF Edit, config, TypeOK
  <2> QED
    BY <1>1, <2>1, <2>2 DEF Edit, config, saving, DoubtIsProgram, SnapshotValid,
       WrittenSoFar, AppliedIsStored, AnswerHasResult
<1>2. ASSUME ResetDefaults
      PROVE  SettingsInv'
  <2>1. \A k \in Keys : k \notin Refused(ini) /\ k = "packages.queryCommand"
                          => Value(ini, k) \in Values
    BY DEF TypeOK, Refused, Valid, Programs, Values
  <2>2. fields' \in [Keys -> Values]
    BY <1>2, <2>1 DEF ResetDefaults, Values
  <2>3. doubt' \in Programs \cup {"none"} /\ doubt' \in Keys \cup {"none"}
    BY <1>2 DEF ResetDefaults, Refused, Programs
  <2>4. TypeOK'
    BY <1>2, <2>2, <2>3, SpendType DEF ResetDefaults, TypeOK, saving
  <2>5. ValidStored'
    BY <1>2, <1>p, <1>v, <2>4 DEF ResetDefaults, TypeOK
  <2> QED
    BY <1>2, <2>3, <2>4, <2>5 DEF ResetDefaults, saving, DoubtIsProgram,
       SnapshotValid, WrittenSoFar, AppliedIsStored, AnswerHasResult
<1>3. ASSUME Save
      PROVE  SettingsInv'
  <2>1. TypeOK'
    BY <1>3, SpendType DEF Save, TypeOK, config, Stages
  <2>2. ValidStored'
    BY <1>3, <1>p, <1>v, <2>1 DEF Save, config, TypeOK
  <2> QED
    BY <1>3, <2>1, <2>2 DEF Save, config, DoubtIsProgram, SnapshotValid,
       WrittenSoFar, AppliedIsStored, AnswerHasResult
<1>4. ASSUME NEW k \in Keys, Refuse(k)
      PROVE  SettingsInv'
  <2>1. k \in Programs
    BY <1>4 DEF Refuse, Refused, ValidStored, Plain
  <2>2. TypeOK'
    BY <1>4 DEF Refuse, TypeOK, saving
  <2>3. ValidStored'
    BY <1>4, <1>p, <1>v, <2>2 DEF Refuse, TypeOK
  <2> QED
    BY <1>4, <2>1, <2>2, <2>3 DEF Refuse, saving, DoubtIsProgram, SnapshotValid,
       WrittenSoFar, AppliedIsStored, AnswerHasResult
<1>5. ASSUME InvalidAndReset
      PROVE  SettingsInv'
  <2>1. doubt \in Programs /\ doubt \in Keys
    BY <1>5 DEF InvalidAndReset, GuiFree, DoubtIsProgram, Programs
  <2>2. Fallback(doubt) \in Stored
    BY <2>1, FallbackType DEF Stored
  <2>3. ini' \in [Keys -> Stored] /\ \A k \in Plain : ini'[k] = ini[k]
    BY <1>5, <2>1, <2>2 DEF InvalidAndReset, TypeOK, Plain
  <2>4. TypeOK'
    BY <1>5, <2>3 DEF InvalidAndReset, TypeOK, saving
  <2>5. ValidStored'
    BY <1>p, <1>v, <2>3
  <2> QED
    BY <1>5, <2>3, <2>4, <2>5 DEF InvalidAndReset, saving, DoubtIsProgram,
       SnapshotValid, WrittenSoFar, AppliedIsStored, AnswerHasResult
<1>6. ASSUME Validate
      PROVE  SettingsInv'
  <2>1. TypeOK'
    BY <1>6 DEF Validate, TypeOK, config, Stages, Results
  <2>2. ValidStored'
    BY <1>6, <1>p, <1>v, <2>1 DEF Validate, config, TypeOK
  <2>3. SnapshotValid'
    BY <1>6 DEF Validate, SnapshotValid, Valid, Plain
  <2>4. WrittenSoFar'
    BY <1>6 DEF Validate, WrittenSoFar, Plain
  <2> QED
    BY <1>6, <2>1, <2>2, <2>3, <2>4 DEF Validate, config, DoubtIsProgram,
       AppliedIsStored, AnswerHasResult
<1>7. ASSUME NEW k \in Keys, WriteKey(k)
      PROVE  SettingsInv'
  <2>1. ini' \in [Keys -> Stored]
    BY <1>7 DEF WriteKey, TypeOK, Stored
  <2>2. TypeOK'
    BY <1>7, <2>1 DEF WriteKey, TypeOK
  <2>3. ValidStored'
    BY <1>7, <1>p, <1>v, <2>1 DEF WriteKey, TypeOK, SnapshotValid, Plain
  <2>4. WrittenSoFar'
    BY <1>7 DEF WriteKey, WrittenSoFar, TypeOK, Plain
  <2> QED
    BY <1>7, <2>2, <2>3, <2>4 DEF WriteKey, DoubtIsProgram, SnapshotValid,
       AppliedIsStored, AnswerHasResult
<1>8. ASSUME Sync
      PROVE  SettingsInv'
  <2>1. TypeOK'
    BY <1>8 DEF Sync, TypeOK, Stages, Results
  <2>2. ValidStored'
    BY <1>8, <1>p, <1>v, <2>1 DEF Sync, TypeOK
  <2>3. AppliedIsStored'
    BY <1>8 DEF Sync, WrittenSoFar, AppliedIsStored
  <2> QED
    BY <1>8, <2>1, <2>2, <2>3 DEF Sync, DoubtIsProgram, SnapshotValid, WrittenSoFar,
       AnswerHasResult
<1>9. ASSUME OnSaved
      PROVE  SettingsInv'
  <2>1. TypeOK'
    BY <1>9 DEF OnSaved, TypeOK, config, Stages
  <2>2. ValidStored'
    BY <1>9, <1>p, <1>v, <2>1 DEF OnSaved, config, TypeOK
  <2> QED
    BY <1>9, <2>1, <2>2 DEF OnSaved, config, DoubtIsProgram, SnapshotValid,
       WrittenSoFar, AppliedIsStored, AnswerHasResult
<1>10. ASSUME NEW k \in Programs, Install(k)
       PROVE  SettingsInv'
  <2>1. works' \in [Programs -> SUBSET {"default", "other"}]
    BY <1>10 DEF Install, TypeOK
  <2>2. TypeOK'
    BY <1>10, <2>1, SpendType DEF Install, TypeOK, config, saving
  <2>3. ValidStored'
    BY <1>10, <1>p, <1>v, <2>2 DEF Install, config, TypeOK
  <2> QED
    BY <1>10, <2>2, <2>3 DEF Install, config, saving, DoubtIsProgram,
       SnapshotValid, WrittenSoFar, AppliedIsStored, AnswerHasResult
<1>11. ASSUME Restart
       PROVE  SettingsInv'
  <2> DEFINE file == Reread(disk)
  <2>1. file \in [Keys -> Stored]
    BY RereadType DEF TypeOK
  <2>2. /\ Loaded(file) \in [Keys -> Stored]
        /\ Reload(file) \in [Keys -> Values]
        /\ \A k \in Plain : Valid(k, Value(Loaded(file), k))
    BY <2>1, LoadedFits DEF TypeOK
  <2>3. \A k \in Plain : Loaded(file)[k] \in {"default", "other", "absent"}
    BY <2>2, PlainValid
  <2>4. TypeOK'
    BY <1>11, <2>2, SpendType DEF Restart, TypeOK, Stages, Results
  <2>5. ValidStored'
    BY <1>11, <1>v, <2>2, <2>3 DEF Restart
  <2> QED
    BY <1>11, <2>4, <2>5 DEF Restart, DoubtIsProgram, SnapshotValid, WrittenSoFar,
       AppliedIsStored, AnswerHasResult
<1> QED
  BY <1>1, <1>2, <1>3, <1>4, <1>5, <1>6, <1>7, <1>8, <1>9, <1>10, <1>11
     DEF Inner, User, Getter, Worker, Outside

-----------------------------------------------------------------------------
\* The strengthening of the invariants below is inductive.
LEMMA SettingsInvariant == Spec => []SettingsInv
<1>1. SettingsInv /\ [Next]_vars => SettingsInv'
  <2> SUFFICES ASSUME SettingsInv, [Next]_vars
               PROVE  SettingsInv'
    OBVIOUS
  <2>1. CASE Next
    BY <2>1, StepSettings DEF Next
  <2>2. CASE UNCHANGED vars
    BY <2>2, HeldSettings DEF vars, SettingsInv, TypeOK
  <2> QED
    BY <2>1, <2>2
<1> QED
  BY InitSettings, <1>1, PTL DEF Spec

\* The state of the settings is always well formed (config_service.cpp,
\* settings_controller.cpp).
THEOREM SettingsTypes == Spec => []TypeOK
  BY SettingsInvariant, PTL DEF SettingsInv

\* No plain setting is ever invalid once the program has started, whatever is
\* typed, saved, reset, killed and reread (config_service.cpp:330-351).
THEOREM StoredIsValid == Spec => []ValidStored
  BY SettingsInvariant, PTL DEF SettingsInv

\* A save answered with success is in the map and in the file
\* (settings_controller.cpp:276-311).
THEOREM AppliedIsInFile == Spec => []AppliedIsStored
  BY SettingsInvariant, PTL DEF SettingsInv
=============================================================================
