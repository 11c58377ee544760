------------------------------ MODULE Settings ------------------------------
(***************************************************************************)
(* ConfigService and SettingsController.  The settings live in one INI     *)
(* file.  All QSettings objects of the process share one map of it, so     *)
(* what a pool thread sets is seen at once by the getters of the GUI       *)
(* thread, key by key, and any sync writes the whole map.  A getter        *)
(* validates what it reads and resets an invalid value, in two accesses    *)
(* between which a save may write.  A save hands a copy of the fields to a *)
(* pool thread, which validates all of them before it writes the first.    *)
(*                                                                         *)
(* A value is the default, another valid one, or bad.  A value that names  *)
(* a program is valid while that program is installed, the default too.    *)
(* An INI file gives booleans back as text, which the getter refuses.      *)
(***************************************************************************)
EXTENDS Integers, FiniteSets

CONSTANTS
  Keys,      \* the settings of the instance, among those setValue knows
  Position,  \* where a key stands in SettingsSnapshot::values()
  Files,     \* the INI files the program may find when it starts
  MaxSteps   \* bound on what users and the outside do

Values == {"default", "other", "bad"}
Stored == Values \cup {"absent", "text"}

ASSUME SettingsAssumption ==
  /\ IsFiniteSet(Keys)
  /\ "none" \notin Keys
  /\ Position \in [Keys -> Nat]
  /\ Files \subseteq [Keys -> Values \cup {"absent"}]
  /\ MaxSteps \in Nat

\* Settings whose value must name an installed program, and boolean ones.
Programs == Keys \cap {"openclaw.binary", "packages.queryCommand"}
Flags    == Keys \cap {"ui.reduceMotion"}
Plain    == Keys \ Programs

Stages  == {"idle", "validate", "write", "answered"}
Results == {"none", "applied", "refused", "unwritten"}

VARIABLES
  ini,        \* the process's map of the INI file
  disk,       \* the INI file
  works,      \* program values that name an installed program now
  doubt,      \* the key whose value a getter has refused and not yet reset
  fields,     \* SettingsController's editable fields
  stage,      \* how far the running save is; busy_ is stage # "idle"
  snapshot,   \* the fields it was given
  todo,       \* the keys it has not written yet
  result,     \* what it, or the last one, answered
  steps

config == <<ini, disk, doubt>>
saving == <<stage, snapshot, todo, result>>
held == <<config, works, fields, saving>>
vars == <<held, steps>>

GuiFree == doubt = "none"
Spend == steps < MaxSteps /\ steps' = steps + 1

-----------------------------------------------------------------------------
\* The value a key is reset to: the default, or nothing usable if it names a
\* program that is not installed.
Fallback(k) == IF k \in Programs /\ "default" \notin works[k] THEN "bad" ELSE "default"

\* QSettings::value(key, fallback).
Value(map, k) == IF map[k] = "absent" THEN Fallback(k) ELSE map[k]

\* The check of a getter.
Valid(k, v) == IF k \in Programs THEN v \in works[k] ELSE v \in {"default", "other"}

Refused(map) == {k \in Keys : ~Valid(k, Value(map, k))}

\* What a field is left at when its getter fails: empty or 0, false for a flag.
Blank(k) == IF k \in Flags THEN "default" ELSE "bad"

\* A started program reads every key once, by reload() at the latest, and resets
\* those refused.
Loaded(file) ==
  [k \in Keys |-> IF k \in Refused(file) THEN Fallback(k) ELSE file[k]]

\* Their fields stay empty.
Reload(file) ==
  [k \in Keys |-> IF k \in Refused(file) THEN Blank(k) ELSE Value(file, k)]

Init ==
  /\ works \in [Programs -> SUBSET {"default", "other"}]
  /\ \E file \in Files :
       /\ ini = Loaded(file)
       /\ fields = Reload(file)
       /\ disk = IF Refused(file) = {} THEN file ELSE ini
  /\ doubt = "none"
  /\ stage = "idle"
  /\ snapshot = fields
  /\ todo = {}
  /\ result = "none"
  /\ steps = 0

-----------------------------------------------------------------------------
\* The setters: a field takes what the user types, also while a save runs.
Edit(k, v) ==
  /\ GuiFree
  /\ Spend
  /\ v # fields[k]
  /\ v # "bad" \/ k \notin Flags
  /\ fields' = [fields EXCEPT ![k] = v]
  /\ UNCHANGED <<config, works, saving>>

\* resetDefaults: the fields only.  The gateway address it sets is valid but not
\* the default one, and the package command is the configured one, if usable.
ResetDefaults ==
  /\ GuiFree
  /\ Spend
  /\ fields' = [k \in Keys |->
       CASE k = "gateway.baseUrl" -> "other"
         [] k = "packages.queryCommand" ->
              IF k \in Refused(ini) THEN "bad" ELSE Value(ini, k)
         [] OTHER -> "default"]
  /\ doubt' = IF "packages.queryCommand" \in Refused(ini)
              THEN "packages.queryCommand" ELSE "none"
  /\ UNCHANGED <<ini, disk, works, saving>>

\* Some component reads a setting and the getter refuses the value.
Refuse(k) ==
  /\ GuiFree
  /\ k \in Refused(ini)
  /\ doubt' = k
  /\ UNCHANGED <<ini, disk, works, fields, saving, steps>>

\* invalidAndReset: the default is set, over whatever is there by now, and the
\* whole map is written.
InvalidAndReset ==
  /\ ~GuiFree
  /\ ini' = [ini EXCEPT ![doubt] = Fallback(doubt)]
  /\ disk' = ini'
  /\ doubt' = "none"
  /\ UNCHANGED <<works, fields, saving, steps>>

\* save(): ignored while one is running.
Save ==
  /\ GuiFree
  /\ Spend
  /\ stage = "idle"
  /\ stage' = "validate"
  /\ snapshot' = fields
  /\ UNCHANGED <<config, works, fields, todo, result>>

\* Mutant: an invalid field is only logged.
ValidateLenient ==
  /\ stage = "validate"
  /\ stage' = "write"
  /\ todo' = Keys
  /\ UNCHANGED <<config, works, fields, snapshot, result, steps>>

\* Mutant: the worker returns on an invalid field without an answer.
ValidateSilent ==
  /\ stage = "validate"
  /\ \A k \in Keys : Valid(k, snapshot[k])
  /\ stage' = "write"
  /\ todo' = Keys
  /\ UNCHANGED <<config, works, fields, snapshot, result, steps>>

\* persistValues, first part: every value is set and read back in a file of its
\* own; the first invalid one, or a missing directory for that file, ends it.
Validate ==
  /\ stage = "validate"
  /\ \/ /\ \A k \in Keys : Valid(k, snapshot[k])
        /\ stage' = "write"
        /\ todo' = Keys
        /\ UNCHANGED result
     \/ /\ stage' = "answered"
        /\ result' = "refused"
        /\ UNCHANGED todo
  /\ UNCHANGED <<config, works, fields, snapshot, steps>>

\* Mutant: the worker reads the controller's fields instead of its copy.
WriteKeyLive(k) ==
  /\ stage = "write"
  /\ k \in todo
  /\ \A j \in todo : Position[k] <= Position[j]
  /\ ini' = [ini EXCEPT ![k] = fields[k]]
  /\ todo' = todo \ {k}
  /\ UNCHANGED <<disk, doubt, works, fields, stage, snapshot, result, steps>>

\* persistValues, second part: one key after the other.
WriteKey(k) ==
  /\ stage = "write"
  /\ k \in todo
  /\ \A j \in todo : Position[k] <= Position[j]
  /\ ini' = [ini EXCEPT ![k] = snapshot[k]]
  /\ todo' = todo \ {k}
  /\ UNCHANGED <<disk, doubt, works, fields, stage, snapshot, result, steps>>

\* Its end: the file is written, or not; the map stays as it is.
Sync ==
  /\ stage = "write"
  /\ todo = {}
  /\ stage' = "answered"
  /\ \/ disk' = ini /\ result' = "applied"
     \/ disk' = disk /\ result' = "unwritten"
  /\ UNCHANGED <<ini, doubt, works, fields, snapshot, todo, steps>>

\* The slot of the watcher: settingsApplied, or the error.
OnSaved ==
  /\ GuiFree
  /\ stage = "answered"
  /\ stage' = "idle"
  /\ UNCHANGED <<config, works, fields, snapshot, todo, result, steps>>

-----------------------------------------------------------------------------
\* A program is installed or removed.
Install(k) ==
  /\ Spend
  /\ \E v \in {"default", "other"} :
       works' = [works EXCEPT ![k] = IF v \in @ THEN @ \ {v} ELSE @ \cup {v}]
  /\ UNCHANGED <<config, fields, saving>>

\* The text form of the file: a boolean comes back as a string.
Reread(map) ==
  [k \in Keys |-> IF k \in Flags /\ map[k] # "absent" THEN "text" ELSE map[k]]

\* The program ends, at any point, and is started again.
Restart ==
  /\ Spend
  /\ ini' = Loaded(Reread(disk))
  /\ fields' = Reload(Reread(disk))
  /\ disk' = IF Refused(Reread(disk)) = {} THEN disk ELSE ini'
  /\ doubt' = "none"
  /\ stage' = "idle"
  /\ snapshot' = fields'
  /\ todo' = {}
  /\ result' = "none"
  /\ UNCHANGED works

User ==
  \/ \E k \in Keys, v \in Values : Edit(k, v)
  \/ ResetDefaults
  \/ Save

Getter == (\E k \in Keys : Refuse(k)) \/ InvalidAndReset

Worker == Validate \/ (\E k \in Keys : WriteKey(k)) \/ Sync

Outside == \E k \in Programs : Install(k)

\* Everything but the two steps other components take part in.
Inner == User \/ Getter \/ Worker \/ Outside

Next == Inner \/ OnSaved \/ Restart

Spec == Init /\ [][Next]_vars

-----------------------------------------------------------------------------
TypeOK ==
  /\ ini \in [Keys -> Stored]
  /\ disk \in [Keys -> Stored]
  /\ works \in [Programs -> SUBSET {"default", "other"}]
  /\ doubt \in Keys \cup {"none"}
  /\ fields \in [Keys -> Values]
  /\ stage \in Stages
  /\ snapshot \in [Keys -> Values]
  /\ todo \in SUBSET Keys
  /\ result \in Results
  /\ steps \in 0..MaxSteps

\* Once the program has started, no setting but a program's is ever invalid,
\* whatever the user types and saves and however often the program is killed and
\* its file fails to be written: invalid values are reset at the start and
\* refused before the first one is written (config_service.cpp:330-351).
ValidStored == \A k \in Plain : Valid(k, Value(ini, k))

\* A save that is answered with success has put every field as it was when
\* save() was called into the map and into the file, whatever was typed, reset
\* or asked for meanwhile (settings_controller.cpp:276-311).  Program keys are
\* left out: a getter that has refused the old value may reset the new one.
AppliedIsStored ==
  stage = "answered" /\ result = "applied" =>
    \A k \in Plain : ini[k] = snapshot[k] /\ disk[k] = snapshot[k]

\* Every save is answered, and until then every other one is ignored
\* (settings_controller.cpp:276-311).
SaveEnds == stage # "idle" ~> stage = "idle"
=============================================================================
