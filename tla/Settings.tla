------------------------------ MODULE Settings ------------------------------
(***************************************************************************)
(* Settings that are written to flash first and to RAM once the write is   *)
(* committed: the sensor offsets of pb_ntc.c and the LED switch of         *)
(* pb_leds.c, as the pages of pb_httpd.c set them, a factory reset erases  *)
(* them and a boot reads them back.  Values are ordinal levels.            *)
(***************************************************************************)
EXTENDS Naturals

CONSTANTS
  Items,     \* the settings
  Limit,     \* PB_NTC_OFFSET_CENTI_MAX as a level, at least one
  Default    \* the level of a setting that was never written

VARIABLES
  flash,     \* [Items -> what the key holds], any value or none
  ram,       \* s_offset_centi, s_enabled
  saving,    \* of httpd: the item whose key is set but not committed, or None
  value,     \* the value it is set to
  reported   \* history: what the last OK answer said of an item, unless its
             \* key was written, erased or not readable since

settingsVars == <<flash, ram, saving, value, reported>>

None   == Limit + 3
Absent == Limit + 2            \* a key that was never written
Level  == 0 .. Limit           \* what the setters accept
Raw    == 0 .. Limit + 1       \* what a body or a corrupt key may hold

Clamp(v) == IF v > Limit THEN Limit ELSE v

(* Some flash, with corrupt keys or without. *)
Init ==
  /\ flash \in [Items -> Raw \cup {Absent}] /\ ram = [i \in Items |-> Default]
  /\ saving = None /\ value = Default
  /\ reported = [i \in Items |-> None]

(* What a boot makes of a key. *)
Loaded(i) == IF flash[i] = Absent THEN Default ELSE Clamp(flash[i])

(* pb_ntc_load_calibration, pb_leds_load_config. *)
Load ==
  /\ \/ ram' = [i \in Items |-> Loaded(i)] /\ UNCHANGED reported
     \/ ram' = [i \in Items |-> Default] /\ reported' = [i \in Items |-> None]
  /\ UNCHANGED <<flash, saving, value>>

(* A restart or a loss of power; RAM is loaded before it is used again. *)
Forget ==
  /\ saving' = None /\ value' = Default /\ ram' = [i \in Items |-> Default]
  /\ UNCHANGED <<flash, reported>>

(* calibration_post, settings_post with one of their fields, as far as the *)
(* key is set; a namespace that does not open or a key that cannot be set  *)
(* ends the request there, with everything as it was.                      *)
SetKey(i, v) ==
  /\ saving = None
  /\ saving' = i /\ value' = Clamp(v)
  /\ flash' = [flash EXCEPT ![i] = Clamp(v)]
  /\ reported' = [reported EXCEPT ![i] = None]
  /\ UNCHANGED ram

(* Mutant: the value is left to the next boot. *)
CommitForNextBoot ==
  /\ saving # None /\ saving' = None /\ value' = Default
  /\ \/ reported' = [reported EXCEPT ![saving] = value]
     \/ UNCHANGED reported
  /\ UNCHANGED <<flash, ram>>

(* nvs_commit: RAM and the answer follow it, or a failure is answered and  *)
(* the two differ.                                                         *)
Commit ==
  /\ saving # None /\ saving' = None /\ value' = Default
  /\ \/ ram' = [ram EXCEPT ![saving] = value] /\ reported' = [reported EXCEPT ![saving] = value]
     \/ UNCHANGED <<ram, reported>>
  /\ UNCHANGED flash

(* The erase of factory_reset_post; RAM lives on until the restart. *)
Erase ==
  /\ saving = None
  /\ flash' = [i \in Items |-> Absent] /\ reported' = [i \in Items |-> None]
  /\ UNCHANGED <<ram, saving, value>>

Next ==
  \/ Load \/ Forget \/ Commit \/ Erase
  \/ \E i \in Items, v \in Raw : SetKey(i, v)

Spec == Init /\ [][Next]_settingsVars

-----------------------------------------------------------------------------
(* Type invariant. *)
TypeOK ==
  /\ flash \in [Items -> Raw \cup {Absent}] /\ ram \in [Items -> Level]
  /\ saving \in Items \cup {None} /\ value \in Level
  /\ reported \in [Items -> Level \cup {None}]

(* What an OK answer reported is what every boot from then on loads, until *)
(* the key is written again or erased, whatever restarts come in between;  *)
(* and while the firmware runs it is what the device works with.           *)
ReportedIsKept(running) ==
  \A i \in Items : reported[i] # None
    => Loaded(i) = reported[i] /\ (running => ram[i] = reported[i])
-----------------------------------------------------------------------------
(* The inductive part behind ReportedIsKept (DeviceProofs.tla): what waits *)
(* for its commit is what a boot would read.                               *)
SavingIsOnFlash == saving # None => flash[saving] = value
=============================================================================
