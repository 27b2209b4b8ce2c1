------------------------------- MODULE Device -------------------------------
(***************************************************************************)
(* The device between its power supply and its users: restarts, updates    *)
(* and boots (Maintenance.tla) with the front panel that app_main starts   *)
(* on the way (Buttons.tla) and the settings it loads (Settings.tla).      *)
(* A mode is armed from the panel by an event of the button task, and from *)
(* the network by the one httpd task, which also saves the settings and is *)
(* busy for as long as an upload lasts.                                    *)
(***************************************************************************)
EXTENDS Maintenance, Naturals

CONSTANTS
  Debounce, LongTicks,    \* of Buttons.tla
  Items, Limit, Default   \* of Settings.tla

ASSUME TicksAssumption == Debounce \in Nat \ {0} /\ LongTicks \in Nat \ {0}
ASSUME LevelAssumption == Limit \in Nat \ {0} /\ Default \in 0 .. Limit

VARIABLES
  last, settle, pressed, hold, fired, event, steady, stable, due,
  flash, ram, saving, value, reported

B == INSTANCE Buttons
S == INSTANCE Settings

panel      == <<last, settle, pressed, hold, fired, event, steady, stable, due>>
settings   == <<flash, ram, saving, value, reported>>
deviceVars == <<vars, panel, settings>>

DeviceInit == Init /\ B!Init /\ S!Init

(* Steps of Maintenance.tla that reset the chip. *)
Resets ==
  /\ PowerCut \/ Crash \/ Restart \/ (SaveRestarts /\ saving = S!None)
  /\ B!Clear /\ S!Forget

(* The supply, the bootloader and app_main after it has started the panel. *)
Boots ==
  /\ PowerOn \/ Bootloader \/ StartServing \/ MarkValid
  /\ UNCHANGED <<panel, settings>>

(* app_main reads the settings, then starts the control task and buttons. *)
StartsPanel ==
  /\ StartPanel /\ S!Load
  /\ \E raw \in B!Line : B!Seed(raw)

(* button_task with pb_policy_on_button: a short press arms, changes or    *)
(* ends a mode, or is refused; a long one leaves none armed.               *)
Sampled ==
  /\ \E raw \in B!Line : B!Step(raw)
  /\ \E to \in BOOLEAN :
       /\ Panel(to)
       /\ event' = "none" => to = armed
       /\ event' = "long" => ~to
  /\ UNCHANGED settings

(* The one httpd task is not in the middle of a save. *)
Answers ==
  /\ saving = S!None
  /\ \/ \E to \in BOOLEAN : Command(to)
     \/ RestartPost \/ FactoryResetPost \/ UpdatePost \/ UploadFails
     \/ \E kind \in Kind : UploadEnds(kind)
  /\ UNCHANGED <<panel, settings>>

(* factory_reset_post erases the namespace before it grants the restart;   *)
(* not confirmed, or with an erase that failed, it grants none.            *)
Erases ==
  /\ FactoryReset
  /\ \/ S!Erase
     \/ restarting' = restarting /\ UNCHANGED settings
  /\ UNCHANGED panel

Saves ==
  /\ Serving /\ request = "idle"
  /\ \/ \E i \in Items, v \in S!Raw : S!SetKey(i, v)
     \/ S!Commit
  /\ UNCHANGED <<vars, panel>>

Ticks == Tick /\ UNCHANGED <<panel, settings>>

DeviceNext ==
  \/ Resets \/ Boots \/ StartsPanel \/ Sampled \/ Answers \/ Erases \/ Saves \/ Ticks

DeviceSpec == DeviceInit /\ [][DeviceNext]_deviceVars

(* The chip executes: bootloader and app_main go on, the end of app_main   *)
(* comes even if restarts can be asked for before it, a panic strikes.     *)
DeviceFairness ==
  /\ WF_deviceVars(Boots /\ mains' = mains) /\ WF_deviceVars(StartsPanel)
  /\ SF_deviceVars(Boots /\ MarkValid) /\ WF_deviceVars(Resets /\ Crash)

FairDeviceSpec == DeviceSpec /\ DeviceFairness

-----------------------------------------------------------------------------
(* Type invariant of the three parts. *)
DeviceTypeOK == TypeOK /\ B!TypeOK /\ S!TypeOK

(* Every press of a button is answered by one event, at the latest when it *)
(* is released (see Buttons.tla).                                          *)
PressIsAnswered == B!PressIsAnswered

(* No event without a press of its own since the restart: a button held    *)
(* through a restart, bouncing or stuck changes no mode (see Buttons.tla). *)
EventsAreEarned == B!EventsAreEarned

(* What the answer to a save reported is in use and is what every boot     *)
(* loads (see Settings.tla).                                               *)
ReportedIsKept == S!ReportedIsKept(Up)
-----------------------------------------------------------------------------
(* The inductive invariant behind these properties (DeviceProofs.tla). *)
IInv ==
  /\ DeviceTypeOK /\ TrialDiscipline
  /\ B!MachineFollowsLine
  /\ S!SavingIsOnFlash /\ ReportedIsKept
=============================================================================
