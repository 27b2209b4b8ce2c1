---------------------------- MODULE DeviceProofs ----------------------------
(***************************************************************************)
(* The device with its images, its panel and its settings, for any times   *)
(* of the debouncer, any settings and any contents of flash: the invariant *)
(* is inductive, and the safety properties follow from it.                 *)
(***************************************************************************)
EXTENDS Device, FiniteSetTheorems, TLAPS

(* There are two slots: each is the other of the other. *)
LEMMA TwoSlots ==
  ASSUME NEW s \in Slot
  PROVE  LET other == CHOOSE t \in Slot : t # s IN
         /\ other \in Slot /\ other # s
         /\ \A t \in Slot : t = s \/ t = other
<1> DEFINE other == CHOOSE t \in Slot : t # s
<1>1. IsFiniteSet(Slot \ {s}) /\ Cardinality(Slot \ {s}) = 1
  BY SlotAssumption, FS_RemoveElement
<1>2. PICK t \in Slot \ {s} : Slot \ {s} = {t}
  BY <1>1, FS_Singleton
<1>3. other \in Slot /\ other # s
  BY <1>2
<1>4. other = t
  BY <1>2, <1>3
<1> QED
  BY <1>2, <1>3, <1>4

LEMMA Others ==
  ASSUME TypeOK
  PROVE  /\ OtherSlot \in Slot /\ OtherSlot # running
         /\ \A s \in Slot : s = running \/ s = OtherSlot
  BY TwoSlots DEF TypeOK, OtherSlot

LEMMA Kinds == Own \subseteq Kind /\ "damaged" \in Kind /\ "damaged" \notin Own
               /\ "good" \in Own
  BY DEF Own, Kind

-----------------------------------------------------------------------------
(* Images and their trial. *)
LEMMA InitTrial == Init => TypeOK /\ TrialDiscipline
  BY Kinds DEF Init, TypeOK, TrialDiscipline

LEMMA ResetTrial ==
  ASSUME TypeOK, TrialDiscipline, Reset, mains' \in BOOLEAN
  PROVE  TypeOK' /\ TrialDiscipline'
<1>1. TypeOK'
  BY DEF Reset, slots, TypeOK
<1> QED
  BY <1>1 DEF Reset, slots, TrialDiscipline, OtherSlot

LEMMA ResetsTrial ==
  ASSUME TypeOK, TrialDiscipline, PowerCut \/ Crash \/ Restart \/ SaveRestarts
  PROVE  TypeOK' /\ TrialDiscipline'
<1>1. Reset /\ mains' \in BOOLEAN
  BY DEF PowerCut, Crash, Restart, SaveRestarts, TypeOK
<1> QED
  BY <1>1, ResetTrial

(* What the bootloader starts is DragonBreath, unless the restart of an    *)
(* update was starved; and what it falls back to always is.                *)
LEMMA BootloaderTrial ==
  ASSUME TypeOK, TrialDiscipline, Bootloader
  PROVE  TypeOK' /\ TrialDiscipline'
<1> DEFINE other == CHOOSE s \in Slot : s # boot
<1>1. other \in Slot /\ other # boot /\ \A s \in Slot : s = boot \/ s = other
  BY TwoSlots DEF TypeOK
<1>2. /\ stage = "off" /\ stage' = "starting" /\ image' = image
      /\ request' = request /\ restarting' = restarting
      /\ starved' = (starved /\ image[running'] \notin Own)
      /\ UNCHANGED <<mains, armed, driven>>
  BY DEF Bootloader, heat
<1>3. starved' \in BOOLEAN /\ (image[running'] \in Own \/ (starved' <=> starved))
  BY <1>2 DEF TypeOK
<1>4. request' = "idle"
  BY <1>2 DEF TrialDiscipline
<1>5. CASE trial # "pending" /\ image[boot] # "damaged"
  <2>1. running' = boot /\ boot' = boot
        /\ trial' = (IF trial = "new" THEN "pending" ELSE trial)
    BY <1>5 DEF Bootloader
  <2>2. TypeOK'
    BY <1>2, <1>3, <2>1 DEF TypeOK
  <2>3. OtherSlot' = other
    BY <2>1 DEF OtherSlot
  <2>4. CASE trial = "new"
    <3>1. image[other] \in Own
      BY <1>1, <2>4 DEF TrialDiscipline, TypeOK
    <3>2. image[boot] \in Own \/ starved'
      BY <1>3, <1>5, <2>1, <2>4 DEF TrialDiscipline
    <3> QED
      BY <1>2, <1>4, <2>1, <2>2, <2>3, <2>4, <3>1, <3>2 DEF TrialDiscipline
  <2>5. CASE trial = "valid"
    BY <1>2, <1>5, <2>1, <2>2, <2>5 DEF TrialDiscipline
  <2> QED
    BY <1>5, <2>4, <2>5 DEF TypeOK
<1>6. CASE ~(trial # "pending" /\ image[boot] # "damaged")
  <2>1. running' = other /\ boot' = other /\ trial' = "valid"
    BY <1>6 DEF Bootloader
  <2>2. TypeOK'
    BY <1>1, <1>2, <1>3, <2>1 DEF TypeOK
  <2>3. image[other] \in Own
    <3>1. CASE trial = "pending"
      BY <3>1 DEF TrialDiscipline, OtherSlot
    <3>2. CASE trial = "new"
      BY <1>1, <3>2 DEF TrialDiscipline, TypeOK
    <3>3. CASE trial = "valid"
      BY <1>6, <3>3, Kinds DEF TrialDiscipline
    <3> QED
      BY <3>1, <3>2, <3>3 DEF TypeOK
  <2> QED
    BY <1>2, <2>1, <2>2, <2>3 DEF TrialDiscipline
<1> QED
  BY <1>5, <1>6

(* The stages of app_main, and the supply. *)
LEMMA StagesTrial ==
  ASSUME TypeOK, TrialDiscipline, PowerOn \/ StartPanel \/ StartServing \/ MarkValid
  PROVE  TypeOK' /\ TrialDiscipline'
<1> USE DEF slots, heat
<1>1. CASE PowerOn \/ StartPanel \/ StartServing
  <2>1. TypeOK'
    BY <1>1 DEF PowerOn, StartPanel, StartServing, TypeOK
  <2>2. /\ UNCHANGED <<image, running, boot, trial, request, restarting, starved>>
        /\ OtherSlot' = OtherSlot
    BY <1>1 DEF PowerOn, StartPanel, StartServing, OtherSlot
  <2>3. stage' = stage \/ (trial # "new" /\ stage' \in {"panel", "serving"})
    BY <1>1 DEF PowerOn, StartPanel, StartServing, TrialDiscipline
  <2> QED
    BY <2>1, <2>2, <2>3 DEF TrialDiscipline
<1>2. CASE MarkValid
  <2>1. TypeOK'
    BY <1>2 DEF MarkValid, TypeOK
  <2> QED
    BY <1>2, <2>1, Kinds DEF MarkValid, TrialDiscipline, TypeOK
<1> QED
  BY <1>1, <1>2

(* Modes, and requests that write no image. *)
LEMMA RequestsTrial ==
  ASSUME TypeOK, TrialDiscipline,
         \/ \E to \in BOOLEAN : Panel(to) \/ Command(to)
         \/ Tick \/ RestartPost \/ FactoryResetPost \/ FactoryReset \/ UploadFails
  PROVE  TypeOK' /\ TrialDiscipline'
<1>1. /\ UNCHANGED <<mains, stage, slots, starved>>
      /\ stage # "off"
  BY DEF Panel, Command, ChangeMode, Tick, RestartPost, FactoryResetPost, FactoryReset,
     UploadFails, Up, Serving, slots
<1>2. /\ armed' \in BOOLEAN /\ driven' \in BOOLEAN
      /\ request' \in {request, "idle", "confirming"}
      /\ restarting' \in BOOLEAN /\ (restarting => restarting')
  BY DEF Panel, Command, ChangeMode, Tick, RestartPost, FactoryResetPost, FactoryReset,
     UploadFails, Granted, TypeOK, heat
<1>3. TypeOK'
  BY <1>1, <1>2 DEF TypeOK, slots
<1> QED
  BY <1>1, <1>2, <1>3 DEF TrialDiscipline, slots, OtherSlot

(* The upload: only the slot that does not run is written, none begins on  *)
(* trial, and what becomes the boot slot is DragonBreath.                  *)
LEMMA UploadTrial ==
  ASSUME TypeOK, TrialDiscipline,
         UpdatePost \/ \E kind \in Kind : UploadEnds(kind)
  PROVE  TypeOK' /\ TrialDiscipline' /\ image'[running] = image[running]
<1> USE DEF heat
<1>1. CASE UpdatePost
  <2>1. image' \in [Slot -> Kind] /\ image'[running] = image[running]
        /\ image'[OtherSlot] = "damaged"
    BY <1>1, Others, Kinds DEF UpdatePost, TypeOK
  <2>2. TypeOK'
    BY <1>1, <2>1 DEF UpdatePost, TypeOK
  <2>3. trial = "new" => boot = OtherSlot
    BY Others DEF TrialDiscipline, TypeOK
  <2> QED
    BY <1>1, <2>1, <2>2, <2>3 DEF UpdatePost, TrialDiscipline, Serving
<1>2. ASSUME NEW kind \in Kind, UploadEnds(kind)
      PROVE  TypeOK' /\ TrialDiscipline' /\ image'[running] = image[running]
  <2>1. image' \in [Slot -> Kind] /\ image'[running] = image[running]
        /\ image'[OtherSlot] = kind
    BY <1>2, Others DEF UploadEnds, TypeOK
  <2>2. /\ UNCHANGED <<mains, stage, running, armed, driven>>
        /\ stage = "healthy" /\ ~restarting /\ trial # "pending"
    BY <1>2 DEF UploadEnds, TrialDiscipline
  <2>3. image[running] \in Own
    BY <2>2 DEF TypeOK, TrialDiscipline
  <2>4. CASE /\ kind \in Own /\ boot' = OtherSlot /\ trial' = "new"
             /\ Granted /\ starved' = (starved \/ ~restarting')
    <3>1. restarting' \in BOOLEAN /\ starved' \in BOOLEAN
          /\ (~starved' => restarting')
      BY <2>4 DEF Granted, TypeOK
    <3>2. TypeOK'
      BY <2>1, <2>2, <2>4, <3>1, Others DEF TypeOK, Granted
    <3> QED
      BY <2>1, <2>2, <2>3, <2>4, <3>1, <3>2, Others DEF TrialDiscipline
  <2>5. CASE request' = "idle" /\ UNCHANGED <<boot, trial, restarting, starved>>
    <3>1. TypeOK'
      BY <2>1, <2>2, <2>5 DEF TypeOK
    <3>2. trial = "new" => starved
      BY <2>2 DEF TrialDiscipline, TypeOK
    <3> QED
      BY <2>1, <2>2, <2>3, <2>5, <3>1, <3>2 DEF TrialDiscipline, TypeOK
  <2> QED
    BY <1>2, <2>4, <2>5 DEF UploadEnds, Acceptable
<1> QED
  BY <1>1, <1>2

-----------------------------------------------------------------------------
(* The button. *)
Panelled == B!TypeOK /\ B!MachineFollowsLine

LEMMA InitPanel == B!Init => Panelled
<1> SUFFICES ASSUME B!Init PROVE Panelled
  OBVIOUS
<1>1. /\ Debounce \in Nat /\ 0 \in 0 .. Debounce /\ 0 \in 0 .. LongTicks
      /\ Debounce + 1 \in 1 .. Debounce + 1
  BY TicksAssumption
<1>2. B!TypeOK
  BY <1>1 DEF B!Init, B!TypeOK, B!Line, B!Event
<1>3. (pressed <=> stable = "down") /\ (due <=> pressed /\ ~fired)
  BY DEF B!Init
<1> QED
  BY <1>2, <1>3 DEF Panelled, B!Init, B!MachineFollowsLine

LEMMA ClearPanel == B!Clear => Panelled'
<1> SUFFICES ASSUME B!Clear PROVE Panelled'
  OBVIOUS
<1>1. /\ Debounce \in Nat /\ 0 \in 0 .. Debounce /\ 0 \in 0 .. LongTicks
      /\ Debounce + 1 \in 1 .. Debounce + 1
  BY TicksAssumption
<1>2. B!TypeOK'
  BY <1>1 DEF B!Clear, B!TypeOK, B!Line, B!Event
<1>3. (pressed' <=> stable' = "down") /\ (due' <=> pressed' /\ ~fired')
  BY DEF B!Clear
<1> QED
  BY <1>2, <1>3 DEF Panelled, B!Clear, B!MachineFollowsLine

LEMMA SeedPanel ==
  ASSUME NEW raw \in B!Line, B!Seed(raw)
  PROVE  Panelled' /\ event' = "none"
<1>1. /\ pressed' \in BOOLEAN /\ fired' \in BOOLEAN
      /\ pressed' = (raw = "down") /\ fired' = pressed'
  BY DEF B!Seed
<1>2. B!TypeOK'
  <2>1. /\ 0 \in 0 .. Debounce /\ 0 \in 0 .. LongTicks
        /\ Debounce + 1 \in 1 .. Debounce + 1
    BY TicksAssumption
  <2> QED
    BY <1>1, <2>1 DEF B!Seed, B!TypeOK, B!Event
<1>3. settle' = 0 /\ steady' = Debounce + 1 /\ stable' = last'
  BY DEF B!Seed
<1>4. (pressed' <=> stable' = "down") /\ (due' <=> pressed' /\ ~fired')
  BY <1>1 DEF B!Seed
<1> QED
  BY <1>2, <1>3, <1>4 DEF Panelled, B!Seed, B!MachineFollowsLine

(* While a level settles, nothing is decided and nothing is trusted. *)
LEMMA SettlingPanel ==
  ASSUME Panelled, NEW raw \in B!Line,
         B!Settling(raw), event' = "none", UNCHANGED <<pressed, hold, fired>>,
         B!Watch(raw)
  PROVE  Panelled'
<1>1. /\ settle \in 0 .. Debounce /\ steady \in 1 .. Debounce + 1
      /\ last \in B!Line /\ stable \in B!Line /\ due \in BOOLEAN
      /\ Debounce \in Nat /\ Debounce >= 1
  BY TicksAssumption DEF Panelled, B!TypeOK
<1>2. /\ settle' \in 1 .. Debounce /\ last' = raw
      /\ steady' + settle' = Debounce + 1 /\ steady' \in 1 .. Debounce
  BY <1>1 DEF B!Settling, B!Watch, Panelled, B!MachineFollowsLine
<1>3. ~(steady' > Debounce)
  BY <1>1, <1>2
<1>4. stable' = stable
  BY <1>3 DEF B!Watch
<1>5. due' = due
  BY <1>1, <1>3 DEF B!Watch
<1>6. B!TypeOK'
  <2>1. settle' \in 0 .. Debounce /\ steady' \in 1 .. Debounce + 1
    BY <1>1, <1>2
  <2> QED
    BY <1>2, <1>4, <1>5, <2>1 DEF Panelled, B!TypeOK, B!Event
<1>7. B!MachineFollowsLine'
  <2>1. settle' # 0
    BY <1>1, <1>2
  <2>2. (pressed' <=> stable' = "down") /\ (due' <=> pressed' /\ ~fired')
    BY <1>4, <1>5 DEF Panelled, B!MachineFollowsLine
  <2> QED
    BY <1>2, <2>1, <2>2 DEF B!MachineFollowsLine
<1> QED
  BY <1>6, <1>7 DEF Panelled

(* A settled level is the stable one, and the machine answers it. *)
LEMMA SettledPanel ==
  ASSUME Panelled, NEW raw \in B!Line, B!Settled(raw), B!Watch(raw),
         IF raw = "down" THEN B!Press \/ B!Hold ELSE B!Release \/ B!Idle
  PROVE  Panelled' /\ (event' # "none" => due /\ steady' > Debounce)
<1>1. /\ settle \in 0 .. Debounce /\ steady \in 1 .. Debounce + 1
      /\ last \in B!Line /\ stable \in B!Line /\ due \in BOOLEAN
      /\ hold \in 0 .. LongTicks /\ fired \in BOOLEAN /\ pressed \in BOOLEAN
      /\ Debounce \in Nat /\ Debounce >= 1 /\ LongTicks \in Nat /\ LongTicks >= 1
  BY TicksAssumption DEF Panelled, B!TypeOK
<1>2. settle' = 0 /\ last' = raw /\ last = raw /\ steady' = Debounce + 1
  BY <1>1 DEF B!Settled, B!Watch, Panelled, B!MachineFollowsLine
<1>3. stable' = raw
  BY <1>1, <1>2 DEF B!Watch
<1>4. /\ due' \in BOOLEAN
      /\ due' <=> event' = "none" /\ ((raw # stable /\ raw = "down") \/ due)
  <2>1. due' = (event' = "none" /\ IF steady' > Debounce /\ raw # stable
                                   THEN raw = "down" \/ due ELSE due)
    BY DEF B!Watch
  <2>2. steady' > Debounce
    BY <1>1, <1>2
  <2>3. due' = (event' = "none" /\ IF raw # stable THEN raw = "down" \/ due ELSE due)
    BY <2>1, <2>2
  <2> QED
    BY <1>1, <2>3, Zenon
<1>5. (pressed <=> stable = "down") /\ (due <=> pressed /\ ~fired)
  BY <1>1 DEF Panelled, B!MachineFollowsLine
<1>6. hold' \in 0 .. LongTicks
  BY <1>1 DEF B!Press, B!Hold, B!Release, B!Idle
<1>7. /\ pressed' \in BOOLEAN /\ fired' \in BOOLEAN
      /\ event' \in B!Event /\ due' \in BOOLEAN
      /\ (pressed' <=> raw = "down") /\ (due' <=> pressed' /\ ~fired')
      /\ (event' # "none" => due)
  <2>1. CASE raw = "down" /\ B!Press
    <3>1. /\ pressed' = TRUE /\ fired' = FALSE /\ event' = "none"
          /\ raw # stable
      BY <1>5, <2>1 DEF B!Press
    <3> QED
      BY <1>4, <2>1, <3>1 DEF B!Event
  <2>2. CASE raw = "down" /\ B!Hold
    <3>1. pressed /\ pressed' = pressed /\ stable = "down" /\ (due <=> ~fired)
      BY <1>5, <2>2 DEF B!Hold
    <3>2. \/ ~fired /\ fired' = TRUE /\ event' = "long"
          \/ fired' = fired /\ event' = "none"
      BY <2>2 DEF B!Hold
    <3>3. due' \in BOOLEAN /\ (due' <=> event' = "none" /\ due)
      BY <1>4, <2>2, <3>1
    <3>4. CASE ~fired /\ fired' = TRUE /\ event' = "long"
      BY <2>2, <3>1, <3>3, <3>4 DEF B!Event
    <3>5. CASE fired' = fired /\ event' = "none"
      BY <1>1, <2>2, <3>1, <3>3, <3>5 DEF B!Event
    <3> QED
      BY <3>2, <3>4, <3>5
  <2>3. CASE raw # "down" /\ B!Release
    BY <1>1, <1>4, <1>5, <2>3 DEF B!Release, B!Event
  <2>4. CASE raw # "down" /\ B!Idle
    BY <1>1, <1>4, <1>5, <2>4 DEF B!Idle, B!Event, B!Line
  <2> QED
    BY <2>1, <2>2, <2>3, <2>4
<1>8. B!TypeOK'
  BY <1>1, <1>2, <1>3, <1>6, <1>7 DEF B!TypeOK
<1>9. B!MachineFollowsLine'
  BY <1>2, <1>3, <1>7 DEF B!MachineFollowsLine
<1> QED
  BY <1>1, <1>2, <1>7, <1>8, <1>9 DEF Panelled

LEMMA StepPanel ==
  ASSUME Panelled, NEW raw \in B!Line, B!Step(raw)
  PROVE  Panelled' /\ (event' # "none" => due /\ steady' > Debounce)
  BY SettlingPanel, SettledPanel DEF B!Step

LEMMA StillPanel ==
  ASSUME Panelled, UNCHANGED panel
  PROVE  Panelled'
  BY DEF Panelled, panel, B!TypeOK, B!MachineFollowsLine

-----------------------------------------------------------------------------
(* The settings. *)
Stored == S!TypeOK /\ S!SavingIsOnFlash

LEMMA Levels ==
  /\ Limit \in Nat /\ Default \in S!Level /\ S!Level \subseteq S!Raw
  /\ S!None \notin S!Level /\ S!Absent \notin S!Raw /\ S!Absent # S!None
  /\ S!None \notin S!Raw
  /\ \A v \in S!Raw : S!Clamp(v) \in S!Level
  /\ \A v \in S!Level : S!Clamp(v) = v /\ v # S!Absent
  BY LevelAssumption DEF S!Level, S!Raw, S!None, S!Absent, S!Clamp

LEMMA LoadedLevel ==
  ASSUME S!TypeOK, NEW i \in Items
  PROVE  S!Loaded(i) \in S!Level
<1>1. flash[i] \in S!Raw \cup {S!Absent}
  BY DEF S!TypeOK
<1> QED
  BY <1>1, Levels DEF S!Loaded

LEMMA InitSettings == S!Init => Stored /\ S!ReportedIsKept(FALSE)
<1> SUFFICES ASSUME S!Init PROVE Stored /\ S!ReportedIsKept(FALSE)
  OBVIOUS
<1>1. S!TypeOK
  BY Levels DEF S!Init, S!TypeOK
<1> QED
  BY <1>1 DEF S!Init, Stored, S!SavingIsOnFlash, S!ReportedIsKept

(* A restart forgets, and keeps its word for the next boot. *)
LEMMA ForgetSettings ==
  ASSUME Stored, NEW on, S!ReportedIsKept(on), S!Forget
  PROVE  Stored' /\ \A i \in Items : reported'[i] # S!None => S!Loaded(i)' = reported'[i]
<1>1. S!TypeOK'
  BY Levels DEF Stored, S!Forget, S!TypeOK
<1>2. \A i \in Items : S!Loaded(i)' = S!Loaded(i)
  BY DEF S!Forget, S!Loaded
<1> QED
  BY <1>1, <1>2 DEF S!Forget, Stored, S!SavingIsOnFlash, S!ReportedIsKept

(* A boot keeps it. *)
LEMMA LoadSettings ==
  ASSUME Stored, NEW on, S!ReportedIsKept(on), S!Load
  PROVE  /\ Stored'
         /\ \A i \in Items : reported'[i] # S!None => S!Loaded(i)' = reported'[i]
                                                      /\ ram'[i] = reported'[i]
<1>1. \A i \in Items : S!Loaded(i)' = S!Loaded(i)
  BY DEF S!Load, S!Loaded
<1>2. CASE ram' = [i \in Items |-> S!Loaded(i)] /\ UNCHANGED reported
  <2>1. S!TypeOK'
    BY <1>2, LoadedLevel DEF Stored, S!Load, S!TypeOK
  <2> QED
    BY <1>1, <1>2, <2>1 DEF Stored, S!Load, S!SavingIsOnFlash, S!ReportedIsKept
<1>3. CASE ram' = [i \in Items |-> Default] /\ reported' = [i \in Items |-> S!None]
  <2>1. S!TypeOK'
    BY <1>3, Levels DEF Stored, S!Load, S!TypeOK
  <2> QED
    BY <1>3, <2>1 DEF Stored, S!Load, S!SavingIsOnFlash
<1> QED
  BY <1>2, <1>3 DEF S!Load

(* A save keeps it at every step: the key, the commit, or an erase. *)
LEMMA SaveSettings ==
  ASSUME Stored, NEW on, S!ReportedIsKept(on),
         \/ \E i \in Items, v \in S!Raw : S!SetKey(i, v)
         \/ S!Commit \/ S!Erase
  PROVE  Stored' /\ S!ReportedIsKept(on)'
<1> USE DEF Stored
<1>1. ASSUME NEW j \in Items, NEW v \in S!Raw, S!SetKey(j, v)
      PROVE  Stored' /\ S!ReportedIsKept(on)'
  <2>1. S!Clamp(v) \in S!Level
    BY Levels
  <2>2. S!TypeOK'
    BY <1>1, <2>1, Levels DEF S!SetKey, S!TypeOK
  <2>3. S!SavingIsOnFlash'
    BY <1>1 DEF S!SetKey, S!TypeOK, S!SavingIsOnFlash
  <2>4. ASSUME NEW i \in Items, reported'[i] # S!None
        PROVE  i # j /\ reported'[i] = reported[i] /\ S!Loaded(i)' = S!Loaded(i)
    <3>1. i # j
      BY <1>1, <2>4 DEF S!SetKey, S!TypeOK
    <3> QED
      BY <1>1, <3>1 DEF S!SetKey, S!TypeOK, S!Loaded
  <2> QED
    BY <1>1, <2>2, <2>3, <2>4 DEF S!SetKey, S!ReportedIsKept
<1>2. CASE S!Commit
  <2>1. saving \in Items /\ value \in S!Level /\ flash[saving] = value
    BY <1>2 DEF S!Commit, S!TypeOK, S!SavingIsOnFlash
  <2>2. S!TypeOK'
    BY <1>2, <2>1, Levels DEF S!Commit, S!TypeOK
  <2>3. \A i \in Items : S!Loaded(i)' = S!Loaded(i)
    BY <1>2 DEF S!Commit, S!Loaded
  <2>4. S!Loaded(saving) = value
    BY <2>1, Levels DEF S!Loaded
  <2>5. S!SavingIsOnFlash'
    BY <1>2 DEF S!Commit, S!SavingIsOnFlash
  <2>6. CASE UNCHANGED <<ram, reported>>
    BY <2>2, <2>3, <2>5, <2>6 DEF S!ReportedIsKept
  <2>7. CASE /\ ram' = [ram EXCEPT ![saving] = value]
             /\ reported' = [reported EXCEPT ![saving] = value]
    <3>1. ASSUME NEW i \in Items
          PROVE  IF i = saving THEN reported'[i] = value /\ ram'[i] = value
                               ELSE reported'[i] = reported[i] /\ ram'[i] = ram[i]
      BY <2>7 DEF S!TypeOK
    <3> QED
      BY <2>2, <2>3, <2>4, <2>5, <3>1 DEF S!ReportedIsKept
  <2> QED
    BY <1>2, <2>6, <2>7 DEF S!Commit
<1>3. CASE S!Erase
  <2>1. S!TypeOK'
    BY <1>3 DEF S!Erase, S!TypeOK
  <2> QED
    BY <1>3, <2>1 DEF S!Erase, S!SavingIsOnFlash, S!ReportedIsKept
<1> QED
  BY <1>1, <1>2, <1>3

LEMMA StillSettings ==
  ASSUME Stored, NEW on, S!ReportedIsKept(on), UNCHANGED settings
  PROVE  Stored' /\ \A i \in Items : reported'[i] # S!None =>
                      S!Loaded(i)' = reported'[i] /\ (on => ram'[i] = reported'[i])
<1>1. \A i \in Items : S!Loaded(i)' = S!Loaded(i)
  BY DEF settings, S!Loaded
<1> QED
  BY <1>1 DEF settings, Stored, S!TypeOK, S!SavingIsOnFlash, S!ReportedIsKept

-----------------------------------------------------------------------------
(* The three parts together. *)
LEMMA Parts == IInv <=> /\ TypeOK /\ TrialDiscipline /\ Panelled /\ Stored
                        /\ S!ReportedIsKept(Up)
  BY DEF IInv, DeviceTypeOK, Panelled, Stored, ReportedIsKept

LEMMA PartsNext ==
  TypeOK' /\ TrialDiscipline' /\ Panelled' /\ Stored' /\ S!ReportedIsKept(Up)' => IInv'
  BY DEF IInv, DeviceTypeOK, Panelled, Stored, ReportedIsKept

LEMMA InitIInv == DeviceInit => IInv
<1> SUFFICES ASSUME DeviceInit PROVE IInv
  OBVIOUS
<1>1. S!Init
  BY DEF DeviceInit
<1>2. S!ReportedIsKept(Up)
  BY <1>1 DEF S!Init, S!ReportedIsKept
<1> QED
  BY <1>1, <1>2, InitTrial, InitPanel, InitSettings, Parts DEF DeviceInit

LEMMA ResetsIInv ==
  ASSUME IInv, Resets
  PROVE  IInv'
<1>1. TypeOK' /\ TrialDiscipline'
  BY ResetsTrial, Parts DEF Resets
<1>2. ~Up'
  BY DEF Resets, PowerCut, Crash, Restart, SaveRestarts, Reset, Up
<1>3. Panelled'
  BY ClearPanel DEF Resets
<1>4. Stored' /\ \A i \in Items : reported'[i] # S!None => S!Loaded(i)' = reported'[i]
  BY ForgetSettings, Parts DEF Resets
<1>5. S!ReportedIsKept(Up)'
  BY <1>2, <1>4 DEF S!ReportedIsKept
<1> QED
  BY <1>1, <1>3, <1>4, <1>5, PartsNext

(* The firmware starts to use its settings nowhere but in StartsPanel. *)
LEMMA UpBefore ==
  ASSUME TypeOK, TrialDiscipline,
         \/ PowerOn \/ Bootloader \/ StartServing \/ MarkValid \/ Tick
         \/ \E to \in BOOLEAN : Panel(to) \/ Command(to)
         \/ RestartPost \/ FactoryResetPost \/ FactoryReset \/ UpdatePost \/ UploadFails
         \/ \E kind \in Kind : UploadEnds(kind)
         \/ UNCHANGED vars
  PROVE  Up' => Up
<1>1. CASE Bootloader
  BY <1>1 DEF Bootloader, Up
<1>2. CASE UpdatePost \/ \E kind \in Kind : UploadEnds(kind)
  <2>1. image'[running] = image[running]
    BY <1>2, UploadTrial
  <2> QED
    BY <1>2, <2>1 DEF UpdatePost, UploadEnds, Up
<1>3. CASE PowerOn \/ StartServing \/ MarkValid
  BY <1>3 DEF PowerOn, StartServing, MarkValid, Up, slots
<1>4. CASE \/ Tick \/ \E to \in BOOLEAN : Panel(to) \/ Command(to)
           \/ RestartPost \/ FactoryResetPost \/ FactoryReset \/ UploadFails
           \/ UNCHANGED vars
  BY <1>4 DEF Tick, Panel, Command, ChangeMode, RestartPost, FactoryResetPost,
     FactoryReset, UploadFails, vars, slots, Up
<1> QED
  BY <1>1, <1>2, <1>3, <1>4

LEMMA BootsIInv ==
  ASSUME IInv, Boots \/ Answers \/ Ticks
  PROVE  IInv'
<1>1. TypeOK' /\ TrialDiscipline'
  BY Parts, BootloaderTrial, StagesTrial, RequestsTrial, UploadTrial
     DEF Boots, Answers, Ticks
<1>2. Up' => Up
  BY Parts, UpBefore DEF Boots, Answers, Ticks
<1>3. UNCHANGED <<panel, settings>>
  BY DEF Boots, Answers, Ticks
<1>4. Panelled'
  BY <1>3, Parts, StillPanel
<1>5. Stored' /\ S!ReportedIsKept(Up)'
  BY <1>2, <1>3, Parts, StillSettings DEF S!ReportedIsKept
<1> QED
  BY <1>1, <1>4, <1>5, PartsNext

LEMMA PanelIInv ==
  ASSUME IInv, StartsPanel \/ Sampled
  PROVE  IInv'
<1>1. CASE StartsPanel
  <2>1. TypeOK' /\ TrialDiscipline'
    BY <1>1, Parts, StagesTrial DEF StartsPanel
  <2>2. Panelled'
    BY <1>1, SeedPanel DEF StartsPanel
  <2>3. Stored' /\ S!ReportedIsKept(Up)'
    BY <1>1, Parts, LoadSettings DEF StartsPanel, S!ReportedIsKept
  <2> QED
    BY <2>1, <2>2, <2>3, PartsNext
<1>2. CASE Sampled
  <2>1. TypeOK' /\ TrialDiscipline'
    BY <1>2, Parts, RequestsTrial DEF Sampled
  <2>2. Panelled'
    BY <1>2, Parts, StepPanel DEF Sampled
  <2>3. Up' => Up
    BY <1>2, Parts, UpBefore DEF Sampled
  <2>4. Stored' /\ S!ReportedIsKept(Up)'
    BY <1>2, <2>3, Parts, StillSettings DEF Sampled, S!ReportedIsKept
  <2> QED
    BY <2>1, <2>2, <2>4, PartsNext
<1> QED
  BY <1>1, <1>2

LEMMA SavesIInv ==
  ASSUME IInv, Erases \/ Saves
  PROVE  IInv'
<1>1. CASE Erases /\ S!Erase
  <2>1. TypeOK' /\ TrialDiscipline'
    BY <1>1, Parts, RequestsTrial DEF Erases
  <2>2. Up' => Up
    BY <1>1, Parts, UpBefore DEF Erases
  <2>3. Panelled'
    BY <1>1, Parts, StillPanel DEF Erases
  <2>4. Stored' /\ \A i \in Items : reported'[i] = S!None
    BY <1>1, Parts, SaveSettings DEF S!Erase
  <2> QED
    BY <2>1, <2>3, <2>4, PartsNext DEF S!ReportedIsKept
<1>2. CASE Erases /\ UNCHANGED settings
  <2>1. TypeOK' /\ TrialDiscipline'
    BY <1>2, Parts, RequestsTrial DEF Erases
  <2>2. Up' => Up
    BY <1>2, Parts, UpBefore DEF Erases
  <2>3. Panelled'
    BY <1>2, Parts, StillPanel DEF Erases
  <2>4. Stored' /\ S!ReportedIsKept(Up)'
    BY <1>2, <2>2, Parts, StillSettings DEF S!ReportedIsKept
  <2> QED
    BY <2>1, <2>3, <2>4, PartsNext
<1>3. CASE Saves
  <2>1. UNCHANGED vars
    BY <1>3 DEF Saves
  <2>2. TypeOK' /\ TrialDiscipline' /\ Up' = Up
    BY <2>1, Parts DEF vars, slots, heat, TypeOK, TrialDiscipline, OtherSlot, Up
  <2>3. Panelled'
    BY <1>3, Parts, StillPanel DEF Saves
  <2>4. Stored' /\ S!ReportedIsKept(Up)'
    BY <1>3, <2>2, Parts, SaveSettings DEF Saves, S!ReportedIsKept
  <2> QED
    BY <2>2, <2>3, <2>4, PartsNext
<1> QED
  BY <1>1, <1>2, <1>3 DEF Erases

LEMMA StutterIInv ==
  ASSUME IInv, UNCHANGED deviceVars
  PROVE  IInv'
<1>1. UNCHANGED <<vars, panel, settings>>
  BY DEF deviceVars
<1>2. TypeOK' /\ TrialDiscipline' /\ Up' = Up
  BY <1>1, Parts DEF vars, slots, heat, TypeOK, TrialDiscipline, OtherSlot, Up
<1>3. Panelled'
  BY <1>1, Parts, StillPanel
<1>4. Stored' /\ S!ReportedIsKept(Up)'
  BY <1>1, <1>2, Parts, StillSettings DEF S!ReportedIsKept
<1> QED
  BY <1>2, <1>3, <1>4, PartsNext

THEOREM Inductive == DeviceSpec => []IInv
<1>1. DeviceInit => IInv
  BY InitIInv
<1>2. IInv /\ [DeviceNext]_deviceVars => IInv'
  BY ResetsIInv, BootsIInv, PanelIInv, SavesIInv, StutterIInv DEF DeviceNext
<1> QED
  BY <1>1, <1>2, PTL DEF DeviceSpec

(* Every variable of the three parts keeps its type. *)
THEOREM TypeCorrect == DeviceSpec => []DeviceTypeOK
<1>1. IInv => DeviceTypeOK
  BY DEF IInv
<1> QED
  BY <1>1, Inductive, PTL

(* Whatever was uploaded and wherever it was cut off, DragonBreath runs,   *)
(* unless the restart of an update found no memory.                        *)
THEOREM FirmwareIsOwn == DeviceSpec => []OwnFirmwareRuns
<1>1. IInv => OwnFirmwareRuns
  BY DEF IInv, DeviceTypeOK, TypeOK, TrialDiscipline, OwnFirmwareRuns
<1> QED
  BY <1>1, Inductive, PTL

(* Every press has its event by the time it is released. *)
THEOREM PressesAreAnswered == DeviceSpec => []PressIsAnswered
<1>1. IInv => PressIsAnswered
  BY DEF IInv, B!MachineFollowsLine, PressIsAnswered, B!PressIsAnswered
<1> QED
  BY <1>1, Inductive, PTL

(* No event without a press of its own. *)
THEOREM EventsHaveAPress == DeviceSpec => EventsAreEarned
<1>1. ASSUME IInv, DeviceNext
      PROVE  (event' # "none" => due /\ steady' > Debounce) \/ UNCHANGED B!buttonVars
  <2>1. CASE Resets
    BY <2>1 DEF Resets, B!Clear
  <2>2. CASE StartsPanel
    BY <2>2, SeedPanel DEF StartsPanel
  <2>3. CASE Sampled
    BY <1>1, <2>3, Parts, StepPanel DEF Sampled
  <2>4. CASE UNCHANGED panel
    BY <2>4 DEF panel, B!buttonVars, B!machine, B!line
  <2> QED
    BY <1>1, <2>1, <2>2, <2>3, <2>4 DEF DeviceNext, Boots, Answers, Erases, Saves, Ticks
<1>2. UNCHANGED deviceVars => UNCHANGED B!buttonVars
  BY DEF deviceVars, panel, B!buttonVars, B!machine, B!line
<1>3. IInv /\ [DeviceNext]_deviceVars =>
        [event' # "none" => due /\ steady' > Debounce]_(B!buttonVars)
  BY <1>1, <1>2
<1> QED
  BY <1>3, Inductive, PTL DEF DeviceSpec, EventsAreEarned, B!EventsAreEarned

(* What a save reported is in use and is what every boot loads. *)
THEOREM ReportsAreKept == DeviceSpec => []ReportedIsKept
<1>1. IInv => ReportedIsKept
  BY DEF IInv
<1> QED
  BY <1>1, Inductive, PTL

-----------------------------------------------------------------------------
(* Supply, boots and updates go on as Maintenance.tla has them: the front  *)
(* panel and the settings add conditions to its steps and no steps.        *)
THEOREM DeviceIsMaintained == DeviceSpec => Spec
<1>1. DeviceInit => Init
  BY DEF DeviceInit
<1>2. [DeviceNext]_deviceVars => [Next]_vars
  BY DEF DeviceNext, deviceVars, Resets, Boots, StartsPanel, Sampled, Answers,
     Erases, Saves, Ticks, Next, AppMain
<1> QED
  BY <1>1, <1>2, PTL DEF DeviceSpec, Spec

(* The front panel is the machine of Buttons.tla whatever is booted,       *)
(* uploaded or saved beside it.                                            *)
THEOREM DeviceRunsButtons == DeviceSpec => B!Spec
<1>1. DeviceInit => B!Init
  BY DEF DeviceInit
<1>2. [DeviceNext]_deviceVars => [B!Next]_(B!buttonVars)
  <2>1. UNCHANGED panel => UNCHANGED B!buttonVars
    BY DEF panel, B!buttonVars, B!machine, B!line
  <2> QED
    BY <2>1 DEF DeviceNext, deviceVars, Resets, Boots, StartsPanel, Sampled, Answers,
       Erases, Saves, Ticks, B!Next
<1> QED
  BY <1>1, <1>2, PTL DEF DeviceSpec, B!Spec

(* And the settings are those of Settings.tla.                             *)
THEOREM DeviceKeepsSettings == DeviceSpec => S!Spec
<1>1. DeviceInit => S!Init
  BY DEF DeviceInit
<1>2. [DeviceNext]_deviceVars => [S!Next]_(S!settingsVars)
  <2>1. UNCHANGED settings => UNCHANGED S!settingsVars
    BY DEF settings, S!settingsVars
  <2> QED
    BY <2>1 DEF DeviceNext, deviceVars, Resets, Boots, StartsPanel, Sampled, Answers,
       Erases, Saves, Ticks, S!Next
<1> QED
  BY <1>1, <1>2, PTL DEF DeviceSpec, S!Spec

=============================================================================
