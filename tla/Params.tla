------------------------------- MODULE Params -------------------------------
(***************************************************************************)
(* The remembered mode parameters of pb_policy.c: commands change them in  *)
(* RAM under the policy mutex, one worker task copies them to flash key by *)
(* key, and a boot reads them back, clamped to the ceiling of pb_heater.c. *)
(* Values are ordinal levels.                                              *)
(***************************************************************************)
EXTENDS Naturals, Sequences, Functions

CONSTANTS
  Order,      \* the keys, in the order persist_params writes them
  Capped,     \* the keys that hold a target temperature
  Groups,     \* the sets of keys one command changes together
  MaxLevel,   \* PB_HEATER_ABS_MAX_TARGET_C as a level
  Default,    \* the level pb_policy_init installs
  Ceilings,   \* the ceilings the settings page may choose
  TopCeiling, \* PB_HEATER_MAX_TARGET_C_DEFAULT
  MayFail     \* which flash operations may fail, of "read" and "write"

Keys   == Range(Order)
Level  == 1 .. MaxLevel
Absent == 0                 \* a key that was never written

ASSUME KeysAssumption   == Order \in Seq(Keys) /\ Capped \subseteq Keys
                           /\ Groups \subseteq SUBSET Keys
ASSUME LevelsAssumption == MaxLevel \in Nat \ {0} /\ Default \in Level
                           /\ Ceilings \subseteq Level /\ TopCeiling \in Ceilings
ASSUME FailAssumption   == MayFail \subseteq {"read", "write"}

VARIABLES
  up,         \* the firmware runs
  params,     \* s.params
  dirty,      \* s.params_dirty
  ceiling,    \* s_max_target_c
  ceilingKey, \* the ceiling on flash, or the default while there is none
  waking,     \* a command has released the mutex but not yet notified
  notified,   \* the worker's notification value is not 0
  pc,         \* of the worker: "idle", "compare", "write" or "end"
  copy,       \* the worker's snapshot of the parameters; idle, it has none
              \* and this is written
  next,       \* index into Order of the key it looks at; idle, 1
  err,        \* its first error
  written,    \* s_written
  flash,      \* the keys on flash
  failed,     \* history: the worker's last attempt failed
  astray      \* history: the keys of which s_written does not tell what flash
              \* holds, since a boot clamped or could not read them, or a save
              \* that wrote them failed

limits == <<ceiling, ceilingKey>>
worker == <<pc, copy, next, err>>
hist   == <<failed, astray>>
vars   == <<up, params, dirty, limits, waking, notified, worker, written,
            flash, hist>>

Smaller(a, b) == IF a < b THEN a ELSE b
Clamp(k, v, max) == IF k \in Capped THEN Smaller(v, max) ELSE v

-----------------------------------------------------------------------------
Init ==
  /\ up = FALSE
  /\ params = [k \in Keys |-> Default] /\ dirty = FALSE
  /\ ceiling = TopCeiling /\ ceilingKey = TopCeiling
  /\ waking = FALSE /\ notified = FALSE
  /\ pc = "idle" /\ copy = params /\ next = 1 /\ err = FALSE
  /\ written = params
  /\ flash = [k \in Keys |-> Absent]
  /\ failed = FALSE /\ astray = {}

(* What flash says of a key. *)
Held(k)        == IF flash[k] = Absent THEN Default ELSE flash[k]
Unlike(values) == {k \in Keys : values[k] # Held(k)}

(* Mutant: what was read is not clamped. *)
LoadedUnclamped(readable, max) == [k \in Keys |-> IF readable THEN Held(k) ELSE Default]

(* What pb_policy_load_params makes of flash. *)
Loaded(readable, max) ==
  [k \in Keys |-> Clamp(k, IF readable THEN Held(k) ELSE Default, max)]

(* pb_heater_load_config *)
LoadedCeiling(readable) == IF readable THEN ceilingKey ELSE TopCeiling

(* pb_heater_load_config and pb_policy_load_params, in that order; either  *)
(* may find its namespace unreadable.                                      *)
Boot ==
  /\ ~up /\ up' = TRUE
  /\ \E here, there \in {TRUE, "read" \notin MayFail} :
       LET max == LoadedCeiling(there) IN
       /\ ceiling' = max
       /\ params' = Loaded(here, max)
       /\ written' = Loaded(here, max) /\ copy' = Loaded(here, max)
       /\ astray' = Unlike(Loaded(here, max))
  /\ dirty' = FALSE /\ failed' = FALSE
  /\ UNCHANGED <<ceilingKey, waking, notified, pc, next, err, flash>>

(* RAM is back at what it starts with. *)
PowerCut ==
  /\ up /\ up' = FALSE
  /\ params' = [k \in Keys |-> Default] /\ dirty' = FALSE
  /\ ceiling' = TopCeiling
  /\ waking' = FALSE /\ notified' = FALSE
  /\ pc' = "idle" /\ copy' = params' /\ next' = 1 /\ err' = FALSE
  /\ written' = params'
  /\ failed' = FALSE /\ astray' = {}
  /\ UNCHANGED <<ceilingKey, flash>>

(* An accepted command: the values after the clamp, under the mutex. *)
Command(g, v) ==
  /\ up
  /\ params' = [k \in Keys |-> IF k \in g THEN Clamp(k, v[k], ceiling) ELSE params[k]]
  /\ dirty' = TRUE /\ waking' = TRUE
  /\ UNCHANGED <<up, limits, notified, worker, written, flash, hist>>

(* params_notify, after the mutex. *)
Notify ==
  /\ waking /\ waking' = FALSE /\ notified' = TRUE
  /\ UNCHANGED <<up, params, dirty, limits, worker, written, flash, hist>>

(* pb_heater_set_max_target_c leaves the remembered parameters alone.  Its *)
(* own write follows the change in RAM, is best effort and not reported.   *)
SetCeiling(max) ==
  /\ up /\ ceiling' = max
  /\ ceilingKey' \in {max, ceilingKey}
  /\ UNCHANGED <<up, params, dirty, waking, notified, worker, written, flash, hist>>

-----------------------------------------------------------------------------
(* Mutant: the worker leaves the dirty flag to the end of the write. *)
WorkerTakeKeepingDirty ==
  /\ pc = "idle" /\ notified /\ notified' = FALSE
  /\ IF dirty
     THEN pc' = "compare" /\ copy' = params /\ next' = 1
     ELSE UNCHANGED <<pc, copy, next>>
  /\ UNCHANGED <<up, params, dirty, limits, waking, err, written, flash, hist>>

(* persist_task wakes; pb_policy_persist_pending copies the parameters and *)
(* clears the flag in one critical section.                                *)
WorkerTake ==
  /\ pc = "idle" /\ notified /\ notified' = FALSE
  /\ IF dirty
     THEN pc' = "compare" /\ copy' = params /\ next' = 1 /\ dirty' = FALSE
     ELSE UNCHANGED <<pc, copy, next, dirty>>
  /\ UNCHANGED <<up, params, limits, waking, err, written, flash, hist>>

(* persist_params: nothing to do, the namespace does not open, or write. *)
WorkerCompare ==
  /\ pc = "compare"
  /\ \/ copy = written /\ pc' = "end" /\ err' = FALSE
     \/ copy # written /\ pc' = "write" /\ err' = FALSE
     \/ copy # written /\ "write" \in MayFail /\ pc' = "end" /\ err' = TRUE
  /\ UNCHANGED <<up, params, dirty, limits, waking, notified, copy, next,
                 written, flash, hist>>

(* One key: skipped when unchanged; an error does not stop the loop. *)
WorkerWrite ==
  /\ pc = "write" /\ next <= Len(Order)
  /\ LET k == Order[next] IN
     \/ copy[k] = written[k] /\ UNCHANGED <<flash, err>>
     \/ copy[k] # written[k] /\ flash' = [flash EXCEPT ![k] = copy[k]] /\ UNCHANGED err
     \/ copy[k] # written[k] /\ "write" \in MayFail /\ err' = TRUE /\ UNCHANGED flash
  /\ next' = next + 1
  /\ UNCHANGED <<up, params, dirty, limits, waking, notified, pc, copy,
                 written, hist>>

(* The commit, skipped after an error, may fail itself. *)
WorkerCommit ==
  /\ pc = "write" /\ next > Len(Order)
  /\ pc' = "end"
  /\ UNCHANGED err \/ ("write" \in MayFail /\ err' = TRUE)
  /\ UNCHANGED <<up, params, dirty, limits, waking, notified, copy, next,
                 written, flash, hist>>

Changed == {k \in Keys : copy[k] # written[k]}

(* Mutant: a failed attempt is forgotten. *)
WorkerEndForgetful ==
  /\ pc = "end" /\ pc' = "idle"
  /\ failed' = err /\ err' = FALSE
  /\ IF err THEN astray' = Unlike(written) /\ UNCHANGED written
            ELSE astray' = astray \ Changed /\ written' = copy
  /\ copy' = written' /\ next' = 1
  /\ UNCHANGED <<up, params, dirty, limits, waking, notified, flash>>

(* Success is remembered as what flash holds; after a failure the          *)
(* parameters are dirty again, and stay so until the next command wakes    *)
(* the worker.                                                             *)
WorkerEnd ==
  /\ pc = "end" /\ pc' = "idle"
  /\ failed' = err /\ err' = FALSE
  /\ IF err
     THEN dirty' = TRUE /\ astray' = Unlike(written) /\ UNCHANGED written
     ELSE written' = copy /\ astray' = astray \ Changed /\ UNCHANGED dirty
  /\ copy' = written' /\ next' = 1
  /\ UNCHANGED <<up, params, limits, waking, notified, flash>>

Worker == WorkerTake \/ WorkerCompare \/ WorkerWrite \/ WorkerCommit \/ WorkerEnd

Next ==
  \/ Boot \/ PowerCut \/ Notify \/ Worker
  \/ \E g \in Groups : \E v \in [g -> Level] : Command(g, v)
  \/ \E max \in Ceilings : SetCeiling(max)

Spec == Init /\ [][Next]_vars

-----------------------------------------------------------------------------
(* Type invariant. *)
TypeOK ==
  /\ up \in BOOLEAN /\ dirty \in BOOLEAN /\ waking \in BOOLEAN
  /\ notified \in BOOLEAN /\ err \in BOOLEAN /\ failed \in BOOLEAN
  /\ params \in [Keys -> Level] /\ copy \in [Keys -> Level]
  /\ written \in [Keys -> Level] /\ astray \subseteq Keys
  /\ ceiling \in Ceilings /\ ceilingKey \in Ceilings /\ flash \in [Keys -> Level \cup {Absent}]
  /\ pc \in {"idle", "compare", "write", "end"} /\ next \in 1 .. Len(Order) + 1

(* A command that lands while the worker is writing is not lost, nor is    *)
(* one that an earlier save failed for: with the worker idle and nothing   *)
(* marked dirty, flash holds what the commands last set.  The exception is *)
(* a value that s_written says is there already: it is not written again,  *)
(* though a boot that clamped it or a save that failed left another one.   *)
NothingForgotten ==
  up /\ pc = "idle" /\ ~dirty =>
    \A k \in Keys : params[k] = Held(k) \/ (k \in astray /\ params[k] = written[k])

(* Dirty parameters have a wake coming, unless the last attempt failed:    *)
(* no interleaving of commands and worker leaves an accepted change        *)
(* waiting for a command that may never come.                              *)
NoLostWake == dirty /\ pc = "idle" => waking \/ notified \/ failed

(* A stored target is never above what the heater would accept: what is    *)
(* remembered is the clamped value, and at boot it is within the ceiling.  *)
RememberedIsApplicable ==
  [][ \A k \in Capped : up' /\ (params'[k] > params[k] \/ ~up)
        => params'[k] <= ceiling' ]_vars

-----------------------------------------------------------------------------
(* The inductive invariant behind these properties (ParamsProofs.tla).     *)
(* While the worker writes, what it took is what the commands last set,    *)
(* unless they marked it dirty again, and then a wake is coming.           *)
WorkerHoldsTheLast ==
  /\ up /\ pc # "idle" /\ ~dirty => params = copy
  /\ dirty /\ pc # "idle" => waking \/ notified

(* Idle and clean, the device knows its parameters as written. *)
CleanIsWritten == up /\ pc = "idle" /\ ~dirty => params = written

(* Flash holds what is known as written, but for the keys that went astray *)
(* and, while the worker is writing, those it has to write; and it holds   *)
(* the copy of every key that it is past without an error.                 *)
WrittenIsOnFlash ==
  /\ pc = "compare" => next = 1
  /\ \A k \in Keys \ astray :
       up /\ (pc \in {"idle", "compare"} \/ copy[k] = written[k]) => written[k] = Held(k)
  /\ pc \in {"write", "end"} /\ ~err =>
       \A i \in 1 .. Len(Order) :
         (pc = "write" => i < next) /\ Order[i] \in Changed
           => copy[Order[i]] = flash[Order[i]]

(* Without power nothing is pending. *)
DownIsQuiet == ~up => pc = "idle" /\ ~dirty /\ ~waking /\ ~notified

IInv ==
  /\ TypeOK /\ NoLostWake /\ WorkerHoldsTheLast /\ CleanIsWritten
  /\ WrittenIsOnFlash /\ DownIsQuiet
=============================================================================
