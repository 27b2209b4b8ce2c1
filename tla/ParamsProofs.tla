---------------------------- MODULE ParamsProofs ----------------------------
(***************************************************************************)
(* The remembered parameters, for any set of keys and commands, any values *)
(* and any failures of the flash: the invariant is inductive, and the      *)
(* properties follow from it.                                              *)
(***************************************************************************)
EXTENDS Params, TLAPS

LEMMA Facts ==
  /\ Default \in Level /\ Ceilings \subseteq Level /\ TopCeiling \in Ceilings
  /\ Capped \subseteq Keys /\ Level \subseteq Nat
  /\ Len(Order) \in Nat /\ 1 \in 1 .. Len(Order) + 1
  /\ \A n \in 1 .. Len(Order) : Order[n] \in Keys /\ n + 1 \in 1 .. Len(Order) + 1
  /\ \A n \in 1 .. Len(Order) + 1 : n <= Len(Order) => n \in 1 .. Len(Order)
<1>1. Order \in Seq(Keys)
  BY KeysAssumption
<1>2. Len(Order) \in Nat /\ \A n \in 1 .. Len(Order) : Order[n] \in Keys
  BY <1>1
<1> QED
  BY <1>2, LevelsAssumption, KeysAssumption DEF Level

LEMMA EveryKeyOrdered == \A k \in Keys : \E i \in 1 .. Len(Order) : Order[i] = k
  BY KeysAssumption DEF Keys, Range

(* What flash says of a key. *)
LEMMA HeldLevel ==
  ASSUME TypeOK, NEW k \in Keys
  PROVE  Held(k) \in Level
  BY Facts DEF TypeOK, Held

(* A clamped value is one of the levels and within the ceiling. *)
LEMMA Clamped ==
  ASSUME NEW k \in Keys, NEW v \in Level, NEW max \in Level
  PROVE  Clamp(k, v, max) \in Level /\ (k \in Capped => Clamp(k, v, max) <= max)
  BY Facts DEF Clamp, Smaller

(* What a boot reads is in the range of what commands could have stored,   *)
(* and its targets are within the ceiling, whatever flash holds.           *)
LEMMA LoadedIsApplicable ==
  ASSUME TypeOK, NEW r \in BOOLEAN, NEW max \in Level
  PROVE  /\ Loaded(r, max) \in [Keys -> Level]
         /\ \A k \in Capped : Loaded(r, max)[k] <= max
<1>1. \A k \in Keys : (IF r THEN Held(k) ELSE Default) \in Level
  BY HeldLevel, Facts
<1> QED
  BY <1>1, Clamped, Facts DEF Loaded

LEMMA LoadedCeilings ==
  ASSUME TypeOK, NEW r \in BOOLEAN
  PROVE  LoadedCeiling(r) \in Ceilings
  BY Facts DEF TypeOK, LoadedCeiling

LEMMA InitIInv == Init => IInv
<1> SUFFICES ASSUME Init PROVE IInv
  OBVIOUS
<1>1. TypeOK
  BY Facts DEF Init, TypeOK
<1> QED
  BY <1>1 DEF Init, IInv, CleanIsWritten, NoLostWake, WorkerHoldsTheLast, DownIsQuiet,
     WrittenIsOnFlash

LEMMA BootIInv ==
  ASSUME IInv, Boot
  PROVE  IInv'
<1>1. PICK here \in {TRUE, "read" \notin MayFail}, there \in {TRUE, "read" \notin MayFail} :
        /\ ceiling' = LoadedCeiling(there)
        /\ params' = Loaded(here, LoadedCeiling(there))
        /\ written' = Loaded(here, LoadedCeiling(there))
        /\ copy' = Loaded(here, LoadedCeiling(there))
        /\ astray' = Unlike(Loaded(here, LoadedCeiling(there)))
  BY DEF Boot
<1>2. LoadedCeiling(there) \in Ceilings
  BY LoadedCeilings DEF IInv
<1>3. Loaded(here, LoadedCeiling(there)) \in [Keys -> Level]
  BY <1>2, LoadedIsApplicable, Facts DEF IInv
<1>4. TypeOK'
  BY <1>1, <1>2, <1>3 DEF Boot, IInv, TypeOK, Unlike
<1>5. pc = "idle" /\ pc' = pc
  BY DEF Boot, IInv, DownIsQuiet
<1>6. WrittenIsOnFlash'
  BY <1>1, <1>5 DEF Boot, WrittenIsOnFlash, Unlike, Held
<1> QED
  BY <1>1, <1>4, <1>5, <1>6 DEF Boot, IInv, CleanIsWritten, NoLostWake,
     WorkerHoldsTheLast, DownIsQuiet

LEMMA PowerCutIInv ==
  ASSUME IInv, PowerCut
  PROVE  IInv'
<1>1. TypeOK'
  BY Facts DEF PowerCut, IInv, TypeOK
<1> QED
  BY <1>1 DEF PowerCut, IInv, CleanIsWritten, NoLostWake, WorkerHoldsTheLast,
     DownIsQuiet, WrittenIsOnFlash

(* What commands and the settings page do leaves worker and flash alone. *)
LEMMA StillOnFlash ==
  ASSUME WrittenIsOnFlash, UNCHANGED <<up, worker, written, flash, hist>>
  PROVE  WrittenIsOnFlash'
  BY DEF WrittenIsOnFlash, worker, hist, Changed, Held

LEMMA CommandIInv ==
  ASSUME IInv, NEW g \in Groups, NEW v \in [g -> Level], Command(g, v)
  PROVE  IInv'
<1>1. params' \in [Keys -> Level]
  <2>1. \A k \in Keys : (IF k \in g THEN Clamp(k, v[k], ceiling) ELSE params[k]) \in Level
    BY Clamped, Facts DEF IInv, TypeOK
  <2> QED
    BY <2>1 DEF Command
<1>2. TypeOK'
  BY <1>1 DEF Command, IInv, TypeOK, limits, worker, hist
<1> QED
  BY <1>2, StillOnFlash DEF Command, IInv, CleanIsWritten, NoLostWake, WorkerHoldsTheLast,
     DownIsQuiet, worker

LEMMA NotifyIInv ==
  ASSUME IInv, Notify
  PROVE  IInv'
<1>1. TypeOK'
  BY DEF Notify, IInv, TypeOK, limits, worker, hist
<1> QED
  BY <1>1, StillOnFlash DEF Notify, IInv, CleanIsWritten, NoLostWake, WorkerHoldsTheLast,
     DownIsQuiet, worker, hist

LEMMA CeilingIInv ==
  ASSUME IInv, NEW max \in Ceilings, SetCeiling(max)
  PROVE  IInv'
<1>1. TypeOK'
  BY DEF SetCeiling, IInv, TypeOK, worker, hist
<1> QED
  BY <1>1, StillOnFlash DEF SetCeiling, IInv, CleanIsWritten, NoLostWake, WorkerHoldsTheLast,
     DownIsQuiet, worker, hist

-----------------------------------------------------------------------------
(* The worker, which takes the flag with its copy. *)
LEMMA TakeIInv ==
  ASSUME IInv, WorkerTake
  PROVE  IInv'
<1> USE DEF WorkerTake, IInv, limits, hist
<1>1. CASE dirty
  <2>1. TypeOK'
    BY <1>1, Facts DEF TypeOK
  <2>2. WrittenIsOnFlash'
    BY <1>1 DEF WrittenIsOnFlash, Held
  <2> QED
    BY <1>1, <2>1, <2>2 DEF CleanIsWritten, NoLostWake, WorkerHoldsTheLast, DownIsQuiet
<1>2. CASE ~dirty
  <2>1. TypeOK'
    BY <1>2 DEF TypeOK
  <2>2. WrittenIsOnFlash'
    BY <1>2 DEF WrittenIsOnFlash, Held
  <2> QED
    BY <1>2, <2>1, <2>2 DEF CleanIsWritten, NoLostWake, WorkerHoldsTheLast, DownIsQuiet
<1> QED
  BY <1>1, <1>2

LEMMA CompareIInv ==
  ASSUME IInv, WorkerCompare
  PROVE  IInv'
<1> USE DEF WorkerCompare, IInv, limits, hist
<1>1. TypeOK'
  BY DEF TypeOK
<1>2. WrittenIsOnFlash'
  BY DEF WrittenIsOnFlash, Held, Changed
<1> QED
  BY <1>1, <1>2 DEF CleanIsWritten, NoLostWake, WorkerHoldsTheLast, DownIsQuiet

LEMMA WriteIInv ==
  ASSUME IInv, WorkerWrite
  PROVE  IInv'
<1> USE DEF WorkerWrite, IInv, limits, hist
<1>1. next \in 1 .. Len(Order) /\ Order[next] \in Keys /\ next + 1 \in 1 .. Len(Order) + 1
  BY Facts DEF TypeOK
<1>2. flash' \in [Keys -> Level \cup {Absent}] /\ err' \in BOOLEAN
  BY <1>1 DEF TypeOK
<1>3. TypeOK'
  BY <1>1, <1>2 DEF TypeOK
<1>4. ASSUME NEW k \in Keys \ astray', up', copy'[k] = written'[k]
      PROVE  written'[k] = Held(k)'
  <2>1. flash'[k] = flash[k]
    BY <1>1, <1>4 DEF TypeOK
  <2> QED
    BY <1>4, <2>1 DEF WrittenIsOnFlash, Held
<1>5. ASSUME ~err', NEW i \in 1 .. Len(Order), i < next', Order[i] \in Changed'
      PROVE  copy'[Order[i]] = flash'[Order[i]]
  <2>1. i < next \/ i = next
    BY <1>1, <1>5
  <2>2. Order[i] \in Keys /\ Order[i] \in Changed /\ copy' = copy
    BY <1>5, Facts DEF Changed
  <2>3. CASE i = next
    BY <1>1, <1>5, <2>2, <2>3 DEF TypeOK, Changed
  <2>4. CASE i < next
    <3>1. ~err \/ (\E b \in {FALSE} : err = b)
      BY <1>5 DEF TypeOK
    <3>2. copy[Order[i]] = flash[Order[i]]
      BY <1>5, <2>2, <2>4, <3>1 DEF WrittenIsOnFlash
    <3> QED
      BY <1>1, <2>2, <3>2 DEF TypeOK
  <2> QED
    BY <2>1, <2>3, <2>4
<1>6. WrittenIsOnFlash'
  BY <1>4, <1>5 DEF WrittenIsOnFlash
<1> QED
  BY <1>3, <1>6 DEF CleanIsWritten, NoLostWake, WorkerHoldsTheLast, DownIsQuiet

(* Past the last key, every key that had to be written was tried. *)
LEMMA CommitIInv ==
  ASSUME IInv, WorkerCommit
  PROVE  IInv'
<1> USE DEF WorkerCommit, IInv, limits, hist
<1>1. err' \in BOOLEAN /\ (~err' => ~err)
  <2>1. err \in BOOLEAN
    BY DEF TypeOK
  <2>2. CASE UNCHANGED err
    BY <2>1, <2>2
  <2>3. CASE err' = TRUE
    BY <2>3
  <2> QED
    BY <2>2, <2>3, Zenon
<1>2. TypeOK'
  BY <1>1 DEF TypeOK
<1>3. \A i \in 1 .. Len(Order) : i < next
  BY Facts DEF TypeOK
<1>4. WrittenIsOnFlash'
  BY <1>1, <1>3 DEF WrittenIsOnFlash, Held, Changed
<1> QED
  BY <1>2, <1>4 DEF CleanIsWritten, NoLostWake, WorkerHoldsTheLast, DownIsQuiet

LEMMA EndIInv ==
  ASSUME IInv, WorkerEnd
  PROVE  IInv'
<1> USE DEF WorkerEnd, IInv, limits
<1>1. CASE err
  <2>1. TypeOK'
    BY <1>1, Facts DEF TypeOK, Unlike
  <2>2. WrittenIsOnFlash'
    BY <1>1 DEF WrittenIsOnFlash, Unlike, Held
  <2> QED
    BY <1>1, <2>1, <2>2 DEF CleanIsWritten, NoLostWake, WorkerHoldsTheLast, DownIsQuiet
<1>2. CASE ~err
  <2>1. TypeOK'
    BY <1>2, Facts DEF TypeOK
  <2>2. \A k \in Changed : copy[k] = flash[k]
    <3> SUFFICES ASSUME NEW k \in Changed PROVE copy[k] = flash[k]
      OBVIOUS
    <3>1. PICK i \in 1 .. Len(Order) : Order[i] = k
      BY EveryKeyOrdered DEF Changed
    <3> QED
      BY <1>2, <3>1 DEF WrittenIsOnFlash
  <2>3. ASSUME NEW k \in Keys \ astray' PROVE copy[k] = Held(k)
    <3>1. CASE k \in Changed
      <4>1. copy[k] = flash[k] /\ copy[k] # Absent
        BY <2>2, <3>1, Facts DEF TypeOK, Level, Absent
      <4> QED
        BY <4>1 DEF Held
    <3>2. CASE k \notin Changed
      <4>1. up /\ k \in Keys \ astray /\ copy[k] = written[k]
        BY <1>2, <2>3, <3>2 DEF Changed, DownIsQuiet
      <4> QED
        BY <4>1 DEF WrittenIsOnFlash
    <3> QED
      BY <3>1, <3>2
  <2>4. WrittenIsOnFlash'
    BY <1>2, <2>3 DEF WrittenIsOnFlash, Held
  <2> QED
    BY <1>2, <2>1, <2>4 DEF CleanIsWritten, NoLostWake, WorkerHoldsTheLast, DownIsQuiet
<1> QED
  BY <1>1, <1>2

LEMMA StutterIInv ==
  ASSUME IInv, UNCHANGED vars
  PROVE  IInv'
  BY StillOnFlash DEF IInv, TypeOK, CleanIsWritten, NoLostWake, WorkerHoldsTheLast,
     DownIsQuiet, vars, limits, worker, hist

THEOREM Inductive == Spec => []IInv
<1>1. Init => IInv
  BY InitIInv
<1>2. IInv /\ [Next]_vars => IInv'
  BY BootIInv, PowerCutIInv, CommandIInv, NotifyIInv, CeilingIInv, TakeIInv,
     CompareIInv, WriteIInv, CommitIInv, EndIInv, StutterIInv DEF Next, Worker
<1> QED
  BY <1>1, <1>2, PTL DEF Spec

(* Every variable keeps its type. *)
THEOREM TypeCorrect == Spec => []TypeOK
<1>1. IInv => TypeOK
  BY DEF IInv
<1> QED
  BY <1>1, Inductive, PTL

(* No command is lost between the copy and the end of a write: idle and    *)
(* clean, flash holds what the commands last set, but for a value that was *)
(* known as written when its key went astray.                              *)
THEOREM CommandsAreKept == Spec => []NothingForgotten
<1>1. IInv => NothingForgotten
  BY DEF IInv, NothingForgotten, CleanIsWritten, WrittenIsOnFlash
<1> QED
  BY <1>1, Inductive, PTL

(* Dirty parameters have a wake coming or their failure on record. *)
THEOREM WakesAreKept == Spec => []NoLostWake
<1>1. IInv => NoLostWake
  BY DEF IInv
<1> QED
  BY <1>1, Inductive, PTL

(* No target is raised, and none loaded, above what the heater accepts. *)
THEOREM TargetsAreApplicable == Spec => RememberedIsApplicable
<1>1. ASSUME IInv, Next, NEW k \in Capped, up', params'[k] > params[k] \/ ~up
      PROVE  params'[k] <= ceiling'
  <2>1. k \in Keys /\ ceiling \in Level /\ params[k] \in Level
    BY <1>1, Facts DEF IInv, TypeOK
  <2>2. CASE Boot
    <3>1. PICK here \in {TRUE, "read" \notin MayFail}, there \in {TRUE, "read" \notin MayFail} :
            /\ ceiling' = LoadedCeiling(there)
            /\ params' = Loaded(here, LoadedCeiling(there))
      BY <2>2 DEF Boot
    <3>2. LoadedCeiling(there) \in Level
      BY <1>1, LoadedCeilings, Facts DEF IInv
    <3> QED
      BY <1>1, <3>1, <3>2, LoadedIsApplicable DEF IInv
  <2>3. ASSUME NEW g \in Groups, NEW v \in [g -> Level], Command(g, v)
        PROVE  params'[k] <= ceiling'
    <3>1. up' = up /\ ceiling' = ceiling
          /\ params'[k] = IF k \in g THEN Clamp(k, v[k], ceiling) ELSE params[k]
      BY <2>1, <2>3 DEF Command, limits
    <3>2. CASE k \in g
      <4>1. v[k] \in Level
        BY <3>2
      <4> QED
        BY <1>1, <2>1, <3>1, <3>2, <4>1, Clamped
    <3>3. CASE k \notin g
      BY <1>1, <2>1, <3>1, <3>3, Facts
    <3> QED
      BY <3>2, <3>3
  <2>4. ASSUME params' = params, up' => up
        PROVE  FALSE
    <3>1. params[k] \in Nat /\ params'[k] = params[k]
      BY <2>1, <2>4, Facts
    <3>2. ~(params'[k] > params[k])
      BY <3>1
    <3> QED
      BY <1>1, <2>4, <3>2
  <2> QED
    BY <1>1, <2>2, <2>3, <2>4 DEF Next, PowerCut, Notify, SetCeiling, Worker, WorkerTake,
       WorkerCompare, WorkerWrite, WorkerCommit, WorkerEnd
<1>2. IInv /\ [Next]_vars =>
        [ \A k \in Capped : up' /\ (params'[k] > params[k] \/ ~up)
            => params'[k] <= ceiling' ]_vars
  BY <1>1
<1> QED
  BY <1>2, Inductive, PTL DEF Spec, RememberedIsApplicable

=============================================================================
