--------------------------- MODULE NetworkProofs ----------------------------
(***************************************************************************)
(* The Wi-Fi manager and the Moonraker client, for any number of retries,  *)
(* any bed temperatures and any number of messages in flight: the          *)
(* invariant is inductive, and the safety properties follow from it.       *)
(***************************************************************************)
EXTENDS Network, Sequences, TLAPS

(* Who may ask for a scan. *)
LEMMA Callers == /\ \A t \in W!Task : t = "main" \/ t = "httpd"
                 /\ "main" \in W!Task
  BY DEF W!Task

(* The access point, the station and the state. *)
LEMMA InitWifi == W!Init => W!IInv
<1> SUFFICES ASSUME W!Init PROVE W!IInv
  OBVIOUS
<1>1. W!TypeOK
  <2>1. retry \in 0 .. MaxRetries
    BY RetriesAssumption DEF W!Init
  <2>2. scan \in [W!Task -> {"idle", "claimed", "failed"}]
    BY DEF W!Init
  <2>3. creds \in W!Creds /\ fallback \in BOOLEAN
    BY DEF W!Init
  <2> QED
    BY <2>1, <2>2, <2>3 DEF W!Init, W!TypeOK, W!Creds
<1>2. W!StateDiscipline /\ W!ScanIsAccounted /\ W!OneScan
  BY DEF W!Init, W!StateDiscipline, W!ScanIsAccounted, W!OneScan
<1> QED
  BY <1>1, <1>2, Callers DEF W!IInv, W!Init, W!AsksFromPortal

LEMMA ResetWifi == W!IInv /\ W!Reset => W!IInv'
<1> SUFFICES ASSUME W!IInv, W!Reset PROVE W!IInv'
  OBVIOUS
<1>1. W!TypeOK'
  <2>1. retry' \in 0 .. MaxRetries
    BY RetriesAssumption DEF W!Reset
  <2>2. scan' \in [W!Task -> {"idle", "claimed", "failed"}]
    BY DEF W!Reset
  <2>3. creds' \in W!Creds /\ fallback' \in BOOLEAN
    BY DEF W!Reset, W!flash, W!IInv, W!TypeOK
  <2> QED
    BY <2>1, <2>2, <2>3 DEF W!Reset, W!TypeOK, W!Creds
<1>2. W!StateDiscipline' /\ W!ScanIsAccounted' /\ W!OneScan'
  BY DEF W!Reset, W!StateDiscipline, W!ScanIsAccounted, W!OneScan
<1> QED
  BY <1>1, <1>2, Callers DEF W!IInv, W!Reset, W!AsksFromPortal

(* What is not the scanner leaves it alone. *)
LEMMA ScannerStill ==
  ASSUME W!ScanIsAccounted, W!OneScan, UNCHANGED W!scanner
  PROVE  W!ScanIsAccounted' /\ W!OneScan'
  BY DEF W!scanner, W!ScanIsAccounted, W!OneScan

LEMMA MainWifi ==
  ASSUME W!IInv,
         W!Start \/ W!WaitEnds \/ W!FallBack \/ W!RestartDriver \/ W!Serve
  PROVE  W!IInv'
<1> USE DEF W!IInv, W!flash, W!boot, W!driver, W!link
<1>1. UNCHANGED W!scanner
  BY DEF W!Start, W!WaitEnds, W!FallBack, W!RestartDriver, W!Serve
<1>2. W!TypeOK'
  <2>1. scanning' = scanning /\ scan' = scan /\ radio' = radio
    BY <1>1 DEF W!scanner
  <2>2. CASE W!Start
    BY <2>1, <2>2 DEF W!Start, W!TypeOK
  <2>3. CASE W!WaitEnds
    BY <2>1, <2>3 DEF W!WaitEnds, W!TypeOK
  <2>4. CASE W!FallBack
    BY <2>1, <2>4 DEF W!FallBack, W!TypeOK
  <2>5. CASE W!RestartDriver
    BY <2>1, <2>5 DEF W!RestartDriver, W!TypeOK
  <2>6. CASE W!Serve
    BY <2>1, <2>6 DEF W!Serve, W!TypeOK
  <2> QED
    BY <2>2, <2>3, <2>4, <2>5, <2>6
<1>3. W!StateDiscipline'
  <2>1. CASE W!Start
    BY <2>1 DEF W!Start, W!StateDiscipline
  <2>2. CASE W!WaitEnds
    BY <2>2 DEF W!WaitEnds, W!StateDiscipline
  <2>3. CASE W!FallBack
    BY <2>3 DEF W!FallBack, W!StateDiscipline
  <2>4. CASE W!RestartDriver
    BY <2>4 DEF W!RestartDriver, W!StateDiscipline
  <2>5. CASE W!Serve
    BY <2>5 DEF W!Serve, W!StateDiscipline
  <2> QED
    BY <2>1, <2>2, <2>3, <2>4, <2>5
<1>4. W!AsksFromPortal'
  BY <1>1 DEF W!Start, W!WaitEnds, W!FallBack, W!RestartDriver, W!Serve, W!scanner,
     W!AsksFromPortal
<1> QED
  BY <1>1, <1>2, <1>3, <1>4, ScannerStill

(* The driver's events. *)
LEMMA EventsWifi ==
  ASSUME W!IInv, W!Events
  PROVE  W!IInv'
<1> USE DEF W!IInv, W!flash, W!boot, W!Tell
<1>1. UNCHANGED W!scanner
  BY DEF W!Events, W!Associate, W!GotIp, W!Disconnected
<1>2. W!TypeOK'
  <2>1. scanning' = scanning /\ scan' = scan /\ radio' = radio
    BY <1>1 DEF W!scanner
  <2>2. CASE W!Associate
    BY <2>1, <2>2 DEF W!Associate, W!TypeOK
  <2>3. CASE W!GotIp
    BY <2>1, <2>3, RetriesAssumption DEF W!GotIp, W!TypeOK
  <2>4. CASE W!Disconnected
    <3>1. retry' \in 0 .. MaxRetries
      BY <2>4, RetriesAssumption DEF W!Disconnected, W!TypeOK
    <3> QED
      BY <2>1, <2>4, <3>1 DEF W!Disconnected, W!TypeOK
  <2> QED
    BY <2>2, <2>3, <2>4 DEF W!Events
<1>3. W!StateDiscipline'
  <2>1. CASE W!Associate
    BY <2>1 DEF W!Associate, W!StateDiscipline
  <2>2. CASE W!GotIp
    BY <2>2 DEF W!GotIp, W!StateDiscipline, W!TypeOK
  <2>3. CASE W!Disconnected
    BY <2>3 DEF W!Disconnected, W!StateDiscipline, W!TypeOK
  <2> QED
    BY <2>1, <2>2, <2>3 DEF W!Events
<1>4. W!AsksFromPortal'
  BY <1>1 DEF W!Events, W!Associate, W!GotIp, W!Disconnected, W!scanner, W!AsksFromPortal
<1> QED
  BY <1>1, <1>2, <1>3, <1>4, ScannerStill

(* A save writes two keys and nothing else. *)
LEMMA SaveWifi ==
  ASSUME W!IInv, W!SaveSsid \/ W!SavePassword
  PROVE  W!IInv'
<1>1. /\ creds' \in W!Creds /\ saving' \in {"no", "half", "saved"}
      /\ UNCHANGED <<fallback, W!boot, W!link, W!scanner>>
  BY DEF W!SaveSsid, W!SavePassword, W!IInv, W!TypeOK, W!Creds
<1>2. W!TypeOK' /\ W!StateDiscipline'
  BY <1>1 DEF W!IInv, W!TypeOK, W!StateDiscipline, W!boot, W!link, W!driver, W!scanner
<1>3. W!AsksFromPortal'
  BY <1>1 DEF W!IInv, W!AsksFromPortal, W!boot, W!scanner
<1> QED
  BY <1>1, <1>2, <1>3, ScannerStill DEF W!IInv

(* Scans: two tasks ask, one flag admits. *)
LEMMA ScanWifi ==
  ASSUME W!IInv, W!Scan
  PROVE  W!IInv'
<1> USE DEF W!IInv
<1>1. /\ UNCHANGED <<W!flash, W!link, heard, saving>>
      /\ \/ main' = main
         \/ main = "portal" /\ main' = "done" /\ scan'["main"] = "idle"
  <2>1. ASSUME NEW t \in W!Task, W!ScanClaim(t) PROVE main' = main
    BY <2>1 DEF W!ScanClaim, W!boot
  <2>2. ASSUME NEW t \in W!Task, W!ScanBegin(t) \/ W!ScanRelease(t)
        PROVE  \/ main' = main
               \/ main = "portal" /\ main' = "done" /\ scan'["main"] = "idle"
    <3>1. CASE t = "main"
      BY <2>2, <3>1 DEF W!ScanBegin, W!ScanRelease, W!Leaves, W!AsksFromPortal, W!TypeOK
    <3>2. CASE t # "main"
      BY <2>2, <3>2 DEF W!ScanBegin, W!ScanRelease, W!Leaves
    <3> QED
      BY <3>1, <3>2
  <2>3. CASE W!ScanCoalesce
    BY <2>3 DEF W!ScanCoalesce, W!Asks, W!Leaves, W!scanner
  <2>4. CASE W!ScanDone
    BY <2>4 DEF W!ScanDone, W!boot
  <2>5. UNCHANGED <<W!flash, W!link, heard, saving>>
    BY DEF W!Scan, W!ScanClaim, W!ScanBegin, W!ScanRelease, W!ScanCoalesce, W!ScanDone,
       W!boot
  <2> QED
    BY <2>1, <2>2, <2>3, <2>4, <2>5 DEF W!Scan
<1>2. scanning' \in BOOLEAN /\ radio' \in BOOLEAN
      /\ scan' \in [W!Task -> {"idle", "claimed", "failed"}]
  BY DEF W!Scan, W!ScanClaim, W!ScanBegin, W!ScanRelease, W!ScanCoalesce, W!ScanDone,
     W!scanner, W!TypeOK
<1>3. W!TypeOK'
  BY <1>1, <1>2 DEF W!TypeOK, W!flash, W!link, W!driver
<1>4. W!StateDiscipline'
  BY <1>1 DEF W!StateDiscipline, W!flash, W!link, W!driver
<1>5. W!ScanIsAccounted' /\ W!OneScan'
  <2> USE DEF W!TypeOK, W!ScanIsAccounted, W!OneScan
  <2>1. ASSUME NEW t \in W!Task, W!ScanClaim(t)
        PROVE  W!ScanIsAccounted' /\ W!OneScan'
    BY <2>1 DEF W!ScanClaim
  <2>2. ASSUME NEW t \in W!Task, W!ScanBegin(t)
        PROVE  W!ScanIsAccounted' /\ W!OneScan'
    BY <2>2 DEF W!ScanBegin
  <2>3. ASSUME NEW t \in W!Task, W!ScanRelease(t)
        PROVE  W!ScanIsAccounted' /\ W!OneScan'
    BY <2>3 DEF W!ScanRelease
  <2>4. CASE W!ScanCoalesce
    BY <2>4 DEF W!ScanCoalesce, W!scanner
  <2>5. CASE W!ScanDone
    BY <2>5 DEF W!ScanDone
  <2> QED
    BY <2>1, <2>2, <2>3, <2>4, <2>5 DEF W!Scan
<1>6. W!AsksFromPortal'
  <2>1. ASSUME NEW t \in W!Task, W!ScanClaim(t)
        PROVE  scan'["main"] # "idle" => scan["main"] # "idle" \/ main = "portal"
    BY <2>1 DEF W!ScanClaim, W!Asks, W!TypeOK
  <2>2. ASSUME NEW t \in W!Task, W!ScanBegin(t) \/ W!ScanRelease(t)
        PROVE  scan'["main"] # "idle" => scan["main"] # "idle"
    <3>1. CASE t = "main"
      BY <2>2, <3>1 DEF W!ScanBegin, W!ScanRelease
    <3>2. CASE t # "main"
      BY <2>2, <3>2, Callers DEF W!ScanBegin, W!ScanRelease, W!TypeOK
    <3> QED
      BY <3>1, <3>2
  <2>3. CASE W!ScanCoalesce \/ W!ScanDone
    BY <1>1, <2>3 DEF W!ScanCoalesce, W!ScanDone, W!scanner, W!AsksFromPortal
  <2>4. CASE \E t \in W!Task : W!ScanClaim(t) \/ W!ScanBegin(t) \/ W!ScanRelease(t)
    BY <1>1, <2>1, <2>2, <2>4 DEF W!AsksFromPortal
  <2> QED
    BY <2>3, <2>4 DEF W!Scan
<1> QED
  BY <1>3, <1>4, <1>5, <1>6

LEMMA StillWifi ==
  ASSUME W!IInv, UNCHANGED wifi
  PROVE  W!IInv'
<1>1. W!TypeOK' /\ W!StateDiscipline' /\ W!AsksFromPortal'
  BY DEF wifi, W!IInv, W!TypeOK, W!StateDiscipline, W!AsksFromPortal
<1> QED
  BY <1>1, ScannerStill DEF wifi, W!IInv, W!scanner

-----------------------------------------------------------------------------
(* Queues of messages: what an append and a tail leave of the questions    *)
(* the invariant asks about them.                                          *)
LEMMA Messages ==
  /\ \A b \in Beds : [type |-> "delta", bed |-> b] \in MK!Message
  /\ \A b \in Beds : [type |-> "status", bed |-> b] \in MK!Message
  /\ [type |-> "klippy_gone"] \in MK!Message
  /\ [type |-> "klippy_ready"] \in MK!Message
  BY DEF MK!Message

LEMMA MessageFields ==
  ASSUME NEW m \in MK!Message
  PROVE  /\ MK!HasBed(m) => m.bed \in Beds
         /\ m.type \in {"status", "delta", "klippy_gone", "klippy_ready"}
  BY DEF MK!Message, MK!HasBed

LEMMA AppendFacts ==
  ASSUME NEW q \in Seq(MK!Message), NEW m \in MK!Message
  PROVE  /\ Append(q, m) \in Seq(MK!Message)
         /\ Len(q) \in Nat /\ Len(Append(q, m)) = Len(q) + 1
         /\ \A i \in 1 .. Len(q) : Append(q, m)[i] = q[i]
         /\ Append(q, m)[Len(q) + 1] = m
         /\ Append(q, m) # <<>>
  OBVIOUS

LEMMA TailFacts ==
  ASSUME NEW q \in Seq(MK!Message), q # <<>>
  PROVE  /\ Tail(q) \in Seq(MK!Message) /\ Head(q) \in MK!Message
         /\ Len(q) \in Nat /\ Len(q) >= 1 /\ Len(Tail(q)) = Len(q) - 1
         /\ \A i \in 1 .. Len(Tail(q)) : Tail(q)[i] = q[i + 1]
         /\ Head(q) = q[1]
  OBVIOUS

LEMMA AppendSays ==
  ASSUME NEW q \in Seq(MK!Message), NEW m \in MK!Message, MK!HasBed(m)
  PROVE  MK!Says(Append(q, m), m.bed) /\ ~MK!NoBed(Append(q, m))
<1> DEFINE r == Append(q, m)
<1>1. Len(r) \in Nat /\ Len(r) \in 1 .. Len(r) /\ r[Len(r)] = m
  BY AppendFacts
<1>2. ASSUME NEW i \in 1 .. Len(r), \A j \in i + 1 .. Len(r) : ~MK!HasBed(r[j])
      PROVE  r[i].bed = m.bed
  <2>1. CASE i = Len(r)
    BY <1>1, <2>1
  <2>2. CASE i # Len(r)
    <3>1. Len(r) \in i + 1 .. Len(r)
      BY <1>1, <2>2
    <3> QED
      BY <1>1, <1>2, <3>1
  <2> QED
    BY <2>1, <2>2
<1> HIDE DEF r
<1>3. MK!Says(r, m.bed) /\ ~MK!NoBed(r)
  BY <1>1, <1>2 DEF MK!Says, MK!NoBed
<1> QED
  BY <1>3 DEF r

LEMMA AppendStatus ==
  ASSUME NEW q \in Seq(MK!Message), NEW m \in MK!Message
  PROVE  /\ m.type # "status" /\ MK!HasStatus(Append(q, m)) => MK!HasStatus(q)
         /\ m.type = "klippy_ready" => MK!ReadyComes(Append(q, m))
                                       /\ ~MK!StatusComes(Append(q, m))
<1> DEFINE r == Append(q, m)
<1>1. /\ Len(q) \in Nat /\ Len(r) = Len(q) + 1 /\ r[Len(r)] = m
      /\ \A i \in 1 .. Len(q) : r[i] = q[i]
  BY AppendFacts
<1> HIDE DEF r
<1>2. m.type # "status" /\ MK!HasStatus(r) => MK!HasStatus(q)
  BY <1>1 DEF MK!HasStatus
<1>3. ASSUME m.type = "klippy_ready"
      PROVE  MK!ReadyComes(r) /\ ~MK!StatusComes(r)
  <2>1. MK!ReadyComes(r)
    BY <1>1, <1>3 DEF MK!ReadyComes
  <2>2. ASSUME NEW i \in 1 .. Len(r), r[i].type = "status"
        PROVE  Len(r) \in i + 1 .. Len(r)
    BY <1>1, <1>3, <2>2
  <2> QED
    BY <1>1, <1>3, <2>1, <2>2 DEF MK!StatusComes
<1> QED
  BY <1>2, <1>3 DEF r

LEMMA TailSays ==
  ASSUME NEW q \in Seq(MK!Message), q # <<>>, NEW b
  PROVE  /\ MK!Says(q, b) => MK!Says(Tail(q), b)
         /\ MK!Says(q, b) /\ MK!NoBed(Tail(q)) /\ MK!HasBed(Head(q)) => Head(q).bed = b
         /\ MK!NoBed(Tail(q)) /\ ~MK!HasBed(Head(q)) => MK!NoBed(q)
<1> DEFINE r == Tail(q)
<1>1. /\ Len(q) \in Nat /\ Len(q) >= 1 /\ Len(r) = Len(q) - 1 /\ Head(q) = q[1]
      /\ \A i \in 1 .. Len(r) : r[i] = q[i + 1]
  BY TailFacts
<1> HIDE DEF r
<1>2. \A j \in 2 .. Len(q) : j - 1 \in 1 .. Len(r) /\ r[j - 1] = q[j]
  <2> TAKE j \in 2 .. Len(q)
  <2>1. j - 1 \in 1 .. Len(r) /\ (j - 1) + 1 = j
    BY <1>1
  <2> QED
    BY <1>1, <2>1
<1>3. MK!Says(q, b) => MK!Says(r, b)
  <2> SUFFICES ASSUME MK!Says(q, b), NEW i \in 1 .. Len(r), MK!HasBed(r[i]),
                      \A j \in i + 1 .. Len(r) : ~MK!HasBed(r[j])
               PROVE  r[i].bed = b
    BY DEF MK!Says
  <2>1. i + 1 \in 1 .. Len(q) /\ r[i] = q[i + 1]
    BY <1>1
  <2>2. ASSUME NEW j \in (i + 1) + 1 .. Len(q)
        PROVE  ~MK!HasBed(q[j])
    <3>1. j \in 2 .. Len(q) /\ j - 1 \in i + 1 .. Len(r)
      BY <1>1
    <3> QED
      BY <1>2, <3>1
  <2> QED
    BY <2>1, <2>2 DEF MK!Says
<1>4. ASSUME MK!NoBed(r), NEW j \in 2 .. Len(q)
      PROVE  ~MK!HasBed(q[j])
    BY <1>2, <1>4 DEF MK!NoBed
<1>5. MK!Says(q, b) /\ MK!NoBed(r) /\ MK!HasBed(Head(q)) => Head(q).bed = b
  <2>1. 1 \in 1 .. Len(q) /\ 1 + 1 = 2
    BY <1>1
  <2> QED
    BY <1>1, <1>4, <2>1 DEF MK!Says
<1>6. MK!NoBed(r) /\ ~MK!HasBed(Head(q)) => MK!NoBed(q)
  <2>1. \A j \in 1 .. Len(q) : j = 1 \/ j \in 2 .. Len(q)
    BY <1>1
  <2> QED
    BY <1>1, <1>4, <2>1 DEF MK!NoBed
<1> QED
  BY <1>3, <1>5, <1>6 DEF r

LEMMA TailComes ==
  ASSUME NEW q \in Seq(MK!Message), q # <<>>
  PROVE  /\ MK!HasStatus(Tail(q)) => MK!HasStatus(q)
         /\ MK!StatusComes(Tail(q)) => MK!StatusComes(q)
         /\ Head(q).type = "status" => MK!HasStatus(q)
         /\ Head(q).type = "status" /\ ~MK!ReadyComes(Tail(q)) => MK!StatusComes(q)
         /\ Head(q).type # "klippy_ready" /\ ~MK!ReadyComes(Tail(q)) => ~MK!ReadyComes(q)
<1> DEFINE r == Tail(q)
<1>1. /\ Len(q) \in Nat /\ Len(q) >= 1 /\ Len(r) = Len(q) - 1 /\ Head(q) = q[1]
      /\ \A i \in 1 .. Len(r) : r[i] = q[i + 1]
  BY TailFacts
<1> HIDE DEF r
<1>2. \A j \in 2 .. Len(q) : j - 1 \in 1 .. Len(r) /\ r[j - 1] = q[j]
  <2> TAKE j \in 2 .. Len(q)
  <2>1. j - 1 \in 1 .. Len(r) /\ (j - 1) + 1 = j
    BY <1>1
  <2> QED
    BY <1>1, <2>1
<1>3. \A i \in 1 .. Len(r) : i + 1 \in 1 .. Len(q)
  BY <1>1
<1>4. 1 \in 1 .. Len(q) /\ \A j \in 1 .. Len(q) : j = 1 \/ j \in 2 .. Len(q)
  BY <1>1
<1>5. MK!HasStatus(r) => MK!HasStatus(q)
  BY <1>1, <1>3 DEF MK!HasStatus
<1>6. Head(q).type = "status" => MK!HasStatus(q)
  BY <1>1, <1>4 DEF MK!HasStatus
<1>7. MK!StatusComes(r) => MK!StatusComes(q)
  <2> SUFFICES ASSUME NEW i \in 1 .. Len(r), r[i].type = "status",
                      \A j \in i + 1 .. Len(r) : r[j].type # "klippy_ready"
               PROVE  MK!StatusComes(q)
    BY DEF MK!StatusComes
  <2>1. i + 1 \in 1 .. Len(q) /\ q[i + 1].type = "status"
    BY <1>1, <1>3
  <2>2. ASSUME NEW j \in (i + 1) + 1 .. Len(q)
        PROVE  q[j].type # "klippy_ready"
    <3>1. j \in 2 .. Len(q) /\ j - 1 \in i + 1 .. Len(r)
      BY <1>1
    <3> QED
      BY <1>2, <3>1
  <2> QED
    BY <2>1, <2>2 DEF MK!StatusComes
<1>8. Head(q).type = "status" /\ ~MK!ReadyComes(r) => MK!StatusComes(q)
  <2>1. ASSUME ~MK!ReadyComes(r), NEW j \in 1 + 1 .. Len(q)
        PROVE  q[j].type # "klippy_ready"
    <3>1. j \in 2 .. Len(q)
      OBVIOUS
    <3> QED
      BY <1>2, <2>1, <3>1 DEF MK!ReadyComes
  <2> QED
    BY <1>1, <1>4, <2>1 DEF MK!StatusComes
<1>9. Head(q).type # "klippy_ready" /\ ~MK!ReadyComes(r) => ~MK!ReadyComes(q)
  BY <1>1, <1>2, <1>4 DEF MK!ReadyComes
<1> QED
  BY <1>5, <1>6, <1>7, <1>8, <1>9 DEF r

LEMMA EmptyQueue ==
  /\ <<>> \in Seq(MK!Message) /\ Len(<<>>) <= MaxInFlight /\ 0 \in 0 .. 2
  /\ ~MK!HasStatus(<<>>) /\ ~MK!StatusComes(<<>>) /\ ~MK!ReadyComes(<<>>) /\ MK!NoBed(<<>>)
<1>1. Len(<<>>) <= MaxInFlight
  BY InFlightAssumption
<1> QED
  BY <1>1 DEF MK!HasStatus, MK!StatusComes, MK!ReadyComes, MK!NoBed
-----------------------------------------------------------------------------
(* The client and its server. *)
Disciplines == MK!ConnectionDiscipline /\ MK!KlippyDiscipline /\ MK!CacheDiscipline

(* A connection that is not up promises nothing but that. *)
LEMMA NotUp ==
  ASSUME ws # "up", inbox = <<>>, requests = 0, ~subscribed,
         ws = "down" => mk # "subscribed" /\ printer = "unknown"
  PROVE  Disciplines
  BY DEF Disciplines, MK!ConnectionDiscipline, MK!KlippyDiscipline,
     MK!CacheDiscipline, MK!Linked

LEMMA NotUpNext ==
  ASSUME ws' # "up", inbox' = <<>>, requests' = 0, ~subscribed',
         ws' = "down" => mk' # "subscribed" /\ printer' = "unknown"
  PROVE  Disciplines'
  BY DEF Disciplines, MK!ConnectionDiscipline, MK!KlippyDiscipline,
     MK!CacheDiscipline, MK!Linked

LEMMA InitClient == MK!Init => MK!IInv
<1> SUFFICES ASSUME MK!Init PROVE MK!IInv
  OBVIOUS
<1>1. MK!TypeOK
  BY EmptyQueue DEF MK!Init, MK!TypeOK
<1>2. Disciplines
  BY NotUp DEF MK!Init
<1> QED
  BY <1>1, <1>2 DEF MK!IInv, Disciplines

LEMMA ForgetClient == MK!IInv /\ MK!Restart => MK!IInv'
<1> SUFFICES ASSUME MK!IInv, MK!Restart PROVE MK!IInv'
  OBVIOUS
<1>1. MK!TypeOK'
  BY EmptyQueue DEF MK!Restart, MK!IInv, MK!TypeOK
<1>2. Disciplines'
  BY NotUpNext DEF MK!Restart
<1> QED
  BY <1>1, <1>2 DEF MK!IInv, Disciplines

(* A message joins the queue, or finds no connection. *)
LEMMA NotifyType ==
  ASSUME MK!TypeOK, MK!Room, NEW m \in MK!Message,
         MK!Notify(m) \/ inbox' = Append(inbox, m)
  PROVE  inbox' \in Seq(MK!Message) /\ Len(inbox') <= MaxInFlight
<1>1. CASE inbox' = inbox
  BY <1>1 DEF MK!TypeOK
<1>2. CASE inbox' = Append(inbox, m)
  <2>1. Append(inbox, m) \in Seq(MK!Message) /\ Len(Append(inbox, m)) = Len(inbox) + 1
    BY AppendFacts DEF MK!TypeOK
  <2>2. Len(inbox) \in Nat
    BY AppendFacts DEF MK!TypeOK
  <2> QED
    BY <1>2, <2>1, <2>2, InFlightAssumption DEF MK!Room
<1> QED
  BY <1>1, <1>2 DEF MK!Notify

LEMMA BedClient ==
  ASSUME MK!IInv, MK!BedChanges
  PROVE  MK!IInv'
<1> USE DEF MK!IInv
<1> DEFINE m == [type |-> "delta", bed |-> bed']
<1>1. /\ bed' \in Beds
      /\ UNCHANGED <<klippy, subscribed, ws, requests, starting, mk, webhooks, printer,
                     bedTemp, lost>>
  BY DEF MK!BedChanges, MK!status
<1>2. m \in MK!Message /\ m.type = "delta" /\ m.bed = bed' /\ MK!HasBed(m)
  BY <1>1, Messages DEF MK!HasBed
<1> HIDE DEF m
<1>3. CASE klippy /\ subscribed /\ ws = "up"
  <2>1. inbox' = Append(inbox, m)
    BY <1>3 DEF MK!BedChanges, MK!Notify, m
  <2>2. MK!TypeOK'
    BY <1>1, <1>2, <2>1, NotifyType DEF MK!BedChanges, MK!TypeOK
  <2>3. MK!Says(inbox', bed') /\ ~MK!NoBed(inbox')
    BY <1>2, <2>1, AppendSays DEF MK!TypeOK
  <2>4. MK!ConnectionDiscipline' /\ MK!KlippyDiscipline'
    BY <1>1, <1>3 DEF MK!ConnectionDiscipline, MK!KlippyDiscipline, MK!Linked
  <2> QED
    BY <2>2, <2>3, <2>4 DEF MK!CacheDiscipline
<1>4. CASE ~(klippy /\ subscribed /\ ws = "up")
  <2>1. inbox' = inbox
    BY <1>4 DEF MK!BedChanges, MK!Notify
  <2>2. MK!TypeOK'
    BY <1>1, <2>1 DEF MK!TypeOK
  <2>3. MK!ConnectionDiscipline' /\ MK!KlippyDiscipline'
    BY <1>1, <2>1 DEF MK!ConnectionDiscipline, MK!KlippyDiscipline, MK!Linked
  <2>4. MK!StatusComes(inbox) => MK!HasStatus(inbox)
    BY DEF MK!StatusComes, MK!HasStatus
  <2>5. MK!CacheDiscipline'
    BY <1>1, <1>4, <2>1, <2>4 DEF MK!CacheDiscipline, MK!ConnectionDiscipline, MK!Linked
  <2> QED
    BY <2>2, <2>3, <2>5
<1> QED
  BY <1>3, <1>4

LEMMA KlippyClient ==
  ASSUME MK!IInv, MK!KlippyGoes \/ MK!KlippyReturns
  PROVE  MK!IInv'
<1> USE DEF MK!IInv
<1>1. PICK m \in MK!Message :
        /\ MK!Notify(m) /\ MK!Room
        /\ \/ ~klippy' /\ m.type = "klippy_gone"
           \/ klippy' /\ m.type = "klippy_ready"
  <2>1. CASE MK!KlippyGoes
    BY <2>1, Messages DEF MK!KlippyGoes
  <2>2. CASE MK!KlippyReturns
    BY <2>2, Messages DEF MK!KlippyReturns
  <2> QED
    BY <2>1, <2>2
<1>2. /\ klippy' \in BOOLEAN
      /\ UNCHANGED <<bed, subscribed, ws, requests, starting, mk, webhooks, printer,
                     bedTemp, lost>>
  BY DEF MK!KlippyGoes, MK!KlippyReturns, MK!status
<1>3. MK!TypeOK'
  BY <1>1, <1>2, NotifyType DEF MK!TypeOK
<1>4. CASE ws # "up"
  <2>1. inbox' = inbox
    BY <1>1, <1>4 DEF MK!Notify
  <2>2. Disciplines'
    BY <1>2, <1>4, <2>1, NotUpNext DEF MK!ConnectionDiscipline, MK!Linked
  <2> QED
    BY <1>3, <2>2 DEF Disciplines
<1>5. CASE ws = "up"
  <2>1. inbox' = Append(inbox, m)
    BY <1>1, <1>5 DEF MK!Notify
  <2>2. /\ inbox' # <<>> /\ inbox'[Len(inbox')] = m
        /\ (MK!HasStatus(inbox') => MK!HasStatus(inbox))
        /\ (m.type = "klippy_ready" => MK!ReadyComes(inbox') /\ ~MK!StatusComes(inbox'))
    BY <1>1, <2>1, AppendFacts, AppendStatus DEF MK!TypeOK
  <2>3. MK!ConnectionDiscipline' /\ MK!KlippyDiscipline' /\ MK!CacheDiscipline'
    BY <1>1, <1>2, <1>5, <2>2 DEF MK!ConnectionDiscipline, MK!KlippyDiscipline,
       MK!CacheDiscipline, MK!Linked
  <2> QED
    BY <1>3, <2>3
<1> QED
  BY <1>4, <1>5

LEMMA ServeClient ==
  ASSUME MK!IInv, MK!Serve
  PROVE  MK!IInv'
<1> USE DEF MK!IInv
<1> DEFINE m == [type |-> "status", bed |-> bed]
<1>1. /\ ws = "up" /\ MK!Room /\ requests' \in 0 .. 2
      /\ UNCHANGED <<klippy, bed, ws, starting, mk, webhooks, printer, bedTemp, lost>>
  BY DEF MK!Serve, MK!status, MK!TypeOK
<1>2. m \in MK!Message /\ m.bed = bed /\ MK!HasBed(m)
  BY Messages DEF MK!HasBed, MK!TypeOK
<1>3. CASE klippy
  <2>1. subscribed' = TRUE /\ inbox' = Append(inbox, m)
    BY <1>3 DEF MK!Serve
  <2>2. MK!TypeOK'
    BY <1>1, <1>2, <2>1, NotifyType DEF MK!TypeOK
  <2>3. MK!Says(inbox', bed) /\ ~MK!NoBed(inbox')
    BY <1>2, <2>1, AppendSays DEF MK!TypeOK
  <2> QED
    BY <1>1, <1>3, <2>1, <2>2, <2>3 DEF MK!ConnectionDiscipline, MK!KlippyDiscipline,
       MK!CacheDiscipline, MK!Linked
<1>4. CASE ~klippy
  <2>1. subscribed' = subscribed /\ inbox' = inbox
    BY <1>4 DEF MK!Serve
  <2>2. MK!TypeOK'
    BY <1>1, <2>1 DEF MK!TypeOK
  <2> QED
    BY <1>1, <1>4, <2>1, <2>2 DEF MK!ConnectionDiscipline, MK!KlippyDiscipline,
       MK!CacheDiscipline, MK!Linked
<1> QED
  BY <1>3, <1>4

LEMMA SubscribeClient ==
  ASSUME MK!TypeOK, MK!Subscribe
  PROVE  requests' \in 0 .. 2 /\ lost' \in BOOLEAN /\ (lost' = TRUE \/ requests' # 0)
<1>1. requests \in 0 .. 2
  BY DEF MK!TypeOK
<1>2. (IF requests = 2 THEN 2 ELSE requests + 1) \in 1 .. 2
  BY <1>1
<1>3. CASE requests' = (IF requests = 2 THEN 2 ELSE requests + 1) /\ lost' = FALSE
  <2>1. requests' \in 1 .. 2
    BY <1>2, <1>3
  <2>2. requests' \in 0 .. 2 /\ requests' # 0
    BY <2>1
  <2> QED
    BY <1>3, <2>2
<1>4. CASE UNCHANGED requests /\ lost' = TRUE
  BY <1>1, <1>4
<1> QED
  BY <1>3, <1>4 DEF MK!Subscribe

(* The connection goes, is noticed, and comes back. *)
LEMMA ConnectionClient ==
  ASSUME MK!IInv, MK!Drop \/ MK!Disconnected \/ MK!Connected \/ MK!MarkConnecting
  PROVE  MK!IInv'
<1> USE DEF MK!IInv, MK!server, MK!status, MK!wire
<1>1. CASE MK!Drop
  <2>1. MK!TypeOK'
    BY <1>1, EmptyQueue DEF MK!Drop, MK!TypeOK
  <2>2. Disciplines'
    BY <1>1, NotUpNext DEF MK!Drop
  <2> QED
    BY <2>1, <2>2 DEF Disciplines
<1>2. CASE MK!Disconnected
  <2>1. MK!TypeOK'
    BY <1>2 DEF MK!Disconnected, MK!TypeOK
  <2>2. inbox = <<>> /\ requests = 0 /\ ~subscribed
    BY <1>2 DEF MK!Disconnected, MK!ConnectionDiscipline, MK!TypeOK
  <2>3. Disciplines'
    BY <1>2, <2>2, NotUpNext DEF MK!Disconnected
  <2> QED
    BY <2>1, <2>3 DEF Disciplines
<1>3. CASE MK!Connected
  <2>1. requests' \in 0 .. 2 /\ lost' \in BOOLEAN
    BY <1>3, SubscribeClient DEF MK!Connected
  <2>2. MK!TypeOK'
    BY <1>3, <2>1 DEF MK!Connected, MK!TypeOK
  <2>3. inbox' = <<>> /\ mk' # "subscribed" /\ printer' = "unknown"
    BY <1>3 DEF MK!Connected, MK!ConnectionDiscipline
  <2> QED
    BY <1>3, <2>2, <2>3, EmptyQueue DEF MK!Connected, MK!ConnectionDiscipline,
       MK!KlippyDiscipline, MK!CacheDiscipline, MK!Linked
<1>4. CASE MK!MarkConnecting
  <2>1. lost' \in BOOLEAN
    BY <1>4 DEF MK!MarkConnecting, MK!TypeOK
  <2>2. MK!TypeOK'
    BY <1>4, <2>1 DEF MK!MarkConnecting, MK!TypeOK
  <2> QED
    BY <1>4, <2>2 DEF MK!MarkConnecting, MK!ConnectionDiscipline,
       MK!KlippyDiscipline, MK!CacheDiscipline, MK!Linked
<1> QED
  BY <1>1, <1>2, <1>3, <1>4

(* The client reads a message.  What every handler leaves alone: *)
LEMMA ReadsClient ==
  ASSUME MK!IInv, NEW t, MK!Receives(t), UNCHANGED <<klippy, bed, subscribed, ws>>,
         mk' \in {mk, "subscribed"}, mk' # mk => t = "status",
         printer' = "live" => t # "klippy_gone"
  PROVE  /\ ws = "up" /\ inbox' \in Seq(MK!Message) /\ Len(inbox') <= MaxInFlight
         /\ Head(inbox) \in MK!Message
         /\ MK!ConnectionDiscipline' /\ MK!KlippyDiscipline'
<1> USE DEF MK!IInv
<1>1. inbox # <<>> /\ Head(inbox).type = t /\ inbox' = Tail(inbox)
  BY DEF MK!Receives
<1>2. ws = "up"
  BY <1>1 DEF MK!ConnectionDiscipline, MK!TypeOK
<1>3. /\ inbox' \in Seq(MK!Message) /\ Head(inbox) \in MK!Message
      /\ Len(inbox) \in Nat /\ Len(inbox) >= 1 /\ Len(inbox') = Len(inbox) - 1
      /\ \A i \in 1 .. Len(inbox') : inbox'[i] = inbox[i + 1]
      /\ Head(inbox) = inbox[1]
  BY <1>1, TailFacts DEF MK!TypeOK
<1>4. Len(inbox') <= MaxInFlight
  BY <1>3, InFlightAssumption DEF MK!TypeOK
<1>5. MK!ConnectionDiscipline'
  <2>1. MK!HasStatus(inbox') => MK!HasStatus(inbox)
    BY <1>1, TailComes DEF MK!TypeOK
  <2>2. t = "status" => MK!HasStatus(inbox)
    BY <1>1, TailComes DEF MK!TypeOK
  <2> QED
    BY <1>2, <2>1, <2>2 DEF MK!ConnectionDiscipline, MK!Linked
<1>6. MK!KlippyDiscipline'
  <2> SUFFICES ASSUME ~klippy
               PROVE  IF inbox' = <<>> THEN printer' # "live"
                                       ELSE inbox'[Len(inbox')].type = "klippy_gone"
    BY DEF MK!KlippyDiscipline
  <2>1. inbox[Len(inbox)].type = "klippy_gone"
    BY <1>1, <1>2 DEF MK!KlippyDiscipline
  <2>2. CASE inbox' = <<>>
    <3>1. Len(inbox) = 1
      BY <1>3, <2>2
    <3>2. t = "klippy_gone"
      BY <1>1, <1>3, <2>1, <3>1
    <3> QED
      BY <2>2, <3>2
  <2>3. CASE inbox' # <<>>
    <3>1. Len(inbox') \in 1 .. Len(inbox') /\ Len(inbox') + 1 = Len(inbox)
      BY <1>3, <2>3
    <3> QED
      BY <1>3, <2>1, <2>3, <3>1
  <2> QED
    BY <2>2, <2>3
<1> QED
  BY <1>2, <1>3, <1>4, <1>5, <1>6

(* A merge takes the bed temperature of the message; what the printer      *)
(* makes of it has its type.                                               *)
LEMMA MergeClient ==
  ASSUME MK!TypeOK, NEW m \in MK!Message, MK!HasBed(m), MK!Merge(m)
  PROVE  /\ bedTemp' = m.bed /\ bedTemp' \in Beds
         /\ webhooks' \in {"none", "ready", "shutdown"}
         /\ printer' \in {"unknown", "error", "live"}
  BY MessageFields DEF MK!Merge, MK!Recomputed, MK!TypeOK

LEMMA HandleBedClient ==
  ASSUME MK!IInv, MK!HandleStatus \/ MK!HandleDelta
  PROVE  MK!IInv'
<1> USE DEF MK!IInv
<1> DEFINE m == Head(inbox)
<1>1. PICK t \in {"status", "delta"} :
        /\ MK!Receives(t) /\ MK!Merge(m)
        /\ UNCHANGED <<klippy, bed, subscribed, ws, requests, starting>>
        /\ \/ t = "status" /\ mk' = "subscribed" /\ lost' = FALSE
           \/ t = "delta" /\ mk' = mk /\ lost' = lost
  BY DEF MK!HandleStatus, MK!HandleDelta, MK!server
<1>2. inbox # <<>> /\ m.type = t /\ inbox' = Tail(inbox) /\ MK!HasBed(m)
  BY <1>1 DEF MK!Receives, MK!HasBed
<1>3. /\ ws = "up" /\ inbox' \in Seq(MK!Message) /\ Len(inbox') <= MaxInFlight
      /\ m \in MK!Message
      /\ MK!ConnectionDiscipline' /\ MK!KlippyDiscipline'
  BY <1>1, ReadsClient
<1>4. /\ bedTemp' = m.bed /\ bedTemp' \in Beds
      /\ webhooks' \in {"none", "ready", "shutdown"}
      /\ printer' \in {"unknown", "error", "live"}
  BY <1>1, <1>2, <1>3, MergeClient
<1>5. MK!TypeOK'
  BY <1>1, <1>3, <1>4 DEF MK!TypeOK
<1>6. MK!CacheDiscipline'
  <2> SUFFICES ASSUME klippy
               PROVE  /\ MK!StatusComes(inbox') => MK!Says(inbox', bed)
                      /\ mk' = "subscribed" /\ ~lost' /\ requests = 0 /\ ~MK!ReadyComes(inbox')
                           => MK!Says(inbox', bed) /\ (MK!NoBed(inbox') => bedTemp' = bed)
    BY <1>1 DEF MK!CacheDiscipline, MK!Linked
  <2>1. /\ MK!StatusComes(inbox') => MK!StatusComes(inbox)
        /\ t = "status" /\ ~MK!ReadyComes(inbox') => MK!StatusComes(inbox)
        /\ ~MK!ReadyComes(inbox') => ~MK!ReadyComes(inbox)
    BY <1>1, <1>2, TailComes DEF MK!TypeOK
  <2>2. /\ MK!Says(inbox, bed) => MK!Says(inbox', bed)
        /\ MK!Says(inbox, bed) /\ MK!NoBed(inbox') => m.bed = bed
    BY <1>2, TailSays DEF MK!TypeOK
  <2>3. MK!StatusComes(inbox) => MK!Says(inbox, bed)
    BY <1>3 DEF MK!CacheDiscipline
  <2>4. ASSUME mk' = "subscribed", ~lost', requests = 0, ~MK!ReadyComes(inbox')
        PROVE  MK!Says(inbox, bed)
    <3>1. CASE t = "status"
      BY <2>1, <2>3, <2>4, <3>1
    <3>2. CASE t = "delta" /\ mk' = mk /\ lost' = lost
      BY <1>3, <2>1, <2>4, <3>2 DEF MK!CacheDiscipline, MK!Linked
    <3> QED
      BY <1>1, <3>1, <3>2
  <2> QED
    BY <1>4, <2>1, <2>2, <2>3, <2>4
<1> QED
  BY <1>3, <1>5, <1>6

LEMMA HandleOtherClient ==
  ASSUME MK!IInv, MK!DropStatus \/ MK!HandleReady \/ MK!HandleGone
  PROVE  MK!IInv'
<1> USE DEF MK!IInv
<1>1. PICK t \in {"status", "klippy_ready", "klippy_gone"} :
        /\ MK!Receives(t)
        /\ UNCHANGED <<klippy, bed, subscribed, ws, starting, mk, bedTemp>>
        /\ printer' \in {printer, "error"} /\ webhooks' \in {webhooks, "shutdown"}
        /\ t = "klippy_gone" => printer' = "error"
        /\ requests' \in 0 .. 2 /\ lost' \in BOOLEAN
        /\ t # "klippy_gone" => lost' = TRUE \/ (t = "klippy_ready" /\ requests' # 0)
        /\ t = "klippy_gone" => lost' = lost /\ requests' = requests
  <2>1. CASE MK!DropStatus
    BY <2>1 DEF MK!DropStatus, MK!server, MK!status, MK!TypeOK
  <2>2. CASE MK!HandleReady
    <3>1. /\ requests' \in 0 .. 2 /\ lost' \in BOOLEAN
          /\ lost' = TRUE \/ requests' # 0
      BY <2>2, SubscribeClient DEF MK!HandleReady
    <3> QED
      BY <2>2, <3>1 DEF MK!HandleReady, MK!server, MK!status
  <2>3. CASE MK!HandleGone
    BY <2>3 DEF MK!HandleGone, MK!server, MK!Recomputed, MK!TypeOK
  <2> QED
    BY <2>1, <2>2, <2>3
<1>2. inbox # <<>> /\ Head(inbox).type = t /\ inbox' = Tail(inbox)
  BY <1>1 DEF MK!Receives
<1>3. /\ ws = "up" /\ inbox' \in Seq(MK!Message) /\ Len(inbox') <= MaxInFlight
      /\ MK!ConnectionDiscipline' /\ MK!KlippyDiscipline'
  BY <1>1, ReadsClient
<1>4. MK!TypeOK'
  BY <1>1, <1>3 DEF MK!TypeOK
<1>5. MK!CacheDiscipline'
  <2> SUFFICES ASSUME klippy
               PROVE  /\ MK!StatusComes(inbox') => MK!Says(inbox', bed)
                      /\ mk = "subscribed" /\ ~lost' /\ requests' = 0 /\ ~MK!ReadyComes(inbox')
                           => MK!Says(inbox', bed) /\ (MK!NoBed(inbox') => bedTemp = bed)
    BY <1>1 DEF MK!CacheDiscipline, MK!Linked
  <2>1. MK!StatusComes(inbox') => MK!StatusComes(inbox)
    BY <1>2, TailComes DEF MK!TypeOK
  <2>2. MK!Says(inbox, bed) => MK!Says(inbox', bed)
    BY <1>2, TailSays DEF MK!TypeOK
  <2>3. MK!StatusComes(inbox) => MK!Says(inbox, bed)
    BY <1>3 DEF MK!CacheDiscipline
  <2>4. ASSUME mk = "subscribed", ~lost', requests' = 0, ~MK!ReadyComes(inbox')
        PROVE  MK!Says(inbox', bed) /\ (MK!NoBed(inbox') => bedTemp = bed)
    <3>1. t = "klippy_gone" /\ lost' = lost /\ requests' = requests
      BY <1>1, <2>4
    <3>2. ~MK!ReadyComes(inbox) /\ ~MK!HasBed(Head(inbox))
      BY <1>2, <2>4, <3>1, TailComes DEF MK!TypeOK, MK!HasBed
    <3>3. MK!NoBed(inbox') => MK!NoBed(inbox)
      BY <1>2, <3>2, TailSays DEF MK!TypeOK
    <3> QED
      BY <1>3, <2>2, <2>4, <3>1, <3>2, <3>3 DEF MK!CacheDiscipline, MK!Linked
  <2> QED
    BY <2>1, <2>2, <2>3, <2>4
<1> QED
  BY <1>3, <1>4, <1>5

LEMMA HandleClient == MK!IInv /\ MK!Handle => MK!IInv'
  BY HandleBedClient, HandleOtherClient DEF MK!Handle

LEMMA StillClient ==
  ASSUME MK!IInv, UNCHANGED client
  PROVE  MK!IInv'
  BY DEF client, MK!IInv, MK!TypeOK, MK!ConnectionDiscipline, MK!KlippyDiscipline,
     MK!CacheDiscipline, MK!Linked
-----------------------------------------------------------------------------
(* The two together: each step is a step of one, and a restart of both. *)
THEOREM Inductive == Spec => []IInv
<1>1. Init => IInv
  BY InitWifi, InitClient DEF Init, IInv
<1>2. IInv /\ [Next]_vars => IInv'
  <2> SUFFICES ASSUME W!IInv, MK!IInv, [Next]_vars
               PROVE  W!IInv' /\ MK!IInv'
    BY DEF IInv
  <2>1. CASE Restart
    BY <2>1, ResetWifi, ForgetClient DEF Restart, W!SaveRestarts
  <2>2. CASE MainWorks
    BY <2>2, MainWifi, StillWifi, ConnectionClient, StillClient DEF MainWorks
  <2>3. CASE WifiWorks
    BY <2>3, EventsWifi, ScanWifi, SaveWifi, StillClient DEF WifiWorks
  <2>4. CASE Printer
    BY <2>4, StillWifi, BedClient, KlippyClient, ServeClient, ConnectionClient
       DEF Printer
  <2>5. CASE ClientWorks \/ AttemptFails
    BY <2>5, StillWifi, HandleClient, ConnectionClient DEF ClientWorks, AttemptFails
  <2>6. CASE UNCHANGED vars
    BY <2>6, StillWifi, StillClient DEF vars
  <2> QED
    BY <2>1, <2>2, <2>3, <2>4, <2>5, <2>6 DEF Next
<1> QED
  BY <1>1, <1>2, PTL DEF Spec

(* Every variable of the two parts keeps its type. *)
THEOREM TypeCorrect == Spec => []TypeOK
<1>1. IInv => TypeOK
  BY DEF IInv, W!IInv, MK!IInv, TypeOK
<1> QED
  BY <1>1, Inductive, PTL

(* From the first request on, the state tells a portal from a station,     *)
(* wherever an address came in while the driver was restarted.             *)
THEOREM StateTellsTheTruth == Spec => []StateIsTruthful
<1>1. IInv => StateIsTruthful
  BY DEF IInv, W!IInv, W!StateDiscipline, StateIsTruthful, W!StateIsTruthful, W!Served
<1> QED
  BY <1>1, Inductive, PTL

(* The flag is up exactly while a scan is or is about to be under way. *)
THEOREM ScanFlagIsTrue == Spec => []ScanIsAccounted
<1>1. IInv => ScanIsAccounted
  BY DEF IInv, W!IInv, ScanIsAccounted
<1> QED
  BY <1>1, Inductive, PTL

(* With nothing in flight AUTO is given the bed temperature of the         *)
(* printer, across every drop, reconnect and restart of Klipper.           *)
THEOREM BedIsCurrent == Spec => []CacheIsCurrent
<1>1. IInv => CacheIsCurrent
  <2> SUFFICES ASSUME MK!IInv, MK!Quiet, ~lost
               PROVE  /\ MK!Linked /\ klippy => bedTemp = bed
                      /\ MK!Linked => ws = "up"
                      /\ printer = "live" => klippy /\ ws = "up"
    BY DEF IInv, CacheIsCurrent, MK!CacheIsCurrent
  <2>1. ws \in {"up", "down"} /\ requests = 0 /\ inbox = <<>>
    BY DEF MK!Quiet, MK!IInv, MK!TypeOK
  <2>2. CASE ws = "down"
    BY <2>2 DEF MK!IInv, MK!ConnectionDiscipline
  <2>3. CASE ws = "up"
    BY <2>1, <2>3, EmptyQueue DEF MK!IInv, MK!TypeOK, MK!KlippyDiscipline,
       MK!CacheDiscipline
  <2> QED
    BY <2>1, <2>2, <2>3
<1> QED
  BY <1>1, Inductive, PTL

-----------------------------------------------------------------------------
(* The Wi-Fi manager does what it would do without a client above it.      *)
THEOREM NetworkRunsWifi == Spec => W!Spec
<1>1. Init => W!Init
  BY DEF Init
<1>2. [Next]_vars => [W!Next]_(W!wifiVars)
  <2>1. UNCHANGED wifi => UNCHANGED W!wifiVars
    BY DEF wifi, W!wifiVars, W!flash, W!boot, W!link, W!driver, W!scanner
  <2> QED
    BY <2>1 DEF Next, vars, Restart, MainWorks, WifiWorks, Printer, ClientWorks,
       AttemptFails, W!Next, W!Main, W!Save
<1> QED
  BY <1>1, <1>2, PTL DEF Spec, W!Spec

(* The Moonraker client over a station that comes and goes does what it    *)
(* would do over any network: what holds of Moonraker.tla holds here.      *)
THEOREM NetworkRunsClient == Spec => MK!Spec
<1>1. Init => MK!Init
  BY DEF Init
<1>2. [Next]_vars => [MK!Next]_(MK!vars)
  <2>1. UNCHANGED client => UNCHANGED MK!vars
    BY DEF client, MK!vars, MK!server, MK!wire, MK!status
  <2> QED
    BY <2>1 DEF Next, vars, Restart, MainWorks, WifiWorks, Printer, ClientWorks,
       AttemptFails, MK!Next
<1> QED
  BY <1>1, <1>2, PTL DEF Spec, MK!Spec

=============================================================================
