---------------------------- MODULE MirrorProofs ----------------------------
(***************************************************************************)
(* Proofs about the devices that report their state by datagrams, the plug *)
(* of TplinkPlug and the light of GoveeLight: for every number of updates  *)
(* and restarts, and whatever the network loses or reorders, the table     *)
(* mirrors the device.  The way of a report into the table (Reports) is    *)
(* the same for both and comes first.                                      *)
(***************************************************************************)
EXTENDS TplinkPlug, GoveeLight, TLAPS

(* Reports reach the table in the order in which the device sent them,     *)
(* which is so until a datagram overtakes another.                         *)
OrderInv ==
  /\ \A i, j \in 1 .. Len(toServer) : i < j => toServer[i] <= toServer[j]
  /\ \A i \in 1 .. Len(toServer) : seen <= toServer[i] /\ hearing <= toServer[i]
  /\ hearing # 0 => seen <= hearing

-----------------------------------------------------------------------------
(* Sequences: what is left when one element is taken out. *)
Without(s, i) == SubSeq(s, 1, i - 1) \o SubSeq(s, i + 1, Len(s))

LEMMA WithoutFacts ==
  ASSUME NEW S, NEW s \in Seq(S), NEW i \in DOMAIN s
  PROVE  /\ Without(s, i) \in Seq(S)
         /\ Len(Without(s, i)) = Len(s) - 1
         /\ \A k \in 1 .. Len(s) - 1 :
              Without(s, i)[k] = s[IF k < i THEN k ELSE k + 1]
  <1> DEFINE a == SubSeq(s, 1, i - 1)
             b == SubSeq(s, i + 1, Len(s))
  <1>1. Len(s) \in Nat /\ i \in 1 .. Len(s) /\ \A k \in 1 .. Len(s) : s[k] \in S
    OBVIOUS
  <1>2. /\ a \in Seq(S) /\ Len(a) = i - 1
        /\ \A k \in 1 .. i - 1 : a[k] = s[k]
    BY <1>1
  <1>3. /\ b \in Seq(S) /\ Len(b) = Len(s) - i
        /\ \A k \in 1 .. Len(s) - i : b[k] = s[i + k]
    BY <1>1
  <1> HIDE DEF a, b
  <1>4. /\ a \o b \in Seq(S) /\ Len(a \o b) = Len(s) - 1
        /\ \A k \in 1 .. Len(s) - 1 :
             (a \o b)[k] = IF k <= Len(a) THEN a[k] ELSE b[k - Len(a)]
    BY <1>1, <1>2, <1>3
  <1>5. \A k \in 1 .. Len(s) - 1 : (a \o b)[k] = s[IF k < i THEN k ELSE k + 1]
    <2> SUFFICES ASSUME NEW k \in 1 .. Len(s) - 1
                 PROVE  (a \o b)[k] = s[IF k < i THEN k ELSE k + 1]
      OBVIOUS
    <2>1. CASE k < i
      BY <1>1, <1>2, <1>4, <2>1
    <2>2. CASE ~(k < i)
      <3>1. (a \o b)[k] = b[k - (i - 1)] /\ k - (i - 1) \in 1 .. Len(s) - i
        BY <1>1, <1>2, <1>4, <2>2
      <3>2. b[k - (i - 1)] = s[i + (k - (i - 1))] /\ i + (k - (i - 1)) = k + 1
        BY <1>1, <1>3, <3>1
      <3> QED
        BY <2>2, <3>1, <3>2
    <2> QED
      BY <2>1, <2>2
  <1> QED
    BY <1>4, <1>5 DEF Without, a, b

(* What is left when two neighbours change places. *)
LEMMA SwappedFacts ==
  ASSUME NEW S, NEW s \in Seq(S), NEW i \in 1 .. Len(s) - 1
  PROVE  /\ Swapped(s, i) \in Seq(S)
         /\ Len(Swapped(s, i)) = Len(s)
         /\ \A k \in 1 .. Len(s) :
              Swapped(s, i)[k] = s[IF k = i THEN i + 1 ELSE IF k = i + 1 THEN i ELSE k]
  <1>1. Len(s) \in Nat /\ i \in DOMAIN s /\ i + 1 \in DOMAIN s /\ i # i + 1
    OBVIOUS
  <1> QED
    BY <1>1 DEF Swapped

-----------------------------------------------------------------------------
(* What a step does to the reports and the table. *)
Forgets(k) ==
  /\ toServer' = SubSeq(toServer, k + 1, Len(toServer))
  /\ hearing' = 0 /\ known' = FALSE
  /\ UNCHANGED <<history, seen>>

ReportStep(States) ==
  \/ UNCHANGED reportVars
  \/ \E s \in States : Becomes(s) /\ UNCHANGED <<toServer, tableVars>>
  \/ Report /\ UNCHANGED <<history, tableVars>>
  \/ Hear \/ Record
  \/ \E k \in 0 .. Len(toServer) : Forgets(k)
  \/ \E i \in DOMAIN toServer : LoseReport(i)

Reordered == \E i \in 1 .. Len(toServer) - 1 : OvertakeReport(i)

Overtakes ==
  /\ overtaken < MaxOvertaken /\ overtaken' = overtaken + 1
  /\ UNCHANGED reportVars \/ Reordered

DeviceStep(States) ==
  \/ ReportStep(States) /\ UNCHANGED overtaken
  \/ Overtakes

HistoryOK(States) == history \in Seq(States) /\ Len(history) >= 1

(* The states of the device are only added to. *)
LEMMA HistoryGrows ==
  ASSUME NEW States, HistoryOK(States), DeviceStep(States)
  PROVE  /\ HistoryOK(States)'
         /\ Len(history) \in Nat \ {0} /\ Len(history') \in {Len(history), Len(history) + 1}
         /\ \A i \in DOMAIN history : i \in DOMAIN history' /\ history'[i] = history[i]
  <1>1. CASE UNCHANGED history
    BY <1>1 DEF HistoryOK
  <1>2. ASSUME NEW s \in States, Becomes(s)
        PROVE  /\ HistoryOK(States)'
               /\ Len(history) \in Nat \ {0} /\ Len(history') = Len(history) + 1
               /\ \A i \in DOMAIN history : i \in DOMAIN history' /\ history'[i] = history[i]
    BY <1>2 DEF HistoryOK, Becomes
  <1> QED
    BY <1>1, <1>2
    DEF DeviceStep, Overtakes, Reordered, OvertakeReport,
        ReportStep, reportVars, Hear, Record, Forgets, LoseReport

-----------------------------------------------------------------------------
(* A report is of a state that the device has had, in whatever order they  *)
(* come.                                                                   *)
LEMMA ReportsTyped ==
  ASSUME NEW States, HistoryOK(States), ReportsTypeOK, DeviceStep(States)
  PROVE  ReportsTypeOK'
  <1> DEFINE n == Len(history)
             Reported == 1 .. n
  <1>1. /\ n \in Nat \ {0} /\ toServer \in Seq(Reported) /\ Len(toServer) \in Nat
        /\ \A i \in 1 .. Len(toServer) : toServer[i] \in Reported
        /\ hearing \in 0 .. n /\ seen \in 0 .. n
        /\ known \in BOOLEAN /\ (known => seen # 0)
    BY DEF HistoryOK, ReportsTypeOK
  <1>2. CASE UNCHANGED reportVars
    BY <1>2 DEF ReportsTypeOK, reportVars
  <1>3. ASSUME NEW s \in States, Becomes(s), UNCHANGED <<toServer, tableVars>>
        PROVE  ReportsTypeOK'
    <2>1. Len(history') = n + 1
      BY <1>3 DEF HistoryOK, Becomes
    <2>2. toServer \in Seq(1 .. n + 1)
      BY <1>1
    <2> QED
      BY <1>1, <1>3, <2>1, <2>2 DEF ReportsTypeOK, tableVars
  <1>4. CASE Report /\ UNCHANGED <<history, tableVars>>
    <2>1. toServer' \in Seq(Reported)
      BY <1>1, <1>4 DEF Report
    <2> QED
      BY <1>1, <1>4, <2>1 DEF ReportsTypeOK, tableVars
  <1>5. CASE Hear
    <2>1. toServer' \in Seq(Reported) /\ hearing' = toServer[1] /\ Len(toServer) >= 1
      BY <1>1, <1>5 DEF Hear
    <2> QED
      BY <1>1, <1>5, <2>1 DEF ReportsTypeOK, Hear
  <1>6. CASE Record
    BY <1>1, <1>6 DEF ReportsTypeOK, Record
  <1>7. ASSUME NEW k \in 0 .. Len(toServer), Forgets(k)
        PROVE  ReportsTypeOK'
    <2>1. toServer' \in Seq(Reported)
      BY <1>1, <1>7 DEF Forgets
    <2>2. known' \in BOOLEAN /\ (known' => seen' # 0)
      BY <1>7, Zenon DEF Forgets
    <2> QED
      BY <1>1, <1>7, <2>1, <2>2 DEF ReportsTypeOK, Forgets
  <1>8. ASSUME NEW i \in DOMAIN toServer, LoseReport(i)
        PROVE  ReportsTypeOK'
    <2>1. toServer' \in Seq(Reported)
      BY <1>1, <1>8, WithoutFacts DEF LoseReport, Without
    <2> QED
      BY <1>1, <1>8, <2>1 DEF ReportsTypeOK, LoseReport
  <1>9. ASSUME NEW i \in 1 .. Len(toServer) - 1, OvertakeReport(i)
        PROVE  ReportsTypeOK'
    <2>1. toServer' \in Seq(Reported)
      BY <1>1, <1>9, SwappedFacts DEF OvertakeReport
    <2> QED
      BY <1>1, <1>9, <2>1 DEF ReportsTypeOK, OvertakeReport
  <1> QED
    BY <1>2, <1>3, <1>4, <1>5, <1>6, <1>7, <1>8, <1>9
    DEF DeviceStep, ReportStep, Overtakes, Reordered

(* Reports keep their order on the way into the table while none overtakes *)
(* another.                                                                *)
LEMMA ReportsKept ==
  ASSUME NEW States, HistoryOK(States), ReportsTypeOK, OrderInv, ReportStep(States)
  PROVE  OrderInv'
  <1> DEFINE n == Len(history)
             Reported == 1 .. n
  <1>1. /\ n \in Nat \ {0} /\ toServer \in Seq(Reported) /\ Len(toServer) \in Nat
        /\ \A i \in 1 .. Len(toServer) : toServer[i] \in Reported
        /\ hearing \in 0 .. n /\ seen \in 0 .. n
        /\ known \in BOOLEAN /\ (known => seen # 0)
    BY DEF HistoryOK, ReportsTypeOK
  <1>2. CASE UNCHANGED reportVars
    BY <1>2 DEF OrderInv, reportVars
  <1>3. ASSUME NEW s \in States, Becomes(s), UNCHANGED <<toServer, tableVars>>
        PROVE  OrderInv'
    BY <1>3 DEF OrderInv, tableVars
  <1>4. CASE Report /\ UNCHANGED <<history, tableVars>>
    <2>1. /\ toServer' \in Seq(Reported) /\ Len(toServer') = Len(toServer) + 1
          /\ \A i \in 1 .. Len(toServer) : toServer'[i] = toServer[i]
          /\ toServer'[Len(toServer) + 1] = n
      BY <1>1, <1>4 DEF Report
    <2>3. hearing' = hearing /\ seen' = seen
      BY <1>4 DEF tableVars
    <2>4. \A i \in 1 .. Len(toServer') : seen <= toServer'[i] /\ hearing <= toServer'[i]
      <3> SUFFICES ASSUME NEW i \in 1 .. Len(toServer) + 1
                   PROVE  seen <= toServer'[i] /\ hearing <= toServer'[i]
        BY <2>1
      <3>1. CASE i = Len(toServer) + 1
        <4>1. toServer'[i] = n /\ seen \in 0 .. n /\ hearing \in 0 .. n /\ n \in Nat
          BY <1>1, <2>1, <3>1
        <4> HIDE DEF n
        <4> QED
          BY <4>1
      <3>2. CASE i # Len(toServer) + 1
        <4>1. i \in 1 .. Len(toServer)
          BY <1>1, <3>2
        <4> QED
          BY <2>1, <4>1 DEF OrderInv
      <3> QED
        BY <3>1, <3>2
    <2>5. \A i, j \in 1 .. Len(toServer') : i < j => toServer'[i] <= toServer'[j]
      <3> SUFFICES ASSUME NEW i \in 1 .. Len(toServer'), NEW j \in 1 .. Len(toServer'), i < j
                   PROVE  toServer'[i] <= toServer'[j]
        OBVIOUS
      <3>0. i \in 1 .. Len(toServer) /\ j \in 1 .. Len(toServer) + 1
        BY <1>1, <2>1
      <3>1. toServer'[i] = toServer[i] /\ toServer[i] \in 1 .. n
        BY <1>1, <2>1, <3>0
      <3>2. CASE j = Len(toServer) + 1
        <4>1. toServer'[j] = n
          BY <2>1, <3>2
        <4>2. toServer[i] <= n
          BY <1>1, <3>1
        <4> HIDE DEF n
        <4> QED
          BY <3>1, <4>1, <4>2
      <3>3. CASE j # Len(toServer) + 1
        <4> DEFINE m == Len(toServer)
        <4>1. m \in Nat /\ j \in 1 .. m + 1 /\ j # m + 1
          BY <1>1, <3>0, <3>3
        <4> HIDE DEF m
        <4>2. j \in 1 .. Len(toServer)
          <5>1. j \in 1 .. m
            BY <4>1
          <5> QED
            BY <5>1 DEF m
        <4>3. toServer'[j] = toServer[j]
          BY <2>1, <4>2
        <4> QED
          BY <3>0, <3>1, <4>2, <4>3 DEF OrderInv
      <3> QED
        BY <3>2, <3>3
    <2> QED
      BY <2>3, <2>4, <2>5 DEF OrderInv
  <1>5. CASE Hear
    <2>1. /\ toServer' \in Seq(Reported) /\ Len(toServer') = Len(toServer) - 1
          /\ \A i \in 1 .. Len(toServer) - 1 : toServer'[i] = toServer[i + 1]
          /\ hearing' = toServer[1] /\ Len(toServer) >= 1
      BY <1>1, <1>5 DEF Hear
    <2> QED
      BY <1>1, <1>5, <2>1 DEF OrderInv, Hear
  <1>6. CASE Record
    BY <1>1, <1>6 DEF OrderInv, Record
  <1>7. ASSUME NEW k \in 0 .. Len(toServer), Forgets(k)
        PROVE  OrderInv'
    <2>1. /\ toServer' \in Seq(Reported) /\ Len(toServer') = Len(toServer) - k
          /\ \A i \in 1 .. Len(toServer) - k : toServer'[i] = toServer[k + i]
      BY <1>1, <1>7 DEF Forgets
    <2>4. hearing' = 0 /\ seen' = seen
      BY <1>7 DEF Forgets
    <2> HIDE DEF n
    <2>5. \A i \in 1 .. Len(toServer') : seen <= toServer'[i] /\ hearing' <= toServer'[i]
      <3> SUFFICES ASSUME NEW i \in 1 .. Len(toServer) - k
                   PROVE  seen <= toServer'[i] /\ 0 <= toServer'[i]
        BY <1>1, <2>1, <2>4
      <3>1. k + i \in 1 .. Len(toServer) /\ toServer'[i] = toServer[k + i]
        BY <1>1, <2>1
      <3>2. toServer[k + i] \in 1 .. n /\ seen <= toServer[k + i]
        BY <1>1, <3>1 DEF OrderInv
      <3> QED
        BY <1>1, <3>1, <3>2
    <2>6. \A i, j \in 1 .. Len(toServer') : i < j => toServer'[i] <= toServer'[j]
      <3> SUFFICES ASSUME NEW i \in 1 .. Len(toServer) - k, NEW j \in 1 .. Len(toServer) - k,
                          i < j
                   PROVE  toServer'[i] <= toServer'[j]
        BY <1>1, <2>1
      <3>1. k + i \in 1 .. Len(toServer) /\ k + j \in 1 .. Len(toServer) /\ k + i < k + j
        BY <1>1
      <3>2. toServer'[i] = toServer[k + i] /\ toServer'[j] = toServer[k + j]
        BY <2>1
      <3> QED
        BY <3>1, <3>2 DEF OrderInv
    <2> QED
      BY <2>4, <2>5, <2>6 DEF OrderInv
  <1>8. ASSUME NEW i \in DOMAIN toServer, LoseReport(i)
        PROVE  OrderInv'
    <2>1. toServer' = Without(toServer, i)
      BY <1>8 DEF LoseReport, Without
    <2>2. /\ toServer' \in Seq(Reported) /\ Len(toServer') = Len(toServer) - 1
          /\ \A k \in 1 .. Len(toServer) - 1 :
               toServer'[k] = toServer[IF k < i THEN k ELSE k + 1]
      BY <1>1, <2>1, WithoutFacts
    <2>4. hearing' = hearing /\ seen' = seen
      BY <1>8 DEF LoseReport
    <2>5. \A k \in 1 .. Len(toServer') : seen <= toServer'[k] /\ hearing <= toServer'[k]
      <3> SUFFICES ASSUME NEW k \in 1 .. Len(toServer) - 1
                   PROVE  seen <= toServer'[k] /\ hearing <= toServer'[k]
        BY <1>1, <2>2
      <3> DEFINE K == IF k < i THEN k ELSE k + 1
      <3>1. K \in 1 .. Len(toServer) /\ toServer'[k] = toServer[K]
        BY <1>1, <2>2
      <3> HIDE DEF K
      <3> QED
        BY <3>1 DEF OrderInv
    <2>6. \A j, k \in 1 .. Len(toServer') : j < k => toServer'[j] <= toServer'[k]
      <3> SUFFICES ASSUME NEW j \in 1 .. Len(toServer) - 1, NEW k \in 1 .. Len(toServer) - 1,
                          j < k
                   PROVE  toServer'[j] <= toServer'[k]
        BY <1>1, <2>2
      <3> DEFINE J == IF j < i THEN j ELSE j + 1
                 K == IF k < i THEN k ELSE k + 1
      <3>1. J \in 1 .. Len(toServer) /\ K \in 1 .. Len(toServer) /\ J < K
        BY <1>1
      <3>2. toServer'[j] = toServer[J] /\ toServer'[k] = toServer[K]
        BY <2>2
      <3> QED
        BY <3>1, <3>2 DEF OrderInv
    <2> QED
      BY <2>4, <2>5, <2>6 DEF OrderInv
  <1> QED
    BY <1>2, <1>3, <1>4, <1>5, <1>6, <1>7, <1>8 DEF ReportStep

(* What the reports do to the table is what the mirror allows. *)
Refreshes ==
  /\ seen' \in 1 .. Len(history) /\ (overtaken = 0 => seen' >= seen)
  /\ known' = TRUE
  /\ UNCHANGED history

Grows(States) ==
  /\ history' \in Seq(States) /\ Len(history') = Len(history) + 1
  /\ \A i \in DOMAIN history : history'[i] = history[i]
  /\ UNCHANGED <<seen, known>>

Unknows == known' = FALSE /\ UNCHANGED <<history, seen>>

LEMMA ReportsMirror ==
  ASSUME NEW States, HistoryOK(States), ReportsTypeOK, overtaken = 0 => OrderInv,
         ReportStep(States)
  PROVE  UNCHANGED <<history, seen, known>> \/ Grows(States) \/ Refreshes \/ Unknows
  <1>1. CASE UNCHANGED reportVars
    BY <1>1 DEF reportVars
  <1>2. ASSUME NEW s \in States, Becomes(s), UNCHANGED <<toServer, tableVars>>
        PROVE  Grows(States)
    <2>1. UNCHANGED <<seen, known>>
      BY <1>2 DEF tableVars
    <2>2. /\ history' \in Seq(States) /\ Len(history') = Len(history) + 1
          /\ \A i \in DOMAIN history : history'[i] = history[i]
      BY <1>2 DEF Becomes, HistoryOK
    <2> QED
      BY <2>1, <2>2 DEF Grows
  <1>3. CASE Report /\ UNCHANGED <<history, tableVars>>
    BY <1>3 DEF tableVars
  <1>4. CASE Hear \/ \E i \in DOMAIN toServer : LoseReport(i)
    BY <1>4 DEF Hear, LoseReport
  <1>5. CASE Record
    <2>1. /\ hearing \in 1 .. Len(history) /\ seen \in Nat
          /\ overtaken = 0 => seen <= hearing
      BY <1>5 DEF Record, HistoryOK, ReportsTypeOK, OrderInv
    <2>2. seen' = hearing /\ known' = TRUE /\ UNCHANGED history
      BY <1>5 DEF Record
    <2>3. seen' \in 1 .. Len(history) /\ (overtaken = 0 => seen' >= seen)
      BY <2>1, <2>2
    <2> QED
      BY <2>2, <2>3, Zenon DEF Refreshes
  <1>6. CASE \E k \in 0 .. Len(toServer) : Forgets(k)
    BY <1>6 DEF Forgets, Unknows
  <1> QED
    BY <1>1, <1>2, <1>3, <1>4, <1>5, <1>6, Zenon DEF ReportStep

LEMMA OvertakingMirrors == Overtakes => UNCHANGED <<history, seen, known>>
  BY DEF Overtakes, Reordered, OvertakeReport, reportVars

LEMMA NetStarts == NetInit => NetTypeOK
  <1>1. NetInit => lost \in BOOLEAN
    BY Zenon DEF NetInit
  <1>2. NetInit => overtaken \in 0 .. MaxOvertaken
    BY ReportsAssumption DEF NetInit
  <1> QED
    BY <1>1, <1>2, Zenon DEF NetTypeOK

(* In order until a datagram overtakes another. *)
LEMMA OrderKept ==
  ASSUME NEW States, HistoryOK(States), ReportsTypeOK, NetTypeOK,
         overtaken = 0 => OrderInv, DeviceStep(States)
  PROVE  (overtaken = 0 => OrderInv)'
  <1>1. CASE Overtakes
    BY <1>1 DEF Overtakes, NetTypeOK
  <1>2. CASE ReportStep(States) /\ UNCHANGED overtaken
    BY <1>2, ReportsKept
  <1> QED
    BY <1>1, <1>2 DEF DeviceStep

-----------------------------------------------------------------------------
(* The plug. *)

(* An answer that says success is on its way only when the plug has        *)
(* switched for the socket it is sent to.                                  *)
Switched(n) == \E i \in DOMAIN history : history[i] = n

AnswerInv == \A a \in answers : a.success => Switched(a.to)

IInv ==
  /\ TypeOK /\ AnswerInv /\ ConfirmedIsDone
  /\ overtaken = 0 => OrderInv

LEMMA TypeIsHistory == TypeOK => HistoryOK(PlugStates) /\ ReportsTypeOK
  BY DEF TypeOK, HistoryOK

LEMMA HeadOfPlug ==
  ASSUME TypeOK, toPlug # <<>>
  PROVE  /\ Head(toPlug) \in Commands \cup Queries
         /\ Tail(toPlug) \in Seq(Commands \cup Queries)
         /\ Head(toPlug).kind = "set" => Head(toPlug).from \in 1 .. MaxUpdates
  BY DEF TypeOK, Commands, Queries

LEMMA StepReports == TypeOK /\ [Next]_vars => DeviceStep(PlugStates)
  <1> SUFFICES ASSUME TypeOK, [Next]_vars PROVE DeviceStep(PlugStates)
    OBVIOUS
  <1>1. ASSUME NEW r \in Requesters, Update(r) \/ Await(r)
        PROVE  DeviceStep(PlugStates)
    BY <1>1 DEF Update, Await, GiveUp, TakeAnswer, DeviceStep, ReportStep, netVars
  <1>2. CASE Ask
    BY <1>2 DEF Ask, DeviceStep, ReportStep, netVars
  <1>3. ASSUME NEW done \in BOOLEAN, NEW success \in BOOLEAN, PlugSwitches(done, success)
        PROVE  DeviceStep(PlugStates)
    <2>1. Head(toPlug).from \in PlugStates
      BY <1>3, HeadOfPlug, TplinkAssumption DEF PlugSwitches, PlugStates
    <2> QED
      BY <1>3, <2>1 DEF PlugSwitches, DeviceStep, ReportStep, reportVars, tableVars, netVars
  <1>4. CASE PlugReports
    BY <1>4 DEF PlugReports, DeviceStep, ReportStep, reportVars, tableVars, netVars
  <1>5. CASE PlugIsPressed
    BY <1>5, TplinkAssumption DEF PlugIsPressed, PlugStates, DeviceStep, ReportStep, netVars
  <1>6. CASE Listen \/ Notify
    BY <1>6 DEF Listen, Notify, DeviceStep, ReportStep, netVars
  <1>7. CASE Lose
    BY <1>7 DEF Lose, DeviceStep, ReportStep
  <1>8. CASE Overtake
    BY <1>8 DEF Overtake, Disordered, DeviceStep, Overtakes, Reordered
  <1>9. CASE Restart
    <2> DEFINE k == Len(toServer)
    <2>1. toServer \in Seq(1 .. Len(history)) /\ k \in 0 .. Len(toServer)
      BY DEF TypeOK, ReportsTypeOK
    <2>2. SubSeq(toServer, k + 1, Len(toServer)) = <<>>
      BY <2>1
    <2>3. Forgets(k)
      BY <1>9, <2>2 DEF Restart, Forgets
    <2> QED
      BY <1>9, <2>1, <2>3 DEF Restart, DeviceStep, ReportStep, netVars
  <1>10. CASE UNCHANGED vars
    BY <1>10 DEF vars, DeviceStep, ReportStep, netVars
  <1> QED
    BY <1>1, <1>2, <1>3, <1>4, <1>5, <1>6, <1>7, <1>8, <1>9, <1>10 DEF Next, Plug

LEMMA SwitchedStays ==
  ASSUME TypeOK, DeviceStep(PlugStates), NEW n, Switched(n)
  PROVE  Switched(n)'
  BY HistoryGrows, TypeIsHistory DEF Switched

-----------------------------------------------------------------------------
(* The datagrams to the plug and the sockets of the server. *)
WireOK ==
  /\ toPlug \in Seq(Commands \cup Queries)
  /\ answers \subseteq Answers
  /\ opened \in 0 .. MaxUpdates /\ socket \in [Requesters -> 0 .. MaxUpdates]
  /\ confirmed \subseteq 1 .. MaxUpdates /\ life \in 0 .. MaxRestarts

LEMMA TypeParts ==
  TypeOK <=> /\ history \in Seq(PlugStates) /\ Len(history) >= 1
             /\ ReportsTypeOK /\ WireOK /\ NetTypeOK
  BY DEF TypeOK, WireOK

LEMMA QueryIsQuery == ASSUME NEW l \in 0 .. MaxRestarts PROVE Query(l) \in Queries
  BY DEF Query, Queries

LEMMA StepWire == TypeOK /\ [Next]_vars => WireOK'
  <1> SUFFICES ASSUME TypeOK, [Next]_vars PROVE WireOK'
    OBVIOUS
  <1> USE TplinkAssumption, ReportsAssumption
  <1>0. WireOK
    BY TypeParts
  <1>1. ASSUME NEW r \in Requesters, Update(r)
        PROVE  WireOK'
    <2>1. opened' \in 1 .. MaxUpdates
      BY <1>0, <1>1 DEF WireOK, Update
    <2>2. [kind |-> "set", from |-> opened'] \in Commands
      BY <2>1 DEF Commands
    <2>3. toPlug' \in Seq(Commands \cup Queries)
      BY <1>0, <1>1, <2>2 DEF WireOK, Update
    <2> QED
      BY <1>0, <1>1, <2>1, <2>3 DEF WireOK, Update
  <1>2. ASSUME NEW r \in Requesters, GiveUp(r)
        PROVE  WireOK'
    BY <1>0, <1>2 DEF WireOK, GiveUp, Close
  <1>3. ASSUME NEW r \in Requesters, NEW a \in answers, TakeAnswer(r, a)
        PROVE  WireOK'
    <2>1. a.to \in 1 .. MaxUpdates /\ Query(life) \in Commands \cup Queries
      BY <1>0, QueryIsQuery DEF WireOK, Answers
    <2>2. toPlug' \in Seq(Commands \cup Queries)
      <3>1. CASE a.success
        BY <1>0, <1>3, <2>1, <3>1 DEF WireOK, TakeAnswer
      <3>2. CASE ~a.success
        BY <1>0, <1>3, <3>2 DEF WireOK, TakeAnswer
      <3> QED
        BY <3>1, <3>2
    <2>3. confirmed' \subseteq 1 .. MaxUpdates
      <3>1. confirmed' \subseteq confirmed \cup {a.to}
        BY <1>3 DEF TakeAnswer
      <3> QED
        BY <1>0, <2>1, <3>1 DEF WireOK
    <2>4. socket' \in [Requesters -> 0 .. MaxUpdates] /\ answers' \subseteq Answers
      BY <1>0, <1>3 DEF WireOK, TakeAnswer, Close
    <2> QED
      BY <1>0, <1>3, <2>2, <2>3, <2>4 DEF WireOK, TakeAnswer, Close
  <1>4. CASE Ask
    <2>1. Query(life) \in Commands \cup Queries
      BY <1>0, QueryIsQuery DEF WireOK
    <2> QED
      BY <1>0, <1>4, <2>1 DEF WireOK, Ask, serverVars
  <1>5. ASSUME NEW done \in BOOLEAN, NEW success \in BOOLEAN, PlugSwitches(done, success)
        PROVE  WireOK'
    <2>1. [to |-> Head(toPlug).from, success |-> success] \in Answers
      BY <1>5, HeadOfPlug DEF PlugSwitches, Answers
    <2>2. answers' \subseteq Answers /\ toPlug' \in Seq(Commands \cup Queries)
      BY <1>0, <1>5, <2>1, HeadOfPlug DEF WireOK, PlugSwitches
    <2> QED
      BY <1>0, <1>5, <2>2 DEF WireOK, PlugSwitches, serverVars
  <1>6. CASE PlugReports
    BY <1>0, <1>6, HeadOfPlug DEF WireOK, PlugReports, serverVars
  <1>7. CASE PlugIsPressed \/ Listen \/ Notify
    BY <1>0, <1>7 DEF WireOK, PlugIsPressed, Listen, Notify, serverVars
  <1>8. CASE Lose
    <2>1. ASSUME NEW i \in DOMAIN toPlug,
                 toPlug' = SubSeq(toPlug, 1, i - 1) \o SubSeq(toPlug, i + 1, Len(toPlug))
          PROVE  toPlug' \in Seq(Commands \cup Queries)
      BY <1>0, <2>1, WithoutFacts DEF WireOK, Without
    <2> QED
      BY <1>0, <1>8, <2>1 DEF WireOK, Lose, serverVars
  <1>11. CASE Overtake
    <2>1. ASSUME NEW i \in 1 .. Len(toPlug) - 1, toPlug' = Swapped(toPlug, i)
          PROVE  toPlug' \in Seq(Commands \cup Queries)
      BY <1>0, <2>1, SwappedFacts DEF WireOK
    <2> QED
      BY <1>0, <1>11, <2>1 DEF WireOK, Overtake, serverVars
  <1>9. CASE Restart
    <2>1. life' \in 0 .. MaxRestarts
      BY <1>0, <1>9 DEF WireOK, Restart
    <2>2. toPlug' \in Seq(Commands \cup Queries)
      <3>1. Query(life') \in Commands \cup Queries
        BY <2>1, QueryIsQuery
      <3> QED
        BY <1>0, <1>9, <3>1 DEF WireOK, Restart
    <2> QED
      BY <1>0, <1>9, <2>1, <2>2 DEF WireOK, Restart
  <1>10. CASE UNCHANGED vars
    BY <1>0, <1>10 DEF WireOK, vars, serverVars
  <1> QED
    BY <1>1, <1>2, <1>3, <1>4, <1>5, <1>6, <1>7, <1>8, <1>9, <1>10, <1>11 DEF Next, Await, Plug

LEMMA StepNet == TypeOK /\ [Next]_vars => NetTypeOK'
  <1> SUFFICES ASSUME TypeOK, [Next]_vars PROVE NetTypeOK'
    OBVIOUS
  <1>0. lost \in BOOLEAN /\ overtaken \in 0 .. MaxOvertaken /\ MaxOvertaken \in Nat
    BY ReportsAssumption, Zenon DEF TypeOK, NetTypeOK
  <1>1. CASE Lose
    BY <1>0, <1>1, Zenon DEF Lose, NetTypeOK
  <1>2. CASE Overtake
    <2>1. lost' = lost /\ overtaken' \in 0 .. MaxOvertaken
      BY <1>0, <1>2 DEF Overtake, Disordered
    <2> QED
      BY <1>0, <2>1, Zenon DEF NetTypeOK
  <1>3. CASE \E r \in Requesters : Update(r) \/ Await(r)
    <2>1. UNCHANGED netVars
      BY <1>3, Zenon DEF Update, Await, GiveUp, TakeAnswer
    <2> QED
      BY <1>0, <2>1, Zenon DEF NetTypeOK, netVars
  <1>4. CASE Ask \/ Plug \/ PlugIsPressed \/ Listen \/ Notify \/ Restart \/ UNCHANGED vars
    <2>1. UNCHANGED netVars
      BY <1>4, Zenon
      DEF Ask, Plug, PlugReports, PlugSwitches, PlugIsPressed, Listen, Notify, Restart, vars
    <2> QED
      BY <1>0, <2>1, Zenon DEF NetTypeOK, netVars
  <1> QED
    BY <1>1, <1>2, <1>3, <1>4 DEF Next

(* Only a plug that switches says success, and only the socket that an     *)
(* answer is sent to takes it.                                             *)
LEMMA StepAnswers ==
  IInv /\ [Next]_vars => AnswerInv' /\ ConfirmedIsDone'
  <1> SUFFICES ASSUME IInv, [Next]_vars PROVE AnswerInv' /\ ConfirmedIsDone'
    OBVIOUS
  <1>0. \A n : Switched(n) => Switched(n)'
    BY StepReports, SwitchedStays DEF IInv
  <1>1. ASSUME answers' \subseteq answers, confirmed' = confirmed
        PROVE  AnswerInv' /\ ConfirmedIsDone'
    BY <1>0, <1>1 DEF IInv, AnswerInv, ConfirmedIsDone, Switched
  <1>2. ASSUME NEW r \in Requesters, NEW a \in answers, TakeAnswer(r, a)
        PROVE  AnswerInv' /\ ConfirmedIsDone'
    <2>1. answers' \subseteq answers
      BY <1>2 DEF TakeAnswer
    <2>2. confirmed' \subseteq confirmed \cup (IF a.success THEN {a.to} ELSE {})
      BY <1>2 DEF TakeAnswer
    <2>3. \A n \in confirmed' : Switched(n)
      BY <2>2 DEF IInv, AnswerInv, ConfirmedIsDone, Switched
    <2>4. AnswerInv'
      BY <1>0, <2>1 DEF IInv, AnswerInv
    <2>5. ConfirmedIsDone'
      BY <1>0, <2>3 DEF ConfirmedIsDone, Switched
    <2> QED
      BY <2>4, <2>5
  <1>3. ASSUME NEW done \in BOOLEAN, NEW success \in BOOLEAN, PlugSwitches(done, success)
        PROVE  AnswerInv' /\ ConfirmedIsDone'
    <2>0. PICK n : n = Head(toPlug).from
      OBVIOUS
    <2>1. success => Switched(n)'
      <3>1. SUFFICES ASSUME success PROVE Switched(n)'
        OBVIOUS
      <3>2. Becomes(n)
        BY <1>3, <2>0, <3>1 DEF PlugSwitches
      <3>3. history \in Seq(PlugStates) /\ n \in PlugStates
        BY <1>3, <2>0, HeadOfPlug, TplinkAssumption DEF IInv, TypeOK, PlugSwitches, PlugStates
      <3>4. history'[Len(history) + 1] = n /\ Len(history) + 1 \in DOMAIN history'
        BY <3>2, <3>3 DEF Becomes
      <3> QED
        BY <3>4 DEF Switched
    <2>2. answers' = answers \cup {[to |-> n, success |-> success]} /\ confirmed' = confirmed
      BY <1>3, <2>0 DEF PlugSwitches, serverVars
    <2>3. AnswerInv'
      BY <1>0, <2>1, <2>2 DEF IInv, AnswerInv
    <2>4. ConfirmedIsDone'
      BY <1>0, <2>2 DEF IInv, ConfirmedIsDone, Switched
    <2> QED
      BY <2>3, <2>4
  <1>4. CASE \E r \in Requesters : Update(r) \/ GiveUp(r)
    BY <1>1, <1>4 DEF Update, GiveUp
  <1>5. CASE \/ Ask \/ PlugReports \/ PlugIsPressed \/ Listen \/ Notify
             \/ Lose \/ Overtake \/ Restart
    BY <1>1, <1>5
    DEF Ask, PlugReports, PlugIsPressed, Listen, Notify, Lose, Overtake, Restart, serverVars
  <1>6. CASE UNCHANGED vars
    BY <1>1, <1>6 DEF vars, serverVars
  <1> QED
    BY <1>2, <1>3, <1>4, <1>5, <1>6 DEF Next, Await, Plug

-----------------------------------------------------------------------------
LEMMA InitIInv == Init => IInv
  <1> SUFFICES ASSUME Init PROVE IInv
    OBVIOUS
  <1>1. history \in Seq(PlugStates) /\ Len(history) = 1
    BY TplinkAssumption DEF Init, PlugStates
  <1>2. toServer \in Seq(1 .. Len(history)) /\ Len(toServer) = 0
    BY DEF Init, ReportsInit
  <1>3. known \in BOOLEAN /\ (known => seen # 0)
    BY Zenon DEF Init, ReportsInit
  <1>4. ReportsTypeOK /\ OrderInv
    BY <1>1, <1>2, <1>3 DEF Init, ReportsInit, ReportsTypeOK, OrderInv
  <1>5. WireOK
    BY QueryIsQuery, TplinkAssumption, ReportsAssumption DEF Init, WireOK
  <1>6. AnswerInv /\ ConfirmedIsDone
    BY DEF Init, AnswerInv, ConfirmedIsDone
  <1>7. NetTypeOK
    BY NetStarts DEF Init
  <1>8. TypeOK
    BY <1>1, <1>4, <1>5, <1>7, TypeParts
  <1> QED
    BY <1>4, <1>6, <1>8 DEF IInv

LEMMA StepIInv == IInv /\ [Next]_vars => IInv'
  <1> SUFFICES ASSUME IInv, [Next]_vars PROVE IInv'
    OBVIOUS
  <1>1. DeviceStep(PlugStates)
    BY StepReports DEF IInv
  <1>2. ReportsTypeOK' /\ (overtaken = 0 => OrderInv)'
    BY <1>1, ReportsTyped, OrderKept, TypeIsHistory DEF IInv, TypeOK
  <1>3. (history \in Seq(PlugStates) /\ Len(history) >= 1)'
    BY <1>1, HistoryGrows, TypeIsHistory DEF IInv, HistoryOK
  <1>4. WireOK'
    BY StepWire DEF IInv
  <1>5. NetTypeOK'
    BY StepNet DEF IInv
  <1>6. TypeOK'
    BY <1>2, <1>3, <1>4, <1>5, TypeParts, PTL
  <1> QED
    BY <1>2, <1>6, StepAnswers DEF IInv

(* The invariant, for every number of updates, restarts and requesters.    *)
THEOREM TplinkInvariant == Spec => []IInv
  BY InitIInv, StepIInv, PTL DEF Spec

(* Its types: a report is always of a state that the plug has had.         *)
THEOREM TplinkTypeCorrect == Spec => []TypeOK
  BY TplinkInvariant, PTL DEF IInv

(* No late answer is taken for the answer to another update, whatever is   *)
(* lost, late or repeated.                                                 *)
THEOREM ConfirmedWasDone == Spec => []ConfirmedIsDone
  BY TplinkInvariant, PTL DEF IInv

-----------------------------------------------------------------------------
LEMMA StepMirrors ==
  IInv /\ [Next]_vars =>
    [\/ Mirrored!Change \/ Mirrored!Refresh
     \/ Mirrored!Forget \/ Mirrored!Disorder]_(Mirrored!mirrorVars)
  <1> SUFFICES ASSUME IInv, [Next]_vars
               PROVE  \/ Mirrored!Change \/ Mirrored!Refresh
                      \/ Mirrored!Forget \/ Mirrored!Disorder
                      \/ UNCHANGED <<history, seen, known, overtaken = 0>>
    BY DEF Mirrored!mirrorVars
  <1>1. CASE ReportStep(PlugStates) /\ UNCHANGED overtaken
    <2>1. \/ UNCHANGED <<history, seen, known>>
          \/ Grows(PlugStates) \/ Refreshes \/ Unknows
      BY <1>1, ReportsMirror, TypeIsHistory DEF IInv
    <2> QED
      BY <1>1, <2>1, Zenon
      DEF Grows, Refreshes, Unknows, Mirrored!Change, Mirrored!Refresh, Mirrored!Forget
  <1>2. CASE Overtakes
    <2>1. (overtaken = 0)' = FALSE
      BY <1>2 DEF Overtakes, IInv, TypeOK, NetTypeOK
    <2> QED
      BY <1>2, <2>1, OvertakingMirrors DEF Mirrored!Disorder
  <1> QED
    BY <1>1, <1>2, StepReports DEF DeviceStep, IInv

(* For every network that loses and reorders datagrams, every set of       *)
(* requesters and every number of restarts: the table says only what the   *)
(* plug has been, and it does not run backwards unless a datagram has      *)
(* overtaken another.                                                      *)
THEOREM TableMirrorsPlug == Spec => MirrorImplemented
  <1>1. Init => Mirrored!MirrorInit
    <2> SUFFICES ASSUME Init PROVE Mirrored!MirrorInit
      OBVIOUS
    <2>1. history \in Seq(PlugStates) /\ Len(history) = 1
      BY TplinkAssumption DEF Init, PlugStates
    <2>2. (overtaken = 0) = TRUE
      BY DEF Init, NetInit
    <2> QED
      BY <2>1, <2>2, Zenon DEF Init, ReportsInit, Mirrored!MirrorInit
  <1> QED
    BY <1>1, StepMirrors, TplinkInvariant, PTL DEF Spec, MirrorImplemented, Mirrored!MirrorSafe

-----------------------------------------------------------------------------
(* The light. *)

(* A step on its way to the light is one from a state that the table had.  *)
(* One that was computed from Unknown has base 0.                          *)
CommandInv ==
  \A i \in 1 .. Len(toLight) : toLight[i].kind \in Steps /\ toLight[i].base # 0 =>
    /\ toLight[i].base \in 1 .. Len(history)
    /\ toLight[i].level = OneStep(toLight[i].kind, history[toLight[i].base].level)

(* The same of the steps that the light has taken, each from a state that  *)
(* was before it.                                                          *)
TakenInv ==
  \A e \in 1 .. Len(history) : history[e].by \in Steps /\ history[e].base # 0 =>
    /\ history[e].base \in 1 .. e - 1
    /\ history[e].level = OneStep(history[e].by, history[history[e].base].level)

(* A light that is only switched keeps its level. *)
PlateauInv ==
  \A k, n \in 1 .. Len(history) :
    (k <= n /\ \A i \in k + 1 .. n : history[i].by = "power")
      => history[n].level = history[k].level

(* While nothing is overtaken, steps up from later states come later. *)
IsStep(c) == c.kind = "up" /\ c.base # 0

StepInv ==
  /\ \A i \in 1 .. Len(toLight) : IsStep(toLight[i]) =>
       /\ toLight[i].base \in 1 .. seen
       /\ toLight[i].level = OneUp(history[toLight[i].base].level)
  /\ \A i, j \in 1 .. Len(toLight) :
       i < j /\ IsStep(toLight[i]) /\ IsStep(toLight[j]) => toLight[i].base <= toLight[j].base

(* The same of those that the light has taken. *)
BaseInv ==
  \A e \in 1 .. Len(history) : history[e].by = "up" =>
    /\ history[e].base <= seen
    /\ \A i \in 1 .. Len(toLight) : IsStep(toLight[i]) => history[e].base <= toLight[i].base

(* While the light is only switched and stepped up, it does not get        *)
(* darker, and it gets no more than one step brighter than a state as long *)
(* as no step comes from a later one.                                      *)
Ramp(k, n) == \A e \in k + 1 .. n : SteppedUp(e, k)

RampInv ==
  \A k, n \in 1 .. Len(history) : Ramp(k, n) =>
    \A i \in k .. n :
      /\ history[i].level <= history[n].level
      /\ (\A e \in i + 1 .. n : history[e].by = "up" => history[e].base <= i)
           => history[n].level <= OneUp(history[i].level)

OrderedInv == OrderInv /\ StepInv /\ BaseInv /\ RampInv

LightInv ==
  /\ GoveeTypeOK /\ CommandInv /\ TakenInv /\ PlateauInv
  /\ overtaken = 0 => OrderedInv

LEMMA LightTypeIsHistory == GoveeTypeOK => HistoryOK(LightStates) /\ ReportsTypeOK
  BY DEF GoveeTypeOK, HistoryOK

LEMMA LightStateFacts ==
  ASSUME GoveeTypeOK
  PROVE  /\ Len(history) \in Nat \ {0} /\ seen \in 0 .. Len(history)
         /\ MaxLevel \in Nat \ {0}
         /\ \A e \in 1 .. Len(history) :
              /\ history[e] \in LightStates
              /\ history[e].level \in 0 .. MaxLevel /\ history[e].base \in Nat
  <1>1. Len(history) \in Nat \ {0} /\ seen \in 0 .. Len(history)
    BY DEF GoveeTypeOK, ReportsTypeOK
  <1>2. \A e \in 1 .. Len(history) : history[e] \in LightStates
    BY DEF GoveeTypeOK
  <1>3. \A s \in LightStates : s.level \in 0 .. MaxLevel /\ s.base \in Nat
    BY DEF LightStates, Levels
  <1> QED
    BY <1>1, <1>2, <1>3, GoveeAssumption

(* What is on the way to the light is a query or a command. *)
LEMMA HeadOfLight ==
  ASSUME GoveeTypeOK, toLight # <<>>
  PROVE  /\ Head(toLight) = toLight[1] /\ 1 \in 1 .. Len(toLight)
         /\ Tail(toLight) \in Seq(GoveeCommands \cup {GoveeQuery})
         /\ Head(toLight) = GoveeQuery \/ Head(toLight) \in GoveeCommands
         /\ Head(toLight).kind # "query" => Head(toLight) \in GoveeCommands
  <1>1. Head(toLight) = toLight[1] /\ 1 \in 1 .. Len(toLight)
        /\ Tail(toLight) \in Seq(GoveeCommands \cup {GoveeQuery})
        /\ Head(toLight) \in GoveeCommands \cup {GoveeQuery}
    BY DEF GoveeTypeOK
  <1>2. GoveeQuery.kind = "query"
    BY DEF GoveeQuery
  <1> QED
    BY <1>1, <1>2

(* An update that is computed from the table is a command, and a step up   *)
(* is one from what the table says.                                        *)
LEMMA PayloadFacts ==
  ASSUME GoveeTypeOK, NEW u \in Wanted
  PROVE  /\ Payload(u[1], u[2]) \in GoveeCommands
         /\ Payload(u[1], u[2]).kind \in Steps /\ Payload(u[1], u[2]).base # 0 =>
              /\ Payload(u[1], u[2]).base = seen /\ seen \in 1 .. Len(history)
              /\ Payload(u[1], u[2]).level
                   = OneStep(Payload(u[1], u[2]).kind, history[seen].level)
  <1>1. u[1] \in Causes /\ u[2] \in Levels
    BY GoveeAssumption DEF Causes, Levels
  <1>2. seen \in 0 .. Len(history) /\ (known => seen # 0)
    BY DEF GoveeTypeOK, ReportsTypeOK
  <1>3. CASE known
    <2>1. Brightness = history[seen].level /\ Base = seen
      BY <1>3 DEF Brightness, Base
    <2>2. seen \in 1 .. Len(history) /\ Brightness \in 0 .. MaxLevel
      BY <1>2, <1>3, <2>1, LightStateFacts
    <2> QED
      BY <1>1, <2>1, <2>2, GoveeAssumption
      DEF Payload, GoveeCommands, Causes, Levels, Steps, OneStep, OneUp, OneDown
  <1>4. CASE ~known
    <2>1. Brightness = 0 /\ Base = 0
      BY <1>4 DEF Brightness, Base
    <2> QED
      BY <1>1, <2>1, GoveeAssumption
      DEF Payload, GoveeCommands, Causes, Levels, Steps, OneStep, OneUp, OneDown
  <1> QED
    BY <1>3, <1>4

-----------------------------------------------------------------------------
(* What is taken from the light's datagrams keeps its place among the      *)
(* others, and what comes in behind them is a query: of each there is the  *)
(* place it had, or 0.                                                     *)
OldCommands ==
  \E place \in [1 .. Len(toLight') -> 0 .. Len(toLight)] :
    /\ \A i \in 1 .. Len(toLight') :
         IF place[i] = 0 THEN toLight'[i] = GoveeQuery ELSE toLight'[i] = toLight[place[i]]
    /\ \A i, j \in 1 .. Len(toLight') :
         i < j /\ place[i] # 0 /\ place[j] # 0 => place[i] < place[j]

LEMMA SameIsOld ==
  ASSUME GoveeTypeOK, toLight' = toLight
  PROVE  OldCommands
  <1> DEFINE n == Len(toLight)
             place == [i \in 1 .. n |-> i]
  <1>1. n \in Nat /\ Len(toLight') = n
    BY DEF GoveeTypeOK
  <1> HIDE DEF n
  <1>2. place \in [1 .. n -> 0 .. n]
    BY <1>1
  <1>3. \A i \in 1 .. n : place[i] = i /\ place[i] # 0
    BY <1>1
  <1> HIDE DEF place
  <1> QED
    BY <1>1, <1>2, <1>3 DEF OldCommands, n

LEMMA QueryIsOld ==
  ASSUME GoveeTypeOK, toLight' = Append(toLight, GoveeQuery)
  PROVE  OldCommands
  <1> DEFINE n == Len(toLight)
             place == [i \in 1 .. n + 1 |-> IF i = n + 1 THEN 0 ELSE i]
  <1>1. /\ n \in Nat /\ Len(toLight') = n + 1 /\ toLight'[n + 1] = GoveeQuery
        /\ \A i \in 1 .. n : toLight'[i] = toLight[i]
    BY DEF GoveeTypeOK
  <1> HIDE DEF n
  <1>2. place \in [1 .. n + 1 -> 0 .. n]
    BY <1>1
  <1>3. \A i \in 1 .. n + 1 :
          IF place[i] = 0 THEN toLight'[i] = GoveeQuery ELSE toLight'[i] = toLight[place[i]]
    BY <1>1
  <1>4. \A i, j \in 1 .. n + 1 :
          i < j /\ place[i] # 0 /\ place[j] # 0 => place[i] < place[j]
    BY <1>1
  <1> HIDE DEF place
  <1> QED
    BY <1>1, <1>2, <1>3, <1>4 DEF OldCommands, n

LEMMA TailIsOld ==
  ASSUME GoveeTypeOK, toLight # <<>>, toLight' = Tail(toLight)
  PROVE  OldCommands
  <1> DEFINE n == Len(toLight)
             place == [i \in 1 .. n - 1 |-> i + 1]
  <1>1. /\ n \in Nat /\ n >= 1 /\ Len(toLight') = n - 1
        /\ \A i \in 1 .. n - 1 : toLight'[i] = toLight[i + 1]
    BY DEF GoveeTypeOK
  <1> HIDE DEF n
  <1>2. place \in [1 .. n - 1 -> 0 .. n]
    BY <1>1
  <1>3. \A i \in 1 .. n - 1 : place[i] # 0 /\ toLight'[i] = toLight[place[i]]
    BY <1>1
  <1>4. \A i, j \in 1 .. n - 1 : i < j => place[i] < place[j]
    BY <1>1
  <1> HIDE DEF place
  <1> QED
    BY <1>1, <1>2, <1>3, <1>4 DEF OldCommands, n

LEMMA LostIsOld ==
  ASSUME GoveeTypeOK, NEW k \in DOMAIN toLight, toLight' = Without(toLight, k)
  PROVE  OldCommands
  <1> DEFINE n == Len(toLight)
             place == [i \in 1 .. n - 1 |-> IF i < k THEN i ELSE i + 1]
  <1>1. /\ n \in Nat /\ k \in 1 .. n /\ Len(toLight') = n - 1
        /\ \A i \in 1 .. n - 1 : toLight'[i] = toLight[IF i < k THEN i ELSE i + 1]
    BY WithoutFacts DEF GoveeTypeOK
  <1> HIDE DEF n
  <1>2. place \in [1 .. n - 1 -> 0 .. n]
    BY <1>1
  <1>3. \A i \in 1 .. n - 1 : place[i] # 0 /\ toLight'[i] = toLight[place[i]]
    BY <1>1
  <1>4. \A i, j \in 1 .. n - 1 : i < j => place[i] < place[j]
    BY <1>1
  <1> HIDE DEF place
  <1> QED
    BY <1>1, <1>2, <1>3, <1>4 DEF OldCommands, n

-----------------------------------------------------------------------------
(* Whatever happens to the light, its datagrams and the table: states are  *)
(* only added, and the table does not go back.                             *)
LEMMA TableGoesOn ==
  ASSUME GoveeTypeOK, OrderInv, overtaken = 0, ReportStep(LightStates), UNCHANGED overtaken
  PROVE  /\ seen' >= seen /\ seen' \in Nat
         /\ \A e \in 1 .. Len(history) : history'[e] = history[e]
         /\ Len(history') \in {Len(history), Len(history) + 1}
  <1>1. /\ \A e \in DOMAIN history : history'[e] = history[e]
        /\ Len(history') \in {Len(history), Len(history) + 1}
        /\ DOMAIN history = 1 .. Len(history)
    BY LightTypeIsHistory, HistoryGrows DEF GoveeTypeOK, DeviceStep
  <1>2. seen \in Nat
    BY LightStateFacts
  <1>3. seen' = seen \/ Refreshes
    BY LightTypeIsHistory, ReportsMirror DEF Grows, Unknows
  <1>4. seen' >= seen /\ seen' \in Nat
    BY <1>2, <1>3, LightStateFacts DEF Refreshes
  <1> QED
    BY <1>1, <1>4

LEMMA OldCommandsKeepSteps ==
  ASSUME GoveeTypeOK, OrderInv, StepInv, OldCommands,
         overtaken = 0, ReportStep(LightStates), UNCHANGED overtaken
  PROVE  StepInv'
  <1>1. PICK place \in [1 .. Len(toLight') -> 0 .. Len(toLight)] :
          /\ \A i \in 1 .. Len(toLight') :
               IF place[i] = 0 THEN toLight'[i] = GoveeQuery
                               ELSE toLight'[i] = toLight[place[i]]
          /\ \A i, j \in 1 .. Len(toLight') :
               i < j /\ place[i] # 0 /\ place[j] # 0 => place[i] < place[j]
    BY DEF OldCommands
  <1>2. \A i \in 1 .. Len(toLight') : IsStep(toLight'[i]) =>
          place[i] \in 1 .. Len(toLight) /\ toLight'[i] = toLight[place[i]]
    <2>1. ~IsStep(GoveeQuery)
      BY DEF IsStep, GoveeQuery
    <2>2. Len(toLight) \in Nat
      BY DEF GoveeTypeOK
    <2> QED
      BY <1>1, <2>1, <2>2
  <1>3. ASSUME NEW i \in 1 .. Len(toLight'), IsStep(toLight'[i])
        PROVE  /\ toLight'[i].base \in 1 .. seen'
               /\ toLight'[i].level = OneUp(history'[toLight'[i].base].level)
    <2> DEFINE c == toLight'[i]
    <2>1. c.base \in 1 .. seen /\ c.level = OneUp(history[c.base].level)
      BY <1>2, <1>3 DEF StepInv
    <2>2. c.base \in 1 .. Len(history) /\ history'[c.base] = history[c.base]
      BY <2>1, TableGoesOn, LightStateFacts
    <2>3. c.base \in 1 .. seen'
      BY <2>1, TableGoesOn, LightStateFacts
    <2> QED
      BY <2>1, <2>2, <2>3
  <1>4. ASSUME NEW i \in 1 .. Len(toLight'), NEW j \in 1 .. Len(toLight'), i < j,
               IsStep(toLight'[i]), IsStep(toLight'[j])
        PROVE  toLight'[i].base <= toLight'[j].base
    <2>1. /\ place[i] \in 1 .. Len(toLight) /\ toLight'[i] = toLight[place[i]]
          /\ place[j] \in 1 .. Len(toLight) /\ toLight'[j] = toLight[place[j]]
      BY <1>2, <1>4
    <2>2. place[i] # 0 /\ place[j] # 0
      BY <2>1
    <2>3. place[i] < place[j]
      BY <1>1, <1>4, <2>2
    <2> QED
      BY <1>4, <2>1, <2>3 DEF StepInv
  <1> QED
    BY <1>3, <1>4 DEF StepInv, IsStep, OneUp

(* The steps that the light took before stay behind those on their way.    *)
LEMMA OldCommandsKeepBases ==
  ASSUME GoveeTypeOK, OrderInv, BaseInv, OldCommands,
         overtaken = 0, ReportStep(LightStates), UNCHANGED overtaken,
         NEW e \in 1 .. Len(history), history[e].by = "up"
  PROVE  /\ history'[e].base <= seen'
         /\ \A i \in 1 .. Len(toLight') : IsStep(toLight'[i]) => history'[e].base <= toLight'[i].base
  <1>1. PICK place \in [1 .. Len(toLight') -> 0 .. Len(toLight)] :
          \A i \in 1 .. Len(toLight') :
            IF place[i] = 0 THEN toLight'[i] = GoveeQuery
                            ELSE toLight'[i] = toLight[place[i]]
    BY DEF OldCommands
  <1>2. ~IsStep(GoveeQuery) /\ Len(toLight) \in Nat
    BY DEF IsStep, GoveeQuery, GoveeTypeOK
  <1>3. \A i \in 1 .. Len(toLight') : IsStep(toLight'[i]) =>
          place[i] \in 1 .. Len(toLight) /\ toLight'[i] = toLight[place[i]]
    BY <1>1, <1>2
  <1>4. history'[e] = history[e] /\ history[e].base \in Nat /\ history[e].base <= seen
    BY TableGoesOn, LightStateFacts DEF BaseInv
  <1>5. history[e].base <= seen'
    BY <1>4, TableGoesOn, LightStateFacts
  <1> QED
    BY <1>3, <1>4, <1>5 DEF BaseInv

-----------------------------------------------------------------------------
(* Every step of the light is a step of its reports. *)
LEMMA LightBecomes ==
  ASSUME GoveeTypeOK, LightChanges
  PROVE  LET c == Head(toLight)
             s == [by |-> c.kind, base |-> c.base,
                   level |-> IF c.kind = "power" THEN history[Len(history)].level ELSE c.level]
         IN  /\ c \in GoveeCommands /\ c = toLight[1] /\ 1 \in 1 .. Len(toLight)
             /\ s \in LightStates /\ Becomes(s)
  <1> DEFINE c == Head(toLight)
  <1>1. c \in GoveeCommands /\ c = toLight[1] /\ 1 \in 1 .. Len(toLight)
    BY HeadOfLight DEF LightChanges
  <1>2. history[Len(history)].level \in Levels
    BY LightStateFacts DEF Levels
  <1> QED
    BY <1>1, <1>2 DEF LightChanges, LightStates, GoveeCommands

LEMMA LightStepReports == GoveeTypeOK /\ [GoveeNext]_goveeVars => DeviceStep(LightStates)
  <1> SUFFICES ASSUME GoveeTypeOK, [GoveeNext]_goveeVars PROVE DeviceStep(LightStates)
    OBVIOUS
  <1>1. ASSUME NEW u \in Wanted, GoveeUpdate(u[1], u[2])
        PROVE  DeviceStep(LightStates)
    BY <1>1 DEF GoveeUpdate, DeviceStep, ReportStep, netVars
  <1>2. CASE Settle \/ Abandon \/ GoveeAsk
    BY <1>2 DEF Settle, Abandon, GoveeAsk, DeviceStep, ReportStep, netVars
  <1>3. CASE LightChanges
    BY <1>3, LightBecomes DEF LightChanges, DeviceStep, ReportStep, netVars
  <1>4. CASE LightReports
    BY <1>4 DEF LightReports, DeviceStep, ReportStep, netVars
  <1>5. CASE LightIsSet
    <2>1. \A l \in Levels : [by |-> "app", level |-> l, base |-> 0] \in LightStates
      BY DEF LightStates
    <2> QED
      BY <1>5, <2>1 DEF LightIsSet, DeviceStep, ReportStep, netVars
  <1>6. CASE GoveeListen \/ GoveeNotify
    BY <1>6 DEF GoveeListen, GoveeNotify, DeviceStep, ReportStep, netVars
  <1>7. CASE GoveeLose
    BY <1>7 DEF GoveeLose, DeviceStep, ReportStep
  <1>8. CASE GoveeOvertake
    BY <1>8 DEF GoveeOvertake, Disordered, DeviceStep, Overtakes, Reordered
  <1>9. CASE GoveeRestart
    BY <1>9 DEF GoveeRestart, DeviceStep, ReportStep, Forgets, netVars
  <1>10. CASE UNCHANGED goveeVars
    BY <1>10 DEF goveeVars, DeviceStep, ReportStep, netVars
  <1> QED
    BY <1>1, <1>2, <1>3, <1>4, <1>5, <1>6, <1>7, <1>8, <1>9, <1>10 DEF GoveeNext, Light

LightWireOK ==
  /\ toLight \in Seq(GoveeCommands \cup {GoveeQuery})
  /\ delaying \in 0 .. changes /\ changes \in 0 .. MaxChanges
  /\ restarts \in 0 .. MaxRestarts

LEMMA StepLightWire == GoveeTypeOK /\ [GoveeNext]_goveeVars => LightWireOK'
  <1> SUFFICES ASSUME GoveeTypeOK, [GoveeNext]_goveeVars PROVE LightWireOK'
    OBVIOUS
  <1> USE ReportsAssumption
  <1>0. LightWireOK /\ GoveeQuery \in GoveeCommands \cup {GoveeQuery}
    BY DEF GoveeTypeOK, LightWireOK
  <1>1. ASSUME NEW u \in Wanted, GoveeUpdate(u[1], u[2])
        PROVE  LightWireOK'
    <2>1. toLight' \in Seq(GoveeCommands \cup {GoveeQuery})
      BY <1>0, <1>1, PayloadFacts DEF LightWireOK, GoveeUpdate
    <2> QED
      BY <1>0, <1>1, <2>1 DEF LightWireOK, GoveeUpdate
  <1>2. CASE Settle
    BY <1>0, <1>2 DEF LightWireOK, Settle
  <1>3. CASE Abandon
    BY <1>0, <1>3 DEF LightWireOK, Abandon
  <1>4. CASE GoveeAsk
    BY <1>0, <1>4 DEF LightWireOK, GoveeAsk, goveeServerVars
  <1>5. CASE LightChanges \/ LightReports
    BY <1>0, <1>5, HeadOfLight DEF LightWireOK, LightChanges, LightReports, goveeServerVars
  <1>6. CASE LightIsSet
    BY <1>0, <1>6 DEF LightWireOK, LightIsSet
  <1>7. CASE GoveeListen \/ GoveeNotify
    BY <1>0, <1>7 DEF LightWireOK, GoveeListen, GoveeNotify, goveeServerVars
  <1>8. CASE GoveeLose
    <2>1. ASSUME NEW i \in DOMAIN toLight,
                 toLight' = SubSeq(toLight, 1, i - 1) \o SubSeq(toLight, i + 1, Len(toLight))
          PROVE  toLight' \in Seq(GoveeCommands \cup {GoveeQuery})
      BY <1>0, <2>1, WithoutFacts DEF LightWireOK, Without
    <2> QED
      BY <1>0, <1>8, <2>1 DEF LightWireOK, GoveeLose, goveeServerVars
  <1>11. CASE GoveeOvertake
    <2>1. ASSUME NEW i \in 1 .. Len(toLight) - 1, toLight' = Swapped(toLight, i)
          PROVE  toLight' \in Seq(GoveeCommands \cup {GoveeQuery})
      BY <1>0, <2>1, SwappedFacts DEF LightWireOK
    <2> QED
      BY <1>0, <1>11, <2>1 DEF LightWireOK, GoveeOvertake, goveeServerVars
  <1>9. CASE GoveeRestart
    BY <1>0, <1>9 DEF LightWireOK, GoveeRestart
  <1>10. CASE UNCHANGED goveeVars
    BY <1>0, <1>10 DEF LightWireOK, goveeVars, goveeServerVars
  <1> QED
    BY <1>1, <1>2, <1>3, <1>4, <1>5, <1>6, <1>7, <1>8, <1>9, <1>10, <1>11 DEF GoveeNext, Light

LightNetOK == NetTypeOK /\ abandoned \in BOOLEAN

LEMMA LightTypeParts ==
  GoveeTypeOK <=> /\ history \in Seq(LightStates) /\ Len(history) >= 1
                  /\ ReportsTypeOK /\ LightWireOK /\ LightNetOK
  BY Zenon DEF GoveeTypeOK, LightWireOK, LightNetOK

LEMMA StepLightNet == GoveeTypeOK /\ [GoveeNext]_goveeVars => LightNetOK'
  <1> SUFFICES ASSUME GoveeTypeOK, [GoveeNext]_goveeVars PROVE LightNetOK'
    OBVIOUS
  <1>0. /\ lost \in BOOLEAN /\ overtaken \in 0 .. MaxOvertaken /\ MaxOvertaken \in Nat
        /\ abandoned \in BOOLEAN
    BY ReportsAssumption, Zenon DEF GoveeTypeOK, NetTypeOK
  <1>1. CASE Abandon \/ GoveeLose
    BY <1>0, <1>1, Zenon DEF Abandon, GoveeLose, LightNetOK, NetTypeOK, netVars, goveeServerVars
  <1>2. CASE GoveeOvertake
    <2>1. lost' = lost /\ abandoned' = abandoned /\ overtaken' \in 0 .. MaxOvertaken
      BY <1>0, <1>2 DEF GoveeOvertake, Disordered, goveeServerVars
    <2> QED
      BY <1>0, <2>1, Zenon DEF LightNetOK, NetTypeOK
  <1>3. CASE \/ \E u \in Wanted : GoveeUpdate(u[1], u[2])
             \/ Settle \/ GoveeAsk \/ Light \/ LightIsSet
             \/ GoveeListen \/ GoveeNotify \/ GoveeRestart \/ UNCHANGED goveeVars
    <2>1. UNCHANGED netVars /\ abandoned' = abandoned
      BY <1>3, Zenon
      DEF GoveeUpdate, Settle, GoveeAsk, Light, LightChanges, LightReports, LightIsSet,
          GoveeListen, GoveeNotify, GoveeRestart, goveeVars, goveeServerVars
    <2> QED
      BY <1>0, <2>1, Zenon DEF LightNetOK, NetTypeOK, netVars
  <1> QED
    BY <1>1, <1>2, <1>3 DEF GoveeNext

-----------------------------------------------------------------------------
(* Only an update adds a command. *)
LEMMA OthersAddNone ==
  ASSUME GoveeTypeOK, [GoveeNext]_goveeVars, UNCHANGED overtaken,
         ~\E u \in Wanted : GoveeUpdate(u[1], u[2])
  PROVE  OldCommands
  <1>1. CASE Settle \/ GoveeAsk \/ GoveeRestart
    BY <1>1, QueryIsOld DEF Settle, GoveeAsk, GoveeRestart
  <1>2. CASE Light
    BY <1>2, TailIsOld DEF Light, LightChanges, LightReports
  <1>3. CASE Abandon \/ LightIsSet \/ GoveeListen \/ GoveeNotify \/ UNCHANGED goveeVars
    BY <1>3, SameIsOld DEF Abandon, LightIsSet, GoveeListen, GoveeNotify, goveeVars
  <1>4. CASE GoveeLose
    BY <1>4, SameIsOld, LostIsOld DEF GoveeLose, Without
  <1>5. ~GoveeOvertake
    BY DEF GoveeOvertake, Disordered, GoveeTypeOK, NetTypeOK
  <1> QED
    BY <1>1, <1>2, <1>3, <1>4, <1>5 DEF GoveeNext

(* In whatever order they are, a command that is on its way was so before  *)
(* or is the one of an update.                                             *)
LEMMA CommandsOnTheWay ==
  ASSUME GoveeTypeOK, [GoveeNext]_goveeVars, NEW i \in 1 .. Len(toLight'),
         toLight'[i].kind \in Steps
  PROVE  \/ \E j \in 1 .. Len(toLight) : toLight'[i] = toLight[j]
         \/ \E u \in Wanted : toLight'[i] = Payload(u[1], u[2]) /\ UNCHANGED reportVars
  <1>1. Len(toLight) \in Nat /\ GoveeQuery.kind \notin Steps
    BY DEF GoveeTypeOK, GoveeQuery, Steps
  <1>2. CASE OldCommands
    BY <1>1, <1>2 DEF OldCommands
  <1>3. ASSUME NEW u \in Wanted, GoveeUpdate(u[1], u[2])
        PROVE  \/ \E j \in 1 .. Len(toLight) : toLight'[i] = toLight[j]
               \/ toLight'[i] = Payload(u[1], u[2]) /\ UNCHANGED reportVars
    <2>1. toLight' = Append(toLight, Payload(u[1], u[2])) /\ UNCHANGED reportVars
      BY <1>3 DEF GoveeUpdate
    <2>2. toLight \in Seq(GoveeCommands \cup {GoveeQuery})
      BY DEF GoveeTypeOK
    <2>3. CASE i = Len(toLight) + 1
      BY <1>1, <2>1, <2>2, <2>3
    <2>4. CASE i # Len(toLight) + 1
      BY <1>1, <2>1, <2>2, <2>4
    <2> QED
      BY <2>3, <2>4
  <1>4. CASE GoveeOvertake
    <2>1. ASSUME NEW m \in 1 .. Len(toLight) - 1, toLight' = Swapped(toLight, m)
          PROVE  \E j \in 1 .. Len(toLight) : toLight'[i] = toLight[j]
      <3>1. /\ Len(toLight') = Len(toLight)
            /\ toLight'[i] = toLight[IF i = m THEN m + 1 ELSE IF i = m + 1 THEN m ELSE i]
        BY <2>1, SwappedFacts DEF GoveeTypeOK
      <3> QED
        BY <1>1, <3>1
    <2> QED
      BY <1>4, <2>1 DEF GoveeOvertake
  <1>5. GoveeOvertake \/ UNCHANGED overtaken
    BY LightStepReports DEF DeviceStep, Overtakes, GoveeNext, goveeVars, GoveeUpdate, Settle,
       Abandon, GoveeAsk, Light, LightChanges, LightReports, LightIsSet, GoveeListen,
       GoveeNotify, GoveeLose, GoveeRestart, netVars
  <1> QED
    BY <1>2, <1>3, <1>4, <1>5, OthersAddNone

(* What a step on its way was computed from does not change.               *)
LEMMA StepCommands == LightInv /\ [GoveeNext]_goveeVars => CommandInv'
  <1> SUFFICES ASSUME LightInv, [GoveeNext]_goveeVars, NEW i \in 1 .. Len(toLight'),
                      toLight'[i].kind \in Steps, toLight'[i].base # 0
               PROVE  /\ toLight'[i].base \in 1 .. Len(history')
                      /\ toLight'[i].level
                           = OneStep(toLight'[i].kind, history'[toLight'[i].base].level)
    BY DEF CommandInv, Steps, OneStep, OneUp, OneDown
  <1> DEFINE c == toLight'[i]
  <1>1. /\ c.base \in 1 .. Len(history)
        /\ c.level = OneStep(c.kind, history[c.base].level)
    <2>1. CASE \E j \in 1 .. Len(toLight) : c = toLight[j]
      BY <2>1 DEF LightInv, CommandInv
    <2>2. CASE \E u \in Wanted : c = Payload(u[1], u[2])
      BY <2>2, PayloadFacts DEF LightInv
    <2> QED
      BY <2>1, <2>2, CommandsOnTheWay DEF LightInv
  <1>2. /\ \A e \in 1 .. Len(history) : history'[e] = history[e]
        /\ Len(history) \in Nat /\ Len(history') \in {Len(history), Len(history) + 1}
    BY LightStepReports, LightTypeIsHistory, HistoryGrows DEF LightInv, GoveeTypeOK
  <1> QED
    BY <1>1, <1>2

(* What the light becomes.                                                 *)
LEMMA LightGoesOn ==
  ASSUME LightInv, [GoveeNext]_goveeVars
  PROVE  \/ UNCHANGED history
         \/ \E s \in LightStates :
              /\ Becomes(s)
              /\ s.by = "power" => s.level = history[Len(history)].level
              /\ s.by \in Steps /\ s.base # 0 =>
                   /\ s.base \in 1 .. Len(history)
                   /\ s.level = OneStep(s.by, history[s.base].level)
  <1>1. CASE LightChanges
    <2> DEFINE c == Head(toLight)
               s == [by |-> c.kind, base |-> c.base,
                     level |-> IF c.kind = "power" THEN history[Len(history)].level ELSE c.level]
    <2>1. /\ c = toLight[1] /\ 1 \in 1 .. Len(toLight)
          /\ s \in LightStates /\ Becomes(s)
      BY <1>1, LightBecomes DEF LightInv
    <2>2. s.by = c.kind /\ s.base = c.base
          /\ s.level = IF c.kind = "power" THEN history[Len(history)].level ELSE c.level
      OBVIOUS
    <2>3. c.kind \in Steps => c.kind # "power"
      BY DEF Steps
    <2> HIDE DEF c, s
    <2>4. s.by = "power" => s.level = history[Len(history)].level
      BY <2>2
    <2>5. s.by \in Steps /\ s.base # 0 =>
            /\ s.base \in 1 .. Len(history)
            /\ s.level = OneStep(s.by, history[s.base].level)
      BY <2>1, <2>2, <2>3 DEF LightInv, CommandInv
    <2> QED
      BY <2>1, <2>4, <2>5
  <1>2. CASE LightIsSet
    <2>1. PICK l \in Levels : Becomes([by |-> "app", level |-> l, base |-> 0])
      BY <1>2 DEF LightIsSet
    <2>2. [by |-> "app", level |-> l, base |-> 0] \in LightStates
      BY DEF LightStates
    <2> QED
      BY <2>1, <2>2 DEF Steps
  <1>3. CASE ~LightChanges /\ ~LightIsSet
    BY <1>3
    DEF GoveeNext, GoveeUpdate, Light, Settle, Abandon, GoveeAsk, LightReports, GoveeListen, Hear,
        GoveeNotify, Record, GoveeLose, LoseReport, GoveeOvertake, OvertakeReport, GoveeRestart,
        goveeVars, reportVars
  <1> QED
    BY <1>1, <1>2, <1>3

(* Each step the light has taken counts from the state it was computed     *)
(* from, and switching leaves the level as it is.                          *)
LEMMA StepTaken == LightInv /\ [GoveeNext]_goveeVars => TakenInv' /\ PlateauInv'
  <1> SUFFICES ASSUME LightInv, [GoveeNext]_goveeVars PROVE TakenInv' /\ PlateauInv'
    OBVIOUS
  <1>1. CASE UNCHANGED history
    BY <1>1 DEF LightInv, TakenInv, PlateauInv, Steps, OneStep, OneUp, OneDown
  <1>2. ASSUME NEW s \in LightStates, Becomes(s),
               s.by = "power" => s.level = history[Len(history)].level,
               s.by \in Steps /\ s.base # 0 =>
                 /\ s.base \in 1 .. Len(history)
                 /\ s.level = OneStep(s.by, history[s.base].level)
        PROVE  TakenInv' /\ PlateauInv'
    <2> DEFINE N == Len(history)
    <2>1. /\ N \in Nat \ {0} /\ Len(history') = N + 1 /\ history'[N + 1] = s
          /\ \A e \in 1 .. N : history'[e] = history[e]
      BY <1>2 DEF Becomes, LightInv, GoveeTypeOK
    <2> HIDE DEF N
    <2>2. ASSUME NEW e \in 1 .. N + 1, history'[e].by \in Steps, history'[e].base # 0
          PROVE  /\ history'[e].base \in 1 .. e - 1
                 /\ history'[e].level = OneStep(history'[e].by, history'[history'[e].base].level)
      <3>1. CASE e = N + 1
        <4>1. s.base \in 1 .. N /\ s.level = OneStep(s.by, history[s.base].level)
          BY <1>2, <2>1, <2>2, <3>1 DEF N
        <4>2. history'[s.base] = history[s.base]
          BY <2>1, <4>1
        <4> QED
          BY <2>1, <3>1, <4>1, <4>2
      <3>2. CASE e # N + 1
        <4>1. e \in 1 .. N /\ history'[e] = history[e]
          BY <2>1, <3>2
        <4>2. /\ history[e].base \in 1 .. e - 1
              /\ history[e].level = OneStep(history[e].by, history[history[e].base].level)
          BY <2>2, <4>1 DEF LightInv, TakenInv, N
        <4>3. history'[history[e].base] = history[history[e].base]
          BY <2>1, <4>1, <4>2
        <4> QED
          BY <4>1, <4>2, <4>3
      <3> QED
        BY <3>1, <3>2
    <2>3. ASSUME NEW a \in 1 .. N + 1, NEW n \in 1 .. N + 1, a <= n,
                 \A i \in a + 1 .. n : history'[i].by = "power"
          PROVE  history'[n].level = history'[a].level
      <3>1. CASE n = N + 1 /\ a # n
        <4>1. a \in 1 .. N /\ N \in 1 .. N /\ s.level = history[N].level
          BY <1>2, <2>1, <2>3, <3>1 DEF N
        <4>2. \A i \in a + 1 .. N : history[i].by = "power"
          BY <2>1, <2>3, <3>1, <4>1
        <4>3. history[N].level = history[a].level
          BY <4>1, <4>2 DEF LightInv, PlateauInv, N
        <4> QED
          BY <2>1, <3>1, <4>1, <4>3
      <3>2. CASE n # N + 1
        <4>1. a \in 1 .. N /\ n \in 1 .. N
          BY <2>1, <2>3, <3>2
        <4>2. \A i \in a + 1 .. n : history[i].by = "power"
          BY <2>1, <2>3, <4>1
        <4>3. history[n].level = history[a].level
          BY <2>3, <4>1, <4>2 DEF LightInv, PlateauInv, N
        <4> QED
          BY <2>1, <4>1, <4>3
      <3> QED
        BY <3>1, <3>2
    <2>4. TakenInv'
      BY <2>1, <2>2 DEF TakenInv, Steps, OneStep, OneUp, OneDown
    <2> QED
      BY <2>1, <2>3, <2>4 DEF PlateauInv
  <1> QED
    BY <1>1, <1>2, LightGoesOn

(* The new command of an update comes behind the others, and from a state  *)
(* of the table that is not older.                                         *)
LEMMA UpdateKeepsSteps ==
  ASSUME GoveeTypeOK, StepInv, BaseInv, NEW u \in Wanted, GoveeUpdate(u[1], u[2])
  PROVE  StepInv' /\ BaseInv'
  <1> DEFINE n == Len(toLight)
             c == Payload(u[1], u[2])
  <1>1. /\ n \in Nat /\ Len(toLight') = n + 1 /\ toLight'[n + 1] = c
        /\ \A i \in 1 .. n : toLight'[i] = toLight[i]
    BY PayloadFacts DEF GoveeUpdate, GoveeTypeOK
  <1>2. history' = history /\ seen' = seen
    BY DEF GoveeUpdate, reportVars
  <1>3. IsStep(c) => /\ c.base = seen /\ seen \in 1 .. Len(history)
                     /\ c.level = OneUp(history[seen].level)
    BY PayloadFacts DEF IsStep, Steps, OneStep
  <1> HIDE DEF n, c
  <1>4. ASSUME NEW i \in 1 .. n + 1, IsStep(toLight'[i])
        PROVE  /\ toLight'[i].base \in 1 .. seen
               /\ toLight'[i].level = OneUp(history[toLight'[i].base].level)
    <2>1. CASE i = n + 1
      BY <1>1, <1>3, <1>4, <2>1, LightStateFacts
    <2>2. CASE i # n + 1
      <3>1. i \in 1 .. n
        BY <1>1, <2>2
      <3> QED
        BY <1>1, <1>4, <3>1 DEF StepInv, n
    <2> QED
      BY <2>1, <2>2
  <1>5. ASSUME NEW i \in 1 .. n + 1, NEW j \in 1 .. n + 1, i < j,
               IsStep(toLight'[i]), IsStep(toLight'[j])
        PROVE  toLight'[i].base <= toLight'[j].base
    <2>1. i \in 1 .. n
      BY <1>1, <1>5
    <2>2. CASE j = n + 1
      <3>1. toLight'[j].base = seen /\ toLight'[i].base \in 1 .. seen /\ seen \in Nat
        BY <1>1, <1>3, <1>4, <1>5, <2>2, LightStateFacts
      <3> QED
        BY <3>1
    <2>3. CASE j # n + 1
      <3>1. j \in 1 .. n
        BY <1>1, <2>3
      <3> QED
        BY <1>1, <1>5, <2>1, <3>1 DEF StepInv, n
    <2> QED
      BY <2>2, <2>3
  <1>6. StepInv'
    BY <1>1, <1>2, <1>4, <1>5 DEF StepInv, IsStep, OneUp
  <1>7. ASSUME NEW e \in 1 .. Len(history), history[e].by = "up"
        PROVE  /\ history[e].base <= seen
               /\ \A i \in 1 .. n + 1 : IsStep(toLight'[i]) => history[e].base <= toLight'[i].base
    <2>1. history[e].base <= seen
      BY <1>7 DEF BaseInv
    <2>2. ASSUME NEW i \in 1 .. n + 1, IsStep(toLight'[i])
          PROVE  history[e].base <= toLight'[i].base
      <3>1. CASE i = n + 1
        BY <1>1, <1>3, <2>1, <2>2, <3>1
      <3>2. CASE i # n + 1
        <4>1. i \in 1 .. n
          BY <1>1, <3>2
        <4> QED
          BY <1>1, <1>7, <2>2, <4>1 DEF BaseInv, n
      <3> QED
        BY <3>1, <3>2
    <2> QED
      BY <2>1, <2>2
  <1>8. BaseInv'
    BY <1>1, <1>2, <1>7 DEF BaseInv, IsStep
  <1> QED
    BY <1>6, <1>8

(* A step that the light takes was the first of those on their way.        *)
LEMMA LightKeepsBases ==
  ASSUME GoveeTypeOK, OrderInv, StepInv, BaseInv, LightChanges, OldCommands,
         overtaken = 0, ReportStep(LightStates), UNCHANGED overtaken
  PROVE  BaseInv'
  <1> DEFINE n == Len(history)
             c == Head(toLight)
  <1>1. /\ c \in GoveeCommands /\ c = toLight[1] /\ 1 \in 1 .. Len(toLight)
        /\ n \in Nat /\ Len(history') = n + 1
        /\ history'[n + 1].by = c.kind /\ history'[n + 1].base = c.base
    BY LightBecomes DEF Becomes, GoveeTypeOK
  <1>2. /\ seen' = seen /\ seen \in Nat
        /\ Len(toLight') \in Nat /\ Len(toLight) = Len(toLight') + 1
        /\ \A i \in 1 .. Len(toLight') : toLight'[i] = toLight[i + 1]
    BY LightStateFacts DEF LightChanges, GoveeTypeOK, tableVars
  <1> HIDE DEF n, c
  <1>3. ASSUME NEW e \in 1 .. n + 1, history'[e].by = "up"
        PROVE  /\ history'[e].base <= seen'
               /\ \A i \in 1 .. Len(toLight') :
                    IsStep(toLight'[i]) => history'[e].base <= toLight'[i].base
    <2>1. CASE e # n + 1
      <3>1. e \in 1 .. n
        BY <1>1, <2>1
      <3>2. history[e].by = "up"
        BY <1>3, <3>1, TableGoesOn DEF n
      <3> QED
        BY <3>1, <3>2, OldCommandsKeepBases DEF n
    <2>2. CASE e = n + 1 /\ c.base = 0
      <3>1. \A i \in 1 .. Len(toLight') : IsStep(toLight'[i]) => 0 <= toLight'[i].base
        <4> SUFFICES ASSUME NEW i \in 1 .. Len(toLight'), IsStep(toLight'[i])
                     PROVE  0 <= toLight'[i].base
          OBVIOUS
        <4>1. i + 1 \in 1 .. Len(toLight) /\ toLight'[i] = toLight[i + 1]
          BY <1>2
        <4> QED
          BY <1>2, <4>1 DEF StepInv
      <3> QED
        BY <1>1, <1>2, <2>2, <3>1
    <2>3. CASE e = n + 1 /\ c.base # 0
      <3>1. IsStep(toLight[1]) /\ history'[e].base = toLight[1].base
        BY <1>1, <1>3, <2>3 DEF IsStep
      <3>2. toLight[1].base <= seen
        BY <1>1, <1>2, <3>1 DEF StepInv
      <3>3. ASSUME NEW i \in 1 .. Len(toLight'), IsStep(toLight'[i])
            PROVE  toLight[1].base <= toLight'[i].base
        <4>1. i + 1 \in 1 .. Len(toLight) /\ 1 < i + 1 /\ toLight'[i] = toLight[i + 1]
          BY <1>2
        <4> QED
          BY <1>1, <3>1, <3>3, <4>1 DEF StepInv
      <3> QED
        BY <1>2, <3>1, <3>2, <3>3
    <2> QED
      BY <2>1, <2>2, <2>3
  <1> QED
    BY <1>1, <1>3 DEF BaseInv, IsStep

LEMMA StepLightSteps ==
  ASSUME GoveeTypeOK, OrderInv, StepInv, BaseInv, [GoveeNext]_goveeVars,
         overtaken = 0, overtaken' = 0
  PROVE  StepInv' /\ BaseInv'
  <1>0. ReportStep(LightStates) /\ UNCHANGED overtaken
    BY LightStepReports DEF DeviceStep, Overtakes
  <1>1. CASE \E u \in Wanted : GoveeUpdate(u[1], u[2])
    BY <1>1, UpdateKeepsSteps
  <1>2. CASE ~\E u \in Wanted : GoveeUpdate(u[1], u[2])
    <2>1. OldCommands
      BY <1>0, <1>2, OthersAddNone
    <2>2. StepInv'
      BY <1>0, <2>1, OldCommandsKeepSteps
    <2>3. CASE LightChanges
      BY <1>0, <2>1, <2>2, <2>3, LightKeepsBases
    <2>4. CASE UNCHANGED history
      <3>1. \A e \in 1 .. Len(history) : history[e].by = "up" =>
              /\ history'[e].base <= seen'
              /\ \A i \in 1 .. Len(toLight') :
                   IsStep(toLight'[i]) => history'[e].base <= toLight'[i].base
        BY <1>0, <2>1, OldCommandsKeepBases
      <3> QED
        BY <2>2, <2>4, <3>1 DEF BaseInv, IsStep
    <2>5. CASE LightIsSet
      <3>1. PICK l \in Levels : Becomes([by |-> "app", level |-> l, base |-> 0])
        BY <2>5 DEF LightIsSet
      <3>2. /\ Len(history) \in Nat /\ Len(history') = Len(history) + 1
            /\ history'[Len(history) + 1].by = "app"
            /\ \A e \in 1 .. Len(history) : history'[e] = history[e]
        BY <3>1 DEF Becomes, GoveeTypeOK
      <3>3. \A e \in 1 .. Len(history') : history'[e].by = "up" =>
              e \in 1 .. Len(history) /\ history[e].by = "up"
        BY <3>2
      <3>4. \A e \in 1 .. Len(history) : history[e].by = "up" =>
              /\ history'[e].base <= seen'
              /\ \A i \in 1 .. Len(toLight') :
                   IsStep(toLight'[i]) => history'[e].base <= toLight'[i].base
        BY <1>0, <2>1, OldCommandsKeepBases
      <3> QED
        BY <2>2, <3>3, <3>4 DEF BaseInv, IsStep
    <2>6. ~GoveeOvertake
      BY DEF GoveeOvertake, Disordered
    <2> QED
      BY <1>2, <2>3, <2>4, <2>5, <2>6
      DEF GoveeNext, Light, Settle, Abandon, GoveeAsk, LightReports, GoveeListen, Hear,
          GoveeNotify, Record, GoveeLose, LoseReport, GoveeRestart, goveeVars, reportVars
  <1> QED
    BY <1>1, <1>2

-----------------------------------------------------------------------------
(* One more state: it is as bright as the last one, or one step brighter   *)
(* than a state that no earlier step came from a later one than.           *)
LEMMA OneUpGrows ==
  ASSUME NEW l \in 0 .. MaxLevel, NEW m \in 0 .. MaxLevel, l <= m
  PROVE  OneUp(l) \in 0 .. MaxLevel /\ l <= OneUp(l) /\ OneUp(l) <= OneUp(m)
  BY GoveeAssumption DEF OneUp

LEMMA RampGrows ==
  ASSUME GoveeTypeOK, RampInv, NEW s \in LightStates, Becomes(s),
         s.by = "power" => s.level = history[Len(history)].level,
         s.by = "up" /\ s.base # 0 =>
           /\ s.base \in 1 .. Len(history) /\ s.level = OneUp(history[s.base].level)
           /\ \A e \in 1 .. Len(history) : history[e].by = "up" => history[e].base <= s.base
  PROVE  RampInv'
  <1> DEFINE N == Len(history)
             L(e) == history[e].level
  <1>1. /\ N \in Nat \ {0} /\ Len(history') = N + 1 /\ history'[N + 1] = s
        /\ \A e \in 1 .. N : history'[e] = history[e]
    BY DEF Becomes, GoveeTypeOK
  <1>2. MaxLevel \in Nat /\ s.level \in 0 .. MaxLevel /\ s.base \in Nat
    BY GoveeAssumption DEF LightStates, Levels
  <1>3. \A e \in 1 .. N : L(e) \in 0 .. MaxLevel
    BY LightStateFacts
  <1> HIDE DEF N
  <1> SUFFICES ASSUME NEW k \in 1 .. N + 1, NEW n \in 1 .. N + 1, NEW i \in k .. n,
                      \A e \in k + 1 .. n : SteppedUp(e, k)'
               PROVE  /\ history'[i].level <= history'[n].level
                      /\ (\A e \in i + 1 .. n : history'[e].by = "up" => history'[e].base <= i)
                           => history'[n].level <= OneUp(history'[i].level)
    BY <1>1 DEF RampInv, Ramp, OneUp
  <1>4. ASSUME NEW m \in 1 .. N, m <= n
        PROVE  Ramp(k, m)
    <2>1. ASSUME NEW e \in k + 1 .. m
          PROVE  SteppedUp(e, k)
      <3>1. e \in 1 .. N /\ e \in k + 1 .. n
        BY <1>1, <1>4
      <3> QED
        BY <1>1, <3>1 DEF SteppedUp
    <2> QED
      BY <2>1 DEF Ramp
  <1>5. CASE n # N + 1
    <2>1. n \in 1 .. N /\ k \in 1 .. N /\ i \in 1 .. N
      BY <1>1, <1>5
    <2>2. /\ L(i) <= L(n)
          /\ (\A e \in i + 1 .. n : history[e].by = "up" => history[e].base <= i)
               => L(n) <= OneUp(L(i))
      BY <1>4, <2>1 DEF RampInv, N
    <2>3. \A e \in i + 1 .. n : e \in 1 .. N
      BY <1>1, <2>1
    <2> QED
      BY <1>1, <2>1, <2>2, <2>3
  <1>6. CASE n = N + 1 /\ i = n
    BY <1>1, <1>2, <1>6, OneUpGrows
  <1>7. CASE n = N + 1 /\ i # n
    <2>1. k \in 1 .. N /\ i \in k .. N /\ i \in 1 .. N /\ N \in 1 .. N
      BY <1>1, <1>7
    <2>2. /\ L(i) <= L(N)
          /\ (\A e \in i + 1 .. N : history[e].by = "up" => history[e].base <= i)
               => L(N) <= OneUp(L(i))
      <3>1. Ramp(k, N)
        BY <1>1, <1>4, <1>7, <2>1
      <3> QED
        BY <2>1, <3>1 DEF RampInv, N
    <2>3. s.by = "power" \/ (s.by = "up" /\ s.base >= k)
      <3>1. N + 1 \in k + 1 .. n
        BY <1>1, <1>7, <2>1
      <3> QED
        BY <1>1, <3>1 DEF SteppedUp
    <2>4. CASE s.by = "power"
      <3>1. s.level = L(N)
        BY <2>4 DEF N
      <3>2. \A e \in i + 1 .. N : e \in i + 1 .. n /\ history'[e] = history[e]
        BY <1>1, <1>7, <2>1
      <3> QED
        BY <1>1, <1>7, <2>1, <2>2, <3>1, <3>2
    <2>5. CASE s.by = "up" /\ s.base >= k
      <3> DEFINE b == s.base
      <3>1. /\ b \in 1 .. N /\ b \in k .. N /\ s.level = OneUp(L(b))
            /\ \A e \in 1 .. N : history[e].by = "up" => history[e].base <= b
        BY <1>2, <2>1, <2>5 DEF N
      <3> HIDE DEF b
      <3>2. L(N) <= s.level
        <4>1. Ramp(k, N)
          BY <1>1, <1>4, <1>7, <2>1
        <4>2. \A e \in b + 1 .. N : history[e].by = "up" => history[e].base <= b
          <5> SUFFICES ASSUME NEW e \in b + 1 .. N PROVE e \in 1 .. N
            BY <3>1
          <5> QED
            BY <1>1, <3>1
        <4> QED
          BY <2>1, <3>1, <4>1, <4>2 DEF RampInv, N
      <3>3. L(i) <= s.level
        BY <1>2, <1>3, <2>1, <2>2, <3>2
      <3>4. ASSUME \A e \in i + 1 .. n : history'[e].by = "up" => history'[e].base <= i
            PROVE  s.level <= OneUp(L(i))
        <4>1. b <= i
          BY <1>1, <1>7, <2>1, <2>5, <3>4 DEF b
        <4>2. Ramp(k, i) /\ b \in k .. i
          BY <1>1, <1>4, <1>7, <2>1, <3>1, <4>1
        <4>3. L(b) <= L(i)
          BY <2>1, <4>2 DEF RampInv, N
        <4> QED
          BY <1>3, <2>1, <3>1, <4>3, OneUpGrows
      <3> QED
        BY <1>1, <1>7, <2>1, <3>3, <3>4
    <2> QED
      BY <2>3, <2>4, <2>5
  <1> QED
    BY <1>5, <1>6, <1>7

LEMMA StepRamp ==
  ASSUME LightInv, OrderedInv, [GoveeNext]_goveeVars
  PROVE  RampInv'
  <1>1. CASE LightChanges
    <2> DEFINE c == Head(toLight)
               s == [by |-> c.kind, base |-> c.base,
                     level |-> IF c.kind = "power" THEN history[Len(history)].level ELSE c.level]
    <2>1. /\ c = toLight[1] /\ 1 \in 1 .. Len(toLight)
          /\ s \in LightStates /\ Becomes(s)
      BY <1>1, LightBecomes DEF LightInv
    <2>2. s.by = c.kind /\ s.base = c.base
          /\ s.level = IF c.kind = "power" THEN history[Len(history)].level ELSE c.level
      OBVIOUS
    <2> HIDE DEF c, s
    <2>3. s.by = "power" => s.level = history[Len(history)].level
      BY <2>2
    <2>4. ASSUME s.by = "up", s.base # 0
          PROVE  /\ s.base \in 1 .. Len(history) /\ s.level = OneUp(history[s.base].level)
                 /\ \A e \in 1 .. Len(history) : history[e].by = "up" => history[e].base <= s.base
      <3>1. IsStep(toLight[1]) /\ s.base = toLight[1].base /\ s.level = toLight[1].level
        BY <2>1, <2>2, <2>4 DEF IsStep
      <3>2. s.base \in 1 .. seen /\ s.level = OneUp(history[s.base].level)
        BY <2>1, <3>1 DEF OrderedInv, StepInv
      <3>3. \A e \in 1 .. Len(history) : history[e].by = "up" => history[e].base <= s.base
        BY <2>1, <3>1 DEF OrderedInv, BaseInv
      <3> QED
        BY <3>2, <3>3, LightStateFacts DEF LightInv
    <2> QED
      BY <2>1, <2>3, <2>4, RampGrows DEF LightInv, OrderedInv
  <1>2. CASE LightIsSet
    <2>1. PICK l \in Levels : Becomes([by |-> "app", level |-> l, base |-> 0])
      BY <1>2 DEF LightIsSet
    <2>2. [by |-> "app", level |-> l, base |-> 0] \in LightStates
      BY DEF LightStates
    <2> QED
      BY <2>1, <2>2, RampGrows DEF LightInv, OrderedInv
  <1>3. CASE UNCHANGED history
    <2>1. RampInv
      BY DEF OrderedInv
    <2> SUFFICES ASSUME NEW k \in 1 .. Len(history), NEW n \in 1 .. Len(history),
                        Ramp(k, n)', NEW i \in k .. n
                 PROVE  /\ history[i].level <= history[n].level
                        /\ (\A e \in i + 1 .. n : history[e].by = "up" => history[e].base <= i)
                             => history[n].level <= OneUp(history[i].level)
      BY <1>3 DEF RampInv, OneUp
    <2>2. Ramp(k, n)
      BY <1>3 DEF Ramp, SteppedUp
    <2> QED
      BY <2>1, <2>2 DEF RampInv
  <1> QED
    BY <1>1, <1>2, <1>3
    DEF GoveeNext, GoveeUpdate, Light, Settle, Abandon, GoveeAsk, LightReports, GoveeListen, Hear,
        GoveeNotify, Record, GoveeLose, LoseReport, GoveeOvertake, OvertakeReport, GoveeRestart,
        goveeVars, reportVars

-----------------------------------------------------------------------------
LEMMA InitLight == GoveeInit => LightInv
  <1> SUFFICES ASSUME GoveeInit PROVE LightInv
    OBVIOUS
  <1>1. /\ history \in Seq(LightStates) /\ Len(history) = 1
        /\ history[1].by = "app" /\ history[1].level = 0
    <2>1. [by |-> "app", level |-> 0, base |-> 0] \in LightStates
      BY GoveeAssumption DEF LightStates, Levels
    <2> QED
      BY <2>1 DEF GoveeInit
  <1>2. toServer \in Seq(1 .. Len(history)) /\ Len(toServer) = 0
    BY DEF GoveeInit, ReportsInit
  <1>3. known \in BOOLEAN /\ (known => seen # 0) /\ abandoned \in BOOLEAN
    BY Zenon DEF GoveeInit, ReportsInit
  <1>4. ReportsTypeOK /\ OrderInv
    BY <1>1, <1>2, <1>3 DEF GoveeInit, ReportsInit, ReportsTypeOK, OrderInv
  <1>5. LightWireOK
    BY ReportsAssumption DEF GoveeInit, LightWireOK
  <1>6. GoveeTypeOK
    <2>1. LightNetOK
      BY <1>3, NetStarts, Zenon DEF GoveeInit, LightNetOK
    <2> QED
      BY <1>1, <1>4, <1>5, <2>1, LightTypeParts
  <1>7. Len(toLight) = 1 /\ toLight[1].kind = "query"
    BY DEF GoveeInit, GoveeQuery
  <1>8. CommandInv /\ StepInv /\ BaseInv
    <2>1. \A i \in 1 .. Len(toLight) : toLight[i].kind \notin Steps /\ ~IsStep(toLight[i])
      BY <1>7 DEF Steps, IsStep
    <2>2. \A e \in 1 .. Len(history) : history[e].by # "up"
      BY <1>1
    <2> QED
      BY <2>1, <2>2 DEF CommandInv, StepInv, BaseInv
  <1>9. TakenInv /\ PlateauInv
    <2>1. \A e \in 1 .. Len(history) : e = 1 /\ history[e].by \notin Steps
      BY <1>1 DEF Steps
    <2> QED
      BY <2>1 DEF TakenInv, PlateauInv
  <1>10. RampInv
    <2>1. \A k, n \in 1 .. Len(history) : \A i \in k .. n : i = 1 /\ n = 1
      BY <1>1
    <2> QED
      BY <1>1, <2>1, OneUpGrows, GoveeAssumption DEF RampInv
  <1> QED
    BY <1>4, <1>6, <1>8, <1>9, <1>10 DEF LightInv, OrderedInv

LEMMA StepLightInv == LightInv /\ [GoveeNext]_goveeVars => LightInv'
  <1> SUFFICES ASSUME LightInv, [GoveeNext]_goveeVars PROVE LightInv'
    OBVIOUS
  <1>1. DeviceStep(LightStates)
    BY LightStepReports DEF LightInv
  <1>2. ReportsTypeOK'
    BY <1>1, ReportsTyped, LightTypeIsHistory DEF LightInv
  <1>3. (history \in Seq(LightStates) /\ Len(history) >= 1)'
    BY <1>1, HistoryGrows, LightTypeIsHistory DEF LightInv, HistoryOK
  <1>4. LightWireOK' /\ LightNetOK'
    BY StepLightWire, StepLightNet DEF LightInv
  <1>5. GoveeTypeOK'
    BY <1>2, <1>3, <1>4, LightTypeParts, PTL
  <1>6. ASSUME overtaken' = 0
        PROVE  OrderedInv'
    <2>1. ReportStep(LightStates) /\ UNCHANGED overtaken
      BY <1>1, <1>6 DEF DeviceStep, Overtakes, LightInv, GoveeTypeOK, NetTypeOK
    <2>2. OrderedInv
      BY <1>6, <2>1 DEF LightInv
    <2>3. OrderInv'
      BY <2>1, <2>2, ReportsKept, LightTypeIsHistory DEF LightInv, OrderedInv
    <2>4. StepInv' /\ BaseInv'
      BY <1>6, <2>1, <2>2, StepLightSteps DEF LightInv, OrderedInv
    <2>5. RampInv'
      BY <2>2, StepRamp
    <2> QED
      BY <2>3, <2>4, <2>5 DEF OrderedInv
  <1> QED
    BY <1>5, <1>6, StepCommands, StepTaken DEF LightInv

(* The invariant, for every set of updates, every number of levels, every  *)
(* size of a step, and every number of changes and of restarts.            *)
THEOREM LightInvariant == GoveeSpec => []LightInv
  BY InitLight, StepLightInv, PTL DEF GoveeSpec

(* Its types: a report is always of a state that the light has had.        *)
THEOREM GoveeTypeCorrect == GoveeSpec => []GoveeTypeOK
  BY LightInvariant, PTL DEF LightInv

(* Steps up do not dim the light, however far the table lags behind: each  *)
(* is one more than a state that is no brighter than the light is now,     *)
(* unless a datagram has overtaken another.                                *)
THEOREM StepsUpDoNotDim == GoveeSpec => []StepsUpNeverDim
  <1>1. LightInv => StepsUpNeverDim
    <2> SUFFICES ASSUME LightInv, overtaken = 0,
                        NEW k \in DOMAIN history, NEW n \in DOMAIN history, k < n,
                        \A e \in k + 1 .. n : SteppedUp(e, k)
                 PROVE  history[n].level >= history[n - 1].level
      BY DEF StepsUpNeverDim
    <2>1. k \in 1 .. Len(history) /\ n \in 1 .. Len(history) /\ n - 1 \in k .. n
          /\ n - 1 \in 1 .. Len(history) /\ Ramp(k, n)
      BY DEF LightInv, GoveeTypeOK, Ramp
    <2>2. history[n - 1].level <= history[n].level
      BY <2>1 DEF LightInv, OrderedInv, RampInv
    <2> QED
      BY <2>1, <2>2, LightStateFacts DEF LightInv
  <1> QED
    BY <1>1, LightInvariant, PTL

(* A step that was computed from what the light still was, but for being   *)
(* switched, takes it one step from there, whatever the network does.      *)
THEOREM EveryStepCounts == GoveeSpec => []StepsCount
  <1>1. LightInv => StepsCount
    <2> SUFFICES ASSUME LightInv, NEW e \in DOMAIN history,
                        history[e].by \in Steps, history[e].base # 0,
                        \A i \in history[e].base + 1 .. e - 1 : history[i].by = "power"
                 PROVE  history[e].level = OneStep(history[e].by, history[e - 1].level)
      BY DEF StepsCount
    <2> DEFINE b == history[e].base
    <2>1. e \in 1 .. Len(history) /\ Len(history) \in Nat
      BY DEF LightInv, GoveeTypeOK
    <2>2. b \in 1 .. e - 1 /\ history[e].level = OneStep(history[e].by, history[b].level)
      BY <2>1 DEF LightInv, TakenInv
    <2>3. b \in 1 .. Len(history) /\ e - 1 \in 1 .. Len(history) /\ b <= e - 1
      BY <2>1, <2>2
    <2>4. history[e - 1].level = history[b].level
      BY <2>3 DEF LightInv, PlateauInv
    <2> QED
      BY <2>2, <2>4
  <1> QED
    BY <1>1, LightInvariant, PTL

LEMMA StepMirrorsLight ==
  LightInv /\ [GoveeNext]_goveeVars =>
    [\/ GoveeMirrored!Change \/ GoveeMirrored!Refresh
     \/ GoveeMirrored!Forget \/ GoveeMirrored!Disorder]_(GoveeMirrored!mirrorVars)
  <1> SUFFICES ASSUME LightInv, [GoveeNext]_goveeVars
               PROVE  \/ GoveeMirrored!Change \/ GoveeMirrored!Refresh
                      \/ GoveeMirrored!Forget \/ GoveeMirrored!Disorder
                      \/ UNCHANGED <<history, seen, known, overtaken = 0>>
    BY DEF GoveeMirrored!mirrorVars
  <1>1. CASE ReportStep(LightStates) /\ UNCHANGED overtaken
    <2>1. \/ UNCHANGED <<history, seen, known>>
          \/ Grows(LightStates) \/ Refreshes \/ Unknows
      BY <1>1, ReportsMirror, LightTypeIsHistory DEF LightInv, OrderedInv
    <2> QED
      BY <1>1, <2>1, Zenon
      DEF Grows, Refreshes, Unknows,
          GoveeMirrored!Change, GoveeMirrored!Refresh, GoveeMirrored!Forget
  <1>2. CASE Overtakes
    <2>1. (overtaken = 0)' = FALSE
      BY <1>2 DEF Overtakes, LightInv, GoveeTypeOK, NetTypeOK
    <2> QED
      BY <1>2, <2>1, OvertakingMirrors DEF GoveeMirrored!Disorder
  <1> QED
    BY <1>1, <1>2, LightStepReports DEF DeviceStep, LightInv

(* For every network that loses and reorders datagrams, with updates that  *)
(* are abandoned and restarts of the server: the table says only what the  *)
(* light has been, and does not run backwards unless a datagram has        *)
(* overtaken another.                                                      *)
THEOREM TableMirrorsLight == GoveeSpec => GoveeMirrorImplemented
  <1>1. GoveeInit => GoveeMirrored!MirrorInit
    <2> SUFFICES ASSUME GoveeInit PROVE GoveeMirrored!MirrorInit
      OBVIOUS
    <2>1. history \in Seq(LightStates) /\ Len(history) = 1
      <3>1. [by |-> "app", level |-> 0, base |-> 0] \in LightStates
        BY GoveeAssumption DEF LightStates, Levels
      <3> QED
        BY <3>1 DEF GoveeInit
    <2>2. (overtaken = 0) = TRUE
      BY DEF GoveeInit, NetInit
    <2> QED
      BY <2>1, <2>2, Zenon DEF GoveeInit, ReportsInit, GoveeMirrored!MirrorInit
  <1> QED
    BY <1>1, StepMirrorsLight, LightInvariant, PTL
    DEF GoveeSpec, GoveeMirrorImplemented, GoveeMirrored!MirrorSafe

=============================================================================
