------------------------ MODULE KryptonSessionProofs ------------------------
(***************************************************************************)
(* Proofs about KryptonSession: for every capacity of the channel, every   *)
(* number of threads and every length of a hello, it implements DeviceLink.*)
(***************************************************************************)
EXTENDS KryptonSession, TLAPS

(* Every request to the device that the connection has passed was written. *)
GotInv == \A i \in since .. cursor - 1 : requests[i] = "mine" => i \in got

IInv == TypeOK /\ GotInv

(* The flags and the rest of TypeOK, which different provers are good at. *)
FlagsOK == again \in BOOLEAN /\ hungUp \in BOOLEAN /\ busy \in BOOLEAN

DataOK ==
  /\ requests \in Seq({"mine", "foreign"})
  /\ phase \in Phases /\ spinning \in 0 .. Workers
  /\ since \in 1 .. Len(requests) + 1 /\ cursor \in since .. Len(requests) + 1
  /\ got \subseteq since .. cursor - 1
  /\ hello \in 0 .. HelloParts /\ heard \in 0 .. hello
  /\ sent \in Seq(Kinds) /\ taken \in 0 .. Len(sent)

BusyOK == busy => taken < Len(sent)

LEMMA TypeParts == TypeOK <=> FlagsOK /\ DataOK /\ BusyOK
  BY DEF TypeOK, FlagsOK, DataOK, BusyOK

-----------------------------------------------------------------------------
LEMMA InitIInv == Init => IInv
  <1> SUFFICES ASSUME Init PROVE IInv
    OBVIOUS
  <1>1. requests \in Seq({"mine", "foreign"}) /\ Len(requests) = 0
    BY DEF Init
  <1>2. sent \in Seq(Kinds) /\ Len(sent) = 0
    BY DEF Init
  <1>3. FlagsOK /\ BusyOK
    BY Zenon DEF Init, FlagsOK, BusyOK
  <1>4. DataOK /\ GotInv
    BY <1>1, <1>2, KryptonAssumption DEF Init, DataOK, GotInv, Phases
  <1> QED
    BY <1>3, <1>4, TypeParts DEF IInv

LEMMA CloseIInv == IInv /\ Closes => IInv'
  BY DEF IInv, TypeOK, GotInv, Closes, helloVars, Phases

(* A request that is sent lies behind every cursor. *)
LEMMA SendIInv ==
  ASSUME IInv, NEW whose \in {"mine", "foreign"}, Send(whose)
  PROVE  IInv'
  <1> DEFINE n == Len(requests)
  <1>1. /\ requests' \in Seq({"mine", "foreign"}) /\ Len(requests') = n + 1
        /\ \A i \in 1 .. n : requests'[i] = requests[i]
    BY DEF IInv, TypeOK, Send
  <1>2. n \in Nat
    BY DEF IInv, TypeOK
  <1> HIDE DEF n
  <1>3. TypeOK'
    BY <1>1, <1>2 DEF n, IInv, TypeOK, Send, helloVars, serveVars
  <1>4. GotInv'
    BY <1>1, <1>2 DEF n, IInv, TypeOK, GotInv, Send, serveVars
  <1> QED
    BY <1>3, <1>4 DEF IInv

LEMMA AcceptIInv == IInv /\ Accept => IInv'
  <1> SUFFICES ASSUME IInv, Accept PROVE IInv'
    OBVIOUS
  <1>1. sent' \in Seq(Kinds) /\ Len(sent') = 0
    BY DEF Accept
  <1>2. Len(requests) \in Nat
    BY DEF IInv, TypeOK
  <1>3. FlagsOK' /\ BusyOK'
    BY Zenon DEF Accept, FlagsOK, BusyOK
  <1>4. DataOK' /\ GotInv'
    BY <1>1, <1>2, KryptonAssumption DEF IInv, TypeOK, DataOK, GotInv, Accept, Phases
  <1> QED
    BY <1>3, <1>4, TypeParts, PTL DEF IInv

LEMMA DeviceIInv == IInv /\ Device => IInv'
  <1> SUFFICES ASSUME IInv, Device PROVE IInv'
    OBVIOUS
  <1>1. CASE DeviceSendsHello
    BY <1>1, KryptonAssumption DEF IInv, TypeOK, GotInv, DeviceSendsHello, serveVars
  <1>2. CASE DeviceRepeatsHello
    <2>1. FlagsOK' /\ BusyOK'
      BY <1>2, Zenon
      DEF IInv, TypeOK, FlagsOK, BusyOK, DeviceRepeatsHello, serveVars
    <2>2. DataOK' /\ GotInv'
      BY <1>2 DEF IInv, TypeOK, DataOK, GotInv, DeviceRepeatsHello, serveVars
    <2> QED
      BY <2>1, <2>2, TypeParts, PTL DEF IInv
  <1>3. CASE DeviceHangsUp
    <2>1. FlagsOK' /\ BusyOK'
      BY <1>3, Zenon
      DEF IInv, TypeOK, FlagsOK, BusyOK, DeviceHangsUp, helloVars, serveVars
    <2>2. DataOK' /\ GotInv'
      BY <1>3 DEF IInv, TypeOK, DataOK, GotInv, DeviceHangsUp, helloVars, serveVars
    <2> QED
      BY <2>1, <2>2, TypeParts, PTL DEF IInv
  <1>4. ASSUME NEW kind \in Kinds, DeviceSends(kind)
        PROVE  IInv'
    <2>1. sent' \in Seq(Kinds) /\ Len(sent') = Len(sent) + 1 /\ Len(sent) \in Nat
      BY <1>4 DEF IInv, TypeOK, DeviceSends
    <2> QED
      BY <1>4, <2>1 DEF IInv, TypeOK, GotInv, DeviceSends, helloVars, serveVars
  <1> QED
    BY <1>1, <1>2, <1>3, <1>4 DEF Device

LEMMA HelloIInv == IInv /\ Hello => IInv'
  <1> SUFFICES ASSUME IInv, Hello PROVE IInv'
    OBVIOUS
  <1> USE KryptonAssumption DEF IInv, TypeOK, GotInv, Phases, helloVars, deviceVars, serveVars
  <1>1. CASE ReadHello
    BY <1>1 DEF ReadHello
  <1>2. CASE ReadNothing \/ RefuseHello \/ FailHandshake
    BY <1>2, CloseIInv DEF ReadNothing, RefuseHello, FailHandshake
  <1>3. CASE ReadEnd
    BY <1>3 DEF ReadEnd, Runs
  <1>4. CASE EndHandshake
    BY <1>4 DEF EndHandshake
  <1> QED
    BY <1>1, <1>2, <1>3, <1>4 DEF Hello

LEMMA MessagesIInv == IInv /\ Messages => IInv'
  <1> SUFFICES ASSUME IInv, Messages PROVE IInv'
    OBVIOUS
  <1> USE DEF IInv, TypeOK, GotInv, Phases, helloVars, Idle
  <1>1. CASE TakeNote
    BY <1>1 DEF TakeNote
  <1>2. CASE EndNote
    <2>1. FlagsOK' /\ BusyOK'
      BY <1>2, Zenon DEF EndNote, FlagsOK, BusyOK
    <2>2. DataOK' /\ GotInv'
      BY <1>2 DEF EndNote, DataOK
    <2> QED
      BY <2>1, <2>2, TypeParts, PTL
  <1>3. CASE TakeOther
    BY <1>3 DEF TakeOther
  <1>4. CASE StreamEnds
    BY <1>4, CloseIInv DEF StreamEnds
  <1> QED
    BY <1>1, <1>2, <1>3, <1>4 DEF Messages

LEMMA RequestsIInv == IInv /\ Requests => IInv'
  <1> SUFFICES ASSUME IInv, Requests PROVE IInv'
    OBVIOUS
  <1>1. CASE TakeRequest
    BY <1>1 DEF IInv, TypeOK, GotInv, TakeRequest, helloVars
  <1>2. CASE WriteFails \/ Lag
    BY <1>2, CloseIInv DEF WriteFails, Lag
  <1> QED
    BY <1>1, <1>2 DEF Requests

LEMMA StepIInv == IInv /\ [Next]_vars => IInv'
  <1> SUFFICES ASSUME IInv, [Next]_vars PROVE IInv'
    OBVIOUS
  <1>1. CASE ReadEndElsewhere
    BY <1>1, KryptonAssumption
    DEF IInv, TypeOK, GotInv, ReadEndElsewhere, Runs, helloVars, serveVars
  <1>2. CASE Sends
    BY <1>2, SendIInv DEF Sends
  <1>3. CASE UNCHANGED vars
    BY <1>3 DEF IInv, TypeOK, GotInv, vars, helloVars, serveVars
  <1> QED
    BY <1>1, <1>2, <1>3, AcceptIInv, DeviceIInv, HelloIInv, MessagesIInv, RequestsIInv
    DEF Next

(* The types of KryptonSession, for every number of threads: a cursor is   *)
(* never past the channel, and no more is taken than was sent.             *)
THEOREM KryptonTypeCorrect == Spec => []TypeOK
  <1>1. Spec => []IInv
    BY InitIInv, StepIInv, PTL DEF Spec
  <1> QED
    BY <1>1, PTL DEF IInv

-----------------------------------------------------------------------------
(* The refinement: every step is a step of the link, or none.              *)
LinkStep == [Link!LinkNext]_(Link!linkVars)

LEMMA CloseIsClose == phase # "closed" /\ Closes => LinkStep
  BY DEF Closes, LinkStep, Link!LinkNext, Link!Close

LEMMA SendIsSendTo ==
  ASSUME NEW whose \in {"mine", "foreign"}, Send(whose)
  PROVE  LinkStep
  BY DEF Send, LinkStep, Link!LinkNext, Link!SendTo, serveVars

LEMMA AcceptIsOpen == Accept => LinkStep
  BY DEF Accept, LinkStep, Link!LinkNext, Link!Open

LEMMA DeviceSays == IInv /\ Device => LinkStep
  <1> SUFFICES ASSUME IInv, Device PROVE LinkStep
    OBVIOUS
  <1>1. CASE DeviceSendsHello \/ DeviceRepeatsHello \/ DeviceHangsUp
    BY <1>1 DEF DeviceSendsHello, DeviceRepeatsHello, DeviceHangsUp, LinkStep,
                Link!linkVars, serveVars, helloVars
  <1>2. ASSUME NEW kind \in Kinds, DeviceSends(kind)
        PROVE  LinkStep
    <2>1. Len(sent') = Len(sent) + 1
      BY <1>2 DEF IInv, TypeOK, DeviceSends
    <2> QED
      BY <1>2, <2>1 DEF DeviceSends, LinkStep, Link!LinkNext, Link!Say, serveVars
  <1> QED
    BY <1>1, <1>2 DEF Device

LEMMA HelloIsSilent == Hello => LinkStep
  <1> SUFFICES ASSUME Hello PROVE LinkStep
    OBVIOUS
  <1>1. CASE ReadHello \/ EndHandshake
    BY <1>1 DEF ReadHello, EndHandshake, LinkStep, Link!linkVars, serveVars, deviceVars
  <1>2. CASE ReadNothing \/ RefuseHello \/ FailHandshake
    BY <1>2, CloseIsClose DEF ReadNothing, RefuseHello, FailHandshake
  <1>3. CASE ReadEnd
    BY <1>3 DEF ReadEnd, LinkStep, Link!LinkNext, Link!Close, serveVars, deviceVars
  <1> QED
    BY <1>1, <1>2, <1>3 DEF Hello

LEMMA MessagesAreTaken == IInv /\ Messages => LinkStep
  <1> SUFFICES ASSUME IInv, Messages PROVE LinkStep
    OBVIOUS
  <1>1. CASE TakeNote
    BY <1>1 DEF TakeNote, Idle, LinkStep, Link!linkVars
  <1>2. CASE EndNote
    BY <1>2 DEF IInv, TypeOK, EndNote, LinkStep, Link!LinkNext, Link!Take
  <1>3. CASE TakeOther
    BY <1>3 DEF IInv, TypeOK, TakeOther, Idle, LinkStep, Link!LinkNext, Link!Take
  <1>4. CASE StreamEnds
    BY <1>4, CloseIsClose DEF StreamEnds, Idle
  <1> QED
    BY <1>1, <1>2, <1>3, <1>4 DEF Messages

(* A request that is taken is delivered when it is for the device; GotInv  *)
(* says that none before it is missing.                                    *)
LEMMA RequestsAreDelivered == IInv /\ Requests => LinkStep
  <1> SUFFICES ASSUME IInv, Requests PROVE LinkStep
    OBVIOUS
  <1>1. CASE TakeRequest /\ requests[cursor] = "mine"
    <2>1. /\ cursor \in since .. Len(requests) /\ cursor \notin got
          /\ \A j \in since .. cursor - 1 : requests[j] = "mine" => j \in got
      BY <1>1 DEF IInv, TypeOK, GotInv, TakeRequest
    <2> QED
      BY <1>1, <2>1 DEF TakeRequest, Idle, LinkStep, Link!LinkNext, Link!Deliver
  <1>2. CASE TakeRequest /\ requests[cursor] # "mine"
    BY <1>2 DEF TakeRequest, LinkStep, Link!linkVars
  <1>3. CASE WriteFails \/ Lag
    BY <1>3, CloseIsClose DEF WriteFails, Lag, Idle
  <1> QED
    BY <1>1, <1>2, <1>3 DEF Requests

LEMMA StepIsLinkStep == IInv /\ [Next]_vars => LinkStep
  <1> SUFFICES ASSUME IInv, [Next]_vars PROVE LinkStep
    OBVIOUS
  <1>1. CASE ReadEndElsewhere
    BY <1>1 DEF ReadEndElsewhere, LinkStep, Link!linkVars, serveVars
  <1>2. CASE Sends
    BY <1>2, SendIsSendTo DEF Sends
  <1>3. CASE UNCHANGED vars
    BY <1>3 DEF vars, serveVars, LinkStep, Link!linkVars
  <1> QED
    BY <1>1, <1>2, <1>3, AcceptIsOpen, DeviceSays, HelloIsSilent, MessagesAreTaken,
       RequestsAreDelivered
    DEF Next

(* Krypton connections implement the link, whatever devices, lag and       *)
(* broken hellos do.                                                       *)
THEOREM KryptonImplementsLink == Spec => LinkImplemented
  <1>1. Init => Link!LinkInit
    BY DEF Init, Link!LinkInit
  <1>2. IInv /\ [Next]_vars => [Link!LinkNext]_(Link!linkVars)
    BY StepIsLinkStep DEF LinkStep
  <1> QED
    BY <1>1, <1>2, InitIInv, StepIInv, PTL DEF Spec, LinkImplemented, Link!LinkSafe

=============================================================================
