------------------------ MODULE SimpleSessionProofs ------------------------
(***************************************************************************)
(* Proofs about SimpleSession, for every size of the inbox, every capacity *)
(* of the request channel and every modulus of the nonces.                 *)
(***************************************************************************)
EXTENDS SimpleSession, SequenceTheorems, TLAPS

(* Before the handshake is over nothing has happened on the connection. *)
FreshInv ==
  /\ ~Running => reader = "stopped"
  /\ phase = "greeting" =>
       recvNonce = given /\ read = 0 /\ sent = <<>> /\ out = <<>> /\ cursor = since

CursorInv == since <= cursor /\ cursor <= Len(requests) + 1

(* Each side counts in step with the other. *)
RecvInv == Running /\ reader # "stopped" => recvNonce = After(given, read)
SendInv == phase = "running" => sendNonce = After(firstNonce, Len(out))

(* MessagesInOrder, position by position. *)
InHand == IF hand = 0 THEN 0 ELSE 1
InReader == IF reader = "sending" THEN 1 ELSE 0
OrderInv ==
  /\ \A k \in 1 .. Len(handled) : handled[k] = k
  /\ hand # 0 => hand = Len(handled) + 1
  /\ \A k \in 1 .. Len(inbox) : inbox[k] = Len(handled) + InHand + k
  /\ read = Len(handled) + InHand + Len(inbox) + InReader

IInv ==
  /\ TypeOK /\ FreshInv /\ CursorInv /\ RecvInv /\ SendInv
  /\ ReaderKeepsProtocol /\ OrderInv /\ CommandsInOrder /\ NoncesInStep

-----------------------------------------------------------------------------
(* Nonces. *)

LEMMA Remainder ==
  ASSUME NEW M \in Nat, M > 1, NEW q \in Nat, NEW r \in 0 .. M - 1
  PROVE  (M * q + r) % M = r
  BY SMTT(30)

LEMMA AddOne ==
  ASSUME NEW M \in Nat, M > 1, NEW a \in Nat
  PROVE  ((a % M) + 1) % M = (a + 1) % M
  <1> DEFINE q == a \div M
             r == a % M
  <1>1. a = M * q + r /\ q \in Nat /\ r \in 0 .. M - 1
    OBVIOUS
  <1> HIDE DEF q, r
  <1>2. CASE r < M - 1
    <2>1. r + 1 \in 0 .. M - 1 /\ a + 1 = M * q + (r + 1)
      BY <1>1, <1>2
    <2>2. (a + 1) % M = r + 1
      BY <1>1, <2>1, Remainder
    <2>3. (M * 0 + (r + 1)) % M = r + 1
      BY <2>1, Remainder
    <2> QED
      BY <2>2, <2>3, <1>1 DEF r
  <1>3. CASE r = M - 1
    <2>1. M * (q + 1) = M * q + M /\ q + 1 \in Nat
      BY <1>1
    <2>2. a + 1 = M * (q + 1) + 0 /\ 0 \in 0 .. M - 1
      BY <1>1, <1>3, <2>1
    <2>3. (a + 1) % M = 0
      BY <2>1, <2>2, Remainder
    <2>4. (M * 1 + 0) % M = 0
      BY Remainder
    <2> QED
      BY <2>3, <2>4, <1>3 DEF r
  <1> QED
    BY <1>1, <1>2, <1>3

LEMMA NonceCounts ==
  ASSUME NEW nonce \in Nonces, NEW n \in Nat
  PROVE  /\ After(nonce, n) \in Nonces /\ Following(nonce) \in Nonces
         /\ After(nonce, 0) = nonce
         /\ Following(After(nonce, n)) = After(nonce, n + 1)
  <1>1. nonce + n \in Nat /\ nonce \in Nat
    BY SimpleAssumption DEF Nonces
  <1>2. After(nonce, n) \in Nonces /\ Following(nonce) \in Nonces
    BY <1>1, SimpleAssumption DEF After, Following, Nonces
  <1>3. After(nonce, 0) = nonce
    BY SimpleAssumption DEF After, Nonces
  <1>4. Following(After(nonce, n)) = After(nonce, n + 1)
    <2>1. Modulus \in Nat /\ Modulus > 1
      BY SimpleAssumption
    <2>2. (((nonce + n) % Modulus) + 1) % Modulus = ((nonce + n) + 1) % Modulus
      BY <1>1, <2>1, AddOne
    <2>3. (nonce + n) + 1 = nonce + (n + 1)
      BY <1>1
    <2> QED
      BY <2>2, <2>3 DEF After, Following
  <1> QED
    BY <1>2, <1>3, <1>4

-----------------------------------------------------------------------------
LEMMA NothingYet ==
  /\ <<>> \in Seq({"mine", "foreign"}) /\ <<>> \in Seq(Message) /\ <<>> \in Seq(Written)
  /\ <<>> \in Seq(Nat) /\ Len(<<>>) = 0
  BY EmptySeq

LEMMA InitIInv == Init => IInv
  <1> SUFFICES ASSUME Init PROVE IInv
    OBVIOUS
  <1>1. TypeOK
    <2>1. 0 \in Nonces /\ Len(<<>>) <= InboxSize
      BY SimpleAssumption DEF Nonces
    <2>2. read \in 0 .. Len(sent) /\ Len(inbox) <= InboxSize
      BY <2>1, NothingYet DEF Init
    <2>3. /\ requests \in Seq({"mine", "foreign"}) /\ sent \in Seq(Message)
          /\ inbox \in Seq(Nat) /\ handled \in Seq(Nat) /\ out \in Seq(Written)
      BY NothingYet DEF Init
    <2>4. /\ since \in Nat \ {0} /\ cursor \in Nat \ {0} /\ hand \in Nat
          /\ given \in Nonces /\ firstNonce \in Nonces
          /\ recvNonce \in Nonces /\ sendNonce \in Nonces
      BY <2>1 DEF Init
    <2>5. hungUp \in BOOLEAN /\ reader = "stopped" /\ phase = "closed"
      BY DEF Init
    <2> QED
      BY <2>1, <2>2, <2>3, <2>4, <2>5 DEF Init, TypeOK
  <1>2. FreshInv /\ CursorInv /\ RecvInv /\ SendInv /\ ReaderKeepsProtocol /\ OrderInv
    BY DEF Init, FreshInv, CursorInv, RecvInv, SendInv, ReaderKeepsProtocol, OrderInv,
           InHand, InReader, Running
  <1>3. CommandsInOrder /\ NoncesInStep
    BY DEF Init, CommandsInOrder, NoncesInStep
  <1> QED
    BY <1>1, <1>2, <1>3 DEF IInv

(* What Write does, whatever it writes. *)
LEMMA WriteType ==
  ASSUME TypeOK, NEW request \in Nat, Write(request)
  PROVE  /\ phase' \in {phase, "ending"}
         /\ sendNonce' \in Nonces /\ sendNonce' = Following(sendNonce)
         /\ out' \in Seq(Written)
  <1>1. Following(sendNonce) \in Nonces
    BY NonceCounts DEF TypeOK
  <1>2. [request |-> request, nonce |-> Following(sendNonce)] \in Written
    BY <1>1 DEF Written
  <1> QED
    <2> DEFINE w == [request |-> request, nonce |-> Following(sendNonce)]
    <2>1. \/ out' = Append(out, w) /\ phase' = phase
          \/ out' = out /\ phase' = "ending"
      BY DEF Write
    <2>2. Append(out, w) \in Seq(Written)
      BY <1>2, AppendProperties DEF TypeOK
    <2> QED
      BY <1>1, <2>1, <2>2 DEF Write, TypeOK

LEMMA MessageTaken ==
  ASSUME TypeOK, OrderInv, TakeMessage
  PROVE  /\ Head(inbox) = Len(handled) + 1 /\ Head(inbox) \in Nat \ {0}
         /\ Tail(inbox) \in Seq(Nat) /\ Len(Tail(inbox)) = Len(inbox) - 1
         /\ \A k \in 1 .. Len(Tail(inbox)) : Tail(inbox)[k] = inbox[k + 1]
         /\ hand = 0 /\ phase = "running"
  BY HeadTailProperties DEF TypeOK, OrderInv, InHand, TakeMessage, Idle

(* The device only adds to what it sent. *)
LEMMA DeviceOnlyAdds ==
  ASSUME TypeOK, Device
  PROVE  /\ UNCHANGED <<requests, handshakeVars, readerVars, inbox, bodyVars>> /\ hungUp' \in BOOLEAN
         /\ hungUp => hungUp' /\ sent' = sent
         /\ sent' = sent \/ \E message \in Message : sent' = Append(sent, message)
  <1>1. CASE DeviceHangsUp
    BY <1>1 DEF DeviceHangsUp, handshakeVars, readerVars, bodyVars, Connected
  <1>2. ASSUME NEW kind \in Kinds, NEW repeats \in BOOLEAN, NEW signed \in BOOLEAN,
               DeviceSends(kind, repeats, signed)
        PROVE  /\ UNCHANGED <<requests, handshakeVars, hungUp, readerVars, inbox, bodyVars>> /\ ~hungUp
               /\ \E message \in Message : sent' = Append(sent, message)
    <2> DEFINE message == [kind |-> kind, signed |-> signed,
                           nonce |-> After(given, Len(sent) + IF repeats THEN 0 ELSE 1)]
    <2>1. After(given, Len(sent) + IF repeats THEN 0 ELSE 1) \in Nonces
      <3>1. Len(sent) + (IF repeats THEN 0 ELSE 1) \in Nat
        BY DEF TypeOK
      <3> QED
        BY <3>1, NonceCounts DEF TypeOK
    <2>2. message \in Message
      BY <2>1 DEF Message
    <2>3. sent' = Append(sent, message)
      BY <1>2 DEF DeviceSends
    <2> QED
      BY <1>2, <2>2, <2>3 DEF DeviceSends, Connected
  <1>3. "note" \in Kinds
    BY DEF Kinds
  <1> QED
    BY <1>1, <1>2, <1>3 DEF Device, TypeOK

LEMMA SentGrows ==
  ASSUME TypeOK, Device
  PROVE  /\ Len(sent') \in {Len(sent), Len(sent) + 1} /\ sent' \in Seq(Message)
         /\ \A i \in 1 .. Len(sent) : sent'[i] = sent[i]
  <1>1. CASE sent' = sent
    BY <1>1 DEF TypeOK
  <1>2. CASE \E message \in Message : sent' = Append(sent, message)
    <2>1. PICK message \in Message : sent' = Append(sent, message)
      BY <1>2
    <2> QED
      BY <2>1, AppendProperties DEF TypeOK
  <1> QED
    BY <1>1, <1>2, DeviceOnlyAdds

LEMMA StepType ==
  ASSUME TypeOK, OrderInv, CursorInv, [Next]_vars PROVE TypeOK'
  <1> USE DEF handshakeVars, deviceVars, readerVars, bodyVars
  <1>1. ASSUME NEW whose \in {"mine", "foreign"}, Send(whose) PROVE TypeOK'
    BY <1>1 DEF TypeOK, Send
  <1>2. CASE Accept
    <2>1. given' \in Nonces /\ recvNonce' \in Nonces
      BY <1>2 DEF Accept
    <2>2. read' \in 0 .. Len(sent') /\ Len(inbox') <= InboxSize
      BY <1>2, SimpleAssumption DEF Accept
    <2>3. Len(requests) + 1 \in Nat \ {0}
      BY DEF TypeOK
    <2> QED
      BY <1>2, <2>1, <2>2, <2>3, NothingYet DEF TypeOK, Accept
  <1>3. CASE Identify
    BY <1>3 DEF TypeOK, Identify
  <1>4. CASE RefuseIdentify
    BY <1>4 DEF TypeOK, RefuseIdentify
  <1>5. CASE Device
    BY <1>5, DeviceOnlyAdds, SentGrows DEF TypeOK
  <1>6. CASE ReaderAccepts
    BY <1>6, NonceCounts DEF TypeOK, ReaderAccepts
  <1>7. CASE ReaderStops
    BY <1>7, NonceCounts DEF TypeOK, ReaderStops
  <1>8. CASE ReaderSends
    BY <1>8, SimpleAssumption DEF TypeOK, ReaderSends
  <1>9. CASE TakeMessage
    <2>1. inbox' = Tail(inbox) /\ hand' \in Nat /\ handled' \in Seq(Nat)
      <3>1. Append(handled, Head(inbox)) \in Seq(Nat)
        BY <1>9, MessageTaken, AppendProperties DEF TypeOK
      <3>2. /\ inbox' = Tail(inbox)
            /\ \/ hand' = Head(inbox) /\ handled' = handled
               \/ hand' = hand /\ handled' = Append(handled, Head(inbox))
        BY <1>9 DEF TakeMessage
      <3> QED
        BY <1>9, <3>1, <3>2, MessageTaken DEF TypeOK
    <2>2. phase' \in {phase, "ending"} /\ sendNonce' \in Nonces /\ out' \in Seq(Written)
      <3>1. Write(0) \/ UNCHANGED <<phase, sendNonce, out>>
        BY <1>9 DEF TakeMessage
      <3> QED
        BY <3>1, WriteType DEF TypeOK
    <2> QED
      BY <1>9, <2>1, <2>2, MessageTaken, SimpleAssumption DEF TypeOK, TakeMessage
  <1>10. CASE EndNote
    BY <1>10 DEF TypeOK, EndNote
  <1>11. CASE Lag
    BY <1>11 DEF TypeOK, Lag
  <1>12. CASE TakeRequest
    <2>1. phase' \in {phase, "ending"} /\ sendNonce' \in Nonces /\ out' \in Seq(Written)
      BY <1>12, WriteType DEF TypeOK, TakeRequest
    <2> QED
      BY <1>12, <2>1 DEF TypeOK, TakeRequest
  <1>13. CASE Finish
    BY <1>13 DEF TypeOK, Finish
  <1>14. CASE UNCHANGED vars
    BY <1>14 DEF TypeOK, vars
  <1> QED
    BY <1>1, <1>2, <1>3, <1>4, <1>5, <1>6, <1>7, <1>8, <1>9, <1>10, <1>11, <1>12,
       <1>13, <1>14 DEF Next, Reader, Body

-----------------------------------------------------------------------------
LEMMA StepFreshCursor ==
  ASSUME TypeOK, TypeOK', FreshInv, CursorInv, [Next]_vars PROVE FreshInv' /\ CursorInv'
  <1> USE DEF handshakeVars, deviceVars, readerVars, bodyVars
  <1>1. ASSUME NEW whose \in {"mine", "foreign"}, Send(whose) PROVE FreshInv' /\ CursorInv'
    BY <1>1 DEF TypeOK, FreshInv, CursorInv, Running, Send
  <1>2. CASE Accept
    <2>1. After(given', 0) = given' /\ reader' = "stopped"
      BY <1>2, NonceCounts DEF FreshInv, Running, Accept
    <2> QED
      BY <1>2, <2>1 DEF TypeOK, FreshInv, CursorInv, Running, Accept
  <1>3. CASE Identify \/ RefuseIdentify
    BY <1>3 DEF TypeOK, FreshInv, CursorInv, Running, Identify, RefuseIdentify
  <1>4. CASE Device
    BY <1>4 DEF FreshInv, CursorInv, Running, Device, DeviceHangsUp, DeviceSends, Connected
  <1>5. CASE Reader
    BY <1>5 DEF FreshInv, CursorInv, Running, Reader, ReaderAccepts, ReaderStops, ReaderSends
  <1>6. CASE TakeMessage
    BY <1>6 DEF FreshInv, CursorInv, Running, TakeMessage, Idle, Write
  <1>7. CASE EndNote \/ Lag
    BY <1>7 DEF FreshInv, CursorInv, Running, EndNote, Lag, Idle
  <1>8. CASE TakeRequest
    BY <1>8 DEF TypeOK, FreshInv, CursorInv, Running, TakeRequest, Idle, Write
  <1>9. CASE Finish
    BY <1>9 DEF FreshInv, CursorInv, Running, Finish
  <1>10. CASE UNCHANGED vars
    BY <1>10 DEF FreshInv, CursorInv, Running, vars
  <1> QED
    BY <1>1, <1>2, <1>3, <1>4, <1>5, <1>6, <1>7, <1>8, <1>9, <1>10 DEF Next, Body

LEMMA StepReader ==
  ASSUME TypeOK, TypeOK', FreshInv, RecvInv, ReaderKeepsProtocol, [Next]_vars
  PROVE  RecvInv' /\ ReaderKeepsProtocol'
  <1> USE DEF handshakeVars, deviceVars, readerVars, bodyVars
  <1>1. ASSUME UNCHANGED <<given, sent, hungUp, read, recvNonce, reader>>, Running' => Running
        PROVE  RecvInv' /\ ReaderKeepsProtocol'
    BY <1>1 DEF RecvInv, ReaderKeepsProtocol, Genuine
  <1>2. ASSUME NEW whose \in {"mine", "foreign"}, Send(whose)
        PROVE  RecvInv' /\ ReaderKeepsProtocol'
    BY <1>1, <1>2 DEF Send, Running
  <1>3. CASE Accept
    BY <1>3 DEF Accept, RecvInv, ReaderKeepsProtocol, Running
  <1>4. CASE Identify
    <2>1. given \in Nonces /\ After(given, 0) = given
      BY NonceCounts DEF TypeOK
    <2> QED
      BY <1>4, <2>1 DEF Identify, FreshInv, RecvInv, ReaderKeepsProtocol, Running
  <1>5. CASE RefuseIdentify \/ EndNote \/ Lag \/ Finish
    BY <1>1, <1>5 DEF RefuseIdentify, EndNote, Lag, Idle, Finish, Running
  <1>6. CASE TakeMessage \/ TakeRequest
    BY <1>1, <1>6 DEF TakeMessage, TakeRequest, Write, Idle, Running
  <1>7. CASE Device
    <2>1. UNCHANGED <<given, phase, read, recvNonce, reader>> /\ (hungUp => hungUp' /\ sent' = sent)
      BY <1>7, DeviceOnlyAdds
    <2>2. \A i \in 1 .. Len(sent) : Genuine(i)' <=> Genuine(i)
      BY <1>7, <2>1, SentGrows DEF Genuine
    <2>3. ASSUME Running, reader = "stopped"
          PROVE  IF read' < Len(sent') THEN ~Genuine(read + 1)' ELSE hungUp'
      <3>1. CASE read < Len(sent)
        <4>1. read \in Nat /\ read + 1 \in 1 .. Len(sent) /\ ~Genuine(read + 1)
          BY <2>3, <3>1 DEF TypeOK, ReaderKeepsProtocol
        <4>2. sent'[read' + 1] = sent[read + 1] /\ given' = given /\ read' = read
          BY <1>7, <2>1, <4>1, SentGrows
        <4>3. read' < Len(sent')
          BY <1>7, <2>1, <3>1, SentGrows DEF TypeOK
        <4> QED
          BY <4>1, <4>2, <4>3 DEF Genuine
      <3>2. CASE ~(read < Len(sent))
        BY <1>7, <2>1, <2>3, <3>2, SentGrows DEF TypeOK, ReaderKeepsProtocol
      <3> QED
        BY <3>1, <3>2
    <2> QED
      BY <2>1, <2>2, <2>3 DEF TypeOK, RecvInv, ReaderKeepsProtocol, Running
  <1>8. CASE ReaderAccepts
    <2>1. given \in Nonces /\ read \in Nat /\ Running
      BY <1>8 DEF TypeOK, FreshInv, ReaderAccepts
    <2>2. recvNonce' = After(given, read + 1)
      <3>1. recvNonce' = Following(After(given, read))
        BY <1>8, <2>1 DEF RecvInv, ReaderAccepts
      <3> QED
        BY <2>1, <3>1, NonceCounts
    <2>3. Genuine(read + 1)
      BY <1>8, <2>2 DEF ReaderAccepts, Genuine
    <2> QED
      BY <1>8, <2>1, <2>2, <2>3 DEF ReaderAccepts, RecvInv, ReaderKeepsProtocol, Genuine, Running
  <1>9. CASE ReaderStops
    <2>1. given \in Nonces /\ read \in Nat /\ Running
      BY <1>9 DEF TypeOK, FreshInv, ReaderStops
    <2>2. recvNonce' = After(given, read + 1)
      <3>1. recvNonce' = Following(After(given, read))
        BY <1>9, <2>1 DEF RecvInv, ReaderStops
      <3> QED
        BY <2>1, <3>1, NonceCounts
    <2> QED
      BY <1>9, <2>1, <2>2 DEF ReaderStops, RecvInv, ReaderKeepsProtocol, Genuine, Running
  <1>10. CASE ReaderSends
    BY <1>10 DEF ReaderSends, RecvInv, ReaderKeepsProtocol, Genuine, Running
  <1>11. CASE UNCHANGED vars
    BY <1>1, <1>11 DEF vars, Running
  <1> QED
    BY <1>2, <1>3, <1>4, <1>5, <1>6, <1>7, <1>8, <1>9, <1>10, <1>11 DEF Next, Reader, Body

-----------------------------------------------------------------------------
LEMMA StepOrder ==
  ASSUME TypeOK, TypeOK', FreshInv, OrderInv, [Next]_vars PROVE OrderInv'
  <1> USE DEF handshakeVars, deviceVars, readerVars, bodyVars
  <1>1. ASSUME UNCHANGED <<read, reader, inbox, hand, handled>> PROVE OrderInv'
    BY <1>1 DEF OrderInv, InHand, InReader
  <1>2. ASSUME NEW whose \in {"mine", "foreign"}, Send(whose) PROVE OrderInv'
    BY <1>1, <1>2 DEF Send
  <1>3. CASE Accept
    BY <1>3 DEF Accept, FreshInv, Running, OrderInv, InHand, InReader
  <1>4. CASE Identify
    BY <1>4 DEF Identify, FreshInv, Running, OrderInv, InHand, InReader
  <1>5. CASE RefuseIdentify \/ Lag \/ TakeRequest \/ Finish
    BY <1>1, <1>5 DEF RefuseIdentify, Lag, TakeRequest, Finish
  <1>6. CASE Device
    BY <1>1, <1>6, DeviceOnlyAdds
  <1>7. CASE ReaderAccepts
    BY <1>7 DEF TypeOK, ReaderAccepts, OrderInv, InHand, InReader
  <1>8. CASE ReaderStops
    BY <1>8 DEF TypeOK, ReaderStops, OrderInv, InHand, InReader
  <1>9. CASE ReaderSends
    <2>1. /\ Len(inbox') = Len(inbox) + 1 /\ inbox'[Len(inbox) + 1] = read
          /\ \A k \in 1 .. Len(inbox) : inbox'[k] = inbox[k]
      BY <1>9, AppendProperties DEF TypeOK, ReaderSends
    <2>2. UNCHANGED <<hand, handled, read>> /\ InReader = 1 /\ InReader' = 0 /\ InHand' = InHand
      BY <1>9 DEF ReaderSends, InReader, InHand
    <2>3. Len(handled) \in Nat /\ Len(inbox) \in Nat /\ InHand \in {0, 1}
      BY DEF TypeOK, InHand
    <2>4. \A k \in 1 .. Len(inbox') : inbox'[k] = Len(handled) + InHand + k
      <3>1. read = Len(handled) + InHand + Len(inbox) + 1
        BY <2>2 DEF OrderInv
      <3>2. \A k \in 1 .. Len(inbox') : k \in 1 .. Len(inbox) \/ k = Len(inbox) + 1
        BY <2>1, <2>3
      <3> QED
        BY <2>1, <2>3, <3>1, <3>2 DEF OrderInv
    <2> QED
      BY <2>1, <2>2, <2>3, <2>4 DEF OrderInv
  <1>10. CASE TakeMessage
    <2>1. UNCHANGED <<read, reader>> /\ inbox' = Tail(inbox) /\ InReader' = InReader /\ InHand = 0
      BY <1>10, MessageTaken DEF TakeMessage, InReader, InHand
    <2>2. Len(handled) \in Nat /\ Len(inbox) \in Nat /\ InReader \in {0, 1}
      BY DEF TypeOK, InReader
    <2>3. /\ Len(inbox') = Len(inbox) - 1
          /\ \A k \in 1 .. Len(inbox') : inbox'[k] = Len(handled) + k + 1
      <3>1. \A k \in 1 .. Len(inbox) - 1 : k + 1 \in 1 .. Len(inbox)
        BY <2>2
      <3> QED
        BY <1>10, <2>1, <2>2, <3>1, MessageTaken DEF OrderInv
    <2>4. CASE hand' = Head(inbox) /\ handled' = handled
      <3>1. hand' = Len(handled') + 1 /\ InHand' = 1
        BY <1>10, <2>2, <2>4, MessageTaken DEF InHand
      <3> QED
        <4>1. read' = Len(handled') + InHand' + Len(inbox') + InReader'
          <5>1. read = Len(handled) + 0 + Len(inbox) + InReader
            BY <2>1 DEF OrderInv
          <5>2. Len(handled') = Len(handled) /\ InHand' = 1
            BY <2>4, <3>1
          <5>3. read' = read /\ InReader' = InReader /\ Len(inbox') = Len(inbox) - 1
            BY <2>1, <2>3
          <5> QED
            BY <2>2, <5>1, <5>2, <5>3
        <4>2. ASSUME NEW k \in 1 .. Len(inbox') PROVE inbox'[k] = Len(handled') + InHand' + k
          <5>1. inbox'[k] = Len(handled) + k + 1 /\ k \in Int
            BY <2>2, <2>3
          <5>2. Len(handled') = Len(handled)
            BY <2>4
          <5> QED
            BY <2>2, <3>1, <5>1, <5>2
        <4> QED
          BY <2>4, <3>1, <4>1, <4>2 DEF OrderInv
    <2>5. CASE hand' = hand /\ handled' = Append(handled, Head(inbox))
      <3>1. /\ Len(handled') = Len(handled) + 1 /\ handled'[Len(handled) + 1] = Len(handled) + 1
            /\ \A k \in 1 .. Len(handled) : handled'[k] = handled[k]
        BY <1>10, <2>5, MessageTaken, AppendProperties DEF TypeOK
      <3>2. hand' = 0 /\ InHand' = 0
        BY <1>10, <2>5, MessageTaken DEF InHand
      <3>3. \A k \in 1 .. Len(handled') : handled'[k] = k
        BY <2>2, <3>1 DEF OrderInv
      <3> QED
        <4>1. read' = Len(handled') + InHand' + Len(inbox') + InReader'
          <5>1. read = Len(handled) + 0 + Len(inbox) + InReader
            BY <2>1 DEF OrderInv
          <5>2. Len(handled') = Len(handled) + 1 /\ InHand' = 0
            BY <3>1, <3>2
          <5>3. read' = read /\ InReader' = InReader /\ Len(inbox') = Len(inbox) - 1
            BY <2>1, <2>3
          <5> QED
            BY <2>2, <5>1, <5>2, <5>3
        <4>2. \A k \in 1 .. Len(inbox') : inbox'[k] = Len(handled') + InHand' + k
          BY <2>2, <2>3, <3>1, <3>2
        <4> QED
          BY <3>2, <3>3, <4>1, <4>2 DEF OrderInv
    <2> QED
      BY <1>10, <2>4, <2>5 DEF TakeMessage
  <1>11. CASE EndNote
    <2>1. /\ Len(handled') = Len(handled) + 1 /\ handled'[Len(handled) + 1] = Len(handled) + 1
          /\ \A k \in 1 .. Len(handled) : handled'[k] = handled[k]
      BY <1>11, AppendProperties DEF TypeOK, EndNote, OrderInv
    <2> QED
      BY <1>11, <2>1 DEF TypeOK, EndNote, OrderInv, InHand, InReader
  <1>12. CASE UNCHANGED vars
    BY <1>1, <1>12 DEF vars
  <1> QED
    BY <1>2, <1>3, <1>4, <1>5, <1>6, <1>7, <1>8, <1>9, <1>10, <1>11, <1>12 DEF Next, Reader, Body

-----------------------------------------------------------------------------
(* What is written to the device. *)
OutInv == SendInv /\ CommandsInOrder /\ NoncesInStep

(* One more message. *)
LEMMA WriteExtends ==
  ASSUME TypeOK, TypeOK', SendInv, NoncesInStep, phase = "running", firstNonce' = firstNonce,
         NEW request \in Nat, Write(request)
  PROVE  /\ SendInv' /\ NoncesInStep'
         /\ phase' = "running" =>
              /\ Len(out') = Len(out) + 1 /\ out'[Len(out) + 1].request = request
              /\ \A k \in 1 .. Len(out) : out'[k] = out[k]
  <1> DEFINE w == [request |-> request, nonce |-> Following(sendNonce)]
  <1>1. CASE phase' = "ending" /\ out' = out
    BY <1>1 DEF SendInv, NoncesInStep
  <1>2. CASE phase' = phase /\ out' = Append(out, w)
    <2>1. sendNonce' = After(firstNonce, Len(out) + 1)
      <3>1. Len(out) \in Nat /\ firstNonce \in Nonces
        BY DEF TypeOK
      <3>2. sendNonce' = Following(After(firstNonce, Len(out)))
        BY DEF Write, SendInv
      <3> QED
        BY <3>1, <3>2, NonceCounts
    <2>2. w.nonce = sendNonce' /\ w.request = request /\ w \in Written
      BY DEF Write, TypeOK, Written
    <2> HIDE DEF w
    <2>3. /\ Len(out') = Len(out) + 1 /\ out'[Len(out) + 1] = w
          /\ \A k \in 1 .. Len(out) : out'[k] = out[k]
      BY <1>2, <2>2, AppendProperties DEF TypeOK
    <2> QED
      <3>1. DOMAIN out = 1 .. Len(out) /\ DOMAIN out' = 1 .. Len(out') /\ Len(out) \in Nat
        BY DEF TypeOK
      <3>2. SendInv'
        BY <2>1, <2>3 DEF SendInv
      <3>3. \A k \in 1 .. Len(out') : out'[k].nonce = After(firstNonce, k)
        <4>1. \A k \in 1 .. Len(out') : k \in 1 .. Len(out) \/ k = Len(out) + 1
          BY <2>3, <3>1
        <4> QED
          BY <2>1, <2>2, <2>3, <3>1, <4>1 DEF NoncesInStep
      <3>4. NoncesInStep'
        BY <3>1, <3>3 DEF NoncesInStep, After
      <3> QED
        BY <2>2, <2>3, <3>2, <3>4
  <1> QED
    BY <1>1, <1>2 DEF Write

LEMMA StepOut ==
  ASSUME TypeOK, TypeOK', FreshInv, CursorInv, OutInv, [Next]_vars PROVE OutInv'
  <1> USE DEF handshakeVars, deviceVars, readerVars, bodyVars
  <1>1. ASSUME UNCHANGED <<requests, since, firstNonce, cursor, sendNonce, out>>,
               phase' = "running" => phase = "running"
        PROVE  OutInv'
    BY <1>1 DEF OutInv, SendInv, CommandsInOrder, NoncesInStep
  <1>2. ASSUME NEW whose \in {"mine", "foreign"}, Send(whose) PROVE OutInv'
    <2>1. \A i \in 1 .. Len(requests) : requests'[i] = requests[i]
      BY <1>2, AppendProperties DEF TypeOK, Send
    <2>2. \A i \in since .. cursor - 1 : i \in 1 .. Len(requests)
      BY DEF TypeOK, CursorInv
    <2> QED
      BY <1>2, <2>1, <2>2 DEF Send, OutInv, SendInv, CommandsInOrder, NoncesInStep
  <1>3. CASE Accept
    BY <1>3 DEF Accept, OutInv, SendInv, CommandsInOrder, NoncesInStep
  <1>4. CASE Identify
    <2>1. /\ firstNonce' \in Nonces /\ sendNonce' = firstNonce' /\ out' = <<>> /\ Len(out') = 0
          /\ since' = cursor' /\ cursor' \in Nat
      BY <1>4 DEF TypeOK, FreshInv, Identify
    <2>2. After(firstNonce', 0) = firstNonce'
      BY <2>1, NonceCounts
    <2>3. since' .. cursor' - 1 = {}
      <3>1. \A n \in Nat : n .. n - 1 = {}
        OBVIOUS
      <3>2. since' = cursor' /\ cursor' \in Nat
        BY <2>1
      <3> QED
        BY <3>1, <3>2
    <2>4. DOMAIN out' = {}
      <3>1. out' = <<>>
        BY <2>1
      <3> QED
        BY <3>1
    <2> QED
      BY <2>1, <2>2, <2>3, <2>4 DEF OutInv, SendInv, CommandsInOrder, NoncesInStep
  <1>5. CASE RefuseIdentify \/ EndNote \/ Lag \/ Finish
    BY <1>1, <1>5 DEF RefuseIdentify, EndNote, Lag, Finish
  <1>6. CASE Device
    BY <1>1, <1>6, DeviceOnlyAdds
  <1>7. CASE Reader
    BY <1>1, <1>7 DEF Reader, ReaderAccepts, ReaderStops, ReaderSends
  <1>8. CASE TakeMessage
    <2>1. UNCHANGED <<requests, since, firstNonce, cursor>> /\ phase = "running"
      BY <1>8 DEF TakeMessage, Idle
    <2>2. CASE UNCHANGED <<phase, sendNonce, out>>
      BY <1>1, <2>1, <2>2
    <2>3. CASE Write(0)
      <3>1. SendInv' /\ NoncesInStep'
        BY <2>1, <2>3, WriteExtends DEF OutInv
      <3>2. ASSUME phase' = "running" PROVE CommandsInOrder'
        <4>1. /\ Len(out') = Len(out) + 1 /\ out'[Len(out) + 1].request = 0
              /\ \A k \in 1 .. Len(out) : out'[k] = out[k]
          BY <2>1, <2>3, <3>2, WriteExtends DEF OutInv
        <4>2. DOMAIN out = 1 .. Len(out) /\ DOMAIN out' = 1 .. Len(out') /\ Len(out) \in Nat
          BY DEF TypeOK
        <4>3. ASSUME NEW i \in since .. cursor - 1, requests[i] = "mine"
              PROVE  \E k \in DOMAIN out' : out'[k].request = i
          BY <2>1, <4>1, <4>2, <4>3 DEF OutInv, CommandsInOrder
        <4>4. ASSUME NEW k \in DOMAIN out', out'[k].request # 0
              PROVE  /\ out'[k].request \in since .. cursor - 1
                     /\ requests[out'[k].request] = "mine"
                     /\ \A l \in 1 .. k - 1 : out'[l].request < out'[k].request
          <5>1. k \in DOMAIN out /\ out'[k] = out[k] /\ \A l \in 1 .. k - 1 : out'[l] = out[l]
            BY <4>1, <4>2, <4>4
          <5> QED
            BY <2>1, <4>4, <5>1 DEF OutInv, CommandsInOrder
        <4> QED
          BY <2>1, <4>3, <4>4 DEF CommandsInOrder
      <3> QED
        BY <3>1, <3>2 DEF OutInv, CommandsInOrder
    <2> QED
      BY <1>8, <2>2, <2>3 DEF TakeMessage
  <1>9. CASE TakeRequest
    <2>1. /\ UNCHANGED <<requests, since, firstNonce>> /\ phase = "running" /\ cursor' = cursor + 1
          /\ cursor \in Nat \ {0} /\ cursor <= Len(requests) /\ since <= cursor
          /\ since \in Nat \ {0} /\ Len(requests) \in Nat
      BY <1>9 DEF TypeOK, TakeRequest, Idle, CursorInv
    <2>2. \A i \in since .. cursor' - 1 : i \in since .. cursor - 1 \/ i = cursor
      BY <2>1
    <2>3. CASE requests[cursor] = "foreign" /\ UNCHANGED <<phase, sendNonce, out>>
      BY <2>1, <2>2, <2>3 DEF OutInv, SendInv, CommandsInOrder, NoncesInStep
    <2>4. CASE requests[cursor] = "mine" /\ Write(cursor)
      <3>1. SendInv' /\ NoncesInStep'
        BY <2>1, <2>4, WriteExtends DEF OutInv
      <3>2. ASSUME phase' = "running" PROVE CommandsInOrder'
        <4>1. /\ Len(out') = Len(out) + 1 /\ out'[Len(out) + 1].request = cursor
              /\ \A k \in 1 .. Len(out) : out'[k] = out[k]
          BY <2>1, <2>4, <3>2, WriteExtends DEF OutInv
        <4>2. DOMAIN out = 1 .. Len(out) /\ DOMAIN out' = 1 .. Len(out') /\ Len(out) \in Nat
          BY DEF TypeOK
        <4>3. \A k \in 1 .. Len(out) : out[k].request < cursor
          <5>1. \A k \in 1 .. Len(out) : out[k].request # 0 => out[k].request \in since .. cursor - 1
            BY <2>1, <4>2 DEF OutInv, CommandsInOrder
          <5> QED
            BY <2>1, <5>1
        <4>4. ASSUME NEW i \in since .. cursor' - 1, requests[i] = "mine"
              PROVE  \E k \in DOMAIN out' : out'[k].request = i
          <5>1. CASE i = cursor
            BY <4>1, <4>2, <5>1
          <5>2. CASE i \in since .. cursor - 1
            <6>1. PICK k \in DOMAIN out : out[k].request = i
              BY <2>1, <4>4, <5>2 DEF OutInv, CommandsInOrder
            <6> QED
              BY <4>1, <4>2, <6>1
          <5> QED
            BY <2>2, <5>1, <5>2
        <4>5. ASSUME NEW k \in DOMAIN out', out'[k].request # 0
              PROVE  /\ out'[k].request \in since .. cursor' - 1
                     /\ requests[out'[k].request] = "mine"
                     /\ \A l \in 1 .. k - 1 : out'[l].request < out'[k].request
          <5>1. CASE k = Len(out) + 1
            BY <2>1, <2>4, <4>1, <4>2, <4>3, <5>1
          <5>2. CASE k \in DOMAIN out
            <6>1. /\ out[k].request \in since .. cursor - 1 /\ requests[out[k].request] = "mine"
                  /\ \A l \in 1 .. k - 1 : out[l].request < out[k].request
              BY <2>1, <4>1, <4>2, <4>5, <5>2 DEF OutInv, CommandsInOrder
            <6> QED
              BY <2>1, <4>1, <4>2, <5>2, <6>1
          <5> QED
            BY <4>1, <4>2, <5>1, <5>2
        <4> QED
          BY <2>1, <4>4, <4>5 DEF CommandsInOrder
      <3> QED
        BY <3>1, <3>2 DEF OutInv, CommandsInOrder
    <2> QED
      BY <1>9, <2>3, <2>4 DEF TakeRequest
  <1>10. CASE UNCHANGED vars
    BY <1>1, <1>10 DEF vars
  <1> QED
    BY <1>2, <1>3, <1>4, <1>5, <1>6, <1>7, <1>8, <1>9, <1>10 DEF Next, Body

LEMMA StepIInv == IInv /\ [Next]_vars => IInv'
  BY StepType, StepFreshCursor, StepReader, StepOrder, StepOut DEF IInv, OutInv

-----------------------------------------------------------------------------
(* The inductive invariant holds in every reachable state. *)
THEOREM SimpleInvariant == Spec => []IInv
  BY InitIInv, StepIInv, PTL DEF Spec

(* Every variable keeps its type; the inbox keeps to its size. *)
THEOREM SimpleTypeCorrect == Spec => []TypeOK
  <1>1. IInv => TypeOK
    BY DEF IInv
  <1> QED
    BY <1>1, SimpleInvariant, PTL

(* No device that keeps the protocol is cut off, whatever its nonce is and *)
(* wherever it wraps, and nothing else is accepted.                        *)
THEOREM ReaderIsRight == Spec => []ReaderKeepsProtocol
  <1>1. IInv => ReaderKeepsProtocol
    BY DEF IInv
  <1> QED
    BY <1>1, SimpleInvariant, PTL

(* Messages are handled in order and once, for every size of the inbox. *)
THEOREM NothingIsReordered == Spec => []MessagesInOrder
  <1>1. IInv => MessagesInOrder
    <2> SUFFICES ASSUME IInv PROVE MessagesInOrder
      OBVIOUS
    <2> DEFINE held == IF reader = "sending" THEN <<read>> ELSE <<>>
               front == handled \o Once(hand)
               middle == front \o inbox
               all == middle \o held
    <2>1. /\ handled \in Seq(Nat) /\ inbox \in Seq(Nat) /\ hand \in Nat /\ read \in Nat
      BY DEF IInv, TypeOK
    <2>2. /\ Once(hand) \in Seq(Nat) /\ Len(Once(hand)) = InHand
          /\ hand # 0 => Once(hand)[1] = hand
      BY <2>1 DEF Once, InHand
    <2>3. /\ held \in Seq(Nat) /\ Len(held) = InReader
          /\ reader = "sending" => held[1] = read
      BY <2>1 DEF InReader
    <2> HIDE DEF held
    <2>4. /\ front \in Seq(Nat) /\ Len(front) = Len(handled) + InHand
          /\ \A k \in 1 .. Len(front) : front[k] = k
      <3>1. /\ front \in Seq(Nat) /\ Len(front) = Len(handled) + InHand
            /\ \A k \in 1 .. Len(front) :
                 front[k] = IF k <= Len(handled) THEN handled[k] ELSE Once(hand)[k - Len(handled)]
        BY <2>1, <2>2, ConcatProperties
      <3> QED
        BY <2>1, <2>2, <3>1 DEF IInv, OrderInv, InHand
    <2> HIDE DEF front
    <2>5. /\ middle \in Seq(Nat) /\ Len(middle) = Len(front) + Len(inbox)
          /\ \A k \in 1 .. Len(middle) : middle[k] = k
      <3>1. /\ middle \in Seq(Nat) /\ Len(middle) = Len(front) + Len(inbox)
            /\ \A k \in 1 .. Len(middle) :
                 middle[k] = IF k <= Len(front) THEN front[k] ELSE inbox[k - Len(front)]
        BY <2>1, <2>4, ConcatProperties
      <3>2. InHand \in {0, 1} /\ Len(handled) \in Nat /\ Len(inbox) \in Nat
        BY <2>1 DEF InHand
      <3>3. \A k \in 1 .. Len(inbox) : inbox[k] = Len(front) + k
        BY <2>4, <3>2 DEF IInv, OrderInv
      <3>4. \A k \in 1 .. Len(middle) : k > Len(front) => k - Len(front) \in 1 .. Len(inbox)
        BY <2>4, <3>1, <3>2
      <3> QED
        BY <2>4, <3>1, <3>2, <3>3, <3>4
    <2> HIDE DEF middle
    <2>6. /\ all \in Seq(Nat) /\ Len(all) = read
          /\ \A k \in 1 .. Len(all) : all[k] = k
      <3>1. /\ all \in Seq(Nat) /\ Len(all) = Len(middle) + InReader
            /\ \A k \in 1 .. Len(all) :
                 all[k] = IF k <= Len(middle) THEN middle[k] ELSE held[k - Len(middle)]
        BY <2>3, <2>5, ConcatProperties
      <3>2. InHand \in {0, 1} /\ InReader \in {0, 1} /\ Len(handled) \in Nat /\ Len(inbox) \in Nat
        BY <2>1 DEF InHand, InReader
      <3>3. read = Len(middle) + InReader
        BY <2>4, <2>5, <3>2 DEF IInv, OrderInv
      <3>4. \A k \in 1 .. Len(all) : k > Len(middle) => k = read /\ k - Len(middle) = 1 /\ InReader = 1
        BY <2>4, <2>5, <3>1, <3>2, <3>3
      <3>5. InReader = 1 => held[1] = read
        BY <2>3 DEF InReader
      <3> QED
        BY <2>4, <2>5, <3>1, <3>2, <3>3, <3>4, <3>5
    <2> HIDE DEF all
    <2>7. all = [i \in 1 .. read |-> i]
      BY <2>1, <2>6
    <2> QED
      BY <2>7 DEF MessagesInOrder, all, middle, front, held
  <1> QED
    BY <1>1, SimpleInvariant, PTL

(* The device gets its commands, for every number of other devices. *)
THEOREM CommandsArrive == Spec => []CommandsInOrder
  <1>1. IInv => CommandsInOrder
    BY DEF IInv
  <1> QED
    BY <1>1, SimpleInvariant, PTL

(* The device never sees a nonce it does not expect. *)
THEOREM NoncesMatch == Spec => []NoncesInStep
  <1>1. IInv => NoncesInStep
    BY DEF IInv
  <1> QED
    BY <1>1, SimpleInvariant, PTL

-----------------------------------------------------------------------------
(* The refinement: every step is a step of the link, or none.              *)
LinkStep == [Link!LinkNext]_(Link!linkVars)
Got == {out[k].request : k \in DOMAIN out} \ {0}

LEMMA GotGrows ==
  ASSUME TypeOK, NEW request \in Nat, Write(request)
  PROVE  Got' = Got \/ Got' = Got \cup ({request} \ {0})
  <1> DEFINE w == [request |-> request, nonce |-> Following(sendNonce)]
  <1>1. CASE out' = out
    BY <1>1 DEF Got
  <1>2. CASE out' = Append(out, w)
    <2>1. w \in Written /\ w.request = request
      BY NonceCounts DEF TypeOK, Written
    <2> HIDE DEF w
    <2>2. /\ out \in Seq(Written) /\ Len(out') = Len(out) + 1 /\ out'[Len(out) + 1] = w
          /\ \A k \in 1 .. Len(out) : out'[k] = out[k]
      BY <1>2, <2>1, AppendProperties DEF TypeOK
    <2>3. DOMAIN out = 1 .. Len(out) /\ DOMAIN out' = 1 .. Len(out) + 1 /\ Len(out) \in Nat
      BY <1>2, <2>1, <2>2, AppendProperties
    <2>4. \A k \in DOMAIN out' : k \in DOMAIN out \/ k = Len(out) + 1
      BY <2>3
    <2>5. DOMAIN out \subseteq DOMAIN out' /\ Len(out) + 1 \in DOMAIN out'
      BY <2>3
    <2> QED
      BY <2>1, <2>2, <2>3, <2>4, <2>5 DEF Got
  <1> QED
    BY <1>1, <1>2 DEF Write

LEMMA DeviceSaysOrNothing == TypeOK /\ Device => LinkStep
  <1> SUFFICES ASSUME TypeOK, Device PROVE LinkStep
    OBVIOUS
  <1>1. CASE DeviceHangsUp
    BY <1>1 DEF DeviceHangsUp, LinkStep, Link!linkVars, handshakeVars, readerVars, bodyVars
  <1>2. ASSUME NEW kind \in Kinds, NEW repeats \in BOOLEAN, NEW signed \in BOOLEAN,
               DeviceSends(kind, repeats, signed)
        PROVE  LinkStep
    <2>1. Len(sent') = Len(sent) + 1
      BY <1>2, AppendProperties DEF TypeOK, DeviceSends
    <2>2. phase # "closed"
      BY <1>2 DEF DeviceSends, Connected
    <2> QED
      BY <1>2, <2>1, <2>2
      DEF DeviceSends, LinkStep, Link!LinkNext, Link!Say, handshakeVars, bodyVars
  <1> QED
    BY <1>1, <1>2 DEF Device, Kinds

(* What is handled was said and not handled before: OrderInv counts it.    *)
LEMMA HandledIsTaken ==
  ASSUME TypeOK, OrderInv, phase # "closed",
         hand # 0 \/ Len(inbox) # 0,
         Len(handled') = Len(handled) + 1, Got' = Got, UNCHANGED <<requests, since, sent>>
  PROVE  LinkStep
  <1>1. Len(handled) < Len(sent)
    <2>1. /\ Len(handled) \in Nat /\ Len(inbox) \in Nat /\ Len(sent) \in Nat
          /\ read <= Len(sent) /\ InHand \in {0, 1} /\ InReader \in {0, 1}
      BY DEF TypeOK, InHand, InReader
    <2>2. read = Len(handled) + InHand + Len(inbox) + InReader
      BY DEF OrderInv
    <2>3. hand # 0 => InHand = 1
      BY DEF InHand
    <2> QED
      BY <2>1, <2>2, <2>3
  <1> QED
    BY <1>1 DEF Got, LinkStep, Link!LinkNext, Link!Take

LEMMA BodyTakesAndDelivers == IInv /\ Body => LinkStep
  <1> SUFFICES ASSUME IInv, Body PROVE LinkStep
    OBVIOUS
  <1> USE DEF handshakeVars, deviceVars, readerVars, bodyVars
  <1>1. CASE Lag
    BY <1>1 DEF Lag, Idle, LinkStep, Link!linkVars
  <1>2. CASE EndNote
    <2>1. Len(handled') = Len(handled) + 1 /\ Got' = Got
      BY <1>2, AppendProperties DEF IInv, TypeOK, EndNote, Got
    <2> QED
      BY <1>2, <2>1, HandledIsTaken DEF IInv, EndNote
  <1>3. CASE TakeMessage
    <2>1. /\ phase = "running" /\ phase' # "closed" /\ UNCHANGED <<requests, since, sent>>
          /\ Len(inbox) # 0 /\ Head(inbox) \in Nat
      <3>1. phase' \in {phase, "ending"}
        BY <1>3 DEF TakeMessage, Idle, Write
      <3>2. Head(inbox) \in Nat
        BY <1>3, MessageTaken DEF IInv
      <3>3. Len(inbox) # 0
        BY <1>3, EmptySeq DEF IInv, TypeOK, TakeMessage
      <3> QED
        BY <1>3, <3>1, <3>2, <3>3 DEF TakeMessage, Idle
    <2>2. CASE handled' = handled
      <3>1. UNCHANGED <<phase, out>>
        <4>1. ASSUME handled' = Append(handled, Head(inbox)) PROVE FALSE
          <5>1. Len(handled') = Len(handled) + 1 /\ Len(handled) \in Nat
            BY <2>1, <4>1, AppendProperties DEF IInv, TypeOK
          <5> QED
            BY <2>2, <5>1
        <4> QED
          BY <1>3, <4>1 DEF TakeMessage
      <3> QED
        BY <2>1, <2>2, <3>1 DEF LinkStep, Link!linkVars
    <2>3. CASE handled' = Append(handled, Head(inbox))
      <3>1. Len(handled') = Len(handled) + 1
        BY <2>1, <2>3, AppendProperties DEF IInv, TypeOK
      <3>2. Got' = Got
        <4>1. CASE Write(0)
          BY <4>1, GotGrows DEF IInv
        <4>2. CASE out' = out
          BY <4>2 DEF Got
        <4> QED
          BY <1>3, <4>1, <4>2 DEF TakeMessage
      <3> QED
        BY <2>1, <3>1, <3>2, HandledIsTaken DEF IInv
    <2> QED
      BY <1>3, <2>2, <2>3 DEF TakeMessage
  <1>4. CASE TakeRequest
    <2>1. /\ phase = "running" /\ phase' # "closed"
          /\ UNCHANGED <<requests, since, sent, handled>>
          /\ cursor \in since .. Len(requests)
      <3>1. phase' \in {phase, "ending"}
        BY <1>4 DEF TakeRequest, Idle, Write
      <3> QED
        BY <1>4, <3>1 DEF TakeRequest, Idle, IInv, TypeOK, CursorInv
    <2>2. CASE Got' = Got
      BY <2>1, <2>2 DEF Got, LinkStep, Link!linkVars
    <2>3. CASE requests[cursor] = "mine" /\ Got' = Got \cup {cursor}
      <3>1. ASSUME NEW i \in Got PROVE i \in since .. cursor - 1
        <4>1. PICK k \in DOMAIN out : i = out[k].request /\ i # 0
          BY DEF Got
        <4> QED
          BY <2>1, <4>1 DEF IInv, CommandsInOrder
      <3>2. ASSUME NEW i \in since .. cursor - 1, requests[i] = "mine" PROVE i \in Got
        <4>1. PICK k \in DOMAIN out : out[k].request = i
          BY <2>1, <3>2 DEF IInv, CommandsInOrder
        <4>2. i # 0
          BY <2>1 DEF IInv, TypeOK
        <4> QED
          BY <4>1, <4>2 DEF Got
      <3>3. cursor \notin Got
        BY <2>1, <3>1 DEF IInv, TypeOK
      <3> QED
        BY <2>1, <2>3, <3>2, <3>3 DEF Got, LinkStep, Link!LinkNext, Link!Deliver
    <2>4. CASE requests[cursor] = "mine" /\ Write(cursor)
      <3>1. cursor \in Nat \ {0}
        BY DEF IInv, TypeOK
      <3>2. Got' = Got \/ Got' = Got \cup {cursor}
        BY <2>4, <3>1, GotGrows DEF IInv
      <3> QED
        BY <2>2, <2>3, <2>4, <3>2
    <2>5. CASE out' = out
      BY <2>2, <2>5 DEF Got
    <2> QED
      BY <1>4, <2>4, <2>5 DEF TakeRequest
  <1> QED
    BY <1>1, <1>2, <1>3, <1>4 DEF Body

LEMMA StepIsLinkStep == IInv /\ [Next]_vars => LinkStep
  <1> SUFFICES ASSUME IInv, [Next]_vars PROVE LinkStep
    OBVIOUS
  <1> USE DEF handshakeVars, deviceVars, readerVars, bodyVars
  <1>1. ASSUME NEW whose \in {"mine", "foreign"}, Send(whose) PROVE LinkStep
    BY <1>1 DEF Send, LinkStep, Link!LinkNext, Link!SendTo
  <1>2. CASE Accept
    <2>1. Len(sent') = 0 /\ Len(handled') = 0 /\ Got' = {}
      BY <1>2 DEF Accept, Got
    <2> QED
      BY <1>2, <2>1 DEF Accept, Got, LinkStep, Link!LinkNext, Link!Open
  <1>3. CASE Identify
    BY <1>3 DEF Identify, LinkStep, Link!linkVars
  <1>4. CASE RefuseIdentify \/ Finish
    BY <1>4 DEF RefuseIdentify, Finish, LinkStep, Link!LinkNext, Link!Close
  <1>5. CASE Device
    BY <1>5, DeviceSaysOrNothing DEF IInv
  <1>6. CASE Reader
    BY <1>6 DEF Reader, ReaderAccepts, ReaderStops, ReaderSends, LinkStep, Link!linkVars
  <1>7. CASE Body
    BY <1>7, BodyTakesAndDelivers
  <1>8. CASE UNCHANGED vars
    BY <1>8 DEF vars, LinkStep, Link!linkVars
  <1> QED
    BY <1>1, <1>2, <1>3, <1>4, <1>5, <1>6, <1>7, <1>8 DEF Next

(* Simple connections implement the link: for every size of the inbox and  *)
(* every capacity, what Krypton promises the device, they promise too.     *)
THEOREM SimpleImplementsLink == Spec => LinkImplemented
  <1>1. Init => Link!LinkInit
    <2> SUFFICES ASSUME Init PROVE Link!LinkInit
      OBVIOUS
    <2>1. Got = {} /\ Len(sent) = 0 /\ Len(handled) = 0
      BY DEF Init, Got
    <2> QED
      BY <2>1 DEF Init, Got, Link!LinkInit
  <1>2. IInv /\ [Next]_vars => [Link!LinkNext]_(Link!linkVars)
    BY StepIsLinkStep DEF LinkStep
  <1> QED
    BY <1>1, <1>2, InitIInv, StepIInv, PTL DEF Spec, LinkImplemented, Link!LinkSafe

=============================================================================
