---------------------------- MODULE SimpleSession ----------------------------
(***************************************************************************)
(* A connection of a device that speaks the Simple protocol, and the one   *)
(* that is accepted when it has ended (devices/controllers/simple.rs): the *)
(* accept loop, the handshake, and handle_conn, which is a reader and a    *)
(* body that run concurrently in one task.  The reader checks the messages *)
(* of the device and puts them into an inbox of InboxSize places; the body *)
(* takes messages from the inbox and requests from a broadcast channel.    *)
(* That channel is all that the connections of Simple devices share, so    *)
(* they do not disturb each other and one stands for all.                  *)
(*                                                                         *)
(* The body never learns that the reader stopped, since the reader only    *)
(* borrows the sender of the inbox; and when the body ends, the scope that *)
(* holds both (moro, external) waits for the reader.                       *)
(***************************************************************************)
EXTENDS Sequences, Naturals

CONSTANTS
  InboxSize,    \* mpsc::channel(16)
  Capacity,     \* broadcast::channel(64)
  Modulus,      \* nonces are u32 and wrap
  MaxRequests,  \* bound: commands and queries sent
  MaxMessages   \* bound: messages the device sends on a connection

ASSUME SimpleAssumption ==
  /\ InboxSize \in Nat \ {0} /\ Capacity \in Nat \ {0}
  /\ Modulus \in Nat /\ Modulus > 1
  /\ MaxRequests \in Nat /\ MaxMessages \in Nat

VARIABLES
  requests,   \* what was sent on request_sender so far
  phase,      \* of the connection
  since,      \* the index in requests where the connection subscribed
  cursor,     \* the index of the request it takes next
  given,      \* the nonce the server chose
  firstNonce, \* the nonce the device chose
  sent,       \* the messages the device has sent
  hungUp,     \* whether the device has closed its end
  read,       \* how many of them the reader has accepted
  recvNonce,  \* expected_recv_nonce
  reader,     \* what the reader is doing
  inbox,      \* the channel between reader and body, as indices in sent
  hand,       \* the notification the body is processing, if any
  handled,    \* the messages the body is done with
  sendNonce,  \* send_nonce
  out         \* what was written to the device

handshakeVars == <<phase, since, given, firstNonce>>
deviceVars == <<sent, hungUp>>
readerVars == <<read, recvNonce, reader>>
bodyVars == <<cursor, hand, handled, sendNonce, out>>
vars == <<requests, handshakeVars, deviceVars, readerVars, inbox, bodyVars>>

Nonces == 0 .. Modulus - 1

(* A device counts like this. *)
After(nonce, n) == (nonce + n) % Modulus

(* wrapping_add(1), and an addition that saturates. *)
FollowingSaturated(nonce) == IF nonce = Modulus - 1 THEN nonce ELSE nonce + 1
Following(nonce) == (nonce + 1) % Modulus

(* A request is for this device or another Simple device.  A message is a  *)
(* notification about this device, one that needs no answer, or one that   *)
(* is refused (another identify, a notification about another device).     *)
Kinds == {"note", "other", "refused"}
Message == [kind : Kinds, nonce : Nonces, signed : BOOLEAN]
Written == [request : Nat, nonce : Nonces]  \* 0 for a Failure

TypeOK ==
  /\ requests \in Seq({"mine", "foreign"})
  /\ phase \in {"closed", "greeting", "running", "ending"}
  /\ since \in Nat \ {0} /\ cursor \in Nat \ {0}
  /\ given \in Nonces /\ firstNonce \in Nonces
  /\ sent \in Seq(Message) /\ hungUp \in BOOLEAN
  /\ read \in 0 .. Len(sent) /\ recvNonce \in Nonces
  /\ reader \in {"reading", "sending", "stopped"}
  /\ inbox \in Seq(Nat) /\ Len(inbox) <= InboxSize
  /\ hand \in Nat /\ handled \in Seq(Nat)
  /\ sendNonce \in Nonces /\ out \in Seq(Written)

Init ==
  /\ requests = <<>> /\ phase = "closed"
  /\ since = 1 /\ cursor = 1
  /\ given = 0 /\ firstNonce = 0
  /\ sent = <<>> /\ hungUp = FALSE
  /\ read = 0 /\ recvNonce = 0 /\ reader = "stopped"
  /\ inbox = <<>> /\ hand = 0 /\ handled = <<>>
  /\ sendNonce = 0 /\ out = <<>>

-----------------------------------------------------------------------------
(* send_query, send_update: the controller keeps a receiver, so this never *)
(* fails, and nobody may be connected.                                     *)
Send(whose) ==
  /\ Len(requests) < MaxRequests
  /\ requests' = Append(requests, whose)
  /\ UNCHANGED <<handshakeVars, deviceVars, readerVars, inbox, bodyVars>>

(* The accept loop subscribes before the handshake, so that requests sent  *)
(* during the handshake are kept for the connection.                       *)
Accept ==
  /\ phase = "closed"
  /\ phase' = "greeting"
  /\ since' = Len(requests) + 1 /\ cursor' = Len(requests) + 1
  /\ given' \in Nonces /\ recvNonce' = given'
  /\ sent' = <<>> /\ hungUp' = FALSE /\ read' = 0
  /\ inbox' = <<>> /\ hand' = 0 /\ handled' = <<>> /\ out' = <<>>
  /\ UNCHANGED <<requests, firstNonce, reader, sendNonce>>

(* A connection that starts to listen for requests when the device has     *)
(* identified itself.                                                      *)
IdentifySubscribing ==
  /\ phase = "greeting"
  /\ phase' = "running" /\ reader' = "reading"
  /\ firstNonce' \in Nonces /\ sendNonce' = firstNonce'
  /\ cursor' = Len(requests) + 1
  /\ UNCHANGED <<requests, since, given, deviceVars, read, recvNonce, inbox, hand, handled, out>>

(* The device sends its nonce and identifies itself. *)
Identify ==
  /\ phase = "greeting"
  /\ phase' = "running" /\ reader' = "reading"
  /\ firstNonce' \in Nonces /\ sendNonce' = firstNonce'
  /\ UNCHANGED <<requests, since, given, deviceVars, read, recvNonce, inbox, cursor, hand,
                 handled, out>>

(* The device goes away, sends something else, or is unknown: the socket   *)
(* is shut.  There is no timeout, so it may also stay as it is.            *)
RefuseIdentify ==
  /\ phase = "greeting"
  /\ phase' = "closed"
  /\ UNCHANGED <<requests, since, given, firstNonce, deviceVars, readerVars, inbox, bodyVars>>

-----------------------------------------------------------------------------
(* The device.  It cannot see that a body has ended. *)
Connected == phase \in {"running", "ending"} /\ ~hungUp

(* Message i is what a device that keeps the protocol sends. *)
Genuine(i) == sent[i].signed /\ sent[i].nonce = After(given, i)

(* A repeated nonce and a wrong signature stand for everything else.       *)
DeviceSends(kind, repeats, signed) ==
  /\ Connected /\ Len(sent) < MaxMessages
  /\ LET nonce == After(given, Len(sent) + IF repeats THEN 0 ELSE 1)
     IN  sent' = Append(sent, [kind |-> kind, nonce |-> nonce, signed |-> signed])
  /\ UNCHANGED <<requests, handshakeVars, hungUp, readerVars, inbox, bodyVars>>

DeviceHangsUp ==
  /\ Connected
  /\ hungUp' = TRUE
  /\ UNCHANGED <<requests, handshakeVars, sent, readerVars, inbox, bodyVars>>

-----------------------------------------------------------------------------
(* The reader: read_signed_message, and sender.send. *)
ReaderAccepts ==
  /\ reader = "reading" /\ read < Len(sent)
  /\ recvNonce' = Following(recvNonce)
  /\ sent[read + 1].nonce = recvNonce' /\ sent[read + 1].signed
  /\ read' = read + 1 /\ reader' = "sending"
  /\ UNCHANGED <<requests, handshakeVars, deviceVars, inbox, bodyVars>>

(* A wrong nonce, a wrong signature, or the end of the stream. *)
ReaderStops ==
  /\ reader = "reading"
  /\ recvNonce' = Following(recvNonce)
  /\ IF read < Len(sent)
     THEN ~(sent[read + 1].nonce = recvNonce' /\ sent[read + 1].signed)
     ELSE hungUp
  /\ reader' = "stopped"
  /\ UNCHANGED <<requests, handshakeVars, deviceVars, read, inbox, bodyVars>>

(* A reader that does not wait for a place in the inbox (try_send). *)
ReaderSendsOrDrops ==
  /\ reader = "sending"
  /\ inbox' = IF Len(inbox) < InboxSize THEN Append(inbox, read) ELSE inbox
  /\ reader' = "reading"
  /\ UNCHANGED <<requests, handshakeVars, deviceVars, read, recvNonce, bodyVars>>

ReaderSends ==
  /\ reader = "sending" /\ Len(inbox) < InboxSize
  /\ inbox' = Append(inbox, read) /\ reader' = "reading"
  /\ UNCHANGED <<requests, handshakeVars, deviceVars, read, recvNonce, bodyVars>>

-----------------------------------------------------------------------------
(* The body: select over the inbox and the requests.                       *)
(*                                                                         *)
(* create_signed_message and the write.  A write to a device that hung up  *)
(* may still succeed, or end the body; what is written fits into the       *)
(* socket's buffer.                                                        *)
Write(request) ==
  /\ sendNonce' = Following(sendNonce)
  /\ \/ /\ out' = Append(out, [request |-> request, nonce |-> sendNonce'])
        /\ phase' = phase
     \/ hungUp /\ phase' = "ending" /\ out' = out

Idle == phase = "running" /\ hand = 0

(* The body takes a message: handle_message passes a notification on to    *)
(* process_update_notification, which may wait for the device table,       *)
(* answers what it refuses, and drops the rest.                            *)
TakeMessage ==
  /\ Idle /\ inbox # <<>>
  /\ inbox' = Tail(inbox)
  /\ LET i == Head(inbox) IN
     \/ /\ sent[i].kind = "note" /\ hand' = i
        /\ UNCHANGED <<handled, phase, sendNonce, out>>
     \/ /\ sent[i].kind = "refused" /\ handled' = Append(handled, i)
        /\ Write(0) /\ UNCHANGED hand
     \/ /\ sent[i].kind = "other" /\ handled' = Append(handled, i)
        /\ UNCHANGED <<hand, phase, sendNonce, out>>
  /\ UNCHANGED <<requests, since, given, firstNonce, deviceVars, readerVars, cursor>>

EndNote ==
  /\ phase = "running" /\ hand # 0
  /\ hand' = 0 /\ handled' = Append(handled, hand)
  /\ UNCHANGED <<requests, handshakeVars, deviceVars, readerVars, inbox, cursor, sendNonce, out>>

Lagged == Len(requests) + 1 - cursor > Capacity

(* A nonce counted before the filter, and an off-by-one that leaves the    *)
(* last request where it is.                                               *)
TakeRequestCounting ==
  /\ Idle /\ cursor <= Len(requests) /\ ~Lagged
  /\ cursor' = cursor + 1
  /\ \/ requests[cursor] = "mine" /\ Write(cursor)
     \/ /\ requests[cursor] = "foreign" /\ sendNonce' = Following(sendNonce)
        /\ UNCHANGED <<phase, out>>
  /\ UNCHANGED <<requests, since, given, firstNonce, deviceVars, readerVars, inbox, hand, handled>>

TakeRequestLate ==
  /\ Idle /\ cursor < Len(requests) /\ ~Lagged
  /\ cursor' = cursor + 1
  /\ \/ requests[cursor] = "mine" /\ Write(cursor)
     \/ requests[cursor] = "foreign" /\ UNCHANGED <<phase, sendNonce, out>>
  /\ UNCHANGED <<requests, since, given, firstNonce, deviceVars, readerVars, inbox, hand, handled>>

TakeRequest ==
  /\ Idle /\ cursor <= Len(requests) /\ ~Lagged
  /\ cursor' = cursor + 1
  /\ \/ requests[cursor] = "mine" /\ Write(cursor)
     \/ requests[cursor] = "foreign" /\ UNCHANGED <<phase, sendNonce, out>>
  /\ UNCHANGED <<requests, since, given, firstNonce, deviceVars, readerVars, inbox, hand, handled>>

(* request_receiver.recv() fails: requests were lost. *)
Lag ==
  /\ Idle /\ Lagged
  /\ phase' = "ending"
  /\ UNCHANGED <<requests, since, given, firstNonce, deviceVars, readerVars, inbox, bodyVars>>

-----------------------------------------------------------------------------
(* The scope is done, and the socket is shut. *)
Finish ==
  /\ phase = "ending" /\ reader = "stopped"
  /\ phase' = "closed"
  /\ UNCHANGED <<requests, since, given, firstNonce, deviceVars, readerVars, inbox, bodyVars>>

Device ==
  \/ DeviceHangsUp
  \/ \E kind \in Kinds : DeviceSends(kind, FALSE, TRUE)
  \/ DeviceSends("note", TRUE, TRUE) \/ DeviceSends("note", FALSE, FALSE)
Reader == ReaderAccepts \/ ReaderStops \/ ReaderSends
Body == TakeMessage \/ EndNote \/ Lag \/ TakeRequest

Next ==
  \/ \E whose \in {"mine", "foreign"} : Send(whose)
  \/ Accept \/ Identify \/ RefuseIdentify
  \/ Device \/ Reader \/ Body \/ Finish

(* The runtime polls the task of the connection, which polls the body and  *)
(* the reader; a notification is processed in the end (EveryJobEnds of     *)
(* Dispatch).  The device owes nothing but to read what is written to it.  *)
Spec == Init /\ [][Next]_vars /\ WF_vars(Reader) /\ WF_vars(Body) /\ WF_vars(Finish)

-----------------------------------------------------------------------------
(* Properties. *)
Running == phase \in {"running", "ending"}

(* Every message of the device is counted with the nonce that is expected  *)
(* of it, over the wrap of the counter: the reader accepts exactly what    *)
(* the protocol asks for, up to the first message that is not that, and    *)
(* cuts off no device that keeps the protocol.                             *)
ReaderKeepsProtocol ==
  Running =>
    /\ \A i \in 1 .. read : Genuine(i)
    /\ reader = "stopped" =>
         IF read < Len(sent) THEN ~Genuine(read + 1) ELSE hungUp

(* What the reader has accepted is handled in the order it was sent, each  *)
(* message once: it is done, in the hand of the body, in the inbox, or the *)
(* one that the reader waits to put there, also when the inbox was full.   *)
Once(i) == IF i = 0 THEN <<>> ELSE <<i>>

MessagesInOrder ==
  handled \o Once(hand) \o inbox \o (IF reader = "sending" THEN <<read>> ELSE <<>>)
    = [i \in 1 .. read |-> i]

(* The device gets every command and query that was sent to it since its   *)
(* connection was accepted, those sent during the handshake included, each *)
(* once and in the order they were sent, and no request to another device. *)
CommandsInOrder ==
  phase = "running" =>
    /\ \A i \in since .. cursor - 1 :
         requests[i] = "mine" => \E k \in DOMAIN out : out[k].request = i
    /\ \A k \in DOMAIN out :
         LET i == out[k].request IN
         i # 0 => /\ i \in since .. cursor - 1 /\ requests[i] = "mine"
                  /\ \A l \in 1 .. k - 1 : out[l].request < i

(* Over connections that follow each other, with their nonces, their inbox *)
(* and their two loops, this is the link that the Krypton controller also  *)
(* implements.                                                             *)
Link ==
  INSTANCE DeviceLink WITH
    up <- phase # "closed", got <- {out[k].request : k \in DOMAIN out} \ {0},
    said <- Len(sent), taken <- Len(handled)

LinkImplemented == Link!LinkSafe

(* The messages to the device carry the nonces the device expects, without *)
(* a gap, although the requests of other devices and the answers to        *)
(* refused messages come between: the device would reject the first that   *)
(* does not, and all after it.                                             *)
NoncesInStep == \A k \in DOMAIN out : out[k].nonce = After(firstNonce, k)

(* While the body runs, everything accepted is handled and every request   *)
(* is taken: the two channels of the select do not hold each other up, and *)
(* a reader that waits for a place in the inbox gets it.                   *)
BodyKeepsUp ==
  /\ \A i \in 1 .. MaxMessages :
       (phase = "running" /\ read >= i)
         ~> (phase # "running" \/ \E k \in DOMAIN handled : handled[k] = i)
  /\ \A i \in 1 .. MaxRequests :
       (phase = "running" /\ i \in since .. Len(requests))
         ~> (phase # "running" \/ cursor > i)

(* "processing state update notifications from devices": a notification    *)
(* that a device which keeps the protocol sends on its open connection is  *)
(* processed, unless the connection ends.                                  *)
DeviceIsHeard ==
  \A i \in 1 .. MaxMessages :
    (/\ Running /\ i \in DOMAIN sent /\ sent[i].kind = "note"
     /\ \A j \in DOMAIN sent : Genuine(j))
      ~> (\/ phase = "closed" \/ hungUp
          \/ \E k \in DOMAIN handled : handled[k] = i
          \/ \E j \in DOMAIN sent : ~Genuine(j))

=============================================================================
