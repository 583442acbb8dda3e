---------------------------- MODULE KryptonSession ----------------------------
(***************************************************************************)
(* A connection of a device that speaks the Krypton protocol, and those    *)
(* that are accepted after it (devices/controllers/krypton.rs): the accept *)
(* loop, the hello, the TLS handshake, and the loop of handle_conn, which  *)
(* takes a message of the device or a request, whichever is there.  The    *)
(* broadcast channel of the requests is all that the connections share.    *)
(*                                                                         *)
(* The hello, in which the device says who it is, is read in a loop that   *)
(* does not await: it takes what has arrived, ends with an error when      *)
(* there is nothing yet, and runs on for ever, and with it a worker thread *)
(* of the runtime, when the device has closed its end.  It takes the hello *)
(* off the socket, so that the TLS acceptor waits for another one.         *)
(*                                                                         *)
(* The accept loop runs every connection as a task of its own, and they    *)
(* touch each other through the channel of the requests and the threads    *)
(* only.  The module follows one connection at a time, each accepted after *)
(* the one before it has closed; all the others, of this device or of any, *)
(* run beside it, send what they like and may spin at any time.            *)
(***************************************************************************)
EXTENDS Naturals, Sequences

CONSTANTS
  Capacity,     \* broadcast::channel(64)
  HelloParts,   \* the reads a hello may arrive in
  Workers,      \* worker threads of the runtime
  MaxRequests,  \* bound: requests of clients and other callers
  MaxMessages   \* bound: messages the device sends on a connection

ASSUME KryptonAssumption ==
  /\ Capacity \in Nat \ {0} /\ HelloParts \in Nat \ {0} /\ Workers \in Nat \ {0}
  /\ MaxRequests \in Nat /\ MaxMessages \in Nat

VARIABLES
  requests,  \* what was sent on request_sender so far
  phase,     \* of the connection
  spinning,  \* how many connections have a loop that runs on for ever
  since,     \* the index in requests where the connection subscribed
  cursor,    \* the index of the request it takes next
  got,       \* the requests that were written to the device
  hello,     \* the parts of its hello that the device has sent
  heard,     \* how many of them the server has read
  again,     \* whether the device has sent its hello again
  sent,      \* the messages the device has sent
  hungUp,    \* whether the device has closed its end
  taken,     \* how many messages the connection is done with
  busy       \* whether it is processing a notification

helloVars == <<hello, heard, again>>
deviceVars == <<hello, again, sent, hungUp>>
serveVars == <<cursor, got, taken, busy>>
vars == <<requests, phase, spinning, since, helloVars, sent, hungUp, serveVars>>

(* A message is a notification about this device, one that needs no        *)
(* answer, one that is refused (unreadable, an identify, about another     *)
(* device), or no frame at all.                                            *)
Kinds == {"note", "other", "refused", "broken"}
Phases == {"closed", "hello", "handshake", "serving"}

TypeOK ==
  /\ requests \in Seq({"mine", "foreign"})
  /\ phase \in Phases /\ spinning \in 0 .. Workers
  /\ since \in 1 .. Len(requests) + 1 /\ cursor \in since .. Len(requests) + 1
  /\ got \subseteq since .. cursor - 1
  /\ hello \in 0 .. HelloParts /\ heard \in 0 .. hello /\ again \in BOOLEAN
  /\ sent \in Seq(Kinds) /\ hungUp \in BOOLEAN
  /\ taken \in 0 .. Len(sent) /\ busy \in BOOLEAN /\ (busy => taken < Len(sent))

Init ==
  /\ requests = <<>>
  /\ phase = "closed" /\ spinning = 0
  /\ since = 1 /\ cursor = 1 /\ got = {}
  /\ hello = 0 /\ heard = 0 /\ again = FALSE
  /\ sent = <<>> /\ hungUp = FALSE /\ taken = 0 /\ busy = FALSE

(* A task of the server runs when a thread is left to run it. *)
Runs == spinning < Workers

-----------------------------------------------------------------------------
(* send_query, send_update: the controller keeps a receiver, so this never *)
(* fails, and nobody may be connected.                                     *)
Send(whose) ==
  /\ Runs /\ Len(requests) < MaxRequests
  /\ requests' = Append(requests, whose)
  /\ UNCHANGED <<phase, spinning, since, helloVars, sent, hungUp, serveVars>>

(* The accept loop subscribes before the hello. *)
Accept ==
  /\ Runs /\ phase = "closed"
  /\ phase' = "hello"
  /\ since' = Len(requests) + 1 /\ cursor' = Len(requests) + 1 /\ got' = {}
  /\ hello' = 0 /\ heard' = 0 /\ again' = FALSE
  /\ sent' = <<>> /\ hungUp' = FALSE /\ taken' = 0 /\ busy' = FALSE
  /\ UNCHANGED <<requests, spinning>>

(* handle_conn returns, and the socket is shut. *)
Closes ==
  /\ phase' = "closed" /\ busy' = FALSE
  /\ UNCHANGED <<requests, spinning, since, cursor, got, helloVars, sent, hungUp, taken>>

-----------------------------------------------------------------------------
(* The device, external.  It waits for the answer to its hello. *)
DeviceSendsHello ==
  /\ phase = "hello" /\ ~hungUp
  /\ hello < HelloParts /\ hello' = hello + 1
  /\ UNCHANGED <<requests, phase, spinning, since, heard, again, sent, hungUp, serveVars>>

DeviceRepeatsHello ==
  /\ phase \in {"hello", "handshake"} /\ ~hungUp
  /\ hello = HelloParts /\ ~again /\ again' = TRUE
  /\ UNCHANGED <<requests, phase, spinning, since, hello, heard, sent, hungUp, serveVars>>

DeviceSends(kind) ==
  /\ phase = "serving" /\ ~hungUp
  /\ Len(sent) < MaxMessages /\ sent' = Append(sent, kind)
  /\ UNCHANGED <<requests, phase, spinning, since, helloVars, hungUp, serveVars>>

DeviceHangsUp ==
  /\ phase # "closed" /\ ~hungUp
  /\ hungUp' = TRUE
  /\ UNCHANGED <<requests, phase, spinning, since, helloVars, sent, serveVars>>

-----------------------------------------------------------------------------
(* The loop over try_read and acceptor.accept.                             *)
ReadHello ==
  /\ Runs /\ phase = "hello" /\ heard < hello
  /\ heard' = hello
  /\ phase' = IF heard' = HelloParts THEN "handshake" ELSE "hello"
  /\ UNCHANGED <<requests, spinning, since, deviceVars, serveVars>>

(* try_read fails while nothing has arrived, or as long as the runtime has *)
(* not noticed that something has.                                         *)
ReadNothing ==
  /\ Runs /\ phase = "hello"
  /\ heard = 0 \/ (heard = hello /\ ~hungUp)
  /\ Closes

(* A hello that is no hello, names no device, or one without a certificate *)
RefuseHello == Runs /\ phase = "hello" /\ heard < hello /\ Closes

(* The end of the stream reads as nothing, again and again. *)
ReadEnd ==
  /\ Runs /\ phase = "hello" /\ heard = hello /\ hungUp
  /\ phase' = "closed" /\ spinning' = spinning + 1
  /\ UNCHANGED <<requests, since, deviceVars, heard, serveVars>>

(* The hello of any other connection. *)
ReadEndElsewhere ==
  /\ Runs /\ spinning' = spinning + 1
  /\ UNCHANGED <<requests, phase, since, helloVars, sent, hungUp, serveVars>>

(* TlsAcceptor::accept.  There is no timeout. *)
EndHandshake ==
  /\ Runs /\ phase = "handshake" /\ again /\ ~hungUp
  /\ phase' = "serving"
  /\ UNCHANGED <<requests, spinning, since, helloVars, sent, hungUp, serveVars>>

FailHandshake == Runs /\ phase = "handshake" /\ (again \/ hungUp) /\ Closes

-----------------------------------------------------------------------------
(* The loop of handle_conn. *)
Idle == Runs /\ phase = "serving" /\ ~busy

(* handle_message: a notification is passed on and may wait for the table, *)
(* what is refused is answered, which may fail when the device hung up.    *)
TakeNote ==
  /\ Idle /\ taken < Len(sent) /\ sent[taken + 1] = "note"
  /\ busy' = TRUE
  /\ UNCHANGED <<requests, phase, spinning, since, cursor, got, helloVars, sent, hungUp,
                 taken>>

EndNote ==
  /\ Runs /\ phase = "serving" /\ busy
  /\ busy' = FALSE /\ taken' = taken + 1
  /\ UNCHANGED <<requests, phase, spinning, since, cursor, got, helloVars, sent, hungUp>>

TakeOther ==
  /\ Idle /\ taken < Len(sent) /\ sent[taken + 1] \in {"other", "refused"}
  /\ taken' = taken + 1
  /\ phase' \in {"serving"} \cup
       (IF sent[taken + 1] = "refused" /\ hungUp THEN {"closed"} ELSE {})
  /\ UNCHANGED <<requests, spinning, since, cursor, got, helloVars, sent, hungUp, busy>>

(* The end of the stream, or a broken frame. *)
StreamEnds ==
  /\ Idle
  /\ IF taken < Len(sent) THEN sent[taken + 1] = "broken" ELSE hungUp
  /\ Closes

Lagged == Len(requests) + 1 - cursor > Capacity

(* Requests to others are skipped; a write may fail when the device hung   *)
(* up, which ends the connection.                                          *)
TakeRequest ==
  /\ Idle /\ cursor <= Len(requests) /\ ~Lagged
  /\ cursor' = cursor + 1
  /\ got' = IF requests[cursor] = "mine" THEN got \cup {cursor} ELSE got
  /\ UNCHANGED <<requests, phase, spinning, since, helloVars, sent, hungUp, taken, busy>>

WriteFails ==
  /\ Idle /\ cursor <= Len(requests) /\ ~Lagged
  /\ requests[cursor] = "mine" /\ hungUp
  /\ Closes

(* A receiver that goes on with what is left, and a loop that no longer    *)
(* runs while its connection stays open.                                   *)
LagSkipping ==
  /\ Idle /\ Lagged
  /\ cursor' = Len(requests) + 1 - Capacity
  /\ UNCHANGED <<requests, phase, spinning, since, got, helloVars, sent, hungUp, taken, busy>>

LagDeaf ==
  /\ Idle /\ Lagged
  /\ phase' = "deaf"
  /\ UNCHANGED <<requests, spinning, since, serveVars, helloVars, sent, hungUp>>

(* request_receiver.recv() fails: requests were lost. *)
Lag == Idle /\ Lagged /\ Closes

-----------------------------------------------------------------------------
Device ==
  \/ DeviceSendsHello \/ DeviceRepeatsHello \/ DeviceHangsUp
  \/ \E kind \in Kinds : DeviceSends(kind)

Hello == ReadHello \/ ReadNothing \/ RefuseHello \/ ReadEnd \/ EndHandshake \/ FailHandshake

Messages == TakeNote \/ EndNote \/ TakeOther \/ StreamEnds

Requests == TakeRequest \/ WriteFails \/ Lag

Sends == \E whose \in {"mine", "foreign"} : Send(whose)

Next == Sends \/ Accept \/ Device \/ Hello \/ ReadEndElsewhere \/ Messages \/ Requests

(* The runtime polls its tasks while it has a thread for them; the select  *)
(* polls the stream first.                                                 *)
Spec ==
  /\ Init /\ [][Next]_vars
  /\ WF_vars(Hello) /\ WF_vars(Messages \/ Requests)

-----------------------------------------------------------------------------
(* Properties. *)

(* Over hellos in pieces, refusals, lag and connections that follow each   *)
(* other, a connection delivers the requests that were sent since it was   *)
(* accepted, those sent during the handshake included, in order and        *)
(* without a gap, and takes each message once.                             *)
Link ==
  INSTANCE DeviceLink WITH up <- phase # "closed", said <- Len(sent)

LinkImplemented == Link!LinkSafe

(* "processing state update notifications from devices": what a device     *)
(* sends on its connection is processed unless the connection is closed,   *)
(* and then the device can see that.  It is so as long as the hellos that  *)
(* spin, of whatever connections, leave a thread.                          *)
DeviceIsHeard ==
  \A i \in 1 .. MaxMessages :
    (phase = "serving" /\ i \in DOMAIN sent) ~>
      (phase = "closed" \/ taken >= i \/ spinning = Workers)

=============================================================================
