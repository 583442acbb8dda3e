----------------------------- MODULE DeviceLink -----------------------------
(***************************************************************************)
(* What a controller that keeps connections (Simple, Krypton) promises     *)
(* about one device: on each connection the device gets the requests that  *)
(* were sent to it since the connection was opened, in order and without   *)
(* a gap, once each and none that are for others, and what it says is      *)
(* taken once.  A connection may end at any time, and what it did not      *)
(* deliver or take is lost.                                                *)
(***************************************************************************)
EXTENDS Naturals, Sequences

VARIABLES
  requests,  \* what was sent to the devices of the controller so far
  up,        \* whether the device is connected
  since,     \* the index in requests where the connection was opened
  got,       \* the requests that the device got on this connection
  said,      \* how many messages it sent on this connection
  taken      \* how many of them the controller has done with

linkVars == <<requests, up, since, got, said, taken>>

LinkInit ==
  /\ requests = <<>> /\ up = FALSE /\ since = 1
  /\ got = {} /\ said = 0 /\ taken = 0

SendTo(whose) ==
  /\ requests' = Append(requests, whose)
  /\ UNCHANGED <<up, since, got, said, taken>>

Open ==
  /\ ~up /\ up' = TRUE
  /\ since' = Len(requests) + 1 /\ got' = {}
  /\ said' = 0 /\ taken' = 0
  /\ UNCHANGED requests

Deliver ==
  /\ up
  /\ \E i \in since .. Len(requests) :
       /\ requests[i] = "mine" /\ i \notin got
       /\ \A j \in since .. i - 1 : requests[j] = "mine" => j \in got
       /\ got' = got \cup {i}
  /\ UNCHANGED <<requests, up, since, said, taken>>

Say ==
  /\ up /\ said' = said + 1
  /\ UNCHANGED <<requests, up, since, got, taken>>

(* The last message that is taken may be why the connection is closed. *)
Take ==
  /\ up /\ taken < said /\ taken' = taken + 1
  /\ up' \in BOOLEAN
  /\ UNCHANGED <<requests, since, got, said>>

Close ==
  /\ up /\ up' = FALSE
  /\ UNCHANGED <<requests, since, got, said, taken>>

LinkNext ==
  \/ \E whose \in {"mine", "foreign"} : SendTo(whose)
  \/ Open \/ Deliver \/ Say \/ Take \/ Close

LinkSafe == LinkInit /\ [][LinkNext]_linkVars

=============================================================================
