------------------------------ MODULE Reports -------------------------------
(***************************************************************************)
(* How the reports of a Tplink or Govee device get into the table: the     *)
(* device answers a query with the state it has, the listener of its       *)
(* controller takes one datagram at a time, looks the device up and hands  *)
(* the state to process_update_notification, which waits until no update   *)
(* holds the table.  (Dispatch has the lock in detail.)                    *)
(*                                                                         *)
(* A report is the index in history of the state it says.  Datagrams may   *)
(* be lost, and a few may overtake the one before them; none is duplicated *)
(* by the network.                                                         *)
(***************************************************************************)
EXTENDS Sequences, Naturals

CONSTANTS
  MaxChanges,   \* bound: changes of the device
  MaxQueries,   \* bound: datagrams under way when a client asks
  MaxRestarts,  \* bound: restarts of the server
  MaxOvertaken  \* bound: datagrams that are overtaken

ASSUME ReportsAssumption ==
  /\ MaxChanges \in Nat /\ MaxQueries \in Nat
  /\ MaxRestarts \in Nat /\ MaxOvertaken \in Nat

VARIABLES
  history,   \* the states the device has had
  toServer,  \* reports on the way to the listener
  hearing,   \* the report the listener is working on, or 0
  seen,      \* the report that was recorded last, or 0
  known,     \* FALSE while the table says DeviceState::Unknown
  lost,      \* whether a report may be missing, as a datagram was lost that
             \* said or asked for it
  overtaken  \* how many datagrams were overtaken

netVars == <<lost, overtaken>>
reportVars == <<history, toServer, hearing, seen, known>>
tableVars == <<hearing, seen, known>>

ReportsTypeOK ==
  /\ toServer \in Seq(1 .. Len(history))
  /\ hearing \in 0 .. Len(history) /\ seen \in 0 .. Len(history)
  /\ known \in BOOLEAN /\ (known => seen # 0)

NetTypeOK == lost \in BOOLEAN /\ overtaken \in 0 .. MaxOvertaken

ReportsInit ==
  /\ toServer = <<>> /\ hearing = 0
  /\ seen = 0 /\ known = FALSE

NetInit == lost = FALSE /\ overtaken = 0

Becomes(s) == history' = Append(history, s)

Report == toServer' = Append(toServer, Len(history))

(* A listener that takes the youngest datagram first. *)
HearYoungest ==
  /\ hearing = 0 /\ toServer # <<>>
  /\ hearing' = toServer[Len(toServer)]
  /\ toServer' = SubSeq(toServer, 1, Len(toServer) - 1)
  /\ UNCHANGED <<history, seen, known>>

Hear ==
  /\ hearing = 0 /\ toServer # <<>>
  /\ hearing' = Head(toServer) /\ toServer' = Tail(toServer)
  /\ UNCHANGED <<history, seen, known>>

(* A listener that notifies although it has no report. *)
RecordUnheard ==
  /\ seen' = hearing /\ known' = TRUE /\ hearing' = 0
  /\ UNCHANGED <<history, toServer>>

(* A listener that only fills in a state that is Unknown. *)
RecordOnce ==
  /\ hearing # 0 /\ hearing' = 0
  /\ seen' = (IF known THEN seen ELSE hearing) /\ known' = TRUE
  /\ UNCHANGED <<history, toServer>>

Record ==
  /\ hearing # 0 /\ hearing' = 0
  /\ seen' = hearing /\ known' = TRUE
  /\ UNCHANGED <<history, toServer>>

(* Lost on the way; the listener logs one it cannot read and goes on,      *)
(* which is the same.                                                      *)
LoseReport(i) ==
  /\ i \in DOMAIN toServer
  /\ toServer' = SubSeq(toServer, 1, i - 1) \o SubSeq(toServer, i + 1, Len(toServer))
  /\ UNCHANGED <<history, hearing, seen, known>>

(* A datagram overtakes the one before it. *)
Swapped(q, i) == [q EXCEPT ![i] = q[i + 1], ![i + 1] = q[i]]

Disordered == overtaken < MaxOvertaken /\ overtaken' = overtaken + 1 /\ UNCHANGED lost

OvertakeReport(i) ==
  /\ i \in 1 .. Len(toServer) - 1
  /\ toServer' = Swapped(toServer, i)
  /\ UNCHANGED <<history, hearing, seen, known>>

=============================================================================
