------------------------------- MODULE Mirror -------------------------------
(***************************************************************************)
(* What the device table promises about a device that reports its state    *)
(* over datagrams: Device::state is Unknown or a state that the device had *)
(* at some time, and as long as no datagram overtakes another never one    *)
(* older than what was recorded before, over restarts of the server too.   *)
(* It may lag, and nothing says how much.                                  *)
(***************************************************************************)
EXTENDS Sequences, Naturals

CONSTANT States

VARIABLES
  history,  \* the states the device has had
  seen,     \* the index of the last one that was recorded
  known,    \* FALSE while the table says DeviceState::Unknown
  ordered   \* TRUE until a datagram overtakes another

mirrorVars == <<history, seen, known, ordered>>

MirrorInit ==
  /\ history \in Seq(States) /\ Len(history) = 1
  /\ seen = 0 /\ known = FALSE /\ ordered = TRUE

Change ==
  /\ history' \in Seq(States) /\ Len(history') = Len(history) + 1
  /\ \A i \in DOMAIN history : history'[i] = history[i]
  /\ UNCHANGED <<seen, known, ordered>>

Refresh ==
  /\ seen' \in 1 .. Len(history) /\ (ordered => seen' >= seen)
  /\ known' = TRUE
  /\ UNCHANGED <<history, ordered>>

Forget == known' = FALSE /\ UNCHANGED <<history, seen, ordered>>

Disorder == ordered' = FALSE /\ UNCHANGED <<history, seen, known>>

MirrorSafe == MirrorInit /\ [][Change \/ Refresh \/ Forget \/ Disorder]_mirrorVars

=============================================================================
