------------------------------ MODULE StateFeed ------------------------------
(***************************************************************************)
(* What process_update_notification (devices/dispatch.rs) promises to the  *)
(* rest of the program, whatever lock and whatever controllers there are:  *)
(* the state a device reports goes to the table first and is announced on  *)
(* the hooks channel later, in two steps between which anything may        *)
(* happen, and a notifier announces what it wrote before it writes again.  *)
(***************************************************************************)
CONSTANTS
  Notifiers,  \* connections and listeners that report states
  Devices,    \* the configured devices
  Feeds,      \* the devices each notifier reports about
  States,     \* what devices report
  Unknown,    \* DeviceState::Unknown
  Nothing     \* no announcement is owed

ASSUME FeedAssumption ==
  /\ Feeds \in [Notifiers -> SUBSET Devices]
  /\ Nothing \notin [device : Devices, what : States]

VARIABLES
  state,      \* Device::state
  owed,       \* the notification each notifier has written and not announced
  published   \* the state each device was last announced with

feedVars == <<state, owed, published>>

FeedTypeOK ==
  /\ state \in [Devices -> States \cup {Unknown}]
  /\ owed \in [Notifiers -> [device : Devices, what : States] \cup {Nothing}]
  /\ published \in [Devices -> States \cup {Unknown}]

FeedInit ==
  /\ state = [d \in Devices |-> Unknown]
  /\ owed = [n \in Notifiers |-> Nothing]
  /\ published = [d \in Devices |-> Unknown]

Write(n, d, s) ==
  /\ owed[n] = Nothing /\ d \in Feeds[n]
  /\ state' = [state EXCEPT ![d] = s]
  /\ owed' = [owed EXCEPT ![n] = [device |-> d, what |-> s]]
  /\ UNCHANGED published

Publish(n) ==
  /\ owed[n] # Nothing
  /\ published' = [published EXCEPT ![owed[n].device] = owed[n].what]
  /\ owed' = [owed EXCEPT ![n] = Nothing]
  /\ UNCHANGED state

FeedNext ==
  \E n \in Notifiers :
    \/ \E d \in Devices, s \in States : Write(n, d, s)
    \/ Publish(n)

FeedSafe == FeedInit /\ [][FeedNext]_feedVars

(* Only one notifier reports about the device. *)
SolelyFed(d) == \A m, n \in Notifiers : d \in Feeds[m] /\ d \in Feeds[n] => m = n

=============================================================================
