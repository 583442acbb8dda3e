------------------------------ MODULE Dispatch ------------------------------
(***************************************************************************)
(* The device table and the two functions that connect clients and         *)
(* devices (devices/dispatch.rs): process_update_request, which hands an   *)
(* update to the controller of a device, and process_update_notification,  *)
(* which records a state a device reported and announces it.               *)
(*                                                                         *)
(* A task is a future that runs one of them.  A requester holds a read     *)
(* guard on the table from the lookup until the controller is done, and    *)
(* two controllers wait while it is held: Tplink for the answer of the     *)
(* device, Govee for a fixed delay.  A notifier (a Simple or Krypton       *)
(* connection, the Tplink or Govee listener) looks the device up under a   *)
(* read guard of its own, drops it, writes the state under a write guard,  *)
(* drops that, and only then announces the state on the hooks channel.     *)
(***************************************************************************)
EXTENDS DeviceLock

CONSTANTS
  Requesters, Notifiers,  \* the two sorts of tasks
  Devices,                \* the configured devices
  Stranger,               \* a device id or address that is not configured
  Controller,             \* the controller each device is configured with
  Enabled,                \* the controllers the configuration switches on
  Feeds,                  \* the devices each notifier reports about
  States,                 \* what devices report
  Unknown                 \* DeviceState::Unknown

Kinds == {"Simple", "Krypton", "Tplink", "Govee"}

(* AttributeUpdate, as far as a controller tells its cases apart. *)
Updates == {"Power", "Brightness", "Other"}

ASSUME TasksAssumption ==
  Tasks = Requesters \cup Notifiers /\ Requesters \cap Notifiers = {}
ASSUME DevicesAssumption ==
  /\ Stranger \notin Devices
  /\ Controller \in [Devices -> Kinds]
  /\ Enabled \subseteq Kinds
  /\ Feeds \in [Notifiers -> SUBSET Devices]

VARIABLES
  pc,         \* where each task is
  job,        \* the request or notification each task works on
  state,      \* Device::state
  published   \* the state the last DeviceStateUpdate hook carried

tableVars == <<state, published>>
vars == <<mode, ahead, pc, job, state, published>>

Job == [device : Devices \cup {Stranger}, what : Updates \cup States \cup {Unknown}]
NoJob == [device |-> Stranger, what |-> Unknown]

Places ==
  {"idle", "dispatch", "replying", "settling", "reading",
   "lookup", "found", "apply", "announce"}

TypeOK ==
  /\ LockTypeOK
  /\ pc \in [Tasks -> Places]
  /\ job \in [Tasks -> Job]
  /\ state \in [Devices -> States \cup {Unknown}]
  /\ published \in [Devices -> States \cup {Unknown}]

Init ==
  /\ LockInit
  /\ pc = [t \in Tasks |-> "idle"]
  /\ job = [t \in Tasks |-> NoJob]
  /\ state = [d \in Devices |-> Unknown]
  /\ published = [d \in Devices |-> Unknown]

Goto(t, place) == pc' = [pc EXCEPT ![t] = place]
Begin(t, place, j) == pc[t] = "idle" /\ Goto(t, place) /\ job' = [job EXCEPT ![t] = j]
End(t) == Goto(t, "idle") /\ job' = [job EXCEPT ![t] = NoJob]

-----------------------------------------------------------------------------
(* Requests. *)

(* build_update_payload of Tplink and Govee; the other two forward all.    *)
Accepts(kind, update) ==
  CASE kind = "Tplink" -> update = "Power"
    [] kind = "Govee" -> update \in {"Power", "Brightness"}
    [] OTHER -> TRUE

BeginUpdate(t, j) ==
  /\ Begin(t, "dispatch", j)
  /\ Request(t, "read")
  /\ UNCHANGED tableVars

Dispatching(t) == pc[t] = "dispatch" /\ Holds(t)

(* The device, once found, and its controller.  The DeviceUpdateDispatch   *)
(* hook of a device that was found is sent in the same step, before the    *)
(* controller may refuse; nothing in this module reads it (Dependencies    *)
(* does).                                                                  *)
SentTo(t, kinds) ==
  /\ job[t].device \in Devices
  /\ Controller[job[t].device] \in kinds \cap Enabled
  /\ Accepts(Controller[job[t].device], job[t].what)

(* "Could not find device id!", "controller is not enabled!", "Unsupported *)
(* update", or a datagram that cannot be sent: an error, and the guard is  *)
(* dropped.                                                                *)
RefuseUpdate(t) ==
  /\ Dispatching(t)
  /\ ~SentTo(t, {"Simple", "Krypton"})
  /\ Release(t)
  /\ End(t)
  /\ UNCHANGED tableVars

(* Simple and Krypton put the command on the channel of their connections  *)
(* and return.                                                             *)
SendBroadcast(t) ==
  /\ Dispatching(t)
  /\ SentTo(t, {"Simple", "Krypton"})
  /\ Release(t)
  /\ End(t)
  /\ UNCHANGED tableVars

(* A Tplink update that drops the guard before it waits for the device. *)
SendTplinkUnguarded(t) ==
  /\ Dispatching(t)
  /\ SentTo(t, {"Tplink"})
  /\ Release(t)
  /\ Goto(t, "replying")
  /\ UNCHANGED <<job, state, published>>

SendTplink(t) ==
  /\ Dispatching(t)
  /\ SentTo(t, {"Tplink"})
  /\ Goto(t, "replying")
  /\ UNCHANGED <<mode, ahead, job, state, published>>

(* The device answers, and the state query is sent when it reports success.*)
TplinkReply(t) ==
  /\ pc[t] = "replying"
  /\ Release(t)
  /\ End(t)
  /\ UNCHANGED tableVars

(* No response_timeout. *)
TplinkWaitsForever(t) == FALSE /\ UNCHANGED vars

(* response_timeout expires: an error, and no query is sent. *)
TplinkTimeout(t) ==
  /\ pc[t] = "replying"
  /\ Release(t)
  /\ End(t)
  /\ UNCHANGED tableVars

SendGovee(t) ==
  /\ Dispatching(t)
  /\ SentTo(t, {"Govee"})
  /\ Goto(t, "settling")
  /\ UNCHANGED <<mode, ahead, job, state, published>>

(* update_query_delay is over and the state query is sent. *)
GoveeSettled(t) ==
  /\ pc[t] = "settling"
  /\ Release(t)
  /\ End(t)
  /\ UNCHANGED tableVars

(* A state query, the query of every device at startup, the catalog and    *)
(* the lookup of a Simple handshake, each a task of its own here, hold a   *)
(* read guard and wait for nothing else.                                   *)
BeginRead(t) ==
  /\ Begin(t, "reading", NoJob)
  /\ Request(t, "read")
  /\ UNCHANGED tableVars

EndRead(t) ==
  /\ pc[t] = "reading"
  /\ Release(t)
  /\ End(t)
  /\ UNCHANGED tableVars

(* The future of a request is dropped wherever it waits: an HTTP client    *)
(* hung up, or another update of its scene failed (scenes.rs).             *)
Abandon(t) ==
  /\ pc[t] # "idle"
  /\ Release(t) \/ Cancel(t)
  /\ End(t)
  /\ UNCHANGED tableVars

-----------------------------------------------------------------------------
(* Notifications. *)

(* A Simple connection knows its device from the handshake and goes        *)
(* straight to process_update_notification.                                *)
ReceiveSimple(t, j) ==
  /\ j.device \in Feeds[t] /\ Controller[j.device] = "Simple"
  /\ Begin(t, "found", j)
  /\ UNCHANGED <<mode, ahead, state, published>>

(* Krypton checks its device in the table, the listeners of Tplink and     *)
(* Govee look for the device with the address of the sender.               *)
ReceiveOther(t, j) ==
  /\ \A d \in Feeds[t] : Controller[d] # "Simple"
  /\ j.device \in Feeds[t] \cup {Stranger}
  /\ Begin(t, "lookup", j)
  /\ Request(t, "read")
  /\ UNCHANGED tableVars

(* The guard is dropped at the end of the lookup.  An unknown sender and a *)
(* payload that cannot be read end here.                                   *)
Lookup(t) ==
  /\ pc[t] = "lookup"
  /\ Release(t)
  /\ \/ job[t].device \in Devices /\ Goto(t, "found") /\ UNCHANGED job
     \/ End(t)
  /\ UNCHANGED tableVars

WantWrite(t) ==
  /\ pc[t] = "found"
  /\ Request(t, "write")
  /\ Goto(t, "apply")
  /\ UNCHANGED <<job, state, published>>

(* A write that keeps a state already known, and one that is never         *)
(* announced.                                                              *)
ApplyOnce(t) ==
  /\ pc[t] = "apply"
  /\ Release(t)
  /\ state' = [state EXCEPT ![job[t].device] = IF @ = Unknown THEN job[t].what ELSE @]
  /\ Goto(t, "announce")
  /\ UNCHANGED <<job, published>>

ApplySilent(t) ==
  /\ pc[t] = "apply"
  /\ Release(t)
  /\ state' = [state EXCEPT ![job[t].device] = job[t].what]
  /\ End(t)
  /\ UNCHANGED published

Apply(t) ==
  /\ pc[t] = "apply"
  /\ Release(t)
  /\ state' = [state EXCEPT ![job[t].device] = job[t].what]
  /\ Goto(t, "announce")
  /\ UNCHANGED <<job, published>>

Announce(t) ==
  /\ pc[t] = "announce"
  /\ published' = [published EXCEPT ![job[t].device] = job[t].what]
  /\ End(t)
  /\ UNCHANGED <<mode, ahead, state>>

-----------------------------------------------------------------------------
(* What a stranger is asked or reports makes no difference. *)
UpdateRequests == [device : Devices, what : Updates] \cup {NoJob}
Notifications == [device : Devices, what : States] \cup {NoJob}

RequesterNext(t) ==
  \/ \E j \in UpdateRequests : BeginUpdate(t, j)
  \/ BeginRead(t)
  \/ RefuseUpdate(t) \/ SendBroadcast(t) \/ SendTplink(t) \/ SendGovee(t)
  \/ TplinkReply(t) \/ TplinkTimeout(t) \/ GoveeSettled(t) \/ EndRead(t)
  \/ Abandon(t)

NotifierNext(t) ==
  \/ \E j \in Notifications : ReceiveSimple(t, j) \/ ReceiveOther(t, j)
  \/ Lookup(t) \/ WantWrite(t) \/ Apply(t) \/ Announce(t)

Next ==
  \/ \E t \in Requesters : RequesterNext(t)
  \/ \E t \in Notifiers : NotifierNext(t)

(* What a task does of its own accord once it has begun: the runtime polls *)
(* every ready future and timers fire.  No answer of a device is owed, and *)
(* nobody has to begin anything.                                           *)
Progress(t) ==
  \/ RefuseUpdate(t) \/ SendBroadcast(t) \/ SendTplink(t) \/ SendGovee(t)
  \/ TplinkTimeout(t) \/ GoveeSettled(t) \/ EndRead(t)
  \/ Lookup(t) \/ WantWrite(t) \/ Apply(t) \/ Announce(t)

Fairness == \A t \in Tasks : WF_vars(Progress(t))

Spec == Init /\ [][Next]_vars /\ Fairness

-----------------------------------------------------------------------------
(* Properties. *)

SoleFeeder(n, d) == \A m \in Notifiers : d \in Feeds[m] => m = n

(* The clients and the table agree: when one notifier reports a device,    *)
(* the last state announced for it is the state in the table, except while *)
(* that notifier is between its write and its announcement.  The two are   *)
(* separate steps with the write guard dropped in between.                 *)
AnnouncedIsCurrent ==
  \A d \in Devices :
    /\ \A m, n \in Notifiers : d \in Feeds[m] /\ d \in Feeds[n] => m = n
    /\ \A n \in Notifiers : ~(pc[n] = "announce" /\ job[n].device = d)
    => published[d] = state[d]

(* A controller works on a table that does not change under it: from the   *)
(* lookup until send_update returns, across the waits of Tplink and Govee, *)
(* no device changes its state.                                            *)
FrozenWhileDispatching ==
  [][(\E t \in Requesters : pc[t] \in {"replying", "settling"} /\ pc'[t] = pc[t])
       => UNCHANGED state]_vars

(* What the connections and automations rely on: seen from outside, the    *)
(* notifiers write a state and then announce it, one state at a time; the  *)
(* lock and the lookups do not show.                                       *)
Feed == INSTANCE StateFeed WITH
  Nothing <- NoJob,
  owed <- [n \in Notifiers |-> IF pc[n] = "announce" THEN job[n] ELSE NoJob]
FeedImplemented == Feed!FeedSafe

(* Every request and every notification comes to its end, whatever the     *)
(* others do and even if no device ever answers.  A future that asked for  *)
(* a guard it has, or waited for one with another in its hand, would hang. *)
EveryJobEnds == \A t \in Tasks : pc[t] # "idle" ~> pc[t] = "idle"

=============================================================================
