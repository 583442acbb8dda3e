----------------------------- MODULE Lifecycle -----------------------------
(***************************************************************************)
(* The life of the process: main (main.rs) binds the controllers, starts   *)
(* their listeners, the query of all devices, the server backends and the  *)
(* automations, tells systemd that it is ready, and waits.  A backend or   *)
(* an automation that fails ends the process, which systemd starts again   *)
(* (Restart=always); a listener that fails is logged.                      *)
(*                                                                         *)
(* main runs on a thread of its own, its tasks on the workers of the       *)
(* runtime, and a worker whose Krypton hello spins (KryptonSession) is     *)
(* gone for good.  The runtime is dropped when main returns, which waits   *)
(* for all workers: the process stays up while one spins.                  *)
(***************************************************************************)
EXTENDS Naturals

CONSTANTS
  Servers, Automations,  \* those that may be configured
  Streams, Datagrams,    \* the controllers that accept connections, and the others
  Spinners,              \* the controllers whose hello may spin (Krypton)
  Enabled,               \* the controllers that are configured
  ControllerOf,          \* the controller of each device
  Workers,               \* worker threads of the runtime
  MaxRestarts            \* bound: restarts of the server

Controllers == Streams \cup Datagrams
KnownDevices == DOMAIN ControllerOf
Tasks == Servers \cup Automations

ASSUME LifecycleAssumption ==
  /\ Servers \cap Automations = {} /\ Streams \cap Datagrams = {}
  /\ Enabled \subseteq Controllers /\ ControllerOf \in [KnownDevices -> Controllers]
  /\ Spinners \subseteq Streams /\ Workers \in Nat \ {0} /\ MaxRestarts \in Nat

VARIABLES
  main,       \* how far main is
  listener,   \* of each controller
  connected,  \* the devices that are connected to a controller
  query,      \* what became of the query of each device
  task,       \* each backend and automation
  group,      \* start_servers and start_automations
  spinning,   \* how many workers a hello has taken
  configured, \* the backends and automations of this server
  restarts    \* restarts so far

startVars == <<listener, connected, query, task, group>>
processVars == <<main, startVars, spinning, configured, restarts>>

Steps == {"load", "listen", "query", "servers", "automations", "notify", "wait",
          "stopping", "exited"}
Groups == {"servers", "automations"}
Members(g) == configured \cap (IF g = "servers" THEN Servers ELSE Automations)

ProcessTypeOK ==
  /\ main \in Steps
  /\ listener \in [Controllers -> {"none", "bound", "listening", "failed"}]
  /\ connected \subseteq KnownDevices
  /\ query \in [KnownDevices -> {"none", "due", "reached", "missed"}]
  /\ task \in [Tasks -> {"none", "starting", "up", "failed"}]
  /\ group \in [Groups -> {"none", "running", "failed", "done"}]
  /\ spinning \in 0 .. Workers
  /\ configured \subseteq Tasks /\ restarts \in 0 .. MaxRestarts

ProcessInit ==
  /\ main = "load" /\ restarts = 0 /\ spinning = 0
  /\ listener = [c \in Controllers |-> "none"]
  /\ connected = {} /\ query = [d \in KnownDevices |-> "none"]
  /\ task = [t \in Tasks |-> "none"] /\ group = [g \in Groups |-> "none"]
  /\ configured \in SUBSET Tasks

-----------------------------------------------------------------------------
(* main. *)

(* A main that serves before it has bound, and one that stays when it      *)
(* cannot bind.                                                            *)
LoadLast ==
  /\ main = "load" /\ main' = "servers"
  /\ UNCHANGED <<startVars, spinning, configured, restarts>>

(* load_config, load_devices, Controllers::new: every controller that is   *)
(* enabled binds its socket.                                               *)
Load ==
  /\ main = "load" /\ main' = "listen"
  /\ listener' = [c \in Controllers |-> IF c \in Enabled THEN "bound" ELSE "none"]
  /\ UNCHANGED <<connected, query, task, group, spinning, configured, restarts>>

LoadHangs ==
  /\ main = "load" /\ main' = "failed"
  /\ UNCHANGED <<startVars, spinning, configured, restarts>>

LoadFails ==
  /\ main = "load" /\ main' = "exited"
  /\ UNCHANGED <<startVars, spinning, configured, restarts>>

(* Controllers::start_listening. *)
StartListening ==
  /\ main = "listen" /\ main' = "query"
  /\ listener' = [c \in Controllers |-> IF listener[c] = "bound" THEN "listening" ELSE listener[c]]
  /\ UNCHANGED <<connected, query, task, group, spinning, configured, restarts>>

StartQuery ==
  /\ main = "query" /\ main' = "servers"
  /\ query' = [d \in KnownDevices |-> "due"]
  /\ UNCHANGED <<listener, connected, task, group, spinning, configured, restarts>>

(* start_servers and start_automations. *)
StartGroup(g, next) ==
  /\ main = g /\ main' = next
  /\ task' = [t \in Tasks |-> IF t \in Members(g) THEN "starting" ELSE task[t]]
  /\ group' = [group EXCEPT ![g] = "running"]
  /\ UNCHANGED <<listener, connected, query, spinning, configured, restarts>>

Notify ==
  /\ main = "notify" /\ main' = "wait"
  /\ UNCHANGED <<startVars, spinning, configured, restarts>>

(* A main that takes no notice of errors. *)
ReturnAtEnd ==
  /\ main = "wait"
  /\ \A g \in Groups : group[g] \in {"failed", "done"}
  /\ main' = "stopping"
  /\ UNCHANGED <<startVars, spinning, configured, restarts>>

(* The first group that fails ends main, or the last that is done; tasks   *)
(* end at their next await.                                                *)
Return ==
  /\ main = "wait"
  /\ \/ \E g \in Groups : group[g] = "failed"
     \/ \A g \in Groups : group[g] = "done"
  /\ main' = "stopping"
  /\ UNCHANGED <<startVars, spinning, configured, restarts>>

(* The runtime is dropped, when no worker is in the middle of a task. *)
RuntimeEnds ==
  /\ main = "stopping" /\ spinning = 0
  /\ main' = "exited"
  /\ UNCHANGED <<startVars, spinning, configured, restarts>>

(* Signals and power. *)
Kill ==
  /\ main # "exited" /\ restarts < MaxRestarts
  /\ main' = "exited"
  /\ UNCHANGED <<startVars, spinning, configured, restarts>>

(* systemd. *)
ProcessRestart ==
  /\ main = "exited" /\ restarts < MaxRestarts
  /\ main' = "load" /\ restarts' = restarts + 1 /\ spinning' = 0
  /\ listener' = [c \in Controllers |-> "none"]
  /\ connected' = {} /\ query' = [d \in KnownDevices |-> "none"]
  /\ task' = [t \in Tasks |-> "none"] /\ group' = [g \in Groups |-> "none"]
  /\ UNCHANGED configured

-----------------------------------------------------------------------------
(* The tasks that main has spawned. *)
Runs == main \notin {"stopping", "exited"} /\ spinning < Workers

(* The device of a connection hangs up in its hello. *)
HelloSpins ==
  /\ Runs /\ \E c \in Spinners : listener[c] \in {"listening", "failed"}
  /\ spinning' = spinning + 1
  /\ UNCHANGED <<main, startVars, configured, restarts>>

(* A backend binds its port, an automation begins. *)
ComeUp(t) ==
  /\ Runs /\ task[t] = "starting"
  /\ task' = [task EXCEPT ![t] = "up"]
  /\ UNCHANGED <<main, listener, connected, query, group, spinning, configured, restarts>>

(* It cannot bind, accept, dispatch or follow the hooks, or it panics. *)
TaskFails(t) ==
  /\ Runs /\ task[t] \in {"starting", "up"}
  /\ task' = [task EXCEPT ![t] = "failed"]
  /\ UNCHANGED <<main, listener, connected, query, group, spinning, configured, restarts>>

(* A group that takes no notice of errors. *)
EndGroupUnnoticed(g) ==
  /\ Runs /\ group[g] = "running" /\ Members(g) = {}
  /\ group' = [group EXCEPT ![g] = "done"]
  /\ UNCHANGED <<main, listener, connected, query, task, spinning, configured, restarts>>

(* The JoinSet of a group: the first error ends it, and the other tasks in *)
(* it are aborted; an empty one is done.                                   *)
EndGroup(g) ==
  /\ Runs /\ group[g] = "running"
  /\ \/ /\ \E t \in Members(g) : task[t] = "failed"
        /\ group' = [group EXCEPT ![g] = "failed"]
        /\ task' = [t \in Tasks |-> IF t \in Members(g) /\ task[t] # "failed" THEN "none" ELSE task[t]]
     \/ /\ Members(g) = {}
        /\ group' = [group EXCEPT ![g] = "done"] /\ UNCHANGED task
  /\ UNCHANGED <<main, listener, connected, query, spinning, configured, restarts>>

(* accept fails, and the loop of the controller ends; a Tplink or Govee    *)
(* loop goes on after an error.                                            *)
ListenerFails(c) ==
  /\ Runs /\ c \in Streams /\ listener[c] = "listening"
  /\ listener' = [listener EXCEPT ![c] = "failed"]
  /\ UNCHANGED <<main, connected, query, task, group, spinning, configured, restarts>>

(* A device connects, and subscribes to the requests of its controller. *)
Connect(d) ==
  /\ Runs /\ ControllerOf[d] \in Streams /\ listener[ControllerOf[d]] = "listening"
  /\ d \notin connected /\ connected' = connected \cup {d}
  /\ UNCHANGED <<main, listener, query, task, group, spinning, configured, restarts>>

(* query_all_device_states: a controller that is not enabled, and a send   *)
(* that fails, are logged; a request to a device that is not connected     *)
(* goes nowhere.                                                           *)
Reaches(d) ==
  LET c == ControllerOf[d] IN c \in Enabled /\ (c \in Streams => d \in connected)

(* One that stops at the first error. *)
QueryStopping(d) ==
  /\ Runs /\ query[d] = "due"
  /\ \A e \in KnownDevices : query[e] # "missed"
  /\ \E outcome \in {"missed"} \cup (IF Reaches(d) THEN {"reached"} ELSE {}) :
       query' = [query EXCEPT ![d] = outcome]
  /\ UNCHANGED <<main, listener, connected, task, group, spinning, configured, restarts>>

Query(d) ==
  /\ Runs /\ query[d] = "due"
  /\ \E outcome \in {"missed"} \cup (IF Reaches(d) THEN {"reached"} ELSE {}) :
       query' = [query EXCEPT ![d] = outcome]
  /\ UNCHANGED <<main, listener, connected, task, group, spinning, configured, restarts>>

-----------------------------------------------------------------------------
Main ==
  \/ Load \/ LoadFails \/ StartListening \/ StartQuery
  \/ StartGroup("servers", "automations") \/ StartGroup("automations", "notify")
  \/ Notify \/ Return \/ RuntimeEnds

ProcessNext ==
  \/ Main \/ Kill \/ ProcessRestart \/ HelloSpins
  \/ \E t \in Tasks : ComeUp(t) \/ TaskFails(t)
  \/ \E g \in Groups : EndGroup(g)
  \/ \E c \in Controllers : ListenerFails(c)
  \/ \E d \in KnownDevices : Connect(d) \/ Query(d)

(* The runtime polls main, and its tasks while it has a worker for them,   *)
(* and systemd restarts the process.                                       *)
ProcessSpec ==
  /\ ProcessInit /\ [][ProcessNext]_processVars
  /\ WF_processVars(Main) /\ WF_processVars(ProcessRestart)
  /\ \A t \in Tasks : WF_processVars(ComeUp(t))
  /\ \A g \in Groups : WF_processVars(EndGroup(g))
  /\ \A d \in KnownDevices : WF_processVars(Query(d))

-----------------------------------------------------------------------------
(* Properties. *)

(* Nothing uses a controller that is not there yet: before a device is     *)
(* queried, a client is served, or an automation acts, every controller    *)
(* that is enabled is bound, over restarts too; so what devices answer to  *)
(* the first query waits at a socket.                                      *)
BoundBeforeUse ==
  (\E t \in Tasks : task[t] # "none") \/ (\E d \in KnownDevices : query[d] # "none")
    => \A c \in Enabled : listener[c] # "none"

(* A backend or an automation that fails takes the process down, also      *)
(* while main is still starting, and though others go on, so that systemd  *)
(* starts it again: the process does not stay up without it, unless a      *)
(* hello spins, which no return of main ends.                              *)
FailureEndsProcess ==
  \A t \in Tasks : task[t] = "failed" ~> main = "exited" \/ spinning # 0

Stops == main \in {"stopping", "exited"} \/ spinning = Workers

(* systemd is told that the server is ready before its backends have bound *)
(* their ports.  That becomes true: every backend and automation that is   *)
(* configured comes up, or the process stops.                              *)
ReadyBecomesTrue ==
  \A t \in Tasks : main = "wait" /\ t \in configured ~> task[t] = "up" \/ Stops

(* The state of every device is queried after a start, although the query  *)
(* of another device fails or its controller is not enabled, unless the    *)
(* process stops.                                                          *)
EveryDeviceIsQueried ==
  \A d \in KnownDevices : query[d] = "due" ~> query[d] \in {"reached", "missed"} \/ Stops

=============================================================================
