---------------------------- MODULE Dependencies ----------------------------
(***************************************************************************)
(* The dependency automation (automations/dependencies.rs): a task that    *)
(* reads the hooks channel and turns the dependency of a device on and off *)
(* with it.  Its own updates are hooks that it reads again, so a           *)
(* dependency may have a dependency.                                       *)
(*                                                                         *)
(* The automation lives as long as the process.  An update it cannot       *)
(* dispatch and a channel it cannot follow end it, start_automations       *)
(* (automations/mod.rs) passes the error on, main (main.rs) returns, and   *)
(* the service manager starts the server again (Restart=always).           *)
(***************************************************************************)
EXTENDS Sequences, Naturals

CONSTANTS
  Ids,        \* all device ids
  Devices,    \* the ids that are configured
  Config,     \* DependencyAutomationConfig
  Capacity,   \* broadcast::channel(16)
  MaxEvents   \* bound: hooks sent by others than the automation

ASSUME DependenciesAssumption ==
  /\ Ids # {} /\ Devices \subseteq Ids
  /\ Config \in Seq([dependent : Ids, dependency : Ids])
  /\ Capacity \in Nat \ {0} /\ MaxEvents \in Nat

VARIABLES
  log,     \* the hooks sent since the server started
  auto,    \* what the automation is doing, or that the server is down
  since,   \* the index in log of the first hook after it subscribed
  next,    \* the index of the hook it takes next
  job,     \* the update it is dispatching
  events   \* hooks sent by others, over all lives of the server

vars == <<log, auto, since, next, job, events>>

(* "Other" is any update but switching, and any state but that of a switch.*)
Powers == {"On", "Off", "Other"}
Updates == [device : Ids, power : {"On", "Off"}]

Hook == [kind : {"dispatch", "state"}, device : Devices, power : Powers, own : BOOLEAN]

TypeOK ==
  /\ log \in Seq(Hook)
  /\ auto \in {"starting", "waiting", "serving", "dispatching", "failed", "down"}
  /\ since \in Nat \ {0} /\ next \in Nat \ {0}
  /\ job \in Updates
  /\ events \in 0 .. MaxEvents

(* A job of no consequence. *)
NoJob == [device |-> CHOOSE d \in Ids : TRUE, power |-> "Off"]

Init ==
  /\ log = <<>> /\ auto = "starting"
  /\ since = 1 /\ next = 1
  /\ job = NoJob /\ events = 0

-----------------------------------------------------------------------------
(* Which update a hook calls for. *)
DependsFirst(i, d) ==
  /\ i \in DOMAIN Config /\ Config[i].dependent = d
  /\ \A j \in 1 .. i - 1 : Config[j].dependent # d

(* config.iter().find() *)
HasDependency(d) == \E i \in DOMAIN Config : DependsFirst(i, d)
Dependency(d) == Config[CHOOSE i \in DOMAIN Config : DependsFirst(i, d)].dependency

(* An automation that takes the Off of a command for the Off of a device.  *)
CallsAlways(hook) == HasDependency(hook.device) /\ hook.power # "Other"

Calls(hook) ==
  /\ HasDependency(hook.device)
  /\ \/ hook.kind = "dispatch" /\ hook.power = "On"
     \/ hook.kind = "state" /\ hook.power \in {"On", "Off"}

-----------------------------------------------------------------------------
(* Clients dispatch updates and devices report states. *)
SendHook(kind, d, p, own) ==
  log' = Append(log, [kind |-> kind, device |-> d, power |-> p, own |-> own])

Happen(kind, d, p) ==
  /\ auto # "down" /\ events < MaxEvents
  /\ SendHook(kind, d, p, FALSE)
  /\ events' = events + 1
  /\ UNCHANGED <<auto, since, next, job>>

(* resubscribe().  Listeners and servers run already (main.rs).            *)
Subscribe ==
  /\ auto = "starting"
  /\ auto' = "waiting"
  /\ since' = Len(log) + 1 /\ next' = Len(log) + 1
  /\ UNCHANGED <<log, job, events>>

Lagged == Len(log) + 1 - next > Capacity

(* An automation that leaves out its own hooks. *)
TakeForeign ==
  /\ auto = "waiting" /\ next <= Len(log) /\ ~Lagged
  /\ next' = next + 1
  /\ IF Calls(log[next]) /\ ~log[next].own
     THEN /\ auto' = "serving"
          /\ job' = [device |-> Dependency(log[next].device), power |-> log[next].power]
     ELSE UNCHANGED <<auto, job>>
  /\ UNCHANGED <<log, since, events>>

Lag ==
  /\ auto = "waiting" /\ Lagged
  /\ auto' = "failed"
  /\ UNCHANGED <<log, since, next, job, events>>

Take ==
  /\ auto = "waiting" /\ next <= Len(log) /\ ~Lagged
  /\ next' = next + 1
  /\ IF Calls(log[next])
     THEN /\ auto' = "serving"
          /\ job' = [device |-> Dependency(log[next].device), power |-> log[next].power]
     ELSE UNCHANGED <<auto, job>>
  /\ UNCHANGED <<log, since, events>>

(* process_update_request has its read guard: the hook is sent and the     *)
(* controller called, or the dependency is not a configured device.        *)
Dispatch ==
  /\ auto = "serving" /\ job.device \in Devices
  /\ SendHook("dispatch", job.device, job.power, TRUE)
  /\ auto' = "dispatching"
  /\ UNCHANGED <<since, next, job, events>>

Refuse ==
  /\ auto = "serving" /\ job.device \notin Devices
  /\ auto' = "failed"
  /\ UNCHANGED <<log, since, next, job, events>>

(* The controller is done: disabled, no such update, no answer, or sent.   *)
EndDispatch ==
  /\ auto = "dispatching"
  /\ auto' \in {"waiting", "failed"}
  /\ job' = NoJob
  /\ UNCHANGED <<log, since, next, events>>

-----------------------------------------------------------------------------
(* A main that does not watch its automations. *)
ExitNever == FALSE /\ UNCHANGED vars

(* start_automations returns the error, then main, and no task goes on.    *)
(* (The process is gone when no hello spins, see Lifecycle.)               *)
Exit ==
  /\ auto = "failed"
  /\ auto' = "down"
  /\ UNCHANGED <<log, since, next, job, events>>

(* Another task of the server fails, or the machine. *)
Crash ==
  /\ auto # "down"
  /\ auto' = "down"
  /\ UNCHANGED <<log, since, next, job, events>>

Restart ==
  /\ auto = "down"
  /\ auto' = "starting" /\ log' = <<>>
  /\ since' = 1 /\ next' = 1 /\ job' = NoJob
  /\ UNCHANGED events

Serve == Subscribe \/ Lag \/ Take \/ Dispatch \/ Refuse \/ EndDispatch \/ Exit

Next ==
  \/ \E kind \in {"dispatch", "state"}, d \in Devices, p \in Powers : Happen(kind, d, p)
  \/ Serve
  \/ Crash \/ Restart

(* The runtime polls the automation and main; requests end (EveryJobEnds   *)
(* of Dispatch).                                                           *)
Spec == Init /\ [][Next]_vars /\ WF_vars(Serve)

-----------------------------------------------------------------------------
(* Properties. *)
CaughtUp == auto = "waiting" /\ next = Len(log) + 1

TurnedOn(i, d) == log[i].device = d /\ log[i].power = "On"
Commands(j, d) == log[j].kind = "dispatch" /\ log[j].device = d

(* Whatever else was going on, for every device that was commanded on or   *)
(* reported on since the automation subscribed, its (first) dependency was *)
(* commanded on afterwards: nothing is lost while the automation           *)
(* dispatches, and chains of dependencies are followed to their end.       *)
OnIsPassedOn ==
  CaughtUp =>
    \A i \in since .. Len(log), d \in Devices :
      TurnedOn(i, d) /\ HasDependency(d) =>
        \E j \in i + 1 .. Len(log) : Commands(j, Dependency(d)) /\ log[j].power = "On"

(* The dependency of only one device, which nobody else commands, is on    *)
(* when that device is: if the last report says the device is on, the last *)
(* command to the dependency is On.  Reports and commands may cross: a     *)
(* late report of Off after a command of On turns the dependency off, but  *)
(* the report of On that follows turns it on again.                        *)
PoweredWhileOn ==
  CaughtUp =>
    \A d \in Devices, i \in since .. Len(log) :
      /\ HasDependency(d)
      /\ \A e \in Ids : HasDependency(e) /\ Dependency(e) = Dependency(d) => e = d
      /\ \A j \in 1 .. Len(log) : Commands(j, Dependency(d)) => log[j].own
      /\ log[i].kind = "state" /\ TurnedOn(i, d)
      /\ \A j \in i + 1 .. Len(log) : ~(log[j].kind = "state" /\ log[j].device = d)
      => \E j \in i + 1 .. Len(log) :
           /\ Commands(j, Dependency(d)) /\ log[j].power = "On"
           /\ \A k \in j + 1 .. Len(log) :
                Commands(k, Dependency(d)) => log[k].power = "On"

(* The automation always gets to the end of what there is to do, chains    *)
(* included when no device depends on itself, or the server stops, for the *)
(* service manager to start it again: it never just stops reacting.        *)
KeepsUpOrRestarts == []<>(CaughtUp \/ auto = "down")

(* "dependencies must be turned on as soon as their dependent is": all of  *)
(* them, if a device has several.                                          *)
EveryDependencyFollows ==
  CaughtUp =>
    \A i \in since .. Len(log), r \in DOMAIN Config :
      TurnedOn(i, Config[r].dependent) =>
        \E j \in i + 1 .. Len(log) :
          Commands(j, Config[r].dependency) /\ log[j].power = "On"

=============================================================================
