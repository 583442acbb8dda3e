---------------------------- MODULE ClientSession ----------------------------
(***************************************************************************)
(* The connections of socket clients (handle_conn and handle_line of       *)
(* server_backends/tcp.rs and websocket.rs, which are the same machine)    *)
(* over the hooks channel (hooks.rs).                                      *)
(*                                                                         *)
(* The channel is a broadcast channel of tokio, external to the            *)
(* repository: a sender never waits, the last Capacity hooks are kept, and *)
(* a receiver that is further behind gets an error, which ends its         *)
(* connection.  A connection waits for a line of its client and for a      *)
(* hook; while it handles a line it takes no hooks, and the updates of its *)
(* own line are hooks too.                                                 *)
(***************************************************************************)
EXTENDS StateFeed, Sequences, Naturals

CONSTANTS
  Clients,
  Capacity,     \* broadcast::channel(16)
  SceneSize,    \* the updates of a scene
  MaxRequests,  \* bound: lines the clients send
  MaxReports    \* bound: states the devices report

ASSUME SessionAssumption ==
  /\ Capacity \in Nat \ {0} /\ SceneSize \in Nat
  /\ MaxRequests \in Nat /\ MaxReports \in Nat

VARIABLES
  log,      \* every hook sent so far; Nothing stands for one that is not a state
  phase,    \* what each connection is doing
  next,     \* the index in log of the hook each connection takes next
  since,    \* the value of next when it subscribed
  seen,     \* the indices of the notifications it relayed to its client
  view,     \* the state its client was last told of each device, or Nothing
  left,     \* the updates of the scene it activates that are still to start
  requests, \* lines sent so far
  reports   \* states reported so far

sessionVars == <<phase, next, since, seen, view, left>>
vars == <<feedVars, log, sessionVars, requests, reports>>

Phases == {"closed", "open", "update", "working", "query", "scene", "updates"}

TypeOK ==
  /\ FeedTypeOK
  /\ log \in Seq([device : Devices, what : States] \cup {Nothing})
  /\ phase \in [Clients -> Phases]
  /\ next \in [Clients -> Nat \ {0}] /\ since \in [Clients -> Nat \ {0}]
  /\ seen \in [Clients -> Seq(Nat)]
  /\ view \in [Clients -> [Devices -> States \cup {Nothing}]]
  /\ left \in [Clients -> 0 .. SceneSize]
  /\ requests \in 0 .. MaxRequests /\ reports \in 0 .. MaxReports

Init ==
  /\ FeedInit
  /\ log = <<>>
  /\ phase = [c \in Clients |-> "closed"]
  /\ next = [c \in Clients |-> 1] /\ since = [c \in Clients |-> 1]
  /\ seen = [c \in Clients |-> <<>>]
  /\ view = [c \in Clients |-> [d \in Devices |-> Nothing]]
  /\ left = [c \in Clients |-> 0]
  /\ requests = 0 /\ reports = 0

Enter(c, place) == phase' = [phase EXCEPT ![c] = place]

-----------------------------------------------------------------------------
(* Devices report. *)
Report(n, d, s) ==
  /\ reports < MaxReports
  /\ Write(n, d, s)
  /\ reports' = reports + 1
  /\ UNCHANGED <<log, sessionVars, requests>>

Announce(n) ==
  /\ Publish(n)
  /\ log' = Append(log, owed[n])
  /\ UNCHANGED <<sessionVars, requests, reports>>

-----------------------------------------------------------------------------
(* Connections. *)

(* TLS is set up, and resubscribe() starts behind the last hook. *)
Connect(c) ==
  /\ phase[c] = "closed"
  /\ Enter(c, "open")
  /\ next' = [next EXCEPT ![c] = Len(log) + 1]
  /\ since' = [since EXCEPT ![c] = Len(log) + 1]
  /\ UNCHANGED <<feedVars, log, seen, view, left, requests, reports>>

(* The connection ends, and with it all that its client can rely on. *)
Close(c) ==
  /\ Enter(c, "closed")
  /\ seen' = [seen EXCEPT ![c] = <<>>]
  /\ view' = [view EXCEPT ![c] = [d \in Devices |-> Nothing]]
  /\ left' = [left EXCEPT ![c] = 0]
  /\ UNCHANGED <<feedVars, log, next, since, requests, reports>>

(* End of stream, a close message, or an error of the socket.  A           *)
(* connection that handles a line notices when it writes its answer.       *)
Disconnect(c) == phase[c] = "open" /\ Close(c)

Lagged(c) == Len(log) + 1 - next[c] > Capacity

(* A connection that carries on with the oldest hook that is left.         *)
LagSkipping(c) ==
  /\ phase[c] = "open" /\ Lagged(c)
  /\ next' = [next EXCEPT ![c] = Len(log) + 1 - Capacity]
  /\ UNCHANGED <<feedVars, log, phase, since, seen, view, left, requests, reports>>

(* recv() returns Lagged, and `event?` ends the connection. *)
Lag(c) == phase[c] = "open" /\ Lagged(c) /\ Close(c)

Pending(c) == phase[c] = "open" /\ next[c] <= Len(log)

Relay(c) ==
  /\ Pending(c) /\ ~Lagged(c)
  /\ next' = [next EXCEPT ![c] = @ + 1]
  /\ LET hook == log[next[c]] IN
       IF hook = Nothing THEN UNCHANGED <<seen, view>>
       ELSE /\ seen' = [seen EXCEPT ![c] = Append(@, next[c])]
            /\ view' = [view EXCEPT ![c][hook.device] = hook.what]
  /\ UNCHANGED <<feedVars, log, phase, since, left, requests, reports>>

-----------------------------------------------------------------------------
(* Lines. *)

(* The connection subscribes again in every round of its loop. *)
ResumeResubscribing(c) ==
  /\ Enter(c, "open")
  /\ next' = [next EXCEPT ![c] = Len(log) + 1]
  /\ left' = [left EXCEPT ![c] = 0]
  /\ UNCHANGED <<feedVars, log, since, seen, view, requests, reports>>

(* The answer goes out and the connection is back in its loop, or its      *)
(* socket fails.                                                           *)
Resume(c) ==
  \/ /\ Enter(c, "open")
     /\ left' = [left EXCEPT ![c] = 0]
     /\ UNCHANGED <<feedVars, log, next, since, seen, view, requests, reports>>
  \/ Close(c)

(* handle_line starts: an update, a scene, or a line that starts neither   *)
(* ("query": a state query, the catalog, one that cannot be read or is not *)
(* implemented).  The answers themselves are left out.                     *)
Receive(c, kind) ==
  /\ phase[c] = "open"
  /\ requests < MaxRequests
  /\ Enter(c, kind)
  /\ requests' = requests + 1
  /\ UNCHANGED <<feedVars, log, next, since, seen, view, left, reports>>

SendHook(c, place) ==
  /\ log' = Append(log, Nothing)
  /\ Enter(c, place)
  /\ UNCHANGED <<feedVars, next, since, seen, view, requests, reports>>

(* process_update_request found the device and sends its hook. *)
BeginUpdate(c) ==
  /\ phase[c] = "update"
  /\ SendHook(c, "working")
  /\ UNCHANGED left

(* "Could not find device id!", or the controller is done, with or without *)
(* an error.  A state query sends no hook, nor does the catalog, which     *)
(* lists the devices without their states.                                 *)
EndLine(c) ==
  /\ phase[c] \in {"update", "working", "query"}
  /\ Resume(c)

ActivateScene(c) ==
  /\ phase[c] = "scene"
  /\ SendHook(c, "updates")
  /\ left' = [left EXCEPT ![c] = SceneSize]

(* The updates of the scene are polled together, in any order. *)
SceneUpdate(c) ==
  /\ phase[c] = "updates" /\ left[c] > 0
  /\ SendHook(c, "updates")
  /\ left' = [left EXCEPT ![c] = @ - 1]

(* All updates are done, or one failed and the others are dropped wherever *)
(* they are; or there is no such scene.                                    *)
EndScene(c) ==
  /\ phase[c] \in {"scene", "updates"}
  /\ Resume(c)

-----------------------------------------------------------------------------
Serve(c) ==
  \/ Lag(c) \/ Relay(c)
  \/ BeginUpdate(c) \/ EndLine(c)
  \/ ActivateScene(c) \/ SceneUpdate(c) \/ EndScene(c)

Next ==
  \/ \E n \in Notifiers :
       \/ \E d \in Devices, s \in States : Report(n, d, s)
       \/ Announce(n)
  \/ \E c \in Clients :
       \/ Connect(c) \/ Disconnect(c)
       \/ \E kind \in {"update", "query", "scene"} : Receive(c, kind)
       \/ Serve(c)

(* The runtime polls ready futures: an announcement follows its write, and *)
(* a connection goes on with its line or takes the next hook.  A line ends *)
(* because requests end (EveryJobEnds of Dispatch).  Clients send finitely *)
(* many lines (MaxRequests), so they cannot keep a connection from its     *)
(* hooks for ever, and they read what is written to them, or their socket  *)
(* fails: a connection whose client does neither waits in its write.       *)
Fairness ==
  /\ \A n \in Notifiers : WF_vars(Announce(n))
  /\ \A c \in Clients : WF_vars(Serve(c))

Spec == Init /\ [][Next]_vars /\ Fairness

-----------------------------------------------------------------------------
(* Properties. *)

(* No silent gap: an open connection has relayed exactly the states        *)
(* announced from its subscription up to the hook it takes next, each once *)
(* and in order, whatever lines it handled in between; a connection that   *)
(* fell behind is closed instead.                                          *)
Gapless ==
  \A c \in Clients :
    phase[c] # "closed" =>
      /\ \A j, k \in 1 .. Len(seen[c]) : j < k => seen[c][j] < seen[c][k]
      /\ {seen[c][k] : k \in 1 .. Len(seen[c])} =
           {i \in since[c] .. next[c] - 1 : log[i] # Nothing}

(* A client that was told about a device and got every hook knows the      *)
(* table, if the device has one notifier: the state it was told last is    *)
(* the state in the table once nothing is on the way, although the table   *)
(* is written before the hook is sent and hooks wait in the channel while  *)
(* lines are handled.  (Two notifiers of one device can announce in the    *)
(* opposite order of their writes, and then it does not hold.)             *)
CaughtUpIsCurrent ==
  \A c \in Clients, d \in Devices :
    /\ view[c][d] # Nothing /\ next[c] = Len(log) + 1
    /\ SolelyFed(d) /\ \A n \in Notifiers : owed[n] = Nothing \/ owed[n].device # d
    => view[c][d] = state[d]

(* A client that stays connected ends up knowing the state in the table of *)
(* every device with one notifier that it was told about.                  *)
ClientEndsUpCurrent ==
  \A c \in Clients, d \in Devices :
    SolelyFed(d) =>
      (<>[](view[c][d] # Nothing) => <>[](view[c][d] = state[d]))

=============================================================================
