------------------------------- MODULE Scenes -------------------------------
(***************************************************************************)
(* Scenes and single updates, as the clients ask for them (scenes.rs,      *)
(* server_backends/http.rs, tcp.rs, websocket.rs).  The updates of a scene *)
(* are futures that one task polls together (try_join_all), each with its  *)
(* own read guard on the table; the first that fails drops the others      *)
(* wherever they are, with their guards.  An HTTP client that hangs up     *)
(* drops its request in the same way, at any await; a line of a TCP or     *)
(* WebSocket connection is worked off whether its client is still there    *)
(* or not.                                                                 *)
(*                                                                         *)
(* A single update is polled as a scene of one is.  The answers differ: a  *)
(* socket is sent RequestReceived before its update is polled, and an      *)
(* error after that when the update fails; everybody else is answered once *)
(* it is known how the request went.                                       *)
(***************************************************************************)
EXTENDS DeviceLock

CONSTANTS
  Callers,    \* clients, each with a scene, whose updates it also sends singly
  Updates,    \* the updates of all scenes
  CallerOf,   \* whose scene an update is in
  Slow,       \* the updates of devices whose controller waits (Tplink, Govee)
  Remote,     \* the callers that use HTTP; the others have a socket
  Notifiers   \* tasks in process_update_notification

ASSUME ScenesAssumption ==
  /\ Tasks = Updates \cup Notifiers /\ Updates \cap Notifiers = {}
  /\ CallerOf \in [Updates -> Callers]
  /\ Slow \subseteq Updates /\ Remote \subseteq Callers

VARIABLES
  call,    \* how far the request of each caller is
  wanted,  \* the updates it asks for
  single,  \* whether it is a single update and not a scene
  told,    \* what its caller has been answered
  fut,     \* how far each update is
  sent     \* the updates whose command was sent

vars == <<lockVars, call, wanted, single, told, fut, sent>>

Of(c) == {u \in Updates : CallerOf[u] = c}

(* RequestReceived comes before the update. *)
Early(c) == c \notin Remote /\ single[c]

Underway == {"asking", "waiting"}

TypeOK ==
  /\ LockTypeOK
  /\ call \in [Callers -> {"idle", "running", "failing", "gone", "ok", "error"}]
  /\ wanted \in [Callers -> SUBSET Updates] /\ \A c \in Callers : wanted[c] \subseteq Of(c)
  /\ single \in [Callers -> BOOLEAN]
  /\ told \in [Callers -> SUBSET {"received", "failure"}]
  /\ fut \in [Updates -> {"new", "done", "failed", "dropped"} \cup Underway]
  /\ sent \subseteq Updates
  /\ \A u \in Updates : mode[u] = IF fut[u] \in Underway THEN "read" ELSE "none"

Init ==
  /\ LockInit
  /\ call = [c \in Callers |-> "idle"]
  /\ wanted = [c \in Callers |-> {}]
  /\ single = [c \in Callers |-> FALSE]
  /\ told = [c \in Callers |-> {}]
  /\ fut = [u \in Updates |-> "new"]
  /\ sent = {}

Becomes(u, how) == fut' = [fut EXCEPT ![u] = how]
End(c, how, answer) ==
  /\ call' = [call EXCEPT ![c] = how]
  /\ told' = [told EXCEPT ![c] = @ \cup answer]

-----------------------------------------------------------------------------
(* process_scene_activate; the hook of the scene is read by nothing here.  *)
(* A scene that is not configured is an error at once.                     *)
CallScene(c) ==
  /\ call[c] = "idle"
  /\ \/ wanted' = [wanted EXCEPT ![c] = Of(c)] /\ End(c, "running", {})
     \/ UNCHANGED wanted /\ End(c, "error", {"failure"})
  /\ UNCHANGED <<lockVars, single, fut, sent>>

(* UpdateRequest.  A socket whose client is gone fails at the answer, and  *)
(* the update is not made.                                                 *)
CallUpdate(c, u) ==
  /\ call[c] = "idle" /\ u \in Of(c)
  /\ wanted' = [wanted EXCEPT ![c] = {u}]
  /\ single' = [single EXCEPT ![c] = TRUE]
  /\ IF c \in Remote THEN End(c, "running", {})
                     ELSE End(c, "running", {"received"}) \/ End(c, "gone", {})
  /\ UNCHANGED <<lockVars, fut, sent>>

Running(u) == call[CallerOf[u]] = "running" /\ u \in wanted[CallerOf[u]]
callVars == <<call, wanted, single, told>>

(* The first poll of process_update_request: it asks for its guard.        *)
Poll(u) ==
  /\ Running(u) /\ fut[u] = "new"
  /\ Request(u, "read") /\ Becomes(u, "asking")
  /\ UNCHANGED <<callVars, sent>>

(* The device is found, and its controller sends the command. *)
Send(u) ==
  /\ Running(u) /\ fut[u] = "asking" /\ Holds(u)
  /\ sent' = sent \cup {u}
  /\ IF u \in Slow THEN Becomes(u, "waiting") /\ UNCHANGED lockVars
                   ELSE Becomes(u, "done") /\ Release(u)
  /\ UNCHANGED callVars

(* The answer, or the end of the delay. *)
Finish(u) ==
  /\ Running(u) /\ fut[u] = "waiting"
  /\ Becomes(u, "done") /\ Release(u)
  /\ UNCHANGED <<callVars, sent>>

(* A join that waits for all and takes no notice of errors. *)
FailUnnoticed(u) ==
  /\ Running(u) /\ fut[u] \in Underway /\ Holds(u)
  /\ Becomes(u, "done") /\ Release(u)
  /\ UNCHANGED <<callVars, sent>>

(* No such device, no such controller, no such update, no answer in time:  *)
(* the request fails.                                                      *)
Fail(u) ==
  /\ Running(u) /\ fut[u] \in Underway /\ Holds(u)
  /\ Becomes(u, "failed") /\ Release(u)
  /\ call' = [call EXCEPT ![CallerOf[u]] = "failing"]
  /\ UNCHANGED <<wanted, single, told, sent>>

-----------------------------------------------------------------------------
(* An HTTP client hangs up. *)
HangUp(c) ==
  /\ c \in Remote /\ call[c] = "running"
  /\ End(c, "gone", {})
  /\ UNCHANGED <<lockVars, wanted, single, fut, sent>>

Dropped(u) == call[CallerOf[u]] \in {"failing", "gone"}

(* A guard that is kept while a controller waits. *)
DropUnheld(u) ==
  /\ Dropped(u) /\ fut[u] = "asking"
  /\ Becomes(u, "dropped") /\ Leave(u)
  /\ UNCHANGED <<callVars, sent>>

(* A future is dropped, and with it its guard or its place in the queue.   *)
Drop(u) ==
  /\ Dropped(u) /\ fut[u] \in Underway
  /\ Becomes(u, "dropped") /\ Leave(u)
  /\ UNCHANGED <<callVars, sent>>

(* RequestReceived, or nothing more if that was sent before; or an error,  *)
(* which to an HTTP client is the end of its stream or connection.         *)
Answer(c) ==
  /\ \/ /\ call[c] = "running"
        /\ \A u \in wanted[c] : fut[u] = "done"
        /\ End(c, "ok", {"received"})
     \/ /\ call[c] = "failing"
        /\ \A u \in wanted[c] : fut[u] \notin Underway
        /\ End(c, "error", {"failure"})
  /\ UNCHANGED <<lockVars, wanted, single, fut, sent>>

(* The answer cannot be written, which ends the connection. *)
AnswerFails(c) ==
  /\ \/ call[c] = "running" /\ ~Early(c) /\ \A u \in wanted[c] : fut[u] = "done"
     \/ call[c] = "failing" /\ \A u \in wanted[c] : fut[u] \notin Underway
  /\ End(c, "gone", {})
  /\ UNCHANGED <<lockVars, wanted, single, fut, sent>>

(* The client, or another, comes again. *)
Return(c) ==
  /\ call[c] \in {"ok", "error", "gone"}
  /\ \A u \in Of(c) : mode[u] = "none"
  /\ call' = [call EXCEPT ![c] = "idle"]
  /\ wanted' = [wanted EXCEPT ![c] = {}]
  /\ single' = [single EXCEPT ![c] = FALSE]
  /\ told' = [told EXCEPT ![c] = {}]
  /\ fut' = [u \in Updates |-> IF u \in Of(c) THEN "new" ELSE fut[u]]
  /\ sent' = sent \ Of(c)
  /\ UNCHANGED lockVars

-----------------------------------------------------------------------------
(* process_update_notification. *)
Want(n) == Request(n, "write") /\ UNCHANGED <<callVars, fut, sent>>
Write(n) == Release(n) /\ UNCHANGED <<callVars, fut, sent>>

CallerNext(c) ==
  \/ CallScene(c)
  \/ \E u \in Updates : CallUpdate(c, u)
  \/ HangUp(c) \/ Answer(c) \/ AnswerFails(c) \/ Return(c)

Step(u) == Poll(u) \/ Send(u) \/ Finish(u) \/ Fail(u)

Next ==
  \/ \E c \in Callers : CallerNext(c)
  \/ \E u \in Updates : Step(u) \/ Drop(u)
  \/ \E n \in Notifiers : Want(n) \/ Write(n)

(* The task of a connection polls every future of its scene, a controller  *)
(* waits no longer than its timeout or its delay, and a drop is done in    *)
(* one go.                                                                 *)
Spec ==
  /\ Init /\ [][Next]_vars
  /\ \A u \in Updates : WF_vars(Step(u)) /\ WF_vars(Drop(u))
  /\ \A c \in Callers : WF_vars(Answer(c))
  /\ \A n \in Notifiers : WF_vars(Write(n))

-----------------------------------------------------------------------------
(* Properties. *)

(* What a client is told is true.  "RequestReceived", where it comes last, *)
(* says that all updates were sent and none failed, with other scenes and  *)
(* notifications between them; that of a single update over a socket says  *)
(* so only once its line is worked off and no error has followed.  An      *)
(* error means that an update failed, or that nothing was sent.            *)
AnswerIsTrue ==
  \A c \in Callers :
    /\ call[c] = "ok" \/ ("received" \in told[c] /\ ~Early(c)) =>
         \A u \in wanted[c] : u \in sent /\ fut[u] = "done"
    /\ "failure" \in told[c] =>
         (\E u \in wanted[c] : fut[u] = "failed") \/ wanted[c] \cap sent = {}

(* Every request is answered or its connection ends, although its own      *)
(* updates hold the table while others of them queue behind a notification *)
(* that waits for them, and the notifications are recorded.                *)
EveryCallEnds ==
  /\ \A c \in Callers : call[c] \in {"running", "failing"} ~> call[c] \in {"ok", "error", "gone"}
  /\ \A n \in Notifiers : Waits(n) ~> ~Waits(n)

=============================================================================
