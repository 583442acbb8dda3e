----------------------------- MODULE DeviceLock -----------------------------
(***************************************************************************)
(* The lock around the device table (devices/mod.rs, type Devices): the    *)
(* reader-writer lock of tokio, external to the repository.  It is fair:   *)
(* requests are served in the order they arrive, so a reader that arrives  *)
(* while a writer waits queues behind that writer, and dropping a pending  *)
(* request takes it out of the queue.  What tokio promises is taken for    *)
(* granted here; the properties are those of its users.                    *)
(*                                                                         *)
(* The queue is kept as the set, for every task in the lock, of the tasks  *)
(* that entered before it and are still there.                             *)
(***************************************************************************)
CONSTANT Tasks

VARIABLES
  mode,    \* what each task asked for: a read guard, a write guard, nothing
  ahead    \* the tasks in the lock that entered it before this one

lockVars == <<mode, ahead>>

LockTypeOK ==
  /\ mode \in [Tasks -> {"none", "read", "write"}]
  /\ ahead \in [Tasks -> SUBSET Tasks]

InLock == {t \in Tasks : mode[t] # "none"}

(* A reader holds its guard once only readers are ahead of it, a writer    *)
(* once nobody is.                                                         *)
Holds(t) ==
  \/ mode[t] = "read" /\ \A u \in ahead[t] : mode[u] = "read"
  \/ mode[t] = "write" /\ ahead[t] = {}

Waits(t) == mode[t] # "none" /\ ~Holds(t)

LockInit ==
  /\ mode = [t \in Tasks |-> "none"]
  /\ ahead = [t \in Tasks |-> {}]

(* First poll of read() or write().  The lock is not reentrant: a task     *)
(* that is in the lock already would wait for itself, so here it gets no   *)
(* further.                                                                *)
Request(t, m) ==
  /\ mode[t] = "none"
  /\ mode' = [mode EXCEPT ![t] = m]
  /\ ahead' = [ahead EXCEPT ![t] = InLock]

Leave(t) ==
  /\ mode' = [mode EXCEPT ![t] = "none"]
  /\ ahead' = [u \in Tasks |-> IF u = t THEN {} ELSE ahead[u] \ {t}]

(* The guard is dropped. *)
Release(t) == Holds(t) /\ Leave(t)

(* The future that waits for the guard is dropped. *)
Cancel(t) == Waits(t) /\ Leave(t)

=============================================================================
