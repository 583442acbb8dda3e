-------------------------- MODULE DeviceLockProofs --------------------------
(***************************************************************************)
(* Lemmas about the lock around the device table, for every set of tasks:  *)
(* what the proofs about its users take from tokio.                        *)
(***************************************************************************)
EXTENDS DeviceLock, TLAPS

(* What a step of a user is to the lock. *)
LockNext ==
  \E t \in Tasks :
    \/ \E m \in {"read", "write"} : Request(t, m)
    \/ Release(t)
    \/ Cancel(t)

(* The tasks in the lock are totally ordered by arrival, and a task's      *)
(* predecessors are exactly the ones still in the lock.                    *)
LockOrder ==
  /\ \A t \in Tasks : ahead[t] \subseteq InLock \ {t}
  /\ \A t \in Tasks : mode[t] = "none" => ahead[t] = {}
  /\ \A t, u \in InLock : t # u => (t \in ahead[u] <=> u \notin ahead[t])

LockInv == LockTypeOK /\ LockOrder

(* Every operation of the lock keeps the arrival order. *)
LEMMA LockInitInv == LockInit => LockInv
  BY DEF LockInit, LockInv, LockTypeOK, LockOrder, InLock

LEMMA RequestInv ==
  ASSUME LockInv, NEW t \in Tasks, NEW m \in {"read", "write"}, Request(t, m)
  PROVE  LockInv'
  <1>1. LockTypeOK'
    BY DEF LockInv, LockTypeOK, Request, InLock
  <1>2. InLock' = InLock \cup {t} /\ t \notin InLock
    BY DEF LockInv, LockTypeOK, Request, InLock
  <1>3. \A u \in Tasks : ahead'[u] = IF u = t THEN InLock ELSE ahead[u]
    BY DEF LockInv, LockTypeOK, Request
  <1>4. LockOrder'
    BY <1>2, <1>3 DEF LockInv, LockTypeOK, LockOrder, Request, InLock
  <1> QED
    BY <1>1, <1>4 DEF LockInv

LEMMA LeaveInv ==
  ASSUME LockInv, NEW t \in Tasks, Leave(t)
  PROVE  LockInv'
  <1>1. LockTypeOK'
    BY DEF LockInv, LockTypeOK, Leave
  <1>2. InLock' = InLock \ {t}
    BY DEF LockInv, LockTypeOK, Leave, InLock
  <1>3. \A u \in Tasks : ahead'[u] = IF u = t THEN {} ELSE ahead[u] \ {t}
    BY DEF LockInv, LockTypeOK, Leave
  <1>4. LockOrder'
    BY <1>2, <1>3 DEF LockInv, LockTypeOK, LockOrder, Leave, InLock
  <1> QED
    BY <1>1, <1>4 DEF LockInv

LEMMA LockStepInv == LockInv /\ [LockNext]_lockVars => LockInv'
  <1> SUFFICES ASSUME LockInv, [LockNext]_lockVars PROVE LockInv'
    OBVIOUS
  <1>1. ASSUME NEW t \in Tasks, NEW m \in {"read", "write"}, Request(t, m)
        PROVE  LockInv'
    BY <1>1, RequestInv
  <1>2. ASSUME NEW t \in Tasks, Release(t) \/ Cancel(t)
        PROVE  LockInv'
    BY <1>2, LeaveInv DEF Release, Cancel
  <1>3. CASE UNCHANGED lockVars
    BY <1>3 DEF lockVars, LockInv, LockTypeOK, LockOrder, InLock
  <1> QED
    BY <1>1, <1>2, <1>3 DEF LockNext

(* A write guard excludes every other guard. *)
Exclusion ==
  \A t, u \in Tasks :
    t # u /\ Holds(t) /\ Holds(u) => mode[t] = "read" /\ mode[u] = "read"

(* Of two tasks one arrived first, so a writer at the head excludes every  *)
(* guard, and a reader with only readers ahead excludes every writer.      *)
LEMMA OrderExcludes == LockInv => Exclusion
  <1> SUFFICES ASSUME LockInv, NEW t \in Tasks, NEW u \in Tasks,
                      t # u, Holds(t), Holds(u)
               PROVE  mode[t] = "read"
    BY DEF Exclusion
  <1>1. t \in InLock /\ u \in InLock
    BY DEF Holds, InLock
  <1>2. CASE t \in ahead[u]
    BY <1>2 DEF Holds
  <1>3. CASE u \in ahead[t]
    BY <1>3 DEF Holds
  <1> QED
    BY <1>1, <1>2, <1>3 DEF LockInv, LockOrder

(* No step of the lock lets a task overtake another or takes a guard away  *)
(* from its holder.                                                        *)
LEMMA StepNoOvertaking ==
  ASSUME LockInv, LockNext, NEW t \in Tasks,
         mode[t] # "none", mode'[t] # "none"
  PROVE  ahead'[t] \subseteq ahead[t] /\ (Holds(t) => Holds(t)')
  <1>1. ASSUME NEW u \in Tasks, NEW m \in {"read", "write"}, Request(u, m)
        PROVE  ahead'[t] = ahead[t] /\ mode'[t] = mode[t] /\ u \notin ahead[t]
    BY <1>1 DEF Request, LockInv, LockTypeOK, LockOrder, InLock
  <1>2. ASSUME NEW u \in Tasks, NEW m \in {"read", "write"}, Request(u, m)
        PROVE  \A v \in ahead[t] : mode'[v] = mode[v]
    BY <1>1, <1>2 DEF Request, LockInv, LockTypeOK
  <1>3. ASSUME NEW u \in Tasks, Leave(u)
        PROVE  /\ ahead'[t] = ahead[t] \ {u}
               /\ mode'[t] = mode[t]
               /\ \A v \in ahead'[t] : mode'[v] = mode[v]
    BY <1>3 DEF Leave, LockInv, LockTypeOK
  <1>4. CASE \E u \in Tasks, m \in {"read", "write"} : Request(u, m)
    BY <1>1, <1>2, <1>4 DEF Holds
  <1>5. CASE \E u \in Tasks : Leave(u)
    BY <1>3, <1>5 DEF Holds
  <1> QED
    BY <1>4, <1>5 DEF LockNext, Release, Cancel

=============================================================================
