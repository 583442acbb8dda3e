---------------------------- MODULE ScenesProofs ----------------------------
(***************************************************************************)
(* Proofs about Scenes, for every set of clients, scenes and controllers.  *)
(***************************************************************************)
EXTENDS Scenes, DeviceLockProofs

(* What the futures of a request say while it runs: all that is done was   *)
(* sent, one that has failed has ended the request, and what is not asked  *)
(* for is not begun.                                                       *)
FutureInv ==
  \A u \in Updates :
    /\ u \notin wanted[CallerOf[u]] => fut[u] = "new"
    /\ fut[u] = "new" => u \notin sent
    /\ fut[u] \in {"waiting", "done"} => u \in sent
    /\ call[CallerOf[u]] = "running" => fut[u] \notin {"failed", "dropped"}

(* A request that is about to be answered with an error has a failed       *)
(* update, and nobody is answered before that but a socket that sent a     *)
(* single update.                                                          *)
CallerInv ==
  \A c \in Callers :
    /\ call[c] = "idle" => wanted[c] = {} /\ ~single[c]
    /\ call[c] = "failing" => \E u \in wanted[c] : fut[u] = "failed"
    /\ "received" \in told[c] => Early(c) \/ call[c] = "ok"
    /\ "failure" \in told[c] => call[c] = "error"

IInv == TypeOK /\ FutureInv /\ CallerInv /\ AnswerIsTrue

-----------------------------------------------------------------------------
(* Every step of a scene is one step of the lock, or none.  A future that  *)
(* is dropped holds its guard or waits for it.                             *)
LEMMA UpdateUsesLock ==
  ASSUME TypeOK, NEW u \in Updates, Step(u) \/ Drop(u)
  PROVE  Request(u, "read") \/ Release(u) \/ Cancel(u) \/ UNCHANGED lockVars
  <1>1. CASE Step(u)
    BY <1>1 DEF Step, Poll, Send, Finish, Fail, lockVars
  <1>2. CASE Drop(u)
    <2>1. mode[u] = "read" /\ Leave(u)
      BY <1>2 DEF TypeOK, Drop
    <2> QED
      BY <2>1 DEF Release, Cancel, Waits
  <1> QED
    BY <1>1, <1>2

LEMMA StepUsesLock == TypeOK /\ [Next]_vars => [LockNext]_lockVars
  <1> SUFFICES ASSUME TypeOK, [Next]_vars PROVE [LockNext]_lockVars
    OBVIOUS
  <1>1. ASSUME NEW c \in Callers, CallerNext(c)
        PROVE  UNCHANGED lockVars
    BY <1>1 DEF CallerNext, CallScene, CallUpdate, HangUp, Answer, AnswerFails, Return
  <1>2. ASSUME NEW u \in Updates, Step(u) \/ Drop(u)
        PROVE  [LockNext]_lockVars
    BY <1>2, UpdateUsesLock, ScenesAssumption DEF LockNext
  <1>3. ASSUME NEW n \in Notifiers, Want(n) \/ Write(n)
        PROVE  [LockNext]_lockVars
    BY <1>3, ScenesAssumption DEF Want, Write, LockNext
  <1>4. CASE UNCHANGED vars
    BY <1>4 DEF vars, lockVars
  <1> QED
    BY <1>1, <1>2, <1>3, <1>4 DEF Next

-----------------------------------------------------------------------------
LEMMA InitIInv == Init => IInv
  <1> SUFFICES ASSUME Init PROVE IInv
    OBVIOUS
  <1>1. TypeOK
    BY ScenesAssumption DEF Init, TypeOK, LockInit, LockTypeOK, Of, Underway
  <1>2. FutureInv /\ CallerInv /\ AnswerIsTrue
    BY ScenesAssumption DEF Init, FutureInv, CallerInv, AnswerIsTrue, Early
  <1> QED
    BY <1>1, <1>2 DEF IInv

(* The types are kept, and with them that a guard is asked for exactly     *)
(* while its future is under way.                                          *)
LEMMA StepType == TypeOK /\ LockInv /\ [Next]_vars => TypeOK'
  <1> SUFFICES ASSUME TypeOK, LockInv, [Next]_vars PROVE TypeOK'
    OBVIOUS
  <1>1. LockTypeOK'
    BY StepUsesLock, LockStepInv DEF LockInv
  <1>2. ASSUME NEW c \in Callers, CallerNext(c), ~Return(c)
        PROVE  TypeOK'
    <2>1. ASSUME NEW how \in {"running", "gone", "ok", "error"},
                 NEW answer \in SUBSET {"received", "failure"}, End(c, how, answer)
          PROVE  /\ call' \in [Callers -> {"idle", "running", "failing", "gone", "ok", "error"}]
                 /\ told' \in [Callers -> SUBSET {"received", "failure"}]
      BY <2>1 DEF End, TypeOK
    <2>2. /\ call' \in [Callers -> {"idle", "running", "failing", "gone", "ok", "error"}]
          /\ told' \in [Callers -> SUBSET {"received", "failure"}]
      BY <1>2, <2>1 DEF CallerNext, CallScene, CallUpdate, HangUp, Answer, AnswerFails
    <2>3. /\ wanted' \in [Callers -> SUBSET Updates]
          /\ \A d \in Callers : wanted'[d] \subseteq Of(d)
          /\ single' \in [Callers -> BOOLEAN]
      <3>1. CASE CallScene(c)
        BY <3>1 DEF CallScene, TypeOK, Of
      <3>2. ASSUME NEW u \in Updates, CallUpdate(c, u)
            PROVE  /\ wanted' \in [Callers -> SUBSET Updates]
                   /\ \A d \in Callers : wanted'[d] \subseteq Of(d)
                   /\ single' \in [Callers -> BOOLEAN]
        <4>1. wanted' = [wanted EXCEPT ![c] = {u}] /\ single' = [single EXCEPT ![c] = TRUE]
          BY <3>2 DEF CallUpdate
        <4>2. u \in Of(c)
          BY <3>2 DEF CallUpdate
        <4> QED
          BY <4>1, <4>2 DEF TypeOK
      <3>3. CASE HangUp(c) \/ Answer(c) \/ AnswerFails(c)
        BY <3>3 DEF HangUp, Answer, AnswerFails, TypeOK
      <3> QED
        BY <1>2, <3>1, <3>2, <3>3 DEF CallerNext
    <2>4. UNCHANGED <<lockVars, fut, sent>>
      BY <1>2 DEF CallerNext, CallScene, CallUpdate, HangUp, Answer, AnswerFails
    <2> QED
      BY <1>1, <2>2, <2>3, <2>4 DEF TypeOK, lockVars, Of
  <1>3. ASSUME NEW c \in Callers, Return(c)
        PROVE  TypeOK'
    BY <1>1, <1>3 DEF TypeOK, Return, lockVars, Of, Underway
  <1>4. ASSUME NEW u \in Updates, Step(u) \/ Drop(u)
        PROVE  TypeOK'
    <2> USE <1>1, ScenesAssumption DEF TypeOK, LockTypeOK, Becomes, callVars, Underway, Running, Of
    <2>1. CASE Poll(u)
      BY <2>1 DEF Poll, Request
    <2>2. CASE Send(u)
      BY <2>2 DEF Send, Release, Leave, lockVars
    <2>3. CASE Finish(u)
      BY <2>3 DEF Finish, Release, Leave
    <2>4. CASE Fail(u)
      BY <2>4 DEF Fail, Release, Leave
    <2>5. CASE Drop(u)
      BY <2>5 DEF Drop, Leave
    <2> QED
      BY <1>4, <2>1, <2>2, <2>3, <2>4, <2>5 DEF Step
  <1>5. ASSUME NEW n \in Notifiers, Want(n) \/ Write(n)
        PROVE  TypeOK'
    <2>1. \A u \in Updates : mode'[u] = mode[u]
      BY <1>5, ScenesAssumption
      DEF TypeOK, LockTypeOK, Want, Write, Request, Release, Leave
    <2> QED
      BY <1>1, <1>5, <2>1 DEF TypeOK, Want, Write, callVars, Of
  <1>6. CASE UNCHANGED vars
    BY <1>6 DEF vars, lockVars, TypeOK, LockTypeOK, Of
  <1> QED
    BY <1>2, <1>3, <1>4, <1>5, <1>6 DEF Next

(* What a step of one update, or of one caller, does to the scenes.        *)
LEMMA StepScenes ==
  IInv /\ [Next]_vars => FutureInv' /\ CallerInv' /\ AnswerIsTrue'
  <1> SUFFICES ASSUME IInv, [Next]_vars
               PROVE  FutureInv' /\ CallerInv' /\ AnswerIsTrue'
    OBVIOUS
  <1> USE ScenesAssumption
      DEF IInv, TypeOK, FutureInv, CallerInv, AnswerIsTrue, Of, Early, End,
          Becomes, Running, callVars, Underway
  <1>1. ASSUME NEW c \in Callers, CallScene(c) \/ \E u \in Updates : CallUpdate(c, u)
        PROVE  FutureInv' /\ CallerInv' /\ AnswerIsTrue'
    <2>1. CASE CallScene(c)
      BY <2>1 DEF CallScene
    <2>2. ASSUME NEW u \in Updates, CallUpdate(c, u)
          PROVE  FutureInv' /\ CallerInv' /\ AnswerIsTrue'
      BY <2>2 DEF CallUpdate
    <2> QED
      BY <1>1, <2>1, <2>2
  <1>2. ASSUME NEW c \in Callers, HangUp(c)
        PROVE  FutureInv' /\ CallerInv' /\ AnswerIsTrue'
    BY <1>2 DEF HangUp
  <1>3. ASSUME NEW c \in Callers, Answer(c) \/ AnswerFails(c)
        PROVE  FutureInv' /\ CallerInv' /\ AnswerIsTrue'
    BY <1>3 DEF Answer, AnswerFails
  <1>4. ASSUME NEW c \in Callers, Return(c)
        PROVE  FutureInv' /\ CallerInv' /\ AnswerIsTrue'
    <2>1. /\ call'[c] = "idle" /\ wanted'[c] = {} /\ ~single'[c] /\ told'[c] = {}
          /\ \A d \in Callers \ {c} : /\ call'[d] = call[d] /\ wanted'[d] = wanted[d]
                                      /\ single'[d] = single[d] /\ told'[d] = told[d]
      BY <1>4 DEF Return
    <2>2. \A u \in Updates :
            IF CallerOf[u] = c THEN fut'[u] = "new" /\ u \notin sent'
                               ELSE fut'[u] = fut[u] /\ (u \in sent' <=> u \in sent)
      BY <1>4 DEF Return
    <2>3. FutureInv'
      BY <2>1, <2>2
    <2>4. CallerInv' /\ AnswerIsTrue'
      BY <2>1, <2>2
    <2> QED
      BY <2>3, <2>4
  <1>5. ASSUME NEW u \in Updates, Poll(u)
        PROVE  FutureInv' /\ CallerInv' /\ AnswerIsTrue'
    BY <1>5 DEF Poll
  <1>6. ASSUME NEW u \in Updates, Send(u)
        PROVE  FutureInv' /\ CallerInv' /\ AnswerIsTrue'
    BY <1>6 DEF Send
  <1>7. ASSUME NEW u \in Updates, Finish(u)
        PROVE  FutureInv' /\ CallerInv' /\ AnswerIsTrue'
    BY <1>7 DEF Finish
  <1>8. ASSUME NEW u \in Updates, Fail(u)
        PROVE  FutureInv' /\ CallerInv' /\ AnswerIsTrue'
    BY <1>8 DEF Fail
  <1>9. ASSUME NEW u \in Updates, Drop(u)
        PROVE  FutureInv' /\ CallerInv' /\ AnswerIsTrue'
    BY <1>9 DEF Drop, Dropped
  <1>10. ASSUME NEW n \in Notifiers, Want(n) \/ Write(n)
         PROVE  FutureInv' /\ CallerInv' /\ AnswerIsTrue'
    BY <1>10 DEF Want, Write
  <1>11. CASE UNCHANGED vars
    BY <1>11 DEF vars
  <1> QED
    BY <1>1, <1>2, <1>3, <1>4, <1>5, <1>6, <1>7, <1>8, <1>9, <1>10, <1>11
    DEF Next, CallerNext, Step

-----------------------------------------------------------------------------
(* The types of Scenes, and the invariants that go with them, hold for     *)
(* every configuration.                                                    *)
THEOREM ScenesInvariant == Spec => [](IInv /\ LockInv)
  <1>1. Init => IInv /\ LockInv
    BY InitIInv, LockInitInv DEF Init
  <1>2. IInv /\ LockInv /\ [Next]_vars => (IInv /\ LockInv)'
    BY StepType, StepScenes, StepUsesLock, LockStepInv DEF IInv
  <1> QED
    BY <1>1, <1>2, PTL DEF Spec

(* A guard is asked for exactly while its update is under way. *)
THEOREM ScenesTypeCorrect == Spec => []TypeOK
  BY ScenesInvariant, PTL DEF IInv

(* What a client is told is true, for all clients and scenes: an update    *)
(* that failed is never passed over, and "RequestReceived" stands for all  *)
(* that was asked, but to a socket whose single update is not yet done.    *)
THEOREM AnswersAreTrue == Spec => []AnswerIsTrue
  BY ScenesInvariant, PTL DEF IInv

=============================================================================
