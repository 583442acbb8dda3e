--------------------------- MODULE DispatchProofs ---------------------------
(***************************************************************************)
(* Proofs about Dispatch, for every set of devices, tasks and reported     *)
(* states and every configuration of controllers.                          *)
(***************************************************************************)
EXTENDS Dispatch, DeviceLockProofs

(* The guard a task has, or waits for, at each place of its code. *)
ModeAt(place) ==
  IF place \in {"idle", "found", "announce"} THEN "none"
  ELSE IF place = "apply" THEN "write" ELSE "read"

ModeInv == \A t \in Tasks : mode[t] = ModeAt(pc[t])

(* A controller that waits for its device does so with the guard held. *)
HeldInv == \A t \in Tasks : pc[t] \in {"replying", "settling"} => Holds(t)

(* What a notifier is working on is about one of its own devices. *)
NotifierInv ==
  \A n \in Notifiers :
    /\ pc[n] \in {"idle", "lookup", "found", "apply", "announce"}
    /\ pc[n] \in {"found", "apply", "announce"} =>
         job[n].device \in Feeds[n] /\ job[n].what \in States
    /\ pc[n] = "lookup" =>
         \/ job[n].device \in Feeds[n] /\ job[n].what \in States
         \/ job[n].device = Stranger

RequesterInv ==
  \A t \in Requesters :
    pc[t] \in {"idle", "dispatch", "replying", "settling", "reading"}

(* Between its write and its announcement the only notifier of a device    *)
(* carries the state that is in the table.                                 *)
PendingInv ==
  \A n \in Notifiers :
    pc[n] = "announce" /\ SoleFeeder(n, job[n].device) =>
      state[job[n].device] = job[n].what

PlaceInv == ModeInv /\ HeldInv /\ NotifierInv /\ RequesterInv

TableInv == PendingInv /\ AnnouncedIsCurrent

IInv == TypeOK /\ LockInv /\ PlaceInv /\ TableInv

-----------------------------------------------------------------------------
(* Every step of Dispatch is one step of the lock, or none. *)
LEMMA RequesterUsesLock ==
  ASSUME NEW t \in Requesters, RequesterNext(t)
  PROVE  \/ Request(t, "read") /\ pc[t] = "idle"
         \/ Release(t) \/ Cancel(t)
         \/ UNCHANGED lockVars
  BY DEF RequesterNext, BeginUpdate, BeginRead, RefuseUpdate, SendBroadcast,
         SendTplink, SendGovee, TplinkReply, TplinkTimeout, GoveeSettled,
         EndRead, Abandon, Begin, lockVars

LEMMA NotifierUsesLock ==
  ASSUME NEW t \in Notifiers, NotifierNext(t)
  PROVE  \/ \E m \in {"read", "write"} : Request(t, m)
         \/ Release(t)
         \/ UNCHANGED lockVars
  BY DEF NotifierNext, ReceiveSimple, ReceiveOther, Lookup, WantWrite, Apply,
         Announce, lockVars

LEMMA StepUsesLock == [Next]_vars => [LockNext]_lockVars
  <1> SUFFICES ASSUME [Next]_vars PROVE [LockNext]_lockVars
    OBVIOUS
  <1>1. ASSUME NEW t \in Requesters, RequesterNext(t)
        PROVE  [LockNext]_lockVars
    BY <1>1, RequesterUsesLock, TasksAssumption DEF LockNext
  <1>2. ASSUME NEW t \in Notifiers, NotifierNext(t)
        PROVE  [LockNext]_lockVars
    BY <1>2, NotifierUsesLock, TasksAssumption DEF LockNext
  <1>3. CASE UNCHANGED vars
    BY <1>3 DEF vars, lockVars
  <1> QED
    BY <1>1, <1>2, <1>3 DEF Next

-----------------------------------------------------------------------------
LEMMA InitIInv == Init => IInv
  <1> SUFFICES ASSUME Init PROVE IInv
    OBVIOUS
  <1>1. LockInv
    BY LockInitInv DEF Init
  <1>2. TypeOK
    BY <1>1 DEF Init, TypeOK, LockInv, Places, Job, NoJob
  <1>3. PlaceInv
    BY TasksAssumption
    DEF Init, LockInit, PlaceInv, ModeInv, ModeAt, HeldInv, NotifierInv, RequesterInv
  <1>4. TableInv
    BY TasksAssumption DEF Init, TableInv, PendingInv, AnnouncedIsCurrent
  <1> QED
    BY <1>1, <1>2, <1>3, <1>4 DEF IInv

(* The types are kept: what is written to the table comes from a job of a  *)
(* notifier, hence is a reported state.                                    *)
LEMMA StepType == IInv /\ [Next]_vars => TypeOK'
  <1> SUFFICES ASSUME IInv, [Next]_vars PROVE TypeOK'
    OBVIOUS
  <1> USE DEF Goto
  <1>1. LockTypeOK'
    BY StepUsesLock, LockStepInv DEF IInv, LockInv
  <1>2. NoJob \in Job
    BY DEF Job, NoJob
  <1>3. ASSUME NEW t \in Requesters, RequesterNext(t)
        PROVE  TypeOK'
    <2>1. UpdateRequests \subseteq Job
      BY <1>2 DEF UpdateRequests, Job
    <2>2. /\ pc' \in [Tasks -> Places]
          /\ job' \in [Tasks -> Job]
          /\ UNCHANGED tableVars
      BY <1>2, <1>3, <2>1, TasksAssumption
      DEF IInv, TypeOK, RequesterNext, BeginUpdate, BeginRead, RefuseUpdate,
          SendBroadcast, SendTplink, SendGovee, TplinkReply, TplinkTimeout,
          GoveeSettled, EndRead, Abandon, Begin, End, Places, tableVars
    <2> QED
      BY <1>1, <2>2 DEF IInv, TypeOK, tableVars
  <1>4. ASSUME NEW t \in Notifiers, NotifierNext(t)
        PROVE  TypeOK'
    <2>1. Notifications \subseteq Job
      BY <1>2 DEF Notifications, Job
    <2>2. pc' \in [Tasks -> Places] /\ job' \in [Tasks -> Job]
      BY <1>2, <1>4, <2>1, TasksAssumption
      DEF IInv, TypeOK, NotifierNext, ReceiveSimple, ReceiveOther, Lookup,
          WantWrite, Apply, Announce, Begin, End, Places
    <2>3. pc[t] \in {"apply", "announce"} => job[t].what \in States
      BY DEF IInv, PlaceInv, NotifierInv
    <2>4. /\ state' \in [Devices -> States \cup {Unknown}]
          /\ published' \in [Devices -> States \cup {Unknown}]
      BY <1>4, <2>3
      DEF IInv, TypeOK, NotifierNext, ReceiveSimple, ReceiveOther, Lookup,
          WantWrite, Apply, Announce, tableVars
    <2> QED
      BY <1>1, <2>2, <2>4 DEF TypeOK
  <1>5. CASE UNCHANGED vars
    BY <1>5 DEF IInv, TypeOK, LockTypeOK, vars
  <1> QED
    BY <1>3, <1>4, <1>5 DEF Next

(* Places, guards and jobs stay in step. *)
LEMMA StepMode == IInv /\ [Next]_vars => ModeInv'
  <1> SUFFICES ASSUME IInv, [Next]_vars PROVE ModeInv'
    OBVIOUS
  <1> USE DEF Goto, ModeInv, ModeAt, Begin, End, Request, Release, Cancel, Leave
  <1>1. ASSUME NEW t \in Requesters, RequesterNext(t)
        PROVE  ModeInv'
    BY <1>1, TasksAssumption
    DEF IInv, TypeOK, LockTypeOK, PlaceInv, RequesterInv, RequesterNext,
        BeginUpdate, BeginRead, RefuseUpdate, SendBroadcast, SendTplink,
        SendGovee, TplinkReply, TplinkTimeout, GoveeSettled, EndRead, Abandon, Dispatching
  <1>2. ASSUME NEW t \in Notifiers, NotifierNext(t)
        PROVE  ModeInv'
    BY <1>2, TasksAssumption
    DEF IInv, TypeOK, LockTypeOK, PlaceInv, NotifierInv, NotifierNext,
        ReceiveSimple, ReceiveOther, Lookup, WantWrite, Apply, Announce
  <1>3. CASE UNCHANGED vars
    BY <1>3 DEF IInv, PlaceInv, vars
  <1> QED
    BY <1>1, <1>2, <1>3 DEF Next

(* A guard once held stays held (StepNoOvertaking), so a controller that   *)
(* waits keeps its guard whatever the other tasks do.                      *)
LEMMA StepHeld == IInv /\ [Next]_vars => HeldInv'
  <1> SUFFICES ASSUME IInv, [Next]_vars, NEW t \in Tasks,
                      pc'[t] \in {"replying", "settling"}
               PROVE  Holds(t)'
    BY DEF HeldInv
  <1>1. mode'[t] # "none"
    BY StepMode DEF ModeInv, ModeAt
  <1>2. mode[t] # "none" /\ Holds(t)
    <2>1. ASSUME NEW u \in Requesters, RequesterNext(u)
          PROVE  Holds(t)
      BY <2>1, TasksAssumption
      DEF IInv, TypeOK, PlaceInv, HeldInv, RequesterNext, BeginUpdate,
          BeginRead, RefuseUpdate, SendBroadcast, SendTplink, SendGovee,
          TplinkReply, TplinkTimeout, GoveeSettled, EndRead, Abandon, Dispatching,
          Goto, Begin, End
    <2>2. ASSUME NEW u \in Notifiers, NotifierNext(u)
          PROVE  Holds(t)
      BY <2>2, TasksAssumption
      DEF IInv, TypeOK, PlaceInv, HeldInv, NotifierNext, ReceiveSimple,
          ReceiveOther, Lookup, WantWrite, Apply, Announce, Goto, Begin, End
    <2>3. ASSUME UNCHANGED vars
          PROVE  Holds(t)
      BY <2>3 DEF IInv, PlaceInv, HeldInv, vars
    <2>4. Holds(t)
      BY <2>1, <2>2, <2>3 DEF Next
    <2> QED
      BY <2>4 DEF Holds
  <1>3. CASE LockNext
    BY <1>1, <1>2, <1>3, StepNoOvertaking DEF IInv
  <1>4. CASE UNCHANGED lockVars
    BY <1>2, <1>4 DEF Holds, lockVars
  <1> QED
    BY <1>3, <1>4, StepUsesLock

LEMMA StepJobs == IInv /\ [Next]_vars => NotifierInv' /\ RequesterInv'
  <1> SUFFICES ASSUME IInv, [Next]_vars PROVE NotifierInv' /\ RequesterInv'
    OBVIOUS
  <1> USE DEF Goto, Begin, End, NotifierInv, RequesterInv
  <1>1. ASSUME NEW t \in Requesters, RequesterNext(t)
        PROVE  NotifierInv' /\ RequesterInv'
    BY <1>1, TasksAssumption
    DEF IInv, TypeOK, PlaceInv, RequesterNext, BeginUpdate, BeginRead,
        RefuseUpdate, SendBroadcast, SendTplink, SendGovee, TplinkReply,
        TplinkTimeout, GoveeSettled, EndRead, Abandon
  <1>2. ASSUME NEW t \in Notifiers, NotifierNext(t)
        PROVE  NotifierInv' /\ RequesterInv'
    BY <1>2, TasksAssumption, DevicesAssumption
    DEF IInv, TypeOK, PlaceInv, NotifierNext, ReceiveSimple, ReceiveOther,
        Lookup, WantWrite, Apply, Announce, Notifications, NoJob
  <1>3. CASE UNCHANGED vars
    BY <1>3 DEF IInv, PlaceInv, vars
  <1> QED
    BY <1>1, <1>2, <1>3 DEF Next

(* The table and what was announced: a write is owed an announcement, and  *)
(* for the only notifier of a device nothing comes in between.             *)
LEMMA StepTable == IInv /\ [Next]_vars => TableInv'
  <1> SUFFICES ASSUME IInv, [Next]_vars PROVE TableInv'
    OBVIOUS
  <1> USE DEF Goto, Begin, End, TableInv, PendingInv, AnnouncedIsCurrent, SoleFeeder
  <1>1. ASSUME NEW t \in Requesters, RequesterNext(t)
        PROVE  TableInv'
    <2>1. UNCHANGED tableVars
      BY <1>1 DEF RequesterNext, BeginUpdate, BeginRead, RefuseUpdate,
        SendBroadcast, SendTplink, SendGovee, TplinkReply, TplinkTimeout,
        GoveeSettled, EndRead, Abandon, tableVars
    <2>2. \A n \in Notifiers : pc'[n] = pc[n] /\ job'[n] = job[n]
      BY <1>1, TasksAssumption
      DEF IInv, TypeOK, RequesterNext, BeginUpdate, BeginRead, RefuseUpdate,
          SendBroadcast, SendTplink, SendGovee, TplinkReply, TplinkTimeout,
          GoveeSettled, EndRead, Abandon
    <2> QED
      BY <2>1, <2>2 DEF IInv, tableVars
  <1>2. ASSUME NEW n \in Notifiers, ~Apply(n), ~Announce(n), NotifierNext(n)
        PROVE  TableInv'
    <2>1. UNCHANGED tableVars
      BY <1>2 DEF NotifierNext, ReceiveSimple, ReceiveOther, Lookup, WantWrite, tableVars
    <2>2. pc[n] # "announce" /\ pc'[n] # "announce"
      BY <1>2, TasksAssumption
      DEF IInv, TypeOK, NotifierNext, ReceiveSimple, ReceiveOther, Lookup, WantWrite
    <2>3. \A m \in Notifiers \ {n} : pc'[m] = pc[m] /\ job'[m] = job[m]
      BY <1>2, TasksAssumption
      DEF IInv, TypeOK, NotifierNext, ReceiveSimple, ReceiveOther, Lookup, WantWrite
    <2> QED
      BY <2>1, <2>2, <2>3 DEF IInv, tableVars
  <1>3. ASSUME NEW n \in Notifiers, Apply(n)
        PROVE  TableInv'
    <2>1. job[n].device \in Feeds[n] /\ Feeds[n] \subseteq Devices
      BY <1>3, DevicesAssumption DEF Apply, IInv, PlaceInv, NotifierInv
    <2>2. /\ pc' = [pc EXCEPT ![n] = "announce"] /\ UNCHANGED <<job, published>>
          /\ state' = [state EXCEPT ![job[n].device] = job[n].what]
      BY <1>3 DEF Apply
    <2>3. PendingInv'
      <3> SUFFICES ASSUME NEW m \in Notifiers, pc'[m] = "announce",
                          SoleFeeder(m, job[m].device)
                   PROVE  state'[job[m].device] = job[m].what
        BY <2>2
      <3>1. CASE m = n
        BY <2>1, <2>2, <3>1 DEF IInv, TypeOK
      <3>2. CASE m # n
        BY <2>1, <2>2, <3>2, TasksAssumption DEF IInv, TypeOK
      <3> QED
        BY <3>1, <3>2
    <2>4. AnnouncedIsCurrent'
      BY <2>1, <2>2, TasksAssumption DEF IInv, TypeOK
    <2> QED
      BY <2>3, <2>4
  <1>4. ASSUME NEW n \in Notifiers, Announce(n)
        PROVE  TableInv'
    <2>1. job[n].device \in Feeds[n] /\ Feeds[n] \subseteq Devices
      BY <1>4, DevicesAssumption DEF Announce, IInv, PlaceInv, NotifierInv
    <2>2. \A m \in Notifiers \ {n} : pc'[m] = pc[m] /\ job'[m] = job[m]
      BY <1>4, TasksAssumption DEF Announce, IInv, TypeOK
    <2>3. /\ pc[n] = "announce" /\ pc'[n] = "idle" /\ UNCHANGED state
          /\ published' = [published EXCEPT ![job[n].device] = job[n].what]
      BY <1>4, TasksAssumption DEF Announce, IInv, TypeOK
    <2>4. PendingInv'
      BY <2>2, <2>3 DEF IInv
    <2>5. AnnouncedIsCurrent'
      <3> SUFFICES ASSUME NEW d \in Devices,
                          \A k, l \in Notifiers : d \in Feeds[k] /\ d \in Feeds[l] => k = l,
                          \A k \in Notifiers : ~(pc'[k] = "announce" /\ job'[k].device = d)
                   PROVE  published'[d] = state[d]
        BY <2>3
      <3>1. CASE d = job[n].device
        BY <2>1, <2>3, <3>1 DEF IInv, TypeOK
      <3>2. CASE d # job[n].device
        BY <2>2, <2>3, <3>2 DEF IInv, TypeOK
      <3> QED
        BY <3>1, <3>2
    <2> QED
      BY <2>4, <2>5
  <1>5. CASE UNCHANGED vars
    BY <1>5 DEF IInv, vars
  <1> QED
    BY <1>1, <1>2, <1>3, <1>4, <1>5 DEF Next

LEMMA StepIInv == IInv /\ [Next]_vars => IInv'
  <1>1. IInv /\ [Next]_vars => LockInv'
    BY StepUsesLock, LockStepInv DEF IInv
  <1> QED
    BY <1>1, StepType, StepMode, StepHeld, StepJobs, StepTable DEF IInv, PlaceInv

-----------------------------------------------------------------------------
(* The inductive invariant holds in every reachable state. *)
THEOREM Invariant == Spec => []IInv
  BY InitIInv, StepIInv, PTL DEF Spec

(* Every variable keeps its type. *)
THEOREM TypeCorrect == Spec => []TypeOK
  <1>1. IInv => TypeOK
    BY DEF IInv
  <1> QED
    BY <1>1, Invariant, PTL

(* The clients and the table agree about every device with one notifier.   *)
THEOREM AnnouncedStateIsCurrent == Spec => []AnnouncedIsCurrent
  <1>1. IInv => AnnouncedIsCurrent
    BY DEF IInv, TableInv
  <1> QED
    BY <1>1, Invariant, PTL

(* A notifier that writes holds the write guard, a controller that waits   *)
(* holds a read guard: by exclusion never both.                            *)
THEOREM TableIsFrozen == Spec => FrozenWhileDispatching
  <1>1. ASSUME IInv, Next,
               NEW t \in Requesters, pc[t] \in {"replying", "settling"}, pc'[t] = pc[t]
        PROVE  UNCHANGED state
    <2>1. ASSUME NEW n \in Notifiers, Apply(n)
          PROVE  FALSE
      <3>1. t # n /\ t \in Tasks /\ n \in Tasks
        BY TasksAssumption
      <3>2. Holds(t) /\ Holds(n)
        BY <1>1, <2>1, <3>1 DEF IInv, PlaceInv, HeldInv, Apply, Release
      <3>3. mode[n] = "write"
        BY <1>1, <2>1, <3>1 DEF Apply, IInv, PlaceInv, ModeInv, ModeAt
      <3> QED
        BY <1>1, <3>1, <3>2, <3>3, OrderExcludes DEF IInv, Exclusion
    <2>2. ASSUME NEW u \in Requesters, RequesterNext(u)
          PROVE  UNCHANGED state
      BY <2>2 DEF RequesterNext, BeginUpdate, BeginRead, RefuseUpdate,
        SendBroadcast, SendTplink, SendGovee, TplinkReply, TplinkTimeout,
        GoveeSettled, EndRead, Abandon, tableVars
    <2>3. ASSUME NEW n \in Notifiers, ~Apply(n), NotifierNext(n)
          PROVE  UNCHANGED state
      BY <2>3 DEF NotifierNext, ReceiveSimple, ReceiveOther, Lookup, WantWrite,
        Announce, tableVars
    <2> QED
      BY <1>1, <2>1, <2>2, <2>3 DEF Next
  <1>2. IInv /\ [Next]_vars =>
          [(\E t \in Requesters : pc[t] \in {"replying", "settling"} /\ pc'[t] = pc[t])
             => UNCHANGED state]_vars
    BY <1>1
  <1> QED
    BY <1>2, Invariant, PTL DEF Spec, FrozenWhileDispatching

-----------------------------------------------------------------------------
(* The table as StateFeed sees it: a step of the notifiers writes or       *)
(* publishes, every other step leaves the table and what is owed alone.    *)
Owed == [n \in Notifiers |-> IF pc[n] = "announce" THEN job[n] ELSE NoJob]

LEMMA StepFeeds == IInv /\ [Next]_vars => [Feed!FeedNext]_(Feed!feedVars)
  <1> SUFFICES ASSUME IInv, [Next]_vars
               PROVE  Feed!FeedNext \/ UNCHANGED <<state, published, Owed>>
    BY DEF Feed!feedVars, Owed
  <1>1. ASSUME NEW t \in Requesters, RequesterNext(t)
        PROVE  UNCHANGED <<state, published, Owed>>
    <2>1. UNCHANGED tableVars
      BY <1>1 DEF RequesterNext, BeginUpdate, BeginRead, RefuseUpdate,
        SendBroadcast, SendTplink, SendGovee, TplinkReply, TplinkTimeout,
        GoveeSettled, EndRead, Abandon, tableVars
    <2>2. \A n \in Notifiers : pc'[n] = pc[n] /\ job'[n] = job[n]
      BY <1>1, TasksAssumption
      DEF IInv, TypeOK, RequesterNext, BeginUpdate, BeginRead, RefuseUpdate,
          SendBroadcast, SendTplink, SendGovee, TplinkReply, TplinkTimeout,
          GoveeSettled, EndRead, Abandon, Goto, Begin, End
    <2> QED
      BY <2>1, <2>2 DEF tableVars, Owed
  <1>2. ASSUME NEW n \in Notifiers, ~Apply(n), ~Announce(n), NotifierNext(n)
        PROVE  UNCHANGED <<state, published, Owed>>
    <2>1. UNCHANGED tableVars
      BY <1>2 DEF NotifierNext, ReceiveSimple, ReceiveOther, Lookup, WantWrite, tableVars
    <2>2. \A m \in Notifiers : (pc'[m] = pc[m] /\ job'[m] = job[m])
                                \/ (pc[m] # "announce" /\ pc'[m] # "announce")
      BY <1>2, TasksAssumption
      DEF IInv, TypeOK, NotifierNext, ReceiveSimple, ReceiveOther, Lookup,
          WantWrite, Goto, Begin, End
    <2> QED
      BY <2>1, <2>2 DEF tableVars, Owed
  <1>3. ASSUME NEW n \in Notifiers, Apply(n)
        PROVE  Feed!Write(n, job[n].device, job[n].what)
    <2>1. job[n].device \in Feeds[n] /\ pc[n] = "apply"
      BY <1>3 DEF Apply, IInv, PlaceInv, NotifierInv
    <2>2. job[n] \in Job
      BY TasksAssumption DEF IInv, TypeOK
    <2>3. Owed' = [Owed EXCEPT ![n] = job[n]]
      BY <1>3, TasksAssumption DEF Apply, Goto, Owed, IInv, TypeOK
    <2>4. job[n] = [device |-> job[n].device, what |-> job[n].what]
      BY <2>2 DEF Job
    <2> QED
      BY <1>3, <2>1, <2>3, <2>4 DEF Apply, Feed!Write, Owed
  <1>4. ASSUME NEW n \in Notifiers, Announce(n)
        PROVE  Feed!Publish(n)
    <2>1. pc[n] = "announce" /\ job[n].device \in Devices
      BY <1>4, DevicesAssumption DEF Announce, IInv, PlaceInv, NotifierInv
    <2>2. job[n] # NoJob
      BY <2>1, DevicesAssumption DEF NoJob
    <2>3. Owed' = [Owed EXCEPT ![n] = NoJob]
      BY <1>4, TasksAssumption DEF Announce, End, Goto, Owed, IInv, TypeOK
    <2> QED
      BY <1>4, <2>1, <2>2, <2>3 DEF Announce, Feed!Publish, Owed
  <1>5. ASSUME NEW n \in Notifiers, Apply(n)
        PROVE  Feed!FeedNext
    <2>1. job[n].device \in Devices /\ job[n].what \in States
      BY <1>5, DevicesAssumption DEF Apply, IInv, PlaceInv, NotifierInv
    <2>2. \E d \in Devices, s \in States : Feed!Write(n, d, s)
      BY <1>3, <1>5, <2>1 DEF Feed!Write
    <2> QED
      BY <2>2 DEF Feed!FeedNext
  <1>6. CASE UNCHANGED vars
    BY <1>6 DEF vars, Owed
  <1> QED
    BY <1>1, <1>2, <1>4, <1>5, <1>6 DEF Next, Feed!FeedNext

(* Dispatch implements StateFeed: with the lock, the lookups and any       *)
(* number of requests in between, the rest of the program sees a state     *)
(* written to the table and then announced, one at a time per notifier.    *)
THEOREM DispatchFeeds == Spec => FeedImplemented
  <1>1. Init => Feed!FeedInit
    BY TasksAssumption DEF Init, Feed!FeedInit
  <1> QED
    BY <1>1, StepFeeds, Invariant, PTL DEF Spec, FeedImplemented, Feed!FeedSafe

=============================================================================
