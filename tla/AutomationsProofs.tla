------------------------- MODULE AutomationsProofs --------------------------
(***************************************************************************)
(* Proofs about the automations and the process they run in: Dependencies, *)
(* for every list of relationships, every set of devices and every         *)
(* capacity of the hooks channel; Sunset, for every day, every range and   *)
(* every lateness; and Lifecycle, for every configuration.  The three      *)
(* share no state, and their proofs follow one another.                    *)
(***************************************************************************)
EXTENDS Dependencies, Sunset, Lifecycle, TLAPS

CursorInv == since <= next /\ next <= Len(log) + 1

(* The update in hand is the one the last hook taken calls for. *)
JobInv ==
  auto = "serving" =>
    /\ since < next /\ Calls(log[next - 1])
    /\ job = [device |-> Dependency(log[next - 1].device), power |-> log[next - 1].power]

OnCommand(j, d) == Commands(j, d) /\ log[j].power = "On"

(* The update is in hand and not in the log yet. *)
InHand(i, d) == auto = "serving" /\ i = next - 1 /\ job = [device |-> d, power |-> "On"]

(* OnIsPassedOn for the hooks taken so far. *)
ServedInv ==
  \A i \in since .. next - 1, d \in Devices :
    TurnedOn(i, d) /\ HasDependency(d) /\ auto # "failed" /\ auto # "down" =>
      \/ \E j \in i + 1 .. Len(log) : OnCommand(j, Dependency(d))
      \/ InHand(i, Dependency(d))

(* The dependency of one device only, commanded by the automation only. *)
Owned(d) ==
  /\ HasDependency(d)
  /\ \A e \in Ids : HasDependency(e) /\ Dependency(e) = Dependency(d) => e = d

OwnCommands(d) == \A j \in 1 .. Len(log) : Commands(j, Dependency(d)) => log[j].own

Reports(j, d) == log[j].kind = "state" /\ log[j].device = d

LastOn(i, d, n) == Reports(i, d) /\ log[i].power = "On" /\ \A j \in i + 1 .. n : ~Reports(j, d)

(* The last command to d, if any after i, is On. *)
StaysOn(i, d) ==
  \E j \in i + 1 .. Len(log) :
    OnCommand(j, d) /\ \A k \in j + 1 .. Len(log) : Commands(k, d) => log[k].power = "On"

(* PoweredWhileOn for the reports taken so far. *)
PoweredInv ==
  \A d \in Devices, i \in since .. next - 1 :
    Owned(d) /\ OwnCommands(d) /\ LastOn(i, d, next - 1) /\ auto # "failed" /\ auto # "down" =>
      StaysOn(i, Dependency(d)) \/ InHand(i, Dependency(d))

IInv == TypeOK /\ CursorInv /\ JobInv /\ ServedInv /\ PoweredInv

-----------------------------------------------------------------------------
LEMMA DependencyIsId ==
  ASSUME NEW d, HasDependency(d)
  PROVE  Dependency(d) \in Ids
  <1>1. \E i \in DOMAIN Config : DependsFirst(i, d)
    BY DEF HasDependency
  <1>2. PICK i \in DOMAIN Config : i = CHOOSE j \in DOMAIN Config : DependsFirst(j, d)
    BY <1>1
  <1>3. Config[i] \in [dependent : Ids, dependency : Ids]
    <2> DEFINE R == [dependent : Ids, dependency : Ids]
    <2>1. Config \in Seq(R)
      BY DependenciesAssumption
    <2> HIDE DEF R
    <2>2. \A k \in DOMAIN Config : Config[k] \in R
      BY <2>1
    <2> QED
      BY <2>2 DEF R
  <1> QED
    BY <1>2, <1>3 DEF Dependency

LEMMA InitIInv == Init => IInv
  <1> SUFFICES ASSUME Init PROVE IInv
    OBVIOUS
  <1>1. TypeOK
    BY DependenciesAssumption DEF Init, TypeOK, NoJob, Updates
  <1> QED
    BY <1>1 DEF Init, IInv, CursorInv, JobInv, ServedInv, PoweredInv

LEMMA StepType == IInv /\ [Next]_vars => TypeOK'
  <1> SUFFICES ASSUME IInv, [Next]_vars PROVE TypeOK'
    OBVIOUS
  <1> USE DependenciesAssumption DEF IInv, TypeOK
  <1>1. NoJob \in Updates
    BY DEF NoJob, Updates
  <1>2. ASSUME NEW kind \in {"dispatch", "state"}, NEW d \in Devices, NEW p \in Powers,
               NEW own \in BOOLEAN, SendHook(kind, d, p, own)
        PROVE  log' \in Seq(Hook)
    BY <1>2 DEF SendHook, Hook
  <1>3. ASSUME NEW kind \in {"dispatch", "state"}, NEW d \in Devices, NEW p \in Powers,
               Happen(kind, d, p)
        PROVE  TypeOK'
    <2>1. log' \in Seq(Hook)
      BY <1>2, <1>3 DEF Happen
    <2> QED
      BY <1>3, <2>1 DEF Happen
  <1>4. CASE Subscribe
    BY <1>4 DEF Subscribe
  <1>5. CASE Lag \/ Refuse \/ Exit \/ Crash
    BY <1>5 DEF Lag, Refuse, Exit, Crash
  <1>6. CASE Take
    <2>1. CASE Calls(log[next])
      <3>1. next \in 1 .. Len(log) /\ log[next] \in Hook
        BY <1>6 DEF Take
      <3>2. job' \in Updates
        BY <1>6, <2>1, <3>1, DependencyIsId DEF Take, Calls, Updates, Hook
      <3> QED
        BY <1>6, <2>1, <3>2 DEF Take
    <2>2. CASE ~Calls(log[next])
      BY <1>6, <2>2 DEF Take
    <2> QED
      BY <2>1, <2>2
  <1>7. CASE Dispatch
    BY <1>2, <1>7 DEF Dispatch, Updates, Powers
  <1>8. CASE EndDispatch
    BY <1>1, <1>8 DEF EndDispatch
  <1>9. CASE Restart
    BY <1>1, <1>9 DEF Restart
  <1>10. CASE UNCHANGED vars
    BY <1>10 DEF vars
  <1> QED
    BY <1>3, <1>4, <1>5, <1>6, <1>7, <1>8, <1>9, <1>10 DEF Next, Serve

(* Every step but a restart leaves the hooks that were sent as they are.   *)
LEMMA LogGrows ==
  ASSUME IInv, [Next]_vars, ~Restart
  PROVE  /\ Len(log) \in Nat /\ Len(log') \in Nat /\ Len(log) <= Len(log')
         /\ \A i \in 1 .. Len(log) : log'[i] = log[i]
  <1>1. log \in Seq(Hook)
    BY DEF IInv, TypeOK
  <1>2. \/ log' = log
        \/ \E kind, d, p, own : SendHook(kind, d, p, own)
    BY DEF Next, Serve, Happen, Subscribe, Lag, Take, Dispatch, Refuse, EndDispatch,
           Exit, Crash, vars
  <1>3. CASE log' = log
    BY <1>1, <1>3
  <1>4. ASSUME NEW kind, NEW d, NEW p, NEW own, SendHook(kind, d, p, own)
        PROVE  /\ Len(log) \in Nat /\ Len(log') \in Nat /\ Len(log) <= Len(log')
               /\ \A i \in 1 .. Len(log) : log'[i] = log[i]
    BY <1>1, <1>4 DEF SendHook
  <1> QED
    BY <1>2, <1>3, <1>4

LEMMA StepCursor == IInv /\ [Next]_vars => CursorInv' /\ JobInv'
  <1> SUFFICES ASSUME IInv, [Next]_vars PROVE CursorInv' /\ JobInv'
    OBVIOUS
  <1> USE DEF IInv, TypeOK, CursorInv, JobInv
  <1>1. CASE Restart
    BY <1>1 DEF Restart
  <1>2. CASE Take
    <2>1. /\ log' = log /\ since' = since /\ next' = next + 1 /\ next' - 1 = next
          /\ next <= Len(log) /\ auto = "waiting"
      BY <1>2 DEF Take
    <2>2. CASE Calls(log[next])
      BY <1>2, <2>1, <2>2 DEF Take
    <2>3. CASE ~Calls(log[next])
      BY <1>2, <2>1, <2>3 DEF Take
    <2> QED
      BY <2>2, <2>3
  <1>3. CASE Subscribe
    BY <1>3 DEF Subscribe
  <1>4. CASE ~Restart /\ ~Take /\ ~Subscribe
    <2>1. UNCHANGED <<since, next>> /\ (auto' = "serving" => auto = "serving" /\ job' = job)
      BY <1>4 DEF Next, Serve, Happen, Lag, Dispatch, Refuse, EndDispatch, Exit, Crash, vars
    <2>2. auto = "serving" => next - 1 \in 1 .. Len(log)
      OBVIOUS
    <2> QED
      BY <1>4, <2>1, <2>2, LogGrows
  <1> QED
    BY <1>1, <1>2, <1>3, <1>4

-----------------------------------------------------------------------------
(* A hook that says a device is on calls for an update of its dependency.  *)
LEMMA TakeServes ==
  ASSUME IInv, Take, NEW i, i = next,
         NEW d \in Devices, TurnedOn(i, d), HasDependency(d)
  PROVE  InHand(i, Dependency(d))'
  <1>1. next \in 1 .. Len(log) /\ log[next] \in Hook
    BY DEF IInv, TypeOK, Take
  <1>2. Calls(log[next])
    BY <1>1 DEF Calls, TurnedOn, Hook
  <1>3. /\ auto' = "serving" /\ next' - 1 = next
        /\ job' = [device |-> Dependency(d), power |-> "On"]
    BY <1>2 DEF Take, TurnedOn, IInv, TypeOK
  <1> QED
    BY <1>3 DEF InHand

(* What a dispatch adds to the log. *)
LEMMA DispatchAdds ==
  ASSUME IInv, Dispatch
  PROVE  /\ Len(log') = Len(log) + 1
         /\ log'[Len(log) + 1] = [kind |-> "dispatch", device |-> job.device,
                                  power |-> job.power, own |-> TRUE]
         /\ UNCHANGED <<since, next, job>> /\ auto' = "dispatching" /\ auto = "serving"
  BY DEF Dispatch, SendHook, IInv, TypeOK

LEMMA StepServed == IInv /\ [Next]_vars => ServedInv'
  <1> SUFFICES ASSUME IInv, [Next]_vars PROVE ServedInv'
    OBVIOUS
  <1>1. /\ Len(log) \in Nat /\ since \in Nat \ {0} /\ next \in Nat \ {0}
        /\ since <= next /\ next <= Len(log) + 1
    BY DEF IInv, TypeOK, CursorInv
  <1>2. CASE Restart \/ Subscribe
    BY <1>1, <1>2 DEF Restart, Subscribe, ServedInv
  <1>3. CASE Take
    <2> SUFFICES ASSUME NEW i \in since .. next, NEW d \in Devices,
                        TurnedOn(i, d), HasDependency(d)
                 PROVE  \/ \E j \in i + 1 .. Len(log) : OnCommand(j, Dependency(d))
                        \/ InHand(i, Dependency(d))'
      BY <1>1, <1>3, SMTT(60) DEF Take, ServedInv, TurnedOn, OnCommand, Commands
    <2>1. CASE i = next
      BY <1>3, <2>1, TakeServes
    <2>2. CASE i \in since .. next - 1
      BY <1>3, <2>2 DEF Take, IInv, ServedInv, InHand
    <2> QED
      BY <1>1, <2>1, <2>2
  <1>4. CASE ~Restart /\ ~Subscribe /\ ~Take
    <2>1. UNCHANGED <<since, next>>
      BY <1>4 DEF Next, Serve, Happen, Lag, Dispatch, Refuse, EndDispatch, Exit, Crash, vars
    <2>2. \/ Dispatch
          \/ auto' \in {"failed", "down"}
          \/ auto' = auto /\ job' = job
          \/ EndDispatch
      BY <1>4 DEF Next, Serve, Happen, Lag, Refuse, Exit, Crash, vars
    <2> SUFFICES ASSUME NEW i \in since .. next - 1, NEW d \in Devices,
                        TurnedOn(i, d)', HasDependency(d),
                        auto' # "failed", auto' # "down"
                 PROVE  \/ \E j \in i + 1 .. Len(log') : OnCommand(j, Dependency(d))'
                        \/ InHand(i, Dependency(d))'
      BY <2>1 DEF ServedInv
    <2>3. TurnedOn(i, d) /\ i \in 1 .. Len(log)
      BY <1>1, <1>4, LogGrows DEF TurnedOn
    <2>4. auto # "failed" /\ auto # "down"
      BY <2>2 DEF Dispatch, EndDispatch
    <2>5. \/ \E j \in i + 1 .. Len(log) : OnCommand(j, Dependency(d))
          \/ InHand(i, Dependency(d))
      BY <2>3, <2>4 DEF IInv, ServedInv
    <2>6. CASE \E j \in i + 1 .. Len(log) : OnCommand(j, Dependency(d))
      BY <1>1, <1>4, <2>3, <2>6, LogGrows DEF OnCommand, Commands
    <2>7. CASE InHand(i, Dependency(d)) /\ Dispatch
      <3> PICK n : n = Len(log) + 1
        OBVIOUS
      <3>1. OnCommand(n, Dependency(d))'
        BY <2>7, DispatchAdds DEF InHand, OnCommand, Commands
      <3>2. n \in i + 1 .. Len(log')
        BY <1>1, <2>3, <2>7, DispatchAdds
      <3> QED
        BY <3>1, <3>2
    <2>8. CASE InHand(i, Dependency(d)) /\ ~Dispatch
      BY <2>1, <2>2, <2>8 DEF InHand, EndDispatch
    <2> QED
      BY <2>5, <2>6, <2>7, <2>8
  <1> QED
    BY <1>2, <1>3, <1>4

(* A command of the automation to the only dependency of a device that was *)
(* last reported on is On: the hook behind it is about that device.        *)
LEMMA DispatchKeepsOn ==
  ASSUME IInv, Dispatch, NEW d \in Devices, NEW i \in since .. next - 1,
         Owned(d), LastOn(i, d, next - 1), job.device = Dependency(d)
  PROVE  job.power = "On"
  <1> DEFINE hook == log[next - 1]
  <1>1. /\ next - 1 \in i .. Len(log) /\ hook \in Hook
        /\ Calls(hook) /\ job.device = Dependency(hook.device) /\ job.power = hook.power
    BY DEF IInv, TypeOK, CursorInv, JobInv, Dispatch
  <1>2. hook.device = d
    BY <1>1, DependenciesAssumption DEF Owned, Calls, Hook
  <1>3. CASE hook.kind = "dispatch"
    BY <1>1, <1>3 DEF Calls
  <1>4. CASE hook.kind = "state"
    <2>1. Reports(next - 1, d)
      BY <1>2, <1>4 DEF Reports
    <2>2. i \in Nat /\ next \in Nat
      BY DEF IInv, TypeOK
    <2>3. i = next - 1
      BY <1>1, <2>1, <2>2 DEF LastOn
    <2> QED
      BY <1>1, <2>3 DEF LastOn
  <1> QED
    BY <1>1, <1>3, <1>4 DEF Hook

(* Only the automation marks a command as its own. *)
LEMMA DispatchesAreOwn ==
  ASSUME IInv, [Next]_vars, ~Restart, ~Dispatch,
         NEW k \in 1 .. Len(log'), k \notin 1 .. Len(log)
  PROVE  ~log'[k].own
  <1>1. log \in Seq(Hook) /\ Len(log) \in Nat
    BY DEF IInv, TypeOK
  <1>2. log' = log \/ \E kind, d, p : SendHook(kind, d, p, FALSE)
    BY DEF Next, Serve, Happen, Subscribe, Lag, Take, Refuse, EndDispatch, Exit, Crash, vars
  <1>3. ASSUME NEW kind, NEW d, NEW p, SendHook(kind, d, p, FALSE)
        PROVE  ~log'[k].own
    BY <1>1, <1>3 DEF SendHook
  <1> QED
    BY <1>1, <1>2, <1>3

LEMMA StepPowered == IInv /\ [Next]_vars => PoweredInv'
  <1> SUFFICES ASSUME IInv, [Next]_vars PROVE PoweredInv'
    OBVIOUS
  <1>1. /\ Len(log) \in Nat /\ since \in Nat \ {0} /\ next \in Nat \ {0}
        /\ since <= next /\ next <= Len(log) + 1
    BY DEF IInv, TypeOK, CursorInv
  <1>2. CASE Restart \/ Subscribe
    BY <1>1, <1>2 DEF Restart, Subscribe, PoweredInv
  <1>3. CASE Take
    <2>0. log' = log /\ since' = since /\ next' - 1 = next /\ auto = "waiting"
      BY <1>1, <1>3 DEF Take
    <2> SUFFICES ASSUME NEW d \in Devices, NEW i \in since .. next,
                        Owned(d), OwnCommands(d), LastOn(i, d, next)
                 PROVE  StaysOn(i, Dependency(d)) \/ InHand(i, Dependency(d))'
      BY <2>0 DEF PoweredInv, LastOn, Reports, StaysOn, OnCommand, Commands, OwnCommands
    <2>1. CASE i = next
      <3>1. TurnedOn(i, d) /\ HasDependency(d)
        BY DEF LastOn, Reports, TurnedOn, Owned
      <3> QED
        BY <1>3, <2>1, <3>1, TakeServes
    <2>2. CASE i \in since .. next - 1
      <3>1. LastOn(i, d, next - 1)
        BY <1>1, <2>2 DEF LastOn
      <3>2. ~InHand(i, Dependency(d))
        BY <2>0 DEF InHand
      <3> QED
        BY <2>0, <2>2, <3>1, <3>2 DEF IInv, PoweredInv
    <2> QED
      BY <1>1, <2>1, <2>2
  <1>4. CASE ~Restart /\ ~Subscribe /\ ~Take
    <2>1. UNCHANGED <<since, next>>
      BY <1>4 DEF Next, Serve, Happen, Lag, Dispatch, Refuse, EndDispatch, Exit, Crash, vars
    <2> SUFFICES ASSUME NEW d \in Devices, NEW i \in since .. next - 1,
                        Owned(d), OwnCommands(d)', LastOn(i, d, next - 1)',
                        auto' # "failed", auto' # "down"
                 PROVE  StaysOn(i, Dependency(d))' \/ InHand(i, Dependency(d))'
      BY <2>1 DEF PoweredInv
    <2>2. /\ Len(log') \in Nat /\ Len(log) <= Len(log') /\ i \in 1 .. Len(log)
          /\ \A j \in 1 .. Len(log) : log'[j] = log[j]
      BY <1>1, <1>4, LogGrows
    <2>3. OwnCommands(d)
      BY <1>1, <2>2 DEF OwnCommands, Commands
    <2>4. LastOn(i, d, next - 1)
      <3>1. \A j \in i .. next - 1 : log'[j] = log[j]
        BY <1>1, <2>2
      <3>2. Reports(i, d)' /\ log'[i].power = "On" /\ \A j \in i + 1 .. next - 1 : ~Reports(j, d)'
        BY <2>1 DEF LastOn
      <3>3. Reports(i, d) /\ log[i].power = "On"
        BY <1>1, <3>1, <3>2 DEF Reports
      <3>4. \A j \in i + 1 .. next - 1 : ~Reports(j, d)
        BY <1>1, <3>1, <3>2 DEF Reports
      <3> QED
        BY <3>3, <3>4 DEF LastOn
    <2>5. CASE Dispatch
      <3> PICK n : n = Len(log) + 1
        OBVIOUS
      <3>1. /\ Len(log') = n /\ log'[n].kind = "dispatch" /\ auto = "serving"
            /\ log'[n].device = job.device /\ log'[n].power = job.power
        BY <2>5, DispatchAdds
      <3>2. StaysOn(i, Dependency(d)) \/ InHand(i, Dependency(d))
        BY <2>3, <2>4, <3>1 DEF IInv, PoweredInv
      <3>3. Commands(n, Dependency(d))' => log'[n].power = "On"
        BY <2>4, <2>5, <3>1, DispatchKeepsOn DEF Commands
      <3>4. CASE InHand(i, Dependency(d))
        <4>1. OnCommand(n, Dependency(d))'
          BY <3>1, <3>4 DEF InHand, OnCommand, Commands
        <4> QED
          BY <1>1, <2>2, <3>1, <4>1 DEF StaysOn
      <3>5. CASE StaysOn(i, Dependency(d))
        <4>1. PICK j \in i + 1 .. Len(log) :
                /\ OnCommand(j, Dependency(d))
                /\ \A k \in j + 1 .. Len(log) :
                     Commands(k, Dependency(d)) => log[k].power = "On"
          BY <3>5 DEF StaysOn
        <4>2. OnCommand(j, Dependency(d))' /\ j \in i + 1 .. Len(log')
          BY <2>2, <4>1 DEF OnCommand, Commands
        <4>3. ASSUME NEW k \in j + 1 .. Len(log'), Commands(k, Dependency(d))'
              PROVE  log'[k].power = "On"
          <5>1. CASE k = n
            BY <3>3, <4>3, <5>1
          <5>2. CASE k \in j + 1 .. Len(log)
            BY <2>2, <4>1, <4>3, <5>2 DEF Commands
          <5> QED
            BY <1>1, <2>2, <3>1, <5>1, <5>2
        <4> QED
          BY <4>2, <4>3 DEF StaysOn
      <3> QED
        BY <3>2, <3>4, <3>5
    <2>6. CASE ~Dispatch
      <3>1. /\ auto # "failed" /\ auto # "down"
            /\ auto = "serving" => auto' = auto /\ job' = job
        BY <1>4, <2>6
        DEF Next, Serve, Happen, Lag, Refuse, EndDispatch, Exit, Crash, vars
      <3>2. StaysOn(i, Dependency(d)) \/ InHand(i, Dependency(d))
        BY <2>3, <2>4, <3>1 DEF IInv, PoweredInv
      <3>3. CASE InHand(i, Dependency(d))
        BY <2>1, <3>1, <3>3 DEF InHand
      <3>4. CASE StaysOn(i, Dependency(d))
        <4>1. ASSUME NEW k \in 1 .. Len(log'), k \notin 1 .. Len(log)
              PROVE  ~Commands(k, Dependency(d))'
          BY <1>4, <2>6, <4>1, DispatchesAreOwn DEF OwnCommands
        <4>2. PICK j \in i + 1 .. Len(log) :
                /\ OnCommand(j, Dependency(d))
                /\ \A k \in j + 1 .. Len(log) :
                     Commands(k, Dependency(d)) => log[k].power = "On"
          BY <3>4 DEF StaysOn
        <4>3. OnCommand(j, Dependency(d))' /\ j \in i + 1 .. Len(log')
          BY <1>1, <2>2, <4>2 DEF OnCommand, Commands
        <4>4. ASSUME NEW k \in j + 1 .. Len(log'), Commands(k, Dependency(d))'
              PROVE  log'[k].power = "On"
          <5>1. k \in j + 1 .. Len(log)
            BY <1>1, <2>2, <4>1, <4>4
          <5> QED
            BY <1>1, <2>2, <4>2, <4>4, <5>1 DEF Commands
        <4> QED
          BY <4>3, <4>4 DEF StaysOn
      <3> QED
        BY <3>2, <3>3, <3>4
    <2> QED
      BY <2>5, <2>6
  <1> QED
    BY <1>2, <1>3, <1>4

LEMMA StepIInv == IInv /\ [Next]_vars => IInv'
  BY StepType, StepCursor, StepServed, StepPowered DEF IInv

-----------------------------------------------------------------------------
(* The inductive invariant holds in every reachable state. *)
THEOREM DependenciesInvariant == Spec => []IInv
  BY InitIInv, StepIInv, PTL DEF Spec

(* Every variable keeps its type. *)
THEOREM DependenciesTypeCorrect == Spec => []TypeOK
  <1>1. IInv => TypeOK
    BY DEF IInv
  <1> QED
    BY <1>1, DependenciesInvariant, PTL

(* No On is lost, along chains of any length. *)
THEOREM EveryOnIsPassedOn == Spec => []OnIsPassedOn
  <1>1. IInv => OnIsPassedOn
    <2> SUFFICES ASSUME IInv, CaughtUp, NEW i \in since .. Len(log), NEW d \in Devices,
                        TurnedOn(i, d), HasDependency(d)
                 PROVE  \E j \in i + 1 .. Len(log) :
                          Commands(j, Dependency(d)) /\ log[j].power = "On"
      BY DEF OnIsPassedOn
    <2>1. next - 1 = Len(log) /\ auto = "waiting"
      BY DEF CaughtUp, IInv, TypeOK
    <2> QED
      BY <2>1 DEF IInv, ServedInv, InHand, OnCommand
  <1> QED
    BY <1>1, DependenciesInvariant, PTL

(* The only dependency of a device stays on while the device is. *)
THEOREM DependencyStaysOn == Spec => []PoweredWhileOn
  <1>1. IInv => PoweredWhileOn
    <2> SUFFICES ASSUME IInv, CaughtUp, NEW d \in Devices, NEW i \in since .. Len(log),
                        Owned(d), OwnCommands(d), LastOn(i, d, Len(log))
                 PROVE  StaysOn(i, Dependency(d))
      BY DEF PoweredWhileOn, Owned, OwnCommands, LastOn, Reports, StaysOn, OnCommand, TurnedOn
    <2>1. next - 1 = Len(log) /\ auto = "waiting"
      BY DEF CaughtUp, IInv, TypeOK
    <2> QED
      BY <2>1 DEF IInv, PoweredInv, InHand
  <1> QED
    BY <1>1, DependenciesInvariant, PTL

-----------------------------------------------------------------------------
(* The process. *)

(* Before main has bound its controllers nothing runs that uses them, and  *)
(* after that they stay until the process ends.                            *)
BoundInv ==
  \/ /\ main \in {"load", "exited"}
     /\ \A t \in Tasks : task[t] = "none"
     /\ \A d \in KnownDevices : query[d] = "none"
  \/ \A c \in Enabled : listener[c] # "none"

ProcessInv == ProcessTypeOK /\ BoundInv

LEMMA InitProcess == ProcessInit => ProcessInv
  <1> SUFFICES ASSUME ProcessInit PROVE ProcessInv
    OBVIOUS
  <1>1. ProcessTypeOK
    BY LifecycleAssumption DEF ProcessInit, ProcessTypeOK, Steps
  <1>2. BoundInv
    BY DEF ProcessInit, BoundInv
  <1> QED
    BY <1>1, <1>2 DEF ProcessInv

LEMMA StepProcessType == ProcessTypeOK /\ [ProcessNext]_processVars => ProcessTypeOK'
  <1> SUFFICES ASSUME ProcessTypeOK, [ProcessNext]_processVars PROVE ProcessTypeOK'
    OBVIOUS
  <1> USE LifecycleAssumption DEF ProcessTypeOK
  <1>1. CASE Load \/ LoadFails \/ Notify \/ Return \/ RuntimeEnds \/ Kill
    BY <1>1 DEF Load, LoadFails, Notify, Return, RuntimeEnds, Kill, Steps, startVars
  <1>2. CASE StartListening
    BY <1>2 DEF StartListening, Steps
  <1>3. CASE StartQuery
    BY <1>3 DEF StartQuery, Steps
  <1>4. ASSUME NEW g \in Groups, NEW next_step \in Steps, StartGroup(g, next_step)
        PROVE  ProcessTypeOK'
    BY <1>4 DEF StartGroup
  <1>5. CASE ProcessRestart
    BY <1>5 DEF ProcessRestart, Steps
  <1>6. ASSUME NEW t \in Tasks, ComeUp(t) \/ TaskFails(t)
        PROVE  ProcessTypeOK'
    BY <1>6 DEF ComeUp, TaskFails
  <1>7. ASSUME NEW g \in Groups, EndGroup(g)
        PROVE  ProcessTypeOK'
    BY <1>7 DEF EndGroup
  <1>8. ASSUME NEW c \in Controllers, ListenerFails(c)
        PROVE  ProcessTypeOK'
    BY <1>8 DEF ListenerFails
  <1>9. ASSUME NEW d \in KnownDevices, Connect(d) \/ Query(d)
        PROVE  ProcessTypeOK'
    BY <1>9 DEF Connect, Query
  <1>10. CASE UNCHANGED processVars
    BY <1>10 DEF processVars, startVars
  <1>11. ASSUME Main PROVE ProcessTypeOK'
    <2>1. "servers" \in Groups /\ "automations" \in Groups
          /\ "automations" \in Steps /\ "notify" \in Steps
      BY DEF Groups, Steps
    <2> QED
      BY <1>1, <1>2, <1>3, <1>4, <1>11, <2>1, Zenon DEF Main
  <1>12. CASE HelloSpins
    BY <1>12 DEF HelloSpins, Runs, startVars
  <1> QED
    BY <1>1, <1>5, <1>6, <1>7, <1>8, <1>9, <1>10, <1>11, <1>12, Zenon DEF ProcessNext

LEMMA StepBound == ProcessInv /\ [ProcessNext]_processVars => BoundInv'
  <1> SUFFICES ASSUME ProcessTypeOK, BoundInv, [ProcessNext]_processVars PROVE BoundInv'
    BY DEF ProcessInv
  <1> USE LifecycleAssumption DEF ProcessTypeOK, BoundInv
  <1>1. CASE Load
    BY <1>1 DEF Load
  <1>2. CASE LoadFails \/ Notify \/ Return \/ RuntimeEnds \/ Kill
    BY <1>2 DEF LoadFails, Notify, Return, RuntimeEnds, Kill, startVars
  <1>3. CASE StartListening
    BY <1>3 DEF StartListening
  <1>4. CASE StartQuery
    BY <1>4 DEF StartQuery
  <1>5. CASE StartGroup("servers", "automations") \/ StartGroup("automations", "notify")
    BY <1>5 DEF StartGroup
  <1>6. CASE ProcessRestart
    BY <1>6 DEF ProcessRestart
  <1>7. ASSUME NEW t \in Tasks, ComeUp(t) \/ TaskFails(t)
        PROVE  BoundInv'
    BY <1>7 DEF ComeUp, TaskFails
  <1>8. ASSUME NEW g \in Groups, EndGroup(g)
        PROVE  BoundInv'
    BY <1>8 DEF EndGroup
  <1>9. ASSUME NEW c \in Controllers, ListenerFails(c)
        PROVE  BoundInv'
    BY <1>9 DEF ListenerFails
  <1>10. ASSUME NEW d \in KnownDevices, Connect(d) \/ Query(d)
         PROVE  BoundInv'
    BY <1>10 DEF Connect, Query
  <1>11. CASE UNCHANGED processVars
    BY <1>11 DEF processVars, startVars
  <1>12. CASE HelloSpins
    BY <1>12 DEF HelloSpins, startVars
  <1> QED
    BY <1>1, <1>2, <1>3, <1>4, <1>5, <1>6, <1>7, <1>8, <1>9, <1>10, <1>11, <1>12, Zenon
    DEF ProcessNext, Main

(* The invariant, for every configuration and every number of restarts.    *)
THEOREM ProcessInvariant == ProcessSpec => []ProcessInv
  <1>1. ProcessInv /\ [ProcessNext]_processVars => ProcessInv'
    BY StepProcessType, StepBound DEF ProcessInv
  <1> QED
    BY <1>1, InitProcess, PTL DEF ProcessSpec

(* Its types. *)
THEOREM ProcessTypeCorrect == ProcessSpec => []ProcessTypeOK
  BY ProcessInvariant, PTL DEF ProcessInv

(* Nothing uses a controller before it is bound, whatever fails and        *)
(* however often the server is started again.                              *)
THEOREM ControllersBoundFirst == ProcessSpec => []BoundBeforeUse
  <1>1. ProcessInv => BoundBeforeUse
    BY DEF ProcessInv, BoundInv, BoundBeforeUse
  <1> QED
    BY <1>1, ProcessInvariant, PTL

-----------------------------------------------------------------------------
(* The sunset. *)
LEMMA Division ==
  ASSUME NEW t \in Nat, NEW M \in Nat, M > 0
  PROVE  /\ t \div M \in Nat /\ t % M \in 0 .. M - 1
         /\ t = M * (t \div M) + (t % M)
  <1>1. t \div M \in Nat
    OBVIOUS
  <1>2. t % M \in 0 .. M - 1
    OBVIOUS
  <1>3. t = M * (t \div M) + (t % M)
    OBVIOUS
  <1> QED
    BY <1>1, <1>2, <1>3

(* Days are intervals of the same length. *)
Midnight(day) == day * DayLength

LEMMA LengthFacts ==
  /\ DayLength \in Nat \ {0} /\ MaxDays \in Nat \ {0} /\ MaxLate \in Nat
  /\ \A d \in Days : d \in Nat
  /\ \A d \in 0 .. MaxDays : d \in Days /\ d + 1 \in Days
  <1>1. DayLength \in Nat /\ MaxDays \in Nat \ {0} /\ MaxLate \in Nat
    BY SunsetAssumption
  <1>2. /\ \A d \in Days : d \in Nat
        /\ \A d \in 0 .. MaxDays : d \in Days /\ d + 1 \in Days
    BY <1>1 DEF Days
  <1>3. 0 \in Days
    BY <1>1, <1>2
  <1>4. SunsetTime[0] \in 1 .. DayLength
    BY <1>3, SunsetAssumption
  <1> QED
    BY <1>1, <1>2, <1>4

LEMMA DayFacts ==
  ASSUME NEW t \in Nat
  PROVE  /\ Day(t) \in Nat
         /\ Midnight(Day(t)) <= t /\ t < Midnight(Day(t)) + DayLength
  <1> DEFINE M == DayLength
             d == t \div M
             r == t % M
  <1>1. M \in Nat \ {0}
    BY LengthFacts
  <1> HIDE DEF M
  <1>2. d \in Nat /\ r \in 0 .. M - 1 /\ t = M * d + r
    BY <1>1, Division
  <1> HIDE DEF d, r
  <1>3. d * M = M * d /\ M * d \in Nat
    BY <1>1, <1>2
  <1>4. Day(t) = d /\ Midnight(d) = d * M
    BY DEF Day, Midnight, d, M
  <1>5. DayLength = M
    BY DEF M
  <1> QED
    BY <1>1, <1>2, <1>3, <1>4, <1>5

LEMMA MidnightFacts ==
  ASSUME NEW d \in Nat
  PROVE  Midnight(d) \in Nat /\ Midnight(d + 1) = Midnight(d) + DayLength
  <1>1. DayLength \in Nat
    BY SunsetAssumption
  <1>2. d * DayLength \in Nat /\ (d + 1) * DayLength = d * DayLength + DayLength
    BY <1>1
  <1> QED
    BY <1>2 DEF Midnight

LEMMA SunsetFacts ==
  ASSUME NEW d \in Days
  PROVE  /\ d \in Nat /\ DayLength \in Nat /\ MaxLate \in Nat
         /\ SunsetTime[d] \in Nat \ {0} /\ DuskTime[d] \in Nat
         /\ SunsetTime[d] < DuskTime[d] /\ DuskTime[d] + MaxLate < DayLength
         /\ Sunset(d) = Midnight(d) + SunsetTime[d] /\ Dusk(d) = Midnight(d) + DuskTime[d]
  <1>1. d \in Nat /\ DayLength \in Nat /\ MaxLate \in Nat
    BY SunsetAssumption DEF Days
  <1>2. /\ SunsetTime[d] \in 1 .. DayLength /\ DuskTime[d] \in 1 .. DayLength
        /\ SunsetTime[d] < DuskTime[d] /\ DuskTime[d] + MaxLate < DayLength
    BY SunsetAssumption
  <1>3. Sunset(d) = Midnight(d) + SunsetTime[d] /\ Dusk(d) = Midnight(d) + DuskTime[d]
    BY DEF Sunset, Dusk, Midnight
  <1> QED
    BY <1>1, <1>2, <1>3

LEMMA SunsetIsNat == \A d \in Days : Sunset(d) \in Nat
  BY MidnightFacts, SunsetFacts

LEMMA LaterDay ==
  ASSUME NEW d \in Nat, NEW e \in Nat, d < e
  PROVE  Midnight(d) + DayLength <= Midnight(e)
  <1> DEFINE n == e - (d + 1)
  <1>1. n \in Nat /\ e = (d + 1) + n /\ DayLength \in Nat
    BY SunsetAssumption
  <1> HIDE DEF n
  <1>2. (d + 1) * DayLength = d * DayLength + DayLength
    BY <1>1
  <1>3. /\ ((d + 1) + n) * DayLength = (d + 1) * DayLength + n * DayLength
        /\ n * DayLength \in Nat /\ d * DayLength \in Nat
    BY <1>1
  <1> QED
    BY <1>1, <1>2, <1>3 DEF Midnight

LEMMA SameDay ==
  ASSUME NEW d \in Nat, NEW t \in Nat, Midnight(d) <= t, t < Midnight(d) + DayLength
  PROVE  Day(t) = d
  <1>1. DayLength \in Nat
    BY SunsetAssumption
  <1>2. CASE Day(t) < d
    BY <1>1, <1>2, DayFacts, MidnightFacts, LaterDay
  <1>3. CASE d < Day(t)
    BY <1>1, <1>3, DayFacts, MidnightFacts, LaterDay
  <1> QED
    BY <1>2, <1>3, DayFacts

(* As far as the clock runs. *)
Clock == 0 .. MaxDays * DayLength

LEMMA ClockFacts ==
  ASSUME NEW t \in Clock
  PROVE  t \in Nat /\ Day(t) \in 0 .. MaxDays /\ Day(t) \in Days
  <1>1. MaxDays \in Nat \ {0} /\ DayLength \in Nat \ {0} /\ Midnight(MaxDays) \in Nat
    BY LengthFacts, MidnightFacts
  <1>2. t \in Nat /\ t <= Midnight(MaxDays)
    BY <1>1 DEF Clock, Midnight
  <1>3. Day(t) \in Nat /\ Midnight(Day(t)) \in Nat /\ Midnight(Day(t)) <= t
    BY <1>2, DayFacts, MidnightFacts
  <1>4. MaxDays < Day(t) => Midnight(MaxDays) + DayLength <= Midnight(Day(t))
    BY <1>1, <1>3, LaterDay
  <1>5. Day(t) \in 0 .. MaxDays
    BY <1>1, <1>2, <1>3, <1>4
  <1> QED
    BY <1>1, <1>2, <1>5 DEF Days

(* The evening that comes next: it is later, no run was begun on its day,  *)
(* and the sun has set on every day before.                                *)
IsEvening(e) == Day(e) \in Days /\ (e = Sunset(Day(e)) \/ e = Dusk(Day(e)))

LEMMA EarlierDay == \A d \in Days : \A day \in 0 .. d - 1 : day \in Days
  BY LengthFacts DEF Days

LEMMA EveningFacts ==
  ASSUME NEW t \in Clock
  PROVE  LET e == NextEvening(t)
         IN  /\ e \in Nat /\ e > t /\ IsEvening(e)
             /\ \A x \in 0 .. t : Sunset(Day(x)) <= x => Day(x) < Day(e)
             /\ \A day \in 0 .. Day(e) - 1 : Sunset(day) <= t
  <1> DEFINE d == Day(t)
             e == NextEvening(t)
  <1>0. t \in Nat /\ d \in 0 .. MaxDays /\ d \in Days /\ d + 1 \in Days /\ d \in Nat
    BY ClockFacts, LengthFacts
  <1>1. /\ d \in Nat /\ Midnight(d) <= t /\ t < Midnight(d) + DayLength
        /\ Midnight(d) \in Nat /\ Midnight(d + 1) = Midnight(d) + DayLength
        /\ Sunset(d) = Midnight(d) + SunsetTime[d]
        /\ Dusk(d + 1) = Midnight(d + 1) + DuskTime[d + 1]
    BY <1>0, DayFacts, MidnightFacts, SunsetFacts
  <1>2. /\ DayLength \in Nat
        /\ SunsetTime[d] \in Nat \ {0} /\ SunsetTime[d] < DayLength
        /\ DuskTime[d + 1] \in Nat /\ DuskTime[d + 1] < DayLength
    BY <1>0, SunsetFacts
  <1>3. e = IF Sunset(d) > t THEN Sunset(d) ELSE Dusk(d + 1)
    BY DEF NextEvening
  <1> HIDE DEF d, e
  <1>4. ASSUME NEW x \in 0 .. t
        PROVE  Day(x) \in 0 .. d /\ x \in Nat
    <2>1. x \in Nat /\ Day(x) \in Nat /\ Midnight(Day(x)) <= x
          /\ Midnight(Day(x)) \in Nat /\ x <= t
      BY <1>0, DayFacts, MidnightFacts
    <2>2. d < Day(x) => Midnight(d) + DayLength <= Midnight(Day(x))
      BY <1>1, <2>1, LaterDay
    <2> QED
      BY <1>0, <1>1, <1>2, <2>1, <2>2
  <1>5. ASSUME NEW day \in 0 .. d - 1
        PROVE  Sunset(day) <= t
    <2>0. day \in Nat /\ day < d /\ day \in Days
      BY <1>0, SunsetAssumption DEF Days
    <2>1. /\ Midnight(day) \in Nat /\ SunsetTime[day] \in Nat /\ SunsetTime[day] < DayLength
          /\ Sunset(day) = Midnight(day) + SunsetTime[day]
      BY <2>0, MidnightFacts, SunsetFacts
    <2>2. Midnight(day) + DayLength <= Midnight(d)
      BY <1>1, <2>0, LaterDay
    <2> QED
      BY <1>0, <1>1, <1>2, <2>1, <2>2
  <1>6. CASE Sunset(d) > t
    <2>1. e = Sunset(d) /\ e \in Nat /\ e > t
      BY <1>0, <1>1, <1>2, <1>3, <1>6
    <2>2. Day(e) = d
      BY <1>1, <1>2, <2>1, SameDay
    <2>3. ASSUME NEW x \in 0 .. t, Sunset(Day(x)) <= x
          PROVE  Day(x) < d
      <3>1. Day(x) # d
        BY <1>0, <1>1, <1>2, <1>6, <2>3
      <3> QED
        BY <1>1, <1>4, <3>1
    <2> QED
      BY <1>0, <1>5, <2>1, <2>2, <2>3 DEF e, IsEvening
  <1>7. CASE Sunset(d) <= t
    <2>1. e = Dusk(d + 1) /\ e \in Nat /\ e > t
      BY <1>0, <1>1, <1>2, <1>3, <1>7
    <2>2. Day(e) = d + 1
      BY <1>1, <1>2, <2>1, SameDay
    <2>3. \A x \in 0 .. t : Day(x) < d + 1
      BY <1>1, <1>4
    <2>4. \A day \in 0 .. d : Sunset(day) <= t
      <3>1. \A day \in 0 .. d : day = d \/ day \in 0 .. d - 1
        BY <1>1
      <3> QED
        BY <1>5, <1>7, <3>1
    <2>5. (d + 1) - 1 = d
      BY <1>1
    <2> QED
      BY <1>0, <2>1, <2>2, <2>3, <2>4, <2>5 DEF e, IsEvening
  <1> QED
    BY <1>0, <1>1, <1>2, <1>6, <1>7

(* A sleep until the evening ends on its day. *)
LEMMA EveningIsNotMissed ==
  ASSUME NEW e \in Nat, IsEvening(e), NEW t \in Nat, t <= e + MaxLate
  PROVE  /\ Day(t) \in 0 .. Day(e)
         /\ e <= t => Day(t) = Day(e) /\ Sunset(Day(t)) <= t
  <1> DEFINE d == Day(e)
  <1>1. /\ d \in Nat /\ Midnight(d) \in Nat
        /\ Sunset(d) = Midnight(d) + SunsetTime[d] /\ Dusk(d) = Midnight(d) + DuskTime[d]
    BY DayFacts, MidnightFacts, SunsetFacts DEF IsEvening
  <1>2. /\ DayLength \in Nat /\ MaxLate \in Nat
        /\ SunsetTime[d] \in Nat /\ DuskTime[d] \in Nat
        /\ SunsetTime[d] < DuskTime[d] /\ DuskTime[d] + MaxLate < DayLength
    BY SunsetFacts DEF IsEvening
  <1>3. Sunset(d) <= e /\ Midnight(d) <= e /\ t < Midnight(d) + DayLength
    BY <1>1, <1>2 DEF IsEvening
  <1> HIDE DEF d
  <1>4. ~(d < Day(t))
    <2>1. Day(t) \in Nat /\ Midnight(Day(t)) \in Nat /\ Midnight(Day(t)) <= t
      BY DayFacts, MidnightFacts
    <2>2. d < Day(t) => Midnight(d) + DayLength <= Midnight(Day(t))
      BY <1>1, <2>1, LaterDay
    <2> QED
      BY <1>1, <1>2, <1>3, <2>1, <2>2
  <1>5. ASSUME e <= t PROVE Day(t) = d
    BY <1>1, <1>2, <1>3, <1>5, SameDay
  <1>6. Sunset(d) \in Nat /\ Day(t) \in Nat
    BY <1>1, <1>2, DayFacts
  <1> QED
    BY <1>1, <1>3, <1>4, <1>5, <1>6 DEF d

-----------------------------------------------------------------------------
(* The invariant. *)

(* No run was begun before the sun had set on its day. *)
RunsInv ==
  /\ OncePerEvening
  /\ \A i \in DOMAIN runs : Sunset(Day(runs[i].at)) <= runs[i].at

(* What EveryEvening asks of a day. *)
Served(day) ==
  \E i \in DOMAIN runs :
    \/ Day(runs[i].at) = day
    \/ /\ runs[i].life = life /\ Day(runs[i].at) < day
       /\ (runs[i].end = 0 \/ runs[i].end >= Sunset(day))

ServedBefore(evening) ==
  \A day \in 0 .. evening - 1 : Sunset(day) > started => Served(day)

(* While it waits, no run was begun on the day of the evening that comes,  *)
(* and the evenings before it are served.                                  *)
WaitingInv ==
  phase = "waiting" =>
    /\ IsEvening(wakeAt) /\ now <= wakeAt + MaxLate
    /\ \A i \in DOMAIN runs : Day(runs[i].at) < Day(wakeAt)
    /\ ServedBefore(Day(wakeAt))

(* The run that goes on is the last, and the evenings before it are served. *)
RunningInv ==
  phase = "running" =>
    /\ runs # <<>> /\ runs[Len(runs)].life = life /\ runs[Len(runs)].end = 0
    /\ ServedBefore(Day(runs[Len(runs)].at))

(* A light is late by no more than its steps so far are.                   *)
PaceInv ==
  \A l \in Lights : phase = "running" /\ First[l] < Last[l] =>
    /\ due[l] <= runs[Len(runs)].at + (temp[l] - First[l]) * (Delay(l) + MaxLate)
    /\ ~Done(l) => now <= due[l] + MaxLate

SunsetInv == SunsetTypeOK /\ RunsInv /\ WaitingInv /\ RunningInv /\ PaceInv

LEMMA SunsetTypeFacts ==
  ASSUME SunsetTypeOK
  PROVE  /\ now \in Nat /\ now \in Clock /\ wakeAt \in Nat /\ started \in Nat /\ started <= now
         /\ Len(runs) \in Nat /\ DOMAIN runs = 1 .. Len(runs)
         /\ \A i \in DOMAIN runs :
              /\ runs[i].life \in Nat /\ runs[i].at \in 0 .. now /\ runs[i].end \in Nat
              /\ Day(runs[i].at) \in Nat /\ Sunset(Day(runs[i].at)) \in Nat
  <1>1. now \in Nat /\ now \in Clock /\ Len(runs) \in Nat /\ DOMAIN runs = 1 .. Len(runs)
    BY SunsetAssumption DEF SunsetTypeOK, Clock
  <1>2. \A i \in DOMAIN runs :
          runs[i].life \in Nat /\ runs[i].at \in 0 .. now /\ runs[i].end \in Nat
    <2> DEFINE Run == [life : Nat, at : Nat, end : Nat]
    <2>1. \A r \in Run : r.life \in Nat /\ r.at \in Nat /\ r.end \in Nat
      OBVIOUS
    <2>2. /\ runs \in Seq(Run)
          /\ \A i \in DOMAIN runs : runs[i].at <= now
      BY DEF SunsetTypeOK
    <2> HIDE DEF Run
    <2>3. \A i \in DOMAIN runs : runs[i] \in Run
      BY <2>2
    <2> QED
      BY <1>1, <2>1, <2>2, <2>3
  <1>3. \A t \in Clock : Day(t) \in Nat /\ Sunset(Day(t)) \in Nat
    BY ClockFacts, SunsetIsNat DEF Days
  <1>4. wakeAt \in Nat /\ started \in Nat /\ started <= now
    BY <1>1 DEF SunsetTypeOK
  <1>5. ASSUME NEW i \in DOMAIN runs
        PROVE  Day(runs[i].at) \in Nat /\ Sunset(Day(runs[i].at)) \in Nat
    <2>1. runs[i].at \in Clock
      BY <1>1, <1>2, LengthFacts DEF Clock
    <2> QED
      BY <1>3, <2>1
  <1> QED
    BY <1>1, <1>2, <1>4, <1>5

LEMMA DelayFacts ==
  ASSUME NEW l \in Lights, First[l] < Last[l]
  PROVE  /\ First[l] \in Nat /\ Last[l] \in Nat /\ Total[l] \in Nat
         /\ Delay(l) \in Nat /\ (Last[l] - First[l]) * Delay(l) <= Total[l]
  <1> DEFINE M == Last[l] - First[l]
             T == Total[l]
             q == T \div M
             r == T % M
  <1>1. First[l] \in Nat /\ Last[l] \in Nat /\ T \in Nat /\ M \in Nat \ {0}
    BY SunsetAssumption
  <1>2. Delay(l) = q
    BY DEF Delay
  <1> HIDE DEF M, T
  <1>3. q \in Nat /\ r \in 0 .. M - 1 /\ T = M * q + r
    BY <1>1, Division
  <1> HIDE DEF q, r
  <1>4. M * q \in Nat
    BY <1>1, <1>3
  <1> QED
    BY <1>1, <1>2, <1>3, <1>4 DEF M, T

LEMMA NextEveningIsNat == \A t \in Clock : NextEvening(t) \in Nat
  BY EveningFacts

LEMMA InitSunset == SunsetInit => SunsetInv
  <1> SUFFICES ASSUME SunsetInit PROVE SunsetInv
    OBVIOUS
  <1>1. /\ now \in Nat /\ now < DayLength /\ DayLength \in Nat
        /\ runs = <<>> /\ started = now /\ wakeAt = NextEvening(now) /\ phase = "waiting"
    BY SunsetAssumption DEF SunsetInit
  <1>2. now \in 0 .. MaxDays * DayLength /\ now \in Clock
    <2>1. MaxDays \in Nat \ {0}
      BY SunsetAssumption
    <2>2. DayLength <= MaxDays * DayLength /\ MaxDays * DayLength \in Nat
      BY <1>1, <2>1
    <2> QED
      BY <1>1, <2>2 DEF Clock
  <1>3. SunsetTypeOK
    BY <1>1, <1>2, NextEveningIsNat, SunsetAssumption DEF SunsetInit, SunsetTypeOK
  <1>4. RunsInv
    BY <1>1 DEF RunsInv, OncePerEvening
  <1>5. WaitingInv
    <2>1. /\ wakeAt > now /\ IsEvening(wakeAt) /\ wakeAt \in Nat
          /\ \A day \in 0 .. Day(wakeAt) - 1 : Sunset(day) <= now
      BY <1>1, <1>2, EveningFacts
    <2>2. now <= wakeAt + MaxLate
      BY <1>1, <2>1, SunsetAssumption
    <2>3. \A day \in 0 .. Day(wakeAt) - 1 : ~(Sunset(day) > started)
      <3> SUFFICES ASSUME NEW day \in 0 .. Day(wakeAt) - 1
                   PROVE  ~(Sunset(day) > started)
        OBVIOUS
      <3>1. Sunset(day) \in Nat
        BY <2>1, EarlierDay, SunsetIsNat DEF IsEvening
      <3> QED
        BY <1>1, <2>1, <3>1
    <2> QED
      BY <1>1, <2>1, <2>2, <2>3 DEF WaitingInv, ServedBefore
  <1>6. RunningInv /\ PaceInv
    BY <1>1 DEF RunningInv, PaceInv
  <1> QED
    BY <1>3, <1>4, <1>5, <1>6 DEF SunsetInv

LEMMA StepSunsetType == SunsetInv /\ [SunsetNext]_sunsetVars => SunsetTypeOK'
  <1> SUFFICES ASSUME SunsetInv, [SunsetNext]_sunsetVars PROVE SunsetTypeOK'
    OBVIOUS
  <1> DEFINE Run == [life : Nat, at : Nat, end : Nat]
  <1>0. /\ First \in [Lights -> Nat] /\ Last \in [Lights -> Nat]
        /\ MaxLife \in Nat /\ MaxDays * DayLength \in Nat
    BY SunsetAssumption
  <1>1. /\ now \in 0 .. MaxDays * DayLength /\ now \in Nat
        /\ phase \in {"waiting", "running", "failed"} /\ wakeAt \in Nat
        /\ temp \in [Lights -> Nat] /\ due \in [Lights -> Nat]
        /\ \A l \in Lights : temp[l] \in First[l] .. Last[l] + 1 \/ temp[l] = First[l]
        /\ runs \in Seq(Run)
        /\ \A i \in DOMAIN runs :
             runs[i].life <= life /\ runs[i].at <= now /\ runs[i].end <= now
        /\ started \in 0 .. now /\ life \in 0 .. MaxLife /\ life \in Nat
    BY <1>0 DEF SunsetInv, SunsetTypeOK
  <1>2. \A i \in DOMAIN runs : runs[i].life \in Nat /\ runs[i].at \in Nat /\ runs[i].end \in Nat
    BY <1>1, SunsetTypeFacts DEF SunsetInv
  <1>3. NextEvening(now) \in Nat
    BY SunsetTypeFacts, NextEveningIsNat DEF SunsetInv
  <1>4. CASE Begin
    <2> DEFINE r == [life |-> life, at |-> now, end |-> 0]
    <2>1. r \in Run /\ r.life = life /\ r.at = now /\ r.end = 0
      BY <1>1
    <2>2. runs' = Append(runs, r) /\ UNCHANGED <<now, wakeAt, started, life>>
      BY <1>4 DEF Begin, serverVars
    <2> HIDE DEF r, Run
    <2>3. runs' \in Seq(Run)
      BY <1>1, <2>1, <2>2
    <2>4. \A i \in DOMAIN runs' : (i \in DOMAIN runs /\ runs'[i] = runs[i]) \/ runs'[i] = r
      BY <1>1, <2>1, <2>2
    <2>5. \A i \in DOMAIN runs' :
            runs'[i].life <= life /\ runs'[i].at <= now /\ runs'[i].end <= now
      BY <1>1, <2>1, <2>4
    <2>6. temp' \in [Lights -> Nat] /\ due' \in [Lights -> Nat]
          /\ \A l \in Lights : temp'[l] = First[l]
      BY <1>0, <1>1, <1>4 DEF Begin
    <2> QED
      BY <1>1, <1>4, <2>2, <2>3, <2>5, <2>6 DEF Begin, SunsetTypeOK, Run
  <1>5. ASSUME NEW l \in Lights, NextTemp(l)
        PROVE  SunsetTypeOK'
    <2>1. /\ ~Done(l) /\ First[l] < Last[l] /\ Delay(l) \in Nat
          /\ temp' = [temp EXCEPT ![l] = @ + 1] /\ due' = [due EXCEPT ![l] = now + Delay(l)]
          /\ UNCHANGED <<now, phase, wakeAt, runs, started, life>>
      BY <1>5, DelayFacts DEF NextTemp, serverVars
    <2> HIDE DEF Run
    <2>2. temp' \in [Lights -> Nat] /\ due' \in [Lights -> Nat]
      BY <1>1, <2>1
    <2>3. temp[l] <= Last[l] /\ temp[l] \in Nat /\ First[l] \in Nat /\ Last[l] \in Nat
      BY <1>0, <1>1, <2>1 DEF Done
    <2>4. temp'[l] \in First[l] .. Last[l] + 1
      BY <1>1, <2>1, <2>3
    <2>5. \A m \in Lights : temp'[m] \in First[m] .. Last[m] + 1 \/ temp'[m] = First[m]
      BY <1>1, <2>1, <2>4
    <2> QED
      BY <1>1, <2>1, <2>2, <2>5 DEF SunsetTypeOK, Run
  <1>6. ASSUME NEW l \in Lights, Fail(l)
        PROVE  SunsetTypeOK'
    BY <1>1, <1>6 DEF Fail, serverVars, SunsetTypeOK
  <1>7. CASE End
    <2> DEFINE n == Len(runs)
    <2>1. /\ runs' = [runs EXCEPT ![n].end = now] /\ phase' = "waiting"
          /\ wakeAt' \in Nat /\ UNCHANGED <<now, started, life>>
      BY <1>3, <1>7 DEF End, serverVars
    <2>2. runs # <<>> /\ n \in DOMAIN runs /\ n \in Nat
      <3>1. phase = "running"
        BY <1>7 DEF End
      <3> QED
        BY <1>1, <3>1 DEF SunsetInv, RunningInv
    <2>3. runs' = [runs EXCEPT ![n] = [@ EXCEPT !.end = now]]
      BY <2>1
    <2> DEFINE r == [runs[n] EXCEPT !.end = now]
    <2>4. r \in Run /\ r.life = runs[n].life /\ r.at = runs[n].at /\ r.end = now
      <3>1. runs[n] \in Run
        <4> HIDE DEF Run, n
        <4> QED
          BY <1>1, <2>2
      <3> QED
        BY <1>1, <3>1
    <2>5. runs' = [runs EXCEPT ![n] = r]
      BY <2>3
    <2> HIDE DEF r, Run, n
    <2>6. runs' \in Seq(Run) /\ DOMAIN runs' = DOMAIN runs
          /\ \A i \in DOMAIN runs : runs'[i] = IF i = n THEN r ELSE runs[i]
      BY <1>1, <2>2, <2>4, <2>5
    <2>7. \A i \in DOMAIN runs' :
            runs'[i].life <= life /\ runs'[i].at <= now /\ runs'[i].end <= now
      BY <1>1, <2>2, <2>4, <2>6
    <2>8. temp' \in [Lights -> Nat] /\ due' \in [Lights -> Nat]
          /\ \A l \in Lights : temp'[l] = First[l]
      BY <1>0, <1>7 DEF End
    <2> QED
      BY <1>1, <2>1, <2>6, <2>7, <2>8 DEF SunsetTypeOK, Run
  <1>8. CASE SunsetRestart
    <2>1. /\ phase' = "waiting" /\ wakeAt' \in Nat /\ started' = now /\ life' = life + 1
          /\ life' \in 0 .. MaxLife /\ UNCHANGED <<now, runs>>
      BY <1>0, <1>1, <1>3, <1>8 DEF SunsetRestart
    <2>2. temp' \in [Lights -> Nat] /\ due' \in [Lights -> Nat]
          /\ \A l \in Lights : temp'[l] = First[l]
      BY <1>0, <1>8 DEF SunsetRestart
    <2> HIDE DEF Run
    <2>3. \A i \in DOMAIN runs : runs[i].life <= life'
      BY <1>1, <1>2, <2>1
    <2> QED
      BY <1>1, <2>1, <2>2, <2>3 DEF SunsetTypeOK, Run
  <1>9. CASE Tick
    <2>1. /\ now' = now + 1 /\ now' \in 0 .. MaxDays * DayLength
          /\ UNCHANGED <<phase, wakeAt, temp, due, runs, started, life>>
      BY <1>0, <1>1, <1>9 DEF Tick, serverVars
    <2> HIDE DEF Run
    <2>2. \A i \in DOMAIN runs : runs[i].at <= now' /\ runs[i].end <= now'
      BY <1>1, <1>2, <2>1
    <2>3. started \in 0 .. now'
      BY <1>1, <2>1
    <2> QED
      BY <1>1, <2>1, <2>2, <2>3 DEF SunsetTypeOK, Run
  <1>10. CASE UNCHANGED sunsetVars
    BY <1>1, <1>10 DEF sunsetVars, serverVars, SunsetTypeOK
  <1> QED
    BY <1>4, <1>5, <1>6, <1>7, <1>8, <1>9, <1>10 DEF SunsetNext

-----------------------------------------------------------------------------
(* What a step does to the runs. *)
LEMMA BeginRuns ==
  ASSUME SunsetTypeOK, Begin
  PROVE  /\ phase = "waiting" /\ wakeAt <= now /\ phase' = "running"
         /\ UNCHANGED <<now, wakeAt, started, life>>
         /\ Len(runs) \in Nat /\ Len(runs') = Len(runs) + 1
         /\ DOMAIN runs = 1 .. Len(runs) /\ DOMAIN runs' = 1 .. Len(runs')
         /\ \A i \in DOMAIN runs : runs'[i] = runs[i]
         /\ runs'[Len(runs')].life = life /\ runs'[Len(runs')].at = now
         /\ runs'[Len(runs')].end = 0
  <1> DEFINE Run == [life : Nat, at : Nat, end : Nat]
             r == [life |-> life, at |-> now, end |-> 0]
  <1>1. r \in Run /\ r.life = life /\ r.at = now /\ r.end = 0
    BY SunsetAssumption DEF SunsetTypeOK
  <1>2. runs \in Seq(Run)
    BY DEF SunsetTypeOK
  <1>3. runs' = Append(runs, r)
    BY DEF Begin
  <1>4. /\ phase = "waiting" /\ wakeAt <= now /\ phase' = "running"
        /\ UNCHANGED <<now, wakeAt, started, life>>
    BY SunsetTypeFacts DEF Begin, serverVars
  <1> HIDE DEF r, Run
  <1>5. /\ Len(runs) \in Nat /\ Len(runs') = Len(runs) + 1
        /\ DOMAIN runs = 1 .. Len(runs) /\ DOMAIN runs' = 1 .. Len(runs')
        /\ runs'[Len(runs')] = r
        /\ \A i \in DOMAIN runs : runs'[i] = runs[i]
    BY <1>1, <1>2, <1>3
  <1> QED
    BY <1>1, <1>4, <1>5

LEMMA EndRuns ==
  ASSUME SunsetTypeOK, RunningInv, End
  PROVE  /\ phase = "running" /\ phase' = "waiting" /\ wakeAt' = NextEvening(now)
         /\ UNCHANGED <<now, started, life>>
         /\ Len(runs) \in DOMAIN runs /\ DOMAIN runs' = DOMAIN runs
         /\ \A i \in DOMAIN runs :
              /\ runs'[i].life = runs[i].life /\ runs'[i].at = runs[i].at
              /\ runs'[i].end = IF i = Len(runs) THEN now ELSE runs[i].end
  <1> DEFINE Run == [life : Nat, at : Nat, end : Nat]
             n == Len(runs)
             r == [runs[n] EXCEPT !.end = now]
  <1>1. /\ phase = "running" /\ phase' = "waiting" /\ wakeAt' = NextEvening(now)
        /\ runs' = [runs EXCEPT ![n] = r] /\ UNCHANGED <<now, started, life>>
    BY DEF End, serverVars
  <1>2. runs \in Seq(Run)
    BY DEF SunsetTypeOK
  <1>3. runs # <<>>
    BY <1>1 DEF RunningInv
  <1>4. \A q \in Run : LET c == [q EXCEPT !.end = now]
                       IN c.life = q.life /\ c.at = q.at /\ c.end = now
    OBVIOUS
  <1> HIDE DEF Run
  <1>5. n \in DOMAIN runs /\ runs[n] \in Run
    BY <1>2, <1>3
  <1>6. r.life = runs[n].life /\ r.at = runs[n].at /\ r.end = now
    BY <1>4, <1>5
  <1> HIDE DEF r, n
  <1>7. DOMAIN runs' = DOMAIN runs
        /\ \A i \in DOMAIN runs : runs'[i] = IF i = n THEN r ELSE runs[i]
    BY <1>1, <1>5
  <1>8. \A i \in DOMAIN runs :
          /\ runs'[i].life = runs[i].life /\ runs'[i].at = runs[i].at
          /\ runs'[i].end = IF i = n THEN now ELSE runs[i].end
    BY <1>6, <1>7
  <1> QED
    BY <1>1, <1>5, <1>7, <1>8 DEF n

LEMMA BeginOnItsDay ==
  ASSUME SunsetTypeOK, WaitingInv, Begin
  PROVE  /\ Day(now) = Day(wakeAt) /\ Sunset(Day(now)) <= now
         /\ \A i \in DOMAIN runs : Day(runs[i].at) < Day(now)
  <1>1. IsEvening(wakeAt) /\ now <= wakeAt + MaxLate /\ wakeAt <= now
        /\ wakeAt \in Nat /\ now \in Nat
    BY SunsetTypeFacts, BeginRuns DEF WaitingInv
  <1>2. Day(now) = Day(wakeAt) /\ Sunset(Day(now)) <= now
    BY <1>1, EveningIsNotMissed
  <1> QED
    BY <1>2, BeginRuns DEF WaitingInv

LEMMA OthersKeepRuns ==
  ASSUME SunsetTypeOK, RunningInv, [SunsetNext]_sunsetVars, ~Begin
  PROVE  DOMAIN runs' = DOMAIN runs /\ \A i \in DOMAIN runs : runs'[i].at = runs[i].at
  <1>1. CASE End
    BY <1>1, EndRuns
  <1>2. CASE ~End
    BY <1>2 DEF SunsetNext, SunsetRestart, Tick, NextTemp, Fail, sunsetVars
  <1> QED
    BY <1>1, <1>2

(* A run begins on a day that has none, and in its evening. *)
LEMMA StepRuns == SunsetInv /\ [SunsetNext]_sunsetVars => RunsInv'
  <1> SUFFICES ASSUME SunsetInv, [SunsetNext]_sunsetVars PROVE RunsInv'
    OBVIOUS
  <1>0. SunsetTypeOK /\ RunsInv /\ WaitingInv /\ RunningInv
    BY DEF SunsetInv
  <1>1. CASE Begin
    <2> DEFINE n == Len(runs')
    <2>1. /\ n \in Nat \ {0} /\ DOMAIN runs = 1 .. n - 1 /\ DOMAIN runs' = 1 .. n
          /\ \A i \in 1 .. n - 1 : runs'[i].at = runs[i].at
          /\ runs'[n].at = now
      BY <1>0, <1>1, BeginRuns
    <2> HIDE DEF n
    <2>2. /\ Sunset(Day(now)) <= now
          /\ \A i \in 1 .. n - 1 : Day(runs[i].at) < Day(now)
      BY <1>0, <1>1, <2>1, BeginOnItsDay
    <2>3. ASSUME NEW i \in 1 .. n, NEW j \in 1 .. n, i < j
          PROVE  Day(runs'[i].at) < Day(runs'[j].at)
      <3>1. i \in 1 .. n - 1 /\ (j = n \/ j \in 1 .. n - 1)
        BY <2>1, <2>3
      <3> QED
        BY <1>0, <2>1, <2>2, <2>3, <3>1 DEF RunsInv, OncePerEvening
    <2>4. ASSUME NEW i \in 1 .. n
          PROVE  Sunset(Day(runs'[i].at)) <= runs'[i].at
      <3>1. i = n \/ i \in 1 .. n - 1
        BY <2>1
      <3> QED
        BY <1>0, <2>1, <2>2, <3>1 DEF RunsInv
    <2>5. OncePerEvening'
      BY <2>1, <2>3 DEF OncePerEvening, Day
    <2>6. \A i \in DOMAIN runs' : (Sunset(Day(runs[i].at)) <= runs[i].at)'
      BY <2>1, <2>4 DEF Sunset, Day
    <2> QED
      BY <2>5, <2>6 DEF RunsInv
  <1>2. CASE ~Begin
    <2>1. DOMAIN runs' = DOMAIN runs /\ \A i \in DOMAIN runs : runs'[i].at = runs[i].at
      BY <1>0, <1>2, OthersKeepRuns
    <2> QED
      BY <1>0, <2>1 DEF RunsInv, OncePerEvening, Day, Sunset
  <1> QED
    BY <1>1, <1>2

-----------------------------------------------------------------------------
(* What is served stays so, when a run is added and when one ends. *)
LEMMA BeginServes ==
  ASSUME SunsetTypeOK, WaitingInv, Begin, NEW evening, ServedBefore(evening)
  PROVE  ServedBefore(evening)'
  <1>1. /\ started' = started /\ life' = life
        /\ \A i \in DOMAIN runs : i \in DOMAIN runs' /\ runs'[i] = runs[i]
    BY BeginRuns
  <1>2. ASSUME NEW day, Served(day)
        PROVE  Served(day)'
    <2>1. PICK i \in DOMAIN runs :
            \/ Day(runs[i].at) = day
            \/ /\ runs[i].life = life /\ Day(runs[i].at) < day
               /\ (runs[i].end = 0 \/ runs[i].end >= Sunset(day))
      BY <1>2 DEF Served
    <2> QED
      BY <1>1, <2>1 DEF Served, Day, Sunset
  <1> QED
    BY <1>1, <1>2 DEF ServedBefore, Sunset

(* A run that ends serves its own day, and those at whose sunset it still  *)
(* went on, which are all between it and the evening that comes next.      *)
LEMMA EndServes ==
  ASSUME SunsetInv, End, NEW evening, evening = Day(NextEvening(now))
  PROVE  ServedBefore(evening)'
  <1> DEFINE e == NextEvening(now)
             n == Len(runs)
             d == Day(runs[n].at)
  <1>1. /\ phase = "running" /\ started' = started /\ life' = life /\ now' = now
        /\ n \in DOMAIN runs /\ DOMAIN runs' = DOMAIN runs
        /\ \A i \in DOMAIN runs :
             /\ runs'[i].life = runs[i].life /\ runs'[i].at = runs[i].at
             /\ runs'[i].end = IF i = n THEN now ELSE runs[i].end
    BY EndRuns DEF SunsetInv
  <1>2. now \in Nat /\ e \in Nat /\ Day(e) \in Nat
        /\ \A day \in 0 .. Day(e) - 1 : Sunset(day) <= now
        /\ IsEvening(e)
    BY SunsetTypeFacts, EveningFacts, DayFacts DEF SunsetInv
  <1>3. ServedBefore(d) /\ runs[n].life = life /\ d \in Nat
    BY <1>1, SunsetTypeFacts DEF SunsetInv, RunningInv
  <1> HIDE DEF e, n
  <1>4. \A i \in DOMAIN runs : Day(runs[i].at) \in Nat
    BY SunsetTypeFacts DEF SunsetInv
  <1>5. ASSUME NEW day \in 0 .. Day(e) - 1, Sunset(day) > started
        PROVE  \E i \in DOMAIN runs :
                 \/ Day(runs'[i].at) = day
                 \/ /\ runs'[i].life = life /\ Day(runs'[i].at) < day
                    /\ (runs'[i].end = 0 \/ runs'[i].end >= Sunset(day))
    <2>0. day \in Nat /\ Sunset(day) \in Nat /\ Sunset(day) <= now
      BY <1>2, <1>5, EarlierDay, LengthFacts, SunsetIsNat DEF IsEvening
    <2>1. CASE day < d
      <3>1. Served(day)
        BY <1>3, <1>5, <2>0, <2>1 DEF ServedBefore
      <3>2. PICK i \in DOMAIN runs :
              \/ Day(runs[i].at) = day
              \/ /\ runs[i].life = life /\ Day(runs[i].at) < day
                 /\ (runs[i].end = 0 \/ runs[i].end >= Sunset(day))
        BY <3>1 DEF Served
      <3>3. i # n
        BY <1>3, <1>4, <2>0, <2>1, <3>2
      <3>4. runs'[i].life = runs[i].life /\ runs'[i].at = runs[i].at /\ runs'[i].end = runs[i].end
        BY <1>1, <3>3
      <3> QED
        BY <3>2, <3>4
    <2>2. CASE day = d
      BY <1>1, <2>2
    <2>3. CASE d < day
      <3>1. runs'[n].life = life /\ Day(runs'[n].at) < day /\ runs'[n].end >= Sunset(day)
        BY <1>1, <1>3, <2>0, <2>3
      <3> QED
        BY <1>1, <3>1
    <2> QED
      BY <1>3, <2>0, <2>1, <2>2, <2>3
  <1>6. evening = Day(e)
    BY DEF e
  <1> QED
    BY <1>1, <1>5, <1>6 DEF ServedBefore, Served, Day, Sunset

(* A wait begins at the end of a run and at a start. *)
LEMMA StepWaiting == SunsetInv /\ [SunsetNext]_sunsetVars => WaitingInv'
  <1> SUFFICES ASSUME SunsetInv, [SunsetNext]_sunsetVars PROVE WaitingInv'
    OBVIOUS
  <1> PICK e : e = NextEvening(now)
    OBVIOUS
  <1>0. /\ SunsetTypeOK /\ RunsInv /\ WaitingInv /\ RunningInv
        /\ now \in Nat /\ now \in Clock /\ MaxLate \in Nat
    BY SunsetTypeFacts, SunsetAssumption DEF SunsetInv
  <1>1. /\ e \in Nat /\ IsEvening(e) /\ now <= e + MaxLate
        /\ \A i \in DOMAIN runs : Day(runs[i].at) < Day(e)
        /\ \A day \in 0 .. Day(e) - 1 : Sunset(day) <= now
    <2>1. /\ e \in Nat /\ e > now /\ IsEvening(e)
          /\ \A x \in 0 .. now : Sunset(Day(x)) <= x => Day(x) < Day(e)
          /\ \A day \in 0 .. Day(e) - 1 : Sunset(day) <= now
      BY <1>0, EveningFacts
    <2>2. \A i \in DOMAIN runs : runs[i].at \in 0 .. now /\ Sunset(Day(runs[i].at)) <= runs[i].at
      BY <1>0, SunsetTypeFacts DEF RunsInv
    <2> QED
      BY <1>0, <2>1, <2>2
  <1>2. CASE End
    <2>1. /\ wakeAt' = e /\ now' = now
          /\ DOMAIN runs' = DOMAIN runs /\ \A i \in DOMAIN runs : runs'[i].at = runs[i].at
      BY <1>0, <1>2, EndRuns
    <2>2. ServedBefore(Day(e))'
      <3> PICK evening : evening = Day(e)
        OBVIOUS
      <3>1. ServedBefore(evening)'
        BY <1>2, EndServes
      <3> QED
        BY <3>1 DEF ServedBefore, Day
    <2> QED
      BY <1>1, <2>1, <2>2 DEF WaitingInv, IsEvening, ServedBefore, Day, Sunset, Dusk
  <1>3. CASE SunsetRestart
    <2>1. wakeAt' = e /\ started' = now /\ UNCHANGED <<now, runs>>
      BY <1>3 DEF SunsetRestart
    <2>2. \A day \in 0 .. Day(e) - 1 : ~(Sunset(day) > now)
      <3> SUFFICES ASSUME NEW day \in 0 .. Day(e) - 1 PROVE ~(Sunset(day) > now)
        OBVIOUS
      <3>1. day \in Nat /\ Sunset(day) \in Nat
        BY <1>1, EarlierDay, LengthFacts, SunsetIsNat DEF IsEvening
      <3> QED
        BY <1>0, <1>1, <3>1
    <2> QED
      BY <1>1, <2>1, <2>2 DEF WaitingInv, IsEvening, ServedBefore, Day, Sunset, Dusk
  <1>4. CASE Tick
    <2>1. /\ now' = now + 1 /\ UNCHANGED <<phase, wakeAt, runs, started, life>>
          /\ phase = "waiting" => now < wakeAt + MaxLate
      BY <1>4 DEF Tick, serverVars
    <2>2. phase = "waiting" => now' <= wakeAt' + MaxLate
      BY <1>0, <2>1, SunsetTypeFacts
    <2> QED
      BY <1>0, <2>1, <2>2 DEF WaitingInv, IsEvening, ServedBefore, Served, Day, Sunset, Dusk
  <1>5. CASE Begin \/ \E l \in Lights : NextTemp(l) \/ Fail(l)
    BY <1>5 DEF Begin, NextTemp, Fail, WaitingInv
  <1>6. CASE UNCHANGED sunsetVars
    BY <1>0, <1>6
    DEF sunsetVars, serverVars, WaitingInv, IsEvening, ServedBefore, Served, Day, Sunset, Dusk
  <1> QED
    BY <1>2, <1>3, <1>4, <1>5, <1>6 DEF SunsetNext

LEMMA StepRunning == SunsetInv /\ [SunsetNext]_sunsetVars => RunningInv'
  <1> SUFFICES ASSUME SunsetInv, [SunsetNext]_sunsetVars PROVE RunningInv'
    OBVIOUS
  <1>0. SunsetTypeOK /\ WaitingInv /\ RunningInv
    BY DEF SunsetInv
  <1>1. CASE Begin
    <2> DEFINE n == Len(runs')
    <2>1. /\ n \in Nat \ {0} /\ DOMAIN runs' = 1 .. n /\ life' = life
          /\ runs'[n].life = life /\ runs'[n].at = now /\ runs'[n].end = 0
      BY <1>0, <1>1, BeginRuns
    <2>2. Day(now) = Day(wakeAt) /\ phase = "waiting"
      BY <1>0, <1>1, BeginOnItsDay, BeginRuns
    <2>3. ServedBefore(Day(now))
      BY <1>0, <2>2 DEF WaitingInv
    <2>4. now' = now
      BY <1>0, <1>1, BeginRuns
    <2>5. ServedBefore(Day(now))'
      <3> PICK evening : evening = Day(now)
        OBVIOUS
      <3>1. ServedBefore(evening)'
        BY <1>0, <1>1, <2>3, BeginServes
      <3> QED
        BY <3>1, <2>4 DEF ServedBefore, Day
    <2> QED
      BY <2>1, <2>4, <2>5 DEF RunningInv, ServedBefore, Day
  <1>2. CASE Tick \/ \E l \in Lights : NextTemp(l)
    <2>1. UNCHANGED <<phase, runs, started, life>>
      BY <1>2 DEF Tick, NextTemp, serverVars
    <2> QED
      BY <1>0, <2>1 DEF RunningInv, ServedBefore, Served, Day, Sunset
  <1>3. CASE End \/ SunsetRestart \/ \E l \in Lights : Fail(l)
    BY <1>3 DEF End, SunsetRestart, Fail, RunningInv
  <1>4. CASE UNCHANGED sunsetVars
    BY <1>0, <1>4 DEF sunsetVars, serverVars, RunningInv, ServedBefore, Served, Day, Sunset
  <1> QED
    BY <1>1, <1>2, <1>3, <1>4 DEF SunsetNext

(* Each step of a light adds its delay, and its lateness at most. *)
LEMMA StepPace == SunsetInv /\ [SunsetNext]_sunsetVars => PaceInv'
  <1> SUFFICES ASSUME SunsetInv, [SunsetNext]_sunsetVars PROVE PaceInv'
    OBVIOUS
  <1>0. /\ SunsetTypeOK /\ PaceInv /\ now \in Nat /\ MaxLate \in Nat
        /\ temp \in [Lights -> Nat] /\ due \in [Lights -> Nat]
        /\ First \in [Lights -> Nat] /\ Last \in [Lights -> Nat]
        /\ \A l \in Lights : temp[l] \in First[l] .. Last[l] + 1 \/ temp[l] = First[l]
    BY SunsetTypeFacts, SunsetAssumption DEF SunsetInv, SunsetTypeOK
  <1>1. CASE Begin
    <2> SUFFICES ASSUME NEW l \in Lights, First[l] < Last[l]
                 PROVE  /\ due'[l] <= runs'[Len(runs')].at
                                        + (temp'[l] - First[l]) * (Delay(l) + MaxLate)
                        /\ now' <= due'[l] + MaxLate
      BY DEF PaceInv, Delay, Done
    <2>1. due'[l] = now /\ temp'[l] = First[l] /\ now' = now /\ runs'[Len(runs')].at = now
      BY <1>0, <1>1, BeginRuns DEF Begin
    <2>2. Delay(l) + MaxLate \in Nat /\ First[l] \in Nat
      BY <1>0, DelayFacts
    <2>3. (temp'[l] - First[l]) * (Delay(l) + MaxLate) = 0
      BY <2>1, <2>2
    <2> QED
      BY <1>0, <2>1, <2>3
  <1>2. ASSUME NEW m \in Lights, NextTemp(m)
        PROVE  PaceInv'
    <2>1. /\ phase = "running" /\ UNCHANGED <<now, phase, runs>>
          /\ ~Done(m) /\ First[m] < Last[m]
          /\ temp' = [temp EXCEPT ![m] = @ + 1] /\ due' = [due EXCEPT ![m] = now + Delay(m)]
      BY <1>2 DEF NextTemp
    <2> SUFFICES ASSUME NEW l \in Lights, First[l] < Last[l]
                 PROVE  /\ due'[l] <= runs[Len(runs)].at
                                        + (temp'[l] - First[l]) * (Delay(l) + MaxLate)
                        /\ ~(temp'[l] > Last[l]) => now <= due'[l] + MaxLate
      BY <2>1 DEF PaceInv, Delay, Done
    <2> DEFINE a == runs[Len(runs)].at
               X == Delay(l) + MaxLate
               n == temp[l] - First[l]
    <2>2. /\ due[l] <= a + n * X
          /\ ~Done(l) => now <= due[l] + MaxLate
      BY <1>0, <2>1 DEF PaceInv
    <2>3. CASE l # m
      BY <1>0, <2>1, <2>2, <2>3 DEF Done
    <2>4. CASE l = m
      <3>1. Delay(l) \in Nat /\ X \in Nat /\ X = Delay(l) + MaxLate
        BY <1>0, DelayFacts
      <3>2. n \in Nat /\ temp'[l] - First[l] = n + 1
        BY <1>0, <2>1, <2>4
      <3>3. a \in Nat
        <4>1. runs # <<>> /\ Len(runs) \in DOMAIN runs
          BY <2>1 DEF SunsetInv, RunningInv, SunsetTypeOK
        <4>2. runs[Len(runs)].at \in 0 .. now
          BY <1>0, <4>1, SunsetTypeFacts
        <4> QED
          BY <1>0, <4>2
      <3>4. due'[l] = now + Delay(l) /\ now <= due[l] + MaxLate /\ due[l] \in Nat
        BY <1>0, <2>1, <2>2, <2>4
      <3> HIDE DEF a, X, n
      <3>5. (n + 1) * X = n * X + X /\ n * X \in Nat
        BY <3>1, <3>2
      <3>6. due'[l] <= a + (n + 1) * X
        BY <1>0, <2>2, <3>1, <3>3, <3>4, <3>5
      <3>7. now <= due'[l] + MaxLate
        BY <1>0, <3>1, <3>4
      <3> QED
        BY <3>2, <3>6, <3>7 DEF a, X
    <2> QED
      BY <2>3, <2>4
  <1>3. CASE Tick
    <2>1. /\ now' = now + 1 /\ UNCHANGED <<phase, temp, due, runs>>
          /\ phase = "running" => \A l \in Lights : now < due[l] + MaxLate \/ Done(l)
      BY <1>3 DEF Tick
    <2>2. \A l \in Lights : phase = "running" /\ ~Done(l) => now' <= due[l] + MaxLate
      BY <1>0, <2>1
    <2> QED
      BY <1>0, <2>1, <2>2 DEF PaceInv, Delay, Done
  <1>4. CASE End \/ SunsetRestart \/ \E l \in Lights : Fail(l)
    BY <1>4 DEF End, SunsetRestart, Fail, PaceInv
  <1>5. CASE UNCHANGED sunsetVars
    BY <1>0, <1>5 DEF sunsetVars, PaceInv, Delay, Done
  <1> QED
    BY <1>1, <1>2, <1>3, <1>4, <1>5 DEF SunsetNext

-----------------------------------------------------------------------------
(* The invariant, for every length of a day, every set of lights with      *)
(* ranges and durations of their own, and every number of restarts.        *)
THEOREM SunsetInvariant == SunsetSpec => []SunsetInv
  <1>1. SunsetInv /\ [SunsetNext]_sunsetVars => SunsetInv'
    BY StepSunsetType, StepRuns, StepWaiting, StepRunning, StepPace DEF SunsetInv
  <1> QED
    BY <1>1, InitSunset, PTL DEF SunsetSpec

(* Its types: a light is never asked for a temperature out of its range.   *)
THEOREM SunsetTypeCorrect == SunsetSpec => []SunsetTypeOK
  BY SunsetInvariant, PTL DEF SunsetInv

(* The lights go through their range at most once in an evening.           *)
THEOREM OneRunPerEvening == SunsetSpec => []OncePerEvening
  BY SunsetInvariant, PTL DEF SunsetInv, RunsInv

(* A server that is up at sunset leaves no evening out, but for one at     *)
(* whose sunset the run of an earlier evening still goes on.               *)
THEOREM NoEveningLeftOut == SunsetSpec => []EveryEvening
  <1>1. SunsetInv => EveryEvening
    <2> SUFFICES ASSUME SunsetInv, phase # "failed",
                        NEW day \in 0 .. Day(now) - 1, Sunset(day) > started
                 PROVE  Served(day)
      BY DEF EveryEvening, Served
    <2>1. now \in Nat /\ Day(now) \in Nat /\ day \in Nat
      BY SunsetTypeFacts, DayFacts DEF SunsetInv
    <2>2. CASE phase = "waiting"
      <3>1. wakeAt \in Nat /\ Day(wakeAt) \in Nat /\ Day(now) \in 0 .. Day(wakeAt)
        BY <2>1, <2>2, SunsetTypeFacts, DayFacts, EveningIsNotMissed DEF SunsetInv, WaitingInv
      <3>2. day \in 0 .. Day(wakeAt) - 1
        BY <2>1, <3>1
      <3> QED
        BY <2>2, <3>2 DEF SunsetInv, WaitingInv, ServedBefore
    <2>3. CASE phase = "running"
      <3> DEFINE n == Len(runs)
                 d == Day(runs[n].at)
      <3>1. /\ n \in DOMAIN runs /\ d \in Nat
            /\ runs[n].life = life /\ runs[n].end = 0 /\ ServedBefore(d)
        <4>1. runs # <<>> /\ n \in DOMAIN runs
          BY <2>3 DEF SunsetInv, RunningInv, SunsetTypeOK
        <4> QED
          BY <2>3, <4>1, SunsetTypeFacts DEF SunsetInv, RunningInv
      <3>2. CASE day < d
        BY <2>1, <3>1, <3>2 DEF ServedBefore
      <3>3. CASE day >= d
        BY <2>1, <3>1, <3>3 DEF Served
      <3> QED
        BY <2>1, <3>1, <3>2, <3>3
    <2> QED
      BY <2>2, <2>3 DEF SunsetInv, SunsetTypeOK
  <1> QED
    BY <1>1, SunsetInvariant, PTL

(* A light gets to its last temperature in its duration, but for the       *)
(* lateness of each step.                                                  *)
THEOREM LastTemperatureInTime == SunsetSpec => []RampInTime
  <1>1. SunsetInv => RampInTime
    <2> SUFFICES ASSUME SunsetInv, NEW l \in Lights, phase = "running", First[l] < Last[l], Done(l)
                 PROVE  due[l] - Delay(l) - runs[Len(runs)].at
                          <= Total[l] + (Last[l] - First[l] + 1) * MaxLate
      BY DEF RampInTime
    <2> DEFINE a == runs[Len(runs)].at
               M == Last[l] - First[l]
               D == Delay(l)
    <2>1. /\ D \in Nat /\ M \in Nat /\ M * D <= Total[l] /\ Total[l] \in Nat
          /\ First[l] \in Nat /\ Last[l] \in Nat /\ MaxLate \in Nat
      BY DelayFacts, SunsetAssumption
    <2>2. temp[l] - First[l] = M + 1 /\ due[l] \in Nat
      <3>1. /\ temp[l] \in First[l] .. Last[l] + 1 \/ temp[l] = First[l]
            /\ temp[l] > Last[l] /\ due[l] \in Nat
        BY DEF SunsetInv, SunsetTypeOK, Done
      <3> QED
        BY <2>1, <3>1
    <2>3. a \in Nat
      <3>1. runs # <<>> /\ Len(runs) \in DOMAIN runs
        BY DEF SunsetInv, RunningInv, SunsetTypeOK
      <3> QED
        BY <3>1, SunsetTypeFacts DEF SunsetInv
    <2>4. due[l] <= a + (M + 1) * (D + MaxLate)
      BY <2>2 DEF SunsetInv, PaceInv
    <2> HIDE DEF a, M, D
    <2>5. /\ (M + 1) * (D + MaxLate) = M * D + D + (M + 1) * MaxLate
          /\ M * D \in Nat /\ (M + 1) * MaxLate \in Nat
      BY <2>1
    <2>6. due[l] - D - a <= Total[l] + (M + 1) * MaxLate
      BY <2>1, <2>2, <2>3, <2>4, <2>5
    <2> QED
      BY <2>6 DEF a, M, D
  <1> QED
    BY <1>1, SunsetInvariant, PTL

=============================================================================
