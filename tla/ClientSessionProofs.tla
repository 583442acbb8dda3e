------------------------- MODULE ClientSessionProofs -------------------------
(***************************************************************************)
(* Proofs about ClientSession, for any number of clients, devices and      *)
(* notifiers and for every capacity of the hooks channel.                  *)
(***************************************************************************)
EXTENDS ClientSession, TLAPS

Notification == [device : Devices, what : States]

(* The announcement a notifier owes is about a device of its own, and for  *)
(* the only notifier of a device it is the state in the table.             *)
OwedInv ==
  \A n \in Notifiers :
    owed[n] # Nothing =>
      /\ owed[n].device \in Feeds[n]
      /\ SolelyFed(owed[n].device) => state[owed[n].device] = owed[n].what

Owes(n, d) == owed[n] # Nothing /\ owed[n].device = d

SettledInv ==
  \A d \in Devices :
    SolelyFed(d) /\ (\A n \in Notifiers : ~Owes(n, d)) => published[d] = state[d]

(* The last hook about a device carries the state it was last announced    *)
(* with.                                                                   *)
SilentFrom(i, d) == \A j \in i .. Len(log) : log[j] = Nothing \/ log[j].device # d

LogInv ==
  \A i \in 1 .. Len(log) :
    log[i] # Nothing /\ SilentFrom(i + 1, log[i].device) =>
      log[i].what = published[log[i].device]

CursorInv ==
  \A c \in Clients :
    /\ since[c] <= next[c] /\ next[c] <= Len(log) + 1
    /\ phase[c] = "closed" => seen[c] = <<>> /\ \A d \in Devices : view[c][d] = Nothing

(* With no hook about a device left to take, a client that was told about  *)
(* it knows the state it was last announced with.                          *)
ViewInv ==
  \A c \in Clients, d \in Devices :
    view[c][d] # Nothing /\ SilentFrom(next[c], d) => view[c][d] = published[d]

TableInv == FeedTypeOK /\ OwedInv /\ SettledInv
ChannelInv == TypeOK /\ LogInv /\ CursorInv

IInv == TableInv /\ ChannelInv /\ ViewInv /\ Gapless

-----------------------------------------------------------------------------
LEMMA InitIInv == Init => IInv
  <1> SUFFICES ASSUME Init PROVE IInv
    OBVIOUS
  <1>1. TableInv
    BY DEF Init, FeedInit, TableInv, FeedTypeOK, OwedInv, SettledInv
  <1>2. ChannelInv
    BY <1>1, SessionAssumption
    DEF Init, ChannelInv, TypeOK, LogInv, CursorInv, TableInv, Phases
  <1>3. ViewInv /\ Gapless
    BY DEF Init, ViewInv, Gapless
  <1> QED
    BY <1>1, <1>2, <1>3 DEF IInv

(* Only reports and announcements touch the table; the hooks of requests   *)
(* are not about any state.                                                *)
LEMMA SessionSteps ==
  ASSUME IInv, NEW c \in Clients,
         \/ Connect(c) \/ Disconnect(c) \/ Serve(c)
         \/ \E kind \in {"update", "query", "scene"} : Receive(c, kind)
  PROVE  UNCHANGED feedVars /\ (log' = log \/ log' = Append(log, Nothing))
  BY DEF Serve, Connect, Disconnect, Close, Lag, Relay, Receive, BeginUpdate,
         EndLine, ActivateScene, SceneUpdate, EndScene, Resume,
         SendHook, feedVars

LEMMA StepFeedType ==
  ASSUME IInv, [Next]_vars
  PROVE  FeedTypeOK'
  <1>1. ASSUME NEW n \in Notifiers, NEW d \in Devices, NEW s \in States, Write(n, d, s)
        PROVE  FeedTypeOK'
    BY <1>1 DEF IInv, TableInv, FeedTypeOK, Write
  <1>2. ASSUME NEW n \in Notifiers, Publish(n)
        PROVE  FeedTypeOK'
    BY <1>2 DEF IInv, TableInv, FeedTypeOK, Publish
  <1>3. CASE UNCHANGED feedVars
    BY <1>3 DEF IInv, TableInv, FeedTypeOK, feedVars
  <1> QED
    BY <1>1, <1>2, <1>3, SessionSteps DEF Next, Report, Announce, vars

(* The table and what was announced. *)
LEMMA StepOwed ==
  ASSUME IInv, [Next]_vars
  PROVE  OwedInv' /\ SettledInv'
  <1>1. ASSUME NEW n \in Notifiers, NEW d \in Devices, NEW s \in States, Write(n, d, s)
        PROVE  OwedInv' /\ SettledInv'
    BY <1>1, FeedAssumption
    DEF IInv, TableInv, FeedTypeOK, OwedInv, SettledInv, Owes, SolelyFed, Write
  <1>2. ASSUME NEW n \in Notifiers, Publish(n)
        PROVE  OwedInv' /\ SettledInv'
    BY <1>2, FeedAssumption
    DEF IInv, TableInv, FeedTypeOK, OwedInv, SettledInv, Owes, SolelyFed, Publish
  <1>3. CASE UNCHANGED feedVars
    BY <1>3 DEF IInv, TableInv, OwedInv, SettledInv, Owes, SolelyFed, feedVars
  <1> QED
    BY <1>1, <1>2, <1>3, SessionSteps DEF Next, Report, Announce, vars

-----------------------------------------------------------------------------
LEMMA StepType ==
  ASSUME IInv, [Next]_vars
  PROVE  TypeOK'
  <1> USE SessionAssumption DEF IInv, ChannelInv, TypeOK, Enter
  <1>1. FeedTypeOK'
    BY StepFeedType
  <1>2. ASSUME NEW n \in Notifiers, NEW d \in Devices, NEW s \in States, Report(n, d, s)
        PROVE  TypeOK'
    BY <1>1, <1>2 DEF Report, sessionVars
  <1>3. ASSUME NEW n \in Notifiers, Announce(n)
        PROVE  TypeOK'
    BY <1>1, <1>3 DEF Announce, Publish, FeedTypeOK, sessionVars
  <1>4. ASSUME NEW c \in Clients, Connect(c)
        PROVE  TypeOK'
    BY <1>1, <1>4 DEF Connect, Phases
  <1>5. ASSUME NEW c \in Clients, NEW kind \in {"update", "query", "scene"},
               Receive(c, kind)
        PROVE  TypeOK'
    BY <1>1, <1>5 DEF Receive, Phases
  <1>6. ASSUME NEW c \in Clients, Close(c)
        PROVE  TypeOK'
    BY <1>1, <1>6 DEF Close, Phases
  <1>7. ASSUME NEW c \in Clients, Resume(c)
        PROVE  TypeOK'
    <2>1. CASE Close(c)
      BY <1>6, <2>1
    <2>2. CASE ~Close(c)
      <3>1. /\ Enter(c, "open") /\ left' = [left EXCEPT ![c] = 0]
            /\ UNCHANGED <<log, next, since, seen, view, requests, reports>>
        BY <1>7, <2>2 DEF Resume
      <3>2. 0 \in 0 .. SceneSize
        OBVIOUS
      <3> QED
        BY <1>1, <3>1, <3>2 DEF Phases
    <2> QED
      BY <2>1, <2>2
  <1>8. ASSUME NEW c \in Clients, Relay(c)
        PROVE  TypeOK'
    <2>1. next[c] \in 1 .. Len(log) /\ log[next[c]] \in Notification \cup {Nothing}
      BY <1>8 DEF Relay, Pending, Notification
    <2>2. UNCHANGED <<log, phase, since, left, requests, reports>>
      BY <1>8 DEF Relay
    <2>3. next' \in [Clients -> Nat \ {0}]
      BY <1>8 DEF Relay
    <2>4. CASE log[next[c]] = Nothing
      BY <1>1, <1>8, <2>2, <2>3, <2>4 DEF Relay
    <2>5. CASE log[next[c]] \in Notification
      <3> DEFINE hook == log[next[c]]
      <3>1. hook # Nothing
        BY <2>5, FeedAssumption DEF Notification
      <3>2. /\ seen' = [seen EXCEPT ![c] = Append(@, next[c])]
            /\ view' = [view EXCEPT ![c][hook.device] = hook.what]
        BY <1>8, <3>1 DEF Relay
      <3>3. hook.device \in Devices /\ hook.what \in States /\ next[c] \in Nat
        BY <2>1, <2>5 DEF Notification
      <3>4. Append(seen[c], next[c]) \in Seq(Nat)
        BY <3>3
      <3> HIDE DEF hook
      <3> QED
        BY <1>1, <2>2, <2>3, <3>2, <3>3, <3>4
    <2> QED
      BY <2>1, <2>4, <2>5
  <1>9. ASSUME NEW c \in Clients, BeginUpdate(c) \/ ActivateScene(c) \/ SceneUpdate(c)
         PROVE  TypeOK'
    <2>1. log' \in Seq(Notification \cup {Nothing})
      <3>1. log' = Append(log, Nothing)
        BY <1>9 DEF BeginUpdate, ActivateScene, SceneUpdate, SendHook
      <3> QED
        BY <3>1 DEF Notification
    <2>2. phase' \in [Clients -> Phases] /\ left' \in [Clients -> 0 .. SceneSize]
      <3>1. CASE BeginUpdate(c)
        BY <3>1 DEF BeginUpdate, SendHook, Phases
      <3>2. CASE ActivateScene(c)
        BY <3>2 DEF ActivateScene, SendHook, Phases
      <3>3. CASE SceneUpdate(c)
        BY <3>3 DEF SceneUpdate, SendHook, Phases
      <3> QED
        BY <1>9, <3>1, <3>2, <3>3
    <2>3. UNCHANGED <<next, since, seen, view, requests, reports>>
      BY <1>9 DEF BeginUpdate, ActivateScene, SceneUpdate, SendHook
    <2> QED
      BY <1>1, <2>1, <2>2, <2>3 DEF Notification
  <1>10. CASE UNCHANGED vars
    BY <1>10, <1>1 DEF vars, sessionVars
  <1> QED
    BY <1>2, <1>3, <1>4, <1>5, <1>6, <1>7, <1>8, <1>9, <1>10
    DEF Next, Serve, Disconnect, Lag, EndLine, EndScene

-----------------------------------------------------------------------------
(* The channel: hooks are only ever added at its end. *)
LEMMA LogGrows ==
  ASSUME IInv, [Next]_vars
  PROVE  \/ UNCHANGED <<log, published>>
         \/ log' = Append(log, Nothing) /\ UNCHANGED published
         \/ \E n \in Notifiers :
              /\ log' = Append(log, owed[n]) /\ Publish(n)
              /\ UNCHANGED sessionVars
  <1>1. ASSUME NEW n \in Notifiers, NEW d \in Devices, NEW s \in States, Report(n, d, s)
        PROVE  UNCHANGED <<log, published>>
    BY <1>1 DEF Report, Write
  <1> QED
    BY <1>1, SessionSteps DEF Next, Announce, vars, feedVars

LEMMA StepLog ==
  ASSUME IInv, [Next]_vars
  PROVE  LogInv'
  <1> USE DEF LogInv, SilentFrom
  <1>1. log \in Seq(Notification \cup {Nothing}) /\ LogInv
    BY DEF IInv, ChannelInv, TypeOK, Notification
  <1>2. CASE UNCHANGED <<log, published>>
    BY <1>1, <1>2
  <1>3. CASE log' = Append(log, Nothing) /\ UNCHANGED published
    BY <1>1, <1>3
  <1>4. ASSUME NEW n \in Notifiers, log' = Append(log, owed[n]), Publish(n)
        PROVE  LogInv'
    <2>1. /\ owed[n] \in Notification
          /\ published \in [Devices -> States \cup {Unknown}]
          /\ published' = [published EXCEPT ![owed[n].device] = owed[n].what]
      BY <1>4 DEF Publish, IInv, TableInv, FeedTypeOK, Notification
    <2>2. owed[n].device \in Devices
      BY <2>1 DEF Notification
    <2> SUFFICES ASSUME NEW i \in 1 .. Len(log'), log'[i] # Nothing,
                        \A j \in i + 1 .. Len(log') :
                          log'[j] = Nothing \/ log'[j].device # log'[i].device
                 PROVE  log'[i].what = published'[log'[i].device]
      BY Zenon
    <2>3. CASE i = Len(log) + 1
      BY <1>1, <1>4, <2>1, <2>2, <2>3
    <2>4. CASE i \in 1 .. Len(log)
      <3>1. log'[i] = log[i] /\ \A j \in i + 1 .. Len(log) : log'[j] = log[j]
        BY <1>1, <1>4, <2>1, <2>4
      <3>2. log'[Len(log) + 1] = owed[n] /\ Len(log') = Len(log) + 1
        BY <1>1, <1>4, <2>1
      <3>3. owed[n].device # log[i].device
        BY <1>1, <2>1, <2>4, <3>1, <3>2, FeedAssumption DEF Notification
      <3>4. log[i].what = published[log[i].device]
        BY <1>1, <2>4, <3>1, <3>2
      <3>5. log[i].device \in Devices
        BY <1>1, <2>4, <3>1 DEF Notification
      <3> QED
        BY <2>1, <2>2, <3>1, <3>3, <3>4, <3>5
    <2> QED
      BY <1>1, <1>4, <2>3, <2>4
  <1> QED
    BY <1>2, <1>3, <1>4, LogGrows

LEMMA StepCursor ==
  ASSUME IInv, [Next]_vars
  PROVE  CursorInv'
  <1> USE DEF CursorInv, Enter
  <1>1. /\ log \in Seq(Notification \cup {Nothing}) /\ CursorInv
        /\ phase \in [Clients -> Phases]
        /\ next \in [Clients -> Nat \ {0}] /\ since \in [Clients -> Nat \ {0}]
        /\ seen \in [Clients -> Seq(Nat)]
        /\ view \in [Clients -> [Devices -> States \cup {Nothing}]]
    BY DEF IInv, ChannelInv, TypeOK, Notification
  <1>2. Len(log') \in Nat /\ Len(log') >= Len(log)
    <2>1. \A n \in Notifiers : Publish(n) => owed[n] \in Notification
      BY DEF Publish, IInv, TableInv, FeedTypeOK, Notification
    <2> QED
      BY <1>1, <2>1, LogGrows
  <1>3. CASE UNCHANGED sessionVars
    BY <1>1, <1>2, <1>3 DEF sessionVars
  <1>4. ASSUME NEW c \in Clients, Close(c)
        PROVE  CursorInv'
    BY <1>1, <1>4 DEF Close
  <1>5. ASSUME NEW c \in Clients, Connect(c)
        PROVE  CursorInv'
    BY <1>1, <1>5 DEF Connect
  <1>6. ASSUME NEW c \in Clients, Relay(c)
        PROVE  CursorInv'
    BY <1>1, <1>6 DEF Relay, Pending
  <1>7. ASSUME NEW c \in Clients, UNCHANGED <<next, since, seen, view>>,
               NEW place \in Phases \ {"closed"}, Enter(c, place), phase[c] # "closed"
        PROVE  CursorInv'
    BY <1>1, <1>2, <1>7
  <1> QED
    BY <1>3, <1>4, <1>5, <1>6, <1>7
    DEF Next, Serve, Report, Announce, Disconnect, Lag, Receive, BeginUpdate,
        EndLine, ActivateScene, SceneUpdate, EndScene, Resume, SendHook, Phases,
        vars, sessionVars

-----------------------------------------------------------------------------
(* What a step means for one connection. *)
Quiet(c) == UNCHANGED <<next[c], since[c], seen[c], view[c]>>

LEMMA SessionStep ==
  ASSUME IInv, [Next]_vars, NEW c \in Clients
  PROVE  \/ Quiet(c) /\ (phase'[c] = phase[c] \/ phase[c] # "closed")
         \/ Connect(c)
         \/ phase'[c] = "closed" /\ \A d \in Devices : view'[c][d] = Nothing
         \/ Relay(c)
  <1> USE DEF Quiet, Enter
  <1>1. /\ phase \in [Clients -> Phases] /\ next \in [Clients -> Nat \ {0}]
        /\ since \in [Clients -> Nat \ {0}] /\ seen \in [Clients -> Seq(Nat)]
        /\ view \in [Clients -> [Devices -> States \cup {Nothing}]]
    BY DEF IInv, ChannelInv, TypeOK
  <1>2. CASE UNCHANGED sessionVars
    BY <1>2 DEF sessionVars
  <1>3. ASSUME NEW u \in Clients, Close(u)
        PROVE  \/ Quiet(c) /\ phase'[c] = phase[c]
               \/ phase'[c] = "closed" /\ \A d \in Devices : view'[c][d] = Nothing
    <2>1. CASE u = c
      BY <1>1, <1>3, <2>1 DEF Close
    <2>2. CASE u # c
      BY <1>1, <1>3, <2>2 DEF Close
    <2> QED
      BY <2>1, <2>2
  <1>4. ASSUME NEW u \in Clients, Connect(u), u # c
        PROVE  Quiet(c) /\ phase'[c] = phase[c]
    BY <1>1, <1>4 DEF Connect
  <1>5. ASSUME NEW u \in Clients, Relay(u), u # c
        PROVE  Quiet(c) /\ phase'[c] = phase[c]
    BY <1>1, <1>5 DEF Relay
  <1>6. ASSUME NEW u \in Clients, UNCHANGED <<next, since, seen, view>>,
               NEW place, Enter(u, place), phase[u] # "closed"
        PROVE  Quiet(c) /\ (phase'[c] = phase[c] \/ phase[c] # "closed")
    BY <1>1, <1>6
  <1> QED
    BY <1>2, <1>3, <1>4, <1>5, <1>6
    DEF Next, Serve, Report, Announce, Disconnect, Lag, Receive, BeginUpdate,
        EndLine, ActivateScene, SceneUpdate, EndScene, Resume, SendHook, vars, sessionVars

LEMMA StepGapless ==
  ASSUME IInv, [Next]_vars
  PROVE  Gapless'
  <1> SUFFICES ASSUME NEW c \in Clients, phase'[c] # "closed"
      PROVE /\ \A j, k \in 1 .. Len(seen'[c]) : j < k => seen'[c][j] < seen'[c][k]
            /\ {seen'[c][k] : k \in 1 .. Len(seen'[c])} =
                 {i \in since'[c] .. next'[c] - 1 : log'[i] # Nothing}
    BY DEF Gapless
  <1>1. /\ log \in Seq(Notification \cup {Nothing}) /\ phase \in [Clients -> Phases]
        /\ next \in [Clients -> Nat \ {0}] /\ since \in [Clients -> Nat \ {0}]
        /\ seen \in [Clients -> Seq(Nat)]
        /\ since[c] <= next[c] /\ next[c] <= Len(log) + 1
        /\ phase[c] = "closed" => seen[c] = <<>>
    BY DEF IInv, ChannelInv, TypeOK, CursorInv, Notification
  <1>2. \A i \in 1 .. Len(log) : log'[i] = log[i]
    <2>1. \A n \in Notifiers : Publish(n) => owed[n] \in Notification
      BY DEF Publish, IInv, TableInv, FeedTypeOK, Notification
    <2>2. ASSUME NEW e \in Notification \cup {Nothing}, log' = Append(log, e)
          PROVE  \A i \in 1 .. Len(log) : log'[i] = log[i]
      BY <1>1, <2>2
    <2> QED
      BY <2>1, <2>2, LogGrows
  <1>3. CASE Quiet(c) /\ (phase'[c] = phase[c] \/ phase[c] # "closed")
    <2>1. phase[c] # "closed"
      BY <1>3
    <2>2. {i \in since[c] .. next[c] - 1 : log'[i] # Nothing} =
            {i \in since[c] .. next[c] - 1 : log[i] # Nothing}
      <3>1. \A i \in since[c] .. next[c] - 1 : i \in 1 .. Len(log)
        BY <1>1
      <3> QED
        BY <1>2, <3>1
    <2> QED
      BY <1>3, <2>1, <2>2 DEF Quiet, IInv, Gapless
  <1>4. CASE Connect(c)
    <2>1. seen'[c] = <<>> /\ since'[c] = next'[c] /\ next'[c] = Len(log) + 1
      BY <1>1, <1>4 DEF Connect
    <2> QED
      BY <1>1, <2>1
  <1>5. CASE Relay(c)
    <2>1. /\ next[c] \in 1 .. Len(log) /\ log' = log /\ since' = since
          /\ next'[c] = next[c] + 1 /\ phase[c] # "closed"
      BY <1>1, <1>5 DEF Relay, Pending
    <2>2. /\ \A j, k \in 1 .. Len(seen[c]) : j < k => seen[c][j] < seen[c][k]
          /\ {seen[c][k] : k \in 1 .. Len(seen[c])} =
               {i \in since[c] .. next[c] - 1 : log[i] # Nothing}
      BY <2>1 DEF IInv, Gapless
    <2>3. CASE log[next[c]] = Nothing
      BY <1>1, <1>5, <2>1, <2>2, <2>3 DEF Relay
    <2>4. CASE log[next[c]] # Nothing
      <3>1. seen'[c] = Append(seen[c], next[c])
        BY <1>1, <1>5, <2>4 DEF Relay
      <3>2. /\ seen[c] \in Seq(Nat) /\ Len(seen[c]) \in Nat /\ next[c] \in Nat
            /\ Len(seen'[c]) = Len(seen[c]) + 1
            /\ seen'[c][Len(seen[c]) + 1] = next[c]
            /\ \A k \in 1 .. Len(seen[c]) : seen'[c][k] = seen[c][k]
        BY <1>1, <3>1
      <3>3. ASSUME NEW k \in 1 .. Len(seen[c])
            PROVE  seen[c][k] \in Nat /\ seen[c][k] < next[c]
        <4>1. seen[c][k] \in {i \in since[c] .. next[c] - 1 : log[i] # Nothing}
          BY <2>2
        <4> QED
          BY <1>1, <4>1
      <3>4. \A j, k \in 1 .. Len(seen'[c]) : j < k => seen'[c][j] < seen'[c][k]
        <4> SUFFICES ASSUME NEW j \in 1 .. Len(seen[c]) + 1,
                            NEW k \in 1 .. Len(seen[c]) + 1, j < k
                     PROVE  seen'[c][j] < seen'[c][k]
          BY <3>2
        <4>1. j \in 1 .. Len(seen[c]) /\ seen'[c][j] = seen[c][j]
          BY <3>2
        <4>2. CASE k = Len(seen[c]) + 1
          BY <3>2, <3>3, <4>1, <4>2
        <4>3. CASE k \in 1 .. Len(seen[c])
          BY <2>2, <3>2, <4>1, <4>3
        <4> QED
          BY <3>2, <4>2, <4>3
      <3>5. {seen'[c][k] : k \in 1 .. Len(seen'[c])} =
              {seen[c][k] : k \in 1 .. Len(seen[c])} \cup {next[c]}
        <4>1. 1 .. Len(seen'[c]) = (1 .. Len(seen[c])) \cup {Len(seen[c]) + 1}
          BY <3>2
        <4> QED
          BY <3>2, <4>1
      <3>6. {i \in since[c] .. next[c] : log[i] # Nothing} =
              {i \in since[c] .. next[c] - 1 : log[i] # Nothing} \cup {next[c]}
        BY <1>1, <2>4
      <3>7. next'[c] - 1 = next[c]
        BY <1>1, <2>1
      <3> QED
        BY <2>1, <2>2, <3>4, <3>5, <3>6, <3>7
    <2> QED
      BY <2>3, <2>4
  <1> QED
    BY <1>3, <1>4, <1>5, SessionStep

(* The view of a client: an announcement puts a hook about its device in   *)
(* front of the client, and the last such hook brings the view up to date. *)
LEMMA StepView ==
  ASSUME IInv, [Next]_vars
  PROVE  ViewInv'
  <1> SUFFICES ASSUME NEW c \in Clients, NEW d \in Devices,
                      view'[c][d] # Nothing, SilentFrom(next[c], d)'
               PROVE  view'[c][d] = published'[d]
    BY DEF ViewInv, SilentFrom
  <1>1. /\ log \in Seq(Notification \cup {Nothing}) /\ Len(log) \in Nat
        /\ next \in [Clients -> Nat \ {0}]
        /\ view \in [Clients -> [Devices -> States \cup {Nothing}]]
        /\ next[c] <= Len(log) + 1
        /\ (phase[c] = "closed" => \A e \in Devices : view[c][e] = Nothing)
        /\ published \in [Devices -> States \cup {Unknown}]
        /\ owed \in [Notifiers -> Notification \cup {Nothing}]
    BY DEF IInv, ChannelInv, TableInv, FeedTypeOK, TypeOK, CursorInv, Notification
  <1>2. view[c][d] # Nothing /\ SilentFrom(next[c], d) => view[c][d] = published[d]
    BY DEF IInv, ViewInv
  <1>3. CASE Relay(c)
    <2>1. /\ next[c] \in 1 .. Len(log) /\ next'[c] = next[c] + 1
          /\ UNCHANGED <<log, published>>
      BY <1>1, <1>3 DEF Relay, Pending, feedVars
    <2>2. SilentFrom(next[c] + 1, d)
      BY <2>1 DEF SilentFrom
    <2>3. CASE log[next[c]] # Nothing /\ log[next[c]].device = d
      <3>1. log[next[c]].what = published[d]
        BY <2>1, <2>2, <2>3 DEF IInv, ChannelInv, LogInv
      <3>2. view'[c][d] = log[next[c]].what
        BY <1>1, <1>3, <2>3 DEF Relay
      <3> QED
        BY <2>1, <3>1, <3>2
    <2>4. CASE log[next[c]] = Nothing \/ log[next[c]].device # d
      <3>1. SilentFrom(next[c], d)
        <4>1. \A j \in next[c] .. Len(log) : j = next[c] \/ j \in next[c] + 1 .. Len(log)
          BY <1>1
        <4> QED
          BY <2>2, <2>4, <4>1 DEF SilentFrom
      <3>2. view'[c][d] = view[c][d]
        BY <1>1, <1>3, <2>4 DEF Relay
      <3> QED
        BY <1>2, <2>1, <3>1, <3>2
    <2> QED
      BY <2>3, <2>4
  <1>4. CASE Connect(c)
    BY <1>1, <1>4 DEF Connect
  <1>5. CASE Quiet(c)
    <2>1. view[c][d] # Nothing /\ next'[c] = next[c] /\ view'[c] = view[c]
      BY <1>5 DEF Quiet
    <2>2. ASSUME NEW e \in Notification \cup {Nothing}, log' = Append(log, e)
          PROVE  SilentFrom(next[c], d) /\ (e = Nothing \/ e.device # d)
      BY <1>1, <2>1, <2>2 DEF SilentFrom
    <2>3. CASE UNCHANGED <<log, published>>
      BY <1>2, <2>1, <2>3 DEF SilentFrom
    <2>4. CASE log' = Append(log, Nothing) /\ UNCHANGED published
      BY <1>2, <2>1, <2>2, <2>4
    <2>5. ASSUME NEW n \in Notifiers, log' = Append(log, owed[n]), Publish(n)
          PROVE  view'[c][d] = published'[d]
      <3>1. /\ owed[n] \in Notification
            /\ published' = [published EXCEPT ![owed[n].device] = owed[n].what]
        BY <1>1, <2>5 DEF Publish
      <3>2. SilentFrom(next[c], d) /\ owed[n].device # d
        BY <2>2, <2>5, <3>1, FeedAssumption DEF Notification
      <3> QED
        BY <1>1, <1>2, <2>1, <3>1, <3>2
    <2> QED
      BY <2>3, <2>4, <2>5, LogGrows
  <1> QED
    BY <1>3, <1>4, <1>5, SessionStep

LEMMA StepIInv == IInv /\ [Next]_vars => IInv'
  BY StepFeedType, StepOwed, StepType, StepLog, StepCursor, StepGapless, StepView
  DEF IInv, TableInv, ChannelInv

-----------------------------------------------------------------------------
(* The inductive invariant holds in every reachable state. *)
THEOREM SessionInvariant == Spec => []IInv
  BY InitIInv, StepIInv, PTL DEF Spec

(* Every variable keeps its type. *)
THEOREM SessionTypeCorrect == Spec => []TypeOK
  <1>1. IInv => TypeOK
    BY DEF IInv, ChannelInv
  <1> QED
    BY <1>1, SessionInvariant, PTL

(* An open connection never loses a state: it has relayed all that were    *)
(* announced since it subscribed and that it has taken, for every capacity *)
(* of the channel.                                                         *)
THEOREM NothingIsLost == Spec => []Gapless
  <1>1. IInv => Gapless
    BY DEF IInv
  <1> QED
    BY <1>1, SessionInvariant, PTL

(* A client that was told about a device and has no hook to wait for knows *)
(* the table, however writes, announcements and lines were interleaved.    *)
THEOREM InformedClientIsCurrent == Spec => []CaughtUpIsCurrent
  <1>1. IInv => CaughtUpIsCurrent
    <2> SUFFICES ASSUME IInv, NEW c \in Clients, NEW d \in Devices,
                        view[c][d] # Nothing, next[c] = Len(log) + 1, SolelyFed(d),
                        \A n \in Notifiers : owed[n] = Nothing \/ owed[n].device # d
                 PROVE  view[c][d] = state[d]
      BY DEF CaughtUpIsCurrent
    <2>1. SilentFrom(next[c], d)
      BY DEF SilentFrom, IInv, ChannelInv, TypeOK
    <2>2. published[d] = state[d]
      BY DEF IInv, TableInv, SettledInv, Owes
    <2> QED
      BY <2>1, <2>2 DEF IInv, ViewInv, Owes
  <1> QED
    BY <1>1, SessionInvariant, PTL

=============================================================================
