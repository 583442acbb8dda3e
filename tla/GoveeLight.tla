----------------------------- MODULE GoveeLight -----------------------------
(***************************************************************************)
(* A light behind the Govee controller (devices/controllers/govee.rs),     *)
(* which speaks UDP and gets no answers: an update sends its command,      *)
(* waits for update_query_delay and queries the light, and the report that *)
(* follows goes into the table.  A relative brightness is computed from    *)
(* the state in the table, which is what the light last reported and not   *)
(* what it was last told; every such update is taken to ask for the same   *)
(* step, StepSize (NumericUpdate and apply_to are external).               *)
(***************************************************************************)
EXTENDS Reports, Integers

CONSTANTS
  MaxLevel,     \* BRIGHTNESS_PROPS.max, 100
  StepSize,     \* BRIGHTNESS_PROPS.step, 1
  Wanted        \* the updates that clients ask for, kind and value

ASSUME GoveeAssumption ==
  /\ MaxLevel \in Nat \ {0} /\ StepSize \in Nat \ {0}
  /\ Wanted \subseteq {"power", "level", "up", "down"} \X (0 .. MaxLevel)

VARIABLES
  toLight,   \* commands and queries on the way to the light
  delaying,  \* how many updates are in update_query_delay
  abandoned, \* whether an update was dropped in its delay
  changes,   \* updates so far, and changes of the light by itself
  restarts   \* restarts so far

goveeServerVars == <<delaying, abandoned, changes, restarts>>
goveeVars == <<reportVars, toLight, goveeServerVars, netVars>>

Levels == 0 .. MaxLevel

(* What a command asks for: a power, a level, or a level one step from the *)
(* one in the table; "base" is the index of the state a step was computed  *)
(* from.  Of a state only the level matters here: brightness turns the     *)
(* light on (a comment in build_update_payload says so), and a power       *)
(* leaves the level as it is.                                              *)
Causes == {"power", "level", "up", "down"}
GoveeCommands == [kind : Causes, level : Levels, base : Nat]
GoveeQuery == [kind |-> "query"]
LightStates == [by : Causes \cup {"app"}, level : Levels, base : Nat]

GoveeTypeOK ==
  /\ history \in Seq(LightStates) /\ Len(history) >= 1
  /\ ReportsTypeOK
  /\ toLight \in Seq(GoveeCommands \cup {GoveeQuery})
  /\ delaying \in 0 .. changes /\ changes \in 0 .. MaxChanges
  /\ restarts \in 0 .. MaxRestarts /\ abandoned \in BOOLEAN
  /\ NetTypeOK

(* The query of all devices at the start is on its way, and the light is   *)
(* dark, or set to something else by the time it takes that query.         *)
GoveeInit ==
  /\ history = <<[by |-> "app", level |-> 0, base |-> 0]>>
  /\ ReportsInit
  /\ toLight = <<GoveeQuery>>
  /\ delaying = 0 /\ abandoned = FALSE /\ changes = 0 /\ restarts = 0
  /\ NetInit

-----------------------------------------------------------------------------
(* build_update_payload.  A state that is Unknown counts as brightness 0;  *)
(* AttributeUpdate::apply_to (devicectrl-common, external) stays in range. *)
Brightness == IF known THEN history[seen].level ELSE 0
Base == IF known THEN seen ELSE 0

OneUp(level) == IF level + StepSize < MaxLevel THEN level + StepSize ELSE MaxLevel
OneDown(level) == IF level > StepSize THEN level - StepSize ELSE 0
Steps == {"up", "down"}
OneStep(kind, level) == IF kind = "up" THEN OneUp(level) ELSE OneDown(level)

(* One that takes every state for Unknown. *)
PayloadFromUnknown(kind, value) ==
  [kind |-> kind, base |-> IF kind \in Steps THEN Base ELSE 0,
   level |-> CASE kind = "power" -> 0
               [] kind = "level" -> value
               [] kind \in Steps -> OneStep(kind, 0)]

Payload(kind, value) ==
  [kind |-> kind, base |-> IF kind \in Steps THEN Base ELSE 0,
   level |-> CASE kind = "power" -> 0
               [] kind = "level" -> value
               [] kind \in Steps -> OneStep(kind, Brightness)]

(* send_update, up to its delay. *)
GoveeUpdate(kind, value) ==
  /\ changes < MaxChanges
  /\ toLight' = Append(toLight, Payload(kind, value))
  /\ delaying' = delaying + 1 /\ changes' = changes + 1
  /\ UNCHANGED <<reportVars, abandoned, restarts, netVars>>

(* An update that ends without its query. *)
SettleQuietly ==
  /\ delaying > 0 /\ delaying' = delaying - 1
  /\ UNCHANGED <<reportVars, toLight, abandoned, changes, restarts, netVars>>

(* The delay is over. *)
Settle ==
  /\ delaying > 0 /\ delaying' = delaying - 1
  /\ toLight' = Append(toLight, GoveeQuery)
  /\ UNCHANGED <<reportVars, abandoned, changes, restarts, netVars>>

(* The future is dropped in its delay, and with it the query. *)
Abandon ==
  /\ delaying > 0 /\ delaying' = delaying - 1 /\ abandoned' = TRUE
  /\ UNCHANGED <<reportVars, toLight, changes, restarts, netVars>>

(* send_query for a client that asks. *)
GoveeAsk ==
  /\ Len(toLight) + Len(toServer) < MaxQueries
  /\ toLight' = Append(toLight, GoveeQuery)
  /\ UNCHANGED <<reportVars, goveeServerVars, netVars>>

-----------------------------------------------------------------------------
(* The light, external: it takes its datagrams in order.                   *)
LightChanges ==
  /\ toLight # <<>> /\ toLight' = Tail(toLight)
  /\ LET c == Head(toLight) IN
     /\ c.kind # "query"
     /\ Becomes([by |-> c.kind, base |-> c.base,
          level |-> IF c.kind = "power" THEN history[Len(history)].level ELSE c.level])
  /\ UNCHANGED <<toServer, tableVars, goveeServerVars, netVars>>

LightReports ==
  /\ toLight # <<>> /\ toLight' = Tail(toLight)
  /\ Head(toLight) = GoveeQuery
  /\ Report
  /\ UNCHANGED <<history, tableVars, goveeServerVars, netVars>>

(* Its own app or buttons. *)
LightIsSet ==
  /\ changes < MaxChanges /\ changes' = changes + 1
  /\ \E l \in Levels : Becomes([by |-> "app", level |-> l, base |-> 0])
  /\ UNCHANGED <<toServer, tableVars, toLight, delaying, abandoned, restarts, netVars>>

-----------------------------------------------------------------------------
(* The listener; an update in its delay holds the table. *)
GoveeListen == Hear /\ UNCHANGED <<toLight, goveeServerVars, netVars>>

GoveeNotify ==
  /\ delaying = 0
  /\ Record
  /\ UNCHANGED <<toLight, goveeServerVars, netVars>>

-----------------------------------------------------------------------------
GoveeLose ==
  /\ UNCHANGED <<goveeServerVars, overtaken>>
  /\ \/ \E i \in DOMAIN toLight :
          /\ toLight' = SubSeq(toLight, 1, i - 1) \o SubSeq(toLight, i + 1, Len(toLight))
          /\ lost' = (lost \/ toLight[i] = GoveeQuery)
          /\ UNCHANGED reportVars
     \/ \E i \in DOMAIN toServer :
          LoseReport(i) /\ lost' = TRUE /\ UNCHANGED toLight

GoveeOvertake ==
  /\ Disordered /\ UNCHANGED goveeServerVars
  /\ \/ \E i \in 1 .. Len(toLight) - 1 :
          toLight' = Swapped(toLight, i) /\ UNCHANGED reportVars
     \/ \E i \in 1 .. Len(toServer) - 1 :
          OvertakeReport(i) /\ UNCHANGED toLight

(* The server is started again: the table is gone, and it queries all      *)
(* devices.  Its port is the same, so the youngest reports may arrive.     *)
GoveeRestart ==
  /\ restarts < MaxRestarts /\ restarts' = restarts + 1
  /\ delaying' = 0 /\ hearing' = 0 /\ known' = FALSE
  /\ \E k \in 0 .. Len(toServer) : toServer' = SubSeq(toServer, k + 1, Len(toServer))
  /\ toLight' = Append(toLight, GoveeQuery)
  /\ UNCHANGED <<history, seen, abandoned, changes, netVars>>

Light == LightChanges \/ LightReports

GoveeNext ==
  \/ \E u \in Wanted : GoveeUpdate(u[1], u[2])
  \/ Settle \/ Abandon
  \/ GoveeAsk \/ Light \/ LightIsSet
  \/ GoveeListen \/ GoveeNotify \/ GoveeLose \/ GoveeOvertake \/ GoveeRestart

(* The delay ends, the listener is polled, and the light works. *)
GoveeSpec ==
  /\ GoveeInit /\ [][GoveeNext]_goveeVars
  /\ WF_goveeVars(Settle) /\ WF_goveeVars(Light) /\ WF_goveeVars(GoveeListen) /\ WF_goveeVars(GoveeNotify)

-----------------------------------------------------------------------------
(* Properties. *)

(* The table says nothing the light never was, and it may lag but does not *)
(* run backwards unless a datagram has overtaken another, although         *)
(* datagrams are lost, updates are abandoned and the server restarts.      *)
GoveeMirrored == INSTANCE Mirror WITH States <- LightStates, ordered <- overtaken = 0
GoveeMirrorImplemented == GoveeMirrored!MirrorSafe

(* Steps up never dim the light, although each is computed from a table    *)
(* that lags behind the light, and by a different amount each time: while  *)
(* the light is only switched and stepped up, no step comes from a table   *)
(* older than that, and no datagram has overtaken another, its level does  *)
(* not fall.  (Several steps may add up to one, and a step from a table    *)
(* that is older, or Unknown after a restart, may well dim it.)            *)
SteppedUp(e, k) ==
  \/ history[e].by = "power"
  \/ history[e].by = "up" /\ history[e].base >= k

StepsUpNeverDim ==
  overtaken = 0 =>
    \A k, n \in DOMAIN history :
      k < n /\ (\A e \in k + 1 .. n : SteppedUp(e, k))
        => history[n].level >= history[n - 1].level

(* A step counts, and counts once, when the table knew of every earlier    *)
(* change of the level: if the light was only switched between the state a *)
(* step was computed from and the step, the step takes it one StepSize, or *)
(* to the end of its range, from where it was.  So two steps in a row add  *)
(* up when the report of the first comes before the second is asked for,   *)
(* even if commands and reports are lost or overtaken.                     *)
StepsCount ==
  \A e \in DOMAIN history :
    /\ history[e].by \in Steps /\ history[e].base # 0
    /\ \A i \in history[e].base + 1 .. e - 1 : history[i].by = "power"
    => history[e].level = OneStep(history[e].by, history[e - 1].level)

(* What an update did to the light gets into the table, or a later state   *)
(* does, unless an update was abandoned or a datagram lost or overtaken:   *)
(* the query follows the command, and after a restart the server asks      *)
(* again.                                                                  *)
EveryUpdateIsSeen ==
  \A i \in 2 .. MaxChanges + 1 :
    i \in DOMAIN history /\ history[i].by # "app" ~>
      lost \/ abandoned \/ overtaken > 0 \/ (known /\ seen >= i)

(* Of an update whose future is dropped in its delay, the light may have   *)
(* changed and the table not know: it learns of that, and of what the app  *)
(* did, as soon as anybody asks.  Whatever the light was when a query is   *)
(* on its way, that state or a later one gets into the table.              *)
GoveeAskedIsSeen ==
  \A i \in 1 .. MaxChanges + 1 :
    i \in DOMAIN history /\ (\E j \in DOMAIN toLight : toLight[j] = GoveeQuery)
      ~> lost \/ (known /\ seen >= i)

=============================================================================
