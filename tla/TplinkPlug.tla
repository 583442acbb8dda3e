----------------------------- MODULE TplinkPlug -----------------------------
(***************************************************************************)
(* A plug behind the Tplink controller (devices/controllers/tplink.rs),    *)
(* which speaks UDP: an update opens a socket of its own, sends the        *)
(* command and waits for the answer, at most response_timeout; after an    *)
(* answer that says success it sends a query from the socket of the        *)
(* listener, and the report that follows goes into the table.  The plug    *)
(* may act on a command and its answer be lost or late.                    *)
(***************************************************************************)
EXTENDS Reports

CONSTANTS
  Requesters,   \* futures of process_update_request
  MaxUpdates    \* bound: updates

ASSUME TplinkAssumption == MaxUpdates \in Nat

VARIABLES
  toPlug,     \* commands and queries on the way to the plug
  answers,    \* answers to commands on the way back
  opened,     \* sockets opened by updates so far
  socket,     \* the socket each requester waits on, or 0
  confirmed,  \* the sockets of the updates that ended without an error
  life        \* how often the server was started, less one

serverVars == <<opened, socket, confirmed, life>>
vars == <<reportVars, toPlug, answers, serverVars, netVars>>

(* Commands and states are told apart by the socket that the command came  *)
(* from, 0 for the button of the plug, and not by On and Off.  A query     *)
(* comes from the listener's socket, another one after a restart.          *)
PlugStates == 0 .. MaxUpdates
Commands == [kind : {"set"}, from : 1 .. MaxUpdates]
Queries == [kind : {"query"}, life : 0 .. MaxRestarts]
Answers == [to : 1 .. MaxUpdates, success : BOOLEAN]

TypeOK ==
  /\ history \in Seq(PlugStates) /\ Len(history) >= 1
  /\ ReportsTypeOK
  /\ toPlug \in Seq(Commands \cup Queries)
  /\ answers \subseteq Answers
  /\ opened \in 0 .. MaxUpdates /\ socket \in [Requesters -> 0 .. MaxUpdates]
  /\ confirmed \subseteq 1 .. MaxUpdates /\ life \in 0 .. MaxRestarts
  /\ NetTypeOK

Query(l) == [kind |-> "query", life |-> l]

(* The query of all devices at the start is on its way. *)
Init ==
  /\ history = <<0>>
  /\ ReportsInit
  /\ toPlug = <<Query(0)>> /\ answers = {}
  /\ opened = 0 /\ socket = [r \in Requesters |-> 0]
  /\ confirmed = {} /\ life = 0 /\ NetInit

-----------------------------------------------------------------------------
(* send_update.  Its socket is a new one: the port of one that was closed  *)
(* is taken not to be given out again while an answer to it is under way,  *)
(* as recv does not look where a datagram comes from.                      *)
Update(r) ==
  /\ socket[r] = 0 /\ opened < MaxUpdates
  /\ opened' = opened + 1
  /\ socket' = [socket EXCEPT ![r] = opened']
  /\ toPlug' = Append(toPlug, [kind |-> "set", from |-> opened'])
  /\ UNCHANGED <<reportVars, answers, confirmed, life, netVars>>

Close(r) == socket' = [socket EXCEPT ![r] = 0]

(* An update that takes the answer on the socket all updates share, and    *)
(* one that does not ask for the new state.                                *)
TakeAnswerShared(r, a) ==
  /\ socket[r] # 0
  /\ Close(r) /\ answers' = answers \ {a}
  /\ IF a.success
     THEN confirmed' = confirmed \cup {socket[r]} /\ toPlug' = Append(toPlug, Query(life))
     ELSE UNCHANGED <<confirmed, toPlug>>
  /\ UNCHANGED <<reportVars, opened, life, netVars>>

TakeAnswerQuietly(r, a) ==
  /\ socket[r] = a.to
  /\ Close(r) /\ answers' = answers \ {a}
  /\ confirmed' = IF a.success THEN confirmed \cup {a.to} ELSE confirmed
  /\ UNCHANGED <<reportVars, toPlug, opened, life, netVars>>

(* The answer arrives: is_response_success, and send_query if it is.       *)
TakeAnswer(r, a) ==
  /\ socket[r] = a.to
  /\ Close(r) /\ answers' = answers \ {a}
  /\ IF a.success
     THEN confirmed' = confirmed \cup {a.to} /\ toPlug' = Append(toPlug, Query(life))
     ELSE UNCHANGED <<confirmed, toPlug>>
  /\ UNCHANGED <<reportVars, opened, life, netVars>>

(* The timeout, or the future of the request is dropped: the socket is     *)
(* closed, no query is sent, and an answer finds nobody.                   *)
GiveUp(r) ==
  /\ socket[r] # 0
  /\ Close(r)
  /\ UNCHANGED <<reportVars, toPlug, answers, opened, confirmed, life, netVars>>

(* send_query for a client that asks. *)
Ask ==
  /\ Len(toPlug) + Len(toServer) < MaxQueries
  /\ toPlug' = Append(toPlug, Query(life))
  /\ UNCHANGED <<reportVars, answers, serverVars, netVars>>

-----------------------------------------------------------------------------
(* The plug, external: it takes its datagrams in order.  An answer without *)
(* success stands for an error code, and for an answer that cannot be read *)
(* although the plug has switched.                                         *)
PlugSwitches(done, success) ==
  /\ toPlug # <<>> /\ toPlug' = Tail(toPlug)
  /\ LET c == Head(toPlug) IN
     /\ c.kind = "set"
     /\ answers' = answers \cup {[to |-> c.from, success |-> success]}
     /\ IF done /\ Len(history) < MaxChanges
        THEN Becomes(c.from)
        ELSE ~success /\ UNCHANGED history
  /\ UNCHANGED <<toServer, tableVars, serverVars, netVars>>

(* A report to the port of a server that is gone is lost. *)
PlugReports ==
  /\ toPlug # <<>> /\ toPlug' = Tail(toPlug)
  /\ Head(toPlug).kind = "query"
  /\ IF Head(toPlug).life = life THEN Report ELSE UNCHANGED toServer
  /\ UNCHANGED <<history, tableVars, answers, serverVars, netVars>>

(* Its button. *)
PlugIsPressed ==
  /\ Len(history) < MaxChanges
  /\ Becomes(0)
  /\ UNCHANGED <<toServer, tableVars, toPlug, answers, serverVars, netVars>>

-----------------------------------------------------------------------------
(* The listener; an update that waits holds the table. *)
Listen == Hear /\ UNCHANGED <<toPlug, answers, serverVars, netVars>>

Notify ==
  /\ \A r \in Requesters : socket[r] = 0
  /\ Record
  /\ UNCHANGED <<toPlug, answers, serverVars, netVars>>

-----------------------------------------------------------------------------
Lose ==
  /\ UNCHANGED <<serverVars, overtaken>>
  /\ \/ \E i \in DOMAIN toPlug :
          /\ toPlug' = SubSeq(toPlug, 1, i - 1) \o SubSeq(toPlug, i + 1, Len(toPlug))
          /\ lost' = (lost \/ toPlug[i].kind = "query")
          /\ UNCHANGED <<reportVars, answers>>
     \/ \E a \in answers :
          /\ answers' = answers \ {a}
          /\ UNCHANGED <<reportVars, toPlug, lost>>
     \/ \E i \in DOMAIN toServer :
          /\ LoseReport(i) /\ lost' = TRUE
          /\ UNCHANGED <<toPlug, answers>>

Overtake ==
  /\ Disordered /\ UNCHANGED <<answers, serverVars>>
  /\ \/ \E i \in 1 .. Len(toPlug) - 1 :
          toPlug' = Swapped(toPlug, i) /\ UNCHANGED reportVars
     \/ \E i \in 1 .. Len(toServer) - 1 :
          OvertakeReport(i) /\ UNCHANGED toPlug

(* The server is started again, at whatever it was: its sockets and its    *)
(* table are gone, and it queries all devices.                             *)
Restart ==
  /\ life < MaxRestarts /\ life' = life + 1
  /\ socket' = [r \in Requesters |-> 0]
  /\ toServer' = <<>> /\ hearing' = 0 /\ known' = FALSE
  /\ toPlug' = Append(toPlug, Query(life'))
  /\ UNCHANGED <<history, seen, answers, opened, confirmed, netVars>>

Plug == PlugReports \/ \E done, success \in BOOLEAN : PlugSwitches(done, success)
Await(r) == GiveUp(r) \/ \E a \in answers : TakeAnswer(r, a)

Next ==
  \/ \E r \in Requesters : Update(r) \/ Await(r)
  \/ Ask \/ Plug \/ PlugIsPressed
  \/ Listen \/ Notify \/ Lose \/ Overtake \/ Restart

(* The timeout fires, the listener is polled, and the plug works.          *)
Spec ==
  /\ Init /\ [][Next]_vars
  /\ \A r \in Requesters : WF_vars(Await(r))
  /\ WF_vars(Plug) /\ WF_vars(Listen) /\ WF_vars(Notify)

-----------------------------------------------------------------------------
(* Properties. *)

(* The table says nothing the plug never was, and it may lag but does not  *)
(* run backwards unless a datagram has overtaken another, although updates *)
(* wait, give up and are repeated, datagrams are lost, and the server      *)
(* restarts.                                                               *)
Mirrored == INSTANCE Mirror WITH States <- PlugStates, ordered <- overtaken = 0
MirrorImplemented == Mirrored!MirrorSafe

(* An update that ends without an error has switched the plug itself: the  *)
(* late answer to an update that gave up is never taken for the answer to  *)
(* the next one.                                                           *)
ConfirmedIsDone ==
  \A n \in confirmed : \E i \in DOMAIN history : history[i] = n

(* What such an update did, or something later, gets into the table in the *)
(* end and is not taken back: the query is sent after the answer and thus  *)
(* after the plug has switched, and after a restart the server asks again. *)
(* What is lost of commands and answers does no harm; after a query or a   *)
(* report was lost or overtaken, nothing is promised.                      *)
ConfirmedIsSeen ==
  \A n \in 1 .. MaxUpdates :
    n \in confirmed ~>
      lost \/ overtaken > 0 \/ (known /\ \E i \in 1 .. seen : history[i] = n)

(* Of an update that gave up, the plug may have switched and the table not *)
(* know: it learns of that, and of what the button did, as soon as anybody *)
(* asks.  Whatever the plug was when a query of this server is on its way, *)
(* that state or a later one gets into the table.                          *)
AskedIsSeen ==
  \A i \in 1 .. MaxChanges :
    i \in DOMAIN history /\ (\E j \in DOMAIN toPlug : toPlug[j] = Query(life))
      ~> lost \/ (known /\ seen >= i)

=============================================================================
