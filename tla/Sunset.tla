------------------------------- MODULE Sunset -------------------------------
(***************************************************************************)
(* The sunset automation (automations/sunset_light_temp.rs): it waits for  *)
(* the evening, takes every configured light through a range of colour     *)
(* temperatures, all lights at once, and begins anew.  What fails in it    *)
(* ends it, and with it the server, which is started again.                *)
(*                                                                         *)
(* Time is counted in seconds of a short day.  A sleep never ends early,   *)
(* and at most MaxLate too late, which stands for the scheduler and for    *)
(* the time a controller takes as well.  When the sun sets is external     *)
(* (crate sunrise), and changes from day to day; the sun is assumed to set *)
(* on the date of the server's clock, as it does in the server's own time  *)
(* zone outside of the polar summer.                                       *)
(***************************************************************************)
EXTENDS Naturals, Sequences

CONSTANTS
  Lights,       \* the devices of the configuration
  First, Last,  \* color_temp_range of each
  Total,        \* total_duration_secs of each
  DayLength,
  SunsetTime, DuskTime,  \* event_time of each day, from its midnight on
  MaxLate,      \* bound: how late a sleep may end
  MaxDays,      \* bound: days
  MaxLife       \* bound: restarts of the server

Days == 0 .. MaxDays + 1

ASSUME SunsetAssumption ==
  /\ First \in [Lights -> Nat] /\ Last \in [Lights -> Nat] /\ Total \in [Lights -> Nat]
  /\ DayLength \in Nat
  /\ SunsetTime \in [Days -> 1 .. DayLength] /\ DuskTime \in [Days -> 1 .. DayLength]
  /\ \A d \in Days : SunsetTime[d] < DuskTime[d] /\ DuskTime[d] + MaxLate < DayLength
  /\ MaxLate \in Nat /\ MaxDays \in Nat \ {0} /\ MaxLife \in Nat

VARIABLES
  now,       \* the time
  phase,     \* what the automation is doing
  wakeAt,    \* when its sleep until the evening ends
  temp,      \* the colour temperature each light is to get next
  due,       \* when each light gets it
  runs,      \* the runs that were begun: after which start, when, and until when
  started,   \* when the server was started
  life       \* restarts so far

serverVars == <<started, life>>
sunsetVars == <<now, phase, wakeAt, temp, due, runs, serverVars>>

Day(t) == t \div DayLength
Sunset(day) == day * DayLength + SunsetTime[day]
Dusk(day) == day * DayLength + DuskTime[day]

SunsetTypeOK ==
  /\ now \in 0 .. MaxDays * DayLength
  /\ phase \in {"waiting", "running", "failed"}
  /\ wakeAt \in Nat
  /\ temp \in [Lights -> Nat] /\ due \in [Lights -> Nat]
  /\ \A l \in Lights : temp[l] \in First[l] .. Last[l] + 1 \/ temp[l] = First[l]
  /\ runs \in Seq([life : Nat, at : Nat, end : Nat])
  /\ \A i \in DOMAIN runs :
       runs[i].life <= life /\ runs[i].at <= now /\ runs[i].end <= now
  /\ started \in 0 .. now /\ life \in 0 .. MaxLife

(* The head of the loop: when to begin, seen from t.  Before it, the same  *)
(* with the dusk of today, and with a dusk one day later.                  *)
NextEveningToday(t) == IF Sunset(Day(t)) > t THEN Sunset(Day(t)) ELSE Dusk(Day(t))

NextEveningLater(t) == IF Sunset(Day(t)) > t THEN Sunset(Day(t)) ELSE Dusk(Day(t) + 1) + DayLength

NextEvening(t) == IF Sunset(Day(t)) > t THEN Sunset(Day(t)) ELSE Dusk(Day(t) + 1)

(* The server may start at any time of the first day.                      *)
SunsetInit ==
  /\ now \in 0 .. DayLength - 1
  /\ phase = "waiting" /\ wakeAt = NextEvening(now)
  /\ temp = First /\ due = [l \in Lights |-> 0]
  /\ runs = <<>> /\ started = now /\ life = 0

-----------------------------------------------------------------------------
(* The evening: every light gets its first temperature at once.            *)
Begin ==
  /\ phase = "waiting" /\ now >= wakeAt
  /\ phase' = "running"
  /\ temp' = First /\ due' = [l \in Lights |-> now]
  /\ runs' = Append(runs, [life |-> life, at |-> now, end |-> 0])
  /\ UNCHANGED <<now, wakeAt, serverVars>>

Done(l) == temp[l] > Last[l]

(* The delay of a range of one temperature is a division by zero, and one  *)
(* that is rounded up takes longer than it should.                         *)
DelayRoundedUp(l) == Total[l] \div (Last[l] - First[l]) + 1

Delay(l) == Total[l] \div (Last[l] - First[l])

(* A loop that does not end. *)
NextTempOn(l) ==
  /\ phase = "running" /\ now >= due[l] /\ First[l] < Last[l]
  /\ temp' = [temp EXCEPT ![l] = @ + 1]
  /\ due' = [due EXCEPT ![l] = now + Delay(l)]
  /\ UNCHANGED <<now, phase, wakeAt, runs, serverVars>>

(* The next temperature, and the sleep after it.  The last one is followed *)
(* by a sleep, too, after which the light is done.                         *)
NextTemp(l) ==
  /\ phase = "running" /\ ~Done(l) /\ now >= due[l]
  /\ First[l] < Last[l]
  /\ temp' = [temp EXCEPT ![l] = @ + 1]
  /\ due' = [due EXCEPT ![l] = now + Delay(l)]
  /\ UNCHANGED <<now, phase, wakeAt, runs, serverVars>>

(* process_update_request fails, or the delay cannot be computed. *)
Fail(l) ==
  /\ phase = "running" /\ ~Done(l) /\ now >= due[l]
  /\ phase' = "failed"
  /\ UNCHANGED <<now, wakeAt, temp, due, runs, serverVars>>

(* try_join_all is done, and the loop goes on. *)
End ==
  /\ phase = "running" /\ \A l \in Lights : Done(l) /\ now >= due[l]
  /\ phase' = "waiting" /\ wakeAt' = NextEvening(now)
  /\ runs' = [runs EXCEPT ![Len(runs)].end = now]
  /\ temp' = First /\ due' = [l \in Lights |-> 0]
  /\ UNCHANGED <<now, serverVars>>

(* The server is started again, after a failure or at any time. *)
SunsetRestart ==
  /\ life < MaxLife /\ life' = life + 1
  /\ phase' = "waiting" /\ wakeAt' = NextEvening(now)
  /\ temp' = First /\ due' = [l \in Lights |-> 0]
  /\ started' = now
  /\ UNCHANGED <<now, runs>>

-----------------------------------------------------------------------------
(* A second passes, while nothing is too late. *)
Tick ==
  /\ now < MaxDays * DayLength /\ now' = now + 1
  /\ phase = "waiting" => now < wakeAt + MaxLate
  /\ phase = "running" =>
       /\ \A l \in Lights : now < due[l] + MaxLate \/ Done(l)
       /\ \E l \in Lights : ~Done(l) \/ now < due[l] + MaxLate
  /\ UNCHANGED <<phase, wakeAt, temp, due, runs, serverVars>>

SunsetNext ==
  \/ Begin \/ End \/ SunsetRestart \/ Tick
  \/ \E l \in Lights : NextTemp(l) \/ Fail(l)

SunsetSpec == SunsetInit /\ [][SunsetNext]_sunsetVars

-----------------------------------------------------------------------------
(* Properties. *)

(* The lights are not taken through their range twice in an evening,       *)
(* although there are two times that an evening may begin at, a short run  *)
(* ends between them, and the server restarts.                             *)
OncePerEvening ==
  \A i, j \in DOMAIN runs : i < j => Day(runs[i].at) < Day(runs[j].at)

(* And a server that is up when the sun sets leaves no evening out, but    *)
(* for one at whose sunset the run of an earlier evening still goes on.    *)
EveryEvening ==
  phase # "failed" =>
    \A day \in 0 .. Day(now) - 1 : Sunset(day) > started =>
      \E i \in DOMAIN runs :
        \/ Day(runs[i].at) = day
        \/ /\ runs[i].life = life /\ Day(runs[i].at) < day
           /\ (runs[i].end = 0 \/ runs[i].end >= Sunset(day))

(* A light gets to its last temperature within total_duration_secs, but    *)
(* for the lateness of each step, although the delays are rounded and the  *)
(* lights have ranges and durations of their own.                          *)
RampInTime ==
  \A l \in Lights :
    phase = "running" /\ First[l] < Last[l] /\ Done(l) =>
      due[l] - Delay(l) - runs[Len(runs)].at <= Total[l] + (Last[l] - First[l] + 1) * MaxLate

=============================================================================
