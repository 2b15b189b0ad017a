--------------------------- MODULE VitureSessions ---------------------------
(* Physical sessions on the glasses, of two routes. A Carina session owns a *)
(* provider handle; the legacy sessions share the IMU switch of the loaded  *)
(* library. Every call of the SDK may fail, and then has no effect.         *)
EXTENDS FiniteSets

CONSTANTS
  CarinaSessions,   \* sessions that may be connected on the Carina route
  LegacySessions    \* sessions that may be connected on the legacy route

ASSUME VitureAssumption == CarinaSessions \intersect LegacySessions = {}

VARIABLES
  open,      \* connected sessions
  started,   \* sessions that count as started
  ready,     \* Carina sessions whose provider is initialized
  running,   \* Carina sessions whose provider delivers
  imu,       \* the IMU reports
  vLeft,     \* history: reports were switched on by send, or left by a drop
  vMuted     \* history: started legacy sessions another one switched off

vitureVars == <<open, started, ready, running, imu, vLeft, vMuted>>

VitureInit ==
  /\ open = {} /\ started = {} /\ ready = {} /\ running = {}
  /\ imu = FALSE /\ vLeft = FALSE /\ vMuted = {}

Outcomes == {"ok", "failed"}

(* legacy_set_imu, by any session on behalf of the sessions in who.         *)
SetImu(on, who) ==
  /\ imu' = on
  /\ vMuted' = IF on THEN {} ELSE (started \intersect LegacySessions) \ who

ConnectSession(s) ==
  /\ s \notin open /\ open' = open \union {s}
  /\ UNCHANGED <<started, ready, running, imu, vLeft, vMuted>>

(* Starting a provider initializes it first; starting what already runs     *)
(* repeats the calls. When start fails after initialize the provider stays  *)
(* initialized and the session counts as what it was.                       *)
Start(s) ==
  /\ s \in open /\ started' = started \union {s}
  /\ IF s \in CarinaSessions
       THEN /\ ready' = ready \union {s} /\ running' = running \union {s}
            /\ UNCHANGED <<imu, vLeft, vMuted>>
       ELSE SetImu(TRUE, {}) /\ UNCHANGED <<ready, running, vLeft>>
  /\ UNCHANGED open
\* Fault: the session counts as started before its provider does.
CountsEarly(s) == started' = started \union {s}
Counts(s) == started' = started
StartFails(s) ==
  /\ s \in open \intersect CarinaSessions
  /\ ready' = ready \union {s}
  /\ Counts(s)
  /\ UNCHANGED <<open, running, imu, vLeft, vMuted>>

\* Fault: the session counts as stopped before the call is made.
StoppedFirst(s, outcome) ==
  /\ started' = started \ {s}
  /\ IF outcome = "failed" THEN UNCHANGED <<running, imu, vLeft, vMuted>>
     ELSE IF s \in CarinaSessions
       THEN running' = running \ {s} /\ UNCHANGED <<imu, vLeft, vMuted>>
       ELSE SetImu(FALSE, {s}) /\ vLeft' = FALSE /\ UNCHANGED running

(* A session that does not count as started is not stopped; a stop that     *)
(* fails leaves it started.                                                 *)
Stopped(s, outcome) ==
  /\ started' = IF outcome = "ok" THEN started \ {s} ELSE started
  /\ IF outcome = "failed" THEN UNCHANGED <<running, imu, vLeft, vMuted>>
     ELSE IF s \in CarinaSessions
       THEN running' = running \ {s} /\ UNCHANGED <<imu, vLeft, vMuted>>
       ELSE SetImu(FALSE, {s}) /\ vLeft' = FALSE /\ UNCHANGED running
Close(s, outcome) ==
  /\ s \in open /\ s \in started
  /\ Stopped(s, outcome)
  /\ UNCHANGED <<open, ready>>

(* reconnect stops a started session, opens a new provider, which destroys  *)
(* the old one, and starts. A step that fails leaves the session where the  *)
(* steps before it brought it: with a stop that failed or no new provider,  *)
(* or stopped, on a new one that is initialized or not. When all succeed    *)
(* only the switch of the IMU has moved.                                    *)
ReconnectFails(s) ==
  /\ s \in open
  /\ \/ /\ s \in started /\ ready' = ready
        /\ \E outcome \in Outcomes : Stopped(s, outcome)
     \/ /\ s \in CarinaSessions
        /\ ready' \in {ready \ {s}, ready \union {s}}
        /\ IF s \in started THEN Stopped(s, "ok")
                            ELSE UNCHANGED <<started, running, imu, vLeft, vMuted>>
  /\ UNCHANGED open
Reconnects(s) ==
  /\ s \in open /\ started' = started \union {s}
  /\ IF s \in CarinaSessions
       THEN /\ ready' = ready \union {s} /\ running' = running \union {s}
            /\ UNCHANGED <<imu, vLeft, vMuted>>
       ELSE /\ SetImu(TRUE, {})
            /\ vLeft' = (vLeft /\ s \notin started)
            /\ UNCHANGED <<ready, running>>
  /\ UNCHANGED open

(* send asks neither for the route nor for a started session.               *)
SendImuReports(s, on) ==
  /\ s \in open /\ SetImu(on, {}) /\ vLeft' = on
  /\ UNCHANGED <<open, started, ready, running>>

(* The session is dropped: a provider is destroyed with its handle, the     *)
(* reports of a started legacy session stay on.                             *)
Destroyed(s) == running' = running \ {s} /\ ready' = ready \ {s}
Drop(s) ==
  /\ s \in open /\ open' = open \ {s} /\ started' = started \ {s}
  /\ Destroyed(s)
  /\ vLeft' = (vLeft \/ (imu /\ s \in started \intersect LegacySessions))
  /\ vMuted' = vMuted \ {s}
  /\ UNCHANGED imu

VitureNext ==
  \E s \in CarinaSessions \union LegacySessions :
    \/ ConnectSession(s) \/ Start(s) \/ StartFails(s) \/ ReconnectFails(s)
    \/ Reconnects(s) \/ Drop(s)
    \/ \E outcome \in Outcomes : Close(s, outcome)
    \/ \E on \in BOOLEAN : SendImuReports(s, on)

VitureSpec == VitureInit /\ [][VitureNext]_vitureVars

-----------------------------------------------------------------------------
VitureTypeOK ==
  /\ open \subseteq CarinaSessions \union LegacySessions
  /\ started \subseteq open /\ ready \subseteq open \intersect CarinaSessions
  /\ running \subseteq open \intersect CarinaSessions
  /\ imu \in BOOLEAN /\ vLeft \in BOOLEAN /\ vMuted \subseteq started \intersect LegacySessions

(* The glasses work for whom the sessions say: an initialized provider      *)
(* delivers exactly while its session counts as started, through starts     *)
(* that fail half way, stops and reconnections that fail, and drops; the    *)
(* IMU reports only for a started legacy session unless send or a drop left *)
(* it on, and a started one goes without only if a send or another session  *)
(* switched it off.                                                         *)
VitureAgrees ==
  /\ running = started \intersect CarinaSessions
  /\ running \subseteq ready
  /\ imu => vLeft \/ started \intersect LegacySessions # {}
  /\ ~imu => started \intersect LegacySessions = vMuted
=============================================================================
