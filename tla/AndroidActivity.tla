-------------------------- MODULE AndroidActivity --------------------------
(* The Android capsule and the activity that drives it. The handlers of the *)
(* capsule are operators on its state; an action is a callback of the       *)
(* activity with all the calls it makes, or one call of the host through    *)
(* the native ABI. Authority is kept with the epoch in which it was given,  *)
(* a label the code does not have; 0 is no authority. Permissions and turns *)
(* are recorded and answered, nothing else depends on them: they are left   *)
(* out, and with them the restore of a plan, which writes nothing else.     *)
EXTENDS Naturals

CONSTANTS
  ApiLevels,       \* levels a device may have
  MaxAndroid,      \* bound: epochs of an instance
  MaxRoutes        \* bound: route observations of an instance

ASSUME AndroidAssumption ==
  ApiLevels \subseteq Nat /\ MaxAndroid \in Nat \ {0} /\ MaxRoutes \in Nat

VARIABLES
  droid,      \* the capsule, or NoDroid
  aApi,       \* API level of the device, 0 until it is first used
  aFocus,     \* the activity holds the audio focus
  aRoutes,    \* route observations the activity has sent
  aOrphan     \* history: why the focus is held without a session

androidVars == <<droid, aApi, aFocus, aRoutes, aOrphan>>

ResourceNames == {"activation", "notification"}
SpeechKinds == {"transcribe", "speak"}
NoDroid == [up |-> FALSE]

\* A capsule as it is instantiated: its lifecycle counts as created.
FreshDroid ==
  [up |-> TRUE, life |-> "created", held |-> [r \in ResourceNames |-> 0],
   background |-> 0, session |-> 0, generation |-> 0,
   tiers |-> {}, speaking |-> 0, speech |-> "none",
   binding |-> 0, epoch |-> 1, deaths |-> {}]

AndroidInit ==
  droid = NoDroid /\ aApi = 0 /\ aFocus = FALSE /\ aRoutes = 0 /\ aOrphan = "none"

-----------------------------------------------------------------------------
(* Handlers of the capsule.                                                 *)

Halting(life) == life \in {"suspended", "stopped"}
\* Fault: speech goes on.
Unquieted(c) == [c EXCEPT !.held = [r \in ResourceNames |-> 0], !.session = 0]
Quieted(c) == [c EXCEPT !.held = [r \in ResourceNames |-> 0], !.session = 0,
                        !.speech = "none", !.speaking = 0]
NextEpoch(c) == [c EXCEPT !.epoch = @ + 1]
Lifecycle(c, life) ==
  IF Halting(life) THEN NextEpoch([Quieted(c) EXCEPT !.life = life, !.background = 0])
                   ELSE [c EXCEPT !.life = life]

(* Events of the system: rotation and recreation change nothing, death      *)
(* takes the binding too and leaves the permission to work in background.   *)
Event(c, event) ==
  CASE event \in {"rotation", "activity-recreation"} -> c
    [] event \in {"background-restriction", "suspend"} -> Lifecycle(c, "suspended")
    [] event = "process-death" ->
         NextEpoch([Quieted(c) EXCEPT !.life = "stopped", !.binding = 0,
                                      !.deaths = @ \union {c.epoch}])
    [] event = "restart" -> [c EXCEPT !.life = "created"]
    [] event = "memory-pressure" -> Quieted(c)

Insert(c, r) == IF c.held[r] = 0 THEN [c EXCEPT !.held[r] = c.epoch] ELSE c
Activated(c) == IF Halting(c.life) THEN c ELSE Insert(c, "activation")

\* Audio: neither arming nor a route asks for the lifecycle.
\* Fault: a stop is taken only while the activity is active.
StopActive(c) == IF c.life = "active" THEN [c EXCEPT !.session = 0] ELSE c
StopAudio(c) == [c EXCEPT !.session = 0]
ArmAudio(c) == [c EXCEPT !.session = c.epoch]
Supported(api) == api \in 28..35
Route(c, generation, lost) ==
  IF generation <= c.generation THEN c
    ELSE [c EXCEPT !.generation = generation, !.session = IF lost THEN 0 ELSE @]

StopSpeech(c) == [c EXCEPT !.speech = "none", !.speaking = 0]
StartSpeech(c, kind) ==
  IF kind \in c.tiers THEN [c EXCEPT !.speech = kind, !.speaking = c.epoch] ELSE c

-----------------------------------------------------------------------------
(* Callbacks of the activity.                                               *)

Room == droid.up /\ droid.epoch + 1 < MaxAndroid

OnCreate(again) ==
  /\ ~droid.up
  /\ aApi' \in IF aApi = 0 THEN ApiLevels ELSE {aApi}
  /\ LET restarted == Event(FreshDroid, "restart")
         recreated == IF again THEN Event(restarted, "activity-recreation") ELSE restarted IN
     droid' = Activated(Lifecycle(recreated, "created"))
  /\ aRoutes' = 0
  /\ UNCHANGED <<aFocus, aOrphan>>

Calls(c) == droid.up /\ droid' = c /\ UNCHANGED <<aApi, aFocus, aRoutes, aOrphan>>

(* release of the activity's audio: the focus is given up and the capsule   *)
(* told to stop.                                                            *)
ShellReleases(c) ==
  /\ droid.up /\ aFocus' = FALSE /\ aOrphan' = "none" /\ droid' = c
  /\ UNCHANGED <<aApi, aRoutes>>

OnResume == Calls(Lifecycle(droid, "active"))
OnPause == Room /\ ShellReleases(Lifecycle(Event(StopAudio(droid), "suspend"), "suspended"))
OnStop == Room /\ ShellReleases(Event(StopAudio(droid), "background-restriction"))
OnDestroy == ShellReleases(NoDroid)
OnNewIntent == Calls(Activated(droid))
OnFocusLost == aFocus /\ ShellReleases(StopAudio(droid))
OnTrimMemory ==
  /\ droid.up /\ droid' = Event(droid, "memory-pressure")
  /\ aOrphan' = IF aFocus THEN "pressure" ELSE aOrphan
  /\ UNCHANGED <<aApi, aFocus, aRoutes>>

(* The system kills the process: nothing is left but the device.            *)
ProcessKilled ==
  /\ droid.up /\ droid' = NoDroid /\ aFocus' = FALSE /\ aRoutes' = 0 /\ aOrphan' = "none"
  /\ aApi' = aApi

(* arm: without the focus the capsule is told to stop, and the activity     *)
(* keeps what it held; with it the activity counts as armed whatever the    *)
(* capsule answers. A refused arm raises before the routes are observed.    *)
ArmDenied ==
  /\ droid.up /\ droid' = StopAudio(droid)
  /\ aOrphan' = IF aFocus THEN "denied" ELSE aOrphan
  /\ UNCHANGED <<aApi, aFocus, aRoutes>>
ArmRefused ==
  /\ droid.up /\ ~Supported(aApi)
  /\ aFocus' = TRUE /\ aOrphan' = "refused" /\ UNCHANGED <<droid, aApi, aRoutes>>
Observe(c, lost) ==
  /\ aRoutes < MaxRoutes /\ aRoutes' = aRoutes + 1
  /\ droid' = Route(c, aRoutes + 1, lost)
  /\ aOrphan' = IF lost THEN "route" ELSE IF droid'.session = 0 THEN aOrphan ELSE "none"
ArmGranted(lost) ==
  /\ droid.up /\ Supported(aApi)
  /\ aFocus' = TRUE /\ Observe(ArmAudio(droid), lost) /\ aApi' = aApi
OnDevices(lost) ==
  /\ droid.up /\ aFocus /\ Observe(droid, lost) /\ UNCHANGED <<aApi, aFocus>>

PermissionResult(microphone) ==
  IF microphone THEN Calls(droid) ELSE ShellReleases(StopSpeech(StopAudio(droid)))
OnNotification == Calls(Insert(droid, "notification"))
OnBackground(allowed) ==
  Calls([droid EXCEPT !.background = IF allowed THEN droid.epoch ELSE 0])

-----------------------------------------------------------------------------
(* Calls of the host on the capsule.                                        *)

\* The session's deadline passed.
Tick ==
  /\ droid.up /\ droid.session # 0
  /\ droid' = StopAudio(droid) /\ aOrphan' = "expired"
  /\ UNCHANGED <<aApi, aFocus, aRoutes>>
Bind == Calls([droid EXCEPT !.binding = droid.epoch])
InstallEvidence(kind) == Calls([droid EXCEPT !.tiers = @ \union {kind}])
Transcribe == Calls(StartSpeech(droid, "transcribe"))
Speak == Calls(StartSpeech(droid, "speak"))
Transcript == droid.up /\ droid.speech = "transcribe" /\ Calls(StopSpeech(droid))
SpeechStop == Calls(StopSpeech(droid))
HostDeath ==
  /\ Room /\ droid' = Event(droid, "process-death")
  /\ aOrphan' = IF aFocus THEN "death" ELSE aOrphan
  /\ UNCHANGED <<aApi, aFocus, aRoutes>>

AndroidNext ==
  \/ \E again \in BOOLEAN : OnCreate(again)
  \/ OnResume \/ OnPause \/ OnStop \/ OnDestroy \/ OnNewIntent
  \/ OnFocusLost \/ OnTrimMemory \/ ProcessKilled
  \/ ArmDenied \/ ArmRefused
  \/ \E lost \in BOOLEAN : ArmGranted(lost) \/ OnDevices(lost)
  \/ \E yes \in BOOLEAN : PermissionResult(yes) \/ OnBackground(yes)
  \/ OnNotification \/ Tick \/ Bind
  \/ \E kind \in SpeechKinds : InstallEvidence(kind)
  \/ Transcribe \/ Speak \/ Transcript \/ SpeechStop \/ HostDeath

AndroidSpec == AndroidInit /\ [][AndroidNext]_androidVars

-----------------------------------------------------------------------------
AndroidTypeOK ==
  /\ aApi \in ApiLevels \union {0} /\ aFocus \in BOOLEAN /\ aRoutes \in 0..MaxRoutes
  /\ aOrphan \in {"none", "pressure", "denied", "refused", "route", "expired", "death"}
  /\ \/ droid = NoDroid
     \/ /\ droid.life \in {"created", "active", "suspended", "stopped"}
        /\ droid.epoch \in 1..MaxAndroid
        /\ droid.tiers \subseteq SpeechKinds
        /\ (droid.speech = "none") = (droid.speaking = 0)

(* Authority does not outlive the epoch that gave it: what the capsule      *)
(* holds, plays, hears or may do in background was asked for since the last *)
(* suspension, stop or death. The permission for the background alone       *)
(* survives a death the capsule is told of, and only that; the binding of   *)
(* the providers survives all but that.                                     *)
AndroidForgets ==
  droid.up =>
    /\ \A r \in ResourceNames : droid.held[r] \in {0, droid.epoch}
    /\ droid.session \in {0, droid.epoch}
    /\ droid.speaking \in {0, droid.epoch}
    /\ droid.background # 0 => droid.background..(droid.epoch - 1) \subseteq droid.deaths
    /\ droid.binding # 0 =>
         (droid.binding..(droid.epoch - 1)) \intersect droid.deaths = {}
    /\ droid.speech # "none" => droid.speech \in droid.tiers

(* The activity and the capsule agree on the microphone: the capsule has a  *)
(* session only while the activity holds the audio focus, and a focus held  *)
(* without one is left from a session that ended where the activity was not *)
(* told.                                                                    *)
AndroidAgrees ==
  /\ droid.up /\ droid.session # 0 => aFocus
  /\ aFocus /\ droid.up /\ droid.session = 0 => aOrphan # "none"
  /\ ~droid.up => ~aFocus
=============================================================================
