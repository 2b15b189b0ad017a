--------------------------- MODULE PlatformHosts ---------------------------
(* The hosts of the platform, of which a device is one: a browser page, an  *)
(* Android activity, an iOS scene, a PC with glasses, a desktop, a memory   *)
(* mount, MIDI and audio devices, the seeded platform and the scripted      *)
(* process port of a test, an executable that boots its capsule, a build    *)
(* that composes bundles and resolves requests. They share two promises: a  *)
(* suspension gives no authority back, and nothing is held that nobody      *)
(* answers for.                                                             *)
EXTENDS BrowserCapsule, AndroidActivity, IosScene, VitureSessions, DesktopCapsules,
        MemoryMount, MediaPorts, SeededModel, ScriptedProcess, CapsuleBoot,
        PlatformRecords

VARIABLE host

HostKinds == {"browser", "android", "ios", "glasses", "desktop", "mount", "media",
              "seeded", "scripted", "boot", "build"}

hostsVars == <<host, browserVars, androidVars, iosVars, vitureVars, desktopVars,
               mountVars, mediaVars, simVars, scriptVars, bootVars, recordVars>>

HostsInit ==
  /\ host \in HostKinds
  /\ BrowserInit /\ AndroidInit /\ IosInit /\ VitureInit /\ DesktopInit
  /\ MountInit /\ MediaInit /\ SimInit /\ ScriptInit /\ BootInit /\ RecordsInit

(* The host takes a step of its own; nothing of the others exists here.     *)
HostsNext ==
  \/ /\ host = "browser" /\ BrowserNext
     /\ UNCHANGED <<host, androidVars, iosVars, vitureVars, desktopVars, mountVars,
                    mediaVars, simVars, scriptVars, bootVars, recordVars>>
  \/ /\ host = "android" /\ AndroidNext
     /\ UNCHANGED <<host, browserVars, iosVars, vitureVars, desktopVars, mountVars,
                    mediaVars, simVars, scriptVars, bootVars, recordVars>>
  \/ /\ host = "ios" /\ IosNext
     /\ UNCHANGED <<host, browserVars, androidVars, vitureVars, desktopVars, mountVars,
                    mediaVars, simVars, scriptVars, bootVars, recordVars>>
  \/ /\ host = "glasses" /\ VitureNext
     /\ UNCHANGED <<host, browserVars, androidVars, iosVars, desktopVars, mountVars,
                    mediaVars, simVars, scriptVars, bootVars, recordVars>>
  \/ /\ host = "desktop" /\ DesktopNext
     /\ UNCHANGED <<host, browserVars, androidVars, iosVars, vitureVars, mountVars,
                    mediaVars, simVars, scriptVars, bootVars, recordVars>>
  \/ /\ host = "mount" /\ MountNext
     /\ UNCHANGED <<host, browserVars, androidVars, iosVars, vitureVars, desktopVars,
                    mediaVars, simVars, scriptVars, bootVars, recordVars>>
  \/ /\ host = "media" /\ MediaNext
     /\ UNCHANGED <<host, browserVars, androidVars, iosVars, vitureVars, desktopVars,
                    mountVars, simVars, scriptVars, bootVars, recordVars>>
  \/ /\ host = "seeded" /\ SimNext
     /\ UNCHANGED <<host, browserVars, androidVars, iosVars, vitureVars, desktopVars,
                    mountVars, mediaVars, scriptVars, bootVars, recordVars>>
  \/ /\ host = "scripted" /\ ScriptNext
     /\ UNCHANGED <<host, browserVars, androidVars, iosVars, vitureVars, desktopVars,
                    mountVars, mediaVars, simVars, bootVars, recordVars>>
  \/ /\ host = "boot" /\ BootNext
     /\ UNCHANGED <<host, browserVars, androidVars, iosVars, vitureVars, desktopVars,
                    mountVars, mediaVars, simVars, scriptVars, recordVars>>
  \/ /\ host = "build" /\ RecordsNext
     /\ UNCHANGED <<host, browserVars, androidVars, iosVars, vitureVars, desktopVars,
                    mountVars, mediaVars, simVars, scriptVars, bootVars>>

HostsSpec == HostsInit /\ [][HostsNext]_hostsVars

-----------------------------------------------------------------------------
\* The state of every host has its type.
HostsTypeOK ==
  /\ host \in HostKinds
  /\ BrowserTypeOK /\ AndroidTypeOK /\ IosTypeOK /\ VitureTypeOK /\ DesktopTypeOK
  /\ MountTypeOK /\ MediaTypeOK /\ SimTypeOK /\ ScriptTypeOK /\ BootTypeOK /\ RecordsTypeOK

(* A suspension does to authority what its capsule says. Page, activity and *)
(* scene forget: what they hold afterwards they were given afterwards,      *)
(* whatever is answered late. A desktop keeps its resources, untouched, and *)
(* what was cut off or used up before is not given back after it.           *)
SuspensionIsRespected ==
  BrowserForgets /\ AndroidForgets /\ IosForgets /\ DesktopSuspends

(* What a session holds of its device is held while the session is, on      *)
(* either side of the boundary: the audio focus of the Android activity,    *)
(* the document scopes of the iOS scene, the glasses of a VITURE session,   *)
(* the native side of a desktop capsule, cleaned up once by stop or drop.   *)
(* Each exception is a path on which the other side is not told.            *)
ResourcesFollowSessions == AndroidAgrees /\ IosAgrees /\ VitureAgrees /\ DesktopAgrees

(* Nothing is open, stored or recorded that its owner cannot find: handles  *)
(* of the browser page (dispatch), files and directories of the memory      *)
(* mount (replace, remove_dir_all), MIDI and hotplug events (reconnect,     *)
(* poll_hotplug); each exception is a path that loses track, by name.       *)
NothingIsLost == OpenHandlesAreKnown /\ MountKeepsTrack /\ MediaDeliverOnce

(* Requests are resolved completely or not at all, to the standing offers,  *)
(* support is shown on evidence of what it is shown for (platform_require,  *)
(* compose_bundle), the replies of a seeded platform can be replayed, and   *)
(* a scripted process answers as its script and the budget say              *)
(* (SeededPlatform::apply, ModelProcess::run).                              *)
RecordsAreSound == ResolutionIsSound /\ SupportIsAttested /\ RepliesReplay
                   /\ ScriptIsFollowed
=============================================================================
