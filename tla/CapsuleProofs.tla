---------------------------- MODULE CapsuleProofs ----------------------------
(* Theorems about the capsules of a browser page, an Android activity, an   *)
(* iOS scene, the glasses and the desktops, for any handles, documents,     *)
(* sessions, tokens and bounds: authority ends with the suspension of its   *)
(* owner, and what is held on the other side is held for a session.         *)
EXTENDS BrowserCapsule, AndroidActivity, IosScene, VitureSessions, DesktopCapsules,
        FiniteSetTheorems, TLAPS

-----------------------------------------------------------------------------
(* Desktops.                                                                *)

Lives == {"ready", "active", "suspended", "stopped", "dropped"}
DeskRecords ==
  [kind : Desktops, allowed : BOOLEAN, life : Lives, used : 0..MaxRequests,
   entropy : 0..MaxEntropy, cancelled : SUBSET Tokens]

Histories ==
  [held : [surface : BOOLEAN, tree : BOOLEAN], admitted : Nat, cleaned : Nat,
   dead : SUBSET Tokens, revoked : SUBSET Tokens, late : SUBSET Tokens]

DesktopShape ==
  /\ desk \in DeskRecords \union {NoDesk}
  /\ native \in [surface : BOOLEAN, tree : BOOLEAN, cancelled : SUBSET Tokens]
  /\ dHistory \in Histories

\* Before a capsule is opened nothing happened; afterwards it counts what it
\* admitted and refuses whatever was cancelled or revoked, and one on Linux is
\* never active or stopped.
DeskKnows ==
  /\ desk = NoDesk =>
       /\ dHistory.cleaned = 0 /\ dHistory.admitted = 0
       /\ dHistory.dead = {} /\ native.cancelled = {}
  /\ desk # NoDesk =>
       /\ dHistory.admitted = desk.used
       /\ dHistory.dead \subseteq desk.cancelled
       /\ desk.kind = "linux" => desk.life \in {"ready", "suspended", "dropped"}

DesktopInv == DesktopShape /\ DeskKnows /\ DesktopSuspends /\ DesktopAgrees

\* A record of a capsule is none of no capsule.
LEMMA DeskIsThere ==
  ASSUME DesktopShape, desk.kind # "none"
  PROVE  desk \in DeskRecords /\ desk # NoDesk
BY DEF DesktopShape, NoDesk

\* No capsule has no kind of a desktop.
LEMMA NoDeskKind == NoDesk.kind = "none" /\ NoDesk \notin DeskRecords
BY DEF NoDesk, DeskRecords, Desktops

LEMMA DesktopInitInv == DesktopInit => DesktopInv
BY NoDeskKind, DesktopAssumption DEF DesktopInit, DesktopInv, DesktopShape,
   Histories, Held, DeskKnows, DesktopSuspends, DesktopAgrees

\* Calls that touch the native side or only ask for it.
LEMMA FrameworkKeeps ==
  ASSUME DesktopInv,
         \/ PermissionStatus \/ RequestPermission \/ ActivateDesktop \/ CancelProcessTree
         \/ \E launch \in BOOLEAN : DispatchRequest(launch)
  PROVE  DesktopInv'
<1> USE DEF DesktopInv, EnsureRunning, Framework, Held, desktopVars
<1>1. desk \in DeskRecords /\ desk # NoDesk
  BY DeskIsThere DEF PermissionStatus, RequestPermission, ActivateDesktop,
     CancelProcessTree, DispatchRequest
<1>2. DesktopShape'
  <2>1. CASE PermissionStatus \/ RequestPermission
    BY <1>1, <2>1 DEF DesktopShape, DeskRecords, Lives, PermissionStatus, RequestPermission
  <2>2. CASE ActivateDesktop
    BY <1>1, <2>2 DEF DesktopShape, DeskRecords, Lives, ActivateDesktop
  <2>3. CASE CancelProcessTree
    BY <1>1, <2>3 DEF DesktopShape, DeskRecords, Lives, CancelProcessTree
  <2>4. ASSUME NEW launch \in BOOLEAN, DispatchRequest(launch) PROVE DesktopShape'
    BY <1>1, <2>4 DEF DesktopShape, DeskRecords, Lives, DispatchRequest
  <2> QED
    BY <2>1, <2>2, <2>3, <2>4
<1>3. DeskKnows' /\ DesktopSuspends' /\ DesktopAgrees'
  BY <1>1, NoDeskKind DEF DeskKnows, DesktopSuspends, DesktopAgrees, DesktopShape,
     DeskRecords, Desktops, PermissionStatus, RequestPermission, ActivateDesktop,
     CancelProcessTree, DispatchRequest
<1> QED
  BY <1>2, <1>3

\* Stop and drop clean up, unless the capsule was stopped before.
LEMMA StopKeeps ==
  ASSUME DesktopInv, StopDesktop \/ DropDesktop
  PROVE  DesktopInv'
<1> USE DEF DesktopInv, Held, StopDesktop, DropDesktop, Stop, Framework
<1>1. desk \in DeskRecords /\ desk # NoDesk /\ desk.life # "dropped"
  BY DeskIsThere
<1>2. PICK life \in {"stopped", "dropped"} : Stop(life)
  OBVIOUS
<1>3. /\ desk' \in DeskRecords /\ desk'.life = life
      /\ desk'.cancelled = desk.cancelled /\ desk'.kind = desk.kind
      /\ desk'.used = desk.used
  BY <1>1, <1>2 DEF DeskRecords, Lives
<1>4. CASE desk.life = "stopped"
  BY <1>1, <1>3, <1>4, NoDeskKind DEF DeskKnows, DesktopSuspends, DesktopAgrees,
     DesktopShape, DeskRecords, Desktops
<1>5. CASE desk.life # "stopped"
  <2>1. DesktopShape'
    <3>1. Cleanup
      BY <1>2, <1>5
    <3>2. native' \in [surface : BOOLEAN, tree : BOOLEAN, cancelled : SUBSET Tokens]
      BY <3>1 DEF Cleanup, DesktopShape
    <3>3. dHistory' \in Histories
      BY <3>1 DEF Cleanup, DesktopShape, Histories
    <3> QED
      BY <1>3, <3>2, <3>3 DEF DesktopShape
  <2>2. /\ dHistory'.cleaned = dHistory.cleaned + 1 /\ dHistory'.dead = dHistory.dead
        /\ dHistory'.held = dHistory.held /\ dHistory'.late = dHistory.late
        /\ dHistory'.admitted = dHistory.admitted /\ dHistory'.revoked = dHistory.revoked
        /\ ~native'.surface /\ ~native'.tree /\ native'.cancelled = native.cancelled
    BY <1>2, <1>5 DEF Cleanup, DesktopShape, Histories
  <2> QED
    BY <1>1, <1>3, <1>5, <2>1, <2>2, NoDeskKind DEF DeskKnows, DesktopSuspends,
       DesktopAgrees, DeskRecords, Desktops
<1> QED
  BY <1>4, <1>5

\* Opening, suspending and resuming change the capsule alone.
LEMMA LifeKeeps ==
  ASSUME DesktopInv,
         \/ \E kind \in Desktops, allowed \in BOOLEAN : OpenDesktop(kind, allowed)
         \/ SuspendDesktop \/ ResumeDesktop
  PROVE  DesktopInv'
<1> USE DEF DesktopInv, DesktopShape, Held
<1>1. ASSUME NEW kind \in Desktops, NEW allowed \in BOOLEAN, OpenDesktop(kind, allowed)
      PROVE  DesktopInv'
  <2>1. desk' \in DeskRecords /\ desk' # NoDesk /\ desk'.life = "ready"
    BY <1>1, NoDeskKind, DesktopAssumption DEF OpenDesktop, DeskRecords, Lives
  <2> QED
    BY <1>1, <2>1 DEF OpenDesktop, DeskKnows, DesktopSuspends, DesktopAgrees
<1>2. CASE SuspendDesktop \/ ResumeDesktop
  <2>1. desk \in DeskRecords /\ desk # NoDesk
    BY <1>2, DeskIsThere DEF SuspendDesktop, ResumeDesktop, EnsureRunning, Framework, OnLinux
  <2>2. desk.life \notin {"stopped", "dropped"}
    BY <1>2, <2>1 DEF SuspendDesktop, ResumeDesktop, EnsureRunning, Framework, OnLinux,
       DeskKnows
  <2>3. /\ desk' \in DeskRecords /\ desk' # NoDesk /\ desk'.life \in {"suspended", "ready"}
        /\ desk'.kind = desk.kind /\ desk'.used = desk.used
        /\ desk'.cancelled = desk.cancelled /\ native' = native
    BY <1>2, <2>1, NoDeskKind DEF SuspendDesktop, ResumeDesktop, Resumed, DeskRecords, Lives
  <2>4. /\ dHistory' \in Histories
        /\ desk'.life = "suspended" => dHistory'.held = [surface |-> native.surface,
                                                         tree |-> native.tree]
        /\ dHistory'.admitted = dHistory.admitted /\ dHistory'.late = dHistory.late
        /\ dHistory'.dead = dHistory.dead /\ dHistory'.revoked = dHistory.revoked
        /\ dHistory'.cleaned = dHistory.cleaned
    BY <1>2, <2>1 DEF SuspendDesktop, ResumeDesktop, Resumed, DeskRecords, Histories
  <2> QED
    BY <2>1, <2>2, <2>3, <2>4 DEF DeskKnows, DesktopSuspends, DesktopAgrees
<1> QED
  BY <1>1, <1>2

\* A token that was cancelled is refused before it reaches the portal.
LEMMA LinuxKeeps ==
  ASSUME DesktopInv, NEW token \in Tokens,
         \/ ApplyFact(token) \/ ApplyDesktop(token) \/ Revoke(token)
         \/ \E bytes \in 1..2 : ApplyEntropy(token, bytes)
         \/ \E other \in Tokens : ApplyCancel(token, other)
  PROVE  DesktopInv'
<1> USE DEF DesktopInv, OnLinux, Admits, Held
<1>1. desk \in DeskRecords /\ desk # NoDesk /\ desk.life \in {"ready", "suspended"}
      /\ dHistory \in Histories
  BY DeskIsThere DEF ApplyFact, ApplyDesktop, Revoke, ApplyEntropy, ApplyCancel, DeskKnows,
     DesktopShape
<1>2. ASSUME Admits(token)
      PROVE  /\ desk.life = "ready" /\ desk.used + 1 \in 0..MaxRequests
             /\ Charged \in DeskRecords /\ Charged # NoDesk
             /\ Charged = [desk EXCEPT !.used = desk.used + 1]
             /\ Counted \in Histories
             /\ Counted = [dHistory EXCEPT !.admitted = dHistory.admitted + 1]
             /\ dHistory.admitted + 1 = desk.used + 1
  <2>1. desk.life = "ready" /\ desk.used + 1 \in 0..MaxRequests
    BY <1>1, <1>2, DesktopAssumption DEF DeskRecords
  <2>2. Charged \in DeskRecords /\ Charged = [desk EXCEPT !.used = desk.used + 1]
    BY <1>1, <2>1 DEF Charged, DeskRecords
  <2>3. /\ Counted \in Histories
        /\ Counted = [dHistory EXCEPT !.admitted = dHistory.admitted + 1]
    BY <1>1 DEF Counted, Histories
  <2> QED
    BY <1>1, <2>1, <2>2, <2>3, NoDeskKind DEF DeskKnows
<1>3. CASE ApplyFact(token)
  BY <1>1, <1>2, <1>3, NoDeskKind, DesktopAssumption DEF ApplyFact, DesktopShape, DeskRecords,
     Histories, DeskKnows, DesktopSuspends, DesktopAgrees
<1>4. CASE ApplyDesktop(token)
  <2>1. token \notin dHistory.dead /\ {token} \intersect dHistory.dead = {}
    BY <1>1, <1>4 DEF ApplyDesktop, DeskKnows
  <2>2. /\ dHistory' \in Histories /\ dHistory'.late = dHistory.late
        /\ dHistory'.admitted = dHistory.admitted + 1 /\ dHistory'.held = dHistory.held
        /\ dHistory'.dead = dHistory.dead /\ dHistory'.revoked = dHistory.revoked
        /\ dHistory'.cleaned = dHistory.cleaned
    BY <1>1, <1>2, <1>4, <2>1 DEF ApplyDesktop, Histories
  <2> QED
    BY <1>1, <1>2, <1>4, <2>2, NoDeskKind, DesktopAssumption DEF ApplyDesktop, DesktopShape,
       DeskRecords, DeskKnows, DesktopSuspends, DesktopAgrees
<1>5. CASE Revoke(token)
  BY <1>1, <1>5, NoDeskKind DEF Revoke, DesktopShape, DeskRecords, Histories, DeskKnows,
     DesktopSuspends, DesktopAgrees
<1>6. ASSUME NEW bytes \in 1..2, ApplyEntropy(token, bytes) PROVE DesktopInv'
  <2>1. PICK entropy \in 0..MaxEntropy : desk' = [Charged EXCEPT !.entropy = entropy]
    <3>1. Charged.entropy \in 0..MaxEntropy
      BY <1>2, <1>6 DEF ApplyEntropy, DeskRecords
    <3>2. (IF Charged.entropy + bytes <= MaxEntropy THEN Charged.entropy + bytes
                                                    ELSE Charged.entropy) \in 0..MaxEntropy
      BY <3>1, DesktopAssumption
    <3> QED
      BY <1>6, <3>2 DEF ApplyEntropy
  <2> QED
    BY <1>1, <1>2, <1>6, <2>1, NoDeskKind, DesktopAssumption DEF ApplyEntropy, DesktopShape,
       DeskRecords, Histories, DeskKnows, DesktopSuspends, DesktopAgrees
<1>7. ASSUME NEW other \in Tokens, ApplyCancel(token, other) PROVE DesktopInv'
  <2>1. /\ desk' \in DeskRecords /\ desk' # NoDesk /\ desk'.life = "ready"
        /\ desk'.kind = "linux" /\ desk'.used = desk.used + 1
        /\ desk'.cancelled = desk.cancelled \union {other}
    BY <1>1, <1>2, <1>7, NoDeskKind DEF ApplyCancel, DeskRecords
  <2>2. /\ dHistory' \in Histories /\ dHistory'.late = dHistory.late
        /\ dHistory'.admitted = dHistory.admitted + 1 /\ dHistory'.held = dHistory.held
        /\ dHistory'.dead = dHistory.dead \union {other}
        /\ dHistory'.revoked = dHistory.revoked /\ dHistory'.cleaned = dHistory.cleaned
    BY <1>1, <1>2, <1>7 DEF ApplyCancel, Histories
  <2>3. /\ native' \in [surface : BOOLEAN, tree : BOOLEAN, cancelled : SUBSET Tokens]
        /\ native'.cancelled = native.cancelled \union {other}
        /\ native'.surface = native.surface /\ native'.tree = native.tree
    BY <1>7 DEF ApplyCancel, DesktopShape
  <2> QED
    BY <1>1, <1>2, <1>7, <2>1, <2>2, <2>3, DesktopAssumption DEF ApplyCancel, DesktopShape,
       DeskKnows, DesktopSuspends, DesktopAgrees
<1> QED
  BY <1>3, <1>4, <1>5, <1>6, <1>7

LEMMA DesktopStepInv == DesktopInv /\ [DesktopNext]_desktopVars => DesktopInv'
<1> SUFFICES ASSUME DesktopInv, [DesktopNext]_desktopVars PROVE DesktopInv'
  OBVIOUS
<1>1. CASE UNCHANGED desktopVars
  BY <1>1 DEF desktopVars, DesktopInv, DesktopShape, Held, DeskKnows, DesktopSuspends,
     DesktopAgrees
<1>2. CASE DesktopNext
  BY <1>2, FrameworkKeeps, StopKeeps, LifeKeeps, LinuxKeeps DEF DesktopNext
<1> QED
  BY <1>1, <1>2

LEMMA DesktopInvariant == DesktopSpec => []DesktopInv
BY DesktopInitInv, DesktopStepInv, PTL DEF DesktopSpec

\* The capsule's record is well formed, and budgets are kept.
THEOREM DesktopTypes == DesktopSpec => []DesktopTypeOK
<1>1. DesktopInv => DesktopTypeOK
  BY DEF DesktopInv, DesktopShape, DeskRecords, Lives, DesktopTypeOK
<1> QED
  BY <1>1, DesktopInvariant, PTL

\* A suspended capsule's surface and process tree are those the suspension found,
\* and suspensions give back neither budget nor tokens that were cut off.
THEOREM DesktopsSuspend == DesktopSpec => []DesktopSuspends
<1>1. DesktopInv => DesktopSuspends
  BY DEF DesktopInv
<1> QED
  BY <1>1, DesktopInvariant, PTL

\* The native side is cleaned up exactly once, and has nothing left then; of the
\* tokens the capsule refuses the portal was told, unless they were revoked.
THEOREM DesktopsCleanUpOnce == DesktopSpec => []DesktopAgrees
<1>1. DesktopInv => DesktopAgrees
  BY DEF DesktopInv
<1> QED
  BY <1>1, DesktopInvariant, PTL

-----------------------------------------------------------------------------
(* The iOS scene.                                                           *)

SceneLives == {"connected", "active", "suspended"}
SceneRecords ==
  [up : {TRUE}, life : SceneLives, held : [IosResources -> Nat],
   granted : SUBSET IosPermissions, background : Nat, documents : [Documents -> Nat],
   epoch : 1..MaxScenes]

\* A well-formed capsule holds nothing while it is suspended, and otherwise only
\* what was given in this epoch.
GivenNow(c, label) == label = 0 \/ (IsActive(c) /\ label = c.epoch)

SceneOK(c) ==
  /\ c \in SceneRecords
  /\ \A r \in IosResources : GivenNow(c, c.held[r])
  /\ \A d \in Documents : GivenNow(c, c.documents[d])
  /\ GivenNow(c, c.background)

IosInv ==
  /\ \/ capsule = NoCapsule /\ scopes = {}
     \/ SceneOK(capsule) /\ IosAgrees
  /\ scopes \subseteq Documents /\ iStray \subseteq scopes

LEMMA NoCapsuleIsDown == ~NoCapsule.up /\ \A c \in SceneRecords : c.up
BY DEF NoCapsule, SceneRecords

\* A capsule that the scene calls is there.
LEMMA SceneIsUp ==
  ASSUME IosInv, capsule.up
  PROVE  SceneOK(capsule) /\ IosAgrees
BY NoCapsuleIsDown DEF IosInv

\* Activations, permissions, notifications, audio devices, background and
\* memory pressure keep a capsule well formed, and its documents as they are.
LEMMA SceneHandlers ==
  ASSUME NEW c, SceneOK(c), NEW p \in IosPermissions, NEW yes \in BOOLEAN,
         NEW k \in {Activation(c), Permission(c, p, yes), Notification(c),
                    AudioDevice(c, yes), Background(c, yes), MemoryPressure(c)}
  PROVE  SceneOK(k) /\ k.documents = c.documents
<1> USE DEF SceneOK, SceneRecords
<1> DEFINE Same(d) == SceneOK(d) /\ d.documents = c.documents
<1>1. ASSUME IsActive(c), NEW r \in IosResources PROVE Same(Hold(c, r))
  <2>1. CASE c.held[r] = 0
    <3>1. Hold(c, r) = [c EXCEPT !.held = [c.held EXCEPT ![r] = c.epoch]]
      BY <2>1 DEF Hold
    <3>2. [c.held EXCEPT ![r] = c.epoch] \in [IosResources -> Nat]
      BY IosAssumption
    <3> QED
      BY <1>1, <3>1, <3>2 DEF IsActive, GivenNow
  <2>2. CASE c.held[r] # 0
    BY <2>2 DEF Hold
  <2> QED
    BY <2>1, <2>2
<1>2. CASE k = Activation(c)
  BY <1>1, <1>2 DEF Activation, IosResources, IsActive, SceneLives, Hold
<1>3. CASE k = Permission(c, p, yes)
  BY <1>3 DEF Permission, IsActive, GivenNow
<1>4. CASE k = Notification(c)
  BY <1>1, <1>4 DEF Notification, Available, IosResources
<1>5. CASE k = AudioDevice(c, yes)
  <2>1. CASE yes /\ Available(c, "microphone")
    BY <1>1, <1>5, <2>1 DEF AudioDevice, Available, IosResources
  <2>2. CASE ~(yes /\ Available(c, "microphone"))
    BY <1>5, <2>2 DEF AudioDevice, IsActive, GivenNow
  <2> QED
    BY <2>1, <2>2
<1>6. CASE k = Background(c, yes)
  <2>1. CASE yes /\ IsActive(c)
    <3>1. k = [c EXCEPT !.background = c.epoch] /\ c.epoch \in Nat
      BY <1>6, <2>1, IosAssumption DEF Background
    <3> QED
      BY <2>1, <3>1 DEF IsActive, GivenNow
  <2>2. CASE ~(yes /\ IsActive(c))
    BY <1>6, <2>2 DEF Background, IsActive, GivenNow
  <2> QED
    BY <2>1, <2>2
<1>7. CASE k = MemoryPressure(c)
  BY <1>7 DEF MemoryPressure, IsActive, Nothing, GivenNow
<1> QED
  BY <1>2, <1>3, <1>4, <1>5, <1>6, <1>7

\* A suspension forgets everything; activity again forgets nothing.
LEMMA SceneLifecycles ==
  ASSUME NEW c, SceneOK(c)
  PROVE  /\ SceneOK(IosLifecycle(c, "active"))
         /\ IosLifecycle(c, "active").documents = c.documents
         /\ c.epoch < MaxScenes =>
              /\ SceneOK(IosLifecycle(c, "suspended"))
              /\ IosLifecycle(c, "suspended").documents = [d \in Documents |-> 0]
<1> USE DEF SceneOK, SceneRecords, SceneLives, IosLifecycle, IsActive, GivenNow
<1>1. /\ SceneOK(IosLifecycle(c, "active"))
      /\ IosLifecycle(c, "active").documents = c.documents
  OBVIOUS
<1>2. ASSUME c.epoch < MaxScenes
      PROVE  /\ SceneOK(IosLifecycle(c, "suspended"))
             /\ IosLifecycle(c, "suspended").documents = [d \in Documents |-> 0]
  <2>1. IosLifecycle(c, "suspended") \in SceneRecords
    <3>1. c.epoch + 1 \in 1..MaxScenes
      BY <1>2, IosAssumption
    <3> QED
      BY <3>1 DEF Nothing
  <2> QED
    BY <2>1 DEF Nothing
<1> QED
  BY <1>1, <1>2

LEMMA IosInitInv == IosInit => IosInv
BY DEF IosInit, IosInv

\* A scene connects with the documents it was opened for.
LEMMA ConnectKeeps ==
  ASSUME IosInv, NEW urls \in SUBSET Documents, ConnectScene(urls)
  PROVE  IosInv'
<1> DEFINE now == IosLifecycle(FreshCapsule, "connected")
           given == [d \in Documents |-> IF d \in urls THEN 1 ELSE 0]
<1>1. SceneOK(now) /\ now.life = "connected" /\ now.epoch = 1
      /\ now.documents = [d \in Documents |-> 0]
  <2>1. now = [up |-> TRUE, life |-> "connected", held |-> Nothing, granted |-> {},
               background |-> 0, documents |-> [d \in Documents |-> 0], epoch |-> 1]
    BY DEF FreshCapsule, IosLifecycle
  <2>2. now \in SceneRecords
    <3>1. Nothing \in [IosResources -> Nat] /\ [d \in Documents |-> 0] \in [Documents -> Nat]
      BY DEF Nothing
    <3>2. 1 \in 1..MaxScenes
      BY IosAssumption
    <3> HIDE DEF now
    <3> QED
      BY <2>1, <3>1, <3>2 DEF SceneRecords, SceneLives
  <2> QED
    BY <2>1, <2>2 DEF SceneOK, GivenNow, Nothing
<1>0. /\ iStray' = {} /\ scopes' = urls
      /\ capsule' = IF urls = {} THEN now
                    ELSE Activation([now EXCEPT !.documents = given])
  <2>1. scopes = {}
    BY NoCapsuleIsDown DEF ConnectScene, IosInv, SceneOK
  <2> QED
    BY <2>1 DEF ConnectScene, IosInv
<1>2. CASE urls = {}
  BY <1>0, <1>1, <1>2 DEF IosInv, IosAgrees
<1>3. CASE urls # {}
  <2>1. SceneOK([now EXCEPT !.documents = given])
        /\ [now EXCEPT !.documents = given].documents = given
    BY <1>1 DEF SceneOK, SceneRecords, GivenNow, IsActive
  <2>2. SceneOK(capsule') /\ capsule'.documents = given
    BY <1>0, <1>3, <2>1, SceneHandlers DEF IosPermissions
  <2> QED
    BY <1>0, <2>2 DEF IosInv, IosAgrees
<1> QED
  BY <1>2, <1>3

\* The scene opens or loses a scope, and the capsule follows.
LEMMA ScopesKeep ==
  ASSUME IosInv, ResignActive \/ Disconnect \/ \E d \in Documents : OpensUrl(d)
  PROVE  IosInv'
<1>1. SceneOK(capsule) /\ IosAgrees
  BY SceneIsUp DEF ResignActive, Disconnect, OpensUrl
<1>2. CASE ResignActive
  <2> DEFINE alone == WithoutGrants(capsule)
  <2>1. SceneOK(alone) /\ alone.epoch = capsule.epoch
    BY <1>1 DEF WithoutGrants, SceneOK, SceneRecords, GivenNow, IsActive
  <2>2. capsule' = IosLifecycle(alone, "suspended") /\ alone.epoch < MaxScenes
    BY <1>2, <2>1 DEF ResignActive
  <2> HIDE DEF alone
  <2>3. SceneOK(capsule') /\ capsule'.documents = [d \in Documents |-> 0]
    BY <2>1, <2>2, SceneLifecycles
  <2> QED
    BY <1>2, <2>3 DEF ResignActive, IosInv, IosAgrees
<1>3. CASE Disconnect
  BY <1>3 DEF Disconnect, IosInv
<1>4. ASSUME NEW d \in Documents, OpensUrl(d) PROVE IosInv'
  <2> DEFINE granted == DocumentGrant(capsule, d, TRUE)
  <2>1. /\ SceneOK(granted)
        /\ \A e \in Documents \ {d} : granted.documents[e] = capsule.documents[e]
    <3>1. PICK label \in {0, capsule.epoch, capsule.documents[d]} :
             /\ GivenNow(capsule, label)
             /\ granted = [capsule EXCEPT !.documents = [@ EXCEPT ![d] = label]]
      BY <1>1 DEF DocumentGrant, SceneOK, SceneRecords, GivenNow
    <3>2. label \in Nat
      BY <1>1, <3>1, IosAssumption DEF SceneOK, SceneRecords
    <3> QED
      <4> DEFINE documents == [capsule.documents EXCEPT ![d] = label]
      <4>1. documents \in [Documents -> Nat]
        BY <1>1, <3>2 DEF SceneOK, SceneRecords
      <4>2. /\ documents[d] = label
            /\ \A e \in Documents \ {d} : documents[e] = capsule.documents[e]
        BY <1>1 DEF SceneOK, SceneRecords
      <4>3. granted = [capsule EXCEPT !.documents = documents]
        BY <3>1
      <4> HIDE DEF documents, granted
      <4> QED
        <5>1. /\ granted \in SceneRecords /\ granted.documents = documents
              /\ granted.life = capsule.life /\ granted.epoch = capsule.epoch
              /\ granted.held = capsule.held /\ granted.background = capsule.background
          BY <1>1, <4>1, <4>3 DEF SceneOK, SceneRecords
        <5>2. \A v : GivenNow(capsule, v) => GivenNow(granted, v)
          BY <5>1 DEF GivenNow, IsActive
        <5>3. \A e \in Documents : GivenNow(capsule, documents[e])
          BY <1>1, <3>1, <4>2 DEF SceneOK
        <5> QED
          BY <1>1, <4>2, <5>1, <5>2, <5>3 DEF SceneOK
  <2> HIDE DEF granted
  <2>2. SceneOK(capsule') /\ capsule'.documents = granted.documents
    <3>1. capsule' = Activation(granted)
      BY <1>4 DEF OpensUrl, OpenUrl, granted
    <3> QED
      BY <2>1, <3>1, SceneHandlers DEF IosPermissions
  <2>3. {e \in Documents : capsule'.documents[e] # 0} = scopes' \ iStray'
    BY <1>1, <1>4, <2>1, <2>2 DEF OpensUrl, IosAgrees, SceneOK, SceneRecords
  <2> QED
    BY <1>4, <2>2, <2>3 DEF OpensUrl, IosInv, IosAgrees
<1> QED
  BY <1>2, <1>3, <1>4

\* What else the capsule is told leaves documents and scopes alone.
LEMMA TellingKeeps ==
  ASSUME IosInv, NEW p \in IosPermissions, NEW yes \in BOOLEAN,
         NEW k \in {IosLifecycle(capsule, "active"), Activation(capsule),
                    Permission(capsule, p, yes), Notification(capsule),
                    AudioDevice(capsule, yes), Background(capsule, yes),
                    MemoryPressure(capsule)},
         IosTells(k)
  PROVE  IosInv'
<1>1. SceneOK(capsule) /\ IosAgrees
  BY SceneIsUp DEF IosTells
<1>2. SceneOK(k) /\ k.documents = capsule.documents
  <2>1. CASE k = IosLifecycle(capsule, "active")
    BY <1>1, <2>1, SceneLifecycles
  <2>2. CASE k # IosLifecycle(capsule, "active")
    BY <1>1, <2>2, SceneHandlers
  <2> QED
    BY <2>1, <2>2
<1> QED
  BY <1>1, <1>2 DEF IosTells, IosInv, IosAgrees

LEMMA IosStepInv == IosInv /\ [IosNext]_iosVars => IosInv'
<1> SUFFICES ASSUME IosInv, [IosNext]_iosVars PROVE IosInv'
  OBVIOUS
<1>1. CASE UNCHANGED iosVars
  BY <1>1 DEF iosVars, IosInv, IosAgrees
<1>2. CASE ResignActive \/ Disconnect \/ \E d \in Documents : OpensUrl(d)
  BY <1>2, ScopesKeep
<1>3. ASSUME NEW urls \in SUBSET Documents, ConnectScene(urls) PROVE IosInv'
  BY <1>3, ConnectKeeps
<1>4. CASE \/ BecomeActive \/ ScopeRefused \/ IosTells(Activation(capsule))
           \/ IosTells(Notification(capsule)) \/ IosTells(MemoryPressure(capsule))
  BY <1>4, TellingKeeps DEF BecomeActive, ScopeRefused, IosPermissions
<1>5. ASSUME NEW p \in {"microphone", "notifications"}, NEW yes \in BOOLEAN,
             \/ IosTells(Permission(capsule, p, yes))
             \/ IosTells(AudioDevice(capsule, yes)) \/ IosTells(Background(capsule, yes))
      PROVE  IosInv'
  BY <1>5, TellingKeeps DEF IosPermissions
<1> QED
  BY <1>1, <1>2, <1>3, <1>4, <1>5 DEF IosNext

LEMMA IosInvariant == IosSpec => []IosInv
BY IosInitInv, IosStepInv, PTL DEF IosSpec

\* The capsule's record is well formed.
THEOREM IosTypes == IosSpec => []IosTypeOK
<1>1. IosInv => IosTypeOK
  BY DEF IosInv, SceneOK, SceneRecords, SceneLives, IosTypeOK
<1> QED
  BY <1>1, IosInvariant, PTL

\* A suspended capsule holds nothing, and an active one nothing from before.
THEOREM SceneForgets == IosSpec => []IosForgets
<1>1. IosInv => IosForgets
  BY NoCapsuleIsDown DEF IosInv, SceneOK, GivenNow, IosForgets
<1> QED
  BY <1>1, IosInvariant, PTL

\* The documents the capsule may use are those whose scope the scene holds, but
\* for the scopes that were opened while it was suspended.
THEOREM SceneAndCapsuleAgree == IosSpec => []IosAgrees
<1>1. IosInv => IosAgrees
  BY NoCapsuleIsDown DEF IosInv, IosAgrees
<1> QED
  BY <1>1, IosInvariant, PTL

-----------------------------------------------------------------------------
(* The glasses.                                                             *)

VitureInv == VitureTypeOK /\ VitureAgrees

LEMMA VitureInitInv == VitureInit => VitureInv
BY DEF VitureInit, VitureInv, VitureTypeOK, VitureAgrees

\* A stop that fails changes nothing, and one that succeeds stops its session.
LEMMA StoppingKeeps ==
  ASSUME VitureInv, NEW s \in open, s \in started, NEW outcome \in Outcomes,
         Stopped(s, outcome), UNCHANGED open, ready' \subseteq open \intersect CarinaSessions,
         ready \ {s} \subseteq ready', outcome = "failed" => s \in ready' \/ s \notin ready
  PROVE  VitureInv'
<1> USE VitureAssumption DEF VitureInv, VitureTypeOK, VitureAgrees, Stopped, SetImu
<1>1. CASE outcome = "failed"
  BY <1>1
<1>2. CASE outcome # "failed" /\ s \in CarinaSessions
  BY <1>2 DEF Outcomes
<1>3. CASE outcome # "failed" /\ s \notin CarinaSessions
  BY <1>3 DEF Outcomes
<1> QED
  BY <1>1, <1>2, <1>3

\* Whatever route a session starts on, it runs afterwards.
LEMMA StartingKeeps ==
  ASSUME VitureInv, NEW s \in open, Start(s) \/ Reconnects(s)
  PROVE  VitureInv'
<1> USE VitureAssumption DEF VitureInv, VitureTypeOK, VitureAgrees, Start, Reconnects, SetImu
<1>1. CASE s \in CarinaSessions
  BY <1>1
<1>2. CASE s \notin CarinaSessions
  BY <1>2
<1> QED
  BY <1>1, <1>2

LEMMA VitureStepInv == VitureInv /\ [VitureNext]_vitureVars => VitureInv'
<1> SUFFICES ASSUME VitureInv, [VitureNext]_vitureVars PROVE VitureInv'
  OBVIOUS
<1> USE DEF VitureInv
<1>1. CASE UNCHANGED vitureVars
  BY <1>1 DEF vitureVars, VitureTypeOK, VitureAgrees
<1>2. ASSUME NEW s \in CarinaSessions \union LegacySessions, ConnectSession(s)
      PROVE  VitureInv'
  BY <1>2 DEF ConnectSession, VitureTypeOK, VitureAgrees
<1>3. ASSUME NEW s \in CarinaSessions \union LegacySessions, Start(s) \/ Reconnects(s)
      PROVE  VitureInv'
  BY <1>3, StartingKeeps DEF Start, Reconnects
<1>4. ASSUME NEW s \in CarinaSessions \union LegacySessions, NEW outcome \in Outcomes,
             Close(s, outcome)
      PROVE  VitureInv'
  BY <1>4, StoppingKeeps DEF Close, VitureTypeOK
<1>7. ASSUME NEW s \in CarinaSessions \union LegacySessions, StartFails(s)
      PROVE  VitureInv'
  BY <1>7 DEF StartFails, Counts, VitureTypeOK, VitureAgrees
<1>8. ASSUME NEW s \in CarinaSessions \union LegacySessions, ReconnectFails(s)
      PROVE  VitureInv'
  <2>1. s \in open /\ UNCHANGED open
    BY <1>8 DEF ReconnectFails
  <2>2. CASE s \in started /\ ready' = ready
    <3>1. PICK outcome \in Outcomes : Stopped(s, outcome)
      BY <1>8, <2>2 DEF ReconnectFails, Outcomes
    <3> QED
      BY <2>1, <2>2, <3>1, StoppingKeeps DEF VitureTypeOK
  <2>3. CASE s \in CarinaSessions /\ ready' \in {ready \ {s}, ready \union {s}} /\ s \in started
    <3>1. PICK outcome \in Outcomes : Stopped(s, outcome) /\ (outcome = "ok" \/ ready' = ready)
      BY <1>8, <2>3 DEF ReconnectFails, Outcomes
    <3> QED
      BY <2>1, <2>3, <3>1, StoppingKeeps DEF VitureTypeOK
  <2>4. CASE s \in CarinaSessions /\ ready' \in {ready \ {s}, ready \union {s}} /\ s \notin started
    BY <1>8, <2>1, <2>4 DEF ReconnectFails, VitureTypeOK, VitureAgrees
  <2> QED
    BY <1>8, <2>2, <2>3, <2>4 DEF ReconnectFails
<1>5. ASSUME NEW s \in CarinaSessions \union LegacySessions, Drop(s) PROVE VitureInv'
  BY <1>5 DEF Drop, Destroyed, VitureTypeOK, VitureAgrees
<1>6. ASSUME NEW s \in CarinaSessions \union LegacySessions, NEW on \in BOOLEAN,
             SendImuReports(s, on)
      PROVE  VitureInv'
  BY <1>6 DEF SendImuReports, SetImu, VitureTypeOK, VitureAgrees
<1> QED
  BY <1>1, <1>2, <1>3, <1>4, <1>5, <1>6, <1>7, <1>8 DEF VitureNext, Outcomes

LEMMA VitureInvariant == VitureSpec => []VitureInv
BY VitureInitInv, VitureStepInv, PTL DEF VitureSpec

\* What is started is open, and what runs is a session of the Carina route.
THEOREM VitureTypes == VitureSpec => []VitureTypeOK
<1>1. VitureInv => VitureTypeOK
  BY DEF VitureInv
<1> QED
  BY <1>1, VitureInvariant, PTL

\* The glasses work exactly for whom the sessions say, but for the reports that
\* send or a drop left on, or another session switched off.
THEOREM GlassesFollowSessions == VitureSpec => []VitureAgrees
<1>1. VitureInv => VitureAgrees
  BY DEF VitureInv
<1> QED
  BY <1>1, VitureInvariant, PTL

-----------------------------------------------------------------------------
(* The Android activity.                                                    *)

DroidLives == {"created", "active", "suspended", "stopped"}
DroidRecords ==
  [up : {TRUE}, life : DroidLives, held : [ResourceNames -> Nat], background : Nat,
   session : Nat, generation : Nat, tiers : SUBSET SpeechKinds, speaking : Nat,
   speech : SpeechKinds \union {"none"}, binding : Nat, epoch : Nat \ {0},
   deaths : SUBSET Nat]

\* What a well-formed capsule holds, plays and hears is of its epoch. Only a
\* death lets the permission for the background through, and it takes the
\* binding.
Labels(c) ==
  /\ \A r \in ResourceNames : c.held[r] \in {0, c.epoch}
  /\ c.session \in {0, c.epoch} /\ c.speaking \in {0, c.epoch}
  /\ c.speech = "none" <=> c.speaking = 0
  /\ c.speech # "none" => c.speech \in c.tiers
  /\ \A n \in c.deaths : n < c.epoch
  /\ c.background <= c.epoch /\ c.binding <= c.epoch
  /\ \A n \in Nat : c.background # 0 /\ c.background <= n /\ n < c.epoch => n \in c.deaths
  /\ \A n \in c.deaths : c.binding # 0 => n < c.binding

DroidOK(c) == c \in DroidRecords /\ Labels(c)

AndroidInv ==
  /\ \/ droid = NoDroid /\ ~aFocus
     \/ DroidOK(droid) /\ droid.epoch <= MaxAndroid
  /\ AndroidAgrees
  /\ aApi \in ApiLevels \union {0} /\ aFocus \in BOOLEAN /\ aRoutes \in 0..MaxRoutes
  /\ aOrphan \in {"none", "pressure", "denied", "refused", "route", "expired", "death"}

\* The labels of a capsule are numbers.
LEMMA DroidFields ==
  ASSUME NEW c \in DroidRecords
  PROVE  /\ c.epoch \in Nat /\ c.epoch > 0 /\ c.background \in Nat /\ c.binding \in Nat
         /\ c.session \in Nat /\ c.speaking \in Nat /\ c.deaths \subseteq Nat
         /\ \A r \in ResourceNames : c.held[r] \in Nat
BY DEF DroidRecords

LEMMA NoDroidIsDown == ~NoDroid.up /\ \A c \in DroidRecords : c.up
BY DEF NoDroid, DroidRecords

LEMMA DroidIsUp ==
  ASSUME AndroidInv, droid.up
  PROVE  DroidOK(droid) /\ droid.epoch \in 1..MaxAndroid
<1>1. DroidOK(droid) /\ droid.epoch <= MaxAndroid
  BY NoDroidIsDown DEF AndroidInv
<1>2. droid.epoch \in Nat \ {0}
  BY <1>1 DEF DroidOK, DroidRecords
<1> QED
  BY <1>1, <1>2, AndroidAssumption

\* Handlers that only take away keep the epoch.
LEMMA QuietKeeps ==
  ASSUME NEW c, DroidOK(c), NEW k \in {Quieted(c), StopAudio(c), StopSpeech(c)}
  PROVE  DroidOK(k) /\ k.epoch = c.epoch /\ k.session \in {0, c.session}
         /\ Quieted(c).session = 0 /\ StopAudio(c).session = 0
<1> USE DEF DroidOK, DroidRecords, Labels
<1>4. Quieted(c).session = 0 /\ StopAudio(c).session = 0
  BY DEF Quieted, StopAudio
<1>1. CASE k = Quieted(c)
  BY <1>1, <1>4 DEF Quieted
<1>2. CASE k = StopAudio(c)
  BY <1>2, <1>4 DEF StopAudio
<1>3. CASE k = StopSpeech(c)
  BY <1>3, <1>4 DEF StopSpeech
<1> QED
  BY <1>1, <1>2, <1>3, <1>4

\* The handler of the lifecycle.
LEMMA LifecycleKeeps ==
  ASSUME NEW c, DroidOK(c), NEW life \in DroidLives
  PROVE  /\ DroidOK(Lifecycle(c, life))
         /\ ~Halting(life) => /\ Lifecycle(c, life).epoch = c.epoch
                              /\ Lifecycle(c, life).session = c.session
         /\ Halting(life) => /\ Lifecycle(c, life).epoch = c.epoch + 1
                             /\ Lifecycle(c, life).session = 0
<1>1. CASE ~Halting(life)
  BY <1>1 DEF Lifecycle, DroidOK, DroidRecords, Labels
<1>2. CASE Halting(life)
  <2> DEFINE k == Lifecycle(c, life)
  <2>1. /\ k \in DroidRecords /\ k.epoch = c.epoch + 1 /\ k.session = 0
        /\ k.speaking = 0 /\ k.speech = "none" /\ k.background = 0
        /\ k.binding = c.binding /\ k.deaths = c.deaths
        /\ k.held = [r \in ResourceNames |-> 0]
    <3>1. k = [c EXCEPT !.held = [r \in ResourceNames |-> 0], !.session = 0,
                        !.speech = "none", !.speaking = 0, !.life = life,
                        !.background = 0, !.epoch = @ + 1]
      BY <1>2 DEF Lifecycle, NextEpoch, Quieted, DroidOK, DroidRecords
    <3>2. c \in DroidRecords /\ c.epoch + 1 \in Nat \ {0}
      BY DroidFields DEF DroidOK
    <3>3. [r \in ResourceNames |-> 0] \in [ResourceNames -> Nat]
      OBVIOUS
    <3> HIDE DEF k
    <3> QED
      BY <3>1, <3>2, <3>3 DEF DroidRecords
  <2> HIDE DEF k
  <2>2. DroidOK(k)
    BY <2>1, DroidFields DEF DroidOK, Labels
  <2> QED
    BY <1>2, <2>1, <2>2 DEF k
<1> QED
  BY <1>1, <1>2

\* A death the capsule is told of.
LEMMA DeathKeeps ==
  ASSUME NEW c, DroidOK(c)
  PROVE  LET k == Event(c, "process-death") IN
         DroidOK(k) /\ k.epoch = c.epoch + 1 /\ k.session = 0
<1> DEFINE k == Event(c, "process-death")
<1>1. /\ k \in DroidRecords /\ k.epoch = c.epoch + 1 /\ k.session = 0
      /\ k.speaking = 0 /\ k.speech = "none" /\ k.background = c.background
      /\ k.binding = 0 /\ k.deaths = c.deaths \union {c.epoch}
      /\ k.held = [r \in ResourceNames |-> 0]
  <2>1. k = [c EXCEPT !.held = [r \in ResourceNames |-> 0], !.session = 0,
                      !.speech = "none", !.speaking = 0, !.life = "stopped",
                      !.binding = 0, !.deaths = @ \union {c.epoch}, !.epoch = @ + 1]
    BY DEF Event, NextEpoch, Quieted, DroidOK, DroidRecords
  <2>2. c \in DroidRecords /\ c.epoch + 1 \in Nat \ {0} /\ c.epoch \in Nat
    BY DroidFields DEF DroidOK
  <2>3. [r \in ResourceNames |-> 0] \in [ResourceNames -> Nat]
    OBVIOUS
  <2> HIDE DEF k
  <2> QED
    BY <2>1, <2>2, <2>3 DEF DroidRecords, DroidLives
<1> HIDE DEF k
<1>2. DroidOK(k)
  BY <1>1, DroidFields DEF DroidOK, Labels
<1> QED
  BY <1>1, <1>2 DEF k

\* Handlers that give something give it with the epoch of the capsule.
LEMMA GivingKeeps ==
  ASSUME NEW c, DroidOK(c), NEW r \in ResourceNames, NEW kind \in SpeechKinds,
         NEW allowed \in BOOLEAN,
         NEW k \in {Insert(c, r), Activated(c), StartSpeech(c, kind),
                    [c EXCEPT !.background = IF allowed THEN c.epoch ELSE 0],
                    [c EXCEPT !.binding = c.epoch],
                    [c EXCEPT !.tiers = @ \union {kind}]}
  PROVE  DroidOK(k) /\ k.epoch = c.epoch /\ k.session = c.session
<1> USE DEF DroidOK, Labels
<1>1. ASSUME NEW q \in ResourceNames
      PROVE  LET d == Insert(c, q) IN
             DroidOK(d) /\ d.epoch = c.epoch /\ d.session = c.session
  <2>1. CASE c.held[q] = 0
    <3> DEFINE held == [c.held EXCEPT ![q] = c.epoch]
    <3>1. Insert(c, q) = [c EXCEPT !.held = held]
      BY <2>1 DEF Insert
    <3>2. held \in [ResourceNames -> Nat] /\ \A p \in ResourceNames : held[p] \in {0, c.epoch}
      BY DroidFields DEF DroidRecords
    <3> HIDE DEF held
    <3> QED
      BY <3>1, <3>2, DroidFields DEF DroidRecords
  <2>2. CASE c.held[q] # 0
    BY <2>2 DEF Insert
  <2> QED
    BY <2>1, <2>2
<1>2. CASE k = Insert(c, r)
  BY <1>1, <1>2
<1>3. CASE k = Activated(c)
  BY <1>1, <1>3 DEF Activated, ResourceNames
<1>4. CASE k = StartSpeech(c, kind)
  <2>1. CASE kind \in c.tiers
    BY <1>4, <2>1, DroidFields DEF StartSpeech, DroidRecords, SpeechKinds
  <2>2. CASE kind \notin c.tiers
    BY <1>4, <2>2 DEF StartSpeech
  <2> QED
    BY <2>1, <2>2
<1>5. CASE k = [c EXCEPT !.background = IF allowed THEN c.epoch ELSE 0]
  <2>1. PICK n \in {0, c.epoch} : k = [c EXCEPT !.background = n]
    BY <1>5
  <2>2. n \in Nat /\ n <= c.epoch
    BY DroidFields
  <2>3. /\ k \in DroidRecords /\ k.background = n /\ k.binding = c.binding
        /\ k.held = c.held /\ k.session = c.session /\ k.speaking = c.speaking
        /\ k.speech = c.speech /\ k.tiers = c.tiers /\ k.deaths = c.deaths
        /\ k.epoch = c.epoch
    BY <2>1, <2>2 DEF DroidRecords
  <2> QED
    BY <2>1, <2>2, <2>3, DroidFields
<1>6. CASE k = [c EXCEPT !.binding = c.epoch]
  <2>1. /\ k \in DroidRecords /\ k.background = c.background /\ k.binding = c.epoch
        /\ k.held = c.held /\ k.session = c.session /\ k.speaking = c.speaking
        /\ k.speech = c.speech /\ k.tiers = c.tiers /\ k.deaths = c.deaths
        /\ k.epoch = c.epoch
    BY <1>6, DroidFields DEF DroidRecords
  <2> QED
    BY <2>1, DroidFields
<1>7. CASE k = [c EXCEPT !.tiers = @ \union {kind}]
  BY <1>7, DroidFields DEF DroidRecords
<1> QED
  BY <1>2, <1>3, <1>4, <1>5, <1>6, <1>7

\* Audio: a session is armed in the capsule's epoch, a lost route ends it.
LEMMA AudioKeeps ==
  ASSUME NEW c, DroidOK(c), NEW n \in Nat, NEW lost \in BOOLEAN
  PROVE  /\ DroidOK(ArmAudio(c)) /\ ArmAudio(c).epoch = c.epoch
         /\ DroidOK(Route(c, n, lost)) /\ Route(c, n, lost).epoch = c.epoch
         /\ ~lost => Route(c, n, lost).session = c.session
         /\ Route(c, n, lost).session \in {0, c.session}
<1>1. DroidOK(ArmAudio(c)) /\ ArmAudio(c).epoch = c.epoch
  BY DroidFields DEF ArmAudio, DroidOK, DroidRecords, Labels
<1>2. /\ DroidOK(Route(c, n, lost)) /\ Route(c, n, lost).epoch = c.epoch
      /\ ~lost => Route(c, n, lost).session = c.session
      /\ Route(c, n, lost).session \in {0, c.session}
  <2>1. CASE n <= c.generation
    BY <2>1 DEF Route
  <2>2. CASE ~(n <= c.generation)
    BY <2>2, DroidFields DEF Route, DroidOK, DroidRecords, Labels
  <2> QED
    BY <2>1, <2>2
<1> QED
  BY <1>1, <1>2

LEMMA AndroidInitInv == AndroidInit => AndroidInv
<1> SUFFICES ASSUME AndroidInit PROVE AndroidInv
  OBVIOUS
<1>1. droid = NoDroid /\ ~aFocus /\ ~droid.up
  BY NoDroidIsDown DEF AndroidInit
<1>2. AndroidAgrees
  BY <1>1 DEF AndroidAgrees
<1>3. aApi \in ApiLevels \union {0} /\ aRoutes \in 0..MaxRoutes
  BY AndroidAssumption DEF AndroidInit
<1>4. aFocus \in BOOLEAN /\ aOrphan = "none"
  BY DEF AndroidInit
<1> QED
  BY <1>1, <1>2, <1>3, <1>4 DEF AndroidInv

\* A capsule is instantiated with an activity, and has no session.
LEMMA CreateKeeps ==
  ASSUME AndroidInv, NEW again \in BOOLEAN, OnCreate(again)
  PROVE  AndroidInv'
<1> DEFINE made == Lifecycle(FreshDroid, "created")
<1>1. DroidOK(FreshDroid) /\ FreshDroid.epoch = 1 /\ FreshDroid.session = 0
  BY DEF FreshDroid, DroidOK, DroidRecords, DroidLives, Labels
<1>2. DroidOK(made) /\ made.epoch = 1 /\ made.session = 0
  BY <1>1, LifecycleKeeps DEF Halting, DroidLives
<1>3. droid' = Activated(made)
  <2>1. Event(FreshDroid, "restart") = FreshDroid
    BY DEF Event, FreshDroid
  <2>2. Event(FreshDroid, "activity-recreation") = FreshDroid
    BY DEF Event
  <2> QED
    BY <2>1, <2>2 DEF OnCreate
<1> HIDE DEF made
<1>4. DroidOK(droid') /\ droid'.epoch = 1 /\ droid'.session = 0
  <2>1. "activation" \in ResourceNames /\ "speak" \in SpeechKinds /\ TRUE \in BOOLEAN
    BY DEF ResourceNames, SpeechKinds
  <2> QED
    BY <1>2, <1>3, <2>1, GivingKeeps
<1>5. ~aFocus
  BY DEF OnCreate, AndroidInv, AndroidAgrees
<1>6. aApi' \in ApiLevels \union {0} /\ aRoutes' = 0 /\ UNCHANGED <<aFocus, aOrphan>>
  BY DEF OnCreate, AndroidInv
<1> QED
  BY <1>4, <1>5, <1>6, NoDroidIsDown, AndroidAssumption
     DEF AndroidInv, AndroidAgrees, DroidOK

\* The capsule changes, and its session stays or goes with the focus: callbacks
\* and calls that tell it something.
LEMMA CallsKeep ==
  ASSUME AndroidInv, NEW k, DroidOK(k), k.epoch = droid.epoch,
         k.session = droid.session, Calls(k)
  PROVE  AndroidInv'
<1>1. DroidOK(droid) /\ droid.epoch <= MaxAndroid
  BY DroidIsUp, AndroidAssumption DEF Calls
<1> QED
  BY <1>1, NoDroidIsDown DEF Calls, AndroidInv, AndroidAgrees, DroidOK

\* The activity gives up the focus and tells the capsule to stop.
LEMMA ReleaseKeeps ==
  ASSUME AndroidInv, NEW k, ShellReleases(k),
         k = NoDroid \/ (DroidOK(k) /\ k.epoch <= MaxAndroid /\ k.session = 0)
  PROVE  AndroidInv'
BY NoDroidIsDown DEF ShellReleases, AndroidInv, AndroidAgrees, DroidOK

\* The callbacks on which the activity gives up the focus.
LEMMA ReleasesKeep ==
  ASSUME AndroidInv,
         \/ OnPause \/ OnStop \/ OnDestroy \/ OnFocusLost
         \/ \E yes \in BOOLEAN : ~yes /\ PermissionResult(yes)
  PROVE  AndroidInv'
<1>1. CASE OnDestroy
  BY <1>1, ReleaseKeeps DEF OnDestroy
<1>2. CASE ~OnDestroy
  <2>1. DroidOK(droid) /\ droid.epoch \in 1..MaxAndroid
    BY <1>2, DroidIsUp
       DEF OnPause, OnStop, OnFocusLost, PermissionResult, ShellReleases
  <2> DEFINE quiet == StopAudio(droid)
  <2>2. DroidOK(quiet) /\ quiet.epoch = droid.epoch /\ quiet.session = 0
    BY <2>1, QuietKeeps
  <2>3. CASE OnPause
    <3> DEFINE once == Event(quiet, "suspend")
    <3>1. DroidOK(once) /\ once.epoch = droid.epoch + 1
      BY <2>2, LifecycleKeeps DEF Event, Halting, DroidLives
    <3>2. LET twice == Lifecycle(once, "suspended") IN
          DroidOK(twice) /\ twice.epoch = droid.epoch + 2 /\ twice.session = 0
      <4> HIDE DEF once
      <4> QED
        BY <2>1, <3>1, LifecycleKeeps DEF Halting, DroidLives
    <3>3. droid.epoch + 2 <= MaxAndroid
      BY <2>1, <2>3, AndroidAssumption DEF OnPause, Room
    <3> QED
      BY <2>3, <3>2, <3>3, ReleaseKeeps DEF OnPause
  <2>4. CASE OnStop
    <3>1. LET once == Event(quiet, "background-restriction") IN
          DroidOK(once) /\ once.epoch = droid.epoch + 1 /\ once.session = 0
      BY <2>2, LifecycleKeeps DEF Event, Halting, DroidLives
    <3>2. droid.epoch + 1 <= MaxAndroid
      BY <2>1, <2>4, AndroidAssumption DEF OnStop, Room
    <3> QED
      BY <2>4, <3>1, <3>2, ReleaseKeeps DEF OnStop
  <2>5. CASE OnFocusLost
    BY <2>1, <2>2, <2>5, ReleaseKeeps DEF OnFocusLost
  <2>6. ASSUME PermissionResult(FALSE) PROVE AndroidInv'
    <3>1. LET silent == StopSpeech(quiet) IN
          DroidOK(silent) /\ silent.epoch = droid.epoch /\ silent.session = 0
      BY <2>2, QuietKeeps DEF StopSpeech, DroidOK, DroidRecords
    <3> QED
      BY <2>1, <2>6, <3>1, ReleaseKeeps DEF PermissionResult
  <2> QED
    BY <1>2, <2>3, <2>4, <2>5, <2>6
<1> QED
  BY <1>1, <1>2

\* What else the activity and the host tell the capsule leaves the session alone.
LEMMA TalksKeep ==
  ASSUME AndroidInv,
         \/ OnResume \/ OnNewIntent \/ OnNotification \/ Bind \/ Transcribe \/ Speak
         \/ Transcript \/ SpeechStop \/ PermissionResult(TRUE)
         \/ \E yes \in BOOLEAN : OnBackground(yes)
         \/ \E kind \in SpeechKinds : InstallEvidence(kind)
  PROVE  AndroidInv'
<1>1. DroidOK(droid)
  BY DroidIsUp DEF Calls, OnResume, OnNewIntent, OnNotification, Bind, Transcribe, Speak,
     Transcript, SpeechStop, PermissionResult, OnBackground, InstallEvidence
<1>2. "activation" \in ResourceNames /\ "notification" \in ResourceNames
      /\ "speak" \in SpeechKinds /\ "transcribe" \in SpeechKinds
  BY DEF ResourceNames, SpeechKinds
<1>3. CASE OnResume
  BY <1>1, <1>3, LifecycleKeeps, CallsKeep DEF OnResume, Halting, DroidLives
<1>4. CASE OnNewIntent \/ OnNotification \/ Bind \/ Transcribe \/ Speak
  BY <1>1, <1>2, <1>4, GivingKeeps, CallsKeep
     DEF OnNewIntent, OnNotification, Bind, Transcribe, Speak
<1>5. CASE Transcript \/ SpeechStop
  <2>1. LET k == StopSpeech(droid) IN
        DroidOK(k) /\ k.epoch = droid.epoch /\ k.session = droid.session
    BY <1>1, QuietKeeps DEF StopSpeech, DroidOK, DroidRecords
  <2> QED
    BY <1>5, <2>1, CallsKeep DEF Transcript, SpeechStop
<1>6. CASE PermissionResult(TRUE)
  BY <1>1, <1>6, CallsKeep DEF PermissionResult
<1>7. ASSUME NEW yes \in BOOLEAN, OnBackground(yes) PROVE AndroidInv'
  BY <1>1, <1>2, <1>7, GivingKeeps, CallsKeep DEF OnBackground
<1>8. ASSUME NEW kind \in SpeechKinds, InstallEvidence(kind) PROVE AndroidInv'
  BY <1>1, <1>2, <1>8, GivingKeeps, CallsKeep DEF InstallEvidence
<1> QED
  BY <1>3, <1>4, <1>5, <1>6, <1>7, <1>8

\* The capsule loses its session, or may have lost it, while the focus stays:
\* why is recorded.
LEMMA OrphansKeep ==
  ASSUME AndroidInv, OnTrimMemory \/ ArmDenied \/ Tick \/ HostDeath
  PROVE  AndroidInv'
<1>1. DroidOK(droid) /\ droid.epoch \in 1..MaxAndroid /\ droid.up
  BY DroidIsUp DEF OnTrimMemory, ArmDenied, Tick, HostDeath, Room
<1>2. DroidOK(droid') /\ droid'.epoch <= MaxAndroid /\ droid'.session = 0
  <2>1. CASE OnTrimMemory
    BY <1>1, <2>1, QuietKeeps DEF OnTrimMemory, Event
  <2>2. CASE ArmDenied \/ Tick
    BY <1>1, <2>2, QuietKeeps DEF ArmDenied, Tick
  <2>3. CASE HostDeath
    BY <1>1, <2>3, DeathKeeps, AndroidAssumption DEF HostDeath, Room
  <2> QED
    BY <2>1, <2>2, <2>3
<1>3. /\ aFocus' = aFocus /\ UNCHANGED <<aApi, aRoutes>>
      /\ aOrphan' \in {"none", "pressure", "denied", "refused", "route", "expired", "death"}
      /\ aFocus /\ aOrphan' = "none" => FALSE
  <2>1. CASE OnTrimMemory
    BY <2>1 DEF OnTrimMemory, AndroidInv
  <2>2. CASE ArmDenied
    BY <2>2 DEF ArmDenied, AndroidInv
  <2>3. CASE Tick
    BY <2>3 DEF Tick, AndroidInv
  <2>4. CASE HostDeath
    BY <2>4 DEF HostDeath, AndroidInv
  <2> QED
    BY <2>1, <2>2, <2>3, <2>4
<1>4. AndroidAgrees'
  BY <1>2, <1>3, NoDroidIsDown DEF AndroidAgrees, DroidOK
<1> QED
  BY <1>2, <1>3, <1>4 DEF AndroidInv

\* Arming and observing routes. A refused arm leaves the focus without a session.
LEMMA ArmingKeeps ==
  ASSUME AndroidInv, NEW lost \in BOOLEAN,
         ArmRefused \/ ArmGranted(lost) \/ OnDevices(lost)
  PROVE  AndroidInv'
<1>1. DroidOK(droid) /\ droid.epoch \in 1..MaxAndroid /\ droid.up
  BY DroidIsUp DEF ArmRefused, ArmGranted, OnDevices
<1>2. CASE ArmRefused
  BY <1>1, <1>2 DEF ArmRefused, AndroidInv, AndroidAgrees
<1>3. ASSUME NEW c, DroidOK(c), c.epoch = droid.epoch, Observe(c, lost), aFocus',
             ~lost /\ c.session = 0 => aOrphan # "none", UNCHANGED aApi
      PROVE  AndroidInv'
  <2>1. aRoutes + 1 \in 0..MaxRoutes /\ aRoutes + 1 \in Nat
    BY <1>3, AndroidAssumption DEF AndroidInv, Observe
  <2>2. /\ DroidOK(droid') /\ droid'.epoch = droid.epoch
        /\ ~lost => droid'.session = c.session
    BY <1>3, <2>1, AudioKeeps DEF Observe
  <2>3. /\ droid'.session = 0 => aOrphan' # "none"
        /\ aOrphan' \in {"none", "pressure", "denied", "refused", "route", "expired", "death"}
    BY <1>3, <2>2 DEF Observe, AndroidInv
  <2>4. AndroidAgrees'
    BY <1>3, <2>2, <2>3, NoDroidIsDown DEF AndroidAgrees, DroidOK
  <2> QED
    BY <1>1, <1>3, <2>1, <2>2, <2>3, <2>4 DEF AndroidInv, Observe
<1>4. CASE ArmGranted(lost)
  <2>1. LET c == ArmAudio(droid) IN
        DroidOK(c) /\ c.epoch = droid.epoch /\ c.session = droid.epoch
    BY <1>1, AudioKeeps DEF ArmAudio, DroidOK, DroidRecords
  <2> QED
    BY <1>1, <1>3, <1>4, <2>1 DEF ArmGranted
<1>5. CASE OnDevices(lost)
  BY <1>1, <1>3, <1>5 DEF OnDevices, AndroidInv, AndroidAgrees
<1> QED
  BY <1>2, <1>4, <1>5

LEMMA AndroidStepInv == AndroidInv /\ [AndroidNext]_androidVars => AndroidInv'
<1> SUFFICES ASSUME AndroidInv, [AndroidNext]_androidVars PROVE AndroidInv'
  OBVIOUS
<1>1. CASE UNCHANGED androidVars
  BY <1>1 DEF androidVars, AndroidInv, AndroidAgrees
<1>2. CASE ProcessKilled
  <2>1. droid' = NoDroid /\ ~aFocus' /\ ~droid'.up /\ aOrphan' = "none"
    BY <1>2, NoDroidIsDown DEF ProcessKilled
  <2>2. aApi' \in ApiLevels \union {0} /\ aRoutes' \in 0..MaxRoutes /\ aFocus' \in BOOLEAN
    <3>1. aApi' \in ApiLevels \union {0} /\ aRoutes' = 0
      BY <1>2 DEF ProcessKilled, AndroidInv
    <3>2. aFocus' \in BOOLEAN
      BY <1>2 DEF ProcessKilled
    <3> QED
      BY <3>1, <3>2, AndroidAssumption
  <2> QED
    BY <2>1, <2>2 DEF AndroidInv, AndroidAgrees
<1>3. CASE \E again \in BOOLEAN : OnCreate(again)
  BY <1>3, CreateKeeps
<1>4. CASE \/ OnPause \/ OnStop \/ OnDestroy \/ OnFocusLost
           \/ \E yes \in BOOLEAN : ~yes /\ PermissionResult(yes)
  BY <1>4, ReleasesKeep
<1>5. CASE \/ OnResume \/ OnNewIntent \/ OnNotification \/ Bind \/ Transcribe \/ Speak
           \/ Transcript \/ SpeechStop \/ PermissionResult(TRUE)
           \/ \E yes \in BOOLEAN : OnBackground(yes)
           \/ \E kind \in SpeechKinds : InstallEvidence(kind)
  BY <1>5, TalksKeep
<1>6. CASE OnTrimMemory \/ ArmDenied \/ Tick \/ HostDeath
  BY <1>6, OrphansKeep
<1>7. CASE ArmRefused \/ \E lost \in BOOLEAN : ArmGranted(lost) \/ OnDevices(lost)
  BY <1>7, ArmingKeeps
<1> QED
  BY <1>1, <1>2, <1>3, <1>4, <1>5, <1>6, <1>7 DEF AndroidNext

LEMMA AndroidInvariant == AndroidSpec => []AndroidInv
BY AndroidInitInv, AndroidStepInv, PTL DEF AndroidSpec

\* The capsule's record and the activity's fields are well formed.
THEOREM AndroidTypes == AndroidSpec => []AndroidTypeOK
<1>1. AndroidInv => AndroidTypeOK
  <2> SUFFICES ASSUME AndroidInv PROVE AndroidTypeOK
    OBVIOUS
  <2>1. CASE droid = NoDroid
    BY <2>1 DEF AndroidInv, AndroidTypeOK
  <2>2. CASE droid # NoDroid
    <3>1. DroidOK(droid) /\ droid.epoch <= MaxAndroid
      BY <2>2 DEF AndroidInv
    <3>2. droid.epoch \in 1..MaxAndroid
      BY <3>1, DroidFields, AndroidAssumption DEF DroidOK
    <3> QED
      BY <3>1, <3>2 DEF AndroidInv, AndroidTypeOK, DroidOK, DroidRecords, DroidLives, Labels
  <2> QED
    BY <2>1, <2>2
<1> QED
  BY <1>1, AndroidInvariant, PTL

\* Authority does not outlive the epoch that gave it: only the permission for the
\* background survives a death, and only a death takes the binding.
THEOREM ActivityForgets == AndroidSpec => []AndroidForgets
<1>1. AndroidInv => AndroidForgets
  <2> SUFFICES ASSUME AndroidInv, droid.up PROVE AndroidForgets
    BY DEF AndroidForgets
  <2>1. DroidOK(droid)
    BY DroidIsUp
  <2>2. \A m, n \in Nat : \A i \in m..(n - 1) : i \in Nat /\ m <= i /\ i < n
    OBVIOUS
  <2>3. droid.background # 0 => droid.background..(droid.epoch - 1) \subseteq droid.deaths
    BY <2>1, <2>2, DroidFields DEF DroidOK, Labels
  <2>4. droid.binding # 0 =>
          (droid.binding..(droid.epoch - 1)) \intersect droid.deaths = {}
    BY <2>1, <2>2, DroidFields DEF DroidOK, Labels
  <2> QED
    BY <2>1, <2>3, <2>4 DEF AndroidForgets, DroidOK, Labels
<1> QED
  BY <1>1, AndroidInvariant, PTL

\* The capsule has a session only while the activity holds the focus, and a focus
\* without a session is left from one that ended without the activity.
THEOREM ActivityAndCapsuleAgree == AndroidSpec => []AndroidAgrees
<1>1. AndroidInv => AndroidAgrees
  BY DEF AndroidInv
<1> QED
  BY <1>1, AndroidInvariant, PTL

-----------------------------------------------------------------------------
(* The browser page.                                                        *)

HostCalls == [id : 1..MaxCalls, op : BrowserOps, handle : Handles \union {NoHandle}]
PageCalls == [call : HostCalls, epoch : 1..MaxEpochs, answer : {"none", "ok", "failed"}]
Tables ==
  [card : SUBSET BrowserServices, running : BOOLEAN, next : 1..(MaxCalls + 1),
   pending : SUBSET HostCalls, known : [Handles -> 0..MaxEpochs]]

BrowserShape ==
  /\ tab \in Tables /\ page \subseteq PageCalls
  /\ bOpen \subseteq Handles /\ bLost \subseteq bOpen /\ bEpoch \in 1..MaxEpochs

\* Both tables are finite, and within their limit.
WithinLimits ==
  /\ IsFiniteSet(tab.pending) /\ Cardinality(tab.pending) <= MaxHandles
  /\ IsFiniteSet(Known) /\ Cardinality(Known) <= MaxHandles

\* No two calls, pending or in the page, have the same number.
Numbered ==
  /\ \A p \in tab.pending : p.id < tab.next
  /\ \A c \in page : c.call.id < tab.next
  /\ \A p, q \in tab.pending : p.id = q.id => p = q
  /\ \A c, d \in page : c.call.id = d.call.id => c = d

\* A pending call that is still in the page is the same operation there, asked
\* for in this epoch, and a close names the same handle.
Matched ==
  \A p \in tab.pending, c \in page :
    p.id = c.call.id =>
      /\ c.epoch = bEpoch /\ c.call.op = p.op
      /\ p.op = "close" => c.call.handle = p.handle

\* What is closed or was opened is a handle.
Named ==
  /\ \A p \in tab.pending : p.op = "close" => p.handle \in Handles
  /\ \A c \in page : Opened(c) \/ c.call.op = "close" => c.call.handle \in Handles

KnownNow == \A h \in Handles : tab.known[h] \in {0, bEpoch}

BrowserInv ==
  /\ BrowserShape /\ WithinLimits /\ Numbered /\ Matched /\ Named /\ KnownNow
  /\ OpenHandlesAreKnown

LEMMA BrowserInitInv == BrowserInit => BrowserInv
<1> SUFFICES ASSUME BrowserInit PROVE BrowserInv
  OBVIOUS
<1>1. NoneKnown \in [Handles -> 0..MaxEpochs] /\ \A h \in Handles : NoneKnown[h] = 0
  BY BrowserAssumption DEF NoneKnown
<1>2. BrowserShape
  BY <1>1, BrowserAssumption DEF BrowserInit, BrowserShape, Tables, BrowserServices
<1>3. tab.pending = {} /\ Known = {}
  BY <1>1 DEF BrowserInit, Known
<1>4. WithinLimits
  BY <1>3, FS_EmptySet, BrowserAssumption DEF WithinLimits
<1> QED
  BY <1>1, <1>2, <1>3, <1>4 DEF BrowserInit, BrowserInv, Numbered, Matched, Named,
     KnownNow, OpenHandlesAreKnown

\* The capsule starts or stops, or hears of the page's interfaces.
LEMMA TabKeeps ==
  ASSUME BrowserInv,
         Halt \/ Wake \/ \E services \in SUBSET BrowserServices : NewCard(services)
  PROVE  BrowserInv'
<1> USE DEF BrowserInv
<1>1. CASE Halt
  <2>1. NoneKnown \in [Handles -> 0..MaxEpochs] /\ \A h \in Handles : NoneKnown[h] = 0
    BY BrowserAssumption DEF NoneKnown
  <2>2. /\ tab'.pending = {} /\ tab'.known = NoneKnown /\ tab'.next = tab.next
        /\ tab' \in Tables
    BY <1>1, <2>1 DEF Halt, Halted, BrowserShape, Tables
  <2>3. BrowserShape'
    BY <1>1, <2>2, BrowserAssumption DEF Halt, BrowserShape
  <2>4. Known' = {}
    BY <2>1, <2>2 DEF Known
  <2>5. WithinLimits'
    BY <2>2, <2>4, FS_EmptySet, BrowserAssumption DEF WithinLimits
  <2> QED
    BY <1>1, <2>1, <2>2, <2>3, <2>5 DEF Halt, Numbered, Matched, Named, KnownNow,
       OpenHandlesAreKnown
<1>2. CASE Wake \/ \E services \in SUBSET BrowserServices : NewCard(services)
  <2>1. /\ tab' \in Tables /\ tab'.pending = tab.pending /\ tab'.known = tab.known
        /\ tab'.next = tab.next /\ UNCHANGED <<page, bOpen, bLost, bEpoch>>
    BY <1>2 DEF Wake, NewCard, BrowserShape, Tables
  <2> QED
    BY <2>1 DEF BrowserShape, WithinLimits, Numbered, Matched, Named, KnownNow, Known,
       OpenHandlesAreKnown
<1> QED
  BY <1>1, <1>2

\* A call takes a number of its own and is pending while the page has it.
LEMMA HostCallKeeps ==
  ASSUME BrowserInv, NEW op \in BrowserOps, NEW h \in Handles \union {NoHandle},
         op \in {"open", "fetch"} <=> h = NoHandle, HostCall(op, h)
  PROVE  BrowserInv'
<1> DEFINE call == [id |-> tab.next, op |-> op, handle |-> h]
           sent == [call |-> call, epoch |-> bEpoch, answer |-> "none"]
<1> USE DEF BrowserInv
<1>1. call \in HostCalls /\ sent \in PageCalls /\ tab.next + 1 \in 1..(MaxCalls + 1)
  BY BrowserAssumption DEF HostCall, BrowserShape, Tables, HostCalls, PageCalls
<1>2. /\ tab' \in Tables /\ tab'.pending = tab.pending \union {call}
      /\ tab'.known = tab.known /\ tab'.next = tab.next + 1
      /\ page' = page \union {sent} /\ UNCHANGED <<bOpen, bLost, bEpoch>>
  BY <1>1 DEF HostCall, BrowserShape, Tables
<1>3. call.id = tab.next /\ call.op = op /\ call.handle = h /\ sent.call = call
      /\ sent.epoch = bEpoch /\ sent.answer = "none"
  OBVIOUS
<1>4. /\ Cardinality(tab.pending) < MaxHandles
      /\ op = "close" => h \in Handles
      /\ tab.next \in Nat
  BY DEF HostCall, Known, BrowserShape, Tables
<1> HIDE DEF call, sent
<1>5. BrowserShape'
  BY <1>1, <1>2 DEF BrowserShape
<1>6. WithinLimits'
  <2>1. IsFiniteSet(tab'.pending) /\ Cardinality(tab'.pending) <= MaxHandles
    <3>1. IsFiniteSet(tab.pending) /\ Cardinality(tab.pending) \in Nat
      BY FS_CardinalityType DEF WithinLimits
    <3>2. /\ IsFiniteSet(tab'.pending)
          /\ Cardinality(tab'.pending) <= Cardinality(tab.pending) + 1
      BY <1>2, <3>1, FS_AddElement
    <3>3. Cardinality(tab'.pending) \in Nat
      BY <3>2, FS_CardinalityType
    <3> QED
      BY <1>4, <3>1, <3>2, <3>3, BrowserAssumption
  <2> QED
    BY <1>2, <2>1 DEF WithinLimits, Known
<1>7. Numbered' /\ Matched'
  <2>1. \A p \in tab.pending : p.id \in Nat /\ p.id < tab.next
    BY DEF Numbered, BrowserShape, Tables, HostCalls
  <2>2. \A c \in page : c.call.id \in Nat /\ c.call.id < tab.next
    BY DEF Numbered, BrowserShape, PageCalls, HostCalls
  <2> QED
    BY <1>2, <1>3, <1>4, <2>1, <2>2 DEF Numbered, Matched
<1>8. Named' /\ KnownNow' /\ OpenHandlesAreKnown'
  BY <1>2, <1>3, <1>4 DEF Named, Opened, KnownNow, Known, OpenHandlesAreKnown
<1> QED
  BY <1>5, <1>6, <1>7, <1>8

\* An answer takes the place of its call in the page.
LEMMA AnsweringKeeps ==
  ASSUME BrowserInv, NEW c \in page, c.answer = "none", NEW answer \in {"ok", "failed"},
         NEW h \in Handles \union {NoHandle}, Answered(c, answer, h), UNCHANGED tab,
         c.call.op = "close" => h = c.call.handle,
         answer = "ok" /\ c.call.op = "open" => h \in Handles,
         bOpen' \subseteq Handles, bLost' \subseteq bOpen', UNCHANGED bEpoch
  PROVE  /\ BrowserShape' /\ WithinLimits' /\ Numbered' /\ Matched' /\ Named' /\ KnownNow'
         /\ \E d \in page' : /\ page' = (page \ {c}) \union {d} /\ d.answer = answer
                             /\ d.call.op = c.call.op /\ d.call.handle = h
<1> DEFINE d == [c EXCEPT !.answer = answer, !.call.handle = h]
<1> USE DEF BrowserInv
<1>1. /\ d \in PageCalls /\ d.answer = answer /\ d.epoch = c.epoch
      /\ d.call.id = c.call.id /\ d.call.op = c.call.op /\ d.call.handle = h
  BY DEF BrowserShape, PageCalls, HostCalls
<1>2. page' = (page \ {c}) \union {d}
  BY DEF Answered
<1> HIDE DEF d
<1>3. BrowserShape'
  BY <1>1, <1>2 DEF BrowserShape
<1>4. WithinLimits' /\ KnownNow'
  BY DEF WithinLimits, Known, KnownNow
<1>5. Numbered'
  BY <1>1, <1>2 DEF Numbered
<1>6. Matched' /\ Named'
  BY <1>1, <1>2 DEF Matched, Named, Opened
<1> QED
  BY <1>1, <1>2, <1>3, <1>4, <1>5, <1>6

\* The page answers; what is open is known, lost, or on its way.
LEMMA PageKeeps ==
  ASSUME BrowserInv, NEW c \in page,
         \/ \E h \in Handles : PageOpens(c, h)
         \/ PageCloses(c)
         \/ \E answer \in {"ok", "failed"} : PageOther(c, answer)
  PROVE  BrowserInv'
<1> USE DEF BrowserInv
<1>1. c \in PageCalls /\ c.call.handle \in Handles \union {NoHandle}
  BY DEF BrowserShape, PageCalls, HostCalls
<1>2. ASSUME NEW h \in Handles, PageOpens(c, h) PROVE BrowserInv'
  <2>1. \E d \in page' : /\ page' = (page \ {c}) \union {d} /\ d.answer = "ok"
                         /\ d.call.op = c.call.op /\ d.call.handle = h
    BY <1>2, AnsweringKeeps DEF PageOpens, BrowserShape
  <2>2. OpenHandlesAreKnown'
    BY <1>2, <2>1 DEF PageOpens, OpenHandlesAreKnown, Opened, Known
  <2> QED
    BY <1>2, <2>2, AnsweringKeeps DEF PageOpens, BrowserShape
<1>3. CASE PageCloses(c)
  <2>1. bOpen' \subseteq Handles /\ bLost' \subseteq bOpen'
    BY <1>3 DEF PageCloses, BrowserShape
  <2>2. \E d \in page' : /\ page' = (page \ {c}) \union {d} /\ d.answer = "ok"
                         /\ d.call.op = c.call.op /\ d.call.handle = c.call.handle
    BY <1>1, <1>3, <2>1, AnsweringKeeps DEF PageCloses
  <2>3. OpenHandlesAreKnown'
    BY <1>3, <2>2 DEF PageCloses, OpenHandlesAreKnown, Opened, Known
  <2> QED
    BY <1>1, <1>3, <2>1, <2>3, AnsweringKeeps DEF PageCloses
<1>4. ASSUME NEW answer \in {"ok", "failed"}, PageOther(c, answer) PROVE BrowserInv'
  <2>1. \E d \in page' : /\ page' = (page \ {c}) \union {d} /\ d.answer = answer
                         /\ d.call.op = c.call.op /\ d.call.handle = c.call.handle
    BY <1>1, <1>4, AnsweringKeeps DEF PageOther, BrowserShape
  <2>2. OpenHandlesAreKnown'
    BY <1>4, <2>1 DEF PageOther, OpenHandlesAreKnown, Opened, Known
  <2> QED
    BY <1>1, <1>4, <2>2, AnsweringKeeps DEF PageOther, BrowserShape
<1> QED
  BY <1>2, <1>3, <1>4

\* With a call less in the page nothing is named twice that was not before.
LEMMA FewerCalls ==
  ASSUME BrowserInv, NEW c \in page, page' = page \ {c}, UNCHANGED <<bOpen, bEpoch>>,
         tab' \in Tables, tab'.pending \subseteq tab.pending, tab'.next = tab.next,
         bLost' \subseteq bOpen
  PROVE  BrowserShape' /\ Numbered' /\ Matched' /\ Named'
<1> USE DEF BrowserInv
<1>1. BrowserShape'
  BY DEF BrowserShape
<1>2. Numbered' /\ Matched' /\ Named'
  BY DEF Numbered, Matched, Named, Opened
<1> QED
  BY <1>1, <1>2

\* What an arriving answer leaves of the open handles it is not about.
LEMMA OtherHandlesKept ==
  ASSUME BrowserInv, NEW c \in page, page' = page \ {c}, UNCHANGED bOpen,
         NEW lost, Lose(lost), NEW h \in bOpen,
         h \in Known => h \in Known' \union lost,
         Opened(c) /\ c.call.handle = h => h \in Known' \union lost
  PROVE  \/ h \in Known' \/ h \in bLost'
         \/ \E d \in page' : Opened(d) /\ d.call.handle = h
BY DEF BrowserInv, OpenHandlesAreKnown, Lose

\* A call whose answer is too long stays pending, and what it opened is lost.
LEMMA TooLongKeeps ==
  ASSUME BrowserInv, NEW c \in page, TooLong(c)
  PROVE  BrowserInv'
<1> USE DEF BrowserInv, TooLong
<1>1. BrowserShape' /\ Numbered' /\ Matched' /\ Named'
  BY FewerCalls DEF BrowserShape, Lose
<1>2. WithinLimits' /\ KnownNow' /\ Known' = Known
  BY DEF WithinLimits, Known, KnownNow
<1>3. OpenHandlesAreKnown'
  BY <1>2, OtherHandlesKept DEF OpenHandlesAreKnown
<1> QED
  BY <1>1, <1>2, <1>3

\* The answer of a pending call: an opened handle is recorded or lost, a closed
\* one is forgotten.
LEMMA PendingAnswered ==
  ASSUME BrowserInv, NEW c \in page, page' = page \ {c}, UNCHANGED <<bOpen, bEpoch>>,
         NEW pending \in tab.pending, pending.id = c.call.id, c.answer # "none",
         tab' = [tab EXCEPT !.pending = @ \ {pending},
                            !.known = Recorded(After(pending, c), pending, c)],
         Lose((IF Opened(c) /\ TableFull(After(pending, c)) THEN {c.call.handle} ELSE {})
              \union (IF Closes(pending, c) THEN Overtaken(pending.handle) ELSE {}))
  PROVE  BrowserInv'
<1> DEFINE known == Recorded(After(pending, c), pending, c)
<1> USE DEF BrowserInv
<1>1. /\ c.epoch = bEpoch /\ c.call.op = pending.op
      /\ pending.op = "close" => c.call.handle = pending.handle /\ pending.handle \in Handles
      /\ pending.op = "open" /\ c.answer = "ok" => c.call.handle \in Handles
  BY DEF Matched, Named, Opened
<1>2. /\ tab \in Tables /\ tab.known \in [Handles -> 0..MaxEpochs]
      /\ bEpoch \in 1..MaxEpochs /\ bOpen \subseteq Handles
  BY DEF BrowserShape, Tables
<1>3. IsFiniteSet(Known) /\ Cardinality(Known) \in Nat /\ Cardinality(Known) <= MaxHandles
  BY FS_CardinalityType DEF WithinLimits
<1>4. IsFiniteSet(tab.pending \ {pending}) /\ Cardinality(tab.pending \ {pending}) <= MaxHandles
  <2>1. IsFiniteSet(tab.pending) /\ Cardinality(tab.pending) \in Nat
        /\ Cardinality(tab.pending) <= MaxHandles
    BY FS_CardinalityType DEF WithinLimits
  <2>2. IsFiniteSet(tab.pending \ {pending})
        /\ Cardinality(tab.pending \ {pending}) <= Cardinality(tab.pending)
    BY <2>1, FS_Subset
  <2>3. Cardinality(tab.pending \ {pending}) \in Nat
    BY <2>2, FS_CardinalityType
  <2> QED
    BY <2>1, <2>2, <2>3, BrowserAssumption
<1>5. ASSUME known \in [Handles -> 0..MaxEpochs]
      PROVE  /\ tab' \in Tables /\ tab'.known = known
             /\ tab'.pending = tab.pending \ {pending} /\ tab'.next = tab.next
  BY <1>2, <1>5 DEF Tables
<1>6. bLost' \subseteq bOpen
  BY DEF Lose
<1>7. ASSUME known \in [Handles -> 0..MaxEpochs],
             \A h \in Handles : known[h] \in {0, bEpoch},
             IsFiniteSet(Known'), Cardinality(Known') <= MaxHandles, OpenHandlesAreKnown'
      PROVE  BrowserInv'
  <2> HIDE DEF known
  <2>1. BrowserShape' /\ Numbered' /\ Matched' /\ Named'
    BY <1>5, <1>6, <1>7, FewerCalls
  <2>2. WithinLimits' /\ KnownNow'
    BY <1>4, <1>5, <1>7 DEF WithinLimits, KnownNow
  <2> QED
    BY <1>7, <2>1, <2>2
<1>8. CASE Opened(c) /\ ~TableFull(tab.known)
  <2>1. c.call.op = "open" /\ c.answer = "ok" /\ c.call.handle \in Handles
    BY <1>1, <1>8 DEF Opened
  <2>2. known = [tab.known EXCEPT ![c.call.handle] = bEpoch]
    BY <1>1, <1>8, <2>1 DEF Recorded, After, Closes, ServiceOf
  <2>3. /\ known \in [Handles -> 0..MaxEpochs] /\ known[c.call.handle] = bEpoch
        /\ \A h \in Handles : h # c.call.handle => known[h] = tab.known[h]
    BY <1>2, <2>1, <2>2
  <2> HIDE DEF known
  <2>4. Known' = Known \union {c.call.handle}
    BY <1>2, <1>5, <2>1, <2>3 DEF Known
  <2>5. Cardinality(Known) < MaxHandles
    BY <1>3, <1>8, BrowserAssumption DEF TableFull, Known
  <2>6. IsFiniteSet(Known') /\ Cardinality(Known') <= MaxHandles
    <3>1. /\ IsFiniteSet(Known \union {c.call.handle})
          /\ \/ Cardinality(Known \union {c.call.handle}) = Cardinality(Known)
             \/ Cardinality(Known \union {c.call.handle}) = Cardinality(Known) + 1
      BY <1>3, FS_AddElement, Zenon
    <3>2. Cardinality(Known \union {c.call.handle}) \in Nat
      BY <3>1, FS_CardinalityType
    <3> QED
      BY <1>3, <2>4, <2>5, <3>1, <3>2, BrowserAssumption
  <2>7. OpenHandlesAreKnown'
    BY <2>4, OtherHandlesKept DEF OpenHandlesAreKnown
  <2> QED
    BY <1>7, <2>3, <2>6, <2>7 DEF KnownNow
<1>9. CASE Closes(pending, c)
  <2>1. pending.op = "close" /\ ~Opened(c) /\ pending.handle \in Handles
    BY <1>1, <1>9 DEF Opened, Closes
  <2>2. known = [tab.known EXCEPT ![pending.handle] = 0]
    BY <1>9, <2>1 DEF Recorded, After
  <2>3. /\ known \in [Handles -> 0..MaxEpochs] /\ known[pending.handle] = 0
        /\ \A h \in Handles : h # pending.handle => known[h] = tab.known[h]
    BY <1>2, <2>1, <2>2, BrowserAssumption
  <2> HIDE DEF known
  <2>4. Known' = Known \ {pending.handle}
    BY <1>2, <1>5, <2>1, <2>3 DEF Known
  <2>5. IsFiniteSet(Known') /\ Cardinality(Known') <= MaxHandles
    <3>1. IsFiniteSet(Known') /\ Cardinality(Known') <= Cardinality(Known)
      BY <1>3, <2>4, FS_Subset
    <3>2. Cardinality(Known') \in Nat
      BY <3>1, FS_CardinalityType
    <3> QED
      BY <1>3, <3>1, <3>2, BrowserAssumption
  <2>6. Lose(Overtaken(pending.handle))
    BY <1>9, <2>1
  <2>7. Overtaken(pending.handle) = {}
        => \E d \in page' : Opened(d) /\ d.call.handle = pending.handle
    BY <2>1 DEF Overtaken
  <2>8. Overtaken(pending.handle) # {} => pending.handle \in Overtaken(pending.handle)
    BY DEF Overtaken
  <2>9. OpenHandlesAreKnown'
    BY <2>1, <2>4, <2>6, <2>7, <2>8, OtherHandlesKept DEF OpenHandlesAreKnown
  <2> QED
    BY <1>7, <2>3, <2>5, <2>9 DEF KnownNow
<1>10. CASE ~Closes(pending, c) /\ ~(Opened(c) /\ ~TableFull(tab.known))
  <2>1. known = tab.known /\ After(pending, c) = tab.known
    BY <1>10 DEF Recorded, After
  <2> HIDE DEF known
  <2>2. Known' = Known
    BY <1>2, <1>5, <2>1 DEF Known
  <2>3. Lose(IF Opened(c) THEN {c.call.handle} ELSE {})
    <3>1. Opened(c) <=> Opened(c) /\ TableFull(After(pending, c))
      BY <1>10, <2>1
    <3> QED
      BY <1>10, <3>1
  <2>4. OpenHandlesAreKnown'
    BY <2>2, <2>3, OtherHandlesKept DEF OpenHandlesAreKnown
  <2> QED
    BY <1>2, <1>3, <1>7, <2>1, <2>2, <2>4 DEF KnownNow
<1> QED
  BY <1>8, <1>9, <1>10 DEF Closes, Opened

\* An answer nothing waits for changes only what is lost.
LEMMA CompleteKeeps ==
  ASSUME BrowserInv, NEW c \in page, HostComplete(c)
  PROVE  BrowserInv'
<1> USE DEF BrowserInv
<1>1. page' = page \ {c} /\ UNCHANGED <<bOpen, bEpoch>> /\ c.answer # "none"
  BY DEF HostComplete
<1>2. CASE \E p \in tab.pending : p.id = c.call.id
  <2>1. PICK pending \in {p \in tab.pending : p.id = c.call.id} :
          /\ tab' = [tab EXCEPT !.pending = @ \ {pending},
                                !.known = Recorded(After(pending, c), pending, c)]
          /\ Lose((IF Opened(c) /\ TableFull(After(pending, c)) THEN {c.call.handle} ELSE {})
                  \union (IF Closes(pending, c) THEN Overtaken(pending.handle) ELSE {}))
    BY <1>2 DEF HostComplete
  <2> QED
    BY <1>1, <2>1, PendingAnswered
<1>3. CASE \A p \in tab.pending : p.id # c.call.id
  <2>1. tab' = tab /\ Lose(IF Opened(c) THEN {c.call.handle} ELSE {})
    BY <1>3 DEF HostComplete
  <2>2. bLost' \subseteq bOpen /\ Known' = Known
    BY <2>1 DEF Lose, Known
  <2>3. BrowserShape' /\ Numbered' /\ Matched' /\ Named'
    BY <1>1, <2>1, <2>2, FewerCalls DEF BrowserShape
  <2>4. OpenHandlesAreKnown'
    BY <1>1, <2>1, <2>2, OtherHandlesKept DEF OpenHandlesAreKnown
  <2> QED
    BY <1>1, <2>1, <2>2, <2>3, <2>4 DEF WithinLimits, KnownNow
<1> QED
  BY <1>2, <1>3

LEMMA BrowserStepInv == BrowserInv /\ [BrowserNext]_browserVars => BrowserInv'
<1> SUFFICES ASSUME BrowserInv, [BrowserNext]_browserVars PROVE BrowserInv'
  OBVIOUS
<1>1. CASE Halt \/ Wake \/ \E services \in SUBSET BrowserServices : NewCard(services)
  BY <1>1, TabKeeps
<1>2. ASSUME NEW op \in BrowserOps, NEW h \in Handles \union {NoHandle},
             op \in {"open", "fetch"} <=> h = NoHandle, HostCall(op, h)
      PROVE  BrowserInv'
  BY <1>2, HostCallKeeps
<1>3. ASSUME NEW c \in page,
             \/ \E h \in Handles : PageOpens(c, h)
             \/ PageCloses(c)
             \/ \E answer \in {"ok", "failed"} : PageOther(c, answer)
      PROVE  BrowserInv'
  BY <1>3, PageKeeps
<1>4. ASSUME NEW c \in page, HostComplete(c) \/ TooLong(c) PROVE BrowserInv'
  BY <1>4, CompleteKeeps, TooLongKeeps
<1>5. CASE UNCHANGED browserVars
  BY <1>5 DEF browserVars, BrowserInv, BrowserShape, WithinLimits, Numbered, Matched,
     Named, KnownNow, Known, OpenHandlesAreKnown
<1> QED
  BY <1>1, <1>2, <1>3, <1>4, <1>5 DEF BrowserNext

LEMMA BrowserInvariant == BrowserSpec => []BrowserInv
<1> QED
  BY BrowserInitInv, BrowserStepInv, PTL DEF BrowserSpec

\* The capsule's tables keep their type and stay within their limit.
THEOREM BrowserTypes == BrowserSpec => []BrowserTypeOK
<1>1. BrowserInv => BrowserTypeOK
  BY DEF BrowserInv, BrowserShape, Tables, WithinLimits, Numbered, BrowserTypeOK
<1> QED
  BY <1>1, BrowserInvariant, PTL

\* What the capsule holds was asked for since the last suspension, however late
\* the answers of earlier calls arrive: their numbers match nothing any more.
THEOREM BrowserForgetsSuspended == BrowserSpec => []BrowserForgets
<1>1. BrowserInv => BrowserForgets
  BY DEF BrowserInv, BrowserShape, Tables, Known, KnownNow, Matched, BrowserForgets
<1> QED
  BY <1>1, BrowserInvariant, PTL

\* A handle that is open in the page is known to the capsule, or its answer is on
\* the way, or it was lost in one of the four ways the code has: a suspension, a
\* full table, an answer that is too long, a close that was overtaken.
THEOREM OpenHandlesKnown == BrowserSpec => []OpenHandlesAreKnown
<1>1. BrowserInv => OpenHandlesAreKnown
  BY DEF BrowserInv
<1> QED
  BY <1>1, BrowserInvariant, PTL
=============================================================================
