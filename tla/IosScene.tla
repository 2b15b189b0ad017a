------------------------------ MODULE IosScene ------------------------------
(* The iOS capsule and the scene that drives it: the scene opens the scope  *)
(* of a document before it tells the capsule of the grant, and closes every *)
(* scope before it tells it of a suspension. Authority is kept with the     *)
(* epoch in which it was given, a label the code does not have; 0 is none.  *)
EXTENDS Naturals

CONSTANTS
  Documents,   \* documents other programs share
  MaxScenes    \* bound: suspensions plus one, of one scene

ASSUME IosAssumption == MaxScenes \in Nat \ {0}

VARIABLES
  capsule,   \* the capsule, or NoCapsule
  scopes,    \* documents whose scope the scene holds open
  iStray     \* history: scopes opened while the capsule refused the grant

iosVars == <<capsule, scopes, iStray>>

IosResources == {"activation", "notification", "audio"}
IosPermissions == {"microphone", "notifications", "shared-document"}
NoCapsule == [up |-> FALSE]
Nothing == [r \in IosResources |-> 0]

FreshCapsule ==
  [up |-> TRUE, life |-> "none", held |-> Nothing, granted |-> {},
   background |-> 0, documents |-> [d \in Documents |-> 0], epoch |-> 1]

IosInit == capsule = NoCapsule /\ scopes = {} /\ iStray = {}

-----------------------------------------------------------------------------
(* Handlers of the capsule.                                                 *)

IsActive(c) == c.life \in {"active", "connected"}
Available(c, permission) == IsActive(c) /\ permission \in c.granted
IosLifecycle(c, life) ==
  IF life \in {"suspended", "disconnected"}
    THEN [c EXCEPT !.life = life, !.held = Nothing, !.background = 0,
                   !.documents = [d \in Documents |-> 0], !.epoch = @ + 1]
    ELSE [c EXCEPT !.life = life]
Hold(c, r) == IF c.held[r] = 0 THEN [c EXCEPT !.held[r] = c.epoch] ELSE c
Activation(c) ==
  IF c.life \in {"suspended", "disconnected"} THEN c ELSE Hold(c, "activation")
Permission(c, p, yes) == [c EXCEPT !.granted = IF yes THEN @ \union {p} ELSE @ \ {p}]
Notification(c) == IF Available(c, "notifications") THEN Hold(c, "notification") ELSE c
AudioDevice(c, connected) ==
  IF connected /\ Available(c, "microphone") THEN Hold(c, "audio")
                                             ELSE [c EXCEPT !.held["audio"] = 0]
\* Fault: the permission is given to a suspended capsule too.
BackgroundAlways(c, allowed) == [c EXCEPT !.background = IF allowed THEN c.epoch ELSE 0]
Background(c, allowed) ==
  [c EXCEPT !.background = IF allowed /\ IsActive(c) THEN c.epoch ELSE 0]
DocumentGrant(c, d, active) ==
  [c EXCEPT !.documents[d] = IF ~(active /\ IsActive(c)) THEN 0
                             ELSE IF @ = 0 THEN c.epoch ELSE @]
\* Fault: the grants go with the resources.
PressureOnAll(c) == [c EXCEPT !.held = Nothing, !.documents = [d \in Documents |-> 0]]
MemoryPressure(c) == [c EXCEPT !.held = Nothing]

-----------------------------------------------------------------------------
(* The scene. open-url tries the scope first: without it the permission is  *)
(* withdrawn; with it the scope is kept whatever the capsule answers.       *)

OpenUrl(c, d) == Activation(DocumentGrant(c, d, TRUE))
IosTells(c) == capsule.up /\ capsule' = c /\ UNCHANGED <<scopes, iStray>>

\* releaseAllDocumentGrants: what the capsule is told of the scopes it held.
WithoutGrants(c) ==
  [c EXCEPT !.documents = [d \in Documents |-> IF d \in scopes THEN 0 ELSE @[d]]]

ConnectScene(urls) ==
  /\ ~capsule.up
  /\ LET connected == IosLifecycle(FreshCapsule, "connected") IN
     capsule' = IF urls = {} THEN connected
                ELSE Activation([connected EXCEPT
                       !.documents = [d \in Documents |-> IF d \in urls THEN 1 ELSE 0]])
  /\ scopes' = urls /\ UNCHANGED iStray
BecomeActive == IosTells(IosLifecycle(capsule, "active"))
ResignActive ==
  /\ capsule.up /\ capsule.epoch < MaxScenes
  /\ capsule' = IosLifecycle(WithoutGrants(capsule), "suspended")
  /\ scopes' = {} /\ iStray' = {}
Disconnect ==
  /\ capsule.up /\ capsule' = NoCapsule /\ scopes' = {} /\ iStray' = {}
OpensUrl(d) ==
  /\ capsule.up /\ capsule' = OpenUrl(capsule, d)
  /\ scopes' = scopes \union {d}
  /\ iStray' = IF capsule'.documents[d] = 0 THEN iStray \union {d} ELSE iStray \ {d}
ScopeRefused == IosTells(Permission(capsule, "shared-document", FALSE))

IosNext ==
  \/ \E urls \in SUBSET Documents : ConnectScene(urls)
  \/ BecomeActive \/ ResignActive \/ Disconnect \/ ScopeRefused
  \/ \E d \in Documents : OpensUrl(d)
  \/ IosTells(Activation(capsule))
  \/ \E p \in {"microphone", "notifications"}, yes \in BOOLEAN :
       IosTells(Permission(capsule, p, yes))
  \/ IosTells(Notification(capsule))
  \/ \E yes \in BOOLEAN :
       IosTells(AudioDevice(capsule, yes)) \/ IosTells(Background(capsule, yes))
  \/ IosTells(MemoryPressure(capsule))

IosSpec == IosInit /\ [][IosNext]_iosVars

-----------------------------------------------------------------------------
IosTypeOK ==
  /\ iStray \subseteq scopes /\ scopes \subseteq Documents
  /\ \/ capsule = NoCapsule
     \/ /\ capsule.life \in {"none", "connected", "active", "suspended", "disconnected"}
        /\ capsule.granted \subseteq IosPermissions
        /\ capsule.epoch \in 1..MaxScenes

(* A suspended capsule holds nothing at all, and what an active one holds   *)
(* was given since the last suspension.                                     *)
IosForgets ==
  capsule.up =>
    LET now == IF IsActive(capsule) THEN {0, capsule.epoch} ELSE {0} IN
    /\ \A r \in IosResources : capsule.held[r] \in now
    /\ \A d \in Documents : capsule.documents[d] \in now
    /\ capsule.background \in now

(* The scene and the capsule agree on documents: a document the capsule may *)
(* use has its scope open, and a scope without a grant is one that was      *)
(* opened while the capsule was suspended.                                  *)
IosAgrees ==
  capsule.up =>
    {d \in Documents : capsule.documents[d] # 0} = scopes \ iStray
=============================================================================
