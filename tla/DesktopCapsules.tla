--------------------------- MODULE DesktopCapsules ---------------------------
(* The capsules of the desktops and the native side they guard: framework   *)
(* services on macOS and Windows, a portal and a request budget on Linux.   *)
(* A capsule is called by one thread; any call may come in any state. The   *)
(* calls to the native side that fail change nothing there.                 *)
EXTENDS Naturals

CONSTANTS
  Tokens,        \* tokens of the requests on Linux
  MaxRequests,   \* budget: requests of an activation
  MaxEntropy     \* budget: bytes of entropy of an activation

ASSUME DesktopAssumption == MaxRequests \in Nat /\ MaxEntropy \in Nat

VARIABLES
  desk,      \* the capsule, or NoDesk
  native,    \* its native side: surface, process tree, cancelled tokens
  dHistory   \* history: what a suspension found, requests admitted, tokens cut off

desktopVars == <<desk, native, dHistory>>

Desktops == {"macos", "windows", "linux"}
NoDesk == [kind |-> "none"]

\* What the native side has of the capsule's.
Held == [surface |-> native.surface, tree |-> native.tree]

DesktopInit ==
  /\ desk = NoDesk
  /\ native = [surface |-> FALSE, tree |-> FALSE, cancelled |-> {}]
  /\ dHistory = [held |-> Held, admitted |-> 0, cleaned |-> 0, dead |-> {},
                  revoked |-> {}, late |-> {}]

\* allowed: the profile grants the one capability that is asked for.
OpenDesktop(kind, allowed) ==
  /\ desk = NoDesk
  /\ desk' = [kind |-> kind, allowed |-> allowed, life |-> "ready",
              used |-> 0, entropy |-> 0, cancelled |-> {}]
  /\ UNCHANGED <<native, dHistory>>

Framework == desk.kind \in {"macos", "windows"}
OnLinux == desk.kind = "linux" /\ desk.life # "dropped"
\* Fault: a suspended capsule counts as running.
NotStopped == Framework /\ desk.life \notin {"stopped", "dropped"}
EnsureRunning == Framework /\ desk.life \in {"ready", "active"}

-----------------------------------------------------------------------------
(* macOS and Windows. Observing a permission asks for no capability on      *)
(* macOS; activation asks for one on Windows alone.                         *)

PermissionStatus ==
  /\ EnsureRunning /\ desk.kind = "macos"
  /\ UNCHANGED desktopVars
RequestPermission ==
  /\ EnsureRunning /\ desk.kind = "macos" /\ desk.allowed
  /\ UNCHANGED desktopVars
\* Of the requests on Windows only one that launches leaves something.
DispatchRequest(launch) ==
  /\ EnsureRunning /\ desk.kind = "windows" /\ desk.allowed
  /\ native' = [native EXCEPT !.tree = @ \/ launch]
  /\ UNCHANGED <<desk, dHistory>>
ActivateDesktop ==
  /\ EnsureRunning /\ (desk.kind = "windows" => desk.allowed)
  /\ native' = [native EXCEPT !.surface = TRUE]
  /\ desk' = [desk EXCEPT !.life = "active"]
  /\ UNCHANGED dHistory
CancelProcessTree ==
  /\ EnsureRunning /\ desk.kind = "windows"
  /\ native' = [native EXCEPT !.tree = FALSE]
  /\ UNCHANGED <<desk, dHistory>>

\* cleanup of the native side.
Cleanup ==
  /\ native' = [native EXCEPT !.surface = FALSE, !.tree = FALSE]
  /\ dHistory' = [dHistory EXCEPT !.cleaned = @ + 1]

\* Fault: stop and drop each clean up.
StopAgain(life) == Cleanup /\ desk' = [desk EXCEPT !.life = life]
Stop(life) ==
  /\ IF desk.life # "stopped" THEN Cleanup ELSE UNCHANGED <<native, dHistory>>
  /\ desk' = [desk EXCEPT !.life = life]
StopDesktop == Framework /\ desk.life # "dropped" /\ Stop("stopped")

-----------------------------------------------------------------------------
(* All three. A suspension leaves the native side as it is, and resuming    *)
(* gives back neither budget nor tokens. Linux takes both in any state.     *)

SuspendDesktop ==
  /\ \/ EnsureRunning
     \/ OnLinux
  /\ desk' = [desk EXCEPT !.life = "suspended"]
  /\ dHistory' = [dHistory EXCEPT !.held = Held]
  /\ UNCHANGED native

\* Faults: resuming gives back the budget, or what was cancelled.
ResumedAnew == [desk EXCEPT !.life = "ready", !.used = 0]
ResumedAfresh == [desk EXCEPT !.life = "ready", !.cancelled = {}]
Resumed == [desk EXCEPT !.life = "ready"]
ResumeDesktop ==
  /\ \/ Framework /\ desk.life = "suspended"
     \/ OnLinux
  /\ desk' = Resumed
  /\ UNCHANGED <<native, dHistory>>

DropDesktop ==
  /\ desk.kind # "none" /\ desk.life # "dropped"
  /\ Stop("dropped")

-----------------------------------------------------------------------------
(* Linux. Whatever apply admits is charged, also when execute refuses it; a *)
(* cancellation is itself a request, a revocation is not. The queue is      *)
(* empty between two calls.                                                 *)

Admits(token) ==
  /\ OnLinux /\ desk.life # "suspended"
  /\ token \notin desk.cancelled
  /\ desk.used < MaxRequests
Charged == [desk EXCEPT !.used = @ + 1]
Counted == [dHistory EXCEPT !.admitted = @ + 1]

\* Clocks, facts, limits, mounts, and timers; nothing is kept of them.
ApplyFact(token) ==
  /\ Admits(token) /\ desk' = Charged /\ dHistory' = Counted
  /\ UNCHANGED native
ApplyEntropy(token, bytes) ==
  /\ Admits(token)
  /\ desk' = [Charged EXCEPT !.entropy = IF @ + bytes <= MaxEntropy THEN @ + bytes ELSE @]
  /\ dHistory' = Counted
  /\ UNCHANGED native
ApplyDesktop(token) ==
  /\ Admits(token) /\ desk' = Charged
  /\ dHistory' = [Counted EXCEPT !.late = @ \union ({token} \intersect dHistory.dead)]
  /\ UNCHANGED native
ApplyCancel(token, cancelled) ==
  /\ Admits(token)
  /\ desk' = [Charged EXCEPT !.cancelled = @ \union {cancelled}]
  /\ native' = [native EXCEPT !.cancelled = @ \union {cancelled}]
  /\ dHistory' = [Counted EXCEPT !.dead = @ \union {cancelled}]
Revoke(token) ==
  /\ OnLinux /\ desk' = [desk EXCEPT !.cancelled = @ \union {token}]
  /\ dHistory' = [dHistory EXCEPT !.dead = @ \union {token}, !.revoked = @ \union {token}]
  /\ UNCHANGED native

DesktopNext ==
  \/ \E kind \in Desktops, allowed \in BOOLEAN : OpenDesktop(kind, allowed)
  \/ PermissionStatus \/ RequestPermission \/ ActivateDesktop \/ CancelProcessTree
  \/ \E launch \in BOOLEAN : DispatchRequest(launch)
  \/ StopDesktop \/ SuspendDesktop \/ ResumeDesktop \/ DropDesktop
  \/ \E token \in Tokens :
       \/ ApplyFact(token) \/ ApplyDesktop(token) \/ Revoke(token)
       \/ \E bytes \in 1..2 : ApplyEntropy(token, bytes)
       \/ \E other \in Tokens : ApplyCancel(token, other)

DesktopSpec == DesktopInit /\ [][DesktopNext]_desktopVars

-----------------------------------------------------------------------------
DesktopTypeOK ==
  \/ desk = NoDesk
  \/ /\ desk.kind \in Desktops
     /\ desk.life \in {"ready", "active", "suspended", "stopped", "dropped"}
     /\ desk.used \in 0..MaxRequests /\ desk.entropy \in 0..MaxEntropy
     /\ desk.cancelled \subseteq Tokens

(* A suspension discards nothing and gives nothing back: while it lasts the *)
(* surface and the process tree are those it found, and across any number   *)
(* of them the requests that were ever admitted keep to the one budget, and *)
(* no operation of a token that was cancelled or revoked reaches the native *)
(* side.                                                                    *)
DesktopSuspends ==
  /\ desk.kind # "none" /\ desk.life = "suspended" => Held = dHistory.held
  /\ dHistory.admitted <= MaxRequests
  /\ dHistory.late = {}

(* The native side is cleaned up exactly once in the life of a capsule,     *)
(* however it is stopped and dropped, and has nothing left then; an active  *)
(* capsule has its surface; and the portal knows as cancelled what the      *)
(* capsule refuses, but for tokens that were revoked, of which it is never  *)
(* told.                                                                    *)
DesktopAgrees ==
  desk # NoDesk =>
    LET over == desk.life \in {"stopped", "dropped"} IN
    /\ dHistory.cleaned = IF over THEN 1 ELSE 0
    /\ over => ~native.surface /\ ~native.tree
    /\ desk.life = "active" => native.surface
    /\ native.cancelled \subseteq desk.cancelled
    /\ desk.cancelled \subseteq native.cancelled \union dHistory.revoked
=============================================================================
