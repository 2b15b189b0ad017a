---------------------------- MODULE CapsuleBoot ----------------------------
(* The bootstrap admits the one capsule beside an executable: it reads the  *)
(* descriptor, the capsule's card and the artifact it names, and has the    *)
(* loader load the artifact by its path. Other programs replace the files   *)
(* between any two of these steps. A digest stands for the content.         *)
EXTENDS Naturals

CONSTANTS
  Artifacts,        \* contents of an artifact
  Services,         \* services a card may claim
  AllowedServices,  \* services the host's policy allows
  MaxSwaps          \* bound: files replaced during a bootstrap

ASSUME BootAssumption == MaxSwaps \in Nat

VARIABLES
  disk,     \* the three files
  boot,     \* the bootstrap: what it has read, and its step
  uSwaps,   \* number of files replaced
  uLate     \* history: files replaced after the bootstrap had read them

bootVars == <<disk, boot, uSwaps, uLate>>

BootFiles == {"descriptor", "card", "artifact"}
Unread == [kind |-> "unread"]
Long == [kind |-> "long"]
Broken == [kind |-> "broken"]

\* What a file may hold; Long exceeds the limit, Broken does not parse or
\* fails a check that concerns this file alone.
Good(f) ==
  CASE f = "descriptor" -> [kind : {"good"}, claim : Artifacts, loader : {"native", "other"}]
    [] f = "card" -> [kind : {"good"}, services : SUBSET Services, loaders : SUBSET {"native"}]
    [] f = "artifact" -> [kind : {"good"}, bytes : Artifacts]
Contents(f) == Good(f) \union {Long} \union (IF f = "artifact" THEN {} ELSE {Broken})
Fits(content) == content # Long
Bytes(content) == IF Fits(content) THEN content.bytes ELSE "long"

BootInit ==
  /\ disk = [f \in BootFiles |-> Unread]
  /\ boot = [step |-> "prepare", descriptor |-> Unread, card |-> Unread,
             artifact |-> Unread, identity |-> "none", loaded |-> "none"]
  /\ uSwaps = 0 /\ uLate = {}

\* A bundle is laid out beside the executable, consistent or not.
Lay ==
  /\ boot.step = "prepare"
  /\ \E d \in Good("descriptor"), c \in Good("card"), a \in Good("artifact") :
       disk' = [descriptor |-> d, card |-> c, artifact |-> a]
  /\ boot' = [boot EXCEPT !.step = "envelope"]
  /\ UNCHANGED <<uSwaps, uLate>>

Swap(f) ==
  /\ boot.step \notin {"prepare", "loaded", "refused"} /\ uSwaps < MaxSwaps
  /\ \E content \in Contents(f) \ {disk[f]} : disk' = [disk EXCEPT ![f] = content]
  /\ uSwaps' = uSwaps + 1
  /\ uLate' = IF boot[f] # Unread THEN uLate \union {f} ELSE uLate
  /\ UNCHANGED boot

To(step) == boot' = [boot EXCEPT !.step = step]
Refuse == To("refused")
Steady == UNCHANGED <<disk, uSwaps, uLate>>

(* The envelope is validated before anything is read.                       *)
ValidateEnvelope ==
  /\ boot.step = "envelope" /\ (To("descriptor") \/ Refuse) /\ Steady

(* read_bounded looks at the size and reads afterwards.                     *)
Measure(f, reading) ==
  /\ boot.step = f
  /\ IF Fits(disk[f]) THEN To(reading) ELSE Refuse
  /\ Steady
Read(f, reading, next) ==
  /\ boot.step = reading
  /\ boot' = [boot EXCEPT !.step = next, ![f] = disk[f]]
  /\ Steady

(* Descriptor and card, once read, must parse, the loader must be one the   *)
(* card implements and the card may claim nothing beyond the policy.        *)
Parses(content) == content.kind = "good"
ParseDescriptor ==
  /\ boot.step = "parse"
  /\ IF Parses(boot.descriptor) THEN To("card") ELSE Refuse
  /\ Steady
ValidBundle(d, c) == d.loader \in c.loaders
\* Fault: one allowed service admits them all.
AnyWithinPolicy(c) == c.services = {} \/ c.services \intersect AllowedServices # {}
WithinPolicy(c) == c.services \subseteq AllowedServices
ValidateBundle ==
  /\ boot.step = "validate"
  /\ IF Parses(boot.card) /\ ValidBundle(boot.descriptor, boot.card)
                                  /\ WithinPolicy(boot.card)
       THEN To("artifact") ELSE Refuse
  /\ Steady

\* Fault: the digest is taken of what is in the file now.
MatchesFile == boot.artifact.kind = "good" /\ Bytes(disk["artifact"]) = boot.descriptor.claim
Matches == boot.artifact.kind = "good" /\ boot.artifact.bytes = boot.descriptor.claim
VerifyDigest ==
  /\ boot.step = "digest"
  /\ IF Matches THEN boot' = [boot EXCEPT !.step = "load", !.identity = boot.artifact.bytes]
                ELSE Refuse
  /\ Steady

(* The loader opens the path again: it may refuse, or load what is there,   *)
(* whatever its length.                                                     *)
Load ==
  /\ boot.step = "load"
  /\ \/ Refuse
     \/ boot' = [boot EXCEPT !.step = "loaded", !.loaded = Bytes(disk["artifact"])]
  /\ Steady

BootNext ==
  \/ Lay \/ ValidateEnvelope \/ ParseDescriptor \/ ValidateBundle \/ VerifyDigest \/ Load
  \/ \E f \in BootFiles : Swap(f)
  \/ Measure("descriptor", "readDescriptor") \/ Read("descriptor", "readDescriptor", "parse")
  \/ Measure("card", "readCard") \/ Read("card", "readCard", "validate")
  \/ Measure("artifact", "readArtifact") \/ Read("artifact", "readArtifact", "digest")

BootSpec == BootInit /\ [][BootNext]_bootVars

-----------------------------------------------------------------------------
BootTypeOK ==
  /\ uSwaps \in 0..MaxSwaps /\ uLate \subseteq BootFiles
  /\ \A f \in BootFiles : {disk[f], boot[f]} \subseteq Contents(f) \union {Unread}
  /\ {boot.identity, boot.loaded} \subseteq Artifacts \union {"none", "long"}

(* What is loaded is what the descriptor that was read names, and it is     *)
(* reported under that identity; the card handed on claims nothing outside  *)
(* the policy, and the loader it was admitted for is its own. Only an       *)
(* artifact replaced after it was read is loaded under another's name, and  *)
(* only files replaced between measuring and reading exceed their limit.    *)
OnlyVerifiedLoads ==
  /\ boot.step = "loaded" =>
       /\ boot.identity = boot.descriptor.claim
       /\ boot.loaded = boot.identity \/ "artifact" \in uLate
       /\ boot.card.services \subseteq AllowedServices
       /\ boot.descriptor.loader \in boot.card.loaders
  /\ \A f \in BootFiles : boot[f] = Long => uSwaps > 0
=============================================================================
