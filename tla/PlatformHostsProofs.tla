------------------------ MODULE PlatformHostsProofs ------------------------
(* What the platform promises, proved of the hosts together: each host is   *)
(* shown to take the steps of its component alone, so that what is proved   *)
(* of the component holds of it. The capsules of the devices are proved in  *)
(* CapsuleProofs, the other components here.                                *)
EXTENDS PlatformHosts, CapsuleProofs, SequenceTheorems, WellFoundedInduction

-----------------------------------------------------------------------------
(* The bootstrap.                                                           *)

AfterParse == {"card", "readCard", "validate", "artifact", "readArtifact", "digest",
               "load", "loaded"}
AfterValidate == {"artifact", "readArtifact", "digest", "load", "loaded"}
BootSteps == AfterParse \union {"prepare", "envelope", "descriptor", "readDescriptor",
                                "parse", "refused"}

BootStates ==
  [step : BootSteps,
   descriptor : Contents("descriptor") \union {Unread},
   card : Contents("card") \union {Unread},
   artifact : Contents("artifact") \union {Unread},
   identity : Artifacts \union {"none"}, loaded : Artifacts \union {"none", "long"}]
Disks ==
  [descriptor : Contents("descriptor") \union {Unread},
   card : Contents("card") \union {Unread},
   artifact : Contents("artifact") \union {Unread}]

BootShape ==
  /\ boot \in BootStates /\ disk \in Disks
  /\ uSwaps \in 0..MaxSwaps /\ uLate \subseteq BootFiles

\* What was read is still in the file, unless the file was replaced later.
ReadIsCurrent ==
  /\ boot.artifact # Unread /\ "artifact" \notin uLate => disk.artifact = boot.artifact
  /\ boot.step = "prepare" => boot.artifact = Unread
  /\ boot.step # "prepare" => disk.artifact # Unread

\* Only a replaced file is longer than it was when it was measured.
MeasuredFits ==
  /\ uSwaps = 0 => /\ Fits(boot.descriptor) /\ Fits(boot.card) /\ Fits(boot.artifact)
                   /\ boot.step = "readDescriptor" => Fits(disk.descriptor)
                   /\ boot.step = "readCard" => Fits(disk.card)
                   /\ boot.step = "readArtifact" => Fits(disk.artifact)

\* What each step has established of what was read.
Established ==
  /\ boot.step \in AfterParse => Parses(boot.descriptor)
  /\ boot.step \in AfterValidate =>
       Parses(boot.card) /\ ValidBundle(boot.descriptor, boot.card) /\ WithinPolicy(boot.card)
  /\ boot.step \in {"load", "loaded"} => Matches /\ boot.identity = boot.artifact.bytes
  /\ boot.step = "loaded" => boot.loaded = boot.identity \/ "artifact" \in uLate

BootInv == BootShape /\ ReadIsCurrent /\ MeasuredFits /\ Established

\* The contents a file may have are told apart by their kind.
LEMMA ContentKinds ==
  /\ Unread.kind = "unread" /\ Long.kind = "long" /\ Broken.kind = "broken"
  /\ \A f \in BootFiles : \A content \in Contents(f) :
       /\ content.kind = "good" <=> content \in Good(f)
       /\ content # Unread
  /\ \A f \in BootFiles : Good(f) \subseteq Contents(f)
<1>1. Unread.kind = "unread" /\ Long.kind = "long" /\ Broken.kind = "broken"
  BY DEF Unread, Long, Broken
<1>2. ASSUME NEW f \in BootFiles, NEW content \in Good(f) PROVE content.kind = "good"
  <2>1. f = "descriptor" \/ f = "card" \/ f = "artifact"
    BY DEF BootFiles
  <2> QED
    BY <2>1 DEF Good
<1>3. ASSUME NEW f \in BootFiles, NEW content \in Contents(f)
      PROVE  content \in Good(f) \/ content = Long \/ content = Broken
  BY DEF Contents
<1>4. \A f \in BootFiles : Good(f) \subseteq Contents(f)
  BY DEF Contents
<1> QED
  BY <1>1, <1>2, <1>3, <1>4

LEMMA BootInitInv == BootInit => BootInv
<1> SUFFICES ASSUME BootInit PROVE BootInv
  OBVIOUS
<1>1. boot \in BootStates /\ boot.step = "prepare" /\ boot.descriptor = Unread
      /\ boot.card = Unread /\ boot.artifact = Unread
  BY DEF BootInit, BootStates, BootSteps
<1>2. disk \in Disks
  BY DEF BootInit, Disks, BootFiles
<1>3. Fits(Unread)
  BY ContentKinds DEF Fits
<1> QED
  BY <1>1, <1>2, <1>3, BootAssumption DEF BootInit, BootInv, BootShape, ReadIsCurrent, MeasuredFits,
     Established, AfterParse, AfterValidate

\* A step of the bootstrap that reads nothing and replaces nothing.
LEMMA AdvanceKeeps ==
  ASSUME BootInv, Steady, NEW step \in BootSteps, To(step), boot.step # "prepare",
         step # "prepare",
         step \in AfterParse => boot.step \in AfterParse \/ Parses(boot.descriptor),
         step \in AfterValidate =>
           \/ boot.step \in AfterValidate
           \/ Parses(boot.card) /\ ValidBundle(boot.descriptor, boot.card)
              /\ WithinPolicy(boot.card),
         step \notin {"load", "loaded"},
         step = "readDescriptor" => Fits(disk.descriptor),
         step = "readCard" => Fits(disk.card),
         step = "readArtifact" => Fits(disk.artifact)
  PROVE  BootInv'
<1> USE DEF BootInv
<1>1. /\ boot' \in BootStates /\ boot'.step = step /\ boot'.descriptor = boot.descriptor
      /\ boot'.card = boot.card /\ boot'.artifact = boot.artifact
  BY DEF To, BootShape, BootStates
<1>2. disk' = disk /\ uSwaps' = uSwaps /\ uLate' = uLate
  BY DEF Steady
<1>3. BootShape' /\ ReadIsCurrent'
  BY <1>1, <1>2 DEF BootShape, ReadIsCurrent
<1>4. MeasuredFits'
  BY <1>1, <1>2 DEF MeasuredFits
<1>5. Established'
  BY <1>1, <1>2 DEF Established
<1> QED
  BY <1>3, <1>4, <1>5

LEMMA LayKeeps == ASSUME BootInv, Lay PROVE BootInv'
<1> USE DEF BootInv
<1>1. PICK d \in Good("descriptor"), c \in Good("card"), a \in Good("artifact") :
        disk' = [descriptor |-> d, card |-> c, artifact |-> a]
  BY DEF Lay
<1>2. disk' \in Disks
  BY <1>1 DEF Disks, Contents
<1>3. /\ boot' \in BootStates /\ boot'.step = "envelope" /\ boot'.descriptor = boot.descriptor
      /\ boot'.card = boot.card /\ boot'.artifact = boot.artifact /\ boot.step = "prepare"
  BY DEF Lay, BootShape, BootStates, BootSteps
<1>4. uSwaps' = uSwaps /\ uLate' = uLate
  BY DEF Lay
<1>5. BootShape' /\ ReadIsCurrent'
  <2>1. disk'.artifact # Unread
    BY <1>1, ContentKinds DEF BootFiles
  <2> QED
    BY <1>2, <1>3, <1>4, <2>1 DEF BootShape, ReadIsCurrent
<1>6. MeasuredFits'
  BY <1>3, <1>4 DEF MeasuredFits
<1>7. Established'
  BY <1>3 DEF Established, AfterParse, AfterValidate
<1> QED
  BY <1>5, <1>6, <1>7

LEMMA SwapKeeps == ASSUME BootInv, NEW f \in BootFiles, Swap(f) PROVE BootInv'
<1> USE DEF BootInv
<1>1. PICK content \in Contents(f) : disk' = [disk EXCEPT ![f] = content]
  BY DEF Swap
<1>2. f = "descriptor" \/ f = "card" \/ f = "artifact"
  BY DEF BootFiles
<1>3. disk' \in Disks /\ (f # "artifact" => disk'.artifact = disk.artifact)
  BY <1>1, <1>2 DEF BootShape, Disks
<1>4. /\ uSwaps' = uSwaps + 1 /\ uSwaps < MaxSwaps /\ boot' = boot /\ boot.step # "loaded"
      /\ uLate' = IF boot[f] # Unread THEN uLate \union {f} ELSE uLate
      /\ boot.step # "prepare"
  BY DEF Swap
<1>5. BootShape'
  BY <1>3, <1>4, BootAssumption DEF BootShape
<1>6. ReadIsCurrent'
  <2>1. f = "artifact" => disk'.artifact = content /\ content # Unread
    BY <1>1, <1>2, ContentKinds DEF BootShape, Disks
  <2> QED
    BY <1>2, <1>3, <1>4, <2>1 DEF ReadIsCurrent
<1>7. MeasuredFits'
  BY <1>4, BootAssumption DEF BootShape, MeasuredFits
<1>8. Established'
  BY <1>4 DEF Established, Matches
<1> QED
  BY <1>5, <1>6, <1>7, <1>8

\* Each file is read into its place, and the bootstrap goes on.
LEMMA ReadKeeps ==
  ASSUME BootInv,
         \/ Read("descriptor", "readDescriptor", "parse")
         \/ Read("card", "readCard", "validate")
         \/ Read("artifact", "readArtifact", "digest")
  PROVE  BootInv'
<1> USE DEF BootInv
<1>1. boot \in BootStates /\ disk \in Disks /\ disk' = disk /\ uSwaps' = uSwaps /\ uLate' = uLate
  BY DEF BootShape, Read, Steady
<1>2. CASE Read("descriptor", "readDescriptor", "parse")
  <2>1. /\ boot' \in BootStates /\ boot'.step = "parse" /\ boot'.descriptor = disk.descriptor
        /\ boot'.card = boot.card /\ boot'.artifact = boot.artifact
        /\ boot.step = "readDescriptor"
    BY <1>1, <1>2 DEF Read, BootStates, BootSteps, Disks
  <2>2. BootShape' /\ ReadIsCurrent'
    BY <1>1, <2>1 DEF BootShape, ReadIsCurrent
  <2>3. MeasuredFits' /\ Established'
    BY <1>1, <2>1 DEF MeasuredFits, Established, AfterParse, AfterValidate
  <2> QED
    BY <2>2, <2>3
<1>3. CASE Read("card", "readCard", "validate")
  <2>1. /\ boot' \in BootStates /\ boot'.step = "validate" /\ boot'.card = disk.card
        /\ boot'.descriptor = boot.descriptor /\ boot'.artifact = boot.artifact
        /\ boot.step = "readCard"
    BY <1>1, <1>3 DEF Read, BootStates, BootSteps, AfterParse, Disks
  <2>2. BootShape' /\ ReadIsCurrent'
    BY <1>1, <2>1 DEF BootShape, ReadIsCurrent
  <2>3. MeasuredFits' /\ Established'
    BY <1>1, <2>1 DEF MeasuredFits, Established, AfterParse, AfterValidate
  <2> QED
    BY <2>2, <2>3
<1>4. CASE Read("artifact", "readArtifact", "digest")
  <2>1. /\ boot' \in BootStates /\ boot'.step = "digest" /\ boot'.artifact = disk.artifact
        /\ boot'.descriptor = boot.descriptor /\ boot'.card = boot.card
        /\ boot.step = "readArtifact"
    BY <1>1, <1>4 DEF Read, BootStates, BootSteps, AfterParse, Disks
  <2>2. BootShape' /\ ReadIsCurrent'
    BY <1>1, <2>1 DEF BootShape, ReadIsCurrent
  <2>3. MeasuredFits' /\ Established'
    BY <1>1, <2>1 DEF MeasuredFits, Established, AfterParse, AfterValidate
  <2> QED
    BY <2>2, <2>3
<1> QED
  BY <1>2, <1>3, <1>4

\* The digest of what was read is verified, and the artifact loaded by its path.
LEMMA VerifyKeeps == ASSUME BootInv, VerifyDigest, Matches PROVE BootInv'
<1> USE DEF BootInv
<1>1. boot \in BootStates /\ disk' = disk /\ uSwaps' = uSwaps /\ uLate' = uLate
      /\ boot.step = "digest"
  BY DEF BootShape, VerifyDigest, Steady
<1>2. boot.artifact \in Good("artifact")
  BY <1>1, ContentKinds DEF BootStates, Matches, BootFiles
<1>3. boot.artifact.bytes \in Artifacts
  BY <1>2 DEF Good
<1>4. boot' = [boot EXCEPT !.step = "load", !.identity = boot.artifact.bytes]
  BY DEF VerifyDigest
<1>5. /\ boot' \in BootStates /\ boot'.step = "load" /\ boot'.identity = boot.artifact.bytes
      /\ boot'.artifact = boot.artifact /\ boot'.descriptor = boot.descriptor
      /\ boot'.card = boot.card
  BY <1>1, <1>3, <1>4 DEF BootStates, BootSteps, AfterParse
<1>6. BootShape' /\ ReadIsCurrent' /\ MeasuredFits'
  BY <1>1, <1>5 DEF BootShape, ReadIsCurrent, MeasuredFits
<1>7. Established'
  BY <1>1, <1>5 DEF Established, AfterParse, AfterValidate, Matches
<1> QED
  BY <1>6, <1>7

LEMMA LoadKeeps ==
  ASSUME BootInv, boot.step = "load", Steady,
         boot' = [boot EXCEPT !.step = "loaded", !.loaded = Bytes(disk["artifact"])]
  PROVE  BootInv'
<1> USE DEF BootInv
<1>1. boot \in BootStates /\ disk \in Disks /\ disk' = disk /\ uSwaps' = uSwaps /\ uLate' = uLate
  BY DEF BootShape, Steady
<1>2. Matches /\ boot.identity = boot.artifact.bytes
  BY DEF Established
<1>3. boot.artifact \in Good("artifact")
  BY <1>1, <1>2, ContentKinds DEF BootStates, Matches, BootFiles
<1>4. boot.artifact # Unread /\ boot.artifact # Long
  BY <1>2, ContentKinds DEF Matches
<1>5. Bytes(disk.artifact) = boot.identity \/ "artifact" \in uLate
  BY <1>2, <1>4 DEF ReadIsCurrent, Bytes, Fits
<1>6. Bytes(disk.artifact) \in Artifacts \union {"long"}
  <2>1. disk.artifact \in Good("artifact") \union {Long}
    BY <1>1, <1>4 DEF Disks, Contents, ReadIsCurrent
  <2> QED
    BY <2>1 DEF Bytes, Fits, Good
<1>7. /\ boot' \in BootStates /\ boot'.step = "loaded" /\ boot'.identity = boot.identity
      /\ boot'.artifact = boot.artifact /\ boot'.descriptor = boot.descriptor
      /\ boot'.card = boot.card /\ boot'.loaded = Bytes(disk.artifact)
  BY <1>1, <1>6 DEF BootStates, BootSteps, AfterParse
<1>8. BootShape' /\ ReadIsCurrent' /\ MeasuredFits'
  BY <1>1, <1>7 DEF BootShape, ReadIsCurrent, MeasuredFits
<1>9. Established'
  BY <1>1, <1>2, <1>5, <1>7 DEF Established, AfterParse, AfterValidate, Matches
<1> QED
  BY <1>8, <1>9

\* The steps that decide or measure, and refuse what does not pass.
LEMMA DecideKeeps ==
  ASSUME BootInv,
         \/ ValidateEnvelope \/ ParseDescriptor \/ ValidateBundle
         \/ Measure("descriptor", "readDescriptor") \/ Measure("card", "readCard")
         \/ Measure("artifact", "readArtifact")
         \/ VerifyDigest /\ ~Matches
         \/ boot.step = "load" /\ Refuse /\ Steady
  PROVE  BootInv'
<1> USE DEF Refuse
<1>1. ASSUME boot.step # "prepare", Refuse, Steady PROVE BootInv'
  BY <1>1, AdvanceKeeps DEF BootSteps, AfterParse, AfterValidate
<1>2. CASE ValidateEnvelope
  BY <1>1, <1>2, AdvanceKeeps DEF ValidateEnvelope, BootSteps, AfterParse, AfterValidate
<1>3. CASE ParseDescriptor
  BY <1>1, <1>3, AdvanceKeeps DEF ParseDescriptor, BootSteps, AfterParse, AfterValidate
<1>4. CASE ValidateBundle
  BY <1>1, <1>4, AdvanceKeeps DEF ValidateBundle, BootSteps, AfterParse, AfterValidate
<1>5. CASE Measure("descriptor", "readDescriptor")
  BY <1>1, <1>5, AdvanceKeeps DEF Measure, BootSteps, AfterParse, AfterValidate
<1>6. CASE Measure("card", "readCard")
  BY <1>1, <1>6, AdvanceKeeps DEF Measure, BootSteps, AfterParse, AfterValidate
<1>7. CASE Measure("artifact", "readArtifact")
  BY <1>1, <1>7, AdvanceKeeps DEF Measure, BootSteps, AfterParse, AfterValidate
<1>8. CASE VerifyDigest /\ ~Matches
  BY <1>1, <1>8 DEF VerifyDigest
<1>9. CASE boot.step = "load" /\ Refuse /\ Steady
  BY <1>1, <1>9
<1> QED
  BY <1>2, <1>3, <1>4, <1>5, <1>6, <1>7, <1>8, <1>9

LEMMA BootStepInv == BootInv /\ [BootNext]_bootVars => BootInv'
<1> SUFFICES ASSUME BootInv, [BootNext]_bootVars PROVE BootInv'
  OBVIOUS
<1>1. CASE Lay
  BY <1>1, LayKeeps
<1>2. CASE ValidateEnvelope \/ ParseDescriptor \/ ValidateBundle
  BY <1>2, DecideKeeps
<1>3. CASE VerifyDigest
  BY <1>3, DecideKeeps, VerifyKeeps
<1>4. CASE Load
  BY <1>4, DecideKeeps, LoadKeeps DEF Load
<1>5. ASSUME NEW f \in BootFiles, Swap(f) PROVE BootInv'
  BY <1>5, SwapKeeps
<1>6. CASE \/ Measure("descriptor", "readDescriptor") \/ Measure("card", "readCard")
           \/ Measure("artifact", "readArtifact")
  BY <1>6, DecideKeeps
<1>7. CASE \/ Read("descriptor", "readDescriptor", "parse")
           \/ Read("card", "readCard", "validate")
           \/ Read("artifact", "readArtifact", "digest")
  BY <1>7, ReadKeeps
<1>8. CASE UNCHANGED bootVars
  BY <1>8 DEF bootVars, BootInv, BootShape, ReadIsCurrent, MeasuredFits, Established, Matches
<1> QED
  BY <1>1, <1>2, <1>3, <1>4, <1>5, <1>6, <1>7, <1>8 DEF BootNext

LEMMA BootInvariant == BootSpec => []BootInv
<1> QED
  BY BootInitInv, BootStepInv, PTL DEF BootSpec

\* The files and what was read of them keep their type.
THEOREM BootTypes == BootSpec => []BootTypeOK
<1>1. BootInv => BootTypeOK
  <2> SUFFICES ASSUME BootInv PROVE BootTypeOK
    OBVIOUS
  <2>1. \A f \in BootFiles : {disk[f], boot[f]} \subseteq Contents(f) \union {Unread}
    BY DEF BootInv, BootShape, BootFiles, BootStates, Disks
  <2>2. {boot.identity, boot.loaded} \subseteq Artifacts \union {"none", "long"}
    BY DEF BootInv, BootShape, BootStates
  <2> QED
    BY <2>1, <2>2 DEF BootInv, BootShape, BootTypeOK
<1> QED
  BY <1>1, BootInvariant, PTL

\* Whatever is replaced meanwhile, what is loaded is what the descriptor that was
\* read names, under that identity and within the policy, or the artifact was
\* replaced after it was read.
THEOREM LoadsAreVerified == BootSpec => []OnlyVerifiedLoads
<1>1. BootInv => OnlyVerifiedLoads
  <2> SUFFICES ASSUME BootInv PROVE OnlyVerifiedLoads
    OBVIOUS
  <2>1. boot.step = "loaded" =>
          /\ boot.identity = boot.descriptor.claim
          /\ boot.loaded = boot.identity \/ "artifact" \in uLate
          /\ boot.card.services \subseteq AllowedServices
          /\ boot.descriptor.loader \in boot.card.loaders
    BY DEF BootInv, Established, AfterValidate, Matches, ValidBundle, WithinPolicy
  <2>2. \A f \in BootFiles : boot[f] = Long => uSwaps > 0
    BY BootAssumption DEF BootInv, BootShape, BootFiles, MeasuredFits, Fits
  <2> QED
    BY <2>1, <2>2 DEF OnlyVerifiedLoads
<1> QED
  BY <1>1, BootInvariant, PTL

-----------------------------------------------------------------------------
(* The memory mount.                                                        *)

Names == UNION {ToSet(p) : p \in Paths}

LEMMA PathsAreSequences == Paths \subseteq Seq(Names)
<1> SUFFICES ASSUME NEW p \in Paths PROVE p \in Seq(Names)
  OBVIOUS
<1>1. p \in Seq(ToSet(p)) /\ ToSet(p) \subseteq Names
  BY PathsAssumption DEF Names
<1> QED
  BY <1>1, SeqMonotonic

\* A strict prefix is shorter and agrees as far as it goes; below is transitive.
LEMMA StrictPrefix ==
  ASSUME NEW p \in Paths, NEW q \in Paths
  PROVE  IsStrictPrefix(p, q) <=> Len(p) < Len(q) /\ \A i \in 1..Len(p) : p[i] = q[i]
<1>1. p \in Seq(Names) /\ q \in Seq(Names) /\ Len(p) \in Nat /\ Len(q) \in Nat
  BY PathsAreSequences, LenProperties
<1>2. SubSeq(p, 1, Len(p)) = p
  BY <1>1, SubSeqFull
<1>3. ASSUME Len(p) <= Len(q)
      PROVE  /\ SubSeq(q, 1, Len(p)) \in Seq(Names) /\ Len(SubSeq(q, 1, Len(p))) = Len(p)
             /\ \A i \in 1..Len(p) : SubSeq(q, 1, Len(p))[i] = q[i]
  <2>1. \A i \in 1..Len(p) : q[i] \in Names
    BY <1>1, <1>3, ElementOfSeq
  <2>2. /\ SubSeq(q, 1, Len(p)) \in Seq(Names)
        /\ Len(SubSeq(q, 1, Len(p))) = IF 1 <= Len(p) THEN Len(p) - 1 + 1 ELSE 0
        /\ \A i \in 1..(Len(p) - 1 + 1) : SubSeq(q, 1, Len(p))[i] = q[1 + i - 1]
    BY <1>1, <2>1, SubSeqProperties
  <2> QED
    BY <1>1, <2>2
<1>4. ASSUME Len(p) <= Len(q)
      PROVE  p = SubSeq(q, 1, Len(p)) <=> \A i \in 1..Len(p) : p[i] = q[i]
  BY <1>1, <1>3, <1>4, SeqEqual
<1>5. p = q <=> Len(p) = Len(q) /\ \A i \in 1..Len(p) : p[i] = q[i]
  BY <1>1, SeqEqual
<1> QED
  BY <1>1, <1>2, <1>4, <1>5 DEF IsStrictPrefix, IsPrefix

LEMMA BelowIsTransitive ==
  ASSUME NEW p \in Paths, NEW q \in Below(p), NEW r \in Below(q)
  PROVE  r \in Below(p)
<1>1. q \in Paths /\ r \in Paths /\ Len(p) \in Nat /\ Len(q) \in Nat /\ Len(r) \in Nat
  BY PathsAreSequences, LenProperties DEF Below
<1>2. /\ Len(p) < Len(q) /\ \A i \in 1..Len(p) : p[i] = q[i]
      /\ Len(q) < Len(r) /\ \A i \in 1..Len(q) : q[i] = r[i]
  BY <1>1, StrictPrefix DEF Below
<1> QED
  BY <1>1, <1>2, StrictPrefix DEF Below

\* What is above a path is what the path is below of, and no path is above itself.
LEMMA AboveIsBelow ==
  ASSUME NEW p \in Paths, NEW q \in Paths
  PROVE  p \in Above(q) <=> q \in Below(p)
BY DEF Above, Below

LEMMA NotAboveItself == \A p \in Paths : p \notin Above(p) /\ p \notin Below(p)
BY DEF Above, Below, IsStrictPrefix

\* The sizes, and the bytes a file of each size has.
BytesOf(p, size) == {p} \X (1..size)

LEMMA Sizes ==
  /\ Size["absent"] = 0 /\ Size["dir"] = 0 /\ Size["small"] = 1 /\ Size["large"] = 2
BY DEF Size

LEMMA BytesOfFile ==
  ASSUME NEW p, NEW size \in 0..2
  PROVE  IsFiniteSet(BytesOf(p, size)) /\ Cardinality(BytesOf(p, size)) = size
<1>1. CASE size = 0
  <2>1. BytesOf(p, size) = {}
    BY <1>1 DEF BytesOf
  <2> QED
    BY <1>1, <2>1, FS_EmptySet
<1>2. IsFiniteSet({<<p, 1>>}) /\ Cardinality({<<p, 1>>}) = 1
  BY FS_Singleton
<1>3. CASE size = 1
  <2>1. BytesOf(p, size) = {<<p, 1>>}
    BY <1>3 DEF BytesOf
  <2> QED
    BY <1>2, <1>3, <2>1
<1>4. CASE size = 2
  <2>1. BytesOf(p, size) = {<<p, 1>>} \union {<<p, 2>>}
    BY <1>4 DEF BytesOf
  <2>2. <<p, 2>> \notin {<<p, 1>>}
    OBVIOUS
  <2>3. /\ IsFiniteSet({<<p, 1>>} \union {<<p, 2>>})
        /\ Cardinality({<<p, 1>>} \union {<<p, 2>>}) = 1 + 1
    BY <1>2, <2>2, FS_AddElement, Zenon
  <2> QED
    BY <1>4, <2>1, <2>3
<1> QED
  BY <1>1, <1>3, <1>4

LEMMA StoredIsFinite ==
  ASSUME MountTypeOK
  PROVE  IsFiniteSet(Stored) /\ Used \in Nat
<1>1. IsFiniteSet(Paths \X (1..2))
  <2>1. IsFiniteSet(1..2)
    <3>1. 1 \in Int /\ 2 \in Int
      OBVIOUS
    <3> QED
      BY <3>1, FS_Interval, Zenon
  <2> QED
    BY <2>1, PathsAssumption, FS_Product
<1>2. Stored \subseteq Paths \X (1..2)
  BY DEF Stored
<1> QED
  BY <1>1, <1>2, FS_Subset, FS_CardinalityType DEF Used

\* Putting an entry changes the bytes in use by what the entry has more.
LEMMA PutChangesUsed ==
  ASSUME MountTypeOK, NEW p \in Paths, NEW entry \in {"dir"} \union FileBytes, Put(p, entry)
  PROVE  Used' = Used - Size[tree[p]] + Size[entry]
<1>1. /\ tree' = [tree EXCEPT ![p] = entry] /\ tree'[p] = entry
      /\ \A q \in Paths : q # p => tree'[q] = tree[q]
      /\ tree[p] \in {"absent", "dir"} \union FileBytes
  BY DEF Put, MountTypeOK
<1>2. Size[tree[p]] \in 0..2 /\ Size[entry] \in 0..2
  BY <1>1, Sizes DEF FileBytes
<1> DEFINE old == BytesOf(p, Size[tree[p]])
           new == BytesOf(p, Size[entry])
<1>3. /\ IsFiniteSet(old) /\ Cardinality(old) = Size[tree[p]]
      /\ IsFiniteSet(new) /\ Cardinality(new) = Size[entry]
  BY <1>2, BytesOfFile
<1>4. Stored \intersect old = old
  BY <1>2 DEF Stored, BytesOf
<1>5. Stored' = (Stored \ old) \union new
  BY <1>1, <1>2 DEF Stored, BytesOf
<1>6. (Stored \ old) \intersect new = {}
  BY <1>2 DEF Stored, BytesOf
<1> HIDE DEF old, new
<1>7. /\ IsFiniteSet(Stored \ old)
      /\ Cardinality(Stored \ old) = Used - Size[tree[p]]
  <2>1. IsFiniteSet(Stored)
    BY StoredIsFinite
  <2>2. /\ IsFiniteSet(Stored \ old)
        /\ Cardinality(Stored \ old) = Cardinality(Stored) - Cardinality(Stored \intersect old)
    BY <2>1, FS_Difference, Zenon
  <2> QED
    BY <1>3, <1>4, <2>2 DEF Used
<1>8. Cardinality((Stored \ old) \union new)
        = Cardinality(Stored \ old) + Cardinality(new) - Cardinality({})
  BY <1>3, <1>6, <1>7, FS_Union
<1> QED
  BY <1>2, <1>3, <1>5, <1>7, <1>8, StoredIsFinite, FS_EmptySet DEF Used

\* Taking entries away frees what they had.
LEMMA TakeFrees ==
  ASSUME MountTypeOK, NEW paths \in SUBSET Paths, Take(paths)
  PROVE  Used' \in Nat /\ Used' <= Used
<1>1. \A p \in Paths : tree'[p] = IF p \in paths THEN "absent" ELSE tree[p]
  BY DEF Take
<1>2. \A p \in Paths : Size[tree'[p]] <= Size[tree[p]] /\ Size[tree[p]] \in 0..2
  BY <1>1, Sizes DEF MountTypeOK, FileBytes
<1>3. Stored' \subseteq Stored
  BY <1>1, <1>2, Sizes DEF Stored
<1> QED
  BY <1>3, StoredIsFinite, FS_Subset, FS_CardinalityType DEF Used

\* An entry that is put is found, or the write left it or what was below it.
LEMMA PutKeepsTrack ==
  ASSUME MountTypeOK, MountKeepsTrack, NEW p \in Paths,
         NEW entry \in {"dir"} \union FileBytes, Put(p, entry),
         tree[p] # "dir" \/ entry \in FileBytes, Used' <= Quota
  PROVE  MountTypeOK' /\ MountKeepsTrack'
<1>1. /\ tree' = [tree EXCEPT ![p] = entry] /\ tree'[p] = entry /\ entry # "absent"
      /\ \A q \in Paths : q # p => tree'[q] = tree[q]
  BY DEF Put, MountTypeOK, FileBytes
<1>2. mAstray' = mAstray \union (IF Listed(p) THEN {} ELSE {p})
                         \union (IF tree[p] = "dir" THEN Below(p) \intersect Entries ELSE {})
  BY DEF Put
<1>3. Entries' = Entries \union {p}
  BY <1>1 DEF Entries
<1>4. MountTypeOK'
  BY <1>1, <1>2 DEF MountTypeOK, Below
<1>5. mAstray' \subseteq Entries'
  BY <1>2, <1>3 DEF MountKeepsTrack
<1>6. ASSUME NEW q \in Entries', q \notin mAstray' PROVE Listed(q)'
  <2>1. q \in Paths /\ Above(q) \subseteq Paths
    BY DEF Entries, Above
  <2>2. Listed(q)
    BY <1>2, <1>3, <1>6 DEF MountKeepsTrack
  <2>3. p \in Above(q) => q \in Below(p) /\ q \in Entries /\ tree[p] = "dir"
    BY <1>3, <2>1, <2>2, AboveIsBelow, NotAboveItself DEF Listed
  <2>4. p \notin Above(q)
    BY <1>2, <1>6, <2>3
  <2> QED
    BY <1>1, <2>1, <2>2, <2>4 DEF Listed
<1> QED
  BY <1>4, <1>5, <1>6 DEF MountKeepsTrack

\* What is taken away has nothing below it that stays and is listed.
LEMMA TakeKeepsTrack ==
  ASSUME MountTypeOK, MountKeepsTrack, NEW paths \in SUBSET Paths, Take(paths),
         \A p \in paths : tree[p] = "dir" => Below(p) \subseteq paths
  PROVE  MountTypeOK' /\ MountKeepsTrack'
<1>1. \A p \in Paths : tree'[p] = IF p \in paths THEN "absent" ELSE tree[p]
  BY DEF Take
<1>2. tree' \in [Paths -> {"absent", "dir"} \union FileBytes] /\ mAstray' = mAstray \ paths
  BY DEF Take, MountTypeOK
<1>3. Entries' = Entries \ paths
  BY <1>1 DEF Entries
<1>4. Used' <= Quota
  BY TakeFrees, StoredIsFinite, PathsAssumption DEF MountKeepsTrack
<1>5. ASSUME NEW q \in Entries', q \notin mAstray' PROVE Listed(q)'
  <2>1. q \in Paths /\ Above(q) \subseteq Paths /\ q \notin paths
    BY <1>3 DEF Entries, Above
  <2>2. Listed(q)
    BY <1>2, <1>3, <1>5, <2>1 DEF MountKeepsTrack
  <2>3. \A p \in Above(q) : p \notin paths
    BY <2>1, <2>2, AboveIsBelow DEF Listed
  <2> QED
    BY <1>1, <2>1, <2>2, <2>3 DEF Listed
<1> QED
  BY <1>2, <1>3, <1>4, <1>5 DEF MountTypeOK, MountKeepsTrack

LEMMA MountInitInv == MountInit => MountTypeOK /\ MountKeepsTrack
<1> SUFFICES ASSUME MountInit PROVE MountTypeOK /\ MountKeepsTrack
  OBVIOUS
<1>1. MountTypeOK /\ Entries = {} /\ mAstray = {}
  BY DEF MountInit, MountTypeOK, Entries
<1>2. Stored = {}
  BY Sizes DEF MountInit, Stored
<1> QED
  BY <1>1, <1>2, FS_EmptySet, PathsAssumption DEF MountKeepsTrack, Used

LEMMA MountStepInv ==
  MountTypeOK /\ MountKeepsTrack /\ [MountNext]_mountVars => MountTypeOK' /\ MountKeepsTrack'
<1> SUFFICES ASSUME MountTypeOK, MountKeepsTrack, [MountNext]_mountVars
             PROVE  MountTypeOK' /\ MountKeepsTrack'
  OBVIOUS
<1>1. ASSUME NEW p \in Paths, NEW bytes \in FileBytes, WithinQuota(p, bytes), Put(p, bytes)
      PROVE  MountTypeOK' /\ MountKeepsTrack'
  BY <1>1, PutChangesUsed, PutKeepsTrack DEF WithinQuota
<1>2. ASSUME NEW p \in Paths, NEW bytes \in FileBytes, Replace(p, bytes)
      PROVE  MountTypeOK' /\ MountKeepsTrack'
  BY <1>1, <1>2 DEF Replace
<1>3. ASSUME NEW p \in Paths, tree[p] # "dir", Take({p})
      PROVE  MountTypeOK' /\ MountKeepsTrack'
  BY <1>3, TakeKeepsTrack
<1>4. ASSUME NEW p \in Paths, NEW expected \in FileBytes \union {"absent"},
             NEW new \in FileBytes \union {"absent"}, CompareExchange(p, expected, new)
      PROVE  MountTypeOK' /\ MountKeepsTrack'
  BY <1>1, <1>3, <1>4 DEF CompareExchange, FileBytes
<1>5. ASSUME NEW p \in Paths, RemoveFile(p) PROVE MountTypeOK' /\ MountKeepsTrack'
  BY <1>3, <1>5 DEF RemoveFile, FileBytes
<1>6. ASSUME NEW p \in Paths, CreateDir(p) PROVE MountTypeOK' /\ MountKeepsTrack'
  <2>1. Used' = Used - Size[tree[p]] + Size["dir"]
    BY <1>6, PutChangesUsed DEF CreateDir
  <2>2. Used' <= Quota
    BY <1>6, <2>1, Sizes, StoredIsFinite DEF CreateDir, MountKeepsTrack
  <2> QED
    BY <1>6, <2>2, PutKeepsTrack DEF CreateDir
<1>7. ASSUME NEW p \in Paths, RemoveDirAll(p) PROVE MountTypeOK' /\ MountKeepsTrack'
  <2>1. Subtree(p) \subseteq Paths /\ \A q \in Subtree(p) : Below(q) \subseteq Subtree(p)
    BY BelowIsTransitive DEF Subtree, Below
  <2> QED
    BY <1>7, <2>1, TakeKeepsTrack DEF RemoveDirAll
<1>8. CASE UNCHANGED mountVars
  BY <1>8 DEF mountVars, MountTypeOK, MountKeepsTrack, Entries, Listed, Stored, Used
<1> QED
  BY <1>2, <1>4, <1>5, <1>6, <1>7, <1>8 DEF MountNext

LEMMA MountInvariant == MountSpec => [](MountTypeOK /\ MountKeepsTrack)
<1> QED
  BY MountInitInv, MountStepInv, PTL DEF MountSpec

\* Every entry of the mount is found by listing, or a write left it without its
\* directory; all files together are within the quota.
THEOREM MountLosesNothing == MountSpec => []MountKeepsTrack
<1> QED
  BY MountInvariant, PTL

-----------------------------------------------------------------------------
(* MIDI connections, streams and hotplug events.                            *)

MidiEvents == UNION {ToSet(events) : events \in MidiScripts}
Connections ==
  [open : {TRUE}, input : Seq(MidiEvents), connected : BOOLEAN, closed : BOOLEAN,
   reconnects : 0..ReconnectAttempts, of : Seq(MidiEvents), got : Seq(MidiEvents),
   losses : Nat]

\* A connection that was opened keeps count of its losses.
CountsLosses(connection) ==
  /\ Len(connection.of) <= QueueCapacity
  /\ connection.losses <= connection.reconnects + 1
  /\ ~connection.closed /\ connection.connected => connection.losses <= connection.reconnects

MediaInv ==
  /\ device.events \in Seq(MidiEvents) /\ device.binds \in 0..MaxPlugs
  /\ device \in [events : Seq(MidiEvents), binds : Nat]
  /\ midi \in [MidiConnections -> {NotOpen} \union Connections]
  /\ \A c \in MidiConnections :
       midi[c].open => /\ Delivered(midi[c].of, midi[c].input, midi[c].got)
                       /\ CountsLosses(midi[c])
  /\ stream \in {"none", "open", "closed"}
  /\ hotplug \in Seq(Nat) /\ pDone \in [recorded : Seq(Nat), polled : Seq(Nat)]
  /\ pDone.polled \o hotplug = pDone.recorded

LEMMA OpenConnection ==
  ASSUME NEW c \in MidiConnections, MediaInv
  PROVE  /\ midi[c].open => midi[c] \in Connections
         /\ ~NotOpen.open
<1>1. NotOpen.open = FALSE
  BY DEF NotOpen
<1>2. midi[c] = NotOpen \/ midi[c] \in Connections
  BY DEF MediaInv
<1> QED
  BY <1>1, <1>2

\* The next event is taken from the front, and given if it is a message.
LEMMA NextIsDelivered ==
  ASSUME NEW of \in Seq(MidiEvents), NEW input \in Seq(MidiEvents),
         NEW got \in Seq(MidiEvents), Delivered(of, input, got), input # <<>>
  PROVE  Delivered(of, Tail(input),
                   IF Head(input) = "lost" THEN got ELSE Append(got, Head(input)))
<1> DEFINE consumed == Len(of) - Len(input)
           given == IF Head(input) = "lost" THEN got ELSE Append(got, Head(input))
<1>1. Len(of) \in Nat /\ Len(input) \in Nat \ {0} /\ Len(got) \in Nat
      /\ DOMAIN got = 1..Len(got) /\ Head(input) \in MidiEvents
      /\ Len(Tail(input)) = Len(input) - 1
  BY LenProperties, EmptySeq, HeadTailProperties
<1>2. consumed \in Nat /\ input = SubSeq(of, consumed + 1, Len(of))
  BY DEF Delivered
<1>3. PICK at \in [DOMAIN got -> 1..consumed] :
           /\ \A i, j \in DOMAIN got : i < j => at[i] < at[j]
           /\ \A i \in DOMAIN got : got[i] = of[at[i]]
           /\ {at[i] : i \in DOMAIN got} = {k \in 1..consumed : of[k] # "lost"}
  BY DEF Delivered, InOrder
<1>4. Len(of) - Len(Tail(input)) = consumed + 1 /\ consumed + 1 \in 1..Len(of)
      /\ Len(of) \in (consumed + 1)..Len(of)
  BY <1>1, <1>2
<1> HIDE DEF consumed
<1>5. /\ Head(input) = of[consumed + 1]
      /\ Tail(input) = SubSeq(of, consumed + 1 + 1, Len(of))
  BY <1>2, <1>4, HeadTailOfSubSeq, Zenon
<1>6. InOrder(of, consumed + 1, given)
  <2>1. CASE Head(input) = "lost"
    <3>1. at \in [DOMAIN got -> 1..(consumed + 1)]
      BY <1>2, <1>3
    <3>2. {k \in 1..(consumed + 1) : of[k] # "lost"} = {k \in 1..consumed : of[k] # "lost"}
      BY <1>2, <1>5, <2>1
    <3> QED
      BY <1>3, <2>1, <3>1, <3>2 DEF InOrder
  <2>2. CASE Head(input) # "lost"
    <3> DEFINE last == Len(got) + 1
               to == [i \in 1..last |-> IF i = last THEN consumed + 1 ELSE at[i]]
    <3>1. /\ DOMAIN given = 1..last /\ given[last] = of[consumed + 1]
          /\ \A i \in 1..Len(got) : given[i] = got[i]
      <4>1. given = Append(got, Head(input))
        BY <2>2
      <4>2. /\ Append(got, Head(input)) \in Seq(MidiEvents)
            /\ Len(Append(got, Head(input))) = last
            /\ \A i \in 1..Len(got) : Append(got, Head(input))[i] = got[i]
            /\ Append(got, Head(input))[last] = Head(input)
        BY <1>1, AppendProperties
      <4>3. DOMAIN Append(got, Head(input)) = 1..last
        BY <4>2, LenProperties
      <4> QED
        BY <1>5, <4>1, <4>2, <4>3
    <3>2. /\ \A i \in 1..Len(got) : at[i] \in 1..consumed /\ to[i] = at[i]
          /\ to[last] = consumed + 1
      BY <1>1, <1>3
    <3>3. to \in [1..last -> 1..(consumed + 1)]
      BY <1>1, <1>2, <1>3
    <3>4. 1..last = 1..Len(got) \union {last}
      BY <1>1
    <3> HIDE DEF to
    <3>5. \A i, j \in 1..last : i < j => to[i] < to[j]
      <4> SUFFICES ASSUME NEW i \in 1..last, NEW j \in 1..last, i < j PROVE to[i] < to[j]
        OBVIOUS
      <4>1. i \in 1..Len(got) /\ at[i] \in 1..consumed /\ to[i] = at[i]
        BY <1>1, <3>2
      <4>2. CASE j = last
        BY <1>2, <3>2, <4>1, <4>2
      <4>3. CASE j # last
        <5>1. j \in 1..Len(got)
          BY <3>4, <4>3
        <5>2. to[j] = at[j] /\ at[j] \in 1..consumed
          BY <3>2, <5>1
        <5> QED
          BY <1>1, <1>3, <4>1, <5>1, <5>2
      <4> QED
        BY <4>2, <4>3
    <3>6. \A i \in 1..last : given[i] = of[to[i]]
      BY <1>1, <1>3, <3>1, <3>2, <3>4
    <3>7. {to[i] : i \in 1..last} = {k \in 1..(consumed + 1) : of[k] # "lost"}
      <4>1. of[consumed + 1] # "lost"
        BY <1>5, <2>2
      <4>2. 1..(consumed + 1) = 1..consumed \union {consumed + 1}
        BY <1>2
      <4>3. {to[i] : i \in 1..last} = {at[i] : i \in 1..Len(got)} \union {consumed + 1}
        BY <3>2, <3>4
      <4>4. {k \in 1..(consumed + 1) : of[k] # "lost"}
              = {k \in 1..consumed : of[k] # "lost"} \union {consumed + 1}
        BY <4>1, <4>2
      <4> QED
        BY <1>1, <1>3, <4>3, <4>4
    <3> HIDE DEF given, last
    <3> HIDE DEF given, last
    <3>8. DOMAIN given = 1..last
      BY <3>1
    <3>9. /\ to \in [DOMAIN given -> 1..(consumed + 1)]
          /\ \A i, j \in DOMAIN given : i < j => to[i] < to[j]
          /\ \A i \in DOMAIN given : given[i] = of[to[i]]
          /\ {to[i] : i \in DOMAIN given} = {k \in 1..(consumed + 1) : of[k] # "lost"}
      BY <3>3, <3>5, <3>6, <3>7, <3>8
    <3> QED
      BY <3>9 DEF InOrder
  <2> QED
    BY <2>1, <2>2
<1> HIDE DEF given
<1>7. Delivered(of, Tail(input), given)
  BY <1>2, <1>4, <1>5, <1>6 DEF Delivered
<1> QED
  BY <1>7 DEF given

\* A connection changes and nothing else.
LEMMA SetsKeeps ==
  ASSUME MediaInv, NEW c \in MidiConnections, NEW l \in Connections,
         Delivered(l.of, l.input, l.got), CountsLosses(l), midi' = [midi EXCEPT ![c] = l],
         UNCHANGED <<device, stream, hotplug, pDone>>
  PROVE  MediaInv'
<1>1. midi \in [MidiConnections -> {NotOpen} \union Connections]
  BY DEF MediaInv
<1>2. /\ midi' \in [MidiConnections -> {NotOpen} \union Connections] /\ midi'[c] = l
      /\ \A d \in MidiConnections : d # c => midi'[d] = midi[d]
  BY <1>1
<1> HIDE DEF Connections
<1>3. \A d \in MidiConnections :
        midi'[d].open => Delivered(midi'[d].of, midi'[d].input, midi'[d].got)
                         /\ CountsLosses(midi'[d])
  BY <1>2 DEF MediaInv
<1> QED
  BY <1>2, <1>3 DEF MediaInv

LEMMA OpenKeeps ==
  ASSUME MediaInv, NEW c \in MidiConnections, OpenMidi(c)
  PROVE  MediaInv'
<1> DEFINE l == [open |-> TRUE, input |-> device.events, connected |-> TRUE, closed |-> FALSE,
                 reconnects |-> 0, of |-> device.events, got |-> <<>>, losses |-> 0]
<1>1. device.events \in Seq(MidiEvents)
  BY DEF MediaInv
<1>2. l \in Connections
  BY <1>1, MediaAssumption DEF Connections
<1>3. Delivered(device.events, device.events, <<>>)
  <2>1. Len(device.events) \in Nat /\ Len(device.events) - Len(device.events) = 0
    BY <1>1, LenProperties
  <2>2. SubSeq(device.events, 1, Len(device.events)) = device.events
    BY <1>1, SubSeqFull
  <2>3. InOrder(device.events, 0, <<>>)
    <3>1. DOMAIN <<>> = {} /\ 1..0 = {}
      OBVIOUS
    <3>2. <<>> \in [DOMAIN <<>> -> 1..0]
      OBVIOUS
    <3> QED
      BY <3>1, <3>2 DEF InOrder
  <2> QED
    BY <2>1, <2>2, <2>3 DEF Delivered
<1>4. CountsLosses(l)
  BY DEF CountsLosses, OpenMidi
<1>5. Delivered(l.of, l.input, l.got) /\ midi' = [midi EXCEPT ![c] = l]
  BY <1>3 DEF OpenMidi
<1> HIDE DEF l
<1> QED
  BY <1>2, <1>4, <1>5, SetsKeeps DEF OpenMidi, Elsewhere

LEMMA ReceiveKeeps ==
  ASSUME MediaInv, NEW c \in MidiConnections, Receive(c)
  PROVE  MediaInv'
<1> DEFINE k == midi[c]
           message == [k EXCEPT !.input = Tail(@), !.got = Append(@, Head(k.input))]
           loss == [k EXCEPT !.input = Tail(@), !.connected = FALSE, !.losses = @ + 1]
<1>1. /\ k \in Connections /\ k.open /\ ~k.closed /\ k.connected /\ k.input # <<>>
      /\ Delivered(k.of, k.input, k.got) /\ CountsLosses(k)
  BY OpenConnection DEF Receive, CanReceive, MediaInv
<1>2. /\ k.of \in Seq(MidiEvents) /\ k.input \in Seq(MidiEvents) /\ k.got \in Seq(MidiEvents)
      /\ k.losses \in Nat /\ k.reconnects \in 0..ReconnectAttempts
  BY <1>1 DEF Connections
<1>3. Head(k.input) \in MidiEvents /\ Tail(k.input) \in Seq(MidiEvents)
  BY <1>1, <1>2, HeadTailProperties
<1>4. Append(k.got, Head(k.input)) \in Seq(MidiEvents)
  BY <1>2, <1>3, AppendProperties
<1>5. Delivered(k.of, Tail(k.input),
                IF Head(k.input) = "lost" THEN k.got ELSE Append(k.got, Head(k.input)))
  BY <1>1, <1>2, NextIsDelivered
<1>6. k.losses <= k.reconnects
  BY <1>1 DEF CountsLosses
<1>7. UNCHANGED <<device, stream, hotplug, pDone>>
  BY DEF Receive, Sets, Elsewhere
<1>8. CASE Head(k.input) = "lost"
  <2>1. /\ loss \in Connections /\ loss.of = k.of /\ loss.input = Tail(k.input)
        /\ loss.got = k.got /\ loss.losses = k.losses + 1 /\ loss.reconnects = k.reconnects
        /\ loss.connected = FALSE
    <3>1. k.losses + 1 \in Nat
      BY <1>2
    <3> HIDE DEF k
    <3> QED
      BY <1>1, <1>3, <3>1 DEF Connections
  <2>2. midi' = [midi EXCEPT ![c] = loss]
    BY <1>8 DEF Receive, Sets
  <2> HIDE DEF loss, k
  <2>3. Delivered(loss.of, loss.input, loss.got)
    BY <1>5, <1>8, <2>1
  <2>4. CountsLosses(loss)
    BY <1>1, <1>2, <1>6, <2>1, MediaAssumption DEF CountsLosses
  <2> QED
    BY <1>7, <2>1, <2>2, <2>3, <2>4, SetsKeeps
<1>9. CASE Head(k.input) # "lost"
  <2>1. /\ message \in Connections /\ message.of = k.of /\ message.input = Tail(k.input)
        /\ message.got = Append(k.got, Head(k.input)) /\ message.losses = k.losses
        /\ message.reconnects = k.reconnects
    BY <1>1, <1>2, <1>3, <1>4 DEF Connections
  <2>2. midi' = [midi EXCEPT ![c] = message]
    BY <1>9 DEF Receive, Sets
  <2> HIDE DEF message, k
  <2>3. Delivered(message.of, message.input, message.got)
    BY <1>5, <1>9, <2>1
  <2>4. CountsLosses(message)
    BY <1>1, <1>2, <1>6, <2>1, MediaAssumption DEF CountsLosses
  <2> QED
    BY <1>7, <2>1, <2>2, <2>3, <2>4, SetsKeeps
<1> QED
  BY <1>8, <1>9

LEMMA ReconnectKeeps ==
  ASSUME MediaInv, NEW c \in MidiConnections, ReconnectMidi(c) \/ CloseMidi(c)
  PROVE  MediaInv'
<1> DEFINE k == midi[c]
           closed == [k EXCEPT !.closed = TRUE, !.connected = FALSE]
<1>1. /\ k \in Connections /\ Delivered(k.of, k.input, k.got) /\ CountsLosses(k)
  BY OpenConnection DEF ReconnectMidi, CloseMidi, MediaInv
<1>2. k.losses \in Nat /\ k.reconnects \in 0..ReconnectAttempts
  BY <1>1 DEF Connections
<1>3. UNCHANGED <<device, stream, hotplug, pDone>>
  BY DEF ReconnectMidi, CloseMidi, Sets, Elsewhere
<1>4. CASE ReconnectMidi(c)
  <2> DEFINE l == Reconnected(k)
  <2>1. k.reconnects < ReconnectAttempts /\ midi' = [midi EXCEPT ![c] = l]
    BY <1>4 DEF ReconnectMidi, Sets
  <2>2. /\ l \in Connections /\ l.of = k.of /\ l.input = k.input /\ l.got = k.got
        /\ l.losses = k.losses /\ l.reconnects = k.reconnects + 1
    <3>1. k.reconnects + 1 \in 0..ReconnectAttempts
      BY <1>2, <2>1, MediaAssumption
    <3> HIDE DEF k
    <3> QED
      BY <1>1, <3>1 DEF Connections, Reconnected
  <2> HIDE DEF l, k
  <2>3. Delivered(l.of, l.input, l.got) /\ CountsLosses(l)
    BY <1>1, <1>2, <2>2, MediaAssumption DEF CountsLosses
  <2> QED
    BY <1>3, <2>1, <2>2, <2>3, SetsKeeps
<1>5. CASE CloseMidi(c)
  <2>1. midi' = [midi EXCEPT ![c] = closed]
    BY <1>5 DEF CloseMidi, Sets
  <2>2. /\ closed \in Connections /\ closed.of = k.of /\ closed.input = k.input
        /\ closed.got = k.got /\ closed.losses = k.losses
        /\ closed.reconnects = k.reconnects /\ closed.closed = TRUE
    BY <1>1 DEF Connections
  <2> HIDE DEF closed, k
  <2>3. Delivered(closed.of, closed.input, closed.got) /\ CountsLosses(closed)
    BY <1>1, <2>2 DEF CountsLosses
  <2> QED
    BY <1>3, <2>1, <2>2, <2>3, SetsKeeps
<1> QED
  BY <1>4, <1>5

LEMMA AppendAfter ==
  ASSUME NEW s \in Seq(Nat), NEW t \in Seq(Nat), NEW e \in Nat
  PROVE  (s \o t) \o <<e>> = s \o (t \o <<e>>)
<1>1. <<e>> \in Seq(Nat)
  OBVIOUS
<1> QED
  BY <1>1, ConcatAssociative

\* Hotplug events are kept in their order, polled or not.
LEMMA HotplugKeeps ==
  ASSUME MediaInv, RecordHotplug \/ PollHotplug
  PROVE  MediaInv'
<1>1. /\ hotplug \in Seq(Nat) /\ pDone \in [recorded : Seq(Nat), polled : Seq(Nat)]
      /\ pDone.polled \in Seq(Nat) /\ pDone.recorded \in Seq(Nat)
      /\ pDone.polled \o hotplug = pDone.recorded
  BY DEF MediaInv
<1>2. UNCHANGED <<device, midi, stream>>
  BY DEF RecordHotplug, PollHotplug
<1>3. /\ hotplug' \in Seq(Nat) /\ pDone' \in [recorded : Seq(Nat), polled : Seq(Nat)]
      /\ pDone'.polled \o hotplug' = pDone'.recorded
  <2>1. CASE RecordHotplug
    <3> DEFINE event == Len(pDone.recorded) + 1
    <3>1. event \in Nat
      BY <1>1, LenProperties
    <3>2. hotplug' = Append(hotplug, event)
          /\ pDone' = [pDone EXCEPT !.recorded = Append(@, event)]
      BY <2>1 DEF RecordHotplug
    <3> HIDE DEF event
    <3>3. hotplug' = hotplug \o <<event>> /\ pDone'.recorded = pDone.recorded \o <<event>>
          /\ pDone'.polled = pDone.polled /\ <<event>> \in Seq(Nat)
      <4>1. Append(hotplug, event) = hotplug \o <<event>>
            /\ Append(pDone.recorded, event) = pDone.recorded \o <<event>>
        BY <1>1, <3>1, AppendIsConcat
      <4> QED
        BY <1>1, <3>1, <3>2, <4>1
    <3>4. (pDone.polled \o hotplug) \o <<event>> = pDone.polled \o (hotplug \o <<event>>)
      BY <1>1, <3>1, AppendAfter
    <3>5. hotplug' \in Seq(Nat) /\ pDone' \in [recorded : Seq(Nat), polled : Seq(Nat)]
      <4>1. Append(hotplug, event) \in Seq(Nat) /\ Append(pDone.recorded, event) \in Seq(Nat)
        BY <1>1, <3>1, AppendProperties
      <4> QED
        BY <1>1, <3>2, <4>1
    <3> QED
      BY <1>1, <3>3, <3>4, <3>5
  <2>2. CASE PollHotplug
    <3>1. hotplug' = <<>> /\ pDone' = [pDone EXCEPT !.polled = @ \o hotplug]
      BY <2>2 DEF PollHotplug, Given
    <3>2. pDone'.polled = pDone.recorded /\ pDone'.recorded = pDone.recorded
          /\ pDone' \in [recorded : Seq(Nat), polled : Seq(Nat)]
      BY <1>1, <3>1
    <3>3. pDone.recorded \o <<>> = pDone.recorded
      BY <1>1, ConcatEmptySeq
    <3> QED
      BY <3>1, <3>2, <3>3
  <2> QED
    BY <2>1, <2>2
<1> QED
  BY <1>2, <1>3 DEF MediaInv

LEMMA MediaInitInv == MediaInit => MediaInv
<1> SUFFICES ASSUME MediaInit PROVE MediaInv
  OBVIOUS
<1>1. \A c \in MidiConnections : midi[c] = NotOpen /\ NotOpen.open = FALSE
  BY DEF MediaInit, NotOpen
<1>2. /\ <<>> \in Seq(Nat) /\ <<>> \in Seq(MidiEvents) /\ <<>> \o <<>> = <<>>
  BY EmptySeq, ConcatEmptySeq
<1> QED
  BY <1>1, <1>2, MediaAssumption DEF MediaInit, MediaInv

LEMMA MediaStepInv == MediaInv /\ [MediaNext]_mediaVars => MediaInv'
<1> SUFFICES ASSUME MediaInv, [MediaNext]_mediaVars PROVE MediaInv'
  OBVIOUS
<1>1. ASSUME NEW events \in MidiScripts, BindMidi(events) PROVE MediaInv'
  <2>1. events \in Seq(MidiEvents)
    <3>1. events \in Seq(ToSet(events)) /\ ToSet(events) \subseteq MidiEvents
      BY MediaAssumption DEF MidiEvents
    <3> QED
      BY <3>1, SeqMonotonic
  <2>2. /\ device' = [events |-> events, binds |-> device.binds + 1]
        /\ device.binds < MaxPlugs
    BY <1>1 DEF BindMidi
  <2>3. device'.events \in Seq(MidiEvents) /\ device'.binds \in 0..MaxPlugs
        /\ device' \in [events : Seq(MidiEvents), binds : Nat]
    BY <2>1, <2>2, MediaAssumption DEF MediaInv
  <2> QED
    BY <1>1, <2>3 DEF BindMidi, Elsewhere, MediaInv
<1>2. ASSUME NEW c \in MidiConnections,
             OpenMidi(c) \/ Receive(c) \/ ReconnectMidi(c) \/ CloseMidi(c)
      PROVE  MediaInv'
  BY <1>2, OpenKeeps, ReceiveKeeps, ReconnectKeeps
<1>3. CASE OpenStream \/ EndStream
  BY <1>3 DEF OpenStream, EndStream, MediaInv
<1>4. CASE RecordHotplug \/ PollHotplug
  BY <1>4, HotplugKeeps
<1>5. CASE UNCHANGED mediaVars
  BY <1>5 DEF mediaVars, MediaInv
<1> QED
  BY <1>1, <1>2, <1>3, <1>4, <1>5 DEF MediaNext

LEMMA MediaInvariant == MediaSpec => []MediaInv
<1> QED
  BY MediaInitInv, MediaStepInv, PTL DEF MediaSpec

\* Each message reaches each connection once and in order, across losses, closes
\* and reconnections, and each hotplug event reaches one poll.
THEOREM MediaLosesNothing == MediaSpec => []MediaDeliverOnce
<1>1. MediaInv => MediaDeliverOnce
  BY DEF MediaInv, MediaDeliverOnce, CountsLosses, CanReceive
<1> QED
  BY <1>1, MediaInvariant, PTL

LEMMA MediaTypes == MediaSpec => []MediaTypeOK
<1>1. MediaInv => MediaTypeOK
  <2> SUFFICES ASSUME MediaInv, NEW c \in MidiConnections, midi[c].open
               PROVE  Len(midi[c].of) <= QueueCapacity
                      /\ midi[c].reconnects \in 0..ReconnectAttempts
    BY DEF MediaInv, MediaTypeOK
  <2>1. midi[c] \in Connections
    BY OpenConnection
  <2> QED
    BY <2>1 DEF MediaInv, CountsLosses, Connections
<1> QED
  BY <1>1, MediaInvariant, PTL

-----------------------------------------------------------------------------
(* The least and the greatest of a set of numbers.                          *)

LEMMA LeastNat ==
  ASSUME NEW T \in SUBSET Nat, T # {}
  PROVE  \E x \in T : \A y \in T : x <= y
<1>1. IsWellFoundedOn(OpToRel(<, Nat), Nat)
  BY NatLessThanWellFounded
<1>2. PICK x \in T : \A y \in T : <<y, x>> \notin OpToRel(<, Nat)
  BY <1>1, WFMin
<1>3. \A y \in T : ~(y < x)
  BY <1>2 DEF OpToRel
<1> QED
  BY <1>3

LEMMA MinNat ==
  ASSUME NEW T \in SUBSET Nat, T # {}
  PROVE  Min(T) \in T /\ \A y \in T : Min(T) <= y
BY LeastNat DEF Min

LEMMA MaxNat ==
  ASSUME NEW T \in SUBSET Nat, T # {}, NEW n \in Nat, \A y \in T : y <= n
  PROVE  Max(T) \in T /\ \A y \in T : y <= Max(T)
<1> DEFINE U == {u \in Nat : \A y \in T : y <= u}
<1>1. PICK u \in U : \A v \in U : u <= v
  BY LeastNat
<1>2. u \in T
  <2>1. CASE u = 0
    <3>1. PICK y \in T : TRUE
      OBVIOUS
    <3>2. y <= u /\ y \in Nat
      BY <1>1
    <3> QED
      BY <2>1, <3>2
  <2>2. CASE u # 0
    <3>1. u - 1 \in Nat /\ u - 1 \notin U
      BY <1>1, <2>2
    <3> QED
      BY <3>1
  <2> QED
    BY <2>1, <2>2
<1> QED
  BY <1>2 DEF Max

LEMMA MinOfTwo ==
  ASSUME NEW a \in Nat, NEW b \in Nat
  PROVE  Min({a, b}) = IF a <= b THEN a ELSE b
<1>1. Min({a, b}) \in {a, b} /\ Min({a, b}) <= a /\ Min({a, b}) <= b
  BY MinNat
<1> QED
  BY <1>1

-----------------------------------------------------------------------------
(* What is left of a sequence when its front is gone.                       *)

LEMMA RestOf ==
  ASSUME NEW S, NEW s \in Seq(S), NEW k \in 0..Len(s)
  PROVE  /\ SubSeq(s, k + 1, Len(s)) \in Seq(S)
         /\ Len(SubSeq(s, k + 1, Len(s))) = Len(s) - k
         /\ \A i \in 1..(Len(s) - k) : SubSeq(s, k + 1, Len(s))[i] = s[k + i]
<1>1. Len(s) \in Nat /\ \A i \in 1..Len(s) : s[i] \in S
  BY LenProperties, ElementOfSeq
<1>2. k + 1 \in Int /\ Len(s) \in Int /\ \A i \in (k + 1)..Len(s) : s[i] \in S
  BY <1>1
<1>3. /\ SubSeq(s, k + 1, Len(s)) \in Seq(S)
      /\ Len(SubSeq(s, k + 1, Len(s))) = IF k + 1 <= Len(s) THEN Len(s) - (k + 1) + 1 ELSE 0
      /\ \A i \in 1..(Len(s) - (k + 1) + 1) : SubSeq(s, k + 1, Len(s))[i] = s[k + 1 + i - 1]
  BY <1>2, SubSeqProperties
<1> QED
  BY <1>1, <1>3

LEMMA RestOfRest ==
  ASSUME NEW S, NEW s \in Seq(S), NEW k \in 0..Len(s), NEW d \in 0..(Len(s) - k)
  PROVE  SubSeq(SubSeq(s, k + 1, Len(s)), d + 1, Len(s) - k) = SubSeq(s, k + d + 1, Len(s))
<1> DEFINE r == SubSeq(s, k + 1, Len(s))
           once == SubSeq(s, k + d + 1, Len(s))
           twice == SubSeq(r, d + 1, Len(r))
<1>1. Len(s) \in Nat /\ k \in Nat /\ d \in Nat /\ k + d \in 0..Len(s)
  BY LenProperties
<1>2. /\ r \in Seq(S) /\ Len(r) = Len(s) - k
      /\ \A i \in 1..(Len(s) - k) : r[i] = s[k + i]
  BY RestOf
<1>3. /\ once \in Seq(S) /\ Len(once) = Len(s) - (k + d)
      /\ \A i \in 1..(Len(s) - (k + d)) : once[i] = s[k + d + i]
  BY <1>1, RestOf
<1> HIDE DEF r, once
<1>4. /\ twice \in Seq(S) /\ Len(twice) = Len(r) - d
      /\ \A i \in 1..(Len(r) - d) : twice[i] = r[d + i]
  BY <1>1, <1>2, RestOf
<1> HIDE DEF twice
<1>5. Len(twice) = Len(once)
  BY <1>1, <1>2, <1>3, <1>4
<1>6. ASSUME NEW i \in 1..Len(twice) PROVE twice[i] = once[i]
  <2>1. i \in 1..(Len(r) - d) /\ d + i \in 1..(Len(s) - k) /\ i \in 1..(Len(s) - (k + d))
        /\ k + (d + i) = k + d + i
    BY <1>1, <1>2, <1>4
  <2> QED
    BY <1>2, <1>3, <1>4, <2>1
<1>7. twice = once
  BY <1>3, <1>4, <1>5, <1>6, SeqEqual
<1> QED
  BY <1>2, <1>7 DEF twice, once, r

-----------------------------------------------------------------------------
(* The seeded platform.                                                     *)

Sims ==
  [script : LifecycleScripts, left : Seq(LifecycleSteps), fault : Faults,
   mono : 0..MaxTime, drawn : Nat, sequence : 0..MaxApplied]

\* The steps that are gone were due.
Dropped(k) ==
  /\ sim.left = SubSeq(sim.script, k + 1, Len(sim.script))
  /\ \A j \in 1..k : sim.script[j].at <= sim.mono

SimRuns ==
  /\ sim \in Sims /\ sTaken \in Seq(SimRequests)
  /\ \E k \in 0..Len(sim.script) : Dropped(k)
  /\ RepliesReplay

SimInv ==
  \/ sim = NoSim /\ sTaken = <<>> /\ sReply.op = "none"
  \/ SimRuns

LEMMA SimIsNotNoSim == ASSUME NEW s \in Sims PROVE s # NoSim
<1>1. "script" \in DOMAIN s
  BY DEF Sims
<1>2. "script" \notin DOMAIN NoSim
  BY DEF NoSim
<1> QED
  BY <1>1, <1>2

LEMMA ScriptsAreSequences == LifecycleScripts \subseteq Seq(LifecycleSteps)
<1>1. /\ <<>> \in Seq(LifecycleSteps)
      /\ \A s \in LifecycleSteps : <<s>> \in Seq(LifecycleSteps)
      /\ \A s, t \in LifecycleSteps : <<s, t>> \in Seq(LifecycleSteps)
  OBVIOUS
<1> SUFFICES ASSUME NEW x \in LifecycleScripts PROVE x \in Seq(LifecycleSteps)
  OBVIOUS
<1>2. \/ x = <<>>
      \/ \E s \in LifecycleSteps : x = <<s>>
      \/ \E s, t \in LifecycleSteps : x = <<s, t>>
  BY DEF LifecycleScripts
<1> QED
  BY <1>1, <1>2

\* A taken request adds its amount to the total of its operation.
LEMMA TakenAdds ==
  ASSUME sTaken \in Seq(SimRequests), NEW r \in SimRequests, sTaken' = Append(sTaken, r),
         NEW op
  PROVE  /\ Total(op) \in Nat
         /\ Total(op)' = Total(op) + IF r.op = op THEN r.amount ELSE 0
<1> DEFINE n == Len(sTaken)
<1>1. n \in Nat /\ DOMAIN sTaken = 1..n /\ \A i \in 1..n : sTaken[i] \in SimRequests
  BY LenProperties, ElementOfSeq
<1>2. /\ sTaken' \in Seq(SimRequests) /\ Len(sTaken') = n + 1
      /\ \A i \in 1..n : sTaken'[i] = sTaken[i] /\ sTaken'[n + 1] = r
  BY AppendProperties
<1>3. DOMAIN sTaken' = 1..(n + 1)
  BY <1>2, LenProperties
<1>4. r.amount \in 0..2
  BY DEF SimRequests
<1>5. IsFiniteSet(Units(op))
  <2>1. IsFiniteSet(1..n) /\ IsFiniteSet(1..2)
    <3>1. 1 \in Int /\ 2 \in Int /\ n \in Int
      BY <1>1
    <3> QED
      BY <3>1, FS_Interval, Zenon
  <2>2. IsFiniteSet((1..n) \X (1..2))
    BY <2>1, FS_Product
  <2> QED
    BY <1>1, <2>2, FS_Subset DEF Units
<1>6. Total(op) \in Nat
  BY <1>5, FS_CardinalityType DEF Total
<1>7. CASE r.op # op
  <2>1. Units(op)' = Units(op)
    BY <1>1, <1>2, <1>3, <1>7 DEF Units
  <2> QED
    BY <1>6, <1>7, <2>1 DEF Total
<1>8. CASE r.op = op
  <2>1. Units(op)' = Units(op) \union BytesOf(n + 1, r.amount)
    BY <1>1, <1>2, <1>3, <1>4, <1>8 DEF Units, BytesOf
  <2>2. Units(op) \intersect BytesOf(n + 1, r.amount) = {}
    BY <1>1 DEF Units, BytesOf
  <2>3. /\ IsFiniteSet(BytesOf(n + 1, r.amount))
        /\ Cardinality(BytesOf(n + 1, r.amount)) = r.amount
    BY <1>4, BytesOfFile
  <2>4. Cardinality(Units(op) \union BytesOf(n + 1, r.amount))
          = Cardinality(Units(op)) + Cardinality(BytesOf(n + 1, r.amount)) - Cardinality({})
    BY <1>5, <2>2, <2>3, FS_Union
  <2> QED
    BY <1>4, <1>6, <1>8, <2>1, <2>3, <2>4, FS_EmptySet DEF Total
<1> QED
  BY <1>6, <1>7, <1>8

\* current_lifecycle drops the steps that are due from the front, and answers
\* with the first one that is not, which no time before would have dropped.
LEMMA RemainingIsLater ==
  ASSUME sim \in Sims, NEW k \in 0..Len(sim.script), Dropped(k)
  PROVE  /\ \E m \in 0..Len(sim.script) :
              /\ Remaining = SubSeq(sim.script, m + 1, Len(sim.script))
              /\ \A j \in 1..m : sim.script[j].at <= sim.mono
         /\ Remaining \in Seq(LifecycleSteps)
         /\ StateOf(Remaining) = AtTime(sim.script)
<1> DEFINE steps == sim.script
           n == Len(steps)
           due == DueIn(sim.left) \union {0}
           d == Max(due)
           m == k + d
<1>1. /\ steps \in Seq(LifecycleSteps) /\ n \in Nat /\ DOMAIN steps = 1..n
      /\ \A i \in 1..n : steps[i] \in LifecycleSteps
  BY ScriptsAreSequences, LenProperties, ElementOfSeq DEF Sims
<1>2. /\ sim.mono \in Nat /\ k \in Nat /\ k <= n
      /\ \A i \in 1..n : steps[i].at \in Nat
  BY <1>1, SimAssumption DEF Sims, LifecycleSteps
<1>3. /\ sim.left \in Seq(LifecycleSteps) /\ Len(sim.left) = n - k
      /\ DOMAIN sim.left = 1..(n - k) /\ \A i \in 1..(n - k) : sim.left[i] = steps[k + i]
  <2>1. sim.left = SubSeq(steps, k + 1, Len(steps))
    BY DEF Dropped
  <2>2. /\ sim.left \in Seq(LifecycleSteps) /\ Len(sim.left) = Len(steps) - k
        /\ \A i \in 1..(Len(steps) - k) : sim.left[i] = steps[k + i]
    BY <1>1, <2>1, RestOf
  <2> QED
    BY <2>2, LenProperties
<1>4. DueIn(sim.left) = {i \in 1..(n - k) : \A j \in 1..i : sim.left[j].at <= sim.mono}
  BY <1>3 DEF DueIn
<1>5. d \in 0..(n - k) /\ d \in due /\ \A i \in due : i <= d
  <2>1. due \in SUBSET Nat /\ due # {} /\ n - k \in Nat /\ \A y \in due : y <= n - k
    BY <1>1, <1>2, <1>4
  <2>2. Max(due) \in due /\ \A y \in due : y <= Max(due)
    <3> HIDE DEF due, n
    <3> QED
      BY <2>1, MaxNat
  <2>3. d \in due /\ d \in Nat /\ d <= n - k
    <3> HIDE DEF due, n
    <3> QED
      BY <2>1, <2>2
  <2> HIDE DEF due, n, d
  <2>4. \A i \in due : i <= d
    BY <2>2 DEF d
  <2> QED
    BY <2>1, <2>3, <2>4
<1> HIDE DEF due, d, n
<1>6. \A j \in 1..d : steps[k + j].at <= sim.mono
  <2>1. CASE d = 0
    BY <2>1
  <2>2. CASE d # 0
    <3>1. d \in DueIn(sim.left)
      BY <1>5, <2>2 DEF due
    <3>2. d \in 1..(n - k) /\ \A j \in 1..d : sim.left[j].at <= sim.mono
      BY <1>4, <3>1
    <3>3. \A j \in 1..d : j \in 1..(n - k)
      BY <1>1, <1>2, <3>2
    <3> QED
      BY <1>3, <3>2, <3>3
  <2> QED
    BY <2>1, <2>2
<1>7. m \in 0..n /\ \A j \in 1..m : steps[j].at <= sim.mono
  <2>1. m \in 0..n
    BY <1>1, <1>2, <1>5
  <2>2. ASSUME NEW j \in 1..m PROVE steps[j].at <= sim.mono
    <3>1. CASE j <= k
      BY <1>2, <2>1, <3>1 DEF Dropped
    <3>2. CASE j > k
      <4>1. j - k \in 1..d /\ k + (j - k) = j
        BY <1>1, <1>2, <1>5, <3>2
      <4> QED
        BY <1>6, <4>1
    <3> QED
      BY <1>2, <2>1, <3>1, <3>2
  <2> QED
    BY <2>1, <2>2
<1>8. Remaining = SubSeq(steps, m + 1, n) /\ Remaining \in Seq(LifecycleSteps)
  <2>1. Remaining = SubSeq(sim.left, d + 1, n - k) /\ sim.left = SubSeq(steps, k + 1, n)
    BY <1>3 DEF Remaining, d, due, Dropped, n
  <2>2. d \in 0..(Len(steps) - k) /\ m \in 0..Len(steps)
    BY <1>5, <1>7 DEF n
  <2> HIDE DEF steps
  <2>3. SubSeq(SubSeq(steps, k + 1, Len(steps)), d + 1, Len(steps) - k)
          = SubSeq(steps, k + d + 1, Len(steps))
    BY <1>1, <2>2, RestOfRest
  <2>4. SubSeq(steps, m + 1, Len(steps)) \in Seq(LifecycleSteps)
    <3> HIDE DEF m
    <3> QED
      BY <1>1, <2>2, RestOf
  <2> QED
    BY <2>1, <2>3, <2>4 DEF n
<1>9. StateOf(Remaining) = AtTime(sim.script)
  <2> DEFINE later == {i \in DOMAIN steps : steps[i].at > sim.mono}
  <2>1. CASE d = n - k
    <3>1. m = n /\ later = {}
      BY <1>1, <1>2, <1>5, <1>7, <2>1
    <3>2. Remaining = <<>>
      <4>1. n + 1 \in Int /\ n \in Int /\ n < n + 1
        BY <1>1
      <4> QED
        BY <1>8, <3>1, <4>1, SubSeqEmpty
    <3> QED
      BY <3>1, <3>2 DEF StateOf, AtTime
  <2>2. CASE d # n - k
    <3>1. m + 1 \in 1..n /\ d + 1 \in 1..(n - k) /\ d + 1 \notin DueIn(sim.left)
      BY <1>1, <1>2, <1>5, <2>2 DEF due
    <3>2. steps[m + 1].at > sim.mono
      <4>1. PICK j \in 1..(d + 1) : ~(sim.left[j].at <= sim.mono)
        BY <1>4, <3>1
      <4>2. j \in 1..(n - k) /\ sim.left[j] = steps[k + j] /\ k + j \in 1..n
        BY <1>1, <1>2, <1>3, <1>5, <3>1
      <4>3. j \notin 1..d
        BY <1>6, <4>1, <4>2
      <4>4. k + j = m + 1
        BY <1>2, <1>5, <4>2, <4>3
      <4> QED
        BY <1>2, <4>1, <4>2, <4>4
    <3>3. later \subseteq Nat /\ m + 1 \in later /\ \A i \in later : m + 1 <= i
      <4>1. later \subseteq Nat /\ m + 1 \in later
        BY <1>1, <3>1, <3>2
      <4>2. ASSUME NEW i \in later PROVE m + 1 <= i
        <5>1. i \in Nat /\ ~(steps[i].at <= sim.mono)
          BY <1>1, <1>2
        <5>2. i \notin 1..m /\ i \in 1..n
          BY <1>1, <1>7, <5>1
        <5> HIDE DEF m, later, steps
        <5> QED
          BY <1>1, <1>7, <5>1, <5>2
      <4> QED
        BY <4>1, <4>2
    <3>4. Min(later) = m + 1
      <4>1. Min(later) \in later /\ \A y \in later : Min(later) <= y
        <5> HIDE DEF later, m
        <5> QED
          BY <3>3, MinNat
      <4> HIDE DEF later, m
      <4>2. m \in 0..n /\ n \in Nat
        BY <1>1, <1>7
      <4>3. Min(later) <= m + 1 /\ m + 1 <= Min(later)
        BY <3>3, <4>1
      <4>4. Min(later) \in Nat
        BY <3>3, <4>1
      <4> QED
        BY <4>2, <4>3, <4>4
    <3>5. Head(Remaining) = steps[m + 1] /\ Remaining # <<>>
      <4>1. n \in (m + 1)..n /\ n = Len(steps)
        BY <1>1, <3>1 DEF n
      <4> HIDE DEF m, steps
      <4>2. Head(SubSeq(steps, m + 1, n)) = steps[m + 1]
        BY <1>1, <3>1, <4>1, HeadTailOfSubSeq
      <4>3. Len(SubSeq(steps, m + 1, n)) = n - (m + 1) + 1
        <5>1. m + 1 \in Int /\ n \in Int /\ m + 1 <= n
          BY <1>1, <3>1
        <5>2. \A i \in (m + 1)..n : steps[i] \in LifecycleSteps
          BY <1>1, <3>1
        <5> QED
          BY <5>1, <5>2, SubSeqProperties
      <4>4. SubSeq(steps, m + 1, n) # <<>>
        <5>1. n - (m + 1) + 1 # 0
          BY <1>1, <3>1
        <5> QED
          BY <4>3, <5>1, EmptySeq
      <4> QED
        BY <1>8, <4>2, <4>4
    <3> QED
      BY <3>3, <3>4, <3>5 DEF StateOf, AtTime
  <2> QED
    BY <2>1, <2>2
<1> QED
  BY <1>7, <1>8, <1>9 DEF n

LEMMA StartKeeps ==
  ASSUME sim = NoSim, sTaken = <<>>, sReply.op = "none", NEW steps \in LifecycleScripts,
         NEW fault \in Faults, StartSim(steps, fault)
  PROVE  SimRuns'
<1>1. /\ sim' = [script |-> steps, left |-> steps, fault |-> fault,
                 mono |-> 0, drawn |-> 0, sequence |-> 0]
      /\ sReply' = sReply /\ sTaken' = <<>>
  BY DEF StartSim
<1>2. steps \in Seq(LifecycleSteps) /\ Len(steps) \in Nat
  BY ScriptsAreSequences, LenProperties
<1>3. sim' \in Sims
  BY <1>1, <1>2, SimAssumption DEF Sims
<1>4. (\E k \in 0..Len(sim.script) : Dropped(k))'
  <2>1. SubSeq(steps, 1, Len(steps)) = steps /\ 0 \in 0..Len(steps) /\ 0 + 1 = 1
    BY <1>2, SubSeqFull
  <2>2. Dropped(0)'
    BY <1>1, <2>1 DEF Dropped
  <2> QED
    BY <1>1, <2>1, <2>2
<1>5. Total("timer")' = 0 /\ Total("entropy")' = 0
  <2>1. Units("timer")' = {} /\ Units("entropy")' = {}
    BY <1>1 DEF Units
  <2> QED
    BY <2>1, FS_EmptySet DEF Total
<1>6. Min({0, MaxTime}) = 0
  BY MinOfTwo, SimAssumption
<1>7. RepliesReplay'
  <2>1. Len(sTaken') <= sim'.sequence
    BY <1>1, EmptySeq
  <2> QED
    BY <1>1, <1>5, <1>6, <2>1 DEF RepliesReplay
<1> QED
  BY <1>1, <1>3, <1>4, <1>7, EmptySeq DEF SimRuns

\* What a request leaves of the steps that are gone: the clock never goes back.
LEMMA StillDropped ==
  ASSUME sim \in Sims, sim' \in Sims, sim'.script = sim.script, sim'.left = sim.left,
         sim.mono <= sim'.mono, \E k \in 0..Len(sim.script) : Dropped(k)
  PROVE  (\E k \in 0..Len(sim.script) : Dropped(k))'
<1>1. PICK k \in 0..Len(sim.script) : Dropped(k)
  OBVIOUS
<1>2. /\ sim.script \in Seq(LifecycleSteps) /\ Len(sim.script) \in Nat
      /\ \A i \in 1..Len(sim.script) : sim.script[i].at \in Nat
  <2>1. sim.script \in Seq(LifecycleSteps)
    BY ScriptsAreSequences DEF Sims
  <2>2. \A i \in 1..Len(sim.script) : sim.script[i] \in LifecycleSteps
    BY <2>1, ElementOfSeq
  <2> QED
    BY <2>1, <2>2, LenProperties, SimAssumption DEF LifecycleSteps
<1>3. sim.mono \in Nat /\ sim'.mono \in Nat
  BY SimAssumption DEF Sims
<1>4. \A j \in 1..k : sim.script[j].at <= sim'.mono
  <2> SUFFICES ASSUME NEW j \in 1..k PROVE sim.script[j].at <= sim'.mono
    OBVIOUS
  <2>1. j \in 1..Len(sim.script) /\ sim.script[j].at <= sim.mono
    BY <1>1, <1>2 DEF Dropped
  <2> QED
    BY <1>2, <1>3, <2>1
<1> QED
  BY <1>1, <1>4 DEF Dropped

LEMMA RefusedKeeps ==
  ASSUME SimRuns, sim.sequence < MaxApplied, sim' = [sim EXCEPT !.sequence = @ + 1],
         sReply' = [op |-> "refused"], sTaken' = sTaken
  PROVE  SimRuns'
<1>1. /\ sim' \in Sims /\ sim'.script = sim.script /\ sim'.left = sim.left
      /\ sim'.mono = sim.mono /\ sim'.drawn = sim.drawn /\ sim'.sequence = sim.sequence + 1
      /\ sim.sequence \in Nat /\ sim.mono \in Nat
  BY SimAssumption DEF SimRuns, Sims
<1>2. (\E k \in 0..Len(sim.script) : Dropped(k))'
  BY <1>1, StillDropped DEF SimRuns
<1>3. Total("timer")' = Total("timer") /\ Total("entropy")' = Total("entropy")
  BY DEF Total, Units
<1>4. Len(sTaken) \in Nat
  BY LenProperties DEF SimRuns
<1>5. RepliesReplay'
  <2>1. /\ sim.mono = Min({Total("timer"), MaxTime}) /\ sim.drawn = Total("entropy")
        /\ Len(sTaken) <= sim.sequence
    BY SimIsNotNoSim DEF SimRuns, RepliesReplay
  <2>2. Len(sTaken') <= sim'.sequence
    BY <1>1, <1>4, <2>1
  <2> QED
    BY <1>1, <1>3, <2>1, <2>2 DEF RepliesReplay
<1> QED
  BY <1>1, <1>2, <1>5 DEF SimRuns

\* A request that is taken: its reply follows from those taken before.
LEMMA TakenKeeps ==
  ASSUME SimRuns, NEW r \in SimRequests, sTaken' = Append(sTaken, r),
         sim' \in Sims, sim'.script = sim.script, sim'.sequence = sim.sequence + 1,
         (\E k \in 0..Len(sim.script) : Dropped(k))',
         sim'.mono = IF r.op = "timer" THEN Advanced(r.amount) ELSE sim.mono,
         sim'.drawn = sim.drawn + IF r.op = "entropy" THEN r.amount ELSE 0,
         sReply'.op = "clock" => sReply'.value = sim'.mono,
         sReply'.op = "entropy" => r.op = "entropy" /\ sReply'.value = sim.drawn,
         sReply'.op = "lifecycle" => sReply'.value = AtTime(sim.script)'
  PROVE  SimRuns'
<1>1. /\ sTaken \in Seq(SimRequests) /\ Len(sTaken) \in Nat /\ Len(sTaken) <= sim.sequence
      /\ sim.mono = Min({Total("timer"), MaxTime}) /\ sim.drawn = Total("entropy")
      /\ sim.sequence \in Nat /\ sim.mono \in Nat /\ sim.drawn \in Nat
  BY SimIsNotNoSim, LenProperties, SimAssumption DEF SimRuns, RepliesReplay, Sims
<1>2. /\ sTaken' \in Seq(SimRequests) /\ Len(sTaken') = Len(sTaken) + 1 /\ Last(sTaken') = r
  BY <1>1, AppendProperties DEF Last
<1>3. r.amount \in Nat
  BY DEF SimRequests
<1>4. /\ Total("timer") \in Nat
      /\ Total("timer")' = Total("timer") + IF r.op = "timer" THEN r.amount ELSE 0
      /\ Total("entropy")' = Total("entropy") + IF r.op = "entropy" THEN r.amount ELSE 0
  BY <1>1, TakenAdds
<1>5. sim'.mono = Min({Total("timer")', MaxTime})
  <2>1. Min({Total("timer"), MaxTime})
          = IF Total("timer") <= MaxTime THEN Total("timer") ELSE MaxTime
    BY <1>4, MinOfTwo, SimAssumption
  <2>2. CASE r.op # "timer"
    <3>1. Total("timer")' = Total("timer")
      BY <1>4, <2>2
    <3> QED
      BY <1>1, <2>2, <3>1
  <2>3. CASE r.op = "timer"
    <3>1. Advanced(r.amount)
            = IF sim.mono + r.amount <= MaxTime THEN sim.mono + r.amount ELSE MaxTime
      <4>1. sim.mono + r.amount \in Nat /\ MaxTime \in Nat
        BY <1>1, <1>3, SimAssumption
      <4> QED
        BY <4>1, MinOfTwo DEF Advanced
    <3>2. Total("timer")' = Total("timer") + r.amount /\ Total("timer") + r.amount \in Nat
      BY <1>3, <1>4, <2>3
    <3>3. Min({Total("timer")', MaxTime})
            = IF Total("timer") + r.amount <= MaxTime THEN Total("timer") + r.amount
                                                      ELSE MaxTime
      BY <3>2, MinOfTwo, SimAssumption
    <3> QED
      BY <1>1, <1>3, <1>4, <2>1, <2>3, <3>1, <3>3, SimAssumption
  <2> QED
    BY <2>2, <2>3
<1>6. sim'.drawn = Total("entropy")'
  BY <1>1, <1>4
<1>7. sReply'.op = "entropy" => sReply'.value + Last(sTaken').amount = sim'.drawn
  BY <1>2
<1>8. Len(sTaken') <= sim'.sequence
  BY <1>1, <1>2
<1>9. RepliesReplay'
  BY <1>5, <1>6, <1>7, <1>8 DEF RepliesReplay
<1> QED
  BY <1>2, <1>9 DEF SimRuns

LEMMA ApplyKeeps ==
  ASSUME SimRuns, NEW r \in SimRequests, Apply(r)
  PROVE  SimRuns'
<1> DEFINE counted == [sim EXCEPT !.sequence = @ + 1]
<1>1. /\ sim \in Sims /\ sim.sequence < MaxApplied /\ sim.sequence + 1 \in 0..MaxApplied
      /\ sim.mono \in 0..MaxTime /\ sim.drawn \in Nat /\ MaxTime \in Nat
      /\ \E k \in 0..Len(sim.script) : Dropped(k)
  BY SimAssumption DEF Apply, SimRuns, Sims
<1>2. /\ counted \in Sims /\ counted.script = sim.script /\ counted.left = sim.left
      /\ counted.mono = sim.mono /\ counted.drawn = sim.drawn
      /\ counted.sequence = sim.sequence + 1
  BY <1>1 DEF Sims
<1>3. r.op \in {"timer", "entropy", "lifecycle", "clock"} /\ r.amount \in Nat
  BY DEF SimRequests
<1>4. Advanced(r.amount) \in 0..MaxTime /\ sim.mono <= Advanced(r.amount)
  <2>1. sim.mono + r.amount \in Nat
    BY <1>1, <1>3
  <2> QED
    BY <1>1, <1>3, <2>1, MinOfTwo DEF Advanced
<1>5. CASE Injected(r.op)
  BY <1>5, RefusedKeeps DEF Apply
<1>6. CASE ~Injected(r.op) /\ r.op = "timer"
  <2>1. /\ sTaken' = Append(sTaken, r)
        /\ sim' = [counted EXCEPT !.mono = Advanced(r.amount)]
        /\ sReply' = [op |-> "clock", value |-> Advanced(r.amount)]
    BY <1>6 DEF Apply
  <2> HIDE DEF counted
  <2>2. /\ sim' \in Sims /\ sim'.script = sim.script /\ sim'.left = sim.left
        /\ sim'.mono = Advanced(r.amount) /\ sim'.drawn = sim.drawn
        /\ sim'.sequence = sim.sequence + 1
    BY <1>2, <1>4, <2>1 DEF Sims
  <2>3. (\E k \in 0..Len(sim.script) : Dropped(k))'
    BY <1>1, <1>4, <2>2, StillDropped
  <2>4. /\ sim'.mono = IF r.op = "timer" THEN Advanced(r.amount) ELSE sim.mono
        /\ sim'.drawn = sim.drawn + IF r.op = "entropy" THEN r.amount ELSE 0
        /\ sReply'.op = "clock" /\ sReply'.value = sim'.mono
    BY <1>1, <1>6, <2>1, <2>2
  <2> QED
    BY <2>1, <2>2, <2>3, <2>4, TakenKeeps
<1>7. CASE ~Injected(r.op) /\ r.op = "clock"
  <2>1. /\ sTaken' = Append(sTaken, r) /\ sim' = counted
        /\ sReply' = [op |-> "clock", value |-> sim.mono]
    BY <1>7 DEF Apply
  <2> HIDE DEF counted
  <2>2. (\E k \in 0..Len(sim.script) : Dropped(k))'
    BY <1>1, <1>2, <2>1, StillDropped
  <2> QED
    BY <1>1, <1>2, <1>7, <2>1, <2>2, TakenKeeps
<1>8. CASE ~Injected(r.op) /\ r.op = "entropy"
  <2>1. /\ sTaken' = Append(sTaken, r)
        /\ sim' = [counted EXCEPT !.drawn = @ + r.amount]
        /\ sReply' = [op |-> "entropy", value |-> sim.drawn]
    BY <1>8 DEF Apply
  <2> HIDE DEF counted
  <2>2. /\ sim' \in Sims /\ sim'.script = sim.script /\ sim'.left = sim.left
        /\ sim'.mono = sim.mono /\ sim'.drawn = sim.drawn + r.amount
        /\ sim'.sequence = sim.sequence + 1
    <3>1. sim.drawn + r.amount \in Nat
      BY <1>1, <1>3
    <3> QED
      BY <1>2, <2>1, <3>1 DEF Sims
  <2>3. (\E k \in 0..Len(sim.script) : Dropped(k))'
    BY <1>1, <2>2, StillDropped
  <2> QED
    BY <1>1, <1>8, <2>1, <2>2, <2>3, TakenKeeps
<1>9. CASE ~Injected(r.op) /\ r.op = "lifecycle"
  <2>1. /\ sTaken' = Append(sTaken, r)
        /\ sim' = [counted EXCEPT !.left = Remaining]
        /\ sReply' = [op |-> "lifecycle", value |-> StateOf(Remaining)]
    BY <1>9 DEF Apply
  <2>2. /\ \E m \in 0..Len(sim.script) :
              /\ Remaining = SubSeq(sim.script, m + 1, Len(sim.script))
              /\ \A j \in 1..m : sim.script[j].at <= sim.mono
        /\ Remaining \in Seq(LifecycleSteps)
        /\ StateOf(Remaining) = AtTime(sim.script)
    BY <1>1, RemainingIsLater
  <2> HIDE DEF counted
  <2>3. /\ sim' \in Sims /\ sim'.script = sim.script /\ sim'.left = Remaining
        /\ sim'.mono = sim.mono /\ sim'.drawn = sim.drawn
        /\ sim'.sequence = sim.sequence + 1
    BY <1>2, <2>1, <2>2 DEF Sims
  <2>4. (\E k \in 0..Len(sim.script) : Dropped(k))'
    BY <2>2, <2>3 DEF Dropped
  <2>5. AtTime(sim.script)' = AtTime(sim.script)
    BY <2>3 DEF AtTime
  <2>6. /\ sim'.mono = IF r.op = "timer" THEN Advanced(r.amount) ELSE sim.mono
        /\ sim'.drawn = sim.drawn + IF r.op = "entropy" THEN r.amount ELSE 0
        /\ sReply'.op = "lifecycle" /\ sReply'.value = AtTime(sim.script)'
    BY <1>1, <1>9, <2>1, <2>2, <2>3, <2>5
  <2> QED
    BY <2>1, <2>3, <2>4, <2>6, TakenKeeps
<1> QED
  BY <1>3, <1>5, <1>6, <1>7, <1>8, <1>9

LEMMA SimStepInv == SimInv /\ [SimNext]_simVars => SimInv'
<1> SUFFICES ASSUME SimInv, [SimNext]_simVars PROVE SimInv'
  OBVIOUS
<1>1. ASSUME NEW steps \in LifecycleScripts, NEW fault \in Faults, StartSim(steps, fault)
      PROVE  SimInv'
  <2>1. ~SimRuns
    BY <1>1, SimIsNotNoSim DEF StartSim, SimRuns
  <2> QED
    BY <1>1, <2>1, StartKeeps DEF SimInv
<1>2. ASSUME NEW r \in SimRequests, Apply(r) PROVE SimInv'
  <2>1. SimRuns
    BY <1>2 DEF Apply, SimInv
  <2> QED
    BY <1>2, <2>1, ApplyKeeps DEF SimInv
<1>3. CASE UNCHANGED simVars
  BY <1>3 DEF simVars, SimInv, SimRuns, Dropped, RepliesReplay, Total, Units, AtTime
<1> QED
  BY <1>1, <1>2, <1>3 DEF SimNext

LEMMA SimInvariant == SimSpec => []SimInv
<1>1. SimInit => SimInv
  BY DEF SimInit, SimInv
<1> QED
  BY <1>1, SimStepInv, PTL DEF SimSpec

\* A reply of the seeded platform is a function of its configuration and of the
\* requests that were taken before it.
THEOREM SeededRepliesReplay == SimSpec => []RepliesReplay
<1>1. SimInv => RepliesReplay
  BY DEF SimInv, SimRuns, RepliesReplay
<1> QED
  BY <1>1, SimInvariant, PTL

LEMMA SimTypes == SimSpec => []SimTypeOK
<1>1. SimInv => SimTypeOK
  <2> SUFFICES ASSUME SimRuns PROVE sim.left \in Suffixes(sim.script)
    BY DEF SimInv, SimRuns, Sims, SimTypeOK
  <2>1. PICK k \in 0..Len(sim.script) : Dropped(k)
    BY DEF SimRuns
  <2>2. sim.script \in Seq(LifecycleSteps) /\ Len(sim.script) \in Nat
    BY ScriptsAreSequences, LenProperties DEF SimRuns, Sims
  <2>3. sim.left = SubSeq(sim.script, k + 1, Len(sim.script))
    BY <2>1 DEF Dropped
  <2>4. CASE k = Len(sim.script)
    <3>1. k + 1 \in Int /\ Len(sim.script) \in Int /\ Len(sim.script) < k + 1
      BY <2>2, <2>4
    <3>2. sim.left = <<>>
      BY <2>3, <3>1, SubSeqEmpty
    <3> QED
      BY <3>2 DEF Suffixes
  <2>5. CASE k # Len(sim.script)
    <3>1. k + 1 \in 1..Len(sim.script)
      BY <2>2, <2>5
    <3> QED
      BY <2>3, <3>1 DEF Suffixes
  <2> QED
    BY <2>4, <2>5
<1> QED
  BY <1>1, SimInvariant, PTL

-----------------------------------------------------------------------------
(* The scripted process port.                                               *)

Runs == [request : 0..MaxRuns, budget : 0..MaxOutput]
ProcessAnswers == {Answer(outcome, budget) : outcome \in ScriptOutcomes, budget \in 0..MaxOutput}
Answers == [request : 1..MaxRuns, budget : 0..MaxOutput, answer : ProcessAnswers]

ScriptShape ==
  /\ script \in Seq(ScriptOutcomes) /\ answers \in Seq(Answers)
  /\ log \in 0..MaxRuns /\ runs \in [Runners -> Runs]

\* The outcomes that are left follow those that were answered.
OutcomesLeft ==
  /\ Len(answers) <= Len(script)
  /\ outcomes = SubSeq(script, Len(answers) + 1, Len(script))

\* A request is run by one thread or answered by one outcome.
RequestsAreOne ==
  /\ \A r \in Runners : /\ runs[r].request <= log
                        /\ runs[r].request = 0 => runs[r] = NoRun
  /\ \A q, r \in Runners : runs[q].request = runs[r].request /\ runs[q].request # 0 => q = r
  /\ \A i \in 1..Len(answers) :
       /\ answers[i].request <= log
       /\ \A r \in Runners : runs[r].request # answers[i].request
  /\ \A i, j \in 1..Len(answers) : answers[i].request = answers[j].request => i = j

\* What was answered is what the outcome at its place says within the budget.
AnswersFollow ==
  \A i \in 1..Len(answers) : answers[i].answer = Answer(script[i], answers[i].budget)

ScriptInv == ScriptShape /\ OutcomesLeft /\ RequestsAreOne /\ AnswersFollow

LEMMA ScriptFields ==
  ASSUME ScriptShape
  PROVE  /\ Len(answers) \in Nat /\ DOMAIN answers = 1..Len(answers) /\ Len(script) \in Nat
         /\ \A i \in 1..Len(answers) : /\ answers[i] \in Answers
                                       /\ answers[i].request \in 1..MaxRuns
                                       /\ answers[i].budget \in 0..MaxOutput
         /\ \A i \in 1..Len(script) : script[i] \in ScriptOutcomes
         /\ \A q \in Runners : runs[q].request \in 0..MaxRuns /\ runs[q].budget \in 0..MaxOutput
<1>1. answers \in Seq(Answers) /\ script \in Seq(ScriptOutcomes)
  BY DEF ScriptShape
<1>2. /\ Len(answers) \in Nat /\ DOMAIN answers = 1..Len(answers) /\ Len(script) \in Nat
      /\ \A i \in 1..Len(answers) : answers[i] \in Answers
      /\ \A i \in 1..Len(script) : script[i] \in ScriptOutcomes
  BY <1>1, LenProperties, ElementOfSeq
<1>3. \A q \in Runners : runs[q] \in Runs
  BY DEF ScriptShape
<1> QED
  BY <1>2, <1>3 DEF Answers, Runs

\* A stream ends with a character, so that a text is whole if nothing was cut and
\* only then; the replacement of a cut character adds two bytes at most.
LEMMA TextOfStream ==
  ASSUME NEW s \in Streams, NEW k \in 0..s.bytes
  PROVE  /\ Text(s, k) = Whole(s) <=> k = s.bytes
         /\ GivenBytes(Text(s, k)) \in Nat /\ GivenBytes(Text(s, k)) <= k + 2
         /\ k = 0 \/ k = s.bytes => GivenBytes(Text(s, k)) <= k
<1>1. /\ s.bytes \in Nat /\ s.ends \in SUBSET Nat /\ k \in Nat /\ k <= s.bytes
      /\ \A e \in s.ends : 1 <= e /\ e <= s.bytes
      /\ \A b \in 1..s.bytes : \E e \in s.ends : b <= e /\ e <= b + 3
  BY ScriptAssumption DEF Streams
<1>2. s.bytes # 0 => s.bytes \in s.ends
  <2> SUFFICES ASSUME s.bytes # 0 PROVE s.bytes \in s.ends
    OBVIOUS
  <2>1. s.bytes \in 1..s.bytes
    BY <1>1
  <2>2. PICK e \in s.ends : s.bytes <= e
    BY <1>1, <2>1
  <2>3. e = s.bytes
    BY <1>1, <2>2
  <2> QED
    BY <2>3
<1> DEFINE chars == s.ends \intersect (1..k)
           cut == k \notin (s.ends \union {0})
           last == Max(chars \union {0})
<1>3. Text(s, k) = [chars |-> chars, replaced |-> cut]
  BY DEF Text
<1>4. GivenBytes(Text(s, k)) = last + (IF cut THEN 3 ELSE 0)
  <2> DEFINE text == Text(s, k)
  <2>1. text.chars = chars /\ text.replaced = cut
    <3> HIDE DEF chars, cut
    <3>1. text.chars = chars
      BY <1>3
    <3>2. text.replaced = cut
      BY <1>3
    <3> QED
      BY <3>1, <3>2
  <2>2. GivenBytes(text) = Max(text.chars \union {0}) + (IF text.replaced THEN 3 ELSE 0)
    BY DEF GivenBytes
  <2> HIDE DEF text, chars, cut
  <2> QED
    BY <2>1, <2>2, Zenon DEF text
<1>5. last \in Nat /\ last <= k /\ (cut => last < k)
  <2>1. chars \union {0} \in SUBSET Nat /\ \A y \in chars \union {0} : y <= k
    BY <1>1
  <2>2. last \in chars \union {0}
    BY <1>1, <2>1, MaxNat
  <2>3. cut => k \notin chars \union {0}
    OBVIOUS
  <2> HIDE DEF last, chars, cut
  <2> QED
    BY <1>1, <2>1, <2>2, <2>3
<1>6. k = 0 \/ k = s.bytes => ~cut
  BY <1>2
<1>7. k = s.bytes => Text(s, k) = Whole(s)
  <2> SUFFICES ASSUME k = s.bytes PROVE Text(s, k) = Whole(s)
    OBVIOUS
  <2>1. chars = s.ends
    BY <1>1
  <2>2. cut = FALSE
    BY <1>6
  <2> QED
    BY <1>3, <2>1, <2>2 DEF Whole
<1>8. k # s.bytes => Text(s, k) # Whole(s)
  <2> SUFFICES ASSUME k # s.bytes PROVE Text(s, k) # Whole(s)
    OBVIOUS
  <2>1. s.bytes \in s.ends /\ s.bytes \notin chars
    BY <1>1, <1>2
  <2>2. Text(s, k).chars = chars /\ Whole(s).chars = s.ends
    BY <1>3 DEF Whole
  <2> QED
    BY <2>1, <2>2
<1> HIDE DEF last, chars, cut
<1>9. GivenBytes(Text(s, k)) \in Nat /\ GivenBytes(Text(s, k)) <= k + 2
  BY <1>1, <1>4, <1>5
<1>10. k = 0 \/ k = s.bytes => GivenBytes(Text(s, k)) <= k
  BY <1>1, <1>4, <1>5, <1>6
<1> QED
  BY <1>7, <1>8, <1>9, <1>10

\* Both streams together stay within the budget, but for the replacement of one
\* character, and a cut is told.
LEMMA AnswerIsHonest ==
  ASSUME NEW outcome \in ScriptOutcomes, NEW budget \in 0..MaxOutput,
         NEW answer, answer = Answer(outcome, budget), answer.end = "completed"
  PROVE  /\ ~outcome.late
         /\ answer.truncated <=> \/ answer.out # Whole(outcome.out)
                                 \/ answer.err # Whole(outcome.err)
         /\ GivenBytes(answer.out) + GivenBytes(answer.err)
              <= budget + (IF answer.truncated THEN 2 ELSE 0)
<1>1. outcome \in ExitOutcomes \/ outcome.end \in OtherOutcomes
  BY DEF ScriptOutcomes
<1>2. outcome \in ExitOutcomes /\ outcome.end = "exit" /\ ~outcome.late
  <2>1. CASE outcome.end # "exit"
    <3>1. answer = [end |-> outcome.end]
      BY <2>1 DEF Answer
    <3> QED
      BY <1>1, <2>1, <3>1 DEF OtherOutcomes, ExitOutcomes
  <2>2. CASE outcome.end = "exit"
    <3>1. outcome \in ExitOutcomes
      BY <1>1, <2>2 DEF OtherOutcomes
    <3>2. outcome.late => answer = [end |-> "timeout"]
      BY <2>2 DEF Answer
    <3> QED
      BY <2>2, <3>1, <3>2
  <2> QED
    BY <2>1, <2>2
<1>3. answer = Capped(outcome, budget)
  BY <1>2 DEF Answer
<1>4. /\ outcome.out \in Streams /\ outcome.err \in Streams /\ budget \in Nat
      /\ outcome.out.bytes \in Nat /\ outcome.err.bytes \in Nat
  BY <1>2, ScriptAssumption DEF ExitOutcomes, Streams
<1> DEFINE out == Min({outcome.out.bytes, budget})
           err == Min({outcome.err.bytes, budget - out})
           first == GivenBytes(Text(outcome.out, out))
           second == GivenBytes(Text(outcome.err, err))
           over == outcome.out.bytes + outcome.err.bytes > budget
<1>5. out = IF outcome.out.bytes <= budget THEN outcome.out.bytes ELSE budget
  BY <1>4, MinOfTwo
<1>6. err = IF outcome.err.bytes <= budget - out THEN outcome.err.bytes ELSE budget - out
  <2>1. budget - out \in Nat
    BY <1>4, <1>5
  <2> HIDE DEF out
  <2> QED
    BY <1>4, <2>1, MinOfTwo
<1>7. answer = [end |-> "completed", out |-> Text(outcome.out, out),
                err |-> Text(outcome.err, err), truncated |-> over]
  BY <1>3 DEF Capped, LeftOver
<1> HIDE DEF out, err
<1>8. out \in 0..outcome.out.bytes /\ err \in 0..outcome.err.bytes /\ out + err <= budget
  BY <1>4, <1>5, <1>6
<1>9. over <=> out # outcome.out.bytes \/ err # outcome.err.bytes
  BY <1>4, <1>5, <1>6
<1>10. out # outcome.out.bytes => err = 0
  BY <1>4, <1>5, <1>6
<1>11. /\ Text(outcome.out, out) = Whole(outcome.out) <=> out = outcome.out.bytes
       /\ first \in Nat /\ first <= out + 2
       /\ out = 0 \/ out = outcome.out.bytes => first <= out
  BY <1>4, <1>8, TextOfStream
<1>12. /\ Text(outcome.err, err) = Whole(outcome.err) <=> err = outcome.err.bytes
       /\ second \in Nat /\ second <= err + 2
       /\ err = 0 \/ err = outcome.err.bytes => second <= err
  BY <1>4, <1>8, TextOfStream
<1>13. /\ answer.out = Text(outcome.out, out) /\ answer.err = Text(outcome.err, err)
       /\ answer.truncated = over
  BY <1>7
<1> HIDE DEF first, second, over
<1>14. out \in Nat /\ err \in Nat
  BY <1>4, <1>8
<1>15. first + second <= budget + (IF over THEN 2 ELSE 0)
  <2>1. CASE ~over
    <3>1. first <= out /\ second <= err
      BY <1>9, <1>11, <1>12, <2>1
    <3> QED
      BY <1>4, <1>8, <1>11, <1>12, <1>14, <2>1, <3>1
  <2>2. CASE over
    <3>1. \/ first <= out + 2 /\ second <= err
          \/ first <= out /\ second <= err + 2
      BY <1>10, <1>11, <1>12
    <3> QED
      BY <1>4, <1>8, <1>11, <1>12, <1>14, <2>2, <3>1
  <2> QED
    BY <2>1, <2>2
<1>16. over <=> \/ Text(outcome.out, out) # Whole(outcome.out)
                \/ Text(outcome.err, err) # Whole(outcome.err)
  BY <1>9, <1>11, <1>12
<1>17. /\ GivenBytes(answer.out) = first /\ GivenBytes(answer.err) = second
  BY <1>13 DEF first, second
<1> QED
  BY <1>2, <1>13, <1>15, <1>16, <1>17

LEMMA ScriptInitInv == ScriptInit => ScriptInv
<1> SUFFICES ASSUME ScriptInit PROVE ScriptInv
  OBVIOUS
<1>1. /\ script = <<>> /\ outcomes = <<>> /\ answers = <<>> /\ Len(<<>>) = 0
      /\ <<>> \in Seq(ScriptOutcomes) /\ <<>> \in Seq(Answers)
  BY EmptySeq DEF ScriptInit
<1>2. SubSeq(<<>>, 1, 0) = <<>>
  BY SubSeqEmpty
<1>3. NoRun \in Runs /\ NoRun.request = 0
  BY ScriptAssumption DEF NoRun, Runs
<1> QED
  BY <1>1, <1>2, <1>3, ScriptAssumption DEF ScriptInit, ScriptInv, ScriptShape, OutcomesLeft,
     RequestsAreOne, AnswersFollow

LEMMA AddOutcomeKeeps ==
  ASSUME ScriptInv, NEW outcome \in ScriptOutcomes, AddOutcome(outcome)
  PROVE  ScriptInv'
<1> USE DEF ScriptInv
<1>1. log = 0 /\ script' = Append(script, outcome) /\ outcomes' = script'
      /\ UNCHANGED <<log, runs, answers>>
  BY DEF AddOutcome
<1>2. Len(answers) = 0
  <2>1. Len(answers) \in Nat /\ \A i \in 1..Len(answers) : answers[i].request \in 1..MaxRuns
    BY ScriptFields
  <2> QED
    BY <1>1, <2>1, ScriptAssumption DEF RequestsAreOne
<1>3. script' \in Seq(ScriptOutcomes) /\ Len(script') \in Nat
  BY <1>1, AppendProperties, LenProperties DEF ScriptShape
<1>4. SubSeq(script', 1, Len(script')) = script'
  BY <1>3, SubSeqFull
<1> QED
  BY <1>1, <1>2, <1>3, <1>4 DEF ScriptShape, OutcomesLeft, RequestsAreOne, AnswersFollow

\* A thread starts a run under a number of its own, or leaves it.
LEMMA RunKeeps ==
  ASSUME ScriptInv, NEW r \in Runners,
         CancelledBefore(r) \/ \E budget \in 0..MaxOutput : LogRequest(r, budget)
  PROVE  ScriptInv'
<1> USE DEF ScriptInv
<1>1. NoRun \in Runs /\ NoRun.request = 0
  BY ScriptAssumption DEF NoRun, Runs
<1>2. /\ \A i \in 1..Len(answers) : answers[i].request \in 1..MaxRuns
      /\ \A q \in Runners : runs[q].request \in 0..MaxRuns
  BY ScriptFields
<1>3. CASE CancelledBefore(r)
  <2>1. /\ runs' = [runs EXCEPT ![r] = NoRun] /\ UNCHANGED <<outcomes, log, script, answers>>
    BY <1>3 DEF CancelledBefore
  <2>2. /\ runs' \in [Runners -> Runs] /\ runs'[r] = NoRun
        /\ \A q \in Runners : q # r => runs'[q] = runs[q]
    BY <1>1, <2>1 DEF ScriptShape
  <2>3. RequestsAreOne'
    BY <1>1, <1>2, <2>1, <2>2, ScriptAssumption DEF RequestsAreOne, ScriptShape
  <2> QED
    BY <2>1, <2>2, <2>3 DEF ScriptShape, OutcomesLeft, AnswersFollow
<1>4. ASSUME NEW budget \in 0..MaxOutput, LogRequest(r, budget) PROVE ScriptInv'
  <2> DEFINE run == [request |-> log + 1, budget |-> budget]
  <2>1. /\ runs' = [runs EXCEPT ![r] = run] /\ log' = log + 1 /\ log < MaxRuns
        /\ UNCHANGED <<outcomes, script, answers>>
    BY <1>4 DEF LogRequest
  <2>2. run \in Runs /\ run.request = log + 1 /\ log' \in 0..MaxRuns /\ log \in Nat
    BY <2>1, ScriptAssumption DEF Runs, ScriptShape
  <2> HIDE DEF run
  <2>3. /\ runs' \in [Runners -> Runs] /\ runs'[r] = run
        /\ \A q \in Runners : q # r => runs'[q] = runs[q]
    BY <2>1, <2>2 DEF ScriptShape
  <2>4. RequestsAreOne'
    BY <1>2, <2>1, <2>2, <2>3, ScriptAssumption DEF RequestsAreOne
  <2> QED
    BY <2>1, <2>2, <2>3, <2>4 DEF ScriptShape, OutcomesLeft, AnswersFollow
<1> QED
  BY <1>3, <1>4

\* The next outcome answers the run, at its place in the script.
LEMMA TakeOutcomeKeeps ==
  ASSUME ScriptInv, NEW r \in Runners, TakeOutcome(r)
  PROVE  ScriptInv'
<1> USE DEF ScriptInv
<1>1. NoRun \in Runs /\ NoRun.request = 0
  BY ScriptAssumption DEF NoRun, Runs
<1>2. /\ runs' = [runs EXCEPT ![r] = NoRun] /\ runs[r] # NoRun /\ UNCHANGED <<log, script>>
  BY DEF TakeOutcome
<1>3. /\ runs' \in [Runners -> Runs] /\ runs'[r] = NoRun
      /\ \A q \in Runners : q # r => runs'[q] = runs[q]
  BY <1>1, <1>2 DEF ScriptShape
<1>4. CASE outcomes = <<>>
  <2>1. UNCHANGED <<outcomes, answers>>
    BY <1>4 DEF TakeOutcome
  <2>2. RequestsAreOne'
    BY <1>1, <1>2, <1>3, <2>1, ScriptFields, ScriptAssumption DEF RequestsAreOne, ScriptShape
  <2> QED
    BY <1>2, <1>3, <2>1, <2>2 DEF ScriptShape, OutcomesLeft, AnswersFollow
<1>5. CASE outcomes # <<>>
  <2> DEFINE n == Len(answers)
             outcome == Head(outcomes)
             given == [request |-> runs[r].request, budget |-> runs[r].budget,
                       answer |-> Answer(outcome, runs[r].budget)]
  <2>1. outcomes' = Tail(outcomes) /\ answers' = Append(answers, given)
    BY <1>5 DEF TakeOutcome
  <2>2. /\ n \in Nat /\ Len(script) \in Nat /\ n <= Len(script)
        /\ outcomes = SubSeq(script, n + 1, Len(script)) /\ script \in Seq(ScriptOutcomes)
    BY ScriptFields DEF OutcomesLeft, ScriptShape
  <2>3. n + 1 <= Len(script)
    <3>1. CASE n = Len(script)
      <4>1. n + 1 \in Int /\ Len(script) \in Int /\ Len(script) < n + 1
        BY <2>2, <3>1
      <4> QED
        BY <1>5, <2>2, <4>1, SubSeqEmpty
    <3> QED
      BY <2>2, <3>1
  <2> HIDE DEF n
  <2>4. outcome = script[n + 1] /\ Tail(outcomes) = SubSeq(script, n + 1 + 1, Len(script))
    <3>1. n + 1 \in 1..Len(script) /\ Len(script) \in (n + 1)..Len(script)
      BY <2>2, <2>3
    <3> QED
      BY <2>2, <3>1, HeadTailOfSubSeq
  <2>5. runs[r].request # 0 /\ runs[r].request \in 1..MaxRuns /\ runs[r].budget \in 0..MaxOutput
    BY <1>2, ScriptFields, ScriptAssumption DEF RequestsAreOne
  <2>6. /\ given \in Answers /\ given.request = runs[r].request
        /\ given.answer = Answer(script[n + 1], given.budget)
    <3>1. outcome \in ScriptOutcomes
      BY <2>2, <2>3, <2>4, ElementOfSeq
    <3>2. Answer(outcome, runs[r].budget) \in ProcessAnswers
      BY <2>5, <3>1 DEF ProcessAnswers
    <3> HIDE DEF outcome
    <3> QED
      BY <2>4, <2>5, <3>2 DEF Answers
  <2> HIDE DEF given
  <2>7. /\ answers' \in Seq(Answers) /\ Len(answers') = n + 1
        /\ \A i \in 1..n : answers'[i] = answers[i]
        /\ answers'[n + 1] = given
    BY <2>1, <2>6, AppendProperties DEF ScriptShape, n
  <2>8. 1..(n + 1) = 1..n \union {n + 1}
    BY <2>2
  <2>9. /\ \A i \in 1..n : answers[i].request # given.request /\ answers[i].request <= log
        /\ given.request <= log
    BY <2>6, ScriptFields DEF RequestsAreOne, n
  <2>10. RequestsAreOne'
    <3>1. /\ \A q \in Runners : /\ runs'[q].request <= log
                                /\ runs'[q].request = 0 => runs'[q] = NoRun
          /\ \A p, q \in Runners :
               runs'[p].request = runs'[q].request /\ runs'[p].request # 0 => p = q
      BY <1>1, <1>3, ScriptAssumption DEF RequestsAreOne, ScriptShape
    <3>2. \A i \in 1..(n + 1) :
            answers'[i].request <= log /\ \A q \in Runners : runs'[q].request # answers'[i].request
      <4>1. \A q \in Runners : runs'[q].request # given.request
        BY <1>1, <1>3, <2>5, <2>6 DEF RequestsAreOne
      <4>2. \A i \in 1..n : answers[i].request \in 1..MaxRuns
                            /\ \A q \in Runners : runs[q].request # answers[i].request
        BY ScriptFields DEF RequestsAreOne, n
      <4>3. \A i \in 1..n : \A q \in Runners : runs'[q].request # answers[i].request
        BY <1>1, <1>3, <4>2, ScriptAssumption
      <4> QED
        BY <2>7, <2>8, <2>9, <4>1, <4>3
    <3>3. \A i, j \in 1..(n + 1) : answers'[i].request = answers'[j].request => i = j
      <4>1. \A i, j \in 1..n : answers[i].request = answers[j].request => i = j
        BY DEF RequestsAreOne, n
      <4> QED
        BY <2>7, <2>8, <2>9, <4>1
    <3> QED
      BY <1>2, <2>7, <3>1, <3>2, <3>3 DEF RequestsAreOne
  <2>11. AnswersFollow'
    <3>1. \A i \in 1..n : answers[i].answer = Answer(script[i], answers[i].budget)
      BY DEF AnswersFollow, n
    <3>2. \A i \in 1..(n + 1) : answers'[i].answer = Answer(script[i], answers'[i].budget)
      BY <2>6, <2>7, <2>8, <3>1
    <3> QED
      BY <1>2, <2>7, <3>2 DEF AnswersFollow
  <2>12. OutcomesLeft'
    BY <1>2, <2>1, <2>2, <2>3, <2>4, <2>7 DEF OutcomesLeft
  <2> QED
    BY <1>2, <1>3, <2>7, <2>10, <2>11, <2>12 DEF ScriptShape
<1> QED
  BY <1>4, <1>5

LEMMA ScriptStepInv == ScriptInv /\ [ScriptNext]_scriptVars => ScriptInv'
<1> SUFFICES ASSUME ScriptInv, [ScriptNext]_scriptVars PROVE ScriptInv'
  OBVIOUS
<1>1. ASSUME NEW outcome \in ScriptOutcomes, AddOutcome(outcome) PROVE ScriptInv'
  BY <1>1, AddOutcomeKeeps
<1>2. ASSUME NEW r \in Runners,
             CancelledBefore(r) \/ \E budget \in 0..MaxOutput : LogRequest(r, budget)
      PROVE  ScriptInv'
  BY <1>2, RunKeeps
<1>3. ASSUME NEW r \in Runners, TakeOutcome(r) PROVE ScriptInv'
  BY <1>3, TakeOutcomeKeeps
<1>4. CASE UNCHANGED scriptVars
  BY <1>4 DEF scriptVars, ScriptInv, ScriptShape, OutcomesLeft, RequestsAreOne, AnswersFollow
<1> QED
  BY <1>1, <1>2, <1>3, <1>4 DEF ScriptNext

LEMMA ScriptInvariant == ScriptSpec => []ScriptInv
<1> QED
  BY ScriptInitInv, ScriptStepInv, PTL DEF ScriptSpec

\* Each outcome of the script answers one run, in order, whatever the threads;
\* what a run is answered is whole or said to be cut, and keeps to its budget but
\* for the replacement of one character.
THEOREM ScriptsAreFollowed == ScriptSpec => []ScriptIsFollowed
<1>1. ScriptInv => ScriptIsFollowed
  <2> SUFFICES ASSUME ScriptInv PROVE ScriptIsFollowed
    OBVIOUS
  <2>1. /\ Len(answers) \in Nat /\ DOMAIN answers = 1..Len(answers) /\ Len(script) \in Nat
        /\ Len(answers) <= Len(script)
    BY ScriptFields DEF ScriptInv, OutcomesLeft
  <2>2. ASSUME NEW i \in 1..Len(answers), answers[i].answer.end = "completed"
        PROVE  LET given == answers[i].answer IN
               /\ ~script[i].late
               /\ given.truncated <=> \/ given.out # Whole(script[i].out)
                                      \/ given.err # Whole(script[i].err)
               /\ GivenBytes(given.out) + GivenBytes(given.err)
                    <= answers[i].budget + (IF given.truncated THEN 2 ELSE 0)
    <3>1. i \in 1..Len(script)
      BY <2>1
    <3>2. script[i] \in ScriptOutcomes /\ answers[i].budget \in 0..MaxOutput
      BY <3>1, ScriptFields DEF ScriptInv
    <3>3. answers[i].answer = Answer(script[i], answers[i].budget)
      BY DEF ScriptInv, AnswersFollow
    <3> QED
      BY <2>2, <3>2, <3>3, AnswerIsHonest
  <2>3. \A i \in 1..Len(answers) : \A r \in Runners : runs[r].request # answers[i].request
    BY DEF ScriptInv, RequestsAreOne
  <2> QED
    BY <2>1, <2>2, <2>3 DEF ScriptInv, OutcomesLeft, RequestsAreOne, ScriptIsFollowed
<1> QED
  BY <1>1, ScriptInvariant, PTL

LEMMA ScriptTypes == ScriptSpec => []ScriptTypeOK
<1>1. ScriptInv => ScriptTypeOK
  <2> SUFFICES ASSUME ScriptInv PROVE ScriptTypeOK
    OBVIOUS
  <2>1. outcomes \in Suffixes(script)
    <3>1. /\ Len(answers) \in Nat /\ Len(script) \in Nat /\ Len(answers) <= Len(script)
          /\ outcomes = SubSeq(script, Len(answers) + 1, Len(script))
      BY ScriptFields DEF ScriptInv, OutcomesLeft
    <3>2. CASE Len(answers) = Len(script)
      <4>1. Len(answers) + 1 \in Int /\ Len(script) \in Int /\ Len(script) < Len(answers) + 1
        BY <3>1, <3>2
      <4>2. outcomes = <<>>
        BY <3>1, <4>1, SubSeqEmpty
      <4> QED
        BY <4>2 DEF Suffixes
    <3>3. CASE Len(answers) # Len(script)
      <4>1. Len(answers) + 1 \in 1..Len(script)
        BY <3>1, <3>3
      <4> QED
        BY <3>1, <4>1 DEF Suffixes
    <3> QED
      BY <3>2, <3>3
  <2>2. \A r \in Runners : runs[r].request \in 0..log /\ runs[r].budget \in 0..MaxOutput
    BY ScriptFields, ScriptAssumption DEF ScriptInv, RequestsAreOne, ScriptShape
  <2> QED
    BY <2>1, <2>2 DEF ScriptInv, ScriptShape, ScriptTypeOK
<1> QED
  BY <1>1, ScriptInvariant, PTL

-----------------------------------------------------------------------------
(* Cards, requests and bundles.                                             *)

LEMMA RecordsStepTypes == RecordsTypeOK /\ [RecordsNext]_recordVars => RecordsTypeOK'
<1> SUFFICES ASSUME RecordsTypeOK, [RecordsNext]_recordVars PROVE RecordsTypeOK'
  OBVIOUS
<1>1. ASSUME NEW offer \in ServiceOffers, AddOffer(offer) PROVE RecordsTypeOK'
  BY <1>1, AppendProperties DEF AddOffer, RecordsTypeOK
<1>2. ASSUME NEW requirement \in Requirements, AddRequirement(requirement) PROVE RecordsTypeOK'
  BY <1>2, AppendProperties DEF AddRequirement, RecordsTypeOK
<1>3. CASE Build
  BY <1>3, RecordsAssumption DEF Build, RecordsTypeOK
<1>4. CASE Attest
  <2> DEFINE A == [artifact : 1..MaxBuilds, card : Seq(ServiceOffers)]
  <2>1. [artifact |-> artifact, card |-> card] \in A /\ attestations \in Seq(A)
    BY DEF RecordsTypeOK
  <2>2. attestations' \in Seq(A) /\ Len(attestations') = Len(attestations) + 1
    BY <1>4, <2>1, AppendProperties DEF Attest
  <2>3. Len(attestations) \in Nat /\ Len(attestations) < MaxBuilds
    BY <1>4, <2>1, LenProperties DEF Attest
  <2> QED
    BY <1>4, <2>2, <2>3, RecordsAssumption DEF Attest, RecordsTypeOK
<1>5. ASSUME NEW given \in SUBSET DOMAIN attestations, NEW required \in SUBSET OfferedServices,
             ComposeBundle(given, required)
      PROVE  RecordsTypeOK'
  <2>1. PICK n \in DOMAIN attestations :
          bundles' = bundles \union {[card |-> card, artifact |-> artifact, evidence |-> n]}
    BY <1>5 DEF ComposeBundle
  <2>2. n \in Nat
    BY LenProperties DEF RecordsTypeOK
  <2>3. UNCHANGED <<card, request, artifact, attestations>>
    BY <1>5 DEF ComposeBundle
  <2> QED
    BY <2>1, <2>2, <2>3 DEF RecordsTypeOK
<1>6. CASE UNCHANGED recordVars
  BY <1>6 DEF recordVars, RecordsTypeOK
<1> QED
  BY <1>1, <1>2, <1>3, <1>4, <1>5, <1>6 DEF RecordsNext

\* The card, the request, the attestations and the bundles are made of what they
\* may hold.
THEOREM RecordsTypes == RecordsSpec => []RecordsTypeOK
<1>1. RecordsInit => RecordsTypeOK
  BY RecordsAssumption, EmptySeq DEF RecordsInit, RecordsTypeOK
<1> QED
  BY <1>1, RecordsStepTypes, PTL DEF RecordsSpec

\* The standing offer of a service is the last one.
LEMMA LastOfferStands ==
  ASSUME RecordsTypeOK, NEW s, OffersOf(s) # {}
  PROVE  /\ Offer(s).evidence \in Levels /\ Standing(s, Offer(s).evidence)
         /\ \A level : Standing(s, level) => level = Offer(s).evidence
<1>1. Len(card) \in Nat /\ DOMAIN card = 1..Len(card)
  BY LenProperties DEF RecordsTypeOK
<1>2. OffersOf(s) \in SUBSET Nat /\ \A i \in OffersOf(s) : i <= Len(card)
  BY <1>1 DEF OffersOf
<1> DEFINE last == Max(OffersOf(s))
<1>3. last \in OffersOf(s) /\ \A i \in OffersOf(s) : i <= last
  BY <1>1, <1>2, MaxNat
<1>4. last \in DOMAIN card /\ card[last].service = s /\ card[last] \in ServiceOffers
  BY <1>1, <1>3, ElementOfSeq DEF OffersOf, RecordsTypeOK
<1>5. Offer(s).evidence = card[last].evidence /\ card[last].evidence \in Levels
  BY <1>4 DEF Offer, ServiceOffers
<1>6. \A j \in DOMAIN card : j > last => card[j].service # s
  <2> SUFFICES ASSUME NEW j \in DOMAIN card, j > last, card[j].service = s PROVE FALSE
    OBVIOUS
  <2>1. j \in OffersOf(s)
    BY DEF OffersOf
  <2>2. j <= last
    BY <1>3, <2>1
  <2>3. j \in Nat /\ last \in Nat
    BY <1>2, <1>3, <2>1
  <2> HIDE DEF last
  <2> QED
    BY <2>2, <2>3
<1> HIDE DEF last
<1>7. Standing(s, Offer(s).evidence)
  BY <1>4, <1>5, <1>6 DEF Standing
<1>8. ASSUME NEW level, Standing(s, level) PROVE level = Offer(s).evidence
  <2>1. PICK i \in DOMAIN card : /\ card[i].service = s /\ card[i].evidence = level
                                 /\ \A j \in DOMAIN card : j > i => card[j].service # s
    BY <1>8 DEF Standing
  <2>2. i \in OffersOf(s) /\ ~(last > i)
    BY <1>4, <2>1 DEF OffersOf
  <2>3. i = last
    BY <1>1, <1>2, <1>3, <1>4, <2>2
  <2> QED
    BY <1>5, <2>1, <2>3
<1> QED
  BY <1>5, <1>7, <1>8

LEMMA StandingIsOffered ==
  ASSUME NEW s, NEW level, Standing(s, level) PROVE OffersOf(s) # {}
BY DEF Standing, OffersOf

\* What a requirement names: its service, then its substitutes.
LEMMA NamedServices ==
  ASSUME RecordsTypeOK, NEW i \in DOMAIN request, NEW r, r = request[i]
  PROVE  /\ r \in Requirements /\ AskedFor(r) \in Seq(OfferedServices)
         /\ Len(AskedFor(r)) \in Nat /\ DOMAIN AskedFor(r) = 1..Len(AskedFor(r))
         /\ CallersOrder(r) = AskedFor(r)
<1>1. r \in Requirements
  BY ElementOfSeq, LenProperties DEF RecordsTypeOK
<1>2. r.service \in OfferedServices /\ r.substitutes \in Seq(OfferedServices)
  <2>1. r.service \in OfferedServices /\ r.substitutes \in SeqOf(OfferedServices, MaxSubstitutes)
    BY <1>1 DEF Requirements, BoundedSeq
  <2>2. PICK m \in 0..MaxSubstitutes : r.substitutes \in [1..m -> OfferedServices]
    BY <2>1 DEF SeqOf
  <2>3. m \in Nat
    BY RecordsAssumption
  <2> QED
    BY <2>1, <2>2, <2>3, SeqDef
<1>3. <<r.service>> \in Seq(OfferedServices)
  BY <1>2
<1>4. AskedFor(r) \in Seq(OfferedServices)
  BY <1>2, <1>3, ConcatProperties DEF AskedFor
<1>5. DOMAIN AskedFor(r) = 1..Len(AskedFor(r)) /\ Len(AskedFor(r)) \in Nat
  BY <1>4, LenProperties
<1>6. CallersOrder(r) = AskedFor(r)
  <2>1. CallersOrder(r) = <<r.service>> \o r.substitutes
    BY DEF CallersOrder
  <2>2. AskedFor(r) = <<r.service>> \o r.substitutes
    BY DEF AskedFor
  <2> QED
    BY <2>1, <2>2
<1> QED
  BY <1>1, <1>4, <1>5, <1>6

\* A place of the requirement is usable exactly when its service can serve.
LEMMA ServesWhatIsUsable ==
  ASSUME RecordsTypeOK, NEW i \in DOMAIN request, NEW r, r = request[i]
  PROVE  /\ \A k \in DOMAIN CallersOrder(r) : Serves(CallersOrder(r)[k], r) <=> k \in Usable(r)
         /\ Usable(r) \subseteq DOMAIN CallersOrder(r)
         /\ CanServe(r) <=> Usable(r) # {}
<1>1. CallersOrder(r) = AskedFor(r)
  BY NamedServices
<1>2. ASSUME NEW k \in Usable(r) PROVE k \in DOMAIN AskedFor(r) /\ Serves(AskedFor(r)[k], r)
  <2>1. k \in DOMAIN AskedFor(r) /\ OffersOf(AskedFor(r)[k]) # {} /\ Enough(AskedFor(r)[k], r)
    BY DEF Usable, Candidates
  <2>2. /\ Offer(AskedFor(r)[k]).evidence \in Levels
        /\ Standing(AskedFor(r)[k], Offer(AskedFor(r)[k]).evidence)
    BY <2>1, LastOfferStands
  <2> QED
    BY <2>1, <2>2 DEF Serves, Enough
<1>3. ASSUME NEW k \in DOMAIN AskedFor(r), Serves(AskedFor(r)[k], r) PROVE k \in Usable(r)
  <2>1. PICK level \in Levels : level >= r.minimum /\ Standing(AskedFor(r)[k], level)
    BY <1>3 DEF Serves
  <2>2. OffersOf(AskedFor(r)[k]) # {}
    BY <2>1, StandingIsOffered
  <2>3. Offer(AskedFor(r)[k]).evidence = level
    BY <2>1, <2>2, LastOfferStands
  <2> QED
    BY <2>1, <2>2, <2>3 DEF Usable, Candidates, Enough
<1>4. CanServe(r) <=> Usable(r) # {}
  BY <1>1, <1>2, <1>3 DEF CanServe
<1>5. \A k \in DOMAIN CallersOrder(r) : Serves(CallersOrder(r)[k], r) <=> k \in Usable(r)
  BY <1>1, <1>2, <1>3
<1>6. Usable(r) \subseteq DOMAIN CallersOrder(r)
  BY <1>1, <1>2
<1> QED
  BY <1>4, <1>5, <1>6

\* What a requirement is bound to is the first of its order that can serve.
LEMMA BindingIsAsAsked ==
  ASSUME RecordsTypeOK, NEW i \in DOMAIN request, Usable(request[i]) # {}
  PROVE  BoundAsAsked(Binding(request[i]), request[i])
<1> DEFINE r == request[i]
           k == Min(Usable(r))
           s == AskedFor(r)[k]
<1>1. Len(AskedFor(r)) \in Nat /\ DOMAIN AskedFor(r) = 1..Len(AskedFor(r)) /\ CallersOrder(r) = AskedFor(r)
  BY NamedServices
<1>2. Usable(r) \in SUBSET Nat
  BY <1>1 DEF Usable, Candidates
<1>3. k \in Usable(r) /\ \A u \in Usable(r) : k <= u
  BY <1>2, MinNat
<1>4. OffersOf(s) # {} /\ Enough(s, r)
  BY <1>3 DEF Usable, Candidates
<1>5. k \in DOMAIN CallersOrder(r) /\ s = CallersOrder(r)[k]
  BY <1>1, <1>3 DEF Usable, Candidates
<1>6. Standing(s, Offer(s).evidence) /\ Offer(s).evidence >= r.minimum
  BY <1>4, LastOfferStands DEF Enough
<1>7. /\ Binding(r).requested = r.service /\ Binding(r).bound = s
      /\ Binding(r).evidence = Offer(s).evidence
  BY DEF Binding
<1>8. ASSUME NEW j \in DOMAIN CallersOrder(r), j < k PROVE ~Serves(CallersOrder(r)[j], r)
  <2> SUFFICES ASSUME Serves(CallersOrder(r)[j], r) PROVE FALSE
    OBVIOUS
  <2>1. j \in Usable(r)
    BY ServesWhatIsUsable
  <2>2. k <= j /\ j \in Nat /\ k \in Nat
    BY <1>2, <1>3, <2>1
  <2> HIDE DEF k
  <2> QED
    BY <1>8, <2>2
<1> HIDE DEF k, s
<1> QED
  BY <1>5, <1>6, <1>7, <1>8 DEF BoundAsAsked

LEMMA ResolutionSound == RecordsTypeOK => ResolutionIsSound
<1> SUFFICES ASSUME RecordsTypeOK PROVE ResolutionIsSound
  OBVIOUS
<1>1. Len(request) \in Nat /\ DOMAIN request = 1..Len(request)
  BY LenProperties DEF RecordsTypeOK
<1>2. \A i \in DOMAIN request : CanServe(request[i]) <=> i \in Served
  BY ServesWhatIsUsable DEF Served
<1>3. CASE RefusedAt = {}
  <2>1. Resolution.refused = "none" /\ Resolution.bindings = Bindings
    BY <1>3 DEF Resolution
  <2>2. DOMAIN Bindings = Served /\ Served \subseteq DOMAIN request
    BY DEF Bindings, Served
  <2>3. \A i \in Served : BoundAsAsked(Bindings[i], request[i])
    BY BindingIsAsAsked DEF Bindings, Served
  <2>4. \A i \in DOMAIN request : i \notin Served => request[i].optional
    BY <1>3 DEF RefusedAt
  <2>5. DOMAIN Bindings = {i \in DOMAIN request : CanServe(request[i])}
    BY <1>2, <2>2
  <2> QED
    BY <1>2, <2>1, <2>3, <2>4, <2>5 DEF ResolutionIsSound
<1>4. CASE RefusedAt # {}
  <2> DEFINE at == Min(RefusedAt)
  <2>1. RefusedAt \in SUBSET Nat
    BY <1>1 DEF RefusedAt
  <2>2. at \in RefusedAt /\ \A j \in RefusedAt : at <= j
    BY <1>4, <2>1, MinNat
  <2>3. at \in DOMAIN request /\ at \notin Served /\ ~request[at].optional
    BY <2>2 DEF RefusedAt
  <2>4. request[at].service \in OfferedServices
    BY <2>3, NamedServices DEF Requirements
  <2>5. Resolution.refused = request[at].service /\ Resolution.bindings = <<>>
    BY <1>4 DEF Resolution
  <2>6. \A j \in DOMAIN request : j < at => request[j].optional \/ j \in Served
    <3> SUFFICES ASSUME NEW j \in DOMAIN request, j < at, ~request[j].optional, j \notin Served
                 PROVE  FALSE
      OBVIOUS
    <3>1. j \in RefusedAt
      BY DEF RefusedAt
    <3>2. at <= j
      BY <2>2, <3>1
    <3>3. j \in Nat /\ at \in Nat
      BY <2>1, <2>2, <3>1
    <3> HIDE DEF at
    <3> QED
      BY <3>2, <3>3
  <2> HIDE DEF at
  <2>7. Resolution.refused # "none"
    BY <2>4, <2>5, RecordsAssumption
  <2> QED
    BY <1>2, <2>3, <2>5, <2>6, <2>7 DEF ResolutionIsSound
<1> QED
  BY <1>3, <1>4

\* A bundle holds the artifact and the card of the attestation it cites.
BundlesCite ==
  \A b \in bundles :
    /\ b.evidence \in DOMAIN attestations
    /\ attestations[b.evidence] = [artifact |-> b.artifact, card |-> b.card]

LEMMA BundlesStillCite ==
  RecordsTypeOK /\ BundlesCite /\ [RecordsNext]_recordVars => BundlesCite'
<1> SUFFICES ASSUME RecordsTypeOK, BundlesCite, [RecordsNext]_recordVars PROVE BundlesCite'
  OBVIOUS
<1> DEFINE A == [artifact : 1..MaxBuilds, card : Seq(ServiceOffers)]
<1>1. attestations \in Seq(A) /\ DOMAIN attestations = 1..Len(attestations)
      /\ Len(attestations) \in Nat
  BY LenProperties DEF RecordsTypeOK
<1>2. CASE UNCHANGED <<attestations, bundles>>
  BY <1>2 DEF BundlesCite
<1>3. CASE Attest
  <2>1. [artifact |-> artifact, card |-> card] \in A
    BY DEF RecordsTypeOK
  <2> HIDE DEF A
  <2>2. attestations' = Append(attestations, [artifact |-> artifact, card |-> card])
        /\ bundles' = bundles
    BY <1>3 DEF Attest
  <2>3. /\ attestations' \in Seq(A) /\ Len(attestations') = Len(attestations) + 1
        /\ \A n \in 1..Len(attestations) : attestations'[n] = attestations[n]
    BY <1>1, <2>1, <2>2, AppendProperties
  <2>4. DOMAIN attestations \subseteq DOMAIN attestations'
    BY <1>1, <2>3, LenProperties
  <2> QED
    BY <1>1, <2>2, <2>3, <2>4 DEF BundlesCite
<1>4. ASSUME NEW given \in SUBSET DOMAIN attestations, NEW required \in SUBSET OfferedServices,
             ComposeBundle(given, required)
      PROVE  BundlesCite'
  <2>1. PICK n \in DOMAIN attestations :
          /\ Evidenced(attestations[n])
          /\ bundles' = bundles \union {[card |-> card, artifact |-> artifact, evidence |-> n]}
    BY <1>4 DEF ComposeBundle
  <2>2. attestations[n] \in A
    BY <1>1, ElementOfSeq
  <2>3. attestations[n] = [artifact |-> artifact, card |-> card]
    BY <2>1, <2>2 DEF Evidenced
  <2>4. attestations' = attestations
    BY <1>4 DEF ComposeBundle
  <2> DEFINE new == [card |-> card, artifact |-> artifact, evidence |-> n]
  <2>5. new.evidence = n /\ new.artifact = artifact /\ new.card = card
    OBVIOUS
  <2>6. bundles' = bundles \union {new}
    BY <2>1
  <2> HIDE DEF new
  <2>7. ASSUME NEW b \in bundles'
        PROVE  /\ b.evidence \in DOMAIN attestations
               /\ attestations[b.evidence] = [artifact |-> b.artifact, card |-> b.card]
    <3>1. CASE b \in bundles
      BY <3>1 DEF BundlesCite
    <3>2. CASE b = new
      BY <2>3, <2>5, <3>2
    <3> QED
      BY <2>6, <2>7, <3>1, <3>2
  <2> QED
    BY <2>4, <2>7 DEF BundlesCite
<1> QED
  BY <1>2, <1>3, <1>4
  DEF RecordsNext, recordVars, AddOffer, AddRequirement, Build

\* A bundle's place of evidence still holds what it was composed from.
LEMMA BundlesAreCited == RecordsSpec => []BundlesCite
<1>1. RecordsInit => BundlesCite
  BY DEF RecordsInit, BundlesCite
<1> QED
  BY <1>1, BundlesStillCite, RecordsTypes, PTL DEF RecordsSpec

\* Every requirement is bound to the first service of the caller's order that a
\* standing offer can serve, or the request is refused at the first that none can
\* (platform_require).
THEOREM RequestsAreResolved == RecordsSpec => []ResolutionIsSound
<1> QED
  BY RecordsTypes, ResolutionSound, PTL

\* Whatever is offered, built and attested afterwards, the support matrix cites
\* evidence of the artifact it shows and of a card that had the service.
THEOREM SupportStaysAttested == RecordsSpec => []SupportIsAttested
<1>1. BundlesCite => SupportIsAttested
  <2> SUFFICES ASSUME BundlesCite, NEW row \in SupportMatrix
               PROVE  /\ row.evidence \in DOMAIN attestations
                      /\ attestations[row.evidence].artifact = row.artifact
                      /\ \E i \in DOMAIN attestations[row.evidence].card :
                           attestations[row.evidence].card[i].service = row.service
    BY DEF SupportIsAttested
  <2>1. PICK b \in bundles : \E i \in DOMAIN b.card :
          row = [service |-> b.card[i].service, artifact |-> b.artifact, evidence |-> b.evidence]
    BY DEF SupportMatrix
  <2>2. PICK i \in DOMAIN b.card :
          row = [service |-> b.card[i].service, artifact |-> b.artifact, evidence |-> b.evidence]
    BY <2>1
  <2>3. row.service = b.card[i].service /\ row.artifact = b.artifact /\ row.evidence = b.evidence
    BY <2>2
  <2>4. /\ b.evidence \in DOMAIN attestations
        /\ attestations[b.evidence] = [artifact |-> b.artifact, card |-> b.card]
    BY DEF BundlesCite
  <2>5. /\ attestations[b.evidence].artifact = b.artifact
        /\ attestations[b.evidence].card = b.card
    BY <2>4
  <2> QED
    BY <2>3, <2>4, <2>5
<1> QED
  BY <1>1, BundlesAreCited, PTL

-----------------------------------------------------------------------------
(* The hosts together. The step of one host is a step of its component and  *)
(* a stutter of every other, so that each component keeps to its own        *)
(* specification whichever host the device is.                              *)

LEMMA HostsStart ==
  HostsInit =>
    /\ host \in HostKinds
    /\ BrowserInit /\ AndroidInit /\ IosInit /\ VitureInit /\ DesktopInit
    /\ MountInit /\ MediaInit /\ SimInit /\ ScriptInit /\ BootInit /\ RecordsInit
BY DEF HostsInit

LEMMA HostsStep ==
  ASSUME [HostsNext]_hostsVars
  PROVE  /\ UNCHANGED host
         /\ [BrowserNext]_browserVars
         /\ [AndroidNext]_androidVars
         /\ [IosNext]_iosVars
         /\ [VitureNext]_vitureVars
         /\ [DesktopNext]_desktopVars
         /\ [MountNext]_mountVars
         /\ [MediaNext]_mediaVars
         /\ [SimNext]_simVars
         /\ [ScriptNext]_scriptVars
         /\ [BootNext]_bootVars
         /\ [RecordsNext]_recordVars
<1>1. CASE /\ host = "browser" /\ BrowserNext
             /\ UNCHANGED <<host, androidVars, iosVars, vitureVars,
                           desktopVars, mountVars, mediaVars, simVars,
                           scriptVars, bootVars, recordVars>>
  BY <1>1
<1>2. CASE /\ host = "android" /\ AndroidNext
             /\ UNCHANGED <<host, browserVars, iosVars, vitureVars,
                           desktopVars, mountVars, mediaVars, simVars,
                           scriptVars, bootVars, recordVars>>
  BY <1>2
<1>3. CASE /\ host = "ios" /\ IosNext
             /\ UNCHANGED <<host, browserVars, androidVars, vitureVars,
                           desktopVars, mountVars, mediaVars, simVars,
                           scriptVars, bootVars, recordVars>>
  BY <1>3
<1>4. CASE /\ host = "glasses" /\ VitureNext
             /\ UNCHANGED <<host, browserVars, androidVars, iosVars,
                           desktopVars, mountVars, mediaVars, simVars,
                           scriptVars, bootVars, recordVars>>
  BY <1>4
<1>5. CASE /\ host = "desktop" /\ DesktopNext
             /\ UNCHANGED <<host, browserVars, androidVars, iosVars,
                           vitureVars, mountVars, mediaVars, simVars,
                           scriptVars, bootVars, recordVars>>
  BY <1>5
<1>6. CASE /\ host = "mount" /\ MountNext
             /\ UNCHANGED <<host, browserVars, androidVars, iosVars,
                           vitureVars, desktopVars, mediaVars, simVars,
                           scriptVars, bootVars, recordVars>>
  BY <1>6
<1>7. CASE /\ host = "media" /\ MediaNext
             /\ UNCHANGED <<host, browserVars, androidVars, iosVars,
                           vitureVars, desktopVars, mountVars, simVars,
                           scriptVars, bootVars, recordVars>>
  BY <1>7
<1>8. CASE /\ host = "seeded" /\ SimNext
             /\ UNCHANGED <<host, browserVars, androidVars, iosVars,
                           vitureVars, desktopVars, mountVars, mediaVars,
                           scriptVars, bootVars, recordVars>>
  BY <1>8
<1>9. CASE /\ host = "scripted" /\ ScriptNext
             /\ UNCHANGED <<host, browserVars, androidVars, iosVars,
                           vitureVars, desktopVars, mountVars, mediaVars,
                           simVars, bootVars, recordVars>>
  BY <1>9
<1>10. CASE /\ host = "boot" /\ BootNext
             /\ UNCHANGED <<host, browserVars, androidVars, iosVars,
                           vitureVars, desktopVars, mountVars, mediaVars,
                           simVars, scriptVars, recordVars>>
  BY <1>10
<1>11. CASE /\ host = "build" /\ RecordsNext
             /\ UNCHANGED <<host, browserVars, androidVars, iosVars,
                           vitureVars, desktopVars, mountVars, mediaVars,
                           simVars, scriptVars, bootVars>>
  BY <1>11
<1>12. CASE UNCHANGED hostsVars
  BY <1>12 DEF hostsVars
<1> QED
  BY <1>1, <1>2, <1>3, <1>4, <1>5, <1>6, <1>7, <1>8, <1>9, <1>10, <1>11, <1>12
  DEF HostsNext

\* Whatever host the device is, each component keeps to its specification.
THEOREM HostsKeepToTheirParts ==
  HostsSpec =>
    /\ [](host \in HostKinds)
    /\ BrowserSpec /\ AndroidSpec /\ IosSpec /\ VitureSpec /\ DesktopSpec
    /\ MountSpec /\ MediaSpec /\ SimSpec /\ ScriptSpec /\ BootSpec /\ RecordsSpec
<1>1. host \in HostKinds /\ UNCHANGED host => (host \in HostKinds)'
  OBVIOUS
<1> QED
  BY <1>1, HostsStart, HostsStep, PTL
  DEF HostsSpec, BrowserSpec, AndroidSpec, IosSpec, VitureSpec, DesktopSpec, MountSpec,
      MediaSpec, SimSpec, ScriptSpec, BootSpec, RecordsSpec

\* The state of every host keeps its type.
THEOREM HostsTypes == HostsSpec => []HostsTypeOK
<1>1. /\ host \in HostKinds
      /\ BrowserTypeOK /\ AndroidTypeOK /\ IosTypeOK /\ VitureTypeOK /\ DesktopTypeOK
      /\ MountTypeOK /\ MediaTypeOK /\ SimTypeOK /\ ScriptTypeOK /\ BootTypeOK /\ RecordsTypeOK
      => HostsTypeOK
  BY DEF HostsTypeOK
<1> QED
  BY <1>1, HostsKeepToTheirParts, BrowserTypes, AndroidTypes, IosTypes, VitureTypes,
     DesktopTypes, MountInvariant, MediaTypes, SimTypes, ScriptTypes, BootTypes,
     RecordsTypes, PTL

\* What the page, the activity and the scene hold after a suspension they were given
\* after it; a desktop capsule keeps its surface and process tree untouched, and what
\* was used up or cut off before is not given back.
THEOREM HostsRespectSuspension == HostsSpec => []SuspensionIsRespected
<1>1. BrowserForgets /\ AndroidForgets /\ IosForgets /\ DesktopSuspends
      => SuspensionIsRespected
  BY DEF SuspensionIsRespected
<1> QED
  BY <1>1, HostsKeepToTheirParts, BrowserForgetsSuspended, ActivityForgets, SceneForgets,
     DesktopsSuspend, PTL

\* What a session holds of its device is held while the session is, on either side
\* of the boundary, but for the paths named where the other side is not told.
THEOREM SessionsHoldResources == HostsSpec => []ResourcesFollowSessions
<1>1. AndroidAgrees /\ IosAgrees /\ VitureAgrees /\ DesktopAgrees => ResourcesFollowSessions
  BY DEF ResourcesFollowSessions
<1> QED
  BY <1>1, HostsKeepToTheirParts, ActivityAndCapsuleAgree, SceneAndCapsuleAgree,
     GlassesFollowSessions, DesktopsCleanUpOnce, PTL

\* Handles, files and events are not lost, but on the paths that lose them by name.
THEOREM NothingGoesAstray == HostsSpec => []NothingIsLost
<1>1. OpenHandlesAreKnown /\ MountKeepsTrack /\ MediaDeliverOnce => NothingIsLost
  BY DEF NothingIsLost
<1> QED
  BY <1>1, HostsKeepToTheirParts, OpenHandlesKnown, MountLosesNothing, MediaLosesNothing, PTL

\* An executable loads the artifact its descriptor and its card verified, or one that
\* was put in its place after it was read for its digest: that one is not verified.
THEOREM HostsLoadVerified == HostsSpec => []OnlyVerifiedLoads
<1> QED
  BY HostsKeepToTheirParts, LoadsAreVerified, PTL

\* Requests are bound in the caller's order to standing offers, support is shown on
\* evidence of its artifact, seeded replies replay, and scripted runs are answered in
\* order, whole or said to be cut.
THEOREM HostsRecordsSound == HostsSpec => []RecordsAreSound
<1>1. ResolutionIsSound /\ SupportIsAttested /\ RepliesReplay /\ ScriptIsFollowed
      => RecordsAreSound
  BY DEF RecordsAreSound
<1> QED
  BY <1>1, HostsKeepToTheirParts, RequestsAreResolved, SupportStaysAttested,
     SeededRepliesReplay, ScriptsAreFollowed, PTL
=============================================================================
