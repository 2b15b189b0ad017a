-------------------------- MODULE PlatformRecords --------------------------
(* Cards, requests and bundles: a provider adds offers to its card, an      *)
(* application builds a request, a build makes artifacts and has a card     *)
(* attested. What platform_require and compose_bundle answer is a function  *)
(* of these records; a digest stands for what it is made of.                *)
EXTENDS Naturals, Sequences, SequencesExt, FiniteSetsExt

CONSTANTS
  OfferedServices,  \* services a card may offer
  Levels,           \* evidence levels, in their order
  MaxSubstitutes,   \* bound: substitutes of a requirement
  MaxOffers,        \* bound: offers of the card
  MaxRequirements,  \* bound: requirements of the request
  MaxBuilds,        \* bound: artifacts built, and attestations
  MaxRecords        \* bound: all of these together

\* "none" is what a resolution refuses that refuses nothing.
ASSUME RecordsAssumption ==
  /\ Levels \subseteq Nat /\ "none" \notin OfferedServices
  /\ MaxSubstitutes \in Nat /\ MaxBuilds \in Nat /\ MaxBuilds > 0

VARIABLES
  card,          \* offers of the capsule's card, in their order
  request,       \* requirements, in their order
  artifact,      \* number of the artifact that was built last
  attestations,  \* attestations of the capsule, in their order
  bundles        \* bundles that were composed, each with its place of evidence

recordVars == <<card, request, artifact, attestations, bundles>>

ServiceOffers == [service : OfferedServices, evidence : Levels]
Requirements ==
  [service : OfferedServices, substitutes : BoundedSeq(OfferedServices, MaxSubstitutes),
   optional : BOOLEAN, minimum : Levels]

RecordsInit ==
  card = <<>> /\ request = <<>> /\ artifact = 1 /\ attestations = <<>> /\ bundles = {}

AddOffer(offer) ==
  /\ Len(card) < MaxOffers /\ card' = Append(card, offer)
  /\ UNCHANGED <<request, artifact, attestations, bundles>>

\* The builder appends; records that are read may hold any requirement.
AddRequirement(requirement) ==
  /\ Len(request) < MaxRequirements /\ request' = Append(request, requirement)
  /\ UNCHANGED <<card, artifact, attestations, bundles>>

Build ==
  /\ artifact < MaxBuilds /\ artifact' = artifact + 1
  /\ UNCHANGED <<card, request, attestations, bundles>>
Attest ==
  /\ Len(attestations) < MaxBuilds
  /\ attestations' = Append(attestations, [artifact |-> artifact, card |-> card])
  /\ UNCHANGED <<card, request, artifact, bundles>>

-----------------------------------------------------------------------------
(* platform_require. Of several offers of a service the last one counts.    *)

OffersOf(s) == {i \in DOMAIN card : card[i].service = s}
\* Faults: the first offer counts; the substitutes are tried first; the card
\* is not compared.
FirstOffer(s) == card[Min(OffersOf(s))]
Offer(s) == card[Max(OffersOf(s))]

FromTheBack(r) == r.substitutes \o <<r.service>>

\* Requested service first, then the substitutes in the caller's order; what
\* can serve is told by its place in that order.
AskedFor(r) == <<r.service>> \o r.substitutes
Candidates(r) == {i \in DOMAIN AskedFor(r) : OffersOf(AskedFor(r)[i]) # {}}
Enough(s, r) == Offer(s).evidence >= r.minimum
Usable(r) == {i \in Candidates(r) : Enough(AskedFor(r)[i], r)}
Binding(r) ==
  LET s == AskedFor(r)[Min(Usable(r))] IN
  [requested |-> r.service, bound |-> s, evidence |-> Offer(s).evidence]

\* The bindings, each at the place of its requirement in the request.
Served == {i \in DOMAIN request : Usable(request[i]) # {}}
Bindings == [i \in Served |-> Binding(request[i])]
RefusedAt == {i \in DOMAIN request \ Served : ~request[i].optional}
Resolution ==
  IF RefusedAt # {}
    THEN LET r == request[Min(RefusedAt)] IN
         [refused |-> r.service, weak |-> Candidates(r) # {}, bindings |-> <<>>]
    ELSE [refused |-> "none", weak |-> FALSE, bindings |-> Bindings]

(* compose_bundle, given some of the attestations: it takes one, of this    *)
(* artifact and this card, and a card that offers what is required. What it *)
(* answers is kept, whatever becomes of the card and the artifact.          *)
EvidencedArtifact(a) == a.artifact = artifact
Evidenced(a) == a.artifact = artifact /\ a.card = card
ComposeBundle(given, required) ==
  /\ \A s \in required : OffersOf(s) # {}
  /\ \E n \in DOMAIN attestations :
       /\ given = {n} /\ Evidenced(attestations[n])
       /\ bundles' = bundles \union {[card |-> card, artifact |-> artifact, evidence |-> n]}
  /\ UNCHANGED <<card, request, artifact, attestations>>

\* platform_support_matrix: a row for each offer of each bundle.
SupportMatrix ==
  UNION {{[service |-> b.card[i].service, artifact |-> b.artifact, evidence |-> b.evidence] :
          i \in DOMAIN b.card} : b \in bundles}

Records == Len(card) + Len(request) + artifact + Len(attestations)
RecordsNext ==
  \/ /\ Records < MaxRecords
     /\ \/ \E offer \in ServiceOffers : AddOffer(offer)
        \/ \E requirement \in Requirements : AddRequirement(requirement)
        \/ Build \/ Attest
  \/ \E given \in SUBSET DOMAIN attestations, required \in SUBSET OfferedServices :
       ComposeBundle(given, required)

RecordsSpec == RecordsInit /\ [][RecordsNext]_recordVars

-----------------------------------------------------------------------------
RecordsTypeOK ==
  /\ card \in Seq(ServiceOffers) /\ request \in Seq(Requirements)
  /\ artifact \in 1..MaxBuilds
  /\ attestations \in Seq([artifact : 1..MaxBuilds, card : Seq(ServiceOffers)])
  /\ Len(attestations) <= MaxBuilds
  /\ bundles \subseteq [card : Seq(ServiceOffers), artifact : 1..MaxBuilds, evidence : Nat]

(* A resolution is complete and binds nothing but what the card offers at   *)
(* the level that was asked for: a requirement is bound if and only if one  *)
(* of the services it names has a standing offer that is good enough, and   *)
(* to the first of them in the caller's order: the requested one, then each *)
(* substitute. Where none has, the requirement is optional, or nothing at   *)
(* all is bound and the first such requirement is refused. A stronger offer *)
(* that a later one of the same service replaced does not count.            *)
Standing(s, level) ==
  \E i \in DOMAIN card :
    /\ card[i].service = s /\ card[i].evidence = level
    /\ \A j \in DOMAIN card : j > i => card[j].service # s
CallersOrder(r) == <<r.service>> \o r.substitutes
Serves(s, r) == \E level \in Levels : level >= r.minimum /\ Standing(s, level)
CanServe(r) == \E i \in DOMAIN CallersOrder(r) : Serves(CallersOrder(r)[i], r)
BoundAsAsked(binding, r) ==
  /\ binding.requested = r.service
  /\ Standing(binding.bound, binding.evidence) /\ binding.evidence >= r.minimum
  /\ \E i \in DOMAIN CallersOrder(r) :
       /\ binding.bound = CallersOrder(r)[i]
       /\ \A j \in DOMAIN CallersOrder(r) : j < i => ~Serves(CallersOrder(r)[j], r)
ResolutionIsSound ==
  LET bound == Resolution.bindings IN
  IF Resolution.refused = "none"
    THEN /\ DOMAIN bound = {i \in DOMAIN request : CanServe(request[i])}
         /\ \A i \in DOMAIN request :
              IF CanServe(request[i])
                THEN BoundAsAsked(bound[i], request[i])
                ELSE request[i].optional
    ELSE /\ bound = <<>>
         /\ \E i \in DOMAIN request :
              /\ request[i].service = Resolution.refused
              /\ ~request[i].optional /\ ~CanServe(request[i])
              /\ \A j \in DOMAIN request : j < i => request[j].optional \/ CanServe(request[j])

(* Whatever is offered, built and attested before and after a bundle is     *)
(* composed, a row of the support matrix cites execution evidence of the    *)
(* artifact in its bundle, and of a card that offered the service when the  *)
(* attesting build ran: no service is shown as supported on the evidence of *)
(* another artifact, or of a card that did not have it yet.                 *)
SupportIsAttested ==
  \A row \in SupportMatrix :
    /\ row.evidence \in DOMAIN attestations
    /\ LET a == attestations[row.evidence] IN
       /\ a.artifact = row.artifact
       /\ \E i \in DOMAIN a.card : a.card[i].service = row.service
=============================================================================
