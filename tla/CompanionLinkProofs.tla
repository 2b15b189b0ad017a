-------------------------- MODULE CompanionLinkProofs --------------------------
(***************************************************************************)
(* Theorems about CompanionLink, for any messages, sessions and bounds.    *)
(***************************************************************************)
EXTENDS CompanionLink, SequenceTheorems, TLAPS

States == {"Created", "Active", "Suspended", "Destroyed"}

\* A connection stands on consent and a life that allows it, and is one of a
\* session that peers use.
Standing ==
  connected => /\ consent /\ lifecycle \notin {"Suspended", "Destroyed"}
               /\ session \in Sessions

\* What is collected is the beginning of one message, never the whole of it.
Beginning ==
  /\ assembly = NoMessage => payload = <<>> /\ bytes = 0
  /\ assembly # NoMessage =>
       /\ Len(payload) < Count(assembly)
       /\ \A k \in 1 .. Len(payload) : payload[k] = <<assembly, k>>

\* Without a connection nothing waits and nothing was seen.
NothingLeft == ~connected => pending = <<>> /\ seen = {}

\* What waits for the consumer are whole messages of the open session.
PendingWhole ==
  \A k \in 1 .. Len(pending) :
    \E m \in delivered : pending[k] = Pieces(m) /\ Session(m) = session

\* Unless a session number came back, whatever was accepted in this session is
\* remembered.
SeenRemembers ==
  ~reused =>
    /\ ~repeated
    /\ connected =>
         \A m \in delivered : Session(m) = session => Sequence(m) \in seen

IInv ==
  TypeOK /\ Standing /\ Beginning /\ NothingLeft /\ PendingWhole /\ SeenRemembers

\* The capsule as it is made satisfies the invariant.
LEMMA InitIInv == Init => IInv
<1> SUFFICES ASSUME Init PROVE IInv
  OBVIOUS
<1>1. TypeOK
  <2>1. run \in [of : Messages \cup {NoMessage}, upto : Nat]
    BY DEF Init, NoRun
  <2>2. payload \in Seq(Fragments) /\ pending \in Seq(Seq(Fragments)) /\ Len(pending) = 0
    BY DEF Init
  <2>3. bytes \in 0 .. MaxMessageBytes /\ Len(pending) <= MaxPending
    BY <2>2, CompanionAssumption DEF Init
  <2> QED
    BY <2>1, <2>2, <2>3 DEF Init, TypeOK
<1> QED
  BY <1>1 DEF Init, IInv, Standing, Beginning, NothingLeft, PendingWhole, SeenRemembers

\* A message has a session, a sequence number and fragments.
LEMMA MessageFields ==
  ASSUME NEW m \in Messages
  PROVE  /\ Session(m) \in Sessions /\ Sequence(m) \in Sequences
         /\ Count(m) \in Nat \ {0} /\ m # NoMessage
         /\ \A i \in 1 .. Count(m) : /\ LengthsOf[m][i] \in Nat
                                     /\ <<m, i>> \in Fragments
         /\ Pieces(m) \in Seq(Fragments)
<1>1. /\ Count(m) \in Nat \ {0} /\ m # NoMessage
      /\ LengthsOf[m] \in [1 .. Count(m) -> Nat]
  BY CompanionAssumption
<1>2. \A i \in 1 .. Count(m) : <<m, i>> \in Fragments
  BY DEF Fragments
<1>3. Pieces(m) \in [1 .. Count(m) -> Fragments]
  BY <1>2 DEF Pieces
<1> QED
  BY <1>1, <1>2, <1>3 DEF Sessions, Sequences

\* Equal headers are headers of one message.
LEMMA SameHeader ==
  ASSUME NEW m \in Messages, NEW n \in Messages, HeaderOf[m] = HeaderOf[n]
  PROVE  m = n
BY CompanionAssumption DEF Session, Sequence

\* An expected fragment is the next one of the message that is assembled.
LEMMA ExpectedNext ==
  ASSUME IInv, NEW m \in Messages, NEW i \in 1 .. Count(m), Expected(m, i)
  PROVE  /\ Assembling(m, i) = m
         /\ Collected(i) \in Seq(Fragments) /\ Len(Collected(i)) + 1 = i
         /\ \A k \in 1 .. Len(Collected(i)) : Collected(i)[k] = <<m, k>>
         /\ Size(i) \in Nat /\ SizeWith(m, i) \in Nat
         /\ PayloadWith(m, i) \in Seq(Fragments)
         /\ Len(PayloadWith(m, i)) = i
         /\ \A k \in 1 .. i : PayloadWith(m, i)[k] = <<m, k>>
<1>1. Count(m) \in Nat \ {0} /\ LengthsOf[m][i] \in Nat /\ <<m, i>> \in Fragments
  BY MessageFields
<1>2. /\ assembly \in Messages \cup {NoMessage} /\ payload \in Seq(Fragments)
      /\ bytes \in Nat
  BY CompanionAssumption DEF IInv, TypeOK
<1>3. Assembling(m, i) = m
  BY <1>2, SameHeader DEF Expected, Assembling
<1>4. Collected(i) \in Seq(Fragments) /\ Len(Collected(i)) + 1 = i
  BY <1>2 DEF Collected, Expected
<1>5. \A k \in 1 .. Len(Collected(i)) : Collected(i)[k] = <<m, k>>
  <2>1. CASE Restarts(i)
    BY <2>1 DEF Collected
  <2>2. CASE ~Restarts(i)
    <3>1. assembly = m
      BY <2>2, <1>3 DEF Assembling
    <3> QED
      BY <2>2, <3>1, MessageFields DEF IInv, Beginning, Collected
  <2> QED
    BY <2>1, <2>2
<1>6. Size(i) \in Nat /\ SizeWith(m, i) \in Nat
  BY <1>1, <1>2 DEF Size, SizeWith
<1>7. PayloadWith(m, i) \in Seq(Fragments) /\ Len(PayloadWith(m, i)) = i
  BY <1>1, <1>4 DEF PayloadWith
<1>8. \A k \in 1 .. i : PayloadWith(m, i)[k] = <<m, k>>
  <2> SUFFICES ASSUME NEW k \in 1 .. i PROVE PayloadWith(m, i)[k] = <<m, k>>
    OBVIOUS
  <2>1. CASE k = i
    BY <2>1, <1>1, <1>4 DEF PayloadWith
  <2>2. CASE k # i
    BY <2>2, <1>1, <1>4, <1>5 DEF PayloadWith
  <2> QED
    BY <2>1, <2>2
<1> QED
  BY <1>3, <1>4, <1>5, <1>6, <1>7, <1>8

\* What is handed over with the last fragment is the whole message.
LEMMA WholeWhenComplete ==
  ASSUME IInv, NEW m \in Messages, NEW i \in 1 .. Count(m),
         Expected(m, i), Complete(m, i)
  PROVE  PayloadWith(m, i) = Pieces(m)
<1>1. Count(m) \in Nat \ {0} /\ Pieces(m) \in Seq(Fragments)
  BY MessageFields
<1>2. i = Count(m)
  BY <1>1, ExpectedNext DEF Complete
<1>3. /\ PayloadWith(m, i) \in Seq(Fragments) /\ Len(PayloadWith(m, i)) = i
      /\ \A k \in 1 .. i : PayloadWith(m, i)[k] = <<m, k>>
  BY ExpectedNext
<1>4. Len(Pieces(m)) = Count(m) /\ \A k \in 1 .. Count(m) : Pieces(m)[k] = <<m, k>>
  BY <1>1 DEF Pieces
<1> QED
  BY <1>1, <1>2, <1>3, <1>4, SeqEqual

Kept == UNCHANGED <<pending, seen, delivered, repeated, reused, connected, session>>

\* A frame, whole or a fragment, accepts its message whole or changes nothing
\* the consumer or the replay detection can see.
LEMMA ReceiveAcceptsWhole ==
  ASSUME IInv, NEW m \in Messages,
         ReceiveFrame(m) \/ \E i \in 1 .. Count(m) : ReceiveFragment(m, i)
  PROVE  /\ UNCHANGED linkVars
         /\ Kept \/ (Fresh(m) /\ Room /\ Accept(m, Pieces(m)))
<1>1. CASE ReceiveFrame(m)
  BY <1>1 DEF ReceiveFrame, Kept
<1>2. ASSUME NEW i \in 1 .. Count(m), ReceiveFragment(m, i)
      PROVE  Kept \/ (Fresh(m) /\ Room /\ Accept(m, Pieces(m)))
  <2>1. CASE ~Fresh(m) \/ OutOfOrder(m, i) \/ Oversized(m, i) \/ Collect(m, i)
    BY <1>2, <2>1 DEF ReceiveFragment, OutOfOrder, Oversized, Collect, Kept
  <2>2. CASE Fresh(m) /\ Finish(m, i)
    BY <1>2, <2>2, WholeWhenComplete DEF ReceiveFragment, Finish, Kept
  <2> QED
    BY <1>2, <2>1, <2>2 DEF ReceiveFragment
<1>3. UNCHANGED linkVars
  BY DEF ReceiveFrame, ReceiveFragment
<1> QED
  BY <1>1, <1>2, <1>3

\* The types and the shape of what is being collected.
Parts ==
  /\ assembly \in Messages \cup {NoMessage}
  /\ payload \in Seq(Fragments) /\ bytes \in 0 .. MaxMessageBytes
  /\ Beginning

\* Nothing collected is a good beginning.
LEMMA DroppedParts == ASSUME DropAssembly PROVE Parts'
<1>1. payload' \in Seq(Fragments) /\ bytes' = 0 /\ assembly' = NoMessage
  BY DEF DropAssembly
<1>2. bytes' \in 0 .. MaxMessageBytes
  BY <1>1, CompanionAssumption
<1> QED
  BY <1>1, <1>2 DEF Parts, Beginning, DropAssembly

\* What is left alone stays a good beginning.
LEMMA SameParts == ASSUME IInv, UNCHANGED partVars PROVE Parts'
BY DEF IInv, TypeOK, Parts, Beginning, partVars

\* A fragment leaves a good beginning behind.
LEMMA ReceivedParts ==
  ASSUME IInv, NEW m \in Messages, NEW i \in 1 .. Count(m), ReceiveFragment(m, i)
  PROVE  Parts'
<1>1. CASE ~Fresh(m) \/ OutOfOrder(m, i)
  BY <1>1, SameParts DEF ReceiveFragment, OutOfOrder, Oversized, Collect, Finish
<1>2. CASE Fresh(m) /\ (Oversized(m, i) \/ Finish(m, i))
  BY <1>2, DroppedParts DEF Oversized, Finish
<1>3. CASE Fresh(m) /\ Collect(m, i)
  <2>1. /\ assembly' = m /\ payload' = PayloadWith(m, i) /\ bytes' = SizeWith(m, i)
        /\ bytes' \in 0 .. MaxMessageBytes
    BY <1>3, ExpectedNext, CompanionAssumption DEF Collect
  <2>2. Count(m) \in Nat \ {0} /\ m # NoMessage
    BY MessageFields
  <2>3. Len(payload') < Count(m)
    BY <1>3, <2>1, <2>2, ExpectedNext DEF Collect, Complete
  <2> QED
    BY <1>3, <2>1, <2>2, <2>3, ExpectedNext DEF Collect, Parts, Beginning
<1> QED
  BY <1>1, <1>2, <1>3 DEF ReceiveFragment

Host ==
  \/ \E state \in States : Lifecycle(state)
  \/ \E granted \in BOOLEAN : SetConsent(granted)
  \/ HostDisconnects

\* A step of the host cuts the connection or leaves it alone, and when it
\* leaves it alone, consent and life go on.
LEMMA HostCuts ==
  ASSUME IInv, Host
  PROVE  /\ lifecycle' \in States /\ consent' \in BOOLEAN
         /\ UNCHANGED <<device, pastVars>>
         /\ \/ Disconnect
            \/ /\ UNCHANGED <<sessionVars, partVars, pending, runVars>>
               /\ lifecycle' = lifecycle \/ lifecycle' \notin {"Suspended", "Destroyed"}
               /\ consent' = consent \/ consent'
<1>1. lifecycle \in States /\ consent \in BOOLEAN
  BY DEF IInv, TypeOK, States
<1>2. CASE \E state \in States : Lifecycle(state)
  BY <1>1, <1>2 DEF Lifecycle, States
<1>3. CASE \E granted \in BOOLEAN : SetConsent(granted)
  BY <1>1, <1>3 DEF SetConsent
<1>4. CASE HostDisconnects
  BY <1>1, <1>4 DEF HostDisconnects, linkVars
<1> QED
  BY <1>2, <1>3, <1>4 DEF Host

Receives ==
  \E m \in Messages : ReceiveFrame(m) \/ \E i \in 1 .. Count(m) : ReceiveFragment(m, i)

\* The next-state relation by actor.
LEMMA NextByActor ==
  Next => Host \/ (\E s \in Sessions : Connect(s)) \/ NextInput \/ Receives
BY DEF Next, Host, Receives, States

\* Every step keeps the types and the collected beginning.
LEMMA PartsStep == IInv /\ [Next]_vars => Parts'
<1> SUFFICES ASSUME IInv, [Next]_vars PROVE Parts'
  OBVIOUS
<1>1. CASE Host
  BY <1>1, HostCuts, SameParts, DroppedParts DEF Disconnect, Emptied
<1>2. ASSUME NEW s \in Sessions, Connect(s) PROVE Parts'
  BY <1>2, DroppedParts DEF Connect, Emptied
<1>3. CASE NextInput
  BY <1>3, SameParts DEF NextInput
<1>4. ASSUME NEW m \in Messages, ReceiveFrame(m) PROVE Parts'
  BY <1>4, SameParts DEF ReceiveFrame
<1>5. ASSUME NEW m \in Messages, NEW i \in 1 .. Count(m), ReceiveFragment(m, i)
      PROVE  Parts'
  BY <1>5, ReceivedParts
<1>6. CASE UNCHANGED vars
  BY <1>6, SameParts DEF vars
<1> QED
  BY <1>1, <1>2, <1>3, <1>4, <1>5, <1>6, NextByActor DEF Receives

\* The type of a message's number of fragments that arrived in a row.
RunType == run \in [of : Messages \cup {NoMessage}, upto : Nat] /\ crowded \in BOOLEAN

\* Every step keeps the history of arrivals well typed.
LEMMA RunStep == IInv /\ [Next]_vars => RunType'
<1> SUFFICES ASSUME IInv, [Next]_vars PROVE RunType'
  OBVIOUS
<1>1. RunType /\ NoRun \in [of : Messages \cup {NoMessage}, upto : Nat]
  BY DEF IInv, TypeOK, RunType, NoRun
<1>2. CASE Host
  BY <1>1, <1>2, HostCuts DEF Disconnect, runVars, RunType
<1>3. ASSUME NEW s \in Sessions, Connect(s) PROVE RunType'
  BY <1>1, <1>3 DEF Connect, RunType
<1>4. CASE NextInput
  BY <1>1, <1>4 DEF NextInput, runVars, RunType
<1>5. ASSUME NEW m \in Messages, NEW i \in 1 .. Count(m), Arrived(m, i)
      PROVE  run' \in [of : Messages \cup {NoMessage}, upto : Nat]
  <2>1. i \in Nat
    BY MessageFields
  <2> QED
    BY <1>1, <1>5, <2>1 DEF Arrived
<1>6. ASSUME NEW m \in Messages, NEW i \in 1 .. Count(m), ReceiveFragment(m, i)
      PROVE  RunType'
  BY <1>5, <1>6 DEF ReceiveFragment, Room, RunType
<1>7. ASSUME NEW m \in Messages, ReceiveFrame(m) PROVE RunType'
  <2>1. 1 \in 1 .. Count(m)
    BY MessageFields
  <2> QED
    BY <1>5, <1>7, <2>1 DEF ReceiveFrame, Room, RunType
<1>8. CASE UNCHANGED vars
  BY <1>1, <1>8 DEF vars, runVars, RunType
<1> QED
  BY <1>2, <1>3, <1>4, <1>6, <1>7, <1>8, NextByActor DEF Receives

\* What the invariant says of the connection and its messages.
Links ==
  /\ device \in Devices /\ lifecycle \in States
  /\ consent \in BOOLEAN /\ connected \in BOOLEAN
  /\ session \in Sessions \cup {NoSession}
  /\ seen \subseteq Sequences
  /\ pending \in Seq(Seq(Fragments)) /\ Len(pending) <= MaxPending
  /\ delivered \subseteq Messages /\ reused \in BOOLEAN /\ repeated \in BOOLEAN
  /\ Standing /\ NothingLeft /\ PendingWhole /\ SeenRemembers

\* The invariant is the sum of its three parts.
LEMMA PartsOfIInv == Links /\ Parts /\ RunType <=> IInv
BY DEF Links, Parts, RunType, IInv, TypeOK, States

\* An emptied, closed connection keeps its part of the invariant.
LEMMA CutLinks ==
  ASSUME Links, Disconnect, lifecycle' \in States, consent' \in BOOLEAN,
         UNCHANGED <<device, pastVars>>
  PROVE  Links'
<1>1. pending' \in Seq(Seq(Fragments)) /\ Len(pending') = 0 /\ seen' = {} /\ ~connected'
  BY DEF Disconnect, Emptied
<1>2. Len(pending') <= MaxPending
  BY <1>1, CompanionAssumption
<1>3. Standing' /\ NothingLeft' /\ PendingWhole'
  BY <1>1 DEF Disconnect, Emptied, Standing, NothingLeft, PendingWhole
<1>4. SeenRemembers'
  BY <1>1 DEF Links, pastVars, SeenRemembers
<1>5. connected' = FALSE /\ session' = session /\ seen' \subseteq Sequences
  BY <1>1 DEF Disconnect
<1> QED
  BY <1>1, <1>2, <1>3, <1>4, <1>5 DEF Links, pastVars

\* A step of the host keeps the connection's part.
LEMMA HostLinks == ASSUME IInv, Host PROVE Links'
<1>1. Links
  BY PartsOfIInv
<1>2. CASE Disconnect
  BY <1>1, <1>2, HostCuts, CutLinks
<1>3. CASE ~Disconnect
  BY <1>1, <1>3, HostCuts DEF Links, sessionVars, pastVars, Standing, NothingLeft,
     PendingWhole, SeenRemembers
<1> QED
  BY <1>2, <1>3

\* A connection for a session number that was not used before remembers
\* everything that was accepted under it: nothing.
LEMMA ConnectLinks == ASSUME IInv, NEW s \in Sessions, Connect(s) PROVE Links'
<1>1. Links
  BY PartsOfIInv
<1>2. pending' \in Seq(Seq(Fragments)) /\ Len(pending') = 0 /\ pending' = <<>> /\ seen' = {}
  BY DEF Connect, Emptied
<1>3. Len(pending') <= MaxPending
  BY <1>2, CompanionAssumption
<1>4. SeenRemembers'
  BY <1>1 DEF Connect, Links, UsedBefore, SeenRemembers
<1>5. reused' \in BOOLEAN
  BY <1>1 DEF Connect, UsedBefore, Links
<1>6. Standing' /\ NothingLeft' /\ PendingWhole'
  BY <1>2 DEF Connect, linkVars, Standing, NothingLeft, PendingWhole
<1>7. seen' \subseteq Sequences /\ repeated' = repeated /\ delivered' = delivered
  BY <1>2 DEF Connect
<1>8. /\ device' = device /\ lifecycle' = lifecycle /\ consent' = consent
      /\ connected' = TRUE /\ session' = s
  BY DEF Connect, linkVars
<1> QED
  BY <1>1, <1>2, <1>3, <1>4, <1>5, <1>6, <1>7, <1>8 DEF Links

\* The consumer takes the first input; the others stay as they are.
LEMMA NextInputLinks == ASSUME IInv, NextInput PROVE Links'
<1>1. Links
  BY PartsOfIInv
<1>2. /\ pending \in Seq(Seq(Fragments)) /\ Len(pending) \in Nat
      /\ pending # <<>> /\ pending' = Tail(pending)
  BY <1>1 DEF NextInput, Links
<1>3. /\ pending' \in Seq(Seq(Fragments)) /\ Len(pending') = Len(pending) - 1
      /\ \A k \in 1 .. Len(pending') : pending'[k] = pending[k + 1]
  BY <1>2
<1>4. Len(pending') <= MaxPending
  BY <1>1, <1>2, <1>3, CompanionAssumption DEF Links
<1>5. PendingWhole'
  <2> SUFFICES ASSUME NEW k \in 1 .. Len(pending')
               PROVE  \E m \in delivered : pending'[k] = Pieces(m) /\ Session(m) = session
    BY DEF NextInput, PendingWhole, pastVars, sessionVars
  <2>1. k + 1 \in 1 .. Len(pending)
    BY <1>2, <1>3
  <2> QED
    BY <1>1, <1>3, <2>1 DEF Links, PendingWhole
<1>6. NothingLeft'
  BY <1>1, <1>2 DEF Links, NothingLeft, NextInput, sessionVars
<1> QED
  BY <1>1, <1>3, <1>4, <1>5, <1>6 DEF NextInput, Links, linkVars, sessionVars, pastVars,
     Standing, SeenRemembers

\* A message that is accepted is a fresh one of the open session, and is
\* remembered.
LEMMA ReceiveLinks == ASSUME IInv, Receives PROVE Links'
<1>1. Links
  BY PartsOfIInv
<1>2. PICK m \in Messages :
        /\ UNCHANGED linkVars
        /\ Kept \/ (Fresh(m) /\ Room /\ Accept(m, Pieces(m)))
  BY ReceiveAcceptsWhole DEF Receives
<1>3. CASE Kept
  BY <1>1, <1>2, <1>3 DEF Kept, Links, linkVars, Standing, NothingLeft, PendingWhole,
     SeenRemembers
<1>4. CASE Fresh(m) /\ Room /\ Accept(m, Pieces(m))
  <2>1. /\ pending \in Seq(Seq(Fragments)) /\ Len(pending) \in Nat
        /\ Pieces(m) \in Seq(Fragments)
        /\ pending' = Append(pending, Pieces(m)) /\ Len(pending) < MaxPending
    BY <1>1, <1>4, MessageFields DEF Accept, Room, Links
  <2>2. /\ pending' \in Seq(Seq(Fragments)) /\ Len(pending') = Len(pending) + 1
        /\ \A k \in 1 .. Len(pending) : pending'[k] = pending[k]
        /\ pending'[Len(pending) + 1] = Pieces(m)
    BY <2>1
  <2>3. Len(pending') <= MaxPending
    BY <2>1, <2>2, CompanionAssumption
  <2>4. /\ connected /\ Session(m) = session /\ Sequence(m) \notin seen
        /\ Sequence(m) \in Sequences
    BY <1>4, MessageFields DEF Fresh, Current, RequireActive
  <2>5. PendingWhole'
    <3> SUFFICES ASSUME NEW k \in 1 .. Len(pending')
                 PROVE  \E n \in delivered' : pending'[k] = Pieces(n) /\ Session(n) = session'
      BY DEF PendingWhole
    <3>1. delivered' = delivered \cup {m} /\ session' = session
      BY <1>4 DEF Accept
    <3>2. CASE k = Len(pending) + 1
      BY <2>2, <2>4, <3>1, <3>2
    <3>3. CASE k \in 1 .. Len(pending)
      BY <1>1, <2>2, <3>1, <3>3 DEF Links, PendingWhole
    <3> QED
      BY <2>1, <2>2, <3>2, <3>3
  <2>6. SeenRemembers'
    BY <1>1, <1>4, <2>4 DEF Links, SeenRemembers, Accept, Remembered
  <2>7. (m \in delivered) \in BOOLEAN
    OBVIOUS
  <2> QED
    BY <1>1, <1>2, <1>4, <2>2, <2>3, <2>4, <2>5, <2>6, <2>7
       DEF Links, Accept, Remembered, linkVars, Standing, NothingLeft
<1> QED
  BY <1>2, <1>3, <1>4

\* Every step keeps the invariant.
LEMMA StepIInv == IInv /\ [Next]_vars => IInv'
<1> SUFFICES ASSUME IInv, [Next]_vars PROVE IInv'
  OBVIOUS
<1>1. ASSUME UNCHANGED vars PROVE Links'
  <2>1. Links
    BY PartsOfIInv
  <2> QED
    BY <1>1, <2>1 DEF vars, linkVars, sessionVars, pastVars, Links, Standing,
       NothingLeft, PendingWhole, SeenRemembers
<1>2. ASSUME Next PROVE Links'
  BY <1>2, HostLinks, ConnectLinks, NextInputLinks, ReceiveLinks, NextByActor
<1>3. Parts' /\ RunType'
  BY PartsStep, RunStep
<1>4. Links' /\ Parts' /\ RunType' => IInv'
  BY DEF Links, Parts, RunType, IInv, TypeOK, States
<1> QED
  BY <1>1, <1>2, <1>3, <1>4

\* The inductive invariant holds of every behaviour of the link, the peers,
\* the host and the consumer.
THEOREM CompanionInvariant == Spec => []IInv
BY InitIInv, StepIInv, PTL DEF Spec

\* Every state of either capsule is well typed; the queue of inputs and the
\* bytes collected stay within MAX_PENDING_EVENTS and MAX_MESSAGE_BYTES.
THEOREM CompanionTypeCorrect == Spec => []TypeOK
<1>1. IInv => TypeOK
  BY DEF IInv
<1> QED
  BY <1>1, CompanionInvariant, PTL

\* What waits for the consumer are whole messages of the connection that is up
\* (disconnect and connect clear the queue).
THEOREM InputsBelongToConnection == Spec => []InputsOfThisConnection
<1>1. IInv => InputsOfThisConnection
  <2> SUFFICES ASSUME IInv, pending # <<>> PROVE InputsOfThisConnection
    BY DEF InputsOfThisConnection
  <2>1. connected
    BY DEF IInv, NothingLeft, TypeOK
  <2> QED
    BY <2>1 DEF IInv, Standing, PendingWhole, InputsOfThisConnection
<1> QED
  BY <1>1, CompanionInvariant, PTL

\* As long as the host does not reuse a session number, nothing is accepted
\* twice, whatever the link repeats and however often the connection is cut.
THEOREM MessagesAcceptedOnce == Spec => []AcceptedOnce
<1>1. IInv => AcceptedOnce
  BY DEF IInv, SeenRemembers, AcceptedOnce
<1> QED
  BY <1>1, CompanionInvariant, PTL

-----------------------------------------------------------------------------
(* Fragments in order.                                                     *)

\* While the fragments of a good message that is not known yet arrive in order,
\* the assembly holds just these, and their bytes.
InOrder ==
  run.of # NoMessage =>
    /\ run.upto \in 1 .. Count(run.of)
    /\ Good(run.of) /\ Sequence(run.of) \notin seen /\ run.upto < Count(run.of) =>
         /\ assembly = run.of /\ Len(payload) = run.upto
         /\ \A sum \in Totals(run.of) : bytes = sum[run.upto]

\* The next fragment in order is expected, and its bytes are those so far.
LEMMA NextInOrder ==
  ASSUME IInv, InOrder, NEW m \in Messages, NEW i \in 1 .. Count(m), Good(m), Fresh(m),
         i = 1 \/ run = [of |-> m, upto |-> i - 1]
  PROVE  /\ Expected(m, i)
         /\ \A sum \in Totals(m) : SizeWith(m, i) = sum[i]
         /\ SizeWith(m, i) <= MaxMessageBytes
         /\ Complete(m, i) <=> i = Count(m)
         /\ Complete(m, i) => Usable(m, i)
<1>1. /\ Count(m) \in Nat \ {0} /\ i \in Nat /\ LengthsOf[m][i] \in Nat /\ m # NoMessage
      /\ Total(m) \in Nat /\ Total(m) <= MaxMessageBytes /\ MaxMessageBytes \in Nat
  BY MessageFields, CompanionAssumption
<1>g. PICK all \in Totals(m) : TRUE
  BY DEF Good
<1>h. /\ all[i] \in Nat /\ all[i] <= Total(m)
      /\ i = Count(m) => all[i] = Total(m)
  <2>1. all \in [0 .. Count(m) -> 0 .. Total(m)] /\ all[Count(m)] = Total(m)
    BY <1>g DEF Totals
  <2>2. i \in 0 .. Count(m)
    BY <1>1
  <2> QED
    BY <1>1, <2>1, <2>2
<1>2. CASE i = 1
  <2>1. /\ Assembling(m, i) = m /\ Collected(i) = <<>> /\ Len(Collected(i)) = 0
        /\ Size(i) = 0
    BY <1>2 DEF Assembling, Collected, Size, Restarts
  <2>2. Expected(m, i) /\ (Complete(m, i) <=> i = Count(m))
    BY <1>1, <1>2, <2>1 DEF Expected, Complete
  <2>3. \A sum \in Totals(m) : SizeWith(m, i) = sum[i]
    <3> SUFFICES ASSUME NEW sum \in Totals(m) PROVE SizeWith(m, i) = sum[i]
      OBVIOUS
    <3>1. sum[1] = sum[1 - 1] + LengthsOf[m][1] /\ sum[0] = 0
      BY <1>2 DEF Totals
    <3> QED
      BY <1>1, <1>2, <2>1, <3>1 DEF SizeWith
  <2> QED
    BY <2>2, <2>3, <1>1, <1>g, <1>h DEF Good, Usable
<1>3. CASE i # 1
  <2>1. run.of = m /\ run.upto = i - 1
    BY <1>3
  <2>2. i - 1 < Count(m) /\ Sequence(m) \notin seen
    BY <1>1 DEF Fresh
  <2>3. /\ assembly = m /\ Len(payload) = i - 1
        /\ \A sum \in Totals(m) : bytes = sum[i - 1]
    BY <1>1, <2>1, <2>2 DEF InOrder
  <2>4. /\ Assembling(m, i) = m /\ Collected(i) = payload /\ Size(i) = bytes
    BY <1>3, <2>3 DEF Assembling, Collected, Size, Restarts
  <2>5. Expected(m, i) /\ (Complete(m, i) <=> i = Count(m))
    BY <1>1, <2>3, <2>4 DEF Expected, Complete
  <2>6. \A sum \in Totals(m) : SizeWith(m, i) = sum[i]
    BY <2>3, <2>4 DEF SizeWith, Totals
  <2> QED
    BY <2>5, <2>6, <1>1, <1>g, <1>h DEF Good, Usable
<1> QED
  BY <1>2, <1>3

\* What a current fragment leaves: a known message, a full queue, or all of the
\* run so far in the assembly.
LEMMA FragmentInOrder ==
  ASSUME IInv, InOrder, InOrderAccepted, NEW m \in Messages, NEW i \in 1 .. Count(m),
         ReceiveFragment(m, i)
  PROVE  InOrder' /\ InOrderAccepted'
<1>1. Count(m) \in Nat \ {0} /\ i \in Nat /\ m # NoMessage
  BY MessageFields
<1>2. crowded' = ~Room /\ Arrived(m, i)
  BY DEF ReceiveFragment
<1>3. CASE run' = NoRun
  BY <1>3 DEF InOrder, InOrderAccepted, NoRun
<1>4. CASE run' # NoRun
  <2>1. /\ run'.of = m /\ run'.upto = i /\ Current(m)
        /\ i = 1 \/ run = [of |-> m, upto |-> i - 1]
    BY <1>2, <1>4 DEF Arrived
  <2>2. SUFFICES ASSUME Good(m), Sequence(m) \notin seen'
                 PROVE  /\ i < Count(m) => /\ assembly' = m /\ Len(payload') = i
                                           /\ \A sum \in Totals(m) : bytes' = sum[i]
                        /\ i = Count(m) => crowded'
    BY <2>1 DEF InOrder, InOrderAccepted
  <2>3. Fresh(m)
    <3>1. Fresh(m) \/ seen' = seen
      BY DEF ReceiveFragment
    <3> QED
      BY <2>1, <2>2, <3>1 DEF Fresh
  <2>4. /\ Expected(m, i)
        /\ \A sum \in Totals(m) : SizeWith(m, i) = sum[i]
        /\ SizeWith(m, i) <= MaxMessageBytes
        /\ Complete(m, i) <=> i = Count(m)
        /\ Complete(m, i) => Usable(m, i)
    BY <2>1, <2>2, <2>3, NextInOrder
  <2>5. SizeWith(m, i) \in Nat /\ Len(PayloadWith(m, i)) = i /\ Assembling(m, i) = m
    BY <2>4, ExpectedNext
  <2>6. Collect(m, i) \/ Finish(m, i)
    BY <2>3, <2>4, <2>5, CompanionAssumption DEF ReceiveFragment, OutOfOrder, Oversized
  <2>7. CASE Collect(m, i)
    BY <2>4, <2>5, <2>7 DEF Collect
  <2>8. CASE Finish(m, i)
    <3>1. i = Count(m)
      BY <2>4, <2>8 DEF Finish
    <3>2. Sequence(m) \in seen' \/ ~Room
      BY <2>4, <2>8 DEF Finish, Accept, Remembered
    <3>3. crowded'
      BY <1>2, <2>2, <3>2, Zenon
    <3>4. ~(i < Count(m))
      BY <1>1, <3>1
    <3> QED
      BY <3>3, <3>4
  <2> QED
    BY <2>6, <2>7, <2>8
<1> QED
  BY <1>3, <1>4

\* A watch frame is a run of its own.
LEMMA FrameInOrder ==
  ASSUME IInv, NEW m \in Messages, ReceiveFrame(m)
  PROVE  InOrder' /\ InOrderAccepted'
<1>1. CASE run' = NoRun
  BY <1>1 DEF InOrder, InOrderAccepted, NoRun
<1>2. CASE run' # NoRun
  <2>1. /\ run'.of = m /\ run'.upto = 1 /\ Current(m) /\ Count(m) = 1 /\ crowded' = ~Room
    BY <1>2 DEF ReceiveFrame, Arrived
  <2>2. m \in Decodes => Sequence(m) \in seen' \/ crowded'
    BY <2>1 DEF ReceiveFrame, Fresh, Accept, Remembered
  <2> QED
    BY <2>1, <2>2 DEF InOrder, InOrderAccepted, Good
<1> QED
  BY <1>1, <1>2

LEMMA InOrderStep ==
  ASSUME IInv, InOrder, InOrderAccepted, [Next]_vars
  PROVE  InOrder' /\ InOrderAccepted'
<1>1. ASSUME run' = NoRun PROVE InOrder' /\ InOrderAccepted'
  BY <1>1 DEF InOrder, InOrderAccepted, NoRun
<1>2. ASSUME UNCHANGED <<runVars, seen, partVars>> PROVE InOrder' /\ InOrderAccepted'
  BY <1>2 DEF InOrder, InOrderAccepted, runVars, partVars
<1>3. CASE Host
  BY <1>1, <1>2, <1>3, HostCuts DEF Disconnect, sessionVars
<1>4. ASSUME NEW s \in Sessions, Connect(s) PROVE InOrder' /\ InOrderAccepted'
  BY <1>1, <1>4 DEF Connect
<1>5. CASE NextInput
  BY <1>2, <1>5 DEF NextInput, sessionVars
<1>6. CASE Receives
  BY <1>6, FragmentInOrder, FrameInOrder DEF Receives
<1>7. CASE UNCHANGED vars
  BY <1>2, <1>7 DEF vars, sessionVars
<1> QED
  BY <1>3, <1>4, <1>5, <1>6, <1>7, NextByActor

\* A good message whose fragments arrive in order is accepted, or was before,
\* whatever was left of other messages; only a full queue refuses it.
THEOREM GoodMessagesAccepted == Spec => []InOrderAccepted
<1>1. Init => InOrder /\ InOrderAccepted
  BY DEF Init, InOrder, InOrderAccepted, NoRun
<1>2. IInv /\ InOrder /\ InOrderAccepted /\ [Next]_vars => InOrder' /\ InOrderAccepted'
  BY InOrderStep
<1> QED
  BY <1>1, <1>2, CompanionInvariant, PTL DEF Spec

-----------------------------------------------------------------------------
(* Refinement.                                                             *)

Line == IF connected THEN session ELSE NoSession

Accepted ==
  {m \in Messages : connected /\ Session(m) = session /\ Sequence(m) \in seen}

\* A capsule that cuts or opens a connection empties the mailbox.
LEMMA EmptiedImage == seen' = {} => Accepted' = {}
BY DEF Accepted

\* An accepted message is put into the mailbox, and no other becomes accepted.
LEMMA AcceptImage ==
  ASSUME IInv, NEW m \in Messages, Fresh(m), Room, Accept(m, Pieces(m))
  PROVE  Mailbox!Accept(m)
<1>1. connected /\ Session(m) = session /\ Sequence(m) \notin seen
  BY DEF Fresh, Current, RequireActive
<1>2. /\ connected' = connected /\ session' = session
      /\ seen' = seen \cup {Sequence(m)} /\ pending' = Append(pending, Pieces(m))
  BY DEF Accept, Remembered
<1>3. m \notin Accepted
  BY <1>1 DEF Accepted
<1>4. Accepted' = Accepted \cup {m}
  <2>1. \A n \in Messages : Session(n) = Session(m) /\ Sequence(n) = Sequence(m) => n = m
    BY CompanionAssumption
  <2> QED
    BY <1>1, <1>2, <2>1 DEF Accepted
<1> QED
  BY <1>1, <1>2, <1>3, <1>4 DEF Mailbox!Accept, Accepted, Room

\* Every step of the capsule is a step of the mailbox or leaves it alone.
LEMMA StepImage ==
  ASSUME IInv, [Next]_vars
  PROVE  Mailbox!Next \/ UNCHANGED Mailbox!vars
<1>1. CASE Host
  <2>1. CASE Disconnect
    <3>1. Mailbox!Switch(NoSession)
      BY <2>1, EmptiedImage DEF Mailbox!Switch, Disconnect, Emptied, Accepted
    <3> QED
      BY <3>1 DEF Mailbox!Next
  <2>2. CASE ~Disconnect
    BY <1>1, <2>2, HostCuts DEF Mailbox!vars, sessionVars
  <2> QED
    BY <2>1, <2>2
<1>2. ASSUME NEW s \in Sessions, Connect(s) PROVE Mailbox!Next
  <2>1. PICK m \in Messages : Session(m) = s
    BY DEF Sessions
  <2>2. Mailbox!Switch(Session(m))
    BY <1>2, <2>1, EmptiedImage DEF Mailbox!Switch, Connect, Emptied, Accepted
  <2> QED
    BY <2>2 DEF Mailbox!Next
<1>3. CASE NextInput
  BY <1>3 DEF NextInput, Mailbox!Next, Mailbox!Take, sessionVars
<1>4. CASE Receives
  <2>1. PICK m \in Messages : Kept \/ (Fresh(m) /\ Room /\ Accept(m, Pieces(m)))
    BY <1>4, ReceiveAcceptsWhole DEF Receives
  <2>2. CASE Kept
    BY <2>2 DEF Kept, Mailbox!vars
  <2>3. CASE Fresh(m) /\ Room /\ Accept(m, Pieces(m))
    BY <2>3, AcceptImage DEF Mailbox!Next
  <2> QED
    BY <2>1, <2>2, <2>3
<1>5. CASE UNCHANGED vars
  BY <1>5 DEF vars, sessionVars, Mailbox!vars
<1> QED
  BY <1>1, <1>2, <1>3, <1>4, <1>5, NextByActor

\* Reassembly, replay detection and gating implement the mailbox: only whole
\* messages of the open session get in, each at most once, in order.
THEOREM CompanionImplementsMailbox == Spec => ImplementsMailbox
<1>1. Init => Mailbox!Init
  BY DEF Init, Mailbox!Init
<1>2. IInv /\ [Next]_vars => [Mailbox!Next]_(Mailbox!vars)
  BY StepImage
<1> QED
  BY <1>1, <1>2, CompanionInvariant, PTL DEF Spec, ImplementsMailbox, Mailbox!Spec
=============================================================================
