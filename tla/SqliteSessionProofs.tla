----------------------- MODULE SqliteSessionProofs -------------------------
(* What a session answered for is in the file, what it refused is not, and  *)
(* the file holds whole programs under their attestation: of every number   *)
(* of sessions, programs, writes and bodies within bodies.                  *)
(*                                                                          *)
(* Everything rests on the one reserved lock. While a session holds it the  *)
(* file is as it was when the session began, so that what is said of the    *)
(* work and the savepoints of the session can be said relative to the file. *)
EXTENDS SqliteSession, SequenceTheorems, TLAPS

ChangesOf(p) == {Statements[p][i] : i \in DOMAIN Statements[p]}
Elements(q) == {q[i] : i \in DOMAIN q}

\* The catalog is that of whole programs, and the attestation is of it.
Whole(catalog) == \E done \in SUBSET Programs : catalog = UNION {ChangesOf(p) : p \in done}
Sound(content) ==
  /\ Whole(content.catalog)
  /\ content.attestation # NoAttestation => content.attestation.physical = content.catalog

SameSchema(content, file) ==
  content.catalog = file.catalog /\ content.attestation = file.attestation

\* What a connection is in, and what its session is in, go together.
Paired(k, c) ==
  /\ k.open = "none" => k.lock # "reserved" /\ k.saved = <<>>
  /\ k.open = "begin" =>
       /\ k.lock = "reserved" /\ ~c.interrupted
       /\ Len(k.saved) = IF c.kept = <<>> THEN 0 ELSE Len(c.kept) - 1
  /\ c.at = "query" <=> k.lock = "shared"
  /\ c.at = "query" => k.open = "none"
  /\ c.at # "idle" => c.kept = <<>>
  /\ Len(c.kept) <= MaxDepth
  /\ c.kept = <<>> => ~c.interrupted /\ c.tried = {}
  /\ c.kept # <<>> /\ ~c.interrupted => k.open = "begin"
  /\ c.at \in {"migrate", "attest", "adopted"} => k.open = "begin"
  /\ c.at \in {"observe", "adopt"} => k = Fresh
  /\ c.at \in {"idle", "query", "migrate", "attest"} => c.asked = {} /\ c.physical = {}
  /\ c.at \in {"migrate", "attest"} => c.program \in Programs

\* The session may commit what its connection keeps.
MayYetCommit(k, c) == k.lock = "reserved" /\ (c.at = "idle" => c.kept # <<>>)

\* What a writer may come back to holds the rows of the file, and no denied one.
Extends(content, file, no, count) ==
  /\ file.rows \subseteq content.rows /\ content.rows \subseteq 1 .. count
  /\ content.rows \cap no = {}

\* The schema a writer works on, by the call it is in.
SchemaOf(work, c, file) ==
  /\ c.at = "idle" => SameSchema(work, file)
  /\ c.at = "migrate" =>
       /\ work.attestation = file.attestation
       /\ work.catalog \cup Elements(c.todo) = file.catalog \cup ChangesOf(c.program)
  /\ c.at = "attest" =>
       /\ work.attestation # NoAttestation /\ work.attestation.physical = work.catalog
       /\ work.catalog = file.catalog \cup ChangesOf(c.program)
  /\ c.at = "adopted" =>
       /\ work.attestation # NoAttestation /\ work.attestation.physical = work.catalog
       /\ work.catalog = file.catalog

WriterKeeps(k, c, file, no, count) ==
  MayYetCommit(k, c) =>
    /\ Extends(k.work, file, no, count) /\ SchemaOf(k.work, c, file)
    /\ \A i \in DOMAIN k.saved :
         Extends(k.saved[i], file, no, count) /\ SameSchema(k.saved[i], file)

\* What the bodies of a transaction were told: each savepoint has the rows of
\* the bodies around it, and none of the bodies within.
BodiesKeep(k, c, file, count) ==
  c.kept # <<>> /\ ~c.interrupted =>
    /\ c.tried \subseteq 1 .. count /\ c.tried \cap file.rows = {}
    /\ \A j \in DOMAIN c.kept : c.kept[j] \subseteq c.tried /\ c.kept[j] \subseteq k.work.rows
    /\ \A i \in DOMAIN k.saved, j \in DOMAIN c.kept :
         IF j <= i THEN c.kept[j] \subseteq k.saved[i].rows
         ELSE c.kept[j] \cap k.saved[i].rows = {}

\* What verify_or_adopt observed is true for as long as there is no attestation.
ObservedStill(c, file) ==
  file.attestation = NoAttestation =>
    /\ c.at = "observe" => c.physical = c.asked \cap file.catalog
    /\ c.at = "adopt" => c.physical = file.catalog

SessionKeeps(k, c, file, no, count) ==
  /\ Paired(k, c) /\ WriterKeeps(k, c, file, no, count)
  /\ BodiesKeep(k, c, file, count) /\ ObservedStill(c, file)

FileKeeps ==
  /\ db \in Contents /\ Sound(db)
  /\ written \in 0 .. MaxWrites /\ db.rows \subseteq 1 .. written
  /\ promised \subseteq db.rows /\ denied \subseteq 1 .. written /\ denied \cap db.rows = {}
  /\ stuck \subseteq Sessions

SqliteInv ==
  /\ conn \in [Sessions -> Connections] /\ call \in [Sessions -> Calls]
  /\ FileKeeps
  /\ \A s \in Sessions : SessionKeeps(conn[s], call[s], db, denied, written)
  /\ \A s, r \in Sessions : conn[s].lock = "reserved" /\ conn[r].lock = "reserved" => s = r
  /\ OnlyBusyLeavesOpen

-----------------------------------------------------------------------------
(* Types.                                                                   *)

LEMMA ChangesAreNames == Changes \subseteq STRING /\ \A p \in Programs : ChangesOf(p) \subseteq Changes
<1>1. ASSUME NEW p \in Programs PROVE ChangesOf(p) \subseteq Changes /\ ChangesOf(p) \subseteq STRING
  <2>1. Statements[p] \in Seq(STRING)
    BY SqliteAssumption
  <2>2. \A i \in DOMAIN Statements[p] : Statements[p][i] \in STRING
    BY <2>1, LenProperties, ElementOfSeq
  <2> QED
    BY <2>2 DEF ChangesOf, Changes
<1> QED
  BY <1>1 DEF ChangesOf, Changes

LEMMA AttestationsAreSome == NoAttestation \notin Attestations
<1>1. Attestations \subseteq [revision : Programs \cup {NoProgram}, physical : SUBSET STRING]
  BY ChangesAreNames DEF Attestations
<1> QED
  BY <1>1, SqliteAssumption

LEMMA ConnectionFields ==
  ASSUME NEW k \in Connections
  PROVE  /\ k.open \in {"none", "begin", "savepoint"} /\ k.lock \in {"none", "shared", "reserved"}
         /\ k.work \in Contents /\ k.saved \in Seq(Contents) /\ Len(k.saved) \in Nat
         /\ DOMAIN k.saved = 1 .. Len(k.saved)
         /\ \A i \in DOMAIN k.saved : k.saved[i] \in Contents
         /\ k = [open |-> k.open, lock |-> k.lock, work |-> k.work, saved |-> k.saved]
<1>1. /\ k.open \in {"none", "begin", "savepoint"} /\ k.lock \in {"none", "shared", "reserved"}
      /\ k.work \in Contents /\ k.saved \in Seq(Contents)
      /\ k = [open |-> k.open, lock |-> k.lock, work |-> k.work, saved |-> k.saved]
  BY DEF Connections
<1>2. Len(k.saved) \in Nat /\ DOMAIN k.saved = 1 .. Len(k.saved)
  BY <1>1, LenProperties
<1>3. \A i \in DOMAIN k.saved : k.saved[i] \in Contents
  BY <1>1, <1>2, ElementOfSeq
<1> QED
  BY <1>1, <1>2, <1>3

LEMMA CallFields ==
  ASSUME NEW c \in Calls
  PROVE  /\ c.at \in Places /\ c.kept \in Seq(SUBSET Rows) /\ c.tried \subseteq Rows
         /\ c.interrupted \in BOOLEAN /\ c.program \in Programs \cup {NoProgram}
         /\ c.todo \in Seq(STRING) /\ c.asked \subseteq Changes /\ c.physical \subseteq Changes
         /\ Len(c.kept) \in Nat /\ DOMAIN c.kept = 1 .. Len(c.kept)
         /\ \A j \in DOMAIN c.kept : c.kept[j] \subseteq Rows
         /\ Len(c.kept) = 0 <=> c.kept = <<>>
<1>1. /\ c.at \in Places /\ c.kept \in Seq(SUBSET Rows) /\ c.tried \subseteq Rows
      /\ c.interrupted \in BOOLEAN /\ c.program \in Programs \cup {NoProgram}
      /\ c.todo \in Seq(STRING) /\ c.asked \subseteq Changes /\ c.physical \subseteq Changes
  BY DEF Calls
<1>2. /\ Len(c.kept) \in Nat /\ DOMAIN c.kept = 1 .. Len(c.kept)
      /\ Len(c.kept) = 0 <=> c.kept = <<>>
  BY <1>1, LenProperties, EmptySeq
<1>3. \A j \in DOMAIN c.kept : c.kept[j] \subseteq Rows
  BY <1>1, <1>2, ElementOfSeq
<1> QED
  BY <1>1, <1>2, <1>3

LEMMA FreshAndResting ==
  /\ Empty \in Contents /\ Fresh \in Connections /\ NoCalls \in Calls
  /\ Fresh.open = "none" /\ Fresh.lock = "none" /\ Fresh.saved = <<>>
  /\ NoCalls.at = "idle" /\ NoCalls.kept = <<>> /\ ~NoCalls.interrupted /\ NoCalls.tried = {}
  /\ NoCalls.asked = {} /\ NoCalls.physical = {}
<1>1. Empty \in Contents
  BY DEF Empty, Contents
<1>2. <<>> \in Seq(Contents) /\ <<>> \in Seq(STRING) /\ <<>> \in Seq(SUBSET Rows)
  OBVIOUS
<1> QED
  BY <1>1, <1>2 DEF Fresh, Connections, NoCalls, Calls, Places

LEMMA ContentFields ==
  ASSUME NEW content \in Contents
  PROVE  /\ content.catalog \subseteq Changes /\ content.rows \subseteq Rows
         /\ content.attestation \in Attestations \cup {NoAttestation}
BY DEF Contents

\* The calls that are over leave nothing to keep.
LEMMA RestingKeeps ==
  ASSUME NEW file, NEW no, NEW count
  PROVE  SessionKeeps(Fresh, NoCalls, file, no, count)
<1>1. Len(<<>>) = 0 /\ MaxDepth \in Nat
  BY SqliteAssumption
<1> QED
  BY <1>1, FreshAndResting
  DEF SessionKeeps, Paired, WriterKeeps, MayYetCommit, BodiesKeep, ObservedStill

\* What a session was in when its call is over without the transaction.
LEMMA DoneKeeps ==
  ASSUME NEW k \in Connections, NEW file, NEW no, NEW count,
         k.lock # "shared", k.open = "none" => k.lock # "reserved" /\ k.saved = <<>>,
         k.open = "begin" => k.lock = "reserved" /\ k.saved = <<>>
  PROVE  SessionKeeps(k, NoCalls, file, no, count)
<1>1. Len(<<>>) = 0 /\ MaxDepth \in Nat
  BY SqliteAssumption
<1> QED
  BY <1>1, FreshAndResting
  DEF SessionKeeps, Paired, WriterKeeps, MayYetCommit, BodiesKeep, ObservedStill

-----------------------------------------------------------------------------
(* A step of one session. Only its connection and its calls change; the     *)
(* file changes only if no other session has reserved it.                   *)

LEMMA StepKeeps ==
  ASSUME SqliteInv, NEW s \in Sessions, NEW k \in Connections, NEW c \in Calls,
         Connect(s, k), Call(s, c), FileKeeps', written <= written',
         db'.attestation = NoAttestation =>
           db.attestation = NoAttestation /\ db'.catalog = db.catalog,
         MayReserve(s) \/ (db' = db /\ denied' = denied),
         k.lock = "reserved" => MayReserve(s),
         SessionKeeps(k, c, db', denied', written'),
         stuck \ {s} \subseteq stuck',
         c.at = "idle" /\ c.kept = <<>> /\ k.open # "none" => s \in stuck'
  PROVE  SqliteInv'
<1>1. conn' \in [Sessions -> Connections] /\ call' \in [Sessions -> Calls]
  BY DEF Connect, Call, SqliteInv
<1>2. /\ conn'[s] = k /\ call'[s] = c
      /\ \A r \in Sessions \ {s} : conn'[r] = conn[r] /\ call'[r] = call[r]
  BY DEF Connect, Call, SqliteInv
<1>3. ASSUME NEW r \in Sessions \ {s}
      PROVE  SessionKeeps(conn[r], call[r], db', denied', written')
  <2>1. SessionKeeps(conn[r], call[r], db, denied, written)
    BY DEF SqliteInv
  <2> DEFINE kr == conn[r]
             cr == call[r]
  <2>2. CASE kr.lock = "reserved"
    <3>1. db' = db /\ denied' = denied
      BY <2>2 DEF MayReserve, OthersLack
    <3>2. 1 .. written \subseteq 1 .. written'
      BY DEF FileKeeps, SqliteInv
    <3>3. \A content : Extends(content, db, denied, written)
                         => Extends(content, db, denied, written')
      BY <3>2 DEF Extends
    <3> HIDE DEF kr, cr
    <3>4. WriterKeeps(kr, cr, db, denied, written) => WriterKeeps(kr, cr, db, denied, written')
      BY <3>3 DEF WriterKeeps
    <3>5. BodiesKeep(kr, cr, db, written) => BodiesKeep(kr, cr, db, written')
      BY <3>2 DEF BodiesKeep
    <3> QED
      BY <2>1, <3>1, <3>4, <3>5 DEF SessionKeeps, kr, cr
  <2>3. CASE kr.lock # "reserved"
    <3> HIDE DEF kr, cr
    <3>1. Paired(kr, cr) /\ ObservedStill(cr, db)
      BY <2>1 DEF SessionKeeps, kr, cr
    <3>2. WriterKeeps(kr, cr, db', denied', written')
      BY <2>3 DEF WriterKeeps, MayYetCommit
    <3>3. BodiesKeep(kr, cr, db', written')
      BY <2>3, <3>1 DEF BodiesKeep, Paired
    <3>4. ObservedStill(cr, db')
      BY <3>1 DEF ObservedStill
    <3> QED
      BY <3>1, <3>2, <3>3, <3>4 DEF SessionKeeps, kr, cr
  <2> QED
    BY <2>2, <2>3
<1>4. \A r \in Sessions : SessionKeeps(conn'[r], call'[r], db', denied', written')
  BY <1>2, <1>3
<1>5. \A q, r \in Sessions : conn'[q].lock = "reserved" /\ conn'[r].lock = "reserved" => q = r
  <2>1. \A q, r \in Sessions : conn[q].lock = "reserved" /\ conn[r].lock = "reserved" => q = r
    BY DEF SqliteInv
  <2>2. k.lock = "reserved" => \A r \in Sessions \ {s} : conn[r].lock # "reserved"
    BY DEF MayReserve, OthersLack
  <2> QED
    BY <1>2, <2>1, <2>2
<1>6. OnlyBusyLeavesOpen'
  <2> SUFFICES ASSUME NEW r \in Sessions, Resting(r)', conn'[r].open # "none"
               PROVE  r \in stuck'
    BY DEF OnlyBusyLeavesOpen
  <2>1. call'[r].at = "idle" /\ Len(call'[r].kept) = 0
    BY DEF Resting, Depth
  <2>2. CASE r = s
    <3>1. c.kept = <<>>
      BY <1>2, <2>1, <2>2, CallFields
    <3> QED
      BY <1>2, <2>1, <2>2, <3>1
  <2>3. CASE r # s
    <3>1. Resting(r) /\ conn[r].open # "none"
      BY <1>2, <2>1, <2>3 DEF Resting, Depth
    <3> QED
      BY <2>3, <3>1 DEF SqliteInv, OnlyBusyLeavesOpen
  <2> QED
    BY <2>2, <2>3
<1> QED
  BY <1>1, <1>4, <1>5, <1>6 DEF SqliteInv

LEMMA SessionFacts ==
  ASSUME SqliteInv, NEW s \in Sessions
  PROVE  /\ conn[s] \in Connections /\ call[s] \in Calls /\ FileKeeps
         /\ Paired(conn[s], call[s]) /\ WriterKeeps(conn[s], call[s], db, denied, written)
         /\ BodiesKeep(conn[s], call[s], db, written) /\ ObservedStill(call[s], db)
         /\ Resting(s) <=> call[s].at = "idle" /\ call[s].kept = <<>>
         /\ Depth(s) = Len(call[s].kept)
<1>1. conn[s] \in Connections /\ call[s] \in Calls
  BY DEF SqliteInv
<1>2. Resting(s) <=> call[s].at = "idle" /\ call[s].kept = <<>>
  BY <1>1, CallFields DEF Resting, Depth
<1> QED
  BY <1>1, <1>2 DEF SqliteInv, SessionKeeps, Depth

LEMMA FileStays ==
  ASSUME SqliteInv, UNCHANGED <<db, written, promised, denied>>
  PROVE  /\ written' = written /\ written <= written' /\ db' = db /\ denied' = denied
         /\ stuck' \subseteq Sessions => FileKeeps'
<1>1. written \in Nat
  BY DEF SqliteInv, FileKeeps
<1> QED
  BY <1>1 DEF SqliteInv, FileKeeps

\* Without the reserved lock only what the calls are in matters.
LEMMA ReadersKeep ==
  ASSUME NEW k, NEW c, NEW file, NEW no, NEW count,
         Paired(k, c), k.lock # "reserved", ObservedStill(c, file)
  PROVE  SessionKeeps(k, c, file, no, count)
BY DEF SessionKeeps, Paired, WriterKeeps, MayYetCommit, BodiesKeep

LEMMA ReconnectKeeps == ASSUME SqliteInv, NEW s \in Sessions, Reconnect(s) PROVE SqliteInv'
<1>1. stuck' = stuck \ {s} /\ stuck' \subseteq Sessions
  BY DEF Reconnect, SqliteInv, FileKeeps
<1>2. /\ FileKeeps' /\ written' = written /\ written <= written' /\ db' = db
      /\ denied' = denied
  BY <1>1, FileStays DEF Reconnect
<1>3. Connect(s, Fresh) /\ Call(s, NoCalls)
  BY DEF Reconnect
<1> QED
  BY <1>1, <1>2, <1>3, StepKeeps, RestingKeeps, FreshAndResting

LEMMA StartQueryKeeps == ASSUME SqliteInv, NEW s \in Sessions, StartQuery(s) PROVE SqliteInv'
<1> DEFINE k == [conn[s] EXCEPT !.lock = "shared"]
           c == [call[s] EXCEPT !.at = "query"]
<1>1. /\ Connect(s, k) /\ Call(s, c) /\ call[s].at = "idle" /\ call[s].kept = <<>>
      /\ conn[s].open = "none" /\ stuck' = stuck
  BY SessionFacts DEF StartQuery, History
<1>2. /\ FileKeeps' /\ written' = written /\ written <= written' /\ db' = db
      /\ denied' = denied /\ stuck' \subseteq Sessions
  BY <1>1, FileStays DEF StartQuery, History, SqliteInv, FileKeeps
<1>3. /\ k \in Connections /\ k.open = "none" /\ k.lock = "shared" /\ k.saved = conn[s].saved
      /\ c \in Calls /\ c.at = "query" /\ c.kept = <<>> /\ c.tried = call[s].tried
      /\ c.interrupted = call[s].interrupted /\ c.asked = call[s].asked
      /\ c.physical = call[s].physical
  BY <1>1, SessionFacts DEF Connections, Calls, Places
<1> HIDE DEF k, c
<1>4. Paired(k, c)
  BY <1>1, <1>3, SessionFacts DEF Paired
<1>5. ObservedStill(c, db)
  BY <1>3 DEF ObservedStill
<1>6. SessionKeeps(k, c, db', denied', written')
  BY <1>2, <1>3, <1>4, <1>5, ReadersKeep
<1> QED
  BY <1>1, <1>2, <1>3, <1>6, StepKeeps

LEMMA EndQueryKeeps == ASSUME SqliteInv, NEW s \in Sessions, EndQuery(s) PROVE SqliteInv'
<1> DEFINE k == [conn[s] EXCEPT !.lock = "none"]
           c == [call[s] EXCEPT !.at = "idle"]
<1>1. Connect(s, k) /\ Call(s, c) /\ call[s].at = "query" /\ stuck' = stuck
  BY DEF EndQuery, History
<1>2. /\ FileKeeps' /\ written' = written /\ written <= written' /\ db' = db
      /\ denied' = denied /\ stuck' \subseteq Sessions
  BY <1>1, FileStays DEF EndQuery, History, SqliteInv, FileKeeps
<1>3. /\ k \in Connections /\ k.open = conn[s].open /\ k.lock = "none" /\ k.saved = conn[s].saved
      /\ c \in Calls /\ c.at = "idle" /\ c.kept = call[s].kept /\ c.tried = call[s].tried
      /\ c.interrupted = call[s].interrupted /\ c.asked = call[s].asked
      /\ c.physical = call[s].physical
  BY <1>1, SessionFacts DEF Connections, Calls, Places
<1> HIDE DEF k, c
<1>4. Paired(k, c) /\ k.open = "none"
  BY <1>1, <1>3, SessionFacts DEF Paired
<1>5. ObservedStill(c, db)
  BY <1>3 DEF ObservedStill
<1>6. SessionKeeps(k, c, db', denied', written')
  BY <1>2, <1>3, <1>4, <1>5, ReadersKeep
<1> QED
  BY <1>1, <1>2, <1>3, <1>4, <1>6, StepKeeps

LEMMA InterruptKeeps == ASSUME SqliteInv, NEW s \in Sessions, Interrupt(s) PROVE SqliteInv'
<1> DEFINE c == [call[s] EXCEPT !.interrupted = TRUE]
<1>1. Connect(s, Fresh) /\ Call(s, c) /\ call[s].at = "idle" /\ Depth(s) > 0 /\ stuck' = stuck
  BY DEF Interrupt, History
<1>2. /\ FileKeeps' /\ written' = written /\ written <= written' /\ db' = db
      /\ denied' = denied /\ stuck' \subseteq Sessions
  BY <1>1, FileStays DEF Interrupt, History, SqliteInv, FileKeeps
<1>3. /\ c \in Calls /\ c.at = "idle" /\ c.kept = call[s].kept /\ c.interrupted
      /\ c.asked = call[s].asked /\ c.physical = call[s].physical
  BY <1>1, SessionFacts DEF Calls, Places
<1>4. call[s].kept # <<>>
  BY <1>1, SessionFacts, CallFields
<1> HIDE DEF c
<1>5. Paired(Fresh, c)
  BY <1>1, <1>3, <1>4, SessionFacts, FreshAndResting DEF Paired
<1>6. ObservedStill(c, db)
  BY <1>3 DEF ObservedStill
<1>7. SessionKeeps(Fresh, c, db', denied', written')
  BY <1>2, <1>5, <1>6, ReadersKeep, FreshAndResting
<1> QED
  BY <1>1, <1>2, <1>3, <1>7, StepKeeps, FreshAndResting

\* A transaction, a migration or an adoption begins with the file as it is.
LEMMA ReservedFields ==
  ASSUME SqliteInv, NEW s \in Sessions
  PROVE  /\ Reserved \in Connections /\ Reserved.open = "begin" /\ Reserved.lock = "reserved"
         /\ Reserved.work = db /\ Reserved.saved = <<>>
         /\ Extends(db, db, denied, written)
<1>1. db \in Contents /\ Extends(db, db, denied, written)
  BY SessionFacts DEF FileKeeps, Extends
<1>2. /\ Reserved \in Connections /\ Reserved.open = "begin" /\ Reserved.lock = "reserved"
      /\ Reserved.work = db /\ Reserved.saved = Fresh.saved
  BY <1>1, FreshAndResting DEF Reserved, Connections
<1> QED
  BY <1>1, <1>2, FreshAndResting

LEMMA BeginKeeps == ASSUME SqliteInv, NEW s \in Sessions, BeginTransaction(s) PROVE SqliteInv'
<1> DEFINE c == [call[s] EXCEPT !.kept = <<{}>>]
<1>1. /\ Connect(s, Reserved) /\ Call(s, c) /\ call[s].at = "idle" /\ call[s].kept = <<>>
      /\ MayReserve(s) /\ stuck' = stuck
  BY SessionFacts DEF BeginTransaction, History
<1>2. /\ FileKeeps' /\ written' = written /\ written <= written' /\ db' = db
      /\ denied' = denied /\ stuck' \subseteq Sessions
  BY <1>1, FileStays DEF BeginTransaction, History, SqliteInv, FileKeeps
<1>3. {} \in SUBSET Rows /\ <<{}>> \in Seq(SUBSET Rows) /\ Len(<<{}>>) = 1
      /\ <<{}>> # <<>> /\ <<{}>>[1] = {}
  OBVIOUS
<1>4. /\ c \in Calls /\ c.at = "idle" /\ c.kept = <<{}>> /\ c.interrupted = call[s].interrupted
      /\ c.tried = call[s].tried /\ c.asked = call[s].asked /\ c.physical = call[s].physical
  BY <1>1, <1>3, SessionFacts DEF Calls, Places
<1> HIDE DEF c
<1>5. /\ call[s].tried = {} /\ ~call[s].interrupted
      /\ call[s].asked = {} /\ call[s].physical = {}
  BY <1>1, SessionFacts DEF Paired
<1>6. DOMAIN c.kept = {1} /\ c.kept[1] = {}
  BY <1>3, <1>4
<1>7. Len(<<>>) = 0 /\ DOMAIN <<>> = {} /\ Len(c.kept) = 1 /\ Len(c.kept) <= MaxDepth
  BY <1>3, <1>4, SqliteAssumption
<1>8. Paired(Reserved, c)
  BY <1>3, <1>4, <1>5, <1>7, ReservedFields DEF Paired
<1>9. WriterKeeps(Reserved, c, db, denied, written)
  BY <1>4, <1>7, ReservedFields DEF WriterKeeps, SchemaOf, SameSchema
<1>10. BodiesKeep(Reserved, c, db, written)
  BY <1>4, <1>5, <1>6, <1>7, ReservedFields DEF BodiesKeep
<1>11. SessionKeeps(Reserved, c, db', denied', written')
  BY <1>2, <1>4, <1>8, <1>9, <1>10 DEF SessionKeeps, ObservedStill
<1> QED
  BY <1>1, <1>2, <1>3, <1>4, <1>11, StepKeeps, ReservedFields

LEMMA WriterIsAlone ==
  ASSUME SqliteInv, NEW s \in Sessions, conn[s].lock = "reserved" PROVE MayReserve(s)
BY DEF SqliteInv, MayReserve, OthersLack

LEMMA ConnectionStays ==
  ASSUME SqliteInv, NEW s \in Sessions, UNCHANGED conn PROVE Connect(s, conn[s])
BY DEF SqliteInv, Connect

\* What an uninterrupted transaction denies is not in the file.
LEMMA DenialKeeps ==
  ASSUME SqliteInv, NEW s \in Sessions, call[s].kept # <<>>,
         NEW gone, gone \subseteq call[s].tried,
         denied' = IF call[s].interrupted THEN denied ELSE denied \cup gone,
         UNCHANGED <<db, written, promised>>, stuck' \subseteq Sessions
  PROVE  /\ FileKeeps' /\ written <= written'
         /\ MayReserve(s) \/ (db' = db /\ denied' = denied)
<1>1. FileKeeps /\ written \in Nat
  BY SessionFacts DEF FileKeeps
<1>2. CASE call[s].interrupted
  BY <1>1, <1>2 DEF FileKeeps
<1>3. CASE ~call[s].interrupted
  <2>1. call[s].tried \subseteq 1 .. written /\ call[s].tried \cap db.rows = {}
    BY <1>3, SessionFacts DEF BodiesKeep
  <2>2. MayReserve(s)
    BY <1>3, SessionFacts, WriterIsAlone DEF Paired
  <2>3. denied' \subseteq 1 .. written /\ denied' \cap db.rows = {}
    BY <1>1, <1>3, <2>1 DEF FileKeeps
  <2> QED
    BY <1>1, <2>2, <2>3 DEF FileKeeps
<1> QED
  BY <1>2, <1>3

LEMMA RollbackKeeps == ASSUME SqliteInv, NEW s \in Sessions, TransactionRollsBack(s) PROVE SqliteInv'
<1>1. /\ Connect(s, Fresh) /\ Call(s, NoCalls) /\ stuck' = stuck /\ call[s].kept # <<>>
      /\ denied' = IF call[s].interrupted THEN denied ELSE denied \cup call[s].tried
      /\ UNCHANGED <<db, written, promised>>
  BY SessionFacts, CallFields DEF TransactionRollsBack, Refused, Rollback
<1>2. stuck' \subseteq Sessions
  BY <1>1 DEF SqliteInv, FileKeeps
<1>3. /\ FileKeeps' /\ written <= written'
      /\ MayReserve(s) \/ (db' = db /\ denied' = denied)
  BY <1>1, <1>2, DenialKeeps
<1> QED
  BY <1>1, <1>3, StepKeeps, RestingKeeps, FreshAndResting

LEMMA CommitFailsKeeps == ASSUME SqliteInv, NEW s \in Sessions, CommitFails(s) PROVE SqliteInv'
<1>0. Len(call[s].kept) = 1 /\ call[s].kept # <<>>
  <2>1. Depth(s) = 1
    BY DEF CommitFails
  <2>2. Len(call[s].kept) = 1
    BY <2>1 DEF Depth
  <2>3. Len(<<>>) = 0
    OBVIOUS
  <2> QED
    BY <2>2, <2>3
<1>1. /\ UNCHANGED conn /\ Call(s, NoCalls)
      /\ stuck' = IF conn[s].open = "none" THEN stuck ELSE stuck \cup {s}
      /\ denied' = IF call[s].interrupted THEN denied ELSE denied \cup call[s].tried
      /\ UNCHANGED <<db, written, promised>> /\ call[s].at = "idle"
  BY DEF CommitFails, Refused
<1>2. stuck' \subseteq Sessions /\ stuck \subseteq stuck'
  BY <1>1 DEF SqliteInv, FileKeeps
<1>3. /\ FileKeeps' /\ written <= written'
      /\ MayReserve(s) \/ (db' = db /\ denied' = denied)
  BY <1>0, <1>1, <1>2, DenialKeeps
<1>4. conn[s].open = "begin" => conn[s].saved = <<>>
  <2>1. conn[s].open = "begin" => Len(conn[s].saved) = 0
    <3>1. Paired(conn[s], call[s])
      BY SessionFacts
    <3> QED
      BY <1>0, <3>1 DEF Paired
  <2>2. conn[s].saved \in Seq(Contents)
    BY SessionFacts, ConnectionFields
  <2> QED
    BY <2>1, <2>2, EmptySeq
<1>5. SessionKeeps(conn[s], NoCalls, db', denied', written')
  BY <1>1, <1>4, SessionFacts, DoneKeeps DEF Paired
<1>6. Connect(s, conn[s])
  BY <1>1, ConnectionStays
<1>7. conn[s].lock = "reserved" => MayReserve(s)
  BY WriterIsAlone
<1>8. stuck \ {s} \subseteq stuck' /\ (conn[s].open # "none" => s \in stuck')
  BY <1>1, <1>2
<1>9. db'.attestation = NoAttestation => db.attestation = NoAttestation /\ db'.catalog = db.catalog
  BY <1>1
<1> QED
  BY <1>1, <1>3, <1>5, <1>6, <1>7, <1>8, <1>9, StepKeeps, SessionFacts, FreshAndResting

-----------------------------------------------------------------------------
(* Migrations and adoption.                                                 *)

LEMMA MigrateKeeps ==
  ASSUME SqliteInv, NEW s \in Sessions, NEW p \in Programs, Migrate(s, p) PROVE SqliteInv'
<1> DEFINE c == [call[s] EXCEPT !.at = "migrate", !.program = p, !.todo = Statements[p]]
<1>1. /\ Connect(s, Reserved) /\ Call(s, c) /\ call[s].at = "idle" /\ call[s].kept = <<>>
      /\ MayReserve(s) /\ stuck' = stuck
  BY SessionFacts DEF Migrate, History
<1>2. /\ FileKeeps' /\ written' = written /\ written <= written' /\ db' = db
      /\ denied' = denied /\ stuck' \subseteq Sessions
  BY <1>1, FileStays DEF Migrate, History, SqliteInv, FileKeeps
<1>3. /\ c \in Calls /\ c.at = "migrate" /\ c.kept = <<>> /\ c.interrupted = call[s].interrupted
      /\ c.tried = call[s].tried /\ c.asked = call[s].asked /\ c.physical = call[s].physical
      /\ c.program = p /\ c.todo = Statements[p]
  BY <1>1, SessionFacts, SqliteAssumption DEF Calls, Places
<1> HIDE DEF c
<1>4. /\ call[s].tried = {} /\ ~call[s].interrupted
      /\ call[s].asked = {} /\ call[s].physical = {}
  BY <1>1, SessionFacts DEF Paired
<1>5. Len(<<>>) = 0 /\ DOMAIN <<>> = {} /\ MaxDepth \in Nat
  BY SqliteAssumption
<1>6. Paired(Reserved, c)
  BY <1>3, <1>4, <1>5, ReservedFields DEF Paired
<1>7. WriterKeeps(Reserved, c, db, denied, written)
  BY <1>3, <1>5, ReservedFields DEF WriterKeeps, SchemaOf, Elements, ChangesOf
<1>8. SessionKeeps(Reserved, c, db', denied', written')
  BY <1>2, <1>3, <1>6, <1>7 DEF SessionKeeps, BodiesKeep, ObservedStill
<1> QED
  BY <1>1, <1>2, <1>3, <1>8, StepKeeps, ReservedFields

\* A session that migrates has the file to itself, and no bodies.
LEMMA MigratingFacts ==
  ASSUME SqliteInv, NEW s \in Sessions, call[s].at \in {"migrate", "attest", "adopted"}
  PROVE  /\ conn[s].open = "begin" /\ conn[s].lock = "reserved" /\ conn[s].saved = <<>>
         /\ call[s].kept = <<>> /\ ~call[s].interrupted /\ call[s].tried = {}
         /\ Extends(conn[s].work, db, denied, written) /\ SchemaOf(conn[s].work, call[s], db)
         /\ MayReserve(s)
<1>1. /\ conn[s].open = "begin" /\ conn[s].lock = "reserved" /\ call[s].kept = <<>>
      /\ ~call[s].interrupted /\ call[s].tried = {} /\ Len(conn[s].saved) = 0
  BY SessionFacts DEF Paired
<1>2. conn[s].saved = <<>>
  BY <1>1, SessionFacts, ConnectionFields, EmptySeq
<1>3. Extends(conn[s].work, db, denied, written) /\ SchemaOf(conn[s].work, call[s], db)
  BY <1>1, SessionFacts DEF WriterKeeps, MayYetCommit
<1> QED
  BY <1>1, <1>2, <1>3, WriterIsAlone

\* The next place in a migration, with the work that belongs to it.
LEMMA MigratingKeeps ==
  ASSUME SqliteInv, NEW s \in Sessions, call[s].at \in {"migrate", "attest", "adopted"},
         NEW k \in Connections, NEW c \in Calls, Connect(s, k), Call(s, c),
         k.open = conn[s].open, k.lock = conn[s].lock, k.saved = conn[s].saved,
         k.work.rows = conn[s].work.rows,
         c.at \in {"migrate", "attest"}, c.kept = call[s].kept, c.tried = call[s].tried,
         c.interrupted = call[s].interrupted, c.asked = {}, c.physical = {},
         c.program \in Programs, SchemaOf(k.work, c, db), UNCHANGED <<db, History>>
  PROVE  SqliteInv'
<1>1. /\ FileKeeps' /\ written' = written /\ written <= written' /\ db' = db
      /\ denied' = denied /\ stuck' = stuck
  BY FileStays DEF History, SqliteInv, FileKeeps
<1>2. /\ k.open = "begin" /\ k.lock = "reserved" /\ k.saved = <<>> /\ c.kept = <<>>
      /\ ~c.interrupted /\ c.tried = {} /\ Extends(k.work, db, denied, written)
      /\ MayReserve(s)
  BY MigratingFacts DEF Extends
<1>3. Len(<<>>) = 0 /\ DOMAIN <<>> = {} /\ MaxDepth \in Nat
  BY SqliteAssumption
<1>4. Paired(k, c)
  BY <1>2, <1>3 DEF Paired
<1>5. WriterKeeps(k, c, db, denied, written)
  BY <1>2, <1>3 DEF WriterKeeps
<1>6. SessionKeeps(k, c, db', denied', written')
  BY <1>1, <1>2, <1>4, <1>5 DEF SessionKeeps, BodiesKeep, ObservedStill
<1>7. c.at # "idle"
  OBVIOUS
<1> QED
  BY <1>1, <1>2, <1>6, <1>7, StepKeeps

LEMMA StatementKeeps == ASSUME SqliteInv, NEW s \in Sessions, MigrateStatement(s) PROVE SqliteInv'
<1> DEFINE q == call[s].todo
           w == [conn[s].work EXCEPT !.catalog = @ \cup {Head(q)}]
           k == [conn[s] EXCEPT !.work = w]
           c == [call[s] EXCEPT !.todo = Tail(@)]
<1>1. /\ Connect(s, k) /\ Call(s, c) /\ call[s].at = "migrate" /\ q # <<>>
      /\ UNCHANGED <<db, History>>
  BY DEF MigrateStatement
<1>2. q \in Seq(STRING) /\ conn[s].work \in Contents
  BY SessionFacts, CallFields, ConnectionFields
<1> HIDE DEF q
<1>3. Len(q) \in Nat \ {0} /\ DOMAIN q = 1 .. Len(q)
  BY <1>1, <1>2, LenProperties, EmptySeq
<1>4. /\ Tail(q) \in Seq(STRING) /\ Len(Tail(q)) = Len(q) - 1 /\ Head(q) = q[1]
      /\ \A i \in 1 .. Len(Tail(q)) : Tail(q)[i] = q[i + 1]
  BY <1>1, <1>2, HeadTailProperties
<1>5. Elements(q) = {Head(q)} \cup Elements(Tail(q))
  <2>1. DOMAIN Tail(q) = 1 .. Len(q) - 1
    BY <1>4, LenProperties
  <2>2. Elements(q) \subseteq {Head(q)} \cup Elements(Tail(q))
    <3> SUFFICES ASSUME NEW i \in DOMAIN q PROVE q[i] \in {Head(q)} \cup Elements(Tail(q))
      BY DEF Elements
    <3>1. CASE i = 1
      BY <1>4, <3>1
    <3>2. CASE i # 1
      <4>1. i - 1 \in DOMAIN Tail(q) /\ i - 1 \in 1 .. Len(Tail(q)) /\ (i - 1) + 1 = i
        BY <1>3, <1>4, <2>1, <3>2
      <4>2. Tail(q)[i - 1] = q[i]
        BY <1>4, <4>1
      <4> QED
        BY <4>1, <4>2 DEF Elements
    <3> QED
      BY <3>1, <3>2
  <2>3. Elements(Tail(q)) \subseteq Elements(q)
    <3> SUFFICES ASSUME NEW i \in DOMAIN Tail(q) PROVE Tail(q)[i] \in Elements(q)
      BY DEF Elements
    <3>1. i + 1 \in DOMAIN q /\ i \in 1 .. Len(Tail(q))
      BY <1>3, <1>4, <2>1
    <3> QED
      BY <1>4, <3>1 DEF Elements
  <2>4. Head(q) \in Elements(q)
    <3>1. 1 \in DOMAIN q
      BY <1>3
    <3> QED
      BY <1>4, <3>1 DEF Elements
  <2> QED
    BY <2>2, <2>3, <2>4
<1>6. /\ conn[s].work.attestation = db.attestation /\ call[s].program \in Programs
      /\ conn[s].work.catalog \cup Elements(q) = db.catalog \cup ChangesOf(call[s].program)
      /\ call[s].asked = {} /\ call[s].physical = {}
  BY <1>1, MigratingFacts, SessionFacts DEF SchemaOf, q, Paired
<1>7. Head(q) \in Changes /\ conn[s].work.catalog \subseteq Changes
  <2>1. db.catalog \subseteq Changes
    BY SessionFacts, ContentFields DEF FileKeeps
  <2> QED
    BY <1>2, <1>5, <1>6, <2>1, ChangesAreNames, ContentFields
<1>8. /\ w \in Contents /\ w.catalog = conn[s].work.catalog \cup {Head(q)}
      /\ w.rows = conn[s].work.rows /\ w.attestation = conn[s].work.attestation
  BY <1>2, <1>7 DEF Contents
<1> HIDE DEF w
<1>9. /\ k \in Connections /\ k.open = conn[s].open /\ k.lock = conn[s].lock
      /\ k.saved = conn[s].saved /\ k.work = w
  BY <1>8, SessionFacts DEF Connections
<1>10. /\ c \in Calls /\ c.at = "migrate" /\ c.kept = call[s].kept /\ c.tried = call[s].tried
       /\ c.interrupted = call[s].interrupted /\ c.asked = call[s].asked
       /\ c.physical = call[s].physical /\ c.program = call[s].program /\ c.todo = Tail(q)
  BY <1>1, <1>4, SessionFacts DEF Calls, q
<1> HIDE DEF k, c
<1>11. SchemaOf(k.work, c, db)
  BY <1>5, <1>6, <1>8, <1>9, <1>10 DEF SchemaOf
<1> QED
  BY <1>1, <1>6, <1>8, <1>9, <1>10, <1>11, MigratingKeeps

LEMMA AttestKeeps == ASSUME SqliteInv, NEW s \in Sessions, WriteAttestation(s) PROVE SqliteInv'
<1> DEFINE a == [revision |-> call[s].program, physical |-> conn[s].work.catalog]
           w == [conn[s].work EXCEPT !.attestation = a]
           k == [conn[s] EXCEPT !.work = w]
           c == [call[s] EXCEPT !.at = "attest"]
<1>1. /\ Connect(s, k) /\ Call(s, c) /\ call[s].at = "migrate" /\ call[s].todo = <<>>
      /\ UNCHANGED <<db, History>>
  BY DEF WriteAttestation, Introspected
<1>2. conn[s].work \in Contents /\ conn[s].work.catalog \subseteq Changes
  BY SessionFacts, ConnectionFields, ContentFields
<1>3. /\ conn[s].work.catalog \cup Elements(<<>>) = db.catalog \cup ChangesOf(call[s].program)
      /\ call[s].program \in Programs /\ call[s].asked = {} /\ call[s].physical = {}
  BY <1>1, MigratingFacts, SessionFacts DEF SchemaOf, Paired
<1>4. Elements(<<>>) = {}
  BY DEF Elements
<1>5. a \in Attestations /\ a.physical = conn[s].work.catalog /\ a # NoAttestation
  BY <1>2, <1>3, AttestationsAreSome DEF Attestations
<1> HIDE DEF a
<1>6. /\ w \in Contents /\ w.catalog = conn[s].work.catalog /\ w.rows = conn[s].work.rows
      /\ w.attestation = a
  BY <1>2, <1>5 DEF Contents
<1> HIDE DEF w
<1>7. /\ k \in Connections /\ k.open = conn[s].open /\ k.lock = conn[s].lock
      /\ k.saved = conn[s].saved /\ k.work = w
  BY <1>6, SessionFacts DEF Connections
<1>8. /\ c \in Calls /\ c.at = "attest" /\ c.kept = call[s].kept /\ c.tried = call[s].tried
      /\ c.interrupted = call[s].interrupted /\ c.asked = call[s].asked
      /\ c.physical = call[s].physical /\ c.program = call[s].program
  BY SessionFacts DEF Calls, Places
<1> HIDE DEF k, c
<1>9. SchemaOf(k.work, c, db)
  BY <1>3, <1>4, <1>5, <1>6, <1>7, <1>8 DEF SchemaOf
<1> QED
  BY <1>1, <1>3, <1>6, <1>7, <1>8, <1>9, MigratingKeeps

LEMMA MigrationRollbackKeeps ==
  ASSUME SqliteInv, NEW s \in Sessions, MigrationRollsBack(s) PROVE SqliteInv'
<1>1. Connect(s, Fresh) /\ Call(s, NoCalls) /\ stuck' = stuck
  BY DEF MigrationRollsBack, Rollback, History
<1>2. /\ FileKeeps' /\ written' = written /\ written <= written' /\ db' = db
      /\ denied' = denied
  BY <1>1, FileStays DEF MigrationRollsBack, History, SqliteInv, FileKeeps
<1> QED
  BY <1>1, <1>2, StepKeeps, RestingKeeps, FreshAndResting

LEMMA VerifyKeeps == ASSUME SqliteInv, NEW s \in Sessions, Verify(s) PROVE SqliteInv'
<1> DEFINE c == [call[s] EXCEPT !.at = "observe"]
<1>1. /\ UNCHANGED conn /\ conn[s] = Fresh /\ Call(s, c) /\ stuck' = stuck
      /\ call[s].at = "idle" /\ call[s].kept = <<>>
  BY SessionFacts DEF Verify, History
<1>2. /\ FileKeeps' /\ written' = written /\ written <= written' /\ db' = db
      /\ denied' = denied
  BY <1>1, FileStays DEF Verify, History, SqliteInv, FileKeeps
<1>3. Connect(s, Fresh)
  BY <1>1, ConnectionStays
<1>4. /\ c \in Calls /\ c.at = "observe" /\ c.kept = call[s].kept /\ c.tried = call[s].tried
      /\ c.interrupted = call[s].interrupted /\ c.asked = call[s].asked
      /\ c.physical = call[s].physical
  BY SessionFacts DEF Calls, Places
<1> HIDE DEF c
<1>5. /\ call[s].tried = {} /\ ~call[s].interrupted
      /\ call[s].asked = {} /\ call[s].physical = {}
  BY <1>1, SessionFacts DEF Paired
<1>6. Len(<<>>) = 0 /\ MaxDepth \in Nat
  BY SqliteAssumption
<1>7. Paired(Fresh, c)
  BY <1>1, <1>4, <1>5, <1>6, FreshAndResting DEF Paired
<1>8. ObservedStill(c, db)
  BY <1>4, <1>5 DEF ObservedStill
<1>9. SessionKeeps(Fresh, c, db', denied', written')
  BY <1>2, <1>7, <1>8, ReadersKeep, FreshAndResting
<1> QED
  BY <1>1, <1>2, <1>3, <1>4, <1>9, StepKeeps, FreshAndResting

\* What was observed of the catalog so far is still so, or there is an attestation.
LEMMA IntrospectKeeps ==
  ASSUME SqliteInv, NEW s \in Sessions, NEW x \in Changes, Introspect(s, x) PROVE SqliteInv'
<1> DEFINE c == [call[s] EXCEPT !.asked = @ \cup {x},
                                !.physical = @ \cup ({x} \cap db.catalog)]
<1>1. UNCHANGED conn /\ Call(s, c) /\ call[s].at = "observe" /\ stuck' = stuck
  BY DEF Introspect, History
<1>2. /\ FileKeeps' /\ written' = written /\ written <= written' /\ db' = db
      /\ denied' = denied
  BY <1>1, FileStays DEF Introspect, History, SqliteInv, FileKeeps
<1>3. Connect(s, Fresh)
  <2>1. conn[s] = Fresh
    BY <1>1, SessionFacts DEF Paired
  <2> QED
    BY <1>1, <2>1, ConnectionStays
<1>4. /\ c \in Calls /\ c.at = "observe" /\ c.kept = call[s].kept /\ c.tried = call[s].tried
      /\ c.interrupted = call[s].interrupted /\ c.asked = call[s].asked \cup {x}
      /\ c.physical = call[s].physical \cup ({x} \cap db.catalog)
  BY <1>1, SessionFacts DEF Calls
<1> HIDE DEF c
<1>5. Paired(conn[s], call[s]) /\ ObservedStill(call[s], db)
  BY SessionFacts
<1>6. conn[s] = Fresh /\ call[s].kept = <<>>
  BY <1>1, <1>5 DEF Paired
<1>7. Paired(Fresh, c)
  BY <1>1, <1>4, <1>5, <1>6, FreshAndResting DEF Paired
<1>8. ObservedStill(c, db)
  BY <1>1, <1>4, <1>5 DEF ObservedStill
<1>9. SessionKeeps(Fresh, c, db', denied', written')
  BY <1>2, <1>7, <1>8, ReadersKeep, FreshAndResting
<1> QED
  BY <1>1, <1>2, <1>3, <1>4, <1>9, StepKeeps, FreshAndResting

LEMMA ReadAttestationKeeps ==
  ASSUME SqliteInv, NEW s \in Sessions, ReadAttestation(s) PROVE SqliteInv'
<1> DEFINE c == [call[s] EXCEPT !.at = "adopt"]
<1>1. /\ UNCHANGED conn /\ call[s].at = "observe" /\ call[s].asked = Changes /\ stuck' = stuck
      /\ Call(s, NoCalls) \/ Call(s, c)
  BY DEF ReadAttestation, History
<1>2. /\ FileKeeps' /\ written' = written /\ written <= written' /\ db' = db
      /\ denied' = denied
  BY <1>1, FileStays DEF ReadAttestation, History, SqliteInv, FileKeeps
<1>3. Paired(conn[s], call[s]) /\ ObservedStill(call[s], db)
  BY SessionFacts
<1>4. conn[s] = Fresh /\ call[s].kept = <<>>
  BY <1>1, <1>3 DEF Paired
<1>5. Connect(s, Fresh)
  BY <1>1, <1>4, ConnectionStays
<1>6. CASE Call(s, NoCalls)
  BY <1>1, <1>2, <1>5, <1>6, StepKeeps, RestingKeeps, FreshAndResting
<1>7. CASE Call(s, c)
  <2>1. /\ c \in Calls /\ c.at = "adopt" /\ c.kept = call[s].kept /\ c.tried = call[s].tried
        /\ c.interrupted = call[s].interrupted /\ c.asked = call[s].asked
        /\ c.physical = call[s].physical
    BY SessionFacts DEF Calls, Places
  <2> HIDE DEF c
  <2>2. Paired(Fresh, c)
    BY <1>1, <1>3, <1>4, <2>1, FreshAndResting DEF Paired
  <2>3. Changes \cap db.catalog = db.catalog
    BY SessionFacts, ContentFields DEF FileKeeps
  <2>4. ObservedStill(c, db)
    BY <1>1, <1>3, <2>1, <2>3 DEF ObservedStill
  <2>5. SessionKeeps(Fresh, c, db', denied', written')
    BY <1>2, <2>2, <2>4, ReadersKeep, FreshAndResting
  <2> QED
    BY <1>1, <1>2, <1>5, <1>7, <2>1, <2>5, StepKeeps, FreshAndResting
<1> QED
  BY <1>1, <1>6, <1>7

LEMMA AdoptKeeps == ASSUME SqliteInv, NEW s \in Sessions, Adopt(s) PROVE SqliteInv'
<1> DEFINE a == [revision |-> NoProgram, physical |-> call[s].physical]
           k == [Reserved EXCEPT !.work.attestation = a]
           c == [call[s] EXCEPT !.at = "adopted"]
<1>1. call[s].at = "adopt" /\ stuck' = stuck
  BY DEF Adopt, History
<1>2. /\ FileKeeps' /\ written' = written /\ written <= written' /\ db' = db
      /\ denied' = denied
  BY <1>1, FileStays DEF Adopt, History, SqliteInv, FileKeeps
<1>3. Paired(conn[s], call[s]) /\ ObservedStill(call[s], db)
  BY SessionFacts
<1>4. conn[s] = Fresh /\ call[s].kept = <<>>
  BY <1>1, <1>3 DEF Paired
<1>5. CASE ~CreatesTable(s)
  <2>1. Connect(s, Fresh) /\ Call(s, NoCalls)
    BY <1>4, <1>5, ConnectionStays DEF Adopt
  <2> QED
    BY <1>1, <1>2, <2>1, StepKeeps, RestingKeeps, FreshAndResting
<1>6. CASE CreatesTable(s)
  <2>1. Connect(s, k) /\ Call(s, c) /\ MayReserve(s) /\ db.attestation = NoAttestation
    BY <1>6 DEF Adopt, CreatesTable
  <2>2. a \in Attestations /\ a # NoAttestation /\ a.physical = call[s].physical
    BY SessionFacts, CallFields, AttestationsAreSome DEF Attestations
  <2> HIDE DEF a
  <2>3. db \in Contents
    BY SessionFacts DEF FileKeeps
  <2> DEFINE w == [db EXCEPT !.attestation = a]
  <2>4. /\ w \in Contents /\ w.catalog = db.catalog /\ w.rows = db.rows /\ w.attestation = a
    BY <2>2, <2>3 DEF Contents
  <2>5. k = [Reserved EXCEPT !.work = w]
    BY ReservedFields DEF Connections
  <2> HIDE DEF w, k
  <2>6. /\ k \in Connections /\ k.open = "begin" /\ k.lock = "reserved" /\ k.saved = <<>>
        /\ k.work = w
    BY <2>4, <2>5, ReservedFields DEF Connections
  <2>7. /\ c \in Calls /\ c.at = "adopted" /\ c.kept = call[s].kept /\ c.tried = call[s].tried
        /\ c.interrupted = call[s].interrupted
    BY SessionFacts DEF Calls, Places
  <2> HIDE DEF c
  <2>8. Len(<<>>) = 0 /\ DOMAIN <<>> = {} /\ MaxDepth \in Nat
    BY SqliteAssumption
  <2>9. Paired(k, c)
    BY <1>1, <1>3, <1>4, <2>6, <2>7, <2>8 DEF Paired
  <2>10. call[s].physical = db.catalog
    BY <1>1, <1>3, <2>1 DEF ObservedStill
  <2>11. Extends(w, db, denied, written) /\ SchemaOf(w, c, db)
    BY <2>2, <2>4, <2>7, <2>10, ReservedFields DEF Extends, SchemaOf
  <2>12. WriterKeeps(k, c, db, denied, written)
    BY <2>6, <2>8, <2>11 DEF WriterKeeps
  <2>13. SessionKeeps(k, c, db', denied', written')
    BY <1>2, <1>4, <2>7, <2>9, <2>12 DEF SessionKeeps, BodiesKeep, ObservedStill
  <2>14. c.at # "idle"
    BY <2>7
  <2> QED
    BY <1>1, <1>2, <2>1, <2>6, <2>7, <2>13, <2>14, StepKeeps
<1> QED
  BY <1>5, <1>6

-----------------------------------------------------------------------------
(* A commit replaces the file by what the connection keeps.                 *)

\* Adding the changes of one more program to whole programs.
LEMMA OneMoreProgram ==
  ASSUME NEW catalog, Whole(catalog), NEW p \in Programs
  PROVE  Whole(catalog \cup ChangesOf(p))
<1>1. PICK done \in SUBSET Programs : catalog = UNION {ChangesOf(q) : q \in done}
  BY DEF Whole
<1>2. catalog \cup ChangesOf(p) = UNION {ChangesOf(q) : q \in done \cup {p}}
  BY <1>1
<1> QED
  BY <1>2 DEF Whole

LEMMA CommittedFile ==
  ASSUME SqliteInv, NEW s \in Sessions,
         call[s].kept # <<>> \/ call[s].at \in {"attest", "adopted"},
         call[s].kept # <<>> => call[s].at = "idle"
  PROVE  /\ Stored(s) \in Contents /\ Sound(Stored(s)) /\ Extends(Stored(s), db, denied, written)
         /\ Stored(s).attestation = NoAttestation =>
              db.attestation = NoAttestation /\ Stored(s).catalog = db.catalog
         /\ MayReserve(s) \/ Stored(s) = db
<1>1. db \in Contents /\ Sound(db) /\ Extends(db, db, denied, written)
  BY SessionFacts, ReservedFields DEF FileKeeps
<1>2. CASE conn[s].lock # "reserved"
  BY <1>1, <1>2 DEF Stored
<1>3. CASE conn[s].lock = "reserved"
  <2> DEFINE w == conn[s].work
  <2>1. Stored(s) = w /\ w \in Contents /\ MayReserve(s)
    BY <1>3, SessionFacts, ConnectionFields, WriterIsAlone DEF Stored
  <2>2. Extends(w, db, denied, written) /\ SchemaOf(w, call[s], db)
    BY <1>3, SessionFacts DEF WriterKeeps, MayYetCommit
  <2> HIDE DEF w
  <2>3. CASE call[s].kept # <<>>
    <3>1. SameSchema(w, db)
      BY <2>2, <2>3 DEF SchemaOf
    <3>2. Sound(w)
      BY <1>1, <3>1 DEF SameSchema, Sound
    <3> QED
      BY <2>1, <2>2, <3>1, <3>2 DEF SameSchema
  <2>4. CASE call[s].at = "attest"
    <3>1. call[s].program \in Programs
      BY <2>4, SessionFacts DEF Paired
    <3>2. /\ w.attestation # NoAttestation /\ w.attestation.physical = w.catalog
          /\ w.catalog = db.catalog \cup ChangesOf(call[s].program)
      BY <2>2, <2>4 DEF SchemaOf
    <3>3. Whole(w.catalog)
      BY <1>1, <3>1, <3>2, OneMoreProgram DEF Sound
    <3> QED
      BY <2>1, <2>2, <3>2, <3>3 DEF Sound
  <2>5. CASE call[s].at = "adopted"
    <3>1. /\ w.attestation # NoAttestation /\ w.attestation.physical = w.catalog
          /\ w.catalog = db.catalog
      BY <2>2, <2>5 DEF SchemaOf
    <3> QED
      BY <1>1, <2>1, <2>2, <3>1 DEF Sound
  <2> QED
    BY <2>3, <2>4, <2>5
<1> QED
  BY <1>2, <1>3

\* With it, the rows that are answered for are in the file.
LEMMA CommitKeepsFile ==
  ASSUME SqliteInv, NEW s \in Sessions,
         call[s].kept # <<>> \/ call[s].at \in {"attest", "adopted"},
         call[s].kept # <<>> => call[s].at = "idle",
         db' = Stored(s), UNCHANGED <<written, denied>>, stuck' \subseteq Sessions,
         promised' \subseteq db.rows \cup Stored(s).rows
  PROVE  /\ FileKeeps' /\ written <= written'
         /\ MayReserve(s) \/ (db' = db /\ denied' = denied)
         /\ db'.attestation = NoAttestation =>
              db.attestation = NoAttestation /\ db'.catalog = db.catalog
<1>1. /\ Stored(s) \in Contents /\ Sound(Stored(s)) /\ Extends(Stored(s), db, denied, written)
      /\ Stored(s).attestation = NoAttestation =>
           db.attestation = NoAttestation /\ Stored(s).catalog = db.catalog
      /\ MayReserve(s) \/ Stored(s) = db
  BY CommittedFile
<1>2. FileKeeps /\ written \in Nat
  BY SessionFacts DEF FileKeeps
<1>3. db' \in Contents /\ Sound(db') /\ Extends(db', db, denied, written)
  BY <1>1
<1>4. FileKeeps'
  BY <1>2, <1>3 DEF FileKeeps, Extends
<1> QED
  BY <1>1, <1>2, <1>4

LEMMA CommitKeeps == ASSUME SqliteInv, NEW s \in Sessions, TransactionCommits(s) PROVE SqliteInv'
<1>1. /\ Connect(s, Fresh) /\ Call(s, NoCalls) /\ db' = Stored(s) /\ call[s].at = "idle"
      /\ UNCHANGED <<written, denied>> /\ stuck' = stuck
      /\ promised' = IF call[s].interrupted THEN promised ELSE promised \cup Top(s)
  BY DEF TransactionCommits, Committed
<1>2. Len(call[s].kept) = 1 /\ call[s].kept # <<>> /\ Depth(s) = 1
  <2>1. Depth(s) = 1
    BY DEF TransactionCommits
  <2>2. Len(call[s].kept) = 1 /\ Len(<<>>) = 0
    BY <2>1 DEF Depth
  <2> QED
    BY <2>1, <2>2
<1>3. promised \subseteq db.rows /\ stuck' \subseteq Sessions
  BY <1>1, SessionFacts DEF FileKeeps
<1>4. ~call[s].interrupted => Top(s) \subseteq Stored(s).rows
  <2> SUFFICES ASSUME ~call[s].interrupted PROVE Top(s) \subseteq Stored(s).rows
    OBVIOUS
  <2>1. conn[s].lock = "reserved"
    BY <1>2, SessionFacts DEF Paired
  <2>2. 1 \in DOMAIN call[s].kept
    BY <1>2, SessionFacts, CallFields
  <2>3. call[s].kept[1] \subseteq conn[s].work.rows
    BY <1>2, <2>2, SessionFacts DEF BodiesKeep
  <2> QED
    BY <1>2, <2>1, <2>3 DEF Top, Stored
<1>5. promised' \subseteq db.rows \cup Stored(s).rows
  BY <1>1, <1>3, <1>4
<1>6. /\ FileKeeps' /\ written <= written'
      /\ MayReserve(s) \/ (db' = db /\ denied' = denied)
      /\ db'.attestation = NoAttestation =>
           db.attestation = NoAttestation /\ db'.catalog = db.catalog
  BY <1>1, <1>2, <1>3, <1>5, CommitKeepsFile
<1> QED
  BY <1>1, <1>6, StepKeeps, RestingKeeps, FreshAndResting

LEMMA MigrationCommitKeeps ==
  ASSUME SqliteInv, NEW s \in Sessions, MigrationCommits(s) PROVE SqliteInv'
<1>1. /\ call[s].at = "attest" /\ Call(s, NoCalls) /\ UNCHANGED <<written, promised, denied>>
  BY DEF MigrationCommits
<1>2. FileKeeps /\ call[s].kept = <<>>
  BY <1>1, SessionFacts, MigratingFacts
<1>3. CASE Commits(s)
  <2>1. db' = Stored(s) /\ Connect(s, Fresh) /\ stuck' = stuck
    BY <1>3 DEF MigrationCommits
  <2>2. promised' \subseteq db.rows \cup Stored(s).rows /\ stuck' \subseteq Sessions
    BY <1>1, <1>2, <2>1 DEF FileKeeps
  <2>3. /\ FileKeeps' /\ written <= written'
        /\ MayReserve(s) \/ (db' = db /\ denied' = denied)
        /\ db'.attestation = NoAttestation =>
             db.attestation = NoAttestation /\ db'.catalog = db.catalog
    BY <1>1, <1>2, <2>1, <2>2, CommitKeepsFile
  <2> QED
    BY <1>1, <2>1, <2>3, StepKeeps, RestingKeeps, FreshAndResting
<1>4. CASE ~Commits(s)
  <2>1. stuck' = stuck \cup {s} /\ UNCHANGED <<db, conn>>
    BY <1>4 DEF MigrationCommits
  <2>2. /\ FileKeeps' /\ written' = written /\ written <= written' /\ db' = db
        /\ denied' = denied
    BY <1>1, <1>2, <2>1, FileStays DEF FileKeeps
  <2>3. /\ conn[s].open = "begin" /\ conn[s].lock = "reserved" /\ conn[s].saved = <<>>
        /\ MayReserve(s)
    BY <1>1, MigratingFacts
  <2>4. SessionKeeps(conn[s], NoCalls, db', denied', written')
    BY <2>3, SessionFacts, DoneKeeps
  <2>5. Connect(s, conn[s])
    BY <2>1, ConnectionStays
  <2>6. stuck \ {s} \subseteq stuck' /\ s \in stuck'
    BY <2>1
  <2> QED
    BY <1>1, <2>2, <2>3, <2>4, <2>5, <2>6, StepKeeps, SessionFacts, FreshAndResting
<1> QED
  BY <1>3, <1>4

LEMMA AdoptCommitKeeps == ASSUME SqliteInv, NEW s \in Sessions, AdoptCommits(s) PROVE SqliteInv'
<1>1. /\ call[s].at = "adopted" /\ Connect(s, Fresh) /\ Call(s, NoCalls)
      /\ UNCHANGED <<written, promised, denied>> /\ stuck' = stuck
      /\ db' = IF Commits(s) THEN Stored(s) ELSE db
  BY DEF AdoptCommits, History
<1>2. FileKeeps /\ call[s].kept = <<>> /\ stuck' \subseteq Sessions
  BY <1>1, SessionFacts, MigratingFacts DEF FileKeeps
<1>3. CASE Commits(s)
  <2>1. promised' \subseteq db.rows \cup Stored(s).rows /\ db' = Stored(s)
    BY <1>1, <1>2, <1>3 DEF FileKeeps
  <2>2. /\ FileKeeps' /\ written <= written'
        /\ MayReserve(s) \/ (db' = db /\ denied' = denied)
        /\ db'.attestation = NoAttestation =>
             db.attestation = NoAttestation /\ db'.catalog = db.catalog
    BY <1>1, <1>2, <2>1, CommitKeepsFile
  <2> QED
    BY <1>1, <2>2, StepKeeps, RestingKeeps, FreshAndResting
<1>4. CASE ~Commits(s)
  <2>1. /\ FileKeeps' /\ written' = written /\ written <= written' /\ db' = db
        /\ denied' = denied
    BY <1>1, <1>2, <1>4, FileStays
  <2> QED
    BY <1>1, <2>1, StepKeeps, RestingKeeps, FreshAndResting
<1> QED
  BY <1>3, <1>4

-----------------------------------------------------------------------------
(* Mutations: each row is a new number, above all that was written, denied  *)
(* or kept.                                                                 *)

LEMMA RowIsNew ==
  ASSUME SqliteInv, written < MaxWrites
  PROVE  /\ Row \in Rows /\ Row \in Nat /\ written <= Row /\ Row \in 0 .. MaxWrites
         /\ Row \notin 1 .. written /\ Row \in 1 .. Row /\ 1 .. written \subseteq 1 .. Row
<1>1. written \in 0 .. MaxWrites /\ MaxWrites \in Nat
  BY SqliteAssumption DEF SqliteInv, FileKeeps
<1> QED
  BY <1>1 DEF Row, Rows

LEMMA ToldFields ==
  ASSUME SqliteInv, NEW s \in Sessions, NEW ok \in BOOLEAN, written < MaxWrites
  PROVE  /\ Told(s, ok) \in Calls /\ Told(s, ok).at = call[s].at
         /\ Told(s, ok).interrupted = call[s].interrupted
         /\ Told(s, ok).asked = call[s].asked /\ Told(s, ok).physical = call[s].physical
         /\ Told(s, ok).program = call[s].program
         /\ Told(s, ok).tried = IF call[s].kept = <<>> THEN {} ELSE call[s].tried \cup {Row}
         /\ Len(Told(s, ok).kept) = Len(call[s].kept)
         /\ DOMAIN Told(s, ok).kept = DOMAIN call[s].kept
         /\ Told(s, ok).kept = <<>> <=> call[s].kept = <<>>
         /\ \A j \in DOMAIN call[s].kept :
              Told(s, ok).kept[j] =
                IF ok /\ j = Len(call[s].kept) THEN call[s].kept[j] \cup {Row}
                ELSE call[s].kept[j]
<1> DEFINE q == call[s].kept
           t == IF Depth(s) = 0 THEN {} ELSE call[s].tried \cup {Row}
           kept == IF Depth(s) = 0 \/ ~ok THEN q
                   ELSE [q EXCEPT ![Depth(s)] = q[Depth(s)] \cup {Row}]
<1>1. /\ q \in Seq(SUBSET Rows) /\ Len(q) \in Nat /\ DOMAIN q = 1 .. Len(q)
      /\ Len(q) = 0 <=> q = <<>>
      /\ Depth(s) = Len(q) /\ call[s].tried \subseteq Rows /\ call[s] \in Calls
      /\ \A j \in DOMAIN q : q[j] \subseteq Rows
  BY SessionFacts, CallFields
<1>2. Row \in Rows
  BY RowIsNew
<1>3. Told(s, ok) = [call[s] EXCEPT !.tried = t, !.kept = kept]
  BY DEF Told, Top
<1>4. t \in SUBSET Rows /\ t = IF q = <<>> THEN {} ELSE call[s].tried \cup {Row}
  BY <1>1, <1>2
<1> HIDE DEF q, t
<1>5. /\ kept \in Seq(SUBSET Rows) /\ Len(kept) = Len(q)
      /\ \A j \in 1 .. Len(q) :
           kept[j] = IF ok /\ j = Len(q) THEN q[j] \cup {Row} ELSE q[j]
  <2>1. CASE Depth(s) = 0 \/ ~ok
    <3>1. kept = q
      BY <2>1
    <3>2. ASSUME NEW j \in 1 .. Len(q) PROVE ~ok \/ j # Len(q)
      <4>1. Depth(s) # 0
        BY <1>1
      <4> QED
        BY <2>1, <4>1
    <3> HIDE DEF kept
    <3> QED
      BY <1>1, <3>1, <3>2
  <2>2. CASE ~(Depth(s) = 0 \/ ~ok)
    <3>1. Depth(s) \in 1 .. Len(q)
      BY <1>1, <2>2
    <3>2. q[Depth(s)] \cup {Row} \in SUBSET Rows
      BY <1>1, <1>2, <3>1
    <3>3. kept = [q EXCEPT ![Depth(s)] = q[Depth(s)] \cup {Row}]
      BY <2>2
    <3> HIDE DEF kept
    <3>4. /\ kept \in Seq(SUBSET Rows) /\ Len(kept) = Len(q)
          /\ \A j \in 1 .. Len(q) :
               kept[j] = IF j = Depth(s) THEN q[Depth(s)] \cup {Row} ELSE q[j]
      BY <1>1, <3>1, <3>2, <3>3, ExceptSeq
    <3> QED
      BY <1>1, <2>2, <3>4
  <2> QED
    BY <2>1, <2>2
<1> HIDE DEF kept
<1>6. DOMAIN kept = 1 .. Len(q) /\ (kept = <<>> <=> q = <<>>)
  <2>1. DOMAIN kept = 1 .. Len(kept) /\ (Len(kept) = 0 <=> kept = <<>>)
    BY <1>5, LenProperties, EmptySeq
  <2> QED
    BY <1>1, <1>5, <2>1
<1> DEFINE c == [call[s] EXCEPT !.tried = t, !.kept = kept]
<1>7. /\ c \in Calls /\ c.at = call[s].at /\ c.interrupted = call[s].interrupted
      /\ c.asked = call[s].asked /\ c.physical = call[s].physical
      /\ c.program = call[s].program /\ c.tried = t /\ c.kept = kept
  BY <1>1, <1>4, <1>5 DEF Calls
<1> HIDE DEF c
<1>8. Told(s, ok) = c
  BY <1>3 DEF c
<1> QED
  BY <1>1, <1>4, <1>5, <1>6, <1>7, <1>8 DEF q

LEMMA MutateAloneKeeps ==
  ASSUME SqliteInv, NEW s \in Sessions, NEW ok \in BOOLEAN, MutateAlone(s, ok)
  PROVE  SqliteInv'
<1> DEFINE c == Told(s, ok)
<1>1. /\ call[s].at = "idle" /\ conn[s].open = "none" /\ written < MaxWrites /\ MayReserve(s)
      /\ db' = [db EXCEPT !.rows = @ \cup {Row}] /\ written' = Row /\ Call(s, c)
      /\ promised' = IF ok /\ Depth(s) = 0 THEN promised \cup {Row} ELSE promised
      /\ UNCHANGED <<conn, denied, stuck>>
  BY DEF MutateAlone
<1>2. /\ Row \in Rows /\ Row \in Nat /\ written <= Row /\ Row \in 0 .. MaxWrites
      /\ Row \notin 1 .. written /\ Row \in 1 .. Row /\ 1 .. written \subseteq 1 .. Row
  BY <1>1, RowIsNew
<1>3. FileKeeps
  BY SessionFacts
<1>4. /\ db' \in Contents /\ db'.catalog = db.catalog /\ db'.rows = db.rows \cup {Row}
      /\ db'.attestation = db.attestation
  BY <1>1, <1>2, <1>3 DEF FileKeeps, Contents
<1>5. FileKeeps'
  <2>1. Sound(db')
    BY <1>3, <1>4 DEF FileKeeps, Sound
  <2>2. db'.rows \subseteq 1 .. Row /\ promised' \subseteq db'.rows
    BY <1>1, <1>2, <1>3, <1>4 DEF FileKeeps
  <2>3. denied \subseteq 1 .. Row /\ denied \cap db'.rows = {}
    BY <1>2, <1>3, <1>4 DEF FileKeeps
  <2> QED
    BY <1>1, <1>2, <1>3, <1>4, <2>1, <2>2, <2>3 DEF FileKeeps
<1>6. /\ c \in Calls /\ c.at = "idle" /\ c.interrupted = call[s].interrupted
      /\ c.asked = call[s].asked /\ c.physical = call[s].physical
      /\ Len(c.kept) = Len(call[s].kept) /\ (c.kept = <<>> <=> call[s].kept = <<>>)
      /\ c.kept = <<>> => c.tried = {}
  BY <1>1, ToldFields
<1> HIDE DEF c
<1>7. Paired(conn[s], c) /\ conn[s].lock # "reserved" /\ conn[s] \in Connections
  BY <1>1, <1>6, SessionFacts DEF Paired
<1>8. ObservedStill(c, db')
  BY <1>6 DEF ObservedStill
<1>9. SessionKeeps(conn[s], c, db', denied', written')
  BY <1>7, <1>8, ReadersKeep
<1>10. Connect(s, conn[s])
  BY <1>1, ConnectionStays
<1> QED
  BY <1>1, <1>2, <1>4, <1>5, <1>6, <1>7, <1>9, <1>10, StepKeeps

LEMMA MutateWithinKeeps ==
  ASSUME SqliteInv, NEW s \in Sessions, NEW ok \in BOOLEAN, MutateWithin(s, ok)
  PROVE  SqliteInv'
<1> DEFINE c == Told(s, ok)
           k == [conn[s] EXCEPT !.lock = "reserved", !.work = Written(s), !.saved = Restored(s)]
           kept == call[s].kept
<1>1. /\ call[s].at = "idle" /\ conn[s].open # "none" /\ written < MaxWrites
      /\ conn[s].lock = "reserved" \/ MayReserve(s)
      /\ Connect(s, k) /\ written' = Row /\ Call(s, c)
      /\ UNCHANGED <<db, promised, denied, stuck>>
  BY DEF MutateWithin
<1>2. /\ Row \in Rows /\ Row \in Nat /\ written <= Row /\ Row \in 0 .. MaxWrites
      /\ Row \notin 1 .. written /\ Row \in 1 .. Row /\ 1 .. written \subseteq 1 .. Row
  BY <1>1, RowIsNew
<1>3. FileKeeps /\ FileKeeps' /\ MayReserve(s)
  <2>1. FileKeeps
    BY SessionFacts
  <2>2. db.rows \subseteq 1 .. Row /\ denied \subseteq 1 .. Row
    BY <1>2, <2>1 DEF FileKeeps
  <2> QED
    BY <1>1, <1>2, <2>1, <2>2, WriterIsAlone DEF FileKeeps
<1>4. /\ conn[s] \in Connections /\ conn[s].work \in Contents /\ conn[s].saved \in Seq(Contents)
      /\ db \in Contents /\ Len(conn[s].saved) \in Nat
      /\ DOMAIN conn[s].saved = 1 .. Len(conn[s].saved)
  BY <1>3, SessionFacts, ConnectionFields DEF FileKeeps
<1> DEFINE base == IF conn[s].lock = "reserved" THEN conn[s].work ELSE db
           w == [base EXCEPT !.rows = @ \cup {Row}]
<1>5. Written(s) = w
  BY DEF Written
<1>6. /\ w \in Contents /\ w.rows = base.rows \cup {Row} /\ w.catalog = base.catalog
      /\ w.attestation = base.attestation
  BY <1>2, <1>4 DEF Contents
<1> HIDE DEF w
<1>7. /\ Restored(s) \in Seq(Contents) /\ Len(Restored(s)) = Len(conn[s].saved)
      /\ DOMAIN Restored(s) = 1 .. Len(conn[s].saved)
      /\ conn[s].lock = "reserved" => Restored(s) = conn[s].saved
      /\ conn[s].lock # "reserved" => \A i \in DOMAIN Restored(s) : Restored(s)[i] = db
  <2>1. CASE conn[s].lock = "reserved"
    BY <1>4, <2>1 DEF Restored
  <2>2. CASE conn[s].lock # "reserved"
    <3>1. Restored(s) = [i \in 1 .. Len(conn[s].saved) |-> db]
      BY <1>4, <2>2 DEF Restored
    <3>2. Restored(s) \in [1 .. Len(conn[s].saved) -> Contents]
      BY <1>4, <3>1
    <3>3. Restored(s) \in Seq(Contents)
      BY <1>4, <3>2 DEF Seq
    <3>4. DOMAIN Restored(s) = 1 .. Len(conn[s].saved)
      BY <3>1
    <3>5. Len(Restored(s)) = Len(conn[s].saved)
      BY <1>4, <3>3, <3>4, LenProperties
    <3> QED
      BY <2>2, <3>1, <3>3, <3>4, <3>5
  <2> QED
    BY <2>1, <2>2
<1>8. /\ k \in Connections /\ k.open = conn[s].open /\ k.lock = "reserved"
      /\ k.work = w /\ k.saved = Restored(s)
  BY <1>4, <1>5, <1>6, <1>7 DEF Connections
<1>9. /\ c \in Calls /\ c.at = "idle" /\ c.interrupted = call[s].interrupted
      /\ c.asked = call[s].asked /\ c.physical = call[s].physical
      /\ c.tried = IF kept = <<>> THEN {} ELSE call[s].tried \cup {Row}
      /\ Len(c.kept) = Len(kept) /\ DOMAIN c.kept = DOMAIN kept /\ (c.kept = <<>> <=> kept = <<>>)
      /\ \A j \in DOMAIN kept :
           c.kept[j] = IF ok /\ j = Len(kept) THEN kept[j] \cup {Row} ELSE kept[j]
  BY <1>1, ToldFields
<1> HIDE DEF k, c, kept
<1>10. Paired(conn[s], call[s]) /\ conn[s].lock # "shared"
  BY <1>1, SessionFacts DEF Paired
<1>11. conn[s].open = "begin" => conn[s].lock = "reserved" /\ Len(k.saved) = Len(conn[s].saved)
  BY <1>7, <1>8, <1>10 DEF Paired
<1>12. Paired(k, c)
  BY <1>1, <1>8, <1>9, <1>10, <1>11 DEF Paired, kept
<1>13. WriterKeeps(k, c, db', denied', written')
  <2> SUFFICES ASSUME kept # <<>>
               PROVE  /\ Extends(w, db, denied, Row) /\ SameSchema(w, db)
                      /\ \A i \in DOMAIN k.saved :
                           Extends(k.saved[i], db, denied, Row) /\ SameSchema(k.saved[i], db)
    BY <1>1, <1>8, <1>9 DEF WriterKeeps, MayYetCommit, SchemaOf
  <2>1. Extends(db, db, denied, written) /\ SameSchema(db, db)
    BY ReservedFields DEF SameSchema
  <2>2. \A content : Extends(content, db, denied, written) => Extends(content, db, denied, Row)
    BY <1>2 DEF Extends
  <2>3. conn[s].lock = "reserved" =>
          /\ Extends(conn[s].work, db, denied, written) /\ SameSchema(conn[s].work, db)
          /\ \A i \in DOMAIN conn[s].saved :
               Extends(conn[s].saved[i], db, denied, written) /\ SameSchema(conn[s].saved[i], db)
    BY <1>1, SessionFacts DEF WriterKeeps, MayYetCommit, SchemaOf, kept
  <2>4. Extends(base, db, denied, written) /\ SameSchema(base, db)
    BY <2>1, <2>3
  <2>5. Row \notin denied
    BY <1>2, <1>3 DEF FileKeeps
  <2>6. Extends(w, db, denied, Row) /\ SameSchema(w, db)
    BY <1>2, <1>6, <2>4, <2>5 DEF Extends, SameSchema
  <2>7. \A i \in DOMAIN k.saved :
          Extends(k.saved[i], db, denied, Row) /\ SameSchema(k.saved[i], db)
    BY <1>7, <1>8, <2>1, <2>2, <2>3
  <2> QED
    BY <2>6, <2>7
<1>14. BodiesKeep(k, c, db', written')
  <2> SUFFICES ASSUME kept # <<>>, ~call[s].interrupted
               PROVE  /\ c.tried \subseteq 1 .. Row /\ c.tried \cap db.rows = {}
                      /\ \A j \in DOMAIN c.kept :
                           c.kept[j] \subseteq c.tried /\ c.kept[j] \subseteq w.rows
                      /\ \A i \in DOMAIN k.saved, j \in DOMAIN c.kept :
                           IF j <= i THEN c.kept[j] \subseteq k.saved[i].rows
                           ELSE c.kept[j] \cap k.saved[i].rows = {}
    BY <1>1, <1>8, <1>9 DEF BodiesKeep
  <2>1. /\ conn[s].lock = "reserved" /\ k.saved = conn[s].saved /\ base = conn[s].work
        /\ Len(conn[s].saved) = Len(kept) - 1 /\ Len(kept) \in Nat /\ DOMAIN kept = 1 .. Len(kept)
    BY <1>7, <1>8, <1>10, SessionFacts, CallFields DEF Paired, kept
  <2>2. /\ call[s].tried \subseteq 1 .. written /\ call[s].tried \cap db.rows = {}
        /\ \A j \in DOMAIN kept : kept[j] \subseteq call[s].tried /\ kept[j] \subseteq conn[s].work.rows
        /\ \A i \in DOMAIN conn[s].saved, j \in DOMAIN kept :
             IF j <= i THEN kept[j] \subseteq conn[s].saved[i].rows
             ELSE kept[j] \cap conn[s].saved[i].rows = {}
    BY SessionFacts DEF BodiesKeep, kept
  <2>3. \A i \in DOMAIN conn[s].saved : Row \notin conn[s].saved[i].rows
    BY <1>1, <1>2, <2>1, SessionFacts DEF WriterKeeps, MayYetCommit, Extends, kept
  <2>4. Row \notin db.rows
    BY <1>2, <1>3 DEF FileKeeps
  <2> HIDE DEF base
  <2>5. c.tried = call[s].tried \cup {Row} /\ w.rows = conn[s].work.rows \cup {Row}
    BY <1>6, <1>9, <2>1
  <2>6. c.tried \subseteq 1 .. Row /\ c.tried \cap db.rows = {}
    BY <1>2, <2>2, <2>4, <2>5
  <2>7. \A j \in DOMAIN c.kept : c.kept[j] \subseteq c.tried /\ c.kept[j] \subseteq w.rows
    BY <1>9, <2>2, <2>5
  <2>8. ASSUME NEW i \in DOMAIN k.saved, NEW j \in DOMAIN c.kept
        PROVE  IF j <= i THEN c.kept[j] \subseteq k.saved[i].rows
               ELSE c.kept[j] \cap k.saved[i].rows = {}
    <3>1. i \in 1 .. Len(kept) - 1 /\ j \in 1 .. Len(kept) /\ i \in DOMAIN conn[s].saved
      BY <1>4, <1>9, <2>1
    <3>2. CASE j <= i
      <4>1. j # Len(kept)
        <5>1. Len(kept) \in Nat
          BY <2>1
        <5> QED
          BY <3>1, <3>2, <5>1
      <4>2. c.kept[j] = kept[j]
        BY <1>9, <2>1, <3>1, <4>1
      <4> QED
        BY <2>1, <2>2, <3>1, <3>2, <4>2
    <3>3. CASE ~(j <= i)
      <4>1. kept[j] \cap conn[s].saved[i].rows = {} /\ Row \notin conn[s].saved[i].rows
        BY <2>1, <2>2, <2>3, <3>1, <3>3
      <4>2. c.kept[j] \subseteq kept[j] \cup {Row}
        BY <1>9, <2>1, <3>1
      <4> QED
        BY <2>1, <3>3, <4>1, <4>2
    <3> QED
      BY <3>2, <3>3
  <2> QED
    BY <2>6, <2>7, <2>8
<1>15. ObservedStill(c, db')
  BY <1>9 DEF ObservedStill
<1>16. SessionKeeps(k, c, db', denied', written')
  BY <1>12, <1>13, <1>14, <1>15 DEF SessionKeeps
<1>17. c.kept = <<>> => s \in stuck'
  BY <1>1, <1>9, SessionFacts DEF kept, SqliteInv, OnlyBusyLeavesOpen
<1> QED
  BY <1>1, <1>2, <1>3, <1>8, <1>9, <1>16, <1>17, StepKeeps

-----------------------------------------------------------------------------
(* Savepoints: the last of a sequence is taken away, or another one added.  *)

LEMMA FrontOf ==
  ASSUME NEW S, NEW q \in Seq(S), Len(q) > 0
  PROVE  LET front == SubSeq(q, 1, Len(q) - 1) IN
         /\ front \in Seq(S) /\ Len(front) = Len(q) - 1 /\ DOMAIN front = 1 .. Len(q) - 1
         /\ \A i \in 1 .. Len(q) - 1 : front[i] = q[i]
<1> DEFINE n == Len(q) - 1
           front == SubSeq(q, 1, n)
<1>1. Len(q) \in Nat /\ n \in Nat /\ 1 \in Int /\ n \in Int
  BY LenProperties
<1>2. \A i \in 1 .. n : q[i] \in S
  BY <1>1, ElementOfSeq
<1> HIDE DEF n
<1>3. /\ SubSeq(q, 1, n) \in Seq(S)
      /\ Len(SubSeq(q, 1, n)) = IF 1 <= n THEN n - 1 + 1 ELSE 0
      /\ \A i \in 1 .. n - 1 + 1 : SubSeq(q, 1, n)[i] = q[1 + i - 1]
  BY <1>1, <1>2, SubSeqProperties
<1>4. Len(front) = n /\ front \in Seq(S)
  BY <1>1, <1>3
<1>5. DOMAIN front = 1 .. n
  BY <1>4, LenProperties
<1>6. \A i \in 1 .. n : front[i] = q[i]
  BY <1>1, <1>3
<1> QED
  BY <1>4, <1>5, <1>6 DEF n

\* The calls of a session whose innermost body is over.
LEMMA BelowFields ==
  ASSUME NEW s, call[s] \in Calls, Depth(s) > 1
  PROVE  /\ Below(s) \in Seq(SUBSET Rows) /\ Len(Below(s)) = Len(call[s].kept) - 1
         /\ DOMAIN Below(s) = 1 .. Len(call[s].kept) - 1 /\ Below(s) # <<>>
         /\ \A j \in 1 .. Len(call[s].kept) - 1 : Below(s)[j] = call[s].kept[j]
         /\ Len(call[s].kept) \in Nat /\ Len(call[s].kept) > 1 /\ call[s].kept # <<>>
         /\ DOMAIN call[s].kept = 1 .. Len(call[s].kept)
<1>1. /\ call[s].kept \in Seq(SUBSET Rows) /\ Len(call[s].kept) \in Nat
      /\ DOMAIN call[s].kept = 1 .. Len(call[s].kept)
  BY CallFields
<1>2. Len(call[s].kept) > 1 /\ Depth(s) = Len(call[s].kept) /\ Len(<<>>) = 0
  BY DEF Depth
<1>3. /\ Below(s) \in Seq(SUBSET Rows) /\ Len(Below(s)) = Len(call[s].kept) - 1
      /\ DOMAIN Below(s) = 1 .. Len(call[s].kept) - 1
      /\ \A j \in 1 .. Len(call[s].kept) - 1 : Below(s)[j] = call[s].kept[j]
  BY <1>1, <1>2, FrontOf DEF Below
<1> QED
  BY <1>1, <1>2, <1>3

LEMMA KeepsFields ==
  ASSUME NEW s, call[s] \in Calls, Depth(s) > 1
  PROVE  LET n == Len(call[s].kept) - 1 IN
         /\ Keeps(s) \in Seq(SUBSET Rows) /\ Len(Keeps(s)) = n /\ DOMAIN Keeps(s) = 1 .. n
         /\ Keeps(s) # <<>>
         /\ \A j \in 1 .. n :
              Keeps(s)[j] = IF j = n THEN call[s].kept[j] \cup call[s].kept[n + 1]
                            ELSE call[s].kept[j]
<1> DEFINE q == call[s].kept
           n == Len(q) - 1
<1>1. /\ Below(s) \in Seq(SUBSET Rows) /\ Len(Below(s)) = n /\ DOMAIN Below(s) = 1 .. n
      /\ \A j \in 1 .. n : Below(s)[j] = q[j]
      /\ Len(q) \in Nat /\ Len(q) > 1 /\ DOMAIN q = 1 .. Len(q)
  BY BelowFields
<1>2. \A j \in 1 .. Len(q) : q[j] \subseteq Rows
  BY <1>1, CallFields
<1>3. Depth(s) = Len(q) /\ Top(s) = q[Len(q)] /\ Top(s) \subseteq Rows
  BY <1>1, <1>2 DEF Depth, Top
<1>4. n \in 1 .. Len(Below(s)) /\ Below(s)[n] \cup Top(s) \in SUBSET Rows
  BY <1>1, <1>2, <1>3
<1>5. Keeps(s) = [Below(s) EXCEPT ![n] = Below(s)[n] \cup Top(s)]
  BY <1>3 DEF Keeps
<1> HIDE DEF n, q
<1>6. /\ Keeps(s) \in Seq(SUBSET Rows) /\ Len(Keeps(s)) = n
      /\ \A j \in 1 .. n : Keeps(s)[j] = IF j = n THEN Below(s)[n] \cup Top(s) ELSE Below(s)[j]
  BY <1>1, <1>4, <1>5, ExceptSeq
<1>7. DOMAIN Keeps(s) = 1 .. n /\ Len(<<>>) = 0
  BY <1>6, LenProperties
<1>8. n + 1 = Len(q) /\ n > 0
  BY <1>1 DEF n
<1>9. \A j \in 1 .. n : Keeps(s)[j] = IF j = n THEN q[j] \cup q[n + 1] ELSE q[j]
  BY <1>1, <1>3, <1>6, <1>8
<1>10. Keeps(s) # <<>>
  BY <1>6, <1>7, <1>8
<1> QED
  BY <1>6, <1>7, <1>9, <1>10 DEF n, q

LEMMA SavepointKeeps == ASSUME SqliteInv, NEW s \in Sessions, Savepoint(s) PROVE SqliteInv'
<1> DEFINE k == [conn[s] EXCEPT !.open = IF @ = "none" THEN "savepoint" ELSE @,
                                !.saved = Append(@, Stored(s))]
           c == [call[s] EXCEPT !.kept = Append(@, {})]
           saved == conn[s].saved
           kept == call[s].kept
<1>1. /\ call[s].at = "idle" /\ Depth(s) \in 1 .. MaxDepth - 1
      /\ Connect(s, k) /\ Call(s, c) /\ stuck' = stuck
  BY DEF Savepoint, History
<1>2. /\ FileKeeps' /\ written' = written /\ written <= written' /\ db' = db
      /\ denied' = denied
  BY <1>1, FileStays DEF Savepoint, History, SqliteInv, FileKeeps
<1>3. /\ kept \in Seq(SUBSET Rows) /\ Len(kept) \in Nat /\ DOMAIN kept = 1 .. Len(kept)
      /\ Len(kept) = 0 <=> kept = <<>>
      /\ Depth(s) = Len(kept) /\ {} \in SUBSET Rows /\ call[s] \in Calls
  BY SessionFacts, CallFields
<1>4. kept # <<>> /\ Len(kept) + 1 <= MaxDepth
  BY <1>1, <1>3, SqliteAssumption
<1>5. /\ saved \in Seq(Contents) /\ Len(saved) \in Nat /\ DOMAIN saved = 1 .. Len(saved)
      /\ conn[s] \in Connections /\ conn[s].work \in Contents /\ db \in Contents
  BY SessionFacts, ConnectionFields DEF FileKeeps
<1>6. Stored(s) \in Contents
  BY <1>5 DEF Stored
<1> HIDE DEF saved, kept
<1>7. /\ Append(kept, {}) \in Seq(SUBSET Rows) /\ Len(Append(kept, {})) = Len(kept) + 1
      /\ \A j \in 1 .. Len(kept) : Append(kept, {})[j] = kept[j]
      /\ Append(kept, {})[Len(kept) + 1] = {} /\ Append(kept, {}) # <<>>
  BY <1>3, AppendProperties
<1>8. /\ Append(saved, Stored(s)) \in Seq(Contents)
      /\ Len(Append(saved, Stored(s))) = Len(saved) + 1
      /\ \A i \in 1 .. Len(saved) : Append(saved, Stored(s))[i] = saved[i]
      /\ Append(saved, Stored(s))[Len(saved) + 1] = Stored(s)
  BY <1>5, <1>6, AppendProperties
<1>9. /\ DOMAIN Append(kept, {}) = 1 .. Len(kept) + 1
      /\ DOMAIN Append(saved, Stored(s)) = 1 .. Len(saved) + 1
  BY <1>7, <1>8, LenProperties
<1>10. /\ k \in Connections /\ k.lock = conn[s].lock /\ k.work = conn[s].work
       /\ k.open = IF conn[s].open = "none" THEN "savepoint" ELSE conn[s].open
       /\ k.saved = Append(saved, Stored(s))
  BY <1>5, <1>8 DEF Connections, saved
<1>11. /\ c \in Calls /\ c.at = "idle" /\ c.interrupted = call[s].interrupted
       /\ c.tried = call[s].tried /\ c.asked = call[s].asked /\ c.physical = call[s].physical
       /\ c.kept = Append(kept, {})
  BY <1>1, <1>3, <1>7 DEF Calls, kept
<1> HIDE DEF k, c
<1>12. Paired(conn[s], call[s])
  BY SessionFacts
<1>13. conn[s].open = "begin" => Len(saved) = Len(kept) - 1
  BY <1>4, <1>12 DEF Paired, saved, kept
<1>14. Len(c.kept) = Len(kept) + 1 /\ Len(k.saved) = Len(saved) + 1 /\ c.kept # <<>>
  BY <1>7, <1>8, <1>10, <1>11
<1>15. /\ conn[s].open = "none" => conn[s].lock # "reserved"
       /\ conn[s].lock # "shared"
       /\ conn[s].open = "begin" => conn[s].lock = "reserved" /\ ~call[s].interrupted
       /\ ~call[s].interrupted => conn[s].open = "begin"
       /\ call[s].asked = {} /\ call[s].physical = {}
  BY <1>1, <1>4, <1>12 DEF Paired, kept
<1>16. Paired(k, c)
  <2>1. k.open = "begin" => k.lock = "reserved" /\ ~c.interrupted /\ Len(k.saved) = Len(c.kept) - 1
    <3>1. k.open = "begin" => conn[s].open = "begin"
      BY <1>10
    <3>2. ASSUME conn[s].open = "begin" PROVE Len(saved) + 1 = (Len(kept) + 1) - 1
      <4>1. Len(saved) \in Nat /\ Len(kept) \in Nat
        BY <1>3, <1>5
      <4>2. Len(saved) = Len(kept) - 1
        BY <1>13, <3>2
      <4> QED
        BY <4>1, <4>2
    <3> QED
      BY <1>10, <1>11, <1>14, <1>15, <3>1, <3>2
  <2>2. k.open # "none"
    BY <1>10
  <2>3. ~c.interrupted => k.open = "begin"
    BY <1>10, <1>11, <1>15
  <2> QED
    BY <1>4, <1>10, <1>11, <1>14, <1>15, <2>1, <2>2, <2>3 DEF Paired
<1>17. WriterKeeps(k, c, db, denied, written)
  <2> SUFFICES ASSUME conn[s].lock = "reserved"
               PROVE  /\ Extends(conn[s].work, db, denied, written) /\ SameSchema(conn[s].work, db)
                      /\ \A i \in DOMAIN k.saved :
                           /\ Extends(k.saved[i], db, denied, written)
                           /\ SameSchema(k.saved[i], db)
    BY <1>10, <1>11 DEF WriterKeeps, MayYetCommit, SchemaOf
  <2>1. /\ Extends(conn[s].work, db, denied, written) /\ SameSchema(conn[s].work, db)
        /\ \A i \in DOMAIN saved :
             Extends(saved[i], db, denied, written) /\ SameSchema(saved[i], db)
    BY <1>1, <1>4, SessionFacts DEF WriterKeeps, MayYetCommit, SchemaOf, kept, saved
  <2>2. Stored(s) = conn[s].work
    BY DEF Stored
  <2>3. ASSUME NEW i \in DOMAIN k.saved
        PROVE  Extends(k.saved[i], db, denied, written) /\ SameSchema(k.saved[i], db)
    <3>1. i \in 1 .. Len(saved) + 1
      BY <1>9, <1>10
    <3>2. CASE i = Len(saved) + 1
      BY <1>8, <1>10, <2>1, <2>2, <3>2
    <3>3. CASE i # Len(saved) + 1
      <4>1. i \in DOMAIN saved /\ k.saved[i] = saved[i]
        BY <1>5, <1>8, <1>10, <3>1, <3>3
      <4> QED
        BY <2>1, <4>1
    <3> QED
      BY <3>2, <3>3
  <2> QED
    BY <2>1, <2>3
<1>18. BodiesKeep(k, c, db, written)
  <2> SUFFICES ASSUME ~call[s].interrupted PROVE BodiesKeep(k, c, db, written)
    BY <1>11 DEF BodiesKeep
  <2>1. /\ call[s].tried \subseteq 1 .. written /\ call[s].tried \cap db.rows = {}
        /\ \A j \in DOMAIN kept : kept[j] \subseteq call[s].tried /\ kept[j] \subseteq conn[s].work.rows
        /\ \A i \in DOMAIN saved, j \in DOMAIN kept :
             IF j <= i THEN kept[j] \subseteq saved[i].rows
             ELSE kept[j] \cap saved[i].rows = {}
    BY <1>4, SessionFacts DEF BodiesKeep, kept, saved
  <2>2. Stored(s) = conn[s].work /\ Len(saved) + 1 = Len(kept)
    <3>1. conn[s].lock = "reserved" /\ Len(saved) = Len(kept) - 1
      BY <1>13, <1>15
    <3> QED
      BY <1>3, <1>5, <3>1 DEF Stored
  <2>3. \A j \in DOMAIN c.kept : c.kept[j] = IF j \in DOMAIN kept THEN kept[j] ELSE {}
    BY <1>3, <1>7, <1>9, <1>11
  <2>4. \A j \in DOMAIN c.kept : c.kept[j] \subseteq c.tried /\ c.kept[j] \subseteq k.work.rows
    BY <1>10, <1>11, <2>1, <2>3
  <2>5. ASSUME NEW i \in DOMAIN k.saved, NEW j \in DOMAIN c.kept
        PROVE  IF j <= i THEN c.kept[j] \subseteq k.saved[i].rows
               ELSE c.kept[j] \cap k.saved[i].rows = {}
    <3>1. i \in 1 .. Len(kept) /\ j \in 1 .. Len(kept) + 1
      BY <1>9, <1>10, <1>11, <2>2
    <3>2. CASE j = Len(kept) + 1
      <4>1. c.kept[j] = {}
        BY <1>7, <1>11, <3>2
      <4> QED
        BY <4>1
    <3>3. CASE j # Len(kept) + 1 /\ i = Len(kept)
      <4>1. j \in DOMAIN kept /\ j <= i
        BY <1>3, <3>1, <3>3
      <4>2. k.saved[i] = conn[s].work /\ c.kept[j] = kept[j]
        BY <1>8, <1>10, <2>2, <2>3, <3>3, <4>1
      <4> QED
        BY <2>1, <4>1, <4>2
    <3>4. CASE j # Len(kept) + 1 /\ i # Len(kept)
      <4>1. j \in DOMAIN kept /\ i \in DOMAIN saved
        BY <1>3, <1>5, <2>2, <3>1, <3>4
      <4>2. k.saved[i] = saved[i] /\ c.kept[j] = kept[j]
        BY <1>5, <1>8, <1>10, <2>3, <4>1
      <4> QED
        BY <2>1, <4>1, <4>2
    <3> QED
      BY <3>2, <3>3, <3>4
  <2> QED
    BY <1>11, <2>1, <2>4, <2>5 DEF BodiesKeep
<1>19. ObservedStill(c, db)
  BY <1>11 DEF ObservedStill
<1>20. SessionKeeps(k, c, db', denied', written')
  BY <1>2, <1>16, <1>17, <1>18, <1>19 DEF SessionKeeps
<1>21. k.lock = "reserved" => MayReserve(s)
  BY <1>10, WriterIsAlone
<1> QED
  BY <1>1, <1>2, <1>10, <1>11, <1>14, <1>20, <1>21, StepKeeps

\* What a connection keeps when its last savepoint is gone.
LEMMA UnsaveFields ==
  ASSUME NEW s, conn[s] \in Connections, conn[s].saved # <<>>
  PROVE  /\ Unsave(s) \in Seq(Contents) /\ Len(Unsave(s)) = Len(conn[s].saved) - 1
         /\ DOMAIN Unsave(s) = 1 .. Len(conn[s].saved) - 1
         /\ \A i \in 1 .. Len(conn[s].saved) - 1 : Unsave(s)[i] = conn[s].saved[i]
         /\ Len(conn[s].saved) \in Nat \ {0} /\ DOMAIN conn[s].saved = 1 .. Len(conn[s].saved)
         /\ Len(conn[s].saved) \in DOMAIN conn[s].saved /\ LastSaved(s) \in Contents
<1>1. /\ conn[s].saved \in Seq(Contents) /\ DOMAIN conn[s].saved = 1 .. Len(conn[s].saved)
      /\ \A i \in DOMAIN conn[s].saved : conn[s].saved[i] \in Contents
  BY ConnectionFields
<1>2. Len(conn[s].saved) \in Nat \ {0}
  BY <1>1, EmptySeq
<1>3. Len(conn[s].saved) \in DOMAIN conn[s].saved
  BY <1>1, <1>2
<1>4. /\ Unsave(s) \in Seq(Contents) /\ Len(Unsave(s)) = Len(conn[s].saved) - 1
      /\ DOMAIN Unsave(s) = 1 .. Len(conn[s].saved) - 1
      /\ \A i \in 1 .. Len(conn[s].saved) - 1 : Unsave(s)[i] = conn[s].saved[i]
  BY <1>1, <1>2, FrontOf DEF Unsave
<1> QED
  BY <1>1, <1>2, <1>3, <1>4 DEF LastSaved

\* A body within another, of a transaction that was not interrupted.
LEMMA InnerBody ==
  ASSUME SqliteInv, NEW s \in Sessions, call[s].at = "idle", Depth(s) > 1, ~call[s].interrupted
  PROVE  /\ conn[s].open = "begin" /\ conn[s].lock = "reserved" /\ conn[s].saved # <<>>
         /\ Len(conn[s].saved) = Len(call[s].kept) - 1 /\ ~Outermost(s)
<1>1. Len(call[s].kept) \in Nat /\ Len(call[s].kept) > 1 /\ call[s].kept # <<>>
  BY SessionFacts, BelowFields
<1>2. /\ conn[s].open = "begin" /\ conn[s].lock = "reserved"
      /\ Len(conn[s].saved) = Len(call[s].kept) - 1
  BY <1>1, SessionFacts DEF Paired
<1>3. conn[s].saved # <<>>
  <2>1. Len(<<>>) = 0
    OBVIOUS
  <2> QED
    BY <1>1, <1>2, <2>1
<1> QED
  BY <1>2, <1>3 DEF Outermost

\* Without the innermost body, with or without its savepoint.
LEMMA OuterBodyIsPaired ==
  ASSUME SqliteInv, NEW s \in Sessions, call[s].at = "idle", Depth(s) > 1,
         NEW k \in Connections, NEW c \in Calls,
         k = Fresh \/ (k.open = conn[s].open /\ k.lock = conn[s].lock),
         k = Fresh => call[s].interrupted,
         k.open = "none" => k.saved = <<>>,
         ~call[s].interrupted => Len(k.saved) = Len(conn[s].saved) - 1,
         c.at = "idle", c.interrupted = call[s].interrupted, c.asked = call[s].asked,
         c.physical = call[s].physical, Len(c.kept) = Len(call[s].kept) - 1
  PROVE  Paired(k, c) /\ c.kept # <<>>
<1>1. /\ Len(call[s].kept) \in Nat /\ Len(call[s].kept) > 1 /\ call[s].kept # <<>>
      /\ Len(c.kept) > 0
  BY SessionFacts, BelowFields
<1>2. c.kept # <<>>
  <2>1. Len(<<>>) = 0
    OBVIOUS
  <2> QED
    BY <1>1, <2>1
<1>3. Paired(conn[s], call[s])
  BY SessionFacts
<1>4. /\ Len(call[s].kept) <= MaxDepth /\ MaxDepth \in Nat /\ conn[s].lock # "shared"
      /\ call[s].asked = {} /\ call[s].physical = {}
      /\ conn[s].open = "none" => conn[s].lock # "reserved"
      /\ conn[s].open = "begin" => conn[s].lock = "reserved" /\ ~call[s].interrupted
      /\ ~call[s].interrupted => conn[s].open = "begin"
  BY <1>1, <1>3, SqliteAssumption DEF Paired
<1>5. Len(c.kept) <= MaxDepth
  BY <1>1, <1>4
<1>6. ASSUME ~call[s].interrupted PROVE Len(k.saved) = Len(c.kept) - 1
  <2>1. Len(conn[s].saved) = Len(call[s].kept) - 1
    BY <1>6, InnerBody
  <2>2. Len(k.saved) = Len(conn[s].saved) - 1
    BY <1>6
  <2> QED
    BY <1>1, <2>1, <2>2
<1>7. CASE k = Fresh
  BY <1>2, <1>4, <1>5, <1>7, FreshAndResting DEF Paired
<1>8. CASE k # Fresh
  BY <1>2, <1>4, <1>5, <1>6, <1>8 DEF Paired
<1> QED
  BY <1>2, <1>7, <1>8

LEMMA ReleaseFailsKeeps == ASSUME SqliteInv, NEW s \in Sessions, ReleaseFails(s) PROVE SqliteInv'
<1> DEFINE c == [call[s] EXCEPT !.kept = Below(s)]
           k == conn[s]
<1>1. /\ call[s].at = "idle" /\ Depth(s) > 1 /\ UNCHANGED conn /\ Call(s, c) /\ stuck' = stuck
      /\ conn[s].saved = <<>> \/ Outermost(s)
  BY DEF ReleaseFails, History
<1>2. /\ FileKeeps' /\ written' = written /\ written <= written' /\ db' = db
      /\ denied' = denied
  BY <1>1, FileStays DEF ReleaseFails, History, SqliteInv, FileKeeps
<1>3. call[s].interrupted
  BY <1>1, InnerBody
<1>4. /\ Below(s) \in Seq(SUBSET Rows) /\ Len(Below(s)) = Len(call[s].kept) - 1
      /\ call[s].kept # <<>> /\ k \in Connections /\ call[s] \in Calls
  BY <1>1, SessionFacts, BelowFields
<1>5. /\ c \in Calls /\ c.at = "idle" /\ c.kept = Below(s) /\ c.interrupted
      /\ c.asked = call[s].asked /\ c.physical = call[s].physical
      /\ c.interrupted = call[s].interrupted
  BY <1>1, <1>3, <1>4 DEF Calls
<1> HIDE DEF c
<1>6. k.open = "none" => k.saved = <<>>
  BY SessionFacts DEF Paired
<1>7. k # Fresh \/ call[s].interrupted
  BY <1>3
<1>8. Paired(k, c) /\ c.kept # <<>>
  <2> HIDE DEF k
  <2>1. k.open = conn[s].open /\ k.lock = conn[s].lock
    BY DEF k
  <2> QED
    BY <1>1, <1>3, <1>4, <1>5, <1>6, <2>1, OuterBodyIsPaired
<1>9. WriterKeeps(k, c, db, denied, written)
  BY <1>1, <1>4, <1>5, SessionFacts DEF WriterKeeps, MayYetCommit, SchemaOf
<1>10. SessionKeeps(k, c, db', denied', written')
  BY <1>2, <1>5, <1>8, <1>9 DEF SessionKeeps, BodiesKeep, ObservedStill
<1>11. Connect(s, k) /\ (k.lock = "reserved" => MayReserve(s))
  BY <1>1, ConnectionStays, WriterIsAlone
<1> QED
  BY <1>1, <1>2, <1>4, <1>5, <1>8, <1>10, <1>11, StepKeeps

\* RELEASE gives the enclosing body what the released one kept, and one
\* savepoint less.
LEMMA InnerReleaseKeeps ==
  ASSUME SqliteInv, NEW s \in Sessions, SavepointReleases(s), ~Outermost(s) PROVE SqliteInv'
<1> DEFINE c == [call[s] EXCEPT !.kept = Keeps(s)]
           k == [conn[s] EXCEPT !.saved = Unsave(s)]
           saved == conn[s].saved
           kept == call[s].kept
           n == Len(kept) - 1
<1>1. /\ call[s].at = "idle" /\ Depth(s) > 1 /\ saved # <<>> /\ Connect(s, k)
      /\ UNCHANGED db /\ Call(s, c) /\ stuck' = stuck
  BY DEF SavepointReleases, History
<1>2. /\ FileKeeps' /\ written' = written /\ written <= written' /\ db' = db
      /\ denied' = denied
  BY <1>1, FileStays DEF SavepointReleases, History, SqliteInv, FileKeeps
<1>3. conn[s] \in Connections /\ call[s] \in Calls
  BY SessionFacts
<1>4. /\ Unsave(s) \in Seq(Contents) /\ Len(Unsave(s)) = Len(saved) - 1
      /\ DOMAIN Unsave(s) = 1 .. Len(saved) - 1
      /\ \A i \in 1 .. Len(saved) - 1 : Unsave(s)[i] = saved[i]
      /\ Len(saved) \in Nat \ {0} /\ DOMAIN saved = 1 .. Len(saved)
  BY <1>1, <1>3, UnsaveFields
<1>5. /\ Keeps(s) \in Seq(SUBSET Rows) /\ Len(Keeps(s)) = n /\ DOMAIN Keeps(s) = 1 .. n
      /\ \A j \in 1 .. n : Keeps(s)[j] = IF j = n THEN kept[j] \cup kept[n + 1] ELSE kept[j]
  BY <1>1, <1>3, KeepsFields
<1>6. Len(kept) \in Nat /\ Len(kept) > 1 /\ kept # <<>> /\ DOMAIN kept = 1 .. Len(kept)
  BY <1>1, <1>3, BelowFields
<1>7. /\ k \in Connections /\ k.open = conn[s].open /\ k.lock = conn[s].lock
      /\ k.work = conn[s].work /\ k.saved = Unsave(s)
  BY <1>3, <1>4 DEF Connections
<1>8. /\ c \in Calls /\ c.at = "idle" /\ c.kept = Keeps(s) /\ c.tried = call[s].tried
      /\ c.interrupted = call[s].interrupted /\ c.asked = call[s].asked
      /\ c.physical = call[s].physical
  BY <1>1, <1>3, <1>5 DEF Calls
<1>9. k.open # "none"
  BY <1>1, <1>7, SessionFacts DEF Paired
<1>10. k # Fresh /\ (~call[s].interrupted => Len(k.saved) = Len(saved) - 1)
  BY <1>4, <1>7, <1>9, FreshAndResting
<1> HIDE DEF k, c
<1>11. Paired(k, c) /\ c.kept # <<>>
  BY <1>1, <1>5, <1>7, <1>8, <1>9, <1>10, OuterBodyIsPaired
<1> HIDE DEF saved, kept
<1>12. \A i \in DOMAIN k.saved : i \in DOMAIN saved /\ k.saved[i] = saved[i]
  BY <1>4, <1>7
<1>13. WriterKeeps(k, c, db, denied, written)
  <2> SUFFICES ASSUME conn[s].lock = "reserved"
               PROVE  /\ Extends(conn[s].work, db, denied, written) /\ SameSchema(conn[s].work, db)
                      /\ \A i \in DOMAIN k.saved :
                           /\ Extends(k.saved[i], db, denied, written)
                           /\ SameSchema(k.saved[i], db)
    BY <1>7, <1>8 DEF WriterKeeps, MayYetCommit, SchemaOf
  <2>1. /\ Extends(conn[s].work, db, denied, written) /\ SameSchema(conn[s].work, db)
        /\ \A i \in DOMAIN saved :
             Extends(saved[i], db, denied, written) /\ SameSchema(saved[i], db)
    BY <1>1, <1>6, SessionFacts DEF WriterKeeps, MayYetCommit, SchemaOf, kept, saved
  <2> QED
    BY <1>12, <2>1
<1>14. BodiesKeep(k, c, db, written)
  <2> SUFFICES ASSUME ~call[s].interrupted PROVE BodiesKeep(k, c, db, written)
    BY <1>8 DEF BodiesKeep
  <2>1. /\ call[s].tried \subseteq 1 .. written /\ call[s].tried \cap db.rows = {}
        /\ \A j \in DOMAIN kept : kept[j] \subseteq call[s].tried /\ kept[j] \subseteq conn[s].work.rows
        /\ \A i \in DOMAIN saved, j \in DOMAIN kept :
             IF j <= i THEN kept[j] \subseteq saved[i].rows
             ELSE kept[j] \cap saved[i].rows = {}
    BY <1>6, SessionFacts DEF BodiesKeep, kept, saved
  <2>2. Len(saved) = n
    BY <1>1, InnerBody DEF saved, kept
  <2>3. n \in Nat /\ n > 0 /\ n + 1 = Len(kept) /\ n \in DOMAIN kept /\ n + 1 \in DOMAIN kept
    BY <1>6
  <2> HIDE DEF n
  <2>4. \A j \in DOMAIN c.kept : c.kept[j] \subseteq c.tried /\ c.kept[j] \subseteq k.work.rows
    <3> SUFFICES ASSUME NEW j \in 1 .. n
                 PROVE  Keeps(s)[j] \subseteq call[s].tried /\ Keeps(s)[j] \subseteq conn[s].work.rows
      BY <1>5, <1>7, <1>8
    <3>1. j \in DOMAIN kept
      BY <1>6, <2>3
    <3>2. Keeps(s)[j] \subseteq kept[j] \cup kept[n + 1]
      BY <1>5
    <3> QED
      BY <2>1, <2>3, <3>1, <3>2
  <2>5. ASSUME NEW i \in DOMAIN k.saved, NEW j \in DOMAIN c.kept
        PROVE  IF j <= i THEN c.kept[j] \subseteq k.saved[i].rows
               ELSE c.kept[j] \cap k.saved[i].rows = {}
    <3>1. i \in 1 .. n - 1 /\ j \in 1 .. n /\ c.kept[j] = Keeps(s)[j]
      BY <1>4, <1>5, <1>7, <1>8, <2>2
    <3>2. i \in DOMAIN saved /\ k.saved[i] = saved[i] /\ j \in DOMAIN kept
      BY <1>6, <1>12, <2>3, <3>1
    <3>3. CASE j <= i
      <4>1. j # n
        BY <2>3, <3>1, <3>3
      <4>2. Keeps(s)[j] = kept[j]
        BY <1>5, <3>1, <4>1
      <4> QED
        BY <2>1, <3>1, <3>2, <3>3, <4>2
    <3>4. CASE ~(j <= i)
      <4>1. kept[j] \cap saved[i].rows = {}
        BY <2>1, <3>2, <3>4
      <4>2. ~(n + 1 <= i)
        BY <2>3, <3>1
      <4>3. kept[n + 1] \cap saved[i].rows = {}
        BY <2>1, <2>3, <3>2, <4>2
      <4>4. Keeps(s)[j] \subseteq kept[j] \cup kept[n + 1]
        BY <1>5, <3>1
      <4> QED
        BY <3>1, <3>2, <3>4, <4>1, <4>3, <4>4
    <3> QED
      BY <3>3, <3>4
  <2> QED
    BY <1>8, <2>1, <2>4, <2>5 DEF BodiesKeep
<1>15. SessionKeeps(k, c, db', denied', written')
  BY <1>2, <1>8, <1>11, <1>13, <1>14 DEF SessionKeeps, ObservedStill
<1>16. k.lock = "reserved" => MayReserve(s)
  BY <1>7, WriterIsAlone
<1> QED
  BY <1>1, <1>2, <1>7, <1>8, <1>11, <1>15, <1>16, StepKeeps

\* RELEASE of the outermost savepoint of an interrupted transaction commits.
LEMMA OuterReleaseKeeps ==
  ASSUME SqliteInv, NEW s \in Sessions, SavepointReleases(s), Outermost(s) PROVE SqliteInv'
<1> DEFINE c == [call[s] EXCEPT !.kept = Keeps(s)]
<1>1. /\ call[s].at = "idle" /\ Depth(s) > 1 /\ Connect(s, Fresh)
      /\ db' = Stored(s) /\ Call(s, c) /\ UNCHANGED <<written, promised, denied>> /\ stuck' = stuck
  BY DEF SavepointReleases, History
<1>2. conn[s] \in Connections /\ call[s] \in Calls /\ FileKeeps
  BY SessionFacts
<1>3. Keeps(s) \in Seq(SUBSET Rows) /\ Len(Keeps(s)) = Len(call[s].kept) - 1
  BY <1>1, <1>2, KeepsFields
<1>4. Len(call[s].kept) \in Nat /\ Len(call[s].kept) > 1 /\ call[s].kept # <<>>
  BY <1>1, <1>2, BelowFields
<1>5. call[s].interrupted
  BY <1>1, InnerBody
<1>6. promised' \subseteq db.rows \cup Stored(s).rows /\ stuck' \subseteq Sessions
  BY <1>1, <1>2 DEF FileKeeps
<1>7. /\ FileKeeps' /\ written <= written'
      /\ MayReserve(s) \/ (db' = db /\ denied' = denied)
      /\ db'.attestation = NoAttestation =>
           db.attestation = NoAttestation /\ db'.catalog = db.catalog
  BY <1>1, <1>4, <1>6, CommitKeepsFile
<1>8. /\ c \in Calls /\ c.at = "idle" /\ c.kept = Keeps(s)
      /\ c.interrupted = call[s].interrupted /\ c.asked = call[s].asked
      /\ c.physical = call[s].physical
  BY <1>1, <1>2, <1>3 DEF Calls
<1> HIDE DEF c
<1>9. Paired(Fresh, c) /\ c.kept # <<>>
  BY <1>1, <1>3, <1>5, <1>8, OuterBodyIsPaired, FreshAndResting
<1>10. SessionKeeps(Fresh, c, db', denied', written')
  BY <1>8, <1>9, ReadersKeep, FreshAndResting DEF ObservedStill
<1> QED
  BY <1>1, <1>7, <1>8, <1>9, <1>10, StepKeeps, FreshAndResting

\* ROLLBACK TO undoes what the body did: its rows are denied, and in none of
\* what the session may still commit.
LEMMA SavepointRollbackKeeps ==
  ASSUME SqliteInv, NEW s \in Sessions, SavepointRollsBack(s) PROVE SqliteInv'
<1> DEFINE c == [call[s] EXCEPT !.kept = Below(s)]
           inner == [conn[s] EXCEPT !.work = Undone(s), !.saved = Unsave(s)]
           saved == conn[s].saved
           kept == call[s].kept
           n == Len(kept) - 1
<1>1. /\ call[s].at = "idle" /\ Depth(s) > 1 /\ Call(s, c)
      /\ Connect(s, IF saved = <<>> THEN conn[s] ELSE IF Outermost(s) THEN Fresh ELSE inner)
      /\ denied' = IF call[s].interrupted THEN denied ELSE denied \cup Top(s)
      /\ UNCHANGED <<db, written, promised>> /\ stuck' = stuck
  BY DEF SavepointRollsBack
<1>2. conn[s] \in Connections /\ call[s] \in Calls /\ FileKeeps
  BY SessionFacts
<1>3. /\ Below(s) \in Seq(SUBSET Rows) /\ Len(Below(s)) = n /\ DOMAIN Below(s) = 1 .. n
      /\ \A j \in 1 .. n : Below(s)[j] = kept[j]
      /\ Len(kept) \in Nat /\ Len(kept) > 1 /\ kept # <<>> /\ DOMAIN kept = 1 .. Len(kept)
  BY <1>1, <1>2, BelowFields
<1>4. /\ c \in Calls /\ c.at = "idle" /\ c.kept = Below(s) /\ c.tried = call[s].tried
      /\ c.interrupted = call[s].interrupted /\ c.asked = call[s].asked
      /\ c.physical = call[s].physical
  BY <1>1, <1>2, <1>3 DEF Calls
<1>5. ObservedStill(c, db)
  BY <1>4 DEF ObservedStill
<1>6. Top(s) = kept[Len(kept)] /\ Len(kept) \in DOMAIN kept
  BY <1>3 DEF Top, Depth
<1> HIDE DEF c, kept
<1>7. ~call[s].interrupted =>
        /\ call[s].tried \subseteq 1 .. written /\ call[s].tried \cap db.rows = {}
        /\ \A j \in DOMAIN kept : kept[j] \subseteq call[s].tried /\ kept[j] \subseteq conn[s].work.rows
        /\ \A i \in DOMAIN saved, j \in DOMAIN kept :
             IF j <= i THEN kept[j] \subseteq saved[i].rows
             ELSE kept[j] \cap saved[i].rows = {}
  BY <1>3, SessionFacts DEF BodiesKeep, kept
<1>8. ~call[s].interrupted => Top(s) \subseteq call[s].tried
  BY <1>6, <1>7
<1>9. /\ FileKeeps' /\ written <= written'
      /\ MayReserve(s) \/ (db' = db /\ denied' = denied)
  <2> DEFINE gone == Top(s) \cap call[s].tried
  <2>1. denied' = IF call[s].interrupted THEN denied ELSE denied \cup gone
    BY <1>1, <1>8
  <2>2. stuck' \subseteq Sessions /\ gone \subseteq call[s].tried /\ call[s].kept # <<>>
    BY <1>1, <1>2, <1>3 DEF FileKeeps, kept
  <2> HIDE DEF gone
  <2> QED
    BY <1>1, <2>1, <2>2, DenialKeeps
<1>10. CASE saved = <<>>
  <2>1. call[s].interrupted
    BY <1>1, <1>10, InnerBody
  <2>2. Connect(s, conn[s]) /\ denied' = denied
    BY <1>1, <1>10, <2>1
  <2>3. Paired(conn[s], c) /\ c.kept # <<>>
    BY <1>1, <1>2, <1>3, <1>4, <1>10, <2>1, OuterBodyIsPaired DEF kept
  <2>4. WriterKeeps(conn[s], c, db, denied, written)
    BY <1>1, <1>3, <1>4, SessionFacts DEF WriterKeeps, MayYetCommit, SchemaOf, kept
  <2>5. SessionKeeps(conn[s], c, db', denied', written')
    BY <1>1, <1>4, <1>5, <2>1, <2>2, <2>3, <2>4 DEF SessionKeeps, BodiesKeep
  <2>6. conn[s].lock = "reserved" => MayReserve(s)
    BY WriterIsAlone
  <2> QED
    BY <1>1, <1>2, <1>4, <1>9, <2>2, <2>3, <2>5, <2>6, StepKeeps
<1>11. CASE saved # <<>> /\ Outermost(s)
  <2>1. call[s].interrupted /\ Connect(s, Fresh)
    BY <1>1, <1>11, InnerBody
  <2>2. Paired(Fresh, c) /\ c.kept # <<>>
    BY <1>1, <1>3, <1>4, <2>1, OuterBodyIsPaired, FreshAndResting DEF kept
  <2>3. SessionKeeps(Fresh, c, db', denied', written')
    BY <1>1, <1>5, <2>2, ReadersKeep, FreshAndResting
  <2> QED
    BY <1>1, <1>4, <1>9, <2>1, <2>2, <2>3, StepKeeps, FreshAndResting
<1>12. CASE saved # <<>> /\ ~Outermost(s)
  <2> DEFINE m == Len(saved)
             k == inner
  <2>1. /\ Unsave(s) \in Seq(Contents) /\ Len(Unsave(s)) = m - 1
        /\ DOMAIN Unsave(s) = 1 .. m - 1
        /\ \A i \in 1 .. m - 1 : Unsave(s)[i] = saved[i]
        /\ m \in Nat \ {0} /\ DOMAIN saved = 1 .. m
        /\ m \in DOMAIN saved /\ LastSaved(s) \in Contents
    BY <1>2, <1>12, UnsaveFields
  <2>2. Undone(s) = saved[m]
    BY DEF Undone, LastSaved
  <2>3. /\ k \in Connections /\ k.open = conn[s].open /\ k.lock = conn[s].lock
        /\ k.work = saved[m] /\ k.saved = Unsave(s)
    <3>1. Undone(s) \in Contents
      BY <2>1 DEF Undone
    <3> QED
      BY <1>2, <2>1, <2>2, <3>1 DEF Connections
  <2>4. Connect(s, k)
    BY <1>1, <1>12
  <2>5. k.open # "none"
    BY <1>12, <2>3, SessionFacts DEF Paired
  <2>6. k # Fresh /\ (~call[s].interrupted => Len(k.saved) = Len(saved) - 1)
    BY <2>1, <2>3, <2>5, FreshAndResting
  <2> HIDE DEF k
  <2>7. Paired(k, c) /\ c.kept # <<>>
    BY <1>1, <1>3, <1>4, <2>3, <2>5, <2>6, OuterBodyIsPaired DEF kept
  <2>8. ~call[s].interrupted => m = n
    BY <1>1, InnerBody DEF kept
  <2> HIDE DEF saved, m
  <2>9. \A i \in DOMAIN k.saved : i \in DOMAIN saved /\ k.saved[i] = saved[i]
    BY <2>1, <2>3
  <2>10. ASSUME ~call[s].interrupted, NEW i \in DOMAIN saved
         PROVE  Top(s) \cap saved[i].rows = {}
    <3>1. ~(Len(kept) <= i)
      BY <1>3, <2>1, <2>8, <2>10
    <3> QED
      BY <1>6, <1>7, <2>10, <3>1
  <2>11. WriterKeeps(k, c, db, denied', written)
    <3> SUFFICES ASSUME conn[s].lock = "reserved"
                 PROVE  \A i \in DOMAIN saved :
                          Extends(saved[i], db, denied', written) /\ SameSchema(saved[i], db)
      BY <1>4, <2>1, <2>3, <2>9 DEF WriterKeeps, MayYetCommit, SchemaOf
    <3>1. \A i \in DOMAIN saved :
            Extends(saved[i], db, denied, written) /\ SameSchema(saved[i], db)
      BY <1>1, <1>3, SessionFacts DEF WriterKeeps, MayYetCommit, kept, saved
    <3>2. \A i \in DOMAIN saved : saved[i].rows \cap denied' = {}
      BY <1>1, <2>10, <3>1 DEF Extends
    <3> QED
      BY <3>1, <3>2 DEF Extends
  <2>12. BodiesKeep(k, c, db, written)
    <3> SUFFICES ASSUME ~call[s].interrupted PROVE BodiesKeep(k, c, db, written)
      BY <1>4 DEF BodiesKeep
    <3>1. \A j \in DOMAIN c.kept : j \in DOMAIN kept /\ c.kept[j] = kept[j] /\ j <= m
      BY <1>3, <1>4, <2>8
    <3>2. \A j \in DOMAIN c.kept : c.kept[j] \subseteq c.tried /\ c.kept[j] \subseteq k.work.rows
      BY <1>4, <1>7, <2>1, <2>3, <3>1
    <3>3. ASSUME NEW i \in DOMAIN k.saved, NEW j \in DOMAIN c.kept
          PROVE  IF j <= i THEN c.kept[j] \subseteq k.saved[i].rows
                 ELSE c.kept[j] \cap k.saved[i].rows = {}
      BY <1>7, <2>9, <3>1
    <3> QED
      BY <1>4, <1>7, <3>2, <3>3 DEF BodiesKeep
  <2>13. SessionKeeps(k, c, db', denied', written')
    BY <1>1, <1>5, <2>7, <2>11, <2>12 DEF SessionKeeps
  <2>14. k.lock = "reserved" => MayReserve(s)
    BY <2>3, WriterIsAlone
  <2> QED
    BY <1>1, <1>4, <1>9, <2>3, <2>4, <2>7, <2>13, <2>14, StepKeeps
<1> QED
  BY <1>10, <1>11, <1>12

-----------------------------------------------------------------------------
(* The invariant, and what follows from it.                                 *)

LEMMA SqliteInitInv == SqliteInit => SqliteInv
<1> SUFFICES ASSUME SqliteInit PROVE SqliteInv
  OBVIOUS
<1>1. /\ conn \in [Sessions -> Connections] /\ call \in [Sessions -> Calls]
      /\ \A s \in Sessions : conn[s] = Fresh /\ call[s] = NoCalls
  BY FreshAndResting DEF SqliteInit
<1>2. Whole({})
  <2>1. {} = UNION {ChangesOf(p) : p \in {}}
    OBVIOUS
  <2> QED
    BY <2>1 DEF Whole
<1>3. FileKeeps
  <2>1. db = Empty /\ Empty \in Contents /\ Sound(Empty) /\ Empty.rows = {}
    BY <1>2, FreshAndResting DEF SqliteInit, Sound, Empty
  <2>2. 0 \in 0 .. MaxWrites
    BY SqliteAssumption
  <2> QED
    BY <2>1, <2>2 DEF SqliteInit, FileKeeps
<1>4. \A s \in Sessions : SessionKeeps(conn[s], call[s], db, denied, written)
  BY <1>1, RestingKeeps
<1>5. /\ \A s, r \in Sessions : conn[s].lock = "reserved" /\ conn[r].lock = "reserved" => s = r
      /\ OnlyBusyLeavesOpen
  BY <1>1, FreshAndResting DEF OnlyBusyLeavesOpen
<1> QED
  BY <1>1, <1>3, <1>4, <1>5 DEF SqliteInv

LEMMA SqliteStepInv == SqliteInv /\ [SqliteNext]_sqliteVars => SqliteInv'
<1> SUFFICES ASSUME SqliteInv, [SqliteNext]_sqliteVars PROVE SqliteInv'
  OBVIOUS
<1>1. ASSUME UNCHANGED sqliteVars PROVE SqliteInv'
  BY <1>1 DEF sqliteVars, SqliteInv, FileKeeps, OnlyBusyLeavesOpen, Resting, Depth
<1>2. ASSUME NEW s \in Sessions,
             \/ Reconnect(s) \/ StartQuery(s) \/ EndQuery(s) \/ Interrupt(s)
             \/ \E ok \in BOOLEAN : MutateAlone(s, ok) \/ MutateWithin(s, ok)
      PROVE  SqliteInv'
  BY <1>2, ReconnectKeeps, StartQueryKeeps, EndQueryKeeps, InterruptKeeps,
     MutateAloneKeeps, MutateWithinKeeps
<1>3. ASSUME NEW s \in Sessions,
             \/ BeginTransaction(s) \/ TransactionCommits(s) \/ CommitFails(s)
             \/ TransactionRollsBack(s)
      PROVE  SqliteInv'
  BY <1>3, BeginKeeps, CommitKeeps, CommitFailsKeeps, RollbackKeeps
<1>4. ASSUME NEW s \in Sessions,
             \/ Savepoint(s) \/ SavepointReleases(s) \/ ReleaseFails(s) \/ SavepointRollsBack(s)
      PROVE  SqliteInv'
  BY <1>4, SavepointKeeps, InnerReleaseKeeps, OuterReleaseKeeps, ReleaseFailsKeeps,
     SavepointRollbackKeeps
<1>5. ASSUME NEW s \in Sessions,
             \/ \E p \in Programs : Migrate(s, p)
             \/ MigrateStatement(s) \/ WriteAttestation(s) \/ MigrationRollsBack(s)
             \/ MigrationCommits(s)
      PROVE  SqliteInv'
  BY <1>5, MigrateKeeps, StatementKeeps, AttestKeeps, MigrationRollbackKeeps,
     MigrationCommitKeeps
<1>6. ASSUME NEW s \in Sessions,
             \/ Verify(s) \/ \E x \in Changes : Introspect(s, x)
             \/ ReadAttestation(s) \/ Adopt(s) \/ AdoptCommits(s)
      PROVE  SqliteInv'
  BY <1>6, VerifyKeeps, IntrospectKeeps, ReadAttestationKeeps, AdoptKeeps, AdoptCommitKeeps
<1> QED
  BY <1>1, <1>2, <1>3, <1>4, <1>5, <1>6 DEF SqliteNext

LEMMA SqliteInvariant == SqliteSpec => []SqliteInv
<1> QED
  BY SqliteInitInv, SqliteStepInv, PTL DEF SqliteSpec

\* The file, the connections and the calls have their types, and what a session is
\* in says what its connection holds.
THEOREM SqliteTypes == SqliteSpec => []SqliteTypeOK
<1>1. SqliteInv => SqliteTypeOK
  <2> SUFFICES ASSUME SqliteInv PROVE SqliteTypeOK
    OBVIOUS
  <2>1. written \in 0 .. MaxWrites /\ MaxWrites \in Nat
    BY SqliteAssumption DEF SqliteInv, FileKeeps
  <2>2. 1 .. written \subseteq Rows
    BY <2>1 DEF Rows
  <2>3. db \in Contents /\ promised \subseteq Rows /\ denied \subseteq Rows /\ stuck \subseteq Sessions
    BY <2>2 DEF SqliteInv, FileKeeps
  <2>4. ASSUME NEW s \in Sessions
        PROVE  /\ conn[s].open = "none" => conn[s].lock # "reserved" /\ conn[s].saved = <<>>
               /\ call[s].at \notin {"idle", "query"} => call[s].kept = <<>>
               /\ call[s].at = "query" <=> conn[s].lock = "shared"
               /\ Len(call[s].kept) <= MaxDepth
               /\ conn[s].open = "begin" /\ conn[s].saved # <<>> =>
                    Len(conn[s].saved) < Len(call[s].kept)
    <3>1. Paired(conn[s], call[s])
      BY SessionFacts
    <3>2. ASSUME conn[s].open = "begin", conn[s].saved # <<>>
          PROVE  Len(conn[s].saved) < Len(call[s].kept)
      <4>1. Len(conn[s].saved) \in Nat \ {0} /\ Len(call[s].kept) \in Nat
        BY <3>2, SessionFacts, ConnectionFields, CallFields, EmptySeq
      <4>2. Len(conn[s].saved) = IF call[s].kept = <<>> THEN 0 ELSE Len(call[s].kept) - 1
        BY <3>1, <3>2 DEF Paired
      <4> QED
        BY <4>1, <4>2
    <3> QED
      BY <3>1, <3>2 DEF Paired
  <2> QED
    BY <2>1, <2>3, <2>4 DEF SqliteInv, SqliteTypeOK
<1> QED
  BY <1>1, SqliteInvariant, PTL

\* Whatever sessions migrate and adopt at once, the file holds whole programs
\* (migrate) and its attestation is of its own catalog (verify_or_adopt).
THEOREM SchemaStaysAttested == SqliteSpec => []SchemaIsAttested
<1>1. SqliteInv => SchemaIsAttested
  BY DEF SqliteInv, FileKeeps, Sound, Whole, ChangesOf, SchemaIsAttested
<1> QED
  BY <1>1, SqliteInvariant, PTL

\* A row that an autocommitted mutation or an uninterrupted transaction answered for
\* is in the file and stays there.
THEOREM PromisesKept == SqliteSpec => []PromisesAreKept
<1>1. SqliteInv => PromisesAreKept
  BY DEF SqliteInv, FileKeeps, PromisesAreKept
<1> QED
  BY <1>1, SqliteInvariant, PTL

\* A row of a transaction or a savepoint that answered an error never comes to the
\* file, unless the transaction was interrupted under its body.
THEOREM RefusalsKept == SqliteSpec => []RefusalsAreKept
<1>1. SqliteInv => RefusalsAreKept
  BY DEF SqliteInv, FileKeeps, RefusalsAreKept
<1> QED
  BY <1>1, SqliteInvariant, PTL

\* A session in no call has an open transaction only after a COMMIT that was busy.
THEOREM BusyLeavesOpen == SqliteSpec => []OnlyBusyLeavesOpen
<1>1. SqliteInv => OnlyBusyLeavesOpen
  BY DEF SqliteInv
<1> QED
  BY <1>1, SqliteInvariant, PTL
=============================================================================
