--------------------------- MODULE SqliteSession ---------------------------
(***************************************************************************)
(* Sessions of the SQLite driver on one database file: autocommitted       *)
(* mutations and queries, transactions with savepoints, migrations with    *)
(* their attestation, and verify_or_adopt.  Bodies of transactions are     *)
(* callers' code and may do anything, also go on after an error.           *)
(*                                                                         *)
(* SQLite itself is external: a rollback journal, one lock per file and    *)
(* connection, immediate transactions, a busy error after the timeout, and *)
(* an interrupted write that rolls back the transaction it is part of.     *)
(***************************************************************************)
EXTENDS Naturals, Sequences

CONSTANTS
  Sessions,
  Programs,     \* checked migration programs
  Statements,   \* the statements of each program: changes of the catalog
  MaxWrites,    \* bound: mutations in a behaviour
  MaxDepth,     \* bound: bodies within bodies, of two sessions together
  NoProgram, NoAttestation

ASSUME SqliteAssumption ==
  /\ MaxWrites \in Nat /\ MaxDepth \in Nat \ {0}
  /\ \A p \in Programs : Statements[p] \in Seq(STRING)
  /\ NoProgram \notin Programs
  /\ NoAttestation \notin [revision : Programs \cup {NoProgram}, physical : SUBSET STRING]

VARIABLES
  db,        \* the database as any connection finds it after a crash
  conn,      \* per connection, what SQLite keeps of it
  call,      \* per session, the calls it is in
  written,   \* how many rows were written: each row is its own number
  promised,  \* history: rows that an answer said are stored
  denied,    \* history: rows that an answer said are not
  stuck      \* history: sessions on which a COMMIT found the file busy

sqliteVars == <<db, conn, call, written, promised, denied, stuck>>

Changes == UNION {{Statements[p][i] : i \in DOMAIN Statements[p]} : p \in Programs}
Rows == 1 .. MaxWrites
Attestations == [revision : Programs \cup {NoProgram}, physical : SUBSET Changes]
Contents == [catalog : SUBSET Changes, rows : SUBSET Rows,
             attestation : Attestations \cup {NoAttestation}]

Empty == [catalog |-> {}, rows |-> {}, attestation |-> NoAttestation]

(***************************************************************************)
(* Connections.  `open` is the transaction that is open on it: none, one   *)
(* that BEGIN IMMEDIATE started, or one that an outermost SAVEPOINT did.   *)
(***************************************************************************)
Connections ==
  [open : {"none", "begin", "savepoint"}, lock : {"none", "shared", "reserved"},
   work : Contents, saved : Seq(Contents)]

Fresh == [open |-> "none", lock |-> "none", work |-> Empty, saved |-> <<>>]

OthersLack(s, lock) == \A r \in Sessions \ {s} : conn[r].lock # lock
MayReserve(s) == OthersLack(s, "reserved")
MayCommit(s) == OthersLack(s, "shared")

Reserved == [Fresh EXCEPT !.open = "begin", !.lock = "reserved", !.work = db]

(***************************************************************************)
(* Calls.  `kept` has one set of rows per body that is being run: the rows *)
(* its caller was told are written and that no savepoint gave up.          *)
(***************************************************************************)
Places == {"idle", "query", "migrate", "attest", "observe", "adopt", "adopted"}

Calls == [at : Places, kept : Seq(SUBSET Rows), tried : SUBSET Rows,
          interrupted : BOOLEAN, program : Programs \cup {NoProgram}, todo : Seq(STRING),
          asked : SUBSET Changes, physical : SUBSET Changes]

NoCalls == [at |-> "idle", kept |-> <<>>, tried |-> {}, interrupted |-> FALSE,
            program |-> NoProgram, todo |-> <<>>, asked |-> {}, physical |-> {}]

SqliteTypeOK ==
  /\ db \in Contents
  /\ conn \in [Sessions -> Connections]
  /\ call \in [Sessions -> Calls]
  /\ written \in 0 .. MaxWrites
  /\ promised \subseteq Rows /\ denied \subseteq Rows /\ stuck \subseteq Sessions
  /\ \A s \in Sessions :
       /\ conn[s].open = "none" => conn[s].lock # "reserved" /\ conn[s].saved = <<>>
       /\ call[s].at \notin {"idle", "query"} => call[s].kept = <<>>
       /\ call[s].at = "query" <=> conn[s].lock = "shared"
       /\ Len(call[s].kept) <= MaxDepth
       /\ conn[s].open = "begin" /\ conn[s].saved # <<>> =>
            Len(conn[s].saved) < Len(call[s].kept)

SqliteInit ==
  /\ db = Empty
  /\ conn = [s \in Sessions |-> Fresh]
  /\ call = [s \in Sessions |-> NoCalls]
  /\ written = 0 /\ promised = {} /\ denied = {} /\ stuck = {}

Depth(s) == Len(call[s].kept)
Top(s) == call[s].kept[Depth(s)]
Below(s) == SubSeq(call[s].kept, 1, Depth(s) - 1)

Connect(s, k) == conn' = [conn EXCEPT ![s] = k]
Call(s, c) == call' = [call EXCEPT ![s] = c]
Resting(s) == call[s].at = "idle" /\ Depth(s) = 0
History == <<written, promised, denied, stuck>>

\* connect: a new session.  The one that was dropped, by its owner or with its
\* process, loses what it did not commit.
Reconnect(s) ==
  /\ call[s] # NoCalls \/ conn[s] # Fresh
  /\ Connect(s, Fresh) /\ Call(s, NoCalls)
  /\ stuck' = stuck \ {s}
  /\ UNCHANGED <<db, written, promised, denied>>

(***************************************************************************)
(* query: outside a transaction the file is shared while rows go to the    *)
(* caller's sink, until the last row, the work limit or an error.          *)
(***************************************************************************)
StartQuery(s) ==
  /\ Resting(s) /\ conn[s].open = "none"
  /\ Connect(s, [conn[s] EXCEPT !.lock = "shared"])
  /\ Call(s, [call[s] EXCEPT !.at = "query"])
  /\ UNCHANGED <<db, History>>

EndQuery(s) ==
  /\ call[s].at = "query"
  /\ Connect(s, [conn[s] EXCEPT !.lock = "none"])
  /\ Call(s, [call[s] EXCEPT !.at = "idle"])
  /\ UNCHANGED <<db, History>>

(***************************************************************************)
(* mutate.  Rows that the mutation returns are decoded and counted after   *)
(* it took effect: an error may be answered for a row that is written.     *)
(***************************************************************************)
Row == written + 1

Told(s, ok) ==
  [call[s] EXCEPT !.tried = IF Depth(s) = 0 THEN {} ELSE @ \cup {Row},
                  !.kept = IF Depth(s) = 0 \/ ~ok THEN @
                           ELSE [@ EXCEPT ![Depth(s)] = Top(s) \cup {Row}]]

MutateAlone(s, ok) ==
  /\ call[s].at = "idle" /\ conn[s].open = "none" /\ written < MaxWrites
  /\ MayReserve(s) /\ MayCommit(s)
  /\ db' = [db EXCEPT !.rows = @ \cup {Row}]
  /\ written' = Row
  /\ promised' = IF ok /\ Depth(s) = 0 THEN promised \cup {Row} ELSE promised
  /\ Call(s, Told(s, ok))
  /\ UNCHANGED <<conn, denied, stuck>>

\* In a transaction that a SAVEPOINT opened, the first write reserves the file,
\* and ROLLBACK TO undoes what the transaction wrote and nothing of the others.
Written(s) ==
  IF conn[s].lock = "reserved" THEN [conn[s].work EXCEPT !.rows = @ \cup {Row}]
  ELSE [db EXCEPT !.rows = @ \cup {Row}]
Restored(s) ==
  IF conn[s].lock = "reserved" THEN conn[s].saved
  ELSE [i \in DOMAIN conn[s].saved |-> db]

MutateWithin(s, ok) ==
  /\ call[s].at = "idle" /\ conn[s].open # "none" /\ written < MaxWrites
  /\ conn[s].lock = "reserved" \/ MayReserve(s)
  /\ Connect(s, [conn[s] EXCEPT !.lock = "reserved", !.work = Written(s),
                             !.saved = Restored(s)])
  /\ written' = Row
  /\ Call(s, Told(s, ok))
  /\ UNCHANGED <<db, promised, denied, stuck>>

\* The deadline of the session interrupts a write: SQLite rolls back all of the
\* transaction, and the caller's body finds an error it may ignore.
Interrupt(s) ==
  /\ call[s].at = "idle" /\ Depth(s) > 0 /\ conn[s].open # "none"
  /\ Connect(s, Fresh)
  /\ Call(s, [call[s] EXCEPT !.interrupted = TRUE])
  /\ UNCHANGED <<db, History>>

(***************************************************************************)
(* transaction and savepoint.                                              *)
(***************************************************************************)
\* A transaction needs BEGIN IMMEDIATE to succeed: no other, open one on this
\* connection, and no other connection that writes.
BeginTransaction(s) ==
  /\ Resting(s) /\ conn[s].open = "none" /\ MayReserve(s)
  /\ Connect(s, Reserved)
  /\ Call(s, [call[s] EXCEPT !.kept = <<{}>>])
  /\ UNCHANGED <<db, History>>

Stored(s) == IF conn[s].lock = "reserved" THEN conn[s].work ELSE db

Commits(s) == conn[s].open # "none" /\ (conn[s].lock = "reserved" => MayCommit(s))

\* The end of a transaction call that answers an error, or success.
Refused(s) ==
  /\ denied' = IF call[s].interrupted THEN denied ELSE denied \cup call[s].tried
  /\ Call(s, NoCalls)

Committed(s) ==
  /\ promised' = IF call[s].interrupted THEN promised ELSE promised \cup Top(s)
  /\ Call(s, NoCalls)

TransactionCommits(s) ==
  /\ call[s].at = "idle" /\ Depth(s) = 1 /\ Commits(s)
  /\ db' = Stored(s) /\ Connect(s, Fresh)
  /\ Committed(s)
  /\ UNCHANGED <<written, denied, stuck>>

\* COMMIT fails when a reader outlasts the busy timeout: the transaction stays
\* open on the connection.  It also fails when there is no transaction any more.
CommitFails(s) ==
  /\ call[s].at = "idle" /\ Depth(s) = 1 /\ ~Commits(s)
  /\ stuck' = IF conn[s].open = "none" THEN stuck ELSE stuck \cup {s}
  /\ Refused(s)
  /\ UNCHANGED <<db, conn, written, promised>>

\* Fault: a body that fails leaves its transaction to be committed.
RollbackForgotten(s) == conn[s]

Rollback(s) == Fresh

TransactionRollsBack(s) ==
  /\ call[s].at = "idle" /\ Depth(s) = 1
  /\ Connect(s, Rollback(s))
  /\ Refused(s)
  /\ UNCHANGED <<db, written, promised, stuck>>

Savepoint(s) ==
  /\ call[s].at = "idle" /\ Depth(s) \in 1 .. MaxDepth - 1
  /\ \A r \in Sessions \ {s} : Depth(r) + Depth(s) < MaxDepth  \* bound
  /\ Connect(s, [conn[s] EXCEPT !.open = IF @ = "none" THEN "savepoint" ELSE @,
                                !.saved = Append(@, Stored(s))])
  /\ Call(s, [call[s] EXCEPT !.kept = Append(@, {})])
  /\ UNCHANGED <<db, History>>

\* Fault: two savepoints go by one name, and the outer one is rolled back to.
FirstSaved(s) == conn[s].saved[1]

LastSaved(s) == conn[s].saved[Len(conn[s].saved)]

\* Fault: a savepoint is rolled back and not released.
Unreleased(s) == conn[s].saved

Unsave(s) == SubSeq(conn[s].saved, 1, Len(conn[s].saved) - 1)

\* Whether RELEASE of the innermost savepoint commits the transaction.
Outermost(s) == conn[s].open = "savepoint" /\ Len(conn[s].saved) = 1

\* The enclosing body keeps what the released one kept.
Keeps(s) ==
  [Below(s) EXCEPT ![Depth(s) - 1] = @ \cup Top(s)]

SavepointReleases(s) ==
  /\ call[s].at = "idle" /\ Depth(s) > 1 /\ conn[s].saved # <<>>
  /\ Outermost(s) => Commits(s)
  /\ IF Outermost(s) THEN db' = Stored(s) /\ Connect(s, Fresh)
     ELSE Connect(s, [conn[s] EXCEPT !.saved = Unsave(s)]) /\ UNCHANGED db
  /\ Call(s, [call[s] EXCEPT !.kept = Keeps(s)])
  /\ UNCHANGED History

\* RELEASE of a savepoint that an interruption took, or that cannot commit.
ReleaseFails(s) ==
  /\ call[s].at = "idle" /\ Depth(s) > 1
  /\ conn[s].saved = <<>> \/ (Outermost(s) /\ ~Commits(s))
  /\ Call(s, [call[s] EXCEPT !.kept = Below(s)])
  /\ UNCHANGED <<db, conn, History>>

\* Fault: ROLLBACK TO is forgotten.
OnlyReleased(s) == conn[s].work

\* ROLLBACK TO the savepoint, then RELEASE.
Undone(s) == LastSaved(s)

SavepointRollsBack(s) ==
  /\ call[s].at = "idle" /\ Depth(s) > 1
  /\ Connect(s, IF conn[s].saved = <<>> THEN conn[s]
                ELSE IF Outermost(s) THEN Fresh
                ELSE [conn[s] EXCEPT !.work = Undone(s), !.saved = Unsave(s)])
  /\ Call(s, [call[s] EXCEPT !.kept = Below(s)])
  /\ denied' = IF call[s].interrupted THEN denied ELSE denied \cup Top(s)
  /\ UNCHANGED <<db, written, promised, stuck>>

(***************************************************************************)
(* migrate, and schema, which is the same.                                 *)
(***************************************************************************)
Migrate(s, p) ==
  /\ Resting(s) /\ conn[s].open = "none" /\ MayReserve(s)
  /\ Connect(s, Reserved)
  /\ Call(s, [call[s] EXCEPT !.at = "migrate", !.program = p, !.todo = Statements[p]])
  /\ UNCHANGED <<db, History>>

MigrateStatement(s) ==
  /\ call[s].at = "migrate" /\ call[s].todo # <<>>
  /\ Head(call[s].todo) \notin conn[s].work.catalog
  /\ Connect(s, [conn[s] EXCEPT !.work.catalog = @ \cup {Head(call[s].todo)}])
  /\ Call(s, [call[s] EXCEPT !.todo = Tail(@)])
  /\ UNCHANGED <<db, History>>

\* Fault: the attestation repeats the physical schema of the one before it.
AttestedBefore(s) ==
  IF db.attestation = NoAttestation THEN conn[s].work.catalog ELSE db.attestation.physical

\* write_attestation introspects within the migration's own transaction.
Introspected(s) == conn[s].work.catalog

WriteAttestation(s) ==
  /\ call[s].at = "migrate" /\ call[s].todo = <<>>
  /\ Connect(s, [conn[s] EXCEPT !.work.attestation =
                   [revision |-> call[s].program, physical |-> Introspected(s)]])
  /\ Call(s, [call[s] EXCEPT !.at = "attest"])
  /\ UNCHANGED <<db, History>>

\* Any statement may fail, and does when its change is already there.
MigrationRollsBack(s) ==
  /\ call[s].at \in {"migrate", "attest"}
  /\ Connect(s, Rollback(s)) /\ Call(s, NoCalls)
  /\ UNCHANGED <<db, History>>

MigrationCommits(s) ==
  /\ call[s].at = "attest"
  /\ IF Commits(s)
     THEN db' = Stored(s) /\ Connect(s, Fresh) /\ UNCHANGED stuck
     ELSE stuck' = stuck \cup {s} /\ UNCHANGED <<db, conn>>
  /\ Call(s, NoCalls)
  /\ UNCHANGED <<written, promised, denied>>

(***************************************************************************)
(* verify_or_adopt, on a connection of its own.  The catalog is read by    *)
(* several statements, then the attestation; only adoption writes.         *)
(***************************************************************************)
Verify(s) ==
  /\ Resting(s) /\ conn[s] = Fresh
  /\ Call(s, [call[s] EXCEPT !.at = "observe"])
  /\ UNCHANGED <<db, conn, History>>

Introspect(s, c) ==
  /\ call[s].at = "observe" /\ c \in Changes \ call[s].asked
  /\ Call(s, [call[s] EXCEPT !.asked = @ \cup {c},
                             !.physical = @ \cup ({c} \cap db.catalog)])
  /\ UNCHANGED <<db, conn, History>>

\* An attestation that cannot be read counts as none: adoption goes on only if
\* the manifest names the physical schema that was observed.
ReadAttestation(s) ==
  /\ call[s].at = "observe" /\ call[s].asked = Changes
  /\ \/ db.attestation # NoAttestation /\ Call(s, NoCalls)
     \/ Call(s, [call[s] EXCEPT !.at = "adopt"])
  /\ UNCHANGED <<db, conn, History>>

\* Fault: CREATE TABLE IF NOT EXISTS, as migrate does.
CreatesAnyway(s) == MayReserve(s)

\* CREATE TABLE reserves the file, and fails when an attestation is there.
CreatesTable(s) == MayReserve(s) /\ db.attestation = NoAttestation

Adopt(s) ==
  /\ call[s].at = "adopt"
  /\ IF CreatesTable(s)
     THEN /\ Connect(s, [Reserved EXCEPT !.work.attestation =
                           [revision |-> NoProgram, physical |-> call[s].physical]])
          /\ Call(s, [call[s] EXCEPT !.at = "adopted"])
     ELSE UNCHANGED conn /\ Call(s, NoCalls)
  /\ UNCHANGED <<db, History>>

\* The transaction value rolls back when it is dropped without its commit.
AdoptCommits(s) ==
  /\ call[s].at = "adopted"
  /\ db' = IF Commits(s) THEN Stored(s) ELSE db
  /\ Connect(s, Fresh) /\ Call(s, NoCalls)
  /\ UNCHANGED History

SqliteNext ==
  \E s \in Sessions :
    \/ Reconnect(s) \/ StartQuery(s) \/ EndQuery(s)
    \/ \E ok \in BOOLEAN : MutateAlone(s, ok) \/ MutateWithin(s, ok)
    \/ Interrupt(s) \/ BeginTransaction(s) \/ TransactionCommits(s)
    \/ CommitFails(s) \/ TransactionRollsBack(s) \/ Savepoint(s)
    \/ SavepointReleases(s) \/ ReleaseFails(s) \/ SavepointRollsBack(s)
    \/ \E p \in Programs : Migrate(s, p)
    \/ MigrateStatement(s) \/ WriteAttestation(s) \/ MigrationRollsBack(s)
    \/ MigrationCommits(s) \/ Verify(s)
    \/ \E c \in Changes : Introspect(s, c)
    \/ ReadAttestation(s) \/ Adopt(s) \/ AdoptCommits(s)

SqliteSpec == SqliteInit /\ [][SqliteNext]_sqliteVars

(***************************************************************************)
(* Properties.                                                             *)
(***************************************************************************)
\* Whoever migrates or adopts at the same time, and wherever one of them fails:
\* the file holds whole programs, and its attestation is of its own catalog.
SchemaIsAttested ==
  /\ \E done \in SUBSET Programs :
       db.catalog = UNION {{Statements[p][i] : i \in DOMAIN Statements[p]} : p \in done}
  /\ db.attestation # NoAttestation => db.attestation.physical = db.catalog

\* A row that an autocommitted mutation or a transaction answered for is in the
\* file.  Two things are left out, that do happen: a session whose COMMIT failed
\* keeps its transaction open and answers for rows that are lost with it, and a
\* transaction may have been interrupted under a body that went on.
PromisesAreKept == promised \subseteq db.rows

\* The rows of a transaction or a savepoint that answered an error never come to
\* the file, unless an interruption took the transaction from under its body.
RefusalsAreKept == denied \cap db.rows = {}

\* A transaction is open on a session that is in no call only after a COMMIT
\* that found the file busy.
OnlyBusyLeavesOpen ==
  \A s \in Sessions : Resting(s) /\ conn[s].open # "none" => s \in stuck
=============================================================================
