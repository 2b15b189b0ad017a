# TLA+ models of sim-platform

This directory models the stateful parts of sim-platform (the *capsules* that
carry SIM's platform contracts on each host) in TLA+.  TLC checks the models on
small instances; TLAPS proves every invariant and action property the passing
runs check, for every value of the constants.  `PROJECT.json` lists the runs,
the mutants that show each property can fail, the source lines behind every
definition, the findings, the hazards and the theorems.

To check a run: `tlc -config HostDirExchange.cfg MCHostDir.tla`.  To check the
proofs of a module: `tlapm HostDirProofs.tla`.

## 1. Inventory

sim-platform is a set of Rust crates.  A *bundle* of providers is composed from
Cards (sim-platform-core), verified and loaded by the bootstrap, and each
provider is a capsule that realizes some ports of the SIM runtime on one host.
Capsules do not talk to each other: they share contracts (ProcessPort,
HostDirPort, SqlDriver, MIDI and audio ports), and the host's operating system.

| Component | State it keeps | Operations | Hard behaviour |
|---|---|---|---|
| ubuntu-pc `process.rs` | a child and its descendants, pipe threads, shared output budget | `run`, `run_child`, `terminate_tree` | threads against each other, a program that does what it likes, signals, deadline and token |
| ubuntu-pc `sandbox.rs` | the same child under bwrap | `launch`, `report` | reuses `run_child`, other process group |
| ubuntu-pc `local_check*` | lease, attempts, evidence records | `run`, `perform`, `observe` | restarts, an outcome that is not known |
| table-fs `adapters.rs` | files, temporaries, lock files of a host directory | `replace`, `compare_exchange`, `remove_file` | several processes, crashes, power cuts, cancellation |
| table-fs `fs_dir*`, `dir_edit` | keys as leaf files with an inferred extension | get, set, del, compare-exchange, edit | lookup and write are separate calls |
| sqlite | connection, open transaction, savepoints, attached databases | connect, migrate, transaction | busy errors, two connections, adoption of a schema |
| halo, amazfit | consent, lifecycle, session, seen sequences, assembly, queue | connect, receive, next, disconnect | lost, repeated, reordered fragments; withdrawal with inputs queued |
| browser | card, pending calls, handles | host call, completion, lifecycle | completions in any order, suspension with calls in flight, reused handle numbers |
| android | lifecycle, resources, audio and speech session, binding | typed dispatch, callbacks of the activity | process death and recreation, two sides that must agree on the microphone |
| ios | lifecycle, permissions, resources, documents | typed dispatch, the scene's callbacks | security scopes the scene holds for the capsule |
| linux | request and entropy budget, revoked tokens | `apply`, `revoke`, suspend, resume | cancellation on both sides of the portal |
| macos, windows | a four-state lifecycle over native services | request, activate, suspend, resume, stop | one cleanup, however it ends |
| midi, audio | a connection's place in its events, streams, hotplug queue | open, receive, reconnect, close, poll | losses and reconnections |
| viture-ffi | sessions, the shared IMU switch | start, close, reconnect, send, drop | a step of start or reconnect failing |
| table-fs in memory | one map of paths under a mutex | replace, `compare_exchange`, remove | entries whose directory is gone |
| model | clock, generator, lifecycle script, injected fault; script of process outcomes and log of requests | `apply`, `run` | replies must be reproducible; the log and the script are under two mutexes |
| core | none of its own | `platform_require`, `compose_bundle` | stale attestations, offers that shadow each other |
| bootstrap | what it has read of three files | `bootstrap` | files changing between check and use |
| lib-platform | none | arity, capability and site of a call | none |
| ubuntu-rpi, wasi, construction, web-shell, xtask | none | profile checks, wiring, packaging | none |

What makes each of them correct, in short: a *process receipt* that claims an
end leaves nothing running, holds the whole output and is given by the
deadline; a *directory* behaves as if each call happened at one instant, and an
acknowledged exchange survives a power cut; a *proxy* delivers whole messages
of the present connection, once; a *browser capsule* answers each call once and
knows the handles that are open; a suspended
*capsule* of a page, an activity or a scene holds nothing, one of a desktop keeps
what it has and gives back nothing that was cut off, and what a session holds on
the other side is held while the session is; a *table* maps each key to one leaf; a
*local check* reports as verified only what its own attempt did; a *migration*
happens entirely or not at all.

## 2. Plan

| Order | Module | Composes | Abstract specification | State |
|---|---|---|---|---|
| 1 | `ProcessRun` | child tree, kernel, threads, runner | `ProcessContract` | checked, proved |
| 2 | `HostDir` | clients, lock files, medium | `AtomicLeaves` | checked, proved |
| 3 | `CompanionLink` | halo and amazfit capsule, link, consumer | `ProxyMailbox` | checked, proved |
| 4 | `FsTable` | clients of one key of a table, over port calls of which an exchange reads first and renames later | none: action properties relate answers to what the key held | checked, proved |
| 5 | `SqliteSession` | two sessions, SQLite's locks and journal | none: the attestation is related to the catalog, answers to rows | checked, proved |
| 6 | `LocalCheck` | performer, observer, journal, program, crashes | none: verdicts are related to runs | checked, proved |
| 7 | `BrowserCapsule`, `AndroidActivity`, `IosScene`, `VitureSessions`, `DesktopCapsules`, `MemoryMount`, `MediaPorts`, `SeededModel`, `ScriptedProcess`, `CapsuleBoot`, `PlatformRecords` | each with its environment, all in `PlatformHosts` | none | checked, proved |

The proofs of modules 1 to 6 are in a module of their own each
(`ProcessRunProofs`, ..., `LocalCheckProofs`).  Those of the parts of
`PlatformHosts` that face another side are in `CapsuleProofs`, those of the
others and of the composition in `PlatformHostsProofs`.

What is left to state and prove: an abstract specification of a session's
transactions that `SqliteSession` implements (one commit, one instant), and one
of `LocalCheck` as a journal that never takes back an outcome.

## 3. ProcessRun: one native process

**Sources.** `sim-platform-ubuntu-pc/src/process.rs`, and the launch of
`sandbox.rs` that shares `run_child`.

**State.** The child's tree (`proc`, `group`, `escaped`, `killed`), the kernel's
view of the pid (`reaped`, `foreign`), the two pipes as byte counts (`written`,
`pipe`, `chunk`, `kept`, `dropped`, `holds`), the three threads (`reader`,
`writer`), the shared `Budget` (`left`, `truncated`), the caller (`cancelled`,
`expired`) and the position of `run_child` (`pc`) with its locals.  Bytes are
counted, not spelled out: the properties only ask how many there are and where.

**Actions.** The program may fork, write, close, leave the child's process group
by setsid or setpgid (`LeaveGroup`: the child itself can, since it is in the
capsule's session), move back to it (`JoinGroup`) and exit at any time (`Tree`);
the kernel kills what has SIGKILL pending and may give a
freed pid to somebody else (`World`); the pipe threads read, charge the budget
and report (`Threads`); `run_child`, `completed` and `terminate_tree` are the
actions of `Runner`, one per observable host call: `Poll` (try_wait), then the
drained channel and the token (`ReadToken`, `ThreadsDone`, `ThreadFailed`),
`ReadClock`, `Sweep` (group_exists after completion), and `Term`, `Grace`,
`Kill`, `Wait`, `Vanish` of the cleanup.  Host calls named in `HostFaults` may
fail.  Once the loop is left, nobody looks at the pipes again, and the model
lets them rest (`Listening`).

**Left out.** What happens before the spawn (refusals that change nothing), the
text of receipts, pids that wrap around within one scan of /proc, that a process
which used setsid cannot move back, and poisoned mutexes (the threads do not
panic).

**Owned.** A group is all that `terminate_tree` signals and all that
`group_exists` looks at, so a process that leaves the child's group by setsid or
by setpgid, and whoever descends from it afterwards, is beyond the capsule: it
may live on behind any receipt, `Completed` included, and the sentence of
`BROCHURE.md:24` that a run is not completed while descendants remain does not
hold of it.  `escaped` remembers who left, even when it comes back.  What a
claim answers for (`Owned`) is the child, wherever it has moved, since its exit
is waited for, and the descendants that never left.

**Runs.**
* `process_safety` (one forkable descendant, one byte of budget and up to two
  bytes written in all, every host fault, pid reuse).  One descendant is enough for
  each of the roles that matter: holding a pipe, staying in the group, leaving
  it, coming back.  With two bytes against one of budget a stream can fit, overflow
  in one chunk or in two, or compete with the other stream for the budget.
* `process_liveness` (fairness below; failing stdin).  A deadline or a token
  ends every run whose child is in its group, whatever the descendants do, and a
  tree that is gone is noticed.  A child that moved to another group of the
  session is reached by no signal and `child.wait()` has no timeout, so nothing
  is promised for it.
* `sandbox_deadline` and `process_pid_reuse` show the findings of section 10.

**Fairness.** Weak fairness of the runner's own steps, of the pipe threads when
they have something to read and of the kernel's delivery of SIGKILL: these are
threads and a kernel that keep running.  The stdin thread is only fair once
nobody is left to read, when its write fails at once.  Nothing is assumed of the
program, the caller or the clock.

**Proved** (`ProcessRunProofs`), for any number of descendants, any budget and
any output: type correctness; that both captures and what is left add up to
`max_output_bytes` and `truncated` is exact; that a Completed receipt holds the
whole output; that a token set before the deciding iteration is never reported
as a timeout; and, for a child that leads its group (`GroupLeader`), that no
claim leaves the child or a descendant that never left its group alive and that
every run implements `ProcessContract`.  The inductive invariant `IInv` adds to these what makes them
inductive: where each byte is (`Bytes`: written = in the pipe + read + kept +
dropped), that whoever is alive and never left is a member of the group
(`Membership`), and what the runner knows at each `pc` (`Progress`), for instance
that results in the channel imply closed pipes and that a claim comes after the
child's death.  Liveness is model-checked only.

## 4. HostDir: one directory on Ubuntu

**Sources.** `sim-table-fs/src/adapters.rs`, `UbuntuHostDirPort`.

**State.** What the running system sees of each leaf (`disk`) and what a power
cut may leave of it (`media`), the numbered temporaries of each process
(`temps`), the lock file of each leaf (`lock`), and per client the position,
request, temporary number, observation and answer.  `over`, `told` and
`disturbed` are history.

**Actions.** `Lock`, `Read`, `Return` of compare_exchange; `Create` (with the
search for a free number), `WriteFails`, `CancelSeen`, `Rename`, `RenameFails`,
`SyncDir` of replace; `Unlink` of remove_file; `IoFails` for any other failing
call; `Crash` of a process, which releases its locks and leaves its files, and
`PowerCut`.  A restarted process comes back under the same pid, as the first
process of a container does; this is what makes leaked temporaries matter.

**Left out.** list, metadata, create_dir, remove_dir_all, child, path
confinement.  The in-memory port is `MemoryMount`, section 9.
Reads are one step, since rename replaces the file and never its bytes.

**Runs.**
* `host_dir_exchange`: two threads, two leaves, one value against absence, two
  temporaries, failing calls.  Two threads are what a race needs; two leaves
  show that locks and synchronization do not mix them up; with two temporaries
  one leak and one other thread exhaust the namespace.
* `host_dir_mixed`: an exchange against a replace, section 10.

**Proved** (`HostDirProofs`), for any number of clients, processes, leaves and
values.  For every mix of calls: types (among them that no power cut leaves a
torn file), that temporaries are accounted for, and that locks are held by
running exchanges only.  For clients that only exchange (`OnlyExchanges`): an
acknowledged exchange survives a power cut, an exchange replaces what it
observed, and the directory implements `AtomicLeaves`.  The inductive invariant
`CasInv` says per client what it may rely on at its `pc`: from the read to the
answer it holds its leaf's lock and the leaf is what it saw, or what it wrote.

Two results about refusals hold of every mix of calls again, from `RefusalInv`.
`RefusalChangesNothing` needs that a call has not renamed before `rename` and
that an answer is given at the end only.  `ExhaustionNeedsLeaks` is a counting
argument, with finitely many clients (`HostDirAssumption`).  A thread steps over
a temporary only while somebody has it, but that owner may be gone a moment
later, so no thread can say whom it met.  What is inductive is `Crowding`: when
threads of a process have come as far as number j, at least as many of its
threads are below j as there are numbers below j that no orphan holds.
The proof takes it from j to j + 1: a number is passed over only because of an
orphan or of a thread that holds it, and that thread comes no farther than it.

## 5. CompanionLink: the halo and amazfit proxies

**Sources.** `sim-platform-halo/src/halo.rs`, `sim-platform-amazfit/src/lib.rs`.

**State.** The fields of the two capsules under their own names; `device` says
which capsule runs, since all but the reception of a frame is the same code in
both.  A payload is the sequence of fragments it was put together from, so that
a mixture of messages is visible.  `delivered`, `reused`, `repeated`, `run` and
`crowded` are history.

**Actions.** `Lifecycle`, `SetConsent`, `Connect`, `HostDisconnects`,
`NextInput`, `ReceiveFragment` (halo) and `ReceiveFrame` (amazfit).  The link is
the most general one: any fragment of any message may arrive at any time, any
number of times.  What a peer must do is assumed by name
(`CompanionAssumption`): messages of one session have different sequence
numbers, and fragments have headers `decode_fragment` accepts.

**Left out.** Byte decoding (a refused frame changes nothing), and the encoders
of outgoing commands, which only read the state.

**Run.** `companion_link`: two sessions that share a sequence number, messages
of one, two and three fragments, one too long and one malformed, a queue of
two.  Three fragments are the least for which the order inside a message
matters beyond first and last.

**Proved** (`CompanionLinkProofs`), for any messages, sessions and limits: type
correctness with both limits, `InputsOfThisConnection`, `AcceptedOnce`,
`InOrderAccepted`, and that every behaviour implements `ProxyMailbox`.  The
inductive invariant says that what is collected is the beginning of one message
(so a complete one is whole), that nothing waits and nothing was seen without a
connection, and that, unless a session number came back, every message accepted
in the open session is in `seen`.  `InOrderAccepted` takes one more invariant,
`InOrder`: while the fragments of a good message arrive in order, the assembly
holds those that came, with the running total of their lengths.  A good message
is one that has such totals and ends at the one it declares (`Totals`); they are
stated, not computed, so no induction over data is needed.

## 6. FsTable: one key of a filesystem table

**Sources.** `sim-table-fs/src/fs_dir.rs`, `fs_dir/leaf_io.rs`, `dir_edit.rs`
and `roadmap11.rs` (extensions and encoders).

**State.** What the directory holds for one key: a leaf per known extension
(`leaf`) and whether the key is a subdirectory (`directory`).  Per client the
call it is in, where it is in that call, which extensions it has asked for, and
what it found (`call`, `job`), its last answer (`reply`), and, as history, what
the key held since the call began (`seen`) and which exchanges were overtaken by a
write without the lock (`crossed`).  `home` is a bound, see below.

**Actions.** A call of the table is a sequence of port calls, and each is one
action: `List`, `AskBase` and `AskLeaf` (metadata, one for each known
extension), `ReadLeaf`, `RemoveRival`, `WriteLeaf`, `RemoveLeaf`, `Compare`
and `Commit`, `MakeDir`, `RemoveDir`.  Between them the call decides (`FindLeaf`, `FindAgain`,
`FindRivals`, `EncodeValue`, `SwapRefused`).  Any of them may be the last one
(`PortFails`), and a write may report an error after it took effect
(`Effective`).  An exchange is two steps, as on Ubuntu: `Compare` locks the leaf,
reads it and compares, `Commit` replaces or removes it.  The lock (`LeafFree`)
keeps other exchanges of the leaf out and nobody else: replace and remove_file
do not take it (`adapters.rs:378`, `459`), so a set, an edit or a removal may come
in between and is then overwritten unseen, as `HostDir` shows too.  The in-memory
port holds its mutex over a whole call; its runs are those where nothing comes
between the two steps.  A content is a pair of a value and the form it was encoded in: an encoder picks
the form, a decoder reads its own only.

**Left out.** opendir, is_dir, keys, entries and find, which change nothing;
capabilities, which are checked before anything else; keys that interfere by
their names; what encoders do to a value.

**Runs.**
* `fs_table`: two clients, leaves `.siml` and `.mid`, two strings and two MIDI
  values, every call of the table, 0.3 million states.  Two clients are what a
  race between lookup and write needs; `.mid` is an extension with an encoder of
  its own, and two values of each sort tell a stale answer from a true one.
* `fs_table_codec`: one client and a `.simb` leaf, section 10.

*Bound `home`.* All values written under the key infer one extension.  Without
it `OneLeaf` is false, as the code stands: two clients that store a string and a
MIDI value under an absent key leave two leaves, and the next lookup answers
that the key is ambiguous.  Nothing in the repository says otherwise, so this
is a bound and not a finding.

There is no fairness and no liveness: a call is a fixed number of port calls.

**Proved** (`FsTableProofs`), for any clients, known extensions and values: type
correctness, and, for a key no other program left a leaf for (`NothingFound`),
every property of `fs_table`.  The inductive invariant `IInv` has three parts
beside types and routes (which call gets to which place, with what found):
`HomeStore`, only the home leaf exists and it is in its own form; `HomeCalls`,
a call finds and chooses the home leaf only; `Past`, what a call found, or
missed (`Missed`), was or was not there during the call.  Exchanges take one
more, `Compared`: between its two steps an exchange met the expected value, no
other exchange works on its leaf, and the value is still there unless the
exchange was overtaken without the lock.  `Past` is what the
properties about answers need: a `missing` answer is given long after the
metadata call that missed the leaf.

## 7. SqliteSession: sessions on one database file

**Sources.** `sim-platform-sqlite/src/driver.rs`, `driver/introspection.rs`.

**State.** `db` is what any connection finds after a crash: catalog, rows and
attestation.  `conn` is what SQLite keeps of a connection: which transaction is
open, its lock, its own version of the content and the savepoints.  `call` is
the stack of bodies a session is in and the place in the driver.  `promised`,
`denied` and `stuck` are history: rows an answer said are stored, or are not, and
sessions whose COMMIT found the file busy.

**Actions.** `MutateAlone` and `MutateWithin`, `StartQuery`/`EndQuery` (which
hold the shared lock), `BeginTransaction` with its three ends, `Savepoint` with
its three, `Migrate`, one `MigrateStatement` per statement, `WriteAttestation`
and the ends of a migration, `Verify`, one `Introspect` per object of the
catalog, `ReadAttestation`, `Adopt`, `AdoptCommits`; `Interrupt`, which rolls
back the transaction a write is part of, and `Reconnect`, a dropped connection.
A body is a caller's code: it may go on after an error, or answer success after
one.

**External.** SQLite's side is modelled from the way the driver uses it: a
rollback journal (the driver sets no other), at most one reserved lock, COMMIT
only when nobody reads.

**Left out.** attach, encoding of values, `transaction` called within its own
body, statements that fail without effect, changes of the schema by other
programs, read-only sessions, queries inside bodies, the statement cache.

**Run.** `sqlite_session`: two sessions, two programs of which one has two
statements, two rows, bodies three deep, 0.6 million states.  A savepoint begins
only while the two sessions together are in fewer bodies than that.  Two rows
tell what was inside a savepoint from what was outside.  Three deep is a
savepoint within a savepoint, the least at which it matters to which of them a
rollback goes: the fault `FirstSaved` shows there and not in bodies two deep.
The run shows that whoever migrates or adopts, the attestation is of the file's
own catalog; and it shows the exceptions: a COMMIT that finds the file busy
leaves its transaction open (`OnlyBusyLeavesOpen` names it as the only way), and
a body that goes on after its transaction was interrupted writes outside of any.

**Proved** (`SqliteSessionProofs`), for any sessions, programs with any
statements, number of rows and depth of bodies (`SqliteAssumption` only says that
the placeholders are no programs and no attestations): all five properties.
The invariant rests on the one reserved lock.  While a session has it the file
is as it was when the session took it, so what is said of the work and of every
savepoint of that session can be said relative to the file: it has at least the
file's rows and none that was denied, and its catalog is the file's, together
with those statements of the program that have run.  The rest says which body,
which lock and which open transaction go together (`Paired`): a transaction is
open below every body that was not interrupted.  Stating it showed what a
savepoint taken before the session had the lock comes back to: the file as it is
when the session gets the lock, with what others committed meanwhile
(`Restored`).

## 8. LocalCheck: operations on an installed command

**Sources.** `sim-platform-ubuntu-pc/src/local_check.rs`,
`local_check/evidence.rs`, and `command` and `report` of `sandbox.rs`.

**State.** `journal` is what is durable of an operation (number of its dispatch,
receipt, outcome); `adapter` and `executions` are lost by a crash; `running` are
the dispatches whose program is at work; `file` and `scratch` are what programs
leave.  `ran` and `unaccounted` are history.

**Actions.** `Run` takes up an operation, `ObserveOutputs` and then `Conclude`,
`Dispatch` or `Uncertain` are the observer and the lifecycle's decision;
`PerformInvalid`, `Spawn`, `SpawnRefused`, the three ends of a run,
`CleanScratch`, `InsertRecord` and `PersistReceipt` are the performer; `Work`,
`ProgramEnds`, `Edit` and `Crash` are the world.  How a run may end is what
`ProcessContract` promises.  The journal and its lifecycle are not in this
repository and are modelled from how the adapter is called by them.

**Left out.** The gate's leases, digests of evidence, refusals of the
construction, several output files, environment changes between operations.

**Run.** `local_check`: two operations and two dispatches on each of seven
commands, which cover both routes, both replay classes, expectations of each
sort and a command that yields no arguments; outputs may be absent, partial,
right or outside of their root.  Two dispatches are a first attempt and its
repetition, or the attempts of two operations that share the output.  It shows
that what is verified by an adapter that remembers the dispatch completed in the
sandbox within its limits, and that no outcome is given while a program that
is accounted for still works on the outputs.  It also shows what a crash takes: an
operation may then be found true by its output files alone.

**Proved** (`LocalCheckProofs`), for any commands, operations, and number of
dispatches: all three properties.  `CheckInv` says that no two operations have a
dispatch in common and no number is used again (`OwnDispatches`, `RecordsUsed`),
that a record claims no more than the run of its dispatch gave, in the table and
in the hand of the performer before it is inserted (`RecordsTrue`, `InHand`),
and that outside of the call that waits for it only programs nobody vouched for
are at work (`AtWork`).  Assumed is only that `None` is no operation, outcome or
end of a run (`CheckAssumption`).

## 9. PlatformHosts: eleven hosts

One module for each host, and one composition that picks a host at first
(`host`) and lets it run.  They do not interact; what they share is what the
properties of the composition say of each of them.  A property of the
composition is the conjunction of named parts, each stated and explained in the
module of its host.

| Module | Sources | State and actions | The other side |
|---|---|---|---|
| `BrowserCapsule` | `browser.rs` | `tab` (card, running, next, pending, known); host call, completion, halt, wake | a page that performs calls in any order, gives closed numbers again, and goes on after a suspension; answers that are too long |
| `AndroidActivity` | `android.rs`, `audio.rs`, `speech.rs`, `ffi.rs`, `SimActivity.kt` | handlers as operators on the capsule `droid`; an action is a callback with all the calls it makes | the activity's callbacks in any order, its audio focus, the death of the process |
| `IosScene` | `ios.rs`, `ffi.rs`, `SimCapsule.swift`, `SceneDelegate.swift` | the same for `capsule` | the scene and the security scopes it holds |
| `VitureSessions` | `physical.rs`, `carina.rs`, `legacy.rs` | sessions of two routes, started or not; providers, initialized or not | calls of the SDK that fail and then have no effect, `initialize` and `start` one by one; one IMU switch for all legacy sessions |
| `DesktopCapsules` | `macos.rs`, `windows.rs`, `linux.rs` | `desk`, every public call in every state | native services and the portal, counted cleanups |
| `MemoryMount` | `adapters.rs`, `MemoryHostDirPort` | `tree`, a map of full paths; each call one step under the mutex | none |
| `MediaPorts` | midi `lib.rs`, audio `lib.rs` | connections with the events they still have, a stream, the hotplug queue | devices that are lost and bound again |
| `SeededModel` | `model.rs` | clock, bytes drawn, script, injected fault; `Apply` | none |
| `ScriptedProcess` | model `process.rs` | requests logged and outcomes taken under two mutexes; streams cut in bytes and converted to text | threads that run at once, tokens |
| `CapsuleBoot` | `bootstrap.rs`, core `validation.rs` | one action per read, check and load | programs that replace the files between any two |
| `PlatformRecords` | core `records.rs` | card, request, artifact, attestations grow, composed bundles are kept; the resolver and the support matrix as operators | providers and builds |

**Epochs.** The capsules of the first three keep no number of the suspension
they are in; the models label what is given with it, so that "given before the
suspension" can be said.  The labels decide nothing.

**Properties.** `SuspensionIsRespected` says two things.  What page, activity and
scene hold was given since their last suspension.  A desktop capsule discards
nothing (`windows.rs:133`): while it is suspended its surface and process tree
stay as the suspension found them, and across suspensions neither the budget of
requests nor a token that was cancelled or revoked is given back.
`ResourcesFollowSessions`: what is held on the other side (audio focus, document
scopes, the glasses, the native side of a desktop) is held for a session that
is there, and the portal knows as cancelled what the Linux capsule refuses.
`NothingIsLost`: handles, files and events have somebody who can find them.
`OnlyVerifiedLoads`: what is loaded is what was verified.  `RecordsAreSound`: a
requirement is bound to the first service of the caller's order that a standing
offer can serve; the support matrix of bundles that were composed earlier still
cites evidence of their artifact and card; replies of the seeded platform replay;
a scripted run is answered in the order of the script, is told of truncation
exactly when a text is not the script's, and gets no more than its budget, but for
the replacement of one character that was cut, two bytes at most
(`from_utf8_lossy` after `cap`, `process.rs:113`).

The exceptions the code has are history variables of the models, so that the
properties say that there are no others: a handle lost by a suspension, a full
table, an answer that is too long, or an overtaken close (`bLost`); a focus kept
after memory pressure, a lost route, a denied or refused arm, an expired session
or a death (`aOrphan`); a scope opened while the capsule was suspended (`iStray`);
IMU reports left on by a drop (`vLeft`) or switched off by another session
(`vMuted`); tokens that were revoked, of which the portal is never told
(`dHistory.revoked`); an artifact replaced after it was read for its digest, which
is loaded unverified (`uLate`); entries below a path that is no directory
(`mAstray`).

**Assumed.** The page of the repository (`sim-browser-shell.mjs`) performs neither
storage nor web sockets; a page that does is modelled from how the capsule is
called, and opens under free numbers only.  The system may deliver the
activity's callbacks in any order.  A call of the SDK, of native services or of
the portal that fails has no effect, a stop of the SDK undoes a start and leaves
the provider initialized until its handle is destroyed, and a cleanup leaves
nothing.  A digest determines its content.  On Linux a portal is present.  Streams
of a script are text in UTF-8.

**Left out.** Content references, frames and buffers of the C ABI; audio and
lifecycle calls through Android's native ABI other than the activity's;
permissions and turns of Android, which nothing else reads; the number of accesses
to one scope on iOS; poll, rates and the 3D display of the glasses; Cards, manifests
and Windows paths; Linux' socket transport; a write of the memory mount's own
root; mounts and limits of the seeded platform, which are constants; content
closures of a bundle.

**Run.** `platform_hosts`, 0.73 million states for all eleven hosts.  The bounds
of `PlatformHosts.cfg` by host: three handles of which two may be known, four
calls, one suspension (browser); a supported and an unsupported API level, three
epochs of an instance, two route observations (Android); two documents, two
suspensions (iOS); two sessions of each route; two tokens, three requests, three
bytes of entropy (desktop); a directory in a directory in a directory beside
another one, quota of three bytes for files of one and two (mount, where a
removal that forgot the grandchildren would show); two connections on a device
that is lost between two messages and bound anew, two reconnections (media);
scripts of up to two steps in either order, three requests (seeded); two
outcomes, two runs of two threads, streams of up to two bytes, which may be one
character, and budgets that cut it (scripted); two artifacts and two replacements
during a bootstrap; four records in all, of three services, with up to two
substitutes in each order (build: two requirements with one offer, or one with
two, or an attestation and an offer that came later).
Deadlock is not checked: a host that has used up its bounds, or has ended,
stops.  No fairness is assumed and no liveness is stated: every call of these
capsules returns by itself.

**Proved** (`CapsuleProofs`, `PlatformHostsProofs`), for every value of the bounds
and every set of handles, resources, documents, sessions, tokens, paths, events,
scripts and services, and any number of substitutes: types and the five properties.  `HostsKeepToTheirParts`
says that the composition is a behaviour of each part's specification, as a host
that is not the device stands still; every part is then proved by itself, with
an invariant of its own.  What these add to types and property:
* browser (`BrowserInv`): no two calls have the same number (`Numbered`), and a
  pending call that is still in the page is the same operation there, of this
  epoch (`Matched`), so that an answer from before a suspension matches none;
* Android (`Labels`): a label is never of a later epoch, and every epoch between
  the one in which the background was allowed and this one ended in a death;
* iOS (`SceneOK`): a suspended capsule holds nothing and an active one what was
  given in this epoch; strays are open scopes;
* desktops (`DeskKnows`): the capsule refuses every token that was ever cancelled or
  revoked, its counter is the number of requests it ever admitted, and a Linux
  capsule has only three of the states;
* glasses and mount: nothing; both properties are inductive with the types.
  Bytes of the mount are counted one by one, as a set (`Used`);
* media (`MediaInv`): an open connection's losses are counted by its reconnections.
  What it was given is described by positions in its events (`InOrder`), and no
  longer computed;
* seeded capsule (`SimInv`): the steps that are left are an end of the script, and
  those that are gone were due.  Time and entropy are the number of the units
  that were asked for (`Units`);
* scripted process (`ScriptInv`): a request is run by one thread or answered by one
  outcome, and the outcomes left follow those that answered.  A stream ends with a
  character, so that its text is whole if and only if nothing was cut, and at most
  one of the two streams is cut within a character (`TextOfStream`);
* bootstrap (`BootInv`): what each step has established of what was read
  (`Established`), that it is still in the file unless that was replaced later, and
  that only a replaced file is longer than it was measured;
* records (`BundlesCite`): the attestation a bundle cites still holds the artifact
  and the card of the bundle, however the card and the artifact moved on.  The
  resolver needs no invariant: it picks by position, and the proof is that the first
  usable place is what `ResolutionIsSound` asks for.

The named assumptions are as weak as the bounds: numbers of epochs, scenes, builds
and ticks are positive, a session is of one of the two routes, `NoHandle` is no
handle, "none" no service, and the paths of the mount are finitely many and
closed under parents.  Scripts of the seeded capsule have up to two steps in the
model itself, and so in the theorem.

## 10. Findings

* `sandbox_deadline`: a sandboxed child is spawned without a process group of
  its own (`sandbox.rs:172`), so the group signals of `terminate_tree` reach
  nobody and `child.wait()` blocks until the program ends by itself.
* `process_pid_reuse`: a child that exits is reaped by `try_wait` while the pipe
  threads have still to report; from then on its pid is free.  When the token
  (or the deadline) comes in that gap, `terminate_tree` signals the number, which
  may be somebody else's group by then (`process.rs:307`).
* `host_dir_mixed`: `replace` and `remove_file` take no lock, so an exchange can
  overwrite a replace it never saw and still report an exchange
  (`adapters.rs:378`, `459`).
* `fs_table_codec`: a table reads `.simb`, `.simb64`, `.simj` and `.sima` leaves
  with codecs of their own, and writes them with `codec/lisp`
  (`fs_dir/leaf_io.rs:113`): a set or an edit of such a key leaves something the
  table does not read back.

One more thing was met and has no run, since no doc speaks of it: an exchange
from absent, and mkdir, do not look at all the names that set looks at, so a key
can become a directory and a leaf at once (`fs_dir.rs:208`, among the hazards).

## 11. What is not shown

Liveness (`StopIsEnforced`, `GoneTreeReturns`) is checked by TLC for
`process_liveness` only: the prover has no rule for fairness.  Everything else
the passing runs check is proved too.  No proof needs induction over data, and
no module a proof uses has a RECURSIVE operator; what would be sums and searches
is stated by sets and positions.  The four runs that expect a violation refute a
sentence of the documentation and have nothing to prove.  Real durations, byte
contents, formats and the confinement of paths are not modelled.

Not modelled, since nothing of them changes a state that a property could be
about: sim-lib-platform (each function checks its arguments and hands them to
the resolver of `PlatformRecords`), the compute, loader and registration parts
of ubuntu-pc, ubuntu-rpi and wasi (checks of a profile), construction, the web
shell and xtask (I/O and packaging).  `PROJECT.json` gives the reason for every
part a modelled component leaves out.
