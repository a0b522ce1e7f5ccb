# Verification of crosspaste-server

TLA+ modules for the relay and hub of CrossPaste: what they model, what TLC
checks on small instances, and what TLAPS proves for instances of any size.

Run a model with `tlc -config <cfg> <module>` and check proofs with
`tlapm <module>` for each module whose name ends in `Proofs`, all in this
directory.  `PROJECT.json` lists the runs, the mutants that show that each
property can fail, the lines every definition translates, the findings, the
hazards and the theorems.

## 1. The system

`crosspaste-server` is one process: an axum router on a multi-threaded tokio
runtime, a SQLite database behind one mutex, and a set of concurrent maps
(DashMap).  Every request is a task.  A map operation is atomic, and so is a
database statement; a handler made of several of them is not, and an `.await`
in it is a point where minutes may pass or the task may be dropped.

| Component | State | Operations | Talks to |
|---|---|---|---|
| Hub: pairing (`hub.rs`, `routes.rs`, `database.rs`) | one v1 token, pending v2 exchanges, the maps `clients`, `client_crypt_keys`, `client_sync_infos`; table `paired_clients` | show a code, exchange keys, trust (v1), confirm (v2), remove, heartbeat, load at start | every route asks `is_paired`; the broadcast reads keys and SyncInfos |
| Hub: distribution | the list of targets of each broadcast, its report; table `paste_records`, map `pastes` | receive a paste, pull its file and icon from its source, send it to every target, drop it with its request | reads the maps of pairing; HTTP to other clients, without time limits |
| Hub: file transfer | `push_sessions`, `stored_files`, transfer directory, table `file_chunks` | prepare, store chunk, complete, pull from the source, read a chunk | ends in a distribution |
| Registry and tunnel (`registry.rs`, `tunnel.rs`, `proxy.rs`) | sessions of devices, the requests pending in each; per socket: reader, writer, channel | Hello, ping, answer, close; proxy a request; evict stale sessions | the proxy waits for a frame another socket delivers |
| Admin console (`admin.rs`) | account row, sessions | log in and out, change password, MFA, settings, remove a client | removes clients in the hub |
| Rooms (`registry.rs`) | a map of rooms with members and an end | create, join, leave, look up, collect | read the sessions of devices |
| Start (`main.rs`, `database.rs`, `hub.rs`) | all tables, `hub-state.json` | create tables and default rows, import the old state, load or create keys, load clients | everything else begins with what it leaves |
| Settings and request log (`database.rs`, `admin.rs`, `routes.rs`) | tables `settings`, `request_logs` | update, decide on a paste, log a request, prune | `sync_paste` asks before it does anything |
| Streams, QR payload, mDNS record (`hub.rs`, `secure.rs`, `sync_info.rs`) | none | encode, decode | what other programs have to read |
| Icon cache, read-only views, discovery, configuration, errors | files; none | | |

What is hard about it:

* Facts about one client are spread over three maps and two columns, updated
  one after the other by handlers that interleave, and rebuilt from the table
  after a crash.
* Checks and uses are separate operations: session id and removal, limit and
  insertion, pending exchange and its removal, password and session.
* Results arrive late: an answer after its timer, a chunk after the
  completion, a heartbeat after the removal, a broadcast that works from a copy
  of the targets.
* Tasks die with their request when the caller goes away, at any `.await`.
* Several files, rows and messages make one logical write, and each may fail.
* A start is a sequence of commits that may end after any of them, and the next
  start decides by what it finds.

## 2. Modules

| Module | Models | Extends / refines |
|---|---|---|
| `Pairing` | pairing in hub, routes, admin and database | |
| `PairingProofs` | theorems about `Pairing` | extends `Pairing` |
| `Distribution` | pastes and files on their way to the targets | extends (composes with) `Pairing` |
| `DistributionProofs` | theorems about `Distribution` | extends `Distribution`, `PairingProofs` |
| `Transfer` | pushed and pulled files | |
| `TransferProofs` | theorems about `Transfer` | extends `Transfer` |
| `RequestReply` | what a caller of the proxy may rely on; abstract | |
| `Tunnel` | registry, sockets, proxied requests | implements `RequestReply` |
| `TunnelProofs` | theorems about `Tunnel`, the safety part of the refinement among them | extends `Tunnel` |
| `AdminAuth` | the administrator's account | |
| `AdminAuthProofs` | theorems about `AdminAuth` | extends `AdminAuth` |
| `Rooms` | rooms of the registry | |
| `RoomsProofs` | theorems about `Rooms` | extends `Rooms` |
| `Settings` | settings, what they let in, request log | |
| `Startup` | what is kept from one start to the next | extends (composes with) `Settings` |
| `StartupProofs` | theorems about `Startup` and `Settings` | extends `Startup` |
| `Codec` | byte formats a peer has to read | |
| `CodecProofs` | theorems about `Codec`, and about cutting and joining sequences | extends `Codec` |
| `MCPairing`, `MCDistribution`, `MCTransfer`, `MCTunnel`, `MCAdminAuth`, `MCRooms`, `MCStartup`, `MCCodec` | symmetry, constraints, restricted specifications for TLC | extend the above |

Definitions keep the names of the code where they stand for a whole function
(`save_client`, `exchange_keys_v2`, `receive_paste`); a step inside a function
has a name of its own (`InsertKey`).  An operator whose comment begins with
"Mutant of" is not part of any specification: it is the definition after it
with a plausible mistake.

### Pairing

A handler `h` is a process: `pc[h]` names its next map operation or statement,
`who`, `key` and `info` are its locals.  `TrustCheck` and `ConfirmCheck` are the
checks of `trust_v1` and `confirm_trust_v2` up to the release of the lock or
guard; then `TakePending` (v2 only), `InsertKey`, `InsertClient`, `save_client`
follow one by one.  `RemoveClient`, `DropKey`, `DropInfo`, `DeleteRow` are
`Hub::remove_client`, and `Heartbeat`, `HeartbeatSave`, `HeartbeatCache` the
heartbeat.  `DatabaseError` ends a handler at its statement.  `Crash` empties
memory and kills handlers, `load_or_create` rebuilds the maps.

Abstractions.  A signing key and its crypt key are one identity `Key`;
signatures and encryption are equality of identities (`secure.rs`, library
calls).  The SAS, `paired_at_ms`, `last_seen_ms` and the client a token was
shown for are left out: no decision of the code depends on them.  The clock
does not go backwards.  A heartbeat asks twice whether its client is paired;
the model asks once, at the second place.

History variables: `ack` and `ack_key` are the last answer given about a
client, `contended` says that a pairing or removal started while another one of
the same client was under way, `approved` collects the keys that passed a check.

### Distribution

Extends `Pairing` with tasks.  `sync_paste` and `sync_push_complete` start one.
A pulled file is fetched from its source: `FindSource`, then per chunk
`AskForChunk`, which looks the key of the source up anew, and `ChunkArrives` or
`SourceRefuses`; `PullEnds` or `PullFails` is the outcome.  Then the icon, which
is skipped (`SkipIcon`) or asked for (`FetchIcon`, `IconAnswered`; a failure is
ignored), the second check of the sender (`CheckSender`), and the row
(`receive_paste`), written later under the lock of the database: a removal may
fall between the two.  `Snapshot` takes the targets, and per target there is
`SkipTarget` or `SendToTarget`, `SendNext` (a pushed file takes several messages)
and `TargetAnswers`.  In the stages `pulling`, `fetching` and `await` the task
waits for the client `current`, the source or a target: the code sets no time
limit, so nothing but the answer, a broken connection, `SenderGone` or a crash
ends the wait.  `SenderGone` drops a task that runs inside the request of its
sender.  A step of `Pairing` leaves tasks alone; a crash ends them.  The iteration over
`client_sync_infos` is one step: DashMap iterates shard by shard, so the real
copy may mix two moments, which the properties do not see because every key is
looked up again at each message.

### Transfer

`prepare_push`, then per chunk `StoreCheck`, `Truncate`, `WriteChunk`,
`save_file_chunk`, `MarkReceived`.  `store_push_chunk` holds a read guard of the
map's shard all the while: `Guarded` keeps insertions and removals of that entry
waiting.  `CompleteCheck` ends where the code drops its guard; `RemoveSession`
and the broadcast follow.  `PullStart` to `Announce` are the spawned task of a
pulled file.  The content of a chunk is the file it belongs to, or `Torn` while
it is being overwritten.  Two files may begin in the same millisecond, and a
retried chunk may be cut off and not filled: the properties say for which files
(`Shared`, `damaged`) they then promise nothing.

### Tunnel and RequestReply

A socket handler is a process; `Hello` and `RegisterInsert` are the two map
operations of `register_device`, `UnregisterCheck`, `UnregisterRemove` and
`UnregisterDrain` those of `unregister_device`, which the collector `Gc` runs as
well.  A request keeps the session it got from `get_device` whatever happens to
the map.  `Timeout` and the answer race; a reply already in the channel wins,
as in `tokio::time::timeout`.  `CallerGone` is the runtime dropping the handler.
The requests of a drained session are answered in one step: each removal is
atomic, and nothing else looks at two of them.  A session is stale or not; how
long that takes is left open, and so are the lengths of timers.  A response that
carries the device's `error` field counts as a response.  Rooms are not part of
it: `room_code` is `None` in every session.  A device answers only requests it
was sent, request ids being random.

`RequestReply` says what the caller sees: a call ends, once, with a response
only if the target answered this call.  `Tunnel` implements it under the
mapping `Call`.

`exposed` remembers a session entered while an older one of its device was being
removed, `crowded` a session whose limit was passed by requests together: the
exceptions of `RegisteredWhileOpen` and `InflightBound`.

### AdminAuth

One account; each statement is a step.  `login` and `create_session`,
`ChangeStart`, `VerifyPassword`, `update_password`, `delete_user_sessions`, and
the three MFA operations.  `SettingsStart`/`update_settings` stand for every
operation behind `require_ready_user`.  Hashes are equality, a TOTP code is
named by its secret (its 30-second window is left out), the audit log is left
out.  `version` counts changes of the password, `opened`, `late` and `torn`
remember how a session and the last change came about.

### Rooms

`create_room` and `gc_rooms` are one map operation each.  A join collects
(`JoinCollect`), looks the room up again and is refused, admitted, or finds that
the time has run out and drops its guard before it removes (`JoinExpired`,
`RemoveRoom`).  A leave takes the member out, drops its guard and removes a room
it left empty (`LeaveMember`, `RemoveRoom`).  Codes may be drawn again.  `owed`,
`granted` and `term` are what clients were answered; `overtaken` marks a code
given out or joined while another request was about to remove the room.

### Settings and Startup

`boot` is where `main` has come.  Each commit of a start is a step:
`ensure_default_admin`, the rows of `ensure_default_settings` one by one,
`ImportKeys`, `ImportClient`, `RenameLegacy`, `load_or_create_server_keys`,
`load_clients`.  `Crash` is possible after each; it is also what a failing
statement or file operation of the start amounts to, since `main` returns.
Once up, an update of the settings is a transaction (`BeginUpdate`, `WriteRow`,
`CommitUpdate` or `RollBack`) that keeps the connection, `log_request` adds to the
log and prunes it, `LetIn` is a paste that passes `enforce_sync_settings`.  Pairing,
removal and the change of the password are single steps here.  Switches are 0
and 1; the size of a megabyte, the limits and the defaults are constants.  The
row `encrypt_sync` is stored and validated by the code and read by nothing,
although the README lists encryption among the settings; it is left out.

### Codec

Functions without state, as operators named like the functions; `call` holds one
call with its input and what the other end makes of the output.  The cipher is
replaced by a shift of every byte with the padding and IV of the code, which
keeps all lengths and all errors of the padding.  Loops over bytes are recursive
functions.

## 3. Runs

| Run | Instance | Shows |
|---|---|---|
| `pairing` | 1 client, 2 identities, 3 handlers, token lifetime one tick | the invariants of `Pairing` that are proved below, on an instance |
| `distribution` | 2 clients, 2 keys, 2 handlers, 1 paste or file of any kind, 2 messages a file | reports are complete; a removed client is sent nothing more and its waiting paste is not accepted; messages use the key of the last answered pairing |
| `distribution_calm` | 3 paired clients with 2 keys, some without host, one that never answers, pastes of every kind | pastes are recorded before they are sent, to others than the sender and under a key of the target; a distribution ends unless it waits for the client that never answers, as its source or as a target |
| `transfer` | 2 pushed files and a pulled one, 2 chunks, 2 handlers, 3 instants | whole files only are passed on, and completed ones stay readable, but for files that share a millisecond or lost a chunk to a failed retry |
| `tunnel` | 1 device, 2 sockets, 2 sessions, 1 request | `RequestReply` with liveness; no call is forgotten, no slot lost, a connected device stays registered |
| `tunnel_shared` | 2 devices on 1 socket, 2 requests, limit 1 | a second Hello under another id, and a busy session: the limit, and no answer given to the wrong call |
| `admin` | 3 sessions, 2 handlers, 3 passwords, 2 secrets | the account |
| `rooms` | 2 codes, 3 clients, 2 handlers, room for 2 | an answered room and membership stay; expired rooms go |
| `startup` | 2 clients, both in the legacy file, 2 new keys, 7 updates, log of 1 or 2 | decisions, keys, settings, log and import across starts cut off anywhere |
| `codec` | all contents of up to 5 bytes over 3 values, blocks and chunks of 2 | streams, files, codes and records are read as they were written |

Bounds.  Every safety property relates at most two or three actors about one
client, file, session or call, so two or three handlers (an operation, the
one that overlaps it, and in `pairing` a heartbeat beside them) reach all the
interleavings they can tell apart; two identities tell a re-pairing from a
repetition, and two chunks tell a partial file from a whole one.  `MaxTime`
bounds clocks, `MaxSession` the Hellos, `MaxChange` the password changes,
and `FileRequests` the requests that move one file.  One client is enough in
`pairing`: the only state clients share is the v1 token, and the proofs are about
any number of them.

In `distribution` the two keys let a client be paired again with another one
between the list of targets, the first message and the next, so that a stale key
differs from the right one.  Its constraint `OneClientAtATime` lets one client at
a time pair, be removed or send a heartbeat, while the other, which may be the
sender or the target of the task, rests in whatever state its own requests left
it: paired, removed, or half way after a crash.  It does not go on from states
in which two requests that pair or remove the same client overlapped: the
two action properties promise nothing about that client, `pairing` explores what
becomes of it, and the theorems hold with any overlap and without the
constraint.  `View` leaves out `approved` and `paste_records`, which no guard
reads and, of this run's properties, only the type invariant mentions.

In `startup` the limit for files is 1 or 2 megabytes of 2 bytes each, and
the sizes are on it, below it and one byte above; the log is at its limit after
one or two requests.  In `codec` two bytes per block and chunk make empty, exact
and partial last pieces; the bytes 2 and 255 can be taken for padding and
overflow the shift; the tokens are 0, smaller, larger and much larger than the
length.

Deadlock is checked except for `Tunnel`, where sockets and requests are used
once and everything may be over.

Fairness.  `Tunnel!FairSpec` has weak fairness of `Serve(r)`, the steps that the
server takes by itself for a request that has its session: tokio polls every
woken task and fires every timer.  Nothing is assumed of devices, sockets or the
collector.  `Calm` has weak fairness of a task's own steps, and of the answer
(`ClientAnswers`) of a source or target that is not `Hung`: a connection either
answers or breaks.  Nothing is assumed of a hung one, for chunks and icons
(`hub.rs:726`, `803`) as for messages (`hub.rs:554`).
`Rooms!FairSpec` has weak fairness of `gc_rooms`, which a task of its own calls
every 30 seconds.  `Calm` starts with all clients paired, a state that `DistSpec` reaches.

### Runs that show a disagreement

| Run | What happens | Against |
|---|---|---|
| `pairing_restart` | a pairing inside a removal of the same client is answered and then loses its row | README: no new pairing after a restart |
| `legacy_import` | a start ends inside the import, and the next one finds keys and skips the rest | README: the old state is imported at the first start |

The findings in `PROJECT.json` quote the lines.

Weaknesses that a passing property names as its exception, so that everything
else is still checked:

| Weakness | Property | Exception |
|---|---|---|
| requests past the check of the limit together are all entered (`registry.rs:192`) | `InflightBound` | `crowded` |
| the slot of a proxied call whose caller went away stays taken (`registry.rs:199`) | `SlotsAreReleased` | callers that went away |
| a device that reconnects while its old session is removed loses the new one (`registry.rs:143`) | `RegisteredWhileOpen` | `exposed` |
| two files in one millisecond share id and directory (`hub.rs:378`) | `CompleteBeforeBroadcast`, `CompletedIsDurable` | `Shared` |
| a retried chunk that is cut off and cannot be filled is broadcast (`hub.rs:426`) | `CompleteBeforeBroadcast` | `damaged` |
| pulled files are gone after a restart (`hub.rs:736`) | `AnnouncedIsReadable` | files announced before it |
| a target that never answers holds up those after it (`hub.rs:547`), a source that never answers all of them (`hub.rs:726`, `803`) | `DistributionsEnd` | `Hung` |
| a removal between the second check of the sender and its row (`hub.rs:350`, `355`): the paste is saved and sent on | `RemovedGetsNothing` | pastes past that check |
| a change of the password that stops between its two statements (`database.rs:438`) | `OldSessionsEnd` | `torn`, `late` |
| a join between the last leave and the removal of the room (`registry.rs:287`, also `261`) | `AnsweredRoomStays` | `overtaken` |
| a room code drawn twice replaces a room (`registry.rs:245`) | `AnsweredRoomStays` | the promise ends there |
| a stream cut off between two frames looks whole (`hub.rs:826`) | `StreamIsReadBack` | cuts between frames |

## 4. Proofs

Every theorem about a specification has the same shape: an inductive invariant
that holds initially and is kept by every step, and the property as a
consequence of it.  The runs check those properties on the instances of section
3, the theorems state them for all values of the constants, from the assumption
named in the module that declares them.

### Pairing

`PairingProofs` proves for any sets of clients, keys and handlers, any token
lifetime and clock bound, with failing statements or without:

* `TypeCorrect`: `Spec => []TypeOK`;
* `PairingsAreSettled` and `RemovalsAreSettled`: a pairing or removal that was
  answered with success and that nothing overlapped is in force, in memory and on
  disk, until the next one starts, across crashes and restarts
  (`SettledPairing`, `SettledRemoval`; a removal leaves no SyncInfo in the table
  either, whatever heartbeats were under way);
* `KeysAreApproved`: no interleaving stores a key that did not pass the check of
  its client (`KeyProvenance`);
* `MapsAndRowsAgree`: the two maps agree between requests, and a stored SyncInfo
  has a row (`MapsAgree`, `StoredInfoHasRow`).

They rest on `PairingAssumption` only (the "no value" constants are not values,
times are naturals).  None of the properties is inductive: after `InsertKey` the
maps disagree, and what repairs them is a handler that is still under way.
`PairingInv` adds what such a handler knows.  `Alone`: unless the client is
contended, at most one handler changes it.  `AnsweredMeansQuiet`: while an answer
stands nobody does.  `Progress`: what the maps hold for the client at each point
of the way of a handler that is alone.  `CarriedKeysApproved`: the key a handler
carries has passed its check.  `DownIsEmpty`: nothing is left in a process that
is down.  Each conjunct is kept by each action; `LEMMA PairingInvStep` has one
step per action and one below it per conjunct the action can disturb.

### Account

`AdminAuthProofs` proves for any passwords, secrets, sessions and requests, any
lifetime of a session and any bounds, from `AdminAssumption`: `AccountTypeCorrect`,
`DefaultStaysPowerless`, `ChangeEndsSessions` and `NobodyIsLockedOut`, the four
invariants of the run `admin`.  A request writes what it checked some statements
ago, so `AdminInv` adds `RequestsKnow` (a password about to be written is not the
default one, the gate a request passed is still open, the secret it verified is
still a verified one) and `GateHolds`, which states `DefaultIsPowerless` in terms
of the flag `must_change_password` that the code looks at.  `OldSessionsEnd` is
kept by every step as it stands, given the types.

### Distribution

`DistributionProofs`, for any clients, keys, handlers, tasks and pastes, from
`PairingAssumption` and `DistributionAssumption` (there are finitely many clients,
so that a report can be counted): `DistTypesCorrect`, `ReportsStayComplete`
(`NobodyForgotten`), `MessagesGoToRightClients` (`SentToRightClient`), and two
action properties: `RemovedStaysSilent` (`RemovedGetsNothing`) and
`MessagesKeepUp` (`MessagesUseSettledKey`).

A step of `Distribution` is a step of `Pairing` or leaves its variables alone
(`StepsArePairingSteps`), so `PairingInv` holds here without being proved again,
and the two action properties follow from it: a message leaves in three steps
only, each of which looks the key up (`SendersLookUpKeys`), and that key is gone
after a settled removal and is the new one after a settled pairing
(`SettledRemoval`, `SettledPairing`).  A paste is accepted in one step, from a
client that is paired then (`AcceptedSenderIsPaired`).  The steps before the
record are treated together (`Prepare`, `PrepareStep`), and so are those that end
a task (`Stop`).  `DistInv` adds `RecordsInv` (a paste has its record before it has
targets), `TargetsInv` (no task is its own target, and the one that is waited for
was sent a message under a key of its own) and `CountsInv` (the counters start at
zero with the list of targets; with that `NobodyForgotten` is inductive).
`approved` only grows, which is what keeps `TargetsInv` while a client is paired
anew between the message and its answer.

### Transfer

`TransferProofs`, for any files, chunks, handlers and clock, from
`TransferAssumption`: `TransferTypesCorrect`, `BroadcastStaysComplete`
(`CompleteBeforeBroadcast`), `CompletedStaysDurable` (`CompletedIsDurable`) and
`AnnouncedStaysReadable` (`AnnouncedIsReadable`).

What is promised is about files and rows, what the code looks at is the set of
received chunks.  `TransferInv` connects them: `FilesInv` and `RowsInv` say what
has reached the directory and the table by the time a handler is at each step of
storing a chunk, with the retry that is rewriting a file as the one exception;
`SessionInv` says that a session is in the map while one of its chunks is being
stored and gone when its push is broadcast, so that such a retry and the
broadcast exclude each other; `IdsInv` keeps every file under its own id;
`PullInv` follows the task of a pulled file.

### Tunnel

`TunnelProofs`, for any devices, sockets, sessions, requests and limit, from
`TunnelAssumption`: `TunnelTypesCorrect`, `WaitingStaysPending`,
`SlotsStayReleased`, `ClosedStaysUnregistered`, `OpenStaysRegistered`,
`InflightStaysBounded`, one for each invariant of the two runs, and
`TunnelImplementsCalls`: every behaviour of `Tunnel` is, under the mapping `Call`,
a behaviour of `RequestReply` without its fairness (`OneTrueOutcome`).

`RegistryInv` holds what an unregistering handler or collector knows of its
session at each of its three map operations (`UnregisterKnows`), and that a
session has one owner (`SessionsHaveOwners`).  `CallsInv` ties a call to its entry:
it is in the one session the call holds until there is a reply, and a reply is
a response only if the target sent one; the last is what the refinement needs.
`InflightInv` says that outside crowded sessions at most one call is past the
check of the limit, and that there was a place for it.

### Rooms

`RoomsProofs`, for any codes, clients, handlers, capacity, lifetime and clock,
from `RoomsAssumption`: `RoomsTypesCorrect` (with it that no interleaving of joins
overfills a room) and `AnsweredRoomsStay` (`AnsweredRoomStays`).  A promise can be
broken only by a request that has decided to remove the room and has not done so
yet.  `RoomsInv` says that no such request is about a room that was promised and
not overtaken (`PromiseHolds`), and that rooms hold the members and end that were
answered (`RoomsMatchAnswers`).

### Settings and Startup

`StartupProofs`, for any clients, keys, updates, limits and sizes, from
`SettingsAssumption` and `StartupAssumption`: `StartupTypesCorrect`,
`SettingsStayAsAsked`, `LogStaysNewest`, `LetInStaysAsAsked`,
`ServerStaysRecognised`, `NoStartUndoes` (`DecisionsStay`) and `ImportStaysWhole`,
the invariants of the run `startup`.

A start decides by what it finds, so `StartupInv` says what may be found at each
stage, after a crash at any other.  `RowsInv`: a missing row was never changed, and
a transaction is the update applied so far.  `LogInv`: the log is an unbroken run
of ids up to the last one, within the limit in force.  `KeysInv`: whose key the
table and the clients have.  `ImportInv`: how far the import has come, and that
keys in the table mean it was begun.  `AdminRowInv`: the row of the account is
created once.  That an interrupted import stays incomplete is the exception in
`ImportIsWhole` and the finding of `legacy_import`.

### Codec

`CodecProofs` proves the three invariants of the run `codec` for contents, chunk
sizes, tokens and cuts of any length, from `CodecAssumption`: `StreamsAreReadBack`,
`FilesAreSentWhole` and `SyncInfosAreRead`.  The assumption says what the types of
the code say: a token has 32 bits (`u32`, `sync_info.rs:183`), the padding fits
into a byte (the block has 16), and so does the length of a frame into the 32 bits
of its head (a chunk has 256 KiB, `hub.rs:21`).  Without the last, `to_be_bytes`
would cut the length off and the stream could not be read.

There is no inductive invariant here (`call` is set and cleared); the work is in
what the operators compute.  `FlattenSeq` and the loop over the frames are
recursive functions, and what the provers can be given about such a function is
only that it solves its equation, once it is known that the equation has a
solution.  So the argument is:

* `Least` and `Induction`: a set of numbers with 0 and every successor is `Nat`.
  Both are about sets, and follow from the library's `NatLessThanWellFounded` and
  `WFMin`; the library's induction theorems, which take an operator, are not used.
* `FlattenSteps`, `ReadSteps`: the two recursive functions exist and satisfy their
  equations.  For the loop this rests on a frame not being empty (`EndIsBehind`):
  the next round is further on in the stream.
* `Cut` and `Join` say where an element of a piece is in the whole, for pieces of
  equal size but the last.  From them `PiecesFit`, `PiecesRejoin` (cutting and
  joining give the same sequence), `Recut` (joining and cutting give the same
  pieces) and `UploadsAreWhole`.
* `DigitsAreRead`: one to three bytes are read from their two to four digits.  With
  `Recut` and `PiecesRejoin` this is `Base64IsRead`; with `RotationIsUndone` and
  `LengthsAreRead` (32-bit numbers) it is `CodesAreRead`.
* `MessagesAreRead`: one encrypted message, padding included.  `FrameIsRead`: a
  frame that is there as a whole is read, one that is cut off is refused.
  `FramesAreRead` goes through the frames from the last to the first; its claim,
  `ReadsFrom`, is that the result from a frame on is an error, or the chunks up to
  a frame that begins exactly where the stream ends.  `CutStreamsAreRead` draws the
  conclusion: all of the plaintext if nothing is missing, else an error or whole
  chunks, and less than the plaintext.

### Only model-checked

Liveness: the fairness of `RequestReply` in `ImplementsRequestReply` (its safety
part is `TunnelImplementsCalls`), `DistributionsEnd` and `ExpiredIsCollected`.
Fairness and `ENABLED` are beyond the prover.  Every invariant and every action
property of a passing run is a theorem.

## 5. Not modelled

* What is in the icon cache (`hub.rs:774-817`): a file per source on which
  nothing else depends; the wait for it is in `Distribution`.  A write cut off by a crash leaves a part of an icon that is never
  fetched again.
* Views that only read: lists of clients, devices, recent pastes, logs.  The
  records they read are in `Distribution`; that records of two clients collide
  when their numbers do (`database.rs:360`) is modelled there.
* `check_auth`, configuration, the table of errors: decisions by constants.
* Discovery: one registration by a library; the record it publishes is in
  `Codec`.  The choice and ranking of addresses and the drawing of a QR code
  have no state.
* Cryptography: library calls.  The audit log is only appended to.
* Which client a v1 token was shown for: the hub has one slot (`hub.rs:163`), a
  new code ends the one before.  A generated token may be 0, which `trust_v1`
  takes for none; `Pairing` has both.
* The example agent, web assets, logging and the wording of errors.

## 6. Plan

Done in this order: `Pairing` (the state everything else asks), its proofs,
`Tunnel` with `RequestReply`, `Transfer`, `Distribution`, `AdminAuth` and its
proofs, `Rooms`, `Settings` and `Startup`, `Codec`.

Then the proofs: `RoomsProofs`, `StartupProofs`, `TunnelProofs`,
`TransferProofs`, `DistributionProofs`, `CodecProofs`.  Every safety property of
every passing run is stated by a theorem; what is left to the runs alone is
liveness, and the two findings, which are counterexamples.
