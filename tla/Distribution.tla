---------------------------- MODULE Distribution ----------------------------
(***************************************************************************)
(* A paste goes from one client to the others: sync_paste (routes.rs),     *)
(* receive_paste, broadcast_paste and broadcast_completed_push (hub.rs),   *)
(* composed with Pairing, whose maps the broadcast reads while pairings,   *)
(* heartbeats and removals change them.                                    *)
(*                                                                         *)
(* A task is one sync_paste request, the task it spawns for a file that    *)
(* the server pulls, or the task spawned for a pushed file.  It asks the   *)
(* source for the chunks of a pulled file and for an icon, takes the list  *)
(* of targets once, then sends to one target after the other.  It waits for*)
(* each answer, of the source as of a target, without a time limit.        *)
(***************************************************************************)
EXTENDS Pairing, FiniteSets

CONSTANTS
  Task,        \* pastes being distributed at the same time
  Paste,       \* values of a paste's "id" field, chosen by its client
  Reachable,   \* the SyncInfo contents that name a host
  FileRequests \* requests that move a file: as many hand a pushed file to
               \* one target, and at most as many pull one from its source

ASSUME DistributionAssumption ==
  /\ IsFiniteSet(Client)
  /\ Reachable \subseteq Info
  /\ FileRequests \in Nat \ {0}

VARIABLES
  stage,          \* next operation of each task
  from, paste,    \* the sender and the paste's id
  kind,           \* inline in the request, or a task of its own for a file
  left, seen,     \* targets still to be tried, and their SyncInfo
  current,        \* the client, source or target, whose answer it waits for
  used_key,       \* the key the last message to it was encrypted with
  sent,           \* how many messages it was sent, or asked for in a pull
  report,         \* BroadcastReport
  paste_records   \* table paste_records: the sender stored for each id

tasks == <<stage, from, paste, kind, left, seen, current, used_key, sent,
           report>>
dist == <<tasks, paste_records>>
dvars == <<vars, dist>>

Kind == {"inline", "pulled", "pushed"}
\* In "pulling", "fetching" and "await" a task waits for the client current.
PullStage == {"pull", "ask", "pulling"}
RecordStage == {"icon", "fetching", "check", "save_row"}
Stage == {"idle", "snapshot", "loop", "await"} \cup PullStage \cup RecordStage
NoReport == [attempted |-> 0, delivered |-> 0, failed |-> 0]
Count == 0 .. Cardinality(Client)

DistTypeOK ==
  /\ TypeOK
  /\ stage \in [Task -> Stage]
  /\ from \in [Task -> Client \cup {NoClient}]
  /\ paste \in [Task -> Paste \cup {0}]
  /\ kind \in [Task -> Kind]
  /\ left \in [Task -> SUBSET Client]
  /\ seen \in [Task -> [Client -> Info \cup {NoInfo}]]
  /\ current \in [Task -> Client \cup {NoClient}]
  /\ used_key \in [Task -> Key \cup {NoKey}]
  /\ sent \in [Task -> 0 .. FileRequests]
  /\ report \in [Task -> [attempted : Count, delivered : Count, failed : Count]]
  /\ paste_records \in [Paste -> Client \cup {NoClient}]

NoTasks ==
  /\ stage = [t \in Task |-> "idle"]
  /\ from = [t \in Task |-> NoClient]
  /\ paste = [t \in Task |-> 0]
  /\ kind = [t \in Task |-> "inline"]
  /\ left = [t \in Task |-> {}]
  /\ seen = [t \in Task |-> [c \in Client |-> NoInfo]]
  /\ current = [t \in Task |-> NoClient]
  /\ used_key = [t \in Task |-> NoKey]
  /\ sent = [t \in Task |-> 0]
  /\ report = [t \in Task |-> NoReport]

DistInit ==
  /\ Init
  /\ NoTasks
  /\ paste_records = [p \in Paste |-> NoClient]

Continue(t, before, after) ==
  /\ up
  /\ stage[t] = before
  /\ stage' = [stage EXCEPT ![t] = after]

\* The task is over; its locals are gone.
EndTask(t) ==
  /\ stage' = [stage EXCEPT ![t] = "idle"]
  /\ from' = [from EXCEPT ![t] = NoClient]
  /\ paste' = [paste EXCEPT ![t] = 0]
  /\ kind' = [kind EXCEPT ![t] = "inline"]
  /\ left' = [left EXCEPT ![t] = {}]
  /\ seen' = [seen EXCEPT ![t] = [c \in Client |-> NoInfo]]
  /\ current' = [current EXCEPT ![t] = NoClient]
  /\ used_key' = [used_key EXCEPT ![t] = NoKey]
  /\ sent' = [sent EXCEPT ![t] = 0]
  /\ report' = [report EXCEPT ![t] = NoReport]

\* There is a key that a message to c can be encrypted with.
encrypt_for_client(c) == client_crypt_keys[c] # NoKey

-----------------------------------------------------------------------------
\* sync_paste up to the first use of the source: a pulled file goes on in a
\* task of its own, and p is then the id the server gives it.  Pastes the
\* settings refuse end here.
sync_paste(t, c, p, how) ==
  /\ require_paired_client(c)
  /\ how # "pushed"
  /\ Continue(t, "idle", IF how = "pulled" THEN "pull" ELSE "icon")
  /\ from' = [from EXCEPT ![t] = c]
  /\ paste' = [paste EXCEPT ![t] = p]
  /\ kind' = [kind EXCEPT ![t] = how]
  /\ UNCHANGED <<vars, left, seen, current, used_key, sent, report,
                 paste_records>>

\* sync_push_complete with nothing missing: the broadcast of the file starts.
\* A pushed file has no record of its own.
sync_push_complete(t, c) ==
  /\ require_paired_client(c)
  /\ Continue(t, "idle", "snapshot")
  /\ from' = [from EXCEPT ![t] = c]
  /\ kind' = [kind EXCEPT ![t] = "pushed"]
  /\ UNCHANGED <<vars, paste, left, seen, current, used_key, sent, report,
                 paste_records>>

-----------------------------------------------------------------------------
(* The source of a paste *)

\* cache_pull_file_from_client finds the SyncInfo of the source, with a host.
FindSource(t) ==
  /\ Continue(t, "pull", "ask")
  /\ client_sync_infos[from[t]] \in Reachable
  /\ UNCHANGED <<vars, from, paste, kind, left, seen, current, used_key, sent,
                 report, paste_records>>

\* The next chunk is asked for, encrypted with the source's key of now.
AskForChunk(t) ==
  /\ Continue(t, "ask", "pulling")
  /\ sent[t] < FileRequests
  /\ encrypt_for_client(from[t])
  /\ current' = [current EXCEPT ![t] = from[t]]
  /\ used_key' = [used_key EXCEPT ![t] = client_crypt_keys[from[t]]]
  /\ sent' = [sent EXCEPT ![t] = @ + 1]
  /\ UNCHANGED <<vars, from, paste, kind, left, seen, report, paste_records>>

\* The source sends the chunk and it is stored.
ChunkArrives(t) ==
  /\ Continue(t, "pulling", "ask")
  /\ current' = [current EXCEPT ![t] = NoClient]
  /\ used_key' = [used_key EXCEPT ![t] = NoKey]
  /\ UNCHANGED <<vars, from, paste, kind, left, seen, sent, report,
                 paste_records>>

\* All chunks are here, which for an empty file are none.
PullEnds(t) ==
  /\ Continue(t, "ask", "icon")
  /\ sent' = [sent EXCEPT ![t] = 0]
  /\ UNCHANGED <<vars, from, paste, kind, left, seen, current, used_key, report,
                 paste_records>>

\* The paste lacks its id or size, the source has no SyncInfo or host, the
\* directory cannot be made, or the source has no key any more.
PullFails(t) ==
  /\ up
  /\ \/ stage[t] = "pull"
     \/ /\ stage[t] = "ask"
        /\ sent[t] < FileRequests
        /\ ~encrypt_for_client(from[t])
  /\ EndTask(t)
  /\ UNCHANGED <<vars, paste_records>>

\* The source refuses a chunk, the connection or the decryption fails, or the
\* chunk cannot be stored.
SourceRefuses(t) ==
  /\ up
  /\ stage[t] = "pulling"
  /\ EndTask(t)
  /\ UNCHANGED <<vars, paste_records>>

\* cache_paste_icon without a request: the paste names no icon, the icon is
\* there already, or the source has no SyncInfo or host.
SkipIcon(t) ==
  /\ Continue(t, "icon", "check")
  /\ UNCHANGED <<vars, from, paste, kind, left, seen, current, used_key, sent,
                 report, paste_records>>

\* The icon is asked for, without a key.
FetchIcon(t) ==
  /\ Continue(t, "icon", "fetching")
  /\ client_sync_infos[from[t]] \in Reachable
  /\ current' = [current EXCEPT ![t] = from[t]]
  /\ UNCHANGED <<vars, from, paste, kind, left, seen, used_key, sent, report,
                 paste_records>>

\* The icon comes, or anything else: the paste goes on without it.
IconAnswered(t) ==
  /\ Continue(t, "fetching", "check")
  /\ current' = [current EXCEPT ![t] = NoClient]
  /\ UNCHANGED <<vars, from, paste, kind, left, seen, used_key, sent, report,
                 paste_records>>

-----------------------------------------------------------------------------
(* The record *)

\* Mutant of CheckSender: the check of the request is relied on.
TrustSender(t) ==
  /\ Continue(t, "check", "save_row")
  /\ UNCHANGED <<vars, from, paste, kind, left, seen, current, used_key, sent,
                 report, paste_records>>

\* receive_paste up to its save: paired or not is asked again.
CheckSender(t) ==
  /\ from[t] \in clients
  /\ Continue(t, "check", "save_row")
  /\ UNCHANGED <<vars, from, paste, kind, left, seen, current, used_key, sent,
                 report, paste_records>>

\* save_paste: the row replaces the one with the same id.  Whether the sender
\* is still paired is not asked under the lock of the database.
receive_paste(t) ==
  /\ Continue(t, "save_row", "snapshot")
  /\ paste_records' = [paste_records EXCEPT ![paste[t]] = from[t]]
  /\ UNCHANGED <<vars, from, paste, kind, left, seen, current, used_key,
                 sent, report>>

\* The sender is not paired any more, or the row cannot be written.
RejectPaste(t) ==
  /\ up
  /\ \/ stage[t] = "check" /\ from[t] \notin clients
     \/ stage[t] = "save_row" /\ StatementsFail
  /\ EndTask(t)
  /\ UNCHANGED <<vars, paste_records>>

-----------------------------------------------------------------------------
(* The broadcast *)

\* Mutant of Snapshot: the sender is a target like the others.
SnapshotAll(t) ==
  LET targets == {c \in Client : client_sync_infos[c] # NoInfo} IN
  /\ Continue(t, "snapshot", "loop")
  /\ left' = [left EXCEPT ![t] = targets]
  /\ seen' = [seen EXCEPT ![t] = client_sync_infos]
  /\ report' = [report EXCEPT ![t].attempted = Cardinality(targets)]
  /\ UNCHANGED <<vars, from, paste, kind, current, used_key, sent,
                 paste_records>>

\* broadcast_paste up to its loop: everyone with a SyncInfo but the sender.
Snapshot(t) ==
  LET targets == {c \in Client \ {from[t]} : client_sync_infos[c] # NoInfo} IN
  /\ Continue(t, "snapshot", "loop")
  /\ left' = [left EXCEPT ![t] = targets]
  /\ seen' = [seen EXCEPT ![t] = [c \in Client |->
       IF c \in targets THEN client_sync_infos[c] ELSE NoInfo]]
  /\ report' = [report EXCEPT ![t].attempted = Cardinality(targets)]
  /\ UNCHANGED <<vars, from, paste, kind, current, used_key, sent,
                 paste_records>>

\* Mutant of SkipTarget: a target without a key or a host is not counted.
SkipSilently(t, c) ==
  /\ c \in left[t]
  /\ seen[t][c] \notin Reachable \/ ~encrypt_for_client(c)
  /\ Continue(t, "loop", "loop")
  /\ left' = [left EXCEPT ![t] = @ \ {c}]
  /\ UNCHANGED <<vars, from, paste, kind, seen, current, used_key, sent,
                 report, paste_records>>

\* Mutant of SkipTarget: only a missing key makes the loop go on.
SkipKeylessOnly(t, c) ==
  /\ c \in left[t]
  /\ ~encrypt_for_client(c)
  /\ Continue(t, "loop", "loop")
  /\ left' = [left EXCEPT ![t] = @ \ {c}]
  /\ report' = [report EXCEPT ![t].failed = @ + 1]
  /\ UNCHANGED <<vars, from, paste, kind, seen, current, used_key, sent,
                 paste_records>>

\* Mutant of SkipTarget: the target stays in the list and is tried again.
SkipAndKeep(t, c) ==
  /\ c \in left[t]
  /\ seen[t][c] \notin Reachable \/ ~encrypt_for_client(c)
  /\ Continue(t, "loop", "loop")
  /\ report' = [report EXCEPT ![t].failed = @ + 1]
  /\ UNCHANGED <<vars, from, paste, kind, left, seen, current, used_key, sent,
                 paste_records>>

\* The target has no host, or encrypt_for_client finds no key for it.
SkipTarget(t, c) ==
  /\ c \in left[t]
  /\ seen[t][c] \notin Reachable \/ ~encrypt_for_client(c)
  /\ Continue(t, "loop", "loop")
  /\ left' = [left EXCEPT ![t] = @ \ {c}]
  /\ report' = [report EXCEPT ![t].failed = @ + 1]
  /\ UNCHANGED <<vars, from, paste, kind, seen, current, used_key, sent,
                 paste_records>>

\* The message leaves, encrypted with the key the target has at this moment.
SendToTarget(t, c) ==
  /\ c \in left[t]
  /\ seen[t][c] \in Reachable
  /\ encrypt_for_client(c)
  /\ Continue(t, "loop", "await")
  /\ left' = [left EXCEPT ![t] = @ \ {c}]
  /\ current' = [current EXCEPT ![t] = c]
  /\ used_key' = [used_key EXCEPT ![t] = client_crypt_keys[c]]
  /\ sent' = [sent EXCEPT ![t] = 1]
  /\ UNCHANGED <<vars, from, paste, kind, seen, report, paste_records>>

\* Mutant of SendNext: the key found for the first message is used again.
SendNextSameKey(t) ==
  /\ up
  /\ stage[t] = "await"
  /\ kind[t] = "pushed"
  /\ sent[t] < FileRequests
  /\ sent' = [sent EXCEPT ![t] = @ + 1]
  /\ UNCHANGED <<vars, stage, from, paste, kind, left, seen, current, used_key,
                 report, paste_records>>

\* Mutant of SendNext: as long as there is a key, the first one found is kept.
SendNextOldKey(t) ==
  /\ up
  /\ stage[t] = "await"
  /\ kind[t] = "pushed"
  /\ sent[t] < FileRequests
  /\ encrypt_for_client(current[t])
  /\ sent' = [sent EXCEPT ![t] = @ + 1]
  /\ UNCHANGED <<vars, stage, from, paste, kind, left, seen, current, used_key,
                 report, paste_records>>

\* upload_completed_push_to_target: the target accepts a message and there is
\* another one, a chunk or the completion, encrypted with its key of now.
SendNext(t) ==
  /\ up
  /\ stage[t] = "await"
  /\ kind[t] = "pushed"
  /\ sent[t] < FileRequests
  /\ encrypt_for_client(current[t])
  /\ sent' = [sent EXCEPT ![t] = @ + 1]
  /\ used_key' = [used_key EXCEPT ![t] = client_crypt_keys[current[t]]]
  /\ UNCHANGED <<vars, stage, from, paste, kind, left, seen, current, report,
                 paste_records>>

\* The target accepts the last message, or refuses one, or the connection or
\* the next encryption fails.  There is no time limit.
TargetAnswers(t) ==
  /\ Continue(t, "await", "loop")
  /\ \E result \in {"delivered", "failed"} :
       /\ result = "delivered" /\ kind[t] = "pushed" => sent[t] = FileRequests
       /\ report' = [report EXCEPT ![t][result] = @ + 1]
  /\ current' = [current EXCEPT ![t] = NoClient]
  /\ used_key' = [used_key EXCEPT ![t] = NoKey]
  /\ sent' = [sent EXCEPT ![t] = 0]
  /\ UNCHANGED <<vars, from, paste, kind, left, seen, paste_records>>

BroadcastEnds(t) ==
  /\ up
  /\ stage[t] = "loop"
  /\ left[t] = {}
  /\ EndTask(t)
  /\ UNCHANGED <<vars, paste_records>>

\* The sender closes its connection: a request that waits for the network is
\* dropped with all it still had to do.  A spawned task is not.
SenderGone(t) ==
  /\ up
  /\ stage[t] \in {"fetching", "await"}
  /\ kind[t] = "inline"
  /\ EndTask(t)
  /\ UNCHANGED <<vars, paste_records>>

-----------------------------------------------------------------------------
\* What the server does by itself.
TaskStep(t) ==
  \/ FindSource(t)
  \/ AskForChunk(t)
  \/ PullEnds(t)
  \/ PullFails(t)
  \/ SkipIcon(t)
  \/ FetchIcon(t)
  \/ CheckSender(t)
  \/ receive_paste(t)
  \/ RejectPaste(t)
  \/ Snapshot(t)
  \/ \E c \in Client : SkipTarget(t, c) \/ SendToTarget(t, c)
  \/ BroadcastEnds(t)

\* What happens when the client that the task waits for answers, or its
\* connection fails.
ClientAnswers(t) ==
  \/ ChunkArrives(t)
  \/ SourceRefuses(t)
  \/ IconAnswered(t)
  \/ SendNext(t)
  \/ TargetAnswers(t)

Distribute(t) ==
  \/ \E c \in Client, p \in Paste, how \in Kind : sync_paste(t, c, p, how)
  \/ \E c \in Client : sync_push_complete(t, c)
  \/ TaskStep(t)
  \/ ClientAnswers(t)
  \/ SenderGone(t)

DropTasks ==
  /\ stage' = [t \in Task |-> "idle"]
  /\ from' = [t \in Task |-> NoClient]
  /\ paste' = [t \in Task |-> 0]
  /\ kind' = [t \in Task |-> "inline"]
  /\ left' = [t \in Task |-> {}]
  /\ seen' = [t \in Task |-> [c \in Client |-> NoInfo]]
  /\ current' = [t \in Task |-> NoClient]
  /\ used_key' = [t \in Task |-> NoKey]
  /\ sent' = [t \in Task |-> 0]
  /\ report' = [t \in Task |-> NoReport]

\* A step of Pairing; a crash takes the tasks with it.
PairingStep ==
  /\ Next
  /\ IF up' THEN UNCHANGED tasks ELSE DropTasks
  /\ UNCHANGED <<paste_records>>

DistNext == PairingStep \/ \E t \in Task : Distribute(t)

DistSpec == DistInit /\ [][DistNext]_dvars

-----------------------------------------------------------------------------
(* Properties *)

\* The step sends client c a message encrypted for it.  A request for an icon
\* is none: it carries only the name of the icon.
SendsTo(t, c) == current'[t] = c /\ sent'[t] > sent[t]

\* Once the removal of a client has been answered, and nothing overlapped it,
\* no task sends that client another message: not even one that took its
\* list of targets before, nor one in the middle of handing it a file or of
\* pulling one from it, nor one that finds the SyncInfo a late heartbeat left
\* behind.  Nor is a paste of that client, held up by its pull or its icon
\* while the removal went by, accepted any more (broadcast_paste,
\* upload_completed_push_to_target, cache_pull_file_from_client,
\* receive_paste, encrypt_for_client, remove_client).
RemovedGetsNothing ==
  [][\A t \in Task, c \in Client :
       ack[c] = "removed" /\ ~contended[c] =>
         /\ ~SendsTo(t, c)
         /\ ~(from[t] = c /\ stage[t] # "save_row" /\ stage'[t] = "save_row")
    ]_dvars

\* Once a pairing of a client has been answered, and nothing overlapped it,
\* every message to that client is encrypted with the key this pairing
\* established, in whatever order pairings, crashes and restarts fall between
\* the list of targets, the first message and the following ones: no task goes
\* on with the key it found before (trust_v1, confirm_trust_v2,
\* encrypt_for_client, upload_completed_push_to_target).
MessagesUseSettledKey ==
  [][\A t \in Task, c \in Client :
       ack[c] = "paired" /\ ~contended[c] /\ SendsTo(t, c) =>
         used_key'[t] = ack_key[c]
    ]_dvars

\* The report never loses a target: every one that was attempted is either
\* counted, or waited for, or still to come (BroadcastReport).
NobodyForgotten ==
  \A t \in Task : stage[t] \in {"loop", "await"} =>
    report[t].attempted = report[t].delivered + report[t].failed
      + Cardinality(left[t]) + (IF stage[t] = "await" THEN 1 ELSE 0)

\* Every message is encrypted with a key that its target has proved to own,
\* also when the target pairs again while the broadcast is under way; the
\* sender gets no copy of its own paste; and a paste that is not a pushed file
\* has its record before anybody is sent it (sync_paste, broadcast_paste).
SentToRightClient ==
  \A t \in Task : stage[t] = "await" =>
    /\ used_key[t] \in approved[current[t]]
    /\ current[t] # from[t]
    /\ kind[t] # "pushed" => paste_records[paste[t]] # NoClient

=============================================================================
