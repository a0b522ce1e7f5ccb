------------------------------ MODULE Transfer ------------------------------
(***************************************************************************)
(* File transfer through the hub (hub.rs): a client pushes a file chunk by *)
(* chunk, or lets the server pull it; once the file is complete the server *)
(* passes it on and serves its chunks from the table file_chunks or from   *)
(* the transfer directory.                                                 *)
(*                                                                         *)
(* store_push_chunk keeps its guard on the map of sessions while it writes *)
(* the file and the row: an insertion or a removal of the same paste id    *)
(* waits for it, other chunks of the session do not.                       *)
(***************************************************************************)
EXTENDS Naturals

CONSTANTS
  Push,             \* files pushed by clients; a session's token is its push
  Pull,             \* files the server pulls from their source
  Chunk,            \* chunk indices of a file
  Handler,          \* requests and tasks running at the same time
  None, Torn,       \* no content; a file that is being overwritten
  MaxTime           \* bound of the clock, whose readings are the paste ids

File == Push \cup Pull
PasteId == 1 .. MaxTime

ASSUME TransferAssumption ==
  /\ Push \cap Pull = {}
  /\ None \notin File
  /\ Torn \notin File \cup {None}
  /\ MaxTime \in Nat \ {0}

VARIABLES
  now,            \* now_ms()
  id,             \* paste id given to each file, 0 before
  push_sessions,  \* the open session of each paste id
  received,       \* PushSession.received
  directory,      \* transfers/<id>/<chunk>.chunk
  pulled,         \* transfers/pull-<id>/<chunk>.chunk
  file_chunks,    \* table file_chunks
  paste_records,  \* table paste_records: ids of the recorded files
  stored_files,   \* the file each id is served from when it has no row
  pc, job, chunk, \* next operation of each handler, its file and chunk
  damaged,        \* history: <<push, chunk>> whose file was left cut off
  completed,      \* history: pushes answered as complete
  announced       \* history: pulled files passed on since the last restart

memory == <<push_sessions, received, stored_files>>
disk == <<directory, pulled, file_chunks, paste_records>>
locals == <<pc, job, chunk>>
history == <<damaged, completed, announced>>
vars == <<now, id, memory, disk, locals, history>>

StoreStep == {"truncate", "write", "save", "mark"}
PullStep == {"pull", "store", "record", "announce"}
Step == StoreStep \cup PullStep \cup {"remove", "broadcast"}

TypeOK ==
  /\ now \in PasteId
  /\ id \in [File -> PasteId \cup {0}]
  /\ push_sessions \in [PasteId -> Push \cup {None}]
  /\ received \in [Push -> SUBSET Chunk]
  /\ directory \in [PasteId -> [Chunk -> Push \cup {None, Torn}]]
  /\ pulled \in [PasteId -> [Chunk -> Pull \cup {None}]]
  /\ file_chunks \in [PasteId -> [Chunk -> Push \cup {None}]]
  /\ paste_records \in SUBSET PasteId
  /\ stored_files \in [PasteId -> File \cup {None}]
  /\ pc \in [Handler -> Step \cup {"idle"}]
  /\ job \in [Handler -> File \cup {None}]
  /\ chunk \in [Handler -> Chunk \cup {None}]
  /\ damaged \in SUBSET (Push \X Chunk)
  /\ completed \in SUBSET Push
  /\ announced \in SUBSET Pull
  /\ \A h \in Handler :
       /\ pc[h] \in StoreStep \cup {"remove", "broadcast"} =>
            job[h] \in Push /\ id[job[h]] \in PasteId
       /\ pc[h] \in PullStep => job[h] \in Pull /\ id[job[h]] \in PasteId
       /\ pc[h] \in StoreStep => chunk[h] \in Chunk
  /\ \A p \in PasteId : push_sessions[p] \in Push => id[push_sessions[p]] = p

Empty(content) == [p \in PasteId |-> [i \in Chunk |-> content]]

Init ==
  /\ now = 1
  /\ id = [f \in File |-> 0]
  /\ push_sessions = [p \in PasteId |-> None]
  /\ received = [u \in Push |-> {}]
  /\ directory = Empty(None)
  /\ pulled = Empty(None)
  /\ file_chunks = Empty(None)
  /\ paste_records = {}
  /\ stored_files = [p \in PasteId |-> None]
  /\ pc = [h \in Handler |-> "idle"]
  /\ job = [h \in Handler |-> None]
  /\ chunk = [h \in Handler |-> None]
  /\ damaged = {}
  /\ completed = {}
  /\ announced = {}

Start(h, f, i, step) ==
  /\ pc[h] = "idle"
  /\ pc' = [pc EXCEPT ![h] = step]
  /\ job' = [job EXCEPT ![h] = f]
  /\ chunk' = [chunk EXCEPT ![h] = i]

Goto(h, from, to) ==
  /\ pc[h] = from
  /\ pc' = [pc EXCEPT ![h] = to]
  /\ UNCHANGED <<job, chunk>>

Finish(h, from) ==
  /\ pc[h] = from
  /\ pc' = [pc EXCEPT ![h] = "idle"]
  /\ job' = [job EXCEPT ![h] = None]
  /\ chunk' = [chunk EXCEPT ![h] = None]

\* The paste id of a new file is the current millisecond, whoever else has
\* read the clock in it.
AssignId(f) ==
  /\ id[f] = 0
  /\ id' = [id EXCEPT ![f] = now]

\* Mutant of Guarded: the session is cloned out of the map, the guard dropped.
Unguarded(p) == FALSE

\* A chunk of paste id p is being stored: its entry cannot be replaced.
Guarded(p) == \E h \in Handler : pc[h] \in StoreStep /\ id[job[h]] = p

-----------------------------------------------------------------------------
(* Push *)

\* Mutant of prepare_push: the clock is read a second time for the map's key.
PreparePushTwice(u) ==
  /\ AssignId(u)
  /\ \E p \in PasteId : p >= now /\ ~Guarded(p)
                       /\ push_sessions' = [push_sessions EXCEPT ![p] = u]
  /\ received' = [received EXCEPT ![u] = {}]
  /\ UNCHANGED <<now, stored_files, disk, locals, history>>

\* A session that has the same paste id is replaced.
prepare_push(u) ==
  /\ AssignId(u)
  /\ ~Guarded(now)
  /\ push_sessions' = [push_sessions EXCEPT ![now] = u]
  /\ received' = [received EXCEPT ![u] = {}]
  /\ UNCHANGED <<now, stored_files, disk, locals, history>>

\* store_push_chunk up to the last check; the client may send a chunk again.
StoreCheck(h, u, i) ==
  /\ id[u] # 0
  /\ push_sessions[id[u]] = u
  /\ Start(h, u, i, "truncate")
  /\ UNCHANGED <<now, id, memory, disk, history>>

\* std::fs::write is not atomic: the file is cut off before it is filled.
Truncate(h) ==
  /\ Goto(h, "truncate", "write")
  /\ directory' = [directory EXCEPT ![id[job[h]]][chunk[h]] = Torn]
  /\ UNCHANGED <<now, id, memory, pulled, file_chunks, paste_records, history>>

WriteChunk(h) ==
  /\ Goto(h, "write", "save")
  /\ directory' = [directory EXCEPT ![id[job[h]]][chunk[h]] = job[h]]
  /\ damaged' = damaged \ {<<job[h], chunk[h]>>}
  /\ UNCHANGED <<now, id, memory, pulled, file_chunks, paste_records, completed,
                 announced>>

\* Mutant of save_file_chunk: a row that could not be written is ignored.
SaveChunkMaybe(h) ==
  /\ Goto(h, "save", "mark")
  /\ \/ file_chunks' = [file_chunks EXCEPT ![id[job[h]]][chunk[h]] = job[h]]
     \/ UNCHANGED file_chunks
  /\ UNCHANGED <<now, id, memory, directory, pulled, paste_records, history>>

save_file_chunk(h) ==
  /\ Goto(h, "save", "mark")
  /\ file_chunks' = [file_chunks EXCEPT ![id[job[h]]][chunk[h]] = job[h]]
  /\ UNCHANGED <<now, id, memory, directory, pulled, paste_records, history>>

MarkReceived(h) ==
  /\ Finish(h, "mark")
  /\ received' = [received EXCEPT ![job[h]] = @ \cup {chunk[h]}]
  /\ UNCHANGED <<now, id, push_sessions, stored_files, disk, history>>

\* The file cannot be opened or filled, or the row cannot be written: the
\* client may try again.  What is already marked as received stays marked.
StoreFails(h) ==
  /\ \E step \in {"truncate", "write", "save"} : Finish(h, step)
  /\ damaged' = IF pc[h] = "write" THEN damaged \cup {<<job[h], chunk[h]>>}
                ELSE damaged
  /\ UNCHANGED <<now, id, memory, disk, completed, announced>>

\* complete_push up to the drop of the session's guard, nothing missing.  An
\* answer that lists missing chunks changes nothing.
CompleteCheck(h, u) ==
  /\ id[u] # 0
  /\ push_sessions[id[u]] = u
  /\ received[u] = Chunk
  /\ Start(h, u, None, "remove")
  /\ UNCHANGED <<now, id, memory, disk, history>>

\* The session is removed, the client answered, the broadcast task spawned.
RemoveSession(h) ==
  /\ Goto(h, "remove", "broadcast")
  /\ ~Guarded(id[job[h]])
  /\ push_sessions' = [push_sessions EXCEPT ![id[job[h]]] = None]
  /\ completed' = completed \cup {job[h]}
  /\ UNCHANGED <<now, id, received, stored_files, disk, damaged, announced>>

\* broadcast_completed_push reads the directory once per target, sends what
\* it read, and at the end makes the file available to pulls.
BroadcastDone(h) ==
  /\ Finish(h, "broadcast")
  /\ stored_files' = [stored_files EXCEPT ![id[job[h]]] = job[h]]
  /\ UNCHANGED <<now, id, push_sessions, received, disk, history>>

-----------------------------------------------------------------------------
(* Pull *)

\* sync_paste of a file: a task that fetches it from its source.
PullStart(h, g) ==
  /\ AssignId(g)
  /\ Start(h, g, None, "pull")
  /\ UNCHANGED <<now, memory, disk, history>>

\* Mutant of PullChunk: a chunk the source refuses is skipped.
PullChunkOrSkip(h, i) ==
  /\ pc[h] = "pull"
  /\ pulled[id[job[h]]][i] # job[h]
  /\ pulled' = [pulled EXCEPT ![id[job[h]]][i] = job[h]]
  /\ \E to \in {"pull", "store"} : Goto(h, "pull", to)
  /\ UNCHANGED <<now, id, memory, directory, file_chunks, paste_records, history>>

\* One chunk is fetched and written; the order of the chunks is not visible.
PullChunk(h, i) ==
  LET dir == pulled[id[job[h]]] IN
  /\ pc[h] = "pull"
  /\ dir[i] # job[h]
  /\ pulled' = [pulled EXCEPT ![id[job[h]]][i] = job[h]]
  /\ Goto(h, "pull", IF \A j \in Chunk \ {i} : dir[j] = job[h]
                     THEN "store" ELSE "pull")
  /\ UNCHANGED <<now, id, memory, directory, file_chunks, paste_records, history>>

\* The source cannot be reached, rejects a chunk, or is not paired any more
\* when the file is recorded: the task ends, what it wrote stays.
PullFails(h) ==
  /\ \E step \in {"pull", "record"} : Finish(h, step)
  /\ UNCHANGED <<now, id, memory, disk, history>>

PullStored(h) ==
  /\ Goto(h, "store", "record")
  /\ stored_files' = [stored_files EXCEPT ![id[job[h]]] = job[h]]
  /\ UNCHANGED <<now, id, push_sessions, received, disk, history>>

\* receive_paste, under the id the server gave the file.
RecordPaste(h) ==
  /\ Goto(h, "record", "announce")
  /\ paste_records' = paste_records \cup {id[job[h]]}
  /\ UNCHANGED <<now, id, memory, directory, pulled, file_chunks, history>>

\* broadcast_paste: the targets learn the id and may fetch the chunks.
Announce(h) ==
  /\ Finish(h, "announce")
  /\ announced' = announced \cup {job[h]}
  /\ UNCHANGED <<now, id, memory, disk, damaged, completed>>

\* read_file_chunk: the row if there is one, else the file it is stored in.
read_file_chunk(p, i) ==
  LET f == stored_files[p] IN
  IF file_chunks[p][i] # None THEN file_chunks[p][i]
  ELSE IF f \in Push THEN directory[p][i]
  ELSE IF f \in Pull THEN pulled[p][i]
  ELSE None

-----------------------------------------------------------------------------
Tick ==
  /\ now < MaxTime
  /\ now' = now + 1
  /\ UNCHANGED <<id, memory, disk, locals, history>>

\* The process stops and comes up again: tasks and maps are gone.
Restart ==
  /\ push_sessions' = [p \in PasteId |-> None]
  /\ received' = [u \in Push |-> {}]
  /\ stored_files' = [p \in PasteId |-> None]
  /\ pc' = [h \in Handler |-> "idle"]
  /\ job' = [h \in Handler |-> None]
  /\ chunk' = [h \in Handler |-> None]
  /\ announced' = {}
  /\ UNCHANGED <<now, id, disk, damaged, completed>>

PushStep(h) ==
  \/ \E u \in Push, i \in Chunk : StoreCheck(h, u, i)
  \/ Truncate(h)
  \/ WriteChunk(h)
  \/ save_file_chunk(h)
  \/ MarkReceived(h)
  \/ StoreFails(h)
  \/ \E u \in Push : CompleteCheck(h, u)
  \/ RemoveSession(h)
  \/ BroadcastDone(h)

PullTask(h) ==
  \/ \E g \in Pull : PullStart(h, g)
  \/ \E i \in Chunk : PullChunk(h, i)
  \/ PullFails(h)
  \/ PullStored(h)
  \/ RecordPaste(h)
  \/ Announce(h)

Next ==
  \/ \E u \in Push : prepare_push(u)
  \/ \E h \in Handler : PushStep(h) \/ PullTask(h)
  \/ Tick
  \/ Restart

Spec == Init /\ [][Next]_vars

-----------------------------------------------------------------------------
(* Properties *)

\* Another file began in the same millisecond: the two share their paste id,
\* their directory and their rows.
Shared(f) == \E g \in File \ {f} : id[g] = id[f]

\* README, distribution: the content is cached completely before it is passed
\* on.  While a completed push is broadcast, every chunk file is whole and is
\* the pushed file's own: no retried chunk is still being written, none can
\* start (complete_push, store_push_chunk, read_completed_push).  Not so when
\* the id is shared, nor for a chunk whose retry was cut off and then failed.
CompleteBeforeBroadcast ==
  \A h \in Handler : pc[h] = "broadcast" /\ ~Shared(job[h]) =>
    \A i \in Chunk : <<job[h], i>> \notin damaged =>
      directory[id[job[h]]][i] = job[h]

\* A push that was answered as complete and has its id for itself can be read
\* back, chunk by chunk, for ever after: neither a restart nor a retry that
\* fails halfway takes it away (save_file_chunk, read_file_chunk).
CompletedIsDurable ==
  \A u \in completed : ~Shared(u) =>
    \A i \in Chunk : read_file_chunk(id[u], i) = u

\* A pulled file that other clients have been told of, and that has its id for
\* itself, is recorded and can be fetched by them as long as the process runs:
\* a restart loses the entry that leads to its chunks
\* (cache_pull_file_from_client, sync_paste).
AnnouncedIsReadable ==
  \A g \in announced : ~Shared(g) =>
    /\ id[g] \in paste_records
    /\ \A i \in Chunk : read_file_chunk(id[g], i) = g

=============================================================================
