--------------------------- MODULE TransferProofs ---------------------------
(***************************************************************************)
(* Theorems about Transfer, for any files, chunks, requests and any bound  *)
(* of the clock.                                                           *)
(*                                                                         *)
(* Handlers that store chunks of the same push overtake each other, so the *)
(* invariants speak of a chunk together with the handlers that work on it: *)
(* SessionInv says that a session is there as long as somebody stores a    *)
(* chunk of it, FilesInv and RowsInv what a stored chunk has left on disk, *)
(* PullInv what a pulling task has done so far.                            *)
(***************************************************************************)
EXTENDS Transfer, TLAPS

\* Somebody works on chunk i of push u and is about to take one of the steps.
At(u, i, steps) ==
  \E h \in Handler : pc[h] \in steps /\ job[h] = u /\ chunk[h] = i

\* What is remembered of a file is remembered under its id.
IdsInv ==
  /\ \A u \in Push : received[u] # {} \/ u \in completed => id[u] # 0
  /\ \A g \in announced : id[g] # 0
  /\ \A p \in PasteId, i \in Chunk :
       file_chunks[p][i] # None => id[file_chunks[p][i]] = p

\* A session stays in the map while one of its chunks is being stored, and
\* leaves it for good when its push is complete.
SessionInv ==
  \A h \in Handler :
    /\ pc[h] \in StoreStep => push_sessions[id[job[h]]] = job[h]
    /\ pc[h] \in {"remove", "broadcast"} => received[job[h]] = Chunk
    /\ pc[h] = "broadcast" => push_sessions[id[job[h]]] # job[h]

\* A chunk that was written is in its file, unless a retry has failed halfway
\* or is rewriting it now.
FilesInv ==
  \A u \in Push, i \in Chunk :
    ~Shared(u) /\ (i \in received[u] \/ At(u, i, {"save", "mark"})) =>
      \/ directory[id[u]][i] = u
      \/ <<u, i>> \in damaged
      \/ At(u, i, {"write"})

\* A chunk that was saved is in its row, and so is every chunk of a push that
\* was answered as complete.
RowsInv ==
  \A u \in Push, i \in Chunk :
    ~Shared(u) /\ (i \in received[u] \/ At(u, i, {"mark"}) \/ u \in completed) =>
      file_chunks[id[u]][i] = u

\* The file is there, leads to its chunks, and is recorded.
Fetched(g) == \A i \in Chunk : pulled[id[g]][i] = g
Recorded(g) == Fetched(g) /\ stored_files[id[g]] = g /\ id[g] \in paste_records

\* A pulling task has done what comes before its next step.
PullInv ==
  /\ \A h \in Handler :
       /\ pc[h] \in {"store", "record"} /\ ~Shared(job[h]) => Fetched(job[h])
       /\ pc[h] = "record" /\ ~Shared(job[h]) => stored_files[id[job[h]]] = job[h]
       /\ pc[h] = "announce" /\ ~Shared(job[h]) => Recorded(job[h])
  /\ \A g \in announced : ~Shared(g) => Recorded(g)

TransferInv ==
  TypeOK /\ IdsInv /\ SessionInv /\ FilesInv /\ RowsInv /\ PullInv

-----------------------------------------------------------------------------
(* Ids *)

\* The hub starts without files, and the invariant holds.
LEMMA TransferInvInit == Init => TransferInv
<1> SUFFICES ASSUME Init PROVE TransferInv
  OBVIOUS
<1>a. 1 \in PasteId /\ None \notin Push
  BY TransferAssumption DEF TransferAssumption, PasteId, File
<1> USE <1>a DEF Init, Empty
<1>1. TypeOK
  BY DEF TypeOK, Step, StoreStep, PullStep
<1>2. IdsInv /\ SessionInv
  BY DEF IdsInv, SessionInv, StoreStep
<1>3. FilesInv /\ RowsInv /\ PullInv
  BY DEF FilesInv, RowsInv, PullInv, At
<1> QED
  BY <1>1, <1>2, <1>3 DEF TransferInv

\* Every step keeps the types.
LEMMA TypeStep == TypeOK /\ [Next]_vars => TypeOK'
<1> SUFFICES ASSUME TypeOK, [Next]_vars PROVE TypeOK'
  OBVIOUS
<1>a. /\ 0 \notin PasteId /\ None \notin Push /\ None \notin Pull
      /\ Torn \notin Push /\ Push \subseteq File /\ Pull \subseteq File
      /\ Push \cap Pull = {}
  BY TransferAssumption DEF TransferAssumption, PasteId, File
<1> USE <1>a DEF memory, disk, locals, history, Step, StoreStep, PullStep
<1>1. ASSUME NEW u \in Push, prepare_push(u) PROVE TypeOK'
  BY <1>1 DEF prepare_push, AssignId, TypeOK
<1>2. ASSUME NEW h \in Handler, PushStep(h) PROVE TypeOK'
  <2>1. ASSUME NEW u \in Push, NEW i \in Chunk, StoreCheck(h, u, i) PROVE TypeOK'
    BY <2>1 DEF StoreCheck, Start, TypeOK
  <2>2. CASE Truncate(h)
    BY <2>2 DEF Truncate, Goto, TypeOK
  <2>3. CASE WriteChunk(h)
    BY <2>3 DEF WriteChunk, Goto, TypeOK
  <2>4. CASE save_file_chunk(h)
    BY <2>4 DEF save_file_chunk, Goto, TypeOK
  <2>5. CASE MarkReceived(h)
    BY <2>5 DEF MarkReceived, Finish, TypeOK
  <2>6. CASE StoreFails(h)
    BY <2>6 DEF StoreFails, Finish, TypeOK
  <2>7. ASSUME NEW u \in Push, CompleteCheck(h, u) PROVE TypeOK'
    BY <2>7 DEF CompleteCheck, Start, TypeOK
  <2>8. CASE RemoveSession(h)
    BY <2>8 DEF RemoveSession, Goto, TypeOK
  <2>9. CASE BroadcastDone(h)
    BY <2>9 DEF BroadcastDone, Finish, TypeOK
  <2> QED
    BY <1>2, <2>1, <2>2, <2>3, <2>4, <2>5, <2>6, <2>7, <2>8, <2>9 DEF PushStep
<1>3. ASSUME NEW h \in Handler, PullTask(h) PROVE TypeOK'
  <2>1. ASSUME NEW g \in Pull, PullStart(h, g) PROVE TypeOK'
    BY <2>1 DEF PullStart, AssignId, Start, TypeOK
  <2>2. ASSUME NEW i \in Chunk, PullChunk(h, i) PROVE TypeOK'
    BY <2>2 DEF PullChunk, Goto, TypeOK
  <2>3. CASE PullFails(h)
    BY <2>3 DEF PullFails, Finish, TypeOK
  <2>4. CASE PullStored(h)
    BY <2>4 DEF PullStored, Goto, TypeOK
  <2>5. CASE RecordPaste(h)
    BY <2>5 DEF RecordPaste, Goto, TypeOK
  <2>6. CASE Announce(h)
    BY <2>6 DEF Announce, Finish, TypeOK
  <2> QED
    BY <1>3, <2>1, <2>2, <2>3, <2>4, <2>5, <2>6 DEF PullTask
<1>4. CASE Tick
  BY <1>4, TransferAssumption DEF Tick, TypeOK, PasteId, TransferAssumption
<1>5. CASE Restart
  BY <1>5 DEF Restart, TypeOK
<1>6. CASE UNCHANGED vars
  BY <1>6 DEF vars, TypeOK
<1> QED
  BY <1>1, <1>2, <1>3, <1>4, <1>5, <1>6 DEF Next

\* Ids are given once.  A file that shares its id goes on sharing it
\* (prepare_push, sync_paste).
LEMMA IdsKept ==
  ASSUME TypeOK, [Next]_vars, NEW f \in File, id[f] # 0
  PROVE  id'[f] = id[f] /\ (~Shared(f)' => ~Shared(f))
<1> USE DEF memory, disk, locals, history
<1>1. id' = id \/ \E e \in File : AssignId(e)
  <2>1. ASSUME NEW u \in Push, prepare_push(u) PROVE \E e \in File : AssignId(e)
    BY <2>1 DEF prepare_push, File
  <2>2. ASSUME NEW h \in Handler, PushStep(h) PROVE id' = id
    BY <2>2
       DEF PushStep, StoreCheck, Truncate, WriteChunk, save_file_chunk,
           MarkReceived, StoreFails, CompleteCheck, RemoveSession, BroadcastDone
  <2>3. ASSUME NEW h \in Handler, PullTask(h)
        PROVE  id' = id \/ \E e \in File : AssignId(e)
    BY <2>3
       DEF PullTask, PullStart, PullChunk, PullFails, PullStored, RecordPaste,
           Announce, File
  <2>4. CASE Tick \/ Restart \/ UNCHANGED vars
    BY <2>4 DEF Tick, Restart, vars
  <2> QED
    BY <2>1, <2>2, <2>3, <2>4 DEF Next
<1>2. \A e \in File : id[e] # 0 => id'[e] = id[e]
  BY <1>1 DEF AssignId, TypeOK
<1> QED
  BY <1>2 DEF Shared

\* Two files with the same id are the same, if one of them has it alone.
LEMMA Alone ==
  ASSUME NEW f \in File, NEW g \in File, ~Shared(f), id[g] = id[f]
  PROVE  g = f
  BY DEF Shared

\* What is remembered stays with the id it was given.
LEMMA IdsInvStep == TypeOK /\ IdsInv /\ [Next]_vars => IdsInv'
<1> SUFFICES ASSUME TypeOK, IdsInv, [Next]_vars PROVE IdsInv'
  OBVIOUS
<1>a. /\ 0 \notin PasteId /\ None \notin Push /\ Push \subseteq File
      /\ Pull \subseteq File
  BY TransferAssumption DEF TransferAssumption, PasteId, File
<1>b. \A f \in File : id[f] # 0 => id'[f] # 0 /\ id'[f] = id[f]
  BY IdsKept
<1> USE <1>a, <1>b DEF memory, disk, locals, history
<1>1. ASSUME NEW h \in Handler, save_file_chunk(h) PROVE IdsInv'
  <2>1. /\ job[h] \in Push /\ id[job[h]] \in PasteId /\ chunk[h] \in Chunk
        /\ file_chunks' = [file_chunks EXCEPT ![id[job[h]]][chunk[h]] = job[h]]
        /\ UNCHANGED <<id, received, completed, announced>>
    BY <1>1 DEF save_file_chunk, Goto, TypeOK, StoreStep
  <2> QED
    BY <2>1 DEF IdsInv, TypeOK
<1>2. ASSUME NEW h \in Handler, MarkReceived(h) PROVE IdsInv'
  <2>1. /\ job[h] \in Push /\ id[job[h]] \in PasteId
        /\ received' = [received EXCEPT ![job[h]] = @ \cup {chunk[h]}]
        /\ UNCHANGED <<id, file_chunks, completed, announced>>
    BY <1>2 DEF MarkReceived, Finish, TypeOK, StoreStep
  <2> QED
    BY <2>1 DEF IdsInv, TypeOK
<1>3. ASSUME NEW h \in Handler, RemoveSession(h) PROVE IdsInv'
  <2>1. /\ job[h] \in Push /\ id[job[h]] \in PasteId
        /\ completed' = completed \cup {job[h]}
        /\ UNCHANGED <<id, file_chunks, received, announced>>
    BY <1>3 DEF RemoveSession, Goto, TypeOK
  <2> QED
    BY <2>1 DEF IdsInv, TypeOK
<1>4. ASSUME NEW h \in Handler, Announce(h) PROVE IdsInv'
  <2>1. /\ job[h] \in Pull /\ id[job[h]] \in PasteId
        /\ announced' = announced \cup {job[h]}
        /\ UNCHANGED <<id, file_chunks, received, completed>>
    BY <1>4 DEF Announce, Finish, TypeOK, PullStep
  <2> QED
    BY <2>1 DEF IdsInv, TypeOK
<1>5. CASE Restart
  BY <1>5 DEF Restart, IdsInv
<1>6. ASSUME NEW u \in Push, prepare_push(u) PROVE IdsInv'
  <2>1. /\ received' = [received EXCEPT ![u] = {}]
        /\ UNCHANGED <<file_chunks, completed, announced>>
    BY <1>6 DEF prepare_push
  <2>2. id[u] = 0 /\ u \notin completed
    BY <1>6 DEF prepare_push, AssignId, IdsInv
  <2>3. \A p \in PasteId, i \in Chunk : file_chunks[p][i] # None =>
          file_chunks[p][i] \in Push
    BY DEF TypeOK
  <2> QED
    BY <2>1, <2>2, <2>3 DEF IdsInv, TypeOK
<1>7. CASE UNCHANGED <<file_chunks, received, completed, announced>>
  <2>1. \A p \in PasteId, i \in Chunk : file_chunks[p][i] # None =>
          file_chunks[p][i] \in Push
    BY DEF TypeOK
  <2> QED
    BY <1>7, <2>1 DEF IdsInv, TypeOK
<1>8. \/ \E u \in Push : prepare_push(u)
      \/ \E h \in Handler : \/ save_file_chunk(h) \/ MarkReceived(h)
                            \/ RemoveSession(h) \/ Announce(h)
      \/ Restart
      \/ UNCHANGED <<file_chunks, received, completed, announced>>
  BY DEF Next, PushStep, PullTask, StoreCheck, Truncate, WriteChunk, StoreFails,
         CompleteCheck, BroadcastDone, PullStart, PullChunk, PullFails,
         PullStored, RecordPaste, Tick, vars
<1> QED
  BY <1>1, <1>2, <1>3, <1>4, <1>5, <1>6, <1>7, <1>8

-----------------------------------------------------------------------------
(* Sessions *)

\* A session is not replaced or removed while a chunk of it is being stored,
\* and no chunk is stored once the push is being passed on.
LEMMA SessionInvStep ==
  TypeOK /\ SessionInv /\ [Next]_vars => SessionInv'
<1> SUFFICES ASSUME TypeOK, SessionInv, [Next]_vars PROVE SessionInv'
  OBVIOUS
<1>a. /\ 0 \notin PasteId /\ None \notin Push /\ Push \subseteq File
      /\ Push \cap Pull = {} /\ Pull \subseteq File /\ None \notin File
  BY TransferAssumption DEF TransferAssumption, PasteId, File
<1>t. \A h \in Handler : pc[h] \in StoreStep \cup {"remove", "broadcast"} =>
        job[h] \in Push /\ id[job[h]] \in PasteId
  BY DEF TypeOK
<1> USE <1>a DEF memory, disk, locals, history
<1>1. ASSUME NEW u \in Push, prepare_push(u) PROVE SessionInv'
  <2>1. /\ id[u] = 0 /\ id' = [id EXCEPT ![u] = now] /\ ~Guarded(now)
        /\ push_sessions' = [push_sessions EXCEPT ![now] = u]
        /\ received' = [received EXCEPT ![u] = {}]
        /\ UNCHANGED <<pc, job>>
    BY <1>1 DEF prepare_push, AssignId
  <2>2. \A h \in Handler : pc[h] \in StoreStep \cup {"remove", "broadcast"} =>
          job[h] # u /\ id'[job[h]] = id[job[h]]
    BY <1>t, <2>1 DEF TypeOK
  <2>3. \A h \in Handler : pc[h] \in StoreStep => id[job[h]] # now
    BY <2>1 DEF Guarded
  <2> QED
    BY <1>t, <2>1, <2>2, <2>3 DEF SessionInv, TypeOK
<1>2. ASSUME NEW h \in Handler, PushStep(h) PROVE SessionInv'
  <2>1. ASSUME NEW u \in Push, NEW i \in Chunk, StoreCheck(h, u, i)
        PROVE  SessionInv'
    BY <2>1 DEF StoreCheck, Start, SessionInv, TypeOK, StoreStep
  <2>2. CASE Truncate(h) \/ WriteChunk(h) \/ save_file_chunk(h)
    <3>1. /\ pc[h] \in StoreStep
          /\ \E to \in StoreStep : pc' = [pc EXCEPT ![h] = to]
          /\ UNCHANGED <<id, job, received, push_sessions>>
      BY <2>2 DEF Truncate, WriteChunk, save_file_chunk, Goto, StoreStep
    <3> QED
      BY <3>1 DEF SessionInv, TypeOK, StoreStep
  <2>3. CASE MarkReceived(h)
    <3>1. /\ pc' = [pc EXCEPT ![h] = "idle"] /\ job' = [job EXCEPT ![h] = None]
          /\ received' = [received EXCEPT ![job[h]] = @ \cup {chunk[h]}]
          /\ chunk[h] \in Chunk /\ job[h] \in Push
          /\ UNCHANGED <<id, push_sessions>>
      BY <2>3 DEF MarkReceived, Finish, TypeOK, StoreStep
    <3> QED
      BY <3>1 DEF SessionInv, TypeOK, StoreStep
  <2>4. CASE StoreFails(h) \/ BroadcastDone(h)
    <3>1. /\ pc' = [pc EXCEPT ![h] = "idle"] /\ job' = [job EXCEPT ![h] = None]
          /\ UNCHANGED <<id, push_sessions, received>>
      BY <2>4 DEF StoreFails, BroadcastDone, Finish
    <3> QED
      BY <3>1 DEF SessionInv, TypeOK, StoreStep
  <2>5. ASSUME NEW u \in Push, CompleteCheck(h, u) PROVE SessionInv'
    BY <2>5 DEF CompleteCheck, Start, SessionInv, TypeOK, StoreStep
  <2>6. CASE RemoveSession(h)
    <3>1. /\ pc[h] = "remove" /\ pc' = [pc EXCEPT ![h] = "broadcast"]
          /\ ~Guarded(id[job[h]])
          /\ push_sessions' = [push_sessions EXCEPT ![id[job[h]]] = None]
          /\ UNCHANGED <<id, job, received>>
      BY <2>6 DEF RemoveSession, Goto
    <3>2. \A g \in Handler : pc[g] \in StoreStep => id[job[g]] # id[job[h]]
      BY <3>1 DEF Guarded
    <3> QED
      BY <1>t, <3>1, <3>2 DEF SessionInv, TypeOK, StoreStep
  <2> QED
    BY <1>2, <2>1, <2>2, <2>3, <2>4, <2>5, <2>6 DEF PushStep
<1>3. ASSUME NEW h \in Handler, PullTask(h) PROVE SessionInv'
  <2>1. ASSUME NEW g \in Pull, PullStart(h, g) PROVE SessionInv'
    <3>1. /\ pc' = [pc EXCEPT ![h] = "pull"] /\ job' = [job EXCEPT ![h] = g]
          /\ id' = [id EXCEPT ![g] = now]
          /\ UNCHANGED <<push_sessions, received>>
      BY <2>1 DEF PullStart, AssignId, Start
    <3>2. \A u \in Push : id'[u] = id[u]
      BY <3>1 DEF TypeOK
    <3> QED
      BY <1>t, <3>1, <3>2 DEF SessionInv, TypeOK, StoreStep
  <2>2. CASE \/ \E i \in Chunk : PullChunk(h, i)
             \/ PullStored(h) \/ RecordPaste(h)
    <3>1. /\ \E to \in PullStep : pc' = [pc EXCEPT ![h] = to]
          /\ UNCHANGED <<id, job, received, push_sessions>>
      BY <2>2 DEF PullChunk, PullStored, RecordPaste, Goto, PullStep
    <3> QED
      BY <3>1 DEF SessionInv, TypeOK, StoreStep, PullStep
  <2>3. CASE PullFails(h) \/ Announce(h)
    <3>1. /\ pc' = [pc EXCEPT ![h] = "idle"] /\ job' = [job EXCEPT ![h] = None]
          /\ UNCHANGED <<id, push_sessions, received>>
      BY <2>3 DEF PullFails, Announce, Finish
    <3> QED
      BY <3>1 DEF SessionInv, TypeOK, StoreStep
  <2> QED
    BY <1>3, <2>1, <2>2, <2>3 DEF PullTask
<1>4. CASE Restart
  BY <1>4 DEF Restart, SessionInv, StoreStep
<1>5. CASE Tick \/ UNCHANGED vars
  BY <1>5 DEF Tick, vars, SessionInv
<1> QED
  BY <1>1, <1>2, <1>3, <1>4, <1>5 DEF Next

-----------------------------------------------------------------------------
(* Files and rows of pushes *)

\* A handler that neither was nor is in the middle of storing a chunk is not
\* seen by those who look for one.
LEMMA QuietHandler ==
  ASSUME NEW h \in Handler, NEW u, NEW i, TypeOK,
         NEW S \in SUBSET {"write", "save", "mark"},
         pc[h] \notin {"write", "save", "mark"},
         NEW to, NEW f, NEW j, to \notin {"write", "save", "mark"},
         pc' = [pc EXCEPT ![h] = to],
         job' = [job EXCEPT ![h] = f],
         chunk' = [chunk EXCEPT ![h] = j]
  PROVE  At(u, i, S)' <=> At(u, i, S)
  BY DEF At, TypeOK

\* The steps that take part in storing chunks; in all others the handlers
\* that store one, what they marked, and what they wrote are left alone.
LEMMA StoreOrQuiet ==
  ASSUME TypeOK, [Next]_vars
  PROVE  \/ \E u \in Push : prepare_push(u)
         \/ \E h \in Handler : \/ Truncate(h) \/ WriteChunk(h)
                               \/ save_file_chunk(h) \/ MarkReceived(h)
                               \/ StoreFails(h) \/ RemoveSession(h)
         \/ Restart
         \/ /\ UNCHANGED <<received, directory, file_chunks, damaged, completed>>
            /\ \A u \in Push, i \in Chunk, S \in SUBSET {"write", "save", "mark"} :
                 At(u, i, S)' <=> At(u, i, S)
<1> DEFINE Goal == /\ UNCHANGED <<received, directory, file_chunks, damaged, completed>>
                   /\ \A u \in Push, i \in Chunk,
                         S \in SUBSET {"write", "save", "mark"} :
                        At(u, i, S)' <=> At(u, i, S)
<1> USE DEF memory, disk, locals, history
<1>1. ASSUME NEW h \in Handler,
             \/ \E u \in Push, i \in Chunk : StoreCheck(h, u, i)
             \/ \E u \in Push : CompleteCheck(h, u)
             \/ \E g \in Pull : PullStart(h, g)
      PROVE  Goal
  <2>1. /\ UNCHANGED <<received, directory, file_chunks, damaged, completed>>
        /\ pc[h] = "idle"
        /\ \E to \in {"truncate", "remove", "pull"} : pc' = [pc EXCEPT ![h] = to]
        /\ \E f : job' = [job EXCEPT ![h] = f]
        /\ \E j : chunk' = [chunk EXCEPT ![h] = j]
    BY <1>1 DEF StoreCheck, CompleteCheck, PullStart, Start
  <2>2. PICK to \in {"truncate", "remove", "pull"} : pc' = [pc EXCEPT ![h] = to]
    BY <2>1
  <2>3. PICK f : job' = [job EXCEPT ![h] = f]
    BY <2>1
  <2>4. PICK j : chunk' = [chunk EXCEPT ![h] = j]
    BY <2>1
  <2> QED
    BY <2>1, <2>2, <2>3, <2>4, QuietHandler
<1>2. ASSUME NEW h \in Handler,
             \/ \E i \in Chunk : PullChunk(h, i)
             \/ PullStored(h) \/ RecordPaste(h)
      PROVE  Goal
  <2>1. /\ UNCHANGED <<received, directory, file_chunks, damaged, completed>>
        /\ pc[h] \in {"pull", "store", "record"}
        /\ \E to \in PullStep : pc' = [pc EXCEPT ![h] = to]
        /\ UNCHANGED <<job, chunk>>
    BY <1>2 DEF PullChunk, PullStored, RecordPaste, Goto, PullStep
  <2>2. PICK to \in PullStep : pc' = [pc EXCEPT ![h] = to]
    BY <2>1
  <2>3. job' = [job EXCEPT ![h] = job[h]] /\ chunk' = [chunk EXCEPT ![h] = chunk[h]]
    BY <2>1 DEF TypeOK
  <2>4. /\ to \notin {"write", "save", "mark"}
        /\ pc[h] \notin {"write", "save", "mark"}
    BY <2>1 DEF PullStep
  <2> QED
    BY <2>1, <2>2, <2>3, <2>4, QuietHandler
<1>3. ASSUME NEW h \in Handler, PullFails(h) \/ Announce(h) \/ BroadcastDone(h)
      PROVE  Goal
  <2>1. /\ UNCHANGED <<received, directory, file_chunks, damaged, completed>>
        /\ pc[h] \in {"pull", "record", "announce", "broadcast"}
        /\ pc' = [pc EXCEPT ![h] = "idle"]
        /\ job' = [job EXCEPT ![h] = None]
        /\ chunk' = [chunk EXCEPT ![h] = None]
    BY <1>3 DEF PullFails, Announce, BroadcastDone, Finish
  <2> QED
    BY <2>1, QuietHandler
<1>4. ASSUME Tick \/ UNCHANGED vars PROVE Goal
  BY <1>4 DEF Tick, vars, At
<1> DEFINE Storing(h) == \/ Truncate(h) \/ WriteChunk(h)
                         \/ save_file_chunk(h) \/ MarkReceived(h)
                         \/ StoreFails(h) \/ RemoveSession(h)
<1> HIDE DEF Goal
<1>5. ASSUME NEW h \in Handler, PushStep(h) PROVE Storing(h) \/ Goal
  BY <1>1, <1>3, <1>5 DEF PushStep
<1>6. ASSUME NEW h \in Handler, PullTask(h) PROVE Goal
  BY <1>1, <1>2, <1>3, <1>6 DEF PullTask
<1> HIDE DEF Storing
<1>7. \/ \E u \in Push : prepare_push(u)
      \/ \E h \in Handler : Storing(h)
      \/ Restart
      \/ Goal
  BY <1>4, <1>5, <1>6 DEF Next
<1> QED
  BY <1>7 DEF Goal, Storing

\* A handler in the middle of storing chunk i of push u has its id.
LEMMA StoringHasId ==
  ASSUME TypeOK, NEW u, NEW i, At(u, i, StoreStep)
  PROVE  u \in Push /\ i \in Chunk /\ id[u] \in PasteId
  BY DEF At, TypeOK, StoreStep

\* Retries of a chunk come and go: what was stored is in its file, or is
\* known to be damaged, or is being written again.
LEMMA FilesInvStep ==
  TypeOK /\ IdsInv /\ FilesInv /\ [Next]_vars => FilesInv'
<1> DEFINE Stored(u, i) == i \in received[u] \/ At(u, i, {"save", "mark"})
           Whole(u, i) == \/ directory[id[u]][i] = u
                          \/ <<u, i>> \in damaged
                          \/ At(u, i, {"write"})
<1> SUFFICES ASSUME TypeOK, IdsInv, FilesInv, [Next]_vars,
                    NEW u \in Push, NEW i \in Chunk,
                    ~Shared(u)', Stored(u, i)'
             PROVE  Whole(u, i)'
  BY DEF FilesInv
<1>a. 0 \notin PasteId /\ Push \subseteq File /\ u \in File
  BY TransferAssumption DEF TransferAssumption, PasteId, File
<1>b. ASSUME id[u] # 0
      PROVE  id'[u] = id[u] /\ id[u] \in PasteId /\ ~Shared(u)
  BY <1>a, <1>b, IdsKept DEF TypeOK
<1>c. ASSUME Stored(u, i)
      PROVE  id[u] # 0 /\ id'[u] = id[u] /\ id[u] \in PasteId /\ ~Shared(u) /\ Whole(u, i)
  <2>1. CASE i \in received[u]
    BY <1>b, <2>1 DEF IdsInv, FilesInv
  <2>2. CASE At(u, i, {"save", "mark"})
    <3>1. id[u] # 0
      BY <1>a, <2>2, StoringHasId DEF At, StoreStep
    <3> QED
      BY <1>b, <2>2, <3>1 DEF FilesInv
  <2> QED
    BY <1>c, <2>1, <2>2
<1>d. \A h \in Handler : pc[h] \in StoreStep =>
        /\ job[h] \in Push /\ job[h] \in File /\ id[job[h]] \in PasteId
        /\ id[job[h]] # 0 /\ chunk[h] \in Chunk
  BY <1>a DEF TypeOK
<1>e. ASSUME NEW h \in Handler, pc[h] \in StoreStep, id[u] # 0,
             id[job[h]] = id[u]
      PROVE  job[h] = u
  BY <1>a, <1>b, <1>d, <1>e, Alone
<1> USE DEF memory, disk, locals, history
<1>1. ASSUME NEW v \in Push, prepare_push(v) PROVE Whole(u, i)'
  <2>1. /\ id[v] = 0 /\ received' = [received EXCEPT ![v] = {}]
        /\ UNCHANGED <<directory, damaged, pc, job, chunk>>
    BY <1>1 DEF prepare_push, AssignId
  <2>2. Stored(u, i)
    BY <2>1 DEF TypeOK, At
  <2> QED
    BY <1>c, <2>1, <2>2 DEF At
<1>2. ASSUME NEW h \in Handler, Truncate(h) PROVE Whole(u, i)'
  <2>1. /\ pc[h] = "truncate" /\ pc' = [pc EXCEPT ![h] = "write"]
        /\ directory' = [directory EXCEPT ![id[job[h]]][chunk[h]] = Torn]
        /\ UNCHANGED <<id, received, damaged, job, chunk>>
    BY <1>2 DEF Truncate, Goto
  <2>2. Stored(u, i)
    BY <2>1 DEF TypeOK, At
  <2>3. CASE id[job[h]] = id[u] /\ chunk[h] = i
    <3>1. job[h] = u
      BY <1>c, <1>e, <2>1, <2>2, <2>3 DEF StoreStep
    <3> QED
      BY <2>1, <2>3, <3>1 DEF At, TypeOK
  <2>4. CASE ~(id[job[h]] = id[u] /\ chunk[h] = i)
    <3>1. directory'[id[u]][i] = directory[id[u]][i]
      BY <1>c, <1>d, <2>1, <2>2, <2>4 DEF TypeOK, StoreStep
    <3>2. At(u, i, {"write"}) => At(u, i, {"write"})'
      BY <2>1 DEF At, TypeOK
    <3> QED
      BY <1>c, <2>1, <2>2, <3>1, <3>2
  <2> QED
    BY <2>3, <2>4
<1>3. ASSUME NEW h \in Handler, WriteChunk(h) PROVE Whole(u, i)'
  <2>1. /\ pc[h] = "write" /\ pc' = [pc EXCEPT ![h] = "save"]
        /\ directory' = [directory EXCEPT ![id[job[h]]][chunk[h]] = job[h]]
        /\ damaged' = damaged \ {<<job[h], chunk[h]>>}
        /\ UNCHANGED <<id, received, job, chunk>>
    BY <1>3 DEF WriteChunk, Goto
  <2>2. CASE job[h] = u /\ chunk[h] = i
    BY <1>d, <2>1, <2>2 DEF TypeOK, StoreStep
  <2>3. CASE ~(job[h] = u /\ chunk[h] = i)
    <3>1. Stored(u, i)
      BY <2>1, <2>3 DEF At, TypeOK
    <3>2. ~(id[job[h]] = id[u] /\ chunk[h] = i)
      BY <1>c, <1>e, <2>1, <2>3, <3>1 DEF StoreStep
    <3>3. directory'[id[u]][i] = directory[id[u]][i]
      BY <1>c, <1>d, <2>1, <3>1, <3>2 DEF TypeOK, StoreStep
    <3>4. At(u, i, {"write"}) => At(u, i, {"write"})'
      BY <2>1, <2>3 DEF At, TypeOK
    <3> QED
      BY <1>c, <2>1, <2>3, <3>1, <3>3, <3>4
  <2> QED
    BY <2>2, <2>3
<1>4. ASSUME NEW h \in Handler, save_file_chunk(h) PROVE Whole(u, i)'
  <2>1. /\ pc[h] = "save" /\ pc' = [pc EXCEPT ![h] = "mark"]
        /\ UNCHANGED <<id, received, directory, damaged, job, chunk>>
    BY <1>4 DEF save_file_chunk, Goto
  <2>2. Stored(u, i) /\ (At(u, i, {"write"}) => At(u, i, {"write"})')
    BY <2>1 DEF At, TypeOK
  <2> QED
    BY <1>c, <2>1, <2>2
<1>5. ASSUME NEW h \in Handler, MarkReceived(h) PROVE Whole(u, i)'
  <2>1. /\ pc[h] = "mark" /\ pc' = [pc EXCEPT ![h] = "idle"]
        /\ job' = [job EXCEPT ![h] = None]
        /\ chunk' = [chunk EXCEPT ![h] = None]
        /\ received' = [received EXCEPT ![job[h]] = @ \cup {chunk[h]}]
        /\ UNCHANGED <<id, directory, damaged>>
    BY <1>5 DEF MarkReceived, Finish
  <2>2. Stored(u, i)
    <3>1. At(u, i, {"save", "mark"})' => At(u, i, {"save", "mark"})
      BY <2>1 DEF At, TypeOK
    <3>2. i \in received'[u] => i \in received[u] \/ (job[h] = u /\ chunk[h] = i)
      BY <2>1 DEF TypeOK
    <3> QED
      BY <2>1, <3>1, <3>2 DEF At
  <2>3. At(u, i, {"write"}) => At(u, i, {"write"})'
    BY <2>1 DEF At, TypeOK
  <2> QED
    BY <1>c, <2>1, <2>2, <2>3
<1>6. ASSUME NEW h \in Handler, StoreFails(h) PROVE Whole(u, i)'
  <2>1. /\ pc' = [pc EXCEPT ![h] = "idle"]
        /\ job' = [job EXCEPT ![h] = None]
        /\ chunk' = [chunk EXCEPT ![h] = None]
        /\ damaged' = IF pc[h] = "write" THEN damaged \cup {<<job[h], chunk[h]>>}
                      ELSE damaged
        /\ UNCHANGED <<id, received, directory>>
    BY <1>6 DEF StoreFails, Finish
  <2>2. Stored(u, i)
    BY <2>1 DEF At, TypeOK
  <2>3. CASE pc[h] = "write" /\ job[h] = u /\ chunk[h] = i
    BY <2>1, <2>3
  <2>4. CASE ~(pc[h] = "write" /\ job[h] = u /\ chunk[h] = i)
    <3>1. At(u, i, {"write"}) => At(u, i, {"write"})'
      BY <2>1, <2>4 DEF At, TypeOK
    <3> QED
      BY <1>c, <2>1, <2>2, <3>1
  <2> QED
    BY <2>3, <2>4
<1>7. ASSUME NEW h \in Handler, RemoveSession(h) PROVE Whole(u, i)'
  <2>1. /\ pc[h] = "remove" /\ pc' = [pc EXCEPT ![h] = "broadcast"]
        /\ UNCHANGED <<id, received, directory, damaged, job, chunk>>
    BY <1>7 DEF RemoveSession, Goto
  <2>2. Stored(u, i) /\ (At(u, i, {"write"}) => At(u, i, {"write"})')
    BY <2>1 DEF At, TypeOK
  <2> QED
    BY <1>c, <2>1, <2>2
<1>8. CASE Restart
  BY <1>8 DEF Restart, At
<1>9. CASE /\ UNCHANGED <<received, directory, file_chunks, damaged, completed>>
           /\ \A v \in Push, j \in Chunk, S \in SUBSET {"write", "save", "mark"} :
                At(v, j, S)' <=> At(v, j, S)
  <2>1. /\ At(u, i, {"save", "mark"})' <=> At(u, i, {"save", "mark"})
        /\ At(u, i, {"write"})' <=> At(u, i, {"write"})
    BY <1>9
  <2> QED
    BY <1>c, <1>9, <2>1
<1> HIDE DEF Whole
<1> QED
  BY <1>1, <1>2, <1>3, <1>4, <1>5, <1>6, <1>7, <1>8, <1>9, StoreOrQuiet

\* A row, once written, is only written again with the same content; the
\* chunks of a complete push all have theirs.
LEMMA RowsInvStep ==
  TypeOK /\ IdsInv /\ SessionInv /\ RowsInv /\ [Next]_vars => RowsInv'
<1> DEFINE Saved(u, i) == i \in received[u] \/ At(u, i, {"mark"}) \/ u \in completed
           Row(u, i) == file_chunks[id[u]][i] = u
<1> SUFFICES ASSUME TypeOK, IdsInv, SessionInv, RowsInv, [Next]_vars,
                    NEW u \in Push, NEW i \in Chunk,
                    ~Shared(u)', Saved(u, i)'
             PROVE  Row(u, i)'
  BY DEF RowsInv
<1>a. 0 \notin PasteId /\ Push \subseteq File /\ u \in File
  BY TransferAssumption DEF TransferAssumption, PasteId, File
<1>b. ASSUME id[u] # 0
      PROVE  id'[u] = id[u] /\ id[u] \in PasteId /\ ~Shared(u)
  BY <1>a, <1>b, IdsKept DEF TypeOK
<1>c. ASSUME Saved(u, i)
      PROVE  id[u] # 0 /\ id'[u] = id[u] /\ id[u] \in PasteId /\ ~Shared(u) /\ Row(u, i)
  <2>1. CASE i \in received[u] \/ u \in completed
    BY <1>b, <2>1 DEF IdsInv, RowsInv
  <2>2. CASE At(u, i, {"mark"})
    <3>1. id[u] # 0
      BY <1>a, <2>2, StoringHasId DEF At, StoreStep
    <3> QED
      BY <1>b, <2>2, <3>1 DEF RowsInv
  <2> QED
    BY <1>c, <2>1, <2>2
<1> USE DEF memory, disk, locals, history
<1>1. ASSUME NEW v \in Push, prepare_push(v) PROVE Row(u, i)'
  <2>1. /\ id[v] = 0 /\ received' = [received EXCEPT ![v] = {}]
        /\ UNCHANGED <<file_chunks, completed, pc, job, chunk>>
    BY <1>1 DEF prepare_push, AssignId
  <2>2. Saved(u, i)
    BY <2>1 DEF TypeOK, At
  <2> QED
    BY <1>c, <2>1, <2>2
<1>2. ASSUME NEW h \in Handler, save_file_chunk(h) PROVE Row(u, i)'
  <2>1. /\ pc[h] = "save" /\ pc' = [pc EXCEPT ![h] = "mark"]
        /\ file_chunks' = [file_chunks EXCEPT ![id[job[h]]][chunk[h]] = job[h]]
        /\ UNCHANGED <<id, received, completed, job, chunk>>
    BY <1>2 DEF save_file_chunk, Goto
  <2>2. /\ job[h] \in Push /\ job[h] \in File /\ id[job[h]] \in PasteId
        /\ chunk[h] \in Chunk
    BY <1>a, <2>1 DEF TypeOK, StoreStep
  <2>3. CASE job[h] = u /\ chunk[h] = i
    BY <2>1, <2>2, <2>3 DEF TypeOK
  <2>4. CASE ~(job[h] = u /\ chunk[h] = i)
    <3>1. Saved(u, i)
      BY <2>1, <2>4 DEF At, TypeOK
    <3>2. ~(id[job[h]] = id[u] /\ chunk[h] = i)
      BY <1>a, <1>c, <2>2, <2>4, <3>1, Alone
    <3>3. file_chunks'[id[u]][i] = file_chunks[id[u]][i]
      BY <1>c, <2>1, <2>2, <3>1, <3>2 DEF TypeOK
    <3> QED
      BY <1>c, <2>1, <3>1, <3>3
  <2> QED
    BY <2>3, <2>4
<1>3. ASSUME NEW h \in Handler, MarkReceived(h) PROVE Row(u, i)'
  <2>1. /\ pc[h] = "mark" /\ pc' = [pc EXCEPT ![h] = "idle"]
        /\ job' = [job EXCEPT ![h] = None]
        /\ chunk' = [chunk EXCEPT ![h] = None]
        /\ received' = [received EXCEPT ![job[h]] = @ \cup {chunk[h]}]
        /\ UNCHANGED <<id, file_chunks, completed>>
    BY <1>3 DEF MarkReceived, Finish
  <2>2. At(u, i, {"mark"})' => At(u, i, {"mark"})
    BY <2>1 DEF At, TypeOK
  <2>3. i \in received'[u] => i \in received[u] \/ (job[h] = u /\ chunk[h] = i)
    BY <2>1 DEF TypeOK
  <2>4. Saved(u, i)
    BY <2>1, <2>2, <2>3 DEF At
  <2> QED
    BY <1>c, <2>1, <2>4
<1>4. ASSUME NEW h \in Handler, RemoveSession(h) PROVE Row(u, i)'
  <2>1. /\ pc[h] = "remove" /\ pc' = [pc EXCEPT ![h] = "broadcast"]
        /\ completed' = completed \cup {job[h]}
        /\ UNCHANGED <<id, received, file_chunks, job, chunk>>
    BY <1>4 DEF RemoveSession, Goto
  <2>2. At(u, i, {"mark"})' => At(u, i, {"mark"})
    BY <2>1 DEF At, TypeOK
  <2>3. job[h] = u => i \in received[u]
    BY <2>1 DEF SessionInv
  <2>4. Saved(u, i)
    BY <2>1, <2>2, <2>3
  <2> QED
    BY <1>c, <2>1, <2>4
<1>5. ASSUME NEW h \in Handler, Truncate(h) \/ WriteChunk(h) \/ StoreFails(h)
      PROVE  Row(u, i)'
  <2>1. /\ \E to \in {"idle", "write", "save"} : pc' = [pc EXCEPT ![h] = to]
        /\ \/ UNCHANGED <<job, chunk>>
           \/ /\ job' = [job EXCEPT ![h] = None]
              /\ chunk' = [chunk EXCEPT ![h] = None]
        /\ UNCHANGED <<id, received, file_chunks, completed>>
    BY <1>5 DEF Truncate, WriteChunk, StoreFails, Goto, Finish
  <2>2. At(u, i, {"mark"})' => At(u, i, {"mark"})
    BY <2>1 DEF At, TypeOK
  <2> QED
    BY <1>c, <2>1, <2>2
<1>6. CASE Restart
  <2>1. received'[u] = {} /\ ~At(u, i, {"mark"})' /\ UNCHANGED <<completed, file_chunks>>
    BY <1>6 DEF Restart, At
  <2> QED
    BY <1>c, <2>1
<1>7. CASE /\ UNCHANGED <<received, directory, file_chunks, damaged, completed>>
           /\ \A v \in Push, j \in Chunk, S \in SUBSET {"write", "save", "mark"} :
                At(v, j, S)' <=> At(v, j, S)
  <2>1. At(u, i, {"mark"})' <=> At(u, i, {"mark"})
    BY <1>7
  <2> QED
    BY <1>c, <1>7, <2>1
<1> HIDE DEF Row
<1> QED
  BY <1>1, <1>2, <1>3, <1>4, <1>5, <1>6, <1>7, StoreOrQuiet

-----------------------------------------------------------------------------
(* Pulled files *)

\* What a pulling task has done is not undone by others, short of a restart:
\* a file that has its id for itself has its directory, its entry and its
\* record for itself.
LEMMA PulledKept ==
  ASSUME TypeOK, [Next]_vars, ~Restart, NEW g \in Pull, id[g] # 0, ~Shared(g)'
  PROVE  /\ id'[g] = id[g] /\ ~Shared(g)
         /\ Fetched(g) => Fetched(g)'
         /\ stored_files[id[g]] = g => stored_files'[id'[g]] = g
         /\ id[g] \in paste_records => id'[g] \in paste_records'
<1>a. g \in File /\ Push \subseteq File /\ Pull \subseteq File /\ id[g] \in PasteId
  BY DEF File, TypeOK
<1>b. id'[g] = id[g] /\ ~Shared(g)
  BY <1>a, IdsKept
<1> USE DEF memory, disk, locals, history
<1>1. Fetched(g) => Fetched(g)'
  <2>1. ASSUME NEW h \in Handler, NEW i \in Chunk, PullChunk(h, i)
        PROVE  Fetched(g) => Fetched(g)'
    <3>1. /\ job[h] \in Pull /\ id[job[h]] \in PasteId
          /\ pulled' = [pulled EXCEPT ![id[job[h]]][i] = job[h]]
      BY <2>1 DEF PullChunk, TypeOK, PullStep
    <3>2. id[job[h]] = id[g] => job[h] = g
      BY <1>a, <1>b, <3>1, Alone
    <3> QED
      BY <1>a, <1>b, <3>1, <3>2 DEF Fetched, TypeOK
  <2>2. \/ \E h \in Handler, i \in Chunk : PullChunk(h, i)
        \/ UNCHANGED pulled
    BY DEF Next, PushStep, PullTask, prepare_push, StoreCheck, Truncate, WriteChunk,
           save_file_chunk, MarkReceived, StoreFails, CompleteCheck, RemoveSession,
           BroadcastDone, PullStart, PullFails, PullStored, RecordPaste,
           Announce, Tick, vars
  <2> QED
    BY <1>b, <2>1, <2>2 DEF Fetched
<1>2. stored_files[id[g]] = g => stored_files'[id'[g]] = g
  <2>1. ASSUME NEW h \in Handler, BroadcastDone(h) \/ PullStored(h)
        PROVE  stored_files[id[g]] = g => stored_files'[id'[g]] = g
    <3>1. /\ job[h] \in File /\ id[job[h]] \in PasteId
          /\ stored_files' = [stored_files EXCEPT ![id[job[h]]] = job[h]]
      BY <1>a, <2>1 DEF BroadcastDone, PullStored, Finish, Goto, TypeOK, PullStep
    <3>2. id[job[h]] = id[g] => job[h] = g
      BY <1>a, <1>b, <3>1, Alone
    <3> QED
      BY <1>a, <1>b, <3>1, <3>2 DEF TypeOK
  <2>2. \/ \E h \in Handler : BroadcastDone(h) \/ PullStored(h)
        \/ UNCHANGED stored_files
    BY DEF Next, PushStep, PullTask, prepare_push, StoreCheck, Truncate, WriteChunk,
           save_file_chunk, MarkReceived, StoreFails, CompleteCheck, RemoveSession,
           PullStart, PullChunk, PullFails, RecordPaste, Announce, Tick, vars
  <2> QED
    BY <1>b, <2>1, <2>2
<1>3. id[g] \in paste_records => id'[g] \in paste_records'
  <2>1. paste_records \subseteq paste_records'
    BY DEF Next, PushStep, PullTask, prepare_push, StoreCheck, Truncate, WriteChunk,
           save_file_chunk, MarkReceived, StoreFails, CompleteCheck, RemoveSession,
           BroadcastDone, PullStart, PullChunk, PullFails, PullStored, RecordPaste,
           Announce, Tick, vars
  <2> QED
    BY <1>b, <2>1
<1> QED
  BY <1>b, <1>1, <1>2, <1>3

\* How a pulling task comes to its later steps.
LEMMA PullArrives ==
  ASSUME TypeOK, [Next]_vars, ~Restart, NEW k \in Handler,
         pc'[k] \in {"store", "record", "announce"}
  PROVE  \/ pc'[k] = pc[k] /\ job'[k] = job[k]
         \/ \E i \in Chunk : PullChunk(k, i)
         \/ PullStored(k)
         \/ RecordPaste(k)
<1> DEFINE Stays == pc'[k] = pc[k] /\ job'[k] = job[k]
<1> USE DEF memory, disk, locals, history
<1>1. ASSUME NEW h \in Handler, PushStep(h) PROVE Stays
  <2>1. /\ \E to \in {"idle", "truncate", "write", "save", "mark", "remove",
                      "broadcast"} : pc' = [pc EXCEPT ![h] = to]
        /\ (\E f : job' = [job EXCEPT ![h] = f]) \/ UNCHANGED job
    BY <1>1 DEF PushStep, StoreCheck, Truncate, WriteChunk, save_file_chunk,
                MarkReceived, StoreFails, CompleteCheck, RemoveSession,
                BroadcastDone, Start, Goto, Finish
  <2> QED
    BY <2>1 DEF TypeOK
<1>2. ASSUME NEW h \in Handler, PullTask(h), h # k PROVE Stays
  <2>1. /\ \E to : pc' = [pc EXCEPT ![h] = to]
        /\ (\E f : job' = [job EXCEPT ![h] = f]) \/ UNCHANGED job
    BY <1>2 DEF PullTask, PullStart, PullChunk, PullFails, PullStored, RecordPaste,
                Announce, Start, Goto, Finish
  <2> QED
    BY <1>2, <2>1 DEF TypeOK
<1>3. ASSUME (\E g \in Pull : PullStart(k, g)) \/ PullFails(k) \/ Announce(k)
      PROVE  FALSE
  <2>1. \E to \in {"pull", "idle"} : pc' = [pc EXCEPT ![k] = to]
    BY <1>3 DEF PullStart, PullFails, Announce, Start, Finish
  <2> QED
    BY <2>1 DEF TypeOK
<1>4. ASSUME \/ \E u \in Push : prepare_push(u)
             \/ Tick
             \/ UNCHANGED vars
      PROVE  Stays
  BY <1>4 DEF prepare_push, Tick, vars
<1> HIDE DEF Stays
<1>5. \/ Stays
      \/ \E i \in Chunk : PullChunk(k, i)
      \/ PullStored(k)
      \/ RecordPaste(k)
  <2>1. ASSUME NEW h \in Handler, PullTask(h)
        PROVE  \/ Stays
               \/ \E i \in Chunk : PullChunk(k, i)
               \/ PullStored(k)
               \/ RecordPaste(k)
    BY <1>2, <1>3, <2>1 DEF PullTask
  <2> QED
    BY <1>1, <1>4, <2>1 DEF Next
<1> QED
  BY <1>5 DEF Stays

\* A pulling task fetches, stores, records and announces, in this order.
LEMMA PullInvStep ==
  TypeOK /\ IdsInv /\ PullInv /\ [Next]_vars => PullInv'
<1> SUFFICES ASSUME TypeOK, IdsInv, PullInv, [Next]_vars PROVE PullInv'
  OBVIOUS
<1>a. 0 \notin PasteId /\ Pull \subseteq File /\ Push \subseteq File
  BY TransferAssumption DEF TransferAssumption, PasteId, File
<1>t. \A h \in Handler : pc[h] \in PullStep =>
        job[h] \in Pull /\ id[job[h]] \in PasteId /\ id[job[h]] # 0
  BY <1>a DEF TypeOK
<1>u. TypeOK'
  BY TypeStep
<1> DEFINE Late == {"store", "record", "announce"}
           Done(step, g) ==
             /\ step \in {"store", "record"} => Fetched(g)
             /\ step = "record" => stored_files[id[g]] = g
             /\ step = "announce" => Recorded(g)
<1> USE DEF memory, disk, locals, history
<1>1. CASE Restart
  BY <1>1 DEF Restart, PullInv
<1>2. CASE ~Restart
  <2>1. ASSUME NEW g \in Pull, id[g] # 0, ~Shared(g)'
        PROVE  /\ id'[g] = id[g] /\ id[g] \in PasteId /\ ~Shared(g)
               /\ Fetched(g) => Fetched(g)'
               /\ stored_files[id[g]] = g => stored_files'[id'[g]] = g
               /\ id[g] \in paste_records => id'[g] \in paste_records'
               /\ Recorded(g) => Recorded(g)'
    <3>1. id[g] \in PasteId
      BY <1>a, <2>1 DEF TypeOK
    <3> QED
      BY <1>2, <2>1, <3>1, PulledKept DEF Recorded
  <2>2. ASSUME NEW k \in Handler, NEW g \in Pull, pc'[k] \in Late, job'[k] = g,
               ~Shared(g)'
        PROVE  Done(pc[k], g)'
    <3>1. CASE pc'[k] = pc[k] /\ job'[k] = job[k]
      <4>1. id[g] # 0
        BY <1>t, <2>2, <3>1 DEF PullStep
      <4>2. Done(pc[k], g)
        BY <2>1, <2>2, <3>1, <4>1 DEF PullInv
      <4> QED
        BY <2>1, <2>2, <3>1, <4>1, <4>2
    <3>2. ASSUME NEW i \in Chunk, PullChunk(k, i) PROVE Done(pc[k], g)'
      <4>1. /\ pc[k] = "pull" /\ job' = job /\ id' = id
            /\ pulled' = [pulled EXCEPT ![id[job[k]]][i] = job[k]]
            /\ pc' = [pc EXCEPT ![k] =
                        IF \A j \in Chunk \ {i} : pulled[id[job[k]]][j] = job[k]
                        THEN "store" ELSE "pull"]
        BY <3>2 DEF PullChunk, Goto
      <4>2. id[g] \in PasteId /\ job[k] = g
        BY <1>t, <2>2, <4>1 DEF PullStep
      <4>3. /\ pc'[k] = "store"
            /\ \A j \in Chunk \ {i} : pulled[id[job[k]]][j] = job[k]
        BY <2>2, <4>1 DEF TypeOK
      <4>4. Fetched(g)'
        BY <4>1, <4>2, <4>3 DEF Fetched, TypeOK
      <4> QED
        BY <4>3, <4>4
    <3>3. CASE PullStored(k)
      <4>1. /\ pc[k] = "store" /\ pc' = [pc EXCEPT ![k] = "record"]
            /\ stored_files' = [stored_files EXCEPT ![id[job[k]]] = job[k]]
            /\ UNCHANGED <<id, job, pulled>>
        BY <3>3 DEF PullStored, Goto
      <4>2. id[g] \in PasteId /\ id[g] # 0 /\ job[k] = g
        BY <1>t, <2>2, <4>1 DEF PullStep
      <4>3. Fetched(g)'
        BY <2>1, <2>2, <4>1, <4>2 DEF PullInv
      <4>4. pc'[k] = "record" /\ stored_files'[id'[g]] = g
        BY <4>1, <4>2 DEF TypeOK
      <4> QED
        BY <4>3, <4>4
    <3>4. CASE RecordPaste(k)
      <4>1. /\ pc[k] = "record" /\ pc' = [pc EXCEPT ![k] = "announce"]
            /\ paste_records' = paste_records \cup {id[job[k]]}
            /\ UNCHANGED <<id, job, pulled, stored_files>>
        BY <3>4 DEF RecordPaste, Goto
      <4>2. id[g] \in PasteId /\ id[g] # 0 /\ job[k] = g
        BY <1>t, <2>2, <4>1 DEF PullStep
      <4>3. Fetched(g) /\ stored_files[id[g]] = g
        BY <2>1, <2>2, <4>1, <4>2 DEF PullInv
      <4>4. Fetched(g)' /\ stored_files'[id'[g]] = g
        BY <2>1, <2>2, <4>2, <4>3
      <4>5. pc'[k] = "announce" /\ id'[g] \in paste_records'
        BY <4>1, <4>2 DEF TypeOK
      <4> QED
        BY <4>4, <4>5 DEF Recorded
    <3> QED
      BY <1>2, <2>2, <3>1, <3>2, <3>3, <3>4, PullArrives
  <2>3. ASSUME NEW g \in announced', ~Shared(g)' PROVE Recorded(g)'
    <3>1. ASSUME NEW h \in Handler, Announce(h), g \notin announced
          PROVE  Recorded(g)'
      <4>1. pc[h] = "announce" /\ announced' = announced \cup {job[h]}
        BY <3>1 DEF Announce, Finish
      <4>2. job[h] = g /\ g \in Pull /\ id[g] # 0
        BY <1>t, <2>3, <3>1, <4>1 DEF PullStep
      <4>3. Recorded(g)
        BY <2>1, <2>3, <4>1, <4>2 DEF PullInv
      <4> QED
        BY <2>1, <2>3, <4>2, <4>3
    <3>2. CASE g \in announced
      <4>1. g \in Pull /\ id[g] # 0
        BY <3>2 DEF IdsInv, TypeOK
      <4> QED
        BY <2>1, <2>3, <3>2, <4>1 DEF PullInv
    <3>3. announced' = announced \/ \E h \in Handler : Announce(h)
      BY <1>2 DEF Next, PushStep, PullTask, prepare_push, StoreCheck, Truncate,
           WriteChunk, save_file_chunk, MarkReceived, StoreFails, CompleteCheck,
           RemoveSession, BroadcastDone, PullStart, PullChunk, PullFails,
           PullStored, RecordPaste, Tick, vars
    <3> QED
      BY <2>3, <3>1, <3>2, <3>3
  <2>4. ASSUME NEW k \in Handler, pc'[k] \in Late, ~Shared(job[k])'
        PROVE  Done(pc[k], job[k])'
    <3>1. job'[k] \in Pull
      BY <1>u, <2>4 DEF TypeOK, PullStep
    <3>2. PICK g \in Pull : g = job'[k]
      BY <3>1
    <3>3. ~Shared(g)'
      BY <2>4, <3>2 DEF Shared
    <3>4. Done(pc[k], g)'
      BY <2>2, <2>4, <3>2, <3>3
    <3> QED
      BY <3>2, <3>4 DEF Fetched, Recorded
  <2> QED
    BY <2>3, <2>4 DEF PullInv
<1> QED
  BY <1>1, <1>2

-----------------------------------------------------------------------------
(* Theorems *)

\* Every step keeps the invariant.
LEMMA TransferInvStep == TransferInv /\ [Next]_vars => TransferInv'
  BY TypeStep, IdsInvStep, SessionInvStep, FilesInvStep, RowsInvStep, PullInvStep
     DEF TransferInv

\* The invariant holds in every reachable state.
LEMMA TransferInvHolds == Spec => []TransferInv
  BY TransferInvInit, TransferInvStep, PTL DEF Spec

\* Whatever the requests, failures and restarts, the state has its types:
\* in particular a session is found under the id of its own push.
THEOREM TransferTypesCorrect == Spec => []TypeOK
<1>1. TransferInv => TypeOK
  BY DEF TransferInv
<1> QED
  BY <1>1, TransferInvHolds, PTL

\* While a completed push is passed on, all its chunk files are whole: no
\* handler that stores a chunk of it is left, and the session that would let
\* one start is gone (complete_push, store_push_chunk, read_completed_push).
THEOREM BroadcastStaysComplete == Spec => []CompleteBeforeBroadcast
<1>1. TransferInv => CompleteBeforeBroadcast
  <2> SUFFICES ASSUME TransferInv, NEW h \in Handler, pc[h] = "broadcast",
                      ~Shared(job[h]), NEW i \in Chunk,
                      <<job[h], i>> \notin damaged
               PROVE  directory[id[job[h]]][i] = job[h]
    BY DEF CompleteBeforeBroadcast
  <2>1. job[h] \in Push /\ i \in received[job[h]]
    BY DEF TransferInv, TypeOK, SessionInv
  <2>2. ~At(job[h], i, {"write"})
    BY DEF TransferInv, SessionInv, At, StoreStep
  <2> QED
    BY <2>1, <2>2 DEF TransferInv, FilesInv
<1> QED
  BY <1>1, TransferInvHolds, PTL

\* A push that was answered as complete is read back chunk by chunk from its
\* rows, whatever happens to its chunk files and across restarts
\* (save_file_chunk, read_file_chunk).
THEOREM CompletedStaysDurable == Spec => []CompletedIsDurable
<1>1. TransferInv => CompletedIsDurable
  <2> SUFFICES ASSUME TransferInv, NEW u \in completed, ~Shared(u), NEW i \in Chunk
               PROVE  read_file_chunk(id[u], i) = u
    BY DEF CompletedIsDurable
  <2>1. u \in Push /\ u # None
    BY TransferAssumption DEF TransferAssumption, TransferInv, TypeOK, File
  <2>2. file_chunks[id[u]][i] = u
    BY <2>1 DEF TransferInv, RowsInv
  <2> QED
    BY <2>1, <2>2 DEF read_file_chunk
<1> QED
  BY <1>1, TransferInvHolds, PTL

\* A pulled file that others have been told of is recorded and leads them to
\* its own chunks: no row of a push stands in the way
\* (cache_pull_file_from_client, sync_paste, read_file_chunk).
THEOREM AnnouncedStaysReadable == Spec => []AnnouncedIsReadable
<1>1. TransferInv => AnnouncedIsReadable
  <2> SUFFICES ASSUME TransferInv, NEW g \in announced, ~Shared(g)
               PROVE  /\ id[g] \in paste_records
                      /\ \A i \in Chunk : read_file_chunk(id[g], i) = g
    BY DEF AnnouncedIsReadable
  <2>1. g \in Pull /\ id[g] # 0
    BY DEF TransferInv, TypeOK, IdsInv
  <2>2. g \in File /\ id[g] \in PasteId /\ g \notin Push
    BY <2>1, TransferAssumption
       DEF TransferAssumption, TransferInv, TypeOK, File
  <2>3. Recorded(g)
    BY DEF TransferInv, PullInv
  <2>4. ASSUME NEW i \in Chunk PROVE file_chunks[id[g]][i] = None
    <3>1. file_chunks[id[g]][i] \in Push \cup {None}
      BY <2>2 DEF TransferInv, TypeOK
    <3>2. file_chunks[id[g]][i] # None => id[file_chunks[id[g]][i]] = id[g]
      BY <2>2 DEF TransferInv, IdsInv
    <3> QED
      BY <2>2, <3>1, <3>2 DEF Shared, File
  <2> QED
    BY <2>1, <2>2, <2>3, <2>4 DEF read_file_chunk, Recorded, Fetched
<1> QED
  BY <1>1, TransferInvHolds, PTL

=============================================================================
