------------------------- MODULE DistributionProofs -------------------------
(***************************************************************************)
(* Theorems about Distribution, for any clients, pastes and tasks, on top  *)
(* of what PairingProofs shows about the maps the tasks read: a step of a  *)
(* task is a stuttering step of Pairing, so its invariant holds here too.  *)
(***************************************************************************)
EXTENDS Distribution, PairingProofs, FiniteSetTheorems

\* A paste has its record before it has targets; pushed files have none.
RecordsInv ==
  \A t \in Task :
    /\ stage[t] \in PullStage \cup RecordStage =>
         paste[t] \in Paste /\ from[t] \in Client
    /\ stage[t] \in {"snapshot", "loop", "await"} /\ kind[t] # "pushed" =>
         paste[t] \in Paste /\ paste_records[paste[t]] # NoClient

\* Targets are clients other than the sender, and the one that is waited for
\* was sent a message under a key of its own.
TargetsInv ==
  \A t \in Task :
    /\ from[t] \notin left[t]
    /\ stage[t] = "await" =>
         /\ current[t] \in Client
         /\ current[t] # from[t]
         /\ used_key[t] \in approved[current[t]]

\* Nothing is counted before the list of targets is taken; from then on the
\* numbers add up.
CountsInv ==
  /\ \A t \in Task : stage[t] \notin {"loop", "await"} =>
       left[t] = {} /\ report[t] = NoReport
  /\ NobodyForgotten

DistInv == DistTypeOK /\ PairingInv /\ RecordsInv /\ TargetsInv /\ CountsInv

-----------------------------------------------------------------------------
(* The pairings underneath *)

\* Steps up to the record of the paste that go on to another such step, and
\* steps that end the task.
Prepare(t) ==
  \/ FindSource(t) \/ AskForChunk(t) \/ ChunkArrives(t) \/ PullEnds(t)
  \/ SkipIcon(t) \/ FetchIcon(t) \/ IconAnswered(t)
  \/ CheckSender(t) \/ receive_paste(t)
Stop(t) ==
  \/ PullFails(t) \/ SourceRefuses(t) \/ RejectPaste(t) \/ BroadcastEnds(t)
  \/ SenderGone(t)

\* The steps of a task, sorted by what they can disturb.
LEMMA KindsOfSteps ==
  ASSUME NEW t \in Task, Distribute(t)
  PROVE  \/ \E c \in Client, p \in Paste, how \in Kind : sync_paste(t, c, p, how)
         \/ \E c \in Client : sync_push_complete(t, c)
         \/ Prepare(t) \/ Stop(t) \/ Snapshot(t)
         \/ \E c \in Client : SkipTarget(t, c)
         \/ \E c \in Client : SendToTarget(t, c)
         \/ SendNext(t) \/ TargetAnswers(t)
  BY DEF Distribute, TaskStep, ClientAnswers, Prepare, Stop

\* Tasks only read the maps of the hub: whatever Pairing guarantees step by
\* step is guaranteed here.
LEMMA StepsArePairingSteps == [DistNext]_dvars => [Next]_vars
<1> SUFFICES ASSUME [DistNext]_dvars PROVE [Next]_vars
  OBVIOUS
<1>1. ASSUME NEW t \in Task, Distribute(t) PROVE UNCHANGED vars
  <2>1. CASE Prepare(t)
    BY <2>1
       DEF Prepare, FindSource, AskForChunk, ChunkArrives, PullEnds, SkipIcon,
           FetchIcon, IconAnswered, CheckSender, receive_paste
  <2>2. CASE Stop(t)
    BY <2>2
       DEF Stop, PullFails, SourceRefuses, RejectPaste, BroadcastEnds, SenderGone
  <2>3. CASE \/ \E c \in Client, p \in Paste, how \in Kind :
                  sync_paste(t, c, p, how)
             \/ \E c \in Client : \/ sync_push_complete(t, c)
                                  \/ SkipTarget(t, c) \/ SendToTarget(t, c)
             \/ Snapshot(t) \/ SendNext(t) \/ TargetAnswers(t)
    BY <2>3
       DEF sync_paste, sync_push_complete, Snapshot, SkipTarget, SendToTarget,
           SendNext, TargetAnswers
  <2> QED
    BY <1>1, <2>1, <2>2, <2>3, KindsOfSteps
<1> QED
  BY <1>1 DEF DistNext, PairingStep, dvars

\* A key that has passed the check for a client is never taken back
\* (trust_v1, confirm_trust_v2).
LEMMA ApprovedGrows ==
  ASSUME TypeOK, [Next]_vars, NEW c \in Client
  PROVE  approved[c] \subseteq approved'[c]
<1> USE DEF memory, database, locals, history
<1>1. ASSUME NEW h \in Handler, NEW d \in Client, NEW k \in Key,
             approved' = [approved EXCEPT ![d] = @ \cup {k}]
      PROVE  approved[c] \subseteq approved'[c]
  BY <1>1 DEF TypeOK
<1>2. ASSUME NEW h \in Handler, Pair(h) PROVE approved[c] \subseteq approved'[c]
  BY <1>1, <1>2
     DEF Pair, TrustCheck, ConfirmCheck, TakePending, InsertKey, InsertClient,
         save_client
<1>3. ASSUME NEW h \in Handler, Remove(h) \/ Beat(h) \/ DatabaseError(h)
      PROVE  approved[c] \subseteq approved'[c]
  BY <1>3
     DEF Remove, Beat, RemoveClient, DropKey, DropInfo, DeleteRow, Heartbeat,
         HeartbeatSave, HeartbeatCache, DatabaseError
<1>4. ASSUME \/ IssueToken \/ QrToken \/ Tick \/ Crash \/ load_or_create
             \/ \E d \in Client, k \in Key : exchange_keys_v2(d, k)
             \/ UNCHANGED vars
      PROVE  approved[c] \subseteq approved'[c]
  BY <1>4
     DEF IssueToken, QrToken, set_pairing_token, exchange_keys_v2, Tick, Crash,
         load_or_create, vars
<1> QED
  BY <1>2, <1>3, <1>4 DEF Next

\* No task, no record: the invariant holds at the start.
LEMMA DistInvInit == DistInit => DistInv
<1> SUFFICES ASSUME DistInit PROVE DistInv
  OBVIOUS
<1> USE DEF DistInit, NoTasks, NoReport
<1>1. Cardinality(Client) \in Nat
  BY DistributionAssumption, FS_CardinalityType DEF DistributionAssumption
<1>2. TypeOK /\ PairingInv
  BY TypeInit, PairingInvInit
<1>3. 0 \in Count /\ 0 \in 0 .. FileRequests
  BY <1>1, DistributionAssumption DEF Count, DistributionAssumption
<1>4. DistTypeOK
  BY <1>2, <1>3 DEF DistTypeOK, Stage, Kind
<1>5. RecordsInv /\ TargetsInv /\ CountsInv
  BY DEF RecordsInv, TargetsInv, CountsInv, NobodyForgotten, PullStage,
         RecordStage
<1> QED
  BY <1>2, <1>4, <1>5 DEF DistInv

-----------------------------------------------------------------------------
(* Types and counts *)

\* The targets of a task are finitely many clients.
LEMMA TargetCounts ==
  ASSUME NEW S \in SUBSET Client
  PROVE  /\ Cardinality(Client) \in Nat
         /\ Cardinality(S) \in Nat /\ Cardinality(S) \in Count
         /\ \A c \in S : Cardinality(S \ {c}) = Cardinality(S) - 1
<1>1. IsFiniteSet(Client)
  BY DistributionAssumption DEF DistributionAssumption
<1>2. IsFiniteSet(S) /\ Cardinality(S) <= Cardinality(Client)
  BY <1>1, FS_Subset
<1>3. Cardinality(Client) \in Nat /\ Cardinality(S) \in Nat
  BY <1>1, <1>2, FS_CardinalityType
<1>4. \A c \in S : Cardinality(S \ {c}) = Cardinality(S) - 1
  BY <1>2, FS_RemoveElement
<1> QED
  BY <1>2, <1>3, <1>4 DEF Count

\* What a task does up to its record leaves its targets and its report alone.
LEMMA PrepareStep ==
  ASSUME DistTypeOK, RecordsInv, NEW t \in Task, Prepare(t)
  PROVE  /\ stage[t] \in PullStage \cup RecordStage
         /\ from[t] \in Client /\ paste[t] \in Paste
         /\ \E to \in PullStage \cup RecordStage \cup {"snapshot"} :
              stage' = [stage EXCEPT ![t] = to]
         /\ UNCHANGED <<from, paste, kind, left, seen, report>>
         /\ current' \in [Task -> Client \cup {NoClient}]
         /\ used_key' \in [Task -> Key \cup {NoKey}]
         /\ \A s \in Task \ {t} :
              current'[s] = current[s] /\ used_key'[s] = used_key[s]
         /\ sent' \in [Task -> 0 .. FileRequests]
<1> USE DEF PullStage, RecordStage, Continue
<1>0. 0 \in 0 .. FileRequests
  BY DistributionAssumption DEF DistributionAssumption
<1>1. stage[t] \in PullStage \cup RecordStage
  BY DEF Prepare, FindSource, AskForChunk, ChunkArrives, PullEnds, SkipIcon,
         FetchIcon, IconAnswered, CheckSender, receive_paste
<1>2. from[t] \in Client /\ paste[t] \in Paste
  BY <1>1 DEF RecordsInv
<1>3. \E to \in PullStage \cup RecordStage \cup {"snapshot"} :
        stage' = [stage EXCEPT ![t] = to]
  BY DEF Prepare, FindSource, AskForChunk, ChunkArrives, PullEnds, SkipIcon,
         FetchIcon, IconAnswered, CheckSender, receive_paste
<1>4. UNCHANGED <<from, paste, kind, left, seen, report>>
  BY DEF Prepare, FindSource, AskForChunk, ChunkArrives, PullEnds, SkipIcon,
         FetchIcon, IconAnswered, CheckSender, receive_paste
<1> HIDE DEF PullStage, RecordStage, Continue
<1>5. \/ current' = current
      \/ \E c \in Client \cup {NoClient} : current' = [current EXCEPT ![t] = c]
  BY <1>2
     DEF Prepare, FindSource, AskForChunk, ChunkArrives, PullEnds, SkipIcon,
         FetchIcon, IconAnswered, CheckSender, receive_paste
<1>6. client_crypt_keys[from[t]] \in Key \cup {NoKey}
  BY <1>2 DEF DistTypeOK, TypeOK
<1>7. \/ used_key' = used_key
      \/ \E k \in Key \cup {NoKey} : used_key' = [used_key EXCEPT ![t] = k]
  BY <1>6
     DEF Prepare, FindSource, AskForChunk, ChunkArrives, PullEnds, SkipIcon,
         FetchIcon, IconAnswered, CheckSender, receive_paste
<1>8. \/ sent' = sent \/ sent' = [sent EXCEPT ![t] = 0]
      \/ sent[t] < FileRequests /\ sent' = [sent EXCEPT ![t] = @ + 1]
  BY DEF Prepare, FindSource, AskForChunk, ChunkArrives, PullEnds, SkipIcon,
         FetchIcon, IconAnswered, CheckSender, receive_paste
<1>9. sent' \in [Task -> 0 .. FileRequests]
  <2>1. sent \in [Task -> 0 .. FileRequests] /\ FileRequests \in Nat
    BY DistributionAssumption DEF DistTypeOK, DistributionAssumption
  <2>2. sent[t] < FileRequests => sent[t] + 1 \in 0 .. FileRequests
    BY <2>1
  <2> QED
    BY <1>0, <1>8, <2>1, <2>2
<1>10. current \in [Task -> Client \cup {NoClient}]
       /\ used_key \in [Task -> Key \cup {NoKey}]
  BY DEF DistTypeOK
<1>11. /\ current' \in [Task -> Client \cup {NoClient}]
       /\ \A s \in Task \ {t} : current'[s] = current[s]
  BY <1>5, <1>10
<1>12. /\ used_key' \in [Task -> Key \cup {NoKey}]
       /\ \A s \in Task \ {t} : used_key'[s] = used_key[s]
  BY <1>7, <1>10
<1> QED
  BY <1>1, <1>2, <1>3, <1>4, <1>9, <1>11, <1>12

\* A step that ends a task does nothing else.
LEMMA StopStep ==
  ASSUME NEW t \in Task, Stop(t)
  PROVE  EndTask(t) /\ UNCHANGED paste_records
  BY DEF Stop, PullFails, SourceRefuses, RejectPaste, BroadcastEnds, SenderGone

\* The record names the sender, and other records stay.
LEMMA RecordStep ==
  ASSUME DistTypeOK, RecordsInv, NEW t \in Task, Prepare(t)
  PROVE  /\ paste_records' \in [Paste -> Client \cup {NoClient}]
         /\ \A p \in Paste : paste_records[p] # NoClient => paste_records'[p] # NoClient
         /\ stage'[t] = "snapshot" => paste_records'[paste[t]] # NoClient
<1>1. from[t] \in Client /\ from[t] # NoClient /\ paste[t] \in Paste
  BY PrepareStep, PairingAssumption DEF PairingAssumption
<1>2. CASE receive_paste(t)
  BY <1>1, <1>2 DEF receive_paste, DistTypeOK
<1>3. CASE ~receive_paste(t)
  <2>1. paste_records' = paste_records
    BY <1>3
       DEF Prepare, FindSource, AskForChunk, ChunkArrives, PullEnds, SkipIcon,
           FetchIcon, IconAnswered, CheckSender
  <2>2. stage'[t] # "snapshot"
    BY <1>3
       DEF Prepare, FindSource, AskForChunk, ChunkArrives, PullEnds, SkipIcon,
           FetchIcon, IconAnswered, CheckSender, Continue, DistTypeOK
  <2> QED
    BY <2>1, <2>2 DEF DistTypeOK
<1> QED
  BY <1>2, <1>3

\* A task that is over has nothing left.
LEMMA EndedTask ==
  ASSUME DistTypeOK, TypeOK', CountsInv, NEW t \in Task, EndTask(t),
         UNCHANGED paste_records
  PROVE  DistTypeOK' /\ CountsInv'
<1>1. 0 \in Count /\ 0 \in 0 .. FileRequests
  BY TargetCounts, DistributionAssumption DEF Count, DistributionAssumption
<1>2. DistTypeOK'
  BY <1>1 DEF DistTypeOK, EndTask, NoReport, Stage, Kind
<1>3. CountsInv'
  BY DEF CountsInv, NobodyForgotten, DistTypeOK, EndTask, Stage
<1> QED
  BY <1>2, <1>3

\* The counts of a task add up, and therefore stay within their types.
LEMMA CountsStep ==
  DistTypeOK /\ RecordsInv /\ TargetsInv /\ CountsInv /\ [DistNext]_dvars =>
    DistTypeOK' /\ CountsInv'
<1> SUFFICES ASSUME DistTypeOK, RecordsInv, TargetsInv, CountsInv, [DistNext]_dvars
             PROVE  DistTypeOK' /\ CountsInv'
  OBVIOUS
<1>a. TypeOK'
  BY TypeStep, StepsArePairingSteps DEF DistTypeOK
<1>b. 0 \in Count /\ 0 \in 0 .. FileRequests /\ 1 \in 0 .. FileRequests
  BY TargetCounts, DistributionAssumption DEF Count, DistributionAssumption
<1>c. ASSUME NEW t \in Task
      PROVE  /\ left[t] \in SUBSET Client
             /\ report[t] \in [attempted : Count, delivered : Count, failed : Count]
             /\ report[t].attempted \in Count /\ report[t].delivered \in Count
             /\ report[t].failed \in Count
  BY DEF DistTypeOK
<1> DEFINE Counted(t) ==
      report[t].attempted = report[t].delivered + report[t].failed
        + Cardinality(left[t]) + (IF stage[t] = "await" THEN 1 ELSE 0)
<1>d. ASSUME NEW t \in Task, NEW S, NEW R, NEW to \in {"loop", "await"},
             stage' = [stage EXCEPT ![t] = to],
             left' = [left EXCEPT ![t] = S],
             report' = [report EXCEPT ![t] = R],
             R.attempted = R.delivered + R.failed + Cardinality(S)
                           + (IF to = "await" THEN 1 ELSE 0)
      PROVE  CountsInv'
  <2>1. stage'[t] = to /\ left'[t] = S /\ report'[t] = R
    BY <1>d DEF DistTypeOK
  <2>2. \A s \in Task \ {t} :
          stage'[s] = stage[s] /\ left'[s] = left[s] /\ report'[s] = report[s]
    BY <1>d DEF DistTypeOK
  <2>3. Counted(t)'
    BY <1>d, <2>1
  <2> HIDE DEF Counted
  <2>4. \A s \in Task \ {t} : stage[s] \in {"loop", "await"} => Counted(s)'
    BY <2>2 DEF Counted, CountsInv, NobodyForgotten
  <2>5. NobodyForgotten'
    BY <2>2, <2>3, <2>4 DEF Counted, NobodyForgotten
  <2>6. \A s \in Task : stage'[s] \notin {"loop", "await"} =>
          left'[s] = {} /\ report'[s] = NoReport
    BY <2>1, <2>2 DEF CountsInv
  <2> QED
    BY <2>5, <2>6 DEF CountsInv, NoReport
<1>e. ASSUME NEW t \in Task, NEW R, report' = [report EXCEPT ![t] = R],
             R \in [attempted : Count, delivered : Count, failed : Count]
      PROVE  report' \in [Task -> [attempted : Count, delivered : Count, failed : Count]]
  BY <1>e DEF DistTypeOK
<1> HIDE DEF Counted
<1>1. CASE PairingStep
  BY <1>1, <1>a, <1>b
     DEF PairingStep, DropTasks, tasks, DistTypeOK, CountsInv, NobodyForgotten,
         NoReport, Stage, Kind
<1>2. ASSUME NEW t \in Task, Distribute(t) PROVE DistTypeOK' /\ CountsInv'
  <2>1. ASSUME NEW c \in Client, NEW p \in Paste, NEW how \in Kind,
               sync_paste(t, c, p, how)
        PROVE  DistTypeOK' /\ CountsInv'
    <3> DEFINE to == IF how = "pulled" THEN "pull" ELSE "icon"
    <3>0. to \in PullStage \cup RecordStage /\ to \notin {"loop", "await"}
      BY DEF PullStage, RecordStage
    <3>1. /\ stage[t] = "idle" /\ stage' = [stage EXCEPT ![t] = to]
          /\ from' = [from EXCEPT ![t] = c] /\ paste' = [paste EXCEPT ![t] = p]
          /\ kind' = [kind EXCEPT ![t] = how]
          /\ UNCHANGED <<left, seen, current, used_key, sent, report,
                         paste_records>>
      BY <2>1 DEF sync_paste, Continue
    <3> HIDE DEF to
    <3> QED
      BY <1>a, <3>0, <3>1 DEF DistTypeOK, CountsInv, NobodyForgotten, Stage
  <2>2. ASSUME NEW c \in Client, sync_push_complete(t, c)
        PROVE  DistTypeOK' /\ CountsInv'
    <3>1. /\ stage[t] = "idle" /\ stage' = [stage EXCEPT ![t] = "snapshot"]
          /\ from' = [from EXCEPT ![t] = c]
          /\ kind' = [kind EXCEPT ![t] = "pushed"]
          /\ UNCHANGED <<paste, left, seen, current, used_key, sent, report,
                         paste_records>>
      BY <2>2 DEF sync_push_complete, Continue
    <3> QED
      BY <1>a, <3>1 DEF DistTypeOK, CountsInv, NobodyForgotten, Stage, Kind
  <2>3. CASE Prepare(t)
    <3>1. PICK to \in PullStage \cup RecordStage \cup {"snapshot"} :
            stage' = [stage EXCEPT ![t] = to]
      BY <2>3, PrepareStep
    <3>2. to \in Stage /\ {to, stage[t]} \cap {"loop", "await"} = {}
      BY <2>3, <3>1, PrepareStep DEF Stage, PullStage, RecordStage
    <3>3. UNCHANGED <<from, paste, kind, left, seen, report>>
      BY <2>3, PrepareStep
    <3>4. DistTypeOK'
      BY <1>a, <2>3, <3>1, <3>2, <3>3, PrepareStep, RecordStep DEF DistTypeOK
    <3>5. CountsInv'
      BY <3>1, <3>2, <3>3 DEF DistTypeOK, CountsInv, NobodyForgotten
    <3> QED
      BY <3>4, <3>5
  <2>4. CASE Stop(t)
    BY <1>a, <2>4, EndedTask, StopStep
  <2>5. CASE Snapshot(t)
    <3> DEFINE targets == {c \in Client \ {from[t]} : client_sync_infos[c] # NoInfo}
    <3>1. /\ stage[t] = "snapshot" /\ stage' = [stage EXCEPT ![t] = "loop"]
          /\ left' = [left EXCEPT ![t] = targets]
          /\ seen' = [seen EXCEPT ![t] = [c \in Client |->
               IF c \in targets THEN client_sync_infos[c] ELSE NoInfo]]
          /\ report' = [report EXCEPT ![t].attempted = Cardinality(targets)]
          /\ UNCHANGED <<from, paste, kind, current, used_key, sent, paste_records>>
      BY <2>5 DEF Snapshot, Continue
    <3>2. targets \in SUBSET Client
      OBVIOUS
    <3>3. [c \in Client |-> IF c \in targets THEN client_sync_infos[c] ELSE NoInfo]
            \in [Client -> Info \cup {NoInfo}]
      BY DEF DistTypeOK, TypeOK
    <3> HIDE DEF targets
    <3>4. Cardinality(targets) \in Nat /\ Cardinality(targets) \in Count
      BY <3>2, TargetCounts
    <3> DEFINE R == [attempted |-> Cardinality(targets), delivered |-> 0, failed |-> 0]
    <3>5. report' = [report EXCEPT ![t] = R]
      <4>1. report[t] = NoReport
        BY <3>1 DEF CountsInv
      <4>2. [report[t] EXCEPT !.attempted = Cardinality(targets)] = R
        BY <4>1 DEF NoReport
      <4>3. report' = [report EXCEPT ![t] =
                         [report[t] EXCEPT !.attempted = Cardinality(targets)]]
        BY <3>1
      <4> QED
        BY <4>2, <4>3
    <3>6. report' \in [Task -> [attempted : Count, delivered : Count, failed : Count]]
      BY <1>b, <1>e, <3>4, <3>5
    <3>7. DistTypeOK'
      BY <1>a, <3>1, <3>2, <3>3, <3>6 DEF DistTypeOK, Stage
    <3>8. R.attempted = R.delivered + R.failed + Cardinality(targets) + 0
      BY <3>4
    <3> HIDE DEF R
    <3>9. CountsInv'
      BY <1>d, <3>1, <3>5, <3>8
    <3> QED
      BY <3>7, <3>9
  <2>6. ASSUME NEW c \in Client, SkipTarget(t, c) PROVE DistTypeOK' /\ CountsInv'
    <3>1. /\ c \in left[t] /\ stage[t] = "loop" /\ stage' = stage
          /\ left' = [left EXCEPT ![t] = @ \ {c}]
          /\ report' = [report EXCEPT ![t].failed = @ + 1]
          /\ UNCHANGED <<from, paste, kind, seen, current, used_key, sent,
                         paste_records>>
      BY <2>6 DEF SkipTarget, Continue, DistTypeOK
    <3>2. /\ Cardinality(Client) \in Nat /\ Cardinality(left[t]) \in Nat
          /\ Cardinality(left[t] \ {c}) \in Nat
          /\ Cardinality(left[t] \ {c}) = Cardinality(left[t]) - 1
      BY <1>c, <3>1, TargetCounts
    <3> DEFINE R == [report[t] EXCEPT !.failed = @ + 1]
    <3>3. /\ report' = [report EXCEPT ![t] = R]
          /\ left' = [left EXCEPT ![t] = left[t] \ {c}]
          /\ stage' = [stage EXCEPT ![t] = "loop"]
      BY <3>1 DEF DistTypeOK
    <3>4. report[t].attempted = report[t].delivered + report[t].failed
                                + Cardinality(left[t])
      BY <1>c, <3>1, <3>2 DEF CountsInv, NobodyForgotten, Count
    <3>5. report[t].failed + 1 \in Count
      BY <1>c, <3>2, <3>4 DEF Count
    <3>6. /\ R \in [attempted : Count, delivered : Count, failed : Count]
          /\ R.attempted = R.delivered + R.failed + Cardinality(left[t] \ {c}) + 0
      BY <1>c, <3>2, <3>4, <3>5 DEF Count
    <3> HIDE DEF R
    <3>7. report' \in [Task -> [attempted : Count, delivered : Count, failed : Count]]
      BY <1>e, <3>3, <3>6
    <3>8. DistTypeOK'
      BY <1>a, <3>1, <3>7 DEF DistTypeOK
    <3>9. CountsInv'
      BY <1>d, <3>3, <3>6
    <3> QED
      BY <3>8, <3>9
  <2>7. ASSUME NEW c \in Client, SendToTarget(t, c) PROVE DistTypeOK' /\ CountsInv'
    <3>1. /\ c \in left[t] /\ stage[t] = "loop"
          /\ stage' = [stage EXCEPT ![t] = "await"]
          /\ left' = [left EXCEPT ![t] = @ \ {c}]
          /\ current' = [current EXCEPT ![t] = c]
          /\ used_key' = [used_key EXCEPT ![t] = client_crypt_keys[c]]
          /\ sent' = [sent EXCEPT ![t] = 1]
          /\ UNCHANGED <<from, paste, kind, seen, report, paste_records>>
      BY <2>7 DEF SendToTarget, Continue
    <3>2. /\ Cardinality(left[t]) \in Nat /\ Cardinality(left[t] \ {c}) \in Nat
          /\ Cardinality(left[t] \ {c}) = Cardinality(left[t]) - 1
      BY <1>c, <3>1, TargetCounts
    <3>3. report[t].attempted = report[t].delivered + report[t].failed
                                + Cardinality(left[t])
      BY <1>c, <3>1, <3>2 DEF CountsInv, NobodyForgotten, Count
    <3>4. DistTypeOK'
      BY <1>a, <1>b, <3>1 DEF DistTypeOK, TypeOK, Stage
    <3>5. CountsInv'
      BY <1>c, <3>1, <3>2, <3>3 DEF DistTypeOK, CountsInv, NobodyForgotten, Count
    <3> QED
      BY <3>4, <3>5
  <2>8. CASE SendNext(t)
    <3>1. /\ sent[t] < FileRequests /\ sent' = [sent EXCEPT ![t] = @ + 1]
          /\ stage[t] = "await" /\ encrypt_for_client(current[t])
          /\ used_key' = [used_key EXCEPT ![t] = client_crypt_keys[current[t]]]
          /\ UNCHANGED <<stage, from, paste, kind, left, seen, current, report,
                         paste_records>>
      BY <2>8 DEF SendNext
    <3>2. sent[t] + 1 \in 0 .. FileRequests
      BY <3>1, DistributionAssumption DEF DistTypeOK, DistributionAssumption
    <3>3. client_crypt_keys[current[t]] \in Key \cup {NoKey}
      BY <3>1 DEF DistTypeOK, TypeOK, TargetsInv
    <3>4. DistTypeOK'
      BY <1>a, <3>1, <3>2, <3>3 DEF DistTypeOK
    <3>5. CountsInv'
      BY <3>1 DEF CountsInv, NobodyForgotten
    <3> QED
      BY <3>4, <3>5
  <2>9. CASE TargetAnswers(t)
    <3>1. PICK result \in {"delivered", "failed"} :
            report' = [report EXCEPT ![t][result] = @ + 1]
      BY <2>9 DEF TargetAnswers
    <3>2. /\ stage[t] = "await" /\ stage' = [stage EXCEPT ![t] = "loop"]
          /\ current' = [current EXCEPT ![t] = NoClient]
          /\ used_key' = [used_key EXCEPT ![t] = NoKey]
          /\ sent' = [sent EXCEPT ![t] = 0]
          /\ UNCHANGED <<from, paste, kind, left, seen, paste_records>>
      BY <2>9 DEF TargetAnswers, Continue
    <3>3. Cardinality(Client) \in Nat /\ Cardinality(left[t]) \in Nat
      BY <1>c, TargetCounts
    <3>4. report[t].attempted = report[t].delivered + report[t].failed
                                + Cardinality(left[t]) + 1
      BY <1>c, <3>2, <3>3 DEF CountsInv, NobodyForgotten, Count
    <3>5. report[t].failed + 1 \in Count /\ report[t].delivered + 1 \in Count
      BY <1>c, <3>3, <3>4 DEF Count
    <3>6. CASE result = "failed"
      <4> DEFINE R == [report[t] EXCEPT !.failed = @ + 1]
      <4>1. /\ report' = [report EXCEPT ![t] = R]
            /\ left' = [left EXCEPT ![t] = left[t]]
        BY <3>1, <3>2, <3>6 DEF DistTypeOK
      <4>2. /\ R \in [attempted : Count, delivered : Count, failed : Count]
            /\ R.attempted = R.delivered + R.failed + Cardinality(left[t]) + 0
        BY <1>c, <3>3, <3>4, <3>5 DEF Count
      <4> HIDE DEF R
      <4>3. report' \in [Task -> [attempted : Count, delivered : Count, failed : Count]]
        BY <1>e, <4>1, <4>2
      <4>4. DistTypeOK'
        BY <1>a, <1>b, <3>2, <4>3 DEF DistTypeOK, Stage
      <4>5. CountsInv'
        BY <1>d, <3>2, <4>1, <4>2
      <4> QED
        BY <4>4, <4>5
    <3>7. CASE result = "delivered"
      <4> DEFINE R == [report[t] EXCEPT !.delivered = @ + 1]
      <4>1. /\ report' = [report EXCEPT ![t] = R]
            /\ left' = [left EXCEPT ![t] = left[t]]
        BY <3>1, <3>2, <3>7 DEF DistTypeOK
      <4>2. /\ R \in [attempted : Count, delivered : Count, failed : Count]
            /\ R.attempted = R.delivered + R.failed + Cardinality(left[t]) + 0
        BY <1>c, <3>3, <3>4, <3>5 DEF Count
      <4> HIDE DEF R
      <4>3. report' \in [Task -> [attempted : Count, delivered : Count, failed : Count]]
        BY <1>e, <4>1, <4>2
      <4>4. DistTypeOK'
        BY <1>a, <1>b, <3>2, <4>3 DEF DistTypeOK, Stage
      <4>5. CountsInv'
        BY <1>d, <3>2, <4>1, <4>2
      <4> QED
        BY <4>4, <4>5
    <3> QED
      BY <3>6, <3>7
  <2> QED
    BY <1>2, <2>1, <2>2, <2>3, <2>4, <2>5, <2>6, <2>7, <2>8, <2>9, KindsOfSteps
<1>3. CASE UNCHANGED dvars
  BY <1>3, <1>a DEF dvars, dist, tasks, DistTypeOK, CountsInv, NobodyForgotten
<1> QED
  BY <1>1, <1>2, <1>3 DEF DistNext

-----------------------------------------------------------------------------
(* Records and targets *)

\* A record is replaced but never lost, and is there before the targets are
\* listed (receive_paste).
LEMMA RecordsStep ==
  DistTypeOK /\ RecordsInv /\ [DistNext]_dvars => RecordsInv'
<1> SUFFICES ASSUME DistTypeOK, RecordsInv, [DistNext]_dvars PROVE RecordsInv'
  OBVIOUS
<1>1. CASE PairingStep
  BY <1>1 DEF PairingStep, DropTasks, tasks, RecordsInv, PullStage, RecordStage
<1>2. ASSUME NEW t \in Task, Distribute(t) PROVE RecordsInv'
  <2>1. ASSUME NEW c \in Client, NEW p \in Paste, NEW how \in Kind,
               sync_paste(t, c, p, how)
        PROVE  RecordsInv'
    <3>1. /\ stage' = [stage EXCEPT ![t] = IF how = "pulled" THEN "pull" ELSE "icon"]
          /\ from' = [from EXCEPT ![t] = c]
          /\ paste' = [paste EXCEPT ![t] = p] /\ kind' = [kind EXCEPT ![t] = how]
          /\ UNCHANGED paste_records
      BY <2>1 DEF sync_paste, Continue
    <3> QED
      BY <3>1 DEF DistTypeOK, RecordsInv
  <2>2. ASSUME NEW c \in Client, sync_push_complete(t, c) PROVE RecordsInv'
    <3>1. /\ stage' = [stage EXCEPT ![t] = "snapshot"]
          /\ from' = [from EXCEPT ![t] = c]
          /\ kind' = [kind EXCEPT ![t] = "pushed"]
          /\ UNCHANGED <<paste, paste_records>>
      BY <2>2 DEF sync_push_complete, Continue
    <3> QED
      BY <3>1 DEF DistTypeOK, RecordsInv, PullStage, RecordStage
  <2>3. CASE Prepare(t)
    <3>1. /\ \E to : stage' = [stage EXCEPT ![t] = to]
          /\ stage'[t] \in PullStage \cup RecordStage \cup {"snapshot"}
          /\ UNCHANGED <<from, paste, kind>>
      BY <2>3, PrepareStep DEF DistTypeOK
    <3>2. /\ from[t] \in Client /\ paste[t] \in Paste
          /\ \A p \in Paste : paste_records[p] # NoClient => paste_records'[p] # NoClient
          /\ stage'[t] = "snapshot" => paste_records'[paste[t]] # NoClient
      BY <2>3, PrepareStep, RecordStep
    <3>3. stage'[t] \notin {"loop", "await"}
      BY <3>1 DEF PullStage, RecordStage
    <3> QED
      BY <3>1, <3>2, <3>3 DEF DistTypeOK, RecordsInv
  <2>4. CASE Stop(t)
    <3>1. EndTask(t) /\ UNCHANGED paste_records
      BY <2>4, StopStep
    <3> QED
      BY <3>1 DEF EndTask, DistTypeOK, RecordsInv, PullStage, RecordStage
  <2>5. CASE \/ Snapshot(t) \/ TargetAnswers(t) \/ SendNext(t)
             \/ \E c \in Client : SkipTarget(t, c) \/ SendToTarget(t, c)
    <3>1. /\ stage[t] \in {"snapshot", "loop", "await"}
          /\ \E to \in {"loop", "await"} : stage' = [stage EXCEPT ![t] = to]
          /\ UNCHANGED <<from, paste, kind, paste_records>>
      BY <2>5
         DEF Snapshot, TargetAnswers, SendNext, SkipTarget, SendToTarget,
             Continue, DistTypeOK
    <3> QED
      BY <3>1 DEF DistTypeOK, RecordsInv, PullStage, RecordStage
  <2> QED
    BY <1>2, <2>1, <2>2, <2>3, <2>4, <2>5, KindsOfSteps
<1>3. CASE UNCHANGED dvars
  BY <1>3 DEF dvars, dist, tasks, RecordsInv
<1> QED
  BY <1>1, <1>2, <1>3 DEF DistNext

\* A key that encrypts a message to a client is the client's own: the map
\* holds no other (KeyProvenance), and a check once passed stays passed.
LEMMA TargetsStep ==
  DistTypeOK /\ PairingInv /\ RecordsInv /\ TargetsInv /\ CountsInv
    /\ [DistNext]_dvars => TargetsInv'
<1> SUFFICES ASSUME DistTypeOK, PairingInv, RecordsInv, TargetsInv, CountsInv,
                    [DistNext]_dvars
             PROVE  TargetsInv'
  OBVIOUS
<1>a. \A c \in Client : approved[c] \subseteq approved'[c]
  BY StepsArePairingSteps, ApprovedGrows DEF DistTypeOK
<1>b. \A c \in Client : encrypt_for_client(c) => client_crypt_keys[c] \in approved'[c]
  BY <1>a DEF encrypt_for_client, PairingInv, KeyProvenance
<1>1. CASE PairingStep
  <2>1. CASE up'
    BY <1>a, <1>1, <2>1 DEF PairingStep, tasks, TargetsInv
  <2>2. CASE ~up'
    BY <1>1, <2>2 DEF PairingStep, DropTasks, TargetsInv
  <2> QED
    BY <2>1, <2>2
<1>2. ASSUME NEW t \in Task, Distribute(t) PROVE TargetsInv'
  <2>1. ASSUME NEW c \in Client, NEW to \in {"pull", "icon", "snapshot"},
               stage[t] = "idle", stage' = [stage EXCEPT ![t] = to],
               from' = [from EXCEPT ![t] = c],
               UNCHANGED <<left, current, used_key>>
        PROVE  TargetsInv'
    <3>1. left[t] = {}
      BY <2>1 DEF CountsInv
    <3> QED
      BY <1>a, <2>1, <3>1 DEF DistTypeOK, TargetsInv
  <2>2. ASSUME NEW c \in Client,
               \/ \E p \in Paste, how \in Kind : sync_paste(t, c, p, how)
               \/ sync_push_complete(t, c)
        PROVE  TargetsInv'
    BY <2>1, <2>2 DEF sync_paste, sync_push_complete, Continue
  <2>3. CASE Prepare(t)
    <3>1. /\ \E to : stage' = [stage EXCEPT ![t] = to]
          /\ stage'[t] \in PullStage \cup RecordStage \cup {"snapshot"}
          /\ UNCHANGED <<from, left>>
          /\ \A s \in Task \ {t} :
               current'[s] = current[s] /\ used_key'[s] = used_key[s]
      BY <2>3, PrepareStep DEF DistTypeOK
    <3>2. stage'[t] # "await"
      BY <3>1 DEF PullStage, RecordStage
    <3>3. \A s \in Task \ {t} : stage'[s] = stage[s]
      BY <3>1 DEF DistTypeOK
    <3> QED
      BY <1>a, <3>1, <3>2, <3>3 DEF TargetsInv
  <2>4. CASE Stop(t)
    <3>1. EndTask(t)
      BY <2>4, StopStep
    <3> QED
      BY <1>a, <3>1 DEF EndTask, DistTypeOK, TargetsInv
  <2>5. CASE Snapshot(t)
    <3> DEFINE targets == {c \in Client \ {from[t]} : client_sync_infos[c] # NoInfo}
    <3>1. /\ stage' = [stage EXCEPT ![t] = "loop"]
          /\ left' = [left EXCEPT ![t] = targets]
          /\ UNCHANGED <<from, current, used_key>>
      BY <2>5 DEF Snapshot, Continue
    <3>2. from[t] \notin targets
      OBVIOUS
    <3> HIDE DEF targets
    <3> QED
      BY <1>a, <3>1, <3>2 DEF DistTypeOK, TargetsInv
  <2>6. ASSUME NEW c \in Client, SkipTarget(t, c) PROVE TargetsInv'
    <3>1. /\ stage' = [stage EXCEPT ![t] = "loop"]
          /\ left' = [left EXCEPT ![t] = @ \ {c}]
          /\ UNCHANGED <<from, current, used_key>>
      BY <2>6 DEF SkipTarget, Continue
    <3> QED
      BY <1>a, <3>1 DEF DistTypeOK, TargetsInv
  <2>7. ASSUME NEW c \in Client, SendToTarget(t, c) PROVE TargetsInv'
    <3>1. /\ c \in left[t] /\ encrypt_for_client(c)
          /\ stage' = [stage EXCEPT ![t] = "await"]
          /\ left' = [left EXCEPT ![t] = @ \ {c}]
          /\ current' = [current EXCEPT ![t] = c]
          /\ used_key' = [used_key EXCEPT ![t] = client_crypt_keys[c]]
          /\ UNCHANGED from
      BY <2>7 DEF SendToTarget, Continue
    <3>2. c # from[t] /\ client_crypt_keys[c] \in approved'[c]
      BY <1>b, <3>1 DEF TargetsInv
    <3> QED
      BY <1>a, <3>1, <3>2 DEF DistTypeOK, TargetsInv
  <2>8. CASE SendNext(t)
    <3>1. /\ stage[t] = "await" /\ encrypt_for_client(current[t])
          /\ used_key' = [used_key EXCEPT ![t] = client_crypt_keys[current[t]]]
          /\ UNCHANGED <<stage, from, left, current>>
      BY <2>8 DEF SendNext
    <3>2. client_crypt_keys[current[t]] \in approved'[current[t]]
      BY <1>b, <3>1 DEF TargetsInv
    <3> QED
      BY <1>a, <3>1, <3>2 DEF DistTypeOK, TargetsInv
  <2>9. CASE TargetAnswers(t)
    <3>1. /\ stage' = [stage EXCEPT ![t] = "loop"]
          /\ current' = [current EXCEPT ![t] = NoClient]
          /\ used_key' = [used_key EXCEPT ![t] = NoKey]
          /\ UNCHANGED <<from, left>>
      BY <2>9 DEF TargetAnswers, Continue
    <3> QED
      BY <1>a, <3>1 DEF DistTypeOK, TargetsInv
  <2> QED
    BY <1>2, <2>2, <2>3, <2>4, <2>5, <2>6, <2>7, <2>8, <2>9, KindsOfSteps
<1>3. CASE UNCHANGED dvars
  BY <1>a, <1>3 DEF dvars, dist, tasks, TargetsInv
<1> QED
  BY <1>1, <1>2, <1>3 DEF DistNext

-----------------------------------------------------------------------------
(* Theorems *)

\* Every step keeps the invariant.
LEMMA DistInvStep == DistInv /\ [DistNext]_dvars => DistInv'
<1> SUFFICES ASSUME DistInv, [DistNext]_dvars PROVE DistInv'
  OBVIOUS
<1>1. PairingInv'
  BY StepsArePairingSteps, PairingInvStep DEF DistInv, DistTypeOK
<1>2. DistTypeOK' /\ CountsInv'
  BY CountsStep DEF DistInv
<1>3. RecordsInv' /\ TargetsInv'
  BY RecordsStep, TargetsStep DEF DistInv
<1> QED
  BY <1>1, <1>2, <1>3 DEF DistInv

\* The invariant holds in every reachable state.
LEMMA DistInvHolds == DistSpec => []DistInv
  BY DistInvInit, DistInvStep, PTL DEF DistSpec

\* Tasks, pairings and records have their types; in particular no counter of
\* a report passes the number of clients.
THEOREM DistTypesCorrect == DistSpec => []DistTypeOK
<1>1. DistInv => DistTypeOK
  BY DEF DistInv
<1> QED
  BY <1>1, DistInvHolds, PTL

\* However pairings, removals and crashes interleave with a broadcast, its
\* report accounts for every target (broadcast_paste, BroadcastReport).
THEOREM ReportsStayComplete == DistSpec => []NobodyForgotten
<1>1. DistInv => NobodyForgotten
  BY DEF DistInv, CountsInv
<1> QED
  BY <1>1, DistInvHolds, PTL

\* Messages go to clients other than the sender, under keys the receiving
\* client has proved to own, and after the record of the paste
\* (sync_paste, broadcast_paste, upload_completed_push_to_target).
THEOREM MessagesGoToRightClients == DistSpec => []SentToRightClient
<1>1. DistInv => SentToRightClient
  BY DEF DistInv, TargetsInv, RecordsInv, SentToRightClient
<1> QED
  BY <1>1, DistInvHolds, PTL

\* A message leaves only in three steps, encrypted with the key its receiver
\* has in the map at that moment, in a running process.
LEMMA SendersLookUpKeys ==
  ASSUME DistInv, DistNext, NEW s \in Task, NEW c \in Client, SendsTo(s, c)
  PROVE  /\ up
         /\ encrypt_for_client(c)
         /\ used_key'[s] = client_crypt_keys[c]
<1>b. c # NoClient
  BY PairingAssumption DEF PairingAssumption
<1>t. /\ current \in [Task -> Client \cup {NoClient}]
      /\ used_key \in [Task -> Key \cup {NoKey}]
      /\ sent \in [Task -> 0 .. FileRequests]
      /\ \A t \in Task : sent[t] \in Int /\ sent[t] >= 0
  BY DistributionAssumption DEF DistInv, DistTypeOK, DistributionAssumption
<1>s. current'[s] = c /\ sent'[s] > sent[s]
  BY DEF SendsTo
<1>1. CASE UNCHANGED sent \/ sent'[s] = sent[s] \/ sent'[s] = 0
  BY <1>1, <1>s, <1>t
<1>2. CASE PairingStep
  <2>1. UNCHANGED sent \/ sent'[s] = 0
    BY <1>2 DEF PairingStep, DropTasks, tasks
  <2> QED
    BY <1>1, <2>1
<1>3. ASSUME NEW t \in Task, Distribute(t)
      PROVE  up /\ encrypt_for_client(c) /\ used_key'[s] = client_crypt_keys[c]
  <2>1. CASE t # s \/ UNCHANGED sent \/ sent' = [sent EXCEPT ![t] = 0]
    <3>1. sent'[s] = sent[s] \/ sent'[s] = 0
      <4>1. CASE UNCHANGED sent \/ sent' = [sent EXCEPT ![t] = 0]
        BY <1>t, <4>1
      <4>2. CASE t # s /\ \E n : sent' = [sent EXCEPT ![t] = n]
        BY <1>t, <4>2
      <4>3. UNCHANGED sent \/ \E n : sent' = [sent EXCEPT ![t] = n]
        BY <1>3
           DEF Distribute, TaskStep, ClientAnswers, sync_paste,
               sync_push_complete, FindSource, AskForChunk, ChunkArrives,
               PullEnds, PullFails, SourceRefuses, SkipIcon, FetchIcon,
               IconAnswered, CheckSender, receive_paste, RejectPaste, Snapshot,
               SkipTarget, SendToTarget, SendNext, TargetAnswers, BroadcastEnds,
               SenderGone, EndTask
      <4> QED
        BY <2>1, <4>1, <4>2, <4>3
    <3> QED
      BY <1>1, <3>1
  <2>2. ASSUME t = s, NEW d \in Client, SendToTarget(t, d)
        PROVE  up /\ encrypt_for_client(c) /\ used_key'[s] = client_crypt_keys[c]
    <3>1. /\ up /\ encrypt_for_client(d) /\ current' = [current EXCEPT ![t] = d]
          /\ used_key' = [used_key EXCEPT ![t] = client_crypt_keys[d]]
      BY <2>2 DEF SendToTarget, Continue
    <3> QED
      BY <1>s, <1>t, <2>2, <3>1
  <2>3. ASSUME t = s, SendNext(t)
        PROVE  up /\ encrypt_for_client(c) /\ used_key'[s] = client_crypt_keys[c]
    <3>1. /\ up /\ encrypt_for_client(current[t]) /\ current' = current
          /\ used_key' = [used_key EXCEPT ![t] = client_crypt_keys[current[t]]]
      BY <2>3 DEF SendNext
    <3> QED
      BY <1>s, <1>t, <2>3, <3>1
  <2>4. ASSUME t = s, AskForChunk(t)
        PROVE  up /\ encrypt_for_client(c) /\ used_key'[s] = client_crypt_keys[c]
    <3>1. /\ up /\ encrypt_for_client(from[t])
          /\ current' = [current EXCEPT ![t] = from[t]]
          /\ used_key' = [used_key EXCEPT ![t] = client_crypt_keys[from[t]]]
      BY <2>4 DEF AskForChunk, Continue
    <3> QED
      BY <1>s, <1>t, <2>4, <3>1
  <2>5. \/ SendNext(t) \/ \E d \in Client : SendToTarget(t, d)
        \/ AskForChunk(t)
        \/ UNCHANGED sent \/ sent' = [sent EXCEPT ![t] = 0]
    BY <1>3
       DEF Distribute, TaskStep, ClientAnswers, sync_paste, sync_push_complete,
           FindSource, ChunkArrives, PullEnds, PullFails, SourceRefuses,
           SkipIcon, FetchIcon, IconAnswered, CheckSender, receive_paste,
           RejectPaste, Snapshot, SkipTarget, BroadcastEnds, TargetAnswers,
           SenderGone, EndTask
  <2> QED
    BY <2>1, <2>2, <2>3, <2>4, <2>5
<1> QED
  BY <1>2, <1>3 DEF DistNext

\* A paste is accepted only from a client that is paired at that moment.
LEMMA AcceptedSenderIsPaired ==
  ASSUME DistInv, DistNext, NEW s \in Task,
         stage[s] # "save_row", stage'[s] = "save_row"
  PROVE  from[s] \in clients
<1>t. stage \in [Task -> Stage]
  BY DEF DistInv, DistTypeOK
<1>1. CASE PairingStep
  BY <1>1 DEF PairingStep, DropTasks, tasks
<1>2. ASSUME NEW t \in Task, Distribute(t) PROVE from[s] \in clients
  <2>1. CASE CheckSender(t)
    <3>1. from[t] \in clients /\ stage' = [stage EXCEPT ![t] = "save_row"]
      BY <2>1 DEF CheckSender, Continue
    <3> QED
      BY <1>t, <3>1
  <2>2. CASE \E to \in Stage \ {"save_row"} : stage' = [stage EXCEPT ![t] = to]
    BY <1>t, <2>2
  <2>3. \/ CheckSender(t) \/ UNCHANGED stage
        \/ \E to \in Stage \ {"save_row"} : stage' = [stage EXCEPT ![t] = to]
    BY <1>2
       DEF Distribute, TaskStep, ClientAnswers, sync_paste, sync_push_complete,
           FindSource, AskForChunk, ChunkArrives, PullEnds, PullFails,
           SourceRefuses, SkipIcon, FetchIcon, IconAnswered, receive_paste,
           RejectPaste, Snapshot, SkipTarget, SendToTarget, SendNext,
           TargetAnswers, BroadcastEnds, SenderGone, EndTask, Continue, Stage,
           PullStage, RecordStage
  <2> QED
    BY <2>1, <2>2, <2>3
<1> QED
  BY <1>1, <1>2 DEF DistNext

\* Once a removal is answered and nothing overlapped it, no task sends the
\* client another message, not even one that listed or addressed it before,
\* because every message looks the key up anew, and no paste of the client is
\* accepted any more (remove_client, encrypt_for_client, receive_paste).
THEOREM RemovedStaysSilent == DistSpec => RemovedGetsNothing
<1> DEFINE Silent ==
      \A t \in Task, c \in Client :
        ack[c] = "removed" /\ ~contended[c] =>
          /\ ~SendsTo(t, c)
          /\ ~(from[t] = c /\ stage[t] # "save_row" /\ stage'[t] = "save_row")
<1>1. ASSUME DistInv, [DistNext]_dvars PROVE [Silent]_dvars
  <2> SUFFICES ASSUME DistNext, NEW t \in Task, NEW c \in Client,
                      ack[c] = "removed", ~contended[c]
               PROVE  /\ ~SendsTo(t, c)
                      /\ ~(from[t] = c /\ stage[t] # "save_row"
                                      /\ stage'[t] = "save_row")
    BY <1>1
  <2>1. c \notin clients /\ ~encrypt_for_client(c)
    BY <1>1 DEF DistInv, PairingInv, SettledRemoval, encrypt_for_client
  <2> QED
    BY <1>1, <2>1, SendersLookUpKeys, AcceptedSenderIsPaired
<1>2. DistSpec => [][Silent]_dvars
  BY <1>1, DistInvHolds, PTL DEF DistSpec
<1> QED
  BY <1>2 DEF RemovedGetsNothing

\* Once a pairing is answered and nothing overlapped it, every message to the
\* client is encrypted with the key of that pairing, in whatever task it is
\* and whatever key the task used before (encrypt_for_client).
THEOREM MessagesKeepUp == DistSpec => MessagesUseSettledKey
<1> DEFINE KeepUp ==
      \A t \in Task, c \in Client :
        ack[c] = "paired" /\ ~contended[c] /\ SendsTo(t, c) =>
          used_key'[t] = ack_key[c]
<1>1. ASSUME DistInv, [DistNext]_dvars PROVE [KeepUp]_dvars
  <2> SUFFICES ASSUME DistNext, NEW t \in Task, NEW c \in Client,
                      ack[c] = "paired", ~contended[c], SendsTo(t, c)
               PROVE  used_key'[t] = ack_key[c]
    BY <1>1
  <2>1. up /\ used_key'[t] = client_crypt_keys[c]
    BY <1>1, SendersLookUpKeys
  <2>2. client_crypt_keys[c] = ack_key[c]
    BY <1>1, <2>1 DEF DistInv, PairingInv, SettledPairing
  <2> QED
    BY <2>1, <2>2
<1>2. DistSpec => [][KeepUp]_dvars
  BY <1>1, DistInvHolds, PTL DEF DistSpec
<1> QED
  BY <1>2 DEF MessagesUseSettledKey

=============================================================================
