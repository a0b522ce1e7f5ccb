--------------------------- MODULE PairingProofs ---------------------------
(***************************************************************************)
(* Proofs of the safety properties of Pairing, for any number of clients,  *)
(* keys and concurrent requests.                                           *)
(***************************************************************************)
EXTENDS Pairing, TLAPS

\* The hub starts with values of the right types.
LEMMA TypeInit == Init => TypeOK
  BY PairingAssumption
     DEF Init, TypeOK, NoExchange, NoToken, Expiry, Step, PairStep,
         HeartbeatStep

\* Every step of a handler, of the clock and of the process keeps the types.
LEMMA TypeStep == TypeOK /\ [Next]_vars => TypeOK'
<1> USE DEF NoExchange, NoToken, Expiry, Step, PairStep, RemoveStep,
            HeartbeatStep
<1> SUFFICES ASSUME TypeOK, [Next]_vars PROVE TypeOK'
  OBVIOUS
<1> USE DEF memory, database, locals, history
<1>1. ASSUME NEW token \in Token, set_pairing_token(token) PROVE TypeOK'
  BY <1>1, PairingAssumption DEF TypeOK, set_pairing_token
<1>2. ASSUME NEW c \in Client, NEW k \in Key, exchange_keys_v2(c, k)
      PROVE TypeOK'
  BY <1>2, PairingAssumption DEF TypeOK, exchange_keys_v2
<1>3. ASSUME NEW h \in Handler, Pair(h) PROVE TypeOK'
  <2>1. ASSUME NEW c \in Client, NEW k \in Key, NEW token \in Token,
               TrustCheck(h, c, k, token)
        PROVE TypeOK'
    BY <2>1 DEF TypeOK, TrustCheck, Start, NoteStart, Changing
  <2>2. ASSUME NEW c \in Client, NEW k \in Key, ConfirmCheck(h, c, k)
        PROVE TypeOK'
    BY <2>2 DEF TypeOK, ConfirmCheck, Start, NoteStart, Changing
  <2>3. CASE TakePending(h)
    BY <2>3, PairingAssumption DEF TypeOK, TakePending, Goto
  <2>4. CASE InsertKey(h)
    BY <2>4 DEF TypeOK, InsertKey, Goto
  <2>5. CASE InsertClient(h)
    BY <2>5 DEF TypeOK, InsertClient, Goto
  <2>6. CASE save_client(h)
    BY <2>6 DEF TypeOK, save_client, Finish
  <2> QED
    BY <1>3, <2>1, <2>2, <2>3, <2>4, <2>5, <2>6 DEF Pair
<1>4. ASSUME NEW h \in Handler, Remove(h) PROVE TypeOK'
  <2>1. ASSUME NEW c \in Client, RemoveClient(h, c) PROVE TypeOK'
    BY <2>1 DEF TypeOK, RemoveClient, Start, NoteStart, Changing
  <2>2. CASE DropKey(h)
    BY <2>2 DEF TypeOK, DropKey, Goto
  <2>3. CASE DropInfo(h)
    BY <2>3 DEF TypeOK, DropInfo, Goto
  <2>4. CASE DeleteRow(h)
    BY <2>4 DEF TypeOK, DeleteRow, Finish
  <2> QED
    BY <1>4, <2>1, <2>2, <2>3, <2>4 DEF Remove
<1>5. ASSUME NEW h \in Handler, Beat(h) PROVE TypeOK'
  <2>1. ASSUME NEW c \in Client, NEW i \in Info, NEW secure \in BOOLEAN,
               NEW k \in Key, Heartbeat(h, c, i, secure, k)
        PROVE TypeOK'
    BY <2>1 DEF TypeOK, Heartbeat, Start
  <2>2. CASE HeartbeatSave(h)
    BY <2>2 DEF TypeOK, HeartbeatSave, Goto
  <2>3. CASE HeartbeatCache(h)
    BY <2>3 DEF TypeOK, HeartbeatCache, Finish
  <2> QED
    BY <1>5, <2>1, <2>2, <2>3 DEF Beat
<1>6. ASSUME NEW h \in Handler, DatabaseError(h) PROVE TypeOK'
  BY <1>6 DEF TypeOK, DatabaseError, Finish
<1>7. CASE Tick
  BY <1>7, PairingAssumption DEF TypeOK, Tick
<1>8. CASE Crash
  <2>1. /\ 0 \in Expiry
        /\ NoToken \in [value : Token \cup {0}, expires : Expiry]
        /\ NoExchange \in [key : Key \cup {NoKey}, expires : Expiry]
    BY PairingAssumption
  <2>2. /\ now' \in 0 .. MaxTime
        /\ up' \in BOOLEAN
        /\ pairing_token' \in [value : Token \cup {0}, expires : Expiry]
        /\ pending_key_exchanges' \in
             [Client -> [key : Key \cup {NoKey}, expires : Expiry]]
    BY <1>8, <2>1 DEF TypeOK, Crash
  <2> QED
    BY <1>8, <2>2 DEF TypeOK, Crash
<1>9. CASE load_or_create
  BY <1>9 DEF TypeOK, load_or_create, load_clients
<1>10. CASE UNCHANGED vars
  BY <1>10 DEF TypeOK, vars
<1> QED
  BY <1>1, <1>2, <1>3, <1>4, <1>5, <1>6, <1>7, <1>8, <1>9, <1>10
     DEF Next, IssueToken, QrToken

\* Every variable keeps its type, and a handler in the middle of a request
\* carries the client, the key or the SyncInfo the request is about.
THEOREM TypeCorrect == Spec => []TypeOK
  BY TypeInit, TypeStep, PTL DEF Spec

-----------------------------------------------------------------------------
\* With empty maps and no request under way there is nothing to settle.
LEMMA PairingInvInit == Init => PairingInv
  BY DEF Init, PairingInv, Alone, AnsweredMeansQuiet, Progress, Changing,
     Quiet, CarriedKeysApproved, DownIsEmpty, MapsAgree, SettledPairing,
     SettledRemoval, KeyProvenance, StoredInfoHasRow, PairStep, RemoveStep

\* The inductive step, action by action: a handler that changes a client alone
\* finds the maps as it left them, and one that is overlapped has marked the
\* client as contended.
LEMMA PairingInvStep == TypeOK /\ PairingInv /\ [Next]_vars => PairingInv'
<1> SUFFICES ASSUME TypeOK, PairingInv, [Next]_vars PROVE PairingInv'
  OBVIOUS
<1>0. /\ Alone /\ AnsweredMeansQuiet /\ Progress /\ CarriedKeysApproved
      /\ DownIsEmpty /\ MapsAgree /\ SettledPairing /\ SettledRemoval
      /\ KeyProvenance /\ StoredInfoHasRow
  BY DEF PairingInv
<1> USE <1>0
<1> USE DEF TypeOK, PairStep, RemoveStep, HeartbeatStep, Step, memory,
            database, locals, history
<1>1. ASSUME UNCHANGED <<up, clients, client_crypt_keys, database, locals,
                         history>>
      PROVE PairingInv'
  BY <1>1 DEF PairingInv, Alone, AnsweredMeansQuiet, Progress, Changing,
     Quiet, CarriedKeysApproved, DownIsEmpty, MapsAgree, SettledPairing,
     SettledRemoval, KeyProvenance, StoredInfoHasRow
<1>2. ASSUME \/ \E token \in Token : set_pairing_token(token)
             \/ \E c \in Client, k \in Key : exchange_keys_v2(c, k)
             \/ Tick
             \/ UNCHANGED vars
      PROVE PairingInv'
  BY <1>1, <1>2 DEF set_pairing_token, exchange_keys_v2, Tick, vars
<1>3. ASSUME NEW h \in Handler, Pair(h) PROVE PairingInv'
  <2>1. ASSUME NEW c \in Client, NEW k \in Key, NEW token \in Token,
               TrustCheck(h, c, k, token)
        PROVE PairingInv'
    <3>1. (Alone /\ AnsweredMeansQuiet)'
      BY <2>1, PairingAssumption DEF Alone, AnsweredMeansQuiet, Quiet,
         Changing, TrustCheck, Start, NoteStart
    <3>2. Progress'
      BY <2>1, PairingAssumption DEF Alone, Progress, Changing, TrustCheck,
         Start, NoteStart
    <3>3. (CarriedKeysApproved /\ KeyProvenance)'
      BY <2>1, PairingAssumption DEF CarriedKeysApproved, KeyProvenance,
         TrustCheck, Start, NoteStart
    <3>4. (DownIsEmpty /\ StoredInfoHasRow)'
      BY <2>1, PairingAssumption DEF DownIsEmpty, StoredInfoHasRow,
         TrustCheck, Start, NoteStart
    <3>5. MapsAgree'
      BY <2>1, PairingAssumption DEF MapsAgree, Progress, Quiet, Changing,
         TrustCheck, Start, NoteStart
    <3>6. (SettledPairing /\ SettledRemoval)'
      BY <2>1, PairingAssumption DEF SettledPairing, SettledRemoval,
         AnsweredMeansQuiet, Progress, Quiet, Changing, TrustCheck, Start,
         NoteStart
    <3> QED
      BY <3>1, <3>2, <3>3, <3>4, <3>5, <3>6 DEF PairingInv
  <2>2. ASSUME NEW c \in Client, NEW k \in Key, ConfirmCheck(h, c, k)
        PROVE PairingInv'
    <3>1. (Alone /\ AnsweredMeansQuiet)'
      BY <2>2, PairingAssumption DEF Alone, AnsweredMeansQuiet, Quiet,
         Changing, ConfirmCheck, Start, NoteStart
    <3>2. Progress'
      BY <2>2, PairingAssumption DEF Alone, Progress, Changing, ConfirmCheck,
         Start, NoteStart
    <3>3. (CarriedKeysApproved /\ KeyProvenance)'
      BY <2>2, PairingAssumption DEF CarriedKeysApproved, KeyProvenance,
         ConfirmCheck, Start, NoteStart
    <3>4. (DownIsEmpty /\ StoredInfoHasRow)'
      BY <2>2, PairingAssumption DEF DownIsEmpty, StoredInfoHasRow,
         ConfirmCheck, Start, NoteStart
    <3>5. MapsAgree'
      BY <2>2, PairingAssumption DEF MapsAgree, Progress, Quiet, Changing,
         ConfirmCheck, Start, NoteStart
    <3>6. (SettledPairing /\ SettledRemoval)'
      BY <2>2, PairingAssumption DEF SettledPairing, SettledRemoval,
         AnsweredMeansQuiet, Progress, Quiet, Changing, ConfirmCheck, Start,
         NoteStart
    <3> QED
      BY <3>1, <3>2, <3>3, <3>4, <3>5, <3>6 DEF PairingInv
  <2>3. CASE TakePending(h)
    <3>1. (Alone /\ AnsweredMeansQuiet)'
      BY <2>3, PairingAssumption DEF Alone, AnsweredMeansQuiet, Quiet,
         Changing, TakePending, Goto
    <3>2. Progress'
      BY <2>3, PairingAssumption DEF Alone, Progress, Changing, TakePending,
         Goto
    <3>3. (CarriedKeysApproved /\ KeyProvenance)'
      BY <2>3, PairingAssumption DEF CarriedKeysApproved, KeyProvenance,
         TakePending, Goto
    <3>4. (DownIsEmpty /\ StoredInfoHasRow)'
      BY <2>3, PairingAssumption DEF DownIsEmpty, StoredInfoHasRow,
         TakePending, Goto
    <3>5. MapsAgree'
      BY <2>3, PairingAssumption DEF MapsAgree, Progress, Quiet, Changing,
         TakePending, Goto
    <3>6. (SettledPairing /\ SettledRemoval)'
      BY <2>3, PairingAssumption DEF SettledPairing, SettledRemoval,
         AnsweredMeansQuiet, Progress, Quiet, Changing, TakePending, Goto
    <3> QED
      BY <3>1, <3>2, <3>3, <3>4, <3>5, <3>6 DEF PairingInv
  <2>4. CASE InsertKey(h)
    <3>1. (Alone /\ AnsweredMeansQuiet)'
      BY <2>4, PairingAssumption DEF Alone, AnsweredMeansQuiet, Quiet,
         Changing, InsertKey, Goto
    <3>2. Progress'
      BY <2>4, PairingAssumption DEF Alone, Progress, Changing, InsertKey,
         Goto
    <3>3. (CarriedKeysApproved /\ KeyProvenance)'
      BY <2>4, PairingAssumption DEF CarriedKeysApproved, KeyProvenance,
         InsertKey, Goto
    <3>4. (DownIsEmpty /\ StoredInfoHasRow)'
      BY <2>4, PairingAssumption DEF DownIsEmpty, StoredInfoHasRow,
         InsertKey, Goto
    <3>5. MapsAgree'
      BY <2>4, PairingAssumption DEF MapsAgree, Progress, Quiet, Changing,
         InsertKey, Goto
    <3>6. (SettledPairing /\ SettledRemoval)'
      BY <2>4, PairingAssumption DEF SettledPairing, SettledRemoval,
         AnsweredMeansQuiet, Progress, Quiet, Changing, InsertKey, Goto
    <3> QED
      BY <3>1, <3>2, <3>3, <3>4, <3>5, <3>6 DEF PairingInv
  <2>5. CASE InsertClient(h)
    <3>1. (Alone /\ AnsweredMeansQuiet)'
      BY <2>5, PairingAssumption DEF Alone, AnsweredMeansQuiet, Quiet,
         Changing, InsertClient, Goto
    <3>2. Progress'
      BY <2>5, PairingAssumption DEF Alone, Progress, Changing, InsertClient,
         Goto
    <3>3. (CarriedKeysApproved /\ KeyProvenance)'
      BY <2>5, PairingAssumption DEF CarriedKeysApproved, KeyProvenance,
         InsertClient, Goto
    <3>4. (DownIsEmpty /\ StoredInfoHasRow)'
      BY <2>5, PairingAssumption DEF DownIsEmpty, StoredInfoHasRow,
         InsertClient, Goto
    <3>5. MapsAgree'
      BY <2>5, PairingAssumption DEF MapsAgree, Progress, Quiet, Changing,
         InsertClient, Goto
    <3>6. (SettledPairing /\ SettledRemoval)'
      BY <2>5, PairingAssumption DEF SettledPairing, SettledRemoval,
         AnsweredMeansQuiet, Progress, Quiet, Changing, InsertClient, Goto
    <3> QED
      BY <3>1, <3>2, <3>3, <3>4, <3>5, <3>6 DEF PairingInv
  <2>6. CASE save_client(h)
    <3>1. (Alone /\ AnsweredMeansQuiet)'
      BY <2>6, PairingAssumption DEF Alone, AnsweredMeansQuiet, Quiet,
         Changing, save_client, Finish
    <3>2. Progress'
      BY <2>6, PairingAssumption DEF Alone, Progress, Changing, save_client,
         Finish
    <3>3. (CarriedKeysApproved /\ KeyProvenance)'
      BY <2>6, PairingAssumption DEF CarriedKeysApproved, KeyProvenance,
         save_client, Finish
    <3>4. (DownIsEmpty /\ StoredInfoHasRow)'
      BY <2>6, PairingAssumption DEF DownIsEmpty, StoredInfoHasRow,
         save_client, Finish
    <3>5. MapsAgree'
      BY <2>6, PairingAssumption DEF MapsAgree, Progress, Quiet, Changing,
         save_client, Finish
    <3>6. (SettledPairing /\ SettledRemoval)'
      BY <2>6, PairingAssumption DEF SettledPairing, SettledRemoval,
         AnsweredMeansQuiet, Progress, Quiet, Changing, save_client, Finish
    <3> QED
      BY <3>1, <3>2, <3>3, <3>4, <3>5, <3>6 DEF PairingInv
  <2> QED
    BY <1>3, <2>1, <2>2, <2>3, <2>4, <2>5, <2>6 DEF Pair
<1>4. ASSUME NEW h \in Handler, Remove(h) PROVE PairingInv'
  <2>1. ASSUME NEW c \in Client, RemoveClient(h, c) PROVE PairingInv'
    <3>1. (Alone /\ AnsweredMeansQuiet)'
      BY <2>1, PairingAssumption DEF Alone, AnsweredMeansQuiet, Quiet,
         Changing, RemoveClient, Start, NoteStart
    <3>2. Progress'
      BY <2>1, PairingAssumption DEF Alone, Progress, Changing, RemoveClient,
         Start, NoteStart
    <3>3. (CarriedKeysApproved /\ KeyProvenance)'
      BY <2>1, PairingAssumption DEF CarriedKeysApproved, KeyProvenance,
         RemoveClient, Start, NoteStart
    <3>4. (DownIsEmpty /\ StoredInfoHasRow)'
      BY <2>1, PairingAssumption DEF DownIsEmpty, StoredInfoHasRow,
         RemoveClient, Start, NoteStart
    <3>5. MapsAgree'
      <4> SUFFICES ASSUME NEW d \in Client, Quiet(d)', ~contended'[d]
                   PROVE (d \in clients <=> client_crypt_keys[d] # NoKey)'
        BY DEF MapsAgree
      <4>1. Changing(h, c)'
        BY <2>1 DEF Changing, RemoveClient, Start
      <4>2. d # c
        BY <4>1 DEF Quiet
      <4>3. Quiet(d) /\ ~contended[d]
        BY <2>1, <4>2 DEF Quiet, Changing, RemoveClient, Start, NoteStart
      <4> QED
        BY <2>1, <4>2, <4>3 DEF MapsAgree, RemoveClient
    <3>6. (SettledPairing /\ SettledRemoval)'
      BY <2>1, PairingAssumption DEF SettledPairing, SettledRemoval,
         AnsweredMeansQuiet, Progress, Quiet, Changing, RemoveClient, Start,
         NoteStart
    <3> QED
      BY <3>1, <3>2, <3>3, <3>4, <3>5, <3>6 DEF PairingInv
  <2>2. CASE DropKey(h)
    <3>1. (Alone /\ AnsweredMeansQuiet)'
      BY <2>2, PairingAssumption DEF Alone, AnsweredMeansQuiet, Quiet,
         Changing, DropKey, Goto
    <3>2. Progress'
      BY <2>2, PairingAssumption DEF Alone, Progress, Changing, DropKey, Goto
    <3>3. (CarriedKeysApproved /\ KeyProvenance)'
      BY <2>2, PairingAssumption DEF CarriedKeysApproved, KeyProvenance,
         DropKey, Goto
    <3>4. (DownIsEmpty /\ StoredInfoHasRow)'
      BY <2>2, PairingAssumption DEF DownIsEmpty, StoredInfoHasRow, DropKey,
         Goto
    <3>5. MapsAgree'
      BY <2>2, PairingAssumption DEF MapsAgree, Progress, Quiet, Changing,
         DropKey, Goto
    <3>6. (SettledPairing /\ SettledRemoval)'
      BY <2>2, PairingAssumption DEF SettledPairing, SettledRemoval,
         AnsweredMeansQuiet, Progress, Quiet, Changing, DropKey, Goto
    <3> QED
      BY <3>1, <3>2, <3>3, <3>4, <3>5, <3>6 DEF PairingInv
  <2>3. CASE DropInfo(h)
    <3>1. (Alone /\ AnsweredMeansQuiet)'
      BY <2>3, PairingAssumption DEF Alone, AnsweredMeansQuiet, Quiet,
         Changing, DropInfo, Goto
    <3>2. Progress'
      BY <2>3, PairingAssumption DEF Alone, Progress, Changing, DropInfo,
         Goto
    <3>3. (CarriedKeysApproved /\ KeyProvenance)'
      BY <2>3, PairingAssumption DEF CarriedKeysApproved, KeyProvenance,
         DropInfo, Goto
    <3>4. (DownIsEmpty /\ StoredInfoHasRow)'
      BY <2>3, PairingAssumption DEF DownIsEmpty, StoredInfoHasRow, DropInfo,
         Goto
    <3>5. MapsAgree'
      BY <2>3, PairingAssumption DEF MapsAgree, Progress, Quiet, Changing,
         DropInfo, Goto
    <3>6. (SettledPairing /\ SettledRemoval)'
      BY <2>3, PairingAssumption DEF SettledPairing, SettledRemoval,
         AnsweredMeansQuiet, Progress, Quiet, Changing, DropInfo, Goto
    <3> QED
      BY <3>1, <3>2, <3>3, <3>4, <3>5, <3>6 DEF PairingInv
  <2>4. CASE DeleteRow(h)
    <3>1. (Alone /\ AnsweredMeansQuiet)'
      BY <2>4, PairingAssumption DEF Alone, AnsweredMeansQuiet, Quiet,
         Changing, DeleteRow, Finish
    <3>2. Progress'
      BY <2>4, PairingAssumption DEF Alone, Progress, Changing, DeleteRow,
         Finish
    <3>3. (CarriedKeysApproved /\ KeyProvenance)'
      BY <2>4, PairingAssumption DEF CarriedKeysApproved, KeyProvenance,
         DeleteRow, Finish
    <3>4. (DownIsEmpty /\ StoredInfoHasRow)'
      BY <2>4, PairingAssumption DEF DownIsEmpty, StoredInfoHasRow,
         DeleteRow, Finish
    <3>5. MapsAgree'
      BY <2>4, PairingAssumption DEF MapsAgree, Progress, Quiet, Changing,
         DeleteRow, Finish
    <3>6. (SettledPairing /\ SettledRemoval)'
      BY <2>4, PairingAssumption DEF SettledPairing, SettledRemoval,
         AnsweredMeansQuiet, Progress, Quiet, Changing, DeleteRow, Finish
    <3> QED
      BY <3>1, <3>2, <3>3, <3>4, <3>5, <3>6 DEF PairingInv
  <2> QED
    BY <1>4, <2>1, <2>2, <2>3, <2>4 DEF Remove
<1>5. ASSUME NEW h \in Handler, Beat(h) PROVE PairingInv'
  <2>1. ASSUME NEW c \in Client, NEW i \in Info, NEW secure \in BOOLEAN,
               NEW k \in Key, Heartbeat(h, c, i, secure, k)
        PROVE PairingInv'
    <3>1. (Alone /\ AnsweredMeansQuiet)'
      BY <2>1, PairingAssumption DEF Alone, AnsweredMeansQuiet, Quiet,
         Changing, Heartbeat, Start
    <3>2. Progress'
      BY <2>1, PairingAssumption DEF Alone, Progress, Changing, Heartbeat,
         Start
    <3>3. (CarriedKeysApproved /\ KeyProvenance)'
      BY <2>1, PairingAssumption DEF CarriedKeysApproved, KeyProvenance,
         Heartbeat, Start
    <3>4. (DownIsEmpty /\ StoredInfoHasRow)'
      BY <2>1, PairingAssumption DEF DownIsEmpty, StoredInfoHasRow,
         Heartbeat, Start
    <3>5. MapsAgree'
      BY <2>1, PairingAssumption DEF MapsAgree, Progress, Quiet, Changing,
         Heartbeat, Start
    <3>6. (SettledPairing /\ SettledRemoval)'
      BY <2>1, PairingAssumption DEF SettledPairing, SettledRemoval,
         AnsweredMeansQuiet, Progress, Quiet, Changing, Heartbeat, Start
    <3> QED
      BY <3>1, <3>2, <3>3, <3>4, <3>5, <3>6 DEF PairingInv
  <2>2. CASE HeartbeatSave(h)
    <3>1. (Alone /\ AnsweredMeansQuiet)'
      BY <2>2, PairingAssumption DEF Alone, AnsweredMeansQuiet, Quiet,
         Changing, HeartbeatSave, Goto
    <3>2. Progress'
      BY <2>2, PairingAssumption DEF Alone, Progress, Changing,
         HeartbeatSave, Goto
    <3>3. (CarriedKeysApproved /\ KeyProvenance)'
      BY <2>2, PairingAssumption DEF CarriedKeysApproved, KeyProvenance,
         HeartbeatSave, Goto
    <3>4. (DownIsEmpty /\ StoredInfoHasRow)'
      BY <2>2, PairingAssumption DEF DownIsEmpty, StoredInfoHasRow,
         HeartbeatSave, Goto
    <3>5. MapsAgree'
      BY <2>2, PairingAssumption DEF MapsAgree, Progress, Quiet, Changing,
         HeartbeatSave, Goto
    <3>6. (SettledPairing /\ SettledRemoval)'
      BY <2>2, PairingAssumption DEF SettledPairing, SettledRemoval,
         AnsweredMeansQuiet, Progress, Quiet, Changing, HeartbeatSave, Goto
    <3> QED
      BY <3>1, <3>2, <3>3, <3>4, <3>5, <3>6 DEF PairingInv
  <2>3. CASE HeartbeatCache(h)
    <3>1. (Alone /\ AnsweredMeansQuiet)'
      BY <2>3, PairingAssumption DEF Alone, AnsweredMeansQuiet, Quiet,
         Changing, HeartbeatCache, Finish
    <3>2. Progress'
      BY <2>3, PairingAssumption DEF Alone, Progress, Changing,
         HeartbeatCache, Finish
    <3>3. (CarriedKeysApproved /\ KeyProvenance)'
      BY <2>3, PairingAssumption DEF CarriedKeysApproved, KeyProvenance,
         HeartbeatCache, Finish
    <3>4. (DownIsEmpty /\ StoredInfoHasRow)'
      BY <2>3, PairingAssumption DEF DownIsEmpty, StoredInfoHasRow,
         HeartbeatCache, Finish
    <3>5. MapsAgree'
      BY <2>3, PairingAssumption DEF MapsAgree, Progress, Quiet, Changing,
         HeartbeatCache, Finish
    <3>6. (SettledPairing /\ SettledRemoval)'
      BY <2>3, PairingAssumption DEF SettledPairing, SettledRemoval,
         AnsweredMeansQuiet, Progress, Quiet, Changing, HeartbeatCache,
         Finish
    <3> QED
      BY <3>1, <3>2, <3>3, <3>4, <3>5, <3>6 DEF PairingInv
  <2> QED
    BY <1>5, <2>1, <2>2, <2>3 DEF Beat
<1>6. ASSUME NEW h \in Handler, DatabaseError(h) PROVE PairingInv'
  <2>1. (Alone /\ AnsweredMeansQuiet)'
    BY <1>6, PairingAssumption DEF Alone, AnsweredMeansQuiet, Quiet,
       Changing, DatabaseError, Finish
  <2>2. Progress'
    BY <1>6, PairingAssumption DEF Alone, Progress, Changing, DatabaseError,
       Finish
  <2>3. (CarriedKeysApproved /\ KeyProvenance)'
    BY <1>6, PairingAssumption DEF CarriedKeysApproved, KeyProvenance,
       DatabaseError, Finish
  <2>4. (DownIsEmpty /\ StoredInfoHasRow)'
    BY <1>6, PairingAssumption DEF DownIsEmpty, StoredInfoHasRow,
       DatabaseError, Finish
  <2>5. MapsAgree'
    BY <1>6, PairingAssumption DEF MapsAgree, Progress, Quiet, Changing,
       DatabaseError, Finish
  <2>6. (SettledPairing /\ SettledRemoval)'
    BY <1>6, PairingAssumption DEF SettledPairing, SettledRemoval,
       AnsweredMeansQuiet, Progress, Quiet, Changing, DatabaseError, Finish
  <2> QED
    BY <2>1, <2>2, <2>3, <2>4, <2>5, <2>6 DEF PairingInv
<1>7. CASE Crash
  <2>1. (Alone /\ AnsweredMeansQuiet)'
    BY <1>7, PairingAssumption DEF Alone, AnsweredMeansQuiet, Quiet,
       Changing, Crash
  <2>2. Progress'
    BY <1>7, PairingAssumption DEF Alone, Progress, Changing, Crash
  <2>3. (CarriedKeysApproved /\ KeyProvenance)'
    BY <1>7, PairingAssumption DEF CarriedKeysApproved, KeyProvenance, Crash
  <2>4. (DownIsEmpty /\ StoredInfoHasRow)'
    BY <1>7, PairingAssumption DEF DownIsEmpty, StoredInfoHasRow, Crash
  <2>5. MapsAgree'
    BY <1>7, PairingAssumption DEF MapsAgree, Progress, Quiet, Changing,
       Crash
  <2>6. (SettledPairing /\ SettledRemoval)'
    BY <1>7, PairingAssumption DEF SettledPairing, SettledRemoval,
       AnsweredMeansQuiet, Progress, Quiet, Changing, Crash
  <2> QED
    BY <2>1, <2>2, <2>3, <2>4, <2>5, <2>6 DEF PairingInv
<1>8. CASE load_or_create
  <2>1. (Alone /\ AnsweredMeansQuiet)'
    BY <1>8, PairingAssumption DEF Alone, AnsweredMeansQuiet, Quiet,
       Changing, load_or_create, load_clients
  <2>2. Progress'
    BY <1>8, PairingAssumption DEF Progress, Changing, DownIsEmpty,
       load_or_create, load_clients
  <2>3. (CarriedKeysApproved /\ KeyProvenance)'
    BY <1>8, PairingAssumption DEF CarriedKeysApproved, KeyProvenance,
       load_or_create, load_clients
  <2>4. (DownIsEmpty /\ StoredInfoHasRow)'
    BY <1>8, PairingAssumption DEF DownIsEmpty, StoredInfoHasRow,
       load_or_create, load_clients
  <2>5. MapsAgree'
    BY <1>8, PairingAssumption DEF MapsAgree, Progress, Quiet, Changing,
       DownIsEmpty, load_or_create, load_clients
  <2>6. (SettledPairing /\ SettledRemoval)'
    BY <1>8, PairingAssumption DEF SettledPairing, SettledRemoval,
       AnsweredMeansQuiet, Progress, Quiet, Changing, DownIsEmpty,
       load_or_create, load_clients
  <2> QED
    BY <2>1, <2>2, <2>3, <2>4, <2>5, <2>6 DEF PairingInv
<1> QED
  <2> HIDE <1>0 DEF TypeOK
  <2> QED
    BY <1>2, <1>3, <1>4, <1>5, <1>6, <1>7, <1>8
       DEF Next, IssueToken, QrToken

-----------------------------------------------------------------------------
\* A successful pairing that nothing overlapped is settled: maps, row and
\* answer agree until the next change of the client, across crashes and
\* restarts, for any number of concurrent requests about any number of clients.
THEOREM PairingsAreSettled == Spec => []SettledPairing
<1>1. Init => TypeOK /\ PairingInv
  BY PairingInvInit, TypeInit
<1>2. TypeOK /\ PairingInv /\ [Next]_vars => (TypeOK /\ PairingInv)'
  BY PairingInvStep, TypeStep
<1>3. PairingInv => SettledPairing
  BY DEF PairingInv
<1> QED
  BY <1>1, <1>2, <1>3, PTL DEF Spec

\* A successful removal that nothing overlapped is settled: no key, no pairing
\* and no SyncInfo is left in the table or comes back with a restart, whatever
\* heartbeats of the client were under way.
THEOREM RemovalsAreSettled == Spec => []SettledRemoval
<1>1. Init => TypeOK /\ PairingInv
  BY PairingInvInit, TypeInit
<1>2. TypeOK /\ PairingInv /\ [Next]_vars => (TypeOK /\ PairingInv)'
  BY PairingInvStep, TypeStep
<1>3. PairingInv => SettledRemoval
  BY DEF PairingInv
<1> QED
  BY <1>1, <1>2, <1>3, PTL DEF Spec

\* No interleaving stores a key for a client that did not pass its check.
THEOREM KeysAreApproved == Spec => []KeyProvenance
<1>1. Init => TypeOK /\ PairingInv
  BY PairingInvInit, TypeInit
<1>2. TypeOK /\ PairingInv /\ [Next]_vars => (TypeOK /\ PairingInv)'
  BY PairingInvStep, TypeStep
<1>3. PairingInv => KeyProvenance
  BY DEF PairingInv
<1> QED
  BY <1>1, <1>2, <1>3, PTL DEF Spec

\* The map of pairings and the map of keys agree between requests, and no
\* SyncInfo is stored for a client without a row.
THEOREM MapsAndRowsAgree == Spec => [](MapsAgree /\ StoredInfoHasRow)
<1>1. Init => TypeOK /\ PairingInv
  BY PairingInvInit, TypeInit
<1>2. TypeOK /\ PairingInv /\ [Next]_vars => (TypeOK /\ PairingInv)'
  BY PairingInvStep, TypeStep
<1>3. PairingInv => MapsAgree /\ StoredInfoHasRow
  BY DEF PairingInv
<1> QED
  BY <1>1, <1>2, <1>3, PTL DEF Spec

=============================================================================
