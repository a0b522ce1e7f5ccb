------------------------------ MODULE Pairing ------------------------------
(***************************************************************************)
(* Device pairing in the hub (hub.rs), its copy in SQLite (database.rs)    *)
(* and the routes that drive it (routes.rs, admin.rs).                     *)
(*                                                                         *)
(* The hub keeps one concurrent map per fact about a client: paired or not,*)
(* its public key, its last SyncInfo.  The map operations are atomic, the  *)
(* handlers made of several of them are not: requests run on the worker    *)
(* threads of the runtime and interleave between any two operations.  A    *)
(* handler is therefore a process whose program counter names the next map *)
(* or database operation.  The process may crash at any point; the         *)
(* database survives, the maps do not.                                     *)
(***************************************************************************)
EXTENDS Naturals

CONSTANTS
  Client,      \* application instance ids
  Key,         \* identities: a signing key together with its crypt key
  Info,        \* contents of a SyncInfo
  Token,       \* values of the v1 pairing token (u32; 0 is "none")
  Handler,     \* requests the server may be working on at the same time
  NoClient, NoKey, NoInfo,
  TTL,         \* PAIRING_TOKEN_TTL_MS, in clock ticks
  MaxTime,     \* bound of the clock
  StatementsFail  \* whether a database statement may fail

ASSUME PairingAssumption ==
  /\ NoClient \notin Client
  /\ NoKey \notin Key
  /\ NoInfo \notin Info
  /\ Token \subseteq Nat
  /\ TTL \in Nat
  /\ MaxTime \in Nat
  /\ StatementsFail \in BOOLEAN

VARIABLES
  now,                    \* now_ms()
  up,                     \* the process is running
  pairing_token,          \* [value, expires]: the one v1 token of the hub
  pending_key_exchanges,  \* v2 exchanges waiting for their confirmation
  clients,                \* the paired clients
  client_crypt_keys,      \* the key each client is encrypted for
  client_sync_infos,      \* the last SyncInfo of each client
  db_key, db_info,        \* table paired_clients; no key means no row
  pc, who, key, info,     \* next operation of each handler, and its locals
  ack, ack_key,           \* history: last answer given about each client
  contended,              \* history: requests about the client overlapped
  approved                \* history: keys whose owner passed the check

memory == <<pairing_token, pending_key_exchanges, clients,
            client_crypt_keys, client_sync_infos>>
database == <<db_key, db_info>>
locals == <<pc, who, key, info>>
history == <<ack, ack_key, contended, approved>>
vars == <<now, up, memory, database, locals, history>>

-----------------------------------------------------------------------------
NoExchange == [key |-> NoKey, expires |-> 0]
NoToken == [value |-> 0, expires |-> 0]

PairStep == {"take_pending", "insert_key", "insert_client", "save_row"}
RemoveStep == {"drop_key", "drop_info", "delete_row"}
HeartbeatStep == {"hb_save", "hb_cache"}
Step == PairStep \cup RemoveStep \cup HeartbeatStep

Expiry == 0 .. (MaxTime + TTL)

TypeOK ==
  /\ now \in 0 .. MaxTime
  /\ up \in BOOLEAN
  /\ pairing_token \in [value : Token \cup {0}, expires : Expiry]
  /\ pending_key_exchanges \in
       [Client -> [key : Key \cup {NoKey}, expires : Expiry]]
  /\ clients \in SUBSET Client
  /\ client_crypt_keys \in [Client -> Key \cup {NoKey}]
  /\ client_sync_infos \in [Client -> Info \cup {NoInfo}]
  /\ db_key \in [Client -> Key \cup {NoKey}]
  /\ db_info \in [Client -> Info \cup {NoInfo}]
  /\ pc \in [Handler -> Step \cup {"idle"}]
  /\ who \in [Handler -> Client \cup {NoClient}]
  /\ key \in [Handler -> Key \cup {NoKey}]
  /\ info \in [Handler -> Info \cup {NoInfo}]
  /\ ack \in [Client -> {"none", "paired", "removed"}]
  /\ ack_key \in [Client -> Key \cup {NoKey}]
  /\ contended \in [Client -> BOOLEAN]
  /\ approved \in [Client -> SUBSET Key]
  /\ \A c \in Client : ack[c] = "paired" => ack_key[c] \in Key
  /\ \A h \in Handler :
       /\ pc[h] # "idle" => who[h] \in Client
       /\ pc[h] \in PairStep => key[h] \in Key
       /\ pc[h] \in HeartbeatStep => info[h] \in Info

Init ==
  /\ now = 0
  /\ up = TRUE
  /\ pairing_token = NoToken
  /\ pending_key_exchanges = [c \in Client |-> NoExchange]
  /\ clients = {}
  /\ client_crypt_keys = [c \in Client |-> NoKey]
  /\ client_sync_infos = [c \in Client |-> NoInfo]
  /\ db_key = [c \in Client |-> NoKey]
  /\ db_info = [c \in Client |-> NoInfo]
  /\ pc = [h \in Handler |-> "idle"]
  /\ who = [h \in Handler |-> NoClient]
  /\ key = [h \in Handler |-> NoKey]
  /\ info = [h \in Handler |-> NoInfo]
  /\ ack = [c \in Client |-> "none"]
  /\ ack_key = [c \in Client |-> NoKey]
  /\ contended = [c \in Client |-> FALSE]
  /\ approved = [c \in Client |-> {}]

-----------------------------------------------------------------------------
(* Handlers *)

\* Handler h takes up a request about client c; its next operation is step.
Start(h, c, k, i, step) ==
  /\ up
  /\ pc[h] = "idle"
  /\ pc' = [pc EXCEPT ![h] = step]
  /\ who' = [who EXCEPT ![h] = c]
  /\ key' = [key EXCEPT ![h] = k]
  /\ info' = [info EXCEPT ![h] = i]

Goto(h, from, to) ==
  /\ pc[h] = from
  /\ pc' = [pc EXCEPT ![h] = to]
  /\ UNCHANGED <<who, key, info>>

\* The request is answered and its locals are gone.
Finish(h, from) ==
  /\ pc[h] = from
  /\ pc' = [pc EXCEPT ![h] = "idle"]
  /\ who' = [who EXCEPT ![h] = NoClient]
  /\ key' = [key EXCEPT ![h] = NoKey]
  /\ info' = [info EXCEPT ![h] = NoInfo]

\* The routes' check of the appInstanceId header: the client is paired now.
require_paired_client(c) == c \in clients

\* A body sent with the secure header has to decrypt under the stored key.
maybe_decrypt_body(c, secure, k) == secure => client_crypt_keys[c] = k

\* h is in the middle of pairing or removing client c.
Changing(h, c) == who[h] = c /\ pc[h] \in PairStep \cup RemoveStep

\* History of a pairing or removal of c that has just been taken up.
NoteStart(c) ==
  /\ ack' = [ack EXCEPT ![c] = "none"]
  /\ ack_key' = [ack_key EXCEPT ![c] = NoKey]
  /\ contended' = [contended EXCEPT ![c] = \E h \in Handler : Changing(h, c)]

-----------------------------------------------------------------------------
(* Pairing codes *)

\* set_pairing_token_for: the hub has a single token slot, overwritten by
\* whoever asks for a code last.
set_pairing_token(token) ==
  /\ up
  /\ pairing_token' = [value |-> token, expires |-> now + TTL]
  /\ UNCHANGED <<now, up, pending_key_exchanges, clients, client_crypt_keys,
                 client_sync_infos, database, locals, history>>

\* /sync/showToken and the admin console: a random token, never 0.
IssueToken == \E token \in Token \ {0} : set_pairing_token(token)

\* /v1/pairing/qr: the caller's token, or nanoseconds modulo 10^6; may be 0.
QrToken == \E token \in Token : set_pairing_token(token)

\* exchange_keys_v2: a second exchange of the same client replaces the first.
exchange_keys_v2(c, k) ==
  /\ up
  /\ pending_key_exchanges' =
       [pending_key_exchanges EXCEPT ![c] = [key |-> k, expires |-> now + TTL]]
  /\ UNCHANGED <<now, up, pairing_token, clients, client_crypt_keys,
                 client_sync_infos, database, locals, history>>

-----------------------------------------------------------------------------
(* Accepting a client *)

\* trust_v1 up to the drop of the token lock.  The token is not consumed.
TrustCheck(h, c, k, token) ==
  /\ pairing_token.value # 0
  /\ pairing_token.expires >= now
  /\ token = pairing_token.value
  /\ Start(h, c, k, NoInfo, "insert_key")
  /\ NoteStart(c)
  /\ approved' = [approved EXCEPT ![c] = @ \cup {k}]
  /\ UNCHANGED <<now, up, memory, database>>

\* confirm_trust_v2 up to the drop of the map guard.  The confirmation is
\* signed by k and verified against the key of the pending exchange.
ConfirmCheck(h, c, k) ==
  LET pending == pending_key_exchanges[c] IN
  /\ pending.key # NoKey
  /\ pending.expires >= now
  /\ pending.key = k
  /\ Start(h, c, pending.key, NoInfo, "take_pending")
  /\ NoteStart(c)
  /\ approved' = [approved EXCEPT ![c] = @ \cup {k}]
  /\ UNCHANGED <<now, up, memory, database>>

\* Mutant of TakePending: the key is read from the entry after its removal.
TakePendingThenRead(h) ==
  /\ pc[h] = "take_pending"
  /\ pc' = [pc EXCEPT ![h] = "insert_key"]
  /\ pending_key_exchanges' =
       [pending_key_exchanges EXCEPT ![who[h]] = NoExchange]
  /\ key' = [key EXCEPT ![h] = pending_key_exchanges'[who[h]].key]
  /\ UNCHANGED <<now, up, pairing_token, clients, client_crypt_keys,
                 client_sync_infos, who, info, database, history>>

\* Removes whatever exchange is pending by now, which need not be the one
\* that was checked.
TakePending(h) ==
  /\ Goto(h, "take_pending", "insert_key")
  /\ pending_key_exchanges' =
       [pending_key_exchanges EXCEPT ![who[h]] = NoExchange]
  /\ UNCHANGED <<now, up, pairing_token, clients, client_crypt_keys,
                 client_sync_infos, database, history>>

\* Mutant of InsertKey: a newer exchange wins over the one that was checked.
InsertNewestKey(h) ==
  LET newest == pending_key_exchanges[who[h]].key IN
  /\ Goto(h, "insert_key", "insert_client")
  /\ client_crypt_keys' = [client_crypt_keys EXCEPT
       ![who[h]] = IF newest = NoKey THEN key[h] ELSE newest]
  /\ UNCHANGED <<now, up, pairing_token, pending_key_exchanges, clients,
                 client_sync_infos, database, history>>

InsertKey(h) ==
  /\ Goto(h, "insert_key", "insert_client")
  /\ client_crypt_keys' = [client_crypt_keys EXCEPT ![who[h]] = key[h]]
  /\ UNCHANGED <<now, up, pairing_token, pending_key_exchanges, clients,
                 client_sync_infos, database, history>>

InsertClient(h) ==
  /\ Goto(h, "insert_client", "save_row")
  /\ clients' = clients \cup {who[h]}
  /\ UNCHANGED <<now, up, pairing_token, pending_key_exchanges,
                 client_crypt_keys, client_sync_infos, database, history>>

\* Mutant of save_client: INSERT OR IGNORE, which keeps the old key.
SaveClientOrIgnore(h) ==
  /\ Finish(h, "save_row")
  /\ db_key' = [db_key EXCEPT ![who[h]] = IF @ = NoKey THEN key[h] ELSE @]
  /\ ack' = [ack EXCEPT ![who[h]] = "paired"]
  /\ ack_key' = [ack_key EXCEPT ![who[h]] = key[h]]
  /\ UNCHANGED <<now, up, memory, db_info, contended, approved>>

\* save_client: an upsert that leaves the stored SyncInfo as it is.
save_client(h) ==
  /\ Finish(h, "save_row")
  /\ db_key' = [db_key EXCEPT ![who[h]] = key[h]]
  /\ ack' = [ack EXCEPT ![who[h]] = "paired"]
  /\ ack_key' = [ack_key EXCEPT ![who[h]] = key[h]]
  /\ UNCHANGED <<now, up, memory, db_info, contended, approved>>

-----------------------------------------------------------------------------
(* Removing a client *)

\* Hub::remove_client up to its first operation, for any id.
RemoveClient(h, c) ==
  /\ Start(h, c, NoKey, NoInfo, "drop_key")
  /\ clients' = clients \ {c}
  /\ NoteStart(c)
  /\ UNCHANGED <<now, up, pairing_token, pending_key_exchanges,
                 client_crypt_keys, client_sync_infos, database, approved>>

\* Mutant of DropKey: the key is forgotten in the map.
KeepKey(h) ==
  /\ Goto(h, "drop_key", "drop_info")
  /\ UNCHANGED <<now, up, memory, database, history>>

DropKey(h) ==
  /\ Goto(h, "drop_key", "drop_info")
  /\ client_crypt_keys' = [client_crypt_keys EXCEPT ![who[h]] = NoKey]
  /\ UNCHANGED <<now, up, pairing_token, pending_key_exchanges, clients,
                 client_sync_infos, database, history>>

DropInfo(h) ==
  /\ Goto(h, "drop_info", "delete_row")
  /\ client_sync_infos' = [client_sync_infos EXCEPT ![who[h]] = NoInfo]
  /\ UNCHANGED <<now, up, pairing_token, pending_key_exchanges, clients,
                 client_crypt_keys, database, history>>

DeleteRow(h) ==
  /\ Finish(h, "delete_row")
  /\ db_key' = [db_key EXCEPT ![who[h]] = NoKey]
  /\ db_info' = [db_info EXCEPT ![who[h]] = NoInfo]
  /\ ack' = [ack EXCEPT ![who[h]] = "removed"]
  /\ UNCHANGED <<now, up, memory, ack_key, contended, approved>>

-----------------------------------------------------------------------------
(* Heartbeats *)

\* server_heartbeat_sync_info up to the is_paired check in the hub.
Heartbeat(h, c, i, secure, k) ==
  /\ require_paired_client(c)
  /\ maybe_decrypt_body(c, secure, k)
  /\ Start(h, c, NoKey, i, "hb_save")
  /\ UNCHANGED <<now, up, memory, database, history>>

\* Mutant of HeartbeatSave: an upsert that brings a removed row back.
HeartbeatUpsert(h) ==
  /\ Goto(h, "hb_save", "hb_cache")
  /\ db_info' = [db_info EXCEPT ![who[h]] = info[h]]
  /\ UNCHANGED <<now, up, memory, db_key, history>>

\* Database::update_client_sync_info: an UPDATE, no row means no effect.
HeartbeatSave(h) ==
  /\ Goto(h, "hb_save", "hb_cache")
  /\ db_info' = [db_info EXCEPT
       ![who[h]] = IF db_key[who[h]] = NoKey THEN @ ELSE info[h]]
  /\ UNCHANGED <<now, up, memory, db_key, history>>

HeartbeatCache(h) ==
  /\ Finish(h, "hb_cache")
  /\ client_sync_infos' = [client_sync_infos EXCEPT ![who[h]] = info[h]]
  /\ UNCHANGED <<now, up, pairing_token, pending_key_exchanges, clients,
                 client_crypt_keys, database, history>>

\* A database statement fails: the handler answers with an error and what it
\* already did to the maps stays.
DatabaseError(h) ==
  /\ StatementsFail
  /\ \E step \in {"save_row", "delete_row", "hb_save"} : Finish(h, step)
  /\ UNCHANGED <<now, up, memory, database, history>>

-----------------------------------------------------------------------------
(* Environment *)

Tick ==
  /\ now < MaxTime
  /\ now' = now + 1
  /\ UNCHANGED <<up, memory, database, locals, history>>

\* The process dies: every handler and every map with it.
Crash ==
  /\ up
  /\ up' = FALSE
  /\ pairing_token' = NoToken
  /\ pending_key_exchanges' = [c \in Client |-> NoExchange]
  /\ clients' = {}
  /\ client_crypt_keys' = [c \in Client |-> NoKey]
  /\ client_sync_infos' = [c \in Client |-> NoInfo]
  /\ pc' = [h \in Handler |-> "idle"]
  /\ who' = [h \in Handler |-> NoClient]
  /\ key' = [h \in Handler |-> NoKey]
  /\ info' = [h \in Handler |-> NoInfo]
  /\ UNCHANGED <<now, database, history>>

\* Every row of paired_clients: nothing in the program disables one.
load_clients == {c \in Client : db_key[c] # NoKey}

\* Hub::load_or_create: one entry per row; the SyncInfo if there is one.
load_or_create ==
  /\ ~up
  /\ up' = TRUE
  /\ clients' = load_clients
  /\ client_crypt_keys' = db_key
  /\ client_sync_infos' = db_info
  /\ UNCHANGED <<now, pairing_token, pending_key_exchanges, database, locals,
                 history>>

-----------------------------------------------------------------------------
Pair(h) ==
  \/ \E c \in Client, k \in Key, token \in Token : TrustCheck(h, c, k, token)
  \/ \E c \in Client, k \in Key : ConfirmCheck(h, c, k)
  \/ TakePending(h)
  \/ InsertKey(h)
  \/ InsertClient(h)
  \/ save_client(h)

Remove(h) ==
  \/ \E c \in Client : RemoveClient(h, c)
  \/ DropKey(h)
  \/ DropInfo(h)
  \/ DeleteRow(h)

Beat(h) ==
  \/ \E c \in Client, i \in Info, secure \in BOOLEAN, k \in Key :
       Heartbeat(h, c, i, secure, k)
  \/ HeartbeatSave(h)
  \/ HeartbeatCache(h)

Next ==
  \/ IssueToken
  \/ QrToken
  \/ \E c \in Client, k \in Key : exchange_keys_v2(c, k)
  \/ \E h \in Handler : Pair(h) \/ Remove(h) \/ Beat(h) \/ DatabaseError(h)
  \/ Tick
  \/ Crash
  \/ load_or_create

Spec == Init /\ [][Next]_vars

-----------------------------------------------------------------------------
(* Properties *)

Quiet(c) == \A h \in Handler : ~Changing(h, c)

\* A pairing that was answered with success, and that no other pairing or
\* removal of the same client overlapped, is stored with the key that was
\* checked, and is in force whenever the process runs: DatabaseError of other
\* clients, heartbeats, crashes and restarts included (trust_v1,
\* confirm_trust_v2, save_client, load_or_create).
SettledPairing ==
  \A c \in Client : ack[c] = "paired" /\ ~contended[c] =>
    /\ db_key[c] = ack_key[c]
    /\ up => c \in clients /\ client_crypt_keys[c] = ack_key[c]

\* A removal that was answered with success, and that nothing overlapped,
\* leaves neither a pairing nor a key behind, in the maps or in the table,
\* also when an earlier removal had failed half way.  A heartbeat that races
\* it may leave a SyncInfo in the map of the running process but never in the
\* table (Hub::remove_client, update_client_sync_info).
SettledRemoval ==
  \A c \in Client : ack[c] = "removed" /\ ~contended[c] =>
    /\ c \notin clients
    /\ client_crypt_keys[c] = NoKey
    /\ db_key[c] = NoKey
    /\ db_info[c] = NoInfo

\* clients and client_crypt_keys are two maps updated one after the other:
\* between requests they name the same clients, whatever database statement
\* failed on the way, unless requests about the client overlapped.
MapsAgree ==
  \A c \in Client : Quiet(c) /\ ~contended[c] =>
    (c \in clients <=> client_crypt_keys[c] # NoKey)

\* Under every interleaving a key is only ever stored for a client, in memory
\* or on disk, after a request made with that very key passed the token or
\* the signature check for that client (trust_v1, confirm_trust_v2).
KeyProvenance ==
  \A c \in Client :
    {client_crypt_keys[c], db_key[c]} \subseteq approved[c] \cup {NoKey}

\* The table has no SyncInfo for a client without a key: after a restart only
\* paired clients are targets of a broadcast (update_client_sync_info).
StoredInfoHasRow ==
  \A c \in Client : db_info[c] # NoInfo => db_key[c] # NoKey

\* What makes the properties above inductive.  A handler that changes a
\* client alone knows what the maps hold for it, at every point of its way.
Alone ==
  \A c \in Client : ~contended[c] =>
    \A g, h \in Handler : Changing(g, c) /\ Changing(h, c) => g = h

AnsweredMeansQuiet ==
  \A c \in Client : ~contended[c] /\ ack[c] # "none" => Quiet(c)

Progress ==
  \A c \in Client, h \in Handler : Changing(h, c) /\ ~contended[c] =>
    /\ pc[h] \in {"insert_client", "save_row"} => client_crypt_keys[c] = key[h]
    /\ pc[h] = "save_row" => c \in clients
    /\ pc[h] \in RemoveStep => c \notin clients
    /\ pc[h] \in {"drop_info", "delete_row"} => client_crypt_keys[c] = NoKey

CarriedKeysApproved ==
  \A h \in Handler : pc[h] \in PairStep => key[h] \in approved[who[h]]

DownIsEmpty ==
  ~up => /\ clients = {}
         /\ client_crypt_keys = [c \in Client |-> NoKey]
         /\ pc = [h \in Handler |-> "idle"]

\* The inductive invariant of the pairing handlers (trust_v1,
\* confirm_trust_v2, remove_client, load_or_create).
PairingInv ==
  /\ Alone
  /\ AnsweredMeansQuiet
  /\ Progress
  /\ CarriedKeysApproved
  /\ DownIsEmpty
  /\ MapsAgree
  /\ SettledPairing
  /\ SettledRemoval
  /\ KeyProvenance
  /\ StoredInfoHasRow

\* README, persistence: a pairing survives a normal restart.  When no request
\* about a client is in progress and no database statement ever failed, a
\* client that is paired in memory has its row in the table.
SurvivesRestart ==
  \A c \in Client : up /\ Quiet(c) /\ c \in clients =>
    db_key[c] # NoKey

=============================================================================
