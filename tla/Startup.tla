------------------------------ MODULE Startup -------------------------------
(***************************************************************************)
(* What the server keeps from one start to the next: main up to the point  *)
(* where it serves requests (Database::open, import_legacy_state,          *)
(* Hub::load_or_create), with a crash, or a statement that fails and ends  *)
(* the start, between any two commits, composed with Settings.  Of what a  *)
(* running server does to the rows, pairing, removal and the change of the *)
(* password are one step here; Pairing and AdminAuth have their detail.    *)
(***************************************************************************)
EXTENDS Settings

CONSTANTS
  Client,         \* app_instance_id of clients
  LegacyClient,   \* the clients of hub-state.json
  LegacyKey,      \* the server's key in hub-state.json
  Key,            \* keys ServerKeys::generate may come up with
  NoKey

ASSUME StartupAssumption ==
  /\ LegacyClient \subseteq Client
  /\ LegacyKey \notin Key
  /\ NoKey \notin Key \cup {LegacyKey}

VARIABLES
  admin_users,     \* the password of the administrator's row
  hub_state,       \* hub-state.json: not there, there, or renamed
  server_keys,     \* table server_keys
  paired_clients,  \* table paired_clients
  importing,       \* clients the import has not saved yet
  keys, clients,   \* Hub.keys and Hub.clients
  had_legacy,      \* history: hub-state.json was there before the first start
  interrupted,     \* history: a start ended between saving the legacy key and
                   \*   saving the last legacy client
  removed,         \* history: clients removed and not paired again since
  chosen,          \* history: the administrator has changed the password
  knows            \* history: the server's key each client was given

disk == <<admin_users, hub_state, server_keys, paired_clients>>
hub == <<keys, clients>>
history == <<had_legacy, interrupted, removed, chosen, knows>>
uvars == <<disk, importing, hub, history>>
vars == <<boot, next_row, svars, uvars>>

AnyKey == Key \cup {LegacyKey}
Password == {"none", "default", "chosen"}

TypeOK ==
  /\ SettingsTypeOK
  /\ admin_users \in Password
  /\ hub_state \in {"none", "there", "migrated"}
  /\ server_keys \in AnyKey \cup {NoKey}
  /\ paired_clients \in SUBSET Client
  /\ importing \in SUBSET LegacyClient
  /\ keys \in AnyKey \cup {NoKey}
  /\ clients \in SUBSET Client
  /\ had_legacy \in BOOLEAN
  /\ interrupted \in BOOLEAN
  /\ removed \in SUBSET Client
  /\ chosen \in BOOLEAN
  /\ knows \in [Client -> AnyKey \cup {NoKey}]
  /\ boot = "up" => keys # NoKey /\ admin_users # "none"

\* Clients of the old server know its key.
Init ==
  /\ SettingsInit
  /\ admin_users = "none"
  /\ hub_state \in {"none", "there"}
  /\ server_keys = NoKey
  /\ paired_clients = {}
  /\ importing = {}
  /\ keys = NoKey
  /\ clients = {}
  /\ had_legacy = (hub_state = "there")
  /\ interrupted = FALSE
  /\ removed = {}
  /\ chosen = FALSE
  /\ knows = [c \in Client |-> IF had_legacy /\ c \in LegacyClient
                               THEN LegacyKey ELSE NoKey]

Goto(from, to) == boot = from /\ boot' = to

-----------------------------------------------------------------------------
(* The start *)

\* main up to migrate, which creates only the tables that are missing.
Boot ==
  /\ Goto("down", "admin")
  /\ next_row' = 1
  /\ UNCHANGED <<svars, uvars>>

ensure_default_admin ==
  /\ Goto("admin", "settings")
  /\ admin_users' = IF admin_users = "none" THEN "default" ELSE admin_users
  /\ UNCHANGED <<next_row, svars, hub_state, server_keys, paired_clients,
                 importing, hub, history>>

SettingsDone ==
  /\ next_row > Len(Defaults)
  /\ Goto("settings", "import")
  /\ UNCHANGED <<next_row, svars, uvars>>

\* Mutant of HasLegacy: a table without clients is taken for a new one.
HasLegacyNoClients == paired_clients = {} /\ hub_state = "there"

\* There are no keys yet, and there is a file to import.
HasLegacy == server_keys = NoKey /\ hub_state = "there"

NothingToImport ==
  /\ Goto("import", "keys")
  /\ ~HasLegacy
  /\ UNCHANGED <<next_row, svars, uvars>>

\* The keys are saved first.
ImportKeys ==
  /\ Goto("import", "clients")
  /\ HasLegacy
  /\ server_keys' = LegacyKey
  /\ importing' = LegacyClient
  /\ UNCHANGED <<next_row, svars, admin_users, hub_state, paired_clients, hub,
                 history>>

ImportClient(c) ==
  /\ boot = "clients"
  /\ c \in importing
  /\ paired_clients' = paired_clients \cup {c}
  /\ importing' = importing \ {c}
  /\ UNCHANGED <<boot, next_row, svars, admin_users, hub_state, server_keys, hub,
                 history>>

\* Mutant of ClientsImported: the file is renamed before the last client.
ClientsNearlyImported ==
  /\ Cardinality(importing) <= 1
  /\ Goto("clients", "rename")
  /\ UNCHANGED <<next_row, svars, uvars>>

ClientsImported ==
  /\ importing = {}
  /\ Goto("clients", "rename")
  /\ UNCHANGED <<next_row, svars, uvars>>

RenameLegacy ==
  /\ Goto("rename", "keys")
  /\ hub_state' = "migrated"
  /\ UNCHANGED <<next_row, svars, admin_users, server_keys, paired_clients,
                 importing, hub, history>>

\* Mutant of load_or_create_server_keys: new keys are not saved.
CreateKeysInMemory ==
  /\ Goto("keys", "load")
  /\ keys' \in IF server_keys # NoKey THEN {server_keys} ELSE Key
  /\ UNCHANGED <<next_row, svars, disk, importing, clients, history>>

\* The keys of the table; new ones are saved before they are used.
load_or_create_server_keys ==
  /\ Goto("keys", "load")
  /\ keys' \in IF server_keys # NoKey THEN {server_keys} ELSE Key
  /\ server_keys' = keys'
  /\ UNCHANGED <<next_row, svars, admin_users, hub_state, paired_clients,
                 importing, clients, history>>

load_clients ==
  /\ Goto("load", "up")
  /\ clients' = paired_clients
  /\ UNCHANGED <<next_row, svars, disk, importing, keys, history>>

\* The process ends, or a statement or a file operation of the start fails.
Crash ==
  /\ boot # "down"
  /\ SettingsCrash
  /\ importing' = {}
  /\ keys' = NoKey
  /\ clients' = {}
  /\ interrupted' = (interrupted \/ importing # {})
  /\ UNCHANGED <<disk, had_legacy, removed, chosen, knows>>

-----------------------------------------------------------------------------
(* A running server *)

\* The client keeps the server's key; a client that is paired again too.
Pair(c) ==
  /\ Serving
  /\ paired_clients' = paired_clients \cup {c}
  /\ clients' = clients \cup {c}
  /\ removed' = removed \ {c}
  /\ knows' = [knows EXCEPT ![c] = keys]
  /\ UNCHANGED <<boot, next_row, svars, admin_users, hub_state, server_keys,
                 importing, keys, had_legacy, interrupted, chosen>>

remove_client(c) ==
  /\ Serving
  /\ c \in clients
  /\ paired_clients' = paired_clients \ {c}
  /\ clients' = clients \ {c}
  /\ removed' = removed \cup {c}
  /\ knows' = [knows EXCEPT ![c] = NoKey]
  /\ UNCHANGED <<boot, next_row, svars, admin_users, hub_state, server_keys,
                 importing, keys, had_legacy, interrupted, chosen>>

change_password ==
  /\ Serving
  /\ admin_users' = "chosen"
  /\ chosen' = TRUE
  /\ UNCHANGED <<boot, next_row, svars, hub_state, server_keys, paired_clients,
                 importing, hub, had_legacy, interrupted, removed, knows>>

-----------------------------------------------------------------------------
Start ==
  \/ Boot
  \/ ensure_default_admin
  \/ SettingsDone
  \/ NothingToImport
  \/ ImportKeys
  \/ \E c \in Client : ImportClient(c)
  \/ ClientsImported
  \/ RenameLegacy
  \/ load_or_create_server_keys
  \/ load_clients

Next ==
  \/ Start
  \/ SettingsStep /\ UNCHANGED uvars
  \/ \E c \in Client : Pair(c) \/ remove_client(c)
  \/ change_password
  \/ Crash

Spec == Init /\ [][Next]_vars

-----------------------------------------------------------------------------
(* Properties *)

\* README, persistence: the private key is kept, so that a restart needs no
\* pairing.  Whatever start was cut off where, a server that is up has the key
\* that every paired client was given, the clients of a legacy server included
\* (import_legacy_state, load_or_create_server_keys).
ServerIsRecognised ==
  boot = "up" => \A c \in clients : knows[c] = keys

\* What the administrator decided is not undone by a later start: a removed
\* client is not brought back from a file that an interrupted import left in
\* its place, and the default password is not put back
\* (import_legacy_state, ensure_default_admin).
DecisionsStay ==
  /\ removed \cap (paired_clients \cup clients) = {}
  /\ chosen => admin_users = "chosen"

\* A file called hub-state.json.migrated has been imported to the last client,
\* and a server that comes up has the legacy clients, unless a start ended
\* inside the import, after the key and before the last client: the next start
\* skips the rest (import_legacy_state).
ImportIsWhole ==
  /\ hub_state = "migrated" => LegacyClient \subseteq paired_clients \cup removed
  /\ had_legacy /\ ~interrupted /\ boot = "up" =>
       LegacyClient \subseteq clients \cup removed

\* README, migration: the legacy state is imported at the first start.  A
\* server that comes up has all its clients, however often it took to start.
LegacyIsImported ==
  had_legacy /\ boot = "up" => LegacyClient \subseteq clients \cup removed

=============================================================================
