--------------------------- MODULE StartupProofs ---------------------------
(***************************************************************************)
(* Theorems about Startup and Settings, for any updates, sizes and limits, *)
(* any clients and keys, and any bound of the log.                         *)
(*                                                                         *)
(* The properties say what holds when the server is up, or at any time.    *)
(* They rest on what holds at every stage of a start, as a crash may end   *)
(* it at each (RowsInv for the settings, LogInv for the log, HubInv for    *)
(* keys and clients).                                                      *)
(***************************************************************************)
EXTENDS Startup, FiniteSetTheorems, TLAPS

\* Stages behind ensure_default_settings.
SettingsStored == {"import", "clients", "rename", "keys", "load", "up"}

\* Tables are functions, and an update that was begun had been validated.
Tables ==
  /\ settings \in [Setting -> Nat \cup {NoRow}]
  /\ draft \in [Setting -> Nat \cup {NoRow}]
  /\ wanted \in [Setting -> Nat]
  /\ \A k \in Setting : wanted[k] \in Valid(k)
  /\ InTransaction => validate_settings(asked) /\ rest \subseteq DOMAIN asked

\* The start adds the rows that are missing, in order, and a missing row was
\* never changed; a transaction is the update applied so far.
RowsInv ==
  /\ \A k \in Setting :
       /\ settings[k] \in {NoRow, wanted[k]}
       /\ settings[k] = NoRow => wanted[k] = Default[k]
  /\ boot \in {"down", "admin"} => next_row = 1
  /\ boot = "settings" =>
       \A i \in 1 .. 6 : i < next_row => settings[Defaults[i][1]] # NoRow
  /\ boot \in SettingsStored => \A k \in Setting : settings[k] # NoRow
  /\ InTransaction =>
       \A k \in Setting :
         draft[k] = IF k \in DOMAIN asked \ rest THEN asked[k] ELSE settings[k]

\* The log is a run of ids that ends with the last one, within the limit.
LogInv ==
  /\ request_logs \subseteq 1 .. last_log
  /\ \A i \in request_logs : i .. last_log \subseteq request_logs
  /\ settings["log_retention_count"] = NoRow => request_logs = {}
  /\ settings["log_retention_count"] # NoRow =>
       Cardinality(request_logs) <= settings["log_retention_count"]

SettingsInv == SettingsTypeOK /\ Tables /\ RowsInv /\ LogInv /\ LetInAsAsked

\* Whose key the tables and the clients have, at every stage.
KeysInv ==
  /\ boot \in {"load", "up"} => server_keys = keys /\ keys # NoKey
  /\ boot \in {"clients", "rename"} => server_keys = LegacyKey
  /\ server_keys = NoKey => paired_clients = {} /\ removed = {}
  /\ \A c \in paired_clients \cup importing : knows[c] = server_keys
  /\ boot = "up" => clients = paired_clients
  /\ boot # "up" => clients = {}

\* How far the import of the legacy state has come.
ImportInv ==
  /\ hub_state # "none" \/ boot \in {"clients", "rename"} => had_legacy
  /\ had_legacy /\ server_keys = NoKey =>
       /\ hub_state = "there"
       /\ boot \notin {"keys", "load", "up"}
       /\ \A c \in LegacyClient : knows[c] = LegacyKey
  /\ importing # {} => boot = "clients"
  /\ boot = "clients" => LegacyClient \subseteq paired_clients \cup importing
  /\ boot = "clients" => removed = {}
  /\ boot = "rename" \/ hub_state = "migrated" =>
       LegacyClient \subseteq paired_clients \cup removed
  /\ had_legacy /\ ~interrupted /\ server_keys # NoKey =>
       LegacyClient \subseteq paired_clients \cup removed \cup importing

\* The administrator's row is created once and never put back.
AdminRowInv ==
  /\ boot \notin {"down", "admin"} => admin_users # "none"
  /\ chosen => admin_users = "chosen"

StartupInv ==
  /\ TypeOK
  /\ SettingsInv
  /\ KeysInv
  /\ ImportInv
  /\ AdminRowInv
  /\ removed \cap paired_clients = {}

-----------------------------------------------------------------------------
(* The operators *)

\* The six rows, spelled out.
LEMMA SettingNames ==
  /\ Len(Defaults) = 6
  /\ Setting = {"limit_file_size", "max_file_size_mb", "clipboard_relay",
                "sync_text", "sync_file", "log_retention_count"}
<1>1. Len(Defaults) = 6
  BY DEF Defaults
<1>2. /\ Defaults[1][1] = "limit_file_size"
      /\ Defaults[2][1] = "max_file_size_mb"
      /\ Defaults[3][1] = "clipboard_relay"
      /\ Defaults[4][1] = "sync_text"
      /\ Defaults[5][1] = "sync_file"
      /\ Defaults[6][1] = "log_retention_count"
  BY DEF Defaults
<1>3. 1 .. 6 = {1, 2, 3, 4, 5, 6}
  OBVIOUS
<1> QED
  BY <1>1, <1>2, <1>3 DEF Setting

\* Every row has a default of its own, which validate_settings would accept.
LEMMA DefaultRows ==
  /\ \A i \in 1 .. 6 :
       /\ Defaults[i][1] \in Setting
       /\ Defaults[i][2] \in Valid(Defaults[i][1])
       /\ Default[Defaults[i][1]] = Defaults[i][2]
  /\ \A k \in Setting : \E i \in 1 .. 6 : Defaults[i][1] = k
<1>1. \A i \in 1 .. 6 : Defaults[i][1] \in Setting
  BY SettingNames DEF Setting
<1>2. \A k \in Setting : \E i \in 1 .. 6 : Defaults[i][1] = k
  BY SettingNames DEF Setting
<1>3. \A i \in 1 .. 6 : Defaults[i][2] \in Valid(Defaults[i][1])
  BY SettingsAssumption DEF SettingsAssumption, Defaults, Valid
<1>4. \A i, j \in 1 .. 6 : Defaults[i][1] = Defaults[j][1] => i = j
  BY DEF Defaults
<1>5. ASSUME NEW i \in 1 .. 6
      PROVE  Default[Defaults[i][1]] = Defaults[i][2]
  <2> DEFINE j == CHOOSE n \in 1 .. Len(Defaults) : Defaults[n][1] = Defaults[i][1]
  <2>1. j \in 1 .. 6 /\ Defaults[j][1] = Defaults[i][1]
    BY SettingNames
  <2>2. j = i
    BY <1>4, <2>1
  <2>3. Default[Defaults[i][1]] = Defaults[j][2]
    BY <1>1 DEF Default
  <2> QED
    BY <2>2, <2>3
<1> QED
  BY <1>1, <1>2, <1>3, <1>5

\* What validate_settings accepts is a number, and no missing row.
LEMMA ValidIsNat == \A k \in Setting : Valid(k) \subseteq Nat /\ NoRow \notin Valid(k)
  BY SettingsAssumption DEF SettingsAssumption, Valid

\* Pruning a log that ends with its last id keeps its newest ids, and not
\* more than n of them (prune_request_logs).
LEMMA PruneKeepsNewest ==
  ASSUME NEW last \in Nat, NEW n \in Nat, NEW ids \in SUBSET (1 .. last),
         \A i \in ids : i .. last \subseteq ids
  PROVE  /\ prune_request_logs(ids, n) \subseteq ids
         /\ \A i \in prune_request_logs(ids, n) :
              i .. last \subseteq prune_request_logs(ids, n)
         /\ Cardinality(prune_request_logs(ids, n)) <= n
<1> DEFINE P == prune_request_logs(ids, n)
<1>1. ASSUME NEW i \in ids
      PROVE  i \in Nat /\ Cardinality({j \in ids : j > i}) = last - i
  <2>1. i \in Nat /\ i <= last
    OBVIOUS
  <2>2. \A j \in (i + 1) .. last : j \in ids /\ j > i
    <3>1. ASSUME NEW j \in (i + 1) .. last PROVE j \in i .. last /\ j > i
      BY <2>1
    <3>2. i .. last \subseteq ids
      OBVIOUS
    <3> QED
      BY <3>1, <3>2
  <2>3. \A j \in ids : j > i => j \in (i + 1) .. last
    BY <2>1
  <2>4. {j \in ids : j > i} = (i + 1) .. last
    BY <2>2, <2>3, Zenon
  <2>5. Cardinality((i + 1) .. last) = last - i
    BY <2>1, FS_Interval
  <2> QED
    BY <2>1, <2>4, <2>5
<1>2. P = {i \in ids : last - i < n}
  BY <1>1 DEF prune_request_logs
<1> HIDE DEF P
<1>3. ASSUME NEW i \in P, NEW j \in i .. last PROVE j \in P
  <2>1. i \in ids /\ i \in Nat /\ last - i < n
    BY <1>2
  <2>2. j \in ids
    BY <2>1
  <2>3. last - j < n
    BY <2>1
  <2> QED
    BY <1>2, <2>2, <2>3
<1>4. Cardinality(P) <= n
  <2>1. P \subseteq (last - n + 1) .. last
    <3> SUFFICES ASSUME NEW i \in P PROVE i \in (last - n + 1) .. last
      OBVIOUS
    <3>1. i \in Int /\ i <= last /\ last - i < n
      BY <1>2
    <3> QED
      BY <3>1
  <2>2. /\ IsFiniteSet((last - n + 1) .. last)
        /\ Cardinality((last - n + 1) .. last) <= n
    <3>1. last - n + 1 \in Int /\ last \in Int
      OBVIOUS
    <3>2. /\ IsFiniteSet((last - n + 1) .. last)
          /\ Cardinality((last - n + 1) .. last) =
               IF last - n + 1 > last THEN 0 ELSE last - (last - n + 1) + 1
      BY <3>1, FS_Interval, Zenon
    <3> QED
      BY <3>2
  <2>3. /\ Cardinality(P) \in Nat
        /\ Cardinality((last - n + 1) .. last) \in Nat
        /\ Cardinality(P) <= Cardinality((last - n + 1) .. last)
    <3>1. IsFiniteSet(P)
      BY <2>1, <2>2, FS_Subset
    <3>2. Cardinality(P) <= Cardinality((last - n + 1) .. last)
      BY <2>1, <2>2, FS_Subset
    <3> QED
      BY <2>2, <3>1, <3>2, FS_CardinalityType
  <2> QED
    BY <2>2, <2>3
<1> QED
  BY <1>2, <1>3, <1>4 DEF P

-----------------------------------------------------------------------------
(* Settings *)

\* A new database satisfies the invariant of the settings.
LEMMA SettingsInvInit == SettingsInit => SettingsInv
<1> SUFFICES ASSUME SettingsInit PROVE SettingsInv
  OBVIOUS
<1> USE SettingsAssumption DEF SettingsAssumption, SettingsInit
<1>1. ~InTransaction
  BY DEF InTransaction
<1>2. SettingsTypeOK
  BY <1>1, SettingNames DEF SettingsTypeOK, Stage
<1>3. \A k \in Setting : Default[k] \in Valid(k)
  BY DefaultRows
<1>4. Tables
  <2>1. Default = [k \in Setting |-> Default[k]]
    BY DEF Default
  <2>2. wanted \in [Setting -> Nat]
    BY <1>3, <2>1, ValidIsNat
  <2> QED
    BY <1>1, <1>3, <2>2 DEF Tables
<1>5. RowsInv
  BY <1>1 DEF RowsInv, SettingsStored
<1>6. LogInv
  BY SettingNames DEF LogInv
<1>7. LetInAsAsked
  BY DEF LetInAsAsked
<1> QED
  BY <1>2, <1>4, <1>5, <1>6, <1>7 DEF SettingsInv

\* A step of the start that writes no settings keeps the invariant.
LEMMA SettingsKeptByStart ==
  ASSUME SettingsInv, UNCHANGED svars, boot # "up", boot' \in Stage,
         next_row' \in 1 .. 7,
         boot' \in {"down", "admin"} => next_row' = 1,
         boot' = "settings" => next_row' = 1,
         boot' \in SettingsStored =>
           \/ boot \in SettingsStored
           \/ boot = "settings" /\ next_row > 6
  PROVE  SettingsInv'
<1> USE DEF svars, transaction
<1>1. ~InTransaction /\ ~InTransaction'
  BY DEF SettingsInv, SettingsTypeOK, InTransaction
<1>2. SettingsTypeOK' /\ Tables' /\ LogInv' /\ LetInAsAsked'
  BY <1>1, SettingNames
     DEF SettingsInv, SettingsTypeOK, Tables, LogInv, LetInAsAsked
<1>3. boot' \in SettingsStored => \A k \in Setting : settings'[k] # NoRow
  BY DefaultRows DEF SettingsInv, SettingsTypeOK, RowsInv
<1>4. boot' = "settings" =>
        \A i \in 1 .. 6 : i < next_row' => settings'[Defaults[i][1]] # NoRow
  OBVIOUS
<1>5. RowsInv'
  BY <1>1, <1>3, <1>4 DEF SettingsInv, RowsInv
<1> QED
  BY <1>2, <1>5 DEF SettingsInv

\* Pruning keeps what LogInv says of the ids, and brings their number down to
\* the limit.
LEMMA PrunedLog ==
  ASSUME NEW last \in Nat, NEW n \in Nat, NEW ids \in SUBSET (1 .. last),
         \A i \in ids : i .. last \subseteq ids,
         last_log' = last, request_logs' = prune_request_logs(ids, n),
         settings'["log_retention_count"] = n, NoRow \notin Nat
  PROVE  LogInv'
<1> DEFINE P == prune_request_logs(ids, n)
<1>1. P \subseteq ids /\ (\A i \in P : i .. last \subseteq P) /\ Cardinality(P) <= n
  BY PruneKeepsNewest
<1> HIDE DEF P
<1> QED
  BY <1>1 DEF LogInv, P

\* A server that is up has every row, as the administrator last had it.
LEMMA UpHasRows ==
  ASSUME SettingsInv, boot = "up"
  PROVE  settings = wanted
<1>1. \A k \in Setting : settings[k] = wanted[k]
  BY DEF SettingsInv, RowsInv, SettingsStored
<1> QED
  BY <1>1 DEF SettingsInv, Tables

\* Every statement on the settings and the log keeps the invariant.
LEMMA SettingsInvStep == SettingsInv /\ SettingsStep => SettingsInv'
<1> SUFFICES ASSUME SettingsInv, SettingsStep PROVE SettingsInv'
  OBVIOUS
<1> USE DEF SettingsInv, transaction
<1>a. NoRow \notin Nat /\ MaxLog \in Nat
  BY SettingsAssumption DEF SettingsAssumption
<1>1. CASE ensure_default_settings
  <2> DEFINE k == Defaults[next_row][1]
             v == Defaults[next_row][2]
  <2>1. next_row \in 1 .. 6 /\ next_row' \in 1 .. 7 /\ boot = "settings" /\ boot' = boot
    BY <1>1, SettingNames DEF ensure_default_settings, SettingsTypeOK
  <2>2. k \in Setting /\ v \in Valid(k) /\ Default[k] = v /\ v \in Nat
    BY <2>1, DefaultRows, ValidIsNat
  <2>3. /\ settings' = [settings EXCEPT ![k] = IF @ = NoRow THEN v ELSE @]
        /\ next_row' = next_row + 1
        /\ UNCHANGED <<boot, request_logs, last_log, transaction, wanted, let_in>>
    BY <1>1 DEF ensure_default_settings
  <2> HIDE DEF k, v
  <2>4. ~InTransaction /\ ~InTransaction'
    BY <2>1, <2>3 DEF SettingsTypeOK, InTransaction
  <2>5. SettingsTypeOK'
    BY <2>1, <2>2, <2>3, <2>4, SettingNames DEF SettingsTypeOK
  <2>6. Tables'
    BY <2>2, <2>3, <2>4 DEF Tables
  <2>7. \A i \in 1 .. 6 : i < next_row' => settings'[Defaults[i][1]] # NoRow
    <3> SUFFICES ASSUME NEW i \in 1 .. 6, i < next_row'
                 PROVE  settings'[Defaults[i][1]] # NoRow
      OBVIOUS
    <3>1. CASE i = next_row
      BY <1>a, <2>2, <2>3, <3>1 DEF k, Tables
    <3>2. CASE i < next_row
      <4>1. settings[Defaults[i][1]] # NoRow /\ Defaults[i][1] \in Setting
        BY <2>1, <3>2, DefaultRows DEF RowsInv
      <4> QED
        BY <1>a, <2>2, <2>3, <4>1 DEF Tables
    <3> QED
      BY <2>1, <2>3, <3>1, <3>2
  <2>8. RowsInv'
    BY <2>1, <2>2, <2>3, <2>4, <2>7 DEF RowsInv, Tables, SettingsStored
  <2>9. LogInv'
    <3>1. settings["log_retention_count"] # NoRow => 
            settings'["log_retention_count"] = settings["log_retention_count"]
      BY <2>2, <2>3, SettingNames DEF Tables
    <3>2. settings'["log_retention_count"] \in Nat \cup {NoRow}
      BY <2>6, SettingNames DEF Tables
    <3>3. request_logs = {} => Cardinality(request_logs) = 0
      BY FS_EmptySet
    <3> QED
      BY <2>3, <3>1, <3>2, <3>3 DEF LogInv
  <2>10. LetInAsAsked'
    BY <2>3 DEF LetInAsAsked
  <2> QED
    BY <2>5, <2>6, <2>8, <2>9, <2>10
<1>2. ASSUME NEW u \in Update, BeginUpdate(u) PROVE SettingsInv'
  <2>1. /\ validate_settings(u)
        /\ asked' = u /\ rest' = DOMAIN u /\ draft' = settings /\ boot = "up"
        /\ UNCHANGED <<boot, next_row, settings, request_logs, last_log, wanted,
                       let_in>>
    BY <1>2 DEF BeginUpdate, Serving
  <2>2. DOMAIN u \subseteq Setting
    BY SettingsAssumption DEF SettingsAssumption
  <2>3. SettingsTypeOK'
    BY <2>1, <2>2, SettingNames DEF SettingsTypeOK, InTransaction
  <2>4. Tables'
    BY <2>1 DEF Tables, InTransaction, validate_settings
  <2>5. RowsInv'
    BY <2>1 DEF RowsInv, InTransaction
  <2>6. LogInv' /\ LetInAsAsked'
    BY <2>1 DEF LogInv, LetInAsAsked
  <2> QED
    BY <2>3, <2>4, <2>5, <2>6
<1>3. ASSUME NEW k \in Setting, WriteRow(k) PROVE SettingsInv'
  <2>1. /\ InTransaction /\ k \in rest
        /\ draft' = [draft EXCEPT ![k] = asked[k]]
        /\ rest' = rest \ {k}
        /\ UNCHANGED <<boot, next_row, settings, request_logs, last_log, asked,
                       wanted, let_in>>
    BY <1>3 DEF WriteRow
  <2>2. k \in DOMAIN asked /\ asked[k] \in Valid(k) /\ asked[k] \in Nat
    BY <2>1, ValidIsNat DEF Tables, validate_settings
  <2>3. InTransaction' <=> InTransaction
    BY <2>1 DEF InTransaction
  <2>4. SettingsTypeOK'
    BY <2>1, <2>2, <2>3, SettingNames DEF SettingsTypeOK
  <2>5. Tables'
    BY <2>1, <2>2, <2>3 DEF Tables, validate_settings
  <2>6. RowsInv'
    BY <2>1, <2>2, <2>3 DEF RowsInv, Tables
  <2>7. LogInv' /\ LetInAsAsked'
    BY <2>1 DEF LogInv, LetInAsAsked
  <2> QED
    BY <2>4, <2>5, <2>6, <2>7
<1>4. CASE CommitUpdate
  <2>1. /\ InTransaction /\ rest = {}
        /\ settings' = draft
        /\ request_logs' =
             IF "log_retention_count" \in DOMAIN asked
             THEN prune_request_logs(request_logs, draft["log_retention_count"])
             ELSE request_logs
        /\ wanted' = [k \in Setting |->
                        IF k \in DOMAIN asked THEN asked[k] ELSE wanted[k]]
        /\ let_in' = << >> /\ asked' = NoUpdate /\ rest' = {}
        /\ draft' = [k \in Setting |-> NoRow]
        /\ UNCHANGED <<boot, next_row, last_log>>
    BY <1>4 DEF CommitUpdate, EndUpdate
  <2>2. boot = "up" /\ settings = wanted /\ ~InTransaction'
    BY <2>1, UpHasRows DEF SettingsTypeOK, InTransaction
  <2>3. \A k \in Setting :
          /\ wanted'[k] \in Valid(k)
          /\ wanted'[k] \in Nat
          /\ settings'[k] = wanted'[k]
    <3> SUFFICES ASSUME NEW k \in Setting
                 PROVE  /\ wanted'[k] \in Valid(k)
                        /\ wanted'[k] \in Nat
                        /\ settings'[k] = wanted'[k]
      OBVIOUS
    <3>1. wanted'[k] = IF k \in DOMAIN asked THEN asked[k] ELSE wanted[k]
      BY <2>1
    <3>2. draft[k] = IF k \in DOMAIN asked THEN asked[k] ELSE settings[k]
      BY <2>1 DEF RowsInv
    <3>3. /\ k \in DOMAIN asked => asked[k] \in Valid(k)
          /\ wanted[k] \in Valid(k)
      BY <2>1 DEF Tables, validate_settings
    <3> QED
      BY <2>1, <2>2, <3>1, <3>2, <3>3, ValidIsNat
  <2>4. \A k \in Setting : settings'[k] # NoRow
    BY <1>a, <2>3
  <2>5. Tables'
    BY <2>1, <2>2, <2>3 DEF Tables
  <2>6. LogInv'
    <3> DEFINE n == draft["log_retention_count"]
    <3>1. n \in Nat /\ settings'["log_retention_count"] = n
      BY <2>1, <2>3, SettingNames
    <3>2. last_log \in Nat
      BY <1>a DEF SettingsTypeOK
    <3>3. CASE "log_retention_count" \in DOMAIN asked
      <4>1. request_logs' = prune_request_logs(request_logs, n)
        BY <2>1, <3>3
      <4> HIDE DEF n
      <4>2. /\ request_logs \in SUBSET (1 .. last_log)
            /\ \A i \in request_logs : i .. last_log \subseteq request_logs
        BY DEF LogInv
      <4> QED
        BY <1>a, <2>1, <3>1, <3>2, <4>1, <4>2, PrunedLog
    <3>4. CASE "log_retention_count" \notin DOMAIN asked
      <4>1. settings'["log_retention_count"] = settings["log_retention_count"]
        BY <2>1, <3>4, SettingNames DEF RowsInv
      <4> QED
        BY <2>1, <3>4, <4>1 DEF LogInv
    <3> QED
      BY <3>3, <3>4
  <2>7. SettingsTypeOK'
    <3>1. \A k \in Setting : {settings'[k], draft'[k]} \subseteq Valid(k) \cup {NoRow}
      BY <2>1, <2>3
    <3>2. request_logs' \in SUBSET (1 .. MaxLog)
      BY <2>1 DEF SettingsTypeOK, prune_request_logs
    <3> QED
      BY <2>1, <2>2, <2>5, <3>1, <3>2 DEF SettingsTypeOK, Tables
  <2>8. RowsInv'
    BY <2>1, <2>2, <2>3, <2>4 DEF RowsInv
  <2>9. LetInAsAsked'
    BY <2>1 DEF LetInAsAsked
  <2> QED
    BY <2>5, <2>6, <2>7, <2>8, <2>9
<1>5. CASE RollBack
  <2>1. /\ asked' = NoUpdate /\ rest' = {}
        /\ draft' = [k \in Setting |-> NoRow]
        /\ UNCHANGED <<boot, next_row, settings, request_logs, last_log, wanted,
                       let_in>>
    BY <1>5 DEF RollBack, EndUpdate
  <2>2. ~InTransaction'
    BY <2>1 DEF InTransaction
  <2>3. SettingsTypeOK' /\ Tables' /\ RowsInv'
    BY <2>1, <2>2, SettingNames DEF SettingsTypeOK, Tables, RowsInv
  <2>4. LogInv' /\ LetInAsAsked'
    BY <2>1 DEF LogInv, LetInAsAsked
  <2> QED
    BY <2>3, <2>4
<1>6. CASE log_request
  <2> DEFINE n == settings["log_retention_count"]
             ids == request_logs \cup {last_log + 1}
  <2>1. /\ last_log < MaxLog /\ last_log' = last_log + 1
        /\ request_logs' = prune_request_logs(ids, n)
        /\ UNCHANGED <<boot, next_row, settings, transaction, wanted, let_in>>
    BY <1>6 DEF log_request, request_log
  <2>2. n \in Nat
    BY <1>6, SettingNames, UpHasRows DEF log_request, Serving, Tables
  <2>3. /\ last_log + 1 \in Nat
        /\ ids \in SUBSET (1 .. last_log + 1)
        /\ \A i \in ids : i .. (last_log + 1) \subseteq ids
    <3>1. last_log \in Nat /\ request_logs \subseteq 1 .. last_log
      BY <1>a DEF SettingsTypeOK, LogInv
    <3>2. \A i \in request_logs : i .. last_log \subseteq request_logs
      BY DEF LogInv
    <3>3. ASSUME NEW i \in ids, NEW j \in i .. (last_log + 1) PROVE j \in ids
      BY <3>1, <3>2, <3>3
    <3> QED
      BY <3>1, <3>3
  <2>4. LogInv'
    <3> HIDE DEF n, ids
    <3>1. settings'["log_retention_count"] = n
      BY <2>1 DEF n
    <3> QED
      BY <1>a, <2>1, <2>2, <2>3, <3>1, PrunedLog
  <2>5. SettingsTypeOK'
    <3>1. last_log' \in 0 .. MaxLog
      BY <1>a, <2>1 DEF SettingsTypeOK
    <3>2. request_logs' \in SUBSET (1 .. MaxLog)
      BY <1>a, <2>4, <3>1 DEF LogInv
    <3> QED
      BY <2>1, <3>1, <3>2 DEF SettingsTypeOK, InTransaction
  <2>6. Tables' /\ RowsInv' /\ LetInAsAsked'
    BY <2>1 DEF Tables, RowsInv, LetInAsAsked, InTransaction, validate_settings
  <2> QED
    BY <2>4, <2>5, <2>6
<1>7. ASSUME NEW type \in PasteType, NEW size \in Size, LetIn(type, size)
      PROVE  SettingsInv'
  <2>1. /\ enforce_sync_settings(type, size) /\ let_in' = <<type, size>>
        /\ UNCHANGED <<boot, next_row, settings, request_logs, last_log,
                       transaction, wanted>>
        /\ settings = wanted
    BY <1>7, UpHasRows DEF LetIn, Serving
  <2>2. SettingsTypeOK' /\ Tables' /\ RowsInv' /\ LogInv'
    BY <2>1 DEF SettingsTypeOK, Tables, RowsInv, LogInv, InTransaction,
                validate_settings
  <2>3. \A k \in {"limit_file_size", "clipboard_relay", "sync_text", "sync_file"} :
          wanted[k] \in {0, 1}
    BY SettingNames DEF Tables, Valid
  <2>4. size \in Nat /\ wanted["max_file_size_mb"] * Mb \in Nat
    BY SettingNames, SettingsAssumption DEF Tables, SettingsAssumption
  <2>5. type = "file" /\ wanted["limit_file_size"] = 1 =>
          size <= wanted["max_file_size_mb"] * Mb
    BY <2>1, <2>4 DEF enforce_sync_settings, TooLarge
  <2>6. /\ wanted["clipboard_relay"] = 1
        /\ wanted[IF type = "file" THEN "sync_file" ELSE "sync_text"] = 1
    BY <2>1, <2>3 DEF enforce_sync_settings
  <2>7. LetInAsAsked'
    BY <2>1, <2>5, <2>6 DEF LetInAsAsked
  <2> QED
    BY <2>2, <2>7
<1> QED
  BY <1>1, <1>2, <1>3, <1>4, <1>5, <1>6, <1>7 DEF SettingsStep

-----------------------------------------------------------------------------
(* The start *)

\* Nothing the start relies on is broken before the first start.
LEMMA StartupInvInit == Init => StartupInv
<1> SUFFICES ASSUME Init PROVE StartupInv
  OBVIOUS
<1> USE StartupAssumption DEF StartupAssumption, Init
<1>1. SettingsInv /\ boot = "down"
  BY SettingsInvInit DEF SettingsInit
<1>2. TypeOK
  BY <1>1 DEF TypeOK, SettingsInv, Password, AnyKey
<1>3. KeysInv /\ AdminRowInv
  BY <1>1 DEF KeysInv, AdminRowInv
<1>4. ImportInv
  BY <1>1 DEF ImportInv
<1> QED
  BY <1>1, <1>2, <1>3, <1>4 DEF StartupInv

\* The settings' part of the invariant is kept by every step.
LEMMA SettingsAlways == StartupInv /\ [Next]_vars => SettingsInv'
<1> SUFFICES ASSUME StartupInv, [Next]_vars PROVE SettingsInv'
  OBVIOUS
<1> USE DEF StartupInv
<1>1. SettingsInv /\ next_row \in 1 .. 7 /\ boot \in Stage
  BY SettingNames DEF SettingsInv, SettingsTypeOK
<1>2. CASE Boot
  BY <1>1, <1>2, SettingsKeptByStart DEF Boot, Goto, Stage, SettingsStored
<1>3. CASE ensure_default_admin
  BY <1>1, <1>3, SettingsKeptByStart
     DEF ensure_default_admin, Goto, Stage, SettingsStored, SettingsInv, RowsInv
<1>4. CASE SettingsDone
  BY <1>1, <1>4, SettingNames, SettingsKeptByStart
     DEF SettingsDone, Goto, Stage, SettingsStored
<1>5. CASE \/ NothingToImport \/ ImportKeys \/ \E c \in Client : ImportClient(c)
           \/ ClientsImported \/ RenameLegacy \/ load_or_create_server_keys
           \/ load_clients
  <2>1. /\ boot \in {"import", "clients", "rename", "keys", "load"}
        /\ boot' \in {"clients", "rename", "keys", "load", "up"}
        /\ next_row' = next_row /\ UNCHANGED svars
    BY <1>5
       DEF NothingToImport, ImportKeys, ImportClient, ClientsImported,
           RenameLegacy, load_or_create_server_keys, load_clients, Goto
  <2> QED
    BY <1>1, <2>1, SettingsKeptByStart DEF Stage, SettingsStored
<1>6. CASE SettingsStep
  BY <1>1, <1>6, SettingsInvStep
<1>7. CASE \/ \E c \in Client : Pair(c) \/ remove_client(c)
           \/ change_password
           \/ UNCHANGED vars
  <2>1. UNCHANGED <<boot, next_row, svars>>
    BY <1>7 DEF Pair, remove_client, change_password, vars
  <2> QED
    BY <1>1, <2>1
       DEF SettingsInv, SettingsTypeOK, Tables, RowsInv, LogInv, LetInAsAsked,
           InTransaction, validate_settings, svars, transaction
<1>8. CASE Crash
  <2>1. /\ boot' = "down" /\ next_row' = 1 /\ asked' = NoUpdate /\ rest' = {}
        /\ draft' = [k \in Setting |-> NoRow]
        /\ UNCHANGED <<settings, request_logs, last_log, wanted, let_in>>
    BY <1>8 DEF Crash, SettingsCrash, EndUpdate
  <2>2. ~InTransaction'
    BY <2>1 DEF InTransaction
  <2>3. SettingsTypeOK'
    BY <1>1, <2>1, <2>2, SettingNames DEF SettingsInv, SettingsTypeOK, Stage
  <2>4. Tables' /\ RowsInv'
    BY <1>1, <2>1, <2>2 DEF SettingsInv, Tables, RowsInv, SettingsStored
  <2>5. LogInv' /\ LetInAsAsked'
    BY <1>1, <2>1 DEF SettingsInv, LogInv, LetInAsAsked
  <2> QED
    BY <2>3, <2>4, <2>5 DEF SettingsInv
<1> QED
  BY <1>2, <1>3, <1>4, <1>5, <1>6, <1>7, <1>8 DEF Next, Start

\* Steps of the start, of a running server and its end keep the invariant.
LEMMA StartupInvStep == StartupInv /\ [Next]_vars => StartupInv'
<1> DEFINE HubInv == TypeOK /\ KeysInv /\ ImportInv /\ AdminRowInv
                     /\ removed \cap paired_clients = {}
<1> SUFFICES ASSUME StartupInv, [Next]_vars PROVE HubInv'
  BY SettingsAlways DEF StartupInv
<1> HIDE DEF HubInv
<1>t. SettingsTypeOK' /\ boot' \in Stage
  BY SettingsAlways DEF SettingsInv, SettingsTypeOK
<1>h. TypeOK /\ KeysInv /\ ImportInv /\ AdminRowInv /\ removed \cap paired_clients = {}
  BY DEF StartupInv
<1> USE <1>t, <1>h, StartupAssumption
    DEF StartupAssumption, disk, hub, history, uvars, Goto, AnyKey
<1>1. CASE Boot
  <2>1. TypeOK' /\ KeysInv' /\ AdminRowInv'
    BY <1>1 DEF Boot, TypeOK, KeysInv, AdminRowInv
  <2>2. ImportInv'
    BY <1>1 DEF Boot, ImportInv
  <2> QED
    BY <1>1, <2>1, <2>2 DEF HubInv, Boot
<1>2. CASE ensure_default_admin
  <2>1. TypeOK' /\ KeysInv' /\ AdminRowInv'
    BY <1>2 DEF ensure_default_admin, TypeOK, Password, KeysInv, AdminRowInv
  <2>2. ImportInv'
    BY <1>2 DEF ensure_default_admin, ImportInv
  <2> QED
    BY <1>2, <2>1, <2>2 DEF HubInv, ensure_default_admin
<1>3. CASE SettingsDone
  <2>1. TypeOK' /\ KeysInv' /\ AdminRowInv'
    BY <1>3 DEF SettingsDone, TypeOK, KeysInv, AdminRowInv
  <2>2. ImportInv'
    BY <1>3 DEF SettingsDone, ImportInv
  <2> QED
    BY <1>3, <2>1, <2>2 DEF HubInv, SettingsDone
<1>4. CASE NothingToImport
  <2>1. TypeOK' /\ KeysInv' /\ AdminRowInv'
    BY <1>4 DEF NothingToImport, TypeOK, KeysInv, AdminRowInv
  <2>2. ImportInv'
    BY <1>4 DEF NothingToImport, HasLegacy, ImportInv
  <2> QED
    BY <1>4, <2>1, <2>2 DEF HubInv, NothingToImport
<1>5. CASE ImportKeys
  <2>1. TypeOK' /\ AdminRowInv'
    BY <1>5 DEF ImportKeys, TypeOK, AdminRowInv
  <2>2. KeysInv'
    BY <1>5 DEF ImportKeys, HasLegacy, KeysInv, ImportInv
  <2>3. ImportInv'
    BY <1>5 DEF ImportKeys, HasLegacy, ImportInv, KeysInv
  <2> QED
    BY <1>5, <2>1, <2>2, <2>3 DEF HubInv, ImportKeys
<1>6. ASSUME NEW c \in Client, ImportClient(c) PROVE HubInv'
  <2>1. TypeOK' /\ AdminRowInv'
    BY <1>6 DEF ImportClient, TypeOK, AdminRowInv
  <2>2. KeysInv'
    BY <1>6 DEF ImportClient, KeysInv, TypeOK
  <2>3. ImportInv'
    BY <1>6 DEF ImportClient, ImportInv
  <2>4. removed' \cap paired_clients' = {}
    BY <1>6 DEF ImportClient, ImportInv
  <2> QED
    BY <2>1, <2>2, <2>3, <2>4 DEF HubInv
<1>7. CASE ClientsImported
  <2>1. TypeOK' /\ KeysInv' /\ AdminRowInv'
    BY <1>7 DEF ClientsImported, TypeOK, KeysInv, AdminRowInv
  <2>2. ImportInv'
    BY <1>7 DEF ClientsImported, ImportInv
  <2> QED
    BY <1>7, <2>1, <2>2 DEF HubInv, ClientsImported
<1>8. CASE RenameLegacy
  <2>1. TypeOK' /\ KeysInv' /\ AdminRowInv'
    BY <1>8 DEF RenameLegacy, TypeOK, KeysInv, AdminRowInv
  <2>2. ImportInv'
    BY <1>8 DEF RenameLegacy, ImportInv, KeysInv
  <2> QED
    BY <1>8, <2>1, <2>2 DEF HubInv, RenameLegacy
<1>9. CASE load_or_create_server_keys
  <2>1. /\ boot = "keys" /\ boot' = "load"
        /\ keys' \in AnyKey /\ server_keys' = keys' /\ keys' # NoKey
        /\ server_keys # NoKey => server_keys' = server_keys
        /\ UNCHANGED <<next_row, svars, admin_users, hub_state, paired_clients,
                       importing, clients, history>>
    BY <1>9 DEF load_or_create_server_keys, TypeOK
  <2>2. TypeOK' /\ AdminRowInv'
    BY <2>1 DEF TypeOK, AdminRowInv
  <2>3. KeysInv'
    BY <2>1 DEF KeysInv, ImportInv
  <2>4. ImportInv'
    BY <2>1 DEF ImportInv
  <2> QED
    BY <2>1, <2>2, <2>3, <2>4 DEF HubInv
<1>10. CASE load_clients
  <2>1. TypeOK' /\ KeysInv' /\ AdminRowInv'
    BY <1>10 DEF load_clients, TypeOK, KeysInv, AdminRowInv
  <2>2. ImportInv'
    BY <1>10 DEF load_clients, ImportInv
  <2> QED
    BY <1>10, <2>1, <2>2 DEF HubInv, load_clients
<1>11. CASE SettingsStep /\ UNCHANGED uvars
  <2>1. boot' = boot
    BY <1>11
       DEF SettingsStep, ensure_default_settings, BeginUpdate, WriteRow,
           CommitUpdate, RollBack, log_request, LetIn
  <2>2. TypeOK' /\ KeysInv' /\ AdminRowInv' /\ ImportInv'
    BY <1>11, <2>1 DEF TypeOK, KeysInv, AdminRowInv, ImportInv
  <2> QED
    BY <1>11, <2>2 DEF HubInv
<1>12. ASSUME NEW c \in Client, Pair(c) PROVE HubInv'
  <2>1. boot = "up" /\ boot' = "up"
    BY <1>12 DEF Pair, Serving
  <2>2. TypeOK' /\ AdminRowInv'
    BY <1>12, <2>1 DEF Pair, TypeOK, AdminRowInv
  <2>3. KeysInv'
    BY <1>12, <2>1 DEF Pair, TypeOK, KeysInv, ImportInv
  <2>4. ImportInv'
    BY <1>12, <2>1 DEF Pair, ImportInv, TypeOK
  <2>5. removed' \cap paired_clients' = {}
    BY <1>12 DEF Pair
  <2> QED
    BY <2>2, <2>3, <2>4, <2>5 DEF HubInv
<1>13. ASSUME NEW c \in Client, remove_client(c) PROVE HubInv'
  <2>1. boot = "up" /\ boot' = "up" /\ server_keys # NoKey
    BY <1>13 DEF remove_client, Serving, KeysInv
  <2>2. TypeOK' /\ AdminRowInv'
    BY <1>13, <2>1 DEF remove_client, TypeOK, AdminRowInv
  <2>3. KeysInv'
    BY <1>13, <2>1 DEF remove_client, TypeOK, KeysInv, ImportInv
  <2>4. ImportInv'
    BY <1>13, <2>1 DEF remove_client, ImportInv, TypeOK
  <2>5. removed' \cap paired_clients' = {}
    BY <1>13 DEF remove_client
  <2> QED
    BY <2>2, <2>3, <2>4, <2>5 DEF HubInv
<1>14. CASE change_password
  <2>1. boot' = boot
    BY <1>14 DEF change_password
  <2>2. TypeOK' /\ AdminRowInv' /\ KeysInv' /\ ImportInv'
    BY <1>14, <2>1
       DEF change_password, TypeOK, Password, AdminRowInv, KeysInv, ImportInv
  <2> QED
    BY <1>14, <2>2 DEF HubInv, change_password
<1>15. CASE Crash
  <2>1. boot' = "down"
    BY <1>15 DEF Crash, SettingsCrash
  <2>2. TypeOK' /\ AdminRowInv'
    BY <1>15, <2>1 DEF Crash, TypeOK, AdminRowInv
  <2>3. KeysInv'
    BY <1>15, <2>1 DEF Crash, KeysInv
  <2>4. ImportInv'
    BY <1>15, <2>1 DEF Crash, ImportInv
  <2> QED
    BY <1>15, <2>2, <2>3, <2>4 DEF HubInv, Crash
<1>16. CASE UNCHANGED vars
  <2>1. TypeOK' /\ AdminRowInv' /\ KeysInv' /\ ImportInv'
    BY <1>16 DEF vars, TypeOK, AdminRowInv, KeysInv, ImportInv
  <2> QED
    BY <1>16, <2>1 DEF HubInv, vars
<1> QED
  BY <1>1, <1>2, <1>3, <1>4, <1>5, <1>6, <1>7, <1>8, <1>9, <1>10, <1>11, <1>12,
     <1>13, <1>14, <1>15, <1>16 DEF Next, Start

\* The invariant holds at every stage of every start and while serving.
LEMMA StartupInvAlways == Spec => []StartupInv
  BY StartupInvInit, StartupInvStep, PTL DEF Spec

-----------------------------------------------------------------------------
\* The tables and the variables of main and Hub keep their types, and every
\* stored setting is one validate_settings accepts.
THEOREM StartupTypesCorrect == Spec => []TypeOK
<1>1. StartupInv => TypeOK
  BY DEF StartupInv
<1> QED
  BY <1>1, StartupInvAlways, PTL

\* Stored settings are those the administrator last got an answer for, as a
\* whole, whatever crashed or failed (update_settings,
\* ensure_default_settings).
THEOREM SettingsStayAsAsked == Spec => []SettingsAsAsked
<1>1. StartupInv => SettingsAsAsked
  BY UpHasRows DEF StartupInv, SettingsInv, RowsInv, SettingsAsAsked
<1> QED
  BY <1>1, StartupInvAlways, PTL

\* The log holds the newest requests and never more of them than the limit
\* (request_log, prune_request_logs).
THEOREM LogStaysNewest == Spec => []LogIsNewest
<1>1. StartupInv => LogIsNewest
  <2> SUFFICES ASSUME StartupInv PROVE LogIsNewest
    OBVIOUS
  <2>1. boot = "up" => settings["log_retention_count"] # NoRow
    BY SettingNames DEF StartupInv, SettingsInv, RowsInv, SettingsStored
  <2> QED
    BY <2>1 DEF StartupInv, SettingsInv, LogInv, LogIsNewest
<1> QED
  BY <1>1, StartupInvAlways, PTL

\* What is let in is what the settings in force allow, to the byte
\* (enforce_sync_settings).
THEOREM LetInStaysAsAsked == Spec => []LetInAsAsked
<1>1. StartupInv => LetInAsAsked
  BY DEF StartupInv, SettingsInv
<1> QED
  BY <1>1, StartupInvAlways, PTL

\* A server that is up has the key every paired client was given
\* (import_legacy_state, load_or_create_server_keys).
THEOREM ServerStaysRecognised == Spec => []ServerIsRecognised
<1>1. StartupInv => ServerIsRecognised
  BY DEF StartupInv, KeysInv, ServerIsRecognised
<1> QED
  BY <1>1, StartupInvAlways, PTL

\* No start undoes a removal or a changed password (import_legacy_state,
\* ensure_default_admin).
THEOREM NoStartUndoes == Spec => []DecisionsStay
<1>1. StartupInv => DecisionsStay
  BY DEF StartupInv, KeysInv, AdminRowInv, DecisionsStay
<1> QED
  BY <1>1, StartupInvAlways, PTL

\* A file that was renamed has been imported whole, and so has the state of a
\* server that comes up, unless a start ended inside the import
\* (import_legacy_state).
THEOREM ImportStaysWhole == Spec => []ImportIsWhole
<1>1. StartupInv => ImportIsWhole
  <2> SUFFICES ASSUME StartupInv PROVE ImportIsWhole
    OBVIOUS
  <2>1. boot = "up" =>
          importing = {} /\ clients = paired_clients /\ server_keys # NoKey
    BY DEF StartupInv, ImportInv, KeysInv
  <2> QED
    BY <2>1 DEF StartupInv, ImportInv, ImportIsWhole
<1> QED
  BY <1>1, StartupInvAlways, PTL

=============================================================================
