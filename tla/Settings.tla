------------------------------ MODULE Settings ------------------------------
(***************************************************************************)
(* The settings of the administrator and the log of requests (database.rs, *)
(* admin.rs) and what the settings let in (enforce_sync_settings,          *)
(* routes.rs).                                                             *)
(*                                                                         *)
(* Every statement runs under the lock of the one connection; a            *)
(* transaction keeps the lock from its begin to its commit.  A crash       *)
(* leaves what was committed.  The row "encrypt_sync" is stored like the   *)
(* others and read by nothing; of the seven switches for paste types there *)
(* is one for a type with a size limit and one for a type without.         *)
(***************************************************************************)
EXTENDS Naturals, Sequences, FiniteSets

CONSTANTS
  Update,            \* settings an administrator sends, each for some of the keys
  Size,              \* sizes of pastes, 0 when the field is missing
  Mb,                \* 1024 * 1024 in the code
  DefaultMb, MaxMb,  \* 512 and 102400 in the code
  DefaultRetention,  \* 10000 in the code
  MinRetention, MaxRetention,  \* 1000 and 1000000 in the code
  NoRow,
  MaxLog             \* bound on the requests ever logged

\* The rows in the order of ensure_default_settings.
Defaults ==
  << <<"limit_file_size", 1>>, <<"max_file_size_mb", DefaultMb>>,
     <<"clipboard_relay", 1>>, <<"sync_text", 1>>, <<"sync_file", 1>>,
     <<"log_retention_count", DefaultRetention>> >>

Setting == {Defaults[i][1] : i \in 1 .. Len(Defaults)}
PasteType == {"text", "file"}

ASSUME SettingsAssumption ==
  /\ \A u \in Update : DOMAIN u \subseteq Setting /\ u \in [DOMAIN u -> Nat]
  /\ Size \subseteq Nat
  /\ Mb \in Nat \ {0}
  /\ MaxMb \in Nat
  /\ DefaultMb \in 1 .. MaxMb
  /\ MinRetention \in Nat \ {0}
  /\ MaxRetention \in Nat
  /\ DefaultRetention \in MinRetention .. MaxRetention
  /\ NoRow \notin Nat
  /\ MaxLog \in Nat

VARIABLES
  boot,          \* how far main has come; "up" once it serves requests
  next_row,      \* the row ensure_default_settings is at
  settings,      \* table settings, as committed; 0 and 1 for false and true
  request_logs,  \* table request_logs: ids
  last_log,      \* the id given last
  asked, rest,   \* update_settings: its argument and the rows still to write
  draft,         \* settings as its transaction sees them
  wanted,        \* history: the settings as the administrator last had them
  let_in         \* history: type and size of the paste let in last under the
                 \*   settings in force

transaction == <<asked, rest, draft>>
svars == <<settings, request_logs, last_log, transaction, wanted, let_in>>

Stage == {"down", "admin", "settings", "import", "clients", "rename", "keys",
          "load", "up"}

\* Values validate_settings lets through.
Valid(k) ==
  CASE k = "max_file_size_mb" -> 1 .. MaxMb
    [] k = "log_retention_count" -> MinRetention .. MaxRetention
    [] OTHER -> {0, 1}

NoUpdate == << >>
InTransaction == asked # NoUpdate
Default == [k \in Setting |->
  Defaults[CHOOSE i \in 1 .. Len(Defaults) : Defaults[i][1] = k][2]]

SettingsTypeOK ==
  /\ boot \in Stage
  /\ next_row \in 1 .. Len(Defaults) + 1
  /\ DOMAIN settings = Setting
  /\ DOMAIN draft = Setting
  /\ \A k \in Setting : {settings[k], draft[k]} \subseteq Valid(k) \cup {NoRow}
  /\ request_logs \in SUBSET (1 .. MaxLog)
  /\ last_log \in 0 .. MaxLog
  /\ asked \in Update \cup {NoUpdate}
  /\ rest \in SUBSET Setting
  /\ InTransaction => boot = "up"

SettingsInit ==
  /\ boot = "down"
  /\ next_row = 1
  /\ settings = [k \in Setting |-> NoRow]
  /\ request_logs = {}
  /\ last_log = 0
  /\ asked = NoUpdate
  /\ rest = {}
  /\ draft = [k \in Setting |-> NoRow]
  /\ wanted = Default
  /\ let_in = << >>

\* The server answers requests, and nobody holds the connection.
Serving == boot = "up" /\ ~InTransaction

-----------------------------------------------------------------------------
(* Start *)

\* INSERT OR IGNORE, one row after the other, each committed by itself.
ensure_default_settings ==
  LET k == Defaults[next_row][1] IN
  /\ boot = "settings"
  /\ next_row <= Len(Defaults)
  /\ settings' = [settings EXCEPT ![k] =
                    IF @ = NoRow THEN Defaults[next_row][2] ELSE @]
  /\ next_row' = next_row + 1
  /\ UNCHANGED <<boot, request_logs, last_log, transaction, wanted, let_in>>

-----------------------------------------------------------------------------
(* update_settings *)

\* Mutant of validate_settings: the log's limit is not looked at.
ValidateAllButLog(u) ==
  \A k \in DOMAIN u \ {"log_retention_count"} : u[k] \in Valid(k)

validate_settings(u) == \A k \in DOMAIN u : u[k] \in Valid(k)

BeginUpdate(u) ==
  /\ Serving
  /\ validate_settings(u)
  /\ asked' = u
  /\ rest' = DOMAIN u
  /\ draft' = settings
  /\ UNCHANGED <<boot, next_row, settings, request_logs, last_log, wanted, let_in>>

\* Mutant of WriteRow: the statement runs on the connection itself.
WriteRowNow(k) ==
  /\ InTransaction
  /\ k \in rest
  /\ settings' = [settings EXCEPT ![k] = asked[k]]
  /\ draft' = [draft EXCEPT ![k] = asked[k]]
  /\ rest' = rest \ {k}
  /\ UNCHANGED <<boot, next_row, request_logs, last_log, asked, wanted, let_in>>

\* The rows come in the order of a hash map.
WriteRow(k) ==
  /\ InTransaction
  /\ k \in rest
  /\ draft' = [draft EXCEPT ![k] = asked[k]]
  /\ rest' = rest \ {k}
  /\ UNCHANGED <<boot, next_row, settings, request_logs, last_log, asked, wanted,
                 let_in>>

\* The ids that are left when the newest n are kept.
prune_request_logs(ids, n) ==
  {i \in ids : Cardinality({j \in ids : j > i}) < n}

EndUpdate ==
  /\ asked' = NoUpdate
  /\ rest' = {}
  /\ draft' = [k \in Setting |-> NoRow]

\* Mutant of CommitUpdate: the log waits for the next request.
CommitWithoutPrune ==
  /\ InTransaction
  /\ rest = {}
  /\ settings' = draft
  /\ wanted' = [k \in Setting |->
                  IF k \in DOMAIN asked THEN asked[k] ELSE wanted[k]]
  /\ let_in' = << >>
  /\ EndUpdate
  /\ UNCHANGED <<boot, next_row, request_logs, last_log>>

\* A new limit is applied to the log in the same transaction.
CommitUpdate ==
  /\ InTransaction
  /\ rest = {}
  /\ settings' = draft
  /\ request_logs' =
       IF "log_retention_count" \in DOMAIN asked
       THEN prune_request_logs(request_logs, draft["log_retention_count"])
       ELSE request_logs
  /\ wanted' = [k \in Setting |->
                  IF k \in DOMAIN asked THEN asked[k] ELSE wanted[k]]
  /\ let_in' = << >>
  /\ EndUpdate
  /\ UNCHANGED <<boot, next_row, last_log>>

\* A statement or the commit fails: the transaction is rolled back and the
\* administrator is told so.
RollBack ==
  /\ InTransaction
  /\ EndUpdate
  /\ UNCHANGED <<boot, next_row, settings, request_logs, last_log, wanted, let_in>>

-----------------------------------------------------------------------------
\* One transaction: a new row, and the oldest ones go.
request_log ==
  /\ last_log' = last_log + 1
  /\ request_logs' = prune_request_logs(request_logs \cup {last_log + 1},
                                        settings["log_retention_count"])

\* The end of a request.  A transaction that fails is ignored, and requests for
\* the log itself leave none, so that the step may as well not be taken.
log_request ==
  /\ Serving
  /\ last_log < MaxLog
  /\ request_log
  /\ UNCHANGED <<boot, next_row, settings, transaction, wanted, let_in>>

\* Mutant of TooLarge: the size is rounded down to megabytes first.
TooManyMb(size) ==
  /\ settings["limit_file_size"] # 0
  /\ size \div Mb > settings["max_file_size_mb"]

TooLarge(size) ==
  /\ settings["limit_file_size"] # 0
  /\ size > settings["max_file_size_mb"] * Mb

\* All rows are read at once; a request that fails here changes nothing.  The
\* code's values for missing rows are not needed: a server that is up has them
\* all (SettingsAsAsked).
enforce_sync_settings(type, size) ==
  /\ settings["clipboard_relay"] # 0
  /\ settings[IF type = "file" THEN "sync_file" ELSE "sync_text"] # 0
  /\ type = "file" => ~TooLarge(size)

\* A paste gets past enforce_sync_settings, as the beginning of sync_paste.
LetIn(type, size) ==
  /\ Serving
  /\ enforce_sync_settings(type, size)
  /\ let_in' = <<type, size>>
  /\ UNCHANGED <<boot, next_row, settings, request_logs, last_log, transaction,
                 wanted>>

SettingsStep ==
  \/ ensure_default_settings
  \/ \E u \in Update : BeginUpdate(u)
  \/ \E k \in Setting : WriteRow(k)
  \/ CommitUpdate
  \/ RollBack
  \/ log_request
  \/ \E type \in PasteType, size \in Size : LetIn(type, size)

\* The process is gone: an open transaction leaves nothing.
SettingsCrash ==
  /\ boot' = "down"
  /\ next_row' = 1
  /\ EndUpdate
  /\ UNCHANGED <<settings, request_logs, last_log, wanted, let_in>>

-----------------------------------------------------------------------------
(* Properties *)

\* What is stored is what the administrator last got an answer for, as a
\* whole: no crash, no failed statement and no later start leaves a mixture of
\* two updates, or a default in the place of a choice; and a server that is up
\* has all the rows (update_settings, ensure_default_settings).
SettingsAsAsked ==
  /\ \A k \in Setting : settings[k] \in {NoRow, wanted[k]}
  /\ boot = "up" => settings = wanted

\* The log holds the newest requests without a gap, and never more of them
\* than the limit in force, from the moment the limit is lowered
\* (request_log, update_settings, prune_request_logs).
LogIsNewest ==
  /\ boot = "up" =>
       Cardinality(request_logs) <= settings["log_retention_count"]
  /\ \A i \in request_logs : i .. last_log \subseteq request_logs

\* README, settings of the console: a paste is let in only while the relay and
\* its type are switched on, and a file only up to the limit, to the byte, by
\* the settings the administrator last had an answer for
\* (enforce_sync_settings).
LetInAsAsked ==
  let_in # << >> =>
    /\ wanted["clipboard_relay"] = 1
    /\ wanted[IF let_in[1] = "file" THEN "sync_file" ELSE "sync_text"] = 1
    /\ let_in[1] = "file" /\ wanted["limit_file_size"] = 1 =>
         let_in[2] <= wanted["max_file_size_mb"] * Mb

=============================================================================
