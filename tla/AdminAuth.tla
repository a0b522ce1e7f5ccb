----------------------------- MODULE AdminAuth -----------------------------
(***************************************************************************)
(* The administrator's account (admin.rs) and its rows in SQLite           *)
(* (database.rs): logins and their sessions, the change of the password,   *)
(* the second factor, and what a session may do.                           *)
(*                                                                         *)
(* There is one account.  Every statement takes the lock of the connection *)
(* by itself, so a request that reads the row, decides and writes is three *)
(* steps, and requests interleave between them.  The tables survive a      *)
(* crash, the requests do not.                                             *)
(***************************************************************************)
EXTENDS Naturals

CONSTANTS
  Password, Default,   \* passwords, and DEFAULT_ADMIN_PASSWORD
  Secret, NoSecret,    \* TOTP secrets; a code is named by its secret
  Session,             \* session tokens, each issued once
  Handler,             \* requests the server works on at the same time
  SessionTTL,          \* SESSION_TTL_MS, in clock ticks
  MaxTime,             \* bound of the clock
  MaxChange            \* bound on the changes of the password

ASSUME AdminAssumption ==
  /\ Default \in Password
  /\ NoSecret \notin Secret
  /\ SessionTTL \in Nat
  /\ MaxTime \in Nat
  /\ MaxChange \in Nat

VARIABLES
  now,
  password, must_change_password,  \* table admin_users, the account's row
  mfa_secret, mfa_enabled,
  expires,           \* table admin_sessions: the expiry of each live session
  settings_updated,  \* whether an administrator has changed a setting
  pc, new, secret,   \* next statement of each handler, and its locals
  seen,              \* the version of the password that a login has verified
  issued,            \* history: tokens that were given out
  version,           \* history: how often the password was changed
  opened, late,      \* history: version a session was opened under, and
                     \* sessions created after that version was replaced
  torn,              \* history: a change stopped between its two statements
  proved             \* history: secrets a valid code was shown for

account == <<password, must_change_password, mfa_secret, mfa_enabled>>
locals == <<pc, new, secret, seen>>
history == <<issued, version, opened, late, torn, proved>>
vars == <<now, account, expires, settings_updated, locals, history>>

NoSession == 0                   \* expiry of a token that has no row
Live == {s \in Session : expires[s] # NoSession}
Step == {"create", "verify", "update", "delete", "write_secret", "read_secret",
         "enable", "disable_verify", "disable", "settings"}

TypeOK ==
  /\ now \in 1 .. MaxTime + 1
  /\ password \in Password
  /\ must_change_password \in BOOLEAN
  /\ mfa_secret \in Secret \cup {NoSecret}
  /\ mfa_enabled \in BOOLEAN
  /\ mfa_enabled => mfa_secret \in Secret
  /\ expires \in [Session -> 0 .. MaxTime + 1 + SessionTTL]
  /\ settings_updated \in BOOLEAN
  /\ pc \in [Handler -> Step \cup {"idle"}]
  /\ new \in [Handler -> Password]
  /\ secret \in [Handler -> Secret \cup {NoSecret}]
  /\ seen \in [Handler -> 0 .. MaxChange]
  /\ issued \in SUBSET Session
  /\ version \in 0 .. MaxChange
  /\ opened \in [Session -> 0 .. MaxChange]
  /\ late \in SUBSET Session
  /\ torn \in BOOLEAN
  /\ proved \in SUBSET Secret
  /\ \A h \in Handler : pc[h] = "enable" => secret[h] \in Secret

\* ensure_default_admin, on an empty database.
Init ==
  /\ now = 1
  /\ password = Default
  /\ must_change_password = TRUE
  /\ mfa_secret = NoSecret
  /\ mfa_enabled = FALSE
  /\ expires = [s \in Session |-> NoSession]
  /\ settings_updated = FALSE
  /\ pc = [h \in Handler |-> "idle"]
  /\ new = [h \in Handler |-> Default]
  /\ secret = [h \in Handler |-> NoSecret]
  /\ seen = [h \in Handler |-> 0]
  /\ issued = {}
  /\ version = 0
  /\ opened = [s \in Session |-> 0]
  /\ late = {}
  /\ torn = FALSE
  /\ proved = {}

Goto(h, from, to) == pc[h] = from /\ pc' = [pc EXCEPT ![h] = to]

\* The request is answered, its locals are gone.
Finish(h, from) ==
  /\ Goto(h, from, "idle")
  /\ new' = [new EXCEPT ![h] = Default]
  /\ secret' = [secret EXCEPT ![h] = NoSecret]
  /\ seen' = [seen EXCEPT ![h] = 0]

\* session_user: expired rows are deleted first.
Unexpired == [s \in Session |-> IF expires[s] < now THEN NoSession ELSE expires[s]]

\* Handler h takes up a request made with the cookie of session s.
authenticated(h, s, step) ==
  /\ expires' = Unexpired
  /\ expires'[s] # NoSession
  /\ Goto(h, "idle", step)

\* Mutant of require_ready_user: the flag is not looked at.
RequireAnyUser(h, s, step) == authenticated(h, s, step)

require_ready_user(h, s, step) ==
  /\ authenticated(h, s, step)
  /\ ~must_change_password

-----------------------------------------------------------------------------
(* Sessions *)

\* login up to the new token: the row is read once, password and code (if the
\* second factor is on) are verified against that copy.
login(h, p, code) ==
  /\ Goto(h, "idle", "create")
  /\ p = password
  /\ mfa_enabled => code = mfa_secret
  /\ seen' = [seen EXCEPT ![h] = version]
  /\ UNCHANGED <<now, account, expires, settings_updated, new, secret, history>>

create_session(h, s) ==
  /\ s \notin issued
  /\ opened' = [opened EXCEPT ![s] = seen[h]]
  /\ late' = IF seen[h] < version THEN late \cup {s} ELSE late
  /\ Finish(h, "create")
  /\ expires' = [expires EXCEPT ![s] = now + SessionTTL]
  /\ issued' = issued \cup {s}
  /\ UNCHANGED <<now, account, settings_updated, version, torn, proved>>

logout(s) ==
  /\ expires' = [expires EXCEPT ![s] = NoSession]
  /\ UNCHANGED <<now, account, settings_updated, locals, history>>

-----------------------------------------------------------------------------
(* change_password *)

ChangeStart(h, s) ==
  /\ authenticated(h, s, "verify")
  /\ UNCHANGED <<now, account, settings_updated, new, secret, seen, history>>

\* The row is read again; the current password has to match it, the new one
\* is neither the default nor the current one.
VerifyPassword(h, current, p) ==
  /\ Goto(h, "verify", "update")
  /\ current = password
  /\ p # Default
  /\ p # password
  /\ new' = [new EXCEPT ![h] = p]
  /\ UNCHANGED <<now, account, expires, settings_updated, secret, seen, history>>

\* update_password, first statement.
update_password(h) ==
  /\ version < MaxChange
  /\ Goto(h, "update", "delete")
  /\ password' = new[h]
  /\ must_change_password' = FALSE
  /\ version' = version + 1
  /\ UNCHANGED <<now, mfa_secret, mfa_enabled, expires, settings_updated, new,
                 secret, seen, issued, opened, late, torn, proved>>

\* Mutant of delete_user_sessions: only expired sessions are deleted.
DeleteExpiredSessions(h) ==
  /\ Finish(h, "delete")
  /\ expires' = Unexpired
  /\ torn' = FALSE
  /\ UNCHANGED <<now, account, settings_updated, issued, version, opened, late,
                 proved>>

\* update_password, second statement.
delete_user_sessions(h) ==
  /\ Finish(h, "delete")
  /\ expires' = [s \in Session |-> NoSession]
  /\ torn' = FALSE
  /\ UNCHANGED <<now, account, settings_updated, issued, version, opened, late,
                 proved>>

-----------------------------------------------------------------------------
(* The second factor *)

\* mfa_setup: a fresh secret, not yet enabled, replaces whatever is there.
SetupStart(h, s) ==
  /\ require_ready_user(h, s, "write_secret")
  /\ UNCHANGED <<now, account, settings_updated, new, secret, seen, history>>

SetupWrite(h, k) ==
  /\ Finish(h, "write_secret")
  /\ mfa_secret' = k
  /\ mfa_enabled' = FALSE
  /\ UNCHANGED <<now, password, must_change_password, expires,
                 settings_updated, history>>

EnableStart(h, s) ==
  /\ require_ready_user(h, s, "read_secret")
  /\ UNCHANGED <<now, account, settings_updated, new, secret, seen, history>>

\* The stored secret is read and the code verified against this copy.
EnableVerify(h, code) ==
  /\ Goto(h, "read_secret", "enable")
  /\ mfa_secret # NoSecret
  /\ code = mfa_secret
  /\ secret' = [secret EXCEPT ![h] = mfa_secret]
  /\ proved' = proved \cup {code}
  /\ UNCHANGED <<now, account, expires, settings_updated, new, seen, issued,
                 version, opened, late, torn>>

\* Mutant of EnableWrite: only the flag is set.
EnableFlag(h) ==
  /\ Finish(h, "enable")
  /\ mfa_secret # NoSecret
  /\ mfa_enabled' = TRUE
  /\ UNCHANGED <<now, password, must_change_password, mfa_secret, expires,
                 settings_updated, history>>

\* Mutant of EnableWrite: the copy is taken from the request's form, which
\* may be empty.
EnableEmpty(h) ==
  /\ Finish(h, "enable")
  /\ mfa_secret' = NoSecret
  /\ mfa_enabled' = TRUE
  /\ UNCHANGED <<now, password, must_change_password, expires,
                 settings_updated, history>>

\* set_mfa writes the copy back, over a secret set up in the meantime.
EnableWrite(h) ==
  /\ Finish(h, "enable")
  /\ mfa_secret' = secret[h]
  /\ mfa_enabled' = TRUE
  /\ UNCHANGED <<now, password, must_change_password, expires,
                 settings_updated, history>>

DisableStart(h, s) ==
  /\ require_ready_user(h, s, "disable_verify")
  /\ UNCHANGED <<now, account, settings_updated, new, secret, seen, history>>

DisableVerify(h, p, code) ==
  /\ Goto(h, "disable_verify", "disable")
  /\ p = password
  /\ mfa_secret # NoSecret
  /\ code = mfa_secret
  /\ UNCHANGED <<now, account, expires, settings_updated, new, secret, seen,
                 history>>

DisableWrite(h) ==
  /\ Finish(h, "disable")
  /\ mfa_secret' = NoSecret
  /\ mfa_enabled' = FALSE
  /\ UNCHANGED <<now, password, must_change_password, expires,
                 settings_updated, history>>

-----------------------------------------------------------------------------
(* Everything else a session may do; update_settings stands for it. *)

SettingsStart(h, s) ==
  /\ require_ready_user(h, s, "settings")
  /\ UNCHANGED <<now, account, settings_updated, new, secret, seen, history>>

update_settings(h) ==
  /\ Finish(h, "settings")
  /\ settings_updated' = TRUE
  /\ UNCHANGED <<now, account, expires, history>>

\* A check or a statement fails: the request ends with an error.
Fail(h) ==
  /\ \E step \in Step : Finish(h, step)
  /\ torn' = (torn \/ pc[h] = "delete")
  /\ UNCHANGED <<now, account, expires, settings_updated, issued, version,
                 opened, late, proved>>

Crash ==
  /\ pc' = [h \in Handler |-> "idle"]
  /\ new' = [h \in Handler |-> Default]
  /\ secret' = [h \in Handler |-> NoSecret]
  /\ seen' = [h \in Handler |-> 0]
  /\ torn' = (torn \/ \E h \in Handler : pc[h] = "delete")
  /\ UNCHANGED <<now, account, expires, settings_updated, issued, version,
                 opened, late, proved>>

Tick ==
  /\ now <= MaxTime
  /\ now' = now + 1
  /\ UNCHANGED <<account, expires, settings_updated, locals, history>>

-----------------------------------------------------------------------------
Begin(h) ==
  \/ \E p \in Password, code \in Secret : login(h, p, code)
  \/ \E s \in Session :
       \/ ChangeStart(h, s)
       \/ SetupStart(h, s)
       \/ EnableStart(h, s)
       \/ DisableStart(h, s)
       \/ SettingsStart(h, s)

Proceed(h) ==
  \/ \E s \in Session : create_session(h, s)
  \/ \E current, p \in Password : VerifyPassword(h, current, p)
  \/ update_password(h)
  \/ delete_user_sessions(h)
  \/ \E k \in Secret : SetupWrite(h, k)
  \/ \E code \in Secret : EnableVerify(h, code)
  \/ EnableWrite(h)
  \/ \E p \in Password, code \in Secret : DisableVerify(h, p, code)
  \/ DisableWrite(h)
  \/ update_settings(h)
  \/ Fail(h)

Next ==
  \/ \E h \in Handler : Begin(h) \/ Proceed(h)
  \/ \E s \in Session : logout(s)
  \/ Tick
  \/ Crash

Spec == Init /\ [][Next]_vars

-----------------------------------------------------------------------------
(* Properties *)

\* README, "首次登录必须修改默认密码": as long as the default password is in
\* force a session can do nothing but change it, whatever requests are in
\* flight, after a crash too (require_ready_user, validate_password).
DefaultIsPowerless ==
  password = Default =>
    /\ must_change_password
    /\ mfa_secret = NoSecret
    /\ ~settings_updated

\* A session opened before a change of the password does not outlive it: the
\* exceptions are a change that has not deleted the sessions yet or was cut
\* off before it could, and a login that had read the row before the change
\* and wrote its session after it (update_password, login).
OldSessionsEnd ==
  \A s \in Live : opened[s] < version =>
    torn \/ s \in late \/ \E h \in Handler : pc[h] = "delete"

\* The second factor is only ever switched on with a secret that a valid code
\* was shown for, also when a new secret is set up between the check of the
\* code and the write (mfa_enable): nobody is locked out.
EnabledSecretWasProved == mfa_enabled => mfa_secret \in proved

=============================================================================
