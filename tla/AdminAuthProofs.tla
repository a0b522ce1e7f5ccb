-------------------------- MODULE AdminAuthProofs --------------------------
(***************************************************************************)
(* Theorems about AdminAuth, for any passwords, secrets, sessions and      *)
(* requests, any lifetime of a session and any bounds.                     *)
(*                                                                         *)
(* The three properties are not inductive alone: a request acts on what it *)
(* checked some statements ago.  RequestsKnow says what a request that has *)
(* passed its checks may rely on when it writes.                           *)
(***************************************************************************)
EXTENDS AdminAuth, TLAPS

\* The steps behind require_ready_user.
Gated == {"write_secret", "read_secret", "enable", "disable_verify", "disable",
          "settings"}

\* The default password is never chosen, the gate stays open once it was
\* passed, and a verified secret stays verified.
RequestsKnow ==
  \A h \in Handler :
    /\ pc[h] = "update" => new[h] # Default
    /\ pc[h] \in Gated => ~must_change_password
    /\ pc[h] = "enable" => secret[h] \in proved

\* Nothing was done behind the gate while it was closed.
GateHolds ==
  /\ password = Default => must_change_password
  /\ must_change_password => mfa_secret = NoSecret /\ ~settings_updated

AdminInv ==
  /\ TypeOK
  /\ RequestsKnow
  /\ GateHolds
  /\ OldSessionsEnd
  /\ EnabledSecretWasProved

-----------------------------------------------------------------------------
\* The account as ensure_default_admin creates it satisfies the invariant.
LEMMA AdminInvInit == Init => AdminInv
<1> SUFFICES ASSUME Init PROVE AdminInv
  OBVIOUS
<1> USE AdminAssumption DEF Init, AdminAssumption
<1>1. TypeOK
  <2>1. /\ now \in 1 .. MaxTime + 1
        /\ version \in 0 .. MaxChange
        /\ expires \in [Session -> 0 .. MaxTime + 1 + SessionTTL]
        /\ seen \in [Handler -> 0 .. MaxChange]
        /\ opened \in [Session -> 0 .. MaxChange]
    BY DEF NoSession
  <2>2. /\ password \in Password
        /\ new \in [Handler -> Password]
        /\ secret \in [Handler -> Secret \cup {NoSecret}]
        /\ pc \in [Handler -> Step \cup {"idle"}]
    OBVIOUS
  <2>3. \A h \in Handler : pc[h] # "enable"
    OBVIOUS
  <2> QED
    BY <2>1, <2>2, <2>3 DEF TypeOK
<1>2. RequestsKnow
  BY DEF RequestsKnow, Gated
<1>3. GateHolds
  BY DEF GateHolds
<1>4. OldSessionsEnd
  BY DEF OldSessionsEnd, Live, NoSession
<1>5. EnabledSecretWasProved
  BY DEF EnabledSecretWasProved
<1> QED
  BY <1>1, <1>2, <1>3, <1>4, <1>5 DEF AdminInv

\* session_user deletes expired rows and nothing else: it keeps the type of
\* the table, and revives no session.
LEMMA UnexpiredIsPart ==
  ASSUME TypeOK
  PROVE  /\ Unexpired \in [Session -> 0 .. MaxTime + 1 + SessionTTL]
         /\ \A s \in Session : Unexpired[s] \in {expires[s], NoSession}
BY AdminAssumption DEF AdminAssumption, TypeOK, Unexpired, NoSession

\* The deletion of expired rows leaves OldSessionsEnd as it is, when no
\* request is in, or leaves, the middle of a change of the password.
LEMMA ExpiryKeepsOldSessionsEnd ==
  ASSUME TypeOK, OldSessionsEnd, expires' = Unexpired,
         UNCHANGED <<version, opened, late, torn>>,
         \A h \in Handler : pc[h] = "delete" => pc'[h] = "delete"
  PROVE  OldSessionsEnd'
<1> SUFFICES ASSUME NEW s \in Session, expires'[s] # NoSession,
                    opened[s] < version
             PROVE  torn \/ s \in late \/ \E h \in Handler : pc'[h] = "delete"
  BY DEF OldSessionsEnd, Live
<1>1. expires[s] # NoSession
  BY UnexpiredIsPart
<1>2. torn \/ s \in late \/ \E h \in Handler : pc[h] = "delete"
  BY <1>1 DEF OldSessionsEnd, Live
<1> QED
  BY <1>2

\* So does a step that leaves the table of sessions alone, if no request
\* leaves the middle of a change.
LEMMA QuietKeepsOldSessionsEnd ==
  ASSUME OldSessionsEnd, UNCHANGED <<expires, version, opened, late, torn>>,
         \A h \in Handler : pc[h] = "delete" => pc'[h] = "delete"
  PROVE  OldSessionsEnd'
BY DEF OldSessionsEnd, Live

\* A request takes up its work with a valid session and has changed nothing.
LEMMA StartStep ==
  ASSUME AdminInv, NEW h \in Handler, NEW s \in Session,
         NEW step \in Step \ {"update", "enable", "delete"},
         authenticated(h, s, step),
         step \in Gated => ~must_change_password,
         UNCHANGED <<now, account, settings_updated, new, secret, seen, history>>
  PROVE  AdminInv'
<1> USE DEF AdminInv
<1>1. /\ pc \in [Handler -> Step \cup {"idle"}]
      /\ pc[h] = "idle"
      /\ pc' = [pc EXCEPT ![h] = step]
      /\ expires' = Unexpired
  BY DEF authenticated, Goto, TypeOK
<1>2. TypeOK'
  BY <1>1, UnexpiredIsPart DEF TypeOK, account, history, Step
<1>3. RequestsKnow'
  BY <1>1 DEF RequestsKnow, account, history
<1>4. GateHolds'
  BY DEF GateHolds, account
<1>5. OldSessionsEnd'
  BY <1>1, ExpiryKeepsOldSessionsEnd DEF history
<1>6. EnabledSecretWasProved'
  BY DEF EnabledSecretWasProved, account, history
<1> QED
  BY <1>2, <1>3, <1>4, <1>5, <1>6

-----------------------------------------------------------------------------
\* What the end of a request leaves of the locals: its own are reset, the
\* others' are untouched.
LEMMA FinishLocals ==
  ASSUME TypeOK, NEW h \in Handler, NEW from, Finish(h, from)
  PROVE  /\ pc[h] = from
         /\ pc' \in [Handler -> Step \cup {"idle"}]
         /\ new' \in [Handler -> Password]
         /\ secret' \in [Handler -> Secret \cup {NoSecret}]
         /\ seen' \in [Handler -> 0 .. MaxChange]
         /\ \A g \in Handler :
              \/ pc'[g] = "idle" /\ g = h
              \/ /\ g # h
                 /\ pc'[g] = pc[g]
                 /\ new'[g] = new[g]
                 /\ secret'[g] = secret[g]
<1>1. 0 \in 0 .. MaxChange
  BY AdminAssumption DEF AdminAssumption
<1>2. Default \in Password
  BY AdminAssumption DEF AdminAssumption
<1> QED
  BY <1>1, <1>2 DEF TypeOK, Finish, Goto

\* A request ends, having written neither the sessions nor a history variable.
LEMMA FinishKeepsOldSessionsEnd ==
  ASSUME AdminInv, NEW h \in Handler, NEW from, Finish(h, from), from # "delete",
         UNCHANGED <<expires, version, opened, late, torn>>
  PROVE  OldSessionsEnd'
<1>1. \A g \in Handler : pc[g] = "delete" => pc'[g] = "delete"
  BY FinishLocals DEF AdminInv
<1> QED
  BY <1>1, QuietKeepsOldSessionsEnd DEF AdminInv

\* What the others know stays true if the gate stays open and proofs are kept.
LEMMA FinishKeepsRequestsKnow ==
  ASSUME AdminInv, NEW h \in Handler, NEW from, Finish(h, from),
         must_change_password' = must_change_password, proved' = proved
  PROVE  RequestsKnow'
<1>1. \A g \in Handler :
        \/ pc'[g] = "idle"
        \/ pc'[g] = pc[g] /\ new'[g] = new[g] /\ secret'[g] = secret[g]
  BY FinishLocals DEF AdminInv
<1> QED
  BY <1>1 DEF RequestsKnow, AdminInv, Gated

-----------------------------------------------------------------------------
\* Requests of the administrator that start: each comes with a session, all
\* but the login and the change of the password pass the gate.
LEMMA BeginStep ==
  ASSUME AdminInv, NEW h \in Handler, Begin(h)
  PROVE  AdminInv'
<1>1. ASSUME NEW p \in Password, NEW code \in Secret, login(h, p, code)
      PROVE  AdminInv'
  <2> USE <1>1 DEF AdminInv, login, Goto, account, history
  <2>1. TypeOK'
    BY DEF TypeOK, Step
  <2>2. RequestsKnow'
    BY DEF TypeOK, RequestsKnow, Gated
  <2>3. GateHolds'
    BY DEF GateHolds
  <2>4. OldSessionsEnd'
    BY QuietKeepsOldSessionsEnd DEF TypeOK
  <2>5. EnabledSecretWasProved'
    BY DEF EnabledSecretWasProved
  <2> QED
    BY <2>1, <2>2, <2>3, <2>4, <2>5
<1>2. ASSUME NEW s \in Session, ChangeStart(h, s)
      PROVE  AdminInv'
  BY <1>2, StartStep DEF ChangeStart, Step, Gated
<1>3. ASSUME NEW s \in Session, SetupStart(h, s)
      PROVE  AdminInv'
  BY <1>3, StartStep DEF SetupStart, require_ready_user, Step
<1>4. ASSUME NEW s \in Session, EnableStart(h, s)
      PROVE  AdminInv'
  BY <1>4, StartStep DEF EnableStart, require_ready_user, Step
<1>5. ASSUME NEW s \in Session, DisableStart(h, s)
      PROVE  AdminInv'
  BY <1>5, StartStep DEF DisableStart, require_ready_user, Step
<1>6. ASSUME NEW s \in Session, SettingsStart(h, s)
      PROVE  AdminInv'
  BY <1>6, StartStep DEF SettingsStart, require_ready_user, Step
<1> QED
  BY <1>1, <1>2, <1>3, <1>4, <1>5, <1>6 DEF Begin

\* A statement, or the check before it, of a request that is under way.
LEMMA ProceedStep ==
  ASSUME AdminInv, NEW h \in Handler, Proceed(h)
  PROVE  AdminInv'
<1> USE DEF AdminInv
<1>1. ASSUME NEW s \in Session, create_session(h, s)
      PROVE  AdminInv'
  <2> USE <1>1 DEF create_session, account
  <2>1. Finish(h, "create")
    OBVIOUS
  <2>2. TypeOK'
    <3>1. now + SessionTTL \in 0 .. MaxTime + 1 + SessionTTL
      BY AdminAssumption DEF TypeOK, AdminAssumption
    <3>2. expires' \in [Session -> 0 .. MaxTime + 1 + SessionTTL]
      BY <3>1 DEF TypeOK
    <3>3. opened' \in [Session -> 0 .. MaxChange] /\ late' \in SUBSET Session
      BY DEF TypeOK
    <3>4. \A g \in Handler : pc'[g] = "enable" => secret'[g] \in Secret
      BY <2>1, FinishLocals DEF TypeOK
    <3> QED
      BY <2>1, <3>2, <3>3, <3>4, FinishLocals DEF TypeOK
  <2>3. RequestsKnow'
    BY <2>1, FinishKeepsRequestsKnow
  <2>4. GateHolds'
    BY DEF GateHolds
  <2>5. OldSessionsEnd'
    <3>1. \A g \in Handler : pc[g] = "delete" => pc'[g] = "delete"
      BY <2>1, FinishLocals
    <3>2. \A a \in Session : a # s => expires'[a] = expires[a] /\ opened'[a] = opened[a]
      BY DEF TypeOK
    <3>3. opened'[s] < version => s \in late'
      BY DEF TypeOK
    <3>4. late \subseteq late'
      OBVIOUS
    <3> QED
      BY <3>1, <3>2, <3>3, <3>4 DEF OldSessionsEnd, Live
  <2>6. EnabledSecretWasProved'
    BY DEF EnabledSecretWasProved
  <2> QED
    BY <2>2, <2>3, <2>4, <2>5, <2>6
<1>2. ASSUME NEW current \in Password, NEW p \in Password,
             VerifyPassword(h, current, p)
      PROVE  AdminInv'
  <2> USE <1>2 DEF VerifyPassword, Goto, account, history
  <2>1. TypeOK'
    BY DEF TypeOK, Step
  <2>2. RequestsKnow'
    BY DEF TypeOK, RequestsKnow, Gated
  <2>3. GateHolds' /\ EnabledSecretWasProved'
    BY DEF GateHolds, EnabledSecretWasProved
  <2>4. OldSessionsEnd'
    BY QuietKeepsOldSessionsEnd DEF TypeOK
  <2> QED
    BY <2>1, <2>2, <2>3, <2>4
<1>3. CASE update_password(h)
  <2> USE <1>3 DEF update_password, Goto
  <2>1. version + 1 \in 0 .. MaxChange
    BY AdminAssumption DEF TypeOK, AdminAssumption
  <2>2. TypeOK'
    BY <2>1 DEF TypeOK, Step
  <2>3. RequestsKnow'
    BY DEF TypeOK, RequestsKnow, Gated
  <2>4. GateHolds' /\ EnabledSecretWasProved'
    BY DEF RequestsKnow, GateHolds, EnabledSecretWasProved
  <2>5. OldSessionsEnd'
    BY DEF TypeOK, OldSessionsEnd
  <2> QED
    BY <2>2, <2>3, <2>4, <2>5
<1>4. CASE delete_user_sessions(h)
  <2> USE <1>4 DEF delete_user_sessions, account
  <2>1. Finish(h, "delete")
    OBVIOUS
  <2>2. TypeOK'
    <3>1. expires' \in [Session -> 0 .. MaxTime + 1 + SessionTTL]
      BY AdminAssumption DEF NoSession, AdminAssumption
    <3>2. \A g \in Handler : pc'[g] = "enable" => secret'[g] \in Secret
      BY <2>1, FinishLocals DEF TypeOK
    <3> QED
      BY <2>1, <3>1, <3>2, FinishLocals DEF TypeOK
  <2>3. RequestsKnow'
    BY <2>1, FinishKeepsRequestsKnow
  <2>4. GateHolds' /\ EnabledSecretWasProved'
    BY DEF GateHolds, EnabledSecretWasProved
  <2>5. OldSessionsEnd'
    BY DEF OldSessionsEnd, Live
  <2> QED
    BY <2>2, <2>3, <2>4, <2>5
<1>5. ASSUME NEW k \in Secret, SetupWrite(h, k)
      PROVE  AdminInv'
  <2> USE <1>5 DEF SetupWrite, history
  <2>1. Finish(h, "write_secret")
    OBVIOUS
  <2>2. TypeOK'
    <3>1. \A g \in Handler : pc'[g] = "enable" => secret'[g] \in Secret
      BY <2>1, FinishLocals DEF TypeOK
    <3> QED
      BY <2>1, <3>1, FinishLocals DEF TypeOK
  <2>3. RequestsKnow'
    BY <2>1, FinishKeepsRequestsKnow
  <2>4. GateHolds'
    BY <2>1, FinishLocals DEF GateHolds, RequestsKnow, Gated
  <2>5. OldSessionsEnd' /\ EnabledSecretWasProved'
    BY <2>1, FinishKeepsOldSessionsEnd DEF EnabledSecretWasProved
  <2> QED
    BY <2>2, <2>3, <2>4, <2>5
<1>6. ASSUME NEW code \in Secret, EnableVerify(h, code)
      PROVE  AdminInv'
  <2> USE <1>6 DEF EnableVerify, Goto, account
  <2>1. TypeOK'
    BY DEF TypeOK, Step
  <2>2. RequestsKnow'
    BY DEF TypeOK, RequestsKnow, Gated
  <2>3. GateHolds' /\ EnabledSecretWasProved'
    BY DEF GateHolds, EnabledSecretWasProved
  <2>4. OldSessionsEnd'
    BY QuietKeepsOldSessionsEnd DEF TypeOK
  <2> QED
    BY <2>1, <2>2, <2>3, <2>4
<1>7. CASE EnableWrite(h)
  <2> USE <1>7 DEF EnableWrite, history
  <2>1. Finish(h, "enable")
    OBVIOUS
  <2>2. pc[h] = "enable"
    BY <2>1, FinishLocals
  <2>3. TypeOK'
    <3>1. \A g \in Handler : pc'[g] = "enable" => secret'[g] \in Secret
      BY <2>1, FinishLocals DEF TypeOK
    <3> QED
      BY <2>1, <2>2, <3>1, FinishLocals DEF TypeOK
  <2>4. RequestsKnow'
    BY <2>1, FinishKeepsRequestsKnow
  <2>5. GateHolds' /\ EnabledSecretWasProved'
    BY <2>2 DEF GateHolds, RequestsKnow, Gated, EnabledSecretWasProved
  <2>6. OldSessionsEnd'
    BY <2>1, FinishKeepsOldSessionsEnd
  <2> QED
    BY <2>3, <2>4, <2>5, <2>6
<1>8. ASSUME NEW p \in Password, NEW code \in Secret, DisableVerify(h, p, code)
      PROVE  AdminInv'
  <2> USE <1>8 DEF DisableVerify, Goto, account, history
  <2>1. TypeOK'
    BY DEF TypeOK, Step
  <2>2. RequestsKnow'
    BY DEF TypeOK, RequestsKnow, Gated
  <2>3. GateHolds' /\ EnabledSecretWasProved'
    BY DEF GateHolds, EnabledSecretWasProved
  <2>4. OldSessionsEnd'
    BY QuietKeepsOldSessionsEnd DEF TypeOK
  <2> QED
    BY <2>1, <2>2, <2>3, <2>4
<1>9. CASE DisableWrite(h)
  <2> USE <1>9 DEF DisableWrite, history
  <2>1. Finish(h, "disable")
    OBVIOUS
  <2>2. TypeOK'
    <3>1. \A g \in Handler : pc'[g] = "enable" => secret'[g] \in Secret
      BY <2>1, FinishLocals DEF TypeOK
    <3> QED
      BY <2>1, <3>1, FinishLocals DEF TypeOK
  <2>3. RequestsKnow'
    BY <2>1, FinishKeepsRequestsKnow
  <2>4. GateHolds' /\ EnabledSecretWasProved'
    BY DEF GateHolds, EnabledSecretWasProved
  <2>5. OldSessionsEnd'
    BY <2>1, FinishKeepsOldSessionsEnd
  <2> QED
    BY <2>2, <2>3, <2>4, <2>5
<1>10. CASE update_settings(h)
  <2> USE <1>10 DEF update_settings, account, history
  <2>1. Finish(h, "settings")
    OBVIOUS
  <2>2. TypeOK'
    <3>1. \A g \in Handler : pc'[g] = "enable" => secret'[g] \in Secret
      BY <2>1, FinishLocals DEF TypeOK
    <3> QED
      BY <2>1, <3>1, FinishLocals DEF TypeOK
  <2>3. RequestsKnow'
    BY <2>1, FinishKeepsRequestsKnow
  <2>4. GateHolds' /\ EnabledSecretWasProved'
    BY <2>1, FinishLocals DEF GateHolds, RequestsKnow, Gated,
       EnabledSecretWasProved
  <2>5. OldSessionsEnd'
    BY <2>1, FinishKeepsOldSessionsEnd
  <2> QED
    BY <2>2, <2>3, <2>4, <2>5
<1>11. CASE Fail(h)
  <2> USE <1>11 DEF Fail, account
  <2>1. PICK step \in Step : Finish(h, step)
    OBVIOUS
  <2>2. TypeOK'
    <3>1. \A g \in Handler : pc'[g] = "enable" => secret'[g] \in Secret
      BY <2>1, FinishLocals DEF TypeOK
    <3> QED
      BY <2>1, <3>1, FinishLocals DEF TypeOK
  <2>3. RequestsKnow'
    BY <2>1, FinishKeepsRequestsKnow
  <2>4. GateHolds' /\ EnabledSecretWasProved'
    BY DEF GateHolds, EnabledSecretWasProved
  <2>5. OldSessionsEnd'
    <3>1. \A g \in Handler : pc[g] = "delete" => pc'[g] = "delete" \/ torn'
      BY <2>1, FinishLocals
    <3> QED
      BY <3>1 DEF OldSessionsEnd, Live
  <2> QED
    BY <2>2, <2>3, <2>4, <2>5
<1> QED
  BY <1>1, <1>2, <1>3, <1>4, <1>5, <1>6, <1>7, <1>8, <1>9, <1>10, <1>11
  DEF Proceed

\* Every step of the account keeps the invariant.
LEMMA AdminInvStep == AdminInv /\ [Next]_vars => AdminInv'
<1> SUFFICES ASSUME AdminInv, [Next]_vars PROVE AdminInv'
  OBVIOUS
<1> USE DEF AdminInv
<1>1. ASSUME NEW h \in Handler, Begin(h) \/ Proceed(h)
      PROVE  AdminInv'
  BY <1>1, BeginStep, ProceedStep
<1>2. ASSUME NEW s \in Session, logout(s)
      PROVE  AdminInv'
  <2> USE <1>2 DEF logout, account, locals, history
  <2>1. TypeOK'
    BY AdminAssumption DEF TypeOK, NoSession, AdminAssumption
  <2>2. OldSessionsEnd'
    BY DEF TypeOK, OldSessionsEnd, Live
  <2>3. RequestsKnow' /\ GateHolds' /\ EnabledSecretWasProved'
    BY DEF RequestsKnow, GateHolds, EnabledSecretWasProved
  <2> QED
    BY <2>1, <2>2, <2>3
<1>3. CASE Tick
  <2> USE <1>3 DEF Tick, account, locals, history
  <2>1. TypeOK'
    BY AdminAssumption DEF TypeOK, AdminAssumption
  <2>2. OldSessionsEnd' /\ RequestsKnow' /\ GateHolds' /\ EnabledSecretWasProved'
    BY DEF OldSessionsEnd, Live, RequestsKnow, GateHolds, EnabledSecretWasProved
  <2> QED
    BY <2>1, <2>2
<1>4. CASE Crash
  <2> USE <1>4 DEF Crash, account
  <2>1. TypeOK'
    <3>1. 0 \in 0 .. MaxChange /\ Default \in Password
      BY AdminAssumption DEF AdminAssumption
    <3> QED
      BY <3>1 DEF TypeOK
  <2>2. OldSessionsEnd'
    BY DEF OldSessionsEnd, Live
  <2>3. RequestsKnow' /\ GateHolds' /\ EnabledSecretWasProved'
    BY DEF RequestsKnow, Gated, GateHolds, EnabledSecretWasProved
  <2> QED
    BY <2>1, <2>2, <2>3
<1>5. CASE UNCHANGED vars
  BY <1>5 DEF vars, account, locals, history, TypeOK, OldSessionsEnd, Live,
     RequestsKnow, GateHolds, EnabledSecretWasProved
<1> QED
  BY <1>1, <1>2, <1>3, <1>4, <1>5 DEF Next

-----------------------------------------------------------------------------
\* The invariant holds in every state the account can be in.
LEMMA AdminInvHolds == Spec => []AdminInv
BY AdminInvInit, AdminInvStep, PTL DEF Spec

\* No interleaving of requests, failing statements and crashes gives a column
\* or a local a value outside its type; a second factor is never enabled
\* without a secret (mfa_enable, mfa_disable).
THEOREM AccountTypeCorrect == Spec => []TypeOK
<1>1. AdminInv => TypeOK
  BY DEF AdminInv
<1> QED
  BY <1>1, AdminInvHolds, PTL

\* As long as the default password is in force nothing has been done that
\* require_ready_user guards, however requests interleave.
THEOREM DefaultStaysPowerless == Spec => []DefaultIsPowerless
<1>1. AdminInv => DefaultIsPowerless
  BY DEF AdminInv, GateHolds, DefaultIsPowerless
<1> QED
  BY <1>1, AdminInvHolds, PTL

\* A change of the password ends the sessions opened before it, but for a
\* change that was cut off and a login that read the row before
\* (update_password, delete_user_sessions).
THEOREM ChangeEndsSessions == Spec => []OldSessionsEnd
<1>1. AdminInv => OldSessionsEnd
  BY DEF AdminInv
<1> QED
  BY <1>1, AdminInvHolds, PTL

\* A secret that protects the account is one its owner has shown a code for,
\* also when another setup came between the check and the write (mfa_enable).
THEOREM NobodyIsLockedOut == Spec => []EnabledSecretWasProved
<1>1. AdminInv => EnabledSecretWasProved
  BY DEF AdminInv
<1> QED
  BY <1>1, AdminInvHolds, PTL

=============================================================================
