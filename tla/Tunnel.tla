------------------------------- MODULE Tunnel -------------------------------
(***************************************************************************)
(* The device tunnel: the WebSocket handler (tunnel.rs), the registry of   *)
(* device sessions (registry.rs) and the proxied requests that use them    *)
(* (proxy_http, proxy.rs).                                                 *)
(*                                                                         *)
(* Sockets, the collector of stale sessions and proxied requests run       *)
(* concurrently; what is atomic is one operation on the map of devices or  *)
(* on the map of pending requests of one session.  A session outlives its  *)
(* entry in the map of devices: every request holds its own reference.     *)
(***************************************************************************)
EXTENDS Naturals, FiniteSets

CONSTANTS
  Device,       \* app_instance_id of a Hello frame
  Socket,       \* WebSocket connections, each used once
  Request,      \* calls of proxy_http, each made once
  Gc,           \* the task that evicts stale sessions
  NoDevice, None,
  MaxInflight,  \* config.max_inflight
  MaxSession    \* bound on the sessions ever created

ASSUME TunnelAssumption ==
  /\ NoDevice \notin Device
  /\ Gc \notin Socket
  /\ None \notin Socket
  /\ MaxInflight \in Nat
  /\ MaxSession \in Nat

Session == 1 .. MaxSession
NoSession == 0

VARIABLES
  devices,           \* Registry.devices: the current session of each device
  created,           \* how many sessions exist; session s is the s-th
  owner, wire,       \* app_instance_id and socket of each session
  stale,             \* sessions not touched for longer than device_ttl
  pending,           \* DeviceSession.pending: requests waiting per session
  pc,                \* next operation of each socket handler and of Gc
  my_id, my_session, \* locals of handle_socket: last Hello and its session
  subject, victim,   \* locals of unregister_device: <<id, session>>, removed
  stale_list,        \* local of gc_stale_devices
  writer,            \* sockets whose writer task still receives frames
  sent, delivered,   \* HttpRequest frames in the channel, and at the device
  rpc, target, held, \* next operation of each request, its device, session
  reply,             \* the oneshot channel of the request
  outcome,           \* what the caller was given
  answered,          \* history: requests the device sent a response for
  retired,           \* history: sessions replaced or picked for eviction
  exposed,           \* history: sessions inserted between somebody's check and
                     \*   removal of the same device
  crowded            \* history: sessions for which two requests passed the
                     \*   check before the first was inserted

registry == <<devices, created, owner, wire, stale, pending>>
sockets == <<pc, my_id, my_session, subject, victim, stale_list>>
frames == <<writer, sent, delivered>>
requests == <<rpc, target, held, reply, outcome>>
history == <<answered, retired, exposed, crowded>>
vars == <<registry, sockets, frames, requests, history>>

Reply == {"none", "response", "disconnected"}
Outcome == {"none", "response", "disconnected", "offline", "busy", "timeout",
            "gone"}
Process == Socket \cup {Gc}
Nothing == <<NoDevice, NoSession>>
Unregistering == {"check", "remove", "drain"}

TypeOK ==
  /\ devices \in [Device -> Session \cup {NoSession}]
  /\ created \in 0 .. MaxSession
  /\ owner \in [Session -> Device \cup {NoDevice}]
  /\ wire \in [Session -> Socket \cup {None}]
  /\ stale \in SUBSET Session
  /\ pending \in [Session -> SUBSET Request]
  /\ pc \in [Process -> {"new", "open", "insert", "abort", "closed"}
                          \cup Unregistering]
  /\ my_id \in [Socket -> Device \cup {NoDevice}]
  /\ my_session \in [Socket -> Session \cup {NoSession}]
  /\ subject \in [Process -> (Device \cup {NoDevice})
                               \X (Session \cup {NoSession})]
  /\ victim \in [Process -> Session \cup {NoSession}]
  /\ stale_list \in SUBSET Session
  /\ writer \in SUBSET Socket
  /\ sent \in [Socket -> SUBSET Request]
  /\ delivered \in [Socket -> SUBSET Request]
  /\ rpc \in [Request -> {"idle", "check", "insert", "send", "wait",
                          "expire", "done"}]
  /\ target \in [Request -> Device \cup {NoDevice}]
  /\ held \in [Request -> Session \cup {NoSession}]
  /\ reply \in [Request -> Reply]
  /\ outcome \in [Request -> Outcome]
  /\ answered \in SUBSET Request
  /\ retired \in SUBSET Session
  /\ exposed \in SUBSET Session
  /\ crowded \in SUBSET Session
  /\ \A p \in Process :
       /\ pc[p] \in {"check", "remove"} => subject[p] \in Device \X Session
       /\ pc[p] = "insert" => subject[p][1] \in Device
       /\ pc[p] = "drain" => victim[p] \in Session
  /\ \A r \in Request : rpc[r] \notin {"idle", "done"} => held[r] \in Session

Init ==
  /\ devices = [d \in Device |-> NoSession]
  /\ created = 0
  /\ owner = [s \in Session |-> NoDevice]
  /\ wire = [s \in Session |-> None]
  /\ stale = {}
  /\ pending = [s \in Session |-> {}]
  /\ pc = [p \in Process |-> IF p = Gc THEN "open" ELSE "new"]
  /\ my_id = [k \in Socket |-> NoDevice]
  /\ my_session = [k \in Socket |-> NoSession]
  /\ subject = [p \in Process |-> Nothing]
  /\ victim = [p \in Process |-> NoSession]
  /\ stale_list = {}
  /\ writer = {}
  /\ sent = [k \in Socket |-> {}]
  /\ delivered = [k \in Socket |-> {}]
  /\ rpc = [r \in Request |-> "idle"]
  /\ target = [r \in Request |-> NoDevice]
  /\ held = [r \in Request |-> NoSession]
  /\ reply = [r \in Request |-> "none"]
  /\ outcome = [r \in Request |-> "none"]
  /\ answered = {}
  /\ retired = {}
  /\ exposed = {}
  /\ crowded = {}

Goto(p, from, to) == pc[p] = from /\ pc' = [pc EXCEPT ![p] = to]

-----------------------------------------------------------------------------
(* handle_socket *)

Connect(k) ==
  /\ Goto(k, "new", "open")
  /\ writer' = writer \cup {k}
  /\ UNCHANGED <<registry, my_id, my_session, subject, victim, stale_list,
                 sent, delivered, requests, history>>

\* A Hello frame, and register_device up to the removal of the session that
\* the device already had.  The old session's requests stay where they are.
Hello(k, d) ==
  /\ Goto(k, "open", "insert")
  /\ created + Cardinality({j \in Socket : pc[j] = "insert"}) < MaxSession
  /\ subject' = [subject EXCEPT ![k] = <<d, NoSession>>]
  /\ devices' = [devices EXCEPT ![d] = NoSession]
  /\ retired' = retired \cup ({devices[d]} \ {NoSession})
  /\ UNCHANGED <<created, owner, wire, stale, pending, my_id, my_session,
                 victim, stale_list, frames, requests, answered, exposed,
                 crowded>>

\* The rest of register_device and of the Hello branch.  A session that got
\* into the map since the removal is overwritten.
RegisterInsert(k) ==
  LET d == subject[k][1]
      s == created + 1 IN
  /\ Goto(k, "insert", "open")
  /\ created' = s
  /\ owner' = [owner EXCEPT ![s] = d]
  /\ wire' = [wire EXCEPT ![s] = k]
  /\ devices' = [devices EXCEPT ![d] = s]
  /\ retired' = retired \cup ({devices[d]} \ {NoSession})
  /\ exposed' = exposed \cup {x \in {s} : \E p \in Process :
                              pc[p] = "remove" /\ subject[p][1] = d}
  /\ my_id' = [my_id EXCEPT ![k] = d]
  /\ my_session' = [my_session EXCEPT ![k] = s]
  /\ subject' = [subject EXCEPT ![k] = Nothing]
  /\ UNCHANGED <<stale, pending, victim, stale_list, frames, requests,
                 answered, crowded>>

\* Ping and Pong frames: touch_device on whatever session the id has now.
Ping(k) ==
  /\ pc[k] = "open"
  /\ my_id[k] # NoDevice
  /\ stale' = stale \ {devices[my_id[k]]}
  /\ UNCHANGED <<devices, created, owner, wire, pending, sockets, frames,
                 requests, history>>

\* Mutant of HttpResponse: a request is looked up in every session, so any
\* device may answer it.
HttpResponseAnySession(k, r) ==
  /\ pc[k] = "open"
  /\ my_id[k] # NoDevice
  /\ \E j \in Socket : r \in delivered[j]
  /\ pending' = [s \in Session |-> pending[s] \ {r}]
  /\ reply' = [reply EXCEPT ![r] = IF \E s \in Session : r \in pending[s]
                                   THEN "response" ELSE @]
  /\ answered' = IF my_id[k] = target[r] THEN answered \cup {r} ELSE answered
  /\ UNCHANGED <<devices, created, owner, wire, stale, sockets, frames, rpc,
                 target, held, outcome, retired, exposed, crowded>>

\* The device answers request r on socket k; it may have received r on an
\* earlier connection.  complete_request looks only at the session that the
\* socket's id has now: the answer is dropped when r is not pending there.
HttpResponse(k, r) ==
  LET s == devices[my_id[k]] IN
  /\ pc[k] = "open"
  /\ my_id[k] # NoDevice
  /\ \E j \in Socket : r \in delivered[j] /\ my_id[j] = my_id[k]
  /\ answered' = IF my_id[k] = target[r] THEN answered \cup {r} ELSE answered
  /\ IF s # NoSession /\ r \in pending[s]
     THEN /\ pending' = [pending EXCEPT ![s] = @ \ {r}]
          /\ reply' = [reply EXCEPT ![r] = "response"]
     ELSE UNCHANGED <<pending, reply>>
  /\ UNCHANGED <<devices, created, owner, wire, stale, sockets, frames, rpc,
                 target, held, outcome, retired, exposed, crowded>>

\* Mutant of StreamEnds: a socket whose writer has failed is left to Gc.
StreamEndsQuietly(k) ==
  /\ pc[k] = "open"
  /\ pc' = [pc EXCEPT ![k] = IF my_id[k] = NoDevice \/ k \notin writer
                             THEN "abort" ELSE "check"]
  /\ subject' = [subject EXCEPT ![k] = <<my_id[k], my_session[k]>>]
  /\ UNCHANGED <<registry, my_id, my_session, victim, stale_list, frames,
                 requests, history>>

\* Mutant of StreamEnds: a socket that never said Hello is unregistered too.
StreamEndsUnnamed(k) ==
  /\ Goto(k, "open", "check")
  /\ subject' = [subject EXCEPT ![k] = <<my_id[k], my_session[k]>>]
  /\ UNCHANGED <<registry, my_id, my_session, victim, stale_list, frames,
                 requests, history>>

\* The stream ends: close frame, error or end of file.
StreamEnds(k) ==
  /\ pc[k] = "open"
  /\ pc' = [pc EXCEPT ![k] = IF my_id[k] = NoDevice THEN "abort" ELSE "check"]
  /\ subject' = [subject EXCEPT ![k] = <<my_id[k], my_session[k]>>]
  /\ UNCHANGED <<registry, my_id, my_session, victim, stale_list, frames,
                 requests, history>>

\* writer.abort(): the receiving end of the channel is dropped.
AbortWriter(k) ==
  /\ Goto(k, "abort", "closed")
  /\ writer' = writer \ {k}
  /\ sent' = [sent EXCEPT ![k] = {}]
  /\ UNCHANGED <<registry, my_id, my_session, subject, victim, stale_list,
                 delivered, requests, history>>

\* The writer task passes a frame on to the device.
Deliver(k, r) ==
  /\ k \in writer
  /\ r \in sent[k]
  /\ sent' = [sent EXCEPT ![k] = @ \ {r}]
  /\ delivered' = [delivered EXCEPT ![k] = @ \cup {r}]
  /\ UNCHANGED <<registry, sockets, writer, requests, history>>

\* A frame, an acknowledgement or a Pong included, cannot be written: the
\* writer task ends, the reader does not know.
WriterFails(k) ==
  /\ k \in writer
  /\ writer' = writer \ {k}
  /\ sent' = [sent EXCEPT ![k] = {}]
  /\ UNCHANGED <<registry, sockets, delivered, requests, history>>

-----------------------------------------------------------------------------
(* unregister_device, called by a socket handler at its end and by Gc *)

AfterUnregister(p) == IF p = Gc THEN "open" ELSE "abort"

\* Mutant of UnregisterCheck: any session of the device will do.
UnregisterCheckAny(p) ==
  LET matches == devices[subject[p][1]] # NoSession IN
  /\ Goto(p, "check", IF matches THEN "remove" ELSE AfterUnregister(p))
  /\ subject' = [subject EXCEPT ![p] = IF matches THEN @ ELSE Nothing]
  /\ UNCHANGED <<registry, my_id, my_session, victim, stale_list, frames,
                 requests, history>>

\* The session id is compared under a guard that is dropped before the
\* removal.
UnregisterCheck(p) ==
  LET matches == devices[subject[p][1]] = subject[p][2] IN
  /\ Goto(p, "check", IF matches THEN "remove" ELSE AfterUnregister(p))
  /\ subject' = [subject EXCEPT ![p] = IF matches THEN @ ELSE Nothing]
  /\ UNCHANGED <<registry, my_id, my_session, victim, stale_list, frames,
                 requests, history>>

\* Removes the session that the id has by now.
UnregisterRemove(p) ==
  LET d == subject[p][1] IN
  /\ Goto(p, "remove", IF devices[d] = NoSession THEN AfterUnregister(p)
                       ELSE "drain")
  /\ victim' = [victim EXCEPT ![p] = devices[d]]
  /\ devices' = [devices EXCEPT ![d] = NoSession]
  /\ subject' = [subject EXCEPT ![p] = Nothing]
  /\ UNCHANGED <<created, owner, wire, stale, pending, my_id, my_session,
                 stale_list, frames, requests, history>>

\* Mutant of UnregisterDrain: the entries are dropped and nobody is told.
DrainSilently(p) ==
  LET s == victim[p] IN
  /\ Goto(p, "drain", AfterUnregister(p))
  /\ pending' = [pending EXCEPT ![s] = {}]
  /\ victim' = [victim EXCEPT ![p] = NoSession]
  /\ UNCHANGED <<devices, created, owner, wire, stale, my_id, my_session,
                 subject, stale_list, frames, requests, history>>

\* Every request that is pending in the removed session is answered.  The
\* loop over the keys is one step: it commutes with what others do meanwhile.
UnregisterDrain(p) ==
  LET s == victim[p] IN
  /\ Goto(p, "drain", AfterUnregister(p))
  /\ reply' = [r \in Request |->
                 IF r \in pending[s] THEN "disconnected" ELSE reply[r]]
  /\ pending' = [pending EXCEPT ![s] = {}]
  /\ victim' = [victim EXCEPT ![p] = NoSession]
  /\ UNCHANGED <<devices, created, owner, wire, stale, my_id, my_session,
                 subject, stale_list, frames, rpc, target, held,
                 outcome, history>>

-----------------------------------------------------------------------------
(* gc_stale_devices *)

Registered == {s \in Session : \E d \in Device : devices[d] = s}

\* Time passes without a frame from the device.
Age(s) ==
  /\ s \in Registered \ stale
  /\ stale' = stale \cup {s}
  /\ UNCHANGED <<devices, created, owner, wire, pending, sockets, frames,
                 requests, history>>

GcCollect ==
  /\ pc[Gc] = "open"
  /\ stale_list = {}
  /\ stale_list' = stale \cap Registered
  /\ stale_list' # {}
  /\ UNCHANGED <<registry, pc, my_id, my_session, subject, victim, frames,
                 requests, history>>

GcNext(s) ==
  /\ s \in stale_list
  /\ Goto(Gc, "open", "check")
  /\ stale_list' = stale_list \ {s}
  /\ subject' = [subject EXCEPT ![Gc] = <<owner[s], s>>]
  /\ retired' = retired \cup {s}
  /\ UNCHANGED <<registry, my_id, my_session, victim, frames, requests,
                 answered, exposed, crowded>>

-----------------------------------------------------------------------------
(* proxy_http *)

Advance(r, from, to) == rpc[r] = from /\ rpc' = [rpc EXCEPT ![r] = to]

Return(r, from, result) ==
  /\ Advance(r, from, "done")
  /\ outcome' = [outcome EXCEPT ![r] = result]

\* get_device: from here on the request holds on to this session.
GetDevice(r, d) ==
  /\ target' = [target EXCEPT ![r] = d]
  /\ held' = [held EXCEPT ![r] = devices[d]]
  /\ IF devices[d] = NoSession
     THEN Return(r, "idle", "offline")
     ELSE Advance(r, "idle", "check") /\ UNCHANGED outcome
  /\ UNCHANGED <<registry, sockets, frames, reply, history>>

\* Requests that passed the check on r's session and are not inserted yet.
Passing(r) == {q \in Request : rpc[q] = "insert" /\ held[q] = held[r]}

\* Mutant of CheckInflight: one request too many is let in.
CheckInflightOffByOne(r) ==
  /\ rpc[r] = "check"
  /\ IF Cardinality(pending[held[r]]) > MaxInflight
     THEN Return(r, "check", "busy") /\ UNCHANGED <<stale, crowded>>
     ELSE /\ Advance(r, "check", "insert")
          /\ stale' = stale \ {held[r]}
          /\ crowded' = crowded \cup {s \in {held[r]} : Passing(r) # {}}
          /\ UNCHANGED outcome
  /\ UNCHANGED <<devices, created, owner, wire, pending, sockets, frames,
                 target, held, reply, answered, retired, exposed>>

\* The limit is compared with what is pending now; then session.touch().
CheckInflight(r) ==
  /\ rpc[r] = "check"
  /\ IF Cardinality(pending[held[r]]) >= MaxInflight
     THEN Return(r, "check", "busy") /\ UNCHANGED <<stale, crowded>>
     ELSE /\ Advance(r, "check", "insert")
          /\ stale' = stale \ {held[r]}
          /\ crowded' = crowded \cup {s \in {held[r]} : Passing(r) # {}}
          /\ UNCHANGED outcome
  /\ UNCHANGED <<devices, created, owner, wire, pending, sockets, frames,
                 target, held, reply, answered, retired, exposed>>

InsertPending(r) ==
  /\ Advance(r, "insert", "send")
  /\ pending' = [pending EXCEPT ![held[r]] = @ \cup {r}]
  /\ UNCHANGED <<devices, created, owner, wire, stale, sockets, frames, target,
                 held, reply, outcome, history>>

\* frame_tx.send fails when the writer of the session's socket is gone.
SendFrame(r) ==
  LET k == wire[held[r]] IN
  /\ rpc[r] = "send"
  /\ IF k \in writer
     THEN /\ Advance(r, "send", "wait")
          /\ sent' = [sent EXCEPT ![k] = @ \cup {r}]
          /\ UNCHANGED <<pending, outcome>>
     ELSE /\ Return(r, "send", "offline")
          /\ pending' = [pending EXCEPT ![held[r]] = @ \ {r}]
          /\ UNCHANGED sent
  /\ UNCHANGED <<devices, created, owner, wire, stale, sockets, writer,
                 delivered, target, held, reply, history>>

ReceiveReply(r) ==
  /\ reply[r] # "none"
  /\ Return(r, "wait", reply[r])
  /\ UNCHANGED <<registry, sockets, frames, target, held, reply, history>>

\* Mutant of Timeout: the timer stops with the device's registration.
TimeoutIfRegistered(r) ==
  /\ reply[r] = "none"
  /\ held[r] \in Registered
  /\ Advance(r, "wait", "expire")
  /\ UNCHANGED <<registry, sockets, frames, target, held, reply, outcome,
                 history>>

\* The timer fires; a reply that is already in the channel would have won.
Timeout(r) ==
  /\ reply[r] = "none"
  /\ Advance(r, "wait", "expire")
  /\ UNCHANGED <<registry, sockets, frames, target, held, reply, outcome,
                 history>>

\* Mutant of ExpireRequest: the entry is left in the map.
ExpireWithoutRemove(r) ==
  /\ Return(r, "expire", "timeout")
  /\ UNCHANGED <<registry, sockets, frames, target, held, reply, history>>

\* The entry is removed, by now possibly in vain.
ExpireRequest(r) ==
  /\ Return(r, "expire", "timeout")
  /\ pending' = [pending EXCEPT ![held[r]] = @ \ {r}]
  /\ UNCHANGED <<devices, created, owner, wire, stale, sockets, frames, target,
                 held, reply, history>>

\* The caller closes its connection: the runtime drops the waiting call and
\* nothing removes its entry.
CallerGone(r) ==
  /\ Return(r, "wait", "gone")
  /\ UNCHANGED <<registry, sockets, frames, target, held, reply, history>>

-----------------------------------------------------------------------------
SocketStep(k) ==
  \/ Connect(k)
  \/ \E d \in Device : Hello(k, d)
  \/ RegisterInsert(k)
  \/ Ping(k)
  \/ \E r \in Request : HttpResponse(k, r)
  \/ StreamEnds(k)
  \/ AbortWriter(k)
  \/ \E r \in Request : Deliver(k, r)
  \/ WriterFails(k)

Unregister(p) == UnregisterCheck(p) \/ UnregisterRemove(p) \/ UnregisterDrain(p)

GcStep ==
  \/ GcCollect
  \/ \E s \in Session : GcNext(s) \/ Age(s)

\* What the server does by itself once a request has its session.
Serve(r) ==
  \/ CheckInflight(r)
  \/ InsertPending(r)
  \/ SendFrame(r)
  \/ ReceiveReply(r)
  \/ Timeout(r)
  \/ ExpireRequest(r)

RequestStep(r) ==
  \/ \E d \in Device : GetDevice(r, d)
  \/ Serve(r)
  \/ CallerGone(r)

Next ==
  \/ \E k \in Socket : SocketStep(k)
  \/ \E p \in Process : Unregister(p)
  \/ GcStep
  \/ \E r \in Request : RequestStep(r)

Spec == Init /\ [][Next]_vars

\* The runtime polls every ready task and fires every timer: a request that
\* is under way keeps moving.  Nothing is assumed of devices and networks.
FairSpec == Spec /\ \A r \in Request : WF_vars(Serve(r))

-----------------------------------------------------------------------------
(* Properties *)

\* What the caller sees.
Call == [r \in Request |->
  IF rpc[r] = "idle" THEN "idle"
  ELSE IF rpc[r] = "done" THEN outcome[r] ELSE "open"]

RR == INSTANCE RequestReply WITH call <- Call

\* proxy_http keeps the promise of RequestReply: whatever sockets come and go,
\* a call ends, once, and a response is the target's answer to this call.
ImplementsRequestReply == RR!Spec

\* The part of the promise that holds whatever the scheduler does, also for a
\* device that changes its id with a second Hello on the same socket
\* (complete_request): one outcome, and no response from another device.
OneTrueOutcome == RR!Init /\ [][RR!Next]_RR!vars

\* A call that waits has either its reply in the channel or its entry in the
\* session it holds, so that the branch "response channel closed" of
\* proxy_http is never taken: nobody drops an entry without an answer.
WaitingIsPending ==
  \A r \in Request : rpc[r] = "wait" /\ reply[r] = "none" =>
    r \in pending[held[r]]

\* An entry of pending belongs to a call under way to that session, or to one
\* whose caller went away (proxy_http gives back its slot on all its ways out).
SlotsAreReleased ==
  \A s \in Session : \A r \in pending[s] :
    /\ held[r] = s
    /\ rpc[r] \in {"send", "wait", "expire"} \/ outcome[r] = "gone"

\* A socket that is done with unregister_device has left no session of its
\* last Hello in the registry, whatever happened between the check of the
\* session id and the removal.
ClosedIsUnregistered ==
  \A k \in Socket : pc[k] \in {"drain", "abort", "closed"} =>
    \A d \in Device : devices[d] # NoSession => devices[d] # my_session[k]

\* config.rs, max_inflight: "Max concurrent in-flight proxied requests per
\* device".  proxy_http compares and inserts in two operations, so the bound
\* is one of a session: it holds until two requests have passed the check
\* before the first of them was inserted.
InflightBound ==
  \A s \in Session \ crowded : Cardinality(pending[s]) <= MaxInflight

\* While a socket is open, the session it was acknowledged with stays
\* registered until it is replaced or evicted, whatever older sockets of the
\* device are still closing.  The one exception is a session that was inserted
\* while an unregister_device of its device stood between the comparison of
\* the session id and the removal.
RegisteredWhileOpen ==
  \A k \in Socket :
    /\ pc[k] = "open"
    /\ my_session[k] \notin retired \cup exposed \cup {NoSession}
    => devices[my_id[k]] = my_session[k]

=============================================================================
