---------------------------- MODULE TunnelProofs ----------------------------
(***************************************************************************)
(* Theorems about Tunnel, for any devices, sockets and proxied requests,   *)
(* any limit of requests in flight and any number of sessions.             *)
(*                                                                         *)
(* Three inductive invariants: RegistryInv ties the map of devices to what *)
(* socket handlers and the collector remember of it, CallsInv ties pending *)
(* entries and replies to the calls they belong to, and InflightInv counts *)
(* entries together with the calls that are about to add one.              *)
(***************************************************************************)
EXTENDS Tunnel, FiniteSetTheorems, TLAPS

\* Handlers between the two halves of register_device.
Inserting == {j \in Socket : pc[j] = "insert"}

\* Every one of them has a session left to create.
SessionsSuffice ==
  /\ IsFiniteSet(Inserting)
  /\ created + Cardinality(Inserting) <= MaxSession

\* A session belongs to the device and the socket of the Hello that created
\* it, for good.
SessionsHaveOwners ==
  /\ \A s \in Session : s <= created => owner[s] \in Device
  /\ \A d \in Device : devices[d] # NoSession =>
       devices[d] <= created /\ owner[devices[d]] = d
  /\ \A k \in Socket : my_session[k] # NoSession =>
       /\ my_session[k] <= created
       /\ wire[my_session[k]] = k
       /\ owner[my_session[k]] = my_id[k]
  /\ \A k \in Socket : my_id[k] = NoDevice <=> my_session[k] = NoSession
  /\ \A k \in Socket : pc[k] = "new" => my_session[k] = NoSession
  /\ \A s \in stale_list : s <= created

\* What unregister_device was called for, and what it may remove instead.
UnregisterKnows ==
  /\ \A k \in Socket : pc[k] \in {"check", "remove"} =>
       subject[k] = <<my_id[k], my_session[k]>>
  /\ pc[Gc] \in {"check", "remove"} => subject[Gc][2] \in retired
  /\ \A p \in Process : pc[p] = "remove" =>
       devices[subject[p][1]] \in {NoSession, subject[p][2]} \cup exposed

RegistryInv ==
  /\ TypeOK
  /\ SessionsSuffice
  /\ SessionsHaveOwners
  /\ UnregisterKnows
  /\ RegisteredWhileOpen
  /\ ClosedIsUnregistered

\* An entry is in the one session its call holds, and is there until the call
\* has a reply; a reply is there only for a call that made an entry, and is a
\* response only if the target sent one.
CallsInv ==
  /\ SlotsAreReleased
  /\ \A s \in Session : \A r \in pending[s] : reply[r] = "none"
  /\ \A r \in Request :
       /\ rpc[r] \in {"send", "wait"} /\ reply[r] = "none" => r \in pending[held[r]]
       /\ rpc[r] = "idle" => target[r] = NoDevice /\ held[r] = NoSession
       /\ rpc[r] \in {"idle", "check", "insert"} => reply[r] = "none"
       /\ outcome[r] = "gone" => rpc[r] = "done"
       /\ held[r] # NoSession => held[r] <= created /\ owner[held[r]] = target[r]
       /\ reply[r] = "response" => r \in answered

\* Outside the crowded sessions at most one call is about to add an entry,
\* and there is a place for it.
InflightInv ==
  /\ \A s \in Session : IsFiniteSet(pending[s])
  /\ InflightBound
  /\ \A q \in Request : rpc[q] = "insert" /\ held[q] \notin crowded =>
       /\ Cardinality(pending[held[q]]) < MaxInflight
       /\ Passing(q) = {q}

-----------------------------------------------------------------------------
(* Types *)

\* The registry and the handlers start with values of the right types.
LEMMA TypeInit == Init => TypeOK
<1> SUFFICES ASSUME Init PROVE TypeOK
  OBVIOUS
<1> USE TunnelAssumption
    DEF TunnelAssumption, Init, Session, NoSession, Nothing, Process,
        Unregistering, Reply, Outcome
<1>1. /\ created \in 0 .. MaxSession
      /\ pc \in [Process -> {"new", "open", "insert", "abort", "closed"}
                              \cup Unregistering]
      /\ subject \in [Process -> (Device \cup {NoDevice})
                                   \X (Session \cup {NoSession})]
  OBVIOUS
<1>2. \A p \in Process : pc[p] \notin {"check", "remove", "insert", "drain"}
  OBVIOUS
<1> QED
  BY <1>1, <1>2 DEF TypeOK

\* A handler that is about to insert a session finds one left to create.
LEMMA InsertHasSession ==
  ASSUME TypeOK, SessionsSuffice, NEW k \in Socket, pc[k] = "insert"
  PROVE  created + 1 \in Session
<1>1. Inserting # {}
  BY DEF Inserting
<1>2. Cardinality(Inserting) \in Nat \ {0}
  BY <1>1, FS_CardinalityType, FS_EmptySet DEF SessionsSuffice
<1> QED
  BY <1>2, TunnelAssumption DEF TypeOK, SessionsSuffice, Session, TunnelAssumption

\* Every operation keeps the types.
LEMMA TypeStep == RegistryInv /\ [Next]_vars => TypeOK'
<1> SUFFICES ASSUME RegistryInv, [Next]_vars PROVE TypeOK'
  OBVIOUS
<1>t. /\ TypeOK /\ SessionsSuffice /\ SessionsHaveOwners
      /\ NoDevice \notin Device /\ NoSession \notin Session
      /\ Gc \notin Socket /\ Gc \in Process /\ Socket \subseteq Process
  BY TunnelAssumption
     DEF RegistryInv, TunnelAssumption, Session, NoSession, Process
<1> USE <1>t
    DEF registry, sockets, frames, requests, history, Goto, Unregistering,
        Nothing
<1>1. ASSUME NEW k \in Socket, SocketStep(k) PROVE TypeOK'
  <2>1. CASE Connect(k)
    BY <2>1 DEF Connect, TypeOK
  <2>2. ASSUME NEW d \in Device, Hello(k, d) PROVE TypeOK'
    BY <2>2 DEF Hello, TypeOK
  <2>3. CASE RegisterInsert(k)
    <3>1. created + 1 \in Session /\ created + 1 \in 0 .. MaxSession
      BY <2>3, InsertHasSession DEF RegisterInsert, Session
    <3> QED
      BY <2>3, <3>1 DEF RegisterInsert, TypeOK
  <2>4. CASE Ping(k)
    BY <2>4 DEF Ping, TypeOK
  <2>5. ASSUME NEW r \in Request, HttpResponse(k, r) PROVE TypeOK'
    <3>1. my_id[k] \in Device /\ devices[my_id[k]] \in Session \cup {NoSession}
      BY <2>5 DEF HttpResponse, TypeOK
    <3>2. pending' \in [Session -> SUBSET Request] /\ reply' \in [Request -> Reply]
      <4>1. CASE /\ devices[my_id[k]] # NoSession
                 /\ r \in pending[devices[my_id[k]]]
        <5>1. /\ pending' = [pending EXCEPT ![devices[my_id[k]]] = @ \ {r}]
              /\ reply' = [reply EXCEPT ![r] = "response"]
          BY <2>5, <4>1 DEF HttpResponse
        <5> QED
          BY <3>1, <4>1, <5>1 DEF TypeOK, Reply
      <4>2. CASE ~ (/\ devices[my_id[k]] # NoSession
                    /\ r \in pending[devices[my_id[k]]])
        <5>1. UNCHANGED <<pending, reply>>
          BY <2>5, <4>2 DEF HttpResponse
        <5> QED
          BY <5>1 DEF TypeOK
      <4> QED
        BY <4>1, <4>2
    <3>3. UNCHANGED <<devices, created, owner, wire, stale, sockets, frames, rpc,
                      target, held, outcome, retired, exposed, crowded>>
      BY <2>5 DEF HttpResponse
    <3>4. answered' \in SUBSET Request
      BY <2>5 DEF HttpResponse, TypeOK
    <3> QED
      BY <3>2, <3>3, <3>4 DEF TypeOK
  <2>6. CASE StreamEnds(k)
    <3>1. my_id[k] # NoDevice => <<my_id[k], my_session[k]>> \in Device \X Session
      BY DEF TypeOK, SessionsHaveOwners
    <3> QED
      BY <2>6, <3>1 DEF StreamEnds, TypeOK
  <2>7. CASE AbortWriter(k)
    BY <2>7 DEF AbortWriter, TypeOK
  <2>8. ASSUME NEW r \in Request, Deliver(k, r) PROVE TypeOK'
    BY <2>8 DEF Deliver, TypeOK
  <2>9. CASE WriterFails(k)
    BY <2>9 DEF WriterFails, TypeOK
  <2> QED
    BY <1>1, <2>1, <2>2, <2>3, <2>4, <2>5, <2>6, <2>7, <2>8, <2>9 DEF SocketStep
<1>2. ASSUME NEW p \in Process, Unregister(p) PROVE TypeOK'
  <2>1. AfterUnregister(p) \in {"open", "abort"}
    BY DEF AfterUnregister
  <2>2. CASE UnregisterCheck(p)
    BY <2>1, <2>2 DEF UnregisterCheck, TypeOK
  <2>3. CASE UnregisterRemove(p)
    BY <2>1, <2>3 DEF UnregisterRemove, TypeOK
  <2>4. CASE UnregisterDrain(p)
    BY <2>1, <2>4 DEF UnregisterDrain, TypeOK, Reply
  <2> QED
    BY <1>2, <2>2, <2>3, <2>4 DEF Unregister
<1>3. CASE GcStep
  <2>1. CASE GcCollect
    BY <2>1 DEF GcCollect, TypeOK, Registered
  <2>2. ASSUME NEW s \in Session, GcNext(s) PROVE TypeOK'
    <3>1. <<owner[s], s>> \in Device \X Session
      BY <2>2 DEF GcNext, SessionsHaveOwners
    <3> QED
      BY <2>2, <3>1 DEF GcNext, TypeOK
  <2>3. ASSUME NEW s \in Session, Age(s) PROVE TypeOK'
    BY <2>3 DEF Age, TypeOK
  <2> QED
    BY <1>3, <2>1, <2>2, <2>3 DEF GcStep
<1>4. ASSUME NEW r \in Request, RequestStep(r) PROVE TypeOK'
  <2> USE DEF Advance, Return, Outcome
  <2>1. ASSUME NEW d \in Device, GetDevice(r, d) PROVE TypeOK'
    <3>1. /\ target' \in [Request -> Device \cup {NoDevice}]
          /\ held' \in [Request -> Session \cup {NoSession}]
      BY <2>1 DEF GetDevice, TypeOK
    <3>2. /\ rpc' \in [Request -> {"idle", "check", "insert", "send", "wait",
                                  "expire", "done"}]
          /\ outcome' \in [Request -> Outcome]
      BY <2>1 DEF GetDevice, TypeOK
    <3>3. \A q \in Request : rpc'[q] \notin {"idle", "done"} => held'[q] \in Session
      <4>1. CASE devices[d] = NoSession
        BY <2>1, <4>1 DEF GetDevice, TypeOK
      <4>2. CASE devices[d] # NoSession
        BY <2>1, <4>2 DEF GetDevice, TypeOK
      <4> QED
        BY <4>1, <4>2
    <3>4. UNCHANGED <<registry, sockets, frames, reply, history>>
      BY <2>1 DEF GetDevice
    <3> QED
      BY <3>1, <3>2, <3>3, <3>4 DEF TypeOK
  <2>2. CASE CheckInflight(r)
    <3>1. /\ rpc' \in [Request -> {"idle", "check", "insert", "send", "wait",
                                  "expire", "done"}]
          /\ outcome' \in [Request -> Outcome]
          /\ stale' \in SUBSET Session
          /\ crowded' \in SUBSET Session
          /\ \A q \in Request : rpc'[q] \notin {"idle", "done"} => held[q] \in Session
      <4>1. CASE Cardinality(pending[held[r]]) >= MaxInflight
        BY <2>2, <4>1 DEF CheckInflight, TypeOK
      <4>2. CASE ~ (Cardinality(pending[held[r]]) >= MaxInflight)
        <5>1. /\ rpc' = [rpc EXCEPT ![r] = "insert"]
              /\ rpc[r] = "check"
              /\ stale' = stale \ {held[r]}
              /\ crowded' = crowded \cup {s \in {held[r]} : Passing(r) # {}}
              /\ outcome' = outcome
          BY <2>2, <4>2 DEF CheckInflight
        <5> QED
          BY <5>1 DEF TypeOK
      <4> QED
        BY <4>1, <4>2
    <3>2. UNCHANGED <<devices, created, owner, wire, pending, sockets, frames,
                      target, held, reply, answered, retired, exposed>>
      BY <2>2 DEF CheckInflight
    <3> QED
      BY <3>1, <3>2 DEF TypeOK
  <2>3. CASE InsertPending(r)
    BY <2>3 DEF InsertPending, TypeOK
  <2>4. CASE SendFrame(r)
    <3>1. held[r] \in Session
      BY <2>4 DEF SendFrame, TypeOK
    <3>2. /\ rpc' \in [Request -> {"idle", "check", "insert", "send", "wait",
                                  "expire", "done"}]
          /\ outcome' \in [Request -> Outcome]
          /\ \A q \in Request : rpc'[q] \notin {"idle", "done"} => held[q] \in Session
          /\ sent' \in [Socket -> SUBSET Request]
          /\ pending' \in [Session -> SUBSET Request]
      <4>1. CASE wire[held[r]] \in writer
        <5>1. /\ rpc[r] = "send"
              /\ rpc' = [rpc EXCEPT ![r] = "wait"]
              /\ sent' = [sent EXCEPT ![wire[held[r]]] = @ \cup {r}]
              /\ UNCHANGED <<pending, outcome>>
          BY <2>4, <4>1 DEF SendFrame
        <5> QED
          BY <4>1, <5>1 DEF TypeOK
      <4>2. CASE wire[held[r]] \notin writer
        <5>1. /\ rpc' = [rpc EXCEPT ![r] = "done"]
              /\ outcome' = [outcome EXCEPT ![r] = "offline"]
              /\ pending' = [pending EXCEPT ![held[r]] = @ \ {r}]
              /\ UNCHANGED sent
          BY <2>4, <4>2 DEF SendFrame
        <5> QED
          BY <3>1, <5>1 DEF TypeOK
      <4> QED
        BY <4>1, <4>2
    <3>3. UNCHANGED <<devices, created, owner, wire, stale, sockets, writer,
                      delivered, target, held, reply, history>>
      BY <2>4 DEF SendFrame
    <3> QED
      BY <3>2, <3>3 DEF TypeOK
  <2>5. CASE ReceiveReply(r)
    BY <2>5 DEF ReceiveReply, TypeOK, Reply
  <2>6. CASE Timeout(r)
    BY <2>6 DEF Timeout, TypeOK
  <2>7. CASE ExpireRequest(r)
    BY <2>7 DEF ExpireRequest, TypeOK
  <2>8. CASE CallerGone(r)
    BY <2>8 DEF CallerGone, TypeOK
  <2> QED
    BY <1>4, <2>1, <2>2, <2>3, <2>4, <2>5, <2>6, <2>7, <2>8
       DEF RequestStep, Serve
<1>5. CASE UNCHANGED vars
  BY <1>5 DEF vars, TypeOK
<1> QED
  BY <1>1, <1>2, <1>3, <1>4, <1>5 DEF Next

-----------------------------------------------------------------------------
(* The registry *)

\* An empty registry satisfies the invariant.
LEMMA RegistryInvInit == Init => RegistryInv
<1> SUFFICES ASSUME Init PROVE RegistryInv
  OBVIOUS
<1> USE TunnelAssumption DEF TunnelAssumption, Init, NoSession
<1>1. TypeOK
  BY TypeInit
<1>2. SessionsSuffice
  <2>1. Inserting = {}
    BY DEF Inserting, Process
  <2> QED
    BY <2>1, FS_EmptySet DEF SessionsSuffice
<1>3. SessionsHaveOwners
  BY DEF SessionsHaveOwners, Session
<1>4. UnregisterKnows
  BY DEF UnregisterKnows, Process
<1>5. RegisteredWhileOpen /\ ClosedIsUnregistered
  BY DEF RegisteredWhileOpen, ClosedIsUnregistered
<1> QED
  BY <1>1, <1>2, <1>3, <1>4, <1>5 DEF RegistryInv

\* Steps that leave the map, the sessions and the handlers alone.
LEMMA RegistryUntouched ==
  ASSUME RegistryInv, TypeOK',
         UNCHANGED <<devices, created, owner, wire, sockets, retired, exposed>>
  PROVE  RegistryInv'
  BY DEF RegistryInv, sockets, SessionsSuffice, Inserting, SessionsHaveOwners,
         UnregisterKnows, RegisteredWhileOpen, ClosedIsUnregistered

\* A socket that stops or starts inserting changes the number of those that
\* do by one.
LEMMA InsertingStep ==
  ASSUME TypeOK, SessionsSuffice, NEW k \in Socket, NEW to,
         pc' = [pc EXCEPT ![k] = to]
  PROVE  /\ Inserting' = IF to = "insert" THEN Inserting \cup {k}
                         ELSE Inserting \ {k}
         /\ IsFiniteSet(Inserting') /\ Cardinality(Inserting') \in Nat
         /\ Cardinality(Inserting) \in Nat
         /\ to # "insert" /\ pc[k] = "insert" =>
              Cardinality(Inserting') = Cardinality(Inserting) - 1
         /\ to # "insert" => Cardinality(Inserting') <= Cardinality(Inserting)
         /\ Cardinality(Inserting') <= Cardinality(Inserting) + 1
<1>1. Inserting' = IF to = "insert" THEN Inserting \cup {k} ELSE Inserting \ {k}
  BY DEF TypeOK, Inserting, Process
<1>2. IsFiniteSet(Inserting) /\ Cardinality(Inserting) \in Nat
  BY FS_CardinalityType DEF SessionsSuffice
<1>3. CASE to = "insert"
  <2>1. /\ IsFiniteSet(Inserting \cup {k})
        /\ \/ Cardinality(Inserting \cup {k}) = Cardinality(Inserting)
           \/ Cardinality(Inserting \cup {k}) = Cardinality(Inserting) + 1
    BY <1>2, FS_AddElement
  <2>2. Inserting' = Inserting \cup {k}
    BY <1>1, <1>3
  <2> QED
    BY <1>1, <1>2, <1>3, <2>1, <2>2
<1>4. CASE to # "insert"
  <2>1. /\ IsFiniteSet(Inserting \ {k})
        /\ Cardinality(Inserting \ {k}) =
             IF k \in Inserting THEN Cardinality(Inserting) - 1
             ELSE Cardinality(Inserting)
    BY <1>2, FS_RemoveElement
  <2>2. Cardinality(Inserting \ {k}) \in Nat
    BY <2>1, FS_CardinalityType
  <2>3. Inserting' = Inserting \ {k}
    BY <1>1, <1>4
  <2>4. pc[k] = "insert" => k \in Inserting
    BY DEF Inserting
  <2> QED
    BY <1>1, <1>2, <1>4, <2>1, <2>2, <2>3, <2>4
<1> QED
  BY <1>3, <1>4

\* A step of a socket's handler that does not begin to insert, or of Gc,
\* keeps SessionsSuffice when it creates no session.
LEMMA SufficeKept ==
  ASSUME TypeOK, SessionsSuffice, NEW p \in Process, NEW to, to # "insert",
         pc' = [pc EXCEPT ![p] = to], created' = created
  PROVE  SessionsSuffice'
<1>1. CASE p \in Socket
  <2>1. /\ IsFiniteSet(Inserting') /\ Cardinality(Inserting') \in Nat
        /\ Cardinality(Inserting) \in Nat
        /\ Cardinality(Inserting') <= Cardinality(Inserting)
    BY <1>1, InsertingStep
  <2> QED
    BY <2>1, TunnelAssumption DEF SessionsSuffice, TypeOK, TunnelAssumption
<1>2. CASE p = Gc
  <2>1. Inserting' = Inserting
    BY <1>2, TunnelAssumption DEF Inserting, TypeOK, Process, TunnelAssumption
  <2> QED
    BY <2>1 DEF SessionsSuffice
<1> QED
  BY <1>1, <1>2 DEF Process

\* Sockets, the collector and unregister_device keep the registry's
\* invariant.
LEMMA RegistryInvStep == RegistryInv /\ [Next]_vars => RegistryInv'
<1> SUFFICES ASSUME RegistryInv, [Next]_vars PROVE RegistryInv'
  OBVIOUS
<1>t. TypeOK'
  BY TypeStep
<1>a. /\ TypeOK /\ SessionsSuffice /\ SessionsHaveOwners /\ UnregisterKnows
      /\ RegisteredWhileOpen /\ ClosedIsUnregistered
      /\ NoDevice \notin Device /\ NoSession \notin Session
      /\ Gc \notin Socket /\ Gc \in Process /\ Socket \subseteq Process
      /\ created \in Nat /\ MaxSession \in Nat
  BY TunnelAssumption
     DEF RegistryInv, TunnelAssumption, Session, NoSession, Process, TypeOK
<1> USE <1>t, <1>a DEF registry, sockets, frames, requests, history, Goto
<1>1. ASSUME NEW k \in Socket, SocketStep(k) PROVE RegistryInv'
  <2>1. CASE Connect(k)
    <3>1. /\ pc[k] = "new" /\ pc' = [pc EXCEPT ![k] = "open"]
          /\ UNCHANGED <<registry, my_id, my_session, subject, retired, exposed,
                         stale_list>>
      BY <2>1 DEF Connect
    <3>2. SessionsSuffice'
      BY <3>1, SufficeKept
    <3>3. SessionsHaveOwners'
      BY <3>1 DEF SessionsHaveOwners, TypeOK
    <3>4. UnregisterKnows'
      BY <3>1 DEF UnregisterKnows, TypeOK
    <3>5. RegisteredWhileOpen'
      BY <3>1 DEF RegisteredWhileOpen, SessionsHaveOwners, TypeOK
    <3>6. ClosedIsUnregistered'
      BY <3>1 DEF ClosedIsUnregistered, TypeOK
    <3> QED
      BY <3>2, <3>3, <3>4, <3>5, <3>6 DEF RegistryInv
  <2>2. ASSUME NEW d \in Device, Hello(k, d) PROVE RegistryInv'
    <3>1. /\ pc[k] = "open" /\ pc' = [pc EXCEPT ![k] = "insert"]
          /\ created + Cardinality({j \in Socket : pc[j] = "insert"}) < MaxSession
          /\ subject' = [subject EXCEPT ![k] = <<d, NoSession>>]
          /\ devices' = [devices EXCEPT ![d] = NoSession]
          /\ retired' = retired \cup ({devices[d]} \ {NoSession})
          /\ UNCHANGED <<created, owner, wire, my_id, my_session, exposed,
                         stale_list>>
      BY <2>2 DEF Hello
    <3>2. SessionsSuffice'
      <4>1. /\ IsFiniteSet(Inserting') /\ Cardinality(Inserting') \in Nat
            /\ Cardinality(Inserting) \in Nat
            /\ Cardinality(Inserting') <= Cardinality(Inserting) + 1
        BY <3>1, InsertingStep
      <4>2. created + Cardinality(Inserting) < MaxSession
        BY <3>1 DEF Inserting
      <4> QED
        BY <3>1, <4>1, <4>2 DEF SessionsSuffice
    <3>3. SessionsHaveOwners'
      BY <3>1 DEF SessionsHaveOwners, TypeOK
    <3>4. UnregisterKnows'
      BY <3>1 DEF UnregisterKnows, TypeOK
    <3>5. RegisteredWhileOpen'
      BY <3>1 DEF RegisteredWhileOpen, SessionsHaveOwners, TypeOK
    <3>6. ClosedIsUnregistered'
      BY <3>1 DEF ClosedIsUnregistered, TypeOK
    <3> QED
      BY <3>2, <3>3, <3>4, <3>5, <3>6 DEF RegistryInv
  <2>3. CASE RegisterInsert(k)
    <3> DEFINE d == subject[k][1]
               s == created + 1
    <3>1. /\ pc[k] = "insert" /\ pc' = [pc EXCEPT ![k] = "open"]
          /\ created' = s
          /\ owner' = [owner EXCEPT ![s] = d]
          /\ wire' = [wire EXCEPT ![s] = k]
          /\ devices' = [devices EXCEPT ![d] = s]
          /\ retired' = retired \cup ({devices[d]} \ {NoSession})
          /\ exposed' = exposed \cup {x \in {s} : \E p \in Process :
                                      pc[p] = "remove" /\ subject[p][1] = d}
          /\ my_id' = [my_id EXCEPT ![k] = d]
          /\ my_session' = [my_session EXCEPT ![k] = s]
          /\ subject' = [subject EXCEPT ![k] = Nothing]
          /\ UNCHANGED stale_list
      BY <2>3 DEF RegisterInsert
    <3>2. d \in Device /\ s \in Session /\ s \in Nat /\ s # NoSession
      BY <3>1, InsertHasSession DEF TypeOK
    <3>2a. s = created + 1
      OBVIOUS
    <3> HIDE DEF d, s
    <3>3. SessionsSuffice'
      <4>1. /\ IsFiniteSet(Inserting') /\ Cardinality(Inserting') \in Nat
            /\ Cardinality(Inserting) \in Nat
            /\ Cardinality(Inserting') = Cardinality(Inserting) - 1
        <5>1. "open" # "insert"
          OBVIOUS
        <5> QED
          BY <3>1, <5>1, InsertingStep
      <4> QED
        BY <3>1, <3>2a, <4>1 DEF SessionsSuffice
    <3>4. SessionsHaveOwners'
      <4>1. \A t \in Session : t <= created => t # s
        BY <3>2a DEF Session
      <4>2. \A t \in Session : t <= s => t <= created \/ t = s
        BY <3>2a DEF Session
      <4>3. \A t \in Session : t <= created => t <= s
        BY <3>2a DEF Session
      <4>4. s <= s
        BY <3>2
      <4>5. \A t \in Session : t <= created' => owner'[t] \in Device
        BY <3>1, <3>2, <4>2 DEF SessionsHaveOwners, TypeOK
      <4>6. \A e \in Device : devices'[e] # NoSession =>
              devices'[e] <= created' /\ owner'[devices'[e]] = e
        <5> SUFFICES ASSUME NEW e \in Device, devices'[e] # NoSession
                     PROVE  devices'[e] <= created' /\ owner'[devices'[e]] = e
          OBVIOUS
        <5>1. CASE e = d
          BY <3>1, <3>2, <4>4, <5>1 DEF TypeOK
        <5>2. CASE e # d
          <6>1. devices'[e] = devices[e] /\ devices[e] \in Session
            BY <3>1, <5>2 DEF TypeOK
          <6>2. devices[e] <= created /\ owner[devices[e]] = e
            BY <6>1 DEF SessionsHaveOwners
          <6> QED
            BY <3>1, <4>1, <4>3, <6>1, <6>2 DEF TypeOK
        <5> QED
          BY <5>1, <5>2
      <4>7. \A j \in Socket : my_session'[j] # NoSession =>
              /\ my_session'[j] <= created'
              /\ wire'[my_session'[j]] = j
              /\ owner'[my_session'[j]] = my_id'[j]
        <5> SUFFICES ASSUME NEW j \in Socket, my_session'[j] # NoSession
                     PROVE  /\ my_session'[j] <= created'
                            /\ wire'[my_session'[j]] = j
                            /\ owner'[my_session'[j]] = my_id'[j]
          OBVIOUS
        <5>1. CASE j = k
          BY <3>1, <3>2, <4>4, <5>1 DEF TypeOK
        <5>2. CASE j # k
          <6>1. /\ my_session'[j] = my_session[j] /\ my_session[j] \in Session
                /\ my_id'[j] = my_id[j]
            BY <3>1, <5>2 DEF TypeOK
          <6>2. /\ my_session[j] <= created /\ wire[my_session[j]] = j
                /\ owner[my_session[j]] = my_id[j]
            BY <6>1 DEF SessionsHaveOwners
          <6> QED
            BY <3>1, <4>1, <4>3, <6>1, <6>2 DEF TypeOK
        <5> QED
          BY <5>1, <5>2
      <4>8. \A j \in Socket : my_id'[j] = NoDevice <=> my_session'[j] = NoSession
        BY <3>1, <3>2 DEF SessionsHaveOwners, TypeOK
      <4>9. \A j \in Socket : pc'[j] = "new" => my_session'[j] = NoSession
        BY <3>1, <3>2 DEF SessionsHaveOwners, TypeOK
      <4>10. \A t \in stale_list' : t <= created'
        BY <3>1, <3>2, <4>3 DEF SessionsHaveOwners, TypeOK
      <4> QED
        BY <4>5, <4>6, <4>7, <4>8, <4>9, <4>10 DEF SessionsHaveOwners
    <3>5. UnregisterKnows'
      <4>1. \A j \in Socket : pc'[j] \in {"check", "remove"} =>
              subject'[j] = <<my_id'[j], my_session'[j]>>
        BY <3>1 DEF UnregisterKnows, TypeOK
      <4>2. pc'[Gc] \in {"check", "remove"} => subject'[Gc][2] \in retired'
        BY <3>1 DEF UnregisterKnows, TypeOK
      <4>3. ASSUME NEW p \in Process, pc'[p] = "remove"
            PROVE  devices'[subject'[p][1]] \in
                     {NoSession, subject'[p][2]} \cup exposed'
        <5>1. p # k /\ pc[p] = "remove" /\ subject'[p] = subject[p]
          BY <3>1, <4>3 DEF TypeOK
        <5>2. subject[p][1] \in Device
          BY <5>1 DEF TypeOK
        <5>3. CASE subject[p][1] = d
          BY <3>1, <3>2, <5>1, <5>3 DEF TypeOK
        <5>4. CASE subject[p][1] # d
          BY <3>1, <5>1, <5>2, <5>4 DEF UnregisterKnows, TypeOK
        <5> QED
          BY <5>3, <5>4
      <4> QED
        BY <4>1, <4>2, <4>3 DEF UnregisterKnows
    <3>6. RegisteredWhileOpen'
      BY <3>1, <3>2 DEF RegisteredWhileOpen, SessionsHaveOwners, TypeOK
    <3>7. ClosedIsUnregistered'
      <4>1. \A j \in Socket : j # k /\ my_session[j] # NoSession => my_session[j] # s
        BY <3>2a DEF SessionsHaveOwners, TypeOK, Session, NoSession
      <4> QED
        BY <3>1, <3>2, <4>1 DEF ClosedIsUnregistered, TypeOK
    <3> QED
      BY <3>3, <3>4, <3>5, <3>6, <3>7 DEF RegistryInv
  <2>4. CASE Ping(k)
    BY <2>4, RegistryUntouched DEF Ping
  <2>5. ASSUME NEW r \in Request, HttpResponse(k, r) PROVE RegistryInv'
    BY <2>5, RegistryUntouched DEF HttpResponse
  <2>6. CASE StreamEnds(k)
    <3> DEFINE to == IF my_id[k] = NoDevice THEN "abort" ELSE "check"
    <3>1. /\ pc[k] = "open" /\ pc' = [pc EXCEPT ![k] = to]
          /\ subject' = [subject EXCEPT ![k] = <<my_id[k], my_session[k]>>]
          /\ UNCHANGED <<registry, my_id, my_session, retired, exposed,
                         stale_list>>
      BY <2>6 DEF StreamEnds
    <3>2. \/ to = "check"
          \/ to = "abort" /\ my_session[k] = NoSession
      BY DEF SessionsHaveOwners
    <3> HIDE DEF to
    <3>3. SessionsSuffice'
      BY <3>1, <3>2, SufficeKept
    <3>4. SessionsHaveOwners'
      BY <3>1, <3>2 DEF SessionsHaveOwners, TypeOK
    <3>5. UnregisterKnows'
      BY <3>1, <3>2 DEF UnregisterKnows, TypeOK
    <3>6. RegisteredWhileOpen'
      BY <3>1, <3>2 DEF RegisteredWhileOpen, TypeOK
    <3>7. ClosedIsUnregistered'
      BY <3>1, <3>2 DEF ClosedIsUnregistered, TypeOK
    <3> QED
      BY <3>3, <3>4, <3>5, <3>6, <3>7 DEF RegistryInv
  <2>7. CASE AbortWriter(k)
    <3>1. /\ pc[k] = "abort" /\ pc' = [pc EXCEPT ![k] = "closed"]
          /\ UNCHANGED <<registry, my_id, my_session, subject, retired, exposed,
                         stale_list>>
      BY <2>7 DEF AbortWriter
    <3>2. SessionsSuffice'
      BY <3>1, SufficeKept
    <3>3. SessionsHaveOwners' /\ UnregisterKnows'
      BY <3>1 DEF SessionsHaveOwners, UnregisterKnows, TypeOK
    <3>4. RegisteredWhileOpen' /\ ClosedIsUnregistered'
      BY <3>1 DEF RegisteredWhileOpen, ClosedIsUnregistered, TypeOK
    <3> QED
      BY <3>2, <3>3, <3>4 DEF RegistryInv
  <2>8. ASSUME NEW r \in Request, Deliver(k, r) PROVE RegistryInv'
    BY <2>8, RegistryUntouched DEF Deliver
  <2>9. CASE WriterFails(k)
    BY <2>9, RegistryUntouched DEF WriterFails
  <2> QED
    BY <1>1, <2>1, <2>2, <2>3, <2>4, <2>5, <2>6, <2>7, <2>8, <2>9 DEF SocketStep
<1>2. ASSUME NEW p \in Process, Unregister(p) PROVE RegistryInv'
  <2> DEFINE after == AfterUnregister(p)
  <2>a. \/ p = Gc /\ after = "open"
        \/ p \in Socket /\ p # Gc /\ after = "abort"
    BY DEF AfterUnregister, Process
  <2> HIDE DEF after
  <2>1. CASE UnregisterCheck(p)
    <3> DEFINE d == subject[p][1]
               to == IF devices[d] = subject[p][2] THEN "remove" ELSE after
    <3>1. /\ pc[p] = "check" /\ pc' = [pc EXCEPT ![p] = to]
          /\ subject' = [subject EXCEPT ![p] =
                           IF devices[d] = subject[p][2] THEN @ ELSE Nothing]
          /\ UNCHANGED <<registry, my_id, my_session, retired, exposed,
                         stale_list>>
      BY <2>1 DEF UnregisterCheck, after
    <3>2. d \in Device /\ subject[p][2] \in Session
      BY <3>1 DEF TypeOK
    <3>3. \/ to = "remove" /\ devices[d] = subject[p][2] /\ subject' = subject
          \/ to = after /\ devices[d] # subject[p][2]
      BY <3>1 DEF TypeOK
    <3> HIDE DEF to
    <3>4. SessionsSuffice'
      BY <2>a, <3>1, <3>3, SufficeKept
    <3>5. SessionsHaveOwners'
      BY <2>a, <3>1, <3>3 DEF SessionsHaveOwners, TypeOK
    <3>6. UnregisterKnows'
      BY <2>a, <3>1, <3>2, <3>3 DEF UnregisterKnows, TypeOK
    <3>7. RegisteredWhileOpen'
      BY <2>a, <3>1, <3>3 DEF RegisteredWhileOpen, TypeOK
    <3>8. ClosedIsUnregistered'
      <4>1. p \in Socket /\ devices[d] # subject[p][2] =>
              \A e \in Device : devices[e] # NoSession => devices[e] # my_session[p]
        BY <3>1, <3>2 DEF UnregisterKnows, SessionsHaveOwners, TypeOK
      <4> QED
        BY <2>a, <3>1, <3>3, <4>1 DEF ClosedIsUnregistered, TypeOK
    <3> QED
      BY <3>4, <3>5, <3>6, <3>7, <3>8 DEF RegistryInv
  <2>2. CASE UnregisterRemove(p)
    <3> DEFINE d == subject[p][1]
               to == IF devices[d] = NoSession THEN after ELSE "drain"
    <3>1. /\ pc[p] = "remove" /\ pc' = [pc EXCEPT ![p] = to]
          /\ devices' = [devices EXCEPT ![d] = NoSession]
          /\ subject' = [subject EXCEPT ![p] = Nothing]
          /\ UNCHANGED <<created, owner, wire, my_id, my_session, retired,
                         exposed, stale_list>>
      BY <2>2 DEF UnregisterRemove, after
    <3>2. d \in Device /\ subject[p][2] \in Session
      BY <3>1 DEF TypeOK
    <3>3. to = after \/ to = "drain"
      OBVIOUS
    <3>b. devices[d] \in {NoSession, subject[p][2]} \cup exposed
      BY <3>1 DEF UnregisterKnows
    <3>c. p \in Socket => subject[p] = <<my_id[p], my_session[p]>>
      BY <3>1 DEF UnregisterKnows
    <3>d. p = Gc => subject[p][2] \in retired
      BY <3>1 DEF UnregisterKnows
    <3> HIDE DEF to, d
    <3>4. SessionsSuffice'
      BY <2>a, <3>1, <3>3, SufficeKept
    <3>5. SessionsHaveOwners'
      BY <2>a, <3>1, <3>3 DEF SessionsHaveOwners, TypeOK
    <3>6. UnregisterKnows'
      BY <2>a, <3>1, <3>3 DEF UnregisterKnows, TypeOK
    <3>7. RegisteredWhileOpen'
      <4> SUFFICES ASSUME NEW k \in Socket, pc'[k] = "open",
                          my_session[k] \notin retired \cup exposed \cup {NoSession}
                   PROVE  devices'[my_id[k]] = my_session[k]
        BY <3>1 DEF RegisteredWhileOpen
      <4>1. k # p /\ pc[k] = "open"
        BY <2>a, <3>1, <3>3 DEF TypeOK
      <4>2. devices[my_id[k]] = my_session[k] /\ my_id[k] \in Device
        BY <4>1 DEF RegisteredWhileOpen, SessionsHaveOwners, TypeOK
      <4>3. CASE my_id[k] = d
        <5>1. my_session[k] = subject[p][2]
          BY <3>b, <4>2, <4>3
        <5>2. p \in Socket /\ my_session[p] = my_session[k]
          BY <2>a, <3>c, <3>d, <5>1
        <5> QED
          BY <4>1, <5>2 DEF SessionsHaveOwners
      <4>4. CASE my_id[k] # d
        BY <3>1, <4>2, <4>4 DEF TypeOK
      <4> QED
        BY <4>3, <4>4
    <3>8. ClosedIsUnregistered'
      <4>1. p \in Socket => my_id[p] = d
        BY <3>c DEF d
      <4>2. p \in Socket => \A e \in Device :
              devices'[e] # NoSession => devices'[e] # my_session[p]
        BY <3>1, <3>2, <4>1 DEF SessionsHaveOwners, TypeOK
      <4> QED
        BY <2>a, <3>1, <3>2, <3>3, <4>2 DEF ClosedIsUnregistered, TypeOK
    <3> QED
      BY <3>4, <3>5, <3>6, <3>7, <3>8 DEF RegistryInv
  <2>3. CASE UnregisterDrain(p)
    <3>1. /\ pc[p] = "drain" /\ pc' = [pc EXCEPT ![p] = after]
          /\ UNCHANGED <<devices, created, owner, wire, my_id, my_session,
                         subject, retired, exposed, stale_list>>
      BY <2>3 DEF UnregisterDrain, after
    <3>2. SessionsSuffice'
      BY <2>a, <3>1, SufficeKept
    <3>3. SessionsHaveOwners' /\ UnregisterKnows'
      BY <2>a, <3>1 DEF SessionsHaveOwners, UnregisterKnows, TypeOK
    <3>4. RegisteredWhileOpen' /\ ClosedIsUnregistered'
      BY <2>a, <3>1 DEF RegisteredWhileOpen, ClosedIsUnregistered, TypeOK
    <3> QED
      BY <3>2, <3>3, <3>4 DEF RegistryInv
  <2> QED
    BY <1>2, <2>1, <2>2, <2>3 DEF Unregister
<1>3. CASE GcStep
  <2>1. CASE GcCollect
    <3>1. /\ stale_list' = stale \cap Registered
          /\ UNCHANGED <<devices, created, owner, wire, pc, my_id, my_session,
                         subject, retired, exposed>>
      BY <2>1 DEF GcCollect
    <3>2. \A s \in Registered : s <= created
      BY DEF Registered, SessionsHaveOwners, NoSession, Session
    <3>3. SessionsHaveOwners'
      BY <3>1, <3>2 DEF SessionsHaveOwners
    <3>4. SessionsSuffice'
      BY <3>1 DEF SessionsSuffice, Inserting
    <3>5. UnregisterKnows' /\ RegisteredWhileOpen' /\ ClosedIsUnregistered'
      BY <3>1 DEF UnregisterKnows, RegisteredWhileOpen, ClosedIsUnregistered
    <3> QED
      BY <3>3, <3>4, <3>5 DEF RegistryInv
  <2>2. ASSUME NEW s \in Session, GcNext(s) PROVE RegistryInv'
    <3>1. /\ pc[Gc] = "open" /\ pc' = [pc EXCEPT ![Gc] = "check"]
          /\ stale_list' = stale_list \ {s}
          /\ subject' = [subject EXCEPT ![Gc] = <<owner[s], s>>]
          /\ retired' = retired \cup {s}
          /\ UNCHANGED <<registry, my_id, my_session, exposed>>
      BY <2>2 DEF GcNext
    <3>2. SessionsSuffice'
      BY <3>1, SufficeKept
    <3>3. SessionsHaveOwners'
      BY <3>1 DEF SessionsHaveOwners, TypeOK
    <3>4. UnregisterKnows'
      BY <3>1 DEF UnregisterKnows, TypeOK
    <3>5. RegisteredWhileOpen' /\ ClosedIsUnregistered'
      BY <3>1 DEF RegisteredWhileOpen, ClosedIsUnregistered, TypeOK
    <3> QED
      BY <3>2, <3>3, <3>4, <3>5 DEF RegistryInv
  <2>3. ASSUME NEW s \in Session, Age(s) PROVE RegistryInv'
    BY <2>3, RegistryUntouched DEF Age
  <2> QED
    BY <1>3, <2>1, <2>2, <2>3 DEF GcStep
<1>4. ASSUME NEW r \in Request, RequestStep(r) PROVE RegistryInv'
  <2>1. UNCHANGED <<devices, created, owner, wire, sockets, retired, exposed>>
    BY <1>4
       DEF RequestStep, Serve, GetDevice, CheckInflight, InsertPending,
           SendFrame, ReceiveReply, Timeout, ExpireRequest, CallerGone
  <2> QED
    BY <2>1, RegistryUntouched
<1>5. CASE UNCHANGED vars
  BY <1>5, RegistryUntouched DEF vars
<1> QED
  BY <1>1, <1>2, <1>3, <1>4, <1>5 DEF Next

-----------------------------------------------------------------------------
(* Calls *)

\* Without calls the invariant holds.
LEMMA CallsInvInit == Init => CallsInv
  BY DEF Init, CallsInv, SlotsAreReleased, NoSession

\* Steps that leave calls and their entries alone, and owners as they are.
LEMMA CallsUntouched ==
  ASSUME CallsInv, UNCHANGED <<pending, requests, answered, owner, created>>
  PROVE  CallsInv'
  BY DEF CallsInv, SlotsAreReleased, requests

\* Whatever sockets, the collector and other calls do, the invariant of the
\* calls is kept.
LEMMA CallsInvStep == RegistryInv /\ CallsInv /\ [Next]_vars => CallsInv'
<1> SUFFICES ASSUME RegistryInv, CallsInv, [Next]_vars PROVE CallsInv'
  OBVIOUS
<1>a. /\ TypeOK /\ SessionsSuffice /\ SessionsHaveOwners
      /\ NoDevice \notin Device /\ NoSession \notin Session
      /\ created \in Nat /\ Socket \subseteq Process
  BY TunnelAssumption
     DEF RegistryInv, TunnelAssumption, Session, NoSession, Process, TypeOK
<1>b. \A s \in Session : \A r \in pending[s] :
        /\ r \in Request /\ held[r] = s /\ reply[r] = "none"
        /\ rpc[r] \in {"send", "wait", "expire"} \/ outcome[r] = "gone"
  BY <1>a DEF CallsInv, SlotsAreReleased, TypeOK
<1>c. \A r \in Request :
        /\ rpc[r] \in {"send", "wait"} /\ reply[r] = "none" => r \in pending[held[r]]
        /\ rpc[r] = "idle" => target[r] = NoDevice /\ held[r] = NoSession
        /\ rpc[r] \in {"idle", "check", "insert"} => reply[r] = "none"
        /\ outcome[r] = "gone" => rpc[r] = "done"
        /\ held[r] # NoSession => held[r] <= created /\ owner[held[r]] = target[r]
        /\ reply[r] = "response" => r \in answered
  BY DEF CallsInv
<1> USE <1>a DEF registry, sockets, frames, requests, history, Goto, Advance, Return
<1>1. ASSUME NEW k \in Socket, SocketStep(k) PROVE CallsInv'
  <2>1. CASE RegisterInsert(k)
    <3>1. /\ created' = created + 1
          /\ owner' = [owner EXCEPT ![created + 1] = subject[k][1]]
          /\ UNCHANGED <<pending, requests, answered>>
      BY <2>1 DEF RegisterInsert
    <3>2. \A r \in Request : held[r] # NoSession =>
            held[r] <= created' /\ owner'[held[r]] = target[r]
      BY <1>c, <3>1 DEF TypeOK, Session, NoSession
    <3> QED
      BY <3>1, <3>2 DEF CallsInv, SlotsAreReleased
  <2>2. ASSUME NEW r \in Request, HttpResponse(k, r) PROVE CallsInv'
    <3> DEFINE s == devices[my_id[k]]
    <3>1. /\ my_id[k] \in Device /\ s \in Session \cup {NoSession}
          /\ answered' = IF my_id[k] = target[r] THEN answered \cup {r} ELSE answered
          /\ UNCHANGED <<owner, created, rpc, target, held, outcome>>
      BY <2>2 DEF HttpResponse, TypeOK
    <3>2. CASE s # NoSession /\ r \in pending[s]
      <4>1. /\ pending' = [pending EXCEPT ![s] = @ \ {r}]
            /\ reply' = [reply EXCEPT ![r] = "response"]
        BY <2>2, <3>2 DEF HttpResponse
      <4>2. owner[s] = my_id[k] /\ s \in Session
        BY <3>1, <3>2 DEF SessionsHaveOwners
      <4> HIDE DEF s
      <4>3. held[r] = s /\ target[r] = my_id[k]
        BY <1>b, <1>c, <3>2, <4>2
      <4>4. r \in answered' /\ answered \subseteq answered'
        BY <3>1, <4>3
      <4>5. SlotsAreReleased' /\ \A t \in Session : \A q \in pending'[t] : reply'[q] = "none"
        BY <1>b, <3>1, <4>1, <4>2, <4>3 DEF SlotsAreReleased, TypeOK
      <4>6. rpc[r] \notin {"idle", "check", "insert"}
        BY <1>b, <1>c, <3>2, <4>2
      <4> QED
        BY <1>c, <3>1, <4>1, <4>2, <4>3, <4>4, <4>5, <4>6 DEF CallsInv, TypeOK
    <3>3. CASE ~ (s # NoSession /\ r \in pending[s])
      <4>1. UNCHANGED <<pending, reply>>
        BY <2>2, <3>3 DEF HttpResponse
      <4>2. answered \subseteq answered'
        BY <3>1
      <4> QED
        BY <3>1, <4>1, <4>2 DEF CallsInv, SlotsAreReleased
    <3> QED
      BY <3>2, <3>3
  <2>3. CASE \/ Connect(k) \/ Ping(k) \/ StreamEnds(k) \/ AbortWriter(k)
             \/ WriterFails(k)
             \/ \E d \in Device : Hello(k, d)
             \/ \E r \in Request : Deliver(k, r)
    <3>1. UNCHANGED <<pending, requests, answered, owner, created>>
      BY <2>3
         DEF Connect, Hello, Ping, StreamEnds, AbortWriter, Deliver, WriterFails
    <3> QED
      BY <3>1, CallsUntouched
  <2> QED
    BY <1>1, <2>1, <2>2, <2>3 DEF SocketStep
<1>2. ASSUME NEW p \in Process, Unregister(p) PROVE CallsInv'
  <2>1. CASE UnregisterCheck(p) \/ UnregisterRemove(p)
    <3>1. UNCHANGED <<pending, requests, answered, owner, created>>
      BY <2>1 DEF UnregisterCheck, UnregisterRemove
    <3> QED
      BY <3>1, CallsUntouched
  <2>2. CASE UnregisterDrain(p)
    <3> DEFINE s == victim[p]
    <3>1. /\ reply' = [r \in Request |->
                         IF r \in pending[s] THEN "disconnected" ELSE reply[r]]
          /\ pending' = [pending EXCEPT ![s] = {}]
          /\ s \in Session
          /\ UNCHANGED <<rpc, target, held, outcome, answered, owner, created>>
      BY <2>2 DEF UnregisterDrain, TypeOK
    <3> HIDE DEF s
    <3>2. SlotsAreReleased' /\ \A t \in Session : \A q \in pending'[t] : reply'[q] = "none"
      BY <1>b, <3>1 DEF SlotsAreReleased, TypeOK
    <3>3. \A q \in Request : rpc[q] \in {"send", "wait"} /\ reply'[q] = "none" =>
            q \in pending'[held[q]]
      BY <1>b, <1>c, <3>1 DEF TypeOK
    <3>4. \A q \in Request : rpc[q] \in {"idle", "check", "insert"} =>
            reply'[q] = "none"
      BY <1>b, <1>c, <3>1
    <3>5. \A q \in Request : reply'[q] = "response" => q \in answered
      BY <1>c, <3>1
    <3> QED
      BY <1>c, <3>1, <3>2, <3>3, <3>4, <3>5 DEF CallsInv
  <2> QED
    BY <1>2, <2>1, <2>2 DEF Unregister
<1>3. CASE GcStep
  <2>1. UNCHANGED <<pending, requests, answered, owner, created>>
    BY <1>3 DEF GcStep, GcCollect, GcNext, Age
  <2> QED
    BY <2>1, CallsUntouched
<1>4. ASSUME NEW r \in Request, RequestStep(r) PROVE CallsInv'
  <2>1. ASSUME NEW d \in Device, GetDevice(r, d) PROVE CallsInv'
    <3>1. /\ rpc[r] = "idle" /\ target' = [target EXCEPT ![r] = d]
          /\ held' = [held EXCEPT ![r] = devices[d]]
          /\ \/ rpc' = [rpc EXCEPT ![r] = "check"] /\ outcome' = outcome
             \/ /\ rpc' = [rpc EXCEPT ![r] = "done"]
                /\ outcome' = [outcome EXCEPT ![r] = "offline"]
          /\ UNCHANGED <<pending, reply, answered, owner, created>>
      BY <2>1 DEF GetDevice
    <3>2. devices[d] # NoSession => devices[d] <= created /\ owner[devices[d]] = d
      BY DEF SessionsHaveOwners
    <3>3. \A s \in Session : r \notin pending[s]
      BY <1>b, <1>c, <3>1
    <3>4. SlotsAreReleased' /\ \A t \in Session : \A q \in pending'[t] : reply'[q] = "none"
      BY <1>b, <3>1, <3>3 DEF SlotsAreReleased, TypeOK
    <3> QED
      BY <1>c, <3>1, <3>2, <3>4 DEF CallsInv, TypeOK
  <2>2. CASE CheckInflight(r)
    <3>1. /\ rpc[r] = "check"
          /\ \/ rpc' = [rpc EXCEPT ![r] = "insert"] /\ outcome' = outcome
             \/ /\ rpc' = [rpc EXCEPT ![r] = "done"]
                /\ outcome' = [outcome EXCEPT ![r] = "busy"]
          /\ UNCHANGED <<pending, target, held, reply, answered, owner, created>>
      BY <2>2 DEF CheckInflight
    <3>2. \A s \in Session : r \notin pending[s]
      BY <1>b, <1>c, <3>1
    <3>3. SlotsAreReleased' /\ \A t \in Session : \A q \in pending'[t] : reply'[q] = "none"
      <4>1. ASSUME NEW t \in Session, NEW q \in pending[t]
            PROVE  q # r /\ q \in Request /\ rpc'[q] = rpc[q] /\ outcome'[q] = outcome[q]
        BY <1>b, <3>1, <3>2 DEF TypeOK
      <4> QED
        BY <1>b, <3>1, <4>1 DEF SlotsAreReleased
    <3> QED
      BY <1>c, <3>1, <3>3 DEF CallsInv, TypeOK
  <2>3. CASE InsertPending(r)
    <3>1. /\ rpc[r] = "insert" /\ rpc' = [rpc EXCEPT ![r] = "send"]
          /\ pending' = [pending EXCEPT ![held[r]] = @ \cup {r}]
          /\ UNCHANGED <<target, held, reply, outcome, answered, owner, created>>
      BY <2>3 DEF InsertPending
    <3>2. held[r] \in Session /\ reply[r] = "none"
      BY <1>c, <3>1 DEF TypeOK
    <3>3. SlotsAreReleased' /\ \A t \in Session : \A q \in pending'[t] : reply'[q] = "none"
      BY <1>b, <3>1, <3>2 DEF SlotsAreReleased, TypeOK
    <3> QED
      BY <1>c, <3>1, <3>2, <3>3 DEF CallsInv, TypeOK
  <2>4. CASE SendFrame(r)
    <3>1. CASE wire[held[r]] \in writer
      <4>1. /\ rpc[r] = "send" /\ rpc' = [rpc EXCEPT ![r] = "wait"]
            /\ UNCHANGED <<pending, target, held, reply, outcome, answered, owner,
                           created>>
        BY <2>4, <3>1 DEF SendFrame
      <4>2. SlotsAreReleased' /\ \A t \in Session : \A q \in pending'[t] : reply'[q] = "none"
        BY <1>b, <4>1 DEF SlotsAreReleased, TypeOK
      <4> QED
        BY <1>c, <4>1, <4>2 DEF CallsInv, TypeOK
    <3>2. CASE wire[held[r]] \notin writer
      <4>1. /\ rpc[r] = "send" /\ rpc' = [rpc EXCEPT ![r] = "done"]
            /\ outcome' = [outcome EXCEPT ![r] = "offline"]
            /\ pending' = [pending EXCEPT ![held[r]] = @ \ {r}]
            /\ UNCHANGED <<target, held, reply, answered, owner, created>>
        BY <2>4, <3>2 DEF SendFrame
      <4>2. held[r] \in Session
        BY <4>1 DEF TypeOK
      <4>3. SlotsAreReleased' /\ \A t \in Session : \A q \in pending'[t] : reply'[q] = "none"
        BY <1>b, <4>1, <4>2 DEF SlotsAreReleased, TypeOK
      <4> QED
        BY <1>c, <4>1, <4>2, <4>3 DEF CallsInv, TypeOK
    <3> QED
      BY <3>1, <3>2
  <2>5. CASE ReceiveReply(r)
    <3>1. /\ rpc[r] = "wait" /\ rpc' = [rpc EXCEPT ![r] = "done"]
          /\ reply[r] # "none" /\ outcome' = [outcome EXCEPT ![r] = reply[r]]
          /\ UNCHANGED <<pending, target, held, reply, answered, owner, created>>
      BY <2>5 DEF ReceiveReply
    <3>2. \A s \in Session : r \notin pending[s]
      BY <1>b, <3>1
    <3>3. SlotsAreReleased' /\ \A t \in Session : \A q \in pending'[t] : reply'[q] = "none"
      BY <1>b, <3>1, <3>2 DEF SlotsAreReleased, TypeOK
    <3> QED
      BY <1>c, <3>1, <3>3 DEF CallsInv, TypeOK
  <2>6. CASE Timeout(r)
    <3>1. /\ rpc[r] = "wait" /\ rpc' = [rpc EXCEPT ![r] = "expire"]
          /\ UNCHANGED <<pending, target, held, reply, outcome, answered, owner,
                         created>>
      BY <2>6 DEF Timeout
    <3>2. SlotsAreReleased' /\ \A t \in Session : \A q \in pending'[t] : reply'[q] = "none"
      BY <1>b, <3>1 DEF SlotsAreReleased, TypeOK
    <3> QED
      BY <1>c, <3>1, <3>2 DEF CallsInv, TypeOK
  <2>7. CASE ExpireRequest(r)
    <3>1. /\ rpc[r] = "expire" /\ rpc' = [rpc EXCEPT ![r] = "done"]
          /\ outcome' = [outcome EXCEPT ![r] = "timeout"]
          /\ pending' = [pending EXCEPT ![held[r]] = @ \ {r}]
          /\ UNCHANGED <<target, held, reply, answered, owner, created>>
      BY <2>7 DEF ExpireRequest
    <3>2. held[r] \in Session
      BY <3>1 DEF TypeOK
    <3>3. SlotsAreReleased' /\ \A t \in Session : \A q \in pending'[t] : reply'[q] = "none"
      BY <1>b, <3>1, <3>2 DEF SlotsAreReleased, TypeOK
    <3> QED
      BY <1>c, <3>1, <3>2, <3>3 DEF CallsInv, TypeOK
  <2>8. CASE CallerGone(r)
    <3>1. /\ rpc[r] = "wait" /\ rpc' = [rpc EXCEPT ![r] = "done"]
          /\ outcome' = [outcome EXCEPT ![r] = "gone"]
          /\ UNCHANGED <<pending, target, held, reply, answered, owner, created>>
      BY <2>8 DEF CallerGone
    <3>2. SlotsAreReleased' /\ \A t \in Session : \A q \in pending'[t] : reply'[q] = "none"
      BY <1>b, <3>1 DEF SlotsAreReleased, TypeOK
    <3> QED
      BY <1>c, <3>1, <3>2 DEF CallsInv, TypeOK
  <2> QED
    BY <1>4, <2>1, <2>2, <2>3, <2>4, <2>5, <2>6, <2>7, <2>8
       DEF RequestStep, Serve
<1>5. CASE UNCHANGED vars
  BY <1>5, CallsUntouched DEF vars
<1> QED
  BY <1>1, <1>2, <1>3, <1>4, <1>5 DEF Next

-----------------------------------------------------------------------------
(* Requests in flight *)

\* Without entries the invariant holds.
LEMMA InflightInvInit == Init => InflightInv
<1> SUFFICES ASSUME Init PROVE InflightInv
  OBVIOUS
<1>1. \A s \in Session : IsFiniteSet(pending[s]) /\ Cardinality(pending[s]) <= MaxInflight
  BY FS_EmptySet, TunnelAssumption DEF Init, TunnelAssumption
<1> QED
  BY <1>1 DEF Init, InflightInv, InflightBound

\* A step that adds no entry and lets no call past the check keeps the
\* invariant.
LEMMA InflightShrinks ==
  ASSUME TypeOK, TypeOK', InflightInv,
         \A s \in Session : pending'[s] \subseteq pending[s],
         crowded' = crowded,
         \A q \in Request : rpc'[q] = "insert" =>
           rpc[q] = "insert" /\ held'[q] = held[q]
  PROVE  InflightInv'
<1>1. \A s \in Session :
        /\ IsFiniteSet(pending'[s])
        /\ Cardinality(pending'[s]) \in Nat
        /\ Cardinality(pending[s]) \in Nat
        /\ Cardinality(pending'[s]) <= Cardinality(pending[s])
  <2> SUFFICES ASSUME NEW s \in Session
               PROVE  /\ IsFiniteSet(pending'[s])
                      /\ Cardinality(pending'[s]) \in Nat
                      /\ Cardinality(pending[s]) \in Nat
                      /\ Cardinality(pending'[s]) <= Cardinality(pending[s])
    OBVIOUS
  <2>1. IsFiniteSet(pending[s]) /\ pending'[s] \subseteq pending[s]
    BY DEF InflightInv
  <2>2. IsFiniteSet(pending'[s]) /\ Cardinality(pending'[s]) <= Cardinality(pending[s])
    BY <2>1, FS_Subset
  <2> QED
    BY <2>1, <2>2, FS_CardinalityType
<1>2. InflightBound'
  BY <1>1, TunnelAssumption DEF InflightInv, InflightBound, TunnelAssumption
<1>3. ASSUME NEW q \in Request, rpc'[q] = "insert", held'[q] \notin crowded'
      PROVE  Cardinality(pending'[held'[q]]) < MaxInflight /\ Passing(q)' = {q}
  <2>1. /\ rpc[q] = "insert" /\ held'[q] = held[q] /\ held[q] \in Session
        /\ held[q] \notin crowded
    BY <1>3 DEF TypeOK
  <2>2. Cardinality(pending[held[q]]) < MaxInflight /\ Passing(q) = {q}
    BY <2>1 DEF InflightInv
  <2>3. Passing(q)' = {q}
    BY <1>3, <2>1, <2>2 DEF Passing
  <2> QED
    BY <1>1, <2>1, <2>2, <2>3, TunnelAssumption DEF TunnelAssumption
<1> QED
  BY <1>1, <1>2, <1>3 DEF InflightInv

\* Every operation keeps the count of entries and of those about to come.
LEMMA InflightInvStep == RegistryInv /\ InflightInv /\ [Next]_vars => InflightInv'
<1> SUFFICES ASSUME RegistryInv, InflightInv, [Next]_vars PROVE InflightInv'
  OBVIOUS
<1>a. TypeOK /\ TypeOK' /\ Socket \subseteq Process /\ MaxInflight \in Nat
      /\ NoSession \notin Session
  BY TypeStep, TunnelAssumption
     DEF RegistryInv, Process, TunnelAssumption, Session, NoSession
<1>b. \A s \in Session : IsFiniteSet(pending[s]) /\ Cardinality(pending[s]) \in Nat
  BY FS_CardinalityType DEF InflightInv
<1> USE <1>a DEF registry, sockets, frames, requests, history, Goto, Advance, Return
<1>1. ASSUME NEW k \in Socket, SocketStep(k) PROVE InflightInv'
  <2>1. UNCHANGED <<rpc, held, crowded>>
    BY <1>1
       DEF SocketStep, Connect, Hello, RegisterInsert, Ping, HttpResponse,
           StreamEnds, AbortWriter, Deliver, WriterFails
  <2>2. \A s \in Session : pending'[s] \subseteq pending[s]
    <3>1. ASSUME NEW r \in Request, HttpResponse(k, r)
          PROVE  \A s \in Session : pending'[s] \subseteq pending[s]
      <4>1. \/ pending' = [pending EXCEPT ![devices[my_id[k]]] = @ \ {r}]
            \/ pending' = pending
        BY <3>1 DEF HttpResponse
      <4>2. CASE pending' = [pending EXCEPT ![devices[my_id[k]]] = @ \ {r}]
        BY <4>2 DEF TypeOK
      <4>3. CASE pending' = pending
        BY <4>3
      <4> QED
        BY <4>1, <4>2, <4>3
    <3>2. CASE \A r \in Request : ~HttpResponse(k, r)
      <4>1. pending' = pending
        BY <1>1, <3>2
           DEF SocketStep, Connect, Hello, RegisterInsert, Ping, StreamEnds,
               AbortWriter, Deliver, WriterFails
      <4> QED
        BY <4>1
    <3> QED
      BY <3>1, <3>2
  <2> QED
    BY <2>1, <2>2, InflightShrinks
<1>2. ASSUME NEW p \in Process, Unregister(p) PROVE InflightInv'
  <2>1. /\ UNCHANGED <<rpc, held, crowded>>
        /\ pending' = pending \/ pending' = [pending EXCEPT ![victim[p]] = {}]
    BY <1>2 DEF Unregister, UnregisterCheck, UnregisterRemove, UnregisterDrain
  <2>2. \A s \in Session : pending'[s] \subseteq pending[s]
    BY <2>1 DEF TypeOK
  <2> QED
    BY <2>1, <2>2, InflightShrinks
<1>3. CASE GcStep \/ UNCHANGED vars
  <2>1. UNCHANGED <<rpc, held, crowded, pending>>
    BY <1>3 DEF GcStep, GcCollect, GcNext, Age, vars
  <2> QED
    BY <2>1, InflightShrinks
<1>4. ASSUME NEW r \in Request, RequestStep(r) PROVE InflightInv'
  <2>1. CASE CheckInflight(r) /\ ~ (Cardinality(pending[held[r]]) >= MaxInflight)
    <3> DEFINE s == held[r]
    <3>1. /\ rpc[r] = "check" /\ rpc' = [rpc EXCEPT ![r] = "insert"]
          /\ crowded' = crowded \cup {t \in {s} : Passing(r) # {}}
          /\ UNCHANGED <<pending, held>>
      BY <2>1 DEF CheckInflight
    <3>2. s \in Session /\ Cardinality(pending[s]) < MaxInflight
      BY <1>b, <2>1, <3>1 DEF TypeOK
    <3>3. InflightBound'
      BY <3>1 DEF InflightInv, InflightBound
    <3>4. ASSUME NEW q \in Request, rpc'[q] = "insert", held'[q] \notin crowded'
          PROVE  Cardinality(pending'[held'[q]]) < MaxInflight /\ Passing(q)' = {q}
      <4>1. Passing(q)' = {x \in Request : rpc'[x] = "insert" /\ held[x] = held[q]}
        BY <3>1 DEF Passing
      <4>2. \A x \in Request : rpc'[x] = "insert" <=> rpc[x] = "insert" \/ x = r
        BY <3>1 DEF TypeOK
      <4>3. held[q] \notin crowded
        BY <3>1, <3>4
      <4>4. CASE held[q] = s
        <5>1. Passing(r) = {}
          BY <3>1, <3>4, <4>4
        <5>2. \A x \in Request : held[x] = s => rpc[x] # "insert"
          BY <5>1 DEF Passing
        <5>3. q = r
          BY <3>4, <4>2, <4>4, <5>2
        <5> QED
          BY <3>1, <3>2, <4>1, <4>2, <4>4, <5>2, <5>3
      <4>5. CASE held[q] # s
        <5>1. rpc[q] = "insert"
          BY <3>4, <4>2, <4>5
        <5>2. Cardinality(pending[held[q]]) < MaxInflight /\ Passing(q) = {q}
          BY <4>3, <5>1 DEF InflightInv
        <5>3. Passing(q)' = Passing(q)
          BY <4>1, <4>2, <4>5 DEF Passing
        <5> QED
          BY <3>1, <5>2, <5>3
      <4> QED
        BY <4>4, <4>5
    <3> QED
      BY <1>b, <3>1, <3>3, <3>4 DEF InflightInv
  <2>2. CASE InsertPending(r)
    <3> DEFINE s == held[r]
    <3>1. /\ rpc[r] = "insert" /\ rpc' = [rpc EXCEPT ![r] = "send"]
          /\ pending' = [pending EXCEPT ![s] = @ \cup {r}]
          /\ UNCHANGED <<held, crowded>>
      BY <2>2 DEF InsertPending
    <3>2. s \in Session
      BY <3>1 DEF TypeOK
    <3>3. /\ IsFiniteSet(pending[s] \cup {r})
          /\ \/ Cardinality(pending[s] \cup {r}) = Cardinality(pending[s])
             \/ Cardinality(pending[s] \cup {r}) = Cardinality(pending[s]) + 1
      BY <1>b, <3>2, FS_AddElement
    <3>4. s \notin crowded => Cardinality(pending[s]) < MaxInflight /\ Passing(r) = {r}
      BY <3>1 DEF InflightInv
    <3>5. pending'[s] = pending[s] \cup {r} /\ \A t \in Session \ {s} : pending'[t] = pending[t]
      BY <3>1, <3>2 DEF TypeOK
    <3>6. \A t \in Session : IsFiniteSet(pending'[t])
      BY <1>b, <3>3, <3>5
    <3>7. InflightBound'
      <4> SUFFICES ASSUME NEW t \in Session, t \notin crowded
                   PROVE  Cardinality(pending'[t]) <= MaxInflight
        BY <3>1 DEF InflightBound
      <4>1. CASE t = s
        <5>1. Cardinality(pending[s]) \in Nat /\ Cardinality(pending[s]) < MaxInflight
          BY <1>b, <3>2, <3>4, <4>1
        <5>2. Cardinality(pending[s] \cup {r}) <= MaxInflight
          BY <3>3, <5>1
        <5> QED
          BY <3>5, <4>1, <5>2
      <4>2. CASE t # s
        BY <3>5, <4>2 DEF InflightInv, InflightBound
      <4> QED
        BY <4>1, <4>2
    <3>8. ASSUME NEW q \in Request, rpc'[q] = "insert", held'[q] \notin crowded'
          PROVE  Cardinality(pending'[held'[q]]) < MaxInflight /\ Passing(q)' = {q}
      <4>1. q # r /\ rpc[q] = "insert" /\ held'[q] = held[q] /\ held[q] \in Session
        BY <3>1, <3>8 DEF TypeOK
      <4>2. Cardinality(pending[held[q]]) < MaxInflight /\ Passing(q) = {q}
        BY <3>1, <3>8, <4>1 DEF InflightInv
      <4>3. held[q] # s
        BY <3>1, <4>1, <4>2 DEF Passing
      <4>4. Passing(q)' = {q}
        BY <3>1, <3>8, <4>1, <4>2 DEF Passing, TypeOK
      <4> QED
        BY <3>5, <4>1, <4>2, <4>3, <4>4
    <3> QED
      BY <3>6, <3>7, <3>8 DEF InflightInv
  <2>3. CASE CheckInflight(r) /\ Cardinality(pending[held[r]]) >= MaxInflight
    <3>1. /\ rpc' = [rpc EXCEPT ![r] = "done"]
          /\ UNCHANGED <<held, crowded, pending>>
      BY <2>3 DEF CheckInflight
    <3> QED
      BY <3>1, InflightShrinks DEF TypeOK
  <2>4. ASSUME NEW d \in Device, GetDevice(r, d) PROVE InflightInv'
    <3>1. /\ rpc' \in {[rpc EXCEPT ![r] = "check"], [rpc EXCEPT ![r] = "done"]}
          /\ held' = [held EXCEPT ![r] = devices[d]]
          /\ UNCHANGED <<crowded, pending>>
      BY <2>4 DEF GetDevice
    <3>2. \A q \in Request : rpc'[q] = "insert" => rpc[q] = "insert" /\ held'[q] = held[q]
      BY <3>1 DEF TypeOK
    <3> QED
      BY <3>1, <3>2, InflightShrinks
  <2>5. CASE \/ SendFrame(r) \/ ReceiveReply(r) \/ Timeout(r) \/ ExpireRequest(r)
             \/ CallerGone(r)
    <3>1. /\ \E to \in {"wait", "done", "expire"} : rpc' = [rpc EXCEPT ![r] = to]
          /\ pending' \in {pending, [pending EXCEPT ![held[r]] = @ \ {r}]}
          /\ UNCHANGED <<held, crowded>>
      BY <2>5 DEF SendFrame, ReceiveReply, Timeout, ExpireRequest, CallerGone
    <3>2. \A q \in Request : rpc'[q] = "insert" => rpc[q] = "insert" /\ held'[q] = held[q]
      BY <3>1 DEF TypeOK
    <3>3. \A s \in Session : pending'[s] \subseteq pending[s]
      BY <3>1 DEF TypeOK
    <3> QED
      BY <3>1, <3>2, <3>3, InflightShrinks
  <2> QED
    BY <1>4, <2>1, <2>2, <2>3, <2>4, <2>5 DEF RequestStep, Serve
<1> QED
  BY <1>1, <1>2, <1>3, <1>4 DEF Next

-----------------------------------------------------------------------------
(* The promise of RequestReply *)

\* A caller sees a step of its call as one change of Call, and the others'
\* calls as they were.
LEMMA CallMoves ==
  ASSUME TypeOK, NEW r \in Request, NEW to, NEW result,
         rpc' = [rpc EXCEPT ![r] = to],
         outcome' = [outcome EXCEPT ![r] = result]
  PROVE  Call' = [Call EXCEPT ![r] = IF to = "idle" THEN "idle"
                                     ELSE IF to = "done" THEN result ELSE "open"]
  BY DEF TypeOK, Call

\* A step inside an open call is not seen.
LEMMA CallStaysOpen ==
  ASSUME TypeOK, NEW r \in Request, NEW to, to \notin {"idle", "done"},
         rpc[r] \notin {"idle", "done"},
         rpc' = [rpc EXCEPT ![r] = to], outcome' = outcome
  PROVE  Call' = Call
  BY DEF TypeOK, Call

\* A call that ends is an End step of RequestReply.
LEMMA CallEnds ==
  ASSUME TypeOK, NEW r \in Request, NEW result,
         rpc[r] \notin {"idle", "done"},
         rpc' = [rpc EXCEPT ![r] = "done"],
         outcome' = [outcome EXCEPT ![r] = result],
         answered' = answered,
         \/ result \in {"offline", "busy", "disconnected", "timeout", "gone"}
         \/ result = "response" /\ r \in answered
  PROVE  RR!Next
<1>1. Call[r] = "open"
  BY DEF TypeOK, Call
<1>2. Call' = [Call EXCEPT ![r] = result]
  BY CallMoves
<1>3. result \in RR!NoResponse \cup (IF r \in answered THEN {"response"} ELSE {})
  BY DEF RR!NoResponse
<1>4. RR!End(r)
  BY <1>1, <1>2, <1>3 DEF RR!End
<1> QED
  BY <1>4 DEF RR!Next

\* Every step of the tunnel is a step of RequestReply or is not seen there.
LEMMA StepIsCallStep ==
  RegistryInv /\ CallsInv /\ [Next]_vars => [RR!Next]_RR!vars
<1> SUFFICES ASSUME RegistryInv, CallsInv, [Next]_vars
             PROVE  RR!Next \/ (Call' = Call /\ answered' = answered)
  BY DEF RR!vars
<1>a. TypeOK /\ NoDevice \notin Device
  BY TunnelAssumption DEF RegistryInv, TunnelAssumption
<1>b. \A r \in Request :
        /\ rpc[r] = "idle" => target[r] = NoDevice
        /\ reply[r] = "response" => r \in answered
  BY DEF CallsInv
<1> USE <1>a DEF registry, sockets, frames, requests, history, Goto, Advance, Return
<1>1. ASSUME NEW k \in Socket, NEW r \in Request, HttpResponse(k, r)
      PROVE  RR!Next \/ (Call' = Call /\ answered' = answered)
  <2>1. /\ answered' = IF my_id[k] = target[r] THEN answered \cup {r} ELSE answered
        /\ my_id[k] # NoDevice
        /\ Call' = Call
    BY <1>1 DEF HttpResponse, Call
  <2>2. CASE my_id[k] = target[r]
    <3>1. Call[r] # "idle"
      <4>1. rpc[r] # "idle"
        BY <1>b, <2>1, <2>2
      <4>2. CASE rpc[r] = "done"
        <5>1. outcome[r] # "idle"
          BY DEF TypeOK, Outcome
        <5> QED
          BY <4>2, <5>1 DEF Call
      <4> QED
        BY <4>1, <4>2 DEF Call
    <3>2. RR!Answer(r)
      BY <2>1, <2>2, <3>1 DEF RR!Answer
    <3> QED
      BY <3>2 DEF RR!Next
  <2>3. CASE my_id[k] # target[r]
    BY <2>1, <2>3
  <2> QED
    BY <2>2, <2>3
<1>2. ASSUME NEW r \in Request, RequestStep(r)
      PROVE  RR!Next \/ (Call' = Call /\ answered' = answered)
  <2>1. ASSUME NEW d \in Device, GetDevice(r, d) PROVE RR!Next
    <3>1. rpc[r] = "idle" /\ answered' = answered
      BY <2>1 DEF GetDevice
    <3>2. Call[r] = "idle"
      BY <3>1 DEF Call
    <3>3. \E c \in {"open", "offline"} : Call' = [Call EXCEPT ![r] = c]
      <4>1. CASE devices[d] = NoSession
        <5>1. /\ rpc' = [rpc EXCEPT ![r] = "done"]
              /\ outcome' = [outcome EXCEPT ![r] = "offline"]
          BY <2>1, <4>1 DEF GetDevice
        <5>2. Call' = [Call EXCEPT ![r] = "offline"]
          BY <5>1, CallMoves
        <5> QED
          BY <5>2
      <4>2. CASE devices[d] # NoSession
        <5>1. rpc' = [rpc EXCEPT ![r] = "check"] /\ outcome' = outcome
          BY <2>1, <4>2 DEF GetDevice
        <5>2. outcome' = [outcome EXCEPT ![r] = outcome[r]]
          BY <5>1 DEF TypeOK
        <5>3. Call' = [Call EXCEPT ![r] = "open"]
          BY <5>1, <5>2, CallMoves
        <5> QED
          BY <5>3
      <4> QED
        BY <4>1, <4>2
    <3>4. RR!Begin(r)
      BY <3>1, <3>2, <3>3 DEF RR!Begin
    <3> QED
      BY <3>4 DEF RR!Next
  <2>2. CASE CheckInflight(r)
    <3>1. rpc[r] = "check" /\ answered' = answered
      BY <2>2 DEF CheckInflight
    <3>2. \/ rpc' = [rpc EXCEPT ![r] = "insert"] /\ outcome' = outcome
          \/ /\ rpc' = [rpc EXCEPT ![r] = "done"]
             /\ outcome' = [outcome EXCEPT ![r] = "busy"]
      BY <2>2 DEF CheckInflight
    <3> QED
      BY <3>1, <3>2, CallStaysOpen, CallEnds
  <2>3. CASE InsertPending(r)
    <3>1. /\ rpc[r] = "insert" /\ rpc' = [rpc EXCEPT ![r] = "send"]
          /\ outcome' = outcome /\ answered' = answered
      BY <2>3 DEF InsertPending
    <3> QED
      BY <3>1, CallStaysOpen
  <2>4. CASE SendFrame(r)
    <3>1. rpc[r] = "send" /\ answered' = answered
      BY <2>4 DEF SendFrame
    <3>2. \/ rpc' = [rpc EXCEPT ![r] = "wait"] /\ outcome' = outcome
          \/ /\ rpc' = [rpc EXCEPT ![r] = "done"]
             /\ outcome' = [outcome EXCEPT ![r] = "offline"]
      BY <2>4 DEF SendFrame
    <3> QED
      BY <3>1, <3>2, CallStaysOpen, CallEnds
  <2>5. CASE ReceiveReply(r)
    <3>1. /\ rpc[r] = "wait" /\ rpc' = [rpc EXCEPT ![r] = "done"]
          /\ outcome' = [outcome EXCEPT ![r] = reply[r]] /\ answered' = answered
          /\ reply[r] \in {"response", "disconnected"}
      BY <2>5 DEF ReceiveReply, TypeOK, Reply
    <3>2. reply[r] = "response" => r \in answered
      BY <1>b
    <3> QED
      BY <3>1, <3>2, CallEnds
  <2>6. CASE Timeout(r)
    <3>1. /\ rpc[r] = "wait" /\ rpc' = [rpc EXCEPT ![r] = "expire"]
          /\ outcome' = outcome /\ answered' = answered
      BY <2>6 DEF Timeout
    <3> QED
      BY <3>1, CallStaysOpen
  <2>7. CASE ExpireRequest(r) \/ CallerGone(r)
    <3>1. /\ rpc[r] \in {"expire", "wait"} /\ rpc' = [rpc EXCEPT ![r] = "done"]
          /\ answered' = answered
          /\ \/ outcome' = [outcome EXCEPT ![r] = "timeout"]
             \/ outcome' = [outcome EXCEPT ![r] = "gone"]
      BY <2>7 DEF ExpireRequest, CallerGone
    <3> QED
      BY <3>1, CallEnds
  <2> QED
    BY <1>2, <2>1, <2>2, <2>3, <2>4, <2>5, <2>6, <2>7 DEF RequestStep, Serve
<1>3. CASE \/ \E k \in Socket : /\ SocketStep(k)
                                /\ \A r \in Request : ~HttpResponse(k, r)
           \/ \E p \in Process : Unregister(p)
           \/ GcStep
           \/ UNCHANGED vars
  <2>1. UNCHANGED <<rpc, outcome, answered>>
    <3>1. ASSUME NEW k \in Socket, SocketStep(k),
                 \A r \in Request : ~HttpResponse(k, r)
          PROVE  UNCHANGED <<rpc, outcome, answered>>
      BY <3>1
         DEF SocketStep, Connect, Hello, RegisterInsert, Ping, StreamEnds,
             AbortWriter, Deliver, WriterFails
    <3>2. ASSUME NEW p \in Process, Unregister(p)
          PROVE  UNCHANGED <<rpc, outcome, answered>>
      BY <3>2 DEF Unregister, UnregisterCheck, UnregisterRemove, UnregisterDrain
    <3>3. CASE GcStep
      BY <3>3 DEF GcStep, GcCollect, GcNext, Age
    <3> QED
      BY <1>3, <3>1, <3>2, <3>3 DEF vars
  <2> QED
    BY <2>1 DEF Call
<1> QED
  BY <1>1, <1>2, <1>3 DEF Next

-----------------------------------------------------------------------------
\* The three invariants hold together.
LEMMA TunnelInvAlways == Spec => [](RegistryInv /\ CallsInv /\ InflightInv)
<1>1. Init => RegistryInv /\ CallsInv /\ InflightInv
  BY RegistryInvInit, CallsInvInit, InflightInvInit
<1>2. RegistryInv /\ CallsInv /\ InflightInv /\ [Next]_vars
        => (RegistryInv /\ CallsInv /\ InflightInv)'
  BY RegistryInvStep, CallsInvStep, InflightInvStep
<1> QED
  BY <1>1, <1>2, PTL DEF Spec

\* Sessions, handlers and calls are always well formed; the collector and the
\* handlers only ever work on sessions and devices that exist (registry.rs,
\* tunnel.rs, proxy.rs).
THEOREM TunnelTypesCorrect == Spec => []TypeOK
<1>1. RegistryInv => TypeOK
  BY DEF RegistryInv
<1> QED
  BY <1>1, TunnelInvAlways, PTL

\* A call that waits can be answered: nobody drops its entry without a reply
\* (proxy_http, complete_request, unregister_device).
THEOREM WaitingStaysPending == Spec => []WaitingIsPending
<1>1. CallsInv => WaitingIsPending
  BY DEF CallsInv, WaitingIsPending
<1> QED
  BY <1>1, TunnelInvAlways, PTL

\* Every entry belongs to a call under way or to a caller that went away
\* (proxy_http).
THEOREM SlotsStayReleased == Spec => []SlotsAreReleased
<1>1. CallsInv => SlotsAreReleased
  BY DEF CallsInv
<1> QED
  BY <1>1, TunnelInvAlways, PTL

\* A socket that has ended leaves no session of its own behind
\* (unregister_device, handle_socket).
THEOREM ClosedStaysUnregistered == Spec => []ClosedIsUnregistered
<1>1. RegistryInv => ClosedIsUnregistered
  BY DEF RegistryInv
<1> QED
  BY <1>1, TunnelInvAlways, PTL

\* The session of an open socket stays registered until it is replaced or
\* evicted, except when it was inserted in the middle of somebody's removal
\* (register_device, unregister_device, gc_stale_devices).
THEOREM OpenStaysRegistered == Spec => []RegisteredWhileOpen
<1>1. RegistryInv => RegisteredWhileOpen
  BY DEF RegistryInv
<1> QED
  BY <1>1, TunnelInvAlways, PTL

\* No session has more entries than max_inflight as long as no two calls were
\* between the comparison and the insertion at once (proxy_http).
THEOREM InflightStaysBounded == Spec => []InflightBound
<1>1. InflightInv => InflightBound
  BY DEF InflightInv
<1> QED
  BY <1>1, TunnelInvAlways, PTL

\* proxy_http implements the safety part of RequestReply: a call has one
\* outcome, and a response only if the target answered this call.
THEOREM TunnelImplementsCalls == Spec => OneTrueOutcome
<1>1. Init => RR!Init
  BY DEF Init, RR!Init, Call
<1> QED
  BY <1>1, StepIsCallStep, TunnelInvAlways, PTL DEF Spec, OneTrueOutcome

=============================================================================
