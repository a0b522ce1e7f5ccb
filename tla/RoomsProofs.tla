---------------------------- MODULE RoomsProofs ----------------------------
(***************************************************************************)
(* Theorems about Rooms, for any codes, members and requests, any lifetime *)
(* of a room, any limit of members and any bound of the clock.             *)
(*                                                                         *)
(* AnsweredRoomStays is not inductive: a request that has seen the room    *)
(* empty or expired removes whatever has the code later.  PromiseHolds     *)
(* adds that no such request is under way for a code that is still owed.   *)
(***************************************************************************)
EXTENDS Rooms, FiniteSetTheorems, TLAPS

\* The members of every room are finitely many, which Cardinality needs.
FiniteRooms == \A c \in Code : IsFiniteSet(members[c])

\* What the map says of a room is what was answered about it.
RoomsMatchAnswers ==
  \A c \in rooms :
    /\ expires_at[c] = term[c]
    /\ \A m \in Member : <<c, m>> \in granted => m \in members[c]

\* A room that is owed is in the map and nobody is about to remove it.
PromiseHolds ==
  \A c \in owed \ overtaken : now < term[c] => c \in rooms /\ ~Doomed(c)

RoomsTypes == TypeOK /\ FiniteRooms

RoomsInv == RoomsTypes /\ RoomsMatchAnswers /\ PromiseHolds

-----------------------------------------------------------------------------
\* The empty registry satisfies the invariant.
LEMMA RoomsInvInit == Init => RoomsInv
<1> SUFFICES ASSUME Init PROVE RoomsInv
  OBVIOUS
<1> USE RoomsAssumption DEF RoomsAssumption, Init
<1>1. FiniteRooms /\ \A c \in Code : Cardinality(members[c]) <= MaxMembers
  BY FS_EmptySet DEF FiniteRooms
<1>2. TypeOK
  BY <1>1 DEF TypeOK, Instant
<1>3. RoomsMatchAnswers /\ PromiseHolds
  BY DEF RoomsMatchAnswers, PromiseHolds
<1> QED
  BY <1>1, <1>2, <1>3 DEF RoomsInv, RoomsTypes

\* Taking rooms out of the map keeps the types of what is left.
LEMMA RemoveTypes ==
  ASSUME RoomsTypes, NEW dead \in SUBSET Code, Remove(dead)
  PROVE  /\ rooms' \in SUBSET Code
         /\ members' \in [Code -> SUBSET Member]
         /\ expires_at' \in [Code -> Instant]
         /\ FiniteRooms'
         /\ \A c \in Code : Cardinality(members'[c]) <= MaxMembers
         /\ \A c \in Code \ rooms' : members'[c] = {} /\ expires_at'[c] = 0
<1> USE RoomsAssumption DEF RoomsAssumption, RoomsTypes, TypeOK, Remove
<1>1. FiniteRooms' /\ \A c \in Code : Cardinality(members'[c]) <= MaxMembers
  BY FS_EmptySet DEF FiniteRooms
<1>2. 0 \in Instant
  BY DEF Instant
<1> QED
  BY <1>1, <1>2

\* Every operation keeps the types, and the members of a room within the
\* limit: a join is admitted only where there is a place (join_room).
LEMMA RoomsTypesStep == RoomsTypes /\ [Next]_vars => RoomsTypes'
<1> SUFFICES ASSUME RoomsTypes, [Next]_vars PROVE RoomsTypes'
  OBVIOUS
<1> USE RoomsAssumption
    DEF RoomsAssumption, RoomsTypes, registry, requests, history
<1>1. ASSUME NEW c \in Code, create_room(c) PROVE RoomsTypes'
  <2>1. now + Ttl \in Instant
    BY DEF TypeOK, Instant
  <2>2. /\ FiniteRooms'
        /\ \A d \in Code : Cardinality(members'[d]) <= MaxMembers
    BY <1>1, FS_EmptySet DEF TypeOK, FiniteRooms, create_room
  <2> QED
    BY <1>1, <2>1, <2>2 DEF TypeOK, create_room
<1>2. CASE gc_rooms
  <2>1. Expired \in SUBSET Code
    BY DEF TypeOK, Expired
  <2> QED
    BY <1>2, <2>1, RemoveTypes DEF TypeOK, gc_rooms
<1>3. ASSUME NEW h \in Handler, Request(h) PROVE RoomsTypes'
  <2>1. ASSUME NEW c \in Code, NEW m \in Member, JoinCollect(h, c, m)
        PROVE RoomsTypes'
    <3>1. Expired \in SUBSET Code
      BY DEF TypeOK, Expired
    <3>2. Remove(Expired)
      BY <2>1 DEF JoinCollect
    <3> QED
      BY <2>1, <3>1, <3>2, RemoveTypes DEF TypeOK, JoinCollect, Start
  <2>2. ASSUME NEW c \in Code, NEW m \in Member, LeaveMember(h, c, m)
        PROVE RoomsTypes'
    <3>1. /\ IsFiniteSet(members[c] \ {m})
          /\ Cardinality(members[c] \ {m}) <= MaxMembers
      <4>1. IsFiniteSet(members[c])
        BY DEF FiniteRooms
      <4>2. /\ Cardinality(members[c]) \in Nat
            /\ Cardinality(members[c] \ {m}) \in Nat
            /\ Cardinality(members[c] \ {m}) <= Cardinality(members[c])
            /\ IsFiniteSet(members[c] \ {m})
        BY <4>1, FS_Subset, FS_CardinalityType, members[c] \ {m} \subseteq members[c]
      <4> QED
        BY <4>2 DEF TypeOK
    <3>2. /\ FiniteRooms'
          /\ \A d \in Code : Cardinality(members'[d]) <= MaxMembers
      BY <2>2, <3>1 DEF TypeOK, FiniteRooms, LeaveMember
    <3>3. /\ pc' \in [Handler -> {"idle", "join", "remove"}]
          /\ code' \in [Handler -> Code \cup {NoCode}]
          /\ who' \in [Handler -> Member \cup {NoMember}]
          /\ \A g \in Handler : pc'[g] # "idle" => code'[g] \in Code
          /\ \A g \in Handler : pc'[g] = "join" => who'[g] \in Member
      BY <2>2 DEF TypeOK, LeaveMember, Start
    <3> QED
      BY <2>2, <3>2, <3>3 DEF TypeOK, LeaveMember
  <2>3. CASE JoinRefused(h)
    BY <2>3 DEF TypeOK, FiniteRooms, JoinRefused, Finish
  <2>4. CASE JoinExpired(h)
    BY <2>4 DEF TypeOK, FiniteRooms, JoinExpired
  <2>5. CASE JoinAdmitted(h)
    <3> DEFINE c == code[h]
    <3>1. c \in Code /\ who[h] \in Member
      BY <2>5 DEF TypeOK, JoinAdmitted, Finish
    <3>2. /\ IsFiniteSet(members[c] \cup {who[h]})
          /\ Cardinality(members[c] \cup {who[h]}) <= MaxMembers
      <4>1. IsFiniteSet(members[c]) /\ Cardinality(members[c]) \in Nat
        BY <3>1, FS_CardinalityType DEF FiniteRooms
      <4>2. Cardinality(members[c]) < MaxMembers
        BY <2>5 DEF JoinAdmitted, HasPlace
      <4>3. /\ IsFiniteSet(members[c] \cup {who[h]})
            /\ \/ Cardinality(members[c] \cup {who[h]}) = Cardinality(members[c])
               \/ Cardinality(members[c] \cup {who[h]}) = Cardinality(members[c]) + 1
        BY <4>1, FS_AddElement
      <4> QED
        BY <4>1, <4>2, <4>3
    <3>3. /\ FiniteRooms'
          /\ \A d \in Code : Cardinality(members'[d]) <= MaxMembers
      BY <2>5, <3>1, <3>2 DEF TypeOK, FiniteRooms, JoinAdmitted
    <3>4. /\ members' \in [Code -> SUBSET Member]
          /\ granted' \in SUBSET (Code \X Member)
          /\ owed' \in SUBSET Code
          /\ overtaken' \in SUBSET Code
          /\ \A d \in Code \ rooms' : members'[d] = {}
      BY <2>5, <3>1 DEF TypeOK, JoinAdmitted
    <3>5. /\ pc' \in [Handler -> {"idle", "join", "remove"}]
          /\ code' \in [Handler -> Code \cup {NoCode}]
          /\ who' \in [Handler -> Member \cup {NoMember}]
          /\ \A g \in Handler : pc'[g] # "idle" => code'[g] \in Code
          /\ \A g \in Handler : pc'[g] = "join" => who'[g] \in Member
      BY <2>5 DEF TypeOK, JoinAdmitted, Finish
    <3> HIDE DEF c
    <3> QED
      BY <2>5, <3>3, <3>4, <3>5 DEF TypeOK, JoinAdmitted
  <2>6. CASE RemoveRoom(h)
    <3>1. {code[h]} \in SUBSET Code
      BY <2>6 DEF TypeOK, RemoveRoom, Finish
    <3>2. Remove({code[h]})
      BY <2>6 DEF RemoveRoom
    <3> QED
      BY <2>6, <3>1, <3>2, RemoveTypes DEF TypeOK, RemoveRoom, Finish
  <2> QED
    BY <1>3, <2>1, <2>2, <2>3, <2>4, <2>5, <2>6 DEF Request
<1>4. CASE Tick
  BY <1>4 DEF TypeOK, FiniteRooms, Tick
<1>5. CASE Restart
  <2>1. FiniteRooms' /\ \A c \in Code : Cardinality(members'[c]) <= MaxMembers
    BY <1>5, FS_EmptySet DEF FiniteRooms, Restart
  <2> QED
    BY <1>5, <2>1 DEF TypeOK, Instant, Restart
<1>6. CASE UNCHANGED vars
  BY <1>6 DEF TypeOK, FiniteRooms, vars
<1> QED
  BY <1>1, <1>2, <1>3, <1>4, <1>5, <1>6 DEF Next

\* A collection of expired rooms takes none that is owed, as every room in
\* the map ends when its answer said.
LEMMA CollectKeepsPromise ==
  ASSUME RoomsInv, Remove(Expired), UNCHANGED <<now, history>>,
         \A c \in Code : Doomed(c)' => Doomed(c)
  PROVE  RoomsMatchAnswers' /\ PromiseHolds'
<1> USE DEF RoomsInv, RoomsTypes, TypeOK, Remove, history
<1>1. RoomsMatchAnswers'
  BY DEF RoomsMatchAnswers
<1>2. ASSUME NEW c \in owed, c \notin overtaken, now < term[c]
      PROVE  c \in rooms' /\ ~Doomed(c)'
  <2>1. c \in Code /\ c \in rooms /\ ~Doomed(c)
    BY <1>2 DEF PromiseHolds
  <2>2. now \in Nat /\ term[c] \in Nat /\ expires_at[c] = term[c]
    BY <2>1, RoomsAssumption DEF RoomsMatchAnswers, Instant, RoomsAssumption
  <2>3. c \notin Expired
    BY <1>2, <2>2 DEF Expired
  <2> QED
    BY <2>1, <2>3
<1>3. owed' = owed /\ overtaken' = overtaken /\ now' = now /\ term' = term
  OBVIOUS
<1>4. PromiseHolds'
  BY <1>2, <1>3 DEF PromiseHolds
<1> QED
  BY <1>1, <1>4

\* Every operation keeps what was answered about a room.
LEMMA RoomsInvStep == RoomsInv /\ [Next]_vars => RoomsInv'
<1> SUFFICES ASSUME RoomsInv, [Next]_vars
             PROVE RoomsMatchAnswers' /\ PromiseHolds'
  BY RoomsTypesStep DEF RoomsInv
<1> USE DEF RoomsInv, RoomsTypes, registry, requests, history
<1>1. ASSUME NEW c \in Code, create_room(c)
      PROVE RoomsMatchAnswers' /\ PromiseHolds'
  <2>1. RoomsMatchAnswers'
    BY <1>1 DEF TypeOK, RoomsMatchAnswers, create_room
  <2>2. \A d \in Code : Doomed(d)' <=> Doomed(d)
    BY <1>1 DEF Doomed, create_room
  <2>3. PromiseHolds'
    BY <1>1, <2>2 DEF TypeOK, PromiseHolds, create_room
  <2> QED
    BY <2>1, <2>3
<1>2. CASE gc_rooms
  BY <1>2, CollectKeepsPromise DEF gc_rooms, Doomed
<1>3. ASSUME NEW h \in Handler, Request(h)
      PROVE RoomsMatchAnswers' /\ PromiseHolds'
  <2>1. ASSUME NEW c \in Code, NEW m \in Member, JoinCollect(h, c, m)
        PROVE RoomsMatchAnswers' /\ PromiseHolds'
    <3>1. \A d \in Code : Doomed(d)' => Doomed(d)
      BY <2>1 DEF TypeOK, JoinCollect, Start, Doomed
    <3> QED
      BY <2>1, <3>1, CollectKeepsPromise DEF JoinCollect
  <2>2. ASSUME NEW c \in Code, NEW m \in Member, LeaveMember(h, c, m)
        PROVE RoomsMatchAnswers' /\ PromiseHolds'
    <3>1. RoomsMatchAnswers'
      BY <2>2 DEF TypeOK, RoomsMatchAnswers, LeaveMember
    <3>2. ASSUME NEW d \in owed', d \notin overtaken', Doomed(d)'
          PROVE  Doomed(d)
      <4>1. CASE d = c
        <5>1. members'[c] # {}
          BY <2>2, <3>2, <4>1 DEF LeaveMember
        <5>2. UNCHANGED requests
          BY <2>2, <5>1 DEF TypeOK, LeaveMember, LeftEmpty
        <5> QED
          BY <3>2, <5>2 DEF Doomed
      <4>2. CASE d # c
        BY <2>2, <3>2, <4>2 DEF TypeOK, LeaveMember, Start, Doomed
      <4> QED
        BY <4>1, <4>2
    <3>3. PromiseHolds'
      BY <2>2, <3>2 DEF PromiseHolds, LeaveMember
    <3> QED
      BY <3>1, <3>3
  <2>3. CASE JoinRefused(h)
    <3>1. \A d \in Code : Doomed(d)' => Doomed(d)
      BY <2>3 DEF TypeOK, JoinRefused, Finish, Doomed
    <3> QED
      BY <2>3, <3>1 DEF TypeOK, RoomsMatchAnswers, PromiseHolds, JoinRefused
  <2>4. CASE JoinExpired(h)
    <3>1. RoomsMatchAnswers'
      BY <2>4 DEF RoomsMatchAnswers, JoinExpired
    <3>2. ~ (now < term[code[h]])
      <4>1. code[h] \in Code /\ expires_at[code[h]] = term[code[h]]
        BY <2>4 DEF TypeOK, RoomsMatchAnswers, JoinExpired
      <4>2. now \in Nat /\ term[code[h]] \in Nat /\ term[code[h]] < now
        BY <2>4, <4>1, RoomsAssumption
           DEF TypeOK, Instant, JoinExpired, RoomsAssumption
      <4> QED
        BY <4>2
    <3>3. \A d \in Code : Doomed(d)' => Doomed(d) \/ d = code[h]
      BY <2>4 DEF TypeOK, JoinExpired, Doomed
    <3>4. PromiseHolds'
      BY <2>4, <3>2, <3>3 DEF TypeOK, PromiseHolds, JoinExpired
    <3> QED
      BY <3>1, <3>4
  <2>5. CASE JoinAdmitted(h)
    <3>1. RoomsMatchAnswers'
      BY <2>5 DEF TypeOK, RoomsMatchAnswers, JoinAdmitted, Finish
    <3>2. \A d \in Code : Doomed(d)' => Doomed(d)
      BY <2>5 DEF TypeOK, JoinAdmitted, Finish, Doomed
    <3>3. PromiseHolds'
      BY <2>5, <3>2 DEF TypeOK, PromiseHolds, JoinAdmitted
    <3> QED
      BY <3>1, <3>3
  <2>6. CASE RemoveRoom(h)
    <3>1. RoomsMatchAnswers'
      BY <2>6 DEF TypeOK, RoomsMatchAnswers, RemoveRoom, Remove
    <3>2. Doomed(code[h]) /\ \A d \in Code : Doomed(d)' => Doomed(d)
      BY <2>6 DEF TypeOK, RemoveRoom, Finish, Doomed
    <3>3. PromiseHolds'
      BY <2>6, <3>2 DEF TypeOK, PromiseHolds, RemoveRoom, Remove
    <3> QED
      BY <3>1, <3>3
  <2> QED
    BY <1>3, <2>1, <2>2, <2>3, <2>4, <2>5, <2>6 DEF Request
<1>4. CASE Tick
  <2>1. RoomsMatchAnswers'
    BY <1>4 DEF RoomsMatchAnswers, Tick
  <2>2. \A c \in Code : now' < term[c] => now < term[c]
    BY <1>4, RoomsAssumption DEF TypeOK, Instant, Tick, RoomsAssumption
  <2>3. \A c \in Code : Doomed(c)' <=> Doomed(c)
    BY <1>4 DEF Tick, Doomed
  <2>4. PromiseHolds'
    BY <1>4, <2>2, <2>3 DEF TypeOK, PromiseHolds, Tick
  <2> QED
    BY <2>1, <2>4
<1>5. CASE Restart
  BY <1>5 DEF RoomsMatchAnswers, PromiseHolds, Restart
<1>6. CASE UNCHANGED vars
  BY <1>6 DEF RoomsMatchAnswers, PromiseHolds, Doomed, vars
<1> QED
  BY <1>1, <1>2, <1>3, <1>4, <1>5, <1>6 DEF Next

-----------------------------------------------------------------------------
\* The registry's rooms are always well formed, and a room never has more
\* than MaxMembers members, whatever joins run at the same time (join_room).
THEOREM RoomsTypesCorrect == Spec => []TypeOK
<1>1. Init => RoomsTypes
  BY RoomsInvInit DEF RoomsInv
<1>2. RoomsTypes => TypeOK
  BY DEF RoomsTypes
<1> QED
  BY <1>1, <1>2, RoomsTypesStep, PTL DEF Spec

\* A room that was answered stays, with the members whose joins were
\* answered, until its time is over, its code is drawn again or its last
\* member leaves, unless the code was handed out in the middle of a removal
\* (create_room, join_room, leave_room, gc_rooms).
THEOREM AnsweredRoomsStay == Spec => []AnsweredRoomStays
<1>1. RoomsInv => AnsweredRoomStays
  BY DEF RoomsInv, RoomsMatchAnswers, PromiseHolds, AnsweredRoomStays
<1> QED
  BY <1>1, RoomsInvInit, RoomsInvStep, PTL DEF Spec

=============================================================================
