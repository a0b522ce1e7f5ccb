------------------------------- MODULE Rooms --------------------------------
(***************************************************************************)
(* Rooms of the registry (registry.rs): a client asks for a room, others   *)
(* join it by its code, a room ends when it is left empty or when its time *)
(* is over.  What is atomic is one operation on the map of rooms; leaving  *)
(* and joining take more than one, and the clock may move in between.      *)
(* gc_rooms goes through the map shard by shard; every room is judged by   *)
(* the same reading of the clock, so that it is one step here.             *)
(***************************************************************************)
EXTENDS Naturals, FiniteSets

CONSTANTS
  Code,         \* room codes generate_room_code may come up with
  Member,       \* app_instance_id of those who join
  Handler,      \* requests running at the same time
  NoCode, NoMember,
  Ttl,          \* config.room_ttl()
  MaxMembers,   \* 32 in the code
  MaxTime       \* bound of the clock

ASSUME RoomsAssumption ==
  /\ NoCode \notin Code
  /\ NoMember \notin Member
  /\ Ttl \in Nat
  /\ MaxMembers \in Nat
  /\ MaxTime \in Nat

VARIABLES
  now,            \* SystemTime::now()
  rooms,          \* Registry.rooms: the codes that have a room
  members,        \* Room.members
  expires_at,     \* Room.expires_at
  pc, code, who,  \* next operation of each request and its arguments
  owed,           \* history: codes given out and not ended by a leave
  granted,        \* history: <<code, member>> answered and not left since
  term,           \* history: when the room last owed under a code expires
  overtaken       \* history: codes given out or joined while another request
                  \*   was about to remove the room it had seen

registry == <<rooms, members, expires_at>>
requests == <<pc, code, who>>
history == <<owed, granted, term, overtaken>>
vars == <<now, registry, requests, history>>

Instant == 0 .. MaxTime + Ttl

TypeOK ==
  /\ now \in 0 .. MaxTime
  /\ rooms \in SUBSET Code
  /\ members \in [Code -> SUBSET Member]
  /\ expires_at \in [Code -> Instant]
  /\ pc \in [Handler -> {"idle", "join", "remove"}]
  /\ code \in [Handler -> Code \cup {NoCode}]
  /\ who \in [Handler -> Member \cup {NoMember}]
  /\ owed \in SUBSET Code
  /\ granted \in SUBSET (Code \X Member)
  /\ term \in [Code -> Instant]
  /\ overtaken \in SUBSET Code
  /\ \A h \in Handler : pc[h] # "idle" => code[h] \in Code
  /\ \A h \in Handler : pc[h] = "join" => who[h] \in Member
  /\ \A c \in Code : Cardinality(members[c]) <= MaxMembers
  /\ \A c \in Code \ rooms : members[c] = {} /\ expires_at[c] = 0

Init ==
  /\ now = 0
  /\ rooms = {}
  /\ members = [c \in Code |-> {}]
  /\ expires_at = [c \in Code |-> 0]
  /\ pc = [h \in Handler |-> "idle"]
  /\ code = [h \in Handler |-> NoCode]
  /\ who = [h \in Handler |-> NoMember]
  /\ owed = {}
  /\ granted = {}
  /\ term = [c \in Code |-> 0]
  /\ overtaken = {}

Start(h, c, m, step) ==
  /\ pc[h] = "idle"
  /\ pc' = [pc EXCEPT ![h] = step]
  /\ code' = [code EXCEPT ![h] = c]
  /\ who' = [who EXCEPT ![h] = m]

Finish(h, from) ==
  /\ pc[h] = from
  /\ pc' = [pc EXCEPT ![h] = "idle"]
  /\ code' = [code EXCEPT ![h] = NoCode]
  /\ who' = [who EXCEPT ![h] = NoMember]

\* The rooms with a code in dead are removed from the map.
Remove(dead) ==
  /\ rooms' = rooms \ dead
  /\ members' = [c \in Code |-> IF c \in dead THEN {} ELSE members[c]]
  /\ expires_at' = [c \in Code |-> IF c \in dead THEN 0 ELSE expires_at[c]]

\* Somebody has found the room c empty or expired and will remove it next.
Doomed(c) == \E h \in Handler : pc[h] = "remove" /\ code[h] = c

-----------------------------------------------------------------------------
\* A room that happens to have the same code is replaced with its members.
create_room(c) ==
  /\ rooms' = rooms \cup {c}
  /\ members' = [members EXCEPT ![c] = {}]
  /\ expires_at' = [expires_at EXCEPT ![c] = now + Ttl]
  /\ owed' = owed \cup {c}
  /\ granted' = {g \in granted : g[1] # c}
  /\ term' = [term EXCEPT ![c] = now + Ttl]
  /\ overtaken' = IF Doomed(c) THEN overtaken \cup {c} ELSE overtaken \ {c}
  /\ UNCHANGED <<now, requests>>

\* Mutant of Expired: a room with members is never collected.
ExpiredAndEmpty == {c \in rooms : members[c] = {} /\ expires_at[c] <= now}

\* What gc_rooms does not retain.
Expired == {c \in rooms : expires_at[c] <= now}

\* The background task, the health check and get_room.
gc_rooms ==
  /\ Expired # {}
  /\ Remove(Expired)
  /\ UNCHANGED <<now, requests, history>>

\* join_room begins with a collection of its own.
JoinCollect(h, c, m) ==
  /\ Start(h, c, m, "join")
  /\ Remove(Expired)
  /\ UNCHANGED <<now, history>>

\* Mutant of HasPlace: one member too many.
HasPlaceForOneMore(c) == Cardinality(members[c]) <= MaxMembers

HasPlace(c) == Cardinality(members[c]) < MaxMembers

\* No room has the code, or it has no place left, not even for a member.
JoinRefused(h) ==
  /\ Finish(h, "join")
  /\ \/ code[h] \notin rooms
     \/ /\ expires_at[code[h]] >= now
        /\ ~HasPlace(code[h])
  /\ UNCHANGED <<now, registry, history>>

\* The room's time has run out since the collection: its guard is dropped
\* before the room is removed.
JoinExpired(h) ==
  /\ pc[h] = "join"
  /\ code[h] \in rooms
  /\ expires_at[code[h]] < now
  /\ pc' = [pc EXCEPT ![h] = "remove"]
  /\ UNCHANGED <<now, registry, code, who, history>>

JoinAdmitted(h) ==
  LET c == code[h] IN
  /\ c \in rooms
  /\ expires_at[c] >= now
  /\ HasPlace(c)
  /\ Finish(h, "join")
  /\ members' = [members EXCEPT ![c] = @ \cup {who[h]}]
  /\ granted' = granted \cup {<<c, who[h]>>}
  /\ owed' = owed \cup {c}
  /\ overtaken' = IF Doomed(c) THEN overtaken \cup {c} ELSE overtaken
  /\ UNCHANGED <<now, rooms, expires_at, term>>

\* Mutant of LeftEmpty: the members are counted before m is taken out.
LeftEmptyBefore(c, m) == Cardinality(members[c]) <= 1

LeftEmpty(c, m) == members[c] \ {m} = {}

\* leave_room up to the drop of its guard, whoever m is: a room that nobody
\* has joined yet counts as left empty.
LeaveMember(h, c, m) ==
  /\ c \in rooms
  /\ pc[h] = "idle"
  /\ members' = [members EXCEPT ![c] = @ \ {m}]
  /\ granted' = granted \ {<<c, m>>}
  /\ IF LeftEmpty(c, m)
     THEN Start(h, c, m, "remove")
     ELSE UNCHANGED requests
  /\ owed' = IF members'[c] = {} THEN owed \ {c} ELSE owed
  /\ UNCHANGED <<now, rooms, expires_at, term, overtaken>>

\* The room that has the code by now is removed.
RemoveRoom(h) ==
  /\ Finish(h, "remove")
  /\ Remove({code[h]})
  /\ UNCHANGED <<now, history>>

-----------------------------------------------------------------------------
Tick ==
  /\ now < MaxTime
  /\ now' = now + 1
  /\ UNCHANGED <<registry, requests, history>>

\* Rooms live in memory only.
Restart ==
  /\ rooms' = {}
  /\ members' = [c \in Code |-> {}]
  /\ expires_at' = [c \in Code |-> 0]
  /\ pc' = [h \in Handler |-> "idle"]
  /\ code' = [h \in Handler |-> NoCode]
  /\ who' = [h \in Handler |-> NoMember]
  /\ owed' = {}
  /\ granted' = {}
  /\ term' = [c \in Code |-> 0]
  /\ overtaken' = {}
  /\ UNCHANGED now

Request(h) ==
  \/ \E c \in Code, m \in Member : JoinCollect(h, c, m) \/ LeaveMember(h, c, m)
  \/ JoinRefused(h)
  \/ JoinExpired(h)
  \/ JoinAdmitted(h)
  \/ RemoveRoom(h)

Next ==
  \/ \E c \in Code : create_room(c)
  \/ gc_rooms
  \/ \E h \in Handler : Request(h)
  \/ Tick
  \/ Restart

Spec == Init /\ [][Next]_vars

\* The background task calls gc_rooms every 30 seconds.
FairSpec == Spec /\ WF_vars(gc_rooms)

-----------------------------------------------------------------------------
(* Properties *)

\* A code that was answered by create_room leads to its room, and a member
\* whose join was answered is in it, until the room's time is over, the code
\* is drawn again or the last member leaves: other requests that come and go,
\* and failed joins, take nothing away.  The exception is a code that was
\* given out or joined while another request stood between finding the room
\* empty or expired and removing it (create_room, join_room, leave_room).
AnsweredRoomStays ==
  \A c \in owed \ overtaken : now < term[c] =>
    /\ c \in rooms
    /\ \A m \in Member : <<c, m>> \in granted => m \in members[c]

\* A room whose time is over is taken out of the map, with or without members
\* and whether or not anybody asks for it (gc_rooms, main).
ExpiredIsCollected ==
  \A c \in Code :
    (c \in rooms /\ expires_at[c] <= now)
      ~> (c \notin rooms \/ expires_at[c] > now)

=============================================================================
