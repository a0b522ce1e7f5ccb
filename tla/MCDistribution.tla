--------------------------- MODULE MCDistribution ---------------------------
(* Distribution on small instances. *)
EXTENDS Distribution, TLC

CONSTANT Hung   \* clients that accept a connection and never answer

\* Clients are interchangeable, and so are handlers.
Symmetry ==
  Permutations(Client) \cup Permutations(Handler) \cup Permutations(Key)

\* What the run with two handlers tells states apart by: no guard reads approved
\* or paste_records, and of its properties only the types mention them.
View == <<now, up, memory, database, locals, ack, ack_key, contended, tasks>>

\* Bound of the run with two handlers: one client at a time pairs, is removed
\* or sends heartbeats, while the others rest in whatever state that left them;
\* two requests that pair or remove the same client do not go on from there.
OneClientAtATime ==
  /\ \A c \in Client : ~contended[c]
  /\ \E c \in Client : \A d \in Client \ {c} :
       /\ \A h \in Handler : who[h] # d
       /\ pending_key_exchanges[d] = NoExchange

\* All clients are paired and have sent a heartbeat; a state of DistSpec.
AllPaired ==
  /\ now = 0
  /\ up = TRUE
  /\ pairing_token = NoToken
  /\ pending_key_exchanges = [c \in Client |-> NoExchange]
  /\ clients = Client
  /\ client_crypt_keys \in [Client -> Key]
  /\ client_sync_infos \in [Client -> Info]
  /\ db_key = client_crypt_keys
  /\ db_info = client_sync_infos
  /\ pc = [h \in Handler |-> "idle"]
  /\ who = [h \in Handler |-> NoClient]
  /\ key = [h \in Handler |-> NoKey]
  /\ info = [h \in Handler |-> NoInfo]
  /\ ack = [c \in Client |-> "paired"]
  /\ ack_key = client_crypt_keys
  /\ contended = [c \in Client |-> FALSE]
  /\ approved = [c \in Client |-> {client_crypt_keys[c]}]
  /\ NoTasks
  /\ paste_records = [p \in Paste |-> NoClient]

\* The behaviours in which pairings rest and only pastes are distributed.  The
\* runtime polls every task; a client that is not hung answers or fails.
Calm ==
  /\ AllPaired
  /\ [][\E t \in Task : Distribute(t)]_dvars
  /\ \A t \in Task :
       /\ WF_dvars(TaskStep(t))
       /\ WF_dvars(current[t] \notin Hung /\ ClientAnswers(t))

\* README, connection flow, step 6: the server passes a paste on to the other
\* paired clients.  A distribution comes to its end, a source whose chunks or
\* icon cannot be had and targets without a host or a key do not hold it up;
\* it can stop for ever only at a client, the source or a target, that takes
\* the connection and never answers: no request has a time limit (sync_paste,
\* cache_pull_file_from_client, cache_icon_from_client, broadcast_paste).
DistributionsEnd ==
  \A t \in Task :
    stage[t] # "idle" ~> stage[t] = "idle" \/ current[t] \in Hung

=============================================================================
