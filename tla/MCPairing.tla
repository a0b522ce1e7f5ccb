----------------------------- MODULE MCPairing -----------------------------
(* Pairing on small instances. *)
EXTENDS Pairing, TLC

\* Clients, keys, infos and handlers are interchangeable.
Symmetry == Permutations(Client) \cup Permutations(Key)
              \cup Permutations(Info) \cup Permutations(Handler)

=============================================================================
