----------------------------- MODULE MCTransfer -----------------------------
(* Transfer on small instances. *)
EXTENDS Transfer, TLC

\* Files of a kind, chunks and handlers are interchangeable.
Symmetry == Permutations(Push) \cup Permutations(Pull)
              \cup Permutations(Chunk) \cup Permutations(Handler)

=============================================================================
