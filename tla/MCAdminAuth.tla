---------------------------- MODULE MCAdminAuth ----------------------------
(* AdminAuth on small instances. *)
EXTENDS AdminAuth, TLC

\* Sessions, secrets, handlers and the passwords but the default are
\* interchangeable.
Symmetry == Permutations(Session) \cup Permutations(Secret)
              \cup Permutations(Handler) \cup Permutations(Password \ {Default})

=============================================================================
