------------------------------ MODULE MCTunnel ------------------------------
(* Tunnel on small instances. *)
EXTENDS Tunnel, TLC

\* Devices, sockets and requests are interchangeable.
Symmetry == Permutations(Device) \cup Permutations(Socket)
              \cup Permutations(Request)

=============================================================================
