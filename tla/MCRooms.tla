------------------------------ MODULE MCRooms -------------------------------
(* Rooms on a small instance. *)
EXTENDS Rooms

=============================================================================
