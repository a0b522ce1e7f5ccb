------------------------------ MODULE MCCodec -------------------------------
(* Codec on small inputs. *)
EXTENDS Codec

=============================================================================
