----------------------------- MODULE MCStartup ------------------------------
(* Startup on a small instance. *)
EXTENDS Startup, TLC

\* Updates of one row and of several, in and out of range.
MCUpdate ==
  { "log_retention_count" :> 1,
    "log_retention_count" :> 0,
    ("max_file_size_mb" :> 1) @@ ("limit_file_size" :> 1) @@ ("sync_file" :> 1),
    ("limit_file_size" :> 0) @@ ("log_retention_count" :> 2),
    ("clipboard_relay" :> 0) @@ ("sync_text" :> 0),
    ("clipboard_relay" :> 1) @@ ("max_file_size_mb" :> 3),
    ("clipboard_relay" :> 1) @@ ("sync_file" :> 0) }

=============================================================================
