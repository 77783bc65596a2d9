----------------------------- MODULE MCStartup -----------------------------
EXTENDS Startup, TLC
(* Nothing, a setting that is refused, one that gives way, and both. *)
Settings == {{}, {"BIND_ADDRESS"}, {"CLEANUP_INTERVAL_MINS"},
             {"ALLOWED_ORIGINS", "PORT"}}
=============================================================================
