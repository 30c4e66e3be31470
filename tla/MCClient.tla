------------------------------ MODULE MCClient ------------------------------
(* Instances of Client for TLC. *)
EXTENDS Client

Both == {"exec", "shell"}
Exec == {"exec"}

\* What an OpenSSH server may send in a session without using a feature the
\* client lacks.
EverydayNoise == {"banner", "ignore", "global", "global_wants_reply", "window_adjust"}
OpeningRefusals == {"userauth_request", "channel_open", "pty_req"}
OnlyStderr == {"extended_data"}
ExecRefusal == {"exec"}
None == {}
=============================================================================
