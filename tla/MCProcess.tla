----------------------------- MODULE MCProcess -----------------------------
(* Process on a handful of pids: idle, init, the shell and what it starts. *)
EXTENDS Process

CONSTANTS ok, failed
MCExitCodes == {ok, failed}
=============================================================================
