--------------------------- MODULE MCCodexWebSocket ---------------------------
(* Two flows, limits that a third message or a fourth byte reaches.            *)
EXTENDS CodexWebSocket
=============================================================================
