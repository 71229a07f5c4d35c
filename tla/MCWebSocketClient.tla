------------------------- MODULE MCWebSocketClient --------------------------
(* Small instances of WebSocketClient.                                      *)
EXTENDS WebSocketClient
=============================================================================
