--------------------------- MODULE MCPushMessages ---------------------------
(* PushMessages for TLC. *)
EXTENDS PushMessages, TLC

CONSTANTS h1, h2, d1, d2

MCMaxLost == [d \in Devices |-> IF d = d1 THEN 1 ELSE 0]
=============================================================================
