------------------------ MODULE MCSppProtoAsyncClient ------------------------
(* Three calls, the first and the last to one address; the second has two responses. *)
EXTENDS SppProtoAsyncClient

MCAddr == <<1, 2, 1>>
MCParts == <<1, 2, 1>>
================================================================================
