------------------------------ MODULE MCPipeline ------------------------------
(* Two events of one topic, one of which analytics cannot read, and a topic *)
(* without events, whose goroutine ends with the other; two publishers that *)
(* may share the table or take both rows in one batch; two faults on either *)
(* side of Kafka, so that an event can be repeated by both.                 *)
EXTENDS Pipeline, TLC

CONSTANTS e1, e2, k1

MCKeyOf == (e1 :> k1) @@ (e2 :> k1)
MCTopicOf == (e1 :> "clicked") @@ (e2 :> "clicked")
=============================================================================
