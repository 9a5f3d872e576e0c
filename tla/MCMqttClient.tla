---------------------------- MODULE MCMqttClient ----------------------------
(***************************************************************************)
(* MqttClient with the bursts of its publishers for TLC.  One event of     *)
(* each is enough to fill a queue of one place before an answer, and to    *)
(* find it full themselves.                                                *)
(***************************************************************************)
EXTENDS MqttClient

Shortest == [p \in Publishers |-> 1]
=============================================================================
