-------------------------- MODULE MCMqttPublisher --------------------------
(* Small instances of MqttPublisher for TLC. *)
EXTENDS MqttPublisher
=============================================================================
