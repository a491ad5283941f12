-------------------------- MODULE MCMqttPublisher --------------------------
EXTENDS MqttPublisher
=============================================================================
