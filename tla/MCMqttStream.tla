---------------------------- MODULE MCMqttStream ----------------------------
(* An empty message and two longer ones, whose bytes all look like lengths, *)
(* and a buffer the longest just fits.                                      *)
EXTENDS MqttStream

MCByte == 0..3
MCMessage == {<<1, 0>>, <<0, 1, 2>>, <<3, 3, 1, 0, 2>>}
=============================================================================
