---------------------------- MODULE MCJmsSession ----------------------------
(* Instances of JmsSession for TLC.                                        *)
EXTENDS JmsSession, TLC
=============================================================================
