--------------------------- MODULE MCJdbcSession ----------------------------
(* Instances of JdbcSession for TLC.                                       *)
EXTENDS JdbcSession, TLC
=============================================================================
