---------------------------- MODULE MCServerSetup ----------------------------
(* Instances of ServerSetup for TLC.                                       *)
EXTENDS ServerSetup

MCProps == <<"ServerName", "PortNumber">>
MCPlainDs == <<"plain", "nonjta">>
MCXaDs == <<"xa", "xa2">>
MCNames == {"plain", "nonjta", "xa", "xa2"}
=============================================================================
