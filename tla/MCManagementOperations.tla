------------------------ MODULE MCManagementOperations ------------------------
(* Instances of ManagementOperations for TLC.                              *)
EXTENDS ManagementOperations

MCProps == <<"ServerName", "PortNumber">>
=============================================================================
