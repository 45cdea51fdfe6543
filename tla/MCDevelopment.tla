--------------------------- MODULE MCDevelopment ---------------------------
(* Development with two configurations, two commands of an operator and one    *)
(* fault.                                                                      *)
EXTENDS Development
=============================================================================
