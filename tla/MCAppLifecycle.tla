--------------------------- MODULE MCAppLifecycle ---------------------------
(* Instances of AppLifecycle for TLC.                                      *)
EXTENDS AppLifecycle

CONSTANTS s1, s2, p1, p2, r1, r2
=============================================================================
