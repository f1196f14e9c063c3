-------------------------- MODULE MCDefaultDriver ---------------------------
(* DefaultDriver for TLC.                                                   *)
EXTENDS DefaultDriver

CONSTANTS t1, t2

=============================================================================
