---------------------------- MODULE MCRtcProgram ----------------------------
(***************************************************************************)
(* One variable that holds a program at a time, three policies around the  *)
(* default one, and counts up to one more than the vendor's largest.       *)
(***************************************************************************)
EXTENDS RtcProgram

CONSTANTS p1, cubin, ltoir, bitcode

Policy(n) == [source |-> n, options |-> n, headers |-> n, log |-> n, code |-> n]

MCSizes == 0..3
MCPolicies == {Policy(0), Policy(1), Policy(3)}
MCDefault == Policy(1)
=============================================================================
