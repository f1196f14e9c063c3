--------------------------- MODULE VendorProgram ---------------------------
(***************************************************************************)
(* The vendor compiler as its caller has to treat it: what may be asked of *)
(* an nvrtcProgram or hiprtcProgram in which state.  A program begins when *)
(* the vendor hands it out, takes name expressions until it is first       *)
(* compiled, has results only after a compilation it accepted and until    *)
(* one it rejects, and nothing is asked of it once it was destroyed.       *)
(***************************************************************************)
CONSTANT Programs

VARIABLES
    phase,  \* phase[p]: the vendor program behind p, "none" if there is none
    asked   \* what the latest method asked of the vendor, or "nothing"

vars == <<phase, asked>>

Living == {"new", "built", "rejected"}

OutputCalls == {"code", "lowered", "native"}

Init ==
    /\ phase = [p \in Programs |-> "none"]
    /\ asked = "nothing"

Become(p, ph) == phase' = [phase EXCEPT ![p] = ph]

\* A method that ends before it reaches the vendor.
AskNothing ==
    /\ asked' = "nothing"
    /\ UNCHANGED phase

Begin(p) ==
    /\ phase[p] = "none"
    /\ asked' = "create"
    /\ Become(p, "new") \/ UNCHANGED phase

Name(p) ==
    /\ phase[p] = "new"
    /\ asked' = "name"
    /\ UNCHANGED phase

Compile(p) ==
    /\ phase[p] \in Living
    /\ asked' = "compile"
    /\ Become(p, "built") \/ Become(p, "rejected")

ReadLog(p) ==
    /\ phase[p] \in Living
    /\ asked' \in {"log", "log_with_limit"}
    /\ UNCHANGED phase

ReadOutput(p) ==
    /\ phase[p] = "built"
    /\ asked' \in OutputCalls
    /\ UNCHANGED phase

End(p) ==
    /\ phase[p] \in Living
    /\ asked' = "destroy"
    /\ Become(p, "none")

Next ==
    \/ AskNothing
    \/ \E p \in Programs :
        Begin(p) \/ Name(p) \/ Compile(p) \/ ReadLog(p) \/ ReadOutput(p) \/ End(p)

Spec == Init /\ [][Next]_vars

=============================================================================
