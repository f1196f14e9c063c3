------------------------------ MODULE FieldLog ------------------------------
(***************************************************************************)
(* What a versioned function table promises the callers compiled against  *)
(* it (docs/developer-guide.md, "Versioned tables are append-only"), as    *)
(* far as the manifest tool can keep it: the order of the fields it has is *)
(* never changed, and a new field comes behind every one of them.          *)
(*                                                                         *)
(* The table is the set of its fields and the pairs <<f, g>> where the     *)
(* field of f lies before the field of g.  A field may be withdrawn; those *)
(* behind it then move up, which is what TableSlots!FieldsNeverMove is     *)
(* about.                                                                  *)
(***************************************************************************)
CONSTANT Functions

VARIABLES
    fields,  \* the functions the table has a field for
    ahead    \* the pairs of them, the earlier field first

vars == <<fields, ahead>>

\* The pairs put the fields F in one line.
InLine(F, R) ==
    /\ R \subseteq F \X F
    /\ \A f, g \in F : f # g => (<<f, g>> \in R \/ <<g, f>> \in R)
    /\ \A f, g \in F : <<f, g>> \in R => <<g, f>> \notin R
    /\ \A f, g, h \in F : <<f, g>> \in R /\ <<g, h>> \in R => <<f, h>> \in R

Init == fields \subseteq Functions /\ InLine(fields, ahead)

Publish ==
    /\ fields' \subseteq Functions
    /\ InLine(fields', ahead')
    /\ \A f, g \in fields \cap fields' : <<f, g>> \in ahead <=> <<f, g>> \in ahead'
    /\ \A f \in fields \cap fields', g \in fields' \ fields : <<f, g>> \in ahead'

Next == Publish

Spec == Init /\ [][Next]_vars

=============================================================================
