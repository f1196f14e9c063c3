---------------------------- MODULE OneShotLoad ----------------------------
(***************************************************************************)
(* What loading promises (docs/assumptions.md, A-019): for each backend    *)
(* three facts become known, each at most once and each a consequence of   *)
(* the one below it - the library, the table built from it, the verdict of *)
(* validating that table - and every answer a thread ever gets is computed *)
(* from the facts and from what the thread asked.                          *)
(***************************************************************************)
EXTENDS LoadValues

VARIABLES
    value,   \* value[l][b]: the fact of layer l for backend b, or Unset
    answer   \* answer[t]: the last answer of thread t with its call, or NoAnswer

vars == <<value, answer>>

Init ==
    /\ value = [l \in Layers |-> [b \in Backends |-> Unset]]
    /\ answer = [t \in Threads |-> NoAnswer]

Decided(l, b) == value[l][b] # Unset

\* What the library of b may turn out to be: any file the default search can
\* reach, all its candidates refused, or the one explicit path named first.
LibraryOutcomes(b) ==
    {Loaded(p) : p \in DefaultPaths \cup {Canonical(f) : f \in Files}}
    \cup {Unopened(<<Canonical(f)>>) : f \in Files}
    \cup {IF Candidates[b] = <<>> THEN Failed("UnsupportedPlatform")
          ELSE Unopened(Candidates[b])}

Outcomes(l, b) ==
    CASE l = "slot" -> LibraryOutcomes(b)
      [] l = "api"  -> Judge(value["slot"][b], "BadApi")
      [] l = "core" -> Judge(value["api"][b], "MissingCore")

Below(l) == CASE l = "slot" -> {} [] l = "api" -> {"slot"} [] l = "core" -> {"api"}

Decide(l, b) ==
    /\ ~Decided(l, b)
    /\ \A k \in Below(l) : Decided(k, b)
    /\ \E r \in Outcomes(l, b) : value' = [value EXCEPT ![l][b] = r]
    /\ UNCHANGED answer

Ready(c) == Decided(Top(c), c.backend) /\ Ok(value[Top(c)][c.backend])

\* An explicit call of another library than the backend's one is refused.
Refused(c) ==
    /\ Explicit(c)
    /\ Decided("slot", c.backend)
    /\ Ok(value["slot"][c.backend])
    /\ value["slot"][c.backend].path # Canonical(c.file)

\* A call may be answered from any failed layer it needs, the layers above
\* still unknown: a compiler or explicit load stops at the first failure.
Needs(c) == CASE Top(c) = "slot" -> {"slot"}
              [] Top(c) = "api"  -> {"slot", "api"}
              [] Top(c) = "core" -> Layers

FailuresFor(c) ==
    {value[l][c.backend] : l \in {k \in Needs(c) :
        Decided(k, c.backend) /\ ~Ok(value[k][c.backend])}}

\* Only the path check and a driver's own initialisation answer differently
\* from one call to the next; neither is kept.
Answers(c) ==
    LET top == value[Top(c)][c.backend]
    IN  (IF Explicit(c) THEN {Failed("InvalidExplicitPath")} ELSE {})
        \cup (IF Refused(c)
              THEN {Faulty(value["slot"][c.backend], "AlreadyInitialized")}
              ELSE FailuresFor(c)
                   \cup (IF Ready(c) THEN {top} ELSE {})
                   \cup (IF Ready(c) /\ c.want = "driver"
                         THEN {Faulty(top, "InitFailed")} ELSE {}))

Ask(t) ==
    /\ answer' = [answer EXCEPT ![t] = NoAnswer]
    /\ UNCHANGED value

Answer(t) ==
    /\ answer[t] = NoAnswer
    /\ \E c \in Calls : \E r \in Answers(c) :
           answer' = [answer EXCEPT ![t] = [call |-> c, result |-> r]]
    /\ UNCHANGED value

Next ==
    \/ \E l \in Layers, b \in Backends : Decide(l, b)
    \/ \E t \in Threads : Ask(t) \/ Answer(t)

Spec == Init /\ [][Next]_vars

=============================================================================
