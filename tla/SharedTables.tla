---------------------------- MODULE SharedTables ----------------------------
(***************************************************************************)
(* What the C interface promises of its tables, without once-cells and     *)
(* adapters: of each library it becomes known, once and for the process,   *)
(* which functions a layer's tables have, or that there are none; a table  *)
(* that is validated is the one below it, complete; and a caller is shown, *)
(* within the room it has, exactly what became known.                      *)
(***************************************************************************)
EXTENDS Naturals, Sequences

CONSTANTS
    Threads, Kinds, Layer, Library, Entries, Required, MaxWords, NoRequest

VARIABLES
    fact,     \* fact[l][b]: what is known of layer l of library b
    request,  \* request[t]: what t asks, or NoRequest
    view      \* view[t]: the words t is shown: "null", "callable", ...

vars == <<fact, request, view>>

Libraries == {Library[k] : k \in Kinds}
FunctionsOf(b) ==
    UNION {{Entries[k][i] : i \in DOMAIN Entries[k]} : k \in {j \in Kinds : Library[j] = b}}

Unset == [state |-> "unset", present |-> {}]
Failed == [state |-> "failed", present |-> {}]
Ready(S) == [state |-> "ready", present |-> S]

Blank == [i \in 1..MaxWords |-> "untouched"]

Init ==
    /\ fact = [l \in {"api", "core", "rtc"} |-> [b \in Libraries |-> Unset]]
    /\ request = [t \in Threads |-> NoRequest]
    /\ view = [t \in Threads |-> Blank]

\* A layer of b whose tables lack no required function.
Has(b, l, S) ==
    \A k \in Kinds : Library[k] = b /\ Layer[k] = l =>
        \A i \in DOMAIN Entries[k] : Entries[k][i] \in Required => Entries[k][i] \in S

\* What may become known: a driver's table has any of its functions, a compiler's
\* has the required ones, and a validated table is the driver's or none.
Verdicts(l, b) ==
    CASE l = "api"  -> {Failed} \cup {Ready(S) : S \in SUBSET FunctionsOf(b)}
      [] l = "rtc"  -> {Failed} \cup {Ready(S) : S \in {F \in SUBSET FunctionsOf(b) : Has(b, l, F)}}
      [] l = "core" -> LET below == fact["api"][b] IN
                       IF below = Unset THEN {}
                       ELSE IF below.state = "ready" /\ Has(b, l, below.present)
                            THEN {below} ELSE {Failed}

Decide(l, b) ==
    /\ fact[l][b] = Unset
    /\ \E v \in Verdicts(l, b) : fact' = [fact EXCEPT ![l][b] = v]
    /\ UNCHANGED <<request, view>>

\* A request that is valid; another leaves no trace.
Ask(t) ==
    /\ request[t] = NoRequest
    /\ \E k \in Kinds, room \in 1..MaxWords :
           request' = [request EXCEPT ![t] =
               [kind |-> k, abi |-> TRUE, null |-> FALSE, room |-> room]]
    /\ UNCHANGED <<fact, view>>

Shown(k, S, i) ==
    IF i = 1 THEN "meta" ELSE IF Entries[k][i - 1] \in S THEN "callable" ELSE "null"

\* What is known is shown, if it is a table: the words there are and there is room
\* for, and no other.
Show(t) ==
    /\ request[t] # NoRequest
    /\ LET k == request[t].kind
           known == fact[Layer[k]][Library[k]]
       IN  /\ known.state = "ready"
           /\ view' = [view EXCEPT ![t] =
                  [i \in 1..MaxWords |->
                      IF i <= request[t].room /\ i <= Len(Entries[k]) + 1
                      THEN Shown(k, known.present, i) ELSE "untouched"]]
    /\ UNCHANGED <<fact, request>>

\* The caller is done; its words go with its request.
Finish(t) ==
    /\ request[t] # NoRequest
    /\ request' = [request EXCEPT ![t] = NoRequest]
    /\ view' = [view EXCEPT ![t] = Blank]
    /\ UNCHANGED fact

Next ==
    \/ \E l \in {"api", "core", "rtc"}, b \in Libraries : Decide(l, b)
    \/ \E t \in Threads : Ask(t) \/ Show(t) \/ Finish(t)

Spec == Init /\ [][Next]_vars

=============================================================================
