---------------------------- MODULE VendorDriver ----------------------------
(***************************************************************************)
(* The vendor driver as one thread of its callers has to treat it: objects *)
(* live in a context, a call may name only objects that live in the        *)
(* context that is current when it is made, and an object ends once, by a  *)
(* call made in its own context, with the module it was taken from, or     *)
(* with its context.  A call that is to end something may fail, and what   *)
(* it named lives on.  The current context is nobody's own: any code of    *)
(* the thread may change it between two calls.                             *)
(***************************************************************************)
CONSTANTS Contexts, Objects, NoContext, Foreign, NoCall

VARIABLES
    contexts,  \* the contexts the thread's callers own
    current,   \* the thread's current context
    living,    \* living[o]: the context o lives in, or NoContext
    origin,    \* origin[o]: the module o was taken from, else o itself
    asked      \* the latest call and the objects it named, or NoCall

vars == <<contexts, current, living, origin, asked>>

Init ==
    /\ contexts = {}
    /\ current \in {NoContext, Foreign}
    /\ living = [o \in Objects |-> NoContext]
    /\ origin = [o \in Objects |-> o]
    /\ asked = NoCall

\* A call that names the objects of used.
Ask(used) ==
    /\ current' \in contexts
    /\ \A o \in used : living[o] = current'
    /\ asked' = [context |-> current', objects |-> used]
    /\ UNCHANGED contexts

Use ==
    /\ asked' # NoCall
    /\ asked'.objects \subseteq Objects
    /\ Ask(asked'.objects)
    /\ UNCHANGED <<living, origin>>

\* A new object takes the name o; what had that name is never named again.
Make(o, m) ==
    /\ Ask({m} \ {o})
    /\ living' = [living EXCEPT ![o] = current']
    /\ origin' = [origin EXCEPT ![o] = m]

Free(o) ==
    /\ Ask({o})
    /\ living' = [x \in Objects |-> IF origin[x] = o THEN NoContext ELSE living[x]]
    /\ UNCHANGED origin

\* What was taken from a module needs no call to end.
Release(o) ==
    /\ origin[o] # o
    /\ living' = [living EXCEPT ![o] = NoContext]
    /\ origin' = [origin EXCEPT ![o] = o]
    /\ asked' = NoCall
    /\ UNCHANGED <<contexts, current>>

BeginContext(c) ==
    /\ c \notin contexts
    /\ contexts' = contexts \cup {c}
    /\ current' = c
    /\ asked' = NoCall
    /\ UNCHANGED <<living, origin>>

EndContext(c) ==
    /\ c \in contexts
    /\ contexts' = contexts \ {c}
    /\ current' \in contexts' \cup {NoContext, Foreign}
    /\ living' = [o \in Objects |-> IF living[o] = c THEN NoContext ELSE living[o]]
    /\ asked' = NoCall
    /\ UNCHANGED origin

\* A context that could not be ended goes on, with what lives in it, unowned.
LoseContext(c) ==
    /\ c \in contexts
    /\ contexts' = contexts \ {c}
    /\ current' = IF current = c THEN Foreign ELSE current
    /\ living' = [o \in Objects |-> IF living[o] = c THEN Foreign ELSE living[o]]
    /\ asked' = NoCall
    /\ UNCHANGED origin

\* The thread makes another context current, or does something else altogether.
Switch ==
    /\ current' \in contexts \cup {current, NoContext, Foreign}
    /\ asked' = NoCall
    /\ UNCHANGED <<contexts, living, origin>>

Next ==
    \/ Use \/ Switch
    \/ \E c \in Contexts : BeginContext(c) \/ EndContext(c) \/ LoseContext(c)
    \/ \E o \in Objects : Free(o) \/ Release(o) \/ \E m \in Objects : Make(o, m)

Spec == Init /\ [][Next]_vars

=============================================================================
