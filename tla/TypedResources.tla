--------------------------- MODULE TypedResources ---------------------------
(***************************************************************************)
(* The owned handles of the typed API (Context, DeviceMemory, Stream,      *)
(* Event, Module, Function) on one thread.  They are neither Send nor      *)
(* Sync, so a thread's handles are its own, but the vendor's current       *)
(* context is ambient state of that thread which any other context, the    *)
(* raw tables or another library may have changed between two calls.  Each *)
(* method therefore makes its context current first, and a destructor that *)
(* cannot leaks rather than free through a stranger's context.             *)
(***************************************************************************)
EXTENDS Naturals

CONSTANTS
    Contexts,    \* variables that may hold a Context
    Resources,   \* variables that may hold another handle
    Kind,        \* Kind[r]: which kind of handle r may hold
    Sizes,       \* byte counts: allocations and host slices
    Missing,     \* optional operations whose entry the vendor table lacks
    NoContext,   \* no context
    Foreign,     \* a context that no Context object owns: ocgpu did not create
                 \* it, or its destruction failed
    NoCall       \* the method returned without a vendor call of its own

Kinds == {"memory", "stream", "event", "module", "function"}

\* Methods that use one handle besides the host copies, and two handles.
OneHandleOps ==
    [k \in Kinds |-> CASE k = "stream" -> {"stream_query", "stream_synchronize"}
                       [] k = "event" -> {"event_query", "event_synchronize"}
                       [] OTHER -> {}]
TwoHandleOps ==
    [wait_event |-> <<"stream", "event">>, record |-> <<"event", "stream">>,
     elapsed_time |-> <<"event", "event">>, launch |-> <<"function", "stream">>]
OptionalOps == {"memory_info", "stream_query", "event_query", "copy_from_device",
                "wait_event", "elapsed_time"}

ASSUME ResourceAssumption ==
    /\ Kind \in [Resources -> Kinds]
    /\ Sizes \subseteq Nat
    /\ Missing \subseteq OptionalOps
    /\ NoContext \notin Contexts
    /\ Foreign \notin Contexts
    /\ NoContext # Foreign
    /\ NoCall \notin [context : Contexts, used : SUBSET Resources,
                      owners : SUBSET Contexts, bytes : Nat]
    /\ NoCall \notin [context : Contexts, objects : SUBSET Resources]

VARIABLES
    open,      \* the contexts that exist as Context objects
    current,   \* the vendor's current context on this thread
    home,      \* home[r]: the context of the handle in r, NoContext if r is empty
    parent,    \* parent[r]: the module a Function in r borrows, else r itself
    bytes,     \* bytes[r]: the length of the allocation in r
    alive,     \* alive[r]: the context holding r's vendor object, or NoContext
    called,    \* the vendor call the latest method made, or NoCall
    error      \* the error it returned or, a destructor, ignored

vars == <<open, current, home, parent, bytes, alive, called, error>>
handles == <<open, home, parent, bytes, alive>>

Errors == {"None", "InvalidArgument", "SymbolUnavailable", "SetCurrent",
           "Vendor", "NullHandle"}

Init ==
    /\ open = {}
    /\ current \in {NoContext, Foreign}
    /\ home = [r \in Resources |-> NoContext]
    /\ parent = [r \in Resources |-> r]
    /\ bytes = [r \in Resources |-> 0]
    /\ alive = [r \in Resources |-> NoContext]
    /\ called = NoCall
    /\ error = "None"

-----------------------------------------------------------------------------
(* What the methods share.                                                 *)

Held(r) == home[r] # NoContext

\* A method that returns before it reaches the vendor.
Refuse(e) ==
    /\ error' = e
    /\ called' = NoCall
    /\ UNCHANGED <<current, handles>>

\* make_current fails: the method returns its error, the context stays.
NotRestored == Refuse("SetCurrent")

\* make_current succeeds and the vendor is called with the handles of used.
CallIn(c, used, n) ==
    /\ current' = c
    /\ called' = [context |-> c, used |-> used, owners |-> {home[r] : r \in used},
                  bytes |-> n]

Call(c, used, n) ==
    /\ CallIn(c, used, n)
    /\ error' \in {"None", "Vendor"}
    /\ UNCHANGED handles

-----------------------------------------------------------------------------
(* Contexts.                                                               *)

\* Nothing is owned when ctx_create fails or leaves a null handle.
CreateContextFails(c) ==
    /\ c \notin open
    /\ \E e \in {"Vendor", "NullHandle"} : Refuse(e)

\* The vendor makes a context it creates current.
CreateContext(c) ==
    /\ c \notin open
    /\ open' = open \cup {c}
    /\ current' = c
    /\ called' = NoCall
    /\ error' = "None"
    /\ UNCHANGED <<home, parent, bytes, alive>>

MakeCurrent(c) ==
    /\ c \in open
    /\ \/ NotRestored
       \/ /\ current' = c /\ called' = NoCall /\ error' = "None"
          /\ UNCHANGED handles

\* Code outside the typed API sets another context, or none, on this thread.
Elsewhere ==
    /\ current' \in open \cup {NoContext, Foreign}
    /\ called' = NoCall
    /\ error' = "None"
    /\ UNCHANGED handles

\* synchronize and memory_info.
UseContext(c) ==
    /\ c \in open
    /\ \E o \in {"ctx_synchronize", "memory_info"} :
        IF o \in Missing THEN Refuse("SymbolUnavailable")
        ELSE NotRestored \/ Call(c, {}, 0)

\* Mutant: handles keep the raw context instead of borrowing the Context.
UnborrowedNever(c) == TRUE

\* Every handle borrows its Context, so none is left when the Context drops.
Unborrowed(c) == \A r \in Resources : home[r] # c

\* What was leaked in context c goes with it, or stays in a context lost.
Leave(c, after) ==
    alive' = [r \in Resources |-> IF alive[r] = c THEN after ELSE alive[r]]

\* The result of ctx_destroy is ignored.  What a context that ends leaves current
\* is the vendor's affair; one that does not end is nobody's from then on.
DropContext(c) ==
    /\ c \in open
    /\ Unborrowed(c)
    /\ open' = open \ {c}
    /\ \/ /\ current' \in IF current = c THEN (open \ {c}) \cup {NoContext, Foreign}
                           ELSE {current}
          /\ Leave(c, NoContext)
          /\ error' \in {"None", "Vendor"}
       \/ /\ current' = IF current = c THEN Foreign ELSE current
          /\ Leave(c, Foreign)
          /\ error' = "Vendor"
    /\ called' = NoCall
    /\ UNCHANGED <<home, parent, bytes>>

-----------------------------------------------------------------------------
(* Creating handles.                                                       *)

\* allocate, create_stream, create_event, load_module_data and, in the context
\* of a module m, function.
Obtain(r, c, m, n) ==
    \/ /\ Kind[r] \in {"memory", "module"}  \* no bytes, or a null image
       /\ Refuse("InvalidArgument")
    \/ NotRestored
    \/ /\ CallIn(c, IF m = r THEN {} ELSE {m}, 0)
       /\ \/ /\ error' \in {"Vendor", "NullHandle"}
             /\ UNCHANGED handles
          \/ /\ error' = "None"
             /\ home' = [home EXCEPT ![r] = c]
             /\ parent' = [parent EXCEPT ![r] = m]
             /\ bytes' = [bytes EXCEPT ![r] = n]
             /\ alive' = [alive EXCEPT ![r] = c]
             /\ UNCHANGED open

Create(r) ==
    /\ ~Held(r)
    /\ \/ /\ Kind[r] = "memory"
          /\ \E c \in open, n \in Sizes \ {0} : Obtain(r, c, r, n)
       \/ /\ Kind[r] \in {"stream", "event", "module"}
          /\ \E c \in open : Obtain(r, c, r, 0)
       \/ /\ Kind[r] = "function"
          /\ \E m \in Resources :
                 Held(m) /\ Kind[m] = "module" /\ Obtain(r, home[m], m, 0)

-----------------------------------------------------------------------------
(* Using handles.                                                          *)

\* Mutant: the symbol is looked for after the context was made current.
MissingLate(o, c) ==
    /\ o \in Missing
    /\ current' = c
    /\ called' = NoCall
    /\ error' = "SymbolUnavailable"
    /\ UNCHANGED handles

MissingEntry(o, c) == o \in Missing /\ Refuse("SymbolUnavailable")

\* Mutant: the vendor is called in whatever context is current.
PerformAnywhere(o, c, used, n) ==
    \/ MissingEntry(o, c)
    \/ o \notin Missing /\ current # NoContext /\ Call(current, used, n)

\* An entry the vendor lacks is reported before the context is touched.
Perform(o, c, used, n) ==
    \/ MissingEntry(o, c)
    \/ o \notin Missing /\ (NotRestored \/ Call(c, used, n))

\* Mutant: the length check is off by one.
FitsLoosely(r, n) == n <= bytes[r] + 1

Fits(r, n) == n <= bytes[r]

\* copy_from and copy_to, with a slice of n bytes.
CopyHost(r) ==
    /\ Held(r)
    /\ Kind[r] = "memory"
    /\ \E n \in Sizes :
        \/ ~Fits(r, n) /\ Refuse("InvalidArgument")
        \/ n = 0 /\ Refuse("None")
        \/ Fits(r, n) /\ n > 0 /\ Perform("copy", home[r], {r}, n)

UseOne(r) ==
    /\ Held(r)
    /\ \E o \in OneHandleOps[Kind[r]] : Perform(o, home[r], {r}, 0)

SameContext(r, s) == home[r] = home[s]

CopyDevice(r, s) ==
    /\ Held(r) /\ Held(s)
    /\ Kind[r] = "memory" /\ Kind[s] = "memory"
    /\ \/ ~SameContext(r, s) /\ Refuse("InvalidArgument")
       \/ SameContext(r, s) /\ ~Fits(r, bytes[s]) /\ Refuse("InvalidArgument")
       \/ r = s /\ Refuse("None")
       \/ /\ SameContext(r, s) /\ Fits(r, bytes[s]) /\ r # s
          /\ Perform("copy_from_device", home[r], {r, s}, bytes[s])

\* wait_event, record, elapsed_time and launch on a stream.
UseTwo(r, s) ==
    /\ Held(r) /\ Held(s)
    /\ \E o \in DOMAIN TwoHandleOps :
        /\ TwoHandleOps[o] = <<Kind[r], Kind[s]>>
        /\ \/ ~SameContext(r, s) /\ Refuse("InvalidArgument")
           \/ SameContext(r, s) /\ Perform(o, home[r], {r, s}, 0)

\* A launch with a zero dimension, and a launch without a stream.
Launch(r) ==
    /\ Held(r)
    /\ Kind[r] = "function"
    /\ Refuse("InvalidArgument") \/ Perform("launch", home[r], {r}, 0)

-----------------------------------------------------------------------------
(* Dropping handles.                                                       *)

Forget(r) ==
    /\ home' = [home EXCEPT ![r] = NoContext]
    /\ parent' = [parent EXCEPT ![r] = r]
    /\ bytes' = [bytes EXCEPT ![r] = 0]
    /\ UNCHANGED open

\* Mutant: the vendor object is freed even if its context was not restored.
DropUnrestored(r) ==
    /\ Held(r)
    /\ Kind[r] # "function"
    /\ \A f \in Resources \ {r} : parent[f] # r
    /\ Forget(r)
    /\ alive' = [alive EXCEPT ![r] = NoContext]
    /\ current' \in {current, home[r]}
    /\ called' = [context |-> current', used |-> {r}, owners |-> {home[r]}, bytes |-> 0]
    /\ error' = "None"

\* Mutant: the object is freed only if its context happens to be current.
DropIfCurrent(r) ==
    /\ Held(r)
    /\ Kind[r] # "function"
    /\ \A f \in Resources \ {r} : parent[f] # r
    /\ Forget(r)
    /\ UNCHANGED error
    /\ IF current = home[r]
       THEN /\ CallIn(home[r], {r}, 0)
            /\ alive' = [alive EXCEPT ![r] = NoContext]
       ELSE called' = NoCall /\ UNCHANGED <<current, alive>>

\* The vendor is asked once to free the object, and only in its own context.  The
\* result is ignored: a call that fails may have kept the object.
Drop(r) ==
    /\ Held(r)
    /\ Kind[r] # "function"
    /\ \A f \in Resources \ {r} : parent[f] # r
    /\ Forget(r)
    /\ \/ /\ CallIn(home[r], {r}, 0)
          /\ \/ /\ alive' = [alive EXCEPT ![r] = NoContext]
                /\ error' \in {"None", "Vendor"}
             \/ UNCHANGED alive /\ error' = "Vendor"
       \/ /\ called' = NoCall
          /\ error' = "SetCurrent"
          /\ UNCHANGED <<current, alive>>

\* A Function owns nothing: the vendor's function ends with its module.
DropFunction(r) ==
    /\ Held(r)
    /\ Kind[r] = "function"
    /\ Forget(r)
    /\ alive' = [alive EXCEPT ![r] = NoContext]
    /\ called' = NoCall
    /\ error' = "None"
    /\ UNCHANGED current

-----------------------------------------------------------------------------

Next ==
    \/ Elsewhere
    \/ \E c \in Contexts :
        \/ CreateContextFails(c) \/ CreateContext(c) \/ MakeCurrent(c)
        \/ UseContext(c) \/ DropContext(c)
    \/ \E r \in Resources :
        \/ Create(r) \/ CopyHost(r) \/ UseOne(r) \/ Launch(r)
        \/ Drop(r) \/ DropFunction(r)
        \/ \E s \in Resources : CopyDevice(r, s) \/ UseTwo(r, s)

Spec == Init /\ [][Next]_vars

-----------------------------------------------------------------------------
(* Properties.                                                             *)

\* Every variable stays in its domain.
TypeOK ==
    /\ open \subseteq Contexts
    /\ current \in Contexts \cup {NoContext, Foreign}
    /\ home \in [Resources -> Contexts \cup {NoContext}]
    /\ parent \in [Resources -> Resources]
    /\ bytes \in [Resources -> Nat]
    /\ alive \in [Resources -> Contexts \cup {NoContext, Foreign}]
    /\ called \in [context : Contexts, used : SUBSET Resources,
                   owners : SUBSET Contexts, bytes : Nat] \cup {NoCall}
    /\ error \in Errors

\* A handle that exists names a vendor object that exists, in an open context,
\* and a Function's module is still there.
NoDanglingHandle ==
    \A r \in Resources : Held(r) =>
        /\ home[r] \in open
        /\ alive[r] = home[r]
        /\ home[parent[r]] = home[r]

\* Whatever made another context current in between, the vendor is called in
\* the context that owns every handle of the call, destructors included.
CalledInOwnContext ==
    called # NoCall => called.context = current /\ called.owners \subseteq {current}

\* No copy runs past the end of an allocation it reads or writes.
CopiesFit ==
    called # NoCall =>
        \A r \in called.used : Held(r) /\ Kind[r] = "memory" => called.bytes <= bytes[r]

\* A vendor object ends with its handle or, if the vendor refused its context or
\* the call that was to free it, is leaked; and then no destructor of another
\* handle ends it, only the end of its context.
LeaksOnlyRefused ==
    [][\A r \in Resources :
           /\ Held(r) /\ ~Held(r)' =>
                  \/ alive'[r] = NoContext
                  \/ error' = "SetCurrent"
                  \/ error' = "Vendor" /\ called' # NoCall /\ called'.used = {r}
           /\ alive[r] # NoContext /\ alive'[r] = NoContext =>
                  ~Held(r)' /\ (Held(r) \/ alive[r] \notin open')]_vars

\* A method that refuses its arguments, or finds its entry missing, leaves the
\* thread's current context as it was.
RefusalsDoNotSwitch ==
    [][error' \in {"InvalidArgument", "SymbolUnavailable"} => current' = current]_vars

\* However handles of several contexts are used and dropped, and whatever else the
\* thread does in between, the vendor is only asked about objects that live in the
\* context then current, and ends each there or with its context, if it does.
Vendor == INSTANCE VendorDriver WITH
    Objects <- Resources,
    contexts <- open,
    living <- alive,
    origin <- parent,
    asked <- IF called = NoCall THEN NoCall
             ELSE [context |-> called.context, objects |-> called.used]
KeepsVendorRules == Vendor!Spec

=============================================================================
