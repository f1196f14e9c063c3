---------------------------- MODULE TableRequest ----------------------------
(***************************************************************************)
(* A C caller asks for a table: ocgpu-capi's ocgpuGetApi and its siblings, *)
(* down to the once-cells that build and validate the libraries.           *)
(*                                                                         *)
(* The caller names the bytes it has room for and is given that prefix of  *)
(* the table.  Some entries of a common table are adapters: the function   *)
(* they call is in a process-wide cell, filled while the table is built,   *)
(* while it is validated or when the common table is produced; those of    *)
(* the HIP compiler look into the published state they belong to.          *)
(*                                                                         *)
(* A table is a metadata word (the fixed prefix) and a word per entry; the *)
(* library is already open, and which entries it has is chosen when it is  *)
(* resolved.                                                               *)
(***************************************************************************)
EXTENDS Naturals, Sequences, FiniteSets

CONSTANTS
    Threads,
    Kinds,     \* the tables: ocgpuApi_v1 of a backend, its raw table, ...
    Layer,     \* Layer[k]: the once-cell k's table is kept in
    Library,   \* Library[k]: the library it comes from
    Entries,   \* Entries[k]: the functions behind its words, in order
    Home,      \* Home[k][i]: where entry i finds its function, "direct" if it is it
    Required,  \* functions a core or compiler table may not lack
    MaxWords,  \* bound: words a caller has room for
    NoThread, NoRequest

Layers == {"api", "core", "rtc"}
Homes == {"direct", "build", "validate", "table", "publish"}
Libraries == {Library[k] : k \in Kinds}
Functions == UNION {{Entries[k][i] : i \in DOMAIN Entries[k]} : k \in Kinds}
FunctionsOf(b) ==
    UNION {{Entries[k][i] : i \in DOMAIN Entries[k]} : k \in {j \in Kinds : Library[j] = b}}

ASSUME TablesAssumption ==
    /\ Layer \in [Kinds -> Layers]
    /\ \A k \in Kinds :
           /\ Entries[k] \in Seq(Functions)
           /\ Home[k] \in [DOMAIN Entries[k] -> Homes]
           /\ \A i \in DOMAIN Entries[k] :
                  /\ Layer[k] = "api" => Home[k][i] = "direct"
                  /\ Layer[k] = "rtc" => Home[k][i] \in {"direct", "publish"}
                  /\ Layer[k] = "core" => Home[k][i] # "publish"
    /\ MaxWords \in Nat /\ NoThread \notin Threads

VARIABLES
    cell,     \* cell[l][b]: layer l's once-cell of library b
    owner,    \* owner[l][b]: the thread inside that cell's initialiser
    targets,  \* the adapter targets stored so far
    request,  \* request[t]: what t asks, or NoRequest
    at,       \* at[t]: the layer t is at, "idle" when it is not loading
    buffer    \* buffer[t]: the caller's words, as the last request left them

vars == <<cell, owner, targets, request, at, buffer>>

\* kind "other" is a backend number ocgpu does not know.
Requests == [kind : Kinds \cup {"other"}, abi : BOOLEAN, null : BOOLEAN, room : 0..MaxWords]

ASSUME NoRequestAssumption == NoRequest \notin Requests

Unset == [state |-> "unset", present |-> {}]
Failed == [state |-> "failed", present |-> {}]
Ready(S) == [state |-> "ready", present |-> S]

\* A caller's buffer has room beyond what it promises to a request.
Untouched == [i \in 1..MaxWords |-> "untouched"]

Init ==
    /\ cell = [l \in Layers |-> [b \in Libraries |-> Unset]]
    /\ owner = [l \in Layers |-> [b \in Libraries |-> NoThread]]
    /\ targets = {}
    /\ request = [t \in Threads |-> NoRequest]
    /\ at = [t \in Threads |-> "idle"]
    /\ buffer = [t \in Threads |-> Untouched]

-----------------------------------------------------------------------------
(* The request and its answer.                                             *)

\* validate_request, in words: the prefix is one of them.
Valid(r) == ~ r.null /\ r.abi /\ r.room >= 1

\* A request that is refused returns to the caller and leaves no trace: an
\* argument that fails validation or a backend nobody knows.
Refused(r) == ~ Valid(r) \/ r.kind = "other"

\* A thread makes a request with a fresh buffer.  A refused one is answered.
Ask(t) ==
    /\ request[t] = NoRequest
    /\ \E r \in Requests :
           IF Refused(r) THEN UNCHANGED <<request, at>>
           ELSE /\ request' = [request EXCEPT ![t] = r]
                /\ at' = [at EXCEPT ![t] = Layer[r.kind]]
    /\ buffer' = [buffer EXCEPT ![t] = Untouched]
    /\ UNCHANGED <<cell, owner, targets>>

Lib(t) == Library[request[t].kind]

\* get_or_init of an unset cell: t runs the initialiser.  The validated table's
\* begins by loading the unvalidated one.
Enter(t) ==
    /\ at[t] \in Layers
    /\ cell[at[t]][Lib(t)] = Unset
    /\ owner[at[t]][Lib(t)] = NoThread
    /\ owner' = [owner EXCEPT ![at[t]][Lib(t)] = t]
    /\ at' = [at EXCEPT ![t] = IF @ = "core" THEN "api" ELSE @]
    /\ UNCHANGED <<cell, targets, request, buffer>>

\* The adapters of library b whose target is stored at home h.
Stored(b, h, present) ==
    {p \in Kinds \X (1..MaxWords) :
        /\ Library[p[1]] = b
        /\ p[2] \in DOMAIN Entries[p[1]]
        /\ Home[p[1]][p[2]] = h
        /\ Entries[p[1]][p[2]] \in present}

\* No required function of the tables kept in layer l of b is missing.
Complete(b, l, present) ==
    \A k \in Kinds : Library[k] = b /\ Layer[k] = l =>
        \A i \in DOMAIN Entries[k] : Entries[k][i] \in Required => Entries[k][i] \in present

Keep(t, l, c) ==
    /\ cell' = [cell EXCEPT ![l][Lib(t)] = c]
    /\ owner' = [owner EXCEPT ![l][Lib(t)] = NoThread]

\* Mutant: a failure is not kept, and the next attempt is made at once.
BuildUnkept(t) ==
    /\ at[t] = "api" /\ owner["api"][Lib(t)] = t
    /\ \/ /\ owner' = [owner EXCEPT !["api"][Lib(t)] = NoThread]
          /\ UNCHANGED <<cell, targets>>
       \/ \E present \in SUBSET FunctionsOf(Lib(t)) :
              /\ Keep(t, "api", Ready(present))
              /\ targets' = targets \cup Stored(Lib(t), "build", present)
    /\ UNCHANGED <<request, at, buffer>>

\* The initialiser of an unvalidated table: the library is missing or in some
\* way unfit, or its functions are resolved and the targets of adapters stored.
Build(t) ==
    /\ at[t] = "api" /\ owner["api"][Lib(t)] = t
    /\ \/ /\ Keep(t, "api", Failed)
          /\ UNCHANGED targets
       \/ \E present \in SUBSET FunctionsOf(Lib(t)) :
              /\ Keep(t, "api", Ready(present))
              /\ targets' = targets \cup Stored(Lib(t), "build", present)
    /\ UNCHANGED <<request, at, buffer>>

\* The initialiser of a compiler's state, kept by the cell its adapters read.  A
\* complete compiler may still fail to tell its version.
BuildCompiler(t) ==
    /\ at[t] = "rtc" /\ owner["rtc"][Lib(t)] = t
    /\ \/ Keep(t, "rtc", Failed)
       \/ \E present \in SUBSET FunctionsOf(Lib(t)) :
              Complete(Lib(t), "rtc", present) /\ Keep(t, "rtc", Ready(present))
    /\ UNCHANGED <<targets, request, at, buffer>>

\* The initialiser of a validated table, once the unvalidated one is there.
Validate(t) ==
    /\ at[t] = "api" /\ owner["core"][Lib(t)] = t
    /\ cell["api"][Lib(t)] # Unset
    /\ LET below == cell["api"][Lib(t)] IN
           IF below.state = "ready" /\ Complete(Lib(t), "core", below.present)
           THEN /\ Keep(t, "core", below)
                /\ targets' = targets \cup Stored(Lib(t), "validate", below.present)
           ELSE Keep(t, "core", Failed) /\ UNCHANGED targets
    /\ at' = [at EXCEPT ![t] = "core"]
    /\ UNCHANGED <<request, buffer>>

Word(k, i, present) ==
    IF Entries[k][i] \notin present THEN "null"
    ELSE IF Home[k][i] = "direct" THEN "function" ELSE "adapter"

Table(k, present) ==
    [i \in 1..Len(Entries[k]) + 1 |-> IF i = 1 THEN "meta" ELSE Word(k, i - 1, present)]

\* Mutant: the whole table is copied into the caller's buffer.
WrittenWhole(room, table) == {i \in DOMAIN table : i \in 1..MaxWords}

\* write_table: the words that fit both the caller's room and the table.
Written(room, table) == {i \in DOMAIN table : i <= room}

\* Mutant: the common table of a driver is copied as the build left it.
ProducedAsBuilt(k, present) == {}

\* common_table fills the cells of the adapters it installs.
Produced(k, present) ==
    IF Layer[k] = "core" THEN Stored(Library[k], "table", present) ELSE {}

\* The cell is set: its error is returned, or its table is written.
Answer(t) ==
    /\ at[t] \in Layers /\ at[t] = Layer[request[t].kind]
    /\ cell[at[t]][Lib(t)] # Unset
    /\ LET k == request[t].kind
           kept == cell[at[t]][Lib(t)]
           table == Table(k, kept.present)
       IN  IF kept.state = "failed" THEN UNCHANGED <<targets, buffer>>
           ELSE /\ targets' = targets \cup Produced(k, kept.present)
                /\ buffer' = [buffer EXCEPT ![t] =
                       [i \in DOMAIN @ |->
                           IF i \in Written(request[t].room, table) THEN table[i] ELSE @[i]]]
    /\ at' = [at EXCEPT ![t] = "idle"]
    /\ UNCHANGED <<cell, owner, request>>

\* The caller has used what it got and may ask again.
Finish(t) ==
    /\ request[t] # NoRequest /\ at[t] = "idle"
    /\ request' = [request EXCEPT ![t] = NoRequest]
    /\ buffer' = [buffer EXCEPT ![t] = Untouched]
    /\ UNCHANGED <<cell, owner, targets, at>>

\* The steps of a request that was accepted.
Step(t) == Enter(t) \/ Build(t) \/ BuildCompiler(t) \/ Validate(t) \/ Answer(t)

Next ==
    \E t \in Threads :
        \/ Ask(t)
        \/ Enter(t)
        \/ Build(t)
        \/ BuildCompiler(t)
        \/ Validate(t)
        \/ Answer(t)
        \/ Finish(t)

Spec == Init /\ [][Next]_vars

-----------------------------------------------------------------------------
(* Properties.                                                             *)

\* An adapter finds the function it calls.
Reached(k, i) ==
    IF Home[k][i] = "publish"
    THEN LET c == cell[Layer[k]][Library[k]] IN c.state = "ready" /\ Entries[k][i] \in c.present
    ELSE <<k, i>> \in targets

\* Whatever table a caller holds, on whatever thread, an adapter among the words
\* it was given finds its function: the table cannot escape before the state its
\* adapters read is published (ocgpu-rtc's comment at hiprtc_common_create_program).
AdaptersReachTheirTargets ==
    \A t \in Threads : \A i \in 2..MaxWords :
        buffer[t][i] = "adapter" => Reached(request[t].kind, i - 1)

\* t runs the initialiser of the cell it is at: libraries and compilers are
\* searched for there, a validated table is not.
Building(t) == at[t] \in {"api", "rtc"} /\ owner[at[t]][Lib(t)] = t

\* t is at a cell some initialiser is to set, and does not run it.
Waiting(t) ==
    /\ at[t] \in Layers /\ cell[at[t]][Lib(t)] = Unset
    /\ owner[at[t]][Lib(t)] # NoThread /\ ~ Building(t)

\* No request waits in vain: an initialiser of the library it asks about is run
\* by a thread that does not wait itself, though a validated table's needs the
\* cell below, which another request may be setting.
WaitersAreServed ==
    \A t \in Threads : Waiting(t) =>
        \E u \in Threads, l \in Layers :
            owner[l][Lib(t)] = u /\ at[u] \in Layers /\ ~ Waiting(u)

\* How many steps of its own a request has left at most: the initialiser, its end
\* and the answer, and for a validated table those of the cell below.
StepsLeft(t) ==
    LET l == at[t]
        set == cell[l][Lib(t)] # Unset
        mine == owner[l][Lib(t)] = t
        Above == IF l = Layer[request[t].kind] THEN 0 ELSE 1
    IN  IF l = "idle" THEN 0
        ELSE CASE set -> 1 + Above
               [] ~ set /\ mine -> 2 + Above
               [] ~ set /\ ~ mine -> IF l = "core" THEN 5 ELSE 3 + Above

\* Nobody waits in vain, and a request is answered within five steps of its own,
\* which no other request sets back: a library that failed to load is not tried again, nor a table built
\* twice.
RequestsAdvance ==
    /\ []WaitersAreServed
    /\ [][\A t \in Threads :
              /\ at[t] # "idle" => StepsLeft(t)' <= StepsLeft(t)
              /\ Step(t) => StepsLeft(t)' < StepsLeft(t)]_vars

\* A caller cannot tell an adapter from the function itself.
Seen(word) == IF word \in {"function", "adapter"} THEN "callable" ELSE word

\* The once-cells, the work inside their initialisers and the adapters amount to
\* facts that become known once, in any order but for the validation, and are
\* shown as they are: a refused or failed request leaves no trace in the buffer.
Contract == INSTANCE SharedTables WITH
    fact <- cell,
    view <- [t \in Threads |-> [i \in 1..MaxWords |-> Seen(buffer[t][i])]]
KeepsTheContract == Contract!Spec

=============================================================================
