------------------------ MODULE TypedResourcesProofs ------------------------
(***************************************************************************)
(* The safety properties of TypedResources for any number of contexts,     *)
(* handles and sizes.  What makes them inductive is the borrow structure:  *)
(* a Function's parent is a module, and an empty variable borrows nothing. *)
(***************************************************************************)
EXTENDS TypedResources, TLAPS

\* A Function borrows a module, and nothing else borrows a handle.
Borrows ==
    \A r \in Resources : IF Held(r) /\ Kind[r] = "function"
                        THEN Kind[parent[r]] = "module" ELSE parent[r] = r

IInv == TypeOK /\ NoDanglingHandle /\ Borrows /\ CalledInOwnContext /\ CopiesFit

-----------------------------------------------------------------------------

\* At the start no variable holds a handle.
LEMMA InitIInv == Init => IInv
<1> QED BY ResourceAssumption DEF Init, IInv, TypeOK, NoDanglingHandle, Borrows, Held,
        CalledInOwnContext, CopiesFit, Errors

\* What a vendor call records, when its handles are held in one context.
LEMMA CallType ==
    ASSUME IInv, NEW c \in Contexts, NEW used \in SUBSET Resources, NEW n \in Nat,
           \A r \in used : home[r] = c, CallIn(c, used, n)
    PROVE  /\ current' \in Contexts \cup {NoContext, Foreign}
           /\ called' \in [context : Contexts, used : SUBSET Resources,
                           owners : SUBSET Contexts, bytes : Nat]
           /\ called'.used = used /\ called'.bytes = n
           /\ CalledInOwnContext'
<1>1. {home[r] : r \in used} \subseteq {c}
    OBVIOUS
<1>2. {home[r] : r \in used} \in SUBSET Contexts
    BY <1>1
<1> QED BY <1>1, <1>2 DEF CallIn, CalledInOwnContext

\* A step that keeps the handles has to show only what it called.
LEMMA HandlesKept ==
    ASSUME IInv, UNCHANGED handles, error' \in Errors,
           current' \in Contexts \cup {NoContext, Foreign},
           \/ called' = NoCall
           \/ /\ called' \in [context : Contexts, used : SUBSET Resources,
                              owners : SUBSET Contexts, bytes : Nat]
              /\ CalledInOwnContext'
              /\ \A r \in called'.used :
                     Held(r) /\ Kind[r] = "memory" => called'.bytes <= bytes[r]
    PROVE  IInv'
<1> USE DEF IInv, handles
<1>1. TypeOK' /\ NoDanglingHandle' /\ Borrows'
    BY DEF TypeOK, NoDanglingHandle, Borrows, Held
<1>2. CalledInOwnContext' /\ CopiesFit'
    BY DEF CalledInOwnContext, CopiesFit, Held
<1> QED BY <1>1, <1>2

\* The errors methods return.
LEMMA ErrorNames ==
    {"None", "InvalidArgument", "SymbolUnavailable", "SetCurrent", "Vendor",
     "NullHandle"} \subseteq Errors
    BY DEF Errors

\* A method that returns before it reaches the vendor.
LEMMA RefuseIInv == ASSUME IInv, NEW e \in Errors, Refuse(e) PROVE IInv'
<1>1. current' \in Contexts \cup {NoContext, Foreign}
    BY DEF Refuse, IInv, TypeOK
<1> QED BY <1>1, HandlesKept DEF Refuse

\* A method that fits its copy to the allocations it names keeps the invariant.
LEMMA CallIInv ==
    ASSUME IInv, NEW c \in Contexts, NEW used \in SUBSET Resources, NEW n \in Nat,
           \A r \in used : home[r] = c,
           \A r \in used : Kind[r] = "memory" => n <= bytes[r],
           Call(c, used, n)
    PROVE  IInv'
<1>1. CallIn(c, used, n) /\ error' \in Errors /\ UNCHANGED handles
    BY ErrorNames DEF Call
<1> QED BY <1>1, CallType, HandlesKept

\* A use of handles of one context: missing entry, failed restore or the call.
LEMMA PerformIInv ==
    ASSUME IInv, NEW o, NEW c \in Contexts, NEW used \in SUBSET Resources,
           NEW n \in Nat,
           \A r \in used : home[r] = c,
           \A r \in used : Kind[r] = "memory" => n <= bytes[r],
           Perform(o, c, used, n)
    PROVE  IInv'
<1>1. CASE Refuse("SymbolUnavailable") \/ Refuse("SetCurrent")
    BY <1>1, RefuseIInv, ErrorNames
<1>2. CASE Call(c, used, n)
    BY <1>2, CallIInv
<1> QED BY <1>1, <1>2 DEF Perform, MissingEntry, NotRestored

\* A handle that is held is in one of the contexts.
LEMMA HeldHome ==
    ASSUME IInv, NEW r \in Resources, Held(r) PROVE home[r] \in Contexts
    BY DEF IInv, TypeOK, Held

-----------------------------------------------------------------------------
(* One lemma for each action that changes more than the call.              *)

\* A new context owns nothing yet.
LEMMA CreateContextIInv ==
    ASSUME IInv, NEW c \in Contexts, CreateContext(c) PROVE IInv'
<1> USE DEF IInv, CreateContext
<1>1. TypeOK'
    BY ErrorNames DEF TypeOK
<1>2. NoDanglingHandle' /\ Borrows'
    BY DEF NoDanglingHandle, Borrows, Held
<1> QED BY <1>1, <1>2 DEF CalledInOwnContext, CopiesFit

\* A context that nothing borrows leaves nothing dangling.
LEMMA DropContextIInv ==
    ASSUME IInv, NEW c \in Contexts, DropContext(c) PROVE IInv'
<1> USE DEF IInv, DropContext
<1>1. TypeOK'
    BY ErrorNames DEF TypeOK, Leave
<1>2. NoDanglingHandle'
    BY DEF NoDanglingHandle, Held, Unborrowed, Leave, TypeOK
<1>3. Borrows'
    BY DEF Borrows, Held
<1> QED BY <1>1, <1>2, <1>3 DEF CalledInOwnContext, CopiesFit

\* A new handle is alive in the context it was obtained in.
LEMMA ObtainIInv ==
    ASSUME IInv, NEW r \in Resources, ~Held(r), NEW c \in open, NEW m \in Resources,
           NEW n \in Nat, Obtain(r, c, m, n),
           IF Kind[r] = "function"
           THEN Held(m) /\ home[m] = c /\ Kind[m] = "module" ELSE m = r
    PROVE  IInv'
<1>0. c \in Contexts /\ c # NoContext
    BY ResourceAssumption DEF IInv, TypeOK
<1>1. CASE Refuse("InvalidArgument") \/ Refuse("SetCurrent")
    BY <1>1, RefuseIInv, ErrorNames
<1> DEFINE used == IF m = r THEN {} ELSE {m}
<1>2. /\ used \in SUBSET Resources
      /\ \A s \in used : home[s] = c /\ Kind[s] # "memory"
    OBVIOUS
<1>3. CASE CallIn(c, used, 0) /\ error' \in {"Vendor", "NullHandle"} /\ UNCHANGED handles
    <2>1. Call(c, used, 0) \/ error' = "NullHandle"
        BY <1>3 DEF Call
    <2>2. error' \in Errors
        BY <1>3, ErrorNames
    <2> QED BY <1>0, <1>2, <1>3, <2>2, CallType, HandlesKept
<1>4. CASE /\ CallIn(c, used, 0)
           /\ error' = "None"
           /\ home' = [home EXCEPT ![r] = c]
           /\ parent' = [parent EXCEPT ![r] = m]
           /\ bytes' = [bytes EXCEPT ![r] = n]
           /\ alive' = [alive EXCEPT ![r] = c]
           /\ UNCHANGED open
    <2>1. /\ current' \in Contexts \cup {NoContext, Foreign}
          /\ called' \in [context : Contexts, used : SUBSET Resources,
                          owners : SUBSET Contexts, bytes : Nat]
          /\ called'.used = used /\ called'.bytes = 0
          /\ CalledInOwnContext'
        BY <1>0, <1>2, <1>4, CallType
    <2>2. TypeOK'
        BY <1>0, <1>4, <2>1, ErrorNames DEF IInv, TypeOK
    <2>3. Borrows'
        BY <1>0, <1>4 DEF IInv, TypeOK, Borrows, Held
    <2>4. NoDanglingHandle'
        <3> SUFFICES ASSUME NEW s \in Resources, Held(s)'
                     PROVE  home'[s] \in open' /\ alive'[s] = home'[s]
                            /\ home'[parent'[s]] = home'[s]
            BY DEF NoDanglingHandle
        <3>1. CASE s = r
            BY <1>0, <1>4, <3>1 DEF IInv, TypeOK
        <3>2. CASE s # r
            <4>1. Held(s) /\ parent'[s] = parent[s] /\ home'[s] = home[s]
                  /\ alive'[s] = alive[s]
                BY <1>4, <3>2 DEF IInv, TypeOK, Held
            <4>2. parent[s] # r
                BY <4>1 DEF IInv, NoDanglingHandle, Held
            <4> QED BY <1>4, <4>1, <4>2 DEF IInv, TypeOK, NoDanglingHandle
        <3> QED BY <3>1, <3>2
    <2>5. CopiesFit'
        BY <1>2, <2>1 DEF CopiesFit
    <2> QED BY <2>1, <2>2, <2>3, <2>4, <2>5 DEF IInv
<1> QED BY <1>1, <1>3, <1>4 DEF Obtain, NotRestored

\* Creating a handle of each kind, a Function in the context of its module.
LEMMA CreateIInv == ASSUME IInv, NEW r \in Resources, Create(r) PROVE IInv'
<1>1. CASE Kind[r] # "function" /\ \E c \in open, n \in Nat : Obtain(r, c, r, n)
    BY <1>1, ObtainIInv DEF Create
<1>2. CASE /\ Kind[r] = "function"
           /\ \E m \in Resources :
                  Held(m) /\ Kind[m] = "module" /\ Obtain(r, home[m], m, 0)
    <2>1. PICK m \in Resources : Held(m) /\ Kind[m] = "module" /\ Obtain(r, home[m], m, 0)
        BY <1>2
    <2>2. home[m] \in open
        BY <2>1 DEF IInv, NoDanglingHandle
    <2> QED BY <1>2, <2>1, <2>2, ObtainIInv DEF Create
<1> QED BY <1>1, <1>2, ResourceAssumption DEF Create

\* Forgetting a handle nobody borrows leaves the others as they were.
LEMMA ForgetIInv ==
    ASSUME IInv, NEW r \in Resources, Held(r),
           \A s \in Resources \ {r} : parent[s] # r,
           Forget(r), alive' = alive \/ alive' = [alive EXCEPT ![r] = NoContext],
           error' \in Errors, current' \in Contexts \cup {NoContext, Foreign},
           \/ called' = NoCall
           \/ /\ called' \in [context : Contexts, used : SUBSET Resources,
                              owners : SUBSET Contexts, bytes : Nat]
              /\ called'.bytes = 0
              /\ CalledInOwnContext'
    PROVE  IInv'
<1> USE DEF Forget
<1>1. TypeOK'
    BY DEF IInv, TypeOK
<1>2. Borrows'
    BY DEF IInv, TypeOK, Borrows, Held
<1>3. NoDanglingHandle'
    <2> SUFFICES ASSUME NEW s \in Resources, Held(s)'
                 PROVE  home'[s] \in open' /\ alive'[s] = home'[s]
                        /\ home'[parent'[s]] = home'[s]
        BY DEF NoDanglingHandle
    <2>1. s # r
        BY DEF IInv, TypeOK, Held
    <2>2. /\ Held(s) /\ home'[s] = home[s] /\ alive'[s] = alive[s]
          /\ parent'[s] = parent[s] /\ parent[s] # r /\ parent[s] \in Resources
        BY <2>1 DEF IInv, TypeOK, Held
    <2> QED BY <2>2 DEF IInv, TypeOK, NoDanglingHandle
<1>4. CalledInOwnContext'
    BY DEF CalledInOwnContext
<1>5. CopiesFit'
    <2>1. bytes' \in [Resources -> Nat]
        BY <1>1 DEF TypeOK
    <2> QED BY <2>1 DEF CopiesFit
<1> QED BY <1>1, <1>2, <1>3, <1>4, <1>5 DEF IInv

\* A destructor frees in its own context or leaks; it disturbs no other handle.
LEMMA DropIInv == ASSUME IInv, NEW r \in Resources, Drop(r) PROVE IInv'
<1>1. home[r] \in Contexts
    BY HeldHome DEF Drop
<1>2. error' \in Errors
    BY ErrorNames DEF Drop
<1>3. CASE CallIn(home[r], {r}, 0)
    <2>1. /\ current' \in Contexts \cup {NoContext, Foreign}
          /\ called' \in [context : Contexts, used : SUBSET Resources,
                          owners : SUBSET Contexts, bytes : Nat]
          /\ called'.bytes = 0
          /\ CalledInOwnContext'
        BY <1>1, <1>3, CallType
    <2> QED BY <1>2, <2>1, ForgetIInv DEF Drop
<1>4. CASE called' = NoCall /\ UNCHANGED <<current, alive>>
    <2>1. current' \in Contexts \cup {NoContext, Foreign}
        BY <1>4 DEF IInv, TypeOK
    <2> QED BY <1>2, <1>4, <2>1, ForgetIInv DEF Drop
<1> QED BY <1>3, <1>4 DEF Drop

\* A Function goes without a vendor call.
LEMMA DropFunctionIInv == ASSUME IInv, NEW r \in Resources, DropFunction(r) PROVE IInv'
<1>1. \A s \in Resources \ {r} : parent[s] # r
    BY DEF DropFunction, IInv, Borrows
<1>2. error' \in Errors /\ current' \in Contexts \cup {NoContext, Foreign}
    BY ErrorNames DEF DropFunction, IInv, TypeOK
<1> QED BY <1>1, <1>2, ForgetIInv DEF DropFunction

\* Host copies in both directions, refused when too long.
LEMMA CopyHostIInv == ASSUME IInv, NEW r \in Resources, CopyHost(r) PROVE IInv'
<1>1. CASE Refuse("InvalidArgument") \/ Refuse("None")
    BY <1>1, RefuseIInv, ErrorNames
<1>2. CASE \E n \in Sizes : Fits(r, n) /\ Perform("copy", home[r], {r}, n)
    <2>1. PICK n \in Sizes : Fits(r, n) /\ Perform("copy", home[r], {r}, n)
        BY <1>2
    <2>2. n \in Nat /\ home[r] \in Contexts
        BY ResourceAssumption, HeldHome DEF CopyHost
    <2> QED BY <2>1, <2>2, PerformIInv DEF Fits
<1> QED BY <1>1, <1>2 DEF CopyHost

\* Queries and waits on one handle.
LEMMA UseOneIInv == ASSUME IInv, NEW r \in Resources, UseOne(r) PROVE IInv'
<1>1. PICK o \in OneHandleOps[Kind[r]] : Perform(o, home[r], {r}, 0)
    BY DEF UseOne
<1>2. home[r] \in Contexts /\ bytes[r] \in Nat
    BY HeldHome DEF UseOne, IInv, TypeOK
<1> QED BY <1>1, <1>2, PerformIInv

\* A launch without a stream.
LEMMA LaunchIInv == ASSUME IInv, NEW r \in Resources, Launch(r) PROVE IInv'
<1>1. CASE Refuse("InvalidArgument")
    BY <1>1, RefuseIInv, ErrorNames
<1>2. CASE Perform("launch", home[r], {r}, 0)
    <2>1. home[r] \in Contexts /\ bytes[r] \in Nat
        BY HeldHome DEF Launch, IInv, TypeOK
    <2> QED BY <1>2, <2>1, PerformIInv
<1> QED BY <1>1, <1>2 DEF Launch

\* A device copy, refused across contexts and when too long.
LEMMA CopyDeviceIInv ==
    ASSUME IInv, NEW r \in Resources, NEW s \in Resources, CopyDevice(r, s) PROVE IInv'
<1>1. CASE Refuse("InvalidArgument") \/ Refuse("None")
    BY <1>1, RefuseIInv, ErrorNames
<1>2. CASE /\ SameContext(r, s) /\ Fits(r, bytes[s])
           /\ Perform("copy_from_device", home[r], {r, s}, bytes[s])
    <2>1. home[r] \in Contexts /\ bytes[r] \in Nat /\ bytes[s] \in Nat
        BY HeldHome DEF CopyDevice, IInv, TypeOK
    <2>2. \A q \in {r, s} : home[q] = home[r] /\ bytes[s] <= bytes[q]
        BY <1>2, <2>1 DEF SameContext, Fits
    <2> QED BY <1>2, <2>1, <2>2, PerformIInv
<1> QED BY <1>1, <1>2 DEF CopyDevice

\* Events, streams and launches on two handles, refused across contexts.
LEMMA UseTwoIInv ==
    ASSUME IInv, NEW r \in Resources, NEW s \in Resources, UseTwo(r, s) PROVE IInv'
<1>1. CASE Refuse("InvalidArgument")
    BY <1>1, RefuseIInv, ErrorNames
<1>2. CASE /\ SameContext(r, s)
           /\ \E o \in DOMAIN TwoHandleOps : Perform(o, home[r], {r, s}, 0)
    <2>1. PICK o \in DOMAIN TwoHandleOps : Perform(o, home[r], {r, s}, 0)
        BY <1>2
    <2>2. home[r] \in Contexts /\ bytes[r] \in Nat /\ bytes[s] \in Nat
        BY HeldHome DEF UseTwo, IInv, TypeOK
    <2>3. \A q \in {r, s} : home[q] = home[r] /\ 0 <= bytes[q]
        BY <1>2, <2>2 DEF SameContext
    <2> QED BY <2>1, <2>2, <2>3, PerformIInv
<1> QED BY <1>1, <1>2 DEF UseTwo

\* The methods of a Context.
LEMMA ContextIInv ==
    ASSUME IInv, NEW c \in Contexts,
           CreateContextFails(c) \/ MakeCurrent(c) \/ UseContext(c)
    PROVE  IInv'
<1>1. CASE \E e \in Errors : Refuse(e)
    BY <1>1, RefuseIInv
<1>2. CASE /\ current' = c /\ called' = NoCall /\ error' = "None"
           /\ UNCHANGED handles
    BY <1>2, ErrorNames, HandlesKept
<1>3. CASE Call(c, {}, 0)
    BY <1>3, CallIInv
<1> QED BY <1>1, <1>2, <1>3, ErrorNames
        DEF CreateContextFails, MakeCurrent, UseContext, NotRestored

\* Outside code changes the current context only.
LEMMA ElsewhereIInv == ASSUME IInv, Elsewhere PROVE IInv'
<1>1. current' \in Contexts \cup {NoContext, Foreign} /\ error' \in Errors
    BY ErrorNames DEF Elsewhere, IInv, TypeOK
<1> QED BY <1>1, HandlesKept DEF Elsewhere

\* Every method preserves the invariant.
LEMMA NextIInv == IInv /\ [Next]_vars => IInv'
<1> SUFFICES ASSUME IInv, [Next]_vars PROVE IInv'
    OBVIOUS
<1>1. CASE UNCHANGED vars
    BY <1>1 DEF vars, IInv, TypeOK, NoDanglingHandle, Borrows, Held,
       CalledInOwnContext, CopiesFit
<1>2. ASSUME NEW c \in Contexts,
             CreateContextFails(c) \/ CreateContext(c) \/ MakeCurrent(c)
                 \/ UseContext(c) \/ DropContext(c)
      PROVE  IInv'
    BY <1>2, ContextIInv, CreateContextIInv, DropContextIInv
<1>3. ASSUME NEW r \in Resources,
             Create(r) \/ CopyHost(r) \/ UseOne(r) \/ Launch(r) \/ Drop(r)
                 \/ DropFunction(r)
      PROVE  IInv'
    BY <1>3, CreateIInv, CopyHostIInv, UseOneIInv, LaunchIInv, DropIInv, DropFunctionIInv
<1>4. ASSUME NEW r \in Resources, NEW s \in Resources, CopyDevice(r, s) \/ UseTwo(r, s)
      PROVE  IInv'
    BY <1>4, CopyDeviceIInv, UseTwoIInv
<1> QED BY <1>1, <1>2, <1>3, <1>4, ElsewhereIInv DEF Next

\* Handles, contexts and the current context agree after every method of the
\* typed API: the inductive invariant.
THEOREM ResourceInvariance == Spec => []IInv
<1> QED BY InitIInv, NextIInv, PTL DEF Spec

-----------------------------------------------------------------------------
(* What follows.                                                           *)

\* Every variable of the typed resources stays in its domain.
THEOREM ResourceTypes == Spec => []TypeOK
<1>1. IInv => TypeOK
    BY DEF IInv
<1> QED BY <1>1, ResourceInvariance, PTL

\* No typed handle outlives its vendor object, its context or its module.
THEOREM HandlesDoNotDangle == Spec => []NoDanglingHandle
<1>1. IInv => NoDanglingHandle
    BY DEF IInv
<1> QED BY <1>1, ResourceInvariance, PTL

\* Every vendor call of the typed API runs in the context owning its handles.
THEOREM CallsInOwnContext == Spec => []CalledInOwnContext
<1>1. IInv => CalledInOwnContext
    BY DEF IInv
<1> QED BY <1>1, ResourceInvariance, PTL

\* No copy of the typed API leaves its allocations.
THEOREM CopiesStayInside == Spec => []CopiesFit
<1>1. IInv => CopiesFit
    BY DEF IInv
<1> QED BY <1>1, ResourceInvariance, PTL

\* Every method but the constructors and destructors keeps every handle.
LEMMA KeptHandles ==
    ASSUME \/ \E e : Refuse(e)
           \/ \E c, used, n : Call(c, used, n)
           \/ \E c, o, used, n : Perform(o, c, used, n)
           \/ \E c : MakeCurrent(c) \/ CreateContextFails(c) \/ UseContext(c)
           \/ Elsewhere
    PROVE  UNCHANGED handles
    BY DEF Refuse, Call, Perform, MissingEntry, NotRestored, MakeCurrent,
           CreateContextFails, UseContext, Elsewhere, handles

\* A use of handles neither creates nor drops one.
LEMMA UsesKeepHandles ==
    ASSUME NEW r \in Resources, NEW s \in Resources,
           CopyHost(r) \/ UseOne(r) \/ Launch(r) \/ CopyDevice(r, s) \/ UseTwo(r, s)
    PROVE  UNCHANGED handles
<1>1. \/ \E e : Refuse(e)
      \/ \E c, o, used, n : Perform(o, c, used, n)
    BY DEF CopyHost, UseOne, Launch, CopyDevice, UseTwo
<1> QED BY <1>1, KeptHandles

\* An object whose handle is gone was ended or the vendor refused to end it, and an
\* object ends with its own handle or with its context: destructors of the typed API.
THEOREM LeaksAreRefused == Spec => LeaksOnlyRefused
<1> DEFINE Drops(r) == /\ Held(r) /\ ~Held(r)' =>
                             \/ alive'[r] = NoContext
                             \/ error' = "SetCurrent"
                             \/ error' = "Vendor" /\ called' # NoCall /\ called'.used = {r}
                       /\ alive[r] # NoContext /\ alive'[r] = NoContext =>
                             ~Held(r)' /\ (Held(r) \/ alive[r] \notin open')
<1>1. ASSUME IInv, Next, NEW r \in Resources PROVE Drops(r)
    <2>1. CASE UNCHANGED handles
        BY <2>1 DEF handles, Held
    <2>2. ASSUME NEW c \in Contexts, CreateContext(c) PROVE Drops(r)
        BY <2>2 DEF CreateContext, Held
    <2>3. ASSUME NEW c \in Contexts, DropContext(c) PROVE Drops(r)
        <3>1. home' = home /\ open' = open \ {c} /\ home[r] # c
              /\ (Held(r) => alive[r] = home[r])
            BY <1>1, <2>3 DEF DropContext, Unborrowed, IInv, NoDanglingHandle
        <3>2. \/ alive'[r] = alive[r]
              \/ alive[r] = c /\ alive'[r] \in {NoContext, Foreign}
            BY <1>1, <2>3 DEF DropContext, Leave, IInv, TypeOK
        <3>3. alive[r] = c => ~Held(r) /\ c \notin open'
            BY <3>1
        <3> QED BY <3>1, <3>2, <3>3 DEF Held
    <2>4. ASSUME NEW s \in Resources, Create(s) PROVE Drops(r)
        <3>1. CASE UNCHANGED handles
            BY <2>1, <3>1
        <3>2. CASE \E c \in open : /\ home' = [home EXCEPT ![s] = c]
                                   /\ alive' = [alive EXCEPT ![s] = c]
            <4>1. PICK c \in open : /\ home' = [home EXCEPT ![s] = c]
                                    /\ alive' = [alive EXCEPT ![s] = c]
                BY <3>2
            <4>2. c # NoContext
                BY <1>1, ResourceAssumption DEF IInv, TypeOK
            <4>3. home \in [Resources -> Contexts \cup {NoContext}]
                  /\ alive \in [Resources -> Contexts \cup {NoContext, Foreign}]
                BY <1>1 DEF IInv, TypeOK
            <4>4. CASE r = s
                BY <4>1, <4>2, <4>3, <4>4 DEF Held
            <4>5. CASE r # s
                BY <4>1, <4>3, <4>5 DEF Held
            <4> QED BY <4>4, <4>5
        <3>3. ASSUME NEW c \in open, NEW m, NEW n, Obtain(s, c, m, n)
              PROVE  Drops(r)
            BY <3>1, <3>2, <3>3 DEF Obtain, Refuse, NotRestored
        <3>4. ASSUME NEW m \in Resources, Held(m) PROVE home[m] \in open
            BY <1>1, <3>4 DEF IInv, NoDanglingHandle
        <3> QED BY <2>4, <3>3, <3>4 DEF Create
    <2>5. ASSUME NEW s \in Resources, Drop(s) PROVE Drops(r)
        <3>1. CASE r = s
            <4>1. Held(r) /\ ~Held(r)'
                BY <1>1, <2>5, <3>1 DEF Drop, Forget, Held, IInv, TypeOK
            <4>2. \/ alive'[r] = NoContext
                  \/ error' = "SetCurrent"
                  \/ error' = "Vendor" /\ CallIn(home[r], {r}, 0)
                BY <1>1, <2>5, <3>1 DEF Drop, IInv, TypeOK
            <4>3. ASSUME CallIn(home[r], {r}, 0) PROVE called' # NoCall /\ called'.used = {r}
                <5>1. home[r] \in Contexts /\ {r} \in SUBSET Resources
                    BY <1>1, <4>1, HeldHome
                <5>2. /\ called' \in [context : Contexts, used : SUBSET Resources,
                                       owners : SUBSET Contexts, bytes : Nat]
                      /\ called'.used = {r}
                    BY <1>1, <4>3, <5>1, CallType
                <5> QED BY <5>2, ResourceAssumption
            <4> QED BY <4>1, <4>2, <4>3
        <3>2. CASE r # s
            BY <1>1, <2>5, <3>2 DEF Drop, Forget, Held, IInv, TypeOK
        <3> QED BY <3>1, <3>2
    <2>6. ASSUME NEW s \in Resources, DropFunction(s) PROVE Drops(r)
        BY <1>1, <2>6 DEF DropFunction, Forget, Held, IInv, TypeOK
    <2> QED BY <1>1, <2>1, <2>2, <2>3, <2>4, <2>5, <2>6, KeptHandles, UsesKeepHandles DEF Next
<1>2. IInv /\ [Next]_vars => [\A r \in Resources : Drops(r)]_vars
    BY <1>1
<1> QED BY <1>2, ResourceInvariance, PTL DEF Spec, LeaksOnlyRefused

\* Arguments and missing entries are refused before the context is switched.
THEOREM RefusalsKeepContext == Spec => RefusalsDoNotSwitch
<1> DEFINE Quiet == error' \in {"InvalidArgument", "SymbolUnavailable"} =>
                        current' = current
<1>1. ASSUME NEW e, Refuse(e) PROVE Quiet
    BY <1>1 DEF Refuse
<1>2. ASSUME NEW o, NEW c, NEW used, NEW n, Perform(o, c, used, n) PROVE Quiet
    BY <1>2 DEF Perform, MissingEntry, NotRestored, Refuse, Call
<1>3. ASSUME Next PROVE Quiet
    <2>1. ASSUME NEW c \in Contexts,
                 CreateContextFails(c) \/ CreateContext(c) \/ MakeCurrent(c)
                     \/ UseContext(c) \/ DropContext(c)
          PROVE  Quiet
        BY <1>1, <2>1 DEF CreateContextFails, CreateContext, MakeCurrent, UseContext,
           DropContext, NotRestored, Call
    <2>2. ASSUME NEW r \in Resources, Create(r) PROVE Quiet
        BY <1>1, <2>2 DEF Create, Obtain, NotRestored
    <2>3. ASSUME NEW r \in Resources, Drop(r) \/ DropFunction(r) PROVE Quiet
        BY <2>3 DEF Drop, DropFunction
    <2>4. ASSUME NEW r \in Resources, NEW s \in Resources,
                 CopyHost(r) \/ UseOne(r) \/ Launch(r) \/ CopyDevice(r, s) \/ UseTwo(r, s)
          PROVE  Quiet
        BY <1>1, <1>2, <2>4 DEF CopyHost, UseOne, Launch, CopyDevice, UseTwo
    <2>5. CASE Elsewhere
        BY <2>5 DEF Elsewhere
    <2> QED BY <1>3, <2>1, <2>2, <2>3, <2>4, <2>5 DEF Next
<1> QED BY <1>3, PTL DEF Spec, RefusalsDoNotSwitch

-----------------------------------------------------------------------------
(* The vendor's rules.                                                     *)

Asked == IF called = NoCall THEN NoCall
         ELSE [context |-> called.context, objects |-> called.used]

Follows == Vendor!Next \/ UNCHANGED Vendor!vars

\* The current context exists, or is not ocgpu's.
CurrentExists == current \in open \cup {NoContext, Foreign}

\* A held handle's object lives in the handle's context, which is open.
LEMMA HeldLives ==
    ASSUME IInv, NEW r \in Resources, Held(r)
    PROVE  home[r] \in open /\ home[r] \in Contexts /\ alive[r] = home[r]
BY HeldHome DEF IInv, NoDanglingHandle

\* A method without a vendor call of its own at most switches the context.
LEMMA SwitchFollows ==
    ASSUME called' = NoCall, UNCHANGED <<open, alive, parent>>,
           current' \in open \cup {current, NoContext, Foreign}
    PROVE  Follows
BY DEF Follows, Vendor!Next, Vendor!Switch

\* A call in an open context about objects that live in it.
LEMMA CallAsks ==
    ASSUME IInv, NEW c \in open, NEW used \in SUBSET Resources, NEW n \in Nat,
           \A r \in used : Held(r) /\ home[r] = c, CallIn(c, used, n), UNCHANGED open
    PROVE  Vendor!Ask(used) /\ called' # NoCall /\ Asked' # NoCall
           /\ Asked' = [context |-> c, objects |-> used]
<1>1. c \in Contexts /\ \A r \in used : home[r] = c
  BY DEF IInv, TypeOK
<1>2. called' \in [context : Contexts, used : SUBSET Resources,
                   owners : SUBSET Contexts, bytes : Nat]
  BY <1>1, CallType
<1>3. called' # NoCall
  BY <1>2, ResourceAssumption
<1>4. Asked' = [context |-> c, objects |-> used]
  BY <1>3 DEF Asked, CallIn
<1>5. Asked' # NoCall
  BY <1>1, <1>4, ResourceAssumption
<1>6. \A r \in used : alive[r] = c
  BY HeldLives
<1> QED BY <1>3, <1>4, <1>5, <1>6 DEF Vendor!Ask, Asked, CallIn

\* A call that changes no object, whatever it returns, is a use of objects.
LEMMA CallFollows ==
    ASSUME IInv, NEW c \in open, NEW used \in SUBSET Resources, NEW n \in Nat,
           \A r \in used : Held(r) /\ home[r] = c, CallIn(c, used, n), UNCHANGED handles
    PROVE  Follows
<1>1. /\ Vendor!Ask(used) /\ called' # NoCall /\ Asked' # NoCall
      /\ Asked' = [context |-> c, objects |-> used]
  BY CallAsks DEF handles
<1>2. Vendor!Use
  BY <1>1 DEF Vendor!Use, Asked, handles
<1> QED BY <1>2 DEF Follows, Vendor!Next

\* The uses of handles: refused, not restored, or called in their context.
LEMMA PerformFollows ==
    ASSUME IInv, NEW o, NEW c \in open, NEW used \in SUBSET Resources, NEW n \in Nat,
           \A r \in used : Held(r) /\ home[r] = c, Perform(o, c, used, n)
    PROVE  Follows
<1>1. ASSUME NEW e, Refuse(e) PROVE Follows
  BY <1>1, SwitchFollows DEF Refuse, handles
<1> QED BY <1>1, CallFollows DEF Perform, MissingEntry, NotRestored, Call

\* Contexts begin, end and are switched.
LEMMA ContextFollows ==
    ASSUME IInv, CurrentExists, NEW c \in Contexts,
           CreateContextFails(c) \/ CreateContext(c) \/ MakeCurrent(c)
               \/ UseContext(c) \/ DropContext(c)
    PROVE  Follows
<1>1. ASSUME NEW e, Refuse(e) PROVE Follows
  BY <1>1, SwitchFollows DEF Refuse, handles
<1>2. CASE CreateContext(c)
  BY <1>2 DEF CreateContext, Follows, Vendor!Next, Vendor!BeginContext
<1>3. CASE MakeCurrent(c)
  BY <1>1, <1>3, SwitchFollows DEF MakeCurrent, NotRestored, handles
<1>4. CASE UseContext(c)
  BY <1>1, <1>4, CallFollows DEF UseContext, NotRestored, Call
<1>5. CASE DropContext(c)
  <2>1. CASE Leave(c, NoContext)
    BY <1>5, <2>1 DEF DropContext, Leave, CurrentExists, Follows, Vendor!Next,
       Vendor!EndContext, Vendor!LoseContext
  <2>2. CASE Leave(c, Foreign) /\ current' = IF current = c THEN Foreign ELSE current
    BY <1>5, <2>2 DEF DropContext, Leave, Follows, Vendor!Next, Vendor!LoseContext
  <2> QED BY <1>5, <2>1, <2>2 DEF DropContext
<1> QED BY <1>1, <1>2, <1>3, <1>4, <1>5 DEF CreateContextFails

\* An object is made in an open context, and a Function in its module's.
LEMMA ObtainFollows ==
    ASSUME IInv, NEW r \in Resources, NEW c \in open, NEW m \in Resources,
           m = r \/ (Held(m) /\ home[m] = c), NEW n, Obtain(r, c, m, n)
    PROVE  Follows
<1> DEFINE used == IF m = r THEN {} ELSE {m}
<1>1. ASSUME NEW e, Refuse(e) PROVE Follows
  BY <1>1, SwitchFollows DEF Refuse, handles
<1>2. CASE CallIn(c, used, 0) /\ UNCHANGED handles
  BY <1>2, CallFollows
<1>3. CASE /\ CallIn(c, used, 0)
           /\ parent' = [parent EXCEPT ![r] = m]
           /\ alive' = [alive EXCEPT ![r] = c]
           /\ UNCHANGED open
  <2>1. Vendor!Ask(used) /\ current' = c /\ used = {m} \ {r}
    BY <1>3, CallAsks DEF CallIn
  <2> QED BY <1>3, <2>1 DEF Follows, Vendor!Next, Vendor!Make
<1> QED BY <1>1, <1>2, <1>3 DEF Obtain, NotRestored

\* Creating a handle of each kind.
LEMMA CreateFollows == ASSUME IInv, NEW r \in Resources, Create(r) PROVE Follows
<1>1. CASE \E c \in open, n \in Nat : Obtain(r, c, r, n)
  BY <1>1, ObtainFollows
<1>2. CASE \E m \in Resources : Held(m) /\ Obtain(r, home[m], m, 0)
  BY <1>2, ObtainFollows, HeldLives
<1> QED BY <1>1, <1>2, ResourceAssumption DEF Create

\* Using handles of one context.
LEMMA UseFollows ==
    ASSUME IInv, NEW r \in Resources, NEW s \in Resources,
           CopyHost(r) \/ UseOne(r) \/ Launch(r) \/ CopyDevice(r, s) \/ UseTwo(r, s)
    PROVE  Follows
<1>1. ASSUME NEW e, Refuse(e) PROVE Follows
  BY <1>1, SwitchFollows DEF Refuse, handles
<1>2. ASSUME Held(r), NEW o, NEW n \in Nat, Perform(o, home[r], {r}, n) PROVE Follows
  BY <1>2, HeldLives, PerformFollows
<1>3. ASSUME Held(r), Held(s), SameContext(r, s), NEW o, NEW n \in Nat,
             Perform(o, home[r], {r, s}, n)
      PROVE  Follows
  BY <1>3, HeldLives, PerformFollows DEF SameContext
<1>4. CASE CopyHost(r)
  BY <1>1, <1>2, <1>4, ResourceAssumption DEF CopyHost
<1>5. CASE UseOne(r) \/ Launch(r)
  BY <1>1, <1>2, <1>5 DEF UseOne, Launch
<1>6. CASE CopyDevice(r, s)
  <2>1. bytes[s] \in Nat
    BY DEF IInv, TypeOK
  <2> QED BY <1>1, <1>3, <1>6, <2>1 DEF CopyDevice
<1>7. CASE UseTwo(r, s)
  BY <1>1, <1>3, <1>7 DEF UseTwo
<1> QED BY <1>4, <1>5, <1>6, <1>7

\* A destructor asks for its own object in its own context, or for nothing.
LEMMA DropFollows == ASSUME IInv, NEW r \in Resources, Drop(r) PROVE Follows
<1>1. /\ parent[r] = r /\ \A s \in Resources \ {r} : parent[s] # r
      /\ TypeOK /\ Held(r)
  BY DEF Drop, IInv, Borrows
<1>2. parent' = parent /\ open' = open
  BY <1>1 DEF Drop, Forget, TypeOK
<1>3. CASE CallIn(home[r], {r}, 0) /\ alive' = [alive EXCEPT ![r] = NoContext]
  <2>1. Vendor!Ask({r})
    BY <1>1, <1>2, <1>3, HeldLives, CallAsks
  <2>2. alive' = [x \in Resources |-> IF parent[x] = r THEN NoContext ELSE alive[x]]
    BY <1>1, <1>3 DEF TypeOK
  <2> QED BY <1>2, <2>1, <2>2 DEF Follows, Vendor!Next, Vendor!Free
<1>4. CASE CallIn(home[r], {r}, 0) /\ UNCHANGED alive
  <2>1. /\ Vendor!Ask({r}) /\ called' # NoCall /\ Asked' # NoCall
        /\ Asked' = [context |-> home[r], objects |-> {r}]
    BY <1>1, <1>2, <1>4, HeldLives, CallAsks
  <2>2. Vendor!Use
    BY <1>2, <1>4, <2>1 DEF Vendor!Use, Asked
  <2> QED BY <2>2 DEF Follows, Vendor!Next
<1>5. CASE called' = NoCall /\ UNCHANGED <<current, alive>>
  BY <1>2, <1>5, SwitchFollows
<1> QED BY <1>3, <1>4, <1>5 DEF Drop

\* A Function ends without a call because its module still owns it.
LEMMA DropFunctionFollows == ASSUME IInv, NEW r \in Resources, DropFunction(r) PROVE Follows
<1>1. parent[r] # r
  BY DEF DropFunction, IInv, Borrows
<1> QED BY <1>1 DEF DropFunction, Forget, Follows, Vendor!Next, Vendor!Release

\* The vendor's rules keep the current context among those that exist.
LEMMA RulesKeepCurrent ==
    ASSUME CurrentExists, Follows PROVE CurrentExists'
BY DEF CurrentExists, Follows, Vendor!Next, Vendor!vars, Vendor!Use, Vendor!Ask,
   Vendor!Switch, Vendor!Free, Vendor!Release, Vendor!Make, Vendor!BeginContext,
   Vendor!EndContext, Vendor!LoseContext

\* The typed handles use the vendor's objects as the vendor's rules demand,
\* destructors and leaks included.
THEOREM ImplementsVendorRules == Spec => KeepsVendorRules
<1>1. Init => Vendor!Init /\ CurrentExists
  BY DEF Init, Vendor!Init, CurrentExists
<1>2. ASSUME IInv, CurrentExists, [Next]_vars PROVE Follows
  <2>1. CASE UNCHANGED vars
    BY <2>1 DEF vars, Follows, Vendor!vars
  <2>2. CASE Elsewhere
    BY <2>2, SwitchFollows DEF Elsewhere, handles
  <2> QED BY <1>2, <2>1, <2>2, ContextFollows, CreateFollows, UseFollows, DropFollows,
       DropFunctionFollows DEF Next
<1>3. IInv /\ CurrentExists /\ [Next]_vars => [Vendor!Next]_(Vendor!vars) /\ CurrentExists'
  BY <1>2, RulesKeepCurrent DEF Follows
<1> QED BY <1>1, <1>3, ResourceInvariance, PTL DEF Spec, KeepsVendorRules, Vendor!Spec

=============================================================================
