----------------------------- MODULE RtcProgram -----------------------------
(***************************************************************************)
(* Program<B> of ocgpu-rtc: the object that owns one vendor compiler       *)
(* program.  A Program is neither Send nor Sync, so each method runs to    *)
(* its end before the next begins; what is hard is the other side, a       *)
(* vendor compiler that may fail at any call, and the three facts about it *)
(* the object remembers: whether it owns a handle, whether a compilation   *)
(* was ever attempted, whether the latest one succeeded.                   *)
(***************************************************************************)
EXTENDS Naturals

CONSTANTS
    Programs,       \* variables of the application that may hold a Program
    Sizes,          \* byte and item counts of inputs and of vendor outputs
    Policies,       \* the Limits values an application passes
    DefaultLimits,  \* Limits::default()
    MaxCount,       \* i32::MAX, the vendor interface's largest item count
    MaxBuilds,      \* bound: compilations of one program
    Outputs,        \* optional native outputs (cubin, LTO IR, bitcode, ...)
    SizeExported,   \* those whose size getter the vendor library exports
    BytesExported   \* those whose byte getter it exports

LimitRecords == [source : Nat, options : Nat, headers : Nat, log : Nat, code : Nat]

ASSUME ProgramAssumption ==
    /\ Sizes \subseteq Nat
    /\ Policies \subseteq LimitRecords
    /\ DefaultLimits \in LimitRecords
    /\ MaxCount \in Nat
    /\ MaxBuilds \in Nat
    /\ SizeExported \subseteq Outputs
    /\ BytesExported \subseteq Outputs

VARIABLES
    owned,      \* owned[p]: the object exists and holds a handle
    attempted,  \* owned object's compile_attempted
    compiled,   \* owned object's compiled
    limits,     \* owned object's limits
    granted,    \* the vendor handed out ownership of the program now in p
    destroys,   \* calls of destroy_program with that program
    builds,     \* calls of compile_program with that program
    good,       \* the latest of them that succeeded, or 0
    namedAt,    \* builds when a name expression was last registered
    last        \* what the latest method returned

object == <<owned, attempted, compiled, limits>>
vendor == <<granted, destroys, builds, good, namedAt>>
vars == <<owned, attempted, compiled, limits,
          granted, destroys, builds, good, namedAt, last>>

Operations == {"none", "create", "name", "compile", "log", "log_with_limit",
               "code", "lowered", "native", "destroy"}
Refusals == {"TooManyItems", "InputTooLarge", "InvalidState",
             "MissingOptionalSymbol"}
Errors == {"None", "AllocationFailed", "Rtc", "NullOutput", "OutputTooLarge",
           "Compile"} \cup Refusals

\* error is "None" for Ok; size is the bytes copied out to the caller and limit
\* the bound in force for the copy; build is the compilation they come from.
Replies == [op : Operations, program : Programs, error : Errors,
            size : Nat, limit : Nat, build : Nat]

Copy(o, p, e, n, lim) ==
    [op |-> o, program |-> p, error |-> e, size |-> n, limit |-> lim, build |-> good[p]]

Reply(o, p, e) == Copy(o, p, e, 0, 0)

Init ==
    /\ owned = [p \in Programs |-> FALSE]
    /\ attempted = [p \in Programs |-> FALSE]
    /\ compiled = [p \in Programs |-> FALSE]
    /\ limits = [p \in Programs |-> DefaultLimits]
    /\ granted = [p \in Programs |-> FALSE]
    /\ destroys = [p \in Programs |-> 0]
    /\ builds = [p \in Programs |-> 0]
    /\ good = [p \in Programs |-> 0]
    /\ namedAt = [p \in Programs |-> 0]
    /\ last \in {[op |-> "none", program |-> p, error |-> "None",
                  size |-> 0, limit |-> 0, build |-> 0] : p \in Programs}

-----------------------------------------------------------------------------
(* Creation.                                                               *)

\* Headers or options: their count, their lengths, the vendor's int for the count.
ItemsRefusal(count, longest, bound, lim) ==
    CASE count > bound -> "TooManyItems"
      [] count <= bound /\ count > 0 /\ longest > lim.source -> "InputTooLarge"
      [] OTHER -> IF count > MaxCount THEN "TooManyItems" ELSE "None"

\* create_program_with_limits checks source and name before the headers.
CreateRefusal(source, headers, longest, lim) ==
    IF source > lim.source THEN "InputTooLarge"
    ELSE ItemsRefusal(headers, longest, lim.headers, lim)

\* Refused, or a pointer array cannot be reserved: the vendor is not called.
CreateRefused(p) ==
    /\ ~owned[p]
    /\ \/ \E source, headers, longest \in Sizes, lim \in Policies :
              LET e == CreateRefusal(source, headers, longest, lim)
              IN  e # "None" /\ last' = Reply("create", p, e)
       \/ last' = Reply("create", p, "AllocationFailed")
    /\ UNCHANGED <<object, vendor>>

\* A vendor program that has no past takes the place of the one p held before.
Fresh(p, grant) ==
    /\ granted' = [granted EXCEPT ![p] = grant]
    /\ destroys' = [destroys EXCEPT ![p] = 0]
    /\ builds' = [builds EXCEPT ![p] = 0]
    /\ good' = [good EXCEPT ![p] = 0]
    /\ namedAt' = [namedAt EXCEPT ![p] = 0]

\* Mutant: a failure that left a non-null handle behind is wrapped all the same,
\* for its destructor to clean up.
CreateFailedOwned(p) ==
    /\ ~owned[p]
    /\ \E e \in {"Rtc", "NullOutput"} : last' = Reply("create", p, e)
    /\ owned' = [owned EXCEPT ![p] = last'.error = "Rtc"]
    /\ Fresh(p, FALSE)
    /\ UNCHANGED <<attempted, compiled, limits>>

\* The vendor fails, leaving any value in the handle, or succeeds and leaves
\* null: nothing is owned.
CreateFailed(p) ==
    /\ ~owned[p]
    /\ \E e \in {"Rtc", "NullOutput"} : last' = Reply("create", p, e)
    /\ Fresh(p, FALSE)
    /\ UNCHANGED object

Create(p) ==
    /\ ~owned[p]
    /\ \E source, headers, longest \in Sizes, lim \in Policies :
        /\ CreateRefusal(source, headers, longest, lim) = "None"
        /\ limits' = [limits EXCEPT ![p] = lim]
    /\ owned' = [owned EXCEPT ![p] = TRUE]
    /\ attempted' = [attempted EXCEPT ![p] = FALSE]
    /\ compiled' = [compiled EXCEPT ![p] = FALSE]
    /\ Fresh(p, TRUE)
    /\ last' = Reply("create", p, "None")

-----------------------------------------------------------------------------
(* Copying bytes out of the vendor program.                                *)

\* read_bounded: ask for the size, refuse what exceeds the bound, copy nothing
\* for zero, else allocate and fetch.  The vendor may fail at either call.
BoundedReads(o, p, lim) ==
    {Reply(o, p, "Rtc")}
    \cup {IF n > lim THEN Reply(o, p, "OutputTooLarge")
          ELSE Copy(o, p, "None", n, lim) : n \in Sizes}
    \cup {Reply(o, p, "AllocationFailed") : n \in {m \in Sizes : 0 < m /\ m <= lim}}

\* log and log_with_limit have no lifecycle check.
Log(p) ==
    /\ owned[p]
    /\ \/ last' \in BoundedReads("log", p, limits[p].log)
       \/ \E l \in Policies : last' \in BoundedReads("log_with_limit", p, l.log)
    /\ UNCHANGED <<object, vendor>>

Code(p) ==
    /\ owned[p]
    /\ \/ ~compiled[p] /\ last' = Reply("code", p, "InvalidState")
       \/ compiled[p] /\ \E lim \in {limits[p].code} \cup {l.code : l \in Policies} :
              last' \in BoundedReads("code", p, lim)
    /\ UNCHANGED <<object, vendor>>

\* native_output and bitcode: optional getters, resolved after the state check.
NativeOutput(p) ==
    /\ owned[p]
    /\ \/ ~compiled[p] /\ last' = Reply("native", p, "InvalidState")
       \/ /\ compiled[p]
          /\ \E output \in Outputs :
              \/ /\ output \notin SizeExported \cap BytesExported
                 /\ last' = Reply("native", p, "MissingOptionalSymbol")
              \/ /\ output \in SizeExported \cap BytesExported
                 /\ \E lim \in {limits[p].code} \cup {l.code : l \in Policies} :
                        last' \in BoundedReads("native", p, lim)
    /\ UNCHANGED <<object, vendor>>

LoweredName(p) ==
    /\ owned[p]
    /\ \/ ~compiled[p] /\ last' = Reply("lowered", p, "InvalidState")
       \/ /\ compiled[p]
          /\ \E expression \in Sizes :
              \/ /\ expression > limits[p].source
                 /\ last' = Reply("lowered", p, "InputTooLarge")
              \/ /\ expression <= limits[p].source
                 /\ last' \in {Reply("lowered", p, e) :
                                   e \in {"Rtc", "NullOutput", "None"}}
    /\ UNCHANGED <<object, vendor>>

-----------------------------------------------------------------------------
(* Registering names and compiling.                                        *)

\* Mutant: names are refused only after a successful compilation.
AcceptsNamesUntilCompiled(p) == ~compiled[p]

AcceptsNames(p) == ~attempted[p]

AddNameExpression(p) ==
    /\ owned[p]
    /\ \E expression \in Sizes :
        \/ /\ ~AcceptsNames(p)
           /\ last' = Reply("name", p, "InvalidState")
           /\ UNCHANGED namedAt
        \/ /\ AcceptsNames(p)
           /\ expression > limits[p].source
           /\ last' = Reply("name", p, "InputTooLarge")
           /\ UNCHANGED namedAt
        \/ /\ AcceptsNames(p)
           /\ expression <= limits[p].source
           /\ \E e \in {"None", "Rtc"} : last' = Reply("name", p, e)
           /\ namedAt' = [namedAt EXCEPT ![p] = builds[p]]
    /\ UNCHANGED <<object, granted, destroys, builds, good>>

\* Mutant: the attempt is noted before the options are checked.
CompileRefusedNoted(p) ==
    /\ owned[p]
    /\ \E options, longest \in Sizes, lim \in Policies \cup {limits[p]} :
           LET e == ItemsRefusal(options, longest, lim.options, lim)
           IN  e # "None" /\ last' = Reply("compile", p, e)
    /\ attempted' = [attempted EXCEPT ![p] = TRUE]
    /\ UNCHANGED <<owned, compiled, limits, vendor>>

\* A refused compile, or one whose option array cannot be reserved, leaves the
\* object and the vendor program as they were.
CompileRefused(p) ==
    /\ owned[p]
    /\ \/ \E options, longest \in Sizes, lim \in Policies \cup {limits[p]} :
              LET e == ItemsRefusal(options, longest, lim.options, lim)
              IN  e # "None" /\ last' = Reply("compile", p, e)
       \/ last' = Reply("compile", p, "AllocationFailed")
    /\ UNCHANGED <<object, vendor>>

Compiles(p) ==
    /\ owned[p]
    /\ builds[p] < MaxBuilds
    /\ builds' = [builds EXCEPT ![p] = @ + 1]
    /\ attempted' = [attempted EXCEPT ![p] = TRUE]
    /\ UNCHANGED <<owned, limits, granted, destroys, namedAt>>

CompileSucceeds(p) ==
    /\ Compiles(p)
    /\ compiled' = [compiled EXCEPT ![p] = TRUE]
    /\ good' = [good EXCEPT ![p] = builds[p] + 1]
    /\ last' = Copy("compile", p, "None", 0, 0)

\* Mutant: the error of reading the log replaces the compilation's own.
FailureReplyMasked(p, lim, log) ==
    IF log.error = "None" THEN Copy("compile", p, "Compile", log.size, lim.log)
    ELSE Reply("compile", p, log.error)

\* The failure carries the log, or an empty one and the reason.
FailureReply(p, lim, log) ==
    Copy("compile", p, "Compile",
         IF log.error = "None" THEN log.size ELSE 0, lim.log)

\* Mutant: compiled keeps the verdict of an earlier compilation.
CompileFailsStale(p) ==
    /\ Compiles(p)
    /\ UNCHANGED <<compiled, good>>
    /\ \E lim \in Policies \cup {limits[p]} :
           \E log \in BoundedReads("log", p, lim.log) : last' = FailureReply(p, lim, log)

\* Mutant: the log is read under the program's own bound.
CompileFailsOwnLimit(p) ==
    /\ Compiles(p)
    /\ compiled' = [compiled EXCEPT ![p] = FALSE]
    /\ UNCHANGED good
    /\ \E lim \in Policies \cup {limits[p]} :
           \E log \in BoundedReads("log", p, limits[p].log) :
               last' = FailureReply(p, lim, log)

CompileFails(p) ==
    /\ Compiles(p)
    /\ compiled' = [compiled EXCEPT ![p] = FALSE]
    /\ UNCHANGED good
    /\ \E lim \in Policies \cup {limits[p]} :
           \E log \in BoundedReads("log", p, lim.log) : last' = FailureReply(p, lim, log)

-----------------------------------------------------------------------------
(* The end of a program.                                                   *)

\* destroy and Drop call the vendor once and forget the handle whatever the
\* result; Drop does not even report it.
Destroy(p) ==
    /\ owned[p]
    /\ owned' = [owned EXCEPT ![p] = FALSE]
    /\ destroys' = [destroys EXCEPT ![p] = @ + 1]
    /\ \E e \in {"None", "Rtc"} : last' = Reply("destroy", p, e)
    /\ UNCHANGED <<attempted, compiled, limits, granted, builds, good, namedAt>>

-----------------------------------------------------------------------------

Step(p) ==
    \/ CreateRefused(p) \/ CreateFailed(p) \/ Create(p)
    \/ Log(p) \/ Code(p) \/ NativeOutput(p) \/ LoweredName(p)
    \/ AddNameExpression(p)
    \/ CompileRefused(p) \/ CompileSucceeds(p) \/ CompileFails(p)
    \/ Destroy(p)

Next == \E p \in Programs : Step(p)

Spec == Init /\ [][Next]_vars

-----------------------------------------------------------------------------
(* Properties.                                                             *)

\* Every variable stays in its domain.
TypeOK ==
    /\ owned \in [Programs -> BOOLEAN]
    /\ attempted \in [Programs -> BOOLEAN]
    /\ compiled \in [Programs -> BOOLEAN]
    /\ limits \in [Programs -> LimitRecords]
    /\ granted \in [Programs -> BOOLEAN]
    /\ destroys \in [Programs -> 0..1]
    /\ builds \in [Programs -> 0..MaxBuilds]
    /\ good \in [Programs -> 0..MaxBuilds]
    /\ namedAt \in [Programs -> 0..MaxBuilds]
    /\ last \in Replies

\* A vendor program is destroyed once its object is gone, exactly once whatever
\* the vendor said, and a handle that was never granted is never destroyed.
DestroyedOnce ==
    \A p \in Programs :
        destroys[p] = IF granted[p] /\ ~owned[p] THEN 1 ELSE 0

\* is_compiled is the verdict of the vendor's latest compilation and
\* compile_attempted tells whether there was one, refused calls included.
FlagsAreTrue ==
    \A p \in Programs : owned[p] =>
        /\ attempted[p] <=> builds[p] > 0
        /\ compiled[p] <=> (builds[p] > 0 /\ good[p] = builds[p])

\* Code, native output or a lowered name handed out belongs to the latest
\* compilation: a failed recompilation hides the older one's results.
OutputIsCurrent ==
    last.op \in {"code", "native", "lowered"} /\ last.error = "None"
    => last.build > 0 /\ last.build = builds[last.program]

\* The vendor is never given a name expression after it was asked to compile.
NamesPrecedeCompile == \A p \in Programs : namedAt[p] = 0

\* No copy exceeds the bound given with its call, the log inside a compile
\* failure included, whatever the program's own limits are.
CopiesAreBounded == last.size <= last.limit

\* A compilation the vendor rejected is reported as one, with its result code,
\* however badly reading the log then goes.
RejectionIsReported ==
    last.op = "compile" /\ last.error \notin Refusals \cup {"AllocationFailed"}
    => last.error = IF good[last.program] = builds[last.program]
                    THEN "None" ELSE "Compile"

\* The vendor program behind p, from what the vendor has seen of it.
PhaseOf(p) ==
    IF ~granted[p] \/ destroys[p] > 0 THEN "none"
    ELSE IF builds[p] = 0 THEN "new"
    ELSE IF good[p] = builds[p] THEN "built" ELSE "rejected"

\* A refusal, or an array that cannot be reserved for the call, precedes the
\* vendor; a read has asked for the size before it allocates.
Unasked(r) ==
    \/ r.op = "none"
    \/ r.error \in Refusals
    \/ r.op \in {"create", "compile"} /\ r.error = "AllocationFailed"

\* Whatever order the methods come in and wherever the vendor fails, the vendor is
\* asked only what its program's state allows: no output of a rejected build even
\* if the read would fail, no name after a compilation, no log of a destroyed one.
Vendor == INSTANCE VendorProgram WITH
    phase <- [p \in Programs |-> PhaseOf(p)],
    asked <- IF Unasked(last) THEN "nothing" ELSE last.op
KeepsVendorProtocol == Vendor!Spec

\* "Copies the current compiler log with the default 1 MiB bound" (Program::log).
LogWithinDefault == last.op = "log" => last.size <= DefaultLimits.log

=============================================================================
