-------------------------- MODULE RtcProgramProofs --------------------------
(***************************************************************************)
(* The safety properties of RtcProgram for every policy, every size and    *)
(* every number of programs and compilations.  Together they are inductive *)
(* once two facts are added: no program has a good compilation it never    *)
(* had, and no object wraps a handle it was not granted.                   *)
(***************************************************************************)
EXTENDS RtcProgram, TLAPS

\* The latest success is one of the compilations.
GoodIsBuilt == \A p \in Programs : good[p] <= builds[p]

\* An object exists only around a program the vendor handed out.
OwnedIsGranted == \A p \in Programs : owned[p] => granted[p]

IInv ==
    /\ TypeOK
    /\ DestroyedOnce
    /\ FlagsAreTrue
    /\ GoodIsBuilt
    /\ OwnedIsGranted
    /\ NamesPrecedeCompile
    /\ OutputIsCurrent
    /\ CopiesAreBounded
    /\ RejectionIsReported

-----------------------------------------------------------------------------
(* Replies.                                                                *)

\* The parts of a reply that copies bytes.
LEMMA CopyType ==
    ASSUME TypeOK, NEW p \in Programs, NEW o \in Operations, NEW e \in Errors,
           NEW n \in Nat, NEW lim \in Nat
    PROVE  /\ Copy(o, p, e, n, lim) \in Replies
           /\ Copy(o, p, e, n, lim).op = o
           /\ Copy(o, p, e, n, lim).program = p
           /\ Copy(o, p, e, n, lim).error = e
           /\ Copy(o, p, e, n, lim).size = n
           /\ Copy(o, p, e, n, lim).limit = lim
           /\ Copy(o, p, e, n, lim).build = good[p]
<1>1. good[p] \in Nat
    BY ProgramAssumption DEF TypeOK
<1> QED BY <1>1 DEF Copy, Replies

\* The parts of a reply that copies nothing.
LEMMA ReplyType ==
    ASSUME TypeOK, NEW p \in Programs, NEW o \in Operations, NEW e \in Errors
    PROVE  /\ Reply(o, p, e) \in Replies
           /\ Reply(o, p, e).op = o
           /\ Reply(o, p, e).program = p
           /\ Reply(o, p, e).error = e
           /\ Reply(o, p, e).size = 0
           /\ Reply(o, p, e).limit = 0
           /\ Reply(o, p, e).build = good[p]
<1> QED BY CopyType DEF Reply

\* A bounded read copies at most its bound and speaks of the good compilation.
LEMMA ReadType ==
    ASSUME TypeOK, NEW p \in Programs, NEW o \in Operations, NEW lim \in Nat,
           NEW r \in BoundedReads(o, p, lim)
    PROVE  /\ r \in Replies
           /\ r.op = o /\ r.program = p /\ r.build = good[p]
           /\ r.size <= r.limit
           /\ r.error = "None" => r.size <= lim
           /\ r.error # "Compile"
<1>1. PICK e \in {"Rtc", "OutputTooLarge", "AllocationFailed", "None"}, n \in Nat :
          \/ r = Reply(o, p, e)
          \/ r = Copy(o, p, "None", n, lim) /\ n <= lim
    BY ProgramAssumption DEF BoundedReads
<1>2. {"Rtc", "OutputTooLarge", "AllocationFailed", "None"} \subseteq Errors
    BY DEF Errors
<1>3. CASE r = Reply(o, p, e)
    BY <1>1, <1>2, <1>3, ReplyType
<1>4. CASE r = Copy(o, p, "None", n, lim) /\ n <= lim
    BY <1>1, <1>2, <1>4, CopyType
<1> QED BY <1>1, <1>3, <1>4

-----------------------------------------------------------------------------
(* The invariant holds initially and every step preserves it.              *)

\* At the start there is no program.
LEMMA InitIInv == Init => IInv
<1> SUFFICES ASSUME Init PROVE IInv
    OBVIOUS
<1> USE ProgramAssumption DEF Init
<1>1. TypeOK
    <2>1. PICK p \in Programs : last = [op |-> "none", program |-> p, error |-> "None",
                                       size |-> 0, limit |-> 0, build |-> 0]
        OBVIOUS
    <2>2. last \in Replies
        BY <2>1 DEF Replies, Operations, Errors
    <2> QED BY <2>2 DEF TypeOK
<1>2. last.op = "none" /\ last.size = 0 /\ last.limit = 0
    OBVIOUS
<1> QED BY <1>1, <1>2 DEF IInv, DestroyedOnce, FlagsAreTrue, GoodIsBuilt,
        OwnedIsGranted,
        NamesPrecedeCompile, OutputIsCurrent, CopiesAreBounded, RejectionIsReported

\* What a step that leaves the programs alone has to show about its reply.
LEMMA QuietStep ==
    ASSUME IInv, UNCHANGED <<object, vendor>>, last' \in Replies,
           last'.size <= last'.limit,
           last'.op \in {"code", "native", "lowered"} /\ last'.error = "None" =>
               /\ owned[last'.program] /\ compiled[last'.program]
               /\ last'.build = good[last'.program],
           last'.op = "compile" =>
               last'.error \in Refusals \cup {"AllocationFailed"}
    PROVE  IInv'
<1> USE DEF IInv, object, vendor
<1>1. TypeOK' /\ DestroyedOnce' /\ FlagsAreTrue' /\ GoodIsBuilt'
      /\ OwnedIsGranted' /\ NamesPrecedeCompile'
    BY DEF TypeOK, DestroyedOnce, FlagsAreTrue, GoodIsBuilt,
           OwnedIsGranted, NamesPrecedeCompile
<1>2. last'.program \in Programs
    BY DEF Replies
<1>3. OutputIsCurrent'
    BY <1>2 DEF OutputIsCurrent, FlagsAreTrue, TypeOK
<1>4. CopiesAreBounded' /\ RejectionIsReported'
    BY DEF CopiesAreBounded, RejectionIsReported
<1> QED BY <1>1, <1>3, <1>4

\* The names of operations and errors.
LEMMA ReplyVocabulary ==
    /\ {"create", "name", "compile", "log", "log_with_limit", "code", "lowered",
        "native", "destroy"} \subseteq Operations
    /\ Refusals \cup {"None", "AllocationFailed", "Rtc", "NullOutput", "Compile"}
           \subseteq Errors
    BY DEF Operations, Errors

\* What the checks of headers and options may answer.
LEMMA RefusalKinds ==
    ASSUME NEW count, NEW longest, NEW bound, NEW lim
    PROVE  ItemsRefusal(count, longest, bound, lim)
               \in {"None", "TooManyItems", "InputTooLarge"}
    BY DEF ItemsRefusal

\* A refused creation: no vendor call.
LEMMA CreateRefusedIInv ==
    ASSUME IInv, NEW p \in Programs, CreateRefused(p) PROVE IInv'
<1>1. PICK e \in {"TooManyItems", "InputTooLarge", "AllocationFailed"} :
          last' = Reply("create", p, e)
    BY RefusalKinds DEF CreateRefused, CreateRefusal
<1>2. e \in Errors /\ "create" \in Operations
    BY ReplyVocabulary DEF Refusals
<1>3. last' \in Replies /\ last'.op = "create" /\ last'.size = 0 /\ last'.limit = 0
    BY <1>1, <1>2, ReplyType DEF IInv
<1> QED BY <1>3, QuietStep DEF CreateRefused

\* A failed creation: the object owns nothing, whatever the handle holds.
LEMMA CreateFailedIInv ==
    ASSUME IInv, NEW p \in Programs, CreateFailed(p) PROVE IInv'
<1> USE DEF IInv, CreateFailed, Fresh, object
<1>1. /\ last' \in Replies /\ last'.op = "create"
      /\ last'.size = 0 /\ last'.limit = 0
    BY ReplyType, ReplyVocabulary
<1>2. TypeOK'
    BY <1>1, ProgramAssumption DEF TypeOK
<1>3. DestroyedOnce' /\ FlagsAreTrue' /\ GoodIsBuilt'
      /\ OwnedIsGranted' /\ NamesPrecedeCompile'
    BY DEF TypeOK, DestroyedOnce, FlagsAreTrue, GoodIsBuilt,
           OwnedIsGranted, NamesPrecedeCompile
<1> QED BY <1>1, <1>2, <1>3 DEF OutputIsCurrent, CopiesAreBounded, RejectionIsReported

\* A program is granted and owned, its flags clear.
LEMMA CreateIInv ==
    ASSUME IInv, NEW p \in Programs, Create(p) PROVE IInv'
<1> USE DEF IInv, Create, Fresh
<1>1. /\ last' \in Replies /\ last'.op = "create"
      /\ last'.size = 0 /\ last'.limit = 0
    BY ReplyType, ReplyVocabulary
<1>2. TypeOK'
    BY <1>1, ProgramAssumption DEF TypeOK
<1>3. DestroyedOnce' /\ FlagsAreTrue' /\ GoodIsBuilt'
      /\ OwnedIsGranted' /\ NamesPrecedeCompile'
    BY DEF TypeOK, DestroyedOnce, FlagsAreTrue, GoodIsBuilt,
           OwnedIsGranted, NamesPrecedeCompile
<1> QED BY <1>1, <1>2, <1>3 DEF OutputIsCurrent, CopiesAreBounded, RejectionIsReported

\* The bounds of a program are numbers.
LEMMA BoundsInNat ==
    ASSUME TypeOK, NEW p \in Programs, NEW lim \in Policies \cup {limits[p]}
    PROVE  lim.log \in Nat /\ lim.code \in Nat
    BY ProgramAssumption DEF TypeOK, LimitRecords

\* Reading the log in any state.
LEMMA LogIInv == ASSUME IInv, NEW p \in Programs, Log(p) PROVE IInv'
<1>1. PICK o \in {"log", "log_with_limit"}, lim \in Policies \cup {limits[p]} :
          last' \in BoundedReads(o, p, lim.log)
    BY DEF Log
<1>2. o \in Operations /\ lim.log \in Nat
    BY BoundsInNat, ReplyVocabulary DEF IInv
<1>3. last' \in Replies /\ last'.op = o /\ last'.size <= last'.limit
    BY <1>1, <1>2, ReadType DEF IInv
<1> QED BY <1>1, <1>3, QuietStep DEF Log

\* Reading code after a successful compilation only.
LEMMA CodeIInv == ASSUME IInv, NEW p \in Programs, Code(p) PROVE IInv'
<1>1. CASE last' = Reply("code", p, "InvalidState")
    <2>1. /\ last' \in Replies /\ last'.op = "code" /\ last'.error = "InvalidState"
          /\ last'.size = 0 /\ last'.limit = 0
        BY <1>1, ReplyType, ReplyVocabulary DEF IInv, Refusals
    <2> QED BY <2>1, QuietStep DEF Code
<1>2. CASE compiled[p] /\ \E lim \in Policies \cup {limits[p]} :
               last' \in BoundedReads("code", p, lim.code)
    <2>1. PICK lim \in Policies \cup {limits[p]} :
              last' \in BoundedReads("code", p, lim.code)
        BY <1>2
    <2>2. /\ last' \in Replies /\ last'.op = "code" /\ last'.size <= last'.limit
          /\ last'.program = p /\ last'.build = good[p]
        BY <2>1, BoundsInNat, ReadType, ReplyVocabulary DEF IInv
    <2> QED BY <1>2, <2>2, QuietStep DEF Code
<1> QED BY <1>1, <1>2 DEF Code

\* Reading optional output after a successful compilation only.
LEMMA NativeOutputIInv == ASSUME IInv, NEW p \in Programs, NativeOutput(p) PROVE IInv'
<1>1. CASE \E e \in {"InvalidState", "MissingOptionalSymbol"} :
               last' = Reply("native", p, e)
    <2>1. /\ last' \in Replies /\ last'.op = "native" /\ last'.error # "None"
          /\ last'.size = 0 /\ last'.limit = 0
        BY <1>1, ReplyType, ReplyVocabulary DEF IInv, Refusals
    <2> QED BY <2>1, QuietStep DEF NativeOutput
<1>2. CASE compiled[p] /\ \E lim \in Policies \cup {limits[p]} :
               last' \in BoundedReads("native", p, lim.code)
    <2>1. PICK lim \in Policies \cup {limits[p]} :
              last' \in BoundedReads("native", p, lim.code)
        BY <1>2
    <2>2. /\ last' \in Replies /\ last'.op = "native" /\ last'.size <= last'.limit
          /\ last'.program = p /\ last'.build = good[p]
        BY <2>1, BoundsInNat, ReadType, ReplyVocabulary DEF IInv
    <2> QED BY <1>2, <2>2, QuietStep DEF NativeOutput
<1> QED BY <1>1, <1>2 DEF NativeOutput

\* Resolving a name after a successful compilation only.
LEMMA LoweredNameIInv == ASSUME IInv, NEW p \in Programs, LoweredName(p) PROVE IInv'
<1>1. PICK e \in Refusals \cup {"None", "Rtc", "NullOutput"} :
          last' = Reply("lowered", p, e) /\ (e = "None" => compiled[p])
    BY DEF LoweredName, Refusals
<1>2. /\ last' \in Replies /\ last'.op = "lowered" /\ last'.error = e
      /\ last'.size = 0 /\ last'.limit = 0
      /\ last'.program = p /\ last'.build = good[p]
    BY <1>1, ReplyType, ReplyVocabulary DEF IInv
<1> QED BY <1>1, <1>2, QuietStep DEF LoweredName

\* A name is registered only while nothing was compiled, so at compilation 0.
LEMMA AddNameExpressionIInv ==
    ASSUME IInv, NEW p \in Programs, AddNameExpression(p) PROVE IInv'
<1> USE DEF IInv, AddNameExpression, object
<1>1. PICK e \in Refusals \cup {"None", "Rtc"} : last' = Reply("name", p, e)
    BY DEF Refusals
<1>2. /\ last' \in Replies /\ last'.op = "name"
      /\ last'.size = 0 /\ last'.limit = 0
    BY <1>1, ReplyType, ReplyVocabulary
<1>3. \/ namedAt' = namedAt
      \/ ~attempted[p] /\ namedAt' = [namedAt EXCEPT ![p] = builds[p]]
    BY DEF AcceptsNames
<1>4. ~attempted[p] => builds[p] = 0
    BY DEF FlagsAreTrue, TypeOK
<1>5. TypeOK' /\ NamesPrecedeCompile'
    BY <1>2, <1>3, <1>4 DEF TypeOK, NamesPrecedeCompile
<1>6. DestroyedOnce' /\ FlagsAreTrue' /\ GoodIsBuilt' /\ OwnedIsGranted'
    BY DEF DestroyedOnce, FlagsAreTrue, GoodIsBuilt, OwnedIsGranted
<1> QED BY <1>2, <1>5, <1>6 DEF OutputIsCurrent, CopiesAreBounded, RejectionIsReported

\* A refused compile leaves flags and vendor alone.
LEMMA CompileRefusedIInv ==
    ASSUME IInv, NEW p \in Programs, CompileRefused(p) PROVE IInv'
<1>1. PICK e \in {"TooManyItems", "InputTooLarge", "AllocationFailed"} :
          last' = Reply("compile", p, e)
    BY RefusalKinds DEF CompileRefused
<1>2. e \in Refusals \cup {"AllocationFailed"}
    BY DEF Refusals
<1>3. /\ last' \in Replies /\ last'.op = "compile" /\ last'.error = e
      /\ last'.size = 0 /\ last'.limit = 0
    BY <1>1, <1>2, ReplyType, ReplyVocabulary DEF IInv
<1> QED BY <1>2, <1>3, QuietStep DEF CompileRefused

\* A compilation succeeds: it is the good one.
LEMMA CompileSucceedsIInv ==
    ASSUME IInv, NEW p \in Programs, CompileSucceeds(p) PROVE IInv'
<1> USE DEF IInv, CompileSucceeds, Compiles
<1>1. /\ last' \in Replies /\ last'.op = "compile" /\ last'.error = "None"
      /\ last'.program = p /\ last'.size = 0 /\ last'.limit = 0
    BY CopyType, ReplyVocabulary
<1>2. TypeOK'
    BY <1>1, ProgramAssumption DEF TypeOK
<1>3. DestroyedOnce' /\ NamesPrecedeCompile'
    BY DEF DestroyedOnce, NamesPrecedeCompile
<1>4. FlagsAreTrue' /\ GoodIsBuilt' /\ OwnedIsGranted'
    BY ProgramAssumption DEF TypeOK, FlagsAreTrue, GoodIsBuilt, OwnedIsGranted
<1>5. good'[p] = builds'[p]
    BY DEF TypeOK
<1> QED BY <1>1, <1>2, <1>3, <1>4, <1>5
        DEF OutputIsCurrent, CopiesAreBounded, RejectionIsReported

\* A compilation fails: the flag is reset, the log bounded by the call.
LEMMA CompileFailsIInv ==
    ASSUME IInv, NEW p \in Programs, CompileFails(p) PROVE IInv'
<1> USE DEF IInv, CompileFails, Compiles
<1>0. PICK lim \in Policies \cup {limits[p]} :
          \E log \in BoundedReads("log", p, lim.log) : last' = FailureReply(p, lim, log)
    OBVIOUS
<1>1. PICK log \in BoundedReads("log", p, lim.log) : last' = FailureReply(p, lim, log)
    BY <1>0
<1>2. lim.log \in Nat
    BY BoundsInNat
<1>3. log.size \in Nat /\ (log.error = "None" => log.size <= lim.log)
    BY <1>2, ReadType, ReplyVocabulary DEF Replies
<1>4. PICK n \in Nat : last' = Copy("compile", p, "Compile", n, lim.log) /\ n <= lim.log
    BY <1>1, <1>2, <1>3 DEF FailureReply
<1>5. /\ last' \in Replies /\ last'.op = "compile" /\ last'.error = "Compile"
      /\ last'.program = p /\ last'.size <= last'.limit
    <2>1. "compile" \in Operations /\ "Compile" \in Errors
        BY ReplyVocabulary
    <2> HIDE DEF CompileFails, Compiles, IInv
    <2>2. TypeOK
        BY DEF IInv
    <2> QED BY <1>2, <1>4, <2>1, <2>2, CopyType
<1>6. TypeOK'
    BY <1>5, ProgramAssumption DEF TypeOK
<1>7. DestroyedOnce' /\ NamesPrecedeCompile'
    BY DEF DestroyedOnce, NamesPrecedeCompile
<1>8. FlagsAreTrue' /\ GoodIsBuilt' /\ OwnedIsGranted'
    BY ProgramAssumption DEF TypeOK, FlagsAreTrue, GoodIsBuilt, OwnedIsGranted
<1>9. good'[p] # builds'[p]
    BY DEF TypeOK, GoodIsBuilt
<1> QED BY <1>5, <1>6, <1>7, <1>8, <1>9
        DEF OutputIsCurrent, CopiesAreBounded, RejectionIsReported

\* The program is destroyed once and forgotten.
LEMMA DestroyIInv == ASSUME IInv, NEW p \in Programs, Destroy(p) PROVE IInv'
<1> USE DEF IInv, Destroy
<1>1. /\ last' \in Replies /\ last'.op = "destroy"
      /\ last'.size = 0 /\ last'.limit = 0
    BY ReplyType, ReplyVocabulary
<1>2. owned[p] /\ granted[p] /\ destroys[p] = 0
    BY DEF DestroyedOnce, OwnedIsGranted
<1>3. TypeOK'
    BY <1>1, <1>2 DEF TypeOK
<1>4. DestroyedOnce' /\ FlagsAreTrue' /\ GoodIsBuilt'
      /\ OwnedIsGranted' /\ NamesPrecedeCompile'
    BY <1>2 DEF TypeOK, DestroyedOnce, FlagsAreTrue, GoodIsBuilt,
           OwnedIsGranted, NamesPrecedeCompile
<1> QED BY <1>1, <1>3, <1>4 DEF OutputIsCurrent, CopiesAreBounded, RejectionIsReported

\* Every method preserves the invariant.
LEMMA NextIInv == IInv /\ [Next]_vars => IInv'
<1> SUFFICES ASSUME IInv, [Next]_vars PROVE IInv'
    OBVIOUS
<1>1. ASSUME NEW p \in Programs, Step(p) PROVE IInv'
    BY <1>1, CreateRefusedIInv, CreateFailedIInv, CreateIInv, LogIInv, CodeIInv,
       NativeOutputIInv, LoweredNameIInv, AddNameExpressionIInv, CompileRefusedIInv,
       CompileSucceedsIInv, CompileFailsIInv, DestroyIInv DEF Step
<1>2. CASE UNCHANGED vars
    BY <1>2 DEF vars, IInv, TypeOK, DestroyedOnce, FlagsAreTrue, GoodIsBuilt,
        OwnedIsGranted,
       NamesPrecedeCompile, OutputIsCurrent, CopiesAreBounded, RejectionIsReported
<1> QED BY <1>1, <1>2 DEF Next

\* The program object and the vendor program behind it agree in every state of
\* Program: the inductive invariant.
THEOREM ProgramInvariance == Spec => []IInv
<1> QED BY InitIInv, NextIInv, PTL DEF Spec

-----------------------------------------------------------------------------
(* What follows.                                                           *)

\* Every variable of a Program and of its vendor program stays in its domain.
THEOREM ProgramTypes == Spec => []TypeOK
<1>1. IInv => TypeOK
    BY DEF IInv
<1> QED BY <1>1, ProgramInvariance, PTL

\* destroy and Drop, between them, destroy each granted program exactly once.
THEOREM EachDestroyedOnce == Spec => []DestroyedOnce
<1>1. IInv => DestroyedOnce
    BY DEF IInv
<1> QED BY <1>1, ProgramInvariance, PTL

\* is_compiled and compile_attempted tell the vendor's side truly.
THEOREM FlagsStayTrue == Spec => []FlagsAreTrue
<1>1. IInv => FlagsAreTrue
    BY DEF IInv
<1> QED BY <1>1, ProgramInvariance, PTL

\* No result of an older compilation is handed out after a failed one.
THEOREM OutputsStayCurrent == Spec => []OutputIsCurrent
<1>1. IInv => OutputIsCurrent
    BY DEF IInv
<1> QED BY <1>1, ProgramInvariance, PTL

\* add_name_expression never reaches a program that was compiled.
THEOREM NamesComeFirst == Spec => []NamesPrecedeCompile
<1>1. IInv => NamesPrecedeCompile
    BY DEF IInv
<1> QED BY <1>1, ProgramInvariance, PTL

\* No vendor size makes a copy exceed the bound of its call.
THEOREM CopiesStayBounded == Spec => []CopiesAreBounded
<1>1. IInv => CopiesAreBounded
    BY DEF IInv
<1> QED BY <1>1, ProgramInvariance, PTL

\* A failure to read the log never hides the failure to compile.
THEOREM RejectionsReported == Spec => []RejectionIsReported
<1>1. IInv => RejectionIsReported
    BY DEF IInv
<1> QED BY <1>1, ProgramInvariance, PTL

-----------------------------------------------------------------------------
(* The vendor's protocol.                                                  *)

\* What the refinement maps the state to.
Phase == [p \in Programs |-> PhaseOf(p)]
Asked == IF Unasked(last) THEN "nothing" ELSE last.op

Follows == Vendor!Next \/ UNCHANGED Vendor!vars

\* An owned object's program lives, and its flags tell in which state it is.
LEMMA OwnedLives ==
    ASSUME IInv, NEW p \in Programs
    PROVE  /\ owned[p] => /\ Phase[p] \in Vendor!Living
                          /\ ~attempted[p] => Phase[p] = "new"
                          /\ compiled[p] => Phase[p] = "built"
           /\ ~owned[p] => Phase[p] = "none"
<1>1. /\ TypeOK
      /\ destroys[p] = (IF granted[p] /\ ~owned[p] THEN 1 ELSE 0)
      /\ owned[p] => /\ granted[p]
                     /\ attempted[p] <=> builds[p] > 0
                     /\ compiled[p] <=> (builds[p] > 0 /\ good[p] = builds[p])
  BY DEF IInv, DestroyedOnce, FlagsAreTrue, OwnedIsGranted
<1>2. builds[p] \in Nat
  BY <1>1, ProgramAssumption DEF TypeOK
<1>3. Phase[p] = PhaseOf(p)
  BY DEF Phase
<1> QED BY <1>1, <1>2, <1>3 DEF PhaseOf, Vendor!Living

\* A step that is about p moves no other program.
LEMMA OthersStay ==
    ASSUME NEW p \in Programs,
           \A q \in Programs \ {p} :
               /\ granted'[q] = granted[q] /\ destroys'[q] = destroys[q]
               /\ builds'[q] = builds[q] /\ good'[q] = good[q]
    PROVE  Phase' = [Phase EXCEPT ![p] = PhaseOf(p)']
BY DEF Phase, PhaseOf

\* A method that leaves the vendor program alone leaves its phase alone.
LEMMA QuietPhase == ASSUME UNCHANGED <<granted, destroys, builds, good>> PROVE Phase' = Phase
BY DEF Phase, PhaseOf

\* A bounded read always asks the vendor something.
LEMMA ReadAsks ==
    ASSUME NEW o \in {"log", "log_with_limit", "code", "native"}, NEW p, NEW lim,
           last' \in BoundedReads(o, p, lim)
    PROVE  Asked' = o
<1>1. last'.op = o /\ last'.error \in {"Rtc", "OutputTooLarge", "AllocationFailed", "None"}
  BY DEF BoundedReads, Reply, Copy
<1> QED BY <1>1 DEF Asked, Unasked, Refusals

\* And so does a call that passed its checks.
LEMMA ReplyAsks ==
    ASSUME NEW o \in Operations \ {"none"}, NEW p,
           NEW e \in {"None", "Rtc", "NullOutput", "Compile"}, NEW n, NEW lim,
           last' = Copy(o, p, e, n, lim) \/ last' = Reply(o, p, e)
    PROVE  Asked' = o
<1>1. last'.op = o /\ last'.error = e
  BY DEF Reply, Copy
<1> QED BY <1>1 DEF Asked, Unasked, Refusals

\* A refused call asks nothing.
LEMMA RefusalAsksNothing ==
    ASSUME NEW o, NEW p, NEW e, last' = Reply(o, p, e),
           e \in Refusals \/ (o \in {"create", "compile"} /\ e = "AllocationFailed"),
           UNCHANGED <<granted, destroys, builds, good>>
    PROVE  Follows
<1>1. last'.op = o /\ last'.error = e
  BY DEF Reply, Copy
<1>2. Asked' = "nothing"
  BY <1>1 DEF Asked, Unasked
<1>3. Phase' = Phase
  BY QuietPhase
<1> QED BY <1>2, <1>3
     DEF Follows, Vendor!Next, Vendor!AskNothing, Phase, Asked

\* Creation begins a program, or nothing at all.
LEMMA CreateFollows ==
    ASSUME IInv, NEW p \in Programs, CreateRefused(p) \/ CreateFailed(p) \/ Create(p)
    PROVE  Follows
<1>1. Phase[p] = "none"
  BY OwnedLives DEF CreateRefused, CreateFailed, Create
<1>2. CASE CreateRefused(p)
  <2>1. PICK e \in {"TooManyItems", "InputTooLarge", "AllocationFailed"} :
            last' = Reply("create", p, e)
    BY <1>2, RefusalKinds DEF CreateRefused, CreateRefusal
  <2> QED BY <1>2, <2>1, RefusalAsksNothing DEF CreateRefused, vendor, Refusals
<1>3. ASSUME Fresh(p, TRUE) \/ Fresh(p, FALSE),
             \E e \in {"None", "Rtc", "NullOutput"} : last' = Reply("create", p, e)
      PROVE  Follows
  <2>1. Asked' = "create"
    BY <1>3, ReplyAsks, ReplyVocabulary
  <2>2. Phase' = [Phase EXCEPT ![p] = PhaseOf(p)']
    BY <1>3, OthersStay DEF Fresh, IInv, TypeOK
  <2>3. PhaseOf(p)' \in {"none", "new"}
    BY <1>3 DEF Fresh, IInv, TypeOK, PhaseOf
  <2>4. Phase' = [Phase EXCEPT ![p] = "new"] \/ Phase' = Phase
    BY <1>1, <2>2, <2>3 DEF Phase
  <2> QED BY <1>1, <2>1, <2>4
       DEF Follows, Vendor!Next, Vendor!Begin, Vendor!Become, Phase, Asked
<1> QED BY <1>2, <1>3 DEF CreateFailed, Create

\* Logs are read of living programs.
LEMMA LogFollows == ASSUME IInv, NEW p \in Programs, Log(p) PROVE Follows
<1>1. Phase[p] \in Vendor!Living /\ Phase' = Phase
  BY OwnedLives, QuietPhase DEF Log, vendor
<1>2. PICK o \in {"log", "log_with_limit"}, lim \in Policies \cup {limits[p]} :
          last' \in BoundedReads(o, p, lim.log)
  BY DEF Log
<1>3. Asked' \in {"log", "log_with_limit"}
  BY <1>2, ReadAsks
<1> QED BY <1>1, <1>3 DEF Follows, Vendor!Next, Vendor!ReadLog, Phase, Asked

\* Outputs are asked for in the built state, or not at all.
LEMMA OutputFollows ==
    ASSUME IInv, NEW p \in Programs, Code(p) \/ NativeOutput(p) \/ LoweredName(p)
    PROVE  Follows
<1>1. /\ compiled[p] => Phase[p] = "built"
      /\ UNCHANGED <<granted, destroys, builds, good>>
  BY OwnedLives DEF Code, NativeOutput, LoweredName, vendor
<1>2. ASSUME Asked' \in {"code", "lowered", "native"}, compiled[p] PROVE Follows
  BY <1>1, <1>2, QuietPhase
     DEF Follows, Vendor!Next, Vendor!ReadOutput, Vendor!OutputCalls, Phase, Asked
<1>3. ASSUME NEW o \in {"code", "lowered", "native"}, NEW e \in Refusals,
             last' = Reply(o, p, e)
      PROVE  Follows
  BY <1>1, <1>3, RefusalAsksNothing
<1>4. CASE Code(p)
  <2>1. CASE last' = Reply("code", p, "InvalidState")
    BY <1>3, <2>1 DEF Refusals
  <2>2. CASE compiled[p] /\ \E lim \in {limits[p].code} \cup {l.code : l \in Policies} :
                 last' \in BoundedReads("code", p, lim)
    BY <1>2, <2>2, ReadAsks
  <2> QED BY <1>4, <2>1, <2>2 DEF Code
<1>5. CASE NativeOutput(p)
  <2>1. CASE \E e \in {"InvalidState", "MissingOptionalSymbol"} : last' = Reply("native", p, e)
    BY <1>3, <2>1 DEF Refusals
  <2>2. CASE compiled[p] /\ \E lim \in {limits[p].code} \cup {l.code : l \in Policies} :
                 last' \in BoundedReads("native", p, lim)
    BY <1>2, <2>2, ReadAsks
  <2> QED BY <1>5, <2>1, <2>2 DEF NativeOutput
<1>6. CASE LoweredName(p)
  <2>1. CASE \E e \in {"InvalidState", "InputTooLarge"} : last' = Reply("lowered", p, e)
    BY <1>3, <2>1 DEF Refusals
  <2>2. CASE compiled[p] /\ \E e \in {"Rtc", "NullOutput", "None"} : last' = Reply("lowered", p, e)
    BY <1>2, <2>2, ReplyAsks, ReplyVocabulary
  <2> QED BY <1>6, <2>1, <2>2 DEF LoweredName
<1> QED BY <1>4, <1>5, <1>6

\* A name reaches the vendor only before the first compilation.
LEMMA NameFollows == ASSUME IInv, NEW p \in Programs, AddNameExpression(p) PROVE Follows
<1>1. /\ ~attempted[p] => Phase[p] = "new"
      /\ UNCHANGED <<granted, destroys, builds, good>>
  BY OwnedLives DEF AddNameExpression
<1>2. CASE \E e \in {"InvalidState", "InputTooLarge"} : last' = Reply("name", p, e)
  BY <1>1, <1>2, RefusalAsksNothing DEF Refusals
<1>3. CASE ~attempted[p] /\ \E e \in {"None", "Rtc"} : last' = Reply("name", p, e)
  <2>1. Asked' = "name"
    BY <1>3, ReplyAsks, ReplyVocabulary
  <2> QED BY <1>1, <1>3, <2>1, QuietPhase DEF Follows, Vendor!Next, Vendor!Name, Phase, Asked
<1> QED BY <1>2, <1>3 DEF AddNameExpression, AcceptsNames

\* A compilation is asked of a living program, and decides its state.
LEMMA CompileFollows ==
    ASSUME IInv, NEW p \in Programs, CompileRefused(p) \/ CompileSucceeds(p) \/ CompileFails(p)
    PROVE  Follows
<1>1. CASE CompileRefused(p)
  <2>1. PICK e \in {"TooManyItems", "InputTooLarge", "AllocationFailed"} :
            last' = Reply("compile", p, e)
    BY <1>1, RefusalKinds DEF CompileRefused
  <2> QED BY <1>1, <2>1, RefusalAsksNothing DEF CompileRefused, vendor, Refusals
<1>2. CASE CompileSucceeds(p) \/ CompileFails(p)
  <2>1. /\ owned[p] /\ granted[p] /\ destroys[p] = 0 /\ good[p] <= builds[p]
        /\ TypeOK /\ builds[p] \in Nat /\ good[p] \in Nat
    BY <1>2, ProgramAssumption
       DEF CompileSucceeds, CompileFails, Compiles, IInv, DestroyedOnce, OwnedIsGranted,
           GoodIsBuilt, TypeOK
  <2>2. Asked' = "compile"
    BY <1>2, ReplyAsks, ReplyVocabulary DEF CompileSucceeds, CompileFails, FailureReply
  <2>3. Phase' = [Phase EXCEPT ![p] = PhaseOf(p)']
    BY <1>2, <2>1, OthersStay DEF CompileSucceeds, CompileFails, Compiles, TypeOK
  <2>4. /\ granted'[p] /\ destroys'[p] = 0 /\ builds'[p] = builds[p] + 1
    BY <1>2, <2>1 DEF CompileSucceeds, CompileFails, Compiles, TypeOK
  <2>5. PhaseOf(p)' \in {"built", "rejected"}
    BY <2>1, <2>4 DEF PhaseOf
  <2> QED BY <2>1, <2>2, <2>3, <2>5, OwnedLives
       DEF Follows, Vendor!Next, Vendor!Compile, Vendor!Become, Phase, Asked
<1> QED BY <1>1, <1>2

\* Destruction ends a living program.
LEMMA DestroyFollows == ASSUME IInv, NEW p \in Programs, Destroy(p) PROVE Follows
<1>1. Phase[p] \in Vendor!Living /\ TypeOK
  BY OwnedLives DEF Destroy, IInv
<1>2. Asked' = "destroy"
  BY ReplyAsks, ReplyVocabulary DEF Destroy
<1>3. Phase' = [Phase EXCEPT ![p] = PhaseOf(p)']
  BY <1>1, OthersStay DEF Destroy, TypeOK
<1>4. PhaseOf(p)' = "none"
  BY <1>1 DEF Destroy, TypeOK, PhaseOf
<1> QED BY <1>1, <1>2, <1>3, <1>4
     DEF Follows, Vendor!Next, Vendor!End, Vendor!Become, Phase, Asked

\* Program<B> uses the vendor's program as the vendor's protocol allows, with any
\* number of programs, policies, sizes and failures of the vendor.
THEOREM ImplementsVendorProtocol == Spec => KeepsVendorProtocol
<1>1. Init => Vendor!Init
  BY DEF Init, Vendor!Init, PhaseOf, Unasked
<1>2. ASSUME IInv, NEW p \in Programs, Step(p) PROVE Follows
  BY <1>2, CreateFollows, LogFollows, OutputFollows, NameFollows, CompileFollows,
     DestroyFollows DEF Step
<1>3. ASSUME UNCHANGED vars PROVE Follows
  BY <1>3 DEF Follows, vars, Vendor!vars, PhaseOf, Unasked
<1>4. IInv /\ [Next]_vars => [Vendor!Next]_(Vendor!vars)
  BY <1>2, <1>3 DEF Next, Follows
<1> QED BY <1>1, <1>4, ProgramInvariance, PTL DEF Spec, KeepsVendorProtocol, Vendor!Spec

=============================================================================
