----------------------------- MODULE TableSlots -----------------------------
(***************************************************************************)
(* The canonical ABI manifest of one backend, refreshed from the pinned    *)
(* oracles by `ocgpu-codegen sync-rust-oracles`.                           *)
(*                                                                         *)
(* The raw table of the backend has one field for every emitted entry of   *)
(* the raw inventory, in the order of the entries' slots, behind the       *)
(* fields of the common functions (fixed here: an entry linked to a common *)
(* function has no slot and is left out).  The oracle snapshots change,    *)
(* maintainers add and remove entries by hand, a synchronisation rewrites  *)
(* the whole manifest with one fs::write, and that write may be cut short. *)
(***************************************************************************)
EXTENDS FiniteSetsExt

CONSTANTS
    InRust,      \* the functions the Rust oracle may list
    InUnion,     \* those the official vendor union may list
    Aliases,     \* those the union lists as aliases of another
    Target,      \* Target[a]: the function alias a stands for
    Extensions,  \* those a common extension dispatches to
    UnionRank,   \* UnionRank[f]: the place of f in the vendor union
    MaxSlot,     \* bound: no slot above it is assigned
    NoSlot,      \* table_order = None
    NoNumber     \* a stable_id outside the vendor range

Functions == InRust \cup InUnion

ASSUME FunctionsAssumption == IsFiniteSet(Functions) /\ Extensions \subseteq Functions
ASSUME AliasAssumption ==
    /\ Aliases \subseteq InUnion \ InRust
    /\ Target \in [Aliases -> InUnion \ Aliases]
ASSUME RankAssumption ==
    /\ UnionRank \in [Functions -> Nat]
    /\ \A f, g \in Functions : UnionRank[f] = UnionRank[g] => f = g
ASSUME BoundAssumption == MaxSlot \in Nat /\ NoSlot \notin Nat /\ NoNumber \notin Nat

VARIABLES
    rust,     \* rust[f]: what the Rust oracle says of f
    vendor,   \* vendor[f]: what the official vendor union says of f
    line,     \* line[f]: the place of f's entry in raw_inventory, 0 if it has none
    emitted,  \* the functions whose entry is emitted
    slot,     \* slot[f]: the entry's table_order
    number    \* number[f]: its stable_id's offset in the vendor range

vars == <<rust, vendor, line, emitted, slot, number>>

\* An oracle may list a function without a C ABI declaration.
Listings == {"absent", "untyped", "typed"}

Listed == {f \in Functions : line[f] # 0}

\* How many members of S come before f in the given order.
Earlier(S, order, f) == Cardinality({g \in S : order[g] < order[f]})

\* An inventory of the Rust oracle's functions, as it was before entries had
\* slots and before the vendor union was merged into it.
Init ==
    /\ \E S \in SUBSET InRust :
           /\ line \in [Functions -> 0..Cardinality(S)]
           /\ \A f \in Functions : line[f] = 0 <=> f \notin S
           /\ \A f, g \in S : line[f] = line[g] => f = g
           /\ emitted = S
           /\ rust = [f \in Functions |-> IF f \in S THEN "typed" ELSE "absent"]
    /\ vendor = [f \in Functions |-> "absent"]
    /\ slot = [f \in Functions |-> NoSlot]
    /\ number = [f \in Functions |-> NoNumber]

-----------------------------------------------------------------------------
(* What one synchronisation computes from the manifest and the oracles.    *)

\* The slot each emitted entry had.  The entries of a manifest either all have
\* one or, before the first synchronisation, are numbered in their order.
CapturedSlot(f) == IF slot[f] = NoSlot THEN Earlier(emitted, line, f) ELSE slot[f]

NewVendor == {f \in Functions : vendor[f] # "absent" /\ f \notin Listed}

LastLine == IF Listed = {} THEN 0 ELSE Max({line[f] : f \in Listed})

\* merge_vendor_inventory: entries the union has and the inventory lacks are
\* pushed behind the others, their stable_ids counted from the base each time.
MergedLine ==
    [f \in Functions |->
        IF f \in NewVendor THEN LastLine + 1 + Earlier(NewVendor, UnionRank, f)
                           ELSE line[f]]

MergedNumber ==
    [f \in Functions |->
        IF f \in NewVendor THEN Earlier(NewVendor, UnionRank, f) ELSE number[f]]

Merged == Listed \cup NewVendor

\* Mutant: promotion comes before the merge, and misses what that adds.
FromVendorUnmerged == {f \in Listed : rust[f] = "absent" /\ vendor[f] # "absent"}

\* promote_vendor_functions leaves alone what the Rust oracle lists.
FromVendor == {f \in Merged : rust[f] = "absent" /\ vendor[f] # "absent"}

\* promote_functions and promote_vendor_functions; an entry in no oracle keeps
\* the flag it had.
Promoted == {f \in Merged : rust[f] = "typed"}
                \cup FromVendor
                \cup {f \in emitted : rust[f] = "absent"}

\* Mutant: the next slot is the number of slots in use.
NextSlotCounted == Cardinality(emitted)

\* Mutant: the highest slot is read after the promotion, from the entries still
\* emitted.
NextSlotOfKept ==
    IF emitted \cap Promoted = {} THEN 0
    ELSE 1 + Max({CapturedSlot(f) : f \in emitted \cap Promoted})

NextSlot ==
    IF emitted = {} THEN 0 ELSE 1 + Max({CapturedSlot(f) : f \in emitted})

\* Mutant: slots are handed out afresh in inventory order.
AssignedSlotAfresh(f) == Earlier(Promoted, MergedLine, f)

AssignedSlot(f) ==
    IF f \in emitted THEN CapturedSlot(f)
    ELSE NextSlot + Earlier(Promoted \ emitted, MergedLine, f)

\* Mutant: stable_ids are not checked for duplicates.
NumbersUniqueUnchecked == TRUE

NumbersUnique ==
    \A f, g \in Merged :
        MergedNumber[f] = MergedNumber[g] /\ MergedNumber[f] # NoNumber => f = g

Declaration(f) == IF f \in Aliases THEN Target[f] ELSE f

\* No error on the way: promotion finds every declaration it needs, validate
\* and validate_oracle_coverage accept the manifest.
Accepted ==
    /\ \A f \in FromVendor : vendor[Declaration(f)] = "typed"
    /\ \A f \in Functions : rust[f] # "absent" => f \in Merged
    /\ \A f \in Merged : rust[f] # "absent" \/ vendor[f] # "absent"
    /\ NumbersUnique
    /\ Extensions \subseteq Promoted
    /\ \A f \in Promoted \cap Aliases : Target[f] \in Promoted
    /\ \A f, g \in Promoted : AssignedSlot(f) = AssignedSlot(g) => f = g

-----------------------------------------------------------------------------
(* The steps.                                                              *)

\* The inventory on disk becomes those entries of the new one.
Write(kept) ==
    /\ line' = [f \in Functions |-> IF f \in kept THEN MergedLine[f] ELSE 0]
    /\ emitted' = Promoted \cap kept
    /\ slot' = [f \in Functions |->
                   IF f \in Promoted \cap kept THEN AssignedSlot(f) ELSE NoSlot]
    /\ number' = [f \in Functions |->
                     IF f \in kept THEN MergedNumber[f] ELSE NoNumber]
    /\ UNCHANGED <<rust, vendor>>

WithinBound == \A f \in Promoted : AssignedSlot(f) <= MaxSlot

\* sync_rust_oracles; one that fails returns before the write and changes
\* nothing.
Sync == Accepted /\ WithinBound /\ Write(Merged)

\* fs::write truncates before it writes: a crash leaves a prefix.  raw_inventory
\* comes last in the file and may be missing, so a prefix that ends with an
\* entry still parses; any other prefix does not and is discarded by hand.
SyncCut ==
    /\ Accepted /\ WithinBound
    /\ \E g \in Merged : Write({f \in Merged : MergedLine[f] < MergedLine[g]})

\* A new snapshot of one of the oracles.  An alias has its target's declaration.
RefreshRust(f, listing) ==
    /\ rust' = [rust EXCEPT ![f] = listing]
    /\ UNCHANGED <<vendor, line, emitted, slot, number>>

RefreshVendor(f, listing) ==
    /\ f \in Aliases => listing # "untyped"
    /\ vendor' = [vendor EXCEPT ![f] = listing]
    /\ UNCHANGED <<rust, line, emitted, slot, number>>

\* Rust functions must be classified before they are synchronised: a maintainer
\* writes the entry, anywhere in the inventory and not yet emitted.
AddEntry(f, place) ==
    /\ f \notin Listed /\ rust[f] # "absent"
    /\ line' = [g \in Functions |->
                   CASE g = f -> place
                     [] g # f /\ line[g] >= place -> line[g] + 1
                     [] OTHER -> line[g]]
    /\ UNCHANGED <<rust, vendor, emitted, slot, number>>

\* An entry that no oracle lists any more must be removed before the next one.
RemoveEntry(f) ==
    /\ f \in Listed /\ rust[f] = "absent" /\ vendor[f] = "absent"
    /\ line' = [g \in Functions |->
                   CASE g = f -> 0
                     [] g # f /\ line[g] > line[f] -> line[g] - 1
                     [] OTHER -> line[g]]
    /\ emitted' = emitted \ {f}
    /\ slot' = [slot EXCEPT ![f] = NoSlot]
    /\ number' = [number EXCEPT ![f] = NoNumber]
    /\ UNCHANGED <<rust, vendor>>

Next ==
    \/ Sync
    \/ SyncCut
    \/ \E f \in InRust, listing \in Listings : RefreshRust(f, listing)
    \/ \E f \in InUnion, listing \in Listings : RefreshVendor(f, listing)
    \/ \E f \in InRust, place \in 1..(LastLine + 1) : AddEntry(f, place)
    \/ \E f \in Functions : RemoveEntry(f)

Spec == Init /\ [][Next]_vars

-----------------------------------------------------------------------------
(* Properties.                                                             *)

\* The slots assign_append_only_slots would hand out now are distinct, whatever
\* was added, withdrawn, removed by hand or lost in a crash before: the check
\* for duplicated slots in validate never rejects a synchronisation.
SlotsNeverClash ==
    \A f, g \in Promoted : AssignedSlot(f) = AssignedSlot(g) => f = g

\* Every synchronisation numbers the vendor entries it adds from the same base, so one
\* that would add any is refused as long as an entry of an earlier one holds the base
\* id, cut short or not; and no entry that stays in the inventory is renumbered.
AdditionsNeedTheBase ==
    [][/\ (\E f \in Listed' \ Listed : number'[f] # NoNumber)
              => \A f \in Listed : number[f] # 0
       /\ \A f \in Listed \cap Listed' : number'[f] = number[f]]_vars

\* The slot of an entry that leaves the table is not given to another function
\* in the same step (a later one may hand out the last slot once it is free), which would put a new function where callers compiled
\* against the old table look for the old one.
FreedSlotRests ==
    [][\A f \in emitted \ emitted', g \in emitted' \ emitted :
           slot[f] = NoSlot \/ slot'[g] # slot[f]]_vars

\* Another synchronisation would find nothing to write.
Settled ==
    /\ Accepted
    /\ MergedLine = line /\ MergedNumber = number
    /\ Promoted = emitted /\ \A f \in emitted : AssignedSlot(f) = slot[f]

\* One synchronisation is enough: with the same snapshots a second one accepts
\* what the first has written and changes no line, flag, slot or stable_id, so a
\* checked-in manifest that a new run would change is out of date, never unstable.
SyncSettles == [][Sync => Settled']_vars

\* The fields in line: render_table writes them by slot (by inventory order
\* while there are no slots).
FieldPairs ==
    {p \in emitted \X emitted : CapturedSlot(p[1]) < CapturedSlot(p[2])}

Log == INSTANCE FieldLog WITH fields <- emitted, ahead <- FieldPairs

\* The manifest tool keeps the table append-only up to withdrawal: fields that
\* stay keep their order and new ones come last.
RefinesFieldLog == Log!Spec

Position(f) == Earlier(emitted, [g \in emitted |-> CapturedSlot(g)], f)

\* docs/developer-guide.md: "Never reorder their prefix or existing
\* function-pointer fields"; docs/release.md rejects a moved field.  A field
\* that a synchronisation finds in the table and leaves there stays where it is.
FieldsNeverMove ==
    [][Sync => \A f \in emitted \cap emitted' : Position(f)' = Position(f)]_vars

=============================================================================
