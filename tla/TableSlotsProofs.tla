-------------------------- MODULE TableSlotsProofs --------------------------
(***************************************************************************)
(* The slots of TableSlots for every set of functions, every history of    *)
(* the oracles and of the manifest, with no bound on the slots: a          *)
(* synchronisation never assigns one slot twice, never gives a freed slot  *)
(* away in the same step, and implements FieldLog.                         *)
(***************************************************************************)
EXTENDS TableSlots, FiniteSetTheorems, WellFoundedInduction, TLAPS

TypeOK ==
    /\ rust \in [Functions -> Listings]
    /\ vendor \in [Functions -> Listings]
    /\ line \in [Functions -> Nat]
    /\ emitted \subseteq Listed
    /\ slot \in [Functions -> Nat \cup {NoSlot}]
    /\ number \in [Functions -> Nat \cup {NoNumber}]

LinesDistinct == \A f, g \in Listed : line[f] = line[g] => f = g

\* Either every field has a slot or none has, before the first synchronisation.
SlotsTogether ==
    \/ \A f \in emitted : slot[f] = NoSlot
    \/ \A f \in emitted : slot[f] # NoSlot

SlotsDistinct ==
    \A f, g \in emitted : slot[f] = slot[g] /\ slot[f] # NoSlot => f = g

IInv == TypeOK /\ LinesDistinct /\ SlotsTogether /\ SlotsDistinct

-----------------------------------------------------------------------------
(* Counting and maxima in finite sets.                                     *)

\* How many come earlier is a number, and larger for what comes later.
LEMMA EarlierCounts ==
    ASSUME NEW S, IsFiniteSet(S), NEW order, \A g \in S : order[g] \in Nat
    PROVE  /\ \A f : Earlier(S, order, f) \in Nat
           /\ \A f, g \in S : order[f] < order[g]
                  => Earlier(S, order, f) < Earlier(S, order, g)
<1>1. ASSUME NEW f
      PROVE  /\ IsFiniteSet({g \in S : order[g] < order[f]})
             /\ Earlier(S, order, f) \in Nat
    BY FS_Subset, FS_CardinalityType DEF Earlier
<1>2. ASSUME NEW f \in S, NEW g \in S, order[f] < order[g]
      PROVE  Earlier(S, order, f) < Earlier(S, order, g)
    <2> DEFINE F == {h \in S : order[h] < order[f]}
               G == {h \in S : order[h] < order[g]}
    <2>1. F \in SUBSET G
        BY <1>2
    <2>2. f \in G /\ f \notin F
        BY <1>2
    <2>3. IsFiniteSet(G) /\ Cardinality(F) \in Nat /\ Cardinality(G) \in Nat
        BY <1>1 DEF Earlier
    <2>4. Cardinality(F) <= Cardinality(G) /\ Cardinality(F) # Cardinality(G)
        BY <2>1, <2>2, <2>3, FS_Subset
    <2> QED BY <2>3, <2>4 DEF Earlier
<1> QED BY <1>1, <1>2

\* A finite set has a member of largest key: one with fewest members after it.
LEMMA LargestExists ==
    ASSUME NEW S, IsFiniteSet(S), S # {}, NEW key, \A f \in S : key[f] \in Nat
    PROVE  \E f \in S : \A g \in S : key[g] <= key[f]
<1> DEFINE After(f) == {g \in S : key[g] > key[f]}
           T == {After(f) : f \in S}
<1>1. T \subseteq FiniteSubsetsOf(S) /\ T # {}
    <2>1. FiniteSubsetsOf(S) = SUBSET S
        BY FS_FiniteSubsetsOfFinite
    <2>2. \A U \in T : U \in SUBSET S
        OBVIOUS
    <2>3. T # {}
        OBVIOUS
    <2> HIDE DEF T
    <2> QED BY <2>1, <2>2, <2>3
<1>2. PICK U \in T : \A V \in T : <<V, U>> \notin StrictSubsetOrdering(S)
    <2> HIDE DEF T
    <2> QED BY <1>1, WFMin, FS_StrictSubsetOrderingWellFounded
<1>3. PICK f \in S : U = After(f)
    BY <1>2
<1>4. ASSUME NEW g \in S, key[g] > key[f]
      PROVE  FALSE
    <2>1. After(g) \subseteq After(f) /\ After(g) # After(f)
        BY <1>4
    <2>2. After(g) \in T /\ After(g) \in SUBSET S /\ After(f) \in SUBSET S
        OBVIOUS
    <2>3. <<After(g), U>> \in StrictSubsetOrdering(S)
        BY <2>1, <2>2, <1>3 DEF StrictSubsetOrdering
    <2> QED BY <2>2, <2>3, <1>2
<1> QED BY <1>4

\* The largest key is a number and no key is above it.
LEMMA LargestKey ==
    ASSUME NEW S, IsFiniteSet(S), S # {}, NEW key, \A f \in S : key[f] \in Nat
    PROVE  /\ Max({key[f] : f \in S}) \in Nat
           /\ \A f \in S : key[f] <= Max({key[g] : g \in S})
<1> DEFINE K == {key[f] : f \in S}
<1>1. \E x \in K : \A y \in K : x >= y
    BY LargestExists
<1>2. Max(K) \in K /\ \A y \in K : Max(K) >= y
    <2> HIDE DEF K
    <2> QED BY <1>1 DEF Max
<1>3. Max(K) \in Nat
    BY <1>2
<1>4. \A f \in S : key[f] \in K
    OBVIOUS
<1>5. \A f \in S : key[f] <= Max(K)
    <2> HIDE DEF K
    <2> QED BY <1>2, <1>3, <1>4
<1> QED BY <1>3, <1>5

-----------------------------------------------------------------------------
(* What a synchronisation computes.                                        *)

\* The functions of the inventory are finitely many.
LEMMA FiniteParts ==
    TypeOK => /\ IsFiniteSet(Functions) /\ IsFiniteSet(Listed) /\ IsFiniteSet(emitted)
              /\ IsFiniteSet(NewVendor) /\ IsFiniteSet(Merged) /\ IsFiniteSet(Promoted)
              /\ emitted \subseteq Listed /\ Listed \subseteq Merged
              /\ Promoted \subseteq Merged /\ Merged \subseteq Functions
<1> SUFFICES ASSUME TypeOK
             PROVE  /\ IsFiniteSet(Functions) /\ IsFiniteSet(Listed)
                    /\ IsFiniteSet(emitted) /\ IsFiniteSet(NewVendor)
                    /\ IsFiniteSet(Merged) /\ IsFiniteSet(Promoted)
                    /\ emitted \subseteq Listed /\ Listed \subseteq Merged
                    /\ Promoted \subseteq Merged /\ Merged \subseteq Functions
    OBVIOUS
<1>1. /\ emitted \subseteq Listed /\ Listed \subseteq Merged
      /\ Merged \subseteq Functions /\ NewVendor \subseteq Merged
    BY DEF TypeOK, Listed, Merged, NewVendor
<1>2. Promoted \subseteq Merged
    BY <1>1 DEF Promoted, FromVendor
<1> QED BY <1>1, <1>2, FunctionsAssumption, FS_Subset

\* A captured slot is a number, one slot has one field, and without slots the
\* order of the inventory is the order of the fields.
LEMMA CapturedSlots ==
    IInv => /\ \A f \in emitted : CapturedSlot(f) \in Nat
            /\ \A f, g \in emitted : CapturedSlot(f) = CapturedSlot(g) => f = g
            /\ (\A f \in emitted : slot[f] = NoSlot)
                 => \A f, g \in emitted :
                        CapturedSlot(f) < CapturedSlot(g) <=> line[f] < line[g]
<1> SUFFICES ASSUME IInv
             PROVE  /\ \A f \in emitted : CapturedSlot(f) \in Nat
                    /\ \A f, g \in emitted : CapturedSlot(f) = CapturedSlot(g) => f = g
                    /\ (\A f \in emitted : slot[f] = NoSlot)
                         => \A f, g \in emitted :
                                CapturedSlot(f) < CapturedSlot(g) <=> line[f] < line[g]
    OBVIOUS
<1>1. /\ \A f \in emitted : line[f] \in Nat /\ slot[f] \in Nat \cup {NoSlot}
      /\ \A f, g \in emitted : line[f] = line[g] => f = g
      /\ IsFiniteSet(emitted)
    BY FiniteParts DEF IInv, TypeOK, LinesDistinct, Listed
<1>2. /\ \A f \in emitted : Earlier(emitted, line, f) \in Nat
      /\ \A f, g \in emitted : line[f] < line[g]
             => Earlier(emitted, line, f) < Earlier(emitted, line, g)
    BY <1>1, EarlierCounts
<1>3. CASE \A f \in emitted : slot[f] = NoSlot
    <2>1. \A f \in emitted : CapturedSlot(f) = Earlier(emitted, line, f)
        BY <1>3 DEF CapturedSlot
    <2> QED BY <1>1, <1>2, <1>3, <2>1
<1>4. CASE \A f \in emitted : slot[f] # NoSlot
    <2>1. \A f \in emitted : CapturedSlot(f) = slot[f]
        BY <1>4 DEF CapturedSlot
    <2>2. (\A f \in emitted : slot[f] = NoSlot) => emitted = {}
        BY <1>4
    <2> QED BY <1>1, <1>4, <2>1, <2>2 DEF IInv, SlotsDistinct
<1> QED BY <1>3, <1>4 DEF IInv, SlotsTogether

\* The next slot is above every captured one.
LEMMA NextSlotAbove ==
    IInv => NextSlot \in Nat /\ \A f \in emitted : CapturedSlot(f) < NextSlot
<1> SUFFICES ASSUME IInv, emitted # {}
             PROVE  NextSlot \in Nat /\ \A f \in emitted : CapturedSlot(f) < NextSlot
    BY DEF NextSlot
<1> DEFINE key == [f \in emitted |-> CapturedSlot(f)]
<1>1. IsFiniteSet(emitted) /\ \A f \in emitted : key[f] \in Nat
    BY CapturedSlots, FiniteParts DEF IInv
<1>2. /\ Max({key[f] : f \in emitted}) \in Nat
      /\ \A f \in emitted : key[f] <= Max({key[g] : g \in emitted})
    <2> HIDE DEF key
    <2> QED BY <1>1, LargestKey
<1>3. {key[f] : f \in emitted} = {CapturedSlot(f) : f \in emitted}
    OBVIOUS
<1>4. NextSlot = 1 + Max({key[f] : f \in emitted})
    BY <1>3 DEF NextSlot
<1>5. \A f \in emitted : key[f] = CapturedSlot(f)
    OBVIOUS
<1> HIDE DEF key
<1> QED BY <1>1, <1>2, <1>4, <1>5

\* The merged entries stand on lines of their own.
LEMMA MergedLines ==
    IInv => /\ MergedLine \in [Functions -> Nat]
            /\ \A f \in Functions : MergedLine[f] # 0 <=> f \in Merged
            /\ \A f, g \in Merged : MergedLine[f] = MergedLine[g] => f = g
<1> SUFFICES ASSUME IInv
             PROVE  /\ MergedLine \in [Functions -> Nat]
                    /\ \A f \in Functions : MergedLine[f] # 0 <=> f \in Merged
                    /\ \A f, g \in Merged : MergedLine[f] = MergedLine[g] => f = g
    OBVIOUS
<1> USE DEF IInv
<1>1. /\ line \in [Functions -> Nat] /\ IsFiniteSet(Listed) /\ IsFiniteSet(NewVendor)
      /\ NewVendor \subseteq Functions /\ Listed \subseteq Functions
    BY FiniteParts DEF TypeOK, NewVendor, Listed
<1>2. LastLine \in Nat /\ \A f \in Listed : line[f] <= LastLine
    <2>1. CASE Listed = {}
        BY <2>1 DEF LastLine
    <2>2. CASE Listed # {}
        BY <1>1, <2>2, LargestKey DEF LastLine
    <2> QED BY <2>1, <2>2
<1>3. /\ \A f \in NewVendor : Earlier(NewVendor, UnionRank, f) \in Nat
      /\ \A f, g \in NewVendor : UnionRank[f] < UnionRank[g]
             => Earlier(NewVendor, UnionRank, f) < Earlier(NewVendor, UnionRank, g)
    BY <1>1, RankAssumption, EarlierCounts
<1>4. \A f, g \in NewVendor :
          Earlier(NewVendor, UnionRank, f) = Earlier(NewVendor, UnionRank, g) => f = g
    BY <1>1, <1>3, RankAssumption
<1>5. \A f \in Functions :
          MergedLine[f] = IF f \in NewVendor
                          THEN LastLine + 1 + Earlier(NewVendor, UnionRank, f)
                          ELSE line[f]
    BY DEF MergedLine
<1>6. MergedLine \in [Functions -> Nat]
    BY <1>1, <1>2, <1>3 DEF MergedLine
<1>7. \A f \in Merged : f \in NewVendor \/ (f \in Listed /\ f \notin NewVendor)
    BY DEF Merged, NewVendor
<1>8. \A f \in Functions : MergedLine[f] # 0 <=> f \in Merged
    <2>1. \A f \in NewVendor : MergedLine[f] # 0 /\ f \in Merged
        BY <1>1, <1>2, <1>3, <1>5 DEF Merged
    <2>2. \A f \in Functions \ NewVendor : MergedLine[f] # 0 <=> f \in Merged
        BY <1>5 DEF Merged, Listed
    <2> QED BY <2>1, <2>2
<1>9. \A f, g \in Merged : MergedLine[f] = MergedLine[g] => f = g
    <2> SUFFICES ASSUME NEW f \in Merged, NEW g \in Merged, MergedLine[f] = MergedLine[g]
                 PROVE  f = g
        OBVIOUS
    <2>1. CASE f \in NewVendor /\ g \in NewVendor
        BY <2>1, <1>1, <1>2, <1>3, <1>4, <1>5
    <2>2. CASE f \in NewVendor /\ g \notin NewVendor
        BY <2>2, <1>1, <1>2, <1>3, <1>5, <1>7
    <2>3. CASE f \notin NewVendor /\ g \in NewVendor
        BY <2>3, <1>1, <1>2, <1>3, <1>5, <1>7
    <2>4. CASE f \notin NewVendor /\ g \notin NewVendor
        BY <2>4, <1>1, <1>5, <1>7 DEF LinesDistinct
    <2> QED BY <2>1, <2>2, <2>3, <2>4
<1> QED BY <1>6, <1>8, <1>9

\* Assigned slots are distinct, and a new field's is above every old field's.
LEMMA AssignedSlots ==
    IInv => /\ \A f \in Promoted : AssignedSlot(f) \in Nat
            /\ \A f \in emitted : AssignedSlot(f) = CapturedSlot(f)
            /\ \A f \in emitted, g \in Promoted \ emitted :
                   CapturedSlot(f) < AssignedSlot(g)
            /\ \A f, g \in Promoted : AssignedSlot(f) = AssignedSlot(g) => f = g
<1> SUFFICES ASSUME IInv
             PROVE  /\ \A f \in Promoted : AssignedSlot(f) \in Nat
                    /\ \A f \in emitted : AssignedSlot(f) = CapturedSlot(f)
                    /\ \A f \in emitted, g \in Promoted \ emitted :
                           CapturedSlot(f) < AssignedSlot(g)
                    /\ \A f, g \in Promoted : AssignedSlot(f) = AssignedSlot(g) => f = g
    OBVIOUS
<1> DEFINE N == Promoted \ emitted
<1>1. /\ IsFiniteSet(N) /\ N \subseteq Merged /\ Merged \subseteq Functions
      /\ IsFiniteSet(Promoted)
    BY FiniteParts, FS_Subset DEF IInv
<1>2. /\ \A f \in N : MergedLine[f] \in Nat
      /\ \A f, g \in N : MergedLine[f] = MergedLine[g] => f = g
    BY <1>1, MergedLines
<1>3. /\ \A f \in N : Earlier(N, MergedLine, f) \in Nat
      /\ \A f, g \in N : MergedLine[f] < MergedLine[g]
             => Earlier(N, MergedLine, f) < Earlier(N, MergedLine, g)
    BY <1>1, <1>2, EarlierCounts
<1>4. \A f, g \in N : Earlier(N, MergedLine, f) = Earlier(N, MergedLine, g) => f = g
    BY <1>2, <1>3
<1>5. \A f \in emitted : AssignedSlot(f) = CapturedSlot(f) /\ CapturedSlot(f) \in Nat
    BY CapturedSlots DEF AssignedSlot
<1>6. \A f \in N : AssignedSlot(f) = NextSlot + Earlier(N, MergedLine, f)
    BY DEF AssignedSlot
<1>7. NextSlot \in Nat /\ \A f \in emitted : CapturedSlot(f) < NextSlot
    BY NextSlotAbove
<1>8. \A f \in Promoted : f \in emitted \/ f \in N
    OBVIOUS
<1>9. \A f \in emitted, g \in N : CapturedSlot(f) < AssignedSlot(g)
    BY <1>3, <1>5, <1>6, <1>7
<1>10. \A f \in Promoted : AssignedSlot(f) \in Nat
    BY <1>3, <1>5, <1>6, <1>7, <1>8
<1>11. \A f, g \in Promoted : AssignedSlot(f) = AssignedSlot(g) => f = g
    <2> SUFFICES ASSUME NEW f \in Promoted, NEW g \in Promoted,
                        AssignedSlot(f) = AssignedSlot(g)
                 PROVE  f = g
        OBVIOUS
    <2>1. CASE f \in emitted /\ g \in emitted
        BY <2>1, <1>5, CapturedSlots
    <2>2. CASE f \in emitted /\ g \in N
        BY <2>2, <1>5, <1>9, <1>10
    <2>3. CASE f \in N /\ g \in emitted
        BY <2>3, <1>5, <1>9, <1>10
    <2>4. CASE f \in N /\ g \in N
        <3>1. Earlier(N, MergedLine, f) = Earlier(N, MergedLine, g)
            BY <2>4, <1>3, <1>6, <1>7
        <3> QED BY <2>4, <3>1, <1>4
    <2> QED BY <2>1, <2>2, <2>3, <2>4, <1>8
<1> QED BY <1>5, <1>9, <1>10, <1>11

-----------------------------------------------------------------------------
(* The inductive invariant.                                                *)

\* A synchronisation, completed or cut short, writes some merged entries.
LEMMA SyncWrites ==
    Sync \/ SyncCut => NumbersUnique /\ \E kept \in SUBSET Merged : Write(kept)
BY DEF Sync, SyncCut, Accepted

\* What was written is well formed again, every field with its assigned slot.
LEMMA WriteFields ==
    ASSUME IInv, NEW kept \in SUBSET Merged, Write(kept)
    PROVE  /\ IInv'
           /\ \A f \in emitted' : f \in Promoted /\ slot'[f] = AssignedSlot(f)
                                  /\ slot'[f] \in Nat /\ slot'[f] # NoSlot
<1>1. /\ emitted' = Promoted \cap kept /\ rust' = rust /\ vendor' = vendor
      /\ line' = [f \in Functions |-> IF f \in kept THEN MergedLine[f] ELSE 0]
      /\ slot' = [f \in Functions |->
                     IF f \in Promoted \cap kept THEN AssignedSlot(f) ELSE NoSlot]
      /\ number' = [f \in Functions |->
                       IF f \in kept THEN MergedNumber[f] ELSE NoNumber]
    BY DEF Write
<1>2. /\ Promoted \subseteq Merged /\ Merged \subseteq Functions
      /\ IsFiniteSet(NewVendor)
    BY FiniteParts DEF IInv
<1>3. /\ \A f \in emitted' : f \in Promoted /\ slot'[f] = AssignedSlot(f)
      /\ \A f \in emitted' : slot'[f] \in Nat /\ slot'[f] # NoSlot
    BY <1>1, <1>2, AssignedSlots, BoundAssumption
<1>4. /\ MergedLine \in [Functions -> Nat]
      /\ \A f \in Functions : MergedLine[f] # 0 <=> f \in Merged
      /\ \A f, g \in Merged : MergedLine[f] = MergedLine[g] => f = g
    BY MergedLines
<1>5. Listed' = kept
    BY <1>1, <1>2, <1>4 DEF Listed
<1>6. MergedNumber \in [Functions -> Nat \cup {NoNumber}]
    <2>1. \A f \in Functions : Earlier(NewVendor, UnionRank, f) \in Nat
        BY <1>2, EarlierCounts, RankAssumption DEF NewVendor
    <2> QED BY <2>1 DEF MergedNumber, IInv, TypeOK
<1>7. TypeOK'
    <2>1. slot' \in [Functions -> Nat \cup {NoSlot}]
        BY <1>1, <1>2, AssignedSlots
    <2>2. line' \in [Functions -> Nat]
        BY <1>1, <1>4
    <2>3. number' \in [Functions -> Nat \cup {NoNumber}]
        BY <1>1, <1>6
    <2> QED BY <1>1, <1>5, <2>1, <2>2, <2>3 DEF TypeOK, IInv
<1>8. LinesDistinct'
    BY <1>1, <1>2, <1>4, <1>5 DEF LinesDistinct
<1>9. SlotsTogether'
    BY <1>3 DEF SlotsTogether
<1>10. SlotsDistinct'
    BY <1>3, AssignedSlots DEF SlotsDistinct
<1> QED BY <1>3, <1>7, <1>8, <1>9, <1>10 DEF IInv

\* Adding an entry moves the lines behind it and nothing else.
LEMMA AddStep ==
    ASSUME IInv, NEW f \in InRust, NEW place \in 1..(LastLine + 1), AddEntry(f, place),
           LastLine \in Nat
    PROVE  /\ IInv'
           /\ \A g, h \in emitted : line'[g] < line'[h] <=> line[g] < line[h]
<1>1. /\ f \in Functions /\ f \notin Listed /\ place \in Nat \ {0}
      /\ f \notin emitted /\ \A g \in emitted : g \in Functions
    BY DEF AddEntry, Functions, IInv, TypeOK, Listed
<1>2. /\ line \in [Functions -> Nat]
      /\ \A g \in Functions :
             line'[g] = CASE g = f -> place
                          [] g # f /\ line[g] >= place -> line[g] + 1
                          [] OTHER -> line[g]
    BY DEF AddEntry, IInv, TypeOK
<1>3. line' \in [Functions -> Nat] /\ Listed' = Listed \cup {f}
    <2>1. \A g \in Functions : line'[g] \in Nat /\ (line'[g] # 0 <=> g = f \/ line[g] # 0)
        BY <1>1, <1>2
    <2>2. line' \in [Functions -> Nat]
        BY <2>1 DEF AddEntry
    <2> QED BY <1>1, <2>1, <2>2 DEF Listed
<1>4. ASSUME NEW g \in Functions, NEW h \in Functions, g # f, h # f
      PROVE  line'[g] < line'[h] <=> line[g] < line[h]
    BY <1>1, <1>2, <1>4
<1>5. LinesDistinct'
    <2>1. \A g \in Functions : g # f => line'[g] # line'[f]
        BY <1>1, <1>2
    <2>2. ASSUME NEW g \in Listed, NEW h \in Listed, line'[g] = line'[h]
          PROVE  line[g] = line[h]
        BY <1>1, <1>2, <2>2 DEF Listed
    <2> QED BY <1>1, <1>3, <2>1, <2>2 DEF LinesDistinct, IInv, Listed
<1> QED BY <1>1, <1>3, <1>4, <1>5
        DEF AddEntry, IInv, TypeOK, SlotsTogether, SlotsDistinct

\* Removing an entry takes its field away and moves up the lines behind it.
LEMMA RemoveStep ==
    ASSUME IInv, NEW f \in Functions, RemoveEntry(f)
    PROVE  /\ IInv'
           /\ emitted' = emitted \ {f}
           /\ \A g \in emitted' : slot'[g] = slot[g]
           /\ \A g, h \in emitted' : line'[g] < line'[h] <=> line[g] < line[h]
<1>1. f \in Listed /\ \A g \in emitted : g \in Listed /\ g \in Functions
    BY DEF RemoveEntry, IInv, TypeOK, Listed
<1>2. /\ line \in [Functions -> Nat]
      /\ \A g \in Functions :
             line'[g] = CASE g = f -> 0
                          [] g # f /\ line[g] > line[f] -> line[g] - 1
                          [] OTHER -> line[g]
    BY DEF RemoveEntry, IInv, TypeOK
<1>3. /\ emitted' = emitted \ {f}
      /\ slot' = [slot EXCEPT ![f] = NoSlot] /\ number' = [number EXCEPT ![f] = NoNumber]
      /\ rust' = rust /\ vendor' = vendor
    BY DEF RemoveEntry
<1>4. line' \in [Functions -> Nat] /\ Listed' = Listed \ {f}
    <2>1. \A g \in Functions : line'[g] \in Nat /\ (line'[g] # 0 <=> g # f /\ line[g] # 0)
        BY <1>1, <1>2 DEF Listed
    <2>2. line' \in [Functions -> Nat]
        BY <2>1 DEF RemoveEntry
    <2> QED BY <1>1, <2>1, <2>2 DEF Listed
<1>5. ASSUME NEW g \in Listed, NEW h \in Listed, g # f, h # f
      PROVE  line'[g] < line'[h] <=> line[g] < line[h]
    <2>1. line[g] # line[f] /\ line[h] # line[f]
        BY <1>1, <1>5 DEF IInv, LinesDistinct
    <2> QED BY <1>1, <1>2, <1>5, <2>1 DEF Listed
<1>6. LinesDistinct'
    <2>1. ASSUME NEW g \in Listed, NEW h \in Listed, g # f, h # f, line'[g] = line'[h]
          PROVE  line[g] = line[h]
        BY <1>2, <1>4, <1>5, <2>1 DEF Listed
    <2> QED BY <1>4, <2>1 DEF LinesDistinct, IInv
<1>7. \A g \in emitted' : slot'[g] = slot[g]
    BY <1>3 DEF IInv, TypeOK
<1>8. TypeOK'
    BY <1>1, <1>3, <1>4 DEF TypeOK, IInv
<1>9. SlotsTogether' /\ SlotsDistinct'
    BY <1>3, <1>7 DEF SlotsTogether, SlotsDistinct, IInv
<1> QED BY <1>1, <1>3, <1>5, <1>6, <1>7, <1>8, <1>9 DEF IInv

\* The last line is a number.
LEMMA LastLineType == IInv => LastLine \in Nat
<1> SUFFICES ASSUME IInv
             PROVE  LastLine \in Nat
    OBVIOUS
<1>1. IsFiniteSet(Listed) /\ \A f \in Listed : line[f] \in Nat
    BY FiniteParts DEF IInv, TypeOK, Listed
<1> QED BY <1>1, LargestKey DEF LastLine

\* The invariant holds at first.
LEMMA InitIInv == Init => IInv
<1> SUFFICES ASSUME Init
             PROVE  IInv
    OBVIOUS
<1>1. PICK S \in SUBSET InRust :
          /\ line \in [Functions -> 0..Cardinality(S)]
          /\ \A f \in Functions : line[f] = 0 <=> f \notin S
          /\ \A f, g \in S : line[f] = line[g] => f = g
          /\ emitted = S
          /\ rust = [f \in Functions |-> IF f \in S THEN "typed" ELSE "absent"]
    BY DEF Init
<1>2. S \in SUBSET Functions
    BY DEF Functions
<1>3. line \in [Functions -> Nat] /\ Listed = S
    BY <1>1, <1>2 DEF Listed
<1>4. rust \in [Functions -> Listings] /\ vendor \in [Functions -> Listings]
    BY <1>1 DEF Init, Listings
<1>5. /\ slot \in [Functions -> Nat \cup {NoSlot}] /\ \A f \in Functions : slot[f] = NoSlot
      /\ number \in [Functions -> Nat \cup {NoNumber}]
    BY DEF Init
<1> QED BY <1>1, <1>2, <1>3, <1>4, <1>5
        DEF IInv, TypeOK, LinesDistinct, SlotsTogether, SlotsDistinct

\* Every step keeps the invariant.
LEMMA StepIInv == IInv /\ [Next]_vars => IInv'
<1> SUFFICES ASSUME IInv, [Next]_vars
             PROVE  IInv'
    OBVIOUS
<1>1. CASE Sync \/ SyncCut
    BY <1>1, SyncWrites, WriteFields
<1>2. ASSUME NEW f \in InRust, NEW listing \in Listings, RefreshRust(f, listing)
      PROVE  IInv'
    BY <1>2 DEF RefreshRust, IInv, TypeOK, LinesDistinct, SlotsTogether, SlotsDistinct,
                Listed
<1>3. ASSUME NEW f \in InUnion, NEW listing \in Listings, RefreshVendor(f, listing)
      PROVE  IInv'
    BY <1>3 DEF RefreshVendor, IInv, TypeOK, LinesDistinct, SlotsTogether, SlotsDistinct,
                Listed
<1>4. ASSUME NEW f \in InRust, NEW place \in 1..(LastLine + 1), AddEntry(f, place)
      PROVE  IInv'
    BY <1>4, AddStep, LastLineType
<1>5. ASSUME NEW f \in Functions, RemoveEntry(f)
      PROVE  IInv'
    BY <1>5, RemoveStep
<1>6. CASE UNCHANGED vars
    BY <1>6 DEF vars, IInv, TypeOK, LinesDistinct, SlotsTogether, SlotsDistinct, Listed
<1> QED BY <1>1, <1>2, <1>3, <1>4, <1>5, <1>6 DEF Next

\* The invariant always holds.
THEOREM Invariant == Spec => []IInv
BY InitIInv, StepIInv, PTL DEF Spec

-----------------------------------------------------------------------------
(* The properties.                                                         *)

\* The slots a synchronisation would assign are always distinct.
THEOREM SlotsDistinctAlways == Spec => []SlotsNeverClash
<1>1. IInv => SlotsNeverClash
    BY AssignedSlots DEF SlotsNeverClash
<1> QED BY <1>1, Invariant, PTL

\* Only entries of the inventory have a stable_id of the vendor range.
Numbered == \A f \in Functions : f \notin Listed => number[f] = NoNumber

\* Every step keeps it so: an entry that goes takes its stable_id along.
LEMMA StepNumbered == IInv /\ Numbered /\ [Next]_vars => Numbered'
<1> SUFFICES ASSUME IInv, Numbered, [Next]_vars
             PROVE  Numbered'
    OBVIOUS
<1>1. CASE Sync \/ SyncCut
    <2>1. PICK kept \in SUBSET Merged : Write(kept)
        BY <1>1, SyncWrites
    <2>2. \A f \in kept : f \in Functions /\ MergedLine[f] # 0
        BY FiniteParts, MergedLines DEF IInv
    <2> QED BY <2>1, <2>2 DEF Write, Numbered, Listed
<1>2. ASSUME NEW f \in InRust, NEW place \in 1..(LastLine + 1), AddEntry(f, place)
      PROVE  Numbered'
    <2>1. \A g \in Listed : line'[g] # 0
        BY <1>2, LastLineType DEF AddEntry, IInv, TypeOK, Listed
    <2> QED BY <1>2, <2>1 DEF AddEntry, Numbered, Listed
<1>3. ASSUME NEW f \in Functions, RemoveEntry(f)
      PROVE  Numbered'
    <2>1. \A g \in Listed \ {f} : line'[g] # 0
        BY <1>3 DEF RemoveEntry, IInv, TypeOK, Listed
    <2> QED BY <1>3, <2>1 DEF RemoveEntry, Numbered, Listed, IInv, TypeOK
<1>4. CASE UNCHANGED <<line, number>>
    BY <1>4 DEF Numbered, Listed
<1> QED BY <1>1, <1>2, <1>3, <1>4 DEF Next, RefreshRust, RefreshVendor, vars

\* The first of the entries that a synchronisation adds has the base id.
LEMMA FirstHasTheBase ==
    ASSUME IInv, NewVendor # {}
    PROVE  \E f \in NewVendor : MergedNumber[f] = 0
<1>1. /\ IsFiniteSet(NewVendor) /\ NewVendor \subseteq Functions
      /\ \A f \in NewVendor : UnionRank[f] \in Nat
    BY FiniteParts, RankAssumption DEF IInv, NewVendor
<1>2. PICK m \in Nat : \A f \in NewVendor : UnionRank[f] <= m
    BY <1>1, LargestKey
<1> DEFINE key == [f \in NewVendor |-> m - UnionRank[f]]
<1>3. \A f \in NewVendor : key[f] \in Nat
    BY <1>1, <1>2
<1>4. PICK f \in NewVendor : \A g \in NewVendor : key[g] <= key[f]
    <2> HIDE DEF key
    <2> QED BY <1>1, <1>3, LargestExists
<1>5. \A g \in NewVendor : ~(UnionRank[g] < UnionRank[f])
    BY <1>1, <1>4
<1>6. {g \in NewVendor : UnionRank[g] < UnionRank[f]} = {}
    BY <1>5
<1>7. Earlier(NewVendor, UnionRank, f) = 0
    BY <1>6, FS_EmptySet DEF Earlier
<1> QED BY <1>1, <1>7 DEF MergedNumber

\* While an entry holds the base id validate refuses every addition, however the
\* inventory came about, and the entries that stay keep their stable_ids.
THEOREM AdditionsNeedTheBaseAlways == Spec => AdditionsNeedTheBase
<1> DEFINE Numbering == /\ (\E f \in Listed' \ Listed : number'[f] # NoNumber)
                                => \A f \in Listed : number[f] # 0
                        /\ \A f \in Listed \cap Listed' : number'[f] = number[f]
<1>1. Init => Numbered
    BY DEF Init, Numbered
<1>2. ASSUME IInv, Numbered, Next PROVE Numbering
    <2>1. CASE Sync \/ SyncCut
        <3>1. NumbersUnique
            BY <2>1, SyncWrites
        <3>2. PICK kept \in SUBSET Merged : Write(kept)
            BY <2>1, SyncWrites
        <3>3. /\ Merged \subseteq Functions /\ Listed \subseteq Functions
              /\ \A f \in Listed' : f \in kept /\ f \in Merged /\ number'[f] = MergedNumber[f]
            BY <1>2, <3>2, FiniteParts DEF Write, Listed, IInv
        <3>4. \A f \in Listed : f \in Merged /\ MergedNumber[f] = number[f]
            BY <3>3 DEF Merged, MergedNumber, NewVendor
        <3>5. ASSUME NEW f \in Listed' \ Listed, NEW g \in Listed, number[g] = 0
              PROVE  FALSE
            <4>1. NewVendor # {}
                BY <3>3 DEF Merged
            <4>2. PICK h \in NewVendor : MergedNumber[h] = 0
                BY <1>2, <4>1, FirstHasTheBase
            <4>3. h \in Merged /\ h # g
                BY DEF Merged, NewVendor
            <4> QED BY <3>1, <3>4, <3>5, <4>2, <4>3, BoundAssumption DEF NumbersUnique
        <3> QED BY <3>3, <3>4, <3>5
    <2>2. ASSUME NEW f \in InRust, NEW place \in 1..(LastLine + 1), AddEntry(f, place)
          PROVE  Numbering
        BY <1>2, <2>2 DEF AddEntry, Numbered, Listed
    <2>3. ASSUME NEW f \in Functions, RemoveEntry(f)
          PROVE  Numbering
        <3>1. Listed' \subseteq Listed \ {f}
            <4>1. /\ line \in [Functions -> Nat] /\ line[f] \in Nat
                  /\ \A g \in Functions :
                         line'[g] = CASE g = f -> 0
                                      [] g # f /\ line[g] > line[f] -> line[g] - 1
                                      [] OTHER -> line[g]
                BY <1>2, <2>3 DEF RemoveEntry, IInv, TypeOK
            <4>2. ASSUME NEW g \in Functions, line'[g] # 0
                  PROVE  g # f /\ line[g] # 0
                BY <4>1, <4>2
            <4> QED BY <4>2 DEF Listed
        <3> QED BY <2>3, <3>1 DEF RemoveEntry, Listed, IInv, TypeOK
    <2>4. CASE UNCHANGED <<line, number>>
        BY <2>4 DEF Listed
    <2> QED BY <1>2, <2>1, <2>2, <2>3, <2>4 DEF Next, RefreshRust, RefreshVendor
<1>3. IInv /\ Numbered /\ [Next]_vars => [Numbering]_vars
    BY <1>2
<1> QED BY <1>1, <1>3, StepNumbered, Invariant, PTL DEF Spec, AdditionsNeedTheBase

\* No step gives a slot that it frees to another function.
THEOREM FreedSlotRestsAlways == Spec => FreedSlotRests
<1>1. IInv /\ [Next]_vars
          => [\A f \in emitted \ emitted', g \in emitted' \ emitted :
                  slot[f] = NoSlot \/ slot'[g] # slot[f]]_vars
    <2> SUFFICES ASSUME IInv, Next, NEW f \in emitted \ emitted',
                        NEW g \in emitted' \ emitted, slot[f] # NoSlot
                 PROVE  slot'[g] # slot[f]
        BY DEF vars
    <2>1. CASE Sync \/ SyncCut
        <3>1. g \in Promoted \ emitted /\ slot'[g] = AssignedSlot(g)
            BY <2>1, SyncWrites, WriteFields
        <3>2. CapturedSlot(f) = slot[f]
            BY DEF CapturedSlot
        <3>3. CapturedSlot(f) < AssignedSlot(g) /\ CapturedSlot(f) \in Nat
            BY <3>1, AssignedSlots, CapturedSlots
        <3> QED BY <3>1, <3>2, <3>3
    <2>2. CASE emitted' \subseteq emitted
        BY <2>2
    <2> QED BY <2>1, <2>2 DEF Next, RefreshRust, RefreshVendor, AddEntry, RemoveEntry
<1> QED BY <1>1, Invariant, PTL DEF FreedSlotRests, Spec

\* The fields stand in one line, that of the inventory while there are no slots.
OneLine == Log!InLine(emitted, FieldPairs)

InventoryOrder ==
    (\A f \in emitted : slot[f] = NoSlot)
        => \A f, g \in emitted : CapturedSlot(f) < CapturedSlot(g) <=> line[f] < line[g]

\* The invariant implies both.
LEMMA FieldsInLine == IInv => OneLine /\ InventoryOrder
<1> SUFFICES ASSUME IInv
             PROVE  OneLine /\ InventoryOrder
    OBVIOUS
<1>1. /\ \A f \in emitted : CapturedSlot(f) \in Nat
      /\ \A f, g \in emitted : CapturedSlot(f) = CapturedSlot(g) => f = g
    BY CapturedSlots
<1>2. \A f, g \in emitted : <<f, g>> \in FieldPairs <=> CapturedSlot(f) < CapturedSlot(g)
    BY DEF FieldPairs
<1>3. FieldPairs \subseteq emitted \X emitted
    BY DEF FieldPairs
<1>4. OneLine
    BY <1>1, <1>2, <1>3 DEF Log!InLine, OneLine
<1> QED BY <1>4, CapturedSlots DEF InventoryOrder

\* The fields that a step leaves alone keep their order.
LEMMA SameOrder ==
    ASSUME IInv, IInv', emitted' \subseteq emitted,
           \A f \in emitted' : slot'[f] = slot[f],
           \A f, g \in emitted' : line'[f] < line'[g] <=> line[f] < line[g],
           NEW f \in emitted', NEW g \in emitted'
    PROVE  CapturedSlot(f)' < CapturedSlot(g)' <=> CapturedSlot(f) < CapturedSlot(g)
<1>1. CASE \A h \in emitted : slot[h] = NoSlot
    <2>1. CapturedSlot(f) < CapturedSlot(g) <=> line[f] < line[g]
        BY <1>1, CapturedSlots
    <2>2. InventoryOrder'
        BY FieldsInLine, PTL
    <2>3. \A h \in emitted' : slot'[h] = NoSlot
        BY <1>1
    <2> QED BY <2>1, <2>2, <2>3 DEF InventoryOrder
<1>2. CASE \A h \in emitted : slot[h] # NoSlot
    BY <1>2 DEF CapturedSlot
<1> QED BY <1>1, <1>2 DEF IInv, SlotsTogether

\* Every step of the manifest is a step of the field log or leaves it alone.
LEMMA StepPublishes ==
    IInv /\ IInv' /\ [Next]_vars => [Log!Next]_<<emitted, FieldPairs>>
<1> SUFFICES ASSUME IInv, IInv', Next
             PROVE  Log!Next \/ (emitted' = emitted /\ FieldPairs' = FieldPairs)
    BY DEF vars, FieldPairs, CapturedSlot, Earlier, Log!vars
<1>1. emitted' \subseteq Functions
    BY DEF IInv, TypeOK, Listed
<1>2. Log!InLine(emitted', FieldPairs')
    <2>1. OneLine'
        BY FieldsInLine, PTL
    <2> QED BY <2>1 DEF OneLine
<1>3. \A f, g \in emitted : <<f, g>> \in FieldPairs <=> CapturedSlot(f) < CapturedSlot(g)
    BY DEF FieldPairs
<1>4. \A f, g \in emitted' :
          <<f, g>> \in FieldPairs' <=> CapturedSlot(f)' < CapturedSlot(g)'
    BY DEF FieldPairs
<1>5. CASE Sync \/ SyncCut
    <2>1. /\ \A f \in emitted' : f \in Promoted /\ slot'[f] = AssignedSlot(f)
          /\ \A f \in emitted' : slot'[f] # NoSlot
        BY <1>5, SyncWrites, WriteFields
    <2>2. \A f, g \in emitted' :
              <<f, g>> \in FieldPairs' <=> AssignedSlot(f) < AssignedSlot(g)
        BY <2>1 DEF FieldPairs, CapturedSlot
    <2>3. \A f, g \in emitted \cap emitted' :
              <<f, g>> \in FieldPairs <=> <<f, g>> \in FieldPairs'
        BY <1>3, <2>2, AssignedSlots
    <2>4. \A f \in emitted \cap emitted', g \in emitted' \ emitted :
              <<f, g>> \in FieldPairs'
        <3> SUFFICES ASSUME NEW f \in emitted \cap emitted', NEW g \in emitted' \ emitted
                     PROVE  <<f, g>> \in FieldPairs'
            OBVIOUS
        <3>1. CapturedSlot(f) < AssignedSlot(g) /\ AssignedSlot(f) = CapturedSlot(f)
            BY <2>1, AssignedSlots
        <3> QED BY <2>2, <3>1
    <2> QED BY <1>1, <1>2, <2>3, <2>4 DEF Log!Next, Log!Publish
<1>6. ASSUME /\ emitted' \subseteq emitted
             /\ \A f \in emitted' : slot'[f] = slot[f]
             /\ \A f, g \in emitted' : line'[f] < line'[g] <=> line[f] < line[g]
      PROVE  Log!Next
    <2>1. \A f, g \in emitted' :
              CapturedSlot(f)' < CapturedSlot(g)' <=> CapturedSlot(f) < CapturedSlot(g)
        BY <1>6, SameOrder
    <2>2. \A f, g \in emitted \cap emitted' :
              <<f, g>> \in FieldPairs <=> <<f, g>> \in FieldPairs'
        BY <1>3, <1>4, <2>1
    <2> QED BY <1>1, <1>2, <1>6, <2>2 DEF Log!Next, Log!Publish
<1>7. CASE \E f \in InRust, place \in 1..(LastLine + 1) : AddEntry(f, place)
    BY <1>6, <1>7, AddStep, LastLineType DEF AddEntry
<1>8. CASE \E f \in Functions : RemoveEntry(f)
    BY <1>6, <1>8, RemoveStep
<1>9. CASE UNCHANGED <<line, emitted, slot>>
    BY <1>6, <1>9
<1> QED BY <1>5, <1>7, <1>8, <1>9 DEF Next, RefreshRust, RefreshVendor

\* The manifest implements the field log: the table is append-only up to
\* withdrawal.
THEOREM ImplementsFieldLog == Spec => RefinesFieldLog
<1>1. Init => Log!Init
    BY InitIInv, FieldsInLine DEF Log!Init, OneLine, IInv, TypeOK, Listed
<1> QED BY <1>1, StepPublishes, Invariant, PTL
        DEF RefinesFieldLog, Log!Spec, Spec, Log!vars

\* What a complete synchronisation wrote, seen by the next one: the inventory holds
\* every entry, the flags are decided and the slots are captured.
LEMMA SyncIsRead ==
    ASSUME IInv, Sync
    PROVE  /\ Listed' = Merged /\ NewVendor' = {} /\ Merged' = Merged
           /\ line' = MergedLine /\ emitted' = Promoted
           /\ \A f \in Merged : number'[f] = MergedNumber[f]
           /\ \A f \in Promoted : slot'[f] = AssignedSlot(f) /\ slot'[f] # NoSlot
           /\ UNCHANGED <<rust, vendor>>
<1>1. Write(Merged) /\ Promoted \subseteq Merged /\ Merged \subseteq Functions
  BY FiniteParts DEF Sync, IInv
<1>2. /\ MergedLine \in [Functions -> Nat]
      /\ \A f \in Functions : MergedLine[f] # 0 <=> f \in Merged
  BY MergedLines
<1>3. line' = MergedLine
  BY <1>1, <1>2 DEF Write
<1>4. Listed' = Merged
  BY <1>1, <1>2, <1>3 DEF Listed
<1>5. UNCHANGED <<rust, vendor>> /\ emitted' = Promoted
  BY <1>1 DEF Write
<1>6. NewVendor' = {}
  BY <1>4, <1>5 DEF NewVendor, Merged
<1>7. Merged' = Merged
  BY <1>4, <1>6 DEF Merged
<1>8. \A f \in Merged : number'[f] = MergedNumber[f]
  BY <1>1 DEF Write
<1>9. \A f \in Promoted : slot'[f] = AssignedSlot(f) /\ slot'[f] # NoSlot
  BY <1>1, <1>5, WriteFields
<1> QED BY <1>3, <1>4, <1>5, <1>6, <1>7, <1>8, <1>9

\* With no oracle changed in between, a synchronisation leaves nothing to the next.
THEOREM OneSyncIsEnough == Spec => SyncSettles
<1>1. ASSUME IInv, Sync PROVE Settled'
  <2>1. /\ Listed' = Merged /\ NewVendor' = {} /\ Merged' = Merged
        /\ line' = MergedLine /\ emitted' = Promoted
        /\ \A f \in Merged : number'[f] = MergedNumber[f]
        /\ \A f \in Promoted : slot'[f] = AssignedSlot(f) /\ slot'[f] # NoSlot
        /\ UNCHANGED <<rust, vendor>>
    BY <1>1, SyncIsRead
  <2>2. TypeOK' /\ Accepted
    BY <1>1, SyncWrites, WriteFields DEF Sync, IInv
  <2>3. MergedLine' = line' /\ MergedNumber' = number'
    BY <2>1, <2>2 DEF MergedLine, MergedNumber, TypeOK
  <2>4. FromVendor' = FromVendor
    BY <2>1 DEF FromVendor
  <2>5. Promoted' = Promoted
    <3>1. \A f \in Promoted : rust[f] = "absent" => f \in FromVendor
      <4>1. Promoted \subseteq Merged
        BY <1>1, FiniteParts DEF IInv
      <4> QED BY <2>2, <4>1 DEF Accepted, FromVendor
    <3>2. FromVendor \subseteq Promoted
      BY DEF Promoted
    <3>3. Promoted' = {f \in Merged : rust[f] = "typed"} \cup FromVendor
                          \cup {f \in Promoted : rust[f] = "absent"}
      BY <2>1, <2>4 DEF Promoted
    <3>4. {f \in Merged : rust[f] = "typed"} \subseteq Promoted
      BY DEF Promoted
    <3>5. \A f \in Promoted : f \in {g \in Merged : rust[g] = "typed"} \cup FromVendor
      BY <3>1 DEF Promoted
    <3> QED BY <3>2, <3>3, <3>4, <3>5
  <2>6. \A f \in Promoted : AssignedSlot(f)' = slot'[f]
    BY <2>1 DEF AssignedSlot, CapturedSlot
  <2>7. NumbersUnique'
    BY <2>1, <2>2, <2>3 DEF Accepted, NumbersUnique
  <2>8. \A f, g \in Promoted : AssignedSlot(f)' = AssignedSlot(g)' => f = g
    BY <2>1, <2>2, <2>6 DEF Accepted
  <2>9. Accepted'
    BY <2>1, <2>2, <2>4, <2>5, <2>7, <2>8 DEF Accepted
  <2> QED BY <2>1, <2>3, <2>5, <2>6, <2>9 DEF Settled
<1>2. IInv /\ [Next]_vars => [Sync => Settled']_vars
  BY <1>1
<1> QED BY <1>2, Invariant, PTL DEF Spec, SyncSettles

=============================================================================
