-------------------------- MODULE TableBuildProofs --------------------------
(***************************************************************************)
(* The four invariants of a table's build, for any library, any reviewed   *)
(* profiles and any inventories of the assumed shape.                      *)
(*                                                                         *)
(* The bootstrap settles the profile before anything is resolved, and what *)
(* it settled says of every later step what may be asked and written: so   *)
(* each report, raw field and cell is right when it is made.  A symbol is  *)
(* settled once because the core lists it once, after the version function *)
(* only, and the inventory's loop asks whether it has been.                *)
(***************************************************************************)
EXTENDS TableBuild, SequenceTheorems, TLAPS

Stages == {"bootstrap", "failed", "open", "core", "inventory", "built",
           "valid", "invalid", "published"}
Hows == {"ProcAddress", "Direct", "DirectAdapter", "Missing",
         "PlatformUnavailable", "ProfileUnavailable"}
Reps == [symbol : Symbols, how : Hows, required : BOOLEAN, asked : BOOLEAN, refused : BOOLEAN]

TypeOK ==
    /\ family \in Families
    /\ version \in Int
    /\ fileName \in FileNames
    /\ entry \in {"none", "legacy", "v2"}
    /\ stage \in Stages
    /\ done \in Nat
    /\ reports \in Seq(Reps)
    /\ raw \subseteq Symbols
    /\ common \subseteq Symbols

\* Nothing is settled before the proc-address entry is known.
Early ==
    stage \in {"bootstrap", "failed", "open"} =>
        /\ entry = "none" /\ done = 0
        /\ reports = <<>> /\ raw = {} /\ common = {} /\ cells = {}

\* A HIP library beyond its bootstrap is in a reviewed profile.
ProfileSettled ==
    Hip /\ stage \notin {"bootstrap", "failed"} =>
        /\ InProfile(version)
        /\ \A m \in Claim(fileName) : m = Major(version)

\* The proc-address entry is there, and asked, only where it may be.
AskedWherePermitted ==
    Hip =>
        /\ entry # "none" => ProcPermitted
        /\ \A i \in DOMAIN reports : reports[i].asked => entry # "none" /\ Full

\* The core stage has reports of the version function and the symbols done.
CoreOrder ==
    stage = "core" =>
        \A i \in DOMAIN reports :
            \/ reports[i].symbol = Bootstrap
            \/ \E j \in 1..done : j \in DOMAIN Core[family] /\ reports[i].symbol = Core[family][j]

\* A row of the inventory that was passed has a report.
Covered ==
    /\ stage = "inventory" =>
           \A k \in DOMAIN Inventory[family] : k <= done => Already(Inventory[family][k])
    /\ stage \in {"built", "valid", "invalid", "published"} =>
           \A k \in DOMAIN Inventory[family] : Already(Inventory[family][k])

Distinct == \A i, j \in DOMAIN reports : reports[i].symbol = reports[j].symbol => i = j

\* The reports say what the raw table has, and it has nothing else.
Told ==
    /\ \A i \in DOMAIN reports :
           reports[i].symbol \in raw <=>
               /\ Found(reports[i]) /\ reports[i].how # "DirectAdapter"
               /\ reports[i].symbol \notin Fieldless
    /\ \A s \in raw : Already(s)

\* The cell of a required adapter is set when its entry is.
CellsFilled == \A s \in common : CellOf(s) \subseteq cells

\* A required symbol that is present and no adapter reaches is declared, in the
\* running version, as the raw table declares it.
CommonReviewed == Hip => \A s \in common : ByAdapter(s) \/ version >= Since[s]

\* What validation and the common table add.
Finished ==
    /\ stage \in {"valid", "published"} =>
           CoreSet(family) \subseteq common /\ <<Attribute, "native">> \in cells
    /\ stage = "published" /\ Hip /\ CopyDtoD \in raw => <<CopyDtoD, "native">> \in cells

IInv ==
    /\ TypeOK /\ Early /\ ProfileSettled /\ AskedWherePermitted /\ CoreOrder
    /\ Covered /\ Distinct /\ Told /\ CellsFilled /\ CommonReviewed /\ Finished
    /\ OnlyReviewedTypes

\* Every row of an inventory, and every required symbol, is a symbol.
LEMMA SymbolsTyped ==
    ASSUME NEW d \in Families
    PROVE  /\ \A i \in DOMAIN Inventory[d] : Inventory[d][i] \in Symbols
           /\ \A i \in DOMAIN Core[d] : Core[d][i] \in Symbols /\ Core[d][i] \in CoreSet(d)
           /\ DOMAIN Inventory[d] = 1..Len(Inventory[d]) /\ Len(Inventory[d]) \in Nat
           /\ DOMAIN Core[d] = 1..Len(Core[d]) /\ Len(Core[d]) \in Nat
<1>1. Inventory[d] \in Seq(Symbols) /\ Core[d] \in Seq(Symbols) BY ShapeAssumption
<1> QED BY <1>1 DEF CoreSet

\* What a report says is what it is made of.
LEMMA ReportTyped ==
    ASSUME NEW s \in Symbols, NEW q \in BOOLEAN
    PROVE  \A how \in Hows, x \in BOOLEAN, y \in BOOLEAN :
               /\ Report(s, how, q, x, y) \in Reps
               /\ Report(s, how, q, x, y).symbol = s
               /\ Report(s, how, q, x, y).how = how
               /\ Report(s, how, q, x, y).asked = x
BY DEF Report, Reps

\* The report of a symbol that is resolved.
LEMMA ResolveShape ==
    ASSUME NEW s \in Symbols, NEW v \in BOOLEAN, NEW q \in BOOLEAN, NEW r \in Resolve(s, v, q)
    PROVE  /\ r \in Reps /\ r.symbol = s /\ r.how # "DirectAdapter"
           /\ r.asked => entry # "none" /\ v
<1>1. PICK how \in Hows \ {"DirectAdapter"}, x \in BOOLEAN, y \in BOOLEAN :
          r = Report(s, how, q, x, y) /\ (x => entry # "none" /\ v)
  <2> DEFINE asks == entry # "none" /\ v
             direct(refused) == {Report(s, how, q, asks, refused) : how \in {"Direct", "Missing"}}
  <2>1. asks \in BOOLEAN OBVIOUS
  <2>2. ASSUME NEW y \in BOOLEAN, r \in direct(y)
        PROVE  \E how \in Hows \ {"DirectAdapter"}, x \in BOOLEAN, z \in BOOLEAN :
                   r = Report(s, how, q, x, z) /\ (x => entry # "none" /\ v)
    BY <2>1, <2>2 DEF Hows
  <2>3. CASE ~ asks
    <3>1. r \in direct(FALSE) BY <2>3 DEF Resolve
    <3> QED BY <2>2, <3>1
  <2>4. CASE asks
    <3>1. \/ r = Report(s, "ProcAddress", q, TRUE, FALSE)
          \/ \E a \in Heard : r \in direct(a.status = "VersionInsufficient")
      BY <2>4 DEF Resolve
    <3>2. CASE r = Report(s, "ProcAddress", q, TRUE, FALSE) BY <2>4, <3>2 DEF Hows
    <3>3. CASE \E a \in Heard : r \in direct(a.status = "VersionInsufficient")
      BY <2>2, <3>3
    <3> QED BY <3>1, <3>2, <3>3
  <2> QED BY <2>3, <2>4
<1> QED BY <1>1, ReportTyped

\* The report of a required symbol.
LEMMA CoreShape ==
    ASSUME NEW s \in Symbols, NEW r \in CoreReports(s)
    PROVE  /\ r \in Reps /\ r.symbol = s
           /\ r.asked => entry # "none" /\ Full
           /\ Found(r) /\ ~ ByAdapter(s) =>
                  Full \/ s \in Profiles[Major(version)].exact
           /\ Found(r) /\ r.how # "DirectAdapter" => ~ ByAdapter(s)
<1>1. CASE s \in Foreign
  <2>1. r = Report(s, "PlatformUnavailable", TRUE, FALSE, FALSE)
    BY <1>1 DEF CoreReports, Unavailable
  <2>2. r \in Reps /\ r.symbol = s /\ r.how = "PlatformUnavailable" /\ r.asked = FALSE
    BY <2>1 DEF Report, Reps, Hows
  <2> QED BY <2>2 DEF Found
<1>2. CASE s \notin Foreign /\ ByAdapter(s)
  <2>1. PICK how \in {"DirectAdapter", "Missing"} : r = Report(s, how, TRUE, FALSE, FALSE)
    BY <1>2 DEF CoreReports
  <2>2. r \in Reps /\ r.symbol = s /\ r.how = how /\ r.asked = FALSE
    BY <2>1 DEF Report, Reps, Hows
  <2> QED BY <1>2, <2>2 DEF Found
<1>3. CASE /\ s \notin Foreign /\ ~ ByAdapter(s)
           /\ ~ Full /\ s \notin Profiles[Major(version)].exact
  <2>1. r = Report(s, "ProfileUnavailable", TRUE, FALSE, FALSE)
    BY <1>3 DEF CoreReports, Unavailable
  <2>2. r \in Reps /\ r.symbol = s /\ r.how = "ProfileUnavailable" /\ r.asked = FALSE
    BY <2>1 DEF Report, Reps, Hows
  <2> QED BY <2>2 DEF Found
<1>4. CASE /\ s \notin Foreign /\ ~ ByAdapter(s)
           /\ Full \/ s \in Profiles[Major(version)].exact
  <2> DEFINE v == Full /\ s \in Versioned
  <2>1. r \in Resolve(s, v, TRUE) BY <1>4 DEF CoreReports
  <2>2. v \in BOOLEAN OBVIOUS
  <2> HIDE DEF v
  <2>3. r \in Reps /\ r.symbol = s /\ (r.asked => entry # "none" /\ v)
    BY <2>1, <2>2, ResolveShape
  <2> QED BY <1>4, <2>3 DEF v
<1> QED BY <1>1, <1>2, <1>3, <1>4

\* The report of a row of the inventory.
LEMMA InventoryShape ==
    ASSUME NEW s \in Symbols, NEW r \in InventoryReports(s)
    PROVE  /\ r \in Reps /\ r.symbol = s /\ r.how # "DirectAdapter"
           /\ r.asked => entry # "none" /\ Full
           /\ Found(r) => Full \/ s \in Optional
<1>1. CASE s \in Foreign
  <2>1. r = Report(s, "PlatformUnavailable", FALSE, FALSE, FALSE)
    BY <1>1 DEF InventoryReports, Unavailable
  <2>2. r \in Reps /\ r.symbol = s /\ r.how = "PlatformUnavailable" /\ r.asked = FALSE
    BY <2>1 DEF Report, Reps, Hows
  <2> QED BY <2>2 DEF Found
<1>2. CASE s \notin Foreign /\ ~ Full /\ s \notin Optional
  <2>1. r = Report(s, "ProfileUnavailable", FALSE, FALSE, FALSE)
    BY <1>2 DEF InventoryReports, Unavailable
  <2>2. r \in Reps /\ r.symbol = s /\ r.how = "ProfileUnavailable" /\ r.asked = FALSE
    BY <2>1 DEF Report, Reps, Hows
  <2> QED BY <2>2 DEF Found
<1>3. CASE s \notin Foreign /\ (Full \/ s \in Optional)
  <2> DEFINE v == Full /\ s \in Versioned
  <2>1. r \in Resolve(s, v, FALSE) BY <1>3 DEF InventoryReports
  <2>2. v \in BOOLEAN OBVIOUS
  <2> HIDE DEF v
  <2>3. r \in Reps /\ r.symbol = s /\ r.how # "DirectAdapter" /\ (r.asked => entry # "none" /\ v)
    BY <2>1, <2>2, ResolveShape
  <2> QED BY <1>3, <2>3 DEF v
<1> QED BY <1>1, <1>2, <1>3

\* At first nothing is settled.
LEMMA InitHolds == Init => IInv
<1> SUFFICES ASSUME Init PROVE IInv
  OBVIOUS
<1> USE DEF Init
<1>1. TypeOK BY DEF TypeOK, Stages, NoVersion
<1>2. Early BY DEF Early
<1>3. ProfileSettled
  BY DEF ProfileSettled, Hip
<1>4. AskedWherePermitted BY DEF AskedWherePermitted
<1>5. CoreOrder /\ Covered /\ Distinct BY DEF CoreOrder, Covered, Distinct
<1>6. Told /\ CellsFilled /\ Finished BY DEF Told, CellsFilled, Finished
<1>7. OnlyReviewedTypes /\ CommonReviewed BY DEF OnlyReviewedTypes, CommonReviewed
<1> QED BY <1>1, <1>2, <1>3, <1>4, <1>5, <1>6, <1>7 DEF IInv

\* Where the whole inventory may be filled, every symbol is reviewed; and an
\* optional one, the version function, or one the profile has as the raw table
\* does, is reviewed in every profile.
LEMMA RowReviewed ==
    ASSUME InProfile(version), Hip, version \in Int, NEW s \in Symbols,
           Full \/ s \in Optional \cup {Bootstrap} \cup Profiles[Major(version)].exact
    PROVE  version >= Since[s]
<1> DEFINE m == Major(version)
<1>1. m \in DOMAIN Profiles /\ version \in Profiles[m].min..Profiles[m].max
  BY DEF InProfile
<1>2. Full => \E r \in Profiles[m].raw : version >= r BY DEF Full, Reaches
<1> HIDE DEF m
<1>3. Since[s] \in Int /\ Profiles[m].min \in Int /\ Profiles[m].max \in Int
  BY <1>1, EvidenceAssumption
<1>4. CASE Full
  <2>1. PICK r \in Profiles[m].raw : version >= r BY <1>2, <1>4
  <2>2. r \in Int /\ Since[s] <= r BY <1>1, EvidenceAssumption
  <2> QED BY <1>3, <2>1, <2>2
<1>5. CASE s \in Optional \cup {Bootstrap} \cup Profiles[m].exact
  <2>1. Since[s] <= Profiles[m].min BY <1>1, <1>5, EvidenceAssumption
  <2> QED BY <1>1, <1>3, <2>1
<1> QED BY <1>4, <1>5 DEF m

\* The cell a required symbol fills is for a function of its form.
LEMMA CellReviewed ==
    ASSUME InProfile(version), Hip, version \in Int,
           NEW s \in Symbols, ByAdapter(s) \/ version >= Since[s], NEW c \in CellOf(s)
    PROVE  IF c[2] = "legacy" THEN version < Since[c[1]] ELSE version >= Since[c[1]]
<1>1. CASE ByAdapter(s)
  <2>1. c[1] = s /\ c[2] = "legacy" BY <1>1 DEF CellOf
  <2>2. s \in Symbols \cap Adapted BY <1>1 DEF ByAdapter
  <2> DEFINE m == Major(version)
  <2>3. m \in DOMAIN Profiles /\ m \in Legacy /\ version \in Profiles[m].min..Profiles[m].max
    BY <1>1 DEF InProfile, ByAdapter
  <2> HIDE DEF m
  <2>4. Since[s] > Profiles[m].max /\ Since[s] \in Int
        /\ Profiles[m].min \in Int /\ Profiles[m].max \in Int
    BY <2>2, <2>3, EvidenceAssumption
  <2> QED BY <2>1, <2>3, <2>4
<1>2. CASE ~ ByAdapter(s)
  <2>1. c[1] = s /\ c[2] = "native" BY <1>2 DEF CellOf
  <2> QED BY <1>2, <2>1
<1> QED BY <1>1, <1>2

\* Pushing the report of a symbol that had none keeps reports and table in step.
LEMMA SettleKeeps ==
    ASSUME TypeOK, Told, Distinct, NEW r \in Reps, ~ Already(r.symbol),
           Settle(r, Found(r) /\ r.how # "DirectAdapter")
    PROVE  /\ reports' \in Seq(Reps) /\ raw' \subseteq Symbols
           /\ Told' /\ Distinct'
           /\ \A i \in DOMAIN reports' :
                  (i \in DOMAIN reports /\ reports'[i] = reports[i]) \/ reports'[i] = r
           /\ \A s : Already(s) \/ s = r.symbol => Already(s)'
           /\ \A s \in raw' :
                  s \in raw \/ (s = r.symbol /\ Found(r) /\ r.how # "DirectAdapter")
<1> DEFINE n == Len(reports)
<1>1. /\ reports' = Append(reports, r)
      /\ raw' = IF Found(r) /\ r.how # "DirectAdapter"
                THEN raw \cup ({r.symbol} \ Fieldless) ELSE raw
  BY DEF Settle
<1>2. reports \in Seq(Reps) /\ raw \subseteq Symbols /\ r.symbol \in Symbols
  BY DEF TypeOK, Reps
<1>3. /\ reports' \in Seq(Reps)
      /\ n \in Nat /\ DOMAIN reports = 1..n /\ DOMAIN reports' = 1..n + 1
      /\ reports'[n + 1] = r /\ \A i \in 1..n : reports'[i] = reports[i]
  BY <1>1, <1>2
<1> HIDE DEF n
<1>4. \A i \in 1..n : reports[i].symbol # r.symbol BY <1>3 DEF Already
<1>5. r.symbol \notin raw BY DEF Told
<1>6. Distinct' BY <1>3, <1>4 DEF Distinct
<1>7. \A s : Already(s) \/ s = r.symbol => Already(s)' BY <1>3 DEF Already
<1>8. Told'
  <2>1. ASSUME NEW i \in DOMAIN reports'
        PROVE  reports'[i].symbol \in raw' <=>
                   /\ Found(reports'[i]) /\ reports'[i].how # "DirectAdapter"
                   /\ reports'[i].symbol \notin Fieldless
    <3>1. CASE i \in 1..n
      <4>1. reports'[i] = reports[i] /\ i \in DOMAIN reports /\ reports[i].symbol # r.symbol
        BY <1>3, <1>4, <3>1
      <4>2. reports[i].symbol \in raw' <=> reports[i].symbol \in raw BY <1>1, <4>1
      <4> QED BY <4>1, <4>2 DEF Told
    <3>2. CASE i = n + 1
      <4>1. reports'[i] = r BY <1>3, <3>2
      <4>2. r.symbol \in raw' <=>
                Found(r) /\ r.how # "DirectAdapter" /\ r.symbol \notin Fieldless
        BY <1>1, <1>5
      <4> QED BY <4>1, <4>2
    <3> QED BY <1>3, <2>1, <3>1, <3>2
  <2>2. \A s \in raw' : Already(s)' BY <1>1, <1>7 DEF Told
  <2> QED BY <2>1, <2>2 DEF Told, Found
<1>9. raw' \subseteq Symbols BY <1>1, <1>2
<1>10. \A i \in DOMAIN reports' :
           (i \in DOMAIN reports /\ reports'[i] = reports[i]) \/ reports'[i] = r
  BY <1>3
<1>11. \A s \in raw' : s \in raw \/ (s = r.symbol /\ Found(r) /\ r.how # "DirectAdapter")
  BY <1>1
<1> QED BY <1>3, <1>6, <1>7, <1>8, <1>9, <1>10, <1>11

\* A version that passes the bootstrap's checks is in a profile the name allows.
LEMMA BootstrapChecks ==
    ASSUME NEW v \in Int, NEW n \in FileNames, BootstrapError(v, n) = "None"
    PROVE  InProfile(v) /\ \A m \in Claim(n) : m = Major(v)
<1>1. Major(v) \in Int BY ShapeAssumption DEF Major
<1>2. v > 0 BY <1>1 DEF BootstrapError
<1>3. Major(v) \in DOMAIN Profiles BY <1>1, <1>2 DEF BootstrapError
<1>4. (IF \E m \in Claim(n) : m # Major(v) THEN "RuntimeProfileMismatch"
       ELSE IF ~ InProfile(v) THEN "UnsupportedRuntimeVersion" ELSE "None") = "None"
  BY <1>2, <1>3 DEF BootstrapError
<1> QED BY <1>4

\* The bootstrap settles the profile and nothing else.
LEMMA AskVersionKeeps == ASSUME IInv, AskVersion PROVE IInv'
<1> USE DEF IInv
<1>1. PICK v \in Reported \cup {NoVersion} :
          /\ version' = v
          /\ stage' = IF BootstrapError(v, fileName) = "None" THEN "open" ELSE "failed"
  BY DEF AskVersion
<1>2. stage = "bootstrap"
      /\ UNCHANGED <<family, fileName, entry, done, reports, raw, common, cells>>
  BY DEF AskVersion
<1>3. v \in Int BY ShapeAssumption DEF NoVersion
<1>4. /\ entry = "none" /\ done = 0
      /\ reports = <<>> /\ raw = {} /\ common = {} /\ cells = {}
  BY <1>2 DEF Early
<1>5. TypeOK' BY <1>1, <1>2, <1>3 DEF TypeOK, Stages
<1>6. Early' BY <1>2, <1>4 DEF Early
<1>7. ProfileSettled'
  <2> SUFFICES ASSUME stage' \notin {"bootstrap", "failed"}
               PROVE  InProfile(version)' /\ \A m \in Claim(fileName)' : m = Major(version)'
    BY DEF ProfileSettled
  <2>1. BootstrapError(v, fileName) = "None" BY <1>1
  <2>2. InProfile(v) /\ \A m \in Claim(fileName) : m = Major(v)
    BY <1>3, <2>1, BootstrapChecks DEF TypeOK
  <2> QED BY <1>1, <1>2, <2>2 DEF InProfile, Claim, Major
<1>8. AskedWherePermitted' BY <1>2, <1>4 DEF AskedWherePermitted
<1>9. stage' \in {"open", "failed"} BY <1>1
<1>10. CoreOrder' /\ Covered' BY <1>9 DEF CoreOrder, Covered
<1>11. Distinct' /\ Told' BY <1>2, <1>4 DEF Distinct, Told
<1>12. CellsFilled' /\ CommonReviewed' /\ OnlyReviewedTypes'
  BY <1>2, <1>4 DEF CellsFilled, CommonReviewed, OnlyReviewedTypes
<1>13. Finished' BY <1>9 DEF Finished
<1> QED BY <1>5, <1>6, <1>7, <1>8, <1>10, <1>11, <1>12, <1>13

\* The source is opened: HIP's version function is the first report, if any.
LEMMA OpenSourceKeeps == ASSUME IInv, OpenSource PROVE IInv'
<1> USE DEF IInv
<1>1. /\ stage = "open" /\ stage' = "core"
      /\ entry' \in {"none", "legacy", "v2"}
      /\ Hip /\ entry' # "none" => ProcPermitted
      /\ UNCHANGED <<family, version, fileName, done, common, cells>>
  BY DEF OpenSource
<1>2. /\ entry = "none" /\ done = 0
      /\ reports = <<>> /\ raw = {} /\ common = {} /\ cells = {}
  BY <1>1 DEF Early
<1> DEFINE b == Report(Bootstrap, "Direct", FALSE, FALSE, FALSE)
<1>3. /\ reports' \in Seq(Reps) /\ raw' \subseteq Symbols /\ Told' /\ Distinct'
      /\ \A i \in DOMAIN reports' :
             reports'[i].symbol = Bootstrap /\ reports'[i].asked = FALSE
      /\ \A s \in raw' : s = Bootstrap
  <2>1. CASE Hip /\ InInventory(Bootstrap) /\ Bootstrap \notin Foreign
    <3>1. Bootstrap \in Symbols BY <2>1, SymbolsTyped DEF InInventory, TypeOK
    <3>2. b \in Reps /\ b.symbol = Bootstrap /\ b.how = "Direct" /\ b.asked = FALSE
      BY <3>1 DEF Report, Reps, Hows
    <3>3. Settle(b, TRUE) BY <2>1 DEF OpenSource
    <3>4. Settle(b, Found(b) /\ b.how # "DirectAdapter") BY <3>2, <3>3 DEF Settle, Found
    <3>5. ~ Already(b.symbol) BY <1>2 DEF Already
    <3> HIDE DEF b
    <3>6. /\ reports' \in Seq(Reps) /\ raw' \subseteq Symbols /\ Told' /\ Distinct'
          /\ \A i \in DOMAIN reports' :
                 (i \in DOMAIN reports /\ reports'[i] = reports[i]) \/ reports'[i] = b
          /\ \A s \in raw' : s \in raw \/ s = b.symbol
      BY <3>2, <3>4, <3>5, SettleKeeps
    <3> QED BY <1>2, <3>2, <3>6
  <2>2. CASE ~ (Hip /\ InInventory(Bootstrap) /\ Bootstrap \notin Foreign)
    <3>1. UNCHANGED <<reports, raw>> BY <2>2 DEF OpenSource
    <3> QED BY <1>2, <3>1 DEF Told, Distinct
  <2> QED BY <2>1, <2>2
<1>4. TypeOK' BY <1>1, <1>3 DEF TypeOK, Stages
<1>5. Early' BY <1>1 DEF Early
<1>6. ProfileSettled' BY <1>1 DEF ProfileSettled, Hip
<1>7. AskedWherePermitted' BY <1>1, <1>3 DEF AskedWherePermitted, Hip, ProcPermitted
<1>8. CoreOrder' BY <1>3 DEF CoreOrder
<1>9. Covered' /\ Finished' /\ CellsFilled' /\ CommonReviewed'
  BY <1>1, <1>2 DEF Covered, Finished, CellsFilled, CommonReviewed
<1>10. OnlyReviewedTypes'
  <2> SUFFICES ASSUME Hip, NEW s \in raw' PROVE version >= Since[s]
    BY <1>1, <1>2 DEF OnlyReviewedTypes, Hip
  <2>1. s \in Symbols /\ s = Bootstrap BY <1>3
  <2>2. InProfile(version) BY <1>1 DEF ProfileSettled
  <2> QED BY <2>1, <2>2, RowReviewed DEF TypeOK
<1> QED BY <1>3, <1>4, <1>5, <1>6, <1>7, <1>8, <1>9, <1>10

\* A required symbol is resolved: it had no report, and its field and cell are
\* of the form the profile's version has.
LEMMA ResolveCoreKeeps == ASSUME IInv, ResolveCore PROVE IInv'
<1> USE DEF IInv
<1> DEFINE s == Core[family][done + 1]
<1>1. PICK r \in CoreReports(s) :
          /\ Settle(r, Found(r) /\ r.how # "DirectAdapter")
          /\ common' = IF Found(r) THEN common \cup {r.symbol} ELSE common
          /\ cells' = IF Found(r) THEN cells \cup CellOf(r.symbol) ELSE cells
  BY DEF ResolveCore
<1>2. /\ stage = "core" /\ done < Len(Core[family]) /\ done' = done + 1
      /\ UNCHANGED <<family, version, fileName, entry, stage>>
  BY DEF ResolveCore
<1>3. /\ family \in Families /\ done \in Nat /\ version \in Int
      /\ done + 1 \in DOMAIN Core[family] /\ done + 1 \in 1..done'
      /\ s \in Symbols /\ s \in CoreSet(family)
  BY <1>2, SymbolsTyped DEF TypeOK
<1> HIDE DEF s
<1>4. /\ r \in Reps /\ r.symbol = s
      /\ r.asked => entry # "none" /\ Full
      /\ Found(r) /\ ~ ByAdapter(s) => Full \/ s \in Profiles[Major(version)].exact
      /\ Found(r) /\ r.how # "DirectAdapter" => ~ ByAdapter(s)
  BY <1>3, CoreShape
<1>5. ~ Already(s)
  <2> SUFFICES ASSUME NEW i \in DOMAIN reports, reports[i].symbol = s PROVE FALSE
    BY DEF Already
  <2>1. s # Bootstrap BY <1>3, ShapeAssumption
  <2>2. PICK j \in 1..done : j \in DOMAIN Core[family] /\ reports[i].symbol = Core[family][j]
    BY <1>2, <2>1 DEF CoreOrder
  <2>3. j = done + 1 BY <1>3, <2>2, ShapeAssumption DEF s
  <2> QED BY <1>3, <2>2, <2>3
<1>6. /\ reports' \in Seq(Reps) /\ raw' \subseteq Symbols /\ Told' /\ Distinct'
      /\ \A i \in DOMAIN reports' :
             (i \in DOMAIN reports /\ reports'[i] = reports[i]) \/ reports'[i] = r
      /\ \A x \in raw' : x \in raw \/ (x = s /\ Found(r) /\ ~ ByAdapter(s))
  BY <1>1, <1>4, <1>5, SettleKeeps
<1>7. TypeOK' BY <1>1, <1>2, <1>3, <1>4, <1>6 DEF TypeOK
<1>8. Early' /\ Covered' /\ Finished' BY <1>2 DEF Early, Covered, Finished
<1>9. ProfileSettled' BY <1>2 DEF ProfileSettled, Hip
<1>10. AskedWherePermitted'
  BY <1>2, <1>4, <1>6 DEF AskedWherePermitted, Hip, ProcPermitted, Full
<1>11. CoreOrder'
  <2> SUFFICES ASSUME NEW i \in DOMAIN reports'
               PROVE  \/ reports'[i].symbol = Bootstrap
                      \/ \E j \in 1..done' :
                             /\ j \in DOMAIN Core[family]
                             /\ reports'[i].symbol = Core[family][j]
    BY <1>2 DEF CoreOrder
  <2>1. CASE i \in DOMAIN reports /\ reports'[i] = reports[i]
    <3>1. 1..done \subseteq 1..done' BY <1>2, <1>3
    <3> QED BY <1>2, <2>1, <3>1 DEF CoreOrder
  <2>2. CASE reports'[i] = r BY <1>3, <1>4, <2>2 DEF s
  <2> QED BY <1>6, <2>1, <2>2
<1>12. CellsFilled'
  <2> SUFFICES ASSUME NEW x \in common' PROVE CellOf(x)' \subseteq cells'
    BY DEF CellsFilled
  <2>1. CellOf(x)' = CellOf(x) BY <1>2 DEF CellOf, ByAdapter, Hip
  <2>2. cells \subseteq cells' BY <1>1
  <2>3. CASE x \in common BY <2>1, <2>2, <2>3 DEF CellsFilled
  <2>4. CASE x \notin common
    <3>1. Found(r) /\ x = r.symbol BY <1>1, <2>4
    <3> QED BY <1>1, <2>1, <3>1
  <2> QED BY <2>3, <2>4
<1>13. Hip /\ Found(r) => ByAdapter(s) \/ version >= Since[s]
  <2>1. Hip => InProfile(version) BY <1>2 DEF ProfileSettled
  <2> QED BY <1>3, <1>4, <2>1, RowReviewed
<1>14. CommonReviewed'
  <2> SUFFICES ASSUME Hip, NEW x \in common' PROVE ByAdapter(x) \/ version >= Since[x]
    BY <1>2 DEF CommonReviewed, Hip, ByAdapter
  <2> QED BY <1>1, <1>4, <1>13 DEF CommonReviewed
<1>15. OnlyReviewedTypes'
  <2> SUFFICES ASSUME Hip
               PROVE  /\ \A x \in raw' : version >= Since[x]
                      /\ \A c \in cells' : IF c[2] = "legacy" THEN version < Since[c[1]]
                                                               ELSE version >= Since[c[1]]
    BY <1>2 DEF OnlyReviewedTypes, Hip
  <2>1. InProfile(version) BY <1>2 DEF ProfileSettled
  <2>2. ASSUME NEW x \in raw' PROVE version >= Since[x]
    <3>1. CASE x \in raw BY <3>1 DEF OnlyReviewedTypes
    <3>2. CASE x = s /\ Found(r) /\ ~ ByAdapter(s) BY <1>13, <3>2
    <3> QED BY <1>6, <3>1, <3>2
  <2>3. ASSUME NEW c \in cells'
        PROVE  IF c[2] = "legacy" THEN version < Since[c[1]] ELSE version >= Since[c[1]]
    <3>1. CASE c \in cells BY <3>1 DEF OnlyReviewedTypes
    <3>2. CASE Found(r) /\ c \in CellOf(s) BY <1>3, <1>13, <2>1, <3>2, CellReviewed
    <3> QED BY <1>1, <1>4, <3>1, <3>2
  <2> QED BY <2>2, <2>3
<1> QED BY <1>6, <1>7, <1>8, <1>9, <1>10, <1>11, <1>12, <1>14, <1>15

\* A row of the inventory is resolved if it has no report: where the inventory
\* is not to be filled, only a symbol every profile reviewed.
LEMMA ResolveInventoryKeeps == ASSUME IInv, ResolveInventory PROVE IInv'
<1> USE DEF IInv
<1> DEFINE s == Inventory[family][done + 1]
<1>1. /\ stage = "inventory" /\ done < Len(Inventory[family]) /\ done' = done + 1
      /\ UNCHANGED <<family, version, fileName, entry, stage, common, cells>>
  BY DEF ResolveInventory
<1>2. /\ family \in Families /\ done \in Nat /\ version \in Int
      /\ s \in Symbols
      /\ \A k \in DOMAIN Inventory[family] : k <= done' => k <= done \/ k = done + 1
  BY <1>1, SymbolsTyped DEF TypeOK
<1>3. ProfileSettled' BY <1>1 DEF ProfileSettled, Hip
<1>4. Early' /\ CoreOrder' /\ CellsFilled' /\ CommonReviewed'
  BY <1>1 DEF Early, CoreOrder, CellsFilled, CommonReviewed, CellOf, ByAdapter, Hip
<1>5. Finished' BY <1>1 DEF Finished
<1>6. CASE Already(s)
  <2>1. UNCHANGED <<reports, raw>> BY <1>6 DEF ResolveInventory
  <2>2. TypeOK' BY <1>1, <1>2, <2>1 DEF TypeOK
  <2>3. AskedWherePermitted' BY <1>1, <2>1 DEF AskedWherePermitted, Hip, ProcPermitted, Full
  <2>4. \A x : Already(x)' = Already(x) BY <2>1 DEF Already
  <2>5. Covered' BY <1>1, <1>2, <1>6, <2>4 DEF Covered
  <2>6. Distinct' /\ Told' BY <2>1 DEF Distinct, Told, Already, Found
  <2>7. OnlyReviewedTypes' BY <1>1, <2>1 DEF OnlyReviewedTypes, Hip
  <2> QED BY <1>3, <1>4, <1>5, <2>2, <2>3, <2>5, <2>6, <2>7
<1>7. CASE ~ Already(s)
  <2>1. PICK r \in InventoryReports(s) : Settle(r, Found(r)) BY <1>7 DEF ResolveInventory
  <2> HIDE DEF s
  <2>2. /\ r \in Reps /\ r.symbol = s /\ r.how # "DirectAdapter"
        /\ r.asked => entry # "none" /\ Full
        /\ Found(r) => Full \/ s \in Optional
    BY <1>2, InventoryShape
  <2>3. Settle(r, Found(r) /\ r.how # "DirectAdapter") BY <2>1, <2>2 DEF Settle
  <2>4. /\ reports' \in Seq(Reps) /\ raw' \subseteq Symbols /\ Told' /\ Distinct'
        /\ \A i \in DOMAIN reports' :
               (i \in DOMAIN reports /\ reports'[i] = reports[i]) \/ reports'[i] = r
        /\ \A x : Already(x) \/ x = s => Already(x)'
        /\ \A x \in raw' : x \in raw \/ (x = s /\ (Full \/ s \in Optional))
    BY <1>7, <2>2, <2>3, SettleKeeps
  <2>5. TypeOK' BY <1>1, <1>2, <2>4 DEF TypeOK
  <2>6. AskedWherePermitted'
    BY <1>1, <2>2, <2>4 DEF AskedWherePermitted, Hip, ProcPermitted, Full
  <2>7. Covered' BY <1>1, <1>2, <2>4 DEF Covered, s
  <2>8. OnlyReviewedTypes'
    <3> SUFFICES ASSUME Hip, NEW x \in raw' PROVE version >= Since[x]
      BY <1>1 DEF OnlyReviewedTypes, Hip
    <3>1. InProfile(version) BY <1>1 DEF ProfileSettled
    <3>2. CASE x \in raw BY <3>2 DEF OnlyReviewedTypes
    <3>3. CASE x = s /\ (Full \/ s \in Optional) BY <1>2, <3>1, <3>3, RowReviewed
    <3> QED BY <2>4, <3>2, <3>3
  <2> QED BY <1>3, <1>4, <1>5, <2>4, <2>5, <2>6, <2>7, <2>8
<1> QED BY <1>6, <1>7

\* A stage ends when its list does.
LEMMA StageEnds == ASSUME IInv, CoreResolved \/ Built PROVE IInv'
<1> USE DEF IInv
<1>1. /\ done = Len(IF stage = "core" THEN Core[family] ELSE Inventory[family])
      /\ done' = 0
      /\ \/ stage = "core" /\ stage' = "inventory"
         \/ stage = "inventory" /\ stage' = "built"
      /\ UNCHANGED <<family, version, fileName, entry, reports, raw, common, cells>>
  BY DEF CoreResolved, Built
<1>2. TypeOK' BY <1>1 DEF TypeOK, Stages
<1>3. Early' /\ CoreOrder' BY <1>1 DEF Early, CoreOrder
<1>4. ProfileSettled' BY <1>1 DEF ProfileSettled, Hip
<1>5. AskedWherePermitted' BY <1>1 DEF AskedWherePermitted, Hip, ProcPermitted, Full
<1>6. Covered'
  <2>1. \A k \in DOMAIN Inventory[family] : k \in Nat \ {0} /\ k <= Len(Inventory[family])
    BY SymbolsTyped DEF TypeOK
  <2>2. \A x : Already(x)' = Already(x) BY <1>1 DEF Already
  <2>3. CASE stage = "core" /\ stage' = "inventory" BY <1>1, <2>1, <2>3 DEF Covered
  <2>4. CASE stage = "inventory" /\ stage' = "built" BY <1>1, <2>1, <2>2, <2>4 DEF Covered
  <2> QED BY <1>1, <2>3, <2>4
<1>7. Distinct' /\ Told' BY <1>1 DEF Distinct, Told, Already, Found
<1>8. CellsFilled' /\ CommonReviewed' /\ Finished'
  BY <1>1 DEF CellsFilled, CommonReviewed, CellOf, ByAdapter, Hip, Finished
<1>9. OnlyReviewedTypes' BY <1>1 DEF OnlyReviewedTypes, Hip
<1> QED BY <1>2, <1>3, <1>4, <1>5, <1>6, <1>7, <1>8, <1>9

\* Validation and the common table only set cells, of functions reviewed.
LEMMA FinishKeeps == ASSUME IInv, Validate \/ CommonTable PROVE IInv'
<1> USE DEF IInv
<1>1. /\ stage \in {"built", "valid"} /\ stage' \in {"valid", "invalid", "published"}
      /\ UNCHANGED <<family, version, fileName, entry, done, reports, raw, common>>
      /\ cells \subseteq cells'
      /\ \A c \in cells' :
             \/ c \in cells
             \/ Validate /\ c = <<Attribute, "native">>
             \/ c = <<CopyDtoD, "native">> /\ CopyDtoD \in raw
  BY DEF Validate, CommonTable
<1>2. TypeOK' BY <1>1 DEF TypeOK, Stages
<1>3. Early' /\ CoreOrder' BY <1>1 DEF Early, CoreOrder
<1>4. ProfileSettled' BY <1>1 DEF ProfileSettled, Hip
<1>5. AskedWherePermitted' BY <1>1 DEF AskedWherePermitted, Hip, ProcPermitted, Full
<1>6. \A x : Already(x)' = Already(x) BY <1>1 DEF Already
<1>7. Covered' BY <1>1, <1>6 DEF Covered
<1>8. Distinct' /\ Told' BY <1>1 DEF Distinct, Told, Already, Found
<1>9. CellsFilled' /\ CommonReviewed'
  BY <1>1 DEF CellsFilled, CommonReviewed, CellOf, ByAdapter, Hip
<1>10. Finished'
  <2>1. CASE Validate BY <2>1 DEF Validate, Finished, Missing
  <2>2. CASE CommonTable BY <2>2 DEF CommonTable, Finished, Hip
  <2> QED BY <2>1, <2>2
<1>11. OnlyReviewedTypes'
  <2> SUFFICES ASSUME Hip, NEW c \in cells'
               PROVE  IF c[2] = "legacy" THEN version < Since[c[1]] ELSE version >= Since[c[1]]
    BY <1>1 DEF OnlyReviewedTypes, Hip
  <2>1. InProfile(version) BY <1>1 DEF ProfileSettled
  <2>2. CASE c \in cells BY <2>2 DEF OnlyReviewedTypes
  <2>3. CASE Validate /\ c = <<Attribute, "native">>
    <3>1. Attribute \in CoreSet(family) /\ ~ ByAdapter(Attribute)
      BY ShapeAssumption DEF Hip, TypeOK, ByAdapter
    <3>2. CASE Missing = {} BY <2>3, <3>1, <3>2 DEF Missing, CommonReviewed
    <3>3. CASE Missing # {} BY <2>3, <3>3 DEF Validate, OnlyReviewedTypes
    <3> QED BY <3>2, <3>3
  <2>4. CASE c = <<CopyDtoD, "native">> /\ CopyDtoD \in raw
    BY <2>4 DEF OnlyReviewedTypes
  <2> QED BY <1>1, <2>2, <2>3, <2>4
<1> QED BY <1>2, <1>3, <1>4, <1>5, <1>7, <1>8, <1>9, <1>10, <1>11

\* Every step keeps the inductive invariant.
LEMMA NextKeeps == IInv /\ [Next]_vars => IInv'
<1> SUFFICES ASSUME IInv, [Next]_vars PROVE IInv'
  OBVIOUS
<1>1. CASE UNCHANGED vars
  <2> USE <1>1 DEF vars, IInv
  <2>1. TypeOK' /\ Early' /\ CoreOrder' BY DEF TypeOK, Early, CoreOrder
  <2>2. ProfileSettled' BY DEF ProfileSettled, Hip
  <2>3. AskedWherePermitted' BY DEF AskedWherePermitted, Hip, ProcPermitted, Full
  <2>4. Covered' /\ Distinct' BY DEF Covered, Already, Distinct
  <2>5. Told' BY DEF Told, Already, Found
  <2>6. CellsFilled' /\ CommonReviewed'
    BY DEF CellsFilled, CommonReviewed, CellOf, ByAdapter, Hip
  <2>7. Finished' /\ OnlyReviewedTypes' BY DEF Finished, OnlyReviewedTypes, Hip
  <2> QED BY <2>1, <2>2, <2>3, <2>4, <2>5, <2>6, <2>7
<1>2. CASE Next
  BY <1>2, AskVersionKeeps, OpenSourceKeeps, ResolveCoreKeeps, ResolveInventoryKeeps,
     StageEnds, FinishKeeps DEF Next
<1> QED BY <1>1, <1>2

\* In every reachable state the profile is settled before anything is asked, a
\* symbol is settled once, and fields and cells hold what that profile reviewed.
THEOREM Invariant == Spec => []IInv
BY InitHolds, NextKeeps, PTL DEF Spec

\* The invariant has each property's parts.
LEMMA InvTells == IInv => ReportsTellTheTable /\ OnlyReviewedTypes
<1> SUFFICES ASSUME IInv PROVE ReportsTellTheTable
  BY DEF IInv
<1> QED BY DEF IInv, ReportsTellTheTable, Distinct, Covered, Already, Told

\* What was asked was asked where the version reviewed both entry and inventory.
LEMMA InvObeys == IInv => ProfileObeyed
<1> SUFFICES ASSUME IInv, Hip, stage \notin {"bootstrap", "failed"}
             PROVE  /\ InProfile(version)
                    /\ \A m \in Claim(fileName) : m = Major(version)
                    /\ \A i \in DOMAIN reports :
                           reports[i].asked =>
                               /\ Reaches(version, Profiles[Major(version)].raw)
                               /\ Reaches(version, Profiles[Major(version)].proc)
  BY DEF ProfileObeyed
<1>1. InProfile(version) /\ \A m \in Claim(fileName) : m = Major(version)
  BY DEF IInv, ProfileSettled
<1>2. \A i \in DOMAIN reports : reports[i].asked => ProcPermitted /\ Full
  BY DEF IInv, AskedWherePermitted
<1>3. ProcPermitted /\ Full =>
          /\ Reaches(version, Profiles[Major(version)].raw)
          /\ Reaches(version, Profiles[Major(version)].proc)
  BY DEF ProcPermitted, Full
<1> QED BY <1>1, <1>2, <1>3

\* A required adapter's entry is there, so its cell is set.
LEMMA InvReady == IInv => AdaptersReady
<1> SUFFICES ASSUME IInv, stage \in {"valid", "published"}
             PROVE  /\ CoreSet(family) \subseteq common
                    /\ <<Attribute, "native">> \in cells
                    /\ Hip => \A s \in Wrapped \cap CoreSet(family) :
                                  IF ByAdapter(s) THEN <<s, "legacy">> \in cells
                                                  ELSE <<s, "native">> \in cells
                    /\ Hip /\ stage = "published" /\ CopyDtoD \in raw =>
                           <<CopyDtoD, "native">> \in cells
  BY DEF AdaptersReady
<1>1. CoreSet(family) \subseteq common BY DEF IInv, Finished
<1>2. ASSUME Hip, NEW s \in Wrapped \cap CoreSet(family)
      PROVE  IF ByAdapter(s) THEN <<s, "legacy">> \in cells ELSE <<s, "native">> \in cells
  <2>1. CellOf(s) \subseteq cells BY <1>1 DEF IInv, CellsFilled
  <2> QED BY <1>2, <2>1 DEF CellOf
<1> QED BY <1>1, <1>2 DEF IInv, Finished

\* For any library: one report per symbol, and what the diagnostics say is
\* available is what the raw table has (resolve_field, the inventory's loop).
THEOREM ReportsTellTheTableAlways == Spec => []ReportsTellTheTable
BY Invariant, InvTells, PTL

\* For any HIP library of any reviewed version: no field and no cell holds a
\* function declared otherwise (build_from_library, its adapters' branch).
THEOREM OnlyReviewedTypesAlways == Spec => []OnlyReviewedTypes
BY Invariant, InvTells, PTL

\* For any profiles and file names: a table is of the profile its library names
\* and its proc-address entry asked only where reviewed (bootstrap_runtime).
THEOREM ProfileObeyedAlways == Spec => []ProfileObeyed
BY Invariant, InvObeys, PTL

\* For any core: a validated table's adapters find their functions (validate,
\* common_table).
THEOREM AdaptersReadyAlways == Spec => []AdaptersReady
BY Invariant, InvReady, PTL

=============================================================================
