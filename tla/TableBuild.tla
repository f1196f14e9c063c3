----------------------------- MODULE TableBuild -----------------------------
(***************************************************************************)
(* How one driver library becomes a table: ocgpu-cuda's build_from_source  *)
(* and ocgpu-hip's build_from_library, the validation of the common core,  *)
(* and the common table a validated driver hands out.                      *)
(*                                                                         *)
(* A symbol is asked of the vendor's proc-address entry, if the library    *)
(* has one and its version may be trusted with it, then of the exports.    *)
(* HIP first asks the library its version: it selects the runtime profile, *)
(* which says what may be asked at all.  Some common entries are adapters  *)
(* that find the vendor's function in a process-wide cell.                 *)
(*                                                                         *)
(* The library is anything a vendor may have shipped: which names it has,  *)
(* what its proc-address entry answers and the version it reports are      *)
(* chosen when they are asked.                                             *)
(***************************************************************************)
EXTENDS Integers, Sequences

CONSTANTS
    Families,      \* "cuda", "hip"
    Core,          \* Core[d]: the required symbols of family d, in table order
    Inventory,     \* Inventory[d]: every symbol of its raw inventory, in order
    Bootstrap,     \* hipRuntimeGetVersion
    Attribute,     \* the symbol behind ocgpuDeviceGetAttribute
    Wrapped,       \* HIP core symbols whose common entry is an adapter
    CopyDtoD,      \* the extension whose common entry is an adapter (HIP)
    Foreign,       \* symbols of another platform
    Fieldless,     \* inventory rows without a field in the raw table
    Versioned,     \* symbols with a proc-address version
    Optional,      \* HIP_OPTIONAL_PROFILE_SYMBOLS
    Adapted,       \* HIP_COMMON_ADAPTER_SYMBOLS
    Legacy,        \* the majors whose profile reaches Adapted by an adapter
    Profiles,      \* the runtime profiles, by major; exact are the symbols of the
                   \* common list that their runtimes declare as the raw table does
    Scale,         \* HIP_VERSION_MAJOR_SCALE
    FileNames, Claims,  \* Claims[n]: the majors one of whose candidates n matches
    Reported,      \* the versions a library may report
    Since          \* Since[s]: the first version that declares s as the table does

NoVersion == -1     \* hipRuntimeGetVersion is absent or failed

Symbols == UNION {{Inventory[d][i] : i \in DOMAIN Inventory[d]} : d \in Families}
CoreSet(d) == {Core[d][i] : i \in DOMAIN Core[d]}

\* Options, as in the profile descriptors, are sets of at most one version.
Reaches(v, option) == \E m \in option : v >= m

ASSUME ShapeAssumption ==
    /\ Families \subseteq {"cuda", "hip"}
    /\ Inventory \in [Families -> Seq(Symbols)]
    /\ Core \in [Families -> Seq(Symbols)]
    /\ \A d \in Families : \A i, j \in DOMAIN Inventory[d] :
           Inventory[d][i] = Inventory[d][j] => i = j
    /\ \A d \in Families : \A i, j \in DOMAIN Core[d] : Core[d][i] = Core[d][j] => i = j
    /\ \A d \in Families : CoreSet(d) \subseteq {Inventory[d][i] : i \in DOMAIN Inventory[d]}
    /\ \A d \in Families : Bootstrap \notin CoreSet(d)
    /\ Fieldless \cap (UNION {CoreSet(d) : d \in Families}) = {}
    /\ "hip" \in Families => Attribute \in CoreSet("hip") \ Adapted
    /\ CopyDtoD \notin Adapted
    /\ Claims \in [FileNames -> SUBSET DOMAIN Profiles]
    /\ Scale \in Nat \ {0} /\ Reported \subseteq Int

\* What the review of the vendors' headers established, and the generated
\* profiles rest on.
ASSUME EvidenceAssumption ==
    /\ Since \in [Symbols -> Int]
    /\ \A m \in DOMAIN Profiles :
           /\ Profiles[m].min \in Int /\ Profiles[m].max \in Int
           /\ Profiles[m].proc \subseteq Int /\ Profiles[m].raw \subseteq Int
           /\ m \in Legacy => Profiles[m].raw = {}
           /\ \A s \in Symbols : \A r \in Profiles[m].raw : Since[s] <= r
           /\ \A r \in Profiles[m].raw, p \in Profiles[m].proc : p <= r
           /\ \A s \in Symbols \cap (Optional \cup {Bootstrap} \cup Profiles[m].exact) :
                  Since[s] <= Profiles[m].min
           /\ m \in Legacy => \A s \in Adapted \cap Symbols : Since[s] > Profiles[m].max

VARIABLES
    family,    \* the backend being built
    version,   \* what hipRuntimeGetVersion reported
    fileName,  \* the library's file name
    entry,     \* its proc-address entry: "none", "legacy" or "v2"
    stage,     \* the point the build has reached
    done,      \* how many symbols of the stage's list are settled
    reports,   \* the symbol reports, in the order they are pushed
    raw,       \* the symbols whose field of the raw table is not null
    common,    \* the required symbols whose common entry is present
    cells,     \* the adapter cells that are set: symbol and form of the target
    failure    \* the error the build or the validation ended with

vars == <<family, version, fileName, entry, stage, done, reports, raw, common, cells, failure>>

-----------------------------------------------------------------------------
(* The runtime profile of a HIP library.                                   *)

Major(v) == v \div Scale

\* expected_runtime_profile: the one major the file name stands for, if any.
Claim(n) == IF \E m \in Claims[n] : Claims[n] = {m} THEN Claims[n] ELSE {}

InProfile(v) ==
    Major(v) \in DOMAIN Profiles /\ v \in Profiles[Major(v)].min..Profiles[Major(v)].max

\* Mutant: the file name is not compared with the version.
BootstrapErrorNameless(v, n) ==
    IF v <= 0 THEN "MissingCoreSymbols"
    ELSE IF Major(v) \notin DOMAIN Profiles THEN "UnsupportedRuntimeProfile"
    ELSE IF ~ InProfile(v) THEN "UnsupportedRuntimeVersion"
    ELSE "None"

\* bootstrap_runtime's checks of a reported version, in order.
BootstrapError(v, n) ==
    CASE v <= 0 -> "MissingCoreSymbols"
      [] v > 0 /\ Major(v) \notin DOMAIN Profiles /\ Major(v) < 5 -> "BackendTooOld"
      [] v > 0 /\ Major(v) \notin DOMAIN Profiles /\ Major(v) >= 5 ->
             "UnsupportedRuntimeProfile"
      [] v > 0 /\ Major(v) \in DOMAIN Profiles ->
             IF \E m \in Claim(n) : m # Major(v) THEN "RuntimeProfileMismatch"
             ELSE IF ~ InProfile(v) THEN "UnsupportedRuntimeVersion"
             ELSE "None"

Hip == family = "hip"

ProcPermitted == Major(version) = 7 /\ Reaches(version, Profiles[7].proc)

\* full_raw_inventory: every field may be filled.
Full == Hip => Reaches(version, Profiles[Major(version)].raw)

ByAdapter(s) == Hip /\ Major(version) \in Legacy /\ s \in Adapted

-----------------------------------------------------------------------------
(* Asking the library for one symbol.                                      *)

\* What a call of the proc-address entry leaves behind.
ProcAnswers == [ok : BOOLEAN, status : {"Success", "VersionInsufficient", "Other"},
                pointer : BOOLEAN]

\* The legacy entry has no query status: the pointer stands for one.
Heard ==
    IF entry = "v2" THEN ProcAnswers
    ELSE {a \in ProcAnswers : a.status = IF a.pointer THEN "Success" ELSE "Other"}

Address(a) == a.ok /\ a.status = "Success" /\ a.pointer

Report(s, how, required, asked, refused) ==
    [symbol |-> s, how |-> how, required |-> required, asked |-> asked, refused |-> refused]

Found(r) == r.how \in {"ProcAddress", "Direct", "DirectAdapter"}

\* resolve: the report of s, asked by proc-address (if the library can and
\* versions allows it) and then among the exports.
Resolve(s, versions, required) ==
    LET asks == entry # "none" /\ versions
        direct(refused) ==
            {Report(s, how, required, asks, refused) : how \in {"Direct", "Missing"}}
    IN  IF ~ asks THEN direct(FALSE)
        ELSE {Report(s, "ProcAddress", required, TRUE, FALSE) : a \in {b \in Heard : Address(b)}}
             \cup UNION {direct(a.status = "VersionInsufficient") : a \in {b \in Heard : ~ Address(b)}}

Unavailable(s, why, required) == {Report(s, why, required, FALSE, FALSE)}

\* resolve_field and, for a symbol reached by an adapter, its own branch.
CoreReports(s) ==
    IF s \in Foreign THEN Unavailable(s, "PlatformUnavailable", TRUE)
    ELSE IF ByAdapter(s) THEN
        {Report(s, how, TRUE, FALSE, FALSE) : how \in {"DirectAdapter", "Missing"}}
    ELSE IF ~ Full /\ s \notin Profiles[Major(version)].exact THEN
        Unavailable(s, "ProfileUnavailable", TRUE)
    ELSE Resolve(s, Full /\ s \in Versioned, TRUE)

\* Mutant: the exports are searched for a symbol the profile does not have.
InventoryReportsUnguarded(s) ==
    IF s \in Foreign THEN Unavailable(s, "PlatformUnavailable", FALSE)
    ELSE Resolve(s, Full /\ s \in Versioned, FALSE)

\* resolve_inventory_descriptor.
InventoryReports(s) ==
    IF s \in Foreign THEN Unavailable(s, "PlatformUnavailable", FALSE)
    ELSE IF ~ Full /\ s \notin Optional THEN Unavailable(s, "ProfileUnavailable", FALSE)
    ELSE Resolve(s, Full /\ s \in Versioned, FALSE)

-----------------------------------------------------------------------------
(* The build, one symbol at a time.                                        *)

Init ==
    /\ family \in Families
    /\ version = NoVersion
    /\ fileName \in FileNames
    /\ entry = "none"
    /\ stage = IF family = "hip" THEN "bootstrap" ELSE "open"
    /\ done = 0
    /\ reports = <<>>
    /\ raw = {} /\ common = {} /\ cells = {}
    /\ failure = "None"

\* bootstrap_runtime: the version decides the profile, or the build fails.
AskVersion ==
    /\ stage = "bootstrap"
    /\ \E v \in Reported \cup {NoVersion} :
           /\ version' = v
           /\ failure' = BootstrapError(v, fileName)
           /\ stage' = IF BootstrapError(v, fileName) = "None" THEN "open" ELSE "failed"
    /\ UNCHANGED <<family, fileName, entry, done, reports, raw, common, cells>>

\* A report is pushed and, if it has an address, the field is written.
Settle(r, writes) ==
    /\ reports' = Append(reports, r)
    /\ raw' = IF writes THEN raw \cup ({r.symbol} \ Fieldless) ELSE raw

InInventory(s) == \E i \in DOMAIN Inventory[family] : Inventory[family][i] = s

\* LibrarySource::new, and the start of the build: HIP's version function is
\* in the table before anything is resolved.
OpenSource ==
    /\ stage = "open"
    /\ entry' \in IF ~ Hip THEN {"none", "legacy", "v2"}
                  ELSE IF ProcPermitted THEN {"none", "v2"} ELSE {"none"}
    /\ IF Hip /\ InInventory(Bootstrap) /\ Bootstrap \notin Foreign
       THEN Settle(Report(Bootstrap, "Direct", FALSE, FALSE, FALSE), TRUE)
       ELSE UNCHANGED <<reports, raw>>
    /\ stage' = "core"
    /\ UNCHANGED <<family, version, fileName, done, common, cells, failure>>

\* Mutant: the adapter is installed and its cell is left empty.
CellOfPlain(s) ==
    IF Hip /\ s \in Wrapped /\ ~ ByAdapter(s) THEN {<<s, "native">>} ELSE {}

\* The cell a resolved core symbol fills: legacy for the adapter's target.
CellOf(s) ==
    IF ByAdapter(s) THEN {<<s, "legacy">>}
    ELSE IF Hip /\ s \in Wrapped THEN {<<s, "native">>} ELSE {}

\* One resolve_field!, or HIP's adapter branch, which writes no raw field.
ResolveCore ==
    /\ stage = "core" /\ done < Len(Core[family])
    /\ \E r \in CoreReports(Core[family][done + 1]) :
           /\ Settle(r, Found(r) /\ r.how # "DirectAdapter")
           /\ common' = IF Found(r) THEN common \cup {r.symbol} ELSE common
           /\ cells' = IF Found(r) THEN cells \cup CellOf(r.symbol) ELSE cells
    /\ done' = done + 1
    /\ UNCHANGED <<family, version, fileName, entry, stage, failure>>

CoreResolved ==
    /\ stage = "core" /\ done = Len(Core[family])
    /\ stage' = "inventory" /\ done' = 0
    /\ UNCHANGED <<family, version, fileName, entry, reports, raw, common, cells, failure>>

\* Mutant: every row is resolved, those that have a report already too.
AlreadyCoreOnly(s) == s \in CoreSet(family)

Already(s) == \E i \in DOMAIN reports : reports[i].symbol = s

\* One turn of the loop over the raw inventory.
ResolveInventory ==
    /\ stage = "inventory" /\ done < Len(Inventory[family])
    /\ LET s == Inventory[family][done + 1] IN
           IF Already(s) THEN UNCHANGED <<reports, raw>>
           ELSE \E r \in InventoryReports(s) : Settle(r, Found(r))
    /\ done' = done + 1
    /\ UNCHANGED <<family, version, fileName, entry, stage, common, cells, failure>>

\* The unvalidated table is kept: its raw table may be handed out.
Built ==
    /\ stage = "inventory" /\ done = Len(Inventory[family])
    /\ stage' = "built" /\ done' = 0
    /\ UNCHANGED <<family, version, fileName, entry, reports, raw, common, cells, failure>>

Missing == CoreSet(family) \ common

ReportOf(s) == reports[CHOOSE i \in DOMAIN reports : reports[i].symbol = s]

\* validate.
Validate ==
    /\ stage = "built"
    /\ IF Missing = {}
       THEN /\ stage' = "valid" /\ failure' = "None"
            /\ cells' = cells \cup {<<Attribute, "native">>}
       ELSE /\ stage' = "invalid"
            /\ failure' = IF \E s \in Missing : ReportOf(s).refused
                          THEN "BackendTooOld" ELSE "MissingCoreSymbols"
            /\ UNCHANGED cells
    /\ UNCHANGED <<family, version, fileName, entry, done, reports, raw, common>>

\* common_table: the adapter of HIP's device copy gets its target here.
CommonTable ==
    /\ stage = "valid"
    /\ stage' = "published"
    /\ cells' = IF Hip /\ CopyDtoD \in raw
                THEN cells \cup {<<CopyDtoD, "native">>} ELSE cells
    /\ UNCHANGED <<family, version, fileName, entry, done, reports, raw, common, failure>>

Next ==
    \/ AskVersion
    \/ OpenSource
    \/ ResolveCore
    \/ CoreResolved
    \/ ResolveInventory
    \/ Built
    \/ Validate
    \/ CommonTable

Spec == Init /\ [][Next]_vars

-----------------------------------------------------------------------------
(* Properties.                                                             *)

\* A symbol has at most one report and, in a built table, exactly one.  What
\* the diagnostics call available is what the raw table has, but for the rows
\* without a field and the symbols reached by an adapter (SymbolReport).
ReportsTellTheTable ==
    /\ \A i, j \in DOMAIN reports : reports[i].symbol = reports[j].symbol => i = j
    /\ stage \in {"built", "valid", "invalid", "published"} =>
           \A k \in DOMAIN Inventory[family] :
               \E i \in DOMAIN reports : reports[i].symbol = Inventory[family][k]
    /\ \A i \in DOMAIN reports :
           LET r == reports[i] IN
           r.symbol \in raw <=>
               Found(r) /\ r.how # "DirectAdapter" /\ r.symbol \notin Fieldless

\* No field of HIP's raw table and no adapter cell holds a function that the
\* running version declares otherwise than the field or the cell does.
OnlyReviewedTypes ==
    Hip =>
        /\ \A s \in raw : version >= Since[s]
        /\ \A c \in cells : IF c[2] = "legacy" THEN version < Since[c[1]]
                                               ELSE version >= Since[c[1]]

\* The table of a library whose name stands for one major is of that major and
\* of a version in its reviewed interval, and its proc-address entry is asked
\* only where that entry and the whole inventory were reviewed
\* (HIP_RUNTIME_PROFILES).
ProfileObeyed ==
    Hip /\ stage \notin {"bootstrap", "failed"} =>
        /\ InProfile(version)
        /\ \A m \in Claim(fileName) : m = Major(version)
        /\ \A i \in DOMAIN reports :
               reports[i].asked =>
                   /\ Reaches(version, Profiles[Major(version)].raw)
                   /\ Reaches(version, Profiles[Major(version)].proc)

\* A validated table has every required entry, and an adapter in it, the one
\* of the device copy included, finds the function it calls in its cell.
AdaptersReady ==
    stage \in {"valid", "published"} =>
        /\ CoreSet(family) \subseteq common
        /\ <<Attribute, "native">> \in cells
        /\ Hip => \A s \in Wrapped \cap CoreSet(family) :
                      IF ByAdapter(s) THEN <<s, "legacy">> \in cells
                                      ELSE <<s, "native">> \in cells
        /\ Hip /\ stage = "published" /\ CopyDtoD \in raw =>
               <<CopyDtoD, "native">> \in cells

=============================================================================
