# Verification of ocgpu

ocgpu loads GPU vendor libraries (CUDA driver, HIP runtime, NVRTC, HIPRTC) at
run time, validates their entry points, and offers them as raw tables, as a C
interface and as a typed Rust API. This directory holds TLA+ models of its
state-keeping parts and of the tools that keep its ABI stable, the TLC
configurations that check them on small instances, and proofs checked by TLAPS
that hold for every value of the constants.

    tlc -workers 2 -config load_driver.cfg MCBackendLoad     # a run
    tlapm BackendLoadProofs.tla                              # a proof module

`PROJECT.json` lists the runs, the mutated definitions that show each property
can fail, the source lines behind each definition, the hazards and the theorems.

## 1. The system

| Component | State it keeps | Operations | Talks to | What makes it correct |
|---|---|---|---|---|
| Library slots, `ocgpu-loader` | one `OnceLock<Result<Library, LoadError>>` per backend; the cached `ld.so.cache` | `load`, `load_from_absolute`, secure search, `symbol` | `dlopen`/`LoadLibraryExW`; called by the crates below | one result per backend for the process; an explicit caller never gets another file; a kept failure has tried every candidate; only validated absolute paths are opened |
| Driver tables, `ocgpu-cuda`, `ocgpu-hip` | `UNVALIDATED` and `VALIDATED` cells; a cell for the target of each adapter | `load`, `load_unvalidated`, and both `_from_absolute`; bootstrap, symbol resolution, validation, `common_table` | loader slot from inside or before their cells; vendor proc-address entry and exports | all cells describe one library; the two lock orders never meet; HIP profile and version floors are honoured; reports tell the table; an adapter has its target |
| Compiler state, `ocgpu-rtc` | `NVRTC_STATE`, `HIPRTC_STATE` | `Compiler::load`, `load_from_absolute`, raw getters | loader slot; HIPRTC adapters read the state they are stored in | as above; an adapter is never reachable before its state |
| Compiled programs, `ocgpu-rtc` `Program` | handle, `compile_attempted`, `compiled`, `limits` | create, name expressions, compile, log, code, lowered name, native output, destroy, Drop | vendor compiler, which may fail at any call | destroyed exactly once; flags true; results current; copies bounded |
| Typed driver, `ocgpu` `Driver`, `AnyDriver` | the `DEFAULT` cell of `default_driver` | `load`, `load_from_absolute`, `default_driver` | driver tables; vendor `init(0)` | answers as the tables do; `init` is not remembered |
| Typed resources, `ocgpu` | `Context`, `DeviceMemory`, `Stream`, `Event`, `Module`, `Function` handles; the vendor's current context of the thread | all their methods and destructors | vendor driver; other code that switches contexts | every vendor call in the owning context; nothing dangles; nothing leaks but what the vendor would not let go |
| C interface, `ocgpu-capi` | none of its own | table requests with a caller's size and version | driver tables and compiler state | prefix copies fit both sides; panics do not cross |
| ABI tables, `ocgpu-abi` | none (generated types) | - | - | - |
| Command line, `ocgpu-cli` | none | reports; reads offload bundles | the other crates | bounded reading of bundles |
| Manifest synchronisation, `ocgpu-codegen` | the manifest with its table slots | reconcile inventories, assign append-only slots, validate, write, render | oracle snapshots, maintainers' edits; build time only | slots stay distinct; fields keep their order; a freed slot is not reused in the same synchronisation; ids are neither doubled nor changed |
| Vendor oracle, `ocgpu-oracle` | none | extract and validate header inventories | offline | - |
| Repository tasks, `xtask` | a hardware child process | poll, kill, reap with deadlines | the operating system | the child ends or is reported |

### Where it is hard

* **Lock order.** A default driver load takes `VALIDATED`, then `UNVALIDATED`,
  then the loader slot, each from inside the closure of the one before. An
  explicit load takes the same cells the other way round, one after the other.
  Threads mix both kinds freely.
* **Everything is kept for good.** `OnceLock` keeps failures too, so it matters
  which errors become permanent and which concern one call.
* **Ambient state.** The current context belongs to the thread and not to
  ocgpu: any code may change it between two typed calls, and a destructor has to
  put it back before it frees.
* **A vendor that fails half way.** `create_program` may fail with a handle in
  its output slot, reading the log of a failed compilation may fail too, a
  destructor's result says nothing of who owns the handle afterwards.
* **Adapters behind tables.** Some entries of a common table call a function that
  is stored elsewhere, at three different moments, and other threads may be
  handed the table as soon as its cell is set.
* **A library of the wrong age.** An older HIP runtime exports the names of the
  current one with other signatures, so a name that is there may still be wrong.
* **A manifest with a history.** Slots must survive entries that come, go, lose
  their declaration or are lost with the tail of a file.
* **Bounds.** Sizes come from the vendor, limits from the caller or from the
  program; the tighter or looser of two policies may be in force.

`hazards` in `PROJECT.json` lists these at their lines.

## 2. The modules

    LoadValues   the values loading speaks in: requests, paths, results
      OneShotLoad        what loading promises: facts decided once, answers from facts
      BackendLoad        the threads and cells of the code     -- implements OneShotLoad
        MCBackendLoad      load_driver.cfg  load_liveness.cfg  load_windows.cfg
        BackendLoadProofs
    TableBuild   one driver library becomes a table
        MCTableBuild       table_build.cfg
        TableBuildProofs
    SharedTables   what the C interface promises of its tables
      TableRequest   concurrent C callers, cells and adapters    -- implements SharedTables
        MCTableRequest     table_request.cfg
        TableRequestProofs
    DefaultDriver   the default backend over two drivers
        MCDefaultDriver    default_driver.cfg
        DefaultDriverProofs
    VendorProgram   what a vendor's compiler permits, and when
      RtcProgram   the Program object and the vendor program behind it   -- keeps to VendorProgram
        MCRtcProgram       rtc_program.cfg  rtc_log_bound.cfg
        RtcProgramProofs
    VendorDriver   what a vendor's driver permits one thread to call
      TypedResources   the typed handles and the ambient current context   -- keeps to VendorDriver
        MCTypedResources   typed_resources.cfg
        TypedResourcesProofs
    FieldLog     what a versioned table promises: fields keep their order
      TableSlots         the manifest and its synchronisation   -- implements FieldLog
        MCTableSlots       table_slots.cfg  table_slots_moved.cfg
        TableSlotsProofs
    HardwareChild   a hardware test under xtask's watchdog
        MCHardwareChild    hardware_child.cfg
        HardwareChildProofs

The modules meet at once-cells. `BackendLoad` takes the result of building a
table as one choice, `TableBuild` shows what that choice is made of, and
`TableRequest` puts the two together for many callers with the detail of neither:
it keeps the nesting of the cells and the moments at which adapters get their
targets. `DefaultDriver` builds on what `OneShotLoad` promises, that a backend is
usable or not once for the process.

### BackendLoad (ocgpu-loader, ocgpu-cuda, ocgpu-hip, ocgpu-rtc, Driver::load)

`value[l][b]` is the cell of layer `l` for backend `b`: `"slot"` the loader's,
`"api"` the `UNVALIDATED` table or the compiler's `ApiState`, `"core"` the
`VALIDATED` table. `holder[l][b]` is the thread that runs the cell's closure;
others that need the cell have no enabled step, which is how `get_or_init`
blocks. `pc` says where a thread is: at a cell, in one of the closures
(`open`, `build`, `validate`), checking an explicit path, or in the vendor's
`init`. `Nested` tells the calls that take the cells from the top (default
driver loads) from those that take them from the bottom (explicit loads, and
every compiler load). `Closure` and `Onward` are the whole routing: which closure
a cell runs, and where its caller goes next. The candidates are opened one step
at a time, so that other threads run between two attempts. What the operating
system and the vendor answer is a choice: a candidate opens as any file the
search can reach or fails, a table can be built or not, it validates or not,
`init` succeeds or not.

A library is known by a file and by the spelling of its path, because the code
compares spellings. `DefaultSpellings` is `{"canonical"}` on Linux, where the
search hands `dlopen` the canonical path it found, and `{"module", "bare"}` on
Windows, where the loaded path is what `GetModuleFileNameW` reports or, failing
that, the candidate as it was.

`OneShotLoad` is the contract without threads or locks: `Decide` makes one fact
known, `Answers(c)` is the set of results a call may get given the facts.
`RefinesOneShot` says that the cells and answers of `BackendLoad` behave so.

### TableBuild (ocgpu-cuda build_from_source, ocgpu-hip build_from_library, validate)

One build, one symbol a step, as the code goes: HIP asks its version (`AskVersion`),
the source and its proc-address entry are set up (`OpenSource`), the required
symbols are resolved in table order (`ResolveCore`), then the rows of the raw
inventory without a report (`ResolveInventory`), and the result is validated and
handed out. The library is anything a vendor may have shipped: the answers of its
exports and of its proc-address entry are chosen when they are asked, whatever
`ProcAnswers` a call may leave behind. `CoreReports` and `InventoryReports` are the
sets of reports a symbol may get, guarded as `resolve_field!` and
`resolve_inventory_descriptor` are. The generated profiles are the constant
`Profiles`; `Since` says from which version on a name has the signature of the
raw table, and `EvidenceAssumption` that the reviewed floors respect it. Both
families share the module, since their code is the same but for `Hip`.

### TableRequest (ocgpu-capi, load_common, the adapters)

`cell[l][b]` as in `BackendLoad`, but with what the kept table contains; `targets`
the adapter targets stored in the process so far; `buffer[t]` the words of a
caller's storage. `Home[k][i]` says where entry `i` of table `k` finds its
function: in a cell filled while the table is built, when it is validated, when
the common table is produced, or in the published state of its compiler. A table
is a metadata word and a word per entry, so the prefix of 24 bytes is one word.
The library is open already; the six requests of the C interface are `Ask` with
one kind of table each.

`SharedTables` is the same interface without cells, initialisers or adapters:
`Decide` makes known what a layer of a library has, in any order except that a
validated table needs the one below, and `Show` gives a caller the known words
within its room. `KeepsTheContract` maps cells to facts and calls an adapter and a
direct function alike "callable", since no caller can tell them apart.

### DefaultDriver (ocgpu default_driver, AnyDriver)

`default` is `DEFAULT`, `inside` the thread that evaluates it, `usable[b]` the fact
that the first load of `b` decides. Threads load drivers of their own at the same
time and each of them initialises the vendor again, which may fail in one load
and succeed in the next.

### TableSlots (ocgpu-codegen sync-rust-oracles)

The inventory of one backend as functions of its entries: `line[f]` its place in
the file, `emitted`, `slot[f]` its `table_order`, `number[f]` the offset of its vendor
`stable_id`. `Sync` is a whole `sync_rust_oracles` that succeeds, from `MergedLine` to
`AssignedSlot`, under `Accepted`, everything that may return an error on the way;
one that fails writes nothing. `SyncCut` is the same with a crash inside `fs::write`
at the end of an entry. In between, snapshots of the oracles change
(`RefreshRust`, `RefreshVendor`) and maintainers edit entries by hand as the errors
of the validation demand (`AddEntry`, `RemoveEntry`). Loader helpers of the Rust
crates, whose entries have no raw name and are never emitted, are left out, as are
entries linked to a common function, which have no slot, and aliases that carry the
name of a Rust function (`AliasAssumption`).

Each synchronisation counts the `stable_id`s of what it adds from the same base
(`MergedNumber`), and `validate` refuses a duplicate. So a second addition, in a later
synchronisation, is refused as long as an entry of the first holds the base id:
`AdditionsNeedTheBase` says so of every history, cut writes and removals by hand
included. `FreedSlotRests` speaks of one synchronisation: if the entry with the last
slot was withdrawn by an earlier one, its slot is the next to be handed out.

`FieldLog` is the table as its callers know it: a set of fields in one line.
`Publish` lets fields go and puts new ones behind the old.

### HardwareChild (xtask run_bounded_hardware_child)

The child (`running`, `zombie`, `reaped`), how it ended, and the watchdog's two
polling loops with their deadlines as a clock of ticks. The child exits when it
likes, after a kill too, or never. `elapsed` is a history variable, the ticks since the
spawn: with it `ResultTellsTheChild` says that no child is killed before its timeout and
none given up before the end of the grace period.

### RtcProgram (ocgpu-rtc Program)

The object's four fields, and beside them what actually happened at the vendor:
whether a program was handed out (`granted`), how often it was destroyed, how
often compiled (`builds`), which compilation succeeded last (`good`), and when a
name was last registered. The properties relate the two sides. Each method is
one action with its checks in source order; `read_bounded` is `BoundedReads`, the
set of replies it may produce, which compile's failure path uses as well. A count
or a length is a small number; `MaxCount` stands for `i32::MAX`.

`VendorProgram` is the other side of these calls: a program in the vendor's
compiler, with its phases (`new`, `built`, `rejected`) and what may be asked in
which. `KeepsVendorProtocol` computes the phase from what happened at the vendor
(`PhaseOf`), not from the object's flags, so it is the flags that are judged.

### TypedResources (ocgpu Context and its handles)

One thread, because handles are neither `Send` nor `Sync`. A variable of the
application holds a handle or nothing (`home[r]`); `alive[r]` is the context that
still holds the vendor object, which outlives the handle when a destructor
leaks it. `called` records the vendor call of the latest method with the
contexts of the handles it was given, and `error` what it returned. The destructors
ignore what the vendor answers (`let _ = ...`), so `Drop` and `DropContext` have a
branch in which the call fails and the object, or the context with all that was leaked
in it, lives on: such a context is `Foreign`, one that no `Context` owns. `Elsewhere` is
any outside code that changes the current context, to a `Context`'s, to none, or to a
`Foreign` one, lost ones included. Rust's borrows appear as guards: a `Context` drops
when no handle borrows it (`Unborrowed`), a `Module` when no `Function` does.

`VendorDriver` is the driver's side: a call is made in the current context, names
only objects that live there, and ends each object once, if the call that is to end it
succeeds. Every action of `TypedResources` is one of its calls, or none. An object that
a destructor leaked stays alive in `VendorDriver` until its context ends or its
name is used again.

## 3. The runs

| Run | Bounds | Distinct states | Question |
|---|---|---|---|
| `load_driver` | 3 threads, 1 driver backend, 2 candidates, 2 files; default and explicit table, core and driver loads | 66 741 | Do racing loads agree on one library, honour explicit requests, wait for nobody who waits himself, advance with every step, keep no transient error, and implement the contract? |
| `load_liveness` | 2 threads, a driver, a compiler, a backend without candidates | 53 230 | Does every call return, and does a kept failure list all its attempts? |
| `load_windows` | 1 thread | violated | Is a request for the loaded file accepted on Windows? It is not. |
| `rtc_program` | 1 variable, up to 3 compilations of a program, sizes 0..3, `MaxCount` 2, limits of 0, 1 (default) and 3 | 1 232 | Destroyed once, true flags, current results, bounded copies, reported rejections; is the vendor asked only what its protocol permits? |
| `rtc_log_bound` | the same | violated | Is `log()` bounded by the default its documentation names? By the program's own policy instead. |
| `table_build` | a CUDA and a HIP library of 5 and 8 symbols, profiles 5 to 7 with 12 versions around their floors, 3 file names | 65 149 | Do the reports tell the table, are all its types reviewed, is the profile obeyed, has every adapter its target? |
| `table_request` | 2 callers, HIP's common and raw table and its compiler's, room for 0..5 words | 28 167 | Can a caller hold an adapter before its function, be told something else than another caller, wait in vain, or see anything but the contract's facts? |
| `default_driver` | 2 threads, 2 backends | 1 957 | Is everyone lent the same default, whatever others load meanwhile, does each call advance, and does nobody wait forever? |
| `table_slots` | 3 functions, one an alias; slots to 4 | 37 476 | Do slots stay distinct over any history, is a second addition of vendor entries refused while the first holds the base id, does the table keep the order of its fields, and does one synchronisation leave nothing for a second? |
| `table_slots_moved` | the same, one function needed by an extension | violated | Do fields stay where they are? Not when one before them loses its declaration. |
| `hardware_child` | 8 ticks and a grace period of 3 | 410 | Does the result tell what became of the child, was none killed or given up early, does every step bring the watchdog nearer its end, and does it return? |
| `typed_resources` | 2 contexts, 2 allocations, event, stream, module, function; sizes 0..2; `wait_event` missing; 2 objects leaked at once | 118 511 | Every vendor call in the owning context, nothing dangling, nothing leaked unless the vendor refused, refusals without side effects; are the driver's rules kept? |

**Why these bounds are enough to see something.** Cells of different backends
are independent, so one backend with three threads shows every overlap of a
holder, a waiter and a late comer; two files make "another library" possible,
two candidates a search that fails part of the way. The liveness run adds the
compiler, whose loads never nest, and the backend without candidates. A program
is recompiled twice after its first compilation, which gives every order of two
verdicts followed by a use; sizes reach one above every limit and `MaxCount`
lies between two limits, so that both ways of being too many occur. Two
contexts and two allocations give each pair of handles both in one context and
across two; two leaked objects (`MaxLeaked`, a constraint of the run) may lie in one
context or in two when that ends or is lost, and the proofs need no such bound. The
libraries of `table_build` have a symbol of every class the code
tells apart (required, adapted, wrapped, optional, foreign, without a field) and
versions just below, at and above each floor; the versions and names are the
choices that matter, since symbols are settled independently. Two callers show
every overlap of an initialiser and a request, and rooms from nothing to beyond
the largest table every prefix. Three entries are enough for one to be withdrawn
between two others and for a fourth slot to be opened; the proofs cover the rest.

**Symmetry** is used for the threads of `load_driver` and `table_request` and for the contexts and
allocations of `typed_resources`, which occur in no other constant than their
set (`Kind` gives both allocations one kind), and in no run with a liveness
property.

**Deadlock** is checked in every run but two: an idle thread may always call
again, a variable may always create again, an oracle may always change. A table's
build (`table_build`) and a watchdog (`hardware_child`) end.

**Fairness.** In `load_liveness` it is weak fairness of each thread's steps
inside a call, never of `Start`: an application may stop calling. It stands for
three things: the scheduler runs every thread, `OnceLock` wakes its waiters when
a closure ends, and library constructors and vendor entry points return. Weak
fairness is enough because a waiting thread's step stays enabled once the cell
is filled, cells being filled at most once. `default_driver` assumes the same of the threads
inside a call. `hardware_child` assumes that time passes and that the watchdog
runs, and nothing of the child: it is what `WatchdogReturns` is about.

### What the runs found

* **A loaded file refused on Windows** (`load_windows`). After a default load, the
  slot keeps the spelling of `GetModuleFileNameW`. `load_from_absolute` compares
  it, as spelt, with the canonical path of the request, and `canonicalize` gives a
  verbatim `\\?\` spelling. A request for the very file that is loaded is
  answered `AlreadyInitialized`, documented as "A different library already owns
  the process-lifetime backend slot", and the comparison's comment says both
  sides were canonicalised. On Linux they are, and `load_driver` checks it.
* **The default bound of a log** (`rtc_log_bound`). `Program::log` is documented
  to copy "with the default 1 MiB bound"; the bound is the one of the policy the
  program was created with, which may be larger. `code` and `compile` name their
  defaults the same way.
* **Fields that move** (`table_slots_moved`). The developer guide says of versioned
  tables "Never reorder their prefix or existing function-pointer fields". Slots are
  kept, but a table has a field only for emitted entries: when an oracle loses the
  declaration of a function, `promote_functions` withdraws its entry, the
  synchronisation succeeds, and every field behind it is rendered one place
  earlier. Neither `validate` nor the coverage check compares the table with the
  published one. What the tool does keep is `FieldLog`: order, and new fields last.

## 4. What is proved

Eight modules hold theorems, for any constants that satisfy the named
assumptions: `LoadAssumption` (candidates are sequences of names, calls are
requests, compilers are asked only for their library or state, and the markers
for "nothing" are not values), `ProgramAssumption` (sizes and limits are
numbers, exported getters belong to outputs), `ResourceAssumption` (each
variable has a kind, sizes are numbers, the markers are not contexts),
`ShapeAssumption` and `EvidenceAssumption` (a symbol is listed once, required ones
are in the inventory; the reviewed floors lie at or above the version that
introduced each signature), `TablesAssumption` (which homes the entries of a
table may have), `FunctionsAssumption`, `AliasAssumption`, `RankAssumption` and
`BoundAssumption` (finitely many functions, aliases name union functions that are
not aliases, the union is in one order), `NoAnswerAssumption`, `NoRequestAssumption`
and `TimeAssumption`. TLC evaluates all of them in the runs above.

**BackendLoad.** No property is inductive alone. `IInv` adds what a thread has
established where it stands: `Route` (a call visits only the places it needs),
`Holds` and `Held` (a thread is in a closure exactly when it holds that cell,
which is empty), `Behind` (what it has already found in the cells below),
`Tried` (the failures collected are the first candidates in order) and
`Answered` (every answer given still follows from the facts), with `Facts`: each
kept value is one the contract allows over the value below. Most steps are one of
three shapes, each with a lemma: a closure ends (`KeepPreserves`), a call returns
(`ReturnPreserves`), a thread moves (`MovePreserves`). Each action lemma shows the
invariant preserved and the step simulated together, since the same facts give
both. From `IInv` follow type correctness, `OneLibrary`, `Agreement`,
`ExplicitHonoured`, `NothingTransientKept`, `FailureIsExhaustive`, the order of the
waits (`WaitsDownward`: a thread waits only for cells below those it holds) and the
refinement `Spec => RefinesOneShot`. `SameFileServed` proves
`SameFileAccepted` under the one assumption that a default load keeps canonical
spellings, which is what Linux does and Windows, in `load_windows`, does not.

Two theorems stand in for liveness. `NobodyWaitsInVain`: whoever waits at a cell,
some thread holds a cell of that backend and does not wait (the holder of
the lowest cell that is waited for; `Holds` says it is inside that closure). And
`CallsComeToAnEnd`: `StepsLeft`, thirteen places at most and the candidates still
untried, falls with every step of the call's own thread and never rises with
another's. Its proof needs that cells only fill, which the refinement gives, and
that the attempts of a search are a prefix of the candidates (`Tried`).

**TableBuild.** The bootstrap settles the profile before anything is resolved, and
each later step is right because of it: `ProfileSettled` and `AskedWherePermitted`
carry it along, `Told` and `CommonReviewed` say it of each report, field and entry
made so far, `CellsFilled` of the adapters. That a symbol is settled once needs
`CoreOrder` (during the core stage only the version function and the symbols before
the current one have reports) and `Covered` (so has every inventory row passed).

**TableRequest.** `CoreBelow` (a validated table is the unvalidated one below it)
and `CellsStored` (what a set cell contains has its build and validation targets
stored) are kept because cells are set once and targets only grow (`Grows`).
`WordsGiven` ties each word in a caller's buffer to the cell it came from; both
properties read it off. The refinement of `SharedTables` rests on the same invariant:
an initialiser owns only an unset cell, so its end is one `Decide`, and a
word no answer wrote is untouched, so an answer is one `Show`. For progress,
`Placed` says that a thread inside an initialiser is at its work there and asks about
that library; `NobodyWaitsInVain` and `RequestsComeToAnEnd` follow, the latter with
every step described as one that takes a cell, sets one, or belongs to the request.

**TableSlots.** `SlotsTogether` (the emitted entries all have slots, or none has)
and `SlotsDistinct` with `LinesDistinct` are inductive: captured slots are distinct,
`NextSlot` lies above all of them and new entries are counted from it
(`AssignedSlots`). The counting rests on `EarlierCounts`, that the rank of a member in
a finite set tells members apart. The refinement has a lemma for the order of a
written table (`SameOrder`) and one for each edit by hand. `OneSyncIsEnough` says that
a synchronisation is idempotent: the inventory it wrote is what it would write again.
`AdditionsNeedTheBaseAlways` rests on `FirstHasTheBase`, that among finitely many new
entries one comes first in the union and is counted zero.

**DefaultDriver, HardwareChild.** One thread is inside `DEFAULT`'s initialiser while
it is unset (`OneInside`), and an answer from it is what it holds; the watchdog's
place tells whether the child was started, killed and collected (`Watched`), and the
time passed and the time left make up its deadlines (`Clocked`, `InTime`). Both
advance: a call to the default driver in at most five steps of its own; the
watchdog, for every timeout and grace period, with each tick and each poll, which
needs that it sleeps one tick at a time and only while time is left (`Timing`).

**RtcProgram.** The properties together are inductive once it is added that
the last good compilation is one of those made (`GoodIsBuilt`) and that an
object wraps only a program that was granted (`OwnedIsGranted`). The bounds
`MaxBuilds` and `Sizes` are arbitrary. `ImplementsVendorProtocol` follows action by
action: what the object's flags permit lies within what the vendor's phase permits,
because the flags are true.

**TypedResources.** `NoDanglingHandle`, `CalledInOwnContext` and `CopiesFit` are
inductive with `Borrows`: only a Function borrows another handle, and that is a
module. It is what lets a destructor of a stream or an allocation leave the
others' vendor objects alone. The two action properties follow action by action
(`LeaksAreRefused` with the failing frees), and
so does `ImplementsVendorRules`, the refinement of `VendorDriver`, with one more
invariant, that the current context exists or is none of ocgpu's (`CurrentExists`).

**Only model-checked.** The liveness properties `EveryCallReturns`, `CallsReturn` and
`WatchdogReturns`: weak fairness and `ENABLED` are outside the prover's reach. What is
proved of them, for all constants, is the rest of the argument: nobody waits in vain,
and every step of a fair actor lowers a number that nothing raises (`CallsAdvance`,
`RequestsAdvance`, `WatchdogAdvances`, the first two with `WaitersAreServed` as
their first half). Missing is only the
inference from "some actor that is not waiting has an enabled step" and weak fairness
to "the step is taken". Every other property of a passing run is a theorem. A few theorems
are about formulas no run lists, since a property that is listed implies or
outdoes them: the types of `RtcProgram` and `TypedResources`, `WaitsDownward`,
`NamesPrecedeCompile` (`KeepsVendorProtocol` says it of the vendor's phases) and
`PrefixesAgree` (so does `KeepsTheContract`, but for the kind of a function).

## 5. What the models leave out

* A panic inside a `get_or_init` closure, which would leave the cell empty for
  the next caller, and `catch_unwind` in the C interface's `boundary`: the closures
  do not panic by themselves.
* Recursion into the same cell through a vendor constructor that calls back into
  ocgpu; the loaded code is trusted by contract.
* A handle lost with `std::mem::forget`, after which its Context may go first.
* Device queries (name, attributes, memory size), which keep no state.
* Errors that can only come from inconsistent generated data: a descriptor whose
  offset is not a field, a profile without a bootstrap symbol or without a common
  symbol that an adapter stands for.
* Text: messages, the layout of diagnostics.

### Not modelled

* **The secure search of `ocgpu-loader`** (`LD_LIBRARY_PATH`, `ld.so.cache`, fixed
  directories). It is parsing of bytes and path arithmetic in one sequential
  function; abstracted from its data, what remains is the choice that
  `BackendLoad!OpenCandidate` makes.
* **`ocgpu-abi`, the symbol tables of the driver crates, the exports of
  `ocgpu-capi`.** Generated declarations and one forwarding function per entry, about
  120 000 of the repository's 156 000 lines of implementation. They are
  the values of `Core`, `Inventory` and `Profiles`; the code that interprets them is
  modelled, and there is no behaviour of their own to model. The share of all
  lines that the models stand for is small for this reason.
* **Rendering in `ocgpu-codegen`** and the types and declarations in a manifest
  entry: text to text. Only what decides which fields there are, and where, is in
  `TableSlots`.
* **`ocgpu-oracle`.** A batch extraction of headers into JSON and its validation;
  it keeps no state. To `TableSlots` it is the environment that changes the snapshots.
* **`ocgpu-cli`.** It prints what the other crates answer. `inspect` reads an
  offload bundle's records in one pass.
* **The other tasks of `xtask`.** External commands run in order, up to the first
  failure.

## 6. What a next step would be

* `SecureSearch`, if the search ever keeps state between two opens or hands a
  descriptor instead of a path to `dlopen`: then the check and the use could be
  related, which the path interface rules out.
* A comparison of the rendered table with the published one, in the code: with it
  `FieldsNeverMove` would become a property of `table_slots`.
* The composition of `TypedResources` with threads, should handles become `Send`.
