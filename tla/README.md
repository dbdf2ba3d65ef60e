# TLA+ models of HuntFUZZ's ErrorFinder

This directory holds TLA+ models of the static analyser in `src/error_finder/`
(ErrorFinder), which finds fault-injection sites for the fuzzer, and of the two
LLVM helper passes in `src/utils/`. Each module is translated from the C++
source. The natural-language spec (`spec.md`) is used only for the properties,
and it is cited wherever the code and the spec disagree.

## 1. Inventory

### Components, their state and their operations

| Component | Source | State | Operations |
|---|---|---|---|
| Function Classifier | `FaultSiteAnalysis.hpp` 184-212, `AnalyzerUtils.hpp` 44-71 | `funcDefined` (candidates: a body plus an int/pointer return), `funcExternal` (kernel mode only: bodies from `include/*.h`) | one pass over every module |
| Checked-Return-Value Engine | `FaultSiteAnalysis.hpp` 141-358, `utils.hpp` | `uncheckedAliasMap` (function key -> boundary names it hands up unchecked), `funcExternalCheckedTimes` (name -> total, checked, direct) | `analyzeModule`; the recursive, memoised `analyzeFunctionAndGetUncheckedAliasSet`, which visits each qualifying call site |
| Usage Classifier | `utils.hpp` 22-53 | none | `isValueUsedBy` (a comparison, switch or return uses some alias), `isValueDirectlyUsedBy` |
| Alias Resolver | `alias_flow_insensitive.cpp` | one graph per query: `vn_index` (Value -> ValueNode), the nodes' `succ` edges (LOAD, GEP index) and `aliases` | `HandleValueAlloca/Load/Store/GEP/BitCast`; the query over a whole function or over an instruction range |
| Fault Site Cataloger | `FaultSiteAnalysis.hpp` 224-269, `ErrorFinder.cc` 136-170 | `faultSiteInfoVec`, a `functionSerialMap` for each function | one record per call site of a callee that was checked; a sort, then a filter, then the final counters are attached |
| Exploratory Taint Walker | `FaultSiteAnalysis.hpp` 28-139, `TaintAnalysis.hpp` | `TaintSet` (a copy per path), `State.trace` | `isCheckRet`, a DFS over successor blocks bounded at 10 blocks. It is dead code: its only call is commented out |
| Nullable Member Detector | `NullableMemberAnalysis.hpp`, `ErrorFinder.cc` 172-197 | `checkNullMemberSet` ("Type:offset"), `nullableMemberVector` | pass 1 collects null-compares that feed a conditional branch; pass 2 collects null-stores whose member was checked somewhere; then a sort |
| Record serialization | `include/fault_point_info.h` | none | `setLocationInfo` (walks the inlined-at chain, optionally reads source text), `fill_ptree`/`extract_ptree` (missing statistics read as zero) |
| Command-line driver | `ErrorFinder.cc` | options, `filenameModuleMap` (an unordered_map) | parses options, loads modules (a bad module is skipped), runs the analyses, writes JSON |
| Error point clustering | `src/utils/ErrorCluster.cpp` | `S` (clustered flags), `EPC` | `getFatherList` (predecessors down to depth k), then the clustering loop |
| CFG distance pass | `src/utils/CFGDistancePass.cpp` | `LineToBB` | `computeDistance` (a BFS over successors) for every pair of lines |
| Common utilities | `include/commonutils.hpp` | none | string and OS helpers. Only `trim` is modelled, as part of `setLocationInfo` |

### How the components interact

`main()` loads every `.bc` file into `filenameModuleMap`, an unordered_map.
All passes walk it in the same order, and that order is unspecified.
`AliasRecursiveAnalysis::analyze` makes three sequential passes:

1. classify;
2. analyse every function. The analysis calls the usage classifier, which calls
   the alias resolver on the whole function, then recurses into candidate
   callees, sharing the counters map and the memo map;
3. catalog.

`main()` then sorts the records and filters them against the final counters.
The Nullable Member Detector is independent of all of this and shares only the
record and location code. Everything runs on one thread, so there is no
concurrency.

### What is hard in this code

The behaviours that are hard to test, each listed with its line under
"hazards" in `PROJECT.json`, are these:

- **Recursion over a cyclic call graph.** An empty placeholder is installed
  before the engine recurses. Re-entrant calls see a partial set, so results
  depend on which function of a cycle is entered first, and that depends on the
  unordered_map order.
- **Where the memo key comes from.** The key is the callee `Function` as the
  caller's module sees it. A candidate whose body is in another module is only
  a declaration there, so its key is `""`.
- **Counter bookkeeping.** One checked call of a candidate increments `total`
  and `checked` for every name in the candidate's set. Those call sites were
  already counted in `total` once.
- **Serial numbers and ordering.** Serials are counted per function and per
  callee. The sort is not stable, and static functions with the same name share
  keys.
- **Order dependence in the alias resolver.** The spec calls the resolver flow
  insensitive, but the code depends on instruction order: a store overwrites a
  load edge, and a load can overwrite a node index.
- **Bounds.** The taint walker stops at 10 blocks. The clustering loop sizes
  `S` by the requested lines but indexes it, and reads `bbkSetList`, by error
  point. The CFG distance from a block to itself is -1.
- **The two graph utilities.** The distance pass searches one direction and
  writes the answer for both. The clustering pass truncates its output file
  for every function.

### What makes each component correct

- Engine: `direct <= checked <= total`. The counters equal a reference count
  over the call graph. Validation is propagated across functions. The recursion
  never re-enters a frame, and it terminates.
- Catalog: there is one record for each call site of a validated callee. Serials
  run 1..n for each (function, callee), and the output is sorted with no
  duplicates.
- Alias resolver: it terminates on cyclic node graphs, the query value comes
  first in the result, and the results agree with the flow-insensitive rules of
  the spec.
- Nullable detector: a record appears only if a null-check of the same
  (type, offset) exists, and then exactly once for each null-store.
- CFG distance: each pair of lines gets two rows, once, with the length of a
  shortest path between their blocks, and the pass ends.
- Error clustering: the clusters in the file partition the module's error
  points.

## 2. Plan

The modules are listed in order. The most important behaviour comes first.

1. **FaultSiteEngine** (done): the classifier, the engine and the cataloger,
   plus the driver's output step.
2. **AliasResolver** (done): the `Handle*` actions over an instruction
   sequence drawn from a small IR space, with both query variants. It checks
   soundness against straight-line execution, and it has violation runs for
   order dependence and for the LOAD_ID key collision.
3. **Usage classifier** (done, inside AliasResolver): `isValueUsedBy` and
   `isValueDirectlyUsedBy` over the query result. `UsageExact` compares the
   checked and returned answers with the symbolic execution. FaultSiteEngine
   still takes the answers as per-call-site inputs: composing the two state
   spaces is beyond TLC's reach at useful bounds.
4. **NullableMember** (done): the two passes, TBAA resolution with the GEP
   fallback, and the sort. It checks the join law of spec section 8, and it
   has violation runs for the GEP index and the missing debug location.
5. **TaintWalker**: not modelled. It is dead code (section 4).
6. **FaultPointRecord** (done): `setLocationInfo` with the source-text
   loops, and the catalog written and read back, with a violation run for the
   zero-default path.
7. **CFGDistance** (done): the pass step by step, shown to implement the
   abstract **DistanceTable** (INSTANCE ... WITH), with a violation run for
   the spec's shortest-path reading.
   **ErrorCluster** (done): the clustering pass over the functions of a
   module, with a violation run for the partition it should produce.

Two abstract specifications are stated. "The counters are the reference
count" is `CountersMatchReference` in FaultSiteEngine, a state predicate on
the final state. "The file is a distance table" is the module DistanceTable,
which CFGDistance refines.

## 3. Modules

### FaultSiteEngine.tla (with MCFaultSiteEngine.tla)

The model abstracts the IR to one **program** per run:

- `order[m]`: the functions with a body in module `m`, in IR order;
- `body[f]`: the qualifying call sites of `f`. A qualifying site has a direct
  callee with an int/pointer return type and a debug location;
- `header`: the functions whose body comes from an `include/*.h` header;
- `void`: the functions that return neither an integer nor a pointer;
- `ptr`: the names whose declared return type is a pointer;
- `kernel`: the `--kernelMode` flag of the run.

Each call site carries the answers the engine gets from `isValueUsedBy`:

- `checked`: an alias feeds an icmp or a switch;
- `direct`: the call result itself does;
- `returned`: an alias is returned.

These answers are inputs here. AliasResolver computes them for one function
(`isValueUsedBy`, `isValueDirectlyUsedBy`) and checks that they are exact.

| Code | Model |
|---|---|
| `funcDefined`, `funcExternal` | variables of the same names. `ClassifyModule` is one module of pass 1 |
| `uncheckedAliasMap` | `memo`, a function whose domain grows. `NoName` is the key `""` that `getDefinedFuncName` gives a declaration |
| recursion of `analyzeFunctionAndGetUncheckedAliasSet` | `stack` of frames `[key, pc]`. `Descend` installs the placeholder and pushes a frame; `Return` pops it. The caller's call site is then handled again, and this time it finds the memo entry (`CallCandidateDeep`) |
| the call-site loop | `CallBoundary` (lines 338-354), `CallCandidateShallow` (317-320, not in deep mode), `CallCandidateDeep` (321-337) |
| `funcExternalCheckedTimes` | `counters`. A name that was never touched reads as zero, the same as `find == end` |
| `analyzeModuleForContext` | `CatalogSite` and `CatalogNextFunction`. `serial` is the `functionSerialMap` of the current function |
| `main()` sort, filter and attach | `Emit`, with comparator `RecordLess`. `NameRank` stands for string order |
| `deepMode = kernelMode` | `KernelMode`, the program's `kernel` flag, drives both |
| `getReturnType()->isPointerTy()` (253) | `PtrFns`, the program's `ptr` set |

The order in which the unordered_map is walked is unspecified, so `Init`
chooses `modSeq` among all permutations of the modules. `Init` also chooses the
program from `Programs`.

**Bounds.** There are two defined functions, `f` with up to 2 call sites and
`g` with up to 1, one boundary function `a`, and two modules. The layouts are
`f,g` or `g,f` in `m1`, or `f` in `m1` and `g` in `m2`. Both modes are in
one run. `g` may be a header function (kernel mode only) and `f` may be void.
In default mode `a` returns a pointer, so its value is 0 rather than -1; in
kernel mode it returns an int, so its value is -12. A call site can be any of 3
callees combined with any of the 6 flag combinations. These bounds cover the
following cases: a function checking a helper that returns a boundary result,
chains of two, self-recursion, mutual recursion, calls across modules, header
externals, and void roots. `MaxDepth = 3` is never reached by the code as
written, because at most two distinct keys and `""` exist.

**Fairness.** The analysis runs on one thread and every step is a plain
statement of a loop, so weak fairness of `Next` holds.
`CHECK_DEADLOCK FALSE` is set because the batch run ends once the output has
been written (`phase = "done"`).

**Reference semantics used by the properties.**

- `Obligations[f]` is the least fixpoint of "f returns unchecked a boundary
  call, or returns unchecked a call of a candidate `h`, in which case it also
  carries `Obligations[h]`".
- `RefCounters(b, deep)` counts the call sites of `b`. In deep mode it adds one
  `total` and one `checked` for each checked call of a candidate that carries
  `b`.
- `ExpectedOutput` is the set of records the catalog should contain.

### AliasResolver.tla (with MCAliasResolver.tla)

`GetAliasValueInsensitive` (`alias_flow_insensitive.cpp`) builds a graph of
`ValueNode`s and then reads one node's `aliases`. The model's `graph` record
holds `vn_index` (a value's node number), `succ` (a node's edges, keyed by
`LOAD_ID`, `GEP_ID` or a constant GEP index) and `aliases`. Nodes are numbered
in creation order.

| Code | Model |
|---|---|
| `CreateValueVN`, `HandleValue*` | operators of the same names over `graph` |
| the instruction switch (lines 138-166) | `AllocaInst`, `LoadInst`, `StoreInst`, `GEPInst`, `CastInst`, `OtherInst`; each runs its handler and moves `pc` on |
| the ranged overload's window (`begin_inst->getNextNode()`, `end_inst`) | `Start`, `SkipBeforeWindow`, `ReachEnd`. `Start` is 0 when `begin` ends its block, since `getNextNode()` is then null |
| the end of the scan and the query | `EndOfFunction`, `Collect` (the result lists `val` first) |

A program is a straight-line sequence of `alloca`, `load`, `store`, `gep`
(a constant or non-constant index), `bitcast` and `call` instructions over two
arguments. The last instruction may instead be an `icmp` with a constant or a
`ret` of an earlier result. These fall to the switch's default branch
(`DefaultOps`) and are what the usage classifier looks for. Every operand is
defined before it is used, as at -O0. A constant GEP index carries its
64-bit value as `hi` (the high 32 bits) and `k` (the low 32 bits). The key
`GepIndex` keeps only `k`, since the code stores `getSExtValue()` in an
`int`. The query
value is a call result, as in `isValueUsedBy`. `Init` chooses the scope
("function" or "range"), the block boundaries for the ranged overload, the
query value and the window.

**Reference semantics.** `Exec` runs the program symbolically. A value is the
access path it denotes: an argument, followed by load steps and GEP indices,
where GEP index 0 denotes the object itself. `AliasSound` requires every
reported alias to denote the same path as the value it aliases. `RunInOrder(o)`
runs the same handlers in another valid order, and `OrderIndependent` compares
the results. A GEP step is the pair `<<hi, k>>`, the full index.

**Usage classifier.** `isValueUsedBy(C)` holds when some instruction of
opcode class C takes a member of `alias_val_vec` as an operand. This is the
fold over `users()` in `utils.hpp` 27-36. `CheckOps` is `{icmp, switch}`
(line 297 of `FaultSiteAnalysis.hpp`), and `ReturnOps` is `{ret}` (line 314).
`UsageExact` states that the answer is exact. The classifier reports a
compare (or return) user if and only if one takes a value that, once the
function has run, holds the call's result. Soundness depends on the alias
classes. Completeness depends on the handlers reaching every
store-then-load, cast and GEP path at these bounds.

**Bounds.** Up to 4 instructions in whole-function runs and 3 in ranged runs.
There are 2 arguments. GEP constants are 1 and 2. The collision run also has
99990 and 2^32+1 (`hi` = 1, `k` = 1). Each collision alone violates
`AliasSound`. A switch is classified as a compare is, so only `icmp` and `ret`
are generated as users.
These bounds are enough for store-then-load, load-then-store, GEP chains, casts
of GEPs and two pointers into one object.

### NullableMember.tla (with MCNullableMember.tla)

The module abstracts a compare to the operands pass 1 inspects:

- the predicate;
- the two operand kinds (`load`, `arg`, `null`, `zero`, `nonzero`);
- the loaded access;
- whether a later conditional branch of its block uses it;
- whether it has a debug location.

A store is abstracted to its access, its value kind and its debug location. An
access names a struct, a member, its TBAA tag (`path`, `scalar` meaning
"any pointer", `none` or `malformed`) and whether its pointer is a field GEP.

| Code | Model |
|---|---|
| `getNullableMemberInfo` (three overloads) | `TbaaInfo`, `GepInfo` (with `StripStruct`), `Info`. `NoInfo` is the empty result |
| `analyzeModuleForNullCheckedMembers` | `CheckModule`, one module per step, using `CheckedKey` on every compare |
| `analyzeModuleForNullableMembers` | `StoreModule` appends `ModuleRecords` in IR order. `StoreModuleCrash` is the null dereference in `setLocationInfo` |
| `main()` sort | `Emit` picks any order that is sorted under `RecordLess`, because `std::sort` leaves ties unordered |

`Init` chooses the `unordered_map` order among all permutations.

**Reference semantics.** `TrueKey` is the struct and byte offset of the member
an access really touches. `TrueChecked` holds the members that some function
null-tests before a branch. `TrueReported` holds the null stores to those
members. 

**Bounds.** There are two modules, `f` with up to 2 items and `g` with up to 1,
in the layouts `f,g` in `m1` or `f` in `m1` and `g` in `m2`, and one struct
`Foo` with pointer members at offsets 0 and 8. The passing run draws items from
14 compare variants and 8 store variants. Each variant changes one property
that a pass inspects. Every early `continue` of both passes is therefore taken
somewhere in the run.

### CFGDistance.tla and DistanceTable.tla (with MCCFGDistance.tla)

`GlobalCFGDistancePass::run` (`src/utils/CFGDistancePass.cpp`) builds
`LineToBB`, opens `cfg_distances.txt` and, for every pair of its keys in
`unordered_map` order, calls `computeDistance(BB1, BB2)` and writes
`L1 L2 d` and `L2 L1 d`. A program is the blocks in IR order (`layout`), the
debug lines of each block's instructions (`lines`) and each block's successor
set (`succ`).

| Code | Model |
|---|---|
| lines 23-34 | `Build`, with `LineToBBOf`: the last block in IR order holding a line wins |
| open, and its failure (37-41) | `OpenFile` chooses the iteration order among all permutations of the keys; `OpenFails` ends with nothing written |
| the pair loop (43-52) | `StartPair`, `NextIt1`, `Close`; `Emit` writes both rows and moves `It2` on |
| `computeDistance` | `queue`, `dist`; `BfsExpand` pops one block and pushes its unlabelled successors in any order, `BfsFound` is the early return, `BfsExhausted` the `-1` |

**Refinement.** DistanceTable has the rows and a status (`running`, `done`,
`failed`). `Write` appends the two rows of one pair not yet written, in
either orientation, with `Distance`: the length of a shortest path of at
least one edge, or -1 when there is none or the blocks are the same. `Finish`
needs every pair written; `Fail` is allowed only before any row. Its `Spec`
has weak fairness, so it also says the table is eventually complete.
CFGDistance maps `succ` to `prog.succ`, `lineToBB` to the map `Build`
produces, `rows` to `out`, and `status` from `phase`; `TableRefined` is
`Table!Spec` checked as a PROPERTY.

**Bounds.** Three blocks in one order, each with at most two successors
(conditional branches), self-loops and back edges included: 343 graphs.
Lines 1, 2 and 3, where line 2 may be absent (fewer than two pairs) and line
3 may sit in two blocks (the last-writer rule). Every permutation of the keys
is explored. Three blocks give paths of length 1 and 2, unreachable pairs,
cycles and same-block pairs.

**Fairness.** The pass is one sequential loop, so weak fairness of `Next`
holds; `CHECK_DEADLOCK FALSE` because the pass ends.

### ErrorCluster.tla (with MCErrorCluster.tla)

`ErrorPointCluster::runOnFunction` (`src/utils/ErrorCluster.cpp`) runs for
every function in module order. A program fixes the functions, the owner
and IR order of the blocks, the successors (inside a function), the number of
instructions of each line in each block, the `-lines` list and `-k`. An error
point is `<<function, line, block, n>>`.

| Code | Model |
|---|---|
| lines 66-81 | `Collect`: `PointsOf` (list order, then blocks, then instructions), `getFatherList` (level-by-level predecessors, the start block not marked), `S(L, false)` |
| open (85) and its failure (87-90) | `Open` truncates `file`; `OpenFails` prints the error (`openError`) and the next function runs |
| one iteration of the `while` (93-119) | `FormCluster` |
| lines 124-131 | `Write` replaces `file` by this function's clusters |

`S` has `L` bits but is indexed by point. With libstdc++ a `vector<bool>` of
at most 64 bits is one zero-filled word, so the model gives `S` the indices
`0..max(L, N)-1` and lets `any_of` and the CEI search see only `0..L-1`.
`bbkSetList[CEI]` is never read past its end: `hasCommon` runs only for an
unvisited `i < N`, and `CEI`, the first unvisited index, is then below `N`.

**Bounds.** Function `f` with blocks `fa`, `fb` and function `g` with block
`ga`; every edge set inside a function; up to one instruction of lines 1
and 2 per block; `-lines` `1`, `1,2` or `2,1`; `-k` 1 or 2. This gives
functions with no, fewer and more points than requested lines.

### FaultPointRecord.tla (with MCFaultPointRecord.tla)

`include/fault_point_info.h` defines the two record types that ErrorFinder
writes: `FaultPointInfo` (`.faultsite`) and `NullableMemberInfo`
(`.nullable`). The model follows one vector of records of one type, `T`,
through `setLocationInfo` for each record, `output_vector` and
`input_vector`.

| Code | Model |
|---|---|
| `setLocationInfo` (61-109) | `SetLocation` for record `k`: `LineOf` (the outermost inlined-at line) and, when a source path was given (`enrich`), `SourceCodeOf` |
| the two `getline` loops (85-102) | `SkipTo` and `Continue`, over `GetLine`, which returns a line and the stream's `good` state (eof after a last line with no newline, fail past the end) |
| `replace`, `trim`, the `i < lineNumber` test (103-106) | `trim` drops blank pieces at both ends; then the placeholder test |
| `fill_ptree`, `output_vector` | `FillBase`, `fill_ptree` (child `T` with the type's fields), `output_vector` |
| the catalog `input_vector` is given (not code) | `ExternalCatalog`: a catalog from another tool or edited by hand lacks one field of a record's child, an optional statistic or a required field |
| `extract_ptree`, `input_vector` | `ExtractBase`, `ExtractStats` (one try block, the catch zeroes all three), `extract_ptree`, and `input_vector`, which aborts the document when a required key is missing (`Extractable`) |

A source text is the sequence of pieces that `setLocationInfo` joins with
spaces: the default `NA`, a line of the file (its number) or `EMPTY` (a
getline that failed). A line is "blank", "text" (no `;`) or "stmt" (holds a
`;`). Integers go through `put` and `get<int>` as decimal text, which gives
back the same value in range, so values are kept as they are. The written
documents always hold the required keys, so the abort branch is modelled but
not reached.

**Bounds.** One file of 1 to 3 lines, with or without a final newline, or a
file that cannot be opened. The records' locations are lines 0, 1, 2 and 4,
and line 3 inlined into line 1. Vectors hold one or two fault-site records,
or one nullable record. The statistics are `(2,1,0)` or `(2,2,1)`.
`MaxLines = 1` stands for the code's 10, so the `count > max_lines` break
happens in a three-line file. These bounds reach every branch: line past
the end with and without a final newline, line 0, a continuation that stops
at a `;`, at the end of the file and at the break.

### Runs

| Run | Expect | Properties | What it shows |
|---|---|---|---|
| `fault_kernel` | pass | TypeOK, NoReentry, CountersMatchReference, CountersUnderApproximate, CatalogMatchesCounters, Termination | On every program, in kernel and in default mode: the recursion never re-enters a frame and it ends; it only under-approximates; the counters are exactly the reference ones when the call graph is acyclic and candidate calls stay inside one module, and always in default mode (no descent, each function's own call sites); records match the counters and serials start at 1. About 1.5 minutes |
| `fault_cross_module` | violation | CrossFunctionValidation | `caller` in `m1` checks `helper` in `m2`, and `helper` returns `a` unchecked. `a` ends with `checked = 0`, so it is dropped from the catalog (**code bug**) |
| `alias_sound` | pass | TypeOK, AliasSound, UsageExact | Every alias either overload reports denotes the same access path as the query value, for every window of the ranged overload, including a `begin` at the end of its block. `isValueUsedBy` reports a compare or return user exactly when one takes a value holding the call's result, through casts, GEPs and memory |
| `alias_load_id_collision` | violation | AliasSound | `gep x, 99990` and `load x` share a node, because constant indices share the key space of `LOAD_ID`. `gep x, 1` and `gep x, 2^32+1` share one too, because the 64-bit index is kept in an `int` |
| `alias_order_dependence` | violation | OrderIndependent | `r = call; l = load x; store r, x` does not report `l`, but the order with the load last does. Spec 4.1 says order-independent |
| `nullable_join_law` | pass | TypeOK, TrueJoinLaw | With struct-path tags, each null store to a member that is null-tested anywhere is reported exactly once, under that member's key, in every module order |
| `nullable_gep_fallback` | violation | TrueJoinLaw | Under an "any pointer" tag, the GEP fallback reads the leading 0 index, so a store to `Foo`+8 is reported as `Foo:0` (**code bug**, line 119) |
| `nullable_missing_debugloc` | violation | MissingLocationExcluded | A reportable null store without a location crashes `setLocationInfo`. Spec 7 says it is excluded (**code bug**) |
| `cfg_distance` | pass | TypeOK, TableRefined | The pass implements DistanceTable: rows never carry 0, each pair is written once with a shortest-path length (or -1), and the file is eventually complete |
| `cfg_distance_shortest` | violation | ShortestDistanceRows | With only the edge `b3 -> b2`, lines of `b2` and `b3` get 1 in both directions, though `b2` does not reach `b3`; two lines of one block get -1 instead of 0 |
| `record_stats_default` | violation | ReadBackAsWritten | A catalog whose record lacks only `directNum` reads back with `faultSiteNum` and `checkedNum` zeroed as well, since one catch resets all three. Spec 6 and 7 say a missing optional statistic defaults to zero and the rest read as written |
| `error_cluster_partition` | violation | ClustersPartition | `g` has no error point and truncates the file `f` wrote, leaving one empty cluster (**code bug**, line 85). With the file appended instead, a second instruction of the one requested line is still never clustered (line 68) |

## 4. Not modelled (yet), and why

See section 2 for the order of the remaining work. The following are left out
for good:

- option parsing, the directory listing and bitcode parsing, which are I/O;
- `getSourceFileNameRef` and `eraseAll` (`utils.hpp` 7-20), which only build
  names for records;
- the text of a source line, abstracted to blank, without `;` or with `;`;
- `commonutils.hpp` except `trim`: `replace` only turns tabs into spaces,
  which the line abstraction cannot see. `BKDRHash` and `join` are never
  called, and the env and terminal helpers are OS queries;
- the Exploratory Taint Walker (`isCheckRet`, `TaintAnalysis.hpp`). Its only
  call is commented out, so nothing the tool writes depends on it. The spec
  describes it, but a model could only be checked against that description,
  and this project translates the code the tool runs.

Four disagreements are recorded as hazards, with no run of their own:

- Spec section 8's example gives `open: total=1, checked=1`; the engine counts
  `total=2`, since validation increments `total` again for a call site the
  callee already counted (`FaultSiteAnalysis.hpp:328`, as spec 4.2 describes).
  `CountersMatchReference` checks the engine against the 4.2 reading.

- In default mode, `deepMode` is false, so no validation across functions
  happens (`FaultSiteAnalysis.hpp:317`). The `fault_kernel` run checks the
  counters of that mode against the reference.
- `serialNumber` of a nullable record is always 0 and `std::sort` is not
  stable, so ties come out in an unspecified order. Spec 4.5 asks for a
  stable sort. `Emit` models the ties nondeterministically.
- `setLocationInfo` on line 0 keeps the default "N/A" and appends the file's
  first lines, up to one with a `;`. On the line just past the end of a
  file that ends in a newline, it gives an empty text rather than "N/A"
  (`fault_point_info.h:86`, `:105`). `SourceCodeOf` computes both. Spec 6
  asks for the placeholder, but no run judges the text.

In NullableMember every member is a pointer, so the "access type is not any
pointer" return of `getNullableMemberInfo(MDNode*)` is not reached. The
`numOperands < 2` and non-constant index returns of the GEP overload cannot
happen for a field GEP, and the model generates only field GEPs.

Static functions with the same name in two modules are not in the program space
yet, because every defined name is unique. This is listed as a hazard.
