# Verification of the Cangjie hotfix tools

TLA+ modules, TLC configurations and TLAPS proofs for the programs of this
repository: `cjc-plugin`, which makes the functions of a package replaceable,
`patch-gen`, which compares two instrumented versions of the package and makes the
patch that replaces what changed, and the vendored FlatBuffers library, in whose
format packages are read and written.

## The system

A hot fix goes through three programs.

1. The compiler runs **cjc-plugin** on every package (`entry_point.cj`). The plugin
   reads a list of globs from `cjpm.toml`, makes one regular expression of them and
   selects the *patchable* functions. For each it adds a Boolean *flag*, a *guard
   method* of the abstract guard class and a check in front of the function's code:
   if the flag is set, call the guard method on the instance in the package's *guard
   variable*, otherwise run the function's own code. It also adds the *initialiser* of
   the guard variable (which stores `None`), a patch class `PatchImpl` whose methods
   throw, and guards and accessors for the two package initialisation functions.
2. **patch-gen** (`main.cpp`, `PatchGen.cpp`, `Equality.cpp`) reads the compiled base
   version ("source") and the compiled fixed version ("patched"), both instrumented,
   and edits the patched one into the patch: changed bodies move into `PatchImpl`,
   their flags are enabled and an instance is stored by the initialiser, and all that
   the base already has is turned into imports.
3. The **running base** loads the patch (outside the repository) and from then on
   executes it behind the enabled flags.

| part | state it keeps | operations | depends on |
|---|---|---|---|
| patch generation, `PatchGen.cpp`, `PatchGen.h` | `MarkContext` (six sets), the package being edited, the search's `visited` | `mark`, `markInternalFuncs...`, `genPatch` with its seven edits | code comparison, instrumentation by the plugin |
| code comparison, `Equality.cpp` | `visitedValues` | `areEqual` on values, expressions, blocks, types; the hash-set equalities | CHIR |
| command line, `main.cpp` | none | read, generate, write or fail | patch generation |
| guards, `patcher.cj` | guard class, variable and initialiser, made by the first `patch` | constructor (package inits), `patch`, `replaceBodyWithThrow`, `genPatchClass` | plugin context, names |
| selection, `patchable_finder.cj`, `plugin_context.cj` | collected list, set of sort keys | `findPatchables`, names, lookups | type filter |
| type filter, `type_filter.cj` | the expression built so far, `foundAsterisk` | `formRegex`, `matchesFilter` | `std.regex` |
| entry point, `entry_point.cj` | none; the reader's `inHotfix`, `inQuote` | `run`, the `cjpm.toml` reader | all of the plugin |
| stub patcher, `patcher_stub.cj` | stub map | enable every flag, for the repository's tests | guards |
| FlatBuffers, `patch-gen/libs` | builder: buffer, scratch pad, string pool, nesting; verifier: depth and table count; memory blocks and their owners | build, finish, release, swap, move, read, verify | |
| build and test scripts | | | not part of the logic |

The tools are sequential programs; nothing runs concurrently and nothing is
persisted but their output. What makes them hard is the *order of edits* on one
shared package (a body is read, moved, destroyed, its function marked and unmarked by
phases that rely on each other), *graph algorithms* over recursive code (the
depth-first search, the comparison of cyclic bodies), *agreement of two programs* on
names and shapes, *partial failure* (any of some twenty checks ends the run), and, in
the library, *memory that changes owners* and offsets that must survive its growth.
Concurrency comes in with the generated code, which runs in the patched program while
its threads call what is being exchanged.

What makes each part correct:

* patch generation: the patch replaces exactly the changed functions; whatever a moved
  body needs and the base does not offer is in the patch with its code; a moved body
  computes what it did; no step destroys code that is still needed; nothing left in the
  patch refers to a flag or method that is gone; it is refused exactly when it could
  not be applied; it ends.
* code comparison: unchanged code is equal, changed code is different, it ends;
  functions pair across versions as their generated names say.
* guards: an instrumented function behaves like the original while its flag is off;
  removing the guard gives the original back; no call ever reaches the throwing branch
  once the initialiser ran; all changed functions are exchanged at once, before any
  code that may call them.
* selection and filter: what the author wrote is what is guarded, no plugin-made
  function is selected, each function has its own flag.
* FlatBuffers: what was given is read back, what is finished verifies, what verifies
  can be read, and every block of memory has one owner.

## Modules

| module | models | composed with |
|---|---|---|
| `PatchGen` | `PatchGen.cpp`: `createPatch` with marks, search and edits | `MCPatchGen`, `PatchGenProofs` |
| `PatchBody`, `MovedBodies` | `genPatches` on one body: clones, operands, receiver, return value, this-types | `MCGuardChecks`, `PatchBodyProofs` |
| `FuncCodeEquality` | `FuncCodeEquality` of `Equality.cpp` | `MCFuncCodeEquality`, `FuncCodeEqualityProofs` |
| `GuardChecks` | guard insertion of `patcher.cj`, `removeGuardChecks` of `PatchGen.cpp`, calls through guards | `MCGuardChecks`, `GuardChecksProofs` |
| `Replaceable` | *abstract*: what the header of `patcher.cj` promises of one function | implemented by `GuardChecks` |
| `GuardRuntime` | both package inits, the guard variables' initialiser and threads in a starting program | `MCGuardRuntime`, `GuardRuntimeProofs` |
| `HotSwap` | *abstract*: all changed functions are exchanged in one step | implemented by `GuardRuntime` |
| `CjNames`, `CppNames` | the names both programs generate, written down twice as in the code, over any naming of types; `Tokens` has what they share, `SharedNames` puts them side by side | `NamePairs`, `Plugin`, `Handover` |
| `TypeNames` | the naming of types of `PatchGen.h`, recursive over types | `Names`, `MCEntryPoint` |
| `NamePairs` | a pair of functions of one package under both programs' names | `Names`, `PluginProofs` |
| `Identity` | the equality and hash functions of `Equality.cpp` on types, definitions, functions, variables | `Names` |
| `Names` | the same pair under both versions' identities, with `TypeNames` | `MCNames` |
| `TomlFilter` | the reader of `cjpm.toml` | `EntryPoint` |
| `TypeFilter` | globs to one regular expression | `EntryPoint`, `MCTypeFilter` |
| `Plugin` | `EntryPoint.run`: lookups, package init guards, `findPatchables`, `patch`, stub patcher | `Handover` |
| `Handover` | `Plugin` followed by the lookups of patch-gen in what it made | `EntryPoint` |
| `EntryPoint` | one compilation from `cjpm.toml` to patch-gen's lookups | `MCEntryPoint`, `PluginProofs`, `SelectionProofs` |
| `WireFormat` | scalars, tables, strings, vectors in a buffer and their readers | the next three |
| `FlatBufferBuilder` | `flatbuffer_builder.h`, the scheme of the generated builders | `FlatBuffers` |
| `FlatBufferVerifier` | `verifier.h` and the generated `Verify` functions | `FlatBuffers` |
| `ReflectionSchema` | the tables of `reflection_generated.h` | `MCFlatBuffers` |
| `FlatBuffers` | builder, readers and verifier together | `MCFlatBuffers` |
| `VectorDownward` | `vector_downward.h` and the allocators | `BufferOwnership` |
| `BufferOwnership` | builders, `DetachedBuffer`, `grpc.h` messages and the memory they own | `MCFlatBuffers`, `BufferOwnershipProofs` |
| `TwoStacks` | *abstract*: two stacks per builder, data at rest in holders | implemented by `BufferOwnership` |

### PatchGen and PatchBody

One behaviour of `PatchGen` is one run of patch-gen on one pair of versions. The pair
is a record chosen by `Init` from the constant `Pair`; `PackagePair` gives its fields
and `WellFormed` what the plugin and the compiler guarantee (a guarded function has a
body, a flag and the guard variable; package inits are never patchable or internal).
A body is reduced to three values, `none`, `plain` and `guarded`, and the set of
functions it applies.

| phases | code | actions |
|---|---|---|
| construct | constructor | `Construct` |
| mark ... markVars | `mark`, `markFunc`, `markFuncsAsNonPatchable` | `MarkPackage`, `MarkTypes`, `MarkFunc` (one iteration, any order: the loop is over the package's list), `MarkFuncsEnd`, `MarkFuncsAsNonPatchable`, `MarkVars` |
| reach | the recursive search | `ReachRoot`, `ReachApply` (one call expression, with the recursive call), `ReachReturn`, `ReachEnd`; `stack` is the recursion |
| unguard | `makeNewPatchableFuncsAsNonPatchable` | `MakeNonPatchable` (one iteration of an unordered set), `UnguardEnd` |
| genPatches | `genPatches`, `removeGuardChecks`, `enableGuardVarFlag`, `instantiatePatchClass` | `PatchInit`, `PatchFunc`, `GenPatchesEnd` |
| importFuncs ... updateInits | the five last edits | `ImportFuncs`, `ImportVars`, `ImportTypes`, `RemoveRedundant`, `UpdatePackageInits` |
| done, error | written, or refused by `PatchGenException` | `Terminated` |

The marks have the names of `MarkContext`'s fields. `gvi` is the list of the stores in
the guard variables' initialiser. Where functions stay listed but are marked
`UNREACHABLE`, `guardMethod` and `patchMethod` record them as gone.

What `PatchFunc` does to one body is `PatchBody`: `ReplaceBody` remembers the place of
the return value and moves the blocks, `VisitExpression` is one callback of the
compiler's visitor (clone, replace, redirect operands), then `AllocateStruct` or
`SetReturnValue`, and `BindThisTypes`. The order in which the visitor comes to the
expressions is the compiler's; a body is any sequence of expressions, so operands may
refer to earlier and to later ones.

### FuncCodeEquality, Identity

One behaviour of `FuncCodeEquality` is one call of `areEqual` on two bodies. All
conjunctions of the C++ are cut short by the first difference, so the recursion is a
stack `todo` of pairs of values; a step drops the top pair (both null, or the first
value visited), ends with "different", or records the pair and pushes the pairs it
leads to. Expressions are not remembered by the code and belong to the value they are
met in. `what` stands for everything that is compared in place, `call` for the
instantiation of direct calls, which the code means to compare and does not. `skipped`
is a history variable.

`Identity` has the functions by which counterparts are looked up in hash sets, as
operators over the terms of `TypeNames`. The comparison of functions and definitions
answers "equal", "different" or "crash": a function outside types has a null
definition, which equals itself because the pointers are compared first, and which is
dereferenced beside any other. Identifiers are made by the compiler; the model takes
them both ways, as a repetition of the source name and with the type in it
(`Identifier`).

### GuardChecks

One behaviour is the life of one patchable body: cjc-plugin guards it, or refuses it;
then it is called any number of times in the running program, and as long as nothing
ran it patch-gen may take the guard away again. A body is a graph of blocks, a block
its expressions and the successors of its terminator. Original expressions are opaque
(`Op`); of the added ones those are kept that decide where control and the instance go.

| stage | code | actions |
|---|---|---|
| source | `replaceBodyWithThrow` (under `HOTFIX_GEN_THROW_STUBS`); `genGuardChecks`, `genPackageInitGuardChecks` and their exceptions | `ReplaceBodyWithThrow`, `GenGuardChecks`, `GenPackageInitGuardChecks`, `Refuse` |
| guarded | the generated code | `Call`, and one action for each way an added block ends (`TestFlag`, `TestGuardVar`, `UseInstance`, ...); `RunOwnBlock` for a block of the original code, with its branches left open |
| removed, unrecognised | `removeGuardChecks` of `PatchGen.cpp` | `RemoveGuardChecks` |

`plain` is a history variable, the body that was guarded. The flag and the guard
variable are arbitrary when a call starts: every combination that a loaded patch, a
half-loaded one or none could leave. `GuardChecks` implements `Replaceable` under the
mapping `Seen`: an added block is where the call is being routed, the saved entry of a
package init is its entry.

### GuardRuntime

The package inits of base and patch are not postulated: they are computed by the edits
of `patcher.cj` (guard, call of the initialiser after `Preinitialize` or where the code
puts it without one) and of `updatePackageInits`, and then run operation by operation.
Actions are the operations (`StoreApplied`, `ApplyGuardVarsInitializer`, `Store`,
`Initialize`, ...), the two reads of a guard by each thread (`TestFlag`,
`TestGuardVar`), and `Call`. `schedule` is the order in which the loader, which is not
in the repository, calls package inits. The abstract `HotSwap` has a single step that
exchanges all changed functions.

### From cjpm.toml to patch-gen

`Plugin` has one action for each pass of `EntryPoint.run` and for each iteration of its
loops: lookups that fail, the guards of package inits, `findPatchables` with every skip,
`patch` with what it adds the first time and for each function, the stub patcher.
`TomlFilter` reads lines of lexemes; the text is derived from what the author means, so
that the reader can be compared with it. `TypeFilter` translates symbol by symbol.
`EntryPoint` runs them in the order of the code, and `Handover` lets patch-gen look for
what was made, by names it makes itself: it discharges what `PatchGen` assumes of its
input as `WellFormed`.

### FlatBuffers

A buffer is a sequence of bytes, an object is named by its offset from the end. The
builder's buffer and scratch pad are the record `fbb`; its actions are the public
operations (strings, shared strings, vectors, sorted vectors, tables field by field,
tables at once (`CreateX`) and with their strings and vectors given directly
(`CreateXDirect`), `EndTable` with the comparison of vtables, `Finish` with and without prefix and
identifier, in-place mutation, `Clear` and reuse), each with the assertions that end
the program. `objects` is a history variable: what the program gave. Readers and
verifier are operators over bytes. The generated code of `reflection_generated.h` is
the same few schemes for every table, filled in with its fields: `ReflectionSchema` has
the fields, and the schemes are operators of the builder, of `WireFormat` and of the
verifier that take them.

That the two stacks of the record are what the memory below shows is `VectorDownward`
(one block, growing from both ends, reallocated by `Allocator::reallocate_downward`)
and `BufferOwnership` (who owns the block while builders are swapped, moved, released
and destroyed, with owned and default allocators and with gRPC slices). A byte there is
its own position, so a byte that is lost or misplaced does not go unnoticed.

## Runs

| run | question | bounds |
|---|---|---|
| `patchgen` | are the edits right, is reachable code kept, is a pair refused exactly when the patch could not be applied? | two functions of any kinds besides the inits with all calls between them; three functions with every call graph and every choice of changed, internal, lambda; one defect, or none, at each place that is checked |
| `patchgen_external` | *violation*: code reached through a new external function | three functions |
| `patchgen_lambda` | *violation*: a changed patchable lambda | two functions |
| `equality_graphs` | is unchanged code accepted, when may changed code be, does it end? | a block and two values, up to two operands, two labels, cycles |
| `equality_shared` | *violation*: a changed second use | one block, two operands |
| `equality_calls` | *violation*: changed type arguments of a direct call | one block, two operands |
| `guard_checks` | is a guarded body the original while the flag is off, and can patch-gen give it back? does a moved body compute what it did? | all bodies of three blocks, up to two successors; moved bodies of three expressions, two parameters, one parameter of a lambda |
| `guard_runtime` | are functions exchanged at once, before they are called, are variables initialised once? | two functions, two threads, up to two initialisers, up to three package inits called |
| `entry_point` | is what the author wrote what is guarded, and does patch-gen find it? | see below |
| `type_filter_stars` | *violation*: two single stars in a glob | globs and names of five symbols |
| `names` | do both programs make the same names, are names apart, do versions pair as their names say? | all pairs of functions with up to two parameters over types nested twice |
| `flatbuffers` | is what was given read back, does it verify, is memory owned once? | see below |

Two functions are enough for the edits, which treat every function on its own and
interact only through the marks of a caller and a callee; three functions are the
least for a chain, a cycle beside a root and a callee with two callers. In a body, two
values beside the root give every way of sharing, crossing and looping that a stack of
pairs tells apart. The guards touch the entry, its successor and the blocks they add,
and leave every other block alone; three blocks give an entry, an own first block and
a rest, with all loops among them. Three expressions of a moved body give an operand
that comes before, one that comes after, and one in another block than the entry. Two
threads are the least for a race between the stores of the initialiser and the reads
of a guard; package inits are called three times in `<<"patch", "base", "base">>` and
its like, so that each image's repetition occurs.

`entry_point` varies one part at a time: documents of up to two tables with up to two
entries of up to two strings in every layout; all globs of up to five symbols over
three, and pairs of up to two; pairs of functions of every kind with every way of being
selected; each failing lookup; every stub map; three functions of overlapping names.

`flatbuffers` builds one root of every table type of the reflection schema and one
`Shape` with the kinds of fields that schema lacks. A program is a sequence of up to
seven sets of objects from which one is made each (`MCScript`); the root gets what is
required and every further field alone, and all together; strings have up to two
characters, one is empty, so sharing and equal prefixes occur. `MaxFields = 2` bounds
the fields set individually in an open table, `MaxDepth = 4` and `MaxTables = 10` are
the verifier's limits on nesting and on tables, `MaxBufferSize = 1000` stands for
the limit of 2 GB; values stay below 2^23. Beside it run the programs of
`BufferOwnership`: five casts of at most two builders and two holders, `InitialSize =
1`, `MinAlign = 2`, `MaxSize = 2` bytes and `MaxNotes = 1` entry of the scratch pad,
`MaxBlocks = 2` blocks: the smallest at which a block must grow with both ends in use.

The proofs remove the bounds for the properties they cover.

### What the properties say

`TypeOK`, in compositions `PartsTypeOK`, is the type invariant. The others, by run:

* `patchgen`. `FlagsMatchPatches`: enabled flags, moved bodies and changed functions are
  the same, each flag is one the base has and tests, and the initialiser stores `None`,
  flags, instance in this order. `NoBodilessFunction`: no function stays in the patch as
  its own code without a body. `GuardsResolve`: what stays guarded finds its flag and
  its methods. `ReachableCodeKept`: the least set closed under internal calls, defined
  without reference to the search, is in the patch with its code.
  `RefusedIffCannotApply`: both directions. `NewCodeNotLost` (action property): a body is
  dropped only if the base has the function, a changed one only when it was moved.
  `Termination`: patch-gen ends, and no function is searched below itself, so that the
  recursion is at most one deeper than there are internal functions.
* `equality_graphs`. `NeverRejectsSame`, `EqualUnlessRepaired`: the comparison against
  bisimilarity, the definition of "the same code" for graphs that may loop.
  `EqualOnlyIfSame`, which the code does not meet, is the unconditional form.
* `guard_checks`. `RoundTrip`: insertion followed by removal gives back the original
  expressions and edges, with the entry merged into its successor (functions) or renamed
  (package inits). `NoDanglingBranch`: no edge leads to a block that was removed, if
  nothing else leads to the merged blocks (`EntryIsLinear`; the plugin checks this for
  package inits and takes it for granted of functions). `InvokedOnInstance`: no guard
  method is invoked on an empty option. `BehavesAsPromised`: the refinement of
  `Replaceable`. `MovedFaithfully`: every operand of a moved body is the clone of what
  it was or the parameter that stands for it, the clone of the return value is returned.
* `guard_runtime`. `InitialisersArePatched`: no call ends in "should not reach here", and
  code that runs during initialisation is already the patch's, if the compiler marks
  where initialisers begin. `InitialisedOnce` (temporal): base and patch together run each
  initialiser exactly once. `ExchangesAtOnce`: the refinement of `HotSwap`.
* `entry_point`. `ReadsTheDirective`, `SelectsWhatIsMeant`: reader and expression against
  a declarative meaning of documents and of globs. `GuardedAsMeant`: end to end, of the
  functions the author means exactly the first of each sort key is guarded, and no other
  function. That the others with the same key stay unguarded is an exception the property
  makes, not a promise the author was given (see the disagreements). `GuardsComplete`: what a guard relies on
  is there, and the stub patcher's initialiser is ordered. `RefusesWithReason`.
  `OwnPartsFound`: what patch-gen assumes of its input.
* `names`. `SameNames`, `NamesFollowSortKeys`. `PairsAreNamedAlike`: two functions are
  equal exactly if they have the same names up to the sizes of VArrays; equality is
  symmetric and equals share a hash; and the comparison crashes exactly if identifiers
  do not tell the type and a function outside types is compared with a function of a type
  that agrees with it in all else.
* `flatbuffers`. `ReadBack`, `FinishedVerifies`, `AcceptedIsReadable` (a buffer that lost
  its end is refused, or all that a reader can reach is still there), `VTablesShared`,
  `LookupFinds` (the search agrees with the sort; keys hold no zero byte in the bounds), `OneOwner`, `BehavesAsStacks` (the
  refinement of `TwoStacks`).

Deadlock is checked for `patchgen`, where `PatchGen` stutters explicitly at its end, and
for `guard_runtime`. The other machines are programs that stop at their answer.

### Fairness

* `PatchGen`, `FuncCodeEquality` have weak fairness of the next step, for `Termination`:
  single-threaded loops that nothing blocks.
* `GuardChecks`: only `Continue` is fair: a call, once made, executes its next block.
  Neither tool nor any caller has to act. It gives `Replaceable` that a routed call
  arrives (`WF(Route)`); a call in its own code may loop.
* `GuardRuntime`: weak fairness of the starting thread, whose package inits are
  straight-line code without locks, and of the two reads of each thread's guard, which
  no lock precedes either. Threads need not call anything.

## Disagreements found

Shown by a run that violates a property:

1. `patchgen_external`: the comment at `PatchGen.cpp:275` promises to save the internal
   code reachable from patchables; the search does not enter new functions of external
   linkage (line 289), so an internal function that only they apply is imported.
2. `patchgen_lambda`: the comment at `PatchGen.cpp:296` rules out an un-imported
   function without a body; the branch for lambdas (line 291) lacks the check the
   comment explains.
3. `equality_shared`: a value of the first version that was visited before equals
   anything (`Equality.cpp:249`), so `foo(); foo()` equals `foo(); bar()`; a
   non-patchable function may change unnoticed, a changed patchable one may be left
   out of the patch.
4. `equality_calls`: `Equality.cpp:591` compares the left call with itself.
5. `type_filter_stars`: `foundAsterisk` (`type_filter.cj:45`) stays set between two single
   stars, so the second one matches across segments; `type_filter_test.cj:22` says a
   single star rejects that.

Met while modelling, and left out of the properties by a condition that names them:

* The repository's `README.md:33` says that `HOTFIX_PATCH_ALL` selects all eligible
  functions when there is no filter; `findPatchables` takes one function of each sort key
  (`patchable_finder.cj:98`), and private functions of two files with the same name and
  parameters, or overloads that differ in type arguments only, have the same key. The
  others stay unguarded without a message, whatever selects them; `GuardedAsMeant` holds
  with this exception only.
* A list of globs that spans several lines of `cjpm.toml` is read as empty, which selects
  every function (`entry_point.cj:113`); so does a `cjpm.toml` that cannot be read.
  `SingleLine` is the layout for which the reader is right.
* The flag of a global function `packageInit()` has the name of the package inits' flag
  (`plugin_context.cj:35`, `PatchGen.h:293`).
* Without a `Preinitialize` intrinsic, the call of the guard variables' initialiser is put
  after the other initialisers (`patcher.cj:363`): they run unpatched, and a thread they
  start may meet a flag without an instance. `Marked` is the condition.
* Types are compared without the sizes of VArrays (`Equality.cpp:142`); the generated
  names have them.
* Definitions are compared without a test for null (`Equality.cpp:687`; their hash has
  one), although functions outside types have none (`Equality.cpp:714`). A global function
  and a static method of the same identifier, name and type would be a null dereference
  if one lookup met both. Nothing in the repository says that identifiers tell the type,
  but patch-gen takes them for unique elsewhere; `PairsAreNamedAlike` names the case.
* A field set again to its default passes the assertion against setting it twice, and
  keeps the first value (`flatbuffer_builder.h:447`). `ReadBack` takes the first value as
  meant.
* Vectors of tables are sorted by keys with their lengths, and searched by keys that end
  at a zero byte (`vector.h:281`): keys that differ behind one are the same to the search.
  The keys of the run hold none.
* The comparator of the string pool points to the buffer of the builder that made it;
  `Swap` and the moves exchange pools and leave the pointers (`flatbuffer_builder.h:1331`).
* Primary class constructors get no unit to return; the kind asked for beside
  `CLASS_CONSTRUCTOR` is a struct's, which does not come there (`PatchGen.cpp:880`).
* A terminator's result that is used by an expression visited before the terminator keeps
  the old value (`PatchGen.cpp:850`); and an operand that is the last parameter of the
  patch method would be replaced by the parameter past the end (line 846). Both need
  bodies that, as far as the repository shows, the compiler does not make.

## Proofs

tlapm checks, for all values of the constants (any set of functions, any family of
well-formed pairs; any graphs of values or blocks; bodies of any length):

* `TypeCorrect`: `Spec => []TypeOK` of `PatchGen`.
* `SearchKeepsReachableCode`: `Spec => []ReachableCodeKept`. The property speaks of the
  end only, so it is carried by the invariant `SearchInv`: *SearchPhases* (what holds
  in which phase), *ClosedUpToStack* (every internal callee of a searched function is
  visited, or still in the frame of that function on the stack, and roots not yet
  searched come later in the list), *VisitedUnmarked* and *LambdasMarked* (a visited
  function carries no mark that removes it), *EditsMarked* (the edits touch only what
  is marked). At the end of the search the visited set is closed, so it contains the
  least closed set; the edits then keep what is unmarked.
* `RecursionStaysBounded`: `Spec => []RecursionBounded`, the safety part of `Termination`, by `FramesVisited`: the frames above
  the root's are of visited internal functions, one frame for each, because a frame is
  pushed only for a callee that was not visited before.
* `FlagsMatchChanges`, `RefusedExactly`, `GuardsStayResolved`, `NoNewCodeLost`:
  `FlagsMatchPatches`, `RefusedIffCannotApply`, `GuardsResolve` and the action property `NewCodeNotLost` of `PatchGen`. They rest on one invariant,
  `EditsInv`. Its half about marks says what has been checked when a phase is reached
  (*ChecksPassed*; *Sound* of every function the loop has come to), that `patchables` has
  the changed functions come to, each once (*ListedOnce*, *ChangedListed*), and what may
  be imported (*ImportsKnown*). Its half about edits says which bodies have moved
  (*BodiesMoved*: those before `next`), that what the base has keeps its flag, guard and
  method (*GuardsKept*), and the shape of the initialiser (*StoresInOrder*). Together
  they show that the error branches of `genPatches` are never taken
  (`PatchFuncApplies`), which is why every refusal has a reason.
* `BodilessAreReachedLambdas`, `NoBodilessUnlessLambdaChanged`: the only functions that a
  finished patch has without a body are changed lambdas that the search came to, so
  `NoBodilessFunction` holds of every pair in which no lambda was changed (the run
  `patchgen_lambda` shows a pair in which one was). The invariant, `BodilessInv`, is that a
  changed function that has been listed is marked for import unless it is a lambda, that a
  lambda is deleted unless it was visited, and that the edits carry out these marks.
* `EqualityTypeCorrect`, with "no value is compared twice".
* `UnchangedCodeAccepted`: `Spec => []NeverRejectsSame`, by `TodoRelated`: a relation
  that shows the bodies to be the same holds of every pair on the stack.
* `EqualMeansSame`: `Spec => []EqualUnlessRepaired`, by `MatchedClosed`: what a
  compared pair leads to is compared, dropped or on the stack; with an empty stack and
  nothing dropped anew, the compared pairs are the bisimulation.
* `RoundTripTheorem`, `GuardsRecognisedTheorem`, `NoDanglingBranchTheorem`,
  `InvokedOnInstanceTheorem`: the invariants of `GuardChecks` for bodies of any size.
  `BodyInv` says that the body is, stage by stage, the original, its guarded form or
  what is left after removal; the round trip is then a fact about three operators
  (`FunctionRoundTrip`, `InitRoundTrip`). `CallInv` says in which blocks which copies
  of the guard variable are present.
* `GuardTypes`: `Spec => []TypeOK` of `GuardChecks`, beside `BodyInv`: which blocks and
  expressions a body can have at all, stage by stage.
* `BehavesAsPromisedTheorem`: `Spec => Promise!Spec`, the safety part of the refinement.
  Every step of `GuardChecks` is a step of `Replaceable` or leaves `Seen` unchanged
  (`PromiseStep`), from `BodyInv` and `CallInv`, which locate the call
  (`WhereCallIs`).
* `BodyMovedFaithfully`: `Spec => []MovedFaithfully` of `PatchBody`. The property speaks
  of the end; the invariant says of every operand, at every step, what has become of it
  (`ImageAt`): results of ordinary expressions are replaced wherever they are used when
  their expression is visited, those of terminators and parameters when the user is.
  One visit takes each operand from its image to the next (`VisitOperand`).

* `RuntimeTypes`, `InitialisersArePatchedAlways`: `TypeOK` and `InitialisersArePatched` of
  `GuardRuntime`, for every program, any number of functions and threads, and package
  inits called in any order and as often as one likes. The package inits are computed by
  the edits of both tools, so the first part of the proof says what the edits make of
  any initialiser code (*Shape*: which blocks there are, at which position of the
  initialisers' block the flag is stored, the guard variables' initialiser is applied
  and the initialisers run). The invariant `RuntimeInv` then follows the execution along
  this shape: the image called first executes the block, and the shared flag says that it
  has begun (*FirstRuns*); what has run is a function of the position (*RunsCounted*), so
  are the stores that are left and the flags (*StoresInOrder*: `None`, flags, instance);
  calls come after the stores if the begin of the initialisers is marked
  (*CallsComeLater*).
* `InitialisersRunOnce`: the safety part of `InitialisedOnce`; no initialiser runs twice,
  and each has run when all package inits have been called.
* `ExchangesAtOnceSafely`: the safety part of `ExchangesAtOnce`; a step of `GuardRuntime` is
  a step of `HotSwap` or a stutter. The exchange is the store of the instance, the last of
  the initialiser's stores: before it no flag, after it every flag leads to new code
  (`AllInForce`).
* `SameNamesAlways`: both programs make the same names, for any functions and any naming
  of types. `CjNames` puts suffixes together, `CppNames` spells them out; the lemmas compare
  them one suffix, one part and one kind of name at a time.
* `PackageInClosedForm`: `Spec => []PluginInv` of `EntryPoint`, for every package, filter,
  stub map and set of failing lookups. The properties speak of the end, but the plugin
  edits lists in place for as many functions as were selected, so the invariant says what
  is at each position after `Count` of them: of the functions the package's own, seven
  for the package inits, the initialiser, methods and twins, and from `Base` on the
  methods of the patch class; of the globals a flag per patched function behind the
  first three; of the classes a method per patched function, in order; of the
  initialiser `None` and, in a stub test, the instance and then flags. *CollectedOK* says that selected functions
  differ in their sort keys. From it follow `PluginRefusesWithReason` and
  `GuardsAlwaysComplete` (each guarded function has a flag and a method of its own).
* `OwnPartsAlwaysFound`: patch-gen's lookups find these positions and no other
  (`LookupsOfAFinishedPackage` carries the answers), since the names at all other
  positions differ: the compiler's names have no `$`, and names of different sort keys
  are apart. The first position with a name exists because a nonempty set of positions
  has a least one (`SmallestIsThere`, by the finiteness of what is below a member).
* `DirectiveAlwaysRead`: `Spec => []ReadsTheDirective`, for documents of any number of
  tables, entries and strings. It needs induction over the document, which the provers
  have no theorem for that they can use; but "holds of zero and of the successor" can be
  said of a set of numbers (`ByInduction`), and its least non-member is where it would
  fail. So `FlattenMore` says what one more part adds to a concatenation, `ReadsConcat`
  that lines read in turn are read together, and `ReadsEntry`, `ReadsTable`,
  `ReadsDocument` what the lines of each part make of the result. `Reads` is about a list of
  lines alone: whether the reader is in the hotfix table, and what it has, before each
  of them. The reader itself, symbol by symbol, is then at a place in this list
  (`ReaderAt`) and, within a directive, at a place among the quotes of the line
  (`ScanAt`: after as many closed strings as it has appended, and in the next one with
  as much of it as it has collected, or outside).
* `SelectsAlwaysWhatIsMeant`: `Spec => []SelectsWhatIsMeant`, for any list of globs that the
  reader may have read and every name. The expression is written symbol by symbol and
  read back by a matcher that splits it at its bars, so the invariant, `GlobInv`, says
  where the tokens of each glob lie: in the part that is written while it is built
  (`Building`: also whether the last star was the first of a pair, which is what the
  variable `foundAsterisk` stands for), and between the anchors at the end (`Laid`; one
  glob has no parentheses). Then the alternatives are one per glob (`AlternativeOfOne`,
  `AlternativeOfMany`, with `WhereTokens`: no other symbol is a bar). What is left speaks of
  one glob and one alternative, `AlternativeIsMeant`, and of two recursions: the search for
  the expression and the meaning of the glob. Both are sets of pairs of a place in the
  pattern and a place in the name, built row by row (`SearchIs`, `GlobMatchesIs`); the rows
  of the two are compared from the last to the first (`SameOne`, `SameTwo`). With one run
  of stars in a glob its star or the first of its pair comes to the expression as "no
  dots" (`OneRun`), and the rows are equal. With more, `foundAsterisk` may still be set
  from an earlier star, the tokens of a star or a pair are the other ones, and only one
  inclusion holds, if stars are whole segments (`WithinTwo`, `AlternativeFindsMeant`): the
  two parts of the property.
* `GuardedAlwaysAsMeant`: `Spec => []GuardedAsMeant`, for every package, document and list of
  globs, from the directive to the guards, with the exception the property makes for
  functions with the sort key of an earlier candidate. It joins the invariants above (`PluginInv`,
  `ReadingInv`, `GlobInv`) by three more. `FilterOK`: once the filter is made, the finder is
  told of the names of every function and class of the package what the expression
  tells, and the expression is of the result of a finished reading. `KeptOK`: what the
  plugin does to the package's functions leaves their attributes and annotations as
  the compiler handed them over, and what comes after them is the plugin's own (`Grown`
  says this of one change, and of two in turn). `TakenOK`: the sort keys seen so far are
  those of the candidates so far, and a function is collected exactly if it is the
  first candidate with its key (`FirstOfKey`). That the plugin's own functions are never
  candidates needs the generated names: `PluginMade` tells by the name, the property by
  who made the function (`OwnNotMade`).
* `PartsTyped`: `Spec => []PartsTypeOK`, the type invariant of the reader, the expression and
  the package. Most of it follows from `PluginInv`, `ReadingInv` and `GlobInv` (the flags
  that guards test are globals, the stores are of three kinds). What does not is
  inductive by itself: `TypesOK` says that functions and globals are typed one by one, that
  while functions are patched each abstract guard method is one of the functions
  (`MethodsMade`: the methods of a class are names of functions, from which the methods of
  the patch class are made), and that a plugin that fails leaves the parts fitting, since
  it fails before it changes anything in that step. `FilterTypes` is the same for the
  expression where it is not being built.
* `OneOwnerAlways`, `VectorsAlways`: `OneOwner` and `Vectors` of `BufferOwnership`, for any
  number of builders, message builders and holders, and buffers of any size. `OneOwner`
  counts the owners of a block; what is inductive says who they are. *Layout*: where the
  pointers of a vector are. *PlainOwn*: a builder's block came from the builder's
  allocator, and nobody else points to it. *MsgOwn*, *SlicesOwn*: a message builder's
  block is its slice, and slices are counted. *HeldOwn*: what a holder has, and that a
  released block is its own. *NoLeak*: every block is reached from one of these.
  *ArenaOwned*: who may use the allocator that was given away, and who owns it. The
  operations are compositions of few changes (a block grows, is given up, swapped,
  adopted as a slice, handed to a holder, shared, dropped), so there is one lemma for what
  each change leaves true of owners and one for what each operation does to the record.
  Two temporaries (`Temp`, `TempMessage`) exist only inside an operation, which is why
  `MemInv` speaks of them and `Inv` says that they are gone between steps.
* `BehavesAsStacksAlways`: `BufferOwnership` implements `TwoStacks`, for the same variables and
  sizes; a step is one of the stacks' steps or a stutter. The refinement mapping reads
  what is between a vector's pointers and what a holder points to, so ownership alone is
  not enough: `FullInv` adds to `Inv` that no two objects that may write share a block
  (*Apart*), that a block lent to a message belongs to a finished builder, which writes no
  more (*LentFinished*), and that what a holder has lies inside its block (*HeldSpan*). One
  group of lemmas says what a change of memory shows (a grown block what it showed
  before, a write only to its owner, `ElsewhereSeen`), the next what each operation does:
  the `Shows` lemmas, one per action. Growth copies the data and the scratch pad to the
  two ends of a larger block (`MemcpyDownward`), which is where a byte could be lost.

Assumptions: `FuncAssumption` and `PairAssumption` (the constants are of their types and
the pairs well-formed), `NullAssumption` and `CodeAssumption`, `LabelAssumption` (added
blocks and expressions are new), `SourceAssumption` (bodies are graphs whose edges stay
inside, and no entry is a loop by itself), `PatchableAssumption` (operands are results
of expressions that have one, the return value is allocated in the entry, constructors
of classes return nothing), `ThreadAssumption` and `ProgramAssumption` (the main thread
is one, programs are of their type), `PackageAssumption` and `NoneAssumption` (the
package's name is a sequence, no position is `None`) and `EntryPointAssumption`. The
last one says that what is between quotes is no mark, header or key, that documents
consist of tables, that the names asked for are sequences, that the packages a
compilation starts from have names that are sequences and not generated, and attributes
that are known (`IsSource`), and that functions with different sort keys have flags and
methods of their own, apart from the guard variables (`NamesApart`). That is true of the
names of types that the library makes, which are defined by recursion over types;
`NamesFollowSortKeys` checks it on all bounded functions, and every run evaluates it on
its compilations. `ParametersAssumption` of `BufferOwnership` says that variables and
allocators are different things, that a block has an address, and that sizes and bounds
are numbers.

Only model-checked:

* Liveness: both `Termination`s, that each initialiser runs in the end (`InitialisedOnce`),
  the fairness of `BehavesAsPromised` and `ExchangesAtOnce`. It is out of the prover's reach.
* What depends on recursion over types, `NamesFollowSortKeys` and `PairsAreNamedAlike`, and the
  FlatBuffers wire format, whose verifier is a RECURSIVE operator.
* `MovedFaithfully` as `MCGuardChecks` composes it; `BodyMovedFaithfully` is the theorem about
  the same property of `PatchBody`.

## Not modelled, and why

* The loader of patches and the CHIR library are not in the repository. CHIR is modelled
  from its use: operands of expressions, linkage, attributes, the order of a visitor
  left open.
* Attributes of functions other than those that steer control; debug information.
* patch-gen: a function passed as a value is no call in the model, as it is none for the
  search (`PatchGen.cpp:286`); whether a lambda's body is among its operands
  (`Equality.cpp:629`) is the library's business. A clone of a clone, which lambdas inside
  lambdas lead to, is one clone in `PatchBody`.
* The package init's own guard is never turned on by anything in the repository; it is
  on in `GuardChecks`, never in `GuardRuntime`.
* Stub patcher: the print it adds to a package init (`preparePackageInitStub`) and the
  reading of stub map files.
* FlatBuffers: `FlatBufferBuilder64` and 64-bit offsets, building on after `Finish`,
  `ForceVectorAlignment`, uninitialised vectors, the inherited `Release` of a
  `MessageBuilder`, a message that is written through while its builder builds on, the
  assertion against `max_size_`, the gRPC transport. Buffers are corrupted by
  truncation only. FlexBuffers, mini-reflection, the parser and the code generators
  (`idl.h`, `flatc.h`, `registry.h`) and file utilities are vendored and not called by
  patch-gen.
* Command line: files and (de)serialisation are I/O; build and test scripts have no logic
  of the system.
* The programs of `BufferOwnership` keep to the rules of the interface: they read and
  release finished buffers only, move only builders with the default allocator into
  message builders, free raw memory while its allocator lives, and clear no builder
  whose message they hold.
* Lines of `cjpm.toml` come as lexemes; which bytes make a lexeme is left to the trimming
  and splitting of the standard library.

## Plan

Done: everything above. What would add most, in this order:

1. A model of the stub map's reader and of `preparePackageInitStub`.
2. `FlatBufferBuilder64`.
