# Verification of maps-ir

TLA+ models of maps-ir, the TLC configurations that check them on small
instances, and proofs for every value of their constants. maps-ir takes an
execution plan (JSON: which tiles of a mesh compute which boxes of which tensors,
and which boxes travel between them), imports it as a module of the MAPS dialect,
and generates from that module a C application for the MAGIA mesh, or lowers it
to the D2M dialect. The models follow both ways: the first from the plan to the end
of `main` on every hart, the second from the analysis of the MAPS module to the
arguments of the function that is left.

Contents: the system, the modules, the runs, the proofs, the findings, what is
not modelled, the plan, and how to run it all.

## 1. The system

    execution plan --ExecutionPlanImporter--> MAPS module
    MAPS module --IRCollector + collectors--> application description
    description --Emitter--> texts --CodeGeneration--> directory + manifest
    directory --C compiler, MAGIA runtime--> runner on every hart
    MAPS module --MapsToD2M--> D2M module

| component | state it keeps | operations | hard behaviour | correct when |
|---|---|---|---|---|
| Execution plan importer (`ExecutionPlanImporter.cpp`) | none beyond the module it builds; a table of the value a tensor has on each tile | stores of initializers, receives, layers, sends of each stage, final inserts | two ends of one transfer are built in different places; a send without a value is skipped silently; sizes are cut by ceilings and differences | what is sent is received, outputs are placed where they belong |
| Application description (`ApplicationDescription.cpp/.h`) | tables of slices, subslices, receives, sends, reads, writes, operations, L2 buffers, one plan per tile; an L1 cursor per tile and an L2 cursor | `addSlice`, `allocateSliceInTileL1`, `getOrCreateL2Global`, `addRecv`, `addSend`, ... | indices point from table to table and addresses are copied when an entry is made | no region shares a byte with another, every index points to a row |
| IR collector and the transfer, slice, L2 and operation collectors (`IRCollector.cpp`, `collectors/`) | the description and `RunCollectionState` (aggregates, produced slices, aliases) | one handler per operation, in four walks: attributes, init stores, tile receives, run region | a handler relies on what an *earlier walk* recorded; a failure leaves a half-filled description | sends meet receives; operands are filled once; outputs are tiled; reads stay in their tensor |
| Emitter: layouts (`Emitter.cpp`) | shared payload rings per tile | `planGatheredFifoLayout`, sizes, offsets | sender and receiver print the layout separately, for two build variants | every payload byte has one writer |
| Emitter: runner (`emitApplicationRunner`) | program counter of every hart, FIFOs, data, tokens | what `main` does on each hart | harts run concurrently and are ordered by four barriers only; a hart may give up | nobody uses what is not ready; a failure is not reported as success; all return |
| Emitter: collectives | flag words and participants | numbering of flag words | prefix sums over the participants of the first operation found | words do not overlap |
| Application code generation (`CodeGeneration.cpp`, `maps-codegen.cpp`) | the output directory, the runtime input files | checks, directories, artifacts in order, digests, manifest last | a failure or kill between two files; a second run; a developer who edits | a manifest describes what is there; edits are never lost |
| MapsToD2M (`lib/Conversion/MapsToD2M`) | the tables of the analysis (senders, receivers, slots, placement); a worklist of tiles; the arguments of `@forward` | analysis and its refusals, passes over the tiles, end transfers, three rounds of ABI rewriting, clean-up | a tile that lacks an input is put off, half emitted; values found before the arguments are rewritten are used after it | no tile is lost and the passes end; tiles are lowered after those they read; uses keep their data |
| D2M compute emission (`ComputeEmitter.cpp`, `ComputeOpRegistry.cpp`) | for each channel its value, list of values, logical value and semaphore | lowering a send: waits, hoisting, parts of values, shards of sums, signals | everything is inserted in front of the tile, whose body is erased afterwards; two branches create a semaphore, one signals it | an operation reads what stands before it; channels carry their data; a wait is signalled |
| MAPS dialect, tools | none | declarations, options | - | - |

**Interaction.** Components call each other in one process and hand over tables:
no table is compared with another after the hand-over, so a wrong index or
address travels unseen to the mesh. In the conversion to D2M the tables hold
values of the module that the same pass rewrites and erases. Concurrency begins in the generated runner,
where harts share memory and meet at barriers. The file system is shared with the
developer and with earlier, perhaps interrupted, runs. The MAGIA runtime
(`maps_utils_v2.h`, `fsync`, `eu`) is not in the repository; it is modelled from
how the emitted code calls it.

The hazards (what is hard to test, at its line, with the property that would
catch it) are listed in `PROJECT.json`.

## 2. The modules

| module | models | kind |
|---|---|---|
| `RegionMap` | what memory planning promises: aligned regions, granted one at a time, apart, never moved | abstract specification |
| `ApplicationDescription` | tables, the two allocators, id tables | operators on a record `app` |
| `Collector` | `IRCollector.cpp` and `collectors/` | state machine |
| `ExecutionPlanImport` | `ExecutionPlanImporter.cpp` | pure operators, plan to program |
| `ApplicationProperties` | what emitter and runtime rely on; the refinement of `RegionMap` | properties |
| `EmittedLayout` | gathered FIFO layouts, payload offsets, FIFO sizes; extends `Collector` by one step | state machine |
| `Runner` | the emitted runner on all harts | state machine, fair |
| `CodeGeneration` | `generateMagiaApplication`, `main` of `maps-codegen`, the developer | state machine |
| `MapsProgram` | a MAPS module as the conversion sees it: `MapsProgramAnalysis.cpp`, `PlacementAnalysis.cpp`, and what the module means | operators on a program |
| `DependencyOrder` | what lowering in dependency order promises, whatever worklist finds the order | abstract specification |
| `MapsLowering` | the conversion's worklist, the lowering of sends, the end transfers | state machine, fair |
| `MapsLoweringProperties` | what is expected of it; the refinement of `DependencyOrder` | properties |
| `ForwardABI` | the arguments of `@forward` through the conversion: `MapsABIRewriter.cpp`, `MapsCleanup.cpp`, loads of slots | state machine |
| `ModuleContract` | what the collector takes for granted of the text of a module: that its transfers, reads and outputs fit together on paper | predicates on a program |
| `CollectorProofs`, `RunnerProofs`, `ManifestProofs` | theorems about the first way | proofs |
| `ContractProofs` | what the collector makes of modules that keep the contracts | proofs |
| `LayoutProofs` | what the planner of the FIFOs finds, and where payloads arrive | proofs |
| `MapsLoweringProofs` | what a value of a body is lowered to, and what the conversion to D2M keeps, in any order of the tiles and in dependency order | proofs |
| `ForwardABIProofs` | what the rounds over `@forward` keep, for every function | proofs |
| `DataInduction` | induction over numbers and ranked places, solutions of recursive definitions | lemmas |
| `MCCollector`, `MCEmittedLayout`, `MCRunner`, `MCCodeGeneration`, `MCMapsLowering`, `MCForwardABI` | instances | for TLC |

`map` in `PROJECT.json` gives the source lines of every definition.

**Collector.** A program is `[options, attrs, init, run, inserts]`: the command
line, the module attributes, the operations of both regions in walk order, and
the insertions of `@main`. It is chosen initially and never changes. `phase` says
which walk goes on (`attrs`, `init`, `recvs`, `run`, then `done` or `failed`),
`pos` the operation it has reached, `app` the description and `run` the
`RunCollectionState`. Each handler is one action and includes every table it
changes: `CollectModuleAttrs`, `CollectInitializerStore`, `CollectTileRecv`,
`CollectInputRecv`, `CollectLoad`, `CollectExtractSliceAlias`,
`CollectInsertSliceAlias`, `CollectComputeOp`, `CollectOutputSend`,
`CollectTileSend`; `PassOver` is a walk that does not care for an operation,
`EndWalk` the next walk, `Refuse` a handler that returns failure. The caller drops
a failed description, hence nothing but `failed` is kept of it. Names are tuples
of words and numbers, so concatenations are injective wherever the words of the
code are; tensors have two dimensions.

**ExecutionPlanImport** builds such programs from plans as the importer does, with
its channel bindings, its order of operations, and its silent skip of a transfer
whose tensor has no value on the sending tile. The programs that TLC collects are
therefore those the program builds itself, not hand-written ones.

**EmittedLayout** adds the variable `layouts`, filled once when the collection is
done, and operators for what is printed from it, for builds with and without
`MAPS_FIFO_INPLACE_RECV`.

**Runner.** `pc[h]` is the place of hart `h`; `arrived[b]` the harts counted at
barrier `b`; the others say what has been initialised, produced, run and
handled. Arriving at a barrier and leaving it are two steps. A token runs on a
tile when its sources have run theirs and its destinations have a free slot
(external: `maps_fifo_run_tile_tokens`).

**CodeGeneration.** `pc` walks through the checks, the initializers, the
directories, the artifacts and the manifest; `left` is what has still to be
written, `disk` holds files, `listed` the manifest's entries. Each refusal is an
action of its own, at its place in the order. `BreakOff` is a failed write, a
failed read or a kill at any step, and may leave the file under way cut off.
Between runs the developer edits `src/application.c` (`EditSource`), removes the
directory, or changes the runtime inputs. Texts are abstract: a file knows its
role, the run that wrote it, and whether it is whole.

**MapsLowering.** A program is `[host, tiles, outs]`: the sends of the host, the
tiles in walk order with their operations, and the channels `@main` receives.
`phase` goes from `analyze` (refuse, or fill the tables) over `collect` (drop the
tiles that only store, list the others) to `lower` and `finish`. In `lower`,
`todo` and `deferred` are the two lists of tiles of a pass and `progress` its
flag. One tile takes several steps: `BeginTile` waits for the semaphores of what
it receives, `LowerSend` and `ForwardSend` lower the next send (of a computed
value, of one that is only passed on), `DeferTile` puts the tile off, `AbortTile`
ends the conversion, `FinishTile` erases the tile. `NextPass`,
`RefuseDependencies` and `EndLowering` are the three ends of a pass,
`FinishTransfers` the replacement of the receives of `@main`. `block[t]` is what
has been emitted in front of tile `t`, in order; `values`, `lists`, `logical` and
`semaphores` are the four tables of the emitter. Operations are abstract: each
knows which emitted values it reads and which data (parts of channels and slots) it
is made of. Lowering a value (`LowerValue`, `Hoisted`, `AddShards`) answers
"lowered", "not yet" or "never", as the emitters' optional and failing results do;
parts of tensors are rows, and `Compose` is the composition of two slices.

**DependencyOrder** knows only channels, the channels they read, and the tile each
comes from. A channel may get its value when those it reads have theirs, a tile
may go when its channels have theirs; `MapsLowering` implements it
(`LowersInDependencyOrder`), with `valued` the keys of `values` and `retired` the
erased tiles.

**ForwardABI.** `Annotate` marks the arguments the init region sends. A round is
`Lift`, `Erase`, `Reorder`; the first comes before the tiles are lowered
(`LowerLoad`, one for each load of a slot, then `EraseHostSends`), the second after it,
and the third after `Cleanup`. Values are numbers, so that a table filled before a
round can be seen to name an argument that is gone. `DataOf` says of which parts of
which arguments a value is made; what a send or use should get is kept in it
(`want`) from the function as it comes, or from the load, and compared with what it
gets.

## 3. The runs

| run | module, cfg | asks | states |
|---|---|---|---|
| `application` | `MCEmittedLayout`, `MCApplication.cfg` | is memory planned as `RegionMap` says, do transfers, operands, outputs and reads fit together however tensors are cut, and do sender and receiver print one layout? | 38,715 |
| `data_below_flags` | `MCEmittedLayout`, `MCDataBelowFlags.cfg` | do collection and emission agree on allocation? (violated, see 5) | - |
| `output_pieces` | `MCCollector`, `MCOutputPieces.cfg` | is each element of an output written once when a tile sends its part in pieces? (violated, see 5) | - |
| `runner` | `MCRunner`, `MCRunner.cfg` | do four barriers order all that must be ordered, and do all harts return? | 2,003 |
| `generation` | `MCCodeGeneration`, `MCGeneration.cfg` | what is in the directory after any three runs, failures and edits? | 228,369 |
| `default_stem` | `MCCodeGeneration`, `MCDefaultStem.cfg` | does every listed file hold its role without a name option? (violated, see 5) | - |
| `lowering` | `MCMapsLowering`, `MCMapsLowering.cfg` | does the worklist end, lose nothing and lower in dependency order, and does what it emits read, carry and wait for the right values? | 17,336 |
| `unordered` | `MCMapsLowering`, `MCMapsUnordered.cfg` | are programs lowered whose tiles stand in another order? (violated, see 5) | - |
| `unsignalled` | `MCMapsLowering`, `MCMapsUnsignalled.cfg` | is every wait signalled, whatever is sent? (violated, see 5) | - |
| `uncarried` | `MCMapsLowering`, `MCMapsUncarried.cfg` | does every channel carry what is sent, whatever is sent and in whatever order? (violated, see 5) | - |
| `forward_abi` | `MCForwardABI`, `MCForwardABI.cfg` | do three rounds over the arguments keep the data of every use? | 129,012 |
| `stored_values` | `MCForwardABI`, `MCStoredValues.cfg` | can every stored argument be loaded? (violated, see 5) | - |

*application.* The programs are of three kinds: tensors cut in every way, applications
generated for either target with little room, and transfers laid out in shared rings
or not. Transfers: `SendsMeetReceives`: a send and its receive, collected in different
walks, agree on transition, tiles, producer number, bytes, slice and address, no
two sends share a receive, and at the end no receive waits for a send nobody
makes. `OperandsFilledOnce`: each element of each operand is put there by exactly
one read, receive or earlier operation, on tiles whose receives are cut to tile what
they are put into (`PiecesTile`; only `Ragged` has others). `OutputsTiled`: each element of each
output is written by exactly one tile. `ReadsInsideTheirTensor`: for every token,
reads stay inside their buffer; initializers do not advance.

Memory: `SlicesApart`, `BuffersApart`, `TypeOK` (indices point into their
tables, plans list the rows of their tile) and `MemoryRefinement`, which is
`RegionMap!Spec` under the mapping of slices and L2 buffers to regions; the
packed image of MAGIA v2 is a region of L2.

Layouts: `GatheredWhenTiled` compares the area-and-overlap test of
`isSliceGatherEligible` with its meaning, cell by cell. `AliasTableHolds`:
the runtime keeps its aliases in a table by slice and token slot and traps outside it;
what a tile registers for its shared rings lies in the table, and each ring has an
entry of its own for each slot. `PayloadsFillTheFifo`: in both build variants every byte of a FIFO slot is written by exactly one send.

*runner.* `SendsReachReadyTiles`, `ReadsSeeInputs`, `OutputsAreComplete`,
`FailureIsNotReported`, and the liveness property `EveryHartReturns`: if no hart
gives up, all return.

*generation.* `ManifestDescribesOutput`: a whole manifest lists files of its own
run, whole, with their digests, and nothing else lies beside them but the
developer's source. `FilesHoldTheirRoles`; `InputsHoldEveryToken`: a copy of an input
that a manifest lists holds every token, also when a source disappears, comes back or
is changed at any time, unless that very source was changed between the check of its
size and the copy, which reads it again unchecked (`changed` remembers which
were); and the action property `EditsAreKept`: an edited source stays until the developer removes it.

*lowering.* `NoTileIsLost`: the compute tiles are shared out between the erased
ones and the two lists, none twice. `ErasedTilesHaveSent`: when a tile is erased
all its channels have a value, also when it was put off half way.
`DefinedBeforeUse`: when a program whose tiles stand in dependency order has been
converted, every operation stands behind those it reads, although everything is
inserted in front of the tile that emits it, once more when a tile is tried again. `NothingErasedIsRead`: nothing reads a value in the body of
an erased tile; the operands cut out of one (`CutsOutErased`) are the exception the
code makes. `ChannelsCarryTheirValues`: a channel stands for the data the program
sends on it. The exceptions in its statement are losses the code really has: a part
asked of something that is only taken whole, and sums in shards sent to a tile.
`WaitsComeAfterTheirSignal`: in such a program a computed value that is waited for
is signalled once for each piece, before its receiver waits (two tiles may share a
core). `OrderedProgramsAreLowered`: a supported program in dependency order is not
refused; `IsSupported` says which sends the emitters can lower (sums only at the
root of a send, only moved values through slices and concatenations, slots that are
filled, nothing sent to oneself, a place for the receiver).
`LowersInDependencyOrder` is `DependencyOrder!Spec`, and `LoweringEnds` says that
the passes come to an end, also when tiles depend on each other in a circle.

*forward_abi.* `UsesKeepTheirData`: whatever is lifted, erased and reordered, each
send and use gets the data the function as it comes gives it.
`InputsKeepTheirOrder`: the arguments that are no parameters all stay, in order,
used or not. `ParametersAreInOrder`: in the end the parameters stand in the order of
their first use, and none is dead unless slices are taken of slices.
`SlotsSurviveInOrder`: a slot names an argument that is there as long as the first
round leaves the parameters in their order.

Every property has a mutant of the modelled code under which its run fails
(`mutants` in `PROJECT.json`; the mutated forms stand before their originals,
marked "Mutant of").

### Bounds, and why they are enough

* Plans: two stages over three tiles, an input, an initializer, one or two
  intermediates and an output, shapes 3x2 and 3x3. Three rows over two tiles do
  not divide, so shares differ; stages share no tile, one, or both, in either
  order, so that a tile sends to itself, to a later and to an earlier tile; cuts
  along different dimensions make every tile of one stage send to every tile of
  the other. One dimension less would hide strides; a third stage would repeat
  the second; only `Echoing` has one, which a received value is passed on to.
  `MCOutputPieces.cfg` adds plans in which a tile gives out its part of the output in
  two pieces.
* Deployments: L1 of 400 bytes, L2 of 128 and the capacities 16 and 40 are chosen
  so that the memory of some applications runs out, and at several places: at the
  first input, at an operation whose slice no longer fits in L1, and at the last
  output. Tokens 1, 2 and 4 and slots 1-3 and 9 tell one place from several. Packed sizes that do not match their
  tensor are refused, and the image of 14 bytes does not end aligned.
* Layouts: `Ragged` adds receives that overlap, leave gaps, or both with the
  right total area; `Echoing` forwards a received slice; alias bounds 3 and 2
  put some slices outside the runtime's table. Header and metadata sizes are
  small distinct multiples of the word: only their sum matters.
* Runner: four harts, one without a tile, three tiles in a graph where a tile has
  two sources and one has two destinations, two tokens over one slot so that
  back-pressure occurs; hart 0 and the hart without a tile may fail.
* Generation: `MaxRuns` is 3: a run that leaves something, one that meets it, and
  one after the directory was removed. Requests differ in tiles, inputs and name
  so that left-over files of another application would be visible; one request
  exists for every check that refuses.

* Lowering: 1319 programs behind a tile that stores a weight: all 64 graphs over
  three tiles (chains, forks, joins, circles, in every order of the tiles) times
  every choice of an addition, which may be put off, or a generic computation,
  which may not, for each tile; two tiles with each of 27 forms of computation
  (slices before, behind and between computations, matmuls, sums, sums of
  concatenations, inserts) feeding each other; each form alone; each form in a tile
  that is tried twice; nine programs in which a tile never gets what it passes on;
  and 15 programs with one defect each, so that every refusal is taken. Three tiles are enough for a pass that puts off two and lowers one;
  a fourth repeats it.
* ABI: 9576 functions of three arguments, of which one or two are stored: whole, in
  slices, in slices of slices, before or behind each other, in slots of their own
  or the same argument in two, or two in one slot; the third is sent when the function runs, alone or
  with a parameter; one or two loads, used whole, as received, cloned or cut. Two
  parameters and one input are the least that can be put in another order around
  an argument that must not move.

`CHECK_DEADLOCK FALSE` is set where the system stops: a finished collection,
a finished conversion, harts that have returned (or wait for one that failed). The generation run
checks deadlock: the developer can always go on.

### Fairness

`MapsLowering` and `Runner` have fairness. The conversion runs in one thread
and, until it is through or has failed, always has a next step, which nothing keeps it
from taking: weak fairness of `Next`. `Runner` has weak fairness of each hart's
next step. Each hart executes
its own instruction stream and nothing can stop it but its own program; a barrier
stays open once all have arrived, and a token that can run stays able to run
(counters of sources and destinations only grow), so weak fairness per hart is
what the hardware gives and no more is needed. Failing to initialise and trapping
are steps of a hart that fairness never has to take, as the hart has another
step. The other modules state safety only.

## 4. The proofs

All leaves are checked by tlapm with SMT, Zenon and PTL; nothing is assumed but the
named assumptions of the modules, which TLC evaluates on each run, and the
hypotheses the table names: `Named` of `CodeGeneration`, and the
contracts of `ModuleContract`, which TLC evaluates for every module it collects
(`ImportedModulesFit` of `MCCollector`).

| theorem | property | assumptions |
|---|---|---|
| `CollectorProofs!TypeCorrect` | `TypeOK` | `HartsAssumption`, `MemoryAssumption`, `ProgramsAssumption`, `BulkAssumption` |
| `CollectorProofs!SlicesNeverOverlap` | `SlicesApart` | the same |
| `CollectorProofs!BuffersNeverOverlap` | `BuffersApart` | the same |
| `CollectorProofs!CollectorImplementsRegionMap` | `MemoryRefinement` | the same |
| `ContractProofs!SendsAlwaysMeet` | `SendsMeetReceives` | the same, and `IsWired` |
| `ContractProofs!ReadsStayInside` | `ReadsInsideTheirTensor` | the same, and `ReadsFit` |
| `ContractProofs!OutputsAreTiled` | `OutputsTiled` | the same, `IsWired` and `OutputsFit` |
| `LayoutProofs!SlicesAreGathered` | `GatheredWhenTiled` | the same, `IsWired` and `ReceivesHoldData` |
| `LayoutProofs!FifosAreFilled` | `PayloadsFillTheFifo` | the same |
| `RunnerProofs!RunnerTypeCorrect` | `TypeOK` | `RunnerAssumption` |
| `RunnerProofs!SendersFindReadyTiles` | `SendsReachReadyTiles` | `RunnerAssumption` |
| `RunnerProofs!ReadersSeeInputs` | `ReadsSeeInputs` | `RunnerAssumption` |
| `RunnerProofs!OutputsComplete` | `OutputsAreComplete` | `RunnerAssumption` |
| `RunnerProofs!FailuresAreNotReported` | `FailureIsNotReported` | `RunnerAssumption` |
| `ManifestProofs!EditsAreNeverLost` | `EditsAreKept` | none |
| `ManifestProofs!GenerationTypeCorrect` | `TypeOK` | `CodeGenerationAssumption` |
| `ManifestProofs!ManifestsDescribe` | `ManifestDescribesOutput` | the same, and `Named` |
| `ManifestProofs!ListedFilesHoldTheirRoles` | `FilesHoldTheirRoles` | the same, and `Named` |
| `ManifestProofs!ListedInputsHoldEveryToken` | `InputsHoldEveryToken` | `CodeGenerationAssumption` |
| `MapsLoweringProofs!WorklistKeeps` | - (the invariant of the worklist) | `ProgramsAssumption` of `MapsLowering` |
| `MapsLoweringProofs!NoTileIsEverLost` | `NoTileIsLost` | the same |
| `MapsLoweringProofs!ErasedTilesHaveAlwaysSent` | `ErasedTilesHaveSent` | the same |
| `MapsLoweringProofs!ConversionFollowsDependencies` | `LowersInDependencyOrder` | the same |
| `MapsLoweringProofs!NothingErasedIsEverRead` | `NothingErasedIsRead` | the same |
| `MapsLoweringProofs!LoweringIsTyped` | `TypeOK` | the same |
| `MapsLoweringProofs!ChannelsStandForWhatIsSent` | `ChannelsCarryTheirValues` | the same |
| `MapsLoweringProofs!OperationsFollowTheirOperands` | `DefinedBeforeUse` | the same |
| `MapsLoweringProofs!SignalsComeBeforeWaits` | `WaitsComeAfterTheirSignal` | the same |
| `MapsLoweringProofs!SupportedProgramsAreLowered` | `OrderedProgramsAreLowered` | the same |
| `ForwardABIProofs!ForwardIsKept` | - (the inductive invariant) | `FuncsAssumption` |
| `ForwardABIProofs!ForwardIsTyped` | `TypeOK` | the same |
| `ForwardABIProofs!SinksKeepTheirData` | `UsesKeepTheirData` | the same |
| `ForwardABIProofs!InputsStayInOrder` | `InputsKeepTheirOrder` | the same |
| `ForwardABIProofs!SlotsAreLostByMoving` | `SlotsSurviveInOrder` | the same |
| `ForwardABIProofs!ParametersStayInOrder` | `ParametersAreInOrder` | the same |

**Collector.** `IInv` is the conjunction of the three properties, `prog \in
Programs`, and `phase = "attrs" => app = NewApplication(prog.options)`. The last
part is what makes it inductive: the attributes move the base of the L2 cursor
behind the packed image, which is only right while there is no buffer yet.
The three properties need each other: an address is below a cursor only because
indices are typed. The argument is one lemma per table operation saying that it
*extends* the description (`Extends`: old rows stay, the cursor moves up, the new
region lies between the old cursor and the new), its composition for each
handler, and `StepKeeps`: an extension keeps `IInv`. The assumptions on memory
are an alignment greater than 0 and an aligned L2 base (two constants of the
code); the one on programs is what the dialect's types say of a module (tiles of the
mesh, ranked tensors, boxes that are pairs), not that it was imported from a plan.

*The refinement* rests on the same lemmas. Each handler is shown to leave every
region of L1 and L2 where it is and as large as it is, and to add at most one in
each memory (`SlicesStay`, `BuffersStay`, one `...Stays` lemma for each handler).
That the new region is a `Grant` of `RegionMap`, apart from all others, aligned and
inside its space, is then the proved invariant of the next state (`SliceGrant`,
`BufferGrant`); the attributes grant the packed image as region 0 (`AttrsPlaceImage`).

**Contracts.** The dialect accepts modules whose transfers do not fit together: a
send without a receive, two sends on one channel, a piece larger than its slice.
The collector compares nothing, so the three properties about what crosses between
tiles, and between tiles and L2, hold only of modules that are right on paper. A
contract of `ModuleContract` says what that is, about the text of the module
alone: no table, address, number or slice of the collector occurs in it. It speaks
of a typing of the module, chosen per module by whoever instantiates the theorem:
the *home* of each value (tile, shape and width of the slice it should live in) and
the type of the tensor behind each kind and name in L2. `IsWired`: a channel joins
one send and one receive that both name the same two tiles and are of parts, of as many
bytes, that fit in the homes of what is sent and received. `ReadsFit`: a tile reads a
part that fits in the tensor it names. `OutputsFit`: the parts sent to an output fit in
it, and each of its cells is in exactly one. `ReceivesHoldData`: a tile receives nothing
empty. TLC finds typings of all modules of
`MCCollector`, as `ImportedModulesFit` asks. What is proved is that the collector,
in its four walks with their tables and numbers, carries out what is on paper.

*Sends and receives.* The invariant is `Wiring`. `Housed`: every table a collection
keeps leads from a value to a slice that is the value's home (through a subslice, a key
of an aggregate, of a computed value or of a sent one, a slot). This is where two keys
that ought to differ, or one that ought to be shared, would show. `Recorded`: what the
walks have passed is in the tables. `TransfersMeet`: each channel that has a
place has its row in the table of receives and in the plan of its destination at the
place its producer number says, no two have the same number there, and each send
that was passed has one row, which carries the address, the size and the number of the
place of its channel. Each handler has a lemma that it keeps the three parts
(`StoreWired`, `TileRecvWired`, `TileSendWired`, ...); what is kept when tables only
grow is shown once (`Grows`, `Quiet`). A send may come before any slice of its value
(`KnownSends`): a slice is then made for it, which is the right one if all sends that
share its key say the same of it. `WiringMeets` derives the property.

*Reads.* `BuffersTyped` says that a buffer has the type of its kind and name; without
it a buffer found again by its name (`getOrCreateL2Global` compares nothing else) could
be of another tensor. `ReadsPlaced` says of each read that its address is that of an
offset in its buffer at which its part fits. That strides then lead to elements of the
tensor and nothing else is arithmetic on rows, columns and widths (`ElementNumber`,
`OffsetAdds`, `TouchedElements`).

*Outputs.* `OutputsInv` adds that a buffer is found by one key only and every buffer
of an output by the name of a send (`IndexApart`), and a one-to-one function from the
writes to the sends to L2 that were passed (`WritesServe`), each write covering the part
its send is of. At the end it is onto, so that the one part a cell of the output is in
is written by one write (`WrittenOnce`). An element is one cell, and a cell starts at
one byte, only because no slice is made of elements of width 0, which is an invariant
of its own (`WidthsKnown`).

**Layouts.** `isSliceGatherEligible` does not look at elements: it compares the boxes
of the receives of a slice with its shape and with each other and adds up their areas.
That this finds the tilings is a matter of counting. Boxes that do not overlap have
disjoint sets of cells (`OverlapMeans`), the area of a box is the number of its cells
(`BoxArea`), and the sum over the receives is therefore the size of the union
(`DisjointSetsCount`, by induction over the list of receives); a subset of the cells
of the shape is all of them exactly if it has as many (`TilingsAreFound`). The planner
has no invariant of its own, it runs once at the end (`LayoutsPlanned`); what it needs
of the collection is that each receive of a plan is a box inside its slice, with cells
in it (`BoxesAreReceived`). This comes from `IsWired` and `ReceivesHoldData`: an
empty box inside another one counts as an overlap, so that with a receive of nothing a
slice that is tiled would not be gathered. A ring gets its number by counting
the first receives before it (`NumbersInOrder`), so that two have different numbers.

*Payloads.* Senders and receivers print the layout independently. `PlansPlaced`, a part
of the invariant `Wiring`, says that the row a plan has at place `n` is of that tile and
has the producer number `n - 1`; so the sends to a tile and the places of its plan
correspond one to one when all is collected (`PlacesAreServed`). A send then writes the
whole slot of its place, or, in a ring, the bytes of its box (`SendArrives`). The bytes
of boxes that tile a shape tile the bytes of the shape (`BytesOfTiling`: a byte
is of one element only, and an element in one row and column), and the ring is as large as
the slice because `slotBytes` never differs from the size of the shape (`WidthsKnown`).

**Runner.** `IInv` adds to `TypeOK` which harts are counted at a barrier
(`Arrivals`), that a hart is behind a barrier only if all have arrived
(`Openings`), and what each hart has done by each stage (`Prepared`, `Fed`, `Ran`,
`Handled`). Each property then follows by walking back over one barrier: a tile
that ran a token is behind the third, so every hart has reached it, so every tile
is initialised.

**CodeGeneration.** `IInv` says that runs are numbered from 1 (so that a file of a
run is not the developer's), that the developer's source lies in a directory that
exists, that a run makes the directory before it writes, and that from the check
that there is none until its end there is no edited source. It holds whatever
happens to the sources of the inputs and under the failures of `BreakOff`.

*The manifest.* `StageInv` follows a run through its stages: from its check on there
is no file and no entry (`Fresh`); the directories made and left are all directories
(`MakesDirectories`); the files there and the artifacts left are together all
artifacts of the request, each written by this run (`WritesArtifacts`). Beneath it
lie two facts about the list of artifacts for any request: each is one of `Files(r)`
(listing a finite set and appending lists lose nothing), and a path tells its role
(`PathsTellRoles`). `ManifestDescribesOutput` becomes inductive with "the developer's
source is not listed", without which his edit would break a digest; that needs
`Named`: no application is called `application`. The run `default_stem` shows that
the assumption cannot be dropped. For the inputs, `TokensInv` carries what the check
has found to the copies: until an input is copied its source is whole or has been
changed (`InputsKept`); a copy holds every token or its source had been changed when it
was made (`CopiesKept`), and whoever changes a source that is still to be read is
remembered (`ChangeIsRemembered`).

**MapsLowering.** `WorklistInvariant` says, phase by phase, what the lists hold:
while the tiles are collected, `todo` lists exactly the compute tiles walked so
far, once each; while they are lowered, `todo`, `deferred` and `lowered` are
disjoint and together the compute tiles. It needs two lemmas about sequences without
repetitions (what appending an element and taking the tail do to `ToSet` and
`IsInjective`), and no property of the lowering itself: whatever a send is lowered
to, the lists move the same. `SendsInvariant` adds that all sends of the first tile
of `todo` before `at` have a value; since a tile that is put off starts again from
the beginning and tables never lose an entry, `IsThrough` then means that all have.
`ProgramsAssumption` says what MLIR and the dialect say of any body (an operation
takes results of operations before it, as many as its kind asks for), that tiles and
sends are lists, and that slots and channels have different names.

*What a value is lowered to*. `Leaves`, `Hoisted`, `LowerValue`,
`Fringe` and `Behind` are functions by recursion over a body, that is, choices
among the solutions of an equation. That there is a solution is a theorem of its own:
`DataInduction` gets induction over sets of numbers from the library's theorem that a
well-founded order has least elements, and from it that every definition has a
solution whose value at a place depends on places of smaller rank only
(`RecursionSolves`); the rank of a value is its place in the body. With the
equations (`LeavesEquation`, `HoistedEquation`, `LowerValueEquation`, ...), induction
over the body gives for every body: a lowered value is made of exactly the data the
program means, unless a part of it is asked of something that is only taken whole
(`LoweredIsMeant`); every channel of a tile among that data has a value by then; it
reads the body only where an operand is cut out of it. `PiecesAreMeant` says the
same of all pieces of a send. For the opposite direction, `LowersWhenItCan` and
`SendsWhenItCan` say when a value is lowered at all, and `SendsAlike` that whether a
send lacks an input depends only on which of the channels behind it have values.

*In any order of the tiles*. `TablesInvariant` ties the tables
together (the logical values are those of the channels that are not computed).
`EmissionInvariant` says that what tables and emitted operations refer to has been
emitted: the operations of each step are written down once (`LowerItemsAre`,
`ForwardItemsAre`; lists are joined by `ListsFlatten`), shown to refer only to what
was there or stands before them in the same step (`AreSound`), and to be added behind
the others (`EmitAdds`). `MeaningInvariant` carries `PiecesAreMeant` along.
*The refinement* of `DependencyOrder` maps `LowerSend` and `ForwardSend` to `Produce`,
which may do so as the data of a lowered send has values (`LoweredSendHasInputs`),
`FinishTile` to `Retire` by `SendsInvariant`, and the three ends to its verdicts.

*In dependency order*. That the tiles stand in dependency order is
not enough for the operations to do so at every moment: a program may contain a send
that can never be lowered, and a tile that is put off for it is tried again behind
tiles that have read it. The invariant is therefore a disjunction, `Smooth \/ Stuck`. Smooth:
no tile has been put off, the tiles of `todo` ascend, all emitted operations belong to
tiles that have been reached, operations stand behind those they read and waits
behind their signals. Stuck: some tile of the lists has a send that lacks an input
although all tiles before it are lowered; as only tiles before it could give that
input, it lacks it for ever (`StepsKeepStuck`), the tile is never lowered, and the
conversion cannot end well. A smooth conversion goes on smoothly until a send lacks an
input (`StepsKeepSmooth`). For supported programs `SupportInvariant` shows that this
never happens: what such a send receives comes from tiles that have been lowered, is
only moved where it is only moved there too, or comes from the host
(`SourcesAreThere`), so each send is lowered when it is come to (`SupportedIsLowered`).

**ForwardABI.** `FuncsAssumption` says what MLIR says of a function: an operation
takes arguments and results of operations before it, a join (all that do not have
one operand) stands for two operands, and a load names a slot something is sent
to. `IInv` says of arguments and operations that they are such a function at every
moment (`IsFunction`: numbers of their own, operands that stand before), that each
sink gets what it should (`UsesKeep`), that numbers lie below the next, and three
things about what lies in between: until the tiles are lowered the operations stay
where they are (`SendsStay`); a slot then has the value it was found to hold, or
that value is no more, and as long as the parameters keep their order it is
(`SlotsHold`); the arguments that are not parameters are the inputs in ascending
order (`HasInputs`). `SlotsHold` is needed because a load takes what the table says
and not what the send has as its operand: only that both mean the same data makes
the load's use right.

The data of a value is defined recursively over a function that each round changes.
`DataInduction` gives that the equations of `DataOf` have exactly one solution
(`DataIsOnly`); so to show that a round keeps the data it is enough that the old
data, with those of the new arguments added, satisfy the equations of the changed
function. Four lemmas say when they do: operands are redirected to values with the
same data (`RebindingKeepsData`), new arguments stand for values
(`ExtendingKeepsData`), some of the arguments or operations are kept
(`KeepingArguments`, `KeepingOperations`), an operation is added
(`AddingAnOperation`). Lifting and reordering are one lemma on top of the second
(`ReplacingKeeps`); that `Lifted` and `Renewed` are such redirections is where the key
of a slice and the order of the parameters come in (`LiftedIs`, `RenewedIs`). The
composed slice of a load takes the same data as the slices it is composed of
(`DirectKeepsData`). Sorting is by counting what comes before (`InOrder`), so that a
sorted list can be shown to be the only one that lists a set in an order
(`InOrderIsOnly`).

*The order of the parameters* has an invariant of its own, `ParameterInvariant`,
which adds three parts to `IInv`. `OrderInvariant` is what the property needs: an
operation takes each parameter once what is unused has been erased
(`ParametersAreTaken`), and in the end they stand in the order of their first use,
because the reordering numbers them in the order of `Wanted` and redirects each use to
the new number of what it took (`RenewedUsers`, `RenewedAreSorted`). That an operation
takes a parameter is not enough for it to be live: the operation may be a slice nothing
uses. `FlatInvariant` follows those slices through the three rounds, for functions in
which no slice is taken of a slice. In the first round all slices that are sent are
slices of parameters; once those are lifted, nothing that is sent is a slice. In the
second, a slice of a parameter that has been lifted stays in the body, but nothing
takes it, until the clean-up folds it away. In the third there is no slice of a
parameter left, and every operation that is no sink is taken by another
(`AllAreTaken`). As operations stand in their order, going up from an operation that
is taken one comes to a sink: so it is live (`AllAreLive`). `GivenStays` keeps the
function as it comes in sight, for `IsFlat` speaks of it: numbers of its arguments
are below all others, and the slots hold what its sends have.

*What the proofs found out about the model.* Earlier statements were false and no
instance of TLC had shown it: `DefinedBeforeUse` without "has been converted" (the
family `Stuck` of `MCMapsLowering` now shows the counterexample), and
`OrderedProgramsAreLowered` for sums in shards whose concatenation moves what another
tile computes (`IsSupported` allowed it); so was `ParametersAreInOrder`, as `IsFlat` looked
at the parts of cloned loads only, and `FuncsAssumption` leaves the form of a load open. A case of
`Hoisted` overlapped with another, and the operand an inner matmul is cut from
was not the one the code cuts (`MatmulOf`).

**Only model-checked**: `OperandsFilledOnce` and the liveness properties
`EveryHartReturns` and `LoweringEnds`. Liveness and ENABLED are out of the prover's
reach. `OperandsFilledOnce` is not a matter of tables alone: it asks which cells of an
operand were put in its slice by the operations before it, through chains of
extractions and insertions; a contract that implied it would have to repeat the data
flow of the importer's plans. What recursive definitions compute over sequences of
operations (`ExecutionPlanImport`) is induction over data, and is checked on the plans
of `MCCollector` only.

## 5. Findings

* **Data below the ready flags** (`data_below_flags`). `ApplicationDescription.h`
  says the description keeps its values in one place "so collection and emission
  agree on allocation size". The collector measures the slices of a tile from
  offset 0 up to the ready flags; the emitter starts them behind the FIFO. On
  MAGIA v3 a static assertion of the emitted source catches the difference; on
  MAGIA v2 there is none, and a description that just fits is emitted with
  slices over the ready flags.
* **The default name** (`default_stem`). The emitted README says only
  `src/application.c` is the developer's. Without `--maps-magia-output-stem` the
  application is called `application`, its data source is `src/application.c` as
  well, and the developer's initial source overwrites it: the tables are lost and
  the manifest lists one path in two roles. The runs of `generation` therefore
  give a name.
* **Dependency order** (`unordered`). The comment on the worklist says it lowers
  "in dependency order", and a tile that is not ready is kept for the next pass.
  Only an addition and a value that is passed on are ever put off: when an input of
  another computation has no value yet, the conversion fails with "unsupported
  compute producer" in its first pass. Programs of the importer stand in
  dependency order, and those are lowered (`OrderedProgramsAreLowered`).
* **A wait without a signal** (`unsignalled`). A send between tiles of a value that
  is only passed on creates the semaphore of its channel and gives the channel a
  value, but emits no signal; its receiver waits for it.
* **Stored arguments** (`stored_values`). The values of the slots are found before the
  arguments of `@forward` are rewritten. If the first round puts the parameters in
  another order, it erases the old arguments; a load of a stored one then takes an
  argument that is gone.

* **Pieces of an output** (`output_pieces`). A send to L2 is of a part of the value of its
  tile. The collector makes the *whole* slice of that value the source of the write,
  and places it where the part is to be inserted. A tile that sends its part of an
  output in two pieces writes its whole slice twice, at both offsets: the second
  write goes over what the first has written of it and ends beyond the part of the
  tile. The importer takes such plans: it cuts each piece out of the value at the
  offset it has there.
* **Channels that do not carry what is sent** (`uncarried`). The run stops at the
  first counterexample, a part of a sum. Its programs break the property in three ways,
  each also without the other two:
  parts are lost, as a send of a slice of a sum lowers the sum of the operands whole, a
  part of a received, loaded or assembled value inside a computation is taken whole, and
  a tile that receives a sum in shards gets the first shard (`ChannelsCarryTheirValues`
  says that these are the only losses); operands are erased, as the code takes an operand
  it cuts a part out of (of a matmul of which rows are sent, of the other operand of a sum
  in shards) from the body of the tile if it is computed there, and the body is erased
  with its uses dropped (`NothingErasedIsRead` says that this is the only case); and
  operations stand in front of their operands, as a tile that is put off and lowered in a
  later pass emits in front of itself, although the tiles it receives from stand behind
  it and have emitted there (`DefinedBeforeUse` says that in dependency order this does
  not happen).

The quoted lines are in `findings` of `PROJECT.json`.

## 6. What is not modelled, and limits

* *Two generators at once* on one output directory: the code takes no lock, and
  nothing in the repository suggests that it is used so. One run at a time.
* *Input files that change during a run*: they are checked once and read again when
  copied (`CodeGeneration.cpp:459`), without the size check. The model has these
  changes. `InputsHoldEveryToken` exempts the copies of the very sources that were
  changed in between, of which nothing can be said and the repository promises
  nothing; what is checked and proved is that nothing else gives a short copy.
* *Emitted text*, CMake, the header, the README: rows are printed as they are.
* *A description that is half filled when a collection fails*: the caller drops it
  (`CodeGeneration.cpp:360-363`), so `Refuse` keeps nothing of it.
* *The importer's skip of a transfer whose tensor has no value on the sending tile*
  is in the model, but no plan of the runs takes it. An output whose tensor is
  consumed as well has no initial value in the code; such plans are not `Importable`.
* *Generic operations the collector does not recognise and passes over, and
  operations with several results*: no program of the models has them.
* *JSON parsing and kernel parameters* (convolution padding, im2col, splits), the
  list of Spatz tasks, collectives.
* *The MAGIA runtime*: external. A barrier that opens before all arrive, or a
  FIFO that loses a payload, is not a behaviour of the models.
* *Operations of the D2M dialect* (`D2MGenericBuilder.cpp`, `TileBodyEmitter.cpp`,
  `D2MTypeUtils.cpp`): shapes, layouts and affine maps of what is emitted; the pass
  for elementwise operations outside tiles, which rewrites one operation at a time;
  the printing passes. They keep no state.
* *Broadcast operands*: of a `linalg.generic` of which a part is sent, the code takes
  the operands that are broadcast whole (`ComputeOpRegistry.cpp:122-130`); the generic
  operations of the models are elementwise. *What a sum that is put off leaves behind*:
  the operands that had been lowered before the one that was not; nothing reads them
  and the cleanup erases them. *A store received from a channel nobody sends on*: the
  analysis reports it and looks the channel up all the same
  (`MapsProgramAnalysis.cpp:166-168`); the model refuses. *A `@forward` that returns
  values of its own* is left as it is (`FinishEmitter.cpp:38-39`); the importer builds
  none.
* *The order of stores*: two stores to one slot are taken in the order of the sends
  they receive, and the last is what the slot holds.
* *Columns of slices, and layouts of the returned values*: a part of a tensor is a
  part of its rows. Slices that take all and are inserted into empty tensors are left out.
* *Tables that are written and never read*: `stageChannels`, `slotBindings`,
  `placementGroups`, `initTransfers`. *Programs without an init or run region*: the
  analysis accepts them (`MapsProgramAnalysis.cpp:99` asks whether there is an init
  region), and the lowering takes both as given (`MapsPatternLowering.cpp:55-58`);
  the programs of the models have both.
* *Behaviour of the conversion that the models show and no property judges*: a tile
  tried again repeats its waits; of several awaited channels only the first's
  value depends on the wait; only the last operation of a computation is wrapped for
  the cores of its tile; a tile that receives and a tile that loads the same slice
  give two parameters with the same data.
* *Parameters nothing needs*: the comment before the last round over `@forward` says
  it keeps "the lowered ABI minimal" (`MapsToD2M.cpp:52-53`). If a tile cuts a part out
  of a stored slice, the last round lifts it out of the parameter that was left and leaves
  the dead slice in the body, so that this parameter still has a use and stays
  (`MapsABIRewriter.cpp:116-148`). The models show it; `ParametersAreInOrder` says that
  without slices of slices there is none, and says nothing of the others.
* *Dialect and tools*: declarations and registration without state.
* *Integer width*: sizes are 64-bit in the code and bounded by megabytes of L1 and
  L2; overflow needs tensors no memory of the mesh holds.

## 7. Plan

Modules, in order of importance:

1. done: memory and collection (`RegionMap`, `ApplicationDescription`,
   `Collector`, `ApplicationProperties`), plans (`ExecutionPlanImport`), layouts
   (`EmittedLayout`), `Runner`, `CodeGeneration`;
2. done: the conversion to D2M (`MapsProgram`, `DependencyOrder`, `MapsLowering`,
   `ForwardABI`);
3. the token pipeline of a tile on top of `Runner`: rings, payload slots and
   slot reuse per token, composed with the sends of a description, and shown to
   implement `Runner`'s `RunToken`. The runtime that moves the payloads is not in
   the repository, so little of it could be translated;
4. the flag words of the collectives (`Emitter.cpp`, `getCollectiveFlagBase`),
   with the bound of the flag area;
5. numerics of the importer (padding, im2col, splits) against reference
   definitions over bounded sizes;
6. reuse of an L2 buffer by name, nested slices and sends of unrecognised
   operations in the collector (three hazards without a property).

Proofs: that `ExecutionPlanImport` keeps the contracts of `ModuleContract` for every
plan, from which `OperandsFilledOnce` could be attempted.

## 8. Running it

In this directory:

    tlc -workers 2 -config MCApplication.cfg MCEmittedLayout
    tlc -workers 2 -config MCRunner.cfg MCRunner
    tlc -workers 2 -config MCGeneration.cfg MCCodeGeneration
    tlc -workers 2 -config MCMapsLowering.cfg MCMapsLowering
    tlc -workers 2 -config MCForwardABI.cfg MCForwardABI
    tlapm CollectorProofs.tla
    tlapm ContractProofs.tla
    tlapm LayoutProofs.tla
    tlapm RunnerProofs.tla
    tlapm ManifestProofs.tla
    tlapm DataInduction.tla
    tlapm MapsLoweringProofs.tla
    tlapm ForwardABIProofs.tla

`MCDataBelowFlags.cfg`, `MCOutputPieces.cfg`, `MCDefaultStem.cfg`,
`MCMapsUnordered.cfg`, `MCMapsUnsignalled.cfg`, `MCMapsUncarried.cfg` and
`MCStoredValues.cfg` end with the counterexamples of section 5.
