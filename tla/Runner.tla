------------------------------- MODULE Runner -------------------------------
(***************************************************************************)
(* The generated runner (emitApplicationRunner): what every hart of the    *)
(* mesh does from reset to the end of main, tile or not.  The runtime it    *)
(* calls is external: a barrier (fsync_sync_level, fsync_sync_global and    *)
(* eu_fsync_wait) opens when all harts have arrived, and a token is run on  *)
(* a tile (maps_fifo_run_tile_tokens) after the tiles it receives from have *)
(* sent theirs, while the FIFOs of the tiles it sends to have a slot.       *)
(***************************************************************************)
EXTENDS Integers, FiniteSets

CONSTANTS
  Harts,      \* the harts of the mesh; hart 0 does the input and the output
  Active,     \* those with a tile plan
  Sends,      \* the tiles each tile sends to
  Tokens, Slots,
  MayFail,    \* harts whose operation runtime may fail to initialise
  MayTrap     \* whether the packed initializers may be out of place

ASSUME RunnerAssumption ==
  /\ 0 \in Harts /\ IsFiniteSet(Harts) /\ Active \subseteq Harts
  /\ Sends \in [Active -> SUBSET Active]
  /\ Tokens \in Nat \ {0} /\ Slots \in Nat \ {0}
  /\ MayFail \subseteq Harts /\ MayTrap \in BOOLEAN

Barriers == 1..4

VARIABLES
  pc,       \* where each hart is
  arrived,  \* the harts that have arrived at each barrier
  fifos,    \* tiles whose FIFO is initialised (maps_fifo_init)
  tiles,    \* tiles that have read their initializers (maps_fifo_init_tile)
  data,     \* whether hart 0 has initialised the data in L2
  inputs,   \* tokens whose input hart 0 has produced
  ran,      \* tokens each tile has run
  outputs   \* tokens whose output hart 0 has handled

vars == <<pc, arrived, fifos, tiles, data, inputs, ran, outputs>>

\* At a barrier and in it: before and after a hart tells the others that it has
\* arrived.
At == <<"at 1", "at 2", "at 3", "at 4">>
In == <<"in 1", "in 2", "in 3", "in 4">>

Stages ==
  {"runtime", "fifo", "data", "inputs", "tile", "tokens", "outputs",
   "returned", "failed", "trapped"}
  \cup {At[b] : b \in Barriers} \cup {In[b] : b \in Barriers}

AfterBarrier == <<"data", "tile", "tokens", "outputs">>

Goes(h, stage) == pc' = [pc EXCEPT ![h] = stage]

\* The stages, the barriers and the counters stay in their ranges.
TypeOK ==
  /\ pc \in [Harts -> Stages] /\ arrived \in [Barriers -> SUBSET Harts]
  /\ fifos \subseteq Active /\ tiles \subseteq Active /\ data \in BOOLEAN
  /\ inputs \in 0..Tokens /\ outputs \in 0..Tokens
  /\ ran \in [Active -> 0..Tokens]

Init ==
  /\ pc = [h \in Harts |-> "runtime"]
  /\ arrived = [b \in Barriers |-> {}]
  /\ fifos = {} /\ tiles = {} /\ data = FALSE
  /\ inputs = 0 /\ outputs = 0 /\ ran = [h \in Active |-> 0]

-----------------------------------------------------------------------------
InitRuntime(h) ==
  /\ pc[h] = "runtime"
  /\ Goes(h, "fifo")
  /\ UNCHANGED <<arrived, fifos, tiles, data, inputs, ran, outputs>>

\* Mutant of FailRuntime: the hart arrives at every barrier before it returns.
FailRuntimeArriving(h) ==
  /\ pc[h] = "runtime" /\ h \in MayFail
  /\ Goes(h, "failed")
  /\ arrived' = [b \in Barriers |-> arrived[b] \cup {h}]
  /\ UNCHANGED <<fifos, tiles, data, inputs, ran, outputs>>

\* maps_operation_runtime_init fails: the hart returns -1.
FailRuntime(h) ==
  /\ pc[h] = "runtime" /\ h \in MayFail
  /\ Goes(h, "failed")
  /\ UNCHANGED <<arrived, fifos, tiles, data, inputs, ran, outputs>>

InitFifo(h) ==
  /\ pc[h] = "fifo"
  /\ fifos' = fifos \cup ({h} \cap Active)
  /\ Goes(h, At[1])
  /\ UNCHANGED <<arrived, tiles, data, inputs, ran, outputs>>

Arrive(h, b) ==
  /\ pc[h] = At[b]
  /\ arrived' = [arrived EXCEPT ![b] = @ \cup {h}]
  /\ Goes(h, In[b])
  /\ UNCHANGED <<fifos, tiles, data, inputs, ran, outputs>>

Leave(h, b) ==
  /\ pc[h] = In[b] /\ arrived[b] = Harts
  /\ Goes(h, AfterBarrier[b])
  /\ UNCHANGED <<arrived, fifos, tiles, data, inputs, ran, outputs>>

\* initialize_data: hart 0 checks where the linker put the packed initializers
\* and traps, or initialises the data in L2; the others return at once.
InitData(h) ==
  /\ pc[h] = "data"
  /\ data' = (data \/ h = 0)
  /\ Goes(h, "inputs")
  /\ UNCHANGED <<arrived, fifos, tiles, inputs, ran, outputs>>

Trap(h) ==
  /\ pc[h] = "data" /\ h = 0 /\ MayTrap
  /\ Goes(h, "trapped")
  /\ UNCHANGED <<arrived, fifos, tiles, data, inputs, ran, outputs>>

\* Mutant of HandleInput: one token more than there are.
HandleInputOnceMore(h) ==
  /\ pc[h] = "inputs" /\ h = 0 /\ inputs <= Tokens
  /\ inputs' = inputs + 1
  /\ UNCHANGED <<pc, arrived, fifos, tiles, data, ran, outputs>>

HandleInput(h) ==
  /\ pc[h] = "inputs" /\ h = 0 /\ inputs < Tokens
  /\ inputs' = inputs + 1
  /\ UNCHANGED <<pc, arrived, fifos, tiles, data, ran, outputs>>

\* Mutant of EndInputs: harts other than hart 0 do not wait for it.
EndInputsUnsynchronised(h) ==
  /\ pc[h] = "inputs" /\ (h = 0 => inputs = Tokens)
  /\ IF h = 0 THEN Goes(h, At[2]) ELSE Goes(h, "tile")
  /\ UNCHANGED <<arrived, fifos, tiles, data, inputs, ran, outputs>>

EndInputs(h) ==
  /\ pc[h] = "inputs" /\ (h = 0 => inputs = Tokens)
  /\ Goes(h, At[2])
  /\ UNCHANGED <<arrived, fifos, tiles, data, inputs, ran, outputs>>

\* Mutant of InitTile: no barrier before the tokens.
InitTileUnsynchronised(h) ==
  /\ pc[h] = "tile"
  /\ tiles' = tiles \cup ({h} \cap Active)
  /\ Goes(h, "tokens")
  /\ UNCHANGED <<arrived, fifos, data, inputs, ran, outputs>>

\* maps_fifo_init_tile; MAGIA v3 copies the plan to the hart's own L1 before.
InitTile(h) ==
  /\ pc[h] = "tile"
  /\ tiles' = tiles \cup ({h} \cap Active)
  /\ Goes(h, At[3])
  /\ UNCHANGED <<arrived, fifos, data, inputs, ran, outputs>>

Sources(h) == {p \in Active : h \in Sends[p]}

RunToken(h) ==
  /\ pc[h] = "tokens" /\ h \in Active /\ ran[h] < Tokens
  /\ \A p \in Sources(h) : ran[p] > ran[h]
  /\ \A q \in Sends[h] : ran[h] - ran[q] < Slots
  /\ ran' = [ran EXCEPT ![h] = @ + 1]
  /\ UNCHANGED <<pc, arrived, fifos, tiles, data, inputs, outputs>>

\* Mutant of EndTokens: harts without a tile do not take part in the barrier.
EndTokensOfTiles(h) ==
  /\ pc[h] = "tokens" /\ (h \in Active => ran[h] = Tokens)
  /\ IF h \in Active THEN Goes(h, At[4]) ELSE Goes(h, "outputs")
  /\ UNCHANGED <<arrived, fifos, tiles, data, inputs, ran, outputs>>

\* Mutant of EndTokens: no barrier after the tokens.
EndTokensUnsynchronised(h) ==
  /\ pc[h] = "tokens" /\ (h \in Active => ran[h] = Tokens)
  /\ Goes(h, "outputs")
  /\ UNCHANGED <<arrived, fifos, tiles, data, inputs, ran, outputs>>

EndTokens(h) ==
  /\ pc[h] = "tokens" /\ (h \in Active => ran[h] = Tokens)
  /\ Goes(h, At[4])
  /\ UNCHANGED <<arrived, fifos, tiles, data, inputs, ran, outputs>>

HandleOutput(h) ==
  /\ pc[h] = "outputs" /\ h = 0 /\ outputs < Tokens
  /\ outputs' = outputs + 1
  /\ UNCHANGED <<pc, arrived, fifos, tiles, data, inputs, ran>>

Return(h) ==
  /\ pc[h] = "outputs" /\ (h = 0 => outputs = Tokens)
  /\ Goes(h, "returned")
  /\ UNCHANGED <<arrived, fifos, tiles, data, inputs, ran, outputs>>

Step(h) ==
  \/ InitRuntime(h)
  \/ FailRuntime(h)
  \/ InitFifo(h)
  \/ \E b \in Barriers : Arrive(h, b)
  \/ \E b \in Barriers : Leave(h, b)
  \/ InitData(h)
  \/ Trap(h)
  \/ HandleInput(h)
  \/ EndInputs(h)
  \/ InitTile(h)
  \/ RunToken(h)
  \/ EndTokens(h)
  \/ HandleOutput(h)
  \/ Return(h)

Next == \E h \in Harts : Step(h)

\* Every hart runs by itself and never stops stepping while it can.
Spec == Init /\ [][Next]_vars /\ \A h \in Harts : WF_vars(Step(h))

-----------------------------------------------------------------------------
(* Properties *)

Stopped(h) == pc[h] \in {"failed", "trapped"}

\* A tile that has run a token has sent its results: the FIFOs it writes to
\* were initialised by their own harts, which nothing but the barriers orders
\* before it, and their tiles had their initializers.
SendsReachReadyTiles ==
  \A h \in Active : ran[h] > 0 => Sends[h] \cup {h} \subseteq fifos \cap tiles

\* No tile reads from L2 before hart 0 has initialised the data there and has
\* produced the inputs of all tokens: nothing later tells a tile that the input
\* of a token has come.
ReadsSeeInputs == tiles # {} => data /\ inputs = Tokens

\* Hart 0 looks at an output only when every tile has run every token.
OutputsAreComplete == outputs > 0 => \A h \in Active : ran[h] = Tokens

\* When a hart gives up, before the first barrier or, for a misplaced image,
\* before the second, no hart reports success and no output is handled.
FailureIsNotReported ==
  (\E h \in Harts : Stopped(h)) =>
    outputs = 0 /\ \A h \in Harts : pc[h] # "returned"

\* As long as no hart gives up, all of them return: every hart arrives at every
\* barrier, whether it has a tile or not, and the pipeline of tokens drains.
\* (A hart that gives up leaves the others waiting at a barrier for ever.)
EveryHartReturns ==
  [](\A h \in Harts : ~Stopped(h)) => <>(\A h \in Harts : pc[h] = "returned")
=============================================================================
