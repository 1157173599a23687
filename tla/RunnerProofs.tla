---------------------------- MODULE RunnerProofs ----------------------------
(***************************************************************************)
(* What the barriers of the generated runner order, for every mesh, every   *)
(* graph of transfers and every number of tokens and slots.                 *)
(***************************************************************************)
EXTENDS Runner, TLAPS

\* The stages of a hart behind each barrier.
BehindFourth == {"outputs", "returned"}
BehindThird == {"tokens", "at 4", "in 4"} \cup BehindFourth
BehindSecond == {"tile", "at 3", "in 3"} \cup BehindThird
BehindFirst == {"data", "inputs", "at 2", "in 2", "trapped"} \cup BehindSecond

Behind == <<BehindFirst, BehindSecond, BehindThird, BehindFourth>>

\* The stages of a hart that has arrived at barrier b.
Reached(b) == {In[b]} \cup Behind[b]

\* The harts counted at a barrier are those that have reached it, ...
Arrivals ==
  \A h \in Harts : \A b \in Barriers : h \in arrived[b] <=> pc[h] \in Reached(b)

\* ... and a hart is behind a barrier only when all harts have reached it.
Openings ==
  \A h \in Harts : \A b \in Barriers : pc[h] \in Behind[b] => arrived[b] = Harts

\* What each hart has done at each stage.
PreparedTile(h) ==
  /\ pc[h] \in {"at 1", "in 1"} \cup BehindFirst => h \in fifos
  /\ h \in tiles <=> pc[h] \in {"at 3", "in 3"} \cup BehindThird

Prepared == \A h \in Active : PreparedTile(h)

Fed ==
  /\ pc[0] \in {"inputs", "at 2", "in 2"} \cup BehindSecond => data
  /\ pc[0] \in {"at 2", "in 2"} \cup BehindSecond => inputs = Tokens

RanTokens(h) ==
  /\ ran[h] > 0 => pc[h] \in BehindThird
  /\ pc[h] \in {"at 4", "in 4"} \cup BehindFourth => ran[h] = Tokens

Ran == \A h \in Active : RanTokens(h)

Handled == outputs > 0 => pc[0] \in BehindFourth

IInv == TypeOK /\ Arrivals /\ Openings /\ Prepared /\ Fed /\ Ran /\ Handled

-----------------------------------------------------------------------------
(* Stages *)

\* Every barrier with the names of its stages (fsync_sync_level or
\* fsync_sync_global, and eu_fsync_wait).
LEMMA BarrierStages ==
  ASSUME NEW b \in Barriers
  PROVE  \/ /\ b = 1 /\ At[b] = "at 1" /\ In[b] = "in 1"
            /\ AfterBarrier[b] = "data" /\ Behind[b] = BehindFirst
         \/ /\ b = 2 /\ At[b] = "at 2" /\ In[b] = "in 2"
            /\ AfterBarrier[b] = "tile" /\ Behind[b] = BehindSecond
         \/ /\ b = 3 /\ At[b] = "at 3" /\ In[b] = "in 3"
            /\ AfterBarrier[b] = "tokens" /\ Behind[b] = BehindThird
         \/ /\ b = 4 /\ At[b] = "at 4" /\ In[b] = "in 4"
            /\ AfterBarrier[b] = "outputs" /\ Behind[b] = BehindFourth
<1>1. CASE b = 1  BY <1>1 DEF At, In, AfterBarrier, Behind
<1>2. CASE b = 2  BY <1>2 DEF At, In, AfterBarrier, Behind
<1>3. CASE b = 3  BY <1>3 DEF At, In, AfterBarrier, Behind
<1>4. CASE b = 4  BY <1>4 DEF At, In, AfterBarrier, Behind
<1>5. b = 1 \/ b = 2 \/ b = 3 \/ b = 4
  BY DEF Barriers
<1>. QED  BY <1>1, <1>2, <1>3, <1>4, <1>5, Zenon

\* Where the stages around barrier b lie with respect to barrier c: a hart goes
\* through the barriers in their order.
LEMMA BarrierOrder ==
  ASSUME NEW b \in Barriers, NEW c \in Barriers
  PROVE  /\ At[b] \in Reached(c) <=> c < b
         /\ At[b] \in Behind[c] <=> c < b
         /\ In[b] \in Reached(c) <=> c <= b
         /\ In[b] \in Behind[c] <=> c < b
         /\ AfterBarrier[b] \in Reached(c) <=> c <= b
         /\ AfterBarrier[b] \in Behind[c] <=> c <= b
<1>. USE DEF Reached, BehindFirst, BehindSecond, BehindThird, BehindFourth
<1>1. CASE b = 1
  <2>1. CASE c = 1  BY <1>1, <2>1 DEF At, In, AfterBarrier, Behind
  <2>2. CASE c = 2  BY <1>1, <2>2 DEF At, In, AfterBarrier, Behind
  <2>3. CASE c = 3  BY <1>1, <2>3 DEF At, In, AfterBarrier, Behind
  <2>4. CASE c = 4  BY <1>1, <2>4 DEF At, In, AfterBarrier, Behind
  <2>. QED  BY <2>1, <2>2, <2>3, <2>4 DEF Barriers
<1>2. CASE b = 2
  <2>1. CASE c = 1  BY <1>2, <2>1 DEF At, In, AfterBarrier, Behind
  <2>2. CASE c = 2  BY <1>2, <2>2 DEF At, In, AfterBarrier, Behind
  <2>3. CASE c = 3  BY <1>2, <2>3 DEF At, In, AfterBarrier, Behind
  <2>4. CASE c = 4  BY <1>2, <2>4 DEF At, In, AfterBarrier, Behind
  <2>. QED  BY <2>1, <2>2, <2>3, <2>4 DEF Barriers
<1>3. CASE b = 3
  <2>1. CASE c = 1  BY <1>3, <2>1 DEF At, In, AfterBarrier, Behind
  <2>2. CASE c = 2  BY <1>3, <2>2 DEF At, In, AfterBarrier, Behind
  <2>3. CASE c = 3  BY <1>3, <2>3 DEF At, In, AfterBarrier, Behind
  <2>4. CASE c = 4  BY <1>3, <2>4 DEF At, In, AfterBarrier, Behind
  <2>. QED  BY <2>1, <2>2, <2>3, <2>4 DEF Barriers
<1>4. CASE b = 4
  <2>1. CASE c = 1  BY <1>4, <2>1 DEF At, In, AfterBarrier, Behind
  <2>2. CASE c = 2  BY <1>4, <2>2 DEF At, In, AfterBarrier, Behind
  <2>3. CASE c = 3  BY <1>4, <2>3 DEF At, In, AfterBarrier, Behind
  <2>4. CASE c = 4  BY <1>4, <2>4 DEF At, In, AfterBarrier, Behind
  <2>. QED  BY <2>1, <2>2, <2>3, <2>4 DEF Barriers
<1>. QED  BY <1>1, <1>2, <1>3, <1>4 DEF Barriers

\* The stages around a barrier are stages.
LEMMA BarrierStage ==
  ASSUME NEW b \in Barriers
  PROVE  At[b] \in Stages /\ In[b] \in Stages /\ AfterBarrier[b] \in Stages
<1>1. At[b] \in Stages /\ In[b] \in Stages
  BY DEF Stages
<1>2. AfterBarrier[b] \in Stages
  BY DEF AfterBarrier, Barriers, Stages
<1>. QED  BY <1>1, <1>2

\* The stages of the harts that have reached each barrier.
LEMMA ReachedStages ==
  /\ Reached(1) = {"in 1"} \cup BehindFirst
  /\ Reached(2) = {"in 2"} \cup BehindSecond
  /\ Reached(3) = {"in 3"} \cup BehindThird
  /\ Reached(4) = {"in 4"} \cup BehindFourth
BY DEF Reached, In, Behind

\* Where the other stages lie with respect to barrier c.
LEMMA StageOrder ==
  ASSUME NEW c \in Barriers
  PROVE  /\ \A stage \in {"runtime", "fifo", "failed"} :
              stage \notin Reached(c) /\ stage \notin Behind[c]
         /\ \A stage \in {"data", "inputs", "trapped"} :
              (stage \in Reached(c) <=> c = 1) /\ (stage \in Behind[c] <=> c = 1)
         /\ ("tile" \in Reached(c) <=> c <= 2) /\ ("tile" \in Behind[c] <=> c <= 2)
         /\ ("tokens" \in Reached(c) <=> c <= 3) /\ ("tokens" \in Behind[c] <=> c <= 3)
         /\ \A stage \in {"outputs", "returned"} :
              stage \in Reached(c) /\ stage \in Behind[c]
<1>. USE DEF Reached, BehindFirst, BehindSecond, BehindThird, BehindFourth
<1>1. CASE c = 1  BY <1>1 DEF In, Behind
<1>2. CASE c = 2  BY <1>2 DEF In, Behind
<1>3. CASE c = 3  BY <1>3 DEF In, Behind
<1>4. CASE c = 4  BY <1>4 DEF In, Behind
<1>. QED  BY <1>1, <1>2, <1>3, <1>4 DEF Barriers

\* A move of one hart that reaches no barrier and leaves none keeps the
\* bookkeeping of the barriers (the code of a hart between two barriers).
LEMMA MoveKeepsBarriers ==
  ASSUME TypeOK, Arrivals, Openings, NEW h \in Harts, NEW stage \in Stages,
         Goes(h, stage), arrived' = arrived,
         \A b \in Barriers : pc[h] \in Reached(b) <=> stage \in Reached(b),
         \A b \in Barriers : stage \in Behind[b] => pc[h] \in Behind[b]
  PROVE  Arrivals' /\ Openings'
<1>1. \A g \in Harts : pc'[g] = IF g = h THEN stage ELSE pc[g]
  BY DEF Goes, TypeOK
<1>2. Arrivals'
  BY <1>1 DEF Arrivals, Reached
<1>3. Openings'
  BY <1>1 DEF Openings
<1>. QED  BY <1>2, <1>3

\* Arriving at a barrier is the move that reaches it (fsync_sync).
LEMMA ArriveKeepsBarriers ==
  ASSUME TypeOK, Arrivals, Openings, NEW h \in Harts, NEW b \in Barriers,
         Arrive(h, b)
  PROVE  Arrivals' /\ Openings'
<1>1. \A g \in Harts : pc'[g] = IF g = h THEN In[b] ELSE pc[g]
  BY DEF Goes, TypeOK, Arrive
<1>2. \A c \in Barriers : arrived'[c] = IF c = b THEN arrived[c] \cup {h} ELSE arrived[c]
  BY DEF Arrive, TypeOK
<1>3. \A c \in Barriers : /\ In[b] \in Reached(c) <=> c = b \/ pc[h] \in Reached(c)
                          /\ In[b] \in Behind[c] => pc[h] \in Behind[c]
  BY BarrierOrder DEF Arrive, Barriers
<1>4. Arrivals'
  <2>. SUFFICES ASSUME NEW g \in Harts, NEW c \in Barriers
               PROVE  g \in arrived'[c] <=> pc'[g] \in Reached(c)
    BY DEF Arrivals
  <2>1. g \in arrived[c] <=> pc[g] \in Reached(c)
    BY DEF Arrivals
  <2>2. CASE g = h  BY <1>1, <1>2, <1>3, <2>1, <2>2
  <2>3. CASE g # h  BY <1>1, <1>2, <2>1, <2>3
  <2>. QED  BY <2>2, <2>3
<1>5. \A c \in Barriers : arrived[c] = Harts => arrived'[c] = Harts
  BY <1>2
<1>6. Openings'
  BY <1>1, <1>3, <1>5 DEF Openings
<1>. QED  BY <1>4, <1>6

\* Leaving a barrier, which all harts have reached (eu_fsync_wait).
LEMMA LeaveKeepsBarriers ==
  ASSUME TypeOK, Arrivals, Openings, NEW h \in Harts, NEW b \in Barriers,
         Leave(h, b)
  PROVE  Arrivals' /\ Openings'
<1>1. \A g \in Harts : pc'[g] = IF g = h THEN AfterBarrier[b] ELSE pc[g]
  BY DEF Goes, TypeOK, Leave
<1>2. arrived' = arrived /\ arrived[b] = Harts /\ pc[h] = In[b]
  BY DEF Leave
<1>3. \A c \in Barriers :
        /\ AfterBarrier[b] \in Reached(c) <=> pc[h] \in Reached(c)
        /\ AfterBarrier[b] \in Behind[c] => c = b \/ pc[h] \in Behind[c]
  BY <1>2, BarrierOrder DEF Barriers
<1>4. Arrivals'
  <2>. SUFFICES ASSUME NEW g \in Harts, NEW c \in Barriers
               PROVE  g \in arrived'[c] <=> pc'[g] \in Reached(c)
    BY DEF Arrivals
  <2>1. g \in arrived[c] <=> pc[g] \in Reached(c)
    BY DEF Arrivals
  <2>. QED  BY <1>1, <1>2, <1>3, <2>1
<1>5. Openings'
  BY <1>1, <1>2, <1>3 DEF Openings
<1>. QED  BY <1>4, <1>5

-----------------------------------------------------------------------------
(* Every step of a hart keeps the invariant *)

\* The steps that go from one stage to the next between two barriers.
LEMMA StepKeepsBarriers ==
  ASSUME IInv, NEW h \in Harts, Step(h)
  PROVE  Arrivals' /\ Openings'
<1>1. CASE InitRuntime(h)
  BY <1>1, MoveKeepsBarriers, StageOrder DEF InitRuntime, IInv, Barriers, Stages
<1>2. CASE FailRuntime(h)
  BY <1>2, MoveKeepsBarriers, StageOrder DEF FailRuntime, IInv, Barriers, Stages
<1>3. CASE InitFifo(h)
  BY <1>3, MoveKeepsBarriers, StageOrder, BarrierOrder, BarrierStage
     DEF InitFifo, IInv, Barriers
<1>4. CASE InitData(h)
  BY <1>4, MoveKeepsBarriers, StageOrder DEF InitData, IInv, Barriers, Stages
<1>5. CASE Trap(h)
  BY <1>5, MoveKeepsBarriers, StageOrder DEF Trap, IInv, Barriers, Stages
<1>6. CASE EndInputs(h)
  BY <1>6, MoveKeepsBarriers, StageOrder, BarrierOrder, BarrierStage
     DEF EndInputs, IInv, Barriers
<1>7. CASE InitTile(h)
  BY <1>7, MoveKeepsBarriers, StageOrder, BarrierOrder, BarrierStage
     DEF InitTile, IInv, Barriers
<1>8. CASE EndTokens(h)
  BY <1>8, MoveKeepsBarriers, StageOrder, BarrierOrder, BarrierStage
     DEF EndTokens, IInv, Barriers
<1>9. CASE Return(h)
  BY <1>9, MoveKeepsBarriers, StageOrder DEF Return, IInv, Barriers, Stages
<1>10. CASE HandleInput(h) \/ RunToken(h) \/ HandleOutput(h)
  BY <1>10 DEF HandleInput, RunToken, HandleOutput, IInv, Arrivals, Openings
<1>11. CASE \E b \in Barriers : Arrive(h, b)
  BY <1>11, ArriveKeepsBarriers DEF IInv
<1>12. CASE \E b \in Barriers : Leave(h, b)
  BY <1>12, LeaveKeepsBarriers DEF IInv
<1>. QED  BY <1>1, <1>2, <1>3, <1>4, <1>5, <1>6, <1>7, <1>8, <1>9, <1>10, <1>11, <1>12 DEF Step

\* The stages, the barriers and the counters stay typed (every handler).
LEMMA StepKeepsTypes ==
  ASSUME IInv, NEW h \in Harts, Step(h)
  PROVE  TypeOK'
<1>. USE DEF IInv, TypeOK, Goes, Barriers, Stages
<1>1. CASE InitRuntime(h)
  BY <1>1, BarrierStage, RunnerAssumption DEF InitRuntime
<1>2. CASE FailRuntime(h)
  BY <1>2, BarrierStage, RunnerAssumption DEF FailRuntime
<1>3. CASE InitFifo(h)
  BY <1>3, BarrierStage, RunnerAssumption DEF InitFifo
<1>4. CASE InitData(h)
  BY <1>4, BarrierStage, RunnerAssumption DEF InitData
<1>5. CASE Trap(h)
  BY <1>5, BarrierStage, RunnerAssumption DEF Trap
<1>6. CASE HandleInput(h)
  BY <1>6, BarrierStage, RunnerAssumption DEF HandleInput
<1>7. CASE EndInputs(h)
  BY <1>7, BarrierStage, RunnerAssumption DEF EndInputs
<1>8. CASE InitTile(h)
  BY <1>8, BarrierStage, RunnerAssumption DEF InitTile
<1>9. CASE RunToken(h)
  BY <1>9, BarrierStage, RunnerAssumption DEF RunToken
<1>10. CASE EndTokens(h)
  BY <1>10, BarrierStage, RunnerAssumption DEF EndTokens
<1>11. CASE HandleOutput(h)
  BY <1>11, BarrierStage, RunnerAssumption DEF HandleOutput
<1>12. CASE Return(h)
  BY <1>12, BarrierStage, RunnerAssumption DEF Return
<1>13. ASSUME NEW b \in Barriers, Arrive(h, b)
      PROVE  TypeOK'
  BY <1>13, BarrierStages, BarrierStage, RunnerAssumption DEF Arrive
<1>14. ASSUME NEW b \in Barriers, Leave(h, b)
      PROVE  TypeOK'
  BY <1>14, BarrierStages, BarrierStage, RunnerAssumption DEF Leave
<1>. QED  BY <1>1, <1>2, <1>3, <1>4, <1>5, <1>6, <1>7, <1>8, <1>9, <1>10, <1>11, <1>12, <1>13, <1>14 DEF Step

\* The FIFO of a tile is initialised before the first barrier, its initializers
\* are read between the second and the third (maps_fifo_init,
\* maps_fifo_init_tile).
LEMMA StepKeepsPrepared ==
  ASSUME IInv, NEW h \in Harts, Step(h)
  PROVE  Prepared'
<1>. SUFFICES ASSUME NEW g \in Active
             PROVE  PreparedTile(g)'
  BY DEF Prepared
<1>. PreparedTile(g) /\ h \in Harts /\ g \in Harts
  BY RunnerAssumption DEF IInv, Prepared
<1>. TypeOK
  BY DEF IInv
<1>. USE DEF TypeOK, Goes, PreparedTile, At, BehindFirst, BehindSecond, BehindThird, BehindFourth
<1>1. CASE InitRuntime(h)
  BY <1>1 DEF InitRuntime
<1>2. CASE FailRuntime(h)
  BY <1>2 DEF FailRuntime
<1>3. CASE InitFifo(h)
  BY <1>3 DEF InitFifo
<1>4. CASE InitData(h)
  BY <1>4 DEF InitData
<1>5. CASE Trap(h)
  BY <1>5 DEF Trap
<1>6. CASE HandleInput(h)
  BY <1>6 DEF HandleInput
<1>7. CASE EndInputs(h)
  BY <1>7 DEF EndInputs
<1>8. CASE InitTile(h)
  BY <1>8 DEF InitTile
<1>9. CASE RunToken(h)
  BY <1>9 DEF RunToken
<1>10. CASE EndTokens(h)
  BY <1>10 DEF EndTokens
<1>11. CASE HandleOutput(h)
  BY <1>11 DEF HandleOutput
<1>12. CASE Return(h)
  BY <1>12 DEF Return
<1>13. ASSUME NEW b \in Barriers, Arrive(h, b)
      PROVE  PreparedTile(g)'
  BY <1>13, BarrierStages DEF Arrive
<1>14. ASSUME NEW b \in Barriers, Leave(h, b)
      PROVE  PreparedTile(g)'
  BY <1>14, BarrierStages DEF Leave
<1>. QED  BY <1>1, <1>2, <1>3, <1>4, <1>5, <1>6, <1>7, <1>8, <1>9, <1>10, <1>11, <1>12, <1>13, <1>14 DEF Step

\* Hart 0 has initialised the data before it produces inputs and has produced
\* all inputs before it goes on (initialize_data, the loop over the tokens).
LEMMA StepKeepsFed ==
  ASSUME IInv, NEW h \in Harts, Step(h)
  PROVE  Fed'
<1>. USE DEF IInv, TypeOK, Goes, Fed, At, BehindFirst, BehindSecond, BehindThird, BehindFourth
<1>1. CASE InitRuntime(h)
  BY <1>1, RunnerAssumption DEF InitRuntime
<1>2. CASE FailRuntime(h)
  BY <1>2, RunnerAssumption DEF FailRuntime
<1>3. CASE InitFifo(h)
  BY <1>3, RunnerAssumption DEF InitFifo
<1>4. CASE InitData(h)
  BY <1>4, RunnerAssumption DEF InitData
<1>5. CASE Trap(h)
  BY <1>5, RunnerAssumption DEF Trap
<1>6. CASE HandleInput(h)
  BY <1>6, RunnerAssumption DEF HandleInput
<1>7. CASE EndInputs(h)
  BY <1>7, RunnerAssumption DEF EndInputs
<1>8. CASE InitTile(h)
  BY <1>8, RunnerAssumption DEF InitTile
<1>9. CASE RunToken(h)
  BY <1>9, RunnerAssumption DEF RunToken
<1>10. CASE EndTokens(h)
  BY <1>10, RunnerAssumption DEF EndTokens
<1>11. CASE HandleOutput(h)
  BY <1>11, RunnerAssumption DEF HandleOutput
<1>12. CASE Return(h)
  BY <1>12, RunnerAssumption DEF Return
<1>13. ASSUME NEW b \in Barriers, Arrive(h, b)
      PROVE  Fed'
  BY <1>13, BarrierStages, RunnerAssumption DEF Arrive
<1>14. ASSUME NEW b \in Barriers, Leave(h, b)
      PROVE  Fed'
  BY <1>14, BarrierStages, RunnerAssumption DEF Leave
<1>. QED  BY <1>1, <1>2, <1>3, <1>4, <1>5, <1>6, <1>7, <1>8, <1>9, <1>10, <1>11, <1>12, <1>13, <1>14 DEF Step

\* A tile runs tokens between the third and the fourth barrier only, and all of
\* them (maps_fifo_run_tile_tokens).
LEMMA StepKeepsRan ==
  ASSUME IInv, NEW h \in Harts, Step(h)
  PROVE  Ran'
<1>. SUFFICES ASSUME NEW g \in Active
             PROVE  RanTokens(g)'
  BY DEF Ran
<1>. RanTokens(g) /\ h \in Harts /\ g \in Harts
  BY RunnerAssumption DEF IInv, Ran
<1>. TypeOK
  BY DEF IInv
<1>. USE DEF TypeOK, Goes, RanTokens, At, BehindFirst, BehindSecond, BehindThird, BehindFourth
<1>1. CASE InitRuntime(h)
  BY <1>1 DEF InitRuntime
<1>2. CASE FailRuntime(h)
  BY <1>2 DEF FailRuntime
<1>3. CASE InitFifo(h)
  BY <1>3 DEF InitFifo
<1>4. CASE InitData(h)
  BY <1>4 DEF InitData
<1>5. CASE Trap(h)
  BY <1>5 DEF Trap
<1>6. CASE HandleInput(h)
  BY <1>6 DEF HandleInput
<1>7. CASE EndInputs(h)
  BY <1>7 DEF EndInputs
<1>8. CASE InitTile(h)
  BY <1>8 DEF InitTile
<1>9. CASE RunToken(h)
  BY <1>9 DEF RunToken
<1>10. CASE EndTokens(h)
  BY <1>10 DEF EndTokens
<1>11. CASE HandleOutput(h)
  BY <1>11 DEF HandleOutput
<1>12. CASE Return(h)
  BY <1>12 DEF Return
<1>13. ASSUME NEW b \in Barriers, Arrive(h, b)
      PROVE  RanTokens(g)'
  BY <1>13, BarrierStages DEF Arrive
<1>14. ASSUME NEW b \in Barriers, Leave(h, b)
      PROVE  RanTokens(g)'
  BY <1>14, BarrierStages DEF Leave
<1>. QED  BY <1>1, <1>2, <1>3, <1>4, <1>5, <1>6, <1>7, <1>8, <1>9, <1>10, <1>11, <1>12, <1>13, <1>14 DEF Step

\* Hart 0 handles outputs behind the fourth barrier.
LEMMA StepKeepsHandled ==
  ASSUME IInv, NEW h \in Harts, Step(h)
  PROVE  Handled'
<1>. USE DEF IInv, TypeOK, Goes, Handled, At, BehindFirst, BehindSecond, BehindThird, BehindFourth
<1>1. CASE InitRuntime(h)
  BY <1>1, RunnerAssumption DEF InitRuntime
<1>2. CASE FailRuntime(h)
  BY <1>2, RunnerAssumption DEF FailRuntime
<1>3. CASE InitFifo(h)
  BY <1>3, RunnerAssumption DEF InitFifo
<1>4. CASE InitData(h)
  BY <1>4, RunnerAssumption DEF InitData
<1>5. CASE Trap(h)
  BY <1>5, RunnerAssumption DEF Trap
<1>6. CASE HandleInput(h)
  BY <1>6, RunnerAssumption DEF HandleInput
<1>7. CASE EndInputs(h)
  BY <1>7, RunnerAssumption DEF EndInputs
<1>8. CASE InitTile(h)
  BY <1>8, RunnerAssumption DEF InitTile
<1>9. CASE RunToken(h)
  BY <1>9, RunnerAssumption DEF RunToken
<1>10. CASE EndTokens(h)
  BY <1>10, RunnerAssumption DEF EndTokens
<1>11. CASE HandleOutput(h)
  BY <1>11, RunnerAssumption DEF HandleOutput
<1>12. CASE Return(h)
  BY <1>12, RunnerAssumption DEF Return
<1>13. ASSUME NEW b \in Barriers, Arrive(h, b)
      PROVE  Handled'
  BY <1>13, BarrierStages, RunnerAssumption DEF Arrive
<1>14. ASSUME NEW b \in Barriers, Leave(h, b)
      PROVE  Handled'
  BY <1>14, BarrierStages, RunnerAssumption DEF Leave
<1>. QED  BY <1>1, <1>2, <1>3, <1>4, <1>5, <1>6, <1>7, <1>8, <1>9, <1>10, <1>11, <1>12, <1>13, <1>14 DEF Step

-----------------------------------------------------------------------------
(* The invariant, and what follows from it *)

\* Out of reset no hart has reached a barrier.
LEMMA InitInvariant ==
  ASSUME Init
  PROVE  IInv
<1>1. TypeOK
  <2>1. pc \in [Harts -> Stages]
    BY DEF Init, Stages
  <2>2. 0 \in 0..Tokens
    BY RunnerAssumption
  <2>3. data \in BOOLEAN
    BY DEF Init
  <2>. QED  BY <2>1, <2>2, <2>3 DEF Init, TypeOK
<1>2. Arrivals /\ Openings
  BY StageOrder DEF Init, Arrivals, Openings
<1>3. ASSUME NEW h \in Active
      PROVE  PreparedTile(h) /\ RanTokens(h)
  <2>1. pc[h] = "runtime" /\ ran[h] = 0 /\ h \notin tiles
    BY RunnerAssumption DEF Init
  <2>. QED
    BY <2>1 DEF PreparedTile, RanTokens,
                BehindFirst, BehindSecond, BehindThird, BehindFourth
<1>4. Fed /\ Handled
  BY RunnerAssumption
     DEF Init, Fed, Handled, BehindFirst, BehindSecond, BehindThird, BehindFourth
<1>. QED  BY <1>1, <1>2, <1>3, <1>4 DEF IInv, Prepared, Ran

\* Every step of every hart keeps the invariant.
LEMMA NextInvariant ==
  ASSUME IInv, [Next]_vars
  PROVE  IInv'
<1>1. ASSUME NEW h \in Harts, Step(h)
      PROVE  IInv'
  BY <1>1, StepKeepsTypes, StepKeepsBarriers, StepKeepsPrepared, StepKeepsFed,
     StepKeepsRan, StepKeepsHandled
     DEF IInv
<1>2. CASE UNCHANGED vars
  BY <1>2 DEF IInv, vars, TypeOK, Arrivals, Openings, Prepared, PreparedTile,
              Fed, Ran, RanTokens, Handled
<1>. QED  BY <1>1, <1>2 DEF Next

\* All harts have reached a barrier when one is behind it (eu_fsync_wait).
LEMMA BehindBarrier ==
  ASSUME IInv, NEW b \in Barriers, NEW h \in Harts, pc[h] \in Behind[b]
  PROVE  \A g \in Harts : pc[g] \in Reached(b)
  BY DEF IInv, Arrivals, Openings

\* The invariant holds in every state of the runner (main of the runner).
LEMMA Invariance == Spec => []IInv
<1>1. Init => IInv
  BY InitInvariant
<1>2. IInv /\ [Next]_vars => IInv'
  BY NextInvariant
<1>. QED  BY <1>1, <1>2, PTL DEF Spec

\* The stages, barriers and counters of the runner stay typed, whatever the
\* mesh, the tiles and the number of tokens.
THEOREM RunnerTypeCorrect == Spec => []TypeOK
<1>1. IInv => TypeOK
  BY DEF IInv
<1>. QED  BY <1>1, Invariance, PTL

\* A tile has sent results only to tiles whose FIFO and initializers are ready,
\* for every graph of transfers (maps_fifo_init, fsync, eu_fsync_wait).
THEOREM SendersFindReadyTiles == Spec => []SendsReachReadyTiles
<1>1. ASSUME IInv
      PROVE  SendsReachReadyTiles
  <2>. SUFFICES ASSUME NEW h \in Active, ran[h] > 0, NEW g \in Sends[h] \cup {h}
               PROVE  g \in fifos /\ g \in tiles
    BY DEF SendsReachReadyTiles
  <2>1. h \in Harts /\ g \in Active /\ g \in Harts
    BY RunnerAssumption
  <2>2. pc[h] \in Behind[3]
    BY <1>1 DEF IInv, Ran, RanTokens, Behind
  <2>3. pc[g] \in Reached(3)
    <3>1. 3 \in Barriers
      BY DEF Barriers
    <3>. QED  BY <1>1, <2>1, <2>2, <3>1, BehindBarrier
  <2>. QED
    BY <1>1, <2>1, <2>3, ReachedStages
       DEF IInv, Prepared, PreparedTile, BehindFirst, BehindSecond
<1>. QED  BY <1>1, Invariance, PTL

\* No tile reads from L2 before the data there and the inputs of all tokens are
\* complete (initialize_data, the inputs of hart 0, and the second barrier).
THEOREM ReadersSeeInputs == Spec => []ReadsSeeInputs
<1>1. ASSUME IInv
      PROVE  ReadsSeeInputs
  <2>. SUFFICES ASSUME NEW h \in tiles
               PROVE  data /\ inputs = Tokens
    BY DEF ReadsSeeInputs
  <2>1. h \in Active /\ h \in Harts /\ 0 \in Harts
    BY <1>1, RunnerAssumption DEF IInv, TypeOK
  <2>2. pc[h] \in Behind[2]
    BY <1>1, <2>1 DEF IInv, Prepared, PreparedTile, Behind, BehindSecond
  <2>3. pc[0] \in Reached(2)
    <3>1. 2 \in Barriers
      BY DEF Barriers
    <3>. QED  BY <1>1, <2>1, <2>2, <3>1, BehindBarrier
  <2>. QED
    BY <1>1, <2>3, ReachedStages DEF IInv, Fed
<1>. QED  BY <1>1, Invariance, PTL

\* Hart 0 handles an output when all tiles have run all tokens (the fourth
\* barrier and the loop over the outputs).
THEOREM OutputsComplete == Spec => []OutputsAreComplete
<1>1. ASSUME IInv
      PROVE  OutputsAreComplete
  <2>. SUFFICES ASSUME outputs > 0, NEW h \in Active
               PROVE  ran[h] = Tokens
    BY DEF OutputsAreComplete
  <2>1. h \in Harts /\ 0 \in Harts
    BY RunnerAssumption
  <2>2. pc[0] \in Behind[4]
    BY <1>1 DEF IInv, Handled, Behind
  <2>3. pc[h] \in Reached(4)
    <3>1. 4 \in Barriers
      BY DEF Barriers
    <3>. QED  BY <1>1, <2>1, <2>2, <3>1, BehindBarrier
  <2>. QED
    BY <1>1, <2>3, ReachedStages DEF IInv, Ran, RanTokens
<1>. QED  BY <1>1, Invariance, PTL

\* When any hart fails to start or finds its image misplaced, no hart returns
\* and no output is handled (the early return of main and the trap of
\* initialize_data).
THEOREM FailuresAreNotReported == Spec => []FailureIsNotReported
<1>1. ASSUME IInv
      PROVE  FailureIsNotReported
  <2>. SUFFICES ASSUME NEW h \in Harts, Stopped(h)
               PROVE  outputs = 0 /\ \A g \in Harts : pc[g] # "returned"
    BY DEF FailureIsNotReported
  <2>1. pc[h] \notin Reached(4)
    BY DEF Stopped, Reached, In, Behind, BehindFourth
  <2>2. \A g \in Harts : pc[g] \notin BehindFourth
    BY <1>1, <2>1, BehindBarrier DEF Barriers, Behind
  <2>3. outputs = 0
    BY <1>1, <2>2, RunnerAssumption DEF IInv, Handled, TypeOK
  <2>. QED  BY <2>2, <2>3 DEF BehindFourth
<1>. QED  BY <1>1, Invariance, PTL
=============================================================================
