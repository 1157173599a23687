----------------------------- MODULE ForwardABI -----------------------------
(***************************************************************************)
(* The arguments of @forward through the conversion to D2M (MapsToD2M.cpp, *)
(* MapsABIRewriter.cpp, MapsCleanup.cpp).  An argument that the host sends *)
(* in the init region is a parameter.  Three times a round goes over the   *)
(* function: every slice of a parameter becomes a parameter of its own,    *)
(* the parameters nothing uses are erased, and the others are put in the   *)
(* order in which they are used.  Between the first two rounds the tiles   *)
(* are lowered, and take what the host sends from the slots or the         *)
(* channels; before the third what is dead is erased.                      *)
(*                                                                         *)
(* A value is known by its number: the arguments come first, then the      *)
(* operations; what is created later takes the next.  An operation is      *)
(* [id, kind, of, part, want]: of are its operands, part what a slice      *)
(* takes (a sequence, empty when it takes all), want the data a send or    *)
(* use should get, kept to compare.                                        *)
(***************************************************************************)
EXTENDS Integers, FiniteSets, SequencesExt

CONSTANT Funcs
  \* [args, body, loads]: args names the tensors the host passes; an operation
  \* of body is [kind, of, part, slot], kind "slice", "join", "init" (a send of
  \* the init region, to a slot) or "send"; a load is [slot, form, part].

\* An operation takes arguments and results of operations before it.  A join
\* stands for the operations that do not have one operand.
IsGiven(f) ==
  /\ f.args \in Seq(STRING)
  /\ f.body \in Seq({f.body[k] : k \in DOMAIN f.body})
  /\ \A k \in DOMAIN f.body :
       /\ f.body[k].kind \in {"slice", "join", "init", "send"}
       /\ f.body[k].of \in Seq(1..(Len(f.args) + k - 1))
       /\ Len(f.body[k].of) = IF f.body[k].kind = "join" THEN 2 ELSE 1
       /\ \A j \in DOMAIN f.body[k].of :
            f.body[k].of[j] > Len(f.args) =>
              f.body[f.body[k].of[j] - Len(f.args)].kind \in {"slice", "join"}
       /\ f.body[k].part \in Seq(STRING)
  /\ f.loads \in Seq({f.loads[k] : k \in DOMAIN f.loads})
  /\ \A k \in DOMAIN f.loads :
       /\ \E j \in DOMAIN f.body : f.body[j].kind = "init" /\ f.body[j].slot = f.loads[k].slot
       /\ f.loads[k].part \in Seq(STRING)

ASSUME FuncsAssumption == \A f \in Funcs : IsGiven(f)

VARIABLES
  func,    \* the function as it comes; never changes
  phase,   \* "annotate", "lift", "erase", "reorder", "lower", "cleanup",
           \* "done" or "undefined"
  round,   \* how often the slices have been lifted
  args,    \* the arguments: [id, data, isParameter]
  body,    \* the operations, in walk order
  slots,   \* slotValues: the value in each slot, as analyzeMapsProgram found it
  next,    \* the number of the next value
  lowered, \* how many loads have been lowered
  moved    \* whether a round has put the parameters in another order

vars == <<func, phase, round, args, body, slots, next, lowered, moved>>

Sinks == {"init", "send", "use"}

-----------------------------------------------------------------------------
(* Lists *)

\* The elements of a finite set as a relation orders them.
InOrder(S, R) ==
  [n \in 1..Cardinality(S) |->
     CHOOSE k \in S : Cardinality({j \in S : <<j, k>> \in R}) = n - 1]

Ascending(S) == InOrder(S, {x \in S \X S : x[1] < x[2]})

\* What stands at some of the places of a list.
Kept(list, places) ==
  LET order == Ascending(places) IN [n \in DOMAIN order |-> list[order[n]]]

IdsOf(list) == {list[k].id : k \in DOMAIN list}
Values(xs, ops) == IdsOf(xs) \cup IdsOf(ops)
PlaceOf(list, id) == CHOOSE k \in DOMAIN list : list[k].id = id

-----------------------------------------------------------------------------
(* The data of a value *)

\* What an operation makes of the data of its operands.
Result(op, data) ==
  IF op.kind = "join" THEN <<"join">> \o data[op.of[1]] \o data[op.of[2]]
  ELSE data[op.of[1]] \o op.part

DataOf(xs, ops) ==
  LET of[id \in Values(xs, ops)] ==
        IF id \in IdsOf(xs) THEN xs[PlaceOf(xs, id)].data
        ELSE Result(ops[PlaceOf(ops, id)], of)
  IN of

Data == DataOf(args, body)

ArgIds == IdsOf(args)
OpIds == IdsOf(body)

\* The function as it comes, and the data of its values.
GivenArgs ==
  [k \in DOMAIN func.args |-> [id |-> k, data |-> <<func.args[k]>>, isParameter |-> FALSE]]
GivenOps ==
  [k \in DOMAIN func.body |->
     [id |-> Len(func.args) + k, kind |-> func.body[k].kind, of |-> func.body[k].of,
      part |-> func.body[k].part, want |-> <<>>]]
Meaning == DataOf(GivenArgs, GivenOps)

InitSends == {k \in DOMAIN func.body : func.body[k].kind = "init"}

\* The send whose value a slot holds: a slot that is stored to more than once
\* holds what is stored last.  The stores are taken in the order of their sends.
SendsTo(s) == {k \in InitSends : func.body[k].slot = s}
SlotSend(s) == CHOOSE k \in SendsTo(s) : \A j \in SendsTo(s) : j <= k
SlotMeaning(s) == Meaning[func.body[SlotSend(s)].of[1]]

Init ==
  /\ func \in Funcs
  /\ phase = "annotate" /\ round = 0 /\ lowered = 0 /\ moved = FALSE
  /\ args = GivenArgs
  /\ body = [k \in DOMAIN func.body |->
               IF func.body[k].kind \in Sinks
               THEN [GivenOps[k] EXCEPT !.want = Meaning[func.body[k].of[1]]]
               ELSE GivenOps[k]]
  /\ slots = [s \in {func.body[k].slot : k \in InitSends} |->
                func.body[SlotSend(s)].of[1]]
  /\ next = Len(func.args) + Len(func.body) + 1

-----------------------------------------------------------------------------
(* annotateForwardFunc *)

\* getRootBlockArgument: through operations of one operand; 0 for none.
Root ==
  LET of[id \in 1..(Len(func.args) + Len(func.body))] ==
        IF id <= Len(func.args) THEN id
        ELSE LET op == func.body[id - Len(func.args)]
             IN IF Len(op.of) = 1 THEN of[op.of[1]] ELSE 0
  IN of

\* The arguments that the host sends in the init region.
Stored == {Root[func.body[k].of[1]] : k \in InitSends}

Annotate ==
  /\ phase = "annotate"
  /\ phase' = "lift" /\ round' = 1
  /\ args' = [k \in DOMAIN args |->
                [args[k] EXCEPT !.isParameter = args[k].id \in Stored]]
  /\ UNCHANGED <<func, body, slots, next, lowered, moved>>

-----------------------------------------------------------------------------
(* A round *)

\* replaceAllUsesWith, for all values in the domain of a function.
Substituted(ops, by) ==
  [k \in DOMAIN ops |->
     [ops[k] EXCEPT !.of = [j \in DOMAIN @ |-> IF @[j] \in DOMAIN by THEN by[@[j]] ELSE @[j]]]]

ParameterPlaces == {k \in DOMAIN args : args[k].isParameter}
Parameters == {args[k].id : k \in ParameterPlaces}

\* Mutant of SliceKey: slices of one argument are told apart by nothing.
SliceKeyOfArgument(op) == <<op.of[1], <<>>>>

\* getSliceKey: the argument and what is taken of it.
SliceKey(op) == <<op.of[1], op.part>>

\* Mutant of Remaining: a slice that is lifted is erased.
WithoutLifted(ops) ==
  SelectSeq(ops, LAMBDA op : ~(op.kind = "slice" /\ op.of[1] \in Parameters))

\* The slices stay where they are, without uses.
Remaining(ops) == ops

\* The slices of parameters, and those of them that do not take all.
Slices == {k \in DOMAIN body : body[k].kind = "slice" /\ body[k].of[1] \in Parameters}
Cuts == {k \in Slices : body[k].part # <<>>}

\* The first slice of each key, argument by argument.
FirstCuts == {k \in Cuts : \A j \in Cuts : SliceKey(body[j]) = SliceKey(body[k]) => k <= j}

LiftsBefore(j, k) ==
  LET a == PlaceOf(args, body[j].of[1])
      b == PlaceOf(args, body[k].of[1])
  IN a < b \/ (a = b /\ j < k)

Lifts == InOrder(FirstCuts, {x \in FirstCuts \X FirstCuts : LiftsBefore(x[1], x[2])})
Number(k) == CHOOSE n \in DOMAIN Lifts : SliceKey(body[Lifts[n]]) = SliceKey(body[k])

\* What stands for a slice: its argument, if it takes all of it, or the new
\* parameter of its key.
Lifted ==
  [id \in {body[k].id : k \in Slices} |->
     LET k == PlaceOf(body, id)
     IN IF k \in Cuts THEN next - 1 + Number(k) ELSE body[k].of[1]]

\* liftParameterSlices
Lift ==
  /\ phase = "lift"
  /\ phase' = "erase"
  /\ args' = args \o [n \in DOMAIN Lifts |->
                         [id |-> next - 1 + n, data |-> Data[body[Lifts[n]].id],
                          isParameter |-> TRUE]]
  /\ body' = Remaining(Substituted(body, Lifted))
  /\ next' = next + Len(Lifts)
  /\ UNCHANGED <<func, round, slots, lowered, moved>>

UsersOf(id) == {k \in DOMAIN body : \E j \in DOMAIN body[k].of : body[k].of[j] = id}

\* Mutant of IsErased: what only the init region sends counts as unused.
IsOnlySent(arg) == (\A k \in UsersOf(arg.id) : body[k].kind = "init") /\ arg.isParameter

\* Mutant of IsErased: inputs that nothing uses are erased as well.
IsUnused(arg) == UsersOf(arg.id) = {}

IsErased(arg) == UsersOf(arg.id) = {} /\ arg.isParameter

\* eraseUnusedParameterArgs
Erase ==
  /\ phase = "erase"
  /\ phase' = "reorder"
  /\ args' = Kept(args, {k \in DOMAIN args : ~IsErased(args[k])})
  /\ UNCHANGED <<func, round, body, slots, next, lowered, moved>>

\* A parameter without a use comes last.
FirstUse(arg) ==
  IF UsersOf(arg.id) = {} THEN Len(body) + 1
  ELSE CHOOSE k \in UsersOf(arg.id) : \A j \in UsersOf(arg.id) : k <= j

\* Mutant of ComesBefore: the order of the arguments is kept.
KeepsItsPlace(j, k) == j < k

ComesBefore(j, k) ==
  \/ FirstUse(args[j]) < FirstUse(args[k])
  \/ FirstUse(args[j]) = FirstUse(args[k]) /\ j < k

Wanted ==
  InOrder(ParameterPlaces, {x \in ParameterPlaces \X ParameterPlaces : ComesBefore(x[1], x[2])})

\* What stands for a parameter when all are created again.
Renewed ==
  [id \in Parameters |-> next - 1 + CHOOSE n \in DOMAIN Wanted : args[Wanted[n]].id = id]

\* reorderParameterArgsByFirstUse: if they are not in order, all parameters are
\* created again behind the other arguments, and the old ones erased.
Reorder ==
  /\ phase = "reorder"
  /\ phase' = CASE round = 1 -> "lower" [] round = 2 -> "cleanup" [] OTHER -> "done"
  /\ IF Wanted = Ascending(ParameterPlaces) THEN UNCHANGED <<args, body, next, moved>>
     ELSE /\ args' = Kept(args, DOMAIN args \ ParameterPlaces)
                     \o [n \in DOMAIN Wanted |-> [args[Wanted[n]] EXCEPT !.id = next - 1 + n]]
          /\ body' = Substituted(body, Renewed)
          /\ next' = next + Len(Wanted)
          /\ moved' = TRUE
  /\ UNCHANGED <<func, round, slots, lowered>>

-----------------------------------------------------------------------------
(* Lowering the tiles, as far as their loads go *)

\* createDirectStaticSlice: the value that slices are taken of, and the part.
Direct(xs, ops) ==
  LET of[id \in Values(xs, ops)] ==
        IF id \in IdsOf(ops) /\ ops[PlaceOf(ops, id)].kind = "slice"
        THEN LET up == of[ops[PlaceOf(ops, id)].of[1]]
             IN [of |-> up.of, part |-> up.part \o ops[PlaceOf(ops, id)].part]
        ELSE [of |-> id, part |-> <<>>]
  IN of

\* What a load takes: what its slot was found to hold, or, when the tile
\* receives it itself, what the host sends now.
Source(load) ==
  IF load.form = "recv"
  THEN body[PlaceOf(body, Len(func.args) + SlotSend(load.slot))].of[1]
  ELSE slots[load.slot]

\* It is used whole, a slice of it is cloned (hoistValue), or a part is cut
\* out (createDirectStaticSlice).
SliceOf(load, source) ==
  LET direct == Direct(args, body)[source]
      from == IF load.form = "cut" THEN direct.of ELSE source
      part == IF load.form = "cut" THEN direct.part \o load.part ELSE load.part
  IN [id |-> next, kind |-> "slice", of |-> <<from>>, part |-> part, want |-> <<>>]

\* When the argument in the slot has been erased, anything may follow.
LowerLoad ==
  /\ phase = "lower" /\ lowered < Len(func.loads)
  /\ LET load == func.loads[lowered + 1]
         source == Source(load)
         slice == IF load.part = <<>> THEN <<>> ELSE <<SliceOf(load, source)>>
         use == [id |-> next + 1, kind |-> "use",
                 of |-> <<IF load.part = <<>> THEN source ELSE next>>, part |-> <<>>,
                 want |-> SlotMeaning(load.slot) \o load.part]
     IN IF source \in ArgIds \cup OpIds
        THEN /\ body' = body \o slice \o <<use>>
             /\ next' = next + 2
             /\ lowered' = lowered + 1
             /\ UNCHANGED phase
        ELSE /\ phase' = "undefined"
             /\ UNCHANGED <<body, next, lowered>>
  /\ UNCHANGED <<func, round, args, slots, moved>>

\* eraseHostToTileSends
EraseHostSends ==
  /\ phase = "lower" /\ lowered = Len(func.loads)
  /\ phase' = "lift" /\ round' = 2
  /\ body' = Kept(body, {k \in DOMAIN body : body[k].kind \notin {"init", "send"}})
  /\ UNCHANGED <<func, args, slots, next, lowered, moved>>

\* What stands for a value once slices that take all are folded.
Folds(xs, ops) ==
  LET of[id \in Values(xs, ops)] ==
        IF id \in IdsOf(ops) /\ ops[PlaceOf(ops, id)].kind = "slice" /\ ops[PlaceOf(ops, id)].part = <<>>
        THEN of[ops[PlaceOf(ops, id)].of[1]] ELSE id
  IN of

\* The places of the operations whose results reach a use.
LivePlaces(ops) ==
  LET live[k \in DOMAIN ops] ==
        \/ ops[k].kind \in Sinks
        \/ \E j \in {i \in DOMAIN ops : \E n \in DOMAIN ops[i].of : ops[i].of[n] = ops[k].id} :
             live[j]
  IN {k \in DOMAIN ops : live[k]}

\* cleanupGeneratedIR: slices that take all are folded and what is dead is
\* erased, until nothing changes.
Cleanup ==
  /\ phase = "cleanup"
  /\ phase' = "lift" /\ round' = 3
  /\ LET folded == Substituted(body, Folds(args, body))
     IN body' = Kept(folded, LivePlaces(folded))
  /\ UNCHANGED <<func, args, slots, next, lowered, moved>>

Next ==
  \/ Annotate \/ Lift \/ Erase \/ Reorder
  \/ LowerLoad \/ EraseHostSends \/ Cleanup

Spec == Init /\ [][Next]_vars

-----------------------------------------------------------------------------
(* What is expected *)

\* Arguments and operations have numbers of their own, and while the tiles are
\* not lowered every operand is one of them.
TypeOK ==
  /\ phase \in {"annotate", "lift", "erase", "reorder", "lower", "cleanup", "done",
               "undefined"}
  /\ ArgIds \cap OpIds = {} /\ Cardinality(ArgIds) = Len(args)
  /\ Cardinality(OpIds) = Len(body)
  /\ \A id \in ArgIds \cup OpIds : id \in 1..(next - 1)
  /\ \A k \in DOMAIN body : \A j \in DOMAIN body[k].of :
       body[k].of[j] \in ArgIds \cup OpIds

\* Lifting, erasing, reordering and cleaning up never change what is sent or
\* used: each sink gets the data the function as it comes gives it, if the
\* caller passes each new parameter the slice it was made for.
UsesKeepTheirData ==
  \A k \in DOMAIN body : body[k].kind \in Sinks => Data[body[k].of[1]] = body[k].want

\* The arguments as they come that no send of the init region goes back to.
Inputs == Ascending({k \in DOMAIN func.args : k \notin Stored})

\* The inputs are what the caller passes on every call: none is dropped, even
\* one that is not used, and their order stays, whatever is lifted, erased or
\* reordered around them.
InputsKeepTheirOrder ==
  phase # "annotate" =>
    LET inputs == Kept(args, DOMAIN args \ ParameterPlaces)
    IN [k \in DOMAIN inputs |-> inputs[k].id] = Inputs

\* No slice is taken of a slice: neither by what the host sends nor by a load.
IsFlat ==
  /\ \A k \in DOMAIN func.body : func.body[k].kind = "slice" => func.body[k].of[1] <= Len(func.args)
  /\ \A k \in DOMAIN func.loads :
       func.loads[k].form \notin {"recv", "cut"} /\ func.loads[k].part # <<>> =>
         func.body[SlotSend(func.loads[k].slot)].of[1] <= Len(func.args)

\* The rounds leave the parameters of @forward in the order of their first use
\* and, unless slices are taken of slices, none that nothing needs.
ParametersAreInOrder ==
  phase = "done" =>
    /\ \A j, k \in ParameterPlaces :
         j < k => \/ FirstUse(args[j]) < FirstUse(args[k])
                  \/ UsersOf(args[j].id) \cap UsersOf(args[k].id) # {}
    /\ IsFlat => \A k \in ParameterPlaces : UsersOf(args[k].id) \cap LivePlaces(body) # {}

\* A slot holds a value as long as the round before the tiles are lowered
\* leaves the parameters in their order.
SlotsSurviveInOrder == phase = "undefined" => moved

\* The same whatever the order: maps.store is to "store a value for later
\* retrival".
StoredValuesCanBeLoaded == phase # "undefined"

=============================================================================
