--------------------------- MODULE ArgumentChain ---------------------------
(***************************************************************************)
(* The derivative layout of an action whose arguments are streamed through *)
(* a chain (ActionWithArguments, src/src/core/PbcAction.cpp).              *)
(*                                                                         *)
(*  - requestArguments (2688-2877), on its done_over_stream path, lists     *)
(*    the distinct actions the arguments come from (distinct_arguments,   *)
(*    each with a kind: 0 chained, 1 stored, 2 average) and gives every     *)
(*    argument the start of its block of derivatives (arg_deriv_starts).   *)
(*  - setupActionInChain (2920-2943) sizes the derivative buffer of the    *)
(*    action by summing a block per distinct action.                       *)
(*  - setForcesOnArguments (3128-3164) walks the same distinct actions and *)
(*    takes from the force vector one force per derivative of each block.  *)
(*                                                                         *)
(* Forward code (FunctionOfMatrix::performTask) writes the derivatives of  *)
(* argument j at arg_deriv_starts[j] + k; the backward pass reads them at  *)
(* the cursor setForcesOnArguments keeps.  The two must agree.             *)
(*                                                                         *)
(* An argument is a value <<action, component>>.  Which values are stored  *)
(* for this action (store_data_for holds its label) is chosen in Init,     *)
(* under the rules of requestArguments: rank-0 values, constants and       *)
(* averages are always stored for it.  getFirstNonStream is taken to be    *)
(* the argument's own action (an argument that is not itself a chained     *)
(* function, or one that mustBeTreatedAsDistinctArguments).                *)
(***************************************************************************)
EXTENDS Naturals, Sequences, SequencesExt, FiniteSets

CONSTANTS
  Acts,       \* the actions arguments can come from
  NComp,      \* NComp[a]: a->getNumberOfComponents()
  NDer,       \* NDer[a]: a->getNumberOfDerivatives()
  IsAverage,  \* IsAverage[a]: dynamic_cast<AverageBase*>(a)
  NVals,      \* NVals[v]: v->getNumberOfValues()
  Rank0,      \* Rank0[v]: v->getRank()==0
  Constant,   \* Constant[v]: v->isConstant()
  Ones,       \* Ones[v]: v->getName() contains "_ones"
  NArgs,      \* getNumberOfArguments()
  ArgStart    \* argstart

Vals == UNION {{<<a, c>> : c \in 1..NComp[a]} : a \in Acts}
ActionOf(v) == v[1]

ASSUME ChainAssumption ==
  /\ NComp \in [Acts -> 1..3]
  /\ NDer \in [Acts -> Nat \ {0}]
  /\ IsAverage \in [Acts -> BOOLEAN]
  /\ NVals \in [Vals -> Nat \ {0}]
  /\ \A v \in Vals : Rank0[v] => NVals[v] = 1
  /\ ArgStart \in Nat /\ NArgs \in Nat /\ ArgStart < NArgs

\* A component of an action with several components has no more tasks than
\* the action has derivatives.  The code does not check this: it holds for
\* the atomistic actions with several vector components (three derivatives
\* per atom and nine for the box, one task per atom or pair).  Without it a
\* stored component sharing its action's chained block overruns the block.
ASSUME ComponentsFitAssumption ==
  \A v \in Vals : NComp[v[1]] > 1 /\ ~Rank0[v] => NVals[v] <= NDer[v[1]]

\* Argument positions (1-based) that requestArguments lays out.
Streamed == (ArgStart + 1)..NArgs

VARIABLES
  args,      \* arguments: args[p] is the value of argument p - 1
  stored,    \* the values whose store_data_for holds this action's label
  distinct,  \* distinct_arguments: a sequence of <<action, kind>>
  starts,    \* arg_deriv_starts: starts[p - ArgStart] for argument p
  nder,      \* requestArguments' running count of derivatives
  nderivs,   \* the buffer size setupActionInChain returns
  offsets,   \* offsets[k]: the force cursor when block k is read
  start,     \* setForcesOnArguments' cursor into the force vector
  pc         \* "request", "setup", "forces", "done" or "error"

vars == <<args, stored, distinct, starts, nder, nderivs, offsets, start, pc>>

Stored(v) == v \in stored

\* The kind of the block a new distinct argument opens (lines 2805-2811
\* for the first argument, 2849-2860 for the others).  A constant is
\* always stored, so the two forms of the test agree.
KindOf(v) ==
  IF IsAverage[ActionOf(v)] THEN 2
  ELSE IF ~Constant[v] /\ ~Stored(v) THEN 0 ELSE 1

\* The derivatives requestArguments reserves for that block.
ReqWidth(v) ==
  CASE KindOf(v) = 0 -> NDer[ActionOf(v)]
    [] KindOf(v) = 2 -> 1
    [] KindOf(v) = 1 -> NVals[v]

\* Mutant: a new block is given the start of the block after it.
AddArgumentLateStart(r, p) ==
  LET a     == ActionOf(args[p])
      found == {k \in 1..Len(r.d) : r.d[k][1] = a}
  IN  IF found # {}
        THEN [r EXCEPT !.s = Append(@, r.s[CHOOSE k \in found : TRUE])]
        ELSE [d |-> Append(r.d, <<a, KindOf(args[p])>>),
              s |-> Append(r.s, r.n + ReqWidth(args[p])),
              n |-> r.n + ReqWidth(args[p])]

\* Argument p is laid out: a repeat of a distinct action reuses
\* arg_deriv_starts[argno], where argno is the distinct action's position
\* in distinct_arguments; a new action opens a block at nder.
AddArgument(r, p) ==
  LET a     == ActionOf(args[p])
      found == {k \in 1..Len(r.d) : r.d[k][1] = a}
  IN  IF found # {}
        THEN [r EXCEPT !.s = Append(@, r.s[CHOOSE k \in found : TRUE])]
        ELSE [d |-> Append(r.d, <<a, KindOf(args[p])>>),
              s |-> Append(r.s, r.n),
              n |-> r.n + ReqWidth(args[p])]

\* The layout after arguments ArgStart+1..p.
Layout[p \in Streamed] ==
  IF p = ArgStart + 1
    THEN [d |-> <<<<ActionOf(args[p]), KindOf(args[p])>>>>,
          s |-> <<0>>, n |-> ReqWidth(args[p])]
    ELSE AddArgument(Layout[p - 1], p)

\* requestArguments on its done_over_stream path: one argument alone gets
\* a second start, its end.
RequestArguments ==
  /\ pc = "request"
  /\ LET r == Layout[NArgs] IN
       /\ distinct' = r.d
       /\ starts' = IF NArgs = 1 THEN Append(r.s, r.n) ELSE r.s
       /\ nder' = r.n
  /\ pc' = "setup"
  /\ UNCHANGED <<args, stored, nderivs, offsets, start>>

\* The positions, among all arguments, of those from action a.
FromAction(a) == {p \in 1..NArgs : ActionOf(args[p]) = a}

\* setupActionInChain's block for a distinct argument.
SetupWidth(e) ==
  IF e[2] = 0 THEN NDer[e[1]]
  ELSE IF NComp[e[1]] = 1 THEN NVals[<<e[1], 1>>]
  ELSE LET p == CHOOSE q \in FromAction(e[1]) : TRUE
       IN  IF e[2] = 2 THEN 1 ELSE NVals[args[p]]

\* "cannot use more than one argument from an action at once in this way"
SetupFails ==
  \E k \in 1..Len(distinct) :
    /\ distinct[k][2] # 0
    /\ NComp[distinct[k][1]] > 1
    /\ Cardinality(FromAction(distinct[k][1])) > 1

SetupActionInChain ==
  /\ pc = "setup"
  /\ IF SetupFails
       THEN /\ pc' = "error"
            /\ UNCHANGED nderivs
       ELSE /\ nderivs' = FoldLeft(LAMBDA acc, e : acc + SetupWidth(e), 0, distinct)
            /\ pc' = "forces"
  /\ UNCHANGED <<args, stored, distinct, starts, nder, offsets, start>>

\* The forces one distinct argument takes: a chained action takes one per
\* derivative (setForcesOnActionChain); otherwise every stored argument
\* from the action takes one per value (one for an average), except that a
\* repeated "_ones" argument is skipped.
ForceWidth(e) ==
  IF e[2] = 0 THEN NDer[e[1]]
  ELSE LET take(acc, v) ==
             IF ~Stored(v) \/ ActionOf(v) # e[1] \/ v \in acc.added THEN acc
             ELSE [added |-> IF Ones[v] THEN acc.added \cup {v} ELSE acc.added,
                   n     |-> acc.n + (IF e[2] = 2 THEN 1 ELSE NVals[v])]
       IN  FoldLeft(take, [added |-> {}, n |-> 0], SubSeq(args, ArgStart + 1, NArgs)).n

\* setForcesOnArguments(argstart, forces, start) from start = 0.
SetForcesOnArguments ==
  /\ pc = "forces"
  /\ LET w == [k \in 1..Len(distinct) |-> ForceWidth(distinct[k])]
     IN  /\ offsets' = [k \in 1..Len(distinct) |->
                          FoldLeft(LAMBDA s1, s2 : s1 + s2, 0, SubSeq(w, 1, k - 1))]
         /\ start' = FoldLeft(LAMBDA s1, s2 : s1 + s2, 0, w)
  /\ pc' = "done"
  /\ UNCHANGED <<args, stored, distinct, starts, nder, nderivs>>

Finished ==
  /\ pc \in {"done", "error"}
  /\ UNCHANGED vars

\* Any arguments, with any choice of stored values the rules allow, such
\* that at least one streamed argument is chained (done_over_stream).
Init ==
  /\ args \in [1..NArgs -> Vals]
  /\ stored \in {S \in SUBSET Vals :
                   \A v \in Vals : Rank0[v] \/ Constant[v] \/ IsAverage[ActionOf(v)] => v \in S}
  /\ \E p \in Streamed : ~Constant[args[p]] /\ args[p] \notin stored
  /\ distinct = <<>> /\ starts = <<>> /\ nder = 0
  /\ nderivs = 0 /\ offsets = <<>> /\ start = 0
  /\ pc = "request"

Next ==
  \/ RequestArguments
  \/ SetupActionInChain
  \/ SetForcesOnArguments
  \/ Finished

Spec == Init /\ [][Next]_vars

-----------------------------------------------------------------------------
(* Properties.                                                             *)

\* The block of derivatives argument p occupies when the forward pass
\* writes them: a streamed argument one slot per derivative of its action
\* (FunctionOfMatrix.h:215, arg_deriv_starts[j] + kind), a stored one one
\* slot per value (getArgumentPositionInStream's task index), an average
\* one slot.
ArgWidth(v) ==
  IF ~Stored(v) THEN NDer[ActionOf(v)]
  ELSE IF IsAverage[ActionOf(v)] THEN 1 ELSE NVals[v]

StartOf(p) == starts[p - ArgStart]

\* The position in distinct_arguments of the block of action a.
BlockOf(a) == CHOOSE k \in 1..Len(distinct) : distinct[k][1] = a

\* Every argument's derivatives, at arg_deriv_starts from requestArguments,
\* lie inside the buffer setupActionInChain sized: the forward pass of a
\* chained function never writes past getNumberOfDerivatives().
BlocksWithinBuffer ==
  pc \in {"forces", "done"} =>
    \A p \in Streamed : StartOf(p) + ArgWidth(args[p]) <= nderivs

\* The backward pass mirrors the forward pass's index bookkeeping (spec,
\* "a backward force-application pass that must exactly mirror the forward
\* pass's index bookkeeping"): the force setForcesOnArguments hands to an
\* argument's action is read at the start requestArguments gave its
\* derivatives.
StartsMatchForceLayout ==
  pc = "done" =>
    \A p \in Streamed : StartOf(p) = offsets[BlockOf(ActionOf(args[p]))]

\* setForcesOnArguments takes exactly as many forces as setupActionInChain
\* made room for: none is left unread and none is read past the end.
ForcesConsumeExactly == pc = "done" => start = nderivs
=============================================================================
