-------------------------- MODULE HistogramTasks ---------------------------
(***************************************************************************)
(* HistogramBase (src/src/gridtools/HistogramBase.cpp): the normalisation  *)
(* shortcut, the constructor that checks the arguments' sizes and builds   *)
(* the task list, buildCurrentTaskList and the accumulation of one         *)
(* kernel per task in gatherGridAccumulators.                              *)
(*                                                                         *)
(* An argument is its rank (0 or 1) and its number of values.  arg_ends is *)
(* empty when the constructor starts: nothing before it fills it (neither  *)
(* ActionWithArguments's constructor nor requestArguments), so nvals is 1  *)
(* and the group check of lines 75-78 never runs.  A kernel is its height, *)
(* the weight it puts on the grid, so the weight one calculate() deposits  *)
(* is the sum of the heights passed to addKernelToGrid, kept as a fraction *)
(* [n, d].                                                                 *)
(***************************************************************************)
EXTENDS Naturals, Sequences, Functions

CONSTANTS
  HKinds,    \* the arguments an ARG or a HEIGHTS may name: [rank, len]
  NHArgs,    \* the arguments given to ARG
  MaxH       \* heights take values in 0..MaxH

\* Value::getNumberOfValues.
NV(a) == IF a.rank = 1 THEN a.len ELSE 1

\* What the arguments can be; MCTaskDerivatives assumes it of its constants.
HistogramAssumption ==
  /\ HKinds \subseteq [rank : {0, 1}, len : Nat \ {0}]
  /\ \A a \in HKinds : a.rank = 0 => a.len = 1
  /\ NHArgs \in Nat \ {0}
  /\ MaxH \in Nat

HMaxLen == CHOOSE n \in {a.len : a \in HKinds} : \A a \in HKinds : a.len <= n
HTasks == 0..(NHArgs * HMaxLen - 1)

VARIABLES
  hkeys,     \* the shortcut's keys: HEIGHTS and UNORMALIZED given or not
  hargs,     \* the ARG arguments, 1..NHArgs
  harg,      \* the argument HEIGHTS names
  chain,     \* distinct_arguments is not empty: the action joins a chain
  hvals,     \* hvals[t]: element t of the heights
  actions,   \* the actions the shortcut writes
  hcfg,      \* what the constructor set: ntasks, unorm, heights, ends
  norm,      \* the member norm
  weight,    \* the weight deposited on the grid in this calculate()
  hdone,     \* the tasks gathered
  hpc        \* "shortcut", "construct", "calc", "gather" or an outcome

hVars == <<hkeys, hargs, harg, chain, hvals, actions, hcfg, norm, weight,
           hdone, hpc>>

Act(lab, type, unorm, heights) ==
  [lab |-> lab, type |-> type, unorm |-> unorm, heights |-> heights]

\* resolveNormalizationShortcut: with HEIGHTS and without UNORMALIZED, the
\* sum of the heights (COMBINE), an unnormalised histogram lab_unorm with
\* the heights, and lab = lab_unorm / lab_hsum (MATHEVAL); otherwise one
\* histogram lab with the keys as given.
Expand(k) ==
  IF k.heights /\ ~k.unorm
    THEN << Act("hsum", "COMBINE", FALSE, FALSE),
            Act("unorm", "HIST", TRUE, TRUE),
            Act("lab", "MATHEVAL", FALSE, FALSE) >>
    ELSE << Act("lab", "HIST", k.unorm, k.heights) >>

\* The values of group g: the arguments ends[g] .. ends[g+1]-1 (from 0).
GroupVals(as, ends, g) ==
  SumFunctionOnSet([i \in DOMAIN as |-> NV(as[i])],
                   {i \in DOMAIN as : ends[g] < i /\ i <= ends[g + 1]})

\* The histogram the shortcut wrote.
Hist == actions[CHOOSE i \in DOMAIN actions : actions[i].type = "HIST"]

Init ==
  /\ hkeys \in [heights : BOOLEAN, unorm : BOOLEAN]
  /\ hargs \in [1..NHArgs -> HKinds]
  /\ harg \in HKinds
  /\ chain \in BOOLEAN
  /\ hvals \in [HTasks -> 0..MaxH]
  /\ actions = <<>>
  /\ hcfg = [ntasks |-> 0, unorm |-> FALSE, heights |-> FALSE, ends |-> <<>>]
  /\ norm = 0
  /\ weight = [n |-> 0, d |-> 1]
  /\ hdone = {}
  /\ hpc = "shortcut"

Shortcut ==
  /\ hpc = "shortcut"
  /\ actions' = Expand(hkeys)
  /\ hpc' = "construct"
  /\ UNCHANGED <<hkeys, hargs, harg, chain, hvals, hcfg, norm,
                 weight, hdone>>

\* The constructor, lines 64-139: arg_ends is empty, so nvals is 1 and
\* arg_ends is made one argument per group (lines 72-80); HEIGHTS must have
\* nvals values and is appended as a group of its own (lines 85-96);
\* UNORMALIZED is read; then the tasks.  In a chain (lines 104-129) each
\* later argument must be a group of its own with the first's shape, read
\* as getShape()[0] even when it has rank 0: that read of an empty shape is
\* undefined, so it may crash, or pass or fail the comparison.  Outside a
\* chain, vectors give one task per value (every argument must then be a
\* vector, line 133); scalars one argument per group give one kernel at a
\* time (its tasks are grid points); grouped scalars one task per value.
Construct ==
  /\ hpc = "construct"
  /\ LET heights == Hist.heights
         nvals == 1
         ends1 == [i \in 1..(NHArgs + 1) |-> i - 1]
         as == IF heights THEN Append(hargs, harg) ELSE hargs
         ends == IF heights THEN Append(ends1, NHArgs + 1) ELSE ends1
         n0 == NV(as[1])
         later == 1..(Len(as) - 1)
         Bad(i) == \/ i + 1 > Len(ends)
                   \/ ends[i + 1] # i
                   \/ as[1].rank = 0 /\ as[i + 1].rank # 0
                   \/ as[i + 1].rank = 1 /\ as[i + 1].len # n0
         UB(i) == ~Bad(i) /\ as[i + 1].rank = 0 /\ as[1].rank = 1
         outs == IF chain
                   THEN (IF \E i \in later : Bad(i) \/ UB(i) THEN {"error"} ELSE {})
                        \cup (IF \A i \in later : ~Bad(i) THEN {"chained"} ELSE {})
                        \cup (IF \E i \in later : UB(i) /\ \A j \in 1..(i - 1) : ~Bad(j)
                                THEN {"crash"} ELSE {})
                 ELSE IF as[1].rank > 0
                   THEN IF \E i \in DOMAIN as : as[i].rank = 0 THEN {"assert"}
                        ELSE {"calc"}
                 ELSE IF \A i \in DOMAIN ends : ends[i] = i - 1 THEN {"kernel"}
                 ELSE {"calc"}
     IN  IF heights /\ NV(harg) # nvals
           THEN hpc' = "error" /\ UNCHANGED hcfg
           ELSE /\ hpc' \in outs
                /\ hcfg' = [ntasks |-> IF chain THEN n0 ELSE nvals,
                            unorm |-> Hist.unorm, heights |-> heights,
                            ends |-> ends]
  /\ UNCHANGED <<hkeys, hargs, harg, chain, hvals, actions, norm,
                 weight, hdone>>

\* calculate() outside a chain runs all tasks; buildCurrentTaskList, not
\* one kernel at a time, flags every task and sets norm to their number.
Calc ==
  /\ hpc = "calc"
  /\ norm' = hcfg.ntasks
  /\ weight' = [n |-> 0, d |-> 1]
  /\ hdone' = {}
  /\ hpc' = "gather"
  /\ UNCHANGED <<hkeys, hargs, harg, chain, hvals, actions, hcfg>>

\* gatherGridAccumulators for task t (lines 221-229): height 1, or element
\* t of the heights; divided by norm unless unorm; a kernel of that height
\* is added when it is not zero.
Gather(t) ==
  /\ hpc = "gather"
  /\ t \in 0..(hcfg.ntasks - 1) \ hdone
  /\ LET h == IF hcfg.heights THEN hvals[t] ELSE 1
         d == IF hcfg.unorm THEN 1 ELSE norm
     IN  weight' = IF h # 0 THEN [n |-> weight.n * d + h * weight.d,
                                  d |-> weight.d * d]
                   ELSE weight
  /\ hdone' = hdone \cup {t}
  /\ UNCHANGED <<hkeys, hargs, harg, chain, hvals, actions, hcfg,
                 norm, hpc>>

\* The next calculate().
NextCycle ==
  /\ hpc = "gather"
  /\ hdone = 0..(hcfg.ntasks - 1)
  /\ hpc' = "calc"
  /\ UNCHANGED <<hkeys, hargs, harg, chain, hvals, actions, hcfg,
                 norm, weight, hdone>>

\* The input ended in an error, an assertion or a crash, or the action was
\* handed to a chain or to one kernel at a time, which are not modelled.
Ended ==
  /\ hpc \in {"error", "assert", "crash", "chained", "kernel"}
  /\ UNCHANGED hVars

Next ==
  \/ Shortcut
  \/ Construct
  \/ Calc
  \/ \E t \in HTasks : Gather(t)
  \/ NextCycle
  \/ Ended

Spec == Init /\ [][Next]_hVars

-----------------------------------------------------------------------------
(* Properties.                                                             *)

\* The arguments after HEIGHTS was requested.
HArgs == IF hcfg.heights THEN Append(hargs, harg) ELSE hargs

\* Every task reads a value of every group and every value of a group is
\* read by a task: the tasks are exactly the values.
TasksCoverValues ==
  hpc \in {"calc", "gather"} =>
    \A g \in 1..(Len(hcfg.ends) - 1) :
      hcfg.ntasks = GroupVals(HArgs, hcfg.ends, g)
=============================================================================
