----------------------- MODULE FunctionOfVectorTasks -----------------------
(***************************************************************************)
(* FunctionOfVector outside a chain (src/unnamed/part_004).  The           *)
(* constructor takes the number of tasks from getNumberOfFinalTasks; with  *)
(* tasks, calculate() runs them all (runAllTasks), each with a MultiValue  *)
(* of its own.  The non-chain branch of performTask puts the function's    *)
(* derivative in its argument j at base + current for a vector and at      *)
(* base for a scalar, base running over the numbers of values of the       *)
(* earlier arguments: the derivative space is the arguments' values laid   *)
(* end to end (nderivatives = getNumberOfScalarArguments()).               *)
(*                                                                         *)
(* An argument is its rank (0 or 1), its number of values and whether it   *)
(* is a time series; values are left out, and FD[j] stands for the         *)
(* function's derivative in argument j.                                    *)
(***************************************************************************)
EXTENDS Naturals, Sequences, SequencesExt, FiniteSets

CONSTANTS
  Kinds,   \* the arguments an ARG may name: [rank, len, ts]
  NArgs,   \* the function's arguments
  FD       \* FD[j]: the function's derivative in its argument j

\* What the arguments can be; MCTaskDerivatives assumes it of its constants.
VectorTasksAssumption ==
  /\ Kinds \subseteq [rank : {0, 1}, len : Nat \ {0}, ts : BOOLEAN]
  /\ \A a \in Kinds : a.rank = 0 => a.len = 1 /\ ~a.ts
  /\ NArgs \in Nat \ {0}
  /\ FD \in [1..NArgs -> Nat \ {0}]

\* Value::getNumberOfValues.
NValues(a) == IF a.rank = 1 THEN a.len ELSE 1

MaxLen == CHOOSE n \in {a.len : a \in Kinds} : \A a \in Kinds : a.len <= n
Slots == 0..(NArgs * MaxLen - 1)
MaxTasks == MaxLen

VARIABLES
  fargs,    \* the function's arguments
  ntasks,   \* shape[0]: the number of tasks
  done,     \* the tasks runAllTasks has run
  deriv,    \* deriv[c][k]: the derivative of task c's output in index k
  active,   \* active[c]: the indices task c marked (updateIndex)
  pc        \* "construct", "calc" or "error"

fvVars == <<fargs, ntasks, done, deriv, active, pc>>

\* getNumberOfFinalTasks: the length of the first vector; a later vector
\* of another length is an error, unless it is a shorter time series, in
\* which case nelements takes isTimeSeries(), converted to 1.
GetNumberOfFinalTasks(as) ==
  FoldLeft(LAMBDA acc, a :
             IF acc.err \/ a.rank # 1 THEN acc
             ELSE IF acc.n > 0
               THEN IF a.ts /\ a.len < acc.n THEN [acc EXCEPT !.n = 1]
                    ELSE IF a.len # acc.n THEN [acc EXCEPT !.err = TRUE]
                    ELSE acc
               ELSE [acc EXCEPT !.n = a.len],
           [n |-> 0, err |-> FALSE], as)

\* Mutant: base advanced by one per argument, whatever its length.
NonChainTaskOnePerArg(c) ==
  LET step(acc, j) ==
        LET k == IF fargs[j].rank = 1 THEN acc.base + c ELSE acc.base
        IN  [base |-> acc.base + 1,
             d    |-> [acc.d EXCEPT ![k] = @ + FD[j]],
             a    |-> Append(acc.a, k)]
  IN  FoldLeftDomain(step, [base |-> 0, d |-> [k \in Slots |-> 0], a |-> <<>>],
                     fargs)

\* The non-chain derivatives of performTask(c): for each argument, in
\* order, FD[j] is added at base + c (vector) or base (scalar), the index
\* is marked, and base moves past the argument's values.
NonChainTask(c) ==
  LET step(acc, j) ==
        LET k == IF fargs[j].rank = 1 THEN acc.base + c ELSE acc.base
        IN  [base |-> acc.base + NValues(fargs[j]),
             d    |-> [acc.d EXCEPT ![k] = @ + FD[j]],
             a    |-> Append(acc.a, k)]
  IN  FoldLeftDomain(step, [base |-> 0, d |-> [k \in Slots |-> 0], a |-> <<>>],
                     fargs)

Init ==
  /\ fargs \in [1..NArgs -> Kinds]
  /\ ntasks = 0
  /\ done = {}
  /\ deriv = [c \in 0..(MaxTasks - 1) |-> [k \in Slots |-> 0]]
  /\ active = [c \in 0..(MaxTasks - 1) |-> <<>>]
  /\ pc = "construct"

\* The constructor: shape[0] from getNumberOfFinalTasks; its error ends
\* the input.
Construct ==
  /\ pc = "construct"
  /\ LET r == GetNumberOfFinalTasks(fargs)
     IN  IF r.err THEN pc' = "error" /\ ntasks' = 0
                  ELSE pc' = "calc" /\ ntasks' = r.n
  /\ UNCHANGED <<fargs, done, deriv, active>>

\* calculate(): runAllTasks, a task at a time in any order, each in a
\* clear MultiValue.
PerformTask(c) ==
  /\ pc = "calc"
  /\ c \notin done
  /\ LET r == NonChainTask(c)
     IN  /\ deriv' = [deriv EXCEPT ![c] = r.d]
         /\ active' = [active EXCEPT ![c] = r.a]
  /\ done' = done \cup {c}
  /\ UNCHANGED <<fargs, ntasks, pc>>

Finished ==
  /\ pc \in {"calc", "error"}
  /\ done = 0..(ntasks - 1)
  /\ UNCHANGED fvVars

Next ==
  \/ Construct
  \/ \E c \in 0..(ntasks - 1) : PerformTask(c)
  \/ Finished

Spec == Init /\ [][Next]_fvVars

-----------------------------------------------------------------------------
(* Properties.                                                             *)

\* The arguments' values laid end to end: <<j, e>> is value e of argument j.
Flat == FlattenSeq([j \in 1..NArgs |->
                      [e \in 1..NValues(fargs[j]) |-> <<j, e - 1>>]])

\* Outside a chain, task c's derivative in index k is the function's
\* derivative in the argument whose value sits at k in the arguments laid
\* end to end, when that value is element c of a vector or a scalar, and
\* 0 otherwise; the task marks each such index once and no other: the
\* forces apply() hands back in this order reach the value that was used.
NonChainDerivativesExact ==
  \A c \in done :
    /\ \A k \in Slots :
         deriv[c][k] =
           IF k + 1 \in DOMAIN Flat
              /\ Flat[k + 1][2] = (IF fargs[Flat[k + 1][1]].rank = 1 THEN c ELSE 0)
           THEN FD[Flat[k + 1][1]] ELSE 0
    /\ IsInjective(active[c])
    /\ Range(active[c]) = {k \in Slots : deriv[c][k] # 0}

\* Every task reads an element its vector arguments have, and a shorter
\* time series cuts the tasks to its own length (the intent of the
\* isTimeSeries test in getNumberOfFinalTasks).
FinalTasksFollowShortestSeries ==
  LET vecs == {j \in 1..NArgs : fargs[j].rank = 1}
  IN  pc = "calc" =>
        ntasks = IF vecs = {} THEN 0 ELSE Min({fargs[j].len : j \in vecs})
=============================================================================
