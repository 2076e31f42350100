-------------------------- MODULE MCArgumentChain --------------------------
(***************************************************************************)
(* The ActionWithArguments code for TLC, in two parts chosen at the start  *)
(* (`part'):                                                               *)
(*  - "chain": ArgumentChain on four arguments from three actions: x with  *)
(*    two vector components, y with one vector, and av, an average of a    *)
(*    scalar.  x's derivatives outnumber its values, y's do not.           *)
(*  - "resolve": ArgResolve on ARG lists of one or two words over an input *)
(*    with an interface action, ENERGY, two ActionSetups, a two-component  *)
(*    action c, a plain action cd, and a shortcut d whose output           *)
(*    components are an, n and b (named like a multicolvar's altmin, min  *)
(*    and numbered between: one contains another), which made d_n, d_b1    *)
(*    and d_b2.                                                            *)
(* The state of the part not chosen stays at an initial state of its own.  *)
(***************************************************************************)
EXTENDS ArgumentChain

CONSTANTS x, y, av, Words

VARIABLES part, user, words, k, arg, res, last, added

MCActs == {x, y, av}
MCNComp == [a \in MCActs |-> IF a = x THEN 2 ELSE 1]
MCNDer == [a \in MCActs |-> IF a = x THEN 4 ELSE IF a = y THEN 2 ELSE 1]
MCIsAverage == [a \in MCActs |-> a = av]
MCNVals == [v \in Vals |-> IF v[1] = av THEN 1 ELSE IF v[1] = y THEN 3 ELSE 2]
MCRank0 == [v \in Vals |-> v[1] = av]
MCConstant == [v \in Vals |-> FALSE]
MCOnes == [v \in Vals |-> FALSE]

Unnamed == << <<>> >>
MCActionList ==
  << [label |-> <<"p">>, comps |-> Unnamed, kind |-> "iface"],
     [label |-> <<"e">>, comps |-> Unnamed, kind |-> "energy"],
     [label |-> <<"u">>, comps |-> << >>, kind |-> "setup"],
     [label |-> <<"r">>, comps |-> << >>, kind |-> "setupValue"],
     [label |-> <<"c">>, comps |-> << <<"x">>, <<"y">> >>, kind |-> "value"],
     [label |-> <<"c", "d">>, comps |-> Unnamed, kind |-> "value"],
     [label |-> <<"d">>, comps |-> << <<"x">> >>, kind |-> "value"],
     [label |-> <<"d", "_", "n">>, comps |-> Unnamed, kind |-> "value"],
     [label |-> <<"d", "_", "b", "1">>, comps |-> Unnamed, kind |-> "value"],
     [label |-> <<"d", "_", "b", "2">>, comps |-> Unnamed, kind |-> "value"] >>
MCShortcuts ==
  << [label |-> <<"d">>, outComps |-> << <<"a", "n">>, <<"n">>, <<"b">> >>,
      wildcard |-> TRUE] >>
\* Words that name values of plain actions, wildcards, and the shortcut.
MCWords ==
  { <<"c">>, <<"c", ".", "x">>, <<"c", ".", "*">>, <<"c", ".", "z">>,
    <<"c", "d">>, <<"p">>, <<"e">>, <<"r">>, <<"u">>, <<"*">>,
    <<"*", ".", "*">>, <<"*", ".", "x">>, <<"*", ".", "n">>,
    <<"d">>, <<"d", ".", "*">>, <<"d", ".", "n">> }
\* Words that name the shortcut's values: as a whole, by an output
\* component, by a numbered one, and by a name that contains one.
MCShortcutWords ==
  { <<"d">>, <<"d", ".", "*">>, <<"d", ".", "n">>, <<"d", ".", "b">>,
    <<"d", ".", "b", "1">>, <<"d", ".", "n", "x">> }

R == INSTANCE ArgResolve WITH
  ActionList <- MCActionList, Shortcuts <- MCShortcuts, MaxWords <- 2

rvars == <<user, words, k, arg, res, last, added>>

\* An initial state of each part, for the part not chosen.
ChainIdle == Init /\ args = [p \in 1..NArgs |-> <<y, 1>>]
                  /\ stored = {v \in Vals : MCRank0[v]}
ResolveIdle ==
  /\ user = "other" /\ words = << >> /\ k = 1 /\ arg = << >>
  /\ res = "ok" /\ last = << >> /\ added = << >>

MCInit ==
  \/ part = "chain" /\ Init /\ ResolveIdle
  \/ part = "resolve" /\ ChainIdle /\ R!Init

MCNext ==
  \/ part = "chain" /\ Next /\ UNCHANGED <<part, rvars>>
  \/ part = "resolve" /\ R!Next /\ UNCHANGED <<part, vars>>

MCSpec == MCInit /\ [][MCNext]_<<part, vars, rvars>>

\* The properties of ArgResolve.
ArgPlainWordsExact == R!PlainWordsExact
ArgStarNameExact == R!StarNameExact
ArgResolutionEnds == R!ArgumentsResolve
=============================================================================
