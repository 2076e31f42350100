----------------------------- MODULE ArgResolve -----------------------------
(***************************************************************************)
(* How an action's ARG keyword is turned into the values it reads:        *)
(* ActionWithArguments::interpretArgumentList (src/src/core/PbcAction.cpp  *)
(* 2491-2679) and ActionShortcut::interpretDataLabel (src/unnamed/part_006 *)
(* 102-157).  Each word of ARG is a label ("d"), a value ("d.x"), or a     *)
(* wildcard ("*", "*.*", "d.*", "*.x"); a label may be that of a shortcut, *)
(* whose values are held by the actions it made ("s", "s_x", "s_x1"...).   *)
(*                                                                         *)
(* The matching is on the characters of the names (a label that contains  *)
(* another is skipped by "*"), so a name is a sequence of one-character    *)
(* strings.  The regex branch, a word in round brackets, calls POSIX       *)
(* regexec and is not modelled: no word starts with "(".                   *)
(***************************************************************************)
EXTENDS Naturals, Sequences, SequencesExt

CONSTANTS
  ActionList, \* the actions, in input order: [label, comps, kind]
  Shortcuts,  \* the shortcuts, in input order: [label, outComps, wildcard]
  Words,      \* the words an ARG list may hold
  MaxWords    \* the longest ARG list explored

\* kind: "value" (an ActionWithValue), "iface" (an ActionForInterface),
\* "energy" (the ENERGY interface action), "setupValue" (an ActionSetup
\* that is an ActionWithValue), "setup" (an ActionSetup that is not).
\* comps lists the components in order, << >> for the unnamed value.

Star == <<"*">>
Dot == <<".">>
Under == <<"_">>

\* Tools::convert of a loop counter, for the one-digit counters the model
\* meets.
Digits == 1..9
Num(j) == <<ToString(j)>>

\* The name of a component: the label, or label.component.
ValueName(a, c) == IF c = << >> THEN a.label ELSE a.label \o Dot \o c

\* action_set.select<ActionWithValue*>().
Avs == SelectSeq(ActionList, LAMBDA a : a.kind # "setup")

\* selectWithLabel<ActionWithValue*>(l): there is one, and it.
HasAv(l) == \E i \in DOMAIN Avs : Avs[i].label = l
Av(l) == Avs[CHOOSE i \in DOMAIN Avs : Avs[i].label = l]

\* ActionWithValue::exists and copyOutput: a value is its name.
Exists(a, n) == \E k \in DOMAIN a.comps : ValueName(a, a.comps[k]) = n
Outputs(a) == [k \in DOMAIN a.comps |-> ValueName(a, a.comps[k])]

IsInterface(a) == a.kind \in {"iface", "energy"}

\* getShortcutActionWithLabel(a).
HasShortcut(l) == \E i \in DOMAIN Shortcuts : Shortcuts[i].label = l
ShortcutOf(l) == Shortcuts[CHOOSE i \in DOMAIN Shortcuts :
                             Shortcuts[i].label = l]

\* What resolving works on: the values so far and the outcome, "ok",
\* "error" (an exception), "ub" (a NULL pointer used) or "hang" (a loop
\* that never ends).
Ok(w) == w.res = "ok"
Fail(w, r) == [w EXCEPT !.res = r]
\* Value::use: the value is appended to the arguments.
Use(w, vals) == [w EXCEPT !.arg = w.arg \o vals]

\* A step of a loop that stops at the first exception.
Then(w, F(_)) == IF Ok(w) THEN F(w) ELSE w

-----------------------------------------------------------------------------
(* ActionShortcut::interpretDataLabel(a.name) for shortcut sc.            *)

\* One output component of a "s.*": the action labelled s (out empty) or
\* s_out, which must have one value; failing that, s_out1, s_out2... up
\* to the first label that does not exist, all their values.
ShortcutStarComp(w, a, out) ==
  LET l == IF out = << >> THEN a ELSE a \o Under \o out
      J == CHOOSE j \in 1..10 : ~HasAv(l \o Num(j)) /\
                                \A i \in 1..(j - 1) : HasAv(l \o Num(i))
  IN IF HasAv(l)
     THEN IF Len(Av(l).comps) # 1 THEN Fail(w, "error")
          ELSE Use(w, <<ValueName(Av(l), Av(l).comps[1])>>)
     ELSE IF out = << >> THEN w
     ELSE FoldLeft(LAMBDA acc, j : Use(acc, Outputs(Av(l \o Num(j)))),
                   w, [i \in 1..(J - 1) |-> i])

\* A named "s.name": the value s.name of the action labelled s; failing
\* that, the first output component the name contains; the name equal to
\* it is the action s_name, a name that is it and a number is looked up as
\* s_name followed by the number again, and the loop over numbers has no
\* exit.
ShortcutNamed(w, a, sc, name) ==
  LET mystr == a \o Dot \o name
      ks == {k \in DOMAIN sc.outComps : sc.outComps[k] \in SubSeqs(name)}
      out == sc.outComps[CHOOSE k \in ks : \A m \in ks : k <= m]
      js == {j \in Digits : name = out \o Num(j)}
      l == a \o Under \o name
      lj == l \o Num(CHOOSE j \in js : \A m \in js : j <= m)
  IN IF HasAv(a) /\ Exists(Av(a), mystr) THEN Use(w, <<mystr>>)
     ELSE IF ks = {} THEN w
     ELSE IF name = out
          THEN IF ~HasAv(l) THEN Fail(w, "ub")
               ELSE IF Exists(Av(l), l) THEN Use(w, <<l>>)
               ELSE Fail(w, "error")
     ELSE IF js = {} THEN Fail(w, "hang")
     ELSE IF ~HasAv(lj) THEN Fail(w, "ub")
     ELSE IF Exists(Av(lj), lj) THEN Fail(Use(w, <<lj>>), "hang")
     ELSE Fail(w, "error")

InterpretDataLabel(w, sc, name) ==
  IF name = Star
  THEN FoldLeft(LAMBDA acc, out : Then(acc, LAMBDA v :
                                      ShortcutStarComp(v, sc.label, out)),
                w, sc.outComps)
  ELSE ShortcutNamed(w, sc.label, sc, name)

-----------------------------------------------------------------------------
(* ActionWithArguments::interpretArgumentList, one word at a time.        *)

\* "*.*": every value of every action with a value that is not an
\* interface action.
AllValues(w) ==
  IF Avs = << >> THEN Fail(w, "error")
  ELSE FoldLeft(LAMBDA acc, a : IF IsInterface(a) THEN acc
                                ELSE Use(acc, Outputs(a)),
                w, Avs)

\* "a.*": the shortcut's outputs; if it gives none, every value of action
\* a, which must exist and have components.
LabelStar(w, a) ==
  LET r == IF HasShortcut(a) THEN InterpretDataLabel(w, ShortcutOf(a), Star)
           ELSE w
  IN IF ~Ok(r) \/ Len(r.arg) # Len(w.arg) THEN r
     ELSE IF ~HasAv(a) \/ Len(Av(a).comps) = 0 THEN Fail(w, "error")
     ELSE Use(w, Outputs(Av(a)))

\* Mutant: "*.name" without the check that a shortcut gave the value.
StarNameNoDedup(w, name) ==
  LET carg == Len(w.arg)
      r == FoldLeft(LAMBDA acc, sc : Then(acc, LAMBDA v :
                                        InterpretDataLabel(v, sc, name)),
                    w, Shortcuts)
      t == FoldLeft(LAMBDA acc, a :
                      LET flab == a.label \o Dot \o name
                      IN IF Exists(a, flab)
                         THEN [Use(acc, <<flab>>) EXCEPT !.nval = @ + 1]
                         ELSE acc,
                    [arg |-> r.arg, res |-> r.res, nval |-> 0], Avs)
  IN IF Avs = << >> THEN Fail(w, "error")
     ELSE IF ~Ok(r) THEN r
     ELSE IF t.nval = 0 /\ Len(t.arg) = carg THEN Fail(w, "error")
     ELSE [arg |-> t.arg, res |-> t.res]

\* "*.name": each shortcut's s.name, then, from every action with a value,
\* label.name if it exists and no shortcut gave it already; nothing found
\* is an error.
StarName(w, name) ==
  LET carg == Len(w.arg)
      r == FoldLeft(LAMBDA acc, sc : Then(acc, LAMBDA v :
                                        InterpretDataLabel(v, sc, name)),
                    w, Shortcuts)
      found(v, flab) == flab \in Range(SubSeq(v.arg, carg + 1, Len(v.arg)))
      t == FoldLeft(LAMBDA acc, a :
                      LET flab == a.label \o Dot \o name
                      IN IF ~found(acc, flab) /\ Exists(a, flab)
                         THEN [Use(acc, <<flab>>) EXCEPT !.nval = @ + 1]
                         ELSE acc,
                    [arg |-> r.arg, res |-> r.res, nval |-> 0], Avs)
  IN IF Avs = << >> THEN Fail(w, "error")
     ELSE IF ~Ok(r) THEN r
     ELSE IF t.nval = 0 /\ Len(t.arg) = carg THEN Fail(w, "error")
     ELSE [arg |-> t.arg, res |-> t.res]

\* "a.name": the shortcut's a.name, which must give something, or the
\* value a.name of action a.
LabelName(w, word, a, name) ==
  IF HasShortcut(a)
  THEN LET r == InterpretDataLabel(w, ShortcutOf(a), name)
       IN IF Ok(r) /\ Len(r.arg) = Len(w.arg) THEN Fail(w, "error") ELSE r
  ELSE IF ~HasAv(a) \/ ~Exists(Av(a), word) THEN Fail(w, "error")
  ELSE Use(w, <<word>>)

\* "*": the values of every action with a value but the interface actions
\* other than ENERGY; an action labelled as a wildcard shortcut, with one
\* value, is taken; any other whose label contains a shortcut's label is
\* skipped; then every shortcut's outputs.
AllLabels(w) ==
  LET wild(a) == \E i \in DOMAIN Shortcuts :
                   /\ Shortcuts[i].wildcard
                   /\ a.label = Shortcuts[i].label
                   /\ Len(a.comps) = 1
      made(a) == \E i \in DOMAIN Shortcuts :
                   Shortcuts[i].label \in SubSeqs(a.label)
      r == FoldLeft(LAMBDA acc, a :
                      IF IsInterface(a) /\ a.kind # "energy" THEN acc
                      ELSE IF wild(a) \/ ~made(a) THEN Use(acc, Outputs(a))
                      ELSE acc,
                    w, Avs)
  IN IF Avs = << >> THEN Fail(w, "error")
     ELSE FoldLeft(LAMBDA acc, sc : Then(acc, LAMBDA v :
                                         InterpretDataLabel(v, sc, Star)),
                   r, Shortcuts)

\* Mutant: a bare label takes every value of its action.
LabelAnyComponent(w, word) ==
  IF ~HasAv(word) THEN Fail(w, "error") ELSE Use(w, Outputs(Av(word)))

\* "d": the unnamed value of action d.
Label(w, word) ==
  IF ~HasAv(word) \/ ~Exists(Av(word), word) THEN Fail(w, "error")
  ELSE Use(w, <<word>>)

\* One word of the list.  A word that labels an ActionSetup is skipped
\* for PRINT when the action has no values; the cast to ActionWithValue
\* is used unchecked.
InterpretWord(w, word, user) ==
  LET setups == {i \in DOMAIN ActionList : ActionList[i].label = word /\
                                     ActionList[i].kind \in {"setup", "setupValue"}}
      st == ActionList[CHOOSE i \in setups : TRUE]
      dots == {i \in DOMAIN word : word[i] = "."}
      dot == CHOOSE i \in dots : \A j \in dots : i <= j
      a == SubSeq(word, 1, dot - 1)
      name == SubSeq(word, dot + 1, Len(word))
  IN IF setups # {} /\ st.kind = "setup" THEN Fail(w, "ub")
     ELSE IF setups # {} /\ Len(st.comps) = 0 /\ user = "PRINT" THEN w
     ELSE IF dots = {}
          THEN IF word = Star THEN AllLabels(w) ELSE Label(w, word)
     ELSE IF a = Star /\ name = Star THEN AllValues(w)
     ELSE IF name = Star THEN LabelStar(w, a)
     ELSE IF a = Star THEN StarName(w, name)
     ELSE LabelName(w, word, a, name)

-----------------------------------------------------------------------------
(* The state machine: an action with ARG = words is read, one word per    *)
(* step, for a user that is PRINT or another action.                      *)

VARIABLES
  user,   \* the name of the action whose ARG is read
  words,  \* the words of ARG
  k,      \* the next word
  arg,    \* the values so far
  res,    \* the outcome so far
  last,   \* the word read last
  added   \* the values it added

rvars == <<user, words, k, arg, res, last, added>>

Init ==
  /\ user \in {"PRINT", "other"}
  /\ words \in UNION {[1..n -> Words] : n \in 1..MaxWords}
  /\ k = 1 /\ arg = << >> /\ res = "ok"
  /\ last = << >> /\ added = << >>

\* The loop over the words: an exception, a crash or a loop with no exit
\* ends it.
InterpretArgumentList ==
  /\ res = "ok" /\ k <= Len(words)
  /\ LET w == InterpretWord([arg |-> arg, res |-> "ok"], words[k], user)
     IN /\ arg' = w.arg
        /\ res' = w.res
        /\ added' = SubSeq(w.arg, Len(arg) + 1, Len(w.arg))
  /\ last' = words[k]
  /\ k' = k + 1
  /\ UNCHANGED <<user, words>>

\* The list is read, or reading it ended early.
Finished ==
  /\ res # "ok" \/ k > Len(words)
  /\ UNCHANGED rvars

Next == InterpretArgumentList \/ Finished

Spec == Init /\ [][Next]_rvars

-----------------------------------------------------------------------------
(* Properties.                                                             *)

\* The names of all values of the actions with a value.
AllValueNames == UNION {Range(Outputs(Avs[i])) : i \in DOMAIN Avs}

\* The label part of a word, before its first dot, and the name after it.
HasDot(word) == "." \in Range(word)
FirstDot(word) == CHOOSE i \in DOMAIN word : word[i] = "." /\
                    \A j \in 1..(i - 1) : word[j] # "."
LabelPart(word) == IF HasDot(word) THEN SubSeq(word, 1, FirstDot(word) - 1)
                   ELSE word
NamePart(word) == SubSeq(word, FirstDot(word) + 1, Len(word))

\* A word that names no shortcut, no ActionSetup and no wildcard label.
Plain(word) ==
  /\ word # << >>
  /\ LabelPart(word) # Star
  /\ ~HasShortcut(LabelPart(word))
  /\ \A i \in DOMAIN ActionList :
       ActionList[i].label = word => ActionList[i].kind \notin {"setup", "setupValue"}

\* What a plain word denotes: the value of that name, or for "a.*" every
\* value of action a.
Ref(word) ==
  IF HasDot(word) /\ NamePart(word) = Star
  THEN UNION {Range(Outputs(Avs[i])) : i \in {j \in DOMAIN Avs :
                                          Avs[j].label = LabelPart(word)}}
  ELSE {word} \cap AllValueNames

\* A word that names no shortcut resolves to exactly the values it
\* denotes, each once, and is refused exactly when it denotes none
\* (interpretArgumentList, the branches "a", "a.name" and "a.*").
PlainWordsExact ==
  last # << >> /\ Plain(last) /\ res \in {"ok", "error"} =>
    /\ (res = "ok") = (Ref(last) # {})
    /\ res = "ok" => Range(added) = Ref(last) /\ IsInjective(added)

\* "*.name" takes every value called label.name, each once, although the
\* shortcuts may have given some of them already (the found check of the
\* "*.name" branch).
StarNameExact ==
  LET n == SubSeq(last, 3, Len(last))
  IN res = "ok" /\ Len(last) > 2 /\ SubSeq(last, 1, 2) = Star \o Dot
       /\ n # Star
     => /\ IsInjective(added)
        /\ {v \in AllValueNames : \E i \in DOMAIN Avs :
                                    v = Avs[i].label \o Dot \o n}
             \subseteq Range(added)

\* Reading an ARG list ends with its values or with an exception: it
\* never uses a NULL pointer and never loops forever (interpretArgumentList
\* and the shortcut's interpretDataLabel).
ArgumentsResolve == res \in {"ok", "error"}

=============================================================================
