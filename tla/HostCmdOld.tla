----------------------------- MODULE HostCmdOld -----------------------------
(***************************************************************************)
(* How an MD code sets PLUMED up through PlumedMain::cmd, in the earlier   *)
(* PlumedMain that keeps the MD data in its Atoms object (the first copy   *)
(* of PlumedMain in src/src/core/PbcAction.cpp, lines 136-1195).  The      *)
(* setup commands only record the number of atoms, the timestep, KbT and   *)
(* the no-virial request; init() and clear() then make the PUT actions     *)
(* that hold positions, cell, energy, masses and charges                   *)
(* (createAtomValues), and `inputs' maps each label given to createValue   *)
(* to the PUT action of that label, or to NULL when there is none.         *)
(*                                                                         *)
(* An action is its label and the number of clears before it was made, so *)
(* that an input left over from an action clear deleted is told from the   *)
(* one made again under the same label.                                    *)
(***************************************************************************)
EXTENDS Naturals, Sequences, SequencesExt

CONSTANTS
  NatomsValues,   \* the atom counts setNatoms may be given
  DatLines,       \* the lines of the plumed.dat file init() reads
  MaxClears       \* the number of clear commands explored

\* The PUT actions createAtomValues makes (posx, posy and posz are one
\* action "pos" here), and the colvar a host or plumed.dat may add.
AtomLabels == {"pos", "Box", "Energy", "Masses", "Charges"}
HostLines == {"cv"}
\* The GET action getDataRank makes for "cv" (grab_cv: GET ARG=cv).
Grab == "grab_cv"
Labels == AtomLabels \cup HostLines \cup {Grab}

\* The constants are assumed, as in HostCmd, to be atom counts that include
\* 0 and a positive one, a plumed.dat of colvar lines and a natural bound
\* on clears; MCHostCmd states this of the values it gives them.

Results == {"ok", "notinit", "init", "duplicate", "ub", "notfound", "assert"}

Actions == [label : Labels, gen : 0..MaxClears]

VARIABLES
  initialized,    \* PlumedMain::initialized
  natoms,         \* atoms.getNatoms()
  novirial,       \* PlumedMain::novirial
  kbt,            \* atoms.getKbT() > 0
  actionSet,      \* the actions, in the order they were made
  inputs,         \* PlumedMain::inputs: label -> action or Null
  boxNoforce,     \* the Box action was made with NOFORCE
  plumedDat,      \* a plumed.dat file has been named and not yet read
  clears,         \* clear commands so far
  res             \* the outcome of the last command

vars == <<initialized, natoms, novirial, kbt, actionSet, inputs, boxNoforce,
          plumedDat, clears, res>>

\* The NULL pointer createValue enters for a label with no PUT action.
Null == [label |-> "NULL", gen |-> 0]

Labelled(set, l) == \E i \in DOMAIN set : set[i].label = l

\* The actions and inputs a command builds, with the outcome so far.
World == [set |-> actionSet, inputs |-> inputs, noforce |-> boxNoforce,
          res |-> "ok"]

\* readInputWords: the action is built (its constructor refuses a label
\* already in use, and GET its argument if that does not exist) and
\* appended.
ReadInputWords(w, l) ==
  IF Labelled(w.set, l) THEN [w EXCEPT !.res = "duplicate"]
  ELSE IF l = Grab /\ ~Labelled(w.set, "cv") THEN [w EXCEPT !.res = "notfound"]
  ELSE [w EXCEPT !.set = Append(w.set, [label |-> l, gen |-> clears])]

\* createValue: the line is read, and its label is entered in inputs with
\* the PUT action of that label (std::map::insert keeps an entry that is
\* already there).
CreateValueIn(w, l) ==
  LET r == ReadInputWords(w, l)
      put == IF l \in AtomLabels THEN [label |-> l, gen |-> clears]
             ELSE Null
  IN IF r.res # "ok" \/ l \in DOMAIN r.inputs THEN r
     ELSE [r EXCEPT !.inputs = [k \in DOMAIN r.inputs \cup {l} |->
                                  IF k = l THEN put ELSE r.inputs[k]]]

\* Mutant: the cell holder gets NOFORCE only off the first rank (the
\* novirial test dropped from the condition).
CreateAtomValuesForcedBox(w, ini) ==
  IF natoms = 0 THEN w
  ELSE IF ini THEN [w EXCEPT !.res = "init"]
  ELSE FoldLeft(LAMBDA acc, l : IF acc.res = "ok" THEN CreateValueIn(acc, l)
                                                 ELSE acc,
                w, <<"pos", "Box", "Energy", "Masses", "Charges">>)

\* createAtomValues, called with initialized = ini: nothing without atoms;
\* otherwise the holders for positions (createVector, which raises once
\* PlumedMain is initialized), cell (with NOFORCE after setNoVirial),
\* energy, masses and charges, in that order; an exception ends it.
CreateAtomValues(w, ini) ==
  IF natoms = 0 THEN w
  ELSE IF ini THEN [w EXCEPT !.res = "init"]
  ELSE LET made == FoldLeft(LAMBDA acc, l :
                              IF acc.res = "ok" THEN CreateValueIn(acc, l)
                                                ELSE acc,
                            w, <<"pos", "Box", "Energy", "Masses", "Charges">>)
       IN IF made.res = "ok" THEN [made EXCEPT !.noforce = novirial]
                             ELSE made

\* readInputFile: the lines are read in order; an exception ends it.
ReadInputFile(w, lines) ==
  FoldLeft(LAMBDA acc, l : IF acc.res = "ok" THEN ReadInputWords(acc, l)
                                            ELSE acc,
           w, lines)

SetWorld(w) ==
  /\ actionSet' = w.set
  /\ inputs' = w.inputs
  /\ boxNoforce' = w.noforce
  /\ res' = w.res

Init ==
  /\ initialized = FALSE
  /\ natoms = 0
  /\ novirial = FALSE
  /\ kbt = FALSE
  /\ actionSet = << >>
  /\ inputs = [l \in {} |-> Null]
  /\ boxNoforce = FALSE
  /\ plumedDat = FALSE
  /\ clears = 0
  /\ res = "ok"

-----------------------------------------------------------------------------
(* The guards every command starts with.                                   *)

\* CHECK_INIT: a command that needs init() raises before it.
UseBeforeInit ==
  /\ ~initialized
  /\ res' = "notinit"
  /\ UNCHANGED <<initialized, natoms, novirial, kbt, actionSet, inputs,
                 boxNoforce, plumedDat, clears>>

\* CHECK_NOTINIT: a setup command raises after init().
SetupAfterInit ==
  /\ initialized
  /\ res' = "init"
  /\ UNCHANGED <<initialized, natoms, novirial, kbt, actionSet, inputs,
                 boxNoforce, plumedDat, clears>>

-----------------------------------------------------------------------------
(* Commands used before init().                                            *)

\* setRealPrecision, the MD units, setNaturalUnits, setTimestep, the
\* communicators, setMDEngine, setLog, setLogFile: data of PlumedMain and
\* Atoms no action holds yet.
SetupWord ==
  /\ ~initialized
  /\ res' = "ok"
  /\ UNCHANGED <<initialized, natoms, novirial, kbt, actionSet, inputs,
                 boxNoforce, plumedDat, clears>>

SetNoVirial ==
  /\ ~initialized
  /\ novirial' = TRUE
  /\ res' = "ok"
  /\ UNCHANGED <<initialized, natoms, kbt, actionSet, inputs, boxNoforce,
                 plumedDat, clears>>

SetPlumedDat ==
  /\ ~initialized
  /\ plumedDat' = TRUE
  /\ res' = "ok"
  /\ UNCHANGED <<initialized, natoms, novirial, kbt, actionSet, inputs,
                 boxNoforce, clears>>

SetNatoms(n) ==
  /\ ~initialized
  /\ natoms' = n
  /\ res' = "ok"
  /\ UNCHANGED <<initialized, novirial, kbt, actionSet, inputs, boxNoforce,
                 plumedDat, clears>>

SetKbT ==
  /\ ~initialized
  /\ kbt' = TRUE
  /\ res' = "ok"
  /\ UNCHANGED <<initialized, natoms, novirial, actionSet, inputs,
                 boxNoforce, plumedDat, clears>>

\* init: the atom values are made before initialized is set, and an
\* exception there leaves PlumedMain uninitialized; plumed.dat is read
\* after, and an exception there leaves it initialized with the file
\* still named.
InitCmd ==
  /\ ~initialized
  /\ LET made == CreateAtomValues(World, FALSE)
         read == IF plumedDat THEN ReadInputFile(made, DatLines) ELSE made
     IN IF made.res # "ok"
        THEN SetWorld(made) /\ UNCHANGED <<initialized, plumedDat>>
        ELSE /\ SetWorld(read)
             /\ initialized' = TRUE
             /\ plumedDat' = (plumedDat /\ read.res # "ok")
  /\ UNCHANGED <<natoms, novirial, kbt, clears>>

-----------------------------------------------------------------------------
(* Commands used at any time or after init().                              *)

CreateValue(l) ==
  /\ SetWorld(CreateValueIn(World, l))
  /\ UNCHANGED <<initialized, natoms, novirial, kbt, plumedDat, clears>>

ReadInputLine(l) ==
  /\ initialized
  /\ SetWorld(ReadInputWords(World, l))
  /\ UNCHANGED <<initialized, natoms, novirial, kbt, plumedDat, clears>>

\* Mutant: clear keeps the old inputs map.
ClearKeepsInputMap ==
  /\ initialized
  /\ clears < MaxClears
  /\ clears' = clears + 1
  /\ LET empty == [set |-> << >>, inputs |-> inputs,
                   noforce |-> boxNoforce, res |-> "ok"]
     IN SetWorld(CreateAtomValues(empty, FALSE))
  /\ UNCHANGED <<initialized, natoms, novirial, kbt, plumedDat>>

\* Mutant: clear makes the atom values again before it unsets
\* initialized.
ClearWhileInitialized ==
  /\ initialized
  /\ clears < MaxClears
  /\ clears' = clears + 1
  /\ LET empty == [set |-> << >>, inputs |-> [l \in {} |-> Null],
                   noforce |-> boxNoforce, res |-> "ok"]
     IN SetWorld(CreateAtomValues(empty, TRUE))
  /\ UNCHANGED <<initialized, natoms, novirial, kbt, plumedDat>>

\* clear: every action is deleted and the inputs emptied, initialized is
\* unset for createAtomValues to make the atom values again, and set
\* again.
Clear ==
  /\ initialized
  /\ clears < MaxClears
  /\ clears' = clears + 1
  /\ LET empty == [set |-> << >>, inputs |-> [l \in {} |-> Null],
                   noforce |-> boxNoforce, res |-> "ok"]
     IN SetWorld(CreateAtomValues(empty, FALSE))
  /\ UNCHANGED <<initialized, natoms, novirial, kbt, plumedDat>>

\* setBox, setPositions, setMasses, setCharges, setValue and the force
\* words: inputs.find(name)->second is used unchecked, undefined when the
\* name has no entry or a NULL one.
CmdSetValue(n) ==
  /\ initialized
  /\ res' = IF n \in DOMAIN inputs /\ inputs[n] # Null THEN "ok" ELSE "ub"
  /\ UNCHANGED <<initialized, natoms, novirial, kbt, actionSet, inputs,
                 boxNoforce, plumedDat, clears>>

\* setAtomsNlocal, setAtomsGatindex, setAtomsContiguous and the full
\* list: passed on to Atoms.
ForwardToAtoms ==
  /\ initialized
  /\ res' = "ok"
  /\ UNCHANGED <<initialized, natoms, novirial, kbt, actionSet, inputs,
                 boxNoforce, plumedDat, clears>>

\* getDataRank: the line "grab_cv: GET ARG=cv" is read; a second call
\* raises on the label in use.
GetDataRank ==
  /\ initialized
  /\ SetWorld(ReadInputWords(World, Grab))
  /\ UNCHANGED <<initialized, natoms, novirial, kbt, plumedDat, clears>>

\* getDataShape, setMemoryForData: the GET action is asserted to exist.
GrabData ==
  /\ initialized
  /\ res' = IF Labelled(actionSet, Grab) THEN "ok" ELSE "assert"
  /\ UNCHANGED <<initialized, natoms, novirial, kbt, actionSet, inputs,
                 boxNoforce, plumedDat, clears>>

\* read: the named file (plumed.dat here) is read after init().
Read ==
  /\ initialized
  /\ SetWorld(ReadInputFile(World, DatLines))
  /\ UNCHANGED <<initialized, natoms, novirial, kbt, plumedDat, clears>>

\* isEnergyNeeded: the action labelled "Energy" is looked up and used
\* without a NULL test; createAtomValues makes it only when there are
\* atoms.
IsEnergyNeeded ==
  /\ initialized
  /\ res' = IF Labelled(actionSet, "Energy") THEN "ok" ELSE "ub"
  /\ UNCHANGED <<initialized, natoms, novirial, kbt, actionSet, inputs,
                 boxNoforce, plumedDat, clears>>

\* setExtraCV, setExtraCVForce: the pointer goes to the input of that
\* label when the map has one, through it even when it is NULL.
SetExtraCV(n) ==
  /\ res' = IF n \in DOMAIN inputs /\ inputs[n] = Null THEN "ub" ELSE "ok"
  /\ UNCHANGED <<initialized, natoms, novirial, kbt, actionSet, inputs,
                 boxNoforce, plumedDat, clears>>

Next ==
  \/ UseBeforeInit \/ SetupAfterInit
  \/ SetupWord \/ SetNoVirial \/ SetPlumedDat \/ SetKbT
  \/ \E n \in NatomsValues : SetNatoms(n)
  \/ InitCmd
  \/ \E l \in HostLines : CreateValue(l) \/ ReadInputLine(l)
  \/ Clear
  \/ \E n \in {"pos", "Box", "Energy", "cv"} : CmdSetValue(n)
  \/ ForwardToAtoms
  \/ GetDataRank \/ GrabData \/ Read \/ IsEnergyNeeded
  \/ \E n \in {"Energy", "cv"} : SetExtraCV(n)

Spec == Init /\ [][Next]_vars

-----------------------------------------------------------------------------
(* Properties.                                                             *)

\* Every input that is not NULL is an action that exists: clear empties
\* the map before createAtomValues enters the new actions, which
\* std::map::insert would not put over the old ones (cmd "clear").
InputsPointToLiveActions ==
  \A l \in DOMAIN inputs : inputs[l] = Null \/ Contains(actionSet, inputs[l])

\* Once setNoVirial has been called, the cell holder takes no force.
NoVirialHonoured ==
  novirial /\ Labelled(actionSet, "Box") => boxNoforce

\* clear keeps what the MD code set up: the atom value holders and KbT
\* (cmd "clear", createAtomValues).
ClearKeepsMDInputs ==
  [][/\ \A l \in AtomLabels :
          Labelled(actionSet, l) /\ initialized' => Labelled(actionSet', l)
     /\ kbt => kbt']_vars

====
