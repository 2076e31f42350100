------------------------------ MODULE HostCmd ------------------------------
(***************************************************************************)
(* How an MD code sets PLUMED up through PlumedMain::cmd, in the version   *)
(* of PlumedMain that keeps the MD data in actions (the second copy of     *)
(* PlumedMain in src/src/core/PbcAction.cpp, lines 1319-2419).  The MD     *)
(* code's data become actions: setNatoms makes a DOMAIN_DECOMPOSITION      *)
(* action labelled with the MD engine's name, setTimestep a TIMESTEP       *)
(* action "timestep", setKbT a PUT action "KbT"; the host may add a PBC    *)
(* action "Box" and input lines of its own with createValue, and          *)
(* plumed.dat is read by init().  `inputs' is PlumedMain::inputs, the      *)
(* interface actions through which the MD code passes its pointers.        *)
(*                                                                         *)
(* The numbers, pointers and units the MD code passes are abstracted       *)
(* away: an action is its label, a command's outcome is "ok" or the        *)
(* exception it raises (the host may catch it and go on).                  *)
(***************************************************************************)
EXTENDS Naturals, Sequences, SequencesExt, FiniteSets

CONSTANTS
  Engines,        \* the names an MD code may give with setMDEngine
  DefaultEngine,  \* "mdcode", the name PlumedMain is built with
  NatomsValues,   \* the atom counts setNatoms may be given
  DatLines        \* the lines of the plumed.dat file init() reads

\* The lines a host or plumed.dat may give, by label: a PBC action "Box",
\* a colvar "cv", which depends on other actions, and an ENERGY action
\* "ene", which also depends on others and whose constructor names it the
\* energy (setEnergyValue).
HostLines == {"Box", "cv", "ene"}

\* The GET action getDataRank makes for "cv".
Grab == "grab_cv"

\* "timestep" and "KbT" are the labels setTimestep and setKbT use.
Labels == Engines \cup {"timestep", "KbT", Grab} \cup HostLines

ASSUME HostAssumption ==
  /\ DefaultEngine \in Engines
  /\ NatomsValues \subseteq Nat /\ 0 \in NatomsValues
  /\ \E n \in NatomsValues : n > 0
  /\ DatLines \in Seq(HostLines)

Results == {"ok", "notinit", "init", "duplicate", "notfound", "virial",
            "nlists", "assert", "null"}

\* The names of the values an MD code passes pointers for.
ValueNames == {"pos", "Box", "timestep", "KbT", "ene"}

VARIABLES
  initialized,    \* PlumedMain::initialized
  engine,         \* PlumedMain::MDEngine
  actionSet,      \* the labels of the actions, in the order they were made
  inputs,         \* PlumedMain::inputs, as labels
  box,            \* the PBC action: its interface and its noforce flag
  plumedDat,      \* a plumed.dat file has been named and not yet read
  noVirialAsked,  \* setNoVirial has returned without an error
  energyName,     \* PlumedMain::name_of_energy
  res             \* the outcome of the last command

vars == <<initialized, engine, actionSet, inputs, box, plumedDat,
          noVirialAsked, energyName, res>>

\* The actions that are ActionForInterface with no dependencies, or named
\* ENERGY: every action but the colvar and the GET action.
IsInterface(l) == l \notin {"cv", Grab}

\* A DOMAIN_DECOMPOSITION action, the interface that is not a PUT.
IsDomainDecomposition(l) == l \in Engines

\* The values an interface action takes pointers for.
Offers(l) ==
  IF IsDomainDecomposition(l) THEN {"pos"}
  ELSE IF l = "cv" THEN {}
  ELSE {l}

\* What readInputWords works on: the action set, the inputs, the PBC
\* action, the energy's name and the outcome.
World == [set |-> actionSet, inputs |-> inputs, box |-> box,
          energy |-> energyName, res |-> "ok"]

\* Mutant: the constructor keeps the first interface action, a PUT
\* included (the dynamic_cast test dropped).
FirstInterfaceAnyAction(set) ==
  LET i == SelectInSeq(set, IsInterface)
  IN IF i = 0 THEN "none" ELSE set[i]

\* PbcAction's constructor keeps the first interface action that is not
\* an ActionToPutData, the one it broadcasts the cell from.
FirstInterface(set) ==
  LET i == SelectInSeq(set, IsDomainDecomposition)
  IN IF i = 0 THEN "none" ELSE set[i]

\* setupInterfaceActions: inputs are the interface actions, in order.
SetupInterfaceActions(set) == SelectSeq(set, IsInterface)

\* readInputWords: the action is built (its constructor refuses a label
\* already in use, and GET its argument if that does not exist) and
\* appended, and the inputs are set up again.
ReadInputWords(w, l) ==
  IF Contains(w.set, l) THEN [w EXCEPT !.res = "duplicate"]
  ELSE IF l = Grab /\ ~Contains(w.set, "cv") THEN [w EXCEPT !.res = "notfound"]
  ELSE [set    |-> Append(w.set, l),
        inputs |-> SetupInterfaceActions(Append(w.set, l)),
        box    |-> IF l = "Box"
                   THEN [iface |-> FirstInterface(w.set), noforce |-> FALSE]
                   ELSE w.box,
        energy |-> IF l = "ene" THEN l ELSE w.energy,
        res    |-> "ok"]

\* readInputFile: the lines are read in order; an exception ends it.
ReadInputFile(w, lines) ==
  FoldLeft(LAMBDA acc, l : IF acc.res = "ok" THEN ReadInputWords(acc, l)
                                            ELSE acc,
           w, lines)

\* The command leaves the world w behind.
SetWorld(w) ==
  /\ actionSet' = w.set
  /\ inputs' = w.inputs
  /\ box' = w.box
  /\ energyName' = w.energy
  /\ res' = w.res

Init ==
  /\ initialized = FALSE
  /\ engine = DefaultEngine
  /\ actionSet = << >>
  /\ inputs = << >>
  /\ box = [iface |-> "none", noforce |-> FALSE]
  /\ plumedDat = FALSE
  /\ noVirialAsked = FALSE
  /\ energyName = ""
  /\ res = "ok"

-----------------------------------------------------------------------------
(* The guards every command starts with.                                   *)

\* CHECK_INIT: a command that needs init() raises before it.
UseBeforeInit ==
  /\ ~initialized
  /\ res' = "notinit"
  /\ UNCHANGED <<initialized, engine, actionSet, inputs, box, plumedDat,
                 noVirialAsked, energyName>>

\* CHECK_NOTINIT: a setup command raises after init().
SetupAfterInit ==
  /\ initialized
  /\ res' = "init"
  /\ UNCHANGED <<initialized, engine, actionSet, inputs, box, plumedDat,
                 noVirialAsked, energyName>>

-----------------------------------------------------------------------------
(* Commands used before init().                                            *)

\* setRealPrecision, the MD units, setNaturalUnits, the communicators,
\* setRestart, setLog, setLogFile: data of PlumedMain no action holds.
SetupWord ==
  /\ ~initialized
  /\ res' = "ok"
  /\ UNCHANGED <<initialized, engine, actionSet, inputs, box, plumedDat,
                 noVirialAsked, energyName>>

SetPlumedDat ==
  /\ ~initialized
  /\ plumedDat' = TRUE
  /\ res' = "ok"
  /\ UNCHANGED <<initialized, engine, actionSet, inputs, box, noVirialAsked,
                 energyName>>

SetMDEngine(e) ==
  /\ ~initialized
  /\ engine' = e
  /\ res' = "ok"
  /\ UNCHANGED <<initialized, actionSet, inputs, box, plumedDat,
                 noVirialAsked, energyName>>

\* setNatoms: a positive count makes the DOMAIN_DECOMPOSITION action
\* labelled with the engine's name.
SetNatoms(n) ==
  /\ ~initialized
  /\ IF n > 0 THEN SetWorld(ReadInputWords(World, engine))
              ELSE UNCHANGED <<actionSet, inputs, box, energyName>> /\ res' = "ok"
  /\ UNCHANGED <<initialized, engine, plumedDat, noVirialAsked>>

\* setTimestep: the TIMESTEP action is made unless it exists; its pointer
\* is then set.
SetTimestep ==
  /\ ~initialized
  /\ IF Contains(actionSet, "timestep")
       THEN UNCHANGED <<actionSet, inputs, box, energyName>> /\ res' = "ok"
       ELSE SetWorld(ReadInputWords(World, "timestep"))
  /\ UNCHANGED <<initialized, engine, plumedDat, noVirialAsked>>

\* setKbT: the PUT action "KbT" is made, whether or not it exists.
SetKbT ==
  /\ ~initialized
  /\ SetWorld(ReadInputWords(World, "KbT"))
  /\ UNCHANGED <<initialized, engine, plumedDat, noVirialAsked>>

\* setNoVirial, turnOffVirial: the PBC action, if there is one, takes no
\* force; without one it is an error once the engine's domain
\* decomposition exists, and nothing otherwise.
SetNoVirial ==
  /\ ~initialized
  /\ \/ /\ Contains(actionSet, "Box")
        /\ box' = [box EXCEPT !.noforce = TRUE]
        /\ res' = "ok"
     \/ /\ ~Contains(actionSet, "Box")
        /\ res' = IF Contains(actionSet, engine) THEN "virial" ELSE "ok"
        /\ UNCHANGED box
  /\ noVirialAsked' = (noVirialAsked \/ res' = "ok")
  /\ UNCHANGED <<initialized, engine, actionSet, inputs, plumedDat, energyName>>

\* init: initialized is set first, then plumed.dat is read; an exception
\* while reading leaves PlumedMain initialized and the file still named.
InitCmd ==
  /\ ~initialized
  /\ initialized' = TRUE
  /\ IF plumedDat
       THEN LET w == ReadInputFile(World, DatLines)
            IN SetWorld(w) /\ plumedDat' = (w.res # "ok")
       ELSE UNCHANGED <<actionSet, inputs, box, plumedDat, energyName>>
            /\ res' = "ok"
  /\ UNCHANGED <<engine, noVirialAsked>>

-----------------------------------------------------------------------------
(* Commands used at any time or after init().                              *)

\* createValue: an input line, before or after init().
CreateValue(l) ==
  /\ SetWorld(ReadInputWords(World, l))
  /\ UNCHANGED <<initialized, engine, plumedDat, noVirialAsked>>

ReadInputLine(l) ==
  /\ initialized
  /\ SetWorld(ReadInputWords(World, l))
  /\ UNCHANGED <<initialized, engine, plumedDat, noVirialAsked>>

\* Mutant: clear leaves the inputs as they were when no domain
\* decomposition is made again (inputs.clear() dropped).
ClearKeepsStaleInputs ==
  /\ initialized
  /\ LET empty == [set |-> << >>, inputs |-> inputs, box |-> box,
                   energy |-> energyName, res |-> "ok"]
     IN SetWorld(IF Contains(actionSet, engine)
                 THEN ReadInputWords(empty, engine) ELSE empty)
  /\ UNCHANGED <<initialized, engine, plumedDat, noVirialAsked>>

\* Mutant: clear reads the number of atoms after deleting the actions.
ClearReadsNatomsLate ==
  /\ initialized
  /\ LET empty == [set |-> << >>, inputs |-> << >>, box |-> box,
                   energy |-> energyName, res |-> "ok"]
     IN SetWorld(IF Contains(empty.set, engine)
                 THEN ReadInputWords(empty, engine) ELSE empty)
  /\ UNCHANGED <<initialized, engine, plumedDat, noVirialAsked>>

\* clear: the number of atoms is read from the engine's domain
\* decomposition, every action is deleted and the inputs emptied, and the
\* domain decomposition is made again if there were atoms.
Clear ==
  /\ initialized
  /\ LET empty == [set |-> << >>, inputs |-> << >>, box |-> box,
                   energy |-> energyName, res |-> "ok"]
     IN SetWorld(IF Contains(actionSet, engine)
                 THEN ReadInputWords(empty, engine) ELSE empty)
  /\ UNCHANGED <<initialized, engine, plumedDat, noVirialAsked>>

\* setInputValue, setInputForce: the first input that takes the name takes
\* the pointer; none is an error.
SetInputValue(n) ==
  res' = IF \E i \in DOMAIN inputs : n \in Offers(inputs[i])
         THEN "ok" ELSE "notfound"

SetInputForce(n) ==
  res' = IF \E i \in DOMAIN inputs : n \in Offers(inputs[i])
         THEN "ok" ELSE "notfound"

\* setBox, setPositions, setMasses, setCharges and their components.
CmdSetValue(n) ==
  /\ initialized
  /\ SetInputValue(n)
  /\ UNCHANGED <<initialized, engine, actionSet, inputs, box, plumedDat,
                 noVirialAsked, energyName>>

\* setVirial, setForces and their components.
CmdSetForce(n) ==
  /\ initialized
  /\ SetInputForce(n)
  /\ UNCHANGED <<initialized, engine, actionSet, inputs, box, plumedDat,
                 noVirialAsked, energyName>>

\* setAtomsNlocal, setAtomsGatindex, setAtomsFGatindex,
\* setAtomsContiguous: passed on to every input.
ForwardToInputs ==
  /\ initialized
  /\ res' = "ok"
  /\ UNCHANGED <<initialized, engine, actionSet, inputs, box, plumedDat,
                 noVirialAsked, energyName>>

\* createFullList, getFullList, clearFullList: the one input with a full
\* list (a domain decomposition) serves it; the code asserts there is
\* exactly one.
FullList ==
  /\ initialized
  /\ res' = IF Cardinality({i \in DOMAIN inputs :
                              IsDomainDecomposition(inputs[i])}) = 1
            THEN "ok" ELSE "nlists"
  /\ UNCHANGED <<initialized, engine, actionSet, inputs, box, plumedDat,
                 noVirialAsked, energyName>>

\* setEnergy: the energy's pointer goes to the input named like the
\* ENERGY action, when one has been made.
SetEnergy ==
  /\ initialized
  /\ IF energyName = "" THEN res' = "ok" ELSE SetInputValue(energyName)
  /\ UNCHANGED <<initialized, engine, actionSet, inputs, box, plumedDat,
                 noVirialAsked, energyName>>

\* isEnergyNeeded: 0 when no ENERGY action was made; otherwise the action
\* named name_of_energy is looked up and used without a NULL test.
IsEnergyNeeded ==
  /\ initialized
  /\ res' = IF energyName = "" \/ Contains(actionSet, energyName)
            THEN "ok" ELSE "null"
  /\ UNCHANGED <<initialized, engine, actionSet, inputs, box, plumedDat,
                 noVirialAsked, energyName>>

\* getDataRank: the input line "grab_cv: GET ARG=cv" is read; the GET
\* action it made exists when it returns, so the assert that follows holds.
\* A second call raises on the label already in use.
GetDataRank ==
  /\ initialized
  /\ SetWorld(ReadInputWords(World, Grab))
  /\ UNCHANGED <<initialized, engine, plumedDat, noVirialAsked>>

\* getDataShape, setMemoryForData: the GET action is asserted to exist.
GrabData ==
  /\ initialized
  /\ res' = IF Contains(actionSet, Grab) THEN "ok" ELSE "assert"
  /\ UNCHANGED <<initialized, engine, actionSet, inputs, box, plumedDat,
                 noVirialAsked, energyName>>

\* read: the named file (plumed.dat here) is read after init().
Read ==
  /\ initialized
  /\ SetWorld(ReadInputFile(World, DatLines))
  /\ UNCHANGED <<initialized, engine, plumedDat, noVirialAsked>>

\* setExtraCV, setExtraCVForce: the pointer is passed on only when an
\* input has the label; otherwise the command does nothing.
SetExtraCV(n) ==
  /\ IF \E i \in DOMAIN inputs : inputs[i] = n
       THEN SetInputValue(n) ELSE res' = "ok"
  /\ UNCHANGED <<initialized, engine, actionSet, inputs, box, plumedDat,
                 noVirialAsked, energyName>>

Next ==
  \/ UseBeforeInit \/ SetupAfterInit
  \/ SetupWord \/ SetPlumedDat
  \/ \E e \in Engines : SetMDEngine(e)
  \/ \E n \in NatomsValues : SetNatoms(n)
  \/ SetTimestep \/ SetKbT \/ SetNoVirial \/ InitCmd
  \/ \E l \in HostLines \ {"ene"} : CreateValue(l)
  \/ \E l \in HostLines : ReadInputLine(l)
  \/ Clear
  \/ \E n \in ValueNames : CmdSetValue(n) \/ CmdSetForce(n)
  \/ ForwardToInputs \/ FullList
  \/ SetEnergy \/ IsEnergyNeeded \/ GetDataRank \/ GrabData \/ Read
  \/ \E n \in {"Box", "cv"} : SetExtraCV(n)

Spec == Init /\ [][Next]_vars

-----------------------------------------------------------------------------
(* Properties.                                                             *)

TypeOK ==
  /\ initialized \in BOOLEAN /\ noVirialAsked \in BOOLEAN
  /\ plumedDat \in BOOLEAN
  /\ engine \in Engines
  /\ actionSet \in Seq(Labels) /\ inputs \in Seq(Labels)
  /\ box \in [iface : Engines \cup {"none"}, noforce : BOOLEAN]
  /\ energyName \in {"", "ene"}
  /\ res \in Results

\* PlumedMain::inputs is, after every command, the list of interface
\* actions that exist, in the order they were made: clear and every
\* readInputWords leave no pointer to a deleted action in it and miss no
\* new input (clear, readInputWords, setupInterfaceActions).
InputsLive == inputs = SetupInterfaceActions(actionSet)

\* No command loses the domain decomposition of the current MD engine:
\* clear reads the number of atoms before it deletes the actions and
\* makes the domain decomposition again (cmd "clear").
ClearKeepsEngineDD ==
  [][Contains(actionSet, engine) => Contains(actionSet', engine)]_vars

\* Once setNoVirial has returned normally, the PBC action takes no force
\* (turnOffVirial; the earlier PlumedMain built Box with NOFORCE whenever
\* setNoVirial had been called, line 714).
NoVirialHonoured ==
  noVirialAsked /\ Contains(actionSet, "Box") => box.noforce

\* clear keeps what the MD code set up before init(): the domain
\* decomposition, the timestep and KbT, which setTimestep and setKbT can
\* no longer make once PlumedMain is initialized (the earlier clear, line
\* 448, made them all again).
ClearKeepsMDInputs ==
  [][\A l \in Engines \cup {"timestep", "KbT"} :
       Contains(actionSet, l) /\ initialized' => Contains(actionSet', l)]_vars

\* The domain decomposition PlumedMain has is the one labelled with the MD
\* engine's name: clear, init and turnOffVirial look it up by
\* selectWithLabel(MDEngine).
EngineNamesDD ==
  (\E i \in DOMAIN actionSet : IsDomainDecomposition(actionSet[i]))
    => Contains(actionSet, engine)

\* name_of_energy names an action that exists: isEnergyNeeded and setEnergy
\* look the ENERGY action up by it (clear deletes the action and keeps the
\* name).
EnergyNameLive == energyName # "" => Contains(actionSet, energyName)

====
