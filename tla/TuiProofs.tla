------------------------------ MODULE TuiProofs ------------------------------
(***************************************************************************)
(* Proofs about the interface, for any number of instances, of records and *)
(* of commands under way at once, and wherever the user works.             *)
(***************************************************************************)
EXTENDS TuiApp, FiniteSetTheorems, TLAPS

-----------------------------------------------------------------------------
(* Lists *)

LEMMA ListIsFinite ==
    ASSUME NEW list \in SUBSET Id
    PROVE  /\ IsFiniteSet(list)
           /\ Cardinality(list) \in Nat
           /\ list # {} => Cardinality(list) >= 1
           /\ list \subseteq Nat \ {0}
<1>1. IsFiniteSet(Id) /\ Id \subseteq Nat \ {0}
  BY TuiAssumption, FS_Interval DEF Id
<1>2. IsFiniteSet(list)
  BY <1>1, FS_Subset
<1> QED
  BY <1>1, <1>2, FS_CardinalityType, FS_EmptySet

(* There is an element at every place of a list: as many have a number of  *)
(* lesser ones as there are places.                                        *)
LEMMA AtIsInList ==
    ASSUME NEW list \in SUBSET Id, NEW i, InList(list, i)
    PROVE  At(list, i) \in list
<1> DEFINE n == Cardinality(list)
           Below(x) == {y \in list : y < x}
           place == [x \in list |-> Cardinality(Below(x)) + 1]
<1>1. /\ IsFiniteSet(list) /\ n \in Nat /\ list \subseteq Nat
      /\ i \in 1..n
  BY ListIsFinite DEF InList
<1>2. ASSUME NEW x \in list
      PROVE  /\ IsFiniteSet(Below(x))
             /\ Cardinality(Below(x)) \in Nat
             /\ Cardinality(Below(x)) <= n - 1
  <2>1. IsFiniteSet(list \ {x}) /\ Cardinality(list \ {x}) = n - 1
    BY <1>1, FS_RemoveElement
  <2>2. Below(x) \in SUBSET (list \ {x})
    BY <1>1
  <2>3. IsFiniteSet(Below(x)) /\ Cardinality(Below(x)) <= Cardinality(list \ {x})
    BY <2>1, <2>2, FS_Subset
  <2> QED
    BY <2>1, <2>3, FS_CardinalityType
<1>3. ASSUME NEW x \in list, NEW y \in list, x < y
      PROVE  Cardinality(Below(x)) < Cardinality(Below(y))
  <2>1. IsFiniteSet(Below(y) \ {x}) /\ Cardinality(Below(y) \ {x}) = Cardinality(Below(y)) - 1
    BY <1>2, <1>3, FS_RemoveElement
  <2>2. Below(x) \in SUBSET (Below(y) \ {x})
    <3> SUFFICES ASSUME NEW z \in list, z < x
                 PROVE  z < y /\ z # x
      OBVIOUS
    <3>1. x \in Nat /\ y \in Nat /\ z \in Nat
      BY <1>1
    <3> QED
      BY <1>3, <3>1
  <2>3. Cardinality(Below(x)) <= Cardinality(Below(y) \ {x})
    BY <2>1, <2>2, FS_Subset
  <2>4. Cardinality(Below(x)) \in Nat /\ Cardinality(Below(y)) \in Nat
    BY <1>2
  <2> HIDE DEF Below
  <2> QED
    BY <2>1, <2>3, <2>4
<1>4. place \in Injection(list, 1..n)
  <2>1. \A x \in list : place[x] = Cardinality(Below(x)) + 1
    OBVIOUS
  <2> HIDE DEF Below
  <2>2. place \in [list -> 1..n]
    BY <1>1, <1>2
  <2>3. ASSUME NEW x \in list, NEW y \in list, x # y
        PROVE  place[x] # place[y]
    <3>1. x < y \/ y < x
      BY <1>1, <2>3
    <3>2. Cardinality(Below(x)) # Cardinality(Below(y))
      BY <1>2, <1>3, <3>1
    <3> QED
      BY <1>2, <2>1, <3>2
  <2> HIDE DEF place
  <2> QED
    BY <2>2, <2>3 DEF Injection, IsInjective
<1>5. IsFiniteSet(1..n) /\ Cardinality(1..n) = n
  BY <1>1, FS_Interval
<1>6. place \in Surjection(list, 1..n)
  <2> HIDE DEF place, n
  <2> QED
    BY <1>4, <1>5, FS_Injection DEF n
<1>7. PICK x \in list : place[x] = i
  <2> HIDE DEF place, n
  <2> QED
    BY <1>1, <1>6 DEF Surjection
<1>8. Cardinality({y \in list : y < x}) = i - 1
  BY <1>1, <1>2, <1>7
<1> QED
  BY <1>8 DEF At

LEMMA ClampInRange ==
    ASSUME NEW list \in SUBSET Id, NEW i \in Nat \ {0}
    PROVE  /\ Clamp(list, i) \in Nat \ {0}
           /\ list # {} => InList(list, Clamp(list, i))
BY ListIsFinite DEF Clamp, InList

LEMMA MovesInRange ==
    ASSUME NEW list \in SUBSET Id, NEW i \in Nat \ {0}, NEW j \in Moves(list, i)
    PROVE  /\ j \in Nat \ {0}
           /\ InList(list, i) => InList(list, j)
BY ListIsFinite DEF Moves, InList

-----------------------------------------------------------------------------
(* Commands *)

LEMMA CommandHasFields ==
    ASSUME NEW kind, NEW id
    PROVE  /\ Command0(kind, id).kind = kind
           /\ Command0(kind, id).id = id
           /\ ~Command0(kind, id).done
           /\ ~Command0(kind, id).ok
           /\ Command0(kind, id).list = {}
           /\ kind \in Kind \cup {"none"} /\ id \in Id \cup {0}
                 => Command0(kind, id) \in Command
BY DEF Command0, NoCommand, Command

LEMMA NoCommandHasFields ==
    NoCommand \in Command /\ NoCommand.kind = "none" /\ ~NoCommand.ok
BY DEF NoCommand, Command

(* The commands that are not of these kinds stand. *)
Touches(kinds) ==
    \A s \in Slot :
        \/ cmds'[s] = cmds[s]
        \/ /\ cmds[s].kind \in kinds \cup {"none"}
           /\ cmds'[s].kind \in kinds \cup {"none"}

CommandsOK == cmds \in [Slot -> Command]

LEMMA SlotChanges ==
    ASSUME CommandsOK, NEW s \in Slot, NEW c \in Command, cmds' = [cmds EXCEPT ![s] = c],
           NEW kinds, cmds[s].kind \in kinds \cup {"none"}, c.kind \in kinds \cup {"none"}
    PROVE  CommandsOK' /\ Touches(kinds) /\ cmds'[s] = c
           /\ \A t \in Slot : t # s => cmds'[t] = cmds[t]
BY DEF CommandsOK, Touches

LEMMA SendKeeps ==
    ASSUME CommandsOK, NEW kinds, NEW kind \in Kind \cap kinds, NEW id \in Id \cup {0},
           Send(kind, id)
    PROVE  CommandsOK' /\ Touches(kinds) /\ InFlight(kind)'
<1>1. PICK s \in Slot : Free(s) /\ cmds' = [cmds EXCEPT ![s] = Command0(kind, id)]
  BY DEF Send
<1>2. Command0(kind, id) \in Command /\ Command0(kind, id).kind = kind
  BY CommandHasFields
<1>3. CommandsOK' /\ Touches(kinds) /\ cmds'[s].kind = kind
  BY <1>1, <1>2, SlotChanges DEF Free
<1> QED
  BY <1>3 DEF InFlight

LEMMA DoneKeeps ==
    ASSUME CommandsOK, NEW kinds, NEW s \in Slot, cmds[s].kind \in kinds,
           NEW ok \in BOOLEAN, NEW list \in SUBSET Id, Done(s, ok, list)
    PROVE  /\ CommandsOK' /\ Touches(kinds)
           /\ cmds'[s].kind = cmds[s].kind /\ cmds'[s].ok = ok
           /\ \A t \in Slot : t # s => cmds'[t] = cmds[t]
<1> DEFINE c == [cmds[s] EXCEPT !.done = TRUE, !.ok = ok, !.list = list]
<1>1. cmds[s] \in Command
  BY DEF CommandsOK
<1>2. c \in Command /\ c.kind = cmds[s].kind /\ c.ok = ok
  BY <1>1 DEF Command
<1>3. cmds' = [cmds EXCEPT ![s] = c]
  BY DEF Done, CommandsOK, Command
<1> HIDE DEF c
<1> QED
  BY <1>2, <1>3, SlotChanges

LEMMA OverKeeps ==
    ASSUME CommandsOK, NEW kinds, NEW s \in Slot, cmds[s].kind \in kinds, Over(s)
    PROVE  /\ CommandsOK' /\ Touches(kinds) /\ cmds'[s].kind = "none"
           /\ \A t \in Slot : t # s => cmds'[t] = cmds[t]
BY NoCommandHasFields, SlotChanges DEF Over

-----------------------------------------------------------------------------
(* The view of the instances *)

InstancesOwn ==
    {"loadInstances", "saveInstance", "deleteInstance", "test", "backup"}

InstancesInRange == iv.list # {} => InList(iv.list, iv.selected)

(* What a step of the view keeps. *)
InstancesKept ==
    /\ InstancesTypeOK'
    /\ InstancesInRange'
    /\ CommandsOK'
    /\ Touches(InstancesOwn)

LEMMA SelectedIsKnown ==
    ASSUME InstancesTypeOK, InstancesInRange, iv.list # {}
    PROVE  Selected \in Id
<1>1. iv.list \in SUBSET Id
  BY DEF InstancesTypeOK
<1>2. Selected \in iv.list
  BY <1>1, AtIsInList DEF Selected, InstancesInRange
<1> QED
  BY <1>1, <1>2

(* A step that leaves the list and the selection as they are. *)
LEMMA ModeChanges ==
    ASSUME InstancesTypeOK, InstancesInRange, NEW mode \in InstancesMode,
           NEW editing \in Id \cup {0}, NEW typed \in BOOLEAN,
           iv' = [iv EXCEPT !.mode = mode, !.editing = editing, !.typed = typed],
           instances' \subseteq Id, panicked' \in BOOLEAN
    PROVE  InstancesTypeOK' /\ InstancesInRange' /\ iv'.mode = mode
BY DEF InstancesTypeOK, InstancesInRange

LEMMA ToModeChanges ==
    ASSUME InstancesTypeOK, InstancesInRange, NEW mode \in InstancesMode, ToMode(mode),
           instances' \subseteq Id, panicked' \in BOOLEAN
    PROVE  InstancesTypeOK' /\ InstancesInRange' /\ iv'.mode = mode
<1>1. /\ iv.editing \in Id \cup {0} /\ iv.typed \in BOOLEAN
      /\ iv' = [iv EXCEPT !.mode = mode, !.editing = iv.editing, !.typed = iv.typed]
  BY DEF ToMode, InstancesTypeOK
<1> QED
  BY <1>1, ModeChanges

LEMMA NewList ==
    ASSUME InstancesTypeOK, NEW list \in SUBSET Id, UNCHANGED <<instances, panicked>>,
           iv' = [iv EXCEPT !.list = list, !.selected = Clamp(list, @)]
    PROVE  InstancesTypeOK' /\ InstancesInRange' /\ iv'.mode = iv.mode
<1>1. iv.selected \in Nat \ {0}
  BY DEF InstancesTypeOK
<1>2. PICK i \in Nat \ {0} : i = Clamp(list, iv.selected) /\ (list # {} => InList(list, i))
  BY <1>1, ClampInRange
<1>3. iv' = [iv EXCEPT !.list = list, !.selected = i]
  BY <1>2 DEF InstancesTypeOK
<1> QED
  BY <1>2, <1>3 DEF InstancesTypeOK, InstancesInRange

LEMMA InstancesKeysKeep ==
    ASSUME InstancesTypeOK, InstancesInRange, CommandsOK, InstancesKeys
    PROVE  /\ InstancesKept
           /\ tab = TabInstances
           /\ iv'.mode = "testing" => InFlight("test")'
<1>1. /\ iv.list \in SUBSET Id /\ iv.selected \in Nat \ {0}
      /\ iv.editing \in Id \cup {0} /\ iv.typed \in BOOLEAN
      /\ instances \subseteq Id /\ panicked \in BOOLEAN
  BY DEF InstancesTypeOK
<1>2. ASSUME UNCHANGED cmds PROVE CommandsOK' /\ Touches(InstancesOwn)
  BY <1>2 DEF CommandsOK, Touches
<1>3. iv.list # {} => Selected \in Id
  BY SelectedIsKnown
<1>4. CASE IMove
  <2>1. PICK i \in Moves(iv.list, iv.selected) : iv' = [iv EXCEPT !.selected = i]
    BY <1>4 DEF IMove
  <2>2. i \in Nat \ {0} /\ (InList(iv.list, iv.selected) => InList(iv.list, i))
    BY <1>1, MovesInRange
  <2>3. iv'.list = iv.list /\ iv'.selected = i /\ iv'.mode = iv.mode /\ InstancesTypeOK'
    BY <1>4, <2>1, <2>2 DEF IMove, InstancesTypeOK
  <2>4. UNCHANGED cmds /\ tab = TabInstances /\ iv.mode = "list"
    BY <1>4 DEF IMove, InstancesKey
  <2> QED
    BY <1>2, <2>2, <2>3, <2>4 DEF InstancesKept, InstancesInRange
<1>5. CASE INew \/ IEdit \/ IBackup \/ IType
  <2>1. PICK mode \in {"form", "confirmBackup"}, editing \in Id \cup {0}, typed \in BOOLEAN :
            iv' = [iv EXCEPT !.mode = mode, !.editing = editing, !.typed = typed]
    <3>1. CASE INew
      <4>1. iv' = [iv EXCEPT !.mode = "form", !.editing = 0, !.typed = iv.typed]
        BY <3>1 DEF INew, InstancesTypeOK
      <4> QED
        BY <1>1, <4>1
    <3>2. CASE IEdit
      <4>1. iv' = [iv EXCEPT !.mode = "form", !.editing = Selected, !.typed = iv.typed]
        BY <3>2 DEF IEdit, InstancesTypeOK
      <4>2. Selected \in Id
        BY <1>3, <3>2 DEF IEdit
      <4> QED
        BY <1>1, <4>1, <4>2
    <3>3. CASE IBackup
      <4>1. iv' = [iv EXCEPT !.mode = "confirmBackup", !.editing = iv.editing,
                             !.typed = FALSE]
        BY <3>3 DEF IBackup, InstancesTypeOK
      <4> QED
        BY <1>1, <4>1
    <3>4. CASE IType
      <4>1. iv' = [iv EXCEPT !.mode = "confirmBackup", !.editing = iv.editing,
                             !.typed = ~iv.typed]
        BY <3>4 DEF IType, InstancesKey, InstancesTypeOK
      <4> QED
        BY <1>1, <4>1
    <3> QED
      BY <1>5, <3>1, <3>2, <3>3, <3>4
  <2>2. UNCHANGED <<cmds, instances, panicked>> /\ tab = TabInstances
    BY <1>5 DEF INew, IEdit, IBackup, IType, InstancesKey
  <2>3. mode \in InstancesMode
    BY DEF InstancesMode
  <2>4. InstancesTypeOK' /\ InstancesInRange' /\ iv'.mode = mode
    BY <1>1, <2>1, <2>2, <2>3, ModeChanges
  <2> QED
    BY <1>2, <2>2, <2>4 DEF InstancesKept
<1>6. CASE IDelete \/ IEsc
  <2>1. PICK mode \in {"confirmDelete", "list"} : ToMode(mode)
    BY <1>6 DEF IDelete, IEsc
  <2>2. UNCHANGED <<cmds, instances, panicked>> /\ tab = TabInstances
    BY <1>6 DEF IDelete, IEsc, InstancesKey
  <2>3. InstancesTypeOK' /\ InstancesInRange' /\ iv'.mode = mode
    BY <1>1, <2>1, <2>2, ToModeChanges DEF InstancesMode
  <2> QED
    BY <1>2, <2>2, <2>3 DEF InstancesKept
<1>7. CASE ITest
  <2>1. /\ Send("test", Selected) /\ Selected \in Id /\ ToMode("testing")
        /\ UNCHANGED <<instances, panicked>> /\ tab = TabInstances
    BY <1>3, <1>7 DEF ITest, InstancesKey
  <2>2. CommandsOK' /\ Touches(InstancesOwn) /\ InFlight("test")'
    BY <2>1, SendKeeps DEF InstancesOwn, Kind
  <2>3. InstancesTypeOK' /\ InstancesInRange'
    BY <1>1, <2>1, ToModeChanges DEF InstancesMode
  <2> QED
    BY <2>1, <2>2, <2>3 DEF InstancesKept
<1>8. CASE IRefresh
  <2>1. /\ Send("loadInstances", 0) /\ UNCHANGED <<iv, instances, panicked>>
        /\ tab = TabInstances /\ iv.mode = "list"
    BY <1>8 DEF IRefresh, InstancesKey
  <2>2. CommandsOK' /\ Touches(InstancesOwn)
    BY <2>1, SendKeeps DEF InstancesOwn, Kind
  <2> QED
    BY <2>1, <2>2 DEF InstancesKept, InstancesTypeOK, InstancesInRange
<1>9. CASE ISubmit \/ IYes
  <2>1. /\ ToMode("list") /\ UNCHANGED <<instances, panicked>> /\ tab = TabInstances
    BY <1>9 DEF ISubmit, IYes, InstancesKey
  <2>2. CommandsOK' /\ Touches(InstancesOwn)
    <3>1. CASE UNCHANGED cmds
      BY <1>2, <3>1
    <3>2. CASE Send("saveInstance", iv.editing)
      BY <1>1, <3>2, SendKeeps DEF InstancesOwn, Kind
    <3>3. CASE iv.list # {} /\ Send("deleteInstance", Selected)
      BY <1>3, <3>3, SendKeeps DEF InstancesOwn, Kind
    <3> QED
      BY <1>9, <3>1, <3>2, <3>3 DEF ISubmit, IYes
  <2>3. InstancesTypeOK' /\ InstancesInRange' /\ iv'.mode = "list"
    BY <1>1, <2>1, ToModeChanges DEF InstancesMode
  <2> QED
    BY <2>1, <2>2, <2>3 DEF InstancesKept
<1>10. CASE IConfirm
  <2>1. tab = TabInstances /\ UNCHANGED instances /\ iv.mode = "confirmBackup"
    BY <1>10 DEF IConfirm, InstancesKey
  <2>2. CASE InList(iv.list, iv.selected)
    <3>1. ToMode("list") /\ Send("backup", Selected) /\ UNCHANGED panicked
      BY <1>10, <2>2 DEF IConfirm
    <3>2. Selected \in Id
      <4>1. Selected \in iv.list
        BY <1>1, <2>2, AtIsInList DEF Selected
      <4> QED
        BY <1>1, <4>1
    <3>3. CommandsOK' /\ Touches(InstancesOwn)
      BY <3>1, <3>2, SendKeeps DEF InstancesOwn, Kind
    <3>4. InstancesTypeOK' /\ InstancesInRange' /\ iv'.mode = "list"
      BY <1>1, <2>1, <3>1, ToModeChanges DEF InstancesMode
    <3> QED
      BY <2>1, <3>3, <3>4 DEF InstancesKept
  <2>3. CASE ~InList(iv.list, iv.selected)
    <3>1. panicked' = TRUE /\ UNCHANGED <<iv, cmds>>
      BY <1>10, <2>3 DEF IConfirm
    <3> QED
      BY <1>2, <2>1, <3>1 DEF InstancesKept, InstancesTypeOK, InstancesInRange
  <2> QED
    BY <2>2, <2>3
<1> QED
  BY <1>4, <1>5, <1>6, <1>7, <1>8, <1>9, <1>10 DEF InstancesKeys

LEMMA InstancesCommandKeeps ==
    ASSUME InstancesTypeOK, InstancesInRange, CommandsOK, NEW s \in Slot,
           InstancesCommand(s) \/ InstancesMessage(s)
    PROVE  /\ InstancesKept
           /\ tab = TabInstances /\ iv'.mode = "testing" =>
                 /\ iv.mode = "testing"
                 /\ InFlight("test") => InFlight("test")'
           /\ tab # TabInstances => UNCHANGED iv
<1>1. /\ instances \subseteq Id /\ panicked \in BOOLEAN /\ cmds[s] \in Command
      /\ cmds[s].list \in SUBSET Id
  BY DEF InstancesTypeOK, CommandsOK, Command
<1>2. ASSUME UNCHANGED iv, UNCHANGED panicked, instances' \subseteq Id
      PROVE  InstancesTypeOK' /\ InstancesInRange'
  BY <1>2 DEF InstancesTypeOK, InstancesInRange
<1>3. ASSUME cmds[s].kind # "test" \/ cmds'[s].kind = "test",
             \A t \in Slot : t # s => cmds'[t] = cmds[t]
      PROVE  InFlight("test") => InFlight("test")'
  BY <1>3 DEF InFlight
<1>4. CASE ReadsInstances(s) \/ TestsOrBacksUp(s)
  <2>1. PICK ok \in BOOLEAN, list \in SUBSET Id : Done(s, ok, list)
    BY <1>1, <1>4 DEF ReadsInstances, TestsOrBacksUp
  <2>2. cmds[s].kind \in InstancesOwn /\ UNCHANGED <<instances, iv, panicked>>
    BY <1>4 DEF ReadsInstances, TestsOrBacksUp, Carry, InstancesOwn
  <2>3. /\ CommandsOK' /\ Touches(InstancesOwn) /\ cmds'[s].kind = cmds[s].kind
        /\ \A t \in Slot : t # s => cmds'[t] = cmds[t]
    BY <2>1, <2>2, DoneKeeps
  <2> QED
    BY <1>1, <1>2, <1>3, <2>2, <2>3 DEF InstancesKept
<1>5. CASE Deletes(s) \/ Saves(s)
  <2>1. /\ cmds[s].kind \in {"deleteInstance", "saveInstance"}
        /\ UNCHANGED <<iv, panicked>> /\ instances' \subseteq Id
    BY <1>1, <1>5 DEF Deletes, Saves, Carry
  <2>2. PICK c \in Command : c.kind = "loadInstances" /\ cmds' = [cmds EXCEPT ![s] = c]
    <3> DEFINE c0 == Command0("loadInstances", 0)
               c1 == [Command0("loadInstances", 0) EXCEPT !.done = TRUE]
    <3>1. c0 \in Command /\ c0.kind = "loadInstances"
      BY CommandHasFields DEF Kind
    <3>2. c1 \in Command /\ c1.kind = "loadInstances"
      BY <3>1 DEF Command
    <3> QED
      BY <1>5, <3>1, <3>2 DEF Deletes, Saves, Reload
  <2>3. /\ cmds[s].kind \in InstancesOwn \cup {"none"}
        /\ c.kind \in InstancesOwn \cup {"none"}
    BY <2>1, <2>2 DEF InstancesOwn
  <2>4. /\ CommandsOK' /\ Touches(InstancesOwn) /\ cmds'[s] = c
        /\ \A t \in Slot : t # s => cmds'[t] = cmds[t]
    BY <2>2, <2>3, SlotChanges
  <2> QED
    BY <1>2, <1>3, <2>1, <2>4 DEF InstancesKept
<1>6. CASE InstancesMessage(s)
  <2>1. cmds[s].kind \in InstancesKinds /\ Over(s) /\ UNCHANGED <<instances, panicked>>
    BY <1>6 DEF InstancesMessage, InstancesLoaded, TestResult, BackupFinished, Arrives,
                InstancesKinds
  <2>2. /\ CommandsOK' /\ Touches(InstancesOwn)
        /\ \A t \in Slot : t # s => cmds'[t] = cmds[t]
    BY <2>1, OverKeeps DEF InstancesOwn, InstancesKinds
  <2>3. CASE tab = TabInstances /\ TestResult(s)
    <3>1. InstancesTypeOK' /\ InstancesInRange' /\ iv'.mode = "list"
      BY <1>1, <2>1, <2>3, ToModeChanges DEF TestResult, InstancesMode
    <3> QED
      BY <2>2, <2>3, <3>1 DEF InstancesKept
  <2>4. CASE tab = TabInstances /\ InstancesLoaded(s)
    <3>1. InstancesTypeOK' /\ InstancesInRange' /\ iv'.mode = iv.mode
      <4>1. CASE cmds[s].ok
        BY <1>1, <2>1, <2>4, <4>1, NewList DEF InstancesLoaded
      <4>2. CASE ~cmds[s].ok
        BY <1>1, <1>2, <2>1, <2>4, <4>2 DEF InstancesLoaded
      <4> QED
        BY <4>1, <4>2
    <3>2. InFlight("test") => InFlight("test")'
      BY <1>3, <2>2, <2>4 DEF InstancesLoaded, Arrives
    <3> QED
      BY <2>2, <2>4, <3>1, <3>2 DEF InstancesKept
  <2>5. CASE tab = TabInstances /\ BackupFinished(s)
    <3>1. InFlight("test") => InFlight("test")'
      BY <1>3, <2>2, <2>5 DEF BackupFinished, Arrives
    <3> QED
      BY <1>1, <1>2, <2>1, <2>2, <2>5, <3>1 DEF BackupFinished, InstancesKept
  <2>6. CASE tab # TabInstances /\ UNCHANGED iv
    BY <1>1, <1>2, <2>1, <2>2, <2>6 DEF InstancesKept
  <2> QED
    BY <1>6, <2>3, <2>4, <2>5, <2>6 DEF InstancesMessage
<1> QED
  BY <1>4, <1>5, <1>6 DEF InstancesCommand

-----------------------------------------------------------------------------
(* The view of the backups *)

BackupsInRange == bv.list # {} => InList(bv.list, bv.selected)

BackupsKept ==
    /\ BackupsTypeOK'
    /\ BackupsInRange'
    /\ DialogKnown'
    /\ CommandsOK'
    /\ Touches(BackupsKinds)

BackupsView ==
    [mode : BackupsMode, list : SUBSET Id, selected : Nat \ {0},
     loading : BOOLEAN, deleteID : Id \cup {0},
     confirmInput : BOOLEAN, restoreConfirm : BOOLEAN]

LEMMA ChosenIsKnown ==
    ASSUME BackupsTypeOK, BackupsInRange, bv.list # {}
    PROVE  Chosen \in Id /\ Chosen # 0
<1>1. bv.list \in SUBSET Id
  BY DEF BackupsTypeOK
<1>2. Chosen \in bv.list
  BY <1>1, AtIsInList DEF Chosen, BackupsInRange
<1> QED
  BY <1>1, <1>2, ListIsFinite

(* A step that keeps the list and the selection. *)
LEMMA ViewChanges ==
    ASSUME BackupsTypeOK, BackupsInRange, bv' \in BackupsView,
           bv'.list = bv.list, bv'.selected = bv.selected,
           records' \subseteq Id, asked' \in BOOLEAN,
           bv'.mode = "confirmDelete"
              => bv'.deleteID # 0 /\ (bv'.confirmInput => asked'),
           bv'.mode = "restore" => (bv'.restoreConfirm => asked')
    PROVE  BackupsTypeOK' /\ BackupsInRange' /\ DialogKnown'
BY DEF BackupsTypeOK, BackupsInRange, DialogKnown, BackupsView

LEMMA BackupsKeysKeep ==
    ASSUME BackupsTypeOK, BackupsInRange, DialogKnown, CommandsOK, BackupsKeys
    PROVE  /\ BackupsKept
           /\ tab = TabBackups
           /\ bv'.mode = "restoring" => InFlight("restore")'
           /\ bv'.mode = "restoringAll" => InFlight("restoreAll")'
<1>1. /\ bv \in BackupsView /\ bv.list \in SUBSET Id /\ bv.selected \in Nat \ {0}
      /\ bv.deleteID \in Id \cup {0} /\ bv.confirmInput \in BOOLEAN
      /\ bv.restoreConfirm \in BOOLEAN
      /\ records \subseteq Id /\ asked \in BOOLEAN
  BY DEF BackupsTypeOK, BackupsView
<1>2. ASSUME UNCHANGED cmds PROVE CommandsOK' /\ Touches(BackupsKinds)
  BY <1>2 DEF CommandsOK, Touches
<1>3. bv.list # {} => Chosen \in Id /\ Chosen # 0
  BY ChosenIsKnown
<1>4. ASSUME NEW kind \in BackupsKinds, NEW id \in Id \cup {0}, Send(kind, id)
      PROVE  CommandsOK' /\ Touches(BackupsKinds) /\ InFlight(kind)'
  <2>1. kind \in Kind \cap BackupsKinds
    BY DEF Kind, BackupsKinds
  <2> QED
    BY <1>4, <2>1, SendKeeps
<1>5. CASE BMove
  <2>1. PICK i \in Moves(bv.list, bv.selected) : bv' = [bv EXCEPT !.selected = i]
    BY <1>5 DEF BMove
  <2>2. i \in Nat \ {0} /\ (InList(bv.list, bv.selected) => InList(bv.list, i))
    BY <1>1, MovesInRange
  <2>3. /\ UNCHANGED <<cmds, records, asked>> /\ tab = TabBackups
        /\ bv.mode = "list"
    BY <1>5 DEF BMove, BackupsKey
  <2>4. /\ bv' \in BackupsView /\ bv'.list = bv.list /\ bv'.selected = i
        /\ bv'.mode = "list"
    BY <1>1, <2>1, <2>2, <2>3 DEF BackupsView
  <2>5. BackupsTypeOK' /\ BackupsInRange' /\ DialogKnown'
    BY <1>1, <2>2, <2>3, <2>4 DEF BackupsTypeOK, BackupsInRange, DialogKnown, BackupsView
  <2> QED
    BY <1>2, <2>3, <2>4, <2>5 DEF BackupsKept
<1>6. CASE BDetail \/ BEsc
  <2>1. /\ UNCHANGED <<cmds, records>> /\ tab = TabBackups /\ asked' \in BOOLEAN
        /\ bv' \in BackupsView /\ bv'.list = bv.list /\ bv'.selected = bv.selected
        /\ bv'.mode \in {"detail", "list"}
    BY <1>1, <1>6 DEF BDetail, BEsc, BackupsKey, BackupsView, BackupsMode
  <2>2. BackupsTypeOK' /\ BackupsInRange' /\ DialogKnown'
    BY <1>1, <2>1, ViewChanges
  <2> QED
    BY <1>2, <2>1, <2>2 DEF BackupsKept
<1>7. CASE BDelete
  <2>1. /\ UNCHANGED <<cmds, records>> /\ tab = TabBackups /\ asked' = FALSE
        /\ Chosen \in Id /\ Chosen # 0
        /\ bv' = [bv EXCEPT !.mode = "confirmDelete", !.deleteID = Chosen,
                            !.confirmInput = FALSE]
    BY <1>3, <1>7 DEF BDelete, StartDelete, BackupsKey
  <2>2. /\ bv' \in BackupsView /\ bv'.list = bv.list /\ bv'.selected = bv.selected
        /\ bv'.mode = "confirmDelete" /\ bv'.deleteID # 0 /\ ~bv'.confirmInput
    BY <1>1, <2>1 DEF BackupsView, BackupsMode
  <2>3. BackupsTypeOK' /\ BackupsInRange' /\ DialogKnown'
    BY <1>1, <2>1, <2>2, ViewChanges
  <2> QED
    BY <1>2, <2>1, <2>2, <2>3 DEF BackupsKept
<1>8. CASE BRestore
  <2>1. /\ UNCHANGED <<cmds, records>> /\ tab = TabBackups /\ asked' = FALSE
        /\ bv' = [bv EXCEPT !.mode = "restore", !.restoreConfirm = FALSE]
    BY <1>8 DEF BRestore, BackupsKey
  <2>2. /\ bv' \in BackupsView /\ bv'.list = bv.list /\ bv'.selected = bv.selected
        /\ bv'.mode = "restore" /\ ~bv'.restoreConfirm
    BY <1>1, <2>1 DEF BackupsView, BackupsMode
  <2>3. BackupsTypeOK' /\ BackupsInRange' /\ DialogKnown'
    BY <1>1, <2>1, <2>2, ViewChanges
  <2> QED
    BY <1>2, <2>1, <2>2, <2>3 DEF BackupsKept
<1>9. CASE BRestoreAll \/ BHistory \/ BRefresh
  <2>1. PICK mode \in {"restoreAll", "history", "list"} :
            bv' = [bv EXCEPT !.mode = mode, !.loading = TRUE]
    <3>1. CASE BRestoreAll \/ BHistory
      BY <3>1 DEF BRestoreAll, BHistory
    <3>2. CASE BRefresh
      <4>1. bv' = [bv EXCEPT !.mode = "list", !.loading = TRUE]
        BY <1>1, <3>2 DEF BRefresh, BackupsKey, BackupsView
      <4> QED
        BY <4>1
    <3> QED
      BY <1>9, <3>1, <3>2
  <2>2. UNCHANGED records /\ tab = TabBackups /\ asked' \in BOOLEAN
    BY <1>1, <1>9 DEF BRestoreAll, BHistory, BRefresh, BackupsKey
  <2>3. /\ bv' \in BackupsView /\ bv'.list = bv.list /\ bv'.selected = bv.selected
        /\ bv'.mode = mode
    BY <1>1, <2>1 DEF BackupsView, BackupsMode
  <2>4. CommandsOK' /\ Touches(BackupsKinds)
    <3>1. PICK kind \in BackupsKinds : Send(kind, 0)
      BY <1>9 DEF BRestoreAll, BHistory, BRefresh, BackupsKinds
    <3> QED
      BY <1>4, <3>1
  <2>5. BackupsTypeOK' /\ BackupsInRange' /\ DialogKnown'
    BY <1>1, <2>2, <2>3, ViewChanges
  <2> QED
    BY <2>2, <2>3, <2>4, <2>5 DEF BackupsKept
<1>10. CASE BType
  <2>1. UNCHANGED <<cmds, records>> /\ tab = TabBackups
    BY <1>10 DEF BType, BackupsKey
  <2>2. CASE BackupsKey("restore") /\ bv' = [bv EXCEPT !.restoreConfirm = ~@]
    <3>1. asked' = ~bv.restoreConfirm
      BY <1>10, <2>2 DEF BType, BackupsKey
    <3>2. /\ bv' \in BackupsView /\ bv'.list = bv.list /\ bv'.selected = bv.selected
          /\ bv'.mode = "restore" /\ bv'.restoreConfirm = ~bv.restoreConfirm
      BY <1>1, <2>2 DEF BackupsView, BackupsKey
    <3>3. BackupsTypeOK' /\ BackupsInRange' /\ DialogKnown'
      BY <1>1, <2>1, <3>1, <3>2, ViewChanges
    <3> QED
      BY <1>2, <2>1, <3>2, <3>3 DEF BackupsKept
  <2>3. CASE /\ BackupsKey("confirmDelete") \/ BackupsKey("restoreAll")
             /\ bv' = [bv EXCEPT !.confirmInput = ~@]
    <3>1. asked' = ~bv.confirmInput /\ bv.mode \in {"confirmDelete", "restoreAll"}
      BY <1>10, <2>3 DEF BType, BackupsKey
    <3>2. /\ bv' \in BackupsView /\ bv'.list = bv.list /\ bv'.selected = bv.selected
          /\ bv'.mode = bv.mode /\ bv'.confirmInput = ~bv.confirmInput
          /\ bv'.deleteID = bv.deleteID
      BY <1>1, <2>3 DEF BackupsView
    <3>3. BackupsTypeOK' /\ BackupsInRange' /\ DialogKnown'
      BY <1>1, <2>1, <3>1, <3>2, ViewChanges DEF DialogKnown
    <3> QED
      BY <1>2, <2>1, <3>1, <3>2, <3>3 DEF BackupsKept
  <2> QED
    BY <1>10, <2>2, <2>3 DEF BType
<1>11. CASE EnterDelete
  <2>1. /\ UNCHANGED <<records, asked>> /\ tab = TabBackups
        /\ bv' = [bv EXCEPT !.loading = TRUE] /\ bv.mode = "confirmDelete"
        /\ Send("delete", bv.deleteID)
    BY <1>11 DEF EnterDelete, BackupsKey
  <2>2. /\ bv' \in BackupsView /\ bv'.list = bv.list /\ bv'.selected = bv.selected
        /\ bv'.mode = bv.mode /\ bv'.confirmInput = bv.confirmInput
        /\ bv'.deleteID = bv.deleteID
    BY <1>1, <2>1 DEF BackupsView
  <2>3. BackupsTypeOK' /\ BackupsInRange' /\ DialogKnown'
    BY <1>1, <2>1, <2>2, ViewChanges DEF DialogKnown
  <2>4. CommandsOK' /\ Touches(BackupsKinds)
    BY <1>1, <1>4, <2>1 DEF BackupsKinds
  <2> QED
    BY <2>1, <2>2, <2>3, <2>4 DEF BackupsKept
<1>12. ASSUME NEW mode \in {"restoring", "restoringAll"}, NEW kind \in BackupsKinds,
              bv' = [bv EXCEPT !.mode = mode, !.loading = TRUE],
              Send(kind, 0), asked' = FALSE, UNCHANGED records
       PROVE  BackupsKept /\ InFlight(kind)' /\ bv'.mode = mode
  <2>1. /\ bv' \in BackupsView /\ bv'.list = bv.list /\ bv'.selected = bv.selected
        /\ bv'.mode = mode
    BY <1>1, <1>12 DEF BackupsView, BackupsMode
  <2>2. BackupsTypeOK' /\ BackupsInRange' /\ DialogKnown'
    BY <1>1, <1>12, <2>1, ViewChanges
  <2> QED
    BY <1>4, <1>12, <2>1, <2>2 DEF BackupsKept
<1>13. CASE EnterRestore
  BY <1>12, <1>13 DEF EnterRestore, BackupsKey, BackupsKinds
<1>14. CASE EnterRestoreAll
  BY <1>12, <1>14 DEF EnterRestoreAll, BackupsKey, BackupsKinds
<1> QED
  BY <1>5, <1>6, <1>7, <1>8, <1>9, <1>10, <1>11, <1>13, <1>14 DEF BackupsKeys

LEMMA BackupsCommandKeeps ==
    ASSUME BackupsTypeOK, BackupsInRange, DialogKnown, CommandsOK, NEW s \in Slot,
           BackupsCommand(s) \/ BackupsMessage(s)
    PROVE  /\ BackupsKept
           /\ tab = TabBackups /\ bv'.mode = "restoring" =>
                 /\ bv.mode = "restoring"
                 /\ InFlight("restore") => InFlight("restore")'
           /\ tab = TabBackups /\ bv'.mode = "restoringAll" =>
                 /\ bv.mode = "restoringAll"
                 /\ InFlight("restoreAll") => InFlight("restoreAll")'
           /\ tab # TabBackups => UNCHANGED bv
<1>1. /\ bv \in BackupsView /\ records \subseteq Id /\ asked \in BOOLEAN
      /\ cmds[s] \in Command /\ cmds[s].list \in SUBSET Id
  BY DEF BackupsTypeOK, BackupsView, CommandsOK, Command
<1>2. ASSUME UNCHANGED <<bv, asked>>, records' \subseteq Id
      PROVE  BackupsTypeOK' /\ BackupsInRange' /\ DialogKnown'
  BY <1>2 DEF BackupsTypeOK, BackupsInRange, DialogKnown
<1>3. ASSUME NEW kind, cmds[s].kind # kind \/ cmds'[s].kind = kind,
             \A t \in Slot : t # s => cmds'[t] = cmds[t]
      PROVE  InFlight(kind) => InFlight(kind)'
  BY <1>3 DEF InFlight
<1>4. CASE BackupsCommand(s)
  <2>1. PICK ok \in BOOLEAN, list \in SUBSET Id : Done(s, ok, list)
    BY <1>1, <1>4 DEF BackupsCommand, ReadsBackups, DeletesBackup, Answers
  <2>2. /\ cmds[s].kind \in BackupsKinds /\ UNCHANGED <<bv, asked>>
        /\ records' \subseteq Id
    BY <1>1, <1>4
    DEF BackupsCommand, ReadsBackups, DeletesBackup, Answers, Carry, BackupsKinds
  <2>3. /\ CommandsOK' /\ Touches(BackupsKinds) /\ cmds'[s].kind = cmds[s].kind
        /\ \A t \in Slot : t # s => cmds'[t] = cmds[t]
    BY <2>1, <2>2, DoneKeeps
  <2>4. \A kind : InFlight(kind) => InFlight(kind)'
    BY <1>3, <2>3
  <2> QED
    BY <1>2, <2>2, <2>3, <2>4 DEF BackupsKept
<1>5. CASE BackupsMessage(s)
  <2>1. cmds[s].kind \in BackupsKinds /\ UNCHANGED <<records, asked>>
    BY <1>5
    DEF BackupsMessage, BackupsLoaded, DeleteMsg, RestoreDone, Preview, RestoreAllDone,
        HistoryLoaded, Arrives, BackupsKinds
  <2>2. /\ CommandsOK' /\ Touches(BackupsKinds)
        /\ \A t \in Slot : t # s => cmds'[t] = cmds[t]
    <3>1. CASE Over(s)
      BY <2>1, <3>1, OverKeeps
    <3>2. CASE LoadAgain(s)
      <4>1. /\ Command0("loadBackups", 0) \in Command
            /\ Command0("loadBackups", 0).kind = "loadBackups"
        BY CommandHasFields DEF Kind
      <4>2. PICK c \in Command : c.kind \in BackupsKinds /\ cmds' = [cmds EXCEPT ![s] = c]
        BY <3>2, <4>1 DEF LoadAgain, BackupsKinds
      <4> QED
        BY <2>1, <4>2, SlotChanges
    <3> QED
      BY <1>5, <3>1, <3>2
      DEF BackupsMessage, BackupsLoaded, DeleteMsg, RestoreDone, Preview, RestoreAllDone,
          HistoryLoaded
  <2>3. CASE tab # TabBackups /\ UNCHANGED bv
    BY <1>1, <1>2, <2>1, <2>2, <2>3 DEF BackupsKept
  <2>4. ASSUME tab = TabBackups, bv' \in BackupsView, bv'.list = bv.list,
               bv'.selected = bv.selected, bv'.deleteID = bv.deleteID,
               bv'.restoreConfirm = bv.restoreConfirm,
               bv'.confirmInput => bv.confirmInput,
               bv'.mode \in {bv.mode, "list"},
               cmds[s].kind \in {"restore", "restoreAll"} => bv'.mode = "list"
        PROVE  /\ BackupsKept
               /\ bv'.mode \in {"restoring", "restoringAll"} => bv'.mode = bv.mode
               /\ bv'.mode = "restoring" => (InFlight("restore") => InFlight("restore")')
               /\ bv'.mode = "restoringAll"
                     => (InFlight("restoreAll") => InFlight("restoreAll")')
    <3>1. BackupsTypeOK' /\ BackupsInRange' /\ DialogKnown'
      BY <1>1, <2>1, <2>4, ViewChanges DEF DialogKnown
    <3>2. bv'.mode # "list" => cmds[s].kind # "restore" /\ cmds[s].kind # "restoreAll"
      BY <2>4
    <3> QED
      BY <1>3, <2>2, <2>4, <3>1, <3>2 DEF BackupsKept
  <2>5. CASE tab = TabBackups /\ (DeleteMsg(s) \/ RestoreDone(s) \/ Preview(s)
                                    \/ RestoreAllDone(s) \/ HistoryLoaded(s))
    <3>1. /\ bv' \in BackupsView /\ bv'.list = bv.list /\ bv'.selected = bv.selected
          /\ bv'.deleteID = bv.deleteID /\ bv'.restoreConfirm = bv.restoreConfirm
          /\ bv'.confirmInput => bv.confirmInput
          /\ bv'.mode \in {bv.mode, "list"}
          /\ cmds[s].kind \in {"restore", "restoreAll"} => bv'.mode = "list"
      <4>1. CASE DeleteMsg(s)
        BY <1>1, <4>1 DEF DeleteMsg, Arrives, BackupsView, BackupsMode
      <4>2. CASE RestoreDone(s) \/ RestoreAllDone(s)
        BY <1>1, <4>2 DEF RestoreDone, RestoreAllDone, BackupsView, BackupsMode
      <4>3. CASE Preview(s)
        BY <1>1, <4>3 DEF Preview, Arrives, BackupsView, BackupsMode
      <4>4. CASE HistoryLoaded(s)
        BY <1>1, <4>4 DEF HistoryLoaded, Arrives, BackupsView, BackupsMode
      <4> QED
        BY <2>5, <4>1, <4>2, <4>3, <4>4
    <3> QED
      BY <2>4, <2>5, <3>1
  <2>6. CASE tab = TabBackups /\ BackupsLoaded(s)
    <3> DEFINE list == cmds[s].list
    <3>1. PICK i \in Nat \ {0} : i = Clamp(list, bv.selected) /\ (list # {} => InList(list, i))
      BY <1>1, ClampInRange DEF BackupsView
    <3>2. bv' = [bv EXCEPT !.loading = FALSE, !.list = list, !.selected = i]
      BY <1>1, <2>6, <3>1 DEF BackupsLoaded, BackupsView
    <3>3. /\ bv' \in BackupsView /\ bv'.list = list /\ bv'.selected = i
          /\ bv'.mode = bv.mode /\ bv'.deleteID = bv.deleteID
          /\ bv'.confirmInput = bv.confirmInput /\ bv'.restoreConfirm = bv.restoreConfirm
      BY <1>1, <3>2 DEF BackupsView
    <3>4. BackupsTypeOK' /\ BackupsInRange' /\ DialogKnown'
      BY <1>1, <2>1, <3>1, <3>3
      DEF BackupsTypeOK, BackupsInRange, DialogKnown, BackupsView
    <3>5. cmds[s].kind = "loadBackups"
      BY <2>6 DEF BackupsLoaded, Arrives
    <3> QED
      BY <1>3, <2>2, <2>6, <3>3, <3>4, <3>5 DEF BackupsKept
  <2> QED
    BY <1>5, <2>3, <2>5, <2>6 DEF BackupsMessage
<1> QED
  BY <1>4, <1>5

-----------------------------------------------------------------------------
(* The root model *)

(* The commands of the other views stay under way. *)
LEMMA InFlightStays ==
    ASSUME NEW kinds, Touches(kinds), NEW kind, kind \notin kinds \cup {"none"}
    PROVE  InFlight(kind) => InFlight(kind)'
BY DEF InFlight, Touches

(* What was sent takes a free slot. *)
LEMMA SendPuts ==
    ASSUME CommandsOK, NEW kind, NEW id, Send(kind, id)
    PROVE  \A t \in Slot :
              \/ cmds'[t] = cmds[t]
              \/ cmds[t].kind = "none" /\ cmds'[t].kind = kind /\ ~cmds'[t].ok
                    /\ ~cmds'[t].done
<1>1. PICK c : c = Command0(kind, id)
  OBVIOUS
<1>2. PICK s \in Slot : Free(s) /\ cmds' = [cmds EXCEPT ![s] = c]
  BY <1>1 DEF Send
<1>3. c.kind = kind /\ ~c.ok /\ ~c.done
  BY <1>1, CommandHasFields
<1> QED
  BY <1>2, <1>3 DEF Free, CommandsOK

(* A step of a view leaves the root model as it was. *)
LEMMA ViewKeepsRoot ==
    ASSUME TuiTypeOK, KeptOnS3, StartKnown, CommandsOK',
           UNCHANGED <<used, tab, s3Configured, s3Saved, dashLoaded>>,
           NEW kinds, Touches(kinds), "dash" \notin kinds, "saveS3" \notin kinds
    PROVE  TuiTypeOK' /\ KeptOnS3' /\ StartKnown'
<1>1. TuiTypeOK' /\ KeptOnS3'
  BY DEF TuiTypeOK, KeptOnS3, CommandsOK
<1>2. \A s \in Slot : cmds'[s].kind \in {"dash", "saveS3"} => cmds'[s] = cmds[s]
  BY DEF Touches
<1>3. StartKnown'
  BY <1>2 DEF StartKnown, InFlight
<1> QED
  BY <1>1, <1>3

RootKinds == {"dash", "saveS3", "loadInstances", "loadBackups"}

LEMMA KeyTabKeeps ==
    ASSUME TuiTypeOK, KeptOnS3, StartKnown, KeyTab, UNCHANGED used
    PROVE  TuiTypeOK' /\ KeptOnS3' /\ StartKnown' /\ Touches(RootKinds)
<1>1. s3Configured /\ CommandsOK /\ tab' \in Tabs
  BY DEF KeyTab, MayMove, TuiTypeOK, CommandsOK, Tabs, TabNext, TabPrev
<1>2. PICK kind : kind = LoadOf(tab')
  OBVIOUS
<1>3. kind \in {"dash", "loadInstances", "loadBackups", "none"}
  BY <1>2 DEF LoadOf, Loads
<1>4. /\ CommandsOK' /\ Touches(RootKinds)
      /\ \A t \in Slot : \/ cmds'[t] = cmds[t]
                        \/ /\ cmds[t].kind = "none" /\ cmds'[t].kind = kind
                           /\ ~cmds'[t].ok /\ ~cmds'[t].done
  <2>1. CASE kind = "none"
    <3>1. UNCHANGED cmds
      BY <1>2, <2>1 DEF KeyTab
    <3> QED
      BY <1>1, <3>1 DEF CommandsOK, Touches
  <2>2. CASE kind # "none"
    <3>1. Send(kind, 0) /\ kind \in Kind \cap RootKinds
      BY <1>2, <1>3, <2>2 DEF KeyTab, Kind, RootKinds
    <3> QED
      BY <1>1, <3>1, SendKeeps, SendPuts
  <2> QED
    BY <2>1, <2>2
<1>5. UNCHANGED <<s3Configured, s3Saved, dashLoaded>>
  BY DEF KeyTab
<1>6. TuiTypeOK' /\ KeptOnS3'
  BY <1>1, <1>4, <1>5 DEF TuiTypeOK, CommandsOK, KeptOnS3
<1>7. s3Saved /\ (used # {} => dashLoaded)
  BY <1>1 DEF StartKnown
<1>8. StartKnown'
  BY <1>1, <1>3, <1>4, <1>5, <1>7 DEF StartKnown
<1> QED
  BY <1>4, <1>6, <1>8

(* Only the first load of the dashboard sends a user to the tab of S3 who  *)
(* works in some view, and it finds them where they started.               *)
LEMMA RootKeeps ==
    ASSUME TuiTypeOK, KeptOnS3, StartKnown, UNCHANGED used,
           RootKeys \/ (\E s \in Slot : RootCommand(s))
    PROVE  /\ TuiTypeOK' /\ KeptOnS3' /\ StartKnown' /\ Touches(RootKinds)
           /\ used # {} /\ tab # TabDashboard => UNCHANGED tab
<1>1. CommandsOK
  BY DEF TuiTypeOK, CommandsOK
<1>2. ASSUME CommandsOK', tab' \in Tabs, s3Configured' \in BOOLEAN, s3Saved' \in BOOLEAN,
             dashLoaded' \in BOOLEAN
      PROVE  TuiTypeOK'
  BY <1>2 DEF TuiTypeOK, CommandsOK
<1>3. CASE DashTick \/ BackupEnds
  <2>1. used = {} /\ Send("dash", 0) /\ UNCHANGED <<tab, s3Configured, s3Saved, dashLoaded>>
    BY <1>3 DEF DashTick, BackupEnds
  <2>2. "dash" \in Kind \cap RootKinds
    BY DEF Kind, RootKinds
  <2>3. CommandsOK' /\ Touches(RootKinds)
    BY <1>1, <2>1, <2>2, SendKeeps
  <2>4. \A t \in Slot : cmds'[t] = cmds[t] \/ ~cmds'[t].ok
    BY <1>1, <2>1, SendPuts
  <2>5. TuiTypeOK' /\ KeptOnS3' /\ StartKnown'
    BY <1>2, <2>1, <2>3, <2>4 DEF TuiTypeOK, KeptOnS3, StartKnown
  <2> QED
    BY <2>1, <2>3, <2>5
<1>4. CASE KeySaveS3
  <2>1. /\ tab = TabS3Config /\ Send("saveS3", 0)
        /\ UNCHANGED <<tab, s3Configured, s3Saved, dashLoaded>>
    BY <1>4 DEF KeySaveS3
  <2>2. "saveS3" \in Kind \cap RootKinds
    BY DEF Kind, RootKinds
  <2>3. CommandsOK' /\ Touches(RootKinds)
    BY <1>1, <2>1, <2>2, SendKeeps
  <2>4. \A t \in Slot : \/ cmds'[t] = cmds[t]
                        \/ ~cmds'[t].ok /\ cmds'[t].kind # "dash"
    BY <1>1, <2>1, SendPuts
  <2>5. used = {} \/ dashLoaded
    BY <2>1 DEF StartKnown, TabDashboard, TabS3Config
  <2>6. TuiTypeOK' /\ KeptOnS3' /\ StartKnown'
    BY <1>2, <2>1, <2>3, <2>4, <2>5 DEF TuiTypeOK, KeptOnS3, StartKnown
  <2> QED
    BY <2>1, <2>3, <2>6
<1>5. ASSUME NEW s \in Slot, RootCommand(s)
      PROVE  /\ TuiTypeOK' /\ KeptOnS3' /\ StartKnown' /\ Touches(RootKinds)
             /\ used # {} /\ tab # TabDashboard => UNCHANGED tab
  <2>1. cmds[s] \in Command /\ cmds[s].ok \in BOOLEAN
    BY <1>1 DEF CommandsOK, Command
  <2>2. ASSUME NEW ok \in BOOLEAN, Done(s, ok, {}), cmds[s].kind \in {"dash", "saveS3"}
        PROVE  /\ CommandsOK' /\ Touches(RootKinds)
               /\ cmds'[s].kind = cmds[s].kind /\ cmds'[s].ok = ok
               /\ \A t \in Slot : t # s => cmds'[t] = cmds[t]
    <3>1. cmds[s].kind \in RootKinds
      BY <2>2 DEF RootKinds
    <3> QED
      BY <1>1, <2>2, <3>1, DoneKeeps
  <2>3. ASSUME Over(s), cmds[s].kind \in {"dash", "saveS3"}
        PROVE  /\ CommandsOK' /\ Touches(RootKinds) /\ cmds'[s].kind = "none"
               /\ \A t \in Slot : t # s => cmds'[t] = cmds[t]
    <3>1. cmds[s].kind \in RootKinds
      BY <2>3 DEF RootKinds
    <3> QED
      BY <1>1, <2>3, <3>1, OverKeeps
  <2>4. CASE DashReads(s)
    <3>1. /\ cmds[s].kind = "dash" /\ Done(s, s3Saved, {}) /\ s3Saved \in BOOLEAN
          /\ UNCHANGED <<tab, s3Configured, s3Saved, dashLoaded>>
      BY <2>4 DEF DashReads, Carry, TuiTypeOK
    <3>2. /\ CommandsOK' /\ Touches(RootKinds)
          /\ cmds'[s].kind = "dash" /\ cmds'[s].ok = s3Saved
          /\ \A t \in Slot : t # s => cmds'[t] = cmds[t]
      BY <2>2, <3>1
    <3>3. TuiTypeOK' /\ KeptOnS3' /\ StartKnown'
      BY <1>2, <3>1, <3>2 DEF TuiTypeOK, KeptOnS3, StartKnown, InFlight
    <3> QED
      BY <3>1, <3>2, <3>3
  <2>5. CASE DashLoaded(s)
    <3>1. /\ cmds[s].kind = "dash" /\ cmds[s].done /\ Over(s) /\ UNCHANGED s3Saved
          /\ dashLoaded' = TRUE /\ s3Configured' = cmds[s].ok
          /\ tab' = IF cmds[s].ok THEN tab ELSE TabS3Config
      BY <2>5 DEF DashLoaded, Arrives
    <3>2. /\ CommandsOK' /\ Touches(RootKinds) /\ cmds'[s].kind = "none"
          /\ \A t \in Slot : t # s => cmds'[t] = cmds[t]
      BY <2>3, <3>1
    <3>3. TuiTypeOK' /\ KeptOnS3'
      BY <1>2, <2>1, <3>1, <3>2 DEF TuiTypeOK, KeptOnS3, TabS3Config, Tabs
    <3>4. StartKnown'
      BY <3>1, <3>2 DEF StartKnown
    <3>5. used # {} /\ tab # TabDashboard => tab' = tab
      BY <3>1 DEF StartKnown
    <3> QED
      BY <3>2, <3>3, <3>4, <3>5
  <2>6. CASE SavesS3(s)
    <3>1. PICK ok \in BOOLEAN : Done(s, ok, {}) /\ s3Saved' = (s3Saved \/ ok)
      BY <2>6 DEF SavesS3, TuiTypeOK
    <3>2. /\ cmds[s].kind = "saveS3" /\ UNCHANGED <<tab, s3Configured, dashLoaded>>
          /\ s3Saved \in BOOLEAN
      BY <2>6 DEF SavesS3, Carry, TuiTypeOK
    <3>3. /\ CommandsOK' /\ Touches(RootKinds)
          /\ cmds'[s].kind = "saveS3" /\ cmds'[s].ok = ok
          /\ \A t \in Slot : t # s => cmds'[t] = cmds[t]
      BY <2>2, <3>1, <3>2
    <3>4. TuiTypeOK' /\ KeptOnS3'
      BY <1>2, <3>1, <3>2, <3>3 DEF TuiTypeOK, KeptOnS3
    <3>5. used = {} \/ dashLoaded
      BY <3>2 DEF StartKnown, InFlight
    <3>6. StartKnown'
      BY <3>1, <3>2, <3>3, <3>5 DEF StartKnown
    <3> QED
      BY <3>2, <3>3, <3>4, <3>6
  <2>7. CASE SavedMsg(s)
    <3>1. /\ cmds[s].kind = "saveS3" /\ Over(s)
          /\ s3Configured' = (s3Configured \/ cmds[s].ok)
          /\ UNCHANGED <<tab, s3Saved, dashLoaded>>
      BY <2>7 DEF SavedMsg, Arrives
    <3>2. /\ CommandsOK' /\ Touches(RootKinds) /\ cmds'[s].kind = "none"
          /\ \A t \in Slot : t # s => cmds'[t] = cmds[t]
      BY <2>3, <3>1
    <3>3. TuiTypeOK' /\ KeptOnS3'
      BY <1>2, <2>1, <3>1, <3>2 DEF TuiTypeOK, KeptOnS3
    <3>4. used = {} \/ dashLoaded
      BY <3>1 DEF StartKnown, InFlight
    <3>5. StartKnown'
      BY <3>1, <3>2, <3>4 DEF StartKnown
    <3> QED
      BY <3>1, <3>2, <3>3, <3>5
  <2> QED
    BY <1>5, <2>4, <2>5, <2>6, <2>7 DEF RootCommand
<1> QED
  BY <1>3, <1>4, <1>5 DEF RootKeys

-----------------------------------------------------------------------------
(* The interface *)

LEMMA InitOK == Init => TuiInv
<1> SUFFICES ASSUME TuiInit, InstancesInit, BackupsInit PROVE TuiInv
  BY DEF Init
<1>1. cmds \in [Slot -> {Command0(kind, 0) : kind \in Started \cup {"none"}}]
  BY DEF TuiInit
<1>2. Started \subseteq {"dash", "loadInstances", "loadBackups"}
  <2>1. used \subseteq {"instances", "backups"}
    BY TuiAssumption DEF TuiInit
  <2> QED
    BY <2>1 DEF Started, Loads
<1>3. ASSUME NEW s \in Slot
      PROVE  /\ cmds[s] \in Command /\ ~cmds[s].ok
             /\ cmds[s].kind # "saveS3"
  <2>1. PICK kind \in Started \cup {"none"} : cmds[s] = Command0(kind, 0)
    BY <1>1
  <2>2. kind \in Kind \cup {"none"} /\ kind # "saveS3" /\ 0 \in Id \cup {0}
    BY <1>2 DEF Kind
  <2> QED
    BY <2>1, <2>2, CommandHasFields
<1>4. TypeOK
  <2>1. /\ s3Saved \in BOOLEAN /\ used \in Uses /\ tab \in Tabs
        /\ s3Configured \in BOOLEAN /\ dashLoaded \in BOOLEAN
    <3>1. /\ used \in Uses /\ s3Saved \in InitConfigured
          /\ tab = 0 /\ s3Configured = FALSE /\ dashLoaded = FALSE
      BY DEF TuiInit, TabDashboard
    <3>2. s3Saved \in BOOLEAN
      BY <3>1, TuiAssumption
    <3>3. tab \in Tabs
      BY <3>1 DEF Tabs
    <3>4. s3Configured \in BOOLEAN /\ dashLoaded \in BOOLEAN
      BY <3>1
    <3> QED
      BY <3>1, <3>2, <3>3, <3>4
  <2>2. cmds \in [Slot -> Command]
    BY <1>1, <1>3
  <2>3. TuiTypeOK
    BY <2>1, <2>2 DEF TuiTypeOK
  <2>4. InstancesTypeOK
    <3>1. instances \subseteq Id /\ panicked \in BOOLEAN
      BY DEF InstancesInit
    <3>2. /\ iv.mode \in InstancesMode /\ iv.list \in SUBSET Id /\ iv.editing \in Id \cup {0}
          /\ iv.selected \in Nat \ {0} /\ iv.typed \in BOOLEAN
      BY DEF InstancesInit, InstancesMode
    <3>3. iv = [mode |-> iv.mode, list |-> iv.list, selected |-> iv.selected,
                editing |-> iv.editing, typed |-> iv.typed]
      BY DEF InstancesInit
    <3> QED
      BY <3>1, <3>2, <3>3 DEF InstancesTypeOK
  <2>5. BackupsTypeOK
    <3>1. records \subseteq Id /\ asked \in BOOLEAN
      BY DEF BackupsInit
    <3>2. /\ bv.mode \in BackupsMode /\ bv.list \in SUBSET Id /\ bv.deleteID \in Id \cup {0}
          /\ bv.selected \in Nat \ {0} /\ bv.loading \in BOOLEAN
          /\ bv.confirmInput \in BOOLEAN /\ bv.restoreConfirm \in BOOLEAN
      BY DEF BackupsInit, BackupsMode
    <3>3. bv = [mode |-> bv.mode, list |-> bv.list, selected |-> bv.selected,
                loading |-> bv.loading, deleteID |-> bv.deleteID,
                confirmInput |-> bv.confirmInput, restoreConfirm |-> bv.restoreConfirm]
      BY DEF BackupsInit
    <3> QED
      BY <3>1, <3>2, <3>3 DEF BackupsTypeOK
  <2> QED
    BY <2>3, <2>4, <2>5 DEF TypeOK
<1>5. \A s, t \in Slot : cmds[s].kind = "dash" /\ cmds[t].kind = "dash" => s = t
  <2> DEFINE Dash == {s \in Slot : cmds[s].kind = "dash"}
  <2>1. Cardinality(Dash) = 1
    BY DEF TuiInit, Started
  <2>2. IsFiniteSet(Dash)
    BY TuiAssumption, FS_Subset
  <2>3. \E s : Dash = {s}
    <3> HIDE DEF Dash
    <3> QED
      BY <2>1, <2>2, FS_Singleton
  <2> QED
    BY <2>3
<1>6. SelectionsInRange /\ KeptOnS3 /\ DialogKnown
  BY DEF TuiInit, InstancesInit, BackupsInit, SelectionsInRange, KeptOnS3, DialogKnown
<1>7. StartKnown
  BY <1>3, <1>5 DEF TuiInit, StartKnown, InFlight
<1> QED
  BY <1>4, <1>6, <1>7 DEF TuiInv

LEMMA InvParts ==
    /\ TuiInv => /\ TuiTypeOK /\ InstancesTypeOK /\ BackupsTypeOK /\ CommandsOK
                 /\ InstancesInRange /\ BackupsInRange
                 /\ KeptOnS3 /\ DialogKnown /\ StartKnown
    /\ /\ TuiTypeOK' /\ InstancesTypeOK' /\ BackupsTypeOK'
       /\ InstancesInRange' /\ BackupsInRange'
       /\ KeptOnS3' /\ DialogKnown' /\ StartKnown'
       => TuiInv'
BY DEF TuiInv, TypeOK, TuiTypeOK, CommandsOK, InstancesInRange, BackupsInRange,
       SelectionsInRange

LEMMA InstancesStand ==
    ASSUME InstancesTypeOK, InstancesInRange, UNCHANGED <<instances, iv, panicked>>
    PROVE  InstancesTypeOK' /\ InstancesInRange'
BY DEF InstancesTypeOK, InstancesInRange

LEMMA BackupsStand ==
    ASSUME BackupsTypeOK, BackupsInRange, DialogKnown, UNCHANGED <<records, bv, asked>>
    PROVE  BackupsTypeOK' /\ BackupsInRange' /\ DialogKnown'
BY DEF BackupsTypeOK, BackupsInRange, DialogKnown

LEMMA ChangeTabKeeps ==
    ASSUME TuiInv, ChangeTab, UNCHANGED used
    PROVE  TuiInv' /\ AnswersReachStep
<1>1. TuiTypeOK' /\ KeptOnS3' /\ StartKnown' /\ Touches(RootKinds)
  BY InvParts, KeyTabKeeps DEF ChangeTab
<1>2. InstancesTypeOK' /\ InstancesInRange'
  BY InvParts, InstancesStand DEF ChangeTab
<1>3. BackupsTypeOK' /\ BackupsInRange' /\ DialogKnown'
  <2>1. PICK loading \in BOOLEAN : bv' = [bv EXCEPT !.loading = loading]
    BY InvParts DEF ChangeTab, BackupsTypeOK
  <2>2. UNCHANGED <<records, asked>>
    BY DEF ChangeTab
  <2> QED
    BY <2>1, <2>2, InvParts DEF BackupsTypeOK, BackupsInRange, DialogKnown
<1>4. AnswersReachStep
  <2>1. bv'.mode = bv.mode /\ UNCHANGED iv
    BY InvParts DEF ChangeTab, BackupsTypeOK
  <2>2. ~Ends("test") /\ ~Ends("restore") /\ ~Ends("restoreAll")
    BY <1>1, InFlightStays DEF RootKinds, Ends
  <2> QED
    BY <2>1, <2>2 DEF AnswersReachStep
<1> QED
  BY <1>1, <1>2, <1>3, <1>4, InvParts

LEMMA RootStepKeeps ==
    ASSUME TuiInv, RootKeys \/ (\E s \in Slot : RootCommand(s)), UNCHANGED used,
           UNCHANGED <<instances, iv, panicked, records, bv, asked>>
    PROVE  TuiInv' /\ AnswersReachStep
<1>1. TuiTypeOK' /\ KeptOnS3' /\ StartKnown' /\ Touches(RootKinds)
  BY InvParts, RootKeeps
<1>2. InstancesTypeOK' /\ InstancesInRange' /\ BackupsTypeOK' /\ BackupsInRange' /\ DialogKnown'
  BY InvParts, InstancesStand, BackupsStand
<1>3. ~Ends("test") /\ ~Ends("restore") /\ ~Ends("restoreAll")
  BY <1>1, InFlightStays DEF RootKinds, Ends
<1> QED
  BY <1>1, <1>2, <1>3, InvParts DEF AnswersReachStep

LEMMA InstancesStepKeeps ==
    ASSUME TuiInv, UNCHANGED used,
           \/ "instances" \in used /\ InstancesKeys
           \/ \E s \in Slot : InstancesCommand(s) \/ InstancesMessage(s),
           UNCHANGED <<tab, s3Configured, s3Saved, dashLoaded, records, bv, asked>>
    PROVE  TuiInv' /\ AnswersReachStep
<1>1. /\ InstancesKept
      /\ \/ /\ "instances" \in used /\ tab = TabInstances
            /\ iv'.mode = "testing" => InFlight("test")'
         \/ /\ tab = TabInstances
            /\ iv'.mode = "testing" =>
                  iv.mode = "testing" /\ (InFlight("test") => InFlight("test")')
         \/ tab # TabInstances /\ UNCHANGED iv
  BY InvParts, InstancesKeysKeep, InstancesCommandKeeps
<1>2. TuiTypeOK' /\ KeptOnS3' /\ StartKnown'
  BY <1>1, InvParts, ViewKeepsRoot DEF InstancesKept, InstancesOwn
<1>3. BackupsTypeOK' /\ BackupsInRange' /\ DialogKnown'
  BY InvParts, BackupsStand
<1>4. ~Ends("restore") /\ ~Ends("restoreAll")
  BY <1>1, InFlightStays DEF InstancesKept, InstancesOwn, Ends
<1>5. AnswersReachStep
  BY <1>1, <1>4 DEF AnswersReachStep, Ends
<1> QED
  BY <1>1, <1>2, <1>3, <1>5, InvParts DEF InstancesKept

LEMMA BackupsStepKeeps ==
    ASSUME TuiInv, UNCHANGED used,
           \/ "backups" \in used /\ BackupsKeys
           \/ \E s \in Slot : BackupsCommand(s) \/ BackupsMessage(s),
           UNCHANGED <<tab, s3Configured, s3Saved, dashLoaded, instances, iv, panicked>>
    PROVE  TuiInv' /\ AnswersReachStep
<1>1. /\ BackupsKept
      /\ \/ /\ "backups" \in used /\ tab = TabBackups
            /\ bv'.mode = "restoring" => InFlight("restore")'
            /\ bv'.mode = "restoringAll" => InFlight("restoreAll")'
         \/ /\ tab = TabBackups
            /\ bv'.mode = "restoring" =>
                  bv.mode = "restoring" /\ (InFlight("restore") => InFlight("restore")')
            /\ bv'.mode = "restoringAll" =>
                  /\ bv.mode = "restoringAll"
                  /\ InFlight("restoreAll") => InFlight("restoreAll")'
         \/ tab # TabBackups /\ UNCHANGED bv
  BY InvParts, BackupsKeysKeep, BackupsCommandKeeps
<1>2. TuiTypeOK' /\ KeptOnS3' /\ StartKnown'
  BY <1>1, InvParts, ViewKeepsRoot DEF BackupsKept, BackupsKinds
<1>3. InstancesTypeOK' /\ InstancesInRange'
  BY InvParts, InstancesStand
<1>4. ~Ends("test")
  BY <1>1, InFlightStays DEF BackupsKept, BackupsKinds, Ends
<1>5. AnswersReachStep
  BY <1>1, <1>4 DEF AnswersReachStep, Ends
<1> QED
  BY <1>1, <1>2, <1>3, <1>5, InvParts DEF BackupsKept

LEMMA NextOK == TuiInv /\ [AppNext]_vars => TuiInv' /\ [AnswersReachStep]_vars
<1> SUFFICES ASSUME TuiInv, [AppNext]_vars PROVE TuiInv' /\ [AnswersReachStep]_vars
  OBVIOUS
<1>1. CASE UNCHANGED vars
  <2>1. /\ UNCHANGED <<used, tab, s3Configured, s3Saved, dashLoaded, cmds>>
        /\ UNCHANGED <<instances, iv, panicked>> /\ UNCHANGED <<records, bv, asked>>
    BY <1>1 DEF vars
  <2>2. TuiTypeOK' /\ KeptOnS3' /\ StartKnown'
    BY <2>1, InvParts DEF TuiTypeOK, KeptOnS3, StartKnown, InFlight
  <2> QED
    BY <1>1, <2>1, <2>2, InvParts, InstancesStand, BackupsStand
<1>2. CASE AppNext
  <2>1. UNCHANGED used /\ (ChangeTab \/ Keys \/ (\E s \in Slot : CommandStep(s)))
    BY <1>2 DEF AppNext
  <2>2. CASE ChangeTab
    BY <2>1, <2>2, ChangeTabKeeps
  <2>3. CASE Keys
    BY <2>1, <2>3, RootStepKeeps, InstancesStepKeeps, BackupsStepKeeps DEF Keys
  <2>4. CASE \E s \in Slot : CommandStep(s)
    BY <2>1, <2>4, RootStepKeeps, InstancesStepKeeps, BackupsStepKeeps DEF CommandStep
  <2> QED
    BY <2>1, <2>2, <2>3, <2>4
<1> QED
  BY <1>1, <1>2

-----------------------------------------------------------------------------
(* Every state of the interface satisfies the inductive invariant: its     *)
(* parts say why each key and each message finds what it needs             *)
(* (app.go Update; views/instances and views/backups Update).              *)
THEOREM TuiInvHolds == Spec => []TuiInv
<1> QED
  BY InitOK, NextOK, PTL DEF Spec

(* "Keep selected index in bounds": whatever was deleted while a list was  *)
(* shown, and whenever its answer came, the selection of a list that is    *)
(* not empty is in it.                                                     *)
THEOREM SelectionsInRangeHolds == Spec => []SelectionsInRange
<1>1. TuiInv => SelectionsInRange
  BY DEF TuiInv
<1> QED
  BY <1>1, TuiInvHolds, PTL

(* Once the program knows that S3 is not configured, its tab is the only   *)
(* one it shows: no key and no late answer leads away from it.             *)
THEOREM KeptOnS3Holds == Spec => []KeptOnS3
<1>1. TuiInv => KeptOnS3
  BY DEF TuiInv
<1> QED
  BY <1>1, TuiInvHolds, PTL

(* A view that takes no key until it is answered loses its answer only     *)
(* when it comes while another tab is shown (app.go Update hands a message *)
(* to the active tab): wherever the user goes, whatever else is under way. *)
THEOREM AnswersReachHolds == Spec => AnswersReach
BY TuiInvHolds, NextOK, PTL DEF Spec, AnswersReach

(* A deletion is of the record its dialog was opened for, and neither it   *)
(* nor a restore starts before the word was typed in that dialog, whatever *)
(* was answered while the dialog was open.                                 *)
THEOREM ConfirmedHolds == Spec => Confirmed
<1>1. TuiInv => ConfirmedStep
  BY DEF TuiInv, DialogKnown, ConfirmedStep, EnterDelete, EnterRestore, BackupsKey
<1>2. TuiInv /\ [AppNext]_vars => [ConfirmedStep]_vars
  BY <1>1
<1> QED
  BY <1>2, TuiInvHolds, PTL DEF Spec, Confirmed
=============================================================================
