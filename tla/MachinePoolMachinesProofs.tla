--------------------- MODULE MachinePoolMachinesProofs ---------------------
(***************************************************************************)
(* No Machine of an instance that the pool still has is deleted, for any   *)
(* set of instances and any number of disturbances.                        *)
(***************************************************************************)
EXTENDS MachinePoolMachines, TLAPS

Object == [ocid : Inst, ready : BOOLEAN, machine : Machine, del : BOOLEAN,
           here : BOOLEAN]

Types ==
  /\ inst \in [Inst -> InstState] /\ specs \subseteq Inst
  /\ pc \in {"idle", "listC", "create", "orphans"}
  /\ mpm \in Seq(Object) /\ cache \in Seq(Object) /\ list \in Seq(Object)

\* A list is older than the objects: it may be shorter, and what it says of an
\* object may have changed, but not the instance the object stands for.
Older(l) == /\ Len(l) <= Len(mpm)
            /\ \A k \in 1..Len(l) : l[k].ocid = mpm[k].ocid

\* Every object stands for an instance that the pool had.
Known == /\ \A k \in 1..Len(mpm) : inst[mpm[k].ocid] # "none"
         /\ \A i \in specs : inst[i] # "none"

\* While a reconcile runs, an instance it did not find is terminated.
Unlisted == pc # "idle" => \A k \in 1..Len(mpm) :
              mpm[k].ocid \notin specs => inst[mpm[k].ocid] = "terminated"

\* What the two loops have left to do.
Work == /\ pc = "create" => todo \subseteq specs
        /\ pc = "orphans" => todo \subseteq {k \in 1..Len(list) : list[k].ocid \notin specs}

Safe == \A k \in 1..Len(mpm) : mpm[k].machine \in {"deleting", "gone"} =>
          inst[mpm[k].ocid] = "terminated"

IInv == Types /\ Older(cache) /\ Older(list) /\ Known /\ Unlisted /\ Work /\ Safe

\* A step that changes objects, but not which instance each stands for, and
\* deletes Machines of terminated instances only.
Kept ==
  /\ mpm' \in Seq(Object) /\ Len(mpm') = Len(mpm)
  /\ \A k \in 1..Len(mpm) :
       /\ mpm'[k].ocid = mpm[k].ocid
       /\ mpm'[k].machine \in {"deleting", "gone"} => inst[mpm[k].ocid] = "terminated"

\* Replacing an element of a sequence.
LEMMA Replace ==
  ASSUME NEW S, NEW s \in Seq(S), NEW k \in 1..Len(s), NEW x \in S
  PROVE  /\ [s EXCEPT ![k] = x] \in Seq(S) /\ Len([s EXCEPT ![k] = x]) = Len(s)
         /\ [s EXCEPT ![k] = x][k] = x
         /\ \A j \in 1..Len(s) : j # k => [s EXCEPT ![k] = x][j] = s[j]
OBVIOUS

\* Objects that are left alone are kept.
LEMMA KeptSame == ASSUME IInv, UNCHANGED mpm PROVE Kept
BY DEF IInv, Types, Safe, Kept

\* A change of one object that leaves its instance alone keeps them.
LEMMA KeptOne ==
  ASSUME IInv, NEW k \in 1..Len(mpm), NEW x \in Object,
         mpm' = [mpm EXCEPT ![k] = x], x.ocid = mpm[k].ocid,
         x.machine \in {"deleting", "gone"} => inst[mpm[k].ocid] = "terminated"
  PROVE  Kept
<1>1. /\ mpm' \in Seq(Object) /\ Len(mpm') = Len(mpm) /\ mpm'[k] = x
      /\ \A j \in 1..Len(mpm) : j # k => mpm'[j] = mpm[j]
  BY Replace DEF IInv, Types
<1> QED BY <1>1 DEF IInv, Safe, Kept

\* Such a step keeps the invariant within a reconcile.
LEMMA SameObjects ==
  ASSUME IInv, UNCHANGED <<inst, cache, specs, list>>, Kept, pc' = pc,
         todo' \subseteq todo
  PROVE  IInv'
<1>1. Types' BY DEF IInv, Types, Kept
<1>2. Older(cache)' BY DEF IInv, Types, Older, Kept
<1>3. Older(list)' BY DEF IInv, Types, Older, Kept
<1>4. Known' BY DEF IInv, Known, Kept
<1>5. Unlisted' BY DEF IInv, Unlisted, Kept
<1>6. Work' BY DEF IInv, Work
<1>7. Safe' BY DEF IInv, Safe, Kept
<1> QED BY <1>1, <1>2, <1>3, <1>4, <1>5, <1>6, <1>7 DEF IInv

\* The end of a reconcile, which may have made another object.
LEMMA Returned ==
  ASSUME IInv, UNCHANGED <<inst, cache>>, Return, mpm' \in Seq(Object),
         Len(mpm') >= Len(mpm),
         \A k \in 1..Len(mpm) : mpm'[k].ocid = mpm[k].ocid,
         \A k \in 1..Len(mpm') : inst[mpm'[k].ocid] # "none",
         \A k \in 1..Len(mpm') : mpm'[k].machine \in {"deleting", "gone"} =>
           inst[mpm'[k].ocid] = "terminated"
  PROVE  IInv'
<1>1. list' = <<>> /\ Len(list') = 0 /\ list' \in Seq(Object) /\ specs' = {} /\ pc' = "idle"
  BY DEF Return
<1>2. Types' BY <1>1 DEF IInv, Types
<1>3. Older(cache)' BY DEF IInv, Types, Older
<1>4. Older(list)' BY <1>1, <1>2 DEF Types, Older
<1> QED BY <1>1, <1>2, <1>3, <1>4 DEF IInv, Known, Unlisted, Work, Safe

\* The list that a loop starts from.
LEMMA GotList ==
  ASSUME IInv, GetList, UNCHANGED mpm
  PROVE  list' \in Seq(Object) /\ Older(list)' /\ Older(cache)' /\ cache' \in Seq(Object)
BY DEF IInv, Types, Older, GetList

\* And at the end of one.
LEMMA ReturnedKept == ASSUME IInv, UNCHANGED <<inst, cache>>, Return, Kept PROVE IInv'
<1>1. /\ mpm' \in Seq(Object) /\ Len(mpm') >= Len(mpm)
      /\ \A k \in 1..Len(mpm) : mpm'[k].ocid = mpm[k].ocid
  BY DEF Kept, IInv, Types
<1>2. \A k \in 1..Len(mpm') : inst[mpm'[k].ocid] # "none"
  BY DEF Kept, IInv, Known
<1>3. \A k \in 1..Len(mpm') : mpm'[k].machine \in {"deleting", "gone"} =>
        inst[mpm'[k].ocid] = "terminated"
  BY DEF Kept
<1> QED BY <1>1, <1>2, <1>3, Returned

\* The invariant holds at the start.
LEMMA InitIInv == Init => IInv
BY DEF Init, IInv, Types, Older, Known, Unlisted, Work, Safe, InstState

\* Every step preserves the invariant.
LEMMA NextIInv == IInv /\ [Next]_vars => IInv'
<1> SUFFICES ASSUME IInv, [Next]_vars PROVE IInv' OBVIOUS
<1>t. Types BY DEF IInv
<1>1. CASE ListInstances
  <2>1. Types' /\ list' = <<>> /\ Len(list') = 0
    BY <1>1, <1>t DEF ListInstances, Types
  <2>2. Older(list)' /\ Older(cache)'
    BY <1>1, <2>1 DEF ListInstances, IInv, Types, Older
  <2>3. Known' /\ Safe' BY <1>1 DEF ListInstances, IInv, Known, Safe
  <2>4. Unlisted'
    <3> SUFFICES ASSUME NEW k \in 1..Len(mpm), mpm[k].ocid \notin specs'
                 PROVE  inst[mpm[k].ocid] = "terminated"
      BY <1>1 DEF ListInstances, Unlisted
    <3>1. mpm[k] \in Object BY <1>t DEF Types
    <3>2. mpm[k].ocid \in Inst BY <3>1 DEF Object
    <3>3. inst[mpm[k].ocid] # "none" BY DEF IInv, Known
    <3> QED BY <1>1, <3>2, <3>3 DEF ListInstances
  <2>5. Work' BY <1>1 DEF ListInstances, Work
  <2> QED BY <2>1, <2>2, <2>3, <2>4, <2>5 DEF IInv
<1>2. CASE ListForCreate
  <2>1. list' \in Seq(Object) /\ Older(list)' /\ Older(cache)' /\ cache' \in Seq(Object)
    BY <1>2, GotList DEF ListForCreate
  <2> QED BY <1>2, <2>1 DEF ListForCreate, IInv, Types, Known, Unlisted, Work, Safe
<1>3. CASE ListForDelete
  <2>1. list' \in Seq(Object) /\ Older(list)' /\ Older(cache)' /\ cache' \in Seq(Object)
    BY <1>3, GotList DEF ListForDelete
  <2>2. Work' BY <1>3, <2>1 DEF ListForDelete, Work, Orphans, Objects
  <2> QED BY <1>3, <2>1, <2>2 DEF ListForDelete, IInv, Types, Known, Unlisted, Safe
<1>4. CASE CreateIfNotExists
  <2>1. PICK i \in todo :
       /\ \/ mpm' = Append(mpm, New(i))
          \/ UNCHANGED mpm
          \/ \E k : mpm[k].here /\ mpm' = [mpm EXCEPT ![k].ready = TRUE]
       /\ GoOn(todo \ {i}) \/ Return
    BY <1>4 DEF CreateIfNotExists
  <2>2. i \in specs /\ i \in Inst /\ inst[i] # "none" /\ pc = "create" /\ UNCHANGED <<inst, cache>>
    BY <1>4 DEF CreateIfNotExists, IInv, Types, Work, Known
  <2>3. CASE mpm' = Append(mpm, New(i))
    <3>1. New(i) \in Object /\ New(i).ocid = i /\ New(i).machine = "none"
      BY <2>2 DEF New, Object, Machine
    <3>2. /\ mpm' \in Seq(Object) /\ Len(mpm') = Len(mpm) + 1
          /\ \A k \in 1..Len(mpm) : mpm'[k] = mpm[k]
          /\ mpm'[Len(mpm) + 1] = New(i)
      BY <2>3, <3>1, <1>t DEF Types
    <3>3. /\ \A k \in 1..Len(mpm') : inst[mpm'[k].ocid] # "none"
          /\ \A k \in 1..Len(mpm') : mpm'[k].machine \in {"deleting", "gone"} =>
               inst[mpm'[k].ocid] = "terminated"
      <4>1. \A k \in 1..Len(mpm') : k \in 1..Len(mpm) \/ k = Len(mpm) + 1
        BY <3>2, <1>t DEF Types
      <4> QED BY <4>1, <3>1, <3>2, <2>2 DEF IInv, Known, Safe
    <3>4. CASE Return
      BY <3>2, <3>3, <3>4, <2>2, <1>t, Returned DEF Types
    <3>5. CASE GoOn(todo \ {i})
      <4>1. Types' BY <3>2, <3>5, <2>2, <1>t DEF Types, GoOn
      <4>2. Older(cache)' /\ Older(list)'
        <5>1. cache' = cache /\ list' = list BY <3>5, <2>2 DEF GoOn
        <5>2. \A l \in {cache, list} : Len(l) \in Nat /\ Len(l) <= Len(mpm) + 1
                                      /\ \A k \in 1..Len(l) : k \in 1..Len(mpm)
          BY <1>t DEF IInv, Types, Older
        <5> QED BY <5>1, <5>2, <3>2 DEF IInv, Older
      <4>3. Known' /\ Safe' BY <3>3, <3>5, <2>2 DEF IInv, Known, Safe, GoOn
      <4>4. Unlisted'
        BY <3>1, <3>2, <3>5, <2>2, <1>t DEF IInv, Types, Unlisted, GoOn
      <4>5. Work' BY <3>5, <2>2 DEF IInv, Work, GoOn
      <4> QED BY <4>1, <4>2, <4>3, <4>4, <4>5 DEF IInv
    <3> QED BY <2>1, <3>4, <3>5
  <2>4. CASE \/ UNCHANGED mpm
             \/ \E k : mpm[k].here /\ mpm' = [mpm EXCEPT ![k].ready = TRUE]
    <3>1. Kept
      <4>1. CASE UNCHANGED mpm BY <4>1, KeptSame
      <4>2. ASSUME NEW k, mpm' = [mpm EXCEPT ![k].ready = TRUE] PROVE Kept
        <5>1. CASE k \in 1..Len(mpm)
          <6> DEFINE x == [mpm[k] EXCEPT !.ready = TRUE]
          <6>1. mpm[k] \in Object BY <5>1, <1>t DEF Types
          <6>2. x \in Object /\ x.ocid = mpm[k].ocid /\ x.machine = mpm[k].machine
            BY <6>1 DEF Object
          <6>3. mpm' = [mpm EXCEPT ![k] = x] BY <4>2
          <6> HIDE DEF x
          <6> QED BY <5>1, <6>2, <6>3, KeptOne DEF IInv, Safe
        <5>2. CASE k \notin 1..Len(mpm)
          <6>1. mpm' = mpm BY <4>2, <5>2, <1>t DEF Types
          <6> QED BY <6>1, KeptSame
        <5> QED BY <5>1, <5>2
      <4> QED BY <2>4, <4>1, <4>2
    <3>2. CASE Return BY <3>1, <3>2, <2>2, ReturnedKept
    <3>3. CASE GoOn(todo \ {i}) BY <3>1, <3>3, <2>2, SameObjects DEF GoOn
    <3> QED BY <2>1, <3>2, <3>3
  <2> QED BY <2>1, <2>3, <2>4
<1>5. CASE DeleteOrphaned
  <2>1. PICK k \in todo :
       \/ list[k].machine = "none" /\ Return /\ UNCHANGED <<mpm, budget>>
       \/ /\ mpm' = [mpm EXCEPT ![k].machine = IF @ = "live" THEN "deleting" ELSE @]
          /\ GoOn(todo \ {k}) \/ Return
    BY <1>5 DEF DeleteOrphaned
  <2>2. /\ k \in 1..Len(mpm) /\ inst[mpm[k].ocid] = "terminated"
        /\ UNCHANGED <<inst, cache>>
    BY <1>5, <1>t DEF DeleteOrphaned, IInv, Types, Older, Work, Unlisted
  <2>3. Kept
    <3> DEFINE x == [mpm[k] EXCEPT !.machine = IF @ = "live" THEN "deleting" ELSE @]
    <3>1. mpm[k] \in Object BY <2>2, <1>t DEF Types
    <3>2. x \in Object /\ x.ocid = mpm[k].ocid BY <3>1 DEF Object, Machine
    <3>3. UNCHANGED mpm \/ mpm' = [mpm EXCEPT ![k] = x] BY <2>1
    <3> HIDE DEF x
    <3> QED BY <2>2, <3>2, <3>3, KeptOne, KeptSame
  <2>4. CASE Return BY <2>2, <2>3, <2>4, ReturnedKept
  <2>5. CASE GoOn(todo \ {k})
    BY <1>5, <2>2, <2>3, <2>5, SameObjects DEF GoOn
  <2> QED BY <2>1, <2>4, <2>5
<1>6. CASE Finish \/ Interrupted
  BY <1>6, <1>t, Returned DEF Finish, Interrupted, IInv, Types, Known, Safe
<1>7. CASE MachineReconcile \/ ClusterApi
  <2>1. PICK k \in 1..Len(mpm) :
          ReconcileMachinePoolMachine(k) \/ MakeMachine(k) \/ DeleteMachine(k)
    BY <1>7, <1>t DEF MachineReconcile, ClusterApi, Types
  <2>2. Kept
    <3>0. mpm[k] \in Object BY <1>t DEF Types
    <3>s. mpm[k].machine \in {"deleting", "gone"} => inst[mpm[k].ocid] = "terminated"
      BY DEF IInv, Safe
    <3>1. PICK x \in Object :
            /\ mpm' = [mpm EXCEPT ![k] = x] /\ x.ocid = mpm[k].ocid
            /\ \/ x.machine = mpm[k].machine \/ x.machine = "live"
               \/ mpm[k].machine = "deleting"
      <4>1. CASE ReconcileMachinePoolMachine(k)
        <5> USE <3>0 DEF Object, Machine
        <5> WITNESS [mpm[k] EXCEPT !.here = FALSE] \in Object
        <5> QED BY <4>1 DEF ReconcileMachinePoolMachine
      <4>2. CASE MakeMachine(k)
        <5> USE <3>0 DEF Object, Machine
        <5> WITNESS [mpm[k] EXCEPT !.machine = "live"] \in Object
        <5> QED BY <4>2 DEF MakeMachine
      <4>3. CASE DeleteMachine(k) /\ mpm' = [mpm EXCEPT ![k].del = TRUE]
        <5> USE <3>0 DEF Object, Machine
        <5> WITNESS [mpm[k] EXCEPT !.del = TRUE] \in Object
        <5> QED BY <4>3 DEF DeleteMachine
      <4>4. CASE DeleteMachine(k) /\ mpm' = [mpm EXCEPT ![k].machine = "gone"]
        <5> USE <3>0 DEF Object, Machine
        <5> WITNESS [mpm[k] EXCEPT !.machine = "gone"] \in Object
        <5> QED BY <4>4 DEF DeleteMachine
      <4> QED BY <2>1, <4>1, <4>2, <4>3, <4>4 DEF DeleteMachine
    <3> QED BY <3>1, <3>s, KeptOne
  <2>3. UNCHANGED <<inst, cache, specs, list, pc, todo>>
    BY <2>1 DEF ReconcileMachinePoolMachine, MakeMachine, DeleteMachine, ctl
  <2> QED BY <2>2, <2>3, SameObjects
<1>8. CASE InstanceMoves
  <2>1. /\ UNCHANGED <<mpm, cache, ctl>> /\ inst' \in [Inst -> InstState]
        /\ \A i \in Inst : /\ inst[i] # "none" => inst'[i] # "none"
                           /\ inst[i] = "terminated" => inst'[i] = "terminated"
    BY <1>8, <1>t DEF InstanceMoves, Types, InstState
  <2>2. UNCHANGED <<mpm, cache, pc, specs, list, todo>> BY <2>1 DEF ctl
  <2>3. \A k \in 1..Len(mpm) : mpm[k].ocid \in Inst
    <3>1. \A k \in 1..Len(mpm) : mpm[k] \in Object BY <1>t DEF Types
    <3> QED BY <3>1 DEF Object
  <2>4. Types' BY <2>1, <2>2, <1>t DEF Types
  <2>5. Older(cache)' /\ Older(list)' /\ Work' BY <2>2 DEF IInv, Older, Work
  <2>6. Known' BY <2>1, <2>2, <2>3, <1>t DEF IInv, Types, Known
  <2>7. Unlisted' BY <2>1, <2>2, <2>3 DEF IInv, Unlisted
  <2>8. Safe' BY <2>1, <2>2, <2>3 DEF IInv, Safe
  <2> QED BY <2>4, <2>5, <2>6, <2>7, <2>8 DEF IInv
<1>9. CASE UNCHANGED vars
  BY <1>9 DEF vars, ctl, IInv, Types, Older, Known, Unlisted, Work, Safe
<1> QED BY <1>1, <1>2, <1>3, <1>4, <1>5, <1>6, <1>7, <1>8, <1>9 DEF Next, Step

\* DeleteOrphanedMachinePoolMachines deletes the Machine of an instance only
\* when the instance is terminated, however instances come and go between the
\* list of instances and the deletion, and however stale the list of objects.
THEOREM OrphansOnly == Spec => []OnlyOrphansDeleted
<1>1. IInv => OnlyOrphansDeleted BY DEF IInv, Types, Safe, OnlyOrphansDeleted
<1> QED BY InitIInv, NextIInv, <1>1, PTL DEF Spec
=============================================================================
