------------------------ MODULE MachinePoolMachines ------------------------
(***************************************************************************)
(* reconcileMachines: the OCIMachinePoolMachine objects that mirror the    *)
(* instances of a pool (cloud/util/util.go), which the controllers of all  *)
(* three kinds of pool share, the controller of those objects, and the     *)
(* Machines that Cluster API puts on top of them.  The objects have        *)
(* generated names, and are listed from an informer cache.                 *)
(***************************************************************************)
EXTENDS Naturals, Sequences, FiniteSets

CONSTANTS
  Inst,   \* instances the pool may ever have
  Budget  \* bound on failures, lost replies, crashes and stale lists

ASSUME BudgetAssumption == Budget \in Nat

VARIABLES
  inst,    \* the state of each instance of the pool
  mpm,     \* the OCIMachinePoolMachines, in order of creation
  cache,   \* an older list of them, which the informer may still return
  pc, list, todo,  \* the reconcile in progress
  specs,   \* the instances it found
  ids,     \* those of them that run, which go into Spec.ProviderIDList
  missed,  \* history: the stale lists
  budget

ctl  == <<pc, specs, ids, list, todo>>
vars == <<inst, mpm, cache, ctl, missed, budget>>

InstState == {"none", "starting", "running", "stopped", "terminated"}

\* An object's Machine: not made yet, there, being deleted, or gone.
Machine == {"none", "live", "deleting", "gone"}

New(i) == [ocid |-> i, ready |-> FALSE, machine |-> "none", del |-> FALSE, here |-> TRUE]

Init ==
  /\ inst = [i \in Inst |-> "none"] /\ mpm = <<>> /\ cache = <<>>
  /\ pc = "idle" /\ specs = {} /\ ids = {} /\ list = <<>> /\ todo = {}
  /\ missed = 0 /\ budget = Budget

Spend == budget > 0 /\ budget' = budget - 1
Return == pc' = "idle" /\ specs' = {} /\ ids' = {} /\ list' = <<>> /\ todo' = {}
GoOn(rest) == todo' = rest /\ UNCHANGED <<pc, specs, ids, list>>

-----------------------------------------------------------------------------
(* The running branch of reconcileNormal                                   *)

\* SetListandSetMachinePoolInstances leaves the terminated instances out.
ListInstances ==
  /\ pc = "idle" /\ pc' = "listC"
  /\ specs' = {i \in Inst : inst[i] \notin {"none", "terminated"}}
  /\ ids' = {i \in Inst : inst[i] = "running"}
  /\ todo' = {} /\ list' = <<>>
  /\ UNCHANGED <<inst, mpm, cache, missed, budget>>

\* getMachinepoolMachines: the list is current, or it is an older one.
GetList ==
  /\ \/ list' = mpm /\ UNCHANGED <<missed, budget>>
     \/ cache # mpm /\ list' = cache /\ missed' = missed + 1 /\ Spend
  /\ cache' = mpm

Objects(l) == {k \in DOMAIN l : l[k].here}

ListForCreate ==
  /\ pc = "listC" /\ GetList /\ pc' = "create" /\ todo' = specs
  /\ UNCHANGED <<inst, mpm, specs, ids>>

\* The objects of an instance.  The map by OCID keeps the one that comes last
\* in a list whose order is not specified: any of them.
\* Mutant: an object that is not ready is not one.
ActualReady(i) == {k \in Objects(list) : list[k].ocid = i /\ list[k].ready}
Actual(i) == {k \in Objects(list) : list[k].ocid = i}

\* Mutant: a status that was lost is not made up for.
NeedsReadyNever(i, k) == FALSE
NeedsReady(i, k) == ~list[k].ready /\ i \in ids

\* One machine of the list: its status is patched when it is not as ready as
\* its instance, or it is created; the status does not survive the creation.
\* The patch always sets Ready: of an object that is ready it is empty.
CreateIfNotExists ==
  /\ pc = "create"
  /\ \E i \in todo :
       \/ /\ \/ Actual(i) = {} /\ mpm' = Append(mpm, New(i))
             \/ \E k \in Actual(i) : ~NeedsReady(i, k) /\ UNCHANGED mpm
             \/ \E k \in Actual(i) :
                  /\ NeedsReady(i, k) /\ mpm[k].here
                  /\ mpm' = [mpm EXCEPT ![k].ready = TRUE]
          /\ \/ GoOn(todo \ {i}) /\ UNCHANGED budget
             \/ Spend /\ Return
       \/ /\ \E k \in Actual(i) : NeedsReady(i, k) /\ ~mpm[k].here
          /\ Return /\ UNCHANGED <<mpm, budget>>
  /\ UNCHANGED <<inst, cache, missed>>

\* Mutant: instances that are not running count as gone.
OrphansOfRunning == {k \in Objects(list') : list'[k].ocid \notin ids}
Orphans == {k \in Objects(list') : list'[k].ocid \notin specs}

ListForDelete ==
  /\ pc = "create" /\ todo = {}
  /\ GetList /\ pc' = "orphans"
  /\ todo' = Orphans
  /\ UNCHANGED <<inst, mpm, specs, ids>>

\* The owner Machine of an orphan is deleted.  One that has none yet ends the
\* reconcile with an error; one whose Machine is gone is skipped.
DeleteOrphaned ==
  /\ pc = "orphans"
  /\ \E k \in todo :
       \/ /\ list[k].machine = "none" /\ Return /\ UNCHANGED <<mpm, budget>>
       \/ /\ list[k].machine # "none"
          /\ mpm' = [mpm EXCEPT ![k].machine = IF @ = "live" THEN "deleting" ELSE @]
          /\ \/ GoOn(todo \ {k}) /\ UNCHANGED budget
             \/ Spend /\ Return
  /\ UNCHANGED <<inst, cache, missed>>

Finish ==
  /\ pc = "orphans" /\ todo = {} /\ Return
  /\ UNCHANGED <<inst, mpm, cache, missed, budget>>

\* A call fails before it takes effect, or the controller stops.
Interrupted ==
  /\ pc # "idle" /\ Spend /\ Return
  /\ UNCHANGED <<inst, mpm, cache, missed>>

-----------------------------------------------------------------------------
(* OCIMachinePoolMachineReconciler: only the finalizer is removed.         *)

ReconcileMachinePoolMachine(k) ==
  /\ mpm[k].here /\ mpm[k].del
  /\ mpm' = [mpm EXCEPT ![k].here = FALSE]
  /\ UNCHANGED <<inst, cache, ctl, missed, budget>>

-----------------------------------------------------------------------------
(* Cluster API: a Machine for every object; a deleted Machine takes its    *)
(* object along and goes when that is gone.                                *)

MakeMachine(k) ==
  /\ mpm[k].here /\ mpm[k].machine = "none"
  /\ mpm' = [mpm EXCEPT ![k].machine = "live"]
  /\ UNCHANGED <<inst, cache, ctl, missed, budget>>

DeleteMachine(k) ==
  /\ mpm[k].machine = "deleting"
  /\ \/ mpm[k].here /\ ~mpm[k].del /\ mpm' = [mpm EXCEPT ![k].del = TRUE]
     \/ ~mpm[k].here /\ mpm' = [mpm EXCEPT ![k].machine = "gone"]
  /\ UNCHANGED <<inst, cache, ctl, missed, budget>>

(* The instance pool service                                               *)

InstanceMoves ==
  /\ \E i \in Inst, s \in InstState :
       /\ <<inst[i], s>> \in {<<"none", "starting">>, <<"starting", "running">>,
            <<"starting", "terminated">>, <<"running", "stopped">>,
            <<"running", "terminated">>, <<"stopped", "terminated">>}
       /\ inst' = [inst EXCEPT ![i] = s]
  /\ UNCHANGED <<mpm, cache, ctl, missed, budget>>

Step == ListInstances \/ ListForCreate \/ CreateIfNotExists \/ ListForDelete
        \/ DeleteOrphaned \/ Finish

ClusterApi == \E k \in DOMAIN mpm : MakeMachine(k) \/ DeleteMachine(k)
MachineReconcile == \E k \in DOMAIN mpm : ReconcileMachinePoolMachine(k)

Next == Step \/ Interrupted \/ MachineReconcile \/ ClusterApi \/ InstanceMoves

Spec == Init /\ [][Next]_vars

(* A pool is reconciled every five minutes; the other controllers go on.   *)
FairSpec == Spec /\ WF_vars(Step) /\ WF_vars(MachineReconcile) /\ WF_vars(ClusterApi)

-----------------------------------------------------------------------------
Mirrors(i) == {k \in Objects(mpm) : mpm[k].ocid = i}

\* The objects have generated names, so nothing but the list keeps an instance
\* from having two: lost replies and crashes never do it, a stale list does,
\* and each one at most once.
OneMirror == \A i \in Inst : Cardinality(Mirrors(i)) <= 1 + missed

\* The Machine of an instance that the pool still has is never deleted, so no
\* node is drained that nobody removed.
OnlyOrphansDeleted ==
  \A k \in DOMAIN mpm : mpm[k].machine \in {"deleting", "gone"} =>
    inst[mpm[k].ocid] = "terminated"

\* Once the pool is at rest, every instance has an object, the objects of the
\* instances that are gone are gone too, and a running one has an object that
\* is ready.  Of duplicates only one is looked at, so the others may stay as
\* they were created.
Mirrored ==
  <>[](/\ \A i \in Inst : inst[i] \notin {"none", "terminated"} => Mirrors(i) # {}
       /\ \A i \in Inst : inst[i] = "terminated" => Mirrors(i) = {}
       /\ \A i \in Inst : inst[i] = "running" => \E k \in Mirrors(i) : mpm[k].ready)
=============================================================================
