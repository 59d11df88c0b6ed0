----------------------------- MODULE OCIMachine -----------------------------
(***************************************************************************)
(* One OCIMachine object, the controller that reconciles it                *)
(* (controllers/ocimachine_controller.go, cloud/scope/machine.go,          *)
(* cloud/scope/block_volume_reconciler.go) and the cloud it drives: the    *)
(* compute instances that carry the machine's name, the block volume, its  *)
(* attachments, the API server (network) load balancer's backends and the  *)
(* load balancer's work requests.                                          *)
(*                                                                         *)
(* A step of the controller is one API call and the local code that        *)
(* follows it, so that everything else (the cloud, the user, the machine   *)
(* controller of Cluster API, a crash) may happen between two calls.  The  *)
(* object is read from an informer cache that lags behind the API server   *)
(* and is written back by the deferred Close, as two patches.              *)
(***************************************************************************)
EXTENDS Naturals, FiniteSets

CONSTANTS
  Instance,       \* instance OCIDs the cloud may hand out
  None,           \* nil
  ControlPlane,   \* the Machine carries the control plane label
  ClassicLB,      \* APIServerLB is an LBaaS (backends named by ip:port),
                  \* not an NLB (backends named after the machine)
  BlockVolume,    \* BlockVolumeSpec is not empty
  LaunchVolumes,  \* the launch details carry volume attachments of their own
  Vnics,          \* Spec.VnicAttachments is not empty
  AutoDelete,     \* delete-machine-on-instance-termination annotation
  CloudEvents,    \* what may happen to an instance behind our back
  FinalizerFirst, \* bootstrap data appears only after the finalizer is stored
  Budget          \* bound on failures, crashes and other disturbances

ASSUME NoneAssumption == None \notin Instance

ASSUME FlagAssumption ==
  /\ ControlPlane \in BOOLEAN /\ ClassicLB \in BOOLEAN
  /\ BlockVolume \in BOOLEAN /\ LaunchVolumes \in BOOLEAN
  /\ Vnics \in BOOLEAN /\ AutoDelete \in BOOLEAN
  /\ FinalizerFirst \in BOOLEAN
  /\ CloudEvents \subseteq {"terminate", "provfail", "stop", "image", "age"}
  /\ Budget \in Nat

VARIABLES
  obj,     \* the OCIMachine in the API server
  cache,   \* the informer's copy, also the "before" of the patch helper
  queued,  \* the workqueue holds the object's key
  gate,    \* owner ref set, clusters found, not paused
  boot,    \* Machine.Spec.Bootstrap.DataSecretName is set
  mdel,    \* the owner Machine is being deleted
  pc,      \* the controller's next call
  mem,     \* the reconcile's copy of the object, and its result
  seen,    \* the instance as the cloud returned it in this reconcile
  inst,    \* the cloud's instances
  vol,     \* the block volume that carries the machine's name
  att,     \* the block volume's attachment to each instance
  lb,      \* backends: the instances whose IP is in the backend set
  wr,      \* the load balancer's work request in progress
  token,   \* what OCI remembers of the CreateBackend call's retry token
  hist,    \* for the properties only: what the last reconciles saw
  budget

api   == <<obj, cache, gate, boot, mdel>>
kube  == <<api, hist>>
cloud == <<inst, vol, att, lb, wr, token>>
vars  == <<kube, queued, pc, mem, seen, cloud, budget>>

MaybeInstance == Instance \cup {None}
InstanceState == {"absent", "pending", "running", "stopped", "imaging",
                  "terminating", "terminated", "gone"}
AttachmentState == {"none", "attaching", "attached", "detaching", "detached"}

NormalPc == {"n_get", "n_launch", "n_vol", "n_att", "n_state", "n_ip", "n_lb",
             "n_add", "n_wr", "n_vnic", "n_ready", "n_delm"}
DeletePc == {"d_get", "d_lb", "d_del", "d_wr", "d_vol", "d_fin", "d_detach",
             "d_term"}
Pc == {"idle", "patch", "status"} \cup NormalPc \cup DeletePc

Listed(i) == inst[i] \notin {"absent", "gone"}
Live(i)   == inst[i] \notin {"absent", "terminated", "gone"}

NoObject == [exists |-> TRUE, deleting |-> FALSE, fin |-> FALSE, id |-> None,
             addr |-> None, ready |-> FALSE, failed |-> FALSE]
NoMem  == [fin |-> FALSE, id |-> None, addr |-> None, ready |-> FALSE,
           failed |-> FALSE, requeue |-> FALSE, notfound |-> FALSE]
NoSeen == [id |-> None, state |-> "absent"]
NoWR   == [op |-> "none", ip |-> None]
NoHist == [missed |-> FALSE, parked |-> FALSE]

Init ==
  /\ obj = NoObject /\ cache = NoObject
  /\ queued = TRUE /\ gate = FALSE /\ boot = FALSE /\ mdel = FALSE
  /\ pc = "idle" /\ mem = NoMem /\ seen = NoSeen
  /\ inst = [i \in Instance |-> "absent"]
  /\ vol = "none" /\ att = [i \in Instance |-> "none"]
  /\ lb = {} /\ wr = NoWR /\ token = "new" /\ hist = NoHist /\ budget = Budget

-----------------------------------------------------------------------------
(* How a call ends.  An error anywhere returns from the reconcile function *)
(* to the deferred Close, and the key is requeued with backoff.            *)

Spend == budget > 0 /\ budget' = budget - 1
Goto(l) == pc' = l /\ UNCHANGED mem
Return(m) == pc' = "patch" /\ mem' = m
Fail == Return([mem EXCEPT !.requeue = TRUE])

\* The call took effect; the reply arrives, or is lost.
Reply(ok) == \/ ok /\ UNCHANGED budget
             \/ Spend /\ Fail

\* The call failed before it took effect, or a poll of a work request did
\* or timed out.
ApiError ==
  /\ pc \in (NormalPc \cup DeletePc) \ {"n_state", "n_ready", "d_fin"}
  /\ Spend /\ Fail
  /\ UNCHANGED <<kube, queued, seen, cloud>>

-----------------------------------------------------------------------------
(* Reconcile                                                               *)

ReconcileSkip ==
  /\ pc = "idle" /\ queued
  /\ ~cache.exists \/ ~gate
  /\ queued' = FALSE
  /\ UNCHANGED <<kube, pc, mem, seen, cloud, budget>>

\* reconcileNormal registers the finalizer in memory only; Close stores it.
ReconcileStart ==
  /\ pc = "idle" /\ queued
  /\ cache.exists /\ gate
  /\ queued' = FALSE
  /\ mem' = [NoMem EXCEPT !.fin = cache.fin \/ ~cache.deleting,
                          !.id = cache.id, !.addr = cache.addr,
                          !.ready = cache.ready, !.failed = cache.failed]
  /\ pc' = IF cache.deleting THEN "d_get" ELSE IF boot THEN "n_get" ELSE "patch"
  /\ UNCHANGED <<kube, seen, cloud, budget>>

-----------------------------------------------------------------------------
(* GetMachine: by OCID when one is recorded, else by display name.         *)

NotFound == mem.id # None /\ inst[mem.id] = "gone"
Found(i) == IF mem.id # None THEN i = mem.id /\ ~NotFound ELSE Listed(i)
\* Mutants: no lookup by name; an instance that is gone is launched again.
NoneFoundById == mem.id = None
NoneFoundOrGone == NotFound \/ (mem.id = None /\ \A i \in Instance : ~Listed(i))
NoneFound == mem.id = None /\ \A i \in Instance : ~Listed(i)
Saw(i) == seen' = [id |-> i, state |-> inst[i]]

(* reconcileNormal and GetOrCreateMachine                                  *)

AfterInstance == IF BlockVolume THEN "n_vol" ELSE "n_state"

GetForCreate ==
  /\ pc = "n_get"
  /\ \/ \E i \in Instance : Found(i) /\ Saw(i) /\ Goto(AfterInstance)
     \/ NoneFound /\ Goto("n_launch") /\ UNCHANGED seen
     \/ NotFound /\ Fail /\ UNCHANGED seen
  /\ UNCHANGED <<kube, queued, cloud, budget>>

Launch ==
  /\ pc = "n_launch"
  /\ \E i \in Instance :
       /\ inst[i] = "absent"
       /\ inst' = [inst EXCEPT ![i] = "pending"]
       /\ seen' = [id |-> i, state |-> "pending"]
  /\ Reply(Goto(AfterInstance))
  /\ UNCHANGED <<kube, queued, vol, att, lb, wr, token>>

\* Every fault domain is out of host capacity, now or for good.
LaunchNoCapacity ==
  /\ pc = "n_launch"
  /\ Spend \/ (UNCHANGED budget /\ \A i \in Instance : inst[i] # "absent")
  /\ Fail
  /\ UNCHANGED <<kube, queued, seen, cloud>>

ReconcileBlockVolume ==
  /\ pc = "n_vol"
  /\ \/ vol # "none" /\ Goto("n_att") /\ UNCHANGED <<vol, budget>>
     \/ vol = "none" /\ vol' = "provisioning" /\ Reply(Goto("n_att"))
  /\ UNCHANGED <<kube, queued, seen, inst, att, lb, wr, token>>

InUse(i) == att[i] \in {"attaching", "attached", "detaching"}

\* AttachVolume wants an available, unused volume and an instance that is up
\* or stopped.
CanAttach ==
  /\ vol = "available" /\ \A i \in Instance : ~InUse(i)
  /\ inst[seen.id] \in {"running", "stopped", "imaging"}

EnsureAttached ==
  /\ pc = "n_att"
  /\ \/ /\ vol # "none" /\ att[seen.id] \in {"attaching", "attached"}
        /\ Goto("n_state") /\ UNCHANGED <<att, budget>>
     \/ /\ att[seen.id] \notin {"attaching", "attached"} /\ CanAttach
        /\ att' = [att EXCEPT ![seen.id] = "attaching"]
        /\ Reply(Goto("n_state"))
     \/ /\ vol = "none" \/ (att[seen.id] \notin {"attaching", "attached"} /\ ~CanAttach)
        /\ Fail /\ UNCHANGED <<att, budget>>
  /\ UNCHANGED <<kube, queued, seen, inst, vol, lb, wr, token>>

-----------------------------------------------------------------------------
(* reconcileNormal: the switch on the lifecycle state that GetMachine saw  *)

\* Mutant: the wrong field of the instance is recorded.
WithIdWrongField == [mem EXCEPT !.id = seen.state]
WithId == [mem EXCEPT !.id = seen.id]
Failed(m) == [m EXCEPT !.ready = FALSE, !.failed = TRUE, !.requeue = TRUE]
Polled(again) == hist' = [hist EXCEPT !.parked = ~again]
AfterLB == IF Vnics THEN "n_vnic" ELSE "n_ready"
AfterIp == IF ControlPlane THEN "n_lb" ELSE AfterLB

\* PROVISIONING, STARTING: requeued after 10 seconds.
StatePending ==
  /\ pc = "n_state" /\ seen.state = "pending"
  /\ Return([WithId EXCEPT !.requeue = TRUE])
  /\ Polled(TRUE)
  /\ UNCHANGED <<api, queued, seen, cloud, budget>>

\* STOPPING, STOPPED, MOVING: not ready, and not requeued.
StateStopped ==
  /\ pc = "n_state" /\ seen.state = "stopped"
  /\ Return([WithId EXCEPT !.ready = FALSE])
  /\ Polled(FALSE)
  /\ UNCHANGED <<api, queued, seen, cloud, budget>>

StateRunning ==
  /\ pc = "n_state" /\ seen.state = "running"
  /\ mem' = WithId
  /\ pc' = IF mem.addr = None THEN "n_ip" ELSE AfterIp
  /\ Polled(TRUE)
  /\ UNCHANGED <<api, queued, seen, cloud, budget>>

DeletesMachine == seen.state = "terminated" /\ AutoDelete /\ ~mdel

StateTerminated ==
  /\ pc = "n_state" /\ DeletesMachine
  /\ mem' = WithId /\ pc' = "n_delm"
  /\ Polled(TRUE)
  /\ UNCHANGED <<api, queued, seen, cloud, budget>>

\* Every other state, CREATING_IMAGE and TERMINATING included.
StateUnexpected ==
  /\ pc = "n_state"
  /\ seen.state \in {"imaging", "terminating", "terminated"} /\ ~DeletesMachine
  /\ Return(Failed(WithId))
  /\ Polled(TRUE)
  /\ UNCHANGED <<api, queued, seen, cloud, budget>>

DeleteOwnerMachine ==
  /\ pc = "n_delm"
  /\ mdel' = TRUE
  /\ Return(Failed(mem))
  /\ UNCHANGED <<obj, cache, gate, boot, hist, queued, seen, cloud, budget>>

\* The primary VNIC is attached from RUNNING on, until termination.
GetInstanceIp ==
  /\ pc = "n_ip"
  /\ \/ /\ inst[mem.id] \in {"running", "stopped", "imaging", "terminating"}
        /\ mem' = [mem EXCEPT !.addr = mem.id] /\ pc' = AfterIp
     \/ inst[mem.id] \in {"terminating", "terminated", "gone"} /\ Fail
  /\ UNCHANGED <<kube, queued, seen, cloud, budget>>

-----------------------------------------------------------------------------
(* ReconcileCreateInstanceOnLB                                             *)

Contains == IF ClassicLB THEN mem.addr \in lb ELSE lb # {}

\* Mutant: the backend is added without a look at the backend set.
GetLBForCreateUnchecked ==
  /\ pc = "n_lb"
  /\ Goto("n_add")
  /\ UNCHANGED <<kube, queued, seen, cloud, budget>>

GetLBForCreate ==
  /\ pc = "n_lb"
  /\ Goto(IF Contains THEN AfterLB ELSE "n_add")
  /\ UNCHANGED <<kube, queued, seen, cloud, budget>>

\* The load balancer takes one mutating request at a time.  The retry token
\* is the same in every reconcile: OCI answers a call that repeats one with
\* the work request of the first, however that ended, or refuses it while one
\* is in progress.
CreateBackend ==
  /\ pc = "n_add"
  /\ \/ /\ token = "new" /\ wr = NoWR /\ ~Contains
        /\ wr' = [op |-> "add", ip |-> mem.addr] /\ token' = "used"
        /\ Reply(Goto("n_wr"))
     \/ /\ token # "new" /\ Goto("n_wr")
        /\ UNCHANGED <<wr, token, budget>>
     \/ /\ wr # NoWR \/ (token = "new" /\ Contains)
        /\ Fail /\ UNCHANGED <<wr, token, budget>>
  /\ UNCHANGED <<kube, queued, seen, inst, vol, att, lb>>

\* Mutant: the work request is not awaited.
AwaitCreateSkipped ==
  /\ pc = "n_wr"
  /\ Goto(AfterLB)
  /\ UNCHANGED <<kube, queued, seen, cloud, budget>>

AwaitCreate ==
  /\ pc = "n_wr" /\ wr = NoWR
  /\ IF token = "failed" THEN Fail ELSE Goto(AfterLB)
  /\ UNCHANGED <<kube, queued, seen, cloud, budget>>

\* The secondary VNICs themselves are the subject of VnicAttachments.tla.
ReconcileVnicAttachments ==
  /\ pc = "n_vnic"
  /\ IF ControlPlane THEN Fail ELSE Goto("n_ready")
  /\ UNCHANGED <<kube, queued, seen, cloud, budget>>

\* Mutant: a ready machine is not polled for termination.
SetReadyOnce ==
  /\ pc = "n_ready"
  /\ Return([mem EXCEPT !.ready = TRUE, !.requeue = FALSE])
  /\ UNCHANGED <<kube, queued, seen, cloud, budget>>

SetReady ==
  /\ pc = "n_ready"
  /\ Return([mem EXCEPT !.ready = TRUE, !.requeue = AutoDelete])
  /\ UNCHANGED <<kube, queued, seen, cloud, budget>>

-----------------------------------------------------------------------------
(* reconcileDelete                                                         *)

\* Mutants: the volume is left; the instance is not terminated.
AfterVolumeLeft == "d_fin"
AfterDrainLeft == IF BlockVolume THEN "d_vol" ELSE "d_fin"

AfterVolume == IF BlockVolume THEN "d_vol" ELSE "d_fin"
AfterDrain == IF mem.notfound THEN AfterVolume
              ELSE IF BlockVolume THEN "d_detach" ELSE "d_term"
Terminable == {"pending", "running", "stopped", "imaging"}

GetForDelete ==
  /\ pc = "d_get"
  /\ \/ /\ NotFound
        /\ mem' = [mem EXCEPT !.notfound = TRUE]
        /\ pc' = IF ControlPlane THEN "d_lb" ELSE AfterVolume
        /\ UNCHANGED seen
     \/ NoneFound /\ Goto("d_fin") /\ UNCHANGED seen
     \/ \E i \in Instance :
          /\ Found(i) /\ Saw(i)
          /\ \/ inst[i] = "terminating" /\ Fail
             \/ inst[i] = "terminated" /\ Goto(AfterVolume)
             \/ /\ inst[i] \in Terminable
                /\ Goto(IF ControlPlane THEN "d_lb" ELSE AfterDrain)
  /\ UNCHANGED <<kube, queued, cloud, budget>>

\* ReconcileDeleteInstanceOnLB.  A machine behind an LBaaS that has no
\* address is taken not to have been added.
GetLBForDelete ==
  /\ pc = "d_lb"
  /\ LET none == (ClassicLB /\ mem.addr = None) \/ ~Contains
     IN /\ Goto(IF none THEN AfterDrain ELSE "d_del")
        /\ hist' = [hist EXCEPT !.missed = none /\ (lb # {} \/ wr.op = "add")]
  /\ UNCHANGED <<api, queued, seen, cloud, budget>>

\* Mutant: an error of the call is taken for a backend that is gone.
DeleteBackendGoesOn ==
  /\ pc = "d_del"
  /\ \/ /\ wr = NoWR /\ Contains
        /\ wr' = [op |-> "del", ip |-> mem.addr]
        /\ Reply(Goto("d_wr"))
     \/ /\ wr # NoWR \/ ~Contains
        /\ Goto(AfterDrain) /\ UNCHANGED <<wr, budget>>
  /\ UNCHANGED <<kube, queued, seen, inst, vol, att, lb, token>>

DeleteBackend ==
  /\ pc = "d_del"
  /\ \/ /\ wr = NoWR /\ Contains
        /\ wr' = [op |-> "del", ip |-> mem.addr]
        /\ Reply(Goto("d_wr"))
     \/ /\ wr # NoWR \/ ~Contains
        /\ Fail /\ UNCHANGED <<wr, budget>>
  /\ UNCHANGED <<kube, queued, seen, inst, vol, att, lb, token>>

\* Mutant: the work request is not awaited.
AwaitDeleteSkipped ==
  /\ pc = "d_wr"
  /\ Goto(AfterDrain)
  /\ UNCHANGED <<kube, queued, seen, cloud, budget>>

AwaitDelete ==
  /\ pc = "d_wr" /\ wr = NoWR
  /\ IF Contains THEN Fail ELSE Goto(AfterDrain)
  /\ UNCHANGED <<kube, queued, seen, cloud, budget>>

\* DeleteMachine, first half.  GetBlockVolumeId is called for every listed
\* attachment and fails when the volume does not exist.
DetachVolume ==
  /\ pc = "d_detach"
  /\ LET listed == LaunchVolumes \/ att[seen.id] # "none"
         detach == att[seen.id] = "attached"
     IN \/ listed /\ vol = "none" /\ Fail /\ UNCHANGED <<att, budget>>
        \/ /\ vol # "none" /\ detach
           /\ att' = [att EXCEPT ![seen.id] = "detaching"]
           /\ Reply(Goto("d_term"))
        \/ /\ ~listed \/ (vol # "none" /\ ~detach)
           /\ Goto("d_term") /\ UNCHANGED <<att, budget>>
  /\ UNCHANGED <<kube, queued, seen, inst, vol, lb, wr, token>>

\* Mutant: not requeued.
TerminateInstanceForgets ==
  /\ pc = "d_term"
  /\ IF inst[seen.id] \in Terminable
     THEN inst' = [inst EXCEPT ![seen.id] = "terminating"]
     ELSE UNCHANGED inst
  /\ Return(mem)
  /\ UNCHANGED <<kube, queued, seen, vol, att, lb, wr, token, budget>>

\* DeleteMachine, second half.  Requeued after 30 seconds.
TerminateInstance ==
  /\ pc = "d_term"
  /\ IF inst[seen.id] \in Terminable
     THEN inst' = [inst EXCEPT ![seen.id] = "terminating"]
     ELSE UNCHANGED inst
  /\ Fail
  /\ UNCHANGED <<kube, queued, seen, vol, att, lb, wr, token, budget>>

\* A volume that is attached, not yet available or already terminated cannot
\* be deleted; the error is turned into a requeue after 5 seconds.
DeleteBlockVolume ==
  /\ pc = "d_vol"
  /\ LET deletable == vol = "available" /\ \A i \in Instance : ~InUse(i)
     IN \/ vol = "none" /\ Goto("d_fin") /\ UNCHANGED <<vol, budget>>
        \/ deletable /\ vol' = "terminated" /\ Reply(Goto("d_fin"))
        \/ vol # "none" /\ ~deletable /\ Fail /\ UNCHANGED <<vol, budget>>
  /\ UNCHANGED <<kube, queued, seen, inst, att, lb, wr, token>>

RemoveFinalizer ==
  /\ pc = "d_fin"
  /\ Return([mem EXCEPT !.fin = FALSE])
  /\ UNCHANGED <<kube, queued, seen, cloud, budget>>

-----------------------------------------------------------------------------
(* Close: the patch helper sends what differs from the copy it started     *)
(* from, first metadata and spec, then the status.  An error of the first  *)
(* does not stop the second.                                               *)

\* Mutant: an update of the whole object.
DiffAll(f) == mem[f]
Diff(f) == IF mem[f] # cache[f] THEN mem[f] ELSE obj[f]

PatchedSpec ==
  [obj EXCEPT !.fin = Diff("fin"), !.id = Diff("id"),
              !.exists = ~(obj.deleting /\ ~Diff("fin"))]

PatchSpec ==
  /\ pc = "patch"
  /\ pc' = "status"
  /\ \/ /\ obj.exists /\ obj' = PatchedSpec
        /\ UNCHANGED <<mem, budget>>
     \/ /\ obj.exists /\ obj' \in {obj, PatchedSpec} /\ Spend
        /\ mem' = [mem EXCEPT !.requeue = TRUE]
     \/ /\ ~obj.exists
        /\ mem' = [mem EXCEPT !.requeue = TRUE]
        /\ UNCHANGED <<obj, budget>>
  /\ UNCHANGED <<cache, gate, boot, mdel, hist, queued, seen, cloud>>

PatchedStatus ==
  [obj EXCEPT !.addr = Diff("addr"), !.ready = Diff("ready"),
              !.failed = Diff("failed")]

PatchStatus ==
  /\ pc = "status"
  /\ pc' = "idle" /\ mem' = NoMem /\ seen' = NoSeen
  /\ \/ /\ obj.exists /\ obj' = PatchedStatus
        /\ queued' = (queued \/ mem.requeue)
        /\ UNCHANGED budget
     \/ /\ obj.exists /\ obj' \in {obj, PatchedStatus} /\ Spend
        /\ queued' = TRUE
     \/ /\ ~obj.exists
        /\ queued' = (queued \/ mem.requeue)
        /\ UNCHANGED <<obj, budget>>
  /\ UNCHANGED <<cache, gate, boot, mdel, hist, cloud>>

-----------------------------------------------------------------------------
(* Kubernetes and Cluster API                                              *)

\* A watch event brings the cache up to date and enqueues the key.
CacheSync ==
  /\ pc = "idle" /\ cache # obj
  /\ cache' = obj /\ queued' = TRUE
  /\ UNCHANGED <<obj, gate, boot, mdel, hist, pc, mem, seen, cloud, budget>>

Resync ==
  /\ ~queued /\ queued' = TRUE
  /\ UNCHANGED <<kube, pc, mem, seen, cloud, budget>>

OpenGate ==
  /\ ~gate /\ gate' = TRUE /\ queued' = TRUE
  /\ UNCHANGED <<obj, cache, boot, mdel, hist, pc, mem, seen, cloud, budget>>

\* The cluster or the object is paused.
CloseGate ==
  /\ gate /\ gate' = FALSE /\ Spend
  /\ UNCHANGED <<obj, cache, boot, mdel, hist, queued, pc, mem, seen, cloud>>

BootstrapReady ==
  /\ ~boot /\ obj.exists /\ (FinalizerFirst => obj.fin)
  /\ boot' = TRUE /\ queued' = TRUE
  /\ UNCHANGED <<obj, cache, gate, mdel, hist, pc, mem, seen, cloud, budget>>

UserDeletesMachine ==
  /\ ~mdel /\ mdel' = TRUE /\ queued' = TRUE
  /\ UNCHANGED <<obj, cache, gate, boot, hist, pc, mem, seen, cloud, budget>>

\* The Machine controller deletes the infrastructure object; with a finalizer
\* it stays, marked, without one it is gone at once.
MachineControllerDeletes ==
  /\ mdel /\ obj.exists /\ ~obj.deleting
  /\ obj' = IF obj.fin THEN [obj EXCEPT !.deleting = TRUE]
            ELSE [obj EXCEPT !.exists = FALSE]
  /\ UNCHANGED <<cache, gate, boot, mdel, hist, queued, pc, mem, seen, cloud, budget>>

\* The manager restarts and lists its objects afresh.
Crash ==
  /\ pc # "idle" /\ Spend
  /\ pc' = "idle" /\ mem' = NoMem /\ seen' = NoSeen
  /\ cache' = obj /\ queued' = TRUE
  /\ UNCHANGED <<obj, gate, boot, mdel, hist, cloud>>

-----------------------------------------------------------------------------
(* The cloud                                                               *)

Becomes(i, s) == inst' = [inst EXCEPT ![i] = s]
OnlyInstances == UNCHANGED <<kube, queued, pc, mem, seen, vol, att, lb, wr, token>>

Provisioned(i) ==
  inst[i] = "pending" /\ Becomes(i, "running") /\ OnlyInstances /\ UNCHANGED budget

ProvisioningFails(i) ==
  /\ "provfail" \in CloudEvents /\ inst[i] = "pending"
  /\ Becomes(i, "terminated") /\ Spend /\ OnlyInstances

InstanceStopped(i) ==
  /\ "stop" \in CloudEvents /\ inst[i] = "running"
  /\ Becomes(i, "stopped") /\ Spend /\ OnlyInstances

InstanceStarted(i) ==
  inst[i] = "stopped" /\ Becomes(i, "pending") /\ OnlyInstances /\ UNCHANGED budget

ImageStarted(i) ==
  /\ "image" \in CloudEvents /\ inst[i] = "running"
  /\ Becomes(i, "imaging") /\ Spend /\ OnlyInstances

ImageDone(i) ==
  inst[i] = "imaging" /\ Becomes(i, "running") /\ OnlyInstances /\ UNCHANGED budget

TerminatedByOthers(i) ==
  /\ "terminate" \in CloudEvents /\ inst[i] \in Terminable
  /\ Becomes(i, "terminating") /\ Spend /\ OnlyInstances

\* What was attached with AttachVolume stays attached.
Terminated(i) ==
  inst[i] = "terminating" /\ Becomes(i, "terminated") /\ OnlyInstances /\ UNCHANGED budget

\* Hours after its termination an instance is no longer returned: no
\* reconcile is that long, and no cache lags that far behind.
AgesOut(i) ==
  /\ "age" \in CloudEvents /\ inst[i] = "terminated"
  /\ pc = "idle" /\ cache = obj
  /\ Becomes(i, "gone")
  /\ att' = [att EXCEPT ![i] = IF InUse(i) THEN @ ELSE "none"]
  /\ UNCHANGED <<kube, queued, pc, mem, seen, vol, lb, wr, token, budget>>

VolumeStep ==
  /\ \/ vol = "provisioning" /\ vol' = "available"
     \/ vol = "terminated" /\ vol' = "none"
  /\ UNCHANGED <<kube, queued, pc, mem, seen, inst, att, lb, wr, token, budget>>

AttachmentStep(i) ==
  /\ \/ att[i] = "attaching" /\ att' = [att EXCEPT ![i] = "attached"]
     \/ att[i] = "detaching" /\ att' = [att EXCEPT ![i] = "detached"]
  /\ UNCHANGED <<kube, queued, pc, mem, seen, inst, vol, lb, wr, token, budget>>

WorkRequestDone ==
  /\ wr # NoWR /\ wr' = NoWR
  /\ lb' = IF wr.op = "add" THEN lb \cup {wr.ip}
           ELSE IF ClassicLB THEN lb \ {wr.ip} ELSE {}
  /\ UNCHANGED <<kube, queued, pc, mem, seen, inst, vol, att, token, budget>>

WorkRequestFails ==
  /\ wr # NoWR /\ wr' = NoWR /\ Spend
  /\ token' = IF wr.op = "add" THEN "failed" ELSE token
  /\ UNCHANGED <<kube, queued, pc, mem, seen, inst, vol, att, lb>>

\* A retry token is forgotten after a day: no reconcile is that long.
TokenExpires ==
  /\ pc = "idle" /\ wr = NoWR /\ token # "new"
  /\ token' = "new"
  /\ UNCHANGED <<kube, queued, pc, mem, seen, inst, vol, att, lb, wr, budget>>

-----------------------------------------------------------------------------
ReconcileNormal ==
  \/ GetForCreate \/ Launch \/ LaunchNoCapacity
  \/ ReconcileBlockVolume \/ EnsureAttached
  \/ StatePending \/ StateStopped \/ StateRunning \/ StateTerminated
  \/ StateUnexpected \/ DeleteOwnerMachine
  \/ GetInstanceIp \/ GetLBForCreate \/ CreateBackend \/ AwaitCreate
  \/ ReconcileVnicAttachments \/ SetReady

ReconcileDelete ==
  \/ GetForDelete \/ GetLBForDelete \/ DeleteBackend \/ AwaitDelete
  \/ DetachVolume \/ TerminateInstance \/ DeleteBlockVolume \/ RemoveFinalizer

Controller ==
  \/ ReconcileSkip \/ ReconcileStart
  \/ ReconcileNormal \/ ReconcileDelete
  \/ ApiError \/ PatchSpec \/ PatchStatus

Kubernetes ==
  \/ CacheSync \/ Resync \/ OpenGate \/ CloseGate \/ BootstrapReady
  \/ UserDeletesMachine \/ MachineControllerDeletes \/ Crash

InstanceProgress(i) ==
  Provisioned(i) \/ InstanceStarted(i) \/ ImageDone(i) \/ Terminated(i)

InstanceDisturbed(i) ==
  \/ ProvisioningFails(i) \/ InstanceStopped(i) \/ ImageStarted(i)
  \/ TerminatedByOthers(i) \/ AgesOut(i)

Cloud ==
  \/ \E i \in Instance : \/ InstanceProgress(i)
                         \/ InstanceDisturbed(i)
                         \/ AttachmentStep(i)
  \/ VolumeStep \/ WorkRequestDone \/ WorkRequestFails \/ TokenExpires

Next == Controller \/ Kubernetes \/ Cloud

Spec == Init /\ [][Next]_vars

(* The workqueue hands out queued keys, watches deliver, the gate opens    *)
(* again, Cluster API deletes what it must, and the cloud finishes what it *)
(* accepted.  Nothing is assumed of resyncs, users or disturbances.        *)
Fairness ==
  /\ WF_vars(Controller)
  /\ SF_vars(CacheSync)   \* enabled between any two reconciles
  /\ WF_vars(OpenGate)
  /\ WF_vars(BootstrapReady)
  /\ WF_vars(MachineControllerDeletes)
  /\ \A i \in Instance : WF_vars(InstanceProgress(i)) /\ WF_vars(AttachmentStep(i))
  /\ WF_vars(VolumeStep)
  /\ WF_vars(WorkRequestDone)
  /\ SF_vars(TokenExpires)   \* a day passes, between two reconciles

FairSpec == Spec /\ Fairness

-----------------------------------------------------------------------------
(* Properties                                                              *)

ObjectRecord ==
  [exists : BOOLEAN, deleting : BOOLEAN, fin : BOOLEAN, id : MaybeInstance,
   addr : MaybeInstance, ready : BOOLEAN, failed : BOOLEAN]
MemRecord ==
  [fin : BOOLEAN, id : MaybeInstance, addr : MaybeInstance, ready : BOOLEAN,
   failed : BOOLEAN, requeue : BOOLEAN, notfound : BOOLEAN]
SeenRecord == [id : MaybeInstance, state : InstanceState]
WRRecord == [op : {"none", "add", "del"}, ip : MaybeInstance]
HistRecord == [missed : BOOLEAN, parked : BOOLEAN]
VolumeState == {"none", "provisioning", "available", "terminated"}

\* The state is well typed: object, cache and in-memory copy are OCIMachine
\* records, and the cloud holds resources in lifecycle states OCI defines.
TypeOK ==
  /\ obj \in ObjectRecord /\ cache \in ObjectRecord
  /\ queued \in BOOLEAN /\ gate \in BOOLEAN /\ boot \in BOOLEAN /\ mdel \in BOOLEAN
  /\ pc \in Pc
  /\ mem \in MemRecord
  /\ seen \in SeenRecord
  /\ inst \in [Instance -> InstanceState]
  /\ vol \in VolumeState
  /\ att \in [Instance -> AttachmentState]
  /\ lb \subseteq MaybeInstance
  /\ wr \in WRRecord
  /\ token \in {"new", "used", "failed"}
  /\ hist \in HistRecord
  /\ budget \in 0..Budget

\* GetOrCreateMachine launches only when neither the recorded OCID nor the
\* display name finds an instance: lost replies, crashes before the OCID is
\* stored and stale caches never lead to a second instance.
AtMostOneInstance ==
  \A i, j \in Instance : Listed(i) /\ Listed(j) => i = j

\* reconcileDelete gives up the finalizer only when the instance is
\* terminated or does not exist: when the OCIMachine is gone, no instance of
\* its own keeps running.
NoOrphanInstance ==
  ~obj.exists => \A i \in Instance : ~Live(i)

\* The recorded OCID never changes, whatever copy of the object the patch
\* helper started from.
InstanceIdSticky == [][obj.id # None => obj'.id = obj.id]_vars

\* A control plane machine is reported ready only once its instance is a
\* backend of the API server's load balancer, and until it is deleted.
ReadyMeansServing ==
  (obj.exists /\ obj.ready /\ ~obj.deleting /\ ControlPlane)
    => lb # {} /\ (obj.id # None => obj.id \in lb)

\* reconcileDelete takes the instance out of the load balancer, and waits for
\* the work request, before it terminates it.  The exception is a backend that
\* its last look at the load balancer missed: an earlier reconcile's request to
\* add it was still in progress then, or the LBaaS machine had no address.
DrainedBeforeTerminate ==
  [][(TerminateInstance /\ inst' # inst) => seen.id \notin lb \/ hist.missed]_vars

\* Once the OCIMachine is gone the load balancer has no backend of its own,
\* and no request that will add one, save what the last look missed.
NoOrphanBackend ==
  ~obj.exists => (lb = {} /\ wr.op # "add") \/ hist.missed

\* Once the OCIMachine is gone its block volume is deleted.
NoOrphanVolume ==
  ~obj.exists => vol \in {"none", "terminated"}

\* A volume that was still attaching when DeleteMachine listed the attachments,
\* or was attached when somebody else terminated the instance: nothing detaches
\* it any more, and it cannot be deleted.
VolumeHeld ==
  \E i \in Instance :
    inst[i] \in {"terminated", "gone"} /\ att[i] \in {"attaching", "attached"}

\* A deleted OCIMachine goes away: reconcileDelete is requeued until the
\* instance is terminated and the block volume deleted, unless the volume is
\* held by an instance that is terminated.
DeletionCompletes == (obj.exists /\ obj.deleting) ~> (~obj.exists \/ VolumeHeld)

\* A machine with bootstrap data becomes ready unless it is deleted first: a
\* work request that failed is repeated once its retry token has expired.
BecomesReady == boot ~> (obj.ready \/ mdel)

\* With the delete-machine-on-instance-termination annotation the owner Machine
\* of a terminated instance is deleted, however the termination came about.
\* The exception is a machine whose last reconcile found the instance stopped:
\* that case of the switch returns without a requeue.
TerminationDeletesMachine ==
  (~hist.parked /\ \E i \in Instance : inst[i] = "terminated") ~> (mdel \/ hist.parked)

-----------------------------------------------------------------------------
(* The abstract view of the object and its instance.                       *)

Owner == IF ~obj.exists THEN "gone" ELSE IF obj.deleting THEN "deleting" ELSE "live"
Resource == IF \E i \in Instance : Live(i) THEN "live"
            ELSE IF \E i \in Instance : inst[i] # "absent" THEN "dead" ELSE "none"

Owned == INSTANCE OwnedInstance
           WITH owner <- Owner, recorded <- obj.id # None, res <- Resource

\* The controller implements OwnedInstance: LaunchInstance is called only for
\* an object that exists and has no OCID recorded, and the object goes only
\* when no instance of its own is left alive.
OwnsInstance == Owned!Spec
=============================================================================
