# Cluster API Provider OCI: TLA+ models

Models of the controllers of this repository, checked with TLC on small
instances and, where marked, proved with TLAPS for every value of the constants.
The code under `src/` is the reference; `PROJECT.json` maps each definition to
the lines it stands for.

## The system

The provider is a set of Kubernetes controllers. Each watches one kind of object,
reads it from an informer cache, makes calls to OCI until the cloud looks as the
object says, and writes what it learned (OCIDs, readiness, failure) back through
a deferred patch. One object is never reconciled twice at once, but between any
two calls the cloud moves on, users edit and delete, replies get lost and the
process may stop. There is no transaction across Kubernetes and OCI, so that the
questions are always the same: is anything created twice, is anything left
behind, is "ready" true, and does it end?

| Part | State | Operations | Interacts with |
|---|---|---|---|
| OCIMachine controller (`ocimachine_controller.go`, `machine.go`, `block_volume_reconciler.go`) | OCIMachine spec, status, finalizer; instance, volume, attachment, backend, work request | reconcileNormal, reconcileDelete, Close | Machine and bootstrap provider of Cluster API, API server load balancer |
| Launch placement (`machine.go`, `cluster.go`) | failure domains in the cluster's status, launch tokens | setFailureDomains, resolve, retry list, launch loop | OCIMachine, host capacity |
| Secondary VNICs (`vnic_reconciler.go`) | Spec.VnicAttachments, attachments | list, attach | OCIMachine |
| OCICluster controller and the network reconcilers (`ocicluster_controller.go`, `cloud/scope/*_reconciler.go`) | OCIDs in the network spec, the network in OCI | one find/create/update and one find/delete step per component | users, OCIMachine (load balancer, failure domains) |
| API server load balancers | lifecycle state, endpoint, work requests | create, update, delete, backends | both of the above |
| Remote peering connections | connections on two DRGs in two regions | create, connect, delete | OCICluster |
| OCIMachinePool, machine pool machines, configuration hash | instance configurations, pool, OCIMachinePoolMachine objects | create, update by hash, scale, prune | Cluster API MachinePool |
| OCIManagedCluster, OCIManagedControlPlane, OCIManagedMachinePool, OCIVirtualMachinePool | OKE cluster, add-ons, node pools, kubeconfig | create, update, upgrade, delete | network reconcilers, OKE work requests |
| Webhooks | none | defaulting, validation | every kind |
| Clients, conversions, start-up | none that steps share | | |

What makes them hard is listed, line by line, under `hazards` in `PROJECT.json`.

## Modules

| Module | Models | Proofs |
|---|---|---|
| `OCIMachine` | the OCIMachine controller and the cloud it drives | `OCIMachineProofs`, `OCIMachineSafetyProofs` |
| `OwnedInstance` | what that controller promises, without reconciles or calls | |
| `InstanceLaunch` | where, and how often, LaunchInstance is called | |
| `VnicAttachments` | the loop over Spec.VnicAttachments | `VnicAttachmentsProofs` |
| `ClusterNetwork` | the OCICluster controller and the network reconcilers | |
| `MachinePool` | the OCIMachinePool controller, instance configurations and the instance pool | |
| `MachinePoolMachines` | the OCIMachinePoolMachines that mirror a pool's instances | `MachinePoolMachinesProofs` |
| `MC*` | instances for TLC | |

### OCIMachine

A step is one OCI call with the local code after it; `pc` names the next call.
`obj` is the object in the API server, `cache` the informer's copy that a
reconcile starts from (and the *before* of the patch helper), `mem` the copy that
the reconcile changes and `seen` the instance as GetMachine returned it. Close is
two steps, `PatchSpec` and `PatchStatus`, each of which sends only what differs
from `cache` and may fail before or after it took effect. `inst`, `vol`, `att`,
`lb` and `wr` are the cloud. Actions are named after the functions; those of
`reconcileNormal`'s switch are `StatePending`, `StateStopped`, `StateRunning`,
`StateTerminated` and `StateUnexpected`. An error anywhere is `ApiError`, a lost
reply the second disjunct of `Reply`, and both spend from `budget`. `token` is what
OCI remembers of the retry token of CreateBackend, which is the same in every
reconcile: a repeated call is answered with the work request of the first, until
the token expires (`TokenExpires`). `hist` is history for the properties: whether
the last look at the load balancer in a deletion came too early for a backend
(`missed`), and whether the last look at the instance ended without a requeue
(`parked`).

Assumptions: the load balancer exists and takes one mutating request at a time;
instances of the machine's name carry its tags; the name lookup is current (that
it lags is the subject of `InstanceLaunch`); consecutive reads of a helper and
the write after them are one step; a terminated instance disappears from OCI only
hours later, when no reconcile runs on an older copy (`AgesOut`). The rules of
AttachVolume and termination are OCI's and marked external; that a volume attached
with AttachVolume stays attached when the instance is terminated is taken from the
comment at `machine.go:574`, which is why DeleteMachine detaches it. A work request
may take as long as it likes, the next reconciles included.
`FinalizerFirst` says that bootstrap data appears only after the finalizer is
stored: the first reconcile, which has no bootstrap data, stores the finalizer,
and bootstrap data is made later, by other controllers.

`OwnedInstance` is the abstract specification: an instance is created only for an
object that exists and records none, beside no live one, and the object goes only
when the instance is not alive. `OwnsInstance` is the refinement
(`owner`, `recorded` and `res` are `Owner`, `obj.id # None` and `Resource`).

### InstanceLaunch

One reconcile looks the instance up by name (`Begin`), draws or takes a failure
domain, builds the list of fault domains, and calls LaunchInstance for each
(`Accepted`, `Rejected`, `OutOfHostCapacity`). A setting fixes the region, the
machine's key, whether the list lags and whether capacity is steady while the
machine is launched; `Settings` has several, so that one run covers all.

### VnicAttachments

The loop's cursor `k`, the list call and the attach call, the two patches, and
crashes. The variable `missed` is history: it counts list calls that failed.

### ClusterNetwork

`NormalPlan` and `DeletePlan` are the orders of `reconcile` and
`reconcileDelete` for a spec; each component's function is an action that finds
or creates, or finds and deletes, one resource. `cloud[r]` is the set of live
copies of resource `r`, `obj.ids` the OCIDs in the spec, `mem.ids` those of the
running reconcile, `built` the security list each subnet uses and `drift` the
renames not applied yet. `Referenced` is OCI's rule that a resource in use cannot
be deleted. The spec (subnet types, security list, what is skipped, peering) is
part of the initial state.

Assumptions: there is no separate cache, as an older copy has fewer OCIDs and
equals a crash; edits come between reconciles, deletions at any time; retry tokens
do not expire between a lost reply and its retry; a load balancer that is not
ACTIVE yet is an error like that of any call; deletes take effect when the call returns; every subnet role is present, as the
webhook's defaults see to; no subnet is skipped on its own; rules are equal.

### MachinePool

`obj` is the object in the API server, `ctl[o]` the reconcile in progress: `base`
as read, `mem` as changed, `found` the pool as FindInstancePool returned it.
`conf` and `pool` hold the instance configurations and pools ever made; an OCID
is a position in them. The two hashes of ReconcileInstanceConfiguration are a
pair, the wanted launch details and the generation of the bootstrap data, which
is also what a configuration holds (`want`). CleanupInstanceConfiguration is a
list and one delete at a time, from three places that `stage` tells apart: after
a rollout (errors are logged), after UpdatePool, and on deletion.

Assumptions: a read is stale by one reconcile at most (`seen`); lists by display
name are current; the cloud refuses to delete a configuration that a live pool
uses (`Deletable`, external); a terminated pool disappears only hours later, when
no reconcile runs on an older copy. The hash annotations are left out: they
record what the configuration in the cloud already says.

### MachinePoolMachines

One reconcile lists the instances (`specs`, and `ids` for the running ones), lists
the objects, creates or updates one object per instance, lists the objects again
and deletes the Machines of the orphans. A list may be the one before (`cache`),
and of two objects of one instance any may be the one that the map by OCID keeps,
as the order of a list is not specified.
`missed` is history: it counts stale lists. What Cluster API does with Machines
is external.

## Runs

| Run | Shows | States |
|---|---|---|
| `machine_lifecycle` | worker with volumes, VNICs, annotation; every cloud event; 2 instances, 3 disturbances: at most one instance, no orphan, sticky OCID, `OwnedInstance` implemented | 576,624 |
| `machine_control_plane` | control plane machine with a volume behind a network load balancer, late work requests: ready means serving, drained before terminated, no backend or volume left, becomes ready, deletion completes | 107,907 |
| `machine_termination` | LBaaS, late work requests, instances that fail, are stopped, imaged or terminated by others: the annotation deletes the Machine, deletion completes | 97,060 |
| `vnics` | 3 VNICs, 4 disturbances: attached before ready, none again but after a failed list | 6,118 |
| `launch` | 4 settings, 6 disturbances: each fault domain once, own first, room found, one launch | 8,564 |
| `network` | 4 specs, 3 disturbances: no duplicates, no orphans, ready means built, at rest everything is in place, sticky OCIDs | 189,847 |
| `network_progress` | 3 specs, 2 disturbances, fair: becomes ready, deletion completes | 25,421 |
| `machine_pool` | one pool, 1 edit, 2 disturbances, fair: one pool, no orphans, the recorded configuration is kept, converges, deletion completes | 138,600 |
| `pool_machines` | 2 instances, 1 disturbance, fair: one object per instance but for stale lists, only orphans' Machines deleted, objects mirror the pool | 249,254 |

Two instances are enough to show a second launch; more would need one more
launch of the same kind. Three disturbances allow a lost reply, a crash while it
is repaired and a failed patch after that; a bound of two in
`machine_termination` allows the termination and one failure, stop or image beside
it. Two NSGs
and two subnets have both types of route table and a first and a last element of
each loop; one security list is enough, as lists do not interact. One edit makes
one rollout, during which a reply is lost and a crash follows; two instances of a
pool are an orphan beside one that stays. Deadlock is checked in all runs of
`OCIMachine`, `VnicAttachments` and `MachinePoolMachines`; it is not in `launch`,
the network runs and the runs of `MachinePool`, whose systems stop when the
machine is launched or the object is gone.

Three runs show where the code departs from what the repository says:

| Run | Violated | Why |
|---|---|---|
| `v_terminated_backend` | `NoOrphanBackend` | the TERMINATED branch of reconcileDelete never reaches the load balancer |
| `v_net_list_left` | `DeletionCompletes` | a security list is created without a lookup, and a second copy blocks the VCN |
| `v_pool_prefix` | `RecordedConfLives` | cleanup lists by name prefix and deletes another pool's new configuration |

The passing runs avoid these cases by their constants: `CloudEvents`,
specs without a security list, one pool.

Five properties of passing runs name an exception, because the code does not give
more; each is a precise condition on what the controller saw, not a bound:

- `DrainedBeforeTerminate` and `NoOrphanBackend` except a backend that the last
  look at the load balancer missed (`hist.missed`). CreateBackend's work request
  may outlive its reconcile, and ReconcileDeleteInstanceOnLB, which does not wait
  for it, then finds nothing to remove; the backend is added later and nobody
  removes it. Behind an LBaaS a machine whose address was not stored is missed too.
- `DeletionCompletes` excepts a volume held by a terminated instance
  (`VolumeHeld`). DeleteMachine detaches volumes that are ATTACHED; one that is
  still ATTACHING when it looks, or that was attached when somebody else
  terminated the instance, is never detached, and DeleteBlockVolume is refused for
  ever.
- `TerminationDeletesMachine` excepts a machine whose last reconcile found the
  instance stopped (`hist.parked`): that case returns without a requeue, so that
  the termination that follows is seen only if something else queues the key.
- `NoOrphans` of `ClusterNetwork` is about an object that was deleted with its
  finalizer stored. The first reconcile adds the finalizer in memory and stores it
  at its end; an object deleted meanwhile is gone at once, and what that reconcile
  creates stays.

The default branch of reconcileNormal marks a machine failed in every state it does
not know. No property says when that is right: an instance in CREATING_IMAGE comes
back to RUNNING, and no text of the repository promises that a failure is final.

Other things the models show when a constant is changed, kept here rather than
in a run: with
an instance that ages out before its OCID is stored the volume stays; with
`FinalizerFirst = FALSE` an instance is orphaned; with a block
volume a terminated instance fails to attach before the annotation is looked at;
with `ServiceListed = FALSE` the missing service gateway shows
only as a route table that cannot be created, and a cluster that skips route
tables is ready without it; with only route tables skipped the internet gateway
is never deleted, and neither is the cluster; with `LaunchVolumes` and no block
volume yet a deletion never ends, as GetBlockVolumeId fails instead of returning
an empty string; two VNICs of one display name count as one, so that the machine is ready
without the second; peering without a DRG is documented but never becomes ready;
a machine pool whose new configuration was not recorded finds it by name but never
sets its OCID, so that CreateInstancePool refuses until the launch details change
(`Stuck`, which `Converges` excepts and `NeverStuck` does not); a pool terminated
by others and then forgotten is not created again (`Lost`); and of two pools with
prefix names, deleting the shorter one waits for the other's pool to go.

## Fairness

`WF(Controller)`: the workqueue serves a queued key and a reconcile goes on.
`SF(CacheSync)`: watch events are delivered, between reconciles. Weak fairness of
the cloud's own progress (provisioning, termination, attachments, volumes, work
requests), of Cluster API deleting what it must, and of unpausing.
`SF(TokenExpires)`: a retry token is forgotten after a day, between two reconciles;
without it a CreateBackend whose work request failed would be answered with that
failure for ever, and no machine behind it would become ready. Resyncs, users
and disturbances have none, and the budget bounds the disturbances: liveness is
about what happens once they stop. In `InstanceLaunch` and `VnicAttachments` a
failed reconcile is queued again; `ClusterNetwork` needs only the controller. In
`MachinePool` the steps of each object, the cloud's progress and the bootstrap
provider are weakly fair; in `MachinePoolMachines` the reconcile, which is queued
again after five minutes, the objects' own controller and Cluster API.

## Proofs

For any set of instances, any budget and any configuration:

- `OCIMachineProofs!TypeCorrect`: the type invariant.
- `OCIMachineSafetyProofs!OneInstance`: at most one instance. The inductive
  invariant says that everything that names an instance (object, cache, memory,
  `seen`) names a listed or aged-out one, and that `n_launch` is reached only when
  no instance is listed, which only the controller itself can change.
- `IdSticky`: object, cache and memory hold no two different OCIDs, so that a
  patch made from an old copy cannot replace the one stored.
- `NoOrphan`, under `FinalizerFirst`: without a finalizer there is no bootstrap
  data, hence no instance; and on the way to removing the finalizer the
  controller has seen the instance terminated, aged out, or not there.
- `VnicAttachmentsProofs`: `TypeCorrect`; `NeverTwice`, whose invariant adds that
  at the attach call the name has at most `missed` attachments; `ReadyIsAttached`,
  whose invariant is that every entry before the cursor has a VNIC, for distinct
  display names.
- `MachinePoolMachinesProofs!OrphansOnly`: the Machine of an instance is deleted
  only when the instance is terminated. The invariant adds that a list is an older
  version of the objects that names the same instances, that every object stands
  for an instance the pool had, and hence that an instance which a running
  reconcile did not find is terminated, which stays true.

Only model-checked: liveness; `OwnsInstance`; the properties of load balancer,
volume and failure; `OneMirror`; `InstanceLaunch`, `ClusterNetwork` and
`MachinePool`.

## Not modelled

Managed clusters and their pools, webhooks, the configuration hash, rule
comparison, remote peering beyond success or failure, and the lifecycle of load
balancers are planned below. Client construction, conversions and start-up have
no protocol to check.

## Plan

In order:

1. `ApiServerLB`: create, update and delete of both load balancers with their
   work requests and lifecycle states; composed with `ClusterNetwork`'s step.
2. `RemotePeering`: connections on two DRGs, stored and looked up by one name.
3. `ManagedControlPlane`, `ManagedMachinePool`, `VirtualMachinePool`: create,
   update, upgrade, add-ons, delete, each against an abstract owned resource like
   `OwnedInstance`.
4. `SecurityRules` and `ConfigHash`: pure operators, against reference
   definitions over bounded inputs; defaulting of the webhooks as idempotent.
5. Theorems: `OwnsInstance`; `NoDuplicates` and `IdsSticky` of `ClusterNetwork`;
   `AllDomainsTried` and `NoDomainTwice` of `InstanceLaunch`; `OnePool` and
   `NoOrphan` of `MachinePool`; `OneMirror`; one theorem per new
   module.

New runs replace those of settled disagreements, which stay described above.
