---------------------------- MODULE MachinePool ----------------------------
(***************************************************************************)
(* OCIMachinePool objects of one cluster, the controller that reconciles   *)
(* them (exp/controllers/ocimachinepool_controller.go,                     *)
(* cloud/scope/machine_pool.go) and what it keeps in the cloud: instance   *)
(* configurations, which are immutable and are replaced when the wanted    *)
(* launch details change, and the instance pool that uses one of them.     *)
(*                                                                         *)
(* A step of the controller is one API call and the local code after it.   *)
(* The object is read from an informer cache (seen) and patched with what  *)
(* the reconcile changed.  The machines of a pool are the subject of       *)
(* MachinePoolMachines.tla.                                                *)
(***************************************************************************)
EXTENDS Naturals, Sequences, FiniteSets

CONSTANTS
  Obj,       \* the OCIMachinePools of the cluster
  Begins,    \* <<o, p>>: the name of o is a proper prefix of the name of p
  Cfg,       \* launch details a user may ask for
  Size,      \* replica counts
  Place,     \* placements a user may ask for; 0 is none in particular
  MaxEdits,  \* bound on edits of the user, the autoscaler and the
             \* bootstrap provider
  Budget     \* bound on failures, lost replies, crashes, stale reads and
             \* interventions

ASSUME PoolAssumption ==
  /\ Begins \subseteq Obj \X Obj /\ \A o \in Obj : <<o, o>> \notin Begins
  /\ Cfg # {} /\ Size # {} /\ Size \subseteq Nat
  /\ 0 \in Place /\ Place \subseteq Nat
  /\ {MaxEdits, Budget} \subseteq Nat

VARIABLES
  obj,     \* the OCIMachinePools in the API server
  seen,    \* the informer's copies, when they are stale
  reps,    \* Spec.Replicas of the owner MachinePools
  boot,    \* generation of the bootstrap data secret, 0 before there is one
  ext,     \* MachinePools whose replicas an external autoscaler manages
  ctl,     \* the reconcile in progress of each object
  conf,    \* instance configurations, in order of creation
  pool,    \* instance pools, in order of creation
  edits, budget

kube == <<obj, seen, reps, boot, ext>>
vars == <<kube, ctl, conf, pool, edits, budget>>

PoolState == {"provisioning", "running", "scaling", "stopped",
              "terminating", "terminated", "gone"}
Live(p) == p.state \notin {"terminated", "gone"}

\* Identifiers are positions in conf and pool; 0 is nil.
NoPool == [id |-> 0, state |-> "gone", conf |-> 0, size |-> 0,
           place |-> 0]
Fresh(c) == [here |-> TRUE, del |-> FALSE, fin |-> FALSE, cfg |-> c,
             place |-> 0, ocid |-> 0, icid |-> 0, failed |-> FALSE, ready |-> FALSE]
Idle == [pc |-> "idle"]

Init ==
  /\ obj = [o \in Obj |-> Fresh(CHOOSE c \in Cfg : TRUE)]
  /\ seen = obj
  /\ reps = [o \in Obj |-> CHOOSE n \in Size : TRUE]
  /\ boot = [o \in Obj |-> 0] /\ ext \in SUBSET Obj
  /\ ctl = [o \in Obj |-> Idle] /\ conf = <<>> /\ pool = <<>>
  /\ edits = MaxEdits /\ budget = Budget

-----------------------------------------------------------------------------
(* How a call ends                                                         *)

At(o, l) == ctl[o].pc = l
Goto(o, l) == ctl' = [ctl EXCEPT ![o].pc = l]
Set(o, l, m) == ctl' = [ctl EXCEPT ![o].pc = l, ![o].mem = m]
Spend == budget > 0 /\ budget' = budget - 1

\* An error returns to the deferred Close.
Fail(o) == Goto(o, "close")

\* The call took effect; the reply arrives, or is lost.
Reply(o, ok) == \/ ok /\ UNCHANGED budget
                \/ Spend /\ Fail(o)

\* The calls of a reconcile that may fail.
Calls == {"find", "conf", "createConf", "list", "delete", "createPool",
          "machines", "update", "terminate", "dget", "ddel"}

-----------------------------------------------------------------------------
(* PatchObject: the fields that differ from the object as it was read, the *)
(* spec and metadata in one call, the status in another.                   *)

StatusFields == {"failed", "ready"}
Diff(o) == {f \in DOMAIN obj[o] : ctl[o].mem[f] # ctl[o].base[f]}

Patched(o, fields) ==
  LET new == [f \in DOMAIN obj[o] |->
                IF f \in fields THEN ctl[o].mem[f] ELSE obj[o][f]]
  IN [new EXCEPT !.here = new.fin \/ ~new.del]

\* The patch is stored, and "ok" follows; or it is not, or not all of it.
Patch(o, ok, err) ==
  \/ /\ obj[o].here /\ obj' = [obj EXCEPT ![o] = Patched(o, Diff(o))]
     /\ ok /\ UNCHANGED budget
  \/ /\ ~obj[o].here /\ UNCHANGED <<obj, budget>>
     /\ IF Diff(o) = {} THEN ok ELSE err
  \/ /\ Diff(o) # {} /\ obj[o].here /\ Spend /\ err
     /\ \E part \in {{}, StatusFields, DOMAIN obj[o] \ StatusFields} :
          obj' = [obj EXCEPT ![o] = Patched(o, Diff(o) \cap part)]

-----------------------------------------------------------------------------
(* Reconcile                                                               *)

\* The object is read as it is, or as it was when the last reconcile began.
\* One that has failed is only reconciled to delete it.
Start(o) ==
  /\ At(o, "idle")
  /\ \E x \in {obj[o], seen[o]} :
       /\ x.here /\ (x.del \/ ~x.failed)
       /\ IF x = obj[o] THEN UNCHANGED budget ELSE Spend
       /\ ctl' = [ctl EXCEPT ![o] =
            [pc |-> IF x.del THEN "find" ELSE "register",
             base |-> x, mem |-> [x EXCEPT !.fin = @ \/ ~x.del],
             reps |-> reps[o], want |-> <<>>, found |-> NoPool,
             stage |-> IF x.del THEN "delete" ELSE "rollout", todo |-> {}]]
  /\ seen' = [seen EXCEPT ![o] = obj[o]]
  /\ UNCHANGED <<obj, reps, boot, ext, conf, pool, edits>>

\* Mutant: the finalizer is left to the deferred Close.
RegisterInMemory(o) ==
  /\ At(o, "register") /\ Goto(o, IF boot[o] > 0 THEN "find" ELSE "close")
  /\ UNCHANGED <<kube, conf, pool, edits, budget>>

\* The finalizer is stored before anything is created; then the cluster's
\* infrastructure and the bootstrap data are waited for.
Register(o) ==
  /\ At(o, "register")
  /\ Patch(o, Goto(o, IF boot[o] > 0 THEN "find" ELSE "close"), Fail(o))
  /\ UNCHANGED <<seen, reps, boot, ext, conf, pool, edits>>

Deleting(o) == ctl[o].stage = "delete"

-----------------------------------------------------------------------------
(* FindInstancePool: by OCID when one is recorded, else by display name    *)

NotFound(o) == ctl[o].mem.ocid # 0 /\ pool[ctl[o].mem.ocid].state = "gone"
\* Mutant: no lookup by name.
FoundById(o, p) == pool[p].state # "gone" /\ ctl[o].mem.ocid = p

Found(o, p) == /\ pool[p].own = o /\ pool[p].state # "gone"
               /\ ctl[o].mem.ocid \in {0, p}

\* Mutant: the size that the cloud returned is not read.
SnapshotNoSize(p) == [id |-> p, state |-> pool[p].state, conf |-> pool[p].conf,
                      size |-> 0, place |-> pool[p].place]

Snapshot(p) == [id |-> p, state |-> pool[p].state, conf |-> pool[p].conf,
                size |-> pool[p].size, place |-> pool[p].place]

FindForNormal(o) ==
  /\ At(o, "find") /\ ~Deleting(o)
  /\ \/ \E p \in DOMAIN pool :
          Found(o, p) /\ ctl' = [ctl EXCEPT ![o].pc = "conf", ![o].found = Snapshot(p)]
     \/ NotFound(o) /\ Fail(o)
     \/ /\ ctl[o].mem.ocid = 0 /\ \A p \in DOMAIN pool : ~Found(o, p)
        /\ Goto(o, "conf")
  /\ UNCHANGED <<kube, conf, pool, edits, budget>>

FindForDelete(o) ==
  /\ At(o, "find") /\ Deleting(o)
  /\ \/ \E p \in DOMAIN pool :
          /\ Found(o, p)
          /\ \/ pool[p].state = "terminating" /\ Fail(o)
             \/ /\ pool[p].state = "terminated"
                /\ Set(o, "list", [ctl[o].mem EXCEPT !.ready = FALSE])
             \/ /\ pool[p].state \notin {"terminating", "terminated"}
                /\ ctl' = [ctl EXCEPT ![o].pc = "terminate", ![o].found = Snapshot(p)]
     \/ /\ \A p \in DOMAIN pool : ~Found(o, p)
        /\ Set(o, "list", [ctl[o].mem EXCEPT !.ready = FALSE])
  /\ UNCHANGED <<kube, conf, pool, edits, budget>>

\* The pool is terminated, and looked at again 30 seconds later.
TerminateInstancePool(o) ==
  /\ At(o, "terminate") /\ Fail(o)
  /\ LET p == ctl[o].found.id IN
     IF pool[p].state \in {"terminating", "terminated", "gone"}
       THEN UNCHANGED pool
       ELSE pool' = [pool EXCEPT ![p].state = "terminating"]
  /\ UNCHANGED <<kube, conf, edits, budget>>

-----------------------------------------------------------------------------
(* ReconcileInstanceConfiguration                                          *)

\* Display names are matched by prefix; the newest one comes first.
Listed(o) == {c \in DOMAIN conf : /\ conf[c].live
                                  /\ conf[c].own = o \/ <<o, conf[c].own>> \in Begins}
Newest(S) == CHOOSE c \in S : \A d \in S : d <= c
ConfId(o) == IF ctl[o].mem.icid # 0 THEN ctl[o].mem.icid
             ELSE IF Listed(o) # {} THEN Newest(Listed(o)) ELSE 0

\* reconcileNormal once the configuration is settled: the switch on the state
\* the pool was found in.
Resume(o) ==
  LET found == ctl[o].found
      mem == [ctl[o].mem EXCEPT !.ocid = found.id]
  IN \/ found.id = 0 /\ Goto(o, "createPool")
     \/ found.id # 0 /\ found.state \in {"provisioning", "scaling"} /\ Set(o, "close", mem)
     \/ found.id # 0 /\ found.state = "running" /\ Set(o, "machines", mem)
     \/ /\ found.id # 0 /\ found.state \in {"stopped", "terminating", "terminated"}
        /\ Set(o, "close", [mem EXCEPT !.failed = TRUE])

\* The launch details that the spec asks for, with the bootstrap data as the
\* user_data of their metadata.
GetBootstrapData(o) == boot[o]
LaunchDetails(o) == <<ctl[o].mem.cfg, GetBootstrapData(o)>>

\* Configuration and bootstrap data are hashed apart; either makes a new one.
ReconcileInstanceConfiguration(o) ==
  LET id == ConfId(o) IN
  /\ At(o, "conf")
  /\ \/ id # 0 /\ ~conf[id].live /\ Fail(o)
     \/ id # 0 /\ conf[id].live /\ conf[id].want = LaunchDetails(o) /\ Resume(o)
     \/ /\ id # 0 => conf[id].live /\ conf[id].want # LaunchDetails(o)
        /\ ctl' = [ctl EXCEPT ![o].pc = "createConf", ![o].want = LaunchDetails(o)]
  /\ UNCHANGED <<kube, conf, pool, edits, budget>>

CreateInstanceConfiguration(o) ==
  /\ At(o, "createConf")
  /\ conf' = Append(conf, [own |-> o, want |-> ctl[o].want, live |-> TRUE])
  /\ Reply(o, Set(o, "patchConf", [ctl[o].mem EXCEPT !.icid = Len(conf) + 1]))
  /\ UNCHANGED <<kube, pool, edits>>

PatchConfId(o) ==
  /\ At(o, "patchConf")
  /\ Patch(o, Goto(o, "list"), Fail(o))
  /\ UNCHANGED <<seen, reps, boot, ext, conf, pool, edits>>

-----------------------------------------------------------------------------
(* CleanupInstanceConfiguration                                            *)

\* Mutant: what the pool uses is kept, whatever was just recorded.
KeepUsed(o) == ctl[o].found.conf

\* After a rollout and on deletion the recorded one is kept, after UpdatePool
\* the one the pool uses.
Keep(o) == IF ctl[o].stage = "update" THEN ctl[o].found.conf ELSE ctl[o].mem.icid

\* The first error ends the cleanup; after a rollout it is only logged.
Broken(o) == IF ctl[o].stage = "rollout" THEN Resume(o) ELSE Fail(o)

Cleaned(o) ==
  \/ ctl[o].stage = "rollout" /\ Resume(o)
  \/ ctl[o].stage = "update" /\ Set(o, "close", [ctl[o].mem EXCEPT !.ready = TRUE])
  \/ ctl[o].stage = "delete" /\ Goto(o, "dget")

ListInstanceConfigurations(o) ==
  LET old == Listed(o) \ {Keep(o)} IN
  /\ At(o, "list")
  /\ IF old = {} THEN Cleaned(o)
     ELSE ctl' = [ctl EXCEPT ![o].pc = "delete", ![o].todo = old]
  /\ UNCHANGED <<kube, conf, pool, edits, budget>>

\* The cloud refuses to delete a configuration that a pool uses.
Deletable(c) == conf[c].live /\ \A p \in DOMAIN pool : Live(pool[p]) => pool[p].conf # c

DeleteOldConfiguration(o) ==
  LET c == Newest(ctl[o].todo)
      rest == ctl[o].todo \ {c}
  IN /\ At(o, "delete")
     /\ \/ ~Deletable(c) /\ Broken(o) /\ UNCHANGED <<conf, budget>>
        \/ /\ Deletable(c) /\ conf' = [conf EXCEPT ![c].live = FALSE]
           /\ \/ /\ IF rest = {} THEN Cleaned(o)
                    ELSE ctl' = [ctl EXCEPT ![o].todo = rest]
                 /\ UNCHANGED budget
              \/ Spend /\ Broken(o)
     /\ UNCHANGED <<kube, pool, edits>>

-----------------------------------------------------------------------------
(* The instance pool                                                       *)

CreateInstancePool(o) ==
  LET id == ctl[o].mem.icid IN
  /\ At(o, "createPool") /\ Fail(o)
  /\ IF id = 0 \/ ~conf[id].live THEN UNCHANGED pool
     ELSE pool' = Append(pool, [own |-> o, state |-> "provisioning",
                                conf |-> id, size |-> ctl[o].reps,
                                place |-> ctl[o].mem.place])
  /\ UNCHANGED <<kube, conf, edits, budget>>

\* The machines are reconciled, and SyncReplicasFromInstancePool stores the
\* size of a pool that an external autoscaler manages.
ReconcileMachines(o) ==
  LET n == IF o \in ext THEN ctl[o].found.size ELSE ctl[o].reps IN
  /\ At(o, "machines")
  /\ ctl' = [ctl EXCEPT ![o].pc = "update", ![o].reps = n]
  /\ reps' = [reps EXCEPT ![o] = IF o \in ext THEN n ELSE @]
  /\ UNCHANGED <<obj, seen, boot, ext, conf, pool, edits, budget>>

\* Mutant: a new placement alone does not make an update.
NeedsUpdateNoPlacement(o) == \/ o \notin ext /\ ctl[o].reps # ctl[o].found.size
                             \/ ctl[o].mem.icid # ctl[o].found.conf

\* Placements that were taken out of the spec are left as they are.
PlacementNeedsUpdate(o) == ctl[o].mem.place \notin {0, ctl[o].found.place}

NeedsUpdate(o) == \/ o \notin ext /\ ctl[o].reps # ctl[o].found.size
                  \/ ctl[o].mem.icid # ctl[o].found.conf
                  \/ PlacementNeedsUpdate(o)

\* A nil configuration, or no size, leaves the pool's own.
Updated(o, p) ==
  LET n == IF o \in ext THEN p.size ELSE ctl[o].reps IN
  [p EXCEPT !.conf = IF ctl[o].mem.icid = 0 THEN @ ELSE ctl[o].mem.icid, !.size = n,
            !.place = IF PlacementNeedsUpdate(o) THEN ctl[o].mem.place ELSE @,
            !.state = IF n = p.size THEN @ ELSE "scaling"]

UpdatePool(o) ==
  LET p == ctl[o].found.id
      new == Updated(o, pool[p])
      Done(c) == ctl' = [ctl EXCEPT ![o].pc = "list", ![o].stage = "update",
                                    ![o].found.conf = c]
  IN /\ At(o, "update")
     /\ \/ ~NeedsUpdate(o) /\ Done(ctl[o].found.conf) /\ UNCHANGED <<pool, budget>>
        \/ /\ NeedsUpdate(o) /\ pool[p].state \in {"running", "scaling", "stopped"}
           /\ ctl[o].mem.icid # 0 => conf[ctl[o].mem.icid].live
           /\ pool' = [pool EXCEPT ![p] = new] /\ Reply(o, Done(new.conf))
        \/ /\ NeedsUpdate(o)
           /\ \/ pool[p].state \notin {"running", "scaling", "stopped"}
              \/ ctl[o].mem.icid # 0 /\ ~conf[ctl[o].mem.icid].live
           /\ Fail(o) /\ UNCHANGED <<pool, budget>>
     /\ UNCHANGED <<kube, conf, edits>>

-----------------------------------------------------------------------------
(* The end of reconcileDelete, and the deferred Close                      *)

Released(o) == Set(o, "close", [ctl[o].mem EXCEPT !.fin = FALSE])

\* Mutant: a configuration that does not exist any more is an error.
GetForDeleteStrict(o) ==
  LET id == ConfId(o) IN
  /\ At(o, "dget")
  /\ IF id = 0 THEN Released(o) ELSE IF ~conf[id].live THEN Fail(o)
     ELSE ctl' = [ctl EXCEPT ![o].pc = "ddel", ![o].todo = {id}]
  /\ UNCHANGED <<kube, conf, pool, edits, budget>>

GetForDelete(o) ==
  LET id == ConfId(o) IN
  /\ At(o, "dget")
  /\ IF id = 0 \/ ~conf[id].live THEN Released(o)
     ELSE ctl' = [ctl EXCEPT ![o].pc = "ddel", ![o].todo = {id}]
  /\ UNCHANGED <<kube, conf, pool, edits, budget>>

DeleteInstanceConfiguration(o) ==
  LET c == Newest(ctl[o].todo) IN
  /\ At(o, "ddel")
  /\ \/ ~Deletable(c) /\ Fail(o) /\ UNCHANGED <<conf, budget>>
     \/ /\ Deletable(c) /\ conf' = [conf EXCEPT ![c].live = FALSE]
        /\ Reply(o, Released(o))
  /\ UNCHANGED <<kube, pool, edits>>

Close(o) ==
  /\ At(o, "close")
  /\ LET done == ctl' = [ctl EXCEPT ![o] = Idle] IN Patch(o, done, done)
  /\ UNCHANGED <<seen, reps, boot, ext, conf, pool, edits>>

\* A call failed before it took effect.
ApiError(o) ==
  /\ ctl[o].pc \in Calls /\ Spend
  /\ IF ctl[o].pc \in {"list", "delete"} THEN Broken(o) ELSE Fail(o)
  /\ UNCHANGED <<kube, conf, pool, edits>>

Crash ==
  /\ \E o \in Obj : ~At(o, "idle")
  /\ Spend /\ ctl' = [o \in Obj |-> Idle]
  /\ UNCHANGED <<kube, conf, pool, edits>>

-----------------------------------------------------------------------------
(* The user, Cluster API and the cloud                                     *)

Edit == edits > 0 /\ edits' = edits - 1

\* The cluster's infrastructure is up and the bootstrap secret exists.
Bootstrap(o) ==
  /\ boot[o] = 0 /\ boot' = [boot EXCEPT ![o] = 1]
  /\ UNCHANGED <<obj, seen, reps, ext, ctl, conf, pool, edits, budget>>

\* The join token of the bootstrap data is rotated.
Rotate(o) ==
  /\ Edit /\ boot[o] > 0 /\ boot' = [boot EXCEPT ![o] = @ + 1]
  /\ UNCHANGED <<obj, seen, reps, ext, ctl, conf, pool, budget>>

Reconfigure(o) ==
  /\ Edit /\ obj[o].here /\ ~obj[o].del
  /\ \/ \E c \in Cfg \ {obj[o].cfg} : obj' = [obj EXCEPT ![o].cfg = c]
     \/ \E l \in Place \ {obj[o].place} : obj' = [obj EXCEPT ![o].place = l]
  /\ UNCHANGED <<seen, reps, boot, ext, ctl, conf, pool, budget>>

Delete(o) ==
  /\ obj[o].here /\ ~obj[o].del
  /\ obj' = [obj EXCEPT ![o].del = TRUE, ![o].here = obj[o].fin]
  /\ UNCHANGED <<seen, reps, boot, ext, ctl, conf, pool, edits, budget>>

\* The user scales the MachinePool, or the autoscaler the instance pool.
Scale(o) ==
  /\ Edit
  /\ \E n \in Size :
       \/ o \notin ext /\ n # reps[o] /\ reps' = [reps EXCEPT ![o] = n] /\ UNCHANGED pool
       \/ \E p \in DOMAIN pool :
            /\ o \in ext /\ pool[p].own = o /\ pool[p].state = "running" /\ n # pool[p].size
            /\ pool' = [pool EXCEPT ![p].size = n, ![p].state = "scaling"]
            /\ UNCHANGED reps
  /\ UNCHANGED <<obj, seen, boot, ext, ctl, conf, budget>>

Move(p, from, to) == pool[p].state = from /\ pool' = [pool EXCEPT ![p].state = to]

PoolSettles ==
  /\ \E p \in DOMAIN pool : \/ Move(p, "provisioning", "running")
                            \/ Move(p, "scaling", "running")
                            \/ Move(p, "terminating", "terminated")
  /\ UNCHANGED <<kube, ctl, conf, edits, budget>>

\* A terminated pool is no longer returned, hours later: no reconcile spans
\* that time, and no informer is that late.
PoolForgotten ==
  /\ \A o \in Obj : At(o, "idle") /\ seen[o] = obj[o]
  /\ \E p \in DOMAIN pool : Move(p, "terminated", "gone")
  /\ UNCHANGED <<kube, ctl, conf, edits, budget>>

\* Somebody stops or terminates a pool behind the controller's back.
Intervene ==
  /\ Spend
  /\ \E p \in DOMAIN pool, s \in {"stopped", "terminating"} : Move(p, "running", s)
  /\ UNCHANGED <<kube, ctl, conf, edits>>

Step(o) ==
  \/ Start(o) \/ Register(o) \/ FindForNormal(o) \/ FindForDelete(o)
  \/ TerminateInstancePool(o) \/ ReconcileInstanceConfiguration(o)
  \/ CreateInstanceConfiguration(o) \/ PatchConfId(o)
  \/ ListInstanceConfigurations(o) \/ DeleteOldConfiguration(o)
  \/ CreateInstancePool(o) \/ ReconcileMachines(o) \/ UpdatePool(o)
  \/ GetForDelete(o) \/ DeleteInstanceConfiguration(o) \/ Close(o)

Next ==
  \/ \E o \in Obj : \/ Step(o) \/ ApiError(o)
                    \/ Bootstrap(o) \/ Rotate(o) \/ Reconfigure(o) \/ Delete(o) \/ Scale(o)
  \/ Crash \/ PoolSettles \/ PoolForgotten \/ Intervene

Spec == Init /\ [][Next]_vars

(* The queue holds every object again after an error, a requeue, a watched *)
(* event or the informer's resync; the cloud finishes what it started; the *)
(* bootstrap provider delivers.                                            *)
FairSpec ==
  /\ Spec /\ WF_vars(PoolSettles)
  /\ \A o \in Obj : WF_vars(Step(o)) /\ WF_vars(Bootstrap(o))

-----------------------------------------------------------------------------
\* Objects, reconciles and cloud resources have their fields and ranges.
TypeOK ==
  /\ \A o \in Obj : \A x \in {obj[o], seen[o]} :
       /\ {x.here, x.del, x.fin, x.failed, x.ready} \subseteq BOOLEAN /\ x.cfg \in Cfg /\ x.place \in Place
       /\ x.ocid \in {0} \cup DOMAIN pool /\ x.icid \in {0} \cup DOMAIN conf
  /\ \A o \in Obj : ctl[o].pc \in Calls \cup {"idle", "register", "patchConf", "close"}
  /\ \A c \in DOMAIN conf : conf[c].own \in Obj /\ conf[c].live \in BOOLEAN
  /\ \A p \in DOMAIN pool : /\ pool[p].own \in Obj /\ pool[p].state \in PoolState
                            /\ pool[p].conf \in DOMAIN conf /\ pool[p].size \in Size
                            /\ pool[p].place \in Place
  /\ reps \in [Obj -> Size] /\ boot \in [Obj -> 0..(MaxEdits + 1)] /\ ext \subseteq Obj
  /\ edits \in 0..MaxEdits /\ budget \in 0..Budget

LivePools(o) == {p \in DOMAIN pool : pool[p].own = o /\ Live(pool[p])}
LiveConfs(o) == {c \in DOMAIN conf : conf[c].own = o /\ conf[c].live}

\* CreateInstancePool has no retry token and the new pool's OCID is recorded
\* only by a later reconcile; still no object gets a second pool.
OnePool == \A o \in Obj : Cardinality(LivePools(o)) <= 1

\* "Register the finalizer immediately to avoid orphaning OCI resources on
\* delete": an object that is gone leaves no pool and no configuration.
NoOrphan == \A o \in Obj : ~obj[o].here => LivePools(o) = {} /\ LiveConfs(o) = {}

\* The cleanups never delete the configuration that the object records: the
\* next GetInstanceConfiguration would fail for good.
RecordedConfLives ==
  \A o \in Obj : obj[o].icid # 0 /\ ~obj[o].del => conf[obj[o].icid].live

\* A configuration whose creation was not recorded (a crash, or a patch that
\* failed twice) is found by name and taken for the current one, but its ID is
\* not set: CreateInstancePool fails until the launch details change.
Stuck(o) ==
  /\ obj[o].icid = 0 /\ obj[o].ocid = 0 /\ LiveConfs(o) # {}
  /\ conf[Newest(LiveConfs(o))].want = <<obj[o].cfg, boot[o]>>

\* A pool that was terminated behind the controller's back and is no longer
\* returned is not created again.
Lost(o) == obj[o].ocid # 0 /\ pool[obj[o].ocid].state = "gone"

Settled(o) ==
  /\ obj[o].ready /\ obj[o].ocid # 0
  /\ LET p == pool[obj[o].ocid] IN
     /\ p.state = "running" /\ p.size = reps[o] /\ obj[o].place \in {0, p.place}
     /\ conf[p.conf].want = <<obj[o].cfg, boot[o]>> /\ LiveConfs(o) = {p.conf}

\* Once the edits end, the pool runs with the wanted size, placement and launch
\* details, and every older configuration has been deleted.
Converges ==
  \A o \in Obj : <>[](obj[o].del \/ obj[o].failed \/ Lost(o) \/ Stuck(o) \/ Settled(o))

\* The same without the exception: a configuration that exists is used.
NeverStuck == \A o \in Obj : <>[](obj[o].del \/ obj[o].failed \/ Lost(o) \/ Settled(o))

\* A deleted object goes away.
DeleteCompletes == \A o \in Obj : obj[o].del ~> ~obj[o].here
=============================================================================
