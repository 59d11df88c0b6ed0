----------------------- MODULE OCIMachineSafetyProofs -----------------------
(* Proofs that OCIMachine never has two instances and never orphans one.   *)
EXTENDS OCIMachineProofs

-----------------------------------------------------------------------------
(* Why there is never a second instance.  A launch needs mem.id = None and *)
(* no listed instance.  The object may already hold an OCID the reconcile  *)
(* did not see, but only one of an instance that is still listed: OCIDs    *)
(* that the three copies of the object disagree on are of listed           *)
(* instances, because an instance ages out only when nothing is in flight. *)

HasSeen == {"n_vol", "n_att", "n_state"}

UniqueInv ==
  /\ AtMostOneInstance
  /\ pc = "n_launch" => mem.id = None /\ \A i \in Instance : ~Listed(i)
  /\ \A i \in Instance : Listed(i) =>
       /\ obj.id \in {None, i} /\ cache.id \in {None, i}
       /\ mem.id \in {None, i} /\ seen.id \in {None, i}
  /\ \A i \in Instance : i \in {obj.id, cache.id, mem.id} => inst[i] # "absent"
  /\ obj.id # cache.id => obj.id # None /\ Listed(obj.id)
  /\ pc # "idle" /\ mem.id # cache.id => mem.id # None /\ Listed(mem.id)
  /\ pc = "idle" => mem.id = None /\ seen.id = None
  /\ seen.id # None => Listed(seen.id)
  /\ pc \in HasSeen => seen.id # None

(* Why no instance outlives the object.  The finalizer is stored before    *)
(* bootstrap data appears, so every launch happens under a stored          *)
(* finalizer; a cache that does not show the deletion means that the       *)
(* object still exists; and by the time the finalizer is dropped in memory *)
(* no instance is live.                                                    *)

NoLive == \A i \in Instance : ~Live(i)

OwnedInv ==
  /\ ~obj.exists => NoLive
  /\ ~boot => NoLive
  /\ boot /\ obj.exists => obj.fin
  /\ boot /\ cache.exists /\ ~cache.deleting => obj.exists
  /\ cache.deleting => obj.deleting
  /\ obj.exists /\ obj.deleting => obj.fin
  /\ cache.exists /\ cache.deleting => cache.fin
  /\ pc \in NormalPc => boot /\ cache.exists /\ ~cache.deleting
  /\ pc \in DeletePc => cache.deleting
  /\ pc \in {"d_vol", "d_fin"} => NoLive
  /\ pc \in {"d_lb", "d_del", "d_wr"} /\ mem.notfound => NoLive
  /\ pc = "d_get" => ~mem.notfound
  /\ pc \in NormalPc \cup DeletePc => mem.fin
  /\ pc \in {"patch", "status"} /\ ~mem.fin => cache.deleting /\ NoLive

-----------------------------------------------------------------------------
(* Fields of the records that the actions write.                           *)

LEMMA MemFields ==
  ASSUME NEW m \in MemRecord
  PROVE /\ [m EXCEPT !.requeue = TRUE].id = m.id
        /\ [m EXCEPT !.ready = FALSE].id = m.id
        /\ [m EXCEPT !.notfound = TRUE].id = m.id
        /\ [m EXCEPT !.fin = FALSE].id = m.id
        /\ Failed(m).id = m.id
        /\ \A i \in MaybeInstance : [m EXCEPT !.id = i].id = i
        /\ \A i \in MaybeInstance : [m EXCEPT !.addr = i].id = m.id
        /\ \A b \in BOOLEAN : [m EXCEPT !.ready = TRUE, !.requeue = b].id = m.id
  BY DEF MemRecord, Failed

SameFlags(m, n) == m.fin = n.fin /\ m.notfound = n.notfound

LEMMA MemFlags ==
  ASSUME NEW m \in MemRecord
  PROVE /\ SameFlags([m EXCEPT !.requeue = TRUE], m)
        /\ SameFlags([m EXCEPT !.ready = FALSE], m)
        /\ SameFlags(Failed(m), m)
        /\ \A i \in MaybeInstance : SameFlags([m EXCEPT !.id = i], m)
        /\ \A i \in MaybeInstance : SameFlags([m EXCEPT !.addr = i], m)
        /\ \A b \in BOOLEAN : SameFlags([m EXCEPT !.ready = TRUE, !.requeue = b], m)
        /\ [m EXCEPT !.notfound = TRUE].fin = m.fin
        /\ [m EXCEPT !.fin = FALSE].fin = FALSE
  BY DEF MemRecord, Failed, SameFlags

LEMMA StartFields ==
  ASSUME TypeOK, ReconcileStart
  PROVE /\ mem'.id = cache.id
        /\ mem'.fin = (cache.fin \/ ~cache.deleting)
        /\ mem'.notfound = FALSE
  BY DEF TypeOK, ObjectRecord, NoMem, ReconcileStart

LEMMA PatchFields ==
  ASSUME TypeOK
  PROVE /\ PatchedStatus.id = obj.id /\ PatchedStatus.fin = obj.fin
        /\ PatchedStatus.exists = obj.exists /\ PatchedStatus.deleting = obj.deleting
        /\ PatchedSpec.id = IF mem.id # cache.id THEN mem.id ELSE obj.id
        /\ PatchedSpec.fin = IF mem.fin # cache.fin THEN mem.fin ELSE obj.fin
        /\ PatchedSpec.deleting = obj.deleting
        /\ PatchedSpec.exists = ~(obj.deleting /\ ~PatchedSpec.fin)
  BY DEF TypeOK, ObjectRecord, MemRecord, PatchedStatus, PatchedSpec, Diff

LEMMA OtherFields ==
  ASSUME TypeOK
  PROVE /\ NoMem.id = None /\ NoSeen.id = None /\ NoObject.id = None
        /\ [obj EXCEPT !.deleting = TRUE].id = obj.id
        /\ [obj EXCEPT !.exists = FALSE].id = obj.id
  BY DEF TypeOK, ObjectRecord, NoMem, NoSeen, NoObject

-----------------------------------------------------------------------------
(* Steps that change neither an OCID nor what is listed.                   *)

SameKind(i) ==
  (Listed(i)' <=> Listed(i)) /\ (inst'[i] = "absent" <=> inst[i] = "absent")

SameIds ==
  /\ obj'.id = obj.id /\ cache'.id = cache.id
  /\ mem'.id = mem.id /\ seen'.id = seen.id
  /\ \A i \in Instance : SameKind(i)

LEMMA ListedUnchanged ==
  ASSUME inst' = inst
  PROVE \A i \in Instance : SameKind(i)
  BY DEF Listed, SameKind

LEMMA UniqueQuiet ==
  ASSUME TypeOK, UniqueInv, SameIds,
         pc' = pc \/ (pc # "idle" /\ pc' \notin {"idle", "n_launch"}
                        /\ (pc' \in HasSeen => pc \in HasSeen))
  PROVE UniqueInv'
<1>1. obj.id \in MaybeInstance /\ mem.id \in MaybeInstance /\ seen.id \in MaybeInstance
  BY DEF TypeOK, ObjectRecord, MemRecord, SeenRecord
<1>2. AtMostOneInstance'
  BY DEF SameIds, SameKind, UniqueInv, AtMostOneInstance
<1>3. (obj.id # None => Listed(obj.id)' = Listed(obj.id))
      /\ (mem.id # None => Listed(mem.id)' = Listed(mem.id))
      /\ (seen.id # None => Listed(seen.id)' = Listed(seen.id))
  BY <1>1 DEF SameIds, SameKind, MaybeInstance, Listed
<1> QED
  BY <1>1, <1>2, <1>3 DEF SameIds, SameKind, UniqueInv, HasSeen, MaybeInstance

\* The switch of reconcileNormal records the OCID of the instance it saw.
LEMMA UniqueRecord ==
  ASSUME TypeOK, UniqueInv, pc = "n_state",
         obj' = obj, cache' = cache, seen' = seen, inst' = inst,
         mem'.id = seen.id, pc' \notin {"idle", "n_launch"} \cup HasSeen
  PROVE UniqueInv'
  BY DEF TypeOK, SeenRecord, UniqueInv, AtMostOneInstance, Listed, HasSeen, MaybeInstance

-----------------------------------------------------------------------------
LEMMA UniqueInit == Init => UniqueInv
  BY NoneAssumption DEF Init, UniqueInv, AtMostOneInstance, Listed, NoObject, NoMem, NoSeen, HasSeen

LEMMA UniqueNext == TypeOK /\ UniqueInv /\ [Next]_vars => UniqueInv'
<1> SUFFICES ASSUME TypeOK, UniqueInv, [Next]_vars PROVE UniqueInv'
  OBVIOUS
<1>t. /\ mem \in MemRecord /\ inst \in [Instance -> InstanceState]
      /\ obj.id \in MaybeInstance /\ cache.id \in MaybeInstance
      /\ mem.id \in MaybeInstance /\ seen.id \in MaybeInstance
  BY DEF TypeOK, ObjectRecord, MemRecord, SeenRecord
<1>1. CASE LaunchNoCapacity
  BY <1>1, <1>t, UniqueQuiet, ListedUnchanged, MemFields
     DEF LaunchNoCapacity, SameIds, HasSeen, kube, api, cloud, Goto, Return, Fail, Reply
<1>2. CASE ReconcileBlockVolume
  BY <1>2, <1>t, UniqueQuiet, ListedUnchanged, MemFields
     DEF ReconcileBlockVolume, SameIds, HasSeen, kube, api, cloud, Goto, Return, Fail, Reply
<1>3. CASE EnsureAttached
  BY <1>3, <1>t, UniqueQuiet, ListedUnchanged, MemFields
     DEF EnsureAttached, SameIds, HasSeen, kube, api, cloud, Goto, Return, Fail, Reply
<1>4. CASE DeleteOwnerMachine
  BY <1>4, <1>t, UniqueQuiet, ListedUnchanged, MemFields
     DEF DeleteOwnerMachine, SameIds, HasSeen, kube, api, cloud, Goto, Return, Fail, Reply
<1>5. CASE GetInstanceIp
  <2>1. mem'.id = mem.id
    BY <1>5, <1>t DEF GetInstanceIp, Return, Fail, MemRecord
  <2> QED
    BY <1>5, <2>1, UniqueQuiet, ListedUnchanged
       DEF GetInstanceIp, SameIds, HasSeen, kube, api, cloud, Return, Fail, AfterIp, AfterLB
<1>6. CASE GetLBForCreate
  BY <1>6, <1>t, UniqueQuiet, ListedUnchanged, MemFields
     DEF GetLBForCreate, SameIds, HasSeen, kube, api, cloud, Goto, Return, Fail, Reply, AfterLB
<1>7. CASE CreateBackend
  BY <1>7, <1>t, UniqueQuiet, ListedUnchanged, MemFields
     DEF CreateBackend, SameIds, HasSeen, kube, api, cloud, Goto, Return, Fail, Reply
<1>8. CASE AwaitCreate
  BY <1>8, <1>t, UniqueQuiet, ListedUnchanged, MemFields
     DEF AwaitCreate, SameIds, HasSeen, kube, api, cloud, Goto, Return, Fail, Reply, AfterLB
<1>9. CASE ReconcileVnicAttachments
  BY <1>9, <1>t, UniqueQuiet, ListedUnchanged, MemFields
     DEF ReconcileVnicAttachments, SameIds, HasSeen, kube, api, cloud, Goto, Return, Fail, Reply
<1>10. CASE SetReady
  BY <1>10, <1>t, UniqueQuiet, ListedUnchanged, MemFields, FlagAssumption
     DEF SetReady, SameIds, HasSeen, kube, api, cloud, Goto, Return, Fail, Reply
<1>11. CASE GetLBForDelete
  BY <1>11, <1>t, UniqueQuiet, ListedUnchanged, MemFields
     DEF GetLBForDelete, SameIds, HasSeen, kube, api, cloud, Goto, Return, Fail, Reply, AfterDrain, AfterVolume
<1>12. CASE DeleteBackend
  BY <1>12, <1>t, UniqueQuiet, ListedUnchanged, MemFields
     DEF DeleteBackend, SameIds, HasSeen, kube, api, cloud, Goto, Return, Fail, Reply
<1>13. CASE AwaitDelete
  BY <1>13, <1>t, UniqueQuiet, ListedUnchanged, MemFields
     DEF AwaitDelete, SameIds, HasSeen, kube, api, cloud, Goto, Return, Fail, Reply, AfterDrain, AfterVolume
<1>14. CASE DetachVolume
  BY <1>14, <1>t, UniqueQuiet, ListedUnchanged, MemFields
     DEF DetachVolume, SameIds, HasSeen, kube, api, cloud, Goto, Return, Fail, Reply
<1>15. CASE DeleteBlockVolume
  BY <1>15, <1>t, UniqueQuiet, ListedUnchanged, MemFields
     DEF DeleteBlockVolume, SameIds, HasSeen, kube, api, cloud, Goto, Return, Fail, Reply
<1>16. CASE RemoveFinalizer
  BY <1>16, <1>t, UniqueQuiet, ListedUnchanged, MemFields
     DEF RemoveFinalizer, SameIds, HasSeen, kube, api, cloud, Goto, Return, Fail, Reply
<1>17. CASE ReconcileSkip
  BY <1>17, <1>t, UniqueQuiet, ListedUnchanged, MemFields
     DEF ReconcileSkip, SameIds, HasSeen, kube, api, cloud, Goto, Return, Fail, Reply
<1>18. CASE ApiError
  BY <1>18, <1>t, UniqueQuiet, ListedUnchanged, MemFields
     DEF ApiError, SameIds, HasSeen, kube, api, cloud, Goto, Return, Fail, Reply, NormalPc, DeletePc
<1>19. CASE Resync
  BY <1>19, <1>t, UniqueQuiet, ListedUnchanged, MemFields
     DEF Resync, SameIds, HasSeen, kube, api, cloud, Goto, Return, Fail, Reply
<1>20. CASE OpenGate
  BY <1>20, <1>t, UniqueQuiet, ListedUnchanged, MemFields
     DEF OpenGate, SameIds, HasSeen, kube, api, cloud, Goto, Return, Fail, Reply
<1>21. CASE CloseGate
  BY <1>21, <1>t, UniqueQuiet, ListedUnchanged, MemFields
     DEF CloseGate, SameIds, HasSeen, kube, api, cloud, Goto, Return, Fail, Reply
<1>22. CASE BootstrapReady
  BY <1>22, <1>t, UniqueQuiet, ListedUnchanged, MemFields
     DEF BootstrapReady, SameIds, HasSeen, kube, api, cloud, Goto, Return, Fail, Reply
<1>23. CASE UserDeletesMachine
  BY <1>23, <1>t, UniqueQuiet, ListedUnchanged, MemFields
     DEF UserDeletesMachine, SameIds, HasSeen, kube, api, cloud, Goto, Return, Fail, Reply
<1>24. CASE MachineControllerDeletes
  BY <1>24, <1>t, UniqueQuiet, ListedUnchanged, MemFields, OtherFields
     DEF MachineControllerDeletes, SameIds, HasSeen, kube, api, cloud, Goto, Return, Fail, Reply
<1>25. CASE VolumeStep
  BY <1>25, <1>t, UniqueQuiet, ListedUnchanged, MemFields
     DEF VolumeStep, SameIds, HasSeen, kube, api, cloud, Goto, Return, Fail, Reply
<1>26. CASE WorkRequestDone
  BY <1>26, <1>t, UniqueQuiet, ListedUnchanged, MemFields
     DEF WorkRequestDone, SameIds, HasSeen, kube, api, cloud, Goto, Return, Fail, Reply
<1>27. CASE WorkRequestFails
  BY <1>27, <1>t, UniqueQuiet, ListedUnchanged, MemFields
     DEF WorkRequestFails, SameIds, HasSeen, kube, api, cloud, Goto, Return, Fail, Reply
<1>53. CASE TokenExpires
  BY <1>53, <1>t, UniqueQuiet, ListedUnchanged, MemFields
     DEF TokenExpires, SameIds, HasSeen, kube, api, cloud
<1>28. CASE TerminateInstance
  <2>1. \A i \in Instance : SameKind(i)
    BY <1>28, <1>t DEF TerminateInstance, Listed, SameKind, Terminable, InstanceState
  <2> QED
    BY <1>28, <1>t, <2>1, UniqueQuiet, MemFields
       DEF TerminateInstance, SameIds, HasSeen, kube, api, Return, Fail
<1>29. ASSUME NEW k \in Instance, Provisioned(k) PROVE UniqueInv'
  <2>1. \A i \in Instance : SameKind(i)
    BY <1>29, <1>t DEF Provisioned, Becomes, OnlyInstances, Listed, SameKind, Terminable, InstanceState
  <2> QED
    BY <1>29, <2>1, UniqueQuiet DEF Provisioned, SameIds, OnlyInstances, kube, api
<1>30. ASSUME NEW k \in Instance, InstanceStarted(k) PROVE UniqueInv'
  <2>1. \A i \in Instance : SameKind(i)
    BY <1>30, <1>t DEF InstanceStarted, Becomes, OnlyInstances, Listed, SameKind, Terminable, InstanceState
  <2> QED
    BY <1>30, <2>1, UniqueQuiet DEF InstanceStarted, SameIds, OnlyInstances, kube, api
<1>31. ASSUME NEW k \in Instance, ImageDone(k) PROVE UniqueInv'
  <2>1. \A i \in Instance : SameKind(i)
    BY <1>31, <1>t DEF ImageDone, Becomes, OnlyInstances, Listed, SameKind, Terminable, InstanceState
  <2> QED
    BY <1>31, <2>1, UniqueQuiet DEF ImageDone, SameIds, OnlyInstances, kube, api
<1>32. ASSUME NEW k \in Instance, Terminated(k) PROVE UniqueInv'
  <2>1. \A i \in Instance : SameKind(i)
    BY <1>32, <1>t DEF Terminated, Becomes, OnlyInstances, Listed, SameKind, Terminable, InstanceState
  <2> QED
    BY <1>32, <2>1, UniqueQuiet DEF Terminated, SameIds, OnlyInstances, kube, api
<1>33. ASSUME NEW k \in Instance, ProvisioningFails(k) PROVE UniqueInv'
  <2>1. \A i \in Instance : SameKind(i)
    BY <1>33, <1>t DEF ProvisioningFails, Becomes, OnlyInstances, Listed, SameKind, Terminable, InstanceState
  <2> QED
    BY <1>33, <2>1, UniqueQuiet DEF ProvisioningFails, SameIds, OnlyInstances, kube, api
<1>34. ASSUME NEW k \in Instance, InstanceStopped(k) PROVE UniqueInv'
  <2>1. \A i \in Instance : SameKind(i)
    BY <1>34, <1>t DEF InstanceStopped, Becomes, OnlyInstances, Listed, SameKind, Terminable, InstanceState
  <2> QED
    BY <1>34, <2>1, UniqueQuiet DEF InstanceStopped, SameIds, OnlyInstances, kube, api
<1>35. ASSUME NEW k \in Instance, ImageStarted(k) PROVE UniqueInv'
  <2>1. \A i \in Instance : SameKind(i)
    BY <1>35, <1>t DEF ImageStarted, Becomes, OnlyInstances, Listed, SameKind, Terminable, InstanceState
  <2> QED
    BY <1>35, <2>1, UniqueQuiet DEF ImageStarted, SameIds, OnlyInstances, kube, api
<1>36. ASSUME NEW k \in Instance, TerminatedByOthers(k) PROVE UniqueInv'
  <2>1. \A i \in Instance : SameKind(i)
    BY <1>36, <1>t DEF TerminatedByOthers, Becomes, OnlyInstances, Listed, SameKind, Terminable, InstanceState
  <2> QED
    BY <1>36, <2>1, UniqueQuiet DEF TerminatedByOthers, SameIds, OnlyInstances, kube, api
<1>37. ASSUME NEW k \in Instance, AttachmentStep(k) PROVE UniqueInv'
  <2>1. \A i \in Instance : SameKind(i)
    BY <1>37, <1>t DEF AttachmentStep, Becomes, OnlyInstances, Listed, SameKind, Terminable, InstanceState
  <2> QED
    BY <1>37, <2>1, UniqueQuiet DEF AttachmentStep, SameIds, OnlyInstances, kube, api
<1>38. CASE ReconcileStart
  BY <1>38, <1>t, MemFields, StartFields, PatchFields, OtherFields
     DEF ReconcileStart, UniqueInv, AtMostOneInstance, Listed, MaybeInstance, HasSeen, kube, api, cloud, Goto, Return, Fail, Reply
<1>39. CASE GetForCreate
  <2> USE <1>39, <1>t DEF GetForCreate, kube, api, cloud
  <2>1. CASE NotFound /\ Fail /\ UNCHANGED seen
    BY <2>1, UniqueQuiet, ListedUnchanged, MemFields DEF SameIds, HasSeen, Return, Fail
  <2>2. CASE NoneFound /\ Goto("n_launch") /\ UNCHANGED seen
    BY <2>2 DEF NoneFound, Goto, UniqueInv, AtMostOneInstance, Listed, HasSeen
  <2>3. ASSUME NEW i \in Instance, Found(i), Saw(i), Goto(AfterInstance)
        PROVE UniqueInv'
    <3>1. Listed(i) /\ seen'.id = i
      BY <2>3 DEF Found, NotFound, Saw, Listed, UniqueInv
    <3> QED
      BY <2>3, <3>1, NoneAssumption
         DEF Goto, AfterInstance, UniqueInv, AtMostOneInstance, Listed, HasSeen
  <2> QED
    BY <2>1, <2>2, <2>3
<1>40. CASE Launch
  <2>1. PICK i \in Instance :
          /\ inst[i] = "absent"
          /\ inst' = [inst EXCEPT ![i] = "pending"]
          /\ seen' = [id |-> i, state |-> "pending"]
    BY <1>40 DEF Launch
  <2>2. mem.id = None /\ obj.id = None /\ cache.id = None
    BY <1>40, <1>t DEF Launch, UniqueInv, MaybeInstance
  <2>3. mem'.id = None /\ obj' = obj /\ cache' = cache
    BY <1>40, <1>t, <2>2, MemFields DEF Launch, Reply, Goto, Return, Fail, kube, api
  <2>4. pc' \notin {"idle", "n_launch"}
    BY <1>40 DEF Launch, Reply, Goto, Return, Fail, AfterInstance
  <2>5. \A j \in Instance : Listed(j)' <=> j = i
    BY <1>40, <1>t, <2>1 DEF Launch, Listed, UniqueInv
  <2>6. \A j \in Instance : inst'[j] = "absent" => inst[j] = "absent"
    BY <1>t, <2>1
  <2> QED
    BY <2>1, <2>2, <2>3, <2>4, <2>5, <2>6, NoneAssumption
       DEF UniqueInv, AtMostOneInstance, HasSeen
<1>41. CASE StatePending
  <2>1. WithId \in MemRecord /\ WithId.id = seen.id
    BY <1>t, MemUpdates, MemFields DEF WithId
  <2>2. mem'.id = seen.id
    BY <1>41, <2>1, MemFields DEF StatePending, Return
  <2> QED
    BY <1>41, <2>2, UniqueRecord DEF StatePending, Return, HasSeen, kube, api, cloud
<1>42. CASE StateStopped
  <2>1. WithId \in MemRecord /\ WithId.id = seen.id
    BY <1>t, MemUpdates, MemFields DEF WithId
  <2>2. mem'.id = seen.id
    BY <1>42, <2>1, MemFields DEF StateStopped, Return
  <2> QED
    BY <1>42, <2>2, UniqueRecord DEF StateStopped, Return, HasSeen, kube, api, cloud
<1>43. CASE StateRunning
  <2>1. WithId \in MemRecord /\ WithId.id = seen.id
    BY <1>t, MemUpdates, MemFields DEF WithId
  <2>2. mem'.id = seen.id
    BY <1>43, <2>1, MemFields DEF StateRunning, Return
  <2> QED
    BY <1>43, <2>2, UniqueRecord DEF StateRunning, Return, HasSeen, kube, api, cloud, AfterIp, AfterLB
<1>44. CASE StateTerminated
  <2>1. WithId \in MemRecord /\ WithId.id = seen.id
    BY <1>t, MemUpdates, MemFields DEF WithId
  <2>2. mem'.id = seen.id
    BY <1>44, <2>1, MemFields DEF StateTerminated, Return
  <2> QED
    BY <1>44, <2>2, UniqueRecord DEF StateTerminated, Return, HasSeen, kube, api, cloud
<1>45. CASE StateUnexpected
  <2>1. WithId \in MemRecord /\ WithId.id = seen.id
    BY <1>t, MemUpdates, MemFields DEF WithId
  <2>2. mem'.id = seen.id
    BY <1>45, <2>1, MemFields DEF StateUnexpected, Return
  <2> QED
    BY <1>45, <2>2, UniqueRecord DEF StateUnexpected, Return, HasSeen, kube, api, cloud
<1>46. CASE GetForDelete
  <2> USE <1>46, <1>t DEF GetForDelete, kube, api, cloud
  <2>1. /\ mem'.id = mem.id
        /\ pc' \notin {"idle", "n_launch"} \cup HasSeen
    BY MemFields DEF Goto, Return, Fail, AfterVolume, AfterDrain, HasSeen
  <2>2. CASE UNCHANGED seen
    BY <2>1, <2>2, UniqueQuiet, ListedUnchanged DEF SameIds
  <2>3. ASSUME NEW i \in Instance, Found(i), Saw(i)
        PROVE UniqueInv'
    <3>1. Listed(i) /\ seen'.id = i
      BY <2>3 DEF Found, NotFound, Saw, Listed, UniqueInv
    <3> QED
      BY <2>1, <3>1, NoneAssumption
         DEF UniqueInv, AtMostOneInstance, Listed, HasSeen
  <2> QED
    BY <2>2, <2>3
<1>47. CASE PatchSpec
  <2>1. /\ cache' = cache /\ seen' = seen /\ inst' = inst /\ mem'.id = mem.id
        /\ pc = "patch" /\ pc' = "status"
    BY <1>47, <1>t, MemFields DEF PatchSpec, kube, api, cloud
  <2>2. CASE obj'.id = obj.id
    BY <2>1, <2>2, UniqueQuiet, ListedUnchanged DEF SameIds, HasSeen
  <2>3. CASE mem.id # cache.id /\ obj'.id = mem.id
    BY <1>t, <2>1, <2>3
       DEF UniqueInv, AtMostOneInstance, Listed, HasSeen, MaybeInstance
  <2> QED
    BY <1>47, <2>2, <2>3, PatchFields DEF PatchSpec
<1>48. CASE PatchStatus
  <2>1. /\ obj'.id = obj.id /\ cache' = cache /\ inst' = inst
        /\ mem'.id = None /\ seen'.id = None /\ pc' = "idle"
    BY <1>48, PatchFields, OtherFields DEF PatchStatus, cloud
  <2> QED
    BY <1>t, <2>1, NoneAssumption
       DEF UniqueInv, AtMostOneInstance, Listed, MaybeInstance, HasSeen
<1>49. CASE CacheSync
  BY <1>49, <1>t, MemFields, StartFields, PatchFields, OtherFields
     DEF CacheSync, UniqueInv, AtMostOneInstance, Listed, MaybeInstance, HasSeen, kube, api, cloud, Goto, Return, Fail, Reply
<1>50. CASE Crash
  BY <1>50, <1>t, OtherFields, NoneAssumption
     DEF Crash, UniqueInv, AtMostOneInstance, Listed, MaybeInstance, HasSeen, cloud
<1>51. ASSUME NEW k \in Instance, AgesOut(k) PROVE UniqueInv'
  BY <1>51, <1>t DEF AgesOut, Becomes, UniqueInv, AtMostOneInstance, Listed, MaybeInstance, HasSeen, kube, api
<1>52. CASE UNCHANGED vars
  BY <1>52, UniqueQuiet, ListedUnchanged DEF vars, SameIds, kube, api, cloud
<1> QED
  BY <1>1, <1>2, <1>3, <1>4, <1>5, <1>6, <1>7, <1>8, <1>9, <1>10, <1>11, <1>12, <1>13, <1>14, <1>15, <1>16, <1>17, <1>18, <1>19, <1>20, <1>21, <1>22, <1>23, <1>24, <1>25, <1>26, <1>27, <1>28, <1>29, <1>30, <1>31, <1>32, <1>33, <1>34, <1>35, <1>36, <1>37, <1>38, <1>39, <1>40, <1>41, <1>42, <1>43, <1>44, <1>45, <1>46, <1>47, <1>48, <1>49, <1>50, <1>51, <1>52, <1>53
     DEF Next, Controller, ReconcileNormal, ReconcileDelete, Kubernetes, Cloud,
         InstanceProgress, InstanceDisturbed

\* Spec => []AtMostOneInstance: through crashes, lost replies and stale caches
\* the controller never has two instances for one OCIMachine.
THEOREM OneInstance == Spec => []AtMostOneInstance
<1>1. UniqueInv => AtMostOneInstance
  BY DEF UniqueInv
<1> QED
  BY TypeInit, TypeNext, UniqueInit, UniqueNext, <1>1, PTL DEF Spec

\* The recorded OCID is never replaced: the deferred Close writes the OCID of
\* a listed instance, and a listed instance is the recorded one.
THEOREM IdSticky == Spec => InstanceIdSticky
<1>1. TypeOK /\ UniqueInv /\ [Next]_vars => [obj.id # None => obj'.id = obj.id]_vars
  <2> SUFFICES ASSUME TypeOK, UniqueInv, Next, obj.id # None PROVE obj'.id = obj.id
    BY DEF vars
  <2>1. CASE PatchSpec
    <3>1. CASE mem.id # cache.id
      BY <2>1, <3>1, PatchFields DEF PatchSpec, UniqueInv, TypeOK, MemRecord, MaybeInstance
    <3> QED
      BY <2>1, <3>1, PatchFields DEF PatchSpec
  <2>2. CASE PatchStatus
    BY <2>2, PatchFields DEF PatchStatus
  <2>3. CASE MachineControllerDeletes
    BY <2>3, OtherFields DEF MachineControllerDeletes
  <2>4. CASE ReconcileNormal \/ ReconcileDelete
    BY <2>4
       DEF ReconcileNormal, GetForCreate, Launch, LaunchNoCapacity,
           ReconcileBlockVolume, EnsureAttached, StatePending, StateStopped,
           StateRunning, StateTerminated, StateUnexpected, DeleteOwnerMachine,
           GetInstanceIp, GetLBForCreate, CreateBackend, AwaitCreate,
           ReconcileVnicAttachments, SetReady, ReconcileDelete, GetForDelete,
           GetLBForDelete, DeleteBackend, AwaitDelete, DetachVolume,
           TerminateInstance, DeleteBlockVolume, RemoveFinalizer, kube, api
  <2>5. CASE Cloud
    BY <2>5
       DEF Cloud, InstanceProgress, InstanceDisturbed, Provisioned, InstanceStarted,
           ImageDone, Terminated, ProvisioningFails, InstanceStopped, ImageStarted,
           TerminatedByOthers, AgesOut, AttachmentStep, VolumeStep,
           WorkRequestDone, WorkRequestFails, TokenExpires, OnlyInstances, kube, api
  <2>6. CASE \/ ReconcileSkip \/ ReconcileStart \/ ApiError \/ CacheSync \/ Resync
             \/ OpenGate \/ CloseGate \/ BootstrapReady \/ UserDeletesMachine \/ Crash
    BY <2>6
       DEF ReconcileSkip, ReconcileStart, ApiError, CacheSync, Resync, OpenGate,
           CloseGate, BootstrapReady, UserDeletesMachine, Crash, kube, api
  <2> QED
    BY <2>1, <2>2, <2>3, <2>4, <2>5, <2>6 DEF Next, Controller, Kubernetes
<1> QED
  BY TypeInit, TypeNext, UniqueInit, UniqueNext, <1>1, PTL
     DEF Spec, InstanceIdSticky

-----------------------------------------------------------------------------
(* No orphaned instance.                                                   *)

LEMMA NoLiveUnchanged ==
  ASSUME inst' = inst
  PROVE NoLive => NoLive'
  BY DEF NoLive, Live

\* A step within a reconcile that neither launches nor drops the finalizer.
LEMMA OwnedQuiet ==
  ASSUME TypeOK, OwnedInv,
         obj' = obj, cache' = cache, boot' = boot,
         NoLive => NoLive', SameFlags(mem', mem),
         \/ pc' = pc
         \/ pc \in NormalPc /\ pc' \in NormalPc \cup {"patch"}
         \/ /\ pc \in DeletePc /\ pc' \in (DeletePc \ {"d_get"}) \cup {"patch"}
            /\ pc' \in {"d_vol", "d_fin"} => NoLive
            /\ pc' \in {"d_lb", "d_del", "d_wr"} /\ mem'.notfound => NoLive
         \/ pc = "patch" /\ pc' = "status"
  PROVE OwnedInv'
  BY DEF OwnedInv, NormalPc, DeletePc, SameFlags

LEMMA OwnedInit == Init => OwnedInv
  BY DEF Init, OwnedInv, NoLive, Live, NoObject, NormalPc, DeletePc

LEMMA OwnedNext ==
  FinalizerFirst /\ TypeOK /\ UniqueInv /\ OwnedInv /\ [Next]_vars => OwnedInv'
<1> SUFFICES ASSUME FinalizerFirst, TypeOK, UniqueInv, OwnedInv, [Next]_vars
             PROVE OwnedInv'
  OBVIOUS
<1>t. /\ mem \in MemRecord /\ inst \in [Instance -> InstanceState]
      /\ mem.id \in MaybeInstance /\ seen.id \in MaybeInstance
  BY DEF TypeOK, MemRecord, SeenRecord
<1>s. SameFlags(mem, mem)
  BY DEF SameFlags
<1>1. CASE GetForCreate
  BY <1>1, <1>t, <1>s, OwnedQuiet, NoLiveUnchanged, MemFlags
     DEF GetForCreate, NormalPc, DeletePc, kube, api, cloud, Goto, Return, Fail, Reply, AfterInstance
<1>2. CASE LaunchNoCapacity
  BY <1>2, <1>t, <1>s, OwnedQuiet, NoLiveUnchanged, MemFlags
     DEF LaunchNoCapacity, NormalPc, DeletePc, kube, api, cloud, Goto, Return, Fail, Reply
<1>3. CASE ReconcileBlockVolume
  BY <1>3, <1>t, <1>s, OwnedQuiet, NoLiveUnchanged, MemFlags
     DEF ReconcileBlockVolume, NormalPc, DeletePc, kube, api, cloud, Goto, Return, Fail, Reply
<1>4. CASE EnsureAttached
  BY <1>4, <1>t, <1>s, OwnedQuiet, NoLiveUnchanged, MemFlags
     DEF EnsureAttached, NormalPc, DeletePc, kube, api, cloud, Goto, Return, Fail, Reply
<1>5. CASE DeleteOwnerMachine
  BY <1>5, <1>t, <1>s, OwnedQuiet, NoLiveUnchanged, MemFlags
     DEF DeleteOwnerMachine, NormalPc, DeletePc, kube, api, cloud, Goto, Return, Fail, Reply
<1>6. CASE GetLBForCreate
  BY <1>6, <1>t, <1>s, OwnedQuiet, NoLiveUnchanged, MemFlags
     DEF GetLBForCreate, NormalPc, DeletePc, kube, api, cloud, Goto, Return, Fail, Reply, AfterLB
<1>7. CASE CreateBackend
  BY <1>7, <1>t, <1>s, OwnedQuiet, NoLiveUnchanged, MemFlags
     DEF CreateBackend, NormalPc, DeletePc, kube, api, cloud, Goto, Return, Fail, Reply
<1>8. CASE AwaitCreate
  BY <1>8, <1>t, <1>s, OwnedQuiet, NoLiveUnchanged, MemFlags
     DEF AwaitCreate, NormalPc, DeletePc, kube, api, cloud, Goto, Return, Fail, Reply, AfterLB
<1>9. CASE ReconcileVnicAttachments
  BY <1>9, <1>t, <1>s, OwnedQuiet, NoLiveUnchanged, MemFlags
     DEF ReconcileVnicAttachments, NormalPc, DeletePc, kube, api, cloud, Goto, Return, Fail, Reply
<1>10. CASE SetReady
  BY <1>10, <1>t, <1>s, OwnedQuiet, NoLiveUnchanged, MemFlags, FlagAssumption
     DEF SetReady, NormalPc, DeletePc, kube, api, cloud, Goto, Return, Fail, Reply
<1>11. CASE GetLBForDelete
  BY <1>11, <1>t, <1>s, OwnedQuiet, NoLiveUnchanged, MemFlags
     DEF GetLBForDelete, NormalPc, DeletePc, kube, api, cloud, Goto, Return, Fail, Reply, AfterDrain, AfterVolume, OwnedInv
<1>12. CASE DeleteBackend
  <2>1. /\ obj' = obj /\ cache' = cache /\ boot' = boot /\ inst' = inst
        /\ SameFlags(mem', mem) /\ pc \in {"d_del", "d_wr"}
        /\ pc' \in {"d_wr", "patch"}
    BY <1>12, <1>t, <1>s, MemFlags
       DEF DeleteBackend, Goto, Return, Fail, Reply, kube, api, cloud
  <2>2. mem'.notfound = mem.notfound
    BY <2>1 DEF SameFlags
  <2>3. pc \in {"d_del", "d_wr"} /\ mem.notfound => NoLive
    BY DEF OwnedInv
  <2>4. pc \in DeletePc /\ pc' \in (DeletePc \ {"d_get"}) \cup {"patch"}
    BY <2>1 DEF DeletePc, AfterDrain, AfterVolume
  <2>5. pc' \in {"d_vol", "d_fin"} => mem.notfound
    BY <2>1 DEF AfterDrain
  <2> QED
    BY <2>1, <2>2, <2>3, <2>4, <2>5, OwnedQuiet, NoLiveUnchanged
<1>13. CASE AwaitDelete
  <2>1. /\ obj' = obj /\ cache' = cache /\ boot' = boot /\ inst' = inst
        /\ SameFlags(mem', mem) /\ pc \in {"d_del", "d_wr"}
        /\ pc' \in {AfterDrain, "patch"}
    BY <1>13, <1>t, <1>s, MemFlags
       DEF AwaitDelete, Goto, Return, Fail, Reply, kube, api, cloud
  <2>2. mem'.notfound = mem.notfound
    BY <2>1 DEF SameFlags
  <2>3. pc \in {"d_del", "d_wr"} /\ mem.notfound => NoLive
    BY DEF OwnedInv
  <2>4. pc \in DeletePc /\ pc' \in (DeletePc \ {"d_get"}) \cup {"patch"}
    BY <2>1 DEF DeletePc, AfterDrain, AfterVolume
  <2>5. pc' \in {"d_vol", "d_fin"} => mem.notfound
    BY <2>1 DEF AfterDrain
  <2> QED
    BY <2>1, <2>2, <2>3, <2>4, <2>5, OwnedQuiet, NoLiveUnchanged
<1>14. CASE DetachVolume
  BY <1>14, <1>t, <1>s, OwnedQuiet, NoLiveUnchanged, MemFlags
     DEF DetachVolume, NormalPc, DeletePc, kube, api, cloud, Goto, Return, Fail, Reply
<1>15. CASE DeleteBlockVolume
  BY <1>15, <1>t, <1>s, OwnedQuiet, NoLiveUnchanged, MemFlags
     DEF DeleteBlockVolume, NormalPc, DeletePc, kube, api, cloud, Goto, Return, Fail, Reply, OwnedInv
<1>16. CASE ReconcileSkip
  BY <1>16, <1>t, <1>s, OwnedQuiet, NoLiveUnchanged, MemFlags
     DEF ReconcileSkip, NormalPc, DeletePc, kube, api, cloud, Goto, Return, Fail, Reply
<1>17. CASE ApiError
  BY <1>17, <1>t, <1>s, OwnedQuiet, NoLiveUnchanged, MemFlags
     DEF ApiError, NormalPc, DeletePc, kube, api, cloud, Goto, Return, Fail, Reply
<1>18. CASE Resync
  BY <1>18, <1>t, <1>s, OwnedQuiet, NoLiveUnchanged, MemFlags
     DEF Resync, NormalPc, DeletePc, kube, api, cloud, Goto, Return, Fail, Reply
<1>19. CASE OpenGate
  BY <1>19, <1>t, <1>s, OwnedQuiet, NoLiveUnchanged, MemFlags
     DEF OpenGate, NormalPc, DeletePc, kube, api, cloud, Goto, Return, Fail, Reply
<1>20. CASE CloseGate
  BY <1>20, <1>t, <1>s, OwnedQuiet, NoLiveUnchanged, MemFlags
     DEF CloseGate, NormalPc, DeletePc, kube, api, cloud, Goto, Return, Fail, Reply
<1>21. CASE UserDeletesMachine
  BY <1>21, <1>t, <1>s, OwnedQuiet, NoLiveUnchanged, MemFlags
     DEF UserDeletesMachine, NormalPc, DeletePc, kube, api, cloud, Goto, Return, Fail, Reply
<1>22. CASE VolumeStep
  BY <1>22, <1>t, <1>s, OwnedQuiet, NoLiveUnchanged, MemFlags
     DEF VolumeStep, NormalPc, DeletePc, kube, api, cloud, Goto, Return, Fail, Reply
<1>23. CASE WorkRequestDone
  BY <1>23, <1>t, <1>s, OwnedQuiet, NoLiveUnchanged, MemFlags
     DEF WorkRequestDone, NormalPc, DeletePc, kube, api, cloud, Goto, Return, Fail, Reply
<1>24. CASE WorkRequestFails
  BY <1>24, <1>t, <1>s, OwnedQuiet, NoLiveUnchanged, MemFlags
     DEF WorkRequestFails, NormalPc, DeletePc, kube, api, cloud, Goto, Return, Fail, Reply
<1>53. CASE TokenExpires
  BY <1>53, <1>t, <1>s, OwnedQuiet, NoLiveUnchanged, MemFlags
     DEF TokenExpires, NormalPc, DeletePc, kube, api, cloud
<1>25. CASE StatePending
  <2>1. WithId \in MemRecord /\ SameFlags(WithId, mem)
    BY <1>t, MemUpdates, MemFlags DEF WithId
  <2>2. SameFlags(mem', mem)
    BY <1>25, <2>1, MemFlags DEF StatePending, Return, SameFlags
  <2> QED
    BY <1>25, <2>2, OwnedQuiet, NoLiveUnchanged
       DEF StatePending, NormalPc, DeletePc, Return, kube, api, cloud
<1>26. CASE StateStopped
  <2>1. WithId \in MemRecord /\ SameFlags(WithId, mem)
    BY <1>t, MemUpdates, MemFlags DEF WithId
  <2>2. SameFlags(mem', mem)
    BY <1>26, <2>1, MemFlags DEF StateStopped, Return, SameFlags
  <2> QED
    BY <1>26, <2>2, OwnedQuiet, NoLiveUnchanged
       DEF StateStopped, NormalPc, DeletePc, Return, kube, api, cloud
<1>27. CASE StateRunning
  <2>1. WithId \in MemRecord /\ SameFlags(WithId, mem)
    BY <1>t, MemUpdates, MemFlags DEF WithId
  <2>2. SameFlags(mem', mem)
    BY <1>27, <2>1, MemFlags DEF StateRunning, Return, SameFlags
  <2> QED
    BY <1>27, <2>2, OwnedQuiet, NoLiveUnchanged
       DEF StateRunning, NormalPc, DeletePc, Return, kube, api, cloud, AfterIp, AfterLB
<1>28. CASE StateTerminated
  <2>1. WithId \in MemRecord /\ SameFlags(WithId, mem)
    BY <1>t, MemUpdates, MemFlags DEF WithId
  <2>2. SameFlags(mem', mem)
    BY <1>28, <2>1, MemFlags DEF StateTerminated, Return, SameFlags
  <2> QED
    BY <1>28, <2>2, OwnedQuiet, NoLiveUnchanged
       DEF StateTerminated, NormalPc, DeletePc, Return, kube, api, cloud
<1>29. CASE StateUnexpected
  <2>1. WithId \in MemRecord /\ SameFlags(WithId, mem)
    BY <1>t, MemUpdates, MemFlags DEF WithId
  <2>2. SameFlags(mem', mem)
    BY <1>29, <2>1, MemFlags DEF StateUnexpected, Return, SameFlags
  <2> QED
    BY <1>29, <2>2, OwnedQuiet, NoLiveUnchanged
       DEF StateUnexpected, NormalPc, DeletePc, Return, kube, api, cloud
<1>30. CASE GetInstanceIp
  <2>1. SameFlags(mem', mem)
    BY <1>30, <1>t DEF GetInstanceIp, Return, Fail, MemRecord, SameFlags
  <2> QED
    BY <1>30, <2>1, OwnedQuiet, NoLiveUnchanged
       DEF GetInstanceIp, NormalPc, DeletePc, Return, Fail, AfterIp, AfterLB, kube, api, cloud
<1>31. CASE TerminateInstance
  <2>1. NoLive => NoLive'
    BY <1>31, <1>t DEF TerminateInstance, NoLive, Live, Terminable
  <2> QED
    BY <1>31, <1>t, <2>1, OwnedQuiet, MemFlags
       DEF TerminateInstance, NormalPc, DeletePc, Return, Fail, kube, api
<1>32. ASSUME NEW k \in Instance, Provisioned(k) PROVE OwnedInv'
  <2>1. NoLive => NoLive'
    BY <1>32, <1>t DEF Provisioned, Becomes, OnlyInstances, NoLive, Live, Terminable
  <2> QED
    BY <1>32, <1>s, <2>1, OwnedQuiet DEF Provisioned, OnlyInstances, kube, api
<1>33. ASSUME NEW k \in Instance, InstanceStarted(k) PROVE OwnedInv'
  <2>1. NoLive => NoLive'
    BY <1>33, <1>t DEF InstanceStarted, Becomes, OnlyInstances, NoLive, Live, Terminable
  <2> QED
    BY <1>33, <1>s, <2>1, OwnedQuiet DEF InstanceStarted, OnlyInstances, kube, api
<1>34. ASSUME NEW k \in Instance, ImageDone(k) PROVE OwnedInv'
  <2>1. NoLive => NoLive'
    BY <1>34, <1>t DEF ImageDone, Becomes, OnlyInstances, NoLive, Live, Terminable
  <2> QED
    BY <1>34, <1>s, <2>1, OwnedQuiet DEF ImageDone, OnlyInstances, kube, api
<1>35. ASSUME NEW k \in Instance, Terminated(k) PROVE OwnedInv'
  <2>1. NoLive => NoLive'
    BY <1>35, <1>t DEF Terminated, Becomes, OnlyInstances, NoLive, Live, Terminable
  <2> QED
    BY <1>35, <1>s, <2>1, OwnedQuiet DEF Terminated, OnlyInstances, kube, api
<1>36. ASSUME NEW k \in Instance, ProvisioningFails(k) PROVE OwnedInv'
  <2>1. NoLive => NoLive'
    BY <1>36, <1>t DEF ProvisioningFails, Becomes, OnlyInstances, NoLive, Live, Terminable
  <2> QED
    BY <1>36, <1>s, <2>1, OwnedQuiet DEF ProvisioningFails, OnlyInstances, kube, api
<1>37. ASSUME NEW k \in Instance, InstanceStopped(k) PROVE OwnedInv'
  <2>1. NoLive => NoLive'
    BY <1>37, <1>t DEF InstanceStopped, Becomes, OnlyInstances, NoLive, Live, Terminable
  <2> QED
    BY <1>37, <1>s, <2>1, OwnedQuiet DEF InstanceStopped, OnlyInstances, kube, api
<1>38. ASSUME NEW k \in Instance, ImageStarted(k) PROVE OwnedInv'
  <2>1. NoLive => NoLive'
    BY <1>38, <1>t DEF ImageStarted, Becomes, OnlyInstances, NoLive, Live, Terminable
  <2> QED
    BY <1>38, <1>s, <2>1, OwnedQuiet DEF ImageStarted, OnlyInstances, kube, api
<1>39. ASSUME NEW k \in Instance, TerminatedByOthers(k) PROVE OwnedInv'
  <2>1. NoLive => NoLive'
    BY <1>39, <1>t DEF TerminatedByOthers, Becomes, OnlyInstances, NoLive, Live, Terminable
  <2> QED
    BY <1>39, <1>s, <2>1, OwnedQuiet DEF TerminatedByOthers, OnlyInstances, kube, api
<1>40. ASSUME NEW k \in Instance, AgesOut(k) PROVE OwnedInv'
  <2>1. NoLive => NoLive'
    BY <1>40, <1>t DEF AgesOut, Becomes, OnlyInstances, NoLive, Live, Terminable
  <2> QED
    BY <1>40, <1>s, <2>1, OwnedQuiet DEF AgesOut, OnlyInstances, kube, api
<1>41. ASSUME NEW k \in Instance, AttachmentStep(k) PROVE OwnedInv'
  <2>1. NoLive => NoLive'
    BY <1>41, <1>t DEF AttachmentStep, Becomes, OnlyInstances, NoLive, Live, Terminable
  <2> QED
    BY <1>41, <1>s, <2>1, OwnedQuiet DEF AttachmentStep, OnlyInstances, kube, api
<1>42. CASE ReconcileStart
  BY <1>42, StartFields
     DEF ReconcileStart, OwnedInv, NoLive, Live, NormalPc, DeletePc, kube, api, cloud
<1>43. CASE Launch
  <2>1. SameFlags(mem', mem)
    BY <1>43, <1>t, <1>s, MemFlags DEF Launch, Reply, Goto, Return, Fail
  <2>2. /\ boot /\ cache.exists /\ ~cache.deleting /\ obj.exists /\ mem.fin
        /\ (boot /\ obj.exists => obj.fin)
    BY <1>43 DEF Launch, OwnedInv, NormalPc
  <2>3. pc' \in {"n_vol", "n_state", "patch"}
    BY <1>43 DEF Launch, Reply, Goto, Return, Fail, AfterInstance
  <2>4. obj' = obj /\ cache' = cache /\ boot' = boot
    BY <1>43 DEF Launch, kube, api
  <2>5. mem'.fin
    BY <2>1, <2>2 DEF SameFlags
  <2> QED
    BY <2>2, <2>3, <2>4, <2>5 DEF OwnedInv, NormalPc, DeletePc
<1>44. CASE GetForDelete
  <2>a. /\ obj' = obj /\ cache' = cache /\ boot' = boot /\ inst' = inst /\ pc = "d_get"
        /\ mem' \in {mem, [mem EXCEPT !.requeue = TRUE], [mem EXCEPT !.notfound = TRUE]}
    BY <1>44 DEF GetForDelete, Goto, Return, Fail, kube, api, cloud
  <2>b. mem'.fin = mem.fin
    BY <2>a, <1>t, MemFlags DEF SameFlags
  <2>c. mem.fin /\ ~mem.notfound
    BY <2>a DEF OwnedInv, DeletePc
  <2>1. /\ obj' = obj /\ cache' = cache /\ boot' = boot /\ inst' = inst
        /\ pc = "d_get" /\ mem'.fin = mem.fin /\ mem.fin /\ ~mem.notfound
    BY <2>a, <2>b, <2>c
  <2>2. \A i, j \in Instance : Listed(i) /\ Listed(j) => i = j
    BY DEF UniqueInv, AtMostOneInstance
  <2>3. \A i \in Instance : Listed(i) => mem.id \in {None, i}
    BY DEF UniqueInv
  <2>4. NoLive => NoLive'
    BY <2>1, NoLiveUnchanged
  <2>5. ASSUME NoLive, pc' \in {"d_lb", "d_vol", "d_fin", "patch"} PROVE OwnedInv'
    BY <2>1, <2>4, <2>5 DEF OwnedInv, NormalPc, DeletePc
  <2>6. ASSUME SameFlags(mem', mem), pc' \in {"d_lb", "d_detach", "d_term", "patch"}
        PROVE OwnedInv'
    BY <2>1, <2>4, <2>6 DEF OwnedInv, NormalPc, DeletePc, SameFlags
  <2>7. CASE NotFound /\ pc' = IF ControlPlane THEN "d_lb" ELSE AfterVolume
    <3>1. NoLive
      BY <2>3, <2>7, <1>t DEF NotFound, NoLive, Live, Listed, MaybeInstance
    <3> QED
      BY <2>5, <2>7, <3>1 DEF AfterVolume
  <2>8. CASE NoneFound /\ pc' = "d_fin"
    BY <2>5, <2>8 DEF NoneFound, NoLive, Live, Listed
  <2>9. ASSUME NEW i \in Instance, Found(i), inst[i] = "terminated", pc' = AfterVolume
        PROVE OwnedInv'
    <3>1. NoLive
      BY <2>2, <2>9 DEF NoLive, Live, Listed
    <3> QED
      BY <2>5, <2>9, <3>1 DEF AfterVolume
  <2>10. CASE Fail
    BY <2>6, <2>10, <1>t, MemFlags DEF Fail, Return
  <2>11. CASE Goto(IF ControlPlane THEN "d_lb" ELSE AfterDrain)
    <3>1. mem' = mem /\ pc' \in {"d_lb", "d_detach", "d_term"}
      BY <2>1, <2>11 DEF Goto, AfterDrain
    <3> QED
      BY <2>6, <3>1, <1>s
  <2> QED
    BY <1>44, <2>7, <2>8, <2>9, <2>10, <2>11 DEF GetForDelete, Goto
<1>45. CASE RemoveFinalizer
  BY <1>45, <1>t, MemFlags
     DEF RemoveFinalizer, OwnedInv, NoLive, Live, NormalPc, DeletePc, Return, kube, api, cloud
<1>46. CASE PatchSpec
  <2>1. /\ cache' = cache /\ boot' = boot /\ inst' = inst /\ pc = "patch" /\ pc' = "status"
        /\ SameFlags(mem', mem)
    BY <1>46, <1>t, <1>s, MemFlags DEF PatchSpec, cloud
  <2>2. CASE obj' = obj
    BY <2>1, <2>2, OwnedQuiet, NoLiveUnchanged
  <2>3. CASE obj.exists /\ obj' = PatchedSpec
    BY <2>1, <2>3, PatchFields
       DEF OwnedInv, NoLive, Live, NormalPc, DeletePc, SameFlags, TypeOK, ObjectRecord, MemRecord
  <2> QED
    BY <1>46, <2>2, <2>3 DEF PatchSpec
<1>47. CASE PatchStatus
  <2>1. /\ obj'.exists = obj.exists /\ obj'.deleting = obj.deleting /\ obj'.fin = obj.fin
        /\ cache' = cache /\ boot' = boot /\ inst' = inst /\ pc' = "idle"
    BY <1>47, PatchFields DEF PatchStatus, cloud
  <2> QED
    BY <2>1 DEF OwnedInv, NoLive, Live, NormalPc, DeletePc
<1>48. CASE CacheSync
  BY <1>48 DEF CacheSync, OwnedInv, NoLive, Live, NormalPc, DeletePc, cloud
<1>49. CASE Crash
  BY <1>49 DEF Crash, OwnedInv, NoLive, Live, NormalPc, DeletePc, cloud
<1>50. CASE BootstrapReady
  BY <1>50 DEF BootstrapReady, OwnedInv, NoLive, Live, NormalPc, DeletePc, cloud
<1>51. CASE MachineControllerDeletes
  <2>1. \/ obj.fin /\ obj'.exists = obj.exists /\ obj'.fin = obj.fin /\ obj'.deleting
        \/ ~obj.fin /\ ~obj'.exists /\ obj'.deleting = obj.deleting
    BY <1>51 DEF MachineControllerDeletes, TypeOK, ObjectRecord
  <2> QED
    BY <1>51, <2>1
       DEF MachineControllerDeletes, OwnedInv, NoLive, Live, NormalPc, DeletePc, cloud
<1>52. CASE UNCHANGED vars
  BY <1>52, <1>s, OwnedQuiet, NoLiveUnchanged DEF vars, kube, api, cloud
<1> QED
  BY <1>1, <1>2, <1>3, <1>4, <1>5, <1>6, <1>7, <1>8, <1>9, <1>10, <1>11, <1>12, <1>13, <1>14, <1>15, <1>16, <1>17, <1>18, <1>19, <1>20, <1>21, <1>22, <1>23, <1>24, <1>25, <1>26, <1>27, <1>28, <1>29, <1>30, <1>31, <1>32, <1>33, <1>34, <1>35, <1>36, <1>37, <1>38, <1>39, <1>40, <1>41, <1>42, <1>43, <1>44, <1>45, <1>46, <1>47, <1>48, <1>49, <1>50, <1>51, <1>52, <1>53
     DEF Next, Controller, ReconcileNormal, ReconcileDelete, Kubernetes, Cloud,
         InstanceProgress, InstanceDisturbed

\* When the finalizer is stored before bootstrap data appears, no instance
\* outlives its OCIMachine.
THEOREM NoOrphan == FinalizerFirst => (Spec => []NoOrphanInstance)
<1> SUFFICES ASSUME FinalizerFirst PROVE Spec => []NoOrphanInstance
  OBVIOUS
<1>1. OwnedInv => NoOrphanInstance
  BY DEF OwnedInv, NoOrphanInstance, NoLive
<1>2. TypeOK /\ UniqueInv /\ OwnedInv /\ [Next]_vars => OwnedInv'
  BY OwnedNext
<1> QED
  BY TypeInit, TypeNext, UniqueInit, UniqueNext, OwnedInit, <1>1, <1>2, PTL DEF Spec
=============================================================================
