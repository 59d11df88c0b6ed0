-------------------------- MODULE OCIMachineProofs --------------------------
(* Proofs about OCIMachine. *)
EXTENDS OCIMachine, TLAPS

-----------------------------------------------------------------------------
(* The records the actions write are records of the right type.            *)

LEMMA NoRecords ==
  /\ NoObject \in ObjectRecord /\ NoMem \in MemRecord
  /\ NoSeen \in SeenRecord /\ NoWR \in WRRecord /\ NoHist \in HistRecord
  BY DEF NoObject, ObjectRecord, NoMem, MemRecord, NoSeen, SeenRecord, NoWR,
         WRRecord, NoHist, HistRecord, MaybeInstance, InstanceState

LEMMA MemUpdates ==
  ASSUME NEW m \in MemRecord
  PROVE /\ [m EXCEPT !.requeue = TRUE] \in MemRecord
        /\ [m EXCEPT !.ready = FALSE] \in MemRecord
        /\ [m EXCEPT !.notfound = TRUE] \in MemRecord
        /\ [m EXCEPT !.fin = FALSE] \in MemRecord
        /\ Failed(m) \in MemRecord
        /\ \A i \in MaybeInstance : [m EXCEPT !.id = i] \in MemRecord
        /\ \A i \in MaybeInstance : [m EXCEPT !.addr = i] \in MemRecord
        /\ \A b \in BOOLEAN : [m EXCEPT !.ready = TRUE, !.requeue = b] \in MemRecord
        /\ m.id \in MaybeInstance /\ m.addr \in MaybeInstance
        /\ m.requeue \in BOOLEAN
  BY DEF MemRecord, Failed

LEMMA MemFromCache ==
  ASSUME NEW o \in ObjectRecord
  PROVE [NoMem EXCEPT !.fin = o.fin \/ ~o.deleting, !.id = o.id, !.addr = o.addr,
                      !.ready = o.ready, !.failed = o.failed] \in MemRecord
  BY DEF ObjectRecord, NoMem, MemRecord

LEMMA ObjectUpdates ==
  ASSUME obj \in ObjectRecord, cache \in ObjectRecord, mem \in MemRecord
  PROVE /\ PatchedSpec \in ObjectRecord /\ PatchedStatus \in ObjectRecord
        /\ [obj EXCEPT !.deleting = TRUE] \in ObjectRecord
        /\ [obj EXCEPT !.exists = FALSE] \in ObjectRecord
  BY DEF ObjectRecord, MemRecord, PatchedSpec, PatchedStatus, Diff

LEMMA SeenUpdates ==
  ASSUME inst \in [Instance -> InstanceState], NEW i \in Instance
  PROVE /\ [id |-> i, state |-> inst[i]] \in SeenRecord
        /\ [id |-> i, state |-> "pending"] \in SeenRecord
  BY DEF SeenRecord, MaybeInstance, InstanceState

LEMMA WRUpdates ==
  ASSUME NEW i \in MaybeInstance
  PROVE [op |-> "add", ip |-> i] \in WRRecord /\ [op |-> "del", ip |-> i] \in WRRecord
  BY DEF WRRecord

LEMMA HistUpdates ==
  ASSUME NEW h \in HistRecord, NEW b \in BOOLEAN
  PROVE /\ [h EXCEPT !.missed = b] \in HistRecord
        /\ [h EXCEPT !.parked = b] \in HistRecord
  BY DEF HistRecord

LEMMA RecordFields ==
  ASSUME TypeOK
  PROVE /\ seen.id \in MaybeInstance /\ wr.ip \in MaybeInstance
        /\ mem.id \in MaybeInstance /\ mem.addr \in MaybeInstance
        /\ mem.requeue \in BOOLEAN
  BY DEF TypeOK, SeenRecord, WRRecord, MemRecord

LEMMA SpendType ==
  ASSUME budget \in 0..Budget, Spend
  PROVE budget' \in 0..Budget
<1>1. Budget \in Nat
  BY FlagAssumption
<1> QED
  BY <1>1 DEF Spend

-----------------------------------------------------------------------------
LEMMA TypeInit == Init => TypeOK
<1>1. Budget \in 0..Budget
  <2>1. Budget \in Nat
    BY FlagAssumption
  <2> QED
    BY <2>1
<1> QED
  BY NoRecords, <1>1
     DEF Init, TypeOK, Pc, InstanceState, AttachmentState, VolumeState

LEMMA TypeNext == TypeOK /\ [Next]_vars => TypeOK'
<1> SUFFICES ASSUME TypeOK, [Next]_vars PROVE TypeOK'
  OBVIOUS
<1> USE RecordFields, SpendType
    DEF TypeOK, Pc, NormalPc, DeletePc, kube, api, cloud, Goto, Return, Fail, Reply
<1>1. CASE GetForCreate
  BY <1>1, MemUpdates, SeenUpdates DEF GetForCreate, AfterInstance, Found, Saw
<1>2. CASE Launch
  BY <1>2, MemUpdates, SeenUpdates DEF Launch, AfterInstance, InstanceState
<1>3. CASE LaunchNoCapacity
  BY <1>3, MemUpdates DEF LaunchNoCapacity
<1>4. CASE ReconcileBlockVolume
  BY <1>4, MemUpdates DEF ReconcileBlockVolume, VolumeState
<1>5. CASE EnsureAttached
  BY <1>5, MemUpdates DEF EnsureAttached, AttachmentState
<1>6. CASE StatePending
  BY <1>6, MemUpdates, HistUpdates DEF StatePending, WithId, Polled
<1>7. CASE StateStopped
  BY <1>7, MemUpdates, HistUpdates DEF StateStopped, WithId, Polled
<1>8. CASE StateRunning
  BY <1>8, MemUpdates, HistUpdates DEF StateRunning, WithId, Polled, AfterIp, AfterLB
<1>9. CASE StateTerminated
  BY <1>9, MemUpdates, HistUpdates DEF StateTerminated, WithId, Polled
<1>10. CASE StateUnexpected
  BY <1>10, MemUpdates, HistUpdates DEF StateUnexpected, WithId, Polled
<1>11. CASE DeleteOwnerMachine
  BY <1>11, MemUpdates DEF DeleteOwnerMachine
<1>12. CASE GetInstanceIp
  BY <1>12, MemUpdates DEF GetInstanceIp, AfterIp, AfterLB
<1>13. CASE GetLBForCreate
  BY <1>13 DEF GetLBForCreate, AfterLB
<1>14. CASE CreateBackend
  BY <1>14, MemUpdates, WRUpdates DEF CreateBackend
<1>15. CASE AwaitCreate
  BY <1>15, MemUpdates DEF AwaitCreate, AfterLB
<1>16. CASE ReconcileVnicAttachments
  BY <1>16, MemUpdates DEF ReconcileVnicAttachments
<1>17. CASE SetReady
  BY <1>17, MemUpdates, FlagAssumption DEF SetReady
<1>18. CASE GetForDelete
  BY <1>18, MemUpdates, SeenUpdates DEF GetForDelete, Found, Saw, AfterVolume, AfterDrain
<1>19. CASE GetLBForDelete
  BY <1>19, HistUpdates DEF GetLBForDelete, AfterDrain, AfterVolume
<1>20. CASE DeleteBackend
  BY <1>20, MemUpdates, WRUpdates DEF DeleteBackend
<1>21. CASE AwaitDelete
  BY <1>21, MemUpdates DEF AwaitDelete, AfterDrain, AfterVolume
<1>22. CASE DetachVolume
  BY <1>22, MemUpdates DEF DetachVolume, AttachmentState
<1>23. CASE TerminateInstance
  BY <1>23, MemUpdates DEF TerminateInstance, InstanceState
<1>24. CASE DeleteBlockVolume
  BY <1>24, MemUpdates DEF DeleteBlockVolume, VolumeState
<1>25. CASE RemoveFinalizer
  BY <1>25, MemUpdates DEF RemoveFinalizer
<1>26. CASE ReconcileSkip
  BY <1>26 DEF ReconcileSkip
<1>27. CASE ReconcileStart
  BY <1>27, MemFromCache DEF ReconcileStart
<1>28. CASE ApiError
  BY <1>28, MemUpdates DEF ApiError
<1>29. CASE PatchSpec
  BY <1>29, MemUpdates, ObjectUpdates DEF PatchSpec
<1>30. CASE PatchStatus
  BY <1>30, NoRecords, ObjectUpdates DEF PatchStatus
<1>31. CASE CacheSync
  BY <1>31 DEF CacheSync
<1>32. CASE Resync
  BY <1>32 DEF Resync
<1>33. CASE OpenGate
  BY <1>33 DEF OpenGate
<1>34. CASE CloseGate
  BY <1>34 DEF CloseGate
<1>35. CASE BootstrapReady
  BY <1>35 DEF BootstrapReady
<1>36. CASE UserDeletesMachine
  BY <1>36 DEF UserDeletesMachine
<1>37. CASE MachineControllerDeletes
  BY <1>37, ObjectUpdates DEF MachineControllerDeletes
<1>38. CASE Crash
  BY <1>38, NoRecords DEF Crash
<1>39. CASE VolumeStep
  BY <1>39 DEF VolumeStep, VolumeState
<1>40. CASE WorkRequestDone
  BY <1>40, NoRecords DEF WorkRequestDone
<1>41. CASE WorkRequestFails
  BY <1>41, NoRecords DEF WorkRequestFails
<1>53. CASE TokenExpires
  BY <1>53 DEF TokenExpires
<1>42. ASSUME NEW i \in Instance, Provisioned(i) PROVE TypeOK'
  BY <1>42 DEF Provisioned, Becomes, OnlyInstances, InstanceState
<1>43. ASSUME NEW i \in Instance, InstanceStarted(i) PROVE TypeOK'
  BY <1>43 DEF InstanceStarted, Becomes, OnlyInstances, InstanceState
<1>44. ASSUME NEW i \in Instance, ImageDone(i) PROVE TypeOK'
  BY <1>44 DEF ImageDone, Becomes, OnlyInstances, InstanceState
<1>45. ASSUME NEW i \in Instance, Terminated(i) PROVE TypeOK'
  BY <1>45 DEF Terminated, Becomes, OnlyInstances, InstanceState
<1>46. ASSUME NEW i \in Instance, ProvisioningFails(i) PROVE TypeOK'
  BY <1>46 DEF ProvisioningFails, Becomes, OnlyInstances, InstanceState
<1>47. ASSUME NEW i \in Instance, InstanceStopped(i) PROVE TypeOK'
  BY <1>47 DEF InstanceStopped, Becomes, OnlyInstances, InstanceState
<1>48. ASSUME NEW i \in Instance, ImageStarted(i) PROVE TypeOK'
  BY <1>48 DEF ImageStarted, Becomes, OnlyInstances, InstanceState
<1>49. ASSUME NEW i \in Instance, TerminatedByOthers(i) PROVE TypeOK'
  BY <1>49 DEF TerminatedByOthers, Becomes, OnlyInstances, InstanceState
<1>50. ASSUME NEW i \in Instance, AgesOut(i) PROVE TypeOK'
  BY <1>50 DEF AgesOut, Becomes, InstanceState, AttachmentState
<1>51. ASSUME NEW i \in Instance, AttachmentStep(i) PROVE TypeOK'
  BY <1>51 DEF AttachmentStep, AttachmentState
<1>52. CASE UNCHANGED vars
  BY <1>52 DEF vars
<1> QED
  BY <1>1, <1>2, <1>3, <1>4, <1>5, <1>6, <1>7, <1>8, <1>9, <1>10, <1>11, <1>12, <1>13, <1>14, <1>15, <1>16, <1>17, <1>18, <1>19, <1>20, <1>21, <1>22, <1>23, <1>24, <1>25, <1>26, <1>27, <1>28, <1>29, <1>30, <1>31, <1>32, <1>33, <1>34, <1>35, <1>36, <1>37, <1>38, <1>39, <1>40, <1>41, <1>42, <1>43, <1>44, <1>45, <1>46, <1>47, <1>48, <1>49, <1>50, <1>51, <1>52, <1>53
     DEF Next, Controller, ReconcileNormal, ReconcileDelete, Kubernetes, Cloud,
         InstanceProgress, InstanceDisturbed

\* The types of TypeOK hold in every reachable state.
THEOREM TypeCorrect == Spec => []TypeOK
  BY TypeInit, TypeNext, PTL DEF Spec
=============================================================================
