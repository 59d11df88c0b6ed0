--------------------------- MODULE ClusterNetwork ---------------------------
(***************************************************************************)
(* One OCICluster, the controller that reconciles it                       *)
(* (controllers/ocicluster_controller.go) and the network it builds        *)
(* through the reconcilers of cloud/scope: DRG, VCN, gateways, network     *)
(* security groups, route tables, subnets with their security lists, the   *)
(* DRG's attachment and the API server's load balancer.                    *)
(*                                                                         *)
(* A reconcile walks a fixed list of components.  A step finds or creates, *)
(* or finds and deletes, one resource; an error ends the reconcile, whose  *)
(* deferred patch stores the OCIDs found so far.  A crash loses them.      *)
(***************************************************************************)
EXTENDS Naturals, Sequences, FiniteSets, SequencesExt

CONSTANTS
  Nsgs,           \* names in Vcn.NetworkSecurityGroup.List
  Subnets,        \* names in Vcn.Subnets, the endpoint subnet first
  Lists,          \* names of security lists
  Specs,          \* the specs a cluster may have, see SpecRecord
  ServiceListed,  \* the region lists the Oracle services network
  Removable,      \* what somebody else may delete in OCI
  Budget          \* bound on failures, crashes and edits

Nsg    == Range(Nsgs)
Subnet == Range(Subnets)
Skippable == {"network", "apiserver", "vcn", "igw", "nat", "sgw", "nsg", "rt"}

\* The type of each subnet, the security list of those that have one, what
\* is not to be managed, and VCNPeering with its DRG.
SpecRecord ==
  [type : [Subnet -> {"public", "private"}],
   list : UNION {[S -> Lists] : S \in SUBSET Subnet},
   skip : SUBSET Skippable,
   peering : {"off", "nodrg", "given", "unnamed", "managed"}]

ASSUME NetworkAssumption ==
  /\ Specs \subseteq SpecRecord
  /\ ServiceListed \in BOOLEAN /\ Budget \in Nat

VARIABLES
  obj,     \* the OCICluster in the API server
  queued,  \* the workqueue holds the object's key
  pc,      \* "idle", "normal" or "delete" (walking a plan), "patch"
  step,    \* the plan's next component
  mem,     \* the reconcile's copy of the object, and how it ends
  cloud,   \* the live copies of each resource with this cluster's tags
  built,   \* the security list that each subnet uses
  drift,   \* resources whose name in the spec is not the cloud's yet
  budget

kube == <<obj, queued>>
net  == <<cloud, built, drift>>
vars == <<kube, pc, step, mem, net, budget>>

Nil  == 0
Copy == 1..(Budget + 1)
Resource == {"drg", "vcn", "igw", "nat", "sgw", "private", "public", "attach", "lb"}
              \cup Nsg \cup Subnet \cup Lists
Renamable == {"vcn", "lb"} \cup Nsg \cup Subnet

Type    == obj.spec.type
SecurityList == obj.spec.list
Skip    == obj.spec.skip
Peering == obj.spec.peering

IsAllSubnetsPrivate == \A s \in Subnet : Type[s] = "private"
IsAllSubnetsPublic  == \A s \in Subnet : Type[s] = "public"

GetDesiredRouteTables ==
  IF IsAllSubnetsPrivate THEN <<"private">>
  ELSE IF IsAllSubnetsPublic THEN <<"public">> ELSE <<"private", "public">>

ListsInOrder ==
  LET with == SelectSeq(Subnets, LAMBDA s : s \in DOMAIN SecurityList)
  IN [k \in 1..Len(with) |-> SecurityList[with[k]]]

Unless(what, plan) == IF what \in Skip THEN << >> ELSE plan

\* Mutant: route tables come before the gateways they point to.
RoutesFirst ==
  Unless("network",
         <<"region", "drg", "vcn">> \o Unless("rt", GetDesiredRouteTables)
         \o <<"igw", "nat", "sgw">> \o Unless("nsg", Nsgs \o <<"rules">>)
         \o Subnets \o <<"attach", "rpc">>)
  \o <<"domains">> \o Unless("apiserver", <<"lb">>)
\* The order in which reconcile brings the components up.
NormalPlan ==
  Unless("network",
         <<"region", "drg", "vcn", "igw", "nat", "sgw">>
         \o Unless("nsg", Nsgs \o <<"rules">>)
         \o Unless("rt", GetDesiredRouteTables)
         \o Subnets \o <<"attach", "rpc">>)
  \o <<"domains">> \o Unless("apiserver", <<"lb">>)

\* Mutant: subnets go after what they use.
DeletePlanSwapped ==
  Unless("apiserver", <<"lb">>)
  \o Unless("network",
            <<"rpc", "attach">> \o Unless("nsg", Nsgs)
            \o Unless("rt", GetDesiredRouteTables) \o Subnets \o ListsInOrder
            \o <<"sgw", "nat", "igw", "vcn", "drg">>)
\* The order in which reconcileDelete takes them down.
DeletePlan ==
  Unless("apiserver", <<"lb">>)
  \o Unless("network",
            <<"rpc", "attach">> \o Unless("nsg", Nsgs) \o Subnets
            \o Unless("rt", GetDesiredRouteTables) \o ListsInOrder
            \o <<"sgw", "nat", "igw", "vcn", "drg">>)

NoIds == [r \in Resource |-> Nil]
NoMem == [fin |-> FALSE, ready |-> FALSE, err |-> FALSE, made |-> FALSE,
          ids |-> NoIds]

Init ==
  /\ obj \in {[exists |-> TRUE, deleting |-> FALSE, fin |-> FALSE,
               ready |-> FALSE, ids |-> NoIds, spec |-> s] : s \in Specs}
  /\ queued = TRUE /\ pc = "idle" /\ step = 1 /\ mem = NoMem
  /\ cloud = [r \in Resource |-> {}]
  /\ built = [s \in Subnet |-> Nil]
  /\ drift = {} /\ budget = Budget

-----------------------------------------------------------------------------
(* Reconcile and how a component's step ends                               *)

Reconcile ==
  /\ pc = "idle" /\ queued /\ queued' = FALSE
  /\ IF obj.exists
     THEN /\ pc' = IF obj.deleting THEN "delete" ELSE "normal"
          /\ step' = 1
          /\ mem' = [fin |-> obj.fin \/ ~obj.deleting, ready |-> obj.ready,
                     err |-> FALSE, made |-> FALSE, ids |-> obj.ids]
     ELSE UNCHANGED <<pc, step, mem>>
  /\ UNCHANGED <<obj, net, budget>>

Spend == budget > 0 /\ budget' = budget - 1

Normal(r) == pc = "normal" /\ step <= Len(NormalPlan) /\ NormalPlan[step] = r
Delete(r) == pc = "delete" /\ step <= Len(DeletePlan) /\ DeletePlan[step] = r

Done(m) == mem' = [m EXCEPT !.made = FALSE] /\ step' = step + 1 /\ UNCHANGED <<kube, pc>>
\* Mutant: an error discards the OCIDs found so far.
AbortDropsIds(m) ==
  /\ mem' = [m EXCEPT !.err = TRUE, !.ids = NoIds] /\ pc' = "patch"
  /\ UNCHANGED <<kube, step>>
Abort(m) == mem' = [m EXCEPT !.err = TRUE] /\ pc' = "patch" /\ UNCHANGED <<kube, step>>
Pass == Done(mem) /\ UNCHANGED <<net, budget>>
Fail == Abort(mem) /\ UNCHANGED <<net, budget>>

\* A call took effect; its reply arrives, or is lost.
Reply(m) == \/ Done(m) /\ UNCHANGED budget
            \/ Spend /\ Abort(mem)

\* Mutant: the error of a component is ignored.
CallFailsIgnored ==
  /\ \E r \in Range(NormalPlan) \cup Range(DeletePlan) : Normal(r) \/ Delete(r)
  /\ Spend /\ Done(mem) /\ UNCHANGED net
\* A call failed before it took effect.
CallFails ==
  /\ \E r \in Range(NormalPlan) \cup Range(DeletePlan) : Normal(r) \/ Delete(r)
  /\ Spend /\ Abort(mem) /\ UNCHANGED net

\* Mutant: an OCID is recorded that OCI did not hand out.
WithOtherId(r, c) == [mem EXCEPT !.ids[r] = c + Budget + 1]
WithId(r, c) == [mem EXCEPT !.ids[r] = c]

-----------------------------------------------------------------------------
(* Every reconciler looks a resource up by its OCID, or lists by name and  *)
(* keeps what carries the cluster's tags.                                  *)

Listed(r) == IF r = "drg" /\ Peering = "unnamed" THEN {} ELSE cloud[r]
NotFound(r) == mem.ids[r] # Nil /\ mem.ids[r] \notin cloud[r]
Found(r) == IF mem.ids[r] = Nil THEN Listed(r) ELSE cloud[r] \cap {mem.ids[r]}
\* Mutant: nothing is looked up by name.
NoneById(r) == mem.ids[r] = Nil
None(r) == mem.ids[r] = Nil /\ Listed(r) = {}

\* Creating a VCN, a DRG or a load balancer carries a retry token.
Fresh(r) == CHOOSE c \in Copy : c \notin cloud[r]
Created(r) == IF r \in {"vcn", "drg", "lb"} /\ cloud[r] # {} THEN cloud[r] ELSE {Fresh(r)}
With(r, c) == [cloud EXCEPT ![r] = @ \cup {c}]

Find(r) ==
  \/ NotFound(r) /\ Fail
  \/ \E c \in Found(r) :
       IF r \in drift
       THEN \/ drift' = drift \ {r} /\ Done(WithId(r, c)) /\ UNCHANGED <<cloud, built, budget>>
            \/ drift' \in {drift, drift \ {r}} /\ Spend /\ Abort(WithId(r, c))
               /\ UNCHANGED <<cloud, built>>
       ELSE Done(WithId(r, c)) /\ UNCHANGED <<net, budget>>

Create(r) ==
  /\ None(r)
  /\ \E c \in Created(r) : cloud' = With(r, c) /\ Reply(WithId(r, c))
  /\ UNCHANGED <<built, drift>>

FindOrCreate(r) == Find(r) \/ Create(r)

ManagesDRG == Peering \in {"managed", "unnamed"}
HasDrgId == Peering = "given" \/ mem.ids["drg"] # Nil
HasId(r) == mem.ids[r] # Nil \/ r \in Skip

SetRegionKey == Normal("region") /\ Pass

ReconcileDRG ==
  Normal("drg") /\ IF ManagesDRG THEN FindOrCreate("drg") ELSE Pass

ReconcileVCN ==
  Normal("vcn") /\ IF "vcn" \in Skip THEN Pass ELSE FindOrCreate("vcn")

ReconcileInternetGateway ==
  /\ Normal("igw")
  /\ IF "igw" \in Skip \/ IsAllSubnetsPrivate THEN Pass ELSE FindOrCreate("igw")

ReconcileNatGateway ==
  /\ Normal("nat")
  /\ IF "nat" \in Skip \/ IsAllSubnetsPublic THEN Pass ELSE FindOrCreate("nat")

\* Without the service in the region's list the wrapped nil error makes
\* CreateServiceGateway return no OCID and no error.
ReconcileServiceGateway ==
  /\ Normal("sgw")
  /\ IF "sgw" \in Skip \/ IsAllSubnetsPublic THEN Pass
     ELSE IF None("sgw") /\ ~ServiceListed THEN Pass ELSE FindOrCreate("sgw")

ReconcileNSG == \E g \in Nsg : Normal(g) /\ FindOrCreate(g)

\* The rules of every group follow once all groups have an OCID.
ReconcileNSGRules == Normal("rules") /\ Pass

\* What the rules of a new route table point to.
RouteTargets(t) ==
  IF t = "public" THEN HasId("igw")
  ELSE HasId("nat") /\ HasId("sgw") /\ (Peering = "off" \/ HasDrgId)

ReconcileRouteTable ==
  \E t \in {"private", "public"} :
    /\ Normal(t)
    /\ IF None(t) /\ ~RouteTargets(t) THEN Fail ELSE FindOrCreate(t)

-----------------------------------------------------------------------------
(* ReconcileSubnet                                                         *)

HasList(s) == s \in DOMAIN SecurityList
ListId(s, m) == IF HasList(s) THEN m.ids[SecurityList[s]] ELSE Nil

\* OCI refuses a subnet with a list that does not exist.
ListGone(s, m) == HasList(s) /\ ListId(s, m) \notin cloud[SecurityList[s]]

CreateSecurityList(s, m) ==
  LET l == SecurityList[s]
      c == Fresh(l)
  IN /\ cloud' = With(l, c)
     /\ \/ /\ mem' = [m EXCEPT !.ids[l] = c, !.made = TRUE]
           /\ UNCHANGED <<kube, pc, step, budget>>
        \/ Spend /\ Abort(m)
     /\ UNCHANGED <<built, drift>>

CreateSubnet(s) ==
  /\ cloud' = With(s, Fresh(s))
  /\ built' = [built EXCEPT ![s] = ListId(s, mem)]
  /\ Reply(WithId(s, Fresh(s)))
  /\ UNCHANGED drift

IsSubnetsEqual(s, m) ==
  /\ s \notin drift
  /\ HasList(s) => ListId(s, m) # Nil /\ built[s] = ListId(s, m)

UpdateSubnet(s, m) ==
  \/ /\ HasList(s) /\ ListId(s, m) = Nil
     /\ Abort(m) /\ UNCHANGED <<built, drift, budget>>
  \/ /\ HasList(s) => ListId(s, m) # Nil
     /\ \/ /\ built' = [built EXCEPT ![s] = ListId(s, m)]
           /\ drift' = drift \ {s}
           /\ \/ Done(m) /\ UNCHANGED budget
              \/ Spend /\ Abort(m)
        \/ Spend /\ Abort(m) /\ UNCHANGED <<built, drift>>

\* The subnet exists.  A security list that is found by name is compared
\* with the spec, and its OCID is not recorded.
FoundSubnet(s, m) ==
  \/ /\ HasList(s) /\ None(SecurityList[s])
     /\ CreateSecurityList(s, m)
  \/ /\ HasList(s) /\ NotFound(SecurityList[s])
     /\ Abort(m) /\ UNCHANGED <<net, budget>>
  \/ /\ HasList(s) => Found(SecurityList[s]) # {}
     /\ IF IsSubnetsEqual(s, m)
        THEN Done(m) /\ UNCHANGED <<built, drift, budget>>
        ELSE UpdateSubnet(s, m)
     /\ UNCHANGED cloud

ReconcileSubnet ==
  \E s \in Subnet :
    /\ Normal(s)
    /\ \/ NotFound(s) /\ Fail
       \/ \E c \in Found(s) : FoundSubnet(s, WithId(s, c))
       \/ /\ None(s) /\ HasList(s) /\ ~mem.made
          /\ CreateSecurityList(s, mem)
       \/ /\ None(s) /\ (HasList(s) => mem.made)
          /\ IF ListGone(s, mem) THEN Fail ELSE CreateSubnet(s)

-----------------------------------------------------------------------------
(* The rest of reconcile                                                   *)

ReconcileDRGVCNAttachment ==
  /\ Normal("attach")
  /\ IF Peering = "off" THEN Pass
     ELSE IF Peering = "nodrg" THEN Fail ELSE FindOrCreate("attach")

\* The remote peering connections themselves are left out.
ReconcileDRGRPCAttachment ==
  /\ Normal("rpc")
  /\ IF Peering = "off" \/ (Peering # "nodrg" /\ HasDrgId) THEN Pass ELSE Fail

ReconcileFailureDomains == Normal("domains") /\ Pass

\* The endpoint subnet's OCID is this reconcile's, or in a spec whose network
\* is not managed the user's.
HasEndpointSubnet == "network" \in Skip \/ mem.ids[Subnets[1]] # Nil

\* One step: the work requests of the load balancer are left out, and one that
\* is not ACTIVE yet is an error like that of a call.
ReconcileApiServerLB ==
  /\ Normal("lb")
  /\ IF None("lb") /\ ~HasEndpointSubnet THEN Fail ELSE FindOrCreate("lb")

SetReady ==
  /\ pc = "normal" /\ step > Len(NormalPlan)
  /\ mem' = [mem EXCEPT !.ready = TRUE] /\ pc' = "patch"
  /\ UNCHANGED <<kube, step, net, budget>>

-----------------------------------------------------------------------------
(* reconcileDelete                                                         *)

InVcn == Resource \ {"drg", "vcn", "lb"}

\* OCI refuses to delete what something else still refers to.
Referenced(r, c) ==
  \/ r = "vcn" /\ \E k \in InVcn : cloud[k] # {}
  \/ r = "igw" /\ cloud["public"] # {}
  \/ r \in {"nat", "sgw"} /\ cloud["private"] # {}
  \/ r \in {"private", "public"} /\ \E s \in Subnet : cloud[s] # {} /\ Type[s] = r
  \/ \E s \in DOMAIN SecurityList :
       r = SecurityList[s] /\ cloud[s] # {} /\ built[s] = c
  \/ r \in {Nsgs[k] : k \in 1..1 \cap DOMAIN Nsgs} \cup {Subnets[1]} /\ cloud["lb"] # {}
  \/ r = "drg" /\ (cloud["attach"] # {} \/ cloud["private"] # {})

\* Mutant: only what is recorded is looked for.
DeleteRecorded(r) ==
  \/ (mem.ids[r] = Nil \/ NotFound(r)) /\ Pass
  \/ \E c \in Found(r) :
       /\ mem.ids[r] = c
       /\ IF Referenced(r, c) THEN Fail
          ELSE /\ cloud' = [cloud EXCEPT ![r] = @ \ {c}]
               /\ Reply(mem)
               /\ UNCHANGED <<built, drift>>
\* A lookup that ends with NotFound counts as deleted.
FindAndDelete(r) ==
  \/ (None(r) \/ NotFound(r)) /\ Pass
  \/ \E c \in Found(r) :
       IF Referenced(r, c) THEN Fail
       ELSE /\ cloud' = [cloud EXCEPT ![r] = @ \ {c}]
            /\ Reply(mem)
            /\ UNCHANGED <<built, drift>>

DeleteApiServerLB == Delete("lb") /\ FindAndDelete("lb")

DeleteDRGRPCAttachment == Delete("rpc") /\ Pass

DeleteDRGVCNAttachment ==
  /\ Delete("attach")
  /\ IF Peering = "off" THEN Pass
     ELSE IF Peering = "nodrg" THEN Fail ELSE FindAndDelete("attach")

DeleteNSGs == \E g \in Nsg : Delete(g) /\ FindAndDelete(g)

DeleteSubnets == \E s \in Subnet : Delete(s) /\ FindAndDelete(s)

DeleteRouteTables == \E t \in {"private", "public"} : Delete(t) /\ FindAndDelete(t)

DeleteSecurityLists == \E l \in Lists : Delete(l) /\ FindAndDelete(l)

DeleteServiceGateway ==
  Delete("sgw") /\ IF "sgw" \in Skip THEN Pass ELSE FindAndDelete("sgw")

DeleteNatGateway ==
  Delete("nat") /\ IF "nat" \in Skip THEN Pass ELSE FindAndDelete("nat")

\* The route table's Skip is what is tested.  A gateway that is not managed
\* carries no tags of the cluster, and its lookup by OCID is an error.
DeleteInternetGateway ==
  /\ Delete("igw")
  /\ IF "rt" \in Skip THEN Pass
     ELSE IF "igw" \in Skip THEN Fail ELSE FindAndDelete("igw")

DeleteVCN ==
  Delete("vcn") /\ IF "vcn" \in Skip THEN Pass ELSE FindAndDelete("vcn")

DeleteDRG ==
  Delete("drg") /\ IF ManagesDRG THEN FindAndDelete("drg") ELSE Pass

RemoveFinalizer ==
  /\ pc = "delete" /\ step > Len(DeletePlan)
  /\ mem' = [mem EXCEPT !.fin = FALSE] /\ pc' = "patch"
  /\ UNCHANGED <<kube, step, net, budget>>

-----------------------------------------------------------------------------
(* The deferred patch: metadata and spec, then status.  An error of one    *)
(* does not keep the other from being sent.                                *)

PatchedSpec(o) ==
  [o EXCEPT !.fin = mem.fin, !.ids = mem.ids,
            !.exists = ~(o.deleting /\ ~mem.fin)]
PatchedStatus(o) == [o EXCEPT !.ready = mem.ready]

\* Mutant: an error of the reconcile does not requeue the object.
PatchForgetsError ==
  /\ pc = "patch" /\ pc' = "idle" /\ mem' = NoMem
  /\ obj.exists /\ obj' = PatchedStatus(PatchedSpec(obj))
  /\ queued' = (queued \/ obj' # obj)
  /\ UNCHANGED <<step, net, budget>>
Patch ==
  /\ pc = "patch" /\ pc' = "idle" /\ mem' = NoMem
  /\ \/ /\ obj.exists
        /\ obj' = PatchedStatus(PatchedSpec(obj))
        /\ queued' = (queued \/ mem.err \/ obj' # obj)
        /\ UNCHANGED budget
     \/ /\ obj.exists /\ Spend /\ queued' = TRUE
        /\ obj' \in {obj, PatchedSpec(obj), PatchedStatus(obj)}
     \/ /\ ~obj.exists /\ queued' = TRUE
        /\ UNCHANGED <<obj, budget>>
  /\ UNCHANGED <<step, net>>

-----------------------------------------------------------------------------
(* Crashes, the user, and others                                           *)

Crash ==
  /\ pc # "idle" /\ Spend
  /\ pc' = "idle" /\ mem' = NoMem /\ queued' = TRUE
  /\ UNCHANGED <<obj, step, net>>

\* An object without finalizers is gone at once, and never marked.  Nothing
\* keeps the user from deleting it while the first reconcile, which adds the
\* finalizer, still runs.
UserDeletes ==
  /\ obj.exists /\ ~obj.deleting
  /\ obj' = [obj EXCEPT !.deleting = obj.fin, !.exists = obj.fin]
  /\ queued' = TRUE
  /\ UNCHANGED <<pc, step, mem, net, budget>>

\* The user renames a resource whose OCID is recorded.
EditSpec(r) ==
  /\ pc = "idle" /\ obj.exists /\ ~obj.deleting /\ obj.ids[r] # Nil
  /\ r \notin drift /\ Spend
  /\ drift' = drift \cup {r} /\ queued' = TRUE
  /\ UNCHANGED <<obj, pc, step, mem, cloud, built>>

RemovedByOthers(r) ==
  /\ Spend
  /\ \E c \in cloud[r] : ~Referenced(r, c) /\ cloud' = [cloud EXCEPT ![r] = @ \ {c}]
  /\ UNCHANGED <<kube, pc, step, mem, built, drift>>

-----------------------------------------------------------------------------

NormalStep ==
  \/ SetRegionKey \/ ReconcileDRG \/ ReconcileVCN \/ ReconcileInternetGateway
  \/ ReconcileNatGateway \/ ReconcileServiceGateway \/ ReconcileNSG \/ ReconcileNSGRules
  \/ ReconcileRouteTable \/ ReconcileSubnet \/ ReconcileDRGVCNAttachment
  \/ ReconcileDRGRPCAttachment \/ ReconcileFailureDomains \/ ReconcileApiServerLB
  \/ SetReady

DeleteStep ==
  \/ DeleteApiServerLB \/ DeleteDRGRPCAttachment \/ DeleteDRGVCNAttachment
  \/ DeleteNSGs \/ DeleteSubnets \/ DeleteRouteTables \/ DeleteSecurityLists
  \/ DeleteServiceGateway \/ DeleteNatGateway \/ DeleteInternetGateway
  \/ DeleteVCN \/ DeleteDRG \/ RemoveFinalizer

Controller == Reconcile \/ NormalStep \/ DeleteStep \/ Patch

Next ==
  \/ Controller
  \/ CallFails \/ Crash \/ UserDeletes
  \/ \E r \in Renamable : EditSpec(r)
  \/ \E r \in Removable : RemovedByOthers(r)

Spec == Init /\ [][Next]_vars

\* The workqueue serves a queued key, and the process is restarted.
FairSpec == Spec /\ WF_vars(Controller)

-----------------------------------------------------------------------------
(* Properties                                                              *)

\* The recorded OCIDs and the live resources are of the copies OCI made, and
\* every subnet uses a copy of its own list.
TypeOK ==
  /\ obj \in [exists : BOOLEAN, deleting : BOOLEAN, fin : BOOLEAN, ready : BOOLEAN,
              ids : [Resource -> Copy \cup {Nil}], spec : Specs]
  /\ mem \in [fin : BOOLEAN, ready : BOOLEAN, err : BOOLEAN, made : BOOLEAN,
              ids : [Resource -> Copy \cup {Nil}]]
  /\ queued \in BOOLEAN /\ pc \in {"idle", "normal", "delete", "patch"}
  /\ step \in 1..(Len(NormalPlan) + Len(DeletePlan) + 1)
  /\ cloud \in [Resource -> SUBSET Copy]
  /\ built \in [Subnet -> Copy \cup {Nil}]
  /\ drift \subseteq Renamable /\ budget \in 0..Budget

\* However often calls fail, replies get lost and the process crashes, the
\* cluster owns at most one copy of each resource: a lookup by name and tags,
\* or a retry token, finds what an unrecorded call created.  Security lists
\* are excepted: ReconcileSubnet creates one without looking for it.
NoDuplicates == \A r \in Resource \ Lists : Cardinality(cloud[r]) <= 1

\* When an object that was marked for deletion is gone, reconcileDelete has
\* left nothing behind.  An object that was deleted before the first reconcile
\* stored the finalizer is never marked: what that reconcile builds stays.
NoOrphans == ~obj.exists /\ obj.deleting => \A r \in Resource : cloud[r] = {}

\* What the spec asks the controller to manage.
Wanted ==
  (IF "apiserver" \in Skip THEN {} ELSE {"lb"})
  \cup (IF "network" \in Skip THEN {}
        ELSE Subnet \cup Range(ListsInOrder) \cup ({"vcn"} \ Skip)
             \cup (IF "nsg" \in Skip THEN {} ELSE Nsg)
             \cup (IF "rt" \in Skip THEN {} ELSE {Type[s] : s \in Subnet})
             \cup (IF \E s \in Subnet : Type[s] = "private" THEN {"nat", "sgw"} \ Skip ELSE {})
             \cup (IF \E s \in Subnet : Type[s] = "public" THEN {"igw"} \ Skip ELSE {})
             \cup (IF ManagesDRG THEN {"drg"} ELSE {})
             \cup (IF Peering = "off" THEN {} ELSE {"attach"}))

\* Status.Ready is set only when everything the spec asks for exists, save
\* what others may delete.
ReadyMeansBuilt ==
  obj.ready /\ ~obj.deleting => \A r \in Wanted \ Removable : cloud[r] # {}

\* With nothing queued and nothing running, the object is ready, every OCID
\* of it is recorded, every rename has reached the cloud and every subnet
\* uses the security list that the object names: no failure is forgotten.
Settled ==
  pc = "idle" /\ ~queued /\ obj.exists =>
    /\ ~obj.deleting /\ obj.ready /\ drift = {}
    /\ \A r \in Wanted \ Removable : obj.ids[r] \in cloud[r]
    /\ \A s \in DOMAIN SecurityList : s \in Wanted => built[s] = obj.ids[SecurityList[s]]

\* An OCID once stored in the spec is never replaced: no reconcile abandons
\* the resource it names, security lists excepted.
IdsSticky ==
  [][\A r \in Resource \ Lists : obj.ids[r] # Nil => obj'.ids[r] = obj.ids[r]]_vars

\* A cluster that is not deleted becomes ready once calls stop failing.
BecomesReady ==
  obj.exists /\ ~obj.deleting ~> obj.ready \/ obj.deleting \/ ~obj.exists

\* A deleted cluster loses its finalizer once calls stop failing.
DeletionCompletes == obj.deleting ~> ~obj.exists
=============================================================================
