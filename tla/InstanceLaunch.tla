--------------------------- MODULE InstanceLaunch ---------------------------
(***************************************************************************)
(* Where and how often LaunchInstance is called for one machine: the       *)
(* failure domains the cluster publishes (cloud/scope/cluster.go), the     *)
(* choice of one of them, and the loop over fault domains with its retry   *)
(* tokens (cloud/scope/machine.go).  OCIMachine takes a launch to be one   *)
(* step and the lookup by name to be current; here a launch is a loop of   *)
(* calls and the lookup may lag behind it.                                 *)
(***************************************************************************)
EXTENDS Naturals, Sequences, FiniteSets

CONSTANTS
  AllDomains,  \* the names of fault domains
  Settings,    \* the regions and machines considered
  Budget       \* bound on lost replies, errors and capacity changes

NoFD == "none"   \* no fault domain in the launch details

\* fds: the fault domains of the region's availability domains.  key: the
\* machine's Spec.FailureDomain, 0 when it is not set.  lag: ListInstances
\* may not show a new instance yet.  steady: the hosts' capacity does not
\* change while the machine is being launched.
Setting == [fds : Seq(Seq(AllDomains)), key : Nat, lag : BOOLEAN, steady : BOOLEAN]

ASSUME SettingsAssumption ==
  /\ NoFD \notin AllDomains /\ Settings \subseteq Setting /\ Budget \in Nat
  /\ \A s \in Settings :
       /\ Len(s.fds) \in {1, 3}
       /\ \A a \in DOMAIN s.fds : \A m, n \in DOMAIN s.fds[a] :
            s.fds[a][m] = s.fds[a][n] => m = n

VARIABLES
  set,      \* the setting, which does not change
  pc,       \* "idle" or "launch"
  ad, list, \* the availability domain, and the fault domains to try in it
  idx,      \* the loop is at list[idx]
  refused,  \* the fault domains that were out of host capacity in this loop
  result,   \* of the last reconcile: "none", "ok", "error" or "nocapacity"
  room,     \* the fault domains with capacity, in each availability domain
  insts,    \* the instances launched: where, and with which token
  listed,   \* ListInstances shows them
  budget

vars == <<set, pc, ad, list, idx, refused, result, room, insts, listed, budget>>

FaultDomains == set.fds
Key == set.key
AD == DOMAIN FaultDomains
Domains(a) == {FaultDomains[a][n] : n \in DOMAIN FaultDomains[a]}

Init ==
  /\ set \in Settings /\ pc = "idle" /\ ad = 1 /\ list = <<NoFD>> /\ idx = 1
  /\ refused = {} /\ result = "none"
  /\ room \in [AD -> SUBSET AllDomains] /\ \A a \in AD : room[a] \subseteq Domains(a)
  /\ insts = <<>> /\ listed = FALSE /\ budget = Budget

Spend == budget > 0 /\ budget' = budget - 1

-----------------------------------------------------------------------------
\* setFailureDomains: with three availability domains each is a failure
\* domain, with one its fault domains are.
FailureDomains ==
  IF Len(FaultDomains) = 3
  THEN [n \in 1..3 |-> [ad |-> n, fd |-> NoFD]]
  ELSE [n \in DOMAIN FaultDomains[1] |-> [ad |-> 1, fd |-> FaultDomains[1][n]]]

\* resolveAvailabilityAndFaultDomain: a machine without a failure domain gets
\* a new random one in every reconcile.
ResolvedKeys == IF Key = 0 THEN 1..3 ELSE {Key}
Valid(key) == key \in 1..3 /\ key \in DOMAIN FailureDomains

\* Mutants: the first choice is tried again; it is not tried first; the last
\* fault domain is forgotten.
RetryTwice(a, fd) == <<fd>> \o FaultDomains[a]
RetryInOrder(a, fd) == IF fd = NoFD THEN <<fd>> ELSE FaultDomains[a]
RetryOne(a, fd) == <<fd>>

buildFaultDomainRetryList(a, fd) ==
  <<fd>> \o (IF fd = NoFD THEN <<>> ELSE SelectSeq(FaultDomains[a], LAMBDA f : f # fd))

\* GetMachine by name finds the instance, or the loop starts.
Begin ==
  /\ pc = "idle" /\ result # "ok"
  /\ \/ listed /\ result' = "ok" /\ UNCHANGED <<pc, ad, list, idx, refused>>
     \/ /\ ~listed
        /\ \E key \in ResolvedKeys :
             \/ ~Valid(key) /\ result' = "error" /\ UNCHANGED <<pc, ad, list, idx, refused>>
             \/ /\ Valid(key)
                /\ LET d == FailureDomains[key]
                   IN ad' = d.ad /\ list' = buildFaultDomainRetryList(d.ad, d.fd)
                /\ pc' = "launch" /\ idx' = 1 /\ refused' = {} /\ UNCHANGED result
  /\ UNCHANGED <<set, room, insts, listed, budget>>

Finish(r) == pc' = "idle" /\ result' = r /\ UNCHANGED <<idx, refused>>

\* Mutant: every request has a token of its own.
TokenPerAttempt(fd) == Len(insts)

\* The token of a request is the object's UID, with the fault domain if any.
Token(fd) == fd

Used(fd) == {n \in DOMAIN insts : insts[n].token = Token(fd)}

HasRoom(fd) == IF fd = NoFD THEN room[ad] # {} ELSE fd \in room[ad]

\* LaunchInstance created an instance, or answers with the one it created for
\* the same request before.
Accepted ==
  LET fd == list[idx] IN
  /\ pc = "launch"
  /\ \/ /\ Used(fd) = {} /\ HasRoom(fd)
        /\ insts' = Append(insts, [ad |-> ad, fd |-> fd, token |-> Token(fd)])
        /\ listed' = ~set.lag
     \/ /\ \E n \in Used(fd) : insts[n].ad = ad
        /\ UNCHANGED <<insts, listed>>
  /\ \/ Finish("ok") /\ UNCHANGED budget
     \/ Finish("error") /\ Spend
  /\ UNCHANGED <<set, ad, list, room>>

\* The token was used for another request: the call is refused, and the loop
\* stops as it does on every error but one.
Rejected ==
  /\ pc = "launch"
  /\ \/ \E n \in Used(list[idx]) : insts[n].ad # ad /\ UNCHANGED budget
     \/ Spend
  /\ Finish("error")
  /\ UNCHANGED <<set, ad, list, room, insts, listed>>

\* Mutant: a full fault domain ends the loop like any other error.
OutOfHostCapacityGivesUp ==
  /\ pc = "launch" /\ Used(list[idx]) = {} /\ ~HasRoom(list[idx])
  /\ Finish("error")
  /\ UNCHANGED <<set, ad, list, room, insts, listed, budget>>

OutOfHostCapacity ==
  /\ pc = "launch" /\ Used(list[idx]) = {} /\ ~HasRoom(list[idx])
  /\ refused' = refused \cup {list[idx]}
  /\ \/ idx < Len(list) /\ idx' = idx + 1 /\ UNCHANGED <<pc, result>>
     \/ idx = Len(list) /\ pc' = "idle" /\ result' = "nocapacity" /\ UNCHANGED idx
  /\ UNCHANGED <<set, ad, list, room, insts, listed, budget>>

CapacityChanges ==
  /\ set.steady => pc = "idle" /\ insts = <<>>
  /\ Spend
  /\ \E a \in AD : \E fd \in Domains(a) :
       room' = [room EXCEPT ![a] = IF fd \in @ THEN @ \ {fd} ELSE @ \cup {fd}]
  /\ UNCHANGED <<set, pc, ad, list, idx, refused, result, insts, listed>>

ListCatchesUp ==
  /\ insts # <<>> /\ ~listed /\ listed' = TRUE
  /\ UNCHANGED <<set, pc, ad, list, idx, refused, result, room, insts, budget>>

Next == \/ Begin \/ Accepted \/ Rejected \/ OutOfHostCapacity
        \/ CapacityChanges \/ ListCatchesUp

Spec == Init /\ [][Next]_vars

(* A failed reconcile is queued again, and a loop goes on.                 *)
FairSpec == Spec /\ WF_vars(Begin \/ Accepted \/ OutOfHostCapacity)

-----------------------------------------------------------------------------
\* A launch whose reply was lost is safe to repeat, for a machine that keeps
\* its failure domain: the retry tokens protect it until ListInstances shows
\* the instance as long as capacity is steady, and the lookup by name does
\* once the list is current.  In a region of three availability domains the
\* one token of the machine protects it wherever it goes.
AtMostOneLaunch ==
  Len(FaultDomains) = 3 \/ ~set.lag \/ (set.steady /\ Key # 0) => Len(insts) <= 1

\* "failed to launch instance after trying all fault domains": the error is
\* reported only when every fault domain of the availability domain, or the
\* availability domain as a whole, was out of host capacity.
AllDomainsTried ==
  result = "nocapacity" /\ pc = "idle" =>
    IF Len(FaultDomains) = 3 THEN refused = {NoFD} ELSE refused = Domains(ad)

\* No request of a loop repeats an earlier one: "avoid requests being
\* rejected as duplicates".
NoDomainTwice == pc = "launch" => list[idx] \notin refused

\* A machine ends up outside its failure domain only when that one was full.
OwnDomainFirst ==
  [][insts' # insts =>
       LET d == insts'[Len(insts')]
       IN \E key \in ResolvedKeys :
            /\ Valid(key) /\ FailureDomains[key].ad = d.ad
            /\ d.fd = FailureDomains[key].fd \/ FailureDomains[key].fd \in refused]_vars

\* When the availability domain keeps room for an instance somewhere, a
\* machine of a single-domain region gets one, whatever its failure domain.
LaunchesIfRoom ==
  Len(FaultDomains) = 1 /\ Valid(Key) /\ (\E fd \in AllDomains : <>[](fd \in room[1]))
    => <>(result = "ok")
=============================================================================
