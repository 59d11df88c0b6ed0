-------------------------- MODULE VnicAttachments --------------------------
(***************************************************************************)
(* ReconcileVnicAttachments (cloud/scope/vnic_reconciler.go): the loop     *)
(* that gives a worker instance the secondary VNICs of its spec, each      *)
(* looked up by display name and attached when it is not listed.  The      *)
(* reconciles of one object never overlap; any of them may be cut short    *)
(* and the next one starts from the first entry again.                     *)
(***************************************************************************)
EXTENDS Naturals, FiniteSets

CONSTANTS
  N,           \* number of entries of Spec.VnicAttachments
  VnicName,    \* display names
  Name,        \* the display name of each entry
  Budget       \* bound on failures, lost replies and crashes

ASSUME SpecAssumption ==
  /\ N \in Nat \ {0} /\ Name \in [1..N -> VnicName]
  /\ Budget \in Nat

VARIABLES
  pc,      \* the next call
  k,       \* the entry the loop is at
  mem,     \* the entries whose VnicAttachmentId is set, in memory
  ids,     \* the same, in the API server
  ready,   \* the reconcile got past the VNICs: SetReady
  stored,  \* Status.Ready in the API server
  att,     \* how many attachments of each name the instance has
  missed,  \* history: the list calls that failed
  budget

vars == <<pc, k, mem, ids, ready, stored, att, missed, budget>>

Init ==
  /\ pc = "idle" /\ k = 1 /\ mem = {} /\ ids = {}
  /\ ready = FALSE /\ stored = FALSE
  /\ att = [n \in VnicName |-> 0] /\ missed = 0 /\ budget = Budget

Spend == budget > 0 /\ budget' = budget - 1

\* The running branch of reconcileNormal is reached.
Start ==
  /\ pc = "idle"
  /\ pc' = "list" /\ k' = 1 /\ mem' = ids /\ ready' = FALSE
  /\ UNCHANGED <<ids, stored, att, missed, budget>>

\* Mutants: the cursor runs past the last entry; the last entry is left out.
AdvancePast == k' = k + 1 /\ pc' = "list" /\ UNCHANGED ready
AdvanceEarly == \/ k < N - 1 /\ k' = k + 1 /\ pc' = "list" /\ UNCHANGED ready
                \/ k >= N - 1 /\ ready' = TRUE /\ pc' = "close" /\ UNCHANGED k

\* To the next entry, or out of the loop to SetReady.
Advance == \/ k < N /\ k' = k + 1 /\ pc' = "list" /\ UNCHANGED ready
           \/ k = N /\ ready' = TRUE /\ pc' = "close" /\ UNCHANGED k

Return == pc' = "close" /\ UNCHANGED <<k, ready>>

\* Mutant: the recorded ID, not the name, says that a VNIC is attached.
ExistsById(n) == \E j \in mem : Name[j] = n
Exists(n) == att[n] > 0

\* vnicAttachmentExists: an error of the list call reads as "not attached".
List ==
  /\ pc = "list"
  /\ \/ Exists(Name[k]) /\ Advance /\ UNCHANGED <<missed, budget>>
     \/ ~Exists(Name[k]) /\ pc' = "attach" /\ UNCHANGED <<k, ready, missed, budget>>
     \/ Spend /\ missed' = missed + 1 /\ pc' = "attach" /\ UNCHANGED <<k, ready>>
  /\ UNCHANGED <<mem, ids, stored, att>>

\* createVnicAttachment: AttachVnic carries no retry token.  It fails before
\* or after it took effect, or the new ID goes into the spec.
Attach ==
  /\ pc = "attach"
  /\ \/ Spend /\ Return /\ UNCHANGED <<mem, att>>
     \/ /\ att' = [att EXCEPT ![Name[k]] = @ + 1]
        /\ \/ Spend /\ Return /\ UNCHANGED mem
           \/ mem' = mem \cup {k} /\ Advance /\ UNCHANGED budget
  /\ UNCHANGED <<ids, stored, missed>>

\* Mutant: the status is not patched.
CloseSpecOnly ==
  /\ pc = "close" /\ pc' = "idle" /\ ids' = mem
  /\ UNCHANGED <<k, mem, ready, stored, att, missed, budget>>

\* Close patches the spec and the status, either of which may fail.
Close ==
  /\ pc = "close" /\ pc' = "idle"
  /\ \/ ids' = mem /\ stored' = (stored \/ ready) /\ UNCHANGED budget
     \/ /\ Spend
        /\ ids' \in {ids, mem} /\ stored' \in {stored, stored \/ ready}
  /\ UNCHANGED <<k, mem, ready, att, missed>>

Crash ==
  /\ pc # "idle" /\ Spend /\ pc' = "idle"
  /\ UNCHANGED <<k, mem, ids, ready, stored, att, missed>>

Next == Start \/ List \/ Attach \/ Close \/ Crash

Spec == Init /\ [][Next]_vars

(* A reconcile that failed is queued again; one that runs goes on.         *)
FairSpec == Spec /\ WF_vars(Start \/ List \/ Attach \/ Close)

-----------------------------------------------------------------------------
\* Counters, cursors and flags stay in range.
TypeOK ==
  /\ pc \in {"idle", "list", "attach", "close"} /\ k \in 1..N
  /\ mem \subseteq 1..N /\ ids \subseteq 1..N
  /\ ready \in BOOLEAN /\ stored \in BOOLEAN
  /\ att \in [VnicName -> Nat] /\ missed \in Nat /\ budget \in Nat

\* Lost replies of AttachVnic, failed patches and crashes never attach a VNIC
\* of a name twice, although the call has no retry token; only a list call
\* that failed costs a second one, and each such call at most one.
NoDuplicateVnic == \A n \in VnicName : att[n] <= 1 + missed

Entries(n) == {j \in 1..N : Name[j] = n}

\* "VNICs have been attached to instance.": a machine is reported ready only
\* when every entry of the spec has a VNIC of its own.
ReadyMeansAttached ==
  stored => \A n \in VnicName : att[n] >= Cardinality(Entries(n))

\* The loop gets to its end however often it is cut short.
EventuallyReady == <>stored
=============================================================================
