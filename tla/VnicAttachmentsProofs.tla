----------------------- MODULE VnicAttachmentsProofs -----------------------
(* Proofs about the loop over Spec.VnicAttachments, for any number of      *)
(* entries and of failures.                                                *)
EXTENDS VnicAttachments, FiniteSetTheorems, TLAPS

LEMMA SpendType ==
  ASSUME TypeOK, Spend \/ UNCHANGED budget PROVE budget' \in Nat
  BY DEF TypeOK, Spend

LEMMA AdvanceType ==
  ASSUME TypeOK, Advance \/ UNCHANGED <<k, ready>>
  PROVE k' \in 1..N /\ ready' \in BOOLEAN
<1>1. N \in Nat /\ k \in 1..N
  BY SpecAssumption DEF TypeOK
<1>2. k' \in 1..N
  BY <1>1 DEF Advance
<1>3. ready' \in BOOLEAN
  BY Zenon DEF TypeOK, Advance
<1> QED
  BY <1>2, <1>3

\* Spec => []TypeOK: cursors stay within the spec's entries.
THEOREM TypeCorrect == Spec => []TypeOK
<1>1. Init => TypeOK
  <2>1. 1 \in 1..N /\ Budget \in Nat /\ 0 \in Nat
    BY SpecAssumption
  <2>2. Init => att \in [VnicName -> Nat]
    BY DEF Init
  <2> QED
    BY <2>1, <2>2 DEF Init, TypeOK
<1>2. TypeOK /\ [Next]_vars => TypeOK'
  <2> SUFFICES ASSUME TypeOK, [Next]_vars PROVE TypeOK'
    OBVIOUS
  <2>n. N \in Nat /\ Name \in [1..N -> VnicName] /\ 1 \in 1..N
    BY SpecAssumption
  <2>1. CASE Start
    BY <2>1, <2>n DEF Start, TypeOK
  <2>2. CASE List
    <3>1. /\ k' \in 1..N /\ ready' \in BOOLEAN /\ budget' \in Nat
          /\ pc' \in {"list", "attach", "close"}
      BY <2>2, SpendType, AdvanceType DEF List, Advance
    <3>2. missed' \in Nat
      BY <2>2 DEF List, TypeOK
    <3> QED
      BY <2>2, <3>1, <3>2 DEF List, TypeOK
  <2>3. CASE Attach
    <3>1. att \in [VnicName -> Nat] /\ Name[k] \in VnicName
      BY <2>n DEF TypeOK
    <3>2. att' \in [VnicName -> Nat]
      BY <2>3, <3>1 DEF Attach
    <3>3. /\ k' \in 1..N /\ ready' \in BOOLEAN /\ budget' \in Nat
          /\ pc' \in {"list", "close"}
      BY <2>3, SpendType, AdvanceType DEF Attach, Advance, Return
    <3>4. mem' \subseteq 1..N
      BY <2>3 DEF Attach, TypeOK
    <3> QED
      BY <2>3, <3>2, <3>3, <3>4 DEF Attach, TypeOK
  <2>4. CASE Close
    BY <2>4, SpendType DEF Close, TypeOK
  <2>5. CASE Crash
    BY <2>5, SpendType DEF Crash, TypeOK
  <2>6. CASE UNCHANGED vars
    BY <2>6 DEF vars, TypeOK
  <2> QED
    BY <2>1, <2>2, <2>3, <2>4, <2>5, <2>6 DEF Next
<1> QED
  BY <1>1, <1>2, PTL DEF Spec

\* AttachVnic is called only for a name that the list did not show, or after
\* one more list call that failed.
OnceInv ==
  /\ NoDuplicateVnic
  /\ pc = "attach" => att[Name[k]] <= missed

\* Whatever fails, a VNIC is attached again only after a list call that failed.
THEOREM NeverTwice == Spec => []NoDuplicateVnic
<1>1. Init => OnceInv
  BY DEF Init, OnceInv, NoDuplicateVnic
<1>2. TypeOK /\ OnceInv /\ [Next]_vars => OnceInv'
  <2> SUFFICES ASSUME TypeOK, OnceInv, [Next]_vars PROVE OnceInv'
    OBVIOUS
  <2>n. N \in Nat /\ Name \in [1..N -> VnicName] /\ att \in [VnicName -> Nat] /\ k \in 1..N /\ missed \in Nat
    BY SpecAssumption DEF TypeOK
  <2>1. CASE List
    BY <2>1, <2>n DEF List, Advance, Exists, OnceInv, NoDuplicateVnic
  <2>2. CASE Attach
    <3>1. UNCHANGED missed /\ pc' \in {"list", "close"}
      BY <2>2 DEF Attach, Advance, Return
    <3>2. att[Name[k]] <= missed /\ Name[k] \in VnicName
      BY <2>2, <2>n DEF Attach, OnceInv
    <3>3. att' = att \/ att' = [att EXCEPT ![Name[k]] = @ + 1]
      BY <2>2 DEF Attach
    <3>4. \A n \in VnicName : att'[n] <= 1 + missed
      BY <3>2, <3>3, <2>n DEF OnceInv, NoDuplicateVnic
    <3> QED
      BY <3>1, <3>4 DEF OnceInv, NoDuplicateVnic
  <2>3. CASE Start \/ Close \/ Crash \/ UNCHANGED vars
    BY <2>3 DEF Start, Close, Crash, vars, OnceInv, NoDuplicateVnic
  <2> QED
    BY <2>1, <2>2, <2>3 DEF Next
<1>3. OnceInv => NoDuplicateVnic
  BY DEF OnceInv
<1> QED
  BY <1>1, <1>2, <1>3, TypeCorrect, PTL DEF Spec

-----------------------------------------------------------------------------
Attached(S) == \A j \in S : att[Name[j]] >= 1

\* The entries before the cursor have a VNIC; attachments are never undone.
LoopInv ==
  /\ pc \in {"list", "attach"} => \A j \in 1..N : j < k => att[Name[j]] >= 1
  /\ ready \/ stored => Attached(1..N)

LEMMA LoopNext ==
  ASSUME TypeOK, LoopInv, [Next]_vars PROVE LoopInv'
<1>n. N \in Nat /\ Name \in [1..N -> VnicName] /\ att \in [VnicName -> Nat] /\ k \in 1..N
  BY SpecAssumption DEF TypeOK
<1>1. \A n \in VnicName : att'[n] >= att[n]
  BY <1>n DEF Next, Start, List, Attach, Close, Crash, vars
<1>2. att' \in [VnicName -> Nat]
  BY <1>n DEF Next, Start, List, Attach, Close, Crash, vars
<1>3. Attached(1..N) => Attached(1..N)'
  BY <1>n, <1>1, <1>2 DEF Attached
<1>4. (\A j \in 1..N : j < k => att[Name[j]] >= 1)
        => \A j \in 1..N : j < k => att'[Name[j]] >= 1
  BY <1>n, <1>1, <1>2
<1>5. ASSUME Advance, pc \in {"list", "attach"}, att'[Name[k]] >= 1,
             UNCHANGED stored
      PROVE LoopInv'
  BY <1>n, <1>3, <1>4, <1>5 DEF Advance, LoopInv, Attached
<1>6. CASE Start
  BY <1>6, <1>n, <1>3 DEF Start, LoopInv
<1>7. CASE List
  <2>1. CASE Exists(Name[k]) /\ Advance
    BY <1>7, <2>1, <1>n, <1>5 DEF List, Exists
  <2>2. CASE pc' = "attach" /\ UNCHANGED <<k, ready>>
    BY <1>7, <2>2, <1>3, <1>4 DEF List, LoopInv
  <2> QED
    BY <1>7, <2>1, <2>2 DEF List
<1>8. CASE Attach
  <2>1. CASE Return
    BY <1>8, <2>1, <1>3 DEF Attach, Return, LoopInv
  <2>2. CASE Advance /\ att' = [att EXCEPT ![Name[k]] = @ + 1]
    BY <1>8, <2>2, <1>n, <1>5 DEF Attach
  <2> QED
    BY <1>8, <2>1, <2>2 DEF Attach
<1>9. CASE Close
  BY <1>9, <1>3 DEF Close, LoopInv
<1>10. CASE Crash
  BY <1>10, <1>3 DEF Crash, LoopInv
<1>11. CASE UNCHANGED vars
  BY <1>11, <1>3, <1>4 DEF vars, LoopInv
<1> QED
  BY <1>6, <1>7, <1>8, <1>9, <1>10, <1>11 DEF Next

\* When the display names differ, a ready machine has every VNIC of its spec.
THEOREM ReadyIsAttached ==
  ASSUME \A i, j \in 1..N : Name[i] = Name[j] => i = j
  PROVE Spec => []ReadyMeansAttached
<1>1. Init => LoopInv
  BY SpecAssumption DEF Init, LoopInv
<1>2. TypeOK /\ LoopInv => ReadyMeansAttached
  <2> SUFFICES ASSUME TypeOK, LoopInv, stored, NEW n \in VnicName
               PROVE att[n] >= Cardinality(Entries(n))
    BY DEF ReadyMeansAttached
  <2>1. CASE Entries(n) = {}
    BY <2>1, FS_EmptySet DEF TypeOK
  <2>2. CASE Entries(n) # {}
    <3>1. PICK j \in 1..N : Name[j] = n
      BY <2>2 DEF Entries
    <3>2. Entries(n) = {j}
      BY <3>1 DEF Entries
    <3>3. Cardinality(Entries(n)) = 1
      BY <3>2, FS_Singleton
    <3>4. att[n] >= 1
      BY <3>1 DEF LoopInv, Attached
    <3> QED
      BY <3>3, <3>4
  <2> QED
    BY <2>1, <2>2
<1> QED
  BY <1>1, <1>2, LoopNext, TypeCorrect, PTL DEF Spec
=============================================================================
