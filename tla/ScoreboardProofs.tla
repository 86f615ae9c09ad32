-------------------------- MODULE ScoreboardProofs --------------------------
(***************************************************************************)
(* What the scoreboard promises, proved for any number of instructions in  *)
(* flight and any set of registers.                                        *)
(***************************************************************************)
EXTENDS Scoreboard, FiniteSetTheorems, WellFoundedInduction, TLAPS

(***************************************************************************)
(* The lists name instructions in flight only.  Without it a new row could *)
(* name an instruction that finished long ago.                             *)
(***************************************************************************)
ListsCurrent ==
    \A x \in Regs : /\ lastWriter[x] \in running \cup {NoId}
                    /\ lastReader[x] \in running \cup {NoId}

(***************************************************************************)
(* The inductive invariant.  No identifier is NoId, and an identifier in   *)
(* flight is never handed out again.                                       *)
(***************************************************************************)
IInv == TypeOK /\ ListsCurrent /\ WaitsOnOlder /\ AgeIsAnOrder

LEMMA NoIdIsNoId == NoId \notin Ids
BY VInsnAssumption DEF NoId, Ids

LEMMA InitIInv == Init => IInv
BY DEF Init, IInv, TypeOK, ListsCurrent, WaitsOnOlder, AgeIsAnOrder

-----------------------------------------------------------------------------
(***************************************************************************)
(* What finishing, and entering, do to the state.  All three steps of the  *)
(* scoreboard leave the same rows to the instructions that stay.           *)
(***************************************************************************)

\* Finished instructions leave rows that name running instructions only.
LEMMA WithoutType ==
    ASSUME NEW f \in [Ids -> SUBSET Ids], NEW fin \in SUBSET Ids
    PROVE  /\ Without(f, fin) \in [Ids -> SUBSET Ids]
           /\ \A i \in Ids \ fin : Without(f, fin)[i] = f[i] \ fin
BY DEF Without

\* Finished instructions leave lists that name running instructions only.
LEMMA ForgetType ==
    ASSUME NEW run \in SUBSET Ids, NEW fin \in SUBSET run,
           NEW list \in [Regs -> Ids \cup {NoId}],
           \A x \in Regs : list[x] \in run \cup {NoId}
    PROVE  /\ Forget(list, fin) \in [Regs -> Ids \cup {NoId}]
           /\ \A x \in Regs : Forget(list, fin)[x] \in (run \ fin) \cup {NoId}
BY DEF Forget

\* A step that only takes instructions away keeps the order of the others.
LEMMA FinishKeepsOrder ==
    ASSUME IInv, NEW fin \in SUBSET running,
           running' = running \ fin,
           waits' = Without(waits, fin),
           older' = Without(older, fin)
    PROVE  WaitsOnOlder' /\ AgeIsAnOrder'
<1>1. \A i \in running' : /\ i \in running /\ i \notin fin
                          /\ waits'[i] = waits[i] \ fin
                          /\ older'[i] = older[i] \ fin
  BY WithoutType DEF IInv, TypeOK
<1>2. WaitsOnOlder'
  BY <1>1 DEF IInv, WaitsOnOlder
<1>3. AgeIsAnOrder'
  BY <1>1 DEF IInv, AgeIsAnOrder
<1> QED BY <1>2, <1>3

LEMMA RetireIInv ==
    ASSUME IInv, NEW fin \in SUBSET running, Retire(fin)
    PROVE  IInv'
<1>1. fin \in SUBSET Ids
  BY DEF IInv, TypeOK
<1>2. TypeOK'
  <2>1. running' \subseteq Ids
    BY DEF IInv, TypeOK, Retire
  <2>2. waits' \in [Ids -> SUBSET Ids] /\ older' \in [Ids -> SUBSET Ids]
    BY <1>1, WithoutType DEF IInv, TypeOK, Retire
  <2>3. /\ lastWriter' \in [Regs -> Ids \cup {NoId}]
        /\ lastReader' \in [Regs -> Ids \cup {NoId}]
    BY ForgetType DEF IInv, TypeOK, ListsCurrent, Retire
  <2> QED BY <2>1, <2>2, <2>3 DEF TypeOK
<1>3. ListsCurrent'
  BY ForgetType DEF IInv, TypeOK, ListsCurrent, Retire
<1>4. WaitsOnOlder' /\ AgeIsAnOrder'
  BY FinishKeepsOrder DEF Retire
<1> QED BY <1>2, <1>3, <1>4 DEF IInv

LEMMA IssueUntrackedIInv ==
    ASSUME IInv, NEW fin \in SUBSET running, NEW rs \in SUBSET Regs,
           IssueUntracked(rs, fin)
    PROVE  IInv'
<1>1. fin \in SUBSET Ids
  BY DEF IInv, TypeOK
<1>2. TypeOK' /\ ListsCurrent'
  <2>1. running' \subseteq Ids
    BY DEF IInv, TypeOK, IssueUntracked
  <2>2. waits' \in [Ids -> SUBSET Ids] /\ older' \in [Ids -> SUBSET Ids]
    BY <1>1, WithoutType DEF IInv, TypeOK, IssueUntracked
  <2>3. /\ lastWriter' \in [Regs -> Ids \cup {NoId}]
        /\ \A x \in Regs : lastWriter'[x] \in running' \cup {NoId}
    BY ForgetType DEF IInv, TypeOK, ListsCurrent, IssueUntracked
  <2>4. /\ lastReader' \in [Regs -> Ids \cup {NoId}]
        /\ \A x \in Regs : lastReader'[x] \in running' \cup {NoId}
    <3>1. \A x \in Regs :
            /\ Forget(lastReader, fin)[x] \in running' \cup {NoId}
            /\ Forget(lastReader, fin)[x] \in Ids \cup {NoId}
      BY ForgetType DEF IInv, TypeOK, ListsCurrent, IssueUntracked
    <3> QED BY <3>1 DEF IssueUntracked
  <2> QED BY <2>1, <2>2, <2>3, <2>4 DEF TypeOK, ListsCurrent
<1>3. WaitsOnOlder' /\ AgeIsAnOrder'
  BY FinishKeepsOrder DEF IssueUntracked
<1> QED BY <1>2, <1>3 DEF IInv

LEMMA IssueIInv ==
    ASSUME IInv, NEW fin \in SUBSET running, NEW rs \in SUBSET Regs,
           NEW ws \in SUBSET Regs, NEW id \in Ids, Issue(id, rs, ws, fin)
    PROVE  IInv'
<1>1. fin \in SUBSET Ids /\ id \notin running
  BY DEF IInv, TypeOK, Issue
<1>2. Dependencies(rs, ws) \subseteq running
  BY DEF IInv, ListsCurrent, Dependencies
<1>3. TypeOK' /\ ListsCurrent'
  <2>1. running' \subseteq Ids
    BY DEF IInv, TypeOK, Issue
  <2>2. waits' \in [Ids -> SUBSET Ids]
    BY <1>1, <1>2, WithoutType DEF IInv, TypeOK, Issue
  <2>3. older' \in [Ids -> SUBSET Ids]
    BY <1>1, WithoutType DEF IInv, TypeOK, Issue
  <2>4. \A x \in Regs :
          /\ Forget(lastWriter, fin)[x] \in (running \ fin) \cup {NoId}
          /\ Forget(lastReader, fin)[x] \in (running \ fin) \cup {NoId}
    BY ForgetType DEF IInv, TypeOK, ListsCurrent
  <2>5. running \ fin \subseteq Ids \cap running'
    BY DEF IInv, TypeOK, Issue
  <2>6. /\ lastWriter' \in [Regs -> Ids \cup {NoId}]
        /\ \A x \in Regs : lastWriter'[x] \in running' \cup {NoId}
    BY <2>4, <2>5 DEF Issue
  <2>7. /\ lastReader' \in [Regs -> Ids \cup {NoId}]
        /\ \A x \in Regs : lastReader'[x] \in running' \cup {NoId}
    BY <2>4, <2>5 DEF Issue
  <2> QED BY <2>1, <2>2, <2>3, <2>6, <2>7 DEF TypeOK, ListsCurrent
<1>4. /\ waits'[id] = Dependencies(rs, ws) \ fin
      /\ older'[id] = running \ fin
      /\ running' = (running \ fin) \cup {id}
  BY <1>1, WithoutType DEF IInv, TypeOK, Issue
<1>5. \A i \in running \ fin : /\ i # id
                               /\ waits'[i] = waits[i] \ fin
                               /\ older'[i] = older[i] \ fin
  BY <1>1, WithoutType DEF IInv, TypeOK, Issue
<1>6. WaitsOnOlder'
  BY <1>2, <1>4, <1>5 DEF IInv, WaitsOnOlder
<1>7. AgeIsAnOrder'
  <2>1. \A i \in running \ fin : older[i] \subseteq running
    BY DEF IInv, WaitsOnOlder
  <2>2. \A i, j \in running \ fin :
          /\ i \notin older'[i]
          /\ i # j => (i \in older'[j] <=> j \notin older'[i])
          /\ j \in older'[i] => older'[j] \subseteq older'[i]
    BY <1>5 DEF IInv, AgeIsAnOrder
  <2>3. \A i \in running \ fin : id \notin older'[i] /\ i \in older'[id]
                                 /\ older'[i] \subseteq older'[id]
    BY <1>1, <1>4, <1>5, <2>1
  <2> QED BY <1>1, <1>4, <2>2, <2>3 DEF AgeIsAnOrder
<1> QED BY <1>3, <1>6, <1>7 DEF IInv

LEMMA NextIInv == IInv /\ [Next]_sbVars => IInv'
<1> SUFFICES ASSUME IInv, [Next]_sbVars PROVE IInv'
  OBVIOUS
<1>1. CASE Next
  <2>1. PICK fin \in SUBSET running :
          \/ Retire(fin)
          \/ \E rs \in SUBSET Regs :
                \/ IssueUntracked(rs, fin)
                \/ \E id \in Ids, ws \in Targets : Issue(id, rs, ws, fin)
    BY <1>1 DEF Next
  <2>2. CASE Retire(fin)
    BY <2>2, RetireIInv
  <2>3. CASE \E rs \in SUBSET Regs : IssueUntracked(rs, fin)
    BY <2>3, IssueUntrackedIInv
  <2>4. ASSUME NEW rs \in SUBSET Regs, NEW id \in Ids, NEW ws \in Targets,
               Issue(id, rs, ws, fin)
        PROVE  IInv'
    <3>1. ws \in SUBSET Regs
      BY DEF Targets
    <3> QED BY <2>4, <3>1, IssueIInv
  <2> QED BY <2>1, <2>2, <2>3, <2>4
<1>2. CASE UNCHANGED sbVars
  BY <1>2 DEF sbVars, IInv, TypeOK, ListsCurrent, WaitsOnOlder, AgeIsAnOrder
<1> QED BY <1>1, <1>2

-----------------------------------------------------------------------------
\* The inductive invariant holds in every reachable state.
THEOREM IInvHolds == Spec => []IInv
BY InitIInv, NextIInv, PTL DEF Spec

(***************************************************************************)
(* Type correctness of the sequencer's bookkeeping.                        *)
(***************************************************************************)
THEOREM TypeCorrect == Spec => []TypeOK
<1>1. IInv => TypeOK
  BY DEF IInv
<1> QED BY <1>1, IInvHolds, PTL

(***************************************************************************)
(* An instruction only waits for instructions in flight that were issued   *)
(* before it, whichever identifiers are reused and when.                   *)
(***************************************************************************)
THEOREM OnlyOlderAwaited == Spec => []WaitsOnOlder
<1>1. IInv => WaitsOnOlder
  BY DEF IInv
<1> QED BY <1>1, IInvHolds, PTL

\* The instructions in flight are totally ordered by age.
THEOREM AgeOrders == Spec => []AgeIsAnOrder
<1>1. IInv => AgeIsAnOrder
  BY DEF IInv
<1> QED BY <1>1, IInvHolds, PTL

\* The three together.
THEOREM AlwaysOrderedByAge == Spec => []OrderedByAge
BY TypeCorrect, OnlyOlderAwaited, AgeOrders, PTL DEF OrderedByAge

(***************************************************************************)
(* Of any set of instructions in flight, the one with the fewest older     *)
(* instructions waits for none of the others.                              *)
(***************************************************************************)
LEMMA OldestWaitsForNone == IInv => NoCircularWait
<1> SUFFICES ASSUME IInv, NEW S \in SUBSET running, S # {}
             PROVE  \E i \in S : waits[i] \cap S = {}
  BY DEF NoCircularWait
<1> DEFINE Age(i) == Cardinality(older[i])
           Ages == {Age(i) : i \in S}
<1>1. \A i \in S : IsFiniteSet(older[i])
  <2>1. IsFiniteSet(Ids)
    BY VInsnAssumption, FS_Interval DEF Ids
  <2>2. \A i \in S : older[i] \in SUBSET Ids
    BY DEF IInv, TypeOK, WaitsOnOlder
  <2> QED BY <2>1, <2>2, FS_Subset
<1>2. Ages \subseteq Nat
  BY <1>1, FS_CardinalityType
<1>3. PICK n \in Ages : \A m \in Ages : ~ (<<m, n>> \in OpToRel(<, Nat))
  <2>1. Ages # {}
    OBVIOUS
  <2> QED BY <1>2, <2>1, NatLessThanWellFounded, WFMin
<1>4. PICK i \in S : n = Age(i)
  OBVIOUS
<1>5. \A j \in S : ~ (Age(j) < Age(i))
  BY <1>2, <1>3, <1>4 DEF OpToRel
<1>6. ASSUME NEW j \in waits[i] \cap S
      PROVE  FALSE
  <2>1. j \in older[i] /\ j \notin older[j] /\ older[j] \subseteq older[i]
    BY <1>6 DEF IInv, WaitsOnOlder, AgeIsAnOrder
  <2>2. Age(j) <= Age(i) /\ Age(j) # Age(i)
    BY <1>1, <2>1, FS_Subset
  <2>3. Age(i) \in Nat /\ Age(j) \in Nat
    BY <1>2
  <2> QED BY <1>5, <2>2, <2>3
<1> QED BY <1>6

(***************************************************************************)
(* The instructions in flight never wait for one another in a circle.      *)
(***************************************************************************)
THEOREM NobodyWaitsInACircle == Spec => []NoCircularWait
BY OldestWaitsForNone, IInvHolds, PTL
=============================================================================
