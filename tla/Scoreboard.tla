----------------------------- MODULE Scoreboard -----------------------------
(***************************************************************************)
(* What Ara's sequencer promises about the instructions in flight, without *)
(* its state machine, its handshakes and its counters: an instruction gets *)
(* an identifier nobody uses, and a row of the hazard table that names the *)
(* last writer of every register it reads, the last writer and the last    *)
(* reader of the register it writes, and nothing that has finished.        *)
(***************************************************************************)
EXTENDS AraPkg

VARIABLES
    running,      \* the identifiers in flight
    waits,        \* for each of them, the instructions it waits for
    older,        \* for each of them, the instructions issued before it
    lastWriter,   \* for each register, the instruction that last wrote it
    lastReader    \* for each register, the instruction that last read it

sbVars == <<running, waits, older, lastWriter, lastReader>>

TypeOK ==
    /\ running \subseteq Ids
    /\ waits \in [Ids -> SUBSET Ids]
    /\ older \in [Ids -> SUBSET Ids]
    /\ lastWriter \in [Regs -> Ids \cup {NoId}]
    /\ lastReader \in [Regs -> Ids \cup {NoId}]

Init ==
    /\ running = {}
    /\ waits = [i \in Ids |-> {}]
    /\ older = [i \in Ids |-> {}]
    /\ lastWriter = [x \in Regs |-> NoId]
    /\ lastReader = [x \in Regs |-> NoId]

\* The instructions to wait for before reading rs and writing ws.
Dependencies(rs, ws) ==
    ({lastWriter[x] : x \in rs \cup ws} \cup {lastReader[x] : x \in ws})
      \ {NoId}

\* Mutants: what has finished is not removed.
Without_Kept(f, fin) == f
Forget_Never(list, fin) == list

\* What is left of f once the instructions in fin are gone.
Without(f, fin) == [i \in Ids |-> IF i \in fin THEN {} ELSE f[i] \ fin]
Forget(list, fin) ==
    [x \in Regs |-> IF list[x] \in fin THEN NoId ELSE list[x]]

\* Some instructions finish.
Retire(fin) ==
    /\ running' = running \ fin
    /\ waits' = Without(waits, fin)
    /\ older' = Without(older, fin)
    /\ lastWriter' = Forget(lastWriter, fin)
    /\ lastReader' = Forget(lastReader, fin)

\* An instruction that reads the registers rs and writes ws enters as id, while
\* the instructions in fin finish.
Issue(id, rs, ws, fin) ==
    /\ id \notin running
    /\ running' = (running \ fin) \cup {id}
    /\ waits' = [Without(waits, fin) EXCEPT
                   ![id] = Dependencies(rs, ws) \ fin]
    /\ older' = [Without(older, fin) EXCEPT ![id] = running \ fin]
    /\ lastWriter' = [x \in Regs |-> IF x \in ws THEN id
                                     ELSE Forget(lastWriter, fin)[x]]
    /\ lastReader' = [x \in Regs |-> IF x \in rs THEN id
                                     ELSE Forget(lastReader, fin)[x]]

(***************************************************************************)
(* An instruction without a functional unit (a scalar move) enters: it     *)
(* takes no identifier, but replaces the last reader of its source.        *)
(***************************************************************************)
IssueUntracked(rs, fin) ==
    /\ running' = running \ fin
    /\ waits' = Without(waits, fin)
    /\ older' = Without(older, fin)
    /\ lastWriter' = Forget(lastWriter, fin)
    /\ lastReader' = [x \in Regs |-> IF x \in rs THEN NoId
                                     ELSE Forget(lastReader, fin)[x]]

\* Instructions write one register or none.
Targets == {{}} \cup {{x} : x \in Regs}

Next ==
    \E fin \in SUBSET running :
        \/ Retire(fin)
        \/ \E rs \in SUBSET Regs :
              \/ IssueUntracked(rs, fin)
              \/ \E id \in Ids, ws \in Targets : Issue(id, rs, ws, fin)

Spec == Init /\ [][Next]_sbVars

-----------------------------------------------------------------------------

(***************************************************************************)
(* An instruction only ever waits for instructions that were issued before *)
(* it and are still in flight: the table holds no leftover of a previous   *)
(* user of an identifier, and no instruction waits for itself.             *)
(***************************************************************************)
WaitsOnOlder ==
    \A i \in running : waits[i] \subseteq older[i] /\ older[i] \subseteq running

(***************************************************************************)
(* The instructions in flight are totally ordered by age.                  *)
(***************************************************************************)
AgeIsAnOrder ==
    \A i, j \in running :
        /\ i \notin older[i]
        /\ i # j => (i \in older[j] <=> j \notin older[i])
        /\ j \in older[i] => older[j] \subseteq older[i]

(***************************************************************************)
(* Nobody waits in a circle: every set of instructions in flight has a     *)
(* member that waits for no other member.                                  *)
(***************************************************************************)
NoCircularWait ==
    \A S \in SUBSET running :
        S # {} => \E i \in S : waits[i] \cap S = {}

(***************************************************************************)
(* The bookkeeping makes sense: instructions in flight are ordered by age, *)
(* and wait for older ones only.                                           *)
(***************************************************************************)
OrderedByAge == TypeOK /\ AgeIsAnOrder /\ WaitsOnOlder
=============================================================================
