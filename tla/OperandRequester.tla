-------------------------- MODULE OperandRequester --------------------------
(***************************************************************************)
(* How a lane chains instructions.  The operand requesters read the        *)
(* registers an instruction needs, word by word, into the operand queues;  *)
(* the functional units turn operands into results and write them back.    *)
(* An instruction that depends on an earlier one may start before that one *)
(* is finished: it reads a word for every word the earlier one writes.     *)
(*                                                                         *)
(* One step is one clock cycle of one lane.  A program is a sequence of    *)
(* instructions; an instruction is known by its place in the program, and  *)
(* a word of the register file by the instruction that wrote it last, so   *)
(* what an operand should hold is known without any arithmetic.            *)
(***************************************************************************)
EXTENDS Integers, Sequences, FiniteSets

CONSTANTS
    Programs,          \* the programs the lane may be given
    WordsPerReg,       \* words of a vector register in a lane
    NrBanks,           \* banks of the register file
    DataBufDepth,      \* words an operand queue holds
    ResultQueueDepth,  \* results a functional unit holds
    MaxInsns           \* instructions in the longest program

ASSUME WordsAssumption == WordsPerReg \in Nat \ {0}
ASSUME BanksAssumption == NrBanks \in Nat \ {0}
ASSUME BuffersAssumption == /\ DataBufDepth \in Nat \ {0}
                            /\ ResultQueueDepth \in Nat \ {0}

Queues == {"AluA", "AluB", "MulFPUA", "MulFPUB", "StA"}
FUs == {"Alu", "MFpu", "LoadUnit", "StoreUnit"}

\* The operand queues of a functional unit.
QueuesOf(fu) == CASE fu = "Alu"       -> {"AluA", "AluB"}
                  [] fu = "MFpu"      -> {"MulFPUA", "MulFPUB"}
                  [] fu = "StoreUnit" -> {"StA"}
                  [] fu = "LoadUnit"  -> {}

\* Masters of the register file that are served first.
HighPriority == {"AluA", "AluB", "MulFPUA", "MulFPUB", "Alu", "MFpu"}

NoReg == 32

(***************************************************************************)
(* An instruction reads src[q] through each queue q of its domain, and     *)
(* makes out result words, which it writes from register vd on unless it   *)
(* is a store.  A widening instruction makes two results of every operand  *)
(* word, a narrowing one needs two operand words for a result.  A lane     *)
(* without elements of the instruction has out = 0.                        *)
(***************************************************************************)
Rates == {"same", "wide", "narrow"}

\* Operand words to be read for each queue.
words(i) == CASE i.rate = "same"   -> i.out
              [] i.rate = "wide"   -> (i.out + 1) \div 2
              [] i.rate = "narrow" -> 2 * i.out

\* An instruction reads through the queues of its unit.
InsnOK(i) ==
    /\ i.fu \in FUs /\ i.rate \in Rates
    /\ i.vd \in 0..NoReg /\ i.out \in Nat
    /\ DOMAIN i.src \subseteq QueuesOf(i.fu)
    /\ \A q \in DOMAIN i.src : i.src[q] \in 0..(NoReg - 1)

ASSUME ProgramsAssumption ==
    \A p \in Programs : /\ Len(p) \in Nat
                        /\ \A n \in 1..Len(p) : InsnOK(p[n])

vaddr(r) == r * WordsPerReg

\* The words of the register file an instruction writes.
Dst(i) == IF i.vd = NoReg THEN {}
          ELSE vaddr(i.vd) .. (vaddr(i.vd) + i.out - 1)

VARIABLES
    prog,        \* the program
    issued,      \* how many of its instructions the lane has received
    running,     \* instructions that are not known to be finished
    table,       \* rows of the global hazard table
    opreq,       \* the operand request register of each queue; 0 is none
    requester,   \* the state of the operand requesters
    written,     \* instructions that wrote a result in the last cycle
    ibuf,        \* the operand queues
    unit,        \* the instructions each functional unit has to execute
    made,        \* steps each instruction has executed, and whether it is
    half,        \*   half way through an operand or a result
    resq,        \* the result queues
    wrote,       \* results each instruction has written
    vrf          \* the writer of each word of the register file

reqVars == <<issued, running, table, opreq>>
unitVars == <<unit, made, half>>
vars == <<prog, reqVars, requester, written, ibuf, unitVars, resq, wrote, vrf>>

Idle == [state |-> "IDLE", id |-> 0, addr |-> 0, len |-> 0, hazard |-> {},
         is_widening |-> FALSE, waw |-> {}]

Insn(n) == prog[n]
Prog == 1..Len(prog)
Addrs == UNION {Dst(i) : i \in UNION {{p[k] : k \in 1..Len(p)} : p \in Programs}}
Sources(i) == DOMAIN i.src

Init ==
    /\ prog \in Programs
    /\ issued = 0
    /\ running = {}
    /\ table = [n \in Prog |-> {}]
    /\ opreq = [q \in Queues |-> 0]
    /\ requester = [q \in Queues |-> Idle]
    /\ written = {}
    /\ ibuf = [q \in Queues |-> <<>>]
    /\ unit = [f \in FUs |-> <<>>]
    /\ made = [n \in Prog |-> 0]
    /\ half = [n \in Prog |-> FALSE]
    /\ resq = [f \in FUs |-> <<>>]
    /\ wrote = [n \in Prog |-> 0]
    /\ vrf = [a \in Addrs |-> 0]

-----------------------------------------------------------------------------
(***************************************************************************)
(* The hazards of an instruction, as the main sequencer finds them: the    *)
(* last writer of a source, the last reader and the last writer of the     *)
(* destination.                                                            *)
(***************************************************************************)
Latest(S) == {n \in S : \A m \in S : m <= n}
Earlier(n) == 1..(n - 1)
Writer(n, r) == Latest({m \in Earlier(n) : Insn(m).vd = r /\ r # NoReg})
Reader(n, r) ==
    Latest({m \in Earlier(n) : \E q \in Sources(Insn(m)) : Insn(m).src[q] = r})

\* Mutant: the previous writer of the destination is forgotten.
Hazard_NoWAW(n, q) == Writer(n, Insn(n).src[q]) \cup Reader(n, Insn(n).vd)

Hazard(n, q) == Writer(n, Insn(n).src[q]) \cup Reader(n, Insn(n).vd)
                  \cup Writer(n, Insn(n).vd)
Row(n) == Reader(n, Insn(n).vd) \cup Writer(n, Insn(n).vd)
            \cup UNION {Hazard(n, q) : q \in Sources(Insn(n))}

\* The lane takes the next instruction once the request registers of its unit
\* are free.  One that has no operands waited for its hazards before.
MayIssue(n) ==
    /\ n \in Prog
    /\ \A q \in QueuesOf(Insn(n).fu) : opreq[q] = 0
    /\ Sources(Insn(n)) = {} => Row(n) \cap running = {}

\* Instructions that have written all their results, or stored all their
\* operands, or have no element in this lane.
Complete(n) ==
    /\ n \in running
    /\ made[n] = Insn(n).out
    /\ Insn(n).vd # NoReg => wrote[n] = Insn(n).out

-----------------------------------------------------------------------------
(***************************************************************************)
(* The register file.  In each bank one master is served; the in-lane      *)
(* units and their queues go before the others.                            *)
(***************************************************************************)

\* Mutant: a result of one of the instructions it depends on is enough.
stall_Any(q) ==
    requester[q].hazard # {} /\ requester[q].hazard \cap written = {}

\* A requester waits unless every instruction it depends on wrote a result in
\* the last cycle; a widening one lets every other result pass.
stall(q) ==
    \E h \in requester[q].hazard :
        \/ h \notin written
        \/ requester[q].is_widening /\ h \notin requester[q].waw

\* Mutant: a queue is asked to hold one word more than it can.
Ready_Late(q) == Len(ibuf[q]) # DataBufDepth + 1

\* An operand queue with a credit left.
Ready(q) == Len(ibuf[q]) # DataBufDepth

Reading == {q \in Queues : /\ requester[q].state = "REQUESTING"
                           /\ Ready(q) /\ ~stall(q)}
Writing == {f \in FUs : resq[f] # <<>>}
Bank(m) ==
    (IF m \in Queues THEN requester[m].addr ELSE Head(resq[m]).addr) % NrBanks

At(b) == {m \in Reading \cup Writing : Bank(m) = b}
Served(b) == IF At(b) \cap HighPriority # {} THEN At(b) \cap HighPriority
             ELSE At(b)
Grants ==
    {G \in SUBSET (Reading \cup Writing) :
        \A b \in 0..(NrBanks - 1) :
            /\ G \cap At(b) \subseteq Served(b)
            /\ Cardinality(G \cap At(b)) = IF At(b) = {} THEN 0 ELSE 1}

\* The instructions that write a result.
WritersOf(G) == {Head(resq[f]).id : f \in G \cap FUs}

-----------------------------------------------------------------------------
(***************************************************************************)
(* The operand requesters.                                                 *)
(***************************************************************************)

\* The last word of an operand is read.
LastRead(q, G) == q \in G /\ requester[q].len = 1

Accepts(q, G) ==
    opreq[q] # 0 /\ (requester[q].state = "IDLE" \/ LastRead(q, G))

Fresh(q, n) == [Idle EXCEPT !.state = "REQUESTING",
                            !.id = n,
                            !.addr = vaddr(Insn(n).src[q]),
                            !.len = IF words(Insn(n)) = 0 THEN 1
                                    ELSE words(Insn(n)),
                            !.hazard = Hazard(n, q) \cap table[n]]

\* CVT_WIDE is encoded as zero, the value the request of a store leaves.
IsWidening(q, n) == Insn(n).rate = "wide" \/ q = "StA"

\* Mutant: a request without elements is not muted.
FromIdle_Unmuted(q, n) ==
    [Fresh(q, n) EXCEPT !.is_widening = IsWidening(q, n)]

\* A request taken in IDLE: muted when the lane has no element.
FromIdle(q, n) ==
    IF words(Insn(n)) = 0 THEN Idle
    ELSE [Fresh(q, n) EXCEPT !.is_widening = IsWidening(q, n)]

\* A request taken as the last word of the one before is read.
BackToBack(q, n) == Fresh(q, n)

Toggled(S, T) == (S \ T) \cup (T \ S)

Requester(q, G) ==
    LET r == requester[q]
        kept == [r EXCEPT !.waw = Toggled(r.waw, WritersOf(G)),
                          !.hazard = r.hazard \cap table[r.id]]
    IN  IF r.state = "IDLE"
        THEN IF opreq[q] = 0 THEN Idle ELSE FromIdle(q, opreq[q])
        ELSE IF q \notin G THEN kept
        ELSE IF r.len > 1
        THEN [kept EXCEPT !.addr = r.addr + 1, !.len = r.len - 1]
        ELSE IF opreq[q] = 0 THEN Idle ELSE BackToBack(q, opreq[q])

-----------------------------------------------------------------------------
(***************************************************************************)
(* The functional units, each in order.                                    *)
(***************************************************************************)
CanWork(f) ==
    /\ unit[f] # <<>>
    /\ Len(resq[f]) < ResultQueueDepth
    /\ \A q \in Sources(Insn(Head(unit[f]))) : ibuf[q] # <<>>

\* A step of instruction n uses up its operands, and makes a result.
Consumes(n) ==
    Insn(n).rate = "wide" => half[n] \/ made[n] + 1 = Insn(n).out
Produces(n) == Insn(n).rate = "narrow" => half[n]

Halves(n) == Insn(n).rate \in {"wide", "narrow"} /\ ~half[n]

Units(work) ==
    LET now == {Head(unit[f]) : f \in work}
    IN  /\ made' = [n \in Prog |-> IF n \in now /\ Produces(n) THEN made[n] + 1
                                   ELSE made[n]]
        /\ half' = [n \in Prog |-> IF n \in now THEN Halves(n) ELSE half[n]]

\* Instructions a unit is through with.
Executed(f, work) ==
    /\ f \in work
    /\ Produces(Head(unit[f]))
    /\ made[Head(unit[f])] + 1 = Insn(Head(unit[f])).out

Pop(seq, yes) == IF yes THEN Tail(seq) ELSE seq
Push(seq, yes, e) == IF yes THEN Append(seq, e) ELSE seq

Popped(q, work) ==
    \E f \in work : q \in Sources(Insn(Head(unit[f])))
                    /\ Consumes(Head(unit[f]))

Buffers(G, work) ==
    ibuf' = [q \in Queues |->
               Push(Pop(ibuf[q], Popped(q, work)), q \in G,
                    [id |-> requester[q].id, addr |-> requester[q].addr,
                     writer |-> IF requester[q].addr \in Addrs
                                THEN vrf[requester[q].addr] ELSE 0])]

Results(G, work) ==
    resq' = [f \in FUs |->
               LET n == Head(unit[f])
               IN  Push(Pop(resq[f], f \in G),
                        f \in work /\ Produces(n) /\ Insn(n).vd # NoReg,
                        [id |-> n, addr |-> vaddr(Insn(n).vd) + made[n]])]

WriteBack(G) ==
    /\ wrote' = [n \in Prog |-> IF n \in WritersOf(G) THEN wrote[n] + 1
                                ELSE wrote[n]]
    /\ vrf' = [a \in Addrs |->
                 IF \E f \in G \cap FUs : Head(resq[f]).addr = a
                 THEN CHOOSE n \in Prog : \E f \in G \cap FUs :
                         Head(resq[f]) = [id |-> n, addr |-> a]
                 ELSE vrf[a]]
    /\ written' = WritersOf(G)

-----------------------------------------------------------------------------
(***************************************************************************)
(* A cycle in which the masters in G are served, the units in work do a    *)
(* step, and the instructions in fin are reported as finished.             *)
(***************************************************************************)
Lane(G, work) ==
    /\ requester' = [q \in Queues |-> Requester(q, G)]
    /\ Units(work)
    /\ Buffers(G, work)
    /\ Results(G, work)
    /\ WriteBack(G)

\* Mutant: what finishes stays in the rows of the hazard table.
NoIssue_TableKept(G, work, fin) ==
    /\ opreq' = [q \in Queues |-> IF Accepts(q, G) THEN 0 ELSE opreq[q]]
    /\ running' = running \ fin
    /\ unit' = [f \in FUs |-> Pop(unit[f], Executed(f, work))]
    /\ UNCHANGED <<issued, table>>

\* No new instruction.
NoIssue(G, work, fin) ==
    /\ opreq' = [q \in Queues |-> IF Accepts(q, G) THEN 0 ELSE opreq[q]]
    /\ running' = running \ fin
    /\ table' = [n \in Prog |-> table[n] \ fin]
    /\ unit' = [f \in FUs |-> Pop(unit[f], Executed(f, work))]
    /\ UNCHANGED issued

\* Instruction n is received; one without elements does not reach its unit.
Issue(n, G, work, fin) ==
    /\ MayIssue(n)
    /\ opreq' = [q \in Queues |-> IF q \in Sources(Insn(n)) THEN n
                                  ELSE IF Accepts(q, G) THEN 0 ELSE opreq[q]]
    /\ running' = (running \ fin) \cup {n}
    /\ table' = [m \in Prog |-> (IF m = n THEN Row(n) \cap running
                                 ELSE table[m]) \ fin]
    /\ unit' = [f \in FUs |-> Push(Pop(unit[f], Executed(f, work)),
                                   f = Insn(n).fu /\ Insn(n).out > 0, n)]
    /\ issued' = n

Cycle(G, work, fin) ==
    /\ Lane(G, work)
    /\ NoIssue(G, work, fin) \/ Issue(issued + 1, G, work, fin)
    /\ UNCHANGED prog

Next ==
    \E G \in Grants, work \in SUBSET {f \in FUs : CanWork(f)},
       fin \in SUBSET {n \in Prog : Complete(n)} : Cycle(G, work, fin)

Spec == Init /\ [][Next]_vars

(***************************************************************************)
(* Memory answers, a unit with operands and room for the result works, an  *)
(* instruction that is complete is reported, and the sequencer goes on.    *)
(* The arbiters need no fairness: in every cycle they serve someone.       *)
(***************************************************************************)
Step(Taken(_, _)) ==
    \E G \in Grants, work \in SUBSET {f \in FUs : CanWork(f)},
       fin \in SUBSET {n \in Prog : Complete(n)} :
         Taken(work, fin) /\ Cycle(G, work, fin)

Works(f) == Step(LAMBDA work, fin : f \in work)
Reports(n) == n \in Prog /\ Step(LAMBDA work, fin : n \in fin)
Receives == Next /\ issued' # issued

FairSpec == /\ Spec
            /\ WF_vars(Next)
            /\ WF_vars(Receives)
            /\ \A f \in FUs : WF_vars(Works(f))
            /\ \A n \in 1..MaxInsns : WF_vars(Reports(n))

-----------------------------------------------------------------------------
(***************************************************************************)
(* The variables keep their types, and no operand queue holds more words   *)
(* than its credits, no functional unit more results than its queue.       *)
(***************************************************************************)
TypeOK ==
    /\ prog \in Programs
    /\ issued \in 0..Len(prog)
    /\ running \subseteq 1..issued
    /\ table \in [Prog -> SUBSET Prog]
    /\ opreq \in [Queues -> 0..issued]
    /\ \A q \in Queues :
         /\ requester[q].state \in {"IDLE", "REQUESTING"}
         /\ requester[q].id \in 0..issued
         /\ requester[q].len \in Nat
         /\ requester[q].hazard \subseteq Prog
         /\ requester[q].is_widening \in BOOLEAN
         /\ requester[q].waw \subseteq Prog
         /\ Len(ibuf[q]) <= DataBufDepth
    /\ \A f \in FUs : /\ \A k \in 1..Len(unit[f]) : unit[f][k] \in running
                       /\ Len(resq[f]) <= ResultQueueDepth
    /\ \A n \in Prog : /\ wrote[n] <= made[n]
                        /\ made[n] <= Insn(n).out
    /\ half \in [Prog -> BOOLEAN]
    /\ written \subseteq Prog
    /\ vrf \in [Addrs -> {0} \cup Prog]

\* The last instruction before n to write word a of the register file.
Expected(n, a) ==
    LET W == {m \in Earlier(n) : a \in Dst(Insn(m))}
    IN  IF W = {} THEN 0 ELSE CHOOSE m \in W : \A k \in W : k <= m

(***************************************************************************)
(* Every operand is what it would be if the program were executed one      *)
(* instruction after the other: an operand requester did not read it       *)
(* before its writer wrote it, nor after a later instruction overwrote it, *)
(* however the arbiters and the units delay the two.                       *)
(***************************************************************************)
OperandsInOrder ==
    \A q \in Queues : \A k \in 1..Len(ibuf[q]) :
        ibuf[q][k].writer = Expected(ibuf[q][k].id, ibuf[q][k].addr)

(***************************************************************************)
(* The second of two instructions with the same destination never          *)
(* overtakes the first: no result written to the register file is later    *)
(* overwritten by an earlier instruction.                                  *)
(***************************************************************************)
WritesInOrder == [][\A a \in Addrs : vrf'[a] >= vrf[a]]_vars

(***************************************************************************)
(* The operands a unit finds in its queues are those of the instruction it *)
(* executes: requester and unit agree on which instructions have elements  *)
(* in this lane and how many words they read.                              *)
(***************************************************************************)
OwnOperands ==
    \A f \in FUs : unit[f] # <<>> =>
        \A q \in Sources(Insn(Head(unit[f]))) :
            ibuf[q] # <<>> => Head(ibuf[q]).id = Head(unit[f])

(***************************************************************************)
(* Every program runs to its end: no cycle of full queues, instructions    *)
(* waiting for each other's results and masters waiting for a bank.        *)
(***************************************************************************)
ProgramFinishes == <>(issued = Len(prog) /\ running = {})

=============================================================================
