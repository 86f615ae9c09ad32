# Ara, specified

Ara is a vector unit for the CVA6 processor. CVA6 hands it vector
instructions; Ara executes several of them at once on a number of identical
lanes, chaining a dependent instruction to the one before it word by word. This
directory holds TLA+ models of the control of Ara, what TLC checks of them, and
proofs of what matters most.

Paths below are relative to `src/hardware/`, those of programs to `src/apps/`.

1. The system and its parts
2. The modules, and how they correspond to the code
3. What TLC checks: runs, bounds, fairness
4. What is proved
5. Where the code does not do what it says
6. What is not modelled, and the plan

## 1. The system and its parts

Every part is clocked RTL: its state is its registers (`*_q`), its operations
are what it does in a cycle. Parts talk by valid/ready handshakes, by one-cycle
pulses, and by shared tables that are broadcast combinationally. Nothing is
persistent and no message is lost; what is hard is that many units progress at
their own pace, and that the control relies on counts and labels kept elsewhere.

| Part | File | State | Operations | What makes it correct |
|---|---|---|---|---|
| dispatcher | `src/ara_dispatcher.sv` | vl, vtype, the element width of each register (`eew_q`), the request register, the reshuffle in progress | decode, answer CVA6, reshuffle, wait for idle | one answer per instruction; registers read with the width they were written with; completions neither lost nor doubled |
| main sequencer | `src/ara_sequencer.sv` | running bits per unit, the hazard table, last reader and writer of each register, queue counters and tickets, the instruction being broadcast | issue, stall, wait for an answer, retire | dependencies complete and acyclic; no queue overflows; identifiers reused safely; every request answered |
| lane sequencer | `src/lane/lane_sequencer.sv` | operand request registers, running and done bits | take an instruction, request operands, mute | same instruction taken once; units and requesters agree on what has elements |
| operand requesters | `src/lane/operand_requester.sv` | per queue: address, length, hazard bits, a one-bit counter | read a word when allowed; arbitrate the banks | no operand read early or late, no result overtaken |
| operand queues | `src/lane/operand_queue.sv` | buffers and credits | store, convert, hand on | no overflow; the right number of words |
| ALU of a lane | `src/lane/valu.sv` | instruction queue with accept, issue and commit pointers, result queue, two counts of elements, state of a reduction | compute, write back, reduce | every element counts once; written when reported; reductions end |
| multiplier and FPU of a lane | `src/lane/vmfpu.sv`, `simd_mul.sv`, `simd_div.sv` | the same with a processing pointer, pipelines, divider states | compute with a latency, write back, reduce | results meet their own instruction; no operand is lost under back-pressure |
| slide unit | `src/sldu/sldu.sv`, `p2_stride_gen.sv` | instruction queue, positions in the source's and the result's row, the turns left, result queue, stride and round of a reduction | slide by any amount, reshuffle, pass reductions on | every byte in its place; in step with the lanes; reported when written |
| mask unit | `src/masku/masku.sv` | the instruction, mask queue, result queue, positions in the mask and in the result, three counts of elements | hand out masks, gather comparisons and mask operations into words of bits | in step with all lanes; each element under its own bit; written when reported |
| address generator | `src/vlsu/addrgen.sv` | the request in work, address and length left, the index being used, the queue of commands | split into bursts, check alignment, order by commands | bursts stay in their page and cover the access |
| load and store unit | `src/vlsu/vldu.sv`, `vstu.sv` | instruction queues, positions in beat and word, result queue | move data, complete | bytes in order; in step with memory; one completion each |
| invalidation filter | `src/axi_inval_filter.sv` | FIFO of bursts, offset | pass a burst, invalidate lines | every written line is invalidated |
| top | `src/ara.sv` | none | wiring | |
| datapaths | `src/lane/simd_alu.sv`, `fixed_p_rounding.sv` | none | arithmetic | right results |
| vector kernels | `fmatmul/`, `fconv2d/`, `jacobi2d/`, ... | vector registers, pointers | strips, blocks, rows by turns | the scalar result; no address outside an array; they return |
| system | `src/ara_system.sv`, `ara_soc.sv`, `axi_to_mem.sv`, `ctrl_registers.sv` | | CVA6, caches, memory | |

How they interact. The dispatcher holds a request until the sequencer takes it;
for loads, stores and scalar results CVA6's instruction stays on offer until the
sequencer answers. The sequencer broadcasts an instruction to all lanes and
shared units (`pe_req`) and keeps it there until the lanes have it. Every unit
reports an instruction as done by a pulse; the sequencer deduces from lane 0's
pulses how full the queues of all lanes are. The hazard table is broadcast:
requesters drop a dependency as soon as the sequencer does, and until then read
a word for every word the other instruction writes. The load unit signals
completions to CVA6 through the dispatcher.

The hard behaviours, at their lines, are the `hazards` of `PROJECT.json`.

## 2. The modules

    AraPkg            kinds of instructions and units, as the sequencer tells them apart
    Scoreboard        what the sequencer promises                   <- ScoreboardProofs
    AraSequencer      the clocked sequencer; implements Scoreboard  <- AraSequencerProofs
    OperandRequester  one lane executing a program                  <- OperandRequesterProofs
    Dispatcher        decode, widths, answers                       <- DispatcherProofs
    ByteLayout        the order of the bytes of a register          <- ByteLayoutProofs
    InvalFilter       invalidations for the stores                  <- InvalFilterProofs

    AddrGen           bursts, beats and bytes (arithmetic)
    LoadStoreUnits    a cycle of the load unit, of the store unit
    VLSU              address generator, both units, memory,      <- VLSUProofs,
                      lanes; extends these                             VLSULedgerProofs

    VectorALU         a cycle of the ALU of a lane
    VectorMFPU        a cycle of the multiplier, divider and FPU of a lane
    SlideUnit         a cycle of the slide unit
    MaskUnit          a cycle of the mask unit
    LaneCluster       lane sequencers, ALUs, slide unit, mask unit; extends
                      VectorALU, with instances of VectorMFPU, SlideUnit and MaskUnit

    VectorProgram     registers, memory and instructions of a program
    MatrixKernels     products, small convolutions
    LargeConvolutions 7x7 convolutions
    StreamKernels     stencil, shortest path, wavelets, softmax, dropout
    Kernels           all of them

What is run has an `MC` module with the values TLC uses. In all modules of the
hardware a step is a clock cycle, except in `Scoreboard` (a step is what becomes
visible to others), `ByteLayout` (a step is a whole write) and `VLSU` (a step is
a cycle of one of its units); in those of programs a step is a pass through a
loop.

**Scoreboard / AraSequencer.** `AraSequencer` has the registers of
`ara_sequencer.sv` under their names, with sets for bit vectors: `vinsn_running`
is a set of identifiers, a row of `global_hazard_table` a set, and
`pe_vinsn_running` a set per processing element. The branches of `p_sequencer`
are the actions: `HoldRequest`, `NoRequest`, `QueueStall`, `HazardStall`,
`IssueInsn` in IDLE, `KeepWaiting` and `Answer` in WAIT. What all cycles have in
common is in `NoIssue` or `Enter` (running bits, lists, table), `Counters` and
`RunningMaskInsn`. The units are an environment: `busy` is the content of each
unit's queue, and `MayFinish` says when a unit may report an instruction. It is
taken from how the units treat their queues: in order, a reduction's lanes after
the slide unit's exchange, the mask unit after the lanes. Lanes other than lane
0 may report an instruction at once, if they have none of its elements. With
`Chaining = FALSE` an instruction finishes after those it depends on; with TRUE
the order is free, which the code allows if a later instruction is shorter.
`insn`, `older` and `overtaken` are history variables: what a running
instruction is, which it found running, and which of its registers a later
instruction has written and finished before it.

The mapping `SB` takes the running instructions and their rows for the
scoreboard's, and drops list entries of instructions that have finished: the
code clears those a cycle later (`Valid`). A row that is written while the
instruction still waits for its hazards (`HazardStall`) belongs to no running
instruction and is dropped too.

**OperandRequester.** One lane executes a short program. `requester` is the
state machine of `operand_requester.sv` for each operand queue, `table` the rows
of the hazard table, `ibuf` the operand queues, `resq` the result queues, and
`vrf` says of each word who wrote it last. In a cycle every bank serves one
master (`Grants`), any set of units that can work does so, and any set of
complete instructions is reported; `Requester` is the rest, with the two ways a
request is taken: `FromIdle` and `BackToBack`. An operand word carries the name
of its writer, so whether it is right is known without arithmetic. `rate` is
the ratio of operands to results. Instructions are issued as the lane sequencer
does, once the request registers they need are free.

**Dispatcher.** The three states, and in NORMAL_OPERATION a disjunct of
`Decode` for every way an instruction is dealt with. Instructions are grouped
into ten kinds, listed in the module; what a kind stands for is its control:
which operands it names, with which width it reads and writes them, whether it
is answered at once. `eew` and `eew_valid` are the code's table. `layout` is how
the bytes really lie: it follows from the requests, executed in order
(`Written`). `Settled` includes the request on offer. A reshuffle takes its
widths from where the code takes them (`NextWidth`): for the second operand from
the fields of the request that is on offer. `inflight` has the register groups
of the requests the backend works on, `owed` is the number of completions less
those signalled.

**ByteLayout** justifies `Written`. It has the code's shuffle functions in
closed form, writes of the load unit and of the lanes (with the byte enables of
function `be`), and reshuffles. `MCByteLayout` has the tables of
`include/ara_pkg.sv` for 1, 2, 4, 8 and 16 lanes as they are written there, and
the run evaluates `TablesFollow`: the formula is the table, byte by byte.

**InvalFilter** is the whole of `axi_inval_filter.sv`. The FIFO is
fall-through: a burst can be invalidated in the cycle it passes. The filter
reckons a burst's bytes from its address on, while its beats after the first are
aligned: `LinesOf` is what a burst writes, `bytes` what the filter counts.

**AddrGen / LoadStoreUnits / VLSU.** `AddrGen` has the arithmetic of bursts under
the names of `addrgen.sv` and of the functions of `axi_pkg` it uses (external).
A cycle of the load or store unit is long and sequential in the code: parts of
it read what earlier ones assigned (`_d`). `LoadStoreUnits` has each part as a
function from the registers of a unit to what they become, and a cycle applies
them in order (`LoadCycle`, `StoreCycle` in `VLSU`). The address generator's two
processes, which talk through a one-entry register, are `ag`; its actions
are the states and branches of its state machines. The units meet only in
queues, so that one unit's cycle after another's gives what a common cycle gives.
Memory, the lanes and the mask unit are an environment: memory serves bursts in
order on each channel and answers each written burst once; lanes and masks send
one word after another, at any time. A byte carries its origin, so that whether
it lies right is known without data. `vrf` and `mem` say what has been written.

**VectorALU / LaneCluster.** `VectorALU` has the cycle of `valu.sv`, again part
by part, with the states of `alu_state_e`. A word of the result queue is the bag
of what went into it: an operand of a reduction that is lost or counted twice
shows. `LaneCluster` adds the lane sequencers (`last_id`, `en_sync`, the
fall-through register, the done bits), each lane's side of the slide unit
(`port`: the words on their way to it, the stream register of a result and the
registered final grant, of `operand_requester.sv`), and the main sequencer's
offer, which stays until every lane has acknowledged it. A step is a cycle of
all; which lanes' requesters are busy, which units have operands, and which
results are taken is free. With `Apart = TRUE` an instruction is only offered
next to a reduction when the ALUs are idle, and a slide in several turns when the
slide unit is. The sequencer does not see to that; section 5 says what happens
otherwise.

**SlideUnit** has the cycle of `sldu.sv` in the same form, with the states of
`slide_state_e` but for the two of ordered sums. The elements at one address in
all lanes are a *row*. A slide turns the row of the source (`Turned`, which is
`sldu_op_dp` for elements that are ordered as they should be) and puts it out in
two rows, between `in_pnt` and `out_pnt`; an amount that is no power of two is
made of several turns (`Setup`, `Turn`), with the row going round through the
result queue. Elements carry the position they had in the source, so that a word
of the result shows where each came from. Code that counts bytes counts elements
here. Reductions use the same registers with whole words.

**MaskUnit** has the cycle of `masku.sv` in the same form. A lane's word of a mask
register has `WordBits` bits (the code: 64), the lanes' words at one address are a
*chunk*. Masks go to the lanes a row of elements at a time (`TakeMasks`,
`SendMasks`); the results of comparisons come back row by row and are gathered into
chunks (`Produce`), those of operations on masks are a chunk each. A bit of a result
carries the element it came from, and one that stays carries its old place. In
`LaneCluster` it is connected to the ALUs, the multipliers and the FPUs as in
`ara.sv` and `lane.sv`: the masks through the spill register that both units of a
lane share (`vector_fus_stage.sv`), the results through a register of the unit
that has them, the operands as the words the lane sequencer asks for (`Requested`), so
that one too few or too many shows.

**VectorMFPU** has the cycle of `vmfpu.sv` in the same form. An instruction is
issued, processed and committed; the multiplier (a pipeline for each width
behind a register that all share, with a clock of its own), the serial divider
(`simd_div.sv`, both state machines) and the slices of the FPU work at their own
pace, and carry the elements they got. A result is stored where the instruction
that is being *processed* writes next, and a word says where its elements came
from: a result that meets another instruction, or another word, shows. The FPU
itself is another repository's. It is modelled by the pipeline depths
`ara_pkg.sv` gives it and by its handshake; its arbiter is assumed to hand
results on in the order they are offered, which is the kindest one. A division
takes any time. With `prompt` in a program the register file takes every result
at once, without it whenever it likes.

**VectorProgram and the kernels.** A value is a sum of products of inputs, as a
bag of sequences of factors; a kernel is right if it stores the sum its scalar
version stores. `VectorProgram` has the instructions (`vsetvl`, loads, slides,
reductions), with an address outside an array noted in `strays` and read as
`Unknown`. The functions of fifteen files are actions, a pass through a loop
each: dot products, matrix products, the 3x3, 5x5 and 7x7 convolutions with and
without channels, the Jacobi stencil, the path finder, wavelets, softmax,
dropout. `VLen` is the size of a vector register, and is small, so that a few
elements need several strips.

## 3. What TLC checks

### Runs

| Run | Configuration | Checks |
|---|---|---|
| `scoreboard` | 3 identifiers, 2 registers | `OrderedByAge`: rows name older running instructions, age is an order; `NoCircularWait` |
| `sequencer_core` | 2 lanes, 3 identifiers, mask register and one more; arithmetic, masked and mask instructions, scalar moves, loads; no chaining | `TableSound`: types, rows name older instructions only; `QueuesSound`: queues hold running instructions, counted ones do not overflow; `LoadAnsweredByOwnAck` |
| `sequencer_queues` | the same sizes; masked instructions, reductions, slides; chaining | `WritesOrdered`: reads and writes wait for earlier writers that were not overtaken; `CountersExact`; `NoQueueOverflow` in any lane; `ImplementsScoreboard` |
| `sequencer_live` | 2 identifiers; arithmetic, reductions, loads, stores | `EveryRequestAnswered`; `EveryInsnFinishes` |
| `lane_chaining` | 9 programs of 2 or 3 instructions, up to 4 words each | types and queue limits; `OperandsInOrder` and `WritesInOrder`: those of the program; `OwnOperands`: units and requesters agree; `ProgramFinishes` |
| `dispatcher_widths` | 4 registers of 4 bytes, 2 widths; two programs | `TableSound`: types, table and layout agree; `ReadsAsWritten`; `EveryInsnTaken` |
| `dispatcher_answers` | 2 registers, groups of two, 2 requests in flight; two programs, one with reserved groups | `AnsweredOnce`; `NoLostCompletion`; `LabelsAfterNarrowing`; `EveryInsnTaken` |
| `byte_layout` | 4 lanes, all 4 widths, all vector lengths | `OrderedAsNoted`: bytes lie where the noted width says |
| `inval_filter` | FIFO of 2, lines of 4 bytes, 6 bursts | types and the limit of the FIFO; `EveryLineInvalidated`, once and in order; `EveryBurstLeaves` |
| `vlsu` | 10 programs of 2 or 3 accesses, and 256 single ones: every alignment of 1 to 3 words | `WithinBounds`: types, no burst leaves its page; `BytesInPlace`: each byte where its element belongs, in registers and memory; `CountedAlike`: beats, commands and instructions in one order; `CompleteWhenDone`: all handed over, or sent, when reported, nothing left over; `EveryAccessFinishes` |
| `lane_cluster` | 2 and 4 lanes; 8 programs of 2 or 3 instructions, ordinary ones and reductions, 10 with slides, 11 with masks and comparisons. 1 lane; 8 programs for the multiplier, divider and FPU | `CountedAlike`: types, lanes and slide unit in the same round; `EveryElementOnce`: results, words of elements and of bits, made of each element once, in its place and under its own mask bit; `SampledOnce`: an offer is taken once by every lane; `CompleteWhenReported`; `EveryInsnFinishes` |
| `kernels` | 111 calls | `StaysInside`: types, no address outside an array; `StoresItsResult`: as the scalar version; `EveryKernelReturns` |

### Bounds and why they are enough

- Three identifiers: every hazard of the table is between two instructions; a
  third one is needed to have an entry overwritten, or a chain of dependencies,
  or an identifier reused while two others run. Two registers give every
  combination of shared and distinct operands. The liveness run has two
  identifiers, which suffices to have one instruction wait for the other, for a
  place in its queue, and for an identifier.
- Queue depths 2, and 1 for the mask unit (the code: 4, 2, 1). Full, one short
  of full, and empty all occur; the ticket is about the last place only.
- `MaxDone` = 2 (1 in the liveness run) bounds the reports in one cycle. The
  counters change by one per queue and cycle in any case; two is what brings two
  lanes, or a lane and a shared unit, into one cycle. `MaxMaskB` is the depth of
  the MaskB queue.
- Lanes: 2. The code compares lane 0 with any other lane; a third adds nothing.
- The lane's programs have up to 4 words per register in two banks (the code:
  8 banks). Conflicts in a bank occur in every program. Each
  kind of hazard occurs alone and with each other kind, and at
  each rate. The programs are those on which the code is right; section 5 names
  others.
- The dispatcher's registers have four bytes, and its widths are 1 and 2 bytes,
  so that a register holds four or two elements: partial, full and empty vectors
  occur. The backend's depth is 1 where order does not matter and 2 where it
  does.
- `ByteLayout` needs no bound but the number of lanes; at 4 the permutation
  within a lane and the spread over lanes both matter.
- The load/store unit has pages of 16 bytes, beats of 4, words of 8 and bursts
  of at most 4 beats (the code: 4096, 16 and more, 8 per lane, 256). A word is
  two beats, a page two words: accesses of up to nine elements begin and end
  anywhere in a beat, word and page, and take one burst or several. Queues have
  two entries, that of the store unit four (`VstuInsnQueueDepth` of the code).
- Lanes: two and four, since the slide unit's strides form a tree only from four
  on. The ALUs' words have two elements (`WordElements`), so that a reduction has a
  step within a word. Two identifiers are used again at once. Programs have lanes
  without elements, more words than the result queue has entries, and reductions
  before, between and after other instructions. Multiplier, divider and FPU do
  not see other lanes, so one is enough. Their latencies are those of the code
  (5, 4 and 3 cycles for 64, 32 and 16 bits, 1 and 2), words have one, two or four
  elements, and each program has a slower unit before a faster one, a change of
  width, masked-off elements, or results in halves. Slides go up and down, by
  less than a row, a row and more, with one turn or several (the amounts 3, 5 and
  6), with a scalar, over up to four rows, alone and queued behind one another and
  behind reductions; words have 1, 2 and 4 elements.
- Masks: a word has four bits (`WordBits`), so that with elements of any width a
  chunk is filled by one to four rows. The programs have a comparison of integers
  and of floating-point numbers in less than a row, some rows, a chunk and several
  chunks, under a mask and without; instructions of every unit under a mask, over one
  and several chunks of it; mask operations of one and of several chunks; and one
  behind the other in each order, with results taken at once and held back.
- Kernels: one, two or four 64-bit elements in a register, and every kernel with
  less than a strip, one strip, and several; blocks of every size the code has;
  images of fewer and more rows than the unrolled loops take in one pass.

`lane_chaining`, `dispatcher_widths`, `dispatcher_answers`, `vlsu`,
`lane_cluster` and `kernels` are restricted to instructions, or calls, on which
the code keeps its promises. What is left out by the choice of instructions is
what section 5 shows violated, and nothing is claimed of it:

- `vlsu`: no access after one that fails, fewer stores at a time than the queue
  holds, no masked access with a burst of the greatest length; pages are as long
  as the longest burst, so that no load takes a beat more within one; and
  "complete" means handed over to the lanes or to memory, not written there.
- `lane_cluster`: reductions are kept apart from other instructions (`Apart`);
  and a reduction's result may be reported before it is written. No comparisons
  of floating-point numbers behind slower instructions, no three instructions of
  falling latency, no division that waits behind an addition with its first word
  masked off; and where results may be held back, no multiplications of two
  widths, no reciprocals, no additions of two widths, and no divisions of more words
  than the result queue and the divider hold.
  A slide in several turns finds the unit idle (`Apart`) and results taken at once;
  so does a slide of several rows. No `vslideup` takes a row more than its elements
  fill, no `vslide1down` has its scalar in a row of its own, no `vslide1up` waits for
  its turn, and what the elements behind `vl` hold is not claimed.
  No comparison has fewer elements than there are lanes; one under a mask has at most a
  chunk, in whole rows of one element per lane; results of several chunks are taken at
  once; a mask operation that ends in a further word uses it in every lane; masks for
  the ALUs and for the multipliers are not needed at once (`Apart`); and what the bits
  hold that are held back, or behind `vl` in a result of a chunk or more, is not
  claimed.
- `kernels`: the calls the comment at `Calls` describes, which include those the
  main programs make with the data they are given by default.

### Fairness

- Sequencer: the clock ticks, a unit that may report an instruction in the end
  does, the lanes take a broadcast in the end, the address generator and the
  scalar response answer. Weak fairness: in the code each is a register that
  stays ready until it is served. Nothing is assumed of the dispatcher.
- Lane: weak fairness of every unit with operands and room, of every report of
  a complete instruction, and of the sequencer's issue. No fairness of the
  arbiters: a bank serves someone whenever it is asked.
- Dispatcher: strong fairness, since the sequencer is ready only now and then:
  time and again it takes the request, in a cycle in which no load completes
  (completions are single pulses, and only as many come as there are loads).
  What the backend works on comes to an end; that is `EveryInsnFinishes`.
- Filter: the cache takes an invalidation in the end while it is asked to.
- Load/store unit: weak fairness of `Next`, that is, something happens while
  anything can. Nothing is assumed of who goes first: every step of a unit, of
  memory or of a lane moves data or an instruction on, so that programs end in
  any order of steps, and a program that does not end is stuck. Likewise in the
  lane cluster, where a cycle in which nothing changes is no step, and in the
  kernels, which are sequential.

## 4. What is proved

For all values of the constants (numbers of lanes, identifiers and registers,
queue depths, sets of requests), with the assumptions named in the modules:
`NrLanes`, `NrVInsn` positive, `Regs` with the mask register, queues of at least
one entry, pages of whole beats, words of whole beats, widths of which the narrower
divides the wider, bursts of more than one beat, and well-formed requests and programs.

**Scoreboard** (`ScoreboardProofs`): `AlwaysOrderedByAge` (from `TypeCorrect`,
`OnlyOlderAwaited`, `AgeOrders`) and `NobodyWaitsInACircle`. The inductive invariant `IInv` adds to the
properties that the lists name running instructions only (`ListsCurrent`):
without it a new row might name an instruction that has long finished. That no
circle exists follows from the rows naming older instructions, and from a finite
set having an oldest member.

**Sequencer** (`AraSequencerProofs`): `SequencerTableSound`, from
`SequencerTypeCorrect` and `SequencerWaitsOnOlder`;
`SequencerImplementsScoreboard`, every cycle is a step of the scoreboard or
leaves it as it is; `SequencerWaitsOnOlder`, by the refinement from the
scoreboard's theorem. The refinement needs, besides types, that the table and
the history name running instructions only (`NamesRunning`), which holds because
rows are cut down to them in every cycle, and that the request register holds
requests (`Requested`). The stale entries the lists may hold for a cycle are
what `Valid` drops on both sides.

`WritesAlwaysOrdered` has no hypothesis; it covers instructions that are chained
and finish out of order. The sequencer remembers one writer of a register, the
last. When a later writer finishes first, the earlier one is out of everyone's
sight: it is `overtaken` in that register, and a new instruction need not wait
for it there (`SequencerChaining.cfg` violates `EveryWriteOrdered`, which asks
for it). Every other running writer is waited for. The invariant `OInv` says
that the writer remembered waits for each of them through rows of running
writers of that register only (`LastWriterFollows`, with `Follows`), and that
with a writer the earlier ones of that register are overtaken as well
(`OvertakesAllEarlier`). The restriction to writers of the register is what
makes it inductive: when one of the chain finishes, the older ones of the chain
are overtaken in that register, and no chain is broken that is still spoken of.

One more theorem has a hypothesis, and section 5 shows what happens without it:
`MemoryAnsweredByOwnAck` assumes that loads have a destination, and that the
requests hold no store or none that reads the `MaskB` queue: a scalar response
that is valid for another instruction ends a store's wait before the address
generator has answered, and leaves its answer for the next one
(`StoreRequests`). `MInv` says what the address generator owes: the operation
waited for, once, and nothing outside `WAIT`.

**Queues of the units** (`AraSequencerProofs` as well): `CountersAlwaysExact`,
`QueuesAlwaysSound` and `NoQueueEverOverflows`. The sequencer sees no queue, only requests it sends and
reports it gets. The inductive invariant `QInv` has three parts. What sits in a
queue is held by a unit that still runs it (`Held`): the unit's own processing
element; for the lanes' share of a mask instruction the mask unit, which
outlasts them; for the slide unit's share of a reduction lane 0, which outlasts
the slide unit. So an identifier is free once no queue holds work under it, and
one that is handed out again is in no queue. The two tokens tell whether the
instruction at the door has been counted already (`Tokens`): never while there
is none, always while its answer is awaited. With that, a counter is the
occupancy of its queue plus the instruction at the door, it goes down by one for
each report and never wraps, and an instruction that enters a queue finds room:
its counter was below the depth, or reached it with this very instruction.

No counter follows the lanes but lane 0. `NoQueueEverOverflows` says that their
queues have room all the same, because the sequencer waits while the lanes
disagree on what runs: when it issues, what another lane holds, lane 0 holds too
(`LanesAgree`). `LInv` adds for that what lane 0 runs is in its queues
(`LaneZeroHolds`). The theorem assumes that there are no instructions of the mask
unit (`NoMaskInsns`): their share in the lanes is not marked as running there, so
the lanes agree while one still holds it (`DesynchRequests` in section 5).

**Dispatcher** (`DispatcherProofs`): `EveryCompletionSignalled`. The completion
wire carries one pulse a cycle; the proof shows for each way to decode that what
is owed is paid in the cycle. `AnsweredOnceAlways` says that CVA6 is answered in
the cycle its instruction is taken and in no other. It assumes that no memory
operation is illegal (`LegalMemory`); its invariant `FromProgram` says that `vtype`
and `vl` were set by an instruction of the program.

`TableAlwaysSound` and `ReadAsWrittenAlways` are about the widths noted for the
registers. They hold for programs that are `Plain`: every instruction writes one
register, at least one element of it, and not the whole of it if it is masked; it
names no register twice and has one width; and it is no move. `ReadAsWrittenAlways`
assumes besides that registers are read in the lanes (`ReadsInLanes`). What is
left out (register groups, `vl` of 0, full masked writes, a register named twice,
widening and narrowing, moves, indices) is, as far as section 5 has an example,
where the code goes wrong. The programs `Widths` of the run
`dispatcher_widths` meet the hypotheses, those of `Widening` do not; `Answers` of
`dispatcher_answers` meets `LegalMemory`. The invariant `DInv` joins five parts:
types; that the reshuffle state is a record of its fields (`RsShape`); that `vtype`
and `vl` were set by an instruction of the program (`Configured`); that the table
says of each register how its bytes will lie once the request on offer is
executed, or that it has none (`Table`); and that a reshuffle in progress is about
operands of the instruction on offer, one register each, from the width the table
has for the next of them (`Reshuffled`). `TableSound` alone is not inductive: what
a reshuffle leaves behind depends on the width it starts from.

**Lane** (`OperandRequesterProofs`): `LaneTypeCorrect`, for all programs, and what
chaining promises, `OperandsAreOwn`, `WritesAlwaysInOrder` and
`OperandsAlwaysInOrder`, for any numbers of words, banks and slots of the queues and
programs of any length. All queues are treated alike: `Flow` says that a queue holds
the words that were put in and not taken out, in order, given how many words of each
instruction went either way; it is shown once that a queue that pops and pushes keeps
this (`FlowStep`). The invariant has four layers.

- `GInv`, types and order: a unit has to execute what it was given and has not
  executed, and only its first instruction is begun; an instruction that is not running
  has executed and written everything; a result queue holds what is executed and not
  written.
- `UInv`, for programs all of whose instructions have elements in the lane (`NoneEmpty`):
  an operand queue holds what its requester has read and its unit has not used, at any
  rate. `Follows` is the heart of the matter. As long as an instruction waits for a
  running one, it has read no more words than that one wrote results; and one whose
  result of the last cycle lets the next read pass has written a result more. The
  hazard bits of the requester, the row in the table and the pulse that comes a cycle
  late all enter into it; without any of them it is not inductive.
- `OInv` (`Orderly`: registers do not overlap; of two writers of a register the second
  is not widening and makes as many results): the second has written no more than the
  first, and a word of the register file was written by the last instruction that has
  got that far. It is `Follows` again, from a result back to the operand that was read.
- `RInv` (`Chainable`: besides, of an instruction and a later one that overwrites its
  source neither is widening, and a value that is overwritten has one reader): the
  writer has written no more words than the reader has read. With the layers before it,
  what is read is what the last earlier writer wrote (`ReadRight`).

The hypotheses are needed: each of their parts excludes an example of section 5.
`EmptyBetween` breaks `NoneEmpty`; `WideningAfterLoad` and `ShortBetweenLong` break
`Orderly`; a widening instruction whose source is overwritten breaks `Chainable` (the
program of `LaneWideningSource.cfg`, or, with six words in a register, an addition that
widens and a multiplication that writes its source), and so do two readers
(a store and an addition of a register a load writes, as in `SequencerReads.cfg`). Of
the nine programs of `lane_chaining`, eight are `Chainable`; the ninth, with an
instruction without elements, is only model-checked.

**Byte layout** (`ByteLayoutProofs`), for any number of lanes:
`ShuffleIsPermutation`, no two bytes come to lie in one place, for each width, and
`AlwaysOrderedAsNoted`. The proof gives a byte four coordinates, its lane, its
element in the lane and its byte in the element, and shows that every byte and
every place has them, once (`ByteOfCell`, `CellOfPlace`, `OneCell`). The order of the
elements within a lane is given by four tables, checked entry by entry. The load
unit, which counts bytes in memory order, and the lanes, which each count their
own elements, then write the same bytes (`LoadWritesFirst`, `ComputeWritesFirst`).
The invariant `BInv` adds that a word without a width was never written.

**Filter** (`InvalFilterProofs`): `FilterTypeCorrect` and `LinesInvalidated`, for
any addresses, lengths and beat widths, any width of a line and depth of the
FIFO. The inductive invariant `IInv` says of the burst in work that the n-th
address asked for is its own plus `Offset(n - 1)` (`InOrder`), which is 0, then
the distance to the next line, then a line more each time, and that the count is
not at its end; and of the last burst that left, that the count was at its end
(`Covered`). `OffsetLine` says that each offset is on the line after the one
before, `CoveredInvalidated` that these lines are then the lines written, by
division with remainder.

**Memory accesses** (`VLSUProofs`): `AlwaysWithinBounds`, for any width of the bus,
of a page and of the words of the lanes, any longest burst, any number of lanes and
depth of the queues, and programs of any length. A burst stays in its page and has no
more beats than AXI allows; no queue overflows, the two-word result queue and the
spill register of the indices included; no unit runs past the end of a beat or of a
word. It assumes `AlignedIndices`: an element that turns out to be misaligned ends an
indexed access with the rest of its indices still in the lanes' words
(`addrgen.sv:342`), where the next access finds them. Base addresses may be misaligned.
All programs of the run `vlsu` but the last meet it, and that one, where nothing
follows, is model-checked. The inductive invariant `VInv` adds three parts.

- `AInv`, of the address generator: the stretch of addresses it works on is the one that
  `Stretch` gives for what is left of the access (`Accessing`), and of an indexed access,
  indices are in the words of the lanes, in the spill register or used, so that
  words run out when elements do (`Indices`, `Spilled`).
- `Commands`: what the units have been told to transfer are bursts within their pages.
  For unit strides this rests on `Stretch` ending where the page ends, for strided and
  indexed accesses on an aligned element not crossing a page.
- `UInv`, of the units. The load unit counts the bytes of an instruction twice, when it
  takes them from the bus and when the lanes have them, and its queues hold up to two
  instructions between. `Books` ties the two counts to the number of results in the
  queue; without it the lanes might be said to have bytes of an instruction that has not
  been read. In both units the place in the word is before its end and before the end of
  the instruction (`InWord`), and the store unit's issue pointer is ahead of its commit
  pointer by the instructions that wait for their answer (`Ahead`).

`AlwaysCountedAlike` (`VLSULedgerProofs`) goes on from there. The address generator cuts
an access into bursts by addresses; the units see the bursts, not the instruction they
are for, and count its bytes by words of the lanes. The theorem says that they agree all
the same: the beat the units move next is the beat memory is at, and it is for the
instruction that comes next in the queue of the unit. The invariant `LInv` holds beside
`VInv` and has three parts.

- `Ledger`: each command begins with some byte of its instruction, the first command is
  followed by the second in the program, and so on up to the burst the address generator
  makes next (`Chained`). What a unit has still to issue are the instructions of its
  direction from the first command's on, and of the first of these it has moved the bytes
  before the beat it is at (`UnitHolds`, `Front`). How far a unit is in a word matters
  too, since a beat ends where the word does (`InWords2`). Without the bytes, that a
  burst ends an instruction on one side says nothing about the other.
- `InStep`: the commands are the bursts memory reads, or those it takes, never both, and
  beats are counted alike.
- `Requester`: what is left of the access is from the address on, and for unit strides it
  is going to fit in bursts (`Fits`).

A step of a unit keeps the ledger by what one beat does to its counters (`ReadCounts`,
`WriteCounts`); a request by what a burst covers (`BurstStep`, `ElementStep`), where
widths have to divide one another (`WidthAssumption`; in the code they are powers of
two). The theorem assumes `AlignedIndices` and that the program is `Countable`: base
addresses and strides are aligned to the element, or the access ends with an error and
stays in the queue (`addrgen.sv:238`); and a unit-stride load takes no more beats than
the longest burst has, one less if it is masked. Loads beyond that are where the code
goes wrong: the length of a burst is compared modulo 256 (`vldu.sv:328`), and a load of
257 beats is short of one (`BeatTooMany`, `LongAmidWord` and `LongMasked` in section 5).
A register group has 256 beats at most with the code's parameters, so that only
loads of all or nearly all of it are left out, those misaligned to the bus and masked
ones; stores of any length are covered. Of the 266 programs of the run `vlsu`, 240 meet both
hypotheses.

Only model-checked: everything else in section 3. Liveness is out of the
prover's reach. Of the safety properties, those of a lane for programs outside the
hypotheses above, where the bytes of memory accesses go and when they are complete,
the elements of the lane cluster, and what the kernels compute are checked on the
bounds of section 3 only; section 6 says which are next.

## 5. Where the code does not do what it says

Each is a behaviour of the model TLC prints, read back against the source. The
configurations are kept as records: each, as it stands, violates the one property
it lists, and where the table has a value, it is to be given to the constant
`Requests`, `Programs` or `Jobs` of that configuration, with the property named
here. None is among the runs of section 3.

Sequencer and lanes:

| Configuration | Value | Property | Where | What happens |
|---|---|---|---|---|
| `SequencerReads.cfg` | | `ReadsOrdered` | `ara_sequencer.sv:417` | one reader per register is remembered: a store reads v1, an addition reads v1, a load writes v1, and the load's row has the addition only |
| | `MaskRequests` | `ScalarAnsweredByOwnOperand` | `ara_sequencer.sv:446` | a scalar move takes an operand of a running mask instruction for its answer |
| | `StoreRequests` | `StoreAnsweredByOwnAck` | `ara_sequencer.sv:446` | a store is acknowledged by such an operand, before its addresses are translated |
| | `DesynchRequests` | `NoIssueWhileDesynchronised` | `ara_sequencer.sv:104` | mask instructions take lane queues but are not marked as running on the lanes |
| `SequencerChaining.cfg` | | `EveryWriteOrdered` | `ara_sequencer.sv:413` | a chained second writer finishes first; a later reader does not wait for the first writer |
| `LaneWideningSource.cfg` | | `OperandsInOrder` | `operand_requester.sv:255` | a widening instruction writes two results for each word it reads; a writer of its source, paced by its results, gets ahead of it |
| | `WideningAfterLoad` | `WritesInOrder` | `operand_requester.sv:347` | the one-bit counter lets a widening instruction write two results after one |
| | `ShortBetweenLong` | `WritesInOrder` | `ara_sequencer.sv:413` | the third of three writers overtakes the first when the second is short |
| | `EmptyBetween` | `OwnOperands` | `operand_requester.sv:376` | a request without elements is not muted when taken back to back |
| `ClusterChained.cfg` | | `ResultsRight` | `valu.sv:806` | a reduction behind an addition whose result is not written yet takes that result for its accumulator |
| | `SumThenSum` | `ResultsRight` | `lane.sv:439` | two reductions at once: partial results of one reach the other |
| | `SumThenAdd` | `WrittenWhenReported` | `valu.sv:751` | the count of elements to commit is that of the reduction: the addition is reported before it is written |
| | `OneSum`, `Apart = TRUE` | `AllWrittenWhenReported` | `valu.sv:702` | a reduction is reported before lane 0 has written its result |

Multiplier and FPU of a lane (`ClusterChained.cfg` with these values; held back:
the register file does not take every result at once):

| Value | Property | Where | What happens |
|---|---|---|---|
| `Compare` | `ResultsRight` | `vmfpu.sv:200`, `:1314` | `fpu_latency` has no case for comparisons and reckons with an addition's 5 cycles, though the FPU is set up to take 1: a comparison behind an addition delivers first, against "We have to enforce in-order execution" (`vmfpu.sv:1310`) |
| `Third`, `NrVInsn = 3`, `SlduDepth = 3` | `EveryElementOnce` | `vmfpu.sv:1314` | the latency is compared with that of the instruction being processed only, not with the one issued last: the third overtakes the second while the first is processed |
| `DivBehind` | `EveryElementOnce` | `simd_div.sv:155` | a quotient waits for an addition, and by then the divider's mask register is the next word's |
| `MulWidths`, held back | `CountedAlike` | `vmfpu.sv:329`, `:510` | the register in front of the multiplier is acknowledged by the width that is issued, and kept or overwritten as the width that is processed says: an operand is lost |
| `Recip`, held back | `EveryElementOnce` | `vmfpu.sv:1050` | the copy of the operand that refines a reciprocal does not wait with the FPU: a result is made of another word's operand |
| `TwoFAdd`, held back | `EveryElementOnce` | `vmfpu.sv:1314` | the slower addition is held in its pipeline; the latencies no longer say who delivers first |
| `LongDiv`, held back | `EveryInsnFinishes` (with `FairSpec`) | `simd_div.sv:155` | the issue side takes the next word while the last result still waits: a word is lost, and the instruction never ends |

Slide unit (`ClusterChained.cfg` with these values; liveness with `FairSpec`):

| Value | Property | Where | What happens |
|---|---|---|---|
| `TailRow` | `TailKept` | `sldu.sv:537`, `:466` | the limit of the output is that of the whole vector and is compared with positions in a row: in the last of several rows the elements behind `vl` are overwritten, against "fully process every input packet singularly to comply with the undisturbed policy" (`sldu.sv:268`) |
| `HeldRows` | `CompleteWhenReported` | `sldu.sv:808`, `operand_requester.sv:161` | the final grant comes a cycle late and counts for the next row: a slide is reported while its last row waits in the stream register, against "The very last grant must happen when the instruction actually write in the VRF" (`operand_requester.sv:152`) |
| `ExtraRow` | `CompleteWhenReported`, `EveryInsnFinishes` | `sldu.sv:824` | `vslideup` with an offset that takes a row more than its elements fill is reported a row early; the last row is written with the next slide, and counted for it |
| `ScalarBehind` | `CompleteWhenReported` | `sldu.sv:847` | a `vslide1up` that waits for its turn is counted without its first element, one that does not wait with it (`:875`) |
| `ScalarRow` | `ResultsRight`, `EveryInsnFinishes` | `sldu.sv:650` | `vslide1down` whose scalar begins a row puts it one row early, and waits for a row that is never written |
| `TurnsBehind` | `EveryInsnFinishes` | `sldu.sv:737` | a slide in several turns behind another finds its words in the spill register before the way round is open, and waits for more |
| `TurnsApart` | `EveryInsnFinishes` | `sldu.sv:737` | the way round opens on lane 0's word: the other lanes' words, a cycle later, never get in |
| `NoTurns` | `EveryInsnFinishes` | `sldu.sv:740`, `:763` | the amount is cut to the bits below `8 * NrLanes`; if they are all zero there is no last turn |

Mask unit (`ClusterChained.cfg` with these values; liveness with `FairSpec`):

| Value | Property | Where | What happens |
|---|---|---|---|
| `FewCompared` | `WrittenWhenReported` | `valu.sv:795`, `lane_sequencer.sv:273` | a comparison of fewer elements than lanes is not muted in the lanes without any: such a lane keeps it at issue, spends the operand of the next instruction on it, and the result of that one is lost |
| `OddCompared` | `EveryInsnFinishes` | `masku.sv:692`, `:986` | which lanes have nothing left to send is reckoned from a count that masks handed out have lowered: a masked comparison whose length is no multiple of the lanes waits for a word that does not come |
| `LongCompared` | `WrittenWhenReported` | `masku.sv:986` | the same count: a masked comparison of more than a chunk is reported before its results are written |
| `TwoChunks`, held back | `WrittenWhenReported` | `masku.sv:1011`, `operand_requester.sv:162` | the final grant of the first chunk comes a cycle late and counts for the second |
| `BitsBehind` | `TailKept` | `masku.sv:364` | with a chunk or more, all bits of the last chunk are enabled: those behind `vl` get what the lanes happen to send |
| `BitsHeld` | `TailKept` | `masku.sv:440` | a held-back bit gets the old value of another bit, that at the place of the compared element |
| `OneBitMore` | `NothingLeft` | `lane_sequencer.sv:650`, `valu.sv:815` | if only other lanes have elements in the last word of a mask operation, a lane asks for a word its ALU does not use: it stays for the next instruction |
| `TwoMasks` | `ResultsRight` | `vector_fus_stage.sv:90`, `lane.sv:106` | ALU and multiplier take masks from one register, without a name: one takes the mask of the other's instruction |

Dispatcher:

| Configuration | Value | Property | Where | What happens |
|---|---|---|---|---|
| `DispatcherAccumulate.cfg` | | `EveryInsnTaken` | `ara_dispatcher.sv:382` | if vd and vs2 are one register of another width, the second reshuffle undoes the first in the table, and the two alternate for ever |
| `DispatcherGroups.cfg` | | `TableMatchesLayout` | `ara_dispatcher.sv:3107` | only the first register of a group is looked at |
| | `MaskedOnly` | `TableMatchesLayout` | `ara_dispatcher.sv:3107` | a masked instruction of full length is taken to overwrite the register |
| | `NullSlideOnly` | `TableMatchesLayout` | `ara_dispatcher.sv:3161` | a slide without effect changes the noted width |
| | `UpperHalfOnly`, `Depth = 2` | `SharedRegistersShareLabel` | `ara_dispatcher.sv:512` | a widening result of two registers goes by the first one's label; an instruction that reads the second is not ordered after it, without any change of LMUL |
| | `OddLoadOnly` | `AnsweredOnce` | `ara_dispatcher.sv:2619` | an illegal load is answered in every cycle and never acknowledged |
| | `TooWideOnly` | `SupportedWidth` | `ara_dispatcher.sv:3107` | an illegal widening instruction causes a reshuffle to 128-bit elements |
| | `WidenedOnly`, `Depth = 2` | `SharedRegistersShareLabel` | `ara_dispatcher.sv:517` | after LMUL is raised, overlapping groups have different labels |
| `DispatcherOutside.cfg` | | `ReadsAsWritten` | `ara_dispatcher.sv:3106` | sources of scalar moves and indexed loads are not reshuffled |
| | `SquareOnly` | `TableMatchesLayout` | `ara_dispatcher.sv:387` | vs1 = vs2 is reshuffled twice from one width |
| | `EmptyOnly` | `StallsForReshuffle` | `ara_dispatcher.sv:3203` | an instruction with vl = 0 is taken although it starts a reshuffle |

Load/store unit:

| Configuration | Value | Property | Where | What happens |
|---|---|---|---|---|
| `VlsuMisaligned.cfg` | | `LoadedFromItsAddress` | `addrgen.sv:238` | a misaligned load is answered with an error but stays in the load unit's queue, and takes the data of the next load |
| | `LongLoad` | `LoadedWhenDone` | `vldu.sv:377` | the final grants of the lanes are registered: one of the word before counts for the last word |
| | `LongStore` | `AcknowledgedWhenDone` | `vstu.sv:300` | a store of two bursts is complete with the answer to the first |
| | `StoreAndLoad` | `StoresBeforeLoads` | `addrgen.sv:553` | a load behind a store asks memory before the store's data is there |
| | `BeatTooMany`, `PageBytes = 32` | `EveryAccessFinishes` (with `FairSpec`) | `addrgen.sv:569`, `:615` | a misaligned load of fewer bytes than the longest burst holds can still take a beat more; the burst is cut to 256 beats and accounted for as if it had all of them, and the load unit waits for the last bytes (with two lanes: 2047 bytes from address 2) |
| | `LongAmidWord` | `InStepWithMemory` | `vldu.sv:328` | as for a mask, when the first beat of a longest burst straddles two words; with the code's parameters this does not happen: a register group has 256 beats at most, and a word two |
| | `LongMasked` | `InStepWithMemory` | `vldu.sv:328` | `len + 1` wraps to zero for the longest burst, as does the count before its first beat: waiting for a mask, the unit takes the burst for finished |
| | `ManyStores`, `StoreDepth = 2` | `EveryAccessFinishes` (with `FairSpec`) | `vstu.sv:305` | with the queue full of issued stores, issue and commit pointer are equal: answers are dropped and nobody completes |

Programs:

| Configuration | Value | Property | Where | What happens |
|---|---|---|---|---|
| `KernelsDot.cfg` | | `DotProductsRight` | `fdotproduct/kernel/fdotproduct.c:88` | the reduction covers the elements of the last strip only |
| | `OddPaths` | `PathsRight` | `pathfinder/kernel/pathfinder.c:172` | for some numbers of rows an unsigned difference wraps, and the wrong register is stored |
| | `OddRows` | `InBounds` | `pathfinder/kernel/pathfinder.c:62` | the first of long rows is copied in full strips, past its end |
| | `OddProducts` | `InBounds` | `fmatmul/kernel/fmatmul.c:136` | with an odd number of rows, a row past the operand is loaded |
| | `SmallImages` | `InBounds` | `fconv2d/fconv2d_7x7.c:301` | an image of four rows, which the script that makes the data allows, has eight rows stored |

Also seen: integer instructions of the OPMVV and OPMVX groups do not check for a
reserved LMUL, so that widening under LMUL = 8 is accepted (floating point does
check: kind `fwidening`); a copy
(`vmv.v.v`) of half a register of wider elements escapes the reshuffle, as vl
is compared before it is scaled (`ara_dispatcher.sv:3107`, `:638`); an answer
given early to a store leaves its acknowledgement to the next load.

## 6. What is not modelled, and the plan

Hardware not modelled: the datapaths (`simd_alu.sv`, rounding: arithmetic,
without control), in `vmfpu.sv` the reductions, fused divisions and roots, flags
and saturation, in `masku.sv` counts and first ones (`VCPOP`, `VFIRST`), `VMSBF` to
`VID` and the masks for slides, loads and stores (`VLSU` has them as words that come
from outside), in `sldu.sv` ordered sums, masks and the words for the address
generator, CVA6 (another repository) and the ideal dispatcher, the SoC around Ara, power gating, test benches. In the
dispatcher: the decoding of single opcodes, CSR instructions, segment and
whole-register accesses. In the lane sequencer: `vstart`. Resets are the initial states.

Software not modelled: fft, roi_align, the exponential, cosine and logarithm,
vfredsum (straight-line code of floating point instructions, or benchmarks of a
single one), the runtime, `printf`, the instruction tests under `riscv-tests`.
In the kernels, rounding and overflow: values are formal.

The plan, most important first; items 1 to 7 are done, and most of 8 and 9.

1. `AraPkg`, `Scoreboard`, `AraSequencer`, the refinement and its proof.
2. `OperandRequester`: chaining in a lane.
3. `Dispatcher`, `ByteLayout`: widths, answers.
4. `InvalFilter`, and its proof.
5. `AddrGen`, `LoadStoreUnits`, `VLSU`: memory accesses.
6. `VectorALU`, `SlideUnit`, `LaneCluster`: the handshake with the broadcast,
   reductions and slides.
7. The kernels.
8. `MaskUnit`: masks, comparisons and mask operations (done); its counts and `VMSBF`
   to `VID`, whose results go to one lane or in order, and masked slides.
9. `VectorMFPU` (done, but for its reductions; they differ from the ALU's in the
   latency of each step).
10. Proofs: the sequencer and its queues, the dispatcher's table and answers, chaining
   in a lane, `ByteLayout`, `InvalFilter`, the bounds and the counts of `VLSU` (done, see
   section 4).
   Next: `BytesInPlace` of `VLSU`, on top of the ledger; `SampledOnce` of
   `LaneCluster`.
