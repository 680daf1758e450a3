--------------------------- MODULE GatherCoalesce ---------------------------
(***************************************************************************)
(* GatherCoalescePass: gathers of a basic block whose addresses differ     *)
(* from a common base by constants become a few vector loads, from which   *)
(* their results are shuffled together.  An instruction is a gather of     *)
(* 32-bit elements, something that may write to memory, or something else; *)
(* a value is known by the address it was read from and by how many writes *)
(* came before.                                                            *)
(***************************************************************************)
EXTENDS Integers, Sequences, FiniteSets, SequencesExt

CONSTANTS
    Blocks,       \* the blocks considered: [width |-> .., code |-> <<..>>]
    OffsetBits,   \* bits of the offsets that the code calls 32-bit
    MaxSpan       \* bound: the longest run of elements a load may cover

VARIABLES
    source,       \* the block as the pass found it
    code,         \* its instructions now
    iter,         \* the next instruction the pass looks at
    loaded        \* history: the loads emitted, [at, from, addresses]
coalesceVars == <<source, code, iter, loaded>>

elementSize == 4

\* Division of C.
DivideToZero(a, b) == IF a >= 0 THEN a \div b ELSE -((-a) \div b)

-----------------------------------------------------------------------------
(* Which loads to do.                                                      *)

\* Mutant: a load is also issued when the offsets run out inside it.
VectorLoadRunsOut(offsets, vectorWidth) ==
    LET start == offsets[1]
        stops == {i \in DOMAIN offsets : offsets[i] - start + 1 >= vectorWidth}
    IN IF stops = {} THEN Len(offsets)
       ELSE LET i == CHOOSE i \in stops : \A j \in stops : i <= j
            IN IF offsets[i] - start + 1 = vectorWidth THEN i ELSE i - 1

\* How many of the sorted offsets a load of the given width takes care of that
\* starts at the first one; 0 if it makes no sense.
lVectorLoadIsEfficient(offsets, vectorWidth) ==
    LET start == offsets[1]
        Gap(i) == i > 1 /\ offsets[i] - offsets[i - 1] > 3
        stops == {i \in DOMAIN offsets : Gap(i) \/ offsets[i] - start + 1 >= vectorWidth}
    IN IF stops = {} THEN 0
       ELSE LET i == CHOOSE i \in stops : \A j \in stops : i <= j
            IN CASE Gap(i) -> 0
                 [] ~Gap(i) /\ offsets[i] - start + 1 = vectorWidth -> i
                 [] OTHER -> IF vectorWidth # 2 /\ offsets[i - 1] - start > vectorWidth \div 2
                             THEN i - 1 ELSE 0

\* The loads for a sorted sequence of offsets: the widest that is efficient.
RECURSIVE LoadsFor(_)
LoadsFor(offsets) ==
    IF offsets = <<>> THEN <<>>
    ELSE LET taken == [w \in {8, 4, 2} |-> lVectorLoadIsEfficient(offsets, w)]
             good == {w \in {8, 4, 2} : taken[w] > 0}
             width == CHOOSE w \in good : \A v \in good : v <= w
             n == IF good = {} THEN 1 ELSE taken[width]
         IN <<[start |-> offsets[1], count |-> IF good = {} THEN 1 ELSE width]>>
              \o LoadsFor(SubSeq(offsets, n + 1, Len(offsets)))

\* The elements of a set in order: a std::set is walked.
InOrder(S) == [i \in 1 .. Cardinality(S) |-> CHOOSE x \in S : Cardinality({y \in S : y < x}) = i - 1]

lSelectLoads(loadOffsets) == LoadsFor(InOrder(ToSet(loadOffsets)))

\* An 8-wide load counts as two of four elements.
lSplit8WideLoads(loads) ==
    FlattenSeq([i \in DOMAIN loads |->
        IF loads[i].count = 8
        THEN <<[loads[i] EXCEPT !.count = 4],
               [start |-> loads[i].start + 4, count |-> 4]>>
        ELSE <<loads[i]>>])

-----------------------------------------------------------------------------
(* The results.  A result of four elements has the offsets that were       *)
(* loaded into them; wrong says that an assertion failed.                  *)

Unset == [set |-> FALSE]
Value(offset) == [set |-> TRUE, offset |-> offset]
Empty4 == [elts |-> [e \in 0 .. 3 |-> Unset], wrong |-> FALSE]

Covers(load, offset) == offset >= load.start /\ offset < load.start + load.count

\* The elements of put get their values; none of them had one.
Insert(r, put) ==
    [elts |-> [e \in 0 .. 3 |-> IF e \in DOMAIN put THEN put[e] ELSE r.elts[e]],
     wrong |-> r.wrong \/ \E e \in DOMAIN put : r.elts[e].set]

lApplyLoad1(r, load, offsets) ==
    Insert(r, [e \in {e \in 0 .. 3 : Covers(load, offsets[e])} |-> Value(load.start)])

\* Two elements at once where they fit a pair of the result, else one by one.
\* The second element of such a pair is not looked at again.
lApplyLoad2(r, load, offsets) ==
    LET pair == {e \in {0, 2} : offsets[e] = load.start /\ offsets[e + 1] = offsets[e] + 1}
        second == {e + 1 : e \in pair}
        single == {e \in (0 .. 3) \ (pair \cup second) : Covers(load, offsets[e])}
    IN Insert(r, [e \in pair \cup second \cup single |->
           CASE e \in pair -> Value(load.start)
             [] e \in second -> Value(load.start + 1)
             [] OTHER -> Value(IF offsets[e] = load.start THEN load.start ELSE load.start + 1)])

\* A shuffle of the load and of the result so far.
lApplyLoad4(r, load, offsets) ==
    LET shuf == [e \in {e \in 0 .. 3 : Covers(load, offsets[e])} |-> offsets[e] - load.start]
    IN Insert(r, [e \in DOMAIN shuf |-> Value(load.start + shuf[e])])

lAssemble4Vector(loads, offsets) ==
    LET Apply(r, load) == CASE load.count = 1 -> lApplyLoad1(r, load, offsets)
                            [] load.count = 2 -> lApplyLoad2(r, load, offsets)
                            [] load.count = 4 -> lApplyLoad4(r, load, offsets)
        r == FoldLeft(Apply, Empty4, loads)
    IN [r EXCEPT !.wrong = @ \/ \E e \in 0 .. 3 : ~r.elts[e].set]

\* The first of the vectors of four that make up result i (from 0), for each
\* width of the gang.
FirstOf(i, width) ==
    CASE width = 4 -> i
      [] width = 8 -> 2 * i
      [] width \in {16, 32, 64} -> 4 * i

lAssembleResultVectors(loads, constOffsets, width) ==
    LET n == Len(constOffsets) \div 4
        vec4s == [k \in 0 .. n - 1 |->
                    lAssemble4Vector(loads, [e \in 0 .. 3 |-> constOffsets[4 * k + e + 1]])]
    IN [i \in 0 .. Len(constOffsets) \div width - 1 |->
          [lanes |-> [l \in 1 .. width |->
                        vec4s[FirstOf(i, width) + (l - 1) \div 4].elts[(l - 1) % 4]],
           wrong |-> \E k \in 0 .. n - 1 : vec4s[k].wrong]]

-----------------------------------------------------------------------------
(* The pass.                                                               *)

gangWidth == source.width

\* The constants of a gather as LLVMExtractVectorInts reads them: 32-bit ones
\* without their sign.
Ints(g) == [l \in 1 .. gangWidth |-> IF g.narrow THEN g.offsets[l] % 2^OffsetBits ELSE g.offsets[l]]

lExtractConstOffsets(group) ==
    FlattenSeq([i \in DOMAIN group |->
        [l \in 1 .. gangWidth |-> DivideToZero(Ints(code[group[i]])[l], elementSize)]])

\* The base, the uniform offset times its scale: for all gathers of a group.
lComputeBasePtr(g) == g.base + g.scale * g.var[1]

\* A store, an atomic, or a call of a function that is not known to only read.
lInstructionMayWriteToMemory(inst) ==
    inst.op = "store" \/ (inst.op = "call" /\ ~inst.readonly)

\* The gathers from k on with its base, offsets, scale, mask and function, as
\* far as the next write: at most four.
Group(k) ==
    LET writes == {n \in k + 1 .. Len(code) : lInstructionMayWriteToMemory(code[n])}
        end == IF writes = {} THEN Len(code) + 1 ELSE CHOOSE n \in writes : \A m \in writes : n <= m
        Same(n) == /\ code[n].op = "gather" /\ code[n].narrow = code[k].narrow
                   /\ code[n].base = code[k].base /\ code[n].var = code[k].var
                   /\ code[n].scale = code[k].scale /\ code[n].mask = code[k].mask
        all == <<k>> \o SelectSeq([n \in 1 .. end - k - 1 |-> k + n], Same)
    IN SubSeq(all, 1, IF Len(all) > 4 THEN 4 ELSE Len(all))

\* The gathers of a group become results of the loads emitted before the
\* first of them.
\* base: where the group's loads start; the results are those of loads.
Address(base, offset) == base + offset * elementSize
ResultOf(group, base, r) ==
    [op |-> "result", at |-> group[1], wrong |-> r.wrong,
     addresses |-> [l \in 1 .. gangWidth |->
         IF r.lanes[l].set THEN Address(base, r.lanes[l].offset) ELSE "poison"]]
ReplaceGroup(group, base, loads, results) ==
    /\ code' = [k \in DOMAIN code |->
          IF \E i \in DOMAIN group : group[i] = k
          THEN ResultOf(group, base, results[(CHOOSE i \in DOMAIN group : group[i] = k) - 1])
          ELSE code[k]]
    /\ loaded' = loaded \cup
          {[group |-> group, from |-> Address(base, x.start), to |-> Address(base, x.start + x.count - 1)] : x \in ToSet(loads)}
lCoalesceGathers(group) ==
    \E constOffsets \in {lExtractConstOffsets(group)} : \E loads \in {lSelectLoads(constOffsets)} :
        ReplaceGroup(group, lComputeBasePtr(code[group[1]]), loads,
                     lAssembleResultVectors(lSplit8WideLoads(loads), constOffsets, gangWidth))

\* Whether the pass starts a group at the instruction.
Coalescable(inst) ==
    /\ inst.op = "gather" /\ inst.mask = "all_on"
    /\ \A l \in 1 .. gangWidth : inst.var[l] = inst.var[1]

\* iter goes to the next instruction, and past the group's if they follow.
NextIter(group) ==
    LET after == {n \in iter + 1 .. Len(code) + 1 : n \notin ToSet(group)}
    IN CHOOSE n \in after : \A m \in after : n <= m

CoalesceInit ==
    /\ source \in Blocks
    /\ code = source.code /\ iter = 1 /\ loaded = {}

SkipInstruction ==
    /\ iter <= Len(code) /\ ~Coalescable(code[iter])
    /\ iter' = iter + 1
    /\ UNCHANGED <<source, code, loaded>>

coalesceGathersFactored ==
    /\ iter <= Len(code) /\ Coalescable(code[iter])
    /\ lCoalesceGathers(Group(iter))
    /\ iter' = NextIter(Group(iter))
    /\ UNCHANGED source

CoalesceNext == SkipInstruction \/ coalesceGathersFactored

CoalesceSpec == CoalesceInit /\ [][CoalesceNext]_coalesceVars

-----------------------------------------------------------------------------
(***************************************************************************)
(* Properties                                                              *)
(***************************************************************************)

\* The number of writes before instruction k, and the addresses of a gather.
Version(k) == Cardinality({n \in 1 .. k - 1 : source.code[n].op = "store"
                              \/ (source.code[n].op = "call" /\ ~source.code[n].readonly)})
GatherAddresses(g) == [l \in 1 .. gangWidth |-> g.base + g.scale * g.var[l] + g.offsets[l]]

\* Every gather yields what it did before the pass: from the same addresses,
\* lane by lane, and with the same writes to memory before the load; and no
\* assertion of the pass fails.
ResultsKept ==
    \A k \in DOMAIN code :
        code[k].op = "result" =>
            /\ ~code[k].wrong
            /\ code[k].addresses = GatherAddresses(source.code[k])
            /\ Version(code[k].at) = Version(k)

\* No load reaches beyond the lowest and the highest address that the gathers
\* of its group read: what a wide load reads in vain cannot fault.
LoadsInside ==
    \A x \in loaded :
        LET read == UNION {ToSet(GatherAddresses(source.code[k])) : k \in ToSet(x.group)}
        IN /\ \E a \in read : a <= x.from
           /\ \E a \in read : x.to <= a

\* What the pass promises.
GathersKept == ResultsKept /\ LoadsInside
=============================================================================
