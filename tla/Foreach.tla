------------------------------- MODULE Foreach -------------------------------
(***************************************************************************)
(* The loops ispc emits for foreach and foreach_tiled                      *)
(* (ForeachStmt::EmitCode): an n-dimensional domain of integers, run a     *)
(* vector's width of elements at a time.                                   *)
(*                                                                         *)
(* Each dimension has a uniform counter that advances by the dimension's   *)
(* span.  The outer dimensions are plain loops that keep a mask of the     *)
(* lanes inside the domain (extrasMask).  The innermost one runs the body  *)
(* with all lanes on where it can, and with a mask at the ragged end of    *)
(* any dimension.  block is the basic block to run, at a dimension where   *)
(* there is one block per dimension.                                       *)
(*                                                                         *)
(* On Xe targets (ForeachStmt::EmitCodeForXe) each lane has counters of    *)
(* its own, and the hardware's execution mask drives the loop: a lane that *)
(* fails the test of a dimension is off, parked at the dimension's reset   *)
(* block, until all lanes that are on get there.                           *)
(*                                                                         *)
(* done is not in the code: the elements the body has run for.             *)
(***************************************************************************)
EXTENDS Integers, Sequences, FiniteSets

CONSTANT
    Domains         \* the loops to run: [width, isTiled, startVals, endVals,
                    \* oldMask, xe, unmask], where width is the target's vector
                    \* width, oldMask the mask the loop is entered with, xe
                    \* whether the target is an Xe one, and unmask the option
                    \* enableForeachInsideVarying

\* The powers of two up to the widest gang.
Powers == {1, 2, 4, 8, 16, 32, 64}

\* The widths of the targets are powers of two.  The language requires start to
\* be less than or equal to end; on Xe, foreach under varying control flow needs
\* the option.
ASSUME DomainsAssumption ==
    \A dom \in Domains :
        /\ dom.width \in Powers
        /\ Len(dom.startVals) = Len(dom.endVals)
        /\ Len(dom.startVals) > 0
        /\ dom.startVals \in Seq(Int) /\ dom.endVals \in Seq(Int)
        /\ \A i \in DOMAIN dom.startVals : dom.startVals[i] <= dom.endVals[i]
        /\ {dom.isTiled, dom.xe, dom.unmask} \subseteq BOOLEAN /\ dom.oldMask \subseteq 0 .. dom.width - 1
        /\ dom.xe => dom.unmask \/ dom.oldMask = 0 .. dom.width - 1

VARIABLES
    loop,           \* the foreach that runs
    block,          \* the basic block, <<name, dimension>>
    counter,        \* uniformCounterPtrs: a counter for each dimension
    smeared,        \* the counter dimVariables[i] was last computed from
    extrasMask,     \* extrasMaskPtrs: a mask for each dimension
    inExtras,       \* whether a dimension up to the i-th is in its extras
    mask,           \* the internal mask
    stepIndex,      \* stepIndexAfterMaskedBody
    varying,        \* Xe: dimVariables, a counter for each dimension and lane
    parked,         \* Xe: the lanes that wait at each dimension's reset block
    done            \* the elements the body has run for

cpuVars == <<counter, smeared, extrasMask, inExtras, stepIndex>>
xeVars == <<varying, parked>>
loopVars == <<loop, block, mask, done, cpuVars, xeVars>>

Lanes == 0 .. loop.width - 1

nDims == Len(loop.startVals)

Dims == 1 .. nDims

-----------------------------------------------------------------------------
Log2(n) == Cardinality({p \in Powers : 1 < p /\ p <= n})

\* The span lGetSpans gives a dimension with dimsLeft dimensions inside it.
SpanOf(dimsLeft, itemsLeft, isTiled) ==
    IF dimsLeft = 0 THEN itemsLeft
    ELSE IF ~isTiled \/ dimsLeft >= Log2(itemsLeft) THEN 1
    ELSE IF itemsLeft >= 16 /\ dimsLeft = 1 THEN 4
    ELSE 2

\* What each dimension has to share out, to itself and to those inside it.
ItemsLeft(n, width, isTiled) ==
    LET itemsLeft[i \in 1 .. n] ==
            IF i = 1 THEN width
            ELSE itemsLeft[i - 1] \div SpanOf(n - i + 1, itemsLeft[i - 1], isTiled)
    IN itemsLeft

lGetSpans(n, width, isTiled) ==
    [i \in 1 .. n |-> SpanOf(n - i, ItemsLeft(n, width, isTiled)[i], isTiled)]

span == lGetSpans(nDims, loop.width, loop.isTiled)

\* lCalculateDeltaForVaryingCounter: the product of the spans of the dimensions
\* inside each one, and a lane's offset in dimension i.
SpansInside(n, spans) ==
    LET prod[i \in 1 .. n] == IF i = n THEN 1 ELSE spans[i + 1] * prod[i + 1]
    IN prod

Delta(i, lane) == (lane \div SpansInside(nDims, span)[i]) % span[i]

\* The lanes that are inside the domain in dimension i.
InsideOf(i, value) == {lane \in Lanes : value + Delta(i, lane) < loop.endVals[i]}

\* What is left over at the end of dimension i.
nExtras(i) == (loop.endVals[i] - loop.startVals[i]) % span[i]

\* The end of the whole spans.
alignedEnd(i) == loop.endVals[i] - nExtras(i)

\* The element a lane works on.
Element(lane) ==
    [i \in Dims |-> IF loop.xe THEN varying[i][lane] ELSE smeared[i] + Delta(i, lane)]

LoopInit ==
    /\ loop \in Domains
    /\ block = IF loop.xe THEN <<"start", 0>> ELSE <<"test", 1>>
    /\ counter = loop.startVals
    /\ smeared = loop.startVals
    /\ extrasMask = [i \in Dims |-> Lanes]
    /\ inExtras = [i \in Dims |-> FALSE]
    /\ mask = IF loop.xe THEN loop.oldMask ELSE Lanes
    /\ stepIndex = FALSE
    /\ varying = [i \in Dims |-> [lane \in Lanes |-> 0]]
    /\ parked = [i \in Dims |-> {}]
    /\ done = {}

-----------------------------------------------------------------------------
At(name) == block[1] = name

\* foreach_test, for a dimension that is not the innermost.
TestOuter ==
    /\ At("test")
    /\ LET i == block[2]
           emask == InsideOf(i, counter[i])
           inEx == loop.endVals[i] > alignedEnd(i) /\ counter[i] = alignedEnd(i)
       IN /\ i < nDims
          /\ inExtras' = [inExtras EXCEPT ![i] = inEx \/ (i > 1 /\ inExtras[i - 1])]
          /\ smeared' = [smeared EXCEPT ![i] = counter[i]]
          /\ extrasMask' = [extrasMask EXCEPT
                 ![i] = IF i = 1 THEN emask ELSE extrasMask[i - 1] \cap emask]
          /\ block' = IF counter[i] < loop.endVals[i] THEN <<"test", i + 1>>
                                                   ELSE <<"reset", i>>
    /\ UNCHANGED <<loop, counter, mask, stepIndex, done, xeVars>>

\* foreach_test, for the innermost dimension.
TestInner ==
    /\ block = <<"test", nDims>>
    /\ block' = IF nDims > 1 /\ inExtras[nDims - 1] THEN <<"outer_in_extras", nDims>>
                                                ELSE <<"outer_not_in_extras", nDims>>
    /\ UNCHANGED <<loop, mask, done, cpuVars, xeVars>>

\* foreach_reset: a dimension is through; start it again for the next step of
\* the one around it.
Reset ==
    /\ At("reset")
    /\ LET i == block[2] IN
       IF i = 1
       THEN /\ block' = <<"exit", 0>>
            /\ UNCHANGED <<counter, extrasMask>>
       ELSE /\ extrasMask' = [extrasMask EXCEPT ![i] = Lanes]
            /\ counter' = [counter EXCEPT ![i] = loop.startVals[i]]
            /\ block' = <<"step", i - 1>>
    /\ UNCHANGED <<loop, smeared, inExtras, mask, stepIndex, done, xeVars>>

\* foreach_step.
Step ==
    /\ At("step")
    /\ counter' = [counter EXCEPT ![block[2]] = @ + span[block[2]]]
    /\ block' = <<"test", block[2]>>
    /\ UNCHANGED <<loop, smeared, extrasMask, inExtras, mask, stepIndex, done, xeVars>>

\* Mutant: no test for an end that is aligned.
OuterInExtrasRunsOn ==
    /\ At("outer_in_extras")
    /\ LET emask == InsideOf(nDims, counter[nDims])
           before == counter[nDims] < alignedEnd(nDims)
       IN /\ stepIndex' = before
          /\ mask' = IF before THEN extrasMask[nDims - 1]
                               ELSE extrasMask[nDims - 1] \cap emask
    /\ smeared' = [smeared EXCEPT ![nDims] = counter[nDims]]
    /\ block' = <<"masked_body", nDims>>
    /\ UNCHANGED <<loop, counter, extrasMask, inExtras, done, xeVars>>

\* outer_in_extras, and all_inner_partial_outer or both_partial.
OuterInExtras ==
    /\ At("outer_in_extras")
    /\ LET emask == InsideOf(nDims, counter[nDims])
           before == counter[nDims] < alignedEnd(nDims)
       IN /\ stepIndex' = before
          /\ mask' = IF before THEN extrasMask[nDims - 1]
                               ELSE extrasMask[nDims - 1] \cap emask
          /\ block' = IF before \/ counter[nDims] # loop.endVals[nDims]
                   THEN <<"masked_body", nDims>> ELSE <<"reset", nDims>>
    /\ smeared' = [smeared EXCEPT ![nDims] = counter[nDims]]
    /\ UNCHANGED <<loop, counter, extrasMask, inExtras, done, xeVars>>

\* outer_not_in_extras, and the start of full_body: all lanes are on.
FullVector ==
    /\ At("outer_not_in_extras")
    /\ counter[nDims] < alignedEnd(nDims)
    /\ mask' = Lanes
    /\ smeared' = [smeared EXCEPT ![nDims] = counter[nDims]]
    /\ block' = <<"full_body", nDims>>
    /\ UNCHANGED <<loop, counter, extrasMask, inExtras, stepIndex, done, xeVars>>

\* outer_not_in_extras, partial_inner_all_outer and partial_inner_only.
PartialInner ==
    /\ At("outer_not_in_extras")
    /\ counter[nDims] >= alignedEnd(nDims)
    /\ IF counter[nDims] < loop.endVals[nDims]
       THEN /\ smeared' = [smeared EXCEPT ![nDims] = counter[nDims]]
            /\ mask' = InsideOf(nDims, counter[nDims])
            /\ stepIndex' = FALSE
            /\ block' = <<"masked_body", nDims>>
       ELSE /\ block' = <<"reset", nDims>>
            /\ UNCHANGED <<smeared, mask, stepIndex>>
    /\ UNCHANGED <<loop, counter, extrasMask, inExtras, done, xeVars>>

\* The body, for the lanes of the mask.
RunBody == done' = done \cup {Element(lane) : lane \in mask}

StepInnerIndex == counter' = [counter EXCEPT ![nDims] = @ + span[nDims]]

\* full_body and foreach_full_continue.
FullBody ==
    /\ At("full_body")
    /\ RunBody
    /\ StepInnerIndex
    /\ block' = <<"outer_not_in_extras", nDims>>
    /\ UNCHANGED <<loop, smeared, extrasMask, inExtras, mask, stepIndex, xeVars>>

\* masked_body, foreach_masked_continue and step_inner_index.
MaskedBody ==
    /\ At("masked_body")
    /\ RunBody
    /\ IF stepIndex
       THEN StepInnerIndex /\ block' = <<"outer_in_extras", nDims>>
       ELSE UNCHANGED counter /\ block' = <<"reset", nDims>>
    /\ UNCHANGED <<loop, smeared, extrasMask, inExtras, mask, stepIndex, xeVars>>

-----------------------------------------------------------------------------
(***************************************************************************)
(* Xe targets                                                              *)
(***************************************************************************)

\* The start values are made varying.  With the option, the loop is a region
\* in which all lanes are on.
XeStart ==
    /\ At("start")
    /\ mask' = IF loop.unmask THEN Lanes ELSE mask
    /\ varying' = [i \in Dims |-> [lane \in Lanes |->
                      IF lane \in mask' THEN loop.startVals[i] + Delta(i, lane) ELSE varying[i][lane]]]
    /\ block' = <<"xe_test", 1>>
    /\ UNCHANGED <<loop, done, parked, cpuVars>>

\* foreach_test: the lanes that fail are parked at the reset block; when none
\* is left, control gets there, too, and all lanes parked there are on again.
XeTest ==
    /\ At("xe_test")
    /\ LET i == block[2]
           passed == {lane \in mask : varying[i][lane] < loop.endVals[i]}
           target == IF i < nDims THEN <<"xe_test", i + 1>> ELSE <<"xe_body", nDims>>
       IN IF passed # {}
          THEN /\ mask' = passed
               /\ parked' = [parked EXCEPT ![i] = @ \cup (mask \ passed)]
               /\ block' = target
          ELSE /\ mask' = mask \cup parked[i]
               /\ parked' = [parked EXCEPT ![i] = {}]
               /\ block' = <<"xe_reset", i>>
    /\ UNCHANGED <<loop, done, varying, cpuVars>>

\* The lanes that are on set their counter of dimension i.
SetVarying(i, value(_)) ==
    varying' = [varying EXCEPT ![i] = [lane \in Lanes |-> IF lane \in mask THEN value(lane) ELSE @[lane]]]

\* foreach_reset.
XeReset ==
    /\ At("xe_reset")
    /\ LET i == block[2] IN
       IF i = 1
       THEN block' = <<"exit", 0>> /\ UNCHANGED varying
       ELSE /\ SetVarying(i, LAMBDA lane : loop.startVals[i] + Delta(i, lane))
            /\ block' = <<"xe_step", i - 1>>
    /\ UNCHANGED <<loop, mask, done, parked, cpuVars>>

\* foreach_step.
XeStep ==
    /\ At("xe_step")
    /\ LET i == block[2] IN
       /\ SetVarying(i, LAMBDA lane : varying[i][lane] + span[i])
       /\ block' = <<"xe_test", i>>
    /\ UNCHANGED <<loop, mask, done, parked, cpuVars>>

\* foreach_body.
XeBody ==
    /\ At("xe_body")
    /\ RunBody
    /\ block' = <<"xe_step", nDims>>
    /\ UNCHANGED <<loop, mask, cpuVars, xeVars>>

-----------------------------------------------------------------------------
\* The Xe code leaves the mask alone unless the loop was a region with all lanes
\* on.
XeRestoredMask == IF loop.unmask THEN loop.oldMask ELSE mask

\* foreach_exit: back to the mask before the loop.
Exit ==
    /\ At("exit")
    /\ mask' = IF loop.xe THEN XeRestoredMask ELSE loop.oldMask
    /\ block' = <<"end", 0>>
    /\ UNCHANGED <<loop, done, cpuVars, xeVars>>

\* The code after the loop.
LoopEnded == At("end") /\ UNCHANGED loopVars

LoopNext ==
    \/ TestOuter \/ TestInner \/ Reset \/ Step
    \/ OuterInExtras \/ FullVector \/ PartialInner
    \/ FullBody \/ MaskedBody
    \/ XeStart \/ XeTest \/ XeReset \/ XeStep \/ XeBody
    \/ Exit \/ LoopEnded

LoopSpec == LoopInit /\ [][LoopNext]_loopVars /\ WF_loopVars(LoopNext)
-----------------------------------------------------------------------------
Blocks == {"test", "reset", "step", "outer_in_extras", "outer_not_in_extras",
           "full_body", "masked_body", "xe_test", "xe_reset", "xe_step", "xe_body"}

\* The type invariant: block is one of the blocks of the loop's dimensions.
LoopTypeOK ==
    /\ block \in (Blocks \X Dims) \cup {<<"start", 0>>, <<"exit", 0>>, <<"end", 0>>}
    /\ \A i \in Dims : counter[i] \in Int /\ smeared[i] \in Int
    /\ \A i \in Dims : extrasMask[i] \subseteq Lanes /\ inExtras[i] \in BOOLEAN
    /\ \A i \in Dims : varying[i] \in [Lanes -> Int] /\ parked[i] \subseteq Lanes
    /\ mask \subseteq Lanes
    /\ stepIndex \in BOOLEAN

InDomain(e) ==
    \A i \in Dims : loop.startVals[i] <= e[i] /\ e[i] < loop.endVals[i]

AtBody == block[1] \in {"full_body", "masked_body", "xe_body"}

(***************************************************************************)
(* Whenever the body runs, each lane that is on has an element of the      *)
(* iteration domain to itself, one that the body has not run for: none is  *)
(* processed twice, none outside the domain.                               *)
(***************************************************************************)
ElementsFresh ==
    AtBody => \A lane \in mask :
        /\ InDomain(Element(lane))
        /\ Element(lane) \notin done
        /\ \A other \in mask \ {lane} : Element(other) # Element(lane)

\* The integers that occur as an index of the loop.
Indices == UNION {loop.startVals[i] .. loop.endVals[i] : i \in Dims}

\* When the loop exits, the body has run for every element of the domain.
DomainCovered == At("exit") => {e \in [Dims -> Indices] : InDomain(e)} \subseteq done

\* The body never runs with the mask all off.
BodyHasLanes == AtBody => mask # {}

\* After the loop the lanes are on that were on before it: none is left parked
\* in a dimension.
LanesBack == At("end") => mask = loop.oldMask

\* The body runs once for every element of the domain and for nothing else.
IterationsExact == ElementsFresh /\ DomainCovered /\ BodyHasLanes /\ LanesBack
=============================================================================
