-------------------------------- MODULE Lobes --------------------------------
(***************************************************************************)
(* The lobes of a brain: where the genome puts them, how their neurons are *)
(* wired, what an SVRule evaluates to, how the senses are merged into the  *)
(* perception lobe, which neuron migrates next, what an instinct does in a *)
(* dream, and which connections survive the archive.                       *)
(*                                                                         *)
(* Neurons are numbered from 0 here, as in the code.                       *)
(***************************************************************************)
EXTENDS Dendrites

StandardGrid == 64
ExtendedGrid == 208

-------------------------------------------------------------------------------
(* Geometry.                                                               *)

GridOffset(encoded, extended) == IF extended THEN encoded ELSE encoded % 64

GridExtent(encoded) ==
  IF encoded \in 1 .. 63 THEN encoded ELSE (encoded % 63) + 1

\* drive, verb, decision; stimulus source, noun, attention; general sensory.
MinimumArea(lobe) ==
  IF lobe \in {1, 3, 6} THEN 16
  ELSE IF lobe \in {2, 4, 7} THEN 40
  ELSE IF lobe = 5 THEN 32
  ELSE 0

\* The width is raised one column at a time until the lobe is large enough.
Widened(width, height, area) ==
  IF width * height >= area THEN width ELSE (area + height - 1) \div height

PulledBack(offset, extent, grid) ==
  IF offset + extent > grid THEN grid - extent ELSE offset

\* The standard grid pulls a lobe back before its size is settled, the
\* extended grid afterwards.
Placed(lobe, gene, extended) ==
  LET width == GridExtent(gene.width)
      height == GridExtent(gene.height)
      wide == Widened(width, height, MinimumArea(lobe))
      oversized == MinimumArea(lobe) # 0 /\ wide * height > 1024
      w == IF oversized THEN 32 ELSE wide
      h == IF oversized THEN 32 ELSE height
  IN [x |-> IF extended
            THEN PulledBack(GridOffset(gene.x, TRUE), w, ExtendedGrid)
            ELSE PulledBack(GridOffset(gene.x, FALSE), width, StandardGrid),
      y |-> IF extended
            THEN PulledBack(GridOffset(gene.y, TRUE), h, ExtendedGrid)
            ELSE PulledBack(GridOffset(gene.y, FALSE), height, StandardGrid),
      width |-> w, height |-> h]

-------------------------------------------------------------------------------
(* SVRules.  `registers` gives the bytes 0 .. 21 that a token can name.    *)

EndToken == 0
FirstOperator == 22   \* TRUE, PLUS, MINUS, TIMES, INCR, DECR, two unused

NormalizeRuleToken(raw) == raw % 30

LoadRule(raw) ==
  [i \in 1 .. 10 |-> IF i > 8 THEN EndToken ELSE NormalizeRuleToken(raw[i])]

Operand(registers, token) ==
  IF token < FirstOperator THEN registers[token] ELSE 0

Binary(token, accumulator, operand) ==
  IF token = 23 THEN SaturatingAdd(accumulator, operand)
  ELSE IF token = 24 THEN SaturatingSubtract(accumulator, operand)
  ELSE (accumulator * operand) \div 256

Unary(token, accumulator) ==
  IF token = 26 THEN SaturatingAdd(accumulator, 1)
  ELSE IF token = 27 THEN SaturatingSubtract(accumulator, 1)
  ELSE accumulator

\* TRUE ends a rule whose value so far is 0; an operator without an operand
\* ends it too; an operator as an operand counts 0.
EvaluateRule(tokens, registers) ==
  LET value[i \in 1 .. Len(tokens) + 1] == [accumulator \in Byte |->
        IF i > Len(tokens) THEN accumulator
        ELSE LET token == tokens[i] IN
          IF token = EndToken THEN accumulator
          ELSE IF token < FirstOperator THEN value[i + 1][registers[token]]
          ELSE IF token = 22
               THEN IF accumulator = 0 THEN 0 ELSE value[i + 1][accumulator]
          ELSE IF token \in 23 .. 25
               THEN IF i = Len(tokens) THEN accumulator
                    ELSE value[i + 2][Binary(token, accumulator,
                                Operand(registers, tokens[i + 1]))]
          ELSE value[i + 1][Unary(token, accumulator)]]
  IN value[1][0]

-------------------------------------------------------------------------------
(* Wiring.                                                                 *)

\* Genes may name lobes that were not loaded.
FoldedSource(rule, count) == [rule EXCEPT !.source = @ % count]

Clamped(coordinate, extent) ==
  IF coordinate < 0 THEN 0
  ELSE IF coordinate > extent - 1 THEN extent - 1
  ELSE coordinate

\* Neuron n of `count` looks at its place in the source lobe in proportion.
Canonical(n, count, area) == (n * area) \div count

\* The first dendrite goes there, the others within `fanout` of it.
Offset(rand, fanout) == (rand % (2 * fanout + 1)) - fanout

WiredTo(source, canonical, dx, dy) ==
  Clamped((canonical \div source.width) + dy, source.height) * source.width
    + Clamped((canonical % source.width) + dx, source.width)

-------------------------------------------------------------------------------
(* Perception.  The neurons of the lobes that copy to it take its neurons  *)
(* one after the other; `lobes` lists those lobes in their order.          *)

PerceptionSlots(lobes, perceptionCount) ==
  LET all == FoldLeft(LAMBDA acc, lobe :
                        acc \o [n \in 1 .. lobe.count |->
                                  [lobe |-> lobe, neuron |-> n]],
                      <<>>, lobes)
  IN [p \in 1 .. IF Len(all) < perceptionCount THEN Len(all)
                 ELSE perceptionCount |-> all[p]]

\* Marks the neurons whose senses exclude each other.
CopyMark(slot) == IF slot.lobe.exclusive THEN slot.lobe.index ELSE 0

\* A sense can only raise a perception neuron's activation.
Merged(activations, slots) ==
  [p \in DOMAIN activations |->
     IF p \in DOMAIN slots
     THEN Max({activations[p], slots[p].lobe.firing[slots[p].neuron]})
     ELSE activations[p]]

\* Reported also when the copies just fill the lobe.
PerceptionOverrun(slots, perceptionCount) ==
  slots # <<>> /\ Len(slots) = perceptionCount

-------------------------------------------------------------------------------
(* Loose dendrites as the lobe's emitter loci see them, and the walk of    *)
(* migration.                                                              *)

NoCandidate == 99999

\* A dendrite that was loose, recovered and came loose again counts twice.
LooseCount(before, rule, signals, tick) ==
  Cardinality(LooseOnes(before))
    + Cardinality({i \in DOMAIN before :
                     Loosens(before[i], rule, signals[i], tick)})

\* `counts` are the loose dendrites of each neuron: the fewest of any neuron,
\* or the number of neurons that have some.
LobeLooseCount(mode, counts) ==
  IF mode = "attach" THEN Min({255} \cup Range(counts))
  ELSE Min({255, Cardinality({i \in DOMAIN counts : counts[i] # 0})})

SpendLoose(count) == SaturatingSubtract(count, 1)

\* `loose` are the neurons with loose dendrites; the walk goes downwards and
\* starts again at the top after it found none.
Candidates(loose, stored) == {n \in loose : n < stored}

NextCandidate(loose, stored) ==
  IF Candidates(loose, stored) = {} THEN NoCandidate
  ELSE Max(Candidates(loose, stored))

-------------------------------------------------------------------------------
(* Activations given by the world, and dreams.                             *)

AddActivation(activation, delta) == SaturatingAdd(activation, delta)

\* The first neuron at a place of the grid, of all lobes in their order.
FireAt(lobes, x, y) ==
  LET Here(l) == {n \in 0 .. lobes[l].width * lobes[l].height - 1 :
                    /\ lobes[l].x + (n % lobes[l].width) = x
                    /\ lobes[l].y + (n \div lobes[l].width) = y}
      hit == {l \in DOMAIN lobes : Here(l) # {}}
  IN IF hit = {} THEN <<>> ELSE <<Min(hit), Min(Here(Min(hit)))>>

FiredActivation(value) ==
  IF value < 0 THEN 0 ELSE IF value > 255 THEN 255 ELSE value

\* A dream step puts neuron n of a lobe into the instinct's scene.
DreamNeuron(neuron, instinct, lobe, n) ==
  IF lobe = 6 /\ n = instinct.decision
  THEN [neuron EXCEPT !.firing = 255, !.activation = 255]
  ELSE LET replayed == lobe # 0 /\ \E i \in 1 .. 3 :
                         instinct.lobes[i] = lobe /\ instinct.neurons[i] = n
       IN [neuron EXCEPT !.firing = IF lobe < 8 THEN 0 ELSE @,
                         !.activation = IF replayed THEN 255
                                        ELSE IF lobe < 8 THEN 0 ELSE @]

\* What was learned in the dream is kept for good.
Consolidate(d) == IF d.ltw < d.stw THEN [d EXCEPT !.ltw = d.stw] ELSE d

\* The first of the instincts: one step clears the brain, 34 replay what the
\* instinct is about, five replay it with its chemical, the last learns it.
DreamPhase(step) ==
  IF step = 0 THEN "clear"
  ELSE IF step < 35 THEN "replay"
  ELSE IF step < 40 THEN "reward"
  ELSE "learn"

Dream(dreamer) ==
  IF dreamer.countdown = 0 THEN dreamer
  ELSE IF dreamer.instincts = <<>> THEN [dreamer EXCEPT !.countdown = 0]
  ELSE IF DreamPhase(dreamer.instincts[1]) # "learn"
  THEN [dreamer EXCEPT !.instincts[1] = @ + 1, !.ticks = @ + 1]
  ELSE [instincts |-> Tail(dreamer.instincts),
        countdown |-> IF Len(dreamer.instincts) = 1 THEN 0
                      ELSE IF dreamer.embryo THEN dreamer.countdown
                      ELSE dreamer.countdown - 1,
        ticks |-> dreamer.ticks + 1,
        embryo |-> dreamer.embryo]

-------------------------------------------------------------------------------
(* The archive.                                                            *)

NoSource == -1

\* A source outside its lobe, or none, is written as the lobe's first neuron.
ArchivedSource(source, count) == IF source \in 0 .. count - 1 THEN source ELSE 0

RestoredSource(archived, lobe, lobes) ==
  IF lobe \in DOMAIN lobes /\ archived \in 0 .. lobes[lobe] - 1 THEN archived
  ELSE NoSource

\* The dendrites of a neuron are taken only from within the lobe's array.
RestoredRange(begin, count, total) ==
  IF total # 0 /\ begin + count <= total THEN [i \in 1 .. count |-> begin + i]
  ELSE <<>>
===============================================================================
