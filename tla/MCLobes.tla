------------------------------- MODULE MCLobes -------------------------------
(***************************************************************************)
(* Lobes and dendrites evaluated on bounded inputs: boundary bytes, small  *)
(* lobes, every rule of three tokens.  TLC evaluates these assumptions     *)
(* before the run of the module that extends this one.                     *)
(***************************************************************************)
EXTENDS Lobes

McBytes == {0, 1, 9, 200, 255}

-------------------------------------------------------------------------------
(* Dendrites.                                                              *)

McRule(rate) ==
  [relaxSuscept |-> rate, relaxStw |-> rate, ltwGainRate |-> 2,
   gainRate |-> 2, loseRate |-> 1, minLtw |-> 5, maxLtw |-> 7,
   minStrength |-> 1, maxStrength |-> 255]
McDendrites ==
  [source : 1 .. 2, susceptibility : {0, 200}, stw : McBytes,
   ltw : McBytes, strength : {0, 1, 255}]

\* Left alone, the two weights of a dendrite meet between where they were.
ASSUME WeightsMeet ==
  \A stw, ltw \in McBytes :
    LET start == [source |-> 1, susceptibility |-> 0, stw |-> stw, ltw |-> ltw,
                  strength |-> 1]
        d[tick \in 0 .. 40] ==
          IF tick = 0 THEN start ELSE Settle(d[tick - 1], McRule(32), tick)
    IN /\ d[40].stw = d[40].ltw
       /\ d[40].ltw \in Min({stw, ltw}) .. Max({stw, ltw})

\* A neuron that fires reattaches all its loose dendrites in as many ticks,
\* when as many sources fire and no other dendrite has them.
ASSUME LooseOnesReattach ==
  \A a, b \in McDendrites :
    LET neuron == [firing |-> 1, activation |-> 1, excluded |-> FALSE,
                   dendrites |-> <<[a EXCEPT !.strength = 0],
                                   [b EXCEPT !.strength = 0]>>]
        once == AttachLoose(neuron, McRule(0), 1, 0, 0)
        twice == AttachLoose(once, McRule(0), 2, 0, 0)
    IN LooseOnes(twice.dendrites) = {} /\ DistinctSources(twice.dendrites)

\* A migrating neuron takes a set of sources that no other has, if there is
\* one, and otherwise loses them all.
ASSUME MigrationSettles ==
  \A a, b \in {d \in McDendrites : d.strength = 1 /\ d.stw \in {0, 9}} :
  \A taken \in {{}, {<<1, 2>>}, {<<2, 1>>, <<2, 3>>}} :
    LET others == {[i \in 1 .. 2 |-> [a EXCEPT !.source = t[i]]] : t \in taken}
        after == Migrate(<<a, b>>, McRule(0), <<1, 2, 3>>, others,
                         [n \in 1 .. 3 |-> 0], <<0, 0>>, <<0, 0>>)
    IN /\ \A o \in others :
            ~SameTargets(o, [i \in 1 .. 2 |-> after[i].source])
              \/ LooseOnes(after) = {1, 2}
       /\ LooseOnes(after) = {1, 2} <=> taken = {<<2, 1>>, <<2, 3>>}

\* One neuron wins as soon as one that is not excluded fires.
ASSUME SomeoneWins ==
  \A neurons \in [1 .. 3 -> [firing : {0, 1, 9}, excluded : BOOLEAN]] :
    (\E i \in 1 .. 3 : neurons[i].firing # 0 /\ ~neurons[i].excluded)
      <=> Cardinality({i \in 1 .. 3 : WinnerTakesAll(neurons)[i].firing # 0}) = 1

\* The gated sum is the plain one or nothing, and both are bytes though the
\* contributions pass one.
ASSUME SumsAreBytes ==
  \A d \in {e \in McDendrites : e.susceptibility = 0}, gain \in McBytes :
  \A firing \in [1 .. 2 -> {0, 255}], n \in {1, 3} :
    LET ds == [i \in 1 .. n |-> IF i = 1 THEN [d EXCEPT !.source = 1] ELSE d]
    IN /\ InputSum(ds, firing, gain) \in Byte
       /\ GatedSum(ds, firing, gain) \in {0, InputSum(ds, firing, gain)}

-------------------------------------------------------------------------------
(* Rules.                                                                  *)

McRegisters == [t \in 0 .. 21 |-> IF t = 4 THEN 255 ELSE IF t = 9 THEN 7 ELSE 0]
McTokens == {0, 1, 4, 9} \cup 22 .. 28

\* Every rule is worth a byte; what follows an end is never read; a rule
\* that starts with a condition is its value or nothing.
ASSUME RulesAreBytes ==
  \A a, b, c \in McTokens :
    LET worth == EvaluateRule(<<a, b, c>>, McRegisters) IN
    /\ worth \in Byte
    /\ EvaluateRule(<<a, b, c, EndToken, 4>>, McRegisters) \in Byte
    /\ b = EndToken /\ a < FirstOperator
         => worth = IF a = EndToken THEN 0 ELSE McRegisters[a]
    /\ a < FirstOperator /\ a # EndToken /\ b = 22 /\ McRegisters[a] = 0
         => worth = 0

\* Whatever a genome holds, a loaded rule has no token past the last one
\* and ends.
ASSUME LoadedRulesEnd ==
  \A a, b \in {0, 29, 30, 59, 255} :
    LET rule == LoadRule([i \in 1 .. 8 |-> IF i = 1 THEN a ELSE b]) IN
    /\ Range(rule) \subseteq 0 .. 29
    /\ rule[9] = EndToken /\ EvaluateRule(rule, McRegisters) \in Byte

-------------------------------------------------------------------------------
(* Lobes.                                                                  *)

McExtents == {0, 1, 2, 20, 33, 63, 64, 255}
McGenes2 == [x : {0, 63, 64, 255}, y : {10, 63}, width : McExtents,
             height : McExtents]

\* On the standard grid a lobe whose size is not changed after it was pulled
\* back lies within the grid.
ASSUME StandardLobesFit ==
  \A gene \in McGenes2, lobe \in 0 .. 8 :
    LET place == Placed(lobe, gene, FALSE) IN
    /\ place.x \in Nat /\ place.y \in Nat
    /\ place.width = GridExtent(gene.width)
         => place.x + place.width <= StandardGrid
    /\ place.height = GridExtent(gene.height)
         => place.y + place.height <= StandardGrid

\* One that is widened can run off it, as load_genome says of C1.
ASSUME WidenedLobeRunsOff ==
  LET place == Placed(2, [x |-> 63, y |-> 0, width |-> 1, height |-> 1], FALSE)
  IN place.x + place.width > StandardGrid

\* With the same neurons loose all the time, each gets its turn within one
\* walk from the top.
ASSUME EveryLooseNeuronMigrates ==
  \A loose \in SUBSET (0 .. 4) :
    LET stored[k \in 0 .. 5] ==
          IF k = 0 THEN NoCandidate ELSE NextCandidate(loose, stored[k - 1])
    IN {stored[k] : k \in 1 .. 5} \ {NoCandidate} = loose

\* Senses fill the perception lobe without a gap, only raise it, and leave
\* the neurons past them alone.
ASSUME SensesMerge ==
  \A first, second \in 0 .. 2, size \in 1 .. 3, was \in {0, 9, 255} :
    LET Sense(i, n) == [index |-> i, count |-> n, exclusive |-> i = 2,
                        firing |-> [k \in 1 .. n |-> 10 * i]]
        slots == PerceptionSlots(<<Sense(1, first), Sense(2, second)>>, size)
        after == Merged([p \in 1 .. size |-> was], slots)
    IN /\ \A p \in 1 .. size :
            after[p] = IF p <= first THEN Max({was, 10})
                       ELSE IF p <= first + second THEN Max({was, 20})
                       ELSE was
       /\ \A p \in DOMAIN slots : CopyMark(slots[p]) = IF p <= first THEN 0 ELSE 2
       /\ PerceptionOverrun(slots, size) <=> first + second >= size

\* An embryo dreams all its instincts to their end and wakes; a creature that
\* sleeps dreams as many as its countdown allows.  Each is at its step 38.
ASSUME DreamsEnd ==
  \A n \in 0 .. 3, countdown \in 1 .. 3, embryo \in BOOLEAN :
    LET dreamer[k \in 0 .. 10] ==
          IF k = 0 THEN [instincts |-> [i \in 1 .. n |-> 38],
                         countdown |-> countdown, ticks |-> 0,
                         embryo |-> embryo]
          ELSE Dream(dreamer[k - 1])
        dreamt == IF embryo THEN n ELSE Min({n, countdown})
    IN /\ dreamer[10].countdown = 0
       /\ Len(dreamer[10].instincts) = n - dreamt
       /\ dreamer[10].ticks = 3 * dreamt

\* The first of the overlapping neurons is fired, in lobe order.
ASSUME FirstNeuronFires ==
  LET lobes == <<[x |-> 0, y |-> 0, width |-> 2, height |-> 2],
                 [x |-> 1, y |-> 1, width |-> 2, height |-> 1]>>
  IN /\ FireAt(lobes, 1, 1) = <<1, 3>>
     /\ FireAt(lobes, 2, 1) = <<2, 1>>
     /\ FireAt(lobes, 3, 3) = <<>>
===============================================================================
