------------------------------ MODULE Dendrites ------------------------------
(***************************************************************************)
(* A lobe of a creature's brain: how many dendrites a neuron gets, how a   *)
(* dendrite learns and forgets in the late phase of a brain update, how a  *)
(* loose one finds a new source, and which neuron of a winner-take-all     *)
(* lobe fires.                                                             *)
(*                                                                         *)
(* What an SVRule of the genome evaluates to is any byte, given here as a  *)
(* signal.  Draws of rand are parameters.  Row numbers of the repository's *)
(* list of native bugs are fixed as in an ordinary build.                  *)
(***************************************************************************)
EXTENDS Biochemistry

-------------------------------------------------------------------------------
(* Genes of a dendrite type.                                               *)

\* A range whose maximum is below its minimum is folded back above it.
NormalizeRangeMax(minimum, maximum) ==
  IF maximum >= minimum THEN maximum
  ELSE minimum + (maximum % (256 - minimum))

Draw(rand, minimum, maximum) == minimum + (rand % (maximum - minimum + 1))

Magnitude(difference) == IF difference < 0 THEN -difference ELSE difference

\* The number of dendrites of a neuron, from two draws.
SampleCount(spread, minimum, maximum, rand1, rand2) ==
  LET range == maximum - minimum
      first == rand1 % (range + 1)
      second == rand2 % (range + 1)
  IN minimum + (IF spread = "uniform" THEN first
                ELSE IF spread = "average" THEN (first + second) \div 2
                ELSE IF spread = "difference"
                     THEN Magnitude(first + second - range)
                ELSE range - Magnitude(first + second - range))

-------------------------------------------------------------------------------
(* One tick of one dendrite.                                               *)

\* A value drawn towards its baseline: activation, and short-term weight.
Relaxed(value, baseline, rate, tick) ==
  IF value = baseline \/ ~Due(Selector(rate), tick) THEN value
  ELSE IF baseline < value
       THEN baseline + Left(value - baseline, Selector(rate))
       ELSE baseline - Left(baseline - value, Selector(rate))

EveryNth(rate, tick) == rate # 0 /\ tick % rate = 0

Sensitise(d, rule, signal, tick) ==
  IF d.susceptibility < signal
  THEN [d EXCEPT !.susceptibility = @ + ((signal - @) \div 8)]
  ELSE IF Due(Selector(rule.relaxSuscept), tick)
  THEN [d EXCEPT !.susceptibility = Left(@, Selector(rule.relaxSuscept))]
  ELSE d

Weighted(d, signal) == (d.susceptibility * signal) \div 256

\* The rise past what the weight has above its baseline is taken as a byte.
Reinforce(d, signal) ==
  LET headroom == d.stw - d.ltw
      rise == (Weighted(d, signal) - headroom) % 256
  IN IF Weighted(d, signal) = 0 \/ headroom >= Weighted(d, signal) THEN d
     ELSE [d EXCEPT !.stw = SaturatingAdd(@, rise)]

\* The short-term weight falls back to the long-term one ...
RelaxWeight(d, rule, tick) ==
  [d EXCEPT !.stw = Relaxed(@, d.ltw, rule.relaxStw, tick)]

\* ... which takes a step towards it.
StepLtw(d, rule, tick) ==
  IF d.stw = d.ltw \/ ~EveryNth(rule.ltwGainRate, tick) THEN d
  ELSE [d EXCEPT !.ltw = IF d.ltw < d.stw THEN @ + 1 ELSE @ - 1]

Settle(d, rule, tick) == StepLtw(RelaxWeight(d, rule, tick), rule, tick)

Strengthen(d, rule, signal, tick) ==
  IF EveryNth(rule.gainRate, tick) /\ d.strength < signal
  THEN [d EXCEPT !.strength = signal] ELSE d

Weakens(d, rule, signal, tick) ==
  /\ EveryNth(rule.loseRate, tick)
  /\ d.strength # 0
  /\ signal # 0

\* A dendrite whose strength is gone is loose, and has learned nothing.
Weaken(d, rule, signal, tick) ==
  IF ~Weakens(d, rule, signal, tick) THEN d
  ELSE IF d.strength > 1 THEN [d EXCEPT !.strength = @ - 1]
  ELSE [d EXCEPT !.strength = 0, !.susceptibility = 0, !.stw = 0, !.ltw = 0]

Grown(d, rule, signals, tick) ==
  Strengthen(
    Settle(
      Reinforce(Sensitise(d, rule, signals.suscept, tick), signals.reinforce),
      rule, tick),
    rule, signals.gain, tick)

DendriteStep(d, rule, signals, tick) ==
  Weaken(Grown(d, rule, signals, tick), rule, signals.lose, tick)

Loosens(d, rule, signals, tick) ==
  LET grown == Grown(d, rule, signals, tick) IN
  grown.strength = 1 /\ Weakens(grown, rule, signals.lose, tick)

\* The dendrites of one type of one neuron; one that comes loose silences
\* the neuron.
UpdateDendrites(neuron, rule, signals, tick) ==
  LET silenced == \E i \in DOMAIN neuron.dendrites :
                    Loosens(neuron.dendrites[i], rule, signals[i], tick)
  IN [neuron EXCEPT
        !.dendrites = [i \in DOMAIN @ |->
                         DendriteStep(@[i], rule, signals[i], tick)],
        !.firing = IF silenced THEN 0 ELSE @,
        !.activation = IF silenced THEN 0 ELSE @]

-------------------------------------------------------------------------------
(* Loose dendrites.  `selected` and `active` come from the list of active  *)
(* neurons that the source lobe's last update left.  The counts of loose   *)
(* dendrites are in Lobes.                                                 *)

Loose(d) == d.strength = 0

Connected(d, source, rule, ltwDraw, strengthDraw) ==
  LET weight == Draw(ltwDraw, rule.minLtw, rule.maxLtw) IN
  [d EXCEPT !.source = source, !.ltw = weight, !.stw = weight,
            !.strength = Draw(strengthDraw, rule.minStrength,
                              rule.maxStrength)]

LooseOnes(dendrites) == {i \in DOMAIN dendrites : Loose(dendrites[i])}

\* Only another dendrite that is attached makes the source a duplicate.
Duplicate(dendrites, source) ==
  \E i \in DOMAIN dendrites \ LooseOnes(dendrites) :
    dendrites[i].source = source

\* A firing neuron connects its first loose dendrite.
AttachLoose(neuron, rule, selected, ltwDraw, strengthDraw) ==
  IF \/ neuron.firing = 0
     \/ LooseOnes(neuron.dendrites) = {}
     \/ Duplicate(neuron.dendrites, selected)
  THEN neuron
  ELSE [neuron EXCEPT !.dendrites[Min(LooseOnes(neuron.dendrites))] =
          Connected(@, selected, rule, ltwDraw, strengthDraw)]

SameTargets(dendrites, sources) ==
  /\ Len(dendrites) = Len(sources)
  /\ \A s \in Range(sources) :
       Cardinality({i \in DOMAIN dendrites : dendrites[i].source = s})
         = Cardinality({i \in DOMAIN sources : sources[i] = s})

\* Two sources that copy the same other lobe (0 stands for none) do not go
\* together.
CopiesApart(sources, copyOf) ==
  \A i, j \in DOMAIN sources :
    i # j /\ copyOf[sources[i]] # 0 => copyOf[sources[i]] # copyOf[sources[j]]

\* All dendrites of a neuron move to the first run of firing sources, in the
\* order the shuffle left them, that no other firing neuron has.  When there
\* is none they stay where they are and come loose.
Migrate(dendrites, rule, active, others, copyOf, ltwDraws, strengthDraws) ==
  LET n == Len(dendrites)
      Sources(start) == [i \in 1 .. n |-> active[start + i - 1]]
      good == {start \in 1 .. Len(active) - n + 1 :
                 /\ CopiesApart(Sources(start), copyOf)
                 /\ \A o \in others : ~SameTargets(o, Sources(start))}
  IN IF n > Len(active) THEN dendrites
     ELSE [i \in DOMAIN dendrites |->
             IF good # {}
             THEN Connected(dendrites[i], Sources(Min(good))[i],
                            rule, ltwDraws[i], strengthDraws[i])
             ELSE [dendrites[i] EXCEPT !.stw = 0, !.ltw = 0, !.strength = 0]]

-------------------------------------------------------------------------------
(* Neurons.                                                                *)

Firing(activation, threshold) ==
  IF activation > threshold THEN activation - threshold ELSE 0

\* Both phases of a brain update give a neuron an activation, which decides
\* whether it fires, and let the activation fall back afterwards.
Activate(neuron, lobe, activation, tick) ==
  [neuron EXCEPT
     !.firing = Firing(activation, lobe.threshold),
     !.activation = Relaxed(activation, lobe.baseline, lobe.relaxation, tick)]

EarlyPhase(neuron, lobe, tick) ==
  Activate(neuron, lobe, neuron.activation, tick)

\* What an SVRule sees of a neuron's inputs: their sum, held to a byte and
\* scaled, and the same sum only when every input fires.
InputSum(dendrites, firingOf, inputGain) ==
  LET sum == FoldLeft(LAMBDA acc, d :
                        acc + ((d.stw * firingOf[d.source]) \div 256),
                      0, dendrites)
  IN (inputGain * (IF sum > 255 THEN 255 ELSE sum)) \div 256

GatedSum(dendrites, firingOf, inputGain) ==
  IF \E i \in DOMAIN dendrites : firingOf[dendrites[i].source] = 0 THEN 0
  ELSE InputSum(dendrites, firingOf, inputGain)

Wins(neurons, i) ==
  /\ ~neurons[i].excluded
  /\ neurons[i].firing # 0
  /\ \A j \in DOMAIN neurons :
       /\ ~neurons[j].excluded => neurons[j].firing <= neurons[i].firing
       /\ ~neurons[j].excluded /\ neurons[j].firing = neurons[i].firing
            => i <= j

\* Only the strongest neuron that is not excluded goes on firing, the first
\* of equals.
WinnerTakesAll(neurons) ==
  [i \in DOMAIN neurons |->
     IF Wins(neurons, i) THEN neurons[i] ELSE [neurons[i] EXCEPT !.firing = 0]]

\* In 256ths, held to a byte.
ActiveFraction(active, count) ==
  IF count = 0 THEN 0
  ELSE IF (active * 256) \div count > 255 THEN 255
  ELSE (active * 256) \div count

ResetActivity(neuron) ==
  [neuron EXCEPT
     !.firing = 0, !.activation = 0,
     !.dendrites = [i \in DOMAIN @ |->
        [@[i] EXCEPT !.susceptibility = 0, !.stw = @[i].ltw]]]

-------------------------------------------------------------------------------
(* What the theorems and the checks of this module speak of.               *)

DendriteStates == [source : Nat, susceptibility : Byte, stw : Byte,
                   ltw : Byte, strength : Byte]
NeuronStates == [firing : Byte, activation : Byte, excluded : BOOLEAN,
                 dendrites : Seq(DendriteStates)]
DendriteRules == [relaxSuscept : Byte, relaxStw : Byte, ltwGainRate : Byte,
                  gainRate : Byte, loseRate : Byte,
                  minLtw : Byte, maxLtw : Byte,
                  minStrength : Byte, maxStrength : Byte]
SignalBytes == [suscept : Byte, reinforce : Byte, gain : Byte, lose : Byte]

\* No two attached dendrites come from the same neuron.
DistinctSources(dendrites) ==
  \A i, j \in DOMAIN dendrites :
    /\ ~Loose(dendrites[i]) /\ ~Loose(dendrites[j])
    /\ dendrites[i].source = dendrites[j].source
    => i = j
===============================================================================
