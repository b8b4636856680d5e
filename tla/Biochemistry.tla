----------------------------- MODULE Biochemistry -----------------------------
(***************************************************************************)
(* The chemistry of a creature: how genes fill the tables of receptors,    *)
(* emitters and reactions, and what one call of Biochemistry::update does  *)
(* to the concentrations and to the loci the tables read and write.        *)
(*                                                                         *)
(* A body is a record: `conc` gives each chemical's concentration and      *)
(* `loci` the byte of each locus.  Chemical 0 stands for "none", as in the *)
(* code, and locus 0 for a null pointer.  A flag byte is a set of flags.   *)
(***************************************************************************)
EXTENDS Integers, Sequences, SequencesExt

Byte == 0 .. 255
MaxRecords == 128   \* the size of each of the three tables
NoChemical == 0
NoLocus == 0

SaturatingAdd(current, amount) ==
  IF current + amount > 255 THEN 255 ELSE current + amount

SaturatingSubtract(current, amount) ==
  IF amount >= current THEN 0 ELSE current - amount

-------------------------------------------------------------------------------
(* Rates.  A selector's mask is one less than a power of two, so the mask  *)
(* test holds of one tick in every Interval.                               *)

Interval(selector) == IF selector < 8 THEN 1 ELSE 2 ^ (selector - 7)

Due(selector, tick) == tick % Interval(selector) = Interval(selector) - 1

\* What is left of a quantity, in 65536ths, when the selector is due.
Multiplier(selector) ==
  IF selector < 7
  THEN <<0, 12965, 29149, 43707, 53520, 59224, 62300>>[selector + 1]
  ELSE IF selector = 31 THEN 65535 ELSE 63897

Left(quantity, selector) == (quantity * Multiplier(selector)) \div 65536

Selector(rate) == rate \div 8

-------------------------------------------------------------------------------
(* Changes to one chemical.  A change to chemical 0 is no change.          *)

Added(conc, chemical, amount) ==
  IF chemical = NoChemical THEN conc
  ELSE [conc EXCEPT ![chemical] = SaturatingAdd(@, amount)]

Removed(conc, chemical, amount) ==
  IF chemical = NoChemical THEN conc
  ELSE [conc EXCEPT ![chemical] = SaturatingSubtract(@, amount % 256)]

\* What a stimulus or a script adds: the low byte of the amount.
AddChemicalMoles(conc, chemical, moles) ==
  Added(conc, chemical, moles % 256)

-------------------------------------------------------------------------------
(* Emitters turn a locus into a chemical.                                  *)

SourceValue(body, emitter) ==
  LET value == body.loci[emitter.locus] IN
  IF "invert" \in emitter.flags THEN 255 - value ELSE value

Fires(body, emitter, tick) ==
  /\ emitter.locus # NoLocus
  /\ SourceValue(body, emitter) # 0
  /\ tick % emitter.period = 0
  /\ SourceValue(body, emitter) > emitter.threshold

Emission(body, emitter) ==
  IF "fixed" \in emitter.flags THEN emitter.amount
  ELSE ((emitter.amount * (SourceValue(body, emitter) - emitter.threshold))
          \div 256) % 256

\* The source is cleared even when the emitter names no chemical.
Emit(body, emitter, tick) ==
  IF ~Fires(body, emitter, tick) THEN body
  ELSE [conc |-> Added(body.conc, emitter.chemical, Emission(body, emitter)),
        loci |-> IF "clear" \in emitter.flags
                 THEN [body.loci EXCEPT ![emitter.locus] = 0]
                 ELSE body.loci]

-------------------------------------------------------------------------------
(* Receptors turn a chemical into a locus: `nominal`, moved by a signal    *)
(* that the excess of the chemical over the threshold makes.               *)

Signal(body, receptor) ==
  LET excess == body.conc[receptor.chemical] - receptor.threshold IN
  IF excess <= 0 THEN 0
  ELSE IF "digital" \in receptor.flags THEN receptor.gain
  ELSE ((excess * receptor.gain) \div 256) % 256

Receive(body, receptor) ==
  IF receptor.chemical = NoChemical \/ receptor.locus = NoLocus THEN body
  ELSE [body EXCEPT !.loci[receptor.locus] =
          IF "reduce" \in receptor.flags
          THEN SaturatingSubtract(receptor.nominal, Signal(body, receptor))
          ELSE SaturatingAdd(receptor.nominal, Signal(body, receptor))]

-------------------------------------------------------------------------------
(* A reaction has two reactants and two products, each a chemical and an   *)
(* amount.  `one` and `two` are the reactants, `left` and `right` the      *)
(* products.                                                               *)

Available(conc, reactant) ==
  IF reactant.chemical = NoChemical THEN 255
  ELSE conc[reactant.chemical] \div reactant.amount

SharesReactant(reaction) ==
  /\ reaction.one.chemical # NoChemical
  /\ reaction.one.chemical = reaction.two.chemical

\* How many times over the reactants suffice.
Extent(conc, reaction) ==
  LET first == Available(conc, reaction.one)
      second == Available(conc, reaction.two)
  IN IF SharesReactant(reaction)
     THEN conc[reaction.one.chemical]
            \div (reaction.one.amount + reaction.two.amount)
     ELSE IF first <= second THEN first ELSE second

\* How many times over the reaction happens at this tick.
Processed(conc, reaction, tick) ==
  LET extent == Extent(conc, reaction)
      selector == Selector(reaction.rate)
  IN IF Due(selector, tick) THEN extent - Left(extent, selector) ELSE 0

Consumed(conc, reaction, times) ==
  Removed(Removed(conc, reaction.one.chemical, reaction.one.amount * times),
          reaction.two.chemical, reaction.two.amount * times)

Produced(conc, reaction, times) ==
  Added(Added(conc, reaction.left.chemical, reaction.left.amount * times),
        reaction.right.chemical, reaction.right.amount * times)

React(conc, reaction, tick) ==
  LET times == Processed(conc, reaction, tick) IN
  Produced(Consumed(conc, reaction, times), reaction, times)

-------------------------------------------------------------------------------
(* The whole of update: emitters, receptors, reactions, each table in its  *)
(* order, then the decay of every chemical.                                *)

Decay(conc, halfLife, tick) ==
  [c \in DOMAIN conc |->
     IF conc[c] # 0 /\ Due(Selector(halfLife[c]), tick)
     THEN Left(conc[c], Selector(halfLife[c]))
     ELSE conc[c]]

Emitted(body, emitters, tick) ==
  LET after[k \in 0 .. Len(emitters)] ==
        IF k = 0 THEN body ELSE Emit(after[k - 1], emitters[k], tick)
  IN after[Len(emitters)]

Received(body, receptors) ==
  LET after[k \in 0 .. Len(receptors)] ==
        IF k = 0 THEN body ELSE Receive(after[k - 1], receptors[k])
  IN after[Len(receptors)]

Reacted(conc, reactions, tick) ==
  LET after[k \in 0 .. Len(reactions)] ==
        IF k = 0 THEN conc ELSE React(after[k - 1], reactions[k], tick)
  IN after[Len(reactions)]

BiochemistryUpdate(body, tables, halfLife, tick) ==
  LET received == Received(Emitted(body, tables.emitters, tick), tables.receptors)
  IN [received EXCEPT !.conc =
        Decay(Reacted(@, tables.reactions, tick), halfLife, tick)]

-------------------------------------------------------------------------------
(* Genes.  Both the genome and an archive give bytes; an amount becomes    *)
(* 1 .. 16 and a period at least 1 before anything divides by them.        *)

NormalizeReactionAmount(value) ==
  IF value \in 1 .. 16 THEN value ELSE (value % 16) + 1

NormalizePeriod(value) == IF value = 0 THEN 1 ELSE value

NormalizeReaction(gene) ==
  [gene EXCEPT !.one.amount = NormalizeReactionAmount(@),
               !.two.amount = NormalizeReactionAmount(@),
               !.left.amount = NormalizeReactionAmount(@),
               !.right.amount = NormalizeReactionAmount(@)]

LoadReaction(reactions, gene) ==
  IF Len(reactions) = MaxRecords THEN reactions
  ELSE Append(reactions, NormalizeReaction(gene))

\* An initial concentration is stored as it is, chemical 0's too.
LoadConcentration(conc, gene) ==
  [conc EXCEPT ![gene.chemical] = gene.amount]

\* The first of some records, by their positions.
FirstOf(positions) ==
  CHOOSE i \in positions : \A j \in positions : i <= j

\* A gene of a locus that an earlier gene has taken replaces that gene.
\* A gene whose locus does not resolve leaves a record that does nothing.
LoadReceptor(receptors, gene) ==
  LET same == {i \in DOMAIN receptors : receptors[i].locus = gene.locus}
  IN IF Len(receptors) = MaxRecords THEN receptors
     ELSE IF same = {} THEN Append(receptors, gene)
     ELSE IF gene.locus = NoLocus THEN receptors
     ELSE [receptors EXCEPT ![FirstOf(same)] = gene]

\* As for receptors, but one locus may feed several chemicals.  A record
\* without a locus never stores the gene's chemical.
LoadEmitter(emitters, gene) ==
  LET same == {i \in DOMAIN emitters :
                 /\ emitters[i].locus = gene.locus
                 /\ emitters[i].chemical = gene.chemical}
      entry == [gene EXCEPT !.period = NormalizePeriod(@)]
  IN IF Len(emitters) = MaxRecords THEN emitters
     ELSE IF gene.locus = NoLocus
          THEN IF same # {} THEN emitters
               ELSE Append(emitters, [entry EXCEPT !.chemical = NoChemical])
     ELSE IF same = {} THEN Append(emitters, entry)
     ELSE [emitters EXCEPT ![FirstOf(same)] = entry]

-------------------------------------------------------------------------------
(* What the theorems and the checks of this module speak of.               *)

Slots == [chemical : Byte, amount : 1 .. 16]
Reactions == [one : Slots, two : Slots, left : Slots, right : Slots,
              rate : Byte]
ReactionGenes == [one : [chemical : Byte, amount : Byte],
                  two : [chemical : Byte, amount : Byte],
                  left : [chemical : Byte, amount : Byte],
                  right : [chemical : Byte, amount : Byte],
                  rate : Byte]
Concentrations == [Byte -> Byte]

\* What one reaction takes of a chemical, and what it makes of it.
Part(slot, chemical) == IF slot.chemical = chemical THEN slot.amount ELSE 0
Demand(reaction, chemical) ==
  Part(reaction.one, chemical) + Part(reaction.two, chemical)
Yield(reaction, chemical) ==
  Part(reaction.left, chemical) + Part(reaction.right, chemical)

Receptors == [locus : Nat, chemical : Byte, threshold : Byte,
              nominal : Byte, gain : Byte, flags : SUBSET {"reduce", "digital"}]
Emitters == [locus : Nat, chemical : Byte, threshold : Byte, period : Byte,
             amount : Byte, flags : SUBSET {"invert", "fixed", "clear"}]

OneReceptorPerLocus(receptors) ==
  \A i, j \in DOMAIN receptors :
    receptors[i].locus = receptors[j].locus => i = j

OneEmitterPerPair(emitters) ==
  \A i, j \in DOMAIN emitters :
    /\ emitters[i].locus # NoLocus
    /\ emitters[i].locus = emitters[j].locus
    /\ emitters[i].chemical = emitters[j].chemical
    => i = j
===============================================================================
