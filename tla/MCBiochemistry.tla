---------------------------- MODULE MCBiochemistry ----------------------------
(***************************************************************************)
(* The chemistry evaluated on bounded inputs: boundary concentrations of   *)
(* two chemicals, extreme amounts, one rate of each kind.  TLC evaluates   *)
(* these assumptions before the run of the module that extends this one.   *)
(***************************************************************************)
EXTENDS Biochemistry

McConcs == {[c \in Byte |-> IF c = 1 THEN x ELSE IF c = 2 THEN y ELSE 0] :
              x, y \in {0, 1, 15, 16, 33, 128, 255}}
McSlots == {[chemical |-> 0, amount |-> 1], [chemical |-> 1, amount |-> 1],
            [chemical |-> 1, amount |-> 16], [chemical |-> 2, amount |-> 3]}
McRates == {0, 8, 64, 255}   \* at once, half at each tick, each other tick, rarely
McReactions == {[one |-> a, two |-> b, left |-> c, right |-> d, rate |-> r] :
                  a, b, c, d \in McSlots, r \in McRates}

\* A reaction balances in each of the two chemicals.
ASSUME BalancesOnSmall ==
  \A conc \in McConcs, reaction \in McReactions, tick \in 0 .. 1 :
    LET times == Processed(conc, reaction, tick)
        after == React(conc, reaction, tick)
    IN \A c \in 1 .. 2 :
         /\ Demand(reaction, c) * times <= conc[c]
         /\ after[c] = SaturatingAdd(conc[c] - Demand(reaction, c) * times,
                                     Yield(reaction, c) * times)

\* At the fastest rate nothing is left over: once its products are not its
\* reactants, a reaction cannot happen again at the same tick.
ASSUME FastestRunsOut ==
  \A conc \in McConcs, reaction \in {r \in McReactions : r.rate = 0} :
    /\ {reaction.one.chemical, reaction.two.chemical} # {NoChemical}
    /\ {reaction.left.chemical, reaction.right.chemical}
         \cap {reaction.one.chemical, reaction.two.chemical} \subseteq {NoChemical}
    => Extent(React(conc, reaction, 0), reaction) = 0

\* Decay takes something at every one of its ticks, whatever the rate, so a
\* chemical that nothing makes is gone after at most 255 of them.
ASSUME DecayEnds ==
  \A quantity \in 1 .. 255, selector \in 0 .. 31 :
    Left(quantity, selector) < quantity

McGenes(locus, chemical, nominal) ==
  [locus |-> locus, chemical |-> chemical, threshold |-> 0,
   nominal |-> nominal, gain |-> 255, flags |-> {}]
McReceptorGenes == {McGenes(l, c, n) : l \in 0 .. 2, c \in 1 .. 2, n \in {0, 9}}

\* After any three receptor genes each locus has one receptor, that of the
\* last gene which named it.
ASSUME LastGeneWins ==
  \A a, b, c \in McReceptorGenes :
    LET table == FoldLeft(LoadReceptor, <<>>, <<a, b, c>>) IN
    /\ OneReceptorPerLocus(table)
    /\ c.locus # NoLocus => \E i \in DOMAIN table : table[i] = c

McEmitter(locus, chemical, flags) ==
  [locus |-> locus, chemical |-> chemical, threshold |-> 10, period |-> 0,
   amount |-> 200, flags |-> flags]
McEmitterGenes == {McEmitter(l, c, f) :
  l \in 0 .. 2, c \in 0 .. 2, f \in {{}, {"invert"}, {"fixed", "clear"}}}

\* A whole update of a body whose genes went through the loaders keeps every
\* concentration and every locus a byte.
ASSUME UpdateKeepsBytes ==
  \A a, b \in McEmitterGenes, r \in McReceptorGenes, x \in {0, 1, 255} :
    LET tables == [emitters |-> FoldLeft(LoadEmitter, <<>>, <<a, b>>),
                   receptors |-> LoadReceptor(<<>>, r),
                   reactions |-> LoadReaction(<<>>,
                     [one |-> [chemical |-> 1, amount |-> 0],
                      two |-> [chemical |-> 1, amount |-> 2],
                      left |-> [chemical |-> 2, amount |-> 255],
                      right |-> [chemical |-> 1, amount |-> 1],
                      rate |-> 8])]
        body == [conc |-> [c \in Byte |-> IF c = 1 THEN x ELSE 0],
                 loci |-> [l \in 1 .. 2 |-> x]]
        after == BiochemistryUpdate(body, tables,
                                    [c \in Byte |-> (8 * c) % 256], 0)
    IN /\ OneEmitterPerPair(tables.emitters)
       /\ after.conc \in Concentrations
       /\ after.loci \in [1 .. 2 -> Byte]
===============================================================================
