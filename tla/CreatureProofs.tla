--------------------------- MODULE CreatureProofs ---------------------------
(***************************************************************************)
(* What a creature is made of, for every value: its chemistry, the dendrites*)
(* and the lobes of its brain, its genome, and how breeding keeps names and*)
(* genes together.                                                         *)
(***************************************************************************)
EXTENDS Lobes, Genome, Breeding, SequenceFilterProofs, NaturalsInduction, WellFoundedInduction,
        TLAPS

-----------------------------------------------------------------------------
(***************************************************************************)
(* Chemistry, for every concentration, amount, rate and tick: what one     *)
(* reaction takes and makes, that what is due happens, and that the genes of*)
(* one locus never compete for it.                                         *)
(***************************************************************************)

LEMMA DivideBound ==
  ASSUME NEW c \in Nat, NEW a \in Nat \ {0}
  PROVE c \div a \in Nat /\ a * (c \div a) <= c
OBVIOUS

\* The 65536ths that a multiplier may be: always less than the whole.
Fractions == 0 .. 65535

LEMMA MultiplierRange ==
  ASSUME NEW selector \in 0 .. 31
  PROVE Multiplier(selector) \in Fractions
<1>0. CASE selector = 0
  BY <1>0 DEF Multiplier, Fractions
<1>1. CASE selector = 1
  BY <1>1 DEF Multiplier, Fractions
<1>2. CASE selector = 2
  BY <1>2 DEF Multiplier, Fractions
<1>3. CASE selector = 3
  BY <1>3 DEF Multiplier, Fractions
<1>4. CASE selector = 4
  BY <1>4 DEF Multiplier, Fractions
<1>5. CASE selector = 5
  BY <1>5 DEF Multiplier, Fractions
<1>6. CASE selector = 6
  BY <1>6 DEF Multiplier, Fractions
<1>7. CASE ~(selector < 7)
  BY <1>7 DEF Multiplier, Fractions
<1> QED
  BY <1>0, <1>1, <1>2, <1>3, <1>4, <1>5, <1>6, <1>7

LEMMA SelectorRange ==
  ASSUME NEW rate \in Byte
  PROVE Selector(rate) \in 0 .. 31
BY DEF Selector, Byte

\* What is left of a quantity is less than the quantity.
LEMMA LeftIsLess ==
  ASSUME NEW q \in Nat \ {0}, NEW selector \in 0 .. 31
  PROVE Left(q, selector) \in 0 .. q - 1
<1>1. PICK m \in Fractions : m = Multiplier(selector)
  BY MultiplierRange
<1>2. m \in Nat /\ m <= 65535
  BY DEF Fractions
<1>3. q * m <= q * 65535 /\ q * m \in Nat
  BY <1>2
<1>4. (q * m) \div 65536 \in Nat /\ 65536 * ((q * m) \div 65536) <= q * m
  BY <1>3
<1>5. (q * m) \div 65536 < q
  BY <1>3, <1>4
<1>6. Left(q, selector) = (q * m) \div 65536
  BY <1>1 DEF Left
<1> QED
  BY <1>4, <1>5, <1>6

-------------------------------------------------------------------------------
(* How often a reaction may happen.                                        *)

LEMMA ByteRange ==
  ASSUME NEW x \in Byte
  PROVE x \in Nat /\ x <= 255
BY DEF Byte

LEMMA SmallIsByte ==
  ASSUME NEW x \in Nat, x <= 255
  PROVE x \in Byte
BY DEF Byte

LEMMA ConcentrationRange ==
  ASSUME NEW conc \in Concentrations, NEW c \in Byte
  PROVE conc[c] \in Nat /\ conc[c] <= 255 /\ conc[c] \in Byte
<1>1. conc[c] \in Byte
  BY DEF Concentrations
<1> QED
  BY <1>1 DEF Byte

\* A quotient of a byte is a byte, and its multiple does not pass the byte.
LEMMA DivideByte ==
  ASSUME NEW x \in Nat, x <= 255, NEW a \in Nat \ {0}
  PROVE /\ x \div a \in Nat
        /\ x \div a <= 255
        /\ a * (x \div a) <= x
<1>1. x \div a \in Nat /\ a * (x \div a) <= x
  BY DivideBound
<1>2. x \div a <= a * (x \div a)
  BY <1>1
<1> QED
  BY <1>1, <1>2

LEMMA AvailableSuffices ==
  ASSUME NEW conc \in Concentrations, NEW slot \in Slots
  PROVE /\ Available(conc, slot) \in Byte
        /\ slot.chemical # NoChemical =>
             slot.amount * Available(conc, slot) <= conc[slot.chemical]
<1>1. slot.chemical \in Byte /\ slot.amount \in Nat \ {0}
  BY DEF Slots
<1>2. CASE slot.chemical = NoChemical
  BY <1>2 DEF Available, Byte
<1>3. CASE slot.chemical # NoChemical
  <2>1. PICK x \in Nat : x = conc[slot.chemical] /\ x <= 255
    BY <1>1, ConcentrationRange
  <2>2. PICK a \in Nat \ {0} : a = slot.amount
    BY <1>1
  <2>3. /\ x \div a \in Nat
        /\ x \div a <= 255
        /\ a * (x \div a) <= x
    BY <2>1, DivideByte
  <2>4. x \div a \in Byte
    BY <2>3 DEF Byte
  <2>5. Available(conc, slot) = x \div a
    BY <1>3, <2>1, <2>2 DEF Available
  <2> QED
    BY <2>1, <2>2, <2>3, <2>4, <2>5
<1> QED
  BY <1>2, <1>3

\* A smaller multiple of an amount is no larger.
LEMMA TimesMonotone ==
  ASSUME NEW a \in Nat, NEW e \in Nat, NEW f \in Nat, e <= f
  PROVE a * e \in Nat /\ a * e <= a * f
OBVIOUS

\* The reactants suffice for the extent of the reaction, also when both
\* slots name one chemical.
LEMMA ExtentSuffices ==
  ASSUME NEW conc \in Concentrations, NEW reaction \in Reactions,
         NEW c \in Byte \ {NoChemical}
  PROVE /\ Extent(conc, reaction) \in Byte
        /\ Demand(reaction, c) * Extent(conc, reaction) <= conc[c]
<1>1. reaction.one \in Slots /\ reaction.two \in Slots
  BY DEF Reactions
<1>2. PICK x \in Nat : x = conc[c] /\ x <= 255
  BY ConcentrationRange
<1>3. PICK a \in Nat \ {0} : a = reaction.one.amount
  BY <1>1 DEF Slots
<1>4. PICK b \in Nat \ {0} : b = reaction.two.amount
  BY <1>1 DEF Slots
<1>5. PICK e \in Nat : e = Extent(conc, reaction) /\ e <= 255
                       /\ (~SharesReactant(reaction) =>
                             /\ e <= Available(conc, reaction.one)
                             /\ e <= Available(conc, reaction.two))
                       /\ (SharesReactant(reaction) =>
                             (a + b) * e <= conc[reaction.one.chemical])
  <2>1. CASE SharesReactant(reaction)
    <3>1. PICK y \in Nat : y = conc[reaction.one.chemical] /\ y <= 255
      <4>1. reaction.one.chemical \in Byte
        BY <1>1 DEF Slots
      <4> QED
        BY <4>1, ConcentrationRange
    <3>2. PICK d \in Nat \ {0} : d = a + b
      <4>1. a + b \in Nat \ {0}
        OBVIOUS
      <4> QED
        BY <4>1
    <3>3. y \div d \in Nat /\ y \div d <= 255 /\ d * (y \div d) <= y
      BY <3>1, DivideByte
    <3>4. Extent(conc, reaction) = y \div d
      BY <2>1, <1>3, <1>4, <3>1, <3>2 DEF Extent
    <3> QED
      BY <2>1, <3>1, <3>2, <3>3, <3>4
  <2>2. CASE ~SharesReactant(reaction)
    <3>1. PICK f \in Nat : f = Available(conc, reaction.one) /\ f <= 255
      BY <1>1, AvailableSuffices DEF Byte
    <3>2. PICK g \in Nat : g = Available(conc, reaction.two) /\ g <= 255
      BY <1>1, AvailableSuffices DEF Byte
    <3>3. Extent(conc, reaction) = IF f <= g THEN f ELSE g
      BY <2>2, <3>1, <3>2 DEF Extent
    <3> QED
      BY <2>2, <3>1, <3>2, <3>3
  <2> QED
    BY <2>1, <2>2
<1>6. e \in Byte
  BY <1>5 DEF Byte
<1>7. CASE reaction.one.chemical = c /\ reaction.two.chemical = c
  <2>1. SharesReactant(reaction)
    BY <1>7 DEF SharesReactant
  <2>2. Demand(reaction, c) = a + b
    BY <1>3, <1>4, <1>7 DEF Demand, Part
  <2> QED
    BY <1>5, <1>6, <1>7, <2>1, <2>2
<1>8. CASE reaction.one.chemical = c /\ reaction.two.chemical # c
  <2>1. ~SharesReactant(reaction)
    BY <1>8 DEF SharesReactant
  <2>2. Demand(reaction, c) = a
    BY <1>3, <1>8 DEF Demand, Part
  <2>3. PICK f \in Nat : f = Available(conc, reaction.one) /\ a * f <= x
    <3>1. Available(conc, reaction.one) \in Byte
      BY <1>1, AvailableSuffices
    <3>2. Available(conc, reaction.one) \in Nat
      BY <3>1 DEF Byte
    <3>3. a * Available(conc, reaction.one) <= x
      BY <1>1, <1>2, <1>3, <1>8, AvailableSuffices
    <3> QED
      BY <3>2, <3>3
  <2>4. e <= f
    BY <1>5, <2>1, <2>3
  <2>5. a * e <= a * f /\ a * e \in Nat /\ a * f \in Nat
    BY <1>3, <2>3, <2>4, TimesMonotone
  <2>6. a * e <= x
    BY <2>3, <2>5
  <2> QED
    BY <1>2, <1>5, <1>6, <2>2, <2>6
<1>9. CASE reaction.one.chemical # c /\ reaction.two.chemical = c
  <2>1. ~SharesReactant(reaction)
    BY <1>9 DEF SharesReactant
  <2>2. Demand(reaction, c) = b
    BY <1>4, <1>9 DEF Demand, Part
  <2>3. PICK g \in Nat : g = Available(conc, reaction.two) /\ b * g <= x
    <3>1. Available(conc, reaction.two) \in Byte
      BY <1>1, AvailableSuffices
    <3>2. Available(conc, reaction.two) \in Nat
      BY <3>1 DEF Byte
    <3>3. b * Available(conc, reaction.two) <= x
      BY <1>1, <1>2, <1>4, <1>9, AvailableSuffices
    <3> QED
      BY <3>2, <3>3
  <2>4. e <= g
    BY <1>5, <2>1, <2>3
  <2>5. b * e <= b * g /\ b * e \in Nat /\ b * g \in Nat
    BY <1>4, <2>3, <2>4, TimesMonotone
  <2>6. b * e <= x
    BY <2>3, <2>5
  <2> QED
    BY <1>2, <1>5, <1>6, <2>2, <2>6
<1>10. CASE reaction.one.chemical # c /\ reaction.two.chemical # c
  <2>1. Demand(reaction, c) = 0
    BY <1>10 DEF Demand, Part
  <2> QED
    BY <1>2, <1>5, <1>6, <2>1
<1> QED
  BY <1>7, <1>8, <1>9, <1>10

\* A reaction that is due and has its reactants happens at least once, and
\* never more often than its reactants allow.
LEMMA ProcessedRange ==
  ASSUME NEW conc \in Concentrations, NEW reaction \in Reactions,
         NEW tick \in Nat
  PROVE LET times == Processed(conc, reaction, tick) IN
        /\ times \in Byte
        /\ times <= Extent(conc, reaction)
        /\ Due(Selector(reaction.rate), tick) /\ Extent(conc, reaction) # 0
             => times # 0
<1>1. PICK e \in Nat : e = Extent(conc, reaction) /\ e <= 255
  <2>1. 1 \in Byte \ {NoChemical}
    BY DEF Byte, NoChemical
  <2> QED
    BY <2>1, ExtentSuffices DEF Byte
<1>2. PICK s \in 0 .. 31 : s = Selector(reaction.rate)
  BY SelectorRange DEF Reactions
<1>3. CASE ~Due(s, tick)
  <2>1. Processed(conc, reaction, tick) = 0
    BY <1>2, <1>3 DEF Processed
  <2> QED
    BY <1>1, <1>2, <1>3, <2>1 DEF Byte
<1>4. CASE Due(s, tick) /\ e = 0
  <2>1. PICK m \in Fractions : m = Multiplier(s)
    BY MultiplierRange
  <2>2. (0 * m) \div 65536 = 0
    BY DEF Fractions
  <2>3. Left(0, s) = 0
    BY <2>1, <2>2 DEF Left
  <2>4. Processed(conc, reaction, tick) = 0
    BY <1>1, <1>2, <1>4, <2>3 DEF Processed
  <2> QED
    BY <1>1, <1>4, <2>4 DEF Byte
<1>5. CASE Due(s, tick) /\ e # 0
  <2>1. PICK l \in 0 .. e - 1 : l = Left(e, s)
    BY <1>5, LeftIsLess
  <2>2. Processed(conc, reaction, tick) = e - l
    BY <1>1, <1>2, <1>5, <2>1 DEF Processed
  <2>3. e - l \in Byte /\ e - l <= e /\ e - l # 0
    BY <1>1, <1>5, <2>1 DEF Byte
  <2> QED
    BY <1>1, <2>2, <2>3
<1> QED
  BY <1>3, <1>4, <1>5

-------------------------------------------------------------------------------
(* What a reaction does to each chemical.                                  *)

\* Removing an amount that is there takes exactly that amount.
LEMMA RemovedExactly ==
  ASSUME NEW conc \in Concentrations, NEW chemical \in Byte,
         NEW amount \in Nat,
         chemical # NoChemical => amount <= conc[chemical]
  PROVE /\ Removed(conc, chemical, amount) \in Concentrations
        /\ \A c \in Byte \ {NoChemical} :
             Removed(conc, chemical, amount)[c]
               = conc[c] - (IF chemical = c THEN amount ELSE 0)
<1>1. CASE chemical = NoChemical
  <2>1. \A c \in Byte \ {NoChemical} : conc[c] - 0 = conc[c]
    BY ConcentrationRange
  <2> QED
    BY <1>1, <2>1 DEF Removed
<1>2. CASE chemical # NoChemical
  <2>1. PICK x \in Nat : x = conc[chemical] /\ x <= 255
    BY ConcentrationRange
  <2>2. amount <= x /\ amount % 256 = amount
    BY <1>2, <2>1
  <2>3. SaturatingSubtract(x, amount) = x - amount
    BY <2>1, <2>2 DEF SaturatingSubtract
  <2>4. x - amount \in Byte
    BY <2>1, <2>2 DEF Byte
  <2>5. Removed(conc, chemical, amount)
          = [conc EXCEPT ![chemical] = x - amount]
    BY <1>2, <2>1, <2>2, <2>3 DEF Removed, Concentrations
  <2>6. Removed(conc, chemical, amount) \in Concentrations
    BY <2>4, <2>5 DEF Concentrations
  <2>7. ASSUME NEW c \in Byte \ {NoChemical}
        PROVE Removed(conc, chemical, amount)[c]
                = conc[c] - (IF chemical = c THEN amount ELSE 0)
    <3>1. conc[c] \in Nat
      BY ConcentrationRange
    <3>2. CASE chemical = c
      BY <2>1, <2>5, <3>2 DEF Concentrations
    <3>3. CASE chemical # c
      BY <2>5, <3>1, <3>3 DEF Concentrations
    <3> QED
      BY <3>2, <3>3
  <2> QED
    BY <2>6, <2>7
<1> QED
  BY <1>1, <1>2

\* Adding an amount saturates, and loses nothing else.
LEMMA AddedSaturates ==
  ASSUME NEW conc \in Concentrations, NEW chemical \in Byte,
         NEW amount \in Nat
  PROVE /\ Added(conc, chemical, amount) \in Concentrations
        /\ \A c \in Byte \ {NoChemical} :
             Added(conc, chemical, amount)[c]
               = SaturatingAdd(conc[c], IF chemical = c THEN amount ELSE 0)
<1>1. CASE chemical = NoChemical
  <2>1. ASSUME NEW c \in Byte \ {NoChemical}
        PROVE SaturatingAdd(conc[c], 0) = conc[c]
    <3>1. conc[c] \in Nat /\ conc[c] <= 255
      BY ConcentrationRange
    <3> QED
      BY <3>1 DEF SaturatingAdd
  <2> QED
    BY <1>1, <2>1 DEF Added
<1>2. CASE chemical # NoChemical
  <2>1. PICK x \in Nat : x = conc[chemical] /\ x <= 255
    BY ConcentrationRange
  <2>2. PICK y \in Byte : y = SaturatingAdd(x, amount)
    <3>1. CASE x + amount > 255
      <4>1. SaturatingAdd(x, amount) = 255
        BY <3>1 DEF SaturatingAdd
      <4> QED
        BY <4>1 DEF Byte
    <3>2. CASE ~(x + amount > 255)
      <4>1. SaturatingAdd(x, amount) = x + amount
        BY <3>2 DEF SaturatingAdd
      <4>2. x + amount \in Byte
        BY <3>2 DEF Byte
      <4> QED
        BY <4>1, <4>2
    <3> QED
      BY <3>1, <3>2
  <2>3. Added(conc, chemical, amount) = [conc EXCEPT ![chemical] = y]
    BY <1>2, <2>1, <2>2 DEF Added, Concentrations
  <2>4. Added(conc, chemical, amount) \in Concentrations
    BY <2>2, <2>3 DEF Concentrations
  <2>5. ASSUME NEW c \in Byte \ {NoChemical}
        PROVE Added(conc, chemical, amount)[c]
                = SaturatingAdd(conc[c], IF chemical = c THEN amount ELSE 0)
    <3>1. CASE chemical = c
      BY <2>1, <2>2, <2>3, <3>1 DEF Concentrations
    <3>2. CASE chemical # c
      <4>1. conc[c] \in Nat /\ conc[c] <= 255
        BY ConcentrationRange
      <4>2. SaturatingAdd(conc[c], 0) = conc[c]
        BY <4>1 DEF SaturatingAdd
      <4> QED
        BY <2>3, <3>2, <4>2 DEF Concentrations
    <3> QED
      BY <3>1, <3>2
  <2> QED
    BY <2>4, <2>5
<1> QED
  BY <1>1, <1>2

LEMMA ConsumedExactly ==
  ASSUME NEW conc \in Concentrations, NEW reaction \in Reactions,
         NEW e \in Nat,
         \A c \in Byte \ {NoChemical} : Demand(reaction, c) * e <= conc[c]
  PROVE /\ Consumed(conc, reaction, e) \in Concentrations
        /\ \A c \in Byte \ {NoChemical} :
             Consumed(conc, reaction, e)[c]
               = conc[c] - Demand(reaction, c) * e
<1>1. PICK p \in Byte, q \in Byte :
        p = reaction.one.chemical /\ q = reaction.two.chemical
  BY DEF Reactions, Slots
<1>2. PICK a \in Nat, b \in Nat :
        a = reaction.one.amount /\ b = reaction.two.amount
  BY DEF Reactions, Slots
<1>3. a * e \in Nat /\ b * e \in Nat /\ (a + b) * e = a * e + b * e
  OBVIOUS
<1>4. p # NoChemical => a * e <= conc[p]
  <2>1. CASE p # NoChemical /\ p = q
    <3>1. Demand(reaction, p) = a + b
      BY <1>1, <1>2, <2>1 DEF Demand, Part
    <3>2. (a + b) * e <= conc[p]
      BY <2>1, <3>1
    <3>3. conc[p] \in Nat
      BY ConcentrationRange
    <3> QED
      BY <1>3, <3>2, <3>3
  <2>2. CASE p # NoChemical /\ p # q
    <3>1. Demand(reaction, p) = a
      BY <1>1, <1>2, <2>2 DEF Demand, Part
    <3> QED
      BY <2>2, <3>1
  <2> QED
    BY <2>1, <2>2
<1> DEFINE first == Removed(conc, p, a * e)
<1>5. /\ first \in Concentrations
      /\ \A c \in Byte \ {NoChemical} :
           first[c] = conc[c] - (IF p = c THEN a * e ELSE 0)
  BY <1>3, <1>4, RemovedExactly
<1>6. q # NoChemical => b * e <= first[q]
  <2>1. CASE q # NoChemical /\ p = q
    <3>1. Demand(reaction, q) = a + b
      BY <1>1, <1>2, <2>1 DEF Demand, Part
    <3>2. (a + b) * e <= conc[q]
      BY <2>1, <3>1
    <3>3. conc[q] \in Nat
      BY ConcentrationRange
    <3>4. first[q] = conc[q] - a * e
      BY <1>5, <2>1
    <3> QED
      BY <1>3, <3>2, <3>3, <3>4
  <2>2. CASE q # NoChemical /\ p # q
    <3>1. Demand(reaction, q) = b
      BY <1>1, <1>2, <2>2 DEF Demand, Part
    <3>2. conc[q] \in Nat
      BY ConcentrationRange
    <3>3. first[q] = conc[q]
      BY <1>5, <2>2, <3>2
    <3> QED
      BY <2>2, <3>1, <3>3
  <2> QED
    BY <2>1, <2>2
<1> DEFINE second == Removed(first, q, b * e)
<1> HIDE DEF first
<1>7. /\ second \in Concentrations
      /\ \A c \in Byte \ {NoChemical} :
           second[c] = first[c] - (IF q = c THEN b * e ELSE 0)
  BY <1>3, <1>5, <1>6, RemovedExactly
<1> HIDE DEF second
<1>8. Consumed(conc, reaction, e) = second
  BY <1>1, <1>2 DEF Consumed, first, second
<1>9. ASSUME NEW c \in Byte \ {NoChemical}
      PROVE second[c] = conc[c] - Demand(reaction, c) * e
  <2>1. conc[c] \in Nat /\ first[c] \in Nat
    BY <1>5, ConcentrationRange
  <2>2. CASE p = c /\ q = c
    <3>1. Demand(reaction, c) = a + b
      BY <1>1, <1>2, <2>2 DEF Demand, Part
    <3>2. first[c] = conc[c] - a * e
      BY <1>5, <2>2
    <3>3. second[c] = first[c] - b * e
      BY <1>7, <2>2
    <3> QED
      BY <1>3, <2>1, <3>1, <3>2, <3>3
  <2>3. CASE p = c /\ q # c
    <3>1. Demand(reaction, c) = a
      BY <1>1, <1>2, <2>3 DEF Demand, Part
    <3>2. first[c] = conc[c] - a * e
      BY <1>5, <2>3
    <3>3. second[c] = first[c] - 0
      BY <1>7, <2>3
    <3> QED
      BY <1>3, <2>1, <3>1, <3>2, <3>3
  <2>4. CASE p # c /\ q = c
    <3>1. Demand(reaction, c) = b
      BY <1>1, <1>2, <2>4 DEF Demand, Part
    <3>2. first[c] = conc[c] - 0
      BY <1>5, <2>4
    <3>3. second[c] = first[c] - b * e
      BY <1>7, <2>4
    <3> QED
      BY <1>3, <2>1, <3>1, <3>2, <3>3
  <2>5. CASE p # c /\ q # c
    <3>1. Demand(reaction, c) = 0
      BY <1>1, <1>2, <2>5 DEF Demand, Part
    <3>2. first[c] = conc[c] - 0
      BY <1>5, <2>5
    <3>3. second[c] = first[c] - 0
      BY <1>7, <2>5
    <3> QED
      BY <1>3, <2>1, <3>1, <3>2, <3>3
  <2> QED
    BY <2>2, <2>3, <2>4, <2>5
<1> QED
  BY <1>7, <1>8, <1>9

\* Saturating twice is saturating once by the sum.
LEMMA SaturateTwice ==
  ASSUME NEW x \in Nat, NEW y \in Nat, NEW z \in Nat
  PROVE SaturatingAdd(SaturatingAdd(x, y), z) = SaturatingAdd(x, y + z)
BY DEF SaturatingAdd

LEMMA ProducedSaturates ==
  ASSUME NEW conc \in Concentrations, NEW reaction \in Reactions,
         NEW e \in Nat
  PROVE /\ Produced(conc, reaction, e) \in Concentrations
        /\ \A c \in Byte \ {NoChemical} :
             Produced(conc, reaction, e)[c]
               = SaturatingAdd(conc[c], Yield(reaction, c) * e)
<1>1. PICK p \in Byte, q \in Byte :
        p = reaction.left.chemical /\ q = reaction.right.chemical
  BY DEF Reactions, Slots
<1>2. PICK a \in Nat, b \in Nat :
        a = reaction.left.amount /\ b = reaction.right.amount
  BY DEF Reactions, Slots
<1>3. a * e \in Nat /\ b * e \in Nat
  OBVIOUS
<1> DEFINE first == Added(conc, p, a * e)
           second == Added(first, q, b * e)
<1>4. /\ first \in Concentrations
      /\ \A c \in Byte \ {NoChemical} :
           first[c] = SaturatingAdd(conc[c], IF p = c THEN a * e ELSE 0)
  BY <1>3, AddedSaturates
<1> HIDE DEF first
<1>5. /\ second \in Concentrations
      /\ \A c \in Byte \ {NoChemical} :
           second[c] = SaturatingAdd(first[c], IF q = c THEN b * e ELSE 0)
  BY <1>3, <1>4, AddedSaturates
<1> HIDE DEF second
<1>6. Produced(conc, reaction, e) = second
  BY <1>1, <1>2 DEF Produced, first, second
<1>7. ASSUME NEW c \in Byte \ {NoChemical}
      PROVE second[c] = SaturatingAdd(conc[c], Yield(reaction, c) * e)
  <2>1. PICK y \in Nat : y = IF p = c THEN a * e ELSE 0
    BY <1>3
  <2>2. PICK z \in Nat : z = IF q = c THEN b * e ELSE 0
    BY <1>3
  <2>3. Yield(reaction, c)
          = (IF p = c THEN a ELSE 0) + (IF q = c THEN b ELSE 0)
    BY <1>1, <1>2 DEF Yield, Part
  <2>4. Yield(reaction, c) * e = y + z
    <3>1. (a + b) * e = a * e + b * e /\ 0 * e = 0
      OBVIOUS
    <3>2. CASE p = c /\ q = c
      BY <2>1, <2>2, <2>3, <3>1, <3>2
    <3>3. CASE p = c /\ q # c
      BY <1>3, <2>1, <2>2, <2>3, <3>3
    <3>4. CASE p # c /\ q = c
      BY <1>3, <2>1, <2>2, <2>3, <3>4
    <3>5. CASE p # c /\ q # c
      BY <2>1, <2>2, <2>3, <3>1, <3>5
    <3> QED
      BY <3>2, <3>3, <3>4, <3>5
  <2>5. first[c] = SaturatingAdd(conc[c], y)
    BY <1>4, <2>1
  <2>6. second[c] = SaturatingAdd(first[c], z)
    BY <1>5, <2>2
  <2>7. PICK x \in Nat : x = conc[c]
    BY ConcentrationRange
  <2>8. SaturatingAdd(SaturatingAdd(x, y), z) = SaturatingAdd(x, y + z)
    BY SaturateTwice
  <2> QED
    BY <2>4, <2>5, <2>6, <2>7, <2>8, Zenon
<1> QED
  BY <1>5, <1>6, <1>7

-------------------------------------------------------------------------------
(* The theorems.                                                           *)

\* A reaction balances: it takes of each chemical exactly what its
\* reactants say for the number of times it happens, never more than there
\* is, and makes what its products say, short only of what passes 255.
\* That holds when the two reactants, the two products or a reactant and a
\* product are one chemical, and with no byte of the arithmetic cut off
\* (the reaction loop of Biochemistry::update).
THEOREM ReactionBalances ==
  ASSUME NEW conc \in Concentrations, NEW reaction \in Reactions,
         NEW tick \in Nat, NEW c \in Byte \ {NoChemical}
  PROVE LET times == Processed(conc, reaction, tick)
            taken == Demand(reaction, c) * times
            made == Yield(reaction, c) * times
        IN /\ React(conc, reaction, tick) \in Concentrations
           /\ taken <= conc[c]
           /\ React(conc, reaction, tick)[c]
                = SaturatingAdd(conc[c] - taken, made)
<1>1. PICK e \in Nat : e = Processed(conc, reaction, tick)
                       /\ e <= Extent(conc, reaction)
  BY ProcessedRange DEF Byte
<1>2. ASSUME NEW d \in Byte \ {NoChemical}
      PROVE Demand(reaction, d) * e <= conc[d]
  <2>1. PICK f \in Nat : f = Extent(conc, reaction)
    BY ExtentSuffices DEF Byte
  <2>2. Demand(reaction, d) \in Nat
    BY DEF Demand, Part, Reactions, Slots
  <2>3. Demand(reaction, d) * f <= conc[d]
    BY <2>1, ExtentSuffices
  <2>4. /\ Demand(reaction, d) * e \in Nat
        /\ Demand(reaction, d) * f \in Nat
        /\ Demand(reaction, d) * e <= Demand(reaction, d) * f
    BY <1>1, <2>1, <2>2, TimesMonotone
  <2>5. conc[d] \in Nat
    BY ConcentrationRange
  <2> QED
    BY <2>3, <2>4, <2>5
<1> DEFINE rest == Consumed(conc, reaction, e)
<1>3. rest \in Concentrations /\ rest[c] = conc[c] - Demand(reaction, c) * e
  BY <1>2, ConsumedExactly
<1> HIDE DEF rest
<1>4. /\ Produced(rest, reaction, e) \in Concentrations
      /\ Produced(rest, reaction, e)[c]
           = SaturatingAdd(rest[c], Yield(reaction, c) * e)
  BY <1>3, ProducedSaturates
<1>5. React(conc, reaction, tick) = Produced(rest, reaction, e)
  BY <1>1 DEF React, rest
<1> QED
  BY <1>1, <1>2, <1>3, <1>4, <1>5

\* A reaction that is due and whose reactants suffice at least once happens
\* at least once: the rate's rounding never starves it (gated_extent in
\* Biochemistry::update).
THEOREM DueReactionHappens ==
  ASSUME NEW conc \in Concentrations, NEW reaction \in Reactions,
         NEW tick \in Nat,
         Due(Selector(reaction.rate), tick), Extent(conc, reaction) # 0
  PROVE Processed(conc, reaction, tick) \in 1 .. Extent(conc, reaction)
<1>1. PICK e \in Nat : e = Extent(conc, reaction)
  <2>1. 1 \in Byte \ {NoChemical}
    BY DEF Byte, NoChemical
  <2> QED
    BY <2>1, ExtentSuffices DEF Byte
<1>2. PICK n \in Nat : n = Processed(conc, reaction, tick)
  BY ProcessedRange DEF Byte
<1>3. n <= e /\ n # 0
  BY <1>1, <1>2, ProcessedRange
<1> QED
  BY <1>1, <1>2, <1>3

\* Decay takes something of every chemical that is due and present, so that
\* none stays for ever at a small concentration, and leaves the others (the
\* last loop of Biochemistry::update).
THEOREM DecayRunsOut ==
  ASSUME NEW conc \in Concentrations, NEW halfLife \in [Byte -> Byte],
         NEW tick \in Nat, NEW c \in Byte
  PROVE /\ Decay(conc, halfLife, tick)[c] \in Byte
        /\ IF conc[c] # 0 /\ Due(Selector(halfLife[c]), tick)
           THEN Decay(conc, halfLife, tick)[c] < conc[c]
           ELSE Decay(conc, halfLife, tick)[c] = conc[c]
<1>1. PICK x \in Byte : x = conc[c]
  BY ConcentrationRange
<1>2. PICK s \in 0 .. 31 : s = Selector(halfLife[c])
  BY SelectorRange
<1>3. DOMAIN conc = Byte
  BY DEF Concentrations
<1>4. CASE x # 0 /\ Due(s, tick)
  <2>0. x \in Nat \ {0}
    <3>1. x # 0
      BY <1>4
    <3>2. x \in Nat
      BY ByteRange
    <3> QED
      BY <3>1, <3>2
  <2>1. PICK l \in 0 .. x - 1 : l = Left(x, s)
    BY <2>0, LeftIsLess
  <2>2. Decay(conc, halfLife, tick)[c] = l
    BY <1>1, <1>2, <1>3, <1>4, <2>1 DEF Decay
  <2>3. l \in Byte /\ l < x
    <3>1. x \in Nat /\ x <= 255
      BY ByteRange
    <3>2. l \in Nat /\ l < x /\ l <= 255
      BY <3>1
    <3> QED
      BY <3>2, SmallIsByte
  <2> QED
    BY <1>1, <1>2, <1>4, <2>2, <2>3
<1>5. CASE ~(x # 0 /\ Due(s, tick))
  <2>1. Decay(conc, halfLife, tick)[c] = x
    BY <1>1, <1>2, <1>3, <1>5 DEF Decay
  <2> QED
    BY <1>1, <1>2, <1>5, <2>1
<1> QED
  BY <1>4, <1>5

-------------------------------------------------------------------------------
(* A whole update, with tables of any length.                              *)

\* A body whose pointers lead to Loci, and the records that lead there or nowhere.
Bodies(Loci) == [conc : Concentrations, loci : [Loci -> Byte]]
EmittersOf(Loci) == {e \in Emitters : e.locus \in Loci \cup {NoLocus} /\ e.period # 0}
ReceptorsOf(Loci) == {r \in Receptors : r.locus \in Loci \cup {NoLocus}}

LEMMA SaturatingKeeps ==
  ASSUME NEW x \in Byte, NEW y \in Byte
  PROVE  SaturatingAdd(x, y) \in Byte /\ SaturatingSubtract(x, y) \in Byte
BY DEF SaturatingAdd, SaturatingSubtract, Byte

LEMMA RemainderIsByte ==
  ASSUME NEW x \in Nat
  PROVE  (x \div 256) % 256 \in Byte
<1>1. x \div 256 \in Nat
  OBVIOUS
<1> QED  BY <1>1 DEF Byte

LEMMA EmitKeeps ==
  ASSUME NEW Loci \in SUBSET (Nat \ {NoLocus}), NEW body \in Bodies(Loci),
         NEW emitter \in EmittersOf(Loci), NEW tick \in Nat
  PROVE  Emit(body, emitter, tick) \in Bodies(Loci)
<1>1. CASE ~Fires(body, emitter, tick)
  BY <1>1 DEF Emit
<1>2. CASE Fires(body, emitter, tick)
  <2>1. body.conc \in Concentrations /\ body.loci \in [Loci -> Byte] /\ emitter.locus \in Loci
    BY <1>2 DEF Bodies, EmittersOf, Fires
  <2>2. body.loci[emitter.locus] \in Byte
    BY <2>1
  <2>3. SourceValue(body, emitter) \in Byte
    BY <2>2 DEF SourceValue, Byte
  <2>4. emitter.threshold \in Byte /\ emitter.amount \in Byte /\ emitter.chemical \in Byte
    BY DEF EmittersOf, Emitters
  <2>5. PICK s \in Byte, t \in Byte, x \in Byte :
          s = SourceValue(body, emitter) /\ t = emitter.threshold /\ x = emitter.amount /\ s > t
    BY <1>2, <2>3, <2>4 DEF Fires
  <2>6. x * (s - t) \in Nat
    <3>1. s - t \in Nat /\ x \in Nat
      BY <2>5 DEF Byte
    <3> QED  BY <3>1
  <2>7. Emission(body, emitter) \in Byte
    <3>1. ((x * (s - t)) \div 256) % 256 \in Byte
      BY <2>6, RemainderIsByte
    <3> QED  BY <2>4, <2>5, <3>1 DEF Emission
  <2>8. Emission(body, emitter) \in Nat
    BY <2>7 DEF Byte
  <2>9. Added(body.conc, emitter.chemical, Emission(body, emitter)) \in Concentrations
    BY <2>1, <2>4, <2>8, AddedSaturates
  <2>10. 0 \in Byte
    BY DEF Byte
  <2>11. [body.loci EXCEPT ![emitter.locus] = 0] \in [Loci -> Byte]
    BY <2>1, <2>10
  <2> QED  BY <1>2, <2>1, <2>9, <2>11 DEF Emit, Bodies
<1> QED  BY <1>1, <1>2

LEMMA ReceiveKeeps ==
  ASSUME NEW Loci \in SUBSET (Nat \ {NoLocus}), NEW body \in Bodies(Loci),
         NEW receptor \in ReceptorsOf(Loci)
  PROVE  Receive(body, receptor) \in Bodies(Loci)
<1>1. CASE receptor.chemical = NoChemical \/ receptor.locus = NoLocus
  BY <1>1 DEF Receive
<1>2. CASE ~(receptor.chemical = NoChemical \/ receptor.locus = NoLocus)
  <2>1. body.conc \in Concentrations /\ body.loci \in [Loci -> Byte] /\ receptor.locus \in Loci
    BY <1>2 DEF Bodies, ReceptorsOf
  <2>2. receptor.chemical \in Byte /\ receptor.threshold \in Byte /\ receptor.nominal \in Byte
        /\ receptor.gain \in Byte
    BY DEF ReceptorsOf, Receptors
  <2>3. PICK c \in Byte : c = body.conc[receptor.chemical]
    BY <2>1, <2>2 DEF Concentrations
  <2>4. PICK t \in Byte, g \in Byte : t = receptor.threshold /\ g = receptor.gain
    BY <2>2
  <2>5. Signal(body, receptor) \in Byte
    <3>1. c - t \in Int /\ g \in Nat /\ 0 \in Byte
      BY DEF Byte
    <3>2. ASSUME c - t > 0 PROVE (((c - t) * g) \div 256) % 256 \in Byte
      <4>1. c - t \in Nat
        BY <3>1, <3>2
      <4>2. (c - t) * g \in Nat
        BY <3>1, <4>1
      <4> QED  BY <4>2, RemainderIsByte
    <3> QED  BY <2>3, <2>4, <3>1, <3>2 DEF Signal
  <2>6. /\ SaturatingSubtract(receptor.nominal, Signal(body, receptor)) \in Byte
        /\ SaturatingAdd(receptor.nominal, Signal(body, receptor)) \in Byte
    BY <2>2, <2>5, SaturatingKeeps
  <2>7. PICK w \in Byte : Receive(body, receptor) = [body EXCEPT !.loci[receptor.locus] = w]
    BY <1>2, <2>6 DEF Receive
  <2>8. [body.loci EXCEPT ![receptor.locus] = w] \in [Loci -> Byte]
    BY <2>1
  <2> QED  BY <2>1, <2>7, <2>8 DEF Bodies
<1> QED  BY <1>1, <1>2

LEMMA ReactKeeps ==
  ASSUME NEW conc \in Concentrations, NEW reaction \in Reactions, NEW tick \in Nat
  PROVE  React(conc, reaction, tick) \in Concentrations
<1>1. 1 \in Byte \ {NoChemical}
  BY DEF Byte, NoChemical
<1> QED  BY <1>1, ReactionBalances

LEMMA DecayKeeps ==
  ASSUME NEW conc \in Concentrations, NEW halfLife \in [Byte -> Byte], NEW tick \in Nat
  PROVE  Decay(conc, halfLife, tick) \in Concentrations
<1>1. \A c \in Byte : Decay(conc, halfLife, tick)[c] \in Byte
  BY DecayRunsOut
<1>2. DOMAIN conc = Byte
  BY DEF Concentrations
<1>3. Decay(conc, halfLife, tick) = [c \in Byte |-> Decay(conc, halfLife, tick)[c]]
  BY <1>2 DEF Decay
<1> QED  BY <1>1, <1>3 DEF Concentrations

LEMMA EmittedKeeps ==
  ASSUME NEW Loci \in SUBSET (Nat \ {NoLocus}), NEW body \in Bodies(Loci),
         NEW emitters \in Seq(EmittersOf(Loci)), NEW tick \in Nat
  PROVE  Emitted(body, emitters, tick) \in Bodies(Loci)
<1> DEFINE n == Len(emitters)
           Is(f) == f = [k \in 0 .. Len(emitters) |->
                           IF k = 0 THEN body ELSE Emit(f[k - 1], emitters[k], tick)]
           m == CHOOSE f : Is(f)
<1>1. Emitted(body, emitters, tick) = m[n]
  BY DEF Emitted
<1>2. n \in Nat
  OBVIOUS
<1>3. \A k \in 1 .. n : \A v \in Bodies(Loci) : Emit(v, emitters[k], tick) \in Bodies(Loci)
  <2> SUFFICES ASSUME NEW k \in 1 .. n, NEW v \in Bodies(Loci) PROVE Emit(v, emitters[k], tick) \in Bodies(Loci)
    OBVIOUS
  <2>1. emitters[k] \in EmittersOf(Loci)
    OBVIOUS
  <2> QED  BY <2>1, EmitKeeps
<1>4. \E f : Is(f)
  <2> DEFINE step == [k \in 1 .. n |-> [v \in Bodies(Loci) |-> Emit(v, emitters[k], tick)]]
  <2>1. step \in [1 .. n -> [Bodies(Loci) -> Bodies(Loci)]]
    <3> HIDE DEF n
    <3> QED  BY <1>3
  <2>2. \A k \in 1 .. n : \A v \in Bodies(Loci) : step[k][v] = Emit(v, emitters[k], tick)
    OBVIOUS
  <2> HIDE DEF step
  <2>3. PICK f : FoldsIn(Bodies(Loci), f, body, step, n)
    <3> HIDE DEF n, Is
    <3> QED  BY <1>2, <2>1, FoldExists
  <2>4. f \in [0 .. n -> Bodies(Loci)] /\ f[0] = body /\ \A k \in 1 .. n : f[k] = step[k][f[k - 1]]
    BY <2>3 DEF FoldsIn
  <2>5. ASSUME NEW k \in 0 .. n
        PROVE  f[k] = IF k = 0 THEN body ELSE Emit(f[k - 1], emitters[k], tick)
    <3>1. k # 0 => k \in 1 .. n /\ k - 1 \in 0 .. n
      BY <1>2
    <3> HIDE DEF n
    <3> QED  BY <2>2, <2>4, <3>1
  <2>6. Is(f)
    <3> HIDE DEF n
    <3>1. f = [k \in 0 .. n |-> f[k]]
      BY <2>4
    <3> QED  BY <2>5, <3>1 DEF n
  <2> HIDE DEF Is
  <2> QED  BY <2>6
<1>5. Is(m)
  <2> HIDE DEF Is
  <2> QED  BY <1>4
<1>6. \A k \in 0 .. n : m[k] = IF k = 0 THEN body ELSE Emit(m[k - 1], emitters[k], tick)
  <2> HIDE DEF m
  <2> QED  BY <1>5
<1> HIDE DEF m, Is
<1> DEFINE Good == {k \in 0 .. n : m[k] \in Bodies(Loci)}
<1>7. 0 \in Good
  BY <1>2, <1>6
<1>8. \A k \in 1 .. n : k - 1 \in Good => k \in Good
  <2> HIDE DEF n
  <2> SUFFICES ASSUME NEW k \in 1 .. n, m[k - 1] \in Bodies(Loci) PROVE k \in Good
    BY <1>2
  <2>1. k \in 0 .. n /\ k # 0
    BY <1>2
  <2> QED  BY <1>3, <1>6, <2>1
<1>9. \A k \in 0 .. n : k \in Good
  <2> HIDE DEF Good, n
  <2> QED  BY <1>2, <1>7, <1>8, NumbersAre
<1> QED  BY <1>1, <1>2, <1>9

LEMMA ReceivedKeeps ==
  ASSUME NEW Loci \in SUBSET (Nat \ {NoLocus}), NEW body \in Bodies(Loci),
         NEW receptors \in Seq(ReceptorsOf(Loci))
  PROVE  Received(body, receptors) \in Bodies(Loci)
<1> DEFINE n == Len(receptors)
           Is(f) == f = [k \in 0 .. Len(receptors) |->
                           IF k = 0 THEN body ELSE Receive(f[k - 1], receptors[k])]
           m == CHOOSE f : Is(f)
<1>1. Received(body, receptors) = m[n]
  BY DEF Received
<1>2. n \in Nat
  OBVIOUS
<1>3. \A k \in 1 .. n : \A v \in Bodies(Loci) : Receive(v, receptors[k]) \in Bodies(Loci)
  <2> SUFFICES ASSUME NEW k \in 1 .. n, NEW v \in Bodies(Loci) PROVE Receive(v, receptors[k]) \in Bodies(Loci)
    OBVIOUS
  <2>1. receptors[k] \in ReceptorsOf(Loci)
    OBVIOUS
  <2> QED  BY <2>1, ReceiveKeeps
<1>4. \E f : Is(f)
  <2> DEFINE step == [k \in 1 .. n |-> [v \in Bodies(Loci) |-> Receive(v, receptors[k])]]
  <2>1. step \in [1 .. n -> [Bodies(Loci) -> Bodies(Loci)]]
    <3> HIDE DEF n
    <3> QED  BY <1>3
  <2>2. \A k \in 1 .. n : \A v \in Bodies(Loci) : step[k][v] = Receive(v, receptors[k])
    OBVIOUS
  <2> HIDE DEF step
  <2>3. PICK f : FoldsIn(Bodies(Loci), f, body, step, n)
    <3> HIDE DEF n, Is
    <3> QED  BY <1>2, <2>1, FoldExists
  <2>4. f \in [0 .. n -> Bodies(Loci)] /\ f[0] = body /\ \A k \in 1 .. n : f[k] = step[k][f[k - 1]]
    BY <2>3 DEF FoldsIn
  <2>5. ASSUME NEW k \in 0 .. n
        PROVE  f[k] = IF k = 0 THEN body ELSE Receive(f[k - 1], receptors[k])
    <3>1. k # 0 => k \in 1 .. n /\ k - 1 \in 0 .. n
      BY <1>2
    <3> HIDE DEF n
    <3> QED  BY <2>2, <2>4, <3>1
  <2>6. Is(f)
    <3> HIDE DEF n
    <3>1. f = [k \in 0 .. n |-> f[k]]
      BY <2>4
    <3> QED  BY <2>5, <3>1 DEF n
  <2> HIDE DEF Is
  <2> QED  BY <2>6
<1>5. Is(m)
  <2> HIDE DEF Is
  <2> QED  BY <1>4
<1>6. \A k \in 0 .. n : m[k] = IF k = 0 THEN body ELSE Receive(m[k - 1], receptors[k])
  <2> HIDE DEF m
  <2> QED  BY <1>5
<1> HIDE DEF m, Is
<1> DEFINE Good == {k \in 0 .. n : m[k] \in Bodies(Loci)}
<1>7. 0 \in Good
  BY <1>2, <1>6
<1>8. \A k \in 1 .. n : k - 1 \in Good => k \in Good
  <2> HIDE DEF n
  <2> SUFFICES ASSUME NEW k \in 1 .. n, m[k - 1] \in Bodies(Loci) PROVE k \in Good
    BY <1>2
  <2>1. k \in 0 .. n /\ k # 0
    BY <1>2
  <2> QED  BY <1>3, <1>6, <2>1
<1>9. \A k \in 0 .. n : k \in Good
  <2> HIDE DEF Good, n
  <2> QED  BY <1>2, <1>7, <1>8, NumbersAre
<1> QED  BY <1>1, <1>2, <1>9

LEMMA ReactedKeeps ==
  ASSUME NEW conc \in Concentrations, NEW reactions \in Seq(Reactions), NEW tick \in Nat
  PROVE  Reacted(conc, reactions, tick) \in Concentrations
<1> DEFINE n == Len(reactions)
           Is(f) == f = [k \in 0 .. Len(reactions) |->
                           IF k = 0 THEN conc ELSE React(f[k - 1], reactions[k], tick)]
           m == CHOOSE f : Is(f)
<1>1. Reacted(conc, reactions, tick) = m[n]
  BY DEF Reacted
<1>2. n \in Nat
  OBVIOUS
<1>3. \A k \in 1 .. n : \A v \in Concentrations : React(v, reactions[k], tick) \in Concentrations
  <2> SUFFICES ASSUME NEW k \in 1 .. n, NEW v \in Concentrations PROVE React(v, reactions[k], tick) \in Concentrations
    OBVIOUS
  <2>1. reactions[k] \in Reactions
    OBVIOUS
  <2> QED  BY <2>1, ReactKeeps
<1>4. \E f : Is(f)
  <2> DEFINE step == [k \in 1 .. n |-> [v \in Concentrations |-> React(v, reactions[k], tick)]]
  <2>1. step \in [1 .. n -> [Concentrations -> Concentrations]]
    <3> HIDE DEF n
    <3> QED  BY <1>3
  <2>2. \A k \in 1 .. n : \A v \in Concentrations : step[k][v] = React(v, reactions[k], tick)
    OBVIOUS
  <2> HIDE DEF step
  <2>3. PICK f : FoldsIn(Concentrations, f, conc, step, n)
    <3> HIDE DEF n, Is
    <3> QED  BY <1>2, <2>1, FoldExists
  <2>4. f \in [0 .. n -> Concentrations] /\ f[0] = conc /\ \A k \in 1 .. n : f[k] = step[k][f[k - 1]]
    BY <2>3 DEF FoldsIn
  <2>5. ASSUME NEW k \in 0 .. n
        PROVE  f[k] = IF k = 0 THEN conc ELSE React(f[k - 1], reactions[k], tick)
    <3>1. k # 0 => k \in 1 .. n /\ k - 1 \in 0 .. n
      BY <1>2
    <3> HIDE DEF n
    <3> QED  BY <2>2, <2>4, <3>1
  <2>6. Is(f)
    <3> HIDE DEF n
    <3>1. f = [k \in 0 .. n |-> f[k]]
      BY <2>4
    <3> QED  BY <2>5, <3>1 DEF n
  <2> HIDE DEF Is
  <2> QED  BY <2>6
<1>5. Is(m)
  <2> HIDE DEF Is
  <2> QED  BY <1>4
<1>6. \A k \in 0 .. n : m[k] = IF k = 0 THEN conc ELSE React(m[k - 1], reactions[k], tick)
  <2> HIDE DEF m
  <2> QED  BY <1>5
<1> HIDE DEF m, Is
<1> DEFINE Good == {k \in 0 .. n : m[k] \in Concentrations}
<1>7. 0 \in Good
  BY <1>2, <1>6
<1>8. \A k \in 1 .. n : k - 1 \in Good => k \in Good
  <2> HIDE DEF n
  <2> SUFFICES ASSUME NEW k \in 1 .. n, m[k - 1] \in Concentrations PROVE k \in Good
    BY <1>2
  <2>1. k \in 0 .. n /\ k # 0
    BY <1>2
  <2> QED  BY <1>3, <1>6, <2>1
<1>9. \A k \in 0 .. n : k \in Good
  <2> HIDE DEF Good, n
  <2> QED  BY <1>2, <1>7, <1>8, NumbersAre
<1> QED  BY <1>1, <1>2, <1>9

\* A whole update keeps every concentration and every locus a byte, whatever records genes
\* have loaded into the three tables, in whatever order and number (Biochemistry::update).
THEOREM UpdatesKeepBytes ==
  ASSUME NEW Loci \in SUBSET (Nat \ {NoLocus}), NEW body \in Bodies(Loci),
         NEW tables \in [emitters : Seq(EmittersOf(Loci)), receptors : Seq(ReceptorsOf(Loci)),
                         reactions : Seq(Reactions)],
         NEW halfLife \in [Byte -> Byte], NEW tick \in Nat
  PROVE  BiochemistryUpdate(body, tables, halfLife, tick) \in Bodies(Loci)
<1> DEFINE received == Received(Emitted(body, tables.emitters, tick), tables.receptors)
<1>1. Emitted(body, tables.emitters, tick) \in Bodies(Loci)
  BY EmittedKeeps
<1>2. received \in Bodies(Loci)
  BY <1>1, ReceivedKeeps
<1> HIDE DEF received
<1>3. Reacted(received.conc, tables.reactions, tick) \in Concentrations
  BY <1>2, ReactedKeeps DEF Bodies
<1>4. Decay(Reacted(received.conc, tables.reactions, tick), halfLife, tick) \in Concentrations
  BY <1>3, DecayKeeps
<1>5. BiochemistryUpdate(body, tables, halfLife, tick)
        = [received EXCEPT !.conc = Decay(Reacted(received.conc, tables.reactions, tick), halfLife, tick)]
  BY DEF BiochemistryUpdate, received
<1> QED  BY <1>2, <1>4, <1>5 DEF Bodies

-------------------------------------------------------------------------------
(* The genes.                                                              *)

\* Any byte becomes an amount a concentration can be divided by.
LEMMA NormalizedAmount ==
  ASSUME NEW value \in Byte
  PROVE NormalizeReactionAmount(value) \in 1 .. 16
BY DEF NormalizeReactionAmount, Byte

LEMMA NormalizedSlot ==
  ASSUME NEW slot \in [chemical : Byte, amount : Byte]
  PROVE [slot EXCEPT !.amount = NormalizeReactionAmount(@)] \in Slots
<1>1. NormalizeReactionAmount(slot.amount) \in 1 .. 16
  BY NormalizedAmount
<1> QED
  BY <1>1 DEF Slots

LEMMA RoomForOne ==
  ASSUME NEW n \in Nat, n <= MaxRecords, n # MaxRecords
  PROVE n + 1 <= MaxRecords
BY DEF MaxRecords

\* Whatever bytes a genome holds, the reactions it loads are ones whose
\* amounts update can divide by, in a table of at most MaxRecords (the
\* reaction loop of load_genome).
THEOREM LoadedReactionsAreLegal ==
  ASSUME NEW reactions \in Seq(Reactions), NEW gene \in ReactionGenes,
         Len(reactions) <= MaxRecords
  PROVE /\ LoadReaction(reactions, gene) \in Seq(Reactions)
        /\ Len(LoadReaction(reactions, gene)) <= MaxRecords
<1>1. NormalizeReaction(gene) \in Reactions
  <2>1. /\ [gene.one EXCEPT !.amount = NormalizeReactionAmount(@)] \in Slots
        /\ [gene.two EXCEPT !.amount = NormalizeReactionAmount(@)] \in Slots
        /\ [gene.left EXCEPT !.amount = NormalizeReactionAmount(@)] \in Slots
        /\ [gene.right EXCEPT !.amount = NormalizeReactionAmount(@)] \in Slots
    BY NormalizedSlot DEF ReactionGenes
  <2> QED
    BY <2>1 DEF NormalizeReaction, ReactionGenes, Reactions
<1>2. CASE Len(reactions) = MaxRecords
  BY <1>2 DEF LoadReaction
<1>3. CASE Len(reactions) # MaxRecords
  <2>1. LoadReaction(reactions, gene)
          = Append(reactions, NormalizeReaction(gene))
    BY <1>3 DEF LoadReaction
  <2>2. Len(reactions) \in Nat /\ Len(reactions) + 1 <= MaxRecords
    BY <1>3, RoomForOne
  <2>3. /\ Append(reactions, NormalizeReaction(gene)) \in Seq(Reactions)
        /\ Len(Append(reactions, NormalizeReaction(gene)))
             = Len(reactions) + 1
    BY <1>1
  <2> QED
    BY <2>1, <2>2, <2>3
<1> QED
  BY <1>2, <1>3

\* No two receptors set the same locus, whatever genes load at whatever
\* stage of life: the later gene takes over the earlier one's record, so the
\* order of the table never decides what a locus holds.  Nor does a gene
\* pass the end of the table (the receptor loop of load_genome).
THEOREM ReceptorsDoNotCompete ==
  ASSUME NEW receptors \in Seq(Receptors), NEW gene \in Receptors,
         OneReceptorPerLocus(receptors), Len(receptors) <= MaxRecords
  PROVE LET loaded == LoadReceptor(receptors, gene) IN
        /\ loaded \in Seq(Receptors)
        /\ OneReceptorPerLocus(loaded)
        /\ Len(loaded) <= MaxRecords
<1> DEFINE Same(record) == record.locus = gene.locus
<1>1. CASE Len(receptors) = MaxRecords
  BY <1>1 DEF LoadReceptor
<1>2. CASE /\ Len(receptors) # MaxRecords
           /\ ~\E i \in DOMAIN receptors : Same(receptors[i])
  <2>1. LoadReceptor(receptors, gene) = Append(receptors, gene)
    BY <1>2 DEF LoadReceptor
  <2>2. Append(receptors, gene) \in Seq(Receptors)
    OBVIOUS
  <2>3. Len(Append(receptors, gene)) <= MaxRecords
    <3>1. Len(receptors) \in Nat /\ Len(receptors) + 1 <= MaxRecords
      <4>1. Len(receptors) # MaxRecords
        BY <1>2
      <4>2. Len(receptors) \in Nat
        OBVIOUS
      <4> QED
        BY <4>1, <4>2, RoomForOne
    <3>2. Len(Append(receptors, gene)) = Len(receptors) + 1
      OBVIOUS
    <3> QED
      BY <3>1, <3>2
  <2>4. OneReceptorPerLocus(Append(receptors, gene))
    BY <1>2 DEF OneReceptorPerLocus
  <2> QED
    BY <2>1, <2>2, <2>3, <2>4
<1>3. CASE /\ Len(receptors) # MaxRecords
           /\ \E i \in DOMAIN receptors : Same(receptors[i])
           /\ gene.locus = NoLocus
  BY <1>3 DEF LoadReceptor
<1>4. CASE /\ Len(receptors) # MaxRecords
           /\ \E i \in DOMAIN receptors : Same(receptors[i])
           /\ gene.locus # NoLocus
  <2>1. PICK i \in DOMAIN receptors : Same(receptors[i])
    BY <1>4
  <2>2. \A j \in DOMAIN receptors : Same(receptors[j]) => j = i
    BY <2>1 DEF OneReceptorPerLocus
  <2>3. FirstOf({j \in DOMAIN receptors : Same(receptors[j])}) = i
    <3>1. {j \in DOMAIN receptors : Same(receptors[j])} = {i}
      BY <2>1, <2>2
    <3> QED
      BY <3>1 DEF FirstOf
  <2>4. LoadReceptor(receptors, gene) = [receptors EXCEPT ![i] = gene]
    BY <1>4, <2>3 DEF LoadReceptor
  <2>5. /\ [receptors EXCEPT ![i] = gene] \in Seq(Receptors)
        /\ Len([receptors EXCEPT ![i] = gene]) = Len(receptors)
    OBVIOUS
  <2>6. OneReceptorPerLocus([receptors EXCEPT ![i] = gene])
    BY <2>1, <2>2 DEF OneReceptorPerLocus
  <2> QED
    BY <2>4, <2>5, <2>6
<1> QED
  BY <1>1, <1>2, <1>3, <1>4

\* A gene whose locus does not resolve adds at most one record without a
\* locus, and changes no other.
LEMMA UnresolvedEmitter ==
  ASSUME NEW emitters \in Seq(Emitters),
         NEW entry \in Emitters, entry.locus = NoLocus,
         OneEmitterPerPair(emitters)
  PROVE OneEmitterPerPair(Append(emitters, entry))
BY DEF OneEmitterPerPair

\* No two emitters read the same locus into the same chemical, so a gene
\* that a later stage of life loads again does not emit twice; one that two
\* genes share feeds each chemical once.  Nothing that emits has the period
\* zero that update would divide by (the emitter loop of load_genome).
THEOREM EmittersDoNotCompete ==
  ASSUME NEW emitters \in Seq(Emitters), NEW gene \in Emitters,
         OneEmitterPerPair(emitters), Len(emitters) <= MaxRecords,
         \A i \in DOMAIN emitters : emitters[i].period # 0
  PROVE LET loaded == LoadEmitter(emitters, gene) IN
        /\ loaded \in Seq(Emitters)
        /\ OneEmitterPerPair(loaded)
        /\ Len(loaded) <= MaxRecords
        /\ \A i \in DOMAIN loaded : loaded[i].period # 0
<1> DEFINE Same(record) == /\ record.locus = gene.locus
                           /\ record.chemical = gene.chemical
           taken == \E i \in DOMAIN emitters : Same(emitters[i])
<1>1. PICK entry \in Emitters :
        /\ entry = [gene EXCEPT !.period = NormalizePeriod(@)]
        /\ entry.period # 0
        /\ entry.locus = gene.locus
        /\ entry.chemical = gene.chemical
  <2>1. PICK p \in Byte : p = NormalizePeriod(gene.period) /\ p # 0
    <3>1. gene.period \in Byte
      BY DEF Emitters
    <3>2. NormalizePeriod(gene.period) \in Byte
      BY <3>1 DEF NormalizePeriod, Byte
    <3>3. NormalizePeriod(gene.period) # 0
      BY <3>1 DEF NormalizePeriod
    <3> QED
      BY <3>2, <3>3
  <2>2. [gene EXCEPT !.period = p] \in Emitters
    BY DEF Emitters
  <2>3. [gene EXCEPT !.period = NormalizePeriod(@)]
          = [gene EXCEPT !.period = p]
    BY <2>1 DEF Emitters
  <2>4. /\ [gene EXCEPT !.period = p].period = p
        /\ [gene EXCEPT !.period = p].locus = gene.locus
        /\ [gene EXCEPT !.period = p].chemical = gene.chemical
    BY DEF Emitters
  <2> QED
    BY <2>1, <2>2, <2>3, <2>4
<1>2. ASSUME Len(emitters) # MaxRecords, NEW e \in Emitters, e.period # 0
      PROVE /\ Append(emitters, e) \in Seq(Emitters)
            /\ Len(Append(emitters, e)) <= MaxRecords
            /\ \A i \in DOMAIN Append(emitters, e) :
                 Append(emitters, e)[i].period # 0
  <2>1. Len(emitters) \in Nat /\ Len(emitters) + 1 <= MaxRecords
    BY <1>2, RoomForOne
  <2>2. Len(Append(emitters, e)) = Len(emitters) + 1
    OBVIOUS
  <2>3. \A i \in DOMAIN Append(emitters, e) :
          Append(emitters, e)[i].period # 0
    BY <1>2
  <2> QED
    BY <2>1, <2>2, <2>3
<1>3. CASE Len(emitters) = MaxRecords
  BY <1>3 DEF LoadEmitter
<1>4. CASE Len(emitters) # MaxRecords /\ gene.locus = NoLocus /\ taken
  BY <1>4 DEF LoadEmitter
<1>5. CASE Len(emitters) # MaxRecords /\ gene.locus = NoLocus /\ ~taken
  <2>1. PICK e \in Emitters : /\ e = [entry EXCEPT !.chemical = NoChemical]
                              /\ e.period # 0
                              /\ e.locus = NoLocus
    <3>1. NoChemical \in Byte
      BY DEF NoChemical, Byte
    <3>2. [entry EXCEPT !.chemical = NoChemical] \in Emitters
      BY <3>1 DEF Emitters
    <3>3. /\ [entry EXCEPT !.chemical = NoChemical].period # 0
          /\ [entry EXCEPT !.chemical = NoChemical].locus = NoLocus
      BY <1>1, <1>5 DEF Emitters
    <3> QED
      BY <3>2, <3>3
  <2>2. LoadEmitter(emitters, gene) = Append(emitters, e)
    BY <1>1, <1>5, <2>1 DEF LoadEmitter
  <2>3. OneEmitterPerPair(Append(emitters, e))
    BY <2>1, UnresolvedEmitter
  <2> QED
    BY <1>2, <1>5, <2>1, <2>2, <2>3
<1>6. CASE Len(emitters) # MaxRecords /\ gene.locus # NoLocus /\ ~taken
  <2>1. LoadEmitter(emitters, gene) = Append(emitters, entry)
    BY <1>1, <1>6 DEF LoadEmitter
  <2>2. OneEmitterPerPair(Append(emitters, entry))
    BY <1>1, <1>6 DEF OneEmitterPerPair
  <2> QED
    BY <1>1, <1>2, <1>6, <2>1, <2>2
<1>7. CASE Len(emitters) # MaxRecords /\ gene.locus # NoLocus /\ taken
  <2>1. PICK i \in DOMAIN emitters : Same(emitters[i])
    BY <1>7
  <2>2. \A j \in DOMAIN emitters : Same(emitters[j]) => j = i
    BY <1>7, <2>1 DEF OneEmitterPerPair
  <2>3. FirstOf({j \in DOMAIN emitters : Same(emitters[j])}) = i
    <3>1. {j \in DOMAIN emitters : Same(emitters[j])} = {i}
      BY <2>1, <2>2
    <3> QED
      BY <3>1 DEF FirstOf
  <2>4. LoadEmitter(emitters, gene) = [emitters EXCEPT ![i] = entry]
    BY <1>1, <1>7, <2>3 DEF LoadEmitter
  <2>5. /\ [emitters EXCEPT ![i] = entry] \in Seq(Emitters)
        /\ Len([emitters EXCEPT ![i] = entry]) = Len(emitters)
        /\ \A j \in DOMAIN [emitters EXCEPT ![i] = entry] :
             [emitters EXCEPT ![i] = entry][j].period # 0
    BY <1>1
  <2>6. OneEmitterPerPair([emitters EXCEPT ![i] = entry])
    BY <1>1, <2>1, <2>2 DEF OneEmitterPerPair
  <2> QED
    BY <2>4, <2>5, <2>6
<1> QED
  BY <1>3, <1>4, <1>5, <1>6, <1>7

-----------------------------------------------------------------------------
(***************************************************************************)
(* The dendrites of a lobe, for every state, rule, signal, draw and tick:  *)
(* what learning and forgetting may do to a weight, and that a neuron's    *)
(* dendrites stay apart when they find new sources.                        *)
(***************************************************************************)

-------------------------------------------------------------------------------
(* Ranges of the genome.                                                   *)

LEMMA ModuloRange ==
  ASSUME NEW x \in Nat, NEW n \in Nat \ {0}
  PROVE x % n \in 0 .. n - 1
OBVIOUS

\* A pair of range bytes of the genome always gives a range: the maximum is
\* a byte no less than the minimum, so no draw divides by zero (the three
\* ranges of DendriteType::load_from_genome).
THEOREM RangesAreOrdered ==
  ASSUME NEW minimum \in Byte, NEW maximum \in Byte
  PROVE NormalizeRangeMax(minimum, maximum) \in minimum .. 255
<1>1. minimum \in Nat /\ minimum <= 255 /\ maximum \in Nat /\ maximum <= 255
  BY ByteRange
<1>2. CASE maximum >= minimum
  BY <1>1, <1>2 DEF NormalizeRangeMax
<1>3. CASE ~(maximum >= minimum)
  <2>1. maximum % (256 - minimum) \in 0 .. 255 - minimum
    BY <1>1, ModuloRange
  <2> QED
    BY <1>1, <1>3, <2>1 DEF NormalizeRangeMax
<1> QED
  BY <1>2, <1>3

\* Whatever the distribution and the draws, a neuron gets a number of
\* dendrites in the range of its genes, so that the count stays a byte
\* (sample_connection_count).
THEOREM CountInRange ==
  ASSUME NEW minimum \in Byte, NEW maximum \in minimum .. 255,
         NEW rand1 \in Nat, NEW rand2 \in Nat,
         NEW spread \in {"uniform", "average", "difference", "complement"}
  PROVE SampleCount(spread, minimum, maximum, rand1, rand2)
          \in minimum .. maximum
<1>1. minimum \in Nat /\ maximum \in Nat /\ minimum <= maximum
  <2>1. minimum \in Nat
    BY ByteRange
  <2> QED
    BY <2>1
<1>2. PICK range \in Nat : range = maximum - minimum
  <2>1. maximum - minimum \in Nat
    BY <1>1
  <2> QED
    BY <2>1
<1>3. PICK first \in 0 .. range : first = rand1 % (range + 1)
  <2>1. rand1 % (range + 1) \in 0 .. range
    BY ModuloRange
  <2> QED
    BY <2>1
<1>4. PICK second \in 0 .. range : second = rand2 % (range + 1)
  <2>1. rand2 % (range + 1) \in 0 .. range
    BY ModuloRange
  <2> QED
    BY <2>1
<1>5. PICK m \in 0 .. range : m = Magnitude(first + second - range)
  <2>1. Magnitude(first + second - range) \in 0 .. range
    BY DEF Magnitude
  <2> QED
    BY <2>1
<1>6. (first + second) \div 2 \in 0 .. range
  OBVIOUS
<1>7. ASSUME NEW offset \in 0 .. range
      PROVE minimum + offset \in minimum .. maximum
  BY <1>1, <1>2
<1>8. CASE spread = "uniform"
  <2>1. SampleCount(spread, minimum, maximum, rand1, rand2) = minimum + first
    BY <1>2, <1>3, <1>8 DEF SampleCount
  <2> QED
    BY <1>7, <2>1
<1>9. CASE spread = "average"
  <2>1. SampleCount(spread, minimum, maximum, rand1, rand2)
          = minimum + ((first + second) \div 2)
    BY <1>2, <1>3, <1>4, <1>9 DEF SampleCount
  <2> QED
    BY <1>6, <1>7, <2>1
<1>10. CASE spread = "difference"
  <2>1. SampleCount(spread, minimum, maximum, rand1, rand2) = minimum + m
    BY <1>2, <1>3, <1>4, <1>5, <1>10 DEF SampleCount
  <2> QED
    BY <1>7, <2>1
<1>11. CASE spread = "complement"
  <2>1. SampleCount(spread, minimum, maximum, rand1, rand2)
          = minimum + (range - m)
    BY <1>2, <1>3, <1>4, <1>5, <1>11 DEF SampleCount
  <2>2. range - m \in 0 .. range
    OBVIOUS
  <2> QED
    BY <1>7, <2>1, <2>2
<1> QED
  BY <1>8, <1>9, <1>10, <1>11

-------------------------------------------------------------------------------
(* Weights.                                                                *)

\* Relaxation moves a value towards its baseline and never past it.
LEMMA RelaxedBetween ==
  ASSUME NEW value \in Byte, NEW baseline \in Byte, NEW rate \in Byte,
         NEW tick \in Nat
  PROVE LET r == Relaxed(value, baseline, rate, tick) IN
        /\ r \in Byte
        /\ baseline <= value => baseline <= r /\ r <= value
        /\ value <= baseline => value <= r /\ r <= baseline
        /\ value # baseline /\ Due(Selector(rate), tick) => r # value
<1>1. value \in Nat /\ value <= 255 /\ baseline \in Nat /\ baseline <= 255
  BY ByteRange
<1>2. PICK s \in 0 .. 31 : s = Selector(rate)
  BY SelectorRange
<1>3. CASE value = baseline \/ ~Due(s, tick)
  <2>1. Relaxed(value, baseline, rate, tick) = value
    BY <1>2, <1>3 DEF Relaxed
  <2> QED
    BY <1>1, <1>2, <1>3, <2>1
<1>4. CASE value # baseline /\ Due(s, tick) /\ baseline < value
  <2>1. PICK q \in Nat \ {0} : q = value - baseline
    <3>1. value - baseline \in Nat \ {0}
      BY <1>1, <1>4
    <3> QED
      BY <3>1
  <2>2. PICK l \in 0 .. q - 1 : l = Left(q, s)
    BY LeftIsLess
  <2>3. Relaxed(value, baseline, rate, tick) = baseline + l
    BY <1>2, <1>4, <2>1, <2>2 DEF Relaxed
  <2>4. baseline + l \in Nat /\ baseline <= baseline + l /\ baseline + l < value
    BY <1>1, <2>1, <2>2
  <2>5. baseline + l \in Byte
    BY <1>1, <2>4, SmallIsByte
  <2> QED
    BY <1>1, <1>4, <2>3, <2>4, <2>5
<1>5. CASE value # baseline /\ Due(s, tick) /\ ~(baseline < value)
  <2>1. PICK q \in Nat \ {0} : q = baseline - value
    <3>1. value # baseline /\ ~(baseline < value)
      BY <1>5
    <3>2. baseline - value \in Nat \ {0}
      BY <1>1, <3>1
    <3> QED
      BY <3>2
  <2>2. PICK l \in 0 .. q - 1 : l = Left(q, s)
    BY LeftIsLess
  <2>3. Relaxed(value, baseline, rate, tick) = baseline - l
    BY <1>2, <1>5, <2>1, <2>2 DEF Relaxed
  <2>4. baseline - l \in Nat /\ value < baseline - l /\ baseline - l <= baseline
    BY <1>1, <2>1, <2>2
  <2>5. baseline - l \in Byte
    BY <1>1, <2>4, SmallIsByte
  <2> QED
    BY <1>1, <1>5, <2>3, <2>4, <2>5
<1> QED
  BY <1>3, <1>4, <1>5

LEMMA DendriteFields ==
  ASSUME NEW d \in DendriteStates
  PROVE /\ d.source \in Nat
        /\ d.susceptibility \in Byte
        /\ d.stw \in Byte
        /\ d.ltw \in Byte
        /\ d.strength \in Byte
BY DEF DendriteStates

LEMMA RuleFields ==
  ASSUME NEW rule \in DendriteRules
  PROVE /\ rule.relaxSuscept \in Byte
        /\ rule.relaxStw \in Byte
        /\ rule.ltwGainRate \in Byte
        /\ rule.gainRate \in Byte
        /\ rule.loseRate \in Byte
BY DEF DendriteRules

\* What a dendrite has learned is never unlearned by the rest of the step:
\* the short-term and the long-term weight move towards each other, each
\* stays between where the two were, and they never pass each other, even
\* when both move at one tick (the relaxation and the step of ltw in
\* update_late_phase).
THEOREM WeightsConverge ==
  ASSUME NEW d \in DendriteStates, NEW rule \in DendriteRules,
         NEW tick \in Nat
  PROVE LET e == Settle(d, rule, tick) IN
        /\ e \in DendriteStates
        /\ d.ltw <= d.stw => /\ d.ltw <= e.ltw
                             /\ e.ltw <= e.stw
                             /\ e.stw <= d.stw
        /\ d.stw <= d.ltw => /\ d.stw <= e.stw
                             /\ e.stw <= e.ltw
                             /\ e.ltw <= d.ltw
<1>1. PICK s \in Byte, l \in Byte : s = d.stw /\ l = d.ltw
  BY DendriteFields
<1>2. s \in Nat /\ s <= 255 /\ l \in Nat /\ l <= 255
  BY ByteRange
<1>3. PICK r \in Byte : /\ r = Relaxed(s, l, rule.relaxStw, tick)
                        /\ l <= s => l <= r /\ r <= s
                        /\ s <= l => s <= r /\ r <= l
  BY RuleFields, RelaxedBetween
<1>4. r \in Nat /\ r <= 255
  BY ByteRange
<1> DEFINE f == [d EXCEPT !.stw = r]
<1>5. RelaxWeight(d, rule, tick) = f
  BY <1>1, <1>3 DEF RelaxWeight, DendriteStates
<1>6. f \in DendriteStates /\ f.stw = r /\ f.ltw = l
  BY <1>1 DEF DendriteStates
<1> HIDE DEF f
<1>7. CASE r = l \/ ~EveryNth(rule.ltwGainRate, tick)
  <2>1. Settle(d, rule, tick) = f
    BY <1>5, <1>6, <1>7 DEF Settle, StepLtw
  <2> QED
    BY <1>1, <1>2, <1>3, <1>4, <1>6, <2>1
<1>8. CASE r # l /\ EveryNth(rule.ltwGainRate, tick)
  <2>1. PICK m \in Byte : /\ m = IF l < r THEN l + 1 ELSE l - 1
                          /\ l < r => l <= m /\ m <= r
                          /\ ~(l < r) => r <= m /\ m <= l
    <3>1. CASE l < r
      <4>1. l + 1 \in Nat /\ l + 1 <= 255 /\ l <= l + 1 /\ l + 1 <= r
        BY <1>2, <1>4, <3>1
      <4>2. l + 1 \in Byte
        BY <4>1, SmallIsByte
      <4> QED
        BY <3>1, <4>1, <4>2
    <3>2. CASE ~(l < r)
      <4>1. r # l
        BY <1>8
      <4>2. l - 1 \in Nat /\ l - 1 <= 255 /\ r <= l - 1 /\ l - 1 <= l
        BY <1>2, <1>4, <3>2, <4>1
      <4>3. l - 1 \in Byte
        BY <4>2, SmallIsByte
      <4> QED
        BY <3>2, <4>2, <4>3
    <3> QED
      BY <3>1, <3>2
  <2>2. m \in Nat
    BY ByteRange
  <2>3. [f EXCEPT !.ltw = m] \in DendriteStates
    BY <1>6 DEF DendriteStates
  <2>4. [f EXCEPT !.ltw = m].stw = r /\ [f EXCEPT !.ltw = m].ltw = m
    BY <1>6 DEF DendriteStates
  <2>5. Settle(d, rule, tick) = [f EXCEPT !.ltw = m]
    BY <1>5, <1>6, <1>8, <2>1 DEF Settle, StepLtw, DendriteStates
  <2>6. l <= s => l <= m /\ m <= r /\ r <= s
    BY <1>2, <1>3, <1>4, <1>8, <2>1, <2>2
  <2>7. s <= l => s <= r /\ r <= m /\ m <= l
    BY <1>2, <1>3, <1>4, <2>1, <2>2
  <2> QED
    BY <1>1, <2>3, <2>4, <2>5, <2>6, <2>7
<1> QED
  BY <1>7, <1>8

\* Reinforcement never lowers a weight, not even where the rise is cut to a
\* byte, and from a weight that is not below its baseline it reaches exactly
\* the baseline and the signal, or 255 (the "wraps low" remark in
\* update_late_phase is about a smaller rise, never a fall).
THEOREM ReinforcementNeverWeakens ==
  ASSUME NEW d \in DendriteStates, NEW signal \in Byte
  PROVE LET e == Reinforce(d, signal) IN
        /\ e \in DendriteStates
        /\ d.stw <= e.stw
        /\ /\ Weighted(d, signal) # 0
           /\ d.ltw <= d.stw
           /\ d.stw - d.ltw < Weighted(d, signal)
           => e.stw = SaturatingAdd(d.ltw, Weighted(d, signal))
<1>1. PICK s \in Byte, l \in Byte : s = d.stw /\ l = d.ltw
  BY DendriteFields
<1>2. s \in Nat /\ s <= 255 /\ l \in Nat /\ l <= 255
  BY ByteRange
<1>3. PICK w \in Nat : w = Weighted(d, signal) /\ w <= 255
  <2>1. PICK u \in Nat : u = d.susceptibility /\ u <= 255
    BY DendriteFields, ByteRange
  <2>2. PICK g \in Nat : g = signal /\ g <= 255
    BY ByteRange
  <2>3. u * g \in Nat /\ u * g <= 255 * 255
    <3>1. u * g <= u * 255 /\ u * g \in Nat
      BY <2>1, <2>2
    <3>2. u * 255 <= 255 * 255
      BY <2>1
    <3> QED
      BY <3>1, <3>2
  <2>4. (u * g) \div 256 \in Nat /\ (u * g) \div 256 <= 255
    BY <2>3
  <2> QED
    BY <2>1, <2>2, <2>4 DEF Weighted
<1>4. CASE w = 0 \/ s - l >= w
  <2>1. Reinforce(d, signal) = d
    BY <1>1, <1>3, <1>4 DEF Reinforce
  <2> QED
    BY <1>1, <1>2, <1>3, <1>4, <2>1
<1>5. CASE w # 0 /\ ~(s - l >= w)
  <2>1. PICK rise \in Nat : rise = (w - (s - l)) % 256
    <3>1. (w - (s - l)) % 256 \in Nat
      BY <1>2, <1>3
    <3> QED
      BY <3>1
  <2>2. PICK t \in Byte : t = SaturatingAdd(s, rise) /\ s <= t
    <3>1. CASE s + rise > 255
      <4>1. SaturatingAdd(s, rise) = 255 /\ 255 \in Byte
        BY <3>1 DEF SaturatingAdd, Byte
      <4> QED
        BY <1>2, <4>1
    <3>2. CASE ~(s + rise > 255)
      <4>1. SaturatingAdd(s, rise) = s + rise /\ s + rise \in Nat
            /\ s + rise <= 255 /\ s <= s + rise
        BY <1>2, <3>2 DEF SaturatingAdd
      <4> QED
        BY <4>1, SmallIsByte
    <3> QED
      BY <3>1, <3>2
  <2>3. Reinforce(d, signal) = [d EXCEPT !.stw = t]
    BY <1>1, <1>3, <1>5, <2>1, <2>2 DEF Reinforce, DendriteStates
  <2>4. [d EXCEPT !.stw = t] \in DendriteStates /\ [d EXCEPT !.stw = t].stw = t
    BY DEF DendriteStates
  <2>5. l <= s => t = SaturatingAdd(l, w)
    <3>1. l <= s => rise = w - (s - l)
      BY <1>2, <1>3, <1>5, <2>1
    <3>2. l <= s => s + rise = l + w
      BY <1>2, <1>3, <3>1
    <3> QED
      BY <1>2, <1>3, <2>1, <2>2, <3>2 DEF SaturatingAdd
  <2> QED
    BY <1>1, <1>3, <2>2, <2>3, <2>4, <2>5
<1> QED
  BY <1>4, <1>5

LEMMA SensitiseKeepsBytes ==
  ASSUME NEW d \in DendriteStates, NEW rule \in DendriteRules,
         NEW signal \in Byte, NEW tick \in Nat
  PROVE Sensitise(d, rule, signal, tick) \in DendriteStates
<1>1. PICK u \in Byte : u = d.susceptibility
  BY DendriteFields
<1>2. u \in Nat /\ u <= 255
  BY ByteRange
<1>3. PICK g \in Nat : g = signal /\ g <= 255
  BY ByteRange
<1>4. PICK s \in 0 .. 31 : s = Selector(rule.relaxSuscept)
  BY RuleFields, SelectorRange
<1>5. CASE u < g
  <2>1. u + ((g - u) \div 8) \in Nat /\ u + ((g - u) \div 8) <= 255
    BY <1>2, <1>3, <1>5
  <2>2. u + ((g - u) \div 8) \in Byte
    BY <2>1, SmallIsByte
  <2>3. Sensitise(d, rule, signal, tick)
          = [d EXCEPT !.susceptibility = u + ((g - u) \div 8)]
    BY <1>1, <1>3, <1>5 DEF Sensitise, DendriteStates
  <2> QED
    BY <2>2, <2>3 DEF DendriteStates
<1>6. CASE ~(u < g) /\ Due(s, tick)
  <2>1. PICK x \in Byte : x = Left(u, s)
    <3>1. CASE u = 0
      <4>1. PICK m \in Fractions : m = Multiplier(s)
        BY MultiplierRange
      <4>2. (0 * m) \div 65536 = 0
        BY DEF Fractions
      <4>3. Left(0, s) = 0
        BY <4>1, <4>2 DEF Left
      <4> QED
        BY <3>1, <4>3
    <3>2. CASE u # 0
      <4>1. u \in Nat \ {0}
        BY <1>2, <3>2
      <4>2. PICK y \in 0 .. u - 1 : y = Left(u, s)
        BY <4>1, LeftIsLess
      <4>3. y \in Nat /\ y <= 255
        BY <1>2
      <4>4. y \in Byte
        BY <4>3, SmallIsByte
      <4> QED
        BY <4>2, <4>4
    <3> QED
      BY <3>1, <3>2
  <2>2. Sensitise(d, rule, signal, tick) = [d EXCEPT !.susceptibility = x]
    BY <1>1, <1>3, <1>4, <1>6, <2>1 DEF Sensitise, DendriteStates
  <2> QED
    BY <2>2 DEF DendriteStates
<1>7. CASE ~(u < g) /\ ~Due(s, tick)
  BY <1>1, <1>3, <1>4, <1>7 DEF Sensitise
<1> QED
  BY <1>5, <1>6, <1>7

LEMMA WeakenKeepsBytes ==
  ASSUME NEW d \in DendriteStates, NEW rule \in DendriteRules,
         NEW signal \in Byte, NEW tick \in Nat
  PROVE Weaken(d, rule, signal, tick) \in DendriteStates
<1>1. PICK s \in Byte : s = d.strength
  BY DendriteFields
<1>2. s \in Nat /\ s <= 255
  BY ByteRange
<1>3. CASE ~Weakens(d, rule, signal, tick)
  BY <1>3 DEF Weaken
<1>4. CASE Weakens(d, rule, signal, tick) /\ s > 1
  <2>1. s - 1 \in Nat /\ s - 1 <= 255
    BY <1>2, <1>4
  <2>2. s - 1 \in Byte
    BY <2>1, SmallIsByte
  <2>3. Weaken(d, rule, signal, tick) = [d EXCEPT !.strength = s - 1]
    BY <1>1, <1>4 DEF Weaken
  <2> QED
    BY <2>2, <2>3 DEF DendriteStates
<1>5. CASE Weakens(d, rule, signal, tick) /\ ~(s > 1)
  <2>1. 0 \in Byte
    BY DEF Byte
  <2>2. Weaken(d, rule, signal, tick)
          = [d EXCEPT !.strength = 0, !.susceptibility = 0,
                      !.stw = 0, !.ltw = 0]
    BY <1>1, <1>5 DEF Weaken
  <2> QED
    BY <2>1, <2>2 DEF DendriteStates
<1> QED
  BY <1>3, <1>4, <1>5

\* A tick keeps a dendrite's four bytes bytes, whatever the genome's rules
\* evaluate to, and a dendrite that it loses has learned nothing: no weight
\* of the old connection is left for the next source (the loop over the
\* connections of update_late_phase).
THEOREM LooseIsForgotten ==
  ASSUME NEW d \in DendriteStates, NEW rule \in DendriteRules,
         NEW signals \in SignalBytes, NEW tick \in Nat
  PROVE LET e == DendriteStep(d, rule, signals, tick) IN
        /\ e \in DendriteStates
        /\ e.source = d.source
        /\ Loose(e) /\ ~Loose(d) =>
             /\ Loosens(d, rule, signals, tick)
             /\ e.susceptibility = 0 /\ e.stw = 0 /\ e.ltw = 0
<1>1. /\ signals.suscept \in Byte /\ signals.reinforce \in Byte
      /\ signals.gain \in Byte /\ signals.lose \in Byte
  BY DEF SignalBytes
<1>2. PICK a \in DendriteStates :
        /\ a = Sensitise(d, rule, signals.suscept, tick)
        /\ a.source = d.source /\ a.strength = d.strength
  <2>1. Sensitise(d, rule, signals.suscept, tick) \in DendriteStates
    BY <1>1, SensitiseKeepsBytes
  <2>2. /\ Sensitise(d, rule, signals.suscept, tick).source = d.source
        /\ Sensitise(d, rule, signals.suscept, tick).strength = d.strength
    BY DEF Sensitise, DendriteStates
  <2> QED
    BY <2>1, <2>2
<1>3. PICK b \in DendriteStates :
        /\ b = Reinforce(a, signals.reinforce)
        /\ b.source = d.source /\ b.strength = d.strength
  <2>1. Reinforce(a, signals.reinforce) \in DendriteStates
    BY <1>1, ReinforcementNeverWeakens
  <2>2. /\ Reinforce(a, signals.reinforce).source = a.source
        /\ Reinforce(a, signals.reinforce).strength = a.strength
    BY DEF Reinforce, DendriteStates
  <2> QED
    BY <1>2, <2>1, <2>2
<1>4. PICK c \in DendriteStates :
        /\ c = Settle(b, rule, tick)
        /\ c.source = d.source /\ c.strength = d.strength
  <2>1. Settle(b, rule, tick) \in DendriteStates
    BY WeightsConverge
  <2>2. /\ Settle(b, rule, tick).source = b.source
        /\ Settle(b, rule, tick).strength = b.strength
    BY DEF Settle, StepLtw, RelaxWeight, DendriteStates
  <2> QED
    BY <1>3, <2>1, <2>2
<1>5. PICK g \in DendriteStates :
        /\ g = Grown(d, rule, signals, tick)
        /\ g.source = d.source
        /\ ~Loose(d) => ~Loose(g)
  <2>1. Grown(d, rule, signals, tick) = Strengthen(c, rule, signals.gain, tick)
    BY <1>2, <1>3, <1>4 DEF Grown
  <2>2. PICK h \in DendriteStates : h = Strengthen(c, rule, signals.gain, tick)
                                    /\ h.source = c.source
                                    /\ c.strength <= h.strength
    <3>1. c.strength \in Nat
      BY DendriteFields, ByteRange
    <3>2. CASE EveryNth(rule.gainRate, tick) /\ c.strength < signals.gain
      <4>1. Strengthen(c, rule, signals.gain, tick)
              = [c EXCEPT !.strength = signals.gain]
        BY <3>2 DEF Strengthen
      <4>2. /\ [c EXCEPT !.strength = signals.gain] \in DendriteStates
            /\ [c EXCEPT !.strength = signals.gain].source = c.source
            /\ [c EXCEPT !.strength = signals.gain].strength = signals.gain
        BY <1>1 DEF DendriteStates
      <4>3. signals.gain \in Nat
        BY <1>1, ByteRange
      <4>4. c.strength < signals.gain
        BY <3>2
      <4>5. c.strength <= signals.gain
        BY <3>1, <4>3, <4>4
      <4> QED
        BY <4>1, <4>2, <4>5, Zenon
    <3>3. CASE ~(EveryNth(rule.gainRate, tick) /\ c.strength < signals.gain)
      <4>1. Strengthen(c, rule, signals.gain, tick) = c
        BY <3>3 DEF Strengthen
      <4> QED
        BY <3>1, <4>1
    <3> QED
      BY <3>2, <3>3
  <2>3. c.strength \in Nat /\ h.strength \in Nat
    BY DendriteFields, ByteRange
  <2>4. c.strength # 0 => h.strength # 0
    BY <2>2, <2>3
  <2> QED
    BY <1>4, <2>1, <2>2, <2>4 DEF Loose
<1>6. DendriteStep(d, rule, signals, tick) = Weaken(g, rule, signals.lose, tick)
  BY <1>5 DEF DendriteStep
<1>7. /\ Weaken(g, rule, signals.lose, tick) \in DendriteStates
      /\ Weaken(g, rule, signals.lose, tick).source = g.source
  <2>1. Weaken(g, rule, signals.lose, tick).source = g.source
    BY DEF Weaken, DendriteStates
  <2> QED
    BY <1>1, <2>1, WeakenKeepsBytes
<1>8. ASSUME Loose(Weaken(g, rule, signals.lose, tick)), ~Loose(d)
      PROVE LET e == Weaken(g, rule, signals.lose, tick) IN
            /\ Loosens(d, rule, signals, tick)
            /\ e.susceptibility = 0 /\ e.stw = 0 /\ e.ltw = 0
  <2>1. PICK x \in Nat : x = g.strength /\ x # 0
    <3>1. g.strength \in Nat
      BY DendriteFields, ByteRange
    <3>2. g.strength # 0
      BY <1>5, <1>8 DEF Loose
    <3> QED
      BY <3>1, <3>2
  <2>2. Weakens(g, rule, signals.lose, tick)
    <3>1. ASSUME ~Weakens(g, rule, signals.lose, tick)
          PROVE FALSE
      <4>1. Weaken(g, rule, signals.lose, tick) = g
        BY <3>1 DEF Weaken
      <4> QED
        BY <1>5, <1>8, <4>1
    <3> QED
      BY <3>1
  <2>3. x = 1
    <3>1. ASSUME x > 1
          PROVE FALSE
      <4>1. Weaken(g, rule, signals.lose, tick) = [g EXCEPT !.strength = x - 1]
        BY <2>1, <2>2, <3>1 DEF Weaken
      <4>2. [g EXCEPT !.strength = x - 1].strength = x - 1
        BY DEF DendriteStates
      <4>3. x - 1 = 0
        BY <1>8, <4>1, <4>2 DEF Loose
      <4> QED
        BY <2>1, <3>1, <4>3
    <3> QED
      BY <2>1, <3>1
  <2>4. Weaken(g, rule, signals.lose, tick)
          = [g EXCEPT !.strength = 0, !.susceptibility = 0,
                      !.stw = 0, !.ltw = 0]
    BY <2>1, <2>2, <2>3 DEF Weaken
  <2>5. LET e == Weaken(g, rule, signals.lose, tick) IN
        e.susceptibility = 0 /\ e.stw = 0 /\ e.ltw = 0
    BY <2>4 DEF DendriteStates
  <2>6. Loosens(d, rule, signals, tick)
    BY <1>5, <2>1, <2>2, <2>3 DEF Loosens
  <2> QED
    BY <2>5, <2>6
<1> QED
  BY <1>5, <1>6, <1>7, <1>8

-------------------------------------------------------------------------------
(* Sources.                                                                *)

\* The first of a set of positions exists.
LEMMA MinIsFirst ==
  ASSUME NEW S, S \subseteq Nat, S # {}
  PROVE Min(S) \in S /\ \A k \in S : Min(S) <= k
<1>1. PICK m \in S : \A k \in S : <<k, m>> \notin OpToRel(<, Nat)
  BY WFMin, NatLessThanWellFounded, Zenon
<1>2. \A k \in S : k \in Nat /\ ~(k < m)
  BY <1>1, Zenon DEF OpToRel
<1>3. m \in Nat
  BY <1>1, <1>2
<1>4. ASSUME NEW k \in S
      PROVE m <= k
  <2>1. k \in Nat /\ ~(k < m)
    BY <1>2
  <2> QED
    BY <1>3, <2>1
<1> QED
  BY <1>1, <1>4, Zenon DEF Min

\* A neuron that attaches a loose dendrite never ends up with two attached
\* dendrites from one source, although the loose one may have come from that
\* source and other loose ones still name it; no attached dendrite changes
\* (the repair loop of update_late_phase).
THEOREM AttachKeepsSourcesDistinct ==
  ASSUME NEW neuron \in NeuronStates, NEW rule \in DendriteRules,
         NEW selected \in Nat, NEW r1 \in Nat, NEW r2 \in Nat,
         DistinctSources(neuron.dendrites)
  PROVE LET after == AttachLoose(neuron, rule, selected, r1, r2).dendrites IN
        /\ DistinctSources(after)
        /\ \A i \in DOMAIN neuron.dendrites :
             ~Loose(neuron.dendrites[i]) => after[i] = neuron.dendrites[i]
<1> DEFINE ds == neuron.dendrites
           first == Min(LooseOnes(ds))
<1>1. ds \in Seq(DendriteStates)
  BY DEF NeuronStates
<1>2. CASE \/ neuron.firing = 0
           \/ LooseOnes(ds) = {}
           \/ Duplicate(ds, selected)
  <2>1. AttachLoose(neuron, rule, selected, r1, r2) = neuron
    BY <1>2 DEF AttachLoose
  <2> QED
    BY <2>1
<1>3. CASE ~(\/ neuron.firing = 0
             \/ LooseOnes(ds) = {}
             \/ Duplicate(ds, selected))
  <2>1. first \in DOMAIN ds /\ Loose(ds[first])
    <3>1. LooseOnes(ds) \subseteq Nat
      BY <1>1 DEF LooseOnes
    <3>2. first \in LooseOnes(ds)
      BY <1>3, <3>1, MinIsFirst
    <3> QED
      BY <3>2 DEF LooseOnes
  <2> HIDE DEF first
  <2>2. PICK e : /\ e = Connected(ds[first], selected, rule, r1, r2)
                 /\ e.source = selected
    <3>1. ds[first] \in DendriteStates
      BY <1>1, <2>1
    <3>2. Connected(ds[first], selected, rule, r1, r2).source = selected
      BY <3>1 DEF Connected, DendriteStates
    <3> QED
      BY <3>2
  <2>3. AttachLoose(neuron, rule, selected, r1, r2).dendrites
          = [ds EXCEPT ![first] = e]
    BY <1>1, <1>3, <2>1, <2>2 DEF AttachLoose, NeuronStates, first
  <2>4. \A i \in DOMAIN ds : ~Loose(ds[i]) => ds[i].source # selected
    BY <1>3 DEF Duplicate, LooseOnes
  <2>5. DistinctSources([ds EXCEPT ![first] = e])
    BY <1>1, <2>1, <2>2, <2>4 DEF DistinctSources
  <2>6. \A i \in DOMAIN ds : ~Loose(ds[i]) => [ds EXCEPT ![first] = e][i] = ds[i]
    BY <1>1, <2>1
  <2> QED
    BY <2>3, <2>5, <2>6
<1> QED
  BY <1>2, <1>3

\* Neurons that migrate onto neurons that fire get distinct sources, as long
\* as the list of those names no neuron twice: the run of sources is as long
\* as the dendrites, and a neuron left without one gives up all of its
\* dendrites at once (select_non_overlapping_migration_targets).
THEOREM MigrationKeepsSourcesDistinct ==
  ASSUME NEW dendrites \in Seq(DendriteStates), DistinctSources(dendrites),
         NEW rule \in DendriteRules, NEW others, NEW copyOf,
         NEW active \in Seq(Nat),
         \A i, j \in DOMAIN active : active[i] = active[j] => i = j,
         NEW r1, NEW r2
  PROVE LET after == Migrate(dendrites, rule, active, others, copyOf, r1, r2)
        IN DistinctSources(after) /\ DOMAIN after = DOMAIN dendrites
<1> DEFINE n == Len(dendrites)
           Sources(start) == [i \in 1 .. n |-> active[start + i - 1]]
           good == {start \in 1 .. Len(active) - n + 1 :
                      /\ CopiesApart(Sources(start), copyOf)
                      /\ \A o \in others : ~SameTargets(o, Sources(start))}
           after == Migrate(dendrites, rule, active, others, copyOf, r1, r2)
<1>1. n \in Nat /\ DOMAIN dendrites = 1 .. n
  OBVIOUS
<1>2. CASE n > Len(active)
  <2>1. after = dendrites
    BY <1>2 DEF Migrate
  <2> QED
    BY <2>1
<1>3. ASSUME ~(n > Len(active))
      PROVE /\ DOMAIN after = DOMAIN dendrites
            /\ \A i \in DOMAIN dendrites :
                 after[i] = IF good # {}
                            THEN Connected(dendrites[i],
                                           Sources(Min(good))[i], rule,
                                           r1[i], r2[i])
                            ELSE [dendrites[i] EXCEPT !.stw = 0, !.ltw = 0,
                                                      !.strength = 0]
  <2>1. after = [i \in DOMAIN dendrites |->
                   IF good # {}
                   THEN Connected(dendrites[i], Sources(Min(good))[i], rule,
                                  r1[i], r2[i])
                   ELSE [dendrites[i] EXCEPT !.stw = 0, !.ltw = 0,
                                             !.strength = 0]]
    BY <1>3, Zenon DEF Migrate
  <2> HIDE DEF after, good
  <2> QED
    BY <2>1, Zenon
<1>4. CASE ~(n > Len(active)) /\ good # {}
  <2>1. PICK start \in 1 .. Len(active) - n + 1 : start = Min(good)
    <3>1. good \subseteq Nat
      OBVIOUS
    <3>2. Min(good) \in good
      BY <1>4, <3>1, MinIsFirst
    <3> QED
      BY <3>2
  <2>2. DOMAIN after = DOMAIN dendrites
    BY <1>3, <1>4
  <2>3. ASSUME NEW i \in DOMAIN dendrites
        PROVE after[i].source = active[start + i - 1]
              /\ start + i - 1 \in DOMAIN active
    <3>1. dendrites[i] \in DendriteStates
      OBVIOUS
    <3>2. after[i] = Connected(dendrites[i], Sources(start)[i], rule,
                               r1[i], r2[i])
      <4> HIDE DEF after, good, Sources
      <4> QED
        BY <1>3, <1>4, <2>1, Zenon
    <3>3. Sources(start)[i] = active[start + i - 1]
      BY <1>1
    <3>4. after[i].source = active[start + i - 1]
      <4>1. \A source : Connected(dendrites[i], source, rule, r1[i], r2[i]).source
                          = source
        BY <3>1 DEF Connected, DendriteStates
      <4> HIDE DEF after, Sources
      <4> QED
        BY <3>2, <3>3, <4>1, Zenon
    <3>5. start + i - 1 \in DOMAIN active
      BY <1>1, <1>4
    <3> QED
      BY <3>4, <3>5
  <2> HIDE DEF after, good
  <2>4. ASSUME NEW i \in DOMAIN dendrites, NEW j \in DOMAIN dendrites,
               after[i].source = after[j].source
        PROVE i = j
    <3>1. start + i - 1 = start + j - 1
      BY <2>3, <2>4
    <3> QED
      BY <1>1, <3>1
  <2>5. DistinctSources(after) /\ DOMAIN after = DOMAIN dendrites
    BY <2>2, <2>4 DEF DistinctSources
  <2> QED
    BY <2>5 DEF after
<1>5. CASE ~(n > Len(active)) /\ good = {}
  <2>1. ASSUME NEW i \in DOMAIN dendrites
        PROVE Loose(after[i])
    <3>1. after[i] = [dendrites[i] EXCEPT !.stw = 0, !.ltw = 0, !.strength = 0]
      <4> HIDE DEF after, good
      <4> QED
        BY <1>3, <1>5, Zenon
    <3>2. Loose([dendrites[i] EXCEPT !.stw = 0, !.ltw = 0, !.strength = 0])
      BY DEF Loose, DendriteStates
    <3> HIDE DEF after
    <3> QED
      BY <3>1, <3>2, Zenon
  <2>2. DOMAIN after = DOMAIN dendrites
    BY <1>3, <1>5
  <2> HIDE DEF after
  <2>3. DistinctSources(after) /\ DOMAIN after = DOMAIN dendrites
    BY <2>1, <2>2 DEF DistinctSources
  <2> QED
    BY <2>3 DEF after
<1> QED
  BY <1>2, <1>4, <1>5

-------------------------------------------------------------------------------
(* Winner takes all.                                                       *)

\* After a winner-take-all pass no two neurons fire, equals included, no
\* excluded neuron does, and the one that does is at least as strong as every
\* other candidate was (the pass of Lobe::update_late_phase).
THEOREM OneWinner ==
  ASSUME NEW count \in Nat, NEW neurons \in [1 .. count -> NeuronStates],
         NEW i \in 1 .. count, WinnerTakesAll(neurons)[i].firing # 0
  PROVE /\ \A j \in 1 .. count :
             WinnerTakesAll(neurons)[j].firing # 0 => j = i
        /\ ~neurons[i].excluded
        /\ WinnerTakesAll(neurons)[i] = neurons[i]
        /\ \A j \in 1 .. count :
             ~neurons[j].excluded => neurons[j].firing <= neurons[i].firing
<1>1. ASSUME NEW j \in 1 .. count, WinnerTakesAll(neurons)[j].firing # 0
      PROVE Wins(neurons, j) /\ WinnerTakesAll(neurons)[j] = neurons[j]
  <2>1. CASE Wins(neurons, j)
    BY <2>1 DEF WinnerTakesAll
  <2>2. CASE ~Wins(neurons, j)
    <3>1. WinnerTakesAll(neurons)[j] = [neurons[j] EXCEPT !.firing = 0]
      BY <2>2 DEF WinnerTakesAll
    <3>2. [neurons[j] EXCEPT !.firing = 0].firing = 0
      BY DEF NeuronStates
    <3> QED
      BY <1>1, <3>1, <3>2
  <2> QED
    BY <2>1, <2>2
<1>2. Wins(neurons, i) /\ WinnerTakesAll(neurons)[i] = neurons[i]
  BY <1>1
<1>3. ASSUME NEW j \in 1 .. count, WinnerTakesAll(neurons)[j].firing # 0
      PROVE j = i
  <2>1. Wins(neurons, j)
    BY <1>1, <1>3
  <2>2. neurons[i].firing \in Nat /\ neurons[j].firing \in Nat
    <3>1. neurons[i].firing \in Byte /\ neurons[j].firing \in Byte
      BY DEF NeuronStates
    <3> QED
      BY <3>1, ByteRange
  <2>3. neurons[i].firing <= neurons[j].firing
        /\ neurons[j].firing <= neurons[i].firing
    BY <1>2, <2>1 DEF Wins
  <2>4. neurons[i].firing = neurons[j].firing
    BY <2>2, <2>3
  <2>5. i <= j /\ j <= i
    BY <1>2, <2>1, <2>4 DEF Wins
  <2> QED
    BY <2>5
<1> QED
  BY <1>2, <1>3 DEF Wins

-----------------------------------------------------------------------------
(***************************************************************************)
(* The lobes, for every gene, draw and set of loose neurons: a lobe fits the*)
(* extended grid, a dendrite's source is a neuron of its lobe, and the walk of*)
(* migration passes no neuron by.                                          *)
(***************************************************************************)

-------------------------------------------------------------------------------
(* Division.                                                               *)

LEMMA DivideOnce ==
  ASSUME NEW x \in Nat, NEW n \in Nat \ {0}
  PROVE /\ x \div n \in Nat
        /\ x % n \in 0 .. n - 1
        /\ x = n * (x \div n) + (x % n)
OBVIOUS

\* Multiples of ordered numbers are ordered the same way.
LEMMA MultiplesMonotone ==
  ASSUME NEW a \in Int, NEW b \in Int, NEW n \in Nat, a <= b
  PROVE a * n <= b * n
<1>1. b - a \in Nat
  OBVIOUS
<1>2. (b - a) * n \in Nat
  BY <1>1
<1>3. (b - a) * n = b * n - a * n
  OBVIOUS
<1> QED
  BY <1>2, <1>3

-------------------------------------------------------------------------------
(* Wiring.                                                                 *)

LEMMA ClampedRange ==
  ASSUME NEW coordinate \in Int, NEW extent \in Nat \ {0}
  PROVE Clamped(coordinate, extent) \in 0 .. extent - 1
BY DEF Clamped

\* A neuron's own place in its source lobe is a neuron of that lobe.
LEMMA CanonicalRange ==
  ASSUME NEW count \in Nat \ {0}, NEW n \in 0 .. count - 1,
         NEW area \in Nat \ {0}
  PROVE Canonical(n, count, area) \in 0 .. area - 1
<1>1. n * area \in Nat
  OBVIOUS
<1>2. PICK q \in Nat, r \in 0 .. count - 1 :
        q = (n * area) \div count /\ n * area = count * q + r
  <2>1. /\ (n * area) \div count \in Nat
        /\ (n * area) % count \in 0 .. count - 1
        /\ n * area = count * ((n * area) \div count) + ((n * area) % count)
    BY <1>1, DivideOnce
  <2> QED
    BY <2>1
<1>3. ASSUME q >= area
      PROVE FALSE
  <2>1. area * count <= q * count
    BY <1>3, MultiplesMonotone
  <2>2. n * area <= (count - 1) * area
    BY MultiplesMonotone
  <2>3. (count - 1) * area = count * area - area
    OBVIOUS
  <2>4. count * q = q * count /\ area * count = count * area
    OBVIOUS
  <2>5. n * area \in Int /\ count * q \in Int /\ count * area \in Int
    OBVIOUS
  <2> QED
    BY <1>2, <2>1, <2>2, <2>3, <2>4, <2>5
<1>4. q \in 0 .. area - 1
  BY <1>3
<1> QED
  BY <1>2, <1>4 DEF Canonical

LEMMA CellRange ==
  ASSUME NEW width \in Nat \ {0}, NEW height \in Nat \ {0},
         NEW x \in 0 .. width - 1, NEW y \in 0 .. height - 1
  PROVE y * width + x \in 0 .. width * height - 1
<1>1. y * width <= (height - 1) * width
  BY MultiplesMonotone
<1>2. (height - 1) * width = width * height - width
  OBVIOUS
<1>3. y * width \in Nat /\ width * height \in Nat
  OBVIOUS
<1> QED
  BY <1>1, <1>2, <1>3

\* However far a draw spreads a dendrite, its source is a neuron of the
\* source lobe, so that no dendrite of a new brain points past the array
\* (initialize_connections).
THEOREM WiringStaysInLobe ==
  ASSUME NEW source \in [width : Nat \ {0}, height : Nat \ {0}],
         NEW count \in Nat \ {0}, NEW n \in 0 .. count - 1,
         NEW dx \in Int, NEW dy \in Int
  PROVE LET area == source.width * source.height IN
        WiredTo(source, Canonical(n, count, area), dx, dy) \in 0 .. area - 1
<1>1. PICK w \in Nat \ {0}, h \in Nat \ {0} :
        w = source.width /\ h = source.height
  OBVIOUS
<1>2. w * h \in Nat \ {0}
  <2>1. 1 * h <= w * h
    BY MultiplesMonotone
  <2>2. w * h \in Nat /\ 1 * h = h
    OBVIOUS
  <2> QED
    BY <2>1, <2>2
<1>3. PICK c \in Nat : c = Canonical(n, count, w * h)
  <2>1. Canonical(n, count, w * h) \in 0 .. w * h - 1
    BY <1>2, CanonicalRange
  <2> QED
    BY <1>2, <2>1
<1>4. PICK y \in 0 .. h - 1 : y = Clamped((c \div w) + dy, h)
  <2>1. (c \div w) + dy \in Int
    BY DivideOnce
  <2>2. Clamped((c \div w) + dy, h) \in 0 .. h - 1
    BY <2>1, ClampedRange
  <2> QED
    BY <2>2
<1>5. PICK x \in 0 .. w - 1 : x = Clamped((c % w) + dx, w)
  <2>1. (c % w) + dx \in Int
    BY DivideOnce
  <2>2. Clamped((c % w) + dx, w) \in 0 .. w - 1
    BY <2>1, ClampedRange
  <2> QED
    BY <2>2
<1>6. y * w + x \in 0 .. w * h - 1
  BY CellRange
<1> QED
  BY <1>1, <1>3, <1>4, <1>5, <1>6, Zenon DEF WiredTo

-------------------------------------------------------------------------------
(* Geometry.                                                               *)

LEMMA ExtentRange ==
  ASSUME NEW encoded \in Byte
  PROVE GridExtent(encoded) \in 1 .. 63
<1>1. encoded \in Nat
  BY ByteRange
<1> QED
  BY <1>1 DEF GridExtent

LEMMA AreaRange ==
  ASSUME NEW lobe \in Nat
  PROVE MinimumArea(lobe) \in 0 .. 40
BY DEF MinimumArea

LEMMA WidenedRange ==
  ASSUME NEW width \in 1 .. 63, NEW height \in 1 .. 63, NEW area \in 0 .. 40
  PROVE /\ Widened(width, height, area) \in 1 .. 63
        /\ area <= Widened(width, height, area) * height
<1>1. CASE width * height >= area
  BY <1>1 DEF Widened
<1>2. CASE ~(width * height >= area)
  <2>1. PICK q \in Nat, r \in 0 .. height - 1 :
          /\ q = (area + height - 1) \div height
          /\ area + height - 1 = height * q + r
    <3>1. area + height - 1 \in Nat
      OBVIOUS
    <3> QED
      BY <3>1, DivideOnce
  <2>2. height * q \in Nat /\ q * height = height * q
    OBVIOUS
  <2>3. area <= q * height
    BY <2>1, <2>2
  <2>4. width * height \in Nat /\ 1 * height <= width * height
    BY MultiplesMonotone
  <2>5. area >= 1
    BY <1>2, <2>4
  <2>6. q # 0
    BY <2>2, <2>3, <2>5
  <2>7. q <= 40
    <3>1. ASSUME q >= 41
          PROVE FALSE
      <4>1. (q - 1) * 1 <= (q - 1) * height
        <5>1. 1 * (q - 1) <= height * (q - 1)
          BY <3>1, MultiplesMonotone
        <5> QED
          BY <5>1
      <4>2. (q - 1) * height = height * q - height
        OBVIOUS
      <4> QED
        BY <2>1, <2>2, <3>1, <4>1, <4>2
    <3> QED
      BY <3>1
  <2>8. Widened(width, height, area) = q
    BY <1>2, <2>1 DEF Widened
  <2> QED
    BY <2>3, <2>6, <2>7, <2>8
<1> QED
  BY <1>1, <1>2

\* On the extended grid every lobe lies within the grid at its final size,
\* whatever its genes, so that a neuron's place fits the byte of the brain
\* report; no subtraction of unsigned offsets wraps; and the lobes with a
\* fixed use have the neurons that the code addresses (Lobe::load_genome).
THEOREM LobesFitExtendedGrid ==
  ASSUME NEW lobe \in Nat,
         NEW gene \in [x : Byte, y : Byte, width : Byte, height : Byte]
  PROVE LET place == Placed(lobe, gene, TRUE) IN
        /\ place.width \in 1 .. 63 /\ place.height \in 1 .. 63
        /\ place.x \in Nat /\ place.x + place.width <= ExtendedGrid
        /\ place.y \in Nat /\ place.y + place.height <= ExtendedGrid
        /\ MinimumArea(lobe) <= place.width * place.height
<1>1. PICK x \in Nat, y \in Nat : x = gene.x /\ y = gene.y
  BY ByteRange
<1>2. PICK w0 \in 1 .. 63, h0 \in 1 .. 63 :
        w0 = GridExtent(gene.width) /\ h0 = GridExtent(gene.height)
  <2>1. gene.width \in Byte /\ gene.height \in Byte
    OBVIOUS
  <2> QED
    BY <2>1, ExtentRange
<1>3. PICK a \in 0 .. 40 : a = MinimumArea(lobe)
  BY AreaRange
<1>4. PICK wide \in 1 .. 63 : wide = Widened(w0, h0, a) /\ a <= wide * h0
  BY WidenedRange
<1>5. ASSUME NEW w \in 1 .. 63, NEW h \in 1 .. 63, NEW o \in Nat
      PROVE /\ PulledBack(o, w, ExtendedGrid) \in Nat
            /\ PulledBack(o, w, ExtendedGrid) + w <= ExtendedGrid
  BY DEF PulledBack, ExtendedGrid
<1>6. PICK w \in 1 .. 63, h \in 1 .. 63 :
        /\ w = IF a # 0 /\ wide * h0 > 1024 THEN 32 ELSE wide
        /\ h = IF a # 0 /\ wide * h0 > 1024 THEN 32 ELSE h0
        /\ a <= w * h
  <2>1. CASE a # 0 /\ wide * h0 > 1024
    BY <2>1
  <2>2. CASE ~(a # 0 /\ wide * h0 > 1024)
    BY <1>4, <2>2
  <2> QED
    BY <2>1, <2>2
<1>7. /\ Placed(lobe, gene, TRUE).x = PulledBack(x, w, ExtendedGrid)
      /\ Placed(lobe, gene, TRUE).y = PulledBack(y, h, ExtendedGrid)
      /\ Placed(lobe, gene, TRUE).width = w
      /\ Placed(lobe, gene, TRUE).height = h
  <2> HIDE DEF ExtendedGrid
  <2>1. CASE a # 0 /\ wide * h0 > 1024
    BY <1>1, <1>2, <1>3, <1>4, <1>6, <2>1 DEF Placed, GridOffset
  <2>2. CASE ~(a # 0 /\ wide * h0 > 1024)
    BY <1>1, <1>2, <1>3, <1>4, <1>6, <2>2 DEF Placed, GridOffset
  <2> QED
    BY <2>1, <2>2
<1>8. /\ PulledBack(x, w, ExtendedGrid) \in Nat
      /\ PulledBack(x, w, ExtendedGrid) + w <= ExtendedGrid
      /\ PulledBack(y, h, ExtendedGrid) \in Nat
      /\ PulledBack(y, h, ExtendedGrid) + h <= ExtendedGrid
  BY <1>5
<1>9. PICK place : place = Placed(lobe, gene, TRUE)
  OBVIOUS
<1>10. place.width \in 1 .. 63 /\ place.height \in 1 .. 63
  BY <1>7, <1>9, Zenon
<1>11. /\ place.x \in Nat /\ place.x + place.width <= ExtendedGrid
       /\ place.y \in Nat /\ place.y + place.height <= ExtendedGrid
  BY <1>7, <1>8, <1>9, Zenon
<1>12. MinimumArea(lobe) <= place.width * place.height
  BY <1>3, <1>6, <1>7, <1>9, Zenon
<1> QED
  BY <1>9, <1>10, <1>11, <1>12, Zenon

-------------------------------------------------------------------------------
(* The walk of migration.                                                  *)

LEMMA MaxIsLast ==
  ASSUME NEW S, NEW bound \in Nat, S \subseteq 0 .. bound, S # {}
  PROVE Max(S) \in S /\ \A k \in S : k <= Max(S)
<1> DEFINE gaps == {g \in 0 .. bound : bound - g \in S}
<1>1. gaps \subseteq Nat /\ gaps # {}
  <2>1. PICK k \in S : k \in 0 .. bound
    OBVIOUS
  <2>2. bound - k \in 0 .. bound /\ bound - (bound - k) = k
    BY <2>1
  <2> QED
    BY <2>1, <2>2
<1>2. Min(gaps) \in gaps /\ \A g \in gaps : Min(gaps) <= g
  BY <1>1, MinIsFirst
<1>3. PICK m \in S : m \in 0 .. bound /\ bound - m = Min(gaps)
  <2>1. PICK g \in 0 .. bound : g = Min(gaps) /\ bound - g \in S
    BY <1>2
  <2>2. bound - g \in 0 .. bound /\ bound - (bound - g) = g
    OBVIOUS
  <2> QED
    BY <2>1, <2>2
<1>4. ASSUME NEW k \in S
      PROVE k <= m
  <2>0. k \in 0 .. bound
    OBVIOUS
  <2>1. bound - k \in gaps
    <3>1. bound - k \in 0 .. bound /\ bound - (bound - k) = k
      BY <2>0
    <3> QED
      BY <3>1
  <2>2. bound - m <= bound - k
    BY <1>2, <1>3, <2>1
  <2> QED
    BY <1>3, <2>0, <2>2
<1> QED
  BY <1>3, <1>4, Zenon DEF Max

\* The neuron chosen for migration has loose dendrites, lies below the last
\* one, and no loose neuron between the two is passed by; only when there is
\* none below does the walk start again from the top (the candidates of
\* update_late_phase).
THEOREM NoLooseNeuronIsPassed ==
  ASSUME NEW loose, loose \subseteq Nat, NEW stored \in Nat
  PROVE LET next == NextCandidate(loose, stored) IN
        IF \E n \in loose : n < stored
        THEN /\ next \in loose /\ next < stored
             /\ \A n \in loose : n < stored => n <= next
        ELSE next = NoCandidate
<1> DEFINE C == Candidates(loose, stored)
<1>1. C = {n \in loose : n < stored}
  BY DEF Candidates
<1>2. CASE C = {}
  BY <1>1, <1>2 DEF NextCandidate
<1>3. CASE C # {}
  <2>1. C \subseteq 0 .. stored
    <3>1. ASSUME NEW k \in C
          PROVE k \in 0 .. stored
      <4>1. k \in Nat /\ k < stored
        BY <1>1
      <4> QED
        BY <4>1
    <3> QED
      BY <3>1
  <2>2. Max(C) \in C /\ \A k \in C : k <= Max(C)
    BY <1>3, <2>1, MaxIsLast
  <2>3. NextCandidate(loose, stored) = Max(C)
    BY <1>3 DEF NextCandidate
  <2> HIDE DEF C
  <2> QED
    BY <1>1, <1>3, <2>2, <2>3
<1> QED
  BY <1>2, <1>3

-------------------------------------------------------------------------------
(* The archive.                                                            *)

\* A dendrite keeps its source when its creature is saved and loaded; a
\* source the archive cannot have meant is dropped, never followed; and the
\* dendrites of a neuron lie within the lobe's array (Brain::serialize).
THEOREM SourcesSurviveArchive ==
  ASSUME NEW lobes, NEW lobe \in DOMAIN lobes, lobes[lobe] \in Nat,
         NEW source \in 0 .. lobes[lobe] - 1, NEW archived \in Int,
         NEW begin \in Nat, NEW count \in Byte, NEW total \in Nat
  PROVE /\ RestoredSource(ArchivedSource(source, lobes[lobe]), lobe, lobes)
             = source
        /\ RestoredSource(archived, lobe, lobes)
             \in {NoSource} \cup 0 .. lobes[lobe] - 1
        /\ \A i \in DOMAIN RestoredRange(begin, count, total) :
             RestoredRange(begin, count, total)[i] \in 1 .. total
<1>1. RestoredSource(ArchivedSource(source, lobes[lobe]), lobe, lobes) = source
  BY DEF RestoredSource, ArchivedSource
<1>2. RestoredSource(archived, lobe, lobes)
        \in {NoSource} \cup 0 .. lobes[lobe] - 1
  BY DEF RestoredSource
<1>3. ASSUME NEW i \in DOMAIN RestoredRange(begin, count, total)
      PROVE RestoredRange(begin, count, total)[i] \in 1 .. total
  <2>1. count \in Nat
    BY ByteRange
  <2>2. CASE total # 0 /\ begin + count <= total
    BY <1>3, <2>1, <2>2 DEF RestoredRange
  <2>3. CASE ~(total # 0 /\ begin + count <= total)
    BY <1>3, <2>3 DEF RestoredRange
  <2> QED
    BY <2>2, <2>3
<1> QED
  BY <1>1, <1>2, <1>3

-------------------------------------------------------------------------------
(* Rules of any length.                                                    *)

\* What a rule is worth from token i on, where u and v say what it is worth from the two after it.
FromToken(tokens, registers, i, a, u, v) ==
  IF tokens[i] = EndToken THEN a
  ELSE IF tokens[i] < FirstOperator THEN u[registers[tokens[i]]]
  ELSE IF tokens[i] = 22
       THEN IF a = 0 THEN 0 ELSE u[a]
  ELSE IF tokens[i] \in 23 .. 25
       THEN IF i = Len(tokens) THEN a
            ELSE v[Binary(tokens[i], a, Operand(registers, tokens[i + 1]))]
  ELSE u[Unary(tokens[i], a)]

Tokens == 0 .. 29
Registers == [0 .. 21 -> Byte]

LEMMA ZeroIsByte == 0 \in Byte
BY DEF Byte

LEMMA OperandIsByte ==
  ASSUME NEW registers \in Registers, NEW t \in Tokens
  PROVE  Operand(registers, t) \in Byte
BY DEF Operand, Registers, Tokens, FirstOperator, Byte

LEMMA BinaryIsByte ==
  ASSUME NEW t, NEW a \in Byte, NEW b \in Byte
  PROVE  Binary(t, a, b) \in Byte
<1>1. a * b \in Nat /\ a * b <= 255 * 255
  BY DEF Byte
<1>2. (a * b) \div 256 \in Byte
  BY <1>1 DEF Byte
<1> QED  BY <1>2 DEF Binary, SaturatingAdd, SaturatingSubtract, Byte

LEMMA UnaryIsByte ==
  ASSUME NEW t, NEW a \in Byte
  PROVE  Unary(t, a) \in Byte
BY DEF Unary, SaturatingAdd, SaturatingSubtract, Byte

LEMMA FromTokenIsByte ==
  ASSUME NEW tokens \in Seq(Tokens), NEW registers \in Registers, NEW i \in 1 .. Len(tokens),
         NEW a \in Byte, NEW u \in [Byte -> Byte], NEW v \in [Byte -> Byte]
  PROVE  FromToken(tokens, registers, i, a, u, v) \in Byte
<1>1. tokens[i] \in Tokens /\ (i # Len(tokens) => tokens[i + 1] \in Tokens)
  OBVIOUS
<1>2. tokens[i] < FirstOperator => registers[tokens[i]] \in Byte
  <2>1. \A t \in Tokens : t < FirstOperator => registers[t] \in Byte
    BY DEF Tokens, Registers, FirstOperator
  <2> QED  BY <1>1, <2>1
<1>3. i # Len(tokens) => Binary(tokens[i], a, Operand(registers, tokens[i + 1])) \in Byte
  BY <1>1, OperandIsByte, BinaryIsByte
<1>4. Unary(tokens[i], a) \in Byte
  BY UnaryIsByte
<1> QED  BY <1>2, <1>3, <1>4, ZeroIsByte DEF FromToken

LEMMA RuleValues ==
  ASSUME NEW tokens \in Seq(Tokens), NEW registers \in Registers
  PROVE  \E value \in [1 .. Len(tokens) + 1 -> [Byte -> Byte]] :
           /\ EvaluateRule(tokens, registers) = value[1][0]
           /\ \A a \in Byte : value[Len(tokens) + 1][a] = a
           /\ \A i \in 1 .. Len(tokens), a \in Byte :
                value[i][a] = FromToken(tokens, registers, i, a, value[i + 1],
                                        IF i = Len(tokens) THEN value[i + 1] ELSE value[i + 2])
<1> DEFINE n == Len(tokens)
           Is(f) == f = [i \in 1 .. Len(tokens) + 1 |-> [accumulator \in Byte |->
        IF i > Len(tokens) THEN accumulator
        ELSE LET token == tokens[i] IN
          IF token = EndToken THEN accumulator
          ELSE IF token < FirstOperator THEN f[i + 1][registers[token]]
          ELSE IF token = 22
               THEN IF accumulator = 0 THEN 0 ELSE f[i + 1][accumulator]
          ELSE IF token \in 23 .. 25
               THEN IF i = Len(tokens) THEN accumulator
                    ELSE f[i + 2][Binary(token, accumulator,
                                Operand(registers, tokens[i + 1]))]
          ELSE f[i + 1][Unary(token, accumulator)]]]
           m == CHOOSE f : Is(f)
<1>1. EvaluateRule(tokens, registers) = m[1][0]
  BY DEF EvaluateRule
<1>2. n \in Nat
  OBVIOUS
<1>3. \E f : Is(f)
  <2> DEFINE V == [Byte -> Byte] \X [Byte -> Byte]
             base == <<[a \in Byte |-> a], [a \in Byte |-> a]>>
             step == [k \in 1 .. n |-> [w \in V |->
                        <<[a \in Byte |-> FromToken(tokens, registers, n + 1 - k, a, w[1], w[2])],
                          w[1]>>]]
  <2>1. base \in V
    OBVIOUS
  <2>2. \A k \in 1 .. n : \A w \in V :
          <<[a \in Byte |-> FromToken(tokens, registers, n + 1 - k, a, w[1], w[2])], w[1]>> \in V
    <3>1. SUFFICES ASSUME NEW k \in 1 .. n, NEW w \in V
                   PROVE  [a \in Byte |-> FromToken(tokens, registers, n + 1 - k, a, w[1], w[2])]
                            \in [Byte -> Byte]
      OBVIOUS
    <3>2. n + 1 - k \in 1 .. Len(tokens)
      OBVIOUS
    <3>3. w[1] \in [Byte -> Byte] /\ w[2] \in [Byte -> Byte]
      OBVIOUS
    <3> HIDE DEF n, V
    <3>4. \A a \in Byte : FromToken(tokens, registers, n + 1 - k, a, w[1], w[2]) \in Byte
      BY <3>2, <3>3, FromTokenIsByte
    <3> QED  BY <3>4
  <2>3. step \in [1 .. n -> [V -> V]]
    <3> HIDE DEF V
    <3> QED  BY <2>2
  <2>4. \A k \in 1 .. n : \A w \in V :
          step[k][w] = <<[a \in Byte |-> FromToken(tokens, registers, n + 1 - k, a, w[1], w[2])],
                         w[1]>>
    <3> HIDE DEF V
    <3> QED  OBVIOUS
  <2>5. PICK g : FoldsIn(V, g, base, step, n)
    <3> HIDE DEF n, V, base, step, Is
    <3> QED  BY <1>2, <2>1, <2>3, FoldExists
  <2>6. /\ g \in [0 .. n -> V] /\ g[0] = base
        /\ \A k \in 1 .. n : g[k] =
             <<[a \in Byte |-> FromToken(tokens, registers, n + 1 - k, a, g[k - 1][1], g[k - 1][2])],
               g[k - 1][1]>>
    <3> HIDE DEF n, V, base, step
    <3>1. g \in [0 .. n -> V] /\ g[0] = base /\ \A k \in 1 .. n : g[k] = step[k][g[k - 1]]
      BY <2>5 DEF FoldsIn
    <3>2. \A k \in 1 .. n : g[k - 1] \in V
      BY <1>2, <3>1
    <3> QED  BY <2>4, <3>1, <3>2
  <2> DEFINE f == [i \in 1 .. n + 1 |-> g[n + 1 - i][1]]
  <2>7. \A i \in 1 .. n + 1 : f[i] = g[n + 1 - i][1]
    OBVIOUS
  <2>8. f[n + 1] = [a \in Byte |-> a]
    BY <2>6, <2>7, <1>2
  <2>9. ASSUME NEW i \in 1 .. n
        PROVE  f[i] = [a \in Byte |-> FromToken(tokens, registers, i, a, f[i + 1],
                                         IF i = n THEN f[i + 1] ELSE f[i + 2])]
    <3>1. n + 1 - i \in 1 .. n /\ n + 1 - (n + 1 - i) = i /\ (n + 1 - i) - 1 = n - i
      BY <1>2
    <3> HIDE DEF n, f, base
    <3>2. g[n + 1 - i] = <<[a \in Byte |-> FromToken(tokens, registers, i, a, g[n - i][1], g[n - i][2])],
                           g[n - i][1]>>
      BY <2>6, <3>1
    <3>3. f[i] = g[n + 1 - i][1]
      BY <2>7, <1>2
    <3>4. i + 1 \in 1 .. n + 1 /\ n + 1 - (i + 1) = n - i
      BY <1>2
    <3>5. f[i + 1] = g[n - i][1]
      BY <2>7, <3>4
    <3>6. g[n - i][2] = IF i = n THEN f[i + 1] ELSE f[i + 2]
      <4>1. CASE i = n
        <5>1. n - i = 0
          BY <4>1, <1>2
        <5>2. g[0][2] = g[0][1]
          BY <2>6 DEF base
        <5> QED  BY <3>5, <4>1, <5>1, <5>2
      <4>2. CASE i # n
        <5>1. n - i \in 1 .. n /\ i + 2 \in 1 .. n + 1 /\ n + 1 - (i + 2) = (n - i) - 1
          BY <4>2, <1>2
        <5>2. g[n - i][2] = g[(n - i) - 1][1]
          <6> DEFINE k == n - i
          <6>1. g[k] = <<[a \in Byte |-> FromToken(tokens, registers, n + 1 - k, a, g[k - 1][1],
                                                   g[k - 1][2])],
                         g[k - 1][1]>>
            <7> HIDE DEF k
            <7> QED  BY <2>6, <5>1 DEF k
          <6> HIDE DEF k
          <6>2. g[k][2] = g[k - 1][1]
            BY <6>1
          <6> QED  BY <6>2 DEF k
        <5>3. f[i + 2] = g[(n - i) - 1][1]
          BY <2>7, <5>1
        <5> QED  BY <4>2, <5>2, <5>3
      <4> QED  BY <4>1, <4>2
    <3> QED  BY <3>2, <3>3, <3>5, <3>6
  <2> HIDE DEF f
  <2>10. ASSUME NEW i \in 1 .. Len(tokens) + 1
         PROVE  f[i] = [accumulator \in Byte |->
        IF i > Len(tokens) THEN accumulator
        ELSE LET token == tokens[i] IN
          IF token = EndToken THEN accumulator
          ELSE IF token < FirstOperator THEN f[i + 1][registers[token]]
          ELSE IF token = 22
               THEN IF accumulator = 0 THEN 0 ELSE f[i + 1][accumulator]
          ELSE IF token \in 23 .. 25
               THEN IF i = Len(tokens) THEN accumulator
                    ELSE f[i + 2][Binary(token, accumulator,
                                Operand(registers, tokens[i + 1]))]
          ELSE f[i + 1][Unary(token, accumulator)]]
    <3>1. CASE i = Len(tokens) + 1
      <4>1. i > Len(tokens)
        BY <3>1
      <4> QED  BY <2>8, <3>1, <4>1
    <3>2. CASE i # Len(tokens) + 1
      <4>1. i \in 1 .. n /\ ~(i > Len(tokens))
        BY <3>2
      <4>2. f[i] = [a \in Byte |-> FromToken(tokens, registers, i, a, f[i + 1],
                                         IF i = n THEN f[i + 1] ELSE f[i + 2])]
        BY <2>9, <4>1
      <4> QED  BY <4>1, <4>2 DEF FromToken
    <3> QED  BY <3>1, <3>2
  <2>11. f = [i \in 1 .. Len(tokens) + 1 |-> f[i]]
    BY DEF f
  <2>12. Is(f)
    BY <2>10, <2>11
  <2> HIDE DEF Is
  <2> QED  BY <2>12
<1>4. Is(m)
  <2> HIDE DEF Is
  <2> QED  BY <1>3
<1>5. /\ DOMAIN m = 1 .. n + 1 /\ m = [i \in 1 .. n + 1 |-> m[i]]
      /\ \A i \in 1 .. n + 1 : m[i] = [accumulator \in Byte |->
        IF i > Len(tokens) THEN accumulator
        ELSE LET token == tokens[i] IN
          IF token = EndToken THEN accumulator
          ELSE IF token < FirstOperator THEN m[i + 1][registers[token]]
          ELSE IF token = 22
               THEN IF accumulator = 0 THEN 0 ELSE m[i + 1][accumulator]
          ELSE IF token \in 23 .. 25
               THEN IF i = Len(tokens) THEN accumulator
                    ELSE m[i + 2][Binary(token, accumulator,
                                Operand(registers, tokens[i + 1]))]
          ELSE m[i + 1][Unary(token, accumulator)]]
  <2> HIDE DEF m
  <2> QED  BY <1>4
<1> HIDE DEF m, Is
<1>6. m[n + 1] = [a \in Byte |-> a]
  <2>1. n + 1 \in 1 .. n + 1 /\ n + 1 > Len(tokens)
    BY <1>2
  <2> QED  BY <1>5, <2>1
<1>7. \A i \in 1 .. n : m[i] = [a \in Byte |-> FromToken(tokens, registers, i, a, m[i + 1],
                                                 IF i = n THEN m[i + 1] ELSE m[i + 2])]
  <2> SUFFICES ASSUME NEW i \in 1 .. n
               PROVE  m[i] = [a \in Byte |-> FromToken(tokens, registers, i, a, m[i + 1],
                                                 IF i = n THEN m[i + 1] ELSE m[i + 2])]
    OBVIOUS
  <2>1. i \in 1 .. n + 1 /\ ~(i > Len(tokens))
    BY <1>2
  <2> QED  BY <1>5, <2>1 DEF FromToken
<1>8. \A i \in 1 .. n + 1 : m[i] \in [Byte -> Byte]
  <2> DEFINE Good == {k \in 0 .. n : m[n + 1 - k] \in [Byte -> Byte]
                                     /\ (k # 0 => m[n + 2 - k] \in [Byte -> Byte])}
  <2>1. 0 \in Good
    <3>2. n + 1 - 0 = n + 1 /\ 0 \in 0 .. n
      BY <1>2
    <3> HIDE DEF n
    <3> QED  BY <1>6, <3>2
  <2>2. \A k \in 1 .. n : k - 1 \in Good => k \in Good
    <3> SUFFICES ASSUME NEW k \in 1 .. n, k - 1 \in Good PROVE k \in Good
      OBVIOUS
    <3> DEFINE i == n + 1 - k
    <3>1. i \in 1 .. n /\ i \in 1 .. Len(tokens) /\ n + 1 - (k - 1) = i + 1 /\ n + 2 - (k - 1) = i + 2
          /\ n + 2 - k = i + 1 /\ (k - 1 = 0 <=> i = n) /\ k \in 0 .. n
      BY <1>2
    <3>2. m[i + 1] \in [Byte -> Byte] /\ (i # n => m[i + 2] \in [Byte -> Byte])
      <4> HIDE DEF i, n
      <4> QED  BY <3>1
    <3> DEFINE v == IF i = n THEN m[i + 1] ELSE m[i + 2]
    <3>3. v \in [Byte -> Byte]
      <4> HIDE DEF i, n
      <4> QED  BY <3>2
    <3>4. m[i] = [a \in Byte |-> FromToken(tokens, registers, i, a, m[i + 1], v)]
      <4> HIDE DEF i
      <4> QED  BY <1>7, <3>1
    <3>5. \A a \in Byte : FromToken(tokens, registers, i, a, m[i + 1], v) \in Byte
      <4> HIDE DEF i, v
      <4> QED  BY <3>1, <3>2, <3>3, FromTokenIsByte
    <3>6. m[i] \in [Byte -> Byte]
      <4> HIDE DEF i, v
      <4> QED  BY <3>4, <3>5
    <3> HIDE DEF n
    <3> QED  BY <3>1, <3>2, <3>6
  <2>3. \A k \in 0 .. n : k \in Good
    <3> HIDE DEF Good, n
    <3> QED  BY <1>2, <2>1, <2>2, NumbersAre
  <2> SUFFICES ASSUME NEW i \in 1 .. n + 1 PROVE m[i] \in [Byte -> Byte]
    OBVIOUS
  <2>4. n + 1 - i \in 0 .. n /\ n + 1 - (n + 1 - i) = i
    BY <1>2
  <2>5. n + 1 - i \in Good
    <3> HIDE DEF Good, n
    <3> QED  BY <2>3, <2>4
  <2> HIDE DEF n
  <2> QED  BY <2>4, <2>5
<1>9. m \in [1 .. n + 1 -> [Byte -> Byte]]
  <2> HIDE DEF n
  <2> QED  BY <1>5, <1>8
<1>10. \A i \in 1 .. n, a \in Byte :
         m[i][a] = FromToken(tokens, registers, i, a, m[i + 1], IF i = n THEN m[i + 1] ELSE m[i + 2])
  <2> HIDE DEF n
  <2> QED  BY <1>7
<1>11. \A a \in Byte : m[n + 1][a] = a
  BY <1>6
<1> QED  BY <1>1, <1>9, <1>10, <1>11

\* Whatever bytes a genome holds for a rule, what the brain computes with it is a byte:
\* eight tokens taken modulo 30, whose operands are bytes (SVRule::evaluate).
THEOREM RulesAreWorthBytes ==
  ASSUME NEW raw \in [1 .. 8 -> Byte], NEW registers \in Registers
  PROVE  EvaluateRule(LoadRule(raw), registers) \in Byte
<1>1. LoadRule(raw) \in Seq(Tokens)
  <2>1. \A i \in 1 .. 10 : (IF i > 8 THEN EndToken ELSE NormalizeRuleToken(raw[i])) \in Tokens
    <3>1. \A b \in Byte : NormalizeRuleToken(b) \in Tokens
      BY DEF NormalizeRuleToken, Tokens, Byte
    <3>2. \A i \in 1 .. 10 : ~(i > 8) => raw[i] \in Byte
      OBVIOUS
    <3>3. EndToken \in Tokens
      BY DEF EndToken, Tokens
    <3> QED  BY <3>1, <3>2, <3>3
  <2> QED  BY <2>1 DEF LoadRule
<1>2. PICK value \in [1 .. Len(LoadRule(raw)) + 1 -> [Byte -> Byte]] :
        EvaluateRule(LoadRule(raw), registers) = value[1][0]
  BY <1>1, RuleValues
<1>3. 1 \in 1 .. Len(LoadRule(raw)) + 1
  BY <1>1
<1> QED  BY <1>2, <1>3, ZeroIsByte

-----------------------------------------------------------------------------
(***************************************************************************)
(* Genomes, for every gene, parent, run length and draw: what a copy may   *)
(* change, that no gene is read twice or never, and that crossing parents that*)
(* have the same genes keeps their order and loses none but those it counts*)
(* as omitted.                                                             *)
(***************************************************************************)

-------------------------------------------------------------------------------
(* Copies.                                                                 *)

LEMMA PowersOfTwo ==
  /\ 2 ^ 0 = 1 /\ 2 ^ 1 = 2 /\ 2 ^ 2 = 4 /\ 2 ^ 3 = 8
  /\ 2 ^ 4 = 16 /\ 2 ^ 5 = 32 /\ 2 ^ 6 = 64 /\ 2 ^ 7 = 128
OBVIOUS

LEMMA BitOfByte ==
  ASSUME NEW byte \in GeneByte, NEW n \in {1, 2, 4, 8, 16, 32, 64, 128}
  PROVE IF (byte \div n) % 2 = 1 THEN byte - n \in GeneByte ELSE byte + n \in GeneByte
<1>1. CASE n = 1
  BY <1>1 DEF GeneByte
<1>2. CASE n = 2
  BY <1>2 DEF GeneByte
<1>3. CASE n = 4
  BY <1>3 DEF GeneByte
<1>4. CASE n = 8
  BY <1>4 DEF GeneByte
<1>5. CASE n = 16
  BY <1>5 DEF GeneByte
<1>6. CASE n = 32
  BY <1>6 DEF GeneByte
<1>7. CASE n = 64
  BY <1>7 DEF GeneByte
<1>8. CASE n = 128
  BY <1>8 DEF GeneByte
<1> QED
  BY <1>1, <1>2, <1>3, <1>4, <1>5, <1>6, <1>7, <1>8

\* random_mutation_mask flips a bit below the ninth, so a byte stays a byte.
LEMMA MutantsAreBytes ==
  ASSUME NEW byte \in GeneByte
  PROVE Mutants(byte) \subseteq GeneByte
<1>1. \A bit \in 0 .. 8 : Flip(byte, bit) \in GeneByte
  <2> SUFFICES ASSUME NEW bit \in 0 .. 8
               PROVE Flip(byte, bit) \in GeneByte
    OBVIOUS
  <2>1. CASE bit = 8
    BY <2>1 DEF Flip
  <2>2. CASE bit # 8
    <3>1. 2 ^ bit \in {1, 2, 4, 8, 16, 32, 64, 128}
      <4>1. \/ bit = 0 \/ bit = 1 \/ bit = 2 \/ bit = 3
            \/ bit = 4 \/ bit = 5 \/ bit = 6 \/ bit = 7
        BY <2>2
      <4>2. \A n \in 0 .. 7 : bit = n => 2 ^ bit = 2 ^ n
        OBVIOUS
      <4> QED
        BY <4>1, <4>2, PowersOfTwo
    <3>2. PICK n \in {1, 2, 4, 8, 16, 32, 64, 128} : n = 2 ^ bit
      BY <3>1
    <3> QED
      BY <2>2, <3>2, BitOfByte DEF Flip
  <2> QED
    BY <2>1, <2>2
<1> QED
  BY <1>1 DEF Mutants

LEMMA CopiedItem ==
  ASSUME NEW gene \in Gene, NEW item \in GeneByte \union {Gext},
         NEW copy \in Copied(gene, item)
  PROVE /\ copy \in GeneByte \union {Gext}
        /\ item \in GeneByte => copy \in GeneByte
        /\ item = Gext => copy = Gext
        /\ "mutation" \notin gene.flags => copy = item
<1>1. Gext \notin GeneByte
  BY DEF Gext, GeneByte
<1>2. CASE "mutation" \in gene.flags /\ item # Gext
  <2>1. item \in GeneByte
    BY <1>2
  <2>2. copy \in Mutants(item)
    BY <1>2 DEF Copied
  <2>3. copy \in GeneByte
    BY <2>1, <2>2, MutantsAreBytes
  <2> QED
    BY <1>2, <2>3
<1>3. CASE ~("mutation" \in gene.flags /\ item # Gext)
  <2>1. copy = item
    BY <1>3 DEF Copied
  <2> QED
    BY <2>1
<1> QED
  BY <1>2, <1>3

\* A copy keeps the gene's identity, generation, flags, length and pigment
\* tags, and keeps everything where the gene may not mutate
\* (copy_gene_with_mutation).
THEOREM CopyKeeps ==
  ASSUME NEW gene \in Gene, NEW copy \in Copies(gene)
  PROVE /\ copy \in Gene
        /\ Fixed(copy) = Fixed(gene)
        /\ copy.generation = gene.generation
        /\ \A i \in DOMAIN gene.data : gene.data[i] = Gext => copy.data[i] = Gext
        /\ "mutation" \notin gene.flags => copy = gene
<1>1. PICK stage \in Copied(gene, gene.stage), data \in CopiedData(gene) :
        copy = Copy(gene, stage, data)
  BY DEF Copies
<1>0. /\ DOMAIN data = DOMAIN gene.data
      /\ \A i \in DOMAIN gene.data : data[i] \in Copied(gene, gene.data[i])
  BY DEF CopiedData
<1>2. /\ gene.stage \in GeneByte /\ gene.data \in Seq(GeneByte \union {Gext})
      /\ gene = [identity |-> gene.identity, generation |-> gene.generation,
                 stage |-> gene.stage, flags |-> gene.flags, data |-> gene.data]
  BY DEF Gene
<1>3. stage \in GeneByte /\ ("mutation" \notin gene.flags => stage = gene.stage)
  BY <1>2, CopiedItem
<1>4. \A i \in DOMAIN gene.data :
        /\ data[i] \in GeneByte \union {Gext}
        /\ gene.data[i] = Gext => data[i] = Gext
        /\ "mutation" \notin gene.flags => data[i] = gene.data[i]
  <2> TAKE i \in DOMAIN gene.data
  <2>1. gene.data[i] \in GeneByte \union {Gext} /\ data[i] \in Copied(gene, gene.data[i])
    BY <1>0, <1>2
  <2> QED
    BY <2>1, CopiedItem
<1>5. data \in Seq(GeneByte \union {Gext}) /\ Len(data) = Len(gene.data)
  <2>1. DOMAIN gene.data = 1 .. Len(gene.data) /\ Len(gene.data) \in Nat
    BY <1>2
  <2>2. data \in [1 .. Len(gene.data) -> GeneByte \union {Gext}]
    <3>1. data = [i \in DOMAIN gene.data |-> data[i]]
      BY DEF CopiedData
    <3> QED
      BY <1>4, <2>1, <3>1
  <2> QED
    BY <2>1, <2>2
<1>6. "mutation" \notin gene.flags => data = gene.data
  BY <1>2, <1>4, <1>5
<1>7. copy.stage = stage /\ copy.data = data /\ copy.identity = gene.identity
      /\ copy.generation = gene.generation /\ copy.flags = gene.flags
      /\ copy = [identity |-> gene.identity, generation |-> gene.generation,
                 stage |-> stage, flags |-> gene.flags, data |-> data]
  BY <1>1, <1>2 DEF Copy
<1>8. copy \in Gene
  BY <1>2, <1>3, <1>5, <1>7 DEF Gene
<1>9. Fixed(copy) = Fixed(gene)
  BY <1>5, <1>7 DEF Fixed
<1> QED
  BY <1>2, <1>3, <1>4, <1>6, <1>7, <1>8, <1>9

-------------------------------------------------------------------------------
(* Readers.                                                                *)

\* Whatever its family and subtype bytes, a gene is read by one loader.
THEOREM OneReaderOfEach ==
  ASSUME NEW gene, gene.identity[1] \in Nat, gene.identity[2] \in Nat
  PROVE /\ \E r \in Readers : Selects(r, gene)
        /\ \A r, q \in Readers : Selects(r, gene) /\ Selects(q, gene) => r = q
<1> DEFINE family == gene.identity[1] % 3
           subtype == gene.identity[2]
<1>1. family \in 0 .. 2 /\ subtype \in Nat
  OBVIOUS
<1>2. \A m \in {1, 5, 7} : subtype % m \in 0 .. m - 1
  BY <1>1
<1> DEFINE Of(f, m, filter, r) ==
             /\ r.family = f /\ r.modulus = m
             /\ r = [family |-> f, subtype |-> r.subtype, modulus |-> m, filter |-> filter]
             /\ r.subtype \in 0 .. m - 1
<1>3. \A r \in Readers :
        \/ Of(0, 1, "zero", r)
        \/ Of(1, 5, "match", r)
        \/ Of(2, 7, IF r.subtype \in {1, 2, 6} THEN "ignore" ELSE "match", r)
  BY DEF Readers, BrainReaders, ChemistryReaders, CreatureReaders, Reader
<1>4. \E r \in Readers : Selects(r, gene)
  <2>1. CASE family = 0
    <3>1. [family |-> 0, subtype |-> subtype % 1, modulus |-> 1, filter |-> "zero"] \in Readers
      BY <1>2 DEF Readers, BrainReaders, Reader
    <3> QED
      BY <2>1, <3>1 DEF Selects
  <2>2. CASE family = 1
    <3>1. [family |-> 1, subtype |-> subtype % 5, modulus |-> 5, filter |-> "match"] \in Readers
      BY <1>2 DEF Readers, ChemistryReaders, Reader
    <3> QED
      BY <2>2, <3>1 DEF Selects
  <2>3. CASE family = 2
    <3> DEFINE plain == [family |-> 2, subtype |-> subtype % 7, modulus |-> 7, filter |-> "match"]
               reader == [plain EXCEPT !.filter =
                            IF plain.subtype \in {1, 2, 6} THEN "ignore" ELSE "match"]
    <3>1. plain \in Reader(2, 7, "match")
      BY <1>2 DEF Reader
    <3>2. reader \in Readers
      BY <3>1 DEF Readers, CreatureReaders
    <3>3. reader.family = 2 /\ reader.subtype = subtype % 7 /\ reader.modulus = 7
      OBVIOUS
    <3> QED
      BY <2>3, <3>2, <3>3 DEF Selects
  <2> QED
    BY <1>1, <2>1, <2>2, <2>3
<1>5. \A r, q \in Readers : Selects(r, gene) /\ Selects(q, gene) => r = q
  <2> SUFFICES ASSUME NEW r \in Readers, NEW q \in Readers,
                      Selects(r, gene), Selects(q, gene)
               PROVE r = q
    OBVIOUS
  <2>1. r.family = q.family /\ r.family = family
    BY DEF Selects
  <2>2. r.modulus = q.modulus
    BY <1>3, <2>1
  <2>3. r.subtype = q.subtype
    BY <2>2 DEF Selects
  <2> QED
    BY <1>3, <2>1, <2>2, <2>3
<1> QED
  BY <1>4, <1>5

-------------------------------------------------------------------------------
(* Crossing homologous parents.  The invariant says how the child lines up *)
(* with the parents' one list of identities, up to the cursor.             *)

Crossings ==
  [genes : [Parent -> Seq(Gene)], at : [Parent -> Nat \ {0}], from : Parent,
   todo : Nat, last : GeneByte \X GeneByte \X GeneByte, child : Seq(Gene),
   done : BOOLEAN, duplications : Nat, omissions : Nat]

\* The genes copied so far, as a list of identities.
LinedUp(child, here, surplus, parent) ==
  /\ here \in 1 .. Len(parent) + 1
  /\ \A i \in DOMAIN child : \E k \in DOMAIN parent :
       k <= here /\ child[i].identity = parent[k].identity
  /\ \A i, j \in DOMAIN child, k, l \in DOMAIN parent :
       /\ i < j
       /\ child[i].identity = parent[k].identity
       /\ child[j].identity = parent[l].identity
       => k <= l
  /\ Len(child) = here - 1 + surplus

SameGenes(s, parent) ==
  \A p \in Parent :
    /\ Len(s.genes[p]) = Len(parent)
    /\ \A i \in DOMAIN parent : s.genes[p][i].identity = parent[i].identity

Sound(s, parent) ==
  /\ s \in Crossings
  /\ SameGenes(s, parent)
  /\ LinedUp(s.child, Here(s), s.duplications - s.omissions, parent)

Distinct(parent) ==
  \A i, j \in DOMAIN parent : parent[i].identity = parent[j].identity => i = j

LEMMA TwoParents ==
  \A p \in Parent : Other(p) \in Parent /\ Other(p) # p /\ Other(Other(p)) = p
BY DEF Parent, Other

\* A gene copied at the cursor, whether the cursor then moves or not.
LEMMA LinedUpAppend ==
  ASSUME NEW parent \in Seq(Gene), Distinct(parent),
         NEW child \in Seq(Gene), NEW surplus \in Int, NEW here \in DOMAIN parent,
         LinedUp(child, here, surplus, parent),
         NEW gene \in Gene, gene.identity = parent[here].identity
  PROVE /\ LinedUp(Append(child, gene), here + 1, surplus, parent)
        /\ LinedUp(Append(child, gene), here, surplus + 1, parent)
<1> DEFINE longer == Append(child, gene)
<1>1. /\ longer \in Seq(Gene) /\ Len(longer) = Len(child) + 1
      /\ DOMAIN child = 1 .. Len(child) /\ DOMAIN longer = 1 .. Len(child) + 1
      /\ \A i \in DOMAIN child : longer[i] = child[i]
      /\ longer[Len(child) + 1] = gene
      /\ DOMAIN parent = 1 .. Len(parent) /\ Len(parent) \in Nat /\ Len(child) \in Nat
  OBVIOUS
<1>2. \A i \in DOMAIN longer : i \in DOMAIN child \/ i = Len(child) + 1
  BY <1>1
<1>3. \A i \in DOMAIN longer : \E k \in DOMAIN parent :
        k <= here /\ longer[i].identity = parent[k].identity
  BY <1>1, <1>2 DEF LinedUp
<1>4. \A i, j \in DOMAIN longer, k, l \in DOMAIN parent :
        /\ i < j
        /\ longer[i].identity = parent[k].identity
        /\ longer[j].identity = parent[l].identity
        => k <= l
  <2> SUFFICES ASSUME NEW i \in DOMAIN longer, NEW j \in DOMAIN longer,
                      NEW k \in DOMAIN parent, NEW l \in DOMAIN parent, i < j,
                      longer[i].identity = parent[k].identity,
                      longer[j].identity = parent[l].identity
               PROVE k <= l
    OBVIOUS
  <2>1. i \in DOMAIN child
    BY <1>1, <1>2
  <2>2. CASE j \in DOMAIN child
    BY <1>1, <2>1, <2>2 DEF LinedUp
  <2>3. CASE j = Len(child) + 1
    <3>1. l = here
      BY <1>1, <2>3 DEF Distinct
    <3>2. PICK m \in DOMAIN parent : m <= here /\ child[i].identity = parent[m].identity
      BY <2>1 DEF LinedUp
    <3>3. k = m
      BY <1>1, <2>1, <3>2 DEF Distinct
    <3> QED
      BY <3>1, <3>2, <3>3
  <2> QED
    BY <1>2, <2>2, <2>3
<1>5. \A i \in DOMAIN longer : \E k \in DOMAIN parent :
        k <= here + 1 /\ longer[i].identity = parent[k].identity
  <2> TAKE i \in DOMAIN longer
  <2>1. PICK k \in DOMAIN parent : k <= here /\ longer[i].identity = parent[k].identity
    BY <1>3
  <2>2. k <= here + 1
    BY <1>1, <2>1
  <2> QED
    BY <2>1, <2>2
<1>6. here + 1 \in 1 .. Len(parent) + 1 /\ here \in 1 .. Len(parent) + 1
  BY <1>1
<1>7. /\ Len(longer) = (here + 1) - 1 + surplus
      /\ Len(longer) = here - 1 + (surplus + 1)
  BY <1>1 DEF LinedUp
<1> QED
  BY <1>3, <1>4, <1>5, <1>6, <1>7 DEF LinedUp

\* A gene passed over.
LEMMA LinedUpOmit ==
  ASSUME NEW parent \in Seq(Gene), NEW child \in Seq(Gene),
         NEW surplus \in Int, NEW here \in DOMAIN parent,
         LinedUp(child, here, surplus, parent)
  PROVE LinedUp(child, here + 1, surplus - 1, parent)
<1>1. DOMAIN parent = 1 .. Len(parent) /\ Len(parent) \in Nat
  OBVIOUS
<1>2. \A i \in DOMAIN child : \E k \in DOMAIN parent :
        k <= here + 1 /\ child[i].identity = parent[k].identity
  <2> TAKE i \in DOMAIN child
  <2>1. PICK k \in DOMAIN parent : k <= here /\ child[i].identity = parent[k].identity
    BY DEF LinedUp
  <2>2. k <= here + 1
    BY <1>1, <2>1
  <2> QED
    BY <2>1, <2>2
<1>3. here + 1 \in 1 .. Len(parent) + 1
  BY <1>1
<1>4. Len(child) = (here + 1) - 1 + (surplus - 1)
  BY <1>1 DEF LinedUp
<1> QED
  BY <1>2, <1>3, <1>4 DEF LinedUp

\* The other parent has the same gene at the same place.
LEMMA MatchIsHere ==
  ASSUME NEW parent \in Seq(Gene), Distinct(parent), NEW here \in DOMAIN parent,
         NEW genome \in Seq(Gene), Len(genome) = Len(parent),
         \A i \in DOMAIN parent : genome[i].identity = parent[i].identity
  PROVE Match(genome, parent[here].identity) = here
<1> DEFINE found == {i \in DOMAIN genome : genome[i].identity = parent[here].identity}
<1>1. DOMAIN genome = DOMAIN parent
  OBVIOUS
<1>2. found = {here}
  BY <1>1 DEF Distinct
<1>3. here <= here
  OBVIOUS
<1>4. (CHOOSE i \in found : \A j \in found : i <= j) = here
  BY <1>2, <1>3
<1> QED
  BY <1>2, <1>4 DEF Match

LEMMA GoesOnSound ==
  ASSUME NEW parent \in Seq(Gene), NEW s, Sound(s, parent), NEW t \in GoesOn(s)
  PROVE Sound(t, parent) /\ t.done = s.done
<1>1. PICK run \in RunLengths : t = [s EXCEPT !.todo = run]
  BY DEF GoesOn
<1>2. run \in Nat
  BY RunLengthsAssumption
<1>3. s \in Crossings
  BY DEF Sound
<1>4. /\ t \in Crossings
      /\ t.genes = s.genes /\ t.at = s.at /\ t.from = s.from /\ t.child = s.child
      /\ t.duplications = s.duplications /\ t.omissions = s.omissions
      /\ t.done = s.done
  BY <1>1, <1>2, <1>3 DEF Crossings
<1> QED
  BY <1>4 DEF Sound, SameGenes, Here, Active

\* The other parent goes on where its cursor is.
LEMMA SwappedSound ==
  ASSUME NEW parent \in Seq(Gene), NEW s \in Crossings, SameGenes(s, parent),
         LinedUp(s.child, s.at[Other(s.from)], s.duplications - s.omissions, parent),
         NEW t \in Swapped(s)
  PROVE Sound(t, parent) /\ t.done = s.done
<1> DEFINE u == [s EXCEPT !.from = Other(@)]
<1>1. s.from \in Parent
  BY DEF Crossings
<1>2. /\ u \in Crossings
      /\ u.genes = s.genes /\ u.at = s.at /\ u.from = Other(s.from) /\ u.child = s.child
      /\ u.duplications = s.duplications /\ u.omissions = s.omissions
      /\ u.done = s.done
  BY <1>1, TwoParents DEF Crossings
<1>3. Sound(u, parent)
  BY <1>2 DEF Sound, SameGenes, Here, Active
<1>4. t \in GoesOn(u)
  BY DEF Swapped
<1> QED
  BY <1>2, <1>3, <1>4, GoesOnSound

\* The gene at the cursor, or the next generation of it, is copied.
LEMMA AppendedSound ==
  ASSUME NEW parent \in Seq(Gene), Distinct(parent), NEW s \in Crossings,
         SameGenes(s, parent), Here(s) \in DOMAIN parent, NEW surplus \in Int,
         LinedUp(s.child, Here(s), surplus, parent),
         NEW gene \in Gene, gene.identity = parent[Here(s)].identity,
         NEW t \in Appended(s, gene)
  PROVE /\ t \in Crossings /\ SameGenes(t, parent) /\ t.from = s.from
        /\ t.genes = s.genes /\ t.last = s.last /\ t.done = s.done /\ t.todo = s.todo
        /\ t.duplications = s.duplications /\ t.omissions = s.omissions
        /\ t.at = [s.at EXCEPT ![s.from] = @ + 1]
        /\ LinedUp(t.child, Here(s) + 1, surplus, parent)
        /\ LinedUp(t.child, Here(s), surplus + 1, parent)
<1>1. PICK copy \in Copies(gene) :
        t = [s EXCEPT !.at[s.from] = @ + 1, !.child = Append(@, copy)]
  BY DEF Appended
<1>2. copy \in Gene /\ copy.identity = parent[Here(s)].identity
  <2>1. copy \in Gene /\ Fixed(copy) = Fixed(gene)
    BY CopyKeeps
  <2>2. copy.identity = gene.identity
    BY <2>1 DEF Fixed
  <2> QED
    BY <2>1, <2>2
<1>3. s.child \in Seq(Gene) /\ s.from \in Parent /\ s.at \in [Parent -> Nat \ {0}]
  BY DEF Crossings
<1>4. /\ t.child = Append(s.child, copy) /\ t.child \in Seq(Gene)
      /\ t.at = [s.at EXCEPT ![s.from] = @ + 1] /\ t.at \in [Parent -> Nat \ {0}]
      /\ t.from = s.from /\ t.genes = s.genes /\ t.last = s.last
      /\ t.done = s.done /\ t.todo = s.todo
      /\ t.duplications = s.duplications /\ t.omissions = s.omissions
  BY <1>1, <1>2, <1>3 DEF Crossings
<1>5. t \in Crossings
  BY <1>1, <1>4 DEF Crossings
<1>6. SameGenes(t, parent)
  BY <1>4 DEF SameGenes
<1>7. /\ LinedUp(t.child, Here(s) + 1, surplus, parent)
      /\ LinedUp(t.child, Here(s), surplus + 1, parent)
  BY <1>2, <1>3, <1>4, LinedUpAppend
<1> QED
  BY <1>4, <1>5, <1>6, <1>7

\* The cursor of a crossing that goes on is at a gene of either parent.
LEMMA AtGene ==
  ASSUME NEW parent \in Seq(Gene), NEW s, Sound(s, parent), ~AtEnd(s)
  PROVE /\ Here(s) \in DOMAIN parent
        /\ Active(s)[Here(s)] \in Gene
        /\ Active(s)[Here(s)].identity = parent[Here(s)].identity
<1>1. s \in Crossings /\ s.from \in Parent /\ Active(s) \in Seq(Gene)
  BY DEF Sound, Crossings, Active
<1>2. Len(Active(s)) = Len(parent)
  BY <1>1 DEF Sound, SameGenes, Active
<1>3. Here(s) \in DOMAIN parent
  BY <1>2 DEF Sound, LinedUp, AtEnd
<1>4. Here(s) \in DOMAIN Active(s)
  BY <1>1, <1>2, <1>3
<1> QED
  BY <1>1, <1>3, <1>4 DEF Sound, SameGenes, Active

LEMMA CopyNextSound ==
  ASSUME NEW parent \in Seq(Gene), Distinct(parent), NEW s, Sound(s, parent),
         ~AtEnd(s), s.todo > 0, NEW t \in CopyNext(s)
  PROVE Sound(t, parent) /\ t.done = s.done
<1> DEFINE gene == Active(s)[Here(s)]
<1>1. PICK u \in Appended(s, gene) :
        t = [u EXCEPT !.todo = @ - 1, !.last = gene.identity]
  BY DEF CopyNext
<1>2. s \in Crossings /\ s.from \in Parent /\ s.at \in [Parent -> Nat \ {0}]
      /\ s.todo \in Nat /\ s.duplications - s.omissions \in Int
  BY DEF Sound, Crossings
<1>3. gene \in Gene /\ Here(s) \in DOMAIN parent /\ gene.identity = parent[Here(s)].identity
  BY AtGene
<1>4. /\ u \in Crossings /\ SameGenes(u, parent) /\ u.from = s.from /\ u.todo = s.todo /\ u.done = s.done
      /\ u.duplications = s.duplications /\ u.omissions = s.omissions
      /\ u.at = [s.at EXCEPT ![s.from] = @ + 1]
      /\ LinedUp(u.child, Here(s) + 1, s.duplications - s.omissions, parent)
  <2> HIDE DEF gene
  <2> QED
    BY <1>2, <1>3, AppendedSound DEF Sound
<1>5. gene.identity \in GeneByte \X GeneByte \X GeneByte
  BY <1>3 DEF Gene
<1>6. /\ t \in Crossings /\ t.genes = u.genes /\ t.at = u.at /\ t.from = u.from
      /\ t.child = u.child
      /\ t.duplications = u.duplications /\ t.omissions = u.omissions
      /\ t.done = u.done
  <2>1. PICK identity \in GeneByte \X GeneByte \X GeneByte :
          t = [u EXCEPT !.todo = @ - 1, !.last = identity]
    BY <1>1, <1>5
  <2>2. u.todo - 1 \in Nat
    BY <1>2, <1>4
  <2> HIDE DEF gene
  <2>3. u \in Crossings
    BY <1>4
  <2> QED
    BY <2>1, <2>2, <2>3 DEF Crossings
<1>7. Here(t) = Here(s) + 1
  BY <1>2, <1>4, <1>6 DEF Here
<1> QED
  BY <1>4, <1>6, <1>7 DEF Sound, SameGenes

LEMMA SoughtSound ==
  ASSUME NEW parent \in Seq(Gene), Distinct(parent), NEW s, Sound(s, parent),
         ~AtEnd(s)
  PROVE /\ Sound(Sought(s), parent) /\ ~AtEnd(Sought(s))
        /\ Here(Sought(s)) = Here(s) /\ Sought(s).from = s.from
        /\ Sought(s).done = s.done
        /\ Sought(s).at[Other(s.from)] = Here(s)
<1> DEFINE t == Sought(s)
           p == Other(s.from)
<1>1. s \in Crossings /\ s.from \in Parent /\ p \in Parent /\ p # s.from
      /\ s.at \in [Parent -> Nat \ {0}] /\ s.genes[p] \in Seq(Gene)
  BY TwoParents DEF Sound, Crossings
<1>2. /\ Here(s) \in DOMAIN parent /\ Here(s) \in Nat \ {0}
      /\ Active(s)[Here(s)].identity = parent[Here(s)].identity
  BY AtGene, <1>1 DEF Here
<1>3. Match(s.genes[p], Active(s)[Here(s)].identity) = Here(s)
  <2>1. Len(s.genes[p]) = Len(parent)
        /\ \A i \in DOMAIN parent : s.genes[p][i].identity = parent[i].identity
    BY <1>1 DEF Sound, SameGenes
  <2> QED
    BY <1>1, <1>2, <2>1, MatchIsHere
<1>4. t = [s EXCEPT !.at[p] = Here(s)]
  BY <1>3 DEF Sought
<1>5. /\ t \in Crossings /\ t.genes = s.genes /\ t.from = s.from /\ t.child = s.child
      /\ t.at = [s.at EXCEPT ![p] = Here(s)]
      /\ t.duplications = s.duplications /\ t.omissions = s.omissions
      /\ t.done = s.done
  <2> HIDE DEF t, p
  <2> QED
    BY <1>1, <1>2, <1>4 DEF Crossings
<1>6. Here(t) = Here(s) /\ Active(t) = Active(s) /\ t.at[p] = Here(s)
  <2> HIDE DEF t, p
  <2> QED
    BY <1>1, <1>5 DEF Here, Active
<1>7. Sound(t, parent)
  <2> HIDE DEF t, p
  <2> QED
    BY <1>5, <1>6 DEF Sound, SameGenes
<1>8. ~AtEnd(t)
  BY <1>6 DEF AtEnd
<1> QED
  BY <1>5, <1>6, <1>7, <1>8

LEMMA DuplicateSound ==
  ASSUME NEW parent \in Seq(Gene), Distinct(parent), NEW s, Sound(s, parent),
         ~AtEnd(s), s.at[Other(s.from)] = Here(s), NEW t \in DuplicateRun(s)
  PROVE Sound(t, parent) /\ t.done = s.done
<1> DEFINE old == Active(s)[Here(s)]
           newer == [old EXCEPT !.generation = (@ + 1) % 256]
           aged == [s EXCEPT !.genes[s.from][Here(s)] = newer,
                             !.duplications = @ + 1]
<1>1. s \in Crossings /\ s.from \in Parent /\ Other(s.from) \in Parent
      /\ Other(s.from) # s.from /\ s.at \in [Parent -> Nat \ {0}]
      /\ s.genes \in [Parent -> Seq(Gene)] /\ Active(s) \in Seq(Gene)
      /\ s.duplications \in Nat /\ s.omissions \in Nat
  BY TwoParents DEF Sound, Crossings, Active
<1>2. old \in Gene /\ Here(s) \in DOMAIN parent /\ old.identity = parent[Here(s)].identity
  BY AtGene
<1>3. newer \in Gene /\ newer.identity = old.identity
  <2>1. (old.generation + 1) % 256 \in GeneByte
    <3>1. old.generation \in 0 .. 255
      <4> HIDE DEF old
      <4> QED
        BY <1>2 DEF Gene, GeneByte
    <3>2. \A n \in 0 .. 255 : (n + 1) % 256 \in 0 .. 255
      OBVIOUS
    <3> HIDE DEF old
    <3> QED
      BY <3>1, <3>2 DEF GeneByte
  <2> HIDE DEF old
  <2> QED
    BY <1>2, <2>1 DEF Gene
<1>4. CASE "duplication" \notin newer.flags
  <2>1. t \in Swapped(s)
    BY <1>4 DEF DuplicateRun
  <2> QED
    BY <1>1, <2>1, SwappedSound DEF Sound
<1>5. CASE "duplication" \in newer.flags
  <2>1. PICK u \in Appended(aged, newer) : t \in Swapped(u)
    BY <1>5 DEF DuplicateRun
  <2>2. /\ aged.genes = [s.genes EXCEPT ![s.from] = [@ EXCEPT ![Here(s)] = newer]]
        /\ aged.at = s.at /\ aged.from = s.from /\ aged.child = s.child
        /\ aged.duplications = s.duplications + 1 /\ aged.omissions = s.omissions
        /\ aged.todo = s.todo /\ aged.last = s.last /\ aged.done = s.done
    <3> HIDE DEF newer
    <3> QED
      BY <1>1 DEF Crossings
  <2> DEFINE line == [s.genes[s.from] EXCEPT ![Here(s)] = newer]
  <2>3. Len(s.genes[s.from]) = Len(parent)
        /\ \A i \in DOMAIN parent : s.genes[s.from][i].identity = parent[i].identity
    BY <1>1 DEF Sound, SameGenes
  <2>4. /\ line \in Seq(Gene) /\ Len(line) = Len(parent)
        /\ \A i \in DOMAIN parent : line[i].identity = parent[i].identity
    <3> HIDE DEF newer, old
    <3> QED
      BY <1>1, <1>2, <1>3, <2>3 DEF Active
  <2>5. aged \in Crossings
    <3>1. aged.genes \in [Parent -> Seq(Gene)]
      <4> HIDE DEF newer
      <4> QED
        BY <1>1, <2>2, <2>4
    <3>2. s.duplications + 1 \in Nat
      BY <1>1
    <3>3. aged = [s EXCEPT !.genes = aged.genes, !.duplications = s.duplications + 1]
      <4> HIDE DEF newer
      <4> QED
        BY <1>1, <2>2 DEF Crossings
    <3> HIDE DEF aged
    <3> QED
      BY <1>1, <3>1, <3>2, <3>3 DEF Crossings
  <2>6. SameGenes(aged, parent)
    <3> SUFFICES ASSUME NEW p \in Parent
                 PROVE /\ Len(aged.genes[p]) = Len(parent)
                       /\ \A i \in DOMAIN parent :
                            aged.genes[p][i].identity = parent[i].identity
      BY DEF SameGenes
    <3>1. CASE p = s.from
      <4>1. aged.genes[p] = line
        <5> HIDE DEF aged, newer
        <5> QED
          BY <1>1, <2>2, <3>1
      <4> HIDE DEF aged, line
      <4> QED
        BY <2>4, <4>1
    <3>2. CASE p # s.from
      <4>1. aged.genes[p] = s.genes[p]
        <5> HIDE DEF aged, newer
        <5> QED
          BY <1>1, <2>2, <3>2
      <4> HIDE DEF aged
      <4> QED
        BY <4>1 DEF Sound, SameGenes
    <3> QED
      BY <3>1, <3>2
  <2>7. Here(aged) = Here(s)
    <3> HIDE DEF aged
    <3> QED
      BY <2>2 DEF Here
  <2>8. LinedUp(aged.child, Here(aged), s.duplications - s.omissions, parent)
    <3> HIDE DEF aged
    <3> QED
      BY <2>2, <2>7 DEF Sound
  <2>9. /\ u \in Crossings /\ SameGenes(u, parent) /\ u.from = s.from
        /\ u.done = s.done /\ u.at = [s.at EXCEPT ![s.from] = @ + 1]
        /\ u.duplications = s.duplications + 1 /\ u.omissions = s.omissions
        /\ LinedUp(u.child, Here(s), (s.duplications - s.omissions) + 1, parent)
    <3>1. newer.identity = parent[Here(aged)].identity /\ Here(aged) \in DOMAIN parent
      <4> HIDE DEF aged, newer, old
      <4> QED
        BY <1>2, <1>3, <2>7
    <3>2. s.duplications - s.omissions \in Int
      BY <1>1
    <3> HIDE DEF aged, newer, old
    <3>3. /\ u \in Crossings /\ SameGenes(u, parent) /\ u.from = aged.from
          /\ u.done = aged.done /\ u.at = [aged.at EXCEPT ![aged.from] = @ + 1]
          /\ u.duplications = aged.duplications /\ u.omissions = aged.omissions
          /\ LinedUp(u.child, Here(aged), (s.duplications - s.omissions) + 1, parent)
      <4> DEFINE surplus == s.duplications - s.omissions
      <4>1. surplus \in Int /\ LinedUp(aged.child, Here(aged), surplus, parent)
        BY <2>8, <3>2
      <4>2. parent \in Seq(Gene) /\ Distinct(parent) /\ u \in Appended(aged, newer)
            /\ newer \in Gene /\ aged \in Crossings
        BY <1>3, <2>1, <2>5
      <4> HIDE DEF surplus
      <4>3. /\ u \in Crossings /\ SameGenes(u, parent) /\ u.from = aged.from
            /\ u.done = aged.done /\ u.at = [aged.at EXCEPT ![aged.from] = @ + 1]
            /\ u.duplications = aged.duplications /\ u.omissions = aged.omissions
            /\ LinedUp(u.child, Here(aged), surplus + 1, parent)
        BY ONLY <2>6, <3>1, <4>1, <4>2, AppendedSound
      <4> QED
        BY ONLY <4>3 DEF surplus
    <3> QED
      BY <2>2, <2>7, <3>3
  <2>10. u.at[Other(u.from)] = Here(s)
    <3> HIDE DEF aged, newer, old
    <3> QED
      BY <1>1, <2>9
  <2>11. (s.duplications - s.omissions) + 1 = u.duplications - u.omissions
    <3>1. /\ s.duplications \in Nat /\ s.omissions \in Nat
          /\ u.duplications = s.duplications + 1 /\ u.omissions = s.omissions
      BY <1>1, <2>9
    <3> HIDE DEF aged, newer, old
    <3> QED
      BY <3>1
  <2> QED
    BY <2>1, <2>9, <2>10, <2>11, SwappedSound
<1> QED
  BY <1>4, <1>5

LEMMA OmitSound ==
  ASSUME NEW parent \in Seq(Gene), Distinct(parent), NEW s, Sound(s, parent),
         ~AtEnd(s), s.at[Other(s.from)] = Here(s), NEW t \in Omit(s)
  PROVE Sound(t, parent) /\ t.done = s.done
<1> DEFINE p == Other(s.from)
           passed == [s EXCEPT !.at[p] = @ + 1, !.omissions = @ + 1]
<1>1. s \in Crossings /\ s.from \in Parent /\ p \in Parent /\ p # s.from
      /\ s.at \in [Parent -> Nat \ {0}]
      /\ s.duplications \in Nat /\ s.omissions \in Nat
  BY TwoParents DEF Sound, Crossings
<1>2. Here(s) \in DOMAIN parent
  BY AtGene
<1>3. CASE t \in Swapped(s)
  BY <1>1, <1>3, SwappedSound DEF Sound
<1>4. CASE t \in Swapped(passed)
  <2>1. /\ passed \in Crossings /\ passed.genes = s.genes /\ passed.child = s.child
        /\ passed.from = s.from /\ passed.at = [s.at EXCEPT ![p] = @ + 1]
        /\ passed.duplications = s.duplications /\ passed.omissions = s.omissions + 1
        /\ passed.done = s.done
    <3>1. s.omissions + 1 \in Nat /\ s.at[p] + 1 \in Nat \ {0}
      <4> HIDE DEF p
      <4> QED
        BY <1>1
    <3>2. [s.at EXCEPT ![p] = @ + 1] \in [Parent -> Nat \ {0}]
      <4> HIDE DEF p
      <4> QED
        BY <1>1, <3>1
    <3>3. passed = [s EXCEPT !.at = [s.at EXCEPT ![p] = @ + 1],
                             !.omissions = s.omissions + 1]
      <4> HIDE DEF p
      <4> QED
        BY <1>1 DEF Crossings
    <3> DEFINE at == [s.at EXCEPT ![p] = @ + 1]
    <3> HIDE DEF passed, p, at
    <3> QED
      BY <1>1, <3>1, <3>2, <3>3 DEF Crossings, at
  <2> HIDE DEF passed
  <2>2. passed.at[Other(passed.from)] = Here(s) + 1
    BY <1>1, <2>1
  <2>3. SameGenes(passed, parent)
    BY <2>1 DEF Sound, SameGenes
  <2>4. LinedUp(s.child, Here(s) + 1, (s.duplications - s.omissions) - 1, parent)
    <3>1. s.duplications - s.omissions \in Int /\ s.child \in Seq(Gene)
      BY <1>1 DEF Crossings
    <3> QED
      BY <1>2, <3>1, LinedUpOmit DEF Sound
  <2>5. (s.duplications - s.omissions) - 1 = passed.duplications - passed.omissions
    <3>1. s.duplications \in Nat /\ s.omissions \in Nat
          /\ passed.duplications = s.duplications /\ passed.omissions = s.omissions + 1
      BY <1>1, <2>1
    <3> QED
      BY <3>1
  <2> QED
    BY <1>4, <2>1, <2>2, <2>3, <2>4, <2>5, SwappedSound
<1> QED
  BY <1>3, <1>4 DEF Omit

LEMMA StepSound ==
  ASSUME NEW parent \in Seq(Gene), Distinct(parent), NEW s, Sound(s, parent),
         NEW t \in Steps(s)
  PROVE Sound(t, parent) /\ (t.done => AtEnd(t))
<1>1. ~s.done
  BY DEF Steps
<1>2. CASE AtEnd(s)
  <2>1. t = [s EXCEPT !.done = TRUE]
    BY <1>1, <1>2 DEF Steps, Ended
  <2>2. /\ t \in Crossings /\ t.genes = s.genes /\ t.at = s.at /\ t.from = s.from
        /\ t.child = s.child
        /\ t.duplications = s.duplications /\ t.omissions = s.omissions
    BY <2>1 DEF Sound, Crossings
  <2> QED
    BY <1>2, <2>2 DEF Sound, SameGenes, Here, Active, AtEnd
<1>3. CASE ~AtEnd(s)
  <2>1. \A x \in CopyNext(s) : s.todo > 0 => Sound(x, parent) /\ x.done = s.done
    BY <1>3, CopyNextSound
  <2>2. \A x \in CrossAt(Sought(s)) : Sound(x, parent) /\ x.done = s.done
    <3> DEFINE u == Sought(s)
    <3>1. /\ Sound(u, parent) /\ ~AtEnd(u)
          /\ u.at[Other(u.from)] = Here(u) /\ u \in Crossings
          /\ u.done = s.done
      BY <1>3, SoughtSound DEF Sound
    <3> HIDE DEF u
    <3>2. /\ \A x \in GoesOn(u) : Sound(x, parent) /\ x.done = s.done
          /\ \A x \in DuplicateRun(u) : Sound(x, parent) /\ x.done = s.done
          /\ \A x \in Omit(u) : Sound(x, parent) /\ x.done = s.done
      BY <3>1, GoesOnSound, DuplicateSound, OmitSound
    <3>3. \A x \in Swapped(u) : Sound(x, parent) /\ x.done = s.done
      BY <3>1, SwappedSound DEF Sound
    <3>4. CrossAt(u) \subseteq GoesOn(u) \union Swapped(u) \union DuplicateRun(u) \union Omit(u)
      BY DEF CrossAt
    <3> QED
      BY <3>2, <3>3, <3>4 DEF u
  <2> QED
    BY <1>1, <1>3, <2>1, <2>2 DEF Steps
<1> QED
  BY <1>2, <1>3

\* Whatever is drawn, crossing parents with the same genes
\* (recombine_genome_streams) keeps an invariant: the child has their genes in
\* their order, none twice or missing but those counted as duplicated or omitted,
\* and where it ends it has them all.
THEOREM CrossingAligns ==
  ASSUME NEW maternal \in Seq(Gene), NEW paternal \in Seq(Gene),
         Homologous(maternal, paternal)
  PROVE /\ \A s \in Starts(maternal, paternal) : Sound(s, maternal) /\ ~s.done
        /\ \A s : Sound(s, maternal) =>
             \A t \in Steps(s) : Sound(t, maternal) /\ (t.done => AtEnd(t))
        /\ \A s : Sound(s, maternal) => Aligned(s, maternal)
        /\ \A s : Sound(s, maternal) /\ AtEnd(s) =>
             Len(s.child) = Len(maternal) + s.duplications - s.omissions
<1>1. Distinct(maternal)
  BY DEF Homologous, Distinct
<1>2. /\ DOMAIN paternal = DOMAIN maternal /\ Len(paternal) = Len(maternal)
      /\ \A i \in DOMAIN maternal : paternal[i].identity = maternal[i].identity
  <2>1. /\ DOMAIN Identities(maternal) = DOMAIN maternal
        /\ DOMAIN Identities(paternal) = DOMAIN paternal
        /\ \A i \in DOMAIN maternal : Identities(maternal)[i] = maternal[i].identity
        /\ \A i \in DOMAIN paternal : Identities(paternal)[i] = paternal[i].identity
    BY DEF Identities
  <2>2. Identities(maternal) = Identities(paternal)
    BY DEF Homologous
  <2>3. DOMAIN maternal = 1 .. Len(maternal) /\ DOMAIN paternal = 1 .. Len(paternal)
        /\ Len(maternal) \in Nat /\ Len(paternal) \in Nat
    OBVIOUS
  <2>4. DOMAIN paternal = DOMAIN maternal
    BY <2>1, <2>2
  <2>5. Len(paternal) = Len(maternal)
    <3>1. \A m, n \in Nat : 1 .. m = 1 .. n => m = n
      <4> SUFFICES ASSUME NEW m \in Nat, NEW n \in Nat, 1 .. m = 1 .. n, m # n
                   PROVE FALSE
        OBVIOUS
      <4>1. CASE m < n
        <5>1. n \in 1 .. n /\ n \notin 1 .. m
          BY <4>1
        <5> QED
          BY <5>1
      <4>2. CASE n < m
        <5>1. m \in 1 .. m /\ m \notin 1 .. n
          BY <4>2
        <5> QED
          BY <5>1
      <4> QED
        BY <4>1, <4>2
    <3> QED
      BY <2>3, <2>4, <3>1
  <2>6. \A i \in DOMAIN maternal : paternal[i].identity = maternal[i].identity
    BY <2>1, <2>2, <2>4
  <2> QED
    BY <2>4, <2>5, <2>6
<1>3. \A s \in Starts(maternal, paternal) : Sound(s, maternal) /\ ~s.done
  <2> SUFFICES ASSUME NEW first \in Parent, NEW run \in RunLengths
               PROVE LET s == Crossing(maternal, paternal, first, run)
                     IN Sound(s, maternal) /\ ~s.done
    BY DEF Starts
  <2> DEFINE s == Crossing(maternal, paternal, first, run)
             genes == [p \in Parent |-> IF p = "maternal" THEN maternal ELSE paternal]
             at == [p \in Parent |-> 1]
  <2>1. /\ s.genes = genes /\ s.at = at /\ s.from = first /\ s.child = <<>>
        /\ s.todo = run /\ s.last = NoIdentity /\ s.done = FALSE
        /\ s.duplications = 0 /\ s.omissions = 0
    BY DEF Crossing
  <2>2. genes \in [Parent -> Seq(Gene)] /\ at \in [Parent -> Nat \ {0}]
    OBVIOUS
  <2>3. run \in Nat /\ NoIdentity \in GeneByte \X GeneByte \X GeneByte /\ <<>> \in Seq(Gene)
    BY RunLengthsAssumption DEF NoIdentity, GeneByte
  <2>4. s \in Crossings
    <3>1. s = [genes |-> genes, at |-> at, from |-> first, todo |-> run,
               last |-> NoIdentity, child |-> <<>>, done |-> FALSE,
               duplications |-> 0, omissions |-> 0]
      BY DEF Crossing
    <3> HIDE DEF s, genes, at
    <3> QED
      BY <2>2, <2>3, <3>1 DEF Crossings
  <2>5. Here(s) = 1
    BY <2>1 DEF Here
  <2>6. SameGenes(s, maternal)
    BY <1>2, <2>1 DEF SameGenes
  <2>7. LinedUp(s.child, Here(s), s.duplications - s.omissions, maternal)
    <3>1. Len(maternal) \in Nat /\ DOMAIN s.child = {} /\ Len(s.child) = 0
      BY <2>1
    <3>2. 1 \in 1 .. Len(maternal) + 1 /\ 0 = 1 - 1 + (0 - 0)
      BY <3>1
    <3> HIDE DEF s
    <3> QED
      BY <2>1, <2>5, <3>1, <3>2 DEF LinedUp
  <2> HIDE DEF s
  <2>8. Sound(s, maternal) /\ ~s.done
    BY <2>1, <2>4, <2>6, <2>7 DEF Sound
  <2> QED
    BY <2>8 DEF s
<1>4. \A s : Sound(s, maternal) =>
        \A t \in Steps(s) : Sound(t, maternal) /\ (t.done => AtEnd(t))
  BY <1>1, StepSound
<1>5. \A s : Sound(s, maternal) => Aligned(s, maternal)
  <2> SUFFICES ASSUME NEW s, Sound(s, maternal) PROVE Aligned(s, maternal)
    OBVIOUS
  <2>1. LinedUp(s.child, Here(s), s.duplications - s.omissions, maternal)
        /\ s.duplications \in Nat /\ s.omissions \in Nat
    BY DEF Sound, Crossings
  <2>2. Here(s) \in Int
    BY <2>1 DEF LinedUp
  <2>3. Len(s.child) = Here(s) - 1 + (s.duplications - s.omissions)
    BY <2>1 DEF LinedUp
  <2>4. Len(s.child) = Here(s) - 1 + s.duplications - s.omissions
    BY <2>1, <2>2, <2>3
  <2> QED
    BY <2>1, <2>4 DEF LinedUp, Aligned
<1>6. \A s : Sound(s, maternal) /\ AtEnd(s) =>
        Len(s.child) = Len(maternal) + s.duplications - s.omissions
  <2> SUFFICES ASSUME NEW s, Sound(s, maternal), AtEnd(s)
               PROVE Len(s.child) = Len(maternal) + s.duplications - s.omissions
    OBVIOUS
  <2>1. Len(s.child) = Here(s) - 1 + s.duplications - s.omissions
    BY <1>5 DEF Aligned
  <2>2. Here(s) = Len(maternal) + 1 /\ Len(maternal) \in Nat
    BY DEF AtEnd, Sound, SameGenes, Active, Crossings
  <2>3. s.duplications \in Nat /\ s.omissions \in Nat
    BY DEF Sound, Crossings
  <2> QED
    BY <2>1, <2>2, <2>3
<1> QED
  BY <1>3, <1>4, <1>5, <1>6

-----------------------------------------------------------------------------
(***************************************************************************)
(* Breeding, for any number of creatures, eggs, names and exported files,  *)
(* whatever names are drawn.                                               *)
(***************************************************************************)

\* What holds of one creature, and of one egg, and of the genome files.
CreatureOK(x, f) ==
  x # Absent =>
    /\ x.own \in Names /\ f[x.own] = x.genes
    /\ x.gamete \in {Nobody, x.own} /\ x.child # x.own
    /\ x.child # Nobody => f[x.child] = x.unborn
EggOK(y, f) == y # NoEgg => y.name \in Names /\ f[y.name] = y.genes

Kept ==
  /\ \A c \in Creatures : CreatureOK(creature[c], file)
  /\ \A e \in Eggs : EggOK(egg[e], file)
IInv == TypeOK /\ Kept

-------------------------------------------------------------------------------
(* Records.                                                                *)

LEMMA AbsentIsRecord ==
  /\ Absent \in Record /\ NoEgg \in EggRecord
  /\ Absent.own = Nobody /\ Absent.child = Nobody /\ Absent.gamete = Nobody
  /\ NoEgg.name = Nobody
BY DEF Absent, NoEgg, Record, EggRecord, Name, SomeGenes

\* A file written under a name that no creature has as its own: those that
\* carry a child of that name have the writer's genes for it.
LEMMA Write ==
  ASSUME NEW f \in [Names -> SomeGenes], NEW name \in Names, NEW g \in SomeGenes,
         NEW x \in Record, CreatureOK(x, f), x.own # name
  PROVE /\ x.child # name => CreatureOK(x, [f EXCEPT ![name] = g])
        /\ x.child = name =>
             /\ [x EXCEPT !.unborn = g] \in Record
             /\ CreatureOK([x EXCEPT !.unborn = g], [f EXCEPT ![name] = g])
<1> DEFINE h == [f EXCEPT ![name] = g]
           y == [x EXCEPT !.unborn = g]
<1>1. h[name] = g /\ \A n \in Names : n # name => h[n] = f[n]
  OBVIOUS
<1>2. x.child \in Names \union {Nobody}
  BY DEF Record, Name
<1>3. x.child # name => CreatureOK(x, h)
  <2> HIDE DEF h
  <2> QED
    BY <1>1, <1>2 DEF CreatureOK
<1>4. ASSUME x.child = name PROVE y \in Record /\ CreatureOK(y, h)
  <2>1. y \in Record /\ y.own = x.own /\ y.gamete = x.gamete /\ y.child = x.child
        /\ y.genes = x.genes /\ y.unborn = g
    BY DEF Record
  <2>2. x # Absent
    BY <1>4, AbsentIsRecord, NobodyAssumption
  <2> HIDE DEF h, y
  <2> QED
    BY <1>1, <1>4, <2>1, <2>2 DEF CreatureOK
<1> QED
  BY <1>3, <1>4

LEMMA WriteEgg ==
  ASSUME NEW f \in [Names -> SomeGenes], NEW name \in Names, NEW g \in SomeGenes,
         NEW y \in EggRecord, EggOK(y, f)
  PROVE LET z == IF y.name = name THEN [y EXCEPT !.genes = g] ELSE y
        IN z \in EggRecord /\ EggOK(z, [f EXCEPT ![name] = g])
<1>1. CASE y.name = name
  <2> DEFINE z == [y EXCEPT !.genes = g]
  <2>1. z \in EggRecord /\ z.name = name /\ z.genes = g
    BY <1>1 DEF EggRecord
  <2>2. [f EXCEPT ![name] = g][name] = g
    OBVIOUS
  <2> HIDE DEF z
  <2>3. EggOK(z, [f EXCEPT ![name] = g])
    BY <2>1, <2>2 DEF EggOK
  <2> QED
    BY <1>1, <2>1, <2>3 DEF z
<1>2. CASE y.name # name
  BY <1>2 DEF EggOK
<1> QED
  BY <1>1, <1>2

\* All eggs, and all the creatures of a registry, at once.
LEMMA WriteEggs ==
  ASSUME NEW f \in [Names -> SomeGenes], NEW name \in Names, NEW g \in SomeGenes,
         NEW eggs \in [Eggs -> EggRecord], \A e \in Eggs : EggOK(eggs[e], f)
  PROVE /\ Overwritten(eggs, name, g) \in [Eggs -> EggRecord]
        /\ \A e \in Eggs :
             EggOK(Overwritten(eggs, name, g)[e], [f EXCEPT ![name] = g])
BY WriteEgg DEF Overwritten

LEMMA WriteCreatures ==
  ASSUME NEW f \in [Names -> SomeGenes], NEW name \in Names, NEW g \in SomeGenes,
         NEW registry \in [Creatures -> Record],
         NEW c \in Creatures,
         \A d \in Creatures \ {c} : CreatureOK(registry[d], f) /\ registry[d].own # name
  PROVE \A d \in Creatures \ {c} :
          /\ Supplanted(registry, name, g)[d] \in Record
          /\ Supplanted(registry, name, g)[d].own = registry[d].own
          /\ CreatureOK(Supplanted(registry, name, g)[d], [f EXCEPT ![name] = g])
<1> TAKE d \in Creatures \ {c}
<1>1. Supplanted(registry, name, g)[d] =
        IF registry[d].child = name THEN [registry[d] EXCEPT !.unborn = g]
        ELSE registry[d]
  BY DEF Supplanted
<1>2. registry[d] \in Record /\ CreatureOK(registry[d], f) /\ registry[d].own # name
  OBVIOUS
<1>3. [registry[d] EXCEPT !.unborn = g].own = registry[d].own
  BY <1>2 DEF Record
<1>4. CASE registry[d].child = name
  <2> DEFINE x == registry[d]
             y == [x EXCEPT !.unborn = g]
  <2>1. y \in Record /\ CreatureOK(y, [f EXCEPT ![name] = g])
    BY <1>2, <1>4, Write
  <2>2. Supplanted(registry, name, g)[d] = y /\ y.own = x.own
    BY <1>1, <1>3, <1>4
  <2> HIDE DEF y
  <2> QED
    BY <2>1, <2>2
<1>5. CASE registry[d].child # name
  <2>1. CreatureOK(registry[d], [f EXCEPT ![name] = g])
    BY <1>2, <1>5, Write
  <2> QED
    BY <1>1, <1>2, <1>5, <2>1
<1> QED
  BY <1>4, <1>5

BornOK(name, g, f) == Born(name, g) \in Record /\ CreatureOK(Born(name, g), f)
LEMMA BornIsOK ==
  ASSUME NEW name \in Names, NEW g \in SomeGenes, NEW f, f[name] = g
  PROVE BornOK(name, g, f)
<1> DEFINE x == Born(name, g)
<1>1. x = [own |-> name, gamete |-> Nobody, child |-> Nobody, genes |-> g,
           unborn |-> 0, dead |-> FALSE]
  BY DEF Born
<1>2. x \in Record
  BY <1>1 DEF Record, Name, SomeGenes
<1>3. x.own = name /\ x.gamete = Nobody /\ x.child = Nobody /\ x.genes = g
  BY <1>1
<1> HIDE DEF x
<1>4. CreatureOK(x, f)
  BY <1>3, NobodyAssumption DEF CreatureOK
<1> QED
  BY <1>2, <1>4 DEF BornOK, x

\* A drawn name is no creature's own and no child's.
LEMMA DrawnIsFree ==
  ASSUME NEW registry, NEW name \in Drawn(registry)
  PROVE /\ name \in Names
        /\ \A c \in Creatures : registry[c].own # name /\ registry[c].child # name
                                /\ registry[c].gamete # name
BY DEF Drawn, Own, ToBe

LEMMA NewGenesAreGenes ==
  ASSUME Room PROVE NewGenes \in SomeGenes
BY DEF Room, NewGenes, SomeGenes

-------------------------------------------------------------------------------
(* Steps.                                                                  *)

\* One creature changes and no file does.
LEMMA OneCreature ==
  ASSUME IInv, NEW c \in Creatures, NEW x \in Record, CreatureOK(x, file),
         creature' = [creature EXCEPT ![c] = x], UNCHANGED <<egg, file, exported>>
  PROVE IInv'
BY DEF IInv, TypeOK, Kept

LEMMA KeepsLife ==
  ASSUME IInv, NEW c \in Creatures, Live(c)
  PROVE IInv'
<1> DEFINE x == creature[c]
<1>1. x \in Record /\ CreatureOK(x, file)
  BY DEF IInv, TypeOK, Kept
<1>2. CASE Ovulates(c)
  <2> DEFINE y == [x EXCEPT !.gamete = x.own]
  <2>1. y \in Record
    BY <1>1 DEF Record
  <2>2. y.own = x.own /\ y.gamete = x.own /\ y.child = x.child
        /\ y.genes = x.genes /\ y.unborn = x.unborn
    BY <1>1 DEF Record
  <2>3. CreatureOK(y, file)
    <3>1. x # Absent
      BY <1>2 DEF Ovulates, Living
    <3> HIDE DEF y, x
    <3> QED
      BY <1>1, <2>2, <3>1 DEF CreatureOK
  <2>4. creature' = [creature EXCEPT ![c] = y]
    BY <1>2 DEF Ovulates
  <2> HIDE DEF y, x
  <2> QED
    BY <1>2, <2>1, <2>3, <2>4, OneCreature DEF Ovulates
<1>3. CASE Settles(c)
  <2> DEFINE y == [x EXCEPT !.gamete = Nobody]
  <2>1. y \in Record
    BY <1>1 DEF Record, Name
  <2>2. y.own = x.own /\ y.gamete = Nobody /\ y.child = x.child
        /\ y.genes = x.genes /\ y.unborn = x.unborn
    BY <1>1 DEF Record
  <2>3. CreatureOK(y, file)
    <3>1. x # Absent
      BY <1>3 DEF Settles, Living
    <3> HIDE DEF y, x
    <3> QED
      BY <1>1, <2>2, <3>1 DEF CreatureOK
  <2>4. creature' = [creature EXCEPT ![c] = y]
    BY <1>3 DEF Settles
  <2> HIDE DEF y, x
  <2> QED
    BY <1>3, <2>1, <2>3, <2>4, OneCreature DEF Settles
<1>4. CASE Grows(c)
  <2> DEFINE y == [x EXCEPT !.genes = file[x.own]]
  <2>1. x # Absent
    BY <1>4 DEF Grows, Living
  <2>2. file[x.own] = x.genes
    BY <1>1, <2>1 DEF CreatureOK
  <2>3. y = x
    BY <1>1, <2>2 DEF Record
  <2>4. creature' = [creature EXCEPT ![c] = x]
    BY <1>4, <2>3 DEF Grows
  <2> HIDE DEF x
  <2> QED
    BY <1>1, <1>4, <2>4, OneCreature DEF Grows
<1>5. CASE Dies(c)
  <2> DEFINE y == [x EXCEPT !.dead = TRUE]
  <2>1. y \in Record
    BY <1>1 DEF Record
  <2>2. y.own = x.own /\ y.gamete = x.gamete /\ y.child = x.child
        /\ y.genes = x.genes /\ y.unborn = x.unborn
    BY <1>1 DEF Record
  <2>3. CreatureOK(y, file)
    <3>1. x # Absent
      BY <1>5 DEF Dies, Living
    <3> HIDE DEF y, x
    <3> QED
      BY <1>1, <2>2, <3>1 DEF CreatureOK
  <2>4. creature' = [creature EXCEPT ![c] = y]
    BY <1>5 DEF Dies
  <2> HIDE DEF y, x
  <2> QED
    BY <1>5, <2>1, <2>3, <2>4, OneCreature DEF Dies
<1>6. CASE Delete(c)
  <2>1. CreatureOK(Absent, file)
    BY DEF CreatureOK
  <2> QED
    BY <1>6, <2>1, AbsentIsRecord, OneCreature DEF Delete
<1> QED
  BY <1>2, <1>3, <1>4, <1>5, <1>6 DEF Live

LEMMA KeepsFruitless ==
  ASSUME IInv, NEW c \in Creatures, NEW recipient \in Creatures,
         Fruitless(c, recipient)
  PROVE IInv'
<1> DEFINE x == creature[c]
           y == [x EXCEPT !.gamete = Nobody]
<1>1. x \in Record /\ CreatureOK(x, file)
  BY DEF IInv, TypeOK, Kept
<1>2. y \in Record
  BY <1>1 DEF Record, Name
<1>3. y.own = x.own /\ y.gamete = Nobody /\ y.child = x.child
      /\ y.genes = x.genes /\ y.unborn = x.unborn
  BY <1>1 DEF Record
<1>4. CreatureOK(y, file)
  <2>1. x # Absent
    BY DEF Fruitless, Living
  <2> HIDE DEF y, x
  <2> QED
    BY <1>1, <1>3, <2>1 DEF CreatureOK
<1>5. creature' = [creature EXCEPT ![c] = y]
  BY DEF Fruitless
<1> HIDE DEF y, x
<1> QED
  BY <1>2, <1>4, <1>5, OneCreature DEF Fruitless

\* A name is drawn and new genes are written under it: the file as it then is.
LEMMA DrawWrites ==
  ASSUME IInv, Room, NEW name \in Drawn(creature),
         file' = [file EXCEPT ![name] = NewGenes]
  PROVE /\ name \in Names /\ NewGenes \in SomeGenes
        /\ file' \in [Names -> SomeGenes] /\ file'[name] = NewGenes
        /\ \A c \in Creatures : CreatureOK(creature[c], file')
        /\ Overwritten(egg, name, NewGenes) \in [Eggs -> EggRecord]
        /\ \A e \in Eggs : EggOK(Overwritten(egg, name, NewGenes)[e], file')
<1>1. name \in Names /\ NewGenes \in SomeGenes
  BY DrawnIsFree, NewGenesAreGenes
<1>2. creature \in [Creatures -> Record] /\ egg \in [Eggs -> EggRecord]
      /\ file \in [Names -> SomeGenes]
      /\ (\A c \in Creatures : CreatureOK(creature[c], file))
      /\ \A e \in Eggs : EggOK(egg[e], file)
  BY DEF IInv, TypeOK, Kept
<1>3. \A c \in Creatures : CreatureOK(creature[c], file')
  BY <1>1, <1>2, DrawnIsFree, Write
<1>4. Overwritten(egg, name, NewGenes) \in [Eggs -> EggRecord]
      /\ \A e \in Eggs : EggOK(Overwritten(egg, name, NewGenes)[e], file')
  BY <1>1, <1>2, WriteEggs
<1>5. file' \in [Names -> SomeGenes] /\ file'[name] = NewGenes
  BY <1>1, <1>2
<1> QED
  BY <1>1, <1>3, <1>4, <1>5

LEMMA KeepsConceives ==
  ASSUME IInv, NEW c \in Creatures, NEW recipient \in Creatures,
         Conceives(c, recipient)
  PROVE IInv'
<1>1. PICK name \in Drawn(creature) :
        /\ creature' = [creature EXCEPT ![recipient].child = name,
                                        ![recipient].unborn = NewGenes,
                                        ![c].gamete = Nobody]
        /\ file' = [file EXCEPT ![name] = NewGenes]
        /\ egg' = Overwritten(egg, name, NewGenes)
  BY DEF Conceives
<1> DEFINE x == creature[c]
           y == creature[recipient]
           u == [x EXCEPT !.gamete = Nobody]
           v == [y EXCEPT !.child = name, !.unborn = NewGenes]
<1>2. c # recipient /\ x # Absent /\ y # Absent /\ Room /\ exported' = exported
  BY DEF Conceives, Living
<1>3. /\ name \in Names /\ NewGenes \in SomeGenes
      /\ file' \in [Names -> SomeGenes] /\ file'[name] = NewGenes
      /\ \A d \in Creatures : CreatureOK(creature[d], file')
      /\ egg' \in [Eggs -> EggRecord] /\ \A e \in Eggs : EggOK(egg'[e], file')
  BY <1>1, <1>2, DrawWrites
<1>4. creature \in [Creatures -> Record] /\ x \in Record /\ y \in Record
      /\ exported \subseteq CreatureFile \union EggFile
  BY DEF IInv, TypeOK
<1>5. u \in Record /\ u.own = x.own /\ u.gamete = Nobody /\ u.child = x.child
      /\ u.genes = x.genes /\ u.unborn = x.unborn
  BY <1>4 DEF Record, Name
<1>6. v \in Record /\ v.own = y.own /\ v.gamete = y.gamete /\ v.child = name
      /\ v.genes = y.genes /\ v.unborn = NewGenes
  BY <1>3, <1>4 DEF Record, Name
<1>7. creature' = [creature EXCEPT ![recipient] = v, ![c] = u]
  BY <1>1, <1>2, <1>4
<1>8. y.own # name
  BY DrawnIsFree
<1>9. CreatureOK(u, file') /\ CreatureOK(v, file')
  <2>1. CreatureOK(x, file') /\ CreatureOK(y, file')
    BY <1>3
  <2> HIDE DEF x, y, u, v
  <2>2. CreatureOK(u, file')
    BY <1>2, <1>5, <2>1 DEF CreatureOK
  <2>3. CreatureOK(v, file')
    BY <1>2, <1>3, <1>6, <1>8, <2>1 DEF CreatureOK
  <2> QED
    BY <2>2, <2>3
<1>10. creature' \in [Creatures -> Record]
       /\ \A d \in Creatures : CreatureOK(creature'[d], file')
  <2> HIDE DEF x, y, u, v
  <2> QED
    BY <1>3, <1>4, <1>5, <1>6, <1>7, <1>9
<1> QED
  BY <1>2, <1>3, <1>4, <1>10 DEF IInv, TypeOK, Kept

LEMMA KeepsTest ==
  ASSUME IInv, NEW c \in Creatures, TestCreature(c)
  PROVE IInv'
<1>1. PICK name \in Drawn(creature) :
        /\ creature' = [creature EXCEPT ![c] = Born(name, NewGenes)]
        /\ file' = [file EXCEPT ![name] = NewGenes]
        /\ egg' = Overwritten(egg, name, NewGenes)
  BY DEF TestCreature
<1>2. Room /\ exported' = exported
  BY DEF TestCreature
<1>3. /\ name \in Names /\ NewGenes \in SomeGenes
      /\ file' \in [Names -> SomeGenes] /\ file'[name] = NewGenes
      /\ \A d \in Creatures : CreatureOK(creature[d], file')
      /\ egg' \in [Eggs -> EggRecord] /\ \A e \in Eggs : EggOK(egg'[e], file')
  BY <1>1, <1>2, DrawWrites
<1>4. BornOK(name, NewGenes, file')
  BY <1>3, BornIsOK
<1>5. creature \in [Creatures -> Record]
      /\ exported \subseteq CreatureFile \union EggFile
  BY DEF IInv, TypeOK
<1> QED
  BY <1>1, <1>2, <1>3, <1>4, <1>5 DEF IInv, TypeOK, Kept, BornOK

LEMMA KeepsHatchery ==
  ASSUME IInv, NEW e \in Eggs, HatcheryEgg(e)
  PROVE IInv'
<1>1. PICK name \in Drawn(creature) :
        /\ egg' = [Overwritten(egg, name, NewGenes) EXCEPT
                     ![e] = [name |-> name, genes |-> NewGenes]]
        /\ file' = [file EXCEPT ![name] = NewGenes]
  BY DEF HatcheryEgg
<1> DEFINE eggs == Overwritten(egg, name, NewGenes)
           y == [name |-> name, genes |-> NewGenes]
<1>2. Room /\ creature' = creature /\ exported' = exported
  BY DEF HatcheryEgg
<1>3. /\ name \in Names /\ NewGenes \in SomeGenes
      /\ file' \in [Names -> SomeGenes] /\ file'[name] = NewGenes
      /\ \A d \in Creatures : CreatureOK(creature[d], file')
      /\ eggs \in [Eggs -> EggRecord] /\ \A d \in Eggs : EggOK(eggs[d], file')
  BY <1>1, <1>2, DrawWrites
<1>4. y \in EggRecord /\ EggOK(y, file')
  BY <1>3 DEF EggRecord, EggOK, Name
<1>5. egg' = [eggs EXCEPT ![e] = y]
  BY <1>1
<1> HIDE DEF eggs, y
<1>6. egg' \in [Eggs -> EggRecord] /\ \A d \in Eggs : EggOK(egg'[d], file')
  BY <1>3, <1>4, <1>5
<1> QED
  BY <1>2, <1>3, <1>6 DEF IInv, TypeOK, Kept

LEMMA NoEggIsOK == \A f : EggOK(NoEgg, f)
BY DEF EggOK

LEMMA KeepsLay ==
  ASSUME IInv, NEW c \in Creatures, NEW e \in Eggs, Lay(c, e)
  PROVE IInv'
<1> DEFINE x == creature[c]
           y == egg[e]
<1>1. /\ x \in Record /\ CreatureOK(x, file) /\ y \in EggRecord /\ EggOK(y, file)
      /\ creature \in [Creatures -> Record] /\ egg \in [Eggs -> EggRecord]
      /\ file \in [Names -> SomeGenes] /\ exported \subseteq CreatureFile \union EggFile
      /\ \A d \in Creatures : CreatureOK(creature[d], file)
      /\ \A d \in Eggs : EggOK(egg[d], file)
  BY DEF IInv, TypeOK, Kept
<1>2. CASE LayEgg(c, e)
  <2> DEFINE u == [x EXCEPT !.child = Nobody, !.unborn = 0]
             z == [name |-> x.child, genes |-> x.unborn]
  <2>1. u \in Record /\ u.own = x.own /\ u.gamete = x.gamete /\ u.child = Nobody
        /\ u.genes = x.genes
    BY <1>1 DEF Record, Name, SomeGenes
  <2>2. z \in EggRecord /\ z.name = x.child /\ z.genes = x.unborn
    BY <1>1 DEF Record, EggRecord
  <2>3. x # Absent /\ x.child # Nobody
    BY <1>2 DEF LayEgg, Living
  <2>4. x.child \in Name
    BY <1>1 DEF Record
  <2>5. creature' = [creature EXCEPT ![c] = u] /\ egg' = [egg EXCEPT ![e] = z]
        /\ file' = file /\ exported' = exported
    BY <1>1, <1>2 DEF LayEgg
  <2> HIDE DEF x, y, u, z
  <2>6. CreatureOK(u, file)
    BY <1>1, <2>1, <2>3, NobodyAssumption DEF CreatureOK
  <2>7. EggOK(z, file)
    BY <1>1, <2>2, <2>3, <2>4 DEF CreatureOK, EggOK, Name
  <2> QED
    BY <1>1, <2>1, <2>2, <2>5, <2>6, <2>7 DEF IInv, TypeOK, Kept
<1>3. CASE Hatch(e, c)
  <2> DEFINE u == Born(y.name, file[y.name])
  <2>1. y.name \in Names
    BY <1>1, <1>3 DEF Hatch, Laid, EggOK
  <2>2. BornOK(y.name, file[y.name], file)
    BY <1>1, <2>1, BornIsOK
  <2>3. u \in Record /\ CreatureOK(u, file)
    BY <2>2 DEF BornOK
  <2>4. creature' = [creature EXCEPT ![c] = u] /\ egg' = [egg EXCEPT ![e] = NoEgg]
        /\ file' = file /\ exported' = exported
    BY <1>3 DEF Hatch
  <2> HIDE DEF u
  <2> QED
    BY <1>1, <2>3, <2>4, AbsentIsRecord, NoEggIsOK DEF IInv, TypeOK, Kept
<1> QED
  BY <1>2, <1>3 DEF Lay

-------------------------------------------------------------------------------
(* Export and import.                                                      *)

\* Loading, saving and throwing away leave files of the right kind.
LEMMA KeepsDiscard ==
  ASSUME IInv, NEW x \in exported, Discard(x)
  PROVE IInv'
BY DEF IInv, TypeOK, Kept, Discard

LEMMA ContentsAreGenes ==
  ASSUME file \in [Names -> SomeGenes], NEW name \in Name
  PROVE Contents(name) \in SomeGenes
BY DEF Contents, Name, SomeGenes

LEMMA KeepsExportCreature ==
  ASSUME IInv, NEW c \in Creatures, ExportCreature(c)
  PROVE IInv'
<1> DEFINE x == creature[c]
           r == [kind |-> "creature", own |-> x.own, gamete |-> x.gamete,
                 child |-> x.child, genes |-> Contents(x.own),
                 unborn |-> Contents(x.child), dead |-> x.dead]
<1>1. /\ x \in Record /\ CreatureOK(x, file) /\ x # Absent
      /\ creature \in [Creatures -> Record] /\ egg \in [Eggs -> EggRecord]
      /\ file \in [Names -> SomeGenes] /\ exported \subseteq CreatureFile \union EggFile
      /\ \A d \in Creatures : CreatureOK(creature[d], file)
      /\ \A d \in Eggs : EggOK(egg[d], file)
  BY DEF IInv, TypeOK, Kept, ExportCreature, Living
<1>2. creature' = [creature EXCEPT ![c] = Absent] /\ egg' = egg /\ file' = file
      /\ exported' = exported \union {r}
  BY DEF ExportCreature, Save
<1>3. x.own \in Names /\ x.own \in Name /\ x.child \in Name /\ x.gamete \in Name
      /\ x.dead \in BOOLEAN
  BY <1>1 DEF CreatureOK, Record
<1>4. Contents(x.own) \in SomeGenes /\ Contents(x.child) \in SomeGenes
  BY <1>1, <1>3, ContentsAreGenes
<1>5. r \in CreatureFile
  BY <1>3, <1>4 DEF CreatureFile
<1>6. CreatureOK(Absent, file)
  BY DEF CreatureOK
<1> HIDE DEF x, r
<1> QED
  BY <1>1, <1>2, <1>5, <1>6, AbsentIsRecord DEF IInv, TypeOK, Kept

LEMMA KeepsExportEgg ==
  ASSUME IInv, NEW e \in Eggs, ExportEgg(e)
  PROVE IInv'
<1> DEFINE y == egg[e]
           r == [kind |-> "egg", own |-> y.name, genes |-> Contents(y.name)]
<1>1. /\ y \in EggRecord /\ EggOK(y, file) /\ y # NoEgg
      /\ creature \in [Creatures -> Record] /\ egg \in [Eggs -> EggRecord]
      /\ file \in [Names -> SomeGenes] /\ exported \subseteq CreatureFile \union EggFile
      /\ \A d \in Creatures : CreatureOK(creature[d], file)
      /\ \A d \in Eggs : EggOK(egg[d], file)
  BY DEF IInv, TypeOK, Kept, ExportEgg, Laid
<1>2. egg' = [egg EXCEPT ![e] = NoEgg] /\ creature' = creature /\ file' = file
      /\ exported' = exported \union {r}
  BY DEF ExportEgg, Save
<1>3. y.name \in Names /\ y.name \in Name
  BY <1>1 DEF EggOK, EggRecord
<1>4. r \in EggFile
  BY <1>1, <1>3, ContentsAreGenes DEF EggFile
<1> HIDE DEF y, r
<1> QED
  BY <1>1, <1>2, <1>4, AbsentIsRecord, NoEggIsOK DEF IInv, TypeOK, Kept

\* An egg's new name is nobody's, or the file under it holds the egg's genes.
LEMMA KeepsImportEgg ==
  ASSUME IInv, NEW e \in Eggs, NEW x \in exported, ImportEgg(e, x)
  PROVE IInv'
<1>1. PICK name \in IF x.own \in Taken(x.genes) THEN Names \ Taken(x.genes)
                    ELSE {x.own} :
        /\ egg' = [egg EXCEPT ![e] = [name |-> name, genes |-> x.genes]]
        /\ file' = [file EXCEPT ![name] = x.genes]
  BY DEF ImportEgg
<1> DEFINE g == x.genes
           y == [name |-> name, genes |-> g]
           h == [file EXCEPT ![name] = g]
<1>2. /\ creature \in [Creatures -> Record] /\ egg \in [Eggs -> EggRecord]
      /\ file \in [Names -> SomeGenes] /\ exported \subseteq CreatureFile \union EggFile
      /\ \A d \in Creatures : CreatureOK(creature[d], file)
      /\ \A d \in Eggs : EggOK(egg[d], file)
  BY DEF IInv, TypeOK, Kept
<1>3. creature' = creature /\ exported' \subseteq exported
  BY DEF ImportEgg, Load
<1>4. x.own \in Names /\ g \in SomeGenes
  <2>1. x \in EggFile
    BY <1>2 DEF ImportEgg, CreatureFile
  <2> QED
    BY <2>1 DEF EggFile
<1>5. name \in Names /\ name \notin Taken(g)
  BY <1>1, <1>4
<1>6. h[name] = g /\ h \in [Names -> SomeGenes]
      /\ \A n \in Names : n # name => h[n] = file[n]
  BY <1>2, <1>4, <1>5
<1>7. ASSUME NEW d \in Creatures PROVE CreatureOK(creature[d], h)
  <2>1. creature[d].own # name /\ creature[d].child # name
    BY <1>5 DEF Taken, Own, ToBe
  <2> QED
    BY <1>2, <1>4, <1>5, <2>1, Write
<1>8. ASSUME NEW d \in Eggs PROVE EggOK(egg[d], h)
  <2>1. egg[d].name # name
    BY <1>5 DEF Taken, OfEggs
  <2> HIDE DEF h
  <2> QED
    BY <1>2, <1>6, <2>1 DEF EggOK
<1>9. y \in EggRecord /\ EggOK(y, h)
  BY <1>4, <1>5, <1>6 DEF EggRecord, EggOK, Name
<1>10. egg' = [egg EXCEPT ![e] = y] /\ file' = h
  BY <1>1
<1> HIDE DEF y, h
<1> QED
  BY <1>2, <1>3, <1>6, <1>7, <1>8, <1>9, <1>10 DEF IInv, TypeOK, Kept

\* The creature as it comes in, under the name it is given.
LEMMA RenamedFields ==
  ASSUME NEW x \in CreatureFile, NEW own \in Names
  PROVE LET r == Renamed(x, own) IN
        /\ r \in Record /\ r.own = own /\ r.gamete \in {Nobody, own}
        /\ r.child = x.child /\ r.genes = x.genes /\ r.unborn = x.unborn
<1> DEFINE a == AsRead(x)
           r == [a EXCEPT !.own = own,
                          !.gamete = IF @ = Nobody THEN Nobody ELSE own]
<1>1. a \in Record /\ a.child = x.child /\ a.genes = x.genes /\ a.unborn = x.unborn
  BY DEF AsRead, CreatureFile, Record, Name
<1> HIDE DEF a
<1>2. r \in Record /\ r.own = own /\ r.gamete \in {Nobody, own}
      /\ r.child = a.child /\ r.genes = a.genes /\ r.unborn = a.unborn
  BY <1>1 DEF Record, Name
<1>3. Renamed(x, own) = r
  BY DEF Renamed, a
<1> QED
  BY <1>1, <1>2, <1>3

\* Its name is no other creature's.
LEMMA OwnNameIsFree ==
  ASSUME creature \in [Creatures -> Record], NEW c \in Creatures,
         NEW x \in CreatureFile, NEW own \in OwnNames(c, x)
  PROVE own \in Names /\ \A d \in Creatures \ {c} : creature[d].own # own
<1>1. CASE x.own \in Own([creature EXCEPT ![c] = Absent])
  <2> DEFINE registry == [creature EXCEPT ![c] = AsRead(x)]
  <2>1. own \in Drawn(registry)
    BY <1>1 DEF OwnNames
  <2>2. \A d \in Creatures \ {c} : registry[d] = creature[d]
    OBVIOUS
  <2> HIDE DEF registry
  <2> QED
    BY <2>1, <2>2, DrawnIsFree
<1>2. CASE x.own \notin Own([creature EXCEPT ![c] = Absent])
  <2>1. own = x.own /\ x.own \in Names
    BY <1>2 DEF OwnNames, CreatureFile
  <2>2. \A d \in Creatures \ {c} : [creature EXCEPT ![c] = Absent][d] = creature[d]
    OBVIOUS
  <2>3. \A d \in Creatures \ {c} : creature[d].own \in Own([creature EXCEPT ![c] = Absent])
    BY <2>2 DEF Own
  <2> QED
    BY <1>2, <2>1, <2>3
<1> QED
  BY <1>1, <1>2

\* Its child's name, if it carries one, is no creature's, itself included.
LEMMA ChildNameIsFree ==
  ASSUME NEW registry, NEW name \in Name, NEW child \in ChildNames(registry, name)
  PROVE /\ child = Nobody => name = Nobody
        /\ child # Nobody =>
             child \in Names /\ \A d \in Creatures : registry[d].own # child
<1>1. CASE name \in Own(registry) \ {Nobody}
  <2>1. child \in Drawn(registry)
    BY <1>1 DEF ChildNames
  <2> QED
    BY <2>1, DrawnIsFree, NobodyAssumption
<1>2. CASE name \notin Own(registry) \ {Nobody}
  <2>1. child = name
    BY <1>2 DEF ChildNames
  <2>2. child # Nobody => \A d \in Creatures : registry[d].own # child
    BY <1>2, <2>1 DEF Own
  <2> QED
    BY <2>1, <2>2 DEF Name
<1> QED
  BY <1>1, <1>2

LEMMA KeepsImportCreature ==
  ASSUME IInv, NEW c \in Creatures, NEW x \in exported, ImportCreature(c, x)
  PROVE IInv'
<1>1. /\ creature \in [Creatures -> Record] /\ egg \in [Eggs -> EggRecord]
      /\ file \in [Names -> SomeGenes] /\ exported \subseteq CreatureFile \union EggFile
      /\ \A d \in Creatures : CreatureOK(creature[d], file)
      /\ \A d \in Eggs : EggOK(egg[d], file)
  BY DEF IInv, TypeOK, Kept
<1>2. exported' \subseteq exported
  BY DEF ImportCreature, Load
<1>3. x \in CreatureFile
  BY <1>1 DEF ImportCreature, EggFile
<1>4. x.genes \in SomeGenes /\ x.unborn \in SomeGenes /\ x.child \in Name
  BY <1>3 DEF CreatureFile
<1>5. PICK own \in OwnNames(c, x) :
        LET registry == [creature EXCEPT ![c] = Renamed(x, own)]
            others == [Supplanted(creature, own, x.genes) EXCEPT
                         ![c] = Renamed(x, own)]
            written == [file EXCEPT ![own] = x.genes]
            eggs == Overwritten(egg, own, x.genes)
        IN \E child \in ChildNames(registry, x.child) :
             IF child = Nobody
             THEN creature' = others /\ file' = written /\ egg' = eggs
             ELSE /\ creature' = [Supplanted(others, child, x.unborn) EXCEPT
                                    ![c] = [others[c] EXCEPT !.child = child]]
                  /\ file' = [written EXCEPT ![child] = x.unborn]
                  /\ egg' = Overwritten(eggs, child, x.unborn)
  BY DEF ImportCreature
<1> DEFINE r == Renamed(x, own)
           registry == [creature EXCEPT ![c] = r]
           first == Supplanted(creature, own, x.genes)
           others == [first EXCEPT ![c] = r]
           written == [file EXCEPT ![own] = x.genes]
           eggs == Overwritten(egg, own, x.genes)
<1>6. PICK child \in ChildNames(registry, x.child) :
        IF child = Nobody
        THEN creature' = others /\ file' = written /\ egg' = eggs
        ELSE /\ creature' = [Supplanted(others, child, x.unborn) EXCEPT
                               ![c] = [others[c] EXCEPT !.child = child]]
             /\ file' = [written EXCEPT ![child] = x.unborn]
             /\ egg' = Overwritten(eggs, child, x.unborn)
  BY <1>5
<1>7. own \in Names /\ \A d \in Creatures \ {c} : creature[d].own # own
  BY <1>1, <1>3, OwnNameIsFree
<1>8. /\ r \in Record /\ r.own = own /\ r.gamete \in {Nobody, own}
      /\ r.child = x.child /\ r.genes = x.genes /\ r.unborn = x.unborn
  BY <1>3, <1>7, RenamedFields
<1>9. /\ child = Nobody => x.child = Nobody
      /\ child # Nobody => child \in Names /\ \A d \in Creatures : registry[d].own # child
  BY <1>4, ChildNameIsFree
<1>10. registry[c] = r /\ \A d \in Creatures \ {c} : registry[d] = creature[d]
  BY <1>1
<1>11. child # Nobody =>
         child # own /\ \A d \in Creatures \ {c} : creature[d].own # child
  <2> HIDE DEF registry, r
  <2> QED
    BY <1>8, <1>9, <1>10
<1>12. \A d \in Creatures \ {c} :
         first[d] \in Record /\ first[d].own = creature[d].own
         /\ CreatureOK(first[d], written)
  <2>1. \A d \in Creatures \ {c} :
          CreatureOK(creature[d], file) /\ creature[d].own # own
    BY <1>1, <1>7
  <2> DEFINE g == x.genes
  <2>2. /\ creature \in [Creatures -> Record] /\ file \in [Names -> SomeGenes]
        /\ own \in Names /\ g \in SomeGenes
    BY <1>1, <1>4, <1>7
  <2> HIDE DEF r, registry, eggs, g
  <2>3. \A d \in Creatures \ {c} :
          /\ Supplanted(creature, own, g)[d] \in Record
          /\ Supplanted(creature, own, g)[d].own = creature[d].own
          /\ CreatureOK(Supplanted(creature, own, g)[d], [file EXCEPT ![own] = g])
    BY <2>1, <2>2, WriteCreatures
  <2> QED
    BY <2>3 DEF g
<1>13. written \in [Names -> SomeGenes] /\ written[own] = x.genes
  BY <1>1, <1>4, <1>7
<1>14. eggs \in [Eggs -> EggRecord] /\ \A d \in Eggs : EggOK(eggs[d], written)
  BY <1>1, <1>4, <1>7, WriteEggs
<1>15. first = [d \in Creatures |-> first[d]]
  BY DEF Supplanted
<1>16. others \in [Creatures -> Record] /\ others[c] = r
       /\ \A d \in Creatures \ {c} : others[d] = first[d]
  <2> HIDE DEF first, r
  <2> QED
    BY <1>8, <1>12, <1>15
<1>17. CASE child = Nobody
  <2>1. creature' = others /\ file' = written /\ egg' = eggs
    BY <1>6, <1>17
  <2>2. CreatureOK(r, written)
    <3> HIDE DEF r, written
    <3> QED
      BY <1>7, <1>8, <1>9, <1>13, <1>17, NobodyAssumption DEF CreatureOK
  <2>3. \A d \in Creatures : CreatureOK(others[d], written)
    <3> HIDE DEF r, written, others, first
    <3> QED
      BY <1>12, <1>16, <2>2
  <2> HIDE DEF r, written, others, first, eggs
  <2> QED
    BY <1>1, <1>2, <1>13, <1>14, <1>16, <2>1, <2>3 DEF IInv, TypeOK, Kept
<1>18. CASE child # Nobody
  <2> DEFINE second == Supplanted(others, child, x.unborn)
             s == [r EXCEPT !.child = child]
             both == [written EXCEPT ![child] = x.unborn]
             last == Overwritten(eggs, child, x.unborn)
  <2>1. creature' = [second EXCEPT ![c] = s] /\ file' = both /\ egg' = last
    BY <1>6, <1>16, <1>18
  <2> HIDE DEF r, written, others, first, eggs, registry
  <2>2. child \in Names /\ child # own
    BY <1>9, <1>11, <1>18
  <2>3. \A d \in Creatures \ {c} :
          CreatureOK(others[d], written) /\ others[d].own # child
    BY <1>11, <1>12, <1>16, <1>18
  <2>4. \A d \in Creatures \ {c} :
          second[d] \in Record /\ CreatureOK(second[d], both)
    BY <1>4, <1>13, <1>16, <2>2, <2>3, WriteCreatures
  <2>5. last \in [Eggs -> EggRecord] /\ \A d \in Eggs : EggOK(last[d], both)
    BY <1>4, <1>13, <1>14, <2>2, WriteEggs
  <2>6. both \in [Names -> SomeGenes] /\ both[child] = x.unborn /\ both[own] = x.genes
    BY <1>4, <1>7, <1>13, <2>2
  <2>7. s \in Record /\ s.own = own /\ s.gamete = r.gamete /\ s.child = child
        /\ s.genes = x.genes /\ s.unborn = x.unborn
    BY <1>8, <2>2 DEF Record, Name
  <2>8. second = [d \in Creatures |-> second[d]]
    BY DEF Supplanted
  <2> HIDE DEF second, s, both, last
  <2>9. CreatureOK(s, both)
    BY <1>7, <1>8, <2>2, <2>6, <2>7 DEF CreatureOK
  <2>10. creature' \in [Creatures -> Record]
         /\ \A d \in Creatures : CreatureOK(creature'[d], both)
    BY <2>1, <2>4, <2>7, <2>8, <2>9
  <2> QED
    BY <1>1, <1>2, <2>1, <2>5, <2>6, <2>10 DEF IInv, TypeOK, Kept
<1> QED
  BY <1>17, <1>18

-------------------------------------------------------------------------------
(* The theorem.                                                            *)

LEMMA StepKeeps ==
  ASSUME IInv, [Next]_vars
  PROVE IInv'
<1>1. CASE UNCHANGED vars
  BY <1>1 DEF vars, IInv, TypeOK, Kept
<1>2. ASSUME NEW c \in Creatures, Live(c) \/ TestCreature(c) \/ Transfer(c)
      PROVE IInv'
  BY <1>2, KeepsLife, KeepsTest, KeepsExportCreature, KeepsImportCreature DEF Transfer
<1>3. ASSUME NEW c \in Creatures, NEW recipient \in Creatures, Mate(c, recipient)
      PROVE IInv'
  BY <1>3, KeepsFruitless, KeepsConceives DEF Mate
<1>4. ASSUME NEW c \in Creatures, NEW e \in Eggs, Lay(c, e) PROVE IInv'
  BY <1>4, KeepsLay
<1>5. ASSUME NEW e \in Eggs, HatcheryEgg(e) \/ TransferEgg(e) PROVE IInv'
  BY <1>5, KeepsHatchery, KeepsExportEgg, KeepsImportEgg DEF TransferEgg
<1>6. ASSUME NEW x \in exported, Discard(x) PROVE IInv'
  BY <1>6, KeepsDiscard
<1> QED
  BY <1>1, <1>2, <1>3, <1>4, <1>5, <1>6 DEF Next

LEMMA InitKeeps ==
  ASSUME Init PROVE IInv
<1>1. TypeOK
  BY AbsentIsRecord DEF Init, TypeOK, SomeGenes
<1>2. Kept
  BY NoEggIsOK DEF Init, Kept, CreatureOK
<1> QED
  BY <1>1, <1>2 DEF IInv

LEMMA KeptIsSound ==
  ASSUME IInv PROVE BreedingSound
<1>1. GenesKept /\ GameteIsOwn /\ ChildIsAnother
  BY DEF IInv, Kept, CreatureOK, Living, GenesKept, GameteIsOwn, ChildIsAnother
<1>2. UnbornKept
  BY DEF IInv, Kept, CreatureOK, EggOK, Living, Laid, UnbornKept
<1> QED
  BY <1>1, <1>2 DEF IInv, BreedingSound

\* Whatever creatures and eggs are bred, laid, made by the Hatchery, taken out
\* of the world and brought back, copies too, and whichever free names are
\* drawn: each living creature has its own genes in its file, its gamete is its
\* own, and the unborn keep theirs.
THEOREM BreedingIsSound == Spec => []BreedingSound
<1>1. Init => IInv
  BY InitKeeps
<1>2. IInv /\ [Next]_vars => IInv'
  BY StepKeeps
<1>3. IInv => BreedingSound
  BY KeptIsSound
<1> QED
  BY <1>1, <1>2, <1>3, PTL DEF Spec
=============================================================================
