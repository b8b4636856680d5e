------------------------------- MODULE MCGenome -------------------------------
(***************************************************************************)
(* Genomes on bounded inputs: every byte's mutants, every selector, and    *)
(* every way to cross small genomes with runs of one or two genes.         *)
(***************************************************************************)
EXTENDS Genome, TLC

\* A mutation changes at most one bit of a byte.
ASSUME MutantsDiffer ==
  \A byte \in GeneByte :
    /\ Mutants(byte) \subseteq GeneByte
    /\ Cardinality(Mutants(byte)) = 9
    /\ \A other \in Mutants(byte) : byte \in Mutants(other)

\* Every gene is read by exactly one loader.
ASSUME OneReader ==
  \A family, subtype \in GeneByte :
    Cardinality({r \in Readers :
      Selects(r, [identity |-> <<family, subtype, 0>>])}) = 1

McGene(number, flags) ==
  [identity |-> <<2, 0, number>>, generation |-> 255, stage |-> 0,
   flags |-> flags, data |-> <<Gext>>]
McFree == {"duplication", "omission"}

\* Every crossing that can be reached from the given ones.
RECURSIVE Reached(_, _)
Reached(new, old) ==
  IF new = {} THEN old
  ELSE LET all == old \union new
       IN Reached(UNION {Steps(s) : s \in new} \ all, all)
McCrossings(maternal, paternal) == Reached(Starts(maternal, paternal), {})

McLike(n, flags) == [i \in 1 .. n |-> McGene(i, flags)]

\* Homologous parents, some of whose genes may not be duplicated or omitted.
ASSUME AlignedOnSmall ==
  \A n \in 0 .. 4, f, g \in {{}, {"omission"}, McFree} :
    LET maternal == McLike(n, f)
        paternal == McLike(n, g)
    IN \A s \in McCrossings(maternal, paternal) :
         Aligned(s, maternal) /\ FromParents(s) /\ HeadKept(s)

\* Parents with genes in other orders, more than once, or not at all.  The
\* length of a child is not bounded then, so its crossings are cut off.
RECURSIVE ReachedIn(_, _, _)
ReachedIn(steps, new, old) ==
  IF steps = 0 \/ new = {} THEN old \union new
  ELSE LET all == old \union new
       IN ReachedIn(steps - 1, UNION {Steps(s) : s \in new} \ all, all)

ASSUME AnyParents ==
  \A a, b \in {<<1>>, <<1, 2>>, <<2, 1>>, <<1, 2, 1>>, <<3, 3, 2>>} :
    LET Line(numbers) == [i \in DOMAIN numbers |-> McGene(numbers[i], McFree)]
    IN \A s \in ReachedIn(8, Starts(Line(a), Line(b)), {}) :
         FromParents(s) /\ HeadKept(s)

\* A mutable gene and one that is not, read at another stage once it mutates.
McMutable == [McGene(1, {"mutation"}) EXCEPT !.data = <<Gext, 7>>]
ASSUME MutationMovesAStage ==
  /\ Copies(McGene(1, McFree)) = {McGene(1, McFree)}
  /\ Cardinality(Copies(McMutable)) = 81
  /\ \A copy \in Copies(McMutable), reader \in CreatureReaders :
       /\ copy.data[1] = Gext
       /\ Loaded(<<copy>>, reader, copy.stage, "male")
            = IF reader.subtype = 0 THEN <<copy>> ELSE <<>>
===============================================================================
