-------------------------------- MODULE Genome --------------------------------
(***************************************************************************)
(* Genomes: how a gene is copied with mutations, who reads which gene of a *)
(* genome, and how the genomes of two parents are crossed into a child's.  *)
(*                                                                         *)
(* A genome is the sequence of its genes; the tags between them and the    *)
(* end mark are left out, so a mutation that happens to write a tag, and a *)
(* file cut inside a gene, are too.  A flag byte is a set of flags.  Draws *)
(* of rand are choices.  Rows of the repository's list of native bugs are  *)
(* fixed as in an ordinary build.                                          *)
(***************************************************************************)
EXTENDS Integers, Sequences, FiniteSets

CONSTANT RunLengths   \* genes copied before the next crossover: 10 .. 100

ASSUME RunLengthsAssumption == RunLengths # {} /\ RunLengths \subseteq Nat \ {0}

GeneByte == 0 .. 255
Gext == 256   \* the four bytes of a pigment extension's tag

Flag == {"mutation", "duplication", "omission", "male", "female"}

\* An identity is a family, a subtype and a sequence number.
Gene == [identity : GeneByte \X GeneByte \X GeneByte, generation : GeneByte, stage : GeneByte,
         flags : SUBSET Flag, data : Seq(GeneByte \union {Gext})]

-------------------------------------------------------------------------------
(* Copies.  A mutation flips one bit, or none when the draw passes bit 7.  *)

Flip(byte, bit) ==
  IF bit = 8 THEN byte
  ELSE IF (byte \div 2 ^ bit) % 2 = 1 THEN byte - 2 ^ bit ELSE byte + 2 ^ bit

Mutants(byte) == {Flip(byte, bit) : bit \in 0 .. 8}

Copied(gene, item) ==
  IF "mutation" \in gene.flags /\ item # Gext THEN Mutants(item) ELSE {item}

CopiedData(gene) ==
  LET items == UNION {Copied(gene, gene.data[i]) : i \in DOMAIN gene.data}
  IN {data \in [DOMAIN gene.data -> items] :
        \A i \in DOMAIN gene.data : data[i] \in Copied(gene, gene.data[i])}

\* The header but for the stage is copied as it is.
Copy(gene, stage, data) == [gene EXCEPT !.stage = stage, !.data = data]
Copies(gene) ==
  {Copy(gene, stage, data) :
     stage \in Copied(gene, gene.stage), data \in CopiedData(gene)}

-------------------------------------------------------------------------------
(* Readers: the loaders of the brain, the chemistry and the body.          *)

Reader(family, subtypes, filter) ==
  {[family |-> family, subtype |-> s, modulus |-> subtypes, filter |-> filter] :
     s \in 0 .. subtypes - 1}

BrainReaders == Reader(0, 1, "zero")
ChemistryReaders == Reader(1, 5, "match")
\* Genus, appearance and pigments are read whatever the stage.
CreatureReaders ==
  {[r EXCEPT !.filter = IF r.subtype \in {1, 2, 6} THEN "ignore" ELSE "match"] :
     r \in Reader(2, 7, "match")}
Readers == BrainReaders \union ChemistryReaders \union CreatureReaders

Selects(reader, gene) ==
  /\ gene.identity[1] % 3 = reader.family
  /\ gene.identity[2] % reader.modulus = reader.subtype

AppliesTo(gene, sex) ==
  gene.flags \intersect {"male", "female"} # {} => sex \in gene.flags

AtStage(reader, gene, stage) ==
  \/ reader.filter = "ignore"
  \/ reader.filter = "match" /\ gene.stage = stage
  \/ reader.filter = "zero" /\ gene.stage = 0

Reads(reader, gene, stage, sex) ==
  Selects(reader, gene) /\ AtStage(reader, gene, stage) /\ AppliesTo(gene, sex)

\* The genes a loader's loop over find_next_matching_gene gets, in order.
Loaded(genome, reader, stage, sex) ==
  LET Is(gene) == Reads(reader, gene, stage, sex) IN SelectSeq(genome, Is)

CountMatchingGenes(genome, reader, sex) ==
  Cardinality({i \in DOMAIN genome : Selects(reader, genome[i])
                                     /\ AppliesTo(genome[i], sex)})

-------------------------------------------------------------------------------
(* Crossing.  `at` is each parent's cursor, `from` the parent being copied *)
(* and `todo` what is left of the run; 0 of a run asks where to go on.     *)

Parent == {"maternal", "paternal"}
Other(p) == CHOOSE q \in Parent : q # p
NoIdentity == <<0, 0, 0>>

Crossing(maternal, paternal, first, run) ==
  [genes |-> [p \in Parent |-> IF p = "maternal" THEN maternal ELSE paternal],
   at |-> [p \in Parent |-> 1], from |-> first, todo |-> run,
   last |-> NoIdentity, child |-> <<>>, done |-> FALSE,
   duplications |-> 0, omissions |-> 0]

Starts(maternal, paternal) ==
  {Crossing(maternal, paternal, first, run) : first \in Parent, run \in RunLengths}

Active(s) == s.genes[s.from]
Here(s) == s.at[s.from]
AtEnd(s) == Here(s) = Len(Active(s)) + 1

Ended(s) == {[s EXCEPT !.done = TRUE]}

\* A copy, at the cursor, of what may be the same gene of a new generation.
Appended(s, gene) ==
  {[s EXCEPT !.at[s.from] = @ + 1, !.child = Append(@, copy)] : copy \in Copies(gene)}

CopyNext(s) ==
  LET gene == Active(s)[Here(s)] IN
  {[t EXCEPT !.todo = @ - 1, !.last = gene.identity] : t \in Appended(s, gene)}

\* Where the other parent has its first gene of an identity, or its end.
Match(genome, identity) ==
  LET found == {i \in DOMAIN genome : genome[i].identity = identity} IN
  IF found = {} THEN Len(genome) + 1
  ELSE CHOOSE i \in found : \A j \in found : i <= j

\* The other parent's cursor is moved whether or not the crossing is made.
Sought(s) ==
  [s EXCEPT !.at[Other(s.from)] = Match(s.genes[Other(s.from)],
                                        Active(s)[Here(s)].identity)]

GoesOn(s) == {[s EXCEPT !.todo = run] : run \in RunLengths}
Swapped(s) == GoesOn([s EXCEPT !.from = Other(@)])

\* The gene gets its generation in the parent's copy, and comes twice: once
\* from each parent.
DuplicateRun(s) ==
  LET newer == [Active(s)[Here(s)] EXCEPT !.generation = (@ + 1) % 256]
      aged == [s EXCEPT !.genes[s.from][Here(s)] = newer,
                        !.duplications = @ + 1]
  IN IF "duplication" \notin newer.flags THEN Swapped(s)
     ELSE UNION {Swapped(t) : t \in Appended(aged, newer)}

\* The gene comes from neither parent.
Omit(s) ==
  LET p == Other(s.from) IN
  IF "omission" \notin s.genes[p][s.at[p]].flags THEN Swapped(s)
  ELSE Swapped([s EXCEPT !.at[p] = @ + 1, !.omissions = @ + 1])

CrossAt(s) ==
  IF \/ s.at[Other(s.from)] = Len(s.genes[Other(s.from)]) + 1
     \/ Active(s)[Here(s)].identity = s.last
  THEN GoesOn(s)
  ELSE Swapped(s) \union DuplicateRun(s) \union Omit(s)

Steps(s) ==
  IF s.done THEN {}
  ELSE IF AtEnd(s) THEN Ended(s)
  ELSE IF s.todo > 0 THEN CopyNext(s)
  ELSE CrossAt(Sought(s))

-------------------------------------------------------------------------------
(* What crossing keeps.                                                    *)

Identities(genome) == [i \in DOMAIN genome |-> genome[i].identity]

\* The parents have the same genes, in the same order, each once.
Homologous(maternal, paternal) ==
  /\ Identities(maternal) = Identities(paternal)
  /\ \A i, j \in DOMAIN maternal :
       maternal[i].identity = maternal[j].identity => i = j

\* The child has the parents' genes in the parents' order up to the cursor:
\* a gene is doubled or missing only where it was duplicated or omitted.
Aligned(s, parent) ==
  /\ \A i \in DOMAIN s.child : \E k \in DOMAIN parent :
       s.child[i].identity = parent[k].identity
  /\ \A i, j \in DOMAIN s.child, k, l \in DOMAIN parent :
       /\ i < j
       /\ s.child[i].identity = parent[k].identity
       /\ s.child[j].identity = parent[l].identity
       => k <= l
  /\ Len(s.child) = Here(s) - 1 + s.duplications - s.omissions

\* A gene but for the bytes that may mutate and its generation.
Fixed(gene) == [identity |-> gene.identity, flags |-> gene.flags,
                length |-> Len(gene.data)]

FromParents(s) ==
  \A i \in DOMAIN s.child : \E p \in Parent : \E k \in DOMAIN s.genes[p] :
    Fixed(s.child[i]) = Fixed(s.genes[p][k])

\* The child begins with the first gene of a parent, where its parents'
\* names are written.
HeadKept(s) ==
  s.child # <<>> => \E p \in Parent : Fixed(s.child[1]) = Fixed(s.genes[p][1])
===============================================================================
