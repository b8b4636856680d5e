------------------------------- MODULE Breeding -------------------------------
(***************************************************************************)
(* Who is called what, and whose genes are in which file.  A creature's    *)
(* name (its moniker) is also that of its genome file, read again each     *)
(* time it grows up, is mated or is exported; so two that share a name     *)
(* share genes.  Names are four random characters, checked against those   *)
(* in use, and travel with exported creatures and eggs.                    *)
(*                                                                         *)
(* Genes are numbers: each crossing makes one that nobody has.  A crossing *)
(* itself is the module Genome.  The egg and hatching scripts are data of  *)
(* the world, external; so is the Hatchery, a kit.                         *)
(***************************************************************************)
EXTENDS Naturals, FiniteSets

CONSTANTS
  Creatures,    \* places in the creature registry
  Eggs,         \* places for eggs in the world
  Names,        \* what the draws of a name can give
  Nobody,       \* a name field that is 0
  Genes,        \* bound: the crossings that somebody has, or a file holds
  MaxDead,      \* bound: the dead in the registry and in files
  MaxExported   \* bound: files of exported creatures and eggs

ASSUME NobodyAssumption == Nobody \notin Names

VARIABLES
  creature,     \* the registry: Absent, or names and genes of a creature
  egg,          \* the eggs: Absent, or the name in obv0 and the genes
  file,         \* genome files: the genes in the file of each name
  exported      \* files of creatures (.exp) and eggs (.egg), and copies

vars == <<creature, egg, file, exported>>

Absent == [own |-> Nobody, gamete |-> Nobody, child |-> Nobody,
           genes |-> 0, unborn |-> 0, dead |-> FALSE]
NoEgg == [name |-> Nobody, genes |-> 0]

Living == {c \in Creatures : creature[c] # Absent}
Laid == {e \in Eggs : egg[e] # NoEgg}

Name == Names \union {Nobody}
SomeGenes == Genes \union {0}
Record == [own : Name, gamete : Name, child : Name,
           genes : SomeGenes, unborn : SomeGenes, dead : BOOLEAN]
EggRecord == [name : Name, genes : SomeGenes]
CreatureFile == [kind : {"creature"}, own : Names, gamete : Name, child : Name,
                 genes : SomeGenes, unborn : SomeGenes, dead : BOOLEAN]
EggFile == [kind : {"egg"}, own : Names, genes : SomeGenes]

TypeOK ==
  /\ creature \in [Creatures -> Record]
  /\ egg \in [Eggs -> EggRecord]
  /\ file \in [Names -> SomeGenes]
  /\ exported \subseteq CreatureFile \union EggFile

Init ==
  /\ creature = [c \in Creatures |-> Absent]
  /\ egg = [e \in Eggs |-> NoEgg]
  /\ file = [n \in Names |-> 0]
  /\ exported = {}

-------------------------------------------------------------------------------
(* Names.                                                                  *)

\* A conception's draw looks at every creature, dead ones too, but at no egg.
Own(registry) == {registry[c].own : c \in Creatures}
ToBe(registry) == {registry[c].child : c \in Creatures}
                    \union {registry[c].gamete : c \in Creatures}
Drawn(registry) == Names \ (Own(registry) \union ToBe(registry))

OfEggs == {egg[e].name : e \in Eggs}

\* Genes that nobody has and no file holds: what is crossed anew.
Known ==
  {creature[c].genes : c \in Creatures} \union {creature[c].unborn : c \in Creatures}
    \union {egg[e].genes : e \in Eggs} \union {file[n] : n \in Names}
    \union {x.genes : x \in exported}
    \union {x.unborn : x \in {y \in exported : y.kind = "creature"}}
NewGenes == CHOOSE g \in Genes : g \notin Known
Room == ~ Genes \subseteq Known

\* The eggs and the unborn whose file is written under them lose their
\* genes to the writer's: what the draw, and an import, do not look at.
Overwritten(eggs, name, genes) ==
  [e \in Eggs |-> IF eggs[e].name = name THEN [eggs[e] EXCEPT !.genes = genes]
                  ELSE eggs[e]]
Supplanted(registry, name, genes) ==
  [c \in Creatures |-> IF registry[c].child = name
                       THEN [registry[c] EXCEPT !.unborn = genes]
                       ELSE registry[c]]

-------------------------------------------------------------------------------
(* Creatures.                                                              *)

\* A creature has a gamete, which is its own name, while it ovulates.
Ovulates(c) ==
  /\ c \in Living /\ ~creature[c].dead /\ creature[c].gamete = Nobody
  /\ creature' = [creature EXCEPT ![c].gamete = creature[c].own]
  /\ UNCHANGED <<egg, file, exported>>

Settles(c) ==
  /\ c \in Living /\ ~creature[c].dead /\ creature[c].gamete # Nobody
  /\ creature' = [creature EXCEPT ![c].gamete = Nobody]
  /\ UNCHANGED <<egg, file, exported>>

\* The gamete of the one that mates is used up whatever comes of it.
Fruitless(c, recipient) ==
  /\ {c, recipient} \subseteq Living /\ c # recipient
  /\ creature' = [creature EXCEPT ![c].gamete = Nobody]
  /\ UNCHANGED <<egg, file, exported>>

Conceives(c, recipient) ==
  /\ {c, recipient} \subseteq Living /\ c # recipient
  /\ creature[c].gamete # Nobody /\ creature[recipient].gamete # Nobody
  /\ creature[recipient].child = Nobody
  /\ Room /\ \E name \in Drawn(creature) :
       /\ creature' = [creature EXCEPT ![recipient].child = name,
                                       ![recipient].unborn = NewGenes,
                                       ![c].gamete = Nobody]
       /\ file' = [file EXCEPT ![name] = NewGenes]
       /\ egg' = Overwritten(egg, name, NewGenes)
  /\ UNCHANGED exported

\* A creature that grows up is built from its file again.
Grows(c) ==
  /\ c \in Living /\ ~creature[c].dead
  /\ creature' = [creature EXCEPT ![c].genes = file[creature[c].own]]
  /\ UNCHANGED <<egg, file, exported>>

Dead ==
  {c \in Creatures : creature[c].dead}
    \union {x \in exported : x.kind = "creature" /\ x.dead}

Dies(c) ==
  /\ c \in Living /\ ~creature[c].dead /\ Cardinality(Dead) < MaxDead
  /\ creature' = [creature EXCEPT ![c].dead = TRUE]
  /\ UNCHANGED <<egg, file, exported>>

Delete(c) ==
  /\ c \in Living
  /\ creature' = [creature EXCEPT ![c] = Absent]
  /\ UNCHANGED <<egg, file, exported>>

-------------------------------------------------------------------------------
(* Eggs.                                                                   *)

\* A mother's script makes an egg of her child and sets BABY to 0.
LayEgg(c, e) ==
  /\ c \in Living /\ creature[c].child # Nobody /\ e \notin Laid
  /\ egg' = [egg EXCEPT ![e] = [name |-> creature[c].child,
                                genes |-> creature[c].unborn]]
  /\ creature' = [creature EXCEPT ![c].child = Nobody, ![c].unborn = 0]
  /\ UNCHANGED <<file, exported>>

\* new: gene, of two genomes that are nobody's, into obv0 of a new egg.
HatcheryEgg(e) ==
  /\ e \notin Laid
  /\ Room /\ \E name \in Drawn(creature) :
       /\ egg' = [Overwritten(egg, name, NewGenes) EXCEPT
                    ![e] = [name |-> name, genes |-> NewGenes]]
       /\ file' = [file EXCEPT ![name] = NewGenes]
  /\ UNCHANGED <<creature, exported>>

Born(name, genes) ==
  [own |-> name, gamete |-> Nobody, child |-> Nobody,
   genes |-> genes, unborn |-> 0, dead |-> FALSE]

\* new: crea, of obv0; the egg goes.
Hatch(e, c) ==
  /\ e \in Laid /\ c \notin Living
  /\ creature' = [creature EXCEPT ![c] = Born(egg[e].name, file[egg[e].name])]
  /\ egg' = [egg EXCEPT ![e] = NoEgg]
  /\ UNCHANGED <<file, exported>>

\* The Testing menu's creature has a copy of the genome "test".
TestCreature(c) ==
  /\ c \notin Living
  /\ Room /\ \E name \in Drawn(creature) :
       /\ creature' = [creature EXCEPT ![c] = Born(name, NewGenes)]
       /\ file' = [file EXCEPT ![name] = NewGenes]
       /\ egg' = Overwritten(egg, name, NewGenes)
  /\ UNCHANGED exported

-------------------------------------------------------------------------------
(* Export and import.  An export moves one out of the world with what its  *)
(* genome file, and its child's, hold, also one that has died while it was *)
(* selected; an import removes the file, of which the player may have kept *)
(* a copy.                                                                 *)

Save(record) ==
  /\ Cardinality(exported \union {record}) <= MaxExported
  /\ exported' = exported \union {record}

Load(record) == exported' \in {exported, exported \ {record}}

Contents(name) == IF name = Nobody THEN 0 ELSE file[name]

ExportCreature(c) ==
  LET x == creature[c] IN
  /\ c \in Living
  /\ Save([kind |-> "creature", own |-> x.own, gamete |-> x.gamete,
           child |-> x.child, genes |-> Contents(x.own),
           unborn |-> Contents(x.child), dead |-> x.dead])
  /\ creature' = [creature EXCEPT ![c] = Absent]
  /\ UNCHANGED <<egg, file>>

\* What the creature has from its file before its names are looked at.
AsRead(x) ==
  [own |-> x.own, gamete |-> x.gamete, child |-> x.child,
   genes |-> x.genes, unborn |-> x.unborn, dead |-> x.dead]

\* Its own name is renewed if another creature has it.
OwnNames(c, x) ==
  IF x.own \in Own([creature EXCEPT ![c] = Absent])
  THEN Drawn([creature EXCEPT ![c] = AsRead(x)]) ELSE {x.own}

\* Mutant: a renamed creature breeds with the file of its old name.
RenamedAlone(x, own) == [AsRead(x) EXCEPT !.own = own]

\* A gamete follows the name.
Renamed(x, own) ==
  [AsRead(x) EXCEPT !.own = own,
                    !.gamete = IF @ = Nobody THEN Nobody ELSE own]

\* Its child's name is renewed if any creature, itself too, has it.
ChildNames(registry, child) ==
  IF child \in Own(registry) \ {Nobody} THEN Drawn(registry) ELSE {child}

ImportCreature(c, x) ==
  /\ c \notin Living /\ x \in exported /\ x.kind = "creature"
  /\ \E own \in OwnNames(c, x) :
       LET registry == [creature EXCEPT ![c] = Renamed(x, own)]
           others == [Supplanted(creature, own, x.genes) EXCEPT
                        ![c] = Renamed(x, own)]
           written == [file EXCEPT ![own] = x.genes]
           eggs == Overwritten(egg, own, x.genes)
       IN \E child \in ChildNames(registry, x.child) :
            IF child = Nobody
            THEN creature' = others /\ file' = written /\ egg' = eggs
            ELSE /\ creature' = [Supplanted(others, child, x.unborn) EXCEPT
                                   ![c] = [others[c] EXCEPT !.child = child]]
                 /\ file' = [written EXCEPT ![child] = x.unborn]
                 /\ egg' = Overwritten(eggs, child, x.unborn)
  /\ Load(x)

ExportEgg(e) ==
  /\ e \in Laid
  /\ Save([kind |-> "egg", own |-> egg[e].name, genes |-> Contents(egg[e].name)])
  /\ egg' = [egg EXCEPT ![e] = NoEgg]
  /\ UNCHANGED <<creature, file>>

\* An egg's name is looked for among creatures, eggs and genome files.
Taken(genes) ==
  Own(creature) \union ToBe(creature) \union OfEggs
    \union {n \in Names : file[n] \notin {0, genes}}

ImportEgg(e, x) ==
  /\ e \notin Laid /\ x \in exported /\ x.kind = "egg"
  /\ \E name \in IF x.own \in Taken(x.genes) THEN Names \ Taken(x.genes)
                 ELSE {x.own} :
       /\ egg' = [egg EXCEPT ![e] = [name |-> name, genes |-> x.genes]]
       /\ file' = [file EXCEPT ![name] = x.genes]
  /\ Load(x)
  /\ UNCHANGED creature

\* The player throws a file away.
Discard(x) ==
  exported' = exported \ {x} /\ UNCHANGED <<creature, egg, file>>

-------------------------------------------------------------------------------
Live(c) == Ovulates(c) \/ Settles(c) \/ Grows(c) \/ Dies(c) \/ Delete(c)
Mate(c, recipient) == Fruitless(c, recipient) \/ Conceives(c, recipient)
Lay(c, e) == LayEgg(c, e) \/ Hatch(e, c)
Transfer(c) ==
  ExportCreature(c) \/ (\E x \in exported : ImportCreature(c, x))
TransferEgg(e) == ExportEgg(e) \/ (\E x \in exported : ImportEgg(e, x))

Next ==
  \/ \E c \in Creatures : Live(c) \/ TestCreature(c) \/ Transfer(c)
  \/ \E c, recipient \in Creatures : Mate(c, recipient)
  \/ \E c \in Creatures, e \in Eggs : Lay(c, e)
  \/ \E e \in Eggs : HatcheryEgg(e) \/ TransferEgg(e)
  \/ \E x \in exported : Discard(x)

Spec == Init /\ [][Next]_vars

-------------------------------------------------------------------------------
(* Properties.                                                             *)

\* Nobody's file is ever written over while a creature has its name: it grows
\* up, breeds and is exported with the genes it was born with.
GenesKept == \A c \in Living : file[creature[c].own] = creature[c].genes

\* A gamete gives its bearer's genes, also after a rename: the child has the
\* parents it shows.
GameteIsOwn == \A c \in Living : creature[c].gamete \in {Nobody, creature[c].own}

\* A child, carried or laid, is born with the genes it was conceived with,
\* but where its name was drawn again or came with an import.
UnbornKept ==
  /\ \A c \in Living : creature[c].child # Nobody =>
       file[creature[c].child] = creature[c].unborn
  /\ \A e \in Laid : file[egg[e].name] = egg[e].genes

\* No creature carries a child under its own name.
ChildIsAnother == \A c \in Living : creature[c].child # creature[c].own

BreedingSound ==
  TypeOK /\ GenesKept /\ GameteIsOwn /\ UnbornKept /\ ChildIsAnother
===============================================================================
