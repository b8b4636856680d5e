------------------------------ MODULE WorldFiles ------------------------------
(***************************************************************************)
(* The world on disk: Document::save, the autosave around it, opening, and *)
(* the two generations of backups that archive/backup.cpp keeps.           *)
(*                                                                         *)
(* A save is a list of file operations, `todo`, done in order; the game    *)
(* may end between any two of them, or in the middle of one.  A world file *)
(* is whole, cut short or absent; a whole one is the generation it was     *)
(* saved in and the creatures it holds.                                    *)
(***************************************************************************)
EXTENDS Integers, Sequences, FiniteSets

CONSTANTS
    Norns,       \* creatures; each has a sprite file of its own
    MaxSaves,    \* saves that are begun
    MaxTroubles, \* crashes and writes that fail
    DiskFills    \* may a write that has cut the old file fail half way?

ASSUME WorldFilesAssumption ==
    MaxSaves \in Nat /\ MaxTroubles \in Nat /\ DiskFills \in BOOLEAN

VARIABLES
    disk,     \* the world file and the creature sprites of each directory
    running,  \* the game has the world open
    living,   \* creatures in the world
    killed,   \* creatures that are out of the world but not yet destroyed
    todo,     \* file operations the save or the opening has still to do
    saves,
    troubles

fileVars == <<disk, running, living, killed, todo, saves, troubles>>

Directories == {"Main", "TempBu", "Backup"}
Absent == [kind |-> "absent", generation |-> 0, holds |-> {}]
Cut == [kind |-> "cut", generation |-> 0, holds |-> {}]
Whole(n, S) == [kind |-> "whole", generation |-> n, holds |-> S]
Worlds == {Absent, Cut} \union {Whole(n, S) : n \in 0 .. MaxSaves, S \in SUBSET Norns}

\* An operation is its kind and the directories it reads and writes.
Op(kind, from, to) == [kind |-> kind, from |-> from, to |-> to]
Kinds == {"removeWorld", "removeSprite", "copyWorld", "copyAll", "copyLiving",
          "reap", "write", "finish"}

FilesTypeOK ==
    /\ disk \in [Directories -> [world : Worlds, sprites : SUBSET Norns]]
    /\ running \in BOOLEAN
    /\ living \subseteq Norns /\ killed \subseteq Norns \ living
    /\ todo \in Seq([kind : Kinds, from : Directories, to : Directories])
    /\ saves \in 0 .. MaxSaves /\ troubles \in 0 .. MaxTroubles

FilesInit ==
    /\ \E S \in SUBSET Norns :
          /\ living = S
          /\ disk = [d \in Directories |-> [world |-> Whole(0, S), sprites |-> S]]
    /\ running = TRUE /\ killed = {} /\ todo = <<>> /\ saves = 0 /\ troubles = 0

-----------------------------------------------------------------------------
\* remove_backup_contents: the world, and the first sprite file it finds
Empty(d) == <<Op("removeWorld", d, d), Op("removeSprite", d, d)>>

\* a variant: the sprites are forgotten
PromoteWorldOnly == Empty("Backup") \o <<Op("copyWorld", "TempBu", "Backup")>>

\* promote_temporary_world_backup
Promote == Empty("Backup") \o <<Op("copyWorld", "TempBu", "Backup"),
                                Op("copyAll", "TempBu", "Backup")>>

\* refresh_temporary_world_backup
Refresh == Empty("TempBu") \o <<Op("copyWorld", "Main", "TempBu"),
                                Op("copyLiving", "Main", "TempBu")>>

\* Document::save: what nothing refers to is destroyed with its sprite file, the
\* backup is promoted, MFC writes the archive.
SaveSteps == <<Op("reap", "Main", "Main")>> \o Promote \o <<Op("write", "Main", "Main")>>

\* a variant: both backups are emptied first
AutosaveEmptying == Empty("Backup") \o Empty("TempBu") \o SaveSteps \o Refresh
\* the autosave promotes, saves (which promotes again) and refreshes
Autosave == Promote \o SaveSteps \o Refresh

Idle == running /\ todo = <<>>

BeginSave ==
    /\ Idle /\ saves < MaxSaves
    /\ saves' = saves + 1
    /\ \/ todo' = SaveSteps
       \/ todo' = Autosave
    /\ UNCHANGED <<disk, running, living, killed, troubles>>

\* New creatures get their sprite file when they are born.
Hatch(c) ==
    /\ Idle /\ c \notin living \union killed
    /\ c \notin UNION {disk[d].world.holds : d \in Directories}
    /\ living' = living \union {c}
    /\ disk' = [disk EXCEPT !["Main"].sprites = @ \union {c}]
    /\ UNCHANGED <<running, killed, todo, saves, troubles>>

Kill(c) ==
    /\ Idle /\ c \in living
    /\ living' = living \ {c} /\ killed' = killed \union {c}
    /\ UNCHANGED <<disk, running, todo, saves, troubles>>

-----------------------------------------------------------------------------
Now == Head(todo)
Done == todo' = Tail(todo)

RemoveWorld ==
    /\ todo # <<>> /\ Now.kind = "removeWorld"
    /\ disk' = [disk EXCEPT ![Now.to].world = Absent]
    /\ Done /\ UNCHANGED <<running, living, killed, saves, troubles>>

\* remove_first_matching_file: one of them, whichever the search names first
RemoveSprite ==
    /\ todo # <<>> /\ Now.kind = "removeSprite"
    /\ IF disk[Now.to].sprites = {}
       THEN disk' = disk
       ELSE \E c \in disk[Now.to].sprites : disk' = [disk EXCEPT ![Now.to].sprites = @ \ {c}]
    /\ Done /\ UNCHANGED <<running, living, killed, saves, troubles>>

\* copy_files_matching_pattern: nothing is copied of a file that is absent
CopyWorld ==
    /\ todo # <<>> /\ Now.kind = "copyWorld"
    /\ disk' = IF disk[Now.from].world = Absent THEN disk
               ELSE [disk EXCEPT ![Now.to].world = disk[Now.from].world]
    /\ Done /\ UNCHANGED <<running, living, killed, saves, troubles>>

CopySprites ==
    /\ todo # <<>> /\ Now.kind \in {"copyAll", "copyLiving"}
    /\ LET chosen == IF Now.kind = "copyAll" THEN Norns ELSE living
       IN  disk' = [disk EXCEPT ![Now.to].sprites = @ \union (disk[Now.from].sprites \cap chosen)]
    /\ Done /\ UNCHANGED <<running, living, killed, saves, troubles>>

\* can_be_destroyed decides which of the killed may go now.
Reap ==
    /\ todo # <<>> /\ Now.kind = "reap"
    /\ \E S \in SUBSET killed :
          /\ killed' = killed \ S
          /\ disk' = [disk EXCEPT !["Main"].sprites = @ \ S]
    /\ Done /\ UNCHANGED <<running, living, saves, troubles>>

\* CDocument::OnSaveDocument writes beside the old file and then replaces it, or,
\* when there is no room for two, cuts the old one and writes over it.
Write ==
    /\ todo # <<>> /\ Now.kind = "write"
    /\ \/ disk' = [disk EXCEPT !["Main"].world = Whole(saves, living)] /\ Done
       \/ /\ disk' = [disk EXCEPT !["Main"].world = Cut]
          /\ todo' = <<Op("finish", "Main", "Main")>> \o Tail(todo)
    /\ UNCHANGED <<running, living, killed, saves, troubles>>

Finish ==
    /\ todo # <<>> /\ Now.kind = "finish"
    /\ disk' = [disk EXCEPT !["Main"].world = Whole(saves, living)]
    /\ Done /\ UNCHANGED <<running, living, killed, saves, troubles>>

\* MFC reports the failure, save() returns true and the caller goes on.
WriteFails ==
    /\ todo # <<>>
    /\ Now.kind = "write" \/ (DiskFills /\ Now.kind = "finish")
    /\ troubles < MaxTroubles /\ troubles' = troubles + 1
    /\ Done /\ UNCHANGED <<disk, running, living, killed, saves>>

\* The game ends; a file that was being copied is cut short.
Crash ==
    /\ running /\ troubles < MaxTroubles /\ troubles' = troubles + 1
    /\ running' = FALSE /\ todo' = <<>> /\ living' = {} /\ killed' = {}
    /\ IF todo # <<>> /\ Now.kind = "copyWorld"
       THEN disk' \in {disk, [disk EXCEPT ![Now.to].world = Cut]}
       ELSE disk' = disk
    /\ UNCHANGED saves

\* Document::open_document: creatures without sprites get them again from their
\* genome, then the temporary backup is refreshed.
Reopen ==
    /\ ~running /\ disk["Main"].world.kind = "whole"
    /\ running' = TRUE /\ todo' = Refresh
    /\ living' = disk["Main"].world.holds /\ killed' = {}
    /\ disk' = [disk EXCEPT !["Main"].sprites = @ \union disk["Main"].world.holds]
    /\ UNCHANGED <<saves, troubles>>

FileStep ==
    \/ RemoveWorld \/ RemoveSprite \/ CopyWorld \/ CopySprites \/ Reap
    \/ Write \/ Finish \/ WriteFails

FilesNext ==
    \/ FileStep \/ BeginSave \/ Crash \/ Reopen
    \/ \E c \in Norns : Hatch(c) \/ Kill(c)

FilesSpec == FilesInit /\ [][FilesNext]_fileVars

-----------------------------------------------------------------------------
\* At whatever operation of a save, an opening or an autosave the game ends, and
\* whatever saves failed before, a whole world is left in some directory.
WholeSomewhere ==
    \E d \in Directories : disk[d].world.kind = "whole"

\* The backups stay a sequence of generations: Backup is never newer than
\* TempBu, nor TempBu than the world itself, at any step of a save.
GenerationsOrdered ==
    \A older, newer \in Directories :
        /\ <<older, newer>> \in {<<"Backup", "TempBu">>, <<"TempBu", "Main">>,
                                 <<"Backup", "Main">>}
        /\ disk[older].world.kind = "whole" /\ disk[newer].world.kind = "whole"
        => disk[older].world.generation <= disk[newer].world.generation

\* A backup that can be put back: while no save is under way, both backups have
\* the sprite of every creature their world holds, although a save removes the
\* sprites of the dead and a backup's old files are removed one by one.
BackupsComplete ==
    todo = <<>> /\ troubles = 0 =>
        \A d \in {"TempBu", "Backup"} : disk[d].world.holds \subseteq disk[d].sprites

\* Whatever was interrupted, the backups are older generations in order, and each
\* can be opened with the sprites that lie beside it.
FilesSound == FilesTypeOK /\ GenerationsOrdered /\ BackupsComplete
=============================================================================
