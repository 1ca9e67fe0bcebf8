---------------------------- MODULE SnapshotFile ----------------------------
(***************************************************************************)
(* Saving a snapshot (src/store/container.cpp): Container::write_file()    *)
(* writes a temporary file beside the destination, syncs it, renames it    *)
(* over the destination, syncs the directory and removes the temporary     *)
(* files of writers that died.  Several processes may save to one path.    *)
(*                                                                         *)
(* Data: the bytes of a file are the number of the save that wrote them    *)
(* and whether all of them are there; a file that is cut short fails the   *)
(* checksum of Container::parse().  Image 0 stands for the file that was   *)
(* there first, or for none.                                               *)
(***************************************************************************)
EXTENDS Integers, FiniteSets

CONSTANTS
    Process,   \* process ids; a new process may get the id of a dead one
    MaxSaves   \* bound on the saves that are started

ASSUME MaxSavesAssumption == MaxSaves \in Nat

VARIABLES
    alive,     \* does a process with that id run
    pc,        \* where its save is
    saving,    \* the number of its save, 0 when there is none
    placed,    \* history: the rank its rename gave the file
    visit,     \* directory entries its sweep has still to look at
    doomed,    \* the entries its sweep is about to remove (one or none)
    temps,     \* the temporary files, by name
    dest,      \* the file at the destination, as the kernel has it
    possible,  \* the files the destination may be after a power loss
    dirSync,   \* can the file system sync a directory (constant in a behaviour)
    started,   \* number of saves started
    renames,   \* history: number of renames
    floor      \* history: the highest rank of a save that was reported done

vars == <<alive, pc, saving, placed, visit, doomed, temps, dest, possible,
          dirSync, started, renames, floor>>

Image == 0..MaxSaves

\* A temporary file's name: the destination's, the process id and a random
\* part that no other save has.
Name(p, n) == <<p, n>>
Pid(name) == name[1]
Names == Process \X Image

\* A file: its image, whether it is complete, whether its bytes are synced.
File == [image : Image, whole : BOOLEAN, synced : BOOLEAN]

\* A file that was moved to the destination, with its rank among the moves.
Placed(file, rank) == [file |-> file, rank |-> rank]

Temp(p) == Name(p, saving[p])

Without(names) == [name \in DOMAIN temps \ names |-> temps[name]]

Init ==
    /\ alive = [p \in Process |-> TRUE]
    /\ pc = [p \in Process |-> "idle"]
    /\ saving = [p \in Process |-> 0]
    /\ placed = [p \in Process |-> 0]
    /\ visit = [p \in Process |-> {}]
    /\ doomed = [p \in Process |-> {}]
    /\ temps = [name \in {} |-> 0]
    /\ dest = Placed([image |-> 0, whole |-> TRUE, synced |-> TRUE], 0)
    /\ possible = {dest}
    /\ dirSync \in BOOLEAN
    /\ started = 0
    /\ renames = 0
    /\ floor = 0

-----------------------------------------------------------------------------
(* One save.                                                               *)

At(p, place) == alive[p] /\ pc[p] = place
Goto(p, place) == pc' = [pc EXCEPT ![p] = place]

diskUnchanged == UNCHANGED <<alive, dest, possible, dirSync, renames, floor>>
sweepUnchanged == UNCHANGED <<placed, visit, doomed>>

\* The temporary file is created, empty.
Create(p) ==
    /\ At(p, "idle")
    /\ started < MaxSaves
    /\ started' = started + 1
    /\ saving' = [saving EXCEPT ![p] = started']
    /\ temps' = [name \in DOMAIN temps \union {Name(p, started')} |->
                    IF name = Name(p, started')
                    THEN [image |-> started', whole |-> FALSE, synced |-> FALSE]
                    ELSE temps[name]]
    /\ Goto(p, "write")
    /\ sweepUnchanged /\ diskUnchanged

\* Broken variant: what the stream says after the write is not looked at.
WriteUnchecked(p) ==
    /\ At(p, "write")
    /\ \E whole \in BOOLEAN : temps' = [temps EXCEPT ![Temp(p)].whole = whole]
    /\ Goto(p, "sync")
    /\ UNCHANGED <<saving, started>> /\ sweepUnchanged /\ diskUnchanged

\* Broken variant: the flush is taken for durability.
WriteIsEnough(p) ==
    /\ At(p, "write")
    /\ temps' = [temps EXCEPT ![Temp(p)].whole = TRUE]
    /\ Goto(p, "rename")
    /\ UNCHANGED <<saving, started>> /\ sweepUnchanged /\ diskUnchanged

\* All bytes are written and flushed to the kernel.
Write(p) ==
    /\ At(p, "write")
    /\ Temp(p) \in DOMAIN temps
    /\ temps' = [temps EXCEPT ![Temp(p)].whole = TRUE]
    /\ Goto(p, "sync")
    /\ UNCHANGED <<saving, started>> /\ sweepUnchanged /\ diskUnchanged

\* The file is opened again, by name, and synced.
Sync(p) ==
    /\ At(p, "sync")
    /\ Temp(p) \in DOMAIN temps
    /\ temps' = [temps EXCEPT ![Temp(p)].synced = TRUE]
    /\ Goto(p, "rename")
    /\ UNCHANGED <<saving, started>> /\ sweepUnchanged /\ diskUnchanged

\* Writing, opening again, syncing or renaming fails: the temporary file is
\* removed and the error returned.
Abandon(p) ==
    /\ pc[p] \in {"write", "sync", "rename"} /\ alive[p]
    /\ temps' = Without({Temp(p)})
    /\ saving' = [saving EXCEPT ![p] = 0]
    /\ Goto(p, "idle")
    /\ UNCHANGED started /\ sweepUnchanged /\ diskUnchanged

Rename(p) ==
    /\ At(p, "rename")
    /\ Temp(p) \in DOMAIN temps
    /\ renames' = renames + 1
    /\ placed' = [placed EXCEPT ![p] = renames']
    /\ dest' = Placed(temps[Temp(p)], renames')
    /\ possible' = possible \union {dest'}
    /\ temps' = Without({Temp(p)})
    /\ saving' = [saving EXCEPT ![p] = 0]
    /\ Goto(p, "dirsync")
    /\ UNCHANGED <<alive, visit, doomed, dirSync, started, floor>>

\* Broken variant: the directory is not synced.
NoSyncDir(p) ==
    /\ At(p, "dirsync")
    /\ visit' = [visit EXCEPT ![p] = DOMAIN temps]
    /\ Goto(p, "sweep")
    /\ UNCHANGED <<alive, saving, placed, doomed, temps, dest, possible, dirSync,
                   started, renames, floor>>

\* Best effort: what the directory sync returns is not looked at.
SyncDir(p) ==
    /\ At(p, "dirsync")
    /\ possible' = IF dirSync THEN {dest} ELSE possible
    /\ visit' = [visit EXCEPT ![p] = DOMAIN temps]
    /\ Goto(p, "sweep")
    /\ UNCHANGED <<alive, saving, placed, doomed, temps, dest, dirSync, started,
                   renames, floor>>

-----------------------------------------------------------------------------
(* sweep_orphan_temps(): every entry is looked at, in the directory's      *)
(* order; it is removed when no process has the id in its name.  Between   *)
(* the look and the removal others run.                                    *)

Sweeping(p) == UNCHANGED <<pc, saving, placed, started>> /\ diskUnchanged

\* Broken variant: whose file it is, is not asked.
LookAtNoPid(p, name) ==
    /\ At(p, "sweep")
    /\ doomed[p] = {}
    /\ name \in visit[p]
    /\ visit' = [visit EXCEPT ![p] = @ \ {name}]
    /\ doomed' = [doomed EXCEPT ![p] = {name}]
    /\ UNCHANGED temps
    /\ Sweeping(p)

\* Broken variant: a live owner ends the loop instead of the iteration.
LookUntilLive(p, name) ==
    /\ At(p, "sweep")
    /\ doomed[p] = {}
    /\ name \in visit[p]
    /\ visit' = [visit EXCEPT ![p] = IF alive[Pid(name)] THEN {} ELSE @ \ {name}]
    /\ doomed' = [doomed EXCEPT ![p] = IF alive[Pid(name)] THEN {} ELSE {name}]
    /\ UNCHANGED temps
    /\ Sweeping(p)

\* kill(pid, 0) asks whether the owner runs.
Look(p, name) ==
    /\ At(p, "sweep")
    /\ doomed[p] = {}
    /\ name \in visit[p]
    /\ visit' = [visit EXCEPT ![p] = @ \ {name}]
    /\ doomed' = [doomed EXCEPT ![p] = IF alive[Pid(name)] THEN {} ELSE {name}]
    /\ UNCHANGED temps
    /\ Sweeping(p)

\* The removal succeeds; the code ignores it when it does not.
Remove(p) ==
    /\ At(p, "sweep")
    /\ doomed[p] # {}
    /\ temps' = Without(doomed[p])
    /\ doomed' = [doomed EXCEPT ![p] = {}]
    /\ UNCHANGED visit
    /\ Sweeping(p)

\* write_file() returns success.
Finish(p) ==
    /\ At(p, "sweep")
    /\ visit[p] = {} /\ doomed[p] = {}
    /\ floor' = IF placed[p] > floor THEN placed[p] ELSE floor
    /\ placed' = [placed EXCEPT ![p] = 0]
    /\ Goto(p, "idle")
    /\ UNCHANGED <<alive, saving, visit, doomed, temps, dest, possible, dirSync,
                   started, renames>>

-----------------------------------------------------------------------------
(* The environment.                                                        *)

\* A process dies: its temporary file stays.
Die(p) ==
    /\ alive[p]
    /\ alive' = [alive EXCEPT ![p] = FALSE]
    /\ saving' = [saving EXCEPT ![p] = 0]
    /\ placed' = [placed EXCEPT ![p] = 0]
    /\ visit' = [visit EXCEPT ![p] = {}]
    /\ doomed' = [doomed EXCEPT ![p] = {}]
    /\ Goto(p, "idle")
    /\ UNCHANGED <<temps, dest, possible, dirSync, started, renames, floor>>

\* A process with that id starts.
Start(p) ==
    /\ ~alive[p]
    /\ alive' = [alive EXCEPT ![p] = TRUE]
    /\ UNCHANGED <<pc, saving, placed, visit, doomed, temps, dest, possible,
                   dirSync, started, renames, floor>>

\* What the device has of a file: all of it only when it was synced.
OnDevice(file) == [file EXCEPT !.whole = @ /\ file.synced, !.synced = TRUE]

\* The machine stops.  The destination is one of the files it may be; of the
\* temporary files, any entries are left.
PowerLoss ==
    /\ \E found \in possible : dest' = Placed(OnDevice(found.file), found.rank)
    /\ possible' = {dest'}
    /\ \E left \in SUBSET DOMAIN temps :
           temps' = [name \in left |-> OnDevice(temps[name])]
    /\ alive' = [p \in Process |-> FALSE]
    /\ pc' = [p \in Process |-> "idle"]
    /\ saving' = [p \in Process |-> 0]
    /\ placed' = [p \in Process |-> 0]
    /\ visit' = [p \in Process |-> {}]
    /\ doomed' = [p \in Process |-> {}]
    /\ UNCHANGED <<dirSync, started, renames, floor>>

\* What a running process does of its own accord once write_file() is called.
Save(p) ==
    \/ Write(p) \/ Sync(p) \/ Rename(p) \/ Abandon(p) \/ SyncDir(p)
    \/ \E name \in visit[p] : Look(p, name)
    \/ Remove(p) \/ Finish(p)

Next ==
    \/ \E p \in Process : Create(p) \/ Save(p) \/ Die(p) \/ Start(p)
    \/ PowerLoss

\* A call of write_file() that is not cut short goes on until it returns.
Fairness == \A p \in Process : WF_vars(Save(p))

Spec == Init /\ [][Next]_vars /\ Fairness

-----------------------------------------------------------------------------
(* Properties                                                              *)

\* The process is between creating its temporary file and renaming it.
Writing(p) == pc[p] \in {"write", "sync", "rename"}

\* The variables have their types; a process that saves is alive; it has a
\* temporary file to write or a rename behind it, whichever its place says;
\* ranks of files and reports never exceed the number of renames.
TypeOK ==
    /\ alive \in [Process -> BOOLEAN]
    /\ pc \in [Process -> {"idle", "write", "sync", "rename", "dirsync", "sweep"}]
    /\ saving \in [Process -> Image]
    /\ placed \in [Process -> 0..renames]
    /\ visit \in [Process -> SUBSET Names]
    /\ doomed \in [Process -> SUBSET Names]
    /\ DOMAIN temps \subseteq Names
    /\ temps \in [DOMAIN temps -> File]
    /\ dest \in [file : File, rank : 0..renames]
    /\ possible \subseteq [file : File, rank : 0..renames]
    /\ dest \in possible
    /\ dirSync \in BOOLEAN
    /\ started \in Image
    /\ renames \in Nat
    /\ floor \in 0..renames
    /\ \A p \in Process :
           /\ ~alive[p] => pc[p] = "idle"
           /\ Writing(p) <=> saving[p] # 0
           /\ pc[p] \in {"dirsync", "sweep"} <=> placed[p] # 0

\* "A concurrent save in progress is never disturbed" (container.cpp): no
\* sweep removes the temporary file of a save that is not finished - even when
\* the process got the id of a dead one whose leftovers are being swept.
LiveTempKept == \A p \in Process : Writing(p) => Temp(p) \in DOMAIN temps

\* "At every instant an observer sees either the complete old index or the
\* complete new one, never a torn mixture" (container.cpp), and that includes
\* an observer after a power loss at that instant.
NeverTorn == \A found \in possible \union {dest} : OnDevice(found.file).whole

\* A save that was reported done cannot be undone by a power loss, neither to
\* what was there before nor to an earlier concurrent save, provided that the
\* file system syncs directories.
ReportedIsDurable == dirSync => \A found \in possible : found.rank >= floor

\* A sweep that is not cut short removes every orphan it found in the
\* directory, unless a process has got the orphan's id.
OrphansSwept ==
    \A p \in Process : \A name \in Names :
        (name \in visit[p] /\ ~alive[Pid(name)])
            ~> (name \notin DOMAIN temps \/ alive[Pid(name)] \/ ~alive[p])

-----------------------------------------------------------------------------
(* Refinement.                                                             *)

Corrupt == -1
Read(found) == IF found.file.whole THEN found.file.image ELSE Corrupt

\* The destination as a register: a reader gets the image of a whole file.
Register == INSTANCE AtomicFile WITH
    Image    <- Image,
    NoSave   <- Corrupt,
    value    <- Read(dest),
    possible <- {Read(found) : found \in possible},
    wanted   <- [p \in Process |-> IF Writing(p) THEN saving[p] ELSE Corrupt]

\* write_file() implements the register of AtomicFile, with every failure,
\* crash and power loss in between.
IsRegister == Register!Spec
=============================================================================
