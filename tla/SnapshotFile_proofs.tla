------------------------- MODULE SnapshotFile_proofs -------------------------
(***************************************************************************)
(* Proofs about SnapshotFile, for any number of processes and of saves.    *)
(*                                                                         *)
(* NeverTorn, LiveTempKept and ReportedIsDurable depend on each other's    *)
(* reasons: a rename puts a complete file in place because the temporary   *)
(* file is still the one this process synced, and it is because no sweep   *)
(* has it on its list; no sweep has, because the numbers of listed files   *)
(* are those of saves that were started when their process was dead.       *)
(***************************************************************************)
EXTENDS SnapshotFile, TLAPS

\* The number of every name in use is that of a save that was started.
Numbered(names) == \A name \in names : name[2] <= started

OldNames ==
    /\ Numbered(DOMAIN temps)
    /\ \A p \in Process :
           saving[p] <= started /\ Numbered(visit[p]) /\ Numbered(doomed[p])

\* No sweep is about to remove the temporary file of a running save.
NotDoomed ==
    \A p, q \in Process : Writing(q) => Temp(q) \notin doomed[p]

\* What a save has done to its temporary file by the time it syncs or renames.
Prepared ==
    \A p \in Process :
        /\ pc[p] \in {"sync", "rename"} => temps[Temp(p)].whole
        /\ pc[p] = "rename" => temps[Temp(p)].synced

\* A temporary file holds, once complete, what its save is to write.
Stamped ==
    \A p \in Process : Writing(p) => temps[Temp(p)].image = saving[p]

\* Whatever the destination may be is complete and synced.
Safe == \A found \in possible : found.file.whole /\ found.file.synced

\* The destination is no older than the saves that are being finished, nor is,
\* once the directory is synced, anything that a power loss can bring back.
Ranked ==
    /\ dirSync => \A found \in possible : found.rank >= floor
    /\ \A p \in Process :
           /\ dest.rank >= placed[p]
           /\ dirSync /\ pc[p] = "sweep" =>
                  \A found \in possible : found.rank >= placed[p]

IInv ==
    /\ TypeOK /\ LiveTempKept /\ OldNames /\ NotDoomed
    /\ Prepared /\ Stamped /\ Safe /\ Ranked

-----------------------------------------------------------------------------

LEMMA NameFacts ==
    \A p, q \in Process : \A m, n \in Image :
        /\ Name(p, n) \in Names
        /\ Pid(Name(p, n)) = p
        /\ Name(p, n)[2] = n
        /\ Name(p, n) = Name(q, m) <=> p = q /\ n = m
BY DEF Name, Pid, Names

\* Two processes that save have different temporary files.
LEMMA TempFacts ==
    ASSUME TypeOK
    PROVE  \A p, q \in Process :
               /\ Temp(p) \in Names
               /\ Pid(Temp(p)) = p
               /\ Temp(p)[2] = saving[p]
               /\ p # q => Temp(p) # Temp(q)
<1>1. \A p \in Process : saving[p] \in Image
  BY DEF TypeOK
<1> QED BY <1>1, NameFacts DEF Temp

LEMMA InitIInv == Init => IInv
<1> SUFFICES ASSUME Init PROVE IInv
  OBVIOUS
<1> USE DEF Init
<1>1. DOMAIN temps = {} /\ temps \in [DOMAIN temps -> File]
  OBVIOUS
<1>2. 0 \in Image
  BY MaxSavesAssumption DEF Image
<1>3. dest \in [file : File, rank : 0..renames]
  BY <1>2 DEF Placed, File
<1>4. TypeOK
  BY <1>1, <1>2, <1>3 DEF TypeOK, Writing
<1>5. LiveTempKept /\ NotDoomed /\ Prepared /\ Stamped
  BY DEF LiveTempKept, NotDoomed, Prepared, Stamped, Writing
<1>6. OldNames
  BY <1>1 DEF OldNames, Numbered
<1>7. Safe /\ Ranked
  BY DEF Safe, Ranked, Placed
<1> QED BY <1>4, <1>5, <1>6, <1>7 DEF IInv

-----------------------------------------------------------------------------
(* One lemma per action.                                                   *)

LEMMA CreateIInv ==
    ASSUME IInv, NEW p \in Process, Create(p)
    PROVE  IInv'
<1> DEFINE n == started + 1
           new == Name(p, n)
<1>1. /\ pc[p] = "idle" /\ alive[p] /\ started < MaxSaves
      /\ started' = n
      /\ saving' = [saving EXCEPT ![p] = n]
      /\ temps' = [name \in DOMAIN temps \union {new} |->
                      IF name = new
                      THEN [image |-> n, whole |-> FALSE, synced |-> FALSE]
                      ELSE temps[name]]
      /\ pc' = [pc EXCEPT ![p] = "write"]
      /\ UNCHANGED <<placed, visit, doomed, alive, dest, possible, dirSync,
                     renames, floor>>
  BY DEF Create, At, Goto, sweepUnchanged, diskUnchanged
<1>2. TypeOK /\ started \in Nat /\ n \in Image /\ n # 0
  BY <1>1, MaxSavesAssumption DEF IInv, TypeOK, Image
<1>3. /\ new \in Names /\ Pid(new) = p /\ new[2] = n
      /\ new \notin DOMAIN temps
      /\ \A q \in Process : new \notin doomed[q]
  BY <1>2, NameFacts DEF IInv, OldNames, Numbered
<1>4. \A q \in Process : Temp(q)' = IF q = p THEN new ELSE Temp(q)
  BY <1>1, <1>2 DEF Temp, TypeOK
<1> HIDE DEF new, n
<1>5. TypeOK'
  <2>1. saving' \in [Process -> Image]
    BY <1>1, <1>2 DEF TypeOK
  <2>2. temps' \in [DOMAIN temps' -> File] /\ DOMAIN temps' \subseteq Names
    BY <1>1, <1>2, <1>3 DEF TypeOK, File
  <2>3. \A q \in Process :
            /\ ~alive'[q] => pc'[q] = "idle"
            /\ Writing(q)' <=> saving'[q] # 0
            /\ pc'[q] \in {"dirsync", "sweep"} <=> placed'[q] # 0
    BY <1>1, <1>2 DEF TypeOK, Writing
  <2> QED BY <1>1, <1>2, <2>1, <2>2, <2>3 DEF TypeOK
<1>6. LiveTempKept'
  BY <1>1, <1>2, <1>4 DEF IInv, LiveTempKept, Writing, TypeOK
<1>7. OldNames'
  <2>1. started' = started + 1
    BY <1>1 DEF n
  <2>2. \A name \in Names : name[2] \in Int
    BY MaxSavesAssumption DEF Names, Image
  <2>3. \A name \in Names : name[2] <= started => name[2] <= started'
    BY <1>2, <2>1, <2>2
  <2>4. \A name \in DOMAIN temps' : name[2] <= started'
    <3>1. new[2] <= started' /\ DOMAIN temps' = DOMAIN temps \union {new}
      BY <1>1, <1>2, <1>3, MaxSavesAssumption DEF Image
    <3> QED BY <1>2, <2>3, <3>1 DEF IInv, OldNames, Numbered, TypeOK
  <2>5. \A q \in Process : saving'[q] <= started'
    BY <1>1, <1>2, <2>1, MaxSavesAssumption DEF IInv, OldNames, TypeOK, Image
  <2>6. \A q \in Process : \A name \in visit'[q] \union doomed'[q] :
            name[2] <= started'
    BY <1>1, <1>2, <2>3 DEF IInv, OldNames, TypeOK, Numbered
  <2> QED BY <2>4, <2>5, <2>6 DEF OldNames, Numbered
<1>8. NotDoomed'
  BY <1>1, <1>2, <1>3, <1>4 DEF IInv, NotDoomed, Writing, TypeOK
<1>9. Prepared'
  BY <1>1, <1>2, <1>3, <1>4 DEF IInv, Prepared, LiveTempKept, Writing, TypeOK
<1>10. Safe' /\ Ranked'
  BY <1>1, <1>2 DEF IInv, Safe, Ranked, TypeOK
<1>11. Stamped'
  BY <1>1, <1>2, <1>3, <1>4 DEF IInv, Stamped, LiveTempKept, Writing, TypeOK
<1> QED BY <1>5, <1>6, <1>7, <1>8, <1>9, <1>10, <1>11 DEF IInv

\* A step that completes or syncs the temporary file, and moves the save on.
LEMMA PrepareIInv ==
    ASSUME IInv, NEW p \in Process, Write(p) \/ Sync(p)
    PROVE  IInv'
<1> DEFINE t == Temp(p)
           file == IF Write(p) THEN [temps[t] EXCEPT !.whole = TRUE]
                               ELSE [temps[t] EXCEPT !.synced = TRUE]
           place == IF Write(p) THEN "sync" ELSE "rename"
<1>1. /\ pc[p] \in {"write", "sync"} /\ alive[p]
      /\ t \in DOMAIN temps
      /\ temps' = [temps EXCEPT ![t] = file]
      /\ pc' = [pc EXCEPT ![p] = place]
      /\ UNCHANGED <<saving, started, placed, visit, doomed, alive, dest,
                     possible, dirSync, renames, floor>>
  BY DEF Write, Sync, At, Goto, sweepUnchanged, diskUnchanged
<1>2. TypeOK
  BY DEF IInv
<1>3. /\ temps[t] \in File /\ file \in File
      /\ file.whole /\ file.image = temps[t].image
      /\ place = "rename" => file.synced
  <2>1. temps[t] \in File
    BY <1>1, <1>2 DEF TypeOK
  <2>2. ~Write(p) => temps[t].whole
    BY DEF Sync, At, IInv, Prepared
  <2> QED BY <2>1, <2>2 DEF File
<1>4. place \in {"sync", "rename"}
  OBVIOUS
<1>5. /\ temps' \in [DOMAIN temps -> File]
      /\ temps'[t] = file
      /\ \A name \in DOMAIN temps : name # t => temps'[name] = temps[name]
  BY <1>1, <1>2, <1>3 DEF TypeOK
<1>6. \A q \in Process : Temp(q)' = Temp(q) /\ (q # p => Temp(q) # t)
  BY <1>1, <1>2, TempFacts DEF Temp
<1> HIDE DEF t, file, place
<1>7. \A q \in Process : Writing(q)' <=> Writing(q)
  BY <1>1, <1>2, <1>4 DEF Writing, TypeOK
<1>8. TypeOK'
  <2>1. pc' \in [Process -> {"idle", "write", "sync", "rename", "dirsync", "sweep"}]
    BY <1>1, <1>2, <1>4 DEF TypeOK
  <2>2. \A q \in Process :
            /\ ~alive'[q] => pc'[q] = "idle"
            /\ pc'[q] \in {"dirsync", "sweep"} <=> placed'[q] # 0
    BY <1>1, <1>2, <1>4 DEF TypeOK
  <2> QED BY <1>1, <1>2, <1>5, <1>7, <2>1, <2>2 DEF TypeOK
<1>9. LiveTempKept' /\ NotDoomed' /\ OldNames'
  BY <1>1, <1>5, <1>6, <1>7 DEF IInv, LiveTempKept, NotDoomed, OldNames, Numbered
<1>10. Prepared'
  <2> SUFFICES ASSUME NEW q \in Process
               PROVE  /\ pc'[q] \in {"sync", "rename"} => temps'[Temp(q)'].whole
                      /\ pc'[q] = "rename" => temps'[Temp(q)'].synced
    BY DEF Prepared
  <2>1. CASE q = p
    BY <1>1, <1>2, <1>3, <1>4, <1>5, <1>6, <2>1 DEF TypeOK, t
  <2>2. CASE q # p
    <3>1. pc'[q] = pc[q]
      BY <1>1, <1>2, <2>2 DEF TypeOK
    <3>2. Writing(q) => Temp(q) \in DOMAIN temps
      BY DEF IInv, LiveTempKept
    <3> QED BY <1>5, <1>6, <2>2, <3>1, <3>2 DEF IInv, Prepared, Writing
  <2> QED BY <2>1, <2>2
<1>11. Safe' /\ Ranked'
  BY <1>1, <1>2, <1>4 DEF IInv, Safe, Ranked, TypeOK
<1>12. Stamped'
  <2>1. \A q \in Process : Writing(q) => temps'[Temp(q)].image = temps[Temp(q)].image
    BY <1>3, <1>5 DEF IInv, LiveTempKept
  <2> QED BY <1>1, <1>6, <1>7, <2>1 DEF IInv, Stamped
<1> QED BY <1>8, <1>9, <1>10, <1>11, <1>12 DEF IInv

LEMMA AbandonIInv ==
    ASSUME IInv, NEW p \in Process, Abandon(p)
    PROVE  IInv'
<1> DEFINE t == Temp(p)
<1>1. /\ Writing(p) /\ alive[p]
      /\ temps' = [name \in DOMAIN temps \ {t} |-> temps[name]]
      /\ saving' = [saving EXCEPT ![p] = 0]
      /\ pc' = [pc EXCEPT ![p] = "idle"]
      /\ UNCHANGED <<started, placed, visit, doomed, alive, dest, possible,
                     dirSync, renames, floor>>
  BY DEF Abandon, Goto, Without, Writing, sweepUnchanged, diskUnchanged
<1>2. TypeOK /\ 0 \in Image
  BY MaxSavesAssumption DEF IInv, Image
<1>3. \A q \in Process :
          q # p => /\ Temp(q)' = Temp(q) /\ Temp(q) # t
                   /\ pc'[q] = pc[q] /\ saving'[q] = saving[q]
  BY <1>1, <1>2, TempFacts DEF Temp, TypeOK
<1>4. pc'[p] = "idle" /\ saving'[p] = 0
  BY <1>1, <1>2 DEF TypeOK
<1> HIDE DEF t
<1>5. \A q \in Process : Writing(q)' <=> q # p /\ Writing(q)
  BY <1>3, <1>4 DEF Writing
<1>6. TypeOK'
  <2>1. /\ saving' \in [Process -> Image]
        /\ pc' \in [Process -> {"idle", "write", "sync", "rename", "dirsync", "sweep"}]
    BY <1>1, <1>2 DEF TypeOK
  <2>2. temps' \in [DOMAIN temps' -> File] /\ DOMAIN temps' \subseteq Names
    BY <1>1, <1>2 DEF TypeOK
  <2>3. \A q \in Process :
            /\ ~alive'[q] => pc'[q] = "idle"
            /\ Writing(q)' <=> saving'[q] # 0
            /\ pc'[q] \in {"dirsync", "sweep"} <=> placed'[q] # 0
    BY <1>1, <1>2, <1>3, <1>4, <1>5 DEF TypeOK, Writing
  <2> QED BY <1>1, <1>2, <2>1, <2>2, <2>3 DEF TypeOK
<1>7. LiveTempKept' /\ NotDoomed'
  BY <1>1, <1>3, <1>5 DEF IInv, LiveTempKept, NotDoomed
<1>8. OldNames'
  BY <1>1, <1>2, <1>3, <1>4 DEF IInv, OldNames, Numbered, TypeOK, Image
<1>9. Prepared'
  <2> SUFFICES ASSUME NEW q \in Process, q # p
               PROVE  /\ pc'[q] \in {"sync", "rename"} => temps'[Temp(q)'].whole
                      /\ pc'[q] = "rename" => temps'[Temp(q)'].synced
    BY <1>4 DEF Prepared
  <2>1. Writing(q) => Temp(q) \in DOMAIN temps
    BY DEF IInv, LiveTempKept
  <2> QED BY <1>1, <1>3, <2>1 DEF IInv, Prepared, Writing
<1>10. Safe' /\ Ranked'
  BY <1>1, <1>3, <1>4 DEF IInv, Safe, Ranked
<1>11. Stamped'
  BY <1>1, <1>3, <1>5 DEF IInv, Stamped, LiveTempKept
<1> QED BY <1>6, <1>7, <1>8, <1>9, <1>10, <1>11 DEF IInv

\* The rename: the destination becomes the file that was written and synced.
LEMMA RenameIInv ==
    ASSUME IInv, NEW p \in Process, Rename(p)
    PROVE  IInv'
<1> DEFINE t == Temp(p)
           rank == renames + 1
<1>1. /\ pc[p] = "rename" /\ alive[p]
      /\ t \in DOMAIN temps
      /\ renames' = rank
      /\ placed' = [placed EXCEPT ![p] = rank]
      /\ dest' = [file |-> temps[t], rank |-> rank]
      /\ possible' = possible \union {dest'}
      /\ temps' = [name \in DOMAIN temps \ {t} |-> temps[name]]
      /\ saving' = [saving EXCEPT ![p] = 0]
      /\ pc' = [pc EXCEPT ![p] = "dirsync"]
      /\ UNCHANGED <<started, alive, visit, doomed, dirSync, floor>>
  BY DEF Rename, At, Goto, Without, Placed
<1>2. TypeOK /\ 0 \in Image
  BY MaxSavesAssumption DEF IInv, Image
<1>3. \A q \in Process :
          q # p => /\ Temp(q)' = Temp(q) /\ Temp(q) # t
                   /\ pc'[q] = pc[q] /\ saving'[q] = saving[q]
                   /\ placed'[q] = placed[q]
  BY <1>1, <1>2, TempFacts DEF Temp, TypeOK
<1>4. pc'[p] = "dirsync" /\ saving'[p] = 0 /\ placed'[p] = rank
  BY <1>1, <1>2 DEF TypeOK
<1>5. temps[t] \in File /\ temps[t].whole /\ temps[t].synced
  BY <1>1, <1>2 DEF IInv, Prepared, TypeOK
<1>6. rank \in Nat /\ rank # 0 /\ renames < rank
  BY <1>2 DEF TypeOK
<1>7. /\ dest' \in [file : File, rank : 0..rank]
      /\ dest'.file = temps[t] /\ dest'.rank = rank
  BY <1>1, <1>5, <1>6
<1> HIDE DEF t, rank
<1>8. \A q \in Process : Writing(q)' <=> q # p /\ Writing(q)
  BY <1>3, <1>4 DEF Writing
<1>9. TypeOK'
  <2>1. /\ saving' \in [Process -> Image]
        /\ pc' \in [Process -> {"idle", "write", "sync", "rename", "dirsync", "sweep"}]
    BY <1>1, <1>2 DEF TypeOK
  <2>2. temps' \in [DOMAIN temps' -> File] /\ DOMAIN temps' \subseteq Names
    BY <1>1, <1>2 DEF TypeOK
  <2>3. 0..renames \subseteq 0..rank /\ rank \in 0..rank
    BY <1>2, <1>6 DEF TypeOK
  <2>4. placed' \in [Process -> 0..renames'] /\ floor' \in 0..renames'
    BY <1>1, <1>2, <2>3 DEF TypeOK
  <2>5. possible' \subseteq [file : File, rank : 0..renames'] /\ dest' \in possible'
    BY <1>1, <1>2, <1>7, <2>3 DEF TypeOK
  <2>6. \A q \in Process :
            /\ ~alive'[q] => pc'[q] = "idle"
            /\ Writing(q)' <=> saving'[q] # 0
            /\ pc'[q] \in {"dirsync", "sweep"} <=> placed'[q] # 0
    BY <1>1, <1>2, <1>3, <1>4, <1>6, <1>8 DEF TypeOK, Writing
  <2> QED BY <1>1, <1>2, <1>6, <1>7, <2>1, <2>2, <2>4, <2>5, <2>6 DEF TypeOK
<1>10. LiveTempKept' /\ NotDoomed'
  BY <1>1, <1>3, <1>8 DEF IInv, LiveTempKept, NotDoomed
<1>11. OldNames'
  BY <1>1, <1>2, <1>3, <1>4 DEF IInv, OldNames, Numbered, TypeOK, Image
<1>12. Prepared'
  <2> SUFFICES ASSUME NEW q \in Process, q # p
               PROVE  /\ pc'[q] \in {"sync", "rename"} => temps'[Temp(q)'].whole
                      /\ pc'[q] = "rename" => temps'[Temp(q)'].synced
    BY <1>4 DEF Prepared
  <2>1. Writing(q) => Temp(q) \in DOMAIN temps
    BY DEF IInv, LiveTempKept
  <2> QED BY <1>1, <1>3, <2>1 DEF IInv, Prepared, Writing
<1>13. Safe'
  BY <1>1, <1>5, <1>7 DEF IInv, Safe
<1>14. Ranked'
  <2>1. \A q \in Process : placed'[q] <= rank
    BY <1>2, <1>3, <1>4, <1>6 DEF TypeOK
  <2>2. floor <= rank
    BY <1>2, <1>6 DEF TypeOK
  <2>3. ASSUME NEW q \in Process, pc'[q] = "sweep", dirSync, NEW found \in possible
        PROVE  found.rank >= placed'[q]
    BY <1>3, <1>4, <2>3 DEF IInv, Ranked
  <2> QED BY <1>1, <1>2, <1>6, <1>7, <2>1, <2>2, <2>3 DEF IInv, Ranked, TypeOK
<1>15. Stamped'
  BY <1>1, <1>3, <1>8 DEF IInv, Stamped, LiveTempKept
<1> QED BY <1>9, <1>10, <1>11, <1>12, <1>13, <1>14, <1>15 DEF IInv

LEMMA SyncDirIInv ==
    ASSUME IInv, NEW p \in Process, SyncDir(p)
    PROVE  IInv'
<1>1. /\ pc[p] = "dirsync" /\ alive[p]
      /\ possible' = (IF dirSync THEN {dest} ELSE possible)
      /\ visit' = [visit EXCEPT ![p] = DOMAIN temps]
      /\ pc' = [pc EXCEPT ![p] = "sweep"]
      /\ UNCHANGED <<alive, saving, placed, doomed, temps, dest, dirSync, started,
                     renames, floor>>
  BY DEF SyncDir, At, Goto
<1>2. TypeOK
  BY DEF IInv
<1>3. \A q \in Process : (Writing(q)' <=> Writing(q)) /\ Temp(q)' = Temp(q)
  BY <1>1, <1>2 DEF Writing, Temp, TypeOK
<1>4. possible' \subseteq possible /\ dest \in possible'
  BY <1>1, <1>2 DEF TypeOK
<1>5. TypeOK'
  <2>1. /\ pc' \in [Process -> {"idle", "write", "sync", "rename", "dirsync", "sweep"}]
        /\ visit' \in [Process -> SUBSET Names]
    BY <1>1, <1>2 DEF TypeOK
  <2>2. \A q \in Process :
            /\ ~alive'[q] => pc'[q] = "idle"
            /\ pc'[q] \in {"dirsync", "sweep"} <=> placed'[q] # 0
    BY <1>1, <1>2 DEF TypeOK
  <2> QED BY <1>1, <1>2, <1>3, <1>4, <2>1, <2>2 DEF TypeOK
<1>6. LiveTempKept' /\ NotDoomed'
  BY <1>1, <1>3 DEF IInv, LiveTempKept, NotDoomed
<1>7. OldNames'
  BY <1>1, <1>2 DEF IInv, OldNames, Numbered, TypeOK
<1>8. Prepared'
  BY <1>1, <1>2, <1>3 DEF IInv, Prepared, TypeOK
<1>9. Safe'
  BY <1>4 DEF IInv, Safe
<1>10. Ranked'
  BY <1>1, <1>2, <1>4 DEF IInv, Ranked, TypeOK
<1>11. Stamped'
  BY <1>1, <1>3 DEF IInv, Stamped
<1> QED BY <1>5, <1>6, <1>7, <1>8, <1>9, <1>10, <1>11 DEF IInv

\* A file whose process is dead is no running save's.
LEMMA LookIInv ==
    ASSUME IInv, NEW p \in Process, NEW name \in visit[p], Look(p, name)
    PROVE  IInv'
<1>1. /\ visit' = [visit EXCEPT ![p] = @ \ {name}]
      /\ doomed' = [doomed EXCEPT ![p] = IF alive[Pid(name)] THEN {} ELSE {name}]
      /\ UNCHANGED <<temps, pc, saving, placed, started, alive, dest, possible,
                     dirSync, renames, floor>>
  BY DEF Look, Sweeping, diskUnchanged
<1>2. TypeOK /\ name \in Names
  BY DEF IInv, TypeOK
<1>3. \A q \in Process : (Writing(q)' <=> Writing(q)) /\ Temp(q)' = Temp(q)
  BY <1>1 DEF Writing, Temp
<1>4. TypeOK'
  <2>1. /\ visit' \in [Process -> SUBSET Names]
        /\ doomed' \in [Process -> SUBSET Names]
    BY <1>1, <1>2 DEF TypeOK
  <2> QED BY <1>1, <1>2, <1>3, <2>1 DEF TypeOK
<1>5. LiveTempKept' /\ Prepared'
  BY <1>1, <1>3 DEF IInv, LiveTempKept, Prepared
<1>6. OldNames'
  BY <1>1, <1>2 DEF IInv, OldNames, Numbered, TypeOK
<1>7. NotDoomed'
  <2> SUFFICES ASSUME NEW r \in Process, NEW q \in Process, Writing(q)
               PROVE  Temp(q) \notin doomed'[r]
    BY <1>3 DEF NotDoomed
  <2>1. Temp(q) \notin doomed[r]
    BY DEF IInv, NotDoomed
  <2>2. alive[q] /\ Pid(Temp(q)) = q
    BY <1>2, TempFacts DEF TypeOK, Writing
  <2> QED BY <1>1, <1>2, <2>1, <2>2 DEF TypeOK
<1>8. Safe' /\ Ranked'
  BY <1>1 DEF IInv, Safe, Ranked
<1>9. Stamped'
  BY <1>1, <1>3 DEF IInv, Stamped
<1> QED BY <1>4, <1>5, <1>6, <1>7, <1>8, <1>9 DEF IInv

LEMMA RemoveIInv ==
    ASSUME IInv, NEW p \in Process, Remove(p)
    PROVE  IInv'
<1>1. /\ temps' = [name \in DOMAIN temps \ doomed[p] |-> temps[name]]
      /\ doomed' = [doomed EXCEPT ![p] = {}]
      /\ UNCHANGED <<visit, pc, saving, placed, started, alive, dest, possible,
                     dirSync, renames, floor>>
  BY DEF Remove, Without, Sweeping, diskUnchanged
<1>2. TypeOK
  BY DEF IInv
<1>3. \A q \in Process : (Writing(q)' <=> Writing(q)) /\ Temp(q)' = Temp(q)
  BY <1>1 DEF Writing, Temp
<1>4. TypeOK'
  <2>1. /\ doomed' \in [Process -> SUBSET Names]
        /\ DOMAIN temps' \subseteq Names
        /\ temps' \in [DOMAIN temps' -> File]
    BY <1>1, <1>2 DEF TypeOK
  <2> QED BY <1>1, <1>2, <1>3, <2>1 DEF TypeOK
<1>5. \A q \in Process : Writing(q) => /\ Temp(q) \in DOMAIN temps'
                                       /\ temps'[Temp(q)] = temps[Temp(q)]
  BY <1>1 DEF IInv, LiveTempKept, NotDoomed
<1>6. LiveTempKept'
  BY <1>3, <1>5 DEF LiveTempKept
<1>7. Prepared'
  BY <1>1, <1>3, <1>5 DEF IInv, Prepared, Writing
<1>8. OldNames' /\ NotDoomed'
  BY <1>1, <1>2, <1>3 DEF IInv, OldNames, Numbered, NotDoomed, TypeOK
<1>9. Safe' /\ Ranked'
  BY <1>1 DEF IInv, Safe, Ranked
<1>10. Stamped'
  BY <1>1, <1>3, <1>5 DEF IInv, Stamped
<1> QED BY <1>4, <1>6, <1>7, <1>8, <1>9, <1>10 DEF IInv

LEMMA FinishIInv ==
    ASSUME IInv, NEW p \in Process, Finish(p)
    PROVE  IInv'
<1>1. /\ pc[p] = "sweep"
      /\ floor' = (IF placed[p] > floor THEN placed[p] ELSE floor)
      /\ placed' = [placed EXCEPT ![p] = 0]
      /\ pc' = [pc EXCEPT ![p] = "idle"]
      /\ UNCHANGED <<alive, saving, visit, doomed, temps, dest, possible,
                     dirSync, started, renames>>
  BY DEF Finish, At, Goto
<1>2. TypeOK
  BY DEF IInv
<1>3. \A q \in Process : (Writing(q)' <=> Writing(q)) /\ Temp(q)' = Temp(q)
  BY <1>1, <1>2 DEF Writing, Temp, TypeOK
<1>4. TypeOK'
  <2>1. /\ pc' \in [Process -> {"idle", "write", "sync", "rename", "dirsync", "sweep"}]
        /\ placed' \in [Process -> 0..renames]
        /\ floor' \in 0..renames
    BY <1>1, <1>2 DEF TypeOK
  <2>2. \A q \in Process :
            /\ ~alive'[q] => pc'[q] = "idle"
            /\ pc'[q] \in {"dirsync", "sweep"} <=> placed'[q] # 0
    BY <1>1, <1>2 DEF TypeOK
  <2> QED BY <1>1, <1>2, <1>3, <2>1, <2>2 DEF TypeOK
<1>5. LiveTempKept' /\ NotDoomed' /\ OldNames'
  BY <1>1, <1>3 DEF IInv, LiveTempKept, NotDoomed, OldNames, Numbered
<1>6. Prepared'
  BY <1>1, <1>2, <1>3 DEF IInv, Prepared, TypeOK
<1>7. Safe'
  BY <1>1 DEF IInv, Safe
<1>8. Ranked'
  BY <1>1, <1>2 DEF IInv, Ranked, TypeOK
<1>9. Stamped'
  BY <1>1, <1>3 DEF IInv, Stamped
<1> QED BY <1>4, <1>5, <1>6, <1>7, <1>8, <1>9 DEF IInv

LEMMA DieIInv ==
    ASSUME IInv, NEW p \in Process, Die(p)
    PROVE  IInv'
<1>1. /\ alive' = [alive EXCEPT ![p] = FALSE]
      /\ saving' = [saving EXCEPT ![p] = 0]
      /\ placed' = [placed EXCEPT ![p] = 0]
      /\ visit' = [visit EXCEPT ![p] = {}]
      /\ doomed' = [doomed EXCEPT ![p] = {}]
      /\ pc' = [pc EXCEPT ![p] = "idle"]
      /\ UNCHANGED <<temps, dest, possible, dirSync, started, renames, floor>>
  BY DEF Die, Goto
<1>2. TypeOK /\ 0 \in Image
  BY MaxSavesAssumption DEF IInv, Image
<1>3. /\ \A q \in Process : q # p => Temp(q)' = Temp(q)
      /\ \A q \in Process : Writing(q)' <=> q # p /\ Writing(q)
  BY <1>1, <1>2 DEF Temp, Writing, TypeOK
<1>4. TypeOK'
  <2>1. /\ alive' \in [Process -> BOOLEAN]
        /\ saving' \in [Process -> Image]
        /\ placed' \in [Process -> 0..renames]
        /\ visit' \in [Process -> SUBSET Names]
        /\ doomed' \in [Process -> SUBSET Names]
        /\ pc' \in [Process -> {"idle", "write", "sync", "rename", "dirsync", "sweep"}]
    BY <1>1, <1>2 DEF TypeOK
  <2>2. \A q \in Process :
            /\ ~alive'[q] => pc'[q] = "idle"
            /\ Writing(q)' <=> saving'[q] # 0
            /\ pc'[q] \in {"dirsync", "sweep"} <=> placed'[q] # 0
    BY <1>1, <1>2, <1>3 DEF TypeOK
  <2> QED BY <1>1, <1>2, <2>1, <2>2 DEF TypeOK
<1>5. LiveTempKept'
  BY <1>1, <1>3 DEF IInv, LiveTempKept
<1>6. NotDoomed'
  BY <1>1, <1>2, <1>3 DEF IInv, NotDoomed, TypeOK
<1>7. OldNames'
  BY <1>1, <1>2, MaxSavesAssumption DEF IInv, OldNames, Numbered, TypeOK, Image
<1>8. Prepared'
  BY <1>1, <1>2, <1>3 DEF IInv, Prepared, TypeOK
<1>9. Safe' /\ Ranked'
  BY <1>1, <1>2 DEF IInv, Safe, Ranked, TypeOK
<1>10. Stamped'
  BY <1>1, <1>2, <1>3 DEF IInv, Stamped, TypeOK
<1> QED BY <1>4, <1>5, <1>6, <1>7, <1>8, <1>9, <1>10 DEF IInv

LEMMA StartIInv ==
    ASSUME IInv, NEW p \in Process, Start(p)
    PROVE  IInv'
<1>1. /\ alive' = [alive EXCEPT ![p] = TRUE]
      /\ UNCHANGED <<pc, saving, placed, visit, doomed, temps, dest, possible,
                     dirSync, started, renames, floor>>
  BY DEF Start
<1>2. \A q \in Process : (Writing(q)' <=> Writing(q)) /\ Temp(q)' = Temp(q)
  BY <1>1 DEF Writing, Temp
<1>3. TypeOK'
  BY <1>1, <1>2 DEF IInv, TypeOK
<1>4. LiveTempKept' /\ OldNames' /\ NotDoomed' /\ Prepared' /\ Safe' /\ Ranked'
      /\ Stamped'
  BY <1>1, <1>2 DEF IInv, LiveTempKept, OldNames, Numbered, NotDoomed, Prepared,
                    Stamped, Safe, Ranked
<1> QED BY <1>3, <1>4 DEF IInv

\* A file that is complete and synced is the same after a power loss.
LEMMA DeviceKeepsSafe ==
    \A file \in File : file.whole /\ file.synced => OnDevice(file) = file
BY DEF File, OnDevice

LEMMA PowerLossIInv == IInv /\ PowerLoss => IInv'
<1> SUFFICES ASSUME IInv, PowerLoss PROVE IInv'
  OBVIOUS
<1>1. PICK found \in possible :
          dest' = Placed(OnDevice(found.file), found.rank)
  BY DEF PowerLoss
<1>2. PICK left \in SUBSET DOMAIN temps :
          temps' = [name \in left |-> OnDevice(temps[name])]
  BY DEF PowerLoss
<1>3. /\ possible' = {dest'}
      /\ alive' = [q \in Process |-> FALSE]
      /\ pc' = [q \in Process |-> "idle"]
      /\ saving' = [q \in Process |-> 0]
      /\ placed' = [q \in Process |-> 0]
      /\ visit' = [q \in Process |-> {}]
      /\ doomed' = [q \in Process |-> {}]
      /\ UNCHANGED <<dirSync, started, renames, floor>>
  BY DEF PowerLoss
<1>4. TypeOK /\ 0 \in Image
  BY MaxSavesAssumption DEF IInv, Image
<1>5. dest' = found /\ found \in [file : File, rank : 0..renames]
  <2>1. found \in [file : File, rank : 0..renames] /\ found.file.whole /\ found.file.synced
    BY <1>4 DEF TypeOK, IInv, Safe
  <2>2. OnDevice(found.file) = found.file
    BY <2>1, DeviceKeepsSafe
  <2> QED BY <1>1, <2>1, <2>2 DEF Placed
<1>6. TypeOK'
  <2>1. \A name \in left : OnDevice(temps[name]) \in File
    BY <1>4 DEF TypeOK, OnDevice, File
  <2>2. temps' \in [DOMAIN temps' -> File] /\ DOMAIN temps' \subseteq Names
    BY <1>2, <1>4, <2>1 DEF TypeOK
  <2>3. \A q \in Process :
            /\ ~alive'[q] => pc'[q] = "idle"
            /\ Writing(q)' <=> saving'[q] # 0
            /\ pc'[q] \in {"dirsync", "sweep"} <=> placed'[q] # 0
    BY <1>3 DEF Writing
  <2> QED BY <1>3, <1>4, <1>5, <2>2, <2>3 DEF TypeOK
<1>7. LiveTempKept' /\ NotDoomed' /\ Prepared' /\ Stamped'
  BY <1>3 DEF LiveTempKept, NotDoomed, Prepared, Stamped, Writing
<1>8. OldNames'
  BY <1>2, <1>3, <1>4, MaxSavesAssumption DEF IInv, OldNames, Numbered, TypeOK, Image
<1>9. Safe'
  BY <1>3, <1>5 DEF IInv, Safe
<1>10. Ranked'
  BY <1>3, <1>4, <1>5 DEF IInv, Ranked, TypeOK
<1> QED BY <1>6, <1>7, <1>8, <1>9, <1>10 DEF IInv

LEMMA NextIInv == IInv /\ [Next]_vars => IInv'
<1> SUFFICES ASSUME IInv, [Next]_vars PROVE IInv'
  OBVIOUS
<1>1. ASSUME NEW p \in Process, Save(p) PROVE IInv'
  <2>1. CASE Write(p) \/ Sync(p)
    BY <2>1, PrepareIInv
  <2>2. CASE Rename(p)
    BY <2>2, RenameIInv
  <2>3. CASE Abandon(p)
    BY <2>3, AbandonIInv
  <2>4. CASE SyncDir(p)
    BY <2>4, SyncDirIInv
  <2>5. CASE \E name \in visit[p] : Look(p, name)
    BY <2>5, LookIInv
  <2>6. CASE Remove(p)
    BY <2>6, RemoveIInv
  <2>7. CASE Finish(p)
    BY <2>7, FinishIInv
  <2> QED BY <1>1, <2>1, <2>2, <2>3, <2>4, <2>5, <2>6, <2>7 DEF Save
<1>2. ASSUME NEW p \in Process, Create(p) \/ Die(p) \/ Start(p) PROVE IInv'
  BY <1>2, CreateIInv, DieIInv, StartIInv
<1>3. CASE PowerLoss
  BY <1>3, PowerLossIInv
<1>4. CASE UNCHANGED vars
  <2>1. \A q \in Process : (Writing(q)' <=> Writing(q)) /\ Temp(q)' = Temp(q)
    BY <1>4 DEF vars, Writing, Temp
  <2> QED
    BY <1>4, <2>1 DEF vars, IInv, TypeOK, LiveTempKept, OldNames, Numbered,
                      NotDoomed, Prepared, Stamped, Safe, Ranked
<1> QED BY <1>1, <1>2, <1>3, <1>4 DEF Next

THEOREM Invariance == Spec => []IInv
BY InitIInv, NextIInv, PTL DEF Spec

-----------------------------------------------------------------------------
(* The theorems.                                                           *)

\* The variables keep their types and every save its place.
THEOREM TypeCorrect == Spec => []TypeOK
<1>1. IInv => TypeOK
  BY DEF IInv
<1> QED BY <1>1, Invariance, PTL

\* No sweep disturbs a save in progress.
THEOREM SweepIsHarmless == Spec => []LiveTempKept
<1>1. IInv => LiveTempKept
  BY DEF IInv
<1> QED BY <1>1, Invariance, PTL

\* Nobody, whenever the power goes, finds an incomplete file.
THEOREM DestinationIsWhole == Spec => []NeverTorn
<1>1. IInv => NeverTorn
  <2> SUFFICES ASSUME IInv, NEW found \in possible \union {dest}
               PROVE  OnDevice(found.file).whole
    BY DEF NeverTorn
  <2>1. found \in possible /\ found.file \in File
    BY DEF IInv, TypeOK
  <2>2. found.file.whole /\ found.file.synced
    BY <2>1 DEF IInv, Safe
  <2> QED BY <2>1, <2>2, DeviceKeepsSafe
<1> QED BY <1>1, Invariance, PTL

\* A save that was reported done is never undone.
THEOREM ReportIsKept == Spec => []ReportedIsDurable
<1>1. IInv => ReportedIsDurable
  BY DEF IInv, Ranked, ReportedIsDurable
<1> QED BY <1>1, Invariance, PTL

-----------------------------------------------------------------------------
(* write_file() implements the register of AtomicFile.                     *)

Wanted == [p \in Process |-> IF Writing(p) THEN saving[p] ELSE Corrupt]
Readable == {Read(found) : found \in possible}

\* When a save leaves or passes the point of its rename, the register forgets
\* what that process wanted.
LEMMA WantedForgets ==
    ASSUME NEW p \in Process,
           \A q \in Process : Writing(q)' <=> q # p /\ Writing(q),
           \A q \in Process : q # p => saving'[q] = saving[q]
    PROVE  Wanted' = [Wanted EXCEPT ![p] = Corrupt]
BY DEF Wanted

\* Every step of a save or of its environment is a step of the register, or
\* leaves it alone.
LEMMA StepRefines == IInv /\ [Next]_vars => [Register!Next]_(Register!vars)
<1> SUFFICES ASSUME IInv, [Next]_vars
             PROVE  [Register!Next]_(Register!vars)
  OBVIOUS
<1> USE DEF Register!vars
<1>1. TypeOK /\ Corrupt \notin Image
  BY MaxSavesAssumption DEF IInv, Corrupt, Image
<1>2. ASSUME UNCHANGED <<dest, possible>>,
             \A q \in Process : Writing(q)' <=> Writing(q),
             \A q \in Process : Writing(q) => saving'[q] = saving[q]
      PROVE  [Register!Next]_(Register!vars)
  <2>1. Wanted' = Wanted
    BY <1>2 DEF Wanted
  <2>2. Read(dest)' = Read(dest) /\ Readable' = Readable
    BY <1>2 DEF Read, Readable
  <2> QED BY <2>1, <2>2 DEF Wanted, Readable
<1>3. ASSUME NEW p \in Process, UNCHANGED <<dest, possible>>,
             \A q \in Process : Writing(q)' <=> q # p /\ Writing(q),
             \A q \in Process : q # p => saving'[q] = saving[q]
      PROVE  Register!GiveUp(p)
  <2>1. Wanted' = [Wanted EXCEPT ![p] = Corrupt]
    BY <1>3, WantedForgets
  <2>2. Read(dest)' = Read(dest) /\ Readable' = Readable
    BY <1>3 DEF Read, Readable
  <2> QED BY <2>1, <2>2 DEF Wanted, Readable, Register!GiveUp
<1>4. ASSUME NEW p \in Process, NEW image \in Image, image = started', Create(p)
      PROVE  Register!Begin(p, image)
  <2>1. /\ pc[p] = "idle"
        /\ saving' = [saving EXCEPT ![p] = started']
        /\ pc' = [pc EXCEPT ![p] = "write"]
        /\ UNCHANGED <<dest, possible>>
    BY <1>4 DEF Create, At, Goto, diskUnchanged
  <2>2. Wanted[p] = Corrupt /\ Wanted' = [Wanted EXCEPT ![p] = image]
    BY <1>1, <1>4, <2>1 DEF Wanted, Writing, TypeOK
  <2>3. Read(dest)' = Read(dest) /\ Readable' = Readable
    BY <2>1 DEF Read, Readable
  <2> QED BY <2>2, <2>3 DEF Wanted, Readable, Register!Begin
<1>5. ASSUME NEW p \in Process, Create(p)
      PROVE  started' \in Image
  BY <1>1, <1>5, MaxSavesAssumption DEF Create, TypeOK, Image
<1>6. ASSUME NEW p \in Process, Write(p) \/ Sync(p)
      PROVE  [Register!Next]_(Register!vars)
  <2>1. /\ pc[p] \in {"write", "sync"}
        /\ \E place \in {"sync", "rename"} : pc' = [pc EXCEPT ![p] = place]
        /\ UNCHANGED <<saving, dest, possible>>
    BY <1>6 DEF Write, Sync, At, Goto, diskUnchanged
  <2>2. \A q \in Process : Writing(q)' <=> Writing(q)
    BY <1>1, <2>1 DEF Writing, TypeOK
  <2> QED BY <1>2, <2>1, <2>2
<1>7. ASSUME NEW p \in Process, Abandon(p)
      PROVE  Register!GiveUp(p)
  <2>1. /\ saving' = [saving EXCEPT ![p] = 0]
        /\ pc' = [pc EXCEPT ![p] = "idle"]
        /\ UNCHANGED <<dest, possible>>
    BY <1>7 DEF Abandon, Goto, diskUnchanged
  <2>2. \A q \in Process : Writing(q)' <=> q # p /\ Writing(q)
    BY <1>1, <2>1 DEF Writing, TypeOK
  <2>3. \A q \in Process : q # p => saving'[q] = saving[q]
    BY <1>1, <2>1 DEF TypeOK
  <2> QED BY <1>3, <2>1, <2>2, <2>3
<1>8. ASSUME NEW p \in Process, Rename(p)
      PROVE  Register!Replace(p)
  <2>1. /\ pc[p] = "rename"
        /\ dest' = [file |-> temps[Temp(p)], rank |-> renames + 1]
        /\ possible' = possible \union {dest'}
        /\ saving' = [saving EXCEPT ![p] = 0]
        /\ pc' = [pc EXCEPT ![p] = "dirsync"]
    BY <1>8 DEF Rename, At, Goto, Placed
  <2>2. \A q \in Process : Writing(q)' <=> q # p /\ Writing(q)
    BY <1>1, <2>1 DEF Writing, TypeOK
  <2>3. \A q \in Process : q # p => saving'[q] = saving[q]
    BY <1>1, <2>1 DEF TypeOK
  <2>4. Wanted' = [Wanted EXCEPT ![p] = Corrupt]
    BY <2>2, <2>3, WantedForgets
  <2>5. Wanted[p] = saving[p] /\ saving[p] \in Image
    BY <1>1, <2>1 DEF Wanted, Writing, TypeOK
  <2>6. Read(dest)' = saving[p]
    BY <2>1 DEF IInv, Prepared, Stamped, Read, Writing
  <2>7. Readable' = Readable \union {Read(dest)'}
    BY <2>1 DEF Readable, Read
  <2> QED BY <1>1, <2>4, <2>5, <2>6, <2>7 DEF Wanted, Readable, Register!Replace
<1>9. ASSUME NEW p \in Process, SyncDir(p)
      PROVE  [Register!Next]_(Register!vars)
  <2>1. /\ pc[p] = "dirsync"
        /\ possible' = (IF dirSync THEN {dest} ELSE possible)
        /\ pc' = [pc EXCEPT ![p] = "sweep"]
        /\ UNCHANGED <<saving, dest>>
    BY <1>9 DEF SyncDir, At, Goto
  <2>2. \A q \in Process : Writing(q)' <=> Writing(q)
    BY <1>1, <2>1 DEF Writing, TypeOK
  <2>3. CASE dirSync
    <3>1. Wanted' = Wanted
      BY <2>1, <2>2 DEF Wanted
    <3>2. Read(dest)' = Read(dest) /\ Readable' = {Read(dest)}
      BY <2>1, <2>3 DEF Read, Readable
    <3>3. Register!Settle
      BY <3>1, <3>2 DEF Wanted, Readable, Register!Settle
    <3> QED BY <3>3 DEF Register!Next
  <2>4. CASE ~dirSync
    BY <1>2, <2>1, <2>2, <2>4
  <2> QED BY <2>3, <2>4
<1>10. ASSUME NEW p \in Process,
              (\E name \in visit[p] : Look(p, name)) \/ Remove(p) \/ Start(p)
       PROVE  [Register!Next]_(Register!vars)
  <2>1. UNCHANGED <<pc, saving, dest, possible>>
    BY <1>10 DEF Look, Remove, Sweeping, diskUnchanged, Start
  <2> QED BY <1>2, <2>1 DEF Writing
<1>11. ASSUME NEW p \in Process, Finish(p)
       PROVE  [Register!Next]_(Register!vars)
  <2>1. /\ pc[p] = "sweep" /\ pc' = [pc EXCEPT ![p] = "idle"]
        /\ UNCHANGED <<saving, dest, possible>>
    BY <1>11 DEF Finish, At, Goto
  <2>2. \A q \in Process : Writing(q)' <=> Writing(q)
    BY <1>1, <2>1 DEF Writing, TypeOK
  <2> QED BY <1>2, <2>1, <2>2
<1>12. ASSUME NEW p \in Process, Die(p)
       PROVE  Register!GiveUp(p)
  <2>1. /\ saving' = [saving EXCEPT ![p] = 0]
        /\ pc' = [pc EXCEPT ![p] = "idle"]
        /\ UNCHANGED <<dest, possible>>
    BY <1>12 DEF Die, Goto
  <2>2. \A q \in Process : Writing(q)' <=> q # p /\ Writing(q)
    BY <1>1, <2>1 DEF Writing, TypeOK
  <2>3. \A q \in Process : q # p => saving'[q] = saving[q]
    BY <1>1, <2>1 DEF TypeOK
  <2> QED BY <1>3, <2>1, <2>2, <2>3
<1>13. ASSUME PowerLoss
       PROVE  Register!PowerLoss
  <2>1. PICK found \in possible :
            dest' = Placed(OnDevice(found.file), found.rank)
    BY <1>13 DEF PowerLoss
  <2>2. /\ possible' = {dest'}
        /\ pc' = [q \in Process |-> "idle"]
    BY <1>13 DEF PowerLoss
  <2>3. dest' = [file |-> found.file, rank |-> found.rank]
    <3>1. found.file \in File /\ found.file.whole /\ found.file.synced
      BY <1>1 DEF TypeOK, IInv, Safe
    <3> QED BY <2>1, <3>1, DeviceKeepsSafe DEF Placed
  <2>4. Read(dest)' = Read(found) /\ Readable' = {Read(dest)'}
    BY <2>2, <2>3 DEF Read, Readable
  <2>5. Wanted' = [q \in Process |-> Corrupt]
    BY <2>2 DEF Wanted, Writing
  <2> QED BY <2>4, <2>5 DEF Wanted, Readable, Register!PowerLoss
<1>14. CASE UNCHANGED vars
  BY <1>2, <1>14 DEF vars, Writing
<1>15. ASSUME NEW p \in Process, Create(p) \/ Abandon(p) \/ Rename(p) \/ Die(p)
       PROVE  Register!Next
  <2>1. CASE Create(p)
    <3>1. PICK image \in Image : image = started'
      BY <1>5, <2>1
    <3>2. Register!Begin(p, image)
      BY <1>4, <2>1, <3>1
    <3> QED BY <3>2 DEF Register!Next
  <2>2. CASE Rename(p)
    BY <1>8, <2>2 DEF Register!Next
  <2>3. CASE Abandon(p) \/ Die(p)
    <3>1. Register!GiveUp(p)
      BY <1>7, <1>12, <2>3
    <3> QED BY <3>1 DEF Register!Next
  <2> QED BY <1>15, <2>1, <2>2, <2>3
<1>16. PowerLoss => Register!Next
  BY <1>13 DEF Register!Next
<1> HIDE DEF Register!vars
<1>17. ASSUME NEW p \in Process, Create(p) \/ Save(p) \/ Die(p) \/ Start(p)
       PROVE  [Register!Next]_(Register!vars)
  BY <1>6, <1>9, <1>10, <1>11, <1>15, <1>17 DEF Save
<1> QED BY <1>14, <1>16, <1>17 DEF Next

LEMMA InitRefines == Init => Register!Init
<1> SUFFICES ASSUME Init PROVE Register!Init
  OBVIOUS
<1>1. Read(dest) = 0 /\ 0 \in Image /\ Readable = {0}
  BY MaxSavesAssumption DEF Init, Placed, Read, Readable, Image
<1>2. Wanted = [p \in Process |-> Corrupt]
  BY DEF Init, Wanted, Writing
<1> QED BY <1>1, <1>2 DEF Register!Init, Wanted, Readable

\* Saving is atomic: the destination behaves as a register.
THEOREM SaveIsAtomic == Spec => IsRegister
BY InitRefines, StepRefines, Invariance, PTL DEF Spec, IsRegister, Register!Spec
=============================================================================
