-------------------------------- MODULE Wal --------------------------------
(***************************************************************************)
(* The write-ahead log of rag-cpp (src/store/wal.cpp): one append-only     *)
(* file of framed logical mutations, written by one owner.                 *)
(*                                                                         *)
(* A frame is one record; what the bytes of a frame say is abstracted to   *)
(* whether all of them are there ("whole") or only a proper prefix of      *)
(* them ("torn").  A call's write() loop, the sync that follows it and     *)
(* the bookkeeping after that are separate steps, because the process or   *)
(* the machine can stop between any two of them.                           *)
(*                                                                         *)
(* Two images of the file are kept: "file", what the kernel holds and a    *)
(* restarted process reads, and "stable", what the device is known to      *)
(* hold, to which a power loss may roll the file back.                     *)
(***************************************************************************)
EXTENDS Integers, Sequences, FiniteSets

CONSTANTS
    Record,    \* logical mutations the owner logs
    Durable,   \* TRUE: SyncMode flush or full; FALSE: SyncMode none
    MaxBatch,  \* bound on the records of one append_batch()
    MaxLog     \* bound on the frames and fragments the file may hold, and on
               \* bytes_, which a failed truncation leaves above the file's size

ASSUME DurableAssumption == Durable \in BOOLEAN
ASSUME BoundsAssumption == MaxBatch \in Nat /\ MaxLog \in Nat

VARIABLES
    open,      \* fd_ >= 0
    file,      \* the log as the kernel holds it
    stable,    \* the log as the device is known to hold it
    bytes,     \* bytes_, counted in frames and fragments
    phase,     \* how far the running call is
    queue,     \* records of the running call that are not yet written
    group,     \* number of records of the running call
    acked      \* history: positions of the frames whose call returned success

vars == <<open, file, stable, bytes, phase, queue, group, acked>>

Frame == [rec : Record, whole : BOOLEAN]

Whole(r) == [rec |-> r, whole |-> TRUE]
Torn(r)  == [rec |-> r, whole |-> FALSE]

-----------------------------------------------------------------------------
(* What a reader makes of the file.                                        *)

\* f starts with everything g holds.
Extends(f, g) ==
    /\ Len(g) <= Len(f)
    /\ \A i \in 1..Len(g) : f[i] = g[i]

\* The length of the longest prefix of whole frames.
Intact(f) ==
    CHOOSE n \in 0..Len(f) :
        /\ \A i \in 1..n : f[i].whole
        /\ n < Len(f) => ~f[n + 1].whole

\* A fragment with other bytes behind it.  The header that survived, or the
\* mix of its bytes with the next frame's, then promises a payload that runs
\* into the frames that follow.
Buried(f) == \E i \in 1..(Len(f) - 1) : ~f[i].whole

\* replay() returns the records of the intact prefix.  Behind a buried
\* fragment it either stops there too (the promised payload reaches past the
\* end of the file) or reports corruption (bad magic, or a checksum that does
\* not match in the middle of the file); which one depends on the lengths.
Replayed(f) == [i \in 1..Intact(f) |-> f[i].rec]
MayFailReplay(f) == Buried(f)

-----------------------------------------------------------------------------
Init ==
    /\ open = TRUE
    /\ file = <<>>
    /\ stable = <<>>
    /\ bytes = 0
    /\ phase = "idle"
    /\ queue = <<>>
    /\ group = 0
    /\ acked = {}

CallEnds == phase' = "idle" /\ queue' = <<>> /\ group' = 0

\* append() with one record, append_batch() with several: the frames are
\* encoded, nothing is written yet.
StartAppend(recs) ==
    /\ open
    /\ phase = "idle"
    /\ recs # <<>>
    /\ Len(file) + Len(recs) <= MaxLog
    /\ bytes + Len(recs) <= MaxLog
    /\ phase' = "write"
    /\ queue' = recs
    /\ group' = Len(recs)
    /\ UNCHANGED <<open, file, stable, bytes, acked>>

\* The write() loop gets one more frame into the file.
WriteFrame ==
    /\ phase = "write"
    /\ file' = Append(file, Whole(Head(queue)))
    /\ queue' = Tail(queue)
    /\ phase' = IF Len(queue) = 1 THEN "sync" ELSE "write"
    /\ UNCHANGED <<open, stable, bytes, group, acked>>

\* The file after a stop in the write() loop, "cut" inside the next frame.
LeftBehind(cut) == IF cut THEN Append(file, Torn(Head(queue))) ELSE file

\* Broken variant: a failed write() ends the loop and nothing else.
WriteErrorIgnored(cut) ==
    /\ phase = "write"
    /\ file' = LeftBehind(cut)
    /\ phase' = "sync"
    /\ queue' = <<>>
    /\ UNCHANGED <<open, stable, bytes, group, acked>>

\* write() fails: the call returns an error and what it wrote stays there.
WriteError(cut) ==
    /\ phase = "write"
    /\ file' = LeftBehind(cut)
    /\ CallEnds
    /\ UNCHANGED <<open, stable, bytes, acked>>

\* Broken variant: success is returned without the fsync.
SyncSkipped ==
    /\ phase = "sync"
    /\ bytes' = bytes + group
    /\ acked' = acked \union ((Len(file) - group + 1)..Len(file))
    /\ CallEnds
    /\ UNCHANGED <<open, file, stable>>

\* sync_now() succeeds (SyncMode none: does nothing) and the call returns
\* success for every record of the group.
SyncOk ==
    /\ phase = "sync"
    /\ stable' = IF Durable THEN file ELSE stable
    /\ bytes' = bytes + group
    /\ acked' = acked \union ((Len(file) - group + 1)..Len(file))
    /\ CallEnds
    /\ UNCHANGED <<open, file>>

\* fsync() fails: an error is returned although every frame is in the file.
SyncError ==
    /\ phase = "sync"
    /\ Durable
    /\ CallEnds
    /\ UNCHANGED <<open, file, stable, bytes, acked>>

\* truncate(): ftruncate(0), to be made durable by the sync that follows.
\* The caller owes it that a snapshot holds every record of the log.
StartTruncate ==
    /\ open
    /\ phase = "idle"
    /\ file' = <<>>
    /\ acked' = {}
    /\ phase' = "cut"
    /\ UNCHANGED <<open, stable, bytes, queue, group>>

TruncateSyncOk ==
    /\ phase = "cut"
    /\ stable' = IF Durable THEN <<>> ELSE stable
    /\ bytes' = 0
    /\ CallEnds
    /\ UNCHANGED <<open, file, acked>>

TruncateSyncError ==
    /\ phase = "cut"
    /\ Durable
    /\ CallEnds
    /\ UNCHANGED <<open, file, stable, bytes, acked>>

-----------------------------------------------------------------------------
(* The environment: the process stops, the machine stops, a new process    *)
(* opens the log.                                                          *)

Down == open' = FALSE /\ bytes' = 0 /\ CallEnds

\* The process stops.  What it wrote stays with the kernel; in the write()
\* loop the last write() may have been partial.
Crash(cut) ==
    /\ open
    /\ cut => phase = "write"
    /\ file' = LeftBehind(cut)
    /\ Down
    /\ UNCHANGED <<stable, acked>>

\* What the device may hold when the power goes: at least what the last sync
\* covered, then any part of what was written after it, the last frame of
\* which may be torn; or, when the truncation was never synced, the old log.
PowerLossImages ==
    LET from == IF Extends(file, stable) THEN Len(stable) ELSE 0
    IN  {stable}
        \union {SubSeq(file, 1, n) : n \in from..Len(file)}
        \union {Append(SubSeq(file, 1, n - 1), Torn(file[n].rec)) :
                    n \in (from + 1)..Len(file)}
        \union {LeftBehind(cut) : cut \in {phase = "write"}}

\* SyncMode none promises nothing about a power loss, so it is the flushing
\* modes the machine may fail under.
PowerLoss ==
    /\ Durable
    /\ file' \in PowerLossImages
    /\ stable' = file'
    /\ Down
    /\ UNCHANGED acked

\* Broken variant: the size is not taken from the file that was found.
OpenAtZero ==
    /\ ~open
    /\ open' = TRUE
    /\ bytes' = 0
    /\ UNCHANGED <<file, stable, phase, queue, group, acked>>

\* open_wal(): replay() succeeds, then open() positions at the end of the file
\* as it is.  When replay() reports corruption the log stays closed.
Open ==
    /\ ~open
    /\ open' = TRUE
    /\ bytes' = Len(file)
    /\ UNCHANGED <<file, stable, phase, queue, group, acked>>

Step ==
    \/ \E n \in 1..MaxBatch : \E recs \in [1..n -> Record] : StartAppend(recs)
    \/ WriteFrame
    \/ \E cut \in BOOLEAN : WriteError(cut)
    \/ SyncOk
    \/ SyncError
    \/ StartTruncate
    \/ TruncateSyncOk
    \/ TruncateSyncError

Fault ==
    \/ \E cut \in BOOLEAN : Crash(cut)
    \/ PowerLoss

Next == Step \/ Fault \/ Open

Spec == Init /\ [][Next]_vars

-----------------------------------------------------------------------------
(* Properties                                                              *)

\* The variables have their types, and the call in progress is where its
\* phase says: frames are left to write only in the write() loop, and the
\* frames of the group that are written are the last ones of the file.
TypeOK ==
    /\ open \in BOOLEAN
    /\ file \in Seq(Frame)
    /\ stable \in Seq(Frame)
    /\ bytes \in Nat
    /\ phase \in {"idle", "write", "sync", "cut"}
    /\ queue \in Seq(Record)
    /\ group \in Nat
    /\ acked \subseteq 1..Len(file)
    /\ ~open => phase = "idle"
    /\ phase = "write" <=> queue # <<>>
    /\ phase \in {"write", "sync"} <=> group # 0
    /\ Len(queue) <= group
    /\ group - Len(queue) <= Len(file)

\* "Returns only after the data is as safe as mode promises" (wal.hpp): as
\* long as no fragment lies in the middle of the file, replay() returns the
\* record of every call that returned success - through partial writes, failed
\* syncs, failed group commits, crashes, power losses and truncations.
AckedReplayed == ~Buried(file) => acked \subseteq 1..Intact(file)

\* The same without the condition: wal.hpp drops only a torn TRAILING record,
\* one that was never acknowledged.  The code violates it: the fragment that a
\* crash or a failed write() left is not trimmed, and the next successful
\* append() lands behind it.
EveryAckedReplayed == acked \subseteq 1..Intact(file)

\* In the flushing modes no power loss, at whatever moment, takes back or
\* alters a frame whose call returned success.
AckedDurable ==
    Durable => \A image \in PowerLossImages : \A i \in acked :
                   i <= Len(image) /\ image[i] = file[i]

\* size_bytes(), the signal for "time to checkpoint", never misses a frame
\* that was acknowledged, whatever failed before and however often the log was
\* reopened: a log that counted less would never be folded into a snapshot.
SizeCoversAcked == open => Cardinality(acked) <= bytes
=============================================================================
