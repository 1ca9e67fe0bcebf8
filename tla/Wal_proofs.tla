----------------------------- MODULE Wal_proofs -----------------------------
(***************************************************************************)
(* Proofs about Wal, for every set of records, every bound and every sync  *)
(* mode: what a call acknowledged is in the log and stays there.           *)
(*                                                                         *)
(* AckedReplayed and AckedDurable are not inductive.  The first needs to   *)
(* know that the frames of the running call are whole before they are      *)
(* acknowledged, the second that the device image of an acknowledged frame *)
(* is the frame itself and that the file only grew since the last sync -   *)
(* unless it is being cut, and then nothing in it is acknowledged.  IInv   *)
(* says that.                                                              *)
(***************************************************************************)
EXTENDS Wal, SequenceTheorems, FiniteSetTheorems, TLAPS

\* Acknowledged frames are whole.
AckedWhole == \A i \in acked : file[i].whole

\* So are the frames the running call has written, the last of the file.
GroupWhole ==
    phase \in {"write", "sync"} =>
        \A i \in (Len(file) - (group - Len(queue)) + 1)..Len(file) : file[i].whole

\* The device holds the acknowledged frames, and as long as there are any the
\* file is what the device holds and more.
AckedStable ==
    Durable =>
        /\ \A i \in acked : i <= Len(stable) /\ stable[i] = file[i]
        /\ acked # {} => Extends(file, stable)

\* Nothing is acknowledged in a log that is being cut.
CutIsEmpty == phase = "cut" => acked = {}

IInv == TypeOK /\ AckedWhole /\ GroupWhole /\ AckedStable /\ CutIsEmpty

-----------------------------------------------------------------------------

LEMMA FrameTypes == \A r \in Record : Whole(r) \in Frame /\ Torn(r) \in Frame
BY DEF Whole, Torn, Frame

\* What a stop leaves behind is the file, or the file and one more frame.
LEMMA LeftBehindExtends ==
    ASSUME TypeOK, NEW cut \in BOOLEAN, cut => phase = "write"
    PROVE  /\ LeftBehind(cut) \in Seq(Frame)
           /\ Len(file) <= Len(LeftBehind(cut))
           /\ \A i \in 1..Len(file) : LeftBehind(cut)[i] = file[i]
<1>1. CASE cut
  <2>1. Head(queue) \in Record
    BY <1>1 DEF TypeOK
  <2>2. Torn(Head(queue)) \in Frame
    BY <2>1, FrameTypes
  <2>3. file \in Seq(Frame)
    BY DEF TypeOK
  <2> QED BY <1>1, <2>2, <2>3 DEF LeftBehind
<1>2. CASE ~cut
  BY <1>2 DEF LeftBehind, TypeOK
<1> QED BY <1>1, <1>2

\* Every image a power loss can leave is a log.
LEMMA ImagesAreLogs ==
    ASSUME TypeOK, NEW image \in PowerLossImages
    PROVE  image \in Seq(Frame)
<1> DEFINE from == IF Extends(file, stable) THEN Len(stable) ELSE 0
<1>1. file \in Seq(Frame) /\ stable \in Seq(Frame) /\ from \in Nat
  BY DEF TypeOK
<1>2. CASE image = stable
  BY <1>1, <1>2
<1>3. ASSUME NEW n \in from..Len(file), image = SubSeq(file, 1, n)
      PROVE  image \in Seq(Frame)
  BY <1>1, <1>3
<1>4. ASSUME NEW n \in (from + 1)..Len(file),
             image = Append(SubSeq(file, 1, n - 1), Torn(file[n].rec))
      PROVE  image \in Seq(Frame)
  <2>1. n \in 1..Len(file)
    BY <1>1
  <2>2. file[n].rec \in Record
    <3>1. file[n] \in Frame
      BY <1>1, <2>1
    <3> QED BY <3>1 DEF Frame
  <2>3. Torn(file[n].rec) \in Frame
    BY <2>2, FrameTypes
  <2>4. SubSeq(file, 1, n - 1) \in Seq(Frame)
    BY <1>1, <2>1
  <2> QED BY <1>4, <2>3, <2>4
<1>5. ASSUME NEW cut \in {phase = "write"}, image = LeftBehind(cut)
      PROVE  image \in Seq(Frame)
  <2>1. cut \in BOOLEAN /\ (cut => phase = "write")
    BY <1>5
  <2> QED BY <1>5, <2>1, LeftBehindExtends
<1> HIDE DEF from
<1> QED
  BY <1>2, <1>3, <1>4, <1>5 DEF PowerLossImages, from

\* No image loses or alters an acknowledged frame.
LEMMA ImagesKeepAcked ==
    ASSUME IInv, Durable, NEW image \in PowerLossImages, NEW k \in acked
    PROVE  k <= Len(image) /\ image[k] = file[k]
<1> DEFINE from == Len(stable)
<1>1. /\ file \in Seq(Frame) /\ stable \in Seq(Frame)
      /\ k \in 1..Len(file) /\ k <= Len(stable) /\ stable[k] = file[k]
      /\ Extends(file, stable)
  BY DEF IInv, TypeOK, AckedStable
<1>2. CASE image = stable
  BY <1>1, <1>2
<1>3. ASSUME NEW n \in from..Len(file), image = SubSeq(file, 1, n)
      PROVE  k <= Len(image) /\ image[k] = file[k]
  BY <1>1, <1>3
<1>4. ASSUME NEW n \in (from + 1)..Len(file),
             image = Append(SubSeq(file, 1, n - 1), Torn(file[n].rec))
      PROVE  k <= Len(image) /\ image[k] = file[k]
  <2> DEFINE s == SubSeq(file, 1, n - 1)
  <2>1. s \in Seq(Frame) /\ Len(s) = n - 1 /\ k <= n - 1 /\ s[k] = file[k]
    BY <1>1
  <2>2. Len(image) = n /\ image[k] = s[k]
    <3> HIDE DEF s
    <3>1. image = Append(s, Torn(file[n].rec))
      BY <1>4 DEF s
    <3> QED BY <2>1, <3>1, <1>1
  <2> QED BY <2>1, <2>2, <1>1
<1>5. ASSUME NEW cut \in {phase = "write"}, image = LeftBehind(cut)
      PROVE  k <= Len(image) /\ image[k] = file[k]
  <2>1. cut \in BOOLEAN /\ (cut => phase = "write")
    BY <1>5
  <2>2. TypeOK
    BY DEF IInv
  <2>3. /\ Len(file) <= Len(LeftBehind(cut))
        /\ \A i \in 1..Len(file) : LeftBehind(cut)[i] = file[i]
        /\ LeftBehind(cut) \in Seq(Frame)
    BY <2>1, <2>2, LeftBehindExtends
  <2> QED BY <1>1, <1>5, <2>3
<1> QED
  BY <1>1, <1>2, <1>3, <1>4, <1>5 DEF PowerLossImages
-----------------------------------------------------------------------------
(* The invariant is inductive.                                             *)

LEMMA InitIInv == Init => IInv
BY DEF Init, IInv, TypeOK, AckedWhole, GroupWhole, AckedStable, CutIsEmpty, Extends

LEMMA StartAppendIInv ==
    ASSUME IInv, NEW recs \in Seq(Record), StartAppend(recs)
    PROVE  IInv'
<1>1. TypeOK'
  BY DEF IInv, TypeOK, StartAppend
<1>2. AckedWhole' /\ GroupWhole' /\ AckedStable' /\ CutIsEmpty'
  BY DEF IInv, TypeOK, StartAppend, AckedWhole, GroupWhole, AckedStable,
         CutIsEmpty, Extends
<1> QED BY <1>1, <1>2 DEF IInv

LEMMA WriteFrameIInv == IInv /\ WriteFrame => IInv'
<1> SUFFICES ASSUME IInv, WriteFrame PROVE IInv'
  OBVIOUS
<1>1. /\ file \in Seq(Frame) /\ queue \in Seq(Record) /\ queue # <<>>
      /\ group \in Nat /\ Len(queue) <= group /\ group - Len(queue) <= Len(file)
      /\ acked \subseteq 1..Len(file) /\ stable \in Seq(Frame)
      /\ phase = "write"
  BY DEF IInv, TypeOK, WriteFrame
<1> DEFINE w == Whole(Head(queue))
<1>2. w \in Frame /\ w.whole
  <2>1. Head(queue) \in Record
    BY <1>1
  <2> QED BY <2>1, FrameTypes DEF Whole
<1>3. file' = Append(file, w) /\ queue' = Tail(queue)
  BY DEF WriteFrame
<1> HIDE DEF w
<1>4. /\ file' \in Seq(Frame) /\ Len(file') = Len(file) + 1
      /\ file'[Len(file')].whole
      /\ \A i \in 1..Len(file) : file'[i] = file[i]
  BY <1>1, <1>2, <1>3
<1>5. /\ queue' \in Seq(Record) /\ Len(queue') = Len(queue) - 1
      /\ Len(queue) >= 1 /\ (Len(queue) = 1 <=> queue' = <<>>)
  <2>1. Len(queue) >= 1
    BY <1>1, EmptySeq
  <2>2. queue' \in Seq(Record) /\ Len(queue') = Len(queue) - 1
    BY <1>1, <1>3, <2>1
  <2> QED BY <2>1, <2>2, EmptySeq
<1>6. TypeOK'
  BY <1>1, <1>4, <1>5 DEF IInv, TypeOK, WriteFrame
<1>7. AckedWhole'
  BY <1>1, <1>4 DEF IInv, AckedWhole, WriteFrame
<1>8. GroupWhole'
  <2>1. group' = group /\ group' - Len(queue') = group - Len(queue) + 1
    BY <1>1, <1>5 DEF WriteFrame
  <2>2. \A i \in (Len(file) - (group - Len(queue)) + 1)..Len(file) : file[i].whole
    BY <1>1 DEF IInv, GroupWhole
  <2> SUFFICES ASSUME NEW i \in (Len(file') - (group' - Len(queue')) + 1)..Len(file')
               PROVE  file'[i].whole
    BY DEF GroupWhole
  <2>3. CASE i = Len(file')
    BY <1>4, <2>3
  <2>4. CASE i # Len(file')
    <3>1. i \in (Len(file) - (group - Len(queue)) + 1)..Len(file) /\ i \in 1..Len(file)
      BY <1>1, <1>4, <1>5, <2>1, <2>4
    <3> QED BY <1>4, <2>2, <3>1
  <2> QED BY <2>3, <2>4
<1>9. AckedStable'
  BY <1>1, <1>4 DEF IInv, AckedStable, Extends, WriteFrame
<1>10. CutIsEmpty'
  BY DEF CutIsEmpty, WriteFrame
<1> QED BY <1>6, <1>7, <1>8, <1>9, <1>10 DEF IInv

\* A call that ends with an error leaves the file it has, or one frame more,
\* and acknowledges nothing; so does a stop of the process.
LEMMA FileGrowsIInv ==
    ASSUME IInv, NEW cut \in BOOLEAN, cut => phase = "write",
           file' = LeftBehind(cut), UNCHANGED <<stable, acked>>,
           CallEnds, open' \in BOOLEAN, bytes' \in Nat
    PROVE  IInv'
<1>1. /\ file \in Seq(Frame) /\ stable \in Seq(Frame)
      /\ acked \subseteq 1..Len(file)
  BY DEF IInv, TypeOK
<1>2. /\ file' \in Seq(Frame)
      /\ Len(file) <= Len(file')
      /\ \A i \in 1..Len(file) : file'[i] = file[i]
  BY LeftBehindExtends DEF IInv
<1>3. /\ phase' = "idle" /\ queue' = <<>> /\ group' = 0
      /\ stable' = stable /\ acked' = acked
  BY DEF CallEnds
<1>4. TypeOK'
  <2>1. queue' \in Seq(Record) /\ Len(queue') = 0
    BY <1>3
  <2>2. acked' \subseteq 1..Len(file')
    BY <1>1, <1>2, <1>3
  <2>3. group' - Len(queue') <= Len(file')
    BY <1>2, <1>3, <2>1
  <2> QED BY <1>1, <1>2, <1>3, <2>1, <2>2, <2>3 DEF TypeOK
<1>5. AckedWhole'
  BY <1>1, <1>2, <1>3 DEF IInv, AckedWhole
<1>6. AckedStable'
  BY <1>1, <1>2, <1>3 DEF IInv, AckedStable, Extends
<1>7. GroupWhole' /\ CutIsEmpty'
  BY <1>3 DEF GroupWhole, CutIsEmpty
<1> QED BY <1>4, <1>5, <1>6, <1>7 DEF IInv

LEMMA WriteErrorIInv ==
    ASSUME IInv, NEW cut \in BOOLEAN, WriteError(cut)
    PROVE  IInv'
<1>1. /\ cut => phase = "write"
      /\ file' = LeftBehind(cut)
      /\ UNCHANGED <<stable, acked>>
      /\ CallEnds
  BY DEF WriteError
<1>2. open' \in BOOLEAN /\ bytes' \in Nat
  BY DEF WriteError, IInv, TypeOK
<1> QED BY <1>1, <1>2, FileGrowsIInv

LEMMA CrashIInv ==
    ASSUME IInv, NEW cut \in BOOLEAN, Crash(cut)
    PROVE  IInv'
<1>1. /\ cut => phase = "write"
      /\ file' = LeftBehind(cut)
      /\ UNCHANGED <<stable, acked>>
      /\ CallEnds
      /\ open' \in BOOLEAN
      /\ bytes' \in Nat
  BY DEF Crash, Down
<1> QED BY <1>1, FileGrowsIInv

\* fsync() succeeded: the frames of the group are acknowledged.
LEMMA SyncOkIInv == IInv /\ SyncOk => IInv'
<1> SUFFICES ASSUME IInv, SyncOk PROVE IInv'
  OBVIOUS
<1> DEFINE mine == (Len(file) - group + 1)..Len(file)
<1>1. /\ file \in Seq(Frame) /\ stable \in Seq(Frame) /\ bytes \in Nat
      /\ phase = "sync" /\ queue = <<>> /\ group \in Nat /\ group <= Len(file)
      /\ acked \subseteq 1..Len(file)
  <2>1. phase = "sync" /\ queue = <<>>
    BY DEF IInv, TypeOK, SyncOk
  <2>2. Len(queue) = 0
    BY <2>1
  <2> QED BY <2>1, <2>2 DEF IInv, TypeOK
<1>2. /\ file' = file /\ open' = open
      /\ stable' = (IF Durable THEN file ELSE stable)
      /\ bytes' = bytes + group /\ acked' = acked \union mine
      /\ phase' = "idle" /\ queue' = <<>> /\ group' = 0
  BY DEF SyncOk, CallEnds
<1>3. mine \subseteq 1..Len(file)
  BY <1>1
<1>4. \A i \in mine : file[i].whole
  <2>1. group - Len(queue) = group
    BY <1>1
  <2> QED BY <1>1, <2>1 DEF IInv, GroupWhole
<1> HIDE DEF mine
<1>5. TypeOK'
  <2>1. queue' \in Seq(Record) /\ Len(queue') = 0
    BY <1>2
  <2>2. bytes' \in Nat /\ stable' \in Seq(Frame) /\ acked' \subseteq 1..Len(file')
    BY <1>1, <1>2, <1>3
  <2>3. open' \in BOOLEAN
    BY <1>2 DEF IInv, TypeOK
  <2> QED BY <1>1, <1>2, <2>1, <2>2, <2>3 DEF TypeOK
<1>6. AckedWhole'
  BY <1>2, <1>4 DEF IInv, AckedWhole
<1>7. AckedStable'
  BY <1>1, <1>2, <1>3 DEF AckedStable, Extends
<1>8. GroupWhole' /\ CutIsEmpty'
  BY <1>2 DEF GroupWhole, CutIsEmpty
<1> QED BY <1>5, <1>6, <1>7, <1>8 DEF IInv

\* The machine stops: what is found is an image that kept what was acknowledged.
LEMMA PowerLossIInv == IInv /\ PowerLoss => IInv'
<1> SUFFICES ASSUME IInv, PowerLoss PROVE IInv'
  OBVIOUS
<1>1. /\ Durable /\ file' \in PowerLossImages /\ stable' = file' /\ acked' = acked
      /\ open' = FALSE /\ bytes' = 0
      /\ phase' = "idle" /\ queue' = <<>> /\ group' = 0
  BY DEF PowerLoss, Down, CallEnds
<1>2. file' \in Seq(Frame)
  BY <1>1, ImagesAreLogs DEF IInv
<1>3. \A k \in acked : k \in 1..Len(file') /\ file'[k] = file[k]
  <2> TAKE k \in acked
  <2>1. k <= Len(file') /\ file'[k] = file[k]
    BY <1>1, ImagesKeepAcked
  <2>2. k \in Nat /\ k >= 1
    BY DEF IInv, TypeOK
  <2> QED BY <1>2, <2>1, <2>2
<1>4. TypeOK'
  <2>1. queue' \in Seq(Record) /\ Len(queue') = 0
    BY <1>1
  <2>2. acked' \subseteq 1..Len(file')
    BY <1>1, <1>3
  <2>3. group' - Len(queue') <= Len(file')
    BY <1>1, <1>2, <2>1
  <2>4. open' \in BOOLEAN /\ bytes' \in Nat
    BY <1>1
  <2> QED BY <1>1, <1>2, <2>1, <2>2, <2>3, <2>4 DEF TypeOK
<1>5. AckedWhole'
  BY <1>1, <1>3 DEF IInv, AckedWhole
<1>6. AckedStable'
  BY <1>1, <1>2, <1>3 DEF AckedStable, Extends
<1>7. GroupWhole' /\ CutIsEmpty'
  BY <1>1 DEF GroupWhole, CutIsEmpty
<1> QED BY <1>4, <1>5, <1>6, <1>7 DEF IInv

\* The other actions change neither the file nor what is acknowledged, or
\* empty both.
LEMMA OtherIInv ==
    IInv /\ (\/ SyncError \/ StartTruncate \/ TruncateSyncOk
             \/ TruncateSyncError \/ Open) => IInv'
<1> SUFFICES ASSUME IInv PROVE
      /\ SyncError => IInv'
      /\ StartTruncate => IInv'
      /\ TruncateSyncOk => IInv'
      /\ TruncateSyncError => IInv'
      /\ Open => IInv'
  OBVIOUS
<1> USE DEF IInv, TypeOK, AckedWhole, GroupWhole, AckedStable, CutIsEmpty, Extends
<1>1. SyncError => IInv'
  BY DEF SyncError, CallEnds
<1>2. StartTruncate => IInv'
  BY DEF StartTruncate
<1>3. TruncateSyncOk => IInv'
  BY DEF TruncateSyncOk, CallEnds
<1>4. TruncateSyncError => IInv'
  BY DEF TruncateSyncError, CallEnds
<1>5. Open => IInv'
  BY DEF Open
<1> QED BY <1>1, <1>2, <1>3, <1>4, <1>5

LEMMA NextIInv == IInv /\ [Next]_vars => IInv'
<1> SUFFICES ASSUME IInv, [Next]_vars PROVE IInv'
  OBVIOUS
<1>1. ASSUME NEW n \in 1..MaxBatch, NEW recs \in [1..n -> Record], StartAppend(recs)
      PROVE  IInv'
  <2>1. n \in Nat
    BY BoundsAssumption
  <2>2. recs \in Seq(Record)
    BY <2>1
  <2> QED BY <1>1, <2>2, StartAppendIInv
<1>2. CASE WriteFrame
  BY <1>2, WriteFrameIInv
<1>3. CASE \E cut \in BOOLEAN : WriteError(cut)
  BY <1>3, WriteErrorIInv
<1>4. CASE SyncOk
  BY <1>4, SyncOkIInv
<1>5. CASE SyncError \/ StartTruncate \/ TruncateSyncOk \/ TruncateSyncError \/ Open
  BY <1>5, OtherIInv
<1>6. CASE \E cut \in BOOLEAN : Crash(cut)
  BY <1>6, CrashIInv
<1>7. CASE PowerLoss
  BY <1>7, PowerLossIInv
<1>8. CASE UNCHANGED vars
  BY <1>8 DEF vars, IInv, TypeOK, AckedWhole, GroupWhole, AckedStable, CutIsEmpty, Extends
<1> QED
  BY <1>1, <1>2, <1>3, <1>4, <1>5, <1>6, <1>7, <1>8 DEF Next, Step, Fault

THEOREM Invariance == Spec => []IInv
BY InitIInv, NextIInv, PTL DEF Spec

-----------------------------------------------------------------------------
(* The theorems.                                                           *)

\* The variables keep their types and the running call its place.
THEOREM TypeCorrect == Spec => []TypeOK
<1>1. IInv => TypeOK
  BY DEF IInv
<1> QED BY <1>1, Invariance, PTL

\* In the flushing modes no power loss takes an acknowledged frame back.
THEOREM AckedSurvivesPowerLoss == Spec => []AckedDurable
<1>1. IInv => AckedDurable
  BY ImagesKeepAcked DEF AckedDurable
<1> QED BY <1>1, Invariance, PTL

\* Without a fragment in the middle the longest whole prefix ends at the end
\* of the file, or one frame before it.
LEMMA IntactCoversWhole ==
    ASSUME NEW f \in Seq(Frame), ~Buried(f), NEW k \in 1..Len(f), f[k].whole
    PROVE  k \in 1..Intact(f)
<1> DEFINE P(n) == /\ \A i \in 1..n : f[i].whole
                   /\ n < Len(f) => ~f[n + 1].whole
<1>1. \A i \in 1..(Len(f) - 1) : f[i].whole
  BY DEF Buried
<1>2. \E n \in 0..Len(f) : P(n)
  <2>1. CASE f[Len(f)].whole
    <3>1. P(Len(f))
      BY <1>1, <2>1
    <3> QED BY <3>1
  <2>2. CASE ~f[Len(f)].whole
    <3>1. P(Len(f) - 1) /\ Len(f) - 1 \in 0..Len(f)
      BY <1>1, <2>2
    <3> QED BY <3>1
  <2> QED BY <2>1, <2>2
<1>3. Intact(f) \in 0..Len(f) /\ P(Intact(f))
  BY <1>2 DEF Intact
<1>4. Intact(f) < Len(f) => Intact(f) + 1 = Len(f)
  BY <1>1, <1>3
<1> QED BY <1>3, <1>4

\* What replay() returns covers every acknowledged frame, unless a fragment is
\* buried.
THEOREM AckedIsReplayed == Spec => []AckedReplayed
<1>1. IInv => AckedReplayed
  <2> SUFFICES ASSUME IInv, ~Buried(file), NEW k \in acked
               PROVE  k \in 1..Intact(file)
    BY DEF AckedReplayed
  <2>1. file \in Seq(Frame) /\ k \in 1..Len(file) /\ file[k].whole
    BY DEF IInv, TypeOK, AckedWhole
  <2> QED BY <2>1, IntactCoversWhole
<1> QED BY <1>1, Invariance, PTL

\* A set of positions of a log of n frames is finite and no larger than n.
LEMMA PositionsCount ==
    ASSUME NEW n \in Nat, NEW S, S \subseteq 1..n
    PROVE  IsFiniteSet(S) /\ Cardinality(S) \in Nat /\ Cardinality(S) <= n
<1>1. IsFiniteSet(1..n) /\ Cardinality(1..n) = n
  BY FS_Interval
<1>2. IsFiniteSet(S) /\ Cardinality(S) <= n
  BY <1>1, FS_Subset
<1> QED BY <1>2, FS_CardinalityType

\* The sync succeeded: size and acknowledged frames grow by the group.
LEMMA SyncOkCovers == IInv /\ SizeCoversAcked /\ SyncOk => SizeCoversAcked'
<1> SUFFICES ASSUME IInv, SizeCoversAcked, SyncOk, open'
             PROVE  Cardinality(acked') <= bytes'
  BY DEF SizeCoversAcked
<1> DEFINE mine == (Len(file) - group + 1)..Len(file)
<1>1. Len(file) \in Nat /\ group \in Nat /\ bytes \in Nat /\ acked \subseteq 1..Len(file)
  BY DEF IInv, TypeOK
<1>2. bytes' = bytes + group /\ acked' = acked \union mine /\ Cardinality(acked) <= bytes
  BY DEF SyncOk, SizeCoversAcked
<1>3. IsFiniteSet(acked) /\ Cardinality(acked) \in Nat
  BY <1>1, PositionsCount
<1>4. IsFiniteSet(mine) /\ Cardinality(mine) = group
  <2> DEFINE first == Len(file) - group + 1
             last  == Len(file)
  <2>1. first \in Int /\ last \in Int /\ first - 1 = last - group
    BY <1>1
  <2> HIDE DEF first, last
  <2>2. IsFiniteSet(first..last) /\ Cardinality(first..last) = IF first > last THEN 0 ELSE last - first + 1
    BY <2>1, FS_Interval
  <2>3. Cardinality(first..last) = group
    BY <1>1, <2>1, <2>2
  <2> QED BY <2>2, <2>3 DEF first, last
<1> HIDE DEF mine
<1>5. /\ Cardinality(acked \union mine)
             = Cardinality(acked) + Cardinality(mine) - Cardinality(acked \intersect mine)
      /\ Cardinality(acked \intersect mine) \in Nat
  <2>1. IsFiniteSet(acked \intersect mine)
    BY <1>3, FS_Subset
  <2> QED BY <1>3, <1>4, <2>1, FS_Union, FS_CardinalityType
<1> QED BY <1>1, <1>2, <1>3, <1>4, <1>5

\* Every other step: the size falls only where nothing is acknowledged or the
\* log is closed, and a log that is opened has at least as many frames as it
\* acknowledged.
LEMMA NextCovers == IInv /\ SizeCoversAcked /\ [Next]_vars => SizeCoversAcked'
<1> SUFFICES ASSUME IInv, SizeCoversAcked, [Next]_vars PROVE SizeCoversAcked'
  OBVIOUS
<1>1. CASE SyncOk
  BY <1>1, SyncOkCovers
<1>2. CASE StartTruncate
  <2>1. acked' = {} /\ bytes' \in Nat
    BY <1>2 DEF StartTruncate, IInv, TypeOK
  <2> QED BY <2>1, FS_EmptySet DEF SizeCoversAcked
<1>3. CASE TruncateSyncOk
  <2>1. acked' = {} /\ bytes' = 0
    BY <1>3 DEF TruncateSyncOk, IInv, CutIsEmpty
  <2> QED BY <2>1, FS_EmptySet DEF SizeCoversAcked
<1>4. CASE Open
  <2>1. acked' = acked /\ bytes' = Len(file)
    BY <1>4 DEF Open
  <2>2. Len(file) \in Nat /\ acked \subseteq 1..Len(file)
    BY DEF IInv, TypeOK
  <2> QED BY <2>1, <2>2, PositionsCount DEF SizeCoversAcked
<1>5. CASE (\E cut \in BOOLEAN : Crash(cut)) \/ PowerLoss
  BY <1>5 DEF Crash, PowerLoss, Down, SizeCoversAcked
<1>6. CASE \/ \E n \in 1..MaxBatch : \E recs \in [1..n -> Record] : StartAppend(recs)
           \/ WriteFrame \/ (\E cut \in BOOLEAN : WriteError(cut))
           \/ SyncError \/ TruncateSyncError \/ UNCHANGED vars
  BY <1>6 DEF StartAppend, WriteFrame, WriteError, SyncError, TruncateSyncError,
              vars, SizeCoversAcked
<1> QED BY <1>1, <1>2, <1>3, <1>4, <1>5, <1>6 DEF Next, Step, Fault

\* The size that asks for a checkpoint counts every acknowledged frame of an
\* open log.
THEOREM SizeCoversTheAcked == Spec => []SizeCoversAcked
<1>1. Init => SizeCoversAcked
  BY FS_EmptySet DEF Init, SizeCoversAcked
<1> QED BY <1>1, NextCovers, Invariance, PTL DEF Spec
=============================================================================
