----------------------- MODULE RecordingStore_proofs -----------------------
(***************************************************************************)
(* Proofs about RecordingStore, for every choice of its constants.         *)
(*                                                                         *)
(* Three layers, each an induction over the steps of Next:                 *)
(*  - Shape: every variable has its type (TypeOK), and a handler has the   *)
(*    arguments its next step needs;                                       *)
(*  - StoreInv: the rows and the chunk files agree, from which follow the  *)
(*    safety properties of the database and of the files;                  *)
(*  - two facts about single steps from StoreInv: sealed tracks do not     *)
(*    change, and each step is a step of RecordingRun or invisible in it.  *)
(***************************************************************************)
EXTENDS RecordingStore, FiniteSetTheorems, TLAPS

\* A handler that stores a chunk knows the chunk and its track until it answers; one
\* that writes a track.json knows the track.
HandlerShape ==
  /\ op.index # None => op.track # None /\ op.content # None
  /\ op.step \in {"insert", "complete"} => op.index # None
  /\ op.step = "trackManifest" => op.track # None

Shape == TypeOK /\ HandlerShape

\* A track has at most one row per index: the number of rows is a count.
LEMMA CountInCounts ==
  ASSUME TypeOK, NEW t \in TrackIds
  PROVE  IsFiniteSet(Stored(t)) /\ Cardinality(Stored(t)) \in Counts
<1>1. MaxIndex \in Int /\ 0 \in Int BY MaxIndexIsNat
<1>2. IsFiniteSet(0 .. MaxIndex) /\ Cardinality(0 .. MaxIndex) = MaxIndex + 1
  BY <1>1, FS_Interval, MaxIndexIsNat
<1>3. Stored(t) \in SUBSET (0 .. MaxIndex) BY DEF Stored, Indices
<1>4. IsFiniteSet(Stored(t)) /\ Cardinality(Stored(t)) <= MaxIndex + 1
  BY <1>2, <1>3, FS_Subset
<1>5. Cardinality(Stored(t)) \in Nat BY <1>4, FS_CardinalityType
<1> QED BY <1>4, <1>5, MaxIndexIsNat DEF Counts

\* A started track has a row, and the row names a directory (trackRelativeDir).
LEMMA DirOfTrack ==
  ASSUME TypeOK, NEW t \in Started
  PROVE  tracks[t] \in TrackRow /\ TrackDir(tracks[t]) \in Dirs
<1>1. tracks[t] \in TrackRow BY DEF TypeOK, Started
<1> QED BY <1>1 DEF TrackRow, TrackDir, Dirs

\* artifactStatusForTrackState returns one of its three statuses.
LEMMA StatusTyped ==
  ASSUME NEW row, NEW n PROVE ArtifactStatus(row, n) \in Statuses
BY DEF ArtifactStatus, Statuses

\* What writeTrackManifest writes is a track.json.
LEMMA TrackManifestTyped ==
  ASSUME TypeOK, NEW t \in TrackIds
  PROVE  TrackManifest(t) \in TrackJson
<1>1. chunks[t] \in Bytes BY DEF TypeOK
<1>2. Missing(tracks[t], t) \in SUBSET Indices BY DEF Missing
<1>3. ArtifactStatus(tracks[t], Cardinality(Stored(t))) \in Statuses BY StatusTyped
<1> QED BY <1>1, <1>2, <1>3 DEF TrackManifest, TrackJson

\* What writeSessionManifest writes is a session.json, or nothing before the session
\* has begun.
LEMMA SessionManifestTyped ==
  ASSUME TypeOK
  PROVE  /\ SessionManifest \in SessionJson \cup {None}
         /\ snapshot.epoch # None \/ Started # {} => SessionManifest \in SessionJson
<1>1. snapshot.phase \in Phases BY DEF TypeOK
<1> DEFINE S(t) == [status |-> ArtifactStatus(tracks[t], Cardinality(Stored(t))),
                    count |-> Cardinality(Stored(t))]
<1>2. \A t \in TrackIds : S(t) \in Summary
  BY CountInCounts, StatusTyped DEF Summary
<1> HIDE DEF S
<1>3. [t \in TrackIds |-> IF tracks[t] = None THEN None ELSE S(t)]
        \in [TrackIds -> Summary \cup {None}]
  BY <1>2
<1> USE DEF S
<1> QED BY <1>1, <1>3 DEF SessionManifest, SessionJson

\* The bootstrapped database of a first start has the shape.
LEMMA ShapeInit == Init => Shape
<1> SUFFICES ASSUME Init PROVE Shape OBVIOUS
<1>1. tracks \in [TrackIds -> TrackRow \cup {None}] BY DEF Init
<1>2. chunks \in [TrackIds -> Bytes] BY DEF Init, Bytes
<1>3. files \in [Dirs -> Bytes] BY DEF Init, Bytes
<1>4. trackJson \in [Dirs -> TrackJson \cup {None}] BY DEF Init
<1>5. snapshot \in [phase : Phases, epoch : Epochs \cup {None}] BY DEF Init, Phases
<1>6. op \in HandlerStates BY DEF Init, Idle, HandlerStates
<1> QED BY <1>1, <1>2, <1>3, <1>4, <1>5, <1>6 DEF Init, Shape, TypeOK, HandlerShape, Idle

\* Every handler step, failure, crash and step of the rebuild keeps the shape.
LEMMA ShapeStep == Shape /\ [Next]_vars => Shape'
<1> SUFFICES ASSUME Shape, [Next]_vars PROVE Shape' OBVIOUS
<1> USE DEF Shape
<1>u. CASE UNCHANGED vars
  BY <1>u DEF vars, TypeOK, HandlerShape, Started, Idle
<1>1. ASSUME NEW seat \in Seats, NEW epoch \in Epochs, StartRecording(seat, epoch)
      PROVE  Shape'
  <2>1. snapshot' \in [phase : Phases, epoch : Epochs \cup {None}]
    BY <1>1 DEF StartRecording, Phases
  <2>2. op' \in HandlerStates BY <1>1 DEF StartRecording, Handler, HandlerStates
  <2> QED BY <1>1, <2>1, <2>2
       DEF StartRecording, TypeOK, HandlerShape, Handler, MutexFree, Started, artifacts
<1>2. ASSUME NEW seat \in Seats, StopRecording(seat) PROVE Shape'
  <2>1. snapshot' \in [phase : Phases, epoch : Epochs \cup {None}]
    BY <1>2 DEF StopRecording, Phases, TypeOK
  <2>2. /\ op' \in HandlerStates
        /\ op'.track = None /\ op'.index = None
        /\ op'.step \in {"advance", "sessionManifest"}
    BY <1>2 DEF StopRecording, Handler, HandlerStates
  <2> QED BY <1>2, <2>1, <2>2
       DEF StopRecording, TypeOK, HandlerShape, MutexFree, Started, artifacts
<1>3. ASSUME NEW seat \in Seats, NEW t \in TrackIds, NEW epoch \in Epochs,
             NEW source \in Sources, NEW slot \in Slots,
             StartTrack(seat, t, epoch, source, slot)
      PROVE  Shape'
  <2>1. tracks' \in [TrackIds -> TrackRow \cup {None}] /\ t \in Started' /\ Started \subseteq Started'
    <3>1. [seat |-> seat, source |-> source, slot |-> slot,
           state |-> "recording", expected |-> None] \in TrackRow
      BY DEF TrackRow, TrackStates
    <3> QED BY <1>3, <3>1, NoneIsNoValue DEF StartTrack, TypeOK, Started
  <2>2. op' \in HandlerStates BY <1>3 DEF StartTrack, Handler, HandlerStates
  <2> QED BY <1>3, <2>1, <2>2, NoneIsNoValue DEF StartTrack, TypeOK, HandlerShape, Handler, MutexFree, artifacts
<1>4. ASSUME NEW seat \in Seats, NEW t \in TrackIds, NEW i \in Indices, NEW content \in Contents,
             UploadChunk(seat, t, i, content)
      PROVE  Shape'
  <2>1. t \in Started BY <1>4 DEF UploadChunk, Owns, Started
  <2>2. files' \in [Dirs -> Bytes] BY <1>4, <2>1, DirOfTrack DEF UploadChunk, TypeOK, Bytes
  <2>3. op' \in HandlerStates BY <1>4 DEF UploadChunk, HandlerStates
  <2>4. Started' = Started BY <1>4 DEF UploadChunk, Started, database
  <2>5. HandlerShape' BY <1>4, NoneIsNoValue, MaxIndexIsNat DEF UploadChunk, HandlerShape, Indices
  <2>6. op'.track \in Started' /\ server' = "up" BY <1>4, <2>1, <2>4 DEF UploadChunk, MutexFree
  <2> QED BY <1>4, <2>2, <2>3, <2>4, <2>5, <2>6 DEF UploadChunk, TypeOK, database
<1>5. ASSUME NEW seat \in Seats, NEW t \in TrackIds, NEW i \in Indices, NEW content \in Contents,
             UploadDuplicate(seat, t, i, content)
      PROVE  Shape'
  BY <1>5 DEF UploadDuplicate, TypeOK, HandlerShape, Started, database, artifacts
<1>6. ASSUME NEW seat \in Seats, NEW t \in TrackIds, NEW n \in Counts, FinishTrack(seat, t, n)
      PROVE  Shape'
  <2>1. t \in Started BY <1>6 DEF FinishTrack, Owns, Started
  <2>2. tracks' \in [TrackIds -> TrackRow \cup {None}] /\ Started' = Started
    <3> DEFINE row == [tracks[t] EXCEPT !.expected = n]
               sealed == [row EXCEPT !.state = CurrentTrackState(row, Cardinality(Stored(t)))]
    <3>1. tracks[t] \in TrackRow BY <2>1, DirOfTrack
    <3>2. row \in TrackRow BY <3>1 DEF TrackRow
    <3>3. CurrentTrackState(row, Cardinality(Stored(t))) \in TrackStates
      BY <3>2 DEF CurrentTrackState, TrackStates, TrackRow
    <3>4. sealed \in TrackRow BY <3>2, <3>3 DEF TrackRow
    <3>5. tracks' = [tracks EXCEPT ![t] = sealed] BY <1>6 DEF FinishTrack
    <3> QED BY <3>4, <3>5, <2>1, NoneIsNoValue DEF TypeOK, Started
  <2>3. op' \in HandlerStates BY <1>6 DEF FinishTrack, Handler, HandlerStates
  <2> QED BY <1>6, <2>1, <2>2, <2>3 DEF FinishTrack, TypeOK, HandlerShape, Handler, MutexFree, artifacts
<1>7. CASE InsertChunk
  <2>1. op.track \in TrackIds /\ op.index \in Indices /\ op.content \in Contents
    BY <1>7 DEF InsertChunk, Continue, TypeOK, HandlerShape, HandlerStates
  <2>2. chunks' \in [TrackIds -> Bytes] BY <1>7, <2>1 DEF InsertChunk, TypeOK, Bytes
  <2>3. op' \in HandlerStates BY <1>7 DEF InsertChunk, Continue, TypeOK, HandlerStates
  <2> QED BY <1>7, <2>1, <2>2, <2>3
       DEF InsertChunk, Continue, TypeOK, HandlerShape, HandlerStates, Idle, Started, artifacts
<1>8. CASE InsertChunkFails
  <2>1. op.track \in Started /\ op.index \in Indices
    BY <1>8 DEF InsertChunkFails, TypeOK, HandlerShape, HandlerStates
  <2>2. files' \in [Dirs -> Bytes] BY <1>8, <2>1, DirOfTrack DEF InsertChunkFails, TypeOK, Bytes
  <2> QED BY <1>8, <2>2 DEF InsertChunkFails, TypeOK, HandlerShape, HandlerStates, Idle, Started, database
<1>9. CASE MaybeCompleteTrack
  <2>1. op.track \in Started /\ op.track \in TrackIds
    BY <1>9 DEF MaybeCompleteTrack, Continue, TypeOK, HandlerShape, Started
  <2>2. tracks' \in [TrackIds -> TrackRow \cup {None}] /\ Started' = Started
    <3> DEFINE state == CurrentTrackState(tracks[op.track], Cardinality(Stored(op.track)))
    <3>1. tracks[op.track] \in TrackRow BY <2>1, DirOfTrack
    <3>2. state \in TrackStates BY <3>1 DEF CurrentTrackState, TrackStates, TrackRow
    <3>3. [tracks[op.track] EXCEPT !.state = state] \in TrackRow BY <3>1, <3>2 DEF TrackRow
    <3>4. tracks' = [tracks EXCEPT ![op.track] = [tracks[op.track] EXCEPT !.state = state]]
      BY <1>9 DEF MaybeCompleteTrack
    <3> QED BY <3>3, <3>4, <2>1, NoneIsNoValue DEF TypeOK, Started
  <2>3. op' \in HandlerStates BY <1>9 DEF MaybeCompleteTrack, Continue, TypeOK, HandlerStates
  <2> QED BY <1>9, <2>1, <2>2, <2>3
       DEF MaybeCompleteTrack, Continue, TypeOK, HandlerShape, HandlerStates, Idle, artifacts
<1>10. CASE MaybeAdvanceSessionToStopped
  <2>1. snapshot' \in [phase : Phases, epoch : Epochs \cup {None}]
    BY <1>10 DEF MaybeAdvanceSessionToStopped, Phases, TypeOK
  <2>2. op' \in HandlerStates
    BY <1>10 DEF MaybeAdvanceSessionToStopped, Continue, TypeOK, HandlerStates
  <2> QED BY <1>10, <2>1, <2>2
       DEF MaybeAdvanceSessionToStopped, Continue, TypeOK, HandlerShape, HandlerStates, Idle,
           Started, artifacts
<1>11. CASE WriteTrackManifest
  <2>1. op.track \in Started /\ op.track \in TrackIds
    BY <1>11 DEF WriteTrackManifest, Continue, TypeOK, HandlerShape, Started
  <2>2. trackJson' \in [Dirs -> TrackJson \cup {None}]
    BY <1>11, <2>1, TrackManifestTyped DEF WriteTrackManifest, TypeOK
  <2>3. op' \in HandlerStates BY <1>11 DEF WriteTrackManifest, Continue, TypeOK, HandlerStates
  <2> QED BY <1>11, <2>2, <2>3
       DEF WriteTrackManifest, Continue, TypeOK, HandlerShape, HandlerStates, Idle, Started, database
<1>12. CASE WriteSessionManifest
  <2>1. sessionJson' \in SessionJson \cup {None}
    BY <1>12, SessionManifestTyped DEF WriteSessionManifest
  <2>2. op' \in HandlerStates BY <1>12 DEF WriteSessionManifest, Continue, TypeOK, HandlerStates
  <2> QED BY <1>12, <2>1, <2>2
       DEF WriteSessionManifest, Continue, TypeOK, HandlerShape, HandlerStates, Idle, Started, database
<1>13. CASE Reply
  <2>1. acked' \subseteq TrackIds \X Indices \X Contents
    BY <1>13 DEF Reply, TypeOK, HandlerShape, HandlerStates
  <2> QED BY <1>13, <2>1
       DEF Reply, TypeOK, HandlerShape, HandlerStates, Idle, Started, database, artifacts
<1>13a. Unwritten \subseteq Started \cup {None}
  BY DEF Unwritten, TypeOK, HandlerShape
<1>14. CASE Fail
  <2>1. owed' \subseteq Started \cup {None} BY <1>13a, <1>14 DEF Fail, TypeOK
  <2> QED BY <1>14, <2>1
       DEF Fail, TypeOK, HandlerShape, HandlerStates, Idle, Started, database, artifacts
<1>15. CASE Crash
  <2>1. owed' \subseteq Started \cup {None} BY <1>13a, <1>15 DEF Crash, TypeOK
  <2> QED BY <1>15, <2>1
       DEF Crash, TypeOK, HandlerShape, HandlerStates, Idle, Started, database, artifacts
<1>16. CASE OpenStore
  BY <1>16 DEF OpenStore, TypeOK, HandlerShape, Idle, Started, database, artifacts
<1>17. CASE RebuildSession
  <2>1. sessionJson' \in SessionJson \cup {None}
    BY <1>17, SessionManifestTyped DEF RebuildSession
  <2> QED BY <1>17, <2>1 DEF RebuildSession, TypeOK, HandlerShape, Started, database
<1>18. CASE FinishRebuild
  BY <1>18 DEF FinishRebuild, TypeOK, HandlerShape, Started, database, artifacts
<1>19. ASSUME NEW t \in TrackIds, RebuildTrack(t) PROVE Shape'
  <2>1. trackJson' \in [Dirs -> TrackJson \cup {None}]
    BY <1>19, TrackManifestTyped DEF RebuildTrack, TypeOK
  <2> QED BY <1>19, <2>1 DEF RebuildTrack, TypeOK, HandlerShape, Started, database
<1>20. ASSUME NEW d \in Dirs, NEW i \in Indices, PruneStaleFile(d, i) PROVE Shape'
  <2>1. files' \in [Dirs -> Bytes] BY <1>20 DEF PruneStaleFile, TypeOK, Bytes
  <2> QED BY <1>20, <2>1 DEF PruneStaleFile, TypeOK, HandlerShape, Started, database
<1> QED
  BY <1>u, <1>1, <1>2, <1>3, <1>4, <1>5, <1>6, <1>7, <1>8, <1>9, <1>10, <1>11, <1>12, <1>13,
     <1>14, <1>15, <1>16, <1>17, <1>18, <1>19, <1>20
  DEF Next, HostRequest, TrackRequest, HandlerStep, Rebuild

\* Every variable keeps its type (TypeOK) in every behaviour, for every set of
\* seats, tracks, sources, segments and contents and every bound on the indices.
THEOREM Typing == Spec => []TypeOK
<1>1. Spec => []Shape BY ShapeInit, ShapeStep, PTL DEF Spec
<1>2. Shape => TypeOK BY DEF Shape
<1> QED BY <1>1, <1>2, PTL

-----------------------------------------------------------------------------
(***************************************************************************)
(* The database and the chunk files.  The properties of the runs are not   *)
(* inductive by themselves: what they rest on is that no two tracks share  *)
(* a directory, and what the handler between two commits has already done. *)
(***************************************************************************)

\* idx_recording_tracks_session_seat_source_instance_segment_unique.
SegmentsDiffer ==
  \A t, u \in Started :
    tracks[t].seat = tracks[u].seat /\ tracks[t].slot = tracks[u].slot => t = u

RowsOfStarted == \A t \in TrackIds \ Started : Stored(t) = {}

IndicesInRange ==
  \A t \in Started : tracks[t].expected # None =>
    \A i \in Stored(t) : i < tracks[t].expected

\* An upload works on an open track while the session accepts work; before its
\* insert the file is there without a row, after it the row is there.
UploadInv ==
  /\ op.step \in {"insert", "complete"} => AcceptsWork /\ Open(op.track)
  /\ op.step = "insert" =>
       /\ chunks[op.track][op.index] = None
       /\ files[TrackDir(tracks[op.track])][op.index] = op.content
       /\ InRange(tracks[op.track], op.index)
  /\ op.index # None /\ op.step # "insert" => chunks[op.track][op.index] = op.content

AckedRows == \A ack \in acked : ack[1] \in Started /\ chunks[ack[1]][ack[2]] = ack[3]

StoreInv ==
  /\ Shape
  /\ SegmentsDiffer
  /\ RowsOfStarted
  /\ IndicesInRange
  /\ UploadInv
  /\ AckedRows
  /\ RowsHaveFiles
  /\ CompleteIsGapFree
  /\ StoppedIsComplete

\* Two started tracks never write below the same directory.
LEMMA DirsDiffer ==
  ASSUME TypeOK, SegmentsDiffer, NEW t \in Started, NEW u \in Started,
         TrackDir(tracks[t]) = TrackDir(tracks[u])
  PROVE  t = u
BY DEF SegmentsDiffer, TrackDir

\* What makes counting rows enough (currentTrackState): among the indices below
\* n, as many rows as n are all of them.
LEMMA CountingIsEnough ==
  ASSUME TypeOK, NEW t \in TrackIds, NEW n \in Counts, \A i \in Stored(t) : i < n
  PROVE  Cardinality(Stored(t)) = n <=> Stored(t) = {i \in Indices : i < n}
<1>1. n \in Nat /\ n <= MaxIndex + 1 BY MaxIndexIsNat DEF Counts
<1>2. {i \in Indices : i < n} = 0 .. (n - 1) BY <1>1, MaxIndexIsNat DEF Indices
<1>3. n - 1 \in Int /\ 0 \in Int BY <1>1
<1>4. IsFiniteSet(0 .. (n - 1)) /\ Cardinality(0 .. (n - 1)) = n
  <2> DEFINE last == n - 1
  <2>1. last \in Int /\ 0 \in Int BY <1>3
  <2> HIDE DEF last
  <2>2. /\ IsFiniteSet(0 .. last)
        /\ Cardinality(0 .. last) = IF 0 > last THEN 0 ELSE last - 0 + 1
    BY <2>1, FS_Interval
  <2> QED BY <2>2, <1>1 DEF last
<1>5. Stored(t) \in SUBSET (0 .. (n - 1)) BY <1>2 DEF Stored
<1>6. Cardinality(0 .. (n - 1)) = Cardinality(Stored(t)) => 0 .. (n - 1) = Stored(t)
  BY <1>4, <1>5, FS_Subset
<1> QED BY <1>2, <1>4, <1>6

\* Steps that leave the rows alone, or the rows and the files.
LEMMA SameRows ==
  ASSUME StoreInv, Shape', UNCHANGED <<tracks, chunks>>,
         RowsHaveFiles', UploadInv', AckedRows', StoppedIsComplete'
  PROVE  StoreInv'
<1>1. Started' = Started BY DEF Started
<1>2. \A t \in TrackIds : Stored(t)' = Stored(t) BY DEF Stored
<1>3. SegmentsDiffer' BY <1>1 DEF StoreInv, SegmentsDiffer
<1>4. RowsOfStarted' BY <1>1, <1>2 DEF StoreInv, RowsOfStarted
<1>5. IndicesInRange' BY <1>1, <1>2 DEF StoreInv, IndicesInRange, Started
<1>6. CompleteIsGapFree' BY <1>1, <1>2 DEF StoreInv, CompleteIsGapFree, Started
<1> QED BY <1>3, <1>4, <1>5, <1>6 DEF StoreInv

\* Steps that leave the rows and the files alone keep them in agreement.
LEMMA SameStore ==
  ASSUME StoreInv, Shape', UNCHANGED <<tracks, chunks, files>>,
         UploadInv', AckedRows', StoppedIsComplete'
  PROVE  StoreInv'
<1>1. RowsHaveFiles' BY DEF StoreInv, RowsHaveFiles, Started, Stored, TrackDir
<1> QED BY <1>1, SameRows

\* Steps that hand store.mu back, or take it for a handler that uploads nothing.
LEMMA NoUpload ==
  ASSUME StoreInv, Shape', UNCHANGED <<tracks, chunks, files>>, acked' = acked,
         op'.index = None, op'.step \notin {"insert", "complete"}, StoppedIsComplete'
  PROVE  StoreInv'
<1>1. UploadInv' BY DEF UploadInv
<1>2. AckedRows' BY DEF StoreInv, AckedRows, Started
<1> QED BY <1>1, <1>2, SameStore

\* Steps of the process that touch neither the database nor the chunk files.
LEMMA NoStore ==
  ASSUME StoreInv, Shape', UNCHANGED <<database, files, acked>>, op' \in {op, Idle}
  PROVE  StoreInv'
<1>1. UploadInv'
  <2>1. CASE op' = op
    BY <2>1 DEF StoreInv, UploadInv, AcceptsWork, Open, InRange, TrackDir, database
  <2>2. CASE op' = Idle BY <2>2 DEF UploadInv, Idle
  <2> QED BY <2>1, <2>2
<1>2. AckedRows' BY DEF StoreInv, AckedRows, Started, database
<1>3. StoppedIsComplete' BY DEF StoreInv, StoppedIsComplete, Started, database
<1> QED BY <1>1, <1>2, <1>3, SameStore DEF database

\* A handler goes on to a step that follows its insert and its completion check.
LEMMA HandlerGoesOn ==
  ASSUME StoreInv, Shape', UNCHANGED <<database, files, acked>>,
         NEW to \in {"trackManifest", "sessionManifest", "reply"},
         op.step \in {"advance", "trackManifest", "sessionManifest"},
         op' = [op EXCEPT !.step = to]
  PROVE  StoreInv'
<1>1. /\ op'.step = to /\ op'.track = op.track
      /\ op'.index = op.index /\ op'.content = op.content
  BY DEF StoreInv, Shape, TypeOK, HandlerStates
<1>2. UploadInv' BY <1>1 DEF StoreInv, UploadInv, database
<1>3. AckedRows' BY DEF StoreInv, AckedRows, Started, database
<1>4. StoppedIsComplete' BY DEF StoreInv, StoppedIsComplete, Started, database
<1> QED BY <1>2, <1>3, <1>4, SameStore DEF database

\* The two steps that rewrite a row (finishTrack, maybeCompleteTrack) keep its key,
\* and call it complete only when nothing is missing.
LEMMA RowRewritten ==
  ASSUME StoreInv, Shape', NEW t \in Started, NEW row \in TrackRow,
         tracks' = [tracks EXCEPT ![t] = row],
         row.seat = tracks[t].seat, row.source = tracks[t].source, row.slot = tracks[t].slot,
         UNCHANGED <<snapshot, chunks, files, acked>>,
         row.expected # None => \A i \in Stored(t) : i < row.expected,
         row.state = "complete" =>
           row.expected # None /\ Stored(t) = {i \in Indices : i < row.expected},
         AcceptsWork, UploadInv'
  PROVE  StoreInv'
<1>1. /\ tracks'[t] = row
      /\ \A u \in TrackIds \ {t} : tracks'[u] = tracks[u]
      /\ Started' = Started
  BY NoneIsNoValue DEF StoreInv, Shape, TypeOK, Started
<1>2. \A u \in TrackIds : Stored(u)' = Stored(u) BY DEF Stored
<1>3. \A u \in Started : TrackDir(tracks[u])' = TrackDir(tracks[u])
  BY <1>1 DEF TrackDir, Started
<1>4. SegmentsDiffer' BY <1>1 DEF StoreInv, SegmentsDiffer, Started
<1>5. RowsOfStarted' BY <1>1, <1>2 DEF StoreInv, RowsOfStarted
<1>6. IndicesInRange' BY <1>1, <1>2 DEF StoreInv, IndicesInRange, Started
<1>7. RowsHaveFiles' BY <1>1, <1>2, <1>3 DEF StoreInv, RowsHaveFiles, Started
<1>8. CompleteIsGapFree' BY <1>1, <1>2 DEF StoreInv, CompleteIsGapFree, Started
<1>9. StoppedIsComplete' BY DEF AcceptsWork, StoppedIsComplete
<1>10. AckedRows' BY <1>1 DEF StoreInv, AckedRows
<1> QED BY <1>4, <1>5, <1>6, <1>7, <1>8, <1>9, <1>10 DEF StoreInv

\* An empty store satisfies the invariant.
LEMMA StoreInvInit == Init => StoreInv
<1> SUFFICES ASSUME Init PROVE StoreInv OBVIOUS
<1>1. Started = {} BY DEF Init, Started
<1>2. \A t \in TrackIds : Stored(t) = {} BY DEF Init, Stored
<1>3. snapshot.phase = "waiting" /\ op = Idle /\ acked = {} BY DEF Init
<1> QED BY <1>1, <1>2, <1>3, ShapeInit
     DEF StoreInv, SegmentsDiffer, RowsOfStarted, IndicesInRange, UploadInv, AckedRows,
         RowsHaveFiles, CompleteIsGapFree, StoppedIsComplete, Idle

\* Every step keeps the invariant.  The steps that matter: UploadChunk writes a file
\* no row refers to, InsertChunk adds the row of the file just written, FinishTrack
\* and MaybeCompleteTrack count rows that are all in range, PruneStaleFile removes
\* a file without a row.
LEMMA StoreInvStep == StoreInv /\ [Next]_vars => StoreInv'
<1> SUFFICES ASSUME StoreInv, [Next]_vars PROVE StoreInv' OBVIOUS
<1>s. Shape' BY ShapeStep DEF StoreInv
<1>t. TypeOK /\ HandlerShape BY DEF StoreInv, Shape
<1>u. CASE UNCHANGED vars
  BY <1>u, <1>s, NoStore DEF vars, database
<1>1. ASSUME NEW seat \in Seats, NEW epoch \in Epochs, StartRecording(seat, epoch)
      PROVE  StoreInv'
  <2>1. op'.index = None /\ op'.step = "sessionManifest" /\ snapshot'.phase = "recording"
    BY <1>1 DEF StartRecording, Handler
  <2>2. StoppedIsComplete' BY <2>1 DEF StoppedIsComplete
  <2> QED BY <1>1, <2>1, <2>2, <1>s, NoUpload DEF StartRecording, artifacts
<1>2. ASSUME NEW seat \in Seats, StopRecording(seat) PROVE StoreInv'
  <2>1. op'.index = None /\ op'.step \in {"advance", "sessionManifest"}
    BY <1>2 DEF StopRecording, Handler
  <2>2. StoppedIsComplete'
    BY <1>2, <1>t DEF StopRecording, StoreInv, StoppedIsComplete, Started, TypeOK
  <2> QED BY <1>2, <2>1, <2>2, <1>s, NoUpload DEF StopRecording, artifacts
<1>3. ASSUME NEW seat \in Seats, NEW t \in TrackIds, NEW epoch \in Epochs,
             NEW source \in Sources, NEW slot \in Slots,
             StartTrack(seat, t, epoch, source, slot)
      PROVE  StoreInv'
  <2> DEFINE row == [seat |-> seat, source |-> source, slot |-> slot,
                     state |-> "recording", expected |-> None]
  <2>1. /\ tracks' = [tracks EXCEPT ![t] = row]
        /\ UNCHANGED <<snapshot, chunks, files, acked>>
        /\ t \notin Started
        /\ ~ SegmentTaken(seat, slot)
        /\ snapshot.phase = "recording"
        /\ op'.index = None /\ op'.step = "trackManifest"
    BY <1>3 DEF StartTrack, Started, artifacts, AcceptsTracks, Handler
  <2>2. row # None
    BY NoneIsNoValue DEF TrackRow, TrackStates
  <2>3. /\ tracks'[t] = row
        /\ \A u \in TrackIds \ {t} : tracks'[u] = tracks[u]
        /\ Started' = Started \cup {t}
    BY <2>1, <2>2, <1>t DEF TypeOK, Started
  <2>4. \A u \in TrackIds : Stored(u)' = Stored(u) BY <2>1 DEF Stored
  <2>5. Stored(t) = {} BY <2>1 DEF StoreInv, RowsOfStarted
  <2>6. SegmentsDiffer'
    BY <2>1, <2>3 DEF StoreInv, SegmentsDiffer, SegmentTaken, Started
  <2>7. RowsOfStarted' BY <2>3, <2>4 DEF StoreInv, RowsOfStarted
  <2>8. IndicesInRange' BY <2>3, <2>4 DEF StoreInv, IndicesInRange, Started
  <2>9. RowsHaveFiles'
    BY <2>1, <2>3, <2>4, <2>5 DEF StoreInv, RowsHaveFiles, Started, TrackDir
  <2>10. CompleteIsGapFree' BY <2>3, <2>4 DEF StoreInv, CompleteIsGapFree, Started
  <2>11. StoppedIsComplete' BY <2>1 DEF StoppedIsComplete
  <2>12. UploadInv' BY <2>1 DEF UploadInv
  <2>13. AckedRows' BY <2>1, <2>3 DEF StoreInv, AckedRows
  <2> QED BY <1>s, <2>6, <2>7, <2>8, <2>9, <2>10, <2>11, <2>12, <2>13 DEF StoreInv
<1>4. ASSUME NEW seat \in Seats, NEW t \in TrackIds, NEW i \in Indices, NEW content \in Contents,
             UploadChunk(seat, t, i, content)
      PROVE  StoreInv'
  <2> DEFINE dir == TrackDir(tracks[t])
  <2>1. /\ files' = [files EXCEPT ![dir][i] = content]
        /\ op' = [step |-> "insert", track |-> t, index |-> i, content |-> content]
        /\ UNCHANGED <<snapshot, tracks, chunks, acked>>
        /\ t \in Started /\ chunks[t][i] = None
        /\ AcceptsWork /\ Open(t) /\ InRange(tracks[t], i)
    BY <1>4 DEF UploadChunk, database, Owns, HasChunk, Started
  <2>2. /\ files'[dir][i] = content
        /\ \A d \in Dirs, j \in Indices : d # dir \/ j # i => files'[d][j] = files[d][j]
    BY <2>1, <1>t, DirOfTrack DEF TypeOK, Bytes
  <2>3. RowsHaveFiles'
    <3> SUFFICES ASSUME NEW u \in Started, NEW j \in Stored(u)
                 PROVE  files'[TrackDir(tracks[u])][j] = chunks[u][j]
      BY <2>1 DEF RowsHaveFiles, Started, Stored, TrackDir
    <3>1. files[TrackDir(tracks[u])][j] = chunks[u][j] /\ j \in Indices
      BY DEF StoreInv, RowsHaveFiles, Stored
    <3>2. TrackDir(tracks[u]) # dir \/ j # i
      BY <2>1, <1>t, DirsDiffer DEF StoreInv, Stored
    <3> QED BY <3>1, <3>2, <2>2, <1>t, DirOfTrack
  <2>4. UploadInv' BY <2>1, <2>2 DEF UploadInv, AcceptsWork, Open, InRange, TrackDir
  <2>5. AckedRows' BY <2>1 DEF StoreInv, AckedRows, Started
  <2>6. StoppedIsComplete' BY <2>1 DEF StoreInv, StoppedIsComplete, Started
  <2> QED BY <1>s, <2>1, <2>3, <2>4, <2>5, <2>6, SameRows
<1>5. ASSUME NEW seat \in Seats, NEW t \in TrackIds, NEW i \in Indices, NEW content \in Contents,
             UploadDuplicate(seat, t, i, content)
      PROVE  StoreInv'
  <2>1. /\ UNCHANGED <<snapshot, tracks, chunks, files, op>>
        /\ acked' = acked \cup {<<t, i, content>>}
        /\ t \in Started /\ chunks[t][i] = content
    BY <1>5 DEF UploadDuplicate, Owns, Started, database, artifacts
  <2>2. UploadInv' BY <2>1 DEF StoreInv, UploadInv, AcceptsWork, Open, InRange, TrackDir
  <2>3. AckedRows' BY <2>1 DEF StoreInv, AckedRows, Started
  <2>4. StoppedIsComplete' BY <2>1 DEF StoreInv, StoppedIsComplete, Started
  <2> QED BY <1>s, <2>1, <2>2, <2>3, <2>4, SameStore
<1>6. ASSUME NEW seat \in Seats, NEW t \in TrackIds, NEW n \in Counts, FinishTrack(seat, t, n)
      PROVE  StoreInv'
  <2> DEFINE row == [tracks[t] EXCEPT !.expected = n]
             count == Cardinality(Stored(t))
             state == CurrentTrackState(row, count)
             sealed == [row EXCEPT !.state = state]
  <2>1. /\ t \in Started /\ \A i \in Stored(t) : i < n
        /\ tracks' = [tracks EXCEPT ![t] = sealed]
        /\ UNCHANGED <<snapshot, chunks, files, acked>>
        /\ AcceptsWork
        /\ op'.index = None /\ op'.step = "advance"
    BY <1>6 DEF FinishTrack, Owns, Started, artifacts, Handler
  <2>2. tracks[t] \in TrackRow BY <2>1, <1>t, DirOfTrack
  <2>3. row \in TrackRow /\ row.expected = n /\ n # None
    BY <2>2, NoneIsNoValue, MaxIndexIsNat DEF TrackRow, Counts
  <2>4. state \in TrackStates /\ (state = "complete" => count = n)
    BY <2>3 DEF CurrentTrackState, TrackStates
  <2>5. /\ sealed \in TrackRow /\ sealed.expected = n /\ sealed.state = state
        /\ sealed.seat = tracks[t].seat /\ sealed.source = tracks[t].source
        /\ sealed.slot = tracks[t].slot
    BY <2>2, <2>3, <2>4 DEF TrackRow
  <2>6. state = "complete" => Stored(t) = {i \in Indices : i < n}
    BY <2>1, <2>4, <1>t, CountingIsEnough
  <2>7. UploadInv' BY <2>1 DEF UploadInv
  <2> HIDE DEF sealed
  <2> QED BY <1>s, <2>1, <2>3, <2>5, <2>6, <2>7, RowRewritten
<1>7. CASE InsertChunk
  <2> DEFINE t == op.track
             i == op.index
  <2>1. /\ t \in Started /\ i \in Indices /\ op.content \in Contents
        /\ op.step = "insert" /\ op' = [op EXCEPT !.step = "complete"]
        /\ chunks' = [chunks EXCEPT ![t][i] = op.content]
        /\ UNCHANGED <<snapshot, tracks, files, acked>>
    BY <1>7, <1>t DEF InsertChunk, Continue, artifacts, TypeOK, HandlerShape, HandlerStates
  <2>2. /\ op'.step = "complete" /\ op'.track = t /\ op'.index = i /\ op'.content = op.content
    BY <2>1, <1>t DEF TypeOK, HandlerStates
  <2>3. /\ AcceptsWork /\ Open(t) /\ chunks[t][i] = None
        /\ files[TrackDir(tracks[t])][i] = op.content
        /\ InRange(tracks[t], i)
    BY <2>1 DEF StoreInv, UploadInv
  <2>4. /\ chunks'[t][i] = op.content /\ op.content # None
        /\ \A u \in TrackIds, j \in Indices : u # t \/ j # i => chunks'[u][j] = chunks[u][j]
    BY <2>1, <1>t, NoneIsNoValue DEF TypeOK, Bytes, Started
  <2>5. Started' = Started BY <2>1 DEF Started
  <2>6. /\ Stored(t)' = Stored(t) \cup {i}
        /\ \A u \in TrackIds \ {t} : Stored(u)' = Stored(u)
    BY <2>1, <2>4 DEF Stored, Started
  <2>7. SegmentsDiffer' BY <2>1, <2>5 DEF StoreInv, SegmentsDiffer
  <2>8. RowsOfStarted' BY <2>1, <2>5, <2>6 DEF StoreInv, RowsOfStarted
  <2>9. IndicesInRange'
    BY <2>1, <2>3, <2>5, <2>6 DEF StoreInv, IndicesInRange, InRange, Started
  <2>10. UploadInv' BY <2>1, <2>2, <2>3, <2>4 DEF UploadInv, AcceptsWork, Open
  <2>11. AckedRows'
    <3> SUFFICES ASSUME NEW ack \in acked
                 PROVE  ack[1] \in Started /\ chunks'[ack[1]][ack[2]] = ack[3]
      BY <2>1, <2>5 DEF AckedRows
    <3>1. ack[1] \in TrackIds /\ ack[2] \in Indices /\ ack[3] # None
      BY <1>t, NoneIsNoValue DEF TypeOK
    <3>2. ack[1] \in Started /\ chunks[ack[1]][ack[2]] = ack[3] BY DEF StoreInv, AckedRows
    <3> QED BY <3>1, <3>2, <2>3, <2>4
  <2>12. RowsHaveFiles'
    BY <2>1, <2>3, <2>4, <2>5, <2>6 DEF StoreInv, RowsHaveFiles, TrackDir, Started, Stored
  <2>13. CompleteIsGapFree'
    BY <2>1, <2>3, <2>5, <2>6 DEF StoreInv, CompleteIsGapFree, Open, Started
  <2>14. StoppedIsComplete' BY <2>1, <2>3 DEF AcceptsWork, StoppedIsComplete
  <2> QED BY <1>s, <2>7, <2>8, <2>9, <2>10, <2>11, <2>12, <2>13, <2>14 DEF StoreInv
<1>8. CASE InsertChunkFails
  <2> DEFINE t == op.track
             i == op.index
             dir == TrackDir(tracks[t])
  <2>1. /\ t \in Started /\ i \in Indices /\ op.step = "insert"
        /\ files' = [files EXCEPT ![dir][i] = None]
        /\ op' = Idle
        /\ UNCHANGED <<snapshot, tracks, chunks, acked>>
    BY <1>8, <1>t DEF InsertChunkFails, database, TypeOK, HandlerShape, HandlerStates
  <2>2. chunks[t][i] = None BY <2>1 DEF StoreInv, UploadInv
  <2>3. \A d \in Dirs, j \in Indices : d # dir \/ j # i => files'[d][j] = files[d][j]
    BY <2>1, <1>t DEF TypeOK, Bytes
  <2>4. RowsHaveFiles'
    <3> SUFFICES ASSUME NEW u \in Started, NEW j \in Stored(u)
                 PROVE  files'[TrackDir(tracks[u])][j] = chunks[u][j]
      BY <2>1 DEF RowsHaveFiles, Started, Stored, TrackDir
    <3>1. files[TrackDir(tracks[u])][j] = chunks[u][j] /\ j \in Indices
      BY DEF StoreInv, RowsHaveFiles, Stored
    <3>2. TrackDir(tracks[u]) # dir \/ j # i
      BY <2>1, <2>2, <1>t, DirsDiffer DEF StoreInv, Stored
    <3> QED BY <3>1, <3>2, <2>3, <1>t, DirOfTrack
  <2>5. UploadInv' BY <2>1 DEF UploadInv, Idle
  <2>6. AckedRows' BY <2>1 DEF StoreInv, AckedRows, Started
  <2>7. StoppedIsComplete' BY <2>1 DEF StoreInv, StoppedIsComplete, Started
  <2> QED BY <1>s, <2>1, <2>4, <2>5, <2>6, <2>7, SameRows
<1>9. CASE MaybeCompleteTrack
  <2> DEFINE t == op.track
             count == Cardinality(Stored(t))
             state == CurrentTrackState(tracks[t], count)
             row == [tracks[t] EXCEPT !.state = state]
  <2>1. /\ t \in Started /\ op.step = "complete" /\ op' = [op EXCEPT !.step = "advance"]
        /\ tracks' = [tracks EXCEPT ![t] = row]
        /\ UNCHANGED <<snapshot, chunks, files, acked>>
    BY <1>9, <1>t DEF MaybeCompleteTrack, Continue, artifacts, TypeOK, HandlerShape
  <2>2. /\ op'.step = "advance" /\ op'.track = t
        /\ op'.index = op.index /\ op'.content = op.content
    BY <2>1, <1>t DEF TypeOK, HandlerStates
  <2>3. AcceptsWork /\ Open(t) BY <2>1 DEF StoreInv, UploadInv
  <2>4. tracks[t] \in TrackRow BY <2>1, <1>t, DirOfTrack
  <2>5. /\ state \in TrackStates
        /\ state = "complete" => tracks[t].expected # None /\ count = tracks[t].expected
    BY <2>3, <2>4 DEF CurrentTrackState, TrackStates, Open, TrackRow
  <2>6. tracks[t].expected # None => tracks[t].expected \in Counts BY <2>4 DEF TrackRow
  <2>7. tracks[t].expected # None => \A i \in Stored(t) : i < tracks[t].expected
    BY <2>1 DEF StoreInv, IndicesInRange
  <2>8. state = "complete" => Stored(t) = {i \in Indices : i < tracks[t].expected}
    BY <2>1, <2>5, <2>6, <2>7, <1>t, CountingIsEnough DEF Started
  <2>9. /\ row \in TrackRow /\ row.expected = tracks[t].expected /\ row.state = state
        /\ row.seat = tracks[t].seat /\ row.source = tracks[t].source
        /\ row.slot = tracks[t].slot
    BY <2>4, <2>5 DEF TrackRow
  <2>10. UploadInv' BY <2>1, <2>2 DEF StoreInv, UploadInv
  <2> HIDE DEF row, state
  <2> QED BY <1>s, <2>1, <2>3, <2>5, <2>7, <2>8, <2>9, <2>10, RowRewritten
<1>10. CASE MaybeAdvanceSessionToStopped
  <2>1. /\ op.step = "advance" /\ UNCHANGED <<tracks, chunks, files, acked>>
        /\ op' = [op EXCEPT !.step =
             IF op.track = None THEN "sessionManifest" ELSE "trackManifest"]
    BY <1>10 DEF MaybeAdvanceSessionToStopped, Continue, artifacts
  <2>2. /\ op'.step \in {"sessionManifest", "trackManifest"} /\ op'.track = op.track
        /\ op'.index = op.index /\ op'.content = op.content
    BY <2>1, <1>t DEF TypeOK, HandlerStates
  <2>3. UploadInv' BY <2>1, <2>2 DEF StoreInv, UploadInv
  <2>4. AckedRows' BY <2>1 DEF StoreInv, AckedRows, Started
  <2>5. StoppedIsComplete'
    <3>1. CASE snapshot' = snapshot
      BY <3>1, <2>1 DEF StoreInv, StoppedIsComplete, Started
    <3>2. CASE ~ \E t \in TrackIds : Open(t)
      <4>1. \A t \in Started : tracks[t].state \in TrackStates
        BY <1>t, DirOfTrack DEF TrackRow
      <4>2. \A t \in Started : tracks[t].state = "complete"
        BY <3>2, <4>1 DEF Open, Started, TrackStates
      <4> QED BY <4>2, <2>1 DEF StoppedIsComplete, Started
    <3> QED BY <3>1, <3>2, <1>10 DEF MaybeAdvanceSessionToStopped
  <2> QED BY <1>s, <2>1, <2>3, <2>4, <2>5, SameStore
<1>11. CASE WriteTrackManifest
  BY <1>11, <1>s, HandlerGoesOn DEF WriteTrackManifest, Continue, database
<1>12. CASE WriteSessionManifest
  BY <1>12, <1>s, HandlerGoesOn DEF WriteSessionManifest, Continue, database
<1>13. CASE Reply
  <2>1. /\ op.step = "reply" /\ op' = Idle
        /\ UNCHANGED <<snapshot, tracks, chunks, files>>
        /\ acked' = IF op.index = None THEN acked
                    ELSE acked \cup {<<op.track, op.index, op.content>>}
    BY <1>13 DEF Reply, database, artifacts
  <2>2. UploadInv' BY <2>1 DEF UploadInv, Idle
  <2>3. op.index # None => op.track \in Started /\ chunks[op.track][op.index] = op.content
    BY <2>1, <1>t DEF StoreInv, UploadInv, TypeOK, HandlerShape
  <2>4. AckedRows' BY <2>1, <2>3 DEF StoreInv, AckedRows, Started
  <2>5. StoppedIsComplete' BY <2>1 DEF StoreInv, StoppedIsComplete, Started
  <2> QED BY <1>s, <2>1, <2>2, <2>4, <2>5, SameStore
<1>14. CASE Fail BY <1>14, <1>s, NoStore DEF Fail, artifacts
<1>15. CASE Crash BY <1>15, <1>s, NoStore DEF Crash, artifacts
<1>16. CASE OpenStore BY <1>16, <1>s, NoStore DEF OpenStore, artifacts
<1>17. CASE RebuildSession BY <1>17, <1>s, NoStore DEF RebuildSession
<1>18. CASE FinishRebuild BY <1>18, <1>s, NoStore DEF FinishRebuild, artifacts
<1>19. ASSUME NEW t \in TrackIds, RebuildTrack(t) PROVE StoreInv'
  BY <1>19, <1>s, NoStore DEF RebuildTrack
<1>20. ASSUME NEW d \in Dirs, NEW i \in Indices, PruneStaleFile(d, i) PROVE StoreInv'
  <2>1. /\ files' = [files EXCEPT ![d][i] = None] /\ ~ Referenced(d, i)
        /\ server = "prune" /\ op' = op
        /\ UNCHANGED <<snapshot, tracks, chunks, acked>>
    BY <1>20 DEF PruneStaleFile, StaleFile, database
  <2>2. op = Idle BY <2>1, <1>t DEF TypeOK
  <2>3. \A e \in Dirs, j \in Indices : e # d \/ j # i => files'[e][j] = files[e][j]
    BY <2>1, <1>t DEF TypeOK, Bytes
  <2>4. RowsHaveFiles'
    <3> SUFFICES ASSUME NEW u \in Started, NEW j \in Stored(u)
                 PROVE  files'[TrackDir(tracks[u])][j] = chunks[u][j]
      BY <2>1 DEF RowsHaveFiles, Started, Stored, TrackDir
    <3>1. files[TrackDir(tracks[u])][j] = chunks[u][j] /\ j \in Indices
      BY DEF StoreInv, RowsHaveFiles, Stored
    <3>2. TrackDir(tracks[u]) # d \/ j # i BY <2>1 DEF Referenced, Stored
    <3> QED BY <3>1, <3>2, <2>3, <1>t, DirOfTrack
  <2>5. UploadInv' BY <2>1, <2>2 DEF UploadInv, Idle
  <2>6. AckedRows' BY <2>1 DEF StoreInv, AckedRows, Started
  <2>7. StoppedIsComplete' BY <2>1 DEF StoreInv, StoppedIsComplete, Started
  <2> QED BY <1>s, <2>1, <2>4, <2>5, <2>6, <2>7, SameRows
<1> QED
  BY <1>u, <1>1, <1>2, <1>3, <1>4, <1>5, <1>6, <1>7, <1>8, <1>9, <1>10, <1>11, <1>12, <1>13,
     <1>14, <1>15, <1>16, <1>17, <1>18, <1>19, <1>20
  DEF Next, HostRequest, TrackRequest, HandlerStep, Rebuild

\* Rows and chunk files agree in every state of every behaviour (StoreInv), whatever
\* handlers fail and whenever the process dies.
THEOREM StoreInvariant == Spec => []StoreInv
BY StoreInvInit, StoreInvStep, PTL DEF Spec

\* A chunk a client was told is stored is never lost (AckedChunksDurable).
THEOREM AckedChunksAreDurable == Spec => []AckedChunksDurable
<1>1. StoreInv => AckedChunksDurable
  <2> SUFFICES ASSUME StoreInv, NEW ack \in acked
               PROVE  /\ chunks[ack[1]][ack[2]] = ack[3]
                      /\ files[TrackDir(tracks[ack[1]])][ack[2]] = ack[3]
    BY DEF AckedChunksDurable
  <2>1. ack[1] \in Started /\ chunks[ack[1]][ack[2]] = ack[3] BY DEF StoreInv, AckedRows
  <2>2. ack[2] \in Indices /\ ack[3] # None BY NoneIsNoValue DEF StoreInv, Shape, TypeOK
  <2>3. ack[2] \in Stored(ack[1]) BY <2>1, <2>2 DEF Stored
  <2> QED BY <2>1, <2>3 DEF StoreInv, RowsHaveFiles
<1> QED BY <1>1, StoreInvariant, PTL

\* Every row of track_chunks has its file (RowsHaveFiles).
THEOREM RowsAlwaysHaveFiles == Spec => []RowsHaveFiles
<1>1. StoreInv => RowsHaveFiles BY DEF StoreInv
<1> QED BY <1>1, StoreInvariant, PTL

\* A complete track has exactly its declared chunks (CompleteIsGapFree).
THEOREM CompleteIsAlwaysGapFree == Spec => []CompleteIsGapFree
<1>1. StoreInv => CompleteIsGapFree BY DEF StoreInv
<1> QED BY <1>1, StoreInvariant, PTL

\* In a stopped session every started track is complete (StoppedIsComplete).
THEOREM StoppedIsAlwaysComplete == Spec => []StoppedIsComplete
<1>1. StoreInv => StoppedIsComplete BY DEF StoreInv
<1> QED BY <1>1, StoreInvariant, PTL

-----------------------------------------------------------------------------
(***************************************************************************)
(* Sealed takes and sessions.  RowsHaveFiles before and after a step turns *)
(* what is shown of the rows into the same about the files.                *)
(***************************************************************************)

\* The part of SealedIsFinal that speaks of the rows.
SealedRows ==
  /\ \A t \in Started : tracks[t].state = "complete" =>
       tracks'[t] = tracks[t] /\ chunks'[t] = chunks[t]
  /\ snapshot.phase = "stopped" => UNCHANGED database

\* No handler changes a complete row, its chunks, or any row of a stopped session.
LEMMA SealedRowsStep == ASSUME StoreInv, [Next]_vars PROVE SealedRows
<1>t. TypeOK /\ HandlerShape BY DEF StoreInv, Shape
<1>d. UNCHANGED database => SealedRows BY DEF SealedRows, database
<1>u. CASE UNCHANGED vars BY <1>u, <1>d DEF vars, database
<1>1. ASSUME NEW seat \in Seats, NEW epoch \in Epochs, StartRecording(seat, epoch)
      PROVE  SealedRows
  BY <1>1 DEF StartRecording, SealedRows
<1>2. ASSUME NEW seat \in Seats, StopRecording(seat) PROVE SealedRows
  BY <1>2 DEF StopRecording, SealedRows, database
<1>3. ASSUME NEW seat \in Seats, NEW t \in TrackIds, NEW epoch \in Epochs,
             NEW source \in Sources, NEW slot \in Slots,
             StartTrack(seat, t, epoch, source, slot)
      PROVE  SealedRows
  BY <1>3, <1>t DEF StartTrack, SealedRows, AcceptsTracks, Started, TypeOK
<1>6. ASSUME NEW seat \in Seats, NEW t \in TrackIds, NEW n \in Counts, FinishTrack(seat, t, n)
      PROVE  SealedRows
  <2>1. /\ \A u \in TrackIds \ {t} : tracks'[u] = tracks[u]
        /\ chunks' = chunks /\ AcceptsWork /\ Open(t)
    BY <1>6, <1>t DEF FinishTrack, TypeOK
  <2> QED BY <2>1 DEF SealedRows, AcceptsWork, Open, Started
<1>7. CASE InsertChunk
  <2>1. /\ tracks' = tracks /\ AcceptsWork /\ Open(op.track)
        /\ \A u \in TrackIds \ {op.track} : chunks'[u] = chunks[u]
    BY <1>7, <1>t DEF InsertChunk, Continue, StoreInv, UploadInv, TypeOK
  <2> QED BY <2>1 DEF SealedRows, AcceptsWork, Open, Started
<1>9. CASE MaybeCompleteTrack
  <2>1. /\ \A u \in TrackIds \ {op.track} : tracks'[u] = tracks[u]
        /\ chunks' = chunks /\ AcceptsWork /\ Open(op.track)
    BY <1>9, <1>t DEF MaybeCompleteTrack, Continue, StoreInv, UploadInv, TypeOK
  <2> QED BY <2>1 DEF SealedRows, AcceptsWork, Open, Started
<1>10. CASE MaybeAdvanceSessionToStopped
  BY <1>10 DEF MaybeAdvanceSessionToStopped, SealedRows, database
<1> QED
  BY <1>d, <1>u, <1>1, <1>2, <1>3, <1>6, <1>7, <1>9, <1>10
  DEF Next, HostRequest, TrackRequest, HandlerStep, Rebuild, UploadChunk, UploadDuplicate,
      InsertChunkFails, WriteTrackManifest, WriteSessionManifest, Reply, Fail, Crash, OpenStore,
      RebuildTrack, RebuildSession, PruneStaleFile, FinishRebuild, database

\* Nothing changes a complete track or a stopped session again (SealedIsFinal).
THEOREM SealedStaysFinal == Spec => SealedIsFinal
<1> DEFINE Sealed ==
  /\ \A t \in Started : tracks[t].state = "complete" =>
       /\ tracks'[t] = tracks[t]
       /\ chunks'[t] = chunks[t]
       /\ \A i \in Stored(t) :
            files'[TrackDir(tracks[t])][i] = files[TrackDir(tracks[t])][i]
  /\ snapshot.phase = "stopped" => UNCHANGED database
<1>1. ASSUME StoreInv, StoreInv', [Next]_vars PROVE Sealed
  <2>1. SealedRows BY <1>1, SealedRowsStep
  <2>2. ASSUME NEW t \in Started, tracks[t].state = "complete", NEW i \in Stored(t)
        PROVE  files'[TrackDir(tracks[t])][i] = files[TrackDir(tracks[t])][i]
    <3>1. tracks'[t] = tracks[t] /\ chunks'[t] = chunks[t] BY <2>1, <2>2 DEF SealedRows
    <3>2. files[TrackDir(tracks[t])][i] = chunks[t][i] BY <1>1 DEF StoreInv, RowsHaveFiles
    <3>3. t \in Started' /\ i \in Stored(t)' BY <3>1 DEF Started, Stored
    <3>4. files'[TrackDir(tracks'[t])][i] = chunks'[t][i]
      BY <1>1, <3>3 DEF StoreInv, RowsHaveFiles, TrackDir
    <3> QED BY <3>1, <3>2, <3>4
  <2> QED BY <2>1, <2>2 DEF SealedRows
<1>2. ASSUME StoreInv, StoreInv', [Next]_vars PROVE [Sealed]_vars BY <1>1, <1>2
<1> HIDE DEF Sealed
<1>3. Spec => [][Sealed]_vars BY <1>2, StoreInvariant, PTL DEF Spec
<1> QED BY <1>3 DEF SealedIsFinal, Sealed

-----------------------------------------------------------------------------
(***************************************************************************)
(* Stranded tracks.  A handler that ended between the insert of the last   *)
(* chunk and maybeCompleteTrack leaves a track behind that nothing checks  *)
(* again: a repeated upload is answered from the row, finishTrack refuses  *)
(* a second length, and a restart repairs files and manifests only.        *)
(***************************************************************************)

\* A stranded track that no handler is about to complete.
Abandoned(t) == Stranded(t) /\ ~(op.step = "complete" /\ op.track = t)

\* It stays so as long as its row and its chunks are left alone.
LEMMA AbandonedAlone ==
  ASSUME NEW t \in TrackIds, Abandoned(t), tracks'[t] = tracks[t], chunks'[t] = chunks[t],
         op' = op \/ op'.step # "complete" \/ op'.track # t
  PROVE  Abandoned(t)'
<1>1. Stranded(t)' BY DEF Abandoned, Stranded, Open, Missing, Stored
<1> QED BY <1>1 DEF Abandoned

\* No step of any handler, client, host or restart takes it up again.
LEMMA AbandonedStays ==
  ASSUME StoreInv, NEW t \in TrackIds, Abandoned(t), [Next]_vars
  PROVE  Abandoned(t)'
<1>t. TypeOK /\ HandlerShape BY DEF StoreInv, Shape
<1>s. /\ tracks[t] # None /\ tracks[t].expected # None /\ Open(t)
      /\ \A i \in Indices : i < tracks[t].expected => chunks[t][i] # None
      /\ ~(op.step = "complete" /\ op.track = t)
  BY DEF Abandoned, Stranded, Open, Missing, Stored
<1>d. ASSUME UNCHANGED database, op' = op \/ op'.step # "complete" PROVE Abandoned(t)'
  BY <1>d, AbandonedAlone DEF database
<1>u. CASE UNCHANGED vars BY <1>u, <1>d DEF vars, database
<1>1. ASSUME NEW seat \in Seats, NEW epoch \in Epochs, StartRecording(seat, epoch)
      PROVE  Abandoned(t)'
  BY <1>1, AbandonedAlone DEF StartRecording, Handler
<1>2. ASSUME NEW seat \in Seats, StopRecording(seat) PROVE Abandoned(t)'
  BY <1>2, AbandonedAlone DEF StopRecording, Handler
<1>3. ASSUME NEW seat \in Seats, NEW u \in TrackIds, NEW epoch \in Epochs,
             NEW source \in Sources, NEW slot \in Slots,
             StartTrack(seat, u, epoch, source, slot)
      PROVE  Abandoned(t)'
  <2>1. u # t /\ tracks'[t] = tracks[t] BY <1>3, <1>s, <1>t DEF StartTrack, TypeOK
  <2> QED BY <1>3, <2>1, AbandonedAlone DEF StartTrack, Handler
<1>4. ASSUME NEW seat \in Seats, NEW u \in TrackIds, NEW i \in Indices, NEW content \in Contents,
             UploadChunk(seat, u, i, content) \/ UploadDuplicate(seat, u, i, content)
      PROVE  Abandoned(t)'
  BY <1>4, <1>d DEF UploadChunk, UploadDuplicate
<1>5. ASSUME NEW seat \in Seats, NEW u \in TrackIds, NEW n \in Counts, FinishTrack(seat, u, n)
      PROVE  Abandoned(t)'
  <2>1. u # t /\ tracks'[t] = tracks[t] BY <1>5, <1>s, <1>t DEF FinishTrack, TypeOK
  <2> QED BY <1>5, <2>1, AbandonedAlone DEF FinishTrack, Handler
<1>6. CASE InsertChunk
  <2>1. /\ op.step = "insert" /\ op'.track = op.track
        /\ op.track \in TrackIds /\ op.index \in Indices
    BY <1>6, <1>t DEF InsertChunk, Continue, TypeOK, HandlerShape, HandlerStates
  <2>2. chunks[op.track][op.index] = None /\ InRange(tracks[op.track], op.index)
    BY <2>1 DEF StoreInv, UploadInv
  <2>3. op.track # t BY <1>s, <2>1, <2>2 DEF InRange
  <2>4. chunks'[t] = chunks[t] /\ tracks' = tracks
    BY <1>6, <1>t, <2>1, <2>3 DEF InsertChunk, TypeOK
  <2> QED BY <2>1, <2>3, <2>4, AbandonedAlone
<1>7. CASE MaybeCompleteTrack
  <2>1. /\ op.step = "complete" /\ op'.step = "advance" /\ op.track \in TrackIds
    BY <1>7, <1>t DEF MaybeCompleteTrack, Continue, TypeOK, HandlerShape, HandlerStates
  <2>2. op.track # t BY <1>s, <2>1
  <2>3. tracks'[t] = tracks[t] /\ chunks' = chunks
    BY <1>7, <1>t, <2>1, <2>2 DEF MaybeCompleteTrack, TypeOK
  <2> QED BY <2>1, <2>3, AbandonedAlone
<1>8. CASE MaybeAdvanceSessionToStopped
  <2>1. op'.step # "complete" /\ UNCHANGED <<tracks, chunks>>
    BY <1>8, <1>t DEF MaybeAdvanceSessionToStopped, Continue, TypeOK, HandlerStates
  <2> QED BY <2>1, AbandonedAlone
<1>9. CASE WriteTrackManifest \/ WriteSessionManifest
  <2>1. op'.step # "complete" /\ UNCHANGED database
    BY <1>9, <1>t DEF WriteTrackManifest, WriteSessionManifest, Continue, TypeOK, HandlerStates
  <2> QED BY <2>1, <1>d
<1>10. CASE InsertChunkFails \/ Reply \/ Fail \/ Crash
  BY <1>10, <1>d DEF InsertChunkFails, Reply, Fail, Crash, Idle
<1>11. CASE Rebuild
  BY <1>11, <1>d
  DEF Rebuild, OpenStore, RebuildTrack, RebuildSession, PruneStaleFile, FinishRebuild
<1> QED
  BY <1>u, <1>1, <1>2, <1>3, <1>4, <1>5, <1>6, <1>7, <1>8, <1>9, <1>10, <1>11
  DEF Next, HostRequest, TrackRequest, HandlerStep

\* Once store.mu is free and a track is stranded, the session never stops, whatever
\* clients and hosts repeat and however often the process is started again: the
\* exception that DrainingEnds makes is for good (uploadChunk, maybeCompleteTrack).
THEOREM StrandedForGood ==
  ASSUME NEW t \in TrackIds
  PROVE  Spec => [](op = Idle /\ Stranded(t) => [](Stranded(t) /\ snapshot.phase # "stopped"))
<1>1. StoreInv /\ Abandoned(t) /\ [Next]_vars => Abandoned(t)' BY AbandonedStays
<1>2. StoreInv /\ Abandoned(t) => Stranded(t) /\ snapshot.phase # "stopped"
  BY DEF StoreInv, StoppedIsComplete, Abandoned, Stranded, Open, Started
<1>3. op = Idle /\ Stranded(t) => Abandoned(t) BY DEF Abandoned, Idle
<1> QED BY <1>1, <1>2, <1>3, StoreInvariant, PTL DEF Spec

-----------------------------------------------------------------------------
(***************************************************************************)
(* The store implements RecordingRun.                                      *)
(***************************************************************************)

\* A store that was just bootstrapped is a run that has not begun.
LEMMA RunInit == Init => Run!Init
<1> SUFFICES ASSUME Init PROVE Run!Init OBVIOUS
<1>1. /\ snapshot.phase = "waiting"
      /\ \A t \in TrackIds : tracks[t] = None
      /\ chunks = [t \in TrackIds |-> [i \in Indices |-> None]]
  BY DEF Init
<1>2. Takes = [t \in TrackIds |-> "none"] /\ Lengths = [t \in TrackIds |-> None]
  BY <1>1 DEF Takes, Lengths
<1> QED BY <1>1, <1>2 DEF Run!Init, Run!Indices, Indices

\* A step that changes no row and no phase is invisible in the run.
LEMMA SameRun ==
  ASSUME UNCHANGED <<tracks, chunks>>, snapshot'.phase = snapshot.phase
  PROVE  UNCHANGED Run!vars
<1>1. Takes' = Takes /\ Lengths' = Lengths BY DEF Takes, Lengths
<1> QED BY <1>1 DEF Run!vars

\* Each step of the store is one step of the run or a stutter: the commit that
\* changes a row is the step, everything else a handler does is the stutter.
LEMMA RunStep == ASSUME StoreInv, [Next]_vars PROVE [Run!Next]_(Run!vars)
<1>t. TypeOK /\ HandlerShape BY DEF StoreInv, Shape
<1>d. UNCHANGED database => UNCHANGED Run!vars BY SameRun DEF database
<1>u. CASE UNCHANGED vars BY <1>u, <1>d DEF vars, database
<1>1. ASSUME NEW seat \in Seats, NEW epoch \in Epochs, StartRecording(seat, epoch)
      PROVE  Run!Next
  <2>1. Takes' = Takes /\ Lengths' = Lengths BY <1>1 DEF StartRecording, Takes, Lengths
  <2>2. Run!Start BY <1>1, <2>1 DEF StartRecording, Run!Start
  <2> QED BY <2>2 DEF Run!Next
<1>2. ASSUME NEW seat \in Seats, StopRecording(seat) PROVE [Run!Next]_(Run!vars)
  <2>1. Takes' = Takes /\ Lengths' = Lengths BY <1>2 DEF StopRecording, Takes, Lengths
  <2>2. CASE snapshot.phase = "recording"
    <3>1. Run!Stop BY <1>2, <1>t, <2>1, <2>2 DEF StopRecording, Run!Stop, TypeOK
    <3> QED BY <3>1 DEF Run!Next
  <2>3. CASE snapshot.phase # "recording"
    BY <1>2, <2>3, SameRun DEF StopRecording
  <2> QED BY <2>2, <2>3
<1>3. ASSUME NEW seat \in Seats, NEW t \in TrackIds, NEW epoch \in Epochs,
             NEW source \in Sources, NEW slot \in Slots,
             StartTrack(seat, t, epoch, source, slot)
      PROVE  Run!Next
  <2> DEFINE row == [seat |-> seat, source |-> source, slot |-> slot,
                     state |-> "recording", expected |-> None]
  <2>1. /\ tracks' = [tracks EXCEPT ![t] = row] /\ tracks[t] = None
        /\ snapshot.phase = "recording" /\ UNCHANGED <<snapshot, chunks>>
    BY <1>3 DEF StartTrack, AcceptsTracks
  <2>2. row # None BY NoneIsNoValue DEF TrackRow, TrackStates
  <2>3. /\ Takes' = [Takes EXCEPT ![t] = "open"] /\ Lengths' = Lengths
        /\ Takes[t] = "none"
    BY <2>1, <2>2, <1>t DEF Takes, Lengths, TypeOK
  <2>4. Run!OpenTake(t) BY <2>1, <2>3 DEF Run!OpenTake
  <2> QED BY <2>4 DEF Run!Next
<1>6. ASSUME NEW seat \in Seats, NEW t \in TrackIds, NEW n \in Counts, FinishTrack(seat, t, n)
      PROVE  Run!Next
  <2> DEFINE row == [tracks[t] EXCEPT !.expected = n]
             state == CurrentTrackState(row, Cardinality(Stored(t)))
             sealed == [row EXCEPT !.state = state]
  <2>1. /\ t \in Started /\ tracks[t].expected = None /\ Open(t)
        /\ \A i \in Stored(t) : i < n
        /\ tracks' = [tracks EXCEPT ![t] = sealed]
        /\ UNCHANGED <<snapshot, chunks>> /\ AcceptsWork
    BY <1>6 DEF FinishTrack, Owns, Started
  <2>2. tracks[t] \in TrackRow BY <2>1, <1>t, DirOfTrack
  <2>3. row \in TrackRow /\ row.expected = n /\ n # None
    BY <2>2, NoneIsNoValue, MaxIndexIsNat DEF TrackRow, Counts
  <2>4. state = "complete" <=> Stored(t) = {i \in Indices : i < n}
    BY <2>1, <2>3, <1>t, CountingIsEnough DEF CurrentTrackState
  <2>5. Run!Full(t, n) <=> state = "complete"
    BY <2>4 DEF Run!Full, Run!Indices, Indices, Stored
  <2>6. sealed # None /\ sealed.expected = n /\ sealed.state = state
    <3>1. state \in TrackStates BY <2>3 DEF CurrentTrackState, TrackStates
    <3>2. sealed \in TrackRow /\ sealed.expected = n /\ sealed.state = state
      BY <2>2, <2>3, <3>1 DEF TrackRow
    <3> QED BY <3>2, NoneIsNoValue
  <2> HIDE DEF sealed, state
  <2>7. /\ Takes' = [Takes EXCEPT ![t] = IF state = "complete" THEN "complete" ELSE "open"]
        /\ Lengths' = [Lengths EXCEPT ![t] = n]
    BY <2>1, <2>6, <1>t DEF Takes, Lengths, TypeOK
  <2>8. Takes[t] = "open" /\ Lengths[t] = None BY <2>1 DEF Takes, Lengths, Open
  <2>9. \A i \in Run!Indices : chunks[t][i] # None => i < n
    BY <2>1 DEF Run!Indices, Indices, Stored
  <2>10. Run!Declare(t, n)
    BY <2>1, <2>5, <2>7, <2>8, <2>9 DEF Run!Declare, AcceptsWork
  <2>11. n \in Run!Counts BY DEF Run!Counts, Counts
  <2> QED BY <2>10, <2>11 DEF Run!Next
<1>7. CASE InsertChunk
  <2> DEFINE t == op.track
             i == op.index
  <2>1. /\ t \in Started /\ i \in Indices /\ op.content \in Contents
        /\ chunks' = [chunks EXCEPT ![t][i] = op.content]
        /\ UNCHANGED <<snapshot, tracks>>
    BY <1>7, <1>t DEF InsertChunk, Continue, TypeOK, HandlerShape, HandlerStates
  <2>2. AcceptsWork /\ Open(t) /\ chunks[t][i] = None /\ InRange(tracks[t], i)
    BY <1>7 DEF InsertChunk, Continue, StoreInv, UploadInv
  <2>3. Takes' = Takes /\ Lengths' = Lengths BY <2>1 DEF Takes, Lengths
  <2>4. Takes[t] = "open" /\ Lengths[t] = tracks[t].expected /\ t \in TrackIds
    BY <2>1, <2>2 DEF Takes, Lengths, Open, Started
  <2>5. Run!Keep(t, i, op.content)
    BY <2>1, <2>2, <2>3, <2>4 DEF Run!Keep, AcceptsWork, InRange
  <2>6. i \in Run!Indices BY <2>1 DEF Run!Indices, Indices
  <2> QED BY <2>1, <2>4, <2>5, <2>6 DEF Run!Next
<1>9. CASE MaybeCompleteTrack
  <2> DEFINE t == op.track
             state == CurrentTrackState(tracks[t], Cardinality(Stored(t)))
             row == [tracks[t] EXCEPT !.state = state]
  <2>1. /\ t \in Started /\ tracks' = [tracks EXCEPT ![t] = row]
        /\ UNCHANGED <<snapshot, chunks>>
    BY <1>9, <1>t DEF MaybeCompleteTrack, Continue, TypeOK, HandlerShape
  <2>2. AcceptsWork /\ Open(t)
    BY <1>9 DEF MaybeCompleteTrack, Continue, StoreInv, UploadInv
  <2>3. tracks[t] \in TrackRow BY <2>1, <1>t, DirOfTrack
  <2>4. state \in TrackStates BY <2>3 DEF CurrentTrackState, TrackStates, TrackRow
  <2>5. row # None /\ row.expected = tracks[t].expected /\ row.state = state
    BY <2>3, <2>4, NoneIsNoValue DEF TrackRow
  <2>6. Takes[t] = "open" /\ Lengths[t] = tracks[t].expected /\ t \in TrackIds
    BY <2>1, <2>2 DEF Takes, Lengths, Open, Started
  <2>7. state = "complete" =>
          tracks[t].expected # None /\ Stored(t) = {i \in Indices : i < tracks[t].expected}
    <3>1. tracks[t].expected # None => tracks[t].expected \in Counts BY <2>3 DEF TrackRow
    <3>2. tracks[t].expected # None => \A i \in Stored(t) : i < tracks[t].expected
      BY <2>1 DEF StoreInv, IndicesInRange
    <3>3. tracks[t].expected # None /\ state = "complete" =>
            Cardinality(Stored(t)) = tracks[t].expected
      BY DEF CurrentTrackState
    <3>4. state = "complete" => tracks[t].expected # None
      BY <2>2 DEF CurrentTrackState, Open
    <3> QED BY <3>1, <3>2, <3>3, <3>4, <2>6, <1>t, CountingIsEnough
  <2> HIDE DEF row, state
  <2>8. /\ Takes' = [Takes EXCEPT ![t] = IF state = "complete" THEN "complete" ELSE "open"]
        /\ Lengths' = Lengths
    BY <2>1, <2>5, <2>6, <1>t DEF Takes, Lengths, TypeOK, Started
  <2>9. CASE state = "complete"
    <3>1. Run!Full(t, tracks[t].expected)
      BY <2>7, <2>9 DEF Run!Full, Run!Indices, Indices, Stored
    <3>2. Run!Complete(t)
      BY <3>1, <2>1, <2>2, <2>6, <2>7, <2>8, <2>9 DEF Run!Complete, AcceptsWork
    <3> QED BY <3>2, <2>6 DEF Run!Next
  <2>10. CASE state # "complete"
    <3>1. Takes' = Takes BY <2>6, <2>8, <2>10 DEF Takes
    <3> QED BY <3>1, <2>1, <2>8 DEF Run!vars
  <2> QED BY <2>9, <2>10
<1>10. CASE MaybeAdvanceSessionToStopped
  <2>1. UNCHANGED <<tracks, chunks>> BY <1>10 DEF MaybeAdvanceSessionToStopped
  <2>2. CASE snapshot' = snapshot BY <2>1, <2>2, SameRun
  <2>3. CASE /\ snapshot.phase = "draining" /\ ~ \E t \in TrackIds : Open(t)
             /\ snapshot' = [snapshot EXCEPT !.phase = "stopped"]
    <3>1. snapshot'.phase = "stopped" BY <2>3, <1>t DEF TypeOK
    <3>2. \A t \in TrackIds : Takes[t] # "open"
      <4>1. \A t \in Started : tracks[t].state \in TrackStates
        BY <1>t, DirOfTrack DEF TrackRow
      <4> QED BY <4>1, <2>3 DEF Takes, Open, Started, TrackStates
    <3>3. Takes' = Takes /\ Lengths' = Lengths BY <2>1 DEF Takes, Lengths
    <3>4. Run!Drained BY <2>1, <2>3, <3>1, <3>2, <3>3 DEF Run!Drained
    <3> QED BY <3>4 DEF Run!Next
  <2> QED BY <2>2, <2>3, <1>10 DEF MaybeAdvanceSessionToStopped
<1> QED
  BY <1>d, <1>u, <1>1, <1>2, <1>3, <1>6, <1>7, <1>9, <1>10
  DEF Next, HostRequest, TrackRequest, HandlerStep, Rebuild, UploadChunk, UploadDuplicate,
      InsertChunkFails, WriteTrackManifest, WriteSessionManifest, Reply, Fail, Crash, OpenStore,
      RebuildTrack, RebuildSession, PruneStaleFile, FinishRebuild, database

\* Whatever fails in between, the store is the recording run of RecordingRun
\* (ImplementsRun).
THEOREM StoreImplementsRun == Spec => ImplementsRun
<1>1. Spec => [][Run!Next]_(Run!vars) BY RunStep, StoreInvariant, PTL DEF Spec
<1>2. Spec => Run!Init BY RunInit, PTL DEF Spec
<1> QED BY <1>1, <1>2, PTL DEF ImplementsRun, Run!Spec

=============================================================================
