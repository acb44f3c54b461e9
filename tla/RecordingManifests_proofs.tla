---------------------- MODULE RecordingManifests_proofs ----------------------
(***************************************************************************)
(* Proofs about the manifests of RecordingStore, for every choice of its   *)
(* constants.  A manifest is written in a commit of its own and may be any *)
(* number of commits behind the database.  What it says stays true because *)
(* the database only grows (Grows) and never changes what is sealed        *)
(* (SealedRows); when it is current follows from the order in which a      *)
(* handler and the rebuild write.                                          *)
(***************************************************************************)
EXTENDS RecordingStore_proofs

\* A track.json is the one of the only track of its directory, lists rows that are
\* still there, and a complete one is what would be written today.
Truthful(manifest, t, dir) ==
  /\ t \in Started /\ TrackDir(tracks[t]) = dir
  /\ \A i \in Indices : manifest.listed[i] \in {None, chunks[t][i]}
  /\ manifest.status = "complete" =>
       tracks[t].state = "complete" /\ manifest = TrackManifest(t)
PublishedTracks ==
  \A d \in Dirs : trackJson[d] # None => Truthful(trackJson[d], trackJson[d].track, d)

\* A session.json is of a session that has begun, whose phase was not further on,
\* and the one that says stopped is what would be written today.
PublishedSession ==
  sessionJson # None =>
    /\ snapshot.epoch # None \/ Started # {}
    /\ Rank(sessionJson.phase) <= Rank(snapshot.phase)
    /\ sessionJson.phase = "stopped" => sessionJson = SessionManifest

\* What a handler has written before its next step: it started from the database
\* that it answers for.
Current(t) == trackJson[TrackDir(tracks[t])] = TrackManifest(t)
HandlerPublished ==
  /\ op.step \in {"sessionManifest", "reply"} /\ op.track # None => Current(op.track)
  /\ op.step = "reply" => sessionJson = SessionManifest

\* What the rebuild has written before its next step.
RebuildPublished ==
  /\ server \in {"rebuild", "prune"} => \A t \in Started \ pending : Current(t)
  /\ server = "prune" => pending = {} /\ sessionJson = SessionManifest

\* What no handler owes, and would not owe if it ended before its next step.
OwedPublished ==
  /\ \A t \in Started \ (owed \cup Unwritten) : Current(t)
  /\ None \notin owed \cup Unwritten => sessionJson = SessionManifest

ManifestInv ==
  PublishedTracks /\ PublishedSession /\ HandlerPublished /\ RebuildPublished /\ OwedPublished

-----------------------------------------------------------------------------
(***************************************************************************)
(* What a manifest is made of, and the order of the phases.                *)
(***************************************************************************)

\* A track.json is made of the track's own row and chunks.
LEMMA SameTrackManifest ==
  ASSUME NEW t \in TrackIds, tracks'[t] = tracks[t], chunks'[t] = chunks[t]
  PROVE  TrackManifest(t)' = TrackManifest(t)
<1>1. Stored(t)' = Stored(t) BY DEF Stored
<1>2. Missing(tracks[t], t)' = Missing(tracks[t], t) BY <1>1 DEF Missing
<1> QED BY <1>1, <1>2 DEF TrackManifest, ArtifactStatus

\* Both manifests are made of nothing but the database.
LEMMA SameDatabase ==
  ASSUME UNCHANGED database
  PROVE  /\ Started' = Started
         /\ \A t \in TrackIds : /\ TrackManifest(t)' = TrackManifest(t)
                                /\ tracks'[t] = tracks[t]
         /\ SessionManifest' = SessionManifest
<1>1. UNCHANGED <<snapshot, tracks, chunks>> BY DEF database
<1>2. Started' = Started BY <1>1 DEF Started
<1>3. \A t \in TrackIds : TrackManifest(t)' = TrackManifest(t)
  BY <1>1, SameTrackManifest
<1>4. SessionManifest' = SessionManifest
  BY <1>1, <1>2 DEF SessionManifest, Stored, ArtifactStatus
<1> QED BY <1>1, <1>2, <1>3, <1>4

\* A track.json says complete only of a track whose row says so.
LEMMA CompleteManifest ==
  ASSUME NEW t \in TrackIds, TrackManifest(t).status = "complete"
  PROVE  tracks[t].state = "complete"
BY DEF TrackManifest, ArtifactStatus

\* The phases in their order.
LEMMA RankValues ==
  /\ Rank("waiting") = 1 /\ Rank("recording") = 2
  /\ Rank("draining") = 3 /\ Rank("stopped") = 4
<1> DEFINE order == <<"waiting", "recording", "draining", "stopped">>
<1>1. \A n \in 1 .. 4 : n = 1 \/ n = 2 \/ n = 3 \/ n = 4 OBVIOUS
<1>2. order[1] = "waiting" /\ order[2] = "recording" /\ order[3] = "draining" /\ order[4] = "stopped"
  OBVIOUS
<1> HIDE DEF order
<1>3. \A n \in 1 .. 4 : /\ "waiting" = order[n] <=> n = 1
                        /\ "recording" = order[n] <=> n = 2
                        /\ "draining" = order[n] <=> n = 3
                        /\ "stopped" = order[n] <=> n = 4
  BY <1>1, <1>2
<1>4. 1 \in 1 .. 4 /\ 2 \in 1 .. 4 /\ 3 \in 1 .. 4 /\ 4 \in 1 .. 4 OBVIOUS
<1>5. /\ (CHOOSE n \in 1 .. 4 : "waiting" = order[n]) = 1
      /\ (CHOOSE n \in 1 .. 4 : "recording" = order[n]) = 2
      /\ (CHOOSE n \in 1 .. 4 : "draining" = order[n]) = 3
      /\ (CHOOSE n \in 1 .. 4 : "stopped" = order[n]) = 4
  BY <1>3, <1>4
<1> QED BY <1>5 DEF Rank, order

\* Only a stopped session has come as far as stopped, and every phase has a place.
LEMMA StoppedIsLast ==
  ASSUME NEW phase \in Phases
  PROVE  Rank(phase) \in 1 .. 4 /\ (4 <= Rank(phase) => phase = "stopped")
BY RankValues DEF Phases

-----------------------------------------------------------------------------
(***************************************************************************)
(* What one step may do to the database and to the manifests.              *)
(***************************************************************************)

\* Rows are added and never taken away, a segment keeps its directory, and the
\* session only goes forward.
DatabaseGrows ==
  /\ \A t \in Started : t \in Started' /\ TrackDir(tracks[t])' = TrackDir(tracks[t])
  /\ \A t \in TrackIds, i \in Indices : chunks[t][i] # None => chunks'[t][i] = chunks[t][i]
  /\ snapshot.epoch # None => snapshot'.epoch # None
  /\ Rank(snapshot.phase) <= Rank(snapshot'.phase)

\* No handler, failure, crash or rebuild takes a row or a phase back.
LEMMA GrowsStep == ASSUME StoreInv, [Next]_vars PROVE DatabaseGrows
<1>t. TypeOK /\ HandlerShape BY DEF StoreInv, Shape
<1>p. snapshot.phase \in Phases BY <1>t DEF TypeOK
<1>r. Rank(snapshot.phase) <= Rank(snapshot.phase) BY <1>p, StoppedIsLast
<1>d. UNCHANGED database => DatabaseGrows
  BY <1>r DEF DatabaseGrows, database, Started, TrackDir
<1>u. CASE UNCHANGED vars BY <1>u, <1>d DEF vars, database
<1>1. ASSUME NEW seat \in Seats, NEW epoch \in Epochs, StartRecording(seat, epoch)
      PROVE  DatabaseGrows
  <2>1. snapshot.phase = "waiting" /\ snapshot' = [phase |-> "recording", epoch |-> epoch]
        /\ UNCHANGED <<tracks, chunks>>
    BY <1>1 DEF StartRecording
  <2>2. snapshot'.epoch # None /\ Rank(snapshot.phase) <= Rank(snapshot'.phase)
    BY <2>1, NoneIsNoValue, RankValues
  <2> QED BY <2>1, <2>2 DEF DatabaseGrows, Started, TrackDir
<1>2. ASSUME NEW seat \in Seats, StopRecording(seat) PROVE DatabaseGrows
  <2>1. UNCHANGED <<tracks, chunks>> BY <1>2 DEF StopRecording
  <2>2. snapshot' = snapshot
        \/ (snapshot.phase = "recording" /\ snapshot' = [snapshot EXCEPT !.phase = "draining"])
    BY <1>2 DEF StopRecording
  <2>3. snapshot'.epoch = snapshot.epoch /\ Rank(snapshot.phase) <= Rank(snapshot'.phase)
    BY <2>2, <1>r, <1>t, RankValues DEF TypeOK
  <2> QED BY <2>1, <2>3 DEF DatabaseGrows, Started, TrackDir
<1>3. ASSUME NEW seat \in Seats, NEW t \in TrackIds, NEW epoch \in Epochs,
             NEW source \in Sources, NEW slot \in Slots,
             StartTrack(seat, t, epoch, source, slot)
      PROVE  DatabaseGrows
  <2>1. /\ \A u \in Started : u # t /\ tracks'[u] = tracks[u]
        /\ UNCHANGED <<snapshot, chunks>>
    BY <1>3, <1>t DEF StartTrack, Started, TypeOK
  <2> QED BY <2>1, <1>r DEF DatabaseGrows, Started, TrackDir
<1>6. ASSUME NEW seat \in Seats, NEW t \in TrackIds, NEW n \in Counts, FinishTrack(seat, t, n)
      PROVE  DatabaseGrows
  <2> DEFINE row == [tracks[t] EXCEPT !.expected = n]
             sealed == [row EXCEPT !.state = CurrentTrackState(row, Cardinality(Stored(t)))]
  <2>1. tracks[t] \in TrackRow BY <1>6, <1>t, DirOfTrack DEF FinishTrack, Owns, Started
  <2>2. tracks' = [tracks EXCEPT ![t] = sealed] /\ UNCHANGED <<snapshot, chunks>>
    BY <1>6 DEF FinishTrack
  <2>3. /\ sealed.seat = tracks[t].seat /\ sealed.source = tracks[t].source
        /\ sealed.slot = tracks[t].slot /\ sealed # None
    <3>1. row \in TrackRow BY <2>1 DEF TrackRow
    <3>2. CurrentTrackState(row, Cardinality(Stored(t))) \in TrackStates
      BY <3>1 DEF CurrentTrackState, TrackStates, TrackRow
    <3>3. sealed \in TrackRow BY <3>1, <3>2 DEF TrackRow
    <3> QED BY <2>1, <3>3, NoneIsNoValue DEF TrackRow
  <2> HIDE DEF sealed
  <2> QED BY <2>2, <2>3, <1>r, <1>t DEF DatabaseGrows, Started, TrackDir, TypeOK
<1>7. CASE InsertChunk
  <2>1. UNCHANGED <<snapshot, tracks>> BY <1>7 DEF InsertChunk
  <2>2. chunks[op.track][op.index] = None
    BY <1>7 DEF InsertChunk, Continue, StoreInv, UploadInv
  <2>3. ASSUME NEW t \in TrackIds, NEW i \in Indices, chunks[t][i] # None
        PROVE  chunks'[t][i] = chunks[t][i]
    BY <1>7, <1>t, <2>2, <2>3 DEF InsertChunk, TypeOK, Bytes
  <2> QED BY <2>1, <2>3, <1>r DEF DatabaseGrows, Started, TrackDir
<1>9. CASE MaybeCompleteTrack
  <2> DEFINE t == op.track
             state == CurrentTrackState(tracks[t], Cardinality(Stored(t)))
             row == [tracks[t] EXCEPT !.state = state]
  <2>1. /\ t \in Started /\ tracks' = [tracks EXCEPT ![t] = row]
        /\ UNCHANGED <<snapshot, chunks>>
    BY <1>9, <1>t DEF MaybeCompleteTrack, Continue, TypeOK, HandlerShape
  <2>2. tracks[t] \in TrackRow BY <2>1, <1>t, DirOfTrack
  <2>3. state \in TrackStates BY <2>2 DEF CurrentTrackState, TrackStates, TrackRow
  <2>4. /\ row.seat = tracks[t].seat /\ row.source = tracks[t].source
        /\ row.slot = tracks[t].slot /\ row # None
    BY <2>2, <2>3, NoneIsNoValue DEF TrackRow
  <2> HIDE DEF row, state
  <2> QED BY <2>1, <2>4, <1>r, <1>t DEF DatabaseGrows, Started, TrackDir, TypeOK
<1>10. CASE MaybeAdvanceSessionToStopped
  <2>1. UNCHANGED <<tracks, chunks>> BY <1>10 DEF MaybeAdvanceSessionToStopped
  <2>2. snapshot' = snapshot
        \/ (snapshot.phase = "draining" /\ snapshot' = [snapshot EXCEPT !.phase = "stopped"])
    BY <1>10 DEF MaybeAdvanceSessionToStopped
  <2>3. snapshot'.epoch = snapshot.epoch /\ Rank(snapshot.phase) <= Rank(snapshot'.phase)
    BY <2>2, <1>r, <1>t, RankValues DEF TypeOK
  <2> QED BY <2>1, <2>3 DEF DatabaseGrows, Started, TrackDir
<1> QED
  BY <1>d, <1>u, <1>1, <1>2, <1>3, <1>6, <1>7, <1>9, <1>10
  DEF Next, HostRequest, TrackRequest, HandlerStep, Rebuild, UploadChunk, UploadDuplicate,
      InsertChunkFails, WriteTrackManifest, WriteSessionManifest, Reply, Fail, Crash, OpenStore,
      RebuildTrack, RebuildSession, PruneStaleFile, FinishRebuild, database

\* A manifest is rewritten as a whole, from the database as it is, in a step that
\* leaves the database alone.
TracksWritten ==
  \/ trackJson' = trackJson
  \/ /\ UNCHANGED database
     /\ \E t \in Started :
          trackJson' = [trackJson EXCEPT ![TrackDir(tracks[t])] = TrackManifest(t)]
SessionWritten ==
  \/ sessionJson' = sessionJson
  \/ UNCHANGED database /\ sessionJson' = SessionManifest

\* Only writeTrackManifest, writeSessionManifest and the rebuild write manifests.
LEMMA WritesStep == ASSUME TypeOK, HandlerShape, [Next]_vars PROVE TracksWritten /\ SessionWritten
<1>1. CASE WriteTrackManifest
  <2>1. op.track \in Started
    BY <1>1 DEF WriteTrackManifest, Continue, TypeOK, HandlerShape
  <2> QED BY <1>1, <2>1 DEF WriteTrackManifest, TracksWritten, SessionWritten, database
<1>2. CASE WriteSessionManifest
  BY <1>2 DEF WriteSessionManifest, TracksWritten, SessionWritten, database
<1>3. ASSUME NEW t \in TrackIds, RebuildTrack(t) PROVE TracksWritten /\ SessionWritten
  <2>1. t \in Started BY <1>3 DEF RebuildTrack, TypeOK
  <2> QED BY <1>3, <2>1 DEF RebuildTrack, TracksWritten, SessionWritten, database
<1>4. CASE RebuildSession
  BY <1>4 DEF RebuildSession, TracksWritten, SessionWritten, database
<1>5. UNCHANGED <<trackJson, sessionJson>> => TracksWritten /\ SessionWritten
  BY DEF TracksWritten, SessionWritten
<1>6. CASE HostRequest
  BY <1>5, <1>6 DEF HostRequest, StartRecording, StopRecording, artifacts
<1>7. ASSUME NEW t \in TrackIds, TrackRequest(t) PROVE UNCHANGED <<trackJson, sessionJson>>
  <2>1. ASSUME NEW seat \in Seats, NEW epoch \in Epochs, NEW source \in Sources,
               NEW slot \in Slots, StartTrack(seat, t, epoch, source, slot)
        PROVE  UNCHANGED <<trackJson, sessionJson>>
    BY <2>1 DEF StartTrack, artifacts
  <2>2. ASSUME NEW seat \in Seats, NEW i \in Indices, NEW content \in Contents,
               UploadChunk(seat, t, i, content) \/ UploadDuplicate(seat, t, i, content)
        PROVE  UNCHANGED <<trackJson, sessionJson>>
    BY <2>2 DEF UploadChunk, UploadDuplicate, artifacts
  <2>3. ASSUME NEW seat \in Seats, NEW n \in Counts, FinishTrack(seat, t, n)
        PROVE  UNCHANGED <<trackJson, sessionJson>>
    BY <2>3 DEF FinishTrack, artifacts
  <2> QED BY <1>7, <2>1, <2>2, <2>3 DEF TrackRequest
<1>8. ASSUME \/ InsertChunk \/ InsertChunkFails \/ MaybeCompleteTrack
             \/ MaybeAdvanceSessionToStopped \/ Reply \/ Fail
      PROVE  UNCHANGED <<trackJson, sessionJson>>
  BY <1>8 DEF InsertChunk, InsertChunkFails, MaybeCompleteTrack, MaybeAdvanceSessionToStopped,
              Reply, Fail, artifacts
<1>9. ASSUME \/ Crash \/ OpenStore \/ FinishRebuild \/ UNCHANGED vars
             \/ \E d \in Dirs, i \in Indices : PruneStaleFile(d, i)
      PROVE  UNCHANGED <<trackJson, sessionJson>>
  BY <1>9 DEF Crash, OpenStore, FinishRebuild, PruneStaleFile, artifacts, vars
<1> QED
  BY <1>1, <1>2, <1>3, <1>4, <1>5, <1>6, <1>7, <1>8, <1>9 DEF Next, HandlerStep, Rebuild

-----------------------------------------------------------------------------
(***************************************************************************)
(* The manifests stay true.                                                *)
(***************************************************************************)

\* A freshly bootstrapped artifact root holds no manifest.
LEMMA ManifestInit == Init => ManifestInv
<1> SUFFICES ASSUME Init PROVE ManifestInv OBVIOUS
<1>1. Started = {} BY DEF Init, Started
<1>2. sessionJson = SessionManifest BY <1>1 DEF Init, SessionManifest
<1> QED
  BY <1>1, <1>2 DEF Init, ManifestInv, PublishedTracks, PublishedSession, HandlerPublished,
     RebuildPublished, OwedPublished, Idle

\* A track.json that is left alone stays true, because the database only grows and
\* does not change a complete track.
LEMMA TruthfulStays ==
  ASSUME NEW manifest, NEW t, NEW d, Truthful(manifest, t, d), SealedRows, DatabaseGrows
  PROVE  Truthful(manifest, t, d)'
<1>1. t \in Started /\ t \in TrackIds BY DEF Truthful, Started
<1>2. t \in Started' /\ TrackDir(tracks[t])' = d BY <1>1 DEF Truthful, DatabaseGrows
<1>3. \A i \in Indices : manifest.listed[i] \in {None, chunks'[t][i]}
  BY <1>1 DEF Truthful, DatabaseGrows
<1>4. ASSUME manifest.status = "complete"
      PROVE  tracks'[t].state = "complete" /\ manifest = TrackManifest(t)'
  <2>1. tracks[t].state = "complete" /\ manifest = TrackManifest(t) BY <1>4 DEF Truthful
  <2>2. tracks'[t] = tracks[t] /\ chunks'[t] = chunks[t] BY <1>1, <2>1 DEF SealedRows
  <2>3. TrackManifest(t)' = TrackManifest(t) BY <1>1, <2>2, SameTrackManifest
  <2> QED BY <2>1, <2>2, <2>3
<1> QED BY <1>2, <1>3, <1>4 DEF Truthful

\* A new one is true because it is made of the database.
LEMMA WrittenIsTruthful ==
  ASSUME NEW t \in Started PROVE Truthful(TrackManifest(t), t, TrackDir(tracks[t]))
<1>1. t \in TrackIds BY DEF Started
<1>2. \A i \in Indices : TrackManifest(t).listed[i] = chunks[t][i] BY DEF TrackManifest
<1> QED BY <1>1, <1>2, CompleteManifest DEF Truthful

LEMMA PublishedTracksStep ==
  ASSUME TypeOK, PublishedTracks, SealedRows, DatabaseGrows, TracksWritten
  PROVE  PublishedTracks'
<1> SUFFICES ASSUME NEW d \in Dirs, trackJson'[d] # None,
                    NEW manifest, manifest = trackJson'[d], NEW t, t = manifest.track
             PROVE  Truthful(manifest, t, d)'
  BY DEF PublishedTracks
<1>1. Truthful(manifest, t, d)
  <2>1. CASE trackJson'[d] = trackJson[d] BY <2>1 DEF PublishedTracks
  <2>2. CASE trackJson'[d] # trackJson[d]
    <3>1. PICK u \in Started :
            trackJson' = [trackJson EXCEPT ![TrackDir(tracks[u])] = TrackManifest(u)]
      BY <2>2 DEF TracksWritten
    <3>2. trackJson'[d] = TrackManifest(u) /\ TrackDir(tracks[u]) = d
      BY <2>2, <3>1 DEF TypeOK
    <3>3. t = u BY <3>2 DEF TrackManifest
    <3> QED BY <3>2, <3>3, WrittenIsTruthful
  <2> QED BY <2>1, <2>2
<1> QED BY <1>1, TruthfulStays

\* The same for session.json.
LEMMA PublishedSessionStep ==
  ASSUME StoreInv, StoreInv', PublishedSession, SealedRows, DatabaseGrows, SessionWritten
  PROVE  PublishedSession'
<1> SUFFICES ASSUME sessionJson' # None
             PROVE  /\ snapshot'.epoch # None \/ Started' # {}
                    /\ Rank(sessionJson'.phase) <= Rank(snapshot'.phase)
                    /\ sessionJson'.phase = "stopped" => sessionJson' = SessionManifest'
  BY DEF PublishedSession
<1>t. TypeOK /\ TypeOK' BY DEF StoreInv, Shape
<1>p. snapshot.phase \in Phases /\ snapshot'.phase \in Phases BY <1>t DEF TypeOK
<1>1. CASE sessionJson' = sessionJson
  <2>1. /\ snapshot.epoch # None \/ Started # {}
        /\ Rank(sessionJson.phase) <= Rank(snapshot.phase)
        /\ sessionJson.phase = "stopped" => sessionJson = SessionManifest
    BY <1>1 DEF PublishedSession
  <2>2. snapshot'.epoch # None \/ Started' # {} BY <2>1 DEF DatabaseGrows
  <2>3. sessionJson.phase \in Phases BY <1>1, <1>t DEF TypeOK, SessionJson
  <2>4. Rank(sessionJson.phase) <= Rank(snapshot'.phase)
    <3>1. /\ Rank(sessionJson.phase) \in 1 .. 4 /\ Rank(snapshot.phase) \in 1 .. 4
          /\ Rank(snapshot'.phase) \in 1 .. 4
      BY <2>3, <1>p, StoppedIsLast
    <3> QED BY <2>1, <3>1 DEF DatabaseGrows
  <2>5. ASSUME sessionJson.phase = "stopped" PROVE sessionJson = SessionManifest'
    <3>1. 4 <= Rank(snapshot.phase) BY <2>1, <2>5, RankValues
    <3>2. snapshot.phase = "stopped" BY <3>1, <1>p, StoppedIsLast
    <3>3. SessionManifest' = SessionManifest BY <3>2, SameDatabase DEF SealedRows
    <3> QED BY <2>1, <2>5, <3>3
  <2> QED BY <1>1, <2>2, <2>4, <2>5
<1>2. CASE sessionJson' # sessionJson
  <2>1. UNCHANGED database /\ sessionJson' = SessionManifest BY <1>2 DEF SessionWritten
  <2>2. SessionManifest # None BY <2>1
  <2>3. (snapshot.epoch # None \/ Started # {}) /\ SessionManifest.phase = snapshot.phase
    BY <2>2 DEF SessionManifest
  <2>4. Started' = Started /\ SessionManifest' = SessionManifest BY <2>1, SameDatabase
  <2>5. snapshot' = snapshot BY <2>1 DEF database
  <2>6. Rank(snapshot.phase) <= Rank(snapshot.phase) BY <1>p, StoppedIsLast
  <2> QED BY <2>1, <2>3, <2>4, <2>5, <2>6
<1> QED BY <1>1, <1>2

\* What a step that writes no manifest and changes no row leaves current.
LEMMA CurrentStays ==
  ASSUME NEW t \in TrackIds, Current(t), UNCHANGED <<database, trackJson>>
  PROVE  Current(t)'
BY SameDatabase DEF Current

\* A handler that has started and not yet ended belongs to a process that is up.
LEMMA HandlingIsUp ==
  ASSUME TypeOK, op.step # "idle"
  PROVE  server = "up"
BY DEF TypeOK, Idle

\* The write that makes a manifest current spares those of the other tracks.
LEMMA CurrentWritten ==
  ASSUME TypeOK, SegmentsDiffer, NEW t \in Started, UNCHANGED database,
         trackJson' = [trackJson EXCEPT ![TrackDir(tracks[t])] = TrackManifest(t)]
  PROVE  Current(t)' /\ \A u \in Started : Current(u) => Current(u)'
<1>1. \A u \in Started : /\ u \in TrackIds /\ TrackDir(tracks[u]) \in Dirs
                         /\ TrackDir(tracks[u])' = TrackDir(tracks[u])
                         /\ TrackManifest(u)' = TrackManifest(u)
  BY DirOfTrack, SameDatabase DEF Started, TrackDir
<1>2. Current(t)' BY <1>1 DEF Current, TypeOK
<1>3. ASSUME NEW u \in Started, Current(u), u # t PROVE Current(u)'
  <2>1. TrackDir(tracks[u]) # TrackDir(tracks[t]) BY <1>3, DirsDiffer
  <2>2. trackJson'[TrackDir(tracks[u])] = trackJson[TrackDir(tracks[u])] BY <1>1, <2>1 DEF TypeOK
  <2> QED BY <1>1, <1>3, <2>2 DEF Current
<1> QED BY <1>2, <1>3

\* A handler writes track.json, then session.json, then answers, and changes no row
\* once it has begun to write.
LEMMA HandlerPublishedStep ==
  ASSUME StoreInv, HandlerPublished, [Next]_vars
  PROVE  HandlerPublished'
<1>t. TypeOK /\ HandlerShape /\ SegmentsDiffer BY DEF StoreInv, Shape
<1>i. ASSUME op'.step \notin {"sessionManifest", "reply"} PROVE HandlerPublished'
  BY <1>i DEF HandlerPublished
<1>k. ASSUME UNCHANGED <<database, trackJson, sessionJson, op>> PROVE HandlerPublished'
  <2>1. op.track # None => op.track \in TrackIds BY <1>t DEF TypeOK, Started
  <2> QED BY <1>k, <2>1, CurrentStays, SameDatabase DEF HandlerPublished
<1>u. CASE UNCHANGED vars BY <1>u, <1>k DEF vars, database
<1>1. ASSUME NEW seat \in Seats, NEW epoch \in Epochs, StartRecording(seat, epoch)
      PROVE  HandlerPublished'
  BY <1>1 DEF StartRecording, Handler, HandlerPublished
<1>2. ASSUME NEW seat \in Seats, StopRecording(seat) PROVE HandlerPublished'
  BY <1>2 DEF StopRecording, Handler, HandlerPublished
<1>3. ASSUME NEW t \in TrackIds, TrackRequest(t) PROVE HandlerPublished'
  <2>1. ASSUME NEW seat \in Seats, NEW epoch \in Epochs, NEW source \in Sources,
               NEW slot \in Slots, StartTrack(seat, t, epoch, source, slot)
        PROVE  HandlerPublished'
    BY <1>i, <2>1 DEF StartTrack, Handler
  <2>2. ASSUME NEW seat \in Seats, NEW i \in Indices, NEW content \in Contents,
               UploadChunk(seat, t, i, content)
        PROVE  HandlerPublished'
    BY <1>i, <2>2 DEF UploadChunk
  <2>3. ASSUME NEW seat \in Seats, NEW i \in Indices, NEW content \in Contents,
               UploadDuplicate(seat, t, i, content)
        PROVE  HandlerPublished'
    BY <1>i, <2>3 DEF UploadDuplicate, MutexFree, Idle
  <2>4. ASSUME NEW seat \in Seats, NEW n \in Counts, FinishTrack(seat, t, n)
        PROVE  HandlerPublished'
    BY <1>i, <2>4 DEF FinishTrack, Handler
  <2> QED BY <1>3, <2>1, <2>2, <2>3, <2>4 DEF TrackRequest
<1>4. CASE InsertChunk BY <1>i, <1>4, <1>t DEF InsertChunk, Continue, TypeOK, HandlerStates
<1>5. CASE MaybeCompleteTrack
  BY <1>i, <1>5, <1>t DEF MaybeCompleteTrack, Continue, TypeOK, HandlerStates
<1>6. CASE MaybeAdvanceSessionToStopped
  <2>1. /\ op'.track = op.track
        /\ op'.step = IF op.track = None THEN "sessionManifest" ELSE "trackManifest"
    BY <1>6, <1>t DEF MaybeAdvanceSessionToStopped, Continue, TypeOK, HandlerStates
  <2> QED BY <2>1 DEF HandlerPublished
<1>7. CASE WriteTrackManifest
  <2>1. op.track \in Started /\ op'.track = op.track /\ op'.step = "sessionManifest"
    BY <1>7, <1>t DEF WriteTrackManifest, Continue, TypeOK, HandlerShape, HandlerStates
  <2>2. PICK t \in Started : t = op.track BY <2>1
  <2>3. Current(t)'
    BY <1>7, <1>t, <2>2, CurrentWritten DEF WriteTrackManifest
  <2> QED BY <2>1, <2>2, <2>3 DEF HandlerPublished
<1>8. CASE WriteSessionManifest
  <2>1. /\ op.step = "sessionManifest" /\ op'.track = op.track /\ op'.step = "reply"
        /\ UNCHANGED <<database, trackJson>> /\ sessionJson' = SessionManifest
    BY <1>8, <1>t DEF WriteSessionManifest, Continue, TypeOK, HandlerStates
  <2>2. SessionManifest' = SessionManifest BY <2>1, SameDatabase
  <2>3. ASSUME op.track # None PROVE Current(op.track)'
    <3>1. PICK t \in TrackIds : t = op.track BY <1>t, <2>3 DEF TypeOK, Started
    <3>2. Current(t) BY <2>1, <2>3, <3>1 DEF HandlerPublished
    <3>3. Current(t)' BY <2>1, <3>2, CurrentStays
    <3> QED BY <2>1, <3>1, <3>3 DEF Current
  <2> QED BY <2>1, <2>2, <2>3 DEF HandlerPublished
<1>9. CASE InsertChunkFails \/ Reply \/ Fail \/ Crash
  BY <1>i, <1>9 DEF InsertChunkFails, Reply, Fail, Crash, Idle
<1>10. CASE Rebuild
  <2>1. server # "up" /\ op' = op
    BY <1>10 DEF Rebuild, OpenStore, RebuildTrack, RebuildSession, PruneStaleFile, FinishRebuild
  <2>2. op'.step = "idle" BY <1>t, <2>1, HandlingIsUp
  <2> QED BY <1>i, <2>2
<1> QED
  BY <1>u, <1>1, <1>2, <1>3, <1>4, <1>5, <1>6, <1>7, <1>8, <1>9, <1>10
  DEF Next, HostRequest, HandlerStep

\* The rebuild writes a track.json for every row, then session.json, and no request
\* changes the database before it has finished.
LEMMA RebuildPublishedStep ==
  ASSUME StoreInv, RebuildPublished, [Next]_vars
  PROVE  RebuildPublished'
<1>t. TypeOK /\ HandlerShape /\ SegmentsDiffer BY DEF StoreInv, Shape
<1>i. ASSUME server' \in {"up", "down"} PROVE RebuildPublished'
  BY <1>i DEF RebuildPublished
<1>k. ASSUME UNCHANGED <<database, trackJson, sessionJson, server, pending>>
      PROVE  RebuildPublished'
  <2>1. Started' = Started /\ SessionManifest' = SessionManifest BY <1>k, SameDatabase
  <2>2. \A t \in Started : Current(t) => Current(t)' BY <1>k, CurrentStays DEF Started
  <2> QED BY <1>k, <2>1, <2>2 DEF RebuildPublished
<1>u. CASE UNCHANGED vars BY <1>u, <1>k DEF vars, database
<1>1. CASE HostRequest
  BY <1>i, <1>1 DEF HostRequest, StartRecording, StopRecording, MutexFree
<1>2. ASSUME NEW t \in TrackIds, TrackRequest(t) PROVE RebuildPublished'
  <2>1. server' = "up"
    BY <1>2 DEF TrackRequest, StartTrack, UploadChunk, UploadDuplicate, FinishTrack, MutexFree
  <2> QED BY <1>i, <2>1
<1>3. CASE HandlerStep \/ InsertChunkFails \/ Fail
  <2>1. op.step # "idle" /\ server' = server
    BY <1>3 DEF HandlerStep, InsertChunk, MaybeCompleteTrack, MaybeAdvanceSessionToStopped,
                WriteTrackManifest, WriteSessionManifest, Reply, InsertChunkFails, Fail, Continue
  <2> QED BY <1>i, <1>t, <2>1, HandlingIsUp
<1>4. CASE Crash BY <1>i, <1>4 DEF Crash
<1>5. CASE OpenStore
  <2>1. server' = "rebuild" /\ pending' = Started' BY <1>5, SameDatabase DEF OpenStore
  <2> QED BY <2>1 DEF RebuildPublished
<1>6. ASSUME NEW t \in TrackIds, RebuildTrack(t) PROVE RebuildPublished'
  <2>1. /\ t \in Started /\ server = "rebuild" /\ server' = "rebuild"
        /\ pending' = pending \ {t} /\ UNCHANGED database
        /\ trackJson' = [trackJson EXCEPT ![TrackDir(tracks[t])] = TrackManifest(t)]
    BY <1>6, <1>t DEF RebuildTrack, TypeOK
  <2>2. Current(t)' /\ \A u \in Started : Current(u) => Current(u)'
    BY <1>t, <2>1, CurrentWritten
  <2>3. Started' = Started BY <2>1, SameDatabase
  <2> QED BY <2>1, <2>2, <2>3 DEF RebuildPublished
<1>7. CASE RebuildSession
  <2>1. /\ server = "rebuild" /\ pending = {} /\ pending' = {}
        /\ UNCHANGED <<database, trackJson>> /\ sessionJson' = SessionManifest
    BY <1>7 DEF RebuildSession
  <2>2. Started' = Started /\ SessionManifest' = SessionManifest BY <2>1, SameDatabase
  <2>3. \A t \in Started : Current(t)' BY <2>1, CurrentStays DEF RebuildPublished, Started
  <2> QED BY <2>1, <2>2, <2>3 DEF RebuildPublished
<1>8. ASSUME NEW d \in Dirs, NEW i \in Indices, PruneStaleFile(d, i) PROVE RebuildPublished'
  BY <1>k, <1>8 DEF PruneStaleFile
<1>9. CASE FinishRebuild BY <1>i, <1>9 DEF FinishRebuild
<1> QED
  BY <1>u, <1>1, <1>2, <1>3, <1>4, <1>5, <1>6, <1>7, <1>8, <1>9 DEF Next, Rebuild

\* What a step that writes no manifest leaves current: all but the tracks it changes,
\* if it is then the handler's to write those and session.json.
LEMMA OwedStays ==
  ASSUME OwedPublished, trackJson' = trackJson,
         owed \cup Unwritten \subseteq (owed \cup Unwritten)',
         \A t \in TrackIds \ (owed \cup Unwritten)' :
           tracks'[t] = tracks[t] /\ chunks'[t] = chunks[t],
         None \in (owed \cup Unwritten)' \/ UNCHANGED <<database, sessionJson>>
  PROVE  OwedPublished'
<1>1. ASSUME NEW t \in (Started \ (owed \cup Unwritten))' PROVE Current(t)'
  <2>1. t \in TrackIds /\ tracks'[t] = tracks[t] /\ chunks'[t] = chunks[t]
    BY <1>1 DEF Started
  <2>2. t \in Started \ (owed \cup Unwritten) BY <1>1, <2>1 DEF Started
  <2>3. Current(t) BY <2>2 DEF OwedPublished
  <2> QED BY <2>1, <2>3, SameTrackManifest DEF Current
<1>2. ASSUME None \notin (owed \cup Unwritten)' PROVE sessionJson' = SessionManifest'
  <2>1. UNCHANGED <<database, sessionJson>> /\ None \notin owed \cup Unwritten BY <1>2
  <2> QED BY <2>1, SameDatabase DEF OwedPublished
<1> QED BY <1>1, <1>2 DEF OwedPublished

\* A handler that ends before it has written what it owes leaves it to others, and a
\* write pays for the manifest it makes current and for no other.
LEMMA OwedPublishedStep ==
  ASSUME StoreInv, OwedPublished, [Next]_vars
  PROVE  OwedPublished'
<1>t. TypeOK /\ HandlerShape /\ SegmentsDiffer BY DEF StoreInv, Shape
<1>i. op.step = "idle" => Unwritten = {} BY DEF Unwritten
<1>m. MutexFree => Unwritten = {} BY <1>i DEF MutexFree, Idle
<1>k. ASSUME UNCHANGED <<database, trackJson, sessionJson>>,
             owed \cup Unwritten \subseteq (owed \cup Unwritten)'
      PROVE  OwedPublished'
  BY <1>k, OwedStays DEF database
<1>u. CASE UNCHANGED vars BY <1>u, <1>k DEF vars, database, Unwritten
<1>1. ASSUME NEW seat \in Seats, NEW epoch \in Epochs, StartRecording(seat, epoch)
      PROVE  OwedPublished'
  <2>1. Unwritten' = {None} BY <1>1 DEF StartRecording, Handler, Unwritten
  <2> QED BY <1>1, <1>m, <2>1, OwedStays DEF StartRecording, artifacts
<1>2. ASSUME NEW seat \in Seats, StopRecording(seat) PROVE OwedPublished'
  <2>1. Unwritten' = {None} BY <1>2 DEF StopRecording, Handler, Unwritten
  <2> QED BY <1>2, <1>m, <2>1, OwedStays DEF StopRecording, artifacts
<1>3. ASSUME NEW t \in TrackIds, TrackRequest(t) PROVE OwedPublished'
  <2>1. ASSUME NEW seat \in Seats, NEW epoch \in Epochs, NEW source \in Sources,
               NEW slot \in Slots, StartTrack(seat, t, epoch, source, slot)
        PROVE  OwedPublished'
    <3>1. Unwritten' = {t, None} BY <2>1 DEF StartTrack, Handler, Unwritten
    <3>2. \A u \in TrackIds : u # t => tracks'[u] = tracks[u] /\ chunks'[u] = chunks[u]
      BY <2>1, <1>t DEF StartTrack, TypeOK
    <3> QED BY <2>1, <1>m, <3>1, <3>2, OwedStays DEF StartTrack, artifacts
  <2>2. ASSUME NEW seat \in Seats, NEW i \in Indices, NEW content \in Contents,
               UploadChunk(seat, t, i, content)
        PROVE  OwedPublished'
    BY <1>k, <1>m, <2>2 DEF UploadChunk
  <2>3. ASSUME NEW seat \in Seats, NEW i \in Indices, NEW content \in Contents,
               UploadDuplicate(seat, t, i, content)
        PROVE  OwedPublished'
    BY <1>k, <1>m, <2>3 DEF UploadDuplicate, artifacts
  <2>4. ASSUME NEW seat \in Seats, NEW n \in Counts, FinishTrack(seat, t, n)
        PROVE  OwedPublished'
    <3>1. Unwritten' = {t, None} BY <2>4 DEF FinishTrack, Handler, Unwritten
    <3>2. \A u \in TrackIds : u # t => tracks'[u] = tracks[u] /\ chunks'[u] = chunks[u]
      BY <2>4, <1>t DEF FinishTrack, TypeOK
    <3> QED BY <2>4, <1>m, <3>1, <3>2, OwedStays DEF FinishTrack, artifacts
  <2> QED BY <1>3, <2>1, <2>2, <2>3, <2>4 DEF TrackRequest
<1>4. CASE InsertChunk
  <2>1. op' = [op EXCEPT !.step = "complete"] /\ op.step = "insert"
    BY <1>4 DEF InsertChunk, Continue
  <2>2. Unwritten = {} /\ Unwritten' = {op.track, None}
    BY <2>1, <1>t DEF Unwritten, TypeOK, HandlerStates
  <2>3. \A u \in TrackIds : u # op.track => tracks'[u] = tracks[u] /\ chunks'[u] = chunks[u]
    BY <1>4, <1>t DEF InsertChunk, TypeOK
  <2> QED BY <1>4, <2>2, <2>3, OwedStays DEF InsertChunk, artifacts
<1>5. CASE MaybeCompleteTrack
  <2>1. op' = [op EXCEPT !.step = "advance"] /\ op.step = "complete"
    BY <1>5 DEF MaybeCompleteTrack, Continue
  <2>2. Unwritten = {op.track, None} /\ Unwritten' = {op.track, None}
    BY <2>1, <1>t DEF Unwritten, TypeOK, HandlerStates
  <2>3. \A u \in TrackIds : u # op.track => tracks'[u] = tracks[u] /\ chunks'[u] = chunks[u]
    BY <1>5, <1>t DEF MaybeCompleteTrack, TypeOK
  <2> QED BY <1>5, <2>2, <2>3, OwedStays DEF MaybeCompleteTrack, artifacts
<1>6. CASE MaybeAdvanceSessionToStopped
  <2>1. /\ op.step = "advance" /\ op'.track = op.track
        /\ op'.step = IF op.track = None THEN "sessionManifest" ELSE "trackManifest"
    BY <1>6, <1>t DEF MaybeAdvanceSessionToStopped, Continue, TypeOK, HandlerStates
  <2>2. Unwritten = {op.track, None} /\ Unwritten' = {op.track, None}
    BY <2>1 DEF Unwritten
  <2> QED BY <1>6, <2>2, OwedStays DEF MaybeAdvanceSessionToStopped, artifacts
<1>7. CASE WriteTrackManifest
  <2>1. /\ op.track \in Started /\ op.step = "trackManifest"
        /\ op'.track = op.track /\ op'.step = "sessionManifest"
    BY <1>7, <1>t DEF WriteTrackManifest, Continue, TypeOK, HandlerShape, HandlerStates
  <2>2. Unwritten = {op.track, None} /\ Unwritten' = {None} BY <2>1 DEF Unwritten
  <2>3. PICK t \in Started : t = op.track BY <2>1
  <2>4. UNCHANGED database /\ Started' = Started
    BY <1>7, SameDatabase DEF WriteTrackManifest
  <2>5. Current(t)' /\ \A u \in Started : Current(u) => Current(u)'
    BY <1>7, <1>t, <2>3, CurrentWritten DEF WriteTrackManifest
  <2>6. \A u \in Started : u # None BY NoneIsNoValue DEF Started
  <2>7. owed' = owed \ {t} BY <1>7, <2>3 DEF WriteTrackManifest
  <2> QED BY <2>2, <2>3, <2>4, <2>5, <2>6, <2>7 DEF OwedPublished
<1>8. CASE WriteSessionManifest
  <2>1. /\ op.step = "sessionManifest" /\ op'.step = "reply" /\ owed' = owed \ {None}
        /\ UNCHANGED <<database, trackJson>> /\ sessionJson' = SessionManifest
    BY <1>8, <1>t DEF WriteSessionManifest, Continue, TypeOK, HandlerStates
  <2>2. Unwritten = {None} /\ Unwritten' = {} BY <2>1 DEF Unwritten
  <2>3. Started' = Started /\ SessionManifest' = SessionManifest BY <2>1, SameDatabase
  <2>4. \A u \in Started : u # None /\ (Current(u) => Current(u)')
    BY <2>1, CurrentStays, NoneIsNoValue DEF Started
  <2> QED BY <2>1, <2>2, <2>3, <2>4 DEF OwedPublished
<1>9. CASE Reply
  <2>1. Unwritten = {} BY <1>9 DEF Reply, Unwritten
  <2> QED BY <1>9, <1>k, <2>1 DEF Reply, artifacts
<1>10. CASE InsertChunkFails
  <2>1. Unwritten = {} BY <1>10 DEF InsertChunkFails, Unwritten
  <2> QED BY <1>10, <1>k, <2>1 DEF InsertChunkFails
<1>11. CASE Fail \/ Crash BY <1>11, <1>k DEF Fail, Crash, artifacts
<1>12. ASSUME NEW t \in TrackIds, RebuildTrack(t) PROVE OwedPublished'
  <2>1. /\ t \in Started /\ UNCHANGED <<database, sessionJson, op>> /\ owed' = owed \ {t}
        /\ trackJson' = [trackJson EXCEPT ![TrackDir(tracks[t])] = TrackManifest(t)]
    BY <1>12, <1>t DEF RebuildTrack, TypeOK
  <2>2. Current(t)' /\ \A u \in Started : Current(u) => Current(u)'
    BY <1>t, <2>1, CurrentWritten
  <2>3. Started' = Started /\ SessionManifest' = SessionManifest BY <2>1, SameDatabase
  <2>4. Unwritten' = Unwritten /\ t # None BY <2>1, NoneIsNoValue DEF Unwritten
  <2> QED BY <2>1, <2>2, <2>3, <2>4 DEF OwedPublished
<1>13. CASE RebuildSession
  <2>1. /\ UNCHANGED <<database, trackJson, op>> /\ owed' = owed \ {None}
        /\ sessionJson' = SessionManifest
    BY <1>13 DEF RebuildSession
  <2>2. Started' = Started /\ SessionManifest' = SessionManifest /\ Unwritten' = Unwritten
    BY <2>1, SameDatabase DEF Unwritten
  <2>3. \A u \in Started : u # None /\ (Current(u) => Current(u)')
    BY <2>1, CurrentStays, NoneIsNoValue DEF Started
  <2> QED BY <2>1, <2>2, <2>3 DEF OwedPublished
<1>14. CASE OpenStore \/ FinishRebuild
  BY <1>14, <1>k DEF OpenStore, FinishRebuild, artifacts, Unwritten
<1>15. ASSUME NEW d \in Dirs, NEW i \in Indices, PruneStaleFile(d, i) PROVE OwedPublished'
  BY <1>15, <1>k DEF PruneStaleFile, Unwritten
<1> QED
  BY <1>u, <1>1, <1>2, <1>3, <1>4, <1>5, <1>6, <1>7, <1>8, <1>9, <1>10, <1>11, <1>12,
     <1>13, <1>14, <1>15
  DEF Next, HostRequest, HandlerStep, Rebuild

LEMMA ManifestStep == StoreInv /\ StoreInv' /\ ManifestInv /\ [Next]_vars => ManifestInv'
<1> SUFFICES ASSUME StoreInv, StoreInv', ManifestInv, [Next]_vars PROVE ManifestInv' OBVIOUS
<1>t. TypeOK /\ HandlerShape BY DEF StoreInv, Shape
<1>1. SealedRows /\ DatabaseGrows BY SealedRowsStep, GrowsStep
<1>2. TracksWritten /\ SessionWritten BY <1>t, WritesStep
<1>3. PublishedTracks' BY <1>t, <1>1, <1>2, PublishedTracksStep DEF ManifestInv
<1>4. PublishedSession' BY <1>1, <1>2, PublishedSessionStep DEF ManifestInv
<1>5. HandlerPublished' BY HandlerPublishedStep DEF ManifestInv
<1>6. RebuildPublished' BY RebuildPublishedStep DEF ManifestInv
<1>7. OwedPublished' BY OwedPublishedStep DEF ManifestInv
<1> QED BY <1>3, <1>4, <1>5, <1>6, <1>7 DEF ManifestInv

-----------------------------------------------------------------------------
(***************************************************************************)
(* The properties of the manifests.                                        *)
(***************************************************************************)

\* The manifests agree with the database as far as their writing has come, and
\* with the chunk files through it (StoreInv).
THEOREM ManifestInvariant == Spec => [](StoreInv /\ ManifestInv)
BY ManifestInit, ManifestStep, StoreInvariant, PTL DEF Spec

\* No track.json lists a chunk that is not on disk, or says complete of a track with
\* a gap (ManifestsNeverOverclaim).
THEOREM ManifestsAreHonest == Spec => []ManifestsNeverOverclaim
<1>1. StoreInv /\ ManifestInv => ManifestsNeverOverclaim
  <2> SUFFICES ASSUME StoreInv, ManifestInv, NEW t \in Started,
                      NEW dir, dir = TrackDir(tracks[t]),
                      NEW manifest, manifest = trackJson[dir], manifest # None
               PROVE  /\ manifest.track = t
                      /\ \A i \in Indices : manifest.listed[i] \in {None, files[dir][i]}
                      /\ manifest.status = "complete" =>
                           /\ tracks[t].expected # None
                           /\ \A i \in Indices :
                                i < tracks[t].expected <=> manifest.listed[i] # None
    BY DEF ManifestsNeverOverclaim
  <2>t. TypeOK /\ SegmentsDiffer BY DEF StoreInv, Shape
  <2>1. dir \in Dirs BY <2>t, DirOfTrack
  <2>2. Truthful(manifest, manifest.track, dir) BY <2>1 DEF ManifestInv, PublishedTracks
  <2>3. manifest.track = t BY <2>2, <2>t, DirsDiffer DEF Truthful
  <2>4. ASSUME NEW i \in Indices PROVE manifest.listed[i] \in {None, files[dir][i]}
    <3>1. manifest.listed[i] \in {None, chunks[t][i]} BY <2>2, <2>3 DEF Truthful
    <3>2. chunks[t][i] # None => files[dir][i] = chunks[t][i]
      BY DEF StoreInv, RowsHaveFiles, Stored
    <3> QED BY <3>1, <3>2
  <2>5. ASSUME manifest.status = "complete"
        PROVE  /\ tracks[t].expected # None
               /\ \A i \in Indices : i < tracks[t].expected <=> manifest.listed[i] # None
    <3>1. tracks[t].state = "complete" /\ manifest = TrackManifest(t)
      BY <2>2, <2>3, <2>5 DEF Truthful
    <3>2. tracks[t].expected # None /\ Stored(t) = {i \in Indices : i < tracks[t].expected}
      BY <3>1 DEF StoreInv, CompleteIsGapFree
    <3>3. \A i \in Indices : manifest.listed[i] = chunks[t][i] BY <3>1 DEF TrackManifest
    <3>4. \A i \in Indices : i < tracks[t].expected <=> chunks[t][i] # None
      BY <3>2 DEF Stored
    <3> QED BY <3>2, <3>3, <3>4
  <2> QED BY <2>3, <2>4, <2>5
<1> QED BY <1>1, ManifestInvariant, PTL

\* A success answer finds the manifests current: those the handler wrote for it, and
\* for an answer that repeats an earlier one, which writes none, those that no handler
\* which ended early still owes (AnswersArePublished).
THEOREM AnswersAreAlwaysPublished == Spec => []AnswersArePublished
<1>1. ManifestInv => AnswersArePublished
  <2>1. MutexFree => Unwritten = {} BY DEF MutexFree, Idle, Unwritten
  <2> QED
    BY <2>1 DEF ManifestInv, HandlerPublished, OwedPublished, AnswersArePublished, Current
<1> QED BY <1>1, ManifestInvariant, PTL

\* A session.json that says stopped agrees with the database (StoppedManifestIsFinal).
THEOREM StoppedManifestStaysFinal == Spec => []StoppedManifestIsFinal
<1>1. ManifestInv => StoppedManifestIsFinal
  BY DEF ManifestInv, PublishedSession, StoppedManifestIsFinal
<1> QED BY <1>1, ManifestInvariant, PTL

\* No step takes back a manifest, a chunk it lists, a complete status or a phase
\* (PublishedOnlyGrows).
THEOREM PublishedNeverShrinks == Spec => PublishedOnlyGrows
<1> DEFINE Grown ==
  /\ \A d \in Dirs : trackJson[d] # None =>
       /\ trackJson'[d] # None
       /\ trackJson'[d].track = trackJson[d].track
       /\ \A i \in Indices : trackJson[d].listed[i] \in {None, trackJson'[d].listed[i]}
       /\ trackJson[d].status = "complete" => trackJson'[d] = trackJson[d]
  /\ sessionJson # None =>
       /\ sessionJson' # None
       /\ Rank(sessionJson.phase) <= Rank(sessionJson'.phase)
<1>1. ASSUME StoreInv, ManifestInv, [Next]_vars PROVE Grown
  <2>t. TypeOK /\ HandlerShape /\ SegmentsDiffer BY <1>1 DEF StoreInv, Shape
  <2>w. TracksWritten /\ SessionWritten BY <1>1, <2>t, WritesStep
  <2>1. ASSUME NEW d \in Dirs, trackJson[d] # None, trackJson'[d] # trackJson[d]
        PROVE  /\ trackJson'[d] # None
               /\ trackJson'[d].track = trackJson[d].track
               /\ \A i \in Indices : trackJson[d].listed[i] \in {None, trackJson'[d].listed[i]}
               /\ trackJson[d].status = "complete" => trackJson'[d] = trackJson[d]
    <3>1. PICK t \in Started :
            trackJson' = [trackJson EXCEPT ![TrackDir(tracks[t])] = TrackManifest(t)]
      BY <2>1, <2>w DEF TracksWritten
    <3>2. trackJson'[d] = TrackManifest(t) /\ TrackDir(tracks[t]) = d
      BY <2>t, <2>1, <3>1 DEF TypeOK
    <3>3. Truthful(trackJson[d], trackJson[d].track, d)
      BY <1>1, <2>1 DEF ManifestInv, PublishedTracks
    <3>4. trackJson[d].track = t BY <2>t, <3>2, <3>3, DirsDiffer DEF Truthful
    <3>5. TrackManifest(t) # None /\ TrackManifest(t).track = t
      BY <2>t, TrackManifestTyped, NoneIsNoManifest DEF Started, TrackManifest
    <3>6. \A i \in Indices : TrackManifest(t).listed[i] = chunks[t][i] BY DEF TrackManifest
    <3> QED BY <3>2, <3>3, <3>4, <3>5, <3>6 DEF Truthful
  <2>2. ASSUME sessionJson # None
        PROVE  sessionJson' # None /\ Rank(sessionJson.phase) <= Rank(sessionJson'.phase)
    <3>1. /\ snapshot.epoch # None \/ Started # {}
          /\ Rank(sessionJson.phase) <= Rank(snapshot.phase)
      BY <1>1, <2>2 DEF ManifestInv, PublishedSession
    <3>2. CASE sessionJson' = sessionJson
      <4>1. sessionJson.phase \in Phases BY <2>t, <2>2 DEF TypeOK, SessionJson
      <4> QED BY <2>2, <3>2, <4>1, StoppedIsLast
    <3>3. CASE sessionJson' = SessionManifest
      <4>1. SessionManifest # None
        BY <2>t, <3>1, SessionManifestTyped, NoneIsNoManifest
      <4>2. SessionManifest.phase = snapshot.phase BY <3>1 DEF SessionManifest
      <4> QED BY <3>1, <3>3, <4>1, <4>2
    <3> QED BY <2>w, <3>2, <3>3 DEF SessionWritten
  <2> QED BY <2>1, <2>2
<1>2. ASSUME StoreInv, ManifestInv, [Next]_vars PROVE [Grown]_vars BY <1>1, <1>2
<1> HIDE DEF Grown
<1>3. Spec => [][Grown]_vars BY <1>2, ManifestInvariant, PTL DEF Spec
<1> QED BY <1>3 DEF PublishedOnlyGrows, Grown

\* openStore returns with the artifacts of the database (RestartRepairs).
THEOREM RestartAlwaysRepairs == Spec => RestartRepairs
<1> DEFINE Repaired == server # "up" /\ server' = "up" =>
  /\ sessionJson' = SessionManifest'
  /\ \A t \in Started : trackJson'[TrackDir(tracks[t])] = TrackManifest(t)'
  /\ \A d \in Dirs, i \in Indices : files'[d][i] # None =>
       \E t \in Started : TrackDir(tracks[t]) = d /\ chunks[t][i] = files'[d][i]
<1>1. ASSUME StoreInv, ManifestInv, [Next]_vars PROVE Repaired
  <2> SUFFICES ASSUME server # "up", server' = "up"
               PROVE  /\ sessionJson' = SessionManifest'
                      /\ \A t \in Started : trackJson'[TrackDir(tracks[t])] = TrackManifest(t)'
                      /\ \A d \in Dirs, i \in Indices : files'[d][i] # None =>
                           \E t \in Started :
                             TrackDir(tracks[t]) = d /\ chunks[t][i] = files'[d][i]
    OBVIOUS
  <2>t. TypeOK BY <1>1 DEF StoreInv, Shape
  <2>1. FinishRebuild
    <3>1. ~ HostRequest BY DEF HostRequest, StartRecording, StopRecording, MutexFree
    <3>2. ASSUME NEW t \in TrackIds PROVE ~ TrackRequest(t)
      BY DEF TrackRequest, StartTrack, UploadChunk, UploadDuplicate, FinishTrack, MutexFree
    <3>3. ~ (HandlerStep \/ InsertChunkFails \/ Fail)
      <4>1. op.step = "idle" BY <2>t, HandlingIsUp
      <4> QED
        BY <4>1 DEF HandlerStep, InsertChunk, MaybeCompleteTrack, MaybeAdvanceSessionToStopped,
           WriteTrackManifest, WriteSessionManifest, Reply, InsertChunkFails, Fail, Continue
    <3>4. ~ (Crash \/ UNCHANGED vars) BY DEF Crash, vars
    <3>5. Rebuild => FinishRebuild
      BY DEF Rebuild, OpenStore, RebuildTrack, RebuildSession, PruneStaleFile
    <3> QED BY <1>1, <3>1, <3>2, <3>3, <3>4, <3>5 DEF Next
  <2>2. server = "prune" /\ UNCHANGED <<database, files, trackJson, sessionJson>>
    BY <2>1 DEF FinishRebuild, artifacts
  <2>3. (\A t \in Started : Current(t)) /\ sessionJson = SessionManifest
    BY <1>1, <2>2 DEF ManifestInv, RebuildPublished
  <2>4. SessionManifest' = SessionManifest /\ \A t \in Started : TrackManifest(t)' = TrackManifest(t)
    BY <2>2, SameDatabase DEF Started
  <2>5. ASSUME NEW d \in Dirs, NEW i \in Indices, files[d][i] # None
        PROVE  \E t \in Started : TrackDir(tracks[t]) = d /\ chunks[t][i] = files[d][i]
    <3>1. PICK t \in Started : TrackDir(tracks[t]) = d /\ chunks[t][i] # None
      BY <2>1, <2>5 DEF FinishRebuild, StaleFile, Referenced
    <3>2. files[d][i] = chunks[t][i] BY <1>1, <3>1 DEF StoreInv, RowsHaveFiles, Stored
    <3> QED BY <3>1, <3>2
  <2> QED BY <2>2, <2>3, <2>4, <2>5 DEF Current
<1>2. ASSUME StoreInv, ManifestInv, [Next]_vars PROVE [Repaired]_vars BY <1>1, <1>2
<1> HIDE DEF Repaired
<1>3. Spec => [][Repaired]_vars BY <1>2, ManifestInvariant, PTL DEF Spec
<1> QED BY <1>3 DEF RestartRepairs, Repaired

=============================================================================
