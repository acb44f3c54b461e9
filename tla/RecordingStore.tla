--------------------------- MODULE RecordingStore ---------------------------
(***************************************************************************)
(* The recording store of the session server (internal/sessiond): the      *)
(* tables session_snapshot, recording_tracks and track_chunks, the chunk   *)
(* files and the two kinds of JSON manifest below the artifact root, and   *)
(* the handlers that change them.                                          *)
(*                                                                         *)
(* Every handler holds store.mu from its first read to its reply, so one   *)
(* handler runs at a time.  Its statements and file writes are separate    *)
(* commits, though, and each of them may be the last one: the request      *)
(* context is cancelled when the client goes away, a statement or a write  *)
(* returns an error, or the process dies.  The model therefore executes a  *)
(* handler one commit at a time; op is the handler that holds store.mu     *)
(* and the step it performs next.  A handler's checks and its first commit *)
(* are one action.                                                         *)
(*                                                                         *)
(* Simplifications.                                                        *)
(*  - A client is a seat with an active claim.  Requests arrive at any     *)
(*    time, in any order and any number of times, so loss, duplication and *)
(*    reordering of requests need no state of their own.                   *)
(*  - A handler that refuses a request, or only repeats an earlier answer, *)
(*    changes nothing and is not an action, except for the duplicate       *)
(*    upload, whose answer a client relies on.                             *)
(*  - Contents are the bytes of a chunk; the store compares them by size   *)
(*    and SHA-256, which is taken to identify them.                        *)
(*  - A committed statement and a renamed file survive the death of the    *)
(*    process (not a power failure: nothing is synced to the medium).      *)
(*  - Health is constant "healthy": no code writes another value.          *)
(***************************************************************************)
EXTENDS Naturals, FiniteSets

CONSTANTS
  Seats,       \* rows of participant_seats
  HostSeats,   \* the seats whose role is host
  TrackIds,    \* values clients choose for recording_track_id
  Sources,     \* mic, camera, screen, system_audio
  Slots,       \* pairs of source_instance_id and segment_index
  Contents,    \* chunk bodies
  Epochs,      \* values randomID("re") may return
  MaxIndex,    \* bound on the chunk_index a client sends
  None,        \* SQL NULL, a missing row, a missing file
  Crashes      \* may the process die?

ASSUME HostsAreSeats == HostSeats \subseteq Seats
ASSUME MaxIndexIsNat == MaxIndex \in Nat
ASSUME CrashesIsBoolean == Crashes \in BOOLEAN

Indices == 0 .. MaxIndex
Counts == 0 .. MaxIndex + 1
Dirs == Seats \X Sources \X Slots
Phases == {"waiting", "recording", "draining", "stopped"}
TrackStates == {"recording", "uploading", "complete"}
TrackRow == [seat : Seats, source : Sources, slot : Slots,
             state : TrackStates, expected : Counts \cup {None}]

ASSUME NoneIsNoValue ==
  /\ None \notin Contents \cup Epochs
  /\ None \notin TrackIds \cup Nat
  /\ None \notin TrackRow

VARIABLES
  snapshot,    \* the session_snapshot row: recording_state, recording_epoch_id
  tracks,      \* recording_tracks by id
  chunks,      \* track_chunks by track and index: the digest of the bytes
  files,       \* chunk files by segment directory and index
  trackJson,   \* track.json by segment directory
  sessionJson, \* session.json
  server,      \* the process: down, rebuilding its artifacts, or up
  pending,     \* tracks whose track.json the rebuild has still to write
  op,          \* the handler that holds store.mu and its next step
  acked,       \* history: the chunks clients were told are stored
  owed         \* history: the tracks, and None for the session, whose manifest a
               \*   handler that ended early did not write

database == <<snapshot, tracks, chunks>>
artifacts == <<files, trackJson, sessionJson>>
vars == <<snapshot, tracks, chunks, files, trackJson, sessionJson,
          server, pending, op, acked, owed>>

-----------------------------------------------------------------------------
\* Queries.

Started == {t \in TrackIds : tracks[t] # None}

\* Mutant: the count of open tracks forgets those that are finished but not full.
OpenForgetsUploading(t) == tracks[t] # None /\ tracks[t].state = "recording"
Open(t) == tracks[t] # None /\ tracks[t].state \in {"recording", "uploading"}
Owns(seat, t) == tracks[t] # None /\ tracks[t].seat = seat

\* The indices of a track's rows in track_chunks.
Stored(t) == {i \in Indices : chunks[t][i] # None}

\* Mutant: the check for an earlier upload stops at complete tracks.
HasSealedChunk(t, i) == chunks[t][i] # None /\ tracks[t].state = "complete"
HasChunk(t, i) == chunks[t][i] # None

\* trackRelativeDir: the directory names the source, the segment key does not.
TrackDir(row) == <<row.seat, row.source, row.slot>>

\* Mutant: a segment may be started again once its track is complete.
SegmentInUse(seat, slot) ==
  \E t \in Started : Open(t) /\ tracks[t].seat = seat /\ tracks[t].slot = slot
SegmentTaken(seat, slot) ==
  \E t \in Started : tracks[t].seat = seat /\ tracks[t].slot = slot

\* The gates on the recording state and on the declared length.
\* Mutant: whoever knows the epoch may start a track.
EpochExists == snapshot.epoch # None
AcceptsTracks == snapshot.phase = "recording"
AcceptsWork == snapshot.phase \in {"recording", "draining"}

\* Mutant: off by one, expected_chunk_count taken for the last index.
UpToExpected(row, i) == row.expected # None => i <= row.expected
InRange(row, i) == row.expected # None => i < row.expected

\* The indices a finished track lacks: what salvage.missing_chunk_ranges covers.
Missing(row, t) ==
  IF row.expected = None THEN {} ELSE {i \in Indices : i < row.expected} \ Stored(t)

\* Mutant: a track that has as many chunks as it declared, or more, is complete,
\* and so is one whose length is not known.
CompleteUnlessShort(row, count) ==
  IF row.expected # None /\ count < row.expected THEN "uploading" ELSE "complete"
CurrentTrackState(row, count) ==
  IF row.expected = None THEN row.state
  ELSE IF count = row.expected THEN "complete" ELSE "uploading"

\* Mutant: a NULL expected_chunk_count is taken for "nothing is missing".
StatusByCount(row, count) ==
  IF count = 0 THEN "missing"
  ELSE IF row.expected \in {None, count} THEN "complete"
  ELSE "partial"
ArtifactStatus(row, count) ==
  IF count = 0 THEN "missing"
  ELSE IF row.state = "complete" /\ row.expected = count THEN "complete"
  ELSE "partial"

TrackManifest(t) ==
  [track |-> t,
   status |-> ArtifactStatus(tracks[t], Cardinality(Stored(t))),
   listed |-> chunks[t],
   missing |-> Missing(tracks[t], t)]

SessionManifest ==
  IF snapshot.epoch = None /\ Started = {} THEN None
  ELSE [phase |-> snapshot.phase,
        summary |-> [t \in TrackIds |->
          IF tracks[t] = None THEN None
          ELSE [status |-> ArtifactStatus(tracks[t], Cardinality(Stored(t))),
                count |-> Cardinality(Stored(t))]]]

-----------------------------------------------------------------------------
\* The handler that holds store.mu.

Idle == [step |-> "idle", track |-> None, index |-> None, content |-> None]
Handler(step, t) == [step |-> step, track |-> t, index |-> None, content |-> None]
MutexFree == server = "up" /\ op = Idle
Continue(from, to) == op.step = from /\ op' = [op EXCEPT !.step = to]

Init ==
  /\ snapshot = [phase |-> "waiting", epoch |-> None]
  /\ tracks = [t \in TrackIds |-> None]
  /\ chunks = [t \in TrackIds |-> [i \in Indices |-> None]]
  /\ files = [d \in Dirs |-> [i \in Indices |-> None]]
  /\ trackJson = [d \in Dirs |-> None]
  /\ sessionJson = None
  /\ server = "up"
  /\ pending = {}
  /\ op = Idle
  /\ acked = {}
  /\ owed = {}

\* Mutant: a host may start again after the run has ended.
RestartRecording(seat, epoch) ==
  /\ MutexFree
  /\ seat \in HostSeats
  /\ snapshot.phase # "recording"
  /\ snapshot' = [phase |-> "recording", epoch |-> epoch]
  /\ op' = Handler("sessionManifest", None)
  /\ UNCHANGED <<tracks, chunks, artifacts, server, pending, acked, owed>>

\* A host starts the one recording run: mints the epoch and publishes it.
StartRecording(seat, epoch) ==
  /\ MutexFree
  /\ seat \in HostSeats
  /\ snapshot.phase = "waiting"
  /\ snapshot' = [phase |-> "recording", epoch |-> epoch]
  /\ op' = Handler("sessionManifest", None)
  /\ UNCHANGED <<tracks, chunks, artifacts, server, pending, acked, owed>>

\* Mutant: a repeated stop only repeats the answer.
StopRecordingOnce(seat) ==
  /\ MutexFree
  /\ seat \in HostSeats
  /\ snapshot.phase = "recording"
  /\ snapshot' = [snapshot EXCEPT !.phase = "draining"]
  /\ op' = Handler("advance", None)
  /\ UNCHANGED <<tracks, chunks, artifacts, server, pending, acked, owed>>

\* A host stops; repeated while draining or stopped it advances and publishes again.
StopRecording(seat) ==
  /\ MutexFree
  /\ seat \in HostSeats
  /\ \/ /\ snapshot.phase = "recording"
        /\ snapshot' = [snapshot EXCEPT !.phase = "draining"]
        /\ op' = Handler("advance", None)
     \/ /\ snapshot.phase = "draining"
        /\ op' = Handler("advance", None)
        /\ UNCHANGED snapshot
     \/ /\ snapshot.phase = "stopped"
        /\ op' = Handler("sessionManifest", None)
        /\ UNCHANGED snapshot
  /\ UNCHANGED <<tracks, chunks, artifacts, server, pending, acked, owed>>

\* A seat starts a new segment of the current epoch.
StartTrack(seat, t, epoch, source, slot) ==
  /\ MutexFree
  /\ epoch = snapshot.epoch
  /\ tracks[t] = None
  /\ AcceptsTracks
  /\ ~ SegmentTaken(seat, slot)
  /\ tracks' = [tracks EXCEPT ![t] =
        [seat |-> seat, source |-> source, slot |-> slot,
         state |-> "recording", expected |-> None]]
  /\ op' = Handler("trackManifest", t)
  /\ UNCHANGED <<snapshot, chunks, artifacts, server, pending, acked, owed>>

\* The owner uploads a chunk the store does not have: the file comes first.
UploadChunk(seat, t, i, content) ==
  /\ MutexFree
  /\ Owns(seat, t)
  /\ ~ HasChunk(t, i)
  /\ AcceptsWork
  /\ Open(t)
  /\ InRange(tracks[t], i)
  /\ files' = [files EXCEPT ![TrackDir(tracks[t])][i] = content]
  /\ op' = [step |-> "insert", track |-> t, index |-> i, content |-> content]
  /\ UNCHANGED <<database, trackJson, sessionJson, server, pending, acked, owed>>

\* The owner repeats an upload: answered from the row, whatever the phase.
UploadDuplicate(seat, t, i, content) ==
  /\ MutexFree
  /\ Owns(seat, t)
  /\ chunks[t][i] = content
  /\ acked' = acked \cup {<<t, i, content>>}
  /\ UNCHANGED <<database, artifacts, server, pending, op, owed>>

\* The owner declares how many chunks the segment has.
FinishTrack(seat, t, expected) ==
  /\ MutexFree
  /\ Owns(seat, t)
  /\ tracks[t].expected = None
  /\ AcceptsWork
  /\ Open(t)
  /\ \A i \in Stored(t) : i < expected
  /\ LET row == [tracks[t] EXCEPT !.expected = expected] IN
       tracks' = [tracks EXCEPT ![t] =
         [row EXCEPT !.state = CurrentTrackState(row, Cardinality(Stored(t)))]]
  /\ op' = Handler("advance", t)
  /\ UNCHANGED <<snapshot, chunks, artifacts, server, pending, acked, owed>>

-----------------------------------------------------------------------------
\* The remaining steps of the handlers.

InsertChunk ==
  /\ Continue("insert", "complete")
  /\ chunks' = [chunks EXCEPT ![op.track][op.index] = op.content]
  /\ UNCHANGED <<snapshot, tracks, artifacts, server, pending, acked, owed>>

\* The chunk id cannot be minted or the insert returns an error: the handler
\* removes the file again; when that fails too, nobody is told, and it is Fail.
InsertChunkFails ==
  /\ op.step = "insert"
  /\ files' = [files EXCEPT ![TrackDir(tracks[op.track])][op.index] = None]
  /\ op' = Idle
  /\ UNCHANGED <<database, trackJson, sessionJson, server, pending, acked, owed>>

MaybeCompleteTrack ==
  /\ Continue("complete", "advance")
  /\ tracks' = [tracks EXCEPT ![op.track].state =
        CurrentTrackState(tracks[op.track], Cardinality(Stored(op.track)))]
  /\ UNCHANGED <<snapshot, chunks, artifacts, server, pending, acked, owed>>

MaybeAdvanceSessionToStopped ==
  /\ Continue("advance", IF op.track = None THEN "sessionManifest" ELSE "trackManifest")
  /\ snapshot' = IF snapshot.phase = "draining" /\ ~ \E t \in TrackIds : Open(t)
                 THEN [snapshot EXCEPT !.phase = "stopped"] ELSE snapshot
  /\ UNCHANGED <<tracks, chunks, artifacts, server, pending, acked, owed>>

\* Mutant: the handler answers before it wrote session.json.
AnswerAfterTrackManifest ==
  /\ Continue("trackManifest", "reply")
  /\ trackJson' = [trackJson EXCEPT ![TrackDir(tracks[op.track])] = TrackManifest(op.track)]
  /\ owed' = owed \ {op.track}
  /\ UNCHANGED <<database, files, sessionJson, server, pending, acked>>

WriteTrackManifest ==
  /\ Continue("trackManifest", "sessionManifest")
  /\ trackJson' = [trackJson EXCEPT ![TrackDir(tracks[op.track])] = TrackManifest(op.track)]
  /\ owed' = owed \ {op.track}
  /\ UNCHANGED <<database, files, sessionJson, server, pending, acked>>

WriteSessionManifest ==
  /\ Continue("sessionManifest", "reply")
  /\ sessionJson' = SessionManifest
  /\ owed' = owed \ {None}
  /\ UNCHANGED <<database, files, trackJson, server, pending, acked>>

\* The answer reaches the client.
Reply ==
  /\ op.step = "reply"
  /\ op' = Idle
  /\ acked' = IF op.index = None THEN acked
              ELSE acked \cup {<<op.track, op.index, op.content>>}
  /\ UNCHANGED <<database, artifacts, server, pending, owed>>

\* The manifests that a handler which ends before its next step leaves unwritten.
Unwritten ==
  (IF op.step \in {"complete", "advance", "trackManifest"} THEN {op.track, None} ELSE {})
    \cup (IF op.step = "sessionManifest" THEN {None} ELSE {})

\* Any step fails, the removal of the file included, or the answer is lost: what
\* was committed stays.
Fail ==
  /\ op.step # "idle"
  /\ op' = Idle
  /\ owed' = owed \cup Unwritten
  /\ UNCHANGED <<database, artifacts, server, pending, acked>>

-----------------------------------------------------------------------------
\* The process dies, and openStore rebuilds the artifacts from the database.

Crash ==
  /\ Crashes
  /\ server # "down"
  /\ server' = "down"
  /\ op' = Idle
  /\ pending' = {}
  /\ owed' = owed \cup Unwritten
  /\ UNCHANGED <<database, artifacts, acked>>

\* Mutant: the rebuild walks the ids it has seen, not the rows.
OpenStoreAllIds ==
  /\ server = "down"
  /\ server' = "rebuild"
  /\ pending' = TrackIds
  /\ UNCHANGED <<database, artifacts, op, acked, owed>>

\* Mutant: the rebuild trusts the track.json of complete tracks.
OpenStoreOpenTracks ==
  /\ server = "down"
  /\ server' = "rebuild"
  /\ pending' = {t \in Started : Open(t)}
  /\ UNCHANGED <<database, artifacts, op, acked, owed>>

OpenStore ==
  /\ server = "down"
  /\ server' = "rebuild"
  /\ pending' = Started
  /\ UNCHANGED <<database, artifacts, op, acked, owed>>

\* The order of the tracks is that of their directories; it is left open here.
RebuildTrack(t) ==
  /\ server = "rebuild"
  /\ t \in pending
  /\ trackJson' = [trackJson EXCEPT ![TrackDir(tracks[t])] = TrackManifest(t)]
  /\ pending' = pending \ {t}
  /\ owed' = owed \ {t}
  /\ UNCHANGED <<database, files, sessionJson, server, op, acked>>

RebuildSession ==
  /\ server = "rebuild"
  /\ pending = {}
  /\ sessionJson' = SessionManifest
  /\ server' = "prune"
  /\ owed' = owed \ {None}
  /\ UNCHANGED <<database, files, trackJson, pending, op, acked>>

\* Mutant: only what a complete track owns is worth keeping.
ReferencedBySealed(d, i) ==
  \E t \in Started : /\ TrackDir(tracks[t]) = d
                     /\ tracks[t].state = "complete" /\ chunks[t][i] # None

\* A chunk file no row of track_chunks refers to.  (No track.json is ever stale:
\* rows of recording_tracks are not deleted.)
Referenced(d, i) ==
  \E t \in Started : TrackDir(tracks[t]) = d /\ chunks[t][i] # None
StaleFile(d, i) == files[d][i] # None /\ ~ Referenced(d, i)

PruneStaleFile(d, i) ==
  /\ server = "prune"
  /\ StaleFile(d, i)
  /\ files' = [files EXCEPT ![d][i] = None]
  /\ UNCHANGED <<database, trackJson, sessionJson, server, pending, op, acked, owed>>

FinishRebuild ==
  /\ server = "prune"
  /\ \A d \in Dirs, i \in Indices : ~ StaleFile(d, i)
  /\ server' = "up"
  /\ UNCHANGED <<database, artifacts, pending, op, acked, owed>>

-----------------------------------------------------------------------------

HostRequest ==
  \E seat \in Seats :
    StopRecording(seat) \/ \E epoch \in Epochs : StartRecording(seat, epoch)

TrackRequest(t) ==
  \E seat \in Seats :
    \/ \E epoch \in Epochs, source \in Sources, slot \in Slots :
         StartTrack(seat, t, epoch, source, slot)
    \/ \E i \in Indices, content \in Contents :
         UploadChunk(seat, t, i, content) \/ UploadDuplicate(seat, t, i, content)
    \/ \E expected \in Counts : FinishTrack(seat, t, expected)

HandlerStep ==
  \/ InsertChunk \/ MaybeCompleteTrack \/ MaybeAdvanceSessionToStopped
  \/ WriteTrackManifest \/ WriteSessionManifest \/ Reply

Rebuild ==
  \/ OpenStore \/ RebuildSession \/ FinishRebuild
  \/ \E t \in TrackIds : RebuildTrack(t)
  \/ \E d \in Dirs, i \in Indices : PruneStaleFile(d, i)

Next ==
  \/ HostRequest \/ \E t \in TrackIds : TrackRequest(t)
  \/ HandlerStep \/ InsertChunkFails \/ Fail
  \/ Crash \/ Rebuild

Spec == Init /\ [][Next]_vars

-----------------------------------------------------------------------------
Statuses == {"missing", "partial", "complete"}
Bytes == [Indices -> Contents \cup {None}]
TrackJson == [track : TrackIds, status : Statuses, listed : Bytes, missing : SUBSET Indices]
Summary == [status : Statuses, count : Counts]
SessionJson == [phase : Phases, summary : [TrackIds -> Summary \cup {None}]]

\* A missing file is no manifest.
ASSUME NoneIsNoManifest == None \notin TrackJson /\ None \notin SessionJson

HandlerStates ==
  [step : {"idle", "insert", "complete", "advance", "trackManifest", "sessionManifest", "reply"},
   track : TrackIds \cup {None}, index : Indices \cup {None}, content : Contents \cup {None}]

\* Every variable holds a value of its kind; only a handler of a running
\* process holds store.mu, and it works on a started track.
TypeOK ==
  /\ snapshot \in [phase : Phases, epoch : Epochs \cup {None}]
  /\ tracks \in [TrackIds -> TrackRow \cup {None}]
  /\ chunks \in [TrackIds -> Bytes]
  /\ files \in [Dirs -> Bytes]
  /\ trackJson \in [Dirs -> TrackJson \cup {None}]
  /\ sessionJson \in SessionJson \cup {None}
  /\ server \in {"down", "rebuild", "prune", "up"}
  /\ pending \subseteq Started
  /\ op \in HandlerStates
  /\ op.track # None => op.track \in Started
  /\ op # Idle => server = "up"
  /\ acked \subseteq TrackIds \X Indices \X Contents
  /\ owed \subseteq Started \cup {None}

\* A chunk a client was told is stored (uploadChunk's 201 or 200) stays in
\* track_chunks and on disk, byte for byte, through failing handlers, crashes,
\* rebuilds and the uploads of every other track.
AckedChunksDurable ==
  \A ack \in acked :
    /\ chunks[ack[1]][ack[2]] = ack[3]
    /\ files[TrackDir(tracks[ack[1]])][ack[2]] = ack[3]

\* Every row of track_chunks has its file (uploadChunk writes the file before the
\* row, removes it only without a row, and pruning spares what a row names).
RowsHaveFiles ==
  \A t \in Started : \A i \in Stored(t) :
    files[TrackDir(tracks[t])][i] = chunks[t][i]

\* currentTrackState only counts rows; a track is complete all the same only
\* when each index below expected_chunk_count has its row and no other has.
CompleteIsGapFree ==
  \A t \in Started : tracks[t].state = "complete" =>
    /\ tracks[t].expected # None
    /\ Stored(t) = {i \in Indices : i < tracks[t].expected}

\* Once maybeAdvanceSessionToStopped stopped the session, every started track
\* is complete, those started or finished while others advanced it included.
StoppedIsComplete ==
  snapshot.phase = "stopped" => \A t \in Started : tracks[t].state = "complete"

\* However stale a manifest is left by a failing handler or a crash, it never
\* promises more than the disk holds: each chunk a track.json lists is there
\* with those bytes, a complete one has no gap, and it is its segment's own.
ManifestsNeverOverclaim ==
  \A t \in Started :
    LET dir == TrackDir(tracks[t])
        manifest == trackJson[dir]
    IN  manifest # None =>
          /\ manifest.track = t
          /\ \A i \in Indices : manifest.listed[i] \in {None, files[dir][i]}
          /\ manifest.status = "complete" =>
               /\ tracks[t].expected # None
               /\ \A i \in Indices : i < tracks[t].expected <=> manifest.listed[i] # None

\* A session.json that says stopped is the final one: it agrees with the
\* database on every track (writeSessionManifest runs after the advance).
StoppedManifestIsFinal ==
  sessionJson # None /\ sessionJson.phase = "stopped" => sessionJson = SessionManifest

\* A success answer to a request that changed something finds its manifests
\* current, even if earlier handlers failed before writing theirs.  A repeated
\* upload or finish is answered success and publishes nothing; what it finds is
\* current too, but for the manifest that a handler of the track, or for
\* session.json any handler, did not come to write and no later one has written.
AnswersArePublished ==
  /\ op.step = "reply" =>
       /\ sessionJson = SessionManifest
       /\ op.track # None => trackJson[TrackDir(tracks[op.track])] = TrackManifest(op.track)
  /\ MutexFree =>
       /\ \A t \in Started \ owed : trackJson[TrackDir(tracks[t])] = TrackManifest(t)
       /\ None \notin owed => sessionJson = SessionManifest

\* What is complete is sealed, and what is stopped is sealed as a whole: no late,
\* repeated or interrupted request changes its rows or its files again.
SealedIsFinal ==
  [][/\ \A t \in Started : tracks[t].state = "complete" =>
          /\ tracks'[t] = tracks[t]
          /\ chunks'[t] = chunks[t]
          /\ \A i \in Stored(t) :
               files'[TrackDir(tracks[t])][i] = files[TrackDir(tracks[t])][i]
     /\ snapshot.phase = "stopped" => UNCHANGED database]_vars

Rank(phase) == CHOOSE n \in 1 .. 4 :
  phase = <<"waiting", "recording", "draining", "stopped">>[n]

\* Someone who reads the artifact directory twice never sees a manifest, a listed
\* chunk or a complete status taken back, crashes and rebuilds between included.
PublishedOnlyGrows ==
  [][/\ \A d \in Dirs : trackJson[d] # None =>
          /\ trackJson'[d] # None
          /\ trackJson'[d].track = trackJson[d].track
          /\ \A i \in Indices : trackJson[d].listed[i] \in {None, trackJson'[d].listed[i]}
          /\ trackJson[d].status = "complete" => trackJson'[d] = trackJson[d]
     /\ sessionJson # None =>
          /\ sessionJson' # None
          /\ Rank(sessionJson.phase) <= Rank(sessionJson'.phase)]_vars

\* openStore serves requests only after it made the artifacts those of the
\* database: every manifest current and no chunk file without its row.
RestartRepairs ==
  [][server # "up" /\ server' = "up" =>
       /\ sessionJson' = SessionManifest'
       /\ \A t \in Started : trackJson'[TrackDir(tracks[t])] = TrackManifest(t)'
       /\ \A d \in Dirs, i \in Indices : files'[d][i] # None =>
            \E t \in Started : TrackDir(tracks[t]) = d /\ chunks[t][i] = files'[d][i]]_vars

-----------------------------------------------------------------------------
\* The store implements the promise of RecordingRun: handlers that fail, repeat
\* or die between two commits, and rebuilds, are invisible in it.
Takes == [t \in TrackIds |->
  IF tracks[t] = None THEN "none"
  ELSE IF tracks[t].state = "complete" THEN "complete" ELSE "open"]
Lengths == [t \in TrackIds |-> IF tracks[t] = None THEN None ELSE tracks[t].expected]

Run == INSTANCE RecordingRun WITH
  phase <- snapshot.phase, take <- Takes, expected <- Lengths, kept <- chunks

ImplementsRun == Run!Spec

\* A track all of whose declared chunks are stored but that is not complete: the
\* handler that stored the last one ended before maybeCompleteTrack.
Stranded(t) == Open(t) /\ tracks[t].expected # None /\ Missing(tracks[t], t) = {}

\* Clients and the host repeat their requests, a request that waits for store.mu
\* gets it in the end (sync.Mutex is starvation-free), and a step that is tried
\* again and again succeeds once.
FairSpec ==
  /\ Spec
  /\ WF_vars(HandlerStep)
  /\ SF_vars(\E seat \in Seats : StopRecording(seat))
  /\ SF_vars(MaybeAdvanceSessionToStopped)
  /\ \A t \in TrackIds :
       /\ SF_vars(\E seat \in Seats, n \in Counts : FinishTrack(seat, t, n))
       /\ \A i \in Indices :
            /\ SF_vars(\E seat \in Seats, content \in Contents :
                          UploadChunk(seat, t, i, content))
            /\ SF_vars(InsertChunk /\ op.track = t /\ op.index = i)

\* A draining session stops if its clients and host keep trying, however often
\* handlers fail, unless a failure strands a track.
DrainingEnds ==
  snapshot.phase = "draining" ~>
    (snapshot.phase = "stopped" \/ \E t \in TrackIds : Stranded(t))

\* docs/recording-upload-protocol.md: "After finish, every later successful chunk
\* upload for that track must re-check completion."  A client that got a success
\* for every declared chunk has uploaded or repeated the last one.
CompletionRechecked ==
  MutexFree => \A t \in Started :
    (/\ tracks[t].expected # None
     /\ \A i \in Indices : i < tracks[t].expected =>
          \E content \in Contents : <<t, i, content>> \in acked)
    => tracks[t].state = "complete"

=============================================================================
