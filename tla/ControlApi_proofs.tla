-------------------------- MODULE ControlApi_proofs --------------------------
(***************************************************************************)
(* Proofs about the control API, for all sets of sessions, seat numbers,   *)
(* texts and patches, every limit of the roster and every bootstrap        *)
(* configuration.  Each session is looked at by itself: SessionOK holds of *)
(* the session of a new record, and an accepted request takes a session    *)
(* for which it holds to another one, by a step that StepOK allows.        *)
(***************************************************************************)
EXTENDS ControlApi, FiniteSetTheorems, TLAPS

-----------------------------------------------------------------------------
\* Seats.

\* Two seats with the same fields are the same seat.
LEMMA SameSeat ==
  ASSUME NEW s \in Seats, NEW t \in Seats,
         s.role = t.role, s.displayName = t.displayName, s.joined = t.joined,
         s.ownershipStatus = t.ownershipStatus, s.micMuted = t.micMuted,
         s.cameraEnabled = t.cameraEnabled, s.screenShareActive = t.screenShareActive,
         s.selectedMic = t.selectedMic, s.selectedCamera = t.selectedCamera,
         s.liveCallStatus = t.liveCallStatus, s.localCaptureStatus = t.localCaptureStatus,
         s.uploadStatus = t.uploadStatus
  PROVE  s = t
  BY DEF Seats

\* Normalizing a seat yields a seat and leaves what a person entered alone.
LEMMA NormalizedSeat ==
  ASSUME NEW phase \in Phases, NEW seat \in Seats
  PROVE  /\ NormalizeSeat(phase, seat) \in Seats
         /\ NormalizeSeat(phase, seat).role = seat.role
         /\ NormalizeSeat(phase, seat).displayName = seat.displayName
         /\ NormalizeSeat(phase, seat).joined = seat.joined
<1>1. /\ PhaseJoinedCaptureStatus(phase) \in Captures
      /\ PhaseInterruptionCaptureStatus(phase) \in Captures
      /\ PhaseJoinedUploadStatus(phase) \in Uploads
      /\ PhaseBacklogStatus(phase) \in Uploads
  BY DEF PhaseJoinedCaptureStatus, PhaseInterruptionCaptureStatus, PhaseJoinedUploadStatus,
         PhaseBacklogStatus, Captures, Uploads
<1>2. NormalizeSeat(phase, seat) \in Seats
  BY <1>1 DEF NormalizeSeat, Seats, Captures, Uploads, LiveCalls, Ownerships
<1> QED BY <1>2 DEF NormalizeSeat, Seats

\* A seat is normalized once and for all.
LEMMA NormalizedOnce ==
  ASSUME NEW phase \in Phases, NEW seat \in Seats, NEW new, new = NormalizeSeat(phase, seat)
  PROVE  NormalizeSeat(phase, new) = new
<1>1. new \in Seats /\ new.joined = seat.joined BY NormalizedSeat
<1>2. Interrupted(new) <=> Interrupted(seat)
  BY <1>1 DEF NormalizeSeat, Seats, Interrupted
<1>3. PICK again : again = NormalizeSeat(phase, new) OBVIOUS
<1>4. again.liveCallStatus = new.liveCallStatus
  BY <1>1, <1>3 DEF NormalizeSeat, Seats
<1>5. again.localCaptureStatus = new.localCaptureStatus
  BY <1>1, <1>2, <1>3 DEF NormalizeSeat, Seats
<1>6. again.uploadStatus = new.uploadStatus
  BY <1>1, <1>2, <1>3 DEF NormalizeSeat, Seats
<1>7. again.ownershipStatus = new.ownershipStatus
  BY <1>1, <1>3 DEF NormalizeSeat, Seats
<1>8. again \in Seats
  BY <1>1, <1>3, NormalizedSeat
<1>9. /\ again.role = new.role /\ again.displayName = new.displayName
      /\ again.joined = new.joined /\ again.micMuted = new.micMuted
      /\ again.cameraEnabled = new.cameraEnabled
      /\ again.screenShareActive = new.screenShareActive
      /\ again.selectedMic = new.selectedMic /\ again.selectedCamera = new.selectedCamera
  BY <1>1, <1>3 DEF NormalizeSeat, Seats
<1>10. again = new
  BY <1>1, <1>4, <1>5, <1>6, <1>7, <1>8, <1>9, SameSeat
<1> QED BY <1>3, <1>10

\* A patch of a seat yields a seat, and without roster fields leaves them alone.
LEMMA SpreadSeatTyping ==
  ASSUME NEW seat \in Seats, NEW patch \in SeatPatches
  PROVE  /\ SpreadSeat(seat, patch) \in Seats
         /\ ~TouchesRosterFields(patch) =>
              /\ SpreadSeat(seat, patch).role = seat.role
              /\ SpreadSeat(seat, patch).displayName = seat.displayName
<1>1. patch \in [role : Roles \cup {None}, displayName : Texts \cup {None}, joined : BOOLEAN \cup {None},
   ownershipStatus : Ownerships \cup {None}, micMuted : BOOLEAN \cup {None},
   cameraEnabled : BOOLEAN \cup {None}, screenShareActive : BOOLEAN \cup {None},
   selectedMic : Texts \cup {None}, selectedCamera : Texts \cup {None}]
  BY DEF SeatPatches
<1>2. /\ Given(patch.role, seat.role) \in Roles
      /\ Given(patch.displayName, seat.displayName) \in Texts
      /\ Given(patch.joined, seat.joined) \in BOOLEAN
      /\ Given(patch.ownershipStatus, seat.ownershipStatus) \in Ownerships
      /\ Given(patch.micMuted, seat.micMuted) \in BOOLEAN
      /\ Given(patch.cameraEnabled, seat.cameraEnabled) \in BOOLEAN
      /\ Given(patch.screenShareActive, seat.screenShareActive) \in BOOLEAN
      /\ Given(patch.selectedMic, seat.selectedMic) \in Texts
      /\ Given(patch.selectedCamera, seat.selectedCamera) \in Texts
  BY <1>1 DEF Given, Seats
<1>3. SpreadSeat(seat, patch) \in Seats
  BY <1>2 DEF SpreadSeat, Seats
<1>4. /\ SpreadSeat(seat, patch).role = Given(patch.role, seat.role)
      /\ SpreadSeat(seat, patch).displayName = Given(patch.displayName, seat.displayName)
  BY DEF SpreadSeat, Seats
<1> QED BY <1>3, <1>4 DEF TouchesRosterFields, Given

-----------------------------------------------------------------------------
\* Sessions.

FollowsPhase(session) ==
  \A n \in Roster(session) :
    session.seats[n] = NormalizeSeat(session.recordingPhase, session.seats[n])
HasOperator(session) ==
  HostSeatId \in Roster(session) /\ session.seats[HostSeatId].role = "host"
FitsStatus(session) ==
  /\ session.status \in {"draft", "ready"} => session.recordingPhase = "waiting"
  /\ session.status = "ended" => session.recordingPhase \in {"stopped", "failed"}
SessionOK(session) ==
  /\ session \in Sessions
  /\ session.nextSeatNumber > HostSeatId
  /\ FollowsPhase(session) /\ HasOperator(session) /\ FitsStatus(session)

\* What one step may do to a session: seats get numbers never used before, and
\* neither the title, the roster nor the run is taken back.
NewIds(before, after) ==
  /\ after.nextSeatNumber >= before.nextSeatNumber
  /\ \A n \in Roster(after) \ Roster(before) :
       n >= before.nextSeatNumber /\ n < after.nextSeatNumber
Forward(before, after) ==
  /\ ~RosterEditable(before.status) => ~RosterEditable(after.status)
  /\ before.recordingPhase # "waiting" => after.recordingPhase # "waiting"
  /\ before.recordingPhase = "failed" => after.recordingPhase = "failed"
StepOK(record, after) ==
  LET before == record.session IN
    /\ NewIds(before, after) /\ Forward(before, after)
    /\ before.status # "ended"
    /\ ~RosterEditable(before.status) => after.title = before.title
    /\ record.bound \/ ~RosterEditable(before.status) => RosterOf(after) = RosterOf(before)
SameRun(before, after) ==
  /\ after.title = before.title /\ after.status = before.status
  /\ after.recordingPhase = before.recordingPhase

LEMMA SeatsOfRoster ==
  ASSUME NEW session \in Sessions, NEW n \in Roster(session)
  PROVE  n \in SeatNumbers /\ session.seats[n] \in Seats
  BY DEF Roster, Sessions

\* Normalizing a session keeps all but what its seats show, and makes them
\* follow the phase.
LEMMA NormalizedSession ==
  ASSUME NEW session \in Sessions, NEW new, new = NormalizeControlSession(session)
  PROVE  /\ new \in Sessions /\ FollowsPhase(new)
         /\ new.title = session.title /\ new.status = session.status
         /\ new.recordingPhase = session.recordingPhase
         /\ new.nextSeatNumber = session.nextSeatNumber
         /\ Roster(new) = Roster(session) /\ RosterOf(new) = RosterOf(session)
         /\ HasOperator(session) => HasOperator(new)
<1> DEFINE phase == session.recordingPhase
           seats == [n \in SeatNumbers |-> IF session.seats[n] = None THEN None
                                           ELSE NormalizeSeat(phase, session.seats[n])]
<1>1. phase \in Phases /\ session.seats \in [SeatNumbers -> Seats \cup {None}]
  BY DEF Sessions
<1>2. \A n \in SeatNumbers : session.seats[n] # None =>
        /\ session.seats[n] \in Seats
        /\ seats[n] \in Seats
        /\ seats[n].role = session.seats[n].role
        /\ seats[n].displayName = session.seats[n].displayName
        /\ NormalizeSeat(phase, seats[n]) = seats[n]
  <2> SUFFICES ASSUME NEW n \in SeatNumbers, session.seats[n] # None
               PROVE  /\ session.seats[n] \in Seats
                      /\ seats[n] \in Seats
                      /\ seats[n].role = session.seats[n].role
                      /\ seats[n].displayName = session.seats[n].displayName
                      /\ NormalizeSeat(phase, seats[n]) = seats[n]
    OBVIOUS
  <2>1. session.seats[n] \in Seats BY <1>1
  <2>2. seats[n] = NormalizeSeat(phase, session.seats[n]) OBVIOUS
  <2> HIDE DEF phase, seats
  <2> QED BY <1>1, <2>1, <2>2, NormalizedSeat, NormalizedOnce
<1>3. \A n \in SeatNumbers : session.seats[n] = None <=> seats[n] = None
  BY <1>2, NoneIsNoSeat
<1>4. seats \in [SeatNumbers -> Seats \cup {None}]
  BY <1>2, <1>3
<1>5. new = [session EXCEPT !.seats = seats]
  BY DEF NormalizeControlSession
<1> HIDE DEF seats
<1>6. /\ new \in Sessions /\ new.seats = seats
      /\ new.title = session.title /\ new.status = session.status
      /\ new.recordingPhase = phase
      /\ new.nextSeatNumber = session.nextSeatNumber
  BY <1>4, <1>5 DEF Sessions
<1>7. Roster(new) = Roster(session)
  BY <1>3, <1>6 DEF Roster
<1>8. FollowsPhase(new) /\ (HasOperator(session) => HasOperator(new))
  BY <1>2, <1>6, <1>7 DEF FollowsPhase, HasOperator, Roster
<1>9. RosterOf(new) = RosterOf(session)
  BY <1>2, <1>6, <1>7 DEF RosterOf, Roster
<1> QED BY <1>6, <1>7, <1>8, <1>9

-----------------------------------------------------------------------------
\* The steps of the store.

\* What a step leaves alone before it normalizes stays as it is.
LEMMA NormalizedStep ==
  ASSUME NEW session, SessionOK(session), NEW changed \in Sessions, NEW new,
         new = NormalizeControlSession(changed), HasOperator(changed),
         SameRun(session, changed), changed.nextSeatNumber > HostSeatId,
         NewIds(session, changed)
  PROVE  SessionOK(new) /\ SameRun(session, new) /\ NewIds(session, new)
<1>1. /\ new \in Sessions /\ FollowsPhase(new) /\ HasOperator(new)
      /\ new.title = changed.title /\ new.status = changed.status
      /\ new.recordingPhase = changed.recordingPhase
      /\ new.nextSeatNumber = changed.nextSeatNumber
      /\ Roster(new) = Roster(changed)
  BY NormalizedSession
<1>2. SameRun(session, new) /\ NewIds(session, new)
  BY <1>1 DEF SameRun, NewIds
<1> QED BY <1>1, <1>2 DEF SessionOK, FitsStatus, SameRun

LEMMA CreatedSeat ==
  ASSUME NEW session, SessionOK(session), NEW new, new = StoreCreateSeat(session)
  PROVE  SessionOK(new) /\ SameRun(session, new) /\ NewIds(session, new)
<1> DEFINE next == session.nextSeatNumber
           changed == [session EXCEPT !.nextSeatNumber = @ + 1, !.seats[next] = CreateGuestSeat]
<1>1. CASE Cardinality(Roster(session)) >= MaxSeats
  <2>1. new = session BY <1>1 DEF StoreCreateSeat
  <2> QED BY <2>1 DEF SessionOK, SameRun, NewIds, Sessions
<1>2. CASE ~(Cardinality(Roster(session)) >= MaxSeats)
  <2>1. new = NormalizeControlSession(changed) BY <1>2 DEF StoreCreateSeat
  <2>2. CreateGuestSeat \in Seats
    BY OriginalIsText DEF CreateGuestSeat, Seats, Roles, Ownerships, LiveCalls, Captures, Uploads
  <2>3. session \in Sessions /\ next \in Nat /\ next > HostSeatId
    BY DEF SessionOK, Sessions
  <2>4. /\ changed \in Sessions /\ SameRun(session, changed)
        /\ changed.nextSeatNumber = next + 1
        /\ changed.seats = [session.seats EXCEPT ![next] = CreateGuestSeat]
    <3>1. [session.seats EXCEPT ![next] = CreateGuestSeat] \in [SeatNumbers -> Seats \cup {None}]
      BY <2>2, <2>3 DEF Sessions
    <3>2. next + 1 \in Nat BY <2>3
    <3> QED BY <2>3, <3>1, <3>2 DEF Sessions, SameRun
  <2>5. \A n \in SeatNumbers \ {next} : changed.seats[n] = session.seats[n]
    BY <2>3, <2>4 DEF Sessions
  <2> HIDE DEF changed, next
  <2>6. NewIds(session, changed)
    BY <2>3, <2>4, <2>5 DEF NewIds, Roster, next
  <2>7. HasOperator(changed)
    BY <2>3, <2>4, <2>5 DEF HasOperator, Roster, SessionOK, HostSeatId
  <2>8. changed.nextSeatNumber > HostSeatId
    BY <2>3, <2>4 DEF HostSeatId
  <2> QED BY <2>1, <2>4, <2>6, <2>7, <2>8, NormalizedStep
<1> QED BY <1>1, <1>2

LEMMA DeletedSeat ==
  ASSUME NEW session, SessionOK(session), NEW n \in Roster(session),
         NEW new, new = StoreDeleteSeat(session, n)
  PROVE  SessionOK(new) /\ SameRun(session, new) /\ NewIds(session, new)
<1> DEFINE changed == RemoveSessionSeat(session, n)
<1>1. session \in Sessions /\ n \in SeatNumbers BY DEF SessionOK, Roster
<1>2. changed = session \/ (n # HostSeatId /\ changed = [session EXCEPT !.seats[n] = None])
  BY DEF RemoveSessionSeat, Removable
<1>3. /\ changed \in Sessions /\ SameRun(session, changed)
      /\ changed.nextSeatNumber = session.nextSeatNumber
  BY <1>1, <1>2 DEF Sessions, SameRun
<1>4. /\ Roster(changed) \subseteq Roster(session)
      /\ HasOperator(changed)
  BY <1>1, <1>2 DEF Sessions, Roster, HasOperator, SessionOK, HostSeatId
<1> HIDE DEF changed
<1>5. NewIds(session, changed)
  BY <1>1, <1>3, <1>4 DEF NewIds, Sessions
<1>6. new = NormalizeControlSession(changed) BY DEF StoreDeleteSeat, changed
<1> QED BY <1>3, <1>4, <1>5, <1>6, NormalizedStep DEF SessionOK

\* Without a role or a name in the patch, the roster stays as it is.
LEMMA UpdatedSeat ==
  ASSUME NEW session, SessionOK(session), NEW n \in Roster(session),
         NEW patch \in SeatPatches, NEW new, new = StoreUpdateSeat(session, n, patch)
  PROVE  /\ SessionOK(new) /\ SameRun(session, new) /\ NewIds(session, new)
         /\ ~TouchesRosterFields(patch) => RosterOf(new) = RosterOf(session)
<1> DEFINE spread == SpreadSeat(session.seats[n], patch)
           seat == [spread EXCEPT !.role = IF KeepsRole(session, n, patch)
                                           THEN session.seats[n].role ELSE @]
           changed == PatchSessionSeat(session, n, patch)
<1>1. session \in Sessions /\ n \in SeatNumbers /\ session.seats[n] \in Seats
  BY SeatsOfRoster DEF SessionOK
<1>2. /\ spread \in Seats
      /\ ~TouchesRosterFields(patch) => /\ spread.role = session.seats[n].role
                                        /\ spread.displayName = session.seats[n].displayName
  BY <1>1, SpreadSeatTyping
<1> HIDE DEF spread
<1>3. /\ seat \in Seats /\ seat.displayName = spread.displayName
      /\ n = HostSeatId => seat.role = session.seats[n].role
      /\ spread.role = session.seats[n].role => seat.role = spread.role
  BY <1>1, <1>2 DEF Seats, KeepsRole
<1>4. changed = [session EXCEPT !.seats[n] = seat] BY DEF PatchSessionSeat, spread
<1> HIDE DEF seat, changed
<1>5. /\ changed \in Sessions /\ SameRun(session, changed)
      /\ changed.nextSeatNumber = session.nextSeatNumber
      /\ changed.seats = [session.seats EXCEPT ![n] = seat]
  BY <1>1, <1>3, <1>4 DEF Sessions, SameRun
<1>6. /\ changed.seats[n] = seat
      /\ \A m \in SeatNumbers \ {n} : changed.seats[m] = session.seats[m]
  BY <1>1, <1>5 DEF Sessions
<1>7. Roster(changed) = Roster(session)
  BY <1>1, <1>3, <1>6, NoneIsNoSeat DEF Roster
<1>8. HasOperator(changed)
  BY <1>1, <1>3, <1>6, <1>7 DEF HasOperator, SessionOK, Roster
<1>9. NewIds(session, changed)
  BY <1>1, <1>5, <1>7 DEF NewIds, Sessions
<1>10. new = NormalizeControlSession(changed) BY DEF StoreUpdateSeat, changed
<1>11. ASSUME ~TouchesRosterFields(patch) PROVE RosterOf(new) = RosterOf(session)
  <2>1. \A m \in Roster(session) : /\ changed.seats[m].role = session.seats[m].role
                                   /\ changed.seats[m].displayName = session.seats[m].displayName
    BY <1>2, <1>3, <1>6, <1>11 DEF Roster
  <2>2. RosterOf(changed) = RosterOf(session) BY <1>7, <2>1 DEF RosterOf
  <2> QED BY <1>5, <1>10, <2>2, NormalizedSession
<1>12. SessionOK(new) /\ SameRun(session, new) /\ NewIds(session, new)
  BY <1>5, <1>8, <1>9, <1>10, NormalizedStep DEF SessionOK
<1> QED BY <1>11, <1>12

LEMMA UpdatedSession ==
  ASSUME NEW session, SessionOK(session), NEW patch \in SessionPatches,
         ValidateSessionPatch(session, patch),
         NEW new, new = StoreUpdateSession(session, patch)
  PROVE  /\ SessionOK(new) /\ NewIds(session, new) /\ Forward(session, new)
         /\ RosterOf(new) = RosterOf(session)
         /\ ~RosterEditable(session.status) => new.title = session.title
<1> DEFINE changed == SpreadSession(session, patch)
<1>1. /\ session \in Sessions
      /\ patch \in [title : Texts \cup {None}, status : Statuses \cup {None},
                    recordingPhase : Phases \cup {None}, recordingHealth : Healths \cup {None}]
  BY DEF SessionOK, SessionPatches
<1>2. /\ Given(patch.title, session.title) \in Texts
      /\ Given(patch.status, session.status) \in Statuses
      /\ Given(patch.recordingPhase, session.recordingPhase) \in Phases
      /\ Given(patch.recordingHealth, session.recordingHealth) \in Healths
  BY <1>1 DEF Given, Sessions
<1>3. /\ changed \in Sessions
      /\ changed.title = Given(patch.title, session.title)
      /\ changed.status = Given(patch.status, session.status)
      /\ changed.recordingPhase = Given(patch.recordingPhase, session.recordingPhase)
      /\ changed.nextSeatNumber = session.nextSeatNumber
      /\ changed.seats = session.seats
  BY <1>1, <1>2 DEF SpreadSession, Sessions
<1>4. new = NormalizeControlSession(changed) BY DEF StoreUpdateSession
<1> HIDE DEF changed
<1>5. Roster(changed) = Roster(session) /\ RosterOf(changed) = RosterOf(session)
  BY <1>3 DEF Roster, RosterOf
<1>6. HasOperator(changed) BY <1>3, <1>5 DEF HasOperator, SessionOK
<1>7. /\ new \in Sessions /\ FollowsPhase(new) /\ HasOperator(new)
      /\ new.title = changed.title /\ new.status = changed.status
      /\ new.recordingPhase = changed.recordingPhase
      /\ new.nextSeatNumber = session.nextSeatNumber
      /\ Roster(new) = Roster(session) /\ RosterOf(new) = RosterOf(session)
  BY <1>3, <1>4, <1>5, <1>6, NormalizedSession
<1>8. NewIds(session, new) BY <1>1, <1>7 DEF NewIds, Sessions
<1>9. ~RosterEditable(session.status) => new.title = session.title
  BY <1>3, <1>7 DEF ValidateSessionPatch, FieldsMayChange, Given
<1>10. Forward(session, new)
  <2>1. ~RosterEditable(session.status) => ~RosterEditable(new.status)
    BY <1>3, <1>7 DEF ValidateSessionPatch, StatusMayMove, IsAllowedStatusTransition,
       RosterEditable, Given, FieldsMayChange
  <2>2. \/ new.recordingPhase = session.recordingPhase
        \/ IsAllowedRecordingPhaseTransition(session.recordingPhase, new.recordingPhase)
    BY <1>3, <1>7 DEF ValidateSessionPatch, PhaseMayMove, Given
  <2>3. /\ session.recordingPhase # "waiting" => new.recordingPhase # "waiting"
        /\ session.recordingPhase = "failed" => new.recordingPhase = "failed"
    BY <2>2 DEF IsAllowedRecordingPhaseTransition
  <2> QED BY <2>1, <2>3 DEF Forward
<1>11. FitsStatus(new)
  <2>1. ASSUME new.status \in {"draft", "ready"} PROVE new.recordingPhase = "waiting"
    <3>1. RosterEditable(session.status) BY <1>10, <2>1 DEF Forward, RosterEditable
    <3>2. session.recordingPhase = "waiting"
      BY <3>1 DEF RosterEditable, SessionOK, FitsStatus
    <3>3. patch.recordingPhase = None
      BY <1>3, <1>7, <2>1 DEF ValidateSessionPatch, PhaseMayMove
    <3> QED BY <1>3, <1>7, <3>2, <3>3 DEF Given
  <2>2. ASSUME new.status = "ended" PROVE new.recordingPhase \in {"stopped", "failed"}
    <3>1. patch.status = "ended"
      BY <1>3, <1>7, <2>2 DEF ValidateSessionPatch, FieldsMayChange, Given
    <3> QED BY <1>3, <1>7, <3>1 DEF ValidateSessionPatch, MayEnd
  <2> QED BY <2>1, <2>2 DEF FitsStatus
<1> QED BY <1>7, <1>8, <1>9, <1>10, <1>11 DEF SessionOK

-----------------------------------------------------------------------------
\* Requests and records.

\* Requests whoever sends them: with any patch that the parsers let through.
AnyRequests ==
  [kind : {"add seat"}, seat : {None}, patch : {None}]
    \cup [kind : {"remove seat"}, seat : SeatNumbers, patch : {None}]
    \cup [kind : {"patch seat"}, seat : SeatNumbers, patch : SeatPatches]
    \cup [kind : {"patch session"}, seat : {None}, patch : SessionPatches]

\* An accepted request takes a session that is in order to one that is.
LEMMA OutcomeOK ==
  ASSUME NEW record \in Records, SessionOK(record.session), NEW request \in AnyRequests,
         Accepts(record, request), NEW new, new = Outcome(record.session, request)
  PROVE  SessionOK(new) /\ StepOK(record, new)
<1> USE DEF StepOK
<1> DEFINE session == record.session
<1>1. SameRun(session, new) => /\ Forward(session, new)
                               /\ new.title = session.title
  BY DEF SameRun, Forward
<1>2. CASE request.kind = "add seat"
  <2>1. new = StoreCreateSeat(session) BY <1>2 DEF Outcome
  <2>2. ValidateRosterMutation(record) BY <1>2 DEF Accepts
  <2> QED BY <1>1, <1>2, <2>1, <2>2, CreatedSeat DEF ValidateRosterMutation, RosterEditable
<1>3. CASE request.kind = "remove seat"
  <2>1. new = StoreDeleteSeat(session, request.seat) BY <1>3 DEF Outcome
  <2>2. ValidateRosterMutation(record) /\ request.seat \in Roster(session)
    BY <1>3 DEF Accepts
  <2> QED BY <1>1, <2>1, <2>2, DeletedSeat DEF ValidateRosterMutation, RosterEditable
<1>4. CASE request.kind = "patch seat"
  <2>1. new = StoreUpdateSeat(session, request.seat, request.patch) BY <1>4 DEF Outcome
  <2>2. ValidateSeatPatch(record, request.patch) /\ request.seat \in Roster(session)
    BY <1>4 DEF Accepts
  <2>3. request.patch \in SeatPatches BY <1>4 DEF AnyRequests
  <2> QED BY <1>1, <2>1, <2>2, <2>3, UpdatedSeat DEF ValidateSeatPatch
<1>5. CASE request.kind = "patch session"
  <2>1. new = StoreUpdateSession(session, request.patch) BY <1>5 DEF Outcome
  <2>2. ValidateSessionPatch(session, request.patch) BY <1>5 DEF Accepts
  <2>3. request.patch \in SessionPatches BY <1>5 DEF AnyRequests
  <2>4. session.status # "ended" BY <2>2 DEF ValidateSessionPatch, FieldsMayChange
  <2>5. /\ SessionOK(new) /\ NewIds(session, new) /\ Forward(session, new)
        /\ RosterOf(new) = RosterOf(session)
        /\ ~RosterEditable(session.status) => new.title = session.title
    BY <2>1, <2>2, <2>3, UpdatedSession
  <2> QED BY <2>4, <2>5
<1> QED BY <1>2, <1>3, <1>4, <1>5 DEF AnyRequests

\* The fixture is a session, and so is what the configuration makes of it.
LEMMA InitialSeats == /\ CreateGuestSeat \in Seats
                      /\ \A role \in Roles : JoinedSeat(role) \in Seats
<1>1. CreateGuestSeat \in Seats
  BY OriginalIsText DEF CreateGuestSeat, Seats, Roles, Ownerships, LiveCalls, Captures, Uploads
<1>2. \A role \in Roles : JoinedSeat(role) \in Seats
  BY <1>1 DEF JoinedSeat, Seats, LiveCalls
<1> QED BY <1>1, <1>2

LEMMA InitialSession ==
  /\ CreateInitialSession \in Sessions
  /\ CreateInitialSession.status = "ready" /\ CreateInitialSession.recordingPhase = "waiting"
  /\ CreateInitialSession.nextSeatNumber = 4
  /\ CreateInitialSession.title = Original
  /\ CreateInitialSession.recordingHealth = "healthy"
  /\ HasOperator(CreateInitialSession)
<1> DEFINE seats == [n \in SeatNumbers |-> CASE n = 1 -> JoinedSeat("host")
                                              [] n = 2 -> JoinedSeat("guest")
                                              [] n = 3 -> CreateGuestSeat
                                              [] OTHER -> None]
<1>1. seats \in [SeatNumbers -> Seats \cup {None}] BY InitialSeats DEF Roles
<1>2. 1 \in SeatNumbers BY SeatNumbersAreNumbers
<1>3. seats[1] = JoinedSeat("host") BY <1>2
<1>4. JoinedSeat("host").role = "host" BY DEF JoinedSeat, CreateGuestSeat
<1> HIDE DEF seats
<1>5. CreateInitialSession = [title |-> Original, status |-> "ready", recordingPhase |-> "waiting",
        recordingHealth |-> "healthy", nextSeatNumber |-> 4, seats |-> seats]
  BY DEF CreateInitialSession, seats
<1>6. JoinedSeat("host") \in Seats BY InitialSeats DEF Roles
<1>7. HasOperator(CreateInitialSession)
  BY <1>2, <1>3, <1>4, <1>5, <1>6, NoneIsNoSeat DEF HasOperator, Roster, HostSeatId
<1> QED BY <1>1, <1>5, <1>7, OriginalIsText DEF Sessions, Statuses, Phases, Healths

LEMMA BootstrapSession ==
  /\ CreateBootstrapBoundSession \in Sessions
  /\ CreateBootstrapBoundSession.status = "ready"
  /\ CreateBootstrapBoundSession.recordingPhase = "waiting"
  /\ CreateBootstrapBoundSession.nextSeatNumber > HostSeatId
  /\ HasOperator(CreateBootstrapBoundSession)
<1> DEFINE named == {n \in SeatNumbers : BootstrapRoles[n] # None}
           seats == [n \in SeatNumbers |->
                       IF BootstrapRoles[n] = None THEN None ELSE BootstrapSeat(n)]
<1>1. \A n \in named : BootstrapSeat(n) \in Seats /\ BootstrapSeat(n).role = BootstrapRoles[n]
  <2> SUFFICES ASSUME NEW n \in named
               PROVE  BootstrapSeat(n) \in Seats /\ BootstrapSeat(n).role = BootstrapRoles[n]
    OBVIOUS
  <2> DEFINE template == IF n \in Roster(CreateInitialSession) THEN CreateInitialSession.seats[n]
                         ELSE IF BootstrapRoles[n] = "host" THEN JoinedSeat("host")
                         ELSE CreateGuestSeat
  <2>1. template \in Seats
    BY InitialSeats, InitialSession, SeatsOfRoster DEF Roles
  <2>2. BootstrapRoles[n] \in Roles BY BootstrapRolesOfSeats
  <2>3. BootstrapSeat(n) = [template EXCEPT !.displayName = Original, !.role = BootstrapRoles[n]]
    BY DEF BootstrapSeat
  <2> HIDE DEF template
  <2> QED BY <2>1, <2>2, <2>3, OriginalIsText DEF Seats
<1>2. seats \in [SeatNumbers -> Seats \cup {None}] BY <1>1
<1>3. HostSeatId \in named
  BY BootstrapRolesOfSeats, SeatNumbersAreNumbers, NoneIsNoValue DEF HostSeatId, Roles
<1>4. seats[HostSeatId] # None /\ seats[HostSeatId].role = "host"
  BY <1>1, <1>3, NoneIsNoSeat, BootstrapRolesOfSeats
<1>5. Cardinality(named) \in Nat /\ Cardinality(named) # 0
  BY <1>3, BootstrapRolesOfSeats, FS_CardinalityType, FS_EmptySet
<1>6. CreateBootstrapBoundSession =
        [CreateInitialSession EXCEPT !.nextSeatNumber = Cardinality(named) + 1, !.seats = seats]
  BY DEF CreateBootstrapBoundSession
<1>7. Cardinality(named) + 1 \in Nat /\ Cardinality(named) + 1 > 1 BY <1>5
<1>8. HostSeatId \in SeatNumbers BY <1>3
<1> HIDE DEF named, seats
<1>9. /\ CreateBootstrapBoundSession \in Sessions
      /\ CreateBootstrapBoundSession.status = "ready"
      /\ CreateBootstrapBoundSession.recordingPhase = "waiting"
      /\ CreateBootstrapBoundSession.nextSeatNumber = Cardinality(named) + 1
      /\ CreateBootstrapBoundSession.seats = seats
  BY <1>2, <1>6, <1>7, InitialSession DEF Sessions
<1> QED BY <1>4, <1>7, <1>8, <1>9 DEF HasOperator, Roster, HostSeatId

LEMMA CreatedRecord ==
  ASSUME NEW id \in SessionIds, NEW bound \in BOOLEAN, restarts \in 0..MaxRestarts,
         NEW keys \in RecordJoinKeys(id, bound),
         NEW record, record = CreateStoredSessionRecord(keys, bound)
  PROVE  record \in Records /\ SessionOK(record.session)
<1> DEFINE made == IF bound THEN CreateBootstrapBoundSession ELSE CreateInitialSession
<1>1. /\ made \in Sessions /\ made.status = "ready" /\ made.recordingPhase = "waiting"
      /\ made.nextSeatNumber > HostSeatId /\ HasOperator(made)
  BY InitialSession, BootstrapSession DEF HostSeatId
<1>2. keys \in [Roles -> JoinKeys]
  BY DEF RecordJoinKeys, CreateLocalJoinKeys, JoinKeys, DrawnKeys
<1>3. record = [joinKeys |-> keys, bound |-> bound, session |-> NormalizeControlSession(made)]
  BY DEF CreateStoredSessionRecord
<1> HIDE DEF made
<1>4. SessionOK(NormalizeControlSession(made))
  BY <1>1, NormalizedSession DEF SessionOK, FitsStatus
<1> QED BY <1>2, <1>3, <1>4 DEF Records, SessionOK

-----------------------------------------------------------------------------
\* The invariant, and the steps.

RecordsInOrder == \A id \in Stored : SessionOK(store[id].session)
ApiInv == ApiTypeOK /\ RecordsInOrder

\* A session that is put has a record of its own afterwards, with keys of its own or
\* the configuration's.
LEMMA MadeRecord ==
  ASSUME ApiInv, NEW id \in SessionIds, NEW bound \in BOOLEAN, EnsureSession(id, bound)
  PROVE  /\ store'[id] \in Records /\ store'[id] # None /\ SessionOK(store'[id].session)
         /\ restarts' = restarts
         /\ \A other \in SessionIds \ {id} : store'[other] = store[other]
<1>1. PICK keys \in RecordJoinKeys(id, bound) :
        store' = [store EXCEPT ![id] = CreateStoredSessionRecord(keys, bound)]
  BY DEF EnsureSession
<1> DEFINE record == CreateStoredSessionRecord(keys, bound)
<1>2. record \in Records /\ SessionOK(record.session) /\ record # None
  BY CreatedRecord, NoneIsNoRecord DEF ApiInv, ApiTypeOK
<1> HIDE DEF record
<1>3. store' = [store EXCEPT ![id] = record] BY <1>1 DEF record
<1>4. store'[id] = record BY <1>3 DEF ApiInv, ApiTypeOK
<1>5. \A other \in SessionIds \ {id} : store'[other] = store[other]
  BY <1>3 DEF ApiInv, ApiTypeOK
<1> QED BY <1>2, <1>4, <1>5 DEF EnsureSession

LEMMA HandleKeepsOrder ==
  ASSUME ApiInv, NEW id \in SessionIds, NEW request \in AnyRequests, Handle(id, request)
  PROVE  /\ ApiInv'
         /\ \A other \in Stored \ {id} : store'[other] = store[other]
         /\ id \in Stored /\ id \in Stored'
         /\ StepOK(store[id], store'[id].session)
<1> DEFINE record == store[id]
           new == Outcome(record.session, request)
<1>1. store \in [SessionIds -> Records \cup {None}] /\ restarts \in 0..MaxRestarts
  BY DEF ApiInv, ApiTypeOK
<1>2. /\ record # None /\ Accepts(record, request) /\ restarts' = restarts
      /\ store' = [store EXCEPT ![id].session = new]
  BY DEF Handle
<1>3. id \in Stored /\ record \in Records /\ SessionOK(record.session)
  BY <1>1, <1>2 DEF Stored, ApiInv, RecordsInOrder
<1>4. SessionOK(new) /\ StepOK(record, new)
  BY <1>2, <1>3, OutcomeOK
<1> HIDE DEF new
<1>5. [record EXCEPT !.session = new] \in Records /\ [record EXCEPT !.session = new].session = new
  BY <1>3, <1>4 DEF Records, SessionOK
<1>6. /\ store' = [store EXCEPT ![id] = [record EXCEPT !.session = new]]
      /\ store'[id] \in Records /\ store'[id].session = new
      /\ \A other \in SessionIds \ {id} : store'[other] = store[other]
  BY <1>1, <1>2, <1>5
<1>7. ApiTypeOK' BY <1>1, <1>2, <1>5, <1>6 DEF ApiTypeOK
<1>8. RecordsInOrder' BY <1>3, <1>4, <1>6 DEF RecordsInOrder, Stored, ApiInv
<1>9. id \in Stored' BY <1>6, NoneIsNoRecord DEF Stored
<1> QED BY <1>3, <1>4, <1>6, <1>7, <1>8, <1>9 DEF ApiInv, Stored

\* The requests are handled like this, whatever they carry.
LEMMA HandledRequest ==
  ASSUME NEW id \in SessionIds,
         \/ CreateSeat(id)
         \/ \E n \in SeatNumbers : DeleteSeat(id, n)
         \/ \E n \in SeatNumbers, patch \in SeatEdits : UpdateSeat(id, n, patch)
         \/ \E patch \in SessionEdits : UpdateSession(id, patch)
  PROVE  \E request \in Requests : Handle(id, request)
<1>1. CASE CreateSeat(id)
  BY <1>1 DEF CreateSeat, Requests, AddSeatRequest
<1>2. ASSUME NEW n \in SeatNumbers, DeleteSeat(id, n)
      PROVE  Handle(id, RemoveSeatRequest(n)) /\ RemoveSeatRequest(n) \in Requests
  BY <1>2 DEF DeleteSeat, Requests, RemoveSeatRequest
<1>3. ASSUME NEW n \in SeatNumbers, NEW patch \in SeatEdits, UpdateSeat(id, n, patch)
      PROVE  Handle(id, PatchSeatRequest(n, patch)) /\ PatchSeatRequest(n, patch) \in Requests
  BY <1>3 DEF UpdateSeat, Requests, PatchSeatRequest
<1>4. ASSUME NEW patch \in SessionEdits, UpdateSession(id, patch)
      PROVE  Handle(id, PatchSessionRequest(patch)) /\ PatchSessionRequest(patch) \in Requests
  BY <1>4 DEF UpdateSession, Requests, PatchSessionRequest
<1> QED BY <1>1, <1>2, <1>3, <1>4

\* A step of the process that is not a restart leaves each record alone or lets a
\* request change it.
RecordsStep ==
  restarts' = restarts =>
    \A id \in Stored : store'[id] = store[id] \/ StepOK(store[id], store'[id].session)

\* Every step of the API is such a step and keeps the records in order.
LEMMA ApiStep ==
  ASSUME ApiInv, ApiNext
  PROVE  ApiInv' /\ RecordsStep
<1>1. ASSUME NEW id \in SessionIds, NEW bound \in BOOLEAN, EnsureSession(id, bound)
      PROVE  ApiInv' /\ \A other \in Stored : store'[other] = store[other]
  <2>1. /\ store'[id] \in Records /\ SessionOK(store'[id].session)
        /\ restarts' = restarts /\ store[id] = None
        /\ \A other \in SessionIds \ {id} : store'[other] = store[other]
    BY <1>1, MadeRecord DEF EnsureSession
  <2>2. DOMAIN store' = SessionIds /\ store' = [other \in SessionIds |-> store'[other]]
    BY <1>1 DEF EnsureSession, ApiInv, ApiTypeOK
  <2>3. ApiTypeOK' BY <2>1, <2>2 DEF ApiInv, ApiTypeOK
  <2>4. RecordsInOrder' BY <2>1 DEF RecordsInOrder, Stored, ApiInv
  <2> QED BY <2>1, <2>3, <2>4 DEF ApiInv, Stored
<1>2. ASSUME NEW id \in SessionIds, NEW request \in Requests, Handle(id, request)
      PROVE  /\ ApiInv'
             /\ \A other \in Stored :
                  store'[other] = store[other] \/ StepOK(store[other], store'[other].session)
  <2>1. request \in AnyRequests BY EditsArePatches DEF Requests, AnyRequests
  <2> QED BY <1>2, <2>1, HandleKeepsOrder
<1>3. ASSUME Restart PROVE ApiInv' /\ restarts' # restarts
  <2>1. store' = [id \in SessionIds |-> None] /\ restarts' = restarts + 1 /\ restarts < MaxRestarts
    BY <1>3 DEF Restart
  <2>2. ApiTypeOK' /\ restarts' # restarts
    BY <2>1, MaxRestartsIsNat DEF ApiInv, ApiTypeOK
  <2>3. RecordsInOrder' BY <2>1 DEF RecordsInOrder, Stored
  <2> QED BY <2>2, <2>3 DEF ApiInv
<1> QED BY <1>1, <1>2, <1>3, HandledRequest DEF ApiNext, RecordsStep

LEMMA ApiInvariant == ApiSpec => []ApiInv
<1>1. ApiInit => ApiInv
  BY MaxRestartsIsNat DEF ApiInit, ApiInv, ApiTypeOK, RecordsInOrder, Stored
<1>2. ApiInv /\ UNCHANGED apiVars => ApiInv'
  BY DEF ApiInv, ApiTypeOK, RecordsInOrder, Stored, apiVars
<1>3. ApiInv /\ [ApiNext]_apiVars => ApiInv'
  BY <1>2, ApiStep
<1> QED BY <1>1, <1>3, PTL DEF ApiSpec

-----------------------------------------------------------------------------
\* What the store keeps true.

\* Every record is one the store can hold (store.ts, sessions.ts).
THEOREM ApiTypeCorrect == ApiSpec => []ApiTypeOK
<1>1. ApiInv => ApiTypeOK BY DEF ApiInv
<1> QED BY <1>1, ApiInvariant, PTL

\* What a seat shows always follows from its session's phase (store.ts: every
\* change is normalized before it is kept).
THEOREM SeatsAlwaysFollowPhase == ApiSpec => []SeatsFollowPhase
<1>1. ApiInv => SeatsFollowPhase
  BY DEF ApiInv, RecordsInOrder, SessionOK, FollowsPhase, SeatsFollowPhase
<1> QED BY <1>1, ApiInvariant, PTL

\* The operator's seat is there and is a host's, whatever was added, removed and
\* patched (seats.ts: patchSessionSeat, removeSessionSeat).
THEOREM OperatorSeatAlwaysStays == ApiSpec => []OperatorSeatStays
<1>1. ApiInv => OperatorSeatStays
  BY DEF ApiInv, RecordsInOrder, SessionOK, HasOperator, OperatorSeatStays
<1> QED BY <1>1, ApiInvariant, PTL

\* Nothing was recorded before a session is active, and it ends only with its
\* recording stopped or failed (transitions.ts: validateSessionPatch).
THEOREM PhaseAlwaysFitsStatus == ApiSpec => []PhaseFitsStatus
<1>1. ApiInv => PhaseFitsStatus
  BY DEF ApiInv, RecordsInOrder, SessionOK, FitsStatus, PhaseFitsStatus
<1> QED BY <1>1, ApiInvariant, PTL

-----------------------------------------------------------------------------
\* What its steps keep, whoever takes them.

\* What SeatIdsAreNew, RosterIsFinal and RunMovesForward say of a step.
KeepsIds ==
  restarts' = restarts => \A id \in Stored : ~store[id].bound =>
    LET before == store[id].session  after == store'[id].session IN
      /\ after.nextSeatNumber >= before.nextSeatNumber
      /\ \A n \in Roster(after) \ Roster(before) :
           n >= before.nextSeatNumber /\ n < after.nextSeatNumber
KeepsRoster ==
  restarts' = restarts => \A id \in Stored :
    /\ store[id].session.status = "ended" => store'[id] = store[id]
    /\ ~RosterEditable(store[id].session.status) =>
         store'[id].session.title = store[id].session.title
    /\ store[id].bound \/ ~RosterEditable(store[id].session.status) =>
         RosterOf(store'[id].session) = RosterOf(store[id].session)
KeepsRun ==
  restarts' = restarts => \A id \in Stored :
    LET before == store[id].session  after == store'[id].session IN
      /\ ~RosterEditable(before.status) => ~RosterEditable(after.status)
      /\ before.recordingPhase # "waiting" => after.recordingPhase # "waiting"
      /\ before.recordingPhase = "failed" => after.recordingPhase = "failed"

LEMMA StepKeeps ==
  ASSUME ApiInv, RecordsStep PROVE KeepsIds /\ KeepsRoster /\ KeepsRun
<1>1. KeepsIds
  <2> SUFFICES ASSUME restarts' = restarts, NEW id \in Stored
               PROVE  NewIds(store[id].session, store'[id].session)
    BY DEF KeepsIds, NewIds
  <2>1. store'[id] = store[id] \/ NewIds(store[id].session, store'[id].session)
    BY DEF RecordsStep, StepOK
  <2>2. store[id].session.nextSeatNumber \in Nat
    BY DEF ApiInv, RecordsInOrder, SessionOK, Sessions
  <2> QED BY <2>1, <2>2 DEF NewIds
<1>2. KeepsRoster BY DEF KeepsRoster, RecordsStep, StepOK
<1>3. KeepsRun BY DEF KeepsRun, RecordsStep, StepOK, Forward
<1> QED BY <1>1, <1>2, <1>3

\* No number is given to a second seat while the process runs (store.ts:
\* nextSeatNumber).
THEOREM SeatIdsAlwaysNew == ApiSpec => SeatIdsAreNew
<1>1. ApiInv /\ [ApiNext]_apiVars => [KeepsIds]_apiVars BY ApiStep, StepKeeps
<1>2. ApiSpec => [][KeepsIds]_apiVars BY <1>1, ApiInvariant, PTL DEF ApiSpec
<1> QED BY <1>2 DEF SeatIdsAreNew, KeepsIds

\* Title, roster and roles of an activated session are final, and all of an
\* ended one (transitions.ts: validateSessionPatch, validateRosterMutation).
THEOREM RosterAlwaysFinal == ApiSpec => RosterIsFinal
<1>1. ApiInv /\ [ApiNext]_apiVars => [KeepsRoster]_apiVars BY ApiStep, StepKeeps
<1>2. ApiSpec => [][KeepsRoster]_apiVars BY <1>1, ApiInvariant, PTL DEF ApiSpec
<1> QED BY <1>2 DEF RosterIsFinal, KeepsRoster

\* A session never goes back to before its run, and never leaves a failed
\* recording (transitions.ts: isAllowedStatusTransition and its sibling).
THEOREM RunAlwaysMovesForward == ApiSpec => RunMovesForward
<1>1. ApiInv /\ [ApiNext]_apiVars => [KeepsRun]_apiVars BY ApiStep, StepKeeps
<1>2. ApiSpec => [][KeepsRun]_apiVars BY <1>1, ApiInvariant, PTL DEF ApiSpec
<1> QED BY <1>2 DEF RunMovesForward, KeepsRun
=============================================================================
