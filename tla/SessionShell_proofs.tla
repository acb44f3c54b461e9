------------------------- MODULE SessionShell_proofs -------------------------
(***************************************************************************)
(* Proofs about the session app behind a role link, for every roster, any  *)
(* number of devices and any number of clicks.  InOrder is what holds of a *)
(* session before it is normalized as well as after; every action of the   *)
(* reducer takes a session in order to one, and normalizing keeps it so.   *)
(***************************************************************************)
EXTENDS SessionShell, FiniteSetTheorems, WellFoundedInduction, TLAPS

-----------------------------------------------------------------------------
\* Seats.

LEMMA SameSeat ==
  ASSUME NEW s \in ShellSeats, NEW t \in ShellSeats,
         s.claimState = t.claimState, s.joined = t.joined,
         s.ownershipStatus = t.ownershipStatus, s.pickerState = t.pickerState,
         s.liveCallStatus = t.liveCallStatus, s.localCaptureStatus = t.localCaptureStatus,
         s.uploadStatus = t.uploadStatus, s.micMuted = t.micMuted,
         s.cameraEnabled = t.cameraEnabled, s.screenShareActive = t.screenShareActive,
         s.selectedMic = t.selectedMic, s.selectedCamera = t.selectedCamera
  PROVE  s = t
  BY DEF ShellSeats

\* Whether another browser uses a seat, before the picker says so.
InUse(s, id) ==
  /\ id # s.ownedSeatId
  /\ s.seats[id].claimState # "disconnected"
  /\ s.seats[id].claimState = "active" \/ s.seats[id].ownershipStatus = "takeover_required"

SameSignals(s, t) ==
  s.ownedSeatId = t.ownedSeatId /\ s.joinedSeatId = t.joinedSeatId
    /\ s.recordingPhase = t.recordingPhase

\* The signals of a seat that is, or is not, in the room.
Live(joined) == IF joined THEN "connected" ELSE "disconnected"
Capture(joined, claim, phase) ==
  CASE joined -> PhaseJoinedCaptureStatus(phase)
    [] ~joined /\ claim = "disconnected" -> PhaseInterruptedCaptureStatus(phase)
    [] OTHER -> "not_recording"
Upload(joined, claim, phase) ==
  CASE joined -> PhaseJoinedUploadStatus(phase)
    [] ~joined /\ claim = "disconnected" -> PhaseBacklogStatus(phase)
    [] OTHER -> "synced"

\* What normalizing makes of one seat.
LEMMA NormalizedSeat ==
  ASSUME NEW s \in SessionShells, NEW id \in SeatIds, NEW seat \in ShellSeats,
         NEW new, new = NormalizeSeat(s, id, seat)
  PROVE  /\ new \in ShellSeats
         /\ new.claimState = seat.claimState
         /\ new.joined = (seat.claimState = "active" /\ (id = s.joinedSeatId \/ seat.joined))
         /\ new.ownershipStatus = NormalizedOwnership(seat, new.joined)
         /\ new.pickerState = NormalizedPicker(s, id, seat, new.ownershipStatus)
         /\ new.screenShareActive = seat.screenShareActive
         /\ new.selectedMic = seat.selectedMic /\ new.selectedCamera = seat.selectedCamera
         /\ new.micMuted = seat.micMuted /\ new.cameraEnabled = seat.cameraEnabled
         /\ new.liveCallStatus = Live(new.joined)
         /\ new.localCaptureStatus = Capture(new.joined, seat.claimState, s.recordingPhase)
         /\ new.uploadStatus = Upload(new.joined, seat.claimState, s.recordingPhase)
<1> DEFINE joined == seat.claimState = "active" /\ (id = s.joinedSeatId \/ seat.joined)
           phase == s.recordingPhase
           ownership == NormalizedOwnership(seat, joined)
           picker == NormalizedPicker(s, id, seat, ownership)
<1>1. phase \in ShellPhases BY DEF SessionShells
<1>2. /\ PhaseJoinedCaptureStatus(phase) \in {"not_recording", "recording", "issue"}
      /\ PhaseInterruptedCaptureStatus(phase) \in {"not_recording", "recording", "issue"}
      /\ PhaseJoinedUploadStatus(phase) \in {"synced", "uploading", "catching_up", "failed"}
      /\ PhaseBacklogStatus(phase) \in {"synced", "uploading", "catching_up", "failed"}
  BY <1>1 DEF PhaseJoinedCaptureStatus, PhaseInterruptedCaptureStatus, PhaseJoinedUploadStatus,
     PhaseBacklogStatus, ShellPhases
<1>3. ownership \in {"clear", "rejoin_available", "takeover_required"}
  BY DEF NormalizedOwnership
<1>4. picker \in {"available", "you", "in_use", "rejoin_available"}
  BY DEF NormalizedPicker
<1>5. joined \in BOOLEAN OBVIOUS
<1>6. /\ Live(joined) \in {"connected", "reconnecting", "disconnected"}
      /\ Capture(joined, seat.claimState, phase) \in {"not_recording", "recording", "issue"}
      /\ Upload(joined, seat.claimState, phase)
           \in {"synced", "uploading", "catching_up", "failed"}
  BY <1>2 DEF Live, Capture, Upload
<1>7. PICK live \in {"connected", "reconnecting", "disconnected"},
           capture \in {"not_recording", "recording", "issue"},
           upload \in {"synced", "uploading", "catching_up", "failed"} :
        /\ live = Live(joined)
        /\ capture = Capture(joined, seat.claimState, phase)
        /\ upload = Upload(joined, seat.claimState, phase)
  BY <1>6
<1>8. new = [seat EXCEPT !.joined = joined, !.liveCallStatus = live,
               !.localCaptureStatus = capture, !.ownershipStatus = ownership,
               !.pickerState = picker, !.uploadStatus = upload]
  BY <1>7 DEF NormalizeSeat, Live, Capture, Upload
<1> HIDE DEF joined, ownership, picker, phase
<1>9. new \in ShellSeats
  BY <1>3, <1>4, <1>5, <1>8 DEF ShellSeats
<1>10. /\ new.claimState = seat.claimState
       /\ new.joined = joined /\ new.ownershipStatus = ownership /\ new.pickerState = picker
       /\ new.screenShareActive = seat.screenShareActive
       /\ new.liveCallStatus = live /\ new.localCaptureStatus = capture
       /\ new.uploadStatus = upload
  BY <1>8 DEF ShellSeats
<1>11. /\ new.selectedMic = seat.selectedMic /\ new.selectedCamera = seat.selectedCamera
       /\ new.micMuted = seat.micMuted /\ new.cameraEnabled = seat.cameraEnabled
  BY <1>8 DEF ShellSeats
<1> QED BY <1>7, <1>9, <1>10, <1>11 DEF joined, ownership, picker, phase

\* A seat is normalized once and for all: the session it belongs to may be
\* another one, as long as ownership, room and phase are the same.
LEMMA NormalizedOnce ==
  ASSUME NEW s \in SessionShells, NEW t \in SessionShells, SameSignals(s, t),
         NEW id \in SeatIds, NEW seat \in ShellSeats,
         NEW new, new = NormalizeSeat(s, id, seat)
  PROVE  NormalizeSeat(t, id, new) = new
<1>1. PICK again : again = NormalizeSeat(t, id, new) OBVIOUS
<1>2. /\ new \in ShellSeats
      /\ new.claimState = seat.claimState
      /\ new.joined = (seat.claimState = "active" /\ (id = s.joinedSeatId \/ seat.joined))
      /\ new.ownershipStatus = NormalizedOwnership(seat, new.joined)
      /\ new.pickerState = NormalizedPicker(s, id, seat, new.ownershipStatus)
  BY NormalizedSeat
<1>3. /\ again \in ShellSeats
      /\ again.claimState = new.claimState
      /\ again.joined = (new.claimState = "active" /\ (id = t.joinedSeatId \/ new.joined))
      /\ again.ownershipStatus = NormalizedOwnership(new, again.joined)
      /\ again.pickerState = NormalizedPicker(t, id, new, again.ownershipStatus)
      /\ again.screenShareActive = new.screenShareActive
      /\ again.selectedMic = new.selectedMic /\ again.selectedCamera = new.selectedCamera
      /\ again.micMuted = new.micMuted /\ again.cameraEnabled = new.cameraEnabled
  BY <1>1, <1>2, NormalizedSeat
<1>4. again.joined = new.joined
  BY <1>2, <1>3 DEF SameSignals
<1>5. again.ownershipStatus = new.ownershipStatus
  BY <1>2, <1>3, <1>4 DEF NormalizedOwnership
<1>6. again.pickerState = new.pickerState
  BY <1>2, <1>3, <1>5 DEF NormalizedPicker, SameSignals
<1>7. /\ new.liveCallStatus = Live(new.joined)
      /\ new.localCaptureStatus = Capture(new.joined, seat.claimState, s.recordingPhase)
      /\ new.uploadStatus = Upload(new.joined, seat.claimState, s.recordingPhase)
      /\ again.liveCallStatus = Live(again.joined)
      /\ again.localCaptureStatus = Capture(again.joined, new.claimState, t.recordingPhase)
      /\ again.uploadStatus = Upload(again.joined, new.claimState, t.recordingPhase)
  BY <1>1, <1>2, NormalizedSeat
<1>8. /\ again.liveCallStatus = new.liveCallStatus
      /\ again.localCaptureStatus = new.localCaptureStatus
      /\ again.uploadStatus = new.uploadStatus
  BY <1>2, <1>4, <1>7 DEF SameSignals
<1>9. again = new
  BY <1>2, <1>3, <1>4, <1>5, <1>6, <1>8, SameSeat
<1> QED BY <1>1, <1>9

-----------------------------------------------------------------------------
\* Sessions.

\* What holds of a session, normalized or about to be.
InOrder(s) ==
  /\ s \in SessionShells
  /\ s.selectedSeatId \in {None, s.ownedSeatId}
  /\ s.ownedSeatId # None =>
       /\ s.ownedSeatId \in RoleSeats
       /\ s.seats[s.ownedSeatId].claimState # "unclaimed"
       /\ s.seats[s.ownedSeatId].joined => s.joinedSeatId # None
  /\ s.joinedSeatId # None =>
       /\ s.joinedSeatId = s.ownedSeatId /\ s.selectedSeatId = s.ownedSeatId
       /\ s.seats[s.joinedSeatId].claimState = "active"
       /\ s.seats[s.joinedSeatId].selectedMic = s.previewMic
       /\ s.seats[s.joinedSeatId].selectedCamera = s.previewCamera
  /\ \A id \in RoleSeats \ {s.ownedSeatId} :
       s.seats[id].claimState = "active" => s.seats[id].joined
  /\ \A id \in SeatIds : s.seats[id].screenShareActive => id = s.joinedSeatId

Settled(s) ==
  /\ NormalizeSessionState(s) = s
  /\ \A id \in SeatIds : s.seats[id].pickerState = "in_use" <=> InUse(s, id)
  /\ s.joinedSeatId # None => s.seats[s.joinedSeatId].joined

\* The fields of a session that normalizing leaves alone.
SameSession(s, t) ==
  /\ s.joinedSeatId = t.joinedSeatId /\ s.ownedSeatId = t.ownedSeatId
  /\ s.selectedSeatId = t.selectedSeatId
  /\ s.previewMic = t.previewMic /\ s.previewCamera = t.previewCamera
  /\ s.recordingPhase = t.recordingPhase /\ s.recordingHealth = t.recordingHealth

\* A session in order is normalized to one that is, and once and for all.
LEMMA NormalizedSession ==
  ASSUME NEW s, InOrder(s), NEW new, new = NormalizeSessionState(s)
  PROVE  /\ InOrder(new) /\ Settled(new) /\ SameSession(s, new)
         /\ \A id \in SeatIds : InUse(new, id) <=> InUse(s, id)
<1> DEFINE seats == [id \in SeatIds |-> NormalizeSeat(s, id, s.seats[id])]
<1>1. s \in SessionShells /\ \A id \in SeatIds : s.seats[id] \in ShellSeats
  BY DEF InOrder, SessionShells
<1>2. \A id \in SeatIds :
        /\ seats[id] \in ShellSeats
        /\ seats[id].claimState = s.seats[id].claimState
        /\ seats[id].joined = (s.seats[id].claimState = "active"
                               /\ (id = s.joinedSeatId \/ s.seats[id].joined))
        /\ seats[id].ownershipStatus = NormalizedOwnership(s.seats[id], seats[id].joined)
        /\ seats[id].pickerState
             = NormalizedPicker(s, id, s.seats[id], seats[id].ownershipStatus)
        /\ seats[id].screenShareActive = s.seats[id].screenShareActive
        /\ seats[id].selectedMic = s.seats[id].selectedMic
        /\ seats[id].selectedCamera = s.seats[id].selectedCamera
  BY <1>1, NormalizedSeat
<1>3. seats \in [SeatIds -> ShellSeats] BY <1>2
<1>4. new = [s EXCEPT !.seats = seats] BY DEF NormalizeSessionState
<1> HIDE DEF seats
<1>5. new \in SessionShells /\ new.seats = seats /\ SameSession(s, new)
  BY <1>1, <1>3, <1>4 DEF SessionShells, SameSession
<1>6. NormalizeSessionState(new) = new
  <2>1. \A id \in SeatIds : NormalizeSeat(new, id, seats[id]) = seats[id]
    <3> SUFFICES ASSUME NEW id \in SeatIds
                 PROVE  NormalizeSeat(new, id, seats[id]) = seats[id]
      OBVIOUS
    <3>1. SameSignals(s, new) BY <1>5 DEF SameSignals, SameSession
    <3>2. seats[id] = NormalizeSeat(s, id, s.seats[id]) BY DEF seats
    <3> QED BY <1>1, <1>5, <3>1, <3>2, NormalizedOnce
  <2>2. [id \in SeatIds |-> NormalizeSeat(new, id, new.seats[id])] = seats
    BY <1>3, <1>5, <2>1
  <2>3. [new EXCEPT !.seats = seats] = new BY <1>5 DEF SessionShells
  <2> QED BY <2>2, <2>3 DEF NormalizeSessionState
<1>7. \A id \in SeatIds : InUse(new, id) <=> InUse(s, id)
  BY <1>2, <1>5 DEF InUse, SameSession, NormalizedOwnership
<1>8. \A id \in SeatIds : new.seats[id].pickerState = "in_use" <=> InUse(s, id)
  <2> SUFFICES ASSUME NEW id \in SeatIds
               PROVE  seats[id].pickerState = "in_use" <=> InUse(s, id)
    BY <1>5
  <2>1. seats[id].ownershipStatus \in {"clear", "rejoin_available", "takeover_required"}
    BY <1>2 DEF ShellSeats
  <2>2. s.seats[id].claimState # "disconnected" =>
          (seats[id].ownershipStatus = "takeover_required"
             <=> s.seats[id].ownershipStatus = "takeover_required")
    BY <1>2 DEF NormalizedOwnership
  <2>3. s.seats[id].claimState = "disconnected" =>
          seats[id].ownershipStatus # "takeover_required"
    BY <1>2 DEF NormalizedOwnership
  <2>4. seats[id].pickerState
          = NormalizedPicker(s, id, s.seats[id], seats[id].ownershipStatus)
    BY <1>2
  <2>5. seats[id].pickerState = "in_use" <=>
          /\ id # s.ownedSeatId
          /\ seats[id].ownershipStatus = "takeover_required" \/ s.seats[id].claimState = "active"
    BY <2>4 DEF NormalizedPicker
  <2> QED BY <2>2, <2>3, <2>5 DEF InUse
<1>9. RoleSeats \subseteq SeatIds BY DEF RoleSeats
<1>10. /\ s.joinedSeatId # None => s.joinedSeatId \in SeatIds
       /\ s.ownedSeatId # None => s.ownedSeatId \in SeatIds
  BY <1>1 DEF SessionShells
<1>11. InOrder(new)
  <2>1. new.selectedSeatId \in {None, new.ownedSeatId}
    BY <1>5 DEF InOrder, SameSession
  <2>2. ASSUME s.ownedSeatId # None
        PROVE  /\ s.ownedSeatId \in RoleSeats
               /\ seats[s.ownedSeatId].claimState # "unclaimed"
               /\ seats[s.ownedSeatId].joined => s.joinedSeatId # None
    BY <1>2, <1>10, <2>2, NoneIsNoSeat DEF InOrder
  <2>3. ASSUME s.joinedSeatId # None
        PROVE  /\ s.joinedSeatId = s.ownedSeatId /\ s.selectedSeatId = s.ownedSeatId
               /\ seats[s.joinedSeatId].claimState = "active"
               /\ seats[s.joinedSeatId].selectedMic = s.previewMic
               /\ seats[s.joinedSeatId].selectedCamera = s.previewCamera
    BY <1>2, <1>10, <2>3 DEF InOrder
  <2>4. \A id \in RoleSeats \ {s.ownedSeatId} :
          seats[id].claimState = "active" => seats[id].joined
    <3> SUFFICES ASSUME NEW id \in RoleSeats \ {s.ownedSeatId}, seats[id].claimState = "active"
                 PROVE  seats[id].joined
      OBVIOUS
    <3>1. id \in SeatIds BY <1>9
    <3>2. s.seats[id].claimState = "active" BY <1>2, <3>1
    <3>3. s.seats[id].joined BY <3>2 DEF InOrder
    <3> QED BY <1>2, <3>1, <3>2, <3>3
  <2>5. \A id \in SeatIds : seats[id].screenShareActive => id = s.joinedSeatId
    BY <1>2 DEF InOrder
  <2> QED BY <1>5, <2>1, <2>2, <2>3, <2>4, <2>5 DEF InOrder, SameSession
<1>12. Settled(new)
  BY <1>2, <1>5, <1>6, <1>7, <1>8, <1>10 DEF Settled, InOrder, SameSession
<1> QED BY <1>5, <1>7, <1>11, <1>12

-----------------------------------------------------------------------------
\* What the actions make of a session before it is normalized.

LEMMA GivenUpSeat ==
  ASSUME NEW seat \in ShellSeats, NEW claim \in {"unclaimed", "active", "disconnected"}
  PROVE  /\ Unjoined(seat, claim) \in ShellSeats
         /\ Unjoined(seat, claim).claimState = claim
         /\ ~Unjoined(seat, claim).joined
         /\ ~Unjoined(seat, claim).screenShareActive
  BY DEF Unjoined, ShellSeats

\* Claiming a seat gives up the one owned before and touches no other one.
LEMMA ClaimedSeat ==
  ASSUME NEW s, InOrder(s), s.joinedSeatId = None, NEW id \in RoleSeats,
         NEW claimed, claimed = ClaimSeat(s, id)
  PROVE  /\ InOrder(claimed)
         /\ claimed.joinedSeatId = None /\ claimed.ownedSeatId = id
         /\ \A t \in SeatIds \ {id} : InUse(s, t) => InUse(claimed, t)
<1> DEFINE seats == [t \in SeatIds |->
                       CASE t = id -> Unjoined(s.seats[t], "active")
                         [] t # id /\ t = s.ownedSeatId -> GivenUp(s.seats[t])
                         [] OTHER -> s.seats[t]]
<1>1. s \in SessionShells /\ id \in SeatIds /\ \A t \in SeatIds : s.seats[t] \in ShellSeats
  BY DEF InOrder, SessionShells, RoleSeats
<1>2. /\ seats[id] \in ShellSeats /\ seats[id].claimState = "active"
      /\ ~seats[id].joined /\ ~seats[id].screenShareActive
  <2>1. seats[id] = Unjoined(s.seats[id], "active") BY <1>1
  <2> HIDE DEF seats
  <2> QED BY <1>1, <2>1, GivenUpSeat
<1>3. \A t \in SeatIds \ {id} :
        \/ t # s.ownedSeatId /\ seats[t] = s.seats[t]
        \/ /\ t = s.ownedSeatId
           /\ seats[t] \in ShellSeats /\ seats[t].claimState \in {"unclaimed", "disconnected"}
           /\ ~seats[t].joined /\ ~seats[t].screenShareActive
  <2> SUFFICES ASSUME NEW t \in SeatIds \ {id}, t = s.ownedSeatId
               PROVE  /\ seats[t] \in ShellSeats
                      /\ seats[t].claimState \in {"unclaimed", "disconnected"}
                      /\ ~seats[t].joined /\ ~seats[t].screenShareActive
    OBVIOUS
  <2>1. seats[t] = GivenUp(s.seats[t]) OBVIOUS
  <2>2. PICK claim \in {"unclaimed", "disconnected"} :
          claim = IF s.seats[t].claimState = "disconnected" THEN "disconnected" ELSE "unclaimed"
    OBVIOUS
  <2>3. seats[t] = Unjoined(s.seats[t], claim) BY <2>1, <2>2 DEF GivenUp
  <2> HIDE DEF seats
  <2> QED BY <1>1, <2>3, GivenUpSeat
<1>4. seats \in [SeatIds -> ShellSeats] BY <1>1, <1>2, <1>3
<1>5. claimed = [s EXCEPT !.ownedSeatId = id, !.selectedSeatId = id, !.seats = seats]
  BY DEF ClaimSeat
<1> HIDE DEF seats
<1>6. /\ claimed \in SessionShells /\ claimed.seats = seats
      /\ claimed.ownedSeatId = id /\ claimed.selectedSeatId = id
      /\ claimed.joinedSeatId = None
  BY <1>1, <1>4, <1>5 DEF SessionShells
<1>7. RoleSeats \subseteq SeatIds BY DEF RoleSeats
<1>8. \A t \in RoleSeats \ {id} : seats[t].claimState = "active" => seats[t].joined
  BY <1>3, <1>7 DEF InOrder
<1>9. \A t \in SeatIds : ~seats[t].screenShareActive
  BY <1>2, <1>3, NoneIsNoSeat DEF InOrder
<1>10. InOrder(claimed)
  BY <1>2, <1>6, <1>8, <1>9, NoneIsNoSeat DEF InOrder
<1>11. \A t \in SeatIds \ {id} : InUse(s, t) => InUse(claimed, t)
  BY <1>3, <1>6 DEF InUse
<1> QED BY <1>6, <1>10, <1>11

\* A change that moves no seat in or out of the room, nor from one owner to
\* another.
WithSeat(s, seat) ==
  [s EXCEPT !.seats[s.joinedSeatId] = seat, !.previewMic = seat.selectedMic,
            !.previewCamera = seat.selectedCamera]
LEMMA ChangedSeat ==
  ASSUME NEW s, InOrder(s), s.joinedSeatId # None, NEW seat \in ShellSeats,
         seat.claimState = "active", seat.joined,
         NEW changed, changed = WithSeat(s, seat)
  PROVE  /\ InOrder(changed) /\ changed.ownedSeatId = s.ownedSeatId
         /\ \A t \in SeatIds : InUse(s, t) => InUse(changed, t)
<1> DEFINE room == s.joinedSeatId
<1>1. s \in SessionShells /\ room \in SeatIds /\ room = s.ownedSeatId
  BY DEF InOrder, SessionShells
<1>2. /\ changed \in SessionShells
      /\ changed.seats = [s.seats EXCEPT ![room] = seat]
      /\ changed.ownedSeatId = s.ownedSeatId /\ changed.selectedSeatId = s.selectedSeatId
      /\ changed.joinedSeatId = room
      /\ changed.previewMic = seat.selectedMic /\ changed.previewCamera = seat.selectedCamera
  <2>1. [s.seats EXCEPT ![room] = seat] \in [SeatIds -> ShellSeats]
    BY <1>1 DEF SessionShells
  <2>2. seat.selectedMic \in Devices /\ seat.selectedCamera \in Devices BY DEF ShellSeats
  <2> QED BY <1>1, <2>1, <2>2 DEF SessionShells, WithSeat
<1>3. /\ changed.seats[room] = seat
      /\ \A t \in SeatIds \ {room} : changed.seats[t] = s.seats[t]
  BY <1>1, <1>2 DEF SessionShells
<1>4. RoleSeats \subseteq SeatIds BY DEF RoleSeats
<1> HIDE DEF room
<1>5. InOrder(changed)
  BY <1>1, <1>2, <1>3, <1>4 DEF InOrder, room
<1>6. \A t \in SeatIds : InUse(s, t) => InUse(changed, t)
  BY <1>1, <1>2, <1>3 DEF InUse
<1> QED BY <1>2, <1>5, <1>6

LEMMA JoinedSeat ==
  ASSUME NEW s, InOrder(s), s.joinedSeatId = None, s.selectedSeatId # None, NEW new,
         new = [s EXCEPT !.joinedSeatId = s.selectedSeatId, !.ownedSeatId = s.selectedSeatId,
                         !.seats[s.selectedSeatId] = JoinedWith(@, s.previewMic, s.previewCamera)]
  PROVE  /\ InOrder(new) /\ new.ownedSeatId = s.ownedSeatId
         /\ \A t \in SeatIds : InUse(s, t) => InUse(new, t)
<1> DEFINE room == s.selectedSeatId
           seat == JoinedWith(s.seats[room], s.previewMic, s.previewCamera)
<1>1. /\ s \in SessionShells /\ room \in SeatIds /\ room = s.ownedSeatId /\ room \in RoleSeats
      /\ s.seats[room] \in ShellSeats
      /\ s.previewMic \in Devices /\ s.previewCamera \in Devices
  BY DEF InOrder, SessionShells
<1>2. /\ seat \in ShellSeats /\ seat.claimState = "active" /\ seat.joined
      /\ seat.selectedMic = s.previewMic /\ seat.selectedCamera = s.previewCamera
  BY <1>1 DEF JoinedWith, ShellSeats
<1>3. new = [s EXCEPT !.joinedSeatId = room, !.ownedSeatId = room, !.seats[room] = seat]
  BY <1>1
<1> HIDE DEF room, seat
<1>4. /\ new \in SessionShells
      /\ new.seats = [s.seats EXCEPT ![room] = seat]
      /\ new.ownedSeatId = room /\ new.selectedSeatId = s.selectedSeatId
      /\ new.joinedSeatId = room
      /\ new.previewMic = s.previewMic /\ new.previewCamera = s.previewCamera
  <2>1. [s.seats EXCEPT ![room] = seat] \in [SeatIds -> ShellSeats]
    BY <1>1, <1>2 DEF SessionShells
  <2> QED BY <1>1, <1>3, <2>1 DEF SessionShells
<1>5. /\ new.seats[room] = seat
      /\ \A t \in SeatIds \ {room} : new.seats[t] = s.seats[t]
  BY <1>1, <1>4 DEF SessionShells
<1>6. RoleSeats \subseteq SeatIds BY DEF RoleSeats
<1>7. \A t \in SeatIds : ~s.seats[t].screenShareActive
  BY NoneIsNoSeat DEF InOrder
<1>8. InOrder(new)
  BY <1>1, <1>2, <1>4, <1>5, <1>6, <1>7 DEF InOrder, room
<1>9. \A t \in SeatIds : InUse(s, t) => InUse(new, t)
  BY <1>1, <1>4, <1>5 DEF InUse
<1> QED BY <1>1, <1>4, <1>8, <1>9

\* Who leaves keeps the seat, dropped or not.
WithoutRoom(s, claim) ==
  [s EXCEPT !.joinedSeatId = None, !.selectedSeatId = None,
            !.seats[s.joinedSeatId] = Unjoined(@, claim)]
LEMMA LeftSeat ==
  ASSUME NEW s, InOrder(s), s.joinedSeatId # None, NEW claim \in {"active", "disconnected"},
         NEW new, new = WithoutRoom(s, claim)
  PROVE  /\ InOrder(new) /\ new.ownedSeatId = s.ownedSeatId
         /\ \A t \in SeatIds : InUse(s, t) => InUse(new, t)
<1> DEFINE room == s.joinedSeatId
           seat == Unjoined(s.seats[room], claim)
<1>1. /\ s \in SessionShells /\ room \in SeatIds /\ room = s.ownedSeatId /\ room \in RoleSeats
      /\ s.seats[room] \in ShellSeats
  BY DEF InOrder, SessionShells
<1>2. /\ seat \in ShellSeats /\ seat.claimState = claim
      /\ ~seat.joined /\ ~seat.screenShareActive
  BY <1>1, GivenUpSeat
<1>3. new = [s EXCEPT !.joinedSeatId = None, !.selectedSeatId = None, !.seats[room] = seat]
  BY <1>1 DEF WithoutRoom
<1> HIDE DEF room, seat
<1>4. /\ new \in SessionShells
      /\ new.seats = [s.seats EXCEPT ![room] = seat]
      /\ new.ownedSeatId = s.ownedSeatId /\ new.selectedSeatId = None
      /\ new.joinedSeatId = None
  <2>1. [s.seats EXCEPT ![room] = seat] \in [SeatIds -> ShellSeats]
    BY <1>1, <1>2 DEF SessionShells
  <2> QED BY <1>1, <1>3, <2>1 DEF SessionShells
<1>5. /\ new.seats[room] = seat
      /\ \A t \in SeatIds \ {room} : new.seats[t] = s.seats[t]
  BY <1>1, <1>4 DEF SessionShells
<1>6. RoleSeats \subseteq SeatIds BY DEF RoleSeats
<1>7. \A t \in SeatIds \ {room} : ~s.seats[t].screenShareActive
  BY DEF InOrder, room
<1>8. InOrder(new)
  BY <1>1, <1>2, <1>4, <1>5, <1>6, <1>7 DEF InOrder
<1>9. \A t \in SeatIds : InUse(s, t) => InUse(new, t)
  BY <1>1, <1>4, <1>5 DEF InUse
<1> QED BY <1>4, <1>8, <1>9

-----------------------------------------------------------------------------
\* The sessions that a preset builds.

\* A role that has a seat has a first one.
LEMMA FirstSeat ==
  ASSUME RoleSeats # {}
  PROVE  \E first \in RoleSeats : NthSeat(1) = {first}
<1> DEFINE Before(s) == {t \in SeatIds : t < s /\ RoleOf[t] = RoleOf[s]}
<1>1. RoleSeats \subseteq Nat /\ RoleSeats \subseteq SeatIds
  BY SeatIdsAreNumbers DEF RoleSeats
<1>2. PICK first \in RoleSeats : \A t \in RoleSeats : ~ (<<t, first>> \in OpToRel(<, Nat))
  BY <1>1, NatLessThanWellFounded, WFMin
<1>3. \A t \in RoleSeats : ~(t < first)
  BY <1>1, <1>2 DEF OpToRel
<1>4. \A s \in RoleSeats : RankInRole[s] = 1 <=> Before(s) = {}
  <2> SUFFICES ASSUME NEW s \in RoleSeats PROVE RankInRole[s] = 1 <=> Before(s) = {}
    OBVIOUS
  <2>1. IsFiniteSet(Before(s)) BY SeatsAreFinite, FS_Subset
  <2>2. Cardinality(Before(s)) \in Nat /\ (Cardinality(Before(s)) = 0 <=> Before(s) = {})
    BY <2>1, FS_CardinalityType, FS_EmptySet
  <2>3. RankInRole[s] = Cardinality(Before(s)) + 1 BY <1>1 DEF RankInRole
  <2> HIDE DEF Before
  <2> QED BY <2>2, <2>3
<1>5. Before(first) = {}
  BY <1>1, <1>3 DEF RoleSeats
<1>6. \A s \in RoleSeats \ {first} : first \in Before(s)
  <2> SUFFICES ASSUME NEW s \in RoleSeats \ {first} PROVE first < s
    BY <1>1 DEF RoleSeats
  <2> QED BY <1>1, <1>3
<1> HIDE DEF Before
<1>7. NthSeat(1) = {first}
  BY <1>4, <1>5, <1>6 DEF NthSeat
<1> QED BY <1>7

LEMMA CreatedSeat ==
  ASSUME NEW id \in SeatIds, NEW claim \in {"unclaimed", "active", "disconnected"},
         NEW joined \in BOOLEAN, NEW seat, seat = CreateSeat(id, claim, joined)
  PROVE  /\ seat \in ShellSeats /\ seat.claimState = claim /\ seat.joined = joined
         /\ seat.screenShareActive = FALSE
<1>1. DeviceOf(id) \in Devices
  BY SeatIdsAreNumbers, DevicesAreCounted DEF DeviceOf, Devices
<1>2. (id \in NthSeat(3)) \in BOOLEAN OBVIOUS
<1>3. PICK third \in BOOLEAN : third = (id \in NthSeat(3)) BY <1>2
<1>4. PICK live \in {"connected", "disconnected"} :
        live = IF joined THEN "connected" ELSE "disconnected"
  OBVIOUS
<1>5. seat = [claimState |-> claim, joined |-> joined, ownershipStatus |-> "clear",
      pickerState |-> "available", liveCallStatus |-> live,
      localCaptureStatus |-> "not_recording", uploadStatus |-> "synced",
      micMuted |-> third, cameraEnabled |-> ~third, screenShareActive |-> FALSE,
      selectedMic |-> DeviceOf(id), selectedCamera |-> DeviceOf(id)]
  BY <1>3, <1>4 DEF CreateSeat
<1> QED BY <1>1, <1>5 DEF ShellSeats

LEMMA BootstrapSeat ==
  ASSUME NEW id \in SeatIds, NEW seat, seat = CreateBootstrapSeats[id]
  PROVE  /\ seat \in ShellSeats /\ ~seat.screenShareActive
         /\ seat.claimState = "active" => seat.joined
<1>1. CASE id \notin RoleSeats \/ id \in NthSeat(2)
  <2>1. id \notin NthSeat(3) BY <1>1 DEF NthSeat
  <2>2. seat = CreateSeat(id, "active", TRUE) BY <1>1, <2>1 DEF CreateBootstrapSeats
  <2> QED BY <2>2, CreatedSeat
<1>2. CASE id \in NthSeat(3)
  <2>1. id \in RoleSeats /\ id \notin NthSeat(2) BY <1>2 DEF NthSeat
  <2>2. seat = CreateSeat(id, "disconnected", FALSE)
    BY <1>2, <2>1 DEF CreateBootstrapSeats
  <2> QED BY <2>2, CreatedSeat
<1>3. CASE id \in RoleSeats /\ id \notin NthSeat(2) /\ id \notin NthSeat(3)
  <2>1. seat = CreateSeat(id, "unclaimed", FALSE) BY <1>3 DEF CreateBootstrapSeats
  <2> QED BY <2>1, CreatedSeat
<1> QED BY <1>1, <1>2, <1>3

\* A seat of a preset that is claimed is in the room, but for the one this
\* browser owns already.
LEMMA BuiltSeat ==
  ASSUME NEW preset \in JoinPresets, NEW id \in SeatIds, NEW seat,
         seat = PresetSeat(preset, id, CreateBootstrapSeats[id])
  PROVE  /\ seat \in ShellSeats /\ ~seat.screenShareActive
         /\ seat.claimState = "active" /\ ~seat.joined => preset = "owned" /\ id \in NthSeat(1)
         /\ preset = "owned" /\ id \in NthSeat(1) => seat.claimState = "active" /\ ~seat.joined
<1> DEFINE base == CreateBootstrapSeats[id]
<1>1. /\ base \in ShellSeats /\ ~base.screenShareActive
      /\ base.claimState = "active" => base.joined
  BY BootstrapSeat
<1> HIDE DEF base
<1>2. \A claim \in {"unclaimed", "active", "disconnected"}, joined \in BOOLEAN :
        /\ Claimed(base, claim, joined) \in ShellSeats
        /\ Claimed(base, claim, joined).claimState = claim
        /\ Claimed(base, claim, joined).joined = joined
        /\ Claimed(base, claim, joined).screenShareActive = base.screenShareActive
  BY <1>1 DEF Claimed, ShellSeats
<1>3. ~(id \in NthSeat(1) /\ id \in NthSeat(2)) /\ ~(id \in NthSeat(1) /\ id \in NthSeat(3))
      /\ ~(id \in NthSeat(2) /\ id \in NthSeat(3))
  BY DEF NthSeat
<1>4. seat = PresetSeat(preset, id, base) BY DEF base
<1>5. CASE preset = "owned" /\ id \in NthSeat(1)
  <2>1. seat = Claimed(base, "active", FALSE) BY <1>3, <1>4, <1>5 DEF PresetSeat
  <2> QED BY <1>1, <1>2, <1>5, <2>1
<1>6. CASE ~(preset = "owned" /\ id \in NthSeat(1))
  <2>1. \/ seat = Claimed(base, "active", TRUE)
        \/ seat = Claimed(base, "disconnected", FALSE)
        \/ seat = [Claimed(base, "active", TRUE) EXCEPT !.ownershipStatus = "takeover_required"]
        \/ seat = Claimed(base, "unclaimed", FALSE)
        \/ seat = base
    BY <1>3, <1>4, <1>6 DEF PresetSeat, JoinPresets
  <2>2. ASSUME NEW asked,
               asked = [Claimed(base, "active", TRUE) EXCEPT
                          !.ownershipStatus = "takeover_required"]
        PROVE  asked \in ShellSeats /\ asked.joined /\ ~asked.screenShareActive
    <3>1. PICK active \in ShellSeats :
            active = Claimed(base, "active", TRUE) /\ active.joined /\ ~active.screenShareActive
      BY <1>1, <1>2
    <3>2. asked = [active EXCEPT !.ownershipStatus = "takeover_required"] BY <2>2, <3>1
    <3>3. asked \in ShellSeats BY <3>2 DEF ShellSeats
    <3>4. asked.joined = active.joined /\ asked.screenShareActive = active.screenShareActive
      BY <3>2 DEF ShellSeats
    <3> QED BY <3>1, <3>3, <3>4
  <2>3. seat \in ShellSeats /\ ~seat.screenShareActive
    BY <1>1, <1>2, <2>1, <2>2
  <2>4. seat.claimState = "active" => seat.joined
    BY <1>1, <1>2, <2>1, <2>2
  <2> QED BY <1>6, <2>3, <2>4
<1> QED BY <1>5, <1>6

LEMMA BuiltSession ==
  ASSUME RoleSeats # {}, NEW preset \in JoinPresets, NEW mic \in Devices,
         NEW camera \in Devices,
         NEW built, built = BuildSessionForJoinPreset(preset, mic, camera)
  PROVE  InOrder(built) /\ Settled(built) /\ built.joinedSeatId = None
<1> DEFINE base == CreateBaseSession(mic, camera)
           owned == OwnedByPreset(preset)
           seats == [id \in SeatIds |-> PresetSeat(preset, id, base.seats[id])]
           raw == [base EXCEPT !.ownedSeatId = owned, !.selectedSeatId = owned, !.seats = seats]
<1>1. built = NormalizeSessionState(raw) BY DEF BuildSessionForJoinPreset
<1>2. \A id \in SeatIds :
        /\ seats[id] \in ShellSeats /\ ~seats[id].screenShareActive
        /\ seats[id].claimState = "active" /\ ~seats[id].joined =>
             preset = "owned" /\ id \in NthSeat(1)
        /\ preset = "owned" /\ id \in NthSeat(1) =>
             seats[id].claimState = "active" /\ ~seats[id].joined
  <2> SUFFICES ASSUME NEW id \in SeatIds
        PROVE  /\ seats[id] \in ShellSeats /\ ~seats[id].screenShareActive
               /\ seats[id].claimState = "active" /\ ~seats[id].joined =>
                    preset = "owned" /\ id \in NthSeat(1)
               /\ preset = "owned" /\ id \in NthSeat(1) =>
                    seats[id].claimState = "active" /\ ~seats[id].joined
    OBVIOUS
  <2>1. seats[id] = PresetSeat(preset, id, CreateBootstrapSeats[id]) BY DEF CreateBaseSession
  <2> HIDE DEF seats
  <2> QED BY <2>1, BuiltSeat
<1>3. PICK first \in RoleSeats : NthSeat(1) = {first} BY FirstSeat
<1>4. owned = (IF preset = "owned" THEN first ELSE None) BY <1>3 DEF OwnedByPreset
<1>5. first \in SeatIds BY DEF RoleSeats
<1>6. CreateBootstrapSeats \in [SeatIds -> ShellSeats]
  <2>1. \A id \in SeatIds : CreateBootstrapSeats[id] \in ShellSeats BY BootstrapSeat
  <2> QED BY <2>1 DEF CreateBootstrapSeats
<1>7. base \in SessionShells /\ base.joinedSeatId = None
  BY <1>6 DEF CreateBaseSession, SessionShells, ShellPhases, ShellHealths
<1>8. seats \in [SeatIds -> ShellSeats] BY <1>2
<1> HIDE DEF base, owned, seats
<1>9. /\ raw \in SessionShells /\ raw.seats = seats /\ raw.ownedSeatId = owned
      /\ raw.selectedSeatId = owned /\ raw.joinedSeatId = None
  BY <1>4, <1>5, <1>7, <1>8 DEF SessionShells
<1> HIDE DEF raw
<1>10. RoleSeats \subseteq SeatIds BY DEF RoleSeats
<1>11. owned # None => /\ owned = first /\ preset = "owned"
                       /\ seats[owned].claimState = "active" /\ ~seats[owned].joined
  BY <1>2, <1>3, <1>4, <1>5
<1>12. \A id \in RoleSeats \ {owned} : seats[id].claimState = "active" => seats[id].joined
  BY <1>2, <1>3, <1>4, <1>10
<1>13. InOrder(raw)
  BY <1>2, <1>9, <1>11, <1>12 DEF InOrder
<1> QED BY <1>1, <1>9, <1>13, NormalizedSession DEF SameSession

-----------------------------------------------------------------------------
\* The invariant.

SessionInv ==
  /\ role \in {"host", "guest"} /\ RoleSeats # {}
  /\ InOrder(session) /\ Settled(session)
  /\ takeoverSeatId # None => takeoverSeatId \in RoleSeats /\ InUse(session, takeoverSeatId)
ControlsInv ==
  /\ joinPreset \in JoinPresets
  /\ roomPreset \in RoomPresets
  /\ page \in {"join", "room"}
  /\ mediaClicks \in 0..MaxMedia

\* What a step does to ownership, when it does not build the session again: a seat
\* changes hands outside the room, one in use only confirmed.
Confirmed ==
  \/ session'.ownedSeatId = session.ownedSeatId
  \/ /\ ~InRoom
     /\ \/ session'.ownedSeatId = takeoverSeatId
        \/ /\ session'.ownedSeatId \in SeatIds
           /\ session.seats[session'.ownedSeatId].pickerState # "in_use"

LEMMA UpdatedSession ==
  ASSUME SessionInv, role' = role, NEW raw, InOrder(raw),
         session' = NormalizeSessionState(raw),
         takeoverSeatId' # None =>
           takeoverSeatId' \in RoleSeats /\ InUse(raw, takeoverSeatId')
  PROVE  SessionInv' /\ session'.ownedSeatId = raw.ownedSeatId
<1>1. /\ InOrder(session') /\ Settled(session') /\ SameSession(raw, session')
      /\ \A id \in SeatIds : InUse(session', id) <=> InUse(raw, id)
  BY NormalizedSession
<1>2. RoleSeats' = RoleSeats BY DEF RoleSeats
<1>3. InOrder(session)' BY <1>1, <1>2 DEF InOrder
<1>4. takeoverSeatId' # None => InUse(session', takeoverSeatId')
  BY <1>1 DEF RoleSeats
<1> QED BY <1>1, <1>2, <1>3, <1>4 DEF SessionInv, SameSession

\* A step that changes the session without a seat changing hands.
LEMMA KeptHands ==
  ASSUME SessionInv, role' = role, takeoverSeatId' = takeoverSeatId,
         NEW raw, InOrder(raw), raw.ownedSeatId = session.ownedSeatId,
         \A t \in SeatIds : InUse(session, t) => InUse(raw, t),
         session' = NormalizeSessionState(raw)
  PROVE  SessionInv' /\ Confirmed
<1>1. takeoverSeatId' # None => takeoverSeatId' \in RoleSeats /\ InUse(raw, takeoverSeatId')
  BY DEF SessionInv, RoleSeats
<1> QED BY <1>1, UpdatedSession DEF Confirmed

LEMMA KeptSession ==
  ASSUME SessionInv, role' = role, session' = session,
         takeoverSeatId' \in {None, takeoverSeatId}
  PROVE  SessionInv' /\ Confirmed
<1>1. RoleSeats' = RoleSeats BY DEF RoleSeats
<1> QED BY <1>1 DEF SessionInv, InOrder, Confirmed

\* Fields that no seat shows may change.
LEMMA ChangedFields ==
  ASSUME NEW s, InOrder(s), NEW raw \in SessionShells, raw.seats = s.seats,
         raw.ownedSeatId = s.ownedSeatId, raw.joinedSeatId = s.joinedSeatId,
         s.joinedSeatId # None =>
           /\ raw.previewMic = s.previewMic /\ raw.previewCamera = s.previewCamera
           /\ raw.selectedSeatId = s.selectedSeatId,
         raw.selectedSeatId \in {None, s.selectedSeatId}
  PROVE  InOrder(raw) /\ \A t \in SeatIds : InUse(s, t) => InUse(raw, t)
  BY DEF InOrder, InUse

LEMMA RebuiltSession ==
  ASSUME SessionInv, NEW preset \in JoinPresets, NEW mic \in Devices, NEW camera \in Devices,
         role' = role, takeoverSeatId' = None,
         session' = BuildSessionForJoinPreset(preset, mic, camera)
  PROVE  SessionInv'
<1>1. RoleSeats' = RoleSeats BY DEF RoleSeats
<1>2. InOrder(session') /\ Settled(session') BY BuiltSession DEF SessionInv
<1> QED BY <1>1, <1>2 DEF SessionInv, InOrder

-----------------------------------------------------------------------------
\* The steps.

LEMMA ClaimStep ==
  ASSUME SessionInv, \/ \E id \in RoleSeats : ChooseSeat(id)
                     \/ ConfirmTakeover
  PROVE  SessionInv' /\ Confirmed
<1>1. ASSUME NEW id \in RoleSeats, ~InRoom, role' = role,
             session' = NormalizeSessionState(ClaimSeat(session, id)),
             \/ takeoverSeatId' = None
             \/ takeoverSeatId' = takeoverSeatId /\ id # takeoverSeatId
      PROVE  SessionInv' /\ session'.ownedSeatId = id
  <2>1. InOrder(session) /\ session.joinedSeatId = None BY <1>1 DEF SessionInv, InRoom
  <2>2. PICK raw : raw = ClaimSeat(session, id) OBVIOUS
  <2>3. /\ InOrder(raw) /\ raw.ownedSeatId = id
        /\ \A t \in SeatIds \ {id} : InUse(session, t) => InUse(raw, t)
    BY <2>1, <2>2, ClaimedSeat
  <2>4. takeoverSeatId' # None =>
          takeoverSeatId' \in RoleSeats /\ InUse(raw, takeoverSeatId')
    BY <1>1, <2>3 DEF SessionInv, RoleSeats
  <2> QED BY <1>1, <2>2, <2>3, <2>4, UpdatedSession
<1>2. ASSUME NEW id \in RoleSeats, ChooseSeat(id)
      PROVE  SessionInv' /\ Confirmed
  <2>1. ~InRoom /\ role' = role /\ id \in SeatIds
    BY <1>2 DEF ChooseSeat, SeatPickerOpen, RoleSeats
  <2>2. session.seats[id].pickerState = "in_use" <=> InUse(session, id)
    BY <2>1 DEF SessionInv, Settled
  <2>3. CASE InUse(session, id)
    <3>1. takeoverSeatId' = id /\ session' = session
      BY <1>2, <2>2, <2>3 DEF ChooseSeat, AskTakeover
    <3>2. RoleSeats' = RoleSeats BY <2>1 DEF RoleSeats
    <3> QED BY <2>1, <2>3, <3>1, <3>2 DEF SessionInv, InOrder, Confirmed
  <2>4. CASE ~InUse(session, id)
    <3>1. /\ session' = NormalizeSessionState(ClaimSeat(session, id))
          /\ takeoverSeatId' = takeoverSeatId
      BY <1>2, <2>2, <2>4 DEF ChooseSeat, UpdateSessionState
    <3>2. takeoverSeatId = None \/ takeoverSeatId # id BY <2>4, <2>1, NoneIsNoSeat DEF SessionInv
    <3> QED BY <1>1, <2>1, <2>2, <2>4, <3>1, <3>2 DEF Confirmed
  <2> QED BY <2>3, <2>4
<1>3. ASSUME ConfirmTakeover PROVE SessionInv' /\ Confirmed
  <2>1. /\ ~InRoom /\ role' = role /\ takeoverSeatId # None /\ takeoverSeatId' = None
        /\ session' = NormalizeSessionState(ClaimSeat(session, takeoverSeatId))
    BY <1>3 DEF ConfirmTakeover, TakeoverDialogShown, UpdateSessionState
  <2>2. takeoverSeatId \in RoleSeats BY <2>1 DEF SessionInv
  <2> QED BY <1>1, <2>1, <2>2 DEF Confirmed
<1> QED BY <1>2, <1>3

LEMMA RoomStep ==
  ASSUME SessionInv, JoinRoom \/ LeaveRoom
  PROVE  SessionInv' /\ Confirmed
<1>1. ASSUME JoinRoom PROVE SessionInv' /\ Confirmed
  <2>1. PICK raw : raw =
          [session EXCEPT !.joinedSeatId = session.selectedSeatId,
                          !.ownedSeatId = session.selectedSeatId,
                          !.seats[session.selectedSeatId] =
                             JoinedWith(@, session.previewMic, session.previewCamera)]
    OBVIOUS
  <2>2. /\ role' = role /\ takeoverSeatId' = takeoverSeatId
        /\ session' = NormalizeSessionState(raw)
    BY <1>1, <2>1 DEF JoinRoom, UpdateSessionState
  <2>3. session.joinedSeatId = None
    BY <1>1 DEF JoinRoom, DevicePreviewShown, SeatPickerOpen, InRoom
  <2>4. PresentSession = NormalizeSessionState(session)
    BY <2>3 DEF PresentSession
  <2>5. session.selectedSeatId # None
    BY <1>1, <2>4 DEF JoinRoom, DevicePreviewShown, SessionInv, Settled
  <2>6. InOrder(session) BY DEF SessionInv
  <2>7. /\ InOrder(raw) /\ raw.ownedSeatId = session.ownedSeatId
        /\ \A t \in SeatIds : InUse(session, t) => InUse(raw, t)
    BY <2>1, <2>3, <2>5, <2>6, JoinedSeat
  <2> QED BY <2>2, <2>7, KeptHands
<1>2. ASSUME LeaveRoom PROVE SessionInv' /\ Confirmed
  <2>1. PICK claim \in {"active", "disconnected"} :
          claim = IF ShouldModelDisconnect(session.recordingPhase)
                  THEN "disconnected" ELSE "active"
    OBVIOUS
  <2>2. PICK raw : raw = WithoutRoom(session, claim) OBVIOUS
  <2>3. /\ role' = role /\ takeoverSeatId' = takeoverSeatId
        /\ session' = NormalizeSessionState(raw)
    BY <1>2, <2>1, <2>2 DEF LeaveRoom, UpdateSessionState, WithoutRoom
  <2>4. session.joinedSeatId # None BY <1>2 DEF LeaveRoom, RoomShown, InRoom
  <2>5. InOrder(session) BY DEF SessionInv
  <2>6. /\ InOrder(raw) /\ raw.ownedSeatId = session.ownedSeatId
        /\ \A t \in SeatIds : InUse(session, t) => InUse(raw, t)
    BY <2>2, <2>4, <2>5, LeftSeat
  <2> QED BY <2>3, <2>6, KeptHands
<1> QED BY <1>1, <1>2

\* The media controls: of the seat in the room, and of the next preview.
LEMMA LocalStep ==
  ASSUME SessionInv, RoomShown, role' = role, takeoverSeatId' = takeoverSeatId,
         NEW seat \in ShellSeats, seat.claimState = LocalSeat.claimState,
         seat.joined = LocalSeat.joined,
         UpdateLocalSeat(seat, seat.selectedMic, seat.selectedCamera)
  PROVE  SessionInv' /\ Confirmed
<1>1. PICK raw : raw = WithSeat(session, seat) OBVIOUS
<1>2. session' = NormalizeSessionState(raw)
  BY <1>1 DEF UpdateLocalSeat, UpdateSessionState, WithSeat
<1>3. session.joinedSeatId # None BY DEF RoomShown, InRoom
<1>4. InOrder(session) BY DEF SessionInv
<1>5. seat.claimState = "active" /\ seat.joined
  <2>1. LocalSeat.claimState = "active" BY <1>3, <1>4 DEF InOrder, LocalSeat
  <2>2. LocalSeat.joined BY <1>3 DEF SessionInv, Settled, LocalSeat
  <2> QED BY <2>1, <2>2
<1>6. /\ InOrder(raw) /\ raw.ownedSeatId = session.ownedSeatId
      /\ \A t \in SeatIds : InUse(session, t) => InUse(raw, t)
  BY <1>1, <1>3, <1>4, <1>5, ChangedSeat
<1> QED BY <1>2, <1>6, KeptHands

LEMMA MediaStep ==
  ASSUME SessionInv,
         \/ ToggleLocalMic \/ ToggleLocalCamera \/ ToggleLocalScreenShare
         \/ \E device \in Devices : SelectLocalMic(device) \/ SelectLocalCamera(device)
  PROVE  SessionInv' /\ Confirmed
<1>1. RoomShown => /\ LocalSeat \in ShellSeats
                   /\ LocalSeat.selectedMic = session.previewMic
                   /\ LocalSeat.selectedCamera = session.previewCamera
  BY DEF RoomShown, InRoom, SessionInv, InOrder, SessionShells, LocalSeat
<1>2. /\ ToggleLocalMic \/ ToggleLocalCamera \/ ToggleLocalScreenShare => RoomShown
      /\ \A device \in Devices : SelectLocalMic(device) \/ SelectLocalCamera(device) => RoomShown
  BY DEF ToggleLocalMic, ToggleLocalCamera, ToggleLocalScreenShare, ToggleLocal,
     SelectLocalMic, SelectLocalCamera
<1>3. PICK seat \in ShellSeats :
        /\ role' = role /\ takeoverSeatId' = takeoverSeatId
        /\ seat.claimState = LocalSeat.claimState /\ seat.joined = LocalSeat.joined
        /\ UpdateLocalSeat(seat, seat.selectedMic, seat.selectedCamera)
  <2>1. CASE ToggleLocalMic
    <3> DEFINE seat == [LocalSeat EXCEPT !.micMuted = ~@]
    <3>1. /\ seat \in ShellSeats /\ seat.claimState = LocalSeat.claimState
          /\ seat.joined = LocalSeat.joined /\ seat.selectedMic = LocalSeat.selectedMic
          /\ seat.selectedCamera = LocalSeat.selectedCamera
      BY <1>1, <1>2, <2>1 DEF ShellSeats
    <3>2. /\ role' = role /\ takeoverSeatId' = takeoverSeatId
          /\ UpdateLocalSeat(seat, session.previewMic, session.previewCamera)
      BY <2>1 DEF ToggleLocalMic, ToggleLocal, MediaClick
    <3> QED BY <1>1, <1>2, <2>1, <3>1, <3>2
  <2>2. CASE ToggleLocalCamera
    <3> DEFINE seat == [LocalSeat EXCEPT !.cameraEnabled = ~@]
    <3>1. /\ seat \in ShellSeats /\ seat.claimState = LocalSeat.claimState
          /\ seat.joined = LocalSeat.joined /\ seat.selectedMic = LocalSeat.selectedMic
          /\ seat.selectedCamera = LocalSeat.selectedCamera
      BY <1>1, <1>2, <2>2 DEF ShellSeats
    <3>2. /\ role' = role /\ takeoverSeatId' = takeoverSeatId
          /\ UpdateLocalSeat(seat, session.previewMic, session.previewCamera)
      BY <2>2 DEF ToggleLocalCamera, ToggleLocal, MediaClick
    <3> QED BY <1>1, <1>2, <2>2, <3>1, <3>2
  <2>3. CASE ToggleLocalScreenShare
    <3> DEFINE seat == [LocalSeat EXCEPT !.screenShareActive = ~@]
    <3>1. /\ seat \in ShellSeats /\ seat.claimState = LocalSeat.claimState
          /\ seat.joined = LocalSeat.joined /\ seat.selectedMic = LocalSeat.selectedMic
          /\ seat.selectedCamera = LocalSeat.selectedCamera
      BY <1>1, <1>2, <2>3 DEF ShellSeats
    <3>2. /\ role' = role /\ takeoverSeatId' = takeoverSeatId
          /\ UpdateLocalSeat(seat, session.previewMic, session.previewCamera)
      BY <2>3 DEF ToggleLocalScreenShare, ToggleLocal, MediaClick
    <3> QED BY <1>1, <1>2, <2>3, <3>1, <3>2
  <2>4. ASSUME NEW device \in Devices, SelectLocalMic(device)
        PROVE  \E seat \in ShellSeats :
                 /\ role' = role /\ takeoverSeatId' = takeoverSeatId
                 /\ seat.claimState = LocalSeat.claimState /\ seat.joined = LocalSeat.joined
                 /\ UpdateLocalSeat(seat, seat.selectedMic, seat.selectedCamera)
    <3> DEFINE seat == [LocalSeat EXCEPT !.selectedMic = device]
    <3>1. /\ seat \in ShellSeats /\ seat.claimState = LocalSeat.claimState
          /\ seat.joined = LocalSeat.joined /\ seat.selectedMic = device
          /\ seat.selectedCamera = LocalSeat.selectedCamera
      BY <1>1, <1>2, <2>4 DEF ShellSeats
    <3>2. /\ role' = role /\ takeoverSeatId' = takeoverSeatId
          /\ UpdateLocalSeat(seat, device, session.previewCamera)
      BY <2>4 DEF SelectLocalMic, MediaClick
    <3> QED BY <1>1, <1>2, <2>4, <3>1, <3>2
  <2>5. ASSUME NEW device \in Devices, SelectLocalCamera(device)
        PROVE  \E seat \in ShellSeats :
                 /\ role' = role /\ takeoverSeatId' = takeoverSeatId
                 /\ seat.claimState = LocalSeat.claimState /\ seat.joined = LocalSeat.joined
                 /\ UpdateLocalSeat(seat, seat.selectedMic, seat.selectedCamera)
    <3> DEFINE seat == [LocalSeat EXCEPT !.selectedCamera = device]
    <3>1. /\ seat \in ShellSeats /\ seat.claimState = LocalSeat.claimState
          /\ seat.joined = LocalSeat.joined /\ seat.selectedMic = LocalSeat.selectedMic
          /\ seat.selectedCamera = device
      BY <1>1, <1>2, <2>5 DEF ShellSeats
    <3>2. /\ role' = role /\ takeoverSeatId' = takeoverSeatId
          /\ UpdateLocalSeat(seat, session.previewMic, device)
      BY <2>5 DEF SelectLocalCamera, MediaClick
    <3> QED BY <1>1, <1>2, <2>5, <3>1, <3>2
  <2> QED BY <2>1, <2>2, <2>3, <2>4, <2>5
<1> QED BY <1>2, <1>3, LocalStep

\* Selection, previews and the recording controls change fields alone.
WithFields(s, selected, mic, camera, phase, health) ==
  [s EXCEPT !.selectedSeatId = selected, !.previewMic = mic, !.previewCamera = camera,
            !.recordingPhase = phase, !.recordingHealth = health]
LEMMA FieldStep ==
  ASSUME SessionInv, role' = role, takeoverSeatId' = takeoverSeatId,
         NEW selected \in {None, session.selectedSeatId}, NEW mic \in Devices,
         NEW camera \in Devices, NEW phase \in ShellPhases, NEW health \in ShellHealths,
         InRoom => /\ selected = session.selectedSeatId
                   /\ mic = session.previewMic /\ camera = session.previewCamera,
         session' = NormalizeSessionState(
                      WithFields(session, selected, mic, camera, phase, health))
  PROVE  SessionInv' /\ Confirmed
<1>1. PICK raw : raw = WithFields(session, selected, mic, camera, phase, health)
  OBVIOUS
<1>2. InOrder(session) /\ session \in SessionShells BY DEF SessionInv, InOrder
<1>3. selected \in SeatIds \cup {None} BY <1>2 DEF SessionShells
<1>4. /\ raw \in SessionShells /\ raw.seats = session.seats
      /\ raw.ownedSeatId = session.ownedSeatId /\ raw.joinedSeatId = session.joinedSeatId
      /\ raw.selectedSeatId = selected /\ raw.previewMic = mic /\ raw.previewCamera = camera
  BY <1>1, <1>2, <1>3 DEF SessionShells, WithFields
<1>5. InOrder(raw) /\ \A t \in SeatIds : InUse(session, t) => InUse(raw, t)
  BY <1>2, <1>4, ChangedFields DEF InRoom
<1>6. takeoverSeatId' # None => takeoverSeatId' \in RoleSeats /\ InUse(raw, takeoverSeatId')
  BY <1>5 DEF SessionInv, RoleSeats
<1> QED BY <1>1, <1>4, <1>5, <1>6, UpdatedSession DEF Confirmed

LEMMA SameFields ==
  ASSUME NEW s \in SessionShells
  PROVE  /\ \A selected : [s EXCEPT !.selectedSeatId = selected] =
              WithFields(s, selected, s.previewMic, s.previewCamera, s.recordingPhase,
                         s.recordingHealth)
         /\ \A mic : [s EXCEPT !.previewMic = mic] =
              WithFields(s, s.selectedSeatId, mic, s.previewCamera, s.recordingPhase,
                         s.recordingHealth)
         /\ \A camera : [s EXCEPT !.previewCamera = camera] =
              WithFields(s, s.selectedSeatId, s.previewMic, camera, s.recordingPhase,
                         s.recordingHealth)
         /\ \A phase, health : [s EXCEPT !.recordingPhase = phase, !.recordingHealth = health] =
              WithFields(s, s.selectedSeatId, s.previewMic, s.previewCamera, phase, health)
  BY DEF WithFields, SessionShells

LEMMA SelectionStep ==
  ASSUME SessionInv,
         \/ ClearSeatSelection
         \/ \E device \in Devices : SelectPreviewMic(device) \/ SelectPreviewCamera(device)
  PROVE  SessionInv' /\ Confirmed
<1>1. /\ session \in SessionShells
      /\ session.previewMic \in Devices /\ session.previewCamera \in Devices
      /\ session.recordingPhase \in ShellPhases /\ session.recordingHealth \in ShellHealths
  BY DEF SessionInv, InOrder, SessionShells
<1>2. CASE ClearSeatSelection
  <2>1. /\ role' = role /\ takeoverSeatId' = takeoverSeatId /\ ~InRoom
        /\ session' = NormalizeSessionState([session EXCEPT !.selectedSeatId = None])
    BY <1>2 DEF ClearSeatSelection, DevicePreviewShown, SeatPickerOpen, UpdateSessionState
  <2>2. session' = NormalizeSessionState(
          WithFields(session, None, session.previewMic, session.previewCamera,
                     session.recordingPhase, session.recordingHealth))
    BY <1>1, <2>1, SameFields
  <2> QED BY <1>1, <2>1, <2>2, FieldStep
<1>3. ASSUME NEW device \in Devices, SelectPreviewMic(device)
      PROVE  SessionInv' /\ Confirmed
  <2>1. /\ role' = role /\ takeoverSeatId' = takeoverSeatId /\ ~InRoom
        /\ session' = NormalizeSessionState([session EXCEPT !.previewMic = device])
    BY <1>3 DEF SelectPreviewMic, DevicePreviewShown, SeatPickerOpen, UpdateSessionState,
       MediaClick
  <2>2. session' = NormalizeSessionState(
          WithFields(session, session.selectedSeatId, device, session.previewCamera,
                     session.recordingPhase, session.recordingHealth))
    BY <1>1, <2>1, SameFields
  <2> QED BY <1>1, <2>1, <2>2, FieldStep
<1>4. ASSUME NEW device \in Devices, SelectPreviewCamera(device)
      PROVE  SessionInv' /\ Confirmed
  <2>1. /\ role' = role /\ takeoverSeatId' = takeoverSeatId /\ ~InRoom
        /\ session' = NormalizeSessionState([session EXCEPT !.previewCamera = device])
    BY <1>4 DEF SelectPreviewCamera, DevicePreviewShown, SeatPickerOpen, UpdateSessionState,
       MediaClick
  <2>2. session' = NormalizeSessionState(
          WithFields(session, session.selectedSeatId, session.previewMic, device,
                     session.recordingPhase, session.recordingHealth))
    BY <1>1, <2>1, SameFields
  <2> QED BY <1>1, <2>1, <2>2, FieldStep
<1> QED BY <1>2, <1>3, <1>4

\* Running the recording changes no hands.
LEMMA RecordingStep ==
  ASSUME SessionInv, StartRecording \/ StopRecording \/ FailRecording \/ FinishDrain
  PROVE  SessionInv' /\ Confirmed
<1>1. /\ session \in SessionShells
      /\ session.previewMic \in Devices /\ session.previewCamera \in Devices
      /\ session.recordingPhase \in ShellPhases /\ session.recordingHealth \in ShellHealths
  BY DEF SessionInv, InOrder, SessionShells
<1>2. PICK phase \in ShellPhases, health \in ShellHealths : MoveRecording(phase, health)
  <2>1. {"recording", "draining", "failed", "stopped"} \subseteq ShellPhases
        /\ {"healthy", "failed"} \subseteq ShellHealths
    BY DEF ShellPhases, ShellHealths
  <2> QED BY <1>1, <2>1 DEF StartRecording, StopRecording, FailRecording, FinishDrain
<1>5. /\ role' = role /\ takeoverSeatId' = takeoverSeatId
      /\ session' = NormalizeSessionState(
           WithFields(session, session.selectedSeatId, session.previewMic,
                      session.previewCamera, phase, health))
  <2>1. /\ role' = role /\ takeoverSeatId' = takeoverSeatId
        /\ session' = NormalizeSessionState(
             [session EXCEPT !.recordingPhase = phase, !.recordingHealth = health])
    BY <1>2 DEF MoveRecording, UpdateSessionState
  <2>2. [session EXCEPT !.recordingPhase = phase, !.recordingHealth = health] =
          WithFields(session, session.selectedSeatId, session.previewMic,
                     session.previewCamera, phase, health)
    <3>1. session \in SessionShells BY <1>1
    <3>2. \A p, h : [session EXCEPT !.recordingPhase = p, !.recordingHealth = h] =
                      WithFields(session, session.selectedSeatId, session.previewMic,
                                 session.previewCamera, p, h)
      BY <3>1, SameFields
    <3> QED BY <3>2
  <2> QED BY <2>1, <2>2
<1> QED BY <1>1, <1>5, FieldStep

LEMMA ShellStep ==
  ASSUME SessionInv, ShellNext
  PROVE  SessionInv' /\ (Rebuilt \/ Confirmed)
<1>1. ASSUME NEW preset \in JoinPresets, ApplyJoinPreset(preset) PROVE SessionInv' /\ Rebuilt
  <2>1. session.previewMic \in Devices /\ session.previewCamera \in Devices
    BY DEF SessionInv, InOrder, SessionShells
  <2> QED BY <1>1, <2>1, RebuiltSession DEF ApplyJoinPreset, Rebuilt
<1>2. ASSUME Reload PROVE SessionInv' /\ Rebuilt
  <2>1. 1 \in Devices /\ "fresh" \in JoinPresets BY DevicesAreCounted DEF Devices, JoinPresets
  <2> QED BY <1>2, <2>1, RebuiltSession DEF Reload, Rebuilt
<1>3. ASSUME \/ \E preset \in RoomPresets : ApplyRoomPreset(preset)
             \/ DismissTakeover \/ BackToJoinFlow \/ ReturnToRoom
      PROVE  SessionInv' /\ Confirmed
  BY <1>3, KeptSession DEF ApplyRoomPreset, DismissTakeover, BackToJoinFlow, ReturnToRoom,
     appState
<1> QED BY <1>1, <1>2, <1>3, ClaimStep, RoomStep, MediaStep, SelectionStep, RecordingStep
        DEF ShellNext

LEMMA ShellInvariant == ShellSpec => []SessionInv
<1>1. ShellInit => SessionInv
  <2>1. 1 \in Devices /\ "fresh" \in JoinPresets BY DevicesAreCounted DEF Devices, JoinPresets
  <2> QED BY <2>1, BuiltSession DEF ShellInit, SessionInv
<1>2. SessionInv /\ UNCHANGED shellVars => SessionInv'
  BY KeptSession DEF shellVars
<1>3. SessionInv /\ [ShellNext]_shellVars => SessionInv'
  BY <1>2, ShellStep
<1> QED BY <1>1, <1>3, PTL DEF ShellSpec

LEMMA ControlsInvariant == ShellSpec => []ControlsInv
<1>1. ShellInit => ControlsInv
  BY MediaIsBounded DEF ShellInit, ControlsInv, JoinPresets, RoomPresets
<1>2. ControlsInv /\ [ShellNext]_shellVars => ControlsInv'
  <2> SUFFICES ASSUME ControlsInv, [ShellNext]_shellVars PROVE ControlsInv'
    OBVIOUS
  <2>1. ASSUME NEW preset \in JoinPresets, ApplyJoinPreset(preset) PROVE ControlsInv'
    BY <2>1 DEF ApplyJoinPreset, ControlsInv, RoomPresets
  <2>2. ASSUME NEW preset \in RoomPresets, ApplyRoomPreset(preset) PROVE ControlsInv'
    BY <2>2 DEF ApplyRoomPreset, ControlsInv
  <2>3. ASSUME NEW id \in RoleSeats, ChooseSeat(id) PROVE ControlsInv'
    BY <2>3 DEF ChooseSeat, ControlsInv
  <2>4. ASSUME ClearSeatSelection \/ ConfirmTakeover \/ DismissTakeover PROVE ControlsInv'
    BY <2>4 DEF ClearSeatSelection, ConfirmTakeover, DismissTakeover, ControlsInv
  <2>5. ASSUME JoinRoom \/ LeaveRoom PROVE ControlsInv'
    BY <2>5 DEF JoinRoom, LeaveRoom, ControlsInv
  <2>6. ASSUME MediaClick PROVE ControlsInv'
    BY <2>6, MediaIsBounded DEF MediaClick, ControlsInv
  <2>7. ASSUME NEW device \in Devices,
               \/ SelectLocalMic(device) \/ SelectLocalCamera(device)
               \/ SelectPreviewMic(device) \/ SelectPreviewCamera(device)
        PROVE  MediaClick
    BY <2>7 DEF SelectLocalMic, SelectLocalCamera, SelectPreviewMic, SelectPreviewCamera
  <2>8. ASSUME ToggleLocalMic \/ ToggleLocalCamera \/ ToggleLocalScreenShare PROVE MediaClick
    BY <2>8 DEF ToggleLocalMic, ToggleLocalCamera, ToggleLocalScreenShare, ToggleLocal
  <2>9. ASSUME StartRecording \/ StopRecording \/ FailRecording \/ FinishDrain
        PROVE  ControlsInv'
    BY <2>9 DEF StartRecording, StopRecording, FailRecording, FinishDrain, MoveRecording,
       ControlsInv
  <2>10. ASSUME BackToJoinFlow \/ ReturnToRoom \/ Reload PROVE ControlsInv'
    BY <2>10 DEF BackToJoinFlow, ReturnToRoom, Reload, appState, ControlsInv, JoinPresets,
       RoomPresets
  <2>11. ASSUME UNCHANGED shellVars PROVE ControlsInv'
    BY <2>11 DEF shellVars, ControlsInv
  <2> QED BY <2>1, <2>2, <2>3, <2>4, <2>5, <2>6, <2>7, <2>8, <2>9, <2>10, <2>11
          DEF ShellNext
<1> QED BY <1>1, <1>2, PTL DEF ShellSpec

-----------------------------------------------------------------------------
\* What the app keeps true.

\* Every variable holds a value of its kind (lib/types.ts).
THEOREM ShellTypeCorrect == ShellSpec => []ShellTypeOK
<1>1. SessionInv /\ ControlsInv => ShellTypeOK
  BY DEF SessionInv, ControlsInv, InOrder, ShellTypeOK, RoleSeats
<1> QED BY <1>1, ShellInvariant, ControlsInvariant, PTL

\* One browser is on one seat at most, of its link's role, whatever was claimed,
\* taken over, entered and left (session-state.ts: claimSeat, joinRoom, leaveRoom).
THEOREM AlwaysOneSeatPerBrowser == ShellSpec => []OneSeatPerBrowser
<1>1. SessionInv => OneSeatPerBrowser
  BY DEF SessionInv, InOrder, Settled, OneSeatPerBrowser, InRoom
<1> QED BY <1>1, ShellInvariant, PTL

\* The takeover dialog always asks about a seat that is still in use
\* (session-state.ts: openTakeover, confirmTakeover).
THEOREM PendingTakeoverAlwaysReal == ShellSpec => []PendingTakeoverIsReal
<1>1. SessionInv => PendingTakeoverIsReal
  BY DEF SessionInv, Settled, PendingTakeoverIsReal, RoleSeats
<1> QED BY <1>1, ShellInvariant, PTL

\* A screen is shared from the room only, and with the devices of the preview
\* (session-state.ts: updateLocalSeat, joinRoom).
THEOREM MediaAlwaysFollowsRoom == ShellSpec => []MediaFollowsRoom
<1>1. SessionInv => MediaFollowsRoom
  BY DEF SessionInv, InOrder, MediaFollowsRoom, InRoom, LocalSeat
<1> QED BY <1>1, ShellInvariant, PTL

\* A seat in use becomes this browser's by the confirmation alone
\* (session-state.ts: claimSeat, confirmTakeover).
THEOREM TakeoverAlwaysConfirmed == ShellSpec => TakeoverIsConfirmed
<1> DEFINE A == \A id \in RoleSeats :
        session.seats[id].pickerState = "in_use" /\ session'.ownedSeatId = id /\ ~Rebuilt
          => takeoverSeatId = id /\ ~InRoom
<1>1. SessionInv /\ [ShellNext]_shellVars => [A]_shellVars
  <2> SUFFICES ASSUME SessionInv, ShellNext, NEW id \in RoleSeats,
                      session.seats[id].pickerState = "in_use", session'.ownedSeatId = id,
                      ~Rebuilt
               PROVE  takeoverSeatId = id /\ ~InRoom
    OBVIOUS
  <2>1. Confirmed BY ShellStep
  <2>2. session.ownedSeatId # id
    BY DEF SessionInv, Settled, InUse, RoleSeats
  <2> QED BY <2>1, <2>2 DEF Confirmed
<1> QED BY <1>1, ShellInvariant, PTL DEF ShellSpec, TakeoverIsConfirmed

\* What the pages show of a seat is the seat, or the seat under a drill, which
\* changes its signals alone.
LEMMA PresentedSeat ==
  ASSUME SessionInv, ControlsInv, NEW id \in SeatIds
  PROVE  LET seat == session.seats[id]  shown == PresentSession.seats[id] IN
         /\ shown.pickerState = seat.pickerState
         /\ shown.ownershipStatus = seat.ownershipStatus
         /\ \/ /\ shown.localCaptureStatus = seat.localCaptureStatus
               /\ shown.uploadStatus = seat.uploadStatus
            \/ /\ shown.localCaptureStatus \in {seat.localCaptureStatus, "issue"}
               /\ shown.uploadStatus \in {"catching_up", "failed"}
<1> DEFINE seat == session.seats[id]
<1>1. session \in SessionShells /\ seat \in ShellSeats /\ NormalizeSessionState(session) = session
  BY DEF SessionInv, InOrder, Settled, SessionShells
<1>2. \/ PresentSession = session
      \/ /\ roomPreset \in RoomPresets \ {"steady"}
         /\ PresentSession = ApplyRoomDemoPreset(session, roomPreset)
  BY <1>1 DEF PresentSession, ControlsInv
<1>3. CASE PresentSession = session
  BY <1>3
<1>4. CASE /\ roomPreset \in RoomPresets \ {"steady"}
           /\ PresentSession = ApplyRoomDemoPreset(session, roomPreset)
  <2>1. \/ PresentSession.seats[id] = seat
        \/ PresentSession.seats[id] = DrilledSeat(seat, roomPreset)
    BY <1>1, <1>4 DEF ApplyRoomDemoPreset, SessionShells
  <2>2. LET shown == DrilledSeat(seat, roomPreset) IN
        /\ shown.pickerState = seat.pickerState
        /\ shown.ownershipStatus = seat.ownershipStatus
        /\ shown.localCaptureStatus \in {seat.localCaptureStatus, "issue"}
        /\ shown.uploadStatus \in {"catching_up", "failed"}
    BY <1>1, <1>4 DEF DrilledSeat, RoomPresets, ShellSeats
  <2> QED BY <2>1, <2>2
<1> QED BY <1>2, <1>3, <1>4

LEMMA PresentedHealth ==
  ASSUME SessionInv, ControlsInv
  PROVE  /\ PresentSession.recordingPhase = session.recordingPhase
         /\ (InRoom /\ roomPreset # "steady") \/ session.recordingHealth = "failed" =>
              PresentSession.recordingHealth \in {"failed", "degraded"}
<1>1. session \in SessionShells /\ NormalizeSessionState(session) = session
  BY DEF SessionInv, InOrder, Settled
<1> QED BY <1>1 DEF PresentSession, ApplyRoomDemoPreset, SessionShells, InRoom

\* Signals, notices and descriptions are up to date with ownership and phase after
\* every action and under every drill (session-model.ts: normalizeSessionState;
\* SeatPicker.tsx; RoomPage.tsx).
THEOREM SignalsAlwaysCurrent == ShellSpec => []SignalsAreCurrent
<1>1. ASSUME SessionInv, ControlsInv PROVE SignalsAreCurrent
  <2>1. /\ session \in SessionShells /\ NormalizeSessionState(session) = session
        /\ \A id \in SeatIds : session.seats[id] \in ShellSeats
    BY <1>1 DEF SessionInv, InOrder, Settled, SessionShells
  <2>2. \A id \in SeatIds :
          session.seats[id] = NormalizeSeat(session, id, session.seats[id])
    <3>1. NormalizeSessionState(session).seats
            = [id \in SeatIds |-> NormalizeSeat(session, id, session.seats[id])]
      BY <2>1 DEF NormalizeSessionState, SessionShells
    <3> QED BY <2>1, <3>1
  <2>3. ASSUME NEW id \in SeatIds
        PROVE  LET seat == session.seats[id] IN
               /\ seat.joined => seat.claimState = "active"
               /\ seat.ownershipStatus = NormalizedOwnership(seat, seat.joined)
               /\ seat.pickerState = NormalizedPicker(session, id, seat, seat.ownershipStatus)
               /\ seat.localCaptureStatus
                    = Capture(seat.joined, seat.claimState, session.recordingPhase)
               /\ seat.uploadStatus
                    = Upload(seat.joined, seat.claimState, session.recordingPhase)
    <3>1. PICK seat \in ShellSeats : seat = session.seats[id] BY <2>1
    <3>2. seat = NormalizeSeat(session, id, seat) BY <2>2, <3>1
    <3>3. /\ seat.joined = (seat.claimState = "active" /\ (id = session.joinedSeatId \/ seat.joined))
          /\ seat.ownershipStatus = NormalizedOwnership(seat, seat.joined)
          /\ seat.pickerState = NormalizedPicker(session, id, seat, seat.ownershipStatus)
          /\ seat.localCaptureStatus
               = Capture(seat.joined, seat.claimState, session.recordingPhase)
          /\ seat.uploadStatus
               = Upload(seat.joined, seat.claimState, session.recordingPhase)
      BY <2>1, <3>2, NormalizedSeat
    <3>4. seat.joined => seat.claimState = "active" BY <3>3
    <3> QED BY <3>1, <3>3, <3>4
  <2>4. ASSUME NEW id \in SeatIds, session.seats[id].claimState = "disconnected",
               session.recordingPhase = "recording"
        PROVE  /\ PresentSession.seats[id].localCaptureStatus = "issue"
               /\ PresentSession.seats[id].uploadStatus # "synced"
    <3>1. ~session.seats[id].joined BY <2>3, <2>4
    <3>2. /\ session.seats[id].localCaptureStatus = "issue"
          /\ session.seats[id].uploadStatus = "catching_up"
      BY <2>3, <2>4, <3>1 DEF Capture, Upload, PhaseInterruptedCaptureStatus, PhaseBacklogStatus
    <3> QED BY <1>1, <3>2, PresentedSeat
  <2>5. ASSUME NEW id \in RoleSeats
        PROVE  LET shown == PresentSession.seats[id] IN
               /\ SeatPickerNotice(shown) = "available" =>
                    session.seats[id].claimState = "unclaimed"
               /\ id = session.ownedSeatId
                    <=> ClaimSignalValue(shown) \in {"owned", "rejoin needed"}
    <3> DEFINE seat == session.seats[id]
               shown == PresentSession.seats[id]
    <3>1. id \in SeatIds BY DEF RoleSeats
    <3>2. /\ shown.pickerState = seat.pickerState
          /\ shown.ownershipStatus = seat.ownershipStatus
      BY <1>1, <3>1, PresentedSeat
    <3>3. /\ seat.pickerState = NormalizedPicker(session, id, seat, seat.ownershipStatus)
          /\ seat.claimState \in {"unclaimed", "active", "disconnected"}
          /\ seat.pickerState \in {"available", "you", "in_use", "rejoin_available"}
      BY <2>1, <2>3, <3>1 DEF ShellSeats
    <3> HIDE DEF seat, shown
    <3>4. seat.pickerState = "you" <=> id = session.ownedSeatId
      BY <3>3 DEF NormalizedPicker
    <3>5. seat.pickerState = "available" => seat.claimState = "unclaimed"
      BY <3>3 DEF NormalizedPicker
    <3>6. ClaimSignalValue(shown) \in {"owned", "rejoin needed"} <=> shown.pickerState = "you"
      BY <3>2, <3>3 DEF ClaimSignalValue
    <3>7. SeatPickerNotice(shown) = "available" => shown.pickerState = "available"
      <4>1. SeatActionLabel(shown) = "claim" => shown.pickerState = "available"
        BY <3>2, <3>3 DEF SeatActionLabel
      <4>2. SeatActionLabel(shown) \in {"claim", "reclaim", "continue", "recover", "review takeover"}
        BY <3>2, <3>3 DEF SeatActionLabel
      <4>3. SeatPickerNotice(shown) = "available" => SeatActionLabel(shown) = "claim"
        BY <4>2 DEF SeatPickerNotice
      <4> QED BY <4>1, <4>3
    <3> QED BY <3>2, <3>4, <3>5, <3>6, <3>7 DEF seat, shown
  <2>6. (InRoom /\ roomPreset # "steady") \/ session.recordingHealth = "failed" =>
          PhaseDescription(PresentSession) \notin {"ready", "idle again"}
    <3>1. session.recordingPhase \in ShellPhases BY <2>1 DEF SessionShells
    <3> QED BY <1>1, <3>1, PresentedHealth DEF PhaseDescription, ShellPhases
  <2> QED BY <2>1, <2>4, <2>5, <2>6 DEF SignalsAreCurrent, PagesSayWhatIs
<1> QED BY <1>1, ShellInvariant, ControlsInvariant, PTL
=============================================================================
