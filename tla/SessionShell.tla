----------------------------- MODULE SessionShell -----------------------------
(***************************************************************************)
(* The session app behind a valid role link (web/session/src/app): the     *)
(* seat picker and the device preview of the join page, the room page, and *)
(* the reducer both dispatch to (lib/session-state.ts).  The reducer's     *)
(* session is local to the browser; the server's claims are SeatClaims.    *)
(*                                                                         *)
(* Simplifications.                                                        *)
(*  - Seats are their positions in the bootstrap answer, devices their     *)
(*    positions in MIC_OPTIONS and CAMERA_OPTIONS.  Names and labels are   *)
(*    left out, and a text on a page is one word for what it says.         *)
(*  - An action the reducer ignores is not a step.                         *)
(*  - The takeover dialog covers the page for the pointer; the keyboard    *)
(*    reaches what is under it, so it disables nothing here.               *)
(***************************************************************************)
EXTENDS Naturals, FiniteSets

CONSTANTS
  SeatIds,       \* the seats of the bootstrap answer, in its order
  RoleOf,        \* their roles
  DeviceCount,   \* the number of microphones, and of cameras
  MaxMedia,      \* bound on the clicks on toggles and device lists
  None

ASSUME SeatIdsAreNumbers == SeatIds \subseteq Nat \ {0}
ASSUME SeatsAreFinite == IsFiniteSet(SeatIds)
ASSUME SeatsHaveRoles == RoleOf \in [SeatIds -> {"host", "guest"}]
ASSUME DevicesAreCounted == DeviceCount \in Nat \ {0}
ASSUME MediaIsBounded == MaxMedia \in Nat
ASSUME NoneIsNoSeat == None \notin SeatIds

VARIABLES
  role,             \* the role of the link
  session,          \* SessionShell of lib/types.ts
  takeoverSeatId,   \* the seat of the takeover dialog, or None
  joinPreset, roomPreset,
  page,             \* the page of the URL: "join" or "room"
  mediaClicks

shellVars == <<role, session, takeoverSeatId, joinPreset, roomPreset, page, mediaClicks>>
appState == <<session, takeoverSeatId, joinPreset, roomPreset>>

Devices == 1..DeviceCount
ShellPhases == {"waiting", "recording", "draining", "stopped", "failed"}
ShellHealths == {"healthy", "degraded", "failed"}
JoinPresets == {"fresh", "owned", "recover", "takeover"}
RoomPresets == {"steady", "reconnecting", "catching_up", "local_issue"}

ShellSeats ==
  [claimState : {"unclaimed", "active", "disconnected"}, joined : BOOLEAN,
   ownershipStatus : {"clear", "rejoin_available", "takeover_required"},
   pickerState : {"available", "you", "in_use", "rejoin_available"},
   liveCallStatus : {"connected", "reconnecting", "disconnected"},
   localCaptureStatus : {"not_recording", "recording", "issue"},
   uploadStatus : {"synced", "uploading", "catching_up", "failed"},
   micMuted : BOOLEAN, cameraEnabled : BOOLEAN, screenShareActive : BOOLEAN,
   selectedMic : Devices, selectedCamera : Devices]

SessionShells ==
  [joinedSeatId : SeatIds \cup {None}, ownedSeatId : SeatIds \cup {None},
   selectedSeatId : SeatIds \cup {None}, previewMic : Devices, previewCamera : Devices,
   recordingPhase : ShellPhases, recordingHealth : ShellHealths, seats : [SeatIds -> ShellSeats]]

RoleSeats == {s \in SeatIds : RoleOf[s] = role}
\* The k-th seat of the link's role, if there are so many.
RankInRole == [s \in SeatIds |-> Cardinality({t \in SeatIds : t < s /\ RoleOf[t] = RoleOf[s]}) + 1]
NthSeat(k) == {s \in RoleSeats : RankInRole[s] = k}

-----------------------------------------------------------------------------
\* lib/session-model.ts

PhaseJoinedCaptureStatus(phase) ==
  CASE phase = "recording" -> "recording" [] phase = "failed" -> "issue" [] OTHER -> "not_recording"
PhaseInterruptedCaptureStatus(phase) ==
  IF phase \in {"recording", "failed"} THEN "issue" ELSE "not_recording"
PhaseJoinedUploadStatus(phase) ==
  CASE phase = "recording" -> "uploading" [] phase = "draining" -> "catching_up"
    [] phase = "failed" -> "failed" [] OTHER -> "synced"
PhaseBacklogStatus(phase) ==
  CASE phase = "failed" -> "failed"
    [] phase \in {"recording", "draining"} -> "catching_up"
    [] OTHER -> "synced"

ShouldModelDisconnect(phase) == phase \in {"recording", "draining", "failed"}

NormalizedOwnership(seat, joined) ==
  IF ~joined /\ seat.claimState = "disconnected" THEN "rejoin_available"
  ELSE IF seat.ownershipStatus = "takeover_required" THEN "takeover_required"
  ELSE "clear"

NormalizedPicker(s, id, seat, ownership) ==
  IF id = s.ownedSeatId THEN "you"
  ELSE IF ownership = "takeover_required" \/ seat.claimState = "active" THEN "in_use"
  ELSE IF seat.claimState = "disconnected" THEN "rejoin_available"
  ELSE "available"

NormalizeSeat(s, id, seat) ==
  LET joined == seat.claimState = "active" /\ (id = s.joinedSeatId \/ seat.joined)
      phase == s.recordingPhase
      ownership == NormalizedOwnership(seat, joined)
  IN [seat EXCEPT
        !.joined = joined,
        !.liveCallStatus = IF joined THEN "connected" ELSE "disconnected",
        !.localCaptureStatus =
          CASE joined -> PhaseJoinedCaptureStatus(phase)
            [] ~joined /\ seat.claimState = "disconnected" -> PhaseInterruptedCaptureStatus(phase)
            [] OTHER -> "not_recording",
        !.ownershipStatus = ownership,
        !.pickerState = NormalizedPicker(s, id, seat, ownership),
        !.uploadStatus =
          CASE joined -> PhaseJoinedUploadStatus(phase)
            [] ~joined /\ seat.claimState = "disconnected" -> PhaseBacklogStatus(phase)
            [] OTHER -> "synced"]

NormalizeSessionState(s) ==
  [s EXCEPT !.seats = [id \in SeatIds |-> NormalizeSeat(s, id, s.seats[id])]]

\* A seat this browser holds, or has given up: not in the room and not sharing.
Unjoined(seat, claim) ==
  [seat EXCEPT !.claimState = claim, !.joined = FALSE, !.ownershipStatus = "clear",
               !.screenShareActive = FALSE]

GivenUp(seat) ==
  Unjoined(seat, IF seat.claimState = "disconnected" THEN "disconnected" ELSE "unclaimed")

\* Mutant: the seat that was owned before is not given up.
ClaimOneMore(s, id) ==
  [s EXCEPT !.ownedSeatId = id, !.selectedSeatId = id, !.seats[id] = Unjoined(@, "active")]
ClaimSeat(s, id) ==
  [s EXCEPT !.ownedSeatId = id, !.selectedSeatId = id,
            !.seats = [t \in SeatIds |->
               CASE t = id -> Unjoined(s.seats[t], "active")
                 [] t # id /\ t = s.ownedSeatId -> GivenUp(s.seats[t])
                 [] OTHER -> s.seats[t]]]

-----------------------------------------------------------------------------
\* lib/session-fixtures.ts and the presets of the join page.

\* Mutant: the position in the device list is counted from zero.
DeviceFromZero(id) == (id - 1) % DeviceCount
DeviceOf(id) == ((id - 1) % DeviceCount) + 1

CreateSeat(id, claim, joined) ==
  LET disconnected == id \in NthSeat(3)
  IN [claimState |-> claim, joined |-> joined, ownershipStatus |-> "clear",
      pickerState |-> "available",
      liveCallStatus |-> IF joined THEN "connected" ELSE "disconnected",
      localCaptureStatus |-> "not_recording", uploadStatus |-> "synced",
      micMuted |-> disconnected, cameraEnabled |-> ~disconnected, screenShareActive |-> FALSE,
      selectedMic |-> DeviceOf(id), selectedCamera |-> DeviceOf(id)]

\* The seats of the other role are in the room, and so is this role's second.
CreateBootstrapSeats ==
  [id \in SeatIds |->
     CASE id \notin RoleSeats \/ id \in NthSeat(2) -> CreateSeat(id, "active", TRUE)
       [] id \in NthSeat(3) -> CreateSeat(id, "disconnected", FALSE)
       [] OTHER -> CreateSeat(id, "unclaimed", FALSE)]

CreateBaseSession(mic, camera) ==
  [joinedSeatId |-> None, ownedSeatId |-> None, selectedSeatId |-> None,
   previewMic |-> mic, previewCamera |-> camera,
   recordingPhase |-> "waiting", recordingHealth |-> "healthy", seats |-> CreateBootstrapSeats]

Claimed(seat, claim, joined) == [seat EXCEPT !.claimState = claim, !.joined = joined]

\* What a preset makes of the first three seats of the role.
PresetSeat(preset, id, seat) ==
  CASE preset = "owned" /\ id \in NthSeat(1) -> Claimed(seat, "active", FALSE)
    [] preset \in {"fresh", "owned"} /\ id \in NthSeat(2) -> Claimed(seat, "active", TRUE)
    [] preset = "recover" /\ id \in NthSeat(1) -> Claimed(seat, "disconnected", FALSE)
    [] preset = "recover" /\ id \in NthSeat(3) -> Claimed(seat, "active", TRUE)
    [] preset = "takeover" /\ id \in NthSeat(1) ->
         [Claimed(seat, "active", TRUE) EXCEPT !.ownershipStatus = "takeover_required"]
    [] preset # "recover" /\ id \in NthSeat(3) -> Claimed(seat, "disconnected", FALSE)
    [] preset = "fresh" /\ id \in NthSeat(1) -> Claimed(seat, "unclaimed", FALSE)
    [] preset \in {"recover", "takeover"} /\ id \in NthSeat(2) -> Claimed(seat, "unclaimed", FALSE)
    [] OTHER -> seat

\* The seat of the "owned" preset: the only one there is, being the first.
OwnedByPreset(preset) ==
  IF preset = "owned" THEN CHOOSE id \in RoleSeats : id \in NthSeat(1) ELSE None

BuildSessionForJoinPreset(preset, mic, camera) ==
  LET base == CreateBaseSession(mic, camera)
  IN NormalizeSessionState(
       [base EXCEPT !.ownedSeatId = OwnedByPreset(preset), !.selectedSeatId = OwnedByPreset(preset),
                    !.seats = [id \in SeatIds |-> PresetSeat(preset, id, base.seats[id])]])

-----------------------------------------------------------------------------
\* The drills of the room page: what the pages show instead of the session.

RemoteGuests == {s \in SeatIds \ {session.joinedSeatId} : RoleOf[s] = "guest"}
FindRemoteDemoSeatId ==
  IF RemoteGuests = {} THEN session.joinedSeatId
  ELSE CHOOSE s \in RemoteGuests : \A t \in RemoteGuests : s <= t
DemoSeatId == IF role = "host" THEN FindRemoteDemoSeatId ELSE session.joinedSeatId

DrilledSeat(seat, preset) ==
  CASE preset = "reconnecting" ->
         [seat EXCEPT !.liveCallStatus = "reconnecting", !.uploadStatus = "catching_up"]
    [] preset = "catching_up" -> [seat EXCEPT !.uploadStatus = "catching_up"]
    [] preset = "local_issue" ->
         [seat EXCEPT !.localCaptureStatus = "issue", !.uploadStatus = "failed"]

ApplyRoomDemoPreset(s, preset) ==
  [s EXCEPT !.recordingHealth =
              IF preset = "local_issue" \/ s.recordingPhase = "failed" THEN "failed" ELSE "degraded",
            !.seats[DemoSeatId] = DrilledSeat(@, preset)]

PresentSession ==
  IF roomPreset = "steady" \/ session.joinedSeatId = None THEN NormalizeSessionState(session)
  ELSE ApplyRoomDemoPreset(NormalizeSessionState(session), roomPreset)

-----------------------------------------------------------------------------
\* What the pages offer and say.

InRoom == session.joinedSeatId # None

\* The join page: seat picker and presets are locked while this browser is in the
\* room; the device check is there for a selected seat, the dialog for a takeover.
SeatPickerOpen == page = "join" /\ ~InRoom
DevicePreviewShown == SeatPickerOpen /\ PresentSession.selectedSeatId # None
TakeoverDialogShown == page = "join" /\ takeoverSeatId # None

SeatActionLabel(seat) ==
  CASE seat.pickerState = "available" -> "claim"
    [] seat.pickerState = "you" /\ seat.ownershipStatus = "rejoin_available" -> "reclaim"
    [] seat.pickerState = "you" /\ seat.ownershipStatus # "rejoin_available" -> "continue"
    [] seat.pickerState = "rejoin_available" -> "recover"
    [] seat.pickerState = "in_use" -> "review takeover"

ClaimSignalValue(seat) ==
  CASE seat.pickerState = "you" /\ seat.ownershipStatus = "rejoin_available" -> "rejoin needed"
    [] seat.pickerState = "you" /\ seat.ownershipStatus # "rejoin_available" -> "owned"
    [] OTHER -> seat.pickerState

SeatPickerNotice(seat) ==
  CASE SeatActionLabel(seat) = "reclaim" -> "this browser can reclaim"
    [] SeatActionLabel(seat) = "continue" -> "this browser owns"
    [] SeatActionLabel(seat) = "recover" -> "the last browser is gone"
    [] SeatActionLabel(seat) = "review takeover" -> "another browser owns"
    [] SeatActionLabel(seat) = "claim" -> "available"

\* The room page is only there for a browser with a seat in the room.
RoomShown == page = "room" /\ InRoom

\* The status bar, for hosts alone.
StatusBar(s) ==
  IF ~RoomShown \/ role # "host" THEN {}
  ELSE CASE s.recordingPhase \in {"waiting", "stopped"} -> {"start"}
         [] s.recordingPhase = "recording" -> {"stop", "fail"}
         [] s.recordingPhase = "draining" -> {"finish"}
         [] s.recordingPhase = "failed" -> {}

PhaseDescription(s) ==
  CASE s.recordingPhase \in {"recording", "draining"} -> s.recordingPhase
    [] s.recordingPhase = "failed" -> "untrustworthy"
    [] s.recordingPhase \in {"waiting", "stopped"} ->
         CASE s.recordingHealth = "failed" -> "untrustworthy"
           [] s.recordingHealth = "degraded" -> "drifting"
           [] s.recordingHealth = "healthy" /\ s.recordingPhase = "stopped" -> "idle again"
           [] s.recordingHealth = "healthy" /\ s.recordingPhase = "waiting" -> "ready"

-----------------------------------------------------------------------------
\* lib/session-state.ts: the reducer, each action where a page dispatches it.

UpdateSessionState(s) == session' = NormalizeSessionState(s)

ShellInit ==
  /\ role \in {"host", "guest"}
  /\ RoleSeats # {}
  /\ session = BuildSessionForJoinPreset("fresh", 1, 1)
  /\ takeoverSeatId = None
  /\ joinPreset = "fresh"
  /\ roomPreset = "steady"
  /\ page = "join"
  /\ mediaClicks = 0

\* Mutant: the takeover that was asked for is kept.
PresetKeepsDialog(preset) ==
  /\ SeatPickerOpen
  /\ session' = BuildSessionForJoinPreset(preset, session.previewMic, session.previewCamera)
  /\ joinPreset' = preset
  /\ roomPreset' = "steady"
  /\ UNCHANGED <<role, takeoverSeatId, page, mediaClicks>>
ApplyJoinPreset(preset) ==
  /\ SeatPickerOpen
  /\ session' = BuildSessionForJoinPreset(preset, session.previewMic, session.previewCamera)
  /\ takeoverSeatId' = None
  /\ joinPreset' = preset
  /\ roomPreset' = "steady"
  /\ UNCHANGED <<role, page, mediaClicks>>

ApplyRoomPreset(preset) ==
  /\ RoomShown
  /\ roomPreset' = preset
  /\ UNCHANGED <<role, session, takeoverSeatId, joinPreset, page, mediaClicks>>

\* A seat that another browser uses is asked about, any other one claimed.
AskTakeover(id) == takeoverSeatId' = id /\ UNCHANGED session
\* Mutant: a seat in use is claimed like any other.
ClaimAnySeat(id) ==
  /\ SeatPickerOpen
  /\ UpdateSessionState(ClaimSeat(session, id)) /\ UNCHANGED takeoverSeatId
  /\ UNCHANGED <<role, joinPreset, roomPreset, page, mediaClicks>>
ChooseSeat(id) ==
  /\ SeatPickerOpen
  /\ IF session.seats[id].pickerState = "in_use" THEN AskTakeover(id)
     ELSE UpdateSessionState(ClaimSeat(session, id)) /\ UNCHANGED takeoverSeatId
  /\ UNCHANGED <<role, joinPreset, roomPreset, page, mediaClicks>>

ClearSeatSelection ==
  /\ DevicePreviewShown
  /\ UpdateSessionState([session EXCEPT !.selectedSeatId = None])
  /\ UNCHANGED <<role, takeoverSeatId, joinPreset, roomPreset, page, mediaClicks>>

ConfirmTakeover ==
  /\ TakeoverDialogShown
  /\ ~InRoom
  /\ UpdateSessionState(ClaimSeat(session, takeoverSeatId))
  /\ takeoverSeatId' = None
  /\ UNCHANGED <<role, joinPreset, roomPreset, page, mediaClicks>>

DismissTakeover ==
  /\ TakeoverDialogShown
  /\ takeoverSeatId' = None
  /\ UNCHANGED <<role, session, joinPreset, roomPreset, page, mediaClicks>>

\* Mutant: the devices of the preview are not taken along.
JoinedWithItsOwn(seat, mic, camera) ==
  [seat EXCEPT !.claimState = "active", !.joined = TRUE, !.ownershipStatus = "clear"]
JoinedWith(seat, mic, camera) ==
  [seat EXCEPT !.claimState = "active", !.joined = TRUE, !.ownershipStatus = "clear",
               !.selectedMic = mic, !.selectedCamera = camera]

JoinRoom ==
  /\ DevicePreviewShown
  /\ UpdateSessionState(
       [session EXCEPT !.joinedSeatId = session.selectedSeatId,
                       !.ownedSeatId = session.selectedSeatId,
                       !.seats[session.selectedSeatId] =
                          JoinedWith(@, session.previewMic, session.previewCamera)])
  /\ page' = "room"
  /\ UNCHANGED <<role, takeoverSeatId, joinPreset, roomPreset, mediaClicks>>

\* The seat stays owned; it counts as dropped when a recording still needs it.
LeaveRoom ==
  /\ RoomShown
  /\ UpdateSessionState(
       [session EXCEPT !.joinedSeatId = None, !.selectedSeatId = None,
                       !.seats[session.joinedSeatId] =
                          Unjoined(@, IF ShouldModelDisconnect(session.recordingPhase)
                                      THEN "disconnected" ELSE "active")])
  /\ page' = "join"
  /\ UNCHANGED <<role, takeoverSeatId, joinPreset, roomPreset, mediaClicks>>

\* The controls of the seat in the room; a device is also the next preview's.
UpdateLocalSeat(seat, mic, camera) ==
  UpdateSessionState([session EXCEPT !.seats[session.joinedSeatId] = seat,
                                     !.previewMic = mic, !.previewCamera = camera])

LocalSeat == session.seats[session.joinedSeatId]

MediaClick ==
  /\ mediaClicks < MaxMedia
  /\ mediaClicks' = mediaClicks + 1
  /\ UNCHANGED <<role, takeoverSeatId, joinPreset, roomPreset, page>>

SelectLocalMic(device) ==
  /\ RoomShown
  /\ UpdateLocalSeat([LocalSeat EXCEPT !.selectedMic = device], device, session.previewCamera)
  /\ MediaClick

SelectLocalCamera(device) ==
  /\ RoomShown
  /\ UpdateLocalSeat([LocalSeat EXCEPT !.selectedCamera = device], session.previewMic, device)
  /\ MediaClick

ToggleLocal(seat) ==
  /\ RoomShown
  /\ UpdateLocalSeat(seat, session.previewMic, session.previewCamera)
  /\ MediaClick

ToggleLocalMic == ToggleLocal([LocalSeat EXCEPT !.micMuted = ~@])
ToggleLocalCamera == ToggleLocal([LocalSeat EXCEPT !.cameraEnabled = ~@])
ToggleLocalScreenShare == ToggleLocal([LocalSeat EXCEPT !.screenShareActive = ~@])

SelectPreviewMic(device) ==
  /\ DevicePreviewShown
  /\ UpdateSessionState([session EXCEPT !.previewMic = device])
  /\ MediaClick

SelectPreviewCamera(device) ==
  /\ DevicePreviewShown
  /\ UpdateSessionState([session EXCEPT !.previewCamera = device])
  /\ MediaClick

\* The recording controls of the status bar.
MoveRecording(phase, health) ==
  /\ UpdateSessionState([session EXCEPT !.recordingPhase = phase, !.recordingHealth = health])
  /\ UNCHANGED <<role, takeoverSeatId, joinPreset, roomPreset, page, mediaClicks>>

StartRecording ==
  /\ "start" \in StatusBar(PresentSession)
  /\ role = "host" /\ InRoom
  /\ MoveRecording("recording", "healthy")

\* Mutant: the seats' signals are not brought up to date.
StopUnnormalized ==
  /\ "stop" \in StatusBar(PresentSession)
  /\ role = "host" /\ session.recordingPhase = "recording"
  /\ session' = [session EXCEPT !.recordingPhase = "draining"]
  /\ UNCHANGED <<role, takeoverSeatId, joinPreset, roomPreset, page, mediaClicks>>
StopRecording ==
  /\ "stop" \in StatusBar(PresentSession)
  /\ role = "host" /\ session.recordingPhase = "recording"
  /\ MoveRecording("draining", session.recordingHealth)

FailRecording ==
  /\ "fail" \in StatusBar(PresentSession)
  /\ role = "host" /\ InRoom
  /\ MoveRecording("failed", "failed")

FinishDrain ==
  /\ "finish" \in StatusBar(PresentSession)
  /\ session.recordingPhase = "draining"
  /\ MoveRecording("stopped", session.recordingHealth)

\* Between the pages without leaving the room.
BackToJoinFlow == RoomShown /\ page' = "join" /\ UNCHANGED <<role, appState, mediaClicks>>
ReturnToRoom ==
  page = "join" /\ InRoom /\ page' = "room" /\ UNCHANGED <<role, appState, mediaClicks>>

\* The app is built again; its room page, without a seat, leads to the join page.
Reload ==
  /\ session' = BuildSessionForJoinPreset("fresh", 1, 1)
  /\ takeoverSeatId' = None
  /\ joinPreset' = "fresh"
  /\ roomPreset' = "steady"
  /\ page' = "join"
  /\ UNCHANGED <<role, mediaClicks>>

ShellNext ==
  \/ \E preset \in JoinPresets : ApplyJoinPreset(preset)
  \/ \E preset \in RoomPresets : ApplyRoomPreset(preset)
  \/ \E id \in RoleSeats : ChooseSeat(id)
  \/ ClearSeatSelection
  \/ ConfirmTakeover \/ DismissTakeover
  \/ JoinRoom \/ LeaveRoom
  \/ \E device \in Devices :
       \/ SelectLocalMic(device) \/ SelectLocalCamera(device)
       \/ SelectPreviewMic(device) \/ SelectPreviewCamera(device)
  \/ ToggleLocalMic \/ ToggleLocalCamera \/ ToggleLocalScreenShare
  \/ StartRecording \/ StopRecording \/ FailRecording \/ FinishDrain
  \/ BackToJoinFlow \/ ReturnToRoom
  \/ Reload

ShellSpec == ShellInit /\ [][ShellNext]_shellVars

-----------------------------------------------------------------------------
\* Every variable holds a value of its kind.
ShellTypeOK ==
  /\ role \in {"host", "guest"}
  /\ session \in SessionShells
  /\ takeoverSeatId \in SeatIds \cup {None}
  /\ joinPreset \in JoinPresets
  /\ roomPreset \in RoomPresets
  /\ page \in {"join", "room"}
  /\ mediaClicks \in 0..MaxMedia

\* "That keeps one browser on one seat and avoids silently leaking joined state
\* onto another claim" (JoinPage.tsx): the selected seat and the seat in the room
\* are the one this browser owns, of its link's role, and every other claimed seat
\* of the role is in the room for somebody else.
OneSeatPerBrowser ==
  /\ session.selectedSeatId \in {None, session.ownedSeatId}
  /\ session.ownedSeatId # None =>
       /\ session.ownedSeatId \in RoleSeats
       /\ session.seats[session.ownedSeatId].claimState # "unclaimed"
       /\ session.seats[session.ownedSeatId].joined => InRoom
  /\ InRoom =>
       /\ session.joinedSeatId = session.ownedSeatId
       /\ session.selectedSeatId = session.ownedSeatId
       /\ session.seats[session.joinedSeatId].joined
  /\ \A id \in RoleSeats \ {session.ownedSeatId} :
       session.seats[id].claimState = "active" => session.seats[id].joined

\* The dialog asks about a seat that another browser still uses, however many other
\* seats were chosen, entered and left since it was opened.
PendingTakeoverIsReal ==
  takeoverSeatId # None =>
    /\ takeoverSeatId \in RoleSeats
    /\ session.seats[takeoverSeatId].pickerState = "in_use"

\* The picker and the status bar do not comfort: a seat it calls available is claimed
\* by nobody, only this browser's seat reads as its own, and a drill or a failure is
\* never described as a room that is ready.
PagesSayWhatIs ==
  /\ \A id \in RoleSeats :
       LET seat == PresentSession.seats[id]
       IN /\ SeatPickerNotice(seat) = "available" => session.seats[id].claimState = "unclaimed"
          /\ id = session.ownedSeatId <=> ClaimSignalValue(seat) \in {"owned", "rejoin needed"}
  /\ (InRoom /\ roomPreset # "steady") \/ session.recordingHealth = "failed" =>
       PhaseDescription(PresentSession) \notin {"ready", "idle again"}

\* What a seat shows is up to date with phase and ownership after every action, and
\* a seat that dropped out of a recording reads as an issue under every drill
\* ("instead of quietly collapsing back to healthy", SeatPicker.tsx).
SignalsAreCurrent ==
  /\ PagesSayWhatIs
  /\ NormalizeSessionState(session) = session
  /\ \A id \in SeatIds :
       session.seats[id].claimState = "disconnected" /\ session.recordingPhase = "recording" =>
         /\ PresentSession.seats[id].localCaptureStatus = "issue"
         /\ PresentSession.seats[id].uploadStatus # "synced"

\* A screen is shared from the seat in the room only, and that seat uses the devices
\* that the next device preview will offer.
MediaFollowsRoom ==
  /\ \A id \in SeatIds : session.seats[id].screenShareActive => id = session.joinedSeatId
  /\ InRoom => /\ LocalSeat.selectedMic = session.previewMic
               /\ LocalSeat.selectedCamera = session.previewCamera

Rebuilt == Reload \/ \E preset \in JoinPresets : ApplyJoinPreset(preset)

\* "There is never a silent two-owner window" (JoinPage.tsx): a seat in use becomes
\* this browser's only by the confirmation of the dialog that asked about it.
TakeoverIsConfirmed ==
  [][ \A id \in RoleSeats :
        session.seats[id].pickerState = "in_use" /\ session'.ownedSeatId = id /\ ~Rebuilt
          => takeoverSeatId = id /\ ~InRoom ]_shellVars
=============================================================================
