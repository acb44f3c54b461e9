---------------------------- MODULE ControlSession ----------------------------
(***************************************************************************)
(* A hosted session as the control app's API and its React console hold    *)
(* it, and the pure functions both compute it with (web/control/src/app/   *)
(* lib, web/control/src/api/validation, web/shared/sessionContract.ts).    *)
(*                                                                         *)
(* Simplifications.                                                        *)
(*  - A seat is its number: "seat-host-01" is 1 and the seat the API makes *)
(*    for nextSeatNumber n, "seat-guest-0n", is n.  A number that is not   *)
(*    in the roster has the seat None.  Seats stay in number order.        *)
(*  - Titles, display names and device labels are members of Texts, of     *)
(*    which Original stands for whatever the fixture or the configuration  *)
(*    says.  Labels and links are left out of the session.                 *)
(*  - In a patch, None is a field that the body does not have.             *)
(***************************************************************************)
EXTENDS Naturals, FiniteSets

CONSTANTS
  SeatNumbers,   \* the seat numbers there are: bounds nextSeatNumber
  MaxSeats,      \* the roster holds no more seats; 8 in the code
  Texts,         \* what a person may type or choose
  Original,      \* what fixture and configuration say
  None

HostSeatId == 1

Roles == {"host", "guest"}
Statuses == {"draft", "ready", "active", "ended"}
Phases == {"waiting", "recording", "draining", "stopped", "failed"}
Healths == {"healthy", "degraded", "failed"}
Ownerships == {"clear", "rejoin_available", "takeover_required"}
LiveCalls == {"connected", "reconnecting", "disconnected"}
Captures == {"not_recording", "recording", "issue"}
Uploads == {"synced", "uploading", "catching_up", "failed"}

ASSUME SeatNumbersAreNumbers == SeatNumbers \subseteq Nat /\ {1, 2, 3} \subseteq SeatNumbers
ASSUME MaxSeatsIsNat == MaxSeats \in Nat \ {0}
ASSUME OriginalIsText == Original \in Texts
ASSUME NoneIsNoValue ==
  /\ None \notin Texts \cup Roles \cup Statuses \cup Phases \cup Healths \cup Ownerships
  /\ None \notin BOOLEAN

Seats == [role : Roles, displayName : Texts, joined : BOOLEAN, ownershipStatus : Ownerships,
          micMuted : BOOLEAN, cameraEnabled : BOOLEAN, screenShareActive : BOOLEAN,
          selectedMic : Texts, selectedCamera : Texts,
          liveCallStatus : LiveCalls, localCaptureStatus : Captures, uploadStatus : Uploads]

ASSUME NoneIsNoSeat == None \notin Seats

Sessions == [title : Texts, status : Statuses, recordingPhase : Phases,
             recordingHealth : Healths, nextSeatNumber : Nat,
             seats : [SeatNumbers -> Seats \cup {None}]]

\* The patches that the parsers of the PATCH bodies let through.
EmptySessionPatch ==
  [title |-> None, status |-> None, recordingPhase |-> None, recordingHealth |-> None]
SessionPatches ==
  [title : Texts \cup {None}, status : Statuses \cup {None},
   recordingPhase : Phases \cup {None}, recordingHealth : Healths \cup {None}]
    \ {EmptySessionPatch}

EmptySeatPatch ==
  [role |-> None, displayName |-> None, joined |-> None, ownershipStatus |-> None,
   micMuted |-> None, cameraEnabled |-> None, screenShareActive |-> None,
   selectedMic |-> None, selectedCamera |-> None]
SeatPatches ==
  [role : Roles \cup {None}, displayName : Texts \cup {None}, joined : BOOLEAN \cup {None},
   ownershipStatus : Ownerships \cup {None}, micMuted : BOOLEAN \cup {None},
   cameraEnabled : BOOLEAN \cup {None}, screenShareActive : BOOLEAN \cup {None},
   selectedMic : Texts \cup {None}, selectedCamera : Texts \cup {None}]
    \ {EmptySeatPatch}

Given(value, current) == IF value = None THEN current ELSE value

-----------------------------------------------------------------------------
\* The roster.

Roster(session) == {n \in SeatNumbers : session.seats[n] # None}
HostCount(session) == Cardinality({n \in Roster(session) : session.seats[n].role = "host"})

CreateGuestSeat ==
  [role |-> "guest", displayName |-> Original, joined |-> FALSE, ownershipStatus |-> "clear",
   micMuted |-> FALSE, cameraEnabled |-> TRUE, screenShareActive |-> FALSE,
   selectedMic |-> Original, selectedCamera |-> Original,
   liveCallStatus |-> "disconnected", localCaptureStatus |-> "not_recording",
   uploadStatus |-> "synced"]

JoinedSeat(role) ==
  [CreateGuestSeat EXCEPT !.role = role, !.joined = TRUE, !.liveCallStatus = "connected"]

CreateInitialSession ==
  [title |-> Original, status |-> "ready", recordingPhase |-> "waiting",
   recordingHealth |-> "healthy", nextSeatNumber |-> 4,
   seats |-> [n \in SeatNumbers |-> CASE n = 1 -> JoinedSeat("host")
                                      [] n = 2 -> JoinedSeat("guest")
                                      [] n = 3 -> CreateGuestSeat
                                      [] OTHER -> None]]

-----------------------------------------------------------------------------
\* What a seat shows follows from whether it is joined and from the phase.

PhaseJoinedCaptureStatus(phase) == IF phase = "recording" THEN "recording" ELSE "not_recording"
PhaseInterruptionCaptureStatus(phase) == IF phase = "recording" THEN "issue" ELSE "not_recording"
PhaseJoinedUploadStatus(phase) ==
  CASE phase = "recording" -> "uploading"
    [] phase = "draining" -> "catching_up"
    [] OTHER -> "synced"
PhaseBacklogStatus(phase) ==
  IF phase \in {"recording", "draining"} THEN "catching_up" ELSE "synced"

Interrupted(seat) == ~seat.joined /\ seat.ownershipStatus = "rejoin_available"

NormalizeSeat(phase, seat) ==
  [seat EXCEPT
     !.liveCallStatus = IF seat.joined THEN "connected" ELSE "disconnected",
     !.localCaptureStatus =
       CASE seat.joined -> PhaseJoinedCaptureStatus(phase)
         [] Interrupted(seat) -> PhaseInterruptionCaptureStatus(phase)
         [] OTHER -> "not_recording",
     !.ownershipStatus = IF seat.joined /\ @ = "rejoin_available" THEN "clear" ELSE @,
     !.uploadStatus =
       CASE seat.joined -> PhaseJoinedUploadStatus(phase)
         [] Interrupted(seat) -> PhaseBacklogStatus(phase)
         [] OTHER -> "synced"]

NormalizeControlSession(session) ==
  [session EXCEPT !.seats = [n \in SeatNumbers |->
     IF session.seats[n] = None THEN None
     ELSE NormalizeSeat(session.recordingPhase, session.seats[n])]]

-----------------------------------------------------------------------------
\* Patches.

SpreadSeat(seat, patch) ==
  [seat EXCEPT !.role = Given(patch.role, @),
               !.displayName = Given(patch.displayName, @),
               !.joined = Given(patch.joined, @),
               !.ownershipStatus = Given(patch.ownershipStatus, @),
               !.micMuted = Given(patch.micMuted, @),
               !.cameraEnabled = Given(patch.cameraEnabled, @),
               !.screenShareActive = Given(patch.screenShareActive, @),
               !.selectedMic = Given(patch.selectedMic, @),
               !.selectedCamera = Given(patch.selectedCamera, @)]

\* Mutant: a field that the body does not have is set as well.
SpreadUndefined(session, patch) ==
  [session EXCEPT !.title = Given(patch.title, @),
                  !.status = Given(patch.status, @),
                  !.recordingPhase = Given(patch.recordingPhase, @),
                  !.recordingHealth = patch.recordingHealth]
SpreadSession(session, patch) ==
  [session EXCEPT !.title = Given(patch.title, @),
                  !.status = Given(patch.status, @),
                  !.recordingPhase = Given(patch.recordingPhase, @),
                  !.recordingHealth = Given(patch.recordingHealth, @)]

\* The operator's seat keeps its role, and the last host stays one: the role in
\* the patch is silently left out.
KeepsRole(session, id, patch) ==
  \/ id = HostSeatId
  \/ /\ session.seats[id].role = "host"
     /\ patch.role = "guest"
     /\ HostCount(session) = 1

\* Mutant: only the last host is kept, not the operator's seat.
PatchAnyHost(session, id, patch) == [session EXCEPT !.seats[id] = SpreadSeat(@, patch)]
PatchSessionSeat(session, id, patch) ==
  [session EXCEPT !.seats[id] =
     [SpreadSeat(session.seats[id], patch) EXCEPT
        !.role = IF KeepsRole(session, id, patch) THEN session.seats[id].role ELSE @]]

\* Likewise the only seat, the operator's seat and the last host are not removed.
Removable(session, id) ==
  /\ Roster(session) # {id}
  /\ id # HostSeatId
  /\ ~(session.seats[id].role = "host" /\ HostCount(session) = 1)
RemoveSessionSeat(session, id) ==
  IF Removable(session, id) THEN [session EXCEPT !.seats[id] = None] ELSE session

-----------------------------------------------------------------------------
\* What the API lets a patch do.

RosterEditable(status) == status \in {"draft", "ready"}

IsAllowedStatusTransition(current, next) ==
  \/ current = next
  \/ current = "draft" /\ next \in {"ready", "ended"}
  \/ current = "ready" /\ next \in {"active", "draft", "ended"}
  \/ current = "active" /\ next = "ended"

\* Mutant: a recording that failed may be resumed.
ResumablePhaseTransition(current, next) ==
  \/ current = next
  \/ next = "failed"
  \/ <<current, next>> \in {<<"waiting", "recording">>, <<"recording", "draining">>,
                            <<"draining", "stopped">>, <<"stopped", "recording">>,
                            <<"failed", "recording">>}
IsAllowedRecordingPhaseTransition(current, next) ==
  \/ current = next
  \/ next = "failed"
  \/ <<current, next>> \in {<<"waiting", "recording">>, <<"recording", "draining">>,
                            <<"draining", "stopped">>, <<"stopped", "recording">>}

FieldsMayChange(session, patch) ==
  session.status # "ended" /\ (patch.title # None => RosterEditable(session.status))

StatusMayMove(session, patch) ==
  patch.status # None => IsAllowedStatusTransition(session.status, patch.status)

\* Mutant: the phase may move whatever the status is.
PhaseMovesAlone(session, patch) ==
  patch.recordingPhase # None =>
    IsAllowedRecordingPhaseTransition(session.recordingPhase, patch.recordingPhase)
PhaseMayMove(session, patch) ==
  patch.recordingPhase # None =>
    /\ Given(patch.status, session.status) = "active"
    /\ IsAllowedRecordingPhaseTransition(session.recordingPhase, patch.recordingPhase)

MayEnd(session, patch) ==
  patch.status = "ended" =>
    Given(patch.recordingPhase, session.recordingPhase) \in {"stopped", "failed"}

ValidateSessionPatch(session, patch) ==
  /\ FieldsMayChange(session, patch)
  /\ StatusMayMove(session, patch)
  /\ PhaseMayMove(session, patch)
  /\ MayEnd(session, patch)

TouchesRosterFields(patch) == patch.displayName # None \/ patch.role # None
=============================================================================
