---------------------------- MODULE ControlConsole ----------------------------
(***************************************************************************)
(* The control console (web/control/src/app): its setup and room pages and *)
(* useControlSessionController, which keeps one session in a query cache,  *)
(* shows every edit at once as a guess and sends the edits one after the   *)
(* other to the control API.                                               *)
(*                                                                         *)
(* Simplifications.                                                        *)
(*  - One console on one session.  The query library is modelled from how  *)
(*    it is configured and called: retry is off, cancelQueries drops the   *)
(*    answer of a fetch (not what its PUT does), invalidateQueries starts  *)
(*    a fetch anew, setQueryData replaces what is cached.                  *)
(*  - Between a click and the guess nothing else happens: cancelQueries    *)
(*    waits for no answer.  Without a cached session a click waits for the *)
(*    first answer, and is lost when that one fails or is cancelled.       *)
(*  - The limit of eight seats of page and API is the one MaxSeats.        *)
(***************************************************************************)
EXTENDS ControlApi, Sequences

CONSTANTS
  Session,      \* the session of the URL
  Earlier,      \* the records that an earlier console may have left
  MaxClicks,    \* bound on the clicks
  MaxFaults     \* bound on lost requests, reconnects and edits made elsewhere

ASSUME SessionIsOne == SessionIds = {Session}
ASSUME EarlierAreRecords == Earlier \subseteq Records \cup {None}
\* They are as the API leaves its sessions: see ApiInvariant in ControlApi_proofs.
ASSUME EarlierAreInOrder ==
  \A record \in Earlier \ {None} :
    LET session == record.session IN
      /\ session.nextSeatNumber > HostSeatId
      /\ HostSeatId \in Roster(session) /\ session.seats[HostSeatId].role = "host"
      /\ \A n \in Roster(session) :
           session.seats[n] = NormalizeSeat(session.recordingPhase, session.seats[n])
      /\ session.status \in {"draft", "ready"} => session.recordingPhase = "waiting"
      /\ session.status = "ended" => session.recordingPhase \in {"stopped", "failed"}
ASSUME ClicksAndFaultsAreBounded == MaxClicks \in Nat /\ MaxFaults \in Nat

VARIABLES
  cache,       \* the session in the query cache, or None
  fetch,       \* the query's fetch: its state and the session in its answer
  waiting,     \* the click that waits for the first session, or None
  queue,       \* the mutations; the first one is under way
  reply,       \* the answer to the first one
  screen,      \* "setup" or "room"
  demoPreset,
  clicks, faults,
  seen,        \* history: the session as the API last told this console
  newest,      \* history: whether that was to a fetch or to a mutation
  last,        \* history: what came last, the newest of the API's answers ("current"),
               \*   an older one, or no answer to a fetch
  toggles      \* history: the clicks on the microphone

pageVars == <<cache, fetch, waiting, queue, reply, screen, demoPreset, toggles, clicks>>
toldVars == <<seen, newest, last>>
consoleVars == <<store, restarts, pageVars, faults, toldVars>>

DemoPresets == {"healthy", "reconnect", "catchup", "issue", "rejoin", "takeover"}

Fetch(state, session) == [state |-> state, session |-> session]
NoReply == [state |-> "none", session |-> None]
Accepted(session) == [state |-> "accepted", session |-> session]
Refused == [state |-> "refused", session |-> None]

-----------------------------------------------------------------------------
\* What the pages show: lib/demo-presets.ts.

DemoSeatId == 3

DemoHealth(preset) ==
  CASE preset \in {"healthy", "takeover"} -> "healthy"
    [] preset = "issue" -> "failed"
    [] OTHER -> "degraded"

Shown(seat, joined, live, capture, ownership, upload) ==
  [seat EXCEPT !.joined = joined, !.liveCallStatus = live, !.localCaptureStatus = capture,
               !.ownershipStatus = ownership, !.uploadStatus = upload]

ApplySeatDemoPreset(session, seat, preset) ==
  LET phase == session.recordingPhase  capture == PhaseJoinedCaptureStatus(phase) IN
  CASE preset = "reconnect" ->
         Shown(seat, TRUE, "reconnecting", capture, "clear", PhaseBacklogStatus(phase))
    [] preset = "catchup" ->
         Shown(seat, TRUE, "connected", capture, "clear", PhaseBacklogStatus(phase))
    [] preset = "rejoin" ->
         Shown(seat, FALSE, "disconnected", PhaseInterruptionCaptureStatus(phase),
               "rejoin_available", PhaseBacklogStatus(phase))
    [] preset = "takeover" ->
         Shown(seat, TRUE, "connected", capture, "takeover_required", PhaseJoinedUploadStatus(phase))
    [] preset = "issue" -> Shown(seat, TRUE, "connected", "issue", "clear", "failed")

PresentSession(session, preset) ==
  IF \/ preset = "healthy"
     \/ session.status = "ended"
     \/ session.recordingPhase = "failed" \/ session.recordingHealth = "failed"
  THEN session
  ELSE [session EXCEPT
          !.recordingHealth = DemoHealth(preset),
          !.seats[DemoSeatId] = IF @ = None THEN None ELSE ApplySeatDemoPreset(session, @, preset)]

Page == PresentSession(IF cache = None THEN CreateInitialSession ELSE cache, demoPreset)

-----------------------------------------------------------------------------
\* What the pages offer.

Op(name) == [name |-> name, seat |-> HostSeatId, value |-> None]
OpOf(name, value) == [name |-> name, seat |-> HostSeatId, value |-> value]
SeatOp(name, n, value) == [name |-> name, seat |-> n, value |-> value]

EditingLocked(session) == session.status \in {"active", "ended"}

\* The rows of the seat list: name, role and removal.
OnlyHost(session, n) == session.seats[n].role = "host" /\ HostCount(session) = 1
Pinned(session, n) == OnlyHost(session, n) \/ n = HostSeatId

SetupSeatRow(session, n) ==
  {SeatOp("rename", n, text) : text \in Texts \ {session.seats[n].displayName}}
    \cup (IF Pinned(session, n) THEN {}
          ELSE {SeatOp("set role", n, role) : role \in Roles \ {session.seats[n].role}})
    \cup (IF Pinned(session, n) \/ Cardinality(Roster(session)) = 1 THEN {}
          ELSE {SeatOp("remove seat", n, None)})

SeatList(session) ==
  (UNION {SetupSeatRow(session, n) : n \in Roster(session)})
    \cup (IF Cardinality(Roster(session)) < MaxSeats THEN {Op("add seat")} ELSE {})

SessionForm(session) ==
  IF EditingLocked(session) THEN {}
  ELSE {OpOf("set title", text) : text \in Texts \ {session.title}}
         \cup {OpOf("set status", status) : status \in {"draft", "ready"}}
         \cup SeatList(session)

\* Open room: "activate" first, unless the session already is.
OpenRoom(session) ==
  CASE session.status = "ready" -> {Op("activate and join")}
    [] session.status = "active" -> {Op("join")}
    [] OTHER -> {}

\* Mutant: the run may be ended whatever its phase.
EndableBar(session) == IF session.status = "active" THEN {Op("end")} ELSE {}
RecordingStatusBar(session) ==
  LET active == session.status = "active"  phase == session.recordingPhase IN
  {op \in {Op("activate"), Op("start"), Op("stop"), Op("finish"), Op("end")} :
     CASE op.name = "activate" -> session.status = "ready"
       [] op.name = "start" -> active /\ phase \in {"waiting", "stopped"}
       [] op.name = "stop" -> active /\ phase = "recording"
       [] op.name = "finish" -> active /\ phase = "draining"
       [] op.name = "end" -> active /\ phase \in {"stopped", "failed"}}

\* The rest of the room page is there whatever the session's status is.
RoomControls(session) ==
  {Op("toggle mic"), Op("toggle camera"), Op("toggle screen share"), Op("leave"), Op("fail")}
    \cup {OpOf("select mic", text) : text \in Texts \ {session.seats[HostSeatId].selectedMic}}
    \cup {OpOf("select camera", text) : text \in Texts \ {session.seats[HostSeatId].selectedCamera}}

Offered ==
  IF screen = "setup" THEN SessionForm(Page) \cup OpenRoom(Page)
  ELSE RecordingStatusBar(Page) \cup RoomControls(Page)

-----------------------------------------------------------------------------
\* useControlSessionController: the request an operation sends.

\* Mutant: phase and health are swapped.
SwappedPatch(status, phase, health) ==
  [EmptySessionPatch EXCEPT !.status = status, !.recordingPhase = health, !.recordingHealth = phase]
SessionPatch(status, phase, health) ==
  [EmptySessionPatch EXCEPT !.status = status, !.recordingPhase = phase, !.recordingHealth = health]

SessionPatchOf(op) ==
  CASE op.name \in {"activate", "activate and join"} -> SessionPatch("active", "waiting", "healthy")
    [] op.name = "start" -> SessionPatch("active", "recording", "healthy")
    [] op.name = "stop" -> SessionPatch("active", "draining", None)
    [] op.name = "finish" -> SessionPatch(None, "stopped", None)
    [] op.name = "fail" -> SessionPatch(None, "failed", "failed")
    [] op.name = "end" -> SessionPatch("ended", None, None)
    [] op.name = "set status" -> SessionPatch(op.value, None, None)
    [] op.name = "set title" -> [EmptySessionPatch EXCEPT !.title = op.value]

\* A toggle is the opposite of what is cached when it is clicked.
SeatPatchOf(op, current) ==
  LET host == current.seats[HostSeatId] IN
  CASE op.name = "join" -> [EmptySeatPatch EXCEPT !.joined = TRUE, !.ownershipStatus = "clear"]
    [] op.name = "leave" ->
         [EmptySeatPatch EXCEPT !.joined = FALSE,
            !.ownershipStatus = IF current.status = "active" THEN "rejoin_available" ELSE "clear"]
    [] op.name = "toggle mic" -> [EmptySeatPatch EXCEPT !.micMuted = ~host.micMuted]
    [] op.name = "toggle camera" -> [EmptySeatPatch EXCEPT !.cameraEnabled = ~host.cameraEnabled]
    [] op.name = "toggle screen share" ->
         [EmptySeatPatch EXCEPT !.screenShareActive = ~host.screenShareActive]
    [] op.name = "select mic" -> [EmptySeatPatch EXCEPT !.selectedMic = op.value]
    [] op.name = "select camera" -> [EmptySeatPatch EXCEPT !.selectedCamera = op.value]
    [] op.name = "rename" -> [EmptySeatPatch EXCEPT !.displayName = op.value]
    [] op.name = "set role" -> [EmptySeatPatch EXCEPT !.role = op.value]

SessionOps == {"activate", "activate and join", "start", "stop", "finish", "fail", "end",
               "set status", "set title"}

RequestOf(op, current) ==
  CASE op.name = "add seat" -> AddSeatRequest
    [] op.name = "remove seat" -> RemoveSeatRequest(op.seat)
    [] op.name \in SessionOps -> PatchSessionRequest(SessionPatchOf(op))
    [] OTHER -> PatchSeatRequest(op.seat, SeatPatchOf(op, current))

\* Mutant: the guess is the patched session as it is.
PatchSessionResponseOnly(session, patch) == SpreadSession(session, patch)
PatchControlSessionResponse(session, patch) ==
  NormalizeControlSession(SpreadSession(session, patch))

\* A seat that is not in the guess any more stays out of it.
PatchControlSeatResponse(session, n, patch) ==
  NormalizeControlSession(
    [session EXCEPT !.seats[n] = IF @ = None THEN None ELSE SpreadSeat(@, patch)])

Guess(session, request) ==
  CASE request.kind = "patch session" -> PatchControlSessionResponse(session, request.patch)
    [] request.kind = "patch seat" -> PatchControlSeatResponse(session, request.seat, request.patch)
    [] OTHER -> session   \* adding and removing is not guessed

\* What its caller does when the operation has succeeded.
ThenOf(op) ==
  CASE op.name = "activate and join" -> "join"
    [] op.name = "join" -> "room"
    [] op.name = "leave" -> "setup"
    [] OTHER -> "stay"

Mutation(op, current) == [request |-> RequestOf(op, current), then |-> ThenOf(op)]

-----------------------------------------------------------------------------
\* runSessionMutation.

\* What came last when the answer to a fetch or a mutation arrives.
AnswerOf(kind) == IF newest = kind THEN "current" ELSE "older"

ConsoleInit ==
  /\ store \in [SessionIds -> Earlier]
  /\ restarts = 0
  /\ cache = None
  /\ fetch = Fetch("sent", None)
  /\ waiting = None
  /\ queue = <<>>
  /\ reply = NoReply
  /\ screen \in {"setup", "room"}
  /\ demoPreset = "healthy"
  /\ clicks = 0 /\ faults = 0
  /\ seen = None
  /\ newest = "fetch" /\ last = "none"
  /\ toggles = 0

\* The fetch under way is cancelled, the guess cached, the mutation put last.
RunSessionMutation(op, current, ahead) ==
  /\ cache' = Guess(current, RequestOf(op, current))
  /\ fetch' = Fetch("idle", None)
  /\ queue' = Append(ahead, Mutation(op, current))
  /\ toggles' = IF op.name = "toggle mic" THEN toggles + 1 ELSE toggles

\* Without a session the click cancels the fetch, and with it the click that
\* waits, and waits for a fetch of its own.
EnsureSessionContract(op) ==
  /\ waiting' = op
  /\ fetch' = Fetch("sent", None)
  /\ UNCHANGED <<cache, queue, toggles>>

Click(op) ==
  /\ clicks < MaxClicks
  /\ op \in Offered
  /\ clicks' = clicks + 1
  /\ IF cache = None THEN EnsureSessionContract(op)
     ELSE RunSessionMutation(op, cache, queue) /\ UNCHANGED waiting
  /\ UNCHANGED <<store, restarts, reply, screen, demoPreset, faults, toldVars>>

ApplyDemoPreset(preset) ==
  /\ screen = "room"
  /\ clicks < MaxClicks
  /\ clicks' = clicks + 1
  /\ demoPreset' = preset
  /\ UNCHANGED <<store, restarts, cache, fetch, waiting, queue, reply, screen, faults, toggles,
                 toldVars>>

BackToSetup ==
  /\ screen = "room"
  /\ screen' = "setup"
  /\ UNCHANGED <<store, restarts, cache, fetch, waiting, queue, reply, demoPreset, clicks, faults,
                 toggles, toldVars>>

\* The API handles the mutation that is under way.
ServeMutation ==
  /\ queue # <<>> /\ reply = NoReply
  /\ LET request == Head(queue).request IN
       IF store[Session] # None /\ Accepts(store[Session], request)
       THEN /\ Handle(Session, request)
            /\ reply' = Accepted(store'[Session].session)
            /\ seen' = store'[Session].session
            /\ newest' = "mutation"
       ELSE /\ reply' = Refused
            /\ UNCHANGED <<store, restarts, seen, newest>>
  /\ UNCHANGED <<cache, fetch, waiting, queue, screen, demoPreset, clicks, faults, toggles, last>>

\* Its answer is cached in place of every guess, also of the ones that still wait;
\* then its caller goes on.
MutationSucceeds ==
  /\ reply.state = "accepted"
  /\ reply' = NoReply
  /\ LET then == Head(queue).then  ahead == Tail(queue) IN
       /\ IF then = "join" THEN RunSessionMutation(Op("join"), reply.session, ahead)
          ELSE /\ cache' = reply.session
               /\ queue' = ahead
               /\ UNCHANGED <<fetch, toggles>>
       /\ screen' = IF then \in {"room", "setup"} THEN then ELSE screen
  /\ last' = AnswerOf("mutation")
  /\ UNCHANGED <<store, restarts, waiting, demoPreset, clicks, faults, seen, newest>>

\* Refused or lost: the session is fetched anew, and the next mutation is sent.
Rejected ==
  /\ queue' = Tail(queue)
  /\ reply' = NoReply
  /\ fetch' = Fetch("sent", None)
  /\ UNCHANGED <<store, restarts, cache, waiting, screen, demoPreset, clicks, toggles, toldVars>>

\* Mutant: a refused mutation is given up without fetching the session.
RefusedSilently ==
  /\ reply.state = "refused"
  /\ queue' = Tail(queue)
  /\ reply' = NoReply
  /\ UNCHANGED <<store, restarts, cache, fetch, waiting, screen, demoPreset, clicks, faults,
                 toggles, toldVars>>
MutationRefused == reply.state = "refused" /\ Rejected /\ UNCHANGED faults

Fault == faults < MaxFaults /\ faults' = faults + 1
\* Mutant: the mutations after a lost one are never sent.
QueueStops ==
  /\ queue # <<>> /\ Fault
  /\ reply' = [state |-> "lost", session |-> None]
  /\ UNCHANGED <<store, restarts, cache, fetch, waiting, queue, screen, demoPreset, clicks,
                 toggles, toldVars>>
MutationLost == queue # <<>> /\ Fault /\ Rejected

-----------------------------------------------------------------------------
\* The query of the session.

\* The PUT makes the session when there is none.
ServeFetch ==
  /\ fetch.state = "sent"
  /\ \/ \E bound \in BOOLEAN : EnsureSession(Session, bound)
     \/ store[Session] # None /\ UNCHANGED <<store, restarts>>
  /\ fetch' = Fetch("answered", store'[Session].session)
  /\ seen' = store'[Session].session
  /\ newest' = "fetch"
  /\ UNCHANGED <<cache, waiting, queue, reply, screen, demoPreset, clicks, faults, toggles, last>>

FetchSucceeds ==
  /\ fetch.state = "answered"
  /\ IF waiting = None
     THEN /\ cache' = fetch.session
          /\ fetch' = Fetch("idle", None)
          /\ UNCHANGED <<queue, toggles>>
     ELSE RunSessionMutation(waiting, fetch.session, queue)
  /\ waiting' = None
  /\ last' = AnswerOf("fetch")
  /\ UNCHANGED <<store, restarts, reply, screen, demoPreset, clicks, faults, seen, newest>>

\* What is cached stays, a guess too; a click that waited is lost.
FetchFails ==
  /\ fetch.state # "idle" /\ Fault
  /\ fetch' = Fetch("idle", None)
  /\ waiting' = None
  /\ last' = "none"
  /\ UNCHANGED <<store, restarts, cache, queue, reply, screen, demoPreset, clicks, toggles, seen,
                 newest>>

\* The network is back.
Reconnect ==
  /\ fetch.state = "idle" /\ Fault
  /\ fetch' = Fetch("sent", None)
  /\ UNCHANGED <<store, restarts, cache, waiting, queue, reply, screen, demoPreset, clicks, toggles,
                 toldVars>>

\* Another console, or the API's process at its start.
Elsewhere == ApiNext /\ Fault /\ UNCHANGED <<pageVars, toldVars>>

ConsoleNext ==
  \/ \E op \in Offered : Click(op)
  \/ \E preset \in DemoPresets : ApplyDemoPreset(preset)
  \/ BackToSetup
  \/ ServeMutation \/ MutationSucceeds \/ MutationRefused \/ MutationLost
  \/ ServeFetch \/ FetchSucceeds \/ FetchFails
  \/ Reconnect
  \/ Elsewhere

\* The API handles what arrives and the event loop delivers every answer; nobody
\* has to click.
ConsoleFairness ==
  /\ WF_consoleVars(ServeMutation)
  /\ WF_consoleVars(MutationSucceeds \/ MutationRefused)
  /\ WF_consoleVars(ServeFetch)
  /\ WF_consoleVars(FetchSucceeds)

ConsoleSpec == ConsoleInit /\ [][ConsoleNext]_consoleVars /\ ConsoleFairness

-----------------------------------------------------------------------------
AtRest == queue = <<>> /\ fetch.state = "idle"

\* Every variable holds a value of its kind.
ConsoleTypeOK ==
  /\ ApiTypeOK
  /\ cache \in Sessions \cup {None}
  /\ fetch.state \in {"idle", "sent", "answered"}
  /\ fetch.session \in Sessions \cup {None}
  /\ reply.session \in Sessions \cup {None}
  /\ waiting # None => waiting.seat \in SeatNumbers
  /\ \A i \in DOMAIN queue : queue[i].then \in {"stay", "join", "room", "setup"}
  /\ screen \in {"setup", "room"}
  /\ demoPreset \in DemoPresets
  /\ clicks \in 0..MaxClicks /\ faults \in 0..MaxFaults
  /\ newest \in {"fetch", "mutation"} /\ last \in {"current", "older", "none"}

\* What a guess shows of a seat follows from the guessed phase: no page ever says
\* that a seat records in a run that the same page says is stopped.
GuessFollowsPhase ==
  cache # None => \A n \in Roster(cache) :
    cache.seats[n] = NormalizeSeat(cache.recordingPhase, cache.seats[n])

\* At rest the console shows what the API last told it and no guess, however many
\* edits were queued, refused and lost, and whatever was fetched beside them.  It
\* does not when an answer came last that was older than another one, which
\* RejectedEditRollsBack is about, or when the last fetch failed.
CacheIsCurrent == cache # None /\ AtRest /\ last = "current" => cache = seen

\* control-shell.spec.ts: "setup fields roll back to canonical session state after
\* a rejected edit": no request having been lost, at rest the console shows the
\* session of the API.
RejectedEditRollsBack ==
  cache # None /\ AtRest /\ faults = 0 => cache = store[Session].session

\* What the status bar and the setup page offer is what the API accepts, as long as
\* the session they show is the API's, under every drill: except the roster of a
\* session of the bootstrap configuration, which they offer to edit.
RosterOps == {"add seat", "remove seat", "rename", "set role"}
ShowsTheSession ==
  /\ cache # None /\ AtRest
  /\ store[Session] # None /\ cache = store[Session].session
OfferedIsAccepted ==
  ShowsTheSession =>
      \A op \in IF screen = "setup" THEN Offered ELSE RecordingStatusBar(Page) :
        \/ store[Session].bound /\ op.name \in RosterOps
        \/ Accepts(store[Session], RequestOf(op, cache))

\* Whatever was refused or lost before it, every edit in the queue is sent and its
\* answer or its loss noticed, and no fetch stays under way.
ConsoleSettles == <>[]AtRest

\* control-shell.spec.ts: "rapid host mic toggles stay ordered against the latest
\* session snapshot": in a run that has not ended, a microphone that was toggled
\* three times is muted when the console is at rest.
RapidTogglesStayOrdered ==
  AtRest /\ toggles = 3 /\ store[Session].session.status = "active" =>
    store[Session].session.seats[HostSeatId].micMuted
=============================================================================
