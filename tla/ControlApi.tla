------------------------------ MODULE ControlApi ------------------------------
(***************************************************************************)
(* The local control API (web/control/src/api): its store of sessions, the *)
(* routes that read and change it, and the process that keeps it.          *)
(*                                                                         *)
(* A handler is one action.  It looks the record up before it waits for    *)
(* the body of a PATCH and validates after the wait, but against the same  *)
(* mutable record, which nothing removes while the process runs: what      *)
(* counts is the moment of the validation, and from there to the answer it *)
(* does not wait.  A request that is refused changes nothing.              *)
(*                                                                         *)
(* The store is in memory.  A restart empties it; a session that is put    *)
(* again starts over.  The bootstrap configuration, a file and the         *)
(* environment, is read whenever a record is made: it may name a session   *)
(* today and another one tomorrow, with the same pair of join keys or with *)
(* another pair, and nothing keeps the two keys of a pair apart.           *)
(***************************************************************************)
EXTENDS ControlSession

CONSTANTS
  SessionIds,
  BootstrapRoles,  \* the seats of the bootstrap configuration: by number their role
  BootstrapKeys,   \* the join keys that the bootstrap configuration may give
  SessionEdits,    \* the session patches that are sent
  SeatEdits,       \* the seat patches that are sent
  MaxRestarts      \* bound on the restarts of the process

ASSUME BootstrapRolesOfSeats ==
  /\ BootstrapRoles \in [SeatNumbers -> Roles \cup {None}]
  /\ BootstrapRoles[HostSeatId] = "host"
  /\ IsFiniteSet({n \in SeatNumbers : BootstrapRoles[n] # None})
ASSUME EditsArePatches == SessionEdits \subseteq SessionPatches /\ SeatEdits \subseteq SeatPatches
ASSUME MaxRestartsIsNat == MaxRestarts \in Nat

VARIABLES
  store,     \* localSessionStore: by session its record, or None
  restarts   \* how often the process was started again

apiVars == <<store, restarts>>

-----------------------------------------------------------------------------
\* Records.

\* Random keys are told apart by the session, the role and the process they were
\* drawn for: a process makes the record of a session once.
DrawnKeys == [session : SessionIds, role : Roles, process : 0..MaxRestarts]
JoinKeys == DrawnKeys \cup BootstrapKeys

ASSUME NoneIsNoJoinKey == None \notin JoinKeys

CreateLocalJoinKeys(id) ==
  [role \in Roles |-> [session |-> id, role |-> role, process |-> restarts]]

\* The configuration gives its pair to whichever session it names.
RecordJoinKeys(id, bound) ==
  IF bound THEN [Roles -> BootstrapKeys] ELSE {CreateLocalJoinKeys(id)}

BootstrapSeat(n) ==
  LET template == IF n \in Roster(CreateInitialSession) THEN CreateInitialSession.seats[n]
                  ELSE IF BootstrapRoles[n] = "host" THEN JoinedSeat("host")
                  ELSE CreateGuestSeat
  IN [template EXCEPT !.displayName = Original, !.role = BootstrapRoles[n]]

CreateBootstrapBoundSession ==
  [CreateInitialSession EXCEPT
     !.nextSeatNumber = Cardinality({n \in SeatNumbers : BootstrapRoles[n] # None}) + 1,
     !.seats = [n \in SeatNumbers |->
                  IF BootstrapRoles[n] = None THEN None ELSE BootstrapSeat(n)]]

\* bound: the bootstrap configuration names the session.
CreateStoredSessionRecord(joinKeys, bound) ==
  [joinKeys |-> joinKeys,
   bound |-> bound,
   session |-> NormalizeControlSession(
     IF bound THEN CreateBootstrapBoundSession ELSE CreateInitialSession)]

Records == [joinKeys : [Roles -> JoinKeys], bound : BOOLEAN, session : Sessions]

ASSUME NoneIsNoRecord == None \notin Records

-----------------------------------------------------------------------------
\* Requests: what they need, and what the session is after them.

Requests ==
  [kind : {"add seat"}, seat : {None}, patch : {None}]
    \cup [kind : {"remove seat"}, seat : SeatNumbers, patch : {None}]
    \cup [kind : {"patch seat"}, seat : SeatNumbers, patch : SeatEdits]
    \cup [kind : {"patch session"}, seat : {None}, patch : SessionEdits]

AddSeatRequest == [kind |-> "add seat", seat |-> None, patch |-> None]
RemoveSeatRequest(n) == [kind |-> "remove seat", seat |-> n, patch |-> None]
PatchSeatRequest(n, patch) == [kind |-> "patch seat", seat |-> n, patch |-> patch]
PatchSessionRequest(patch) == [kind |-> "patch session", seat |-> None, patch |-> patch]

\* Mutant: the roster of the bootstrap configuration may be edited.
AnyRosterMutation(record) == RosterEditable(record.session.status)
ValidateRosterMutation(record) == ~record.bound /\ RosterEditable(record.session.status)

ValidateSeatPatch(record, patch) ==
  /\ record.session.status # "ended"
  /\ TouchesRosterFields(patch) => ~record.bound /\ RosterEditable(record.session.status)

Accepts(record, request) ==
  CASE request.kind = "add seat" -> ValidateRosterMutation(record)
    [] request.kind = "remove seat" ->
         ValidateRosterMutation(record) /\ request.seat \in Roster(record.session)
    [] request.kind = "patch seat" ->
         ValidateSeatPatch(record, request.patch) /\ request.seat \in Roster(record.session)
    [] request.kind = "patch session" -> ValidateSessionPatch(record.session, request.patch)

\* Mutant: a new seat gets the number of the first free one.
ReuseSeatNumber(session) ==
  LET free == {n \in SeatNumbers \ {0} : session.seats[n] = None}
      first == CHOOSE n \in free : \A m \in free : n <= m
  IN IF Cardinality(Roster(session)) >= MaxSeats THEN session
     ELSE NormalizeControlSession([session EXCEPT !.seats[first] = CreateGuestSeat])

\* A full roster stays as it is, and the request is answered like any other.
StoreCreateSeat(session) ==
  IF Cardinality(Roster(session)) >= MaxSeats THEN session
  ELSE NormalizeControlSession(
         [session EXCEPT !.nextSeatNumber = @ + 1,
                         !.seats[session.nextSeatNumber] = CreateGuestSeat])

StoreDeleteSeat(session, n) == NormalizeControlSession(RemoveSessionSeat(session, n))
StoreUpdateSeat(session, n, patch) == NormalizeControlSession(PatchSessionSeat(session, n, patch))

\* Mutant: the seats are not normalized to the new phase.
UpdateSessionOnly(session, patch) == SpreadSession(session, patch)
StoreUpdateSession(session, patch) == NormalizeControlSession(SpreadSession(session, patch))

Outcome(session, request) ==
  CASE request.kind = "add seat" -> StoreCreateSeat(session)
    [] request.kind = "remove seat" -> StoreDeleteSeat(session, request.seat)
    [] request.kind = "patch seat" -> StoreUpdateSeat(session, request.seat, request.patch)
    [] request.kind = "patch session" -> StoreUpdateSession(session, request.patch)

-----------------------------------------------------------------------------
ApiInit ==
  /\ store = [id \in SessionIds |-> None]
  /\ restarts = 0

\* PUT of a session that is not there; one that is there is answered as it is.
EnsureSession(id, bound) ==
  /\ store[id] = None
  /\ \E joinKeys \in RecordJoinKeys(id, bound) :
       store' = [store EXCEPT ![id] = CreateStoredSessionRecord(joinKeys, bound)]
  /\ UNCHANGED restarts

Handle(id, request) ==
  /\ store[id] # None
  /\ Accepts(store[id], request)
  /\ store' = [store EXCEPT ![id].session = Outcome(store[id].session, request)]
  /\ UNCHANGED restarts

CreateSeat(id) ==
  /\ store[id] # None => store[id].session.nextSeatNumber \in SeatNumbers   \* bound
  /\ Handle(id, AddSeatRequest)

DeleteSeat(id, n) == Handle(id, RemoveSeatRequest(n))
UpdateSeat(id, n, patch) == Handle(id, PatchSeatRequest(n, patch))
UpdateSession(id, patch) == Handle(id, PatchSessionRequest(patch))

Restart ==
  /\ restarts < MaxRestarts
  /\ restarts' = restarts + 1
  /\ store' = [id \in SessionIds |-> None]

ApiNext ==
  \/ \E id \in SessionIds :
       \/ \E bound \in BOOLEAN : EnsureSession(id, bound)
       \/ CreateSeat(id)
       \/ \E n \in SeatNumbers : DeleteSeat(id, n)
       \/ \E n \in SeatNumbers, patch \in SeatEdits : UpdateSeat(id, n, patch)
       \/ \E patch \in SessionEdits : UpdateSession(id, patch)
  \/ Restart

ApiSpec == ApiInit /\ [][ApiNext]_apiVars

-----------------------------------------------------------------------------
Stored == {id \in SessionIds : store[id] # None}

\* Every record is one the store can hold.
ApiTypeOK ==
  /\ store \in [SessionIds -> Records \cup {None}]
  /\ restarts \in 0..MaxRestarts

\* What a seat shows is never left over from an earlier phase: every route that
\* changes a session, the ones that only set its phase included, normalizes it.
SeatsFollowPhase ==
  \A id \in Stored : \A n \in Roster(store[id].session) :
    LET session == store[id].session IN
      session.seats[n] = NormalizeSeat(session.recordingPhase, session.seats[n])

\* The control console reads the operator's seat and throws without it: no
\* sequence of role changes and removals takes it, or its host role, away.
OperatorSeatStays ==
  \A id \in Stored :
    LET session == store[id].session IN
      HostSeatId \in Roster(session) /\ session.seats[HostSeatId].role = "host"

\* A seat's id is never handed out twice, whatever was added and removed before:
\* files and claims that name a removed seat never come to name another one.
SeatIdsAreNew ==
  [][restarts' = restarts => \A id \in Stored : ~store[id].bound =>
       LET before == store[id].session  after == store'[id].session IN
         /\ after.nextSeatNumber >= before.nextSeatNumber
         /\ \A n \in Roster(after) \ Roster(before) :
              n >= before.nextSeatNumber /\ n < after.nextSeatNumber]_apiVars

\* The two state machines of a session agree: nothing was recorded while it
\* could not be, and it ends only when its recording has.
PhaseFitsStatus ==
  \A id \in Stored :
    LET session == store[id].session IN
      /\ session.status \in {"draft", "ready"} => session.recordingPhase = "waiting"
      /\ session.status = "ended" => session.recordingPhase \in {"stopped", "failed"}

\* What the recording files were made with is not edited under them: once a
\* session was activated its title, its roster and its roles are final, those of
\* the bootstrap configuration from the start, and once it ended all of it is,
\* until the process is started again.
RosterOf(session) == [n \in Roster(session) |->
  [role |-> session.seats[n].role, displayName |-> session.seats[n].displayName]]
RosterIsFinal ==
  [][restarts' = restarts => \A id \in Stored :
       /\ store[id].session.status = "ended" => store'[id] = store[id]
       /\ ~RosterEditable(store[id].session.status) =>
            store'[id].session.title = store[id].session.title
       /\ store[id].bound \/ ~RosterEditable(store[id].session.status) =>
            RosterOf(store'[id].session) = RosterOf(store[id].session)]_apiVars

\* A session never goes back to before its run, and a failed recording never
\* becomes another one.
RunMovesForward ==
  [][restarts' = restarts => \A id \in Stored :
       LET before == store[id].session  after == store'[id].session IN
         /\ ~RosterEditable(before.status) => ~RosterEditable(after.status)
         /\ before.recordingPhase # "waiting" => after.recordingPhase # "waiting"
         /\ before.recordingPhase = "failed" => after.recordingPhase = "failed"]_apiVars
=============================================================================
