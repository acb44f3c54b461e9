------------------------- MODULE ControlConsole_proofs -------------------------
(***************************************************************************)
(* Proofs about the control console with the API behind it, for any number *)
(* of clicks, faults and restarts.  Every session that the console has in  *)
(* its hands, be it an answer or a guess, is in order; what it offers the  *)
(* API accepts; and what it shows at rest is the last thing it was told.   *)
(***************************************************************************)
EXTENDS ControlConsole, ControlApi_proofs, SequenceTheorems

-----------------------------------------------------------------------------
\* What the pages send.

PlainNames == {"activate", "activate and join", "join", "leave", "start", "stop", "finish",
               "fail", "end", "add seat", "toggle mic", "toggle camera", "toggle screen share"}

\* The operations of the pages; the role of the operator's seat is not among them.
ConsoleOps ==
  [name : PlainNames, seat : {HostSeatId}, value : {None}]
    \cup [name : {"set title", "select mic", "select camera"}, seat : {HostSeatId}, value : Texts]
    \cup [name : {"set status"}, seat : {HostSeatId}, value : {"draft", "ready"}]
    \cup [name : {"rename"}, seat : SeatNumbers, value : Texts]
    \cup [name : {"set role"}, seat : SeatNumbers \ {HostSeatId}, value : Roles]
    \cup [name : {"remove seat"}, seat : SeatNumbers, value : {None}]

LEMMA HostIsSeat == HostSeatId \in SeatNumbers /\ SeatNumbers \subseteq Nat
  BY SeatNumbersAreNumbers DEF HostSeatId

LEMMA OpsOfPages ==
  /\ \A name \in PlainNames : Op(name) \in ConsoleOps
  /\ \A name \in {"set title", "select mic", "select camera"}, text \in Texts :
       OpOf(name, text) \in ConsoleOps
  /\ \A status \in {"draft", "ready"} : OpOf("set status", status) \in ConsoleOps
  /\ \A n \in SeatNumbers, text \in Texts : SeatOp("rename", n, text) \in ConsoleOps
  /\ \A n \in SeatNumbers \ {HostSeatId}, r \in Roles : SeatOp("set role", n, r) \in ConsoleOps
  /\ \A n \in SeatNumbers : SeatOp("remove seat", n, None) \in ConsoleOps
<1>1. \A name \in PlainNames : Op(name) \in ConsoleOps BY DEF Op, ConsoleOps
<1>2. /\ \A name \in {"set title", "select mic", "select camera"}, text \in Texts :
           OpOf(name, text) \in ConsoleOps
      /\ \A status \in {"draft", "ready"} : OpOf("set status", status) \in ConsoleOps
  BY DEF OpOf, ConsoleOps
<1>3. /\ \A n \in SeatNumbers, text \in Texts : SeatOp("rename", n, text) \in ConsoleOps
      /\ \A n \in SeatNumbers \ {HostSeatId}, r \in Roles : SeatOp("set role", n, r) \in ConsoleOps
      /\ \A n \in SeatNumbers : SeatOp("remove seat", n, None) \in ConsoleOps
  BY DEF SeatOp, ConsoleOps
<1> QED BY <1>1, <1>2, <1>3

LEMMA FormOps ==
  ASSUME NEW shown PROVE SessionForm(shown) \subseteq ConsoleOps
<1>1. ASSUME NEW n \in SeatNumbers PROVE SetupSeatRow(shown, n) \subseteq ConsoleOps
  BY <1>1, OpsOfPages DEF SetupSeatRow, Pinned
<1>2. Roster(shown) \subseteq SeatNumbers /\ Op("add seat") \in ConsoleOps
  BY OpsOfPages DEF Roster, PlainNames
<1>3. ASSUME NEW op, op \in SeatList(shown) PROVE op \in ConsoleOps
  <2>1. op = Op("add seat") \/ \E n \in Roster(shown) : op \in SetupSeatRow(shown, n)
    BY <1>3 DEF SeatList
  <2>2. ASSUME NEW n \in Roster(shown), op \in SetupSeatRow(shown, n) PROVE op \in ConsoleOps
    <3>1. n \in SeatNumbers BY <1>2, <2>2
    <3> QED BY <1>1, <2>2, <3>1
  <2> QED BY <1>2, <2>1, <2>2
<1> QED BY <1>3, OpsOfPages DEF SessionForm

LEMMA BarOps ==
  ASSUME NEW shown PROVE RecordingStatusBar(shown) \subseteq ConsoleOps
<1>1. RecordingStatusBar(shown) \subseteq
        {Op("activate"), Op("start"), Op("stop"), Op("finish"), Op("end")}
  BY DEF RecordingStatusBar
<1> QED BY <1>1, OpsOfPages DEF PlainNames

LEMMA RoomOps ==
  ASSUME NEW shown PROVE RoomControls(shown) \subseteq ConsoleOps
<1>1. ASSUME NEW op \in RoomControls(shown)
      PROVE  \/ \E name \in PlainNames : op = Op(name)
             \/ \E text \in Texts : op \in {OpOf("select mic", text), OpOf("select camera", text)}
  BY <1>1 DEF RoomControls, PlainNames
<1>2. ASSUME NEW op \in RoomControls(shown) PROVE op \in ConsoleOps
  BY <1>1, OpsOfPages
<1> QED BY <1>2

LEMMA OfferedAreOps == Offered \subseteq ConsoleOps
<1>1. OpenRoom(Page) \subseteq {Op("activate and join"), Op("join")} BY DEF OpenRoom
<1>2. OpenRoom(Page) \subseteq ConsoleOps BY <1>1, OpsOfPages DEF PlainNames
<1> QED BY <1>2, FormOps, BarOps, RoomOps DEF Offered

-----------------------------------------------------------------------------
\* Requests and guesses.

\* A session as pages compute with it.
InHand(session) == session \in Sessions /\ FollowsPhase(session) /\ HasOperator(session)

\* Requests that leave the operator's role alone.
ConsoleRequests ==
  {request \in AnyRequests :
     request.kind = "patch seat" /\ request.seat = HostSeatId => request.patch.role = None}

LEMMA SeatPatchFields ==
  ASSUME NEW op \in ConsoleOps, NEW current, InHand(current),
         op.name \notin {"add seat", "remove seat"} \cup SessionOps,
         NEW patch, patch = SeatPatchOf(op, current)
  PROVE  patch \in SeatPatches /\ (op.name # "set role" => patch.role = None)
<1>1. current.seats[HostSeatId] \in Seats
  BY SeatsOfRoster DEF InHand, HasOperator
<1>2. PICK host \in Seats : host = current.seats[HostSeatId] BY <1>1
<1>3. /\ host.micMuted \in BOOLEAN /\ host.cameraEnabled \in BOOLEAN
      /\ host.screenShareActive \in BOOLEAN
  BY DEF Seats
<1>4. None \notin BOOLEAN /\ None \notin Texts /\ None \notin Roles /\ None \notin Ownerships
  BY NoneIsNoValue
<1>5. CASE op.name = "join"
  BY <1>4, <1>5 DEF SeatPatchOf, EmptySeatPatch, SeatPatches, Ownerships
<1>6. CASE op.name = "leave"
  BY <1>4, <1>6 DEF SeatPatchOf, EmptySeatPatch, SeatPatches, Ownerships
<1>7. CASE op.name = "toggle mic"
  BY <1>2, <1>3, <1>4, <1>7 DEF SeatPatchOf, EmptySeatPatch, SeatPatches
<1>8. CASE op.name = "toggle camera"
  BY <1>2, <1>3, <1>4, <1>8 DEF SeatPatchOf, EmptySeatPatch, SeatPatches
<1>9. CASE op.name = "toggle screen share"
  BY <1>2, <1>3, <1>4, <1>9 DEF SeatPatchOf, EmptySeatPatch, SeatPatches
<1>10. CASE op.name = "select mic"
  BY <1>4, <1>10 DEF SeatPatchOf, EmptySeatPatch, SeatPatches, ConsoleOps, PlainNames
<1>11. CASE op.name = "select camera"
  BY <1>4, <1>11 DEF SeatPatchOf, EmptySeatPatch, SeatPatches, ConsoleOps, PlainNames
<1>12. CASE op.name = "rename"
  BY <1>4, <1>12 DEF SeatPatchOf, EmptySeatPatch, SeatPatches, ConsoleOps, PlainNames
<1>13. CASE op.name = "set role"
  BY <1>4, <1>13 DEF SeatPatchOf, EmptySeatPatch, SeatPatches, ConsoleOps, PlainNames
<1> QED BY <1>5, <1>6, <1>7, <1>8, <1>9, <1>10, <1>11, <1>12, <1>13
        DEF ConsoleOps, PlainNames, SessionOps

LEMMA SessionPatchFields ==
  ASSUME NEW op \in ConsoleOps, op.name \in SessionOps
  PROVE  SessionPatchOf(op) \in SessionPatches
<1>1. None \notin Texts /\ None \notin Statuses /\ None \notin Phases /\ None \notin Healths
  BY NoneIsNoValue
<1>2. \A status \in Statuses \cup {None}, phase \in Phases \cup {None}, health \in Healths \cup {None} :
        status # None \/ phase # None => SessionPatch(status, phase, health) \in SessionPatches
  BY DEF SessionPatch, EmptySessionPatch, SessionPatches
<1>3. CASE op.name = "set title"
  BY <1>1, <1>3 DEF SessionPatchOf, EmptySessionPatch, SessionPatches, ConsoleOps, PlainNames
<1>4. CASE op.name = "set status"
  <2>1. op.value \in {"draft", "ready"} BY <1>4 DEF ConsoleOps, PlainNames
  <2>2. SessionPatchOf(op) = SessionPatch(op.value, None, None) BY <1>4 DEF SessionPatchOf
  <2> QED BY <1>1, <1>2, <2>1, <2>2 DEF Statuses
<1>5. CASE op.name \notin {"set title", "set status"}
  <2>1. SessionPatchOf(op) \in {SessionPatch("active", "waiting", "healthy"),
          SessionPatch("active", "recording", "healthy"), SessionPatch("active", "draining", None),
          SessionPatch(None, "stopped", None), SessionPatch(None, "failed", "failed"),
          SessionPatch("ended", None, None)}
    BY <1>5 DEF SessionPatchOf, SessionOps
  <2> QED BY <1>1, <1>2, <2>1 DEF Statuses, Phases, Healths
<1> QED BY <1>3, <1>4, <1>5

LEMMA RequestsOfPages ==
  /\ AddSeatRequest \in ConsoleRequests
  /\ \A n \in SeatNumbers : RemoveSeatRequest(n) \in ConsoleRequests
  /\ \A patch \in SessionPatches : PatchSessionRequest(patch) \in ConsoleRequests
  /\ \A n \in SeatNumbers, patch \in SeatPatches :
       (n = HostSeatId => patch.role = None) => PatchSeatRequest(n, patch) \in ConsoleRequests
<1>1. AddSeatRequest \in AnyRequests /\ AddSeatRequest.kind = "add seat"
  BY DEF AddSeatRequest, AnyRequests
<1>2. \A n \in SeatNumbers :
        RemoveSeatRequest(n) \in AnyRequests /\ RemoveSeatRequest(n).kind = "remove seat"
  BY DEF RemoveSeatRequest, AnyRequests
<1>3. \A patch \in SessionPatches :
        PatchSessionRequest(patch) \in AnyRequests /\ PatchSessionRequest(patch).kind = "patch session"
  BY DEF PatchSessionRequest, AnyRequests
<1>4. \A n \in SeatNumbers, patch \in SeatPatches :
        /\ PatchSeatRequest(n, patch) \in AnyRequests
        /\ PatchSeatRequest(n, patch).seat = n /\ PatchSeatRequest(n, patch).patch = patch
  BY DEF PatchSeatRequest, AnyRequests
<1> QED BY <1>1, <1>2, <1>3, <1>4 DEF ConsoleRequests

LEMMA RequestsOfOps ==
  ASSUME NEW op \in ConsoleOps, NEW current, InHand(current)
  PROVE  RequestOf(op, current) \in ConsoleRequests
<1>1. CASE op.name = "add seat"
  <2>1. RequestOf(op, current) = AddSeatRequest BY <1>1 DEF RequestOf, SessionOps
  <2> QED BY <2>1, RequestsOfPages
<1>2. CASE op.name = "remove seat"
  <2>1. op.seat \in SeatNumbers BY <1>2 DEF ConsoleOps, PlainNames
  <2>2. RequestOf(op, current) = RemoveSeatRequest(op.seat) BY <1>2 DEF RequestOf, SessionOps
  <2> QED BY <2>1, <2>2, RequestsOfPages
<1>3. CASE op.name \in SessionOps
  <2>1. SessionPatchOf(op) \in SessionPatches BY <1>3, SessionPatchFields
  <2>2. RequestOf(op, current) = PatchSessionRequest(SessionPatchOf(op))
    BY <1>3 DEF RequestOf, SessionOps
  <2> QED BY <2>1, <2>2, RequestsOfPages
<1>4. CASE op.name \notin {"add seat", "remove seat"} \cup SessionOps
  <2>1. PICK patch : patch = SeatPatchOf(op, current) OBVIOUS
  <2>2. patch \in SeatPatches /\ (op.name # "set role" => patch.role = None)
    BY <1>4, <2>1, SeatPatchFields
  <2>3. op.seat \in SeatNumbers /\ (op.name = "set role" => op.seat # HostSeatId)
    BY HostIsSeat DEF ConsoleOps, PlainNames
  <2>4. RequestOf(op, current) = PatchSeatRequest(op.seat, patch)
    BY <1>4, <2>1 DEF RequestOf
  <2> QED BY <2>2, <2>3, <2>4, RequestsOfPages
<1> QED BY <1>1, <1>2, <1>3, <1>4

\* A guess is made of a session in order, and is one.
LEMMA GuessInHand ==
  ASSUME NEW session, InHand(session), NEW request \in ConsoleRequests,
         NEW guess, guess = Guess(session, request)
  PROVE  InHand(guess)
<1>1. session \in Sessions BY DEF InHand
<1>2. CASE request.kind = "patch session"
  <2> DEFINE changed == SpreadSession(session, request.patch)
  <2>1. request.patch \in SessionPatches BY <1>2 DEF ConsoleRequests, AnyRequests
  <2>2. changed \in Sessions /\ changed.seats = session.seats
    <3>1. request.patch \in [title : Texts \cup {None}, status : Statuses \cup {None},
            recordingPhase : Phases \cup {None}, recordingHealth : Healths \cup {None}]
      BY <2>1 DEF SessionPatches
    <3>2. /\ Given(request.patch.title, session.title) \in Texts
          /\ Given(request.patch.status, session.status) \in Statuses
          /\ Given(request.patch.recordingPhase, session.recordingPhase) \in Phases
          /\ Given(request.patch.recordingHealth, session.recordingHealth) \in Healths
      BY <1>1, <3>1 DEF Given, Sessions
    <3> QED BY <1>1, <3>2 DEF SpreadSession, Sessions
  <2>3. guess = NormalizeControlSession(changed)
    BY <1>2 DEF Guess, PatchControlSessionResponse
  <2> HIDE DEF changed
  <2>4. HasOperator(changed) BY <2>2 DEF InHand, HasOperator, Roster
  <2> QED BY <2>2, <2>3, <2>4, NormalizedSession DEF InHand
<1>3. CASE request.kind = "patch seat"
  <2> DEFINE n == request.seat
             seat == IF session.seats[n] = None THEN None
                     ELSE SpreadSeat(session.seats[n], request.patch)
             changed == [session EXCEPT !.seats[n] = seat]
  <2>1. /\ request.patch \in SeatPatches /\ n \in SeatNumbers
        /\ n = HostSeatId => request.patch.role = None
    BY <1>3 DEF ConsoleRequests, AnyRequests
  <2>2. session.seats[n] # None => session.seats[n] \in Seats
    BY <1>1, <2>1 DEF Sessions
  <2>3. /\ seat \in Seats \cup {None}
        /\ session.seats[n] # None => seat # None
        /\ n = HostSeatId /\ session.seats[n] # None => seat.role = session.seats[n].role
    <3>1. CASE session.seats[n] = None BY <3>1
    <3>2. CASE session.seats[n] # None
      <4>1. seat = SpreadSeat(session.seats[n], request.patch) /\ seat \in Seats
        BY <2>1, <2>2, <3>2, SpreadSeatTyping
      <4>2. seat.role = Given(request.patch.role, session.seats[n].role)
        BY <2>2, <3>2, <4>1 DEF SpreadSeat, Seats
      <4> QED BY <2>1, <4>1, <4>2, NoneIsNoSeat DEF Given
    <3> QED BY <3>1, <3>2
  <2>4. guess = NormalizeControlSession(changed)
    BY <1>3 DEF Guess, PatchControlSeatResponse
  <2> HIDE DEF seat
  <2>5. changed \in Sessions /\ changed.seats = [session.seats EXCEPT ![n] = seat]
    BY <1>1, <2>1, <2>3 DEF Sessions
  <2> HIDE DEF changed
  <2>6. HasOperator(changed)
    BY <1>1, <2>1, <2>3, <2>5 DEF InHand, HasOperator, Roster, Sessions
  <2> QED BY <2>4, <2>5, <2>6, NormalizedSession DEF InHand
<1>4. CASE request.kind \notin {"patch session", "patch seat"}
  BY <1>4 DEF Guess
<1> QED BY <1>2, <1>3, <1>4

-----------------------------------------------------------------------------
\* Everything the console has in its hands is in order.

Mutations == [request : ConsoleRequests, then : {"stay", "join", "room", "setup"}]

HandsInOrder ==
  /\ cache # None => InHand(cache)
  /\ fetch \in [state : {"idle", "sent", "answered"}, session : Sessions \cup {None}]
  /\ fetch.state = "answered" => InHand(fetch.session)
  /\ reply \in [state : {"none", "accepted", "refused"}, session : Sessions \cup {None}]
  /\ reply.state = "accepted" => InHand(reply.session)
QueueInOrder ==
  /\ waiting # None => waiting \in ConsoleOps
  /\ queue \in Seq(Mutations)
  /\ reply.state # "none" => queue # <<>>
PagesInOrder ==
  /\ screen \in {"setup", "room"}
  /\ demoPreset \in DemoPresets
  /\ clicks \in 0..MaxClicks /\ faults \in 0..MaxFaults
  /\ newest \in {"fetch", "mutation"} /\ last \in {"current", "older", "none"}
ConsoleInv == ApiInv /\ HandsInOrder /\ QueueInOrder /\ PagesInOrder

LEMMA NoReplies == /\ NoReply = [state |-> "none", session |-> None]
                   /\ Refused = [state |-> "refused", session |-> None]
                   /\ \A answer : Accepted(answer) = [state |-> "accepted", session |-> answer]
  BY DEF NoReply, Refused, Accepted

LEMMA MutationOf ==
  ASSUME NEW op \in ConsoleOps, NEW current, InHand(current)
  PROVE  Mutation(op, current) \in Mutations
<1>1. RequestOf(op, current) \in ConsoleRequests BY RequestsOfOps
<1>2. ThenOf(op) \in {"stay", "join", "room", "setup"} BY DEF ThenOf
<1> QED BY <1>1, <1>2 DEF Mutation, Mutations

\* An edit leaves a guess, no fetch, and a mutation that waits.
LEMMA RunMutation ==
  ASSUME NEW op \in ConsoleOps, NEW current, InHand(current), NEW ahead \in Seq(Mutations),
         RunSessionMutation(op, current, ahead)
  PROVE  /\ InHand(cache') /\ fetch' = Fetch("idle", None)
         /\ queue' \in Seq(Mutations) /\ queue' # <<>>
<1>1. PICK request : request = RequestOf(op, current) OBVIOUS
<1>2. request \in ConsoleRequests BY <1>1, RequestsOfOps
<1>3. cache' = Guess(current, request) BY <1>1 DEF RunSessionMutation
<1>4. InHand(cache') BY <1>2, <1>3, GuessInHand
<1>5. PICK mutation \in Mutations : mutation = Mutation(op, current) BY MutationOf
<1>6. queue' = Append(ahead, mutation) BY <1>5 DEF RunSessionMutation
<1>7. queue' \in Seq(Mutations) /\ queue' # <<>> BY <1>6
<1> QED BY <1>4, <1>7 DEF RunSessionMutation

LEMMA JoinIsOp == Op("join") \in ConsoleOps BY OpsOfPages DEF PlainNames

LEMMA ConsoleStart == ConsoleInit => ConsoleInv
<1> SUFFICES ASSUME ConsoleInit PROVE ConsoleInv
  OBVIOUS
<1>1. store \in [SessionIds -> Earlier] /\ restarts = 0 BY DEF ConsoleInit
<1>2. ApiTypeOK BY <1>1, EarlierAreRecords, MaxRestartsIsNat DEF ApiTypeOK
<1>3. RecordsInOrder
  <2> SUFFICES ASSUME NEW id \in Stored PROVE SessionOK(store[id].session)
    BY DEF RecordsInOrder
  <2>1. PICK record \in Earlier \ {None} : record = store[id] BY <1>1 DEF Stored
  <2>2. record \in Records BY <2>1, EarlierAreRecords
  <2> QED BY <2>1, <2>2, EarlierAreInOrder
          DEF SessionOK, Records, FollowsPhase, HasOperator, FitsStatus
<1>4. HandsInOrder BY DEF ConsoleInit, HandsInOrder, Fetch, NoReply
<1>5. QueueInOrder BY DEF ConsoleInit, QueueInOrder, NoReply
<1>6. PagesInOrder
  <2>1. clicks \in 0..MaxClicks /\ faults \in 0..MaxFaults
    BY ClicksAndFaultsAreBounded DEF ConsoleInit
  <2>2. screen \in {"setup", "room"} /\ demoPreset \in DemoPresets
    BY DEF ConsoleInit, DemoPresets
  <2>3. newest = "fetch" /\ last = "none" BY DEF ConsoleInit
  <2> QED BY <2>1, <2>2, <2>3 DEF PagesInOrder
<1> QED BY <1>2, <1>3, <1>4, <1>5, <1>6 DEF ConsoleInv, ApiInv

\* The parts of a step.
LEMMA SameApi ==
  ASSUME ApiInv, UNCHANGED <<store, restarts>> PROVE ApiInv'
  BY DEF ApiInv, ApiTypeOK, RecordsInOrder, Stored

LEMMA AnswersAreOfAKind == \A kind : AnswerOf(kind) \in {"current", "older"}
  BY DEF AnswerOf

LEMMA Clicked ==
  ASSUME ConsoleInv, NEW op \in Offered, Click(op) PROVE ConsoleInv'
<1>1. op \in ConsoleOps BY OfferedAreOps
<1>2. /\ clicks < MaxClicks /\ clicks' = clicks + 1
      /\ UNCHANGED <<store, restarts, reply, screen, demoPreset, faults, newest, last>>
  BY DEF Click, toldVars
<1>3. ApiInv' BY <1>2, SameApi DEF ConsoleInv
<1>4. PagesInOrder'
  BY <1>2, ClicksAndFaultsAreBounded DEF ConsoleInv, PagesInOrder
<1>5. CASE cache = None
  <2>1. EnsureSessionContract(op) BY <1>5 DEF Click
  <2>2. HandsInOrder' /\ QueueInOrder'
    BY <1>1, <1>2, <1>5, <2>1 DEF EnsureSessionContract, Fetch, ConsoleInv, HandsInOrder, QueueInOrder
  <2> QED BY <1>3, <1>4, <2>2 DEF ConsoleInv
<1>6. CASE cache # None
  <2>1. RunSessionMutation(op, cache, queue) /\ UNCHANGED waiting BY <1>6 DEF Click
  <2>2. InHand(cache) /\ queue \in Seq(Mutations)
    BY <1>6 DEF ConsoleInv, HandsInOrder, QueueInOrder
  <2>3. /\ InHand(cache') /\ fetch' = Fetch("idle", None)
        /\ queue' \in Seq(Mutations) /\ queue' # <<>>
    BY <1>1, <2>1, <2>2, RunMutation
  <2>4. HandsInOrder' /\ QueueInOrder'
    BY <1>2, <2>1, <2>3 DEF Fetch, ConsoleInv, HandsInOrder, QueueInOrder
  <2> QED BY <1>3, <1>4, <2>4 DEF ConsoleInv
<1> QED BY <1>5, <1>6

\* The first mutation, and the ones behind it.
LEMMA FirstMutation ==
  ASSUME QueueInOrder, queue # <<>>
  PROVE  /\ Head(queue) \in Mutations /\ Tail(queue) \in Seq(Mutations)
         /\ Head(queue).request \in ConsoleRequests
         /\ Head(queue).request \in AnyRequests
<1>1. Head(queue) \in Mutations /\ Tail(queue) \in Seq(Mutations) BY DEF QueueInOrder
<1> QED BY <1>1 DEF Mutations, ConsoleRequests

LEMMA MutationServed ==
  ASSUME ConsoleInv, ServeMutation PROVE ConsoleInv'
<1>1. /\ queue # <<>> /\ reply = NoReply
      /\ UNCHANGED <<cache, fetch, waiting, queue, screen, demoPreset, clicks, faults, last>>
      /\ newest' \in {newest, "mutation"}
  BY DEF ServeMutation
<1>2. PICK request \in AnyRequests : request = Head(queue).request
  BY <1>1, FirstMutation DEF ConsoleInv
<1>3. PagesInOrder' BY <1>1 DEF ConsoleInv, PagesInOrder
<1>4. CASE Handle(Session, request) /\ reply' = Accepted(store'[Session].session)
  <2>1. ApiInv' /\ store'[Session] # None
    BY <1>2, <1>4, SessionIsOne, HandleKeepsOrder DEF ConsoleInv, Stored
  <2>2. InHand(store'[Session].session)
    BY <2>1, SessionIsOne DEF ApiInv, RecordsInOrder, Stored, SessionOK, InHand
  <2>3. HandsInOrder'
    BY <1>1, <1>4, <2>2, NoReplies DEF ConsoleInv, HandsInOrder, InHand
  <2>4. QueueInOrder' BY <1>1 DEF ConsoleInv, QueueInOrder
  <2> QED BY <1>3, <2>1, <2>3, <2>4 DEF ConsoleInv
<1>5. CASE reply' = Refused /\ UNCHANGED <<store, restarts>>
  <2>1. ApiInv' BY <1>5, SameApi DEF ConsoleInv
  <2>2. HandsInOrder' BY <1>1, <1>5, NoReplies DEF ConsoleInv, HandsInOrder
  <2>3. QueueInOrder' BY <1>1 DEF ConsoleInv, QueueInOrder
  <2> QED BY <1>3, <2>1, <2>2, <2>3 DEF ConsoleInv
<1> QED BY <1>2, <1>4, <1>5 DEF ServeMutation

LEMMA MutationSucceeded ==
  ASSUME ConsoleInv, MutationSucceeds PROVE ConsoleInv'
<1>1. /\ reply.state = "accepted" /\ reply' = NoReply
      /\ UNCHANGED <<store, restarts, waiting, demoPreset, clicks, faults, newest>>
      /\ last' = AnswerOf("mutation")
      /\ screen' \in {"room", "setup", screen}
  BY DEF MutationSucceeds
<1>2. InHand(reply.session) /\ queue # <<>>
  BY <1>1 DEF ConsoleInv, HandsInOrder, QueueInOrder
<1>3. Tail(queue) \in Seq(Mutations) BY <1>2, FirstMutation DEF ConsoleInv
<1>4. ApiInv' BY <1>1, SameApi DEF ConsoleInv
<1>5. PagesInOrder' BY <1>1, AnswersAreOfAKind DEF ConsoleInv, PagesInOrder
<1>6. CASE RunSessionMutation(Op("join"), reply.session, Tail(queue))
  <2>1. /\ InHand(cache') /\ fetch' = Fetch("idle", None)
        /\ queue' \in Seq(Mutations) /\ queue' # <<>>
    BY <1>2, <1>3, <1>6, RunMutation, JoinIsOp
  <2>2. HandsInOrder' /\ QueueInOrder'
    BY <1>1, <2>1, NoReplies DEF Fetch, ConsoleInv, HandsInOrder, QueueInOrder
  <2> QED BY <1>4, <1>5, <2>2 DEF ConsoleInv
<1>7. CASE cache' = reply.session /\ queue' = Tail(queue) /\ UNCHANGED fetch
  <2>1. HandsInOrder' /\ QueueInOrder'
    BY <1>1, <1>2, <1>3, <1>7, NoReplies DEF ConsoleInv, HandsInOrder, QueueInOrder
  <2> QED BY <1>4, <1>5, <2>1 DEF ConsoleInv
<1> QED BY <1>6, <1>7 DEF MutationSucceeds

LEMMA MutationRejected ==
  ASSUME ConsoleInv, MutationRefused \/ MutationLost PROVE ConsoleInv'
<1>1. Rejected /\ faults' \in 0..MaxFaults /\ queue # <<>>
  BY ClicksAndFaultsAreBounded DEF MutationRefused, MutationLost, Fault, ConsoleInv, PagesInOrder,
     QueueInOrder
<1>2. /\ queue' = Tail(queue) /\ reply' = NoReply /\ fetch' = Fetch("sent", None)
      /\ UNCHANGED <<store, restarts, cache, waiting, screen, demoPreset, clicks, newest, last>>
  BY <1>1 DEF Rejected, toldVars
<1>3. Tail(queue) \in Seq(Mutations) BY <1>1, FirstMutation DEF ConsoleInv
<1>4. ApiInv' BY <1>2, SameApi DEF ConsoleInv
<1>5. PagesInOrder' BY <1>1, <1>2 DEF ConsoleInv, PagesInOrder
<1>6. HandsInOrder' /\ QueueInOrder'
  BY <1>2, <1>3, NoReplies DEF Fetch, ConsoleInv, HandsInOrder, QueueInOrder
<1> QED BY <1>4, <1>5, <1>6 DEF ConsoleInv

LEMMA FetchServed ==
  ASSUME ConsoleInv, ServeFetch PROVE ConsoleInv'
<1>1. /\ fetch' = Fetch("answered", store'[Session].session)
      /\ UNCHANGED <<cache, waiting, queue, reply, screen, demoPreset, clicks, faults, last>>
      /\ newest' = "fetch"
  BY DEF ServeFetch
<1>2. ApiInv' /\ store'[Session] # None
  <2>1. ASSUME NEW bound \in BOOLEAN, EnsureSession(Session, bound)
        PROVE  ApiInv' /\ store'[Session] # None
    <3>1. ApiInv' BY <2>1, SessionIsOne, ApiStep DEF ApiNext, ConsoleInv
    <3> QED BY <2>1, <3>1, MadeRecord, SessionIsOne DEF ConsoleInv
  <2>2. CASE store[Session] # None /\ UNCHANGED <<store, restarts>>
    BY <2>2, SameApi DEF ConsoleInv
  <2> QED BY <2>1, <2>2 DEF ServeFetch
<1>3. InHand(store'[Session].session)
  BY <1>2, SessionIsOne DEF ApiInv, RecordsInOrder, Stored, SessionOK, InHand
<1>4. HandsInOrder' BY <1>1, <1>3 DEF Fetch, ConsoleInv, HandsInOrder, InHand
<1>5. QueueInOrder' /\ PagesInOrder' BY <1>1 DEF ConsoleInv, QueueInOrder, PagesInOrder
<1> QED BY <1>2, <1>4, <1>5 DEF ConsoleInv

LEMMA FetchSucceeded ==
  ASSUME ConsoleInv, FetchSucceeds PROVE ConsoleInv'
<1>1. /\ fetch.state = "answered" /\ waiting' = None
      /\ UNCHANGED <<store, restarts, reply, screen, demoPreset, clicks, faults, newest>>
      /\ last' = AnswerOf("fetch")
  BY DEF FetchSucceeds
<1>2. InHand(fetch.session) /\ queue \in Seq(Mutations)
  BY <1>1 DEF ConsoleInv, HandsInOrder, QueueInOrder
<1>3. ApiInv' BY <1>1, SameApi DEF ConsoleInv
<1>4. PagesInOrder' BY <1>1, AnswersAreOfAKind DEF ConsoleInv, PagesInOrder
<1>5. CASE waiting = None
  <2>1. cache' = fetch.session /\ fetch' = Fetch("idle", None) /\ UNCHANGED queue
    BY <1>5 DEF FetchSucceeds
  <2>2. HandsInOrder' /\ QueueInOrder'
    BY <1>1, <1>2, <2>1 DEF Fetch, ConsoleInv, HandsInOrder, QueueInOrder
  <2> QED BY <1>3, <1>4, <2>2 DEF ConsoleInv
<1>6. CASE waiting # None
  <2>1. waiting \in ConsoleOps BY <1>6 DEF ConsoleInv, QueueInOrder
  <2>2. RunSessionMutation(waiting, fetch.session, queue) BY <1>6 DEF FetchSucceeds
  <2>3. /\ InHand(cache') /\ fetch' = Fetch("idle", None)
        /\ queue' \in Seq(Mutations) /\ queue' # <<>>
    BY <1>2, <2>1, <2>2, RunMutation
  <2>4. HandsInOrder' /\ QueueInOrder'
    BY <1>1, <2>3 DEF Fetch, ConsoleInv, HandsInOrder, QueueInOrder
  <2> QED BY <1>3, <1>4, <2>4 DEF ConsoleInv
<1> QED BY <1>5, <1>6

LEMMA ConsoleStep ==
  ASSUME ConsoleInv, ConsoleNext PROVE ConsoleInv'
<1>1. ASSUME NEW op \in Offered, Click(op) PROVE ConsoleInv' BY <1>1, Clicked
<1>2. ASSUME NEW preset \in DemoPresets, ApplyDemoPreset(preset) PROVE ConsoleInv'
  <2>1. ApiInv' BY <1>2, SameApi DEF ApplyDemoPreset, ConsoleInv
  <2>2. HandsInOrder' /\ QueueInOrder' /\ PagesInOrder'
    BY <1>2, ClicksAndFaultsAreBounded
    DEF ApplyDemoPreset, toldVars, ConsoleInv, HandsInOrder, QueueInOrder, PagesInOrder
  <2> QED BY <2>1, <2>2 DEF ConsoleInv
<1>3. CASE BackToSetup
  <2>1. ApiInv' BY <1>3, SameApi DEF BackToSetup, ConsoleInv
  <2>2. HandsInOrder' /\ QueueInOrder' /\ PagesInOrder'
    BY <1>3 DEF BackToSetup, toldVars, ConsoleInv, HandsInOrder, QueueInOrder, PagesInOrder
  <2> QED BY <2>1, <2>2 DEF ConsoleInv
<1>4. CASE FetchFails \/ Reconnect
  <2>1. ApiInv' BY <1>4, SameApi DEF FetchFails, Reconnect, ConsoleInv
  <2>2. PagesInOrder'
    <3>1. faults' \in 0..MaxFaults /\ UNCHANGED <<screen, demoPreset, clicks>>
      BY <1>4, ClicksAndFaultsAreBounded DEF FetchFails, Reconnect, Fault, ConsoleInv, PagesInOrder
    <3>2. newest' = newest /\ last' \in {last, "none"}
      BY <1>4 DEF FetchFails, Reconnect, toldVars
    <3> QED BY <3>1, <3>2 DEF ConsoleInv, PagesInOrder
  <2>3. HandsInOrder' /\ QueueInOrder'
    BY <1>4 DEF FetchFails, Reconnect, Fetch, ConsoleInv, HandsInOrder, QueueInOrder
  <2> QED BY <2>1, <2>2, <2>3 DEF ConsoleInv
<1>5. CASE Elsewhere
  <2>1. ApiInv' BY <1>5, ApiStep DEF Elsewhere, ConsoleInv
  <2>2. HandsInOrder' /\ QueueInOrder' /\ PagesInOrder'
    BY <1>5, ClicksAndFaultsAreBounded
    DEF Elsewhere, Fault, pageVars, toldVars, ConsoleInv, HandsInOrder, QueueInOrder, PagesInOrder
  <2> QED BY <2>1, <2>2 DEF ConsoleInv
<1> QED BY <1>1, <1>2, <1>3, <1>4, <1>5, MutationServed, MutationSucceeded, MutationRejected,
        FetchServed, FetchSucceeded DEF ConsoleNext

LEMMA ConsoleInvariant == ConsoleSpec => []ConsoleInv
<1>1. ConsoleInv /\ UNCHANGED consoleVars => ConsoleInv'
  BY SameApi DEF consoleVars, pageVars, toldVars, ConsoleInv, HandsInOrder, QueueInOrder, PagesInOrder
<1>2. ConsoleInv /\ [ConsoleNext]_consoleVars => ConsoleInv' BY <1>1, ConsoleStep
<1> QED BY <1>2, ConsoleStart, PTL DEF ConsoleSpec

-----------------------------------------------------------------------------
\* What the pages show.

\* Every variable holds a value of its kind (useControlSessionController.ts).
THEOREM ConsoleTypeCorrect == ConsoleSpec => []ConsoleTypeOK
<1>1. ConsoleInv => ConsoleTypeOK
  <2> SUFFICES ASSUME ConsoleInv PROVE ConsoleTypeOK
    OBVIOUS
  <2>1. /\ cache \in Sessions \cup {None} /\ fetch.state \in {"idle", "sent", "answered"}
        /\ fetch.session \in Sessions \cup {None} /\ reply.session \in Sessions \cup {None}
    BY DEF ConsoleInv, HandsInOrder, InHand
  <2>2. waiting # None => waiting.seat \in SeatNumbers
    BY HostIsSeat DEF ConsoleInv, QueueInOrder, ConsoleOps
  <2>3. \A i \in DOMAIN queue : queue[i].then \in {"stay", "join", "room", "setup"}
    <3>1. queue \in Seq(Mutations) BY DEF ConsoleInv, QueueInOrder
    <3>2. \A i \in DOMAIN queue : queue[i] \in Mutations BY <3>1, ElementOfSeq
    <3> QED BY <3>2 DEF Mutations
  <2> QED BY <2>1, <2>2, <2>3 DEF ConsoleTypeOK, ConsoleInv, ApiInv, PagesInOrder
<1> QED BY <1>1, ConsoleInvariant, PTL

\* Guess or answer, the seats of what is cached follow its phase
\* (patchControlSessionResponse and patchControlSeatResponse in api/sessions.ts).
THEOREM GuessAlwaysFollowsPhase == ConsoleSpec => []GuessFollowsPhase
<1>1. ConsoleInv => GuessFollowsPhase
  BY DEF ConsoleInv, HandsInOrder, InHand, FollowsPhase, GuessFollowsPhase
<1> QED BY <1>1, ConsoleInvariant, PTL

\* The API's seats follow the phase with a console at work as well (store.ts).
THEOREM ConsoleKeepsSeatsInPhase == ConsoleSpec => []SeatsFollowPhase
<1>1. ConsoleInv => SeatsFollowPhase
  BY DEF ConsoleInv, ApiInv, RecordsInOrder, SessionOK, FollowsPhase, SeatsFollowPhase
<1> QED BY <1>1, ConsoleInvariant, PTL

\* The operator's seat stays a host's under every edit that the pages send, though
\* these are not the ones the API is checked with (seats.ts).
THEOREM ConsoleKeepsOperator == ConsoleSpec => []OperatorSeatStays
<1>1. ConsoleInv => OperatorSeatStays
  BY DEF ConsoleInv, ApiInv, RecordsInOrder, SessionOK, HasOperator, OperatorSeatStays
<1> QED BY <1>1, ConsoleInvariant, PTL

\* Likewise phase and status agree, the session of an earlier console included
\* (transitions.ts).
THEOREM ConsoleKeepsPhaseInStatus == ConsoleSpec => []PhaseFitsStatus
<1>1. ConsoleInv => PhaseFitsStatus
  BY DEF ConsoleInv, ApiInv, RecordsInOrder, SessionOK, FitsStatus, PhaseFitsStatus
<1> QED BY <1>1, ConsoleInvariant, PTL

\* What the API does for the console, or for others, is one of its own steps.
LEMMA ConsoleRecordsStep ==
  ASSUME ConsoleInv, [ConsoleNext]_consoleVars PROVE RecordsStep \/ UNCHANGED apiVars
<1>a. ASSUME ApiNext PROVE RecordsStep BY <1>a, ApiStep DEF ConsoleInv
<1>1. CASE ServeMutation
  <2>1. PICK request \in AnyRequests : request = Head(queue).request
    BY <1>1, FirstMutation DEF ServeMutation, ConsoleInv
  <2>2. CASE Handle(Session, request)
    BY <2>1, <2>2, SessionIsOne, HandleKeepsOrder DEF RecordsStep, ConsoleInv, Stored
  <2>3. CASE UNCHANGED <<store, restarts>> BY <2>3 DEF apiVars
  <2> QED BY <1>1, <2>1, <2>2, <2>3 DEF ServeMutation
<1>2. CASE ServeFetch
  <2>1. ASSUME NEW bound \in BOOLEAN, EnsureSession(Session, bound) PROVE RecordsStep
    BY <1>a, <2>1, SessionIsOne DEF ApiNext
  <2> QED BY <1>2, <2>1 DEF ServeFetch, apiVars
<1>3. CASE Elsewhere BY <1>a, <1>3 DEF Elsewhere
<1>4. ASSUME \/ MutationSucceeds \/ MutationRefused \/ MutationLost \/ FetchSucceeds
             \/ FetchFails \/ Reconnect \/ BackToSetup \/ UNCHANGED consoleVars
             \/ \E op \in Offered : Click(op)
             \/ \E preset \in DemoPresets : ApplyDemoPreset(preset)
      PROVE  UNCHANGED apiVars
  BY <1>4
  DEF MutationSucceeds, MutationRefused, MutationLost, Rejected, FetchSucceeds, FetchFails,
      Reconnect, BackToSetup, Click, ApplyDemoPreset, consoleVars, apiVars
<1> QED BY <1>1, <1>2, <1>3, <1>4 DEF ConsoleNext

\* No click of any console gives a seat the number of another one (store.ts).
THEOREM ConsoleKeepsSeatIds == ConsoleSpec => SeatIdsAreNew
<1>1. ConsoleInv /\ [ConsoleNext]_consoleVars => [KeepsIds]_apiVars
  BY ConsoleRecordsStep, StepKeeps DEF ConsoleInv
<1>2. ConsoleSpec => [][KeepsIds]_apiVars BY <1>1, ConsoleInvariant, PTL DEF ConsoleSpec
<1> QED BY <1>2 DEF SeatIdsAreNew, KeepsIds

\* No click edits the title or the roster of an activated session, in whatever order
\* its edits were queued and the session was activated (transitions.ts).
THEOREM ConsoleKeepsRoster == ConsoleSpec => RosterIsFinal
<1>1. ConsoleInv /\ [ConsoleNext]_consoleVars => [KeepsRoster]_apiVars
  BY ConsoleRecordsStep, StepKeeps DEF ConsoleInv
<1>2. ConsoleSpec => [][KeepsRoster]_apiVars BY <1>1, ConsoleInvariant, PTL DEF ConsoleSpec
<1> QED BY <1>2 DEF RosterIsFinal, KeepsRoster

\* No click, however late it is sent, takes a run back (transitions.ts).
THEOREM ConsoleKeepsRun == ConsoleSpec => RunMovesForward
<1>1. ConsoleInv /\ [ConsoleNext]_consoleVars => [KeepsRun]_apiVars
  BY ConsoleRecordsStep, StepKeeps DEF ConsoleInv
<1>2. ConsoleSpec => [][KeepsRun]_apiVars BY <1>1, ConsoleInvariant, PTL DEF ConsoleSpec
<1> QED BY <1>2 DEF RunMovesForward, KeepsRun

-----------------------------------------------------------------------------
\* What the pages offer is what the API accepts.

\* A drill changes what is shown of a seat, never the run or who is in it.
LEMMA Presented ==
  ASSUME NEW session \in Sessions, NEW preset, NEW page, page = PresentSession(session, preset)
  PROVE  /\ page.status = session.status /\ page.recordingPhase = session.recordingPhase
         /\ Roster(page) \subseteq Roster(session)
<1>1. session.seats \in [SeatNumbers -> Seats \cup {None}] BY DEF Sessions
<1>2. PICK seats : /\ page.seats = session.seats \/ page.seats = seats
                   /\ seats = [session.seats EXCEPT ![DemoSeatId] =
                        IF session.seats[DemoSeatId] = None THEN None
                        ELSE ApplySeatDemoPreset(session, session.seats[DemoSeatId], preset)]
  BY DEF PresentSession, Sessions
<1>3. Roster(page) \subseteq Roster(session)
  <2> SUFFICES ASSUME NEW n \in SeatNumbers, session.seats[n] = None PROVE page.seats[n] = None
    BY DEF Roster
  <2> QED BY <1>1, <1>2
<1> QED BY <1>3 DEF PresentSession, Sessions

LEMMA AcceptedPatch ==
  ASSUME NEW record, NEW patch
  PROVE  /\ Accepts(record, PatchSessionRequest(patch)) <=> ValidateSessionPatch(record.session, patch)
         /\ \A n : Accepts(record, PatchSeatRequest(n, patch)) <=>
              ValidateSeatPatch(record, patch) /\ n \in Roster(record.session)
  BY DEF Accepts, PatchSessionRequest, PatchSeatRequest

LEMMA AcceptedRosterEdit ==
  ASSUME NEW record
  PROVE  /\ Accepts(record, AddSeatRequest) <=> ValidateRosterMutation(record)
         /\ \A n : Accepts(record, RemoveSeatRequest(n)) <=>
              ValidateRosterMutation(record) /\ n \in Roster(record.session)
  BY DEF Accepts, AddSeatRequest, RemoveSeatRequest

\* The names by which the requests of the pages are made.
LEMMA RequestByName ==
  ASSUME NEW op, NEW current
  PROVE  /\ op.name \in SessionOps => RequestOf(op, current) = PatchSessionRequest(SessionPatchOf(op))
         /\ op.name = "add seat" => RequestOf(op, current) = AddSeatRequest
         /\ op.name = "remove seat" => RequestOf(op, current) = RemoveSeatRequest(op.seat)
         /\ op.name \notin SessionOps \cup {"add seat", "remove seat"} =>
              RequestOf(op, current) = PatchSeatRequest(op.seat, SeatPatchOf(op, current))
  BY DEF RequestOf, SessionOps

LEMMA FieldsOfOp ==
  ASSUME NEW name, NEW value, NEW n
  PROVE  /\ Op(name).name = name /\ Op(name).seat = HostSeatId
         /\ OpOf(name, value).name = name /\ OpOf(name, value).value = value
         /\ SeatOp(name, n, value).name = name /\ SeatOp(name, n, value).seat = n
  BY DEF Op, OpOf, SeatOp

\* The buttons of the bar, each at its time.
LEMMA BarButtons ==
  ASSUME NEW shown, NEW op \in RecordingStatusBar(shown)
  PROVE  /\ op.name \in {"activate", "start", "stop", "finish", "end"}
         /\ op.name = "activate" => shown.status = "ready"
         /\ op.name # "activate" => shown.status = "active"
         /\ op.name = "start" => shown.recordingPhase \in {"waiting", "stopped"}
         /\ op.name = "stop" => shown.recordingPhase = "recording"
         /\ op.name = "finish" => shown.recordingPhase = "draining"
         /\ op.name = "end" => shown.recordingPhase \in {"stopped", "failed"}
<1>1. op \in {Op("activate"), Op("start"), Op("stop"), Op("finish"), Op("end")}
  BY DEF RecordingStatusBar
<1>2. op.name \in {"activate", "start", "stop", "finish", "end"} BY <1>1 DEF Op
<1>3. CASE op.name = "activate" BY <1>3 DEF RecordingStatusBar
<1>4. CASE op.name = "start" BY <1>4 DEF RecordingStatusBar
<1>5. CASE op.name = "stop" BY <1>5 DEF RecordingStatusBar
<1>6. CASE op.name = "finish" BY <1>6 DEF RecordingStatusBar
<1>7. CASE op.name = "end" BY <1>7 DEF RecordingStatusBar
<1> QED BY <1>2, <1>3, <1>4, <1>5, <1>6, <1>7

\* The session is changed as its run allows it.
LEMMA BarIsAccepted ==
  ASSUME NEW record \in Records, SessionOK(record.session), NEW current,
         NEW page, page.status = record.session.status,
         page.recordingPhase = record.session.recordingPhase,
         NEW op, \/ op \in RecordingStatusBar(page)
                 \/ op = Op("activate and join") /\ page.status = "ready"
  PROVE  Accepts(record, RequestOf(op, current))
<1> DEFINE status == record.session.status  phase == record.session.recordingPhase
<1>1. status \in {"draft", "ready"} => phase = "waiting" BY DEF SessionOK, FitsStatus
<1>2. /\ op.name \in {"activate", "activate and join", "start", "stop", "finish", "end"}
      /\ op.name \in SessionOps
  <2>1. CASE op \in RecordingStatusBar(page) BY <2>1, BarButtons DEF SessionOps
  <2>2. CASE op = Op("activate and join") BY <2>2, FieldsOfOp DEF SessionOps
  <2> QED BY <2>1, <2>2
<1>3. PICK patch : patch = SessionPatchOf(op) OBVIOUS
<1>4. None \notin Texts /\ None \notin Statuses /\ None \notin Phases
  BY NoneIsNoValue
<1>5. CASE op.name \in {"activate", "activate and join"}
  <2>1. status = "ready" BY <1>5, BarButtons
  <2>2. patch = [title |-> None, status |-> "active", recordingPhase |-> "waiting",
                 recordingHealth |-> "healthy"]
    BY <1>3, <1>5 DEF SessionPatchOf, SessionPatch, EmptySessionPatch
  <2>3. ValidateSessionPatch(record.session, patch)
    BY <1>1, <1>4, <2>1, <2>2
    DEF ValidateSessionPatch, FieldsMayChange, StatusMayMove, PhaseMayMove, MayEnd, Given,
        IsAllowedStatusTransition, IsAllowedRecordingPhaseTransition, Statuses, Phases
  <2> QED BY <1>2, <1>3, <2>3, RequestByName, AcceptedPatch
<1>6. CASE op.name \in {"start", "stop", "finish", "end"}
  <2>1. /\ status = "active"
        /\ op.name = "start" => phase \in {"waiting", "stopped"}
        /\ op.name = "stop" => phase = "recording"
        /\ op.name = "finish" => phase = "draining"
        /\ op.name = "end" => phase \in {"stopped", "failed"}
    <3>1. Op("activate and join").name = "activate and join" BY DEF Op
    <3>2. op \in RecordingStatusBar(page) BY <1>6, <3>1
    <3> QED BY <1>6, <3>2, BarButtons
  <2>2. /\ patch.title = None
        /\ op.name = "start" => patch.status = "active" /\ patch.recordingPhase = "recording"
        /\ op.name = "stop" => patch.status = "active" /\ patch.recordingPhase = "draining"
        /\ op.name = "finish" => patch.status = None /\ patch.recordingPhase = "stopped"
        /\ op.name = "end" => patch.status = "ended" /\ patch.recordingPhase = None
    BY <1>3, <1>6 DEF SessionPatchOf, SessionPatch, EmptySessionPatch
  <2>3. ValidateSessionPatch(record.session, patch)
    BY <1>4, <1>6, <2>1, <2>2
    DEF ValidateSessionPatch, FieldsMayChange, StatusMayMove, PhaseMayMove, MayEnd, Given,
        IsAllowedStatusTransition, IsAllowedRecordingPhaseTransition, Statuses, Phases
  <2> QED BY <1>2, <1>3, <2>3, RequestByName, AcceptedPatch
<1> QED BY <1>2, <1>5, <1>6

\* What the setup page edits, by kind.
FieldEdits ==
  [name : {"set title"}, seat : {HostSeatId}, value : Texts]
    \cup [name : {"set status"}, seat : {HostSeatId}, value : {"draft", "ready"}]
AddEdits == [name : {"add seat"}, seat : {HostSeatId}, value : {None}]
SeatEditsOf(numbers) ==
  [name : {"remove seat", "rename", "set role"}, seat : numbers,
   value : Texts \cup Roles \cup {None}]

LEMMA FormEdits ==
  ASSUME NEW shown
  PROVE  SessionForm(shown) \subseteq FieldEdits \cup AddEdits \cup SeatEditsOf(Roster(shown))
<1>1. /\ \A text \in Texts : OpOf("set title", text) \in FieldEdits
      /\ \A status \in {"draft", "ready"} : OpOf("set status", status) \in FieldEdits
  BY DEF OpOf, FieldEdits
<1>2. Op("add seat") \in AddEdits BY DEF Op, AddEdits
<1>3. ASSUME NEW n \in Roster(shown)
      PROVE  SetupSeatRow(shown, n) \subseteq SeatEditsOf(Roster(shown))
  <2>1. \A name \in {"remove seat", "rename", "set role"}, value \in Texts \cup Roles \cup {None} :
          SeatOp(name, n, value) \in SeatEditsOf(Roster(shown))
    BY DEF SeatOp, SeatEditsOf
  <2>2. /\ \A text \in Texts : SeatOp("rename", n, text) \in SeatEditsOf(Roster(shown))
        /\ \A r \in Roles : SeatOp("set role", n, r) \in SeatEditsOf(Roster(shown))
        /\ SeatOp("remove seat", n, None) \in SeatEditsOf(Roster(shown))
    BY <2>1
  <2> QED BY <2>2 DEF SetupSeatRow
<1>4. ASSUME NEW op, op \in SeatList(shown)
      PROVE  op \in AddEdits \cup SeatEditsOf(Roster(shown))
  <2>1. op = Op("add seat") \/ \E n \in Roster(shown) : op \in SetupSeatRow(shown, n)
    BY <1>4 DEF SeatList
  <2> QED BY <1>2, <1>3, <2>1
<1>5. ASSUME NEW op \in SessionForm(shown)
      PROVE  \/ op \in SeatList(shown)
             \/ \E text \in Texts : op = OpOf("set title", text)
             \/ \E status \in {"draft", "ready"} : op = OpOf("set status", status)
  BY <1>5 DEF SessionForm
<1> QED BY <1>1, <1>4, <1>5

LEMMA FormIsAccepted ==
  ASSUME NEW record \in Records, RosterEditable(record.session.status), NEW current,
         NEW op \in FieldEdits \cup AddEdits \cup SeatEditsOf(Roster(record.session))
  PROVE  (record.bound /\ op.name \in RosterOps) \/ Accepts(record, RequestOf(op, current))
<1>1. None \notin Texts /\ None \notin Statuses /\ None \notin Phases
  BY NoneIsNoValue
<1>2. CASE op \in FieldEdits
  <2>1. PICK patch : patch = SessionPatchOf(op) OBVIOUS
  <2>2. \/ op.name = "set title"
        \/ op.name = "set status" /\ op.value \in {"draft", "ready"}
    BY <1>2 DEF FieldEdits
  <2>3. op.name \in SessionOps BY <2>2 DEF SessionOps
  <2>4. patch.recordingPhase = None /\ patch.status \in {None, "draft", "ready"}
    BY <2>1, <2>2 DEF SessionPatchOf, SessionPatch, EmptySessionPatch
  <2>5. ValidateSessionPatch(record.session, patch)
    BY <1>1, <2>4
    DEF ValidateSessionPatch, FieldsMayChange, StatusMayMove, PhaseMayMove, MayEnd,
        IsAllowedStatusTransition, RosterEditable, Statuses
  <2> QED BY <2>1, <2>3, <2>5, RequestByName, AcceptedPatch
<1>3. CASE op \in AddEdits
  <2>1. op.name = "add seat" /\ op.name \in RosterOps BY <1>3 DEF AddEdits, RosterOps
  <2>2. ~record.bound => ValidateRosterMutation(record) BY DEF ValidateRosterMutation
  <2> QED BY <2>1, <2>2, RequestByName, AcceptedRosterEdit
<1>4. CASE op \in SeatEditsOf(Roster(record.session))
  <2>1. /\ op.name \in {"remove seat", "rename", "set role"} /\ op.seat \in Roster(record.session)
    BY <1>4 DEF SeatEditsOf
  <2>2. op.name \in RosterOps /\ op.name \notin SessionOps BY <2>1 DEF RosterOps, SessionOps
  <2>3. PICK patch : patch = SeatPatchOf(op, current) OBVIOUS
  <2>4. ~record.bound => ValidateRosterMutation(record) /\ ValidateSeatPatch(record, patch)
    BY DEF ValidateRosterMutation, ValidateSeatPatch, RosterEditable
  <2>5. CASE op.name = "remove seat"
    BY <2>1, <2>2, <2>4, <2>5, RequestByName, AcceptedRosterEdit
  <2>6. CASE op.name # "remove seat"
    <3>1. RequestOf(op, current) = PatchSeatRequest(op.seat, patch)
      BY <2>1, <2>2, <2>3, <2>6, RequestByName
    <3> QED BY <2>1, <2>2, <2>4, <3>1, AcceptedPatch
  <2> QED BY <2>5, <2>6
<1> QED BY <1>2, <1>3, <1>4

LEMMA JoinIsAccepted ==
  ASSUME NEW record \in Records, SessionOK(record.session), record.session.status = "active",
         NEW current
  PROVE  Accepts(record, RequestOf(Op("join"), current))
<1>1. PICK patch : patch = SeatPatchOf(Op("join"), current) OBVIOUS
<1>2. patch.role = None /\ patch.displayName = None
  BY <1>1 DEF SeatPatchOf, EmptySeatPatch, Op
<1>3. ValidateSeatPatch(record, patch) BY <1>2 DEF ValidateSeatPatch, TouchesRosterFields
<1>4. HostSeatId \in Roster(record.session) BY DEF SessionOK, HasOperator
<1>5. RequestOf(Op("join"), current) = PatchSeatRequest(HostSeatId, patch)
  BY <1>1, RequestByName DEF Op, SessionOps
<1> QED BY <1>3, <1>4, <1>5, AcceptedPatch

\* No button of the pages leads to a refusal while they show the API's session,
\* except on the roster of the bootstrap configuration (RecordingStatusBar.tsx,
\* SessionSetupPage.tsx, SeatList.tsx and api/validation/transitions.ts).
THEOREM OfferedIsAlwaysAccepted == ConsoleSpec => []OfferedIsAccepted
<1>1. ASSUME ConsoleInv, ShowsTheSession,
             NEW op \in IF screen = "setup" THEN Offered ELSE RecordingStatusBar(Page)
      PROVE  \/ store[Session].bound /\ op.name \in RosterOps
             \/ Accepts(store[Session], RequestOf(op, cache))
  <2>1. PICK record : record = store[Session] OBVIOUS
  <2>2. record \in Records /\ SessionOK(record.session) /\ cache = record.session
    BY <1>1, <2>1, SessionIsOne
    DEF ShowsTheSession, ConsoleInv, ApiInv, ApiTypeOK, RecordsInOrder, Stored
  <2>3. record.session \in Sessions BY <2>2 DEF Records
  <2>4. PICK page : page = Page OBVIOUS
  <2>5. page = PresentSession(record.session, demoPreset)
    BY <1>1, <2>2, <2>4 DEF Page, ShowsTheSession
  <2>6. /\ page.status = record.session.status
        /\ page.recordingPhase = record.session.recordingPhase
        /\ Roster(page) \subseteq Roster(record.session)
    BY <2>3, <2>5, Presented
  <2>7. \/ op \in SessionForm(page)
        \/ op \in RecordingStatusBar(page)
        \/ op = Op("activate and join") /\ page.status = "ready"
        \/ op = Op("join") /\ page.status = "active"
    BY <1>1, <2>4 DEF Offered, OpenRoom
  <2>8. CASE op \in SessionForm(page)
    <3>1. page.status \in Statuses BY <2>3, <2>6 DEF Sessions
    <3>2. RosterEditable(record.session.status)
      BY <2>6, <2>8, <3>1 DEF SessionForm, EditingLocked, Statuses, RosterEditable
    <3>3. SeatEditsOf(Roster(page)) \subseteq SeatEditsOf(Roster(record.session))
      BY <2>6 DEF SeatEditsOf
    <3>4. op \in FieldEdits \cup AddEdits \cup SeatEditsOf(Roster(record.session))
      BY <2>8, <3>3, FormEdits
    <3> QED BY <2>1, <2>2, <3>2, <3>4, FormIsAccepted
  <2>9. CASE \/ op \in RecordingStatusBar(page)
             \/ op = Op("activate and join") /\ page.status = "ready"
    BY <2>1, <2>2, <2>6, <2>9, BarIsAccepted
  <2>10. CASE op = Op("join") /\ page.status = "active"
    BY <2>1, <2>2, <2>6, <2>10, JoinIsAccepted
  <2> QED BY <2>7, <2>8, <2>9, <2>10
<1>2. ConsoleInv => OfferedIsAccepted BY <1>1 DEF OfferedIsAccepted
<1> QED BY <1>2, ConsoleInvariant, PTL

-----------------------------------------------------------------------------
\* At rest the console shows what it was last told.

\* The newest of the API's answers, when it was not cached yet, is the session as it was
\* last told; and when it was the last to be cached, nothing but an edit changes that.
CacheInv ==
  /\ reply.state = "accepted" /\ newest = "mutation" => reply.session = seen
  /\ fetch.state = "answered" /\ newest = "fetch" => fetch.session = seen
  /\ queue = <<>> /\ fetch.state = "idle" /\ last = "current" /\ cache # None => cache = seen

LEMMA StateOfFetch ==
  ASSUME NEW state, NEW answer
  PROVE  Fetch(state, answer).state = state /\ Fetch(state, answer).session = answer
  BY DEF Fetch

LEMMA OnlyTheNewestIsCurrent ==
  \A kind \in {"fetch", "mutation"} : AnswerOf(kind) = "current" => newest = kind
  BY DEF AnswerOf

LEMMA CacheStep ==
  ASSUME ConsoleInv, CacheInv, ConsoleNext PROVE CacheInv'
<1>1. /\ reply.state # "none" => queue # <<>>
      /\ queue \in Seq(Mutations)
  BY DEF ConsoleInv, QueueInOrder
<1>2. ASSUME NEW op \in Offered, Click(op) PROVE CacheInv'
  <2>1. UNCHANGED <<reply, seen, newest, last>> BY <1>2 DEF Click, toldVars
  <2>2. CASE cache = None
    <3>1. fetch'.state = "sent" BY <1>2, <2>2, StateOfFetch DEF Click, EnsureSessionContract
    <3> QED BY <2>1, <3>1 DEF CacheInv
  <2>3. CASE cache # None
    <3>1. fetch' = Fetch("idle", None) BY <1>2, <2>3 DEF Click, RunSessionMutation
    <3>2. queue' # <<>>
      BY <1>1, <1>2, <2>3, OfferedAreOps, RunMutation DEF Click, ConsoleInv, HandsInOrder
    <3>3. fetch'.state = "idle" BY <3>1, StateOfFetch
    <3> QED BY <2>1, <3>2, <3>3 DEF CacheInv
  <2> QED BY <2>2, <2>3
<1>3. CASE ServeMutation
  <2>1. queue # <<>> /\ UNCHANGED <<cache, fetch, queue, last>> BY <1>3 DEF ServeMutation
  <2>2. CASE reply' = Accepted(seen') /\ newest' = "mutation"
    BY <2>1, <2>2, NoReplies DEF CacheInv
  <2>3. CASE reply' = Refused /\ UNCHANGED <<seen, newest>>
    BY <2>1, <2>3, NoReplies DEF CacheInv
  <2>4. \/ reply' = Accepted(seen') /\ newest' = "mutation"
        \/ reply' = Refused /\ UNCHANGED <<seen, newest>>
    BY <1>3 DEF ServeMutation
  <2> QED BY <2>2, <2>3, <2>4
<1>4. CASE MutationSucceeds
  <2>1. /\ reply.state = "accepted" /\ reply' = NoReply
        /\ last' = AnswerOf("mutation") /\ UNCHANGED <<seen, newest>>
    BY <1>4 DEF MutationSucceeds
  <2>2. queue # <<>> BY <1>1, <2>1
  <2>3. CASE RunSessionMutation(Op("join"), reply.session, Tail(queue))
    <3>1. InHand(reply.session) BY <2>1 DEF ConsoleInv, HandsInOrder
    <3>2. Tail(queue) \in Seq(Mutations) BY <2>2, FirstMutation DEF ConsoleInv
    <3>3. queue' # <<>> /\ fetch' = Fetch("idle", None)
      BY <2>3, <3>1, <3>2, RunMutation, JoinIsOp
    <3> QED BY <2>1, <3>3, StateOfFetch, NoReplies DEF CacheInv
  <2>4. CASE cache' = reply.session /\ UNCHANGED fetch
    <3>1. last' = "current" => reply.session = seen
      BY <2>1, OnlyTheNewestIsCurrent DEF CacheInv
    <3> QED BY <2>1, <2>4, <3>1, NoReplies DEF CacheInv
  <2> QED BY <1>4, <2>3, <2>4 DEF MutationSucceeds
<1>5. CASE MutationRefused \/ MutationLost
  <2>1. reply' = NoReply /\ fetch' = Fetch("sent", None)
    BY <1>5 DEF MutationRefused, MutationLost, Rejected
  <2> QED BY <2>1, StateOfFetch, NoReplies DEF CacheInv
<1>6. CASE ServeFetch
  <2>1. /\ fetch' = Fetch("answered", seen') /\ newest' = "fetch"
        /\ UNCHANGED <<cache, queue, reply, last>>
    BY <1>6 DEF ServeFetch
  <2> QED BY <2>1, StateOfFetch DEF CacheInv
<1>7. CASE FetchSucceeds
  <2>1. /\ fetch.state = "answered" /\ fetch' = Fetch("idle", None)
        /\ last' = AnswerOf("fetch") /\ UNCHANGED <<reply, seen, newest>>
    BY <1>7 DEF FetchSucceeds, RunSessionMutation
  <2>2. CASE waiting = None
    <3>1. cache' = fetch.session /\ UNCHANGED queue BY <1>7, <2>2 DEF FetchSucceeds
    <3>2. last' = "current" => fetch.session = seen
      BY <2>1, OnlyTheNewestIsCurrent DEF CacheInv
    <3> QED BY <2>1, <3>1, <3>2, StateOfFetch DEF CacheInv
  <2>3. CASE waiting # None
    <3>1. waiting \in ConsoleOps /\ InHand(fetch.session)
      BY <2>1, <2>3 DEF ConsoleInv, QueueInOrder, HandsInOrder
    <3>2. queue' # <<>> BY <1>1, <1>7, <2>3, <3>1, RunMutation DEF FetchSucceeds
    <3> QED BY <2>1, <3>2, StateOfFetch DEF CacheInv
  <2> QED BY <2>2, <2>3
<1>8. CASE FetchFails
  <2>1. /\ last' = "none" /\ fetch' = Fetch("idle", None)
        /\ UNCHANGED <<reply, seen, newest>>
    BY <1>8 DEF FetchFails
  <2> QED BY <2>1, StateOfFetch DEF CacheInv
<1>9. CASE Reconnect
  <2>1. fetch' = Fetch("sent", None) /\ UNCHANGED <<reply, seen, newest, last>>
    BY <1>9 DEF Reconnect, toldVars
  <2> QED BY <2>1, StateOfFetch DEF CacheInv
<1>10. CASE UNCHANGED <<cache, fetch, queue, reply, seen, newest, last>>
  BY <1>10 DEF CacheInv
<1>11. ASSUME NEW preset \in DemoPresets, ApplyDemoPreset(preset)
       PROVE  UNCHANGED <<cache, fetch, queue, reply, seen, newest, last>>
  BY <1>11 DEF ApplyDemoPreset, toldVars
<1>12. CASE BackToSetup \/ Elsewhere
  BY <1>10, <1>12 DEF BackToSetup, Elsewhere, pageVars, toldVars
<1> QED BY <1>2, <1>3, <1>4, <1>5, <1>6, <1>7, <1>8, <1>9, <1>10, <1>11, <1>12 DEF ConsoleNext

\* However many edits were refused, lost or queued behind each other, and whatever was
\* fetched beside them, at rest no guess is left, but the newest of the API's answers when
\* that was the last to come (runSessionMutation in useControlSessionController.ts).
THEOREM CacheIsAlwaysCurrent == ConsoleSpec => []CacheIsCurrent
<1>1. ConsoleInit => CacheInv
  BY StateOfFetch DEF ConsoleInit, CacheInv, NoReply
<1>2. CacheInv /\ UNCHANGED consoleVars => CacheInv'
  BY DEF consoleVars, pageVars, toldVars, CacheInv
<1>3. ConsoleInv /\ CacheInv /\ [ConsoleNext]_consoleVars => CacheInv' BY <1>2, CacheStep
<1>4. CacheInv => CacheIsCurrent BY DEF CacheInv, CacheIsCurrent, AtRest
<1> QED BY <1>1, <1>3, <1>4, ConsoleInvariant, PTL DEF ConsoleSpec
=============================================================================
