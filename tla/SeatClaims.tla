------------------------------ MODULE SeatClaims ------------------------------
(***************************************************************************)
(* Seat claims of the session server (internal/sessiond/sqlite_claims.go): *)
(* the table seat_claims, the claim and reclaim handlers, the check by     *)
(* which every recording handler finds out for which seat it acts, and the *)
(* browsers, each with one cookie jar that all its tabs share.             *)
(*                                                                         *)
(* A handler reads and writes below store.mu and commits one statement, so *)
(* it is one action.  Between a browser and the server a request carries   *)
(* the cookie the jar held when it was sent, and an answer sets the jar    *)
(* when it arrives; both may be lost, overtaken and repeated.              *)
(*                                                                         *)
(* Simplifications.                                                        *)
(*  - One session.  seat_claims survives a restart of the process as it    *)
(*    is, so a restart only loses requests and answers.                    *)
(*  - A secret is identified with its hash; randomHex never repeats.       *)
(*  - The state "disconnected" is never written by any code, and heartbeat *)
(*    and takeover are not implemented.                                    *)
(*  - The seat picker changes nothing: a browser may ask for any seat.     *)
(***************************************************************************)
EXTENDS Naturals, FiniteSets

CONSTANTS
  Browsers,
  Seats,        \* rows of participant_seats
  HostSeats,    \* those whose role is host
  Keys,         \* join keys
  KeyOf,        \* the join key of each role's link
  Keyring,      \* the join keys a browser was given
  Secrets,      \* values randomHex may return
  MaxInFlight,  \* bound on the requests and answers under way
  None,         \* SQL NULL, no cookie, no field
  Faults        \* may messages be lost and browsers drop the cookie?

Roles == {"host", "guest"}
Cookies == [seat : Seats, version : Nat, secret : Secrets]
Requests == [kind : {"claim", "reclaim", "act"}, browser : Browsers,
             role : Roles \cup {None}, key : Keys \cup {None},
             seat : Seats \cup {None}, cookie : Cookies \cup {None}]

ASSUME HostSeatsAreSeats == HostSeats \subseteq Seats
ASSUME KeysOfRoles == KeyOf \in [Roles -> Keys]
ASSUME KeyringsHoldKeys == Keyring \in [Browsers -> SUBSET Keys]
ASSUME MaxInFlightIsNat == MaxInFlight \in Nat
ASSUME FaultsIsBoolean == Faults \in BOOLEAN
ASSUME NoneIsNothing ==
  None \notin Secrets \cup Seats \cup Browsers \cup Cookies \cup Keys \cup Roles

VARIABLES
  claims,    \* seat_claims by seat: state, claim_secret_hash, claim_version
  jar,       \* by browser: the cookie vgpr_claim
  requests,  \* requests sent and not handled yet
  replies,   \* granted answers sent and not received yet
  minted,    \* history: the secrets minted so far
  owner,     \* history: to whom a seat was last granted
  acted      \* history: who acted for which seat

vars == <<claims, jar, requests, replies, minted, owner, acted>>

-----------------------------------------------------------------------------
RoleOf(seat) == IF seat \in HostSeats THEN "host" ELSE "guest"

\* Mutant: the key of either link will do.
AnyJoinKey(request) == \E role \in Roles : request.key = KeyOf[role]
ValidJoinKey(request) == request.key = KeyOf[request.role]

\* The seat a cookie proves, or None: its version and its secret are the row's.
Proves(cookie, seat) ==
  /\ cookie # None
  /\ cookie.seat = seat
  /\ claims[seat].secret # None
  /\ claims[seat].version = cookie.version
  /\ claims[seat].secret = cookie.secret
LookupClaim(cookie) ==
  IF cookie # None /\ Proves(cookie, cookie.seat) THEN cookie.seat ELSE None

\* Mutant: the check that the seat is in use is missing.
AnySeat(seat) == TRUE
Claimable(seat) == claims[seat].state # "active"

CookieOf(seat, secret) == [seat |-> seat, version |-> claims[seat].version, secret |-> secret]
Answer(request, cookie) ==
  /\ requests' = requests \ {request}
  /\ replies' = replies \cup {[browser |-> request.browser, cookie |-> cookie]}

Init ==
  /\ claims = [seat \in Seats |-> [state |-> "unclaimed", secret |-> None, version |-> 0]]
  /\ jar = [browser \in Browsers |-> None]
  /\ requests = {}
  /\ replies = {}
  /\ minted = {}
  /\ owner = [seat \in Seats |-> None]
  /\ acted = {}

-----------------------------------------------------------------------------
\* Browsers.  A tab sends what it likes, with the keys and the cookie it has.

Send(request) ==
  /\ Cardinality(requests) + Cardinality(replies) < MaxInFlight
  /\ requests' = requests \cup {request}
  /\ UNCHANGED <<claims, jar, replies, minted, owner, acted>>

SendClaim(browser, role, key, seat) ==
  /\ key \in Keyring[browser]
  /\ Send([kind |-> "claim", browser |-> browser, role |-> role, key |-> key,
           seat |-> seat, cookie |-> jar[browser]])

SendReclaim(browser, role, key) ==
  /\ key \in Keyring[browser]
  /\ Send([kind |-> "reclaim", browser |-> browser, role |-> role, key |-> key,
           seat |-> None, cookie |-> jar[browser]])

SendAct(browser) ==
  Send([kind |-> "act", browser |-> browser, role |-> None, key |-> None,
        seat |-> None, cookie |-> jar[browser]])

\* The answer's Set-Cookie replaces whatever the jar holds by now.
ReceiveReply(reply) ==
  /\ reply \in replies
  /\ jar' = [jar EXCEPT ![reply.browser] = reply.cookie]
  /\ replies' = replies \ {reply}
  /\ UNCHANGED <<claims, requests, minted, owner, acted>>

\* The cookie has no Max-Age: it goes when the browser is closed.
ForgetCookie(browser) ==
  /\ Faults
  /\ jar[browser] # None
  /\ jar' = [jar EXCEPT ![browser] = None]
  /\ UNCHANGED <<claims, requests, replies, minted, owner, acted>>

LoseReply(reply) ==
  /\ Faults
  /\ reply \in replies
  /\ replies' = replies \ {reply}
  /\ UNCHANGED <<claims, jar, requests, minted, owner, acted>>

-----------------------------------------------------------------------------
\* The server.

\* A claim without a claim: the seat must be of the link's role and not in use;
\* a fresh secret is minted and the version counts it.
GrantSeat(request, secret) ==
  /\ LookupClaim(request.cookie) = None
  /\ RoleOf(request.seat) = request.role
  /\ Claimable(request.seat)
  /\ secret \notin minted
  /\ LET version == claims[request.seat].version + 1 IN
       /\ claims' = [claims EXCEPT ![request.seat] =
            [state |-> "active", secret |-> secret, version |-> version]]
       /\ Answer(request, [seat |-> request.seat, version |-> version, secret |-> secret])
  /\ minted' = minted \cup {secret}
  /\ owner' = [owner EXCEPT ![request.seat] = request.browser]
  /\ UNCHANGED <<jar, acted>>

\* Mutant: a seat is handed out again with a version of its own.
RotateVersion(request, seat) ==
  /\ RoleOf(seat) = request.role
  /\ claims' = [claims EXCEPT ![seat].state = "active", ![seat].version = @ + 1]
  /\ Answer(request, [request.cookie EXCEPT !.version = @ + 1])
  /\ UNCHANGED <<jar, minted, owner, acted>>

\* The seat the cookie proves is handed out again, secret and version unchanged.
ReactivateClaim(request, seat) ==
  /\ RoleOf(seat) = request.role
  /\ claims' = [claims EXCEPT ![seat].state = "active"]
  /\ Answer(request, CookieOf(seat, request.cookie.secret))
  /\ UNCHANGED <<jar, minted, owner, acted>>

ClaimSeat(request) ==
  /\ request \in requests
  /\ request.kind = "claim"
  /\ ValidJoinKey(request)
  /\ \/ /\ LookupClaim(request.cookie) = request.seat
        /\ ReactivateClaim(request, request.seat)
     \/ \E secret \in Secrets : GrantSeat(request, secret)

\* Mutant: a reclaim does not need a claim.
ReclaimUnproved(request) ==
  /\ request \in requests
  /\ request.kind = "reclaim"
  /\ ValidJoinKey(request)
  /\ Answer(request, request.cookie)
  /\ UNCHANGED <<claims, jar, minted, owner, acted>>

ReclaimSeat(request) ==
  /\ request \in requests
  /\ request.kind = "reclaim"
  /\ ValidJoinKey(request)
  /\ \E seat \in Seats :
       /\ LookupClaim(request.cookie) = seat
       /\ claims[seat].state # "unclaimed"
       /\ ReactivateClaim(request, seat)

\* Every recording handler begins so: it acts for the seat the cookie proves.
RequireActiveClaim(cookie, seat) ==
  LookupClaim(cookie) = seat /\ claims[seat].state = "active"

ActForSeat(request) ==
  /\ request \in requests
  /\ request.kind = "act"
  /\ \E seat \in Seats :
       /\ RequireActiveClaim(request.cookie, seat)
       /\ acted' = acted \cup {<<request.browser, seat>>}
  /\ requests' = requests \ {request}
  /\ UNCHANGED <<claims, jar, replies, minted, owner>>

\* A request that is refused, fails, or never arrives changes nothing.
DropRequest(request) ==
  /\ request \in requests
  /\ requests' = requests \ {request}
  /\ UNCHANGED <<claims, jar, replies, minted, owner, acted>>

-----------------------------------------------------------------------------

BrowserStep(browser) ==
  \/ \E role \in Roles, key \in Keys :
       \/ SendReclaim(browser, role, key)
       \/ \E seat \in Seats : SendClaim(browser, role, key, seat)
  \/ SendAct(browser)
  \/ ForgetCookie(browser)

Next ==
  \/ \E browser \in Browsers : BrowserStep(browser)
  \/ \E reply \in replies : ReceiveReply(reply) \/ LoseReply(reply)
  \/ \E request \in requests :
       \/ ClaimSeat(request) \/ ReclaimSeat(request) \/ ActForSeat(request)
       \/ DropRequest(request)

Spec == Init /\ [][Next]_vars

-----------------------------------------------------------------------------
Claims == [state : {"unclaimed", "active"}, secret : Secrets \cup {None}, version : Nat]
Replies == [browser : Browsers, cookie : Cookies]

\* Every variable holds a value of its kind, and what is answered is a cookie.
TypeOK ==
  /\ claims \in [Seats -> Claims]
  /\ jar \in [Browsers -> Cookies \cup {None}]
  /\ requests \subseteq Requests
  /\ replies \subseteq Replies
  /\ minted \subseteq Secrets
  /\ owner \in [Seats -> Browsers \cup {None}]
  /\ acted \subseteq Browsers \X Seats

\* The cookies that exist for a browser: in its jar, its requests, its answers.
CookiesOf(browser) ==
  {jar[browser]} \cup {request.cookie : request \in {r \in requests : r.browser = browser}}
                 \cup {reply.cookie : reply \in {r \in replies : r.browser = browser}}

\* A cookie that claimSeat or reclaimSeat once set keeps proving its seat, however
\* long it is under way and whatever other tabs and browsers claim meanwhile, and
\* it belongs to the browser the seat was granted to: no two browsers hold one seat.
GrantedCookiesProve ==
  \A browser \in Browsers : \A cookie \in CookiesOf(browser) \ {None} :
    Proves(cookie, cookie.seat) /\ owner[cookie.seat] = browser

\* The seats whose role may start and stop the recording are only held by
\* browsers that were given the host link, whatever link they ask with.
HostSeatsNeedHostKey ==
  \A seat \in HostSeats : owner[seat] # None => KeyOf["host"] \in Keyring[owner[seat]]

\* The claims implement the promise of SeatOwnership: lost and overtaken answers,
\* forgotten cookies and stale requests never move a seat to another browser.
Ownership == INSTANCE SeatOwnership
ImplementsOwnership == Ownership!Spec

\* docs/seat-claim-protocol.md: "active: exactly one browser owns the seat".  Some
\* browser has, or is being sent, the cookie of every active seat.
ActiveMeansOwned ==
  \A seat \in Seats : claims[seat].state = "active" =>
    \/ \E browser \in Browsers : Proves(jar[browser], seat)
    \/ \E reply \in replies : Proves(reply.cookie, seat)
=============================================================================
