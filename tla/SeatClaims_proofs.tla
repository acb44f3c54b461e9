-------------------------- MODULE SeatClaims_proofs --------------------------
(***************************************************************************)
(* Proofs about SeatClaims, for all sets of browsers, seats, keys and      *)
(* secrets.  The invariant says of each cookie, wherever it is, that it    *)
(* proves its seat to the browser the seat was granted to.  It holds       *)
(* because a seat is granted only while its row has no secret: then no     *)
(* cookie of the seat can exist that the new secret would invalidate.      *)
(***************************************************************************)
EXTENDS SeatClaims, TLAPS

\* A cookie is good for a browser when it proves a seat that browser was granted.
Good(cookie, browser) ==
  cookie # None => Proves(cookie, cookie.seat) /\ owner[cookie.seat] = browser

CookiesGood ==
  /\ \A browser \in Browsers : Good(jar[browser], browser)
  /\ \A request \in requests : Good(request.cookie, request.browser)
  /\ \A reply \in replies : Good(reply.cookie, reply.browser)

\* A row has a secret, and its seat an owner, exactly when it is active.
RowsAgree ==
  \A seat \in Seats :
    /\ claims[seat].state = "active" <=> claims[seat].secret # None
    /\ claims[seat].state = "active" <=> owner[seat] # None

\* A request carries what its handler reads, and a key its browser was given.
RequestsFit ==
  \A request \in requests :
    /\ request.kind = "claim" => request.seat \in Seats
    /\ request.kind # "act" => request.key \in Keyring[request.browser]

ClaimInv == TypeOK /\ RowsAgree /\ RequestsFit /\ CookiesGood /\ HostSeatsNeedHostKey

\* lookupClaim returns the seat a cookie proves, and nothing else.
LEMMA LookupProves ==
  ASSUME NEW cookie, NEW seat \in Seats, LookupClaim(cookie) = seat
  PROVE  cookie # None /\ cookie.seat = seat /\ Proves(cookie, seat)
<1>1. seat # None BY NoneIsNothing
<1> QED BY <1>1 DEF LookupClaim, Proves

\* A request of a browser, put into the set of requests, fits and is good.
LEMMA SendKeeps ==
  ASSUME ClaimInv, NEW request \in Requests, Send(request),
         request.cookie = jar[request.browser],
         request.kind = "claim" => request.seat \in Seats,
         request.kind # "act" => request.key \in Keyring[request.browser]
  PROVE  ClaimInv'
<1>1. TypeOK' BY DEF ClaimInv, TypeOK, Send
<1>2. RowsAgree' /\ HostSeatsNeedHostKey'
  BY DEF ClaimInv, RowsAgree, HostSeatsNeedHostKey, Send
<1>3. RequestsFit' BY DEF ClaimInv, RequestsFit, Send
<1>4. request.browser \in Browsers BY DEF Requests
<1>5. CookiesGood' BY <1>4 DEF ClaimInv, CookiesGood, Good, Proves, Send
<1> QED BY <1>1, <1>2, <1>3, <1>5 DEF ClaimInv

\* Steps that change no row keep the invariant when every cookie there is after
\* them was there before, in the same browser's hands.
LEMMA CarriedCookies ==
  ASSUME ClaimInv, UNCHANGED <<claims, owner>>, TypeOK',
         requests' \subseteq requests, replies' \subseteq replies,
         \A browser \in Browsers :
           \/ jar'[browser] \in {jar[browser], None}
           \/ \E reply \in replies : reply.browser = browser /\ jar'[browser] = reply.cookie
  PROVE  ClaimInv'
<1>1. RowsAgree' /\ RequestsFit' /\ HostSeatsNeedHostKey'
  BY DEF ClaimInv, RowsAgree, RequestsFit, HostSeatsNeedHostKey
<1>2. \A cookie, browser : Good(cookie, browser) => Good(cookie, browser)' BY DEF Good, Proves
<1>3. \A browser \in Browsers : Good(jar'[browser], browser)
  BY DEF ClaimInv, CookiesGood, Good
<1>4. CookiesGood' BY <1>2, <1>3 DEF ClaimInv, CookiesGood, Good, Proves
<1> QED BY <1>1, <1>4 DEF ClaimInv

\* reactivateClaim answers with the cookie it was shown and changes no row.
LEMMA ReactivateKeeps ==
  ASSUME ClaimInv, NEW request \in requests, NEW seat \in Seats,
         LookupClaim(request.cookie) = seat, ReactivateClaim(request, seat)
  PROVE  ClaimInv'
<1> DEFINE cookie == CookieOf(seat, request.cookie.secret)
<1> DEFINE reply == [browser |-> request.browser, cookie |-> cookie]
<1>1. /\ request \in Requests /\ request.cookie \in Cookies
      /\ request.cookie.seat = seat /\ Proves(request.cookie, seat)
  BY LookupProves, NoneIsNothing DEF ClaimInv, TypeOK, Requests
<1>2. cookie = request.cookie BY <1>1 DEF CookieOf, Proves, Cookies
<1>3. claims[seat] \in Claims /\ claims[seat].state = "active"
  BY <1>1 DEF ClaimInv, TypeOK, RowsAgree, Proves
<1>4. claims' = claims
  BY <1>3 DEF ReactivateClaim, ClaimInv, TypeOK, Claims
<1>5. requests' = requests \ {request} /\ replies' = replies \cup {reply}
  BY DEF ReactivateClaim, Answer
<1>6. reply \in Replies BY <1>1, <1>2 DEF Replies, Requests
<1>7. UNCHANGED <<claims, jar, minted, owner, acted>> BY <1>4 DEF ReactivateClaim
<1> HIDE DEF cookie
<1>8. TypeOK' BY <1>5, <1>6, <1>7 DEF ClaimInv, TypeOK
<1>9. RowsAgree' /\ RequestsFit' /\ HostSeatsNeedHostKey'
  BY <1>5, <1>7 DEF ClaimInv, RowsAgree, RequestsFit, HostSeatsNeedHostKey
<1>10. Good(cookie, request.browser) BY <1>2 DEF ClaimInv, CookiesGood
<1>11. CookiesGood' BY <1>5, <1>7, <1>10 DEF ClaimInv, CookiesGood, Good, Proves
<1> QED BY <1>8, <1>9, <1>11 DEF ClaimInv

\* A seat is granted only while nobody owns it, and then has its first cookie.
LEMMA GrantKeeps ==
  ASSUME ClaimInv, NEW request \in requests, NEW secret \in Secrets,
         request.kind = "claim", ValidJoinKey(request), GrantSeat(request, secret)
  PROVE  ClaimInv' /\ owner[request.seat] = None
<1> DEFINE seat == request.seat
           version == claims[seat].version + 1
           row == [state |-> "active", secret |-> secret, version |-> version]
           cookie == [seat |-> seat, version |-> version, secret |-> secret]
           reply == [browser |-> request.browser, cookie |-> cookie]
<1>1. request \in Requests /\ request.browser \in Browsers /\ seat \in Seats
  BY DEF ClaimInv, TypeOK, RequestsFit, Requests
<1>2. claims[seat] \in Claims BY <1>1 DEF ClaimInv, TypeOK
<1>3. row \in Claims /\ cookie \in Cookies /\ reply \in Replies
  BY <1>1, <1>2 DEF Claims, Cookies, Replies
<1>4. /\ claims' = [claims EXCEPT ![seat] = row]
      /\ owner' = [owner EXCEPT ![seat] = request.browser]
      /\ requests' = requests \ {request} /\ replies' = replies \cup {reply}
      /\ minted' = minted \cup {secret}
      /\ UNCHANGED <<jar, acted>>
  BY DEF GrantSeat, Answer
<1>5. claims[seat].secret = None /\ owner[seat] = None
  BY <1>1 DEF GrantSeat, Claimable, ClaimInv, RowsAgree
<1>6. /\ claims'[seat] = row /\ owner'[seat] = request.browser
      /\ \A other \in Seats \ {seat} : claims'[other] = claims[other] /\ owner'[other] = owner[other]
  BY <1>1, <1>4 DEF ClaimInv, TypeOK
<1>7. secret # None /\ request.browser # None BY <1>1, NoneIsNothing
<1>8. TypeOK' BY <1>1, <1>3, <1>4 DEF ClaimInv, TypeOK
<1>9. RowsAgree' BY <1>6, <1>7 DEF ClaimInv, RowsAgree
<1>10. RequestsFit' BY <1>4 DEF ClaimInv, RequestsFit
<1>11. HostSeatsNeedHostKey'
  <2>1. RoleOf(seat) = request.role BY DEF GrantSeat
  <2>2. request.key \in Keyring[request.browser] /\ request.key = KeyOf[request.role]
    BY DEF ClaimInv, RequestsFit, ValidJoinKey
  <2>3. seat \in HostSeats => KeyOf["host"] \in Keyring[request.browser] BY <2>1, <2>2 DEF RoleOf
  <2> QED BY <1>6, <2>3, HostSeatsAreSeats DEF ClaimInv, HostSeatsNeedHostKey
<1>12. ASSUME NEW other \in Cookies \cup {None}, NEW browser, Good(other, browser)
       PROVE  Good(other, browser)'
  <2>1. CASE other = None BY <2>1 DEF Good
  <2>2. CASE other # None
    <3>1. other.seat \in Seats /\ Proves(other, other.seat) /\ owner[other.seat] = browser
      BY <1>12, <2>2 DEF Good, Cookies
    <3>2. other.seat # seat BY <3>1, <1>5 DEF Proves
    <3>3. claims'[other.seat] = claims[other.seat] /\ owner'[other.seat] = owner[other.seat]
      BY <3>1, <3>2, <1>6
    <3>4. Proves(other, other.seat)' BY <3>1, <3>3 DEF Proves
    <3> QED BY <3>1, <3>3, <3>4 DEF Good
  <2> QED BY <2>1, <2>2
<1>13. PICK granted \in Cookies : granted = cookie BY <1>3
<1>14. CookiesGood'
  <2>1. \A browser \in Browsers : Good(jar[browser], browser)'
    <3>1. jar' = jar BY <1>4
    <3>2. \A browser \in Browsers :
            jar[browser] \in Cookies \cup {None} /\ Good(jar[browser], browser)
      BY DEF ClaimInv, CookiesGood, TypeOK
    <3> QED BY <3>1, <3>2, <1>12 DEF Good, Proves
  <2>2. \A r \in requests : Good(r.cookie, r.browser)'
    BY <1>12 DEF ClaimInv, CookiesGood, TypeOK, Requests
  <2>3. \A r \in replies : Good(r.cookie, r.browser)'
    BY <1>12 DEF ClaimInv, CookiesGood, TypeOK, Replies
  <2>4. Good(granted, request.browser)'
    <3>1. /\ granted.seat = seat /\ granted.version = version /\ granted.secret = secret
      BY <1>13
    <3>2. Proves(granted, granted.seat)' BY <3>1, <1>6, <1>7, NoneIsNothing DEF Proves
    <3> QED BY <3>1, <3>2, <1>6 DEF Good
  <2>5. replies' = replies \cup {[browser |-> request.browser, cookie |-> granted]}
    BY <1>4, <1>13
  <2> HIDE DEF seat, version, row, cookie, reply
  <2>6. \A r \in replies' : Good(r.cookie, r.browser)'
    BY <2>3, <2>4, <2>5
  <2> QED BY <1>4, <2>1, <2>2, <2>6 DEF CookiesGood
<1> QED BY <1>5, <1>8, <1>9, <1>10, <1>11, <1>14 DEF ClaimInv

\* Before the first request nobody owns anything.
LEMMA ClaimInit == Init => ClaimInv
<1> SUFFICES ASSUME Init PROVE ClaimInv OBVIOUS
<1>1. TypeOK BY DEF Init, TypeOK, Claims
<1>2. HostSeatsNeedHostKey BY HostSeatsAreSeats DEF Init, HostSeatsNeedHostKey
<1>3. RowsAgree /\ RequestsFit /\ CookiesGood
  BY DEF Init, RowsAgree, RequestsFit, CookiesGood, Good
<1> QED BY <1>1, <1>2, <1>3 DEF ClaimInv

\* Every step keeps the invariant; only GrantSeat has something to show.
LEMMA ClaimStep == ClaimInv /\ [Next]_vars => ClaimInv'
<1> SUFFICES ASSUME ClaimInv, [Next]_vars PROVE ClaimInv' OBVIOUS
<1>t. TypeOK BY DEF ClaimInv
<1>u. CASE UNCHANGED vars
  <2>1. TypeOK' BY <1>u, <1>t DEF vars, TypeOK
  <2> QED BY <1>u, <2>1, CarriedCookies DEF vars
<1>1. ASSUME NEW browser \in Browsers, NEW role \in Roles, NEW key \in Keys, NEW seat \in Seats,
             SendClaim(browser, role, key, seat)
      PROVE  ClaimInv'
  <2> DEFINE request == [kind |-> "claim", browser |-> browser, role |-> role, key |-> key,
                         seat |-> seat, cookie |-> jar[browser]]
  <2>1. request \in Requests BY <1>t DEF Requests, TypeOK
  <2> QED BY <1>1, <2>1, SendKeeps DEF SendClaim
<1>2. ASSUME NEW browser \in Browsers, NEW role \in Roles, NEW key \in Keys,
             SendReclaim(browser, role, key)
      PROVE  ClaimInv'
  <2> DEFINE request == [kind |-> "reclaim", browser |-> browser, role |-> role, key |-> key,
                         seat |-> None, cookie |-> jar[browser]]
  <2>1. request \in Requests BY <1>t DEF Requests, TypeOK
  <2> QED BY <1>2, <2>1, SendKeeps DEF SendReclaim
<1>3. ASSUME NEW browser \in Browsers, SendAct(browser) PROVE ClaimInv'
  <2> DEFINE request == [kind |-> "act", browser |-> browser, role |-> None, key |-> None,
                         seat |-> None, cookie |-> jar[browser]]
  <2>1. request \in Requests BY <1>t DEF Requests, TypeOK
  <2> QED BY <1>3, <2>1, SendKeeps DEF SendAct
<1>4. ASSUME NEW browser \in Browsers, ForgetCookie(browser) PROVE ClaimInv'
  <2>1. TypeOK' BY <1>4, <1>t DEF ForgetCookie, TypeOK
  <2> QED BY <1>4, <1>t, <2>1, CarriedCookies DEF ForgetCookie, TypeOK
<1>5. ASSUME NEW reply \in replies, ReceiveReply(reply) PROVE ClaimInv'
  <2>1. reply.browser \in Browsers /\ reply.cookie \in Cookies
    BY <1>t DEF TypeOK, Replies
  <2>2. TypeOK' BY <1>5, <1>t, <2>1 DEF ReceiveReply, TypeOK
  <2> QED BY <1>5, <1>t, <2>1, <2>2, CarriedCookies DEF ReceiveReply, TypeOK
<1>6. ASSUME NEW reply \in replies, LoseReply(reply) PROVE ClaimInv'
  <2>1. TypeOK' BY <1>6, <1>t DEF LoseReply, TypeOK
  <2> QED BY <1>6, <2>1, CarriedCookies DEF LoseReply
<1>7. ASSUME NEW request \in requests, ClaimSeat(request) PROVE ClaimInv'
  <2>1. CASE LookupClaim(request.cookie) = request.seat /\ ReactivateClaim(request, request.seat)
    <3>1. request.seat \in Seats BY <1>7 DEF ClaimSeat, ClaimInv, RequestsFit
    <3> QED BY <2>1, <3>1, ReactivateKeeps
  <2>2. CASE \E secret \in Secrets : GrantSeat(request, secret)
    BY <1>7, <2>2, GrantKeeps DEF ClaimSeat
  <2> QED BY <1>7, <2>1, <2>2 DEF ClaimSeat
<1>8. ASSUME NEW request \in requests, ReclaimSeat(request) PROVE ClaimInv'
  BY <1>8, ReactivateKeeps DEF ReclaimSeat
<1>9. ASSUME NEW request \in requests, ActForSeat(request) PROVE ClaimInv'
  <2>1. request.browser \in Browsers BY <1>t DEF TypeOK, Requests
  <2>2. TypeOK' BY <1>9, <1>t, <2>1 DEF ActForSeat, TypeOK
  <2> QED BY <1>9, <2>2, CarriedCookies DEF ActForSeat
<1>10. ASSUME NEW request \in requests, DropRequest(request) PROVE ClaimInv'
  <2>1. TypeOK' BY <1>10, <1>t DEF DropRequest, TypeOK
  <2> QED BY <1>10, <2>1, CarriedCookies DEF DropRequest
<1> QED BY <1>u, <1>1, <1>2, <1>3, <1>4, <1>5, <1>6, <1>7, <1>8, <1>9, <1>10
        DEF Next, BrowserStep

\* The invariant holds in every behaviour.
THEOREM ClaimInvariant == Spec => []ClaimInv
BY ClaimInit, ClaimStep, PTL DEF Spec

\* Every variable keeps its type (TypeOK) in every behaviour.
THEOREM ClaimsTyping == Spec => []TypeOK
<1>1. ClaimInv => TypeOK BY DEF ClaimInv
<1> QED BY <1>1, ClaimInvariant, PTL

\* No cookie the server ever set is invalidated, and no two browsers hold cookies
\* of one seat (GrantedCookiesProve).
THEOREM CookiesAlwaysProve == Spec => []GrantedCookiesProve
<1>1. ClaimInv => GrantedCookiesProve
  BY DEF ClaimInv, CookiesGood, Good, GrantedCookiesProve, CookiesOf
<1> QED BY <1>1, ClaimInvariant, PTL

\* Only browsers with the host link come to hold a host's seat (HostSeatsNeedHostKey).
THEOREM HostSeatsGoToHosts == Spec => []HostSeatsNeedHostKey
<1>1. ClaimInv => HostSeatsNeedHostKey BY DEF ClaimInv
<1> QED BY <1>1, ClaimInvariant, PTL

-----------------------------------------------------------------------------
\* Every step is a step of SeatOwnership or invisible in it: GrantSeat grants, a
\* handler that acts does so for the owner, everything else is between the two.
LEMMA OwnershipStep ==
  ASSUME ClaimInv, [Next]_vars PROVE [Ownership!Next]_(Ownership!vars)
<1>t. TypeOK BY DEF ClaimInv
<1>1. ASSUME NEW request \in requests, ClaimSeat(request)
      PROVE  [Ownership!Next]_(Ownership!vars)
  <2>1. CASE ReactivateClaim(request, request.seat)
    BY <2>1 DEF ReactivateClaim, Ownership!vars
  <2>2. ASSUME NEW secret \in Secrets, GrantSeat(request, secret)
        PROVE  Ownership!Next
    <3>1. request.browser \in Browsers /\ request.seat \in Seats
      BY <1>1, <1>t DEF ClaimSeat, ClaimInv, RequestsFit, TypeOK, Requests
    <3>2. owner[request.seat] = None BY <1>1, <2>2, GrantKeeps DEF ClaimSeat
    <3>3. Ownership!Grant(request.browser, request.seat)
      BY <2>2, <3>2 DEF GrantSeat, Ownership!Grant
    <3> QED BY <3>1, <3>3 DEF Ownership!Next
  <2> QED BY <1>1, <2>1, <2>2 DEF ClaimSeat
<1>2. ASSUME NEW request \in requests, ReclaimSeat(request) PROVE UNCHANGED Ownership!vars
  BY <1>2 DEF ReclaimSeat, ReactivateClaim, Ownership!vars
<1>3. ASSUME NEW request \in requests, ActForSeat(request) PROVE Ownership!Next
  <2>1. PICK seat \in Seats : /\ LookupClaim(request.cookie) = seat
                              /\ acted' = acted \cup {<<request.browser, seat>>}
    BY <1>3 DEF ActForSeat, RequireActiveClaim
  <2>2. request.browser \in Browsers /\ owner[seat] = request.browser
    BY <2>1, LookupProves, <1>t DEF ClaimInv, CookiesGood, Good, TypeOK, Requests
  <2>3. Ownership!Act(request.browser, seat)
    BY <1>3, <2>1, <2>2 DEF ActForSeat, Ownership!Act
  <2> QED BY <2>2, <2>3 DEF Ownership!Next
<1> QED BY <1>1, <1>2, <1>3
        DEF Next, BrowserStep, Send, SendClaim, SendReclaim, SendAct, ForgetCookie,
            ReceiveReply, LoseReply, DropRequest, vars, Ownership!vars

\* A seat stays with the browser it was first granted to, and only that browser
\* acts for it (ImplementsOwnership).
THEOREM ClaimsImplementOwnership == Spec => ImplementsOwnership
<1>1. Init => Ownership!Init BY DEF Init, Ownership!Init
<1>2. Spec => [][Ownership!Next]_(Ownership!vars) BY OwnershipStep, ClaimInvariant, PTL DEF Spec
<1> QED BY <1>1, <1>2, PTL DEF ImplementsOwnership, Ownership!Spec, Spec

=============================================================================
