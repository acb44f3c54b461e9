-------------------------- MODULE SessionLinks_proofs --------------------------
(***************************************************************************)
(* Proofs about role links, for all sessions, bootstrap configurations and *)
(* numbers of restarts.  The browser's document and the control API do not *)
(* disturb each other: seen without the document the system is the API     *)
(* alone, so whatever is proved of the API holds of it with its clients.   *)
(***************************************************************************)
EXTENDS SessionLinks, ControlApi_proofs

-----------------------------------------------------------------------------
\* The API among its clients.

LEMMA LinkStepIsApiStep == LinkNext => ApiNext \/ UNCHANGED apiVars
<1> SUFFICES ASSUME LinkNext PROVE ApiNext \/ UNCHANGED apiVars
  OBVIOUS
<1>1. CASE ServeRoleLinks
  <2>1. \/ \E bound \in BOOLEAN : EnsureSession(DefaultSessionId, bound)
        \/ UNCHANGED <<store, restarts>>
    BY <1>1 DEF ServeRoleLinks
  <2> QED BY <2>1, DefaultIsSession DEF ApiNext, apiVars
<1>2. CASE ControlPlane
  BY <1>2 DEF ControlPlane
<1>3. ASSUME NEW target \in Pages, NEW key, LoadLink(target, key) PROVE UNCHANGED apiVars
  BY <1>3 DEF LoadLink, Load, apiVars
<1>4. CASE LoadRoot \/ Reload \/ Navigate \/ RoleLinksFail \/ DefaultGuestJoinRedirect
  BY <1>4 DEF LoadRoot, Reload, Load, Navigate, RoleLinksFail, DefaultGuestJoinRedirect,
     apiVars
<1>5. CASE ServeBootstrap \/ BootstrapSettles \/ BootstrapFails \/ Reconnect
  BY <1>5 DEF ServeBootstrap, BootstrapSettles, BootstrapFails, Reconnect, apiVars
<1> QED BY <1>1, <1>2, <1>3, <1>4, <1>5 DEF LinkNext, DocumentNext

\* The API that the session app's documents use is the API (App.tsx and query.ts
\* change nothing in api/sessions.ts but through its routes).
THEOREM LinksImplementApi == LinkSpec => ApiSpec
<1>1. LinkInit => ApiInit BY DEF LinkInit
<1>2. [LinkNext]_linkVars => [ApiNext]_apiVars
  BY LinkStepIsApiStep DEF linkVars, apiVars
<1> QED BY <1>1, <1>2, PTL DEF LinkSpec, ApiSpec

\* A record keeps its keys as long as the process runs.
KeysKept ==
  \A id \in Stored : id \in Stored' /\ store'[id].joinKeys = store[id].joinKeys

LEMMA ApiKeepsKeys ==
  ASSUME ApiInv, ApiNext \/ UNCHANGED apiVars, restarts' = restarts
  PROVE  KeysKept
<1>1. ASSUME NEW id \in SessionIds, NEW bound \in BOOLEAN, EnsureSession(id, bound)
      PROVE  KeysKept
  <2>1. store[id] = None /\ \A other \in SessionIds \ {id} : store'[other] = store[other]
    BY <1>1, MadeRecord DEF EnsureSession
  <2> QED BY <2>1 DEF KeysKept, Stored
<1>2. ASSUME NEW id \in SessionIds, NEW request \in Requests, Handle(id, request)
      PROVE  KeysKept
  <2>1. PICK new : new = Outcome(store[id].session, request) OBVIOUS
  <2>2. store[id] # None /\ store' = [store EXCEPT ![id] = [@ EXCEPT !.session = new]]
    BY <1>2, <2>1 DEF Handle
  <2>3. store[id] \in Records BY <2>2 DEF ApiInv, ApiTypeOK
  <2>4. store'[id].joinKeys = store[id].joinKeys
    BY <2>2, <2>3 DEF ApiInv, ApiTypeOK, Records
  <2>5. \A other \in SessionIds \ {id} : store'[other] = store[other]
    BY <2>2 DEF ApiInv, ApiTypeOK
  <2>6. request \in AnyRequests BY EditsArePatches DEF Requests, AnyRequests
  <2>7. id \in Stored' BY <1>2, <2>6, HandleKeepsOrder
  <2> QED BY <2>4, <2>5, <2>7 DEF KeysKept, Stored
<1>3. CASE Restart BY <1>3 DEF Restart, ApiInv, ApiTypeOK
<1>4. CASE UNCHANGED apiVars BY <1>4 DEF apiVars, KeysKept, Stored
<1> QED BY <1>1, <1>2, <1>3, <1>4, HandledRequest DEF ApiNext

\* The links of a record are links, and each of them names a stored session.
LEMMA RecordLinks ==
  ASSUME ApiInv, NEW id \in Stored
  PROVE  /\ LinksOf(store, id) \subseteq Links
         /\ \A role \in Roles : Link(id, role, store[id].joinKeys[role]) \in LinksOf(store, id)
<1>1. id \in SessionIds /\ store[id] \in Records BY DEF Stored, ApiInv, ApiTypeOK
<1>2. \A role \in Roles : store[id].joinKeys[role] \in JoinKeys BY <1>1 DEF Records
<1> QED BY <1>1, <1>2 DEF LinksOf, Link, Links

-----------------------------------------------------------------------------
\* The invariant of API and document.

\* The key in the URL is the one that is remembered: no page of the app drops it.
DocumentOK ==
  /\ page \in Pages \cup {Root}
  /\ urlKey \in JoinKeys \cup {None} /\ remembered = urlKey
  /\ query \in QueryStates
  /\ query # "absent" => page # Root /\ remembered # None
  /\ query \in {"accepted", "seatless", "data", "crashed"} => Shown \in issued
RoleLinksOK ==
  /\ roleLinks \in [state : {"absent", "sent", "accepted", "error"}, key : JoinKeys \cup {None}]
  /\ roleLinks.state # "absent" => page = Root
  /\ roleLinks.state = "accepted" => roleLinks.key \in JoinKeys
\* Every link of a record was handed out when it was made.
IssuedOK == issued \subseteq Links /\ \A id \in Stored : LinksOf(store, id) \subseteq issued
AdmittedOK ==
  admitted # None =>
    /\ admitted \in Links /\ page # Root /\ Shown = admitted
    /\ admitted.session \in Stored
    /\ admitted.key = store[admitted.session].joinKeys[admitted.role]
ClientOK == DocumentOK /\ RoleLinksOK /\ IssuedOK /\ AdmittedOK
LinksInv == ApiInv /\ ClientOK

LEMMA LinkPages == Root \notin Pages /\ \A target \in Pages : target # Root
  BY NoneIsNoValue DEF Root, Pages, Roles

LEMMA ShownLink ==
  ASSUME DocumentOK, query # "absent"
  PROVE  /\ page \in Pages /\ remembered \in JoinKeys /\ remembered # None
         /\ Shown = Link(page.session, page.role, remembered) /\ Shown \in Links
<1>1. /\ page \in Pages /\ page # Root /\ remembered # None /\ remembered \in JoinKeys
  BY DEF DocumentOK
<1>2. page.session \in SessionIds /\ page.role \in Roles BY <1>1 DEF Pages
<1>3. Shown = Link(page.session, page.role, remembered) BY <1>1 DEF Shown
<1> QED BY <1>1, <1>2, <1>3 DEF Link, Links

\* What the API does leaves a document alone but for the links it handed out.
LEMMA IssuedGrows ==
  ASSUME ClientOK, issued \subseteq issued', UNCHANGED appVars
  PROVE  DocumentOK' /\ RoleLinksOK'
BY DEF ClientOK, DocumentOK, RoleLinksOK, appVars, Shown

\* A document that loads asks for a link, or for nothing.
LEMMA LoadedLink ==
  ASSUME LinksInv, NEW target \in Pages, NEW key \in JoinKeys \cup {None}, Load(target, key)
  PROVE  DocumentOK' /\ RoleLinksOK' /\ IssuedOK'
<1>1. /\ page' = target /\ urlKey' = key /\ remembered' = key
      /\ query' = IF key = None THEN "absent" ELSE "sent"
      /\ roleLinks' = RoleLinks("absent", None)
      /\ UNCHANGED <<store, issued>>
  BY DEF Load, Asked
<1>2. DocumentOK' BY <1>1, LinkPages DEF DocumentOK, QueryStates
<1>3. RoleLinksOK' BY <1>1 DEF RoleLinksOK, RoleLinks
<1> QED BY <1>1, <1>2, <1>3 DEF LinksInv, ClientOK, IssuedOK, Stored

LEMMA ControlPlaneStep ==
  ASSUME LinksInv, ControlPlane, ApiInv'
  PROVE  ClientOK'
<1>1. /\ ApiNext /\ UNCHANGED appVars
      /\ issued' = issued \cup UNION {LinksOf(store', id) : id \in Stored'}
      /\ admitted' = IF restarts' = restarts THEN admitted ELSE None
  BY DEF ControlPlane
<1>2. \A id \in Stored' : LinksOf(store', id) \subseteq Links
  <2>1. \A id \in Stored' : id \in SessionIds /\ store'[id] \in Records
    BY DEF Stored, ApiInv, ApiTypeOK
  <2>2. \A id \in Stored', role \in Roles : store'[id].joinKeys[role] \in JoinKeys
    BY <2>1 DEF Records
  <2> QED BY <2>1, <2>2 DEF LinksOf, Links, Link
<1>3. IssuedOK' BY <1>1, <1>2 DEF LinksInv, ClientOK, IssuedOK, LinksOf
<1>4. DocumentOK' /\ RoleLinksOK' BY <1>1, IssuedGrows DEF LinksInv
<1>5. AdmittedOK'
  <2>1. CASE restarts' = restarts
    <3>1. KeysKept BY <1>1, <2>1, ApiKeepsKeys DEF LinksInv
    <3>2. page' = page /\ Shown' = Shown /\ admitted' = admitted
      BY <1>1, <2>1 DEF appVars, Shown
    <3> QED BY <3>1, <3>2 DEF LinksInv, ClientOK, AdmittedOK, KeysKept, Stored
  <2>2. CASE restarts' # restarts BY <1>1, <2>2 DEF AdmittedOK
  <2> QED BY <2>1, <2>2
<1> QED BY <1>3, <1>4, <1>5 DEF ClientOK

LEMMA ServeRoleLinksStep ==
  ASSUME LinksInv, ServeRoleLinks, ApiInv'
  PROVE  ClientOK'
<1> DEFINE key == store'[DefaultSessionId].joinKeys["guest"]
<1>1. /\ roleLinks.state = "sent" /\ roleLinks' = RoleLinks("accepted", key)
      /\ issued' = issued \cup LinksOf(store', DefaultSessionId)
      /\ UNCHANGED <<page, urlKey, remembered, query, admitted>>
  BY DEF ServeRoleLinks
<1>2. /\ store'[DefaultSessionId] # None /\ DefaultSessionId \in Stored'
      /\ \A id \in Stored' \ {DefaultSessionId} : id \in Stored /\ store'[id] = store[id]
  <2>1. ASSUME NEW bound \in BOOLEAN, EnsureSession(DefaultSessionId, bound)
        PROVE  /\ store'[DefaultSessionId] # None
               /\ \A id \in SessionIds \ {DefaultSessionId} : store'[id] = store[id]
    BY <2>1, MadeRecord, DefaultIsSession DEF LinksInv
  <2> QED BY <2>1, DefaultIsSession DEF ServeRoleLinks, Stored
<1>3. store'[DefaultSessionId] \in Records BY <1>2, DefaultIsSession DEF ApiInv, ApiTypeOK
<1>4. \A role \in Roles : store'[DefaultSessionId].joinKeys[role] \in JoinKeys
  BY <1>3 DEF Records
<1>5. LinksOf(store', DefaultSessionId) \subseteq Links
  BY <1>4, DefaultIsSession DEF LinksOf, Link, Links
<1>6. \A id \in Stored' : LinksOf(store', id) \subseteq issued'
  BY <1>1, <1>2 DEF LinksOf, LinksInv, ClientOK, IssuedOK
<1>7. IssuedOK' BY <1>1, <1>5, <1>6 DEF LinksInv, ClientOK, IssuedOK, LinksOf
<1>8. RoleLinksOK' BY <1>1, <1>4 DEF LinksInv, ClientOK, RoleLinksOK, RoleLinks, Roles
<1>9. DocumentOK' BY <1>1 DEF LinksInv, ClientOK, DocumentOK, Shown
<1>10. admitted = None BY <1>1 DEF LinksInv, ClientOK, AdmittedOK, RoleLinksOK
<1> QED BY <1>1, <1>7, <1>8, <1>9, <1>10 DEF ClientOK, AdmittedOK

LEMMA NavigateStep ==
  ASSUME LinksInv, Navigate
  PROVE  ClientOK'
<1>1. /\ query = "data" /\ page' = [page EXCEPT !.room = ~@]
      /\ remembered' = RememberedJoinKey(remembered, urlKey)
      /\ UNCHANGED <<store, restarts, issued, urlKey, query, roleLinks, admitted>>
  BY DEF Navigate, Open
<1>2. page \in Pages /\ remembered = urlKey /\ Shown = Link(page.session, page.role, remembered)
  BY <1>1, ShownLink DEF LinksInv, ClientOK, DocumentOK
<1>3. page' \in Pages /\ page'.session = page.session /\ page'.role = page.role
  BY <1>1, <1>2 DEF Pages
<1>4. page # Root /\ page' # Root BY <1>2, <1>3, LinkPages
<1>5. remembered' = remembered BY <1>1, <1>2 DEF RememberedJoinKey
<1>6. Shown' = Shown BY <1>3, <1>4, <1>5 DEF Shown
<1>7. DocumentOK' BY <1>1, <1>3, <1>4, <1>5, <1>6 DEF LinksInv, ClientOK, DocumentOK
<1>8. RoleLinksOK' BY <1>1, <1>4 DEF LinksInv, ClientOK, RoleLinksOK
<1>9. IssuedOK' BY <1>1 DEF LinksInv, ClientOK, IssuedOK, Stored
<1>10. AdmittedOK' BY <1>1, <1>4, <1>6 DEF LinksInv, ClientOK, AdmittedOK, Stored
<1> QED BY <1>7, <1>8, <1>9, <1>10 DEF ClientOK

LEMMA RedirectStep ==
  ASSUME LinksInv, DefaultGuestJoinRedirect
  PROVE  ClientOK'
<1>1. roleLinks.key \in JoinKeys /\ roleLinks.key # None /\ page = Root
  BY NoneIsNoJoinKey DEF DefaultGuestJoinRedirect, LinksInv, ClientOK, RoleLinksOK
<1>2. /\ page' = [session |-> DefaultSessionId, role |-> "guest", room |-> FALSE]
      /\ urlKey' = roleLinks.key /\ remembered' = roleLinks.key /\ query' = "sent"
      /\ roleLinks' = RoleLinks("absent", None)
      /\ UNCHANGED <<store, issued, admitted>>
  BY <1>1 DEF DefaultGuestJoinRedirect, RememberedJoinKey, Asked
<1>3. page' \in Pages BY <1>2, DefaultIsSession DEF Pages, Roles
<1>4. DocumentOK' BY <1>1, <1>2, <1>3, LinkPages DEF DocumentOK, QueryStates
<1>5. RoleLinksOK' BY <1>2 DEF RoleLinksOK, RoleLinks
<1>6. IssuedOK' BY <1>2 DEF LinksInv, ClientOK, IssuedOK, Stored
<1>7. AdmittedOK' BY <1>1, <1>2 DEF LinksInv, ClientOK, AdmittedOK
<1> QED BY <1>4, <1>5, <1>6, <1>7 DEF ClientOK

\* The route admits no link but one of a stored record.
LEMMA ServeBootstrapStep ==
  ASSUME LinksInv, ServeBootstrap
  PROVE  ClientOK'
<1>1. /\ query = "sent" /\ query' = BootstrapAnswer(Shown)
      /\ admitted' = IF Admits(Shown) THEN Shown ELSE admitted
      /\ UNCHANGED <<store, restarts, issued, page, urlKey, remembered, roleLinks>>
  BY DEF ServeBootstrap
<1>2. Shown' = Shown BY <1>1 DEF Shown
<1>3. /\ page \in Pages /\ remembered \in JoinKeys /\ Shown \in Links
      /\ Shown = Link(page.session, page.role, remembered)
  BY <1>1, ShownLink DEF LinksInv, ClientOK
<1>4. ASSUME Admits(Shown)
      PROVE  /\ Shown \in issued /\ Shown.session \in Stored
             /\ Shown.key = store[Shown.session].joinKeys[Shown.role]
  <2>1. Shown.session \in SessionIds /\ Shown.role \in Roles /\ Shown.key \in JoinKeys
        /\ Shown = Link(Shown.session, Shown.role, Shown.key)
    BY <1>3 DEF Links, Link
  <2>2. /\ Shown.session \in Stored
        /\ Shown.key = store[Shown.session].joinKeys[Shown.role]
    BY <1>4, <2>1 DEF Admits, Joinable, HasStoredJoinKey, Stored
  <2>3. Shown \in LinksOf(store, Shown.session)
    BY <2>1, <2>2, RecordLinks DEF LinksInv
  <2> QED BY <2>2, <2>3 DEF LinksInv, ClientOK, IssuedOK
<1>5. /\ query' \in {"refused", "accepted", "seatless"}
      /\ query' # "refused" => Admits(Shown)
  BY <1>1 DEF BootstrapAnswer
<1>6. DocumentOK'
  BY <1>1, <1>2, <1>4, <1>5 DEF LinksInv, ClientOK, DocumentOK, QueryStates
<1>7. RoleLinksOK' /\ IssuedOK' BY <1>1 DEF LinksInv, ClientOK, RoleLinksOK, IssuedOK, Stored
<1>8. AdmittedOK'
  BY <1>1, <1>2, <1>3, <1>4, LinkPages DEF LinksInv, ClientOK, AdmittedOK, Stored
<1> QED BY <1>6, <1>7, <1>8 DEF ClientOK

LEMMA LinkStep ==
  ASSUME LinksInv, LinkNext, ApiInv'
  PROVE  ClientOK'
<1>1. CASE ControlPlane BY <1>1, ControlPlaneStep
<1>2. CASE LoadRoot
  BY <1>2 DEF LoadRoot, LinksInv, ClientOK, DocumentOK, RoleLinksOK, RoleLinks, IssuedOK,
     AdmittedOK, Stored, QueryStates
<1>3. ASSUME NEW target \in Pages, NEW key \in IssuedKeys \cup {None}, LoadLink(target, key)
      PROVE  ClientOK'
  <2>1. key \in JoinKeys \cup {None}
    BY DEF IssuedKeys, Links, LinksInv, ClientOK, IssuedOK
  <2> QED BY <1>3, <2>1, LoadedLink DEF LoadLink, ClientOK, AdmittedOK
<1>4. CASE Reload
  <2>1. page \in Pages /\ page # Root /\ urlKey \in JoinKeys \cup {None} /\ remembered = urlKey
    BY <1>4 DEF Reload, LinksInv, ClientOK, DocumentOK
  <2>2. /\ Load(page, urlKey) /\ page' = page /\ remembered' = remembered
        /\ UNCHANGED <<store, admitted>>
    BY <1>4, <2>1 DEF Reload, Load
  <2>3. AdmittedOK'
    BY <2>1, <2>2 DEF Shown, LinksInv, ClientOK, AdmittedOK, Stored
  <2> QED BY <2>1, <2>2, <2>3, LoadedLink DEF ClientOK
<1>5. CASE Navigate BY <1>5, NavigateStep
<1>6. CASE ServeRoleLinks BY <1>6, ServeRoleLinksStep
<1>7. CASE RoleLinksFail
  BY <1>7 DEF RoleLinksFail, LinksInv, ClientOK, DocumentOK, RoleLinksOK, RoleLinks, IssuedOK,
     AdmittedOK, Stored, Shown
<1>8. CASE DefaultGuestJoinRedirect BY <1>8, RedirectStep
<1>9. CASE ServeBootstrap BY <1>9, ServeBootstrapStep
<1>10. CASE BootstrapSettles \/ BootstrapFails
  BY <1>10 DEF BootstrapSettles, BootstrapFails, LinksInv, ClientOK, DocumentOK, RoleLinksOK,
     IssuedOK, AdmittedOK, Stored, Shown, QueryStates
<1>11. CASE Reconnect
  BY <1>11 DEF Reconnect, LinksInv, ClientOK, DocumentOK, RoleLinksOK, RoleLinks, IssuedOK,
     AdmittedOK, Stored, Shown, QueryStates
<1> QED BY <1>1, <1>2, <1>3, <1>4, <1>5, <1>6, <1>7, <1>8, <1>9, <1>10, <1>11 DEF LinkNext, DocumentNext

-----------------------------------------------------------------------------
\* What holds of every document.

LEMMA LinksInvariant == LinkSpec => []LinksInv
<1>1. LinkInit => LinksInv
  <2> SUFFICES ASSUME LinkInit PROVE LinksInv
    OBVIOUS
  <2>1. ApiInv
    BY MaxRestartsIsNat DEF LinkInit, ApiInit, ApiInv, ApiTypeOK, RecordsInOrder, Stored
  <2>2. Stored = {} BY DEF LinkInit, ApiInit, Stored
  <2>3. ClientOK
    BY <2>2 DEF LinkInit, ClientOK, DocumentOK, RoleLinksOK, RoleLinks, IssuedOK, AdmittedOK,
       QueryStates
  <2> QED BY <2>1, <2>3 DEF LinksInv
<1>2. LinksInv /\ LinkNext => LinksInv'
  <2> SUFFICES ASSUME LinksInv, LinkNext PROVE LinksInv'
    OBVIOUS
  <2>1. ApiInv'
    <3>1. CASE ApiNext BY <3>1, ApiStep DEF LinksInv
    <3>2. CASE UNCHANGED apiVars
      BY <3>2 DEF LinksInv, ApiInv, ApiTypeOK, RecordsInOrder, Stored, apiVars
    <3> QED BY <3>1, <3>2, LinkStepIsApiStep
  <2> QED BY <2>1, LinkStep DEF LinksInv
<1>3. LinksInv /\ UNCHANGED linkVars => LinksInv'
  BY DEF LinksInv, ApiInv, ApiTypeOK, RecordsInOrder, Stored, ClientOK, DocumentOK, RoleLinksOK,
     IssuedOK, AdmittedOK, Shown, LinksOf, linkVars
<1> QED BY <1>1, <1>2, <1>3, PTL DEF LinkSpec

\* Every variable holds a value of its kind (App.tsx, query.ts, api/sessions.ts).
THEOREM LinkTypeCorrect == LinkSpec => []LinkTypeOK
<1>1. LinksInv => LinkTypeOK
  BY ShownLink DEF LinksInv, ClientOK, ApiInv, DocumentOK, RoleLinksOK, IssuedOK, AdmittedOK,
     LinkTypeOK
<1> QED BY <1>1, LinksInvariant, PTL

\* No page opens for a session, role and key that were not handed out together:
\* the bootstrap route compares the key with that of the record and the role
\* (hasStoredJoinKey in api/sessions.ts), whose links each answer gives out.
THEOREM AlwaysOpenOnlyAsIssued == LinkSpec => []OpenOnlyAsIssued
<1>1. LinksInv => OpenOnlyAsIssued
  BY DEF LinksInv, ClientOK, DocumentOK, OpenOnlyAsIssued, Open
<1> QED BY <1>1, LinksInvariant, PTL

\* Whom the API has let in it lets in again: every page carries the link's key on,
\* and a record keeps its keys while the process runs (JoinPage.tsx, RoomPage.tsx,
\* useRememberedJoinKey in App.tsx, api/sessions.ts).
THEOREM LinkAlwaysOpensAgain == LinkSpec => []OpensAgain
<1>1. LinksInv => OpensAgain
  <2> SUFFICES ASSUME LinksInv, admitted # None
               PROVE  /\ Shown = admitted /\ urlKey = admitted.key
                      /\ Joinable(admitted.session) => Admits(admitted)
    BY DEF OpensAgain
  <2>1. /\ Shown = admitted /\ admitted \in Links
        /\ admitted.key = store[admitted.session].joinKeys[admitted.role]
    BY DEF LinksInv, ClientOK, AdmittedOK
  <2>2. Shown = None \/ Shown = Link(page.session, page.role, remembered) BY DEF Shown
  <2>3. urlKey = admitted.key BY <2>1, <2>2 DEF Link, LinksInv, ClientOK, DocumentOK
  <2> QED BY <2>1, <2>3 DEF Admits, HasStoredJoinKey
<1> QED BY <1>1, LinksInvariant, PTL
=============================================================================
