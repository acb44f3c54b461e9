----------------------------- MODULE SessionLinks -----------------------------
(***************************************************************************)
(* How the session app opens a role link (web/session/src/app/App.tsx and  *)
(* lib/query.ts) against the bootstrap route of the control API.           *)
(*                                                                         *)
(* One document of one browser.  Loading a page starts the document over;  *)
(* inside it the app moves between the join page and the room and carries  *)
(* the search part of the URL, with the join key, from one to the other.   *)
(* So a document asks for one link only, and what it was answered it keeps *)
(* as long as it is shown.                                                 *)
(***************************************************************************)
EXTENDS ControlApi

CONSTANT DefaultSessionId   \* the session that "/" redirects to

ASSUME DefaultIsSession == DefaultSessionId \in SessionIds

VARIABLES
  page,         \* what the URL names: "root", or a link's session and role
  urlKey,       \* the join key in the URL, or None
  remembered,   \* the ref of useRememberedJoinKey
  query,        \* the bootstrap query of the document
  roleLinks,    \* the role-links query of "/" and the guest key in its answer
  issued,       \* history: the links that were ever handed out
  admitted      \* history: the link that the API, since it was started, has admitted
                \*   the document to, over every time this link was loaded again

appVars == <<page, urlKey, remembered, query, roleLinks>>
linkVars == <<store, restarts, page, urlKey, remembered, query, roleLinks, issued, admitted>>

Pages == [session : SessionIds, role : Roles, room : BOOLEAN]
Root == [session |-> DefaultSessionId, role |-> None, room |-> FALSE]

Links == [session : SessionIds, role : Roles, key : JoinKeys]
Link(session, role, key) == [session |-> session, role |-> role, key |-> key]
LinksOf(records, id) == {Link(id, role, records[id].joinKeys[role]) : role \in Roles}

-----------------------------------------------------------------------------
\* The bootstrap route.

JoinableSessionStatuses == {"ready", "active"}

\* Mutant: the key of either role opens the link.
AnyStoredJoinKey(id, role, key) == \E r \in Roles : key = store[id].joinKeys[r]
HasStoredJoinKey(id, role, key) == key = store[id].joinKeys[role]

Joinable(id) ==
  store[id] # None /\ store[id].session.status \in JoinableSessionStatuses
Admits(link) ==
  Joinable(link.session) /\ HasStoredJoinKey(link.session, link.role, link.key)

\* The answer lists the seats, which need not have one of the link's role.
HasSeatOfRole(session, role) == \E n \in Roster(session) : session.seats[n].role = role
BootstrapAnswer(link) ==
  CASE ~Admits(link) -> "refused"
    [] Admits(link) /\ HasSeatOfRole(store[link.session].session, link.role) -> "accepted"
    [] OTHER -> "seatless"

-----------------------------------------------------------------------------
\* The app.

RememberedJoinKey(known, key) == IF key # None THEN key ELSE known

\* The link that the page validates or shows, if it has the key for one.
Shown == IF page = Root \/ remembered = None THEN None
         ELSE Link(page.session, page.role, remembered)

Open == query = "data"

\* Mutant: only the join page asks, so a room that is loaded never does.
AskedByJoinPage(target, key) == IF key = None \/ target.room THEN "absent" ELSE "sent"
\* Both pages are inside the component that asks, as soon as it has a key.
Asked(target, key) == IF key = None THEN "absent" ELSE "sent"

RoleLinks(state, key) == [state |-> state, key |-> key]

LinkInit ==
  /\ ApiInit
  /\ page = Root
  /\ urlKey = None
  /\ remembered = None
  /\ query = "absent"
  /\ roleLinks = RoleLinks("sent", None)
  /\ issued = {}
  /\ admitted = None

\* Loading a page forgets the key, the cache and what was under way.
LoadRoot ==
  /\ page' = Root
  /\ urlKey' = None
  /\ remembered' = None
  /\ query' = "absent"
  /\ roleLinks' = RoleLinks("sent", None)
  /\ admitted' = None
  /\ UNCHANGED <<store, restarts, issued>>

Load(target, key) ==
  /\ page' = target
  /\ urlKey' = key
  /\ remembered' = key
  /\ query' = Asked(target, key)
  /\ roleLinks' = RoleLinks("absent", None)
  /\ UNCHANGED <<store, restarts, issued>>

LoadLink(target, key) == Load(target, key) /\ admitted' = None
Reload == page # Root /\ Load(page, urlKey) /\ UNCHANGED admitted

\* Mutant: the other page's URL is built without the search part.
NavigateBare ==
  /\ Open
  /\ page' = [page EXCEPT !.room = ~@]
  /\ urlKey' = None
  /\ remembered' = RememberedJoinKey(remembered, None)
  /\ UNCHANGED <<store, restarts, issued, query, roleLinks, admitted>>

\* From the join page to the room and back, with the search part of the URL.
Navigate ==
  /\ Open
  /\ page' = [page EXCEPT !.room = ~@]
  /\ remembered' = RememberedJoinKey(remembered, urlKey)
  /\ UNCHANGED <<store, restarts, issued, urlKey, query, roleLinks, admitted>>

\* The PUT of the role-links query: it makes the session when there is none.
ServeRoleLinks ==
  /\ roleLinks.state = "sent"
  /\ \/ \E bound \in BOOLEAN : EnsureSession(DefaultSessionId, bound)
     \/ store[DefaultSessionId] # None /\ UNCHANGED <<store, restarts>>
  /\ roleLinks' = RoleLinks("accepted", store'[DefaultSessionId].joinKeys["guest"])
  /\ issued' = issued \cup LinksOf(store', DefaultSessionId)
  /\ UNCHANGED <<page, urlKey, remembered, query, admitted>>

\* Its answer leads to the guest link.
DefaultGuestJoinRedirect ==
  /\ roleLinks.state = "accepted"
  /\ page' = [session |-> DefaultSessionId, role |-> "guest", room |-> FALSE]
  /\ urlKey' = roleLinks.key
  /\ remembered' = RememberedJoinKey(remembered, roleLinks.key)
  /\ query' = Asked(page', roleLinks.key)
  /\ roleLinks' = RoleLinks("absent", None)
  /\ UNCHANGED <<store, restarts, issued, admitted>>

ServeBootstrap ==
  /\ query = "sent"
  /\ query' = BootstrapAnswer(Shown)
  /\ admitted' = IF Admits(Shown) THEN Shown ELSE admitted
  /\ UNCHANGED <<store, restarts, issued, page, urlKey, remembered, roleLinks>>

\* Without a seat of its role the app throws while it is built, and is gone.
BootstrapSettles ==
  /\ \/ query = "accepted" /\ query' = "data"
     \/ query = "seatless" /\ query' = "crashed"
     \/ query = "refused" /\ query' = "error"
  /\ UNCHANGED <<store, restarts, issued, page, urlKey, remembered, roleLinks, admitted>>

\* A request or an answer that is lost ends in an error, like a refusal.
BootstrapFails ==
  /\ query \in {"sent", "accepted", "seatless", "refused"}
  /\ query' = "error"
  /\ UNCHANGED <<store, restarts, issued, page, urlKey, remembered, roleLinks, admitted>>

RoleLinksFail ==
  /\ roleLinks.state \in {"sent", "accepted"}
  /\ roleLinks' = RoleLinks("error", None)
  /\ UNCHANGED <<store, restarts, issued, page, urlKey, remembered, query, admitted>>

\* The network is back: a query that has no data yet is sent again.
Reconnect ==
  /\ \/ query = "error" /\ query' = "sent" /\ UNCHANGED roleLinks
     \/ roleLinks.state = "error" /\ roleLinks' = RoleLinks("sent", None) /\ UNCHANGED query
  /\ UNCHANGED <<store, restarts, issued, page, urlKey, remembered, admitted>>

\* The API at work for everybody else; a session's answers hand its links out.
ControlPlane ==
  /\ ApiNext
  /\ issued' = issued \cup UNION {LinksOf(store', id) : id \in Stored'}
  /\ admitted' = IF restarts' = restarts THEN admitted ELSE None
  /\ UNCHANGED appVars

\* A key that was handed out may be put into any link.
IssuedKeys == {link.key : link \in issued}

\* What does not change the API.
DocumentNext ==
  \/ LoadRoot
  \/ \E target \in Pages, key \in IssuedKeys \cup {None} : LoadLink(target, key)
  \/ Reload
  \/ Navigate
  \/ RoleLinksFail
  \/ DefaultGuestJoinRedirect
  \/ ServeBootstrap \/ BootstrapSettles \/ BootstrapFails
  \/ Reconnect

LinkNext == ControlPlane \/ ServeRoleLinks \/ DocumentNext

\* The API handles what arrives, and the browser's event loop delivers answers.
LinkFairness ==
  /\ WF_linkVars(ServeRoleLinks \/ RoleLinksFail)
  /\ WF_linkVars(DefaultGuestJoinRedirect)
  /\ WF_linkVars(ServeBootstrap \/ BootstrapFails)
  /\ WF_linkVars(BootstrapSettles \/ BootstrapFails)

LinkSpec == LinkInit /\ [][LinkNext]_linkVars /\ LinkFairness

-----------------------------------------------------------------------------
QueryStates == {"absent", "sent", "accepted", "seatless", "refused", "data", "crashed", "error"}

\* Every variable holds a value of its kind, and the document asks only for a
\* link it has the key of.
LinkTypeOK ==
  /\ ApiTypeOK
  /\ page \in Pages \cup {Root}
  /\ urlKey \in JoinKeys \cup {None}
  /\ remembered \in JoinKeys \cup {None}
  /\ query \in QueryStates
  /\ query # "absent" => Shown \in Links
  /\ roleLinks \in [state : {"absent", "sent", "accepted", "error"}, key : JoinKeys \cup {None}]
  /\ issued \subseteq Links
  /\ admitted \in Links \cup {None}

\* A page opens only for a session, role and key that the API handed out together:
\* not for the key of the other role, of another session or of another pair that the
\* configuration gave, whatever keys are tried on whatever pages.
OpenOnlyAsIssued == Open => Shown \in issued

\* Whom the API has let in may load the page again, however often it was loaded and
\* wherever the app has led since: on the join page and in the room the URL is still
\* the link, and the API admits it whenever the session may be joined, also after
\* that was a draft again, until the API is started again.
OpensAgain ==
  admitted # None =>
    /\ Shown = admitted /\ urlKey = admitted.key
    /\ Joinable(admitted.session) => Admits(admitted)

\* A page does not stay at "Validating role link": it opens or says that the link
\* is not valid, unless it is loaded again, and however often the network is back.
Loading ==
  LoadRoot \/ Reload \/ \E target \in Pages, key \in IssuedKeys \cup {None} : LoadLink(target, key)
Undecided == Shown # None /\ query \notin {"data", "crashed", "error"}
LinkIsDecided == <>[][~Loading]_linkVars => (Undecided ~> ~Undecided)

\* createBootstrapSeats in session-fixtures.ts: "Session shell requires at least
\* one seat for the active role."
AdmittedLinkHasSeat == query # "crashed"
=============================================================================
