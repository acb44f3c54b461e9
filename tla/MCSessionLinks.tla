---------------------------- MODULE MCSessionLinks ----------------------------
(***************************************************************************)
(* A small instance of SessionLinks for TLC: a session whose status, phase,*)
(* seats and roles are edited in every order and which a restart takes     *)
(* away, or two sessions that are only closed, opened and activated, with  *)
(* the join keys drawn for them and a configured one that they may share.  *)
(***************************************************************************)
EXTENDS SessionLinks

CONSTANTS amber, blue, original

MCSeatNumbers == 1..4
MCTexts == {original}
MCBootstrapRoles == [n \in SeatNumbers |->
  CASE n = 1 -> "host" [] n \in {2, 3} -> "guest" [] OTHER -> None]

\* Every move of status and phase, together and alone.
MCSessionEdits ==
  {[EmptySessionPatch EXCEPT !.status = status, !.recordingPhase = phase] :
     status \in Statuses \cup {None}, phase \in Phases \cup {None}} \ {EmptySessionPatch}

MCSeatEdits == {[EmptySeatPatch EXCEPT !.role = role] : role \in Roles}

\* The bound on two sessions: when the second one was ever handed out, both are as
\* they are made but for their status, and the API was not started again.
OnlyOpened(id) ==
  store[id] # None =>
    [store[id].session EXCEPT !.status = "ready"] =
      CreateStoredSessionRecord(store[id].joinKeys, store[id].bound).session
MCBound ==
  (\E link \in issued : link.session = blue) =>
    restarts = 0 /\ \A id \in SessionIds : OnlyOpened(id)

\* The bound on the document: it opens pages of the second session only when that
\* session was ever handed out.
MCPageBound ==
  page # Root /\ page.session = blue => \E link \in issued : link.session = blue

MCNext ==
  \/ ControlPlane /\ MCBound'
  \/ ServeRoleLinks /\ MCBound'
  \/ DocumentNext /\ MCPageBound'
MCSpec == LinkInit /\ [][MCNext]_linkVars /\ LinkFairness
=============================================================================
