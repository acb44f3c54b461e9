----------------------------- MODULE SeatOwnership -----------------------------
(***************************************************************************)
(* What the seat claims of one session promise: a seat is owned by the     *)
(* first browser it is granted to, for good, and nobody else ever acts for *)
(* it.  Cookies, secrets, requests and answers are not part of the         *)
(* promise; SeatClaims implements it.                                      *)
(***************************************************************************)
CONSTANTS Browsers, Seats, None

VARIABLES
  owner,  \* by seat: the browser that owns it, or None
  acted   \* which browsers have acted for which seats

vars == <<owner, acted>>

Init == owner = [seat \in Seats |-> None] /\ acted = {}

Grant(browser, seat) ==
  /\ owner[seat] = None
  /\ owner' = [owner EXCEPT ![seat] = browser]
  /\ UNCHANGED acted

Act(browser, seat) ==
  /\ owner[seat] = browser
  /\ acted' = acted \cup {<<browser, seat>>}
  /\ UNCHANGED owner

Next == \E browser \in Browsers, seat \in Seats : Grant(browser, seat) \/ Act(browser, seat)

Spec == Init /\ [][Next]_vars
=============================================================================
