---------------------------- MODULE MCSeatClaims ----------------------------
(***************************************************************************)
(* Small instances of SeatClaims for TLC; the .cfg files give the sizes.   *)
(* A host and a guest link; some browsers were given both.                 *)
(***************************************************************************)
EXTENDS SeatClaims, TLC

CONSTANTS hostKey, guestKey, HostBrowsers

MCKeys == {hostKey, guestKey}
MCKeyOf == [role \in {"host", "guest"} |-> IF role = "host" THEN hostKey ELSE guestKey]
MCKeyring == [browser \in Browsers |->
  IF browser \in HostBrowsers THEN MCKeys ELSE {guestKey}]

\* Fresh secrets are interchangeable.
MCSymmetry == Permutations(Secrets)
=============================================================================
