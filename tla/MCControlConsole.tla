--------------------------- MODULE MCControlConsole ---------------------------
(***************************************************************************)
(* A small instance of ControlConsole for TLC: the console is opened on a  *)
(* session in any state of its run, the first time included.               *)
(***************************************************************************)
EXTENDS ControlConsole

CONSTANTS amber, original, typed, pass

\* No more than numbers 4 and 5 are given in the instance's clicks and faults.
MCSeatNumbers == 1..5
MCTexts == {original, typed}
MCBootstrapRoles == [n \in MCSeatNumbers |->
  CASE n = 1 -> "host" [] n = 2 -> "guest" [] OTHER -> None]

\* What another console does: it opens the run, ends it, or drops a seat.
MCSessionEdits == {[EmptySessionPatch EXCEPT !.status = status] : status \in {"active", "ended"}}
MCSeatEdits == {[EmptySeatPatch EXCEPT !.joined = FALSE]}

Fresh(bound) ==
  [joinKeys |-> [role \in Roles |->
                   IF bound THEN pass ELSE [session |-> amber, role |-> role, process |-> 0]],
   bound |-> bound,
   session |-> NormalizeControlSession(
                 IF bound THEN CreateBootstrapBoundSession ELSE CreateInitialSession)]

Patched(record, patch) ==
  [record EXCEPT !.session = NormalizeControlSession(SpreadSession(@, patch))]
InStatus(record, status) == Patched(record, [EmptySessionPatch EXCEPT !.status = status])
InPhase(record, phase) == Patched(record, [EmptySessionPatch EXCEPT !.recordingPhase = phase])

Activated == InStatus(Fresh(FALSE), "active")
Recording == InPhase(Activated, "recording")
Draining == InPhase(Recording, "draining")
Stopped == InPhase(Draining, "stopped")
Failed == InPhase(Recording, "failed")
Ended == InStatus(Stopped, "ended")

MCEarlier == {None, Fresh(FALSE), Fresh(TRUE), InStatus(Fresh(FALSE), "draft"),
              Activated, Recording, Draining, Stopped, Failed, Ended}

\* The console of the test that toggles the microphone: in the room of an active run.
MCActive == {Activated}

\* One session of the bootstrap configuration, whose roster may not be edited.
MCBound == {Fresh(TRUE)}
=============================================================================
