----------------------------- MODULE RecordingRun -----------------------------
(***************************************************************************)
(* What the session server promises about one recording run, whatever      *)
(* fails in between: it is a write-once store of chunks, a take per track, *)
(* that is opened while the session records, declares its length once, is  *)
(* complete exactly when it has every chunk below that length, and never   *)
(* changes afterwards; the session stops when no take is open any more.    *)
(* Files, manifests, handlers, crashes and clients are not part of the     *)
(* promise; RecordingStore implements it.                                  *)
(***************************************************************************)
EXTENDS Naturals

CONSTANTS TrackIds, Contents, MaxIndex, None

Indices == 0 .. MaxIndex
Counts == 0 .. MaxIndex + 1

VARIABLES
  phase,     \* waiting, recording, draining, stopped
  take,      \* by track: none, open or complete
  expected,  \* by track: its declared length
  kept       \* by track and index: the chunk, once it is stored

vars == <<phase, take, expected, kept>>

Full(t, n) == \A i \in Indices : kept[t][i] # None <=> i < n

Init ==
  /\ phase = "waiting"
  /\ take = [t \in TrackIds |-> "none"]
  /\ expected = [t \in TrackIds |-> None]
  /\ kept = [t \in TrackIds |-> [i \in Indices |-> None]]

Start ==
  /\ phase = "waiting"
  /\ phase' = "recording"
  /\ UNCHANGED <<take, expected, kept>>

Stop ==
  /\ phase = "recording"
  /\ phase' = "draining"
  /\ UNCHANGED <<take, expected, kept>>

Drained ==
  /\ phase = "draining"
  /\ \A t \in TrackIds : take[t] # "open"
  /\ phase' = "stopped"
  /\ UNCHANGED <<take, expected, kept>>

OpenTake(t) ==
  /\ phase = "recording"
  /\ take[t] = "none"
  /\ take' = [take EXCEPT ![t] = "open"]
  /\ UNCHANGED <<phase, expected, kept>>

Keep(t, i, content) ==
  /\ phase \in {"recording", "draining"}
  /\ take[t] = "open"
  /\ kept[t][i] = None
  /\ expected[t] # None => i < expected[t]
  /\ kept' = [kept EXCEPT ![t][i] = content]
  /\ UNCHANGED <<phase, take, expected>>

\* A length no stored chunk exceeds; a take that is full already is complete.
Declare(t, n) ==
  /\ phase \in {"recording", "draining"}
  /\ take[t] = "open"
  /\ expected[t] = None
  /\ \A i \in Indices : kept[t][i] # None => i < n
  /\ expected' = [expected EXCEPT ![t] = n]
  /\ take' = [take EXCEPT ![t] = IF Full(t, n) THEN "complete" ELSE "open"]
  /\ UNCHANGED <<phase, kept>>

Complete(t) ==
  /\ phase \in {"recording", "draining"}
  /\ take[t] = "open"
  /\ expected[t] # None
  /\ Full(t, expected[t])
  /\ take' = [take EXCEPT ![t] = "complete"]
  /\ UNCHANGED <<phase, expected, kept>>

Next ==
  \/ Start \/ Stop \/ Drained
  \/ \E t \in TrackIds :
       \/ OpenTake(t) \/ Complete(t)
       \/ \E n \in Counts : Declare(t, n)
       \/ \E i \in Indices, content \in Contents : Keep(t, i, content)

Spec == Init /\ [][Next]_vars
=============================================================================
