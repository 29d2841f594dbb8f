--------------------------- MODULE MCLaunchResult ---------------------------
(* Instances of LaunchResult for TLC, and what the comments of the code say. *)
EXTENDS LaunchResult, TLC

Symmetry == Permutations(Guests)

NoFaults == {}
AllFaults == FaultKinds

\* "timeout: ถ้าไม่ fresh ก็ทิ้ง": what was read last is discarded at a timeout
\* unless it is fresh, and all the more if it is of another package's session
\* (launchResultAwait 308, 315).
StaleDiscarded ==
  how = "late" /\ answer # NoRecord =>
    answer.ts = opened \/ answer.guest = guest[opened]

\* An early answer is always one record: with two writers at once it is not.
NeverMixed == how = "early" => answer \in written

\* The same of a success.
NeverAnothersSuccess ==
  how = "early" /\ answer.verdict = "launched" =>
    [guest |-> guest[opened], ts |-> opened] \in loads

\* "UI บอก hop ที่ตายจริง": a failure that the UI is told of is where the launch
\* died, so it does not go on (ProxyActivity 137).
FailureIsFinal ==
  how = "early" /\ answer.verdict = "failed" =>
    \E l \in Launches : guest[l] = guest[opened] /\ step[l] = "ended"
=============================================================================
