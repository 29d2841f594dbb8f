--------------------------- MODULE MCGuestSession ---------------------------
(* Instances of GuestSession for TLC, and what the comments of the code say. *)
EXTENDS GuestSession

\* hiddenApi would have no load bind anything: it has an instance of its own.
AllFaults == FaultKinds \ {"hiddenApi"}
HiddenApi == {"hiddenApi"}
NoFaults == {}
BuildFaults == {"buildFails"}

\* "close() ต้องถูกเรียกเมื่อ session จบ": when the last activity of the process is
\* gone, no guest runtime is left active (GuestRuntime 41, ProxyActivity 277-280).
SessionEndCloses ==
  (\A l \in Launches : act[l] \in {"waiting", "gone"}) =>
    \A l \in Launches : proc.rt[l] # "active"

\* "guest session จบจริง": the cleanup of onDestroy runs when the guest session is
\* over, so never under a guest on the screen (ProxyActivity 285-287).
CleanupAtSessionEnd ==
  [][active # Host /\ active' = Host => \A l \in Launches : act[l] # "guest"]_vars

\* "Returns true on success, false ถ้า reflection fail ทุกขั้น": a load that reports
\* success has made the guest the process's application
\* (bindToActivityThread 77, 94-101).
BindSucceeded ==
  [][\A l \in Launches : active # l /\ active' = l => proc'.initialApp = l]_vars
=============================================================================
