----------------------------- MODULE ProcessApp -----------------------------
(***************************************************************************)
(* What a guest process promises of the Application the framework sees,    *)
(* without activities, callbacks or a bridge: there is one runtime at a    *)
(* time; a load hands the process over from the last runtime to its guest  *)
(* at once, a guest is never loaded twice, and closing gives the host back *)
(* only where the closed guest is the one the framework sees.              *)
(***************************************************************************)
CONSTANTS
  Launches, Host,
  Writable    \* can the fields of the ActivityThread be written?

VARIABLES
  app,        \* the process's application, a launch or Host
  running,    \* launches whose runtime is active
  legacy,     \* launches that v1 has bound, which nothing can unbind
  closed      \* launches whose runtime was closed

vars == <<app, running, legacy, closed>>

TypeOK ==
  /\ app \in Launches \cup {Host}
  /\ running \in SUBSET Launches
  /\ legacy \in SUBSET Launches
  /\ closed \in SUBSET Launches

Init == app = Host /\ running = {} /\ legacy = {} /\ closed = {}

Fresh(l) == l \notin running \cup legacy \cup closed

BoundTo(l) == IF Writable THEN l ELSE app

Load(l) ==
  /\ Fresh(l)
  /\ app' = BoundTo(l)
  /\ running' = {l}
  /\ closed' = closed \cup running
  /\ UNCHANGED legacy

\* The runtime, if there is one, goes on beside the v1 guest.
LoadLegacy(l) ==
  /\ Fresh(l)
  /\ app' = BoundTo(l)
  /\ legacy' = legacy \cup {l}
  /\ UNCHANGED <<running, closed>>

Close ==
  /\ app' = IF app \in running THEN Host ELSE app
  /\ running' = {}
  /\ closed' = closed \cup running
  /\ UNCHANGED legacy

Restart == app' = Host /\ running' = {} /\ legacy' = {} /\ closed' = {}

Next == (\E l \in Launches : Load(l) \/ LoadLegacy(l)) \/ Close \/ Restart

Spec == Init /\ [][Next]_vars
=============================================================================
