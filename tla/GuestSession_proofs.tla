------------------------- MODULE GuestSession_proofs -------------------------
(***************************************************************************)
(* Theorems about GuestSession, for any number of launches and guests and  *)
(* every set of faults.                                                    *)
(*                                                                         *)
(* The three invariants about the process are inductive together: a load   *)
(* binds the new guest before the previous one is closed, so that closing  *)
(* leaves the process application alone only because NoOrphanRuntime says  *)
(* that there is no other runtime left to be closed.                       *)
(***************************************************************************)
EXTENDS GuestSession, TLAPS

\* The part of IInv that is about the runtimes, of any process record and any
\* runtime that the bridge may hold.
Sound(p, a) ==
  /\ p \in [rt : [Launches -> RuntimeState],
            initialApp : Launches \cup {Host},
            allApps : SUBSET Launches]
  /\ a \in Launches \cup {Host}
  /\ p.initialApp # Host => p.rt[p.initialApp] \in {"active", "v1"}
  /\ \A l \in p.allApps : p.rt[l] # "destroyed"
  /\ \A l \in Launches : p.rt[l] = "active" => a = l

LEMMA IInvSound ==
  IInv <=> /\ act \in [Launches -> Phase]
           /\ pkg \in [Launches -> Guests \cup {NoGuest}]
           /\ config \in Guests \cup {NoGuest}
           /\ wrapper \in Launches \cup {Host}
           /\ Sound(proc, active)
  BY DEF IInv, TypeOK, ProcessAppAlive, NoDeadAppListed, NoOrphanRuntime, Sound

\* Closing the runtime that the bridge holds leaves none active.
LEMMA ClosedSound ==
  ASSUME NEW p, NEW a, Sound(p, a)
  PROVE  /\ Sound(Closed(p, a), Host)
         /\ \A l \in Launches : Closed(p, a).rt[l] # "active"
  <1>1. CASE a = Host
    BY <1>1, ConstantsAssumption DEF Closed, Sound
  <1>2. CASE a # Host /\ p.rt[a] = "destroyed"
    BY <1>2 DEF Closed, Sound
  <1>3. CASE a # Host /\ p.rt[a] # "destroyed"
    <2> DEFINE q == Closed(p, a)
    <2>1. /\ a \in Launches
          /\ q = [p EXCEPT !.rt[a] = "destroyed",
                           !.initialApp = IF @ = a THEN Host ELSE @,
                           !.allApps = @ \ {a}]
      BY <1>3 DEF Closed, Sound
    <2>2. /\ q.rt = [p.rt EXCEPT ![a] = "destroyed"]
          /\ q.initialApp = IF p.initialApp = a THEN Host ELSE p.initialApp
          /\ q.allApps = p.allApps \ {a}
      BY <2>1 DEF Sound
    <2>3. q \in [rt : [Launches -> RuntimeState],
                 initialApp : Launches \cup {Host},
                 allApps : SUBSET Launches]
      <3> HIDE DEF q
      <3>1. q = [rt |-> q.rt, initialApp |-> q.initialApp, allApps |-> q.allApps]
        BY <2>1 DEF Sound
      <3>2. q.rt \in [Launches -> RuntimeState]
        BY <2>1, <2>2 DEF Sound, RuntimeState
      <3>3. q.initialApp \in Launches \cup {Host}
        BY <2>2 DEF Sound
      <3>4. q.allApps \in SUBSET Launches
        BY <2>2 DEF Sound
      <3> QED
        BY <3>1, <3>2, <3>3, <3>4
    <2>4. \A l \in Launches : q.rt[l] = IF l = a THEN "destroyed" ELSE p.rt[l]
      BY <2>1, <2>2 DEF Sound
    <2> HIDE DEF q
    <2> QED
      BY <2>1, <2>2, <2>3, <2>4 DEF Sound, q
  <1> QED
    BY <1>1, <1>2, <1>3

\* Binding is sound where no other runtime is active.
LEMMA BoundSound ==
  ASSUME NEW p, NEW a, NEW l \in Launches, Sound(p, a),
         \A m \in Launches \ {l} : p.rt[m] # "active"
  PROVE  Sound(Bound(p, l), l) /\ Bound(p, l).rt[l] = "active"
  <1> DEFINE q == Bound(p, l)
  <1>1. /\ q.rt = [p.rt EXCEPT ![l] = "active"]
        /\ q.initialApp = l \/ q.initialApp = p.initialApp
        /\ q.allApps = p.allApps \cup {l} \/ q.allApps = p.allApps
        /\ q \in [rt : [Launches -> RuntimeState],
                  initialApp : Launches \cup {Host},
                  allApps : SUBSET Launches]
    BY DEF Bound, Sound, RuntimeState
  <1>2. \A m \in Launches : q.rt[m] = IF m = l THEN "active" ELSE p.rt[m]
    BY <1>1 DEF Sound
  <1> HIDE DEF q
  <1> QED
    BY <1>1, <1>2 DEF Sound, q

\* build binds the new guest while the previous one is active; once that one
\* is closed the second bind finds no other.
LEMMA LoadedV2Sound ==
  ASSUME NEW l \in Launches, Sound(proc, active)
  PROVE  Sound(LoadedV2(l), l)
  <1> DEFINE p == Bound(proc, l)
             q == Closed(p, active)
  <1>1. /\ p.rt = [proc.rt EXCEPT ![l] = "active"]
        /\ p.initialApp = l \/ p.initialApp = proc.initialApp
        /\ p.allApps = proc.allApps \cup {l} \/ p.allApps = proc.allApps
        /\ p \in [rt : [Launches -> RuntimeState],
                  initialApp : Launches \cup {Host},
                  allApps : SUBSET Launches]
    BY DEF Bound, Sound, RuntimeState
  <1>2. \A m \in Launches : p.rt[m] = IF m = l THEN "active" ELSE proc.rt[m]
    BY <1>1 DEF Sound
  <1>3. /\ p.initialApp # Host => p.rt[p.initialApp] \in {"active", "v1"}
        /\ \A m \in p.allApps : p.rt[m] # "destroyed"
        /\ \A m \in Launches \ {l} : p.rt[m] = "active" => active = m
    BY <1>1, <1>2 DEF Sound
  <1> HIDE DEF p
  <1>4. /\ \A m \in Launches \ {l} : q.rt[m] # "active"
        /\ Sound(q, l)
    <2>1. CASE active = Host
      BY <1>1, <1>3, <2>1, ConstantsAssumption DEF Closed, Sound
    <2>2. CASE active # Host /\ p.rt[active] = "destroyed"
      BY <1>1, <1>3, <2>2 DEF Closed, Sound
    <2>3. CASE active # Host /\ p.rt[active] # "destroyed"
      <3>1. /\ active \in Launches
            /\ q = [p EXCEPT !.rt[active] = "destroyed",
                             !.initialApp = IF @ = active THEN Host ELSE @,
                             !.allApps = @ \ {active}]
        BY <2>3 DEF Closed, Sound
      <3>2. /\ q.rt = [p.rt EXCEPT ![active] = "destroyed"]
            /\ q.initialApp = IF p.initialApp = active THEN Host ELSE p.initialApp
            /\ q.allApps = p.allApps \ {active}
        BY <1>1, <3>1
      <3>3. q \in [rt : [Launches -> RuntimeState],
                   initialApp : Launches \cup {Host},
                   allApps : SUBSET Launches]
        <4> HIDE DEF q
        <4>1. q = [rt |-> q.rt, initialApp |-> q.initialApp, allApps |-> q.allApps]
          BY <1>1, <3>1
        <4>2. q.rt \in [Launches -> RuntimeState]
          BY <1>1, <3>1, <3>2 DEF RuntimeState
        <4>3. q.initialApp \in Launches \cup {Host}
          BY <1>1, <3>2
        <4>4. q.allApps \in SUBSET Launches
          BY <1>1, <3>2
        <4> QED
          BY <4>1, <4>2, <4>3, <4>4
      <3>4. \A m \in Launches :
              q.rt[m] = IF m = active THEN "destroyed" ELSE p.rt[m]
        BY <1>1, <3>1, <3>2
      <3> HIDE DEF q
      <3> QED
        BY <1>1, <1>3, <3>1, <3>2, <3>3, <3>4 DEF Sound
    <2> QED
      BY <2>1, <2>2, <2>3
  <1> QED
    BY <1>4, BoundSound DEF LoadedV2, p

\* v1 leaves the bridge's runtime as it is.
LEMMA LoadedV1Sound ==
  ASSUME NEW l \in Launches, Sound(proc, active)
  PROVE  Sound(LoadedV1(l), active)
  <1> DEFINE q == LoadedV1(l)
  <1>1. /\ q.rt = [proc.rt EXCEPT ![l] = "v1"]
        /\ q.initialApp = l \/ q.initialApp = proc.initialApp
        /\ q.allApps = proc.allApps \cup {l} \/ q.allApps = proc.allApps
        /\ q \in [rt : [Launches -> RuntimeState],
                  initialApp : Launches \cup {Host},
                  allApps : SUBSET Launches]
    BY DEF LoadedV1, Bound, Sound, RuntimeState
  <1>2. \A m \in Launches : q.rt[m] = IF m = l THEN "v1" ELSE proc.rt[m]
    BY <1>1 DEF Sound
  <1> HIDE DEF q
  <1> QED
    BY <1>1, <1>2 DEF Sound, q

LEMMA FreshSound == Sound(FreshProcess, Host)
  BY ConstantsAssumption DEF Sound, FreshProcess, RuntimeState

-----------------------------------------------------------------------------
LEMMA InitIInv == Init => IInv
  BY FreshSound, IInvSound DEF Init, Phase

LEMMA CreateIInv ==
  ASSUME IInv, NEW l \in Launches, Create(l)
  PROVE  IInv'
  <1>0. /\ act \in [Launches -> Phase]
        /\ pkg \in [Launches -> Guests \cup {NoGuest}]
        /\ config \in Guests \cup {NoGuest}
        /\ wrapper \in Launches \cup {Host}
        /\ Sound(proc, active)
    BY IInvSound
  <1>1. /\ act' \in [Launches -> Phase]
        /\ pkg' \in [Launches -> Guests \cup {NoGuest}]
        /\ config' \in Guests \cup {NoGuest}
        /\ wrapper' \in Launches \cup {Host}
    BY <1>0
    DEF Create, CreateMismatch, CreateNoLauncher, CreateLoadV2, CreateRefusedV1,
        CreateLoadV1, CreateFailV1, Launched, Reported, Phase
  <1>2. Sound(proc', active')
    <2>1. CASE CreateLoadV2(l)
      BY <1>0, <2>1, LoadedV2Sound DEF CreateLoadV2
    <2>2. CASE proc' = LoadedV1(l) /\ UNCHANGED active
      BY <1>0, <2>2, LoadedV1Sound
    <2>3. CASE UNCHANGED <<proc, active>>
      BY <1>0, <2>3
    <2> QED
      BY <2>1, <2>2, <2>3
      DEF Create, CreateMismatch, CreateNoLauncher, CreateRefusedV1,
          CreateLoadV1, CreateFailV1, Reported
  <1>3. TypeOK' /\ ProcessAppAlive' /\ NoDeadAppListed' /\ NoOrphanRuntime'
    BY <1>1, <1>2
    DEF TypeOK, ProcessAppAlive, NoDeadAppListed, NoOrphanRuntime, Sound
  <1> QED
    BY <1>3 DEF IInv

LEMMA DestroyIInv ==
  ASSUME IInv, NEW l \in Launches, Destroy(l)
  PROVE  IInv'
  <1>1. Sound(proc', active')
    BY IInvSound, ClosedSound DEF Destroy
  <1>2. TypeOK' /\ ProcessAppAlive' /\ NoDeadAppListed' /\ NoOrphanRuntime'
    BY <1>1
    DEF IInv, Destroy, TypeOK, ProcessAppAlive, NoDeadAppListed, NoOrphanRuntime,
        Sound, Phase
  <1> QED
    BY <1>2 DEF IInv

LEMMA DiesIInv ==
  ASSUME IInv, ProcessDies
  PROVE  IInv'
  <1>1. Sound(proc', active')
    BY FreshSound DEF ProcessDies
  <1>2. act' \in [Launches -> Phase]
    BY DEF ProcessDies, Phase
  <1>3. TypeOK' /\ ProcessAppAlive' /\ NoDeadAppListed' /\ NoOrphanRuntime'
    BY <1>1, <1>2
    DEF IInv, ProcessDies, TypeOK, ProcessAppAlive, NoDeadAppListed,
        NoOrphanRuntime, Sound
  <1> QED
    BY <1>3 DEF IInv

\* The other callbacks change neither the applications nor the runtimes.
LEMMA OtherIInv ==
  ASSUME IInv, NEW l \in Launches,
         \/ \E g \in Guests : Start(l, g)
         \/ Relaunch(l) \/ GuestRelaunch(l) \/ Finish(l) \/ GuestEnds(l)
  PROVE  IInv'
  <1>1. UNCHANGED <<proc, active, wrapper>>
    BY DEF Start, Relaunch, RelaunchSwap, RelaunchMiss, GuestRelaunch, SwapMissed, Finish,
           GuestEnds
  <1>2. /\ act' \in [Launches -> Phase]
        /\ pkg' \in [Launches -> Guests \cup {NoGuest}]
        /\ config' \in Guests \cup {NoGuest}
    BY DEF IInv, TypeOK, Phase, Start, Relaunch, RelaunchSwap, RelaunchMiss,
           GuestRelaunch, SwapMissed, Finish, GuestEnds
  <1> QED
    BY <1>1, <1>2
    DEF IInv, TypeOK, ProcessAppAlive, NoDeadAppListed, NoOrphanRuntime

LEMMA StepIInv == IInv /\ [Next]_vars => IInv'
  <1> SUFFICES ASSUME IInv, [Next]_vars
               PROVE  IInv'
    OBVIOUS
  <1>1. CASE UNCHANGED vars
    BY <1>1
    DEF vars, IInv, TypeOK, ProcessAppAlive, NoDeadAppListed, NoOrphanRuntime
  <1>2. CASE Next
    BY <1>2, CreateIInv, DestroyIInv, DiesIInv, OtherIInv DEF Next
  <1> QED
    BY <1>1, <1>2

\* The application of the process, its list of applications and the runtimes
\* agree after every callback, in whatever order the framework delivers them
\* (bindToActivityThread, close, loadV2).
THEOREM Inductive == Spec => []IInv
  BY InitIInv, StepIInv, PTL DEF Spec

\* The application that the framework reads at the next activity launch is the
\* host or a guest that was not closed (GuestRuntime.close).
THEOREM ProcessAppNeverDead == Spec => []ProcessAppAlive
  <1>1. IInv => ProcessAppAlive
    BY DEF IInv
  <1> QED
    BY <1>1, Inductive, PTL

\* No runtime stays active that the bridge could not close
\* (GuestRuntimeBridge.loadV2, close).
THEOREM RuntimesClosable == Spec => []NoOrphanRuntime
  <1>1. IInv => NoOrphanRuntime
    BY DEF IInv
  <1> QED
    BY <1>1, Inductive, PTL

\* No closed guest stays on the framework's list of applications
\* (bindAllApplications, GuestRuntime.close).
THEOREM ListedNeverDead == Spec => []NoDeadAppListed
  <1>1. IInv => NoDeadAppListed
    BY DEF IInv
  <1> QED
    BY <1>1, Inductive, PTL

\* The activities, the runtimes and what the framework holds keep their types:
\* null is never restored as the application of the process.
THEOREM TypeCorrect == Spec => []TypeOK
  <1>1. IInv => TypeOK
    BY DEF IInv
  <1> QED
    BY <1>1, Inductive, PTL

-----------------------------------------------------------------------------
(* What the bridge holds is the application of the process                 *)

ProcessType ==
  [rt : [Launches -> RuntimeState],
   initialApp : Launches \cup {Host},
   allApps : SUBSET Launches]

\* Binding and closing touch the state of one runtime.
LEMMA BoundFields ==
  ASSUME NEW p \in ProcessType, NEW l \in Launches
  PROVE  /\ Bound(p, l) \in ProcessType
         /\ Bound(p, l).rt = [p.rt EXCEPT ![l] = "active"]
         /\ "hiddenApi" \notin Faults => Bound(p, l).initialApp = l
  <1> DEFINE q == Bound(p, l)
  <1>1. /\ q.rt = [p.rt EXCEPT ![l] = "active"]
        /\ q.initialApp = IF May("hiddenApi") THEN p.initialApp ELSE l
        /\ q.allApps = IF May("hiddenApi") THEN p.allApps ELSE p.allApps \cup {l}
        /\ q = [rt |-> q.rt, initialApp |-> q.initialApp, allApps |-> q.allApps]
    <2>1. CASE May("hiddenApi")
      BY <2>1 DEF Bound, ProcessType
    <2>2. CASE ~ May("hiddenApi")
      BY <2>2 DEF Bound, ProcessType
    <2> QED
      BY <2>1, <2>2
  <1> HIDE DEF q
  <1>2. q.rt \in [Launches -> RuntimeState]
    BY <1>1 DEF ProcessType, RuntimeState
  <1>3. q.initialApp \in Launches \cup {Host} /\ q.allApps \in SUBSET Launches
    BY <1>1 DEF ProcessType
  <1>4. q \in ProcessType
    BY <1>1, <1>2, <1>3 DEF ProcessType
  <1>5. "hiddenApi" \notin Faults => q.initialApp = l
    BY <1>1 DEF May
  <1> QED
    BY <1>1, <1>4, <1>5 DEF q

LEMMA ClosedFields ==
  ASSUME NEW p \in ProcessType, NEW a \in Launches \cup {Host}
  PROVE  /\ Closed(p, a) \in ProcessType
         /\ \A m \in Launches \ {a} : Closed(p, a).rt[m] = p.rt[m]
  <1>1. CASE a = Host \/ p.rt[a] = "destroyed"
    BY <1>1 DEF Closed
  <1>2. CASE ~ (a = Host \/ p.rt[a] = "destroyed")
    <2> DEFINE q == Closed(p, a)
    <2>1. /\ q.rt = [p.rt EXCEPT ![a] = "destroyed"]
          /\ q.initialApp = IF p.initialApp = a THEN Host ELSE p.initialApp
          /\ q.allApps = p.allApps \ {a}
          /\ q = [rt |-> q.rt, initialApp |-> q.initialApp, allApps |-> q.allApps]
      BY <1>2 DEF Closed, ProcessType
    <2> HIDE DEF q
    <2>2. /\ q.rt \in [Launches -> RuntimeState]
          /\ \A m \in Launches \ {a} : q.rt[m] = p.rt[m]
      BY <2>1 DEF ProcessType, RuntimeState
    <2>3. q.initialApp \in Launches \cup {Host} /\ q.allApps \in SUBSET Launches
      BY <2>1 DEF ProcessType
    <2>4. q \in ProcessType
      BY <2>1, <2>2, <2>3 DEF ProcessType
    <2> QED
      BY <2>2, <2>4 DEF q
  <1> QED
    BY <1>1, <1>2

LEMMA LoadedV2Fields ==
  ASSUME proc \in ProcessType, active \in Launches \cup {Host}, NEW l \in Launches
  PROVE  /\ LoadedV2(l).rt[l] = "active"
         /\ \A m \in Launches \ {l, active} : LoadedV2(l).rt[m] = proc.rt[m]
         /\ "hiddenApi" \notin Faults => LoadedV2(l).initialApp = l
  <1> DEFINE p == Bound(proc, l)
             q == Closed(p, active)
  <1>1. p \in ProcessType /\ \A m \in Launches \ {l} : p.rt[m] = proc.rt[m]
    <2>1. /\ p \in ProcessType
          /\ p.rt = [proc.rt EXCEPT ![l] = "active"]
      BY BoundFields
    <2>2. \A m \in Launches \ {l} : p.rt[m] = proc.rt[m]
      BY <2>1 DEF ProcessType
    <2> QED
      BY <2>1, <2>2
  <1> HIDE DEF p
  <1>2. q \in ProcessType /\ \A m \in Launches \ {active} : q.rt[m] = p.rt[m]
    BY <1>1, ClosedFields
  <1> HIDE DEF q
  <1>3. LoadedV2(l) = Bound(q, l)
    BY DEF LoadedV2, p, q
  <1>4. /\ Bound(q, l).rt = [q.rt EXCEPT ![l] = "active"]
        /\ "hiddenApi" \notin Faults => Bound(q, l).initialApp = l
    BY <1>2, BoundFields
  <1>5. /\ [q.rt EXCEPT ![l] = "active"][l] = "active"
        /\ \A m \in Launches \ {l, active} : [q.rt EXCEPT ![l] = "active"][m] = proc.rt[m]
    BY <1>1, <1>2 DEF ProcessType
  <1> QED
    BY <1>3, <1>4, <1>5

LEMMA LoadedV1Fields ==
  ASSUME proc \in ProcessType, NEW l \in Launches
  PROVE  /\ LoadedV1(l).rt = [proc.rt EXCEPT ![l] = "v1"]
         /\ "hiddenApi" \notin Faults => LoadedV1(l).initialApp = l
  BY DEF LoadedV1, Bound, May, ProcessType, RuntimeState

LEMMA CurrentInit == Init => ActiveIsCurrent /\ Unloaded
  BY DEF Init, ActiveIsCurrent, Unloaded, FreshProcess

\* Either load makes its guest the application, and a v1 load leaves the
\* bridge's runtime active: it is another launch's.
LEMMA CreateCurrent ==
  ASSUME "hiddenApi" \notin Faults, IInv, ActiveIsCurrent, Unloaded,
         NEW l \in Launches, Create(l)
  PROVE  ActiveIsCurrent' /\ Unloaded'
  <1>1. proc \in ProcessType /\ active \in Launches \cup {Host}
        /\ act \in [Launches -> Phase]
    BY DEF IInv, TypeOK, ProcessType
  <1>2. act[l] = "starting"
        /\ \E to \in {"created", "finishing"} : act' = [act EXCEPT ![l] = to]
    BY DEF Create, CreateMismatch, CreateNoLauncher, CreateLoadV2, CreateRefusedV1,
           CreateLoadV1, CreateFailV1, Admitted, Launched, Reported
  <1>3. proc.rt[l] = "none" /\ l # active
    BY <1>2, ConstantsAssumption DEF Unloaded, ActiveIsCurrent
  <1>4. ASSUME \A m \in Launches \ {l} : proc.rt[m] = "none" => proc'.rt[m] = "none"
        PROVE  Unloaded'
    BY <1>1, <1>2, <1>4 DEF Unloaded
  <1>5. CASE proc' = LoadedV2(l) /\ active' = l
    <2>1. proc'.rt[l] = "active" /\ proc'.initialApp = l
      BY <1>1, <1>5, LoadedV2Fields
    <2>2. \A m \in Launches \ {l} : proc.rt[m] = "none" => proc'.rt[m] = "none"
      BY <1>1, <1>5, LoadedV2Fields, ConstantsAssumption DEF ActiveIsCurrent
    <2> QED
      BY <1>4, <1>5, <2>1, <2>2 DEF ActiveIsCurrent
  <1>6. CASE proc' = LoadedV1(l) /\ UNCHANGED active
    <2>1. proc'.rt = [proc.rt EXCEPT ![l] = "v1"] /\ proc'.initialApp = l
      BY <1>1, <1>6, LoadedV1Fields
    <2> QED
      BY <1>1, <1>3, <1>4, <1>6, <2>1 DEF ActiveIsCurrent, ProcessType
  <1>7. CASE UNCHANGED <<proc, active>>
    BY <1>4, <1>7 DEF ActiveIsCurrent
  <1> QED
    BY <1>5, <1>6, <1>7
    DEF Create, CreateMismatch, CreateNoLauncher, CreateLoadV2, CreateRefusedV1,
        CreateLoadV1, CreateFailV1, Reported

LEMMA CurrentStep ==
  ASSUME "hiddenApi" \notin Faults
  PROVE  IInv /\ ActiveIsCurrent /\ Unloaded /\ [Next]_vars
           => ActiveIsCurrent' /\ Unloaded'
  <1> SUFFICES ASSUME IInv, ActiveIsCurrent, Unloaded, [Next]_vars
               PROVE  ActiveIsCurrent' /\ Unloaded'
    OBVIOUS
  <1>1. proc \in ProcessType /\ active \in Launches \cup {Host}
        /\ act \in [Launches -> Phase]
    BY DEF IInv, TypeOK, ProcessType
  <1>2. ASSUME NEW l \in Launches, Destroy(l)
        PROVE  ActiveIsCurrent' /\ Unloaded'
    <2>1. \A m \in Launches : proc.rt[m] = "none" => proc'.rt[m] = "none"
      BY <1>1, <1>2, ClosedFields, ConstantsAssumption DEF Destroy, ActiveIsCurrent
    <2> QED
      BY <1>1, <1>2, <2>1 DEF Destroy, ActiveIsCurrent, Unloaded
  <1>3. CASE ProcessDies
    BY <1>3 DEF ProcessDies, ActiveIsCurrent, Unloaded, FreshProcess
  <1>4. ASSUME NEW l \in Launches,
               \/ \E g \in Guests : Start(l, g)
               \/ Relaunch(l) \/ GuestRelaunch(l) \/ Finish(l) \/ GuestEnds(l)
        PROVE  ActiveIsCurrent' /\ Unloaded'
    <2>1. /\ UNCHANGED <<proc, active>>
          /\ \E to \in Phase : /\ act' = [act EXCEPT ![l] = to]
                               /\ to \in {"waiting", "starting"} => act[l] = "waiting"
      BY <1>4 DEF Start, Relaunch, RelaunchSwap, RelaunchMiss, GuestRelaunch, SwapMissed,
                  Finish, GuestEnds, Phase
    <2> QED
      BY <1>1, <2>1 DEF ActiveIsCurrent, Unloaded
  <1>5. CASE UNCHANGED vars
    BY <1>5 DEF vars, ActiveIsCurrent, Unloaded
  <1> QED
    BY <1>2, <1>3, <1>4, <1>5, CreateCurrent DEF Next

\* Where the fields of the ActivityThread can be written, the runtime that the
\* bridge holds is active, and its guest is the application of the process
\* unless a v1 guest has replaced it since (loadV2, loadV1, onDestroy).
THEOREM BridgeHoldsCurrent ==
  ASSUME "hiddenApi" \notin Faults
  PROVE  Spec => []ActiveIsCurrent
  <1>1. Spec => [](ActiveIsCurrent /\ Unloaded)
    BY CurrentInit, CurrentStep, Inductive, PTL DEF Spec
  <1> QED
    BY <1>1, PTL

-----------------------------------------------------------------------------
(* The session implements ProcessApp                                       *)

\* What the bridge holds is active, and where no field can be written the host
\* stays the application.
Held ==
  /\ active # Host => proc.rt[active] = "active"
  /\ May("hiddenApi") => proc.initialApp = Host

AppInv == IInv /\ Held /\ Unloaded

LEMMA AppInvTyped ==
  ASSUME AppInv
  PROVE  /\ proc \in ProcessType
         /\ active \in Launches \cup {Host}
         /\ act \in [Launches -> Phase]
         /\ \A m \in Launches : proc.rt[m] = "active" <=> m = active
  BY ConstantsAssumption
  DEF AppInv, IInv, TypeOK, ProcessType, NoOrphanRuntime, Held

LEMMA BoundWhole ==
  ASSUME NEW p \in ProcessType, NEW l \in Launches
  PROVE  /\ Bound(p, l) \in ProcessType
         /\ \A m \in Launches :
              Bound(p, l).rt[m] = IF m = l THEN "active" ELSE p.rt[m]
         /\ Bound(p, l).initialApp = IF May("hiddenApi") THEN p.initialApp ELSE l
  <1>1. /\ Bound(p, l) \in ProcessType
        /\ Bound(p, l).rt = [p.rt EXCEPT ![l] = "active"]
    BY BoundFields
  <1>2. \A m \in Launches :
          [p.rt EXCEPT ![l] = "active"][m] = IF m = l THEN "active" ELSE p.rt[m]
    BY DEF ProcessType
  <1>3. Bound(p, l).initialApp = IF May("hiddenApi") THEN p.initialApp ELSE l
    BY DEF Bound, ProcessType
  <1> QED
    BY <1>1, <1>2, <1>3

\* Closing what is active, or nothing.
LEMMA ClosedWhole ==
  ASSUME NEW p \in ProcessType, NEW a \in Launches \cup {Host},
         a # Host => p.rt[a] = "active"
  PROVE  /\ Closed(p, a) \in ProcessType
         /\ \A m \in Launches :
              Closed(p, a).rt[m] = IF m = a THEN "destroyed" ELSE p.rt[m]
         /\ Closed(p, a).initialApp = IF p.initialApp = a THEN Host ELSE p.initialApp
  <1>1. Closed(p, a) \in ProcessType
    BY ClosedFields
  <1>2. CASE a = Host
    BY <1>1, <1>2, ConstantsAssumption DEF Closed
  <1>3. CASE a # Host
    <2>1. Closed(p, a) = [p EXCEPT !.rt[a] = "destroyed",
                                   !.initialApp = IF @ = a THEN Host ELSE @,
                                   !.allApps = @ \ {a}]
      BY <1>3 DEF Closed
    <2>2. /\ Closed(p, a).rt = [p.rt EXCEPT ![a] = "destroyed"]
          /\ Closed(p, a).initialApp = IF p.initialApp = a THEN Host ELSE p.initialApp
      BY <2>1 DEF ProcessType
    <2>3. \A m \in Launches :
            [p.rt EXCEPT ![a] = "destroyed"][m] = IF m = a THEN "destroyed" ELSE p.rt[m]
      BY DEF ProcessType
    <2> QED
      BY <1>1, <2>2, <2>3
  <1> QED
    BY <1>2, <1>3

\* The bind of build, the close and the second bind add up to a handover.
LEMMA LoadedV2Whole ==
  ASSUME AppInv, NEW l \in Launches, l # active
  PROVE  /\ \A m \in Launches :
              LoadedV2(l).rt[m] = IF m = l THEN "active"
                                  ELSE IF m = active THEN "destroyed"
                                  ELSE proc.rt[m]
         /\ LoadedV2(l).initialApp = IF May("hiddenApi") THEN Host ELSE l
  <1> DEFINE p == Bound(proc, l)
             q == Closed(p, active)
  <1>1. /\ p \in ProcessType
        /\ \A m \in Launches : p.rt[m] = IF m = l THEN "active" ELSE proc.rt[m]
        /\ p.initialApp = IF May("hiddenApi") THEN Host ELSE l
    BY AppInvTyped, BoundWhole DEF AppInv, Held
  <1> HIDE DEF p
  <1>2. active # Host => p.rt[active] = "active"
    BY <1>1, AppInvTyped
  <1>3. /\ q \in ProcessType
        /\ \A m \in Launches : q.rt[m] = IF m = active THEN "destroyed" ELSE p.rt[m]
        /\ q.initialApp = IF p.initialApp = active THEN Host ELSE p.initialApp
    BY <1>1, <1>2, AppInvTyped, ClosedWhole
  <1> HIDE DEF q
  <1>4. /\ \A m \in Launches : Bound(q, l).rt[m] = IF m = l THEN "active" ELSE q.rt[m]
        /\ Bound(q, l).initialApp = IF May("hiddenApi") THEN q.initialApp ELSE l
    BY <1>3, BoundWhole
  <1>5. LoadedV2(l) = Bound(q, l)
    BY DEF LoadedV2, p, q
  <1> QED
    BY <1>1, <1>3, <1>4, <1>5

LEMMA LoadedV1Whole ==
  ASSUME AppInv, NEW l \in Launches
  PROVE  /\ \A m \in Launches :
              LoadedV1(l).rt[m] = IF m = l THEN "v1" ELSE proc.rt[m]
         /\ LoadedV1(l).initialApp = IF May("hiddenApi") THEN Host ELSE l
  <1> DEFINE p == Bound(proc, l)
  <1>1. /\ p \in ProcessType
        /\ \A m \in Launches : p.rt[m] = IF m = l THEN "active" ELSE proc.rt[m]
        /\ p.initialApp = IF May("hiddenApi") THEN Host ELSE l
    BY AppInvTyped, BoundWhole DEF AppInv, Held
  <1> HIDE DEF p
  <1>2. LoadedV1(l) = [p EXCEPT !.rt[l] = "v1"]
    BY DEF LoadedV1, p
  <1>3. /\ LoadedV1(l).rt = [p.rt EXCEPT ![l] = "v1"]
        /\ LoadedV1(l).initialApp = p.initialApp
    BY <1>1, <1>2 DEF ProcessType
  <1>4. \A m \in Launches :
          [p.rt EXCEPT ![l] = "v1"][m] = IF m = l THEN "v1" ELSE p.rt[m]
    BY <1>1 DEF ProcessType
  <1> QED
    BY <1>1, <1>3, <1>4

\* What a created activity does to the runtimes: one of the loads, or nothing.
LEMMA CreateLoads ==
  ASSUME AppInv, NEW l \in Launches, Create(l)
  PROVE  /\ \E to \in {"created", "finishing"} : act' = [act EXCEPT ![l] = to]
         /\ proc.rt[l] = "none" /\ l # active
         /\ \/ proc' = LoadedV2(l) /\ active' = l
            \/ proc' = LoadedV1(l) /\ active' = active
            \/ proc' = proc /\ active' = active
  <1>1. /\ act[l] = "starting"
        /\ \E to \in {"created", "finishing"} : act' = [act EXCEPT ![l] = to]
    BY DEF Create, CreateMismatch, CreateNoLauncher, CreateLoadV2, CreateRefusedV1,
           CreateLoadV1, CreateFailV1, Admitted, Launched, Reported
  <1>2. proc.rt[l] = "none"
    BY <1>1 DEF AppInv, Unloaded
  <1>3. l # active
    BY <1>2, AppInvTyped
  <1>4. \/ proc' = LoadedV2(l) /\ active' = l
        \/ proc' = LoadedV1(l) /\ active' = active
        \/ proc' = proc /\ active' = active
    BY DEF Create, CreateMismatch, CreateNoLauncher, CreateLoadV2, CreateRefusedV1,
           CreateLoadV1, CreateFailV1, Launched, Reported
  <1> QED
    BY <1>1, <1>2, <1>3, <1>4

LEMMA DestroyCloses ==
  ASSUME AppInv, NEW l \in Launches, Destroy(l)
  PROVE  /\ act' = [act EXCEPT ![l] = "gone"] /\ active' = Host
         /\ \A m \in Launches :
              proc'.rt[m] = IF m = active THEN "destroyed" ELSE proc.rt[m]
         /\ proc'.initialApp = IF proc.initialApp = active THEN Host
                               ELSE proc.initialApp
  BY AppInvTyped, ClosedWhole DEF Destroy, AppInv, Held

\* The other callbacks start no activity but that of a waiting launch.
LEMMA OtherQuiet ==
  ASSUME AppInv, NEW l \in Launches,
         \/ \E g \in Guests : Start(l, g)
         \/ Relaunch(l) \/ GuestRelaunch(l) \/ Finish(l) \/ GuestEnds(l)
  PROVE  /\ UNCHANGED <<proc, active>>
         /\ \A m \in Launches :
              act'[m] \in {"waiting", "starting"} => act[m] \in {"waiting", "starting"}
  <1>1. /\ UNCHANGED <<proc, active>>
        /\ \E to \in Phase : /\ act' = [act EXCEPT ![l] = to]
                             /\ to \in {"waiting", "starting"} => act[l] = "waiting"
    BY DEF Start, Relaunch, RelaunchSwap, RelaunchMiss, GuestRelaunch, SwapMissed,
           Finish, GuestEnds, Phase
  <1> QED
    BY <1>1, AppInvTyped

-----------------------------------------------------------------------------
LEMMA AppInit == Init => AppInv
  <1>1. Init => Held /\ Unloaded
    BY DEF Init, Held, Unloaded, FreshProcess
  <1> QED
    BY <1>1, InitIInv DEF AppInv

LEMMA AppStep == AppInv /\ [Next]_vars => AppInv'
  <1> SUFFICES ASSUME AppInv, [Next]_vars
               PROVE  Held' /\ Unloaded'
    BY StepIInv DEF AppInv
  <1>1. ASSUME NEW l \in Launches, Create(l)
        PROVE  Held' /\ Unloaded'
    <2>1. /\ \E to \in {"created", "finishing"} : act' = [act EXCEPT ![l] = to]
          /\ proc.rt[l] = "none" /\ l # active
          /\ act \in [Launches -> Phase] /\ active \in Launches \cup {Host}
          /\ \A m \in Launches : proc.rt[m] = "active" <=> m = active
      BY <1>1, CreateLoads, AppInvTyped
    <2>2. CASE proc' = LoadedV2(l) /\ active' = l
      <3>1. /\ \A m \in Launches : proc'.rt[m] = IF m = l THEN "active"
                                                 ELSE IF m = active THEN "destroyed"
                                                 ELSE proc.rt[m]
            /\ proc'.initialApp = IF May("hiddenApi") THEN Host ELSE l
        BY <2>1, <2>2, LoadedV2Whole
      <3> QED
        BY <2>1, <2>2, <3>1 DEF AppInv, Held, Unloaded
    <2>3. CASE proc' = LoadedV1(l) /\ active' = active
      <3>1. /\ \A m \in Launches : proc'.rt[m] = IF m = l THEN "v1" ELSE proc.rt[m]
            /\ proc'.initialApp = IF May("hiddenApi") THEN Host ELSE l
        BY <2>3, LoadedV1Whole
      <3> QED
        BY <2>1, <2>3, <3>1 DEF AppInv, Held, Unloaded
    <2>4. CASE proc' = proc /\ active' = active
      BY <2>1, <2>4 DEF AppInv, Held, Unloaded
    <2> QED
      BY <1>1, <2>2, <2>3, <2>4, CreateLoads
  <1>2. ASSUME NEW l \in Launches, Destroy(l)
        PROVE  Held' /\ Unloaded'
    BY <1>2, DestroyCloses, AppInvTyped DEF AppInv, Held, Unloaded
  <1>3. CASE ProcessDies
    BY <1>3 DEF ProcessDies, Held, Unloaded, FreshProcess
  <1>4. ASSUME NEW l \in Launches,
               \/ \E g \in Guests : Start(l, g)
               \/ Relaunch(l) \/ GuestRelaunch(l) \/ Finish(l) \/ GuestEnds(l)
        PROVE  Held' /\ Unloaded'
    BY <1>4, OtherQuiet DEF AppInv, Held, Unloaded
  <1>5. CASE UNCHANGED vars
    BY <1>5 DEF vars, AppInv, Held, Unloaded
  <1> QED
    BY <1>1, <1>2, <1>3, <1>4, <1>5 DEF Next

LEMMA AppSteps == AppInv /\ [Next]_vars => [App!Next]_(App!vars)
  <1> SUFFICES ASSUME AppInv, [Next]_vars
               PROVE  App!Next \/ UNCHANGED App!vars
    OBVIOUS
  <1>0. /\ active \in Launches \cup {Host}
        /\ \A m \in Launches : proc.rt[m] = "active" <=> m = active
    BY AppInvTyped
  <1>1. ASSUME UNCHANGED proc
        PROVE  UNCHANGED App!vars
    BY <1>1 DEF App!vars, In
  <1>2. ASSUME NEW l \in Launches, Create(l)
        PROVE  App!Next \/ UNCHANGED App!vars
    <2>1. proc.rt[l] = "none" /\ l # active
      BY <1>2, CreateLoads
    <2>2. App!Fresh(l)
      BY <2>1 DEF App!Fresh, In
    <2>3. App!BoundTo(l) = IF May("hiddenApi") THEN Host ELSE l
      BY DEF App!BoundTo, AppInv, Held
    <2>4. CASE proc' = LoadedV2(l)
      <3>1. /\ \A m \in Launches : proc'.rt[m] = IF m = l THEN "active"
                                                 ELSE IF m = active THEN "destroyed"
                                                 ELSE proc.rt[m]
            /\ proc'.initialApp = IF May("hiddenApi") THEN Host ELSE l
        BY <2>1, <2>4, LoadedV2Whole
      <3>2. /\ In("active")' = {l}
            /\ In("destroyed")' = In("destroyed") \cup In("active")
            /\ In("v1")' = In("v1")
        BY <1>0, <2>1, <3>1 DEF In
      <3>3. App!Load(l)
        BY <2>2, <2>3, <3>1, <3>2 DEF App!Load
      <3> QED
        BY <3>3 DEF App!Next
    <2>5. CASE proc' = LoadedV1(l)
      <3>1. /\ \A m \in Launches : proc'.rt[m] = IF m = l THEN "v1" ELSE proc.rt[m]
            /\ proc'.initialApp = IF May("hiddenApi") THEN Host ELSE l
        BY <2>5, LoadedV1Whole
      <3>2. /\ In("active")' = In("active")
            /\ In("destroyed")' = In("destroyed")
            /\ In("v1")' = In("v1") \cup {l}
        BY <2>1, <3>1 DEF In
      <3>3. App!LoadLegacy(l)
        BY <2>2, <2>3, <3>1, <3>2 DEF App!LoadLegacy
      <3> QED
        BY <3>3 DEF App!Next
    <2> QED
      BY <1>1, <1>2, <2>4, <2>5, CreateLoads
  <1>3. ASSUME NEW l \in Launches, Destroy(l)
        PROVE  App!Next
    <2>1. /\ \A m \in Launches :
               proc'.rt[m] = IF m = active THEN "destroyed" ELSE proc.rt[m]
          /\ proc'.initialApp = IF proc.initialApp = active THEN Host
                                ELSE proc.initialApp
      BY <1>3, DestroyCloses
    <2>2. /\ In("active")' = {}
          /\ In("destroyed")' = In("destroyed") \cup In("active")
          /\ In("v1")' = In("v1")
      BY <1>0, <2>1 DEF In
    <2>3. proc.initialApp \in In("active") <=> proc.initialApp = active /\ active # Host
      BY <1>0, ConstantsAssumption DEF In
    <2>4. App!Close
      BY <2>1, <2>2, <2>3 DEF App!Close
    <2> QED
      BY <2>4 DEF App!Next
  <1>4. CASE ProcessDies
    <2>1. /\ proc'.initialApp = Host
          /\ In("active")' = {} /\ In("v1")' = {} /\ In("destroyed")' = {}
      BY <1>4 DEF ProcessDies, FreshProcess, In
    <2> QED
      BY <2>1 DEF App!Next, App!Restart
  <1>5. ASSUME NEW l \in Launches,
               \/ \E g \in Guests : Start(l, g)
               \/ Relaunch(l) \/ GuestRelaunch(l) \/ Finish(l) \/ GuestEnds(l)
        PROVE  UNCHANGED App!vars
    BY <1>1, <1>5, OtherQuiet
  <1>6. CASE UNCHANGED vars
    BY <1>1, <1>6 DEF vars
  <1> QED
    BY <1>2, <1>3, <1>4, <1>5, <1>6 DEF Next

\* A session implements the process of ProcessApp, for any number of launches and
\* every set of faults: the three writes of a v2 load are one handover, and
\* onDestroy closes all that runs but never a v1 guest (loadV2, close).
THEOREM ImplementsApp == Spec => AppSpec
  <1>1. Init => App!Init
    BY DEF Init, App!Init, FreshProcess, In
  <1>2. Spec => []AppInv
    BY AppInit, AppStep, PTL DEF Spec
  <1> QED
    BY <1>1, <1>2, AppSteps, PTL DEF Spec, AppSpec, App!Spec
=============================================================================
