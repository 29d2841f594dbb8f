------------------------ MODULE EngineProcess_proofs ------------------------
(***************************************************************************)
(* Theorems about EngineProcess, for any guests, any number of watchdogs   *)
(* and every set of faults.                                                *)
(*                                                                         *)
(* Only Container and Shutdown change the identity of the process and only *)
(* Container, Shutdown and AttachMap its redirects.  A step that leaves    *)
(* both alone moves threads about (QuietStep); the others are taken one by *)
(* one.                                                                    *)
(***************************************************************************)
EXTENDS EngineProcess, TLAPS

LEMMA Places ==
  ASSUME TypeOK, NEW t \in Threads, NEW place, Goto(t, place)
  PROVE  /\ pc'[t] = place
         /\ \A u \in Threads \ {t} : pc'[u] = pc[u]
  BY DEF TypeOK, Goto

\* A container set up for pkg stands for one package, and the redirects are
\* those of before or of the first init.
LEMMA ContainerAfter ==
  ASSUME TypeOK, Agrees, UNCHANGED lib, NEW pkg \in Packages, Container(pkg)
  PROVE  /\ vac' \in [ready : BOOLEAN, fake : Packages \cup {None},
                      info : Packages \cup {None}]
         /\ proxies' \in [override : Packages \cup {None}, cached : BOOLEAN,
                          static : BOOLEAN]
         /\ jvm' \in Redirects /\ native' \in Redirects
         /\ classes' \in Guests \cup {None}
         /\ vac'.ready
         /\ vac'.fake = FakeAfter(pkg)
         /\ jvm'.data = IF vac.ready THEN jvm.data ELSE jvm.data \cup {pkg}
         /\ jvm'.external = IF vac.ready THEN jvm.external ELSE "scoped"
         /\ Agrees'
  <1>1. FakeAfter(pkg) \in Packages \cup {None}
    BY DEF FakeAfter, TypeOK
  <1>2. /\ vac' = [ready |-> TRUE, fake |-> FakeAfter(pkg),
                   info |-> IF Takes(pkg) THEN pkg ELSE vac.info]
        /\ proxies' = [override |-> FakeAfter(pkg), cached |-> TRUE, static |-> TRUE]
        /\ classes' = IF lib /\ FakeAfter(pkg) # Host THEN FakeAfter(pkg) ELSE classes
        /\ jvm' = IF vac.ready THEN jvm ELSE SetupForApp(jvm, pkg, "scoped")
        /\ native' = Pushed(jvm')
    BY DEF Container, Retarget
  <1>3. vac' \in [ready : BOOLEAN, fake : Packages \cup {None},
                  info : Packages \cup {None}]
    BY <1>1, <1>2 DEF TypeOK
  <1>4. proxies' \in [override : Packages \cup {None}, cached : BOOLEAN,
                      static : BOOLEAN]
    BY <1>1, <1>2
  <1>5. jvm' \in Redirects
    BY <1>2 DEF SetupForApp, Redirects, TypeOK
  <1>6. native' \in Redirects
    BY <1>2, <1>5 DEF Pushed, Redirects, TypeOK
  <1>7. /\ jvm'.data = IF vac.ready THEN jvm.data ELSE jvm.data \cup {pkg}
        /\ jvm'.external = IF vac.ready THEN jvm.external ELSE "scoped"
    BY <1>2 DEF SetupForApp
  <1>8. /\ vac'.ready /\ vac'.fake = FakeAfter(pkg)
        /\ proxies'.override = FakeAfter(pkg)
        /\ vac'.info = IF Takes(pkg) THEN pkg ELSE vac.info
    BY <1>2
  <1>9. Agrees'
    <2>1. vac'.info = vac'.fake
      BY <1>8 DEF Agrees, Takes, FakeAfter
    <2>2. lib' /\ IsVirtualTarget' => classes' = vac'.fake
      BY <1>2, <1>8 DEF IsVirtualTarget
    <2> QED
      BY <2>1, <2>2, <1>8 DEF Agrees
  <1>10. classes' \in Guests \cup {None}
    BY <1>1, <1>2 DEF TypeOK, Packages
  <1> QED
    BY <1>3, <1>4, <1>5, <1>6, <1>7, <1>8, <1>9, <1>10

\* A thread that moves on and leaves the identity and the redirects alone keeps
\* the invariant.
LEMMA QuietStep ==
  ASSUME IInv, TypeOK', NEW t \in Threads, NEW place, Goto(t, place),
         t = Ui \/ (pc[Ui] # "boot" /\ role = "engine"),
         pc[t] \notin {"boot", "container"}, place \notin {"boot", "container"},
         place \in {"target", "resolve", "map"} => orch.initialized,
         t = Ui /\ place \in Attaching => pc[t] \in Attaching \/ role # "child",
         orch'.initialized = orch.initialized,
         UNCHANGED <<role, lib, vac, proxies, jvm, classes, guest>>
  PROVE  IInv'
  <1>1. /\ pc'[t] = place
        /\ \A u \in Threads \ {t} : pc'[u] = pc[u]
    BY Places DEF IInv
  <1>2. Ui \in Threads /\ Watchdogs \subseteq Threads /\ Ui \notin Watchdogs
    BY ConstantsAssumption DEF Threads
  <1>3. Agrees'
    BY DEF IInv, Agrees, IsVirtualTarget
  <1>4. Fresh'
    BY <1>1, <1>2 DEF IInv, Fresh
  <1>5. Named'
    BY <1>1 DEF IInv, Named
  <1>6. HostFirst'
    BY DEF IInv, HostFirst, HostIdentity
  <1>7. Launching'
    BY <1>1, <1>2 DEF IInv, Launching
  <1>8. ChildMap'
    BY <1>1, <1>2 DEF IInv, ChildMap, IsVirtualTarget
  <1>9. OnlyCurrentGuest'
    BY DEF IInv, OnlyCurrentGuest
  <1> QED
    BY <1>3, <1>4, <1>5, <1>6, <1>7, <1>8, <1>9 DEF IInv

-----------------------------------------------------------------------------
(* The engine: attach and start                                            *)

LEMMA AttachSteps ==
  ASSUME IInv, NEW t \in Threads, t = Ui \/ (pc[Ui] # "boot" /\ role = "engine"),
         Attach(t) \/ AttachTarget(t) \/ AttachResolve(t) \/ AttachFails(t)
           \/ RaceLost(t)
  PROVE  IInv'
  <1>1. UNCHANGED <<role, lib, vac, proxies, jvm, native, classes, obs, guest>>
    BY DEF Attach, AttachTarget, AttachResolve, AttachFails, RaceLost, containerVars
  <1>2. /\ orch'.initialized = orch.initialized
        /\ orch' \in [initialized : BOOLEAN, attached : BOOLEAN, running : BOOLEAN,
                      module : {"none", "zero", "base"}]
    BY DEF IInv, TypeOK, Attach, AttachTarget, AttachResolve, AttachFails, RaceLost
  <1>3. PICK place \in {"ready", "rest", "start", "target", "resolve", "map"} :
          /\ Goto(t, place)
          /\ place \in {"target", "resolve", "map"} => orch.initialized
    BY DEF IInv, Named, Attach, AttachTarget, AttachResolve, AttachFails, RaceLost,
           Done
  <1>4. pc[t] \in Attaching
    BY DEF Attach, AttachTarget, AttachResolve, AttachFails, RaceLost, Attaching
  <1>5. TypeOK'
    BY <1>1, <1>2, <1>3 DEF IInv, TypeOK, Goto
  <1> QED
    BY <1>1, <1>2, <1>3, <1>4, <1>5, QuietStep DEF Attaching

\* A child attaches as a guest, whose redirects are left alone; elsewhere those
\* of the package that the process goes by are set up again.
LEMMA AttachMapStep ==
  ASSUME IInv, NEW t \in Threads, t = Ui \/ (pc[Ui] # "boot" /\ role = "engine"), AttachMap(t)
  PROVE  IInv'
  <1>1. /\ UNCHANGED <<role, lib, vac, proxies, classes, obs, guest>>
        /\ Goto(t, "start")
        /\ pc[t] = "map"
        /\ orch.initialized /\ vac.fake \in Packages
    BY DEF AttachMap, IInv, Named, TypeOK
  <1>2. /\ orch'.initialized = orch.initialized
        /\ orch' \in [initialized : BOOLEAN, attached : BOOLEAN, running : BOOLEAN,
                      module : {"none", "zero", "base"}]
    BY DEF AttachMap, IInv, TypeOK
  <1>3. /\ jvm' \in Redirects
        /\ jvm'.data \subseteq jvm.data \cup {vac.fake}
        /\ IsVirtualTarget => jvm' = jvm
    BY <1>1 DEF AttachMap, SetupForApp, Redirects, IInv, TypeOK
  <1>4. native' \in Redirects
    BY <1>3 DEF AttachMap, Pushed, Redirects, IInv, TypeOK
  <1>5. TypeOK'
    BY <1>1, <1>2, <1>3, <1>4 DEF IInv, TypeOK, Goto
  <1>6. /\ pc'[t] = "start"
        /\ \A u \in Threads \ {t} : pc'[u] = pc[u]
    BY <1>1, Places DEF IInv
  <1>7. Ui \in Threads /\ Watchdogs \subseteq Threads /\ Ui \notin Watchdogs
    BY ConstantsAssumption DEF Threads
  <1>8. Agrees'
    BY <1>1 DEF IInv, Agrees, IsVirtualTarget
  <1>9. Fresh'
    BY <1>1, <1>2, <1>6, <1>7 DEF IInv, Fresh
  <1>10. Named'
    BY <1>1, <1>2, <1>6 DEF IInv, Named
  <1>11. HostFirst'
    BY <1>1, <1>2, <1>3, ConstantsAssumption
    DEF IInv, HostFirst, HostIdentity, Packages
  <1>12. Launching'
    BY <1>1, <1>2, <1>6, <1>7 DEF IInv, Launching
  <1>13. ChildMap'
    <2>1. CASE role = "child"
      <3>1. t = Ui /\ IsVirtualTarget
        BY <1>1, <2>1 DEF IInv, ChildMap, Attaching
      <3>2. jvm' = jvm
        BY <3>1, <1>3
      <3> QED
        BY <1>1, <1>2, <3>1, <3>2 DEF IInv, ChildMap, IsVirtualTarget
    <2>2. CASE role # "child"
      BY <1>1, <2>2 DEF ChildMap
    <2> QED
      BY <2>1, <2>2
  <1>14. OnlyCurrentGuest'
    BY <1>1, <1>2, <1>3 DEF IInv, OnlyCurrentGuest
  <1> QED
    BY <1>5, <1>8, <1>9, <1>10, <1>11, <1>12, <1>13, <1>14 DEF IInv

LEMMA StartStep ==
  ASSUME IInv, NEW t \in Threads, t = Ui \/ (pc[Ui] # "boot" /\ role = "engine"), Start(t)
  PROVE  IInv'
  <1>1. /\ UNCHANGED <<role, lib, vac, proxies, jvm, classes, obs, guest>>
        /\ Goto(t, Done(t))
        /\ pc[t] = "start"
    BY DEF Start
  <1>2. /\ orch'.initialized = orch.initialized
        /\ orch' \in [initialized : BOOLEAN, attached : BOOLEAN, running : BOOLEAN,
                      module : {"none", "zero", "base"}]
    BY DEF Start, IInv, TypeOK
  <1>3. native' \in Redirects
    BY DEF Start, Pushed, Redirects, IInv, TypeOK
  <1>4. Done(t) \in {"ready", "rest"}
    BY DEF Done
  <1>5. TypeOK'
    BY <1>1, <1>2, <1>3, <1>4 DEF IInv, TypeOK, Goto
  <1> QED
    BY <1>1, <1>2, <1>4, <1>5, QuietStep DEF Attaching

LEMMA EngineStep ==
  ASSUME IInv, NEW t \in Threads, t = Ui \/ (pc[Ui] # "boot" /\ role = "engine"),
         Engine(t) \/ RaceLost(t)
  PROVE  IInv'
  BY AttachSteps, AttachMapStep, StartStep DEF Engine

-----------------------------------------------------------------------------
(* The watchdogs                                                           *)

LEMMA WatchStep ==
  ASSUME IInv, NEW w \in Watchdogs, pc[Ui] # "boot", role = "engine",
         ReadInitialized(w) \/ ReadAttached(w) \/ Decide(w) \/ StartCommand(w)
  PROVE  IInv'
  <1>1. UNCHANGED <<role, lib, orch, vac, proxies, jvm, native, classes, guest>>
    BY DEF ReadInitialized, ReadAttached, Decide, StartCommand, containerVars
  <1>2. PICK place \in {"sawInit", "sawAttached", "rest", "init", "attach", "start"} :
          Goto(w, place)
    BY DEF ReadInitialized, ReadAttached, Decide, StartCommand, Case
  <1>3. obs' \in [Watchdogs -> [initialized : BOOLEAN, attached : BOOLEAN]]
    BY DEF ReadInitialized, ReadAttached, Decide, StartCommand, IInv, TypeOK
  <1>4. TypeOK'
    <2>1. pc' \in [Threads -> {"none", "boot", "service", "ready", "container", "rest",
                              "sawInit", "sawAttached", "init", "attach", "target",
                              "resolve", "map", "start"}]
      BY <1>2 DEF IInv, TypeOK, Goto
    <2> QED
      BY <1>1, <1>3, <2>1 DEF IInv, TypeOK
  <1>5. w \in Threads /\ w # Ui
    BY ConstantsAssumption DEF Threads
  <1>6. pc[w] \notin {"boot", "container"}
    BY DEF ReadInitialized, ReadAttached, Decide, StartCommand
  <1> QED
    BY <1>1, <1>2, <1>4, <1>5, <1>6, QuietStep

-----------------------------------------------------------------------------
(* Init of the orchestrator, launches and the guests of a child            *)

\* The first init takes the host's identity in a process that has no guest yet;
\* a later one changes nothing.
LEMMA InitStep ==
  ASSUME IInv, NEW t \in Threads, NEW place \in {"service", "ready", "attach"},
         Goto(t, place), Initialize \/ InitThrows,
         UNCHANGED <<role, lib, obs, guest>>,
         pc[t] # "container",
         t = Ui \/ (pc[Ui] # "boot" /\ role = "engine"),
         role = "child" => pc[Ui] = "boot" /\ place = "ready"
  PROVE  IInv'
  <1>1. /\ pc'[t] = place
        /\ \A u \in Threads \ {t} : pc'[u] = pc[u]
    BY Places DEF IInv
  <1>2. Ui \in Threads /\ Watchdogs \subseteq Threads /\ Ui \notin Watchdogs
    BY ConstantsAssumption DEF Threads
  <1>3. pc' \in [Threads -> {"none", "boot", "service", "ready", "container", "rest",
                            "sawInit", "sawAttached", "init", "attach", "target",
                            "resolve", "map", "start"}]
    BY DEF IInv, TypeOK, Goto
  <1>4. CASE UNCHANGED <<orch, vac, proxies, jvm, native, classes>>
    <2>1. TypeOK'
      BY <1>3, <1>4 DEF IInv, TypeOK
    <2>2. Agrees' /\ HostFirst' /\ OnlyCurrentGuest'
      BY <1>4 DEF IInv, Agrees, HostFirst, HostIdentity, OnlyCurrentGuest,
                  IsVirtualTarget
    <2>3. Fresh' /\ Named'
      BY <1>1, <1>2, <1>4 DEF IInv, Fresh, Named
    <2>4. Launching'
      BY <1>1, <1>2, <1>4 DEF IInv, Launching
    <2>5. ChildMap'
      BY <1>1, <1>2, <1>4 DEF IInv, ChildMap, IsVirtualTarget, Attaching
    <2> QED
      BY <2>1, <2>2, <2>3, <2>4, <2>5 DEF IInv
  <1>5. CASE /\ ~ orch.initialized
             /\ Container(Host)
             /\ orch' \in {orch, [orch EXCEPT !.initialized = TRUE]}
    <2>1. /\ vac' \in [ready : BOOLEAN, fake : Packages \cup {None},
                        info : Packages \cup {None}]
          /\ proxies' \in [override : Packages \cup {None}, cached : BOOLEAN,
                            static : BOOLEAN]
          /\ jvm' \in Redirects /\ native' \in Redirects
          /\ classes' \in Guests \cup {None}
          /\ vac'.ready
          /\ vac'.fake = FakeAfter(Host)
          /\ jvm'.data = IF vac.ready THEN jvm.data ELSE jvm.data \cup {Host}
          /\ jvm'.external = IF vac.ready THEN jvm.external ELSE "scoped"
          /\ Agrees'
      BY <1>5, ContainerAfter DEF IInv, Packages
    <2>2. orch' \in [initialized : BOOLEAN, attached : BOOLEAN, running : BOOLEAN,
                     module : {"none", "zero", "base"}]
      BY <1>5 DEF IInv, TypeOK
    <2>3. TypeOK'
      BY <1>3, <2>1, <2>2 DEF IInv, TypeOK
    <2>4. HostIdentity
      BY <1>5, ConstantsAssumption
      DEF IInv, TypeOK, HostFirst, Fresh, HostIdentity, NoRedirects
    <2>5. vac'.fake = Host /\ Host # None
      BY <2>1, <2>4, ConstantsAssumption
      DEF IInv, Named, HostIdentity, FakeAfter, Takes
    <2>6. jvm'.data \subseteq {Host}
      BY <2>1, <2>4 DEF HostIdentity
    <2>7. Fresh'
      BY <1>1, <1>2 DEF IInv, Fresh
    <2>8. Named'
      BY <1>1, <1>5, <2>5 DEF IInv, Named
    <2>9. HostFirst' /\ OnlyCurrentGuest'
      BY <2>5, <2>6 DEF HostFirst, HostIdentity, OnlyCurrentGuest
    <2>10. Launching'
      BY <1>1, <1>2, <1>5, <2>1 DEF IInv, Launching
    <2>11. ChildMap'
      <3>1. CASE role = "child"
        <4>1. pc[Ui] = "boot" /\ place = "ready" /\ t = Ui
          BY <3>1
        <4>2. ~ vac.ready /\ jvm'.external = "scoped"
          BY <2>1, <4>1 DEF IInv, Fresh
        <4> QED
          BY <1>1, <2>1, <2>6, <4>1, <4>2 DEF ChildMap, Attaching
      <3>2. CASE role # "child"
        BY <3>2 DEF ChildMap
      <3> QED
        BY <3>1, <3>2
    <2> QED
      BY <2>1, <2>3, <2>7, <2>8, <2>9, <2>10, <2>11 DEF IInv
  <1> QED
    BY <1>4, <1>5 DEF Initialize, InitThrows, containerVars

LEMMA LaunchStep ==
  ASSUME IInv, NEW g \in Guests, Launch(g)
  PROVE  IInv'
  <1>1. /\ UNCHANGED <<role, lib, orch, obs, native, classes>>
        /\ role = "main" /\ pc[Ui] = "ready" /\ orch.initialized
        /\ guest' = g
        /\ Goto(Ui, "container")
    BY DEF Launch, Shutdown, containerVars
  <1>2. Ui \in Threads /\ Watchdogs \subseteq Threads /\ Ui \notin Watchdogs
    BY ConstantsAssumption DEF Threads
  <1>3. /\ pc'[Ui] = "container"
        /\ \A u \in Threads \ {Ui} : pc'[u] = pc[u]
    BY <1>1, <1>2, Places DEF IInv
  <1>4. vac.ready /\ vac.fake # None
    BY <1>1 DEF IInv, Launching, Named
  <1>5. pc' \in [Threads -> {"none", "boot", "service", "ready", "container", "rest",
                            "sawInit", "sawAttached", "init", "attach", "target",
                            "resolve", "map", "start"}]
    BY <1>1 DEF IInv, TypeOK, Goto
  <1>6. CASE vac.fake \in {g, Host} /\ UNCHANGED <<vac, proxies, jvm>>
    <2>1. TypeOK'
      BY <1>1, <1>5, <1>6 DEF IInv, TypeOK
    <2>2. Agrees' /\ OnlyCurrentGuest'
      BY <1>1, <1>6 DEF IInv, Agrees, OnlyCurrentGuest, IsVirtualTarget
    <2>3. Fresh' /\ Named' /\ HostFirst' /\ ChildMap'
      BY <1>1, <1>2, <1>3, <1>6 DEF IInv, Fresh, Named, HostFirst, ChildMap
    <2>4. Launching'
      BY <1>1, <1>3, <1>4, <1>6 DEF Launching
    <2> QED
      BY <2>1, <2>2, <2>3, <2>4 DEF IInv
  <1>7. CASE Shutdown
    <2>1. /\ vac' = [vac EXCEPT !.ready = FALSE, !.info = None]
          /\ proxies' = [proxies EXCEPT !.cached = FALSE]
          /\ jvm' = NoRedirects
      BY <1>7 DEF Shutdown
    <2>2. ~ vac'.ready /\ vac'.fake = vac.fake /\ jvm'.data = {}
      BY <2>1 DEF IInv, TypeOK, NoRedirects
    <2>3. TypeOK'
      BY <1>1, <1>5, <2>1 DEF IInv, TypeOK, NoRedirects, Redirects
    <2>4. Agrees' /\ OnlyCurrentGuest'
      BY <2>2 DEF Agrees, OnlyCurrentGuest
    <2>5. Fresh' /\ Named' /\ HostFirst' /\ ChildMap'
      BY <1>1, <1>2, <1>3, <1>4, <2>2 DEF IInv, Fresh, Named, HostFirst, ChildMap
    <2>6. Launching'
      BY <1>1, <1>3, <2>2 DEF Launching
    <2> QED
      BY <2>3, <2>4, <2>5, <2>6 DEF IInv
  <1> QED
    BY <1>4, <1>6, <1>7 DEF Launch, containerVars

LEMMA LaunchContainerStep ==
  ASSUME IInv, LaunchContainer
  PROVE  IInv'
  <1>1. /\ UNCHANGED <<role, lib, orch, obs>>
        /\ pc[Ui] = "container" /\ Container(guest)
        /\ guest' = None
    BY DEF LaunchContainer
  <1>2. PICK place \in {"start", "ready"} : Goto(Ui, place)
    BY DEF LaunchContainer
  <1>3. Ui \in Threads /\ Watchdogs \subseteq Threads /\ Ui \notin Watchdogs
    BY ConstantsAssumption DEF Threads
  <1>4. /\ pc'[Ui] = place
        /\ \A u \in Threads \ {Ui} : pc'[u] = pc[u]
    BY <1>2, <1>3, Places DEF IInv
  <1>5. /\ role = "main" /\ orch.initialized /\ guest \in Guests
        /\ IF vac.ready THEN vac.fake \in {guest, Host} ELSE jvm.data = {}
    BY <1>1 DEF IInv, Launching
  <1>6. /\ vac' \in [ready : BOOLEAN, fake : Packages \cup {None},
                      info : Packages \cup {None}]
        /\ proxies' \in [override : Packages \cup {None}, cached : BOOLEAN,
                          static : BOOLEAN]
        /\ jvm' \in Redirects /\ native' \in Redirects
        /\ classes' \in Guests \cup {None}
        /\ vac'.ready
        /\ vac'.fake = FakeAfter(guest)
        /\ jvm'.data = IF vac.ready THEN jvm.data ELSE jvm.data \cup {guest}
        /\ Agrees'
    BY <1>1, <1>5, ContainerAfter DEF IInv, Packages
  <1>7. vac'.fake = guest /\ guest # None
    BY <1>5, <1>6, ConstantsAssumption DEF FakeAfter, Takes
  <1>8. TypeOK'
    <2>1. pc' \in [Threads -> {"none", "boot", "service", "ready", "container", "rest",
                              "sawInit", "sawAttached", "init", "attach", "target",
                              "resolve", "map", "start"}]
      BY <1>2 DEF IInv, TypeOK, Goto
    <2> QED
      BY <1>1, <1>6, <2>1 DEF IInv, TypeOK
  <1>9. Fresh' /\ Named' /\ HostFirst' /\ ChildMap'
    BY <1>1, <1>3, <1>4, <1>5, <1>7 DEF IInv, Fresh, Named, HostFirst, ChildMap
  <1>10. Launching'
    BY <1>4, <1>6 DEF Launching
  <1>11. OnlyCurrentGuest'
    BY <1>5, <1>6, <1>7 DEF IInv, OnlyCurrentGuest
  <1> QED
    BY <1>6, <1>8, <1>9, <1>10, <1>11 DEF IInv

LEMMA CreateStep ==
  ASSUME IInv, NEW g \in Guests, Create(g)
  PROVE  IInv'
  <1>1. /\ UNCHANGED <<role, lib, orch, obs, guest>>
        /\ role = "child" /\ pc[Ui] = "ready" /\ Container(g)
        /\ Goto(Ui, "attach")
    BY DEF Create
  <1>2. Ui \in Threads /\ Watchdogs \subseteq Threads /\ Ui \notin Watchdogs
    BY ConstantsAssumption DEF Threads
  <1>3. /\ pc'[Ui] = "attach"
        /\ \A u \in Threads \ {Ui} : pc'[u] = pc[u]
    BY <1>1, <1>2, Places DEF IInv
  <1>4. g \notin {Host, None}
    BY ConstantsAssumption
  <1>5. /\ vac' \in [ready : BOOLEAN, fake : Packages \cup {None},
                      info : Packages \cup {None}]
        /\ proxies' \in [override : Packages \cup {None}, cached : BOOLEAN,
                          static : BOOLEAN]
        /\ jvm' \in Redirects /\ native' \in Redirects
        /\ classes' \in Guests \cup {None}
        /\ vac'.ready
        /\ vac'.fake = FakeAfter(g)
        /\ jvm'.data = IF vac.ready THEN jvm.data ELSE jvm.data \cup {g}
        /\ jvm'.external = IF vac.ready THEN jvm.external ELSE "scoped"
        /\ Agrees'
    BY <1>1, ContainerAfter DEF IInv, Packages
  <1>6. vac'.fake = g
    BY <1>4, <1>5 DEF FakeAfter, Takes
  <1>7. TypeOK'
    <2>1. pc' \in [Threads -> {"none", "boot", "service", "ready", "container", "rest",
                              "sawInit", "sawAttached", "init", "attach", "target",
                              "resolve", "map", "start"}]
      BY <1>1 DEF IInv, TypeOK, Goto
    <2> QED
      BY <1>1, <1>5, <2>1 DEF IInv, TypeOK
  <1>8. Fresh' /\ Named' /\ HostFirst' /\ Launching'
    BY <1>1, <1>2, <1>3, <1>4, <1>6
    DEF IInv, Fresh, Named, HostFirst, Launching
  <1>9. ChildMap'
    BY <1>1, <1>4, <1>5, <1>6 DEF IInv, ChildMap, IsVirtualTarget
  <1>10. OnlyCurrentGuest'
    BY <1>1, <1>5 DEF IInv, ChildMap, OnlyCurrentGuest
  <1> QED
    BY <1>5, <1>7, <1>8, <1>9, <1>10 DEF IInv

-----------------------------------------------------------------------------
(* The theorems                                                            *)

LEMMA InitIInv == Init => IInv
  <1> SUFFICES ASSUME Init PROVE IInv
    OBVIOUS
  <1>1. Ui \in Threads /\ Watchdogs \subseteq Threads /\ Ui \notin Watchdogs
    BY ConstantsAssumption DEF Threads
  <1>2. TypeOK
    BY <1>1 DEF Init, TypeOK, NoRedirects, Redirects
  <1>3. pc[Ui] = "boot" /\ \A t \in Threads \ {Ui} : pc[t] = "none"
    BY <1>1 DEF Init
  <1>4. Agrees /\ OnlyCurrentGuest /\ HostFirst
    BY DEF Init, Agrees, OnlyCurrentGuest, HostFirst, HostIdentity, NoRedirects
  <1>5. Fresh /\ Named /\ Launching /\ ChildMap
    BY <1>1, <1>3
    DEF Init, Fresh, Named, Launching, ChildMap, Attaching, NoRedirects
  <1> QED
    BY <1>2, <1>4, <1>5 DEF IInv

LEMMA StepIInv == IInv /\ [Next]_vars => IInv'
  <1> SUFFICES ASSUME IInv, [Next]_vars PROVE IInv'
    OBVIOUS
  <1>1. Ui \in Threads /\ Watchdogs \subseteq Threads /\ Ui \notin Watchdogs
    BY ConstantsAssumption DEF Threads
  <1>2. CASE Boot
    BY <1>1, <1>2, InitStep DEF Boot
  <1>3. CASE Bridge
    BY <1>1, <1>3, InitStep DEF Bridge
  <1>4. CASE Daemon
    BY <1>1, <1>4, InitStep DEF Daemon
  <1>5. CASE LaunchContainer
    BY <1>5, LaunchContainerStep
  <1>6. CASE Engine(Ui)
    BY <1>1, <1>6, EngineStep
  <1>7. CASE \E g \in Guests : Launch(g) \/ Create(g)
    BY <1>7, LaunchStep, CreateStep
  <1>8. ASSUME NEW w \in Watchdogs,
               StartCommand(w) \/ Watch(w) \/ WatchdogInitThrows(w) \/ RaceLost(w)
        PROVE  IInv'
    <2>1. pc[Ui] # "boot" /\ role = "engine"
      BY <1>8 DEF IInv, Fresh, StartCommand, Watch, ReadInitialized, ReadAttached,
                  Decide, WatchdogInit, WatchdogInitThrows, Engine, RaceLost, Attach,
                  AttachTarget, AttachResolve, AttachMap, AttachFails, Start
    <2>2. CASE \/ StartCommand(w) \/ ReadInitialized(w) \/ ReadAttached(w)
               \/ Decide(w)
      BY <2>1, <2>2, WatchStep
    <2>3. CASE WatchdogInit(w) \/ WatchdogInitThrows(w)
      BY <1>1, <2>1, <2>3, InitStep DEF WatchdogInit, WatchdogInitThrows
    <2>4. CASE Engine(w) \/ RaceLost(w)
      BY <1>1, <2>1, <2>4, EngineStep
    <2> QED
      BY <1>8, <2>2, <2>3, <2>4 DEF Watch
  <1>9. CASE UNCHANGED vars
    BY <1>9
    DEF vars, containerVars, threadVars, IInv, TypeOK, Agrees, Fresh, Named,
        HostFirst, HostIdentity, Launching, ChildMap, OnlyCurrentGuest,
        IsVirtualTarget
  <1> QED
    BY <1>2, <1>3, <1>4, <1>5, <1>6, <1>7, <1>8, <1>9 DEF Next

\* The inductive invariant: whatever fails and however the threads of the process
\* are interleaved.
THEOREM Invariant == Spec => []IInv
  <1> QED
    BY InitIInv, StepIInv, PTL DEF Spec

\* Every flag, identity and redirect keeps to its values.
THEOREM TypeCorrect == Spec => []TypeOK
  <1>1. IInv => TypeOK
    BY DEF IInv
  <1> QED
    BY <1>1, Invariant, PTL

\* The container, its ApplicationInfo, the proxies and the native class rules
\* stand for one package whenever the main thread is between two operations.
THEOREM IdentitySafety == Spec => []IdentityAgrees
  <1>1. IInv => IdentityAgrees
    BY DEF IInv, Agrees, IdentityAgrees
  <1> QED
    BY <1>1, Invariant, PTL

\* No launch leaves the data of an earlier guest redirected in the JVM.
THEOREM GuestSafety == Spec => []OnlyCurrentGuest
  <1>1. IInv => OnlyCurrentGuest
    BY DEF IInv
  <1> QED
    BY <1>1, Invariant, PTL

\* Attaching the engine never replaces the redirects of a child's guest.
THEOREM MapSafety == Spec => []GuestMapKept
  <1>1. IInv => GuestMapKept
    BY DEF IInv, ChildMap, GuestMapKept, IsVirtualTarget
  <1> QED
    BY <1>1, Invariant, PTL
=============================================================================
