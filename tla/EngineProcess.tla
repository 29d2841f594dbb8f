--------------------------- MODULE EngineProcess ---------------------------
(***************************************************************************)
(* One process of the app: the state of AetherOrchestrator, the identity   *)
(* VirtualAppContainer gives the process, the redirects of VirtualFS in    *)
(* the JVM and in libaether.so, and the proxies of ServiceBinderProxy.     *)
(*                                                                         *)
(* In the main process EngineBridge attaches the engine and launches       *)
(* guests; in a child :pN each ProxyActivity takes the identity of its     *)
(* guest; in :engine every start command of AetherDaemonService adds a     *)
(* watchdog thread that never ends.  None of the state has a lock.         *)
(*                                                                         *)
(* Every caller attaches the engine to its own process, so the pid is left *)
(* out.  A redirect is the package whose data it is for: the host's lead   *)
(* to the host's directory and a guest's to its sandbox.                   *)
(***************************************************************************)
EXTENDS Naturals

CONSTANTS
  Host,       \* the app's own package, com.aether
  Guests,     \* guest packages
  None,       \* no package
  Ui,         \* the main thread of the process
  Watchdogs,  \* bound: the watchdog threads that start commands add
  Faults      \* which of FaultKinds may happen

(***************************************************************************)
(* noLib       libaether.so is missing, or the other engine was chosen     *)
(* initFails   AetherOrchestrator.init throws                              *)
(* mountFails  the sandbox of a launch cannot be prepared                  *)
(* mapsRace    two threads in ModuleResolver's unguarded cache: one of     *)
(*             them may miss the module                                    *)
(***************************************************************************)
FaultKinds == {"noLib", "initFails", "mountFails", "mapsRace"}

ASSUME ConstantsAssumption ==
  /\ Host \notin Guests
  /\ None \notin Guests \cup {Host}
  /\ Ui \notin Watchdogs
  /\ Faults \subseteq FaultKinds

VARIABLES
  role,     \* AetherApp.processRole
  lib,      \* is libaether.so mapped; without it every native call throws
  orch,     \* AetherOrchestrator's flags and targetModule
  vac,      \* VirtualAppContainer: ready, fakePackageName, fakeApplicationInfo
  proxies,  \* ServiceBinderProxy: override, in sCache, in the static caches
  jvm,      \* VirtualFSWrapper.redirects
  native,   \* g_vfs, the redirects of libaether.so
  classes,  \* the guest of the native class rules
  pc,       \* what each thread is about to do
  obs,      \* what a watchdog has read in this round
  guest     \* the package of the launch under way

containerVars == <<vac, proxies, jvm, native, classes>>
threadVars == <<pc, obs, guest>>
vars == <<role, lib, orch, containerVars, threadVars>>

Packages == Guests \cup {Host}
Threads == Watchdogs \cup {Ui}
Redirects == [data : SUBSET Packages, external : {"none", "open", "scoped"}]
NoRedirects == [data |-> {}, external |-> "none"]

TypeOK ==
  /\ role \in {"main", "child", "engine"}
  /\ lib \in BOOLEAN
  /\ orch \in [initialized : BOOLEAN, attached : BOOLEAN, running : BOOLEAN,
               module : {"none", "zero", "base"}]
  /\ vac \in [ready : BOOLEAN, fake : Packages \cup {None},
              info : Packages \cup {None}]
  /\ proxies \in [override : Packages \cup {None}, cached : BOOLEAN,
                  static : BOOLEAN]
  /\ jvm \in Redirects
  /\ native \in Redirects
  /\ classes \in Guests \cup {None}
  /\ pc \in [Threads -> {"none", "boot", "service", "ready", "container", "rest",
                         "sawInit", "sawAttached", "init", "attach", "target",
                         "resolve", "map", "start"}]
  /\ obs \in [Watchdogs -> [initialized : BOOLEAN, attached : BOOLEAN]]
  /\ guest \in Guests \cup {None}

May(fault) == fault \in Faults

Init ==
  /\ role \in {"main", "child", "engine"}
  /\ lib \in IF May("noLib") THEN BOOLEAN ELSE {TRUE}
  /\ orch = [initialized |-> FALSE, attached |-> FALSE, running |-> FALSE,
             module |-> "none"]
  /\ vac = [ready |-> FALSE, fake |-> None, info |-> None]
  /\ proxies = [override |-> None, cached |-> FALSE, static |-> FALSE]
  /\ jvm = NoRedirects /\ native = NoRedirects /\ classes = None
  /\ pc = [t \in Threads |-> IF t = Ui THEN "boot" ELSE "none"]
  /\ obs = [w \in Watchdogs |-> [initialized |-> FALSE, attached |-> FALSE]]
  /\ guest = None

Goto(t, place) == pc' = [pc EXCEPT ![t] = place]

\* Where a thread is when its work is done.
Done(t) == IF t = Ui THEN "ready" ELSE "rest"

IsVirtualTarget == vac.fake \notin {Host, None}

-----------------------------------------------------------------------------
(* VirtualFSWrapper and VirtualAppContainer                                *)

\* setupForApp: what is set before stays unless it is set again.
SetupForApp(redirects, pkg, external) ==
  [data |-> redirects.data \cup {pkg}, external |-> external]

\* addIORule for each of them; what the JVM has dropped stays.
Pushed(redirects) ==
  IF lib
  THEN [data |-> native.data \cup redirects.data,
        external |-> IF redirects.external = "none" THEN native.external
                     ELSE redirects.external]
  ELSE native

\* Whether init(pkg) changes the identity of the process, and what it is then.
Takes(pkg) == ~ vac.ready \/ (pkg # Host /\ vac.fake # pkg)
FakeAfter(pkg) == IF Takes(pkg) THEN pkg ELSE vac.fake

\* init: the identity, the redirects of a first init, and the rules of setup.
Retarget(pkg) ==
  /\ vac' = [ready |-> TRUE, fake |-> FakeAfter(pkg),
             info |-> IF Takes(pkg) THEN pkg ELSE vac.info]
  /\ jvm' = IF vac.ready THEN jvm ELSE SetupForApp(jvm, pkg, "scoped")
  /\ native' = Pushed(jvm')

\* Mutants of Container: proxies installed before keep their identity; class
\* rules are registered without a guest too.
ContainerOldProxies(pkg) ==
  /\ Retarget(pkg)
  /\ proxies' = [override |-> IF vac.ready THEN proxies.override ELSE FakeAfter(pkg),
                 cached |-> TRUE, static |-> TRUE]
  /\ classes' = IF lib /\ FakeAfter(pkg) # Host THEN FakeAfter(pkg) ELSE classes

ContainerHostClasses(pkg) ==
  /\ Retarget(pkg)
  /\ proxies' = [override |-> FakeAfter(pkg), cached |-> TRUE, static |-> TRUE]
  /\ classes' = IF lib THEN FakeAfter(pkg) ELSE classes

\* init, then setup.  A container in use takes a guest's name but sets up no
\* redirects for it.  Rules pushed once more change nothing.
Container(pkg) ==
  /\ Retarget(pkg)
  /\ proxies' = [override |-> FakeAfter(pkg), cached |-> TRUE, static |-> TRUE]
  /\ classes' = IF lib /\ FakeAfter(pkg) # Host THEN FakeAfter(pkg) ELSE classes

\* Mutant of Shutdown: the redirects stay.
ShutdownKeepsRedirects ==
  /\ vac' = [vac EXCEPT !.ready = FALSE, !.info = None]
  /\ proxies' = [proxies EXCEPT !.cached = FALSE]
  /\ UNCHANGED <<jvm, native, classes>>

\* fakePackageName, the identity of the proxies, the proxies in the static
\* caches and all that libaether.so holds stay.
Shutdown ==
  /\ vac' = [vac EXCEPT !.ready = FALSE, !.info = None]
  /\ proxies' = [proxies EXCEPT !.cached = FALSE]
  /\ jvm' = NoRedirects
  /\ UNCHANGED <<native, classes>>

-----------------------------------------------------------------------------
(* AetherOrchestrator                                                      *)

\* init
Initialize ==
  IF orch.initialized
  THEN UNCHANGED <<orch, containerVars>>
  ELSE Container(Host) /\ orch' = [orch EXCEPT !.initialized = TRUE]

\* init throws before or after the container is set up.
InitThrows ==
  /\ May("initFails")
  /\ ~ orch.initialized
  /\ Container(Host) \/ UNCHANGED containerVars
  /\ UNCHANGED orch

\* attachToProcess: the early returns.
Attach(t) ==
  /\ pc[t] = "attach"
  /\ Goto(t, CASE ~ orch.initialized -> Done(t)
               [] orch.attached      -> "start"
               [] OTHER              -> "target")
  /\ UNCHANGED <<role, lib, orch, containerVars, obs, guest>>

AttachTarget(t) ==
  /\ pc[t] = "target"
  /\ orch' = [orch EXCEPT !.module = "zero"]
  /\ Goto(t, "resolve")
  /\ UNCHANGED <<role, lib, containerVars, obs, guest>>

AttachResolve(t) ==
  /\ pc[t] = "resolve"
  /\ lib
  /\ orch' = [orch EXCEPT !.module = "base"]
  /\ Goto(t, "map")
  /\ UNCHANGED <<role, lib, containerVars, obs, guest>>

\* Mutant of AttachMap: a guest's redirects are set up anew.
AttachMapClobbers(t) ==
  /\ pc[t] = "map"
  /\ jvm' = SetupForApp(jvm, vac.fake, "open")
  /\ native' = Pushed(jvm')
  /\ orch' = [orch EXCEPT !.attached = TRUE]
  /\ Goto(t, "start")
  /\ UNCHANGED <<role, lib, vac, proxies, classes, obs, guest>>

\* The redirects are left alone while the process has a guest's name.
AttachMap(t) ==
  /\ pc[t] = "map"
  /\ jvm' = IF IsVirtualTarget THEN jvm ELSE SetupForApp(jvm, vac.fake, "open")
  /\ native' = IF IsVirtualTarget THEN native ELSE Pushed(jvm')
  /\ orch' = [orch EXCEPT !.attached = TRUE]
  /\ Goto(t, "start")
  /\ UNCHANGED <<role, lib, vac, proxies, classes, obs, guest>>

\* What was set so far stays.
AttachFails(t) ==
  /\ pc[t] = "resolve" /\ ~ lib
  /\ Goto(t, Done(t))
  /\ UNCHANGED <<role, lib, orch, containerVars, obs, guest>>

RaceLost(t) ==
  /\ May("mapsRace")
  /\ pc[t] \in {"resolve", "map"}
  /\ \E u \in Threads \ {t} : pc[u] \in {"resolve", "map"}
  /\ Goto(t, Done(t))
  /\ UNCHANGED <<role, lib, orch, containerVars, obs, guest>>

\* startEngine
Start(t) ==
  /\ pc[t] = "start"
  /\ orch' = [orch EXCEPT !.running = @ \/ orch.attached]
  /\ native' = IF orch.attached /\ ~ orch.running THEN Pushed(jvm) ELSE native
  /\ Goto(t, Done(t))
  /\ UNCHANGED <<role, lib, vac, proxies, jvm, classes, obs, guest>>

Engine(t) ==
  \/ Attach(t) \/ AttachTarget(t) \/ AttachResolve(t) \/ AttachMap(t)
  \/ AttachFails(t) \/ Start(t)

-----------------------------------------------------------------------------
(* The main thread                                                         *)

\* AetherApp.onCreate
Boot ==
  /\ pc[Ui] = "boot"
  /\ Initialize \/ InitThrows
  /\ Goto(Ui, IF role = "child" THEN "ready" ELSE "service")
  /\ UNCHANGED <<role, lib, obs, guest>>

\* EngineBridge.init, at each start of the UI
Bridge ==
  /\ role = "main"
  /\ pc[Ui] \in {"service", "ready"}
  /\ Initialize \/ InitThrows
  /\ Goto(Ui, IF orch.attached THEN "ready" ELSE "attach")
  /\ UNCHANGED <<role, lib, obs, guest>>

\* AetherDaemonService.onCreate.  It takes the class for the library and never
\* loads it.
Daemon ==
  /\ role = "engine"
  /\ pc[Ui] = "service"
  /\ Initialize \/ InitThrows
  /\ Goto(Ui, "ready")
  /\ UNCHANGED <<role, lib, obs, guest>>

\* onStartCommand
StartCommand(w) ==
  /\ role = "engine"
  /\ pc[Ui] = "ready"
  /\ pc[w] = "none"
  /\ Goto(w, "rest")
  /\ UNCHANGED <<role, lib, orch, containerVars, obs, guest>>

\* launchInSandbox up to init: the container of another guest is shut down.
Launch(g) ==
  /\ role = "main"
  /\ pc[Ui] = "ready"
  /\ orch.initialized
  /\ guest' = g
  /\ IF vac.ready /\ vac.fake \notin {g, Host}
     THEN Shutdown ELSE UNCHANGED containerVars
  /\ Goto(Ui, "container")
  /\ UNCHANGED <<role, lib, orch, obs>>

\* The rest of it, up to startEngine; GuestSlots has what follows.
LaunchContainer ==
  /\ pc[Ui] = "container"
  /\ Container(guest)
  /\ \/ Goto(Ui, "start")
     \/ May("mountFails") /\ Goto(Ui, "ready")
  /\ guest' = None
  /\ UNCHANGED <<role, lib, orch, obs>>

\* ProxyActivity.onCreate, steps 1 and 2
Create(g) ==
  /\ role = "child"
  /\ pc[Ui] = "ready"
  /\ Container(g)
  /\ Goto(Ui, "attach")
  /\ UNCHANGED <<role, lib, orch, obs, guest>>

-----------------------------------------------------------------------------
(* A watchdog thread of AetherDaemonService                                *)

ReadInitialized(w) ==
  /\ pc[w] = "rest"
  /\ obs' = [obs EXCEPT ![w].initialized = orch.initialized]
  /\ Goto(w, "sawInit")
  /\ UNCHANGED <<role, lib, orch, containerVars, guest>>

ReadAttached(w) ==
  /\ pc[w] = "sawInit"
  /\ obs' = [obs EXCEPT ![w].attached = orch.attached]
  /\ Goto(w, "sawAttached")
  /\ UNCHANGED <<role, lib, orch, containerVars, guest>>

\* Mutant of Case: an engine that is not initialised is left to others.
CaseNoInit(seen) ==
  CASE seen.initialized /\ ~ seen.attached -> "attach"
    [] seen.attached /\ ~ orch.running     -> "start"
    [] OTHER                               -> "rest"

\* The cases of the loop.  An engine that runs is healthy: the native check only
\* fails where the library is missing.
Case(seen) ==
  CASE seen.initialized /\ ~ seen.attached -> "attach"
    [] seen.attached /\ ~ orch.running     -> "start"
    [] seen.initialized                    -> "rest"
    [] OTHER                               -> "init"

Decide(w) ==
  /\ pc[w] = "sawAttached"
  /\ Goto(w, Case(obs[w]))
  /\ UNCHANGED <<role, lib, orch, containerVars, obs, guest>>

WatchdogInit(w) ==
  /\ pc[w] = "init"
  /\ Initialize
  /\ Goto(w, "attach")
  /\ UNCHANGED <<role, lib, obs, guest>>

WatchdogInitThrows(w) ==
  /\ pc[w] = "init"
  /\ InitThrows
  /\ Goto(w, "attach")
  /\ UNCHANGED <<role, lib, obs, guest>>

Watch(w) ==
  \/ ReadInitialized(w) \/ ReadAttached(w) \/ Decide(w)
  \/ WatchdogInit(w) \/ Engine(w)

-----------------------------------------------------------------------------
Next ==
  \/ Boot \/ Bridge \/ Daemon \/ LaunchContainer \/ Engine(Ui)
  \/ \E g \in Guests : Launch(g) \/ Create(g)
  \/ \E w \in Watchdogs :
       StartCommand(w) \/ Watch(w) \/ WatchdogInitThrows(w) \/ RaceLost(w)

Spec == Init /\ [][Next]_vars

(***************************************************************************)
(* Threads go on; the process that starts the app sends a start command;   *)
(* init throws, and the race is lost, only finitely often.                 *)
(***************************************************************************)
Fairness ==
  /\ WF_vars(Boot) /\ WF_vars(Daemon)
  /\ WF_vars(\E w \in Watchdogs : StartCommand(w))
  /\ \A w \in Watchdogs : WF_vars(Watch(w))
  /\ <>[][~ \E w \in Watchdogs : WatchdogInitThrows(w) \/ RaceLost(w)]_vars

FairSpec == Spec /\ Fairness

-----------------------------------------------------------------------------
(* Properties                                                              *)

AtRest == pc[Ui] = "ready"

\* Between two operations of the main thread the container, its ApplicationInfo,
\* the proxies and the native class rules stand for one and the same package,
\* through any series of launches (VirtualAppContainer.init, setup, shutdown).
IdentityAgrees ==
  AtRest /\ vac.ready =>
    /\ vac.info = vac.fake
    /\ proxies.override = vac.fake
    /\ lib /\ IsVirtualTarget => classes = vac.fake

\* In a process whose init went through, no launch leaves the data of an earlier
\* guest redirected in the JVM (launchInSandbox 491-498, shutdown 334-342).
OnlyCurrentGuest == orch.initialized => jvm.data \subseteq {Host, vac.fake}

\* Attaching the engine in a guest's process never replaces the redirects its
\* container has set up (attachToProcess 217-232).
GuestMapKept == role = "child" /\ IsVirtualTarget => jvm.external = "scoped"

\* Wherever the library is mapped, the engine of :engine comes up once a
\* watchdog has been started, whatever failed before, and stays up
\* (AetherDaemonService.onStartCommand).
EngineComesUp ==
  role = "engine" /\ lib /\ (\E w \in Watchdogs : pc[w] # "none")
    ~> [](orch.initialized /\ orch.attached /\ orch.running)

(***************************************************************************)
(* What these invariants rest on                                           *)
(***************************************************************************)
Attaching == {"attach", "target", "resolve", "map", "start"}

HostIdentity == vac.fake \in {Host, None} /\ jvm.data \subseteq {Host}

\* Wherever the container is in use its parts agree.
Agrees ==
  vac.ready =>
    /\ vac.info = vac.fake
    /\ proxies.override = vac.fake
    /\ lib /\ IsVirtualTarget => classes = vac.fake

\* A process that has not booted has no identity, and only a booted :engine has
\* watchdogs.
Fresh ==
  /\ pc[Ui] = "boot" =>
       ~ orch.initialized /\ ~ vac.ready /\ vac.fake = None /\ jvm = NoRedirects
  /\ pc[Ui] = "boot" \/ role # "engine" => \A w \in Watchdogs : pc[w] = "none"

\* The engine is attached after it was initialised, and any init of the container
\* names the process.
Named ==
  /\ orch.initialized \/ vac.ready => vac.fake # None
  /\ \A t \in Threads : pc[t] \in {"target", "resolve", "map"} => orch.initialized

\* Guests come after a successful init, and never to :engine.
HostFirst ==
  role = "engine" \/ (role = "main" /\ ~ orch.initialized) => HostIdentity

\* A container that was shut down is on its way to the next guest, and one that
\* was not is the guest's already or the host's.
Launching ==
  /\ role = "main" /\ orch.initialized /\ ~ vac.ready => pc[Ui] = "container"
  /\ pc[Ui] = "container" =>
       /\ role = "main" /\ orch.initialized /\ guest \in Guests
       /\ IF vac.ready THEN vac.fake \in {guest, Host} ELSE jvm.data = {}

\* A child has its map from its first init, and attaches as a guest only.
ChildMap ==
  role = "child" =>
    /\ IF vac.ready THEN jvm.external = "scoped" ELSE vac.fake = None
    /\ orch.initialized => vac.ready /\ jvm.data \subseteq {Host}
    /\ pc[Ui] \in Attaching => IsVirtualTarget

\* The inductive invariant of EngineProcess_proofs.
IInv ==
  /\ TypeOK /\ Agrees /\ Fresh /\ Named /\ HostFirst /\ Launching /\ ChildMap
  /\ OnlyCurrentGuest

(***************************************************************************)
(* What the comments say of the code, and the code does not keep           *)
(***************************************************************************)

\* The data of a guest whose process has taken its identity is redirected into
\* the sandbox (VirtualAppContainer.setupVirtualFS 351-357).
GuestRedirected ==
  AtRest /\ vac.ready /\ IsVirtualTarget => vac.fake \in jvm.data

\* "Clear all state" (VirtualAppContainer.shutdown 331).
ShutdownClears ==
  ~ vac.ready => jvm = NoRedirects /\ native = NoRedirects /\ ~ proxies.static

\* targetModule is "resolved by native" (attachToProcess 191): an attached engine
\* that no thread is attaching knows its module.
AttachedResolved ==
  orch.attached /\ (\A t \in Threads : pc[t] \notin {"target", "resolve", "map"})
    => orch.module = "base"

\* AetherDaemonService.onCreate leaves :engine with the library
\* (AetherDaemonService 33-38, 60-63).
DaemonHasEngine == role = "engine" /\ AtRest => lib
=============================================================================
