---------------------------- MODULE GuestSession ----------------------------
(***************************************************************************)
(* The launches that one guest process :pN serves, one after another or    *)
(* overlapping.                                                            *)
(*                                                                         *)
(* ProxyActivity (onCreate, recreate, onDestroy), GuestRuntimeBridge,      *)
(* GuestRuntime, the v1 loader it falls back to, and the part of           *)
(* AetherInstrumentation that swaps the stub for the guest's activity.     *)
(*                                                                         *)
(* All of it runs on the main thread of the process, so that a callback is *)
(* one step; what interleaves is the order in which the framework delivers *)
(* the callbacks of several activities.  The provider handshake of a       *)
(* launch, which GuestSlots has in full, is one step here (Start).         *)
(***************************************************************************)
EXTENDS Integers, FiniteSets

CONSTANTS
  Launches,   \* bound: the launches that may be dispatched here
  Guests,     \* guest packages
  NoGuest,    \* null ClientConfig
  Host,       \* the host Application; no launch
  Faults      \* the FaultKinds that may happen; hiddenApi, then, always does

(***************************************************************************)
(* noLauncher   the guest's manifest names no launcher activity            *)
(* buildFails   GuestRuntime.Builder.build returns a failure               *)
(* noSandbox    a launch's intent carries no target_sandbox                *)
(* hiddenApi    the application fields of ActivityThread are out of reach  *)
(* onCreateV1   Application.onCreate of a guest throws under v1            *)
(* hookFails    AetherInstrumentation.install returns false                *)
(* swapFails    the guest activity cannot be instantiated                  *)
(* processDies  the process is killed                                      *)
(***************************************************************************)
FaultKinds ==
  {"noLauncher", "buildFails", "noSandbox", "hiddenApi", "onCreateV1",
   "hookFails", "swapFails", "processDies"}

ASSUME ConstantsAssumption ==
  /\ Host \notin Launches
  /\ NoGuest \notin Guests
  /\ Faults \subseteq FaultKinds

VARIABLES
  act,      \* framework: phase of the activity of each launch
  pkg,      \* intent: target_package of each launch
  config,   \* GuestProcessHolder.config, its package
  proc,     \* ActivityThread's applications, and the state of the runtimes
  active,   \* GuestRuntimeBridge.activeRuntime, or Host for null
  wrapper   \* the launch whose loader the instrumentation wrapper has, or Host

vars == <<act, pkg, config, proc, active, wrapper>>

\* waiting: not dispatched; created: the stub loaded its guest and asked for
\* recreate(); guest: swapped; finishing: finish() called, onDestroy to come.
Phase == {"waiting", "starting", "created", "guest", "finishing", "gone"}

\* v1: an application bound by VirtualAppLoader, which has no runtime.
RuntimeState == {"none", "active", "destroyed", "v1"}

TypeOK ==
  /\ act \in [Launches -> Phase]
  /\ pkg \in [Launches -> Guests \cup {NoGuest}]
  /\ config \in Guests \cup {NoGuest}
  /\ proc \in [rt : [Launches -> RuntimeState],
               initialApp : Launches \cup {Host},
               allApps : SUBSET Launches]
  /\ active \in Launches \cup {Host}
  /\ wrapper \in Launches \cup {Host}

FreshProcess ==
  [rt |-> [l \in Launches |-> "none"], initialApp |-> Host, allApps |-> {}]

Init ==
  /\ act = [l \in Launches |-> "waiting"]
  /\ pkg = [l \in Launches |-> NoGuest]
  /\ config = NoGuest
  /\ proc = FreshProcess
  /\ active = Host
  /\ wrapper = Host

-----------------------------------------------------------------------------
(* GuestRuntime                                                            *)

May(fault) == fault \in Faults

\* bindToActivityThread. It says true even where no field can be written
\* (bindAllApplications, bindResources); its two refusals cannot be met, for
\* build has attached a base context and the process has an ActivityThread.
Bound(p, l) ==
  IF May("hiddenApi") THEN [p EXCEPT !.rt[l] = "active"]
  ELSE [p EXCEPT !.rt[l] = "active", !.initialApp = l, !.allApps = @ \cup {l}]

\* Mutants of Closed: null comes back for the host, or nothing does; the guest
\* stays listed; the host comes back over any guest.
ClosedToNull(p, l) ==
  IF l = Host \/ p.rt[l] = "destroyed" THEN p
  ELSE [p EXCEPT !.rt[l] = "destroyed",
                 !.initialApp = IF @ = l THEN NoGuest ELSE @,
                 !.allApps = @ \ {l}]

ClosedNoRestore(p, l) ==
  IF l = Host \/ p.rt[l] = "destroyed" THEN p
  ELSE [p EXCEPT !.rt[l] = "destroyed", !.allApps = @ \ {l}]

ClosedStillListed(p, l) ==
  IF l = Host \/ p.rt[l] = "destroyed" THEN p
  ELSE [p EXCEPT !.rt[l] = "destroyed",
                 !.initialApp = IF @ = l THEN Host ELSE @]

ClosedAlwaysRestores(p, l) ==
  IF l = Host \/ p.rt[l] = "destroyed" THEN p
  ELSE [p EXCEPT !.rt[l] = "destroyed",
                 !.initialApp = Host,
                 !.allApps = @ \ {l}]

\* close(): the host comes back only if the guest is the current application.
Closed(p, l) ==
  IF l = Host \/ p.rt[l] = "destroyed" THEN p
  ELSE [p EXCEPT !.rt[l] = "destroyed",
                 !.initialApp = IF @ = l THEN Host ELSE @,
                 !.allApps = @ \ {l}]

-----------------------------------------------------------------------------
(* GuestRuntimeBridge.load: v2, and v1 where it fails                      *)

\* Mutants of LoadedV2: the previous runtime is not closed, or the new one is
\* closed in its place.
LoadedV2NoClose(l) == Bound(Bound(proc, l), l)

LoadedV2CloseNew(l) == Closed(Bound(proc, l), l)

\* build binds once, the previous runtime is closed, and it is bound again.
LoadedV2(l) == Bound(Closed(Bound(proc, l), active), l)

\* VirtualAppLoader binds its application and has no way to unbind it.
LoadedV1(l) == [Bound(proc, l) EXCEPT !.rt[l] = "v1"]

-----------------------------------------------------------------------------
(* ProxyActivity                                                           *)

\* launchInSandbox dispatches l for g; its handshake binds the process to g,
\* or is refused or lost.
Start(l, g) ==
  /\ act[l] = "waiting"
  /\ act' = [act EXCEPT ![l] = "starting"]
  /\ pkg' = [pkg EXCEPT ![l] = g]
  /\ config' \in {config} \cup (IF config = NoGuest THEN {g} ELSE {})
  /\ UNCHANGED <<proc, active, wrapper>>

\* The process belongs to another guest: report and finish.
CreateMismatch(l) ==
  /\ act[l] = "starting"
  /\ config \notin {NoGuest, pkg[l]}
  /\ act' = [act EXCEPT ![l] = "finishing"]
  /\ UNCHANGED <<pkg, config, proc, active, wrapper>>

Admitted(l) == act[l] = "starting" /\ config \in {NoGuest, pkg[l]}

\* The load worked: the hook is installed, or not, and recreate() is posted.
Launched(l) ==
  /\ act' = [act EXCEPT ![l] = "created"]
  /\ config' = pkg[l]
  /\ wrapper' \in {l} \cup (IF May("hookFails") THEN {wrapper} ELSE {})
  /\ UNCHANGED pkg

\* It did not: the config is given up at once, the runtimes in onDestroy.
Reported(l) ==
  /\ act' = [act EXCEPT ![l] = "finishing"]
  /\ config' = NoGuest
  /\ UNCHANGED <<pkg, active, wrapper>>

CreateNoLauncher(l) ==
  /\ Admitted(l)
  /\ May("noLauncher")
  /\ Reported(l)
  /\ UNCHANGED proc

CreateLoadV2(l) ==
  /\ Admitted(l)
  /\ proc' = LoadedV2(l)
  /\ active' = l
  /\ Launched(l)

\* v1 would read the guest's real data: with a sandbox it is refused.
CreateRefusedV1(l) ==
  /\ Admitted(l)
  /\ May("buildFails")
  /\ Reported(l)
  /\ UNCHANGED proc

CreateLoadV1(l) ==
  /\ Admitted(l)
  /\ May("buildFails") /\ May("noSandbox")
  /\ proc' = LoadedV1(l)
  /\ Launched(l)
  /\ UNCHANGED active

\* v1 fails before its bind, or in Application.onCreate after it.
CreateFailV1(l) ==
  /\ Admitted(l)
  /\ May("buildFails") /\ May("noSandbox")
  /\ \/ UNCHANGED proc
     \/ May("onCreateV1") /\ proc' = LoadedV1(l)
  /\ Reported(l)

HookFor(l) == wrapper # Host /\ pkg[wrapper] = pkg[l]

\* handleRelaunchActivity, newActivity: the wrapper's loader finds the class.
RelaunchSwap(l) ==
  /\ act[l] = "created"
  /\ HookFor(l)
  /\ act' = [act EXCEPT ![l] = "guest"]
  /\ UNCHANGED <<pkg, config, proc, active, wrapper>>

\* Mutant of RelaunchMiss: the stub that missed the swap does not finish.
RelaunchMissStays(l) ==
  /\ act[l] = "created"
  /\ ~ HookFor(l) \/ May("swapFails")
  /\ config' = IF config = NoGuest THEN pkg[l] ELSE config
  /\ UNCHANGED <<act, pkg, proc, active, wrapper>>

\* The stub is created again with the guest's extras: it finishes, having
\* seeded the config unless another guest has the process.
SwapMissed(l) ==
  /\ ~ HookFor(l) \/ May("swapFails")
  /\ act' = [act EXCEPT ![l] = "finishing"]
  /\ config' = IF config = NoGuest THEN pkg[l] ELSE config
  /\ UNCHANGED <<pkg, proc, active, wrapper>>

RelaunchMiss(l) == act[l] = "created" /\ SwapMissed(l)

\* A change of configuration relaunches the guest's activity too (the stubs of
\* the manifest handle none); while the hook is right it is swapped again.
GuestRelaunch(l) == act[l] = "guest" /\ SwapMissed(l)

\* The user leaves before the relaunch.
Finish(l) ==
  /\ act[l] = "created"
  /\ act' = [act EXCEPT ![l] = "finishing"]
  /\ UNCHANGED <<pkg, config, proc, active, wrapper>>

\* onDestroy of a finishing stub, whenever the framework gets to it. It closes
\* whatever is active, its own or not.
Destroy(l) ==
  /\ act[l] = "finishing"
  /\ act' = [act EXCEPT ![l] = "gone"]
  /\ proc' = Closed(proc, active)
  /\ active' = Host
  /\ config' = NoGuest
  /\ UNCHANGED <<pkg, wrapper>>

\* The guest's activity ends: it is no ProxyActivity, and nothing is closed.
GuestEnds(l) ==
  /\ act[l] = "guest"
  /\ act' = [act EXCEPT ![l] = "gone"]
  /\ UNCHANGED <<pkg, config, proc, active, wrapper>>

Unfinished == {"starting", "created", "guest"}

\* The system may start the lost activities again, without the extras.
ProcessDies ==
  /\ May("processDies")
  /\ \E back \in SUBSET {l \in Launches : act[l] \in Unfinished} :
       act' = [l \in Launches |-> IF l \in back THEN "starting"
                                  ELSE IF act[l] = "waiting" THEN "waiting"
                                  ELSE "gone"]
  /\ config' = NoGuest
  /\ proc' = FreshProcess
  /\ active' = Host
  /\ wrapper' = Host
  /\ UNCHANGED pkg

-----------------------------------------------------------------------------
Create(l) ==
  \/ CreateMismatch(l) \/ CreateNoLauncher(l)
  \/ CreateLoadV2(l) \/ CreateRefusedV1(l) \/ CreateLoadV1(l) \/ CreateFailV1(l)

Relaunch(l) == RelaunchSwap(l) \/ RelaunchMiss(l)

Next ==
  \/ \E l \in Launches, g \in Guests : Start(l, g)
  \/ \E l \in Launches :
       \/ Create(l) \/ Relaunch(l) \/ GuestRelaunch(l)
       \/ Finish(l) \/ Destroy(l) \/ GuestEnds(l)
  \/ ProcessDies

Spec == Init /\ [][Next]_vars

\* The framework delivers creations, relaunches and destroys in the end, and
\* does not kill the process for ever.
Fairness ==
  /\ \A l \in Launches :
       WF_vars(Create(l)) /\ WF_vars(Relaunch(l)) /\ WF_vars(Destroy(l))
  /\ <>[][~ ProcessDies]_vars

FairSpec == Spec /\ Fairness

-----------------------------------------------------------------------------
(* The process as the framework sees it                                    *)

In(state) == {l \in Launches : proc.rt[l] = state}

App == INSTANCE ProcessApp
         WITH Launches <- Launches, Host <- Host, Writable <- ~ May("hiddenApi"),
              app <- proc.initialApp, running <- In("active"),
              legacy <- In("v1"), closed <- In("destroyed")

\* In whatever order the callbacks come, a load is one handover from the runtime
\* before it to its guest, and what onDestroy closes is all that runs: a v1 guest
\* stays the application of the process (loadV2 278-313, close 194-217).
AppSpec == App!Spec

-----------------------------------------------------------------------------
(* Properties                                                              *)

\* The process-wide application is the host or a guest that was not closed:
\* the framework reads it at the next activity launch (close 194-217).
ProcessAppAlive ==
  proc.initialApp # Host => proc.rt[proc.initialApp] \in {"active", "v1"}

\* Closed guests leave the framework's list of applications, which gets every
\* configuration change (bindAllApplications, close 207-208).
NoDeadAppListed == \A l \in proc.allApps : proc.rt[l] # "destroyed"

\* Only the bridge's runtime is active: of another one nothing could be closed
\* any more (loadV2 282, 313; close 211-219).
NoOrphanRuntime == \A l \in Launches : proc.rt[l] = "active" => active = l

\* What the bridge holds is active, and the guest it loaded is the process's
\* application unless a v1 guest has replaced it since (loadV2, loadV1).
ActiveIsCurrent ==
  active # Host =>
    /\ proc.rt[active] = "active"
    /\ proc.initialApp = active \/ proc.rt[proc.initialApp] = "v1"

\* A launch has no runtime before its activity is created: a load never
\* replaces a runtime of its own launch (what ActiveIsCurrent rests on).
Unloaded ==
  \A l \in Launches : act[l] \in {"waiting", "starting"} => proc.rt[l] = "none"

\* The inductive invariant of GuestSession_proofs.
IInv == TypeOK /\ ProcessAppAlive /\ NoDeadAppListed /\ NoOrphanRuntime

\* Every stub that is started ends up swapped or destroyed: none stays blank on
\* the screen (onCreate, recreate, the swap-miss branch).
NoBlankStub ==
  \A l \in Launches : act[l] = "starting" ~> act[l] \in {"guest", "gone"}
=============================================================================
