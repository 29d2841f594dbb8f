----------------------------- MODULE GuestSlots -----------------------------
(***************************************************************************)
(* The pool of guest processes :p0 .. :pN.                                 *)
(*                                                                         *)
(* Server side (main process): GuestProcessTable, its death recipients,    *)
(* and the steps of AetherOrchestrator.launchInSandbox that use it.        *)
(* Child side (each :pN): GuestProcessHolder, its provider entry point     *)
(* handleInit, and the identity block of ProxyActivity.onCreate/onDestroy. *)
(*                                                                         *)
(* launchInSandbox and handshakeStatus both run on the main thread of the  *)
(* main process, one at a time (pc, req, at, reply are its locals); death  *)
(* recipients run on binder threads, handleInit on a binder thread of the  *)
(* child, activities on the child's main thread.                           *)
(***************************************************************************)
EXTENDS Integers, Sequences

CONSTANTS
  Guests,     \* guest packages the user may launch
  Diag,       \* DIAG_PKG, the package of the diagnostic handshake
  NoGuest,    \* null ClientConfig / no recipient
  MaxSlots,   \* MAX_SLOTS
  Faults,     \* which of FaultKinds the environment may produce
  MaxObits,   \* bound: recipients and obituaries of one guest and slot
  MaxStarts   \* bound: activities of one slot not yet created or destroyed

(***************************************************************************)
(* callFails       ContentResolver.call throws, so there is no reply       *)
(* diesInCall      a child dies before it answered the call of a launch    *)
(* diesInLaunch    a child dies while a launch into it is under way,       *)
(*                 before or after its answer                              *)
(* startRetried    the framework keeps an activity start whose process     *)
(*                 died and delivers it to the next incarnation            *)
(* runningUnknown  getRunningAppProcesses throws or returns null           *)
(* mainDies        the main process is killed and started again            *)
(***************************************************************************)
FaultKinds ==
  {"callFails", "diesInCall", "diesInLaunch", "startRetried", "runningUnknown",
   "mainDies"}

ASSUME ConstantsAssumption ==
  /\ MaxSlots \in Nat \ {0}
  /\ MaxObits \in Nat \ {0}
  /\ MaxStarts \in Nat \ {0}
  /\ Diag \notin Guests
  /\ NoGuest \notin Guests
  /\ Diag # NoGuest
  /\ Faults \subseteq FaultKinds

Slots == 0 .. MaxSlots - 1
NoSlot == -1
DiagSlot == MaxSlots - 1

VARIABLES
  slotOf,     \* server: guest -> slot
  clientOf,   \* server: slot -> binder of the current child, of a dead one, or none
  deathOf,    \* server: slot -> guest of the recorded recipient, or NoGuest
  links,      \* binder driver: recipients linked to the live child, per guest
  obits,      \* binder threads: deaths reported and not yet handled, per guest
  pc,         \* main thread: step of launchInSandbox or handshakeStatus
  req,        \* main thread: the package it launches
  at,         \* main thread: the slot it was given
  reply,      \* main thread: the binder of the reply, as in clientOf
  alive,      \* the child processes that run
  config,     \* child: package of GuestProcessHolder.config
  starts,     \* framework: activity starts not yet delivered, per slot
  finishing,  \* child: finished stubs whose onDestroy has not run
  ran         \* history: guests loaded by the current incarnation

tableVars == <<slotOf, clientOf, deathOf, links, obits>>
threadVars == <<pc, req, at, reply>>
childVars == <<alive, config, starts, finishing, ran>>
vars == <<tableVars, threadVars, childVars>>

Binder == {"none", "live", "stale"}
Step == {"idle", "call", "checked", "replied", "dispatch", "refused"}

TypeOK ==
  /\ slotOf \in [Guests -> Slots \cup {NoSlot}]
  /\ clientOf \in [Slots -> Binder]
  /\ deathOf \in [Slots -> Guests \cup {NoGuest}]
  /\ links \in [Slots -> [Guests -> Nat]]
  /\ obits \in [Slots -> [Guests -> Nat]]
  /\ pc \in Step
  /\ req \in Guests \cup {Diag, NoGuest}
  /\ at \in Slots \cup {NoSlot}
  /\ reply \in Binder
  /\ alive \in SUBSET Slots
  /\ config \in [Slots -> Guests \cup {Diag, NoGuest}]
  /\ starts \in [Slots -> Seq(Guests)]
  /\ finishing \in [Slots -> Nat]
  /\ ran \in [Slots -> SUBSET Guests]

None == [g \in Guests |-> 0]

Init ==
  /\ slotOf = [g \in Guests |-> NoSlot]
  /\ clientOf = [s \in Slots |-> "none"]
  /\ deathOf = [s \in Slots |-> NoGuest]
  /\ links = [s \in Slots |-> None]
  /\ obits = [s \in Slots |-> None]
  /\ pc = "idle" /\ req = NoGuest /\ at = NoSlot /\ reply = "none"
  /\ alive = {}
  /\ config = [s \in Slots |-> NoGuest]
  /\ starts = [s \in Slots |-> <<>>]
  /\ finishing = [s \in Slots |-> 0]
  /\ ran = [s \in Slots |-> {}]

-----------------------------------------------------------------------------
(* GuestProcessTable.allocate, as the first step of a launch               *)

isSlotAlive(s) == clientOf[s] = "live"

HoldsLiveSlot(g) == slotOf[g] # NoSlot /\ isSlotAlive(slotOf[g])

\* What getRunningAppProcesses may return.
RunningLists == {alive} \cup (IF "runningUnknown" \in Faults THEN {{}} ELSE {})

\* Mutants of Free: the test of other guests, or of running processes, is lost.
FreeNotTaken(g, running) == {s \in Slots : s \notin running}

FreeNotRunning(g, running) ==
  {s \in Slots : \A h \in Guests : slotOf[h] = s => h = g}

Free(g, running) ==
  {s \in Slots : s \notin running /\ \A h \in Guests : slotOf[h] = s => h = g}

Idle == pc = "idle" /\ \A s \in Slots : Len(starts[s]) + finishing[s] < MaxStarts

Granted(g, s) ==
  /\ pc' = "call" /\ req' = g /\ at' = s /\ reply' = "none"
  /\ UNCHANGED <<tableVars, childVars>>

AllocateOwn(g) ==
  /\ Idle
  /\ HoldsLiveSlot(g)
  /\ Granted(g, slotOf[g])

AllocateLowest(g) ==
  /\ Idle
  /\ ~ HoldsLiveSlot(g)
  /\ \E running \in RunningLists : \E s \in Free(g, running) :
       /\ \A t \in Free(g, running) : s <= t
       /\ Granted(g, s)

\* allocate returned -1: launchInSandbox returns false.
AllocateRefused(g) ==
  /\ Idle
  /\ ~ HoldsLiveSlot(g)
  /\ Free(g, alive) = {}
  /\ pc' = "refused" /\ req' = g /\ at' = NoSlot /\ reply' = "none"
  /\ UNCHANGED <<tableVars, childVars>>

\* EngineBridge.handshakeStatus: the same provider call, at the last slot,
\* outside the table.
DiagHandshake ==
  /\ Idle
  /\ Granted(Diag, DiagSlot)

-----------------------------------------------------------------------------
(* GuestProcessTable.spawnAndConfig                                        *)

\* launchInSandbox or handshakeStatus returns, and its locals are gone.
Returns == pc' = "idle" /\ req' = NoGuest /\ at' = NoSlot /\ reply' = "none"

\* The call ends without a reply: the launch goes on all the same.
NoReply ==
  \/ req = Diag /\ Returns
  \/ req # Diag /\ pc' = "dispatch" /\ reply' = "none" /\ UNCHANGED <<req, at>>

\* The call starts :p<at> if it does not run.
CallSpawns ==
  /\ pc = "call"
  /\ at \notin alive
  /\ alive' = alive \cup {at}
  /\ UNCHANGED <<tableVars, threadVars, config, starts, finishing, ran>>

CallFails ==
  /\ pc = "call"
  /\ "callFails" \in Faults
  /\ NoReply
  /\ UNCHANGED <<tableVars, childVars>>

\* Mutant of HandleInitReject: the refused caller tries again.
HandleInitRetry ==
  /\ pc = "call"
  /\ at \in alive
  /\ config[at] \notin {NoGuest, Diag, req}
  /\ UNCHANGED vars

\* handleInit reads config and compares ...
HandleInitReject ==
  /\ pc = "call"
  /\ at \in alive
  /\ config[at] \notin {NoGuest, Diag, req}
  /\ NoReply
  /\ UNCHANGED <<tableVars, childVars>>

HandleInitCheck ==
  /\ pc = "call"
  /\ at \in alive
  /\ config[at] \in {NoGuest, Diag, req}
  /\ pc' = "checked"
  /\ reply' = "live"
  /\ UNCHANGED <<tableVars, req, at, childVars>>

\* ... and writes it later, in the same call but under no lock.
HandleInitAccept ==
  /\ pc = "checked"
  /\ reply = "live"
  /\ config' = [config EXCEPT ![at] = req]
  /\ \/ req = Diag /\ Returns
     \/ req # Diag /\ pc' = "replied" /\ UNCHANGED <<req, at, reply>>
  /\ UNCHANGED <<tableVars, alive, starts, finishing, ran>>

\* The child died inside the call: the call throws.
HandleInitLost ==
  /\ pc = "checked"
  /\ reply = "stale"
  /\ NoReply
  /\ UNCHANGED <<tableVars, childVars>>

\* Mutant of LinksUnlinked: the recipient of a dead child is unlinked too.
LinksUnlinkedDead ==
  IF clientOf[at] # "none"
  THEN [links EXCEPT ![at][deathOf[at]] = @ - 1]
  ELSE links

\* Line 131. A recipient of the live child is unlinked for certain; that of a
\* dead one only if its death has not been reported to this process yet.
LinksUnlinked ==
  IF clientOf[at] = "live"
  THEN [links EXCEPT ![at][deathOf[at]] = @ - 1]
  ELSE links

ObitsUnlinked ==
  IF clientOf[at] = "stale" /\ obits[at][deathOf[at]] > 0
  THEN {obits, [obits EXCEPT ![at][deathOf[at]] = @ - 1]}
  ELSE {obits}

\* Mutant of Register: linkToDeath is forgotten.
RegisterNoLink ==
  /\ pc = "replied"
  /\ reply = "live"
  /\ links' = LinksUnlinked
  /\ obits' \in ObitsUnlinked
  /\ clientOf' = [clientOf EXCEPT ![at] = "live"]
  /\ deathOf' = [deathOf EXCEPT ![at] = req]
  /\ slotOf' = [slotOf EXCEPT ![req] = at]
  /\ pc' = "dispatch"
  /\ UNCHANGED <<req, at, reply, childVars>>

Register ==
  /\ pc = "replied"
  /\ reply = "live"
  /\ links' = [LinksUnlinked EXCEPT ![at][req] = @ + 1]
  /\ obits' \in ObitsUnlinked
  /\ clientOf' = [clientOf EXCEPT ![at] = "live"]
  /\ deathOf' = [deathOf EXCEPT ![at] = req]
  /\ slotOf' = [slotOf EXCEPT ![req] = at]
  /\ pc' = "dispatch"
  /\ UNCHANGED <<req, at, reply, childVars>>

\* linkToDeath threw: only a warning, slotOf is set all the same.
RegisterUnlinked ==
  /\ pc = "replied"
  /\ reply = "stale"
  /\ links' = LinksUnlinked
  /\ obits' \in ObitsUnlinked
  /\ slotOf' = [slotOf EXCEPT ![req] = at]
  /\ pc' = "dispatch"
  /\ UNCHANGED <<clientOf, deathOf, req, at, reply, childVars>>

\* startActivity of the stub of the granted slot, handshake or not.
Dispatch ==
  /\ pc = "dispatch"
  /\ starts' = [starts EXCEPT ![at] = Append(@, req)]
  /\ Returns
  /\ UNCHANGED <<tableVars, alive, config, finishing, ran>>

ReportRefused ==
  /\ pc = "refused"
  /\ Returns
  /\ UNCHANGED <<tableVars, childVars>>

\* Mutant of BinderDied: the guest stays in slotOf.
BinderDiedKeepsSlot(g, s) ==
  /\ obits[s][g] > 0
  /\ obits' = [obits EXCEPT ![s][g] = @ - 1]
  /\ clientOf' = [clientOf EXCEPT ![s] = "none"]
  /\ deathOf' = [deathOf EXCEPT ![s] = NoGuest]
  /\ UNCHANGED <<slotOf, links, threadVars, childVars>>

\* The DeathRecipient of g at s. It asks neither whether clientOf[s] is the
\* binder that died nor whether deathOf[s] is itself.
BinderDied(g, s) ==
  /\ obits[s][g] > 0
  /\ obits' = [obits EXCEPT ![s][g] = @ - 1]
  /\ clientOf' = [clientOf EXCEPT ![s] = "none"]
  /\ deathOf' = [deathOf EXCEPT ![s] = NoGuest]
  /\ slotOf' = IF slotOf[g] = s THEN [slotOf EXCEPT ![g] = NoSlot] ELSE slotOf
  /\ UNCHANGED <<links, threadVars, childVars>>

-----------------------------------------------------------------------------
(* The child: ProxyActivity and GuestProcessHolder                         *)

StartProcess(s) ==
  /\ s \notin alive
  /\ starts[s] # <<>>
  /\ alive' = alive \cup {s}
  /\ UNCHANGED <<tableVars, threadVars, config, starts, finishing, ran>>

\* The identity the activity goes by: a diagnostic config never wins.
Effective(s) == IF config[s] = Diag THEN NoGuest ELSE config[s]

\* The config belongs to another guest: report, finish, leave it alone.
CreateMismatch(s) ==
  /\ s \in alive
  /\ starts[s] # <<>>
  /\ Effective(s) \notin {NoGuest, Head(starts[s])}
  /\ starts' = [starts EXCEPT ![s] = Tail(@)]
  /\ finishing' = [finishing EXCEPT ![s] = @ + 1]
  /\ UNCHANGED <<tableVars, threadVars, alive, config, ran>>

\* The guest is loaded. It is swapped in (its own activity replaces the stub,
\* so the stub's onDestroy never finishes), the swap is missed, or the load
\* fails and resets the config at once.
CreateLoad(s) ==
  /\ s \in alive
  /\ starts[s] # <<>>
  /\ LET g == Head(starts[s]) IN
       /\ Effective(s) \in {NoGuest, g}
       /\ starts' = [starts EXCEPT ![s] = Tail(@)]
       /\ ran' = [ran EXCEPT ![s] = @ \cup {g}]
       /\ \/ /\ config' = [config EXCEPT ![s] = g]
             /\ UNCHANGED finishing
          \/ /\ config' = [config EXCEPT ![s] = g]
             /\ finishing' = [finishing EXCEPT ![s] = @ + 1]
          \/ /\ config' = [config EXCEPT ![s] = NoGuest]
             /\ finishing' = [finishing EXCEPT ![s] = @ + 1]
  /\ UNCHANGED <<tableVars, threadVars, alive>>

\* onDestroy of a finished stub, whenever the framework gets to it.
Destroy(s) ==
  /\ finishing[s] > 0
  /\ finishing' = [finishing EXCEPT ![s] = @ - 1]
  /\ config' = [config EXCEPT ![s] = NoGuest]
  /\ UNCHANGED <<tableVars, threadVars, alive, starts, ran>>

Stale(b) == IF b = "live" THEN "stale" ELSE b

\* The process is killed: every recipient linked to it is notified.
ChildDies(s) ==
  /\ s \in alive
  /\ \/ at # s \/ pc \in {"idle", "refused"}
     \/ "diesInCall" \in Faults /\ pc \in {"call", "checked"}
     \/ "diesInLaunch" \in Faults
  /\ \A g \in Guests : links[s][g] + obits[s][g] <= MaxObits
  /\ alive' = alive \ {s}
  /\ config' = [config EXCEPT ![s] = NoGuest]
  /\ finishing' = [finishing EXCEPT ![s] = 0]
  /\ ran' = [ran EXCEPT ![s] = {}]
  /\ \/ starts' = [starts EXCEPT ![s] = <<>>]
     \/ "startRetried" \in Faults /\ UNCHANGED starts
  /\ clientOf' = [clientOf EXCEPT ![s] = Stale(@)]
  /\ reply' = IF at = s THEN Stale(reply) ELSE reply
  /\ links' = [links EXCEPT ![s] = None]
  /\ obits' = [obits EXCEPT ![s] = [g \in Guests |-> obits[s][g] + links[s][g]]]
  /\ UNCHANGED <<slotOf, deathOf, pc, req, at>>

\* The table, its recipients and the thread are gone; the children stay.
MainDies ==
  /\ "mainDies" \in Faults
  /\ slotOf' = [g \in Guests |-> NoSlot]
  /\ clientOf' = [s \in Slots |-> "none"]
  /\ deathOf' = [s \in Slots |-> NoGuest]
  /\ links' = [s \in Slots |-> None]
  /\ obits' = [s \in Slots |-> None]
  /\ pc' = "idle" /\ req' = NoGuest /\ at' = NoSlot /\ reply' = "none"
  /\ UNCHANGED childVars

-----------------------------------------------------------------------------
Allocate(g) == AllocateOwn(g) \/ AllocateLowest(g) \/ AllocateRefused(g)

\* The running child takes the call of the main thread.
HandleInit == HandleInitReject \/ HandleInitCheck

MainThread ==
  \/ CallSpawns \/ HandleInit \/ HandleInitAccept \/ HandleInitLost
  \/ Register \/ RegisterUnlinked \/ Dispatch \/ ReportRefused

Child(s) ==
  StartProcess(s) \/ CreateMismatch(s) \/ CreateLoad(s) \/ Destroy(s)

Next ==
  \/ \E g \in Guests : Allocate(g)
  \/ DiagHandshake
  \/ MainThread
  \/ CallFails
  \/ \E g \in Guests, s \in Slots : BinderDied(g, s)
  \/ \E s \in Slots : Child(s) \/ ChildDies(s)
  \/ MainDies

\* The main thread and the binder threads run; the framework delivers
\* activity starts and destroys. A child that is started again and again for
\* one call does not die before its entry point every single time (the
\* framework gives up on a provider that does). Users, deaths and faults, a
\* failing call among them, are never forced.
Fairness ==
  /\ WF_vars(MainThread)
  /\ SF_vars(HandleInit)
  /\ \A g \in Guests, s \in Slots : WF_vars(BinderDied(g, s))

Spec == Init /\ [][Next]_vars
FairSpec == Spec /\ Fairness

-----------------------------------------------------------------------------
(* The table as leases                                                     *)

Holders(table) ==
  [s \in Slots |-> IF \E g \in Guests : table[g] = s
                   THEN CHOOSE g \in Guests : table[g] = s
                   ELSE NoGuest]

holder == Holders(slotOf)

Lease == INSTANCE SlotLease
           WITH Guests <- Guests, Slots <- Slots, NoGuest <- NoGuest, holder <- holder

\* Every step of the two sides, the deaths and the faults keeps the table a
\* table of leases: a slot changes hands only through free (allocate,
\* spawnAndConfig, the death recipient).
LeaseSpec == Lease!Spec

-----------------------------------------------------------------------------
(* Properties                                                              *)

\* No two guests are ever mapped to the same process, though allocate and the
\* registration of its answer are two critical sections with a provider call
\* between them (allocate, spawnAndConfig).
SlotExclusive ==
  \A g, h \in Guests : slotOf[g] = slotOf[h] /\ slotOf[g] # NoSlot => g = h

\* A mapped slot has a live child whose death will be reported, or a death
\* report on its way: no slot is lost to a guest that is gone (spawnAndConfig
\* 129-147; where a child can die before linkToDeath it does not hold).
NoLeakedSlot ==
  \A g \in Guests, s \in Slots : slotOf[g] = s =>
    \/ s \in alive /\ links[s][g] > 0
    \/ obits[s][g] > 0

\* The child of a registered slot is bound to the guest the table has there,
\* or to nobody, never to another guest (handleInit, seed, reset against
\* slotOf).
OwnerBinding ==
  \A g \in Guests, s \in Slots :
    slotOf[g] = s /\ isSlotAlive(s) => config[s] \in {g, NoGuest, Diag}

\* One process never loads two guests: they would share class loaders, hooks
\* and the process-wide application (allocate's test of running processes).
OneGuestPerProcess == \A s \in Slots : \A g, h \in ran[s] : g = h

\* A launch is refused only while every process of the pool runs or has a
\* death report on its way (allocate, DeathRecipient).
RefusedOnlyWhenFull ==
  [][pc = "idle" /\ pc' = "refused" =>
       \A s \in Slots : s \in alive \/ \E g \in Guests : obits[s][g] > 0]_vars

\* While a child runs, its config never goes from one guest straight to
\* another: handleInit refuses, seed does nothing, though handleInit compares
\* and writes under no lock (handleInit 199-213, seed 172).
NeverRebound ==
  [][\A s \in alive \cap alive' :
       config[s] \in Guests /\ config'[s] \in Guests => config'[s] = config[s]]_vars

\* A guest mapped to a dead process loses its slot or is mapped to one that
\* runs (the death recipient, 108-109).
DeadGuestReleased ==
  \A g \in Guests :
    slotOf[g] \in Slots \ alive ~> slotOf[g] \in {NoSlot} \cup alive

\* Every launch and every handshake returns to the UI: the child refuses the
\* call, dies before, in or after it, was dead and had to be started, or the
\* call throws (launchInSandbox, handshakeStatus, spawnAndConfig).
LaunchReturns == pc # "idle" ~> pc = "idle"

-----------------------------------------------------------------------------
(* What the safety of the table rests on                                   *)

InLaunch == pc \in {"call", "checked", "replied", "dispatch"}

\* Between the two critical sections of a launch the slot it was granted
\* belongs to nobody else.
Reserved ==
  InLaunch =>
    /\ at \in Slots
    /\ req # NoGuest
    /\ pc \in {"replied", "dispatch"} => req # Diag
    /\ \A h \in Guests : req \in Guests /\ slotOf[h] = at => h = req

\* A reply taken for live is the binder of the child that runs there.
ReplyFresh ==
  /\ pc \in {"checked", "replied"} => reply # "none"
  /\ at \in Slots /\ reply = "live" => at \in alive
  /\ at \in Slots /\ reply = "stale" => clientOf[at] # "live"

\* A binder and a recipient are recorded together, and those of a live child
\* are linked: else unlinkToDeath would meet a recipient that is not.
Recorded ==
  \A s \in Slots :
    /\ clientOf[s] = "none" <=> deathOf[s] = NoGuest
    /\ clientOf[s] = "live" => s \in alive /\ links[s][deathOf[s]] > 0

\* A reply is registered only for the child that gave it, where no child dies
\* after its answer while it is launched into; nor is an answer lost where none
\* dies before it.
ReplyKept ==
  "diesInLaunch" \notin Faults =>
    /\ pc = "replied" => reply = "live"
    /\ "diesInCall" \notin Faults /\ pc = "checked" => reply = "live"

\* g is in the process of s, on its way in, or entitled to go in.
Claims(g, s) ==
  \/ g \in ran[s]
  \/ config[s] = g
  \/ \E i \in 1 .. Len(starts[s]) : starts[s][i] = g
  \/ InLaunch /\ at = s /\ req = g
  \/ isSlotAlive(s) /\ slotOf[g] = s

\* No process is claimed by two guests, nothing is left of one that died, and
\* no stub is dispatched into one that does not run: what OwnerBinding,
\* OneGuestPerProcess and NeverRebound rest on, where only the main process
\* may fail.
Unshared ==
  /\ \A s \in Slots : \A g, h \in Guests : Claims(g, s) /\ Claims(h, s) => g = h
  /\ \A s \in Slots \ alive :
       ran[s] = {} /\ config[s] = NoGuest /\ starts[s] = <<>>
  /\ pc = "dispatch" => at \in alive

\* The inductive invariant of GuestSlots_proofs.
IInv == TypeOK /\ SlotExclusive /\ Reserved /\ ReplyFresh /\ ReplyKept /\ Recorded
=============================================================================
