# Verification of AetherEngine

TLA+ models of AetherEngine, an Android app that runs other Android apps
("guests") inside its own processes: a host app with a Flutter UI, a pool of
guest processes `:p0` .. `:p3`, a daemon process `:engine`, and a native library
`libaether.so` in each of them; and of the Python scripts that keep the evidence
about the original program (its call and boot linkage) and the gates that CI runs
over the JNI binding. The models are translated from the Kotlin, C++, manifest and
Python sources; the comments of the code are used only as claims to check.

Run a model with `tlc -config <run>.cfg <MC module>.tla`, a proof module with
`tlapm <module>.tla`.

## 1. Inventory

### Processes, threads and how they interact

    main process                       :pN (one of 4)                  :engine
    ------------                       --------------                  -------
    UI thread                          main thread                     main thread
      EngineBridge (MethodChannel)       ProxyActivity$P<N>              AetherDaemonService
      AetherOrchestrator                 GuestRuntimeBridge/GuestRuntime
      GuestProcessTable   --provider-->  ProxyContentProvider.call       watchdog threads,
      VirtualAppContainer    call      binder thread                     one per start
    result poller thread                 GuestProcessHolder.handleInit   command, never ending
    binder threads        <--death---  guest threads under a firewall
      DeathRecipients        notices     (uncaught-exception handler)
            ^                                  |
            +--- files/diag/launch_result.json +  (read by polling)

A launch: the UI calls `launchInSandbox`; the orchestrator gives the container of
the main process the guest's identity, allocates a slot, configures the child
through a provider call that also starts it, registers a death recipient, and
starts the stub activity of that slot. The child's `ProxyActivity` takes the
guest's identity, loads and binds the guest's application, hooks the
instrumentation and calls `recreate()`, at which the framework instantiates the
guest's activity in place of the stub. Every stage reports through one file that
the main process polls for four seconds.

The scripts are run by an operator, one process at a time and by hand, except for
the gates in CI. They meet in files:

    fragments/*.txt, fragments.json,      build_call_linkage.py
    SnakeLogic.zip (a copy of some)  -->  Bundle, layers, chains, checks    
            |                                       |
            |      call_linkage.csv, call_linkage.json, CALL_LINKAGE.md
            v                 v
    build_boot_linkage.py  <--+           hops new, imported or collapsed, checks
            |
    BOOT_LINKAGE.md, boot_linkage.csv, boot_linkage.json

    Engine.kt, aether_core.cpp,           jni_parity, native_chain_parity,
    the Kotlin files that call natives -> structural_gates  --> release
                                          (chain_coherence, system_link_audit: by hand)

The outputs lie in the directory the inputs are listed from, the operator edits
fragments between and during runs, and a script may be killed while it writes.

### Components

| component | state | operations | what is hard | what makes it correct |
|---|---|---|---|---|
| `GuestProcessTable`, `GuestProcessHolder` (GuestProcessRegistry.kt), provider handshake | `slotOf`, `clientOf`, `deathOf`; the child's `config` | allocate, spawnAndConfig, death recipients, handleInit, seed, reset | two critical sections with a remote call between them; binder deaths at any time; unlocked check-then-write in the child | a process never gets two guests; a slot is neither leaked nor released under a live guest; a child is never rebound |
| `ProxyActivity`, `GuestRuntimeBridge`, `GuestRuntime`, `VirtualAppLoader` v1, `AetherInstrumentation` | the framework's applications, `activeRuntime`, the instrumentation wrapper, `config` | onCreate, load, bind, close, newActivity, onDestroy | several stubs in one process, callbacks in any order, fallback after partial failure, restored activities | the process application is never a destroyed guest; every runtime can be closed; no stub stays blank |
| `DiagLog` result file, `EngineBridge.launchResultAwait` | one JSON file; the poller's last read | writeResult (every process), readResult, poll, await | lock is per process only; stale records; timeout against poller | an answer is whole, recent and that of the launched package |
| `AetherOrchestrator`, `VirtualAppContainer`, `AetherApp`, `AetherDaemonService` | flags and target of the engine, identity, redirects, proxies | init, attach, start, setup, shutdown, watchdog loop | any order of boots, launches and re-inits; threads without locks; missing library | the parts of a process agree on its identity; the engine of `:engine` comes up |
| `VirtualFSWrapper`, native `VirtualFS` | maps from prefix to prefix | addRedirect, resolve, clear | overlapping prefixes; two copies of the map | both copies resolve alike, and only whole path elements |
| `AobScanner`, `MemReader`, `ModuleResolver` | caches with a TTL | scan, read, findBase | window borders, stale entries, unguarded maps, 32-bit addresses in Kotlin | every match is found |
| `Crypto`, `KeyStore`, `PayloadStore` | map of payloads | XOR, LZ4, load, decrypt | cyclic keys, empty inputs | decrypt undoes encrypt |
| `JniHook`, `ClassMap` | patched JNIEnv table, class rules | install, uninstall, redirect | double installation | the original table comes back |
| `HCallbackProxy` | queue of held transactions | arm, hold, finishBind | nested loops only: arm and finishBind run in one callback | nothing is lost or reordered |
| `ServiceBinderProxy` | proxies, identity | init, setIdentity, shutdown, rewriting of calls | proxies survive in static caches | calls go out under the identity the service accepts |
| `SandboxManager`, `PackageConfParser` | file trees | provision, mount, write and parse package.conf | partial failure of shell commands | the parser reads what the writer writes |
| `AetherVpnService` | tunnel, thread, flag | start, packet loop, cleanup | teardown on two threads | the tunnel is closed in the end |
| `RemoteConfig`, `CrashHandler`, IPC services, stubs, OAuth | little | I/O and formatting | - | - |
| `LicenseStore`, `Games`, UI (Dart) | the license state | refresh, covers, version ranges | - | a failed refresh is never taken for a license |
| native configuration and probes, LZ4 | - | - | - | - |
| `build_call_linkage.py` | the edges, the checks, a tracker of registers, marks on listing lines, three files | scan_native, dart_edges, the other layers, dedup, define_chains, main | facts about registers that changed, marks that outlive their call, edges removed by position, files torn by a kill | an edge published as proven is the one the program makes; a published graph has every hop of every chain |
| `build_boot_linkage.py` | the spine, problems, three files | new, imported, collapsed, gap, verify, run_checks, main | imports by position from a file another script writes, failures only recorded | what is written as complete or proven can be relied on |
| `jni_parity.py`, `native_chain_parity.py`, `structural_gates.py`, `chain_coherence.py`, `system_link_audit.py` | none; the tree they look at | a comparison each | each compares one pair of files; edits come in any order | a released tree binds and is wired |
| `parse_packageconf.py` | position, strings found | read_strings | no schema: lengths are guessed | the strings written are the strings found |
| `dart_static_check.py` | position, string or comment it is in | strip_comments, checks of what is left | strings, escapes and comments end one another | code is kept, comments are not |
| other gates and generators | none | text against text | - | - |

PROJECT.json has the same list with what is modelled of each, and the hazards of
this code at the lines where they bite.

## 2. Plan

| # | modules | what | state |
|---|---|---|---|
| 1 | GuestSlots, SlotLease, MCGuestSlots, GuestSlots_proofs | pool of processes, handshake, deaths; refinement of a lease | done |
| 2 | GuestSession, ProcessApp, MCGuestSession, GuestSession_proofs | the launches one process serves; refinement of what the framework sees | done |
| 3 | LaunchResult, MCLaunchResult, LaunchResult_proofs | how a result gets back | done |
| 4 | EngineProcess, EngineProcess_proofs | state of one process, watchdogs | done |
| 5 | NativeScan, DartScan, Picking, CallGraph, BootSpine, LinkageFiles, MCLinkage; Scan_proofs, Picking_proofs, LinkageFiles_proofs | the two linkage scripts and their files | done |
| 6 | JniGates, ParcelReader, DartSource, MCGates; Gates_proofs | the gates and readers | done |
| 7 | PathRedirects, AobScan | resolve of both maps against a reference; scan against a scan without windows, with cache and 32-bit bases | planned |
| 8 | PackageConf, Payloads | writer and parser; cyclic XOR | planned |
| 9 | Vpn, TransactionHold, JniHook, BinderCalls, Versions | teardown; held transactions; table patching; rewriting of calls; version ranges | planned |

The order is that of importance: the pool decides which guest runs where, the
session what a process runs, the result what the user is told. GuestSlots and
GuestSession meet in the config of a child and in `ProxyActivity`; LaunchResult
and EngineProcess take over where `launchInSandbox` ends and begins. Modules are
kept apart because their product would exceed TLC's reach; each has the others'
part as one step (GuestSession's `Start` is the handshake of GuestSlots,
LaunchResult's `Dispatch` the end of it, EngineProcess's `LaunchContainer` what
precedes it).

LinkageFiles composes CallGraph and BootSpine: the json that one writes is what the
other loads. NativeScan and DartScan are steps of CallGraph's layers Native and Dart
and leave nothing but edges behind, so they are modules of their own and CallGraph
takes "any of the sites, in any order" for their result. Lookup, scan
and VPN come late because nothing in the repository drives them yet: the scanner's
channel method has no caller on the Flutter side, no file access goes through the
redirects, nothing starts the VPN service.

## 3. The modules and the code

### GuestSlots and SlotLease

`slotOf`, `clientOf`, `deathOf` are the maps of GuestProcessTable, `config` that of
GuestProcessHolder in each child. `links` and `obits` are the binder driver's:
recipients linked to a live child, and deaths reported but not handled. `pc`,
`req`, `at`, `reply` are the locals of `launchInSandbox` and of the diagnostic
handshake, both on the main thread, and gone when the call returns (`Returns`). `Allocate*` is the first critical section;
`CallSpawns`, `CallFails`, `HandleInit*` the provider call, whose check and write
are two steps because the child holds no lock; `Register*` the second critical
section; `Dispatch` the start of the stub. `CreateMismatch`, `CreateLoad`,
`Destroy` are the identity part of ProxyActivity. `ChildDies`, `StartProcess`,
`MainDies` are Android's.

SlotLease is what the table promises: each slot is free or leased to one guest,
and passes from one to another only through free. GuestSlots implements it with
`holder` computed from `slotOf`.

### GuestSession and ProcessApp

One process, several launches. `proc` has `ActivityThread.mInitialApplication`,
`mAllApplications` and the state of each GuestRuntime; `active` is the bridge's
runtime, `wrapper` the launch whose class loader the instrumentation has. One
action per callback: all of it runs on one thread, so only the order in which the
framework delivers callbacks is free. A load is bind, close of the previous one,
bind again (`LoadedV2`), or the v1 loader that cannot unbind (`LoadedV1`).

ProcessApp is what the framework may rely on, without activities or a bridge: one
runtime at a time, a load that hands the process over at once, a close that gives the
host back only where the closed guest is the application, no guest loaded twice.
GuestSession implements it with `app` read from `proc.initialApp` and the sets of
running, v1-bound and closed guests from the states of the runtimes; the bridge's own
`active` is not part of the mapping.

### LaunchResult

The file, one writer per process (`hand`: a record being written between truncate
and fill), the stubs of the launches, and the poller. Time is the number of waits
opened so far, which is all the test `ts > t0` tells apart. A write over a longer
one of another process leaves fields twice; the reader takes the last (`Overlaid`).

### EngineProcess

One process in one of three roles. `orch` are the orchestrator's flags, `vac`,
`proxies`, `jvm`, `native`, `classes` what `VirtualAppContainer.init` and `setup`
leave behind. `Container(pkg)` is init followed by setup and has the three cases of
init (first, same or host package, another package); `Attach*` and `Start` are the
steps of attachToProcess and startEngine, separated where another thread may come
between; `ReadInitialized`, `ReadAttached`, `Case` the watchdog's round.

### NativeScan

scan_native over one window of decoded instructions. `imm`, `load`, `env`, `recent`
and `edge` are the Tracker's three dictionaries, the recent moves and the edge of the
last instruction; each is keyed by the NAME of a register, as in the script. Beside
them the module runs the register file by register NUMBER (`w8` and `x8` are one
register) and `stale`, the facts whose register has changed through an instruction that
Tracker.feed misreads (`add` with `lsl #12`, taken unshifted) or does not parse (a load
with write-back changes its base as well, LdrUnparsed). Every branch of feed and of scan_native is an action:
the moves, loads, calls, branches, `svc`, and instructions of neither kind, which may
write any register.

### DartScan

dart_edges over one listing. The four `pending_*` marks hold the number of the line
that set them (0: not set), `since` the last line at which all of them ought to be
gone; `tail` are the last lines, by which a load within reach is found; `drift` are
the counters that the checks of build compare.

### CallGraph, BootSpine and LinkageFiles

CallGraph has the layers in the order of build, the removal of duplicates by position,
define_chains with its two shapes of chains (hops looked up one by one, of some kinds the
first edge, which stops the script where there is none; all edges of a kind, published
also when there are none, but for CH-12), labels and the checks. Which of its sites a layer finds is open. BootSpine
walks `Plan`, any sequence of the four operations of Spine and Bundle; what a reference
finds in a fragment is a fact that holds of the bundle or does not. LinkageFiles adds
main of both: what is read when, the files, each opened (empty), then closed (whole),
one after the other. `disk` says of each output whether it is there and to its end. A
kill between any two steps leaves what there is. A script reads its inputs at one
time, and is started while the other is not computing; they may meet in the files.
Picking has what a loop with a `continue` or a comprehension with an `if` keeps: the
elements of a sequence at a set of places, in order. It counts places where SelectSeq
recurses, which is what lets the removal of duplicates, `find_kind` and
`_load_call_linkage` be reasoned about.

### JniGates, ParcelReader, DartSource

JniGates: a tree is a set of declarations, table entries, bodies, markers and
mentions, each of which may be commented out (`live`), because the gates read text. A
developer edits one thing at a time; a body is one of nine forms, by its lines (none, one, several)
and what it holds, as far as structural_gates and chain_coherence tell bodies apart, and
one that does nothing but is taken for real is among them; CI runs the three gates on a checkout that nobody
edits, a green one is released. `Registers` and `Bound` are the device's side: what
RegisterNatives and the first call of a native do. ParcelReader: `Write` is
android.os.Parcel, item by item; the reader walks the bytes. DartSource: `Lex` is the
lexer of Dart and `Strip` the script, over the same characters.

## 4. What the runs show

| run | bounds | shows |
|---|---|---|
| slots_safety | 2 guests, 2 slots, at most 2 starts or destroys under way per slot; the main process may die, no other fault | TypeOK, no slot leaked (NoLeakedSlot), a registered child is bound to its guest or to nobody (OwnerBinding), one process never loads two guests (OneGuestPerProcess), a refusal means that the pool is full (RefusedOnlyWhenFull), no rebinding of a running child (NeverRebound); idle children die at any time |
| slots_faults | 2 guests, 2 slots, 1 start; all faults | SlotExclusive, its inductive strengthening, and the refinement of SlotLease |
| slots_live | as above; calls that throw and children that die before they have answered (CallingFaults), fairness | a dead guest's slot is released (DeadGuestReleased); every launch and handshake returns, also when the child refuses, was never started or dies under the call (LaunchReturns) |
| session | 3 launches, 2 guests, all faults but the permanent one, fairness | application, application list and bridge agree (ProcessAppAlive, NoDeadAppListed, NoOrphanRuntime, ActiveIsCurrent); the refinement of ProcessApp (AppSpec); no blank stub |
| launch_result | 2 launches, 2 guests, 2 polls, all faults, two processes writing over one another | an answer before the polls are over bears the launched package and is made of fresh writes (WholeAnswer); an early success was loaded and reported by some process, not by one whose load failed (SuccessIsOwn); that the answer is one record and the success the launched guest's holds where no two processes wrote at once, and both say so |
| engine | 3 guests, 3 watchdogs, all faults, fairness | IdentityAgrees, OnlyCurrentGuest, GuestMapKept; EngineComesUp |
| linkage | files: 8 sites in 7 layers, 5 chains (2 looked up hop by hop, 3 lists, one of which may be left out), a plan of 7 entries, one run of each script, one edit by hand, kills; native: 3 names of 2 registers, windows of 3 instructions, look-back 2; listings of 5 lines, 2 of them recent | what the tracker believes of a register is true as long as nothing it misreads or does not parse has changed the register (TrackedIsTrue); a "proven" edge is the one the registers make under the conditions the comment of ProvenIsRight lists, and not otherwise; no blr takes the mark of another (NoBorrowedMark), a published graph has an edge for every hop, numbered and labelled for its chain (PublishedGraph), a spine that passed its checks is whole (SpineComplete), a proven hop has its references in the bundle (ProvenResolves) |
| gates | 3 natives, 5 descriptors, 9 forms of a body, 2 edits; parcels of 3 items; comments nested 2 deep | a released tree registers on the device (ReleasedRegisters), has its chain natives declared and called as the chain says, and marked where S3 sees that the body is empty (ReleasedChainWired); where each integer of a parcel is followed by a null or a string that is not empty (and a 1 by one shorter than 32), the names found are those written, in order (StringsFound); what strip_comments keeps is the code, where no comment is nested (StripsComments) |
| slots_stale_death | as slots_safety, no faults | **violated**: a late death report releases a live child |
| session_closed_early | as session, build failures | **violated**: the destroy of a failed stub closes the guest on the screen |
| launch_stale | as launch_result, no faults | **violated**: the result of another guest's session is handed to the UI |
| engine_unmapped | as engine, no faults | **violated**: a child never redirects its guest's data |

Why the bounds are enough: every interaction in the pool is between a guest, its
slot and one competitor for that slot, so two guests and two slots reach them; the
last slot is also the diagnostic one. Two pending starts let a destroy of one
launch follow the creation of the next. Three launches let a session close while
one guest is loaded and another waits. Two polls are a first and a last one. Three
guests give a previous, a current and a next identity, and three watchdogs two that
race and one that comes later. The safety theorems of section 5 do not depend on any of
these bounds.

`linkage` and `gates` hold parts that share no state: a behaviour picks a part at the
start and takes only its steps, so nothing is lost by not interleaving them. A fact
about a register is made by one instruction, spoilt by a second and used by a third, and
two names of one register are the least that can disagree; five lines hold a header, a
mark, a call between and the blr that could borrow the mark. The plan has each operation
of the spine, one of them after a failure. One edit is enough to make two scripts see
different inputs. A binding has two ends, so two edits make each of them wrong in turn,
and every gate is between them.

### Disagreements between code and comments

Each is a run that ends in a counterexample and an entry under "findings":

* **A late death report** (slots_stale_death). The recipient removes the entries of
  its slot without asking whether they are still its own; a guest that was
  relaunched in the same slot before the report came is dropped from the table
  while it runs.
* **Cleanup by the wrong stub** (session_closed_early). `onDestroy` closes whatever
  runtime the process has, not that of its own launch.
* **Stale results** (launch_stale). After the last poll the last read is handed over
  whatever its age and package.
* **Guests without redirects** (engine_unmapped). The host is always initialised
  first, the re-init for a guest skips setupVirtualFS, and attaching then "preserves"
  a map that was never made.

More configurations end in counterexamples to claims of comments; they are kept for
the reader and are not among the listed runs: slots_diag_pins and
slots_diag_takeover (a diagnostic handshake pins a slot; it writes over the config
of a guest that seeds meanwhile), slots_leak (a child that dies between reply and
linkToDeath), slots_over_owner (a failed handshake is dispatched anyway),
session_not_closed (a swapped guest that ends closes nothing), session_bind_claims
(a bind that wrote no field reports success), launch_failure (swallowed exceptions
reported as the outcome; two processes that write at once, and an answer that is of
neither or a success of another guest; three invariants, remove one to see the next),
engine_shutdown (what shutdown leaves behind),
engine_module (a racing attach leaves the module at 0), engine_nolib (`:engine`
without the library).

So are those about the scripts:

* linkage_label: the label of an indirect call reaches back over another blr to a load
  that was not made for it (LabelIsFresh). The tracker is wrong about a register after an
  instruction it misreads (`add` with `lsl #12`, whose shift it does not read) or does not
  parse (a load with write-back, the second register of an `ldp`, a call), though its
  docstring says "Everything it cannot follow stays 'unknown'" (TrackerNeverWrong); and so
  an edge published as proven can be wrong (ProvenNeverWrong): `mov w8,#56; mov w6,#0xde;
  svc` is published with the number of w6. (Three invariants: remove one to see the next.)
* linkage_collapse: a chain imported as one hop is written as proven whatever its
  edges are.
* linkage_inputs: after a kill or an edit the files left behind are of different inputs.
* linkage_zip: the graph is published although the file in the directory no longer says what
  the zip does: an edit that keeps its length does not move the fingerprint.
* gates_released: a line that is commented out satisfies jni_parity, and the library then
  fails to load (ReleasedLoads); a native whose only caller is a test stub passes for used
  (ReleasedIsUsed); a chain native with the body `{ LOGD("%p", (void*)o); }` or
  `{ return 0; }` is released without a marker (NoopsSaySo); and a body that is a comment
  or a bare return passes for one that does something in chain_coherence as well
  (CoherentRuns). (Four invariants: remove one to see the next.)
* gates_audit: system_link_audit takes `java.lang.reflect.Method` for `Object`, so a
  binding that registers is reported (`nativeReflectUpdate` and `nativeInitContext` of
  this tree are).
* gates_parcel: an integer before a string, such as 5000, 0 or 1, is taken for a length
  that swallows it.
* gates_dart: after a nested comment `/* a /* b */ c */` the script keeps ` c */` for
  code; and a right file with a quote of the other kind in a string fails the count of
  quotes. (Two invariants: remove one to see the other's counterexample first.)

### Fairness

* GuestSlots: the main thread runs and the binder driver reports deaths, with weak
  fairness. The child's taking of the call (HandleInit) has strong fairness: a child that
  dies before its entry point is started again for the same call, so taking it is
  enabled again and again but not for good, and the framework gives up on a provider
  that dies every time. A call that the child has taken is ended by its answer or, when
  it dies, by the driver (DeadObjectException, HandleInitLost), and neither needs more.
  Nothing is assumed of users and faults: no call has to fail, no child to die.
* GuestSession: the framework delivers creations, relaunches and destroys, and kills
  the process only finitely often; otherwise no stub could ever be shown.
* EngineProcess: threads run, a start command comes (AetherApp sends one), and init
  and the resolver fail only finitely often: the watchdog retries for ever, which is
  no use against a permanent failure. `lib` in the property excludes that one.
* LaunchResult states no liveness: its waits are bounded by construction.
* The scripts state none either: they may be killed at any step and nobody is promised
  that they are run again.

## 5. What is proved

For all values of the constants that satisfy the modules' ASSUMEs (at least one
slot and bound, the distinguished values outside the sets):

* GuestSlots_proofs. `Inductive`: `Spec => []IInv`, where IInv is TypeOK and
  SlotExclusive together with Reserved (between the two critical sections the granted
  slot is nobody else's), ReplyFresh (a reply taken for live is the running child's),
  ReplyKept (an answer that is registered is a live child's, unless children die between the
  two) and Recorded (binder and recipient are recorded together, and that of a
  live child is linked). SlotExclusive alone is not inductive: a registration writes
  `slotOf` for a slot that was tested long before, and Reserved is what carries the
  test over; the counters in TypeOK stay natural numbers only because of Recorded.
  From it: `TypeCorrect`, `SlotsExclusive`, `ImplementsLease` (the refinement of
  SlotLease), and, where no child dies inside its own launch, `SlotsNotLeaked` and
  `RefusedWhenFull`.
  `OwnersBound`, `GuestsApart` and `GuestsNotRebound` are about what a child is, not
  what the table says of it, and assume that nothing fails but the main process
  (`Faults \subseteq {"mainDies"}`, the faults of slots_safety). They rest on Unshared
  (`NeverShared`): whoever has a claim on a process, by an entry in the table, a reply on
  its way, a start or a stub under way, the config or the loaded guest, is the same guest.
  None of these claims excludes another guest by itself: an entry goes with a death
  report, a config with a late destroy. With any one of the other five faults TLC finds a
  process that loads two guests, so the hypothesis cannot be dropped.
* GuestSession_proofs. `Spec => []IInv` with IInv the type invariant, ProcessAppAlive,
  NoDeadAppListed and NoOrphanRuntime, which hold only together: a load binds the new
  guest before it closes the previous one, and closing leaves the application alone
  only because no third runtime is left active. From it: `TypeCorrect`,
  `ProcessAppNeverDead`, `ListedNeverDead`, `RuntimesClosable`, and
  `BridgeHoldsCurrent`, which assumes that the fields of the ActivityThread can be
  written (no hiddenApi fault) and needs that a launch has no runtime before its
  activity is created (Unloaded).
  `ImplementsApp`: the session implements ProcessApp under every fault. The first bind,
  the close and the second bind of a v2 load add up to one handover, and what `onDestroy`
  closes through the bridge is every runtime that runs. This needs Unloaded and Held:
  what the bridge holds is active, and where no field can be written the host stays the
  application for good.
* LaunchResult_proofs. `Inductive`: besides types, what is in the file or in the hand of a
  writer is that writer's own and true (RecordsTrue: "launched" is written by a process that
  did load its guest), and what a fresh record in the file says was written since the wait
  was opened, by one writer unless two wrote at once (StampsTrue): a file that is left
  behind or half written is stamped earlier or is no record. From it `AnswersWhole` and
  `SuccessesOwn`, under every fault; where two processes wrote over one another both still
  say what is left (each field fresh and written; some guest loaded), and NeverMixed and
  NeverAnothersSuccess (launch_failure) show that no more can be said.
* EngineProcess_proofs. `Invariant`: `Spec => []IInv`. IdentityAgrees speaks of the
  main thread at rest only; Agrees says the same of every state with the container in
  use. The rest of IInv says who may write when: a process that has not booted has no
  identity and no watchdogs (Fresh), the host's identity comes first (HostFirst, Named),
  a container that was shut down is on its way to the next guest (Launching), and a
  child attaches under a guest's name only (ChildMap). Watchdogs interleave with the
  main thread at every step, so each of these must survive both. From it:
  `TypeCorrect`, `IdentitySafety`, `GuestSafety`, `MapSafety`.

* Scan_proofs, NativeScan. `TrackedIsTrueHolds` from TInv, which is Total (every name has an
  entry of each dictionary) with Tracked (what is believed of a name holds of its number,
  or the fact is stale): a fact is written under one name and a register has several, so
  each instruction must be shown to change the register and all that is believed of it,
  or to enter it as stale. `ProvenIsRightHolds` adds LookBack: while no call or other
  write has come since, and no staging of w6/x6, the nearest move in the listing to w8 or
  x8 is what it holds. Both theorems are about the facts that are not stale: an `add`
  with a shifted immediate, a load with write-back and a call make what they change
  stale, and of stale facts nothing is claimed, because the tracker keeps them and uses
  them (TrackerNeverWrong and ProvenNeverWrong, section 4).
* Scan_proofs, DartScan. `MarksNeverBorrowed` from DInv: besides types, MarksAreFresh (a mark
  that is set is younger than the last header and the last blr). NoBorrowedMark speaks
  of the edge that was given only; what makes it inductive is that the marks not used
  by that edge are cleared with it.
* LinkageFiles_proofs, for any layers, recipes, plans and bundles and any number of runs.
  - `GraphIsWoven` (PublishedGraph) from GraphInv and Filed. Numbered: an id is given out
    once, also while layers still add. NoneTwice: from the de-duplication on a hop is there
    once, for an edge that stays is the first of its hop and keeps its place in the order.
    Woven: from define_chains on a hop of a chain, unless it is missing, is an edge that
    says so. Filed: a script that writes has a finished graph without a missing hop in
    memory. PublishedGraph alone says nothing before the first file is opened.
  - `SpineIsComplete` (SpineComplete) from SpineInv. Indexed: as long as no problem is
    recorded, a chain of the bundle is the chain of the file; Traced: a hop is the edge it
    announces, or has no number; Brought: each import so far has brought its whole chain, or
    a problem is recorded. The json may be any, with rows taken out. The plan imports no
    chain that it also collapses (BootAssumption; build of build_boot_linkage.py
    imports CH-01, CH-03 to CH-10 and CH-12 and collapses CH-02 and CH-11).
  - `ProvenResolvesHolds` from Verified: from the checks on, every hop of the spine has its
    references or is not proven; verify establishes it hop by hop, and neither a kill nor an
    edit of the json changes the spine after that.
  - `LinkageTyped` joins these with `TrackerTyped` and `ScanTyped` of the two scans:
    a behaviour of the run `linkage` is a behaviour of each of its parts (PartsRun).
* Picking_proofs, the lemmas that the linkage scripts and the Parcel share: a set of n places
  has an n-th for each number up to its size (Ranks), so what is picked is as long as the
  places are many, picking all places gives the sequence back (PickedSome, PickedAll), and
  one place more behind the others appends its element (PickedMore). That is by counting,
  with a bijection between places and numbers, and needs no induction over the sequence.
* Gates_proofs. `RegistersHolds`, `ChainWiredHolds` from GreenSoFar: the verdicts of
  the gates that have run are about the tree as it is, because a checkout is not edited
  while they run. `ChainWiredHolds` needs two of them for the declaration: ChainParity
  compares the table with CHAIN, jni_parity the declarations with the table. `StripsCommentsHolds` from SInv, which is
  Located (the lexer is in a comment exactly while its depth is positive) with InStep
  (without nested comments both are at the same place). That they kept the same
  characters so far is not inductive without the place. `GatesTyped` adds the Parcel:
  its bytes stay octets, so that every length that is read is an integer and what passes
  for a string is null or printable.
  `NamesFound` (StringsFound) is about a Parcel of any length and assumes that its strings
  are shorter than 4000 (Short): read_strings takes no longer one for a string, and then
  finds whatever its characters look like. The invariant is PInv. Laid: there are places,
  one for each item and one for the end, at which the bytes are those of the item; an
  item that is written adds a place and leaves the others (WriteLaid). ReadUpTo: the
  reader stands at one of these places, or inside an integer, and has found the names of
  the items before it. That such places exist is the invariant's, not a definition by
  recursion over the items, and so no step needs an induction: the writer extends the
  Parcel at its end, the reader goes from one item to the next (ReadStep). An integer is
  walked over byte by byte: at each of its four bytes, with what comes next read as the
  rest of a length and as characters, neither encoding accepts (IntBeforeNull,
  IntBeforeString, IntAtEnd), which is where Lone is used to the letter. A string of one
  character in UTF-16 is read as UTF-8 and is the same string and takes the same room
  (ReadsUtf16); an empty one is read as empty whichever it was (EmptyUtf8).

The IInv of EngineProcess, GraphInv, Filed, SpineInv and PInv (with the places computed)
were run through TLC on the instances of `engine`, `linkage` and `gates` before they were
proved. Every invariant and action property of section 4, and both refinements, are
proved; only model-checked is liveness (DeadGuestReleased, LaunchReturns, NoBlankStub,
EngineComesUp), which together with ENABLED is out of the prover's reach.

## 6. What is left out

* Of the modelled components: the remote routing methods of ProxyContentProvider and
  `shutdown` and `detachFromProcess` of the orchestrator (no caller); the spoofed
  process name, guest providers and resources; the config object's other fields; the
  diagnostic handshake in GuestSession (GuestSlots has it); redirects for the root and
  cmdline paths (fixed targets); Case 3 of the watchdog, dead because the native check
  is constant.
* Of the linkage scripts: the rendered documents and the texts of hops; the arguments of
  system calls and the shape of calls; curated annotations as such; DartSymbols' naming;
  what a check over the fragments alone finds (it passes or fails freely).
* Of the gates: S1 and S2 of structural_gates, the anchors of chain_coherence, the path
  and staleness checks of the audit, the assertions native_chain_parity makes about
  its fixed evidence and itself; members, imports and arguments in dart_static_check, raw
  and multi-line strings and interpolation.
* Not modelled yet: modules 7 to 9 of the plan.
* Not to be modelled: I/O and text (crash reports, log files, shell commands), widgets;
  scripts that only compare text with a fixed table (snake_ui_parity,
  structure_coherence, wire_contract_check, evidence_conflict_scan, snake_call_shape) or
  generate it (extract_native_callsites, make_dart_flutter_stub); vendored code.
