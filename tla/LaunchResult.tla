---------------------------- MODULE LaunchResult ----------------------------
(***************************************************************************)
(* How the outcome of a launch gets from the guest's process to the UI:    *)
(* every process writes files/diag/launch_result.json (DiagLog.writeResult *)
(* under a lock of its own process), and EngineBridge.launchResultAwait    *)
(* polls that one file in the main process.                                *)
(*                                                                         *)
(* A guest has one process (GuestSlots).  Its lock serialises its writes;  *)
(* those of two processes may overlap.  Time is the number of waits opened *)
(* so far: a record is fresh if it was stamped since the last was opened.  *)
(***************************************************************************)
EXTENDS Integers

CONSTANTS
  Guests,       \* guest packages; each stands for its process too
  NoGuest,      \* identity of no record
  MaxLaunches,  \* bound: the launches of a behaviour
  MaxPolls,     \* how often the file is read (10 in the code)
  Faults        \* which of FaultKinds may happen

(***************************************************************************)
(* containerFails  VirtualAppContainer throws; the launch goes on          *)
(* mismatch        the stub lands in the process of another guest          *)
(* loadFails       the guest is not loaded                                 *)
(* swapMissed      the stub is created a second time                       *)
(* guestThreads    a thread of the guest throws, and the firewall reports  *)
(* childDies       a guest's process is killed                             *)
(***************************************************************************)
FaultKinds ==
  {"containerFails", "mismatch", "loadFails", "swapMissed", "guestThreads",
   "childDies"}

ASSUME ConstantsAssumption ==
  /\ NoGuest \notin Guests
  /\ MaxLaunches \in Nat \ {0}
  /\ MaxPolls \in Nat \ {0}
  /\ Faults \subseteq FaultKinds

VARIABLES
  file,     \* the result file; NoRecord while absent or truncated
  hand,     \* per process: the record its lock holder is writing, or NoRecord
  guest,    \* per launch: its package
  step,     \* per launch: how far its stub has come
  opened,   \* how many waits were opened; the clock
  pc,       \* main thread: launchInSandbox, launchResultAwait
  polls,    \* poller: reads made
  seen,     \* poller: m, the last read
  answer,   \* what the UI was told; NoRecord for "pending"
  how,      \* history: what ended the last wait
  written,  \* history: the records written to the end since the last Open
  torn,     \* history: a record was written over another process's since then
  loads     \* history: the packages loaded, each with the time of its load

childVars == <<guest, step>>
waitVars == <<opened, pc, polls, seen, answer, how>>
historyVars == <<written, torn, loads>>
vars == <<file, hand, childVars, waitVars, historyVars>>

Launches == 1 .. MaxLaunches

\* neither: ok is true and the stage is not "recreate".
Verdict == {"failed", "launched", "neither", "none"}
Record ==
  [guest : Guests \cup {NoGuest}, verdict : Verdict, ts : 0 .. MaxLaunches]
NoRecord == [guest |-> NoGuest, verdict |-> "none", ts |-> 0]

TypeOK ==
  /\ file \in Record
  /\ hand \in [Guests -> Record]
  /\ guest \in [Launches -> Guests \cup {NoGuest}]
  /\ step \in [Launches -> {"none", "created", "loading", "launched", "swapped",
                            "ended"}]
  /\ opened \in 0 .. MaxLaunches
  /\ pc \in {"idle", "dispatched", "waiting"}
  /\ polls \in 0 .. MaxPolls
  /\ seen \in Record
  /\ answer \in Record
  /\ how \in {"none", "early", "late", "expired"}
  /\ written \in SUBSET Record
  /\ torn \in BOOLEAN
  /\ loads \subseteq [guest : Guests, ts : 0 .. MaxLaunches]

Init ==
  /\ file = NoRecord
  /\ hand = [g \in Guests |-> NoRecord]
  /\ guest = [l \in Launches |-> NoGuest]
  /\ step = [l \in Launches |-> "none"]
  /\ opened = 0 /\ pc = "idle" /\ polls = 0 /\ seen = NoRecord
  /\ answer = NoRecord /\ how = "none"
  /\ written = {} /\ torn = FALSE /\ loads = {}

May(fault) == fault \in Faults

-----------------------------------------------------------------------------
(* DiagLog.writeResult: stamp and truncate, then fill                      *)

Begin(g, verdict) ==
  /\ hand[g] = NoRecord
  /\ hand' = [hand EXCEPT
                 ![g] = [guest |-> g, verdict |-> verdict, ts |-> opened]]
  /\ file' = NoRecord
  /\ UNCHANGED <<waitVars, written, torn>>

\* What the reader finds in r written over the longer old: the fields of its
\* tail once more, and the last one counts.  ok comes first, then the stage,
\* the identity and ts.
Overlaid(r, old) ==
  {r,
   [r EXCEPT !.ts = old.ts],
   [r EXCEPT !.guest = old.guest, !.ts = old.ts],
   [old EXCEPT !.verdict = IF r.verdict = "failed" THEN "failed"
                           ELSE IF @ = "launched" THEN @ ELSE "neither"]}

Fill(g) ==
  /\ hand[g] # NoRecord
  /\ IF file = NoRecord
     THEN file' = hand[g] /\ UNCHANGED torn
     ELSE file' \in Overlaid(hand[g], file) /\ torn' = TRUE
  /\ written' = written \cup {hand[g]}
  /\ hand' = [hand EXCEPT ![g] = NoRecord]
  /\ UNCHANGED <<childVars, waitVars, loads>>

-----------------------------------------------------------------------------
(* ProxyActivity.onCreate in the guest's process                           *)

\* The main thread of the process goes on when its write is done.
Advance(l, from, to) ==
  /\ step[l] = from
  /\ hand[guest[l]] = NoRecord
  /\ step' = [step EXCEPT ![l] = to]
  /\ UNCHANGED guest

ReportThenAdvance(l, from, to, verdict) ==
  Advance(l, from, to) /\ Begin(guest[l], verdict)

\* The report carries the identity of the process, not of the launch.
Mismatch(l) ==
  /\ May("mismatch")
  /\ step[l] = "created"
  /\ step' = [step EXCEPT ![l] = "ended"]
  /\ UNCHANGED guest
  /\ \E h \in Guests \ {guest[l]} : Begin(h, "failed")
  /\ UNCHANGED loads

ContainerReady(l) ==
  /\ Advance(l, "created", "loading")
  /\ UNCHANGED <<file, hand, waitVars, historyVars>>

ContainerFails(l) ==
  /\ May("containerFails")
  /\ ReportThenAdvance(l, "created", "loading", "failed")
  /\ UNCHANGED loads

LoadFails(l) ==
  /\ May("loadFails")
  /\ ReportThenAdvance(l, "loading", "ended", "failed")
  /\ UNCHANGED loads

Loads(l) ==
  /\ ReportThenAdvance(l, "loading", "launched", "launched")
  /\ loads' = loads \cup {[guest |-> guest[l], ts |-> opened]}

Swaps(l) ==
  /\ Advance(l, "launched", "swapped")
  /\ UNCHANGED <<file, hand, waitVars, historyVars>>

SwapMissed(l) ==
  /\ May("swapMissed")
  /\ ReportThenAdvance(l, "launched", "ended", "failed")
  /\ UNCHANGED loads

\* The firewall reports every exception, also those it swallows; once the config
\* is reset, which is left out, under an identity that no wait accepts.
FirewallReports(l) ==
  /\ May("guestThreads")
  /\ step[l] \in {"loading", "launched", "swapped"}
  /\ Begin(guest[l], "failed")
  /\ UNCHANGED <<childVars, loads>>

ChildDies(g) ==
  /\ May("childDies")
  /\ \E l \in Launches : guest[l] = g /\ step[l] # "ended"
  /\ hand' = [hand EXCEPT ![g] = NoRecord]
  /\ step' = [l \in Launches |-> IF guest[l] = g THEN "ended" ELSE step[l]]
  /\ UNCHANGED <<file, guest, waitVars, historyVars>>

-----------------------------------------------------------------------------
(* EngineBridge, main process                                              *)

\* launchInSandbox has dispatched the stub.
Dispatch(g) ==
  /\ pc = "idle"
  /\ opened < MaxLaunches
  /\ guest' = [guest EXCEPT ![opened + 1] = g]
  /\ step' = [step EXCEPT ![opened + 1] = "created"]
  /\ pc' = "dispatched"
  /\ UNCHANGED <<file, hand, opened, polls, seen, answer, how, historyVars>>

\* launchResultAwait takes t0, not before.
Open ==
  /\ pc = "dispatched"
  /\ pc' = "waiting"
  /\ opened' = opened + 1
  /\ answer' = NoRecord /\ how' = "none"
  /\ written' = {} /\ torn' = FALSE
  /\ UNCHANGED <<file, hand, childVars, polls, seen, loads>>

\* Mutants of Decisive: ts is not compared, or the identity is not.
DecisiveStale(r) ==
  r.guest = guest[opened] /\ r.verdict \in {"failed", "launched"}

DecisiveAnyGuest(r) ==
  r.ts = opened /\ r.verdict \in {"failed", "launched"}

Decisive(r) ==
  /\ r.ts = opened
  /\ r.guest = guest[opened]
  /\ r.verdict \in {"failed", "launched"}

Told(r, by) ==
  /\ pc' = "idle" /\ answer' = r /\ how' = by
  /\ polls' = 0 /\ seen' = NoRecord
  /\ UNCHANGED <<file, hand, childVars, opened, historyVars>>

PollDecisive ==
  /\ pc = "waiting" /\ polls < MaxPolls
  /\ Decisive(file)
  /\ Told(file, "early")

\* Mutant of PollOther: one poll too many.
PollOtherOnceMore ==
  /\ pc = "waiting" /\ polls <= MaxPolls
  /\ ~ Decisive(file)
  /\ polls' = polls + 1 /\ seen' = file
  /\ UNCHANGED <<file, hand, childVars, opened, pc, answer, how, historyVars>>

PollOther ==
  /\ pc = "waiting" /\ polls < MaxPolls
  /\ ~ Decisive(file)
  /\ polls' = polls + 1 /\ seen' = file
  /\ UNCHANGED <<file, hand, childVars, opened, pc, answer, how, historyVars>>

\* The last read is handed over as it is, fresh or not.
PollsOver ==
  /\ pc = "waiting" /\ polls = MaxPolls
  /\ Told(seen, "late")

\* await gives up before a starved poller is through.
AwaitExpires ==
  /\ pc = "waiting"
  /\ Told(NoRecord, "expired")

-----------------------------------------------------------------------------
Stub(l) ==
  \/ Mismatch(l) \/ ContainerReady(l) \/ ContainerFails(l)
  \/ LoadFails(l) \/ Loads(l) \/ Swaps(l) \/ SwapMissed(l)

Next ==
  \/ \E g \in Guests : Dispatch(g) \/ Fill(g) \/ ChildDies(g)
  \/ \E l \in Launches : Stub(l) \/ FirewallReports(l)
  \/ Open \/ PollDecisive \/ PollOther \/ PollsOver \/ AwaitExpires

Spec == Init /\ [][Next]_vars

-----------------------------------------------------------------------------
(* Properties                                                              *)

\* Every field of r that a wait decides by is that of some record written to
\* the end since the wait was opened, of one process or of another.
WrittenPiecewise(r) ==
  /\ \E x \in written : x.guest = r.guest
  /\ \E x \in written : x.ts = r.ts
  /\ r.verdict \in {"failed", "launched"} => \E x \in written : x.verdict = r.verdict

\* An answer given before the polls are over bears the package that was launched
\* and a time since the wait was opened, and all of it was written since then:
\* nothing of a file caught half written, or left by an earlier session, is ever
\* taken for it.  Where no two processes wrote at once it is one record, as its
\* writer wrote it; where two did, its fields may come from both, each of them
\* still fresh (launchResultAwait 307-313, writeResult, readResult).
WholeAnswer ==
  how = "early" =>
    /\ answer.guest = guest[opened] /\ answer.ts = opened
    /\ WrittenPiecewise(answer)
    /\ ~ torn => answer \in written

LoadOf(r) == [guest |-> r.guest, ts |-> r.ts]

\* The UI is told early of a success only if some process did load its guest and
\* reported it since the wait was opened; where no two processes wrote at once,
\* the guest is the launched one, loaded since then, whatever other guests
\* report at the time (ProxyActivity 246-251, launchResultAwait).
SuccessIsOwn ==
  how = "early" /\ answer.verdict = "launched" =>
    \E r \in written :
      /\ r.verdict = "launched" /\ LoadOf(r) \in loads
      /\ ~ torn => r.guest = guest[opened] /\ r.ts = opened

-----------------------------------------------------------------------------
(* What these invariants rest on                                           *)

Dispatched == 1 .. IF pc = "dispatched" THEN opened + 1 ELSE opened

\* A launch has its package, and goes through its stages, from its dispatch on;
\* nobody waits for one that was not dispatched.
LaunchesInOrder ==
  /\ \A l \in Launches :
       IF l \in Dispatched THEN guest[l] \in Guests /\ step[l] # "none"
                            ELSE guest[l] = NoGuest /\ step[l] = "none"
  /\ Dispatched \subseteq Launches
  /\ pc = "waiting" \/ how # "none" => opened # 0

\* What a process writes is its own guest's, and true when it says "launched".
RecordsTrue ==
  /\ \A g \in Guests : hand[g] # NoRecord => hand[g].guest = g
  /\ \A r \in written \cup {hand[g] : g \in Guests} :
       r.verdict = "launched" => LoadOf(r) \in loads

\* No record is of the future, and what bears a time since the last Open was
\* written since: a file truncated before holds nothing of an earlier record, and
\* the time of what was written over an earlier one is the earlier.
StampsTrue ==
  /\ file.ts <= opened
  /\ \A g \in Guests : hand[g].ts <= opened
  /\ file # NoRecord /\ file.ts = opened =>
       WrittenPiecewise(file) /\ (~ torn => file \in written)

\* The inductive invariant of LaunchResult_proofs.
IInv ==
  TypeOK /\ LaunchesInOrder /\ RecordsTrue /\ StampsTrue /\ WholeAnswer
=============================================================================
