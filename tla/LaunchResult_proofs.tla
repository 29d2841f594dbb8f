------------------------- MODULE LaunchResult_proofs -------------------------
(***************************************************************************)
(* Theorems about LaunchResult, for any guests, launches and polls and     *)
(* under every fault.                                                      *)
(*                                                                         *)
(* WholeAnswer is about the file, and every process writes it.  IInv says  *)
(* of what was written and of what is in the hands of the writers that it  *)
(* is its writer's own and true (RecordsTrue), that nothing bears a time   *)
(* to come, and that a file with a fresh time is made of what was written  *)
(* since the wait was opened (StampsTrue), even where two processes wrote  *)
(* over one another: a file that was left behind or is half written is     *)
(* stamped earlier or is no record.                                        *)
(***************************************************************************)
EXTENDS LaunchResult, TLAPS

Stages == {"none", "created", "loading", "launched", "swapped", "ended"}

LEMMA NoRecordIsRecord == NoRecord \in Record
  BY ConstantsAssumption DEF NoRecord, Record, Verdict

\* What is read of a record that was written over another is a record: its
\* time is that of the one or the other, and where it is the new one's alone
\* the record is the new one; a verdict that decides is of one of the two.
LEMMA OverlaidRecord ==
  ASSUME NEW r \in Record, NEW old \in Record, NEW x \in Overlaid(r, old)
  PROVE  /\ x \in Record
         /\ x = r \/ x.ts = old.ts
         /\ x.guest \in {r.guest, old.guest}
         /\ x.verdict \in {r.verdict, old.verdict, "neither"}
  BY DEF Overlaid, Record, Verdict

\* A launch is dispatched as the next one.
LEMMA NextLaunch ==
  ASSUME TypeOK, NEW g \in Guests, Dispatch(g)
  PROVE  /\ opened + 1 \in Launches
         /\ opened + 1 \notin Dispatched
         /\ Dispatched' = Dispatched \cup {opened + 1}
  <1>1. opened \in Nat /\ MaxLaunches \in Nat /\ opened < MaxLaunches
    BY ConstantsAssumption DEF TypeOK, Dispatch
  <1>2. Dispatched = 1 .. opened /\ Dispatched' = 1 .. opened + 1
    BY DEF Dispatch, Dispatched
  <1> QED
    BY <1>1, <1>2 DEF Launches

LEMMA InitIInv == Init => IInv
  <1> SUFFICES ASSUME Init PROVE IInv
    OBVIOUS
  <1>1. TypeOK
    <2>1. /\ hand \in [Guests -> Record]
          /\ guest \in [Launches -> Guests \cup {NoGuest}]
          /\ step \in [Launches -> Stages]
      BY NoRecordIsRecord DEF Init, Stages
    <2>2. opened \in 0 .. MaxLaunches /\ polls \in 0 .. MaxPolls
      BY ConstantsAssumption DEF Init
    <2> QED
      BY <2>1, <2>2, NoRecordIsRecord DEF Init, TypeOK, Stages
  <1>2. Dispatched = {}
    BY DEF Init, Dispatched
  <1>3. LaunchesInOrder
    BY <1>2 DEF Init, LaunchesInOrder
  <1>4. RecordsTrue
    BY DEF Init, RecordsTrue, NoRecord
  <1>5. StampsTrue
    BY DEF Init, StampsTrue, NoRecord
  <1>6. WholeAnswer
    BY DEF Init, WholeAnswer
  <1> QED
    BY <1>1, <1>3, <1>4, <1>5, <1>6 DEF IInv

\* A stub's step takes its launch further and writes nothing but its guest's
\* failure or the load that just worked.
LEMMA StubStep ==
  ASSUME IInv, NEW l \in Launches, Stub(l) \/ FirewallReports(l)
  PROVE  /\ l \in Dispatched
         /\ UNCHANGED <<guest, waitVars, written, torn>>
         /\ \E to \in Stages \ {"none"} : step' = [step EXCEPT ![l] = to]
         /\ loads' \in {loads, loads \cup {[guest |-> guest[l], ts |-> opened]}}
         /\ \/ UNCHANGED <<file, hand>>
            \/ \E h \in Guests, v \in {"failed", "launched"} :
                 /\ Begin(h, v)
                 /\ v = "launched" => [guest |-> h, ts |-> opened] \in loads'
  <1>1. step[l] # "none" /\ step[l] # "ended"
    BY DEF Stub, FirewallReports, Mismatch, ContainerReady, ContainerFails, LoadFails,
           Loads, Swaps, SwapMissed, ReportThenAdvance, Advance
  <1>2. l \in Dispatched /\ guest[l] \in Guests
    BY <1>1 DEF IInv, LaunchesInOrder
  <1>3. step \in [Launches -> Stages]
    BY DEF IInv, TypeOK, Stages
  <1> USE DEF Begin, Stages, waitVars, childVars, historyVars
  <1>4. CASE Mismatch(l)
    BY <1>2, <1>4 DEF Mismatch
  <1>5. CASE ContainerReady(l)
    BY <1>2, <1>5 DEF ContainerReady, Advance
  <1>6. CASE ContainerFails(l)
    BY <1>2, <1>6 DEF ContainerFails, ReportThenAdvance, Advance
  <1>7. CASE LoadFails(l)
    BY <1>2, <1>7 DEF LoadFails, ReportThenAdvance, Advance
  <1>8. CASE Loads(l)
    <2>1. /\ Begin(guest[l], "launched") /\ guest' = guest
          /\ step' = [step EXCEPT ![l] = "launched"]
          /\ loads' = loads \cup {[guest |-> guest[l], ts |-> opened]}
      BY <1>8 DEF Loads, ReportThenAdvance, Advance
    <2> QED
      BY <1>2, <2>1
  <1>9. CASE Swaps(l)
    BY <1>2, <1>9 DEF Swaps, Advance
  <1>10. CASE SwapMissed(l)
    BY <1>2, <1>10 DEF SwapMissed, ReportThenAdvance, Advance
  <1>11. CASE FirewallReports(l)
    <2>1. step' = [step EXCEPT ![l] = step[l]]
      BY <1>3, <1>11 DEF FirewallReports
    <2> QED
      BY <1>2, <1>11, <2>1 DEF FirewallReports
  <1> QED
    BY <1>4, <1>5, <1>6, <1>7, <1>8, <1>9, <1>10, <1>11 DEF Stub

-----------------------------------------------------------------------------
(* The parts that most steps leave alone                                   *)

\* A dispatched launch keeps its package.
LEMMA GuestFixed ==
  ASSUME IInv, [Next]_vars, NEW l \in Launches, guest[l] # NoGuest
  PROVE  guest'[l] = guest[l]
  <1>1. ASSUME NEW g \in Guests, Dispatch(g)
        PROVE  guest'[l] = guest[l]
    <2>1. opened + 1 \notin Dispatched /\ opened + 1 \in Launches
      BY <1>1, NextLaunch DEF IInv
    <2> QED
      BY <1>1, <2>1 DEF Dispatch, IInv, TypeOK, LaunchesInOrder
  <1>2. ASSUME NEW k \in Launches, Stub(k) \/ FirewallReports(k)
        PROVE  guest'[l] = guest[l]
    BY <1>2, StubStep
  <1> QED
    BY <1>1, <1>2
    DEF Next, vars, childVars, Fill, ChildDies, Open, PollDecisive, PollOther,
        PollsOver, AwaitExpires, Told

\* No load is forgotten, and only a stub's step adds one.
LEMMA LoadsKept ==
  ASSUME IInv, [Next]_vars
  PROVE  loads \subseteq loads'
  <1>1. ASSUME NEW k \in Launches, Stub(k) \/ FirewallReports(k)
        PROVE  loads \subseteq loads'
    BY <1>1, StubStep
  <1> QED
    BY <1>1
    DEF Next, vars, historyVars, Dispatch, Fill, ChildDies, Open, PollDecisive,
        PollOther, PollsOver, AwaitExpires, Told

-----------------------------------------------------------------------------
(* Every step preserves each part                                          *)

\* What Begin writes is of the right type.
LEMMA BeginType ==
  ASSUME TypeOK, NEW g \in Guests, NEW v \in Verdict, Begin(g, v)
  PROVE  file' \in Record /\ hand' \in [Guests -> Record]
  <1>1. [guest |-> g, verdict |-> v, ts |-> opened] \in Record
    BY DEF TypeOK, Record
  <1> QED
    BY <1>1, NoRecordIsRecord DEF Begin, TypeOK

LEMMA FillType ==
  ASSUME TypeOK, NEW g \in Guests, Fill(g)
  PROVE  /\ file' \in Record /\ hand' \in [Guests -> Record]
         /\ written' \in SUBSET Record /\ torn' \in BOOLEAN
         /\ file' = hand[g] \/ file'.ts = file.ts
  <1>1. hand[g] \in Record /\ file \in Record
    BY DEF TypeOK
  <1>2. file' \in Record /\ (file' = hand[g] \/ file'.ts = file.ts)
    BY <1>1, OverlaidRecord DEF Fill
  <1> QED
    BY <1>1, <1>2, NoRecordIsRecord DEF Fill, TypeOK

LEMMA TypeStep ==
  ASSUME IInv, [Next]_vars
  PROVE  TypeOK'
  <1> USE DEF IInv, TypeOK, childVars, waitVars, historyVars
  <1>1. ASSUME NEW g \in Guests, Dispatch(g)
        PROVE  TypeOK'
    <2>1. opened + 1 \in Launches
      BY <1>1, NextLaunch
    <2> QED
      BY <1>1, <2>1 DEF Dispatch
  <1>2. ASSUME NEW g \in Guests, Fill(g)
        PROVE  TypeOK'
    BY <1>2, FillType DEF Fill
  <1>3. ASSUME NEW g \in Guests, ChildDies(g)
        PROVE  TypeOK'
    BY <1>3, NoRecordIsRecord DEF ChildDies
  <1>4. ASSUME NEW l \in Launches, Stub(l) \/ FirewallReports(l)
        PROVE  TypeOK'
    <2>1. step' \in [Launches -> Stages]
      BY <1>4, StubStep DEF Stages
    <2>2. file' \in Record /\ hand' \in [Guests -> Record]
      <3>1. CASE UNCHANGED <<file, hand>>
        BY <3>1
      <3>2. CASE \E h \in Guests, v \in {"failed", "launched"} : Begin(h, v)
        BY <3>2, BeginType DEF Verdict
      <3> QED
        BY <1>4, <3>1, <3>2, StubStep
    <2>3. loads' \subseteq [guest : Guests, ts : 0 .. MaxLaunches]
      <3>1. [guest |-> guest[l], ts |-> opened] \in [guest : Guests, ts : 0 .. MaxLaunches]
        BY <1>4, StubStep DEF LaunchesInOrder
      <3> QED
        BY <1>4, <3>1, StubStep
    <2> QED
      BY <1>4, <2>1, <2>2, <2>3, StubStep DEF Stages
  <1>5. CASE Open
    <2>1. pc = "dispatched" /\ opened + 1 \in Launches
      BY <1>5 DEF Open, LaunchesInOrder, Dispatched
    <2>2. opened + 1 \in 0 .. MaxLaunches
      BY <2>1, ConstantsAssumption DEF Launches
    <2> QED
      BY <1>5, <2>2, NoRecordIsRecord DEF Open
  <1>6. CASE PollOther
    BY <1>6, ConstantsAssumption DEF PollOther
  <1>7. CASE PollDecisive \/ PollsOver \/ AwaitExpires
    BY <1>7, NoRecordIsRecord, ConstantsAssumption
    DEF PollDecisive, PollsOver, AwaitExpires, Told
  <1>8. CASE UNCHANGED vars
    BY <1>8 DEF vars
  <1> QED
    BY <1>1, <1>2, <1>3, <1>4, <1>5, <1>6, <1>7, <1>8 DEF Next

LEMMA OrderStep ==
  ASSUME IInv, [Next]_vars
  PROVE  LaunchesInOrder'
  <1> USE DEF IInv, LaunchesInOrder
  <1>1. ASSUME NEW g \in Guests, Dispatch(g)
        PROVE  LaunchesInOrder'
    <2>1. /\ opened + 1 \in Launches /\ opened + 1 \notin Dispatched
          /\ Dispatched' = Dispatched \cup {opened + 1}
      BY <1>1, NextLaunch
    <2>2. /\ guest' = [guest EXCEPT ![opened + 1] = g]
          /\ step' = [step EXCEPT ![opened + 1] = "created"]
          /\ pc' = "dispatched" /\ opened' = opened /\ how' = how
      BY <1>1 DEF Dispatch
    <2>3. ASSUME NEW l \in Launches
          PROVE  IF l \in Dispatched' THEN guest'[l] \in Guests /\ step'[l] # "none"
                                      ELSE guest'[l] = NoGuest /\ step'[l] = "none"
      BY <2>1, <2>2 DEF TypeOK
    <2> QED
      BY <2>1, <2>2, <2>3
  <1>2. ASSUME UNCHANGED <<guest, Dispatched>>,
               pc' = "waiting" \/ how' # "none" => opened' # 0,
               \A l \in Launches : step[l] # "none" <=> step'[l] # "none"
        PROVE  LaunchesInOrder'
    BY <1>2
  <1>3. ASSUME NEW g \in Guests, ChildDies(g)
        PROVE  LaunchesInOrder'
    <2>1. \A l \in Launches : step[l] # "none" <=> step'[l] # "none"
      BY <1>3, ConstantsAssumption DEF ChildDies
    <2> QED
      BY <1>2, <1>3, <2>1 DEF ChildDies, Dispatched, waitVars
  <1>4. ASSUME NEW l \in Launches, Stub(l) \/ FirewallReports(l)
        PROVE  LaunchesInOrder'
    <2>1. \A k \in Launches : step[k] # "none" <=> step'[k] # "none"
      BY <1>4, StubStep DEF TypeOK
    <2>2. UNCHANGED <<guest, waitVars>>
      BY <1>4, StubStep
    <2> QED
      BY <1>2, <2>1, <2>2 DEF Dispatched, waitVars
  <1>5. CASE Open
    <2>1. opened \in Nat
      BY DEF TypeOK
    <2> QED
      BY <1>2, <1>5, <2>1 DEF Open, Dispatched, childVars
  <1>6. CASE \/ PollDecisive \/ PollOther \/ PollsOver \/ AwaitExpires
             \/ UNCHANGED vars \/ \E g \in Guests : Fill(g)
    <2>1. /\ UNCHANGED <<guest, step, opened>>
          /\ (UNCHANGED <<pc, how>>) \/ (pc = "waiting" /\ pc' = "idle")
      BY <1>6 DEF PollDecisive, PollOther, PollsOver, AwaitExpires, Told, Fill, vars,
                  childVars, waitVars
    <2> QED
      BY <1>2, <2>1 DEF Dispatched
  <1> QED
    BY <1>1, <1>3, <1>4, <1>5, <1>6 DEF Next

LEMMA RecordsStep ==
  ASSUME IInv, [Next]_vars
  PROVE  RecordsTrue'
  <1> DEFINE inHands == {hand[g] : g \in Guests}
  <1>1. loads \subseteq loads'
    BY LoadsKept
  <1>2. \A r \in written \cup inHands : r.verdict = "launched" => LoadOf(r) \in loads'
    BY <1>1 DEF IInv, RecordsTrue
  <1>3. ASSUME \A g \in Guests : hand'[g] \in {hand[g], NoRecord},
               written' \subseteq written \cup inHands
        PROVE  RecordsTrue'
    <2>1. NoRecord.verdict # "launched"
      BY DEF NoRecord
    <2>2. \A g \in Guests : hand'[g] # NoRecord => hand'[g].guest = g
      BY <1>3 DEF IInv, RecordsTrue
    <2>3. ASSUME NEW r \in (written \cup {hand[g] : g \in Guests})', r.verdict = "launched"
          PROVE  LoadOf(r) \in loads'
      <3>1. r \in written \cup inHands \cup {NoRecord}
        BY <1>3, <2>3
      <3> QED
        BY <1>2, <2>1, <2>3, <3>1
    <2> QED
      BY <2>2, <2>3 DEF RecordsTrue
  <1>4. ASSUME NEW g \in Guests, Fill(g)
        PROVE  RecordsTrue'
    <2>1. \A h \in Guests : hand'[h] \in {hand[h], NoRecord}
      BY <1>4 DEF Fill, IInv, TypeOK
    <2> QED
      BY <1>3, <1>4, <2>1 DEF Fill
  <1>5. ASSUME NEW g \in Guests, ChildDies(g)
        PROVE  RecordsTrue'
    <2>1. \A h \in Guests : hand'[h] \in {hand[h], NoRecord}
      BY <1>5 DEF ChildDies, IInv, TypeOK
    <2> QED
      BY <1>3, <1>5, <2>1 DEF ChildDies, historyVars
  <1>6. ASSUME NEW l \in Launches, Stub(l) \/ FirewallReports(l)
        PROVE  RecordsTrue'
    <2>1. CASE UNCHANGED <<file, hand>>
      BY <1>3, <1>6, <2>1, StubStep
    <2>2. ASSUME NEW h \in Guests, NEW v \in {"failed", "launched"}, Begin(h, v),
                 v = "launched" => [guest |-> h, ts |-> opened] \in loads'
          PROVE  RecordsTrue'
      <3>1. hand' = [hand EXCEPT ![h] = [guest |-> h, verdict |-> v, ts |-> opened]]
            /\ written' = written
        BY <2>2 DEF Begin
      <3>2. ASSUME NEW g \in Guests, hand'[g] # NoRecord
            PROVE  hand'[g].guest = g
        BY <3>1, <3>2 DEF IInv, TypeOK, RecordsTrue
      <3>3. ASSUME NEW r \in (written \cup {hand[g] : g \in Guests})', r.verdict = "launched"
            PROVE  LoadOf(r) \in loads'
        <4>1. r \in written \cup inHands \/ r = [guest |-> h, verdict |-> v, ts |-> opened]
          BY <3>1, <3>3 DEF IInv, TypeOK
        <4> QED
          BY <1>2, <2>2, <3>3, <4>1 DEF LoadOf
      <3> QED
        BY <3>2, <3>3 DEF RecordsTrue
    <2> QED
      BY <1>6, <2>1, <2>2, StubStep
  <1>7. CASE \/ Open \/ PollDecisive \/ PollOther \/ PollsOver \/ AwaitExpires
             \/ UNCHANGED vars \/ \E g \in Guests : Dispatch(g)
    <2>1. hand' = hand /\ written' \in {written, {}}
      BY <1>7 DEF Open, PollDecisive, PollOther, PollsOver, AwaitExpires, Told, Dispatch, vars,
             historyVars
    <2> QED
      BY <1>3, <2>1
  <1> QED
    BY <1>4, <1>5, <1>6, <1>7 DEF Next

LEMMA StampsStep ==
  ASSUME IInv, [Next]_vars
  PROVE  StampsTrue'
  <1> USE DEF IInv, TypeOK, StampsTrue, childVars, waitVars, historyVars
  <1>1. opened \in Nat /\ NoRecord.ts = 0
    BY DEF NoRecord
  <1>2. ASSUME UNCHANGED <<file, opened>>, written \subseteq written', torn' = torn,
               \A g \in Guests : hand'[g] \in {hand[g], NoRecord}
        PROVE  StampsTrue'
    BY <1>1, <1>2 DEF WrittenPiecewise
  <1>3. ASSUME NEW g \in Guests, Fill(g)
        PROVE  StampsTrue'
    <2>1. file'.ts <= opened
      BY <1>3, FillType
    <2>2. \A h \in Guests : hand'[h] \in {hand[h], NoRecord}
      BY <1>3 DEF Fill
    <2>3. ~ torn' => file' \in written'
      BY <1>3 DEF Fill
    <2>4. opened' = opened /\ written' = written \cup {hand[g]}
      BY <1>3 DEF Fill
    <2>5. ASSUME file' # hand[g], file'.ts = opened
          PROVE  WrittenPiecewise(file)
                 /\ file'.guest \in {hand[g].guest, file.guest}
                 /\ file'.verdict \in {hand[g].verdict, file.verdict, "neither"}
                 /\ file'.ts = file.ts
      <3>1. file # NoRecord /\ file' \in Overlaid(hand[g], file)
        BY <1>3, <2>5 DEF Fill
      <3> QED
        BY <2>5, <3>1, OverlaidRecord
    <2>6. ASSUME file'.ts = opened
          PROVE  WrittenPiecewise(file)'
      <3>1. CASE file' = hand[g]
        BY <2>4, <3>1 DEF WrittenPiecewise
      <3>2. CASE file' # hand[g]
        BY <2>4, <2>5, <2>6, <3>2 DEF WrittenPiecewise
      <3> QED
        BY <3>1, <3>2
    <2> QED
      BY <1>1, <2>1, <2>2, <2>3, <2>4, <2>6
  <1>4. ASSUME NEW g \in Guests, ChildDies(g)
        PROVE  StampsTrue'
    BY <1>2, <1>4 DEF ChildDies
  <1>5. ASSUME NEW l \in Launches, Stub(l) \/ FirewallReports(l)
        PROVE  StampsTrue'
    <2>1. CASE UNCHANGED <<file, hand>>
      BY <1>2, <1>5, <2>1, StubStep
    <2>2. CASE \E h \in Guests, v \in {"failed", "launched"} : Begin(h, v)
      BY <1>1, <2>2 DEF Begin
    <2> QED
      BY <1>5, <2>1, <2>2, StubStep
  <1>6. CASE Open
    <2>1. /\ opened' = opened + 1 /\ file' = file /\ hand' = hand
      BY <1>6 DEF Open
    <2>2. file.ts \in Nat /\ \A g \in Guests : hand[g].ts \in Nat
      BY DEF Record
    <2> QED
      BY <1>1, <2>1, <2>2
  <1>7. CASE \/ PollDecisive \/ PollOther \/ PollsOver \/ AwaitExpires
             \/ UNCHANGED vars \/ \E g \in Guests : Dispatch(g)
    BY <1>2, <1>7
    DEF PollDecisive, PollOther, PollsOver, AwaitExpires, Told, Dispatch, vars
  <1> QED
    BY <1>3, <1>4, <1>5, <1>6, <1>7 DEF Next

\* The poller takes a record only if it is fresh, and a fresh one is whole;
\* what it took stays what was written until the next wait.
LEMMA AnswerStep ==
  ASSUME IInv, [Next]_vars
  PROVE  WholeAnswer'
  <1> USE DEF IInv, WholeAnswer, WrittenPiecewise, childVars, waitVars, historyVars
  <1>1. ASSUME UNCHANGED <<how, answer, opened>>, written \subseteq written',
               torn => torn'
        PROVE  WholeAnswer'
    <2>1. CASE how = "early"
      <3>1. opened \in Launches /\ guest[opened] # NoGuest
        <4>1. opened \in Dispatched
          BY <2>1 DEF TypeOK, Dispatched, LaunchesInOrder
        <4> QED
          BY <4>1, ConstantsAssumption DEF LaunchesInOrder
      <3>2. guest'[opened] = guest[opened]
        BY <3>1, GuestFixed
      <3> QED
        BY <1>1, <2>1, <3>2
    <2> QED
      BY <1>1, <2>1
  <1>2. CASE PollDecisive
    <2>1. /\ file.ts = opened /\ file.guest = guest[opened] /\ opened # 0
          /\ answer' = file /\ UNCHANGED <<file, guest, opened, written, torn>>
      BY <1>2 DEF PollDecisive, Told, Decisive, LaunchesInOrder
    <2>2. file # NoRecord
      BY <2>1 DEF NoRecord
    <2>3. WrittenPiecewise(file) /\ (~ torn => file \in written)
      BY <2>1, <2>2 DEF StampsTrue
    <2> QED
      BY <2>1, <2>3
  <1>3. ASSUME how' # "early"
        PROVE  WholeAnswer'
    BY <1>3
  <1>4. CASE Open \/ PollsOver \/ AwaitExpires
    BY <1>3, <1>4 DEF Open, PollsOver, AwaitExpires, Told
  <1>5. CASE UNCHANGED vars \/ PollOther \/ \E g \in Guests : Dispatch(g) \/ ChildDies(g)
    BY <1>1, <1>5 DEF vars, PollOther, Dispatch, ChildDies
  <1>6. ASSUME NEW g \in Guests, Fill(g)
        PROVE  WholeAnswer'
    <2>1. torn => torn'
      BY <1>6 DEF Fill
    <2> QED
      BY <1>1, <1>6, <2>1 DEF Fill
  <1>7. ASSUME NEW l \in Launches, Stub(l) \/ FirewallReports(l)
        PROVE  WholeAnswer'
    BY <1>1, <1>7, StubStep
  <1> QED
    BY <1>2, <1>4, <1>5, <1>6, <1>7 DEF Next

-----------------------------------------------------------------------------
\* The inductive invariant, whatever fails and however the writers and the
\* reader are interleaved.
THEOREM Inductive == Spec => []IInv
  <1>1. IInv /\ [Next]_vars => IInv'
    BY TypeStep, OrderStep, RecordsStep, StampsStep, AnswerStep DEF IInv
  <1> QED
    BY <1>1, InitIInv, PTL DEF Spec

\* The file, the records and the launches keep their types.
THEOREM TypeCorrect == Spec => []TypeOK
  <1>1. IInv => TypeOK
    BY DEF IInv
  <1> QED
    BY <1>1, Inductive, PTL

\* An answer given before the polls are over bears the package that was launched
\* and a time since the wait was opened, and is made of what was written since;
\* it is one record where no two processes wrote at once (launchResultAwait,
\* writeResult, readResult).
THEOREM AnswersWhole == Spec => []WholeAnswer
  <1>1. IInv => WholeAnswer
    BY DEF IInv
  <1> QED
    BY <1>1, Inductive, PTL

\* The UI is told early of a success only if a process reported since the wait
\* was opened that it had loaded its guest, and had; of the launched one, where
\* no two processes wrote at once (ProxyActivity 246-251).
THEOREM SuccessesOwn == Spec => []SuccessIsOwn
  <1>1. IInv => SuccessIsOwn
    <2> SUFFICES ASSUME IInv, how = "early", answer.verdict = "launched"
                 PROVE  \E r \in written :
                          /\ r.verdict = "launched" /\ LoadOf(r) \in loads
                          /\ ~ torn => r.guest = guest[opened] /\ r.ts = opened
      BY DEF SuccessIsOwn
    <2>1. \A r \in written : r.verdict = "launched" => LoadOf(r) \in loads
      BY DEF IInv, RecordsTrue
    <2>2. CASE torn
      BY <2>1, <2>2 DEF IInv, WholeAnswer, WrittenPiecewise
    <2>3. CASE ~ torn
      BY <2>1, <2>3 DEF IInv, WholeAnswer
    <2> QED
      BY <2>2, <2>3
  <1> QED
    BY <1>1, Inductive, PTL
=============================================================================
