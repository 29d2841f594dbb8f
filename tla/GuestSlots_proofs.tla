-------------------------- MODULE GuestSlots_proofs --------------------------
(***************************************************************************)
(* Theorems about GuestSlots, for every set of guests and every pool size. *)
(*                                                                         *)
(* IInv of GuestSlots is inductive.  Beside typing it says what the main   *)
(* thread knows between the two critical sections of a launch: the slot it *)
(* was granted belongs to nobody else (Reserved), and a reply it took for  *)
(* live is the binder of the child that runs there (ReplyFresh); and it    *)
(* ties the recorded binder and recipient of a slot together (Recorded),   *)
(* without which unlinkToDeath could not be typed.                         *)
(***************************************************************************)
EXTENDS GuestSlots, TLAPS

-----------------------------------------------------------------------------
LEMMA NoSlotNotSlot == NoSlot \notin Slots
  BY ConstantsAssumption DEF NoSlot, Slots

LEMMA DiagSlotIsSlot == DiagSlot \in Slots
  BY ConstantsAssumption DEF DiagSlot, Slots

\* The records are of the right type after unlinkToDeath (line 131).
LEMMA UnlinkType ==
  ASSUME TypeOK, Recorded, at \in Slots, NEW o \in ObitsUnlinked
  PROVE  /\ LinksUnlinked \in [Slots -> [Guests -> Nat]]
         /\ o \in [Slots -> [Guests -> Nat]]
         /\ \A s \in Slots : s # at => LinksUnlinked[s] = links[s] /\ o[s] = obits[s]
         /\ \A g \in Guests : g # deathOf[at] =>
              LinksUnlinked[at][g] = links[at][g] /\ o[at][g] = obits[at][g]
  <1>1. CASE clientOf[at] = "live"
    <2>1. deathOf[at] \in Guests /\ links[at][deathOf[at]] > 0
      BY <1>1 DEF TypeOK, Recorded
    <2>2. LinksUnlinked = [links EXCEPT ![at][deathOf[at]] = @ - 1] /\ o = obits
      BY <1>1 DEF LinksUnlinked, ObitsUnlinked
    <2>3. links[at][deathOf[at]] - 1 \in Nat
      BY <2>1 DEF TypeOK
    <2> QED
      BY <2>1, <2>2, <2>3 DEF TypeOK
  <1>2. CASE clientOf[at] # "live"
    <2>1. LinksUnlinked = links
      BY <1>2 DEF LinksUnlinked
    <2>2. CASE clientOf[at] = "stale" /\ obits[at][deathOf[at]] > 0
      <3>1. deathOf[at] \in Guests
        BY <2>2 DEF TypeOK, Recorded
      <3>2. obits[at][deathOf[at]] - 1 \in Nat
        BY <2>2, <3>1 DEF TypeOK
      <3>3. o = obits \/ o = [obits EXCEPT ![at][deathOf[at]] = @ - 1]
        BY <2>2 DEF ObitsUnlinked
      <3>4. CASE o = obits
        BY <2>1, <3>4 DEF TypeOK
      <3>5. CASE o = [obits EXCEPT ![at][deathOf[at]] = @ - 1]
        <4>1. o = [obits EXCEPT ![at] = [obits[at] EXCEPT ![deathOf[at]] = @ - 1]]
          BY <3>5
        <4>2. [obits[at] EXCEPT ![deathOf[at]] = @ - 1] \in [Guests -> Nat]
          BY <3>1, <3>2 DEF TypeOK
        <4> QED
          BY <2>1, <4>1, <4>2 DEF TypeOK
      <3> QED
        BY <3>3, <3>4, <3>5
    <2>3. CASE ~ (clientOf[at] = "stale" /\ obits[at][deathOf[at]] > 0)
      <3>1. o = obits
        BY <2>3 DEF ObitsUnlinked
      <3> QED
        BY <2>1, <3>1 DEF TypeOK
    <2> QED
      BY <2>2, <2>3
  <1> QED
    BY <1>1, <1>2

-----------------------------------------------------------------------------
LEMMA InitIInv == Init => IInv
  BY ConstantsAssumption, NoSlotNotSlot
  DEF Init, IInv, TypeOK, SlotExclusive, Reserved, InLaunch, ReplyFresh,
      ReplyKept, Recorded, None, Binder, Step

\* A grant keeps the table and reserves the slot for its guest.
LEMMA GrantIInv ==
  ASSUME IInv, NEW g \in Guests \cup {Diag}, NEW s \in Slots, Granted(g, s),
         \A h \in Guests : g \in Guests /\ slotOf[h] = s => h = g
  PROVE  IInv'
  BY ConstantsAssumption, NoSlotNotSlot
  DEF IInv, Granted, TypeOK, SlotExclusive, Reserved, InLaunch, ReplyFresh,
      ReplyKept, Recorded, tableVars, childVars, Binder, Step

LEMMA AllocateIInv ==
  ASSUME IInv, NEW g \in Guests, Allocate(g)
  PROVE  IInv'
  <1>1. CASE AllocateOwn(g)
    <2>1. slotOf[g] \in Slots /\ Granted(g, slotOf[g])
      BY <1>1 DEF AllocateOwn, HoldsLiveSlot, IInv, TypeOK
    <2>2. \A h \in Guests : slotOf[h] = slotOf[g] => h = g
      BY <2>1, NoSlotNotSlot DEF IInv, SlotExclusive
    <2> QED
      BY <2>1, <2>2, GrantIInv
  <1>2. CASE AllocateLowest(g)
    <2>1. PICK running \in RunningLists :
            \E s \in Free(g, running) : Granted(g, s)
      BY <1>2 DEF AllocateLowest
    <2>2. PICK s \in Free(g, running) : Granted(g, s)
      BY <2>1
    <2>3. s \in Slots /\ \A h \in Guests : slotOf[h] = s => h = g
      BY <2>2 DEF Free
    <2> QED
      BY <2>2, <2>3, GrantIInv
  <1>3. CASE AllocateRefused(g)
    BY <1>3, NoSlotNotSlot
    DEF AllocateRefused, IInv, TypeOK, SlotExclusive, Reserved, InLaunch,
        ReplyFresh, ReplyKept, Recorded, tableVars, childVars, Binder, Step
  <1> QED
    BY <1>1, <1>2, <1>3 DEF Allocate

LEMMA DiagIInv ==
  ASSUME IInv, DiagHandshake
  PROVE  IInv'
  BY GrantIInv, DiagSlotIsSlot, ConstantsAssumption DEF DiagHandshake

\* The registration, whether linkToDeath works or throws.
LEMMA RegisterIInv ==
  ASSUME IInv, Register \/ RegisterUnlinked
  PROVE  IInv'
  <1>1. /\ pc = "replied" /\ at \in Slots /\ req \in Guests
        /\ \A h \in Guests : slotOf[h] = at => h = req
    BY DEF Register, RegisterUnlinked, IInv, TypeOK, Reserved, InLaunch
  <1>2. /\ obits' \in ObitsUnlinked
        /\ slotOf' = [slotOf EXCEPT ![req] = at]
        /\ pc' = "dispatch"
        /\ UNCHANGED <<req, at, reply, alive, config, starts, finishing, ran>>
    BY DEF Register, RegisterUnlinked, childVars
  <1>3. /\ LinksUnlinked \in [Slots -> [Guests -> Nat]]
        /\ obits' \in [Slots -> [Guests -> Nat]]
        /\ \A s \in Slots : s # at => LinksUnlinked[s] = links[s]
    BY <1>1, <1>2, UnlinkType DEF IInv
  <1>4. SlotExclusive' /\ Reserved'
    BY <1>1, <1>2 DEF IInv, TypeOK, SlotExclusive, Reserved, InLaunch
  <1>5. CASE Register
    <2>1. /\ reply = "live" /\ at \in alive
          /\ links' = [LinksUnlinked EXCEPT ![at][req] = @ + 1]
          /\ clientOf' = [clientOf EXCEPT ![at] = "live"]
          /\ deathOf' = [deathOf EXCEPT ![at] = req]
      BY <1>1, <1>5 DEF Register, IInv, ReplyFresh
    <2>2. TypeOK'
      BY <1>1, <1>2, <1>3, <2>1 DEF IInv, TypeOK, Binder, Step
    <2>3. ReplyFresh' /\ ReplyKept'
      BY <1>1, <1>2, <2>1 DEF IInv, ReplyFresh, ReplyKept
    <2>4. Recorded'
      <3> SUFFICES ASSUME NEW s \in Slots
                   PROVE  /\ clientOf'[s] = "none" <=> deathOf'[s] = NoGuest
                          /\ clientOf'[s] = "live" =>
                               s \in alive' /\ links'[s][deathOf'[s]] > 0
        BY DEF Recorded
      <3>1. CASE s = at
        <4>1. links'[at][req] = LinksUnlinked[at][req] + 1
          BY <1>1, <1>3, <2>1
        <4>2. LinksUnlinked[at][req] \in Nat
          BY <1>1, <1>3
        <4> QED
          BY <1>1, <1>2, <2>1, <3>1, <4>1, <4>2, ConstantsAssumption
          DEF IInv, TypeOK
      <3>2. CASE s # at
        BY <1>1, <1>2, <1>3, <2>1, <3>2 DEF IInv, TypeOK, Recorded
      <3> QED
        BY <3>1, <3>2
    <2> QED
      BY <1>4, <2>2, <2>3, <2>4 DEF IInv
  <1>6. CASE RegisterUnlinked
    <2>1. /\ reply = "stale" /\ clientOf[at] # "live"
          /\ links' = LinksUnlinked
          /\ UNCHANGED <<clientOf, deathOf>>
      BY <1>1, <1>6 DEF RegisterUnlinked, IInv, ReplyFresh
    <2>2. links' = links
      BY <2>1 DEF LinksUnlinked
    <2>3. TypeOK' /\ ReplyFresh' /\ ReplyKept' /\ Recorded'
      BY <1>1, <1>2, <1>3, <2>1, <2>2
      DEF IInv, TypeOK, ReplyFresh, ReplyKept, Recorded, Binder, Step
    <2> QED
      BY <1>4, <2>3 DEF IInv
  <1> QED
    BY <1>5, <1>6

\* The other steps of the main thread leave the table alone.
LEMMA MainThreadIInv ==
  ASSUME IInv, MainThread \/ CallFails
  PROVE  IInv'
  <1> USE DEF IInv, TypeOK, SlotExclusive, Reserved, InLaunch, ReplyFresh,
              ReplyKept, Recorded, tableVars, threadVars, childVars, Binder, Step,
              Returns, NoReply
  <1>1. CASE CallSpawns
    BY <1>1 DEF CallSpawns
  <1>2. CASE CallFails
    BY <1>2 DEF CallFails
  <1>3. CASE HandleInitReject
    BY <1>3 DEF HandleInitReject
  <1>4. CASE HandleInitCheck
    BY <1>4 DEF HandleInitCheck
  <1>5. CASE HandleInitAccept
    BY <1>5 DEF HandleInitAccept
  <1>6. CASE HandleInitLost
    BY <1>6 DEF HandleInitLost
  <1>7. CASE Register \/ RegisterUnlinked
    BY <1>7, RegisterIInv
  <1>8. CASE Dispatch
    <2>1. req \in Guests /\ starts' = [starts EXCEPT ![at] = Append(@, req)]
      BY <1>8 DEF Dispatch
    <2>2. starts' \in [Slots -> Seq(Guests)]
      BY <1>8, <2>1 DEF Dispatch
    <2> QED
      BY <1>8, <2>2 DEF Dispatch
  <1>9. CASE ReportRefused
    BY <1>9 DEF ReportRefused
  <1> QED
    BY <1>1, <1>2, <1>3, <1>4, <1>5, <1>6, <1>7, <1>8, <1>9 DEF MainThread, HandleInit

LEMMA BinderDiedIInv ==
  ASSUME IInv, NEW g \in Guests, NEW s \in Slots, BinderDied(g, s)
  PROVE  IInv'
  <1>1. obits[s][g] - 1 \in Nat
    BY DEF BinderDied, IInv, TypeOK
  <1>2. obits' \in [Slots -> [Guests -> Nat]]
    BY <1>1 DEF BinderDied, IInv, TypeOK
  <1>3. slotOf' \in [Guests -> Slots \cup {NoSlot}]
    BY DEF BinderDied, IInv, TypeOK
  <1>4. TypeOK'
    BY <1>2, <1>3 DEF BinderDied, IInv, TypeOK, threadVars, childVars, Binder
  <1>5. SlotExclusive' /\ Reserved'
    BY NoSlotNotSlot
    DEF BinderDied, IInv, TypeOK, SlotExclusive, Reserved, InLaunch, threadVars
  <1>6. ReplyFresh' /\ ReplyKept' /\ Recorded'
    BY DEF BinderDied, IInv, TypeOK, ReplyFresh, ReplyKept, Recorded,
           threadVars, childVars
  <1> QED
    BY <1>4, <1>5, <1>6 DEF IInv

LEMMA ChildIInv ==
  ASSUME IInv, NEW s \in Slots, Child(s)
  PROVE  IInv'
  <1> USE DEF IInv, SlotExclusive, Reserved, InLaunch, ReplyFresh, ReplyKept,
              Recorded, tableVars, threadVars
  <1>1. CASE StartProcess(s)
    BY <1>1 DEF StartProcess, TypeOK
  <1>2. CASE CreateMismatch(s)
    <2>1. Tail(starts[s]) \in Seq(Guests) /\ finishing[s] + 1 \in Nat
      BY <1>2 DEF CreateMismatch, TypeOK
    <2>2. TypeOK' /\ UNCHANGED <<tableVars, threadVars, alive, config, ran>>
      BY <1>2, <2>1 DEF CreateMismatch, TypeOK
    <2> QED
      BY <2>2
  <1>3. CASE CreateLoad(s)
    <2>1. Head(starts[s]) \in Guests /\ Tail(starts[s]) \in Seq(Guests)
      BY <1>3 DEF CreateLoad, TypeOK
    <2>2. /\ starts' \in [Slots -> Seq(Guests)]
          /\ ran' \in [Slots -> SUBSET Guests]
      <3>1. /\ starts' = [starts EXCEPT ![s] = Tail(@)]
            /\ ran' = [ran EXCEPT ![s] = @ \cup {Head(starts[s])}]
        BY <1>3 DEF CreateLoad
      <3> HIDE DEF IInv, SlotExclusive, Reserved, InLaunch, ReplyFresh, ReplyKept,
                   Recorded
      <3>2. TypeOK
        BY DEF IInv
      <3> QED
        BY <2>1, <3>1, <3>2 DEF TypeOK
    <2>3. config' \in [Slots -> Guests \cup {Diag, NoGuest}]
      BY <1>3, <2>1 DEF CreateLoad, TypeOK
    <2>4. finishing' \in [Slots -> Nat]
      <3>1. \/ finishing' = finishing
            \/ finishing' = [finishing EXCEPT ![s] = @ + 1]
        BY <1>3 DEF CreateLoad
      <3>2. finishing[s] + 1 \in Nat
        BY DEF TypeOK
      <3> QED
        BY <3>1, <3>2 DEF TypeOK
    <2>5. UNCHANGED <<tableVars, threadVars, alive>>
      BY <1>3 DEF CreateLoad
    <2>6. TypeOK'
      BY <2>2, <2>3, <2>4, <2>5 DEF TypeOK
    <2> QED
      BY <2>5, <2>6
  <1>4. CASE Destroy(s)
    BY <1>4 DEF Destroy, TypeOK
  <1> QED
    BY <1>1, <1>2, <1>3, <1>4 DEF Child

LEMMA ChildDiesIInv ==
  ASSUME IInv, NEW s \in Slots, ChildDies(s)
  PROVE  IInv'
  <1>1. obits' \in [Slots -> [Guests -> Nat]]
    BY DEF ChildDies, IInv, TypeOK
  <1>2. links' \in [Slots -> [Guests -> Nat]]
    BY DEF ChildDies, IInv, TypeOK, None
  <1>3. starts' \in [Slots -> Seq(Guests)]
    <2>1. <<>> \in Seq(Guests)
      OBVIOUS
    <2>2. starts' = [starts EXCEPT ![s] = <<>>] \/ starts' = starts
      BY DEF ChildDies
    <2> QED
      BY <2>1, <2>2 DEF IInv, TypeOK
  <1>4. clientOf' \in [Slots -> Binder] /\ reply' \in Binder
    BY DEF ChildDies, IInv, TypeOK, Stale, Binder
  <1>5. TypeOK'
    BY <1>1, <1>2, <1>3, <1>4 DEF ChildDies, IInv, TypeOK
  <1>6. SlotExclusive' /\ Reserved'
    BY DEF ChildDies, IInv, SlotExclusive, Reserved, InLaunch
  <1>7. ReplyFresh' /\ ReplyKept'
    BY DEF ChildDies, IInv, TypeOK, ReplyFresh, ReplyKept, Stale, Binder
  <1>8. Recorded'
    BY DEF ChildDies, IInv, TypeOK, Recorded, Stale, Binder
  <1> QED
    BY <1>5, <1>6, <1>7, <1>8 DEF IInv

LEMMA MainDiesIInv ==
  ASSUME IInv, MainDies
  PROVE  IInv'
  BY NoSlotNotSlot
  DEF MainDies, IInv, TypeOK, SlotExclusive, Reserved, InLaunch, ReplyFresh,
      ReplyKept, Recorded, None, Binder, Step, childVars

LEMMA StepIInv == IInv /\ [Next]_vars => IInv'
  <1> SUFFICES ASSUME IInv, [Next]_vars
               PROVE  IInv'
    OBVIOUS
  <1>1. CASE UNCHANGED vars
    BY <1>1
    DEF vars, tableVars, threadVars, childVars, IInv, TypeOK, SlotExclusive,
        Reserved, InLaunch, ReplyFresh, ReplyKept, Recorded
  <1>2. CASE Next
    BY <1>2, AllocateIInv, DiagIInv, MainThreadIInv, BinderDiedIInv, ChildIInv,
       ChildDiesIInv, MainDiesIInv
    DEF Next
  <1> QED
    BY <1>1, <1>2

\* The inductive invariant, under every fault of FaultKinds.
THEOREM Inductive == Spec => []IInv
  BY InitIInv, StepIInv, PTL DEF Spec

\* The variables of the table, the main thread and the children keep their
\* types: in particular unlinkToDeath never meets a recipient that was not
\* linked (spawnAndConfig 131).
THEOREM TypeCorrect == Spec => []TypeOK
  <1>1. IInv => TypeOK
    BY DEF IInv
  <1> QED
    BY <1>1, Inductive, PTL

\* No two guests are ever mapped to one process, whatever fails (allocate,
\* spawnAndConfig).
THEOREM SlotsExclusive == Spec => []SlotExclusive
  <1>1. IInv => SlotExclusive
    BY DEF IInv
  <1> QED
    BY <1>1, Inductive, PTL

-----------------------------------------------------------------------------
(* A mapped slot is live or its death is on record                         *)

LEMMA LeakInit == Init => NoLeakedSlot
  BY NoSlotNotSlot DEF Init, NoLeakedSlot

LEMMA LeakRegister ==
  ASSUME IInv, NoLeakedSlot, "diesInLaunch" \notin Faults,
         Register \/ RegisterUnlinked
  PROVE  NoLeakedSlot'
  <1>1. Register
    BY DEF Register, RegisterUnlinked, IInv, ReplyKept
  <1>2. /\ at \in Slots /\ req \in Guests /\ at \in alive
        /\ \A h \in Guests : slotOf[h] = at => h = req
    BY <1>1 DEF Register, IInv, TypeOK, Reserved, InLaunch, ReplyFresh
  <1>3. /\ obits' \in ObitsUnlinked
        /\ links' = [LinksUnlinked EXCEPT ![at][req] = @ + 1]
        /\ slotOf' = [slotOf EXCEPT ![req] = at]
        /\ alive' = alive
    BY <1>1 DEF Register, childVars
  <1>4. /\ LinksUnlinked \in [Slots -> [Guests -> Nat]]
        /\ \A s \in Slots : s # at =>
             LinksUnlinked[s] = links[s] /\ obits'[s] = obits[s]
    BY <1>2, <1>3, UnlinkType DEF IInv
  <1> SUFFICES ASSUME NEW g \in Guests, NEW s \in Slots, slotOf'[g] = s
               PROVE  (s \in alive' /\ links'[s][g] > 0) \/ obits'[s][g] > 0
    BY DEF NoLeakedSlot
  <1>5. CASE s = at
    <2>1. g = req
      BY <1>2, <1>3, <1>5 DEF IInv, TypeOK
    <2>2. LinksUnlinked[at][req] \in Nat
      BY <1>2, <1>4
    <2>3. links'[at][req] = LinksUnlinked[at][req] + 1
      BY <1>2, <1>3, <1>4
    <2> QED
      BY <1>2, <1>3, <1>5, <2>1, <2>2, <2>3
  <1>6. CASE s # at
    <2>1. slotOf[g] = s
      BY <1>2, <1>3, <1>6 DEF IInv, TypeOK
    <2>2. links'[s] = links[s] /\ obits'[s] = obits[s]
      BY <1>2, <1>3, <1>4, <1>6
    <2> QED
      BY <1>3, <2>1, <2>2 DEF NoLeakedSlot
  <1> QED
    BY <1>5, <1>6

LEMMA LeakBinderDied ==
  ASSUME IInv, NoLeakedSlot, NEW g \in Guests, NEW s \in Slots, BinderDied(g, s)
  PROVE  NoLeakedSlot'
  <1> SUFFICES ASSUME NEW h \in Guests, NEW t \in Slots, slotOf'[h] = t
               PROVE  (t \in alive' /\ links'[t][h] > 0) \/ obits'[t][h] > 0
    BY DEF NoLeakedSlot
  <1>1. slotOf[h] = t /\ ~ (h = g /\ t = s)
    BY NoSlotNotSlot DEF BinderDied, IInv, TypeOK
  <1>2. obits'[t][h] = obits[t][h]
    BY <1>1 DEF BinderDied, IInv, TypeOK
  <1> QED
    BY <1>1, <1>2 DEF BinderDied, NoLeakedSlot, childVars

LEMMA LeakChildDies ==
  ASSUME IInv, NoLeakedSlot, NEW s \in Slots, ChildDies(s)
  PROVE  NoLeakedSlot'
  <1> SUFFICES ASSUME NEW h \in Guests, NEW t \in Slots, slotOf'[h] = t
               PROVE  (t \in alive' /\ links'[t][h] > 0) \/ obits'[t][h] > 0
    BY DEF NoLeakedSlot
  <1>1. (t \in alive /\ links[t][h] > 0) \/ obits[t][h] > 0
    BY DEF ChildDies, NoLeakedSlot
  <1>2. links[t][h] \in Nat /\ obits[t][h] \in Nat
    BY DEF IInv, TypeOK
  <1>3. CASE t = s
    <2>1. obits'[t][h] = obits[t][h] + links[t][h]
      BY <1>3 DEF ChildDies, IInv, TypeOK
    <2> QED
      BY <1>1, <1>2, <2>1
  <1>4. CASE t # s
    BY <1>1, <1>4 DEF ChildDies, IInv, TypeOK
  <1> QED
    BY <1>3, <1>4

LEMMA LeakStep ==
  ASSUME "diesInLaunch" \notin Faults
  PROVE  IInv /\ NoLeakedSlot /\ [Next]_vars => NoLeakedSlot'
  <1> SUFFICES ASSUME IInv, NoLeakedSlot, [Next]_vars
               PROVE  NoLeakedSlot'
    OBVIOUS
  <1>1. ASSUME UNCHANGED <<slotOf, links, obits>>, alive \subseteq alive'
        PROVE  NoLeakedSlot'
    BY <1>1 DEF NoLeakedSlot
  <1>2. CASE UNCHANGED vars
    BY <1>1, <1>2 DEF vars, tableVars, childVars
  <1>3. ASSUME NEW g \in Guests, Allocate(g)
        PROVE  NoLeakedSlot'
    BY <1>1, <1>3
    DEF Allocate, AllocateOwn, AllocateLowest, AllocateRefused, Granted,
        tableVars, childVars
  <1>4. CASE DiagHandshake
    BY <1>1, <1>4 DEF DiagHandshake, Granted, tableVars, childVars
  <1>5. CASE MainThread \/ CallFails
    BY <1>1, <1>5, LeakRegister
    DEF MainThread, HandleInit, CallSpawns, CallFails, HandleInitReject, HandleInitCheck,
        HandleInitAccept, HandleInitLost, Dispatch, ReportRefused, tableVars,
        childVars
  <1>6. ASSUME NEW s \in Slots, Child(s)
        PROVE  NoLeakedSlot'
    BY <1>1, <1>6
    DEF Child, StartProcess, CreateMismatch, CreateLoad, Destroy, tableVars
  <1>7. CASE MainDies
    BY <1>7, NoSlotNotSlot DEF MainDies, NoLeakedSlot
  <1> QED
    BY <1>2, <1>3, <1>4, <1>5, <1>6, <1>7, LeakBinderDied, LeakChildDies DEF Next

\* Unless a child dies while it is launched into, no slot is lost to a guest
\* that is gone: it is mapped to a live child it is linked to, or its death is
\* still to be handled (spawnAndConfig 129-147, the death recipient).
THEOREM SlotsNotLeaked ==
  ASSUME "diesInLaunch" \notin Faults
  PROVE  Spec => []NoLeakedSlot
  BY LeakInit, LeakStep, Inductive, PTL DEF Spec

-----------------------------------------------------------------------------
(* A refusal means that the pool is full                                   *)

LEMMA RefusedStep ==
  ASSUME NoLeakedSlot, [Next]_vars, pc = "idle", pc' = "refused", NEW s \in Slots
  PROVE  s \in alive \/ \E g \in Guests : obits[s][g] > 0
  <1>1. PICK g \in Guests : AllocateRefused(g)
    BY DEF Next, Allocate, AllocateOwn, AllocateLowest, DiagHandshake, Granted,
           MainThread, HandleInit, CallSpawns, CallFails, HandleInitReject, HandleInitCheck,
           HandleInitAccept, HandleInitLost, Register, RegisterUnlinked, Dispatch,
           ReportRefused, BinderDied, Child, StartProcess, CreateMismatch,
           CreateLoad, Destroy, ChildDies, MainDies, vars, threadVars
  <1>2. s \notin Free(g, alive)
    BY <1>1 DEF AllocateRefused
  <1>3. CASE s \notin alive
    <2>1. PICK h \in Guests : slotOf[h] = s
      BY <1>2, <1>3 DEF Free
    <2> QED
      BY <1>3, <2>1 DEF NoLeakedSlot
  <1> QED
    BY <1>3

\* Unless a child dies while it is launched into, a launch is refused only
\* while every process of the pool runs or has a death report on its way
\* (allocate, the death recipient).
THEOREM RefusedWhenFull ==
  ASSUME "diesInLaunch" \notin Faults
  PROVE  Spec => RefusedOnlyWhenFull
  <1>1. NoLeakedSlot /\ [Next]_vars =>
          (pc = "idle" /\ pc' = "refused" =>
             \A s \in Slots : s \in alive \/ \E g \in Guests : obits[s][g] > 0)
    BY RefusedStep
  <1> QED
    BY <1>1, SlotsNotLeaked, PTL DEF Spec, RefusedOnlyWhenFull

-----------------------------------------------------------------------------
(* One guest per process, where only the main process may fail             *)

OnlyMainFails == Faults \subseteq {"mainDies"}

LEMMA UnsharedInit == Init => Unshared
  BY ConstantsAssumption, NoSlotNotSlot
  DEF Init, Unshared, Claims, InLaunch, isSlotAlive

\* A step that lets nobody claim a process he did not claim before.
LEMMA NoNewClaim ==
  ASSUME Unshared, \A g \in Guests, s \in Slots : Claims(g, s)' => Claims(g, s)
  PROVE  \A s \in Slots : \A g, h \in Guests : (Claims(g, s) /\ Claims(h, s))' => g = h
  BY DEF Unshared

\* A slot is granted to the guest that owns its live child, or to one that
\* finds no child there (allocate).
LEMMA AllocateUnshared ==
  ASSUME OnlyMainFails, IInv, Unshared, NEW r \in Guests, Allocate(r)
  PROVE  Unshared'
  <1>1. CASE AllocateRefused(r)
    BY <1>1
    DEF AllocateRefused, Unshared, Claims, InLaunch, isSlotAlive, tableVars, childVars
  <1>2. CASE \E t \in Slots : Granted(r, t) /\ (t \in alive => Claims(r, t))
    <2>1. PICK t \in Slots : Granted(r, t) /\ (t \in alive => Claims(r, t))
      BY <1>2
    <2>2. /\ UNCHANGED <<slotOf, clientOf, alive, config, starts, ran>>
          /\ pc' = "call" /\ req' = r /\ at' = t
      BY <2>1 DEF Granted, tableVars, childVars
    <2>3. ASSUME NEW g \in Guests, NEW s \in Slots, Claims(g, s)', ~ Claims(g, s)
          PROVE  g = r /\ s = t
      BY <2>2, <2>3 DEF Claims, InLaunch, isSlotAlive
    <2>4. ASSUME NEW g \in Guests, t \notin alive
          PROVE  ~ Claims(g, t) \/ (InLaunch /\ at = t /\ req = g)
      BY <2>4, ConstantsAssumption
      DEF Claims, Unshared, isSlotAlive, IInv, Recorded
    <2>5. ~ InLaunch
      BY <1>2, <2>1 DEF Allocate, AllocateOwn, AllocateLowest, AllocateRefused,
                        Idle, InLaunch
    <2>6. ASSUME NEW s \in Slots, NEW g \in Guests, NEW h \in Guests,
                 Claims(g, s)', Claims(h, s)'
          PROVE  g = h
      BY <2>1, <2>3, <2>4, <2>5, <2>6 DEF Unshared
    <2> QED
      BY <2>2, <2>6 DEF Unshared
  <1>3. CASE AllocateOwn(r)
    <2>1. slotOf[r] \in Slots
      BY <1>3 DEF AllocateOwn, HoldsLiveSlot, IInv, TypeOK
    <2> QED
      BY <1>2, <1>3, <2>1 DEF AllocateOwn, HoldsLiveSlot, Claims
  <1>4. CASE AllocateLowest(r)
    <2>1. RunningLists = {alive}
      BY DEF RunningLists, OnlyMainFails
    <2>2. PICK t \in Free(r, alive) : Granted(r, t)
      BY <1>4, <2>1 DEF AllocateLowest
    <2>3. t \in Slots /\ t \notin alive
      BY <2>2 DEF Free
    <2> QED
      BY <1>2, <2>2, <2>3
  <1> QED
    BY <1>1, <1>3, <1>4 DEF Allocate

\* The diagnostic handshake claims nothing for a guest.
LEMMA DiagUnshared ==
  ASSUME IInv, Unshared, DiagHandshake
  PROVE  Unshared'
  BY ConstantsAssumption
  DEF DiagHandshake, Granted, Idle, Unshared, Claims, InLaunch, isSlotAlive,
      tableVars, childVars

\* What the main thread writes into the child and the table is the claim of
\* the launch it is in.
LEMMA MainThreadUnshared ==
  ASSUME OnlyMainFails, IInv, Unshared, MainThread \/ CallFails
  PROVE  Unshared'
  <1> USE DEF InLaunch, isSlotAlive, tableVars, threadVars, childVars, Returns, NoReply
  <1>1. pc \in {"checked", "replied"} => reply = "live" /\ at \in Slots /\ at \in alive
    BY DEF OnlyMainFails, IInv, TypeOK, ReplyKept, ReplyFresh, Reserved
  <1>2. CASE CallSpawns
    <2>1. ASSUME NEW g \in Guests, NEW s \in Slots, Claims(g, s)'
          PROVE  Claims(g, s)
      BY <1>2, <2>1 DEF CallSpawns, Claims
    <2> QED
      BY <1>2, <2>1, NoNewClaim DEF CallSpawns, Unshared
  <1>3. CASE CallFails
    BY <1>3 DEF CallFails, OnlyMainFails
  <1>4. CASE HandleInitReject \/ HandleInitCheck
    <2>1. ASSUME NEW g \in Guests, NEW s \in Slots, Claims(g, s)'
          PROVE  Claims(g, s)
      BY <1>4, <2>1 DEF HandleInitReject, HandleInitCheck, Claims
    <2> QED
      BY <1>4, <2>1, NoNewClaim DEF HandleInitReject, HandleInitCheck, Unshared
  <1>5. CASE HandleInitAccept
    <2>1. ASSUME NEW g \in Guests, NEW s \in Slots, Claims(g, s)'
          PROVE  Claims(g, s)
      <3>1. config'[s] = g => config[s] = g \/ (at = s /\ req = g)
        BY <1>5 DEF HandleInitAccept, IInv, TypeOK
      <3> QED
        BY <1>5, <2>1, <3>1 DEF HandleInitAccept, Claims
    <2>2. \A s \in Slots \ alive : config'[s] = config[s]
      BY <1>1, <1>5 DEF HandleInitAccept, IInv, TypeOK
    <2> QED
      BY <1>1, <1>5, <2>1, <2>2, NoNewClaim DEF HandleInitAccept, Unshared
  <1>6. CASE HandleInitLost
    BY <1>1, <1>6 DEF HandleInitLost
  <1>7. CASE Register
    <2>1. ASSUME NEW g \in Guests, NEW s \in Slots, Claims(g, s)'
          PROVE  Claims(g, s)
      <3>1. slotOf'[g] = s => slotOf[g] = s \/ (at = s /\ req = g)
        BY <1>7 DEF Register, IInv, TypeOK
      <3>2. clientOf'[s] = "live" /\ at # s => clientOf[s] = "live"
        BY <1>7 DEF Register, IInv, TypeOK
      <3>3. slotOf'[g] = s /\ at = s => req = g
        BY <1>7, <3>1 DEF Register, IInv, TypeOK, Reserved
      <3> QED
        BY <1>7, <2>1, <3>1, <3>2, <3>3 DEF Register, Claims
    <2> QED
      BY <1>1, <1>7, <2>1, NoNewClaim DEF Register, Unshared
  <1>8. CASE RegisterUnlinked
    BY <1>1, <1>8 DEF RegisterUnlinked
  <1>9. CASE Dispatch
    <2>1. /\ at \in Slots /\ at \in alive /\ req \in Guests
          /\ starts \in [Slots -> Seq(Guests)]
          /\ starts' = [starts EXCEPT ![at] = Append(@, req)]
      BY <1>9 DEF Dispatch, IInv, TypeOK, Reserved, Unshared
    <2>2. ASSUME NEW g \in Guests, NEW s \in Slots, Claims(g, s)'
          PROVE  Claims(g, s)
      <3>1. CASE \E i \in 1 .. Len(starts'[s]) : starts'[s][i] = g
        <4>1. PICK i \in 1 .. Len(starts'[s]) : starts'[s][i] = g
          BY <3>1
        <4>2. CASE s = at /\ i = Len(starts[s]) + 1
          BY <1>9, <2>1, <4>1, <4>2 DEF Claims, Dispatch
        <4>3. CASE ~ (s = at /\ i = Len(starts[s]) + 1)
          <5>1. i \in 1 .. Len(starts[s]) /\ starts[s][i] = g
            BY <2>1, <4>1, <4>3
          <5> QED
            BY <5>1 DEF Claims
        <4> QED
          BY <4>2, <4>3
      <3> QED
        BY <1>9, <2>2, <3>1 DEF Dispatch, Claims
    <2>3. \A s \in Slots \ alive : starts'[s] = starts[s]
      BY <2>1
    <2> QED
      BY <1>9, <2>2, <2>3, NoNewClaim DEF Dispatch, Unshared
  <1>10. CASE ReportRefused
    <2>1. ASSUME NEW g \in Guests, NEW s \in Slots, Claims(g, s)'
          PROVE  Claims(g, s)
      BY <1>10, <2>1 DEF ReportRefused, Claims
    <2> QED
      BY <1>10, <2>1, NoNewClaim DEF ReportRefused, Unshared
  <1> QED
    BY <1>2, <1>3, <1>4, <1>5, <1>6, <1>7, <1>8, <1>9, <1>10 DEF MainThread, HandleInit

\* The death recipient takes claims away.
LEMMA BinderDiedUnshared ==
  ASSUME IInv, Unshared, NEW r \in Guests, NEW t \in Slots, BinderDied(r, t)
  PROVE  Unshared'
  <1>1. ASSUME NEW g \in Guests, NEW s \in Slots, Claims(g, s)'
        PROVE  Claims(g, s)
    <2>1. slotOf'[g] = s => slotOf[g] = s
      BY NoSlotNotSlot DEF BinderDied, IInv, TypeOK
    <2>2. clientOf'[s] = "live" => clientOf[s] = "live"
      BY DEF BinderDied, IInv, TypeOK
    <2> QED
      BY <1>1, <2>1, <2>2
      DEF BinderDied, Claims, InLaunch, isSlotAlive, threadVars, childVars
  <1> QED
    BY <1>1, NoNewClaim DEF BinderDied, Unshared, threadVars, childVars

\* The guest of an activity start claimed the process before it is loaded.
LEMMA ChildUnshared ==
  ASSUME IInv, Unshared, NEW t \in Slots, Child(t)
  PROVE  Unshared'
  <1> USE DEF tableVars, threadVars, childVars
  <1>1. starts[t] \in Seq(Guests)
    BY DEF IInv, TypeOK
  <1>2. CASE StartProcess(t)
    BY <1>2 DEF StartProcess, Unshared
  <1>3. ASSUME starts[t] # <<>>, starts' = [starts EXCEPT ![t] = Tail(@)],
               NEW g \in Guests, NEW s \in Slots,
               \E i \in 1 .. Len(starts'[s]) : starts'[s][i] = g
        PROVE  \E i \in 1 .. Len(starts[s]) : starts[s][i] = g
    <2>1. PICK i \in 1 .. Len(starts'[s]) : starts'[s][i] = g
      BY <1>3
    <2>2. CASE s = t
      <3>1. starts'[s] = Tail(starts[t])
        BY <1>3, <2>2 DEF IInv, TypeOK
      <3> DEFINE q == starts[t]
      <3>2. q \in Seq(Guests) /\ q # <<>>
        BY <1>1, <1>3
      <3>3. Len(q) \in Nat /\ Len(Tail(q)) = Len(q) - 1
            /\ \A j \in 1 .. Len(q) - 1 : Tail(q)[j] = q[j + 1]
        BY <3>2
      <3>4. i \in 1 .. Len(q) - 1 /\ Tail(q)[i] = g
        BY <2>1, <3>1, <3>3
      <3>5. i + 1 \in 1 .. Len(q) /\ q[i + 1] = g
        BY <3>3, <3>4
      <3> QED
        BY <2>2, <3>5
    <2>3. CASE s # t
      BY <1>3, <2>1, <2>3 DEF IInv, TypeOK
    <2> QED
      BY <2>2, <2>3
  <1>4. ASSUME t \in alive, UNCHANGED alive,
               \A s \in Slots : s # t => ran'[s] = ran[s] /\ config'[s] = config[s]
                                       /\ starts'[s] = starts[s],
               UNCHANGED threadVars,
               \A g \in Guests, s \in Slots : Claims(g, s)' => Claims(g, s)
        PROVE  Unshared'
    BY <1>4, NoNewClaim DEF Unshared
  <1>5. CASE CreateMismatch(t)
    <2>1. ASSUME NEW g \in Guests, NEW s \in Slots, Claims(g, s)'
          PROVE  Claims(g, s)
      BY <1>3, <1>5, <2>1 DEF CreateMismatch, Claims, InLaunch, isSlotAlive
    <2>2. \A s \in Slots : s # t => starts'[s] = starts[s]
      BY <1>5 DEF CreateMismatch, IInv, TypeOK
    <2> QED
      BY <1>4, <1>5, <2>1, <2>2 DEF CreateMismatch
  <1>6. CASE CreateLoad(t)
    <2> DEFINE r == Head(starts[t])
    <2>1. /\ starts[t] # <<>> /\ starts' = [starts EXCEPT ![t] = Tail(@)]
          /\ ran' = [ran EXCEPT ![t] = @ \cup {r}]
          /\ \E c \in {r, NoGuest} : config' = [config EXCEPT ![t] = c]
          /\ t \in alive
          /\ UNCHANGED <<tableVars, threadVars, alive>>
      BY <1>6 DEF CreateLoad
    <2>2. r = starts[t][1] /\ 1 \in 1 .. Len(starts[t])
      BY <1>1, <2>1
    <2>3. ASSUME NEW g \in Guests, NEW s \in Slots, Claims(g, s)'
          PROVE  Claims(g, s)
      <3>1. config'[s] = g => config[s] = g \/ (s = t /\ g = r)
        BY <2>1, ConstantsAssumption DEF IInv, TypeOK
      <3>2. g \in ran'[s] => g \in ran[s] \/ (s = t /\ g = r)
        BY <2>1 DEF IInv, TypeOK
      <3>3. s = t /\ g = r => Claims(g, s)
        BY <2>2 DEF Claims
      <3> QED
        BY <1>3, <2>1, <2>3, <3>1, <3>2, <3>3 DEF Claims, InLaunch, isSlotAlive
    <2>4. \A s \in Slots : s # t => ran'[s] = ran[s] /\ config'[s] = config[s]
                                  /\ starts'[s] = starts[s]
      BY <2>1 DEF IInv, TypeOK
    <2> QED
      BY <1>4, <2>1, <2>3, <2>4
  <1>7. CASE Destroy(t)
    <2>1. ASSUME NEW g \in Guests, NEW s \in Slots, Claims(g, s)'
          PROVE  Claims(g, s)
      <3>1. config'[s] = g => config[s] = g
        BY <1>7, ConstantsAssumption DEF Destroy, IInv, TypeOK
      <3> QED
        BY <1>7, <2>1, <3>1 DEF Destroy, Claims, InLaunch, isSlotAlive
    <2>2. \A s \in Slots \ alive : config'[s] = NoGuest
      BY <1>7 DEF Destroy, Unshared, IInv, TypeOK
    <2> QED
      BY <1>7, <2>1, <2>2, NoNewClaim DEF Destroy, Unshared
  <1> QED
    BY <1>2, <1>5, <1>6, <1>7 DEF Child

\* Nothing is left of a process that dies, and none dies in a launch.
LEMMA ChildDiesUnshared ==
  ASSUME OnlyMainFails, IInv, Unshared, NEW t \in Slots, ChildDies(t)
  PROVE  Unshared'
  <1>1. {"diesInCall", "diesInLaunch", "startRetried"} \cap Faults = {}
    BY DEF OnlyMainFails
  <1>2. /\ ran' = [ran EXCEPT ![t] = {}]
        /\ config' = [config EXCEPT ![t] = NoGuest]
        /\ starts' = [starts EXCEPT ![t] = <<>>]
        /\ clientOf' = [clientOf EXCEPT ![t] = Stale(@)]
        /\ alive' = alive \ {t}
        /\ at # t \/ pc \in {"idle", "refused"}
        /\ UNCHANGED <<slotOf, pc, req, at>>
    BY <1>1 DEF ChildDies
  <1>3. ASSUME NEW g \in Guests, NEW s \in Slots, Claims(g, s)'
        PROVE  Claims(g, s)
    <2>1. CASE s = t
      <3>1. ran'[s] = {} /\ config'[s] = NoGuest /\ starts'[s] = <<>>
        BY <1>2, <2>1 DEF IInv, TypeOK
      <3>2. clientOf'[s] # "live"
        BY <1>2, <2>1 DEF IInv, TypeOK, Stale
      <3> QED
        BY <1>2, <1>3, <2>1, <3>1, <3>2, ConstantsAssumption
        DEF Claims, InLaunch, isSlotAlive
    <2>2. CASE s # t
      BY <1>2, <1>3, <2>2 DEF IInv, TypeOK, Claims, InLaunch, isSlotAlive
    <2> QED
      BY <2>1, <2>2
  <1>4. \A s \in Slots \ alive' : ran'[s] = {} /\ config'[s] = NoGuest /\ starts'[s] = <<>>
    BY <1>2 DEF Unshared, IInv, TypeOK
  <1>5. pc' = "dispatch" => at' \in alive'
    BY <1>2 DEF Unshared
  <1> QED
    BY <1>3, <1>4, <1>5, NoNewClaim DEF Unshared

\* With the table its leases are forgotten; the children keep their guests.
LEMMA MainDiesUnshared ==
  ASSUME Unshared, MainDies
  PROVE  Unshared'
  <1>1. ASSUME NEW g \in Guests, NEW s \in Slots, Claims(g, s)'
        PROVE  Claims(g, s)
    BY <1>1 DEF MainDies, Claims, InLaunch, isSlotAlive, childVars
  <1> QED
    BY <1>1, NoNewClaim DEF MainDies, Unshared, childVars

LEMMA UnsharedStep ==
  ASSUME OnlyMainFails
  PROVE  IInv /\ Unshared /\ [Next]_vars => Unshared'
  <1> SUFFICES ASSUME IInv, Unshared, [Next]_vars
               PROVE  Unshared'
    OBVIOUS
  <1>1. CASE UNCHANGED vars
    BY <1>1
    DEF vars, tableVars, threadVars, childVars, Unshared, Claims, InLaunch, isSlotAlive
  <1>2. CASE Next
    BY <1>2, AllocateUnshared, DiagUnshared, MainThreadUnshared, BinderDiedUnshared,
       ChildUnshared, ChildDiesUnshared, MainDiesUnshared
    DEF Next
  <1> QED
    BY <1>1, <1>2

\* Where nothing but the main process fails, no process is claimed by two
\* guests, from the launch of the one to its death.
THEOREM NeverShared ==
  ASSUME OnlyMainFails
  PROVE  Spec => []Unshared
  BY UnsharedInit, UnsharedStep, Inductive, PTL DEF Spec

\* Then the child of a registered slot is never bound to a guest other than
\* the registered one (handleInit, seed, reset against slotOf).
THEOREM OwnersBound ==
  ASSUME OnlyMainFails
  PROVE  Spec => []OwnerBinding
  <1>1. IInv /\ Unshared => OwnerBinding
    BY DEF IInv, TypeOK, Unshared, Claims, OwnerBinding
  <1> QED
    BY <1>1, Inductive, NeverShared, PTL

\* Then no process ever loads two guests (allocate's test of the running
\* processes, handleInit, ProxyActivity.onCreate).
THEOREM GuestsApart ==
  ASSUME OnlyMainFails
  PROVE  Spec => []OneGuestPerProcess
  <1>1. IInv /\ Unshared => OneGuestPerProcess
    BY DEF IInv, TypeOK, Unshared, Claims, OneGuestPerProcess
  <1> QED
    BY <1>1, Inductive, NeverShared, PTL

\* A guest written over another guest would have claimed the same process.
LEMMA ReboundStep ==
  ASSUME IInv, Unshared, [Next]_vars, NEW s \in alive \cap alive',
         config[s] \in Guests, config'[s] \in Guests
  PROVE  config'[s] = config[s]
  <1>1. s \in Slots
    BY DEF IInv, TypeOK
  <1>2. Claims(config[s], s)
    BY DEF Claims
  <1>3. \/ config'[s] = config[s]
        \/ HandleInitAccept /\ s = at /\ config'[s] = req
        \/ CreateLoad(s) /\ config'[s] = Head(starts[s])
    <2>1. CASE UNCHANGED config
      BY <2>1
    <2>2. CASE HandleInitAccept
      BY <1>1, <2>2 DEF HandleInitAccept, IInv, TypeOK
    <2>3. ASSUME NEW t \in Slots, CreateLoad(t)
          PROVE  config'[s] = config[s] \/ (s = t /\ config'[s] = Head(starts[s]))
      BY <1>1, <2>3, ConstantsAssumption DEF CreateLoad, IInv, TypeOK
    <2>4. ASSUME NEW t \in Slots, Destroy(t) \/ ChildDies(t)
          PROVE  config'[s] = config[s]
      BY <1>1, <2>4, ConstantsAssumption DEF Destroy, ChildDies, IInv, TypeOK
    <2>5. \/ UNCHANGED config \/ HandleInitAccept
          \/ \E t \in Slots : CreateLoad(t) \/ Destroy(t) \/ ChildDies(t)
      BY DEF Next, Allocate, AllocateOwn, AllocateLowest, AllocateRefused,
             DiagHandshake, Granted, MainThread, HandleInit, CallSpawns, CallFails,
             HandleInitReject, HandleInitCheck, HandleInitLost, Register,
             RegisterUnlinked, Dispatch, ReportRefused, BinderDied, Child,
             StartProcess, CreateMismatch, MainDies, vars, childVars
    <2> QED
      BY <2>1, <2>2, <2>3, <2>4, <2>5
  <1>4. CASE HandleInitAccept /\ s = at /\ config'[s] = req
    <2>1. Claims(req, s)
      BY <1>4 DEF HandleInitAccept, Claims, InLaunch
    <2> QED
      BY <1>1, <1>2, <1>4, <2>1 DEF Unshared
  <1>5. CASE CreateLoad(s) /\ config'[s] = Head(starts[s])
    BY <1>5, ConstantsAssumption DEF CreateLoad, Effective
  <1> QED
    BY <1>3, <1>4, <1>5

\* Then the config of a running child never goes from one guest straight to
\* another, though handleInit compares and writes under no lock (handleInit
\* 199-213, seed 172).
THEOREM GuestsNotRebound ==
  ASSUME OnlyMainFails
  PROVE  Spec => NeverRebound
  <1>1. IInv /\ Unshared /\ [Next]_vars =>
          \A s \in alive \cap alive' :
            config[s] \in Guests /\ config'[s] \in Guests => config'[s] = config[s]
    BY ReboundStep
  <1> QED
    BY <1>1, Inductive, NeverShared, PTL DEF Spec, NeverRebound

-----------------------------------------------------------------------------
(* The table is a table of leases                                          *)

\* Where no two guests share a slot, the guest mapped to it is its holder.
LEMMA HolderIs ==
  ASSUME NEW table, NEW s \in Slots,
         \A g, h \in Guests : table[g] = table[h] /\ table[g] # NoSlot => g = h
  PROVE  /\ \A g \in Guests : table[g] = s => Holders(table)[s] = g
         /\ (\A g \in Guests : table[g] # s) => Holders(table)[s] = NoGuest
         /\ Holders(table)[s] \in Guests \cup {NoGuest}
  <1>1. Holders(table)[s] = IF \E g \in Guests : table[g] = s
                            THEN CHOOSE g \in Guests : table[g] = s
                            ELSE NoGuest
    BY DEF Holders
  <1>2. ASSUME NEW g \in Guests, table[g] = s
        PROVE  Holders(table)[s] = g
    <2> DEFINE c == CHOOSE h \in Guests : table[h] = s
    <2>1. c \in Guests /\ table[c] = s
      BY <1>2
    <2>2. c = g
      BY <1>2, <2>1, NoSlotNotSlot
    <2> QED
      BY <1>1, <1>2, <2>2
  <1> QED
    BY <1>1, <1>2

\* A registration is a grant: the slot was free or the guest's own.
LEMMA RegisterGrants ==
  ASSUME IInv, IInv', Register \/ RegisterUnlinked
  PROVE  Lease!Grant(req, at)
  <1>1. /\ at \in Slots /\ req \in Guests
        /\ \A h \in Guests : slotOf[h] = at => h = req
        /\ slotOf' = [slotOf EXCEPT ![req] = at]
        /\ slotOf \in [Guests -> Slots \cup {NoSlot}]
    BY DEF Register, RegisterUnlinked, IInv, TypeOK, Reserved, InLaunch
  <1>2. holder[at] \in {req, NoGuest}
    BY <1>1, HolderIs DEF holder, IInv, SlotExclusive
  <1>3. ASSUME NEW t \in Slots
        PROVE  holder'[t] = IF t = at THEN req
                            ELSE IF holder[t] = req THEN NoGuest ELSE holder[t]
    <2>1. /\ \A g \in Guests : slotOf[g] = t => holder[t] = g
          /\ (\A g \in Guests : slotOf[g] # t) => holder[t] = NoGuest
      BY HolderIs DEF holder, IInv, SlotExclusive
    <2>2. /\ \A g \in Guests : slotOf'[g] = t => holder'[t] = g
          /\ (\A g \in Guests : slotOf'[g] # t) => holder'[t] = NoGuest
      BY HolderIs DEF holder, IInv, SlotExclusive
    <2>3. \A g \in Guests : slotOf'[g] = IF g = req THEN at ELSE slotOf[g]
      BY <1>1
    <2>4. CASE t = at
      BY <1>1, <2>2, <2>3, <2>4
    <2>5. CASE t # at
      <3>1. CASE \E g \in Guests : slotOf[g] = t
        <4>1. PICK g \in Guests : slotOf[g] = t
          BY <3>1
        <4>2. CASE g = req
          <5>1. \A h \in Guests : slotOf'[h] # t
            BY <2>1, <2>3, <2>5, <4>1, <4>2
          <5> QED
            BY <2>1, <2>2, <2>5, <4>1, <4>2, <5>1
        <4>3. CASE g # req
          BY <2>1, <2>2, <2>3, <2>5, <4>1, <4>3
        <4> QED
          BY <4>2, <4>3
      <3>2. CASE \A g \in Guests : slotOf[g] # t
        BY <2>1, <2>2, <2>3, <2>5, <3>2
      <3> QED
        BY <3>1, <3>2
    <2> QED
      BY <2>4, <2>5
  <1>4. holder' = [t \in Slots |-> holder'[t]]
    BY DEF holder, Holders
  <1> QED
    BY <1>2, <1>3, <1>4 DEF Lease!Grant

\* The death recipient gives up the slot of its guest or changes nothing.
LEMMA BinderDiedReleases ==
  ASSUME IInv, IInv', NEW g \in Guests, NEW s \in Slots, BinderDied(g, s)
  PROVE  Lease!Release(s) \/ UNCHANGED holder
  <1>1. CASE slotOf[g] # s
    BY <1>1 DEF BinderDied, holder
  <1>2. CASE slotOf[g] = s
    <2>1. /\ slotOf' = [slotOf EXCEPT ![g] = NoSlot]
          /\ slotOf \in [Guests -> Slots \cup {NoSlot}]
      BY <1>2 DEF BinderDied, IInv, TypeOK
    <2>2. ASSUME NEW t \in Slots
          PROVE  holder'[t] = IF t = s THEN NoGuest ELSE holder[t]
      <3>1. /\ \A h \in Guests : slotOf[h] = t => holder[t] = h
            /\ (\A h \in Guests : slotOf[h] # t) => holder[t] = NoGuest
        BY HolderIs DEF holder, IInv, SlotExclusive
      <3>2. /\ \A h \in Guests : slotOf'[h] = t => holder'[t] = h
            /\ (\A h \in Guests : slotOf'[h] # t) => holder'[t] = NoGuest
        BY HolderIs DEF holder, IInv, SlotExclusive
      <3>3. \A h \in Guests : slotOf'[h] = IF h = g THEN NoSlot ELSE slotOf[h]
        BY <2>1
      <3>4. CASE t = s
        <4>1. \A h \in Guests : slotOf'[h] # t
          BY <1>2, <3>3, <3>4, NoSlotNotSlot DEF IInv, SlotExclusive
        <4> QED
          BY <3>2, <3>4, <4>1
      <3>5. CASE t # s
        BY <1>2, <3>1, <3>2, <3>3, <3>5, NoSlotNotSlot
      <3> QED
        BY <3>4, <3>5
    <2>3. /\ holder' = [t \in Slots |-> holder'[t]]
          /\ holder = [t \in Slots |-> holder[t]]
      BY DEF holder, Holders
    <2> QED
      BY <2>2, <2>3 DEF Lease!Release
  <1> QED
    BY <1>1, <1>2

LEMMA EmptyTable ==
  ASSUME NEW table, table = [g \in Guests |-> NoSlot]
  PROVE  Holders(table) = [s \in Slots |-> NoGuest]
  BY NoSlotNotSlot DEF Holders

LEMMA LeaseStep == IInv /\ IInv' /\ [Next]_vars => [Lease!Next]_holder
  <1> SUFFICES ASSUME IInv, IInv', [Next]_vars
               PROVE  Lease!Next \/ UNCHANGED holder
    OBVIOUS
  <1>1. ASSUME UNCHANGED slotOf
        PROVE  UNCHANGED holder
    BY <1>1 DEF holder
  <1>2. CASE UNCHANGED vars
    BY <1>1, <1>2 DEF vars, tableVars
  <1>3. ASSUME NEW g \in Guests, Allocate(g)
        PROVE  UNCHANGED holder
    BY <1>1, <1>3
    DEF Allocate, AllocateOwn, AllocateLowest, AllocateRefused, Granted, tableVars
  <1>4. CASE DiagHandshake
    BY <1>1, <1>4 DEF DiagHandshake, Granted, tableVars
  <1>5. CASE MainThread \/ CallFails
    <2>1. CASE Register \/ RegisterUnlinked
      <3>1. req \in Guests /\ at \in Slots
        BY <2>1
        DEF Register, RegisterUnlinked, IInv, TypeOK, Reserved, InLaunch
      <3> QED
        BY <2>1, <3>1, RegisterGrants DEF Lease!Next
    <2>2. CASE ~ (Register \/ RegisterUnlinked)
      BY <1>1, <1>5, <2>2
      DEF MainThread, HandleInit, CallSpawns, CallFails, HandleInitReject, HandleInitCheck,
          HandleInitAccept, HandleInitLost, Dispatch, ReportRefused, tableVars
    <2> QED
      BY <2>1, <2>2
  <1>6. ASSUME NEW g \in Guests, NEW s \in Slots, BinderDied(g, s)
        PROVE  Lease!Next \/ UNCHANGED holder
    BY <1>6, BinderDiedReleases DEF Lease!Next
  <1>7. ASSUME NEW s \in Slots, Child(s) \/ ChildDies(s)
        PROVE  UNCHANGED holder
    BY <1>1, <1>7
    DEF Child, StartProcess, CreateMismatch, CreateLoad, Destroy, ChildDies,
        tableVars
  <1>8. CASE MainDies
    <2>1. holder' = [s \in Slots |-> NoGuest]
      BY <1>8, EmptyTable DEF MainDies, holder
    <2> QED
      BY <2>1 DEF Lease!Next, Lease!Forget
  <1> QED
    BY <1>2, <1>3, <1>4, <1>5, <1>6, <1>7, <1>8 DEF Next

\* The slot table implements the leases of SlotLease under every fault: a slot
\* passes from one guest to another only through free (allocate,
\* spawnAndConfig, the death recipient).
THEOREM ImplementsLease == Spec => LeaseSpec
  <1>1. Init => Lease!Init
    BY EmptyTable DEF Init, Lease!Init, holder
  <1> QED
    BY <1>1, LeaseStep, Inductive, PTL DEF Spec, LeaseSpec, Lease!Spec
=============================================================================
