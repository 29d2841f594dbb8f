---------------------------- MODULE MCGuestSlots ----------------------------
(* Instances of GuestSlots for TLC, and what the comments of the code say. *)
EXTENDS GuestSlots, TLC

Symmetry == Permutations(Guests)

NoFaults == {}
\* The hypothesis of the theorems that need the handshake to work.
MainFaults == {"mainDies"}
AllFaults == FaultKinds
CallFaults == {"callFails"}
LaunchFaults == {"diesInLaunch"}
\* All that can come between a call and its answer.
CallingFaults == {"callFails", "diesInCall"}

\* "session จริงต้อง rebind ทับได้เสมอ": a real session can always bind over the
\* diagnostic config, so that config never costs a launch its slot
\* (GuestProcessHolder.handleInit 202-203, allocate).
DiagNeverPins ==
  [][pc = "idle" /\ pc' = "refused" =>
       \A s \in Slots : config[s] = Diag => \E g \in Guests : slotOf[g] = s]_vars

\* "guest ตาย → ปล่อย slot": the slot is released when the guest dies, hence not
\* while the registered child of that slot lives (spawnAndConfig 108-109).
ReleasedOnlyDead ==
  [][\A g \in Guests : HoldsLiveSlot(g) => slotOf'[g] # NoSlot]_vars

\* "reject ถ้า config pkg ใหม่คนละกับที่ process ผูกไว้": a child bound to a guest
\* rejects another package, the diagnostic one included (handleInit).
BoundRejectsOthers ==
  [][\A s \in alive \cap alive' : config[s] \in Guests => config'[s] # Diag]_vars

\* "guest ตาย → ปล่อย slot อัตโนมัติ", as NoLeakedSlot has it, where the child
\* may die between its reply and linkToDeath (spawnAndConfig 108-109).
DeathAlwaysReported == NoLeakedSlot

\* "ห้าม dispatch ทับ slot ที่มี owner": no guest is dispatched into a process
\* that another one owns (launchInSandbox 528-529), where the handshake may fail.
NoDispatchOverOwner == OneGuestPerProcess
=============================================================================
