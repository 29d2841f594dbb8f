------------------------------ MODULE SlotLease ------------------------------
(***************************************************************************)
(* What the slot table promises, without processes, binders or threads:    *)
(* every slot has at most one holder, a slot is granted only while it is   *)
(* free or already held by the same guest, a guest holds one slot at a     *)
(* time, and a grant that moves a guest gives up its old slot at once.     *)
(***************************************************************************)
CONSTANTS Guests, Slots, NoGuest

VARIABLE holder    \* slot -> its guest, or NoGuest

TypeOK == holder \in [Slots -> Guests \cup {NoGuest}]

Init == holder = [s \in Slots |-> NoGuest]

Grant(g, s) ==
  /\ holder[s] \in {g, NoGuest}
  /\ holder' = [t \in Slots |->
                  IF t = s THEN g ELSE IF holder[t] = g THEN NoGuest ELSE holder[t]]

Release(s) == holder' = [holder EXCEPT ![s] = NoGuest]

\* The process that keeps the table is gone.
Forget == holder' = [s \in Slots |-> NoGuest]

Next ==
  \/ \E g \in Guests, s \in Slots : Grant(g, s)
  \/ \E s \in Slots : Release(s)
  \/ Forget

Spec == Init /\ [][Next]_holder
=============================================================================
