------------------------------ MODULE MCGates ------------------------------
(***************************************************************************)
(* One run for the parts of the gate scripts that share no state: a run    *)
(* picks a part and takes only its steps.                                  *)
(***************************************************************************)
EXTENDS JniGates, ParcelReader, DartSource

VARIABLE part

Parts == {"jni", "parcel", "dart"}

Init ==
  /\ part \in Parts
  /\ JInit /\ PInit /\ SInit

Next ==
  /\ UNCHANGED part
  /\ \/ part = "jni" /\ JNext /\ UNCHANGED <<pvars, svars>>
     \/ part = "parcel" /\ PNext /\ UNCHANGED <<jvars, svars>>
     \/ part = "dart" /\ SNext /\ UNCHANGED <<jvars, pvars>>

Spec == Init /\ [][Next]_<<part, jvars, pvars, svars>>

GatesTypeOK == part \in Parts /\ JTypeOK /\ PTypeOK /\ STypeOK

-----------------------------------------------------------------------------
\* pair is a chain native, update a pending one, attach is in no chain.
MCNatives == {"attach", "pair", "update"}
MCPlaced == [n \in {"attach", "pair"} |->
               IF n = "attach" THEN "AetherOrchestrator.kt" ELSE "AetherInstrumentation.kt"]
\* ints, strings and objects are arrays, method is java.lang.reflect.Method.
MCSigs == {"object", "method", "objects", "strings", "ints"}
MCSigOf == [n \in MCNatives |-> IF n = "update" THEN "method" ELSE "object"]
MCParityView == [s \in MCSigs |-> IF s \in {"ints", "objects"} THEN "strings" ELSE s]
MCAuditView == [s \in MCSigs |-> IF s \in {"object", "method"} THEN "object" ELSE "objects"]
MCStrings == {<<>>, <<65>>, <<65, 66>>, [i \in 1..35 |-> 65]}
=============================================================================
