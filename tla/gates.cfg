SPECIFICATION Spec
CONSTANTS
 Natives <- MCNatives
 Chain = {"pair", "update"}
 Pending = {"update"}
 Markable = {"pair", "update"}
 Placed <- MCPlaced
 Sigs <- MCSigs
 SigOf <- MCSigOf
 ParityView <- MCParityView
 AuditView <- MCAuditView
 Shipped = {"AetherOrchestrator.kt", "AetherInstrumentation.kt"}
 TestStubs = {"stubs/Engine.kt"}
 MaxEdits = 2
 Strings <- MCStrings
 Ints = {0, 1, 65, 5000}
 MaxItems = 3
 MaxDepth = 2
INVARIANTS GatesTypeOK ReleasedRegisters ReleasedChainWired StringsFound StripsComments
CHECK_DEADLOCK FALSE
