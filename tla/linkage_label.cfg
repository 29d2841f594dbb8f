SPECIFICATION Spec
CONSTANTS
 SitesOf <- MCSitesOf
 ScanChain <- MCScanChain
 ConfOf <- MCConfOf
 FixedChains <- MCFixed
 Recipe <- MCRecipe
 ListChains <- MCListed
 Members <- MCMembers
 ChainOrder <- MCOrder
 Kinds <- MCKinds
 Optional = {"CH-12"}
 Success = "ok"
 RespBranch = "br"
 RespStore = "st"
 Plan <- MCPlan
 Facts <- MCFacts
 SlotFacts = {"slot"}
 Endpoint = "slot"
 Texts <- MCTexts
 MaxRuns = 1
 MaxSpines = 1
 MaxEdits = 1
 w6 = w6
 w8 = w8
 x8 = x8
 Names <- MCNames
 NumOf <- MCNumOf
 Saved = {}
 Stack = Stack
 Unknown = Unknown
 Half = 4
 Page = 2
 Imms = {1, 2}
 Slots = {0, 1}
 JniSlots = {1}
 Syscalls = {1}
 StubMark = 1
 SvcBack = 2
 StubBack = 2
 MaxInsns = 3
 Regs = {"x1"}
 Recent = 2
 MaxLines = 5
INVARIANTS LabelIsFresh TrackerNeverWrong ProvenNeverWrong
CHECK_DEADLOCK FALSE
