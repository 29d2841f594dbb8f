----------------------------- MODULE NativeScan -----------------------------
(***************************************************************************)
(* scripts/build_call_linkage.py: scan_native reads a decoded AArch64      *)
(* window one instruction at a time, keeps a small register Tracker beside *)
(* it and turns every control transfer into an edge.  The Tracker keys     *)
(* what it knows by the NAME of a register in the listing; beside it the   *)
(* module runs the register file itself, by register number, and the set   *)
(* of facts that the file has moved away from without the Tracker seeing.  *)
(***************************************************************************)
EXTENDS Integers, Sequences, FiniteSets, FiniteSetsExt

CONSTANTS
  Names,       \* register names a listing uses (w8 and x8 are two)
  NumOf,       \* name -> number of the register it names
  Saved,       \* numbers a callee preserves
  Stack,       \* sp, fp or lr as the base of a load
  Unknown,     \* the Tracker knows nothing
  Half,        \* values of one half word that movk can replace
  Page,        \* what lsl #12 multiplies the immediate of an add by
  Imms,        \* immediates of the listing
  Slots,       \* offsets of loads
  JniSlots,    \* JNIENV_SLOTS
  Syscalls,    \* SYSCALLS
  StubMark,    \* MMAP_STUB_MARKER
  SvcBack,     \* lookback of syscall_number_before
  StubBack,    \* lookback of mmap_stub_before
  MaxInsns     \* bound: instructions of a window

ASSUME NativeAssumption ==
  /\ NumOf \in [Names -> Nat]
  /\ Unknown \notin Nat /\ Unknown \notin Names /\ Stack \notin Names
  /\ Unknown \notin (Names \cup {Stack}) \X Nat
  /\ {Half, Page} \subseteq Nat \ {0} /\ {Imms, Slots, Syscalls} \subseteq SUBSET Nat
  /\ SvcBack \in Nat /\ StubBack \in Nat /\ MaxInsns \in Nat

VARIABLES
  imm,      \* Tracker.imm
  load,     \* Tracker.load: name -> <<base, slot>>
  env,      \* env_chain: name -> base of its first bare load
  recent,   \* the instructions before this one, the nearest first
  read,     \* how many instructions of the window are read
  edge,     \* the edge the last instruction gave
  truth,    \* number -> what the register holds
  stale,    \* facts the register file has left behind
  tabled,   \* names loaded through a base that was a first word then
  clean     \* w8/x8 was last written by a staging no w6/x6 one followed

nvars == <<imm, load, env, recent, read, edge, truth, stale, tabled, clean>>

Beliefs == {"imm", "load", "env"}
Nums == {NumOf[n] : n \in Names}
Bases == Names \cup {Stack}
Clobbered == Nums \ Saved

Value(v) == [k |-> "imm", v |-> v, table |-> FALSE]
Word(slot, table) == [k |-> "word", v |-> slot, table |-> table]
Opaque == [k |-> "other", v |-> 0, table |-> FALSE]

IsFirstWord(t) == t.k = "word" /\ t.v = 0

\* Other spellings of a register go stale with it; what the step settled for
\* the name it spelled does not.
NamesOf(nums) == {n \in Names : NumOf[n] \in nums}
Overwrites(nums, settled) == (stale \cup (NamesOf(nums) \X Beliefs)) \ settled

NoEdge == [kind |-> "none", conf |-> "none", sound |-> TRUE, right |-> TRUE]

Forget(n) == /\ imm' = [imm EXCEPT ![n] = Unknown]
             /\ load' = [load EXCEPT ![n] = Unknown]

\* One instruction further down the listing; the look-backs tell apart the
\* staging of an immediate (mov), a call, an svc and everything else.
Reads(insn) ==
  /\ read < MaxInsns
  /\ read' = read + 1
  /\ recent' = SubSeq(<<insn>> \o recent, 1,
                      Min({Len(recent) + 1, Max({SvcBack, StubBack})}))

Plain(op) == [op |-> op, num |-> 0, v |-> 0]

Quiet == edge' = NoEdge
KeepsClean(nums) == clean' = (clean /\ 8 \notin nums)

-----------------------------------------------------------------------------
(* Tracker.feed, by instruction                                            *)

\* Mutant: the load fact of the register is not popped.
StageKeepsLoad(op, d, v) ==
  /\ Reads(IF op = "mov" THEN [op |-> "mov", num |-> NumOf[d], v |-> v] ELSE Plain("other"))
  /\ Quiet
  /\ imm' = [imm EXCEPT ![d] = v]
  /\ truth' = [truth EXCEPT ![NumOf[d]] = Value(v)]
  /\ stale' = Overwrites({NumOf[d]}, {d} \X {"imm", "load"})
  /\ clean' = IF op = "mov" /\ NumOf[d] = 8 THEN TRUE
              ELSE clean /\ NumOf[d] \notin (IF op = "mov" THEN {6, 8} ELSE {8})
  /\ UNCHANGED <<load, env, tabled>>

\* mov or movz of an immediate; adrp, which no lookback accepts as a staging.
Stage(op, d, v) ==
  /\ Reads(IF op = "mov" THEN [op |-> "mov", num |-> NumOf[d], v |-> v] ELSE Plain("other"))
  /\ Quiet
  /\ imm' = [imm EXCEPT ![d] = v]
  /\ load' = [load EXCEPT ![d] = Unknown]
  /\ truth' = [truth EXCEPT ![NumOf[d]] = Value(v)]
  /\ stale' = Overwrites({NumOf[d]}, {d} \X {"imm", "load"})
  /\ clean' = IF op = "mov" /\ NumOf[d] = 8 THEN TRUE
              ELSE clean /\ NumOf[d] \notin (IF op = "mov" THEN {6, 8} ELSE {8})
  /\ UNCHANGED <<env, tabled>>

Merge(old, v, high) ==
  IF high THEN v * Half + (old % Half) ELSE (old \div Half) * Half + v

\* movk keeps the other half, and takes zero for a value it does not know.
Movk(d, v, high) ==
  LET known == imm[d] # Unknown /\ <<d, "imm">> \notin stale IN
  /\ Reads(Plain("other")) /\ Quiet
  /\ imm' = [imm EXCEPT ![d] = Merge(IF @ = Unknown THEN 0 ELSE @, v, high)]
  /\ truth' = [truth EXCEPT ![NumOf[d]] =
                 IF @.k = "imm" THEN Value(Merge(@.v, v, high)) ELSE Opaque]
  /\ stale' = Overwrites({NumOf[d]}, IF known THEN {<<d, "imm">>} ELSE {})
  /\ KeepsClean({NumOf[d]})
  /\ UNCHANGED <<load, env, tabled>>

\* The tracker reads the third operand and no further: the instruction adds a
\* shifted immediate (lsl #12), the tracker the immediate itself.
Add(d, s, v, shifted) ==
  LET exact == ~shifted /\ <<s, "imm">> \notin stale
      added == IF shifted THEN v * Page ELSE v IN
  /\ imm[s] # Unknown
  /\ Reads(Plain("other")) /\ Quiet
  /\ imm' = [imm EXCEPT ![d] = imm[s] + v]
  /\ truth' = [truth EXCEPT ![NumOf[d]] =
                 IF truth[NumOf[s]].k = "imm" THEN Value(truth[NumOf[s]].v + added)
                 ELSE Opaque]
  /\ stale' = Overwrites({NumOf[d]}, IF exact THEN {<<d, "imm">>} ELSE {})
  /\ KeepsClean({NumOf[d]})
  /\ UNCHANGED <<load, env, tabled>>

\* ldr, ldur, ldrsw of the two forms LOAD_RE accepts.  scan_native takes the
\* bare one, [xB] with no offset written, for the dereference of a table: an
\* explicit #0, a load from the stack and ldrsw are not bare.
Ldr(d, b, slot, bare) ==
  /\ Reads(Plain("other")) /\ Quiet
  /\ imm' = [imm EXCEPT ![d] = Unknown]
  /\ load' = [load EXCEPT ![d] = <<b, slot>>]
  /\ env' = IF bare /\ env[d] = Unknown THEN [env EXCEPT ![d] = b] ELSE env
  /\ truth' = [truth EXCEPT ![NumOf[d]] =
                 Word(slot, b \in Names /\ IsFirstWord(truth[NumOf[b]]))]
  /\ stale' = Overwrites({NumOf[d]},
                         {d} \X (IF bare THEN Beliefs ELSE {"imm", "load"}))
  /\ tabled' = IF b \in Names /\ env[b] # Unknown /\ <<b, "env">> \notin stale
               THEN tabled \cup {d} ELSE tabled \ {d}
  /\ KeepsClean({NumOf[d]})

\* A load LOAD_RE does not match: an index register, a literal, write-back or
\* post-index, which moves the base as well.  The tracker changes nothing.
LdrUnparsed(written) ==
  LET nums == {NumOf[n] : n \in written} IN
  /\ Reads(Plain("other")) /\ Quiet
  /\ truth' = [r \in Nums |-> IF r \in nums THEN Opaque ELSE truth[r]]
  /\ stale' = Overwrites(nums, {})
  /\ KeepsClean(nums)
  /\ UNCHANGED <<imm, load, env, tabled>>

\* Any other instruction, known by its first operand: it writes that one (or not:
\* str, cmp) and the ones in also (ldp, the base of a store with write-back).
Otherwise(d, writes, also) ==
  LET nums == (IF writes THEN {NumOf[d]} ELSE {}) \cup {NumOf[n] : n \in also} IN
  /\ Reads(Plain("other"))
  /\ Forget(d)
  /\ truth' = [r \in Nums |-> IF r \in nums THEN Opaque ELSE truth[r]]
  /\ stale' = Overwrites(nums, {})
  /\ KeepsClean(nums)
  /\ UNCHANGED <<env, tabled>>

Calls ==
  /\ truth' = [r \in Nums |-> IF r \in Clobbered THEN Opaque ELSE truth[r]]
  /\ stale' = Overwrites(Clobbered, {})
  /\ KeepsClean(Clobbered)
  /\ UNCHANGED <<env, tabled>>

-----------------------------------------------------------------------------
(* The two look-backs                                                      *)

Nearest(S) == recent[Min(S)]

Within(back) == {i \in DOMAIN recent : i <= back}

NoneBetween(i, ops) == \A j \in DOMAIN recent : j < i => recent[j].op \notin ops

\* Mutant: the search runs forwards, the staging furthest away wins.
SyscallNumberFurthest ==
  LET hits == {i \in Within(SvcBack) : recent[i].op = "mov" /\ recent[i].num \in {6, 8}} IN
  IF hits = {} THEN Unknown ELSE recent[Max(hits)].v

\* syscall_number_before: w8/x8, or w6/x6, whichever is nearer.
SyscallNumber ==
  LET hits == {i \in Within(SvcBack) : /\ recent[i].op = "mov"
                                       /\ recent[i].num \in {6, 8}
                                       /\ NoneBetween(i, {"svc"})} IN
  IF hits = {} THEN Unknown ELSE Nearest(hits).v

\* mmap_stub_before: another value staged in between does not end the search.
StubMarked ==
  \E i \in Within(StubBack) : /\ recent[i].op = "mov" /\ recent[i].num = 6
                              /\ recent[i].v = StubMark
                              /\ NoneBetween(i, {"call", "svc"})

-----------------------------------------------------------------------------
(* scan_native: the edges, from what was known before the instruction      *)

Emit(kind, conf, sound, right) ==
  edge' = [kind |-> kind, conf |-> conf, sound |-> sound, right |-> right]

\* resolve_direct; a curated reading may put its own confidence in its place.
Bl(target, curated) ==
  /\ Reads(Plain("call"))
  /\ Emit(IF target = "plt" THEN "calls_plt" ELSE "calls_direct",
          CASE curated            -> "probable"
            [] target = "plt"     -> "strong"
            [] target = "known"   -> "proven"
            [] target = "neither" -> "probable", TRUE, TRUE)
  /\ UNCHANGED <<imm, load>>
  /\ Calls

ThroughTable(r) ==
  /\ load[r] # Unknown /\ load[r][2] \in JniSlots
  /\ load[r][1] \in Names /\ env[load[r][1]] # Unknown

ThroughObject(r) == load[r] # Unknown /\ load[r][2] = 0 /\ ~ThroughTable(r)

Blr(r, curated) ==
  /\ Reads(Plain("call"))
  /\ \/ /\ ThroughTable(r)
        /\ Emit("calls_jni_slot", "proven", <<r, "load">> \notin stale /\ r \in tabled,
                truth[NumOf[r]] = Word(load[r][2], TRUE))
     \/ /\ ThroughObject(r)
        /\ Emit("calls_vtable0", "probable", <<r, "load">> \notin stale,
                IsFirstWord(truth[NumOf[r]]))
     \/ /\ ~ThroughTable(r) /\ ~ThroughObject(r) /\ StubMarked
        /\ Emit("calls_syscall_stub", "strong", FALSE, 6 \in Nums /\ truth[6] = Value(StubMark))
     \/ /\ ~ThroughTable(r) /\ ~ThroughObject(r) /\ ~StubMarked
        /\ Emit("calls_direct", IF curated THEN "proven" ELSE "candidate", TRUE, TRUE)
  /\ Forget(r)
  /\ Calls

\* The tracker's own number (staged_syscall) is kept and never read.
Svc ==
  LET nr == SyscallNumber IN
  /\ Reads(Plain("svc"))
  /\ Emit("calls_syscall", IF nr \in Syscalls THEN "proven" ELSE "probable",
          clean, 8 \in Nums /\ truth[8] = Value(nr))
  /\ truth' = [r \in Nums |-> IF r = 0 THEN Opaque ELSE truth[r]]
  /\ stale' = Overwrites({0}, {})
  /\ UNCHANGED <<imm, load, env, tabled, clean>>

Ret ==
  /\ Reads(Plain("call")) /\ Quiet
  /\ UNCHANGED <<imm, load, env, truth, stale, tabled, clean>>

Br(r) ==
  /\ Otherwise(r, FALSE, {})
  /\ Emit("computes_branch", "probable", TRUE, TRUE)

\* An instruction that is no branch and has a curated reading with a kind.
Hop(d, writes) ==
  /\ Otherwise(d, writes, {})
  /\ Emit("annotated", "proven", TRUE, TRUE)

-----------------------------------------------------------------------------
NInit ==
  /\ imm = [n \in Names |-> Unknown]
  /\ load = [n \in Names |-> Unknown]
  /\ env = [n \in Names |-> Unknown]
  /\ recent = <<>> /\ read = 0
  /\ edge = NoEdge
  /\ truth = [r \in Nums |-> Opaque]
  /\ stale = {} /\ tabled = {}
  /\ clean = FALSE

NNext ==
  \/ \E d \in Names, v \in Imms, op \in {"mov", "adrp"} : Stage(op, d, v)
  \/ \E d \in Names, v \in Imms, high \in BOOLEAN : v < Half /\ Movk(d, v, high)
  \/ \E d, s \in Names, v \in Imms, shifted \in BOOLEAN : Add(d, s, v, shifted)
  \/ \E d \in Names, b \in Bases, slot \in Slots, bare \in BOOLEAN :
       (bare => slot = 0 /\ b \in Names) /\ Ldr(d, b, slot, bare)
  \/ \E written \in {{}} \cup {{d, b} : d, b \in Names} : LdrUnparsed(written)
  \/ \E d \in Names, writes \in BOOLEAN, also \in {{}} \cup {{n} : n \in Names} :
       Quiet /\ Otherwise(d, writes, also)
  \/ \E t \in {"plt", "known", "neither"}, curated \in BOOLEAN : Bl(t, curated)
  \/ \E r \in Names, curated \in BOOLEAN : Blr(r, curated)
  \/ Svc
  \/ Ret
  \/ \E r \in Names : Br(r)
  \/ \E d \in Names, writes \in BOOLEAN : Hop(d, writes)

NSpec == NInit /\ [][NNext]_nvars

-----------------------------------------------------------------------------
(* Properties                                                              *)

NTypeOK ==
  /\ imm \in [Names -> Nat \cup {Unknown}]
  /\ load \in [Names -> (Bases \X Nat) \cup {Unknown}]
  /\ env \in [Names -> Names \cup {Unknown}]
  /\ truth \in [Nums -> [k : {"imm", "word", "other"}, v : Nat, table : BOOLEAN]]
  /\ stale \subseteq Names \X Beliefs
  /\ tabled \subseteq Names
  /\ read \in Nat /\ clean \in BOOLEAN

\* What Tracker.feed believes of a register name is what the register holds,
\* unless an instruction the tracker does not follow has moved the register under
\* that name.  The exception is wide, and the docstring of the class ("Everything
\* it cannot follow stays 'unknown'") is not true of it: the belief stays, and is
\* wrong, after the second register of a pair, a load LOAD_RE does not match and
\* the base it writes back, the base of a store with write-back, an add with
\* lsl #12, a movk on a value never staged, a call, a write through the other
\* width of the name; env_chain is never cleared (TrackerNeverWrong in MCLinkage
\* has no exception and is refuted).
TrackedIsTrue ==
  \A n \in Names :
    /\ imm[n] # Unknown /\ <<n, "imm">> \notin stale => truth[NumOf[n]] = Value(imm[n])
    /\ load[n] # Unknown /\ <<n, "load">> \notin stale =>
         /\ truth[NumOf[n]].k = "word" /\ truth[NumOf[n]].v = load[n][2]
         /\ n \in tabled => truth[NumOf[n]].table
    /\ env[n] # Unknown /\ <<n, "env">> \notin stale => IsFirstWord(truth[NumOf[n]])

\* When "proven" (scan_native) can be trusted: a JNI slot is the one the blr goes
\* through if nothing has moved the register since its load, and its base still
\* held a first word then; the number of an svc is the one it is made with if
\* w8/x8 was staged, nothing has written it since and no staging of w6/x6 follows,
\* which the look-back would take for it.  Where one of these fails the script
\* publishes "proven" all the same, and the edge may be wrong (ProvenNeverWrong in
\* MCLinkage has no such condition and is refuted).
ProvenIsRight == edge.conf = "proven" /\ edge.sound => edge.right
=============================================================================
