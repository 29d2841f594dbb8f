----------------------------- MODULE Scan_proofs -----------------------------
(***************************************************************************)
(* The two scans of build_call_linkage.py.  NativeScan: the Tracker of     *)
(* registers and the look-backs of scan_native, for every window of any    *)
(* length and every naming of the registers.  DartScan: the marks of       *)
(* dart_edges, for every listing and every number of recent lines.         *)
(***************************************************************************)
EXTENDS NativeScan, DartScan, TLAPS, SequenceTheorems, WellFoundedInduction

-----------------------------------------------------------------------------
(* NativeScan                                                              *)

\* What the Tracker believes of one name.
TrackedOf(n) ==
  /\ imm[n] # Unknown /\ <<n, "imm">> \notin stale => truth[NumOf[n]] = Value(imm[n])
  /\ load[n] # Unknown /\ <<n, "load">> \notin stale =>
       /\ truth[NumOf[n]].k = "word" /\ truth[NumOf[n]].v = load[n][2]
       /\ n \in tabled => truth[NumOf[n]].table
  /\ env[n] # Unknown /\ <<n, "env">> \notin stale => IsFirstWord(truth[NumOf[n]])

Tracked == \A n \in Names : TrackedOf(n)

\* The maps are total, and the file holds values of three shapes.
Total ==
  /\ DOMAIN imm = Names /\ DOMAIN load = Names /\ DOMAIN env = Names
  /\ DOMAIN truth = Nums
  /\ \A r \in Nums : /\ truth[r] = [k |-> truth[r].k, v |-> truth[r].v, table |-> truth[r].table]
                     /\ truth[r].table \in BOOLEAN

TInv == Total /\ Tracked

\* A name the step neither settles nor teaches anything stays right: either its
\* register is as it was, or what is believed of it has gone stale.
LEMMA Untouched ==
  ASSUME NEW n \in Names, TrackedOf(n), NEW nums, NEW settled,
         stale' = Overwrites(nums, settled),
         \A x \in Beliefs : <<n, x>> \notin settled,
         \A r \in Nums \ nums : truth'[r] = truth[r],
         imm'[n] \in {imm[n], Unknown}, load'[n] \in {load[n], Unknown}, env'[n] = env[n],
         n \in tabled' => n \in tabled
  PROVE  TrackedOf(n)'
<1>1. NumOf[n] \in Nums
  BY DEF Nums
<1>2. CASE NumOf[n] \in nums
  <2>1. \A x \in Beliefs : <<n, x>> \in stale'
    BY <1>2 DEF Overwrites, NamesOf
  <2> QED
    BY <2>1 DEF Beliefs, TrackedOf
<1>3. CASE NumOf[n] \notin nums
  <2>1. truth'[NumOf[n]] = truth[NumOf[n]]
    BY <1>1, <1>3
  <2>2. \A x \in Beliefs : <<n, x>> \notin stale' => <<n, x>> \notin stale
    BY DEF Overwrites
  <2> QED
    BY <2>1, <2>2 DEF Beliefs, TrackedOf
<1> QED
  BY <1>2, <1>3

LEMMA TrackedStep ==
  ASSUME TInv, [NNext]_nvars
  PROVE  Tracked'
<1> USE DEF TInv, Total
<1>0. \A n \in Names : NumOf[n] \in Nums /\ TrackedOf(n)
  BY DEF Nums, Tracked
<1>1. ASSUME NEW op \in {"mov", "adrp"}, NEW d \in Names, NEW v \in Imms, Stage(op, d, v)
      PROVE  Tracked'
  <2>1. ASSUME NEW n \in Names \ {d} PROVE TrackedOf(n)'
    BY <1>0, <1>1, <2>1, Untouched DEF Stage
  <2>2. TrackedOf(d)'
    BY <1>0, <1>1 DEF Stage, TrackedOf, Overwrites, NamesOf, Beliefs
  <2> QED
    BY <2>1, <2>2 DEF Tracked
<1>2. ASSUME NEW d \in Names, NEW v \in Imms, NEW high \in BOOLEAN, Movk(d, v, high)
      PROVE  Tracked'
  <2>1. ASSUME NEW n \in Names \ {d} PROVE TrackedOf(n)'
    BY <1>0, <1>2, <2>1, Untouched DEF Movk
  <2>2. TrackedOf(d)'
    <3>1. <<d, "load">> \in stale' /\ <<d, "env">> \in stale'
      BY <1>2 DEF Movk, Overwrites, NamesOf, Beliefs
    <3>2. ASSUME <<d, "imm">> \notin stale' PROVE truth'[NumOf[d]] = Value(imm'[d])
      <4>1. imm[d] # Unknown /\ <<d, "imm">> \notin stale
        BY <1>2, <3>2 DEF Movk, Overwrites, NamesOf, Beliefs
      <4>2. truth[NumOf[d]] = Value(imm[d])
        BY <1>0, <4>1 DEF TrackedOf
      <4>3. truth[NumOf[d]].k = "imm" /\ truth[NumOf[d]].v = imm[d]
        BY <4>2 DEF Value
      <4> QED
        BY <1>0, <1>2, <4>1, <4>3 DEF Movk
    <3> QED
      BY <3>1, <3>2 DEF TrackedOf
  <2> QED
    BY <2>1, <2>2 DEF Tracked
<1>3. ASSUME NEW d \in Names, NEW s \in Names, NEW v \in Imms, NEW shifted \in BOOLEAN,
             Add(d, s, v, shifted)
      PROVE Tracked'
  <2>1. ASSUME NEW n \in Names \ {d} PROVE TrackedOf(n)'
    BY <1>0, <1>3, <2>1, Untouched DEF Add
  <2>2. TrackedOf(d)'
    <3>1. <<d, "load">> \in stale' /\ <<d, "env">> \in stale'
      BY <1>3 DEF Add, Overwrites, NamesOf, Beliefs
    <3>2. ASSUME <<d, "imm">> \notin stale' PROVE truth'[NumOf[d]] = Value(imm'[d])
      <4>1. <<s, "imm">> \notin stale /\ ~shifted
        BY <1>3, <3>2 DEF Add, Overwrites, NamesOf, Beliefs
      <4>2. truth[NumOf[s]] = Value(imm[s])
        BY <1>0, <1>3, <4>1 DEF Add, TrackedOf
      <4>3. truth[NumOf[s]].k = "imm" /\ truth[NumOf[s]].v = imm[s]
        BY <4>2 DEF Value
      <4> QED
        BY <1>0, <1>3, <4>1, <4>3 DEF Add
    <3> QED
      BY <3>1, <3>2 DEF TrackedOf
  <2> QED
    BY <2>1, <2>2 DEF Tracked
<1>4. ASSUME NEW d \in Names, NEW b \in Bases, NEW slot \in Slots, NEW bare \in BOOLEAN,
             bare => slot = 0 /\ b \in Names, Ldr(d, b, slot, bare)
      PROVE  Tracked'
  <2>1. ASSUME NEW n \in Names \ {d} PROVE TrackedOf(n)'
    <3>1. PICK settled \in SUBSET ({d} \X Beliefs) : stale' = Overwrites({NumOf[d]}, settled)
      BY <1>4 DEF Ldr, Beliefs
    <3>2. \A x \in Beliefs : <<n, x>> \notin settled
      BY <2>1, <3>1
    <3> QED
      BY <1>0, <1>4, <2>1, <3>1, <3>2, Untouched DEF Ldr
  <2>2. TrackedOf(d)'
    BY <1>0, <1>4 DEF Ldr, TrackedOf, Overwrites, NamesOf, Beliefs, Word, IsFirstWord
  <2> QED
    BY <2>1, <2>2 DEF Tracked
<1>5. ASSUME NEW written \in SUBSET Names, LdrUnparsed(written) PROVE Tracked'
  BY <1>0, <1>5, Untouched DEF LdrUnparsed, Tracked
<1>6. ASSUME NEW d \in Names, NEW writes \in BOOLEAN, NEW also \in SUBSET Names,
             Otherwise(d, writes, also)
      PROVE  Tracked'
  BY <1>0, <1>6, Untouched DEF Otherwise, Forget, Tracked
<1>7. ASSUME Calls, \A n \in Names : /\ imm'[n] \in {imm[n], Unknown}
                                     /\ load'[n] \in {load[n], Unknown}
      PROVE  Tracked'
  BY <1>0, <1>7, Untouched DEF Calls, Tracked
<1>8. ASSUME NEW t \in {"plt", "known", "neither"}, NEW curated \in BOOLEAN, Bl(t, curated)
      PROVE  Tracked'
  BY <1>7, <1>8 DEF Bl
<1>9. ASSUME NEW r \in Names, NEW curated \in BOOLEAN, Blr(r, curated) PROVE Tracked'
  BY <1>7, <1>9 DEF Blr, Forget
<1>10. CASE Svc
  BY <1>0, <1>10, Untouched DEF Svc, Tracked
<1>11. CASE Ret \/ UNCHANGED nvars
  BY <1>11 DEF Ret, nvars, Tracked, TrackedOf
<1>12. ASSUME NEW r \in Names, Br(r) PROVE Tracked'
  BY <1>6, <1>12 DEF Br
<1>13. ASSUME NEW d \in Names, NEW writes \in BOOLEAN, Hop(d, writes) PROVE Tracked'
  BY <1>6, <1>13 DEF Hop
<1> QED
  BY <1>1, <1>2, <1>3, <1>4, <1>5, <1>6, <1>8, <1>9, <1>10, <1>11, <1>12, <1>13 DEF NNext


\* The register file stays a total map of one shape.
LEMMA TotalStep ==
  ASSUME Total, [NNext]_nvars
  PROVE  Total'
<1> USE DEF Total, Value, Word, Opaque
<1>0. \A n \in Names : NumOf[n] \in Nums
  BY DEF Nums
<1>1. ASSUME NEW op \in {"mov", "adrp"}, NEW d \in Names, NEW v \in Imms, Stage(op, d, v)
      PROVE  Total'
  BY <1>0, <1>1 DEF Stage
<1>2. ASSUME NEW d \in Names, NEW v \in Imms, NEW high \in BOOLEAN, Movk(d, v, high)
      PROVE  Total'
  BY <1>0, <1>2 DEF Movk
<1>3. ASSUME NEW d \in Names, NEW s \in Names, NEW v \in Imms, NEW shifted \in BOOLEAN,
             Add(d, s, v, shifted)
      PROVE Total'
  BY <1>0, <1>3 DEF Add
<1>4. ASSUME NEW d \in Names, NEW b \in Bases, NEW slot \in Slots, NEW bare \in BOOLEAN,
             bare => slot = 0 /\ b \in Names, Ldr(d, b, slot, bare)
      PROVE  Total'
  BY <1>0, <1>4 DEF Ldr, IsFirstWord
<1>5. ASSUME NEW written \in SUBSET Names, LdrUnparsed(written) PROVE Total'
  BY <1>0, <1>5 DEF LdrUnparsed
<1>6. ASSUME NEW d \in Names, NEW writes \in BOOLEAN, NEW also \in SUBSET Names,
             Otherwise(d, writes, also)
      PROVE  Total'
  BY <1>6 DEF Otherwise, Forget
<1>7. ASSUME Calls, DOMAIN imm' = Names, DOMAIN load' = Names PROVE Total'
  BY <1>7 DEF Calls
<1>8. CASE Svc
  BY <1>8 DEF Svc
<1>9. CASE Ret \/ UNCHANGED nvars
  BY <1>9 DEF Ret, nvars
<1>10. ASSUME NEW t \in {"plt", "known", "neither"}, NEW curated \in BOOLEAN, Bl(t, curated)
       PROVE  Total'
  BY <1>7, <1>10 DEF Bl
<1>11. ASSUME NEW r \in Names, NEW curated \in BOOLEAN, Blr(r, curated) PROVE Total'
  BY <1>7, <1>11 DEF Blr, Forget
<1>12. ASSUME NEW r \in Names, Br(r) PROVE Total'
  BY <1>6, <1>12 DEF Br
<1>13. ASSUME NEW d \in Names, NEW writes \in BOOLEAN, Hop(d, writes) PROVE Total'
  BY <1>6, <1>13 DEF Hop
<1> QED
  BY <1>1, <1>2, <1>3, <1>4, <1>5, <1>6, <1>8, <1>9, <1>10, <1>11, <1>12, <1>13 DEF NNext

LEMMA TInvHolds == NSpec => []TInv
<1>1. NInit => TInv
  <2> SUFFICES ASSUME NInit PROVE TInv
    OBVIOUS
  <2>1. \A n \in Names : imm[n] = Unknown /\ load[n] = Unknown /\ env[n] = Unknown
    BY DEF NInit
  <2>2. Tracked
    BY <2>1 DEF Tracked, TrackedOf
  <2>3. \A r \in Nums : truth[r] = Opaque
    BY DEF NInit
  <2>4. Total
    BY <2>3 DEF NInit, Total, Opaque
  <2> QED
    BY <2>2, <2>4 DEF TInv
<1>2. TInv /\ [NNext]_nvars => TInv'
  BY TotalStep, TrackedStep DEF TInv
<1> QED
  BY <1>1, <1>2, PTL DEF NSpec

\* TrackedIsTrue for every window: what the Tracker believes wrongly is about a
\* register that one of the listed instructions has moved (Tracker.feed).
THEOREM TrackedIsTrueHolds == NSpec => []TrackedIsTrue
<1>1. TInv => TrackedIsTrue
  BY DEF TInv, Tracked, TrackedOf, TrackedIsTrue
<1> QED
  BY <1>1, TInvHolds, PTL

-----------------------------------------------------------------------------
(* ProvenIsRight: the nearest staging is the one w8/x8 still holds.        *)

Insn == [op : {"mov", "call", "svc", "other"}, num : Nat, v : Nat]

Staging(insn) == insn.op = "mov" /\ insn.num \in {6, 8}

\* While w8/x8 is clean, the nearest staging in the listing is what it holds.
CleanIsNearest ==
  clean => \A i \in DOMAIN recent :
             Staging(recent[i]) /\ (\A j \in 1..(i - 1) : ~Staging(recent[j]))
             => 8 \in Nums /\ truth[8] = Value(recent[i].v)

LEMMA OfTwo ==
  ASSUME NEW a \in Nat, NEW b \in Nat
  PROVE  /\ Min({a, b}) \in Nat /\ Min({a, b}) <= a
         /\ Max({a, b}) \in Nat
<1>1. \E x \in {a, b} : \A y \in {a, b} : x <= y
  <2>1. CASE a <= b
    BY <2>1
  <2>2. CASE b <= a
    BY <2>2
  <2> QED
    BY <2>1, <2>2
<1>2. \E x \in {a, b} : \A y \in {a, b} : x >= y
  <2>1. CASE a <= b
    BY <2>1
  <2>2. CASE b <= a
    BY <2>2
  <2> QED
    BY <2>1, <2>2
<1> QED
  BY <1>1, <1>2 DEF Min, Max

\* The listing is read backwards: what is read comes first.
LEMMA Prepended ==
  ASSUME recent \in Seq(Insn), NEW insn \in Insn, Reads(insn)
  PROVE  /\ recent' \in Seq(Insn)
         /\ \A i \in DOMAIN recent' :
              \/ i = 1 /\ recent'[1] = insn
              \/ i > 1 /\ i - 1 \in DOMAIN recent /\ recent'[i] = recent[i - 1]
<1> DEFINE whole == <<insn>> \o recent
           back == Max({SvcBack, StubBack})
           n == Min({Len(recent) + 1, back})
<1>1. back \in Nat
  BY NativeAssumption, OfTwo
<1>2. n \in Nat /\ n <= Len(recent) + 1
  <2>1. Len(recent) + 1 \in Nat
    OBVIOUS
  <2> HIDE DEF back
  <2> QED
    BY <1>1, <2>1, OfTwo
<1>3. /\ whole \in Seq(Insn) /\ Len(whole) = Len(recent) + 1
      /\ \A i \in 1..Len(whole) : whole[i] = IF i = 1 THEN insn ELSE recent[i - 1]
  OBVIOUS
<1>4. recent' = SubSeq(whole, 1, n)
  BY DEF Reads
<1> HIDE DEF whole, n
<1>5. recent' \in Seq(Insn) /\ DOMAIN recent' = 1..n /\ \A i \in 1..n : recent'[i] = whole[i]
  <2>1. \A i \in 1..n : whole[i] \in Insn
    BY <1>2, <1>3
  <2>2. /\ SubSeq(whole, 1, n) \in Seq(Insn)
        /\ Len(SubSeq(whole, 1, n)) = IF 1 <= n THEN n - 1 + 1 ELSE 0
        /\ \A i \in 1..(n - 1 + 1) : SubSeq(whole, 1, n)[i] = whole[1 + i - 1]
    BY <1>2, <2>1, SubSeqProperties
  <2>3. Len(recent') = n /\ n - 1 + 1 = n /\ \A i \in 1..n : 1 + i - 1 = i
    BY <1>2, <1>4, <2>2
  <2> QED
    BY <1>4, <2>2, <2>3
<1>6. ASSUME NEW i \in 1..n, i # 1 PROVE i > 1 /\ i - 1 \in DOMAIN recent
  BY <1>2, <1>6
<1> QED
  BY <1>2, <1>3, <1>5, <1>6

\* An instruction that stages nothing and leaves w8/x8 alone changes nothing.
LEMMA NoStaging ==
  ASSUME recent \in Seq(Insn), CleanIsNearest, NEW insn \in Insn, Reads(insn), ~Staging(insn),
         clean' => clean /\ (8 \in Nums => truth'[8] = truth[8])
  PROVE  recent' \in Seq(Insn) /\ CleanIsNearest'
<1>1. /\ recent' \in Seq(Insn)
      /\ \A i \in DOMAIN recent' :
           \/ i = 1 /\ recent'[1] = insn
           \/ i > 1 /\ i - 1 \in DOMAIN recent /\ recent'[i] = recent[i - 1]
  BY Prepended
<1>2. ASSUME clean', NEW i \in DOMAIN recent', Staging(recent'[i]),
             \A j \in 1..(i - 1) : ~Staging(recent'[j])
      PROVE  8 \in Nums /\ truth'[8] = Value(recent'[i].v)
  <2>1. i > 1 /\ i - 1 \in DOMAIN recent /\ recent'[i] = recent[i - 1]
    BY <1>1, <1>2
  <2>2. DOMAIN recent' = 1..Len(recent') /\ DOMAIN recent = 1..Len(recent)
    BY <1>1
  <2>3. ASSUME NEW j \in 1..((i - 1) - 1) PROVE ~Staging(recent[j])
    <3>1. j + 1 \in DOMAIN recent' /\ j + 1 > 1 /\ j + 1 \in 1..(i - 1) /\ (j + 1) - 1 = j
      BY <1>2, <2>2
    <3>2. recent'[j + 1] = recent[j]
      BY <1>1, <3>1
    <3> QED
      BY <1>2, <3>1, <3>2
  <2> QED
    BY <1>2, <2>1, <2>3 DEF CleanIsNearest
<1> QED
  BY <1>1, <1>2 DEF CleanIsNearest

\* The nearest of the instructions a look-back accepts.
LEMMA LeastExists ==
  ASSUME NEW S \in SUBSET Nat, S # {}
  PROVE  Min(S) \in S /\ \A i \in S : Min(S) <= i
<1>1. PICK m \in S : \A i \in S : <<i, m>> \notin OpToRel(<, Nat)
  BY WFMin, NatLessThanWellFounded, Zenon
<1>2. \A i \in S : ~(i < m)
  BY <1>1, Zenon DEF OpToRel
<1>3. \A i \in S : m <= i
  BY <1>2
<1> QED
  BY <1>3 DEF Min

\* A staging in w8/x8 is the nearest from then on.
LEMMA Staged ==
  ASSUME recent \in Seq(Insn), NEW insn \in Insn, Reads(insn), Staging(insn),
         clean' => 8 \in Nums /\ insn.num = 8 /\ truth'[8] = Value(insn.v)
  PROVE  recent' \in Seq(Insn) /\ CleanIsNearest'
<1>1. /\ recent' \in Seq(Insn)
      /\ \A i \in DOMAIN recent' :
           \/ i = 1 /\ recent'[1] = insn
           \/ i > 1 /\ i - 1 \in DOMAIN recent /\ recent'[i] = recent[i - 1]
  BY Prepended
<1>2. ASSUME NEW i \in DOMAIN recent', \A j \in 1..(i - 1) : ~Staging(recent'[j])
      PROVE  recent'[i] = insn
  <2>1. DOMAIN recent' = 1..Len(recent') /\ i \in Nat
    BY <1>1
  <2>2. CASE i > 1
    <3>1. 1 \in DOMAIN recent' /\ 1 \in 1..(i - 1)
      BY <2>1, <2>2
    <3>2. recent'[1] = insn
      BY <1>1, <3>1
    <3> QED
      BY <1>2, <3>1, <3>2
  <2> QED
    BY <1>1, <2>1, <2>2
<1> QED
  BY <1>1, <1>2 DEF CleanIsNearest

LookBack == recent \in Seq(Insn) /\ CleanIsNearest

LEMMA LookBackStep ==
  ASSUME Total, LookBack, [NNext]_nvars
  PROVE  LookBack'
<1> USE DEF LookBack, Total
<1>0. /\ \A n \in Names : NumOf[n] \in Nat /\ NumOf[n] \in Nums
      /\ Imms \subseteq Nat
  BY NativeAssumption DEF Nums
<1>1. ASSUME NEW op \in {"other", "call", "svc"}, Reads(Plain(op)),
             clean' => clean /\ (8 \in Nums => truth'[8] = truth[8])
      PROVE  LookBack'
  <2>1. Plain(op) \in Insn /\ ~Staging(Plain(op))
    BY DEF Plain, Insn, Staging
  <2> QED
    BY <1>1, <2>1, NoStaging
<1>2. ASSUME NEW op \in {"mov", "adrp"}, NEW d \in Names, NEW v \in Imms, Stage(op, d, v)
      PROVE  LookBack'
  <2>1. CASE op = "mov"
    <3> DEFINE insn == [op |-> "mov", num |-> NumOf[d], v |-> v]
    <3>1. insn \in Insn /\ Reads(insn) /\ insn.num = NumOf[d] /\ insn.v = v
      BY <1>0, <1>2, <2>1 DEF Insn, Stage
    <3>2. Staging(insn) <=> NumOf[d] \in {6, 8}
      BY DEF Staging
    <3> HIDE DEF insn
    <3>3. CASE NumOf[d] = 8
      <4>1. truth'[8] = Value(v) /\ 8 \in Nums
        BY <1>0, <1>2, <3>3 DEF Stage
      <4> QED
        BY <3>1, <3>2, <3>3, <4>1, Staged
    <3>4. CASE NumOf[d] = 6
      <4>1. ~clean'
        <5>1. clean' = (clean /\ NumOf[d] \notin {6, 8})
          BY <1>2, <2>1, <3>4 DEF Stage
        <5> QED
          BY <3>4, <5>1
      <4> QED
        BY <3>1, <3>2, <3>4, <4>1, Staged
    <3>5. CASE NumOf[d] \notin {6, 8}
      <4>1. clean' => clean /\ (8 \in Nums => truth'[8] = truth[8])
        BY <1>2, <2>1, <3>5 DEF Stage
      <4> QED
        BY <3>1, <3>2, <3>5, <4>1, NoStaging
    <3> QED
      BY <3>3, <3>4, <3>5
  <2>2. CASE op = "adrp"
    <3>1. Reads(Plain("other"))
      BY <1>2, <2>2 DEF Stage
    <3>2. clean' => clean /\ (8 \in Nums => truth'[8] = truth[8])
      BY <1>2, <2>2 DEF Stage
    <3> QED
      BY <1>1, <3>1, <3>2
  <2> QED
    BY <2>1, <2>2
<1>3. ASSUME NEW d \in Names, NEW v \in Imms, NEW high \in BOOLEAN, Movk(d, v, high)
      PROVE  LookBack'
  BY <1>1, <1>3 DEF Movk, KeepsClean
<1>4. ASSUME NEW d \in Names, NEW s \in Names, NEW v \in Imms, NEW shifted \in BOOLEAN,
             Add(d, s, v, shifted)
      PROVE LookBack'
  BY <1>1, <1>4 DEF Add, KeepsClean
<1>5. ASSUME NEW d \in Names, NEW b \in Bases, NEW slot \in Slots, NEW bare \in BOOLEAN,
             bare => slot = 0 /\ b \in Names, Ldr(d, b, slot, bare)
      PROVE  LookBack'
  BY <1>1, <1>5 DEF Ldr, KeepsClean
<1>6. ASSUME NEW written \in SUBSET Names, LdrUnparsed(written) PROVE LookBack'
  BY <1>1, <1>6 DEF LdrUnparsed, KeepsClean
<1>7. ASSUME NEW d \in Names, NEW writes \in BOOLEAN, NEW also \in SUBSET Names,
             Otherwise(d, writes, also)
      PROVE  LookBack'
  BY <1>1, <1>7 DEF Otherwise, KeepsClean
<1>8. ASSUME Reads(Plain("call")), Calls PROVE LookBack'
  <2>1. clean' => clean /\ (8 \in Nums => truth'[8] = truth[8])
    BY <1>8 DEF Calls, KeepsClean
  <2> QED
    BY <1>1, <1>8, <2>1
<1>9. ASSUME NEW t \in {"plt", "known", "neither"}, NEW curated \in BOOLEAN, Bl(t, curated)
      PROVE  LookBack'
  BY <1>8, <1>9 DEF Bl
<1>10. ASSUME NEW r \in Names, NEW curated \in BOOLEAN, Blr(r, curated) PROVE LookBack'
  BY <1>8, <1>10 DEF Blr
<1>11. CASE Svc
  BY <1>1, <1>11 DEF Svc
<1>12. CASE Ret
  BY <1>1, <1>12 DEF Ret
<1>13. CASE UNCHANGED nvars
  BY <1>13 DEF nvars, CleanIsNearest
<1>14. ASSUME NEW r \in Names, Br(r) PROVE LookBack'
  BY <1>7, <1>14 DEF Br
<1>15. ASSUME NEW d \in Names, NEW writes \in BOOLEAN, Hop(d, writes) PROVE LookBack'
  BY <1>7, <1>15 DEF Hop
<1> QED
  BY <1>2, <1>3, <1>4, <1>5, <1>6, <1>7, <1>9, <1>10, <1>11, <1>12, <1>13, <1>14, <1>15 DEF NNext

\* syscall_number_before finds the number the svc is made with, when nothing but a
\* staging has written w8/x8 since.
LEMMA NumberIsRight ==
  ASSUME LookBack, clean, SyscallNumber # Unknown
  PROVE  8 \in Nums /\ truth[8] = Value(SyscallNumber)
<1> DEFINE hits == {i \in Within(SvcBack) : /\ recent[i].op = "mov"
                                            /\ recent[i].num \in {6, 8}
                                            /\ NoneBetween(i, {"svc"})}
           i == Min(hits)
<1>1. hits # {} /\ SyscallNumber = recent[i].v
  BY DEF SyscallNumber, Nearest
<1>2. hits \in SUBSET Nat /\ DOMAIN recent = 1..Len(recent) /\ SvcBack \in Nat
  BY NativeAssumption DEF Within, LookBack
<1>3. i \in hits /\ \A k \in hits : i <= k
  <2> HIDE DEF hits
  <2> QED
    BY <1>1, <1>2, LeastExists
<1>4. i \in DOMAIN recent /\ i <= SvcBack /\ Staging(recent[i]) /\ NoneBetween(i, {"svc"})
  BY <1>3 DEF Within, Staging
<1> HIDE DEF i
<1>5. ASSUME NEW j \in 1..(i - 1) PROVE ~Staging(recent[j])
  <2>1. j \in DOMAIN recent /\ j < i /\ j \in Nat /\ i \in Nat
    BY <1>2, <1>4
  <2>2. j \in Within(SvcBack)
    BY <1>2, <1>4, <2>1 DEF Within
  <2>3. NoneBetween(j, {"svc"})
    BY <1>2, <1>4, <2>1 DEF NoneBetween
  <2>4. j \notin hits
    BY <1>3, <2>1
  <2> QED
    BY <2>2, <2>3, <2>4 DEF Staging
<1> QED
  BY <1>1, <1>4, <1>5 DEF LookBack, CleanIsNearest

LEMMA EdgeStep ==
  ASSUME TInv, LookBack, [NNext]_nvars, ProvenIsRight
  PROVE  ProvenIsRight'
<1> USE DEF ProvenIsRight, Quiet, NoEdge, Emit
<1>1. ASSUME Quiet PROVE ProvenIsRight'
  BY <1>1
<1>2. ASSUME NEW t \in {"plt", "known", "neither"}, NEW curated \in BOOLEAN, Bl(t, curated)
      PROVE  ProvenIsRight'
  BY <1>2 DEF Bl
<1>3. ASSUME NEW r \in Names, NEW curated \in BOOLEAN, Blr(r, curated) PROVE ProvenIsRight'
  <2>1. CASE ThroughTable(r) /\ <<r, "load">> \notin stale /\ r \in tabled
    <3>1. load[r] # Unknown /\ NumOf[r] \in Nums
      BY <2>1 DEF ThroughTable, Nums
    <3>2. /\ truth[NumOf[r]].k = "word" /\ truth[NumOf[r]].v = load[r][2]
          /\ truth[NumOf[r]].table
      BY <2>1, <3>1 DEF TInv, Tracked, TrackedOf
    <3>3. truth[NumOf[r]].table = TRUE
      BY <3>1, <3>2 DEF TInv, Total
    <3>4. truth[NumOf[r]] = Word(load[r][2], TRUE)
      BY <3>1, <3>2, <3>3 DEF TInv, Total, Word
    <3> QED
      BY <1>3, <2>1, <3>4 DEF Blr, ThroughObject
  <2>2. CASE ThroughTable(r) /\ ~(<<r, "load">> \notin stale /\ r \in tabled)
    <3>1. edge'.sound = (<<r, "load">> \notin stale /\ r \in tabled)
      BY <1>3, <2>2 DEF Blr, ThroughObject
    <3> QED
      BY <2>2, <3>1
  <2>3. CASE ~ThroughTable(r)
    <3>1. CASE ThroughObject(r)
      <4> HIDE DEF Emit
      <4>1. Emit("calls_vtable0", "probable", <<r, "load">> \notin stale,
                 IsFirstWord(truth[NumOf[r]]))
        BY <1>3, <2>3, <3>1 DEF Blr
      <4>2. edge'.conf = "probable"
        BY <4>1 DEF Emit
      <4> QED
        BY <4>2
    <3>2. CASE ~ThroughObject(r) /\ StubMarked
      <4> HIDE DEF Emit
      <4>1. Emit("calls_syscall_stub", "strong", FALSE, 6 \in Nums /\ truth[6] = Value(StubMark))
        BY <1>3, <2>3, <3>2 DEF Blr
      <4>2. edge'.conf = "strong"
        BY <4>1 DEF Emit
      <4> QED
        BY <4>2
    <3>3. CASE ~ThroughObject(r) /\ ~StubMarked
      <4>1. edge' = [kind |-> "calls_direct", conf |-> IF curated THEN "proven" ELSE "candidate",
                     sound |-> TRUE, right |-> TRUE]
        BY <1>3, <2>3, <3>3 DEF Blr
      <4> QED
        BY <4>1
    <3> QED
      BY <3>1, <3>2, <3>3
  <2> QED
    BY <2>1, <2>2, <2>3
<1>4. CASE Svc
  <2>1. CASE SyscallNumber \in Syscalls /\ clean
    <3>1. SyscallNumber # Unknown
      BY <2>1, NativeAssumption
    <3> QED
      BY <1>4, <3>1, <2>1, NumberIsRight DEF Svc
  <2>2. CASE ~(SyscallNumber \in Syscalls /\ clean)
    BY <1>4, <2>2 DEF Svc
  <2> QED
    BY <2>1, <2>2
<1>5. ASSUME NEW r \in Names, Br(r) PROVE ProvenIsRight'
  BY <1>5 DEF Br
<1>6. ASSUME NEW d \in Names, NEW writes \in BOOLEAN, Hop(d, writes) PROVE ProvenIsRight'
  BY <1>6 DEF Hop
<1>7. CASE Ret \/ UNCHANGED nvars
  BY <1>7 DEF Ret, nvars
<1>8. CASE \/ \E d \in Names, v \in Imms, op \in {"mov", "adrp"} : Stage(op, d, v)
           \/ \E d \in Names, v \in Imms, high \in BOOLEAN : Movk(d, v, high)
           \/ \E d, s \in Names, v \in Imms, shifted \in BOOLEAN : Add(d, s, v, shifted)
           \/ \E d \in Names, b \in Bases, slot \in Slots, bare \in BOOLEAN : Ldr(d, b, slot, bare)
           \/ \E written : LdrUnparsed(written)
  BY <1>1, <1>8 DEF Stage, Movk, Add, Ldr, LdrUnparsed
<1> QED
  BY <1>1, <1>2, <1>3, <1>4, <1>5, <1>6, <1>7, <1>8 DEF NNext

\* ProvenIsRight for every window: the conditions under which a JNI slot or a syscall
\* number called proven is the one the instruction uses (scan_native,
\* syscall_number_before).
THEOREM ProvenIsRightHolds == NSpec => []ProvenIsRight
<1>1. NInit => LookBack /\ ProvenIsRight
  BY DEF NInit, LookBack, CleanIsNearest, ProvenIsRight, NoEdge
<1>2. TInv /\ LookBack /\ ProvenIsRight /\ [NNext]_nvars => (LookBack /\ ProvenIsRight)'
  BY LookBackStep, EdgeStep DEF TInv
<1> QED
  BY <1>1, <1>2, TInvHolds, PTL DEF NSpec

-----------------------------------------------------------------------------
(* Types                                                                   *)

Contents == [k : {"imm", "word", "other"}, v : Nat, table : BOOLEAN]

LEMMA MergeIsNat ==
  ASSUME NEW old \in Nat, NEW v \in Nat, NEW high \in BOOLEAN
  PROVE  Merge(old, v, high) \in Nat
<1>1. Half \in Nat /\ Half > 0
  BY NativeAssumption
<1>2. old % Half \in Nat /\ old \div Half \in Nat
  BY <1>1
<1>3. \A a, b \in Nat : a * b \in Nat
  OBVIOUS
<1>4. v * Half \in Nat /\ (old \div Half) * Half \in Nat
  BY <1>1, <1>2, <1>3
<1> QED
  BY <1>2, <1>4 DEF Merge

LEMMA ContentsOf ==
  /\ \A v \in Nat : Value(v) \in Contents
  /\ \A v \in Nat, t \in BOOLEAN : Word(v, t) \in Contents
  /\ Opaque \in Contents
  BY DEF Value, Word, Opaque, Contents

\* What an instruction settles or overwrites are facts about names.
LEMMA OverwritesFacts ==
  ASSUME NTypeOK, NEW nums, NEW settled
  PROVE  Overwrites(nums, settled) \subseteq Names \X Beliefs
  BY DEF NTypeOK, Overwrites, NamesOf

LEMMA TypeStep ==
  ASSUME NTypeOK, [NNext]_nvars
  PROVE  NTypeOK'
<1> USE DEF Contents
<1>0. /\ \A n \in Names : NumOf[n] \in Nums
      /\ Imms \subseteq Nat /\ Slots \subseteq Nat
  BY NativeAssumption DEF Nums
<1>. DEFINE Rest == /\ stale' \subseteq Names \X Beliefs /\ tabled' \subseteq Names
                    /\ read' \in Nat /\ clean' \in BOOLEAN
<1>1. ASSUME NEW op \in {"mov", "adrp"}, NEW d \in Names, NEW v \in Imms, Stage(op, d, v)
      PROVE  NTypeOK'
  <2>1. v \in Nat /\ Value(v) \in Contents
    BY <1>0, ContentsOf
  <2>2. Rest
    <3>1. stale' \subseteq Names \X Beliefs
      BY <1>1, OverwritesFacts DEF Stage
    <3>2. tabled' \subseteq Names /\ read' \in Nat
      BY <1>1 DEF Stage, Reads, NTypeOK
    <3>3. clean' \in BOOLEAN
      BY <1>1 DEF Stage, NTypeOK
    <3> QED
      BY <3>1, <3>2, <3>3
  <2> QED
    BY <1>0, <1>1, <2>1, <2>2 DEF Stage, NTypeOK
<1>2. ASSUME NEW d \in Names, NEW v \in Imms, NEW high \in BOOLEAN, Movk(d, v, high)
      PROVE  NTypeOK'
  <2>1. v \in Nat /\ imm[d] \in Nat \cup {Unknown} /\ truth[NumOf[d]] \in Contents
    BY <1>0 DEF NTypeOK
  <2>2. Merge(IF imm[d] = Unknown THEN 0 ELSE imm[d], v, high) \in Nat
    BY <2>1, MergeIsNat
  <2>3. Value(Merge(truth[NumOf[d]].v, v, high)) \in Contents /\ Opaque \in Contents
    BY <2>1, MergeIsNat, ContentsOf
  <2>4. Rest
    BY <1>2, OverwritesFacts DEF Movk, Reads, KeepsClean, NTypeOK
  <2> QED
    BY <1>0, <1>2, <2>2, <2>3, <2>4 DEF Movk, NTypeOK
<1>3. ASSUME NEW d \in Names, NEW s \in Names, NEW v \in Imms, NEW shifted \in BOOLEAN,
             Add(d, s, v, shifted)
      PROVE NTypeOK'
  <2>1. v \in Nat /\ imm[s] \in Nat /\ truth[NumOf[s]] \in Contents
    BY <1>0, <1>3 DEF NTypeOK, Add
  <2>2. v * Page \in Nat
    <3>1. Page \in Nat /\ \A a, b \in Nat : a * b \in Nat
      BY NativeAssumption
    <3> QED
      BY <2>1, <3>1
  <2>4. /\ imm[s] + v \in Nat /\ Opaque \in Contents
        /\ Value(truth[NumOf[s]].v + (IF shifted THEN v * Page ELSE v)) \in Contents
    BY <2>1, <2>2, ContentsOf
  <2>3. Rest
    BY <1>3, OverwritesFacts DEF Add, Reads, KeepsClean, NTypeOK
  <2> QED
    BY <1>0, <1>3, <2>3, <2>4 DEF Add, NTypeOK
<1>4. ASSUME NEW d \in Names, NEW b \in Bases, NEW slot \in Slots, NEW bare \in BOOLEAN,
             bare => slot = 0 /\ b \in Names, Ldr(d, b, slot, bare)
      PROVE  NTypeOK'
  <2>1. slot \in Nat /\ <<b, slot>> \in Bases \X Nat
    BY <1>0
  <2>2. Word(slot, b \in Names /\ IsFirstWord(truth[NumOf[b]])) \in Contents
    BY <2>1, ContentsOf DEF IsFirstWord
  <2>3. Rest
    BY <1>4, OverwritesFacts DEF Ldr, Reads, KeepsClean, NTypeOK
  <2> QED
    BY <1>0, <1>4, <2>1, <2>2, <2>3 DEF Ldr, NTypeOK
<1>5. ASSUME NEW written \in SUBSET Names, LdrUnparsed(written) PROVE NTypeOK'
  <2>1. Rest
    BY <1>5, OverwritesFacts DEF LdrUnparsed, Reads, KeepsClean, NTypeOK
  <2> QED
    BY <1>0, <1>5, <2>1, ContentsOf DEF LdrUnparsed, NTypeOK
<1>6. ASSUME NEW d \in Names, NEW writes \in BOOLEAN, NEW also \in SUBSET Names,
             Otherwise(d, writes, also)
      PROVE  NTypeOK'
  <2>1. Rest
    BY <1>6, OverwritesFacts DEF Otherwise, Reads, KeepsClean, NTypeOK
  <2>2. truth' \in [Nums -> Contents]
    BY <1>6, ContentsOf DEF Otherwise, NTypeOK
  <2> QED
    BY <1>6, <2>1, <2>2 DEF Otherwise, Forget, NTypeOK
<1>7. ASSUME Calls, read' \in Nat, imm' \in [Names -> Nat \cup {Unknown}],
             load' \in [Names -> (Bases \X Nat) \cup {Unknown}]
      PROVE  NTypeOK'
  <2>1. Rest
    BY <1>7, OverwritesFacts DEF Calls, KeepsClean, NTypeOK
  <2>2. truth' \in [Nums -> Contents]
    BY <1>7, ContentsOf DEF Calls, NTypeOK
  <2> QED
    BY <1>7, <2>1, <2>2 DEF Calls, NTypeOK
<1>8. CASE Svc
  <2>1. Rest
    BY <1>8, OverwritesFacts DEF Svc, Reads, NTypeOK
  <2>2. truth' \in [Nums -> Contents]
    BY <1>8, ContentsOf DEF Svc, NTypeOK
  <2> QED
    BY <1>8, <2>1, <2>2 DEF Svc, NTypeOK
<1>9. CASE Ret \/ UNCHANGED nvars
  BY <1>9 DEF Ret, Reads, nvars, NTypeOK
<1>10. ASSUME NEW t \in {"plt", "known", "neither"}, NEW curated \in BOOLEAN, Bl(t, curated)
       PROVE  NTypeOK'
  BY <1>7, <1>10 DEF Bl, Reads, NTypeOK
<1>11. ASSUME NEW r \in Names, NEW curated \in BOOLEAN, Blr(r, curated) PROVE NTypeOK'
  BY <1>7, <1>11 DEF Blr, Reads, Forget, NTypeOK
<1>12. ASSUME NEW r \in Names, Br(r) PROVE NTypeOK'
  BY <1>6, <1>12 DEF Br
<1>13. ASSUME NEW d \in Names, NEW writes \in BOOLEAN, Hop(d, writes) PROVE NTypeOK'
  BY <1>6, <1>13 DEF Hop
<1> QED
  BY <1>1, <1>2, <1>3, <1>4, <1>5, <1>6, <1>8, <1>9, <1>10, <1>11, <1>12, <1>13 DEF NNext

\* The Tracker holds numbers, loads through a register or the stack, and bases
\* that are registers, whatever the window (Tracker).
THEOREM TrackerTyped == NSpec => []NTypeOK
<1>1. NInit => NTypeOK
  <2> SUFFICES ASSUME NInit PROVE NTypeOK
    OBVIOUS
  <2>1. truth \in [Nums -> Contents]
    BY ContentsOf DEF NInit
  <2>2. clean \in BOOLEAN /\ read \in Nat /\ stale = {} /\ tabled = {}
    BY DEF NInit
  <2> QED
    BY <2>1, <2>2 DEF NInit, NTypeOK, Contents
<1>2. NTypeOK /\ [NNext]_nvars => NTypeOK'
  BY TypeStep
<1> QED
  BY <1>1, <1>2, PTL DEF NSpec

-----------------------------------------------------------------------------
(* DartScan                                                                *)

LineKinds == {"ir", "branch", "mark", "pool", "vmTag", "field", "plain", "blr"}

\* A mark that is set was set after the last header and the last blr.
MarksAreFresh == \A m \in Marks : pend[m] > 0 => pend[m] > since

\* Every IR call a file still waits for is one the counter has.
CallsCounted == irCalls <= drift.ir

DInv == DTypeOK /\ tail \in Seq([kind : LineKinds, reg : Regs \cup {"-"}, at : Nat])
        /\ MarksAreFresh /\ CallsCounted /\ NoBorrowedMark

\* What reading a line does to the recent ones.
LEMMA LineRead ==
  ASSUME DInv, NEW kind \in LineKinds, NEW reg \in Regs \cup {"-"}, ReadsLine(kind, reg)
  PROVE  /\ line' = line + 1
         /\ tail' \in Seq([kind : LineKinds, reg : Regs \cup {"-"}, at : Nat])
         /\ Len(tail') <= Recent
<1> DEFINE E == [kind : LineKinds, reg : Regs \cup {"-"}, at : Nat]
           r == Append(tail, [kind |-> kind, reg |-> reg, at |-> line + 1])
<1>1. line \in Nat /\ tail \in Seq(E) /\ Len(tail) <= Recent /\ Recent \in Nat \ {0}
  BY DartAssumption DEF DInv, DTypeOK
<1>2. [kind |-> kind, reg |-> reg, at |-> line + 1] \in E
  BY <1>1
<1>3. r \in Seq(E) /\ Len(r) = Len(tail) + 1
  BY <1>1, <1>2
<1>4. tail' = IF Len(r) > Recent THEN Tail(r) ELSE r
  BY DEF ReadsLine
<1>5. CASE Len(r) > Recent
  <2>1. r # <<>>
    BY <1>1, <1>3
  <2>2. Tail(r) \in Seq(E) /\ Len(Tail(r)) = Len(r) - 1
    BY <1>3, <2>1
  <2> QED
    BY <1>1, <1>3, <1>4, <1>5, <2>2 DEF ReadsLine
<1>6. CASE ~(Len(r) > Recent)
  BY <1>1, <1>3, <1>4, <1>6 DEF ReadsLine
<1> QED
  BY <1>5, <1>6

\* Whatever an edge relies on, a blr's relies on a mark that is set.
LEMMA BlrMark ==
  ASSUME DInv, NEW reg \in Regs
  PROVE  /\ BlrEdge(reg).at = 0 \/ \E m \in Marks : pend[m] > 0 /\ BlrEdge(reg).at = pend[m]
         /\ BlrEdge(reg).since = since
<1> USE DEF BlrEdge, ByMark, Set
<1>1. CASE Set("unlinked")
  BY <1>1 DEF Marks
<1>2. CASE ~Set("unlinked") /\ Set("gdt")
  BY <1>2 DEF Marks
<1>3. CASE ~Set("unlinked") /\ ~Set("gdt") /\ Set("gdtLoad")
  BY <1>3 DEF Marks
<1>4. CASE ~Set("unlinked") /\ ~Set("gdt") /\ ~Set("gdtLoad") /\ Set("closure")
  BY <1>4 DEF Marks
<1>5. CASE ~Set("unlinked") /\ ~Set("gdt") /\ ~Set("gdtLoad") /\ ~Set("closure")
  <2>1. BlrEdge(reg) = IndirectEdge(reg)
    BY <1>5
  <2>2. IndirectEdge(reg).at = 0 /\ IndirectEdge(reg).since = since
    BY DEF IndirectEdge
  <2> QED
    BY <2>1, <2>2
<1> QED
  BY <1>1, <1>2, <1>3, <1>4, <1>5

Counts(ir, d) ==
  ir \in Nat /\ d \in [{"ir", "pool", "names"} -> Nat] /\ ir <= d.ir

MarksSince(p, from) ==
  /\ p \in [Marks -> 0..(line + 1)] /\ from \in 0..(line + 1)
  /\ \A m \in Marks : p[m] > 0 => p[m] > from

\* A line that is read: what it leaves behind must be typed as of the next line.
LEMMA NextLine ==
  ASSUME DInv, \E kind \in LineKinds, reg \in Regs \cup {"-"} : ReadsLine(kind, reg),
         cur' \in BOOLEAN, MarksSince(pend', since'), Counts(irCalls', drift'), NoBorrowedMark'
  PROVE  DInv'
<1>1. /\ line' = line + 1 /\ line \in Nat
      /\ tail' \in Seq([kind : LineKinds, reg : Regs \cup {"-"}, at : Nat])
      /\ Len(tail') <= Recent
  BY LineRead DEF DInv, DTypeOK
<1>2. line' \in Nat /\ since' \in 0..line' /\ pend' \in [Marks -> 0..line'] /\ MarksAreFresh'
  BY <1>1 DEF MarksSince, MarksAreFresh
<1>3. irCalls' \in Nat /\ drift' \in [{"ir", "pool", "names"} -> Nat] /\ CallsCounted'
  BY DEF Counts, CallsCounted
<1> QED
  BY <1>1, <1>2, <1>3 DEF DInv, DTypeOK

\* A new function and a new file begin without marks and without recent lines.
LEMMA Fresh ==
  ASSUME DInv, line' \in {line, line + 1}, cur' \in BOOLEAN, pend' = NoMarks, tail' = <<>>,
         irCalls' \in {0, irCalls}, UNCHANGED drift, since' = line', Silent
  PROVE  DInv'
<1>1. line' \in Nat /\ since' \in 0..line' /\ line \in Nat
  BY DEF DInv, DTypeOK
<1>2. pend' \in [Marks -> 0..line'] /\ MarksAreFresh'
  BY <1>1 DEF NoMarks, MarksAreFresh
<1>3. /\ tail' \in Seq([kind : LineKinds, reg : Regs \cup {"-"}, at : Nat])
      /\ Len(tail') <= Recent
  BY DartAssumption
<1>4. drift \in [{"ir", "pool", "names"} -> Nat] /\ irCalls \in Nat /\ irCalls <= drift.ir
  BY DEF DInv, DTypeOK, CallsCounted
<1>5. drift.ir \in Nat
  BY <1>4
<1>6. irCalls' \in Nat /\ CallsCounted'
  BY <1>4, <1>5 DEF CallsCounted
<1>7. NoBorrowedMark'
  BY DEF NoBorrowedMark, Silent, NoOut
<1> QED
  BY <1>1, <1>2, <1>3, <1>4, <1>6, <1>7 DEF DInv, DTypeOK

LEMMA DInvHolds == DSpec => []DInv
<1>1. DInit => DInv
  <2> SUFFICES ASSUME DInit PROVE DInv
    OBVIOUS
  <2>1. pend \in [Marks -> 0..line] /\ MarksAreFresh /\ line = 0 /\ since = 0
    BY DEF DInit, NoMarks, MarksAreFresh
  <2>2. drift \in [{"ir", "pool", "names"} -> Nat] /\ irCalls = 0 /\ drift.ir = 0
    BY DEF DInit, NoDrift
  <2>3. /\ tail \in Seq([kind : LineKinds, reg : Regs \cup {"-"}, at : Nat])
        /\ Len(tail) <= Recent
    BY DartAssumption DEF DInit
  <2>4. NoBorrowedMark
    BY DEF DInit, NoOut, NoBorrowedMark
  <2>5. cur \in BOOLEAN
    BY DEF DInit
  <2> QED
    BY <2>1, <2>2, <2>3, <2>4, <2>5 DEF DInv, DTypeOK, CallsCounted
<1>2. DInv /\ [DNext]_dvars => DInv'
  <2> SUFFICES ASSUME DInv, [DNext]_dvars PROVE DInv'
    OBVIOUS
  <2>1. /\ Counts(irCalls, drift) /\ cur \in BOOLEAN
        /\ line \in Nat /\ since \in 0..line /\ pend \in [Marks -> 0..line]
        /\ \A m \in Marks : pend[m] > 0 => pend[m] > since
    BY DEF DInv, DTypeOK, CallsCounted, MarksAreFresh, Counts
  <2>2. MarksSince(pend, since) /\ MarksSince(NoMarks, line + 1)
    BY <2>1 DEF MarksSince, NoMarks
  <2>3. \A m \in Marks : MarksSince([pend EXCEPT ![m] = line + 1], since)
    BY <2>1 DEF MarksSince
  <2>4. \A kind \in {"ir", "branch", "mark", "pool", "vmTag", "field", "plain", "blr"},
           reg \in Regs \cup {"-"} :
          ReadsLine(kind, reg) => \E k \in LineKinds, r \in Regs \cup {"-"} : ReadsLine(k, r)
    BY DEF LineKinds
  <2>5. out'.at = 0 => NoBorrowedMark'
    BY DEF NoBorrowedMark
  <2>6. CASE Header
    BY <2>6, Fresh DEF Header
  <2>7. CASE IrCall
    <3>1. Counts(irCalls', drift')
      BY <2>1, <2>7 DEF IrCall, Drifts, Counts
    <3>2. ReadsLine("ir", "-") /\ out'.at = 0 /\ UNCHANGED <<cur, pend, since>>
      BY <2>7 DEF IrCall, PlainLine, Silent, NoOut
    <3> QED
      BY <2>1, <2>2, <2>4, <2>5, <3>1, <3>2, NextLine
  <2>8. ASSUME NEW op \in {"bl", "b"}, NEW inline \in {"none", "agrees", "conflict"},
               NEW table \in BOOLEAN, NEW matched \in BOOLEAN,
               Branch(op, inline, table, matched)
        PROVE  DInv'
    <3>1. Counts(irCalls', drift')
      <4>1. /\ drift.ir \in Nat /\ drift.names \in Nat
            /\ irCalls \in Nat /\ irCalls <= drift.ir
        BY <2>1 DEF Counts
      <4>2. drift' = [drift EXCEPT !.ir = drift'.ir, !.names = drift'.names]
        BY <2>1, <2>8 DEF Branch, Counts
      <4>3. drift'.names \in Nat
        BY <2>1, <2>8, <4>1 DEF Branch, Counts
      <4>4. irCalls' \in Nat /\ drift'.ir \in Nat /\ irCalls' <= drift'.ir
        BY <2>1, <2>8, <4>1 DEF Branch, Counts
      <4> QED
        BY <2>1, <4>2, <4>3, <4>4 DEF Counts
    <3>2. ReadsLine("branch", "-") /\ UNCHANGED <<cur, pend, since>>
      BY <2>8 DEF Branch, PlainLine
    <3>3. out'.at = 0
      BY <2>8 DEF Branch, NoOut
    <3> QED
      BY <2>1, <2>2, <2>4, <2>5, <3>1, <3>2, <3>3, NextLine
  <2>9. ASSUME NEW m \in Marks, Marking(m) PROVE DInv'
    <3>1. /\ ReadsLine("mark", "-") /\ out'.at = 0 /\ UNCHANGED <<cur, irCalls, drift, since>>
          /\ pend' = [pend EXCEPT ![m] = line + 1]
      BY <2>9 DEF Marking, PlainLine, Mark, Silent, NoOut
    <3> QED
      BY <2>1, <2>3, <2>4, <2>5, <3>1, NextLine
  <2>10. ASSUME NEW what \in {"unlinked", "closure", "string"}, NEW offset \in BOOLEAN,
                Pool(what, offset)
         PROVE  DInv'
    <3>1. Counts(irCalls', drift')
      BY <2>1, <2>10 DEF Pool, Drifts, Counts
    <3>2. ReadsLine("pool", "-") /\ UNCHANGED <<cur, since>>
      BY <2>10 DEF Pool, PlainLine
    <3>3. out'.at = 0
      BY <2>10 DEF Pool, NoOut
    <3>4. MarksSince(pend', since')
      BY <2>2, <2>3, <2>10 DEF Pool, Mark, Marks
    <3> QED
      BY <2>1, <2>4, <2>5, <3>1, <3>2, <3>3, <3>4, NextLine
  <2>11. ASSUME NEW kind \in {"vmTag", "field", "plain"}, NEW reg \in Regs \cup {"-"},
                Other(kind, reg)
         PROVE  DInv'
    <3>1. /\ ReadsLine(kind, reg) /\ kind \in LineKinds /\ out'.at = 0
          /\ UNCHANGED <<cur, pend, irCalls, drift, since>>
      BY <2>11 DEF Other, LineKinds, Silent, NoOut
    <3> QED
      BY <2>1, <2>2, <2>4, <2>5, <3>1, NextLine
  <2>12. ASSUME NEW reg \in Regs, BlrLine(reg) PROVE DInv'
    <3>1. /\ BlrEdge(reg).at = 0 \/ \E m \in Marks : pend[m] > 0 /\ BlrEdge(reg).at = pend[m]
          /\ BlrEdge(reg).since = since
      BY BlrMark
    <3>2. NoBorrowedMark'
      BY <2>1, <2>12, <3>1 DEF BlrLine, Silent, NoOut, NoBorrowedMark
    <3>3. MarksSince(pend', since')
      BY <2>2, <2>12 DEF BlrLine, Cleared
    <3>4. ReadsLine("blr", reg) /\ UNCHANGED <<cur, irCalls, drift>>
      BY <2>12 DEF BlrLine
    <3> QED
      BY <2>1, <2>4, <3>2, <3>3, <3>4, NextLine
  <2>13. CASE NextFile
    BY <2>13, Fresh DEF NextFile
  <2>14. CASE UNCHANGED dvars
    BY <2>14 DEF dvars, DInv, DTypeOK, MarksAreFresh, CallsCounted, NoBorrowedMark
  <2> QED
    BY <2>6, <2>7, <2>8, <2>9, <2>10, <2>11, <2>12, <2>13, <2>14 DEF DNext
<1> QED
  BY <1>1, <1>2, PTL DEF DSpec

\* The marks are line numbers read so far, the counters never go below zero and
\* no more than Recent lines are kept (dart_edges).
THEOREM ScanTyped == DSpec => []DTypeOK
<1>1. DInv => DTypeOK
  BY DEF DInv
<1> QED
  BY <1>1, DInvHolds, PTL

\* NoBorrowedMark for every listing: no blr is classified by the mark of another
\* function or of the call before it (dart_edges).
THEOREM MarksNeverBorrowed == DSpec => []NoBorrowedMark
<1>1. DInv => NoBorrowedMark
  BY DEF DInv
<1> QED
  BY <1>1, DInvHolds, PTL
=============================================================================
