---------------------------- MODULE Gates_proofs ----------------------------
(***************************************************************************)
(* The three parts of MCGates, for every value of their constants.         *)
(* JniGates: what a green tree is good for, for every set of natives,      *)
(* descriptors and files and any number of edits.  Nobody edits while the  *)
(* gates run, so a verdict stays true until the release: GreenSoFar.       *)
(* DartSource: strip_comments keeps what the language reads as code, for   *)
(* files of any length and comments nested to any depth (where one is      *)
(* nested, the two part and StripsComments claims nothing).                *)
(* ParcelReader: the names that read_strings finds are those written, for  *)
(* a Parcel of any length.  Where each item lies is a part of the          *)
(* invariant, and the reader goes from one of these places to the next.    *)
(***************************************************************************)
EXTENDS MCGates, Picking_proofs, SequenceTheorems, TLAPS

-----------------------------------------------------------------------------
(* JniGates                                                                *)

Later == {"native_chain_parity", "structural_gates", "released"}

\* The verdicts of the gates that have run are about the tree as it is.
GreenSoFar ==
  /\ gate \in Later => Parity
  /\ gate \in Later \ {"native_chain_parity"} => ChainParity
  /\ gate = "released" => StubsMarked

Tree == <<decl, table, body, marked, mentions>>

\* The verdicts are functions of the tree.
LEMMA TreeUnchanged ==
  UNCHANGED Tree => /\ Parity' = Parity
                    /\ ChainParity' = ChainParity
                    /\ StubsMarked' = StubsMarked
  BY DEF Tree, Parity, SameNames, SeenSigs, SigsIn, NamesIn, ChainParity, CalledInPlace,
         Callers, StubsMarked, LogOnly

\* The tree is made of lines the files can hold (JInit).
LEMMA TreeInit == JInit => JTypeOK
<1> SUFFICES ASSUME JInit PROVE JTypeOK
  OBVIOUS
<1>1. decl \subseteq Decl
  <2> SUFFICES ASSUME NEW n \in Natives
               PROVE  [name |-> n, sig |-> SigOf[n], live |-> TRUE] \in Decl
    BY DEF JInit
  <2>1. SigOf[n] \in Sigs
    BY JniGatesAssumption
  <2> QED
    BY <2>1 DEF Decl
<1>2. table \subseteq Entry
  <2> SUFFICES ASSUME NEW n \in Natives
               PROVE  [name |-> n, sig |-> SigOf[n], live |-> TRUE, tight |-> TRUE] \in Entry
    BY DEF JInit
  <2>1. SigOf[n] \in Sigs
    BY JniGatesAssumption
  <2> QED
    BY <2>1 DEF Entry
<1>3. mentions \subseteq Mention
  <2> SUFFICES ASSUME NEW n \in Natives \ Pending
               PROVE  [name |-> n, file |-> Placed[n], kind |-> "call"] \in Mention
    BY DEF JInit
  <2>1. Placed[n] \in Shipped
    BY JniGatesAssumption
  <2> QED
    BY <2>1 DEF Mention
<1>4. body \in [Natives -> Forms]
  BY DEF JInit, Forms, OneLine, Contents
<1>5. marked \subseteq Markable /\ gate = "edit" /\ changes \in 0..MaxEdits
  BY JniGatesAssumption DEF JInit
<1> QED
  BY <1>1, <1>2, <1>3, <1>4, <1>5 DEF JTypeOK

\* And so they are after an edit by the developer or a gate of CI.
LEMMA TreeStep == JTypeOK /\ [JNext]_jvars => JTypeOK'
<1> SUFFICES ASSUME JTypeOK, [JNext]_jvars PROVE JTypeOK'
  OBVIOUS
<1> USE JniGatesAssumption DEF JTypeOK, Edit, RunsGate
<1>1. CASE EditDecl
  BY <1>1 DEF EditDecl, Toggle
<1>2. CASE EditTable
  BY <1>2 DEF EditTable, Toggle
<1>3. CASE EditBody
  BY <1>3 DEF EditBody
<1>4. CASE EditMarker
  BY <1>4 DEF EditMarker, Toggle
<1>5. CASE EditMention
  BY <1>5 DEF EditMention, Toggle
<1>6. CASE Push \/ JniParity \/ NativeChainParity \/ StructuralGates
  BY <1>6 DEF Push, JniParity, NativeChainParity, StructuralGates
<1>7. CASE UNCHANGED jvars
  BY <1>7 DEF jvars
<1> QED
  BY <1>1, <1>2, <1>3, <1>4, <1>5, <1>6, <1>7 DEF JNext

LEMMA TreeTyped == JSpec => []JTypeOK
  BY TreeInit, TreeStep, PTL DEF JSpec

\* A verdict outlives the gates after it: the order of CI and set -e.
LEMMA VerdictsStand == JSpec => []GreenSoFar
<1>1. JInit => GreenSoFar
  BY DEF JInit, GreenSoFar, Later
<1>2. GreenSoFar /\ [JNext]_jvars => GreenSoFar'
  <2> SUFFICES ASSUME GreenSoFar, [JNext]_jvars PROVE GreenSoFar'
    OBVIOUS
  <2>1. CASE EditDecl \/ EditTable \/ EditBody \/ EditMarker \/ EditMention
    BY <2>1 DEF EditDecl, EditTable, EditBody, EditMarker, EditMention, Edit, GreenSoFar, Later
  <2>2. ASSUME UNCHANGED Tree PROVE /\ Parity' = Parity
                                    /\ ChainParity' = ChainParity
                                    /\ StubsMarked' = StubsMarked
    BY <2>2, TreeUnchanged
  <2>3. CASE Push \/ JniParity \/ NativeChainParity \/ StructuralGates
    <3>1. UNCHANGED Tree
      BY <2>3 DEF Push, JniParity, NativeChainParity, StructuralGates, RunsGate, Tree
    <3> QED
      BY <2>2, <2>3, <3>1 DEF Push, JniParity, NativeChainParity, StructuralGates, RunsGate,
                              GreenSoFar, Later
  <2>4. CASE UNCHANGED jvars
    BY <2>2, <2>4 DEF jvars, Tree, GreenSoFar
  <2> QED
    BY <2>1, <2>3, <2>4 DEF JNext
<1> QED
  BY <1>1, <1>2, PTL DEF JSpec

\* Two halves that agree by name and descriptor are bound to each other.
LEMMA ParityBinds ==
  ASSUME JTypeOK, Parity, LinesAreCode, \A d \in decl : ParityView[d.sig] = d.sig
  PROVE  \A n \in Natives : Bound(n)
<1> USE DEF JTypeOK, Parity, SameNames, LinesAreCode
<1>1. Registers
  <2> SUFFICES ASSUME NEW e \in table, e.live
               PROVE  [name |-> e.name, sig |-> e.sig, live |-> TRUE] \in decl
    BY DEF Registers
  <2>1. e.name \in NamesIn(decl) /\ e.sig \in SigsIn(table, e.name)
    BY DEF NamesIn, SigsIn
  <2>2. e.sig \in SeenSigs(e.name)
    BY <2>1
  <2>3. PICK d \in decl : d.name = e.name /\ ParityView[d.sig] = e.sig
    BY <2>2 DEF SeenSigs, SigsIn
  <2>4. d = [name |-> e.name, sig |-> e.sig, live |-> TRUE]
    BY <2>3 DEF Decl
  <2> QED
    BY <2>4
<1>2. ASSUME NEW d \in decl
      PROVE  \E e \in table : e.live /\ e.name = d.name /\ e.sig = d.sig
  <2>1. d.name \in NamesIn(decl) /\ ParityView[d.sig] \in SeenSigs(d.name)
    BY DEF NamesIn, SeenSigs, SigsIn
  <2>2. d.sig \in SigsIn(table, d.name)
    BY <2>1
  <2> QED
    BY <2>2 DEF SigsIn
<1> QED
  BY <1>1, <1>2 DEF Bound

\* ReleasedRegisters, for every tree: what CI lets through is loaded by the
\* device (jni_parity).
THEOREM RegistersHolds == JSpec => []ReleasedRegisters
<1>1. JTypeOK /\ GreenSoFar => ReleasedRegisters
  BY ParityBinds DEF GreenSoFar, Later, ReleasedRegisters
<1> QED
  BY <1>1, TreeTyped, VerdictsStand, PTL

\* The file and the kind of a mention make it a call in its place.
LEMMA PlacedIsCalled ==
  ASSUME JTypeOK, LinesAreCalls, NEW n \in Natives, CalledInPlace(n)
  PROVE  Called(n)
<1>1. PICK m \in mentions : m.name = n /\ m.kind # "comment" /\ m.file = Placed[n]
  BY DEF CalledInPlace, Callers
<1>2. m = [name |-> n, file |-> Placed[n], kind |-> "call"]
  BY <1>1 DEF JTypeOK, Mention, LinesAreCalls
<1> QED
  BY <1>1, <1>2 DEF Called

\* What the table has and CHAIN requires, the declarations have too.
LEMMA ChainIsTyped ==
  ASSUME Parity, ChainParity, NEW n \in Chain
  PROVE  \E d \in decl : d.name = n /\ ParityView[d.sig] = SigOf[n]
<1>1. PICK e \in table : e.name = n /\ e.sig = SigOf[n]
  BY DEF ChainParity
<1>2. n \in NamesIn(decl) /\ SigOf[n] \in SigsIn(table, n)
  BY <1>1 DEF ChainParity, SigsIn
<1>3. SigOf[n] \in SeenSigs(n)
  BY <1>2 DEF Parity
<1> QED
  BY <1>3 DEF SeenSigs, SigsIn

\* ReleasedChainWired, for every tree: the declaration and the call of every chain
\* native, and the marker of the bodies S3 takes for empty (native_chain_parity,
\* structural_gates S3).
THEOREM ChainWiredHolds == JSpec => []ReleasedChainWired
<1>1. JTypeOK /\ GreenSoFar => ReleasedChainWired
  <2> SUFFICES ASSUME JTypeOK, GreenSoFar, gate = "released" PROVE ReleasedChainWired
    BY DEF ReleasedChainWired
  <2>1. Parity /\ ChainParity /\ StubsMarked /\ Chain \subseteq Natives
    BY JniGatesAssumption DEF GreenSoFar, Later
  <2>2. \A n \in Chain : \E d \in decl : d.name = n /\ ParityView[d.sig] = SigOf[n]
    BY <2>1, ChainIsTyped
  <2>3. LinesAreCalls => \A n \in Chain \ Pending : Called(n)
    BY <2>1, PlacedIsCalled DEF ChainParity
  <2>4. ASSUME NEW n \in Chain \cap Markable, body[n] \in {NoBody, OneLine("log")}
        PROVE  n \in marked
    BY <2>1, <2>4 DEF StubsMarked, LogOnly, NoBody, OneLine, Contents
  <2> QED
    BY <2>2, <2>3, <2>4 DEF ReleasedChainWired
<1> QED
  BY <1>1, TreeTyped, VerdictsStand, PTL

-----------------------------------------------------------------------------
(* DartSource                                                              *)

LEMMA PlaceKinds ==
  ASSUME NEW p \in Places
  PROVE  \/ \E q \in Quotes : p = String(q) \/ p = Escape(q)
         \/ \E w \in {"code", "slash", "line", "block", "star", "inner"} : p = Plain(w)
  BY DEF Places

LEMMA PlacesOf ==
  /\ \A w \in {"code", "slash", "line", "block", "star", "inner"} : Plain(w) \in Places
  /\ \A q \in Quotes : String(q) \in Places /\ Escape(q) \in Places
  BY DEF Places

\* The place of the script for a place of the language.
Same(place) == IF place.at = "inner" THEN Block ELSE place

\* What one character does to a place of the language, if it nests nothing.
LEMMA InText ==
  ASSUME NEW q \in Quotes, NEW c \in Chars \ {"newline"},
         NEW p \in {String(q), Escape(q)}, depth = 0
  PROVE  /\ Lex(p, c) \in {Code, String(q), Escape(q)}
         /\ Strip(p, c) = Lex(p, c)
         /\ Deeper(p, c) = depth
         /\ ~InComment(p)
  <1>1. CASE p = String(q)
    <2>1. q # "\\" /\ c # "newline"
      BY DEF Quotes
    <2>2. /\ p.at = "string" /\ p.quote = q /\ InString(p) /\ ~InComment(p)
      BY <1>1 DEF String, InString, InComment
    <2>3. Lex(p, c) = IF c = "\\" THEN Escape(q) ELSE IF c = q THEN Code ELSE p
      BY <2>1, <2>2 DEF Lex, LexString
    <2>4. Strip(p, c) = IF c = "\\" THEN Escape(q) ELSE IF c = q THEN Code ELSE p
      <3>1. Strip(p, c) = InsideString(p, c)
        BY <2>1, <2>2 DEF Strip
      <3> QED
        BY <2>1, <2>2, <3>1 DEF InsideString
    <2>5. Deeper(p, c) = depth
      BY <2>2 DEF Deeper
    <2> QED
      BY <1>1, <2>2, <2>3, <2>4, <2>5
  <1>2. CASE p = Escape(q)
    BY <1>2 DEF Lex, LexString, Strip, InsideString, Deeper, InString, InComment, String, Escape, Code, Plain
  <1> QED
    BY <1>1, <1>2

LEMMA InCode ==
  ASSUME NEW c \in Chars \ {"newline"}, NEW w \in {"code", "slash"}, depth = 0
  PROVE  /\ Lex(Plain(w), c) \in {String(q) : q \in Quotes}
                                 \cup {Code, Plain("slash"), Plain("line"), Block}
         /\ Strip(Plain(w), c) = Lex(Plain(w), c)
         /\ Deeper(Plain(w), c) = IF Lex(Plain(w), c) = Block THEN 1 ELSE depth
         /\ ~InComment(Plain(w))
<1>1. ~InString(Plain(w)) /\ ~InComment(Plain(w)) /\ Plain(w).at = w
  BY DEF InString, InComment, Plain
<1>2. Lex(Plain(w), c) = FromCode(Plain(w), c) /\ Strip(Plain(w), c) = FromCode(Plain(w), c)
  BY <1>1 DEF Lex, Strip
<1>3. CASE c \in Quotes
  <2>1. c # "/" /\ c # "*"
    BY <1>3 DEF Quotes
  <2>2. FromCode(Plain(w), c) = String(c) /\ String(c) # Block
    BY <1>3, <2>1 DEF FromCode, String, Block, Plain
  <2>3. Deeper(Plain(w), c) = depth
    BY <1>1, <2>1 DEF Deeper
  <2> QED
    BY <1>1, <1>2, <1>3, <2>2, <2>3
<1>4. CASE c \notin Quotes
  <2>1. /\ FromCode(Plain(w), c) = IF c = "/" THEN IF w = "slash" THEN Plain("line") ELSE Plain("slash")
                                   ELSE IF c = "*" /\ w = "slash" THEN Block ELSE Code
        /\ Deeper(Plain(w), c) = IF c = "*" /\ w = "slash" THEN 1 ELSE depth
    BY <1>1, <1>4 DEF FromCode, Deeper
  <2>2. Plain("line") # Block /\ Plain("slash") # Block /\ Code # Block
    BY DEF Plain, Code, Block
  <2> QED
    BY <1>1, <1>2, <2>1, <2>2
<1> QED
  BY <1>3, <1>4

LEMMA InLine ==
  ASSUME NEW c \in Chars \ {"newline"}, depth = 0
  PROVE  /\ Lex(Plain("line"), c) = Plain("line")
         /\ Strip(Plain("line"), c) = Plain("line")
         /\ Deeper(Plain("line"), c) = depth
  BY DEF Lex, Strip, Deeper, InString, Plain

LEMMA InBlock ==
  ASSUME NEW c \in Chars \ {"newline"}, NEW w \in {"block", "star", "inner"},
         depth \in Nat, depth > 0
  PROVE  /\ Lex(Plain(w), c) \in {Code, Block, Plain("star"), Plain("inner")}
         /\ Deeper(Plain(w), c) = CASE w = "inner" /\ c = "*" -> depth + 1
                                    [] w = "star" /\ c = "/" -> depth - 1
                                    [] OTHER -> depth
         /\ Lex(Plain(w), c) = Code <=> w = "star" /\ c = "/" /\ depth = 1
         /\ Deeper(Plain(w), c) = 0 <=> w = "star" /\ c = "/" /\ depth = 1
         /\ Deeper(Plain(w), c) <= 1 /\ depth = 1
              => Strip(Same(Plain(w)), c) = Same(Lex(Plain(w), c))
  <1> USE DEF Lex, LexBlock, Strip, Deeper, InString, Plain, Code, Block, Same
  <1>1. CASE w = "block"
    BY <1>1
  <1>2. CASE w = "star"
    BY <1>2
  <1>3. CASE w = "inner"
    BY <1>3
  <1> QED
    BY <1>1, <1>2, <1>3

\* The language is in a block comment while its depth says so, and the script
\* has no place for the / that opens one inside a comment.
Located ==
  /\ lang \in Places /\ depth \in Nat
  /\ depth > 0 <=> lang \in {Plain("block"), Plain("star"), Plain("inner")}
  /\ flat \in BOOLEAN /\ valid \in BOOLEAN

\* Without nested comments and broken strings both are at the same place.
InStep == flat /\ valid => depth <= 1 /\ mode = Same(lang) /\ kept = code

SInv == Located /\ InStep

\* The language's own step, and the agreement it leaves behind.
LEMMA SameStep ==
  ASSUME Located, NEW c \in Chars
  PROVE  /\ Lex(lang, c) \in Places /\ Deeper(lang, c) \in Nat
         /\ Deeper(lang, c) > 0
              <=> Lex(lang, c) \in {Plain("block"), Plain("star"), Plain("inner")}
         /\ /\ depth <= 1 /\ Deeper(lang, c) <= 1
            /\ ~(c = "newline" /\ InString(lang))
            => Strip(Same(lang), c) = Same(Lex(lang, c))
<1>1. depth \in Nat /\ lang \in Places
  BY DEF Located
<1>2. CASE c = "newline"
  <2>1. Deeper(lang, c) = depth
    BY <1>2 DEF Deeper
  <2>2. Lex(lang, c) = IF depth > 0 THEN Block ELSE Code
    BY <1>2 DEF Lex
  <2>3. Code \notin {Plain("block"), Plain("star"), Plain("inner")} /\ Block = Plain("block")
    BY DEF Code, Block, Plain
  <2>4. Code \in Places /\ Block \in Places
    BY PlacesOf DEF Code, Block
  <2>5. Strip(Same(lang), c) = IF depth > 0 THEN Block ELSE Code
    <3>1. Strip(Same(lang), c) = IF Same(lang).at \in {"block", "star"} THEN Block ELSE Code
      BY <1>2 DEF Strip
    <3>2. CASE depth > 0
      BY <3>1, <3>2 DEF Located, Same, Block, Plain
    <3>3. CASE ~(depth > 0)
      <4>1. lang.at \notin {"block", "star", "inner"}
        <5>1. CASE \E q \in Quotes : lang = String(q) \/ lang = Escape(q)
          BY <5>1 DEF String, Escape
        <5>2. CASE \E w \in {"code", "slash", "line", "block", "star", "inner"} : lang = Plain(w)
          BY <3>3, <5>2 DEF Located, Plain
        <5> QED
          BY <1>1, <5>1, <5>2, PlaceKinds
      <4> QED
        BY <3>1, <3>3, <4>1 DEF Same
    <3> QED
      BY <3>2, <3>3
  <2>6. Same(Code) = Code /\ Same(Block) = Block
    BY DEF Same, Code, Block, Plain
  <2> QED
    BY <1>1, <2>1, <2>2, <2>3, <2>4, <2>5, <2>6
<1>3. ASSUME c # "newline", NEW q \in Quotes, lang \in {String(q), Escape(q)}
      PROVE  /\ Lex(lang, c) \in {Code, String(q), Escape(q)}
             /\ Deeper(lang, c) = depth /\ depth = 0
             /\ Strip(Same(lang), c) = Same(Lex(lang, c))
  <2>1. depth = 0 /\ Same(lang) = lang
    BY <1>1, <1>3 DEF Located, String, Escape, Plain, Same
  <2>2. \A p \in {Code, String(q), Escape(q)} : Same(p) = p
    BY DEF Same, Code, Plain, String, Escape
  <2> QED
    BY <1>3, <2>1, <2>2, InText
<1>4. ASSUME c # "newline", NEW w \in {"code", "slash"}, lang = Plain(w)
      PROVE  /\ Lex(lang, c) \in {String(q) : q \in Quotes}
                                 \cup {Code, Plain("slash"), Plain("line"), Block}
             /\ Deeper(lang, c) = IF Lex(lang, c) = Block THEN 1 ELSE 0
             /\ Strip(Same(lang), c) = Same(Lex(lang, c))
  <2>1. depth = 0 /\ Same(lang) = lang
    BY <1>1, <1>4 DEF Located, Plain, Same
  <2>2. \A p \in {String(q) : q \in Quotes} \cup {Code, Plain("slash"), Plain("line"), Block} :
          Same(p) = p
    BY DEF Same, Code, Block, Plain, String
  <2> QED
    BY <1>4, <2>1, <2>2, InCode
<1>5. CASE c # "newline" /\ lang = Plain("line")
  <2>1. depth = 0 /\ Same(lang) = lang
    BY <1>1, <1>5 DEF Located, Plain, Same
  <2> QED
    BY <1>1, <1>5, <2>1, InLine DEF Located
<1>6. ASSUME c # "newline", NEW w \in {"block", "star", "inner"}, lang = Plain(w)
      PROVE  /\ Lex(lang, c) \in {Code, Block, Plain("star"), Plain("inner")}
             /\ Deeper(lang, c) \in Nat
             /\ Deeper(lang, c) = 0 <=> Lex(lang, c) = Code
             /\ depth <= 1 /\ Deeper(lang, c) <= 1 => Strip(Same(lang), c) = Same(Lex(lang, c))
  <2>1. depth > 0
    BY <1>6 DEF Located
  <2>2. depth <= 1 => depth = 1
    BY <1>1, <2>1
  <2>3. Deeper(lang, c) \in {depth, depth + 1, depth - 1}
    BY <1>1, <1>6, <2>1, InBlock
  <2> QED
    BY <1>1, <1>6, <2>1, <2>2, <2>3, InBlock
<1>7. CASE c # "newline" /\ \E q \in Quotes : lang = String(q) \/ lang = Escape(q)
  <2>1. \A q \in Quotes : \A p \in {Code, String(q), Escape(q)} :
          p \in Places /\ p \notin {Plain("block"), Plain("star"), Plain("inner")}
    <3> SUFFICES ASSUME NEW q \in Quotes, NEW p \in {Code, String(q), Escape(q)}
                 PROVE  p \in Places /\ p.at \notin {"block", "star", "inner"}
      BY DEF Plain
    <3>1. p \in Places
      BY PlacesOf DEF Code
    <3>2. p.at \in {"code", "string", "escape"}
      BY DEF Code, Plain, String, Escape
    <3> QED
      BY <3>1, <3>2
  <2> QED
    BY <1>3, <1>7, <2>1
<1>8. CASE c # "newline" /\ lang \in {Plain("code"), Plain("slash")}
  <2>1. \A p \in {String(q) : q \in Quotes} \cup {Code, Plain("slash"), Plain("line"), Block} :
          /\ p \in Places
          /\ p \in {Plain("block"), Plain("star"), Plain("inner")} <=> p = Block
    BY PlacesOf DEF Code, Block, Plain, String
  <2> QED
    BY <1>4, <1>8, <2>1
<1>9. CASE c # "newline" /\ lang \in {Plain("block"), Plain("star"), Plain("inner")}
  <2>1. \A p \in {Code, Block, Plain("star"), Plain("inner")} :
          /\ p \in Places
          /\ p \in {Plain("block"), Plain("star"), Plain("inner")} <=> p # Code
    BY PlacesOf DEF Code, Block, Plain
  <2> QED
    BY <1>6, <1>9, <2>1
<1> QED
  BY <1>1, <1>2, <1>5, <1>7, <1>8, <1>9, PlaceKinds

LEMMA SInvHolds == SSpec => []SInv
<1>1. SInit => SInv
  <2> SUFFICES ASSUME SInit PROVE SInv
    OBVIOUS
  <2>1. Code \in Places /\ Code \notin {Plain("block"), Plain("star"), Plain("inner")}
        /\ Same(Code) = Code
    BY PlacesOf DEF Code, Plain, Same
  <2> QED
    BY <2>1 DEF SInit, SInv, Located, InStep
<1>2. SInv /\ [SNext]_svars => SInv'
  <2> SUFFICES ASSUME SInv, [SNext]_svars PROVE SInv'
    OBVIOUS
  <2>1. ASSUME NEW c \in Chars, Read(c) PROVE SInv'
    <3>1. Located'
      BY <2>1, SameStep DEF SInv, Located, Read
    <3>2. ASSUME flat', valid'
          PROVE  depth' <= 1 /\ mode' = Same(lang') /\ kept' = code'
      <4>1. flat /\ valid /\ depth' \in Nat /\ depth' < 2 /\ ~(c = "newline" /\ InString(lang))
        BY <2>1, <3>1, <3>2 DEF Read, SInv, Located
      <4>2. depth <= 1 /\ mode = Same(lang)
        BY <4>1 DEF SInv, InStep
      <4>3. mode' = Same(lang')
        BY <2>1, <4>1, <4>2, SameStep DEF Read, SInv
      <4>4. InComment(mode) = InComment(lang) /\ InComment(mode') = InComment(lang')
        BY <4>2, <4>3 DEF InComment, Same, Block, Plain
      <4>5. kept' = (~InComment(mode) /\ ~InComment(mode'))
        BY <2>1 DEF Read, Keeps
      <4> QED
        BY <2>1, <4>1, <4>3, <4>4, <4>5 DEF Read
    <3> QED
      BY <3>1, <3>2 DEF SInv, InStep
  <2>2. CASE UNCHANGED svars
    BY <2>2 DEF svars, SInv, Located, InStep
  <2> QED
    BY <2>1, <2>2 DEF SNext
<1> QED
  BY <1>1, <1>2, PTL DEF SSpec

\* StripsComments for every file without nested comments and broken strings
\* (strip_comments).
THEOREM StripsCommentsHolds == SSpec => []StripsComments
<1>1. SInv => StripsComments
  BY DEF SInv, InStep, StripsComments
<1> QED
  BY <1>1, SInvHolds, PTL

-----------------------------------------------------------------------------
(* Types                                                                   *)

\* strip_comments knows no place for a / inside a comment.
ModePlaces == Places \ {Plain("inner")}

LEMMA StripPlaces ==
  ASSUME NEW p \in ModePlaces, NEW c \in Chars
  PROVE  Strip(p, c) \in ModePlaces
<1>1. {Code, Block, Plain("star"), Plain("line"), Plain("slash")} \subseteq ModePlaces
  BY PlacesOf DEF Code, Block, Plain, ModePlaces
<1>2. \A q \in Quotes : String(q) \in ModePlaces /\ Escape(q) \in ModePlaces
  BY PlacesOf DEF String, Escape, Plain, ModePlaces
<1>3. CASE c = "newline"
  BY <1>1, <1>3 DEF Strip
<1>4. ASSUME c # "newline", NEW q \in Quotes, p \in {String(q), Escape(q)}
      PROVE  Strip(p, c) \in ModePlaces
  <2>1. InString(p) /\ p.quote = q
    <3>1. CASE p = String(q)
      BY <3>1 DEF InString, String
    <3>2. CASE p = Escape(q)
      BY <3>2 DEF InString, Escape
    <3> QED
      BY <1>4, <3>1, <3>2
  <2>2. Strip(p, c) = InsideString(p, c)
    <3>1. c # "newline" /\ InString(p)
      BY <1>4, <2>1
    <3> QED
      BY <3>1 DEF Strip, InString
  <2>3. InsideString(p, c) \in {String(q), Escape(q), Code, p}
    BY <2>1 DEF InsideString
  <2> QED
    BY <1>1, <1>2, <2>2, <2>3
<1>5. ASSUME c # "newline", NEW w \in {"code", "slash"}, p = Plain(w)
      PROVE  Strip(p, c) \in ModePlaces
  <2>1. ~InString(p) /\ p.at = w
    BY <1>5 DEF InString, Plain
  <2>2. Strip(p, c) = FromCode(p, c)
    BY <1>5, <2>1 DEF Strip
  <2>3. \/ FromCode(p, c) \in {Code, Block, Plain("line"), Plain("slash")}
        \/ \E q \in Quotes : FromCode(p, c) = String(q)
    BY DEF FromCode, Quotes
  <2> QED
    BY <1>1, <1>2, <2>2, <2>3
<1>6. ASSUME c # "newline", NEW w \in {"line", "block", "star"}, p = Plain(w)
      PROVE  Strip(p, c) \in ModePlaces
  <2>1. ~InString(p) /\ p.at = w
    BY <1>6 DEF InString, Plain
  <2> QED
    BY <1>1, <1>6, <2>1 DEF Strip
<1>7. p # Plain("inner") /\ p \in Places
  BY DEF ModePlaces
<1> QED
  BY <1>3, <1>4, <1>5, <1>6, <1>7, PlaceKinds

\* The places of both, and what check_balance counts.
STyped == mode \in ModePlaces /\ STypeOK /\ Located

LEMMA STypedInit == SInit => STyped
<1>1. Code \in ModePlaces /\ Code \in Places
      /\ Code \notin {Plain("block"), Plain("star"), Plain("inner")}
  BY PlacesOf DEF Code, Plain, ModePlaces
<1> QED
  <2> SUFFICES ASSUME SInit PROVE STyped
    OBVIOUS
  <2> USE DEF SInit
  <2>1. 0 \in 0..MaxDepth
    BY DartSourceAssumption
  <2>2. STypeOK
    BY <1>1, <2>1 DEF STypeOK
  <2>3. Located
    BY <1>1 DEF Located
  <2> QED
    BY <1>1, <2>2, <2>3 DEF STyped

LEMMA STypedStep == STyped /\ [SNext]_svars => STyped'
<1> SUFFICES ASSUME STyped, [SNext]_svars PROVE STyped'
  OBVIOUS
<1>1. ASSUME NEW c \in Chars, Read(c) PROVE STyped'
  <2>1. mode' \in ModePlaces /\ mode' \in Places
    BY <1>1, StripPlaces DEF STyped, Read, ModePlaces
  <2>2. Located'
    BY <1>1, SameStep DEF STyped, Located, Read
  <2>3. {kept', code', back', valid', flat'} \subseteq BOOLEAN
    BY <1>1 DEF Read, Keeps, STyped, STypeOK
  <2>4. odd' \subseteq Quotes
    BY <1>1 DEF Read, Counted, STyped, STypeOK
  <2>5. depth' \in 0..MaxDepth /\ lang' \in Places
    BY <1>1, <2>2, DartSourceAssumption DEF Read, Located
  <2> QED
    BY <2>1, <2>2, <2>3, <2>4, <2>5 DEF STyped, STypeOK
<1>2. CASE UNCHANGED svars
  BY <1>2 DEF svars, STyped, STypeOK, Located
<1> QED
  BY <1>1, <1>2 DEF SNext

-----------------------------------------------------------------------------
(* ParcelReader                                                            *)

Octets == Seq(Octet)
Text == Seq(Ascii)

LEMMA OctetRange == \A b : b \in Octet <=> b \in Nat /\ b <= 255
  BY DEF Octet

LEMMA AsciiRange == \A b : b \in Ascii <=> b \in Nat /\ 32 <= b /\ b <= 126
  BY DEF Ascii

\* A Parcel is octets, and a string that is read is null or printable.
PTyped ==
  /\ items \in Seq(Items) /\ Len(items) <= MaxItems
  /\ bytes \in Octets
  /\ reading \in BOOLEAN /\ at \in Nat
  /\ found \in Seq({Null} \cup Text)

LEMMA WordOctets ==
  ASSUME NEW n \in Nat
  PROVE  Word(n) \in Octets
<1>1. n % 256 \in Octet /\ (n \div 256) % 256 \in Octet /\ 0 \in Octet
  BY OctetRange
<1>2. \A b \in Octet : <<b>> \in Octets
  BY DEF Octets
<1> QED
  BY <1>1 DEF Word, Octets

LEMMA PaddedOctets ==
  ASSUME NEW b \in Octets
  PROVE  Padded(b) \in Octets
<1> DEFINE k == ((Len(b) + 3) \div 4) * 4 - Len(b)
<1>1. k \in Nat
  <2>1. Len(b) \in Nat
    BY DEF Octets
  <2> QED
    BY <2>1
<1> HIDE DEF k
<1>2. 0 \in Octet
  BY OctetRange
<1>3. Zeros(k) \in Octets
  BY <1>1, <1>2 DEF Zeros, Octets
<1> QED
  BY <1>3 DEF Padded, Octets, k

LEMMA WideOctets ==
  ASSUME NEW s \in Text
  PROVE  Wide(s) \in Octets
<1> DEFINE unit(i) == IF i % 2 = 1 THEN s[(i + 1) \div 2] ELSE 0
<1>1. Len(s) \in Nat /\ \A j \in 1..Len(s) : s[j] \in Ascii
  BY DEF Text
<1>2. ASSUME NEW i \in 1..(2 * Len(s)) PROVE unit(i) \in Octet
  <2>1. i % 2 = 1 => (i + 1) \div 2 \in 1..Len(s)
    BY <1>1
  <2> QED
    BY <1>1, <2>1, OctetRange, AsciiRange
<1>3. Wide(s) = [i \in 1..(2 * Len(s)) |-> unit(i)]
  BY DEF Wide
<1> HIDE DEF unit
<1> QED
  BY <1>1, <1>2, <1>3 DEF Octets

LEMMA ItemOctets ==
  ASSUME NEW item \in Items
  PROVE  Bytes(item) \in Octets
<1>1. CASE item = [k |-> "null", n |-> 0, s |-> <<>>]
  <2>1. 255 \in Octet
    BY OctetRange
  <2> QED
    BY <1>1, <2>1 DEF Bytes, Octets
<1>2. ASSUME NEW n \in Ints, item = [k |-> "int", n |-> n, s |-> <<>>]
      PROVE  Bytes(item) \in Octets
  <2>1. n \in Nat
    BY ParcelAssumption
  <2> QED
    BY <1>2, <2>1, WordOctets DEF Bytes
<1>3. ASSUME NEW k \in {"utf8", "utf16"}, NEW s \in Strings, item = [k |-> k, n |-> 0, s |-> s]
      PROVE  Bytes(item) \in Octets
  <2>1. s \in Text /\ Len(s) \in Nat
    BY ParcelAssumption DEF Text
  <2>2. Word(Len(s)) \in Octets /\ Wide(s) \in Octets
    BY <2>1, WordOctets, WideOctets
  <2>3. s \in Octets /\ 0 \in Octet
    BY <2>1, OctetRange, AsciiRange DEF Text, Octets
  <2> HIDE DEF Octets
  <2>4. Word(Len(s)) \o s \o <<0>> \in Octets
    BY <2>2, <2>3 DEF Octets
  <2>5. Word(Len(s)) \o Wide(s) \o <<0, 0>> \in Octets
    BY <2>2, <2>3 DEF Octets
  <2>6. CASE k = "utf8"
    BY <1>3, <2>4, <2>6, PaddedOctets DEF Bytes
  <2>7. CASE k = "utf16"
    BY <1>3, <2>5, <2>7, PaddedOctets DEF Bytes
  <2> QED
    BY <2>6, <2>7
<1> QED
  BY <1>1, <1>2, <1>3 DEF Items

LEMMA SliceText ==
  ASSUME at \in Nat, NEW n \in Nat, Printable(Slice(at + 4, n))
  PROVE  Slice(at + 4, n) \in Text
<1> DEFINE m == at + 4 + 1
           e == at + 4 + n
           s == SubSeq(bytes, m, e)
<1>1. m \in Int /\ e \in Int /\ e - m + 1 = n /\ s = Slice(at + 4, n)
  BY DEF Slice
<1> HIDE DEF m, e
<1>2. DOMAIN s = 1..n
  BY <1>1
<1>3. s = [j \in 1..n |-> s[j]]
  BY <1>1
<1>4. \A j \in 1..n : s[j] \in Ascii
  BY <1>1, <1>2 DEF Printable
<1> HIDE DEF s
<1>5. s \in Text
  BY <1>3, <1>4 DEF Text
<1> QED
  BY <1>1, <1>5

LEMMA UnitsText ==
  ASSUME NEW n \in Nat, Printable(Units(at, n))
  PROVE  Units(at, n) \in Text
<1>1. DOMAIN Units(at, n) = 1..n
  BY DEF Units
<1>2. \A j \in 1..n : Units(at, n)[j] \in Ascii
  BY <1>1 DEF Printable
<1>3. Units(at, n) = [j \in 1..n |-> Units(at, n)[j]]
  BY DEF Units
<1> HIDE DEF Units
<1> QED
  BY <1>2, <1>3 DEF Text

LEMMA IntIsInt ==
  ASSUME bytes \in Octets, at \in Nat, at <= Total - 4
  PROVE  Int32(at) \in Int
<1>1. \A i \in 0..3 : Byte(at + i) \in Nat
  BY OctetRange DEF Octets, Total, Byte
<1>2. Byte(at) \in Nat /\ Byte(at + 1) \in Nat /\ Byte(at + 2) \in Nat /\ Byte(at + 3) \in Nat
  BY <1>1
<1> QED
  BY <1>2 DEF Int32

LEMMA PTypedInit == PInit => PTyped
<1>1. MaxItems \in Nat
  BY ParcelAssumption
<1>2. <<>> \in Seq(Items) /\ <<>> \in Seq(Octet) /\ <<>> \in Seq({Null} \cup Text)
  OBVIOUS
<1>3. Len(<<>>) = 0
  OBVIOUS
<1>4. PInit => items = <<>> /\ bytes = <<>> /\ found = <<>> /\ reading = FALSE /\ at = 0
  BY DEF PInit
<1> QED
  <2> SUFFICES ASSUME PInit PROVE PTyped
    OBVIOUS
  <2>1. items \in Seq(Items) /\ bytes \in Octets /\ found \in Seq({Null} \cup Text)
    BY <1>2, <1>4 DEF Octets
  <2>2. Len(items) <= MaxItems
    BY <1>1, <1>3, <1>4
  <2>3. reading \in BOOLEAN
    BY <1>4, Zenon
  <2>4. at \in Nat
    BY DEF PInit
  <2> QED
    BY <2>1, <2>2, <2>3, <2>4 DEF PTyped

LEMMA PTypedStep == PTyped /\ [PNext]_pvars => PTyped'
<1> SUFFICES ASSUME PTyped, [PNext]_pvars PROVE PTyped'
  OBVIOUS
<1> USE ParcelAssumption
<1>1. CASE Write
  <2>1. PICK item \in Items : items' = Append(items, item) /\ bytes' = bytes \o Bytes(item)
    BY <1>1 DEF Write
  <2>2. bytes' \in Octets
    BY <2>1, ItemOctets DEF PTyped, Octets
  <2>3. items' \in Seq(Items) /\ Len(items') <= MaxItems
    BY <1>1, <2>1 DEF Write, PTyped
  <2> QED
    BY <1>1, <2>2, <2>3 DEF Write, PTyped
<1>2. CASE Open
  BY <1>2 DEF Open, PTyped
<1>3. CASE ReadNull
  BY <1>3 DEF ReadNull, PTyped
<1>4. CASE ReadString
  <2> DEFINE ln == Int32(at)
  <2>1. ln \in Int
    BY <1>4, IntIsInt DEF ReadString, More, PTyped, Total, Octets
  <2>2. UNCHANGED <<items, bytes, reading>>
    BY <1>4 DEF ReadString
  <2>3. ASSUME Utf8At(at), found' = Append(found, Slice(at + 4, ln)), at' = at + Align4(4 + ln + 1)
        PROVE  PTyped'
    <3>1. ln \in Nat /\ Printable(Slice(at + 4, ln))
      BY <2>1, <2>3 DEF Utf8At
    <3>2. Slice(at + 4, ln) \in Text
      BY <3>1, SliceText DEF PTyped
    <3> HIDE DEF ln
    <3>3. at' \in Nat
      BY <2>3, <3>1 DEF Align4, PTyped
    <3> QED
      BY <2>2, <2>3, <3>2, <3>3 DEF PTyped
  <2>4. ASSUME Utf16At(at), found' = Append(found, Units(at, ln)), at' = at + Align4(4 + 2 * ln + 2)
        PROVE  PTyped'
    <3>1. ln \in Nat /\ Printable(Units(at, ln))
      BY <2>1, <2>4 DEF Utf16At
    <3>2. Units(at, ln) \in Text
      BY <3>1, UnitsText
    <3> HIDE DEF ln
    <3>3. at' \in Nat
      BY <2>4, <3>1 DEF Align4, PTyped
    <3> QED
      BY <2>2, <2>4, <3>2, <3>3 DEF PTyped
  <2> QED
    BY <1>4, <2>3, <2>4 DEF ReadString
<1>5. CASE Skip
  BY <1>5 DEF Skip, PTyped
<1>6. CASE UNCHANGED pvars
  BY <1>6 DEF pvars, PTyped
<1> QED
  BY <1>1, <1>2, <1>3, <1>4, <1>5, <1>6 DEF PNext

-----------------------------------------------------------------------------
(* ParcelReader: what is found                                             *)

\* The lengths of strings that are read (ln < 4000 in _try_utf8 and _try_utf16), and
\* the numbers a word of a Parcel holds.
Lengths == {n \in Nat : n < 4000}
Words == {n \in Nat : n <= 65535}

\* A longer string is never taken for one.
Short == \A s \in Strings : Len(s) \in Lengths

LEMMA LengthRange == \A n : n \in Lengths <=> n \in Nat /\ n < 4000
  BY DEF Lengths

LEMMA WordRange ==
  /\ \A n : n \in Words <=> n \in Nat /\ n <= 65535
  /\ \A n \in Lengths : n \in Words
<1>1. \A n : n \in Words <=> n \in Nat /\ n <= 65535
  BY DEF Words
<1>2. ASSUME NEW n \in Lengths PROVE n \in Words
  BY <1>1, LengthRange
<1> QED
  BY <1>1, <1>2

LEMMA ConcatAt ==
  ASSUME NEW a \in Octets, NEW b \in Octets
  PROVE  /\ a \o b \in Octets
         /\ Len(a) \in Nat /\ Len(b) \in Nat
         /\ Len(a \o b) = Len(a) + Len(b)
         /\ \A i \in 1..Len(a) : (a \o b)[i] = a[i]
         /\ \A i \in 1..Len(b) : (a \o b)[Len(a) + i] = b[i]
<1>1. /\ a \o b \in Octets /\ Len(a \o b) = Len(a) + Len(b)
      /\ \A i \in 1 .. Len(a) + Len(b) : (a \o b)[i] = IF i <= Len(a) THEN a[i] ELSE b[i - Len(a)]
  BY ConcatProperties DEF Octets
<1>2. Len(a) \in Nat /\ Len(b) \in Nat
  BY DEF Octets
<1>3. ASSUME NEW i \in 1..Len(b) PROVE (a \o b)[Len(a) + i] = b[i]
  <2>1. Len(a) + i \in 1..(Len(a) + Len(b)) /\ ~ (Len(a) + i <= Len(a)) /\ Len(a) + i - Len(a) = i
    BY <1>2
  <2> QED
    BY <1>1, <2>1
<1> QED
  BY <1>1, <1>2, <1>3

LEMMA PaddedAt ==
  ASSUME NEW b \in Octets
  PROVE  /\ Len(Padded(b)) = Align4(Len(b))
         /\ \A i \in 1..Len(b) : Padded(b)[i] = b[i]
         /\ \A i \in 1..Align4(Len(b)) : i > Len(b) => Padded(b)[i] = 0
<1> DEFINE k == ((Len(b) + 3) \div 4) * 4 - Len(b)
<1>1. Len(b) \in Nat /\ k \in Nat
  <2>1. Len(b) \in Nat
    BY DEF Octets
  <2> QED
    BY <2>1
<1>2. Align4(Len(b)) = Len(b) + k
  BY <1>1 DEF Align4
<1>3. Padded(b) = b \o Zeros(k)
  BY DEF Padded
<1> HIDE DEF k
<1>4. Zeros(k) \in Octets /\ Len(Zeros(k)) = k /\ \A i \in 1..k : Zeros(k)[i] = 0
  <2>1. 0 \in Octet
    BY OctetRange
  <2> QED
    BY <1>1, <2>1 DEF Zeros, Octets
<1>5. /\ Len(b \o Zeros(k)) = Len(b) + Len(Zeros(k))
      /\ \A i \in 1..Len(b) : (b \o Zeros(k))[i] = b[i]
      /\ \A i \in 1..Len(Zeros(k)) : (b \o Zeros(k))[Len(b) + i] = Zeros(k)[i]
  BY <1>4, ConcatAt, Zenon
<1>6. ASSUME NEW i \in 1..Align4(Len(b)), i > Len(b) PROVE Padded(b)[i] = 0
  <2>1. i - Len(b) \in 1..k /\ Len(b) + (i - Len(b)) = i
    BY <1>1, <1>2, <1>6
  <2> QED
    BY <1>3, <1>4, <1>5, <2>1
<1> QED
  BY <1>2, <1>3, <1>4, <1>5, <1>6, Zenon

\* n as the first word at p.
WordAt(p, n) ==
  Byte(p) = n % 256 /\ Byte(p + 1) = n \div 256 /\ Byte(p + 2) = 0 /\ Byte(p + 3) = 0

LEMMA WordBytes ==
  ASSUME NEW n \in Words
  PROVE  /\ Word(n) \in Octets /\ Len(Word(n)) = 4
         /\ Word(n)[1] = n % 256 /\ Word(n)[2] = n \div 256 /\ Word(n)[3] = 0 /\ Word(n)[4] = 0
<1>1. n \in Nat /\ (n \div 256) % 256 = n \div 256
  BY WordRange
<1>2. Word(n) \in Octets
  BY <1>1, WordOctets
<1>3. Word(n) = <<n % 256, n \div 256, 0, 0>>
  BY <1>1 DEF Word
<1> QED
  BY <1>2, <1>3

\* An item that lies from p to q.
NullAt(p, q) == q = p + 4 /\ \A j \in 0..3 : Byte(p + j) = 255

IntAt(p, q, n) == q = p + 4 /\ n \in Words /\ WordAt(p, n)

Utf8StringAt(p, q, s) ==
  /\ q = p + Align4(4 + Len(s) + 1)
  /\ WordAt(p, Len(s))
  /\ \A j \in 1..Len(s) : Byte(p + 3 + j) = s[j]
  /\ Byte(p + 4 + Len(s)) = 0
  /\ Len(s) = 0 => Byte(p + 5) = 0

Utf16StringAt(p, q, s) ==
  /\ q = p + Align4(4 + 2 * Len(s) + 2)
  /\ WordAt(p, Len(s))
  /\ \A j \in 1..Len(s) : Byte(p + 2 + 2 * j) = s[j] /\ Byte(p + 3 + 2 * j) = 0
  /\ Byte(p + 4 + 2 * Len(s)) = 0 /\ Byte(p + 5 + 2 * Len(s)) = 0

\* b lies from p on.
Lies(p, b) == \A i \in 1..Len(b) : Byte(p + i - 1) = b[i]

\* Three parts, padded: each is where the lengths of those before it say.
LEMMA PartsLie ==
  ASSUME NEW p \in Nat, NEW a \in Octets, NEW b \in Octets, NEW c \in Octets,
         Lies(p, Padded(a \o b \o c))
  PROVE  /\ Len(Padded(a \o b \o c)) = Align4(Len(a) + Len(b) + Len(c))
         /\ \A i \in 1..Len(a) : Byte(p + i - 1) = a[i]
         /\ \A i \in 1..Len(b) : Byte(p + Len(a) + i - 1) = b[i]
         /\ \A i \in 1..Len(c) : Byte(p + Len(a) + Len(b) + i - 1) = c[i]
         /\ \A i \in 1..Align4(Len(a) + Len(b) + Len(c)) :
              i > Len(a) + Len(b) + Len(c) => Byte(p + i - 1) = 0
<1> DEFINE ab == a \o b
           abc == ab \o c
           d == Padded(abc)
<1>1. /\ ab \in Octets /\ Len(a) \in Nat /\ Len(b) \in Nat
      /\ Len(ab) = Len(a) + Len(b)
      /\ \A i \in 1..Len(a) : ab[i] = a[i]
      /\ \A i \in 1..Len(b) : ab[Len(a) + i] = b[i]
  BY ConcatAt, Zenon
<1> HIDE DEF ab
<1>2. ab \in Octets
  BY <1>1
<1>3. /\ abc \in Octets /\ Len(c) \in Nat
      /\ Len(abc) = Len(ab) + Len(c)
      /\ \A i \in 1..Len(ab) : abc[i] = ab[i]
      /\ \A i \in 1..Len(c) : abc[Len(ab) + i] = c[i]
  BY <1>2, ConcatAt, Zenon
<1> HIDE DEF abc
<1>4. abc \in Octets
  BY <1>3
<1>5. /\ Len(d) = Align4(Len(abc)) /\ \A i \in 1..Len(abc) : d[i] = abc[i]
      /\ \A i \in 1..Align4(Len(abc)) : i > Len(abc) => d[i] = 0
  BY <1>4, PaddedAt, Zenon
<1>6. \A i \in 1..Len(d) : Byte(p + i - 1) = d[i]
  BY Zenon DEF Lies, d, abc, ab
<1> HIDE DEF d
<1>7. Len(abc) = Len(a) + Len(b) + Len(c)
  BY <1>1, <1>3
<1>8. \A i \in 1..Len(abc) : Byte(p + i - 1) = abc[i]
  <2>1. Len(abc) \in Nat
    BY <1>1, <1>3, <1>7
  <2>2. Len(d) \in Int /\ Len(abc) <= Len(d)
    BY <1>5, <2>1 DEF Align4
  <2>3. \A i \in 1..Len(abc) : i \in 1..Len(d)
    BY <2>1, <2>2
  <2> QED
    BY <1>5, <1>6, <2>3, Zenon
<1>9. \A i \in 1..Len(a) : Byte(p + i - 1) = a[i]
  <2>1. \A i \in 1..Len(a) : i \in 1..Len(abc) /\ i \in 1..Len(ab)
    BY <1>1, <1>3, <1>7
  <2> QED
    BY <1>1, <1>3, <1>8, <2>1, Zenon
<1>10. \A i \in 1..Len(b) : Byte(p + Len(a) + i - 1) = b[i]
  <2>1. ASSUME NEW i \in 1..Len(b)
        PROVE  /\ Len(a) + i \in 1..Len(abc) /\ Len(a) + i \in 1..Len(ab)
               /\ p + (Len(a) + i) - 1 = p + Len(a) + i - 1
    BY <1>1, <1>3, <1>7
  <2>2. ASSUME NEW i \in 1..Len(b) PROVE Byte(p + Len(a) + i - 1) = b[i]
    <3>1. /\ Len(a) + i \in 1..Len(abc) /\ Len(a) + i \in 1..Len(ab)
          /\ p + (Len(a) + i) - 1 = p + Len(a) + i - 1
      BY <2>1
    <3>2. Byte(p + (Len(a) + i) - 1) = abc[Len(a) + i]
      BY <1>8, <3>1, Zenon
    <3>3. abc[Len(a) + i] = ab[Len(a) + i] /\ ab[Len(a) + i] = b[i]
      BY <1>1, <1>3, <3>1, Zenon
    <3> QED
      BY <3>1, <3>2, <3>3, Zenon
  <2> QED
    BY <2>2
<1>11. \A i \in 1..Len(c) : Byte(p + Len(a) + Len(b) + i - 1) = c[i]
  <2>1. ASSUME NEW i \in 1..Len(c) PROVE Byte(p + Len(a) + Len(b) + i - 1) = c[i]
    <3>1. /\ Len(ab) + i \in 1..Len(abc)
          /\ p + (Len(ab) + i) - 1 = p + Len(a) + Len(b) + i - 1
      BY <1>1, <1>3
    <3>2. Byte(p + (Len(ab) + i) - 1) = abc[Len(ab) + i]
      BY <1>8, <3>1, Zenon
    <3>3. abc[Len(ab) + i] = c[i]
      BY <1>3, Zenon
    <3> QED
      BY <3>1, <3>2, <3>3, Zenon
  <2> QED
    BY <2>1
<1>12. Len(d) = Align4(Len(a) + Len(b) + Len(c))
  BY <1>5, <1>7, Zenon
<1>13. \A i \in 1..Align4(Len(a) + Len(b) + Len(c)) :
         i > Len(a) + Len(b) + Len(c) => Byte(p + i - 1) = 0
  BY <1>5, <1>6, <1>7, Zenon
<1> QED
  BY <1>9, <1>10, <1>11, <1>12, <1>13, Zenon DEF d, abc, ab

LEMMA WordLies ==
  ASSUME NEW p \in Nat, NEW n \in Words,
         \A i \in 1..Len(Word(n)) : Byte(p + i - 1) = Word(n)[i]
  PROVE  WordAt(p, n)
<1> DEFINE w == Word(n)
<1>1. /\ Len(w) = 4
      /\ w[1] = n % 256 /\ w[2] = n \div 256 /\ w[3] = 0 /\ w[4] = 0
  BY WordBytes
<1> HIDE DEF w
<1>2. \A i \in 1..4 : Byte(p + i - 1) = w[i]
  BY <1>1 DEF w
<1>3. /\ Byte(p + 1 - 1) = w[1] /\ Byte(p + 2 - 1) = w[2]
      /\ Byte(p + 3 - 1) = w[3] /\ Byte(p + 4 - 1) = w[4]
  BY <1>2
<1>4. p + 1 - 1 = p /\ p + 2 - 1 = p + 1 /\ p + 3 - 1 = p + 2 /\ p + 4 - 1 = p + 3
  OBVIOUS
<1> QED
  BY <1>1, <1>3, <1>4 DEF WordAt

LEMMA Utf8Lies ==
  ASSUME NEW p \in Nat, NEW s \in Text, Len(s) \in Lengths,
         Lies(p, Padded(Word(Len(s)) \o s \o << 0 >>))
  PROVE  Utf8StringAt(p, p + Len(Padded(Word(Len(s)) \o s \o << 0 >>)), s)
<1> DEFINE w == Word(Len(s))
           z == << 0 >>
           d == Padded(w \o s \o z)
<1>1. Len(s) \in Nat /\ Len(s) \in Words /\ s \in Octets
  BY WordRange, OctetRange, AsciiRange DEF Text, Octets
<1>2. w \in Octets /\ Len(w) = 4
  BY <1>1, WordBytes
<1>3. z \in Octets /\ Len(z) = 1 /\ z[1] = 0
  BY OctetRange DEF Octets
<1> HIDE DEF w, z
<1>4. w \in Octets /\ s \in Octets /\ z \in Octets /\ Lies(p, d)
  BY <1>1, <1>2, <1>3 DEF w, z
<1>5. /\ Len(d) = Align4(Len(w) + Len(s) + Len(z))
      /\ \A i \in 1..Len(w) : Byte(p + i - 1) = w[i]
      /\ \A i \in 1..Len(s) : Byte(p + Len(w) + i - 1) = s[i]
      /\ \A i \in 1..Len(z) : Byte(p + Len(w) + Len(s) + i - 1) = z[i]
      /\ \A i \in 1..Align4(Len(w) + Len(s) + Len(z)) :
           i > Len(w) + Len(s) + Len(z) => Byte(p + i - 1) = 0
  BY <1>4, PartsLie, Zenon
<1> HIDE DEF d
<1>6. Len(d) = Align4(4 + Len(s) + 1)
  BY <1>2, <1>3, <1>5, Zenon
<1>7. WordAt(p, Len(s))
  BY <1>1, <1>5, WordLies, Zenon DEF w
<1>8. ASSUME NEW j \in 1..Len(s) PROVE Byte(p + 3 + j) = s[j]
  <2>1. p + Len(w) + j - 1 = p + 3 + j
    BY <1>1, <1>2
  <2> QED
    BY <1>5, <2>1, Zenon
<1>9. Byte(p + 4 + Len(s)) = 0
  <2>1. p + Len(w) + Len(s) + 1 - 1 = p + 4 + Len(s) /\ 1 \in 1..Len(z)
    BY <1>1, <1>2, <1>3
  <2> QED
    BY <1>3, <1>5, <2>1, Zenon
<1>10. ASSUME Len(s) = 0 PROVE Byte(p + 5) = 0
  <2>1. p + 6 - 1 = p + 5 /\ Len(w) + Len(s) + Len(z) = 5 /\ 6 \in 1..Align4(5) /\ 6 > 5
    BY <1>2, <1>3, <1>10 DEF Align4
  <2>2. Byte(p + 6 - 1) = 0
    BY <1>5, <2>1, Zenon
  <2> QED
    BY <2>1, <2>2
<1>11. Utf8StringAt(p, p + Len(d), s)
  BY <1>6, <1>7, <1>8, <1>9, <1>10, Zenon DEF Utf8StringAt
<1> QED
  BY <1>11, Zenon DEF d, w, z

LEMMA Utf16Lies ==
  ASSUME NEW p \in Nat, NEW s \in Text, Len(s) \in Lengths,
         Lies(p, Padded(Word(Len(s)) \o Wide(s) \o <<0, 0>>))
  PROVE  Utf16StringAt(p, p + Len(Padded(Word(Len(s)) \o Wide(s) \o <<0, 0>>)), s)
<1> DEFINE L == Len(s)
           w == Word(Len(s))
           v == Wide(s)
           z == <<0, 0>>
           d == Padded(w \o v \o z)
<1>1. Len(s) \in Nat /\ Len(s) \in Words
  BY WordRange DEF Text
<1>2. w \in Octets /\ Len(w) = 4
  BY <1>1, WordBytes
<1>3. /\ v \in Octets /\ Len(v) = 2 * L
      /\ \A j \in 1..L : v[2 * j - 1] = s[j] /\ v[2 * j] = 0
  <2>1. v = [i \in 1..(2 * L) |-> IF i % 2 = 1 THEN s[(i + 1) \div 2] ELSE 0]
    BY DEF Wide
  <2>2. v \in Octets
    BY WideOctets
  <2>3. ASSUME NEW j \in 1..L PROVE v[2 * j - 1] = s[j] /\ v[2 * j] = 0
    <3>1. /\ 2 * j - 1 \in 1..(2 * L) /\ 2 * j \in 1..(2 * L)
          /\ (2 * j - 1) % 2 = 1 /\ (2 * j) % 2 # 1 /\ ((2 * j - 1) + 1) \div 2 = j
      BY <1>1
    <3> QED
      BY <2>1, <3>1
  <2> HIDE DEF L, v
  <2>4. L \in Nat
    BY <1>1 DEF L
  <2>5. Len(v) = 2 * L
    BY <2>1, <2>2, <2>4 DEF Octets
  <2> QED
    BY <2>2, <2>3, <2>5
<1>4. z \in Octets /\ Len(z) = 2 /\ z[1] = 0 /\ z[2] = 0
  BY OctetRange DEF Octets
<1> HIDE DEF w, v, z
<1>5. w \in Octets /\ v \in Octets /\ z \in Octets /\ Lies(p, d)
  BY <1>2, <1>3, <1>4, Zenon DEF w, v, z
<1>6. /\ Len(d) = Align4(Len(w) + Len(v) + Len(z))
      /\ \A i \in 1..Len(w) : Byte(p + i - 1) = w[i]
      /\ \A i \in 1..Len(v) : Byte(p + Len(w) + i - 1) = v[i]
      /\ \A i \in 1..Len(z) : Byte(p + Len(w) + Len(v) + i - 1) = z[i]
  BY <1>5, PartsLie, Zenon
<1> HIDE DEF d
<1>7. Len(d) = Align4(4 + 2 * Len(s) + 2)
  BY <1>2, <1>3, <1>4, <1>6, Zenon
<1>8. WordAt(p, Len(s))
  BY <1>1, <1>6, WordLies, Zenon DEF w
<1>9. ASSUME NEW j \in 1..Len(s)
      PROVE  Byte(p + 2 + 2 * j) = s[j] /\ Byte(p + 3 + 2 * j) = 0
  <2>1. /\ 2 * j - 1 \in 1..Len(v) /\ 2 * j \in 1..Len(v)
        /\ p + Len(w) + (2 * j - 1) - 1 = p + 2 + 2 * j
        /\ p + Len(w) + 2 * j - 1 = p + 3 + 2 * j
    BY <1>1, <1>2, <1>3
  <2>2. Byte(p + Len(w) + (2 * j - 1) - 1) = v[2 * j - 1] /\ Byte(p + Len(w) + 2 * j - 1) = v[2 * j]
    BY <1>6, <2>1, Zenon
  <2>3. v[2 * j - 1] = s[j] /\ v[2 * j] = 0
    BY <1>3
  <2> QED
    BY <2>1, <2>2, <2>3, Zenon
<1>10. Byte(p + 4 + 2 * Len(s)) = 0 /\ Byte(p + 5 + 2 * Len(s)) = 0
  <2>1. /\ p + Len(w) + Len(v) + 1 - 1 = p + 4 + 2 * Len(s) /\ 1 \in 1..Len(z)
        /\ p + Len(w) + Len(v) + 2 - 1 = p + 5 + 2 * Len(s) /\ 2 \in 1..Len(z)
    BY <1>1, <1>2, <1>3, <1>4
  <2> QED
    BY <1>4, <1>6, <2>1, Zenon
<1>11. Utf16StringAt(p, p + Len(d), s)
  BY <1>7, <1>8, <1>9, <1>10, Zenon DEF Utf16StringAt
<1> QED
  BY <1>11, Zenon DEF d, w, v, z

\* What read_strings makes of an item it stands at.
LEMMA ReadsWord ==
  ASSUME NEW p \in Nat, NEW n \in Words, WordAt(p, n)
  PROVE  Int32(p) = n
<1> DEFINE x == n % 256
           y == n \div 256
<1>1. x \in Nat /\ y \in Nat /\ x + 256 * y = n
  BY WordRange
<1>2. Byte(p) = x /\ Byte(p + 1) = y /\ Byte(p + 2) = 0 /\ Byte(p + 3) = 0
  BY DEF WordAt
<1> HIDE DEF x, y
<1> QED
  BY <1>1, <1>2 DEF Int32

LEMMA ReadsNull ==
  ASSUME NEW p \in Nat, NEW q, NullAt(p, q)
  PROVE  Int32(p) = -1
<1>1. Byte(p + 0) = 255 /\ Byte(p + 1) = 255 /\ Byte(p + 2) = 255 /\ Byte(p + 3) = 255
  BY DEF NullAt
<1> QED
  BY <1>1 DEF Int32

LEMMA SliceIs ==
  ASSUME NEW i \in Nat, NEW t \in Text,
         \A j \in 1..Len(t) : Byte(i + j - 1) = t[j]
  PROVE  Slice(i, Len(t)) = t
<1> DEFINE n == Len(t)
           m == i + 1
           e == i + n
           u == SubSeq(bytes, m, e)
<1>1. n \in Nat /\ m \in Int /\ e \in Int /\ e - m + 1 = n
  BY DEF Text
<1>2. \A k \in m..e : bytes[k] \in Ascii
  <2>1. ASSUME NEW k \in m..e PROVE bytes[k] \in Ascii
    <3>1. k - i \in 1..n /\ i + (k - i) - 1 + 1 = k
      BY <1>1
    <3>2. Byte(i + (k - i) - 1) = t[k - i]
      BY <3>1
    <3>3. t[k - i] \in Ascii
      BY <3>1 DEF Text
    <3> QED
      BY <3>1, <3>2, <3>3 DEF Byte
  <2> QED
    BY <2>1
<1>3. /\ u \in Seq(Ascii) /\ Len(u) = IF m <= e THEN e - m + 1 ELSE 0
      /\ \A j \in 1..(e - m + 1) : u[j] = bytes[m + j - 1]
  <2> HIDE DEF m, e
  <2> QED
    BY <1>1, <1>2, SubSeqProperties
<1>4. Len(u) = n
  <2>1. m <= e <=> n >= 1
    BY <1>1
  <2> HIDE DEF m, e, u, n
  <2> QED
    BY <1>1, <1>3, <2>1
<1>5. ASSUME NEW j \in 1..n PROVE u[j] = t[j]
  <2>1. m + j - 1 = i + j - 1 + 1 /\ j \in 1..(e - m + 1)
    BY <1>1
  <2>2. u[j] = bytes[m + j - 1]
    BY <1>3, <2>1, Zenon
  <2>3. bytes[m + j - 1] = Byte(i + j - 1)
    BY <2>1 DEF Byte
  <2> QED
    BY <2>2, <2>3
<1> HIDE DEF u
<1>6. u = t
  BY <1>3, <1>4, <1>5, SeqEqual DEF Text
<1> QED
  BY <1>6 DEF u, Slice

\* Text is printable, and has a first character and so on if it is long enough.
LEMMA TextPrintable ==
  ASSUME NEW t \in Text
  PROVE  Printable(t) /\ Len(t) \in Nat
  BY DEF Text, Printable

LEMMA ReadsUtf8 ==
  ASSUME at \in Nat, Total \in Nat, NEW q \in Nat, q <= Total,
         NEW t \in Text, Len(t) \in Lengths, t # <<>>, Utf8StringAt(at, q, t)
  PROVE  /\ Int32(at) = Len(t) /\ Utf8At(at)
         /\ Slice(at + 4, Len(t)) = t
         /\ at + Align4(4 + Len(t) + 1) = q
<1> DEFINE L == Len(t)
<1>1. L \in Nat /\ L > 0 /\ L < 4000 /\ L \in Words
  <2>1. L \in Nat /\ L # 0
    BY DEF Text
  <2> QED
    BY <2>1, LengthRange, WordRange
<1>2. Int32(at) = L
  BY <1>1, ReadsWord DEF Utf8StringAt
<1>3. Slice(at + 4, L) = t
  <2>1. \A j \in 1..L : Byte(at + 4 + j - 1) = t[j]
    <3>1. ASSUME NEW j \in 1..L PROVE Byte(at + 4 + j - 1) = t[j]
      <4>1. at + 4 + j - 1 = at + 3 + j
        BY <1>1
      <4> QED
        BY <4>1 DEF Utf8StringAt
    <3> QED
      BY <3>1
  <2> HIDE DEF L
  <2>2. at + 4 \in Nat
    OBVIOUS
  <2> QED
    BY <2>1, <2>2, SliceIs DEF L
<1>4. q = at + Align4(4 + L + 1) /\ Byte(at + 4 + L) = 0
  BY DEF Utf8StringAt
<1>5. at + 4 + L + 1 <= Total
  BY <1>1, <1>4 DEF Align4
<1>6. Utf8At(at)
  BY <1>1, <1>2, <1>3, <1>4, <1>5, TextPrintable DEF Utf8At
<1> QED
  BY <1>2, <1>3, <1>4, <1>6

LEMMA UnitsAre ==
  ASSUME at \in Nat, NEW t \in Text,
         \A j \in 1..Len(t) : Byte(at + 2 + 2 * j) = t[j] /\ Byte(at + 3 + 2 * j) = 0
  PROVE  Units(at, Len(t)) = t
<1>1. Len(t) \in Nat /\ t = [j \in 1..Len(t) |-> t[j]]
  BY DEF Text
<1>2. ASSUME NEW j \in 1..Len(t)
      PROVE  Byte(at + 2 * j + 2) + 256 * Byte(at + 2 * j + 3) = t[j]
  <2>1. at + 2 * j + 2 = at + 2 + 2 * j /\ at + 2 * j + 3 = at + 3 + 2 * j
    BY <1>1
  <2>2. t[j] \in Nat
    BY AsciiRange DEF Text
  <2> QED
    BY <2>1, <2>2
<1> QED
  BY <1>1, <1>2 DEF Units

\* An unprintable character among those that a length claims.
LEMMA Unprintable ==
  ASSUME at \in Nat, NEW n \in Nat, NEW j \in 1..n, Byte(at + 3 + j) \notin Ascii
  PROVE  ~ Printable(Slice(at + 4, n))
<1> DEFINE m == at + 4 + 1
           e == at + 4 + n
           u == SubSeq(bytes, m, e)
<1>1. m \in Int /\ e \in Int /\ e - m + 1 = n /\ m + j - 1 = at + 3 + j + 1
  OBVIOUS
<1>2. u = Slice(at + 4, n)
  BY DEF Slice
<1> HIDE DEF m, e
<1>3. DOMAIN u = 1..n /\ u[j] = bytes[m + j - 1]
  BY <1>1
<1>4. bytes[m + j - 1] \notin Ascii
  BY <1>1 DEF Byte
<1> HIDE DEF u
<1> QED
  BY <1>2, <1>3, <1>4 DEF Printable

LEMMA ReadsUtf16 ==
  ASSUME at \in Nat, Total \in Nat, NEW q \in Nat, q <= Total,
         NEW t \in Text, Len(t) \in Lengths, Utf16StringAt(at, q, t)
  PROVE  /\ Int32(at) = Len(t)
         /\ Len(t) = 1 => /\ Utf8At(at) /\ Slice(at + 4, Len(t)) = t
                          /\ at + Align4(4 + Len(t) + 1) = q
         /\ Len(t) # 1 => /\ ~ Utf8At(at) /\ Utf16At(at) /\ Units(at, Len(t)) = t
                          /\ at + Align4(4 + 2 * Len(t) + 2) = q
<1> DEFINE L == Len(t)
<1>1. L \in Nat /\ L < 4000 /\ L \in Words
  BY LengthRange, WordRange
<1>2. Int32(at) = L
  BY <1>1, ReadsWord DEF Utf16StringAt
<1>3. /\ q = at + Align4(4 + 2 * L + 2)
      /\ \A j \in 1..L : Byte(at + 2 + 2 * j) = t[j] /\ Byte(at + 3 + 2 * j) = 0
      /\ Byte(at + 4 + 2 * L) = 0 /\ Byte(at + 5 + 2 * L) = 0
  BY DEF Utf16StringAt
<1>4. at + 4 + 2 * L + 2 <= Total
  BY <1>1, <1>3 DEF Align4
<1>5. ASSUME L = 1
      PROVE  Utf8At(at) /\ Slice(at + 4, L) = t /\ at + Align4(4 + L + 1) = q
  <2>1. Byte(at + 4) = t[1] /\ Byte(at + 5) = 0
    <3>1. 1 \in 1..L /\ at + 2 + 2 * 1 = at + 4 /\ at + 3 + 2 * 1 = at + 5
      BY <1>5
    <3> QED
      BY <1>3, <3>1
  <2>2. \A j \in 1..L : Byte(at + 4 + j - 1) = t[j]
    <3>1. at + 4 + 1 - 1 = at + 4
      OBVIOUS
    <3>2. \A j \in 1..L : j = 1
      BY <1>5
    <3> QED
      BY <2>1, <3>1, <3>2
  <2>3. at + 4 \in Nat
    OBVIOUS
  <2> HIDE DEF L
  <2>4. Slice(at + 4, L) = t
    BY <2>2, <2>3, SliceIs DEF L
  <2>5. Align4(4 + L + 1) = 8 /\ Align4(4 + 2 * L + 2) = 8
    BY <1>5 DEF Align4
  <2>6. Byte(at + 4 + L) = 0 /\ at + 4 + L + 1 <= Total
    <3>1. at + 4 + L = at + 5
      BY <1>5
    <3> QED
      BY <1>4, <1>5, <2>1, <3>1
  <2>7. Utf8At(at)
    BY <1>1, <1>2, <1>5, <2>4, <2>6, TextPrintable DEF Utf8At
  <2> QED
    BY <1>3, <2>4, <2>5, <2>7
<1>6. ASSUME L # 1
      PROVE  ~ Utf8At(at) /\ Utf16At(at) /\ Units(at, L) = t
  <2>1. Units(at, L) = t
    BY <1>3, UnitsAre
  <2>2. Slice(at + 4 + 2 * L, 2) = <<0, 0>>
    <3> DEFINE m == at + 4 + 2 * L + 1
               e == at + 4 + 2 * L + 2
               u == SubSeq(bytes, m, e)
    <3>1. m \in Int /\ e \in Int /\ e - m + 1 = 2 /\ m + 1 - 1 = at + 4 + 2 * L + 1 /\ m + 2 - 1 = at + 5 + 2 * L + 1
      BY <1>1
    <3>2. Slice(at + 4 + 2 * L, 2) = u
      BY DEF Slice
    <3>3. bytes[at + 4 + 2 * L + 1] = 0 /\ bytes[at + 5 + 2 * L + 1] = 0
      BY <1>3 DEF Byte
    <3> HIDE DEF m, e, L
    <3>4. e = m + 1 /\ bytes[m] = 0 /\ bytes[m + 1] = 0
      BY <3>1, <3>3
    <3>5. \A i \in m..e : bytes[i] \in {0}
      BY <3>1, <3>4
    <3>6. u \in Seq({0}) /\ Len(u) = IF m <= e THEN e - m + 1 ELSE 0
      BY <3>1, <3>5, SubSeqProperties
    <3>7. Len(u) = 2
      BY <3>1, <3>4, <3>6
    <3> HIDE DEF u
    <3>8. u[1] = 0 /\ u[2] = 0
      <4>1. 1 \in 1..Len(u) /\ 2 \in 1..Len(u)
        BY <3>7
      <4> QED
        BY <3>6, <4>1, ElementOfSeq
    <3> DEFINE z == <<0, 0>>
    <3>9. z \in Seq({0}) /\ Len(z) = 2 /\ z[1] = 0 /\ z[2] = 0
      OBVIOUS
    <3> HIDE DEF z
    <3>10. \A i \in 1..2 : u[i] = z[i]
      BY <3>8, <3>9
    <3>11. u = z
      BY <3>6, <3>7, <3>9, <3>10, SeqEqual
    <3> QED
      BY <3>2, <3>11 DEF z
  <2>3. Utf16At(at)
    BY <1>1, <1>2, <1>4, <2>1, <2>2, TextPrintable DEF Utf16At
  <2>4. ~ Utf8At(at)
    <3>1. CASE L = 0
      BY <1>2, <3>1 DEF Utf8At
    <3>2. CASE L >= 2
      <4>1. Byte(at + 3 + 2) \notin Ascii
        <5>1. 1 \in 1..L /\ at + 3 + 2 * 1 = at + 3 + 2
          BY <1>1, <3>2
        <5>2. Byte(at + 3 + 2) = 0
          BY <1>3, <5>1
        <5> QED
          BY <5>2, AsciiRange
      <4>2. 2 \in 1..L
        BY <1>1, <3>2
      <4>3. ~ Printable(Slice(at + 4, L))
        BY <1>1, <4>1, <4>2, Unprintable
      <4> QED
        BY <1>2, <4>3 DEF Utf8At
    <3> HIDE DEF L
    <3> QED
      BY <1>1, <1>6, <3>1, <3>2
  <2> QED
    BY <2>1, <2>3, <2>4
<1> QED
  BY <1>2, <1>3, <1>5, <1>6

\* What must be there for bytes to be taken for a string.
LEMMA TakenForUtf8 ==
  ASSUME at \in Nat, Int32(at) \in Int, Utf8At(at)
  PROVE  /\ Int32(at) > 0 /\ Int32(at) < 4000 /\ at + 4 + Int32(at) + 1 <= Total
         /\ Byte(at + 4) \in Ascii
         /\ Int32(at) >= 2 => Byte(at + 5) \in Ascii
<1> DEFINE n == Int32(at)
<1>1. n \in Nat /\ n > 0 /\ n < 4000 /\ at + 4 + n + 1 <= Total /\ Printable(Slice(at + 4, n))
  BY DEF Utf8At
<1> HIDE DEF n
<1>2. \A j \in 1..n : Byte(at + 3 + j) \in Ascii
  <2>1. ASSUME NEW j \in 1..n, Byte(at + 3 + j) \notin Ascii PROVE FALSE
    <3>1. n \in Nat /\ at \in Nat
      BY <1>1
    <3>2. ~ Printable(Slice(at + 4, n))
      BY <2>1, <3>1, Unprintable, Zenon
    <3> QED
      BY <1>1, <3>2
  <2> QED
    BY <2>1
<1>3. at + 3 + 1 = at + 4 /\ at + 3 + 2 = at + 5 /\ 1 \in 1..n /\ (n >= 2 => 2 \in 1..n)
  BY <1>1
<1> QED
  BY <1>1, <1>2, <1>3 DEF n

LEMMA TakenForUtf16 ==
  ASSUME at \in Nat, Int32(at) \in Int, Utf16At(at)
  PROVE  /\ Int32(at) >= 0 /\ Int32(at) < 4000 /\ at + 4 + 2 * Int32(at) + 2 <= Total
         /\ Int32(at) = 0 => Byte(at + 4) = 0 /\ Byte(at + 5) = 0
         /\ Int32(at) >= 1 => Byte(at + 4) + 256 * Byte(at + 5) \in Ascii
         /\ Int32(at) >= 2 => Byte(at + 6) + 256 * Byte(at + 7) \in Ascii
<1> DEFINE n == Int32(at)
<1>1. /\ n \in Nat /\ n < 4000 /\ at + 4 + 2 * n + 2 <= Total
      /\ Printable(Units(at, n)) /\ Slice(at + 4 + 2 * n, 2) = <<0, 0>>
  BY DEF Utf16At
<1> HIDE DEF n
<1>2. \A j \in 1..n : Byte(at + 2 * j + 2) + 256 * Byte(at + 2 * j + 3) \in Ascii
  <2> DEFINE u == Units(at, n)
  <2>1. DOMAIN u = 1..n /\ \A j \in 1..n : u[j] = Byte(at + 2 * j + 2) + 256 * Byte(at + 2 * j + 3)
    BY DEF Units
  <2>2. \A j \in DOMAIN u : u[j] \in Ascii
    BY <1>1 DEF Printable
  <2> HIDE DEF u
  <2> QED
    BY <2>1, <2>2
<1>3. n >= 1 => Byte(at + 4) + 256 * Byte(at + 5) \in Ascii
  <2>1. at + 2 * 1 + 2 = at + 4 /\ at + 2 * 1 + 3 = at + 5 /\ (n >= 1 => 1 \in 1..n)
    BY <1>1
  <2> QED
    BY <1>2, <2>1
<1>4. n >= 2 => Byte(at + 6) + 256 * Byte(at + 7) \in Ascii
  <2>1. at + 2 * 2 + 2 = at + 6 /\ at + 2 * 2 + 3 = at + 7 /\ (n >= 2 => 2 \in 1..n)
    BY <1>1
  <2> QED
    BY <1>2, <2>1
<1>5. n = 0 => Byte(at + 4) = 0 /\ Byte(at + 5) = 0
  <2> SUFFICES ASSUME n = 0 PROVE Byte(at + 4) = 0 /\ Byte(at + 5) = 0
    OBVIOUS
  <2> DEFINE m == at + 4 + 1
             e == at + 4 + 2
             u == SubSeq(bytes, m, e)
  <2>1. m \in Int /\ e \in Int /\ e - m + 1 = 2 /\ m + 1 - 1 = at + 4 + 1 /\ m + 2 - 1 = at + 5 + 1
    OBVIOUS
  <2>2. at + 4 + 2 * n = at + 4
    OBVIOUS
  <2>3. u = <<0, 0>>
    BY <1>1, <2>2 DEF Slice
  <2> HIDE DEF m, e
  <2>4. u[1] = bytes[m + 1 - 1] /\ u[2] = bytes[m + 2 - 1]
    BY <2>1
  <2> HIDE DEF u
  <2>5. u[1] = 0 /\ u[2] = 0
    BY <2>3
  <2> QED
    BY <2>1, <2>4, <2>5 DEF Byte
<1> QED
  BY <1>1, <1>3, <1>4, <1>5 DEF n

\* What may come after an integer (Lone): the end, a null, or a string that has a
\* first character and is shorter than 32 after a 1.
StringHeadAt(p, n) ==
  \E L \in Lengths : /\ L > 0 /\ (n = 1 => L < 32)
                     /\ WordAt(p, L) /\ Byte(p + 4) \in Ascii

\* None of the four places from the start of an integer on passes for a string.
LEMMA IntAtEnd ==
  ASSUME at \in Nat, Total \in Nat, at <= Total - 4, NEW p \in Nat, NEW d \in 0..3, at = p + d,
         NEW n \in Words, WordAt(p, n), Total = p + 4
  PROVE  Int32(at) # -1 /\ ~ Utf8At(at) /\ ~ Utf16At(at)
<1>1. at = p
  OBVIOUS
<1>2. Int32(at) = n /\ n \in Nat
  BY <1>1, ReadsWord, WordRange
<1>3. ~ Utf8At(at)
  BY <1>1, <1>2, TakenForUtf8
<1>4. ~ Utf16At(at)
  BY <1>1, <1>2, TakenForUtf16
<1> QED
  BY <1>2, <1>3, <1>4

LEMMA IntBeforeNull ==
  ASSUME at \in Nat, NEW p \in Nat, NEW d \in 0..3, at = p + d,
         NEW n \in Words, WordAt(p, n), NEW q, NullAt(p + 4, q)
  PROVE  Int32(at) # -1 /\ ~ Utf8At(at) /\ ~ Utf16At(at)
<1> DEFINE x == n \div 256
<1>1. n \in Nat /\ x \in 0..255
  BY WordRange
<1>2. /\ Byte(p + 1) = x /\ Byte(p + 2) = 0 /\ Byte(p + 3) = 0
      /\ Byte(p + 4) = 255 /\ Byte(p + 5) = 255 /\ Byte(p + 6) = 255
  <2>1. /\ Byte(p + 4 + 0) = 255 /\ Byte(p + 4 + 1) = 255 /\ Byte(p + 4 + 2) = 255
    BY DEF NullAt
  <2>2. p + 4 + 0 = p + 4 /\ p + 4 + 1 = p + 5 /\ p + 4 + 2 = p + 6
    OBVIOUS
  <2> QED
    BY <2>1, <2>2 DEF WordAt
<1> HIDE DEF x
<1>3. CASE d = 0
  <2>1. at = p /\ Int32(at) = n
    BY <1>3, ReadsWord
  <2>2. ~ Utf8At(at)
    BY <1>1, <1>2, <2>1, TakenForUtf8, AsciiRange
  <2>3. ~ Utf16At(at)
    BY <1>1, <1>2, <2>1, TakenForUtf16, AsciiRange
  <2> QED
    BY <1>1, <2>1, <2>2, <2>3
<1>4. CASE d # 0
  <2>1. Int32(at) \in Int /\ Int32(at) < -1
    <3>1. CASE d = 1
      <4>1. at = p + 1 /\ p + 1 + 1 = p + 2 /\ p + 1 + 2 = p + 3 /\ p + 1 + 3 = p + 4
        BY <3>1
      <4> QED
        BY <1>1, <1>2, <4>1 DEF Int32
    <3>2. CASE d = 2
      <4>1. at = p + 2 /\ p + 2 + 1 = p + 3 /\ p + 2 + 2 = p + 4 /\ p + 2 + 3 = p + 5
        BY <3>2
      <4> QED
        BY <1>2, <4>1 DEF Int32
    <3>3. CASE d = 3
      <4>1. at = p + 3 /\ p + 3 + 1 = p + 4 /\ p + 3 + 2 = p + 5 /\ p + 3 + 3 = p + 6
        BY <3>3
      <4> QED
        BY <1>2, <4>1 DEF Int32
    <3> QED
      BY <1>4, <3>1, <3>2, <3>3
  <2> QED
    BY <2>1, TakenForUtf8, TakenForUtf16
<1> QED
  BY <1>3, <1>4

LEMMA IntBeforeString ==
  ASSUME at \in Nat, NEW p \in Nat, NEW d \in 0..3, at = p + d,
         NEW n \in Words, WordAt(p, n), StringHeadAt(p + 4, n)
  PROVE  Int32(at) # -1 /\ ~ Utf8At(at) /\ ~ Utf16At(at)
<1>1. PICK L \in Lengths : /\ L > 0 /\ (n = 1 => L < 32)
                           /\ WordAt(p + 4, L) /\ Byte(p + 4 + 4) \in Ascii
  BY DEF StringHeadAt
<1> DEFINE x == n \div 256
           y == L % 256
           z == L \div 256
           c == Byte(p + 4 + 4)
<1>2. n \in Nat /\ x \in 0..255
  BY WordRange
<1>3. L \in Nat /\ y \in 0..255 /\ z \in 0..15 /\ L = y + 256 * z
  BY LengthRange
<1>4. /\ Byte(p + 1) = x /\ Byte(p + 2) = 0 /\ Byte(p + 3) = 0
      /\ Byte(p + 4) = y /\ Byte(p + 5) = z /\ Byte(p + 6) = 0 /\ Byte(p + 7) = 0
      /\ Byte(p + 8) = c
  <2>1. /\ Byte(p + 4) = y /\ Byte(p + 4 + 1) = z /\ Byte(p + 4 + 2) = 0 /\ Byte(p + 4 + 3) = 0
    BY <1>1 DEF WordAt
  <2>2. p + 4 + 1 = p + 5 /\ p + 4 + 2 = p + 6 /\ p + 4 + 3 = p + 7 /\ p + 4 + 4 = p + 8
    OBVIOUS
  <2> QED
    BY <2>1, <2>2 DEF WordAt
<1>5. c \in Nat /\ 32 <= c
  BY <1>1, AsciiRange
<1> HIDE DEF x, y, z, c
<1>6. CASE d = 0
  <2>1. at = p /\ Int32(at) = n
    BY <1>6, ReadsWord
  <2>2. ~ Utf8At(at)
    <3> SUFFICES ASSUME Utf8At(at) PROVE FALSE
      OBVIOUS
    <3>1. n > 0 /\ y \in Ascii /\ (n >= 2 => z \in Ascii)
      BY <1>2, <1>4, <2>1, TakenForUtf8
    <3>2. n = 1 /\ L < 32
      BY <1>1, <1>2, <1>3, <3>1, AsciiRange
    <3> QED
      BY <1>3, <3>1, <3>2, AsciiRange
  <2>3. ~ Utf16At(at)
    <3> SUFFICES ASSUME Utf16At(at) PROVE FALSE
      OBVIOUS
    <3>1. /\ n = 0 => y = 0 /\ z = 0
          /\ n >= 1 => y + 256 * z \in Ascii
          /\ n >= 2 => 0 + 256 * 0 \in Ascii
      BY <1>2, <1>4, <2>1, TakenForUtf16
    <3>2. n = 1 /\ L < 32
      BY <1>1, <1>2, <1>3, <3>1, AsciiRange
    <3> QED
      BY <1>3, <3>1, <3>2, AsciiRange
  <2> QED
    BY <1>2, <2>1, <2>2, <2>3
<1>7. CASE d = 1
  <2>1. at = p + 1 /\ p + 1 + 1 = p + 2 /\ p + 1 + 2 = p + 3 /\ p + 1 + 3 = p + 4 /\ at + 4 = p + 5 /\ at + 5 = p + 6
    BY <1>7
  <2>2. Int32(at) = x + 16777216 * (IF y > 127 THEN y - 256 ELSE y)
    BY <1>2, <1>3, <1>4, <2>1 DEF Int32
  <2>3. CASE y # 0
    <3>1. Int32(at) \in Int /\ (Int32(at) < -1 \/ Int32(at) > 4000)
      BY <1>2, <1>3, <2>2, <2>3
    <3> QED
      BY <3>1, TakenForUtf8, TakenForUtf16
  <2>4. CASE y = 0
    <3>1. Int32(at) = x /\ Int32(at) \in Int
      BY <1>2, <2>2, <2>4
    <3>2. z > 0
      BY <1>1, <1>3, <2>4
    <3>3. ~ Utf8At(at)
      BY <1>3, <1>4, <2>1, <3>1, TakenForUtf8, AsciiRange
    <3>4. ~ Utf16At(at)
      <4> SUFFICES ASSUME Utf16At(at) PROVE FALSE
        OBVIOUS
      <4>1. x = 0 => z = 0
        BY <1>4, <2>1, <3>1, TakenForUtf16
      <4>2. x >= 1 => z + 256 * 0 \in Ascii
        BY <1>4, <2>1, <3>1, TakenForUtf16
      <4> QED
        BY <1>2, <1>3, <3>2, <4>1, <4>2, AsciiRange
    <3> QED
      BY <1>2, <3>1, <3>3, <3>4
  <2> QED
    BY <2>3, <2>4
<1>8. CASE d = 2
  <2>1. at = p + 2 /\ p + 2 + 1 = p + 3 /\ p + 2 + 2 = p + 4 /\ p + 2 + 3 = p + 5
    BY <1>8
  <2>2. Int32(at) = 65536 * y + 16777216 * z
    BY <1>3, <1>4, <2>1 DEF Int32
  <2>3. Int32(at) \in Int /\ Int32(at) > 4000
    BY <1>1, <1>3, <2>2
  <2> QED
    BY <2>3, TakenForUtf8, TakenForUtf16
<1>9. CASE d = 3
  <2>1. at = p + 3 /\ p + 3 + 1 = p + 4 /\ p + 3 + 2 = p + 5 /\ p + 3 + 3 = p + 6 /\ at + 4 = p + 7 /\ at + 5 = p + 8
    BY <1>9
  <2>2. Int32(at) = 256 * y + 65536 * z
    BY <1>3, <1>4, <2>1 DEF Int32
  <2>3. Int32(at) \in Int /\ Int32(at) > 0
    BY <1>1, <1>3, <2>2
  <2>4. ~ Utf8At(at)
    BY <1>4, <2>1, <2>3, TakenForUtf8, AsciiRange
  <2>5. ~ Utf16At(at)
    <3> SUFFICES ASSUME Utf16At(at) PROVE FALSE
      OBVIOUS
    <3>1. 0 + 256 * c \in Ascii
      BY <1>4, <2>1, <2>3, TakenForUtf16
    <3> QED
      BY <1>5, <3>1, AsciiRange
  <2> QED
    BY <2>3, <2>4, <2>5
<1> QED
  BY <1>6, <1>7, <1>8, <1>9

\* off has where each item begins, and at its end where the file does.
Laid(off) ==
  /\ off \in [1..(Len(items) + 1) -> Nat]
  /\ off[1] = 0 /\ off[Len(items) + 1] = Total
  /\ \A i \in DOMAIN items : /\ off[i + 1] = off[i] + Len(Bytes(items[i]))
                             /\ off[i + 1] <= Total
                             /\ Lies(off[i], Bytes(items[i]))

\* Every integer is one that the reader gets over.
Readable == \A i \in DOMAIN items : items[i].k = "int" => Lone(i)

Texts == [i \in DOMAIN items |-> items[i].s]

\* The reader stands at item k, or within it if it is an integer, and has found the
\* names before it.
ReadUpTo(off, k) ==
  /\ \/ at = off[k]
     \/ k <= Len(items) /\ items[k].k = "int" /\ at \in off[k]..(off[k] + 3)
  /\ Values = Picked(Texts, {i \in Named : i < k})

\* Nothing is said of a Parcel that is still written: it may become readable, and
\* stop being it.
PInv ==
  /\ PTyped
  /\ ~reading => at = 0 /\ found = <<>>
  /\ \E off : /\ Laid(off)
              /\ reading /\ Readable => \E k \in 1..(Len(items) + 1) : ReadUpTo(off, k)

\* What a written item is, and that the next one begins after it.
LEMMA ItemShape ==
  ASSUME NEW item \in Items
  PROVE  \/ item.k = "null" /\ item.s = <<>>
         \/ item.k = "int" /\ item.n \in Words /\ item.s = <<>>
         \/ item.k \in {"utf8", "utf16"} /\ item.s \in Text /\ item.s \in Strings
  BY ParcelAssumption, WordRange DEF Items, Text

LEMMA ItemLies ==
  ASSUME Short, NEW item \in Items, NEW p \in Nat, NEW q, Lies(p, Bytes(item)), q = p + Len(Bytes(item))
  PROVE  /\ item.k = "null" => NullAt(p, q)
         /\ item.k = "int" => IntAt(p, q, item.n)
         /\ item.k = "utf8" => Utf8StringAt(p, q, item.s)
         /\ item.k = "utf16" => Utf16StringAt(p, q, item.s)
<1>1. CASE item.k = "null"
  <2> DEFINE b == <<255, 255, 255, 255>>
  <2>1. Bytes(item) = b
    BY <1>1 DEF Bytes
  <2>2. Len(b) = 4 /\ b[1] = 255 /\ b[2] = 255 /\ b[3] = 255 /\ b[4] = 255
    OBVIOUS
  <2> HIDE DEF b
  <2>3. \A i \in 1..4 : Byte(p + i - 1) = b[i]
    BY <2>1, <2>2 DEF Lies
  <2>4. ASSUME NEW j \in 0..3 PROVE Byte(p + j) = 255
    <3>1. j + 1 \in 1..4 /\ p + (j + 1) - 1 = p + j
      OBVIOUS
    <3>2. Byte(p + (j + 1) - 1) = b[j + 1]
      BY <2>3, <3>1
    <3>3. b[j + 1] = 255
      BY <2>2, <3>1
    <3> QED
      BY <3>1, <3>2, <3>3
  <2> QED
    BY <1>1, <2>1, <2>2, <2>4 DEF NullAt
<1>2. CASE item.k = "int"
  <2>1. item.n \in Words /\ Bytes(item) = Word(item.n)
    BY <1>2, ItemShape DEF Bytes
  <2>2. WordAt(p, item.n)
    BY <2>1, WordLies DEF Lies
  <2>3. Len(Word(item.n)) = 4
    BY <2>1, WordBytes
  <2>4. IntAt(p, q, item.n)
    BY <2>1, <2>2, <2>3 DEF IntAt
  <2> QED
    BY <1>2, <2>4
<1>3. CASE item.k = "utf8"
  <2>1. /\ item.s \in Text /\ Len(item.s) \in Lengths
        /\ Bytes(item) = Padded(Word(Len(item.s)) \o item.s \o <<0>>)
    BY <1>3, ItemShape DEF Bytes, Short
  <2>2. Utf8StringAt(p, q, item.s)
    BY <2>1, Utf8Lies, Zenon
  <2> QED
    BY <1>3, <2>2
<1>4. CASE item.k = "utf16"
  <2>1. /\ item.s \in Text /\ Len(item.s) \in Lengths
        /\ Bytes(item) = Padded(Word(Len(item.s)) \o Wide(item.s) \o <<0, 0>>)
    BY <1>4, ItemShape DEF Bytes, Short
  <2>2. Utf16StringAt(p, q, item.s)
    BY <2>1, Utf16Lies, Zenon
  <2> QED
    BY <1>4, <2>2
<1> QED
  BY <1>1, <1>2, <1>3, <1>4

\* The places of the items one after the other.
LEMMA PlaceOf ==
  ASSUME PTyped, NEW off, Laid(off), NEW k \in DOMAIN items
  PROVE  /\ k \in Nat /\ k + 1 \in 1..(Len(items) + 1)
         /\ items[k] \in Items /\ off[k] \in Nat /\ off[k + 1] \in Nat /\ Total \in Nat
         /\ off[k + 1] = off[k] + Len(Bytes(items[k])) /\ off[k + 1] <= Total
         /\ Lies(off[k], Bytes(items[k]))
<1>1. Len(items) \in Nat /\ DOMAIN items = 1..Len(items) /\ items[k] \in Items
  BY DEF PTyped
<1>2. k \in 1..(Len(items) + 1) /\ k + 1 \in 1..(Len(items) + 1) /\ k \in Nat
  BY <1>1
<1>3. Total \in Nat
  BY DEF PTyped, Total, Octets
<1> QED
  BY <1>1, <1>2, <1>3 DEF Laid

\* An integer that is Lone is got over, one place after the other.
LEMMA IntSkipped ==
  ASSUME Short, PTyped, NEW off, Laid(off), Readable, at <= Total - 4,
         NEW k \in DOMAIN items, items[k].k = "int", at \in off[k]..(off[k] + 3)
  PROVE  Int32(at) # -1 /\ ~ Utf8At(at) /\ ~ Utf16At(at)
<1> DEFINE p == off[k]
           d == at - p
           n == items[k].n
<1>1. /\ k \in Nat /\ p \in Nat /\ off[k + 1] \in Nat /\ Total \in Nat
      /\ IntAt(p, off[k + 1], n)
  BY PlaceOf, ItemLies
<1>2. /\ n \in Words /\ WordAt(p, n) /\ off[k + 1] = p + 4
      /\ at \in Nat /\ d \in 0..3 /\ at = p + d
  BY <1>1 DEF IntAt, PTyped
<1> HIDE DEF p, d, n
<1>3. CASE k = Len(items)
  <2>1. Total = p + 4
    BY <1>2, <1>3 DEF Laid
  <2> QED
    BY <1>1, <1>2, <2>1, IntAtEnd
<1>4. CASE k < Len(items)
  <2> DEFINE next == items[k + 1]
             q == off[k + 1 + 1]
  <2>1. k + 1 \in DOMAIN items
    BY <1>1, <1>4 DEF PTyped
  <2>2. next \in Items /\ Lies(p + 4, Bytes(next)) /\ q = p + 4 + Len(Bytes(next))
    BY <1>2, <2>1, PlaceOf
  <2>3. /\ next.k # "int" /\ (next.k = "null" \/ next.s # <<>>)
        /\ n = 1 => Len(next.s) < 32
    BY <1>4 DEF Readable, Lone, n
  <2> HIDE DEF next, q
  <2>4. p + 4 \in Nat
    BY <1>1
  <2>5. CASE next.k = "null"
    <3>1. NullAt(p + 4, q)
      BY <2>2, <2>4, <2>5, ItemLies
    <3> QED
      BY <1>1, <1>2, <3>1, IntBeforeNull
  <2>6. CASE next.k # "null"
    <3> DEFINE L == Len(next.s)
    <3>1. next.k \in {"utf8", "utf16"} /\ next.s \in Text /\ next.s # <<>> /\ L \in Lengths
      BY <2>2, <2>3, <2>6, ItemShape DEF Short
    <3>2. L \in Nat /\ L # 0 /\ 1 \in 1..L /\ next.s[1] \in Ascii
      BY <3>1 DEF Text
    <3>3. WordAt(p + 4, L) /\ Byte(p + 4 + 4) = next.s[1]
      <4>1. CASE next.k = "utf8"
        <5>1. Utf8StringAt(p + 4, q, next.s)
          BY <2>2, <2>4, <4>1, ItemLies
        <5>2. p + 4 + 3 + 1 = p + 4 + 4
          BY <1>1
        <5> QED
          BY <3>2, <5>1, <5>2 DEF Utf8StringAt
      <4>2. CASE next.k = "utf16"
        <5>1. Utf16StringAt(p + 4, q, next.s)
          BY <2>2, <2>4, <4>2, ItemLies
        <5>2. p + 4 + 2 + 2 * 1 = p + 4 + 4
          BY <1>1
        <5> QED
          BY <3>2, <5>1, <5>2 DEF Utf16StringAt
      <4> QED
        BY <3>1, <4>1, <4>2
    <3> HIDE DEF L
    <3>4. L > 0 /\ (n = 1 => L < 32)
      BY <2>3, <3>2 DEF L
    <3>5. StringHeadAt(p + 4, n)
      BY <3>1, <3>2, <3>3, <3>4 DEF StringHeadAt
    <3> QED
      BY <1>1, <1>2, <3>5, IntBeforeString
  <2> QED
    BY <2>5, <2>6
<1> QED
  BY <1>1, <1>3, <1>4 DEF PTyped

\* One more of what is found or of what was written.
LEMMA FoundMore ==
  ASSUME PTyped, NEW x \in {Null} \cup Text, found' = Append(found, x)
  PROVE  Values' = IF x \in {Null, <<>>} THEN Values ELSE Append(Values, x)
<1> DEFINE N == Len(found)
           P == {i \in DOMAIN found : found[i] \notin {Null, <<>>}}
           Q == {i \in DOMAIN found' : found'[i] \notin {Null, <<>>}}
<1>1. N \in Nat /\ DOMAIN found = 1..N
  BY DEF PTyped
<1>2. DOMAIN found' = 1..(N + 1) /\ found'[N + 1] = x /\ \A i \in 1..N : found'[i] = found[i]
  BY DEF PTyped
<1>3. P \in SUBSET (1..N) /\ \A i \in P : found'[i] = found[i]
  BY <1>1, <1>2
<1>4. Q = IF x \in {Null, <<>>} THEN P ELSE P \cup {N + 1}
  BY <1>1, <1>2
<1>5. Values = Picked(found, P) /\ Values' = Picked(found', Q)
  BY DEF Values
<1> HIDE DEF P, Q, N
<1>6. /\ Picked(found', P) = Picked(found, P)
      /\ Picked(found', P \cup {N + 1}) = Append(Picked(found, P), found'[N + 1])
  <2>1. N \in Nat /\ P \in SUBSET (1..N)
    BY <1>1, <1>3
  <2>2. Picked(found', P) = Picked(found, P)
    BY <1>3, <2>1, PickedSame
  <2>3. Picked(found', P \cup {N + 1}) = Append(Picked(found', P), found'[N + 1])
    BY <2>1, PickedMore
  <2> QED
    BY <2>2, <2>3
<1> QED
  BY <1>2, <1>4, <1>5, <1>6

LEMMA WrittenMore ==
  ASSUME PTyped, NEW k \in DOMAIN items
  PROVE  Picked(Texts, {i \in Named : i < k + 1})
           = IF items[k].k \in {"utf8", "utf16"} /\ items[k].s # <<>>
               THEN Append(Picked(Texts, {i \in Named : i < k}), items[k].s)
               ELSE Picked(Texts, {i \in Named : i < k})
<1> DEFINE N == k - 1
           P == {i \in Named : i < k}
           Q == {i \in Named : i < k + 1}
<1>1. k \in Nat /\ N \in Nat /\ N + 1 = k /\ DOMAIN items = 1..Len(items) /\ Len(items) \in Nat
  BY DEF PTyped
<1>2. P \in SUBSET (1..N)
  BY <1>1 DEF Named
<1>3. Q = IF k \in Named THEN P \cup {k} ELSE P
  BY <1>1 DEF Named
<1>4. k \in Named <=> items[k].k \in {"utf8", "utf16"} /\ items[k].s # <<>>
  BY DEF Named
<1>5. Texts[k] = items[k].s
  BY DEF Texts
<1> HIDE DEF P, Q, N
<1>6. Picked(Texts, P \cup {N + 1}) = Append(Picked(Texts, P), Texts[N + 1])
  BY <1>1, <1>2, PickedMore
<1> QED
  BY <1>1, <1>3, <1>4, <1>5, <1>6 DEF P, Q

LEMMA ParcelEmpty == PInit => PInv
<1> SUFFICES ASSUME PInit PROVE PInv
  OBVIOUS
<1> DEFINE off == [i \in 1..1 |-> 0]
<1>1. items = <<>> /\ bytes = <<>> /\ reading = FALSE /\ at = 0 /\ found = <<>>
  BY DEF PInit
<1>2. Len(items) = 0 /\ Total = 0 /\ DOMAIN items = {}
  BY <1>1 DEF Total
<1>3. Laid(off)
  <2>1. off \in [1..1 -> Nat] /\ off[1] = 0
    OBVIOUS
  <2> HIDE DEF off
  <2> QED
    BY <1>2, <2>1 DEF Laid
<1> HIDE DEF off
<1> QED
  BY <1>1, <1>3, PTypedInit DEF PInv

\* One item more: the others stay where they are.
LEMMA WriteLaid ==
  ASSUME PTyped, Write, NEW off, Laid(off)
  PROVE  \E new : Laid(new)'
<1>1. PICK item \in Items : items' = Append(items, item) /\ bytes' = bytes \o Bytes(item)
  BY DEF Write
<1> DEFINE N == Len(items)
           B == Bytes(item)
<1>2. /\ N \in Nat /\ DOMAIN items = 1..N /\ Len(items') = N + 1
      /\ DOMAIN items' = 1..(N + 1)
      /\ items'[N + 1] = item /\ \A i \in 1..N : items'[i] = items[i]
  BY <1>1 DEF PTyped
<1>3. /\ bytes \in Octets /\ B \in Octets
  BY ItemOctets DEF PTyped
<1>4. /\ Len(bytes) \in Nat /\ Len(B) \in Nat
      /\ Len(bytes') = Len(bytes) + Len(B)
      /\ \A i \in 1..Len(bytes) : bytes'[i] = bytes[i]
      /\ \A i \in 1..Len(B) : bytes'[Len(bytes) + i] = B[i]
  <2>1. bytes' = bytes \o B
    BY <1>1
  <2> HIDE DEF B
  <2> QED
    BY <1>3, <2>1, ConcatAt, Zenon
<1>5. /\ off \in [1..(N + 1) -> Nat] /\ off[1] = 0 /\ off[N + 1] = Len(bytes)
      /\ \A i \in 1..N : /\ off[i + 1] = off[i] + Len(Bytes(items[i]))
                         /\ off[i + 1] <= Len(bytes)
                         /\ \A j \in 1..Len(Bytes(items[i])) :
                              bytes[off[i] + j - 1 + 1] = Bytes(items[i])[j]
  BY <1>2, Zenon DEF Laid, Total, Lies, Byte
<1> HIDE DEF N, B
<1>6. PICK new : /\ new \in [1..(N + 2) -> Nat] /\ new[N + 2] = Len(bytes) + Len(B)
                 /\ \A i \in 1..(N + 1) : new[i] = off[i]
  <2> DEFINE f == [i \in 1..(N + 2) |-> IF i = N + 2 THEN Len(bytes) + Len(B) ELSE off[i]]
  <2>1. /\ f \in [1..(N + 2) -> Nat] /\ f[N + 2] = Len(bytes) + Len(B)
        /\ \A i \in 1..(N + 1) : f[i] = off[i]
    BY <1>2, <1>4, <1>5
  <2> HIDE DEF f
  <2> QED
    BY <2>1
<1> DEFINE Here(i, b) ==
             /\ new[i + 1] = new[i] + Len(b)
             /\ new[i + 1] <= Len(bytes')
             /\ \A j \in 1..Len(b) : bytes'[new[i] + j - 1 + 1] = b[j]
<1>7. ASSUME NEW i \in 1..N PROVE Here(i, Bytes(items[i]))
  <2> DEFINE b == Bytes(items[i])
  <2>1. i \in 1..(N + 1) /\ i + 1 \in 1..(N + 1) /\ i \in Nat
    BY <1>2
  <2>2. new[i] = off[i] /\ new[i + 1] = off[i + 1]
    BY <1>6, <2>1
  <2>3. /\ off[i + 1] = off[i] + Len(b) /\ off[i + 1] <= Len(bytes)
        /\ \A j \in 1..Len(b) : bytes[off[i] + j - 1 + 1] = b[j]
        /\ off[i] \in Nat /\ off[i + 1] \in Nat
    BY <1>5, <2>1
  <2>4. Len(b) \in Nat
    <3>1. items[i] \in Items
      BY <1>2 DEF PTyped
    <3> QED
      BY <3>1, ItemOctets DEF Octets
  <2> HIDE DEF b
  <2>5. ASSUME NEW j \in 1..Len(b) PROVE bytes'[new[i] + j - 1 + 1] = b[j]
    <3>1. off[i] + j - 1 + 1 \in 1..Len(bytes)
      BY <1>4, <2>3, <2>4
    <3> QED
      BY <1>4, <2>2, <2>3, <3>1
  <2>6. off[i + 1] <= Len(bytes')
    BY <1>4, <2>3
  <2> QED
    BY <2>2, <2>3, <2>5, <2>6 DEF b
<1>8. Here(N + 1, B)
  <2>1. new[N + 1] = Len(bytes) /\ N + 1 + 1 = N + 2
    BY <1>2, <1>5, <1>6
  <2>2. ASSUME NEW j \in 1..Len(B) PROVE bytes'[new[N + 1] + j - 1 + 1] = B[j]
    <3>1. new[N + 1] + j - 1 + 1 = Len(bytes) + j
      BY <1>4, <2>1
    <3> QED
      BY <1>4, <3>1
  <2>3. new[N + 1 + 1] <= Len(bytes') /\ new[N + 1 + 1] = new[N + 1] + Len(B)
    BY <1>4, <1>6, <2>1
  <2> QED
    BY <2>2, <2>3
<1> HIDE DEF Here
<1>9. new \in [1..(Len(items') + 1) -> Nat] /\ new[Len(items') + 1] = Len(bytes')
  <2>1. Len(items') + 1 = N + 2
    BY <1>2
  <2> QED
    BY <1>4, <1>6, <2>1
<1>10. new[1] = 0
  BY <1>2, <1>5, <1>6
<1>11. ASSUME NEW i \in DOMAIN items' PROVE Here(i, Bytes(items'[i]))
  <2>1. CASE i \in 1..N
    BY <1>2, <1>7, <2>1
  <2>2. CASE i = N + 1
    BY <1>2, <1>8, <2>2 DEF B
  <2> QED
    BY <1>2, <2>1, <2>2
<1>12. Laid(new)'
  BY <1>9, <1>10, <1>11, Zenon DEF Laid, Total, Lies, Byte, Here
<1> QED
  BY <1>12

\* An empty string lies there as well in either encoding.
LEMMA EmptyUtf8 ==
  ASSUME NEW p \in Nat, NEW q, NEW t \in Text, t = <<>>, Utf8StringAt(p, q, t)
  PROVE  Utf16StringAt(p, q, t)
<1>1. Len(t) = 0
  OBVIOUS
<1>2. q = p + 8 /\ Align4(4 + 2 * Len(t) + 2) = 8
  BY <1>1 DEF Utf8StringAt, Align4
<1>3. WordAt(p, Len(t)) /\ Byte(p + 4) = 0 /\ Byte(p + 5) = 0
  <2>1. p + 4 + Len(t) = p + 4
    BY <1>1
  <2> QED
    BY <1>1, <2>1 DEF Utf8StringAt
<1>4. p + 4 + 2 * Len(t) = p + 4 /\ p + 5 + 2 * Len(t) = p + 5 /\ 1..Len(t) = {}
  BY <1>1
<1> QED
  BY <1>2, <1>3, <1>4 DEF Utf16StringAt

\* What read_strings makes of the item that it stands at.
ReadsAs(k, q) ==
  \/ /\ items[k].k = "null" /\ Int32(at) = -1 /\ at + 4 = q
  \/ /\ items[k].k = "int" /\ at \in (q - 4)..(q - 1)
     /\ Int32(at) # -1 /\ ~ Utf8At(at) /\ ~ Utf16At(at)
  \/ /\ items[k].k \in {"utf8", "utf16"} /\ Int32(at) # -1 /\ items[k].s \in Text
     /\ \/ /\ Utf8At(at) /\ Slice(at + 4, Int32(at)) = items[k].s
           /\ at + Align4(4 + Int32(at) + 1) = q
        \/ /\ ~ Utf8At(at) /\ Utf16At(at) /\ Units(at, Int32(at)) = items[k].s
           /\ at + Align4(4 + 2 * Int32(at) + 2) = q

LEMMA ReadsItem ==
  ASSUME Short, PTyped, NEW off, Laid(off), Readable, at <= Total - 4,
         NEW k \in DOMAIN items, ReadUpTo(off, k)
  PROVE  ReadsAs(k, off[k + 1])
<1> DEFINE item == items[k]
           p == off[k]
           q == off[k + 1]
           t == item.s
<1>1. /\ item \in Items /\ p \in Nat /\ q \in Nat /\ Total \in Nat /\ q <= Total
      /\ Lies(p, Bytes(item)) /\ q = p + Len(Bytes(item)) /\ at \in Nat
  BY PlaceOf DEF PTyped
<1>2. \/ at = p
      \/ item.k = "int" /\ at \in p..(p + 3)
  BY Zenon DEF ReadUpTo, item, p
<1>3. \/ item.k = "null" /\ NullAt(p, q)
      \/ item.k = "int" /\ IntAt(p, q, item.n)
      \/ item.k = "utf8" /\ Utf8StringAt(p, q, t) /\ t \in Text /\ Len(t) \in Lengths
      \/ item.k = "utf16" /\ Utf16StringAt(p, q, t) /\ t \in Text /\ Len(t) \in Lengths
  <2> HIDE DEF item, p, q
  <2>1. /\ item.k = "null" => NullAt(p, q)
        /\ item.k = "int" => IntAt(p, q, item.n)
        /\ item.k = "utf8" => Utf8StringAt(p, q, item.s)
        /\ item.k = "utf16" => Utf16StringAt(p, q, item.s)
    BY <1>1, ItemLies
  <2>2. \/ item.k = "null"
        \/ item.k = "int"
        \/ item.k \in {"utf8", "utf16"} /\ item.s \in Text /\ Len(item.s) \in Lengths
    BY <1>1, ItemShape DEF Short
  <2> QED
    BY <2>1, <2>2
<1>4. CASE item.k = "null" /\ NullAt(p, q)
  <2>1. at = p
    BY <1>2, <1>4
  <2>2. Int32(at) = -1 /\ at + 4 = q
    BY <1>1, <1>4, <2>1, ReadsNull DEF NullAt
  <2> QED
    BY <1>4, <2>2 DEF ReadsAs
<1>5. CASE item.k = "int" /\ IntAt(p, q, item.n)
  <2>1. at \in p..(p + 3) /\ q = p + 4
    BY <1>1, <1>2, <1>5 DEF IntAt
  <2>2. Int32(at) # -1 /\ ~ Utf8At(at) /\ ~ Utf16At(at)
    BY <1>5, <2>1, IntSkipped
  <2>3. at \in (q - 4)..(q - 1)
    BY <1>1, <2>1
  <2> QED
    BY <1>5, <2>2, <2>3 DEF ReadsAs
<1>6. CASE item.k = "utf8" /\ Utf8StringAt(p, q, t) /\ t \in Text /\ Len(t) \in Lengths /\ t # <<>>
  <2>1. at = p
    BY <1>2, <1>6
  <2>2. /\ Int32(at) = Len(t) /\ Utf8At(at)
        /\ Slice(at + 4, Len(t)) = t
        /\ at + Align4(4 + Len(t) + 1) = q
    <3> HIDE DEF p, q, t
    <3> QED
      BY <1>1, <1>6, <2>1, ReadsUtf8
  <2>3. Int32(at) # -1
    BY <2>2, LengthRange, <1>6
  <2> QED
    BY <1>6, <2>2, <2>3 DEF ReadsAs
<1>7. CASE /\ item.k \in {"utf8", "utf16"} /\ t \in Text /\ Len(t) \in Lengths
           /\ Utf16StringAt(p, q, t)
  <2>1. at = p
    BY <1>2, <1>7
  <2>2. /\ Int32(at) = Len(t)
        /\ Len(t) = 1 => /\ Utf8At(at) /\ Slice(at + 4, Len(t)) = t
                         /\ at + Align4(4 + Len(t) + 1) = q
        /\ Len(t) # 1 => /\ ~ Utf8At(at) /\ Utf16At(at) /\ Units(at, Len(t)) = t
                         /\ at + Align4(4 + 2 * Len(t) + 2) = q
    <3> HIDE DEF p, q, t
    <3> QED
      BY <1>1, <1>7, <2>1, ReadsUtf16
  <2>3. Int32(at) # -1
    BY <2>2, LengthRange, <1>7
  <2> QED
    BY <1>7, <2>2, <2>3 DEF ReadsAs
<1>8. CASE item.k = "utf8" /\ Utf8StringAt(p, q, t) /\ t \in Text /\ Len(t) \in Lengths /\ t = <<>>
  <2>1. Utf16StringAt(p, q, t)
    <3> HIDE DEF p, q, t
    <3> QED
      BY <1>1, <1>8, EmptyUtf8
  <2> QED
    BY <1>7, <1>8, <2>1
<1> QED
  BY <1>3, <1>4, <1>5, <1>6, <1>7, <1>8

\* It stands at an item for as long as there is something to read.
LEMMA StandsAt ==
  ASSUME PTyped, NEW off, Laid(off), at <= Total - 4,
         NEW k \in 1..(Len(items) + 1), ReadUpTo(off, k)
  PROVE  k \in DOMAIN items
<1>1. Len(items) \in Nat /\ DOMAIN items = 1..Len(items) /\ at \in Nat /\ Total \in Nat
  BY DEF PTyped, Total, Octets
<1>2. ASSUME k = Len(items) + 1 PROVE FALSE
  <2>1. at = Total
    BY <1>1, <1>2 DEF ReadUpTo, Laid
  <2> QED
    BY <1>1, <2>1
<1> QED
  BY <1>1, <1>2

LEMMA NullIsNotText == Null \notin Text
<1>1. Len(Null) = 1 /\ Null[1] = -1
  BY DEF Null
<1>2. -1 \notin Ascii
  BY AsciiRange
<1>3. ASSUME Null \in Text PROVE Null[1] \in Ascii
  <2> DEFINE t == Null
  <2> HIDE DEF t
  <2>1. t \in Seq(Ascii) /\ 1 \in 1..Len(t)
    BY <1>1, <1>3 DEF Text, t
  <2>2. t[1] \in Ascii
    BY <2>1
  <2> QED
    BY <2>2 DEF t
<1> QED
  BY <1>1, <1>2, <1>3

\* A step of read_strings takes it on within the item, or to the next one with what
\* the item says.
LEMMA ReadStep ==
  ASSUME Short, PTyped, NEW off, Laid(off), Readable,
         NEW k \in 1..(Len(items) + 1), ReadUpTo(off, k),
         ReadNull \/ ReadString \/ Skip
  PROVE  \E m \in 1..(Len(items) + 1) : ReadUpTo(off, m)'
<1>1. /\ at <= Total - 4 /\ items' = items /\ bytes' = bytes /\ reading' = reading
  BY DEF ReadNull, ReadString, Skip, More
<1>2. k \in DOMAIN items
  BY <1>1, StandsAt
<1> DEFINE q == off[k + 1]
           V(m) == Picked(Texts, {i \in Named : i < m})
<1>3. /\ k + 1 \in 1..(Len(items) + 1) /\ k \in Nat /\ q \in Nat /\ at \in Nat
      /\ items[k] \in Items
  BY <1>2, PlaceOf DEF PTyped
<1>4. ReadsAs(k, q)
  BY <1>1, <1>2, ReadsItem
<1>5. \A m : V(m)' = V(m)
  BY <1>1 DEF Texts, Named
<1>6. Values = V(k)
  BY DEF ReadUpTo
<1>7. V(k + 1) = IF items[k].k \in {"utf8", "utf16"} /\ items[k].s # <<>>
                   THEN Append(V(k), items[k].s) ELSE V(k)
  BY <1>2, WrittenMore, Zenon
<1> HIDE DEF V
<1>8. ASSUME at' = q, Values' = V(k + 1)
      PROVE  \E m \in 1..(Len(items) + 1) : ReadUpTo(off, m)'
  <2>1. ReadUpTo(off, k + 1)'
    BY <1>5, <1>8, Zenon DEF ReadUpTo, V, q
  <2> QED
    BY <1>3, <2>1
<1>9. CASE ReadNull
  <2>1. items[k].k = "null" /\ at + 4 = q
    BY <1>4, <1>9 DEF ReadsAs, ReadNull
  <2>2. at' = q
    BY <1>9, <2>1 DEF ReadNull
  <2>3. Values' = Values
    BY <1>9, FoundMore DEF ReadNull
  <2>4. V(k + 1) = V(k)
    BY <1>7, <2>1
  <2> QED
    BY <1>6, <1>8, <2>2, <2>3, <2>4
<1>10. CASE ReadString
  <2> DEFINE t == items[k].s
  <2>1. items[k].k \in {"utf8", "utf16"} /\ t \in Text /\ found' = Append(found, t) /\ at' = q
    BY <1>4, <1>10 DEF ReadsAs, ReadString
  <2>2. t # Null
    BY <2>1, NullIsNotText
  <2>3. Values' = IF t = <<>> THEN Values ELSE Append(Values, t)
    BY <2>1, <2>2, FoundMore
  <2>4. V(k + 1) = IF t = <<>> THEN V(k) ELSE Append(V(k), t)
    BY <1>7, <2>1
  <2>5. Values' = V(k + 1)
    BY <1>6, <2>3, <2>4
  <2> QED
    BY <1>8, <2>1, <2>5
<1>11. CASE Skip
  <2>1. items[k].k = "int" /\ at \in (q - 4)..(q - 1)
    BY <1>4, <1>11 DEF ReadsAs, Skip
  <2>2. at' = at + 1 /\ Values' = Values
    BY <1>11 DEF Skip, Values
  <2>3. off[k + 1] = off[k] + 4
    <3>1. IntAt(off[k], q, items[k].n)
      BY <1>2, <2>1, PlaceOf, ItemLies
    <3> QED
      BY <3>1 DEF IntAt
  <2>4. V(k + 1) = V(k)
    BY <1>7, <2>1
  <2>5. CASE at + 1 = q
    BY <1>6, <1>8, <2>2, <2>4, <2>5
  <2>6. CASE at + 1 # q
    <3>1. at + 1 \in off[k]..(off[k] + 3)
      <4>1. off[k] \in Nat
        BY <1>2, PlaceOf
      <4> QED
        BY <1>3, <2>1, <2>3, <2>6, <4>1
    <3>2. k <= Len(items) /\ items'[k].k = "int" /\ at' \in off[k]..(off[k] + 3)
      BY <1>1, <1>2, <2>1, <2>2, <3>1 DEF PTyped
    <3>3. Values' = V(k)'
      BY <1>5, <1>6, <2>2
    <3>4. ReadUpTo(off, k)'
      BY <1>1, <3>2, <3>3, Zenon DEF ReadUpTo, V
    <3> QED
      BY <3>4
  <2> QED
    BY <2>5, <2>6
<1> QED
  BY <1>9, <1>10, <1>11

LEMMA ParcelStep ==
  ASSUME Short, PInv, [PNext]_pvars
  PROVE  PInv'
<1>1. PTyped /\ (~reading => at = 0 /\ found = <<>>)
  BY DEF PInv
<1>2. PICK off : /\ Laid(off)
                 /\ reading /\ Readable => \E k \in 1..(Len(items) + 1) : ReadUpTo(off, k)
  BY DEF PInv
<1>3. PTyped'
  BY <1>1, PTypedStep
<1>4. CASE Write
  <2>1. ~reading' /\ at' = 0 /\ found' = <<>>
    BY <1>1, <1>4 DEF Write
  <2>2. \E new : Laid(new)'
    BY <1>1, <1>2, <1>4, WriteLaid
  <2> QED
    BY <1>3, <2>1, <2>2 DEF PInv
<1>5. CASE Open
  <2>1. /\ ~reading /\ reading' /\ items' = items /\ bytes' = bytes /\ at' = 0 /\ found' = <<>>
    BY <1>1, <1>5 DEF Open
  <2>2. Laid(off)'
    BY <1>2, <2>1 DEF Laid, Total, Lies, Byte
  <2>3. Values' = <<>>
    <3>1. DOMAIN found' = {}
      BY <2>1
    <3>2. {i \in DOMAIN found' : found'[i] \notin {Null, <<>>}} = {}
      BY <3>1
    <3> QED
      BY <3>2, PickedNone DEF Values
  <2>4. Picked(Texts, {i \in Named : i < 1})' = <<>>
    <3>1. \A i \in DOMAIN items' : ~ (i < 1)
      BY <1>3 DEF PTyped
    <3>2. {i \in Named : i < 1}' = {}
      BY <3>1 DEF Named
    <3> QED
      BY <3>2, PickedNone
  <2>5. ReadUpTo(off, 1)'
    BY <1>2, <2>1, <2>3, <2>4 DEF ReadUpTo, Laid
  <2>6. 1 \in 1..(Len(items') + 1)
    BY <1>3 DEF PTyped
  <2> QED
    BY <1>3, <2>1, <2>2, <2>5, <2>6 DEF PInv
<1>6. CASE ReadNull \/ ReadString \/ Skip
  <2>1. reading /\ reading' /\ items' = items /\ bytes' = bytes
    BY <1>6 DEF ReadNull, ReadString, Skip, More
  <2>2. Laid(off)' /\ (Readable' <=> Readable)
    BY <1>2, <2>1 DEF Laid, Total, Lies, Byte, Readable, Lone
  <2>3. ASSUME Readable
        PROVE  \E m \in 1..(Len(items') + 1) : ReadUpTo(off, m)'
    <3>1. PICK k \in 1..(Len(items) + 1) : ReadUpTo(off, k)
      BY <1>2, <2>1, <2>3
    <3> QED
      BY <1>1, <1>2, <1>6, <2>1, <2>3, <3>1, ReadStep
  <2> QED
    BY <1>3, <2>1, <2>2, <2>3 DEF PInv
<1>7. CASE UNCHANGED pvars
  <2>1. /\ items' = items /\ bytes' = bytes /\ reading' = reading /\ at' = at /\ found' = found
    BY <1>7 DEF pvars
  <2>2. Laid(off)' /\ (Readable' <=> Readable)
    BY <1>2, <2>1 DEF Laid, Total, Lies, Byte, Readable, Lone
  <2>3. \A k : ReadUpTo(off, k)' <=> ReadUpTo(off, k)
    BY <2>1 DEF ReadUpTo, Values, Texts, Named
  <2> QED
    BY <1>1, <1>2, <1>3, <2>1, <2>2, <2>3 DEF PInv
<1> QED
  BY <1>4, <1>5, <1>6, <1>7 DEF PNext

\* An item takes four bytes at least.
LEMMA NextPlace ==
  ASSUME Short, PTyped, NEW off, Laid(off), NEW k \in DOMAIN items
  PROVE  off[k + 1] >= off[k] + 4
<1> DEFINE item == items[k]
           p == off[k]
           q == off[k + 1]
<1>1. item \in Items /\ p \in Nat /\ Lies(p, Bytes(item)) /\ q = p + Len(Bytes(item))
  BY PlaceOf
<1> HIDE DEF item, p, q
<1>2. /\ item.k = "null" => NullAt(p, q)
      /\ item.k = "int" => IntAt(p, q, item.n)
      /\ item.k = "utf8" => Utf8StringAt(p, q, item.s)
      /\ item.k = "utf16" => Utf16StringAt(p, q, item.s)
  BY <1>1, ItemLies
<1>3. CASE item.k = "null" \/ item.k = "int"
  <2>1. q = p + 4
    BY <1>2, <1>3 DEF NullAt, IntAt
  <2> QED
    BY <1>1, <2>1 DEF p, q
<1>4. CASE item.k \in {"utf8", "utf16"}
  <2>1. Len(item.s) \in Nat
    BY <1>1, <1>4, ItemShape DEF Text
  <2>2. q = p + Align4(4 + Len(item.s) + 1) \/ q = p + Align4(4 + 2 * Len(item.s) + 2)
    BY <1>2, <1>4 DEF Utf8StringAt, Utf16StringAt
  <2>3. \A n \in Nat : n >= 4 => Align4(n) \in Nat /\ Align4(n) >= 4
    BY DEF Align4
  <2> DEFINE x == 4 + Len(item.s) + 1
             y == 4 + 2 * Len(item.s) + 2
  <2>4. x \in Nat /\ x >= 4 /\ y \in Nat /\ y >= 4
    BY <2>1
  <2> HIDE DEF x, y
  <2>5. Align4(x) \in Nat /\ Align4(x) >= 4 /\ Align4(y) \in Nat /\ Align4(y) >= 4
    BY <2>3, <2>4
  <2>6. q = p + Align4(x) \/ q = p + Align4(y)
    BY <2>2 DEF x, y
  <2>7. q >= p + 4
    BY <1>1, <2>5, <2>6
  <2> QED
    BY <2>7 DEF p, q
<1>5. item.k = "null" \/ item.k = "int" \/ item.k \in {"utf8", "utf16"}
  BY <1>1, ItemShape
<1> QED
  BY <1>3, <1>4, <1>5

\* At the end it has got past every string.
LEMMA ReadToEnd ==
  ASSUME Short, PInv
  PROVE  StringsFound
<1> SUFFICES ASSUME reading, ~More, Readable PROVE Values = Written
  BY Zenon DEF StringsFound, Readable
<1>1. PTyped
  BY DEF PInv
<1>2. PICK off : Laid(off) /\ \E k \in 1..(Len(items) + 1) : ReadUpTo(off, k)
  BY DEF PInv
<1>3. PICK k \in 1..(Len(items) + 1) : ReadUpTo(off, k)
  BY <1>2
<1>4. /\ Len(items) \in Nat /\ DOMAIN items = 1..Len(items) /\ k \in Nat
      /\ at \in Nat /\ Total \in Nat /\ at > Total - 4
  BY <1>1 DEF PTyped, Total, Octets, More
<1> DEFINE N == Len(items)
<1>5. \A i \in Named : i < k
  <2>1. CASE k = N + 1
    BY <1>4, <2>1 DEF Named
  <2>2. CASE k \in DOMAIN items
    <3>1. /\ off[k] \in Nat /\ off[k + 1] \in Nat /\ off[k + 1] <= Total
          /\ off[k + 1] >= off[k] + 4
      BY <1>1, <1>2, <2>2, PlaceOf, NextPlace
    <3>2. \/ at = off[k]
          \/ items[k].k = "int" /\ at \in off[k]..(off[k] + 3)
      BY <1>3, Zenon DEF ReadUpTo
    <3>3. items[k].k = "int" /\ at < off[k + 1]
      BY <1>4, <3>1, <3>2
    <3>4. k \notin Named
      BY <3>3 DEF Named
    <3>5. k = N
      <4>1. k + 1 \notin DOMAIN items
        <5> SUFFICES ASSUME k + 1 \in DOMAIN items PROVE FALSE
          OBVIOUS
        <5> DEFINE next == k + 1
                   r == off[next + 1]
        <5>1. next \in DOMAIN items
          OBVIOUS
        <5> HIDE DEF next
        <5>2. r \in Nat /\ r <= Total /\ r >= off[next] + 4
          BY <1>1, <1>2, <5>1, PlaceOf, NextPlace
        <5> HIDE DEF r
        <5>3. off[next] = off[k + 1]
          BY DEF next
        <5> QED
          BY <1>4, <3>1, <3>3, <5>2, <5>3
      <4> HIDE DEF N
      <4>2. N \in Nat /\ k \in 1..N /\ k + 1 \notin 1..N
        BY <1>4, <2>2, <4>1 DEF N
      <4> QED
        BY <4>2
    <3> QED
      BY <1>4, <3>4, <3>5 DEF Named
  <2> QED
    BY <1>4, <2>1, <2>2
<1>6. Named = {i \in Named : i < k}
  BY <1>5
<1>7. Written = Picked(Texts, Named)
  BY DEF Written, Texts
<1> QED
  BY <1>3, <1>6, <1>7 DEF ReadUpTo

-----------------------------------------------------------------------------
(* The three parts together                                                *)

\* GatesTypeOK for every tree, Parcel and Dart file: among it, that what
\* read_strings takes for a string is null or printable (_try_utf8, _try_utf16),
\* whatever the Parcel holds.
THEOREM GatesTyped == Spec => []GatesTypeOK
<1> DEFINE Typed == part \in Parts /\ JTypeOK /\ PTyped /\ STyped
<1>1. Init => Typed
  BY TreeInit, PTypedInit, STypedInit DEF Init
<1>2. Typed /\ [Next]_<<part, jvars, pvars, svars>> => Typed'
  <2> SUFFICES ASSUME Typed, [Next]_<<part, jvars, pvars, svars>>
               PROVE  Typed'
    OBVIOUS
  <2>1. [JNext]_jvars /\ [PNext]_pvars /\ [SNext]_svars /\ part' = part
    BY DEF Next
  <2> QED
    BY <2>1, TreeStep, PTypedStep, STypedStep
<1>3. Typed => GatesTypeOK
  <2> SUFFICES ASSUME PTyped PROVE PTypeOK
    BY DEF GatesTypeOK, STyped
  <2>1. \A i \in DOMAIN bytes : bytes[i] \in Octet
    BY DEF PTyped, Octets
  <2>2. \A i \in DOMAIN found : found[i] = Null \/ found[i] \in Seq(Ascii)
    BY DEF PTyped, Text
  <2> QED
    BY <2>1, <2>2 DEF PTyped, PTypeOK
<1> QED
  BY <1>1, <1>2, <1>3, PTL DEF Spec

\* StringsFound for every Parcel of strings that are short enough to be read at all:
\* when read_strings has walked to the end, it has found the names written, all of
\* them, whole, in their order and nothing else, wherever nulls and integers that are
\* Lone stand between them.
THEOREM NamesFound ==
  ASSUME Short
  PROVE  Spec => []StringsFound
<1>1. Init => PInv
  BY ParcelEmpty DEF Init
<1>2. PInv /\ [Next]_<<part, jvars, pvars, svars>> => PInv'
  <2> SUFFICES ASSUME PInv, [Next]_<<part, jvars, pvars, svars>>
               PROVE  PInv'
    OBVIOUS
  <2>1. [PNext]_pvars
    BY DEF Next
  <2> QED
    BY <2>1, ParcelStep
<1>3. PInv => StringsFound
  BY ReadToEnd
<1> QED
  BY <1>1, <1>2, <1>3, PTL DEF Spec
=============================================================================
