------------------------------ MODULE JniGates ------------------------------
(***************************************************************************)
(* The gates over the JNI binding.  A developer edits the declarations of  *)
(* Engine.kt, the JNINativeMethod table, the bodies in aether_core.cpp and *)
(* the lines that mention a native; CI runs the gates on a checkout, one   *)
(* after the other, and a green tree is released.  jni_parity,             *)
(* native_chain_parity and structural_gates are in CI; chain_coherence and *)
(* system_link_audit are run by hand.  All of them read text with regular  *)
(* expressions, so a line that is commented out may count: every line says *)
(* whether it is live.                                                     *)
(***************************************************************************)
EXTENDS Naturals, FiniteSets

CONSTANTS
  Natives,      \* method names
  Chain,        \* the natives CHAIN requires
  Pending,      \* the ones with "pending" (D6, D7), exempt from dead_fun_guard
  Markable,     \* the ones structural_gates looks at
  Placed,       \* native -> the file of its call; required of a chain native
  Sigs,         \* descriptors
  SigOf,        \* native -> descriptor in the released tree (our_sig of CHAIN)
  ParityView,   \* descriptor -> what kt_type_to_jni makes of the Kotlin types
  AuditView,    \* descriptor -> what jtype of system_link_audit makes of them
  Shipped,      \* Kotlin files of the app other than Engine.kt
  TestStubs,    \* Kotlin files under test-stubs
  MaxEdits      \* bound: edits by the developer

ASSUME JniGatesAssumption ==
  /\ Pending \subseteq Chain /\ Chain \cup Markable \subseteq Natives
  /\ Placed \in [Natives \ Pending -> Shipped]
  /\ SigOf \in [Natives -> Sigs]
  /\ ParityView \in [Sigs -> Sigs] /\ AuditView \in [Sigs -> Sigs]
  /\ Shipped \cap TestStubs = {}
  /\ MaxEdits \in Nat

VARIABLES
  decl,      \* 'external fun' lines: [name, sig, live]
  table,     \* '{"name","sig",(void*)..}': [name, sig, live, tight]
  body,      \* native -> the form of its Java_com_aether_Engine_ function
  marked,    \* natives with an AETHER-NOOP marker
  mentions,  \* other lines with the name: [name, file, kind]
  gate,      \* the gate that is next; "edit": none, "released": all were green
  changes    \* edits so far, for the bound

jvars == <<decl, table, body, marked, mentions, gate, changes>>

Decl == [name : Natives, sig : Sigs, live : BOOLEAN]
Entry == [name : Natives, sig : Sigs, live : BOOLEAN, tight : BOOLEAN]
\* text: the name in a string or behind code; comment: a line begun by // or *.
Mention == [name : Natives, file : Shipped \cup TestStubs, kind : {"call", "text", "comment"}]
\* What stands between the braces, as the two gates over bodies tell it apart.
\* log: nothing, or a LOGD whose arguments have no parenthesis; idle: a LOGD with
\* one, the return of 0, false, nullptr or JNI_OK; remark: a comment, a bare return,
\* the return of another constant; work: anything that does something.
Contents == {"log", "idle", "remark", "work"}
NoBody == [lines |-> "none", holds |-> "nothing"]
OneLine(c) == [lines |-> "one", holds |-> c]
Several(c) == [lines |-> "several", holds |-> c]
Forms == {NoBody} \cup {OneLine(c) : c \in Contents} \cup {Several(c) : c \in Contents}

NamesIn(lines) == {l.name : l \in lines}
SigsIn(lines, n) == {l.sig : l \in {k \in lines : k.name = n}}

-----------------------------------------------------------------------------
(* jni_parity.py                                                           *)

\* Mutant: only the Kotlin side is asked for its other half.
NamesCovered == NamesIn(decl) \subseteq NamesIn(table)

SameNames == NamesIn(decl) = NamesIn(table)

SeenSigs(n) == {ParityView[s] : s \in SigsIn(decl, n)}

Parity ==
  /\ SameNames
  /\ \A n \in NamesIn(decl) : SeenSigs(n) = SigsIn(table, n)

\* Any line but a comment, in any Kotlin file but Engine.kt itself.
UsedAnywhere(n) == \E m \in mentions : m.name = n /\ m.kind # "comment"

DeadFunGuard == \A n \in NamesIn(decl) : UsedAnywhere(n) \/ n \in Pending

-----------------------------------------------------------------------------
(* native_chain_parity.py                                                  *)

\* grep_kt_callers leaves out the stubs of the unit tests.
Callers(n) == {m.file : m \in {k \in mentions : k.name = n /\ k.kind # "comment"}} \ TestStubs

\* Mutant: a call anywhere in the app will do.
CalledSomewhere(n) == Callers(n) # {}

CalledInPlace(n) == Placed[n] \in Callers(n)

\* parse_our_table knows only entries without a space.  That a pending native has
\* no caller is a warning.
ChainParity ==
  \A n \in Chain :
    /\ \E e \in table : e.name = n /\ e.sig = SigOf[n] /\ e.tight
    /\ n \in NamesIn(decl)
    /\ n \notin Pending => CalledInPlace(n)

-----------------------------------------------------------------------------
(* structural_gates.py, S3: a body of several lines is read as none        *)

LogOnly(n) == body[n] \notin {OneLine(c) : c \in Contents \ {"log"}}

StubsMarked == \A n \in Markable : LogOnly(n) => n \in marked

-----------------------------------------------------------------------------
(* chain_coherence.py, A1 to A3, and system_link_audit.py, check_binding   *)

\* A body that only logs or returns 0; a comment and another constant are a body.
Stub(n) == body[n].holds \in {"nothing", "log", "idle"}

\* A stub fails with a caller (A3) and without one (A2).
Coherent == \A n \in NamesIn(decl) : n \in NamesIn(table) /\ ~Stub(n)

\* A1 and A3 of the audit.  Of several lines with a name the last one counts, any.
AuditPasses ==
  \A n \in NamesIn(decl) :
    /\ n \in NamesIn(table)
    /\ \E d \in SigsIn(decl, n), e \in SigsIn(table, n) : e = AuditView[d]

-----------------------------------------------------------------------------
(* The developer                                                           *)

Edit ==
  /\ gate \in {"edit", "released"} /\ changes < MaxEdits
  /\ gate' = "edit"
  /\ changes' = changes + 1

Toggle(S, x) == IF x \in S THEN S \ {x} ELSE S \cup {x}

EditDecl ==
  /\ Edit
  /\ \E d \in Decl : decl' = Toggle(decl, d)
  /\ UNCHANGED <<table, body, marked, mentions>>

EditTable ==
  /\ Edit
  /\ \E e \in Entry : table' = Toggle(table, e)
  /\ UNCHANGED <<decl, body, marked, mentions>>

EditBody ==
  /\ Edit
  /\ \E n \in Natives, f \in Forms : body[n] # f /\ body' = [body EXCEPT ![n] = f]
  /\ UNCHANGED <<decl, table, marked, mentions>>

EditMarker ==
  /\ Edit
  /\ \E n \in Markable : marked' = Toggle(marked, n)
  /\ UNCHANGED <<decl, table, body, mentions>>

EditMention ==
  /\ Edit
  /\ \E m \in Mention : mentions' = Toggle(mentions, m)
  /\ UNCHANGED <<decl, table, body, marked>>

-----------------------------------------------------------------------------
(* CI: set -e, in the order of ci.yml                                      *)

RunsGate(this, ok, then) ==
  /\ gate = this
  /\ gate' = IF ok THEN then ELSE "edit"
  /\ UNCHANGED <<decl, table, body, marked, mentions, changes>>

Push == RunsGate("edit", TRUE, "jni_parity")
JniParity == RunsGate("jni_parity", Parity /\ DeadFunGuard, "native_chain_parity")
NativeChainParity == RunsGate("native_chain_parity", ChainParity, "structural_gates")
StructuralGates == RunsGate("structural_gates", StubsMarked, "released")

JInit ==
  /\ decl = {[name |-> n, sig |-> SigOf[n], live |-> TRUE] : n \in Natives}
  /\ table = {[name |-> n, sig |-> SigOf[n], live |-> TRUE, tight |-> TRUE] : n \in Natives}
  /\ body \in [Natives -> {OneLine("log"), OneLine("work")}]
  /\ marked = Markable
  /\ mentions = {[name |-> n, file |-> Placed[n], kind |-> "call"] : n \in Natives \ Pending}
  /\ gate = "edit" /\ changes = 0

JNext ==
  \/ EditDecl \/ EditTable \/ EditBody \/ EditMarker \/ EditMention
  \/ Push \/ JniParity \/ NativeChainParity \/ StructuralGates

JSpec == JInit /\ [][JNext]_jvars

-----------------------------------------------------------------------------
(* The device that loads a released tree                                   *)

\* RegisterNatives fails as a whole for an entry without a native method.
Registers ==
  \A e \in table : e.live => [name |-> e.name, sig |-> e.sig, live |-> TRUE] \in decl

Bound(n) ==
  Registers /\ \A d \in decl : d.live /\ d.name = n =>
                 \E e \in table : e.live /\ e.name = n /\ e.sig = d.sig

Called(n) == [name |-> n, file |-> Placed[n], kind |-> "call"] \in mentions

\* The lines the gates read are code: nothing is commented out, no name stands
\* in a text.
LinesAreCode ==
  /\ \A d \in decl : d.live
  /\ \A e \in table : e.live
LinesAreCalls == \A m \in mentions : m.kind # "text"

-----------------------------------------------------------------------------
(* Properties                                                              *)

JTypeOK ==
  /\ decl \subseteq Decl /\ table \subseteq Entry /\ mentions \subseteq Mention
  /\ body \in [Natives -> Forms] /\ marked \subseteq Markable
  /\ gate \in {"edit", "jni_parity", "native_chain_parity", "structural_gates", "released"}
  /\ changes \in 0..MaxEdits

\* A released tree loads: every table entry finds its native method and every
\* native method its entry (jni_parity: a mismatch makes "the WHOLE libaether.so"
\* fail to load).  It holds for lines that are code and for the types the gate
\* maps as the compiler does; Array<Int> is not one.
ReleasedRegisters ==
  /\ gate = "released" /\ LinesAreCode
  /\ \A d \in decl : ParityView[d.sig] = d.sig
  => \A n \in Natives : Bound(n)

\* A released tree declares every chain native with the descriptor CHAIN requires
\* and calls it where the chain has it (native_chain_parity sees the table and the
\* callers, jni_parity the declarations), and one without a body, with an empty
\* one or a LOGD that has no parenthesis in its arguments says so
\* (structural_gates S3).  The last is all that S3 sees: a LOGD("%p", (void*)o), a
\* return of a constant and a comment do nothing either, and are released without
\* a marker (NoopsSaySo is refuted).
ReleasedChainWired ==
  gate = "released" =>
    /\ \A n \in Chain : \E d \in decl : d.name = n /\ ParityView[d.sig] = SigOf[n]
    /\ LinesAreCalls => \A n \in Chain \ Pending : Called(n)
    /\ \A n \in Chain \cap Markable : body[n] \in {NoBody, OneLine("log")} => n \in marked

\* Refuted: a declaration behind // counts as one, and a released tree has an
\* entry the device finds no method for.
ReleasedLoads == gate = "released" => \A n \in Natives : Bound(n)

\* Refuted: the call-site dead_fun_guard asks for can be in a test stub.
ReleasedIsUsed ==
  gate = "released" /\ LinesAreCalls =>
    \A n \in NamesIn(decl) \ Pending :
      \E m \in mentions : m.name = n /\ m.file \in Shipped /\ m.kind = "call"

\* Refuted: a chain native that does nothing has a marker (S3: every chain-required
\* hop must have its status marker in the C++ file).
NoopsSaySo ==
  gate = "released" =>
    \A n \in Chain \cap Markable : body[n].holds # "work" => n \in marked

\* Refuted: no native of a tree that chain_coherence accepts does nothing (A3:
\* "runtime silently does nothing").
CoherentRuns == gate = "released" /\ Coherent => \A n \in NamesIn(decl) : body[n].holds = "work"

\* Refuted: the audit has nothing to say of a tree CI accepts.  jtype takes a
\* qualified type that begins with a small letter for Object, before the branch
\* its comment names java.lang.reflect.Method for.
AuditAgrees == gate = "released" => AuditPasses
=============================================================================
