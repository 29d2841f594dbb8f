----------------------------- MODULE MCLinkage -----------------------------
(***************************************************************************)
(* One run for the three parts of the linkage scripts that share no state: *)
(* a run picks a part and takes only its steps.                            *)
(***************************************************************************)
EXTENDS LinkageFiles, NativeScan, DartScan

CONSTANTS w6, w8, x8

VARIABLE part

Parts == {"files", "native", "dart"}

Init ==
  /\ part \in Parts
  /\ LInit /\ NInit /\ DInit

Next ==
  /\ UNCHANGED part
  /\ \/ part = "files" /\ LNext /\ UNCHANGED <<nvars, dvars>>
     \/ part = "native" /\ NNext /\ UNCHANGED <<lvars, dvars>>
     \/ part = "dart" /\ DNext /\ UNCHANGED <<lvars, nvars>>

Spec == Init /\ [][Next]_<<part, lvars, nvars, dvars>>

LinkageTypeOK == part \in Parts /\ LTypeOK /\ NTypeOK /\ DTypeOK

\* Tracker: "Everything it cannot follow stays 'unknown'", taken at its word: what
\* it believes of a register is never wrong.
TrackerNeverWrong ==
  \A n \in Names :
    /\ imm[n] # Unknown => truth[NumOf[n]] = Value(imm[n])
    /\ load[n] # Unknown => truth[NumOf[n]].k = "word" /\ truth[NumOf[n]].v = load[n][2]

\* No edge published as proven names what the instruction does not reach
\* (scan_native).
ProvenNeverWrong == edge.conf = "proven" => edge.right

-----------------------------------------------------------------------------
MCNames == {w6, w8, x8}
MCNumOf == (w6 :> 6) @@ (w8 :> 8) @@ (x8 :> 8)

MCSitesOf == [dex |-> {"d1"}, loader |-> {"i1", "i2"}, native |-> {"n1"}, dart |-> {"ok"},
              request |-> {"q1"}, response |-> {"br", "st"}, engine |-> {}]
AllSites == {"d1", "i1", "i2", "n1", "ok", "q1", "br", "st"}
MCScanChain == [s \in AllSites |->
  CASE s = "d1" -> {"CH-01"} [] s \in {"i1", "i2"} -> {"CH-02"}
    [] s = "n1" -> {} [] OTHER -> {"CH-12"}]
MCConfOf == [s \in AllSites |->
  CASE s = "q1" -> "probable" [] s = "i2" -> "candidate" [] OTHER -> "proven"]

MCKinds == "loader_init_call" :> {"i1", "i2"}
MCFixed == {"CH-01", "CH-03"}
MCRecipe == [c \in MCFixed |->
  IF c = "CH-01" THEN <<"d1", "loader_init_call", "n1">> ELSE <<"n1", "d1">>]
MCListed == {"CH-02", "CH-11", "CH-12"}
MCMembers == [c \in MCListed |->
  CASE c = "CH-02" -> {"i1", "i2"} [] c = "CH-11" -> {"ok"} [] OTHER -> {"q1", "br", "st"}]
MCOrder == <<"CH-01", "CH-02", "CH-03", "CH-11", "CH-12">>

NewHop(conf, facts, when) ==
  [op |-> "new", conf |-> conf, chain |-> "", facts |-> facts, when |-> when]
OfChain(op, c) ==
  [op |-> op, conf |-> "shape", chain |-> c, facts |-> {}, when |-> {}]
MCPlan == << NewHop("shape", {"frame"}, {}),
             OfChain("import", "CH-01"), OfChain("collapse", "CH-02"),
             OfChain("import", "CH-03"),
             NewHop("proven", {"frame", "slot"}, {"slot"}),
             OfChain("import", "CH-12"),
             [op |-> "gap", conf |-> "shape", chain |-> "", facts |-> {"slot"}, when |-> {}] >>
MCFacts == {"frame", "slot"}
MCTexts == {[len |-> 1, text |-> 1], [len |-> 1, text |-> 2]}
=============================================================================
