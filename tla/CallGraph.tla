----------------------------- MODULE CallGraph -----------------------------
(***************************************************************************)
(* scripts/build_call_linkage.py: build and define_chains.  The layers add *)
(* their edges one after the other, duplicates are removed, the chains are *)
(* looked up in what is left, and main publishes the graph if every check  *)
(* passed and every hop of every chain has an edge.  What the bundle holds *)
(* is open: a layer finds any of its sites, in any order, some of them     *)
(* twice, and a check over the fragments alone passes or fails.            *)
(***************************************************************************)
EXTENDS Naturals, Sequences, FiniteSets, SequencesExt, FiniteSetsExt, Picking

CONSTANTS
  SitesOf,     \* layer -> the hops (kind, caller, callee) it can find
  ScanChain,   \* site -> the chains a scan labels it with, {} or one
  ConfOf,      \* site -> confidence
  FixedChains, \* chains looked up hop by hop: CH-01, CH-03 .. CH-07, CH-09
  Recipe,      \* fixed chain -> the sites of its hops, or kinds
  ListChains,  \* chains that list the edges of a kind: CH-02, CH-08, CH-10 .. CH-12
  Members,     \* list chain -> the sites it takes
  Optional,    \* list chains left out when nothing of them was found: CH-12
  ChainOrder,  \* the order define_chains builds them in
  Kinds,       \* kind a recipe takes the [0] of -> its sites (CH-01, CH-09)
  Success,     \* the pool load by which the response handler is located
  RespBranch, RespStore  \* branch_on_check, stores_response_field

LayerNames == {"dex", "loader", "native", "dart", "request", "response", "engine"}

ASSUME CallGraphAssumption ==
  /\ SitesOf \in [LayerNames -> SUBSET UNION Range(SitesOf)]
  /\ DOMAIN Kinds \cap UNION Range(SitesOf) = {}
  /\ FixedChains \cap ListChains = {} /\ Optional \subseteq ListChains
  /\ \A layer \in LayerNames : IsFiniteSet(SitesOf[layer])
  /\ {RespBranch, RespStore} \subseteq SitesOf["response"]
  /\ ChainOrder \in Seq(FixedChains \cup ListChains)
  /\ Range(ChainOrder) = FixedChains \cup ListChains /\ IsInjective(ChainOrder)
  /\ Recipe \in [FixedChains -> Seq(UNION Range(SitesOf) \cup DOMAIN Kinds)]

VARIABLES
  stage,     \* how far build has come
  edges,     \* Graph.edges
  count,     \* Graph._n: ids are never given twice
  dupes,     \* duplicate hops removed
  failed,    \* some check has failed
  chains     \* what define_chains returns: chain -> hops (edge ids, 0: none)

cvars == <<stage, edges, count, dupes, failed, chains>>

Sites == UNION Range(SitesOf)
NoHop == 0
NoChains == <<>>

-----------------------------------------------------------------------------
(* Graph.edge: edges are appended with fresh ids                           *)

\* Mutant: the number of the edge is taken before the counter moves.
ExtendFromZero(found) ==
  /\ edges' = edges \o [i \in DOMAIN found |->
                          [id |-> count + i - 1, site |-> found[i],
                           conf |-> ConfOf[found[i]], chain |-> ScanChain[found[i]], hop |-> 0]]
  /\ count' = count + Len(found)

Extend(found) ==
  /\ edges' = edges \o [i \in DOMAIN found |->
                          [id |-> count + i, site |-> found[i],
                           conf |-> ConfOf[found[i]], chain |-> ScanChain[found[i]], hop |-> 0]]
  /\ count' = count + Len(found)

Once(S) == {s \in SeqOf(S, Cardinality(S)) : IsInjective(s)}
\* The scan and the fragment records can each find a hop: up to two finds.
Twice(S) == SeqOf(S, 2)

Goes(from, to) == stage = from /\ stage' = to

Checked(ok) == failed' = (failed \/ ~ok)

Stays == UNCHANGED <<dupes, chains>>

\* The process ends, and what it had in memory is gone.
Quit ==
  /\ stage' = "idle" /\ edges' = <<>> /\ count' = 0 /\ dupes' = 0
  /\ failed' = FALSE /\ chains' = NoChains

\* L1: the loader call sites, native declarations, and callers of F2, which are
\* counted.
Dex ==
  /\ Goes("dex", "loader")
  /\ \E found \in Twice(SitesOf["dex"]) : Extend(found)
  /\ \E counted \in BOOLEAN : Checked(counted)
  /\ Stays

\* L2: .init_array and the two JNI_OnLoad.
Loader ==
  /\ Goes("loader", "native")
  /\ \E found \in Once(SitesOf["loader"]) : Extend(found)
  /\ UNCHANGED failed
  /\ Stays

\* L3/L4: the windows are scanned, then the records of the registration sites
\* are added; every curated annotation must be at an instruction.
Native ==
  /\ Goes("native", "dart")
  /\ \E found \in Twice(SitesOf["native"]) : Extend(found)
  /\ \E annotated \in BOOLEAN : Checked(annotated)
  /\ Stays

\* L5: the listings, then the channel handlers.
Dart ==
  /\ Goes("dart", "request")
  /\ \E found \in Twice(SitesOf["dart"]) : Extend(found)
  /\ \E classified \in BOOLEAN : Checked(classified)
  /\ Stays

\* L5b: the strings beside the endpoint, if its pool run has an owner at all.
Request ==
  /\ Goes("request", "response")
  /\ \E found \in Once(SitesOf["request"]), owner \in BOOLEAN :
       /\ ~owner => found = <<>>
       /\ Extend(found)
       /\ Checked(owner)
  /\ Stays

\* The response handler is located through the load of "success"; without one
\* there is no edge and no check.
Response ==
  /\ Goes("response", "engine")
  /\ IF \E i \in DOMAIN edges : edges[i].site = Success
     THEN \E found \in {<<>>, <<RespBranch>>, <<RespBranch, RespStore>>} :
            /\ Extend(found)
            /\ Checked(Len(found) = 2)
     ELSE UNCHANGED <<edges, count, failed>>
  /\ Stays

\* L6: the engine symbols of the snapshot.
Engine ==
  /\ Goes("engine", "dedupe")
  /\ \E found \in Once(SitesOf["engine"]) : Extend(found)
  /\ UNCHANGED failed
  /\ Stays

-----------------------------------------------------------------------------
(* De-duplication: the first of a hop stays                                *)

FirstOf(i) == Min({j \in DOMAIN edges : edges[j].site = edges[i].site})

\* A label is taken over only by an edge that has none.
MergedChain(i) ==
  LET later == {j \in DOMAIN edges : edges[j].site = edges[i].site /\ edges[j].chain # {}} IN
  IF edges[i].chain = {} /\ later # {} THEN edges[Min(later)].chain ELSE edges[i].chain

Firsts == {i \in DOMAIN edges : FirstOf(i) = i}

Dedupe ==
  /\ Goes("dedupe", "chains")
  /\ edges' = Picked([i \in DOMAIN edges |-> [edges[i] EXCEPT !.chain = MergedChain(i)]],
                     Firsts)
  /\ dupes' = Len(edges) - Cardinality(Firsts)
  /\ UNCHANGED <<count, failed, chains>>

-----------------------------------------------------------------------------
(* define_chains                                                           *)

FindKind(S) == Picked([i \in DOMAIN edges |-> edges[i].id],
                      {i \in DOMAIN edges : edges[i].site \in S})

\* What an entry of a recipe may be found at.
SitesFor(site) == IF site \in DOMAIN Kinds THEN Kinds[site] ELSE {site}

\* find: the first edge at the site, or the hop is missing.
Find(site) ==
  LET hits == FindKind(SitesFor(site)) IN
  IF hits = <<>> THEN NoHop ELSE Head(hits)

HopsOf(c) ==
  IF c \in ListChains THEN FindKind(Members[c])
  ELSE [i \in DOMAIN Recipe[c] |-> Find(Recipe[c][i])]

\* A list chain without a hop is published as it is, CH-12 is left out.
Built == [c \in {d \in Range(ChainOrder) : d \in Optional => FindKind(Members[d]) # <<>>}
            |-> HopsOf(c)]

Positions(c, id) == {i \in DOMAIN Built[c] : Built[c][i] = id}
Citing(id) == {c \in DOMAIN Built : Positions(c, id) # {}}

\* Mutant: the label of a scan is not extended by the chains that cite the hop.
LabelledIfBare(e) ==
  [e EXCEPT !.chain = IF @ = {} THEN Citing(e.id) ELSE @]

\* An edge carries every chain that cites it, and its number in the first one.
Labelled(e) ==
  LET citing == {k \in DOMAIN ChainOrder : ChainOrder[k] \in Citing(e.id)} IN
  [e EXCEPT !.chain = @ \cup Citing(e.id),
            !.hop = IF citing = {} THEN 0
                    ELSE Min(Positions(ChainOrder[Min(citing)], e.id))]

\* The first of no edges of a kind is an IndexError.
DefineChains ==
  /\ stage = "chains"
  /\ IF \E kind \in DOMAIN Kinds : FindKind(Kinds[kind]) = <<>>
     THEN Quit
     ELSE /\ stage' = "checks"
          /\ chains' = Built
          /\ edges' = [i \in DOMAIN edges |-> Labelled(edges[i])]
          /\ UNCHANGED <<count, dupes, failed>>

-----------------------------------------------------------------------------
Missing == \E c \in DOMAIN chains : NoHop \in Range(chains[c])

\* The checks over the finished graph; others read the fragments again.
Checks ==
  /\ Goes("checks", "built")
  /\ \E others \in BOOLEAN : Checked(others /\ dupes = 0 /\ ~Missing)
  /\ UNCHANGED <<edges, count, dupes, chains>>

\* main: neither a failed check nor a missing hop.
Publishable == stage = "built" /\ ~failed /\ ~Missing

\* edges_to_rows and write_json; the rows are sorted by place, not by id.
Content == [edges  |-> [id \in {edges[i].id : i \in DOMAIN edges} |->
                          edges[CHOOSE i \in DOMAIN edges : edges[i].id = id]],
            chains |-> chains]

CInit ==
  /\ stage = "idle" /\ edges = <<>> /\ count = 0 /\ dupes = 0
  /\ failed = FALSE /\ chains = NoChains

\* The symbol tables come first; JNI_OnLoad must be in one.
StartBuild ==
  /\ Goes("idle", "dex")
  /\ \E tables \in BOOLEAN : Checked(tables)
  /\ UNCHANGED <<edges, count, dupes, chains>>

BuildStep ==
  Dex \/ Loader \/ Native \/ Dart \/ Request \/ Response \/ Engine
  \/ Dedupe \/ DefineChains \/ Checks

-----------------------------------------------------------------------------
(* Properties of the published graph                                       *)

CTypeOK ==
  /\ stage \in LayerNames \cup {"idle", "dedupe", "chains", "checks", "built"}
  /\ \A i \in DOMAIN edges : edges[i].site \in Sites /\ edges[i].id \in 1..count
  /\ failed \in BOOLEAN
=============================================================================
