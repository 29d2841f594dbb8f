------------------------ MODULE LinkageFiles_proofs ------------------------
(***************************************************************************)
(* What holds of the two linkage scripts for every plan, every bundle and  *)
(* any number of runs, edits and kills.                                    *)
(***************************************************************************)
EXTENDS MCLinkage, Scan_proofs, Picking_proofs, SequenceTheorems

-----------------------------------------------------------------------------
(* PublishedGraph: ids are unique from the start, hops from the            *)
(* de-duplication on, and chains are made of ids that have an edge.        *)

Confs == {ConfOf[s] : s \in Sites} \cup {"proven", "candidate", "shape", "unresolved"}
Labels == Range(ChainOrder) \cup UNION {ScanChain[s] : s \in Sites}
Edge == [id : Nat, site : Sites, conf : Confs, chain : SUBSET Labels, hop : Nat]

\* Graph._n is given out once.
Numbered ==
  /\ edges \in Seq(Edge) /\ count \in Nat
  /\ \A i \in DOMAIN edges : edges[i].id \in 1..count
  /\ \A i, j \in DOMAIN edges : edges[i].id = edges[j].id => i = j

\* The set of (kind, caller, callee) of build.
NoneTwice ==
  stage \in {"chains", "checks", "built"} =>
    \A i, j \in DOMAIN edges : edges[i].site = edges[j].site => i = j

\* Hop k of chain c, unless it is missing, is an edge that says so.
Cites(c, k) ==
  \E i \in DOMAIN edges :
    /\ edges[i].id = chains[c][k] /\ c \in edges[i].chain
    /\ c \in FixedChains =>
         edges[i].site \in SitesFor(Recipe[c][k])

Placed(i) ==
  edges[i].hop > 0 =>
    \E c \in edges[i].chain \cap DOMAIN chains :
      edges[i].hop \in DOMAIN chains[c] /\ chains[c][edges[i].hop] = edges[i].id

Woven ==
  stage \in {"checks", "built"} =>
    /\ \A c \in DOMAIN chains :
         /\ chains[c] \in Seq(Nat)
         /\ \A k \in DOMAIN chains[c] : chains[c][k] # NoHop => Cites(c, k)
    /\ \A i \in DOMAIN edges : Placed(i)

GraphInv == CTypeOK /\ Numbered /\ NoneTwice /\ Woven

\* What a layer can find are sites of it.
LEMMA FoundSites ==
  ASSUME NEW layer \in LayerNames
  PROVE  /\ SitesOf[layer] \subseteq Sites
         /\ \A found \in Twice(SitesOf[layer]) : found \in Seq(Sites)
         /\ \A found \in Once(SitesOf[layer]) : found \in Seq(Sites)
<1>1. SitesOf[layer] \subseteq Sites
  BY CallGraphAssumption DEF Sites
<1>2. ASSUME NEW n \in Nat, NEW found \in SeqOf(SitesOf[layer], n)
      PROVE  found \in Seq(Sites)
  <2>1. PICK m \in 0..n : found \in [1..m -> SitesOf[layer]]
    BY DEF SeqOf
  <2>2. found \in [1..m -> Sites]
    BY <1>1, <2>1
  <2> QED
    BY <2>2
<1>3. Cardinality(SitesOf[layer]) \in Nat
  BY CallGraphAssumption, FS_CardinalityType
<1> QED
  BY <1>1, <1>2, <1>3 DEF Twice, Once

LEMMA Extended ==
  ASSUME Numbered, NEW found \in Seq(Sites), Extend(found)
  PROVE  Numbered'
<1> DEFINE new == [i \in DOMAIN found |->
                     [id |-> count + i, site |-> found[i], conf |-> ConfOf[found[i]],
                      chain |-> ScanChain[found[i]], hop |-> 0]]
<1>1. count \in Nat /\ edges \in Seq(Edge)
  BY DEF Numbered
<1>2. Len(found) \in Nat /\ DOMAIN found = 1..Len(found)
      /\ \A i \in 1..Len(found) : found[i] \in Sites
  OBVIOUS
<1>3. ASSUME NEW i \in 1..Len(found)
      PROVE  new[i] \in Edge /\ new[i].id = count + i
  <2>1. found[i] \in Sites /\ count + i \in Nat
    BY <1>1, <1>2
  <2>2. ConfOf[found[i]] \in Confs /\ ScanChain[found[i]] \in SUBSET Labels
    BY <2>1 DEF Confs, Labels
  <2>3. new[i] = [id |-> count + i, site |-> found[i], conf |-> ConfOf[found[i]],
                  chain |-> ScanChain[found[i]], hop |-> 0]
    BY <1>2
  <2> QED
    BY <2>1, <2>2, <2>3 DEF Edge
<1>4. DOMAIN new = 1..Len(found)
  BY <1>2
<1>5. edges' = edges \o new /\ count' = count + Len(found)
  BY DEF Extend
<1> HIDE DEF new
<1>6. new \in Seq(Edge) /\ Len(new) = Len(found)
  <2>1. new \in [1..Len(found) -> Edge]
    BY <1>3, <1>4, <1>2 DEF new
  <2> QED
    BY <1>2, <2>1
<1>7. /\ edges' \in Seq(Edge) /\ Len(edges') = Len(edges) + Len(found)
      /\ DOMAIN edges' = 1..(Len(edges) + Len(found))
      /\ \A i \in 1..Len(edges) : edges'[i] = edges[i]
      /\ \A i \in (Len(edges) + 1)..(Len(edges) + Len(found)) : edges'[i] = new[i - Len(edges)]
  <2>1. /\ edges \o new \in Seq(Edge)
        /\ Len(edges \o new) = Len(edges) + Len(new)
        /\ \A i \in 1..(Len(edges) + Len(new)) :
             (edges \o new)[i] = IF i <= Len(edges) THEN edges[i] ELSE new[i - Len(edges)]
    BY <1>1, <1>6, ConcatProperties
  <2>2. Len(edges) \in Nat /\ Len(new) = Len(found) /\ Len(found) \in Nat
    BY <1>1, <1>2, <1>6
  <2>3. DOMAIN edges' = 1..Len(edges')
    BY <1>5, <2>1
  <2> QED
    BY <1>5, <2>1, <2>2, <2>3
<1>8. Len(edges) \in Nat /\ DOMAIN edges = 1..Len(edges)
  BY <1>1
<1>9. ASSUME NEW i \in DOMAIN edges'
      PROVE  \/ i \in DOMAIN edges /\ edges'[i] = edges[i] /\ edges[i].id \in 1..count
             \/ /\ i \in (Len(edges) + 1)..(Len(edges) + Len(found))
                /\ edges'[i].id = count + (i - Len(edges))
  <2>1. CASE i \in DOMAIN edges
    BY <1>7, <1>8, <2>1 DEF Numbered
  <2>2. CASE i \notin DOMAIN edges
    <3>1. i \in (Len(edges) + 1)..(Len(edges) + Len(found)) /\ i - Len(edges) \in 1..Len(found)
      BY <1>2, <1>7, <1>8, <2>2
    <3> QED
      BY <1>3, <1>7, <3>1
  <2> QED
    BY <2>1, <2>2
<1>10. ASSUME NEW i \in DOMAIN edges' PROVE edges'[i].id \in 1..count'
  <2>1. count' \in Nat /\ count' = count + Len(found)
    BY <1>1, <1>2, <1>5
  <2>2. edges'[i].id \in 1..count \/ \E k \in 1..Len(found) : edges'[i].id = count + k
    <3>1. CASE i \in DOMAIN edges /\ edges'[i] = edges[i] /\ edges[i].id \in 1..count
      BY <3>1
    <3>2. CASE /\ i \in (Len(edges) + 1)..(Len(edges) + Len(found))
               /\ edges'[i].id = count + (i - Len(edges))
      <4>1. i - Len(edges) \in 1..Len(found)
        BY <1>2, <1>8, <3>2
      <4> QED
        BY <3>2, <4>1
    <3> QED
      BY <1>9, <3>1, <3>2
  <2> QED
    BY <1>1, <1>2, <2>1, <2>2
<1>11. \A i, j \in DOMAIN edges' : edges'[i].id = edges'[j].id => i = j
  <2> SUFFICES ASSUME NEW i \in DOMAIN edges', NEW j \in DOMAIN edges', edges'[i].id = edges'[j].id
               PROVE  i = j
    OBVIOUS
  <2>1. CASE i \in DOMAIN edges /\ j \in DOMAIN edges
    BY <1>7, <1>8, <2>1 DEF Numbered
  <2>2. CASE ~(i \in DOMAIN edges /\ j \in DOMAIN edges)
    BY <1>1, <1>2, <1>8, <1>9, <2>2
  <2> QED
    BY <2>1, <2>2
<1>12. count' \in Nat
  BY <1>1, <1>2, <1>5
<1> QED
  BY <1>7, <1>10, <1>11, <1>12 DEF Numbered

\* The first of a hop keeps its number and its site.
LEMMA Deduplicated ==
  ASSUME Numbered, Dedupe
  PROVE  /\ Numbered'
         /\ \A i, j \in DOMAIN edges' : edges'[i].site = edges'[j].site => i = j
<1> DEFINE merged == [i \in DOMAIN edges |-> [edges[i] EXCEPT !.chain = MergedChain(i)]]
           N == Len(edges)
<1>1. edges \in Seq(Edge) /\ N \in Nat /\ DOMAIN edges = 1..N
  BY DEF Numbered
<1> HIDE DEF N
<1>2. ASSUME NEW i \in DOMAIN edges
      PROVE  MergedChain(i) \in SUBSET Labels
  <2> DEFINE later == {j \in DOMAIN edges : edges[j].site = edges[i].site /\ edges[j].chain # {}}
  <2>1. later # {} => Min(later) \in DOMAIN edges
    <3>1. later \in SUBSET Nat /\ later \subseteq DOMAIN edges
      BY <1>1
    <3> HIDE DEF later
    <3> QED
      BY <3>1, LeastExists
  <2>2. \A j \in DOMAIN edges : edges[j].chain \in SUBSET Labels
    <3>1. \A j \in DOMAIN edges : edges[j] \in Edge
      BY <1>1
    <3> QED
      BY <3>1 DEF Edge
  <2>3. MergedChain(i) = IF edges[i].chain = {} /\ later # {} THEN edges[Min(later)].chain
                         ELSE edges[i].chain
    BY DEF MergedChain
  <2> HIDE DEF later
  <2> QED
    BY <2>1, <2>2, <2>3
<1>3. ASSUME NEW i \in DOMAIN edges
      PROVE  merged[i] \in Edge /\ merged[i].id = edges[i].id /\ merged[i].site = edges[i].site
  <2>1. edges[i] \in Edge /\ merged[i] = [edges[i] EXCEPT !.chain = MergedChain(i)]
    BY <1>1, <1>3
  <2> HIDE DEF merged
  <2> QED
    BY <1>2, <2>1 DEF Edge
<1>4. DOMAIN merged = 1..N
  BY <1>1
<1>5. edges' = Picked(merged, Firsts) /\ count' = count
  BY DEF Dedupe
<1> HIDE DEF merged
<1>6. merged \in Seq(Edge) /\ Firsts \in SUBSET (1..N) /\ Firsts \in SUBSET DOMAIN merged
  <2>1. merged = [i \in 1..N |-> merged[i]]
    BY <1>4 DEF merged
  <2>2. \A i \in 1..N : merged[i] \in Edge
    BY <1>1, <1>3
  <2>3. merged \in Seq(Edge)
    BY <1>1, <2>1, <2>2
  <2> QED
    BY <1>1, <1>4, <2>3 DEF Firsts
<1>7. /\ edges' \in Seq(Edge)
      /\ DOMAIN edges' = 1..Cardinality(Firsts)
      /\ \A n \in DOMAIN edges' : Nth(Firsts, n) \in Firsts /\ edges'[n] = merged[Nth(Firsts, n)]
  <2>1. merged \in Seq(Edge) /\ Firsts \in SUBSET DOMAIN merged
    BY <1>6
  <2>2. Picked(merged, Firsts) \in Seq(Edge)
    BY <2>1, PickedSome
  <2>3. DOMAIN Picked(merged, Firsts) = 1..Cardinality(Firsts)
    BY <2>1, PickedSome
  <2>4. ASSUME NEW n \in 1..Cardinality(Firsts)
        PROVE  Nth(Firsts, n) \in Firsts /\ Picked(merged, Firsts)[n] = merged[Nth(Firsts, n)]
    BY <2>1, PickedSome
  <2> QED
    BY <1>5, <2>2, <2>3, <2>4
<1>8. \A n, m \in DOMAIN edges' : Nth(Firsts, n) = Nth(Firsts, m) => n = m
  BY <1>1, <1>6, <1>7, NthPlace
<1>9. ASSUME NEW n \in DOMAIN edges'
      PROVE  /\ Nth(Firsts, n) \in DOMAIN edges
             /\ edges'[n].id = edges[Nth(Firsts, n)].id
             /\ edges'[n].site = edges[Nth(Firsts, n)].site
             /\ FirstOf(Nth(Firsts, n)) = Nth(Firsts, n)
  BY <1>3, <1>7 DEF Firsts
<1>10. Numbered'
  BY <1>5, <1>7, <1>8, <1>9 DEF Numbered
<1>11. ASSUME NEW n \in DOMAIN edges', NEW m \in DOMAIN edges', edges'[n].site = edges'[m].site
       PROVE  n = m
  <2>1. edges[Nth(Firsts, n)].site = edges[Nth(Firsts, m)].site
    BY <1>9, <1>11
  <2>2. FirstOf(Nth(Firsts, n)) = FirstOf(Nth(Firsts, m))
    BY <2>1 DEF FirstOf
  <2> QED
    BY <1>8, <1>9, <2>2
<1> QED
  BY <1>10, <1>11

\* What find_kind returns are the numbers of edges at the sites it was asked for.
LEMMA FoundKind ==
  ASSUME Numbered, NEW S
  PROVE  /\ FindKind(S) \in Seq(Nat)
         /\ \A k \in DOMAIN FindKind(S) :
              \E i \in DOMAIN edges : edges[i].id = FindKind(S)[k] /\ edges[i].site \in S
<1> DEFINE ids == [i \in DOMAIN edges |-> edges[i].id]
           at == {i \in DOMAIN edges : edges[i].site \in S}
<1>1. ids \in Seq(Nat) /\ DOMAIN ids = DOMAIN edges
  <2>1. Len(edges) \in Nat /\ DOMAIN edges = 1..Len(edges) /\ \A i \in DOMAIN edges : edges[i].id \in Nat
    BY DEF Numbered, Edge
  <2> QED
    BY <2>1
<1>2. at \in SUBSET DOMAIN ids
  OBVIOUS
<1>3. FindKind(S) = Picked(ids, at)
  BY DEF FindKind
<1>4. \A i \in at : i \in DOMAIN edges /\ edges[i].site \in S /\ ids[i] = edges[i].id
  OBVIOUS
<1> HIDE DEF ids, at
<1>5. /\ Picked(ids, at) \in Seq(Nat)
      /\ \A k \in DOMAIN Picked(ids, at) : Nth(at, k) \in at /\ Picked(ids, at)[k] = ids[Nth(at, k)]
  <2>1. /\ Picked(ids, at) \in Seq(Nat)
        /\ DOMAIN Picked(ids, at) = 1..Cardinality(at)
        /\ \A n \in 1..Cardinality(at) :
             Nth(at, n) \in at /\ Picked(ids, at)[n] = ids[Nth(at, n)]
    BY <1>1, <1>2, PickedSome
  <2> QED
    BY <2>1
<1> QED
  BY <1>3, <1>4, <1>5

LEMMA FoundHop ==
  ASSUME Numbered, NEW site
  PROVE  /\ Find(site) \in Nat
         /\ Find(site) # NoHop =>
              \E i \in DOMAIN edges : edges[i].id = Find(site) /\ edges[i].site \in SitesFor(site)
<1> DEFINE hits == FindKind(SitesFor(site))
<1>1. Find(site) = IF hits = <<>> THEN NoHop ELSE Head(hits)
  BY DEF Find
<1>2. /\ hits \in Seq(Nat)
      /\ \A k \in DOMAIN hits :
           \E i \in DOMAIN edges : edges[i].id = hits[k] /\ edges[i].site \in SitesFor(site)
  BY FoundKind
<1> HIDE DEF hits
<1>3. hits # <<>> => Head(hits) = hits[1] /\ 1 \in DOMAIN hits /\ hits[1] \in Nat
  BY <1>2
<1> QED
  BY <1>1, <1>2, <1>3 DEF NoHop

\* A chain that is built has numbers for hops, of edges at its sites.
LEMMA BuiltHops ==
  ASSUME Numbered, NEW c \in DOMAIN Built
  PROVE  /\ Built[c] \in Seq(Nat)
         /\ \A k \in DOMAIN Built[c] : Built[c][k] # NoHop =>
              \E i \in DOMAIN edges :
                /\ edges[i].id = Built[c][k]
                /\ c \in FixedChains => edges[i].site \in SitesFor(Recipe[c][k])
<1>1. c \in FixedChains \cup ListChains /\ Built[c] = HopsOf(c)
  BY CallGraphAssumption DEF Built
<1>2. CASE c \in ListChains
  <2>1. c \notin FixedChains /\ Built[c] = FindKind(Members[c])
    BY <1>1, <1>2, CallGraphAssumption DEF HopsOf
  <2> QED
    BY <2>1, FoundKind
<1>3. CASE c \notin ListChains
  <2>1. c \in FixedChains /\ Built[c] = [i \in DOMAIN Recipe[c] |-> Find(Recipe[c][i])]
    BY <1>1, <1>3 DEF HopsOf
  <2>2. Len(Recipe[c]) \in Nat /\ DOMAIN Recipe[c] = 1..Len(Recipe[c])
    BY <2>1, CallGraphAssumption
  <2>3. Built[c] \in Seq(Nat)
    BY <2>1, <2>2, FoundHop
  <2> QED
    BY <2>1, <2>3, FoundHop
<1> QED
  BY <1>2, <1>3

\* What define_chains writes into an edge: the chains that cite it are added, and
\* its hop is a place at which one of them does.
LEMMA LabelledEdge ==
  ASSUME Numbered, NEW i \in DOMAIN edges
  PROVE  /\ Labelled(edges[i]) \in Edge
         /\ Labelled(edges[i]).id = edges[i].id /\ Labelled(edges[i]).site = edges[i].site
         /\ Labelled(edges[i]).chain = edges[i].chain \cup Citing(edges[i].id)
         /\ Labelled(edges[i]).hop > 0 =>
              \E c \in Citing(edges[i].id) :
                Labelled(edges[i]).hop \in Positions(c, edges[i].id)
<1> DEFINE e == edges[i]
           citing == {k \in DOMAIN ChainOrder : ChainOrder[k] \in Citing(e.id)}
           first == ChainOrder[Min(citing)]
           hop == IF citing = {} THEN 0 ELSE Min(Positions(first, e.id))
           chain == e.chain \cup Citing(e.id)
<1>1. e \in Edge
  BY DEF Numbered
<1>2. citing # {} => first \in Citing(e.id)
  <2>1. citing \in SUBSET Nat
    BY CallGraphAssumption
  <2>2. citing # {} => Min(citing) \in citing
    <3> HIDE DEF citing
    <3> QED
      BY <2>1, LeastExists
  <2> QED
    BY <2>2
<1>3. ASSUME NEW c \in Citing(e.id)
      PROVE  Min(Positions(c, e.id)) \in Positions(c, e.id) /\ Positions(c, e.id) \in SUBSET Nat
  <2>1. Positions(c, e.id) # {} /\ c \in DOMAIN Built
    BY DEF Citing
  <2>2. Built[c] \in Seq(Nat)
    BY <2>1, BuiltHops
  <2>3. Positions(c, e.id) \in SUBSET Nat
    <3>1. DOMAIN Built[c] \subseteq Nat
      BY <2>2
    <3> QED
      BY <3>1 DEF Positions
  <2> QED
    BY <2>1, <2>3, LeastExists
<1>4. Citing(e.id) \in SUBSET Labels
  BY DEF Citing, Built, Labels
<1>5. Labelled(e) = [e EXCEPT !.chain = chain, !.hop = hop]
  BY DEF Labelled
<1> HIDE DEF e, citing, first
<1>6. hop \in Nat
  BY <1>2, <1>3
<1>7. hop > 0 => \E c \in Citing(e.id) : hop \in Positions(c, e.id)
  BY <1>2, <1>3
<1> HIDE DEF hop
<1> USE DEF e
<1>8. chain \in SUBSET Labels
  BY <1>1, <1>4 DEF Edge
<1>9. Labelled(e) = [id |-> e.id, site |-> e.site, conf |-> e.conf, chain |-> chain, hop |-> hop]
  <2> HIDE DEF e, chain
  <2> QED
    BY <1>1, <1>5 DEF Edge
<1>10. Labelled(e) \in Edge
  BY <1>1, <1>6, <1>8, <1>9 DEF Edge
<1> QED
  BY <1>7, <1>9, <1>10

\* define_chains weaves the graph.
LEMMA Defined ==
  ASSUME GraphInv, DefineChains, stage' = "checks"
  PROVE  GraphInv'
<1>1. Numbered /\ stage = "chains" /\ \A i, j \in DOMAIN edges : edges[i].site = edges[j].site => i = j
  BY DEF GraphInv, NoneTwice, DefineChains
<1>2. /\ chains' = Built /\ count' = count /\ failed' = failed
      /\ edges' = [i \in DOMAIN edges |-> Labelled(edges[i])]
  BY DEF DefineChains, Quit
<1>3. Len(edges) \in Nat /\ DOMAIN edges = 1..Len(edges) /\ DOMAIN edges' = DOMAIN edges
  BY <1>1, <1>2 DEF Numbered
<1>4. ASSUME NEW i \in DOMAIN edges
      PROVE  /\ edges'[i] \in Edge /\ edges'[i].id = edges[i].id /\ edges'[i].site = edges[i].site
             /\ edges'[i].chain = edges[i].chain \cup Citing(edges[i].id)
             /\ edges'[i].hop > 0 =>
                  \E c \in Citing(edges[i].id) : edges'[i].hop \in Positions(c, edges[i].id)
  <2>1. edges'[i] = Labelled(edges[i])
    BY <1>2
  <2> QED
    BY <1>1, <2>1, LabelledEdge
<1>5. edges' \in Seq(Edge)
  <2>1. edges' \in [1..Len(edges) -> Edge]
    BY <1>2, <1>3, <1>4
  <2> QED
    BY <1>3, <2>1
<1>6. Numbered'
  BY <1>1, <1>2, <1>3, <1>4, <1>5 DEF Numbered
<1>7. NoneTwice'
  BY <1>1, <1>3, <1>4 DEF NoneTwice
<1>8. ASSUME NEW c \in DOMAIN chains'
      PROVE  /\ chains'[c] \in Seq(Nat)
             /\ \A k \in DOMAIN chains'[c] : chains'[c][k] # NoHop => Cites(c, k)'
  <2>1. c \in DOMAIN Built /\ chains'[c] = Built[c]
    BY <1>2
  <2>2. ASSUME NEW k \in DOMAIN Built[c], Built[c][k] # NoHop
        PROVE  Cites(c, k)'
    <3>1. PICK i \in DOMAIN edges :
            /\ edges[i].id = Built[c][k]
            /\ c \in FixedChains => edges[i].site \in SitesFor(Recipe[c][k])
      BY <1>1, <2>1, <2>2, BuiltHops
    <3>2. c \in Citing(edges[i].id)
      BY <2>1, <2>2, <3>1 DEF Citing, Positions
    <3>3. /\ i \in DOMAIN edges' /\ edges'[i].id = chains'[c][k] /\ c \in edges'[i].chain
          /\ c \in FixedChains => edges'[i].site \in SitesFor(Recipe[c][k])
      BY <1>3, <1>4, <2>1, <3>1, <3>2
    <3> QED
      BY <3>3 DEF Cites, SitesFor
  <2> QED
    BY <1>1, <2>1, <2>2, BuiltHops
<1>9. ASSUME NEW i \in DOMAIN edges'
      PROVE  Placed(i)'
  <2>1. SUFFICES ASSUME edges'[i].hop > 0
                 PROVE  \E c \in edges'[i].chain \cap DOMAIN chains' :
                          edges'[i].hop \in DOMAIN chains'[c]
                          /\ chains'[c][edges'[i].hop] = edges'[i].id
    BY DEF Placed
  <2>2. PICK c \in Citing(edges[i].id) : edges'[i].hop \in Positions(c, edges[i].id)
    BY <1>3, <1>4, <2>1
  <2>3. c \in DOMAIN Built /\ edges'[i].hop \in DOMAIN Built[c]
        /\ Built[c][edges'[i].hop] = edges[i].id
    BY <2>2 DEF Citing, Positions
  <2> QED
    BY <1>2, <1>3, <1>4, <2>2, <2>3
<1>10. Woven'
  BY <1>8, <1>9 DEF Woven
<1>11. CTypeOK'
  BY <1>2, <1>3, <1>4, <1>6 DEF CTypeOK, Numbered, Edge, GraphInv
<1> QED
  BY <1>6, <1>7, <1>10, <1>11 DEF GraphInv

\* One step of the call script, or none.
Graphic == StartBuild \/ BuildStep \/ Quit \/ UNCHANGED cvars

LEMMA LayerStep ==
  ASSUME GraphInv, NEW found \in Seq(Sites), Extend(found),
         stage' \in LayerNames \cup {"dedupe"}, failed' \in BOOLEAN
  PROVE  GraphInv'
<1>1. Numbered'
  BY Extended DEF GraphInv
<1>2. CTypeOK'
  <2>1. \A i \in DOMAIN edges' : edges'[i] \in Edge /\ edges'[i].id \in 1..count'
    BY <1>1 DEF Numbered
  <2>2. \A i \in DOMAIN edges' : edges'[i].site \in Sites
    BY <2>1 DEF Edge
  <2> QED
    BY <2>1, <2>2 DEF CTypeOK
<1>3. stage' \notin {"chains", "checks", "built"}
  BY DEF LayerNames
<1> QED
  BY <1>1, <1>2, <1>3 DEF GraphInv, NoneTwice, Woven

LEMMA GraphStep ==
  ASSUME GraphInv, Graphic
  PROVE  GraphInv'
<1>1. failed \in BOOLEAN
  BY DEF GraphInv, CTypeOK
<1>2. CASE Dex
  <2>1. PICK found \in Twice(SitesOf["dex"]) : Extend(found)
    BY <1>2 DEF Dex
  <2>2. stage' = "loader" /\ failed' \in BOOLEAN
    BY <1>1, <1>2 DEF Dex, Goes, Checked
  <2>3. found \in Seq(Sites)
    BY FoundSites DEF LayerNames
  <2> QED
    BY <2>1, <2>2, <2>3, LayerStep DEF LayerNames
<1>3. CASE Loader
  <2>1. PICK found \in Once(SitesOf["loader"]) : Extend(found)
    BY <1>3 DEF Loader
  <2>2. stage' = "native" /\ failed' \in BOOLEAN
    BY <1>1, <1>3 DEF Loader, Goes
  <2>3. found \in Seq(Sites)
    BY FoundSites DEF LayerNames
  <2> QED
    BY <2>1, <2>2, <2>3, LayerStep DEF LayerNames
<1>4. CASE Native
  <2>1. PICK found \in Twice(SitesOf["native"]) : Extend(found)
    BY <1>4 DEF Native
  <2>2. stage' = "dart" /\ failed' \in BOOLEAN
    BY <1>1, <1>4 DEF Native, Goes, Checked
  <2>3. found \in Seq(Sites)
    BY FoundSites DEF LayerNames
  <2> QED
    BY <2>1, <2>2, <2>3, LayerStep DEF LayerNames
<1>5. CASE Dart
  <2>1. PICK found \in Twice(SitesOf["dart"]) : Extend(found)
    BY <1>5 DEF Dart
  <2>2. stage' = "request" /\ failed' \in BOOLEAN
    BY <1>1, <1>5 DEF Dart, Goes, Checked
  <2>3. found \in Seq(Sites)
    BY FoundSites DEF LayerNames
  <2> QED
    BY <2>1, <2>2, <2>3, LayerStep DEF LayerNames
<1>6. CASE Request
  <2>1. PICK found \in Once(SitesOf["request"]) : Extend(found)
    BY <1>6 DEF Request
  <2>2. stage' = "response" /\ failed' \in BOOLEAN
    BY <1>1, <1>6 DEF Request, Goes, Checked
  <2>3. found \in Seq(Sites)
    BY FoundSites DEF LayerNames
  <2> QED
    BY <2>1, <2>2, <2>3, LayerStep DEF LayerNames
<1>7. CASE Response
  <2>1. stage' = "engine" /\ failed' \in BOOLEAN
    BY <1>1, <1>7 DEF Response, Goes, Checked
  <2>2. CASE UNCHANGED <<edges, count, failed>>
    <3>1. CTypeOK' /\ Numbered'
      BY <2>1, <2>2 DEF GraphInv, CTypeOK, Numbered, LayerNames
    <3> QED
      BY <2>1, <3>1 DEF GraphInv, NoneTwice, Woven
  <2>3. CASE \E found \in {<<>>, <<RespBranch>>, <<RespBranch, RespStore>>} : Extend(found)
    <3>1. PICK found \in {<<>>, <<RespBranch>>, <<RespBranch, RespStore>>} : Extend(found)
      BY <2>3
    <3>2. RespBranch \in Sites /\ RespStore \in Sites
      BY FoundSites, CallGraphAssumption DEF LayerNames
    <3>3. /\ <<>> \in Seq(Sites) /\ <<RespBranch>> \in Seq(Sites)
          /\ <<RespBranch, RespStore>> \in Seq(Sites)
      BY <3>2
    <3>4. found \in Seq(Sites)
      BY <3>1, <3>3
    <3> QED
      BY <2>1, <3>1, <3>4, LayerStep DEF LayerNames
  <2> QED
    BY <1>7, <2>2, <2>3 DEF Response
<1>8. CASE Engine
  <2>1. PICK found \in Once(SitesOf["engine"]) : Extend(found)
    BY <1>8 DEF Engine
  <2>2. stage' = "dedupe" /\ failed' \in BOOLEAN
    BY <1>1, <1>8 DEF Engine, Goes
  <2>3. found \in Seq(Sites)
    BY FoundSites DEF LayerNames
  <2> QED
    BY <2>1, <2>2, <2>3, LayerStep
<1>9. CASE Dedupe
  <2>1. Numbered' /\ \A i, j \in DOMAIN edges' : edges'[i].site = edges'[j].site => i = j
    BY <1>9, Deduplicated DEF GraphInv
  <2>2. stage' = "chains" /\ failed' = failed
    BY <1>9 DEF Dedupe, Goes
  <2>3. CTypeOK'
    <3>1. \A i \in DOMAIN edges' : edges'[i] \in Edge /\ edges'[i].id \in 1..count'
      BY <2>1 DEF Numbered
    <3>2. \A i \in DOMAIN edges' : edges'[i].site \in Sites
      BY <3>1 DEF Edge
    <3> QED
      BY <1>1, <2>2, <3>1, <3>2 DEF CTypeOK
  <2> QED
    BY <2>1, <2>2, <2>3 DEF GraphInv, NoneTwice, Woven
<1>10. CASE Quit
  <2>1. stage' = "idle" /\ edges' = <<>> /\ count' = 0 /\ failed' = FALSE
    BY <1>10 DEF Quit
  <2>2. edges' \in Seq(Edge) /\ DOMAIN edges' = {}
    BY <2>1
  <2>3. CTypeOK'
    BY <2>1, <2>2 DEF CTypeOK
  <2>4. Numbered'
    BY <2>1, <2>2 DEF Numbered
  <2> QED
    BY <2>1, <2>3, <2>4 DEF GraphInv, NoneTwice, Woven
<1>11. CASE DefineChains
  <2>1. Quit \/ stage' = "checks"
    BY <1>11 DEF DefineChains
  <2> QED
    BY <1>10, <1>11, <2>1, Defined
<1>12. CASE Checks
  <2>1. stage = "checks" /\ stage' = "built" /\ failed' \in BOOLEAN
    BY <1>1, <1>12 DEF Checks, Goes, Checked
  <2>2. UNCHANGED <<edges, count, chains>>
    BY <1>12 DEF Checks
  <2>3. CTypeOK' /\ Numbered' /\ NoneTwice'
    BY <2>1, <2>2 DEF GraphInv, CTypeOK, Numbered, NoneTwice
  <2>4. Woven'
    BY <2>1, <2>2 DEF GraphInv, Woven, Placed, Cites
  <2> QED
    BY <2>3, <2>4 DEF GraphInv
<1>13. CASE StartBuild
  <2>1. stage' = "dex" /\ failed' \in BOOLEAN /\ UNCHANGED <<edges, count>>
    BY <1>1, <1>13 DEF StartBuild, Goes, Checked
  <2>2. CTypeOK' /\ Numbered'
    BY <2>1 DEF GraphInv, CTypeOK, Numbered, LayerNames
  <2> QED
    BY <2>1, <2>2 DEF GraphInv, NoneTwice, Woven
<1>14. CASE UNCHANGED cvars
  BY <1>14 DEF GraphInv, CTypeOK, Numbered, NoneTwice, Woven, Placed, Cites, cvars
<1> QED
  BY <1>2, <1>3, <1>4, <1>5, <1>6, <1>7, <1>8, <1>9, <1>10, <1>11, <1>12, <1>13, <1>14
     DEF Graphic, BuildStep

\* edges_to_rows: a number leads to the edge that has it.
LEMMA ContentOf ==
  ASSUME Numbered
  PROVE  /\ Content.chains = chains
         /\ DOMAIN Content.edges = {edges[i].id : i \in DOMAIN edges}
         /\ \A i \in DOMAIN edges : Content.edges[edges[i].id] = edges[i]
<1> DEFINE place(id) == CHOOSE i \in DOMAIN edges : edges[i].id = id
           rows == [id \in {edges[i].id : i \in DOMAIN edges} |-> edges[place(id)]]
<1>1. Content = [edges |-> rows, chains |-> chains]
  BY DEF Content
<1>2. ASSUME NEW i \in DOMAIN edges
      PROVE  rows[edges[i].id] = edges[i]
  <2>1. \A j \in DOMAIN edges : edges[j].id = edges[i].id <=> j = i
    BY DEF Numbered
  <2>2. place(edges[i].id) = i
    BY <2>1
  <2> HIDE DEF place
  <2> QED
    BY <2>2
<1>3. DOMAIN rows = {edges[i].id : i \in DOMAIN edges}
  OBVIOUS
<1> HIDE DEF rows
<1> QED
  BY <1>1, <1>2, <1>3

\* What call_linkage.json says, whoever made it: the numbers of a chain are numbers.
Shaped(d) ==
  /\ \A c \in DOMAIN d.chains : d.chains[c] \in Seq(Nat)
  /\ \A id \in DOMAIN d.edges : id \in Nat /\ d.edges[id].conf \in Confs

\* main writes what build has finished.
Filed ==
  /\ callpc \in 0..6
  /\ callpc > 0 => stage = "built" /\ ~Missing
  /\ Shaped(json)

LEMMA ContentShaped ==
  ASSUME GraphInv, stage = "built"
  PROVE  Shaped(Content)
<1>1. Numbered /\ \A c \in DOMAIN chains : chains[c] \in Seq(Nat)
  BY DEF GraphInv, Woven
<1>2. \A i \in DOMAIN edges : edges[i] \in Edge
  BY <1>1 DEF Numbered
<1>3. \A i \in DOMAIN edges : edges[i].id \in Nat /\ edges[i].conf \in Confs
  BY <1>2 DEF Edge
<1>4. /\ Content.chains = chains /\ DOMAIN Content.edges = {edges[i].id : i \in DOMAIN edges}
      /\ \A i \in DOMAIN edges : Content.edges[edges[i].id] = edges[i]
  BY <1>1, ContentOf
<1>5. \A id \in DOMAIN Content.edges : id \in Nat /\ Content.edges[id].conf \in Confs
  BY <1>3, <1>4
<1> QED
  BY <1>1, <1>4, <1>5 DEF Shaped

\* The operator takes out, and puts in nothing.
LEMMA EditedShaped ==
  ASSUME Shaped(json), EditJson
  PROVE  Shaped(json')
<1>1. CASE \E gone \in DOMAIN json.edges :
             json' = [json EXCEPT !.edges = [id \in DOMAIN @ \ {gone} |-> @[id]]]
  <2>1. PICK gone \in DOMAIN json.edges :
          json' = [json EXCEPT !.edges = [id \in DOMAIN json.edges \ {gone} |-> json.edges[id]]]
    BY <1>1
  <2>2. json'.chains = json.chains
    BY <2>1
  <2>3. json'.edges = [id \in DOMAIN json.edges \ {gone} |-> json.edges[id]] \/ json'.edges = json.edges
    BY <2>1
  <2> QED
    BY <2>2, <2>3 DEF Shaped
<1>2. CASE \E gone \in DOMAIN json.chains :
             json' = [json EXCEPT !.chains = [c \in DOMAIN @ \ {gone} |-> @[c]]]
  <2>1. PICK gone \in DOMAIN json.chains :
          json' = [json EXCEPT !.chains = [c \in DOMAIN json.chains \ {gone} |-> json.chains[c]]]
    BY <1>2
  <2>2. json'.edges = json.edges
    BY <2>1
  <2>3. json'.chains = [c \in DOMAIN json.chains \ {gone} |-> json.chains[c]] \/ json'.chains = json.chains
    BY <2>1
  <2> QED
    BY <2>2, <2>3 DEF Shaped
<1> QED
  BY <1>1, <1>2 DEF EditJson

LEMMA FiledStep ==
  ASSUME GraphInv, Filed, [LNext]_lvars
  PROVE  Graphic /\ Filed'
<1>1. Filed
  OBVIOUS
<1>2. CASE CallStart
  <2>1. StartBuild /\ UNCHANGED <<callpc, json>> /\ stage = "idle"
    BY <1>2 DEF CallStart, StaysOnDisk, StartBuild, Goes
  <2> QED
    BY <1>1, <2>1 DEF Filed, Graphic
<1>3. CASE CallBuild
  <2>1. BuildStep /\ UNCHANGED <<callpc, json>> /\ stage # "built"
    BY <1>3 DEF CallBuild, fvars, BuildStep, Dex, Loader, Native, Dart, Request, Response, Engine,
                Dedupe, DefineChains, Checks, Goes
  <2> QED
    BY <1>1, <2>1 DEF Filed, Graphic
<1>4. CASE CallEnds
  <2>1. Quit /\ UNCHANGED <<callpc, json>> /\ callpc = 0
    BY <1>4 DEF CallEnds, fvars
  <2> QED
    BY <1>1, <2>1 DEF Filed, Graphic
<1>5. CASE CallWrites
  <2>1. UNCHANGED cvars /\ callpc' = 1 /\ UNCHANGED json /\ stage = "built" /\ ~Missing
    BY <1>5 DEF CallWrites, StaysOnDisk, Publishable
  <2>2. stage' = "built" /\ ~Missing'
    BY <2>1 DEF cvars, Missing
  <2> QED
    BY <1>1, <2>1, <2>2 DEF Filed, Graphic
<1>6. CASE CallOpens
  <2>1. UNCHANGED cvars /\ callpc' = callpc + 1 /\ callpc \in {1, 3, 5} /\ UNCHANGED json
    BY <1>6 DEF CallOpens
  <2>2. stage' = "built" /\ ~Missing'
    BY <1>1, <2>1 DEF cvars, Missing, Filed
  <2> QED
    BY <1>1, <2>1, <2>2 DEF Filed, Graphic
<1>7. CASE CallCloses
  <2>1. callpc \in {2, 4, 6} /\ callpc' = (callpc + 1) % 7 /\ stage = "built" /\ ~Missing
    BY <1>1, <1>7 DEF CallCloses, Filed
  <2>2. json' = Content \/ json' = json
    BY <1>7 DEF CallCloses
  <2>3. Shaped(json')
    BY <1>1, <2>1, <2>2, ContentShaped DEF Filed
  <2>4. CASE callpc = 6
    <3>1. callpc' = 0 /\ Quit
      BY <1>7, <2>1, <2>4 DEF CallCloses
    <3> QED
      BY <2>3, <3>1 DEF Filed, Graphic
  <2>5. CASE callpc # 6
    <3>1. callpc' \in 0..6 /\ UNCHANGED cvars
      BY <1>7, <2>1, <2>5 DEF CallCloses
    <3>2. stage' = "built" /\ ~Missing'
      BY <2>1, <3>1 DEF cvars, Missing
    <3> QED
      BY <2>3, <3>1, <3>2 DEF Filed, Graphic
  <2> QED
    BY <2>4, <2>5
<1>8. CASE CallKilled
  <2>1. Quit /\ callpc' = 0 /\ UNCHANGED json
    BY <1>8 DEF CallKilled, StaysOnDisk
  <2> QED
    BY <1>1, <2>1 DEF Filed, Graphic
<1>9. ASSUME UNCHANGED <<cvars, callpc>>, Shaped(json')
      PROVE  Graphic /\ Filed'
  BY <1>1, <1>9 DEF Filed, Graphic, cvars, Missing
<1>10. CASE BootStart
  BY <1>1, <1>9, <1>10 DEF BootStart, StaysOnDisk, Filed
<1>11. CASE BootLoads
  BY <1>1, <1>9, <1>11 DEF BootLoads, fvars, Filed
<1>12. CASE BootBuilds
  BY <1>1, <1>9, <1>12 DEF BootBuilds, fvars, Filed
<1>13. CASE BootOpens
  BY <1>1, <1>9, <1>13 DEF BootOpens, Filed
<1>14. CASE BootCloses
  BY <1>1, <1>9, <1>14 DEF BootCloses, Filed
<1>15. CASE BootKilled
  BY <1>1, <1>9, <1>15 DEF BootKilled, StaysOnDisk, Filed
<1>16. CASE EditInput
  BY <1>1, <1>9, <1>16 DEF EditInput, StaysOnDisk, Filed
<1>17. CASE EditJson
  <2>1. UNCHANGED <<cvars, callpc>>
    BY <1>17 DEF EditJson
  <2>2. Shaped(json')
    BY <1>1, <1>17, EditedShaped DEF Filed
  <2> QED
    BY <1>9, <2>1, <2>2
<1>18. CASE UNCHANGED lvars
  BY <1>1, <1>9, <1>18 DEF lvars, fvars, Filed
<1> QED
  BY <1>2, <1>3, <1>4, <1>5, <1>6, <1>7, <1>8, <1>10, <1>11, <1>12, <1>13, <1>14, <1>15,
     <1>16, <1>17, <1>18 DEF LNext, CallStep, BootStep

LEMMA GraphHolds == LSpec => [](GraphInv /\ Filed)
<1>1. LInit => GraphInv /\ Filed
  <2> SUFFICES ASSUME LInit PROVE GraphInv /\ Filed
    OBVIOUS
  <2>1. stage = "idle" /\ edges = <<>> /\ count = 0 /\ failed = FALSE /\ callpc = 0 /\ json = NoData
    BY DEF LInit, CInit
  <2>2. edges \in Seq(Edge) /\ DOMAIN edges = {}
    BY <2>1
  <2>3. Shaped(json)
    BY <2>1 DEF Shaped, NoData
  <2>4. CTypeOK /\ Numbered
    BY <2>1, <2>2 DEF CTypeOK, Numbered
  <2> QED
    BY <2>1, <2>3, <2>4 DEF GraphInv, NoneTwice, Woven, Filed
<1>2. GraphInv /\ Filed /\ [LNext]_lvars => GraphInv' /\ Filed'
  BY FiledStep, GraphStep
<1> QED
  BY <1>1, <1>2, PTL DEF LSpec

\* PublishedGraph for every recipe and every bundle: while main writes, no hop is in
\* the graph twice, every hop of every chain is an edge at the site the recipe names
\* and says so, and the number of an edge is its place in a chain it is labelled
\* with (build, define_chains and main of build_call_linkage.py).
THEOREM GraphIsWoven == LSpec => []PublishedGraph
<1>1. ASSUME GraphInv, Filed
      PROVE  PublishedGraph
  <2> DEFINE g == Content.edges
  <2>1. SUFFICES ASSUME callpc > 0
                 PROVE  PublishedGraph
    BY Zenon DEF PublishedGraph
  <2>2. stage = "built" /\ ~Missing
    BY <1>1, <2>1 DEF Filed
  <2>3. DOMAIN g = {edges[i].id : i \in DOMAIN edges} /\ \A i \in DOMAIN edges : g[edges[i].id] = edges[i]
    BY <1>1, ContentOf DEF GraphInv
  <2> HIDE DEF g
  <2>4. ASSUME NEW id \in DOMAIN g, NEW other \in DOMAIN g, g[id].site = g[other].site
        PROVE  id = other
    <3>1. PICK i \in DOMAIN edges : id = edges[i].id /\ g[id] = edges[i]
      BY <2>3
    <3>2. PICK j \in DOMAIN edges : other = edges[j].id /\ g[other] = edges[j]
      BY <2>3
    <3> QED
      BY <1>1, <2>2, <2>4, <3>1, <3>2 DEF GraphInv, NoneTwice
  <2>5. ASSUME NEW c \in DOMAIN chains, NEW k \in DOMAIN chains[c]
        PROVE  /\ chains[c][k] \in DOMAIN g
               /\ c \in g[chains[c][k]].chain
               /\ c \in FixedChains =>
                    g[chains[c][k]].site \in SitesFor(Recipe[c][k])
    <3>1. chains[c][k] # NoHop
      BY <2>2 DEF Missing, Range
    <3>2. Cites(c, k)
      BY <1>1, <2>2, <3>1 DEF GraphInv, Woven
    <3> QED
      BY <2>3, <3>2 DEF Cites
  <2>6. ASSUME NEW id \in DOMAIN g, g[id].hop > 0
        PROVE  \E c \in g[id].chain \cap DOMAIN chains :
                 g[id].hop \in DOMAIN chains[c] /\ chains[c][g[id].hop] = id
    <3>1. PICK i \in DOMAIN edges : id = edges[i].id /\ g[id] = edges[i]
      BY <2>3
    <3>2. Placed(i)
      BY <1>1, <2>2 DEF GraphInv, Woven
    <3> QED
      BY <2>6, <3>1, <3>2 DEF Placed
  <2> QED
    BY <2>4, <2>5, <2>6, Zenon DEF PublishedGraph, g
<1> QED
  BY <1>1, GraphHolds, PTL

-----------------------------------------------------------------------------
(* SpineComplete: until a problem is recorded, every chain of the bundle   *)
(* is the one of the file and every hop is the one it says it is.          *)

NoName == ""
ChainNames == STRING \cup {NoName}
Reference == [ref : {"fact", "edge", "chain"}, fact : Facts \cup {NoName}, chain : ChainNames, n : Nat]
SpineHop == [via : ChainNames \X Nat, edge : Nat, collapsed : Nat, conf : Confs,
             refs : SUBSET Reference]

\* _load_call_linkage has recorded a problem, or left nothing out.
Indexed ==
  /\ Shaped(data) /\ DOMAIN order = DOMAIN data.chains
  /\ \A c \in DOMAIN order :
       /\ order[c] \in Seq(DOMAIN data.edges) /\ Len(order[c]) <= Len(data.chains[c])
       /\ ~problems => order[c] = data.chains[c]

\* An imported hop is the edge it announces; the others carry no number.
TrueTo(h) ==
  /\ HasEdge(h.via[1], h.via[2])
  /\ h.edge = order[h.via[1]][h.via[2]]
  /\ h.conf = data.edges[h.edge].conf /\ h.refs = {EdgeRef(h.via[1], h.via[2])}
OfItsOwn(h) == h.via[2] = 0 /\ h.via[1] \in PlanChains("collapse") \cup {NoName}

Traced ==
  /\ hops \in Seq(SpineHop)
  /\ \A i \in DOMAIN hops : TrueTo(hops[i]) \/ OfItsOwn(hops[i])

\* Entry j of the plan, if it imports a chain, has brought all of it.
BroughtBy(j) ==
  Plan[j].op = "import" /\ ~problems =>
    /\ ChainHops(Plan[j].chain) > 0
    /\ \A k \in 1..ChainHops(Plan[j].chain) : \E i \in Via(Plan[j].chain) : hops[i].via[2] = k

Brought == \A j \in 1..(next - 1) : BroughtBy(j)

Paced ==
  /\ bstage \in {"idle", "load"} => next = 1 /\ hops = <<>> /\ data = NoData /\ order = <<>>
  /\ bstage \in {"checks", "emit"} => next = Len(Plan) + 1
  /\ bstage = "emit" /\ rc = 0 => ~problems

SpineInv == BTypeOK /\ Indexed /\ Traced /\ Brought /\ Paced

\* _load_call_linkage keeps what it can resolve, and says so when that is not all.
LEMMA LoadedOrder ==
  ASSUME Shaped(json), Load(json)
  PROVE  Indexed'
<1> DEFINE known(c) == {k \in DOMAIN json.chains[c] : json.chains[c][k] \in DOMAIN json.edges}
<1>1. /\ data' = json
      /\ order' = [c \in DOMAIN json.chains |-> Picked(json.chains[c], known(c))]
      /\ problems' = (\E c \in DOMAIN json.chains : Len(order'[c]) < Len(json.chains[c]))
  BY DEF Load
<1>2. ASSUME NEW c \in DOMAIN json.chains
      PROVE  /\ order'[c] \in Seq(DOMAIN json.edges)
             /\ Len(order'[c]) <= Len(json.chains[c])
             /\ ~problems' => order'[c] = json.chains[c]
  <2> DEFINE chain == json.chains[c]
             kept == Picked(chain, known(c))
  <2>1. chain \in Seq(Nat) /\ known(c) \in SUBSET DOMAIN chain
    BY DEF Shaped
  <2>2. order'[c] = kept
    BY <1>1
  <2>3. /\ Len(kept) = Cardinality(known(c)) /\ Cardinality(known(c)) \in 0..Len(chain)
        /\ DOMAIN kept = 1..Cardinality(known(c)) /\ kept \in Seq(Nat)
    <3> HIDE DEF known
    <3> QED
      BY <2>1, PickedSome
  <2>4. \A n \in 1..Cardinality(known(c)) : Nth(known(c), n) \in known(c) /\ kept[n] = chain[Nth(known(c), n)]
    <3> HIDE DEF known
    <3> QED
      BY <2>1, PickedSome
  <2>5. Cardinality(known(c)) = Len(chain) => kept = chain
    <3>1. Cardinality(known(c)) = Len(chain) => known(c) = DOMAIN chain
      BY <2>1, PickedSome
    <3>2. DOMAIN chain = 1..Len(chain) /\ Picked(chain, 1..Len(chain)) = chain
      BY <2>1, PickedAll
    <3> QED
      BY <3>1, <3>2
  <2>6. \A n \in DOMAIN kept : kept[n] \in DOMAIN json.edges
    BY <2>3, <2>4
  <2> HIDE DEF kept, known
  <2>7. kept \in Seq(DOMAIN json.edges)
    BY <2>3, <2>6
  <2>8. ~problems' => ~(Len(kept) < Len(chain))
    BY <1>1, <2>2
  <2> QED
    BY <2>1, <2>2, <2>3, <2>5, <2>7, <2>8
<1>3. DOMAIN order' = DOMAIN json.chains
  BY <1>1
<1> QED
  BY <1>1, <1>2, <1>3 DEF Indexed

\* The hops of a chain that are there are its first ones.
LEMMA HopsThere ==
  ASSUME Indexed, NEW c
  PROVE  /\ ChainHops(c) \in Nat
         /\ LET there == Cardinality({k \in 1..ChainHops(c) : HasEdge(c, k)}) IN
              there \in 0..ChainHops(c) /\ \A k \in 1..there : HasEdge(c, k)
<1> DEFINE there == {k \in 1..ChainHops(c) : HasEdge(c, k)}
<1>1. CASE c \in DOMAIN order
  <2>1. /\ data.chains[c] \in Seq(Nat) /\ order[c] \in Seq(DOMAIN data.edges)
        /\ Len(order[c]) <= Len(data.chains[c])
    BY <1>1 DEF Indexed, Shaped
  <2>2. ChainHops(c) = Len(data.chains[c])
    BY <1>1 DEF ChainHops, Indexed
  <2>3. Len(order[c]) \in Nat /\ Len(data.chains[c]) \in Nat
    BY <2>1
  <2>4. there = 1..Len(order[c])
    <3>1. \A k \in 1..ChainHops(c) : HasEdge(c, k) <=> k \in 1..Len(order[c])
      BY <1>1 DEF HasEdge
    <3>2. Len(order[c]) <= ChainHops(c) /\ ChainHops(c) \in Nat
      BY <2>1, <2>2, <2>3
    <3>3. 1..Len(order[c]) \subseteq 1..ChainHops(c)
      BY <2>3, <3>2
    <3> QED
      BY <3>1, <3>3
  <2>5. Cardinality(there) = Len(order[c])
    BY <2>3, <2>4, CardUpTo
  <2>6. \A k \in 1..Len(order[c]) : HasEdge(c, k)
    BY <1>1 DEF HasEdge
  <2>7. Len(order[c]) \in 0..ChainHops(c) /\ ChainHops(c) \in Nat
    BY <2>1, <2>2, <2>3
  <2> QED
    BY <2>5, <2>6, <2>7
<1>2. CASE c \notin DOMAIN order
  <2>1. ChainHops(c) = 0 /\ there = {}
    BY <1>2 DEF Indexed, ChainHops, HasEdge
  <2>2. Cardinality(there) = 0
    BY <2>1, FS_EmptySet
  <2> QED
    BY <2>1, <2>2
<1> QED
  BY <1>1, <1>2

LEMMA PlanEntries ==
  /\ Len(Plan) \in Nat /\ DOMAIN Plan = 1..Len(Plan)
  /\ \A i \in 1..Len(Plan) :
       /\ Plan[i].conf \in Confs /\ Plan[i].chain \in STRING /\ Plan[i].facts \subseteq Facts
       /\ Plan[i].op = "import" => Plan[i].chain \notin PlanChains("collapse") \cup {NoName}
<1> DEFINE Entries == [op : {"new", "import", "collapse", "gap"},
                       conf : {"proven", "candidate", "shape", "unresolved"},
                       chain : STRING, facts : SUBSET Facts, when : SUBSET Facts]
<1>1. Plan \in Seq(Entries)
  BY BootAssumption, Zenon
<1>2. ASSUME NEW e \in Entries
      PROVE  e.conf \in Confs /\ e.chain \in STRING /\ e.facts \subseteq Facts
  BY DEF Confs
<1> HIDE DEF Entries
<1>3. Len(Plan) \in Nat /\ DOMAIN Plan = 1..Len(Plan) /\ \A i \in 1..Len(Plan) : Plan[i] \in Entries
  BY <1>1
<1>4. ASSUME NEW i \in DOMAIN Plan, Plan[i].op = "import"
      PROVE  Plan[i].chain # "" /\ \A j \in DOMAIN Plan :
               Plan[j].op = "collapse" => Plan[j].chain # Plan[i].chain
  BY <1>4, BootAssumption, Zenon
<1>5. ASSUME NEW i \in DOMAIN Plan, Plan[i].op = "import"
      PROVE  Plan[i].chain \notin PlanChains("collapse") \cup {NoName}
  BY <1>4, <1>5, Zenon DEF PlanChains, NoName
<1> QED
  BY <1>2, <1>3, <1>5

\* An entry of the plan adds hops at the end, each traced, and keeps the rest.
LEMMA EntryDone ==
  ASSUME SpineInv, NEW new \in Seq(SpineHop), hops' = hops \o new, NEW j \in 1..Len(Plan),
         bstage = "tiers", j = next, next' = next + 1,
         UNCHANGED <<bstage, data, evidence, order, rc>>,
         problems' \in BOOLEAN, problems => problems',
         \A k \in DOMAIN new : TrueTo(new[k]) \/ OfItsOwn(new[k]),
         BroughtBy(j)'
  PROVE  SpineInv'
<1>1. BTypeOK /\ Indexed /\ Traced /\ Brought /\ Paced
  BY DEF SpineInv
<1>2. /\ hops' \in Seq(SpineHop) /\ Len(hops) \in Nat
      /\ \A i \in DOMAIN hops : i \in DOMAIN hops' /\ hops'[i] = hops[i]
      /\ \A i \in DOMAIN hops' : i \in DOMAIN hops \/ \E k \in DOMAIN new : hops'[i] = new[k]
  <2>1. hops \in Seq(SpineHop) /\ Len(hops) \in Nat /\ Len(new) \in Nat
        /\ DOMAIN hops = 1..Len(hops) /\ DOMAIN new = 1..Len(new)
    BY <1>1 DEF Traced
  <2>2. /\ hops' \in Seq(SpineHop) /\ Len(hops') = Len(hops) + Len(new)
        /\ \A i \in 1..(Len(hops) + Len(new)) :
             hops'[i] = IF i <= Len(hops) THEN hops[i] ELSE new[i - Len(hops)]
    BY <2>1, ConcatProperties
  <2>3. DOMAIN hops' = 1..(Len(hops) + Len(new))
    BY <2>2
  <2>4. ASSUME NEW i \in DOMAIN hops', i \notin DOMAIN hops
        PROVE  i - Len(hops) \in DOMAIN new /\ hops'[i] = new[i - Len(hops)]
    BY <2>1, <2>2, <2>3, <2>4
  <2> QED
    BY <2>1, <2>2, <2>3, <2>4
<1>3. next \in 1..Len(Plan) /\ Len(Plan) \in Nat
  BY PlanEntries
<1>4. BTypeOK'
  <2>1. next' \in 1..(Len(Plan) + 1)
    BY <1>3
  <2>2. /\ bstage \in {"idle", "load", "tiers", "checks", "emit"} /\ evidence \subseteq Facts
        /\ rc \in {0, 1} /\ DOMAIN order = DOMAIN data.chains
    BY <1>1 DEF BTypeOK
  <2> QED
    BY <2>1, <2>2, Zenon DEF BTypeOK
<1>5. Indexed'
  BY <1>1 DEF Indexed
<1>6. Traced'
  <2>1. ASSUME NEW i \in DOMAIN hops'
        PROVE  TrueTo(hops[i])' \/ OfItsOwn(hops[i])'
    <3>1. TrueTo(hops'[i]) \/ OfItsOwn(hops'[i])
      BY <1>1, <1>2 DEF Traced
    <3> QED
      BY <3>1 DEF TrueTo, HasEdge, OfItsOwn
  <2> QED
    BY <1>2, <2>1 DEF Traced
<1>7. ASSUME NEW i \in 1..(next' - 1)
      PROVE  BroughtBy(i)'
  <2>1. CASE i = j
    BY <2>1
  <2>2. CASE i # j
    <3>1. i \in 1..(next - 1)
      BY <1>3, <2>2
    <3>2. BroughtBy(i)
      BY <1>1, <3>1 DEF Brought
    <3> DEFINE c == Plan[i].chain
    <3>3. \A k \in Via(c) : k \in Via(c)' /\ hops'[k] = hops[k]
      BY <1>2 DEF Via
    <3>4. ChainHops(c)' = ChainHops(c)
      BY DEF ChainHops
    <3>5. SUFFICES ASSUME Plan[i].op = "import", ~problems'
                   PROVE  /\ ChainHops(c)' > 0
                          /\ \A n \in 1..ChainHops(c)' : \E k \in Via(c)' : hops'[k].via[2] = n
      BY DEF BroughtBy
    <3>6. /\ ChainHops(c) > 0
          /\ \A n \in 1..ChainHops(c) : \E k \in Via(c) : hops[k].via[2] = n
      BY <3>2, <3>5 DEF BroughtBy
    <3> QED
      BY <3>3, <3>4, <3>6
  <2> QED
    BY <2>1, <2>2
<1>8. Brought'
  BY <1>7 DEF Brought
<1>9. Paced'
  BY DEF Paced
<1> QED
  BY <1>4, <1>5, <1>6, <1>8, <1>9 DEF SpineInv

LEMMA References ==
  /\ \A f \in Facts : FactRef(f) \in Reference
  /\ \A c \in STRING, n \in Nat : EdgeRef(c, n) \in Reference /\ ChainRef(c, n) \in Reference
  /\ \A c, n : EdgeRef(c, n).ref = "edge" /\ EdgeRef(c, n).chain = c /\ EdgeRef(c, n).n = n
<1>1. ASSUME NEW f \in Facts PROVE FactRef(f) \in Reference
  <2>1. FactRef(f) = [ref |-> "fact", fact |-> f, chain |-> NoName, n |-> 0]
    BY Zenon DEF FactRef, NoName
  <2> QED
    BY <2>1 DEF Reference, ChainNames
<1>2. ASSUME NEW c \in STRING, NEW n \in Nat
      PROVE  EdgeRef(c, n) \in Reference /\ ChainRef(c, n) \in Reference
  <2>1. /\ EdgeRef(c, n) = [ref |-> "edge", fact |-> NoName, chain |-> c, n |-> n]
        /\ ChainRef(c, n) = [ref |-> "chain", fact |-> NoName, chain |-> c, n |-> n]
    BY Zenon DEF EdgeRef, ChainRef, NoName
  <2> QED
    BY <2>1 DEF Reference, ChainNames
<1>3. ASSUME NEW c, NEW n
      PROVE  EdgeRef(c, n).ref = "edge" /\ EdgeRef(c, n).chain = c /\ EdgeRef(c, n).n = n
  <2>1. EdgeRef(c, n) = [ref |-> "edge", fact |-> NoName, chain |-> c, n |-> n]
    BY Zenon DEF EdgeRef, NoName
  <2> QED
    BY <2>1
<1> QED
  BY <1>1, <1>2, <1>3

\* An entry that imports nothing adds at most one hop, of its own.
LEMMA OwnEntry ==
  ASSUME SpineInv, NEW op \in {"new", "collapse", "gap"}, Entry(op),
         problems' \in BOOLEAN, problems => problems',
         \/ hops' = hops
         \/ \E h \in SpineHop : OfItsOwn(h) /\ hops' = Append(hops, h)
  PROVE  SpineInv'
<1>1. hops \in Seq(SpineHop) /\ next \in Nat
  BY PlanEntries DEF SpineInv, Traced, BTypeOK
<1>2. /\ bstage = "tiers" /\ next \in 1..Len(Plan) /\ Plan[next].op # "import" /\ next' = next + 1
      /\ UNCHANGED <<bstage, data, evidence, order, rc>>
  BY <1>1, PlanEntries DEF Entry, SpineInv, BTypeOK
<1>3. PICK j \in 1..Len(Plan) : j = next
  BY <1>2
<1>4. BroughtBy(j)'
  BY <1>2, <1>3 DEF BroughtBy
<1>5. CASE hops' = hops
  <2>1. <<>> \in Seq(SpineHop) /\ hops' = hops \o <<>> /\ DOMAIN <<>> = {}
    BY <1>1, <1>5, ConcatEmptySeq
  <2> QED
    BY <1>2, <1>3, <1>4, <2>1, EntryDone
<1>6. ASSUME NEW h \in SpineHop, OfItsOwn(h), hops' = Append(hops, h)
      PROVE  SpineInv'
  <2> DEFINE new == <<h>>
  <2>1. new \in Seq(SpineHop) /\ hops' = hops \o new
    BY <1>1, <1>6, AppendIsConcat
  <2>2. \A k \in DOMAIN new : TrueTo(new[k]) \/ OfItsOwn(new[k])
    BY <1>6
  <2> HIDE DEF new
  <2> QED
    BY <1>2, <1>3, <1>4, <2>1, <2>2, EntryDone
<1> QED
  BY <1>5, <1>6

\* Spine.import_chain: what is there of the chain is added, and a problem recorded
\* unless that is all of it.
LEMMA ImportEntry ==
  ASSUME SpineInv, ImportChain
  PROVE  SpineInv'
<1>1. /\ BTypeOK /\ Indexed /\ hops \in Seq(SpineHop) /\ next \in Nat
  BY PlanEntries DEF SpineInv, Traced, BTypeOK
<1>2. /\ bstage = "tiers" /\ next \in 1..Len(Plan) /\ Plan[next].op = "import" /\ next' = next + 1
      /\ UNCHANGED <<bstage, data, evidence, order, rc>>
  BY <1>1, PlanEntries DEF ImportChain, Entry, BTypeOK
<1>3. PICK j \in 1..Len(Plan) : j = next
  BY <1>2
<1> DEFINE c == Plan[j].chain
           n == ChainHops(c)
           there == Cardinality({k \in 1..n : HasEdge(c, k)})
           new == [k \in 1..there |-> Imported(c, k)]
<1>4. hops' = hops \o new /\ problems' = (problems \/ (n = 0 \/ there < n))
  BY <1>3 DEF ImportChain, Problem
<1>5. n \in Nat /\ there \in 0..n /\ \A k \in 1..there : HasEdge(c, k)
  BY <1>1, HopsThere
<1>6. problems \in BOOLEAN
  BY <1>1 DEF BTypeOK
<1>7. c \in STRING
  BY PlanEntries
<1> HIDE DEF there, n, c
<1>8. ASSUME NEW k \in 1..there
      PROVE  /\ Imported(c, k) \in SpineHop /\ Imported(c, k).via = <<c, k>>
             /\ TrueTo(Imported(c, k))
  <2>1. k \in Nat /\ HasEdge(c, k)
    BY <1>5
  <2>2. order[c] \in Seq(DOMAIN data.edges) /\ k \in 1..Len(order[c])
    BY <1>1, <2>1 DEF HasEdge, Indexed
  <2>3. order[c][k] \in DOMAIN data.edges
    BY <2>2
  <2>4. order[c][k] \in Nat /\ data.edges[order[c][k]].conf \in Confs
    BY <1>1, <2>3 DEF Indexed, Shaped
  <2>5. EdgeRef(c, k) \in Reference
    BY <1>7, <2>1, References
  <2>6. Imported(c, k) = [via |-> <<c, k>>, edge |-> order[c][k], collapsed |-> 0,
                          conf |-> data.edges[order[c][k]].conf, refs |-> {EdgeRef(c, k)}]
    BY DEF Imported
  <2>7. Imported(c, k) \in SpineHop
    BY <1>7, <2>1, <2>4, <2>5, <2>6 DEF SpineHop, ChainNames
  <2>8. TrueTo(Imported(c, k))
    BY <2>1, <2>6 DEF TrueTo
  <2> QED
    BY <2>6, <2>7, <2>8
<1>9. /\ there \in Nat /\ DOMAIN new = 1..there /\ \A k \in 1..there : new[k] = Imported(c, k)
      /\ new \in Seq(SpineHop) /\ Len(new) = there
  <2>1. there \in Nat
    BY <1>5
  <2>2. new \in [1..there -> SpineHop]
    BY <1>8
  <2> QED
    BY <2>1, <2>2
<1> HIDE DEF new
<1>10. BroughtBy(j)'
  <2>1. Plan[j].chain = c /\ ChainHops(c)' = n
    BY <1>2 DEF ChainHops, n, c
  <2>2. SUFFICES ASSUME ~problems'
                 PROVE  n > 0 /\ \A k \in 1..n : \E i \in Via(c)' : hops'[i].via[2] = k
    BY <2>1 DEF BroughtBy
  <2>3. n > 0 /\ there = n
    <3>1. ~(n = 0 \/ there < n)
      BY <1>4, <2>2, Zenon
    <3> QED
      BY <1>5, <3>1
  <2>4. ASSUME NEW k \in 1..n
        PROVE  \E i \in Via(c)' : hops'[i].via[2] = k
    <3>1. /\ Len(hops') = Len(hops) + Len(new) /\ hops' \in Seq(SpineHop)
          /\ \A i \in 1..(Len(hops) + Len(new)) :
               hops'[i] = IF i <= Len(hops) THEN hops[i] ELSE new[i - Len(hops)]
      BY <1>1, <1>4, <1>9, ConcatProperties
    <3>2. Len(hops) \in Nat /\ k \in Nat
      BY <1>1, <1>5
    <3>3. Len(hops) + k \in DOMAIN hops' /\ hops'[Len(hops) + k] = new[k]
      BY <1>5, <1>9, <2>3, <3>1, <3>2
    <3>4. hops'[Len(hops) + k].via = <<c, k>>
      BY <1>8, <1>9, <2>3, <3>3
    <3> QED
      BY <3>3, <3>4 DEF Via
  <2> QED
    BY <2>3, <2>4
<1>11. \A k \in DOMAIN new : TrueTo(new[k]) \/ OfItsOwn(new[k])
  BY <1>8, <1>9
<1>12. problems' \in BOOLEAN /\ (problems => problems')
  BY <1>4, <1>6
<1> QED
  BY <1>2, <1>4, <1>3, <1>9, <1>10, <1>11, <1>12, EntryDone

LEMMA PlanStep ==
  ASSUME SpineInv, New \/ ImportChain \/ Collapse \/ Gap
  PROVE  SpineInv'
<1>1. /\ next \in Nat /\ problems \in BOOLEAN
      /\ bstage = "tiers" /\ next <= Len(Plan) => next \in 1..Len(Plan)
  BY PlanEntries DEF SpineInv, BTypeOK
<1>2. CASE New
  <2> DEFINE h == [via |-> <<NoName, 0>>, edge |-> 0, collapsed |-> 0, conf |-> Plan[next].conf,
                   refs |-> {FactRef(f) : f \in Plan[next].facts}]
  <2>1. Entry("new") /\ UNCHANGED problems /\ (hops' = hops \/ hops' = Append(hops, h))
    BY <1>2, Zenon DEF New, NoName
  <2>2. next \in 1..Len(Plan)
    BY <1>1, <2>1 DEF Entry
  <2>3. Plan[next].conf \in Confs /\ \A f \in Plan[next].facts : FactRef(f) \in Reference
    BY <2>2, PlanEntries, References
  <2>4. h \in SpineHop /\ OfItsOwn(h)
    BY <2>3 DEF SpineHop, OfItsOwn, ChainNames
  <2> HIDE DEF h
  <2> QED
    BY <1>1, <2>1, <2>4, OwnEntry
<1>3. CASE ImportChain
  BY <1>3, ImportEntry
<1>4. CASE Collapse
  <2> DEFINE c == Plan[next].chain
             n == ChainHops(c)
             h == [via |-> <<c, 0>>, edge |-> 0, collapsed |-> n, conf |-> "proven",
                   refs |-> {ChainRef(c, n)}]
  <2>1. Entry("collapse") /\ (hops' = hops \/ hops' = Append(hops, h))
    BY <1>4 DEF Collapse
  <2>2. problems' \in BOOLEAN /\ (problems => problems')
    <3>1. \E is \in BOOLEAN : problems' = (problems \/ is)
      BY <1>4 DEF Collapse, Problem
    <3> QED
      BY <1>1, <3>1
  <2>3. next \in 1..Len(Plan) /\ Plan[next].op = "collapse"
    BY <1>1, <2>1 DEF Entry
  <2>4. c \in STRING /\ c \in PlanChains("collapse")
    BY <2>3, PlanEntries DEF PlanChains
  <2>5. n \in Nat
    BY HopsThere DEF SpineInv
  <2> HIDE DEF c, n
  <2>6. ChainRef(c, n) \in Reference
    BY <2>4, <2>5, References
  <2>7. h \in SpineHop /\ OfItsOwn(h)
    BY <2>4, <2>5, <2>6 DEF SpineHop, OfItsOwn, Confs, ChainNames
  <2> HIDE DEF h
  <2> QED
    BY <2>1, <2>2, <2>7, OwnEntry
<1>5. CASE Gap
  <2>1. Entry("gap") /\ UNCHANGED <<hops, problems>>
    BY <1>5 DEF Gap
  <2> QED
    BY <1>1, <2>1, OwnEntry
<1> QED
  BY <1>2, <1>3, <1>4, <1>5

\* An imported hop is in the bundle, so verify has nothing to demote; of another it
\* may take the confidence, not the name.
LEMMA VerifyStep ==
  ASSUME SpineInv, Verify
  PROVE  SpineInv'
<1>1. BTypeOK /\ Indexed /\ Traced /\ Brought
  BY DEF SpineInv
<1>2. /\ bstage = "tiers" /\ bstage' = "checks" /\ next > Len(Plan)
      /\ UNCHANGED <<data, evidence, order, next, rc>>
      /\ hops' = [i \in DOMAIN hops |-> Demoted(hops[i])]
  BY DEF Verify
<1>3. problems' \in BOOLEAN /\ (problems => problems')
  <2>1. \E is \in BOOLEAN : problems' = (problems \/ is)
    BY DEF Verify, Problem
  <2>2. problems \in BOOLEAN
    BY <1>1 DEF BTypeOK
  <2> QED
    BY <2>1, <2>2
<1>4. Len(hops) \in Nat /\ DOMAIN hops = 1..Len(hops) /\ \A i \in DOMAIN hops : hops[i] \in SpineHop
  BY <1>1 DEF Traced
<1>5. ASSUME NEW h \in SpineHop
      PROVE  /\ Demoted(h) \in SpineHop /\ Demoted(h).via = h.via
             /\ TrueTo(h) => Demoted(h) = h
  <2>1. Demoted(h) = [h EXCEPT !.conf = h.conf] \/ Demoted(h) = [h EXCEPT !.conf = "unresolved"]
    BY DEF Demoted
  <2>2. [h EXCEPT !.conf = h.conf] = h
    BY DEF SpineHop
  <2>3. "unresolved" \in Confs
    BY DEF Confs
  <2>4. Demoted(h) \in SpineHop /\ Demoted(h).via = h.via
    BY <2>1, <2>2, <2>3 DEF SpineHop
  <2>5. ASSUME TrueTo(h) PROVE Demoted(h) = h
    <3>1. Resolved(h)
      BY <2>5, References DEF TrueTo, Resolved, Good
    <3>2. Demoted(h) = [h EXCEPT !.conf = h.conf]
      BY <3>1 DEF Demoted
    <3> QED
      BY <2>2, <3>2
  <2> QED
    BY <2>4, <2>5
<1>6. DOMAIN hops' = DOMAIN hops /\ hops' \in Seq(SpineHop)
      /\ \A i \in DOMAIN hops : hops'[i].via = hops[i].via
  <2>1. DOMAIN hops' = DOMAIN hops /\ \A i \in DOMAIN hops : hops'[i] = Demoted(hops[i])
    BY <1>2
  <2>2. hops' = [i \in 1..Len(hops) |-> hops'[i]]
    BY <1>2, <1>4, <2>1
  <2>3. hops' \in Seq(SpineHop)
    BY <1>4, <1>5, <2>1, <2>2
  <2> QED
    BY <1>4, <1>5, <2>1, <2>3
<1>7. Traced'
  <2>1. ASSUME NEW i \in DOMAIN hops'
        PROVE  TrueTo(hops[i])' \/ OfItsOwn(hops[i])'
    <3>1. i \in DOMAIN hops /\ hops'[i] = Demoted(hops[i]) /\ hops[i] \in SpineHop
      BY <1>2, <1>4, <1>6
    <3>2. CASE TrueTo(hops[i])
      <4>1. hops'[i] = hops[i]
        BY <1>5, <3>1, <3>2
      <4> QED
        BY <1>2, <3>2, <4>1 DEF TrueTo, HasEdge
    <3>3. CASE OfItsOwn(hops[i])
      BY <1>6, <3>1, <3>3 DEF OfItsOwn
    <3> QED
      BY <1>1, <3>1, <3>2, <3>3 DEF Traced
  <2> QED
    BY <1>6, <2>1 DEF Traced
<1>8. Brought'
  <2>1. ASSUME NEW c PROVE Via(c)' = Via(c) /\ ChainHops(c)' = ChainHops(c)
    BY <1>2, <1>6 DEF Via, ChainHops
  <2>2. ASSUME NEW j \in 1..(next - 1) PROVE BroughtBy(j)'
    <3>1. BroughtBy(j)
      BY <1>1 DEF Brought
    <3>2. \A i \in Via(Plan[j].chain) : hops'[i].via = hops[i].via
      BY <1>6 DEF Via
    <3> QED
      BY <1>3, <2>1, <3>1, <3>2 DEF BroughtBy
  <2> QED
    BY <1>2, <2>2 DEF Brought
<1>9. BTypeOK' /\ Indexed'
  BY <1>1, <1>2, <1>3 DEF BTypeOK, Indexed
<1>10. Paced'
  <2>1. next = Len(Plan) + 1
    BY <1>1, <1>2, PlanEntries DEF BTypeOK
  <2> QED
    BY <1>2, <2>1 DEF Paced
<1> QED
  BY <1>7, <1>8, <1>9, <1>10 DEF SpineInv

\* A process that has ended, whatever way, has nothing in memory.
LEMMA LeftSpine ==
  ASSUME Leave
  PROVE  SpineInv'
<1>1. /\ bstage' = "idle" /\ data' = NoData /\ evidence' = {} /\ order' = <<>> /\ problems' = FALSE
      /\ next' = 1 /\ hops' = <<>> /\ rc' = 1
  BY DEF Leave
<1>2. DOMAIN order' = {} /\ DOMAIN data'.chains = {} /\ DOMAIN data'.edges = {}
  BY <1>1 DEF NoData
<1>3. hops' \in Seq(SpineHop) /\ DOMAIN hops' = {}
  BY <1>1
<1>4. BTypeOK'
  <2>1. 1 \in 1..(Len(Plan) + 1)
    BY PlanEntries
  <2> QED
    BY <1>1, <1>2, <2>1 DEF BTypeOK
<1>5. Indexed' /\ Traced'
  BY <1>2, <1>3 DEF Indexed, Traced, Shaped
<1>6. Brought'
  BY <1>1 DEF Brought
<1>7. Paced'
  BY <1>1 DEF Paced
<1> QED
  BY <1>4, <1>5, <1>6, <1>7 DEF SpineInv

LEMMA SpineUntouched ==
  ASSUME SpineInv, UNCHANGED bvars
  PROVE  SpineInv'
<1>1. BTypeOK' /\ Indexed' /\ Paced'
  BY DEF SpineInv, BTypeOK, Indexed, Paced, bvars
<1>2. Traced'
  BY DEF SpineInv, Traced, TrueTo, HasEdge, OfItsOwn, bvars
<1>3. Brought'
  BY DEF SpineInv, Brought, BroughtBy, ChainHops, Via, bvars
<1> QED
  BY <1>1, <1>2, <1>3 DEF SpineInv

LEMMA LoadStep ==
  ASSUME SpineInv, Filed, Load(json)
  PROVE  SpineInv'
<1>1. /\ bstage = "load" /\ bstage' = "tiers" /\ data' = json /\ UNCHANGED <<next, hops, rc>>
      /\ next = 1 /\ hops = <<>>
  BY DEF Load, SpineInv, Paced
<1>2. Indexed'
  BY LoadedOrder DEF Filed
<1>3. problems' \in BOOLEAN /\ evidence' \subseteq Facts
  BY DEF Load
<1>4. BTypeOK'
  <2>1. next' \in 1..(Len(Plan) + 1) /\ rc' \in {0, 1}
    BY <1>1 DEF SpineInv, BTypeOK
  <2>2. DOMAIN order' = DOMAIN data'.chains
    BY <1>2 DEF Indexed
  <2> QED
    BY <1>1, <1>3, <2>1, <2>2 DEF BTypeOK
<1>5. hops' \in Seq(SpineHop) /\ DOMAIN hops' = {}
  BY <1>1
<1>6. Traced' /\ Brought' /\ Paced'
  BY <1>1, <1>5 DEF Traced, Brought, Paced
<1> QED
  BY <1>2, <1>4, <1>6 DEF SpineInv

\* The exit code is 0 only if no problem was recorded.
LEMMA CheckStep ==
  ASSUME SpineInv, RunChecks
  PROVE  SpineInv'
<1>1. CASE Leave
  BY <1>1, LeftSpine
<1>2. CASE ~Leave
  <2>1. /\ bstage = "checks" /\ bstage' = "emit" /\ UNCHANGED <<data, order, problems, next, hops, evidence>>
        /\ \E checks \in BOOLEAN : rc' = ExitCode(checks)
    BY <1>2 DEF RunChecks
  <2>2. rc' \in {0, 1} /\ (rc' = 0 => ~problems)
    BY <2>1 DEF ExitCode
  <2>3. BTypeOK' /\ Indexed'
    BY <2>1, <2>2 DEF SpineInv, BTypeOK, Indexed
  <2>4. Traced'
    BY <2>1 DEF SpineInv, Traced, TrueTo, HasEdge, OfItsOwn
  <2>5. Brought'
    BY <2>1 DEF SpineInv, Brought, BroughtBy, ChainHops, Via
  <2>6. Paced'
    BY <2>1, <2>2 DEF SpineInv, Paced
  <2> QED
    BY <2>3, <2>4, <2>5, <2>6 DEF SpineInv
<1> QED
  BY <1>1, <1>2

LEMMA SpineStepInv ==
  ASSUME SpineInv, Filed, [LNext]_lvars
  PROVE  SpineInv'
<1>1. CASE UNCHANGED bvars
  BY <1>1, SpineUntouched
<1>2. CASE CallStart \/ CallStep \/ EditInput \/ EditJson \/ UNCHANGED lvars
  BY <1>1, <1>2 DEF CallStart, CallStep, CallBuild, CallEnds, CallWrites, CallOpens, CallCloses,
                    CallKilled, EditInput, EditJson, lvars
<1>3. CASE BootStart
  <2>1. bstage = "idle" /\ bstage' = "load"
        /\ UNCHANGED <<data, evidence, order, problems, next, hops, gaps, rc>>
    BY <1>3 DEF BootStart, StartSpine
  <2>2. BTypeOK' /\ Indexed' /\ Paced'
    BY <2>1 DEF SpineInv, BTypeOK, Indexed, Paced
  <2>3. Traced'
    BY <2>1 DEF SpineInv, Traced, TrueTo, HasEdge, OfItsOwn
  <2>4. Brought'
    BY <2>1 DEF SpineInv, Brought, BroughtBy, ChainHops, Via
  <2> QED
    BY <2>2, <2>3, <2>4 DEF SpineInv
<1>4. CASE BootLoads
  <2>1. Load(json) \/ Leave
    BY <1>4 DEF BootLoads, LoadDies
  <2> QED
    BY <2>1, LoadStep, LeftSpine
<1>5. CASE BootBuilds
  BY <1>5, PlanStep, VerifyStep, CheckStep DEF BootBuilds, SpineStep
<1>6. CASE BootOpens
  BY <1>1, <1>6 DEF BootOpens
<1>7. CASE BootCloses
  BY <1>1, <1>7, LeftSpine DEF BootCloses
<1>8. CASE BootKilled
  BY <1>8, LeftSpine DEF BootKilled
<1> QED
  BY <1>2, <1>3, <1>4, <1>5, <1>6, <1>7, <1>8 DEF LNext, BootStep

LEMMA SpineHolds == LSpec => []SpineInv
<1>1. LInit => SpineInv
  <2> SUFFICES ASSUME LInit PROVE SpineInv
    OBVIOUS
  <2>1. /\ bstage = "idle" /\ data = NoData /\ evidence = {} /\ order = <<>> /\ problems = FALSE
        /\ next = 1 /\ hops = <<>> /\ rc = 1
    BY DEF LInit, BInit
  <2>2. DOMAIN order = {} /\ DOMAIN data.chains = {} /\ DOMAIN data.edges = {}
    BY <2>1 DEF NoData
  <2>3. hops \in Seq(SpineHop) /\ DOMAIN hops = {}
    BY <2>1
  <2>4. 1 \in 1..(Len(Plan) + 1)
    BY PlanEntries
  <2>5. BTypeOK /\ Paced
    BY <2>1, <2>2, <2>4 DEF BTypeOK, Paced
  <2>6. Indexed /\ Traced /\ Brought
    BY <2>1, <2>2, <2>3 DEF Indexed, Traced, Shaped, Brought
  <2> QED
    BY <2>5, <2>6 DEF SpineInv
<1>2. SpineInv /\ Filed /\ [LNext]_lvars => SpineInv'
  BY SpineStepInv
<1> QED
  BY <1>1, <1>2, GraphHolds, PTL DEF LSpec

\* SpineComplete for every plan and every call_linkage.json, rows missing or not: an
\* exit code of 0 means that every chain the plan imports is on the spine, whole and
\* in order, each hop the edge the chain cites there, with that edge's confidence.
THEOREM SpineIsComplete == LSpec => []SpineComplete
<1>1. ASSUME SpineInv
      PROVE  SpineComplete
  <2>1. SUFFICES ASSUME bstage = "emit", rc = 0, NEW c \in PlanChains("import")
                 PROVE  /\ ChainHops(c) > 0
                        /\ {hops[i].via[2] : i \in Via(c)} = 1..ChainHops(c)
                        /\ \A i \in Via(c) :
                             /\ hops[i].edge = data.chains[c][hops[i].via[2]]
                             /\ hops[i].conf = data.edges[data.chains[c][hops[i].via[2]]].conf
    BY DEF SpineComplete
  <2>2. PICK j \in DOMAIN Plan : Plan[j].op = "import" /\ Plan[j].chain = c
    BY DEF PlanChains
  <2>3. ~problems /\ next = Len(Plan) + 1 /\ Indexed /\ Traced /\ Brought
    BY <1>1, <2>1 DEF SpineInv, Paced
  <2>4. BroughtBy(j)
    BY <2>3, <2>2, PlanEntries DEF Brought
  <2>5. ChainHops(c) > 0 /\ \A k \in 1..ChainHops(c) : \E i \in Via(c) : hops[i].via[2] = k
    BY <2>3, <2>4, <2>2 DEF BroughtBy
  <2>6. c \notin PlanChains("collapse") \cup {NoName}
    BY <2>2, PlanEntries
  <2>7. ASSUME NEW i \in Via(c)
        PROVE  /\ hops[i].via[2] \in 1..ChainHops(c)
               /\ hops[i].edge = data.chains[c][hops[i].via[2]]
               /\ hops[i].conf = data.edges[data.chains[c][hops[i].via[2]]].conf
    <3>1. i \in DOMAIN hops /\ hops[i].via[1] = c
      BY DEF Via
    <3>2. TrueTo(hops[i])
      BY <2>3, <2>6, <3>1 DEF Traced, OfItsOwn
    <3>3. c \in DOMAIN order /\ hops[i].via[2] \in 1..Len(order[c])
          /\ hops[i].edge = order[c][hops[i].via[2]] /\ hops[i].conf = data.edges[hops[i].edge].conf
      BY <3>1, <3>2 DEF TrueTo, HasEdge
    <3>4. order[c] = data.chains[c] /\ ChainHops(c) = Len(data.chains[c])
      BY <2>3, <3>3 DEF Indexed, ChainHops
    <3> QED
      BY <3>3, <3>4
  <2>8. {hops[i].via[2] : i \in Via(c)} = 1..ChainHops(c)
    BY <2>5, <2>7
  <2> QED
    BY <2>5, <2>7, <2>8
<1> QED
  BY <1>1, SpineHolds, PTL

-----------------------------------------------------------------------------
(* ProvenResolves: verify demotes, and what it looked at stays as it was.  *)

\* The spine from verify to the end.
Verified ==
  /\ bstage \in {"checks", "emit"}
       => \A i \in DOMAIN hops : hops[i].conf = "proven" => Resolved(hops[i])

\* A demoted hop that is still proven has every reference in the bundle.
LEMMA DemotedResolves ==
  ASSUME NEW h, Demoted(h).conf = "proven"
  PROVE  Resolved(Demoted(h))
<1>1. h.conf = "proven" => Resolved(h)
  BY DEF Demoted
<1>2. Demoted(h).refs = h.refs
  BY DEF Demoted
<1> QED
  BY <1>1, <1>2 DEF Resolved, Demoted

\* Steps that leave the bundle and the spine alone.
LEMMA SpineKept ==
  ASSUME Verified, UNCHANGED bvars
  PROVE  Verified'
  BY DEF Verified, bvars, Resolved, Good, HasEdge, ChainHops

LEMMA VerifiedHolds == LSpec => []Verified
<1>1. LInit => Verified
  BY DEF LInit, BInit, Verified
<1>2. Verified /\ [LNext]_lvars => Verified'
  <2> SUFFICES ASSUME Verified, [LNext]_lvars PROVE Verified'
    OBVIOUS
  <2>1. CASE CallStart
    BY <2>1, SpineKept DEF CallStart
  <2>2. CASE CallStep
    BY <2>2, SpineKept DEF CallStep, CallBuild, CallEnds, CallWrites, CallOpens, CallCloses,
                           CallKilled
  <2>3. CASE EditInput \/ EditJson
    BY <2>3, SpineKept DEF EditInput, EditJson
  <2>4. ASSUME bstage' \notin {"checks", "emit"} PROVE Verified'
    BY <2>4 DEF Verified
  <2>5. CASE BootStart
    BY <2>4, <2>5 DEF BootStart, StartSpine
  <2>6. CASE BootLoads
    BY <2>4, <2>6 DEF BootLoads, Load, LoadDies, Leave
  <2>7. CASE New \/ ImportChain \/ Collapse \/ Gap
    BY <2>4, <2>7 DEF New, ImportChain, Collapse, Gap, Entry
  <2>8. CASE Verify
    <3>1. UNCHANGED <<data, evidence, order>>
      BY <2>8 DEF Verify
    <3>2. ASSUME NEW i \in DOMAIN hops', hops'[i].conf = "proven"
          PROVE  Resolved(hops'[i])
      <4>1. hops'[i] = Demoted(hops[i])
        BY <2>8, <3>2 DEF Verify
      <4> QED
        BY <3>2, <4>1, DemotedResolves
    <3>3. ASSUME NEW i \in DOMAIN hops', hops'[i].conf = "proven"
          PROVE  Resolved(hops[i])'
      <4>1. Resolved(hops'[i])
        BY <3>2, <3>3
      <4> QED
        BY <3>1, <4>1 DEF Resolved, Good, HasEdge, ChainHops
    <3> QED
      BY <3>3 DEF Verified
  <2>9. CASE RunChecks
    <3>1. CASE Leave
      BY <2>4, <3>1 DEF Leave
    <3>2. CASE ~Leave
      BY <2>9, <3>2 DEF RunChecks, Verified, Resolved, Good, HasEdge, ChainHops
    <3> QED
      BY <3>1, <3>2
  <2>10. CASE BootOpens
    BY <2>10, SpineKept DEF BootOpens
  <2>11. CASE BootCloses
    BY <2>4, <2>11, SpineKept DEF BootCloses, Leave
  <2>12. CASE BootKilled
    BY <2>4, <2>12 DEF BootKilled, Leave
  <2>13. CASE UNCHANGED lvars
    BY <2>13, SpineKept DEF lvars
  <2> QED
    BY <2>1, <2>2, <2>3, <2>5, <2>6, <2>7, <2>8, <2>9, <2>10, <2>11, <2>12, <2>13
       DEF LNext, BootStep, BootBuilds, SpineStep
<1> QED
  BY <1>1, <1>2, PTL DEF LSpec

\* ProvenResolves for every plan and every call_linkage.json: no hop of a spine that
\* is written says proven while the bundle does not have what it refers to, even
\* when the checks fail (Spine.verify).
THEOREM ProvenResolvesHolds == LSpec => []ProvenResolves
<1>1. Verified => ProvenResolves
  BY DEF Verified, ProvenResolves
<1> QED
  BY <1>1, VerifiedHolds, PTL
-----------------------------------------------------------------------------
(* LinkageTypeOK                                                           *)

FTypeOK ==
  /\ tree \in [Inputs -> Texts] /\ seen \in [Inputs -> Texts] /\ origin \in [Inputs -> Texts]
  /\ disk \in [Outputs -> {"none", "torn", "whole"}]
  /\ bootpc \in 0..5

LEMMA FilesTyped == LSpec => []FTypeOK
<1>1. LInit => FTypeOK
  <2> SUFFICES ASSUME LInit PROVE FTypeOK
    OBVIOUS
  <2>1. (CHOOSE t \in Texts : TRUE) \in Texts
    BY FilesAssumption
  <2>2. tree \in [Inputs -> Texts]
    BY <2>1 DEF LInit
  <2> QED
    BY <2>2 DEF LInit, FTypeOK
<1>2. FTypeOK /\ [LNext]_lvars => FTypeOK'
  <2> SUFFICES ASSUME FTypeOK, [LNext]_lvars PROVE FTypeOK'
    OBVIOUS
  <2>1. ASSUME UNCHANGED <<tree, seen, origin, disk, bootpc>> PROVE FTypeOK'
    BY <2>1 DEF FTypeOK
  <2>2. ASSUME NEW f, Begin(f) \/ Complete(f)
        PROVE  disk' \in [Outputs -> {"none", "torn", "whole"}]
    BY <2>2 DEF FTypeOK, Begin, Complete
  <2>3. CASE CallStart
    BY <2>3 DEF CallStart, StaysOnDisk, FTypeOK
  <2>4. CASE CallStep
    <3>1. CASE CallBuild \/ CallEnds \/ CallWrites \/ CallKilled
      BY <2>1, <3>1 DEF CallBuild, CallEnds, CallWrites, CallKilled, StaysOnDisk, fvars
    <3>2. CASE CallOpens
      BY <2>2, <3>2 DEF CallOpens, FTypeOK
    <3>3. CASE CallCloses
      <4>1. (origin' = seen \/ origin' = origin) /\ UNCHANGED <<tree, seen, bootpc>> /\ Complete(CallFile)
        BY <3>3 DEF CallCloses
      <4> QED
        BY <2>2, <4>1 DEF FTypeOK
    <3> QED
      BY <2>4, <3>1, <3>2, <3>3 DEF CallStep
  <2>5. CASE BootStart \/ BootLoads \/ BootBuilds
    BY <2>1, <2>5 DEF BootStart, BootLoads, BootBuilds, StaysOnDisk, fvars
  <2>6. CASE BootOpens
    <3>1. Begin(BootFile) /\ bootpc' \in 0..5 /\ UNCHANGED <<tree, seen, origin>>
      BY <2>6 DEF BootOpens
    <3> QED
      BY <2>2, <3>1 DEF FTypeOK
  <2>7. CASE BootCloses
    <3>1. Complete(BootFile) /\ bootpc' \in 0..5 /\ UNCHANGED <<tree, seen, origin>>
      BY <2>7 DEF BootCloses
    <3> QED
      BY <2>2, <3>1 DEF FTypeOK
  <2>8. CASE BootKilled
    BY <2>8 DEF BootKilled, StaysOnDisk, FTypeOK
  <2>9. CASE EditInput
    BY <2>9 DEF EditInput, StaysOnDisk, FTypeOK
  <2>10. CASE EditJson \/ UNCHANGED lvars
    BY <2>1, <2>10 DEF EditJson, lvars, fvars
  <2> QED
    BY <2>3, <2>4, <2>5, <2>6, <2>7, <2>8, <2>9, <2>10 DEF LNext, BootStep
<1> QED
  BY <1>1, <1>2, PTL DEF LSpec

\* A run of the three parts together is a run of each of them.
LEMMA PartsRun == Spec => LSpec /\ NSpec /\ DSpec /\ [](part \in Parts)
<1>1. Spec => LSpec
  <2>1. Init => LInit
    BY DEF Init
  <2>2. [Next]_<<part, lvars, nvars, dvars>> => [LNext]_lvars
    BY DEF Next
  <2> QED
    BY <2>1, <2>2, PTL DEF Spec, LSpec
<1>2. Spec => NSpec
  <2>1. Init => NInit
    BY DEF Init
  <2>2. [Next]_<<part, lvars, nvars, dvars>> => [NNext]_nvars
    BY DEF Next
  <2> QED
    BY <2>1, <2>2, PTL DEF Spec, NSpec
<1>3. Spec => DSpec
  <2>1. Init => DInit
    BY DEF Init
  <2>2. [Next]_<<part, lvars, nvars, dvars>> => [DNext]_dvars
    BY DEF Next
  <2> QED
    BY <2>1, <2>2, PTL DEF Spec, DSpec
<1>4. Spec => [](part \in Parts)
  <2>1. Init => part \in Parts
    BY DEF Init
  <2>2. part \in Parts /\ [Next]_<<part, lvars, nvars, dvars>> => (part \in Parts)'
    BY DEF Next
  <2> QED
    BY <2>1, <2>2, PTL DEF Spec
<1> QED
  BY <1>1, <1>2, <1>3, <1>4

\* LinkageTypeOK: the types of the two scripts, of their files and of the two scans,
\* for every plan, every bundle and every listing.
THEOREM LinkageTyped == Spec => []LinkageTypeOK
<1>1. GraphInv /\ Filed /\ SpineInv /\ FTypeOK => LTypeOK
  BY DEF GraphInv, Filed, SpineInv, FTypeOK, LTypeOK
<1>2. LTypeOK /\ NTypeOK /\ DTypeOK /\ part \in Parts => LinkageTypeOK
  BY DEF LinkageTypeOK
<1> QED
  BY <1>1, <1>2, PartsRun, GraphHolds, SpineHolds, FilesTyped, TrackerTyped, ScanTyped, PTL
=============================================================================
