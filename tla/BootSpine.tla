----------------------------- MODULE BootSpine -----------------------------
(***************************************************************************)
(* scripts/build_boot_linkage.py: Bundle, Spine, build, run_checks, main.  *)
(* The spine is put together from new hops, whose references are looked up *)
(* in the bundle, and from hops imported out of call_linkage.json.         *)
(* Nothing stops at a problem: problems are recorded, verify demotes, and  *)
(* the exit code says in the end whether the spine can be relied on.       *)
(***************************************************************************)
EXTENDS Naturals, Sequences, FiniteSets, Picking

CONSTANTS
  Plan,       \* the hops, chains and gaps of build, in the order of the source
  Facts,      \* what the references of hops and gaps say of the bundle
  SlotFacts,  \* the ones looked up by Bundle.slot, which records a problem
  Endpoint    \* the pool slot whose absence run_checks does not survive

ASSUME BootAssumption ==
  /\ SlotFacts \subseteq Facts /\ Endpoint \in SlotFacts
  /\ Plan \in Seq([op : {"new", "import", "collapse", "gap"},
                   conf : {"proven", "candidate", "shape", "unresolved"},
                   chain : STRING, facts : SUBSET Facts, when : SUBSET Facts])
  /\ \A i, j \in DOMAIN Plan : Plan[i].op = "import" =>
       /\ Plan[i].chain # ""
       /\ Plan[j].op = "collapse" => Plan[j].chain # Plan[i].chain

VARIABLES
  bstage,     \* how far the script has come
  data,       \* call_linkage.json as it was read
  evidence,   \* the facts that hold in the bundle
  order,      \* Bundle.edges: chain -> the ids of its edges
  problems,   \* Bundle.problems is not empty
  next,       \* the entry of the plan that is next
  hops,       \* Spine.hops
  gaps,       \* the references of Spine.gaps
  rc          \* what main returns

bvars == <<bstage, data, evidence, order, problems, next, hops, gaps, rc>>

NoData == [edges |-> <<>>, chains |-> <<>>]

FactRef(f) == [ref |-> "fact", fact |-> f, chain |-> "", n |-> 0]
EdgeRef(c, k) == [ref |-> "edge", fact |-> "", chain |-> c, n |-> k]
ChainRef(c, n) == [ref |-> "chain", fact |-> "", chain |-> c, n |-> n]

\* The process ends, and what it had in memory is gone.
Leave ==
  /\ bstage' = "idle" /\ data' = NoData /\ evidence' = {} /\ order' = <<>>
  /\ problems' = FALSE /\ next' = 1 /\ hops' = <<>> /\ gaps' = {} /\ rc' = 1

-----------------------------------------------------------------------------
(* Bundle                                                                  *)

\* _load_call_linkage: a hop that cites no edge of the file is left out, and
\* what follows it moves up.
Load(json) ==
  /\ bstage = "load"
  /\ bstage' = "tiers"
  /\ data' = json
  /\ order' = [c \in DOMAIN json.chains |->
                 Picked(json.chains[c],
                        {k \in DOMAIN json.chains[c] : json.chains[c][k] \in DOMAIN json.edges})]
  /\ problems' = (\E c \in DOMAIN json.chains :
                    Len(order'[c]) < Len(json.chains[c]))
  /\ \E e \in SUBSET Facts : evidence' = e
  /\ UNCHANGED <<next, hops, gaps, rc>>

\* die, and json.loads of a torn file.
LoadDies ==
  /\ bstage = "load"
  /\ Leave

\* Bundle.edge, with the hop counted from one.
HasEdge(c, k) == c \in DOMAIN order /\ k \in 1..Len(order[c])

ChainHops(c) == IF c \in DOMAIN data.chains THEN Len(data.chains[c]) ELSE 0

-----------------------------------------------------------------------------
(* Spine: one entry of the plan                                            *)

\* Mutant: the hop is announced under its index in the program.
ImportedFromZero(c, k) ==
  [via |-> <<c, k - 1>>, edge |-> order[c][k], collapsed |-> 0,
   conf |-> data.edges[order[c][k]].conf, refs |-> {EdgeRef(c, k)}]

Imported(c, k) ==
  [via |-> <<c, k>>, edge |-> order[c][k], collapsed |-> 0,
   conf |-> data.edges[order[c][k]].conf, refs |-> {EdgeRef(c, k)}]

Entry(op) ==
  /\ bstage = "tiers" /\ next <= Len(Plan) /\ Plan[next].op = op
  /\ next' = next + 1
  /\ UNCHANGED <<bstage, data, evidence, order, rc>>

Problem(is) == problems' = (problems \/ is)

\* A hop of its own; some are made only if what they are about was found.
New ==
  /\ Entry("new")
  /\ hops' = IF Plan[next].when \subseteq evidence
             THEN Append(hops, [via |-> <<"", 0>>, edge |-> 0, collapsed |-> 0,
                                conf |-> Plan[next].conf,
                                refs |-> {FactRef(f) : f \in Plan[next].facts}])
             ELSE hops
  /\ UNCHANGED <<problems, gaps>>

ImportChain ==
  LET c == Plan[next].chain
      n == ChainHops(c)
      there == Cardinality({k \in 1..n : HasEdge(c, k)}) IN
  /\ Entry("import")
  /\ hops' = hops \o [k \in 1..there |-> Imported(c, k)]
  /\ Problem(n = 0 \/ there < n)
  /\ UNCHANGED gaps

\* One hop for a whole chain, said to be proven whatever its edges are.
Collapse ==
  LET c == Plan[next].chain
      n == ChainHops(c) IN
  /\ Entry("collapse")
  /\ IF c \in DOMAIN data.chains
     THEN /\ hops' = Append(hops, [via |-> <<c, 0>>, edge |-> 0, collapsed |-> n,
                                   conf |-> "proven", refs |-> {ChainRef(c, n)}])
          /\ Problem(~HasEdge(c, 1) \/ ~HasEdge(c, n))
     ELSE hops' = hops /\ Problem(TRUE)
  /\ UNCHANGED gaps

Gap ==
  /\ Entry("gap")
  /\ gaps' = gaps \cup {FactRef(f) : f \in Plan[next].facts}
  /\ UNCHANGED <<hops, problems>>

-----------------------------------------------------------------------------
(* verify and run_checks                                                   *)

\* _check_ref.
Good(r) ==
  \/ r.ref = "fact" /\ r.fact \in evidence
  \/ r.ref = "edge" /\ HasEdge(r.chain, r.n)
  \/ r.ref = "chain" /\ ChainHops(r.chain) = r.n

Resolved(h) == \A r \in h.refs : Good(r)

\* Mutant: demoted only if no reference of the hop is good.
DemotedIfAllFail(h) ==
  [h EXCEPT !.conf = IF @ = "proven" /\ \A r \in h.refs : ~Good(r)
                     THEN "unresolved" ELSE @]

Demoted(h) ==
  [h EXCEPT !.conf = IF @ = "proven" /\ ~Resolved(h) THEN "unresolved" ELSE @]

AllRefs == gaps \cup UNION {hops[i].refs : i \in DOMAIN hops}

Verify ==
  /\ bstage = "tiers" /\ next > Len(Plan)
  /\ bstage' = "checks"
  /\ hops' = [i \in DOMAIN hops |-> Demoted(hops[i])]
  /\ Problem(\E r \in AllRefs : r.ref = "fact" /\ r.fact \in SlotFacts \ evidence)
  /\ UNCHANGED <<data, evidence, order, next, gaps, rc>>

\* Hops of the plan that call_linkage.json must give.
PlanChains(op) == {Plan[i].chain : i \in {j \in DOMAIN Plan : Plan[j].op = op}}

Via(c) == {i \in DOMAIN hops : hops[i].via[1] = c}

\* A chain that the file does not have at all is imported in full: 0 of 0.
ExitCode(checks) ==
  IF /\ checks /\ ~problems /\ \A r \in AllRefs : Good(r)
     /\ \A c \in PlanChains("import") : Cardinality(Via(c)) = ChainHops(c)
     /\ \A c \in PlanChains("collapse") : \E i \in Via(c) : hops[i].collapsed > 0
  THEN 0 ELSE 1

\* The checks not told apart here are about the fragments and the pool alone.
RunChecks ==
  /\ bstage = "checks"
  /\ IF Endpoint \notin evidence
     THEN Leave
     ELSE /\ bstage' = "emit"
          /\ \E checks \in BOOLEAN : rc' = ExitCode(checks)
          /\ UNCHANGED <<data, evidence, order, problems, next, hops, gaps>>

BInit ==
  /\ bstage = "idle" /\ data = NoData /\ evidence = {} /\ order = <<>>
  /\ problems = FALSE /\ next = 1 /\ hops = <<>> /\ gaps = {} /\ rc = 1

StartSpine ==
  /\ bstage = "idle" /\ bstage' = "load"
  /\ UNCHANGED <<data, evidence, order, problems, next, hops, gaps, rc>>

SpineStep == New \/ ImportChain \/ Collapse \/ Gap \/ Verify \/ RunChecks

-----------------------------------------------------------------------------
(* Properties                                                              *)

BTypeOK ==
  /\ bstage \in {"idle", "load", "tiers", "checks", "emit"}
  /\ evidence \subseteq Facts /\ next \in 1..(Len(Plan) + 1)
  /\ problems \in BOOLEAN /\ rc \in {0, 1}
  /\ DOMAIN order = DOMAIN data.chains

\* An exit code of 0 means that every chain of the plan is on the spine, whole
\* and in its own order: the hop announced as number k of a chain is the edge
\* the chain cites as its k-th, with the confidence that edge has ("each
\* imported hop carries its original edge_id, chain, confidence": module
\* docstring).
SpineComplete ==
  bstage = "emit" /\ rc = 0 =>
    \A c \in PlanChains("import") :
      /\ ChainHops(c) > 0
      /\ {hops[i].via[2] : i \in Via(c)} = 1..ChainHops(c)
      /\ \A i \in Via(c) : LET id == data.chains[c][hops[i].via[2]] IN
           hops[i].edge = id /\ hops[i].conf = data.edges[id].conf

\* Even a spine that fails is written, so no hop on it may be called proven
\* unless everything it refers to is in the bundle (Spine.verify).
ProvenResolves ==
  bstage = "emit" =>
    \A i \in DOMAIN hops : hops[i].conf = "proven" => Resolved(hops[i])

Strength(conf) ==
  CASE conf = "proven" -> 4 [] conf = "strong" -> 3 [] conf = "probable" -> 2
    [] conf = "candidate" -> 1 [] OTHER -> 0

\* A summary hop is no stronger than the weakest hop it stands for.  The code
\* writes "proven" for every chain (Spine.collapse).
CollapseNoStronger ==
  bstage = "emit" =>
    \A i \in DOMAIN hops : hops[i].collapsed > 0 =>
      \A k \in 1..Len(order[hops[i].via[1]]) :
        Strength(hops[i].conf) <= Strength(data.edges[order[hops[i].via[1]][k]].conf)
=============================================================================
