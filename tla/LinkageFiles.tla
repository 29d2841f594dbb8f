---------------------------- MODULE LinkageFiles ----------------------------
(***************************************************************************)
(* The two linkage scripts over one evidence bundle: build_call_linkage.py *)
(* and build_boot_linkage.py (main and Bundle of each), their six output   *)
(* files beside the inputs, the operator who edits files between and       *)
(* during runs, and a script that is killed while it writes.               *)
(***************************************************************************)
EXTENDS CallGraph, BootSpine

CONSTANTS
  Texts,       \* what an input can hold: [len, text]
  MaxRuns,     \* bound: runs of the call script
  MaxSpines,   \* bound: runs of the boot script
  MaxEdits     \* bound: edits by hand

ASSUME FilesAssumption ==
  Texts \subseteq [len : Nat, text : Nat] /\ Texts # {} /\ {MaxRuns, MaxSpines, MaxEdits} \subseteq Nat

CallFiles == <<"call_linkage.csv", "call_linkage.json", "CALL_LINKAGE.md">>
BootFiles == <<"BOOT_LINKAGE.md", "boot_linkage.csv", "boot_linkage.json">>
Outputs == Range(CallFiles) \cup Range(BootFiles)
Inputs == {"fragments/fragments.json", "fragments/F9_kos_boot_stack.txt"}

VARIABLES
  tree,       \* input -> what it holds
  zip,        \* SnakeLogic.zip: what it holds for fragments.json
  seen,       \* the inputs as the call script has read them
  disk,       \* output -> whether it is there, and to its end
  json,       \* what call_linkage.json says
  origin,     \* the inputs it was made from
  callpc,     \* opens and closes of the call script so far; 0: not writing
  bootpc,     \* the same of the boot script
  runs, spines, edits  \* counted for the bounds

fvars == <<tree, zip, seen, disk, json, origin, callpc, bootpc, runs, spines, edits>>
lvars == <<cvars, bvars, fvars>>

-----------------------------------------------------------------------------
(* build_call_linkage.py: main                                             *)

\* The tree against the zip.  Lengths are compared, not texts.
SameAsZip == seen["fragments/fragments.json"].len = zip.len

StaysOnDisk == UNCHANGED <<disk, json, origin>>

\* Bound: a script is started only while the other is not at work in memory.
\* What it does there neither can see, so no order of disk accesses is lost.
CallStart ==
  /\ runs < MaxRuns /\ bstage = "idle"
  /\ runs' = runs + 1
  /\ StartBuild
  /\ seen' = tree
  /\ StaysOnDisk
  /\ UNCHANGED <<bvars, tree, zip, callpc, bootpc, spines, edits>>

CallBuild ==
  /\ BuildStep
  /\ UNCHANGED <<bvars, fvars>>

\* 1 for a failed check or a missing hop, 0 for --check: nothing is written.
CallEnds ==
  /\ stage = "built" /\ callpc = 0
  /\ Quit
  /\ UNCHANGED <<bvars, fvars>>

CallWrites ==
  /\ Publishable /\ SameAsZip /\ callpc = 0
  /\ callpc' = 1
  /\ StaysOnDisk
  /\ UNCHANGED <<cvars, bvars, tree, zip, seen, bootpc, runs, spines, edits>>

\* open(path, "w") empties the file, the end of its with block completes it.
Begin(file) == disk' = [disk EXCEPT ![file] = "torn"]
Complete(file) == disk' = [disk EXCEPT ![file] = "whole"]

CallFile == CallFiles[(callpc + 1) \div 2]

CallOpens ==
  /\ callpc \in {1, 3, 5}
  /\ Begin(CallFile)
  /\ callpc' = callpc + 1
  /\ UNCHANGED <<cvars, bvars, tree, zip, seen, json, origin, bootpc, runs, spines, edits>>

CallCloses ==
  /\ callpc \in {2, 4, 6}
  /\ Complete(CallFile)
  /\ IF CallFile = "call_linkage.json"
     THEN json' = Content /\ origin' = seen
     ELSE UNCHANGED <<json, origin>>
  /\ callpc' = (callpc + 1) % 7
  /\ IF callpc = 6 THEN Quit ELSE UNCHANGED cvars
  /\ UNCHANGED <<bvars, tree, zip, seen, bootpc, runs, spines, edits>>

\* The script is killed.
CallKilled ==
  /\ stage # "idle"
  /\ Quit /\ callpc' = 0
  /\ StaysOnDisk
  /\ UNCHANGED <<bvars, tree, zip, seen, bootpc, runs, spines, edits>>

-----------------------------------------------------------------------------
(* build_boot_linkage.py: main                                             *)

BootStart ==
  /\ spines < MaxSpines /\ (stage = "idle" \/ callpc > 0)
  /\ spines' = spines + 1
  /\ StartSpine
  /\ StaysOnDisk
  /\ UNCHANGED <<cvars, tree, zip, seen, callpc, bootpc, runs, edits>>

\* Only that the file is there is asked; a torn one is a JSONDecodeError.
BootLoads ==
  /\ \/ disk["call_linkage.json"] = "whole" /\ Load(json)
     \/ LoadDies
  /\ UNCHANGED <<cvars, fvars>>

BootBuilds ==
  /\ SpineStep
  /\ UNCHANGED <<cvars, fvars>>

BootFile == BootFiles[(bootpc \div 2) + 1]

\* The files are written whatever the checks say.
BootOpens ==
  /\ bstage = "emit" /\ bootpc \in {0, 2, 4}
  /\ Begin(BootFile)
  /\ bootpc' = bootpc + 1
  /\ UNCHANGED <<cvars, bvars, tree, zip, seen, json, origin, callpc, runs, spines, edits>>

BootCloses ==
  /\ bstage = "emit" /\ bootpc \in {1, 3, 5}
  /\ Complete(BootFile)
  /\ bootpc' = (bootpc + 1) % 6
  /\ IF bootpc = 5 THEN Leave ELSE UNCHANGED bvars
  /\ UNCHANGED <<cvars, tree, zip, seen, json, origin, callpc, runs, spines, edits>>

BootKilled ==
  /\ bstage # "idle"
  /\ Leave /\ bootpc' = 0
  /\ StaysOnDisk
  /\ UNCHANGED <<cvars, tree, zip, seen, callpc, runs, spines, edits>>

-----------------------------------------------------------------------------
(* The operator                                                            *)

EditInput ==
  /\ edits < MaxEdits /\ edits' = edits + 1
  /\ \E i \in Inputs, t \in Texts : tree[i] # t /\ tree' = [tree EXCEPT ![i] = t]
  /\ StaysOnDisk
  /\ UNCHANGED <<cvars, bvars, zip, seen, callpc, bootpc, runs, spines>>

\* A row or a chain is taken out of call_linkage.json by hand, and what cites it
\* stays.
EditJson ==
  /\ edits < MaxEdits /\ edits' = edits + 1
  /\ disk["call_linkage.json"] = "whole"
  /\ \/ \E gone \in DOMAIN json.edges :
          json' = [json EXCEPT !.edges = [id \in DOMAIN @ \ {gone} |-> @[id]]]
     \/ \E gone \in DOMAIN json.chains :
          json' = [json EXCEPT !.chains = [c \in DOMAIN @ \ {gone} |-> @[c]]]
  /\ UNCHANGED <<cvars, bvars, tree, zip, seen, disk, origin, callpc, bootpc, runs, spines>>

LInit ==
  /\ CInit /\ BInit
  /\ tree \in [Inputs -> {CHOOSE t \in Texts : TRUE}]
  /\ zip = tree["fragments/fragments.json"]
  /\ seen = tree
  /\ disk = [f \in Outputs |-> "none"]
  /\ json = NoData /\ origin = tree
  /\ callpc = 0 /\ bootpc = 0 /\ runs = 0 /\ spines = 0 /\ edits = 0

CallStep == CallBuild \/ CallEnds \/ CallWrites \/ CallOpens \/ CallCloses \/ CallKilled
BootStep == BootLoads \/ BootBuilds \/ BootOpens \/ BootCloses \/ BootKilled

LNext ==
  \/ CallStart \/ CallStep
  \/ BootStart \/ BootStep
  \/ EditInput \/ EditJson

LSpec == LInit /\ [][LNext]_lvars

-----------------------------------------------------------------------------
(* Properties                                                              *)

LTypeOK ==
  /\ CTypeOK /\ BTypeOK
  /\ tree \in [Inputs -> Texts] /\ seen \in [Inputs -> Texts] /\ origin \in [Inputs -> Texts]
  /\ disk \in [Outputs -> {"none", "torn", "whole"}]
  /\ callpc \in 0..6 /\ bootpc \in 0..5

\* What main writes is a graph without a hop twice, in which every hop of every
\* chain is an edge at the site the recipe names, labelled with that chain, and
\* the number an edge carries is its place in a chain it is labelled with.
PublishedGraph ==
  callpc > 0 =>
    LET g == Content.edges IN
    /\ \A id, other \in DOMAIN g : g[id].site = g[other].site => id = other
    /\ \A c \in DOMAIN chains : \A k \in DOMAIN chains[c] :
         /\ chains[c][k] \in DOMAIN g
         /\ c \in g[chains[c][k]].chain
         /\ c \in FixedChains =>
              g[chains[c][k]].site \in SitesFor(Recipe[c][k])
    /\ \A id \in DOMAIN g : g[id].hop > 0 =>
         \E c \in g[id].chain \cap DOMAIN chains :
           g[id].hop \in DOMAIN chains[c] /\ chains[c][g[id].hop] = id

\* A graph is published only while tree and zip say the same (main: "the
\* fingerprint is what proves it stayed one").  It is not: an edit that keeps the
\* length of the file is not seen.
PublishedFromTheZip ==
  callpc > 0 => seen["fragments/fragments.json"] = zip

\* A spine that succeeds and the graph it imports were made from the same
\* inputs.  Nothing compares them: the fingerprint in the json is not read.
SpineOfTheSameInputs == bstage = "emit" /\ rc = 0 => origin = tree
=============================================================================
