------------------------------ MODULE DartScan ------------------------------
(***************************************************************************)
(* scripts/build_call_linkage.py: dart_edges reads blutter's listings line *)
(* by line.  Comment and load lines leave marks, and the next blr is       *)
(* classified by the marks that are set: a state machine over lines.       *)
(* Every mark is kept here as the number of the line that set it (0: not   *)
(* set), which is what the properties compare.                             *)
(***************************************************************************)
EXTENDS Naturals, Sequences, FiniteSets

CONSTANTS
  Regs,        \* registers a blr can go through
  Recent,      \* how many lines "recent" keeps (6)
  MaxLines     \* bound: lines of a file

ASSUME DartAssumption ==
  Recent \in Nat \ {0} /\ MaxLines \in Nat

VARIABLES
  line,      \* lines read
  cur,       \* inside a function: a '** addr' line has been seen
  pend,      \* pending_unlinked, pending_gdt, pending_gdt_load, pending_closure
  tail,      \* recent: the last lines of the listing
  irCalls,   \* IR call lines of this file whose bl has not come yet
  drift,     \* the differences of counters that the checks of build() test
  out,       \* the edge the last line gave
  since      \* the last line that begins a function or ends in a blr

dvars == <<line, cur, pend, tail, irCalls, drift, out, since>>

Marks == {"unlinked", "gdt", "gdtLoad", "closure"}
NoMarks == [m \in Marks |-> 0]

NoOut == [kind |-> "none", conf |-> "none", at |-> 0, since |-> 0, label |-> 0]

\* ir: IR calls without a matching bl; pool: closure edges beyond the counted
\* pool lines; names: inline names that contradict the table.
NoDrift == [ir |-> 0, pool |-> 0, names |-> 0]
Drifts(d, by) == drift' = [drift EXCEPT ![d] = @ + by]

\* Every line but a header is appended to the recent ones.
ReadsLine(kind, reg) ==
  /\ line < MaxLines
  /\ line' = line + 1
  /\ tail' = LET r == Append(tail, [kind |-> kind, reg |-> reg, at |-> line + 1])
               IN  IF Len(r) > Recent THEN Tail(r) ELSE r

PlainLine(kind) == ReadsLine(kind, "-")
Silent == out' = NoOut
Mark(m) == pend' = [pend EXCEPT ![m] = line + 1]

-----------------------------------------------------------------------------
(* The lines of a listing                                                  *)

\* '** addr:': a new function; nothing of the one before is kept.
Header ==
  /\ line < MaxLines
  /\ line' = line + 1
  /\ cur' = TRUE
  /\ pend' = NoMarks
  /\ tail' = <<>>
  /\ since' = line + 1
  /\ Silent
  /\ UNCHANGED <<irCalls, drift>>

\* 'r0 = call', for the bl that follows.
IrCall ==
  /\ PlainLine("ir")
  /\ Drifts("ir", 1)
  /\ irCalls' = irCalls + 1
  /\ Silent
  /\ UNCHANGED <<cur, pend, since>>

\* bl or b to an address: named by the comment of the line, else by a table
\* (DartSymbols.resolve).  The marks stay.
Branch(op, inline, table, matched) ==
  /\ PlainLine("branch")
  /\ matched => cur /\ irCalls > 0
  /\ irCalls' = IF matched THEN irCalls - 1 ELSE irCalls
  /\ drift' = [drift EXCEPT !.ir = IF matched THEN @ - 1 ELSE @,
                            !.names = IF cur /\ table /\ inline = "conflict" THEN @ + 1 ELSE @]
  /\ out' = IF ~cur THEN NoOut
             ELSE [NoOut EXCEPT !.kind = IF op = "bl" THEN "dart_call" ELSE "dart_tail_call",
                                 !.conf = IF inline # "none" THEN "proven"
                                          ELSE IF table THEN "strong" ELSE "candidate"]
  /\ UNCHANGED <<cur, pend, since>>

\* 'ClosureCall' or ldur xN, [xM, #0x1f]; 'GDT[cid_xN + ..]'; ldr lr, [x21, ..].
Marking(m) ==
  /\ m \in {"closure", "gdt", "gdtLoad"}
  /\ PlainLine("mark")
  /\ Mark(m)
  /\ Silent
  /\ UNCHANGED <<cur, irCalls, drift, since>>

\* A line that names a pool slot: with the offset of an instruction or without.
Pool(what, offset) ==
  /\ PlainLine("pool")
  /\ IF cur /\ what = "closure" /\ ~offset THEN Drifts("pool", 1) ELSE UNCHANGED drift
  /\ out' = IF cur /\ what = "closure"
             THEN [NoOut EXCEPT !.kind = "dart_instantiates_closure", !.conf = "proven"]
             ELSE IF cur /\ offset
             THEN [NoOut EXCEPT !.kind = "loads_pool_slot", !.conf = "proven"]
             ELSE NoOut
  /\ IF cur /\ offset /\ what = "unlinked" THEN Mark("unlinked") ELSE UNCHANGED pend
  /\ UNCHANGED <<cur, irCalls, since>>

\* Lines the label of an indirect call is read from, and any other line.
Other(kind, reg) ==
  /\ kind \in {"vmTag", "field", "plain"}
  /\ (reg = "-") = (kind # "field")
  /\ ReadsLine(kind, reg)
  /\ Silent
  /\ UNCHANGED <<cur, pend, irCalls, drift, since>>

-----------------------------------------------------------------------------
(* blr: the marks decide, in this order                                    *)

IndirectEdge(reg) ==
  LET tags == {i \in DOMAIN tail : tail[i].kind = "vmTag"}
      fields == {i \in DOMAIN tail : tail[i].kind = "field" /\ tail[i].reg = reg}
      first(S) == tail[CHOOSE i \in S : \A j \in S : i <= j].at
      label == CASE tags # {} -> first(tags)
                 [] tags = {} /\ fields # {} -> first(fields)
                 [] OTHER -> 0
  IN  [kind |-> "dart_indirect_call", conf |-> IF label > 0 THEN "probable" ELSE "candidate",
       at |-> 0, since |-> since, label |-> label]

ByMark(kind, conf, m) ==
  [kind |-> kind, conf |-> conf, at |-> pend[m], since |-> since, label |-> 0]

Set(m) == pend[m] > 0

BlrEdge(reg) ==
  CASE Set("unlinked") -> ByMark("calls_unlinked_slot", "strong", "unlinked")
    [] ~Set("unlinked") /\ Set("gdt") -> ByMark("dart_gdt_dispatch", "probable", "gdt")
    [] ~Set("unlinked") /\ ~Set("gdt") /\ Set("gdtLoad") ->
         ByMark("dart_gdt_dispatch", "probable", "gdtLoad")
    [] ~Set("unlinked") /\ ~Set("gdt") /\ ~Set("gdtLoad") /\ Set("closure") ->
         ByMark("dart_closure_call", "probable", "closure")
    [] OTHER -> IndirectEdge(reg)

\* Mutant: the dispatch-table mark outlives the call it was for.
ClearedButGdtLoad == [NoMarks EXCEPT !["gdtLoad"] = pend["gdtLoad"]]

Cleared == NoMarks

BlrLine(reg) ==
  /\ ReadsLine("blr", reg)
  /\ IF cur
     THEN /\ out' = BlrEdge(reg)
          /\ pend' = Cleared
          /\ since' = line + 1
     ELSE Silent /\ UNCHANGED <<pend, since>>
  /\ UNCHANGED <<cur, irCalls, drift>>

-----------------------------------------------------------------------------
\* The next file starts from nothing; the counters go on.
NextFile ==
  /\ cur
  /\ cur' = FALSE /\ pend' = NoMarks /\ tail' = <<>> /\ irCalls' = 0
  /\ since' = line
  /\ Silent
  /\ UNCHANGED <<line, drift>>

DInit ==
  /\ line = 0 /\ cur = FALSE /\ pend = NoMarks /\ tail = <<>> /\ irCalls = 0
  /\ drift = NoDrift
  /\ out = NoOut /\ since = 0

DNext ==
  \/ Header
  \/ IrCall
  \/ \E op \in {"bl", "b"}, inline \in {"none", "agrees", "conflict"},
       table, matched \in BOOLEAN : Branch(op, inline, table, matched)
  \/ \E m \in Marks : Marking(m)
  \/ \E what \in {"unlinked", "closure", "string"}, offset \in BOOLEAN : Pool(what, offset)
  \/ \E kind \in {"vmTag", "field", "plain"}, reg \in Regs \cup {"-"} : Other(kind, reg)
  \/ \E reg \in Regs : BlrLine(reg)
  \/ NextFile

DSpec == DInit /\ [][DNext]_dvars

-----------------------------------------------------------------------------
(* Properties                                                              *)

DTypeOK ==
  /\ line \in Nat /\ cur \in BOOLEAN
  /\ pend \in [Marks -> 0..line]
  /\ Len(tail) <= Recent
  /\ irCalls \in Nat
  /\ drift \in [{"ir", "pool", "names"} -> Nat]
  /\ since \in 0..line

\* A blr is never classified by a mark of another function or of a call before
\* it: the mark it relies on was set after the last header and after the last
\* blr (dart_edges resets the pending marks at both).
NoBorrowedMark == out.at > 0 => out.at > out.since

\* Refuted: the label of an indirect call comes from lines after the last call.
\* The six recent lines run on over a blr (dart_edges: "two instructions above
\* the blr").
LabelIsFresh == out.label > 0 => out.label > out.since
=============================================================================
