-------------------------------- MODULE Query --------------------------------
(* A search: the query tree is flattened into an execution stack, enough   *)
(* bitmaps are allocated for it, the steps run from the top of the stack   *)
(* and move bitmaps between a stack of free and a stack of result bitmaps   *)
(* (mos_qry.c).  A bitmap has one bit per row, in words of WordBits bits.  *)
EXTENDS Integers, Sequences, SequencesExt

CONSTANTS
  MaxRecords,  \* max_records, the nBits of every bitmap
  WordBits,    \* 64
  FlagBits,    \* 8: the bits of a word that survive the store to a uint8_t
  Group,       \* Group[r]: the groupable attribute's value in row r's record
  Queries,     \* the queries that are searched
  PutCounts,   \* the numbers of rows that may have been put
  None, Garbage

(* nBits / 64 + 1: a whole unused word when the rows fill the others.      *)
NWords == MaxRecords \div WordBits + 1
Bits == 0..(NWords * WordBits - 1)
Rows == 0..(MaxRecords - 1)
Word(b) == b \div WordBits

Ops == {"EQ", "AND", "OR", "NOT", "EXPAND"}

(* A query is a tree of nodes 1..n with root 1; children have larger       *)
(* numbers.  rows is what the index answers to a leaf, SIMILAR included;   *)
(* indexed are the nodes whose attribute has an index for their operator.  *)
(* The caller builds the tree by hand, with any number of substeps; those  *)
(* of a leaf are never looked at.                                          *)
QueryTree(q) ==
  LET Nodes == DOMAIN q.op IN
  /\ q.op \in Seq(Ops) \ {<< >>} /\ q.rows \in [Nodes -> SUBSET Rows]
  /\ q.subs \in [Nodes -> Seq(Nodes)] /\ q.indexed \subseteq Nodes
  /\ \A n \in Nodes :
       /\ \A i \in DOMAIN q.subs[n] : q.subs[n][i] > n
       /\ q.op[n] = "EQ" => q.subs[n] = << >>

(* The numbers of substeps mos_qry_execute counts on.                      *)
WellFormed(q) ==
  /\ QueryTree(q)
  /\ \A n \in DOMAIN q.op :
       /\ q.op[n] # "EQ" => q.subs[n] # << >>
       /\ q.op[n] \in {"NOT", "EXPAND"} => Len(q.subs[n]) = 1

ASSUME SizesAssumption ==
  /\ MaxRecords \in Nat \ {0} /\ WordBits \in Nat \ {0} /\ FlagBits \in 0..WordBits
  /\ PutCounts \subseteq 0..MaxRecords
  /\ Rows \subseteq DOMAIN Group
ASSUME NoneAssumption == None \notin Nat
ASSUME QueriesAssumption == \A q \in Queries : QueryTree(q)

VARIABLES
  puts,        \* rows 0..puts-1 are in the indexes
  phase,       \* "idle", "executing", "returned" or "faulted"
  query,
  steps,       \* the execution stack: nodes, the one that runs first on top
  pc,          \* the step that runs next; 0 when all have run
  bitmaps,     \* the contents of the allocated bitmaps
  free, freeTop, results, resultTop,
  answer       \* the rows of the bitmap the last search returned

stacks == <<free, freeTop, results, resultTop>>
vars == <<puts, phase, query, steps, pc, bitmaps, stacks, answer>>

Bitmap == [bits : SUBSET Bits, full : BOOLEAN, empty : BOOLEAN]
------------------------------------------------------------------------------
(* mos_qry_build_exec_stack: a step, then its substeps from last to first. *)
Below(q, build, n) ==
  LET below[i \in 0..Len(q.subs[n])] ==
        IF i = 0 THEN << >> ELSE build[q.subs[n][i]] \o below[i - 1]
  IN below[Len(q.subs[n])]
Build(q) ==
  LET build[n \in DOMAIN q.op] == <<n>> \o Below(q, build, n) IN build[1]

(* Wrong: a bitmap for every leaf; the count at the end for the largest.   *)
BitmapStackSizeOfLeaves(q, stack) ==
  Len(SelectSeq(stack, LAMBDA n : q.op[n] = "EQ"))
BitmapStackSizeAtEnd(q, stack) ==
  LET size[i \in 1..(Len(stack) + 1)] ==
        IF i > Len(stack) THEN 0 ELSE size[i + 1] - Len(q.subs[stack[i]]) + 1
  IN size[1]

(* mos_qry_calc_bitmap_stack_size: the most results there are at a time,   *)
(* counted over the steps in the order they will run.                      *)
BitmapStackSize(q, stack) ==
  LET size[i \in 1..(Len(stack) + 1)] ==
        IF i > Len(stack) THEN 0 ELSE size[i + 1] - Len(q.subs[stack[i]]) + 1
  IN Max({size[i] : i \in 1..Len(stack)})

(* A leaf and an EXPAND need an index; the check that there is one comes   *)
(* after the descriptor it would find missing is dereferenced (79-81).     *)
Unindexed(q) == {n \in DOMAIN q.op : q.op[n] \in {"EQ", "EXPAND"}} \ q.indexed

Init ==
  /\ puts \in PutCounts
  /\ phase = "idle" /\ query = None /\ steps = << >> /\ pc = 0
  /\ bitmaps = << >> /\ answer = None
  /\ free = << >> /\ freeTop = 0 /\ results = << >> /\ resultTop = 0

(* mos_qry_create_bitmap_exec and mos_qry_create_bitmap_stack: all bitmaps *)
(* are cleared and free; the array of results is not initialised.          *)
Prepare(q) ==
  /\ phase = "idle" /\ WellFormed(q) /\ Unindexed(q) = {}
  /\ \A n \in DOMAIN q.op : q.rows[n] \subseteq 0..(puts - 1)
  /\ phase' = "executing" /\ query' = q
  /\ steps' = Build(q) /\ pc' = Len(steps')
  /\ LET size == BitmapStackSize(q, steps') IN
       /\ bitmaps' = [b \in 1..size |-> [bits |-> {}, full |-> FALSE, empty |-> TRUE]]
       /\ free' = [s \in 1..size |-> s] /\ freeTop' = size
       /\ results' = [s \in 1..size |-> Garbage] /\ resultTop' = 0
  /\ UNCHANGED <<puts, answer>>

PrepareFaults(q) ==
  /\ phase = "idle" /\ WellFormed(q) /\ Unindexed(q) # {}
  /\ phase' = "faulted" /\ query' = q
  /\ UNCHANGED <<puts, steps, pc, bitmaps, stacks, answer>>

(* Only an EXPAND is checked for its substeps, and the -1 of that check is *)
(* dropped (94-97, 170): the steps left of a query with too few or too     *)
(* many run.  An AND or OR of none pops without end; the others leave a    *)
(* result too few or too many, so that a pop or the assertion on the last  *)
(* result fails, or, in a release build or when such mistakes make up for  *)
(* each other, a slot never written is freed or some result is returned.   *)
(* What that is, is not said: answer stays None.                           *)
RunMalformed(q) ==
  /\ phase = "idle" /\ ~WellFormed(q)
  /\ phase' \in {"faulted", "returned"} /\ query' = q
  /\ UNCHANGED <<puts, steps, pc, bitmaps, stacks, answer>>
------------------------------------------------------------------------------
Step == steps[pc]
Runs(op) == phase = "executing" /\ pc > 0 /\ query.op[Step] = op
Advance == pc' = pc - 1 /\ UNCHANGED <<puts, phase, query, steps, answer>>

(* Wrong: the flag stays as it was.                                        *)
FoundKeepsFlag(bm, rows) == [bm EXCEPT !.bits = @ \cup rows]

(* An index sets the bits of the rows it finds.                            *)
Found(bm, rows) ==
  [bm EXCEPT !.bits = @ \cup rows, !.empty = @ /\ rows = {}]

(* mos_qry_execute_leaf: a free bitmap is taken with whatever it holds.    *)
Leaf ==
  /\ Runs("EQ")
  /\ LET id == free[freeTop] IN
       /\ bitmaps' = [bitmaps EXCEPT ![id] = Found(@, query.rows[Step])]
       /\ results' = [results EXCEPT ![resultTop + 1] = id]
  /\ free' = [free EXCEPT ![freeTop] = None]
  /\ freeTop' = freeTop - 1 /\ resultTop' = resultTop + 1
  /\ Advance

(* mos_qry_execute_and_inline stores the word it tested in the empty flag, *)
(* cut to a byte: a result with a bit there counts as empty.               *)
AndInline(dst, bm) ==
  LET bits == dst.bits \cap bm.bits IN
  [dst EXCEPT !.bits = bits,
              !.empty = IF bits = {} THEN @ ELSE \E b \in bits : b % WordBits < FlagBits]

(* mos_qry_execute_or_inline leaves the empty flag alone.                  *)
OrInline(dst, bm) ==
  LET bits == dst.bits \cup bm.bits IN
  [dst EXCEPT !.bits = bits, !.full = @ \/ bits = Bits]

Inline(op, dst, bm) == IF op = "AND" THEN AndInline(dst, bm) ELSE OrInline(dst, bm)

(* The upper count - 1 results are merged into the one below them, from    *)
(* the top down, and are free again afterwards, with what they hold.       *)
Result(i) == results[resultTop - i]
Merged(op, count) ==
  LET merged[i \in 0..(count - 1)] ==
        IF i = 0 THEN bitmaps[Result(count - 1)]
                 ELSE Inline(op, merged[i - 1], bitmaps[Result(i - 1)])
  IN merged[count - 1]
Merge(op, count) ==
  /\ bitmaps' = [bitmaps EXCEPT ![Result(count - 1)] = Merged(op, count)]
  /\ resultTop' = resultTop - (count - 1)
  /\ freeTop' = freeTop + (count - 1)
  /\ results' = [s \in DOMAIN results |-> IF s \in (resultTop' + 1)..resultTop
                                          THEN None ELSE results[s]]
  /\ free' = [s \in DOMAIN free |-> IF s \in (freeTop + 1)..freeTop'
                                    THEN Result(s - freeTop - 1) ELSE free[s]]

And == Runs("AND") /\ Merge("AND", Len(query.subs[Step])) /\ Advance
Or == Runs("OR") /\ Merge("OR", Len(query.subs[Step])) /\ Advance

(* mos_qry_execute_not: every word is complemented, the last one under a   *)
(* mask of one bit less than it has rows.  The shift that makes the mask   *)
(* is by -1 when it has none; machines shift by that modulo the word size. *)
MaskBits == (MaxRecords + WordBits - 1) % WordBits
InMask(b) == Word(b) < NWords - 1 \/ b % WordBits < MaskBits
(* Wrong: no mask.                                                         *)
ComplementUnmasked(bm) ==
  [bits |-> Bits \ bm.bits, full |-> bm.empty, empty |-> bm.full]
Complement(bm) ==
  [bits |-> {b \in Bits \ bm.bits : InMask(b)}, full |-> bm.empty, empty |-> bm.full]

Not ==
  /\ Runs("NOT")
  /\ bitmaps' = [bitmaps EXCEPT ![results[resultTop]] = Complement(@)]
  /\ UNCHANGED stacks /\ Advance

(* The groupable attribute of a row; the records file is zero where no     *)
(* record was put.                                                         *)
Value(r) == IF r < puts THEN Group[r] ELSE 0

(* Wrong: the records are scanned instead of the index; the result is      *)
(* pushed without having been popped.                                      *)
SameGroupScan(bits) == {s \in Rows : \E b \in bits : Value(s) = Value(b)}
ExpandWithoutPop ==
  /\ Runs("EXPAND")
  /\ resultTop' = resultTop + 1
  /\ UNCHANGED <<bitmaps, free, freeTop, results>> /\ Advance

(* mos_qry_execute_expand: the rows that share the attribute's value with  *)
(* a row of the result, as the attribute's index finds them, are added to  *)
(* the result; nothing when the result is flagged empty.                   *)
SameGroup(bits) == {s \in 0..(puts - 1) : \E b \in bits : Value(s) = Value(b)}

Expand ==
  /\ Runs("EXPAND")
  /\ bitmaps' = [bitmaps EXCEPT ![results[resultTop]] =
                   IF @.empty THEN @ ELSE Found(@, SameGroup(@.bits))]
  /\ UNCHANGED stacks /\ Advance

(* The rest of mos_qry_process_search: the one result is cloned, both      *)
(* stacks are freed.                                                       *)
Return ==
  /\ phase = "executing" /\ pc = 0 /\ resultTop = 1
  /\ phase' = "returned" /\ answer' = bitmaps[results[1]].bits
  /\ steps' = << >> /\ bitmaps' = << >>
  /\ free' = << >> /\ freeTop' = 0 /\ results' = << >> /\ resultTop' = 0
  /\ UNCHANGED <<puts, query, pc>>

(* The caller frees the result and may search again; a process that died   *)
(* is started again.                                                       *)
Done ==
  /\ phase \in {"returned", "faulted"}
  /\ phase' = "idle" /\ query' = None /\ answer' = None
  /\ UNCHANGED <<puts, steps, pc, bitmaps, stacks>>

Next ==
  \/ \E q \in Queries : Prepare(q) \/ PrepareFaults(q) \/ RunMalformed(q)
  \/ Leaf \/ And \/ Or \/ Not \/ Expand \/ Return \/ Done

Spec == Init /\ [][Next]_vars
------------------------------------------------------------------------------
(* What the operators of a query mean: sets of rows.                       *)
Meaning(q, m, n) ==
  LET subs == {m[q.subs[n][i]] : i \in DOMAIN q.subs[n]} IN
  CASE q.op[n] = "EQ"     -> q.rows[n]
    [] q.op[n] = "AND"    -> {r \in Rows : \A rows \in subs : r \in rows}
    [] q.op[n] = "OR"     -> UNION subs
    [] q.op[n] = "NOT"    -> Rows \ UNION subs
    [] q.op[n] = "EXPAND" -> UNION subs \cup SameGroup(UNION subs)
Meanings(q) == LET m[n \in DOMAIN q.op] == Meaning(q, m, n) IN m
Matches(q) == Meanings(q)[1]

HasNot(q) == \E n \in DOMAIN q.op : q.op[n] = "NOT"
ExpandsLeavesOnly(q) ==
  \A n \in DOMAIN q.op :
    q.op[n] = "EXPAND" => q.op[q.subs[n][1]] \in {"EQ", "EXPAND"}
(* No leaf runs after an operator that gave bitmaps back.                  *)
LeavesRunFirst(q) ==
  LET stack == Build(q) IN
  \A i, j \in 1..Len(stack) :
    q.op[stack[i]] = "EQ" /\ Len(q.subs[stack[j]]) > 1 => i > j

(* The states the variables range over.                                    *)
TypeOK ==
  /\ puts \in PutCounts /\ phase \in {"idle", "executing", "returned", "faulted"}
  /\ (query # None => QueryTree(query)) /\ pc \in 0..Len(steps)
  /\ bitmaps \in Seq(Bitmap)
  /\ Len(free) = Len(bitmaps) /\ Len(results) = Len(bitmaps)
  /\ freeTop \in 0..Len(free) /\ resultTop \in 0..Len(results)
  /\ answer = None \/ answer \subseteq Bits

(* Whatever the query, no step pops from an empty stack, and none reaches  *)
(* beyond the bitmaps that mos_qry_calc_bitmap_stack_size provides.        *)
StacksSuffice ==
  /\ Runs("EQ") => freeTop > 0 /\ resultTop < Len(results)
  /\ phase = "executing" /\ pc > 0 => resultTop >= Len(query.subs[Step])
  /\ phase = "executing" /\ pc = 0 => resultTop = 1

(* Every bitmap is in one place: "result_top + free_top = total stack size *)
(* ... it is not possible for the result and free space to overlap"        *)
(* (mos_qry.h:24-26).                                                      *)
(* Its first conjunct is the type invariant.                               *)
BitmapsConserved ==
  LET At(s) == IF s <= freeTop THEN free[s] ELSE results[s - freeTop] IN
  /\ TypeOK
  /\ freeTop + resultTop = Len(bitmaps)
  /\ {At(s) : s \in 1..Len(bitmaps)} = 1..Len(bitmaps)

(* mos_qry_free_bitmap_stack frees every pointer in both arrays that is    *)
(* not NULL, up to the end of the arrays: by then each bitmap but the      *)
(* result is in one slot, and no slot still has the contents malloc left   *)
(* there.  So as many bitmaps are provided as the execution uses, no more. *)
FreedOnce ==
  phase = "executing" /\ pc = 0 =>
    /\ \A s \in 2..Len(results) : results[s] = None
    /\ {s \in DOMAIN free : free[s] # None} = 1..(Len(free) - 1)

(* A search without NOT returns every record that matches (mos.h:179),     *)
(* though bitmaps are used again as they are: bits left in them only add.  *)
NothingMissed ==
  answer # None /\ ~HasNot(query) /\ ExpandsLeavesOnly(query) =>
    Matches(query) \subseteq answer

(* A search in which all leaves run on cleared bitmaps returns exactly the *)
(* records that match; under NOT the last row of the storage excepted, and *)
(* rows beyond it when the rows of the storage fill the words before.      *)
ExactOnClearedBitmaps ==
  answer # None /\ LeavesRunFirst(query) /\ ExpandsLeavesOnly(query) =>
    IF HasNot(query)
    THEN /\ (answer \cap Rows) \ {MaxRecords - 1} = Matches(query) \ {MaxRecords - 1}
         /\ MaxRecords % WordBits # 0 => answer \subseteq Rows
    ELSE answer = Matches(query)

(* Without NOT no bit is set for a row that was never put.                 *)
OnlyRowsPut ==
  answer # None /\ ~HasNot(query) => answer \subseteq 0..(puts - 1)
==============================================================================
