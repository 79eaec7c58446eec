------------------------------- MODULE MCQuery -------------------------------
(* Queries of up to seven nodes over a storage of a few rows, and two       *)
(* statements of the documentation that searches do not keep.              *)
EXTENDS Query

(* Rows 0, 1 and 3, 4 are groups; row 2 has the value of rows never put.   *)
Groups == [r \in Rows |-> IF r \in {0, 1} THEN 1 ELSE IF r \in {3, 4} THEN 2 ELSE 0]

Shapes == {
  << << >> >>, << <<2>>, << >> >>, << <<2>>, <<3>>, << >> >>,
  << <<2, 3>>, << >>, << >> >>, << <<2, 3, 4>>, << >>, << >>, << >> >>,
  << <<2>>, <<3, 4>>, << >>, << >> >>, << <<2, 3>>, <<4>>, << >>, << >> >>,
  << <<2, 3>>, << >>, <<4>>, << >> >>, << <<2, 3>>, <<4>>, <<5>>, << >>, << >> >>,
  << <<2, 3>>, <<4, 5>>, << >>, << >>, << >> >>,
  << <<2, 3>>, << >>, <<4, 5>>, << >>, << >> >>,
  << <<2, 3>>, << >>, <<4>>, <<5, 6>>, << >>, << >> >>,
  << <<2, 3>>, <<4, 5>>, <<6, 7>>, << >>, << >>, << >>, << >> >> }
Answers == {rows \cap Rows : rows \in {{}, {0}, {0, 2}, {1, 4}}}

(* All choices of operators that fit the number of substeps, and of what   *)
(* the index answers to each leaf.                                         *)
Op(subs, first) ==
  CASE Len(subs) = 0 -> "EQ"
    [] Len(subs) = 1 -> IF first THEN "NOT" ELSE "EXPAND"
    [] OTHER         -> IF first THEN "AND" ELSE "OR"
QueriesOf(shape) ==
  LET Nodes == DOMAIN shape
      Leaves == {n \in Nodes : shape[n] = << >>}
  IN {[op |-> [n \in Nodes |-> Op(shape[n], n \in firsts)], subs |-> shape, indexed |-> Nodes,
       rows |-> [n \in Nodes |-> IF n \in Leaves THEN found[n] ELSE {}]] :
        firsts \in SUBSET (Nodes \ Leaves), found \in [Leaves -> Answers]}
(* An EXPAND and a NOT of two, and an OR of none below another operator.   *)
Leaves2 == << <<2, 3>>, << >>, << >> >>
MalformedQueries ==
  {[q EXCEPT !.op[1] = op] : q \in QueriesOf(Leaves2), op \in {"EXPAND", "NOT"}}
    \cup {[q EXCEPT !.op[2] = "OR"] : q \in QueriesOf(Leaves2)}
SmallQueries ==
  UNION {QueriesOf(shape) : shape \in Shapes} \cup MalformedQueries
    \cup {[q EXCEPT !.indexed = {1}] : q \in QueriesOf(<< <<2>>, << >> >>)}
------------------------------------------------------------------------------
(* "Every record matching the search query, is represented by a 1 in the   *)
(* bitmap" (mos.h:179), and no other: a bitmap that AND or OR gave back    *)
(* still holds its bits when the next leaf uses it (mos_qry.c:348).        *)
OnlyMatchesReturned ==
  answer # None /\ ~HasNot(query) => answer \subseteq Matches(query)

(* And every one of them, also below an EXPAND of an AND or OR: "if there   *)
(* is a single 1 in any word, the bitmap is not empty" (mos_qry.c:280), but *)
(* AND sets the empty flag then (284), OR leaves it as it was (320-328),    *)
(* and EXPAND passes over the result.                                       *)
EveryMatchReturned ==
  answer # None /\ ~HasNot(query) => Matches(query) \subseteq answer
=============================================================================
