------------------------------ MODULE Rowsets -------------------------------
(***************************************************************************)
(* Rows of a buffer as readers see them: the queries of db/rows.rs, and    *)
(* the row sets of Lua scripts (lua/data.rs).  A table of rows is a        *)
(* sequence in the order of insertion; a query returns a set of indices, a *)
(* row set is a sequence of them.  Queries order by position only, so rows *)
(* at one position come in any order.                                      *)
(***************************************************************************)
EXTENDS Integers, Sequences, FiniteSets

CONSTANT None

Methods == {"message.user", "message.model", "thinking.stream", "tool.call", "tool.result"}
IsMessage(row) == row.method \in {"message.user", "message.model"}
IsTool(row) == row.method \in {"tool.call", "tool.result"}

Row(buffer, author, method, parent) ==
  [buffer |-> buffer, pos |-> 0, author |-> author, method |-> method,
   parent |-> parent, after |-> 0]
Message(buffer, author, isModel) ==
  Row(buffer, author, IF isModel THEN "message.model" ELSE "message.user", None)
Thinking(buffer, author) == Row(buffer, author, "thinking.stream", None)
ToolCallRow(buffer, author, parent) == Row(buffer, author, "tool.call", parent)
\* A result has no author.
ToolResultRow(buffer, parent) == Row(buffer, None, "tool.result", parent)

-----------------------------------------------------------------------------
(* Queries                                                                 *)

InBuffer(rows, b) == {i \in DOMAIN rows : rows[i].buffer = b}
ListRows(rows, b) == {i \in InBuffer(rows, b) : rows[i].parent = None}
ListChildren(rows, r) == {i \in DOMAIN rows : rows[i].parent = r}
ToolRows(rows, b) == {i \in InBuffer(rows, b) : IsTool(rows[i])}
ByMethod(rows, b, method) == {i \in InBuffer(rows, b) : rows[i].method = method}

\* Where append_row puts the next row: after the last that has no parent.
LastRow(rows, b) ==
  {i \in ListRows(rows, b) : \A j \in ListRows(rows, b) : rows[j].pos <= rows[i].pos}
\* Variant: the position of the last row itself.
SamePosition(rows, b) ==
  IF LastRow(rows, b) = {} THEN 0 ELSE rows[CHOOSE i \in LastRow(rows, b) : TRUE].pos
NextPosition(rows, b) ==
  IF LastRow(rows, b) = {} THEN 0 ELSE rows[CHOOSE i \in LastRow(rows, b) : TRUE].pos + 1

\* The last n of a set of rows: no row outside is above one inside.
Latest(rows, from, n) ==
  IF Cardinality(from) <= n THEN {from}
  ELSE {s \in SUBSET from : /\ Cardinality(s) = n
                            /\ \A i \in s, j \in from \ s : rows[j].pos <= rows[i].pos}
\* The rows on the screen: those without a parent, and tool rows
Recent(rows, b, n) == Latest(rows, ListRows(rows, b) \cup ToolRows(rows, b), n)
ListToolCalls(rows, b, n) == Latest(rows, ToolRows(rows, b), n)

RowsSince(rows, b, r) ==
  {i \in ListRows(rows, b) : r # None => rows[i].pos > rows[r].pos}

\* tools.history keeps messages and tool rows of what was recent.
History(rows, recent) == {i \in recent : IsMessage(rows[i]) \/ IsTool(rows[i])}

\* tools.history_tools makes an entry of every call.
HistoryTools(rows, recent) == {i \in recent : rows[i].method = "tool.call"}
\* tools.history_stats: its total
CountToolCalls(rows, b) == Cardinality(ByMethod(rows, b, "tool.call"))

-----------------------------------------------------------------------------
(* Row sets                                                                *)

SmallerOf(a, b) == IF a < b THEN a ELSE b

\* The members of a set, each after those before it
InOrder(set, before) ==
  [n \in 1..Cardinality(set) |-> CHOOSE i \in set : Cardinality(before[i]) = n - 1]

\* A row set of a buffer: its rows by position, in one of their orders
Rowset(rows, b) ==
  LET shown == ListRows(rows, b)
      before(i) == {j \in shown : \/ rows[j].pos < rows[i].pos
                                  \/ rows[j].pos = rows[i].pos /\ j < i}
  IN  InOrder(shown, [i \in shown |-> before(i)])

LastOf(s, n) == SubSeq(s, 1 + IF n < Len(s) THEN Len(s) - n ELSE 0, Len(s))
Slice(s, offset, limit) ==
  LET start == SmallerOf(offset, Len(s))
  IN  SubSeq(s, start + 1, SmallerOf(start + limit, Len(s)))

\* The entries of a sequence at some places, in their order: SelectSeq, which
\* no prover can expand, by its ranks
Pick(s, places) ==
  LET order == InOrder(places, [n \in places |-> {m \in places : m < n}])
  IN  [n \in DOMAIN order |-> s[order[n]]]

Where(rows, s, author) == Pick(s, {n \in DOMAIN s : rows[s[n]].author = author})
Messages(rows, s) == Pick(s, {n \in DOMAIN s : IsMessage(rows[s[n]])})
Groups(rows, s) == [a \in {rows[s[i]].author : i \in DOMAIN s} |-> Where(rows, s, a)]
WithTag(tags, s, tag) == Pick(s, {n \in DOMAIN s : <<s[n], tag>> \in tags})
WithoutTag(tags, s, tag) == Pick(s, {n \in DOMAIN s : <<s[n], tag>> \notin tags})
=============================================================================
