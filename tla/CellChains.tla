------------------------------ MODULE CellChains ------------------------------
(***************************************************************************)
(* The containers link cells by their index, and 0 ends a chain.  Modules   *)
(* that Containers instantiates extend this one, so it brings nothing with *)
(* it that they do not use: every proof carries what each instance brings. *)
(***************************************************************************)
EXTENDS Naturals, Sequences, FiniteSets

\* The cells met from cell i on, along next.  A walk that does not end after
\* all cells is cut off there, so that it shows as too long.
Walk(next, i) ==
  LET bound == Cardinality(DOMAIN next)
      at[n \in 0 .. bound] ==
        IF n = 0 THEN i
        ELSE LET p == at[n - 1] IN IF p = 0 THEN 0 ELSE next[p]
      len == Cardinality({n \in 0 .. (bound - 1) : at[n] # 0})
  IN [k \in 1 .. len |-> at[k - 1]]

CellsOf(list) == {list[n] : n \in DOMAIN list}
Mirror(list) == [n \in 1 .. Len(list) |-> list[(Len(list) - n) + 1]]
Least(S) == CHOOSE n \in S : \A m \in S : n <= m

\* The position of the first cell that is a hit, or 0.
FirstHit(list, Hit(_)) ==
  LET hits == {n \in 1 .. Len(list) : Hit(list[n])}
  IN IF hits # {} THEN Least(hits) ELSE 0

\* The lists, of which there is at least one, one behind the other.
Joined(lists) ==
  LET upTo[n \in 1 .. Len(lists)] ==
        IF n = 1 THEN lists[n] ELSE upTo[n - 1] \o lists[n]
  IN upTo[Len(lists)]
==============================================================================
