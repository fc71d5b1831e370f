-------------------------------- MODULE KVMap --------------------------------
(***************************************************************************)
(* What a KV store promises, whatever it keeps in memory or on disk: one   *)
(* sequence of rows per layer, that grows by appending to one layer and    *)
(* shrinks by dropping the last n rows of every layer.                     *)
(***************************************************************************)
EXTENDS Integers, Sequences

CONSTANTS Layer, Row

VARIABLE rows

Shorter(s, n) == SubSeq(s, 1, Len(s) - n)

Init == rows = [l \in Layer |-> <<>>]

AppendRow(l, r) == rows' = [rows EXCEPT ![l] = Append(@, r)]

\* KVCache.trim clamps n to the rows there are.
Trim(n) == rows' = [l \in Layer |-> Shorter(rows[l], n)]

Next ==
  \/ \E l \in Layer, r \in Row : AppendRow(l, r)
  \/ \E l \in Layer : \E n \in 1 .. Len(rows[l]) : Trim(n)

Spec == Init /\ [][Next]_rows
=============================================================================
