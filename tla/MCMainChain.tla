---------------------------- MODULE MCMainChain ----------------------------
(* Candidate blocks for MainChain. *)
EXTENDS MainChain, TLC

CONSTANTS g, a, b, e, c, j, d, f, h, k, m, o

Link(to, amount, in) == [to |-> to, amount |-> amount, in |-> in]
Ref(to) == Link(to, 0, FALSE)

\* Blocks of one period in a row (a, b and c, j), two transfers out of g that
\* cannot both be paid (b, e), two branches (c, j, f, k and d, h, m) that
\* overtake each other, and a block that joins them (o).
MCTime == g :> 0 @@ a :> 2 @@ b :> 3 @@ e :> 3 @@ c :> 4 @@ j :> 5 @@ d :> 4
          @@ f :> 6 @@ h :> 6 @@ k :> 8 @@ m :> 8 @@ o :> 10
MCWork == [x \in Blocks |-> IF x \in {b, d, h, j, k} THEN 2 ELSE IF x = m THEN 4 ELSE 1]
MCFee  == [x \in Blocks |-> IF x = e THEN 1 ELSE 0]
MCFields ==
  g :> <<>> @@ a :> <<Ref(g)>>
  @@ b :> <<Ref(a), Link(g, 6, TRUE), Link(a, 6, FALSE)>>
  @@ e :> <<Link(g, 4, TRUE), Link(a, 3, FALSE)>>
  @@ c :> <<Ref(b), Ref(e)>> @@ j :> <<Ref(c)>> @@ d :> <<Ref(a), Ref(e)>>
  @@ f :> <<Ref(c)>> @@ h :> <<Ref(d)>> @@ k :> <<Ref(f)>> @@ m :> <<Ref(h)>>
  @@ o :> <<Ref(k), Ref(m), Ref(j)>>
MCOurs == {g, a, b, e}
=============================================================================
