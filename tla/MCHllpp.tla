------------------------------- MODULE MCHllpp --------------------------------
(* Instances of Hllpp: two hashes compete for a register that lies in two *)
(* bytes, with ranks whose bits differ in both, a third is alone. *)
EXTENDS Hllpp, TLC

CONSTANTS h1, h2, h3, drain, check, ship, rotate

MCHash == {h1, h2, h3}
MCIdx == {0, 1}
MCIdxOf == (h1 :> 1) @@ (h2 :> 1) @@ (h3 :> 0)
MCRhoOf == (h1 :> 3) @@ (h2 :> 4) @@ (h3 :> 1)

Nobody == [t \in Threads |-> {}]

\* The sketch of a window: one goroutine drains packets into it, the check
\* loop counts it, the shipping loop exports it, the rotation resets it.
Window ==
  [roles |-> (drain :> {"insert"}) @@ (check :> {"elements"}) @@ (ship :> {"export"})
               @@ (rotate :> {"reset"}),
   incoming |-> {}]

\* The sketch of an aggregator: every call is made with the server's mutex
\* held, so one goroutine stands for all.  Sparse sketches alone cannot fill
\* the list.
Aggregate ==
  [roles |-> (drain :> {"elements", "export", "merge", "reset"}) @@ Nobody,
   incoming |-> [format : {"sparse"}, hashes : {{h1}}]
                  \cup [format : {"dense"}, hashes : {{h1, h2}, {h3}}]]

\* Here they do.
AggregateLarge ==
  [Aggregate EXCEPT !.incoming = [format : {"sparse"}, hashes : {{h1}, {h2, h3}}]]

WindowAndAggregate == {Window, Aggregate}
AggregateLargeOnly == {AggregateLarge}

\* What the theorems that need it assume.
ASSUME UsedByOneInserter == OneInserter
ASSUME UsedWithSmallLists == SparseStaysSmall <=> Usages # AggregateLargeOnly
==============================================================================
