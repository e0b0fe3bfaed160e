--------------------------- MODULE MaxSharingSpec ---------------------------
(***************************************************************************)
(* What max_sharing promises its clients, with no cache and no traversal: *)
(* a call on node a returns some node structurally equal to a, or is      *)
(* abandoned by an interruption; while it runs, the heap may only gain    *)
(* new application nodes over existing ones (expressions are immutable);  *)
(* and a call that is not interrupted returns.  Spec section 4.1.          *)
(***************************************************************************)
EXTENDS ExprDag

CONSTANTS InitHeap, MaxNodes, MaxCalls

VARIABLES
    heap,    \* the nodes
    busy,    \* a call is running
    input,   \* the argument of the current or last call
    result,  \* its result, 0 while running or after an interruption
    calls    \* calls made so far

avars == <<heap, busy, input, result, calls>>

(* h, or h with one new application node over nodes of h. *)
Grow(h) == {h} \cup {Append(h, AppN(<<x, y>>)) : x, y \in Ids(h)}

Call(a) ==
    /\ ~busy /\ calls < MaxCalls
    /\ busy' = TRUE /\ input' = a /\ result' = 0 /\ calls' = calls + 1
    /\ UNCHANGED heap

(* A call answered at once, with no traversal. *)
CallAndReturn(a) ==
    /\ ~busy /\ calls < MaxCalls
    /\ input' = a /\ calls' = calls + 1
    /\ \E r \in Ids(heap) : StructEq(heap, a, r) /\ result' = r
    /\ UNCHANGED <<heap, busy>>

Build ==
    /\ busy
    /\ heap' \in Grow(heap) \ {heap}
    /\ UNCHANGED <<busy, input, result, calls>>

Return ==
    /\ busy
    /\ heap' \in Grow(heap)
    /\ \E r \in Ids(heap') : StructEq(heap', input, r) /\ result' = r
    /\ busy' = FALSE
    /\ UNCHANGED <<input, calls>>

Abort ==
    /\ busy
    /\ busy' = FALSE /\ result' = 0
    /\ UNCHANGED <<heap, input, calls>>

(* A client builds a node between calls. *)
ClientBuild ==
    /\ ~busy /\ Len(heap) < MaxNodes
    /\ heap' \in Grow(heap) \ {heap}
    /\ UNCHANGED <<busy, input, result, calls>>

Init ==
    heap = InitHeap /\ busy = FALSE /\ input = 0 /\ result = 0 /\ calls = 0

Next ==
    \/ \E a \in Ids(heap) : Call(a) \/ CallAndReturn(a)
    \/ Build \/ Return \/ Abort \/ ClientBuild

(* A running call is not left hanging: it returns or is interrupted. *)
AbsSpec == Init /\ [][Next]_avars /\ WF_avars(Return)

=============================================================================
