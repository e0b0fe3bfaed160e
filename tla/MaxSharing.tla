------------------------------ MODULE MaxSharing ------------------------------
(***************************************************************************)
(* max_sharing.cpp: max_sharing_fn objects and the max_sharing function.   *)
(*                                                                         *)
(* The recursive apply is modelled step by step with an explicit stack of *)
(* frames, one per active apply(a), so that check_system (line 37) can     *)
(* throw at the entry of any of them.  A frame is in phase "enter" before  *)
(* the cache lookup and in phase "kids" while its sub-terms are shared,    *)
(* res holding the results of the sub-terms done so far.                   *)
(*                                                                         *)
(* marked is the max_shared bit of every node: global, never reset.        *)
(* cache[o] is the m_cache of object o, kept across calls until clear().   *)
(* Tmp is the temporary imp object of the max_sharing function.            *)
(***************************************************************************)
EXTENDS ExprDag

CONSTANTS Labels, Objs, Tmp, InitHeap, MaxNodes, MaxCalls

ASSUME Tmp \notin Objs
ASSUME \A i \in DOMAIN InitHeap : InitHeap[i].k = "Leaf"

VARIABLES
    heap,     \* the nodes
    marked,   \* ids whose max_shared bit is set
    cache,    \* cache[o]: the m_cache of object o
    tainted,  \* tainted[o]: cache[o] took a node on trust of its bit
    stack,    \* frames of the active apply calls, innermost last
    obj,      \* the object of the current or last call
    input,    \* the argument of the current or last call
    result,   \* its result, 0 while running or after an interruption
    trusted,  \* the current or last call relied on a max_shared bit
    calls     \* calls made so far

vars == <<heap, marked, cache, tainted, stack, obj, input, result, trusted, calls>>

AllObjs == Objs \cup {Tmp}

Frame(n) == [n |-> n, st |-> "enter", res |-> <<>>]

Top == stack[Len(stack)]

(* Seeded bug, caught by ImplementsMaxSharingSpec: the cache compares    *)
(* nodes by kind and label only, as a hash collision with a shallow      *)
(* equality would.                                                         *)
FindShallow(o, a) ==
    {c \in cache[o] : heap[c].k = heap[a].k /\ heap[c].label = heap[a].label}

(* m_cache.find(a): the cached node structurally equal to a, if any.       *)
(* std::equal_to<expr> is expr operator==, structural equality.            *)
Find(o, a) == {c \in cache[o] : StructEq(heap, c, a)}

(* m_cache.insert(x) in heap h: no effect if an equal node is there.       *)
Insert(h, S, x) == IF \E c \in S : StructEq(h, c, x) THEN S ELSE S \cup {x}

(* apply(a) returns v to its caller: the frame is popped and v appended  *)
(* to the results of the parent frame, or becomes the call's result.     *)
ReturnValue(v) ==
    LET rest == SubSeq(stack, 1, Len(stack) - 1)
    IN /\ stack' = IF rest = <<>> THEN <<>>
                   ELSE [rest EXCEPT ![Len(rest)].res = Append(@, v)]
       /\ result' = IF rest = <<>> THEN v ELSE result

-----------------------------------------------------------------------------
(* apply(a), lines 36-54: check_system passed, the cache is consulted,    *)
(* then the max_shared bit; a leaf is its own result and is cached.       *)

ApplyCacheHit ==
    /\ stack # <<>> /\ Top.st = "enter"
    /\ Find(obj, Top.n) # {}
    /\ ReturnValue(CHOOSE c \in Find(obj, Top.n) : TRUE)
    /\ UNCHANGED <<heap, marked, cache, tainted, obj, input, trusted, calls>>

ApplyMaxShared ==
    /\ stack # <<>> /\ Top.st = "enter"
    /\ Find(obj, Top.n) = {}
    /\ Top.n \in marked
    /\ cache' = [cache EXCEPT ![obj] = @ \cup {Top.n}]
    /\ tainted' = [tainted EXCEPT ![obj] = TRUE]
    /\ trusted' = TRUE
    /\ ReturnValue(Top.n)
    /\ UNCHANGED <<heap, marked, obj, input, calls>>

ApplyLeaf ==
    /\ stack # <<>> /\ Top.st = "enter"
    /\ Find(obj, Top.n) = {}
    /\ Top.n \notin marked
    /\ heap[Top.n].k = "Leaf"
    /\ marked' = marked \cup {Top.n}
    /\ cache' = [cache EXCEPT ![obj] = Insert(heap, @, Top.n)]
    /\ ReturnValue(Top.n)
    /\ UNCHANGED <<heap, tainted, obj, input, trusted, calls>>

ApplyEnterApp ==
    /\ stack # <<>> /\ Top.st = "enter"
    /\ Find(obj, Top.n) = {}
    /\ Top.n \notin marked
    /\ heap[Top.n].k = "App"
    /\ stack' = [stack EXCEPT ![Len(stack)].st = "kids"]
    /\ UNCHANGED <<heap, marked, cache, tainted, obj, input, result, trusted, calls>>

(* update_app calls apply on the next sub-term. *)
ApplyChild ==
    /\ stack # <<>> /\ Top.st = "kids"
    /\ Len(Top.res) < Len(heap[Top.n].args)
    /\ stack' = Append(stack, Frame(heap[Top.n].args[Len(Top.res) + 1]))
    /\ UNCHANGED <<heap, marked, cache, tainted, obj, input, result, trusted, calls>>

(* Seeded bug, caught by MaximalUnlessTrusted: update_app compares the new *)
(* sub-terms with == (structural) instead of is_eqp, and so keeps the node. *)
UpdateAppStructural(h, a, newArgs) ==
    IF \A i \in DOMAIN newArgs : StructEq(h, newArgs[i], h[a].args[i])
    THEN [h |-> h, id |-> a]
    ELSE [h |-> Append(h, [h[a] EXCEPT !.args = newArgs]), id |-> Len(h) + 1]

(* update_app: the node itself if every new sub-term is pointer-equal to   *)
(* the old one, otherwise a new node.  Returns [h, id].                    *)
UpdateApp(h, a, newArgs) ==
    IF newArgs = h[a].args THEN [h |-> h, id |-> a]
    ELSE [h |-> Append(h, [h[a] EXCEPT !.args = newArgs]), id |-> Len(h) + 1]

(* Seeded bug, caught by TypeOK: the node is rebuilt one sub-term early. *)
ApplyExitEarly ==
    /\ stack # <<>> /\ Top.st = "kids"
    /\ Len(Top.res) = Len(heap[Top.n].args) - 1
    /\ LET u == UpdateApp(heap, Top.n, Top.res)
       IN /\ heap' = u.h
          /\ marked' = marked \cup {u.id}
          /\ cache' = [cache EXCEPT ![obj] = Insert(u.h, @, u.id)]
          /\ ReturnValue(u.id)
    /\ UNCHANGED <<tainted, obj, input, trusted, calls>>

(* Lines 66-68 and 88-89: the updated node is marked and cached. *)
ApplyExit ==
    /\ stack # <<>> /\ Top.st = "kids"
    /\ Len(Top.res) = Len(heap[Top.n].args)
    /\ LET u == UpdateApp(heap, Top.n, Top.res)
       IN /\ heap' = u.h
          /\ marked' = marked \cup {u.id}
          /\ cache' = [cache EXCEPT ![obj] = Insert(u.h, @, u.id)]
          /\ ReturnValue(u.id)
    /\ UNCHANGED <<tainted, obj, input, trusted, calls>>

(* check_system throws at the entry of apply: the whole call is abandoned, *)
(* what it cached and marked stays.                                        *)
Interrupt ==
    /\ stack # <<>> /\ Top.st = "enter"
    /\ stack' = <<>>
    /\ result' = 0
    /\ UNCHANGED <<heap, marked, cache, tainted, obj, input, trusted, calls>>

-----------------------------------------------------------------------------
(* The clients. *)

Idle == stack = <<>>

(* max_sharing_fn::operator() on object o. *)
CallFn(o, a) ==
    /\ Idle /\ calls < MaxCalls
    /\ stack' = <<Frame(a)>>
    /\ obj' = o /\ input' = a /\ result' = 0
    /\ trusted' = tainted[o]
    /\ calls' = calls + 1
    /\ UNCHANGED <<heap, marked, cache, tainted>>

(* The max_sharing function, lines 99-104: a marked node is returned as    *)
(* it is, any other node goes through a fresh imp object.                  *)
MaxSharingFree(a) ==
    /\ Idle /\ calls < MaxCalls
    /\ obj' = Tmp /\ input' = a /\ calls' = calls + 1
    /\ IF a \in marked
       THEN /\ result' = a /\ trusted' = TRUE
            /\ UNCHANGED <<stack, cache, tainted>>
       ELSE /\ stack' = <<Frame(a)>> /\ result' = 0 /\ trusted' = FALSE
            /\ cache' = [cache EXCEPT ![Tmp] = {}]
            /\ tainted' = [tainted EXCEPT ![Tmp] = FALSE]
    /\ UNCHANGED <<heap, marked>>

(* max_sharing_fn::clear, line 97. *)
Clear(o) ==
    /\ Idle
    /\ cache' = [cache EXCEPT ![o] = {}]
    /\ tainted' = [tainted EXCEPT ![o] = FALSE]
    /\ UNCHANGED <<heap, marked, stack, obj, input, result, trusted, calls>>

(* mk_app by a client: a fresh, unmarked node. *)
MkApp(x, y) ==
    /\ Idle /\ Len(heap) < MaxNodes
    /\ heap' = Append(heap, AppN(<<x, y>>))
    /\ UNCHANGED <<marked, cache, tainted, stack, obj, input, result, trusted, calls>>

Init ==
    /\ heap = InitHeap
    /\ marked = {}
    /\ cache = [o \in AllObjs |-> {}]
    /\ tainted = [o \in AllObjs |-> FALSE]
    /\ stack = <<>>
    /\ obj = Tmp /\ input = 0 /\ result = 0 /\ trusted = FALSE
    /\ calls = 0

Next ==
    \/ ApplyCacheHit \/ ApplyMaxShared \/ ApplyLeaf \/ ApplyEnterApp
    \/ ApplyChild \/ ApplyExit \/ Interrupt
    \/ \E o \in Objs, a \in Ids(heap) : CallFn(o, a)
    \/ \E a \in Ids(heap) : MaxSharingFree(a)
    \/ \E o \in Objs : Clear(o)
    \/ \E x, y \in Ids(heap) : MkApp(x, y)

Spec == Init /\ [][Next]_vars

(* The steps of a running apply.  The traversal runs on the caller's     *)
(* thread and never waits, so a possible step is taken; check_system's   *)
(* throw and the clients' calls are not required to happen.               *)
Step ==
    \/ ApplyCacheHit \/ ApplyMaxShared \/ ApplyLeaf \/ ApplyEnterApp
    \/ ApplyChild \/ ApplyExit

FairSpec == Spec /\ WF_vars(Step)

-----------------------------------------------------------------------------
(* Properties. *)

Done == Idle /\ result # 0

TypeOK ==
    /\ \A i \in Ids(heap) :
          \/ heap[i].k = "Leaf" /\ heap[i].label \in Labels
          \/ heap[i].k = "App" /\ Len(heap[i].args) = 2
             /\ \A j \in 1..2 : heap[i].args[j] \in 1..i - 1
    /\ marked \subseteq Ids(heap)
    /\ cache \in [AllObjs -> SUBSET Ids(heap)]
    /\ tainted \in [AllObjs -> BOOLEAN]
    /\ \A j \in DOMAIN stack : stack[j].n \in Ids(heap) /\ stack[j].st \in {"enter", "kids"}
    /\ obj \in AllObjs /\ input \in Ids(heap) \cup {0} /\ result \in Ids(heap) \cup {0}
    /\ calls \in 0..MaxCalls


MSSpec == INSTANCE MaxSharingSpec WITH busy <- ~Idle

(* max_sharing_fn and max_sharing implement the promise of section 4.1:  *)
(* every call, also one served from a cache left by earlier, interrupted *)
(* or cleared calls, returns a node structurally equal to its argument,  *)
(* the heap only gains new nodes over older ones, and a call that is not *)
(* interrupted returns.                                                    *)
ImplementsMaxSharingSpec == MSSpec!AbsSpec

(* A call whose object never took a node on trust of its max_shared bit   *)
(* (lines 43-46) since its last clear() returns a maximally shared term,  *)
(* also after interrupted calls left part of a traversal in the cache.    *)
MaximalUnlessTrusted == (Done /\ ~trusted) => IsMaximallyShared(heap, result)

(* Spec section 4.1: the result of max_sharing has the smallest possible  *)
(* number of distinct nodes.  Checked against the early returns on the    *)
(* max_shared bit at lines 43-46 and 100-101.                              *)
ResultIsMaximal == Done => IsMaximallyShared(heap, result)

=============================================================================
