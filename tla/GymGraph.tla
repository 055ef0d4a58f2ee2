------------------------------ MODULE GymGraph ------------------------------
(***************************************************************************)
(* The node graph of the gym editor: the operations of its store, and the  *)
(* two algorithms the Python generator is built on, the traversal of the   *)
(* execution flow and the recursive emission of branches.                  *)
(*                                                                         *)
(* A graph is a record of its nodes, its edges and the conditions of its   *)
(* routers.  The kind of a node is fixed by its id, as in the store, where *)
(* the id is made from the type.  What is left out: positions, labels, and *)
(* the order of nodes and edges, which only orders the emitted lines.      *)
(***************************************************************************)
EXTENDS Naturals, Sequences, FiniteSets, SequencesExt

CONSTANTS NodeIds,      \* ids a node can have
          KindOf,       \* the type of the node with that id
          Conditions    \* ids of router conditions

Kinds == {"OnReset", "OnStep", "HttpsRequest", "RouterSwitch", "Other",
          "ReturnReset", "ReturnStep"}

ASSUME GraphAssumption == /\ IsFiniteSet(NodeIds)
                          /\ KindOf \in [NodeIds -> Kinds]

Handles == {"exec-out", "success-out", "error-out"} \cup Conditions

Edges == [source : NodeIds, handle : Handles, target : NodeIds]

Graphs == [nodes : SUBSET NodeIds, edges : SUBSET Edges,
           conditions : [NodeIds -> SUBSET Conditions]]

EmptyGraph == [nodes |-> {}, edges |-> {}, conditions |-> [n \in NodeIds |-> {}]]

----------------------------------------------------------------------------
(* The store *)

AddNode(g, n) == [g EXCEPT !.nodes = @ \cup {n}, !.conditions[n] = {}]

RemoveNode(g, n) ==
  [g EXCEPT !.nodes = @ \ {n},
            !.edges = {e \in @ : e.source # n /\ e.target # n}]

\* Any two handles may be joined, and an edge is added only once.
Connect(g, e) == [g EXCEPT !.edges = @ \cup {e}]

AddRouterCondition(g, n, c) ==
  IF KindOf[n] = "RouterSwitch" THEN [g EXCEPT !.conditions[n] = @ \cup {c}] ELSE g

\* The edges that leave from the removed condition stay in the graph.
RemoveRouterCondition(g, n, c) ==
  IF KindOf[n] = "RouterSwitch" THEN [g EXCEPT !.conditions[n] = @ \ {c}] ELSE g

----------------------------------------------------------------------------
(* Traversal *)

Targets(g, n) == {e.target : e \in {f \in g.edges : f.source = n}}

\* Mutant: only the first edge of a node is followed.
TraverseFirstEdge(g, root) ==
  LET step[k \in 0 .. Cardinality(NodeIds)] ==
        IF k = 0 THEN root
        ELSE IF Targets(g, step[k - 1]) = {} THEN step[k - 1]
             ELSE CHOOSE m \in Targets(g, step[k - 1]) : TRUE
  IN SetToSeq({step[k] : k \in 0 .. Cardinality(NodeIds)} \cap g.nodes)

(* Breadth first from root: a queue, a visited set, and the nodes in the   *)
(* order they are met.  A node is taken from the queue at most once for    *)
(* each edge and once as the root.                                         *)
Traverse(g, root) ==
  LET Search == [queue : Seq(NodeIds), visited : SUBSET NodeIds, ordered : Seq(NodeIds)]
      search[s \in Search] ==
        IF s.queue = << >> THEN s.ordered
        ELSE LET current == Head(s.queue)
             IN search[IF current \in s.visited
                       THEN [s EXCEPT !.queue = Tail(@)]
                       ELSE [queue   |-> Tail(s.queue) \o SetToSeq(Targets(g, current)),
                             visited |-> s.visited \cup {current},
                             ordered |-> IF current \in g.nodes
                                         THEN Append(s.ordered, current) ELSE s.ordered]]
  IN search[[queue |-> <<root>>, visited |-> {}, ordered |-> << >>]]

\* Mutant: a branch holds the nodes its edges lead to, and nothing behind them.
DownstreamTargets(g, n, handle) ==
  {e.target : e \in {f \in g.edges : f.source = n /\ f.handle = handle}} \cap g.nodes

\* Everything behind a handle of a node: what is emitted inside that branch.
Downstream(g, n, handle) ==
  UNION {Range(Traverse(g, e.target)) :
           e \in {f \in g.edges : f.source = n /\ f.handle = handle}}

----------------------------------------------------------------------------
(* Generation *)

BranchHandles(g, n) ==
  CASE KindOf[n] = "HttpsRequest" -> {"success-out", "error-out"}
    [] KindOf[n] = "RouterSwitch" -> g.conditions[n]
    [] OTHER -> {}

\* The nodes that emitting n emits in turn, by calls of the same function.
Emits(g, n) == UNION {Downstream(g, n, h) : h \in BranchHandles(g, n)}

\* What follows the entry node of a kind, the entry itself left out.
Flow(g, kind) ==
  LET entries == {n \in g.nodes : KindOf[n] = kind}
  IN IF entries = {} THEN {} ELSE Range(Tail(Traverse(g, CHOOSE n \in entries : TRUE)))

(* The nodes generatePython emits at the top level of reset and of step.   *)
TopLevel(g) ==
  {n \in Flow(g, "OnReset") : KindOf[n] \notin {"ReturnReset", "RouterSwitch"}}
    \cup {n \in Flow(g, "OnStep") : KindOf[n] # "ReturnStep"}

(* The recursion over branches has no visited set: it ends unless a node   *)
(* that is emitted lies behind one of its own branches, and otherwise      *)
(* exhausts the stack, so that generatePython throws.                      *)
Throws(g) == \E n \in TopLevel(g) \cup UNION {Emits(g, m) : m \in TopLevel(g)} :
               n \in Emits(g, n)

\* The nodes emitted at each depth of the recursion.
EmittedAt(g) ==
  LET at[d \in 0 .. Cardinality(NodeIds)] ==
        IF d = 0 THEN TopLevel(g) ELSE UNION {Emits(g, n) : n \in at[d - 1]}
  IN at

----------------------------------------------------------------------------
(* Reference definitions *)

\* Nodes reachable along edges in at most as many steps as there are nodes.
Reachable(g, root) ==
  LET near[k \in 0 .. Cardinality(NodeIds)] ==
        IF k = 0 THEN {root}
        ELSE near[k - 1] \cup UNION {Targets(g, n) : n \in near[k - 1]}
  IN near[Cardinality(NodeIds)]

(* The traversal meets every reachable node exactly once, whatever cycles  *)
(* and shared branches the canvas lets the user draw: traverseExecFlow.    *)
VisitsReachable(g) ==
  \A root \in g.nodes : /\ Range(Traverse(g, root)) = Reachable(g, root) \cap g.nodes
                        /\ IsInjective(Traverse(g, root))

(* Generation fails exactly when its recursion has no depth bound: the     *)
(* calls of emitNodeSnippet reach a depth beyond the number of nodes.      *)
ThrowsIffUnbounded(g) == Throws(g) <=> EmittedAt(g)[Cardinality(NodeIds)] # {}
=============================================================================
