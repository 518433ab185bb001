---------------------------- MODULE RegAlloc_proofs ----------------------------
(***************************************************************************)
(* Proofs about RegAlloc: for every graph, every number of registers and   *)
(* every order in which nodes are simplified, merged, frozen and spilled,  *)
(* values that conflict get different registers, a register always         *)
(* remains for the next value, and each step leaves less to do.            *)
(***************************************************************************)
EXTENDS RegAlloc, FiniteSetTheorems, FunctionTheorems, WellFoundedInduction, TLAPS

-----------------------------------------------------------------------------
(* The inductive invariant. *)

Todo    == original.nodes \ Spilled
Removed == {removed[i] : i \in DOMAIN removed}
Early   == alloc \in {"idle", "simplify", "coalesce", "freeze"}
Late    == alloc \in {"colour", "done"}

\* The nodes that stand for themselves and what was merged into them.
Heads == graph.nodes \cup Removed \cup original.spots

\* What is left of the graph is a graph of values that are not spilled.
GraphOK ==
  /\ Symmetric(original, original.conf) /\ Symmetric(original, original.pref)
  /\ Symmetric(graph, graph.conf) /\ Symmetric(graph, graph.pref)
  /\ graph.spots = original.spots /\ graph.nodes \subseteq Todo

StackOK ==
  /\ graph.nodes \cap Removed = {}
  /\ \A i, j \in DOMAIN removed : removed[i] = removed[j] => i = j

\* Nodes that were merged do not conflict, and belong to one head.
GroupsOK ==
  /\ \A n \in Node : n \in members[n]
  /\ \A h \in Node : \A m, n \in members[h] : n \notin original.conf[m]
  /\ \A g, h \in Heads : g # h => members[g] \cap members[h] = {}

\* Conflicts of merged nodes are conflicts of their heads in the graph.
Faithful ==
  \A g, h \in AllNodes(graph) : \A m \in members[g], n \in members[h] :
    g # h /\ n \in original.conf[m] => h \in graph.conf[g]

\* Every value is in the group of a head, or has a register.
Waiting == graph.nodes \cup Removed \cup (IF Early THEN original.spots ELSE {})
Covered == \A n \in Todo : n \in DOMAIN spotmap \/ \E h \in Waiting : n \in members[h]

\* The registers given out so far are right.
Proper ==
  /\ Early => spotmap = <<>>
  /\ Late => /\ graph.nodes = {}
             /\ \A s \in original.spots : s \in DOMAIN spotmap /\ spotmap[s] = s
             /\ \A m, n \in DOMAIN spotmap : n \in original.conf[m] => spotmap[m] # spotmap[n]
  /\ alloc = "done" => removed = <<>>

\* What a value on the stack has to differ from when its turn comes: the
\* heads above it and in the graph that it conflicts with, and in the end
\* their registers.  There are less of them than registers from the moment
\* the value is removed from the graph.
Above(i) == {removed[j] : j \in i + 1 .. Len(removed)}
Ahead(i) == graph.nodes \cup Above(i) \cup (IF Early THEN original.spots ELSE {})
Blocking(i) ==
  {h \in Ahead(i) : Conflicts(removed[i]) \cap members[h] # {}}
  \cup {spotmap[n] : n \in Conflicts(removed[i]) \cap DOMAIN spotmap}
FewBlocking == \A i \in DOMAIN removed : Cardinality(Blocking(i)) < K

IInv ==
  /\ TypeOK /\ GraphOK /\ StackOK /\ GroupsOK /\ Faithful /\ Covered /\ Proper
  /\ FewBlocking /\ RegisterRemains

-----------------------------------------------------------------------------
(* Facts about the constants, and about numbers and finite sets. *)

\* The nodes are finitely many, and there are as many registers as places
\* in the list.
LEMMA NodeFacts ==
  /\ K \in Nat /\ DOMAIN Registers = 1 .. K
  /\ IsFiniteSet(Reg) /\ Cardinality(Reg) = K
  /\ IsFiniteSet(Node) /\ Value \cap Reg = {} /\ IsFiniteSet(Value)
<1>1. K \in Nat /\ DOMAIN Registers = 1 .. K /\ Registers \in [1 .. K -> Reg]
  BY RegistersAssumption DEF K
<1>2. Registers \in Bijection(1 .. K, Reg)
  BY <1>1, RegistersAssumption, Fun_IsBij DEF Reg
<1>3. IsFiniteSet(1 .. K) /\ Cardinality(1 .. K) = K
  BY <1>1, FS_Interval
<1>4. IsFiniteSet(Reg) /\ Cardinality(Reg) = K
  BY <1>2, <1>3, FS_Bijection DEF ExistsBijection
<1> QED
  BY <1>1, <1>4, RegistersAssumption, FS_Union DEF Node

\* A set of nodes does not grow when one of them takes the place of another.
LEMMA Renamed ==
  ASSUME NEW S \in SUBSET Node, NEW T \in SUBSET Node, NEW a, NEW b,
         T \subseteq (S \ {a}) \cup {b}, a \in S \/ T \subseteq S
  PROVE  Cardinality(T) <= Cardinality(S)
<1>1. IsFiniteSet(S) /\ Cardinality(S) \in Nat
  BY NodeFacts, FS_Subset, FS_CardinalityType
<1>2. CASE T \subseteq S
  BY <1>1, <1>2, FS_Subset
<1>3. CASE a \in S
  <2>1. IsFiniteSet(S \ {a}) /\ Cardinality(S \ {a}) = Cardinality(S) - 1
    BY <1>1, <1>3, FS_RemoveElement
  <2>2. /\ IsFiniteSet((S \ {a}) \cup {b})
        /\ Cardinality((S \ {a}) \cup {b}) <= Cardinality(S)
    BY <1>1, <2>1, FS_AddElement
  <2>3. Cardinality(T) <= Cardinality((S \ {a}) \cup {b})
    BY <2>2, FS_Subset
  <2>4. Cardinality(T) \in Nat /\ Cardinality((S \ {a}) \cup {b}) \in Nat
    BY <2>2, FS_Subset, FS_CardinalityType
  <2> QED
    BY <1>1, <2>2, <2>3, <2>4
<1> QED
  BY <1>2, <1>3

\* A set of naturals has a least element.
LEMMA LeastNatural ==
  ASSUME NEW S \in SUBSET Nat, S # {}
  PROVE  \E i \in S : \A j \in S : i <= j
<1> DEFINE R == {ss \in Nat \X Nat : ss[1] < ss[2]}
<1>1. IsWellFoundedOn(R, Nat)
  BY NatLessThanWellFounded DEF OpToRel
<1> HIDE DEF R
<1>2. PICK i \in S : \A j \in S : ~ (<<j, i>> \in R)
  BY <1>1, WFMin
<1>3. ASSUME NEW j \in S PROVE i <= j
  <2>1. ~ (<<j, i>> \in R)
    BY <1>2
  <2>2. <<j, i>> \in Nat \X Nat /\ <<j, i>>[1] = j /\ <<j, i>>[2] = i
    OBVIOUS
  <2>3. ~ (j < i)
    BY <2>1, <2>2 DEF R
  <2> QED
    BY <2>3
<1> QED
  BY <1>3

-----------------------------------------------------------------------------
(* What the operations on graphs do. *)

LEMMA WithoutFacts ==
  ASSUME NEW edges \in Edges, NEW v \in Node
  PROVE  /\ Without(edges, v) \in Edges
         /\ \A m, n \in Node : n \in Without(edges, v)[m] <=> m # v /\ n # v /\ n \in edges[m]
BY DEF Without, Edges

LEMMA PopFacts ==
  ASSUME NEW g \in Graphs, NEW v \in Value
  PROVE  /\ pop(g, v) \in Graphs
         /\ pop(g, v).nodes = g.nodes \ {v} /\ pop(g, v).spots = g.spots
         /\ pop(g, v).conf = Without(g.conf, v) /\ pop(g, v).pref = Without(g.pref, v)
<1>1. /\ g.nodes \subseteq Value /\ g.spots \subseteq Reg
      /\ g.conf \in Edges /\ g.pref \in Edges /\ v \in Node
  BY DEF Graphs, Node
<1>2. Without(g.conf, v) \in Edges /\ Without(g.pref, v) \in Edges
  BY <1>1, WithoutFacts
<1>3. g.spots \ {v} = g.spots
  BY <1>1, NodeFacts
<1> QED
  BY <1>1, <1>2, <1>3 DEF pop, Graphs

\* Edges without a direction, and none from a node to itself.
Undirected(edges) == \A m, n \in Node : n \in edges[m] => m \in edges[n] /\ m # n

\* After a merge two nodes are neighbours if they were, or if one of them is
\* the merged node and the other was a neighbour of what is merged into it.
LEMMA TakenFacts ==
  ASSUME NEW edges \in Edges, NEW n1 \in Node, NEW n2 \in Node, n1 # n2, Undirected(edges)
  PROVE  /\ Taken(edges, n1, n2) \in Edges
         /\ \A m, n \in Node :
              n \in Taken(edges, n1, n2)[m] <=>
                /\ m # n2 /\ n # n2 /\ m # n
                /\ \/ n \in edges[m]
                   \/ m = n1 /\ n \in edges[n2]
                   \/ n = n1 /\ m \in edges[n2]
<1> DEFINE both == (edges[n1] \cup edges[n2]) \ {n1, n2}
           new == Taken(edges, n1, n2)
<1>1. new \in Edges
  BY DEF Taken, Edges
<1>2. new[n2] = {} /\ new[n1] = both
  BY DEF Taken
<1>3. \A m \in Node : m # n1 /\ m # n2 =>
        new[m] = IF m \in both THEN (edges[m] \ {n2}) \cup {n1} ELSE edges[m]
  BY DEF Taken
<1> HIDE DEF new
<1>4. ASSUME NEW m \in Node, NEW n \in Node
      PROVE  n \in new[m] <=>
                /\ m # n2 /\ n # n2 /\ m # n
                /\ \/ n \in edges[m]
                   \/ m = n1 /\ n \in edges[n2]
                   \/ n = n1 /\ m \in edges[n2]
  <2>1. CASE m = n2
    BY <1>2, <2>1
  <2>2. CASE m = n1
    BY <1>2, <2>2 DEF Undirected
  <2>3. CASE m # n1 /\ m # n2 /\ m \in both
    <3>1. new[m] = (edges[m] \ {n2}) \cup {n1}
      BY <1>3, <2>3
    <3>2. m \in edges[n1] \/ m \in edges[n2]
      BY <2>3
    <3>3. CASE n = n1
      BY <2>3, <3>1, <3>2, <3>3 DEF Undirected
    <3>4. CASE n # n1
      BY <2>3, <3>1, <3>4 DEF Undirected
    <3> QED
      BY <3>3, <3>4
  <2>4. CASE m # n1 /\ m # n2 /\ m \notin both
    BY <1>3, <2>4 DEF Undirected
  <2> QED
    BY <2>1, <2>2, <2>3, <2>4
<1> QED
  BY <1>1, <1>4 DEF new

LEMMA MergeFacts ==
  ASSUME NEW g \in Graphs, NEW n1 \in Node, NEW n2 \in Value, n1 # n2,
         Undirected(g.conf), Undirected(g.pref)
  PROVE  /\ merge(g, n1, n2) \in Graphs
         /\ merge(g, n1, n2).nodes = g.nodes \ {n2} /\ merge(g, n1, n2).spots = g.spots
         /\ merge(g, n1, n2).conf = Taken(g.conf, n1, n2)
         /\ merge(g, n1, n2).pref = Taken(g.pref, n1, n2)
<1>1. /\ g.nodes \subseteq Value /\ g.spots \subseteq Reg
      /\ g.conf \in Edges /\ g.pref \in Edges /\ n2 \in Node
  BY DEF Graphs, Node
<1>2. Taken(g.conf, n1, n2) \in Edges /\ Taken(g.pref, n1, n2) \in Edges
  BY <1>1, TakenFacts
<1> QED
  BY <1>1, <1>2 DEF merge, Graphs

\* Taking a node out, and merging one into another, keeps edges symmetric.
LEMMA SymmetricWithout ==
  ASSUME NEW g \in Graphs, NEW h \in Graphs, NEW edges \in Edges, NEW v \in Value,
         Symmetric(g, edges), h.nodes = g.nodes \ {v}, h.spots = g.spots
  PROVE  Symmetric(h, Without(edges, v))
<1>1. v \in Node
  BY DEF Node
<1>2. \A m, n \in Node : n \in Without(edges, v)[m] <=> m # v /\ n # v /\ n \in edges[m]
  BY <1>1, WithoutFacts
<1> QED
  BY <1>2 DEF Symmetric, AllNodes

LEMMA SymmetricTaken ==
  ASSUME NEW g \in Graphs, NEW h \in Graphs, NEW edges \in Edges, NEW n1 \in Node, NEW n2 \in Value,
         Symmetric(g, edges), h.nodes = g.nodes \ {n2}, h.spots = g.spots,
         n1 # n2, n1 \in AllNodes(g)
  PROVE  Symmetric(h, Taken(edges, n1, n2))
<1>1. n2 \in Node /\ n2 \notin g.spots /\ Undirected(edges)
  BY NodeFacts DEF Node, Graphs, Symmetric, Undirected
<1>2. \A m, n \in Node :
        n \in Taken(edges, n1, n2)[m] <=>
          /\ m # n2 /\ n # n2 /\ m # n
          /\ \/ n \in edges[m]
             \/ m = n1 /\ n \in edges[n2]
             \/ n = n1 /\ m \in edges[n2]
  BY <1>1, TakenFacts
<1> QED
  BY <1>1, <1>2 DEF Symmetric, AllNodes
-----------------------------------------------------------------------------
(* The invariant holds in the beginning, and every action keeps it. *)

LEMMA InitIInv == Init => IInv
<1> SUFFICES ASSUME Init PROVE IInv
  OBVIOUS
<1>1. NoEdges \in Edges /\ \A n \in Node : NoEdges[n] = {}
  BY DEF NoEdges, Edges
<1>2. original \in Graphs /\ graph = original
  BY <1>1 DEF Init, Graphs
<1>3. TypeOK
  <2>1. Alone \in [Node -> SUBSET Node]
    BY DEF Alone
  <2>2. spotmap = <<>> /\ DOMAIN spotmap = {}
    BY DEF Init
  <2>3. spilled \in Seq(Value) /\ removed \in Seq(Value)
    BY DEF Init
  <2> QED
    BY <1>2, <2>1, <2>2, <2>3 DEF Init, TypeOK, Phases
<1>4. GraphOK
  BY <1>1 DEF Init, GraphOK, Symmetric, Todo
<1>5. StackOK /\ GroupsOK
  BY <1>1 DEF Init, StackOK, GroupsOK, Heads, Removed, Alone
<1>6. Faithful /\ Covered /\ Proper
  BY DEF Init, Faithful, AllNodes, Covered, Todo, Proper, Early, Late
<1>7. FewBlocking /\ RegisterRemains
  BY DEF Init, FewBlocking, RegisterRemains
<1> QED
  BY <1>3, <1>4, <1>5, <1>6, <1>7 DEF IInv

\* Nothing moves but the loop, and perhaps preferences.
LEMMA UnmovedIInv ==
  ASSUME IInv, Early, Early', alloc' \in Phases, changed' \in BOOLEAN,
         UNCHANGED <<original, spilled, removed, members, spotmap>>,
         graph' \in Graphs, graph'.nodes = graph.nodes, graph'.spots = graph.spots,
         graph'.conf = graph.conf, Symmetric(graph', graph'.pref)
  PROVE  IInv'
<1> USE DEF IInv
<1>1. TypeOK'
  BY DEF TypeOK
<1>2. GraphOK'
  BY DEF GraphOK, Symmetric, AllNodes, Todo, Spilled
<1>3. StackOK' /\ GroupsOK'
  BY DEF StackOK, GroupsOK, Heads, Removed
<1>4. Faithful'
  BY DEF Faithful, AllNodes
<1>5. Covered' /\ Proper'
  BY DEF Covered, Todo, Spilled, Waiting, Removed, Proper, Early, Late
<1>6. FewBlocking'
  <2>1. \A i \in DOMAIN removed : Blocking(i)' = Blocking(i)
    BY DEF Blocking, Ahead, Above, Conflicts
  <2> QED
    BY <2>1 DEF FewBlocking
<1>7. RegisterRemains'
  BY DEF RegisterRemains, Early
<1> QED
  BY <1>1, <1>2, <1>3, <1>4, <1>5, <1>6, <1>7

LEMMA SimplifyOneIInv ==
  ASSUME IInv, NEW v \in Value, SimplifyOne(v)
  PROVE  IInv'
<1> USE DEF IInv
<1>1. /\ v \in graph.nodes /\ Cardinality(graph.conf[v]) < K
      /\ removed' = Append(removed, v)
      /\ alloc = "simplify" /\ alloc' = "simplify" /\ changed' = TRUE
      /\ UNCHANGED <<original, spilled, members, spotmap>>
  BY DEF SimplifyOne, Simplifiable, Degree
<1>2. /\ graph \in Graphs /\ original \in Graphs /\ graph.conf \in Edges /\ graph.pref \in Edges
      /\ graph.nodes \subseteq Value /\ graph.spots \subseteq Reg /\ graph.spots = original.spots
      /\ v \in Node /\ v \notin original.spots
  BY NodeFacts DEF TypeOK, GraphOK, Graphs, Node
<1>3. /\ graph' \in Graphs /\ graph'.nodes = graph.nodes \ {v} /\ graph'.spots = graph.spots
      /\ graph'.conf = Without(graph.conf, v) /\ graph'.pref = Without(graph.pref, v)
  BY <1>2, PopFacts DEF SimplifyOne
<1>4. /\ removed' \in Seq(Value) /\ Len(removed') = Len(removed) + 1
      /\ DOMAIN removed = 1 .. Len(removed) /\ Len(removed) \in Nat
      /\ DOMAIN removed' = 1 .. Len(removed) + 1
      /\ \A j \in 1 .. Len(removed) : removed'[j] = removed[j]
      /\ removed'[Len(removed) + 1] = v
  BY <1>1 DEF TypeOK
<1>5. Removed' = Removed \cup {v}
  BY <1>4 DEF Removed
<1>6. \A m, n \in Node : n \in graph'.conf[m] <=> m # v /\ n # v /\ n \in graph.conf[m]
  BY <1>2, <1>3, WithoutFacts
<1>7. TypeOK'
  BY <1>1, <1>3, <1>4 DEF TypeOK
<1>8. GraphOK'
  <2>1. Symmetric(graph', graph'.conf) /\ Symmetric(graph', graph'.pref)
    BY <1>2, <1>3, SymmetricWithout DEF GraphOK
  <2> QED
    BY <1>1, <1>3, <2>1 DEF GraphOK, Todo, Spilled
<1>9. StackOK'
  <2>1. v \notin Removed
    BY <1>1 DEF StackOK
  <2>2. \A i, j \in DOMAIN removed' : removed'[i] = removed'[j] => i = j
    BY <1>4, <2>1 DEF StackOK, Removed
  <2> QED
    BY <1>3, <1>5, <2>2 DEF StackOK
<1>10. GroupsOK'
  <2>1. Heads' = Heads
    BY <1>1, <1>3, <1>5 DEF Heads
  <2> QED
    BY <1>1, <2>1 DEF GroupsOK
<1>11. Faithful'
  <2>1. AllNodes(graph') = AllNodes(graph) \ {v} /\ AllNodes(graph) \subseteq Node
    BY <1>2, <1>3 DEF AllNodes, Node
  <2> QED
    BY <1>1, <1>6, <2>1 DEF Faithful
<1>12. Covered' /\ Proper'
  <2>1. Waiting' = Waiting
    BY <1>1, <1>3, <1>5 DEF Waiting, Early
  <2> QED
    BY <1>1, <2>1 DEF Covered, Todo, Spilled, Proper, Early, Late
<1>13. FewBlocking'
  <2>1. ASSUME NEW i \in 1 .. Len(removed) PROVE Blocking(i)' = Blocking(i)
    <3>1. Above(i)' = Above(i) \cup {v}
      BY <1>4 DEF Above
    <3>2. Ahead(i)' = Ahead(i)
      BY <1>1, <1>3, <3>1 DEF Ahead, Early
    <3>3. removed'[i] = removed[i]
      BY <1>4
    <3> QED
      BY <1>1, <3>2, <3>3 DEF Blocking, Conflicts
  <2>2. ASSUME NEW i \in Nat, i = Len(removed) + 1 PROVE Cardinality(Blocking(i)') < K
    <3>1. Above(i)' = {} /\ removed'[i] = v
      BY <1>4, <2>2 DEF Above
    <3>2. Ahead(i)' = graph'.nodes \cup original.spots
      BY <1>1, <3>1 DEF Ahead, Early
    <3>3. Conflicts(removed[i])' = UNION {original.conf[m] : m \in members[v]}
      BY <1>1, <3>1 DEF Conflicts
    <3>4. DOMAIN spotmap' = {}
      BY <1>1 DEF Proper, Early
    <3>5. ASSUME NEW h \in Blocking(i)'
          PROVE  h \in graph.conf[v]
      <4>1. h \in graph'.nodes \cup original.spots /\ Conflicts(removed[i])' \cap members[h] # {}
        BY <1>1, <3>2, <3>4 DEF Blocking
      <4>2. h \in AllNodes(graph) /\ v \in AllNodes(graph) /\ h # v
        BY <1>1, <1>2, <1>3, <4>1 DEF AllNodes
      <4>3. PICK m \in members[v], n \in members[h] : n \in original.conf[m]
        BY <3>3, <4>1
      <4> QED
        BY <4>2, <4>3 DEF Faithful
    <3>6. IsFiniteSet(graph.conf[v]) /\ Cardinality(graph.conf[v]) \in Nat
      BY <1>2, NodeFacts, FS_Subset, FS_CardinalityType DEF Edges
    <3>7. Cardinality(Blocking(i)') <= Cardinality(graph.conf[v]) /\ Cardinality(Blocking(i)') \in Nat
      BY <3>5, <3>6, FS_Subset, FS_CardinalityType
    <3> QED
      BY <1>1, <3>6, <3>7, NodeFacts
  <2> QED
    BY <1>4, <2>1, <2>2 DEF FewBlocking
<1>14. RegisterRemains'
  BY <1>1 DEF RegisterRemains
<1> QED
  BY <1>7, <1>8, <1>9, <1>10, <1>11, <1>12, <1>13, <1>14
\* Two nodes of the graph that do not conflict become one.
LEMMA MergeIInv ==
  ASSUME IInv, NEW into \in AllNodes(graph), NEW from \in graph.nodes,
         into # from, into \notin graph.conf[from], Merge(into, from),
         alloc = "coalesce", alloc' = alloc, changed' = TRUE,
         UNCHANGED <<original, spilled, removed, spotmap>>
  PROVE  IInv'
<1> USE DEF IInv
<1>1. /\ graph \in Graphs /\ original \in Graphs /\ graph.conf \in Edges /\ graph.pref \in Edges
      /\ graph.nodes \subseteq Value /\ graph.spots \subseteq Reg /\ graph.spots = original.spots
      /\ from \in Value /\ from \in Node /\ into \in Node /\ from \notin original.spots
      /\ AllNodes(graph) \subseteq Node
  BY NodeFacts DEF TypeOK, GraphOK, Graphs, Node, AllNodes
<1>2. Undirected(graph.conf) /\ Undirected(graph.pref)
  BY DEF GraphOK, Symmetric, Undirected
<1>3. /\ graph' \in Graphs /\ graph'.nodes = graph.nodes \ {from} /\ graph'.spots = graph.spots
      /\ graph'.conf = Taken(graph.conf, into, from) /\ graph'.pref = Taken(graph.pref, into, from)
  BY <1>1, <1>2, MergeFacts DEF Merge
<1>4. \A m, n \in Node :
        n \in graph'.conf[m] <=>
          /\ m # from /\ n # from /\ m # n
          /\ \/ n \in graph.conf[m]
             \/ m = into /\ n \in graph.conf[from]
             \/ n = into /\ m \in graph.conf[from]
  BY <1>1, <1>2, <1>3, TakenFacts
<1>5. /\ members \in [Node -> SUBSET Node] /\ members' \in [Node -> SUBSET Node]
      /\ members'[into] = members[into] \cup members[from]
      /\ \A h \in Node : h # into => members'[h] = members[h]
  BY <1>1 DEF Merge, TypeOK
<1>6. AllNodes(graph') = AllNodes(graph) \ {from}
  BY <1>1, <1>3 DEF AllNodes
<1>7. /\ Removed' = Removed /\ Removed \subseteq Value
      /\ from \notin Removed /\ into \notin Removed
  BY <1>1, NodeFacts DEF Removed, StackOK, TypeOK, AllNodes
<1>8. \A m, n \in Node : n \in original.conf[m] => m \in original.conf[n]
  BY DEF GraphOK, Symmetric
<1>9. from \notin graph.conf[into]
  BY <1>1, <1>2 DEF Undirected
<1>10. TypeOK'
  BY <1>3, <1>5 DEF TypeOK, Phases
<1>11. GraphOK'
  <2>1. Symmetric(graph', graph'.conf) /\ Symmetric(graph', graph'.pref)
    BY <1>1, <1>3, SymmetricTaken DEF GraphOK
  <2> QED
    BY <1>3, <2>1 DEF GraphOK, Todo, Spilled
<1>12. StackOK'
  BY <1>3, <1>7 DEF StackOK
<1>13. \A m \in members[into], n \in members[from] :
         n \notin original.conf[m] /\ m \notin original.conf[n]
  <2>1. into \in AllNodes(graph) /\ from \in AllNodes(graph)
    BY DEF AllNodes
  <2> QED
    BY <1>9, <2>1 DEF Faithful
<1>14. GroupsOK'
  <2>1. \A n \in Node : n \in members'[n]
    BY <1>1, <1>5 DEF GroupsOK
  <2>2. ASSUME NEW h \in Node, NEW m \in members'[h], NEW n \in members'[h]
        PROVE  n \notin original.conf[m]
    <3>1. CASE h # into
      BY <1>5, <3>1 DEF GroupsOK
    <3>2. CASE h = into
      BY <1>1, <1>5, <1>13, <3>2 DEF GroupsOK
    <3> QED
      BY <3>1, <3>2
  <2>3. Heads' = Heads \ {from} /\ into \in Heads /\ from \in Heads
    BY <1>1, <1>3, <1>7 DEF Heads, AllNodes
  <2>4. Heads \subseteq Node
    BY <1>1, <1>7 DEF Heads, Node, AllNodes
  <2>5. ASSUME NEW g \in Heads', NEW h \in Heads', g # h
        PROVE  members'[g] \cap members'[h] = {}
    <3>1. \A x, y \in Heads : x # y => members[x] \cap members[y] = {}
      BY DEF GroupsOK
    <3>2. CASE g = into
      BY <1>5, <2>3, <2>4, <2>5, <3>1, <3>2
    <3>3. CASE h = into
      BY <1>5, <2>3, <2>4, <2>5, <3>1, <3>3
    <3>4. CASE g # into /\ h # into
      BY <1>5, <2>3, <2>4, <2>5, <3>1, <3>4
    <3> QED
      BY <3>2, <3>3, <3>4
  <2> QED
    BY <2>1, <2>2, <2>5 DEF GroupsOK
<1>15. Faithful'
  <2>1. SUFFICES ASSUME NEW g \in AllNodes(graph'), NEW h \in AllNodes(graph'),
                        NEW m \in members'[g], NEW n \in members'[h],
                        g # h, n \in original.conf[m]
                 PROVE  h \in graph'.conf[g]
    BY DEF Faithful
  <2>2. g \in AllNodes(graph) /\ h \in AllNodes(graph) /\ g # from /\ h # from
        /\ g \in Node /\ h \in Node /\ from \in AllNodes(graph)
    BY <1>1, <1>6 DEF AllNodes
  <2>3. CASE g # into /\ h # into
    BY <1>4, <1>5, <2>1, <2>2, <2>3 DEF Faithful
  <2>4. CASE g = into
    <3>1. m \in members[into] \/ m \in members[from]
      BY <1>5, <2>1, <2>4
    <3>2. n \in members[h]
      BY <1>5, <2>1, <2>2, <2>4
    <3>3. h \in graph.conf[into] \/ h \in graph.conf[from]
      BY <2>1, <2>2, <2>4, <3>1, <3>2 DEF Faithful
    <3> QED
      BY <1>4, <2>1, <2>2, <2>4, <3>3
  <2>5. CASE h = into
    <3>1. n \in members[into] \/ n \in members[from]
      BY <1>5, <2>1, <2>5
    <3>2. m \in members[g]
      BY <1>5, <2>1, <2>2, <2>5
    <3>3. into \in graph.conf[g] \/ from \in graph.conf[g]
      BY <2>1, <2>2, <2>5, <3>1, <3>2 DEF Faithful
    <3>4. into \in graph.conf[g] \/ g \in graph.conf[from]
      BY <1>1, <1>2, <2>2, <3>3 DEF Undirected
    <3> QED
      BY <1>4, <2>1, <2>2, <2>5, <3>4
  <2> QED
    BY <2>3, <2>4, <2>5
<1>16. Covered' /\ Proper'
  <2>1. Waiting' = Waiting \ {from} /\ into \in Waiting
    BY <1>1, <1>3, <1>7 DEF Waiting, Early, AllNodes
  <2>2. Waiting \subseteq Node
    BY <1>1, <1>7 DEF Waiting, Node, AllNodes
  <2>3. ASSUME NEW n \in Todo, NEW h \in Waiting, n \in members[h]
        PROVE  \E k \in Waiting' : n \in members'[k]
    <3>1. CASE h = from
      BY <1>5, <2>1, <2>3, <3>1
    <3>2. CASE h # from
      BY <1>5, <2>1, <2>2, <2>3, <3>2
    <3> QED
      BY <3>1, <3>2
  <2>4. Covered'
    BY <2>3 DEF Covered, Todo, Spilled
  <2> QED
    BY <2>4 DEF Proper, Early, Late
<1>17. FewBlocking'
  <2>1. ASSUME NEW i \in DOMAIN removed PROVE Cardinality(Blocking(i)') < K
    <3>1. removed[i] \in Removed
      BY DEF Removed
    <3>2. removed[i] \in Node /\ members'[removed[i]] = members[removed[i]]
      BY <1>5, <1>7, <3>1 DEF Node
    <3>3. Conflicts(removed[i])' = Conflicts(removed[i])
      BY <3>2 DEF Conflicts
    <3>4. Above(i)' = Above(i) /\ Above(i) \subseteq Removed
      BY DEF Above, Removed, TypeOK
    <3>5. Ahead(i)' = Ahead(i) \ {from} /\ into \in Ahead(i) /\ from \in Ahead(i)
          /\ Ahead(i) \subseteq Node
      BY <1>1, <1>3, <1>7, <3>4 DEF Ahead, Early, AllNodes, Node
    <3>6. DOMAIN spotmap = {} /\ DOMAIN spotmap' = {}
      BY DEF Proper, Early
    <3> DEFINE hits(h) == Conflicts(removed[i]) \cap members[h] # {}
    <3>7. Blocking(i) = {h \in Ahead(i) : hits(h)}
      BY <3>6 DEF Blocking
    <3>8. Blocking(i)' = {h \in Ahead(i) \ {from} : Conflicts(removed[i]) \cap members'[h] # {}}
      BY <3>3, <3>5, <3>6 DEF Blocking
    <3>9. Blocking(i)' \subseteq (Blocking(i) \ {from}) \cup {into}
      BY <1>5, <3>5, <3>7, <3>8
    <3>10. from \in Blocking(i) \/ Blocking(i)' \subseteq Blocking(i)
      BY <1>5, <3>5, <3>7, <3>8
    <3>11. Blocking(i) \subseteq Node /\ Blocking(i)' \subseteq Node
      BY <3>5, <3>7, <3>8
    <3>12. Cardinality(Blocking(i)') <= Cardinality(Blocking(i))
      BY <3>9, <3>10, <3>11, Renamed
    <3>13. Cardinality(Blocking(i)') \in Nat /\ Cardinality(Blocking(i)) \in Nat
      BY <3>11, NodeFacts, FS_Subset, FS_CardinalityType
    <3>14. Cardinality(Blocking(i)) < K
      BY DEF FewBlocking
    <3> QED
      BY <3>12, <3>13, <3>14, NodeFacts
  <2> QED
    BY <2>1 DEF FewBlocking
<1>18. RegisterRemains'
  BY DEF RegisterRemains
<1> QED
  BY <1>10, <1>11, <1>12, <1>14, <1>15, <1>16, <1>17, <1>18

LEMMA CoalesceOneIInv ==
  ASSUME IInv, NEW v1 \in Value, NEW v2 \in Node, CoalesceOne(v1, v2)
  PROVE  IInv'
<1>1. /\ alloc = "coalesce" /\ v1 \in graph.nodes /\ v2 \in graph.pref[v1] /\ v1 \notin graph.conf[v2]
      /\ changed' = TRUE /\ UNCHANGED <<original, spilled, removed, spotmap, alloc>>
  BY DEF CoalesceOne, Coalescable
<1>2. v1 \in Node /\ v1 # v2 /\ v1 \in AllNodes(graph) /\ v2 \in AllNodes(graph)
  BY <1>1 DEF IInv, GraphOK, Symmetric, Node
<1>3. v2 \notin graph.conf[v1]
  BY <1>1, <1>2 DEF IInv, GraphOK, Symmetric
<1>4. CASE v2 \in Reg
  <2>1. Merge(v2, v1)
    BY <1>4 DEF CoalesceOne
  <2> QED
    BY <1>1, <1>2, <1>3, <2>1, MergeIInv
<1>5. CASE v2 \notin Reg
  <2>1. Merge(v1, v2)
    BY <1>5 DEF CoalesceOne
  <2>2. v2 \in graph.nodes
    BY <1>2, <1>5 DEF AllNodes, IInv, TypeOK, Graphs
  <2> QED
    BY <1>1, <1>2, <1>3, <2>1, <2>2, MergeIInv
<1> QED
  BY <1>4, <1>5

LEMMA BeginIInv ==
  ASSUME IInv, Begin
  PROVE  IInv'
<1>1. /\ original' \in WellFormed /\ graph' = original' /\ spilled' = <<>> /\ removed' = <<>>
      /\ members' = Alone /\ spotmap' = <<>> /\ alloc' = "simplify" /\ changed' = FALSE
  BY DEF Begin
<1>2. /\ original' \in Graphs /\ Symmetric(original', original'.conf)
      /\ Symmetric(original', original'.pref)
      /\ original'.nodes \subseteq Value /\ original'.spots \subseteq Reg
  BY <1>1 DEF WellFormed, Graphs
<1>3. Alone \in [Node -> SUBSET Node] /\ \A n \in Node : Alone[n] = {n}
  BY DEF Alone
<1>4. DOMAIN spotmap' = {} /\ DOMAIN removed' = {} /\ Spilled' = {} /\ Removed' = {}
  BY <1>1 DEF Spilled, Removed
<1>5. TypeOK'
  <2>1. <<>> \in Seq(Value) /\ "simplify" \in Phases
    BY DEF Phases
  <2> QED
    BY <1>1, <1>2, <1>3, <1>4, <2>1 DEF TypeOK
<1>6. GraphOK' /\ StackOK'
  BY <1>1, <1>2, <1>4 DEF GraphOK, StackOK, Todo
<1>7. GroupsOK'
  <2>1. Heads' \subseteq Node
    BY <1>1, <1>2, <1>4 DEF Heads, Node
  <2>2. ASSUME NEW n \in Node PROVE n \notin original'.conf[n]
    BY <1>2 DEF Symmetric
  <2> QED
    BY <1>1, <1>3, <2>1, <2>2 DEF GroupsOK
<1>8. Faithful'
  <2>1. AllNodes(graph') \subseteq Node
    BY <1>1, <1>2 DEF AllNodes, Node
  <2> QED
    BY <1>1, <1>3, <2>1 DEF Faithful
<1>9. Covered' /\ Proper'
  BY <1>1, <1>2, <1>3 DEF Covered, Todo, Waiting, Node, Proper, Early, Late
<1>10. FewBlocking' /\ RegisterRemains'
  BY <1>1, <1>4 DEF FewBlocking, RegisterRemains
<1> QED
  BY <1>5, <1>6, <1>7, <1>8, <1>9, <1>10 DEF IInv

LEMMA SimplifyEndIInv ==
  ASSUME IInv, SimplifyEnd
  PROVE  IInv'
<1>1. /\ alloc = "simplify" /\ alloc' = "coalesce"
      /\ UNCHANGED <<original, graph, spilled, removed, members, spotmap, changed>>
  BY DEF SimplifyEnd
<1>2. graph' \in Graphs /\ changed' \in BOOLEAN /\ Symmetric(graph', graph'.pref)
  BY <1>1 DEF IInv, TypeOK, GraphOK
<1> QED
  BY <1>1, <1>2, UnmovedIInv DEF Early, Phases

LEMMA CoalesceEndIInv ==
  ASSUME IInv, CoalesceEnd
  PROVE  IInv'
<1>1. /\ alloc = "coalesce" /\ alloc' \in {"simplify", "freeze"} /\ changed' = FALSE
      /\ UNCHANGED <<original, graph, spilled, removed, members, spotmap>>
  BY DEF CoalesceEnd
<1>2. graph' \in Graphs /\ Symmetric(graph', graph'.pref)
  BY <1>1 DEF IInv, TypeOK, GraphOK
<1>3. Early /\ Early' /\ alloc' \in Phases /\ changed' \in BOOLEAN
  BY <1>1 DEF Early, Phases
<1> QED
  BY <1>1, <1>2, <1>3, UnmovedIInv

\* Exactly one preference goes, in both directions.
LEMMA FreezeFacts ==
  ASSUME NEW g \in Graphs, NEW n1 \in Node, NEW n2 \in Node, n1 # n2
  PROVE  /\ remove_pref(g, n1, n2) \in Graphs
         /\ remove_pref(g, n1, n2).nodes = g.nodes /\ remove_pref(g, n1, n2).spots = g.spots
         /\ remove_pref(g, n1, n2).conf = g.conf
         /\ \A m, n \in Node : n \in remove_pref(g, n1, n2).pref[m] <=>
              n \in g.pref[m] /\ ~ (m = n1 /\ n = n2) /\ ~ (m = n2 /\ n = n1)
<1> DEFINE new == [g.pref EXCEPT ![n1] = @ \ {n2}, ![n2] = @ \ {n1}]
<1>1. g.pref \in Edges
  BY DEF Graphs
<1>2. new \in Edges
  BY <1>1 DEF Edges
<1>3. remove_pref(g, n1, n2) = [nodes |-> g.nodes, spots |-> g.spots, conf |-> g.conf, pref |-> new]
  <2>1. g = [nodes |-> g.nodes, spots |-> g.spots, conf |-> g.conf, pref |-> g.pref]
    BY DEF Graphs
  <2>2. remove_pref(g, n1, n2) = [g EXCEPT !.pref = new]
    BY <2>1 DEF remove_pref
  <2> QED
    BY <2>1, <2>2
<1>4. ASSUME NEW m \in Node, NEW n \in Node
      PROVE  n \in new[m] <=> n \in g.pref[m] /\ ~ (m = n1 /\ n = n2) /\ ~ (m = n2 /\ n = n1)
  <2>1. new[n1] = g.pref[n1] \ {n2} /\ new[n2] = g.pref[n2] \ {n1}
    BY <1>1 DEF Edges
  <2>2. m # n1 /\ m # n2 => new[m] = g.pref[m]
    BY <1>1 DEF Edges
  <2>3. CASE m = n1
    BY <2>1, <2>3
  <2>4. CASE m = n2
    BY <2>1, <2>4
  <2>5. CASE m # n1 /\ m # n2
    BY <2>2, <2>5
  <2> QED
    BY <2>3, <2>4, <2>5
<1> HIDE DEF new
<1> QED
  BY <1>2, <1>3, <1>4 DEF Graphs

LEMMA FreezeOneIInv ==
  ASSUME IInv, NEW n1 \in Node, NEW n2 \in Node, FreezeOne(n1, n2)
  PROVE  IInv'
<1>1. /\ alloc = "freeze" /\ n2 \in graph.pref[n1] /\ graph' = remove_pref(graph, n1, n2)
      /\ alloc' = "simplify" /\ UNCHANGED <<original, spilled, removed, members, spotmap, changed>>
  BY DEF FreezeOne
<1>2. n1 # n2 /\ graph \in Graphs /\ changed' \in BOOLEAN
  BY <1>1 DEF IInv, TypeOK, GraphOK, Symmetric
<1>3. /\ graph' \in Graphs /\ graph'.nodes = graph.nodes /\ graph'.spots = graph.spots
      /\ graph'.conf = graph.conf
      /\ \A m, n \in Node : n \in graph'.pref[m] <=> n \in graph.pref[m] /\ ~ (m = n1 /\ n = n2) /\ ~ (m = n2 /\ n = n1)
  <2> DEFINE new == remove_pref(graph, n1, n2)
  <2>1. /\ new \in Graphs /\ new.nodes = graph.nodes /\ new.spots = graph.spots
        /\ new.conf = graph.conf
        /\ \A m, n \in Node : n \in new.pref[m] <=> n \in graph.pref[m] /\ ~ (m = n1 /\ n = n2) /\ ~ (m = n2 /\ n = n1)
    BY <1>2, FreezeFacts
  <2> HIDE DEF new
  <2>2. graph' = new
    BY <1>1 DEF new
  <2> QED
    BY <2>1, <2>2
<1>4. Symmetric(graph', graph'.pref)
  <2>1. Symmetric(graph, graph.pref) /\ AllNodes(graph') = AllNodes(graph)
    BY <1>3 DEF IInv, GraphOK, AllNodes
  <2> QED
    BY <1>3, <2>1 DEF Symmetric
<1>5. Early /\ Early' /\ alloc' \in Phases
  BY <1>1 DEF Early, Phases
<1> QED
  BY <1>1, <1>2, <1>3, <1>4, <1>5, UnmovedIInv

\* The attempt starts again without the spilled values.
LEMMA SpillIInv ==
  ASSUME IInv, NEW v \in Value, Spill(v)
  PROVE  IInv'
<1> DEFINE gone == {v} \cup Spilled
           left(edges) == [n \in Node |-> IF n \in gone THEN {} ELSE edges[n] \ gone]
<1>1. /\ alloc = "freeze" /\ v \in graph.nodes /\ spilled' = Append(spilled, v)
      /\ removed' = <<>> /\ members' = Alone /\ alloc' = "simplify"
      /\ UNCHANGED <<original, spotmap, changed>>
      /\ graph' = [nodes |-> original.nodes \ gone,   spots |-> original.spots,
                   conf  |-> left(original.conf),     pref  |-> left(original.pref)]
  BY DEF Spill, Spilled
<1>2. /\ original \in Graphs /\ original.conf \in Edges /\ original.pref \in Edges
      /\ original.nodes \subseteq Value /\ original.spots \subseteq Reg
  BY DEF IInv, TypeOK, Graphs
<1>3. Spilled' = gone /\ spilled' \in Seq(Value) /\ Spilled \subseteq Value
  <2>1. /\ spilled' \in Seq(Value) /\ DOMAIN spilled' = 1 .. Len(spilled) + 1
        /\ DOMAIN spilled = 1 .. Len(spilled) /\ Len(spilled) \in Nat
        /\ \A j \in 1 .. Len(spilled) : spilled'[j] = spilled[j]
        /\ spilled'[Len(spilled) + 1] = v
    BY <1>1 DEF IInv, TypeOK
  <2> QED
    BY <2>1 DEF Spilled, IInv, TypeOK
<1>4. \A edges \in Edges : left(edges) \in Edges /\
        \A m, n \in Node : n \in left(edges)[m] <=> n \in edges[m] /\ m \notin gone /\ n \notin gone
  BY DEF Edges
<1>5. /\ graph'.nodes = original.nodes \ gone /\ graph'.spots = original.spots
      /\ graph'.conf = left(original.conf) /\ graph'.pref = left(original.pref)
  BY <1>1
<1> HIDE DEF left
<1>6. graph' \in Graphs
  BY <1>1, <1>2, <1>4 DEF Graphs
<1>7. AllNodes(graph') = AllNodes(original) \ gone
  BY <1>2, <1>3, <1>5, NodeFacts DEF AllNodes
<1> HIDE DEF gone
<1>8. Alone \in [Node -> SUBSET Node] /\ \A n \in Node : Alone[n] = {n}
  BY DEF Alone
<1>9. spotmap = <<>> /\ DOMAIN spotmap' = {} /\ DOMAIN removed' = {} /\ Removed' = {}
  BY <1>1 DEF IInv, Proper, Early, Removed
<1>10. TypeOK'
  <2>1. <<>> \in Seq(Value) /\ "simplify" \in Phases
    BY DEF Phases
  <2> QED
    BY <1>1, <1>2, <1>3, <1>6, <1>8, <1>9, <2>1 DEF IInv, TypeOK
<1>11. GraphOK' /\ StackOK'
  <2>1. Symmetric(graph', graph'.conf)
    BY <1>2, <1>4, <1>5, <1>7 DEF Symmetric, IInv, GraphOK
  <2>2. Symmetric(graph', graph'.pref)
    BY <1>2, <1>4, <1>5, <1>7 DEF Symmetric, IInv, GraphOK
  <2>3. Todo' = graph'.nodes
    BY <1>1, <1>3, <1>5 DEF Todo
  <2> QED
    BY <1>1, <1>5, <1>9, <2>1, <2>2, <2>3 DEF IInv, GraphOK, StackOK
<1>12. GroupsOK'
  <2>1. Heads' \subseteq Node
    BY <1>1, <1>2, <1>5, <1>9 DEF Heads, Node
  <2>2. ASSUME NEW n \in Node PROVE n \notin original.conf[n]
    BY DEF Symmetric, IInv, GraphOK
  <2> QED
    BY <1>1, <1>8, <2>1, <2>2 DEF GroupsOK
<1>13. Faithful'
  <2>1. AllNodes(graph') \subseteq Node
    BY <1>2, <1>7 DEF AllNodes, Node
  <2>2. \A m \in AllNodes(graph') : m \notin gone
    BY <1>7
  <2>3. ASSUME NEW g \in AllNodes(graph'), NEW h \in AllNodes(graph'), h \in original.conf[g]
        PROVE  h \in graph'.conf[g]
    BY <1>2, <1>4, <1>5, <2>1, <2>2, <2>3
  <2>4. \A h \in AllNodes(graph') : members'[h] = {h}
    BY <1>1, <1>8, <2>1
  <2>5. original' = original
    BY <1>1
  <2> QED
    BY <2>3, <2>4, <2>5 DEF Faithful
<1>14. Covered' /\ Proper'
  <2>1. \A n \in Todo' : n \in Waiting' /\ n \in members'[n]
    BY <1>1, <1>2, <1>3, <1>5, <1>8 DEF Todo, Waiting, Node
  <2>2. Early' /\ ~Late' /\ alloc' # "done"
    BY <1>1 DEF Early, Late
  <2> QED
    BY <1>1, <1>9, <2>1, <2>2 DEF Covered, Proper
<1>15. FewBlocking' /\ RegisterRemains'
  BY <1>1, <1>9 DEF FewBlocking, RegisterRemains
<1> QED
  BY <1>10, <1>11, <1>12, <1>13, <1>14, <1>15 DEF IInv

LEMMA FinishIInv ==
  ASSUME IInv, Finish
  PROVE  IInv'
<1> USE DEF IInv
<1>1. /\ alloc = "colour" /\ alloc' = "done" /\ removed = <<>>
      /\ UNCHANGED <<original, graph, spilled, removed, members, spotmap, changed>>
  BY DEF Finish
<1>2. TypeOK'
  BY <1>1 DEF TypeOK, Phases
<1>3. GraphOK' /\ StackOK' /\ GroupsOK' /\ Faithful'
  BY <1>1 DEF GraphOK, Symmetric, AllNodes, Todo, Spilled, StackOK, GroupsOK, Heads, Removed, Faithful
<1>4. Covered' /\ Proper'
  BY <1>1 DEF Covered, Todo, Spilled, Waiting, Removed, Proper, Early, Late
<1>5. FewBlocking' /\ RegisterRemains'
  BY <1>1 DEF FewBlocking, RegisterRemains
<1> QED
  BY <1>2, <1>3, <1>4, <1>5

\* The registers take themselves, and the values merged into them.
LEMMA ColourSpotsIInv ==
  ASSUME IInv, ColourSpots
  PROVE  IInv'
<1> USE DEF IInv
<1>1. /\ alloc = "freeze" /\ graph.nodes = {} /\ alloc' = "colour"
      /\ UNCHANGED <<original, graph, spilled, removed, members, changed>>
  BY DEF ColourSpots
<1> DEFINE placed == UNION {members[s] : s \in original.spots}
<1>2. DOMAIN spotmap' = placed
      /\ \A n \in placed : spotmap'[n] = CHOOSE s \in original.spots : n \in members[s]
  BY DEF ColourSpots
<1>3. /\ original.spots \subseteq Reg /\ original.spots \subseteq Node
      /\ original.spots \subseteq Heads /\ original.spots = AllNodes(graph)
      /\ members \in [Node -> SUBSET Node]
  BY <1>1 DEF TypeOK, Graphs, Node, Heads, AllNodes, GraphOK
<1>4. \A s \in original.spots : \A n \in members[s] : n \in placed /\ spotmap'[n] = s
  <2>1. ASSUME NEW s \in original.spots, NEW n \in members[s]
        PROVE  n \in placed /\ spotmap'[n] = s
    <3>1. n \in placed
      OBVIOUS
    <3>2. \A t \in original.spots : n \in members[t] => t = s
      BY <1>3 DEF GroupsOK
    <3> QED
      BY <1>2, <3>1, <3>2
  <2> QED
    BY <2>1
<1>5. \A n \in placed : \E s \in original.spots : n \in members[s]
  OBVIOUS
<1>6. placed \subseteq Node
  BY <1>3
<1> HIDE DEF placed
<1>7. \A n \in placed : spotmap'[n] \in Reg
  BY <1>3, <1>4, <1>5
<1>8. TypeOK'
  BY <1>1, <1>2, <1>6, <1>7 DEF TypeOK, Phases
<1>9. GraphOK' /\ StackOK' /\ GroupsOK' /\ Faithful'
  BY <1>1 DEF GraphOK, Symmetric, AllNodes, Todo, Spilled, StackOK, GroupsOK, Heads, Removed, Faithful
<1>10. spotmap = <<>> /\ DOMAIN spotmap = {}
  BY <1>1 DEF Proper, Early
<1>11. Covered'
  <2>1. Todo' = Todo /\ Waiting' = Removed
    BY <1>1 DEF Todo, Spilled, Waiting, Removed, Early
  <2>2. Waiting = Removed \cup original.spots
    BY <1>1 DEF Waiting, Early
  <2>3. ASSUME NEW n \in Todo PROVE n \in placed \/ \E h \in Removed : n \in members[h]
    BY <1>4, <1>10, <2>2 DEF Covered
  <2> QED
    BY <1>1, <1>2, <2>1, <2>3 DEF Covered
<1>12. Proper'
  <2>1. \A s \in original.spots : s \in placed /\ spotmap'[s] = s
    BY <1>3, <1>4 DEF GroupsOK
  <2>2. ASSUME NEW m \in placed, NEW n \in placed, n \in original.conf[m], spotmap'[m] = spotmap'[n]
        PROVE  FALSE
    <3>1. PICK s \in original.spots : m \in members[s]
      BY <1>5
    <3>2. PICK t \in original.spots : n \in members[t]
      BY <1>5
    <3>3. s = t
      BY <1>4, <2>2, <3>1, <3>2
    <3> QED
      BY <1>3, <2>2, <3>1, <3>2, <3>3 DEF GroupsOK
  <2>3. ~Early' /\ Late' /\ alloc' # "done"
    BY <1>1 DEF Early, Late
  <2> QED
    BY <1>1, <1>2, <2>1, <2>2, <2>3 DEF Proper
<1>13. FewBlocking'
  <2>1. ASSUME NEW i \in DOMAIN removed PROVE Cardinality(Blocking(i)') < K
    <3>1. Conflicts(removed[i])' = Conflicts(removed[i]) /\ Above(i)' = Above(i) /\ removed' = removed
      BY <1>1 DEF Conflicts, Above
    <3>2. Ahead(i) = Above(i) \cup original.spots /\ Ahead(i)' = Above(i)
      BY <1>1, <3>1 DEF Ahead, Early
    <3>3. Blocking(i) = {h \in Ahead(i) : Conflicts(removed[i]) \cap members[h] # {}}
      BY <1>10 DEF Blocking
    <3>4. Blocking(i)' = {h \in Ahead(i)' : Conflicts(removed[i]) \cap members[h] # {}}
                         \cup {spotmap'[n] : n \in Conflicts(removed[i]) \cap placed}
      BY <1>1, <1>2, <3>1 DEF Blocking
    <3>5. ASSUME NEW n \in Conflicts(removed[i]) \cap placed PROVE spotmap'[n] \in Blocking(i)
      <4>1. PICK s \in original.spots : n \in members[s]
        BY <1>5
      <4>2. spotmap'[n] = s
        BY <1>4, <4>1
      <4> QED
        BY <3>2, <3>3, <4>1, <4>2
    <3>6. Blocking(i)' \subseteq Blocking(i)
      BY <3>2, <3>3, <3>4, <3>5
    <3>7. Blocking(i) \subseteq Node
      <4>1. Above(i) \subseteq Node
        BY DEF Above, TypeOK, Node
      <4> QED
        BY <1>3, <3>2, <3>3, <4>1
    <3>8. /\ Cardinality(Blocking(i)') <= Cardinality(Blocking(i))
          /\ Cardinality(Blocking(i)') \in Nat /\ Cardinality(Blocking(i)) \in Nat
      BY <3>6, <3>7, NodeFacts, FS_Subset, FS_CardinalityType
    <3>9. Cardinality(Blocking(i)) < K
      BY DEF FewBlocking
    <3> QED
      BY <3>8, <3>9, NodeFacts
  <2> QED
    BY <1>1, <2>1 DEF FewBlocking
<1>14. RegisterRemains'
  BY <1>1 DEF RegisterRemains
<1> QED
  BY <1>8, <1>9, <1>11, <1>12, <1>13, <1>14

\* When a value's turn comes, the registers it must differ from are less
\* than there are.
LEMMA SomeUsable ==
  ASSUME IInv, alloc = "colour", removed # <<>>
  PROVE  Usable(Top) # {}
<1> USE DEF IInv
<1>1. Len(removed) \in DOMAIN removed /\ Top = removed[Len(removed)]
  BY DEF TypeOK, Top
<1>2. Above(Len(removed)) = {}
  BY DEF Above, TypeOK
<1>3. graph.nodes = {} /\ ~Early
  BY DEF Proper, Late, Early
<1> DEFINE B == {spotmap[n] : n \in Conflicts(Top) \cap DOMAIN spotmap}
<1>4. Blocking(Len(removed)) = B
  BY <1>1, <1>2, <1>3 DEF Blocking, Ahead
<1>5. Cardinality(B) < K
  BY <1>1, <1>4 DEF FewBlocking
<1>6. B \subseteq Reg
  BY DEF TypeOK
<1>7. IsFiniteSet(B) /\ Cardinality(B) \in Nat
  BY <1>6, NodeFacts, FS_Subset, FS_CardinalityType
<1>8. ASSUME NEW r \in Reg, r \in Conflicts(Top) PROVE r \in B
  <2>1. Top \in Node /\ members[Top] \subseteq Node
    BY <1>1 DEF TypeOK, Node
  <2>2. PICK m \in members[Top] : r \in original.conf[m]
    BY <1>8 DEF Conflicts
  <2>3. r \in AllNodes(original)
    BY <2>1, <2>2 DEF GraphOK, Symmetric, Node
  <2>4. r \in original.spots
    BY <2>3, NodeFacts DEF AllNodes, TypeOK, Graphs
  <2>5. r \in DOMAIN spotmap /\ spotmap[r] = r
    BY <2>4 DEF Proper, Late
  <2> QED
    BY <1>8, <2>5
<1>9. ASSUME Usable(Top) = {} PROVE Reg \subseteq B
  <2>1. ASSUME NEW i \in DOMAIN Registers PROVE Registers[i] \in B
    <3>1. Registers[i] \in Reg
      BY DEF Reg
    <3>2. \/ Registers[i] \in Conflicts(Top)
          \/ \E c \in Conflicts(Top) \cap DOMAIN spotmap : spotmap[c] = Registers[i]
      BY <1>9 DEF Usable
    <3> QED
      BY <1>8, <3>1, <3>2
  <2> QED
    BY <2>1 DEF Reg
<1>10. ASSUME Usable(Top) = {} PROVE FALSE
  <2> HIDE DEF B
  <2>1. Cardinality(Reg) <= Cardinality(B)
    BY <1>7, <1>9, <1>10, FS_Subset
  <2> QED
    BY <1>5, <1>7, <2>1, NodeFacts
<1> QED
  BY <1>10

\* The chosen register is one of the usable ones.
LEMMA Chosen ==
  ASSUME NEW S \in SUBSET DOMAIN Registers, S # {}
  PROVE  (CHOOSE i \in S : \A j \in S : i <= j) \in S
<1>1. S \subseteq Nat
  BY NodeFacts
<1>2. \E i \in S : \A j \in S : i <= j
  BY <1>1, LeastNatural
<1> QED
  BY <1>2

LEMMA ColourOneIInv ==
  ASSUME IInv, ColourOne
  PROVE  IInv'
<1> USE DEF IInv
<1>1. /\ alloc = "colour" /\ removed # <<>>
      /\ UNCHANGED <<original, graph, spilled, members, changed>>
  BY DEF ColourOne
<1>2. Usable(Top) # {}
  BY <1>1, SomeUsable
<1> DEFINE last == Len(removed)
           r    == Registers[CHOOSE i \in Usable(Top) : \A j \in Usable(Top) : i <= j]
<1>3. /\ spotmap' = [n \in DOMAIN spotmap \cup members[Top] |->
                                IF n \in members[Top] THEN r ELSE spotmap[n]]
      /\ removed' = SubSeq(removed, 1, last - 1) /\ alloc' = alloc
  BY <1>2 DEF ColourOne
<1>4. r \in Reg /\ r \notin Conflicts(Top) /\ \A c \in Conflicts(Top) \cap DOMAIN spotmap : spotmap[c] # r
  <2>1. (CHOOSE i \in Usable(Top) : \A j \in Usable(Top) : i <= j) \in Usable(Top)
    BY <1>2, Chosen DEF Usable
  <2> QED
    BY <2>1 DEF Usable, Reg
<1> HIDE DEF r
<1>5. /\ removed \in Seq(Value) /\ last \in Nat /\ last # 0 /\ DOMAIN removed = 1 .. last
      /\ Top = removed[last]
  BY <1>1 DEF TypeOK, Top
<1>6. /\ removed' \in Seq(Value) /\ Len(removed') = last - 1 /\ DOMAIN removed' = 1 .. last - 1
      /\ \A i \in 1 .. last - 1 : removed'[i] = removed[i]
  BY <1>3, <1>5
<1> HIDE DEF last
<1>7. Top \in Value /\ Top \in Node /\ Top \in Removed /\ Top \notin Reg /\ Top \in Heads
      /\ members[Top] \subseteq Node
  BY <1>5, NodeFacts DEF TypeOK, Node, Removed, Heads
<1>8. Removed = Removed' \cup {Top} /\ Removed' \subseteq Removed
  BY <1>5, <1>6 DEF Removed
<1>9. /\ DOMAIN spotmap' = DOMAIN spotmap \cup members[Top]
      /\ \A n \in members[Top] : spotmap'[n] = r
      /\ \A n \in DOMAIN spotmap : n \notin members[Top] => spotmap'[n] = spotmap[n]
  BY <1>3
<1>10. ~Early /\ ~Early' /\ Late /\ Late' /\ alloc' # "done" /\ graph.nodes = {}
  BY <1>1, <1>3 DEF Early, Late, Proper
<1>11. TypeOK'
  BY <1>1, <1>3, <1>4, <1>6, <1>7, <1>9 DEF TypeOK
<1>12. GraphOK' /\ Faithful'
  BY <1>1 DEF GraphOK, Symmetric, AllNodes, Todo, Spilled, Faithful
<1>13. StackOK'
  BY <1>1, <1>5, <1>6, <1>8 DEF StackOK
<1>14. GroupsOK'
  <2>1. Heads' \subseteq Heads
    BY <1>1, <1>8 DEF Heads
  <2> QED
    BY <1>1, <2>1 DEF GroupsOK
<1>15. Covered'
  <2>1. Todo' = Todo /\ Waiting' = Removed' /\ Waiting = Removed' \cup {Top}
    BY <1>1, <1>8, <1>10 DEF Todo, Spilled, Waiting
  <2> QED
    BY <1>1, <1>9, <2>1 DEF Covered
<1>16. Proper'
  <2>1. ASSUME NEW s \in original.spots PROVE s \in DOMAIN spotmap' /\ spotmap'[s] = s
    <3>1. s \in Reg /\ s \in Node /\ s \in Heads
      BY DEF TypeOK, Graphs, Node, Heads
    <3>2. s \notin members[Top]
      BY <1>7, <3>1 DEF GroupsOK
    <3> QED
      BY <1>9, <1>10, <3>2 DEF Proper
  <2>2. ASSUME NEW m \in DOMAIN spotmap', NEW n \in DOMAIN spotmap', n \in original.conf[m]
        PROVE  spotmap'[m] # spotmap'[n]
    <3>1. m \in Node /\ n \in Node
      BY <1>11 DEF TypeOK
    <3>2. m \in original.conf[n]
      BY <2>2, <3>1 DEF GraphOK, Symmetric
    <3>3. CASE m \in members[Top] /\ n \in members[Top]
      BY <1>7, <2>2, <3>3 DEF GroupsOK
    <3>4. CASE m \in members[Top] /\ n \notin members[Top]
      <4>1. n \in Conflicts(Top) \cap DOMAIN spotmap
        BY <1>9, <2>2, <3>4 DEF Conflicts
      <4> QED
        BY <1>4, <1>9, <3>4, <4>1
    <3>5. CASE m \notin members[Top] /\ n \in members[Top]
      <4>1. m \in Conflicts(Top) \cap DOMAIN spotmap
        BY <1>9, <3>2, <3>5 DEF Conflicts
      <4> QED
        BY <1>4, <1>9, <3>5, <4>1
    <3>6. CASE m \notin members[Top] /\ n \notin members[Top]
      BY <1>9, <1>10, <2>2, <3>6 DEF Proper
    <3> QED
      BY <3>3, <3>4, <3>5, <3>6
  <2> QED
    BY <1>1, <1>10, <2>1, <2>2 DEF Proper
<1>17. FewBlocking'
  <2>1. ASSUME NEW i \in 1 .. last - 1 PROVE Cardinality(Blocking(i)') < K
    <3> DEFINE C == Conflicts(removed[i])
    <3>1. removed'[i] = removed[i] /\ Conflicts(removed[i])' = C
      BY <1>1, <1>6 DEF Conflicts
    <3>2. Above(i) = Above(i)' \cup {Top} /\ Top \notin Above(i)' /\ Above(i) \subseteq Value
      <4>1. Above(i) = {removed[j] : j \in i + 1 .. last}
        BY DEF Above, last
      <4>2. Above(i)' = {removed[j] : j \in i + 1 .. last - 1}
        BY <1>5, <1>6 DEF Above
      <4>3. \A j \in i + 1 .. last - 1 : removed[j] # removed[last]
        BY <1>5 DEF StackOK
      <4> QED
        BY <1>5, <4>1, <4>2, <4>3 DEF TypeOK
    <3>3. Ahead(i) = Above(i) /\ Ahead(i)' = Above(i)'
      BY <1>1, <1>10 DEF Ahead
    <3> HIDE DEF C
    <3>4. Blocking(i) = {h \in Above(i) : C \cap members[h] # {}}
                        \cup {spotmap[n] : n \in C \cap DOMAIN spotmap}
      BY <3>3 DEF Blocking, C
    <3>5. Blocking(i)' = {h \in Above(i)' : C \cap members[h] # {}}
                         \cup {spotmap'[n] : n \in C \cap DOMAIN spotmap'}
      BY <1>1, <3>1, <3>3 DEF Blocking
    <3>6. Blocking(i) \subseteq Node /\ \A n \in DOMAIN spotmap : spotmap[n] # Top
      BY <1>7, <3>2, <3>4 DEF TypeOK, Node
    <3>7. \A h \in Above(i)' : C \cap members[h] # {} => h \in Blocking(i) /\ h # Top
      BY <3>2, <3>4
    <3>8. ASSUME NEW n \in C \cap DOMAIN spotmap'
          PROVE  \/ n \in members[Top] /\ spotmap'[n] = r /\ Top \in Blocking(i)
                 \/ spotmap'[n] \in Blocking(i) /\ spotmap'[n] # Top
      BY <1>9, <3>2, <3>4, <3>6
    <3>9. Blocking(i)' \subseteq (Blocking(i) \ {Top}) \cup {r}
      BY <3>5, <3>7, <3>8
    <3>10. Top \in Blocking(i) \/ Blocking(i)' \subseteq Blocking(i)
      BY <3>5, <3>7, <3>8
    <3>11. Blocking(i)' \subseteq Node
      BY <1>4, <3>6, <3>9 DEF Node
    <3>12. Cardinality(Blocking(i)') <= Cardinality(Blocking(i))
      BY <3>6, <3>9, <3>10, <3>11, Renamed
    <3>13. Cardinality(Blocking(i)') \in Nat /\ Cardinality(Blocking(i)) \in Nat
      BY <3>6, <3>11, NodeFacts, FS_Subset, FS_CardinalityType
    <3>14. Cardinality(Blocking(i)) < K
      BY <1>5 DEF FewBlocking
    <3> QED
      BY <3>12, <3>13, <3>14, NodeFacts
  <2> QED
    BY <1>6, <2>1 DEF FewBlocking
<1>18. RegisterRemains'
  BY <1>1, <1>3 DEF RegisterRemains
<1> QED
  BY <1>11, <1>12, <1>13, <1>14, <1>15, <1>16, <1>17, <1>18

LEMMA NextIInv == IInv /\ [Next]_vars => IInv'
<1> SUFFICES ASSUME IInv, [Next]_vars PROVE IInv'
  OBVIOUS
<1>1. CASE Begin
  BY <1>1, BeginIInv
<1>2. ASSUME NEW v \in Value, SimplifyOne(v) PROVE IInv'
  BY <1>2, SimplifyOneIInv
<1>3. CASE SimplifyEnd
  BY <1>3, SimplifyEndIInv
<1>4. ASSUME NEW v1 \in Value, NEW v2 \in Node, CoalesceOne(v1, v2) PROVE IInv'
  BY <1>4, CoalesceOneIInv
<1>5. CASE CoalesceEnd
  BY <1>5, CoalesceEndIInv
<1>6. ASSUME NEW n1 \in Node, NEW n2 \in Node, FreezeOne(n1, n2) PROVE IInv'
  BY <1>6, FreezeOneIInv
<1>7. ASSUME NEW v \in Value, Spill(v) PROVE IInv'
  BY <1>7, SpillIInv
<1>8. CASE ColourSpots
  BY <1>8, ColourSpotsIInv
<1>9. CASE ColourOne
  BY <1>9, ColourOneIInv
<1>10. CASE Finish
  BY <1>10, FinishIInv
<1>11. CASE UNCHANGED vars
  <2>1. UNCHANGED <<original, graph, spilled, removed, members, spotmap, alloc, changed>>
    BY <1>11 DEF vars
  <2>2. TypeOK' /\ GraphOK' /\ StackOK' /\ GroupsOK' /\ Faithful'
    BY <2>1 DEF IInv, TypeOK, GraphOK, Symmetric, AllNodes, Todo, Spilled, StackOK, Removed,
                GroupsOK, Heads, Faithful
  <2>3. Covered' /\ Proper' /\ RegisterRemains'
    BY <2>1 DEF IInv, Covered, Todo, Spilled, Waiting, Removed, Proper, Early, Late, RegisterRemains
  <2>4. FewBlocking'
    <3>1. \A i \in DOMAIN removed : Blocking(i)' = Blocking(i)
      BY <2>1 DEF Blocking, Ahead, Above, Conflicts, Early
    <3> QED
      BY <2>1, <3>1 DEF IInv, FewBlocking
  <2> QED
    BY <2>2, <2>3, <2>4 DEF IInv
<1> QED
  BY <1>1, <1>2, <1>3, <1>4, <1>5, <1>6, <1>7, <1>8, <1>9, <1>10, <1>11 DEF Next

\* The invariant holds in every state of every behaviour.
THEOREM Invariance == Spec => []IInv
<1>1. Init => IInv
  BY InitIInv
<1>2. IInv /\ [Next]_vars => IInv'
  BY NextIInv
<1> QED
  BY <1>1, <1>2, PTL DEF Spec

-----------------------------------------------------------------------------
(* What the invariant is for. *)

\* Graphs stay graphs and the registers that are given out are registers.
THEOREM TypeCorrect == Spec => []TypeOK
<1>1. IInv => TypeOK
  BY DEF IInv
<1> QED
  BY <1>1, Invariance, PTL

\* Values that are live at the same time never share a register, and none
\* is put where a command it lives through writes.
THEOREM Apart == Spec => []ConflictsApart
<1>1. IInv => ConflictsApart
  <2> SUFFICES ASSUME IInv, alloc = "done", NEW v \in original.nodes \ Spilled
               PROVE  /\ v \in DOMAIN spotmap
                      /\ \A c \in original.conf[v] :
                           /\ c \in Reg => spotmap[v] # c
                           /\ c \in original.nodes \ Spilled => spotmap[v] # spotmap[c]
    BY DEF ConflictsApart
  <2>1. graph.nodes = {} /\ Removed = {} /\ ~Early /\ Late
    BY DEF IInv, Proper, Late, Early, Removed
  <2>2. \A n \in Todo : n \in DOMAIN spotmap
    BY <2>1 DEF IInv, Covered, Waiting
  <2>3. v \in DOMAIN spotmap /\ v \in Node
    BY <2>2 DEF Todo, IInv, TypeOK
  <2>4. ASSUME NEW c \in original.conf[v], c \in Reg PROVE spotmap[v] # c
    <3>1. c \in original.spots
      <4>1. c \in AllNodes(original)
        BY <2>3, <2>4 DEF IInv, GraphOK, Symmetric, Node
      <4> QED
        BY <2>4, <4>1, NodeFacts DEF AllNodes, IInv, TypeOK, Graphs
    <3>2. c \in DOMAIN spotmap /\ spotmap[c] = c
      BY <2>1, <3>1 DEF IInv, Proper
    <3> QED
      BY <2>1, <2>3, <3>2 DEF IInv, Proper
  <2>5. ASSUME NEW c \in original.conf[v], c \in original.nodes \ Spilled
        PROVE  spotmap[v] # spotmap[c]
    BY <2>1, <2>2, <2>3, <2>5 DEF Todo, IInv, Proper
  <2> QED
    BY <2>3, <2>4, <2>5
<1> QED
  BY <1>1, Invariance, PTL

\* No value finds every register taken when its turn comes.
THEOREM Remains == Spec => []RegisterRemains
<1>1. IInv => RegisterRemains
  BY DEF IInv
<1> QED
  BY <1>1, Invariance, PTL

-----------------------------------------------------------------------------
(* Every step leaves less to do. *)

Pairs == {p \in Node \X Node : p[2] \in graph.pref[p[1]]}

\* A tuple is less than another if it is so at the first place where they
\* differ.
LEMMA Lexicographic ==
  ASSUME NEW a, NEW b, DOMAIN a = 1 .. 5,
         \/ a[1] < b[1]
         \/ a[1] = b[1] /\ a[2] < b[2]
         \/ a[1] = b[1] /\ a[2] = b[2] /\ a[3] < b[3]
         \/ a[1] = b[1] /\ a[2] = b[2] /\ a[3] = b[3] /\ a[4] < b[4]
         \/ a[1] = b[1] /\ a[2] = b[2] /\ a[3] = b[3] /\ a[4] = b[4] /\ a[5] < b[5]
  PROVE  Less(a, b)
<1>1. /\ \A j \in 1 .. 1 - 1 : FALSE
      /\ \A j \in 1 .. 2 - 1 : j = 1
      /\ \A j \in 1 .. 3 - 1 : j = 1 \/ j = 2
      /\ \A j \in 1 .. 4 - 1 : j = 1 \/ j = 2 \/ j = 3
      /\ \A j \in 1 .. 5 - 1 : j = 1 \/ j = 2 \/ j = 3 \/ j = 4
  OBVIOUS
<1>2. 1 \in DOMAIN a /\ 2 \in DOMAIN a /\ 3 \in DOMAIN a /\ 4 \in DOMAIN a /\ 5 \in DOMAIN a
  OBVIOUS
<1> QED
  BY <1>1, <1>2, Zenon DEF Less

\* A proper subset of the values, or of the pairs of nodes, is smaller.
LEMMA Smaller ==
  ASSUME NEW S, IsFiniteSet(S), NEW T \in SUBSET S, NEW x \in S, x \notin T
  PROVE  Cardinality(T) < Cardinality(S)
<1>1. IsFiniteSet(S \ {x}) /\ Cardinality(S \ {x}) = Cardinality(S) - 1
  BY FS_RemoveElement
<1>2. Cardinality(T) <= Cardinality(S \ {x}) /\ IsFiniteSet(T)
  BY <1>1, FS_Subset
<1>3. Cardinality(S) \in Nat /\ Cardinality(T) \in Nat
  BY <1>2, FS_CardinalityType
<1> QED
  BY <1>1, <1>2, <1>3

LEMMA FiniteParts ==
  ASSUME TypeOK
  PROVE  IsFiniteSet(Todo) /\ IsFiniteSet(graph.nodes) /\ IsFiniteSet(Pairs)
<1>1. Todo \subseteq Value /\ graph.nodes \subseteq Value
  BY DEF TypeOK, Graphs, Todo
<1>2. IsFiniteSet(Node \X Node) /\ Pairs \subseteq Node \X Node
  BY NodeFacts, FS_Product DEF Pairs
<1> QED
  BY <1>1, <1>2, NodeFacts, FS_Subset

\* The five things there are less of, in one step of the allocator.
Unfinished == IF alloc \in {"simplify", "coalesce"} THEN Round ELSE IF alloc = "freeze" THEN 1 ELSE 0
Standing   == IF alloc \in {"done", "failed"} THEN 0 ELSE 1 + Len(removed)

LEMMA WorkParts ==
  Work = <<Cardinality(Todo), Cardinality(graph.nodes), Cardinality(Pairs), Unfinished, Standing>>
BY DEF Work, Todo, Pairs, Unfinished, Standing

LEMMA LessWork ==
  ASSUME \/ Cardinality(Todo)' < Cardinality(Todo)
         \/ /\ Todo' = Todo
            /\ Cardinality(graph.nodes)' < Cardinality(graph.nodes)
         \/ /\ Todo' = Todo /\ graph'.nodes = graph.nodes
            /\ Cardinality(Pairs)' < Cardinality(Pairs)
         \/ /\ Todo' = Todo /\ graph' = graph
            /\ Unfinished' < Unfinished
         \/ /\ Todo' = Todo /\ graph' = graph
            /\ Unfinished' = Unfinished /\ Standing' < Standing
  PROVE  Less(Work', Work)
<1>1. Work' = <<Cardinality(Todo)', Cardinality(graph.nodes)', Cardinality(Pairs)', Unfinished', Standing'>>
  BY DEF Work, Todo, Pairs, Unfinished, Standing
<1>2. graph' = graph => Pairs' = Pairs
  BY DEF Pairs
<1> QED
  BY <1>1, <1>2, WorkParts, Lexicographic

\* A value less in the graph is less to do, if it is not a new attempt.
LEMMA FewerNodes ==
  ASSUME IInv, NEW v \in graph.nodes, graph'.nodes = graph.nodes \ {v},
         UNCHANGED <<original, spilled>>
  PROVE  Less(Work', Work)
<1>1. Todo' = Todo
  BY DEF Todo, Spilled
<1>2. Cardinality(graph.nodes \ {v}) < Cardinality(graph.nodes)
  BY FiniteParts, Smaller DEF IInv
<1> QED
  BY <1>1, <1>2, LessWork

LEMMA NextLess ==
  ASSUME IInv, Next
  PROVE  alloc \in {"idle", "done"} \/ Less(Work', Work)
<1>1. CASE Begin
  BY <1>1 DEF Begin
<1>2. ASSUME NEW v \in Value, SimplifyOne(v) PROVE Less(Work', Work)
  <2>1. v \in graph.nodes /\ graph'.nodes = graph.nodes \ {v} /\ UNCHANGED <<original, spilled>>
    BY <1>2, PopFacts DEF SimplifyOne, Simplifiable, IInv, TypeOK
  <2> QED
    BY <2>1, FewerNodes
<1>3. CASE SimplifyEnd
  <2>1. /\ alloc = "simplify" /\ alloc' = "coalesce"
        /\ UNCHANGED <<original, graph, spilled, removed, members, spotmap, changed>>
    BY <1>3 DEF SimplifyEnd
  <2>2. Todo' = Todo /\ Unfinished' < Unfinished
    BY <2>1 DEF Todo, Spilled, Unfinished, Round
  <2> QED
    BY <2>1, <2>2, LessWork
<1>4. ASSUME NEW v1 \in Value, NEW v2 \in Node, CoalesceOne(v1, v2) PROVE Less(Work', Work)
  <2>1. /\ v1 \in graph.nodes /\ v2 \in graph.pref[v1] /\ UNCHANGED <<original, spilled>>
    BY <1>4 DEF CoalesceOne, Coalescable
  <2>2. v1 \in Node /\ v2 \in AllNodes(graph)
    BY <2>1 DEF IInv, GraphOK, Symmetric, Node
  <2>3. CASE v2 \in Reg
    <3>1. graph'.nodes = graph.nodes \ {v1}
      BY <1>4, <2>3 DEF CoalesceOne, Merge, merge
    <3> QED
      BY <2>1, <3>1, FewerNodes
  <2>4. CASE v2 \notin Reg
    <3>1. v2 \in graph.nodes
      BY <2>2, <2>4 DEF AllNodes, IInv, TypeOK, Graphs
    <3>2. graph'.nodes = graph.nodes \ {v2}
      BY <1>4, <2>4 DEF CoalesceOne, Merge, merge
    <3> QED
      BY <2>1, <3>1, <3>2, FewerNodes
  <2> QED
    BY <2>3, <2>4
<1>5. CASE CoalesceEnd
  <2>1. /\ alloc = "coalesce" /\ alloc' = (IF changed THEN "simplify" ELSE "freeze")
        /\ changed' = FALSE /\ UNCHANGED <<original, graph, spilled, removed, members, spotmap>>
    BY <1>5 DEF CoalesceEnd
  <2>2. Todo' = Todo
    BY <2>1 DEF Todo, Spilled
  <2>3. CASE changed
    <3>1. Unfinished = 4 /\ Unfinished' = 3
      BY <2>1, <2>3 DEF Unfinished, Round
    <3> QED
      BY <2>1, <2>2, <3>1, LessWork
  <2>4. CASE ~changed
    <3>1. Unfinished = 2 /\ Unfinished' = 1
      BY <2>1, <2>4 DEF Unfinished, Round
    <3> QED
      BY <2>1, <2>2, <3>1, LessWork
  <2> QED
    BY <2>3, <2>4
<1>6. ASSUME NEW n1 \in Node, NEW n2 \in Node, FreezeOne(n1, n2) PROVE Less(Work', Work)
  <2>1. /\ n2 \in graph.pref[n1] /\ graph' = remove_pref(graph, n1, n2)
        /\ UNCHANGED <<original, spilled>>
    BY <1>6 DEF FreezeOne
  <2>2. n1 # n2 /\ graph \in Graphs
    BY <2>1 DEF IInv, TypeOK, GraphOK, Symmetric
  <2>3. graph'.nodes = graph.nodes /\
        \A m, n \in Node : n \in graph'.pref[m] <=>
          n \in graph.pref[m] /\ ~ (m = n1 /\ n = n2) /\ ~ (m = n2 /\ n = n1)
    <3> DEFINE new == remove_pref(graph, n1, n2)
    <3>1. new.nodes = graph.nodes /\
          \A m, n \in Node : n \in new.pref[m] <=>
            n \in graph.pref[m] /\ ~ (m = n1 /\ n = n2) /\ ~ (m = n2 /\ n = n1)
      BY <2>2, FreezeFacts
    <3> HIDE DEF new
    <3>2. graph' = new
      BY <2>1 DEF new
    <3> QED
      BY <3>1, <3>2
  <2>4. Pairs' \in SUBSET Pairs
    BY <2>3 DEF Pairs
  <2>5. <<n1, n2>> \in Pairs /\ <<n1, n2>> \notin Pairs'
    BY <2>1, <2>3 DEF Pairs
  <2>6. Cardinality(Pairs') < Cardinality(Pairs)
    BY <2>4, <2>5, FiniteParts, Smaller DEF IInv
  <2>7. Todo' = Todo
    BY <2>1 DEF Todo, Spilled
  <2> QED
    BY <2>3, <2>6, <2>7, LessWork
<1>7. ASSUME NEW v \in Value, Spill(v) PROVE Less(Work', Work)
  <2>1. v \in Todo /\ spilled' = Append(spilled, v) /\ original' = original
    BY <1>7 DEF Spill, IInv, GraphOK
  <2>2. Spilled' = Spilled \cup {v}
    <3>1. /\ DOMAIN spilled' = 1 .. Len(spilled) + 1
          /\ DOMAIN spilled = 1 .. Len(spilled) /\ Len(spilled) \in Nat
          /\ \A j \in 1 .. Len(spilled) : spilled'[j] = spilled[j]
          /\ spilled'[Len(spilled) + 1] = v
      BY <2>1 DEF IInv, TypeOK
    <3> QED
      BY <3>1 DEF Spilled
  <2>3. Todo' = Todo \ {v}
    BY <2>1, <2>2 DEF Todo
  <2>4. Cardinality(Todo') < Cardinality(Todo)
    BY <2>1, <2>3, FiniteParts, Smaller DEF IInv
  <2> QED
    BY <2>4, LessWork
<1>8. CASE ColourSpots
  <2>1. /\ alloc = "freeze" /\ alloc' = "colour"
        /\ UNCHANGED <<original, graph, spilled, removed, members, changed>>
    BY <1>8 DEF ColourSpots
  <2>2. Todo' = Todo /\ Unfinished' < Unfinished
    BY <2>1 DEF Todo, Spilled, Unfinished
  <2> QED
    BY <2>1, <2>2, LessWork
<1>9. CASE ColourOne
  <2>1. /\ alloc = "colour" /\ removed # <<>>
        /\ UNCHANGED <<original, graph, spilled>>
    BY <1>9 DEF ColourOne
  <2>2. Usable(Top) # {}
    BY <2>1, SomeUsable
  <2>3. alloc' = "colour" /\ removed' = SubSeq(removed, 1, Len(removed) - 1)
    BY <1>9, <2>1, <2>2 DEF ColourOne
  <2>4. Len(removed) \in Nat /\ Len(removed') = Len(removed) - 1
    <3> DEFINE last == Len(removed)
    <3>1. removed \in Seq(Value) /\ last \in Nat /\ last # 0 /\ DOMAIN removed = 1 .. last
      BY <2>1 DEF IInv, TypeOK
    <3>2. removed' \in Seq(Value) /\ Len(removed') = last - 1 /\ DOMAIN removed' = 1 .. last - 1
      BY <2>3, <3>1
    <3> QED
      BY <3>1, <3>2
  <2>5. Todo' = Todo /\ Unfinished' = Unfinished /\ Standing' < Standing
    BY <2>1, <2>3, <2>4 DEF Todo, Spilled, Unfinished, Standing
  <2> QED
    BY <2>1, <2>5, LessWork
<1>10. CASE Finish
  <2>1. /\ alloc = "colour" /\ alloc' = "done" /\ removed = <<>>
        /\ UNCHANGED <<original, graph, spilled, removed, members, spotmap, changed>>
    BY <1>10 DEF Finish
  <2>2. Todo' = Todo /\ Unfinished' = Unfinished
    BY <2>1 DEF Todo, Spilled, Unfinished
  <2>3. Standing' = 0 /\ Standing = 1
    BY <2>1 DEF Standing
  <2> QED
    BY <2>1, <2>2, <2>3, LessWork
<1> QED
  BY <1>1, <1>2, <1>3, <1>4, <1>5, <1>6, <1>7, <1>8, <1>9, <1>10 DEF Next

\* The loops of the allocator end: Less orders Work well, and every step of
\* an allocation makes Work less.
THEOREM Progresses == Spec => Progress
<1>1. IInv /\ [Next]_vars => [(alloc \in {"idle", "done"}) \/ Less(Work', Work)]_vars
  BY NextLess
<1>2. Spec => []IInv
  BY Invariance
<1> QED
  BY <1>1, <1>2, PTL DEF Spec, Progress
=============================================================================
