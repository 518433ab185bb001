------------------------------ MODULE RegAlloc ------------------------------
(***************************************************************************)
(* The register allocator of the C compiler (NodeGraph and the loop of     *)
(* ASMGen._make_asm in shivyc/asm_gen.py): simplify, coalesce, freeze and  *)
(* spill on a graph of conflicts and preferences until no value is left,   *)
(* then give out registers in the opposite order.  One behaviour allocates *)
(* for any number of functions, one after the other.                       *)
(*                                                                         *)
(* The lists of the code are sets here, so where the code takes the first  *)
(* node of a list the model takes any: what is proved of it holds in       *)
(* whatever order a program mentions its values.                           *)
(***************************************************************************)
EXTENDS Naturals, Sequences, FiniteSets

CONSTANTS
  Value,      \* the values a function can have
  Registers   \* alloc_registers, preferred first

Reg  == {Registers[i] : i \in DOMAIN Registers}
Node == Value \cup Reg
K    == Len(Registers)

\* Values and registers are different nodes, and the registers are different.
ASSUME RegistersAssumption ==
  /\ Registers \in Seq(Reg)
  /\ \A i, j \in DOMAIN Registers : Registers[i] = Registers[j] => i = j
  /\ Value \cap Reg = {}
  /\ IsFiniteSet(Value)

VARIABLES
  original,   \* g_bak: the graph of the function
  graph,      \* g: what is left of it in this attempt
  spilled,    \* spilled_nodes, in the order they were given up
  removed,    \* removed_nodes: the stack of simplified values
  members,    \* get_merged: what has been merged into a node, with the node
  spotmap,    \* the registers given out
  alloc,      \* where the loop is
  changed     \* simplified or merged in this round

vars == <<original, graph, spilled, removed, members, spotmap, alloc, changed>>

Phases == {"idle", "simplify", "coalesce", "freeze", "colour", "done", "failed"}

-----------------------------------------------------------------------------
(* Graphs.  conf and pref are total; a node outside the graph has no edges. *)

Edges  == [Node -> SUBSET Node]
Graphs == [nodes : SUBSET Value, spots : SUBSET Reg, conf : Edges, pref : Edges]

AllNodes(g) == g.nodes \cup g.spots
NoEdges     == [n \in Node |-> {}]

\* An edge has two ends, both of them in the graph.
Symmetric(g, edges) ==
  \A m, n \in Node : n \in edges[m] =>
    m \in edges[n] /\ m # n /\ {m, n} \subseteq AllNodes(g)

WellFormed == {g \in Graphs : Symmetric(g, g.conf) /\ Symmetric(g, g.pref)}

Without(edges, n) == [m \in Node |-> IF m = n THEN {} ELSE edges[m] \ {n}]

pop(g, n) == [nodes |-> g.nodes \ {n},      spots |-> g.spots \ {n},
              conf  |-> Without(g.conf, n), pref  |-> Without(g.pref, n)]

\* The edges when n2 is merged into n1: n1 takes over the neighbours of n2.
Taken(edges, n1, n2) ==
  LET both == (edges[n1] \cup edges[n2]) \ {n1, n2}
  IN [m \in Node |-> CASE m = n2 -> {}
                       [] m = n1 -> both
                       [] OTHER  -> IF m \in both THEN (edges[m] \ {n2}) \cup {n1}
                                                  ELSE edges[m]]

merge(g, n1, n2) == [nodes |-> g.nodes \ {n2},          spots |-> g.spots,
                     conf  |-> Taken(g.conf, n1, n2),   pref  |-> Taken(g.pref, n1, n2)]

remove_pref(g, n1, n2) ==
  [g EXCEPT !.pref[n1] = @ \ {n2}, !.pref[n2] = @ \ {n1}]

Degree(g, n) == Cardinality(g.conf[n])

Alone == [n \in Node |-> {n}]

-----------------------------------------------------------------------------
(* A function to allocate for arrives with its graph. *)

Init ==
  /\ original = [nodes |-> {}, spots |-> {}, conf |-> NoEdges, pref |-> NoEdges]
  /\ graph = original
  /\ spilled = <<>> /\ removed = <<>> /\ members = Alone /\ spotmap = <<>>
  /\ alloc = "idle" /\ changed = FALSE

Begin ==
  /\ alloc \in {"idle", "done"}
  /\ original' \in WellFormed
  /\ graph' = original'
  /\ spilled' = <<>> /\ removed' = <<>> /\ members' = Alone /\ spotmap' = <<>>
  /\ alloc' = "simplify" /\ changed' = FALSE

(* Simplify: a value without preferences and of low degree can wait. *)

Simplifiable(v) == v \in graph.nodes /\ graph.pref[v] = {} /\ Degree(graph, v) < K

SimplifyOne(v) ==
  /\ alloc = "simplify" /\ Simplifiable(v)
  /\ graph' = pop(graph, v)
  /\ removed' = Append(removed, v)
  /\ changed' = TRUE
  /\ UNCHANGED <<original, spilled, members, spotmap, alloc>>

SimplifyEnd ==
  /\ alloc = "simplify" /\ ~ \E v \in Value : Simplifiable(v)
  /\ alloc' = "coalesce"
  /\ UNCHANGED <<original, graph, spilled, removed, members, spotmap, changed>>

(* Coalesce: two nodes that would like the same register become one, if    *)
(* that cannot make the graph harder to colour.  The heuristic is another  *)
(* one for a register (George) than for two values (Briggs).               *)

GeorgeTest(v, s) ==
  \A t \in graph.conf[v] : s \in graph.conf[t] \/ Degree(graph, t) < K

BriggsTest(v1, v2) == Cardinality(graph.conf[v1] \cup graph.conf[v2]) < K

Coalescable(v1, v2) ==
  /\ v1 \in graph.nodes /\ v2 \in graph.pref[v1]
  /\ v1 \notin graph.conf[v2]
  /\ IF v2 \in Reg THEN GeorgeTest(v1, v2) ELSE BriggsTest(v1, v2)

Merge(into, from) ==
  /\ graph' = merge(graph, into, from)
  /\ members' = [members EXCEPT ![into] = @ \cup members[from]]

CoalesceOne(v1, v2) ==
  /\ alloc = "coalesce" /\ Coalescable(v1, v2)
  /\ IF v2 \in Reg THEN Merge(v2, v1) ELSE Merge(v1, v2)
  /\ changed' = TRUE
  /\ UNCHANGED <<original, spilled, removed, spotmap, alloc>>

CoalesceEnd_Kept ==
  /\ alloc = "coalesce" /\ ~ \E v1 \in Value, v2 \in Node : Coalescable(v1, v2)
  /\ alloc' = IF changed THEN "simplify" ELSE "freeze"
  /\ UNCHANGED <<original, graph, spilled, removed, members, spotmap, changed>>

CoalesceEnd ==
  /\ alloc = "coalesce" /\ ~ \E v1 \in Value, v2 \in Node : Coalescable(v1, v2)
  /\ alloc' = IF changed THEN "simplify" ELSE "freeze"
  /\ changed' = FALSE
  /\ UNCHANGED <<original, graph, spilled, removed, members, spotmap>>

(* Freeze: give up one preference and try again. *)

FreezeOne(n1, n2) ==
  /\ alloc = "freeze" /\ n2 \in graph.pref[n1]
  /\ graph' = remove_pref(graph, n1, n2)
  /\ alloc' = "simplify"
  /\ UNCHANGED <<original, spilled, removed, members, spotmap, changed>>

NoPreferences == ~ \E n \in Node : graph.pref[n] # {}

(* Spill: nothing else helps, so the value with the most conflicts goes to *)
(* memory and the attempt starts again without it.                         *)

Spill(v) ==
  /\ alloc = "freeze" /\ NoPreferences
  /\ v \in graph.nodes /\ ~ \E w \in graph.nodes : Degree(graph, w) > Degree(graph, v)
  /\ spilled' = Append(spilled, v)
  /\ LET gone == {v} \cup {spilled[i] : i \in DOMAIN spilled}
         left(edges) == [n \in Node |-> IF n \in gone THEN {} ELSE edges[n] \ gone]
     IN graph' = [nodes |-> original.nodes \ gone,   spots |-> original.spots,
                  conf  |-> left(original.conf),     pref  |-> left(original.pref)]
  /\ removed' = <<>> /\ members' = Alone
  /\ alloc' = "simplify"
  /\ UNCHANGED <<original, spotmap, changed>>

(* Colour: the registers of the graph, which were removed last, come first *)
(* and take themselves; then the values come back in the opposite order.   *)

ColourSpots ==
  /\ alloc = "freeze" /\ NoPreferences /\ graph.nodes = {}
  /\ spotmap' = [n \in UNION {members[s] : s \in original.spots} |->
                   CHOOSE s \in original.spots : n \in members[s]]
  /\ alloc' = "colour"
  /\ UNCHANGED <<original, graph, spilled, removed, members, changed>>

Conflicts_Own(n) == original.conf[n]

\* get_conflicts(n): what conflicts with n or anything merged into it.
Conflicts(n) == UNION {original.conf[m] : m \in members[n]}

\* The registers that are left for n.
Usable(n) ==
  {i \in DOMAIN Registers :
     /\ Registers[i] \notin Conflicts(n)
     /\ \A c \in Conflicts(n) \cap DOMAIN spotmap : spotmap[c] # Registers[i]}

Top == removed[Len(removed)]

ColourOne ==
  /\ alloc = "colour" /\ removed # <<>>
  /\ IF Usable(Top) = {}
       THEN /\ alloc' = "failed"                 \* regs.pop() from an empty list
            /\ UNCHANGED <<removed, spotmap>>
       ELSE /\ LET i == CHOOSE i \in Usable(Top) : \A j \in Usable(Top) : i <= j
               IN spotmap' = [n \in DOMAIN spotmap \cup members[Top] |->
                                IF n \in members[Top] THEN Registers[i] ELSE spotmap[n]]
            /\ removed' = SubSeq(removed, 1, Len(removed) - 1)
            /\ UNCHANGED alloc
  /\ UNCHANGED <<original, graph, spilled, members, changed>>

Finish ==
  /\ alloc = "colour" /\ removed = <<>>
  /\ alloc' = "done"
  /\ UNCHANGED <<original, graph, spilled, removed, members, spotmap, changed>>

Next ==
  \/ Begin
  \/ \E v \in Value : SimplifyOne(v)
  \/ SimplifyEnd
  \/ \E v1 \in Value, v2 \in Node : CoalesceOne(v1, v2)
  \/ CoalesceEnd
  \/ \E n1, n2 \in Node : FreezeOne(n1, n2)
  \/ \E v \in Value : Spill(v)
  \/ ColourSpots
  \/ ColourOne
  \/ Finish

Spec == Init /\ [][Next]_vars

-----------------------------------------------------------------------------
(* Properties. *)

TypeOK ==
  /\ original \in Graphs /\ graph \in Graphs
  /\ spilled \in Seq(Value) /\ removed \in Seq(Value)
  /\ members \in [Node -> SUBSET Node]
  /\ DOMAIN spotmap \subseteq Node
  /\ \A n \in DOMAIN spotmap : spotmap[n] \in Reg
  /\ alloc \in Phases /\ changed \in BOOLEAN

Spilled == {spilled[i] : i \in DOMAIN spilled}

\* When the allocator is done every value has a register or has been
\* spilled, two values that are live together never share a register, and
\* none is in a register that a command it lives through destroys.
ConflictsApart ==
  alloc = "done" =>
    \A v \in original.nodes \ Spilled :
      /\ v \in DOMAIN spotmap
      /\ \A c \in original.conf[v] :
           /\ c \in Reg => spotmap[v] # c
           /\ c \in original.nodes \ Spilled => spotmap[v] # spotmap[c]

\* "Based on algorithm, there should always be register remaining"
\* (_generate_spotmap): the stack order guarantees each value a register,
\* whatever was merged, frozen and spilled before.
RegisterRemains == alloc # "failed"

\* The loops of _make_asm end: every step leaves less to do.  A round that
\* changed nothing is not repeated, a value is spilled once, and what a new
\* attempt adds to the graph again is less than before.
Round == (IF changed THEN 3 ELSE 1) +
         (CASE alloc = "simplify" -> 2 [] alloc = "coalesce" -> 1 [] OTHER -> 0)
Work ==
  <<Cardinality(original.nodes \ Spilled),
    Cardinality(graph.nodes),
    Cardinality({p \in Node \X Node : p[2] \in graph.pref[p[1]]}),
    CASE alloc \in {"simplify", "coalesce"} -> Round [] alloc = "freeze" -> 1 [] OTHER -> 0,
    IF alloc \in {"done", "failed"} THEN 0 ELSE 1 + Len(removed)>>
Less(a, b) == \E i \in DOMAIN a : a[i] < b[i] /\ \A j \in 1 .. i - 1 : a[j] = b[j]
Progress == [][(alloc \in {"idle", "done"}) \/ Less(Work', Work)]_vars
=============================================================================
