------------------------------- MODULE RBTree -------------------------------
(***************************************************************************)
(* The red-black tree (common/rbtree.c) and the map made of it             *)
(* (CCEPH_IMPL_MAP in common/rbtree.h).                                    *)
(*                                                                         *)
(* A node is named by its key.  The code has each rotation and each branch *)
(* of the two rebalancing loops twice, for the left and for the right; the *)
(* model has them once, with the side as a parameter.  A pass through one  *)
(* of these loops is a step.                                               *)
(***************************************************************************)
EXTENDS Integers, Sequences, SequencesExt, FiniteSetsExt

CONSTANT Keys

ASSUME KeysAssumption == Keys \subseteq Nat \ {0}

Nil == 0
Sides == {"left", "right"}
Opposite(s) == IF s = "left" THEN "right" ELSE "left"

VARIABLES tree,   \* the memory: child, parent and color of each node, and root
          keys,   \* history: the keys of the map
          pc,     \* "idle", or the loop in progress: "insert" or "erase"
          node,   \* the locals node and parent of that loop
          parent

vars == <<tree, keys, pc, node, parent>>

Init == /\ tree = [child  |-> [s \in Sides |-> [n \in Keys |-> Nil]],
                   parent |-> [n \in Keys |-> Nil],
                   color  |-> [n \in Keys |-> "red"],
                   root   |-> Nil]
        /\ keys = {}
        /\ pc = "idle"
        /\ node = Nil /\ parent = Nil

IsRed(t, n)   == n # Nil /\ t.color[n] = "red"
IsBlack(t, n) == ~IsRed(t, n)

Painted(t, n, color)  == [t EXCEPT !.color[n] = color]
SetChild(t, s, n, c)  == [t EXCEPT !.child[s][n] = c]
SetParent(t, n, p)    == IF n = Nil THEN t ELSE [t EXCEPT !.parent[n] = p]

SideOf(t, n, p) == IF t.child["left"][p] = n THEN "left" ELSE "right"

\* The parent of old, or the root, points to new instead.
Redirected(t, old, new) ==
  LET p == t.parent[old]
  IN  IF p = Nil THEN [t EXCEPT !.root = new]
      ELSE SetChild(t, SideOf(t, old, p), p, new)

\* __cceph_rb_rotate_left and _right: node n goes down on side s.
Rotate(t, n, s) ==
  LET up    == t.child[Opposite(s)][n]
      moved == t.child[s][up]
      t1    == SetParent(SetChild(t, Opposite(s), n, moved), moved, n)
      t2    == Redirected(t1, n, up)
  IN  SetParent(SetParent(SetChild(t2, s, up, n), up, t.parent[n]), n, up)

----------------------------------------------------------------------------
\* The walks.

\* cceph_*_map_search, and the way down of cceph_*_map_insert: the last node
\* on the way to key k.
SearchEnd(t, k) ==
  LET From[n \in Keys] ==
        LET next == t.child[IF k < n THEN "left" ELSE "right"][n]
        IN  IF k = n \/ next = Nil THEN n ELSE From[next]
  IN  IF t.root = Nil THEN Nil ELSE From[t.root]

\* The last node of the walk from n to side s.
Outermost(t, n, s) ==
  LET From[m \in Keys] == IF t.child[s][m] = Nil THEN m ELSE From[t.child[s][m]]
  IN  From[n]

\* cceph_rb_first and cceph_rb_last
FirstNode(t) == IF t.root = Nil THEN Nil ELSE Outermost(t, t.root, "left")
LastNode(t)  == IF t.root = Nil THEN Nil ELSE Outermost(t, t.root, "right")

\* mutation: the way up ends at the first parent.
NeighbourOneUp(t, n, s) ==
  IF t.child[s][n] # Nil THEN Outermost(t, t.child[s][n], Opposite(s)) ELSE t.parent[n]

\* cceph_rb_next (s = "right") and cceph_rb_prev (s = "left")
Neighbour(t, n, s) ==
  LET Up[m \in Keys] == LET p == t.parent[m]
                        IN  IF p # Nil /\ m = t.child[s][p] THEN Up[p] ELSE p
  IN  IF t.child[s][n] # Nil THEN Outermost(t, t.child[s][n], Opposite(s)) ELSE Up[n]

----------------------------------------------------------------------------
\* cceph_*_map_insert: cceph_rb_link_node, then cceph_rb_insert_color.

Insert(k) ==
  LET p == SearchEnd(tree, k)
      s == IF k < p THEN "left" ELSE "right"
      linked == SetChild(SetChild(Painted(SetParent(tree, k, p), k, "red"), "left", k, Nil), "right", k, Nil)
  IN  /\ pc = "idle"
      /\ p # k
      /\ tree' = IF p = Nil THEN [linked EXCEPT !.root = k] ELSE SetChild(linked, s, p, k)
      /\ keys' = keys \cup {k}
      /\ pc' = "insert"
      /\ node' = k
      /\ UNCHANGED parent

InsertLoops == pc = "insert" /\ IsRed(tree, tree.parent[node])

\* A red uncle: both go black, and the grandparent takes the node's place.
InsertRecolor ==
  LET p     == tree.parent[node]
      g     == tree.parent[p]
      uncle == tree.child[Opposite(SideOf(tree, p, g))][g]
  IN  /\ InsertLoops
      /\ IsRed(tree, uncle)
      /\ tree' = Painted(Painted(Painted(tree, uncle, "black"), p, "black"), g, "red")
      /\ node' = g
      /\ UNCHANGED <<keys, pc, parent>>

\* mutation: a node on the inner side is not turned outwards first.
InsertRotateOnce ==
  LET p == tree.parent[node]
      g == tree.parent[p]
      s == SideOf(tree, p, g)
  IN  /\ InsertLoops
      /\ IsBlack(tree, tree.child[Opposite(s)][g])
      /\ tree' = Rotate(Painted(Painted(tree, p, "black"), g, "red"), g, Opposite(s))
      /\ UNCHANGED <<keys, pc, node, parent>>

InsertRotate ==
  LET p     == tree.parent[node]
      g     == tree.parent[p]
      s     == SideOf(tree, p, g)
      inner == tree.child[Opposite(s)][p] = node
      t     == IF inner THEN Rotate(tree, p, s) ELSE tree
      top   == IF inner THEN node ELSE p
  IN  /\ InsertLoops
      /\ IsBlack(tree, tree.child[Opposite(s)][g])
      /\ tree' = Rotate(Painted(Painted(t, top, "black"), g, "red"), g, Opposite(s))
      /\ node' = IF inner THEN p ELSE node
      /\ UNCHANGED <<keys, pc, parent>>

InsertEnds ==
  /\ pc = "insert"
  /\ ~InsertLoops
  /\ tree' = Painted(tree, tree.root, "black")
  /\ pc' = "idle"
  /\ node' = Nil
  /\ UNCHANGED <<keys, parent>>

----------------------------------------------------------------------------
\* cceph_rb_erase.  The memory of the node is the caller's again.
Cleared(t, n) ==
  Painted(SetParent(SetChild(SetChild(t, "left", n, Nil), "right", n, Nil), n, Nil), n, "red")

\* A node was taken out above child, whose parent is p now.
Unlinked(k, t, child, p, color) ==
  /\ tree' = Cleared(t, k)
  /\ keys' = keys \ {k}
  /\ IF color = "black" THEN pc' = "erase" /\ node' = child /\ parent' = p
                        ELSE UNCHANGED <<pc, node, parent>>

EraseOuter(k) ==
  LET child == IF tree.child["left"][k] = Nil THEN tree.child["right"][k] ELSE tree.child["left"][k]
      p     == tree.parent[k]
  IN  /\ pc = "idle"
      /\ k \in keys
      /\ \E s \in Sides : tree.child[s][k] = Nil
      /\ Unlinked(k, Redirected(SetParent(tree, child, p), k, child), child, p, tree.color[k])

\* What was below old on side s in the tree before is below new in t.
Adopted(t, before, s, old, new) ==
  SetParent(SetChild(t, s, new, before.child[s][old]), before.child[s][old], new)

\* mutation: what was right of the node is not given to its successor.
EraseInnerDropping(k) ==
  LET next  == Outermost(tree, tree.child["right"][k], "left")
      child == tree.child["right"][next]
      p     == tree.parent[next]
      t1    == Redirected(tree, k, next)
      t2    == IF p = k THEN t1 ELSE SetChild(SetParent(t1, child, p), "left", p, child)
      t3    == Painted(SetParent(t2, next, tree.parent[k]), next, tree.color[k])
  IN  /\ pc = "idle"
      /\ k \in keys
      /\ \A s \in Sides : tree.child[s][k] # Nil
      /\ Unlinked(k, Adopted(t3, tree, "left", k, next), child, IF p = k THEN next ELSE p, tree.color[next])

\* The successor takes the place and the color of a node with two children.
EraseInner(k) ==
  LET next  == Outermost(tree, tree.child["right"][k], "left")
      child == tree.child["right"][next]
      p     == tree.parent[next]
      t1    == Redirected(tree, k, next)
      t2    == IF p = k THEN t1
               ELSE Adopted(SetChild(SetParent(t1, child, p), "left", p, child), tree, "right", k, next)
      t3    == Painted(SetParent(t2, next, tree.parent[k]), next, tree.color[k])
  IN  /\ pc = "idle"
      /\ k \in keys
      /\ \A s \in Sides : tree.child[s][k] # Nil
      /\ Unlinked(k, Adopted(t3, tree, "left", k, next), child, IF p = k THEN next ELSE p, tree.color[next])

\* __cceph_rb_erase_color
EraseLoops == pc = "erase" /\ IsBlack(tree, node) /\ node # tree.root

\* A red sibling is first turned to the top, which leaves a black one.
BlackSibling(s) ==
  LET other == tree.child[Opposite(s)][parent]
  IN  IF IsRed(tree, other)
      THEN Rotate(Painted(Painted(tree, other, "black"), parent, "red"), parent, s)
      ELSE tree

\* mutation: the deficit stays where it was.
EraseRecolorStaying ==
  LET s     == SideOf(tree, node, parent)
      t     == BlackSibling(s)
      other == t.child[Opposite(s)][parent]
  IN  /\ EraseLoops
      /\ \A side \in Sides : IsBlack(t, t.child[side][other])
      /\ tree' = Painted(t, other, "red")
      /\ UNCHANGED <<keys, pc, node, parent>>

EraseRecolor ==
  LET s     == SideOf(tree, node, parent)
      t     == BlackSibling(s)
      other == t.child[Opposite(s)][parent]
  IN  /\ EraseLoops
      /\ \A side \in Sides : IsBlack(t, t.child[side][other])
      /\ tree' = Painted(t, other, "red")
      /\ node' = parent
      /\ parent' = t.parent[parent]
      /\ UNCHANGED <<keys, pc>>

EraseRotate ==
  LET s     == SideOf(tree, node, parent)
      o     == Opposite(s)
      t     == BlackSibling(s)
      other == t.child[o][parent]
      t1    == IF IsRed(t, t.child[o][other]) THEN t
               ELSE Rotate(Painted(Painted(t, t.child[s][other], "black"), other, "red"), other, o)
      top   == t1.child[o][parent]
      t2    == Painted(Painted(Painted(t1, top, t1.color[parent]), parent, "black"),
                       t1.child[o][top], "black")
  IN  /\ EraseLoops
      /\ \E side \in Sides : IsRed(t, t.child[side][other])
      /\ tree' = Rotate(t2, parent, s)
      /\ node' = tree'.root
      /\ UNCHANGED <<keys, pc, parent>>

EraseEnds ==
  /\ pc = "erase"
  /\ ~EraseLoops
  /\ tree' = IF node = Nil THEN tree ELSE Painted(tree, node, "black")
  /\ pc' = "idle"
  /\ node' = Nil /\ parent' = Nil
  /\ UNCHANGED keys

----------------------------------------------------------------------------

Rebalance == \/ InsertRecolor \/ InsertRotate \/ InsertEnds
             \/ EraseRecolor \/ EraseRotate \/ EraseEnds

Next == \/ \E k \in Keys : Insert(k) \/ EraseOuter(k) \/ EraseInner(k)
        \/ Rebalance

Spec == Init /\ [][Next]_vars

----------------------------------------------------------------------------
\* The properties.

\* The pointers between nodes go both ways, and none leads to an erased node.
Linked ==
  /\ {tree.root, node, parent} \subseteq keys \cup {Nil}
  /\ \A n \in keys : /\ tree.parent[n] \in keys \cup {Nil}
                     /\ tree.parent[n] = Nil <=> tree.root = n
                     /\ \A s \in Sides : LET c == tree.child[s][n]
                                         IN  c # Nil => c \in keys /\ tree.parent[c] = n

\* The tree from left to right.
InOrder ==
  LET From[n \in Keys] ==
        LET Part(s) == IF tree.child[s][n] = Nil THEN << >> ELSE From[tree.child[s][n]]
        IN  Part("left") \o <<n>> \o Part("right")
  IN  IF tree.root = Nil THEN << >> ELSE From[tree.root]

\* At every step the tree, from left to right, is the keys of the map in their
\* order: no rotation and no exchange with a successor loses or misplaces one,
\* or leaves a pointer behind.
HoldsItsKeys ==
  /\ Linked
  /\ ToSet(InOrder) = keys
  /\ \A i, j \in DOMAIN InOrder : i < j => InOrder[i] < InOrder[j]

\* Node n and the nodes above it.
PathTo(n) == LET From[m \in Keys] == IF tree.parent[m] = Nil THEN {m} ELSE {m} \cup From[tree.parent[m]]
             IN  From[n]

\* How far down the loop is.  A missing node is below parent.
Level == IF node = Nil THEN Cardinality(PathTo(parent)) + 1 ELSE Cardinality(PathTo(node))

\* The blacks on the way to the missing child on side s of n, one more if the
\* way leads through the place where the erase loop knows one to be missing.
Blacks(n, s) ==
  Cardinality({m \in PathTo(n) : tree.color[m] = "black"})
    + IF pc = "erase" /\ (node \in PathTo(n) \/ <<node, parent, SideOf(tree, Nil, n)>> = <<Nil, n, s>>)
      THEN 1 ELSE 0

\* The tree is red-black when no call is in progress: every way down has the
\* same number of blacks, no red node has a red parent and the root is black.
\* While one is, the loop's node is the only one that breaks these rules, or
\* is short of a black.
RedBlack ==
  /\ \A n, m \in keys, s, r \in Sides :
       tree.child[s][n] = Nil /\ tree.child[r][m] = Nil => Blacks(n, s) = Blacks(m, r)
  /\ \A n \in keys : IsRed(tree, n) /\ (n = tree.root \/ IsRed(tree, tree.parent[n])) =>
                       \/ pc # "idle" /\ n = node
                       \/ pc = "erase" /\ tree.parent[n] = node

\* Between two calls searches and walks are right: search finds exactly the
\* keys of the map, first and last are its bounds, next and prev neighbours.
WalksAreRight ==
  pc = "idle" =>
    /\ \A k \in Keys : SearchEnd(tree, k) = k <=> k \in keys
    /\ keys # {} => FirstNode(tree) = Min(keys) /\ LastNode(tree) = Max(keys)
    /\ \A n \in keys :
         LET above == {k \in keys : k > n}
             below == {k \in keys : k < n}
         IN  /\ Neighbour(tree, n, "right") = IF above = {} THEN Nil ELSE Min(above)
             /\ Neighbour(tree, n, "left") = IF below = {} THEN Nil ELSE Max(below)

\* Each pass of a loop that goes on is nearer to the root than the one before.
\* With a pass always possible, every insert and every erase returns.
PassesClimb == [][(InsertLoops \/ EraseLoops) /\ (InsertLoops \/ EraseLoops)' => Level' < Level]_vars
=============================================================================
