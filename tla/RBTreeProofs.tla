---------------------------- MODULE RBTreeProofs ----------------------------
(***************************************************************************)
(* The red-black tree for every set of keys: the tree holds its keys in    *)
(* their order, it is red-black whenever no call is in progress, and the   *)
(* searches and walks find what they are to find.                          *)
(*                                                                         *)
(* TreeInv is the inductive invariant.  It speaks of two things the code   *)
(* does not store: sub, the nodes at and below each node, by which the     *)
(* tree is a tree and in order (Pointers, Ordered), and bh, the blacks     *)
(* below each node, by which it is balanced but for one place (Balanced).  *)
(* Every stored pointer gets its case; a step of the code is a few turns   *)
(* and paintings, each of which keeps these (RotateKeeps, PaintKeeps) and  *)
(* changes sub and bh at the nodes it touches only.  Taking out a node     *)
(* with two children is taking out its successor and then renaming it      *)
(* (SuccessorRenames).                                                     *)
(*                                                                         *)
(* The walks of the code are recursive functions in the model.  What one   *)
(* finds is stated of sub, and holds of all nodes because a lowest one, or *)
(* an uppermost one, where it does not would contradict the walk's own     *)
(* step (Lowest, Downwards).                                               *)
(***************************************************************************)
EXTENDS RBTree, FiniteSetTheorems, SequenceTheorems, WellFoundedInduction, TLAPS

\* What rb_color may read.
Colors == {"red", "black"}

\* The states of the tree's memory: every pointer a node or null.
Trees == [child  : [Sides -> [Keys -> Keys \cup {Nil}]],
          parent : [Keys -> Keys \cup {Nil}],
          color  : [Keys -> Colors],
          root   : Keys \cup {Nil}]

\* The pointers of the tree of the nodes K go both ways.
Pointers(t, K) ==
  /\ t \in Trees /\ K \subseteq Keys
  /\ t.root \in K \cup {Nil}
  /\ \A n \in Keys \ K, s \in Sides : t.child[s][n] = Nil
  /\ \A n \in K : /\ t.parent[n] \in K \cup {Nil}
                  /\ t.parent[n] = Nil <=> t.root = n
                  /\ t.parent[n] # Nil => \E s \in Sides : t.child[s][t.parent[n]] = n
                  /\ \A s \in Sides : LET c == t.child[s][n]
                                      IN  c # Nil => c \in K /\ t.parent[c] = n

\* x is on side s of y in the order of the keys.
Before(s, x, y) == IF s = "left" THEN x < y ELSE y < x

\* The nodes below a child.
Under(sub, c) == IF c = Nil THEN {} ELSE sub[c]

\* sub[n] is the nodes at and below n, those on either side in order.
Ordered(t, K, sub) ==
  /\ sub \in [K -> SUBSET K]
  /\ Under(sub, t.root) = K
  /\ \A n \in K : sub[n] = {n} \cup Under(sub, t.child["left"][n]) \cup Under(sub, t.child["right"][n])
  /\ \A n \in K, s \in Sides : \A x \in Under(sub, t.child[s][n]) : Before(s, x, n)

\* The two sides of a node, as the symmetric branches of the C file use them.
LEMMA SidesAre ==
  ASSUME NEW s \in Sides
  PROVE  /\ Opposite(s) \in Sides /\ Opposite(s) # s /\ Opposite(Opposite(s)) = s
         /\ \A r \in Sides : r = s \/ r = Opposite(s)
BY DEF Sides, Opposite

\* A null pointer is no node.
LEMMA NilIsNoKey == Nil \notin Keys /\ \A n \in Keys : n \in Nat \ {0}
BY KeysAssumption DEF Nil

\* A node is on one side of its parent only.
LEMMA OneSide ==
  ASSUME NEW t, NEW K, NEW sub, Pointers(t, K), Ordered(t, K, sub),
         NEW p \in K, NEW s \in Sides, t.child[s][p] # Nil
  PROVE  /\ t.child[Opposite(s)][p] # t.child[s][p]
         /\ SideOf(t, t.child[s][p], p) = s
<1> DEFINE c == t.child[s][p]
<1>1. c \in K /\ c \in sub[c] /\ c \in Nat /\ p \in Nat
  BY NilIsNoKey DEF Pointers, Ordered
<1>2. Before(s, c, p)
  BY <1>1 DEF Ordered, Under
<1>3. t.child[Opposite(s)][p] # c
  <2> SUFFICES ASSUME t.child[Opposite(s)][p] = c PROVE FALSE
    OBVIOUS
  <2>1. Before(Opposite(s), c, p)
    BY <1>1, SidesAre DEF Ordered, Under
  <2> QED BY <1>1, <1>2, <2>1 DEF Before, Opposite, Sides
<1> QED BY <1>3 DEF SideOf, Opposite, Sides

----------------------------------------------------------------------------
\* What the stores in the tree do, a field at a time.

\* u is t after the child of n on side s was stored.
ChildIsSet(t, u, s, n, c) ==
  /\ u \in Trees
  /\ \A r \in Sides, m \in Keys : u.child[r][m] = IF m = n /\ r = s THEN c ELSE t.child[r][m]
  /\ \A m \in Keys : u.parent[m] = t.parent[m] /\ u.color[m] = t.color[m]
  /\ u.root = t.root

\* u is t after the parent of n was stored.
ParentIsSet(t, u, n, p) ==
  /\ u \in Trees
  /\ \A r \in Sides, m \in Keys : u.child[r][m] = t.child[r][m]
  /\ \A m \in Keys : u.parent[m] = (IF m = n THEN p ELSE t.parent[m]) /\ u.color[m] = t.color[m]
  /\ u.root = t.root

\* u is t after the color of n was stored.
ColorIsSet(t, u, n, c) ==
  /\ u \in Trees
  /\ \A r \in Sides, m \in Keys : u.child[r][m] = t.child[r][m]
  /\ \A m \in Keys : u.parent[m] = t.parent[m] /\ u.color[m] = IF m = n THEN c ELSE t.color[m]
  /\ u.root = t.root

\* u is t with new where old was: below old's parent, or at the root.
Replaced(t, u, old, new) ==
  LET p == t.parent[old]
  IN  /\ u \in Trees
      /\ \A r \in Sides, m \in Keys :
           u.child[r][m] = IF m = p /\ r = SideOf(t, old, p) THEN new ELSE t.child[r][m]
      /\ \A m \in Keys : u.parent[m] = t.parent[m] /\ u.color[m] = t.color[m]
      /\ u.root = IF p = Nil THEN new ELSE t.root

\* A store in a child pointer (n->rb_left = c) changes that one only.
LEMMA ChildSet ==
  ASSUME NEW t \in Trees, NEW s \in Sides, NEW n \in Keys, NEW c \in Keys \cup {Nil}
  PROVE  ChildIsSet(t, SetChild(t, s, n, c), s, n, c) /\ SetChild(t, s, n, c) \in Trees
BY DEF Trees, SetChild, ChildIsSet

\* A store in a parent pointer (rb_set_parent) changes that one only.
LEMMA ParentSet ==
  ASSUME NEW t \in Trees, NEW n \in Keys \cup {Nil}, NEW p \in Keys \cup {Nil}
  PROVE  ParentIsSet(t, SetParent(t, n, p), n, p) /\ SetParent(t, n, p) \in Trees
BY NilIsNoKey DEF Trees, SetParent, ParentIsSet

\* A store of a color (rb_set_color) changes that one only.
LEMMA ColorSet ==
  ASSUME NEW t \in Trees, NEW n \in Keys, NEW c \in Colors
  PROVE  ColorIsSet(t, Painted(t, n, c), n, c) /\ Painted(t, n, c) \in Trees
BY DEF Trees, Painted, ColorIsSet

\* The child pointer, or the root, that led to old leads to new.
LEMMA RedirectIs ==
  ASSUME NEW t \in Trees, NEW old \in Keys, NEW new \in Keys \cup {Nil}
  PROVE  Replaced(t, Redirected(t, old, new), old, new) /\ Redirected(t, old, new) \in Trees
<1> DEFINE p == t.parent[old]
<1>1. CASE p = Nil
  BY <1>1, NilIsNoKey DEF Redirected, Trees, Replaced
<1>2. CASE p # Nil
  <2>1. p \in Keys /\ SideOf(t, old, p) \in Sides
    BY <1>2 DEF Trees, SideOf, Sides
  <2>2. Redirected(t, old, new) = SetChild(t, SideOf(t, old, p), p, new)
    BY <1>2 DEF Redirected
  <2>3. ChildIsSet(t, SetChild(t, SideOf(t, old, p), p, new), SideOf(t, old, p), p, new)
    BY <2>1, ChildSet
  <2> QED BY <1>2, <2>2, <2>3 DEF ChildIsSet, Replaced
<1> QED BY <1>1, <1>2

\* u is the tree t where n went down on side s and up took its place.
Turned(t, u, n, up, s) ==
  LET o == Opposite(s)
      p == t.parent[n]
      c == t.child[s][up]
  IN  /\ u \in Trees
      /\ u.child[o][n] = c /\ u.child[s][up] = n
      /\ u.child[s][n] = t.child[s][n] /\ u.child[o][up] = t.child[o][up]
      /\ \A r \in Sides, m \in Keys \ {n, up} :
           u.child[r][m] = IF m = p /\ r = SideOf(t, n, p) THEN up ELSE t.child[r][m]
      /\ u.parent[up] = p /\ u.parent[n] = up
      /\ \A m \in Keys \ {n, up} : u.parent[m] = IF m = c THEN n ELSE t.parent[m]
      /\ \A m \in Keys : u.color[m] = t.color[m]
      /\ u.root = IF p = Nil THEN up ELSE t.root

\* rb_rotate_left and rb_rotate_right exchange a node and its child, pointer by
\* pointer.
LEMMA RotateTurns ==
  ASSUME NEW t \in Trees, NEW n \in Keys, NEW s \in Sides,
         t.child[Opposite(s)][n] \in Keys, t.child[Opposite(s)][n] # n,
         t.parent[n] \notin {n, t.child[Opposite(s)][n]},
         t.child[s][t.child[Opposite(s)][n]] \notin {n, t.child[Opposite(s)][n]}
  PROVE  Turned(t, Rotate(t, n, s), n, t.child[Opposite(s)][n], s)
<1> DEFINE o == Opposite(s)
           up == t.child[o][n]
           p == t.parent[n]
           c == t.child[s][up]
           t0 == SetChild(t, o, n, c)
           t1 == SetParent(t0, c, n)
           t2 == Redirected(t1, n, up)
           t3 == SetChild(t2, s, up, n)
           t4 == SetParent(t3, up, p)
           u == SetParent(t4, n, up)
<1>1. u = Rotate(t, n, s)
  BY DEF Rotate
<1>2. /\ o \in Sides /\ o # s /\ (\A r \in Sides : r = s \/ r = o)
      /\ c \in Keys \cup {Nil} /\ p \in Keys \cup {Nil} /\ up \in Keys
      /\ up # n /\ p \notin {n, up} /\ c \notin {n, up}
  BY SidesAre DEF Trees
<1>3. Turned(t, u, n, up, s) = Turned(t, Rotate(t, n, s), n, t.child[Opposite(s)][n], s)
  BY <1>1
<1>4. p = t.parent[n] /\ c = t.child[s][up] /\ up = t.child[o][n] /\ o = Opposite(s)
  OBVIOUS
<1> HIDE DEF o, up, p, c
<1>5. ChildIsSet(t, t0, o, n, c) /\ t0 \in Trees
  BY <1>2, ChildSet
<1> HIDE DEF t0
<1>6. ParentIsSet(t0, t1, c, n) /\ t1 \in Trees
  BY <1>2, <1>5, ParentSet
<1> HIDE DEF t1
<1>7. p = Nil \/ SideOf(t1, n, p) = SideOf(t, n, p)
  BY <1>2, <1>4, <1>5, <1>6 DEF SideOf, Sides, ChildIsSet, ParentIsSet
<1>8. t1.parent[n] = p
  BY <1>2, <1>4, <1>5, <1>6 DEF ChildIsSet, ParentIsSet
<1>9. Replaced(t1, t2, n, up) /\ t2 \in Trees
  BY <1>2, <1>6, RedirectIs
<1> HIDE DEF t2
<1>10. ChildIsSet(t2, t3, s, up, n) /\ t3 \in Trees
  BY <1>2, <1>9, ChildSet
<1> HIDE DEF t3
<1>11. ParentIsSet(t3, t4, up, p) /\ t4 \in Trees
  BY <1>2, <1>10, ParentSet
<1> HIDE DEF t4
<1>12. ParentIsSet(t4, u, n, up)
  BY <1>2, <1>11, ParentSet
<1> HIDE DEF u
<1>13. ASSUME NEW r \in Sides, NEW m \in Keys
       PROVE  u.child[r][m] = IF m = up /\ r = s THEN n
                              ELSE IF m = p /\ r = SideOf(t1, n, p) THEN up
                              ELSE IF m = n /\ r = o THEN c ELSE t.child[r][m]
  <2>1. t1.child[r][m] = IF m = n /\ r = o THEN c ELSE t.child[r][m]
    BY <1>5, <1>6 DEF ChildIsSet, ParentIsSet
  <2>2. t2.child[r][m] = IF m = p /\ r = SideOf(t1, n, p) THEN up ELSE t1.child[r][m]
    BY <1>8, <1>9 DEF Replaced
  <2>3. t3.child[r][m] = IF m = up /\ r = s THEN n ELSE t2.child[r][m]
    BY <1>10 DEF ChildIsSet
  <2>4. u.child[r][m] = t3.child[r][m]
    BY <1>11, <1>12 DEF ParentIsSet
  <2> QED BY ONLY <2>1, <2>2, <2>3, <2>4
<1>14. ASSUME NEW m \in Keys
       PROVE  /\ u.parent[m] = IF m = n THEN up ELSE IF m = up THEN p ELSE IF m = c THEN n ELSE t.parent[m]
              /\ u.color[m] = t.color[m]
  <2>1. t1.parent[m] = (IF m = c THEN n ELSE t.parent[m]) /\ t1.color[m] = t.color[m]
    BY <1>5, <1>6 DEF ChildIsSet, ParentIsSet
  <2>2. t3.parent[m] = t1.parent[m] /\ t3.color[m] = t1.color[m]
    BY <1>9, <1>10 DEF Replaced, ChildIsSet
  <2>3. /\ u.parent[m] = IF m = n THEN up ELSE IF m = up THEN p ELSE t3.parent[m]
        /\ u.color[m] = t3.color[m]
    BY <1>11, <1>12 DEF ParentIsSet
  <2> QED BY ONLY <2>1, <2>2, <2>3
<1>15. u \in Trees /\ u.root = IF p = Nil THEN up ELSE t.root
  <2>1. t1.root = t.root
    BY <1>5, <1>6 DEF ChildIsSet, ParentIsSet
  <2>2. t2.root = IF p = Nil THEN up ELSE t1.root
    BY <1>8, <1>9 DEF Replaced
  <2>3. u \in Trees /\ u.root = t2.root
    BY <1>10, <1>11, <1>12 DEF ChildIsSet, ParentIsSet
  <2> QED BY ONLY <2>1, <2>2, <2>3
<1>16. Turned(t, u, n, up, s)
  <2>1. /\ u.child[o][n] = c /\ u.child[s][up] = n
        /\ u.child[s][n] = t.child[s][n] /\ u.child[o][up] = t.child[o][up]
    BY <1>2, <1>13
  <2>2. ASSUME NEW r \in Sides, NEW m \in Keys \ {n, up}
        PROVE  u.child[r][m] = IF m = p /\ r = SideOf(t, n, p) THEN up ELSE t.child[r][m]
    <3>1. m # p \/ SideOf(t1, n, p) = SideOf(t, n, p)
      BY <1>7, NilIsNoKey
    <3> QED BY <1>13, <3>1
  <2>3. u.parent[up] = p /\ u.parent[n] = up
    BY <1>2, <1>14
  <2>4. ASSUME NEW m \in Keys \ {n, up} PROVE u.parent[m] = IF m = c THEN n ELSE t.parent[m]
    BY <1>14
  <2> QED BY <1>4, <1>14, <1>15, <2>1, <2>2, <2>3, <2>4 DEF Turned
<1> QED BY <1>3, <1>16

\* A child is below its parent, and nothing is below itself.
LEMMA ChildIsUnder ==
  ASSUME NEW t, NEW K, NEW sub, Pointers(t, K), Ordered(t, K, sub),
         NEW n \in K, NEW s \in Sides, t.child[s][n] # Nil
  PROVE  /\ t.child[s][n] \in K /\ t.parent[t.child[s][n]] = n
         /\ t.child[s][n] \in sub[t.child[s][n]]
         /\ sub[t.child[s][n]] \subseteq sub[n]
         /\ n \notin sub[t.child[s][n]]
         /\ \A x \in sub[t.child[s][n]] : Before(s, x, n)
<1> DEFINE c == t.child[s][n]
<1>1. c \in K /\ t.parent[c] = n
  BY DEF Pointers
<1>2. c \in sub[c] /\ \A x \in sub[c] : Before(s, x, n)
  <2>1. c \in sub[c]
    BY <1>1 DEF Ordered
  <2>2. Under(sub, c) = sub[c]
    BY DEF Under
  <2> QED BY <2>1, <2>2 DEF Ordered
<1>3. sub[c] \subseteq sub[n]
  BY <1>1 DEF Ordered, Under, Sides
<1>4. n \in Nat
  BY NilIsNoKey DEF Pointers
<1>5. n \notin sub[c]
  BY <1>2, <1>4 DEF Before
<1> QED BY <1>1, <1>2, <1>3, <1>5

\* The same in a tree of the nodes K.
TurnIn(t, u, K, sub, n, up, s) ==
  /\ Pointers(t, K) /\ Ordered(t, K, sub)
  /\ n \in K /\ s \in Sides
  /\ up = t.child[Opposite(s)][n] /\ up # Nil
  /\ Turned(t, u, n, up, s)
  /\ up \in K /\ up # n /\ t.parent[up] = n
  /\ t.parent[n] \in (K \cup {Nil}) \ {n, up}
  /\ t.child[s][up] \in (K \cup {Nil}) \ {n, up}

\* In a tree of the nodes K the pointers a rotation stores are of different nodes.
LEMMA RotateIn ==
  ASSUME NEW t, NEW K, NEW sub, Pointers(t, K), Ordered(t, K, sub),
         NEW n \in K, NEW s \in Sides, t.child[Opposite(s)][n] # Nil
  PROVE  TurnIn(t, Rotate(t, n, s), K, sub, n, t.child[Opposite(s)][n], s)
<1> DEFINE o == Opposite(s)
           up == t.child[o][n]
           p == t.parent[n]
           c == t.child[s][up]
<1>1. o \in Sides /\ t \in Trees /\ n \in Keys /\ K \subseteq Keys
  BY SidesAre DEF Pointers
<1>2. up \in K /\ t.parent[up] = n /\ up \in sub[up] /\ n \notin sub[up]
  BY <1>1, ChildIsUnder
<1>3. c \in K \cup {Nil} /\ (c # Nil => c \in sub[up] /\ up \notin sub[c] /\ c \in sub[c])
  <2>1. c # Nil => c \in K /\ c \in sub[c] /\ sub[c] \subseteq sub[up] /\ up \notin sub[c]
    BY <1>2, ChildIsUnder
  <2> QED BY <2>1
<1>4. c \notin {n, up}
  BY <1>1, <1>2, <1>3, NilIsNoKey
<1>5. p \in K \cup {Nil} /\ (p # Nil => \E r \in Sides : t.child[r][p] = n)
  BY DEF Pointers
<1>6. p \notin {n, up}
  <2>1. CASE p = Nil
    BY <1>1, <1>2, <2>1, NilIsNoKey
  <2>2. CASE p # Nil
    <3>1. PICK r \in Sides : t.child[r][p] = n
      BY <1>5, <2>2
    <3>2. n # Nil /\ p \in K
      BY <1>1, <1>5, <2>2, NilIsNoKey
    <3>3. n \in sub[n] /\ sub[n] \subseteq sub[p] /\ p \notin sub[n]
      BY <3>1, <3>2, ChildIsUnder
    <3> QED BY <1>2, <3>3
  <2> QED BY <2>1, <2>2
<1>7. Turned(t, Rotate(t, n, s), n, up, s)
  BY <1>1, <1>2, <1>4, <1>6, RotateTurns
<1> QED BY <1>1, <1>2, <1>3, <1>4, <1>5, <1>6, <1>7 DEF TurnIn

\* After a rotation child and parent pointers agree again.
LEMMA TurnKeepsPointers ==
  ASSUME NEW t, NEW u, NEW K, NEW sub, NEW n, NEW up, NEW s, TurnIn(t, u, K, sub, n, up, s)
  PROVE  Pointers(u, K)
<1> USE DEF TurnIn
<1> DEFINE o == Opposite(s)
           p == t.parent[n]
           c == t.child[s][up]
<1>1. u \in Trees /\ K \subseteq Keys
  BY DEF Turned, Pointers
<1>2. u.root \in K \cup {Nil}
  BY DEF Turned, Pointers
<1>3. ASSUME NEW m \in Keys \ K, NEW r \in Sides PROVE u.child[r][m] = Nil
  BY NilIsNoKey DEF Turned, Pointers
<1>4. /\ o \in Sides /\ o # s /\ (\A r \in Sides : r = s \/ r = o)
      /\ n # Nil /\ up # Nil /\ {n, up} \subseteq Keys /\ Nil \notin K
  BY <1>1, SidesAre, NilIsNoKey DEF Pointers
<1>5. /\ \A m \in K, r \in Sides : t.child[r][m] # Nil => t.child[r][m] \in K /\ t.parent[t.child[r][m]] = m
      /\ \A m \in K : t.parent[m] = Nil <=> t.root = m
      /\ \A m \in K : t.parent[m] \in K \cup {Nil}
      /\ \A m \in K : t.parent[m] # Nil => \E r \in Sides : t.child[r][t.parent[m]] = m
  BY DEF Pointers
<1>6. p # Nil => SideOf(t, n, p) \in Sides /\ t.child[SideOf(t, n, p)][p] = n
  <2> SUFFICES ASSUME p # Nil PROVE SideOf(t, n, p) \in Sides /\ t.child[SideOf(t, n, p)][p] = n
    OBVIOUS
  <2>1. PICK r \in Sides : t.child[r][p] = n
    BY <1>5
  <2>2. SideOf(t, t.child[r][p], p) = r
    BY <1>4, <2>1, OneSide
  <2> QED BY <2>1, <2>2
<1>7. t.child[o][up] # Nil => t.child[o][up] # c /\ t.child[o][up] \in K \ {n, up}
  <2> SUFFICES ASSUME t.child[o][up] # Nil PROVE t.child[o][up] # c /\ t.child[o][up] \in K \ {n, up}
    OBVIOUS
  <2>1. t.child[Opposite(o)][up] # t.child[o][up] /\ Opposite(o) = s
    BY <1>4, OneSide, SidesAre
  <2>2. t.child[o][up] \in K /\ t.parent[t.child[o][up]] = up
    BY <1>4, <1>5
  <2> QED BY <2>1, <2>2
<1>8. t.child[s][n] # Nil => t.child[s][n] \in K \ {n, up, c}
  <2> SUFFICES ASSUME t.child[s][n] # Nil PROVE t.child[s][n] \in K \ {n, up, c}
    OBVIOUS
  <2>1. t.child[Opposite(s)][n] # t.child[s][n]
    BY OneSide
  <2>2. t.child[s][n] \in K /\ t.parent[t.child[s][n]] = n
    BY <1>5
  <2> QED BY <1>5, <2>1, <2>2
<1>9. c # Nil => t.parent[c] = up
  BY <1>5
<1>10. /\ u.child[o][n] = c /\ u.child[s][up] = n
       /\ u.child[s][n] = t.child[s][n] /\ u.child[o][up] = t.child[o][up]
       /\ \A r \in Sides, m \in Keys \ {n, up} :
            u.child[r][m] = IF m = p /\ r = SideOf(t, n, p) THEN up ELSE t.child[r][m]
       /\ u.parent[up] = p /\ u.parent[n] = up
       /\ \A m \in Keys \ {n, up} : u.parent[m] = IF m = c THEN n ELSE t.parent[m]
       /\ u.root = IF p = Nil THEN up ELSE t.root
  BY DEF Turned
<1>11. ASSUME NEW m \in K
       PROVE  /\ u.parent[m] \in K \cup {Nil}
              /\ u.parent[m] = Nil <=> u.root = m
              /\ u.parent[m] # Nil => \E r \in Sides : u.child[r][u.parent[m]] = m
              /\ \A r \in Sides : u.child[r][m] # Nil => u.child[r][m] \in K /\ u.parent[u.child[r][m]] = m
  <2> HIDE DEF o, p, c
  <2>a. o = Opposite(s) /\ p = t.parent[n] /\ c = t.child[s][up] /\ t.child[o][n] = up
    BY DEF o, p, c
  <2>b. p \in (K \cup {Nil}) \ {n, up} /\ c \in (K \cup {Nil}) \ {n, up}
    BY DEF p, c
  <2>1. CASE m = up
    <3>1. p # Nil => p \in Keys \ {n, up} /\ u.child[SideOf(t, n, p)][p] = up
      BY <1>1, <1>6, <1>10, <2>b
    <3>2. u.root = up <=> p = Nil
      BY <1>4, <1>5, <1>10, <2>a, <2>b
    <3>3. t.child[o][up] # Nil => u.parent[t.child[o][up]] = up
      BY <1>1, <1>4, <1>5, <1>7, <1>10
    <3>4. u.parent[m] \in K \cup {Nil} /\ (u.parent[m] = Nil <=> u.root = m)
      BY <1>4, <1>10, <2>1, <2>b, <3>2
    <3>5. u.parent[m] # Nil => \E r \in Sides : u.child[r][u.parent[m]] = m
      BY <1>6, <1>10, <2>1, <3>1
    <3>6. ASSUME NEW r \in Sides, u.child[r][m] # Nil
          PROVE  u.child[r][m] \in K /\ u.parent[u.child[r][m]] = m
      <4>1. CASE r = s
        <5>1. u.child[r][m] = n /\ u.parent[n] = up
          BY ONLY <1>10, <2>1, <4>1
        <5> QED BY <2>1, <5>1
      <4>2. CASE r = o
        <5>1. u.child[r][m] = t.child[o][up]
          BY ONLY <1>10, <2>1, <4>2
        <5> QED BY ONLY <1>7, <2>1, <3>3, <3>6, <5>1
      <4> QED BY <1>4, <4>1, <4>2
    <3> QED BY <3>4, <3>5, <3>6
  <2>2. CASE m = n
    <3>1. u.root # n
      BY <1>5, <1>10, <2>a, <2>b
    <3>2. c # Nil => u.parent[c] = n
      BY <1>1, <1>10, <2>b
    <3>3. t.child[s][n] # Nil => u.parent[t.child[s][n]] = n
      BY <1>1, <1>5, <1>8, <1>10
    <3> QED BY <1>4, <1>8, <1>10, <2>2, <2>b, <3>1, <3>2, <3>3
  <2>3. CASE m \notin {n, up}
    <3>1. m \in Keys \ {n, up} /\ m # Nil
      BY <1>1, <2>3, NilIsNoKey
    <3>2. /\ u.parent[m] \in K \cup {Nil}
          /\ u.parent[m] = Nil <=> u.root = m
      <4>1. u.parent[m] = IF m = c THEN n ELSE t.parent[m]
        BY ONLY <1>10, <3>1
      <4>2. t.parent[m] \in K \cup {Nil} /\ (t.parent[m] = Nil <=> t.root = m)
        BY <1>5
      <4>3. u.root = m <=> t.root = m
        <5>1. up # m /\ n # m
          BY ONLY <2>3
        <5>2. t.root = n <=> p = Nil
          BY <1>5, <2>a
        <5> QED BY ONLY <1>10, <5>1, <5>2
      <4>4. m = c => t.parent[m] = up /\ up # Nil /\ n \in K /\ n # Nil
        BY <1>4, <1>9, <3>1
      <4> QED BY ONLY <4>1, <4>2, <4>3, <4>4
    <3>3. ASSUME u.parent[m] # Nil PROVE \E r \in Sides : u.child[r][u.parent[m]] = m
      <4>1. CASE m = c
        BY <1>4, <1>10, <3>1, <4>1
      <4>2. CASE m # c
        <5>1. u.parent[m] = t.parent[m] /\ t.parent[m] \in K
          BY <1>5, <1>10, <3>1, <3>3, <4>2
        <5>2. PICK r \in Sides : t.child[r][t.parent[m]] = m
          BY <1>4, <1>5, <5>1
        <5>3. PICK q \in K : q = t.parent[m]
          BY <5>1
        <5>4. u.child[r][q] = m
          <6>1. CASE q = n
            BY <1>4, <1>10, <2>3, <2>a, <5>2, <5>3, <6>1
          <6>2. CASE q = up
            BY <1>4, <1>10, <2>a, <4>2, <5>2, <5>3, <6>2
          <6>3. CASE q \notin {n, up}
            BY <1>1, <1>4, <1>6, <1>10, <2>3, <5>2, <5>3, <6>3
          <6> QED BY <6>1, <6>2, <6>3
        <5> QED BY <5>1, <5>3, <5>4
      <4> QED BY <4>1, <4>2
    <3>4. ASSUME NEW r \in Sides, u.child[r][m] # Nil
          PROVE  u.child[r][m] \in K /\ u.parent[u.child[r][m]] = m
      <4>1. CASE m = p /\ r = SideOf(t, n, p)
        BY <1>10, <3>1, <4>1
      <4>2. CASE ~(m = p /\ r = SideOf(t, n, p))
        <5>1. u.child[r][m] = t.child[r][m]
          BY <1>10, <3>1, <4>2
        <5>2. PICK d \in K : d = t.child[r][m]
          BY <1>5, <3>4, <5>1
        <5>3. t.parent[d] = m /\ d # Nil
          BY <1>5, <3>4, <5>1, <5>2
        <5>4. d # n
          <6> SUFFICES ASSUME d = n PROVE FALSE
            OBVIOUS
          <6>1. m = p
            BY <2>a, <5>3
          <6>2. SideOf(t, t.child[r][m], m) = r
            BY <3>4, <5>1, OneSide
          <6> QED BY <4>2, <5>2, <6>1, <6>2
        <5>5. d # up /\ d # c
          BY <1>9, <2>3, <5>3
        <5> QED BY <1>1, <1>10, <5>1, <5>2, <5>3, <5>4, <5>5
      <4> QED BY <4>1, <4>2
    <3> QED BY <3>2, <3>3, <3>4
  <2> QED BY <2>1, <2>2, <2>3
<1> QED BY <1>1, <1>2, <1>3, <1>11 DEF Pointers

\* Before is a strict order, and the one of the other side its reverse.
LEMMA BeforeIs ==
  ASSUME NEW s \in Sides, NEW x \in Nat, NEW y \in Nat
  PROVE  /\ Before(Opposite(s), x, y) <=> Before(s, y, x)
         /\ \A z \in Nat : Before(s, x, y) /\ Before(s, y, z) => Before(s, x, z)
         /\ ~Before(s, x, x)
BY DEF Before, Opposite, Sides

\* A node and what is below it, whichever side comes first.
LEMMA NodesOf ==
  ASSUME NEW t, NEW K, NEW sub, Ordered(t, K, sub), NEW n \in K, NEW s \in Sides
  PROVE  /\ sub[n] = {n} \cup Under(sub, t.child[s][n]) \cup Under(sub, t.child[Opposite(s)][n])
         /\ sub[n] \subseteq K
BY DEF Ordered, Opposite, Sides

\* What a turn leaves alone: but for n and up, only who is the child of the
\* parent of n.
LEMMA TurnElsewhere ==
  ASSUME NEW t, NEW u, NEW K, NEW sub, NEW n, NEW up, NEW s, TurnIn(t, u, K, sub, n, up, s),
         NEW m \in K \ {n, up}, NEW r \in Sides
  PROVE  \/ t.child[r][m] = n /\ u.child[r][m] = up
         \/ t.child[r][m] \in (K \cup {Nil}) \ {n, up} /\ u.child[r][m] = t.child[r][m]
<1> USE DEF TurnIn
<1> DEFINE p == t.parent[n]
<1>1. n # Nil /\ Nil \notin K /\ K \subseteq Keys
  BY NilIsNoKey DEF Pointers
<1>2. \A q \in K, a \in Sides : t.child[a][q] # Nil => t.child[a][q] \in K /\ t.parent[t.child[a][q]] = q
  BY DEF Pointers
<1>3. \A q \in Keys \ {n, up} : u.child[r][q] = IF q = p /\ r = SideOf(t, n, p) THEN up ELSE t.child[r][q]
  BY DEF Turned
<1>4. m \in Keys \ {n, up} /\ t.child[r][m] # up
  BY <1>1, <1>2
<1>5. CASE t.child[r][m] = n
  <2>1. p = m
    BY <1>1, <1>2, <1>5
  <2>2. SideOf(t, n, p) = r
    BY <1>1, <1>5, <2>1, OneSide
  <2> QED BY <1>3, <1>4, <1>5, <2>1, <2>2
<1>6. CASE t.child[r][m] # n
  <2>1. m = p => r # SideOf(t, n, p)
    <3> SUFFICES ASSUME m = p, r = SideOf(t, n, p) PROVE FALSE
      OBVIOUS
    <3>1. PICK q \in Sides : t.child[q][p] = n
      BY <1>1 DEF Pointers
    <3>2. SideOf(t, t.child[q][p], p) = q
      BY <1>1, <3>1, OneSide
    <3> QED BY <1>6, <3>1, <3>2
  <2> QED BY <1>2, <1>3, <1>4, <1>6, <2>1
<1> QED BY <1>5, <1>6

\* The nodes below each after the turn.
TurnedSub(t, sub, n, up, s) ==
  [sub EXCEPT ![up] = sub[n],
              ![n] = {n} \cup Under(sub, t.child[s][n]) \cup Under(sub, t.child[s][up])]

\* A rotation keeps every key on its side of every other.
LEMMA TurnKeepsOrder ==
  ASSUME NEW t, NEW u, NEW K, NEW sub, NEW n, NEW up, NEW s, TurnIn(t, u, K, sub, n, up, s)
  PROVE  Ordered(u, K, TurnedSub(t, sub, n, up, s))
<1>0. \A m \in K \ {n, up}, r \in Sides :
        \/ t.child[r][m] = n /\ u.child[r][m] = up
        \/ t.child[r][m] \in (K \cup {Nil}) \ {n, up} /\ u.child[r][m] = t.child[r][m]
  BY TurnElsewhere
<1> USE DEF TurnIn
<1> DEFINE o == Opposite(s)
           p == t.parent[n]
           c == t.child[s][up]
           d == t.child[o][up]
           e == t.child[s][n]
           sub2 == TurnedSub(t, sub, n, up, s)
<1>1. /\ o \in Sides /\ o # s /\ (\A r \in Sides : r = s \/ r = o) /\ Opposite(o) = s
      /\ n # Nil /\ Nil \notin K /\ K \subseteq Nat /\ K \subseteq Keys
  BY SidesAre, NilIsNoKey DEF Pointers
<1>2. /\ \A m \in K, r \in Sides : t.child[r][m] # Nil => t.child[r][m] \in K /\ t.parent[t.child[r][m]] = m
      /\ \A m \in K : t.parent[m] = Nil <=> t.root = m
      /\ t.root \in K \cup {Nil}
  BY DEF Pointers
<1>3. /\ sub \in [K -> SUBSET K]
      /\ Under(sub, t.root) = K
      /\ \A m \in K, r \in Sides : sub[m] = {m} \cup Under(sub, t.child[r][m]) \cup Under(sub, t.child[Opposite(r)][m])
      /\ \A m \in K, r \in Sides : \A x \in Under(sub, t.child[r][m]) : Before(r, x, m)
  BY NodesOf DEF Ordered
<1>4. d \in (K \cup {Nil}) \ {n, up} /\ e \in (K \cup {Nil}) \ {n, up}
  <2>1. d # n /\ d # up
    BY <1>1, ChildIsUnder
  <2>2. e # Nil => t.child[Opposite(s)][n] # e
    BY OneSide
  <2>3. e # n
    BY <1>1, ChildIsUnder
  <2> QED BY <1>1, <1>2, <2>1, <2>2, <2>3
<1>5. /\ sub2 \in [K -> SUBSET K] /\ sub2[up] = sub[n]
      /\ sub2[n] = {n} \cup Under(sub, e) \cup Under(sub, c)
      /\ \A m \in K \ {n, up} : sub2[m] = sub[m]
  <2>1. {n} \cup Under(sub, e) \cup Under(sub, c) \subseteq K
    BY <1>1, <1>2, <1>3 DEF Under
  <2> QED BY <1>3, <2>1 DEF TurnedSub
<1>6. \A m \in (K \cup {Nil}) \ {n, up} : Under(sub2, m) = Under(sub, m)
  BY <1>5 DEF Under
<1>7. Under(sub2, up) = sub[n] /\ Under(sub2, n) = sub2[n] /\ Under(sub, up) = sub[up] /\ Under(sub, n) = sub[n]
  BY <1>1, <1>5 DEF Under
<1>8. /\ u.child[o][n] = c /\ u.child[s][up] = n /\ u.child[s][n] = e /\ u.child[o][up] = d
      /\ \A r \in Sides, m \in Keys \ {n, up} :
           u.child[r][m] = IF m = p /\ r = SideOf(t, n, p) THEN up ELSE t.child[r][m]
      /\ u.root = IF p = Nil THEN up ELSE t.root
  BY DEF Turned
<1> HIDE DEF sub2
<1>9. Under(sub2, u.root) = K
  <2>1. CASE p = Nil
    <3>1. u.root = up /\ t.root = n
      BY <1>2, <1>8, <2>1
    <3> QED BY ONLY <1>3, <1>7, <3>1
  <2>2. CASE p # Nil
    <3>1. u.root = t.root /\ t.root # n /\ t.root # up
      BY <1>1, <1>2, <1>8, <2>2
    <3>2. t.root \in (K \cup {Nil}) \ {n, up}
      BY <1>2, <3>1
    <3> QED BY ONLY <1>3, <1>6, <3>1, <3>2
  <2> QED BY <2>1, <2>2
<1>10. sub[n] = {n} \cup Under(sub, e) \cup sub[up] /\ sub[up] = {up} \cup Under(sub, c) \cup Under(sub, d)
  BY <1>1, <1>3, <1>7
<1>11. sub2[up] = {up} \cup Under(sub2, u.child[s][up]) \cup Under(sub2, u.child[o][up])
  <2>1. u.child[s][up] = n /\ u.child[o][up] = d
    BY ONLY <1>8
  <2>2. Under(sub2, d) = Under(sub, d)
    BY ONLY <1>4, <1>6
  <2>3. sub2[n] = {n} \cup Under(sub, e) \cup Under(sub, c) /\ sub2[up] = sub[n]
    BY ONLY <1>5
  <2>4. Under(sub2, n) = sub2[n]
    BY ONLY <1>7
  <2> QED BY ONLY <1>10, <2>1, <2>2, <2>3, <2>4
<1>12. sub2[n] = {n} \cup Under(sub2, u.child[s][n]) \cup Under(sub2, u.child[o][n])
  <2>1. u.child[s][n] = e /\ u.child[o][n] = c
    BY ONLY <1>8
  <2>2. c \in (K \cup {Nil}) \ {n, up}
    OBVIOUS
  <2>3. Under(sub2, e) = Under(sub, e) /\ Under(sub2, c) = Under(sub, c)
    BY ONLY <1>4, <1>6, <2>2
  <2>4. sub2[n] = {n} \cup Under(sub, e) \cup Under(sub, c)
    BY ONLY <1>5
  <2> QED BY ONLY <2>1, <2>3, <2>4
<1>13. ASSUME NEW m \in K \ {n, up}, NEW r \in Sides
       PROVE  Under(sub2, u.child[r][m]) = Under(sub, t.child[r][m])
  <2>1. \/ t.child[r][m] = n /\ u.child[r][m] = up
        \/ t.child[r][m] \in (K \cup {Nil}) \ {n, up} /\ u.child[r][m] = t.child[r][m]
    BY <1>0
  <2> QED BY <1>6, <1>7, <2>1
<1>14. ASSUME NEW m \in K
       PROVE  sub2[m] = {m} \cup Under(sub2, u.child["left"][m]) \cup Under(sub2, u.child["right"][m])
  <2>1. CASE m = up
    BY <1>1, <1>11, <2>1 DEF Sides, Opposite
  <2>2. CASE m = n
    BY <1>1, <1>12, <2>2 DEF Sides, Opposite
  <2>3. CASE m \notin {n, up}
    <3>1. sub2[m] = sub[m]
      BY <1>5, <2>3
    <3>2. sub[m] = {m} \cup Under(sub, t.child["left"][m]) \cup Under(sub, t.child["right"][m])
      BY DEF Ordered
    <3>3. "left" \in Sides /\ "right" \in Sides
      BY DEF Sides
    <3> QED BY <1>13, <2>3, <3>1, <3>2, <3>3
  <2> QED BY <2>1, <2>2, <2>3
<1>15. ASSUME NEW m \in K, NEW r \in Sides, NEW x \in Under(sub2, u.child[r][m])
       PROVE  Before(r, x, m)
  <2>1. CASE m = n /\ r = o
    <3>1. x \in Under(sub, c) /\ x \in Under(sub, up)
      <4>1. u.child[r][m] = c
        BY ONLY <1>8, <2>1
      <4>2. c \in (K \cup {Nil}) \ {n, up}
        OBVIOUS
      <4>3. Under(sub2, c) = Under(sub, c)
        BY ONLY <1>6, <4>2
      <4>4. Under(sub, c) \subseteq Under(sub, up)
        BY ONLY <1>7, <1>10
      <4> QED BY <4>1, <4>3, <4>4
    <3> QED BY <1>1, <1>3, <2>1, <3>1
  <2>2. CASE m = n /\ r = s
    <3>1. u.child[r][m] = e /\ Under(sub2, e) = Under(sub, e)
      BY ONLY <1>4, <1>6, <1>8, <2>2
    <3>2. x \in Under(sub, t.child[s][n])
      BY <3>1
    <3>3. \A y \in Under(sub, t.child[s][n]) : Before(s, y, n)
      BY <1>3
    <3> QED BY <2>2, <3>2, <3>3
  <2>3. CASE m = up /\ r = o
    <3>1. x \in Under(sub, d)
      BY <1>4, <1>6, <1>8, <2>3
    <3>2. \A y \in Under(sub, d) : Before(o, y, up)
      BY <1>1, <1>3
    <3> QED BY <2>3, <3>1, <3>2
  <2>4. CASE m = up /\ r = s
    <3>1. x \in sub2[n]
      BY <1>7, <1>8, <2>4
    <3>2. Before(o, up, n) /\ up \in Nat /\ n \in Nat
      BY <1>1, <1>3, <1>7, <1>10
    <3>3. Before(s, n, up)
      BY <3>2, BeforeIs
    <3>4. CASE x = n
      BY <2>4, <3>3, <3>4
    <3>5. CASE x \in Under(sub, c)
      BY <1>3, <2>4, <3>5
    <3>6. CASE x \in Under(sub, e)
      <4>1. x \in Nat /\ Before(s, x, n)
        BY <1>1, <1>3, <1>4, <3>6 DEF Under
      <4> QED BY <2>4, <3>2, <3>3, <4>1, BeforeIs
    <3> QED BY <1>5, <3>1, <3>4, <3>5, <3>6
  <2>5. CASE m \notin {n, up}
    BY <1>3, <1>13, <2>5
  <2> QED BY <1>1, <2>1, <2>2, <2>3, <2>4, <2>5
<1>16. sub2 \in [K -> SUBSET K]
  BY <1>5
<1>17. Ordered(u, K, sub2)
  BY <1>9, <1>14, <1>15, <1>16 DEF Ordered
<1> QED BY <1>17 DEF sub2

\* So a rotation makes of a tree a tree.
LEMMA RotateKeeps ==
  ASSUME NEW t, NEW K, NEW sub, Pointers(t, K), Ordered(t, K, sub),
         NEW n \in K, NEW s \in Sides, t.child[Opposite(s)][n] # Nil
  PROVE  /\ TurnIn(t, Rotate(t, n, s), K, sub, n, t.child[Opposite(s)][n], s)
         /\ Pointers(Rotate(t, n, s), K)
         /\ Ordered(Rotate(t, n, s), K, TurnedSub(t, sub, n, t.child[Opposite(s)][n], s))
<1>1. TurnIn(t, Rotate(t, n, s), K, sub, n, t.child[Opposite(s)][n], s)
  BY RotateIn
<1> QED BY <1>1, TurnKeepsPointers, TurnKeepsOrder

\* Colors matter to neither.
SameShape(t, u) ==
  /\ u \in Trees
  /\ \A r \in Sides, m \in Keys : u.child[r][m] = t.child[r][m]
  /\ \A m \in Keys : u.parent[m] = t.parent[m]
  /\ u.root = t.root

\* Painting nodes leaves a tree a tree.
LEMMA SameShapeKeeps ==
  ASSUME NEW t, NEW u, NEW K, Pointers(t, K), SameShape(t, u)
  PROVE  /\ Pointers(u, K)
         /\ \A sub : Ordered(t, K, sub) => Ordered(u, K, sub)
         /\ \A m \in Keys : \A n : SideOf(u, n, m) = SideOf(t, n, m)
<1>1. Pointers(u, K)
  BY NilIsNoKey DEF Pointers, SameShape
<1>2. ASSUME NEW sub, Ordered(t, K, sub) PROVE Ordered(u, K, sub)
  <2>1. \A r \in Sides, m \in K : u.child[r][m] = t.child[r][m]
    BY DEF SameShape, Pointers
  <2>2. u.root = t.root
    BY DEF SameShape
  <2>3. "left" \in Sides /\ "right" \in Sides
    BY DEF Sides
  <2> QED BY <1>2, <2>1, <2>2, <2>3 DEF Ordered
<1>3. \A m \in Keys : \A n : SideOf(u, n, m) = SideOf(t, n, m)
  BY DEF SameShape, SideOf, Sides
<1> QED BY <1>1, <1>2, <1>3

\* Painting twice does not change the shape either.
LEMMA SameShapeTwice ==
  ASSUME NEW t, NEW u, NEW v, SameShape(t, u), SameShape(u, v)
  PROVE  SameShape(t, v)
BY DEF SameShape

\* u is the tree t where n has color c.
Repainted(t, u, K, n, c) ==
  /\ Pointers(u, K) /\ SameShape(t, u)
  /\ \A m \in K : u.color[m] = IF m = n THEN c ELSE t.color[m]

\* rb_set_color changes the color of its node, and no pointer.
LEMMA PaintKeeps ==
  ASSUME NEW t, NEW K, Pointers(t, K), NEW n \in K, NEW c \in Colors
  PROVE  Repainted(t, Painted(t, n, c), K, n, c) /\ Pointers(Painted(t, n, c), K)
<1>1. t \in Trees /\ n \in Keys
  BY DEF Pointers
<1>2. ColorIsSet(t, Painted(t, n, c), n, c)
  BY <1>1, ColorSet
<1>3. SameShape(t, Painted(t, n, c))
  BY <1>2 DEF SameShape, ColorIsSet
<1>4. Pointers(Painted(t, n, c), K)
  BY <1>3, SameShapeKeeps
<1> QED BY <1>2, <1>3, <1>4 DEF ColorIsSet, Repainted, Pointers

----------------------------------------------------------------------------
\* Blacks.

\* What a node adds to the blacks on a way through it.
Weight(t, n)  == IF t.color[n] = "black" THEN 1 ELSE 0
\* The blacks below a child, none below a missing one.
Height(bh, c) == IF c = Nil THEN 0 ELSE bh[c]

\* Below n there are as many blacks on either side, one short on side ss of sp.
Even(t, bh, sp, ss, n) ==
  \A s \in Sides :
    bh[n] = Weight(t, n) + Height(bh, t.child[s][n]) + IF n = sp /\ s = ss THEN 1 ELSE 0

\* bh counts the blacks of every way down, with side ss of sp one short.
Balanced(t, K, bh, sp, ss) == bh \in [K -> Nat] /\ \A n \in K : Even(t, bh, sp, ss, n)

\* The root is black and the child of a red node: but for a, and what is below b.
RedsApart(t, K, a, b) ==
  /\ IsRed(t, t.root) => t.root = a
  /\ \A n \in K : IsRed(t, n) /\ IsRed(t, t.parent[n]) => n = a \/ t.parent[n] = b

\* The tree while an insert is at its node n.
Inserting(t, K, n) ==
  /\ Pointers(t, K)
  /\ \E sub : Ordered(t, K, sub)
  /\ \E bh : Balanced(t, K, bh, Nil, "left")
  /\ RedsApart(t, K, n, Nil)
  /\ n \in K /\ IsRed(t, n)

\* A node is the child of its parent.
LEMMA ParentOf ==
  ASSUME NEW t, NEW K, NEW sub, Pointers(t, K), Ordered(t, K, sub),
         NEW n \in K, t.parent[n] # Nil
  PROVE  /\ t.parent[n] \in K
         /\ SideOf(t, n, t.parent[n]) \in Sides
         /\ t.child[SideOf(t, n, t.parent[n])][t.parent[n]] = n
         /\ t.parent[n] # n
         /\ n \in sub[n] /\ sub[n] \subseteq sub[t.parent[n]] /\ t.parent[n] \notin sub[n]
<1> DEFINE p == t.parent[n]
<1>1. p \in K /\ n # Nil
  BY NilIsNoKey DEF Pointers
<1>2. PICK r \in Sides : t.child[r][p] = n
  BY DEF Pointers
<1>3. SideOf(t, n, p) = r
  BY <1>1, <1>2, OneSide
<1>4. n \in sub[n] /\ sub[n] \subseteq sub[p] /\ p \notin sub[n]
  BY <1>1, <1>2, ChildIsUnder
<1> QED BY <1>1, <1>2, <1>3, <1>4

\* Node n, its parent p, on side s of its own, g.
Family(t, K, n, p, g, s) ==
  /\ p = t.parent[n] /\ g = t.parent[p]
  /\ p \in K /\ g \in K /\ n \in K /\ p # n /\ g # n /\ g # p
  /\ s \in Sides /\ s = SideOf(t, p, g) /\ t.child[s][g] = p

\* Where the loop of an insert is: below a red parent, which has a black one.
LEMMA InsertPlace ==
  ASSUME NEW t, NEW K, NEW n, Inserting(t, K, n), IsRed(t, t.parent[n])
  PROVE  \E p, g, s : /\ Family(t, K, n, p, g, s)
                      /\ t.color[n] = "red" /\ t.color[p] = "red" /\ t.color[g] # "red"
<1> DEFINE p == t.parent[n]
           g == t.parent[p]
<1>1. Pointers(t, K) /\ RedsApart(t, K, n, Nil) /\ n \in K /\ IsRed(t, n) /\ IsRed(t, p)
  BY DEF Inserting
<1>2. PICK sub : Ordered(t, K, sub)
  BY DEF Inserting
<1>3. p # Nil /\ n # Nil /\ t.color[n] = "red" /\ t.color[p] = "red"
  BY <1>1 DEF IsRed
<1>4. /\ p \in K /\ p # n
      /\ SideOf(t, n, p) \in Sides /\ t.child[SideOf(t, n, p)][p] = n
      /\ n \in sub[n] /\ sub[n] \subseteq sub[p] /\ p \notin sub[n]
  BY <1>1, <1>2, <1>3, ParentOf
<1>5. g # Nil
  <2> SUFFICES ASSUME g = Nil PROVE FALSE
    OBVIOUS
  <2>1. t.root = p
    BY <1>1, <1>4 DEF Pointers
  <2> QED BY <1>1, <1>4, <2>1 DEF RedsApart
<1>6. /\ g \in K /\ g # p
      /\ SideOf(t, p, g) \in Sides /\ t.child[SideOf(t, p, g)][g] = p
      /\ p \in sub[p] /\ sub[p] \subseteq sub[g] /\ g \notin sub[p]
  BY <1>1, <1>2, <1>4, <1>5, ParentOf
<1>7. t.color[g] # "red"
  BY <1>1, <1>4, <1>5 DEF RedsApart, IsRed
<1>8. Family(t, K, n, p, g, SideOf(t, p, g))
  BY <1>1, <1>4, <1>6 DEF Family
<1> QED BY <1>3, <1>7, <1>8

\* A red uncle: the loop of an insert paints three nodes and goes on at the
\* grandparent (rbtree.c, the first branch of cceph_rb_insert_color).
LEMMA RecolorInserts ==
  ASSUME NEW t, NEW K, NEW n, NEW p, NEW g, NEW s, NEW uncle, Inserting(t, K, n),
         Family(t, K, n, p, g, s), t.color[n] = "red", t.color[p] = "red", t.color[g] # "red",
         uncle \in {t.child[Opposite(s)][g]}, IsRed(t, uncle)
  PROVE  LET u == Painted(Painted(Painted(t, uncle, "black"), p, "black"), g, "red")
         IN  Inserting(u, K, g) /\ SameShape(t, u)
<1> DEFINE t1 == Painted(t, uncle, "black")
           t2 == Painted(t1, p, "black")
           u == Painted(t2, g, "red")
<1>1. /\ p \in K /\ g \in K /\ n \in K /\ p # n /\ g # n /\ g # p
      /\ s \in Sides /\ t.child[s][g] = p
  BY DEF Family
<1>f. t.parent[n] = p /\ t.parent[p] = g
  BY DEF Family
<1>2. Pointers(t, K) /\ RedsApart(t, K, n, Nil)
  BY DEF Inserting
<1>3. PICK sub : Ordered(t, K, sub)
  BY DEF Inserting
<1>4. PICK bh : Balanced(t, K, bh, Nil, "left")
  BY DEF Inserting
<1>5. uncle # Nil /\ t.color[uncle] = "red"
  BY DEF IsRed
<1>6. uncle \in K /\ t.parent[uncle] = g /\ uncle # g /\ uncle # p /\ uncle # n
  <2>1. PICK o \in Sides : o = Opposite(s)
    BY <1>1, SidesAre
  <2>2. t.child[o][g] = uncle
    BY <2>1
  <2>3. t.child[o][g] \in K /\ t.parent[t.child[o][g]] = g
        /\ t.child[o][g] \in sub[t.child[o][g]] /\ g \notin sub[t.child[o][g]]
    <3>1. t.child[o][g] # Nil
      BY <1>5, <2>2
    <3> QED BY <1>1, <1>2, <1>3, <3>1, ChildIsUnder
  <2>4. t.child[s][g] # Nil
    BY <1>1, <1>2, NilIsNoKey DEF Pointers
  <2>5. t.child[Opposite(s)][g] # t.child[s][g]
    BY <1>1, <1>2, <1>3, <2>4, OneSide
  <2>6. uncle # p
    BY <1>1, <2>5
  <2>7. uncle \in K /\ t.parent[uncle] = g /\ uncle # g
    BY <2>2, <2>3
  <2> QED BY <1>1, <1>f, <2>6, <2>7
<1>7. "black" \in Colors /\ "red" \in Colors
  BY DEF Colors
<1>8. Repainted(t, t1, K, uncle, "black") /\ Pointers(t1, K)
  BY <1>2, <1>6, <1>7, PaintKeeps
<1> HIDE DEF t1
<1>9. Repainted(t1, t2, K, p, "black") /\ Pointers(t2, K)
  BY <1>1, <1>7, <1>8, PaintKeeps
<1> HIDE DEF t2
<1>10. Repainted(t2, u, K, g, "red") /\ Pointers(u, K)
  BY <1>1, <1>7, <1>9, PaintKeeps
<1> HIDE DEF u
<1>11. SameShape(t, u)
  <2>1. SameShape(t, t1) /\ SameShape(t1, t2) /\ SameShape(t2, u)
    BY <1>8, <1>9, <1>10 DEF Repainted
  <2>2. SameShape(t, t2)
    BY <2>1, SameShapeTwice
  <2> QED BY <2>1, <2>2, SameShapeTwice
<1>12. \A m \in K : u.color[m] = IF m = g THEN "red" ELSE IF m = p \/ m = uncle THEN "black" ELSE t.color[m]
  <2>1. \A m \in K : t1.color[m] = IF m = uncle THEN "black" ELSE t.color[m]
    BY <1>8 DEF Repainted
  <2>2. \A m \in K : t2.color[m] = IF m = p THEN "black" ELSE t1.color[m]
    BY <1>9 DEF Repainted
  <2>3. \A m \in K : u.color[m] = IF m = g THEN "red" ELSE t2.color[m]
    BY <1>10 DEF Repainted
  <2> QED BY <2>1, <2>2, <2>3
<1>13. Ordered(u, K, sub)
  BY <1>2, <1>3, <1>11, SameShapeKeeps
<1>14. IsRed(u, g)
  <2>1. u.color[g] = "red" /\ g # Nil
    BY <1>1, <1>2, <1>12, NilIsNoKey DEF Pointers
  <2> QED BY <2>1 DEF IsRed
<1>n. /\ K \subseteq Keys /\ Nil \notin K
      /\ \A m \in K, r \in Sides : u.child[r][m] = t.child[r][m]
      /\ \A m \in K : u.parent[m] = t.parent[m] /\ t.parent[m] \in K \cup {Nil}
      /\ u.root = t.root /\ t.root \in K \cup {Nil}
      /\ \A m \in K, r \in Sides : t.child[r][m] # Nil => t.child[r][m] \in K /\ t.parent[t.child[r][m]] = m
  BY <1>2, <1>11, NilIsNoKey DEF Pointers, SameShape
<1>15. RedsApart(u, K, g, Nil)
  <2>1. ASSUME IsRed(u, u.root) PROVE u.root = g
    <3> SUFFICES ASSUME t.root # g PROVE FALSE
      BY <1>n
    <3>1. t.root \in K /\ t.color[t.root] = "red"
      BY <1>12, <1>n, <2>1 DEF IsRed
    <3>2. t.root = n
      BY <1>2, <3>1, <1>n DEF RedsApart, IsRed
    <3> QED BY <1>1, <1>2, <1>f, <1>n, <3>2 DEF Pointers
  <2>2. ASSUME NEW m \in K, IsRed(u, m), IsRed(u, u.parent[m]) PROVE m = g
    <3> SUFFICES ASSUME m # g PROVE FALSE
      OBVIOUS
    <3>1. PICK q \in K : q = t.parent[m] /\ IsRed(u, q)
      BY <1>n, <2>2 DEF IsRed
    <3>2. m \notin {p, uncle} /\ t.color[m] = "red"
      BY <1>12, <2>2 DEF IsRed
    <3>3. CASE q = g
      <4>1. PICK r \in Sides : t.child[r][g] = m
        <5>1. t.parent[m] = g /\ g # Nil
          BY <1>n, <3>1, <3>3
        <5> QED BY <1>2, <5>1 DEF Pointers
      <4>2. r = s \/ r = Opposite(s)
        BY <1>1, SidesAre
      <4> QED BY <1>1, <3>2, <4>1, <4>2
    <3>4. CASE q # g
      <4>1. t.color[q] = "red" /\ q # p
        BY <1>12, <3>1, <3>4 DEF IsRed
      <4>2. IsRed(t, m) /\ IsRed(t, q)
        BY <1>n, <3>2, <4>1 DEF IsRed
      <4>3. m = n \/ q = Nil
        BY <1>2, <3>1, <4>2 DEF RedsApart
      <4> QED BY <1>f, <1>n, <3>1, <4>1, <4>3
    <3> QED BY <3>3, <3>4
  <2> QED BY <2>1, <2>2 DEF RedsApart
<1>16. Balanced(u, K, [bh EXCEPT ![p] = @ + 1, ![uncle] = @ + 1], Nil, "left")
  <2> DEFINE bh2 == [bh EXCEPT ![p] = @ + 1, ![uncle] = @ + 1]
  <2>1. bh \in [K -> Nat]
    BY <1>4 DEF Balanced
  <2>2. /\ bh2 \in [K -> Nat]
        /\ bh2[p] = bh[p] + 1 /\ bh2[uncle] = bh[uncle] + 1
        /\ \A m \in K \ {p, uncle} : bh2[m] = bh[m]
    BY <1>1, <1>6, <2>1
  <2> HIDE DEF bh2
  <2>3. \A m \in K, r \in Sides : bh[m] = Weight(t, m) + Height(bh, t.child[r][m])
    BY <1>4, <1>n, <2>1 DEF Balanced, Even, Height, Weight
  <2>4. ASSUME NEW m \in K, NEW r \in Sides
        PROVE  bh2[m] = Weight(u, m) + Height(bh2, t.child[r][m])
    <3>1. PICK h \in Nat : h = Height(bh, t.child[r][m])
      BY <1>n, <2>1 DEF Height
    <3>2. bh[m] = Weight(t, m) + h
      BY <2>3, <3>1
    <3>3. CASE m = g
      <4>1. t.child[r][g] = p \/ t.child[r][g] = uncle
        BY <1>1, SidesAre
      <4>2. Height(bh2, t.child[r][g]) = h + 1
        BY <1>1, <1>n, <1>5, <2>2, <3>1, <3>3, <4>1 DEF Height
      <4>3. Weight(u, g) = 0 /\ Weight(t, g) = 1 /\ bh2[g] = bh[g]
        <5>1. t.color[g] \in Colors /\ u.color[g] = "red"
          BY <1>1, <1>2, <1>12 DEF Pointers, Trees
        <5> QED BY <1>1, <1>6, <2>2, <5>1 DEF Weight, Colors
      <4> QED BY <3>2, <3>3, <4>2, <4>3
    <3>4. CASE m # g
      <4>1. Height(bh2, t.child[r][m]) = h
        <5>1. t.child[r][m] # p /\ t.child[r][m] # uncle
          BY <1>1, <1>6, <1>f, <1>n, <3>4
        <5> QED BY <1>n, <2>2, <3>1, <5>1 DEF Height
      <4>2. CASE m = p \/ m = uncle
        <5>1. Weight(u, m) = 1 /\ Weight(t, m) = 0
          BY <1>1, <1>5, <1>12, <3>4, <4>2 DEF Weight
        <5>2. bh2[m] = bh[m] + 1
          BY <2>2, <4>2
        <5> QED BY <3>2, <4>1, <5>1, <5>2
      <4>3. CASE m \notin {p, uncle}
        <5>1. Weight(u, m) = Weight(t, m)
          BY <1>12, <3>4, <4>3 DEF Weight
        <5> QED BY <2>2, <3>2, <4>1, <4>3, <5>1
      <4> QED BY <4>2, <4>3
    <3> QED BY <3>3, <3>4
  <2>5. ASSUME NEW m \in K PROVE Even(u, bh2, Nil, "left", m)
    <3>1. m # Nil /\ \A r \in Sides : bh2[m] = Weight(u, m) + Height(bh2, u.child[r][m])
      BY <1>n, <2>4
    <3>2. \A r \in Sides : Weight(u, m) + Height(bh2, u.child[r][m]) \in Nat
      BY <2>2, <3>1
    <3> QED BY <3>1, <3>2 DEF Even
  <2>6. Balanced(u, K, bh2, Nil, "left")
    BY <2>2, <2>5 DEF Balanced
  <2> QED BY <2>6 DEF bh2
<1>17. Inserting(u, K, g)
  BY <1>1, <1>10, <1>13, <1>14, <1>15, <1>16 DEF Inserting
<1> QED BY <1>11, <1>17 DEF u, t2, t1

\* A turn where n and up meet.
TurnNear(t, u, K, n, up, s) ==
  LET o == Opposite(s)
  IN  /\ u.child[o][n] = t.child[s][up] /\ u.child[s][up] = n
      /\ u.child[s][n] = t.child[s][n] /\ u.child[o][up] = t.child[o][up]
      /\ t.child[o][n] = up
      /\ {t.child[s][up], t.child[s][n], t.child[o][up]} \subseteq (K \cup {Nil}) \ {n, up}
      /\ u.parent[up] = t.parent[n] /\ u.parent[n] = up
      /\ \A m \in K \ {n, up} : u.parent[m] = IF m = t.child[s][up] THEN n ELSE t.parent[m]
      /\ \A m \in K : u.color[m] = t.color[m]
      /\ u.root = IF t.parent[n] = Nil THEN up ELSE t.root
      /\ n \in K /\ up \in K /\ n # up /\ s \in Sides /\ Nil \notin K
      /\ t.parent[up] = n /\ t.parent[n] \in (K \cup {Nil}) \ {n, up}

\* What a rotation does to the two nodes that meet.
LEMMA TurnIsNear ==
  ASSUME NEW t, NEW u, NEW K, NEW sub, NEW n, NEW up, NEW s, TurnIn(t, u, K, sub, n, up, s)
  PROVE  TurnNear(t, u, K, n, up, s)
<1> USE DEF TurnIn
<1> DEFINE o == Opposite(s)
           d == t.child[o][up]
           e == t.child[s][n]
<1>1. o \in Sides /\ o # s /\ Nil \notin K /\ K \subseteq Keys
  BY SidesAre, NilIsNoKey DEF Pointers
<1>2. \A m \in K, r \in Sides : t.child[r][m] # Nil => t.child[r][m] \in K /\ t.parent[t.child[r][m]] = m
  BY DEF Pointers
<1>3. d \in (K \cup {Nil}) \ {n, up}
  <2>1. d # n
    BY <1>1, <1>2
  <2>2. d # up
    BY <1>1, <1>2
  <2> QED BY <1>1, <1>2, <2>1, <2>2
<1>4. e \in (K \cup {Nil}) \ {n, up}
  <2>1. e # Nil => t.child[o][n] # e
    BY OneSide
  <2>2. e # n
    BY <1>1, <1>2
  <2> QED BY <1>1, <1>2, <2>1, <2>2
<1> HIDE DEF TurnIn
<1>5. /\ Turned(t, u, n, up, s) /\ t.child[o][n] = up /\ n \in K /\ up \in K /\ n # up /\ s \in Sides
      /\ t.child[s][up] \in (K \cup {Nil}) \ {n, up}
      /\ t.parent[up] = n /\ t.parent[n] \in (K \cup {Nil}) \ {n, up}
  BY DEF TurnIn
<1>6. {t.child[s][up], e, d} \subseteq (K \cup {Nil}) \ {n, up}
  BY <1>3, <1>4, <1>5
<1> QED BY <1>1, <1>5, <1>6 DEF TurnNear, Turned

\* Elsewhere the heights of the children stay.
LEMMA TurnHeights ==
  ASSUME NEW t, NEW u, NEW K, NEW sub, NEW n, NEW up, NEW s, TurnIn(t, u, K, sub, n, up, s),
         NEW bh, NEW bh2, bh2[up] = bh[n], \A m \in K \ {n, up} : bh2[m] = bh[m]
  PROVE  /\ \A m \in K \ {n, up}, r \in Sides : Height(bh2, u.child[r][m]) = Height(bh, t.child[r][m])
         /\ \A c \in (K \cup {Nil}) \ {n, up} : Height(bh2, c) = Height(bh, c)
         /\ \A m \in K : Weight(u, m) = Weight(t, m)
<1>1. TurnNear(t, u, K, n, up, s)
  BY TurnIsNear
<1>2. n # Nil /\ up # Nil /\ \A m \in K : u.color[m] = t.color[m]
  BY <1>1 DEF TurnNear
<1>3. \A c \in (K \cup {Nil}) \ {n, up} : Height(bh2, c) = Height(bh, c)
  BY DEF Height
<1>4. ASSUME NEW m \in K \ {n, up}, NEW r \in Sides
      PROVE  Height(bh2, u.child[r][m]) = Height(bh, t.child[r][m])
  <2>1. \/ t.child[r][m] = n /\ u.child[r][m] = up
        \/ t.child[r][m] \in (K \cup {Nil}) \ {n, up} /\ u.child[r][m] = t.child[r][m]
    BY TurnElsewhere
  <2>2. Height(bh2, up) = Height(bh, n)
    BY <1>2 DEF Height
  <2> QED BY <1>3, <2>1, <2>2
<1> QED BY <1>2, <1>3, <1>4 DEF Weight

\* Without a place that is short a tree is balanced when at every node both
\* sides count the same.
LEMMA Balances ==
  ASSUME NEW t, NEW K, NEW bh \in [K -> Nat], Nil \notin K,
         \A m \in K, r \in Sides : t.child[r][m] \in K \cup {Nil}
  PROVE  Balanced(t, K, bh, Nil, "left") <=>
           \A m \in K, r \in Sides : bh[m] = Weight(t, m) + Height(bh, t.child[r][m])
<1>1. ASSUME NEW m \in K, NEW r \in Sides PROVE Weight(t, m) + Height(bh, t.child[r][m]) \in Nat
  BY DEF Weight, Height
<1>2. ASSUME NEW m \in K
      PROVE  Even(t, bh, Nil, "left", m) <=>
               \A r \in Sides : bh[m] = Weight(t, m) + Height(bh, t.child[r][m])
  <2>1. m # Nil
    OBVIOUS
  <2> QED BY <1>1, <2>1 DEF Even
<1> QED BY <1>2 DEF Balanced

\* What the pointers of a tree say of any of its nodes.
LEMMA ChildrenAre ==
  ASSUME NEW t, NEW K, Pointers(t, K)
  PROVE  /\ Nil \notin K /\ K \subseteq Keys /\ t.root \in K \cup {Nil}
         /\ \A m \in K, r \in Sides : t.child[r][m] \in K \cup {Nil}
         /\ \A m \in K, r \in Sides : t.child[r][m] # Nil => t.parent[t.child[r][m]] = m
         /\ \A m \in K : t.parent[m] \in K \cup {Nil} /\ (t.parent[m] = Nil <=> t.root = m)
         /\ \A m \in K : t.color[m] = "red" \/ t.color[m] = "black"
BY NilIsNoKey DEF Pointers, Trees, Colors

\* Of two red nodes the lower one, on the inner side, comes to the top.
LEMMA InnerTurn ==
  ASSUME NEW t, NEW K, NEW n, NEW p, NEW g, NEW s, Inserting(t, K, n),
         Family(t, K, n, p, g, s), t.color[n] = "red", t.color[p] = "red", t.color[g] # "red",
         n \in {t.child[Opposite(s)][p]}
  PROVE  LET u == Rotate(t, p, s)
         IN  /\ Inserting(u, K, p) /\ Family(u, K, p, n, g, s)
             /\ \A m \in K : u.color[m] = t.color[m]
             /\ u.child[Opposite(s)][g] = t.child[Opposite(s)][g]
             /\ u.child[s][n] = p
<1> DEFINE o == Opposite(s)
           u == Rotate(t, p, s)
<1>1. /\ p \in K /\ g \in K /\ n \in K /\ p # n /\ g # n /\ g # p
      /\ s \in Sides /\ t.child[s][g] = p /\ t.child[o][p] = n
      /\ t.parent[n] = p /\ t.parent[p] = g /\ o \in Sides /\ o # s
  BY SidesAre DEF Family
<1>2. Pointers(t, K) /\ RedsApart(t, K, n, Nil)
  BY DEF Inserting
<1>3. PICK sub : Ordered(t, K, sub)
  BY DEF Inserting
<1>4. PICK bh : Balanced(t, K, bh, Nil, "left")
  BY DEF Inserting
<1>5. /\ Nil \notin K /\ t.root \in K \cup {Nil}
      /\ \A m \in K, r \in Sides : t.child[r][m] \in K \cup {Nil}
      /\ \A m \in K, r \in Sides : t.child[r][m] # Nil => t.parent[t.child[r][m]] = m
      /\ \A m \in K : t.parent[m] \in K \cup {Nil} /\ (t.parent[m] = Nil <=> t.root = m)
  BY <1>2, ChildrenAre
<1>6. /\ TurnIn(t, u, K, sub, p, n, s)
      /\ Pointers(u, K)
      /\ Ordered(u, K, TurnedSub(t, sub, p, n, s))
  <2>1. t.child[o][p] # Nil
    BY <1>1, <1>5
  <2>2. /\ TurnIn(t, u, K, sub, p, t.child[o][p], s)
        /\ Pointers(u, K)
        /\ Ordered(u, K, TurnedSub(t, sub, p, t.child[o][p], s))
    BY <1>1, <1>2, <1>3, <2>1, RotateKeeps
  <2> QED BY <1>1, <2>2
<1> HIDE DEF u
<1>7. TurnNear(t, u, K, p, n, s)
  BY <1>6, TurnIsNear
<1>8. /\ u.child[o][p] = t.child[s][n] /\ u.child[s][n] = p
      /\ u.child[s][p] = t.child[s][p] /\ u.child[o][n] = t.child[o][n]
      /\ {t.child[s][n], t.child[s][p], t.child[o][n]} \subseteq (K \cup {Nil}) \ {n, p}
      /\ u.parent[n] = g /\ u.parent[p] = n
      /\ \A m \in K \ {n, p} : u.parent[m] = IF m = t.child[s][n] THEN p ELSE t.parent[m]
      /\ \A m \in K : u.color[m] = t.color[m]
      /\ u.root = t.root
  BY <1>1, <1>5, <1>7 DEF TurnNear
<1>9. Family(u, K, p, n, g, s) /\ u.child[o][g] = t.child[o][g]
  <2>1. \A r \in Sides : \/ t.child[r][g] = p /\ u.child[r][g] = n
                         \/ t.child[r][g] # p /\ u.child[r][g] = t.child[r][g]
    BY <1>1, <1>6, TurnElsewhere
  <2>2. t.child[o][g] # p
    BY <1>1, <1>2, <1>3, <1>5, OneSide
  <2>3. u.child[s][g] = n /\ u.child[o][g] = t.child[o][g] /\ u.child[s][g] # Nil
    BY <1>1, <1>5, <2>1, <2>2
  <2>4. SideOf(u, u.child[s][g], g) = s
    BY <1>1, <1>6, <2>3, OneSide
  <2> QED BY Zenon, <1>1, <1>8, <2>3, <2>4 DEF Family
<1>10. Balanced(u, K, bh, Nil, "left")
  <2>1. bh \in [K -> Nat]
    BY <1>4 DEF Balanced
  <2>2. \A m \in K, r \in Sides : bh[m] = Weight(t, m) + Height(bh, t.child[r][m])
    BY <1>4, <1>5, <2>1, Balances
  <2>3. Weight(t, p) = 0 /\ Weight(t, n) = 0
    BY DEF Weight
  <2>4. bh[p] = bh[n]
    <3>1. Height(bh, n) = bh[n] /\ bh[n] \in Nat
      BY <1>1, <1>5, <2>1 DEF Height
    <3>2. bh[p] = Weight(t, p) + Height(bh, t.child[o][p])
      BY <1>1, <2>2
    <3> QED BY <1>1, <2>3, <3>1, <3>2
  <2>5. /\ \A m \in K \ {p, n}, r \in Sides : Height(bh, u.child[r][m]) = Height(bh, t.child[r][m])
        /\ \A m \in K : Weight(u, m) = Weight(t, m)
    BY <1>6, <2>4, TurnHeights
  <2>6. ASSUME NEW m \in K, NEW r \in Sides PROVE bh[m] = Weight(u, m) + Height(bh, u.child[r][m])
    <3>1. CASE m \notin {p, n}
      BY <2>2, <2>5, <3>1
    <3>2. CASE m = p
      <4>1. u.child[r][p] \in {t.child[s][n], t.child[s][p]}
        BY <1>1, <1>8, SidesAre
      <4>2. /\ bh[n] = Weight(t, n) + Height(bh, t.child[s][n])
            /\ bh[p] = Weight(t, p) + Height(bh, t.child[s][p])
        BY <1>1, <2>2
      <4> QED BY <1>1, <2>3, <2>4, <2>5, <3>2, <4>1, <4>2
    <3>3. CASE m = n
      <4>1. u.child[r][n] \in {p, t.child[o][n]}
        BY <1>1, <1>8, SidesAre
      <4>2. /\ bh[n] = Weight(t, n) + Height(bh, t.child[o][n])
            /\ Height(bh, p) = bh[p] /\ bh[p] \in Nat
        BY <1>1, <1>5, <2>1, <2>2 DEF Height
      <4> QED BY <1>1, <2>3, <2>4, <2>5, <3>3, <4>1, <4>2
    <3> QED BY <3>1, <3>2, <3>3
  <2>7. \A m \in K, r \in Sides : u.child[r][m] \in K \cup {Nil}
    BY <1>6, ChildrenAre
  <2> QED BY <1>5, <2>1, <2>6, <2>7, Balances
<1>11. RedsApart(u, K, p, Nil)
  <2>1. ~IsRed(u, u.root)
    <3> SUFFICES ASSUME IsRed(u, u.root) PROVE FALSE
      OBVIOUS
    <3>1. IsRed(t, t.root)
      BY <1>5, <1>8 DEF IsRed
    <3>2. t.root = n
      BY <1>2, <3>1 DEF RedsApart
    <3> QED BY <1>1, <1>5, <3>2
  <2>2. ASSUME NEW m \in K, IsRed(u, m), IsRed(u, u.parent[m]) PROVE m = p
    <3> SUFFICES ASSUME m # p PROVE FALSE
      OBVIOUS
    <3>1. m # n
      BY <1>1, <1>8, <2>2 DEF IsRed
    <3>2. CASE m = t.child[s][n]
      <4>1. t.parent[m] = n
        BY <1>1, <1>5, <3>2
      <4>2. IsRed(t, m) /\ IsRed(t, n)
        BY <1>1, <1>5, <1>8, <2>2 DEF IsRed
      <4> QED BY <1>1, <1>2, <1>5, <3>1, <4>1, <4>2 DEF RedsApart
    <3>3. CASE m # t.child[s][n]
      <4>1. u.parent[m] = t.parent[m] /\ t.parent[m] \in K \cup {Nil}
        BY <1>5, <1>8, <3>1, <3>3
      <4>2. IsRed(t, m) /\ IsRed(t, t.parent[m])
        BY <1>8, <2>2, <4>1 DEF IsRed
      <4>3. t.parent[m] = Nil
        BY <1>2, <3>1, <4>2 DEF RedsApart
      <4> QED BY <4>2, <4>3 DEF IsRed
    <3> QED BY <3>2, <3>3
  <2> QED BY <2>1, <2>2 DEF RedsApart
<1>12. IsRed(u, p)
  BY <1>1, <1>5, <1>8 DEF IsRed
<1>13. Inserting(u, K, p)
  BY <1>1, <1>6, <1>10, <1>11, <1>12 DEF Inserting
<1> QED BY <1>8, <1>9, <1>13 DEF u

\* Two nodes painted.
LEMMA PaintTwo ==
  ASSUME NEW t, NEW K, Pointers(t, K), NEW a \in K, NEW b \in K, NEW c \in Colors, NEW d \in Colors
  PROVE  LET u == Painted(Painted(t, a, c), b, d)
         IN  /\ Pointers(u, K) /\ SameShape(t, u)
             /\ \A m \in K : u.color[m] = IF m = b THEN d ELSE IF m = a THEN c ELSE t.color[m]
<1> DEFINE t1 == Painted(t, a, c)
           u == Painted(t1, b, d)
<1>1. Repainted(t, t1, K, a, c) /\ Pointers(t1, K)
  BY PaintKeeps
<1> HIDE DEF t1
<1>2. Repainted(t1, u, K, b, d) /\ Pointers(u, K)
  BY <1>1, PaintKeeps
<1> HIDE DEF u
<1>3. SameShape(t, u)
  BY <1>1, <1>2, SameShapeTwice DEF Repainted
<1>4. \A m \in K : u.color[m] = IF m = b THEN d ELSE IF m = a THEN c ELSE t.color[m]
  BY <1>1, <1>2 DEF Repainted
<1> QED BY <1>2, <1>3, <1>4 DEF u, t1

\* What SameShape says of the nodes.
LEMMA ShapeIs ==
  ASSUME NEW t, NEW u, NEW K, Pointers(t, K), SameShape(t, u)
  PROVE  /\ \A m \in K, r \in Sides : u.child[r][m] = t.child[r][m]
         /\ \A m \in K : u.parent[m] = t.parent[m]
         /\ u.root = t.root
BY DEF SameShape, Pointers

\* Of two red nodes on the outer side the upper one takes the place of their
\* black grandparent.
LEMMA OuterTurn ==
  ASSUME NEW t, NEW K, NEW n, NEW p, NEW g, NEW s, Inserting(t, K, n),
         Family(t, K, n, p, g, s), t.color[n] = "red", t.color[p] = "red", t.color[g] # "red",
         n \in {t.child[s][p]}, ~IsRed(t, t.child[Opposite(s)][g])
  PROVE  LET u == Rotate(Painted(Painted(t, p, "black"), g, "red"), g, Opposite(s))
         IN  Inserting(u, K, n) /\ ~IsRed(u, u.parent[n])
<1> DEFINE o == Opposite(s)
           v == Painted(Painted(t, p, "black"), g, "red")
           u == Rotate(v, g, o)
<1>1. /\ p \in K /\ g \in K /\ n \in K /\ p # n /\ g # n /\ g # p
      /\ s \in Sides /\ t.child[s][g] = p /\ t.child[s][p] = n
      /\ t.parent[n] = p /\ t.parent[p] = g /\ o \in Sides /\ o # s /\ Opposite(o) = s
      /\ (\A r \in Sides : r = s \/ r = o)
  BY SidesAre DEF Family
<1>2. Pointers(t, K) /\ RedsApart(t, K, n, Nil) /\ IsRed(t, n)
  BY DEF Inserting
<1>3. PICK sub : Ordered(t, K, sub)
  BY DEF Inserting
<1>4. PICK bh : Balanced(t, K, bh, Nil, "left")
  BY DEF Inserting
<1>5. /\ Nil \notin K /\ t.root \in K \cup {Nil}
      /\ \A m \in K, r \in Sides : t.child[r][m] \in K \cup {Nil}
      /\ \A m \in K, r \in Sides : t.child[r][m] # Nil => t.parent[t.child[r][m]] = m
      /\ \A m \in K : t.parent[m] \in K \cup {Nil} /\ (t.parent[m] = Nil <=> t.root = m)
      /\ \A m \in K : t.color[m] = "red" \/ t.color[m] = "black"
  BY <1>2, ChildrenAre
<1>6. /\ Pointers(v, K) /\ SameShape(t, v)
      /\ \A m \in K : v.color[m] = IF m = g THEN "red" ELSE IF m = p THEN "black" ELSE t.color[m]
  <2>1. "black" \in Colors /\ "red" \in Colors
    BY DEF Colors
  <2> QED BY <1>1, <1>2, <2>1, PaintTwo
<1> HIDE DEF v
<1>7. /\ \A m \in K, r \in Sides : v.child[r][m] = t.child[r][m]
      /\ \A m \in K : v.parent[m] = t.parent[m]
      /\ v.root = t.root
  BY <1>2, <1>6, ShapeIs
<1>8. Ordered(v, K, sub)
  BY <1>2, <1>3, <1>6, SameShapeKeeps
<1>9. /\ TurnIn(v, u, K, sub, g, p, o)
      /\ Pointers(u, K)
      /\ Ordered(u, K, TurnedSub(v, sub, g, p, o))
  <2>1. v.child[Opposite(o)][g] = p /\ p # Nil
    BY <1>1, <1>5, <1>7
  <2>2. /\ TurnIn(v, u, K, sub, g, v.child[Opposite(o)][g], o)
        /\ Pointers(u, K)
        /\ Ordered(u, K, TurnedSub(v, sub, g, v.child[Opposite(o)][g], o))
    BY <1>1, <1>6, <1>8, <2>1, RotateKeeps
  <2> QED BY <2>1, <2>2
<1> HIDE DEF u
<1>10. TurnNear(v, u, K, g, p, o)
  BY <1>9, TurnIsNear
<1> DEFINE c == t.child[o][p]
           uncle == t.child[o][g]
<1>11. /\ u.child[s][g] = c /\ u.child[o][p] = g
       /\ u.child[o][g] = uncle /\ u.child[s][p] = n
       /\ {c, uncle, n} \subseteq (K \cup {Nil}) \ {g, p}
       /\ u.parent[p] = t.parent[g] /\ u.parent[g] = p
       /\ \A m \in K \ {g, p} : u.parent[m] = IF m = c THEN g ELSE t.parent[m]
       /\ \A m \in K : u.color[m] = IF m = g THEN "red" ELSE IF m = p THEN "black" ELSE t.color[m]
       /\ u.root = IF t.parent[g] = Nil THEN p ELSE t.root
  BY <1>1, <1>6, <1>7, <1>10 DEF TurnNear
<1>12. Balanced(u, K, [bh EXCEPT ![p] = bh[g], ![g] = bh[p]], Nil, "left")
  <2> DEFINE bh2 == [bh EXCEPT ![p] = bh[g], ![g] = bh[p]]
  <2>1. bh \in [K -> Nat]
    BY <1>4 DEF Balanced
  <2>2. /\ bh2 \in [K -> Nat] /\ bh2[p] = bh[g] /\ bh2[g] = bh[p]
        /\ \A m \in K \ {g, p} : bh2[m] = bh[m]
    BY <1>1, <2>1
  <2> HIDE DEF bh2
  <2>3. \A m \in K, r \in Sides : bh[m] = Weight(t, m) + Height(bh, t.child[r][m])
    BY <1>4, <1>5, <2>1, Balances
  <2>4. Weight(t, p) = 0 /\ Weight(t, g) = 1 /\ Weight(u, p) = 1 /\ Weight(u, g) = 0
        /\ \A m \in K \ {g, p} : Weight(u, m) = Weight(t, m)
    BY <1>1, <1>5, <1>11 DEF Weight
  <2>5. /\ bh[g] = 1 + bh[p] /\ bh[g] = 1 + Height(bh, uncle)
        /\ bh[p] = Height(bh, n) /\ bh[p] = Height(bh, c)
    <3>1. Height(bh, p) = bh[p] /\ bh[p] \in Nat
      BY <1>1, <1>5, <2>1 DEF Height
    <3>2. /\ bh[g] = Weight(t, g) + Height(bh, t.child[s][g])
          /\ bh[g] = Weight(t, g) + Height(bh, uncle)
          /\ bh[p] = Weight(t, p) + Height(bh, t.child[s][p])
          /\ bh[p] = Weight(t, p) + Height(bh, c)
      BY <1>1, <2>3
    <3>3. Height(bh, c) \in Nat /\ Height(bh, n) \in Nat /\ Height(bh, uncle) \in Nat
      BY <1>11, <2>1 DEF Height
    <3> QED BY <1>1, <2>4, <3>1, <3>2, <3>3
  <2>6. /\ \A m \in K \ {g, p}, r \in Sides : Height(bh2, u.child[r][m]) = Height(bh, v.child[r][m])
        /\ \A d \in (K \cup {Nil}) \ {g, p} : Height(bh2, d) = Height(bh, d)
    BY <1>9, <2>2, TurnHeights
  <2>7. ASSUME NEW m \in K, NEW r \in Sides PROVE bh2[m] = Weight(u, m) + Height(bh2, u.child[r][m])
    <3>1. CASE m \notin {g, p}
      BY <1>7, <2>2, <2>3, <2>4, <2>6, <3>1
    <3>2. CASE m = p
      <4>1. u.child[r][p] \in {g, n}
        BY <1>1, <1>11
      <4>2. Height(bh2, g) = bh[p] /\ Height(bh2, n) = bh[p]
        BY <1>1, <1>5, <1>11, <2>2, <2>5, <2>6 DEF Height
      <4> QED BY <2>2, <2>4, <2>5, <3>2, <4>1, <4>2
    <3>3. CASE m = g
      <4>1. u.child[r][g] \in {c, uncle}
        BY <1>1, <1>11
      <4>2. Height(bh2, c) = bh[p] /\ Height(bh2, uncle) = bh[p]
        <5>1. bh[p] \in Nat /\ Height(bh, uncle) \in Nat
          BY <1>1, <1>11, <2>1 DEF Height
        <5>2. Height(bh, uncle) = bh[p]
          BY <2>5, <5>1
        <5> QED BY <1>11, <2>5, <2>6, <5>2
      <4>3. bh[p] \in Nat
        BY <1>1, <2>1
      <4> QED BY <2>2, <2>4, <3>3, <4>1, <4>2, <4>3
    <3> QED BY <3>1, <3>2, <3>3
  <2>8. \A m \in K, r \in Sides : u.child[r][m] \in K \cup {Nil}
    BY <1>9, ChildrenAre
  <2>9. Balanced(u, K, bh2, Nil, "left")
    BY <1>5, <2>2, <2>7, <2>8, Balances
  <2> QED BY <2>9 DEF bh2
<1>13. RedsApart(u, K, n, Nil)
  <2>1. ~IsRed(u, u.root)
    <3> SUFFICES ASSUME IsRed(u, u.root) PROVE FALSE
      OBVIOUS
    <3>1. t.parent[g] # Nil
      BY <1>1, <1>11 DEF IsRed
    <3>2. t.root \notin {g, p, n}
      BY <1>1, <1>5, <3>1
    <3>3. IsRed(t, t.root)
      BY <1>5, <1>11, <3>1, <3>2 DEF IsRed
    <3> QED BY <1>2, <3>2, <3>3 DEF RedsApart
  <2>2. ASSUME NEW m \in K, IsRed(u, m), IsRed(u, u.parent[m]) PROVE m = n
    <3> SUFFICES ASSUME m # n PROVE FALSE
      OBVIOUS
    <3>1. m # p /\ m # g /\ IsRed(t, m)
      BY <1>1, <1>11, <2>2 DEF IsRed
    <3>2. m # c
      <4> SUFFICES ASSUME m = c PROVE FALSE
        OBVIOUS
      <4>1. t.parent[m] = p /\ IsRed(t, p)
        BY <1>1, <1>5 DEF IsRed
      <4> QED BY <1>2, <1>1, <1>5, <3>1, <4>1 DEF RedsApart
    <3>3. m # uncle
      BY <3>1
    <3>4. PICK q \in K \cup {Nil} : q = t.parent[m]
      BY <1>5
    <3>5. u.parent[m] = q
      BY <1>11, <3>1, <3>2, <3>4
    <3>6. q # g
      <4> SUFFICES ASSUME q = g PROVE FALSE
        OBVIOUS
      <4>1. \E r \in Sides : t.child[r][t.parent[m]] = m
        <5>1. t.parent[m] # Nil
          BY <1>1, <1>5, <3>4
        <5> QED BY <1>2, <5>1 DEF Pointers
      <4> QED BY <1>1, <3>1, <3>3, <3>4, <4>1
    <3>7. IsRed(t, q)
      BY <1>11, <2>2, <3>5, <3>6 DEF IsRed
    <3> QED BY <1>2, <3>1, <3>4, <3>7 DEF RedsApart, IsRed
  <2> QED BY <2>1, <2>2 DEF RedsApart
<1>14. IsRed(u, n)
  BY <1>1, <1>2, <1>11 DEF IsRed
<1>15. Inserting(u, K, n)
  BY <1>1, <1>9, <1>12, <1>13, <1>14 DEF Inserting
<1>16. ~IsRed(u, u.parent[n])
  <2>1. t.child[s][p] # Nil
    BY <1>1, <1>5
  <2>2. n # c
    BY <1>1, <1>2, <1>3, <2>1, OneSide
  <2>3. u.parent[n] = p /\ u.color[p] = "black"
    BY <1>1, <1>11, <2>2
  <2> QED BY <2>3 DEF IsRed
<1> QED BY <1>15, <1>16 DEF u, v

\* A node that turns black makes up for the one that was missing.
LEMMA BlackMakesUp ==
  ASSUME NEW t, NEW K, NEW sub, NEW bh, NEW sp, NEW ss, NEW n \in K,
         Pointers(t, K), Ordered(t, K, sub), Balanced(t, K, bh, sp, ss), IsRed(t, n),
         \/ sp = Nil /\ t.root = n
         \/ sp \in K /\ ss \in Sides /\ t.child[ss][sp] = n
  PROVE  \E bh2 : Balanced(Painted(t, n, "black"), K, bh2, Nil, "left")
<1> DEFINE u == Painted(t, n, "black")
           bh2 == [bh EXCEPT ![n] = @ + 1]
<1>1. /\ Nil \notin K /\ t.root \in K \cup {Nil}
      /\ \A m \in K, r \in Sides : t.child[r][m] \in K \cup {Nil}
      /\ \A m \in K, r \in Sides : t.child[r][m] # Nil => t.parent[t.child[r][m]] = m
      /\ \A m \in K : t.parent[m] \in K \cup {Nil} /\ (t.parent[m] = Nil <=> t.root = m)
  BY ChildrenAre
<1>2. Repainted(t, u, K, n, "black") /\ Pointers(u, K)
  BY PaintKeeps DEF Colors
<1> HIDE DEF u
<1>3. \A m \in K, r \in Sides : u.child[r][m] = t.child[r][m]
  BY <1>2, ShapeIs DEF Repainted
<1>4. /\ Weight(u, n) = 1 /\ Weight(t, n) = 0
      /\ \A m \in K \ {n} : Weight(u, m) = Weight(t, m)
  BY <1>2 DEF Repainted, Weight, IsRed
<1>5. bh \in [K -> Nat]
  BY DEF Balanced
<1>6. bh2 \in [K -> Nat] /\ bh2[n] = bh[n] + 1 /\ \A m \in K \ {n} : bh2[m] = bh[m]
  BY <1>5
<1> HIDE DEF bh2
<1>7. \A m \in K, r \in Sides :
        bh[m] = Weight(t, m) + Height(bh, t.child[r][m]) + IF m = sp /\ r = ss THEN 1 ELSE 0
  BY DEF Balanced, Even
<1>8. ASSUME NEW m \in K, NEW r \in Sides PROVE (t.child[r][m] = n) <=> (m = sp /\ r = ss)
  <2>1. ASSUME t.child[r][m] = n PROVE m = sp /\ r = ss
    <3>1. t.parent[n] = m /\ m # Nil
      BY <1>1, <2>1
    <3>2. sp \in K /\ ss \in Sides /\ t.child[ss][sp] = n
      BY <1>1, <3>1
    <3>3. sp = m
      BY <1>1, <3>1, <3>2
    <3>4. r = ss \/ r = Opposite(ss)
      BY <3>2, SidesAre
    <3>5. t.child[Opposite(ss)][sp] # n
      BY <1>1, <3>2, OneSide
    <3> QED BY <2>1, <3>3, <3>4, <3>5
  <2>2. ASSUME m = sp, r = ss PROVE t.child[r][m] = n
    BY <1>1, <2>2
  <2> QED BY <2>1, <2>2
<1>9. ASSUME NEW m \in K, NEW r \in Sides PROVE bh2[m] = Weight(u, m) + Height(bh2, u.child[r][m])
  <2>1. PICK h \in Nat : h = Height(bh, t.child[r][m])
    BY <1>1, <1>5 DEF Height
  <2>2. bh[m] = Weight(t, m) + h + IF t.child[r][m] = n THEN 1 ELSE 0
    BY <1>7, <1>8, <2>1
  <2>3. Height(bh2, u.child[r][m]) = h + IF t.child[r][m] = n THEN 1 ELSE 0
    BY <1>1, <1>3, <1>5, <1>6, <2>1 DEF Height
  <2>4. m = n => t.child[r][m] # n
    <3> SUFFICES ASSUME m = n, t.child[r][m] = n PROVE FALSE
      OBVIOUS
    <3>1. n # Nil /\ n \in sub[t.child[r][m]] /\ m \notin sub[t.child[r][m]]
      BY <1>1, ChildIsUnder
    <3> QED BY <3>1
  <2>5. Weight(t, m) \in Nat
    BY DEF Weight
  <2> QED BY <1>4, <1>6, <2>2, <2>3, <2>4, <2>5
<1>10. \A m \in K, r \in Sides : u.child[r][m] \in K \cup {Nil}
  BY <1>1, <1>3
<1>11. Balanced(u, K, bh2, Nil, "left")
  BY <1>1, <1>6, <1>9, <1>10, Balances
<1> QED BY <1>11 DEF u

\* The tree between two calls.
Resting(t, K) ==
  /\ Pointers(t, K)
  /\ \E sub : Ordered(t, K, sub)
  /\ \E bh : Balanced(t, K, bh, Nil, "left")
  /\ RedsApart(t, K, Nil, Nil)

\* The same of a tree with the same colors.
LEMMA SameColors ==
  ASSUME NEW t, NEW u, NEW K, Pointers(t, K), SameShape(t, u), \A m \in K : u.color[m] = t.color[m]
  PROVE  /\ \A bh : Balanced(t, K, bh, Nil, "left") => Balanced(u, K, bh, Nil, "left")
         /\ \A a, b : RedsApart(t, K, a, b) => RedsApart(u, K, a, b)
<1>1. /\ Nil \notin K /\ K \subseteq Keys /\ t.root \in K \cup {Nil}
      /\ \A m \in K, r \in Sides : t.child[r][m] \in K \cup {Nil}
      /\ \A m \in K : t.parent[m] \in K \cup {Nil}
  BY ChildrenAre
<1>2. /\ \A m \in K, r \in Sides : u.child[r][m] = t.child[r][m]
      /\ \A m \in K : u.parent[m] = t.parent[m]
      /\ u.root = t.root
  BY ShapeIs
<1>3. \A m \in K \cup {Nil} : IsRed(u, m) <=> IsRed(t, m)
  BY DEF IsRed
<1>4. \A m \in K : Weight(u, m) = Weight(t, m)
  BY DEF Weight
<1>5. ASSUME NEW bh, Balanced(t, K, bh, Nil, "left") PROVE Balanced(u, K, bh, Nil, "left")
  <2>1. bh \in [K -> Nat]
    BY <1>5 DEF Balanced
  <2>2. \A m \in K, r \in Sides : bh[m] = Weight(t, m) + Height(bh, t.child[r][m])
    BY <1>1, <1>5, <2>1, Balances
  <2>3. \A m \in K, r \in Sides : u.child[r][m] \in K \cup {Nil}
    BY <1>1, <1>2
  <2>4. \A m \in K, r \in Sides : bh[m] = Weight(u, m) + Height(bh, u.child[r][m])
    BY <1>2, <1>4, <2>2
  <2> QED BY <1>1, <2>1, <2>3, <2>4, Balances
<1>6. ASSUME NEW a, NEW b, RedsApart(t, K, a, b) PROVE RedsApart(u, K, a, b)
  BY <1>1, <1>2, <1>3, <1>6 DEF RedsApart
<1> QED BY <1>5, <1>6

\* When the parent is black, painting the root black ends an insert.
LEMMA InsertEndsWell ==
  ASSUME NEW t, NEW K, NEW n, Inserting(t, K, n), ~IsRed(t, t.parent[n])
  PROVE  Resting(Painted(t, t.root, "black"), K)
<1> DEFINE u == Painted(t, t.root, "black")
<1>1. Pointers(t, K) /\ RedsApart(t, K, n, Nil) /\ n \in K
  BY DEF Inserting
<1>2. PICK sub : Ordered(t, K, sub)
  BY DEF Inserting
<1>3. PICK bh : Balanced(t, K, bh, Nil, "left")
  BY DEF Inserting
<1>4. /\ Nil \notin K /\ K \subseteq Keys /\ t.root \in K \cup {Nil}
      /\ \A m \in K : t.parent[m] \in K \cup {Nil}
      /\ \A m \in K : t.color[m] = "red" \/ t.color[m] = "black"
  BY <1>1, ChildrenAre
<1>5. t.root \in K
  BY <1>1, <1>2, <1>4 DEF Ordered, Under
<1>6. Repainted(t, u, K, t.root, "black")
  BY <1>1, <1>5, PaintKeeps DEF Colors
<1> HIDE DEF u
<1>7. /\ Pointers(u, K) /\ SameShape(t, u)
      /\ \A m \in K : u.color[m] = IF m = t.root THEN "black" ELSE t.color[m]
  BY <1>6 DEF Repainted
<1>8. Ordered(u, K, sub)
  BY <1>1, <1>2, <1>7, SameShapeKeeps
<1>9. \E bh2 : Balanced(u, K, bh2, Nil, "left")
  <2>1. CASE IsRed(t, t.root)
    BY <1>1, <1>2, <1>3, <1>5, <2>1, BlackMakesUp DEF u
  <2>2. CASE ~IsRed(t, t.root)
    <3>1. \A m \in K : u.color[m] = t.color[m]
      BY <1>4, <1>5, <1>7, <2>2 DEF IsRed
    <3> QED BY <1>1, <1>3, <1>7, <3>1, SameColors
  <2> QED BY <2>1, <2>2
<1>10. RedsApart(u, K, Nil, Nil)
  <2>1. /\ \A m \in K : u.parent[m] = t.parent[m]
        /\ u.root = t.root
    BY <1>1, <1>7, ShapeIs
  <2>2. \A m \in K \cup {Nil} : IsRed(u, m) => IsRed(t, m)
    BY <1>7 DEF IsRed
  <2>3. ~IsRed(u, u.root)
    BY <1>5, <1>7, <2>1 DEF IsRed
  <2>4. ASSUME NEW m \in K, IsRed(u, m), IsRed(u, u.parent[m]) PROVE FALSE
    <3>1. IsRed(t, m) /\ IsRed(t, t.parent[m])
      BY <1>4, <2>1, <2>2, <2>4
    <3>2. m = n \/ t.parent[m] = Nil
      BY <1>1, <3>1 DEF RedsApart
    <3> QED BY <3>1, <3>2 DEF IsRed
  <2> QED BY <2>3, <2>4 DEF RedsApart
<1>11. Resting(u, K)
  BY <1>7, <1>8, <1>9, <1>10 DEF Resting
<1> QED BY <1>11 DEF u

\* The step of a loop of an insert, at its node n.
LEMMA RotateInserts ==
  ASSUME NEW t, NEW K, NEW n, NEW p, NEW g, NEW s, Inserting(t, K, n),
         Family(t, K, n, p, g, s), t.color[n] = "red", t.color[p] = "red", t.color[g] # "red",
         ~IsRed(t, t.child[Opposite(s)][g])
  PROVE  IF t.child[Opposite(s)][p] = n
         THEN LET u == Rotate(Painted(Painted(Rotate(t, p, s), n, "black"), g, "red"), g, Opposite(s))
              IN  Inserting(u, K, p) /\ ~IsRed(u, u.parent[p])
         ELSE LET u == Rotate(Painted(Painted(t, p, "black"), g, "red"), g, Opposite(s))
              IN  Inserting(u, K, n) /\ ~IsRed(u, u.parent[n])
<1>1. CASE t.child[Opposite(s)][p] = n
  <2> DEFINE u == Rotate(t, p, s)
  <2>1. n \in {t.child[Opposite(s)][p]}
    BY <1>1
  <2>2. /\ Inserting(u, K, p) /\ Family(u, K, p, n, g, s)
        /\ \A m \in K : u.color[m] = t.color[m]
        /\ u.child[Opposite(s)][g] = t.child[Opposite(s)][g]
        /\ u.child[s][n] = p
    BY <2>1, InnerTurn
  <2> HIDE DEF u
  <2>3. n \in K /\ p \in K /\ g \in K /\ s \in Sides
    BY DEF Family
  <2>4. u.color[n] = "red" /\ u.color[p] = "red" /\ u.color[g] # "red"
    BY <2>2, <2>3
  <2>5. ~IsRed(u, u.child[Opposite(s)][g])
    <3>1. t.child[Opposite(s)][g] \in K \cup {Nil}
      BY <2>3, ChildrenAre, SidesAre DEF Inserting
    <3> QED BY <2>2, <3>1 DEF IsRed
  <2>6. p \in {u.child[s][n]}
    BY <2>2
  <2>7. LET v == Rotate(Painted(Painted(u, n, "black"), g, "red"), g, Opposite(s))
        IN  Inserting(v, K, p) /\ ~IsRed(v, v.parent[p])
    BY <2>2, <2>4, <2>5, <2>6, OuterTurn
  <2> QED BY <1>1, <2>7 DEF u
<1>2. CASE t.child[Opposite(s)][p] # n
  <2>1. n \in {t.child[s][p]}
    <3>1. t.parent[n] = p /\ n \in K /\ p \in K /\ s \in Sides
      BY DEF Family
    <3>2. p # Nil /\ Pointers(t, K)
      BY <3>1, ChildrenAre DEF Inserting
    <3>3. \E r \in Sides : t.child[r][p] = n
      BY <3>1, <3>2 DEF Pointers
    <3> QED BY <1>2, <3>1, <3>3, SidesAre
  <2> QED BY <1>2, <2>1, OuterTurn
<1> QED BY <1>1, <1>2

----------------------------------------------------------------------------
\* Walks.

\* The order of the numbers, as a relation that is well founded.
Below == {e \in Nat \X Nat : e[1] < e[2]}

\* A set of numbers that is not empty has a least one.
LEMMA Least ==
  ASSUME NEW S \in SUBSET Nat, S # {}
  PROVE  \E n \in S : \A m \in S : n <= m
<1>1. IsWellFoundedOn(Below, Nat)
  BY ONLY NatLessThanWellFounded DEF OpToRel, Below
<1>2. PICK n \in S : \A m \in S : ~(<<m, n>> \in Below)
  BY <1>1, WFMin
<1>3. \A m \in S : ~(m < n)
  BY <1>2 DEF Below
<1> QED BY <1>3

\* The tree t of the nodes K.
Shape(t, K, sub) == Pointers(t, K) /\ Ordered(t, K, sub) /\ IsFiniteSet(K)

\* A child is below its node and on its side of it.
LEMMA ChildIs ==
  ASSUME NEW t, NEW K, NEW sub, Shape(t, K, sub), NEW n \in K, NEW s \in Sides, t.child[s][n] # Nil
  PROVE  /\ t.child[s][n] \in K /\ t.parent[t.child[s][n]] = n
         /\ t.child[s][n] \in sub[t.child[s][n]]
         /\ sub[t.child[s][n]] \subseteq sub[n]
         /\ n \notin sub[t.child[s][n]] /\ t.child[s][n] # n
         /\ \A x \in sub[t.child[s][n]] : Before(s, x, n)
<1>1. /\ t.child[s][n] \in K /\ t.parent[t.child[s][n]] = n
      /\ t.child[s][n] \in sub[t.child[s][n]]
      /\ sub[t.child[s][n]] \subseteq sub[n]
      /\ n \notin sub[t.child[s][n]]
      /\ \A x \in sub[t.child[s][n]] : Before(s, x, n)
  BY ChildIsUnder DEF Shape
<1> QED BY <1>1

\* Of some nodes one has no child among them, and one not its parent.
LEMMA Lowest ==
  ASSUME NEW t, NEW K, NEW sub, Shape(t, K, sub), NEW bad \in SUBSET K, bad # {}
  PROVE  /\ \E n \in bad : \A s \in Sides : t.child[s][n] \notin bad
         /\ \E n \in bad : t.parent[n] \notin bad
<1>1. sub \in [K -> SUBSET K] /\ IsFiniteSet(K) /\ Nil \notin K
  BY ChildrenAre DEF Shape, Ordered
<1>2. \A m \in K : IsFiniteSet(sub[m]) /\ Cardinality(sub[m]) \in Nat /\ Cardinality(sub[m]) <= Cardinality(K)
      /\ Cardinality(K) \in Nat
  <2> TAKE m \in K
  <2>1. sub[m] \in SUBSET K
    BY <1>1
  <2> QED BY <1>1, <2>1, FS_Subset, FS_CardinalityType
<1>3. ASSUME NEW m \in K, NEW s \in Sides, t.child[s][m] # Nil
      PROVE  Cardinality(sub[t.child[s][m]]) < Cardinality(sub[m])
  <2>1. /\ t.child[s][m] \in K /\ sub[t.child[s][m]] \subseteq sub[m]
        /\ m \notin sub[t.child[s][m]] /\ m \in sub[m]
    BY <1>3, ChildIs DEF Ordered, Shape
  <2>2. /\ Cardinality(sub[t.child[s][m]]) <= Cardinality(sub[m])
        /\ Cardinality(sub[t.child[s][m]]) # Cardinality(sub[m])
    BY <1>2, <2>1, FS_Subset
  <2> QED BY <1>2, <2>1, <2>2
<1>4. \E n \in bad : \A s \in Sides : t.child[s][n] \notin bad
  <2> DEFINE S == {Cardinality(sub[m]) : m \in bad}
  <2>1. S \in SUBSET Nat /\ S # {}
    BY <1>2
  <2>2. PICK x \in S : \A y \in S : x <= y
    BY <2>1, Least
  <2>3. PICK n \in bad : x = Cardinality(sub[n])
    BY <2>2
  <2>4. \A m \in bad : Cardinality(sub[n]) <= Cardinality(sub[m])
    BY <2>2, <2>3
  <2>5. ASSUME NEW s \in Sides, t.child[s][n] \in bad PROVE FALSE
    <3>1. t.child[s][n] # Nil
      BY <1>1, <2>5
    <3>2. Cardinality(sub[t.child[s][n]]) < Cardinality(sub[n])
      BY <1>3, <3>1
    <3> QED BY <1>2, <2>4, <2>5, <3>2
  <2> QED BY <2>5
<1>5. \E n \in bad : t.parent[n] \notin bad
  <2> DEFINE S == {Cardinality(K) - Cardinality(sub[m]) : m \in bad}
  <2>1. S \in SUBSET Nat /\ S # {}
    BY <1>2
  <2>2. PICK x \in S : \A y \in S : x <= y
    BY <2>1, Least
  <2>3. PICK n \in bad : x = Cardinality(K) - Cardinality(sub[n])
    BY <2>2
  <2>4. \A m \in bad : Cardinality(sub[m]) <= Cardinality(sub[n])
    <3>1. \A m \in bad : Cardinality(K) - Cardinality(sub[n]) <= Cardinality(K) - Cardinality(sub[m])
      BY <2>2, <2>3
    <3> QED BY <1>2, <3>1
  <2>5. ASSUME t.parent[n] \in bad PROVE FALSE
    <3>1. t.parent[n] # Nil /\ n \in K
      BY <1>1, <2>5
    <3>2. PICK s \in Sides : t.child[s][t.parent[n]] = n
      BY <3>1 DEF Shape, Pointers
    <3>3. Cardinality(sub[t.child[s][t.parent[n]]]) < Cardinality(sub[t.parent[n]])
      <4>1. t.child[s][t.parent[n]] # Nil
        BY <1>1, <3>1, <3>2
      <4> QED BY <1>3, <2>5, <4>1
    <3>4. Cardinality(sub[n]) < Cardinality(sub[t.parent[n]])
      BY <3>2, <3>3
    <3> QED BY <1>2, <2>4, <2>5, <3>4
  <2> QED BY <2>5
<1> QED BY <1>4, <1>5

\* What is below a node below another is below that one too, with its parent.
LEMMA Nested ==
  ASSUME NEW t, NEW K, NEW sub, Shape(t, K, sub)
  PROVE  \A y \in K : \A x \in sub[y] :
           /\ x \in K
           /\ sub[x] \subseteq sub[y]
           /\ x # y => t.parent[x] \in sub[y] /\ t.parent[x] \in K
           /\ y \in sub[x] => x = y
<1> DEFINE Good(x, y) == /\ sub[x] \subseteq sub[y]
                         /\ x # y => t.parent[x] \in sub[y]
                         /\ y \in sub[x] => x = y
           bad == {y \in K : \E x \in sub[y] : ~Good(x, y)}
<1>1. sub \in [K -> SUBSET K]
  BY DEF Shape, Ordered
<1>2. bad = {}
  <2> SUFFICES ASSUME bad # {} PROVE FALSE
    OBVIOUS
  <2>1. PICK y \in bad : \A s \in Sides : t.child[s][y] \notin bad
    <3>1. bad \in SUBSET K
      OBVIOUS
    <3> HIDE DEF bad
    <3> QED BY <3>1, Lowest
  <2>2. PICK x \in sub[y] : ~Good(x, y)
    OBVIOUS
  <2>3. y \in K /\ x # y
    BY <2>2
  <2>4. PICK s \in Sides : x \in Under(sub, t.child[s][y])
    BY <2>2, <2>3 DEF Shape, Ordered, Sides
  <2>5. t.child[s][y] # Nil /\ x \in sub[t.child[s][y]]
    BY <2>4 DEF Under
  <2>6. /\ t.child[s][y] \in K /\ t.parent[t.child[s][y]] = y
        /\ t.child[s][y] \in sub[t.child[s][y]]
        /\ sub[t.child[s][y]] \subseteq sub[y]
        /\ y \notin sub[t.child[s][y]]
    BY <2>3, <2>5, ChildIs
  <2>7. Good(x, t.child[s][y])
    BY <2>1, <2>5, <2>6
  <2>8. y \in sub[y]
    BY <2>3 DEF Shape, Ordered
  <2> QED BY <2>2, <2>3, <2>5, <2>6, <2>7, <2>8
<1>3. \A y \in K : \A x \in sub[y] : Good(x, y)
  BY <1>2
<1> HIDE DEF bad
<1> QED BY <1>1, <1>3

\* The side on which a search for k leaves n.
Toward(k, n) == IF k < n THEN "left" ELSE "right"

\* The search for k that is at n ends at e.
EndsAt(t, sub, k, n, e) ==
  /\ e \in sub[n]
  /\ k = e \/ t.child[Toward(k, e)][e] = Nil
  /\ \A m \in sub[n], r \in Sides : e \in Under(sub, t.child[r][m]) => Before(r, k, m)

\* The comparison of a search leads to the side where the key belongs.
LEMMA TowardIs ==
  ASSUME NEW k \in Nat, NEW n \in Nat
  PROVE  /\ Toward(k, n) \in Sides
         /\ k # n => Before(Toward(k, n), k, n)
         /\ \A r \in Sides : Before(r, k, n) => r = Toward(k, n) /\ k # n
BY DEF Toward, Sides, Before

\* Where it is, and that a step of it changes nothing.
LEMMA EndsAtStep ==
  ASSUME NEW t, NEW K, NEW sub, Shape(t, K, sub), NEW k \in Keys, NEW n \in K
  PROVE  IF k = n \/ t.child[Toward(k, n)][n] = Nil
         THEN \A e : EndsAt(t, sub, k, n, e) => e = n
         ELSE \A e : EndsAt(t, sub, k, n, e) <=> EndsAt(t, sub, k, t.child[Toward(k, n)][n], e)
<1>1. /\ sub \in [K -> SUBSET K] /\ n \in sub[n] /\ Nil \notin K /\ K \subseteq Nat /\ k \in Nat
      /\ \A m \in K, r \in Sides : t.child[r][m] \in K \cup {Nil}
  BY ChildrenAre, NilIsNoKey DEF Shape, Ordered
<1>2. \A m \in K, r \in Sides : \A x \in Under(sub, t.child[r][m]) : Before(r, x, m)
  BY DEF Shape, Ordered
<1>3. \A m \in K : \A x \in sub[m] : x = m \/ \E r \in Sides : x \in Under(sub, t.child[r][m])
  BY DEF Shape, Ordered, Sides
<1>4. \A m \in K, r \in Sides : Under(sub, t.child[r][m]) \subseteq sub[m]
  BY DEF Shape, Ordered, Sides
<1>5. \A y \in K : \A x \in sub[y] : x \in K /\ sub[x] \subseteq sub[y]
  BY Nested
<1>6. CASE k = n \/ t.child[Toward(k, n)][n] = Nil
  <2>1. ASSUME NEW e, EndsAt(t, sub, k, n, e), e # n PROVE FALSE
    <3>1. PICK r \in Sides : e \in Under(sub, t.child[r][n])
      BY <1>3, <2>1 DEF EndsAt
    <3>2. Before(r, k, n)
      BY <1>1, <2>1, <3>1 DEF EndsAt
    <3>3. r = Toward(k, n) /\ k # n
      BY <1>1, <3>2, TowardIs
    <3> QED BY <1>6, <3>1, <3>3 DEF Under
  <2> QED BY <1>6, <2>1
<1>7. CASE ~(k = n \/ t.child[Toward(k, n)][n] = Nil)
  <2> DEFINE s == Toward(k, n)
             c == t.child[s][n]
  <2>1. /\ s \in Sides /\ Before(s, k, n) /\ c # Nil /\ c \in K
        /\ sub[c] \subseteq sub[n] /\ Under(sub, c) = sub[c]
    BY <1>1, <1>4, <1>7, TowardIs DEF Under
  <2>2. ASSUME NEW e, EndsAt(t, sub, k, n, e) PROVE EndsAt(t, sub, k, c, e)
    <3>1. e # n
      BY <1>7, <2>2 DEF EndsAt
    <3>2. PICK r \in Sides : e \in Under(sub, t.child[r][n])
      BY <1>3, <2>2, <3>1 DEF EndsAt
    <3>3. Before(r, k, n)
      BY <1>1, <2>2, <3>2 DEF EndsAt
    <3>4. r = s
      BY <1>1, <3>3, TowardIs
    <3> QED BY <2>1, <2>2, <3>2, <3>4 DEF EndsAt
  <2>3. ASSUME NEW e, EndsAt(t, sub, k, c, e) PROVE EndsAt(t, sub, k, n, e)
    <3>1. e \in sub[c] /\ e \in sub[n] /\ Before(s, e, n) /\ e \in Nat
      BY <1>1, <1>2, <2>1, <2>3 DEF EndsAt
    <3>2. ASSUME NEW m \in sub[n], NEW r \in Sides, e \in Under(sub, t.child[r][m]) PROVE Before(r, k, m)
      <4>1. m \in K
        BY <1>5, <3>2
      <4>2. CASE m = n
        <5>1. Before(r, e, n)
          BY <1>2, <3>2, <4>2
        <5>2. r = s
          BY <1>1, <2>1, <3>1, <5>1 DEF Before, Sides
        <5> QED BY <2>1, <4>2, <5>2
      <4>3. CASE m \in sub[c]
        BY <2>3, <3>2, <4>3 DEF EndsAt
      <4>4. CASE m # n /\ m \notin sub[c]
        <5>1. PICK q \in Sides : m \in Under(sub, t.child[q][n])
          BY <1>3, <3>2, <4>4
        <5>2. q # s /\ t.child[q][n] # Nil /\ t.child[q][n] \in K /\ m \in sub[t.child[q][n]]
          BY <1>1, <2>1, <4>4, <5>1 DEF Under
        <5>3. e \in sub[m]
          BY <1>4, <3>2, <4>1
        <5>4. e \in sub[t.child[q][n]]
          BY <1>5, <5>2, <5>3
        <5>5. Before(q, e, n)
          BY <1>2, <5>2, <5>4 DEF Under
        <5> QED BY <1>1, <2>1, <3>1, <5>2, <5>5 DEF Before, Sides
      <4> QED BY <4>2, <4>3, <4>4
    <3>3. k = e \/ t.child[Toward(k, e)][e] = Nil
      BY <2>3 DEF EndsAt
    <3> QED BY <3>1, <3>2, <3>3 DEF EndsAt
  <2> QED BY <1>7, <2>2, <2>3
<1> QED BY <1>6, <1>7

\* A search that can go no further ends where it is.
LEMMA EndsAtItself ==
  ASSUME NEW t, NEW K, NEW sub, Shape(t, K, sub), NEW k \in Keys, NEW n \in K,
         k = n \/ t.child[Toward(k, n)][n] = Nil
  PROVE  EndsAt(t, sub, k, n, n)
<1>1. n \in sub[n]
  BY DEF Shape, Ordered
<1>2. ASSUME NEW m \in sub[n], NEW r \in Sides, n \in Under(sub, t.child[r][m]) PROVE FALSE
  <2>1. m \in K /\ t.child[r][m] # Nil /\ n \in sub[t.child[r][m]] /\ (n \in sub[m] => m = n)
    BY <1>2, Nested DEF Under
  <2>2. sub[t.child[r][m]] \subseteq sub[m] /\ m \notin sub[t.child[r][m]]
    BY <2>1, ChildIs
  <2> QED BY <2>1, <2>2
<1> QED BY <1>1, <1>2 DEF EndsAt

\* The descent of a search or an insert ends, at a node of the tree.
LEMMA SearchLands ==
  ASSUME NEW t, NEW K, NEW sub, Shape(t, K, sub), NEW k \in Keys, t.root # Nil
  PROVE  /\ SearchEnd(t, k) \in K
         /\ EndsAt(t, sub, k, t.root, SearchEnd(t, k))
<1>1. /\ Nil \notin K /\ t.root \in K /\ K \subseteq Keys /\ K \subseteq Nat /\ k \in Nat
      /\ \A m \in K, r \in Sides : t.child[r][m] \in K \cup {Nil}
      /\ \A m \in Keys \ K, r \in Sides : t.child[r][m] = Nil
  BY ChildrenAre, NilIsNoKey DEF Shape, Pointers
<1> DEFINE Fixed(g) == g = [n \in Keys |-> LET next == t.child[IF k < n THEN "left" ELSE "right"][n]
                                          IN  IF k = n \/ next = Nil THEN n ELSE g[next]]
           f == [n \in Keys |-> IF n \in K THEN CHOOSE e : EndsAt(t, sub, k, n, e) ELSE n]
           From == CHOOSE g : Fixed(g)
<1>2. SearchEnd(t, k) = IF t.root = Nil THEN Nil ELSE From[t.root]
  BY DEF SearchEnd
<1>3. Fixed(f)
  <2>1. ASSUME NEW n \in Keys
        PROVE  f[n] = IF k = n \/ t.child[Toward(k, n)][n] = Nil THEN n ELSE f[t.child[Toward(k, n)][n]]
    <3>1. CASE n \notin K
      <4>1. Toward(k, n) \in Sides
        BY DEF Toward, Sides
      <4> QED BY <1>1, <3>1, <4>1
    <3>2. CASE n \in K /\ (k = n \/ t.child[Toward(k, n)][n] = Nil)
      <4>1. EndsAt(t, sub, k, n, n) /\ \A e : EndsAt(t, sub, k, n, e) => e = n
        BY <3>2, EndsAtStep, EndsAtItself
      <4>2. (CHOOSE e : EndsAt(t, sub, k, n, e)) = n
        BY <4>1
      <4> QED BY <3>2, <4>2
    <3>3. CASE n \in K /\ ~(k = n \/ t.child[Toward(k, n)][n] = Nil)
      <4>1. \A e : EndsAt(t, sub, k, n, e) <=> EndsAt(t, sub, k, t.child[Toward(k, n)][n], e)
        BY <3>3, EndsAtStep
      <4>2. (CHOOSE e : EndsAt(t, sub, k, n, e)) = (CHOOSE e : EndsAt(t, sub, k, t.child[Toward(k, n)][n], e))
        BY <4>1
      <4>3. t.child[Toward(k, n)][n] \in K /\ t.child[Toward(k, n)][n] \in Keys
        <5>1. Toward(k, n) \in Sides
          BY DEF Toward, Sides
        <5> QED BY <1>1, <3>3, <5>1
      <4>4. f[n] = CHOOSE e : EndsAt(t, sub, k, n, e)
        BY <3>3
      <4>5. f[t.child[Toward(k, n)][n]] = CHOOSE e : EndsAt(t, sub, k, t.child[Toward(k, n)][n], e)
        BY <4>3
      <4> HIDE DEF f
      <4>6. f[n] = f[t.child[Toward(k, n)][n]]
        BY <4>2, <4>4, <4>5
      <4> QED BY <3>3, <4>6
    <3> QED BY <3>1, <3>2, <3>3
  <2>2. f = [n \in Keys |-> f[n]]
    OBVIOUS
  <2> HIDE DEF f
  <2> QED BY <2>1, <2>2 DEF Toward
<1>4. Fixed(From)
  BY Zenon, <1>3
<1> HIDE DEF From
<1>5. \A n \in Keys : From[n] = IF k = n \/ t.child[Toward(k, n)][n] = Nil THEN n
                                ELSE From[t.child[Toward(k, n)][n]]
  BY Zenon, <1>4 DEF Toward
<1> HIDE DEF Fixed
<1>6. \A n \in K : EndsAt(t, sub, k, n, From[n])
  <2> DEFINE bad == {n \in K : ~EndsAt(t, sub, k, n, From[n])}
  <2> SUFFICES ASSUME bad # {} PROVE FALSE
    OBVIOUS
  <2>1. PICK n \in bad : \A s \in Sides : t.child[s][n] \notin bad
    <3>1. bad \in SUBSET K
      OBVIOUS
    <3> HIDE DEF bad
    <3> QED BY <3>1, Lowest
  <2>2. CASE k = n \/ t.child[Toward(k, n)][n] = Nil
    <3>1. From[n] = n
      BY <1>1, <1>5, <2>2
    <3> QED BY <2>2, <3>1, EndsAtItself
  <2>3. CASE ~(k = n \/ t.child[Toward(k, n)][n] = Nil)
    <3>1. Toward(k, n) \in Sides
      BY DEF Toward, Sides
    <3>2. t.child[Toward(k, n)][n] \in K
      BY <1>1, <2>3, <3>1
    <3>3. EndsAt(t, sub, k, t.child[Toward(k, n)][n], From[t.child[Toward(k, n)][n]])
      BY <2>1, <3>1, <3>2
    <3>4. From[n] = From[t.child[Toward(k, n)][n]]
      BY <1>1, <1>5, <2>3
    <3>5. EndsAt(t, sub, k, n, From[t.child[Toward(k, n)][n]])
      BY <2>3, <3>3, EndsAtStep
    <3> QED BY <3>4, <3>5
  <2> QED BY <2>2, <2>3
<1>7. EndsAt(t, sub, k, t.root, From[t.root])
  BY <1>1, <1>6
<1>8. From[t.root] \in K
  BY <1>1, <1>7, Nested DEF EndsAt
<1> QED BY <1>2, <1>7, <1>8

\* The search finds k when it is there.
LEMMA SearchFinds ==
  ASSUME NEW t, NEW K, NEW sub, Shape(t, K, sub), NEW k \in K, NEW n \in K, k \in sub[n],
         NEW e, EndsAt(t, sub, k, n, e)
  PROVE  e = k
<1> SUFFICES ASSUME e # k PROVE FALSE
  OBVIOUS
<1> DEFINE bad == {y \in K : y \in sub[n] /\ k \in sub[y] /\ e \in sub[y]}
<1>1. n \in bad
  BY DEF Shape, Ordered, EndsAt
<1>2. PICK y \in bad : \A s \in Sides : t.child[s][y] \notin bad
  <2>1. bad \in SUBSET K
    OBVIOUS
  <2> HIDE DEF bad
  <2> QED BY <1>1, <2>1, Lowest
<1>3. /\ sub \in [K -> SUBSET K] /\ Nil \notin K /\ K \subseteq Nat
      /\ \A m \in K, r \in Sides : t.child[r][m] \in K \cup {Nil}
      /\ \A m \in K, r \in Sides : \A x \in Under(sub, t.child[r][m]) : Before(r, x, m)
      /\ \A m \in K : \A x \in sub[m] : x = m \/ \E r \in Sides : x \in Under(sub, t.child[r][m])
  BY ChildrenAre, NilIsNoKey DEF Shape, Ordered, Sides
<1>4. e \in K
  BY Nested DEF EndsAt
<1>5. y # k
  <2> SUFFICES ASSUME y = k PROVE FALSE
    OBVIOUS
  <2>1. PICK r \in Sides : e \in Under(sub, t.child[r][y])
    BY <1>3
  <2>2. Before(r, k, k)
    BY <2>1 DEF EndsAt
  <2> QED BY <1>3, <2>2 DEF Before
<1>6. y # e
  <2> SUFFICES ASSUME y = e PROVE FALSE
    OBVIOUS
  <2>1. PICK r \in Sides : k \in Under(sub, t.child[r][y])
    BY <1>3
  <2>2. Before(r, k, e)
    BY <1>3, <2>1
  <2>3. r = Toward(k, e)
    BY <1>3, <1>4, <2>2, TowardIs
  <2> QED BY <2>1, <2>3 DEF Under, EndsAt
<1>7. PICK r \in Sides : e \in Under(sub, t.child[r][y])
  BY <1>3, <1>6
<1>8. PICK q \in Sides : k \in Under(sub, t.child[q][y])
  BY <1>3, <1>5
<1>9. Before(r, k, y) /\ Before(q, k, y)
  BY <1>3, <1>7, <1>8 DEF EndsAt
<1>10. q = r
  BY <1>3, <1>9, TowardIs
<1>11. t.child[r][y] \in K /\ k \in sub[t.child[r][y]] /\ e \in sub[t.child[r][y]]
  BY <1>3, <1>7, <1>8, <1>10 DEF Under
<1>12. t.child[r][y] \in sub[n]
  <2>1. t.child[r][y] \in sub[y]
    <3>1. t.child[r][y] # Nil
      BY <1>3, <1>11
    <3>2. t.child[r][y] \in sub[t.child[r][y]] /\ sub[t.child[r][y]] \subseteq sub[y]
      BY <3>1, ChildIs
    <3> QED BY <3>2
  <2>2. sub[y] \subseteq sub[n]
    BY Nested
  <2> QED BY <2>1, <2>2
<1> QED BY <1>2, <1>11, <1>12

----------------------------------------------------------------------------
\* The first step of an insert.

\* u is the tree t with k, red and without children, on side s of p.
Added(t, u, k, p, s) ==
  /\ u \in Trees
  /\ \A m \in Keys, r \in Sides :
       u.child[r][m] = IF m = k THEN Nil ELSE IF m = p /\ r = s THEN k ELSE t.child[r][m]
  /\ \A m \in Keys : /\ u.parent[m] = IF m = k THEN p ELSE t.parent[m]
                     /\ u.color[m] = IF m = k THEN "red" ELSE t.color[m]
  /\ u.root = IF p = Nil THEN k ELSE t.root

\* The place of k in the order is on side s of p.
PlaceOf(t, K, sub, k, p, s) ==
  /\ s \in Sides
  /\ k \in Keys \ K
  /\ IF p = Nil THEN K = {} /\ t.root = Nil
     ELSE /\ p \in K /\ t.child[s][p] = Nil /\ Before(s, k, p)
          /\ \A m \in K, r \in Sides : p \in Under(sub, t.child[r][m]) => Before(r, k, m)

\* cceph_rb_link_node stores a new red leaf, and nothing else.
LEMMA LinkAdds ==
  ASSUME NEW t \in Trees, NEW k \in Keys, NEW p \in (Keys \ {k}) \cup {Nil}, NEW s \in Sides
  PROVE  LET linked == SetChild(SetChild(Painted(SetParent(t, k, p), k, "red"), "left", k, Nil), "right", k, Nil)
         IN  Added(t, IF p = Nil THEN [linked EXCEPT !.root = k] ELSE SetChild(linked, s, p, k), k, p, s)
<1> DEFINE t1 == SetParent(t, k, p)
           t2 == Painted(t1, k, "red")
           t3 == SetChild(t2, "left", k, Nil)
           t4 == SetChild(t3, "right", k, Nil)
           u == IF p = Nil THEN [t4 EXCEPT !.root = k] ELSE SetChild(t4, s, p, k)
<1>0. "left" \in Sides /\ "right" \in Sides /\ "red" \in Colors /\ Nil \notin Keys /\ k # Nil /\ p # k
      /\ \A r \in Sides : r = "left" \/ r = "right"
  BY NilIsNoKey DEF Sides, Colors
<1>1. ParentIsSet(t, t1, k, p) /\ t1 \in Trees
  BY <1>0, ParentSet
<1> HIDE DEF t1
<1>2. ColorIsSet(t1, t2, k, "red") /\ t2 \in Trees
  BY <1>0, <1>1, ColorSet
<1> HIDE DEF t2
<1>3. ChildIsSet(t2, t3, "left", k, Nil) /\ t3 \in Trees
  BY <1>0, <1>2, ChildSet
<1> HIDE DEF t3
<1>4. ChildIsSet(t3, t4, "right", k, Nil) /\ t4 \in Trees
  BY <1>0, <1>3, ChildSet
<1> HIDE DEF t4
<1>5. Added(t, u, k, p, s)
  <2>1. CASE p = Nil
    <3>1. u = [t4 EXCEPT !.root = k]
      BY <2>1
    <3>2. /\ u \in Trees /\ u.root = k
          /\ u.child = t4.child /\ u.parent = t4.parent /\ u.color = t4.color
      BY <1>4, <3>1 DEF Trees
    <3> HIDE DEF u
    <3> QED BY <1>0, <1>1, <1>2, <1>3, <1>4, <2>1, <3>2
        DEF Added, ParentIsSet, ColorIsSet, ChildIsSet
  <2>2. CASE p # Nil
    <3>1. ChildIsSet(t4, u, s, p, k)
      BY <1>4, <2>2, ChildSet
    <3> HIDE DEF u
    <3> QED BY <1>0, <1>1, <1>2, <1>3, <1>4, <2>2, <3>1
        DEF Added, ParentIsSet, ColorIsSet, ChildIsSet
  <2> QED BY <2>1, <2>2
<1> QED BY <1>5 DEF u, t4, t3, t2, t1

\* The nodes below each node once k is a leaf below p.
AddedSub(K, sub, k, p) ==
  [m \in K \cup {k} |-> IF m = k THEN {k} ELSE IF p \in sub[m] THEN sub[m] \cup {k} ELSE sub[m]]

\* With a new leaf in its place in the order a tree is a tree.
LEMMA AddKeeps ==
  ASSUME NEW t, NEW u, NEW K, NEW sub, NEW k, NEW p, NEW s, Shape(t, K, sub),
         PlaceOf(t, K, sub, k, p, s), Added(t, u, k, p, s)
  PROVE  Pointers(u, K \cup {k}) /\ Ordered(u, K \cup {k}, AddedSub(K, sub, k, p))
<1> DEFINE J == K \cup {k}
           sub2 == AddedSub(K, sub, k, p)
<1>1. /\ Nil \notin K /\ K \subseteq Keys /\ t.root \in K \cup {Nil}
      /\ \A m \in K, r \in Sides : t.child[r][m] \in K \cup {Nil}
      /\ \A m \in K, r \in Sides : t.child[r][m] # Nil => t.parent[t.child[r][m]] = m
      /\ \A m \in K : t.parent[m] \in K \cup {Nil} /\ (t.parent[m] = Nil <=> t.root = m)
      /\ \A m \in K : t.parent[m] # Nil => \E r \in Sides : t.child[r][t.parent[m]] = m
      /\ \A m \in Keys \ K, r \in Sides : t.child[r][m] = Nil
  BY ChildrenAre DEF Shape, Pointers
<1>2. /\ s \in Sides /\ k \in Keys /\ k \notin K /\ k # Nil /\ p \in K \cup {Nil}
      /\ p = Nil => K = {} /\ t.root = Nil
      /\ p # Nil => p \in K /\ t.child[s][p] = Nil /\ Before(s, k, p)
                    /\ \A m \in K, r \in Sides : p \in Under(sub, t.child[r][m]) => Before(r, k, m)
  BY NilIsNoKey DEF PlaceOf
<1>3. /\ u \in Trees
      /\ \A r \in Sides : u.child[r][k] = Nil
      /\ \A m \in K, r \in Sides : u.child[r][m] = IF m = p /\ r = s THEN k ELSE t.child[r][m]
      /\ \A m \in Keys \ J, r \in Sides : u.child[r][m] = Nil
      /\ u.parent[k] = p
      /\ \A m \in K : u.parent[m] = t.parent[m]
      /\ u.root = IF p = Nil THEN k ELSE t.root
  <2>1. /\ K \subseteq Keys /\ k \in Keys /\ k \notin K /\ p \in K \cup {Nil}
        /\ \A m \in Keys \ K, r \in Sides : t.child[r][m] = Nil
        /\ Nil \notin K
    BY <1>1, <1>2
  <2>2. \A m \in Keys \ J : m # k /\ m # p
    BY <2>1, NilIsNoKey
  <2> QED BY <2>1, <2>2 DEF Added
<1>4. Pointers(u, J)
  <2>1. ASSUME NEW m \in J
        PROVE  /\ u.parent[m] \in J \cup {Nil}
               /\ u.parent[m] = Nil <=> u.root = m
               /\ u.parent[m] # Nil => \E r \in Sides : u.child[r][u.parent[m]] = m
    <3>1. CASE m = k
      <4>1. p # Nil => u.child[s][p] = k
        BY <1>2, <1>3
      <4> QED BY <1>1, <1>2, <1>3, <3>1, <4>1
    <3>2. CASE m \in K
      <4>1. t.parent[m] # Nil => \E r \in Sides : u.child[r][t.parent[m]] = m
        <5> SUFFICES ASSUME t.parent[m] # Nil PROVE \E r \in Sides : u.child[r][t.parent[m]] = m
          OBVIOUS
        <5>1. PICK r \in Sides : t.child[r][t.parent[m]] = m
          BY <1>1, <3>2
        <5>2. ~(t.parent[m] = p /\ r = s)
          BY <1>1, <1>2, <3>2, <5>1
        <5>3. t.parent[m] \in K
          BY <1>1, <3>2
        <5> QED BY <1>3, <5>1, <5>2, <5>3
      <4> QED BY <1>1, <1>2, <1>3, <3>2, <4>1
    <3> QED BY <3>1, <3>2
  <2>2. ASSUME NEW m \in J, NEW r \in Sides, u.child[r][m] # Nil
        PROVE  u.child[r][m] \in J /\ u.parent[u.child[r][m]] = m
    <3>1. m \in K
      BY <1>3, <2>2
    <3>2. CASE m = p /\ r = s
      BY <1>3, <3>1, <3>2
    <3>3. CASE ~(m = p /\ r = s)
      <4>1. u.child[r][m] = t.child[r][m]
        BY <1>3, <3>1, <3>3
      <4> QED BY <1>1, <1>3, <2>2, <3>1, <4>1
    <3> QED BY <3>2, <3>3
  <2>3. J \subseteq Keys /\ u.root \in J \cup {Nil}
    BY <1>1, <1>2, <1>3
  <2> QED BY <1>3, <2>1, <2>2, <2>3 DEF Pointers
<1>5. /\ sub \in [K -> SUBSET K]
      /\ Under(sub, t.root) = K
      /\ \A m \in K : sub[m] = {m} \cup Under(sub, t.child["left"][m]) \cup Under(sub, t.child["right"][m])
      /\ \A m \in K, r \in Sides : \A x \in Under(sub, t.child[r][m]) : Before(r, x, m)
  BY DEF Shape, Ordered
<1>6. /\ sub2 \in [J -> SUBSET J]
      /\ sub2[k] = {k}
      /\ \A m \in K : sub2[m] = IF p \in sub[m] THEN sub[m] \cup {k} ELSE sub[m]
  BY <1>2, <1>5 DEF AddedSub
<1> HIDE DEF sub2
<1>7. \A c \in K \cup {Nil} : Under(sub2, c) = IF p \in Under(sub, c) THEN Under(sub, c) \cup {k} ELSE Under(sub, c)
  BY <1>1, <1>6 DEF Under
<1>8. Under(sub2, u.root) = J
  <2>1. CASE p = Nil
    BY <1>2, <1>3, <1>6, <2>1 DEF Under
  <2>2. CASE p # Nil
    BY <1>1, <1>2, <1>3, <1>5, <1>7, <2>2
  <2> QED BY <2>1, <2>2
<1>9. \A r \in Sides : p # Nil => p \notin Under(sub, t.child[r][p])
  <2> TAKE r \in Sides
  <2>1. \A x \in Under(sub, t.child[r][p]) : p # Nil => Before(r, x, p)
    BY <1>2, <1>5
  <2>2. p # Nil => p \in Nat
    BY <1>1, <1>2, NilIsNoKey
  <2> QED BY <2>1, <2>2 DEF Before
<1>10. \A m \in K, r \in Sides :
         Under(sub2, u.child[r][m]) = Under(sub, t.child[r][m])
           \cup IF p # Nil /\ ((m = p /\ r = s) \/ p \in Under(sub, t.child[r][m])) THEN {k} ELSE {}
  <2> TAKE m \in K, r \in Sides
  <2>1. CASE m = p /\ r = s
    <3>1. Under(sub2, u.child[r][m]) = {k} /\ Under(sub, t.child[r][m]) = {}
      BY <1>1, <1>2, <1>3, <1>6, <2>1 DEF Under
    <3> QED BY <1>1, <2>1, <3>1
  <2>2. CASE ~(m = p /\ r = s)
    <3>1. u.child[r][m] = t.child[r][m] /\ t.child[r][m] \in K \cup {Nil}
      BY <1>1, <1>3, <2>2
    <3>2. Under(sub, t.child[r][m]) \subseteq K
      BY <1>1, <1>5 DEF Under
    <3> QED BY <1>1, <1>7, <2>2, <3>1, <3>2
  <2> QED BY <2>1, <2>2
<1>11. \A m \in J : sub2[m] = {m} \cup Under(sub2, u.child["left"][m]) \cup Under(sub2, u.child["right"][m])
  <2> TAKE m \in J
  <2>1. "left" \in Sides /\ "right" \in Sides /\ (s = "left" \/ s = "right")
    BY <1>2 DEF Sides
  <2>2. CASE m = k
    BY <1>3, <1>6, <2>1, <2>2 DEF Under
  <2>3. CASE m \in K
    <3>1. p \in sub[m] <=> p # Nil /\ (p = m \/ p \in Under(sub, t.child["left"][m]) \/ p \in Under(sub, t.child["right"][m]))
      BY <1>1, <1>5, <2>3
    <3>2. sub2[m] = sub[m] \cup IF p \in sub[m] THEN {k} ELSE {}
      BY <1>6, <2>3
    <3>3. sub[m] = {m} \cup Under(sub, t.child["left"][m]) \cup Under(sub, t.child["right"][m])
      BY <1>5, <2>3
    <3>4. /\ Under(sub2, u.child["left"][m]) = Under(sub, t.child["left"][m])
               \cup IF p # Nil /\ ((m = p /\ "left" = s) \/ p \in Under(sub, t.child["left"][m])) THEN {k} ELSE {}
          /\ Under(sub2, u.child["right"][m]) = Under(sub, t.child["right"][m])
               \cup IF p # Nil /\ ((m = p /\ "right" = s) \/ p \in Under(sub, t.child["right"][m])) THEN {k} ELSE {}
      BY <1>10, <2>1, <2>3
    <3> QED BY <2>1, <3>1, <3>2, <3>3, <3>4
  <2> QED BY <2>2, <2>3
<1>12. ASSUME NEW m \in J, NEW r \in Sides, NEW x \in Under(sub2, u.child[r][m]) PROVE Before(r, x, m)
  <2>1. m \in K
    BY <1>3, <1>12 DEF Under
  <2>2. CASE x \in Under(sub, t.child[r][m])
    BY <1>5, <2>1, <2>2
  <2>3. CASE x \notin Under(sub, t.child[r][m])
    <3>1. x = k /\ p # Nil /\ ((m = p /\ r = s) \/ p \in Under(sub, t.child[r][m]))
      BY <1>10, <1>12, <2>1, <2>3
    <3> QED BY <1>2, <2>1, <3>1
  <2> QED BY <2>2, <2>3
<1>13. Ordered(u, J, sub2)
  BY <1>6, <1>8, <1>11, <1>12 DEF Ordered
<1> QED BY <1>4, <1>13 DEF sub2

\* After the new leaf is linked the tree is as the loop of an insert expects it.
LEMMA AddStarts ==
  ASSUME NEW t, NEW u, NEW K, NEW sub, NEW k, NEW p, NEW s, Shape(t, K, sub), Resting(t, K),
         PlaceOf(t, K, sub, k, p, s), Added(t, u, k, p, s)
  PROVE  Inserting(u, K \cup {k}, k)
<1> DEFINE J == K \cup {k}
<1>1. Pointers(u, J) /\ Ordered(u, J, AddedSub(K, sub, k, p))
  BY AddKeeps
<1>2. /\ Nil \notin K /\ K \subseteq Keys /\ t.root \in K \cup {Nil}
      /\ \A m \in K, r \in Sides : t.child[r][m] \in K \cup {Nil}
      /\ \A m \in K : t.parent[m] \in K \cup {Nil} /\ (t.parent[m] = Nil <=> t.root = m)
      /\ k \in Keys /\ k \notin K /\ k # Nil /\ s \in Sides /\ p \in K \cup {Nil}
      /\ (p = Nil => K = {} /\ t.root = Nil)
      /\ (p # Nil => t.child[s][p] = Nil)
  BY ChildrenAre, NilIsNoKey DEF Shape, PlaceOf
<1>3. /\ \A r \in Sides : u.child[r][k] = Nil
      /\ \A m \in K, r \in Sides : u.child[r][m] = IF m = p /\ r = s THEN k ELSE t.child[r][m]
      /\ u.parent[k] = p
      /\ \A m \in K : u.parent[m] = t.parent[m]
      /\ u.color[k] = "red"
      /\ \A m \in K : u.color[m] = t.color[m]
      /\ u.root = IF p = Nil THEN k ELSE t.root
  BY <1>2 DEF Added
<1>4. \E bh : Balanced(u, J, bh, Nil, "left")
  <2>1. PICK bh : Balanced(t, K, bh, Nil, "left")
    BY DEF Resting
  <2> DEFINE bh2 == [m \in J |-> IF m = k THEN 0 ELSE bh[m]]
  <2>2. bh \in [K -> Nat]
    BY <2>1 DEF Balanced
  <2>3. bh2 \in [J -> Nat] /\ bh2[k] = 0 /\ \A m \in K : bh2[m] = bh[m]
    BY <1>2, <2>2
  <2> HIDE DEF bh2
  <2>4. \A m \in K, r \in Sides : bh[m] = Weight(t, m) + Height(bh, t.child[r][m])
    BY <1>2, <2>1, <2>2, Balances
  <2>5. \A m \in K, r \in Sides : Height(bh2, u.child[r][m]) = Height(bh, t.child[r][m])
    BY <1>2, <1>3, <2>3 DEF Height
  <2>6. \A m \in J, r \in Sides : bh2[m] = Weight(u, m) + Height(bh2, u.child[r][m])
    <3> TAKE m \in J, r \in Sides
    <3>1. CASE m = k
      <4>1. Weight(u, k) = 0 /\ Height(bh2, u.child[r][k]) = 0
        BY <1>3 DEF Weight, Height
      <4> QED BY <2>3, <3>1, <4>1
    <3>2. CASE m \in K
      <4>1. Weight(u, m) = Weight(t, m)
        BY <1>3, <3>2 DEF Weight
      <4> QED BY <2>3, <2>4, <2>5, <3>2, <4>1
    <3> QED BY <3>1, <3>2
  <2>7. Nil \notin J /\ \A m \in J, r \in Sides : u.child[r][m] \in J \cup {Nil}
    BY <1>1, ChildrenAre
  <2> QED BY <2>3, <2>6, <2>7, Balances
<1>5. RedsApart(u, J, k, Nil)
  <2>1. RedsApart(t, K, Nil, Nil)
    BY DEF Resting
  <2>2. ASSUME IsRed(u, u.root) PROVE u.root = k
    BY <1>2, <1>3, <2>1, <2>2 DEF RedsApart, IsRed
  <2>3. ASSUME NEW m \in J, IsRed(u, m), IsRed(u, u.parent[m]) PROVE m = k
    <3> SUFFICES ASSUME m \in K PROVE FALSE
      BY <2>3
    <3>1. IsRed(t, m) /\ IsRed(t, t.parent[m])
      BY <1>2, <1>3, <2>3 DEF IsRed
    <3> QED BY <1>2, <2>1, <3>1 DEF RedsApart, IsRed
  <2> QED BY <2>2, <2>3 DEF RedsApart
<1>6. k \in J /\ IsRed(u, k)
  BY <1>2, <1>3 DEF IsRed
<1> QED BY <1>1, <1>4, <1>5, <1>6 DEF Inserting

\* The search ends where a new key belongs.
LEMMA SearchPlaces ==
  ASSUME NEW t, NEW K, NEW sub, Shape(t, K, sub), NEW k \in Keys, SearchEnd(t, k) # k
  PROVE  PlaceOf(t, K, sub, k, SearchEnd(t, k), Toward(k, SearchEnd(t, k)))
<1>1. K \subseteq Keys /\ Nil \notin K /\ k \in Nat /\ K \subseteq Nat /\ t.root \in K \cup {Nil}
  BY ChildrenAre, NilIsNoKey DEF Shape
<1>2. CASE t.root = Nil
  <2>1. SearchEnd(t, k) = Nil
    BY <1>2 DEF SearchEnd
  <2>2. K = {}
    BY <1>2 DEF Shape, Ordered, Under
  <2>3. Toward(k, Nil) \in Sides
    BY DEF Toward, Sides
  <2> QED BY <1>2, <2>1, <2>2, <2>3 DEF PlaceOf
<1>3. CASE t.root # Nil
  <2>1. PICK e : e = SearchEnd(t, k)
    OBVIOUS
  <2>2. e \in K /\ EndsAt(t, sub, k, t.root, e)
    BY <1>3, <2>1, SearchLands
  <2>3. sub[t.root] = K
    BY <1>3 DEF Shape, Ordered, Under
  <2>4. k \notin K
    <3> SUFFICES ASSUME k \in K PROVE FALSE
      OBVIOUS
    <3>1. k \in sub[t.root] /\ t.root \in K
      BY <1>1, <1>3, <2>3
    <3> QED BY <2>1, <2>2, <3>1, SearchFinds
  <2>5. Toward(k, e) \in Sides /\ Before(Toward(k, e), k, e) /\ t.child[Toward(k, e)][e] = Nil
    BY <1>1, <2>1, <2>2, TowardIs DEF EndsAt
  <2>6. \A m \in K, r \in Sides : e \in Under(sub, t.child[r][m]) => Before(r, k, m)
    BY <2>2, <2>3 DEF EndsAt
  <2>7. e # Nil
    BY <1>1, <2>2
  <2> QED BY <2>1, <2>2, <2>4, <2>5, <2>6, <2>7 DEF PlaceOf
<1> QED BY <1>2, <1>3

----------------------------------------------------------------------------
\* Rebalancing after an erase.

\* g is black and its child up, on the side opposite to s, is red.
Tilted(t, K, g, up, s) ==
  /\ g \in K /\ s \in Sides /\ t.child[Opposite(s)][g] = up
  /\ t.color[g] # "red" /\ IsRed(t, up)

\* The two with their colors and places exchanged.
Swapped(t, u, K, g, up, s) ==
  /\ u.child[Opposite(s)][g] = t.child[s][up] /\ u.child[s][up] = g
  /\ u.child[s][g] = t.child[s][g] /\ u.child[Opposite(s)][up] = t.child[Opposite(s)][up]
  /\ {t.child[s][up], t.child[s][g], t.child[Opposite(s)][up]} \subseteq (K \cup {Nil}) \ {g, up}
  /\ up \in K /\ g \in K /\ up # g /\ t.parent[up] = g
  /\ u.parent[up] = t.parent[g] /\ u.parent[g] = up
  /\ \A m \in K \ {g, up} : u.parent[m] = IF m = t.child[s][up] THEN g ELSE t.parent[m]
  /\ \A m \in K : u.color[m] = IF m = g THEN "red" ELSE IF m = up THEN "black" ELSE t.color[m]
  /\ u.root = IF t.parent[g] = Nil THEN up ELSE t.root
  /\ \A m \in K \ {g, up}, r \in Sides :
       \/ t.child[r][m] = g /\ u.child[r][m] = up
       \/ t.child[r][m] # g /\ u.child[r][m] = t.child[r][m]

\* A rotation with the colors of the two exchanged, as both loops of an erase do
\* it when a sibling, or its near child, is red.
LEMMA SwapTurn ==
  ASSUME NEW t, NEW K, NEW sub, NEW g, NEW up, NEW s, Pointers(t, K), Ordered(t, K, sub),
         Tilted(t, K, g, up, s)
  PROVE  LET u == Rotate(Painted(Painted(t, up, "black"), g, "red"), g, s)
         IN  /\ Pointers(u, K) /\ \E sub2 : Ordered(u, K, sub2)
             /\ Swapped(t, u, K, g, up, s)
             /\ \A bh, bh2 : bh2[up] = bh[g] /\ (\A m \in K \ {g, up} : bh2[m] = bh[m]) =>
                  /\ \A m \in K \ {g, up}, r \in Sides : Height(bh2, u.child[r][m]) = Height(bh, t.child[r][m])
                  /\ \A c \in (K \cup {Nil}) \ {g, up} : Height(bh2, c) = Height(bh, c)
<1> DEFINE o == Opposite(s)
           v == Painted(Painted(t, up, "black"), g, "red")
           u == Rotate(v, g, s)
<1>1. /\ g \in K /\ s \in Sides /\ t.child[o][g] = up /\ o \in Sides /\ Opposite(o) = s
      /\ t.color[g] # "red" /\ t.color[up] = "red" /\ up # Nil
  BY SidesAre DEF Tilted, IsRed
<1>2. up \in K /\ up # g
  BY <1>1, ChildrenAre
<1>3. /\ Pointers(v, K) /\ SameShape(t, v)
      /\ \A m \in K : v.color[m] = IF m = g THEN "red" ELSE IF m = up THEN "black" ELSE t.color[m]
  BY <1>1, <1>2, PaintTwo DEF Colors
<1> HIDE DEF v
<1>4. /\ \A m \in K, r \in Sides : v.child[r][m] = t.child[r][m]
      /\ \A m \in K : v.parent[m] = t.parent[m]
      /\ v.root = t.root
  BY <1>3, ShapeIs
<1>5. Ordered(v, K, sub)
  BY <1>3, SameShapeKeeps
<1>6. /\ TurnIn(v, u, K, sub, g, up, s)
      /\ Pointers(u, K)
      /\ Ordered(u, K, TurnedSub(v, sub, g, up, s))
  <2>1. v.child[o][g] = up
    BY <1>1, <1>4
  <2>2. /\ TurnIn(v, u, K, sub, g, v.child[o][g], s)
        /\ Pointers(u, K)
        /\ Ordered(u, K, TurnedSub(v, sub, g, v.child[o][g], s))
    BY <1>1, <1>3, <1>5, <2>1, RotateKeeps
  <2> QED BY <2>1, <2>2
<1> HIDE DEF u
<1>7. TurnNear(v, u, K, g, up, s)
  BY <1>6, TurnIsNear
<1>8. \A m \in K \ {g, up}, r \in Sides :
        \/ t.child[r][m] = g /\ u.child[r][m] = up
        \/ t.child[r][m] # g /\ u.child[r][m] = t.child[r][m]
  BY <1>4, <1>6, TurnElsewhere
<1>9. t.parent[up] = g
  BY <1>1, <1>2, ChildrenAre
<1>10. Swapped(t, u, K, g, up, s)
  BY <1>1, <1>2, <1>3, <1>4, <1>7, <1>8, <1>9 DEF TurnNear, Swapped
<1>11. \A bh, bh2 : bh2[up] = bh[g] /\ (\A m \in K \ {g, up} : bh2[m] = bh[m]) =>
         /\ \A m \in K \ {g, up}, r \in Sides : Height(bh2, u.child[r][m]) = Height(bh, t.child[r][m])
         /\ \A c \in (K \cup {Nil}) \ {g, up} : Height(bh2, c) = Height(bh, c)
  <2> SUFFICES ASSUME NEW bh, NEW bh2, bh2[up] = bh[g], \A m \in K \ {g, up} : bh2[m] = bh[m]
               PROVE  /\ \A m \in K \ {g, up}, r \in Sides : Height(bh2, u.child[r][m]) = Height(bh, t.child[r][m])
                      /\ \A c \in (K \cup {Nil}) \ {g, up} : Height(bh2, c) = Height(bh, c)
    OBVIOUS
  <2>1. /\ \A m \in K \ {g, up}, r \in Sides : Height(bh2, u.child[r][m]) = Height(bh, v.child[r][m])
        /\ \A c \in (K \cup {Nil}) \ {g, up} : Height(bh2, c) = Height(bh, c)
    BY <1>6, TurnHeights
  <2> QED BY <1>4, <2>1
<1> QED BY <1>6, <1>10, <1>11 DEF u, v

\* The same blacks below every node, where one may be missing.
LEMMA SwapBalances ==
  ASSUME NEW t, NEW K, NEW sub, NEW g, NEW up, NEW s, Pointers(t, K), Ordered(t, K, sub),
         Tilted(t, K, g, up, s),
         NEW bh, NEW sp, NEW ss, Balanced(t, K, bh, sp, ss), sp # up, sp = g => ss = s,
         ss \in Sides
  PROVE  LET u == Rotate(Painted(Painted(t, up, "black"), g, "red"), g, s)
         IN  \E bh2 : Balanced(u, K, bh2, sp, ss)
<1> DEFINE o == Opposite(s)
           u == Rotate(Painted(Painted(t, up, "black"), g, "red"), g, s)
           bh2 == [bh EXCEPT ![up] = bh[g], ![g] = bh[up]]
           Gap(m, r) == IF m = sp /\ r = ss THEN 1 ELSE 0
<1>1. /\ g \in K /\ s \in Sides /\ t.child[o][g] = up /\ o \in Sides /\ Opposite(o) = s /\ o # s
      /\ t.color[g] # "red" /\ t.color[up] = "red" /\ up # Nil
      /\ \A r \in Sides : r = s \/ r = o
  BY SidesAre DEF Tilted, IsRed
<1>2. /\ Swapped(t, u, K, g, up, s)
      /\ \A h, h2 : h2[up] = h[g] /\ (\A m \in K \ {g, up} : h2[m] = h[m]) =>
           /\ \A m \in K \ {g, up}, r \in Sides : Height(h2, u.child[r][m]) = Height(h, t.child[r][m])
           /\ \A c \in (K \cup {Nil}) \ {g, up} : Height(h2, c) = Height(h, c)
  BY SwapTurn
<1> HIDE DEF u
<1>3. /\ Nil \notin K
      /\ \A m \in K, r \in Sides : t.child[r][m] \in K \cup {Nil}
      /\ \A m \in K : t.color[m] = "red" \/ t.color[m] = "black"
  BY ChildrenAre
<1>4. bh \in [K -> Nat]
  BY DEF Balanced
<1>5. up \in K /\ g \in K /\ up # g
  BY <1>2 DEF Swapped
<1>6. /\ bh2 \in [K -> Nat] /\ bh2[up] = bh[g] /\ bh2[g] = bh[up]
      /\ \A m \in K \ {g, up} : bh2[m] = bh[m]
  BY <1>4, <1>5
<1> HIDE DEF bh2
<1>7. /\ \A m \in K \ {g, up}, r \in Sides : Height(bh2, u.child[r][m]) = Height(bh, t.child[r][m])
      /\ \A c \in (K \cup {Nil}) \ {g, up} : Height(bh2, c) = Height(bh, c)
  BY <1>2, <1>6
<1>8. /\ Weight(t, up) = 0 /\ Weight(t, g) = 1 /\ Weight(u, up) = 1 /\ Weight(u, g) = 0
      /\ \A m \in K \ {g, up} : Weight(u, m) = Weight(t, m)
  BY <1>1, <1>2, <1>3, <1>5 DEF Weight, Swapped
<1>9. \A m \in K, r \in Sides : bh[m] = Weight(t, m) + Height(bh, t.child[r][m]) + Gap(m, r)
  BY DEF Balanced, Even
<1>10. /\ Gap(g, o) = 0 /\ Gap(up, s) = 0 /\ Gap(up, o) = 0 /\ Gap(g, s) \in Nat
  BY <1>1
<1> DEFINE c == t.child[s][up]
           d == t.child[o][up]
           e == t.child[s][g]
<1>11. /\ {c, d, e} \subseteq (K \cup {Nil}) \ {g, up}
       /\ u.child[o][g] = c /\ u.child[s][up] = g /\ u.child[s][g] = e /\ u.child[o][up] = d
  BY <1>2 DEF Swapped
<1>12. /\ bh[g] = 1 + bh[up] /\ bh[up] = Height(bh, c) /\ bh[up] = Height(bh, d)
       /\ bh[g] = 1 + Height(bh, e) + Gap(g, s)
  <2>1. Height(bh, up) = bh[up] /\ bh[up] \in Nat
    BY <1>1, <1>4, <1>5 DEF Height
  <2>2. /\ bh[g] = Weight(t, g) + Height(bh, t.child[o][g]) + Gap(g, o)
        /\ bh[g] = Weight(t, g) + Height(bh, e) + Gap(g, s)
        /\ bh[up] = Weight(t, up) + Height(bh, c) + Gap(up, s)
        /\ bh[up] = Weight(t, up) + Height(bh, d) + Gap(up, o)
    BY <1>1, <1>5, <1>9
  <2>3. Height(bh, c) \in Nat /\ Height(bh, d) \in Nat /\ Height(bh, e) \in Nat
    BY <1>11, <1>4 DEF Height
  <2> HIDE DEF Gap
  <2> QED BY <1>1, <1>8, <1>10, <2>1, <2>2, <2>3
<1>13. ASSUME NEW m \in K, NEW r \in Sides
       PROVE  bh2[m] = Weight(u, m) + Height(bh2, u.child[r][m]) + Gap(m, r)
  <2>1. CASE m \notin {g, up}
    BY <1>6, <1>7, <1>8, <1>9, <2>1
  <2> HIDE DEF Gap
  <2>2. bh[up] \in Nat /\ bh[g] \in Nat /\ Height(bh, e) \in Nat
    BY <1>4, <1>5, <1>11 DEF Height
  <2>3. CASE m = g /\ r = o
    <3>1. Height(bh2, c) = Height(bh, c)
      BY <1>7, <1>11
    <3> QED BY <1>6, <1>8, <1>10, <1>11, <1>12, <2>2, <2>3, <3>1
  <2>4. CASE m = g /\ r = s
    <3>1. Height(bh2, e) = Height(bh, e)
      BY <1>7, <1>11
    <3> QED BY <1>6, <1>8, <1>10, <1>11, <1>12, <2>2, <2>4, <3>1
  <2>5. CASE m = up /\ r = s
    <3>1. Height(bh2, g) = bh[up]
      BY <1>3, <1>5, <1>6 DEF Height
    <3> QED BY <1>6, <1>8, <1>10, <1>11, <1>12, <2>2, <2>5, <3>1
  <2>6. CASE m = up /\ r = o
    <3>1. Height(bh2, d) = Height(bh, d)
      BY <1>7, <1>11
    <3> QED BY <1>6, <1>8, <1>10, <1>11, <1>12, <2>2, <2>6, <3>1
  <2> QED BY <1>1, <2>1, <2>3, <2>4, <2>5, <2>6
<1>14. Balanced(u, K, bh2, sp, ss)
  BY <1>6, <1>13 DEF Balanced, Even
<1> QED BY <1>14 DEF u

\* It puts no red node below a red one.
LEMMA SwapKeepsApart ==
  ASSUME NEW t, NEW K, NEW sub, NEW g, NEW up, NEW s, Pointers(t, K), Ordered(t, K, sub),
         Tilted(t, K, g, up, s), RedsApart(t, K, Nil, Nil), ~IsRed(t, t.child[s][g])
  PROVE  LET u == Rotate(Painted(Painted(t, up, "black"), g, "red"), g, s)
         IN  RedsApart(u, K, Nil, Nil)
<1> DEFINE o == Opposite(s)
           u == Rotate(Painted(Painted(t, up, "black"), g, "red"), g, s)
<1>1. /\ g \in K /\ s \in Sides /\ t.child[o][g] = up /\ o \in Sides
      /\ t.color[g] # "red" /\ IsRed(t, up) /\ up # Nil
      /\ \A r \in Sides : r = s \/ r = o
  BY SidesAre DEF Tilted, IsRed
<1>2. Swapped(t, u, K, g, up, s)
  BY SwapTurn
<1> HIDE DEF u
<1>3. /\ Nil \notin K /\ t.root \in K \cup {Nil}
      /\ \A m \in K, r \in Sides : t.child[r][m] # Nil => t.parent[t.child[r][m]] = m
      /\ \A m \in K : t.parent[m] \in K \cup {Nil} /\ (t.parent[m] = Nil <=> t.root = m)
      /\ \A m \in K : t.parent[m] # Nil => \E r \in Sides : t.child[r][t.parent[m]] = m
  BY ChildrenAre DEF Pointers
<1>4. ~IsRed(t, t.root) /\ \A m \in K : ~(IsRed(t, m) /\ IsRed(t, t.parent[m]))
  <2>1. /\ IsRed(t, t.root) => t.root = Nil
        /\ \A m \in K : IsRed(t, m) /\ IsRed(t, t.parent[m]) => m = Nil \/ t.parent[m] = Nil
    BY DEF RedsApart
  <2> QED BY <2>1 DEF IsRed
<1> DEFINE c == t.child[s][up]
<1>5. /\ up \in K /\ up # g /\ t.parent[up] = g /\ c \in (K \cup {Nil}) \ {g, up}
      /\ u.parent[up] = t.parent[g] /\ u.parent[g] = up
      /\ \A m \in K \ {g, up} : u.parent[m] = IF m = c THEN g ELSE t.parent[m]
      /\ \A m \in K : u.color[m] = IF m = g THEN "red" ELSE IF m = up THEN "black" ELSE t.color[m]
      /\ u.root = IF t.parent[g] = Nil THEN up ELSE t.root
  BY <1>2 DEF Swapped
<1>6. ~IsRed(u, u.root)
  <2> SUFFICES ASSUME IsRed(u, u.root) PROVE FALSE
    OBVIOUS
  <2>1. t.parent[g] # Nil
    BY <1>5 DEF IsRed
  <2>2. t.root \notin {g, up}
    BY <1>1, <1>3, <1>5, <2>1
  <2> QED BY <1>3, <1>4, <1>5, <2>1, <2>2 DEF IsRed
<1>7. ASSUME NEW m \in K, IsRed(u, m), IsRed(u, u.parent[m]) PROVE FALSE
  <2>1. m # up /\ m # g
    BY <1>5, <1>7 DEF IsRed
  <2>2. IsRed(t, m)
    BY <1>5, <1>7, <2>1 DEF IsRed
  <2>3. m # c
    <3> SUFFICES ASSUME m = c PROVE FALSE
      OBVIOUS
    <3>1. t.parent[m] = up
      BY <1>1, <1>3, <1>5
    <3> QED BY <1>1, <1>4, <2>2, <3>1
  <2>4. PICK q \in K \cup {Nil} : q = t.parent[m]
    BY <1>3
  <2>5. u.parent[m] = q
    BY <1>5, <2>1, <2>3, <2>4
  <2>6. q # g
    <3> SUFFICES ASSUME q = g PROVE FALSE
      OBVIOUS
    <3>1. \E r \in Sides : t.child[r][g] = m
      BY <1>1, <1>3, <2>4
    <3> QED BY <1>1, <2>1, <2>2, <3>1
  <2>7. IsRed(t, q)
    BY <1>5, <1>7, <2>5, <2>6 DEF IsRed
  <2> QED BY <1>4, <2>2, <2>4, <2>7
<1>8. RedsApart(u, K, Nil, Nil)
  BY <1>6, <1>7 DEF RedsApart
<1> QED BY <1>8 DEF u

\* The tree while a black is missing on side s of p.
Short(t, K, p, s) ==
  /\ Pointers(t, K)
  /\ \E sub : Ordered(t, K, sub)
  /\ p \in K /\ s \in Sides
  /\ \E bh : Balanced(t, K, bh, p, s)
  /\ RedsApart(t, K, Nil, Nil)
  /\ ~IsRed(t, t.child[s][p])

\* What an erase knows of the tree while a black is missing.
LEMMA ShortIs ==
  ASSUME NEW t, NEW K, NEW p, NEW s, Short(t, K, p, s)
  PROVE  /\ p \in K /\ s \in Sides /\ Opposite(s) \in Sides /\ Opposite(s) # s
         /\ Opposite(Opposite(s)) = s /\ \A r \in Sides : r = s \/ r = Opposite(s)
         /\ Pointers(t, K) /\ ~IsRed(t, t.child[s][p])
         /\ Nil \notin K /\ t.root \in K \cup {Nil}
         /\ \A m \in K, r \in Sides : t.child[r][m] \in K \cup {Nil}
         /\ \A m \in K, r \in Sides : t.child[r][m] # Nil => t.parent[t.child[r][m]] = m
         /\ \A m \in K : t.parent[m] \in K \cup {Nil} /\ (t.parent[m] = Nil <=> t.root = m)
         /\ \A m \in K : t.color[m] = "red" \/ t.color[m] = "black"
         /\ ~IsRed(t, t.root) /\ \A m \in K : ~(IsRed(t, m) /\ IsRed(t, t.parent[m]))
<1>1. Pointers(t, K) /\ p \in K /\ s \in Sides /\ ~IsRed(t, t.child[s][p]) /\ RedsApart(t, K, Nil, Nil)
  BY DEF Short
<1>2. ~IsRed(t, t.root) /\ \A m \in K : ~(IsRed(t, m) /\ IsRed(t, t.parent[m]))
  <2>1. /\ IsRed(t, t.root) => t.root = Nil
        /\ \A m \in K : IsRed(t, m) /\ IsRed(t, t.parent[m]) => m = Nil \/ t.parent[m] = Nil
    BY <1>1 DEF RedsApart
  <2> QED BY <2>1 DEF IsRed
<1> QED BY <1>1, <1>2, SidesAre, ChildrenAre

\* On the other side there is a node then.
LEMMA ShortSibling ==
  ASSUME NEW t, NEW K, NEW p, NEW s, Short(t, K, p, s)
  PROVE  t.child[Opposite(s)][p] \in K /\ t.child[Opposite(s)][p] # t.child[s][p]
<1>1. /\ p \in K /\ s \in Sides /\ Opposite(s) \in Sides /\ Opposite(s) # s
      /\ \A m \in K, r \in Sides : t.child[r][m] \in K \cup {Nil}
      /\ Pointers(t, K)
  BY ShortIs
<1>2. PICK bh : Balanced(t, K, bh, p, s)
  BY DEF Short
<1>3. PICK sub : Ordered(t, K, sub)
  BY DEF Short
<1>4. t.child[Opposite(s)][p] # Nil
  <2> SUFFICES ASSUME t.child[Opposite(s)][p] = Nil PROVE FALSE
    OBVIOUS
  <2>1. /\ bh[p] = Weight(t, p) + Height(bh, t.child[s][p]) + 1
        /\ bh[p] = Weight(t, p) + Height(bh, Nil) + 0
    BY <1>1, <1>2 DEF Balanced, Even
  <2>2. Height(bh, Nil) = 0 /\ Height(bh, t.child[s][p]) \in Nat /\ Weight(t, p) \in Nat
    BY <1>1, <1>2 DEF Height, Balanced, Weight
  <2> QED BY <2>1, <2>2
<1> QED BY <1>1, <1>3, <1>4, OneSide

\* A red sibling is turned up: the next one is black.
LEMMA SiblingTurn ==
  ASSUME NEW t, NEW K, NEW p, NEW s, NEW w, Short(t, K, p, s), w \in {t.child[Opposite(s)][p]}, IsRed(t, w)
  PROVE  LET v == Rotate(Painted(Painted(t, w, "black"), p, "red"), p, s)
         IN  /\ Short(v, K, p, s)
             /\ v.child[s][p] = t.child[s][p]
             /\ ~IsRed(v, v.child[Opposite(s)][p])
             /\ IsRed(v, p)
<1> DEFINE o == Opposite(s)
           v == Rotate(Painted(Painted(t, w, "black"), p, "red"), p, s)
<1>1. /\ p \in K /\ s \in Sides /\ o \in Sides /\ o # s
      /\ Pointers(t, K) /\ ~IsRed(t, t.child[s][p])
      /\ Nil \notin K
      /\ \A m \in K, r \in Sides : t.child[r][m] \in K \cup {Nil}
      /\ \A m \in K, r \in Sides : t.child[r][m] # Nil => t.parent[t.child[r][m]] = m
      /\ \A m \in K : ~(IsRed(t, m) /\ IsRed(t, t.parent[m]))
      /\ RedsApart(t, K, Nil, Nil)
  <2>1. RedsApart(t, K, Nil, Nil)
    BY DEF Short
  <2> QED BY <2>1, ShortIs
<1>2. PICK bh : Balanced(t, K, bh, p, s)
  BY DEF Short
<1>3. PICK sub : Ordered(t, K, sub)
  BY DEF Short
<1>4. t.child[o][p] = w /\ w \in K /\ t.parent[w] = p
  <2>1. t.child[o][p] = w /\ w # Nil
    BY DEF IsRed
  <2> QED BY <1>1, <2>1
<1>5. t.color[p] # "red"
  BY <1>1, <1>4 DEF IsRed
<1>6. Tilted(t, K, p, w, s)
  BY <1>1, <1>4, <1>5 DEF Tilted
<1>7. /\ Pointers(v, K) /\ \E sub2 : Ordered(v, K, sub2)
      /\ Swapped(t, v, K, p, w, s)
  BY <1>1, <1>3, <1>6, SwapTurn
<1>8. \E bh2 : Balanced(v, K, bh2, p, s)
  <2>1. p # w
    BY <1>7 DEF Swapped
  <2> QED BY <1>1, <1>2, <1>3, <1>6, <2>1, SwapBalances
<1>9. RedsApart(v, K, Nil, Nil)
  BY <1>1, <1>3, <1>6, SwapKeepsApart
<1> HIDE DEF v
<1>10. /\ v.child[s][p] = t.child[s][p] /\ v.child[o][p] = t.child[s][w]
       /\ {t.child[s][w], t.child[s][p]} \subseteq (K \cup {Nil}) \ {p, w}
       /\ \A m \in K \ {p, w} : v.color[m] = t.color[m]
  BY <1>7 DEF Swapped
<1>11. ~IsRed(t, t.child[s][w])
  <2> SUFFICES ASSUME IsRed(t, t.child[s][w]) PROVE FALSE
    OBVIOUS
  <2>1. t.child[s][w] \in K /\ t.parent[t.child[s][w]] = w
    BY <1>1, <1>4, <1>10 DEF IsRed
  <2> QED BY <1>1, <2>1
<1>12. ~IsRed(v, v.child[s][p]) /\ ~IsRed(v, v.child[o][p])
  BY <1>1, <1>10, <1>11 DEF IsRed
<1>13. Short(v, K, p, s)
  BY <1>1, <1>7, <1>8, <1>9, <1>12 DEF Short
<1>14. IsRed(v, p)
  BY <1>1, <1>7 DEF Swapped, IsRed
<1> QED BY <1>10, <1>12, <1>13, <1>14 DEF v

\* A red child of the sibling on the near side is turned up: the next sibling
\* has one on the far side.
LEMMA FarTurn ==
  ASSUME NEW t, NEW K, NEW p, NEW s, NEW w, NEW near, Short(t, K, p, s),
         w \in {t.child[Opposite(s)][p]}, ~IsRed(t, w), near \in {t.child[s][w]}, IsRed(t, near),
         ~IsRed(t, t.child[Opposite(s)][w])
  PROVE  LET v == Rotate(Painted(Painted(t, near, "black"), w, "red"), w, Opposite(s))
         IN  /\ Short(v, K, p, s)
             /\ v.child[s][p] = t.child[s][p]
             /\ v.child[Opposite(s)][p] = near /\ ~IsRed(v, near)
             /\ IsRed(v, v.child[Opposite(s)][near])
             /\ v.color[p] = t.color[p]
<1> DEFINE o == Opposite(s)
           v == Rotate(Painted(Painted(t, near, "black"), w, "red"), w, o)
<1>1. /\ p \in K /\ s \in Sides /\ o \in Sides /\ o # s /\ Opposite(o) = s
      /\ Pointers(t, K) /\ ~IsRed(t, t.child[s][p])
      /\ Nil \notin K
      /\ \A m \in K, r \in Sides : t.child[r][m] \in K \cup {Nil}
      /\ \A m \in K, r \in Sides : t.child[r][m] # Nil => t.parent[t.child[r][m]] = m
      /\ RedsApart(t, K, Nil, Nil)
  <2>1. RedsApart(t, K, Nil, Nil)
    BY DEF Short
  <2> QED BY <2>1, ShortIs
<1>2. PICK bh : Balanced(t, K, bh, p, s)
  BY DEF Short
<1>3. PICK sub : Ordered(t, K, sub)
  BY DEF Short
<1>4. t.child[o][p] = w /\ w \in K /\ t.child[s][w] = near /\ near \in K /\ t.child[s][p] # w
  <2>1. t.child[o][p] = w /\ t.child[s][w] = near /\ near # Nil
    BY DEF IsRed
  <2>2. t.child[o][p] \in K /\ t.child[o][p] # t.child[s][p]
    BY ShortSibling
  <2> QED BY <1>1, <2>1, <2>2
<1>5. t.parent[w] = p /\ t.parent[near] = w /\ t.color[w] # "red" /\ w # Nil /\ near # Nil
  <2>1. w # Nil /\ near # Nil
    BY <1>1, <1>4
  <2>2. t.parent[t.child[o][p]] = p /\ t.parent[t.child[s][w]] = w
    BY <1>1, <1>4, <2>1
  <2> QED BY <1>4, <2>1, <2>2 DEF IsRed
<1>6. Tilted(t, K, w, near, o)
  BY <1>1, <1>4, <1>5 DEF Tilted
<1>7. /\ Pointers(v, K) /\ \E sub2 : Ordered(v, K, sub2)
      /\ Swapped(t, v, K, w, near, o)
  BY <1>1, <1>3, <1>6, SwapTurn
<1>8. p # w /\ p # near
  <2>1. t.parent[w] \in (K \cup {Nil}) \ {w, near}
    <3>1. w \in sub[w] /\ sub[w] \subseteq sub[p] /\ p \notin sub[w]
      BY <1>1, <1>3, <1>4, <1>5, ChildIsUnder
    <3>2. near \in sub[near] /\ sub[near] \subseteq sub[w]
      BY <1>1, <1>3, <1>4, <1>5, ChildIsUnder
    <3> QED BY <1>1, <1>5, <3>1, <3>2
  <2> QED BY <1>5, <2>1
<1>9. \E bh2 : Balanced(v, K, bh2, p, s)
  BY <1>1, <1>2, <1>3, <1>6, <1>8, SwapBalances
<1>10. RedsApart(v, K, Nil, Nil)
  <2>1. ~IsRed(t, t.child[o][w])
    OBVIOUS
  <2> QED BY <1>1, <1>3, <1>6, <2>1, SwapKeepsApart
<1> HIDE DEF v
<1>11. /\ v.child[o][near] = w
       /\ \A m \in K : v.color[m] = IF m = w THEN "red" ELSE IF m = near THEN "black" ELSE t.color[m]
       /\ \A m \in K \ {w, near}, r \in Sides :
            \/ t.child[r][m] = w /\ v.child[r][m] = near
            \/ t.child[r][m] # w /\ v.child[r][m] = t.child[r][m]
       /\ w # near
  BY <1>7 DEF Swapped
<1>12. v.child[o][p] = near /\ v.child[s][p] = t.child[s][p]
  BY <1>1, <1>4, <1>8, <1>11
<1>13. ~IsRed(v, near) /\ IsRed(v, w) /\ v.color[p] = t.color[p]
  BY <1>1, <1>4, <1>5, <1>8, <1>11 DEF IsRed
<1>14. ~IsRed(v, t.child[s][p])
  <2>1. t.child[s][p] \in (K \cup {Nil}) \ {w}
    BY <1>1, <1>4
  <2> QED BY <1>1, <1>11, <1>13, <2>1 DEF IsRed
<1>15. Short(v, K, p, s)
  BY <1>1, <1>7, <1>9, <1>10, <1>12, <1>14 DEF Short
<1> QED BY <1>11, <1>12, <1>13, <1>15 DEF v

\* The sibling takes the place of its parent: no black is missing any more.
LEMMA LastTurn ==
  ASSUME NEW t, NEW K, NEW p, NEW s, NEW top, NEW far, Short(t, K, p, s),
         top \in {t.child[Opposite(s)][p]}, ~IsRed(t, top),
         far \in {t.child[Opposite(s)][top]}, IsRed(t, far)
  PROVE  Resting(Rotate(Painted(Painted(Painted(t, top, t.color[p]), p, "black"), far, "black"), p, s), K)
<1> DEFINE o == Opposite(s)
           v1 == Painted(Painted(t, top, t.color[p]), p, "black")
           v == Painted(v1, far, "black")
           u == Rotate(v, p, s)
<1>1. /\ p \in K /\ s \in Sides /\ o \in Sides /\ o # s /\ Opposite(o) = s
      /\ (\A r \in Sides : r = s \/ r = o)
      /\ Pointers(t, K) /\ ~IsRed(t, t.child[s][p])
      /\ Nil \notin K /\ t.root \in K \cup {Nil}
      /\ \A m \in K, r \in Sides : t.child[r][m] \in K \cup {Nil}
      /\ \A m \in K, r \in Sides : t.child[r][m] # Nil => t.parent[t.child[r][m]] = m
      /\ \A m \in K : t.parent[m] \in K \cup {Nil} /\ (t.parent[m] = Nil <=> t.root = m)
      /\ \A m \in K : t.color[m] = "red" \/ t.color[m] = "black"
  BY ShortIs
<1>2. PICK bh : Balanced(t, K, bh, p, s)
  BY DEF Short
<1>3. PICK sub : Ordered(t, K, sub)
  BY DEF Short
<1>4. ~IsRed(t, t.root) /\ \A m \in K : ~(IsRed(t, m) /\ IsRed(t, t.parent[m]))
  BY ShortIs
<1>5. /\ t.child[o][p] = top /\ top \in K /\ t.child[o][top] = far /\ far \in K
      /\ top # Nil /\ far # Nil /\ t.color[far] = "red"
  <2>1. t.child[o][p] = top /\ t.child[o][top] = far /\ far # Nil /\ t.color[far] = "red"
    BY DEF IsRed
  <2>2. t.child[o][p] \in K
    BY ShortSibling
  <2> QED BY <1>1, <2>1, <2>2
<1>6. t.parent[top] = p /\ t.parent[far] = top
  BY <1>1, <1>5
<1>7. top # p /\ far # p /\ far # top
  <2>1. top \in sub[top] /\ sub[top] \subseteq sub[p] /\ p \notin sub[top]
    BY <1>1, <1>3, <1>5, ChildIsUnder
  <2>2. far \in sub[far] /\ sub[far] \subseteq sub[top] /\ top \notin sub[far]
    BY <1>1, <1>3, <1>5, ChildIsUnder
  <2> QED BY <2>1, <2>2
<1>8. t.color[p] \in Colors /\ "black" \in Colors
  BY <1>1 DEF Colors
<1>9. /\ Pointers(v1, K) /\ SameShape(t, v1)
      /\ \A m \in K : v1.color[m] = IF m = p THEN "black" ELSE IF m = top THEN t.color[p] ELSE t.color[m]
  <2>1. p \in K /\ top \in K /\ Pointers(t, K)
    BY <1>1, <1>5
  <2>2. PICK color \in Colors : color = t.color[p]
    BY <1>8
  <2>3. LET x == Painted(Painted(t, top, color), p, "black")
        IN  /\ Pointers(x, K) /\ SameShape(t, x)
            /\ \A m \in K : x.color[m] = IF m = p THEN "black" ELSE IF m = top THEN color ELSE t.color[m]
    BY <1>8, <2>1, PaintTwo
  <2> QED BY <2>2, <2>3
<1> HIDE DEF v1
<1>10. Repainted(v1, v, K, far, "black") /\ Pointers(v, K)
  BY <1>5, <1>8, <1>9, PaintKeeps
<1> HIDE DEF v
<1>11. /\ SameShape(t, v)
       /\ \A m \in K : v.color[m] = IF m = far \/ m = p THEN "black" ELSE IF m = top THEN t.color[p] ELSE t.color[m]
  <2>1. /\ SameShape(v1, v)
        /\ \A m \in K : v.color[m] = IF m = far THEN "black" ELSE v1.color[m]
    BY <1>10 DEF Repainted
  <2> QED BY <1>9, <2>1, SameShapeTwice
<1>12. /\ \A m \in K, r \in Sides : v.child[r][m] = t.child[r][m]
       /\ \A m \in K : v.parent[m] = t.parent[m]
       /\ v.root = t.root
  BY <1>1, <1>11, ShapeIs
<1>13. Ordered(v, K, sub)
  BY <1>1, <1>3, <1>11, SameShapeKeeps
<1>14. /\ TurnIn(v, u, K, sub, p, top, s)
       /\ Pointers(u, K)
       /\ Ordered(u, K, TurnedSub(v, sub, p, top, s))
  <2>1. v.child[o][p] = top
    BY <1>1, <1>5, <1>12
  <2>2. /\ TurnIn(v, u, K, sub, p, v.child[o][p], s)
        /\ Pointers(u, K)
        /\ Ordered(u, K, TurnedSub(v, sub, p, v.child[o][p], s))
    BY <1>1, <1>5, <1>10, <1>13, <2>1, RotateKeeps
  <2> QED BY <2>1, <2>2
<1> HIDE DEF u
<1>15. TurnNear(v, u, K, p, top, s)
  BY <1>14, TurnIsNear
<1> DEFINE c == t.child[s][top]
           n == t.child[s][p]
<1>16. /\ u.child[o][p] = c /\ u.child[s][top] = p
       /\ u.child[s][p] = n /\ u.child[o][top] = far
       /\ {c, n, far} \subseteq (K \cup {Nil}) \ {p, top}
       /\ u.parent[top] = t.parent[p] /\ u.parent[p] = top
       /\ \A m \in K \ {p, top} : u.parent[m] = IF m = c THEN p ELSE t.parent[m]
       /\ \A m \in K : u.color[m] = IF m = far \/ m = p THEN "black" ELSE IF m = top THEN t.color[p] ELSE t.color[m]
       /\ u.root = IF t.parent[p] = Nil THEN top ELSE t.root
  BY <1>1, <1>5, <1>11, <1>12, <1>15 DEF TurnNear
<1>17. c # far /\ n # far
  <2>1. c # far
    BY <1>1, <1>3, <1>5, OneSide
  <2>2. n # far
    BY <1>1, <1>5, <1>6, <1>7
  <2> QED BY <2>1, <2>2
<1>18. \E bh2 : Balanced(u, K, bh2, Nil, "left")
  <2> DEFINE bh2 == [bh EXCEPT ![top] = bh[p], ![p] = bh[top], ![far] = bh[top]]
  <2>1. bh \in [K -> Nat]
    BY <1>2 DEF Balanced
  <2>2. /\ bh2 \in [K -> Nat] /\ bh2[top] = bh[p] /\ bh2[p] = bh[top] /\ bh2[far] = bh[top]
        /\ \A m \in K \ {p, top, far} : bh2[m] = bh[m]
    BY <1>1, <1>5, <1>7, <2>1
  <2> HIDE DEF bh2
  <2>3. \A m \in K, r \in Sides :
          bh[m] = Weight(t, m) + Height(bh, t.child[r][m]) + IF m = p /\ r = s THEN 1 ELSE 0
    BY <1>2 DEF Balanced, Even
  <2>4. Weight(t, far) = 0 /\ Weight(t, top) = 1 /\ Weight(u, far) = 1 /\ Weight(u, p) = 1
        /\ Weight(u, top) = Weight(t, p) /\ Weight(t, p) \in Nat
        /\ \A m \in K \ {p, top, far} : Weight(u, m) = Weight(t, m)
    <3>1. t.color[top] = "black"
      BY <1>1, <1>5 DEF IsRed
    <3> QED BY <1>1, <1>5, <1>7, <1>16, <3>1 DEF Weight
  <2>5. /\ bh[p] = Weight(t, p) + bh[top] /\ bh[top] = Height(bh, n) + 1
        /\ bh[top] = Height(bh, c) + 1 /\ bh[top] = bh[far] + 1
        /\ \A r \in Sides : bh[far] = Height(bh, t.child[r][far])
        /\ bh[top] \in Nat /\ bh[far] \in Nat
    <3>1. Height(bh, top) = bh[top] /\ Height(bh, far) = bh[far] /\ bh[top] \in Nat /\ bh[far] \in Nat /\ bh[p] \in Nat
      BY <1>1, <1>5, <2>1 DEF Height
    <3>2. Height(bh, c) \in Nat /\ Height(bh, n) \in Nat /\ \A r \in Sides : Height(bh, t.child[r][far]) \in Nat
      BY <1>1, <1>5, <1>16, <2>1 DEF Height
    <3>3. /\ bh[p] = Weight(t, p) + Height(bh, t.child[o][p]) + 0
          /\ bh[p] = Weight(t, p) + Height(bh, n) + 1
          /\ bh[top] = Weight(t, top) + Height(bh, c) + 0
          /\ bh[top] = Weight(t, top) + Height(bh, t.child[o][top]) + 0
          /\ \A r \in Sides : bh[far] = Weight(t, far) + Height(bh, t.child[r][far]) + 0
      BY <1>1, <1>5, <1>7, <2>3
    <3>4. bh[p] = Weight(t, p) + bh[top] /\ bh[top] = 1 + Height(bh, c) /\ bh[top] = 1 + bh[far]
      BY <1>5, <2>4, <3>1, <3>2, <3>3
    <3>5. bh[top] = Height(bh, n) + 1
      BY <2>4, <3>1, <3>2, <3>3, <3>4
    <3>6. \A r \in Sides : bh[far] = Height(bh, t.child[r][far])
      BY <2>4, <3>2, <3>3
    <3> QED BY <3>1, <3>2, <3>4, <3>5, <3>6
  <2>6. \A d \in (K \cup {Nil}) \ {p, top, far} : Height(bh2, d) = Height(bh, d)
    BY <2>2 DEF Height
  <2>7. Height(bh2, far) = bh[top] /\ Height(bh2, p) = bh[top] /\ Height(bh2, top) = bh[p] /\ Height(bh, p) = bh[p]
    BY <1>1, <1>5, <2>2 DEF Height
  <2>8. \A m \in K \ {p, top}, r \in Sides :
          \/ t.child[r][m] = p /\ u.child[r][m] = top
          \/ t.child[r][m] \in (K \cup {Nil}) \ {p, top} /\ u.child[r][m] = t.child[r][m]
    BY <1>12, <1>14, TurnElsewhere
  <2>9. \A m \in K \ {p, top}, r \in Sides : Height(bh2, u.child[r][m]) = Height(bh, t.child[r][m])
    <3> TAKE m \in K \ {p, top}, r \in Sides
    <3>1. t.child[r][m] # far
      BY <1>1, <1>5, <1>6
    <3> QED BY <2>6, <2>7, <2>8, <3>1
  <2>10. ASSUME NEW m \in K, NEW r \in Sides PROVE bh2[m] = Weight(u, m) + Height(bh2, u.child[r][m])
    <3>1. CASE m \notin {p, top, far}
      <4>1. bh[m] = Weight(t, m) + Height(bh, t.child[r][m]) + 0
        BY <2>3, <3>1
      <4>2. Height(bh, t.child[r][m]) \in Nat /\ Weight(t, m) \in Nat
        BY <1>1, <2>1 DEF Height, Weight
      <4> QED BY <2>2, <2>4, <2>9, <3>1, <4>1, <4>2
    <3>2. CASE m = far
      <4>1. Height(bh2, u.child[r][far]) = bh[far]
        BY <1>5, <1>7, <2>5, <2>9
      <4> QED BY <2>2, <2>4, <2>5, <3>2, <4>1
    <3>3. CASE m = p
      <4>1. u.child[r][p] \in {c, n}
        BY <1>1, <1>16
      <4>2. Height(bh2, c) = Height(bh, c) /\ Height(bh2, n) = Height(bh, n)
        BY <1>16, <1>17, <2>6
      <4>3. Height(bh, c) \in Nat /\ Height(bh, n) \in Nat
        BY <1>16, <2>1 DEF Height
      <4> QED BY <2>2, <2>4, <2>5, <3>3, <4>1, <4>2, <4>3
    <3>4. CASE m = top
      <4>1. u.child[r][top] \in {far, p}
        BY <1>1, <1>16
      <4> QED BY <2>2, <2>4, <2>5, <2>7, <3>4, <4>1
    <3> QED BY <3>1, <3>2, <3>3, <3>4
  <2>11. \A m \in K, r \in Sides : u.child[r][m] \in K \cup {Nil}
    BY <1>14, ChildrenAre
  <2> QED BY <1>1, <2>2, <2>10, <2>11, Balances
<1>19. RedsApart(u, K, Nil, Nil)
  <2>1. ~IsRed(u, u.root)
    <3> SUFFICES ASSUME IsRed(u, u.root) PROVE FALSE
      OBVIOUS
    <3>1. CASE t.parent[p] = Nil
      <4>1. t.root = p /\ u.root = top
        BY <1>1, <1>16, <3>1
      <4>2. t.color[p] = "red"
        BY <1>5, <1>7, <1>16, <4>1 DEF IsRed
      <4> QED BY <1>1, <1>4, <4>1, <4>2 DEF IsRed
    <3>2. CASE t.parent[p] # Nil
      <4>1. t.root \notin {p, top, far} /\ u.root = t.root
        BY <1>1, <1>5, <1>6, <1>16, <3>2
      <4> QED BY <1>1, <1>4, <1>16, <4>1 DEF IsRed
    <3> QED BY <3>1, <3>2
  <2>2. ASSUME NEW m \in K, IsRed(u, m), IsRed(u, u.parent[m]) PROVE FALSE
    <3>1. m # far /\ m # p /\ u.parent[m] # p /\ u.parent[m] # far
      BY <1>1, <1>5, <1>16, <2>2 DEF IsRed
    <3>2. CASE m = top
      <4>1. PICK q \in K \cup {Nil} : q = t.parent[p]
        BY <1>1
      <4>2. u.parent[top] = q /\ q # top
        BY <1>1, <1>6, <1>14, <1>15, <1>16, <4>1 DEF TurnNear
      <4>3. IsRed(t, p)
        BY <1>1, <1>5, <1>7, <1>16, <2>2, <3>2 DEF IsRed
      <4>4. IsRed(t, q)
        BY <1>16, <2>2, <3>1, <3>2, <4>1, <4>2 DEF IsRed
      <4> QED BY <1>1, <1>4, <4>1, <4>3, <4>4
    <3>3. CASE m # top
      <4>1. m # c
        BY <1>16, <3>1, <3>3
      <4>2. PICK q \in K \cup {Nil} : q = t.parent[m]
        BY <1>1
      <4>3. u.parent[m] = q
        BY <1>16, <3>1, <3>3, <4>1, <4>2
      <4>4. q # top
        <5> SUFFICES ASSUME q = top PROVE FALSE
          OBVIOUS
        <5>1. \E r \in Sides : t.child[r][top] = m
          <6>1. t.parent[m] # Nil
            BY <1>5, <4>2
          <6>2. \E r \in Sides : t.child[r][t.parent[m]] = m
            BY <1>1, <6>1 DEF Pointers
          <6> QED BY <4>2, <6>2
        <5> QED BY <1>1, <1>5, <3>1, <4>1, <5>1
      <4>5. IsRed(t, m) /\ IsRed(t, q)
        BY <1>16, <2>2, <3>1, <3>3, <4>3, <4>4 DEF IsRed
      <4> QED BY <1>4, <4>2, <4>5
    <3> QED BY <3>2, <3>3
  <2> QED BY <2>1, <2>2 DEF RedsApart
<1>20. Resting(u, K)
  BY <1>14, <1>18, <1>19 DEF Resting
<1> QED BY <1>20 DEF u, v, v1

\* The tree while an erase is at its node n, below p.
Erasing(t, K, n, p) ==
  /\ Pointers(t, K)
  /\ \E sub : Ordered(t, K, sub)
  /\ n \in K \cup {Nil} /\ p \in K \cup {Nil}
  /\ IF n = t.root THEN \E bh : Balanced(t, K, bh, Nil, "left")
     ELSE /\ p \in K /\ t.child[SideOf(t, n, p)][p] = n
          /\ \E bh : Balanced(t, K, bh, p, SideOf(t, n, p))
  /\ RedsApart(t, K, n, n)

\* The loop of an erase runs only while a black is missing at its node.
LEMMA ErasingIsShort ==
  ASSUME NEW t, NEW K, NEW n, NEW p, Erasing(t, K, n, p), ~IsRed(t, n), n # t.root
  PROVE  Short(t, K, p, SideOf(t, n, p)) /\ t.child[SideOf(t, n, p)][p] = n
<1>1. SideOf(t, n, p) \in Sides
  BY DEF SideOf, Sides
<1>2. /\ Pointers(t, K) /\ \E sub : Ordered(t, K, sub)
      /\ p \in K /\ t.child[SideOf(t, n, p)][p] = n
      /\ \E bh : Balanced(t, K, bh, p, SideOf(t, n, p))
      /\ RedsApart(t, K, n, n)
  BY DEF Erasing
<1>3. RedsApart(t, K, Nil, Nil)
  <2>1. ~IsRed(t, t.root)
    BY <1>2 DEF RedsApart
  <2>2. \A m \in K : ~(IsRed(t, m) /\ IsRed(t, t.parent[m]))
    BY <1>2 DEF RedsApart
  <2> QED BY <2>1, <2>2 DEF RedsApart
<1>4. ~IsRed(t, t.child[SideOf(t, n, p)][p])
  BY <1>2
<1> QED BY <1>1, <1>2, <1>3, <1>4 DEF Short

\* When the children of a black sibling are black it turns red: the black is
\* missing above.
LEMMA RecolorErases ==
  ASSUME NEW t, NEW K, NEW p, NEW s, NEW w, Short(t, K, p, s),
         w \in {t.child[Opposite(s)][p]}, ~IsRed(t, w), \A r \in Sides : ~IsRed(t, t.child[r][w])
  PROVE  LET u == Painted(t, w, "red")
         IN  Erasing(u, K, p, t.parent[p]) /\ SameShape(t, u) /\ (IsRed(t, p) => IsRed(u, p))
<1> DEFINE o == Opposite(s)
           u == Painted(t, w, "red")
<1>1. /\ p \in K /\ s \in Sides /\ o \in Sides /\ o # s
      /\ (\A r \in Sides : r = s \/ r = o)
      /\ Pointers(t, K) /\ ~IsRed(t, t.child[s][p])
      /\ Nil \notin K /\ t.root \in K \cup {Nil}
      /\ \A m \in K, r \in Sides : t.child[r][m] \in K \cup {Nil}
      /\ \A m \in K, r \in Sides : t.child[r][m] # Nil => t.parent[t.child[r][m]] = m
      /\ \A m \in K : t.parent[m] \in K \cup {Nil} /\ (t.parent[m] = Nil <=> t.root = m)
      /\ \A m \in K : t.color[m] = "red" \/ t.color[m] = "black"
  BY ShortIs
<1>2. PICK bh : Balanced(t, K, bh, p, s)
  BY DEF Short
<1>3. PICK sub : Ordered(t, K, sub)
  BY DEF Short
<1>4. ~IsRed(t, t.root) /\ \A m \in K : ~(IsRed(t, m) /\ IsRed(t, t.parent[m]))
  BY ShortIs
<1>5. t.child[o][p] = w /\ w \in K /\ w # Nil /\ t.parent[w] = p /\ t.color[w] = "black" /\ t.child[s][p] # w
  <2>1. t.child[o][p] = w
    OBVIOUS
  <2>2. t.child[o][p] \in K /\ t.child[o][p] # t.child[s][p]
    BY ShortSibling
  <2> QED BY <1>1, <2>1, <2>2 DEF IsRed
<1>6. w # p
  <2>1. w \in sub[w] /\ sub[w] \subseteq sub[p] /\ p \notin sub[w]
    BY <1>1, <1>3, <1>5, ChildIsUnder
  <2> QED BY <2>1
<1>7. Repainted(t, u, K, w, "red") /\ Pointers(u, K)
  BY <1>1, <1>5, PaintKeeps DEF Colors
<1> HIDE DEF u
<1>8. SameShape(t, u) /\ \A m \in K : u.color[m] = IF m = w THEN "red" ELSE t.color[m]
  BY <1>7 DEF Repainted
<1>9. /\ \A m \in K, r \in Sides : u.child[r][m] = t.child[r][m]
      /\ \A m \in K : u.parent[m] = t.parent[m]
      /\ u.root = t.root
  BY <1>1, <1>8, ShapeIs
<1>10. Ordered(u, K, sub)
  BY <1>1, <1>3, <1>8, SameShapeKeeps
<1>11. RedsApart(u, K, p, p)
  <2>1. ~IsRed(u, u.root)
    <3> SUFFICES ASSUME IsRed(u, u.root) PROVE FALSE
      OBVIOUS
    <3>1. t.root # w
      BY <1>1, <1>5
    <3> QED BY <1>1, <1>4, <1>8, <1>9, <3>1 DEF IsRed
  <2>2. ASSUME NEW m \in K, IsRed(u, m), IsRed(u, u.parent[m]) PROVE u.parent[m] = p
    <3>1. PICK q \in K \cup {Nil} : q = t.parent[m]
      BY <1>1
    <3>2. CASE m = w
      BY <1>5, <1>9, <3>2
    <3>3. CASE m # w
      <4>1. IsRed(t, m)
        BY <1>8, <2>2, <3>3 DEF IsRed
      <4>2. q # w
        <5> SUFFICES ASSUME q = w PROVE FALSE
          OBVIOUS
        <5>1. \E r \in Sides : t.child[r][t.parent[m]] = m
          <6>1. t.parent[m] # Nil
            BY <1>5, <3>1
          <6> QED BY <1>1, <6>1 DEF Pointers
        <5> QED BY <3>1, <4>1, <5>1
      <4>3. IsRed(t, q)
        BY <1>8, <1>9, <2>2, <3>1, <4>2 DEF IsRed
      <4> QED BY <1>4, <3>1, <4>1, <4>3
    <3> QED BY <3>2, <3>3
  <2> QED BY <2>1, <2>2 DEF RedsApart
<1> DEFINE g == t.parent[p]
           sp == IF p = u.root THEN Nil ELSE g
           ss == IF p = u.root THEN "left" ELSE SideOf(u, p, g)
           n == t.child[s][p]
<1>12. p # u.root => g \in K /\ u.child[SideOf(u, p, g)][g] = p /\ SideOf(u, p, g) \in Sides
  <2> SUFFICES ASSUME p # u.root PROVE g \in K /\ u.child[SideOf(u, p, g)][g] = p /\ SideOf(u, p, g) \in Sides
    OBVIOUS
  <2>1. u.parent[p] # Nil /\ u.parent[p] = g
    BY <1>1, <1>9
  <2>2. /\ u.parent[p] \in K
        /\ SideOf(u, p, u.parent[p]) \in Sides
        /\ u.child[SideOf(u, p, u.parent[p])][u.parent[p]] = p
    BY <1>1, <1>7, <1>10, <2>1, ParentOf
  <2> QED BY <2>1, <2>2
<1>13. \A m \in K, r \in Sides : t.child[r][m] = p <=> m = sp /\ r = ss
  <2> TAKE m \in K, r \in Sides
  <2>1. ASSUME t.child[r][m] = p PROVE m = sp /\ r = ss
    <3>1. t.parent[p] = m /\ m # Nil
      BY <1>1, <2>1
    <3>2. p # u.root
      BY <1>1, <1>9, <3>1
    <3>3. u.child[r][m] = p /\ p # Nil
      BY <1>1, <1>9, <2>1
    <3>4. SideOf(u, u.child[r][m], m) = r
      BY <1>7, <1>10, <3>3, OneSide
    <3> QED BY <3>1, <3>2, <3>3, <3>4
  <2>2. ASSUME m = sp, r = ss PROVE t.child[r][m] = p
    <3>1. p # u.root
      BY <1>1, <2>2
    <3> QED BY <1>9, <1>12, <2>2, <3>1
  <2> QED BY <2>1, <2>2
<1>14. \E bh2 : Balanced(u, K, bh2, sp, ss)
  <2> DEFINE bh2 == [bh EXCEPT ![w] = bh[w] - 1, ![p] = bh[p] - 1]
             Gap(m, r) == IF m = sp /\ r = ss THEN 1 ELSE 0
  <2>1. bh \in [K -> Nat]
    BY <1>2 DEF Balanced
  <2>2. \A m \in K, r \in Sides :
          bh[m] = Weight(t, m) + Height(bh, t.child[r][m]) + IF m = p /\ r = s THEN 1 ELSE 0
    BY <1>2 DEF Balanced, Even
  <2>3. /\ Weight(t, w) = 1 /\ Weight(u, w) = 0
        /\ \A m \in K \ {w} : Weight(u, m) = Weight(t, m)
        /\ \A m \in K : Weight(t, m) \in Nat
    BY <1>5, <1>8 DEF Weight
  <2>4. \A m \in K, r \in Sides : Height(bh, t.child[r][m]) \in Nat
    BY <1>1, <2>1 DEF Height
  <2>5. \A r \in Sides : bh[w] = 1 + Height(bh, t.child[r][w])
    BY <1>5, <1>6, <2>2, <2>3, <2>4
  <2>6. /\ bh[p] = Weight(t, p) + Height(bh, n) + 1
        /\ bh[p] = Weight(t, p) + bh[w]
    <3>1. Height(bh, t.child[o][p]) = bh[w] /\ bh[w] \in Nat
      BY <1>5, <2>1 DEF Height
    <3>2. /\ bh[p] = Weight(t, p) + Height(bh, t.child[s][p]) + 1
          /\ bh[p] = Weight(t, p) + Height(bh, t.child[o][p]) + 0
      BY <1>1, <2>2
    <3> QED BY <1>1, <2>3, <3>1, <3>2
  <2>7. bh[w] \in Nat \ {0} /\ bh[p] \in Nat \ {0}
    BY <1>1, <1>5, <2>1, <2>3, <2>4, <2>5, <2>6
  <2>8. /\ bh2 \in [K -> Nat] /\ bh2[w] = bh[w] - 1 /\ bh2[p] = bh[p] - 1
        /\ \A m \in K \ {w, p} : bh2[m] = bh[m]
    BY <1>1, <1>5, <1>6, <2>1, <2>7
  <2> HIDE DEF bh2
  <2>9. \A d \in (K \cup {Nil}) \ {w, p} : Height(bh2, d) = Height(bh, d)
    BY <2>8 DEF Height
  <2>10. Height(bh2, w) = bh[w] - 1 /\ Height(bh2, p) = bh[p] - 1 /\ Height(bh, p) = bh[p]
    BY <1>1, <1>5, <2>8 DEF Height
  <2>11. \A m \in K, r \in Sides : t.child[r][m] = w => m = p /\ r = o
    BY <1>1, <1>5
  <2>12. \A m \in K, r \in Sides : t.child[r][m] = p <=> Gap(m, r) = 1
    BY <1>13
  <2>13. \A m \in K, r \in Sides : Gap(m, r) = 0 \/ Gap(m, r) = 1
    OBVIOUS
  <2> HIDE DEF Gap
  <2>14. ASSUME NEW m \in K, NEW r \in Sides
         PROVE  bh2[m] = Weight(u, m) + Height(bh2, u.child[r][m]) + Gap(m, r)
    <3>1. CASE m = p /\ r = s
      <4>1. Gap(m, r) = 0
        <5>1. t.child[s][p] # p
          BY <1>1, <1>3, NilIsNoKey, ChildIsUnder
        <5> QED BY <2>12, <2>13, <3>1, <5>1
      <4>2. Height(bh2, n) = Height(bh, n)
        <5>1. n # p
          BY <2>12, <3>1, <4>1
        <5> QED BY <1>1, <1>5, <2>9, <5>1
      <4> QED BY <1>1, <1>6, <1>9, <2>3, <2>4, <2>6, <2>8, <3>1, <4>1, <4>2
    <3>2. CASE m = p /\ r = o
      <4>1. Gap(m, r) = 0
        BY <1>5, <1>6, <2>12, <2>13, <3>2
      <4>2. u.child[r][m] = w
        BY <1>1, <1>5, <1>9, <3>2
      <4> QED BY <1>1, <1>6, <2>3, <2>6, <2>7, <2>8, <2>10, <3>2, <4>1, <4>2
    <3>3. CASE m = w
      <4>1. t.child[r][w] # p /\ t.child[r][w] # w
        <5>1. t.child[r][w] # Nil => t.child[r][w] # w
          BY <1>1, <1>3, <1>5, ChildIsUnder
        <5>2. t.child[r][w] # p
          <6> SUFFICES ASSUME t.child[r][w] = p PROVE FALSE
            OBVIOUS
          <6>1. /\ p \in sub[p] /\ w \notin sub[p]
            BY <1>1, <1>3, <1>5, ChildIsUnder
          <6>2. w \in sub[w] /\ sub[w] \subseteq sub[p]
            BY <1>1, <1>3, <1>5, ChildIsUnder
          <6> QED BY <6>1, <6>2
        <5> QED BY <1>5, <5>1, <5>2
      <4>2. Gap(m, r) = 0
        BY <2>12, <2>13, <3>3, <4>1
      <4>3. Height(bh2, t.child[r][w]) = Height(bh, t.child[r][w])
        BY <1>1, <1>5, <2>9, <4>1
      <4>4. u.child[r][m] = t.child[r][w]
        BY <1>9, <3>3
      <4> QED BY <1>5, <2>3, <2>4, <2>5, <2>8, <3>3, <4>2, <4>3, <4>4
    <3>4. CASE m \notin {p, w}
      <4>1. bh[m] = Weight(t, m) + Height(bh, t.child[r][m]) + 0
        BY <2>2, <3>4
      <4>2. Height(bh2, t.child[r][m]) + Gap(m, r) = Height(bh, t.child[r][m])
        <5>1. CASE t.child[r][m] = p
          BY <2>7, <2>10, <2>12, <5>1
        <5>2. CASE t.child[r][m] # p
          <6>1. Gap(m, r) = 0
            BY <2>12, <2>13, <5>2
          <6>2. t.child[r][m] # w
            BY <2>11, <3>4
          <6> QED BY <1>1, <2>4, <2>9, <5>2, <6>1, <6>2
        <5> QED BY <5>1, <5>2
      <4>3. Height(bh2, t.child[r][m]) \in Nat /\ Gap(m, r) \in Nat
        BY <1>1, <2>8, <2>13 DEF Height
      <4>4. u.child[r][m] = t.child[r][m] /\ bh2[m] = bh[m] /\ Weight(u, m) = Weight(t, m)
        BY <1>9, <2>3, <2>8, <3>4
      <4> QED BY <2>3, <2>4, <4>1, <4>2, <4>3, <4>4
    <3> QED BY <1>1, <3>1, <3>2, <3>3, <3>4
  <2>15. Balanced(u, K, bh2, sp, ss)
    BY <2>8, <2>14 DEF Balanced, Even, Gap
  <2> QED BY <2>15
<1>15. Erasing(u, K, p, g)
  <2>1. Pointers(u, K) /\ (\E x : Ordered(u, K, x)) /\ p \in K \cup {Nil} /\ g \in K \cup {Nil}
    BY <1>1, <1>7, <1>10
  <2>2. CASE p = u.root
    <3>1. \E bh2 : Balanced(u, K, bh2, Nil, "left")
      BY <1>14, <2>2
    <3> QED BY <1>11, <2>1, <2>2, <3>1 DEF Erasing
  <2>3. CASE p # u.root
    <3>1. \E bh2 : Balanced(u, K, bh2, g, SideOf(u, p, g))
      BY <1>14, <2>3
    <3> QED BY <1>11, <1>12, <2>1, <2>3, <3>1 DEF Erasing
  <2> QED BY <2>2, <2>3
<1>16. IsRed(t, p) => IsRed(u, p)
  BY <1>1, <1>6, <1>8 DEF IsRed
<1> QED BY <1>8, <1>15, <1>16 DEF u

\* A red node, or the root, ends the loop, black.
LEMMA EraseEndsWell ==
  ASSUME NEW t, NEW K, NEW n, NEW p, Erasing(t, K, n, p), IsRed(t, n) \/ n = t.root
  PROVE  Resting(IF n = Nil THEN t ELSE Painted(t, n, "black"), K)
<1>1. /\ Pointers(t, K) /\ n \in K \cup {Nil} /\ RedsApart(t, K, n, n)
      /\ (n = t.root => \E bh : Balanced(t, K, bh, Nil, "left"))
      /\ (n # t.root => /\ p \in K /\ t.child[SideOf(t, n, p)][p] = n
                        /\ \E bh : Balanced(t, K, bh, p, SideOf(t, n, p)))
  BY DEF Erasing
<1>2. PICK sub : Ordered(t, K, sub)
  BY DEF Erasing
<1>3. /\ Nil \notin K /\ K \subseteq Keys /\ t.root \in K \cup {Nil}
      /\ \A m \in K : t.parent[m] \in K \cup {Nil}
      /\ \A m \in K : t.color[m] = "red" \/ t.color[m] = "black"
  BY <1>1, ChildrenAre
<1>4. CASE n = Nil
  <2>1. n = t.root
    BY <1>4 DEF IsRed
  <2> QED BY <1>1, <1>2, <1>4, <2>1 DEF Resting
<1>5. CASE n # Nil
  <2> DEFINE u == Painted(t, n, "black")
  <2>0. n \in K
    BY <1>1, <1>5
  <2>1. Repainted(t, u, K, n, "black")
    BY <1>1, <2>0, PaintKeeps DEF Colors
  <2>2. \E bh2 : Balanced(u, K, bh2, Nil, "left")
    <3>1. CASE IsRed(t, n) /\ n = t.root
      <4>1. PICK bh : Balanced(t, K, bh, Nil, "left")
        BY <1>1, <3>1
      <4>2. t.root = n
        BY <3>1
      <4> HIDE DEF u
      <4> QED BY <1>1, <1>2, <2>0, <3>1, <4>1, <4>2, BlackMakesUp DEF u
    <3>2. CASE IsRed(t, n) /\ n # t.root
      <4>1. PICK bh : Balanced(t, K, bh, p, SideOf(t, n, p))
        BY <1>1, <3>2
      <4>2. p \in K /\ SideOf(t, n, p) \in Sides /\ t.child[SideOf(t, n, p)][p] = n
        BY <1>1, <3>2 DEF SideOf, Sides
      <4> QED BY <1>1, <1>2, <2>0, <3>2, <4>1, <4>2, BlackMakesUp
    <3>3. CASE ~IsRed(t, n)
      <4>1. PICK bh : Balanced(t, K, bh, Nil, "left")
        BY <1>1, <3>3
      <4>2. SameShape(t, u) /\ \A m \in K : u.color[m] = t.color[m]
        BY <1>3, <2>0, <2>1, <3>3 DEF Repainted, IsRed
      <4> HIDE DEF u
      <4> QED BY <1>1, <4>1, <4>2, SameColors
    <3> QED BY <3>1, <3>2, <3>3
  <2> HIDE DEF u
  <2>3. /\ Pointers(u, K) /\ SameShape(t, u)
        /\ \A m \in K : u.color[m] = IF m = n THEN "black" ELSE t.color[m]
    BY <2>1 DEF Repainted
  <2>4. Ordered(u, K, sub)
    BY <1>1, <1>2, <2>3, SameShapeKeeps
  <2>5. RedsApart(u, K, Nil, Nil)
    <3>1. /\ \A m \in K : u.parent[m] = t.parent[m]
          /\ u.root = t.root
      BY <1>1, <2>3, ShapeIs
    <3>2. \A m \in K \cup {Nil} : IsRed(u, m) => IsRed(t, m) /\ m # n
      BY <2>3 DEF IsRed
    <3>3. ~IsRed(u, u.root)
      BY <1>1, <1>3, <3>1, <3>2 DEF RedsApart
    <3>4. ASSUME NEW m \in K, IsRed(u, m), IsRed(u, u.parent[m]) PROVE FALSE
      <4>1. IsRed(t, m) /\ m # n /\ IsRed(t, t.parent[m]) /\ t.parent[m] # n
        BY <1>3, <3>1, <3>2, <3>4
      <4> QED BY <1>1, <4>1 DEF RedsApart
    <3> QED BY <3>3, <3>4 DEF RedsApart
  <2>6. Resting(u, K)
    BY <2>2, <2>3, <2>4, <2>5 DEF Resting
  <2> QED BY <1>5, <2>6 DEF u
<1> QED BY <1>4, <1>5

\* The sibling with which a pass of the loop of an erase goes on.
LEMMA SiblingIsBlack ==
  ASSUME NEW K, Erasing(tree, K, node, parent), ~IsRed(tree, node), node # tree.root
  PROVE  LET s == SideOf(tree, node, parent)
             t == BlackSibling(s)
         IN  Short(t, K, parent, s) /\ ~IsRed(t, t.child[Opposite(s)][parent])
<1> DEFINE s == SideOf(tree, node, parent)
           other == tree.child[Opposite(s)][parent]
<1>1. Short(tree, K, parent, s)
  BY ErasingIsShort
<1> HIDE DEF s
<1>2. CASE IsRed(tree, other)
  <2> DEFINE v == Rotate(Painted(Painted(tree, other, "black"), parent, "red"), parent, s)
  <2>1. other \in {tree.child[Opposite(s)][parent]}
    OBVIOUS
  <2>2. Short(v, K, parent, s) /\ ~IsRed(v, v.child[Opposite(s)][parent])
    BY <1>1, <1>2, <2>1, SiblingTurn
  <2>3. BlackSibling(s) = v
    BY <1>2 DEF BlackSibling
  <2> QED BY <2>2, <2>3 DEF s
<1>3. CASE ~IsRed(tree, other)
  <2>1. BlackSibling(s) = tree
    BY <1>3 DEF BlackSibling
  <2> QED BY <1>1, <1>3, <2>1 DEF s
<1> QED BY <1>2, <1>3

\* A pass of the loop of __cceph_rb_erase_color that only paints the sibling.
LEMMA EraseRecolors ==
  ASSUME NEW K, Erasing(tree, K, node, parent), EraseRecolor
  PROVE  Erasing(tree', K, node', parent')
<1> DEFINE s == SideOf(tree, node, parent)
           t == BlackSibling(s)
           w == t.child[Opposite(s)][parent]
<1>1. /\ ~IsRed(tree, node) /\ node # tree.root
      /\ \A r \in Sides : ~IsRed(t, t.child[r][w])
      /\ tree' = Painted(t, w, "red") /\ node' = parent /\ parent' = t.parent[parent]
  BY DEF EraseRecolor, EraseLoops, IsBlack
<1>2. Short(t, K, parent, s) /\ ~IsRed(t, w)
  BY <1>1, SiblingIsBlack
<1> HIDE DEF t, s
<1>3. Erasing(Painted(t, w, "red"), K, parent, t.parent[parent])
  BY <1>1, <1>2, RecolorErases
<1> QED BY <1>1, <1>3

\* A pass of it that rotates is the last one: the tree is red-black again.
LEMMA EraseRotates ==
  ASSUME NEW K, Erasing(tree, K, node, parent), EraseRotate
  PROVE  Resting(tree', K)
<1> DEFINE s     == SideOf(tree, node, parent)
           o     == Opposite(s)
           t     == BlackSibling(s)
           w     == t.child[o][parent]
           near  == t.child[s][w]
           t1    == IF IsRed(t, t.child[o][w]) THEN t
                    ELSE Rotate(Painted(Painted(t, near, "black"), w, "red"), w, o)
           top   == t1.child[o][parent]
           far   == t1.child[o][top]
           t2    == Painted(Painted(Painted(t1, top, t1.color[parent]), parent, "black"), far, "black")
<1>1. /\ ~IsRed(tree, node) /\ node # tree.root
      /\ \E r \in Sides : IsRed(t, t.child[r][w])
      /\ tree' = Rotate(t2, parent, s)
  BY Zenon DEF EraseRotate, EraseLoops, IsBlack
<1>2. Short(t, K, parent, s) /\ ~IsRed(t, w)
  BY Zenon, <1>1, SiblingIsBlack
<1> HIDE DEF t
<1>3. Short(t1, K, parent, s) /\ ~IsRed(t1, top) /\ IsRed(t1, far)
  <2>1. CASE IsRed(t, t.child[o][w])
    BY <1>2, <2>1
  <2>2. CASE ~IsRed(t, t.child[o][w])
    <3>1. IsRed(t, near)
      <4>1. s \in Sides
        BY DEF SideOf, Sides
      <4> QED BY Zenon, <1>1, <2>2, <4>1, SidesAre
    <3> DEFINE v == Rotate(Painted(Painted(t, near, "black"), w, "red"), w, o)
    <3>2. w \in {t.child[Opposite(s)][parent]} /\ near \in {t.child[s][w]}
      OBVIOUS
    <3>3. /\ Short(v, K, parent, s)
          /\ v.child[o][parent] = near /\ ~IsRed(v, near)
          /\ IsRed(v, v.child[o][near])
      <4> HIDE DEF s, w, near
      <4> QED BY <1>2, <2>2, <3>1, <3>2, FarTurn DEF w
    <3>4. t1 = v
      BY <2>2
    <3> QED BY Zenon, <3>3, <3>4
  <2> QED BY Zenon, <2>1, <2>2
<1> HIDE DEF t1
<1>4. Resting(Rotate(t2, parent, s), K)
  <2>1. top \in {t1.child[Opposite(s)][parent]} /\ far \in {t1.child[Opposite(s)][top]}
    OBVIOUS
  <2> HIDE DEF s, top, far
  <2> QED BY <1>3, <2>1, LastTurn DEF top
<1> QED BY <1>1, <1>4

\* An erase that takes out a red node has nothing to do.
LEMMA RestingEnds ==
  ASSUME NEW t, NEW K, NEW p \in K \cup {Nil}, Resting(t, K)
  PROVE  Erasing(t, K, t.root, p)
<1>1. t.root \in K \cup {Nil}
  BY DEF Resting, Pointers
<1>2. RedsApart(t, K, t.root, t.root)
  <2>1. \A m \in K : ~(IsRed(t, m) /\ IsRed(t, t.parent[m]))
    BY DEF Resting, RedsApart, IsRed
  <2> QED BY <2>1 DEF RedsApart
<1> QED BY <1>1, <1>2 DEF Resting, Erasing

----------------------------------------------------------------------------
\* Taking a node out.

\* u is t after rb_init_node on n.
Wiped(t, u, n) ==
  /\ u \in Trees
  /\ \A r \in Sides, m \in Keys : u.child[r][m] = IF m = n THEN Nil ELSE t.child[r][m]
  /\ \A m \in Keys : u.parent[m] = (IF m = n THEN Nil ELSE t.parent[m])
                     /\ u.color[m] = IF m = n THEN "red" ELSE t.color[m]
  /\ u.root = t.root

\* The fields of the node that was taken out are reset.
LEMMA ClearedIs ==
  ASSUME NEW t \in Trees, NEW n \in Keys
  PROVE  Wiped(t, Cleared(t, n), n)
<1> DEFINE t1 == SetChild(t, "left", n, Nil)
           t2 == SetChild(t1, "right", n, Nil)
           t3 == SetParent(t2, n, Nil)
           u == Painted(t3, n, "red")
<1>1. "left" \in Sides /\ "right" \in Sides /\ "red" \in Colors /\ \A r \in Sides : r = "left" \/ r = "right"
  BY DEF Sides, Colors
<1>2. ChildIsSet(t, t1, "left", n, Nil) /\ t1 \in Trees
  BY <1>1, ChildSet
<1> HIDE DEF t1
<1>3. ChildIsSet(t1, t2, "right", n, Nil) /\ t2 \in Trees
  BY <1>1, <1>2, ChildSet
<1> HIDE DEF t2
<1>4. ParentIsSet(t2, t3, n, Nil) /\ t3 \in Trees
  BY <1>3, ParentSet
<1> HIDE DEF t3
<1>5. ColorIsSet(t3, u, n, "red")
  BY <1>1, <1>4, ColorSet
<1> HIDE DEF u
<1>6. Wiped(t, u, n)
  BY <1>1, <1>2, <1>3, <1>4, <1>5 DEF Wiped, ChildIsSet, ParentIsSet, ColorIsSet
<1> QED BY <1>6 DEF u, t3, t2, t1, Cleared

\* u is the tree t without k, whose place c took.
Removed(t, u, k, c) ==
  LET p == t.parent[k]
  IN  /\ u \in Trees
      /\ \A r \in Sides, m \in Keys :
           u.child[r][m] = IF m = k THEN Nil
                           ELSE IF m = p /\ r = SideOf(t, k, p) THEN c ELSE t.child[r][m]
      /\ \A m \in Keys : u.parent[m] = IF m = k THEN Nil ELSE IF m = c THEN p ELSE t.parent[m]
      /\ \A m \in Keys \ {k} : u.color[m] = t.color[m]
      /\ u.root = IF p = Nil THEN c ELSE t.root

\* t after rb_erase took out k, whose only child is c.
Without(t, k, c) == Cleared(Redirected(SetParent(t, c, t.parent[k]), k, c), k)

\* Taking out a node with one child at most is three stores.
LEMMA RemoveIs ==
  ASSUME NEW t \in Trees, NEW k \in Keys, NEW c \in (Keys \ {k}) \cup {Nil}
  PROVE  Removed(t, Without(t, k, c), k, c)
<1> DEFINE p == t.parent[k]
           t1 == SetParent(t, c, p)
           t2 == Redirected(t1, k, c)
           u == Cleared(t2, k)
<1>1. p \in Keys \cup {Nil} /\ Nil \notin Keys /\ k # c
  BY NilIsNoKey DEF Trees
<1>2. ParentIsSet(t, t1, c, p) /\ t1 \in Trees
  BY <1>1, ParentSet
<1> HIDE DEF t1
<1>3. t1.parent[k] = p /\ (p # Nil => SideOf(t1, k, p) = SideOf(t, k, p))
  BY <1>1, <1>2 DEF ParentIsSet, SideOf, Sides
<1>4. Replaced(t1, t2, k, c) /\ t2 \in Trees
  BY <1>2, RedirectIs
<1> HIDE DEF t2
<1>5. Wiped(t2, u, k)
  BY <1>4, ClearedIs
<1> HIDE DEF u
<1>6. /\ \A r \in Sides, m \in Keys :
           t2.child[r][m] = IF m = p /\ r = SideOf(t, k, p) THEN c ELSE t.child[r][m]
      /\ \A m \in Keys : t2.parent[m] = t1.parent[m] /\ t2.color[m] = t.color[m]
      /\ t2.root = IF p = Nil THEN c ELSE t.root
  BY <1>1, <1>2, <1>3, <1>4 DEF ParentIsSet, Replaced
<1>7. Removed(t, u, k, c)
  <2>1. u \in Trees
    BY <1>5 DEF Wiped
  <2>2. \A r \in Sides, m \in Keys :
          u.child[r][m] = IF m = k THEN Nil
                          ELSE IF m = p /\ r = SideOf(t, k, p) THEN c ELSE t.child[r][m]
    BY <1>5, <1>6 DEF Wiped
  <2>3. \A m \in Keys : u.parent[m] = IF m = k THEN Nil ELSE IF m = c THEN p ELSE t.parent[m]
    BY <1>2, <1>5, <1>6 DEF Wiped, ParentIsSet
  <2>4. (\A m \in Keys \ {k} : u.color[m] = t.color[m]) /\ u.root = IF p = Nil THEN c ELSE t.root
    BY <1>5, <1>6 DEF Wiped
  <2> QED BY <2>1, <2>2, <2>3, <2>4 DEF Removed
<1> QED BY <1>7 DEF u, t2, t1, Without

\* The same in the tree of the nodes K, where k has no child but c, on side q.
RemoveIn(t, u, K, sub, k, c, q) ==
  /\ Shape(t, K, sub) /\ k \in K
  /\ q \in Sides /\ t.child[Opposite(q)][k] = Nil /\ t.child[q][k] = c
  /\ Removed(t, u, k, c)

\* Which child of whom changes.
LEMMA RemoveNear ==
  ASSUME NEW t, NEW u, NEW K, NEW sub, NEW k, NEW c, NEW q, RemoveIn(t, u, K, sub, k, c, q)
  PROVE  /\ Nil \notin K /\ K \subseteq Keys /\ k \in K /\ c \in (K \ {k}) \cup {Nil}
         /\ t.parent[k] \in (K \ {k}) \cup {Nil} /\ (t.parent[k] # Nil => t.parent[k] # c)
         /\ \A r \in Sides, m \in K \ {k} :
              u.child[r][m] = IF t.child[r][m] = k THEN c ELSE t.child[r][m]
         /\ \A m \in K \ {k} : u.parent[m] = IF m = c THEN t.parent[k] ELSE t.parent[m]
         /\ \A m \in K \ {k} : u.color[m] = t.color[m]
         /\ u.root = IF t.parent[k] = Nil THEN c ELSE t.root
         /\ c # Nil => t.parent[c] = k
         /\ \A m \in Keys \ (K \ {k}), r \in Sides : u.child[r][m] = Nil
         /\ u \in Trees
         /\ sub[k] = {k} \cup Under(sub, c) /\ k \notin Under(sub, c)
<1> DEFINE p == t.parent[k]
<1>1. /\ Shape(t, K, sub) /\ k \in K
      /\ q \in Sides /\ t.child[Opposite(q)][k] = Nil /\ t.child[q][k] = c
      /\ Removed(t, u, k, c)
  BY DEF RemoveIn
<1>2. /\ Nil \notin K /\ K \subseteq Keys
      /\ \A m \in K, r \in Sides : t.child[r][m] \in K \cup {Nil}
      /\ \A m \in K, r \in Sides : t.child[r][m] # Nil => t.parent[t.child[r][m]] = m
      /\ \A m \in Keys \ K, r \in Sides : t.child[r][m] = Nil
      /\ p \in K \cup {Nil} /\ k # Nil
      /\ Pointers(t, K) /\ Ordered(t, K, sub)
  BY <1>1, ChildrenAre DEF Shape, Pointers
<1>3. c # Nil => c \in K /\ t.parent[c] = k /\ c \in sub[c] /\ k \notin sub[c]
  BY <1>1, <1>2, ChildIsUnder
<1>4. p # Nil => p \in K /\ SideOf(t, k, p) \in Sides /\ t.child[SideOf(t, k, p)][p] = k
                 /\ k \in sub[k] /\ sub[k] \subseteq sub[p] /\ p \notin sub[k]
  BY <1>1, <1>2, ParentOf
<1>5. sub[k] = {k} \cup Under(sub, c) /\ k \notin Under(sub, c)
  <2>1. sub[k] = {k} \cup Under(sub, t.child[q][k]) \cup Under(sub, t.child[Opposite(q)][k])
    BY <1>1, <1>2, NodesOf
  <2>2. sub[k] = {k} \cup Under(sub, c) \cup Under(sub, Nil)
    BY <1>1, <2>1
  <2> QED BY <1>3, <2>2 DEF Under
<1>6. p # Nil => p # k /\ p # c
  <2> SUFFICES ASSUME p # Nil PROVE p # k /\ p # c
    OBVIOUS
  <2>1. p # k
    BY <1>4
  <2>2. c # Nil => c \in sub[k]
    BY <1>3, <1>5 DEF Under
  <2> QED BY <1>4, <2>1, <2>2
<1>7. ASSUME NEW r \in Sides, NEW m \in K \ {k}
      PROVE  u.child[r][m] = IF t.child[r][m] = k THEN c ELSE t.child[r][m]
  <2>1. u.child[r][m] = IF m = p /\ r = SideOf(t, k, p) THEN c ELSE t.child[r][m]
    BY <1>1, <1>2 DEF Removed
  <2>2. (m = p /\ r = SideOf(t, k, p)) <=> t.child[r][m] = k
    <3>1. ASSUME t.child[r][m] = k PROVE m = p /\ r = SideOf(t, k, p)
      <4>1. m = p
        BY <1>2, <3>1
      <4>2. SideOf(t, t.child[r][m], m) = r
        BY <1>2, <3>1, OneSide
      <4> QED BY <3>1, <4>1, <4>2
    <3>2. ASSUME m = p, r = SideOf(t, k, p) PROVE t.child[r][m] = k
      BY <1>2, <1>4, <3>2
    <3> QED BY <3>1, <3>2
  <2> QED BY <2>1, <2>2
<1>8. \A m \in K \ {k} : u.parent[m] = IF m = c THEN p ELSE t.parent[m]
  BY <1>1, <1>2 DEF Removed
<1>9. /\ \A m \in K \ {k} : u.color[m] = t.color[m]
      /\ u.root = IF p = Nil THEN c ELSE t.root
      /\ u \in Trees
  BY <1>1, <1>2 DEF Removed
<1>10. ASSUME NEW m \in Keys \ (K \ {k}), NEW r \in Sides PROVE u.child[r][m] = Nil
  <2>1. m = k \/ m # p
    BY <1>2, NilIsNoKey
  <2>2. u.child[r][m] = IF m = k THEN Nil
                        ELSE IF m = p /\ r = SideOf(t, k, p) THEN c ELSE t.child[r][m]
    BY <1>1 DEF Removed
  <2>3. m # k => t.child[r][m] = Nil
    BY <1>2
  <2> QED BY <2>1, <2>2, <2>3
<1>11. c \in (K \ {k}) \cup {Nil}
  BY <1>3
<1>12. p \in (K \ {k}) \cup {Nil} /\ (p # Nil => p # c)
  BY <1>2, <1>6
<1>13. c # Nil => t.parent[c] = k
  BY <1>3
<1> HIDE DEF p
<1> QED BY <1>1, <1>2, <1>5, <1>7, <1>8, <1>9, <1>10, <1>11, <1>12, <1>13 DEF p

\* The nodes below each node once k is gone.
RemovedSub(K, sub, k) == [m \in K \ {k} |-> sub[m] \ {k}]

\* The child of the node that is taken out belongs where the node was.
LEMMA RemoveKeeps ==
  ASSUME NEW t, NEW u, NEW K, NEW sub, NEW k, NEW c, NEW q, RemoveIn(t, u, K, sub, k, c, q)
  PROVE  Pointers(u, K \ {k}) /\ Ordered(u, K \ {k}, RemovedSub(K, sub, k))
<1> DEFINE J == K \ {k}
           sub2 == RemovedSub(K, sub, k)
           p == t.parent[k]
<1>1. /\ Nil \notin K /\ K \subseteq Keys /\ k \in K /\ c \in J \cup {Nil}
      /\ p \in J \cup {Nil} /\ (p # Nil => p # c)
      /\ \A r \in Sides, m \in J : u.child[r][m] = IF t.child[r][m] = k THEN c ELSE t.child[r][m]
      /\ \A m \in J : u.parent[m] = IF m = c THEN p ELSE t.parent[m]
      /\ u.root = IF p = Nil THEN c ELSE t.root
      /\ c # Nil => t.parent[c] = k
      /\ \A m \in Keys \ J, r \in Sides : u.child[r][m] = Nil
      /\ u \in Trees
      /\ sub[k] = {k} \cup Under(sub, c) /\ k \notin Under(sub, c)
  BY RemoveNear
<1>2. Shape(t, K, sub) /\ q \in Sides /\ t.child[Opposite(q)][k] = Nil /\ t.child[q][k] = c
  BY DEF RemoveIn
<1>3. /\ t.root \in K \cup {Nil}
      /\ \A m \in K, r \in Sides : t.child[r][m] \in K \cup {Nil}
      /\ \A m \in K, r \in Sides : t.child[r][m] # Nil => t.parent[t.child[r][m]] = m
      /\ \A m \in K : t.parent[m] \in K \cup {Nil} /\ (t.parent[m] = Nil <=> t.root = m)
      /\ \A m \in K : t.parent[m] # Nil => \E r \in Sides : t.child[r][t.parent[m]] = m
  BY <1>2, ChildrenAre DEF Shape, Pointers
<1>4. ASSUME NEW m \in J
      PROVE  /\ u.parent[m] \in J \cup {Nil}
             /\ u.parent[m] = Nil <=> u.root = m
             /\ u.parent[m] # Nil => \E r \in Sides : u.child[r][u.parent[m]] = m
  <2>1. CASE m = c
    <3>1. u.parent[m] = p /\ m # Nil /\ t.parent[c] = k
      BY <1>1, <2>1
    <3>2. p = Nil <=> u.root = m
      <4>1. t.root # c
        BY <1>1, <1>3, <2>1, <3>1
      <4> QED BY <1>1, <2>1, <4>1
    <3>3. ASSUME p # Nil PROVE \E r \in Sides : u.child[r][p] = m
      <4>1. PICK r \in Sides : t.child[r][p] = k
        BY <1>1, <1>3, <3>3
      <4> QED BY <1>1, <2>1, <3>3, <4>1
    <3> QED BY <1>1, <3>1, <3>2, <3>3
  <2>2. CASE m # c
    <3>1. u.parent[m] = t.parent[m]
      BY <1>1, <2>2
    <3>2. t.parent[m] # k
      <4> SUFFICES ASSUME t.parent[m] = k PROVE FALSE
        OBVIOUS
      <4>1. PICK r \in Sides : t.child[r][k] = m
        BY <1>1, <1>3
      <4>2. m # Nil
        BY <1>1
      <4> QED BY <1>2, <2>2, <4>1, <4>2, SidesAre
    <3>3. t.parent[m] = Nil <=> u.root = m
      BY <1>1, <1>3, <2>2
    <3>4. ASSUME t.parent[m] # Nil PROVE \E r \in Sides : u.child[r][t.parent[m]] = m
      <4>1. PICK r \in Sides : t.child[r][t.parent[m]] = m
        BY <1>1, <1>3, <3>4
      <4>2. t.parent[m] \in J
        BY <1>3, <3>2, <3>4
      <4> QED BY <1>1, <4>1, <4>2
    <3> QED BY <1>3, <3>1, <3>2, <3>3, <3>4
  <2> QED BY <2>1, <2>2
<1>5. ASSUME NEW m \in J, NEW r \in Sides, u.child[r][m] # Nil
      PROVE  u.child[r][m] \in J /\ u.parent[u.child[r][m]] = m
  <2>1. CASE t.child[r][m] = k
    <3>1. u.child[r][m] = c /\ k # Nil
      BY <1>1, <2>1
    <3>2. p = m
      BY <1>1, <1>3, <2>1, <3>1
    <3> QED BY <1>1, <1>5, <3>1, <3>2
  <2>2. CASE t.child[r][m] # k
    <3>1. u.child[r][m] = t.child[r][m]
      BY <1>1, <2>2
    <3>2. PICK d \in J : d = t.child[r][m]
      BY <1>3, <1>5, <2>2, <3>1
    <3>3. t.parent[d] = m
      BY <1>3, <1>5, <3>1, <3>2
    <3>4. d # c
      BY <1>1, <3>3
    <3> QED BY <1>1, <3>1, <3>2, <3>3, <3>4
  <2> QED BY <2>1, <2>2
<1>6. Pointers(u, J)
  <2>1. u.root \in J \cup {Nil} /\ J \subseteq Keys
    BY <1>1, <1>3
  <2> QED BY <1>1, <1>4, <1>5, <2>1 DEF Pointers
<1>7. /\ sub \in [K -> SUBSET K]
      /\ Under(sub, t.root) = K
      /\ \A m \in K : sub[m] = {m} \cup Under(sub, t.child["left"][m]) \cup Under(sub, t.child["right"][m])
      /\ \A m \in K, r \in Sides : \A x \in Under(sub, t.child[r][m]) : Before(r, x, m)
  BY <1>2 DEF Shape, Ordered
<1>8. sub2 \in [J -> SUBSET J] /\ \A m \in J : sub2[m] = sub[m] \ {k}
  BY <1>7 DEF RemovedSub
<1> HIDE DEF sub2
<1>9. \A d \in J \cup {Nil} : Under(sub2, d) = Under(sub, d) \ {k}
  BY <1>1, <1>8 DEF Under
<1>10. Under(sub, k) \ {k} = Under(sub, c) /\ Under(sub, c) = Under(sub, c) \ {k}
  BY <1>1 DEF Under
<1>11. \A m \in J, r \in Sides : Under(sub2, u.child[r][m]) = Under(sub, t.child[r][m]) \ {k}
  <2> TAKE m \in J, r \in Sides
  <2>1. CASE t.child[r][m] = k
    BY <1>1, <1>9, <1>10, <2>1
  <2>2. CASE t.child[r][m] # k
    BY <1>1, <1>3, <1>9, <2>2
  <2> QED BY <2>1, <2>2
<1>12. Under(sub2, u.root) = J
  <2>1. CASE p = Nil
    <3>1. t.root = k
      BY <1>1, <1>3, <2>1
    <3>2. Under(sub2, c) = Under(sub, k) \ {k}
      BY <1>1, <1>9, <1>10
    <3> QED BY <1>1, <1>7, <2>1, <3>1, <3>2
  <2>2. CASE p # Nil
    <3>1. t.root # k
      BY <1>1, <1>3, <2>2
    <3> QED BY <1>1, <1>3, <1>7, <1>9, <2>2, <3>1
  <2> QED BY <2>1, <2>2
<1>13. \A m \in J : sub2[m] = {m} \cup Under(sub2, u.child["left"][m]) \cup Under(sub2, u.child["right"][m])
  <2> TAKE m \in J
  <2>1. sub2[m] = sub[m] \ {k} /\ m # k /\ m \in K
    BY <1>8
  <2>2. sub[m] = {m} \cup Under(sub, t.child["left"][m]) \cup Under(sub, t.child["right"][m])
    BY <1>7
  <2>3. /\ Under(sub2, u.child["left"][m]) = Under(sub, t.child["left"][m]) \ {k}
        /\ Under(sub2, u.child["right"][m]) = Under(sub, t.child["right"][m]) \ {k}
    BY <1>11 DEF Sides
  <2> QED BY <2>1, <2>2, <2>3
<1>14. \A m \in J, r \in Sides : \A x \in Under(sub2, u.child[r][m]) : Before(r, x, m)
  BY <1>7, <1>11
<1>15. Ordered(u, J, sub2)
  BY <1>8, <1>12, <1>13, <1>14 DEF Ordered
<1> QED BY <1>6, <1>15 DEF sub2

\* What the blacks below each are then.
LEMMA RemoveBalances ==
  ASSUME NEW t, NEW u, NEW K, NEW sub, NEW k, NEW c, NEW q, RemoveIn(t, u, K, sub, k, c, q),
         Resting(t, K)
  PROVE  IF t.color[k] = "black" THEN Erasing(u, K \ {k}, c, t.parent[k]) ELSE Resting(u, K \ {k})
<1> DEFINE J == K \ {k}
           p == t.parent[k]
<1>1. /\ Nil \notin K /\ K \subseteq Keys /\ k \in K /\ c \in J \cup {Nil}
      /\ p \in J \cup {Nil} /\ (p # Nil => p # c)
      /\ \A r \in Sides, m \in J : u.child[r][m] = IF t.child[r][m] = k THEN c ELSE t.child[r][m]
      /\ \A m \in J : u.parent[m] = IF m = c THEN p ELSE t.parent[m]
      /\ \A m \in J : u.color[m] = t.color[m]
      /\ u.root = IF p = Nil THEN c ELSE t.root
      /\ c # Nil => t.parent[c] = k
  BY RemoveNear
<1>2. Shape(t, K, sub) /\ q \in Sides /\ t.child[Opposite(q)][k] = Nil /\ t.child[q][k] = c
  BY DEF RemoveIn
<1>3. /\ t.root \in K \cup {Nil} /\ Pointers(t, K) /\ Ordered(t, K, sub)
      /\ \A m \in K, r \in Sides : t.child[r][m] \in K \cup {Nil}
      /\ \A m \in K, r \in Sides : t.child[r][m] # Nil => t.parent[t.child[r][m]] = m
      /\ \A m \in K : t.parent[m] \in K \cup {Nil} /\ (t.parent[m] = Nil <=> t.root = m)
      /\ \A m \in K : t.color[m] = "red" \/ t.color[m] = "black"
  BY <1>2, ChildrenAre DEF Shape
<1>4. ~IsRed(t, t.root) /\ \A m \in K : ~(IsRed(t, m) /\ IsRed(t, t.parent[m]))
  <2>1. /\ IsRed(t, t.root) => t.root = Nil
        /\ \A m \in K : IsRed(t, m) /\ IsRed(t, t.parent[m]) => m = Nil \/ t.parent[m] = Nil
    BY DEF Resting, RedsApart
  <2> QED BY <2>1 DEF IsRed
<1>5. Pointers(u, J) /\ Ordered(u, J, RemovedSub(K, sub, k))
  BY RemoveKeeps
<1>6. PICK bh : Balanced(t, K, bh, Nil, "left")
  BY DEF Resting
<1> DEFINE bh2 == [m \in J |-> bh[m]]
<1>7. bh \in [K -> Nat]
  BY <1>6 DEF Balanced
<1>8. \A m \in K, r \in Sides : bh[m] = Weight(t, m) + Height(bh, t.child[r][m])
  BY <1>1, <1>3, <1>6, <1>7, Balances
<1>9. bh2 \in [J -> Nat] /\ \A m \in J : bh2[m] = bh[m]
  BY <1>7
<1> HIDE DEF bh2
<1>10. \A d \in J \cup {Nil} : Height(bh2, d) = Height(bh, d)
  BY <1>1, <1>9 DEF Height
<1>11. bh[k] = Weight(t, k) + Height(bh, c) /\ Height(bh, c) \in Nat /\ Height(bh, k) = bh[k]
  BY <1>1, <1>2, <1>7, <1>8 DEF Height
<1>12. \A m \in J, r \in Sides : Height(bh2, u.child[r][m]) \in Nat /\ Weight(t, m) \in Nat /\ Weight(u, m) = Weight(t, m)
  BY <1>1, <1>3, <1>9 DEF Height, Weight
<1>13. \A m \in J, r \in Sides :
         bh2[m] = Weight(u, m) + Height(bh2, u.child[r][m]) + IF t.child[r][m] = k THEN Weight(t, k) ELSE 0
  <2> TAKE m \in J, r \in Sides
  <2>1. bh2[m] = Weight(u, m) + Height(bh, t.child[r][m])
    BY <1>8, <1>9, <1>12
  <2>2. CASE t.child[r][m] = k
    <3>1. Height(bh2, u.child[r][m]) = Height(bh, c) /\ Weight(t, k) \in Nat
      BY <1>1, <1>10, <2>2 DEF Weight
    <3> QED BY <1>11, <1>12, <2>1, <2>2, <3>1
  <2>3. CASE t.child[r][m] # k
    <3>1. Height(bh2, u.child[r][m]) = Height(bh, t.child[r][m])
      BY <1>1, <1>3, <1>10, <2>3
    <3> QED BY <1>12, <2>1, <2>3, <3>1
  <2> QED BY <2>2, <2>3
<1>14. ASSUME IsRed(u, u.root) PROVE u.root = c /\ t.color[k] = "black"
  <2>1. CASE p = Nil
    <3>1. t.root = k /\ k # Nil
      BY <1>1, <1>3, <2>1
    <3> QED BY <1>1, <1>3, <1>4, <2>1, <3>1 DEF IsRed
  <2>2. CASE p # Nil
    <3>1. t.root # k /\ u.root = t.root
      BY <1>1, <1>3, <2>2
    <3>2. IsRed(t, t.root)
      BY <1>1, <1>3, <1>14, <3>1 DEF IsRed
    <3> QED BY <1>4, <3>2
  <2> QED BY <2>1, <2>2
<1>15. ASSUME NEW m \in J, IsRed(u, m), IsRed(u, u.parent[m]) PROVE m = c /\ t.color[k] = "black"
  <2>1. m = c
    <3> SUFFICES ASSUME m # c PROVE FALSE
      OBVIOUS
    <3>1. PICK x \in K \cup {Nil} : x = t.parent[m]
      BY <1>3
    <3>2. u.parent[m] = x
      BY <1>1, <3>1
    <3>3. x # k
      <4> SUFFICES ASSUME x = k PROVE FALSE
        OBVIOUS
      <4>1. t.parent[m] # Nil
        BY <1>1, <3>1
      <4>2. \E r \in Sides : t.child[r][t.parent[m]] = m
        BY <1>3, <4>1 DEF Pointers
      <4>3. PICK r \in Sides : t.child[r][k] = m
        BY <3>1, <4>2
      <4>4. m # Nil
        BY <1>1
      <4> QED BY <1>2, <4>3, <4>4, SidesAre
    <3>4. IsRed(t, m) /\ IsRed(t, x)
      BY <1>1, <1>15, <3>2, <3>3 DEF IsRed
    <3> QED BY <1>4, <3>1, <3>4
  <2>2. t.color[k] # "red"
    <3> SUFFICES ASSUME t.color[k] = "red" PROVE FALSE
      OBVIOUS
    <3>1. IsRed(t, k) /\ IsRed(t, m) /\ t.parent[m] = k
      BY <1>1, <1>15, <2>1 DEF IsRed
    <3> QED BY <1>4, <3>1
  <2> QED BY <1>1, <1>3, <2>1, <2>2
<1>16. CASE t.color[k] # "black"
  <2>1. Weight(t, k) = 0
    BY <1>16 DEF Weight
  <2>2. \A m \in J, r \in Sides : bh2[m] = Weight(u, m) + Height(bh2, u.child[r][m])
    BY <1>12, <1>13, <2>1
  <2>3. Nil \notin J /\ \A m \in J, r \in Sides : u.child[r][m] \in J \cup {Nil}
    BY <1>5, ChildrenAre
  <2>4. Balanced(u, J, bh2, Nil, "left")
    BY <1>9, <2>2, <2>3, Balances
  <2>5. RedsApart(u, J, Nil, Nil)
    BY <1>14, <1>15, <1>16 DEF RedsApart
  <2> QED BY <1>5, <1>16, <2>4, <2>5 DEF Resting
<1>17. CASE t.color[k] = "black"
  <2>1. Weight(t, k) = 1
    BY <1>17 DEF Weight
  <2>2. RedsApart(u, J, c, c)
    BY <1>14, <1>15 DEF RedsApart
  <2>3. CASE p = Nil
    <3>1. u.root = c
      BY <1>1, <2>3
    <3>2. \A m \in J, r \in Sides : t.child[r][m] # k
      BY <1>1, <1>3, <2>3
    <3>3. \A m \in J, r \in Sides : bh2[m] = Weight(u, m) + Height(bh2, u.child[r][m])
      BY <1>12, <1>13, <3>2
    <3>4. Nil \notin J /\ \A m \in J, r \in Sides : u.child[r][m] \in J \cup {Nil}
      BY <1>5, ChildrenAre
    <3>5. Balanced(u, J, bh2, Nil, "left")
      BY <1>9, <3>3, <3>4, Balances
    <3> QED BY <1>1, <1>5, <1>17, <2>2, <3>1, <3>5 DEF Erasing
  <2>4. CASE p # Nil
    <3>1. PICK s \in Sides : t.child[s][p] = k
      <4>1. t.parent[k] # Nil
        BY <2>4
      <4>2. \E r \in Sides : t.child[r][t.parent[k]] = k
        BY <1>1, <1>3, <4>1 DEF Pointers
      <4> QED BY <4>2
    <3>2. p \in J /\ u.child[s][p] = c
      BY <1>1, <2>4, <3>1
    <3>3. \A m \in J, r \in Sides : t.child[r][m] = k <=> m = p /\ r = s
      <4> TAKE m \in J, r \in Sides
      <4>1. ASSUME t.child[r][m] = k PROVE m = p /\ r = s
        <5>1. m = p
          BY <1>1, <1>3, <4>1
        <5>2. t.child[Opposite(s)][p] # t.child[s][p]
          BY <1>1, <1>3, <3>1, <3>2, OneSide
        <5> QED BY <3>1, <4>1, <5>1, <5>2, SidesAre
      <4> QED BY <3>1, <4>1
    <3>4. SideOf(u, c, p) = s
      <4>1. CASE c # Nil
        BY <1>5, <3>2, <4>1, OneSide
      <4>2. CASE c = Nil
        <5>1. u.child[Opposite(s)][p] # Nil
          <6> SUFFICES ASSUME u.child[Opposite(s)][p] = Nil PROVE FALSE
            OBVIOUS
          <6>1. Opposite(s) \in Sides /\ Opposite(s) # s
            BY SidesAre
          <6>2. t.child[Opposite(s)][p] = Nil
            BY <1>1, <3>2, <3>3, <6>1
          <6>3. /\ bh[p] = Weight(t, p) + Height(bh, t.child[s][p])
                /\ bh[p] = Weight(t, p) + Height(bh, t.child[Opposite(s)][p])
            BY <1>8, <3>2, <6>1
          <6>4. Height(bh, Nil) = 0 /\ Height(bh, k) = 1 + Height(bh, c) /\ Height(bh, c) \in Nat /\ Weight(t, p) \in Nat
            BY <1>11, <2>1 DEF Height, Weight
          <6> QED BY <3>1, <6>2, <6>3, <6>4
        <5> QED BY <3>2, <4>2, <5>1 DEF SideOf, Sides, Opposite
      <4> QED BY <4>1, <4>2
    <3>5. Balanced(u, J, bh2, p, s)
      <4>1. \A m \in J, r \in Sides :
              bh2[m] = Weight(u, m) + Height(bh2, u.child[r][m]) + IF m = p /\ r = s THEN 1 ELSE 0
        BY <1>13, <2>1, <3>3
      <4> QED BY <1>9, <4>1 DEF Balanced, Even
    <3>6. c # u.root
      <4> SUFFICES ASSUME c = u.root PROVE FALSE
        OBVIOUS
      <4>1. u.root = t.root
        BY <1>1, <2>4
      <4>2. CASE c = Nil
        <5>1. K = {}
          BY <1>3, <4>1, <4>2 DEF Ordered, Under
        <5> QED BY <1>1, <5>1
      <4>3. CASE c # Nil
        BY <1>1, <1>3, <4>1, <4>3
      <4> QED BY <4>2, <4>3
    <3> QED BY <1>1, <1>5, <1>17, <2>2, <3>2, <3>4, <3>5, <3>6 DEF Erasing
  <2> QED BY <2>3, <2>4
<1> QED BY <1>16, <1>17

----------------------------------------------------------------------------
\* A node in the place of another.

\* m, under the name x if it is k.
As(k, x, m) == IF m = k THEN x ELSE m

\* u is the tree t of the nodes K with x in place of k.
Renamed(t, u, K, k, x) ==
  /\ u \in Trees
  /\ \A m \in K, r \in Sides : u.child[r][As(k, x, m)] = As(k, x, t.child[r][m])
  /\ \A m \in K : u.parent[As(k, x, m)] = As(k, x, t.parent[m]) /\ u.color[As(k, x, m)] = t.color[m]
  /\ \A m \in Keys \ ((K \ {k}) \cup {x}), r \in Sides : u.child[r][m] = Nil
  /\ u.root = As(k, x, t.root)

\* The nodes below each node once x is in the place of k.
RenamedSub(K, sub, k, x) ==
  [m \in (K \ {k}) \cup {x} |-> {As(k, x, y) : y \in sub[As(x, k, m)]}]

\* What the lemmas about renaming share: x, not in the tree, takes the place of k.
RenameIn(t, u, K, k, x) ==
  /\ Pointers(t, K) /\ k \in K /\ x \in Keys \ K /\ Renamed(t, u, K, k, x)

\* Renaming a node to one that was not there can be undone.
LEMMA AsIs ==
  ASSUME NEW t, NEW u, NEW K, NEW k, NEW x, RenameIn(t, u, K, k, x)
  PROVE  /\ Nil \notin K /\ x # Nil /\ k # Nil /\ x # k /\ As(k, x, Nil) = Nil
         /\ (K \ {k}) \cup {x} \subseteq Keys /\ Nil \notin (K \ {k}) \cup {x}
         /\ \A m \in K : As(k, x, m) \in (K \ {k}) \cup {x} /\ As(x, k, As(k, x, m)) = m
         /\ \A m \in K \cup {Nil} : As(k, x, m) \in ((K \ {k}) \cup {x}) \cup {Nil} /\ As(x, k, As(k, x, m)) = m
         /\ \A m \in (K \ {k}) \cup {x} : As(x, k, m) \in K /\ As(k, x, As(x, k, m)) = m
         /\ \A a, b \in K \cup {Nil} : As(k, x, a) = As(k, x, b) => a = b
<1>1. Nil \notin K /\ k \in K /\ x \in Keys /\ x \notin K /\ K \subseteq Keys
  BY ChildrenAre DEF RenameIn
<1>2. x # Nil
  BY <1>1, NilIsNoKey
<1> QED BY <1>1, <1>2, NilIsNoKey DEF As

\* With a node in the place of another the pointers agree.
LEMMA RenamePointers ==
  ASSUME NEW t, NEW u, NEW K, NEW k, NEW x, RenameIn(t, u, K, k, x)
  PROVE  Pointers(u, (K \ {k}) \cup {x})
<1> DEFINE J == (K \ {k}) \cup {x}
<1>1. /\ Nil \notin K /\ As(k, x, Nil) = Nil
      /\ J \subseteq Keys /\ Nil \notin J
      /\ \A m \in K : As(k, x, m) \in J
      /\ \A m \in K \cup {Nil} : As(k, x, m) \in J \cup {Nil}
      /\ \A m \in J : As(x, k, m) \in K /\ As(k, x, As(x, k, m)) = m
      /\ \A a, b \in K \cup {Nil} : As(k, x, a) = As(k, x, b) => a = b
  BY AsIs
<1>2. /\ u \in Trees
      /\ \A m \in K, r \in Sides : u.child[r][As(k, x, m)] = As(k, x, t.child[r][m])
      /\ \A m \in K : u.parent[As(k, x, m)] = As(k, x, t.parent[m])
      /\ \A m \in Keys \ J, r \in Sides : u.child[r][m] = Nil
      /\ u.root = As(k, x, t.root)
  BY DEF RenameIn, Renamed
<1>3. /\ t.root \in K \cup {Nil}
      /\ \A m \in K, r \in Sides : t.child[r][m] \in K \cup {Nil}
      /\ \A m \in K, r \in Sides : t.child[r][m] # Nil => t.parent[t.child[r][m]] = m
      /\ \A m \in K : t.parent[m] \in K \cup {Nil} /\ (t.parent[m] = Nil <=> t.root = m)
      /\ \A m \in K : t.parent[m] # Nil => \E r \in Sides : t.child[r][t.parent[m]] = m
  BY ChildrenAre DEF RenameIn, Pointers
<1>4. ASSUME NEW m \in J
      PROVE  /\ u.parent[m] \in J \cup {Nil}
             /\ u.parent[m] = Nil <=> u.root = m
             /\ u.parent[m] # Nil => \E r \in Sides : u.child[r][u.parent[m]] = m
             /\ \A r \in Sides : u.child[r][m] # Nil => u.child[r][m] \in J /\ u.parent[u.child[r][m]] = m
  <2>1. PICK a \in K : As(k, x, a) = m
    BY <1>1
  <2>2. u.parent[m] = As(k, x, t.parent[a]) /\ \A r \in Sides : u.child[r][m] = As(k, x, t.child[r][a])
    BY <1>2, <2>1
  <2>3. u.parent[m] = Nil <=> u.root = m
    <3>1. u.parent[m] = Nil <=> t.parent[a] = Nil
      BY <1>1, <1>3, <2>2
    <3>2. u.root = m <=> t.root = a
      BY <1>1, <1>2, <1>3, <2>1
    <3> QED BY <1>3, <3>1, <3>2
  <2>4. ASSUME u.parent[m] # Nil PROVE \E r \in Sides : u.child[r][u.parent[m]] = m
    <3>1. t.parent[a] # Nil /\ t.parent[a] \in K
      BY <1>1, <1>3, <2>2, <2>4
    <3>2. PICK r \in Sides : t.child[r][t.parent[a]] = a
      BY <1>3, <3>1
    <3>3. u.child[r][As(k, x, t.parent[a])] = As(k, x, a)
      BY <1>2, <3>1, <3>2
    <3> QED BY <2>1, <2>2, <3>3
  <2>5. ASSUME NEW r \in Sides, u.child[r][m] # Nil
        PROVE  u.child[r][m] \in J /\ u.parent[u.child[r][m]] = m
    <3>1. PICK b \in K : b = t.child[r][a]
      BY <1>1, <1>3, <2>2, <2>5
    <3>2. t.parent[b] = a
      BY <1>1, <1>3, <3>1
    <3> QED BY <1>1, <1>2, <2>1, <2>2, <3>1, <3>2
  <2> QED BY <1>1, <1>3, <2>2, <2>3, <2>4, <2>5
<1>5. u.root \in J \cup {Nil}
  BY <1>1, <1>2, <1>3
<1> QED BY <1>1, <1>2, <1>4, <1>5 DEF Pointers

\* With a node in the place of another the order holds if it fits there.
LEMMA RenameOrder ==
  ASSUME NEW t, NEW u, NEW K, NEW k, NEW x, RenameIn(t, u, K, k, x),
         NEW sub, Ordered(t, K, sub),
         \A m \in K, r \in Sides : \A y \in Under(sub, t.child[r][m]) : Before(r, As(k, x, y), As(k, x, m))
  PROVE  Ordered(u, (K \ {k}) \cup {x}, RenamedSub(K, sub, k, x))
<1> DEFINE J == (K \ {k}) \cup {x}
           sub2 == RenamedSub(K, sub, k, x)
           Ren(S) == {As(k, x, y) : y \in S}
<1>1. /\ Nil \notin K /\ As(k, x, Nil) = Nil
      /\ J \subseteq Keys /\ Nil \notin J
      /\ \A m \in K : As(k, x, m) \in J /\ As(x, k, As(k, x, m)) = m
      /\ \A m \in K \cup {Nil} : As(k, x, m) \in J \cup {Nil}
      /\ \A m \in J : As(x, k, m) \in K /\ As(k, x, As(x, k, m)) = m
      /\ \A a, b \in K \cup {Nil} : As(k, x, a) = As(k, x, b) => a = b
  BY AsIs
<1>2. /\ \A m \in K, r \in Sides : u.child[r][As(k, x, m)] = As(k, x, t.child[r][m])
      /\ u.root = As(k, x, t.root)
  BY DEF RenameIn, Renamed
<1>3. /\ t.root \in K \cup {Nil}
      /\ \A m \in K, r \in Sides : t.child[r][m] \in K \cup {Nil}
  BY ChildrenAre DEF RenameIn
<1>4. /\ sub \in [K -> SUBSET K]
      /\ Under(sub, t.root) = K
      /\ \A m \in K : sub[m] = {m} \cup Under(sub, t.child["left"][m]) \cup Under(sub, t.child["right"][m])
  BY DEF Ordered
<1>5. sub2 \in [J -> SUBSET J] /\ \A m \in K : sub2[As(k, x, m)] = Ren(sub[m])
  <2>1. \A m \in J : Ren(sub[As(x, k, m)]) \in SUBSET J
    BY <1>1, <1>4
  <2>2. \A m \in J : sub2[m] = Ren(sub[As(x, k, m)])
    BY DEF RenamedSub
  <2>3. sub2 = [m \in J |-> sub2[m]]
    BY DEF RenamedSub
  <2> HIDE DEF sub2, Ren
  <2>4. \A m \in K : sub2[As(k, x, m)] = Ren(sub[m])
    BY <1>1, <2>2
  <2> QED BY <2>1, <2>2, <2>3, <2>4
<1> HIDE DEF sub2
<1>6. \A d \in K \cup {Nil} : Under(sub2, As(k, x, d)) = Ren(Under(sub, d))
  <2> TAKE d \in K \cup {Nil}
  <2>1. CASE d = Nil
    BY <1>1, <2>1 DEF Under
  <2>2. CASE d # Nil
    <3>1. As(k, x, d) # Nil /\ d \in K
      BY <1>1, <2>2
    <3> HIDE DEF Ren
    <3> QED BY <1>5, <2>2, <3>1 DEF Under
  <2> QED BY <2>1, <2>2
<1>7. Under(sub2, u.root) = J
  <2>1. Under(sub2, u.root) = Ren(K)
    <3> HIDE DEF Ren
    <3> QED BY <1>2, <1>3, <1>4, <1>6
  <2>2. Ren(K) = J
    BY <1>1
  <2> QED BY <2>1, <2>2
<1>8. ASSUME NEW m \in J
      PROVE  sub2[m] = {m} \cup Under(sub2, u.child["left"][m]) \cup Under(sub2, u.child["right"][m])
  <2>1. PICK a \in K : As(k, x, a) = m
    BY <1>1
  <2>2. "left" \in Sides /\ "right" \in Sides
    BY DEF Sides
  <2>3. sub2[m] = Ren(sub[a])
    BY <1>5, <2>1
  <2>4. /\ Under(sub2, u.child["left"][m]) = Ren(Under(sub, t.child["left"][a]))
        /\ Under(sub2, u.child["right"][m]) = Ren(Under(sub, t.child["right"][a]))
    <3>1. u.child["left"][m] = As(k, x, t.child["left"][a]) /\ u.child["right"][m] = As(k, x, t.child["right"][a])
      BY <1>2, <2>1, <2>2
    <3>2. t.child["left"][a] \in K \cup {Nil} /\ t.child["right"][a] \in K \cup {Nil}
      BY <1>3, <2>2
    <3> HIDE DEF Ren
    <3> QED BY <1>6, <3>1, <3>2
  <2>5. Ren(sub[a]) = {m} \cup Ren(Under(sub, t.child["left"][a])) \cup Ren(Under(sub, t.child["right"][a]))
    <3>1. sub[a] = {a} \cup Under(sub, t.child["left"][a]) \cup Under(sub, t.child["right"][a])
      BY <1>4
    <3> QED BY <2>1, <3>1
  <2> HIDE DEF Ren
  <2> QED BY <2>3, <2>4, <2>5
<1>9. ASSUME NEW m \in J, NEW r \in Sides, NEW y \in Under(sub2, u.child[r][m]) PROVE Before(r, y, m)
  <2>1. PICK a \in K : As(k, x, a) = m
    BY <1>1
  <2>2. Under(sub2, u.child[r][m]) = Ren(Under(sub, t.child[r][a]))
    <3>1. u.child[r][m] = As(k, x, t.child[r][a]) /\ t.child[r][a] \in K \cup {Nil}
      BY <1>2, <1>3, <2>1
    <3> HIDE DEF Ren
    <3> QED BY <1>6, <3>1
  <2>3. PICK b \in Under(sub, t.child[r][a]) : y = As(k, x, b)
    BY <1>9, <2>2
  <2> QED BY <2>1, <2>3
<1>10. Ordered(u, J, sub2)
  BY <1>5, <1>7, <1>8, <1>9 DEF Ordered
<1> QED BY <1>10 DEF sub2

\* With a node in the place of another, in its color, the blacks count the same.
LEMMA RenameBalances ==
  ASSUME NEW t, NEW u, NEW K, NEW k, NEW x, RenameIn(t, u, K, k, x),
         NEW bh, NEW sp \in K \cup {Nil}, NEW ss, Balanced(t, K, bh, sp, ss)
  PROVE  \E bh2 : Balanced(u, (K \ {k}) \cup {x}, bh2, As(k, x, sp), ss)
<1> DEFINE J == (K \ {k}) \cup {x}
           bh2 == [m \in J |-> bh[As(x, k, m)]]
<1>1. /\ Nil \notin K /\ As(k, x, Nil) = Nil /\ Nil \notin J
      /\ \A m \in K : As(k, x, m) \in J /\ As(x, k, As(k, x, m)) = m
      /\ \A m \in J : As(x, k, m) \in K /\ As(k, x, As(x, k, m)) = m
      /\ \A a, b \in K \cup {Nil} : As(k, x, a) = As(k, x, b) => a = b
  BY AsIs
<1>2. /\ \A m \in K, r \in Sides : u.child[r][As(k, x, m)] = As(k, x, t.child[r][m])
      /\ \A m \in K : u.color[As(k, x, m)] = t.color[m]
  BY DEF RenameIn, Renamed
<1>3. \A m \in K, r \in Sides : t.child[r][m] \in K \cup {Nil}
  BY ChildrenAre DEF RenameIn
<1>4. bh \in [K -> Nat]
  BY DEF Balanced
<1>5. bh2 \in [J -> Nat] /\ \A m \in K : bh2[As(k, x, m)] = bh[m]
  BY <1>1, <1>4
<1> HIDE DEF bh2
<1>6. \A d \in K \cup {Nil} : Height(bh2, As(k, x, d)) = Height(bh, d)
  BY <1>1, <1>5 DEF Height
<1>7. ASSUME NEW m \in J, NEW r \in Sides
      PROVE  bh2[m] = Weight(u, m) + Height(bh2, u.child[r][m]) + IF m = As(k, x, sp) /\ r = ss THEN 1 ELSE 0
  <2>1. PICK a \in K : As(k, x, a) = m
    BY <1>1
  <2>2. bh[a] = Weight(t, a) + Height(bh, t.child[r][a]) + IF a = sp /\ r = ss THEN 1 ELSE 0
    BY DEF Balanced, Even
  <2>3. bh2[m] = bh[a] /\ Weight(u, m) = Weight(t, a)
    BY <1>2, <1>5, <2>1 DEF Weight
  <2>4. Height(bh2, u.child[r][m]) = Height(bh, t.child[r][a])
    BY <1>2, <1>3, <1>6, <2>1
  <2>5. m = As(k, x, sp) <=> a = sp
    BY <1>1, <2>1
  <2> QED BY <2>2, <2>3, <2>4, <2>5
<1>8. Balanced(u, J, bh2, As(k, x, sp), ss)
  BY <1>5, <1>7 DEF Balanced, Even
<1> QED BY <1>8

\* With a node in the place of another, in its color, no red is below a red.
LEMMA RenameApart ==
  ASSUME NEW t, NEW u, NEW K, NEW k, NEW x, RenameIn(t, u, K, k, x),
         NEW a \in K \cup {Nil}, NEW b \in K \cup {Nil}, RedsApart(t, K, a, b)
  PROVE  RedsApart(u, (K \ {k}) \cup {x}, As(k, x, a), As(k, x, b))
<1> DEFINE J == (K \ {k}) \cup {x}
<1>1. /\ Nil \notin K /\ As(k, x, Nil) = Nil /\ Nil \notin J
      /\ \A m \in K \cup {Nil} : As(k, x, m) \in J \cup {Nil} /\ As(x, k, As(k, x, m)) = m
      /\ \A m \in J : As(x, k, m) \in K /\ As(k, x, As(x, k, m)) = m
  BY AsIs
<1>2. /\ \A m \in K : u.parent[As(k, x, m)] = As(k, x, t.parent[m])
      /\ \A m \in K : u.color[As(k, x, m)] = t.color[m]
      /\ u.root = As(k, x, t.root)
  BY DEF RenameIn, Renamed
<1>3. t.root \in K \cup {Nil} /\ \A m \in K : t.parent[m] \in K \cup {Nil}
  BY ChildrenAre DEF RenameIn
<1>4. \A m \in K \cup {Nil} : IsRed(u, As(k, x, m)) => IsRed(t, m)
  BY <1>1, <1>2 DEF IsRed
<1>5. IsRed(u, u.root) => u.root = As(k, x, a)
  BY <1>2, <1>3, <1>4 DEF RedsApart
<1>6. ASSUME NEW m \in J, IsRed(u, m), IsRed(u, u.parent[m])
      PROVE  m = As(k, x, a) \/ u.parent[m] = As(k, x, b)
  <2>1. PICK y \in K : As(k, x, y) = m
    BY <1>1
  <2>2. PICK z \in K \cup {Nil} : z = t.parent[y]
    BY <1>3
  <2>3. u.parent[m] = As(k, x, z)
    BY <1>2, <2>1, <2>2
  <2>4. IsRed(t, y) /\ IsRed(t, z)
    BY <1>4, <1>6, <2>1, <2>3
  <2>5. y = a \/ z = b
    BY <2>2, <2>4 DEF RedsApart
  <2> QED BY <2>1, <2>3, <2>5
<1> QED BY <1>5, <1>6 DEF RedsApart

\* So a node may be renamed in the middle of an erase.
LEMMA RenameErases ==
  ASSUME NEW t, NEW u, NEW K, NEW k, NEW x, RenameIn(t, u, K, k, x),
         \E sub : Ordered(u, (K \ {k}) \cup {x}, sub)
  PROVE  /\ \A n, p : Erasing(t, K, n, p) => Erasing(u, (K \ {k}) \cup {x}, As(k, x, n), As(k, x, p))
         /\ Resting(t, K) => Resting(u, (K \ {k}) \cup {x})
<1> DEFINE J == (K \ {k}) \cup {x}
<1>1. /\ Nil \notin K /\ As(k, x, Nil) = Nil /\ Nil \notin J
      /\ \A m \in K : As(k, x, m) \in J
      /\ \A m \in K \cup {Nil} : As(k, x, m) \in J \cup {Nil}
      /\ \A a, b \in K \cup {Nil} : As(k, x, a) = As(k, x, b) => a = b
  BY AsIs
<1>2. /\ \A m \in K, r \in Sides : u.child[r][As(k, x, m)] = As(k, x, t.child[r][m])
      /\ u.root = As(k, x, t.root)
  BY DEF RenameIn, Renamed
<1>3. /\ t.root \in K \cup {Nil}
      /\ \A m \in K, r \in Sides : t.child[r][m] \in K \cup {Nil}
  BY ChildrenAre DEF RenameIn
<1>4. Pointers(u, J)
  BY RenamePointers
<1>5. ASSUME NEW n, NEW p, Erasing(t, K, n, p) PROVE Erasing(u, J, As(k, x, n), As(k, x, p))
  <2>1. n \in K \cup {Nil} /\ p \in K \cup {Nil} /\ RedsApart(t, K, n, n)
    BY <1>5 DEF Erasing
  <2>2. RedsApart(u, J, As(k, x, n), As(k, x, n))
    BY <2>1, RenameApart
  <2>3. n = t.root <=> As(k, x, n) = u.root
    BY <1>1, <1>2, <1>3, <2>1
  <2>4. CASE n = t.root
    <3>1. PICK bh : Balanced(t, K, bh, Nil, "left")
      BY <1>5, <2>4 DEF Erasing
    <3>2. \E bh2 : Balanced(u, J, bh2, As(k, x, Nil), "left")
      BY <3>1, RenameBalances
    <3> QED BY <1>1, <1>4, <2>1, <2>2, <2>3, <2>4, <3>2 DEF Erasing
  <2>5. CASE n # t.root
    <3>1. /\ p \in K /\ t.child[SideOf(t, n, p)][p] = n
          /\ \E bh : Balanced(t, K, bh, p, SideOf(t, n, p))
      BY <1>5, <2>5 DEF Erasing
    <3>2. SideOf(u, As(k, x, n), As(k, x, p)) = SideOf(t, n, p)
      <4>1. u.child["left"][As(k, x, p)] = As(k, x, t.child["left"][p]) /\ t.child["left"][p] \in K \cup {Nil}
        BY <1>2, <1>3, <3>1 DEF Sides
      <4>2. u.child["left"][As(k, x, p)] = As(k, x, n) <=> t.child["left"][p] = n
        BY <1>1, <2>1, <4>1
      <4> QED BY <4>2 DEF SideOf
    <3>3. SideOf(t, n, p) \in Sides
      BY DEF SideOf, Sides
    <3>4. As(k, x, p) \in J /\ u.child[SideOf(t, n, p)][As(k, x, p)] = As(k, x, n)
      BY <1>1, <1>2, <3>1, <3>3
    <3>5. \E bh2 : Balanced(u, J, bh2, As(k, x, p), SideOf(t, n, p))
      BY <3>1, RenameBalances
    <3> QED BY <1>1, <1>4, <2>1, <2>2, <2>3, <2>5, <3>2, <3>4, <3>5 DEF Erasing
  <2> QED BY <2>4, <2>5
<1>6. ASSUME Resting(t, K) PROVE Resting(u, J)
  <2>1. RedsApart(t, K, Nil, Nil)
    BY <1>6 DEF Resting
  <2>2. RedsApart(u, J, Nil, Nil)
    BY <1>1, <2>1, RenameApart
  <2>3. PICK bh : Balanced(t, K, bh, Nil, "left")
    BY <1>6 DEF Resting
  <2>4. \E bh2 : Balanced(u, J, bh2, As(k, x, Nil), "left")
    BY <2>3, RenameBalances
  <2> QED BY <1>1, <1>4, <2>2, <2>4 DEF Resting
<1> QED BY <1>5, <1>6

----------------------------------------------------------------------------
\* The last node of a walk to one side.

\* e is the last node on side s of what is at and below n.
Utmost(t, sub, s, n, e) ==
  e \in sub[n] /\ t.child[s][e] = Nil /\ \A m \in sub[n] : m # e => Before(s, e, m)

\* The last node to one side is that of the child there, if there is one.
LEMMA UtmostStep ==
  ASSUME NEW t, NEW K, NEW sub, Shape(t, K, sub), NEW s \in Sides, NEW n \in K
  PROVE  IF t.child[s][n] = Nil
         THEN \A e : Utmost(t, sub, s, n, e) <=> e = n
         ELSE \A e : Utmost(t, sub, s, n, e) <=> Utmost(t, sub, s, t.child[s][n], e)
<1>1. /\ sub \in [K -> SUBSET K] /\ Nil \notin K /\ K \subseteq Nat
      /\ \A r \in Sides : t.child[r][n] \in K \cup {Nil}
      /\ n \in sub[n]
      /\ \A r \in Sides : \A x \in Under(sub, t.child[r][n]) : Before(r, x, n)
      /\ \A x : x \in sub[n] <=> x = n \/ x \in Under(sub, t.child[s][n]) \/ x \in Under(sub, t.child[Opposite(s)][n])
  BY ChildrenAre, NilIsNoKey, SidesAre DEF Shape, Ordered, Sides, Opposite
<1>2. \A x \in Under(sub, t.child[Opposite(s)][n]) : Before(s, n, x) /\ x \in Nat
  <2> TAKE x \in Under(sub, t.child[Opposite(s)][n])
  <2>1. Before(Opposite(s), x, n)
    BY <1>1, SidesAre
  <2>2. x \in sub[n]
    BY <1>1
  <2> QED BY <1>1, <2>1, <2>2 DEF Before, Opposite, Sides
<1>3. \A x \in Under(sub, t.child[s][n]) : Before(s, x, n) /\ x \in Nat
  BY <1>1
<1>4. CASE t.child[s][n] = Nil
  <2>1. Utmost(t, sub, s, n, n)
    BY <1>1, <1>2, <1>4 DEF Utmost, Under
  <2>2. ASSUME NEW e, Utmost(t, sub, s, n, e), e # n PROVE FALSE
    <3>1. e \in Under(sub, t.child[Opposite(s)][n]) /\ Before(s, e, n)
      BY <1>1, <1>4, <2>2 DEF Utmost, Under
    <3>2. Before(s, n, e) /\ e \in Nat /\ n \in Nat
      BY <1>1, <1>2, <3>1
    <3> QED BY <3>1, <3>2 DEF Before
  <2> QED BY <1>4, <2>1, <2>2
<1>5. CASE t.child[s][n] # Nil
  <2>1. Under(sub, t.child[s][n]) = sub[t.child[s][n]]
    BY <1>5 DEF Under
  <2>2. ASSUME NEW e, Utmost(t, sub, s, n, e) PROVE Utmost(t, sub, s, t.child[s][n], e)
    <3>1. e # n
      BY <1>5, <2>2 DEF Utmost
    <3>2. Before(s, e, n) /\ e \in sub[n] /\ e \in Nat /\ n \in Nat
      BY <1>1, <2>2, <3>1 DEF Utmost
    <3>3. e \notin Under(sub, t.child[Opposite(s)][n])
      <4> SUFFICES ASSUME e \in Under(sub, t.child[Opposite(s)][n]) PROVE FALSE
        OBVIOUS
      <4>1. Before(s, n, e)
        BY <1>2
      <4> QED BY <3>2, <4>1 DEF Before
    <3>4. e \in sub[t.child[s][n]]
      BY <1>1, <2>1, <3>1, <3>2, <3>3
    <3>5. \A m \in sub[t.child[s][n]] : m \in sub[n]
      BY <1>1, <2>1
    <3> QED BY <2>2, <3>4, <3>5 DEF Utmost
  <2>3. ASSUME NEW e, Utmost(t, sub, s, t.child[s][n], e) PROVE Utmost(t, sub, s, n, e)
    <3>1. e \in sub[t.child[s][n]] /\ e \in sub[n] /\ Before(s, e, n) /\ e \in Nat /\ n \in Nat
      BY <1>1, <1>3, <2>1, <2>3 DEF Utmost
    <3>2. ASSUME NEW m \in sub[n], m # e PROVE Before(s, e, m)
      <4>1. CASE m = n
        BY <3>1, <4>1
      <4>2. CASE m \in sub[t.child[s][n]]
        BY <2>3, <3>2, <4>2 DEF Utmost
      <4>3. CASE m \in Under(sub, t.child[Opposite(s)][n])
        <5>1. Before(s, n, m) /\ m \in Nat
          BY <1>2, <4>3
        <5> QED BY <3>1, <5>1 DEF Before
      <4> QED BY <1>1, <2>1, <4>1, <4>2, <4>3
    <3> QED BY <2>3, <3>1, <3>2 DEF Utmost
  <2> QED BY <1>5, <2>2, <2>3
<1> QED BY <1>4, <1>5

\* The loops of cceph_rb_first, cceph_rb_last and of the search for a successor
\* end at the last node to their side.
LEMMA OutermostIs ==
  ASSUME NEW t, NEW K, NEW sub, Shape(t, K, sub), NEW s \in Sides, NEW n \in K
  PROVE  Utmost(t, sub, s, n, Outermost(t, n, s)) /\ Outermost(t, n, s) \in K
<1>1. /\ Nil \notin K /\ K \subseteq Keys
      /\ \A m \in K : t.child[s][m] \in K \cup {Nil}
      /\ \A m \in Keys \ K : t.child[s][m] = Nil
  BY ChildrenAre DEF Shape, Pointers
<1> DEFINE Fixed(g) == g = [m \in Keys |-> IF t.child[s][m] = Nil THEN m ELSE g[t.child[s][m]]]
           f == [m \in Keys |-> IF m \in K THEN CHOOSE e : Utmost(t, sub, s, m, e) ELSE m]
           From == CHOOSE g : Fixed(g)
<1>2. Outermost(t, n, s) = From[n]
  BY DEF Outermost
<1>3. Fixed(f)
  <2>1. ASSUME NEW m \in Keys PROVE f[m] = IF t.child[s][m] = Nil THEN m ELSE f[t.child[s][m]]
    <3>1. CASE m \notin K
      BY <1>1, <3>1
    <3>2. CASE m \in K /\ t.child[s][m] = Nil
      <4>1. \A e : Utmost(t, sub, s, m, e) <=> e = m
        BY <3>2, UtmostStep
      <4>2. (CHOOSE e : Utmost(t, sub, s, m, e)) = m
        BY <4>1
      <4> QED BY <3>2, <4>2
    <3>3. CASE m \in K /\ t.child[s][m] # Nil
      <4>1. \A e : Utmost(t, sub, s, m, e) <=> Utmost(t, sub, s, t.child[s][m], e)
        BY <3>3, UtmostStep
      <4>2. (CHOOSE e : Utmost(t, sub, s, m, e)) = (CHOOSE e : Utmost(t, sub, s, t.child[s][m], e))
        BY <4>1
      <4>3. t.child[s][m] \in K /\ t.child[s][m] \in Keys
        BY <1>1, <3>3
      <4>4. f[m] = CHOOSE e : Utmost(t, sub, s, m, e)
        BY <3>3
      <4>5. f[t.child[s][m]] = CHOOSE e : Utmost(t, sub, s, t.child[s][m], e)
        BY <4>3
      <4> HIDE DEF f
      <4>6. f[m] = f[t.child[s][m]]
        BY <4>2, <4>4, <4>5
      <4> QED BY <3>3, <4>6
    <3> QED BY <3>1, <3>2, <3>3
  <2>2. f = [m \in Keys |-> f[m]]
    OBVIOUS
  <2> HIDE DEF f
  <2> QED BY <2>1, <2>2
<1>4. Fixed(From)
  BY <1>3
<1> HIDE DEF From
<1>5. \A m \in Keys : From[m] = IF t.child[s][m] = Nil THEN m ELSE From[t.child[s][m]]
  BY <1>4
<1> HIDE DEF Fixed
<1>6. \A m \in K : Utmost(t, sub, s, m, From[m])
  <2> DEFINE bad == {m \in K : ~Utmost(t, sub, s, m, From[m])}
  <2> SUFFICES ASSUME bad # {} PROVE FALSE
    OBVIOUS
  <2>1. PICK m \in bad : \A r \in Sides : t.child[r][m] \notin bad
    <3>1. bad \in SUBSET K
      OBVIOUS
    <3> HIDE DEF bad
    <3> QED BY <3>1, Lowest
  <2>2. CASE t.child[s][m] = Nil
    <3>1. From[m] = m
      BY <1>1, <1>5, <2>2
    <3>2. Utmost(t, sub, s, m, m)
      BY <2>2, UtmostStep
    <3> QED BY <3>1, <3>2
  <2>3. CASE t.child[s][m] # Nil
    <3>1. t.child[s][m] \in K
      BY <1>1, <2>3
    <3>2. Utmost(t, sub, s, t.child[s][m], From[t.child[s][m]])
      BY <2>1, <3>1
    <3>3. From[m] = From[t.child[s][m]]
      BY <1>1, <1>5, <2>3
    <3>4. Utmost(t, sub, s, m, From[t.child[s][m]])
      BY <2>3, <3>2, UtmostStep
    <3> QED BY <3>3, <3>4
  <2> QED BY <2>2, <2>3
<1>7. sub \in [K -> SUBSET K]
  BY DEF Shape, Ordered
<1> QED BY <1>2, <1>6, <1>7 DEF Utmost

----------------------------------------------------------------------------
\* Taking out a node with two children.

\* Child d of the tree t became the child of n on side s.
AdoptedIs(w, u, s, n, d) ==
  /\ u \in Trees
  /\ \A r \in Sides, m \in Keys : u.child[r][m] = IF m = n /\ r = s THEN d ELSE w.child[r][m]
  /\ \A m \in Keys : u.parent[m] = (IF m = d THEN n ELSE w.parent[m]) /\ u.color[m] = w.color[m]
  /\ u.root = w.root

\* The child of a node, and its parent pointer, given to another node.
LEMMA Adopting ==
  ASSUME NEW w \in Trees, NEW t \in Trees, NEW s \in Sides, NEW old \in Keys, NEW new \in Keys
  PROVE  /\ AdoptedIs(w, Adopted(w, t, s, old, new), s, new, t.child[s][old])
         /\ Adopted(w, t, s, old, new) \in Trees
<1> DEFINE w1 == SetChild(w, s, new, t.child[s][old])
           u == SetParent(w1, t.child[s][old], new)
<1>1. t.child[s][old] \in Keys \cup {Nil}
  BY DEF Trees
<1>2. ChildIsSet(w, w1, s, new, t.child[s][old]) /\ w1 \in Trees
  BY <1>1, ChildSet
<1> HIDE DEF w1
<1>3. ParentIsSet(w1, u, t.child[s][old], new) /\ u \in Trees
  BY <1>1, <1>2, ParentSet
<1> HIDE DEF u
<1>4. AdoptedIs(w, u, s, new, t.child[s][old])
  BY <1>2, <1>3 DEF AdoptedIs, ChildIsSet, ParentIsSet
<1> QED BY <1>3, <1>4 DEF u, w1, Adopted

\* What EraseInner makes of the tree: first x is put below the parent of k, and
\* what was above and right of it below others, then it gets the rest of k.
Carved(t, k, x) ==
  LET c  == t.child["right"][x]
      p  == t.parent[x]
      t1 == Redirected(t, k, x)
  IN  IF p = k THEN t1
      ELSE Adopted(SetChild(SetParent(t1, c, p), "left", p, c), t, "right", k, x)

\* w after the successor x has got the place of k.
Succeeded(t, w, k, x) ==
  Cleared(Adopted(Painted(SetParent(w, x, t.parent[k]), x, t.color[k]), t, "left", k, x), k)

\* What the stores that take the successor x out of its place leave in w.
CarvedIs(t, w, k, x) ==
  LET c == t.child["right"][x]
      p == t.parent[x]
      g == t.parent[k]
      d == t.child["right"][k]
  IN  /\ w \in Trees
      /\ \A r \in Sides, m \in Keys :
           w.child[r][m] = IF p # k /\ m = x /\ r = "right" THEN d
                           ELSE IF p # k /\ m = p /\ r = "left" THEN c
                           ELSE IF m = g /\ r = SideOf(t, k, g) THEN x ELSE t.child[r][m]
      /\ \A m \in Keys : w.parent[m] = IF p # k /\ m = d THEN x
                                       ELSE IF p # k /\ m = c THEN p ELSE t.parent[m]
      /\ \A m \in Keys : w.color[m] = t.color[m]
      /\ w.root = IF g = Nil THEN x ELSE t.root

\* What the stores that put x in the place of k leave in u.
SucceededIs(t, w, u, k, x) ==
  LET b == t.child["left"][k]
  IN  /\ u \in Trees
      /\ \A r \in Sides, m \in Keys :
           u.child[r][m] = IF m = k THEN Nil ELSE IF m = x /\ r = "left" THEN b ELSE w.child[r][m]
      /\ \A m \in Keys : u.parent[m] = IF m = k THEN Nil ELSE IF m = b THEN x
                                       ELSE IF m = x THEN t.parent[k] ELSE w.parent[m]
      /\ \A m \in Keys : u.color[m] = IF m = k THEN "red" ELSE IF m = x THEN t.color[k] ELSE w.color[m]
      /\ u.root = w.root

\* What the stores of the first half of the inner branch of cceph_rb_erase come to.
LEMMA CarvedAs ==
  ASSUME NEW t \in Trees, NEW k \in Keys, NEW x \in Keys, t.parent[x] # Nil
  PROVE  CarvedIs(t, Carved(t, k, x), k, x) /\ Carved(t, k, x) \in Trees
<1> DEFINE c == t.child["right"][x]
           p == t.parent[x]
           g == t.parent[k]
           d == t.child["right"][k]
           t1 == Redirected(t, k, x)
           t2 == SetParent(t1, c, p)
           t3 == SetChild(t2, "left", p, c)
           w == Adopted(t3, t, "right", k, x)
<1>1. /\ c \in Keys \cup {Nil} /\ p \in Keys /\ g \in Keys \cup {Nil} /\ d \in Keys \cup {Nil}
      /\ "left" \in Sides /\ "right" \in Sides /\ Nil \notin Keys
  BY NilIsNoKey DEF Trees, Sides
<1>2. Replaced(t, t1, k, x) /\ t1 \in Trees
  BY RedirectIs
<1> HIDE DEF t1
<1>3. CASE p = k
  <2>1. CarvedIs(t, t1, k, x)
    BY <1>1, <1>2, <1>3 DEF Replaced, CarvedIs
  <2> QED BY <1>2, <1>3, <2>1 DEF t1, Carved
<1>4. CASE p # k
  <2>1. ParentIsSet(t1, t2, c, p) /\ t2 \in Trees
    BY <1>1, <1>2, ParentSet
  <2> HIDE DEF t2
  <2>2. ChildIsSet(t2, t3, "left", p, c) /\ t3 \in Trees
    BY <1>1, <2>1, ChildSet
  <2> HIDE DEF t3
  <2>3. AdoptedIs(t3, w, "right", x, d) /\ w \in Trees
    BY <1>1, <2>2, Adopting
  <2> HIDE DEF w
  <2>4. \A r \in Sides, m \in Keys :
           w.child[r][m] = IF m = x /\ r = "right" THEN d
                           ELSE IF m = p /\ r = "left" THEN c
                           ELSE IF m = g /\ r = SideOf(t, k, g) THEN x ELSE t.child[r][m]
    BY <1>2, <2>1, <2>2, <2>3 DEF Replaced, ParentIsSet, ChildIsSet, AdoptedIs
  <2>5. \A m \in Keys : w.parent[m] = IF m = d THEN x ELSE IF m = c THEN p ELSE t.parent[m]
    BY <1>2, <2>1, <2>2, <2>3 DEF Replaced, ParentIsSet, ChildIsSet, AdoptedIs
  <2>6. (\A m \in Keys : w.color[m] = t.color[m]) /\ w.root = IF g = Nil THEN x ELSE t.root
    BY <1>2, <2>1, <2>2, <2>3 DEF Replaced, ParentIsSet, ChildIsSet, AdoptedIs
  <2>7. CarvedIs(t, w, k, x)
    BY <1>4, <2>3, <2>4, <2>5, <2>6 DEF CarvedIs
  <2> QED BY <1>4, <2>3, <2>7 DEF w, t3, t2, t1, Carved
<1> QED BY <1>3, <1>4

\* What the stores of its second half come to.
LEMMA SucceededAs ==
  ASSUME NEW t \in Trees, NEW w \in Trees, NEW k \in Keys, NEW x \in Keys, x # k
  PROVE  SucceededIs(t, w, Succeeded(t, w, k, x), k, x)
<1> DEFINE b == t.child["left"][k]
           g == t.parent[k]
           t1 == SetParent(w, x, g)
           t2 == Painted(t1, x, t.color[k])
           t3 == Adopted(t2, t, "left", k, x)
           u == Cleared(t3, k)
<1>1. /\ g \in Keys \cup {Nil} /\ t.color[k] \in Colors /\ "left" \in Sides
  BY DEF Trees, Sides
<1>2. ParentIsSet(w, t1, x, g) /\ t1 \in Trees
  BY <1>1, ParentSet
<1> HIDE DEF t1
<1>3. ColorIsSet(t1, t2, x, t.color[k]) /\ t2 \in Trees
  BY <1>1, <1>2, ColorSet
<1> HIDE DEF t2
<1>4. AdoptedIs(t2, t3, "left", x, b) /\ t3 \in Trees
  BY <1>1, <1>3, Adopting
<1> HIDE DEF t3
<1>5. Wiped(t3, u, k)
  BY <1>4, ClearedIs
<1> HIDE DEF u
<1>6. \A r \in Sides, m \in Keys :
        u.child[r][m] = IF m = k THEN Nil ELSE IF m = x /\ r = "left" THEN b ELSE w.child[r][m]
  BY <1>2, <1>3, <1>4, <1>5 DEF ParentIsSet, ColorIsSet, AdoptedIs, Wiped
<1>7. \A m \in Keys : u.parent[m] = IF m = k THEN Nil ELSE IF m = b THEN x
                                    ELSE IF m = x THEN g ELSE w.parent[m]
  BY <1>2, <1>3, <1>4, <1>5 DEF ParentIsSet, ColorIsSet, AdoptedIs, Wiped
<1>8. \A m \in Keys : u.color[m] = IF m = k THEN "red" ELSE IF m = x THEN t.color[k] ELSE w.color[m]
  BY <1>2, <1>3, <1>4, <1>5 DEF ParentIsSet, ColorIsSet, AdoptedIs, Wiped
<1>9. u \in Trees /\ u.root = w.root
  BY <1>2, <1>3, <1>4, <1>5 DEF ParentIsSet, ColorIsSet, AdoptedIs, Wiped
<1>10. SucceededIs(t, w, u, k, x)
  BY <1>6, <1>7, <1>8, <1>9 DEF SucceededIs
<1> QED BY <1>10 DEF u, t3, t2, t1, Succeeded

\* x is the successor of k, a node with two children.
Successor(t, K, sub, k, x) ==
  /\ Shape(t, K, sub) /\ k \in K
  /\ \A s \in Sides : t.child[s][k] # Nil
  /\ x = Outermost(t, t.child["right"][k], "left")

\* The successor of a node with two children: the least on the right of it,
\* without a child on the left, and where it hangs.
LEMMA SuccessorIs ==
  ASSUME NEW t, NEW K, NEW sub, NEW k, NEW x, Successor(t, K, sub, k, x)
  PROVE  /\ x \in K /\ x # k /\ t.child["left"][x] = Nil
         /\ k < x /\ \A m \in sub[t.child["right"][k]] : m # x => x < m
         /\ t.child["left"][k] \in K /\ t.child["right"][k] \in K
         /\ x \in sub[t.child["right"][k]]
         /\ t.parent[x] \in K /\ t.parent[x] # x
         /\ t.parent[x] = k => t.child["right"][k] = x
         /\ t.parent[x] # k => /\ t.parent[x] \in sub[t.child["right"][k]]
                               /\ t.child["left"][t.parent[x]] = x
                               /\ t.child["right"][k] # x
         /\ t.parent[k] \in K \cup {Nil}
         /\ t.parent[k] # Nil => t.parent[k] # k /\ t.parent[k] # x /\ t.parent[k] # t.parent[x]
         /\ t.child["right"][x] # k
<1> DEFINE d == t.child["right"][k]
           p == t.parent[x]
<1>1. Shape(t, K, sub) /\ k \in K /\ t.child["left"][k] # Nil /\ d # Nil /\ x = Outermost(t, d, "left")
  BY DEF Successor, Sides
<1>2. /\ sub \in [K -> SUBSET K] /\ Nil \notin K /\ K \subseteq Nat /\ "left" \in Sides /\ "right" \in Sides
      /\ \A m \in K, r \in Sides : t.child[r][m] \in K \cup {Nil}
  BY <1>1, ChildrenAre, NilIsNoKey DEF Shape, Ordered, Sides
<1>3. /\ d \in K /\ t.parent[d] = k /\ d \in sub[d] /\ sub[d] \subseteq sub[k] /\ k \notin sub[d]
      /\ \A y \in sub[d] : Before("right", y, k)
  BY <1>1, <1>2, ChildIs
<1>4. Utmost(t, sub, "left", d, x) /\ x \in K
  BY <1>1, <1>2, <1>3, OutermostIs
<1>5. x \in sub[d] /\ t.child["left"][x] = Nil /\ \A m \in sub[d] : m # x => Before("left", x, m)
  BY <1>4 DEF Utmost
<1>6. x # k /\ Before("right", x, k)
  BY <1>3, <1>5
<1>7. t.parent[x] # Nil
  <2>1. x = d \/ t.parent[x] \in K
    BY <1>1, <1>3, <1>5, Nested
  <2> QED BY <1>1, <1>2, <1>3, <2>1
<1>8. /\ p \in K /\ p # x /\ SideOf(t, x, p) \in Sides /\ t.child[SideOf(t, x, p)][p] = x
  <2>1. Pointers(t, K) /\ Ordered(t, K, sub)
    BY <1>1 DEF Shape
  <2> QED BY <1>4, <1>7, <2>1, ParentOf
<1>9. PICK r \in Sides : t.child[r][p] = x
  BY <1>8
<1>10. \A y \in K, q \in Sides, z \in K : t.child[q][y] = z => Before(q, z, y)
  BY <1>1, <1>2, ChildIs
<1>21. x \in Nat /\ k \in Nat /\ p \in Nat
  BY <1>1, <1>2, <1>4, <1>8
<1>11. Before(r, x, p)
  BY <1>4, <1>8, <1>9, <1>10
<1>12. ASSUME p = k PROVE d = x
  <2>1. r = "right"
    BY <1>6, <1>11, <1>12, <1>21 DEF Before, Sides
  <2> QED BY <1>9, <1>12, <2>1
<1>13. ASSUME p # k PROVE p \in sub[d] /\ t.child["left"][p] = x /\ d # x
  <2>1. d # x
    BY <1>3, <1>13
  <2>2. p \in sub[d]
    BY <1>1, <1>3, <1>5, <2>1, Nested
  <2>3. Before("left", x, p)
    BY <1>5, <1>8, <2>2
  <2>4. r = "left"
    BY <1>11, <1>21, <2>3 DEF Before, Sides
  <2> QED BY <1>9, <2>1, <2>2, <2>4
<1>14. t.parent[k] \in K \cup {Nil}
  BY <1>1 DEF Shape, Pointers
<1>15. ASSUME t.parent[k] # Nil PROVE t.parent[k] # k /\ t.parent[k] \notin sub[k]
  <2>1. Pointers(t, K) /\ Ordered(t, K, sub)
    BY <1>1 DEF Shape
  <2> QED BY <1>1, <1>15, <2>1, ParentOf
<1>16. x \in sub[k] /\ (p = k \/ p \in sub[k])
  BY <1>3, <1>5, <1>13
<1>17. k < x /\ \A m \in sub[d] : m # x => x < m
  BY <1>5, <1>6 DEF Before
<1>18. t.child["right"][x] # k
  <2> SUFFICES ASSUME t.child["right"][x] = k PROVE FALSE
    OBVIOUS
  <2>1. Before("right", k, x)
    BY <1>1, <1>2, <1>4, <1>10
  <2> QED BY <1>1, <1>2, <1>4, <1>6, <2>1 DEF Before
<1>19. t.child["left"][k] \in K
  BY <1>1, <1>2
<1>20. t.parent[k] # Nil => t.parent[k] # k /\ t.parent[k] # x /\ t.parent[k] # p
  BY <1>15, <1>16
<1> QED BY <1>3, <1>4, <1>5, <1>6, <1>8, <1>12, <1>13, <1>14, <1>17, <1>18, <1>19, <1>20

\* The stores of the inner branch amount to taking out the successor, which has
\* one child at most, and renaming the erased node to it.
LEMMA SuccessorRenames ==
  ASSUME NEW t, NEW K, NEW sub, NEW k, NEW x, Successor(t, K, sub, k, x),
         NEW v, RemoveIn(t, v, K, sub, x, t.child["right"][x], "right"),
         NEW w, CarvedIs(t, w, k, x), NEW u, SucceededIs(t, w, u, k, x)
  PROVE  Renamed(v, u, K \ {x}, k, x)
<1>1. /\ x \in K /\ x # k /\ t.child["left"][x] = Nil /\ k < x
      /\ t.child["left"][k] \in K /\ t.child["right"][k] \in K
      /\ t.parent[x] \in K /\ t.parent[x] # x
      /\ t.parent[x] = k => t.child["right"][k] = x
      /\ t.parent[x] # k => t.child["left"][t.parent[x]] = x /\ t.child["right"][k] # x
      /\ t.parent[k] \in K \cup {Nil}
      /\ t.parent[k] # Nil => t.parent[k] # k /\ t.parent[k] # x /\ t.parent[k] # t.parent[x]
      /\ t.child["right"][x] # k
  BY SuccessorIs
<1>2. Shape(t, K, sub) /\ k \in K
  BY DEF Successor
<1>3. Pointers(t, K) /\ Ordered(t, K, sub)
  BY <1>2 DEF Shape
<1>19. Before("left", t.child["left"][k], k)
  <2>1. t.child["left"][k] # Nil /\ "left" \in Sides
    BY <1>1, <1>3, ChildrenAre DEF Sides
  <2>2. /\ t.child["left"][k] \in sub[t.child["left"][k]]
        /\ \A y \in sub[t.child["left"][k]] : Before("left", y, k)
    BY <1>2, <2>1, ChildIs
  <2> QED BY <2>2
<1> PICK c : c = t.child["right"][x]
  OBVIOUS
<1> PICK p : p = t.parent[x]
  OBVIOUS
<1> PICK g : g = t.parent[k]
  OBVIOUS
<1> PICK b : b = t.child["left"][k]
  OBVIOUS
<1> PICK d : d = t.child["right"][k]
  OBVIOUS
<1>4. /\ Nil \notin K /\ K \subseteq Keys /\ K \subseteq Nat /\ Nil \notin Keys
      /\ \A m \in K, r \in Sides : t.child[r][m] \in K \cup {Nil}
      /\ \A m \in K, r \in Sides : t.child[r][m] # Nil => t.parent[t.child[r][m]] = m /\ t.child[r][m] # m
      /\ \A m \in Keys \ K, r \in Sides : t.child[r][m] = Nil
      /\ \A m \in K : t.parent[m] \in K \cup {Nil}
      /\ t.parent[k] = Nil <=> t.root = k
      /\ \A m \in K : t.parent[m] # Nil => \E r \in Sides : t.child[r][t.parent[m]] = m
      /\ "left" \in Sides /\ "right" \in Sides /\ \A r \in Sides : r = "left" \/ r = "right"
  BY <1>2, <1>3, ChildIs, ChildrenAre, NilIsNoKey DEF Pointers, Sides
<1>5. \A m \in K, r \in Sides : t.child[r][m] # Nil => SideOf(t, t.child[r][m], m) = r
  BY <1>3, OneSide
<1>6. g # Nil => SideOf(t, k, g) \in Sides /\ t.child[SideOf(t, k, g)][g] = k
  BY <1>2, <1>3, ParentOf
<1>7. b # x /\ b # k /\ d # k /\ b # Nil /\ d # Nil /\ b \in K /\ d \in K /\ t.parent[b] = k /\ t.parent[d] = k
  <2>1. /\ b # k /\ d # k /\ b # Nil /\ d # Nil /\ b \in K /\ d \in K /\ t.parent[b] = k /\ t.parent[d] = k
    BY <1>1, <1>2, <1>4
  <2>2. b # x
    <3> SUFFICES ASSUME b = x PROVE FALSE
      OBVIOUS
    <3>2. x < k /\ x \in Nat /\ k \in Nat
      BY <1>1, <1>2, <1>4, <1>19 DEF Before
    <3> QED BY <1>1, <3>2
  <2> QED BY <2>1, <2>2
<1>8. c # k /\ c # x /\ c \in K \cup {Nil} /\ (c # Nil => t.parent[c] = x) /\ c # b /\ c # d
  <2>1. c \in K \cup {Nil} /\ (c # Nil => t.parent[c] = x /\ c # x) /\ c # k
    BY <1>1, <1>4
  <2> QED BY <1>1, <1>4, <1>7, <2>1
<1>9. /\ \A r \in Sides, m \in K \ {x} : v.child[r][m] = IF t.child[r][m] = x THEN c ELSE t.child[r][m]
      /\ \A m \in K \ {x} : v.parent[m] = (IF m = c THEN p ELSE t.parent[m]) /\ v.color[m] = t.color[m]
      /\ v.root = IF p = Nil THEN c ELSE t.root
  BY RemoveNear
<1>10. \A r \in Sides, m \in Keys :
         u.child[r][m] = IF m = k THEN Nil
                         ELSE IF m = x /\ r = "left" THEN b
                         ELSE IF p # k /\ m = x /\ r = "right" THEN d
                         ELSE IF p # k /\ m = p /\ r = "left" THEN c
                         ELSE IF m = g /\ r = SideOf(t, k, g) THEN x ELSE t.child[r][m]
  BY DEF CarvedIs, SucceededIs
<1>11. \A m \in Keys :
         u.parent[m] = IF m = k THEN Nil ELSE IF m = b THEN x ELSE IF m = x THEN g
                       ELSE IF p # k /\ m = d THEN x
                       ELSE IF p # k /\ m = c THEN p ELSE t.parent[m]
  BY DEF CarvedIs, SucceededIs
<1>12. /\ u \in Trees
       /\ \A m \in Keys : u.color[m] = IF m = k THEN "red" ELSE IF m = x THEN t.color[k] ELSE t.color[m]
       /\ u.root = IF g = Nil THEN x ELSE t.root
  BY DEF CarvedIs, SucceededIs
<1>13. /\ p \in K /\ p # x /\ (p = k => d = x) /\ (p # k => t.child["left"][p] = x /\ d # x)
       /\ g \in K \cup {Nil} /\ (g # Nil => g # k /\ g # x /\ g # p) /\ (g = Nil <=> t.root = k)
       /\ t.child["right"][x] = c /\ t.parent[x] = p
       /\ t.child["left"][k] = b /\ t.child["right"][k] = d /\ t.parent[k] = g
  BY <1>1, <1>4
<1>14. ASSUME NEW m \in K \ {x}, NEW r \in Sides
       PROVE  u.child[r][As(k, x, m)] = As(k, x, v.child[r][m])
  <2>1. CASE m = k
    <3>1. As(k, x, m) = x
      BY <2>1 DEF As
    <3>2. CASE r = "left"
      <4>1. u.child[r][x] = b
        BY <1>1, <1>4, <1>10, <3>2
      <4>2. v.child[r][k] = b
        BY <1>1, <1>2, <1>4, <1>7, <1>9, <1>13, <3>2
      <4> QED BY <1>7, <2>1, <3>1, <4>1, <4>2 DEF As
    <3>3. CASE r = "right" /\ p = k
      <4>1. x # g /\ x # p
        BY <1>1, <1>4, <1>13
      <4>2. u.child[r][x] = c
        BY <1>1, <1>4, <1>10, <1>13, <3>3, <4>1
      <4>3. v.child[r][k] = c
        BY <1>1, <1>2, <1>4, <1>9, <1>13, <3>3
      <4> QED BY <1>8, <2>1, <3>1, <4>2, <4>3 DEF As
    <3>4. CASE r = "right" /\ p # k
      <4>1. u.child[r][x] = d
        BY <1>1, <1>4, <1>10, <3>4
      <4>2. v.child[r][k] = d
        BY <1>1, <1>2, <1>9, <1>13, <3>4
      <4> QED BY <1>7, <2>1, <3>1, <4>1, <4>2 DEF As
    <3> QED BY <1>4, <3>2, <3>3, <3>4
  <2>2. CASE m # k
    <3>1. As(k, x, m) = m /\ m \in K /\ m \in Keys /\ m # x
      BY <1>4, <2>2 DEF As
    <3>2. CASE t.child[r][m] = x
      <4>1. m = p
        BY <1>1, <1>4, <1>13, <3>1, <3>2
      <4>2. r = "left"
        <5>1. SideOf(t, x, m) = r
          BY <1>1, <1>4, <1>5, <3>1, <3>2
        <5>2. SideOf(t, x, p) = "left"
          BY <1>13, <2>2, <4>1 DEF SideOf
        <5> QED BY <4>1, <5>1, <5>2
      <4>3. u.child[r][m] = c
        BY <1>10, <2>2, <3>1, <4>1, <4>2
      <4>4. v.child[r][m] = c
        BY <1>9, <3>2
      <4> QED BY <1>8, <3>1, <4>3, <4>4 DEF As
    <3>3. CASE t.child[r][m] = k
      <4>1. m = g /\ r = SideOf(t, k, g)
        <5>1. m = g
          BY <1>2, <1>4, <1>13, <3>1, <3>3
        <5>2. SideOf(t, k, m) = r
          BY <1>2, <1>4, <1>5, <3>1, <3>3
        <5> QED BY <5>1, <5>2
      <4>2. m # p
        BY <1>4, <1>13, <3>1, <4>1
      <4>3. u.child[r][m] = x
        BY <1>10, <2>2, <3>1, <4>1, <4>2
      <4>4. v.child[r][m] = k
        BY <1>1, <1>9, <3>3
      <4> QED BY <3>1, <4>3, <4>4 DEF As
    <3>4. CASE t.child[r][m] # x /\ t.child[r][m] # k
      <4>1. ~(p # k /\ m = p /\ r = "left")
        BY <1>13, <3>4
      <4>2. ~(m = g /\ r = SideOf(t, k, g))
        BY <1>4, <1>6, <3>1, <3>4
      <4>3. u.child[r][m] = t.child[r][m]
        BY <1>10, <2>2, <3>1, <4>1, <4>2
      <4>4. v.child[r][m] = t.child[r][m]
        BY <1>9, <3>4
      <4> QED BY <3>1, <3>4, <4>3, <4>4 DEF As
    <3> QED BY <3>2, <3>3, <3>4
  <2> QED BY <2>1, <2>2
<1>15. ASSUME NEW m \in K \ {x} PROVE u.parent[As(k, x, m)] = As(k, x, v.parent[m])
  <2>1. CASE m = k
    <3>1. As(k, x, m) = x
      BY <2>1 DEF As
    <3>2. u.parent[x] = g
      BY <1>1, <1>4, <1>7, <1>11
    <3>3. v.parent[k] = g
      BY <1>1, <1>2, <1>8, <1>9, <1>13
    <3>4. g # k
      BY <1>2, <1>4, <1>13
    <3> QED BY <2>1, <3>1, <3>2, <3>3, <3>4 DEF As
  <2>2. CASE m # k
    <3>1. As(k, x, m) = m /\ m \in K /\ m \in Keys /\ m # x
      BY <1>4, <2>2 DEF As
    <3>2. CASE m = b \/ m = d
      <4>1. v.parent[m] = k
        BY <1>7, <1>8, <1>9, <3>1, <3>2
      <4>2. u.parent[m] = x
        BY <1>11, <1>13, <2>2, <3>1, <3>2
      <4> QED BY <3>1, <4>1, <4>2 DEF As
    <3>3. CASE m = c
      <4>1. v.parent[m] = p
        BY <1>9, <3>3
      <4>2. CASE p = k
        <5>1. u.parent[m] = x
          <6>1. t.parent[m] = x /\ m # b
            BY <1>4, <1>8, <3>1, <3>3
          <6> QED BY <1>11, <2>2, <3>1, <4>2, <6>1
        <5> QED BY <3>1, <4>1, <4>2, <5>1 DEF As
      <4>3. CASE p # k
        <5>1. u.parent[m] = p
          BY <1>8, <1>11, <2>2, <3>1, <3>3, <4>3
        <5> QED BY <3>1, <4>1, <4>3, <5>1 DEF As
      <4> QED BY <4>2, <4>3
    <3>4. CASE m # b /\ m # d /\ m # c
      <4>1. t.parent[m] # k
        <5> SUFFICES ASSUME t.parent[m] = k PROVE FALSE
          OBVIOUS
        <5>1. PICK r \in Sides : t.child[r][k] = m
          BY <1>2, <1>4, <3>1
        <5> QED BY <1>4, <1>13, <3>4, <5>1
      <4>2. u.parent[m] = t.parent[m]
        BY <1>11, <2>2, <3>1, <3>4
      <4>3. v.parent[m] = t.parent[m]
        BY <1>9, <3>4
      <4> QED BY <3>1, <4>1, <4>2, <4>3 DEF As
    <3> QED BY <3>2, <3>3, <3>4
  <2> QED BY <2>1, <2>2
<1>16. \A m \in K \ {x} : u.color[As(k, x, m)] = v.color[m]
  BY <1>1, <1>4, <1>9, <1>12 DEF As
<1>17. \A m \in Keys \ (((K \ {x}) \ {k}) \cup {x}), r \in Sides : u.child[r][m] = Nil
  <2> TAKE m \in Keys \ (((K \ {x}) \ {k}) \cup {x}), r \in Sides
  <2>1. CASE m = k
    BY <1>10, <2>1
  <2>2. CASE m # k
    <3>1. m \notin K /\ m # x /\ m # p /\ m # g
      BY <1>1, <1>4, <1>13, <2>2
    <3> QED BY <1>4, <1>10, <2>2, <3>1
  <2> QED BY <2>1, <2>2
<1>18. u.root = As(k, x, v.root)
  BY <1>4, <1>9, <1>12, <1>13 DEF As
<1> QED BY <1>12, <1>14, <1>15, <1>16, <1>17, <1>18 DEF Renamed

\* Nothing is out of order when the successor has the place of k.
LEMMA SuccessorFits ==
  ASSUME NEW t, NEW K, NEW sub, NEW k, NEW x, Successor(t, K, sub, k, x),
         NEW v, RemoveIn(t, v, K, sub, x, t.child["right"][x], "right")
  PROVE  \A m \in K \ {x}, r \in Sides :
           \A y \in Under(RemovedSub(K, sub, x), v.child[r][m]) : Before(r, As(k, x, y), As(k, x, m))
<1> DEFINE sub2 == RemovedSub(K, sub, x)
           c == t.child["right"][x]
           d == t.child["right"][k]
<1>1. /\ x \in K /\ x # k /\ k < x /\ \A m \in sub[d] : m # x => x < m
      /\ d \in K /\ x \in sub[d] /\ c # k
  BY SuccessorIs
<1>2. Shape(t, K, sub) /\ k \in K
  BY DEF Successor
<1>3. /\ Nil \notin K /\ K \subseteq Nat /\ sub \in [K -> SUBSET K]
      /\ \A m \in K, r \in Sides : t.child[r][m] \in K \cup {Nil}
      /\ \A m \in K, r \in Sides : \A y \in Under(sub, t.child[r][m]) : Before(r, y, m)
      /\ "left" \in Sides /\ "right" \in Sides /\ \A r \in Sides : r = "left" \/ r = "right"
  BY <1>2, ChildrenAre, NilIsNoKey DEF Shape, Ordered, Sides
<1>4. \A r \in Sides, m \in K \ {x} : v.child[r][m] = IF t.child[r][m] = x THEN c ELSE t.child[r][m]
  BY RemoveNear
<1>5. \A m \in K \ {x} : sub2[m] = sub[m] \ {x}
  BY DEF RemovedSub
<1> HIDE DEF sub2
<1>6. \A y \in Under(sub, c) : y \in sub[x]
  <2>1. CASE c = Nil
    BY <2>1 DEF Under
  <2>2. CASE c # Nil
    <3>1. sub[c] \subseteq sub[x]
      BY <1>1, <1>2, <1>3, <2>2, ChildIs
    <3> QED BY <2>2, <3>1 DEF Under
  <2> QED BY <2>1, <2>2
<1>7. c \in (K \ {x}) \cup {Nil}
  BY RemoveNear
<1>8. \A e \in (K \ {x}) \cup {Nil} : \A y \in Under(sub2, e) : y \in Under(sub, e) /\ y # x /\ y \in K
  BY <1>3, <1>5 DEF Under
<1>9. ASSUME NEW m \in K \ {x}, NEW r \in Sides, NEW y \in Under(sub2, v.child[r][m])
      PROVE  y \in Under(sub, t.child[r][m]) /\ y # x /\ y \in K
  <2>1. CASE t.child[r][m] = x
    <3>1. y \in Under(sub2, c)
      BY <1>4, <1>9, <2>1
    <3>2. y \in sub[x] /\ y # x /\ y \in K
      BY <1>6, <1>7, <1>8, <3>1
    <3>3. x # Nil
      BY <1>1, <1>3
    <3> QED BY <2>1, <3>2, <3>3 DEF Under
  <2>2. CASE t.child[r][m] # x
    <3>1. t.child[r][m] \in (K \ {x}) \cup {Nil} /\ y \in Under(sub2, t.child[r][m])
      BY <1>3, <1>4, <1>9, <2>2
    <3> QED BY <1>8, <3>1
  <2> QED BY <2>1, <2>2
<1>10. ASSUME NEW m \in K \ {x}, NEW r \in Sides, NEW y \in Under(sub2, v.child[r][m])
       PROVE  Before(r, As(k, x, y), As(k, x, m))
  <2>1. y \in Under(sub, t.child[r][m]) /\ y # x /\ y \in K /\ y \in Nat /\ m \in Nat /\ x \in Nat /\ k \in Nat
    BY <1>1, <1>2, <1>3, <1>9
  <2>2. Before(r, y, m)
    BY <1>3, <2>1
  <2>3. CASE m = k
    <3>1. y # k
      BY <2>1, <2>2, <2>3 DEF Before
    <3>2. CASE r = "left"
      BY <1>1, <2>1, <2>2, <2>3, <3>1, <3>2 DEF Before, As
    <3>3. CASE r = "right"
      <4>1. y \in sub[d]
        BY <1>1, <1>3, <2>1, <2>3, <3>3 DEF Under
      <4>2. x < y
        BY <1>1, <2>1, <4>1
      <4> QED BY <2>3, <3>1, <3>3, <4>2 DEF Before, As
    <3> QED BY <1>3, <3>2, <3>3
  <2>4. CASE m # k /\ y = k
    <3>1. t.child[r][m] \in K /\ k \in sub[t.child[r][m]]
      BY <1>3, <2>1, <2>4 DEF Under
    <3>2. x \in sub[k]
      <4>1. d # Nil
        BY <1>1, <1>3
      <4>2. sub[d] \subseteq sub[k]
        BY <1>2, <1>3, <4>1, ChildIs
      <4> QED BY <1>1, <4>2
    <3>3. sub[k] \subseteq sub[t.child[r][m]]
      BY <1>2, <3>1, Nested
    <3>4. x \in Under(sub, t.child[r][m])
      BY <1>3, <3>1, <3>2, <3>3 DEF Under
    <3>5. Before(r, x, m)
      BY <1>3, <3>4
    <3> QED BY <2>4, <3>5 DEF As
  <2>5. CASE m # k /\ y # k
    BY <2>2, <2>5 DEF As
  <2> QED BY <2>3, <2>4, <2>5
<1> QED BY <1>10 DEF sub2

\* So the inner branch leaves what the loop of an erase expects, or a red-black
\* tree when the successor was red.
LEMMA SuccessorErases ==
  ASSUME NEW t, NEW K, NEW sub, NEW k, NEW x, Successor(t, K, sub, k, x), Resting(t, K)
  PROVE  IF t.color[x] = "black"
         THEN Erasing(Succeeded(t, Carved(t, k, x), k, x), K \ {k},
                      t.child["right"][x], IF t.parent[x] = k THEN x ELSE t.parent[x])
         ELSE Resting(Succeeded(t, Carved(t, k, x), k, x), K \ {k})
<1> DEFINE c == t.child["right"][x]
           p == t.parent[x]
           v == Without(t, x, c)
           w == Carved(t, k, x)
           u == Succeeded(t, w, k, x)
           J == K \ {x}
<1>1. x \in K /\ x # k /\ t.child["left"][x] = Nil /\ p \in K /\ c # k
  BY SuccessorIs
<1>2. Shape(t, K, sub) /\ k \in K /\ t \in Trees /\ K \subseteq Keys /\ Nil \notin K
  BY ChildrenAre DEF Successor, Shape, Pointers
<1>3. c \in (Keys \ {x}) \cup {Nil}
  <2>1. c \in K \cup {Nil} /\ (c # Nil => c # x)
    BY <1>1, <1>2, ChildIs, ChildrenAre DEF Shape, Sides
  <2> QED BY <1>1, <1>2, <2>1
<1>4. RemoveIn(t, v, K, sub, x, c, "right")
  <2>1. Removed(t, v, x, c)
    BY <1>1, <1>2, <1>3, RemoveIs
  <2> HIDE DEF v
  <2> QED BY <1>1, <1>2, <2>1 DEF RemoveIn, Opposite, Sides
<1> HIDE DEF v
<1>5. CarvedIs(t, w, k, x) /\ w \in Trees
  BY <1>1, <1>2, CarvedAs
<1> HIDE DEF w
<1>6. SucceededIs(t, w, u, k, x)
  BY <1>1, <1>2, <1>5, SucceededAs
<1> HIDE DEF u
<1>7. Renamed(v, u, J, k, x)
  BY <1>4, <1>5, <1>6, SuccessorRenames
<1>8. Pointers(v, J) /\ Ordered(v, J, RemovedSub(K, sub, x))
  BY <1>4, RemoveKeeps
<1>9. RenameIn(v, u, J, k, x)
  BY <1>1, <1>2, <1>7, <1>8 DEF RenameIn
<1>10. Ordered(u, (J \ {k}) \cup {x}, RenamedSub(J, RemovedSub(K, sub, x), k, x))
  <2>1. \A m \in J, r \in Sides :
           \A y \in Under(RemovedSub(K, sub, x), v.child[r][m]) : Before(r, As(k, x, y), As(k, x, m))
    BY <1>4, SuccessorFits
  <2> QED BY <1>8, <1>9, <2>1, RenameOrder
<1>11. /\ \A n, q : Erasing(v, J, n, q) => Erasing(u, (J \ {k}) \cup {x}, As(k, x, n), As(k, x, q))
       /\ Resting(v, J) => Resting(u, (J \ {k}) \cup {x})
  BY <1>9, <1>10, RenameErases
<1>12. (J \ {k}) \cup {x} = K \ {k}
  BY <1>1, <1>2
<1>13. IF t.color[x] = "black" THEN Erasing(v, J, c, p) ELSE Resting(v, J)
  BY <1>4, RemoveBalances
<1>14. As(k, x, c) = c /\ As(k, x, p) = IF p = k THEN x ELSE p
  BY <1>1 DEF As
<1>15. CASE t.color[x] = "black"
  <2>1. Erasing(u, K \ {k}, As(k, x, c), As(k, x, p))
    BY <1>11, <1>12, <1>13, <1>15
  <2> QED BY <1>14, <1>15, <2>1 DEF u, w
<1>16. CASE t.color[x] # "black"
  <2>1. Resting(u, K \ {k})
    BY <1>11, <1>12, <1>13, <1>16
  <2> QED BY <1>16, <2>1 DEF u, w
<1> QED BY <1>15, <1>16

----------------------------------------------------------------------------
\* The actions.

\* The inductive invariant: a tree at rest has every property, one in the
\* middle of a rebalance has all but at the node the pass is at.
TreeInv ==
  /\ IsFiniteSet(keys)
  /\ pc \in {"idle", "insert", "erase"}
  /\ pc = "idle" => Resting(tree, keys) /\ node = Nil /\ parent = Nil
  /\ pc = "insert" => Inserting(tree, keys, node) /\ parent = Nil
  /\ pc = "erase" => Erasing(tree, keys, node, parent)

\* The empty tree.
LEMMA EmptyRests == Init => TreeInv
<1> SUFFICES ASSUME Init PROVE TreeInv
  OBVIOUS
<1> DEFINE sub == [n \in {} |-> {}]
           bh  == [n \in {} |-> 0]
<1>1. tree \in Trees /\ tree.root = Nil /\ \A s \in Sides, n \in Keys : tree.child[s][n] = Nil
  BY DEF Init, Trees, Colors
<1>2. Pointers(tree, {})
  BY <1>1 DEF Pointers
<1>3. Ordered(tree, {}, sub)
  <2>1. sub \in [{} -> SUBSET {}]
    OBVIOUS
  <2> QED BY <1>1, <2>1 DEF Ordered, Under
<1>4. Balanced(tree, {}, bh, Nil, "left")
  <2>1. bh \in [{} -> Nat]
    OBVIOUS
  <2> QED BY <2>1 DEF Balanced
<1>5. RedsApart(tree, {}, Nil, Nil)
  BY <1>1 DEF RedsApart, IsRed
<1>6. Resting(tree, {})
  BY <1>2, <1>3, <1>4, <1>5 DEF Resting
<1>7. IsFiniteSet(keys) /\ keys = {} /\ pc = "idle" /\ node = Nil /\ parent = Nil
  BY FS_EmptySet DEF Init
<1> QED BY <1>6, <1>7 DEF TreeInv

\* Linking a new node: the search finds its place, and the tree is as the loop
\* expects it.
LEMMA InsertKeeps ==
  ASSUME TreeInv, NEW k \in Keys, Insert(k)
  PROVE  TreeInv'
<1> DEFINE p == SearchEnd(tree, k)
           s == Toward(k, p)
<1>1. Resting(tree, keys) /\ IsFiniteSet(keys) /\ p # k /\ parent = Nil
  BY DEF TreeInv, Insert
<1>2. PICK sub : Ordered(tree, keys, sub)
  BY <1>1 DEF Resting
<1>3. Shape(tree, keys, sub) /\ tree \in Trees /\ keys \subseteq Keys
  BY <1>1, <1>2 DEF Shape, Resting, Pointers
<1>4. PlaceOf(tree, keys, sub, k, p, s)
  BY <1>1, <1>3, SearchPlaces
<1>5. p \in (Keys \ {k}) \cup {Nil} /\ s \in Sides
  BY <1>1, <1>3, <1>4 DEF PlaceOf
<1>6. Added(tree, tree', k, p, s)
  <2> DEFINE linked == SetChild(SetChild(Painted(SetParent(tree, k, p), k, "red"), "left", k, Nil), "right", k, Nil)
  <2>1. tree' = IF p = Nil THEN [linked EXCEPT !.root = k] ELSE SetChild(linked, s, p, k)
    BY DEF Insert, Toward
  <2>2. Added(tree, IF p = Nil THEN [linked EXCEPT !.root = k] ELSE SetChild(linked, s, p, k), k, p, s)
    <3> HIDE DEF p, s
    <3> QED BY <1>3, <1>5, LinkAdds
  <2> HIDE DEF linked, p, s
  <2> QED BY <2>1, <2>2
<1> HIDE DEF p, s
<1>7. Inserting(tree', keys \cup {k}, k)
  BY <1>1, <1>3, <1>4, <1>6, AddStarts
<1>8. IsFiniteSet(keys \cup {k})
  BY <1>1, FS_AddElement
<1>9. keys' = keys \cup {k} /\ pc' = "insert" /\ node' = k /\ parent' = Nil
  BY <1>1 DEF Insert
<1> QED BY <1>7, <1>8, <1>9 DEF TreeInv

\* The pass of an insert with a red uncle.
LEMMA InsertRecolorKeeps == ASSUME TreeInv, InsertRecolor PROVE TreeInv'
<1>1. Inserting(tree, keys, node) /\ IsRed(tree, tree.parent[node]) /\ IsFiniteSet(keys) /\ parent = Nil /\ pc = "insert"
  BY Zenon DEF TreeInv, InsertRecolor, InsertLoops
<1>2. PICK p, g, s : /\ Family(tree, keys, node, p, g, s)
                     /\ tree.color[node] = "red" /\ tree.color[p] = "red" /\ tree.color[g] # "red"
  BY <1>1, InsertPlace
<1> PICK uncle : uncle \in {tree.child[Opposite(s)][g]}
  OBVIOUS
<1>3. /\ p = tree.parent[node] /\ g = tree.parent[p] /\ s = SideOf(tree, p, g)
  BY <1>2 DEF Family
<1>4. IsRed(tree, uncle) /\ node' = g
      /\ tree' = Painted(Painted(Painted(tree, uncle, "black"), p, "black"), g, "red")
  BY Zenon, <1>3 DEF InsertRecolor
<1>5. Inserting(Painted(Painted(Painted(tree, uncle, "black"), p, "black"), g, "red"), keys, g)
  BY <1>1, <1>2, <1>4, RecolorInserts
<1>6. Inserting(tree', keys, node')
  BY Zenon, <1>4, <1>5
<1>7. keys' = keys /\ pc' = pc /\ parent' = parent
  BY DEF InsertRecolor
<1> QED BY <1>1, <1>6, <1>7 DEF TreeInv

\* The pass of an insert that rotates.
LEMMA InsertRotateKeeps == ASSUME TreeInv, InsertRotate PROVE TreeInv'
<1>1. Inserting(tree, keys, node) /\ IsRed(tree, tree.parent[node]) /\ IsFiniteSet(keys) /\ parent = Nil /\ pc = "insert"
  BY Zenon DEF TreeInv, InsertRotate, InsertLoops
<1>2. PICK p, g, s : /\ Family(tree, keys, node, p, g, s)
                     /\ tree.color[node] = "red" /\ tree.color[p] = "red" /\ tree.color[g] # "red"
  BY <1>1, InsertPlace
<1>3. /\ p = tree.parent[node] /\ g = tree.parent[p] /\ s = SideOf(tree, p, g)
  BY Zenon, <1>2 DEF Family
<1> DEFINE inner == tree.child[Opposite(s)][p] = node
           t     == IF inner THEN Rotate(tree, p, s) ELSE tree
           top   == IF inner THEN node ELSE p
<1>4. /\ ~IsRed(tree, tree.child[Opposite(s)][g])
      /\ tree' = Rotate(Painted(Painted(t, top, "black"), g, "red"), g, Opposite(s))
      /\ node' = IF inner THEN p ELSE node
  BY <1>3 DEF InsertRotate, IsBlack
<1>5. IF inner
      THEN Inserting(Rotate(Painted(Painted(Rotate(tree, p, s), node, "black"), g, "red"), g, Opposite(s)), keys, p)
      ELSE Inserting(Rotate(Painted(Painted(tree, p, "black"), g, "red"), g, Opposite(s)), keys, node)
  BY <1>1, <1>2, <1>4, RotateInserts
<1>6. Inserting(tree', keys, node')
  <2> HIDE DEF inner
  <2>1. CASE inner
    BY <1>4, <1>5, <2>1
  <2>2. CASE ~inner
    BY <1>4, <1>5, <2>2
  <2> QED BY <2>1, <2>2
<1>7. keys' = keys /\ pc' = pc /\ parent' = parent
  BY Zenon DEF InsertRotate
<1> QED BY <1>1, <1>6, <1>7 DEF TreeInv

\* The end of an insert.
LEMMA InsertEndsKeeps == ASSUME TreeInv, InsertEnds PROVE TreeInv'
<1>1. Inserting(tree, keys, node) /\ ~IsRed(tree, tree.parent[node]) /\ IsFiniteSet(keys) /\ parent = Nil
  BY DEF TreeInv, InsertEnds, InsertLoops
<1>2. Resting(Painted(tree, tree.root, "black"), keys)
  BY <1>1, InsertEndsWell
<1>3. /\ tree' = Painted(tree, tree.root, "black") /\ keys' = keys /\ pc' = "idle" /\ node' = Nil /\ parent' = parent
  BY DEF InsertEnds
<1>4. Resting(tree', keys)
  BY <1>2, <1>3
<1> QED BY <1>1, <1>3, <1>4 DEF TreeInv

\* What the two ways to take out a node leave.
LEMMA UnlinkedKeeps ==
  ASSUME TreeInv, pc = "idle", NEW k, NEW t, NEW child, NEW p, NEW color, Unlinked(k, t, child, p, color),
         IF color = "black" THEN Erasing(Cleared(t, k), keys \ {k}, child, p)
                            ELSE Resting(Cleared(t, k), keys \ {k})
  PROVE  TreeInv'
<1>1. IsFiniteSet(keys \ {k})
  <2>1. IsFiniteSet(keys) /\ keys \ {k} \subseteq keys
    BY DEF TreeInv
  <2> QED BY <2>1, FS_Subset
<1>2. tree' = Cleared(t, k) /\ keys' = keys \ {k}
  BY DEF Unlinked
<1>3. CASE color = "black"
  <2>1. pc' = "erase" /\ node' = child /\ parent' = p
    BY <1>3 DEF Unlinked
  <2>2. Erasing(tree', keys', node', parent')
    BY <1>2, <1>3, <2>1
  <2> QED BY <1>1, <1>2, <2>1, <2>2 DEF TreeInv
<1>4. CASE color # "black"
  <2>1. pc' = "idle" /\ node' = Nil /\ parent' = Nil
    BY <1>4 DEF Unlinked, TreeInv
  <2>2. Resting(tree', keys')
    BY <1>2, <1>4
  <2> QED BY <1>1, <1>2, <2>1, <2>2 DEF TreeInv
<1> QED BY <1>3, <1>4

\* Taking out a node with one child at most.
LEMMA EraseOuterKeeps == ASSUME TreeInv, NEW k \in Keys, EraseOuter(k) PROVE TreeInv'
<1>1. Resting(tree, keys) /\ IsFiniteSet(keys) /\ pc = "idle" /\ k \in keys
  BY DEF TreeInv, EraseOuter
<1>2. PICK sub : Ordered(tree, keys, sub)
  BY <1>1 DEF Resting
<1>3. Shape(tree, keys, sub) /\ tree \in Trees /\ keys \subseteq Keys /\ Nil \notin keys
  BY <1>1, <1>2, ChildrenAre DEF Shape, Resting, Pointers
<1> DEFINE q == IF tree.child["left"][k] = Nil THEN "right" ELSE "left"
           c == IF tree.child["left"][k] = Nil THEN tree.child["right"][k] ELSE tree.child["left"][k]
           p == tree.parent[k]
<1>4. q \in Sides /\ tree.child[Opposite(q)][k] = Nil /\ tree.child[q][k] = c
  BY DEF EraseOuter, Sides, Opposite
<1>5. c \in (Keys \ {k}) \cup {Nil}
  <2>1. tree.child[q][k] \in keys \cup {Nil} /\ (tree.child[q][k] # Nil => tree.child[q][k] # k)
    <3> HIDE DEF q
    <3> QED BY <1>1, <1>3, <1>4, ChildIs, ChildrenAre DEF Shape
  <2> QED BY <1>3, <1>4, <2>1
<1>6. Unlinked(k, Redirected(SetParent(tree, c, p), k, c), c, p, tree.color[k])
  BY DEF EraseOuter
<1> HIDE DEF q, c
<1>7. RemoveIn(tree, Without(tree, k, c), keys, sub, k, c, q)
  <2>1. Removed(tree, Without(tree, k, c), k, c)
    BY <1>3, <1>5, RemoveIs
  <2> QED BY <1>1, <1>3, <1>4, <2>1 DEF RemoveIn
<1>8. IF tree.color[k] = "black" THEN Erasing(Without(tree, k, c), keys \ {k}, c, p)
      ELSE Resting(Without(tree, k, c), keys \ {k})
  BY <1>1, <1>7, RemoveBalances
<1>9. Without(tree, k, c) = Cleared(Redirected(SetParent(tree, c, p), k, c), k)
  BY DEF Without
<1> QED BY <1>1, <1>6, <1>8, <1>9, UnlinkedKeeps

\* Taking out a node with two children.
LEMMA EraseInnerKeeps == ASSUME TreeInv, NEW k \in Keys, EraseInner(k) PROVE TreeInv'
<1>1. Resting(tree, keys) /\ IsFiniteSet(keys) /\ pc = "idle" /\ k \in keys /\ \A s \in Sides : tree.child[s][k] # Nil
  BY DEF TreeInv, EraseInner
<1>2. PICK sub : Ordered(tree, keys, sub)
  BY <1>1 DEF Resting
<1>3. Shape(tree, keys, sub)
  BY <1>1, <1>2 DEF Shape, Resting
<1> DEFINE x == Outermost(tree, tree.child["right"][k], "left")
           c == tree.child["right"][x]
           p == tree.parent[x]
           t == Adopted(Painted(SetParent(Carved(tree, k, x), x, tree.parent[k]), x, tree.color[k]), tree, "left", k, x)
<1>4. Successor(tree, keys, sub, k, x)
  BY <1>1, <1>3 DEF Successor
<1>5. Unlinked(k, t, c, IF p = k THEN x ELSE p, tree.color[x])
  BY DEF EraseInner, Carved
<1>6. Cleared(t, k) = Succeeded(tree, Carved(tree, k, x), k, x)
  BY DEF Succeeded
<1> HIDE DEF x, t
<1>7. IF tree.color[x] = "black"
      THEN Erasing(Succeeded(tree, Carved(tree, k, x), k, x), keys \ {k}, c, IF p = k THEN x ELSE p)
      ELSE Resting(Succeeded(tree, Carved(tree, k, x), k, x), keys \ {k})
  BY <1>1, <1>4, SuccessorErases
<1> QED BY <1>1, <1>5, <1>6, <1>7, UnlinkedKeeps

\* The pass of an erase that moves up.
LEMMA EraseRecolorKeeps == ASSUME TreeInv, EraseRecolor PROVE TreeInv'
<1>1. Erasing(tree, keys, node, parent) /\ IsFiniteSet(keys) /\ pc = "erase"
  BY DEF TreeInv, EraseRecolor, EraseLoops
<1>2. Erasing(tree', keys, node', parent')
  BY <1>1, EraseRecolors
<1>3. keys' = keys /\ pc' = pc
  BY DEF EraseRecolor
<1> QED BY <1>1, <1>2, <1>3 DEF TreeInv

\* The pass of an erase that rotates.
LEMMA EraseRotateKeeps == ASSUME TreeInv, EraseRotate PROVE TreeInv'
<1>1. Erasing(tree, keys, node, parent) /\ IsFiniteSet(keys) /\ pc = "erase"
  BY Zenon DEF TreeInv, EraseRotate, EraseLoops
<1>2. Resting(tree', keys)
  BY <1>1, EraseRotates
<1>3. keys' = keys /\ pc' = pc /\ parent' = parent /\ node' = tree'.root
  BY Zenon DEF EraseRotate
<1>4. parent \in keys \cup {Nil}
  BY <1>1 DEF Erasing
<1>5. Erasing(tree', keys, tree'.root, parent)
  BY <1>2, <1>4, RestingEnds
<1> QED BY <1>1, <1>3, <1>5 DEF TreeInv

\* The end of an erase.
LEMMA EraseEndsKeeps == ASSUME TreeInv, EraseEnds PROVE TreeInv'
<1>1. Erasing(tree, keys, node, parent) /\ IsFiniteSet(keys) /\ (IsRed(tree, node) \/ node = tree.root)
  BY DEF TreeInv, EraseEnds, EraseLoops, IsBlack
<1>2. Resting(IF node = Nil THEN tree ELSE Painted(tree, node, "black"), keys)
  BY <1>1, EraseEndsWell
<1>3. /\ tree' = (IF node = Nil THEN tree ELSE Painted(tree, node, "black"))
      /\ keys' = keys /\ pc' = "idle" /\ node' = Nil /\ parent' = Nil
  BY DEF EraseEnds
<1>4. Resting(tree', keys)
  BY <1>2, <1>3
<1> QED BY <1>1, <1>3, <1>4 DEF TreeInv

\* At every step the tree is what the loops need.
THEOREM TreeInvHolds == Spec => []TreeInv
<1>1. Init => TreeInv
  BY EmptyRests
<1>2. TreeInv /\ [Next]_vars => TreeInv'
  <2> SUFFICES ASSUME TreeInv, [Next]_vars PROVE TreeInv'
    OBVIOUS
  <2>1. CASE \E k \in Keys : Insert(k) \/ EraseOuter(k) \/ EraseInner(k)
    BY <2>1, InsertKeeps, EraseOuterKeeps, EraseInnerKeeps
  <2>2. CASE Rebalance
    BY <2>2, InsertRecolorKeeps, InsertRotateKeeps, InsertEndsKeeps,
       EraseRecolorKeeps, EraseRotateKeeps, EraseEndsKeeps DEF Rebalance
  <2>3. CASE UNCHANGED vars
    BY <2>3 DEF vars, TreeInv
  <2> QED BY <2>1, <2>2, <2>3 DEF Next
<1> QED BY <1>1, <1>2, PTL DEF Spec

----------------------------------------------------------------------------
\* The tree from left to right.

\* w is the numbers S in their order.
Sorted(S, w) ==
  /\ w \in Seq(Nat)
  /\ ToSet(w) = S
  /\ \A i, j \in DOMAIN w : i < j => w[i] < w[j]

\* What it is to be in order.
LEMMA SortedIs ==
  ASSUME NEW S, NEW w, Sorted(S, w)
  PROVE  /\ w \in Seq(Nat) /\ Len(w) \in Nat /\ DOMAIN w = 1 .. Len(w) /\ S \subseteq Nat
         /\ \A i \in 1 .. Len(w) : w[i] \in S /\ w[i] \in Nat
         /\ \A x \in S : \E i \in 1 .. Len(w) : w[i] = x
         /\ \A i, j \in 1 .. Len(w) : i < j => w[i] < w[j]
<1>1. w \in Seq(Nat) /\ S = {w[i] : i \in DOMAIN w}
  BY DEF Sorted, ToSet
<1>2. Len(w) \in Nat /\ DOMAIN w = 1 .. Len(w) /\ \A i \in 1 .. Len(w) : w[i] \in Nat
  BY <1>1
<1>3. \A i, j \in DOMAIN w : i < j => w[i] < w[j]
  BY DEF Sorted
<1>4. /\ \A i \in 1 .. Len(w) : w[i] \in S
      /\ \A x \in S : \E i \in 1 .. Len(w) : w[i] = x
      /\ S \subseteq Nat
  BY <1>1, <1>2
<1> QED BY <1>1, <1>2, <1>3, <1>4

\* In a sequence in order the smaller entry comes first.
LEMMA SmallerFirst ==
  ASSUME NEW w, NEW i \in 1 .. Len(w), NEW j \in 1 .. Len(w), Len(w) \in Nat,
         \A k \in 1 .. Len(w) : w[k] \in Nat,
         \A k, l \in 1 .. Len(w) : k < l => w[k] < w[l],
         w[j] < w[i]
  PROVE  j < i
<1>1. i \in Nat /\ j \in Nat /\ w[i] \in Nat /\ w[j] \in Nat
  OBVIOUS
<1>2. CASE i < j
  <2>1. w[i] < w[j]
    BY <1>2
  <2> QED BY <1>1, <2>1
<1>3. CASE i = j
  BY <1>1, <1>3
<1> QED BY <1>1, <1>2, <1>3

\* There is one such sequence at most.
LEMMA SortedOnce ==
  ASSUME NEW S, NEW v, NEW w, Sorted(S, v), Sorted(S, w)
  PROVE  v = w
<1>1. /\ v \in Seq(Nat) /\ Len(v) \in Nat /\ S \subseteq Nat
      /\ \A i \in 1 .. Len(v) : v[i] \in S /\ v[i] \in Nat
      /\ \A x \in S : \E i \in 1 .. Len(v) : v[i] = x
      /\ \A i, j \in 1 .. Len(v) : i < j => v[i] < v[j]
  BY SortedIs
<1>2. /\ w \in Seq(Nat) /\ Len(w) \in Nat
      /\ \A i \in 1 .. Len(w) : w[i] \in S /\ w[i] \in Nat
      /\ \A x \in S : \E i \in 1 .. Len(w) : w[i] = x
      /\ \A i, j \in 1 .. Len(w) : i < j => w[i] < w[j]
  BY SortedIs
<1>3. \A i \in Nat : i \in 1 .. Len(v) /\ i \in 1 .. Len(w) => v[i] = w[i]
  <2> DEFINE bad == {i \in Nat : i \in 1 .. Len(v) /\ i \in 1 .. Len(w) /\ v[i] # w[i]}
  <2> SUFFICES ASSUME bad # {} PROVE FALSE
    OBVIOUS
  <2>1. PICK i \in bad : \A m \in bad : i <= m
    <3>1. bad \in SUBSET Nat
      OBVIOUS
    <3> HIDE DEF bad
    <3> QED BY <3>1, Least
  <2>2. \A j \in 1 .. Len(v) : j < i => v[j] = w[j]
    BY <1>1, <1>2, <2>1
  <2>3. i \in 1 .. Len(v) /\ i \in 1 .. Len(w) /\ v[i] \in Nat /\ w[i] \in Nat /\ v[i] # w[i] /\ v[i] \in S /\ w[i] \in S
    BY <1>1, <1>2
  <2> HIDE DEF bad
  <2>4. CASE v[i] < w[i]
    <3>1. PICK j \in 1 .. Len(w) : w[j] = v[i]
      BY <1>2, <2>3
    <3>2. j < i
      <4>1. w[j] < w[i]
        BY <2>4, <3>1
      <4> QED BY <1>2, <2>3, <4>1, SmallerFirst
    <3>3. v[j] = v[i] /\ j \in 1 .. Len(v)
      BY <1>1, <2>2, <2>3, <3>1, <3>2
    <3>4. v[j] < v[i]
      BY <1>1, <2>3, <3>2, <3>3
    <3> QED BY <2>3, <3>3, <3>4
  <2>5. CASE w[i] < v[i]
    <3>1. PICK j \in 1 .. Len(v) : v[j] = w[i]
      BY <1>1, <2>3
    <3>2. j < i
      <4>1. v[j] < v[i]
        BY <2>5, <3>1
      <4> QED BY <1>1, <2>3, <4>1, SmallerFirst
    <3>3. w[j] = w[i] /\ j \in 1 .. Len(w)
      BY <1>2, <2>2, <2>3, <3>1, <3>2
    <3>4. w[j] < w[i]
      BY <1>2, <2>3, <3>2, <3>3
    <3> QED BY <2>3, <3>3, <3>4
  <2> QED BY <2>3, <2>4, <2>5
<1>4. ~(Len(v) < Len(w))
  <2> SUFFICES ASSUME Len(v) < Len(w) PROVE FALSE
    OBVIOUS
  <2> DEFINE i == Len(v) + 1
  <2>1. i \in 1 .. Len(w) /\ w[i] \in S /\ w[i] \in Nat
    BY <1>1, <1>2
  <2>2. PICK j \in 1 .. Len(v) : v[j] = w[i]
    BY <1>1, <2>1
  <2>3. j < i /\ j \in 1 .. Len(w) /\ w[j] = w[i]
    BY <1>1, <1>2, <1>3, <2>2
  <2>4. w[j] < w[i]
    BY <1>2, <2>1, <2>3
  <2> QED BY <2>1, <2>3, <2>4
<1>5. ~(Len(w) < Len(v))
  <2> SUFFICES ASSUME Len(w) < Len(v) PROVE FALSE
    OBVIOUS
  <2> DEFINE i == Len(w) + 1
  <2>1. i \in 1 .. Len(v) /\ v[i] \in S /\ v[i] \in Nat
    BY <1>1, <1>2
  <2>2. PICK j \in 1 .. Len(w) : w[j] = v[i]
    BY <1>2, <2>1
  <2>3. j < i /\ j \in 1 .. Len(v) /\ v[j] = v[i]
    BY <1>1, <1>2, <1>3, <2>2
  <2>4. v[j] < v[i]
    BY <1>1, <2>1, <2>3
  <2> QED BY <2>1, <2>3, <2>4
<1>6. Len(v) = Len(w)
  BY <1>1, <1>2, <1>4, <1>5
<1>7. \A i \in 1 .. Len(v) : v[i] = w[i]
  BY <1>1, <1>3, <1>6
<1> QED BY <1>1, <1>2, <1>6, <1>7, SeqEqual

\* Two of them with a number between.
LEMMA SortedJoins ==
  ASSUME NEW L, NEW R, NEW v, NEW w, NEW n \in Nat, Sorted(L, v), Sorted(R, w),
         \A x \in L : x < n, \A x \in R : n < x
  PROVE  Sorted({n} \cup L \cup R, v \o <<n>> \o w)
<1>1. /\ v \in Seq(Nat) /\ Len(v) \in Nat /\ L \subseteq Nat
      /\ \A i \in 1 .. Len(v) : v[i] \in L /\ v[i] \in Nat
      /\ \A x \in L : \E i \in 1 .. Len(v) : v[i] = x
      /\ \A i, j \in 1 .. Len(v) : i < j => v[i] < v[j]
  BY SortedIs
<1>2. /\ w \in Seq(Nat) /\ Len(w) \in Nat /\ R \subseteq Nat
      /\ \A i \in 1 .. Len(w) : w[i] \in R /\ w[i] \in Nat
      /\ \A x \in R : \E i \in 1 .. Len(w) : w[i] = x
      /\ \A i, j \in 1 .. Len(w) : i < j => w[i] < w[j]
  BY SortedIs
<1> DEFINE a == Len(v)
           u1 == v \o <<n>>
           u == u1 \o w
<1>3. <<n>> \in Seq(Nat) /\ Len(<<n>>) = 1 /\ <<n>>[1] = n
  OBVIOUS
<1>4. /\ u1 \in Seq(Nat) /\ Len(u1) = a + 1
      /\ \A i \in 1 .. a + 1 : u1[i] = IF i <= a THEN v[i] ELSE n
  <2>1. /\ u1 \in Seq(Nat) /\ Len(u1) = Len(v) + Len(<<n>>)
        /\ \A i \in 1 .. Len(v) + Len(<<n>>) : u1[i] = IF i <= Len(v) THEN v[i] ELSE <<n>>[i - Len(v)]
    BY <1>1, <1>3, ConcatProperties
  <2> HIDE DEF u1
  <2>2. \A i \in 1 .. a + 1 : i <= a \/ i - a = 1
    BY <1>1
  <2> QED BY <1>1, <1>3, <2>1, <2>2
<1> HIDE DEF u1
<1>5. /\ u \in Seq(Nat) /\ Len(u) = a + 1 + Len(w)
      /\ \A i \in 1 .. a + 1 + Len(w) : u[i] = IF i <= a + 1 THEN u1[i] ELSE w[i - (a + 1)]
  <2>1. /\ u \in Seq(Nat) /\ Len(u) = Len(u1) + Len(w)
        /\ \A i \in 1 .. Len(u1) + Len(w) : u[i] = IF i <= Len(u1) THEN u1[i] ELSE w[i - Len(u1)]
    BY <1>2, <1>4, ConcatProperties
  <2> QED BY <1>4, <2>1
<1> HIDE DEF u
<1>6. \A i \in 1 .. a + 1 + Len(w) :
        /\ i <= a => i \in 1 .. a /\ u[i] = v[i]
        /\ i = a + 1 => u[i] = n
        /\ i > a + 1 => i - (a + 1) \in 1 .. Len(w) /\ u[i] = w[i - (a + 1)]
  <2> TAKE i \in 1 .. a + 1 + Len(w)
  <2>1. u[i] = IF i <= a + 1 THEN u1[i] ELSE w[i - (a + 1)]
    BY <1>5
  <2>2. CASE i <= a + 1
    <3>1. i \in 1 .. a + 1 /\ u[i] = u1[i]
      BY <1>1, <2>1, <2>2
    <3>2. u1[i] = IF i <= a THEN v[i] ELSE n
      BY <1>4, <3>1
    <3> QED BY <1>1, <2>2, <3>1, <3>2
  <2>3. CASE ~(i <= a + 1)
    <3>1. u[i] = w[i - (a + 1)]
      BY <2>1, <2>3
    <3> QED BY <1>1, <1>2, <2>3, <3>1
  <2> QED BY <2>2, <2>3
<1>7. DOMAIN u = 1 .. a + 1 + Len(w)
  BY <1>5
<1>8. \A i, j \in DOMAIN u : i < j => u[i] < u[j]
  <2> SUFFICES ASSUME NEW i \in 1 .. a + 1 + Len(w), NEW j \in 1 .. a + 1 + Len(w), i < j PROVE u[i] < u[j]
    BY <1>7
  <2>1. CASE j <= a
    <3>1. i <= a
      BY <1>1, <2>1
    <3> QED BY <1>1, <1>6, <2>1, <3>1
  <2>2. CASE j = a + 1
    <3>1. i <= a
      BY <1>1, <2>2
    <3>2. u[i] = v[i] /\ v[i] \in L
      BY <1>1, <1>6, <3>1
    <3> QED BY <1>6, <2>2, <3>2
  <2>3. CASE j > a + 1
    <3>1. u[j] = w[j - (a + 1)] /\ j - (a + 1) \in 1 .. Len(w) /\ w[j - (a + 1)] \in R /\ n < u[j] /\ u[j] \in Nat
      BY <1>2, <1>6, <2>3
    <3>2. CASE i <= a
      <4>1. u[i] \in L /\ u[i] < n /\ u[i] \in Nat
        BY <1>1, <1>6, <3>2
      <4> QED BY <3>1, <4>1
    <3>3. CASE i = a + 1
      BY <1>6, <3>1, <3>3
    <3>4. CASE i > a + 1
      <4>1. u[i] = w[i - (a + 1)] /\ i - (a + 1) \in 1 .. Len(w) /\ i - (a + 1) < j - (a + 1)
        BY <1>1, <1>2, <1>6, <3>4
      <4> QED BY <1>2, <3>1, <4>1
    <3> QED BY <1>1, <3>2, <3>3, <3>4
  <2>4. Len(v) \in Int /\ j \in Int
    BY <1>1
  <2>5. j <= a \/ j = a + 1 \/ j > a + 1
    BY <2>4
  <2> QED BY <2>1, <2>2, <2>3, <2>5
<1>9. ToSet(u) = {n} \cup L \cup R
  <2>1. ASSUME NEW i \in DOMAIN u PROVE u[i] \in {n} \cup L \cup R
    <3>1. i \in 1 .. a + 1 + Len(w) /\ (i <= a \/ i = a + 1 \/ i > a + 1)
      BY <1>1, <1>2, <1>7
    <3> QED BY <1>1, <1>2, <1>6, <3>1
  <2>2. ASSUME NEW x \in {n} \cup L \cup R PROVE \E i \in DOMAIN u : u[i] = x
    <3>1. CASE x = n
      <4>1. a + 1 \in 1 .. a + 1 + Len(w)
        BY <1>1, <1>2
      <4> QED BY <1>6, <1>7, <3>1, <4>1
    <3>2. CASE x \in L
      <4>1. PICK i \in 1 .. a : v[i] = x
        BY <1>1, <3>2
      <4>2. i \in 1 .. a + 1 + Len(w) /\ i <= a
        BY <1>1, <1>2
      <4> QED BY <1>6, <1>7, <4>1, <4>2
    <3>3. CASE x \in R
      <4>1. PICK i \in 1 .. Len(w) : w[i] = x
        BY <1>2, <3>3
      <4>2. i + (a + 1) \in 1 .. a + 1 + Len(w) /\ i + (a + 1) > a + 1 /\ (i + (a + 1)) - (a + 1) = i
        BY <1>1, <1>2
      <4> QED BY <1>6, <1>7, <4>1, <4>2
    <3> QED BY <3>1, <3>2, <3>3
  <2> QED BY <2>1, <2>2 DEF ToSet
<1> QED BY <1>5, <1>8, <1>9 DEF Sorted, u, u1

\* No numbers are in order.
LEMMA SortedEmpty == Sorted({}, << >>)
BY DEF Sorted, ToSet

\* What g makes of the child of n on side s, and of n with both children.
SidePart(t, g, s, n) == IF t.child[s][n] = Nil THEN << >> ELSE g[t.child[s][n]]
\* The left part, the node and the right part.
Joined(t, g, n)  == SidePart(t, g, "left", n) \o <<n>> \o SidePart(t, g, "right", n)

\* A subtree is in order when both parts are.
LEMMA JoinedIs ==
  ASSUME NEW t, NEW K, NEW sub, Shape(t, K, sub), NEW n \in K, NEW g,
         \A r \in Sides : t.child[r][n] # Nil => Sorted(sub[t.child[r][n]], g[t.child[r][n]])
  PROVE  Sorted(sub[n], Joined(t, g, n))
<1>1. /\ n \in Nat /\ "left" \in Sides /\ "right" \in Sides
      /\ sub[n] = {n} \cup Under(sub, t.child["left"][n]) \cup Under(sub, t.child["right"][n])
      /\ \A r \in Sides : \A x \in Under(sub, t.child[r][n]) : Before(r, x, n)
  BY ChildrenAre, NilIsNoKey DEF Shape, Ordered, Sides
<1>2. \A r \in Sides : Sorted(Under(sub, t.child[r][n]), SidePart(t, g, r, n))
  BY SortedEmpty DEF Under, SidePart
<1>3. /\ \A x \in Under(sub, t.child["left"][n]) : x < n
      /\ \A x \in Under(sub, t.child["right"][n]) : n < x
  BY <1>1 DEF Before
<1>4. Sorted({n} \cup Under(sub, t.child["left"][n]) \cup Under(sub, t.child["right"][n]), Joined(t, g, n))
  BY <1>1, <1>2, <1>3, SortedJoins DEF Joined
<1> QED BY <1>1, <1>4

\* The walk through every subtree is in order: a lowest node where it were not
\* would have children where it is.
LEMMA InOrderIs ==
  ASSUME NEW t, NEW K, NEW sub, Shape(t, K, sub)
  PROVE  \A n \in K : Sorted(sub[n], (CHOOSE g : g = [m \in Keys |-> Joined(t, g, m)])[n])
<1> DEFINE Fixed(g) == g = [m \in Keys |-> Joined(t, g, m)]
           f == [m \in Keys |-> IF m \in K THEN CHOOSE w : Sorted(sub[m], w) ELSE << >> \o <<m>> \o << >>]
           From == CHOOSE g : Fixed(g)
<1>1. /\ Nil \notin K /\ K \subseteq Keys
      /\ \A m \in K, r \in Sides : t.child[r][m] \in K \cup {Nil}
      /\ \A m \in Keys \ K, r \in Sides : t.child[r][m] = Nil
      /\ "left" \in Sides /\ "right" \in Sides
  BY ChildrenAre DEF Shape, Pointers, Sides
<1>2. ASSUME NEW g, \A m \in K : (\A r \in Sides : t.child[r][m] # Nil => Sorted(sub[t.child[r][m]], g[t.child[r][m]]))
                                   => Sorted(sub[m], g[m])
      PROVE  \A m \in K : Sorted(sub[m], g[m])
  <2> DEFINE bad == {m \in K : ~Sorted(sub[m], g[m])}
  <2> SUFFICES ASSUME bad # {} PROVE FALSE
    OBVIOUS
  <2>1. PICK m \in bad : \A r \in Sides : t.child[r][m] \notin bad
    <3>1. bad \in SUBSET K
      OBVIOUS
    <3> HIDE DEF bad
    <3> QED BY <3>1, Lowest
  <2>2. \A r \in Sides : t.child[r][m] # Nil => Sorted(sub[t.child[r][m]], g[t.child[r][m]])
    BY <1>1, <2>1
  <2> QED BY <1>2, <2>1, <2>2
<1>3. \A m \in K : Sorted(sub[m], f[m])
  <2> SUFFICES ASSUME NEW m \in K,
                      \A r \in Sides : t.child[r][m] # Nil => Sorted(sub[t.child[r][m]], f[t.child[r][m]])
               PROVE  Sorted(sub[m], f[m])
    <3> HIDE DEF f
    <3> QED BY <1>2
  <2>1. Sorted(sub[m], Joined(t, f, m))
    <3> HIDE DEF f
    <3> QED BY JoinedIs
  <2>2. f[m] = CHOOSE w : Sorted(sub[m], w)
    BY <1>1
  <2> HIDE DEF f
  <2> QED BY <2>1, <2>2
<1>4. Fixed(f)
  <2>1. ASSUME NEW m \in Keys PROVE f[m] = Joined(t, f, m)
    <3>1. CASE m \in K
      <4>1. \A r \in Sides : t.child[r][m] # Nil => Sorted(sub[t.child[r][m]], f[t.child[r][m]])
        <5> HIDE DEF f
        <5> QED BY <1>1, <1>3, <3>1
      <4> HIDE DEF f
      <4>2. Sorted(sub[m], Joined(t, f, m))
        BY <3>1, <4>1, JoinedIs
      <4> QED BY <1>3, <3>1, <4>2, SortedOnce
    <3>2. CASE m \notin K
      <4>1. t.child["left"][m] = Nil /\ t.child["right"][m] = Nil
        BY <1>1, <3>2
      <4>2. Joined(t, f, m) = << >> \o <<m>> \o << >>
        <5> HIDE DEF f
        <5> QED BY <4>1 DEF Joined, SidePart
      <4>3. f[m] = << >> \o <<m>> \o << >>
        BY <3>2
      <4> HIDE DEF f
      <4> QED BY <4>2, <4>3
    <3> QED BY <3>1, <3>2
  <2>2. f = [m \in Keys |-> f[m]]
    OBVIOUS
  <2> HIDE DEF f
  <2> QED BY <2>1, <2>2
<1>5. Fixed(From)
  BY <1>4
<1> HIDE DEF From
<1>6. \A m \in K : From[m] = Joined(t, From, m)
  BY <1>1, <1>5
<1>7. \A m \in K : Sorted(sub[m], From[m])
  BY <1>2, <1>6, JoinedIs
<1> QED BY <1>7 DEF From


\* Every state has the shape of a tree of its keys.
LEMMA ShapeOfTree ==
  ASSUME TreeInv
  PROVE  /\ \E sub : Shape(tree, keys, sub)
         /\ node \in keys \cup {Nil} /\ parent \in keys \cup {Nil}
<1>1. Pointers(tree, keys) /\ \E sub : Ordered(tree, keys, sub)
  BY DEF TreeInv, Resting, Inserting, Erasing
<1>2. IsFiniteSet(keys)
  BY DEF TreeInv
<1>3. node \in keys \cup {Nil} /\ parent \in keys \cup {Nil}
  BY DEF TreeInv, Inserting, Erasing
<1> QED BY <1>1, <1>2, <1>3 DEF Shape

\* Child and parent pointers agree in every state.
LEMMA LinkedFollows == TreeInv => Linked
<1> SUFFICES ASSUME TreeInv PROVE Linked
  OBVIOUS
<1>1. PICK sub : Shape(tree, keys, sub)
  BY ShapeOfTree
<1>2. Pointers(tree, keys)
  BY <1>1 DEF Shape
<1>3. {tree.root, node, parent} \subseteq keys \cup {Nil}
  BY <1>2, ShapeOfTree DEF Pointers
<1> QED BY <1>2, <1>3 DEF Linked, Pointers

\* InOrder, in the terms of these lemmas.
LEMMA InOrderFrom ==
  InOrder = IF tree.root = Nil THEN << >> ELSE (CHOOSE g : g = [m \in Keys |-> Joined(tree, g, m)])[tree.root]
BY DEF InOrder, Joined, SidePart

\* A tree of the keys holds the keys, in their order.
LEMMA HoldsItsKeysFollows == TreeInv => HoldsItsKeys
<1> SUFFICES ASSUME TreeInv PROVE HoldsItsKeys
  OBVIOUS
<1>1. PICK sub : Shape(tree, keys, sub)
  BY ShapeOfTree
<1>2. tree.root \in keys \cup {Nil} /\ Under(sub, tree.root) = keys
  BY <1>1 DEF Shape, Pointers, Ordered
<1> DEFINE From == CHOOSE g : g = [m \in Keys |-> Joined(tree, g, m)]
<1>3. \A n \in keys : Sorted(sub[n], From[n])
  BY <1>1, InOrderIs
<1>4. InOrder = IF tree.root = Nil THEN << >> ELSE From[tree.root]
  BY InOrderFrom
<1> HIDE DEF From
<1>5. Sorted(keys, InOrder)
  BY <1>2, <1>3, <1>4, SortedEmpty DEF Under
<1> QED BY <1>5, LinkedFollows DEF HoldsItsKeys, Sorted

\* The keys of the map, in their order, are the tree from left to right.
THEOREM HoldsItsKeysAlways == Spec => []HoldsItsKeys
BY TreeInvHolds, HoldsItsKeysFollows, PTL

----------------------------------------------------------------------------
\* The nodes above a node.

\* The nodes at and above n.
Above(K, sub, n) == {y \in K : n \in sub[y]}

\* A node is below itself and what its parent is below.
LEMMA AboveIs ==
  ASSUME NEW t, NEW K, NEW sub, Shape(t, K, sub), NEW n \in K
  PROVE  /\ t.parent[n] \in K \cup {Nil}
         /\ Above(K, sub, n) = {n} \cup IF t.parent[n] = Nil THEN {} ELSE Above(K, sub, t.parent[n])
         /\ t.parent[n] # Nil => n \notin Above(K, sub, t.parent[n])
<1>1. Pointers(t, K) /\ Ordered(t, K, sub) /\ n \in sub[n] /\ t.parent[n] \in K \cup {Nil} /\ Nil \notin K
  <2>1. Pointers(t, K) /\ Ordered(t, K, sub)
    BY DEF Shape
  <2>2. n \in sub[n]
    BY <2>1 DEF Ordered
  <2>3. t.parent[n] \in K \cup {Nil}
    BY <2>1 DEF Pointers
  <2> QED BY <2>1, <2>2, <2>3, ChildrenAre
<1>2. \A y \in Above(K, sub, n) : y = n \/ (t.parent[n] \in K /\ t.parent[n] \in sub[y])
  <2> TAKE y \in Above(K, sub, n)
  <2>1. y \in K /\ n \in sub[y]
    BY DEF Above
  <2>2. n # y => t.parent[n] \in sub[y] /\ t.parent[n] \in K
    BY <2>1, Nested
  <2> QED BY <2>2
<1>3. CASE t.parent[n] = Nil
  BY <1>1, <1>2, <1>3 DEF Above
<1>4. CASE t.parent[n] # Nil
  <2>1. t.parent[n] \in K /\ n \in sub[t.parent[n]] /\ t.parent[n] \notin sub[n]
    BY <1>1, <1>4, ParentOf
  <2>2. \A y \in Above(K, sub, t.parent[n]) : y \in K /\ n \in sub[y]
    BY <2>1, Nested DEF Above
  <2> QED BY <1>1, <1>2, <1>4, <2>1, <2>2 DEF Above
<1> QED BY <1>3, <1>4

\* What some function holds of n when it does of the parent, it holds of all.
LEMMA Downwards ==
  ASSUME NEW t, NEW K, NEW sub, Shape(t, K, sub), NEW S,
         \A n \in K : (t.parent[n] # Nil => t.parent[n] \in S) => n \in S
  PROVE  K \subseteq S
<1> DEFINE bad == {n \in K : n \notin S}
<1> SUFFICES ASSUME bad # {} PROVE FALSE
  OBVIOUS
<1>1. PICK n \in bad : t.parent[n] \notin bad
  <2>1. bad \in SUBSET K
    OBVIOUS
  <2> HIDE DEF bad
  <2> QED BY <2>1, Lowest
<1>2. t.parent[n] \in K \cup {Nil}
  BY DEF Shape, Pointers
<1> QED BY <1>1, <1>2

\* The way to the root along the parent pointers passes the nodes above.
LEMMA PathFrom ==
  ASSUME NEW t, NEW K, NEW sub, Shape(t, K, sub)
  PROVE  \A n \in K : (CHOOSE g : g = [m \in Keys |-> IF t.parent[m] = Nil THEN {m} ELSE {m} \cup g[t.parent[m]]])[n]
                        = Above(K, sub, n)
<1> DEFINE Fixed(g) == g = [m \in Keys |-> IF t.parent[m] = Nil THEN {m} ELSE {m} \cup g[t.parent[m]]]
           Upward(S) == \A y \in S : t.parent[y] # Nil => t.parent[y] \in S
           f == [m \in Keys |-> {x \in Keys : \A S \in SUBSET Keys : m \in S /\ Upward(S) => x \in S}]
           From == CHOOSE g : Fixed(g)
<1>1. Pointers(t, K) /\ K \subseteq Keys /\ \A m \in Keys : t.parent[m] \in Keys \cup {Nil}
  BY DEF Shape, Pointers, Trees
<1>2. ASSUME NEW m \in Keys PROVE f[m] = IF t.parent[m] = Nil THEN {m} ELSE {m} \cup f[t.parent[m]]
  <2>1. m \in f[m] /\ f[m] \subseteq Keys
    OBVIOUS
  <2>2. CASE t.parent[m] = Nil
    <3>1. {m} \in SUBSET Keys /\ Upward({m})
      BY <2>2
    <3>2. \A x \in f[m] : x \in {m}
      <4> HIDE DEF Upward
      <4> QED BY <3>1
    <3> HIDE DEF f
    <3> QED BY <2>1, <2>2, <3>2
  <2>3. CASE t.parent[m] # Nil
    <3>1. t.parent[m] \in Keys
      BY <1>1, <2>3
    <3> PICK p \in Keys : p = t.parent[m]
      BY <3>1
    <3>2. ASSUME NEW x \in f[p] PROVE x \in f[m]
      <4>1. \A S \in SUBSET Keys : m \in S /\ Upward(S) => p \in S /\ Upward(S)
        BY <2>3
      <4> HIDE DEF Upward
      <4> QED BY <3>2, <4>1
    <3>3. ASSUME NEW x \in f[m], x # m PROVE x \in f[p]
      <4> SUFFICES ASSUME NEW S \in SUBSET Keys, p \in S, Upward(S) PROVE x \in S
        <5> HIDE DEF Upward
        <5> QED BY <3>3
      <4>1. S \cup {m} \in SUBSET Keys /\ Upward(S \cup {m})
        OBVIOUS
      <4>2. x \in S \cup {m}
        <5> HIDE DEF Upward
        <5> QED BY <3>3, <4>1
      <4> QED BY <3>3, <4>2
    <3> HIDE DEF f
    <3> QED BY <2>1, <2>3, <3>2, <3>3
  <2> QED BY <2>2, <2>3
<1>3. Fixed(f)
  <2>1. f = [m \in Keys |-> f[m]]
    OBVIOUS
  <2> HIDE DEF f
  <2> QED BY <1>2, <2>1
<1>4. Fixed(From)
  BY <1>3
<1> HIDE DEF From
<1>5. \A m \in K : From[m] = IF t.parent[m] = Nil THEN {m} ELSE {m} \cup From[t.parent[m]]
  BY <1>1, <1>4
<1> DEFINE good == {m \in K : From[m] = Above(K, sub, m)}
<1>6. \A m \in K : (t.parent[m] # Nil => t.parent[m] \in good) => m \in good
  <2> SUFFICES ASSUME NEW m \in K, t.parent[m] # Nil => From[t.parent[m]] = Above(K, sub, t.parent[m])
               PROVE  From[m] = Above(K, sub, m)
    OBVIOUS
  <2>1. Above(K, sub, m) = {m} \cup IF t.parent[m] = Nil THEN {} ELSE Above(K, sub, t.parent[m])
    BY AboveIs
  <2>2. From[m] = IF t.parent[m] = Nil THEN {m} ELSE {m} \cup From[t.parent[m]]
    BY <1>5
  <2> QED BY <2>1, <2>2
<1>7. K \subseteq good
  <2> HIDE DEF good
  <2> QED BY <1>6, Downwards
<1> QED BY <1>7 DEF From

\* PathTo, in the terms of these lemmas.
LEMMA PathIs ==
  ASSUME NEW K, NEW sub, Shape(tree, K, sub), NEW n \in K
  PROVE  PathTo(n) = Above(K, sub, n)
BY PathFrom DEF PathTo

----------------------------------------------------------------------------
\* The blacks on the way to a missing child.

\* The black ones among the nodes at and above n.
BlacksTo(t, K, sub, n) == {m \in Above(K, sub, n) : t.color[m] = "black"}

\* One way is as black as the one of the parent, and one more if its node is.
LEMMA BlacksAre ==
  ASSUME NEW t, NEW K, NEW sub, Shape(t, K, sub), NEW n \in K
  PROVE  /\ Cardinality(BlacksTo(t, K, sub, n)) \in Nat
         /\ Cardinality(BlacksTo(t, K, sub, n)) =
              Weight(t, n) + IF t.parent[n] = Nil THEN 0 ELSE Cardinality(BlacksTo(t, K, sub, t.parent[n]))
<1>1. \A m : IsFiniteSet(BlacksTo(t, K, sub, m)) /\ Cardinality(BlacksTo(t, K, sub, m)) \in Nat
  <2> TAKE m
  <2>1. IsFiniteSet(K) /\ BlacksTo(t, K, sub, m) \subseteq K
    BY DEF Shape, BlacksTo, Above
  <2> QED BY <2>1, FS_Subset, FS_CardinalityType
<1> PICK p : p = t.parent[n]
  OBVIOUS
<1> DEFINE Rest == IF p = Nil THEN {} ELSE BlacksTo(t, K, sub, p)
<1>2. /\ BlacksTo(t, K, sub, n) = IF t.color[n] = "black" THEN {n} \cup Rest ELSE Rest
      /\ n \notin Rest
  BY AboveIs DEF BlacksTo
<1>3. IsFiniteSet(Rest) /\ Cardinality(Rest) = IF p = Nil THEN 0 ELSE Cardinality(BlacksTo(t, K, sub, p))
  BY <1>1, FS_EmptySet
<1> HIDE DEF Rest
<1>4. Cardinality(Rest \cup {n}) = Cardinality(Rest) + 1 /\ Cardinality(Rest) \in Nat
  BY <1>2, <1>3, FS_AddElement, FS_CardinalityType
<1>5. Rest \cup {n} = {n} \cup Rest
  OBVIOUS
<1>6. Cardinality(BlacksTo(t, K, sub, n)) = Weight(t, n) + Cardinality(Rest)
  BY <1>2, <1>4, <1>5 DEF Weight
<1> QED BY <1>1, <1>3, <1>6

\* One if the place that is short of a black is on the way to n.
Lacking(t, sub, sp, ss, n) == IF sp # Nil /\ n \in Under(sub, t.child[ss][sp]) THEN 1 ELSE 0

\* The place that is short of a black is on the way to a node when it is on the
\* way to its parent, or between the two.
LEMMA LackingIs ==
  ASSUME NEW t, NEW K, NEW sub, Shape(t, K, sub), NEW sp \in K \cup {Nil}, NEW ss \in Sides, NEW n \in K
  PROVE  /\ t.parent[n] = Nil => Lacking(t, sub, sp, ss, n) = 0
         /\ \A r \in Sides : t.parent[n] # Nil /\ t.child[r][t.parent[n]] = n =>
              Lacking(t, sub, sp, ss, n) = Lacking(t, sub, sp, ss, t.parent[n])
                                           + IF t.parent[n] = sp /\ r = ss THEN 1 ELSE 0
<1>1. /\ Nil \notin K /\ n \in sub[n]
      /\ \A m \in K, r \in Sides : t.child[r][m] \in K \cup {Nil}
      /\ Pointers(t, K) /\ Ordered(t, K, sub)
  BY ChildrenAre DEF Shape, Ordered
<1>2. CASE sp = Nil \/ t.child[ss][sp] = Nil
  <2>1. \A m : Lacking(t, sub, sp, ss, m) = 0
    BY <1>2 DEF Lacking, Under
  <2>2. ASSUME NEW r \in Sides, t.parent[n] # Nil, t.child[r][t.parent[n]] = n
        PROVE  ~(t.parent[n] = sp /\ r = ss)
    BY <1>1, <1>2, <2>2
  <2> QED BY <2>1, <2>2
<1>3. CASE sp # Nil /\ t.child[ss][sp] # Nil
  <2>1. PICK c \in K : c = t.child[ss][sp]
    BY <1>1, <1>3
  <2>2. t.parent[c] = sp /\ c \in sub[c] /\ sp \notin sub[c] /\ sp \in K
    BY <1>1, <1>3, <2>1, ChildIs
  <2>3. \A m : Lacking(t, sub, sp, ss, m) = IF m \in sub[c] THEN 1 ELSE 0
    BY <1>1, <1>3, <2>1 DEF Lacking, Under
  <2>4. n \in sub[c] /\ n # c => t.parent[n] \in sub[c] /\ t.parent[n] \in K
    BY Nested
  <2>5. t.parent[n] = Nil => n \notin sub[c]
    BY <1>1, <1>3, <2>2, <2>4
  <2>6. ASSUME NEW r \in Sides, t.parent[n] # Nil, t.child[r][t.parent[n]] = n
        PROVE  (IF n \in sub[c] THEN 1 ELSE 0) = (IF t.parent[n] \in sub[c] THEN 1 ELSE 0)
                                                 + IF t.parent[n] = sp /\ r = ss THEN 1 ELSE 0
    <3>1. t.parent[n] \in K /\ n \in sub[t.parent[n]]
      BY <1>1, <2>6, ParentOf
    <3>2. CASE n = c
      <4>1. t.parent[n] = sp
        BY <2>2, <3>2
      <4>2. r = ss
        <5>1. SideOf(t, t.child[r][sp], sp) = r
          BY <1>1, <1>3, <2>2, <2>6, <4>1, OneSide
        <5>2. SideOf(t, t.child[ss][sp], sp) = ss
          BY <1>1, <1>3, <2>2, OneSide
        <5>3. t.child[r][sp] = t.child[ss][sp]
          BY <2>1, <2>6, <3>2, <4>1
        <5> QED BY <5>1, <5>2, <5>3
      <4> QED BY <2>2, <3>2, <4>1, <4>2
    <3>3. CASE n # c
      <4>1. ~(t.parent[n] = sp /\ r = ss)
        BY <2>1, <2>6, <3>3
      <4>2. n \in sub[c] => t.parent[n] \in sub[c]
        BY <2>4, <3>3
      <4>3. t.parent[n] \in sub[c] => n \in sub[c]
        BY <3>1, Nested
      <4> QED BY <4>1, <4>2, <4>3
    <3> QED BY <3>2, <3>3
  <2> QED BY <2>3, <2>5, <2>6
<1> QED BY <1>2, <1>3

\* As many blacks on every way down.
LEMMA BlacksCount ==
  ASSUME NEW t, NEW K, NEW sub, Shape(t, K, sub), NEW sp \in K \cup {Nil}, NEW ss \in Sides,
         NEW bh, Balanced(t, K, bh, sp, ss)
  PROVE  /\ Height(bh, t.root) \in Nat
         /\ \A n \in K, s \in Sides : t.child[s][n] = Nil =>
              Cardinality(BlacksTo(t, K, sub, n)) + Lacking(t, sub, sp, ss, n)
                + (IF n = sp /\ s = ss THEN 1 ELSE 0) = Height(bh, t.root)
<1>1. /\ Pointers(t, K) /\ Ordered(t, K, sub) /\ Nil \notin K /\ t.root \in K \cup {Nil}
      /\ \A n \in K : t.parent[n] \in K \cup {Nil} /\ (t.parent[n] = Nil <=> t.root = n)
  BY ChildrenAre DEF Shape, Pointers
<1>2. /\ bh \in [K -> Nat]
      /\ \A n \in K, s \in Sides :
           bh[n] = Weight(t, n) + Height(bh, t.child[s][n]) + IF n = sp /\ s = ss THEN 1 ELSE 0
  BY DEF Balanced, Even
<1> DEFINE top == Height(bh, t.root)
           count(n) == Cardinality(BlacksTo(t, K, sub, n))
           lack(n) == Lacking(t, sub, sp, ss, n)
           good == {n \in K : top + Weight(t, n) = count(n) + bh[n] + lack(n)}
<1>3. top \in Nat /\ \A n \in K : bh[n] \in Nat /\ Weight(t, n) \in Nat /\ count(n) \in Nat /\ lack(n) \in Nat
  BY <1>1, <1>2, BlacksAre DEF Height, Weight, Lacking
<1>4. ASSUME NEW n \in K, t.parent[n] # Nil => t.parent[n] \in good PROVE n \in good
  <2>1. CASE t.parent[n] = Nil
    <3>1. count(n) = Weight(t, n) /\ lack(n) = 0
      <4>1. count(n) = Weight(t, n) + 0
        BY <2>1, BlacksAre
      <4>2. lack(n) = 0
        BY <2>1, LackingIs
      <4> QED BY <1>3, <4>1, <4>2
    <3>2. top = bh[n]
      BY <1>1, <2>1 DEF Height
    <3> HIDE DEF top, count, lack
    <3>3. top + Weight(t, n) = count(n) + bh[n] + lack(n)
      BY <1>3, <3>1, <3>2
    <3> QED BY <3>3
  <2>2. CASE t.parent[n] # Nil
    <3>1. PICK p \in K : p = t.parent[n]
      BY <1>1, <2>2
    <3>2. PICK r \in Sides : t.child[r][p] = n
      BY <1>1, <2>2, <3>1 DEF Pointers
    <3>3. top + Weight(t, p) = count(p) + bh[p] + lack(p)
      BY <1>4, <2>2, <3>1
    <3> DEFINE e == IF p = sp /\ r = ss THEN 1 ELSE 0
    <3>4. bh[p] = Weight(t, p) + bh[n] + e
      <4>1. Height(bh, t.child[r][p]) = bh[n]
        BY <1>1, <3>2 DEF Height
      <4> QED BY <1>2, <4>1
    <3>5. count(n) = Weight(t, n) + count(p)
      BY <2>2, <3>1, BlacksAre
    <3>6. lack(n) = lack(p) + e
      BY <2>2, <3>1, <3>2, LackingIs
    <3>7. e \in Nat
      OBVIOUS
    <3> HIDE DEF top, count, lack, e
    <3>8. top + Weight(t, n) = count(n) + bh[n] + lack(n)
      BY <1>3, <3>3, <3>4, <3>5, <3>6, <3>7
    <3> QED BY <3>8
  <2> QED BY <2>1, <2>2
<1>5. K \subseteq good
  <2> HIDE DEF good
  <2> QED BY <1>4, Downwards
<1>6. ASSUME NEW n \in K, NEW s \in Sides, t.child[s][n] = Nil
      PROVE  count(n) + lack(n) + (IF n = sp /\ s = ss THEN 1 ELSE 0) = top
  <2> DEFINE e == IF n = sp /\ s = ss THEN 1 ELSE 0
  <2>1. Height(bh, t.child[s][n]) = 0
    BY <1>6 DEF Height
  <2>2. bh[n] = Weight(t, n) + 0 + e
    BY <1>2, <2>1
  <2>3. top + Weight(t, n) = count(n) + bh[n] + lack(n)
    BY <1>5
  <2>4. e \in Nat
    OBVIOUS
  <2> HIDE DEF top, count, lack, e
  <2>5. count(n) + lack(n) + e = top
    BY <1>3, <2>2, <2>3, <2>4
  <2> QED BY <2>5 DEF e
<1> QED BY <1>3, <1>6

\* The way to the missing child on side s of n leads through the loop's node.
Passes(n, s) == node \in PathTo(n) \/ <<node, parent, SideOf(tree, Nil, n)>> = <<Nil, n, s>>

\* Blacks, in the terms of these lemmas.
LEMMA BlacksIs ==
  ASSUME NEW sub, Shape(tree, keys, sub), NEW n \in keys, NEW s \in Sides
  PROVE  Blacks(n, s) = Cardinality(BlacksTo(tree, keys, sub, n)) + IF pc = "erase" /\ Passes(n, s) THEN 1 ELSE 0
<1>1. {m \in PathTo(n) : tree.color[m] = "black"} = BlacksTo(tree, keys, sub, n)
  BY PathIs DEF BlacksTo
<1> QED BY <1>1 DEF Blacks, Passes

\* Every way to a missing child counts the same blacks, one more for the place
\* that an erase in progress has left short.
LEMMA SameBlacks ==
  ASSUME TreeInv
  PROVE  \E top : \A n \in keys, s \in Sides : tree.child[s][n] = Nil => Blacks(n, s) = top
<1>1. PICK sub : Shape(tree, keys, sub)
  BY ShapeOfTree
<1>2. /\ Nil \notin keys /\ tree.root \in keys \cup {Nil} /\ sub \in [keys -> SUBSET keys]
      /\ Under(sub, tree.root) = keys /\ Pointers(tree, keys) /\ Ordered(tree, keys, sub)
      /\ \A n \in keys : n \in sub[n]
      /\ \A n \in keys, s \in Sides : tree.child[s][n] \in keys \cup {Nil}
  BY <1>1, ChildrenAre DEF Shape, Ordered
<1> DEFINE count(n) == Cardinality(BlacksTo(tree, keys, sub, n))
<1>3. \A n \in keys : count(n) \in Nat
  BY <1>1, BlacksAre
<1>4. \A n \in keys, s \in Sides : Blacks(n, s) = count(n) + IF pc = "erase" /\ Passes(n, s) THEN 1 ELSE 0
  BY <1>1, BlacksIs
<1>5. ASSUME NEW bh, Balanced(tree, keys, bh, Nil, "left")
      PROVE  \A n \in keys, s \in Sides : tree.child[s][n] = Nil => count(n) = Height(bh, tree.root)
  <2> TAKE n \in keys, s \in Sides
  <2> HAVE tree.child[s][n] = Nil
  <2>1. Nil \in keys \cup {Nil} /\ "left" \in Sides
    BY DEF Sides
  <2>6. PICK sp, ss : sp = Nil /\ ss = "left"
    OBVIOUS
  <2>5. Balanced(tree, keys, bh, sp, ss) /\ sp \in keys \cup {Nil} /\ ss \in Sides
    BY <1>5, <2>1, <2>6
  <2>7. \A m \in keys, r \in Sides : tree.child[r][m] = Nil =>
          Cardinality(BlacksTo(tree, keys, sub, m)) + Lacking(tree, sub, sp, ss, m)
            + (IF m = sp /\ r = ss THEN 1 ELSE 0) = Height(bh, tree.root)
    BY ONLY <1>1, <2>5, BlacksCount
  <2>2. count(n) + Lacking(tree, sub, sp, ss, n) + (IF n = sp /\ s = ss THEN 1 ELSE 0) = Height(bh, tree.root)
    BY <2>7
  <2>3. Lacking(tree, sub, sp, ss, n) = 0 /\ n # sp
    BY <1>2, <2>6 DEF Lacking
  <2> HIDE DEF count
  <2>4. count(n) + 0 + 0 = Height(bh, tree.root)
    BY <2>2, <2>3
  <2> QED BY <1>3, <2>4
<1>6. CASE pc # "erase"
  <2>1. PICK bh : Balanced(tree, keys, bh, Nil, "left")
    BY <1>6 DEF TreeInv, Resting, Inserting
  <2>2. \A n \in keys, s \in Sides : tree.child[s][n] = Nil => count(n) = Height(bh, tree.root)
    BY <1>5, <2>1
  <2> HIDE DEF count
  <2>3. \A n \in keys, s \in Sides : Blacks(n, s) = count(n)
    BY <1>3, <1>4, <1>6
  <2> QED BY <2>2, <2>3
<1>7. CASE pc = "erase" /\ node = tree.root
  <2>1. PICK bh : Balanced(tree, keys, bh, Nil, "left")
    BY <1>7 DEF TreeInv, Erasing
  <2>2. \A n \in keys, s \in Sides : tree.child[s][n] = Nil => count(n) = Height(bh, tree.root)
    BY <1>5, <2>1
  <2>3. \A n \in keys, s \in Sides : Passes(n, s)
    <3> TAKE n \in keys, s \in Sides
    <3>1. node \in keys /\ n \in sub[node]
      BY <1>2, <1>7 DEF Under
    <3>2. node \in PathTo(n)
      BY <1>1, <3>1, PathIs DEF Above
    <3> QED BY <3>2 DEF Passes
  <2> HIDE DEF count
  <2>4. \A n \in keys, s \in Sides : Blacks(n, s) = count(n) + 1
    BY <1>4, <1>7, <2>3
  <2> QED BY <2>2, <2>4
<1>8. CASE pc = "erase" /\ node # tree.root
  <2>1. Erasing(tree, keys, node, parent)
    BY <1>8 DEF TreeInv
  <2> DEFINE ss == SideOf(tree, node, parent)
  <2>2. /\ parent \in keys /\ tree.child[ss][parent] = node /\ node \in keys \cup {Nil}
        /\ \E bh : Balanced(tree, keys, bh, parent, ss)
    BY <1>8, <2>1 DEF Erasing
  <2>3. PICK bh : Balanced(tree, keys, bh, parent, ss)
    BY <2>2
  <2>4. ss \in Sides
    BY DEF SideOf, Sides
  <2>5. ASSUME NEW n \in keys, NEW s \in Sides, tree.child[s][n] = Nil
        PROVE  Blacks(n, s) = Height(bh, tree.root)
    <3> DEFINE a == Lacking(tree, sub, parent, ss, n)
               e == IF n = parent /\ s = ss THEN 1 ELSE 0
    <3>1. count(n) + a + e = Height(bh, tree.root)
      BY <1>1, <2>2, <2>3, <2>4, <2>5, BlacksCount
    <3>2. parent # Nil
      BY <1>2, <2>2
    <3>3. node \in PathTo(n) <=> node # Nil /\ n \in sub[node]
      BY <1>1, <1>2, <2>2, PathIs DEF Above
    <3>4. a = IF node # Nil /\ n \in sub[node] THEN 1 ELSE 0
      BY <2>2, <3>2 DEF Lacking, Under
    <3>5. n = parent /\ s = ss => node = Nil
      BY <2>2, <2>5
    <3>6. node = Nil /\ n = parent => SideOf(tree, Nil, n) = ss
      OBVIOUS
    <3>7. Passes(n, s) <=> (node # Nil /\ n \in sub[node]) \/ (n = parent /\ s = ss)
      <4>1. <<node, parent, SideOf(tree, Nil, n)>> = <<Nil, n, s>> <=> node = Nil /\ n = parent /\ s = SideOf(tree, Nil, n)
        OBVIOUS
      <4> HIDE DEF ss
      <4> QED BY <3>3, <3>5, <3>6, <4>1 DEF Passes
    <3> HIDE DEF ss, count, a, e
    <3>8. Blacks(n, s) = count(n) + IF Passes(n, s) THEN 1 ELSE 0
      BY <1>4, <1>8
    <3>9. e = IF n = parent /\ s = ss THEN 1 ELSE 0
      BY DEF e
    <3>10. CASE node # Nil /\ n \in sub[node]
      <4>1. a = 1 /\ e = 0 /\ Passes(n, s)
        BY <3>4, <3>5, <3>7, <3>9, <3>10
      <4> QED BY <1>3, <3>1, <3>8, <4>1
    <3>11. CASE ~(node # Nil /\ n \in sub[node])
      <4>1. a = 0 /\ e = IF Passes(n, s) THEN 1 ELSE 0
        BY <3>4, <3>7, <3>9, <3>11
      <4> QED BY <1>3, <3>1, <3>8, <4>1
    <3> QED BY <3>10, <3>11
  <2> QED BY <2>5
<1> QED BY <1>6, <1>7, <1>8

\* The inductive invariant has the red-black properties in it.
LEMMA RedBlackFollows == TreeInv => RedBlack
<1> SUFFICES ASSUME TreeInv PROVE RedBlack
  OBVIOUS
<1>1. PICK top : \A n \in keys, s \in Sides : tree.child[s][n] = Nil => Blacks(n, s) = top
  BY SameBlacks
<1>2. Pointers(tree, keys)
  BY DEF TreeInv, Resting, Inserting, Erasing
<1>3. ASSUME NEW n \in keys, IsRed(tree, n), n = tree.root \/ IsRed(tree, tree.parent[n])
      PROVE  (pc # "idle" /\ n = node) \/ (pc = "erase" /\ tree.parent[n] = node)
  <2>1. n # Nil /\ (IsRed(tree, tree.parent[n]) => tree.parent[n] # Nil)
    BY <1>3 DEF IsRed
  <2>2. CASE pc = "idle"
    <3>1. RedsApart(tree, keys, Nil, Nil)
      BY <2>2 DEF TreeInv, Resting
    <3> QED BY <1>3, <2>1, <3>1 DEF RedsApart
  <2>3. CASE pc = "insert"
    <3>1. RedsApart(tree, keys, node, Nil)
      BY <2>3 DEF TreeInv, Inserting
    <3> QED BY <1>3, <2>1, <2>3, <3>1 DEF RedsApart
  <2>4. CASE pc = "erase"
    <3>1. RedsApart(tree, keys, node, node)
      BY <2>4 DEF TreeInv, Erasing
    <3> QED BY <1>3, <2>1, <2>4, <3>1 DEF RedsApart
  <2> QED BY <2>2, <2>3, <2>4 DEF TreeInv
<1>4. \A n, m \in keys, s, r \in Sides :
        tree.child[s][n] = Nil /\ tree.child[r][m] = Nil => Blacks(n, s) = Blacks(m, r)
  BY <1>1
<1> QED BY <1>3, <1>4 DEF RedBlack

\* Between the calls the tree is red-black, and while one is in progress at the
\* node of its loop only not.
THEOREM RedBlackAlways == Spec => []RedBlack
BY TreeInvHolds, RedBlackFollows, PTL

----------------------------------------------------------------------------
\* The neighbours.

\* The nodes on side s of all of those at and below n.
Beyond(K, sub, s, n) == {x \in K : \A y \in sub[n] : Before(s, x, y)}

\* e is the first of S, from side Opposite(s).
Nearest(s, S, e) == IF S = {} THEN e = Nil ELSE e \in S /\ \A x \in S : x = e \/ Before(s, x, e)

\* There is one nearest node at most.
LEMMA NearestOnce ==
  ASSUME NEW s \in Sides, NEW S \in SUBSET Nat, NEW d, NEW e, Nearest(s, S, d), Nearest(s, S, e)
  PROVE  d = e
<1>1. CASE S = {}
  BY <1>1 DEF Nearest
<1>2. CASE S # {}
  <2>1. d \in Nat /\ e \in Nat /\ (e = d \/ Before(s, e, d)) /\ (d = e \/ Before(s, d, e))
    BY <1>2 DEF Nearest
  <2> QED BY <2>1 DEF Before
<1> QED BY <1>1, <1>2

\* Of two numbers one is on one side of the other.
LEMMA SidesOfNat ==
  ASSUME NEW s \in Sides, NEW x \in Nat, NEW y \in Nat
  PROVE  /\ Before(Opposite(s), x, y) <=> Before(s, y, x)
         /\ x = y \/ Before(s, x, y) \/ Before(Opposite(s), x, y)
         /\ \A r \in Sides : Before(r, x, y) /\ Before(s, x, y) => r = s
BY DEF Before, Opposite, Sides

\* A node is on one side of all the nodes of a subtree that it is not in.
LEMMA Interval ==
  ASSUME NEW t, NEW K, NEW sub, Shape(t, K, sub)
  PROVE  \A n \in K : \A x \in K \ sub[n], s \in Sides :
           Before(s, x, n) => \A y \in sub[n] : Before(s, x, y)
<1> DEFINE Holds(n) == \A x \in K \ sub[n], s \in Sides :
                         Before(s, x, n) => \A y \in sub[n] : Before(s, x, y)
           good == {n \in K : Holds(n)}
<1>1. /\ Pointers(t, K) /\ Ordered(t, K, sub) /\ Nil \notin K /\ K \subseteq Nat
      /\ sub \in [K -> SUBSET K] /\ Under(sub, t.root) = K
      /\ \A n \in K : t.parent[n] \in K \cup {Nil} /\ (t.parent[n] = Nil <=> t.root = n)
      /\ \A n \in K : n \in sub[n]
  BY ChildrenAre, NilIsNoKey DEF Shape, Ordered, Pointers
<1>2. ASSUME NEW n \in K, t.parent[n] # Nil => t.parent[n] \in good PROVE Holds(n)
  <2>1. CASE t.parent[n] = Nil
    <3>1. sub[n] = K
      BY <1>1, <2>1 DEF Under
    <3> QED BY <3>1
  <2>2. CASE t.parent[n] # Nil
    <3>1. PICK q \in K : q = t.parent[n]
      BY <1>1, <2>2
    <3>2. PICK r \in Sides : n \in {t.child[r][q]}
      BY <1>1, <2>2, <3>1 DEF Pointers
    <3>3. /\ sub[n] \subseteq sub[q] /\ \A y \in sub[n] : Before(r, y, q)
      <4>1. t.child[r][q] # Nil
        BY <1>1, <3>2
      <4>2. sub[t.child[r][q]] \subseteq sub[q] /\ \A y \in sub[t.child[r][q]] : Before(r, y, q)
        BY <4>1, ChildIs
      <4> QED BY <3>2, <4>2
    <3>4. Holds(q)
      BY <1>2, <2>2, <3>1
    <3>5. \A x \in sub[q] : x = q \/ x \in sub[n] \/ Before(Opposite(r), x, q)
      <4> TAKE x \in sub[q]
      <4>1. x = q \/ x \in Under(sub, t.child[r][q]) \/ x \in Under(sub, t.child[Opposite(r)][q])
        BY <1>1, NodesOf
      <4>2. x \in Under(sub, t.child[r][q]) => x \in sub[n]
        BY <3>2 DEF Under
      <4>3. x \in Under(sub, t.child[Opposite(r)][q]) => Before(Opposite(r), x, q)
        BY SidesAre DEF Shape, Ordered
      <4> QED BY <4>1, <4>2, <4>3
    <3>6. ASSUME NEW x \in K \ sub[n], NEW s \in Sides, Before(s, x, n), NEW y \in sub[n]
          PROVE  Before(s, x, y)
      <4>1. /\ x \in Nat /\ n \in Nat /\ q \in Nat /\ y \in Nat /\ n \in sub[n]
            /\ Before(r, n, q) /\ Before(r, y, q) /\ y \in sub[q] /\ n \in sub[q]
        BY <1>1, <3>3
      <4>2. CASE x = q
        BY <3>6, <4>1, <4>2 DEF Before, Sides
      <4>3. CASE x \in sub[q] /\ x # q
        <5>1. Before(Opposite(r), x, q)
          BY <3>5, <4>3
        <5> QED BY <3>6, <4>1, <5>1 DEF Before, Sides, Opposite
      <4>4. CASE x \notin sub[q]
        <5>1. x # q
          BY <1>1, <4>4
        <5>2. Before(s, x, q)
          <6> SUFFICES ASSUME ~Before(s, x, q) PROVE FALSE
            OBVIOUS
          <6>1. Before(Opposite(s), x, q) /\ Opposite(s) \in Sides
            BY <4>1, <5>1, SidesOfNat, SidesAre
          <6>2. Before(Opposite(s), x, n)
            BY <3>4, <4>1, <4>4, <6>1
          <6> QED BY <3>6, <4>1, <6>2 DEF Before, Sides, Opposite
        <5> QED BY <3>4, <4>1, <4>4, <5>2
      <4> QED BY <4>2, <4>3, <4>4
    <3> QED BY <3>6
  <2> QED BY <2>1, <2>2
<1>3. K \subseteq good
  <2>1. \A n \in K : (t.parent[n] # Nil => t.parent[n] \in good) => n \in good
    BY <1>2
  <2> HIDE DEF good
  <2> QED BY <2>1, Downwards
<1> QED BY <1>3

\* A step up.
LEMMA UpStep ==
  ASSUME NEW t, NEW K, NEW sub, Shape(t, K, sub), NEW s \in Sides, NEW n \in K
  PROVE  /\ t.parent[n] = Nil => Beyond(K, sub, s, n) = {}
         /\ t.parent[n] # Nil =>
              IF n = t.child[s][t.parent[n]]
              THEN Beyond(K, sub, s, n) = Beyond(K, sub, s, t.parent[n])
              ELSE Nearest(s, Beyond(K, sub, s, n), t.parent[n])
<1>1. /\ Pointers(t, K) /\ Ordered(t, K, sub) /\ Nil \notin K /\ K \subseteq Nat
      /\ sub \in [K -> SUBSET K] /\ Under(sub, t.root) = K
      /\ t.parent[n] \in K \cup {Nil} /\ (t.parent[n] = Nil <=> t.root = n)
      /\ \A m \in K : m \in sub[m]
  <2>1. Pointers(t, K) /\ Ordered(t, K, sub)
    BY DEF Shape
  <2>2. Nil \notin K /\ K \subseteq Nat
    BY <2>1, NilIsNoKey DEF Pointers
  <2>3. t.parent[n] \in K \cup {Nil} /\ (t.parent[n] = Nil <=> t.root = n)
    BY <2>1 DEF Pointers
  <2>4. /\ sub \in [K -> SUBSET K] /\ Under(sub, t.root) = K
        /\ \A m \in K : m \in sub[m]
    BY <2>1 DEF Ordered
  <2> QED BY <2>1, <2>2, <2>3, <2>4
<1>2. \A m \in K : \A x \in K \ sub[m], r \in Sides :
        Before(r, x, m) => \A y \in sub[m] : Before(r, x, y)
  BY Interval
<1>3. ASSUME t.parent[n] = Nil PROVE Beyond(K, sub, s, n) = {}
  <2>1. sub[n] = K
    BY <1>1, <1>3 DEF Under
  <2>2. \A x \in K : ~Before(s, x, x)
    BY <1>1 DEF Before
  <2> QED BY <2>1, <2>2 DEF Beyond
<1>4. ASSUME t.parent[n] # Nil
      PROVE  IF n = t.child[s][t.parent[n]]
             THEN Beyond(K, sub, s, n) = Beyond(K, sub, s, t.parent[n])
             ELSE Nearest(s, Beyond(K, sub, s, n), t.parent[n])
  <2>1. PICK q \in K : q = t.parent[n]
    BY <1>1, <1>4
  <2>2. PICK r \in Sides : n \in {t.child[r][q]}
    BY <1>1, <1>4, <2>1 DEF Pointers
  <2>3. /\ sub[n] \subseteq sub[q] /\ \A y \in sub[n] : Before(r, y, q)
    <3>1. t.child[r][q] # Nil
      BY <1>1, <2>2
    <3>2. sub[t.child[r][q]] \subseteq sub[q] /\ \A y \in sub[t.child[r][q]] : Before(r, y, q)
      BY <3>1, ChildIs
    <3> QED BY <2>2, <3>2
  <2>4. \A x \in sub[q] : x = q \/ x \in sub[n] \/ Before(Opposite(r), x, q)
    <3> TAKE x \in sub[q]
    <3>1. x = q \/ x \in Under(sub, t.child[r][q]) \/ x \in Under(sub, t.child[Opposite(r)][q])
      BY <1>1, NodesOf
    <3>2. x \in Under(sub, t.child[r][q]) => x \in sub[n]
      BY <2>2 DEF Under
    <3>3. x \in Under(sub, t.child[Opposite(r)][q]) => Before(Opposite(r), x, q)
      BY SidesAre DEF Shape, Ordered
    <3> QED BY <3>1, <3>2, <3>3
  <2>5. n \in sub[n] /\ n \in sub[q] /\ q \in sub[q] /\ n \in Nat /\ q \in Nat /\ Before(r, n, q)
        /\ sub[q] \subseteq Nat /\ sub[n] \subseteq Nat
    BY <1>1, <2>3
  <2>6. ASSUME NEW x \in K, Before(s, x, n), x \notin sub[q] PROVE \A y \in sub[q] : Before(s, x, y)
    <3>1. Before(s, x, q)
      <4> SUFFICES ASSUME ~Before(s, x, q) PROVE FALSE
        OBVIOUS
      <4>1. x \in Nat /\ x # q
        BY <1>1, <2>5, <2>6
      <4>2. Before(Opposite(s), x, q) /\ Opposite(s) \in Sides
        BY <2>5, <4>1, SidesOfNat, SidesAre
      <4>3. Before(Opposite(s), x, n)
        BY <1>2, <2>5, <2>6, <4>2
      <4> QED BY <2>5, <2>6, <4>1, <4>3 DEF Before, Sides, Opposite
    <3> QED BY <1>2, <2>6, <3>1
  <2>7. CASE r = s
    <3>1. ASSUME NEW x \in Beyond(K, sub, s, q) PROVE x \in Beyond(K, sub, s, n)
      BY <2>3, <3>1 DEF Beyond
    <3>2. ASSUME NEW x \in Beyond(K, sub, s, n) PROVE x \in Beyond(K, sub, s, q)
      <4>1. x \in K /\ x \in Nat /\ Before(s, x, n) /\ x \notin sub[n]
        <5>1. x \in K /\ \A y \in sub[n] : Before(s, x, y)
          BY <3>2 DEF Beyond
        <5>2. ~Before(s, x, x)
          BY <1>1, <5>1 DEF Before
        <5> QED BY <1>1, <2>5, <5>1, <5>2
      <4>2. CASE x \notin sub[q]
        BY <2>6, <4>1, <4>2 DEF Beyond
      <4>3. CASE x \in sub[q]
        <5>1. x = q \/ Before(Opposite(s), x, q)
          BY <2>4, <2>7, <4>1, <4>3
        <5>2. Before(s, n, q)
          BY <2>5, <2>7
        <5> QED BY <2>5, <4>1, <5>1, <5>2 DEF Before, Sides, Opposite
      <4> QED BY <4>2, <4>3
    <3>3. Beyond(K, sub, s, n) = Beyond(K, sub, s, q)
      <4>1. Beyond(K, sub, s, n) \subseteq K /\ Beyond(K, sub, s, q) \subseteq K
        BY DEF Beyond
      <4> QED BY <3>1, <3>2, <4>1
    <3>4. n = t.child[s][t.parent[n]]
      BY <2>1, <2>2, <2>7
    <3> QED BY <2>1, <3>3, <3>4
  <2>8. CASE r # s
    <3>1. r = Opposite(s) /\ s = Opposite(r)
      BY <2>8, SidesAre
    <3>2. q \in Beyond(K, sub, s, n)
      <4>1. \A y \in sub[n] : Before(s, q, y)
        <5> TAKE y \in sub[n]
        <5>1. Before(r, y, q) /\ y \in Nat
          BY <2>3, <2>5
        <5> QED BY <2>5, <3>1, <5>1, SidesOfNat
      <4> QED BY <4>1 DEF Beyond
    <3>3. ASSUME NEW x \in Beyond(K, sub, s, n) PROVE x = q \/ Before(s, x, q)
      <4>1. x \in K /\ Before(s, x, n) /\ x \notin sub[n]
        <5>1. x \in K /\ \A y \in sub[n] : Before(s, x, y)
          BY <3>3 DEF Beyond
        <5>2. ~Before(s, x, x)
          BY <1>1, <5>1 DEF Before
        <5> QED BY <1>1, <2>5, <5>1, <5>2
      <4>2. CASE x \notin sub[q]
        BY <2>5, <2>6, <4>1, <4>2
      <4>3. CASE x \in sub[q]
        BY <2>4, <3>1, <4>1, <4>3
      <4> QED BY <4>2, <4>3
    <3>4. n # t.child[s][t.parent[n]]
      <4> SUFFICES ASSUME n \in {t.child[s][q]} PROVE FALSE
        BY <2>1
      <4>1. t.child[s][q] # Nil
        BY <1>1
      <4>2. Before(s, t.child[s][q], q)
        BY <4>1, ChildIs
      <4>3. Before(s, n, q)
        BY <4>2
      <4> QED BY <2>5, <2>8, <4>3, SidesOfNat
    <3>5. Nearest(s, Beyond(K, sub, s, n), q)
      BY <3>2, <3>3 DEF Nearest
    <3> QED BY <2>1, <3>4, <3>5
  <2> QED BY <2>7, <2>8
<1> QED BY <1>3, <1>4

\* The climb of cceph_rb_next and cceph_rb_prev ends at the nearest node on its
\* side of the subtree it starts from.
LEMMA UpIs ==
  ASSUME NEW t, NEW K, NEW sub, Shape(t, K, sub), NEW s \in Sides
  PROVE  \A n \in K :
           Nearest(s, Beyond(K, sub, s, n),
                   (CHOOSE g : g = [m \in Keys |-> LET p == t.parent[m]
                                                  IN  IF p # Nil /\ m = t.child[s][p] THEN g[p] ELSE p])[n])
<1> DEFINE Fixed(g) == g = [m \in Keys |-> LET p == t.parent[m]
                                          IN  IF p # Nil /\ m = t.child[s][p] THEN g[p] ELSE p]
           f == [m \in Keys |-> IF m \in K THEN CHOOSE e : Nearest(s, Beyond(K, sub, s, m), e) ELSE t.parent[m]]
           Up == CHOOSE g : Fixed(g)
           climbs(m) == t.parent[m] # Nil /\ m = t.child[s][t.parent[m]]
<1>1. /\ Nil \notin K /\ K \subseteq Keys /\ K \subseteq Nat /\ Nil \notin Keys
      /\ \A m \in K : t.child[s][m] \in K \cup {Nil} /\ t.parent[m] \in K \cup {Nil}
      /\ \A m \in Keys \ K : t.child[s][m] = Nil
      /\ \A m \in Keys : t.parent[m] \in Keys \cup {Nil}
  BY ChildrenAre, NilIsNoKey DEF Shape, Pointers, Trees
<1>2. \A m \in K : Beyond(K, sub, s, m) \in SUBSET Nat
  BY <1>1 DEF Beyond
<1>3. \A m \in K : climbs(m) => Beyond(K, sub, s, m) = Beyond(K, sub, s, t.parent[m])
  BY UpStep
<1>4. \A m \in K : ~climbs(m) => Nearest(s, Beyond(K, sub, s, m), t.parent[m])
  <2> SUFFICES ASSUME NEW m \in K, ~climbs(m) PROVE Nearest(s, Beyond(K, sub, s, m), t.parent[m])
    OBVIOUS
  <2>1. CASE t.parent[m] = Nil
    <3>1. Beyond(K, sub, s, m) = {}
      BY <2>1, UpStep
    <3> QED BY <2>1, <3>1 DEF Nearest
  <2>2. CASE t.parent[m] # Nil
    BY <2>2, UpStep
  <2> QED BY <2>1, <2>2
<1>5. \A m \in Keys \ K : ~climbs(m)
  <2> SUFFICES ASSUME NEW m \in Keys \ K, t.parent[m] # Nil PROVE m # t.child[s][t.parent[m]]
    OBVIOUS
  <2>1. t.parent[m] \in Keys
    BY ONLY <1>1, m \in Keys \ K, t.parent[m] # Nil
  <2>2. t.child[s][t.parent[m]] \in K \cup {Nil}
    BY ONLY <1>1, <2>1
  <2> QED BY ONLY <1>1, <2>2, m \in Keys \ K
<1>6. ASSUME NEW m \in Keys PROVE f[m] = IF climbs(m) THEN f[t.parent[m]] ELSE t.parent[m]
  <2>1. CASE m \notin K
    <3>1. f[m] = t.parent[m]
      BY <2>1
    <3>2. ~climbs(m)
      BY <1>5, <2>1
    <3> HIDE DEF f, climbs
    <3> QED BY <3>1, <3>2
  <2>2. CASE m \in K /\ climbs(m)
    <3>1. t.parent[m] \in K /\ t.parent[m] \in Keys
      BY <1>1, <2>2
    <3>2. f[m] = (CHOOSE e : Nearest(s, Beyond(K, sub, s, m), e))
      BY <2>2
    <3>3. f[t.parent[m]] = (CHOOSE e : Nearest(s, Beyond(K, sub, s, t.parent[m]), e))
      BY <3>1
    <3>4. Beyond(K, sub, s, m) = Beyond(K, sub, s, t.parent[m])
      BY <1>3, <2>2
    <3> HIDE DEF f, climbs
    <3>5. f[m] = f[t.parent[m]]
      BY <3>2, <3>3, <3>4
    <3> QED BY <2>2, <3>5
  <2>3. CASE m \in K /\ ~climbs(m)
    <3>1. f[m] = (CHOOSE e : Nearest(s, Beyond(K, sub, s, m), e))
      BY <2>3
    <3>2. Nearest(s, Beyond(K, sub, s, m), t.parent[m])
      BY <1>4, <2>3
    <3> HIDE DEF f, climbs
    <3>3. Nearest(s, Beyond(K, sub, s, m), f[m])
      BY <3>1, <3>2
    <3>4. f[m] = t.parent[m]
      BY <1>2, <2>3, <3>2, <3>3, NearestOnce
    <3> QED BY <2>3, <3>4
  <2> QED BY <2>1, <2>2, <2>3
<1>7. Fixed(f)
  <2>1. f = [m \in Keys |-> f[m]]
    OBVIOUS
  <2> HIDE DEF f
  <2> QED BY <1>6, <2>1
<1>8. Fixed(Up)
  BY <1>7
<1> HIDE DEF Up
<1>9. \A m \in K : Up[m] = IF climbs(m) THEN Up[t.parent[m]] ELSE t.parent[m]
  BY <1>1, <1>8
<1> DEFINE good == {m \in K : Nearest(s, Beyond(K, sub, s, m), Up[m])}
<1>10. ASSUME NEW m \in K, t.parent[m] # Nil => t.parent[m] \in good PROVE m \in good
  <2>1. CASE climbs(m)
    <3>1. Nearest(s, Beyond(K, sub, s, t.parent[m]), Up[t.parent[m]])
      BY <1>10, <2>1
    <3>2. Beyond(K, sub, s, m) = Beyond(K, sub, s, t.parent[m])
      BY <1>3, <2>1
    <3>3. Up[m] = Up[t.parent[m]]
      BY <1>9, <2>1
    <3> QED BY <3>1, <3>2, <3>3
  <2>2. CASE ~climbs(m)
    <3>1. Up[m] = t.parent[m] /\ Nearest(s, Beyond(K, sub, s, m), t.parent[m])
      BY <1>4, <1>9, <2>2
    <3> QED BY <3>1
  <2> QED BY <2>1, <2>2
<1>11. K \subseteq good
  <2> HIDE DEF good
  <2> QED BY <1>10, Downwards
<1> QED BY <1>11 DEF Up

\* cceph_rb_next and cceph_rb_prev find the next node on either side.
LEMMA NeighbourIs ==
  ASSUME NEW t, NEW K, NEW sub, Shape(t, K, sub), NEW s \in Sides, NEW n \in K
  PROVE  Nearest(s, {x \in K : Before(s, x, n)}, Neighbour(t, n, s))
<1> DEFINE Up == CHOOSE g : g = [m \in Keys |-> LET p == t.parent[m]
                                               IN  IF p # Nil /\ m = t.child[s][p] THEN g[p] ELSE p]
           past == {x \in K : Before(s, x, n)}
           o == Opposite(s)
           c == t.child[s][n]
<1>1. Neighbour(t, n, s) = IF c # Nil THEN Outermost(t, c, o) ELSE Up[n]
  BY DEF Neighbour
<1>2. Nearest(s, Beyond(K, sub, s, n), Up[n])
  BY UpIs
<1> HIDE DEF Up
<1>3. /\ Ordered(t, K, sub) /\ Nil \notin K /\ K \subseteq Nat /\ n \in Nat /\ o \in Sides
      /\ sub \in [K -> SUBSET K] /\ n \in sub[n]
      /\ c \in K \cup {Nil}
  BY ChildrenAre, NilIsNoKey, SidesAre DEF Shape, Ordered
<1>4. \A x \in sub[n] : x = n \/ x \in Under(sub, c) \/ Before(o, x, n)
  <2> TAKE x \in sub[n]
  <2>1. x = n \/ x \in Under(sub, c) \/ x \in Under(sub, t.child[o][n])
    BY <1>3, NodesOf
  <2>2. x \in Under(sub, t.child[o][n]) => Before(o, x, n)
    BY <1>3 DEF Ordered
  <2> QED BY <2>1, <2>2
<1>5. \A x \in past : x \in Nat /\ x # n /\ Before(s, x, n) /\ (x \in sub[n] => x \in Under(sub, c))
  <2> TAKE x \in past
  <2>1. x \in Nat /\ x \in K /\ Before(s, x, n) /\ x # n
    BY <1>3 DEF Before
  <2>2. ~Before(o, x, n)
    BY <1>3, <2>1 DEF Before, Opposite, Sides
  <2> QED BY <1>4, <2>1, <2>2
<1>6. \A x \in past : x \notin sub[n] => \A y \in sub[n] : Before(s, x, y)
  BY Interval
<1>7. CASE c = Nil
  <2>1. ASSUME NEW x \in past PROVE x \in Beyond(K, sub, s, n)
    <3>1. x \notin sub[n]
      BY <1>5, <1>7 DEF Under
    <3>2. \A y \in sub[n] : Before(s, x, y)
      BY <1>6, <3>1
    <3> QED BY <3>2 DEF Beyond
  <2>2. ASSUME NEW x \in Beyond(K, sub, s, n) PROVE x \in past
    BY <1>3 DEF Beyond
  <2> HIDE DEF past
  <2>3. past = Beyond(K, sub, s, n)
    BY <2>1, <2>2
  <2>4. Neighbour(t, n, s) = Up[n]
    BY <1>1, <1>7
  <2>5. Nearest(s, past, Neighbour(t, n, s))
    BY <1>2, <2>3, <2>4
  <2> QED BY <2>5 DEF past
<1>8. CASE c # Nil
  <2>1. /\ c \in K /\ sub[c] \subseteq sub[n] /\ Under(sub, c) = sub[c]
        /\ \A x \in sub[c] : Before(s, x, n)
    <3>1. sub[c] \subseteq sub[n] /\ \A x \in sub[c] : Before(s, x, n)
      BY <1>8, ChildIs
    <3> QED BY <1>3, <1>8, <3>1 DEF Under
  <2> DEFINE e == Outermost(t, c, o)
  <2>2. Utmost(t, sub, o, c, e) /\ e \in K
    BY <1>3, <2>1, OutermostIs
  <2> HIDE DEF e
  <2>3. e \in sub[c] /\ e \in Nat /\ \A x \in sub[c] : x = e \/ Before(o, e, x)
    BY <1>3, <2>2 DEF Utmost
  <2>4. e \in past
    BY <2>1, <2>2, <2>3
  <2>5. ASSUME NEW x \in past PROVE x = e \/ Before(s, x, e)
    <3>1. CASE x \in sub[n]
      <4>1. x \in sub[c] /\ x \in Nat
        BY <1>5, <2>1, <3>1
      <4>2. x = e \/ Before(o, e, x)
        BY <2>3, <4>1
      <4> QED BY <2>3, <4>1, <4>2, SidesOfNat
    <3>2. CASE x \notin sub[n]
      BY <1>6, <2>1, <2>3, <3>2
    <3> QED BY <3>1, <3>2
  <2> HIDE DEF past
  <2>6. Nearest(s, past, e)
    BY <2>4, <2>5 DEF Nearest
  <2>7. Neighbour(t, n, s) = e
    BY <1>1, <1>8 DEF e
  <2>8. Nearest(s, past, Neighbour(t, n, s))
    BY <2>6, <2>7
  <2> QED BY <2>8 DEF past
<1> QED BY <1>7, <1>8

\* The nearest of some keys above a node is the least, below it the greatest.
LEMMA NearestIs ==
  ASSUME NEW S \in SUBSET Nat, NEW e
  PROVE  /\ Nearest("right", S, e) => e = IF S = {} THEN Nil ELSE Min(S)
         /\ Nearest("left", S, e) => e = IF S = {} THEN Nil ELSE Max(S)
<1>1. CASE S = {}
  BY <1>1 DEF Nearest
<1>2. CASE S # {}
  <2>1. ASSUME Nearest("right", S, e) PROVE e = Min(S)
    <3>3. e \in S /\ \A x \in S : x = e \/ Before("right", x, e)
      BY <1>2, <2>1 DEF Nearest
    <3>4. \A x \in S : x \in Nat
      OBVIOUS
    <3>1. e \in S /\ e \in Nat /\ \A x \in S : e <= x
      BY <3>3, <3>4 DEF Before
    <3>2. \A x \in S : (\A y \in S : x <= y) => x = e
      BY <3>1
    <3> QED BY <3>1, <3>2 DEF Min
  <2>2. ASSUME Nearest("left", S, e) PROVE e = Max(S)
    <3>3. e \in S /\ \A x \in S : x = e \/ Before("left", x, e)
      BY <1>2, <2>2 DEF Nearest
    <3>4. \A x \in S : x \in Nat
      OBVIOUS
    <3>1. e \in S /\ e \in Nat /\ \A x \in S : e >= x
      BY <3>3, <3>4 DEF Before
    <3>2. \A x \in S : (\A y \in S : x >= y) => x = e
      BY <3>1
    <3> QED BY <3>1, <3>2 DEF Max
  <2> QED BY <1>2, <2>1, <2>2
<1> QED BY <1>1, <1>2

\* In a tree that is in order every walk finds what it is to find.
LEMMA WalksAreRightFollows == TreeInv => WalksAreRight
<1> SUFFICES ASSUME TreeInv, pc = "idle" PROVE WalksAreRight
  BY DEF WalksAreRight
<1>1. PICK sub : Shape(tree, keys, sub)
  BY ShapeOfTree
<1>2. /\ Nil \notin keys /\ tree.root \in keys \cup {Nil} /\ Under(sub, tree.root) = keys
      /\ keys \subseteq Nat /\ keys \subseteq Keys /\ Nil \notin Keys /\ "left" \in Sides /\ "right" \in Sides
  BY <1>1, ChildrenAre, NilIsNoKey DEF Shape, Ordered, Sides
<1>3. ASSUME NEW k \in Keys PROVE SearchEnd(tree, k) = k <=> k \in keys
  <2>1. CASE tree.root = Nil
    <3>1. SearchEnd(tree, k) = Nil /\ keys = {} /\ k # Nil
      BY <1>2, <2>1 DEF SearchEnd, Under
    <3> QED BY <3>1
  <2>2. CASE tree.root # Nil
    <3>1. /\ SearchEnd(tree, k) \in keys
          /\ EndsAt(tree, sub, k, tree.root, SearchEnd(tree, k))
      BY <1>1, <2>2, SearchLands
    <3>2. tree.root \in keys /\ sub[tree.root] = keys
      BY <1>2, <2>2 DEF Under
    <3>3. k \in keys => SearchEnd(tree, k) = k
      BY <1>1, <3>1, <3>2, SearchFinds
    <3> QED BY <3>1, <3>3
  <2> QED BY <2>1, <2>2
<1>4. ASSUME keys # {} PROVE FirstNode(tree) = Min(keys) /\ LastNode(tree) = Max(keys)
  <2>1. tree.root \in keys /\ tree.root # Nil /\ sub[tree.root] = keys
    BY <1>2, <1>4 DEF Under
  <2>2. /\ FirstNode(tree) = Outermost(tree, tree.root, "left")
        /\ LastNode(tree) = Outermost(tree, tree.root, "right")
    BY <2>1 DEF FirstNode, LastNode
  <2>3. /\ Utmost(tree, sub, "left", tree.root, FirstNode(tree))
        /\ Utmost(tree, sub, "right", tree.root, LastNode(tree))
    BY <1>1, <1>2, <2>1, <2>2, OutermostIs
  <2>4. /\ FirstNode(tree) \in keys /\ \A m \in keys : m # FirstNode(tree) => FirstNode(tree) < m
        /\ LastNode(tree) \in keys /\ \A m \in keys : m # LastNode(tree) => m < LastNode(tree)
    BY <2>1, <2>3 DEF Utmost, Before
  <2>5. Nearest("right", keys, FirstNode(tree)) /\ Nearest("left", keys, LastNode(tree))
    BY <1>4, <2>4 DEF Nearest, Before
  <2> QED BY <1>2, <1>4, <2>5, NearestIs
<1>5. ASSUME NEW n \in keys
      PROVE  LET above == {k \in keys : k > n}
                 below == {k \in keys : k < n}
             IN  /\ Neighbour(tree, n, "right") = IF above = {} THEN Nil ELSE Min(above)
                 /\ Neighbour(tree, n, "left") = IF below = {} THEN Nil ELSE Max(below)
  <2> DEFINE above == {k \in keys : k > n}
             below == {k \in keys : k < n}
  <2>1. Nearest("right", {x \in keys : Before("right", x, n)}, Neighbour(tree, n, "right"))
    BY <1>1, <1>2, NeighbourIs
  <2>2. Nearest("left", {x \in keys : Before("left", x, n)}, Neighbour(tree, n, "left"))
    BY <1>1, <1>2, NeighbourIs
  <2>3. {x \in keys : Before("right", x, n)} = above /\ {x \in keys : Before("left", x, n)} = below
    BY <1>2 DEF Before
  <2>4. above \in SUBSET Nat /\ below \in SUBSET Nat
    BY <1>2
  <2> HIDE DEF above, below
  <2>5. Nearest("right", above, Neighbour(tree, n, "right")) /\ Nearest("left", below, Neighbour(tree, n, "left"))
    BY <2>1, <2>2, <2>3
  <2>6. /\ Neighbour(tree, n, "right") = IF above = {} THEN Nil ELSE Min(above)
        /\ Neighbour(tree, n, "left") = IF below = {} THEN Nil ELSE Max(below)
    BY <2>4, <2>5, NearestIs
  <2> QED BY <2>6 DEF above, below
<1> QED BY <1>3, <1>4, <1>5 DEF WalksAreRight

\* Between two calls a search finds exactly the keys of the map, and first, last,
\* next and prev are what their names say.
THEOREM WalksAreRightAlways == Spec => []WalksAreRight
BY TreeInvHolds, WalksAreRightFollows, PTL

----------------------------------------------------------------------------
\* The loops climb.

\* One node more is above a node than above its parent.
LEMMA DepthIs ==
  ASSUME NEW t, NEW K, NEW sub, Shape(t, K, sub), NEW n \in K
  PROVE  /\ Cardinality(Above(K, sub, n)) \in Nat
         /\ t.parent[n] # Nil => Cardinality(Above(K, sub, n)) = Cardinality(Above(K, sub, t.parent[n])) + 1
<1>1. \A m : IsFiniteSet(Above(K, sub, m)) /\ Cardinality(Above(K, sub, m)) \in Nat
  <2> TAKE m
  <2>1. IsFiniteSet(K) /\ Above(K, sub, m) \subseteq K
    BY DEF Shape, Above
  <2> QED BY <2>1, FS_Subset, FS_CardinalityType
<1>2. ASSUME t.parent[n] # Nil
      PROVE  Cardinality(Above(K, sub, n)) = Cardinality(Above(K, sub, t.parent[n])) + 1
  <2> PICK p : p = t.parent[n]
    OBVIOUS
  <2>1. Above(K, sub, n) = Above(K, sub, p) \cup {n} /\ n \notin Above(K, sub, p)
    BY <1>2, AboveIs
  <2>2. Cardinality(Above(K, sub, p) \cup {n}) = Cardinality(Above(K, sub, p)) + 1
    BY <1>1, <2>1, FS_AddElement
  <2> QED BY <2>1, <2>2
<1> QED BY <1>1, <1>2

\* Level, in the terms of these lemmas.
LEMMA LevelIs ==
  ASSUME NEW K, NEW sub, Shape(tree, K, sub)
  PROVE  /\ node \in K => Level = Cardinality(Above(K, sub, node))
         /\ node = Nil /\ parent \in K => Level = Cardinality(Above(K, sub, parent)) + 1
<1>1. Nil \notin K
  BY ChildrenAre DEF Shape
<1>2. \A n \in K : PathTo(n) = Above(K, sub, n)
  BY PathIs
<1> HIDE DEF PathTo
<1> QED BY <1>1, <1>2 DEF Level

\* The same after a step.
LEMMA LevelNext ==
  ASSUME NEW K, NEW sub, Shape(tree', K, sub), node' \in K
  PROVE  Level' = Cardinality(Above(K, sub, node'))
<1>1. node' # Nil
  BY ChildrenAre DEF Shape
<1>2. PathTo(node)' = Above(K, sub, node')
  BY PathFrom DEF PathTo
<1> QED BY <1>1, <1>2 DEF Level

\* A pass that paints and goes on at the grandparent.
LEMMA InsertRecolorClimbs == ASSUME TreeInv, InsertRecolor PROVE Level' < Level
<1>1. Inserting(tree, keys, node) /\ IsRed(tree, tree.parent[node]) /\ IsFiniteSet(keys)
  BY Zenon DEF TreeInv, InsertRecolor, InsertLoops
<1>2. PICK p, g, s : /\ Family(tree, keys, node, p, g, s)
                     /\ tree.color[node] = "red" /\ tree.color[p] = "red" /\ tree.color[g] # "red"
  BY <1>1, InsertPlace
<1> PICK uncle : uncle \in {tree.child[Opposite(s)][g]}
  OBVIOUS
<1>3. /\ p = tree.parent[node] /\ g = tree.parent[p] /\ s = SideOf(tree, p, g)
  BY Zenon, <1>2 DEF Family
<1>4. IsRed(tree, uncle) /\ node' = g
      /\ tree' = Painted(Painted(Painted(tree, uncle, "black"), p, "black"), g, "red")
  BY Zenon, <1>3 DEF InsertRecolor
<1>5. SameShape(tree, Painted(Painted(Painted(tree, uncle, "black"), p, "black"), g, "red"))
  BY <1>1, <1>2, <1>4, RecolorInserts
<1>6. SameShape(tree, tree')
  BY Zenon, <1>4, <1>5
<1>7. PICK sub : Ordered(tree, keys, sub)
  BY <1>1 DEF Inserting
<1>8. Shape(tree, keys, sub) /\ Shape(tree', keys, sub)
  BY <1>1, <1>6, <1>7, SameShapeKeeps DEF Shape, Inserting
<1>9. node \in keys /\ p \in keys /\ g \in keys /\ Nil \notin keys
  BY <1>1, <1>2, ChildrenAre DEF Family, Inserting
<1>10. Level = Cardinality(Above(keys, sub, node))
  BY <1>8, <1>9, LevelIs
<1>11. Level' = Cardinality(Above(keys, sub, g))
  BY <1>4, <1>8, <1>9, LevelNext
<1>12. Cardinality(Above(keys, sub, node)) = Cardinality(Above(keys, sub, p)) + 1
  BY <1>3, <1>8, <1>9, DepthIs
<1>13. Cardinality(Above(keys, sub, p)) = Cardinality(Above(keys, sub, g)) + 1 /\ Cardinality(Above(keys, sub, g)) \in Nat
  BY <1>3, <1>8, <1>9, DepthIs
<1> QED BY <1>10, <1>11, <1>12, <1>13

\* A pass of an insert that rotates is the last one.
LEMMA InsertRotateEnds == ASSUME TreeInv, InsertRotate PROVE ~(InsertLoops \/ EraseLoops)'
<1>1. Inserting(tree, keys, node) /\ IsRed(tree, tree.parent[node]) /\ pc = "insert"
  BY Zenon DEF TreeInv, InsertRotate, InsertLoops
<1>2. PICK p, g, s : /\ Family(tree, keys, node, p, g, s)
                     /\ tree.color[node] = "red" /\ tree.color[p] = "red" /\ tree.color[g] # "red"
  BY <1>1, InsertPlace
<1>3. /\ p = tree.parent[node] /\ g = tree.parent[p] /\ s = SideOf(tree, p, g)
  BY Zenon, <1>2 DEF Family
<1> DEFINE inner == tree.child[Opposite(s)][p] = node
           t     == IF inner THEN Rotate(tree, p, s) ELSE tree
           top   == IF inner THEN node ELSE p
<1>4. /\ ~IsRed(tree, tree.child[Opposite(s)][g])
      /\ tree' = Rotate(Painted(Painted(t, top, "black"), g, "red"), g, Opposite(s))
      /\ node' = IF inner THEN p ELSE node
  BY <1>3 DEF InsertRotate, IsBlack
<1> DEFINE u == Rotate(Painted(Painted(Rotate(tree, p, s), node, "black"), g, "red"), g, Opposite(s))
           v == Rotate(Painted(Painted(tree, p, "black"), g, "red"), g, Opposite(s))
<1>5. IF inner THEN ~IsRed(u, u.parent[p]) ELSE ~IsRed(v, v.parent[node])
  BY <1>1, <1>2, <1>4, RotateInserts
<1>6. ~IsRed(tree', tree'.parent[node'])
  <2>1. CASE inner
    <3>1. tree' = u /\ node' = p
      BY <1>4, <2>1
    <3> HIDE DEF inner, u, v
    <3> QED BY <1>5, <2>1, <3>1
  <2>2. CASE ~inner
    <3>1. tree' = v /\ node' = node
      BY <1>4, <2>2
    <3> HIDE DEF inner, u, v
    <3> QED BY <1>5, <2>2, <3>1
  <2> QED BY <2>1, <2>2
<1>7. pc' = "insert"
  BY Zenon, <1>1 DEF InsertRotate
<1> QED BY <1>6, <1>7 DEF InsertLoops, EraseLoops

\* A pass of an erase that paints goes on at the parent, unless it has turned a
\* red sibling up, after which the parent is red.
LEMMA EraseRecolorClimbs ==
  ASSUME TreeInv, EraseRecolor
  PROVE  (InsertLoops \/ EraseLoops)' => Level' < Level
<1> DEFINE s == SideOf(tree, node, parent)
           other == tree.child[Opposite(s)][parent]
           t == BlackSibling(s)
           w == t.child[Opposite(s)][parent]
<1>1. Erasing(tree, keys, node, parent) /\ IsFiniteSet(keys) /\ pc = "erase"
  BY DEF TreeInv, EraseRecolor, EraseLoops
<1>2. /\ ~IsRed(tree, node) /\ node # tree.root
      /\ \A r \in Sides : ~IsRed(t, t.child[r][w])
      /\ tree' = Painted(t, w, "red") /\ node' = parent /\ pc' = "erase"
  BY <1>1 DEF EraseRecolor, EraseLoops, IsBlack
<1>3. Short(tree, keys, parent, s) /\ tree.child[s][parent] = node
  BY <1>1, <1>2, ErasingIsShort
<1>4. Short(t, keys, parent, s) /\ ~IsRed(t, w)
  BY <1>1, <1>2, SiblingIsBlack
<1> HIDE DEF t
<1>5. SameShape(t, Painted(t, w, "red")) /\ (IsRed(t, parent) => IsRed(Painted(t, w, "red"), parent))
  <2> HIDE DEF s
  <2> QED BY <1>2, <1>4, RecolorErases
<1>6. CASE IsRed(tree, other)
  <2> DEFINE v == Rotate(Painted(Painted(tree, other, "black"), parent, "red"), parent, s)
  <2>1. other \in {tree.child[Opposite(s)][parent]}
    OBVIOUS
  <2>2. IsRed(v, parent)
    <3> HIDE DEF s
    <3> QED BY <1>3, <1>6, <2>1, SiblingTurn
  <2>3. t = v
    BY <1>6 DEF BlackSibling, t
  <2>4. IsRed(tree', node')
    <3> HIDE DEF v
    <3> QED BY <1>2, <1>5, <2>2, <2>3
  <2> QED BY <1>2, <2>4 DEF InsertLoops, EraseLoops, IsBlack
<1>7. CASE ~IsRed(tree, other)
  <2>1. t = tree
    BY <1>7 DEF BlackSibling, t
  <2>2. SameShape(tree, tree')
    BY <1>2, <1>5, <2>1
  <2>3. PICK sub : Ordered(tree, keys, sub)
    BY <1>1 DEF Erasing
  <2>4. Shape(tree, keys, sub) /\ Shape(tree', keys, sub)
    BY <1>1, <2>2, <2>3, SameShapeKeeps DEF Shape, Erasing
  <2>5. /\ parent \in keys /\ Nil \notin keys /\ node \in keys \cup {Nil}
        /\ node # Nil => tree.parent[node] = parent
    <3>1. /\ parent \in keys /\ s \in Sides /\ Nil \notin keys
          /\ \A m \in keys, r \in Sides : tree.child[r][m] # Nil => tree.parent[tree.child[r][m]] = m
          /\ \A m \in keys, r \in Sides : tree.child[r][m] \in keys \cup {Nil}
      <4> HIDE DEF s
      <4> QED BY <1>3, ShortIs
    <3> HIDE DEF s
    <3> QED BY <1>3, <3>1
  <2>6. Level' = Cardinality(Above(keys, sub, parent)) /\ Cardinality(Above(keys, sub, parent)) \in Nat
    BY <1>2, <2>4, <2>5, LevelNext, DepthIs
  <2>7. Level = Cardinality(Above(keys, sub, parent)) + 1
    <3>1. CASE node = Nil
      BY <2>4, <2>5, <3>1, LevelIs
    <3>2. CASE node # Nil
      <4>1. Level = Cardinality(Above(keys, sub, node))
        BY <2>4, <2>5, <3>2, LevelIs
      <4>2. Cardinality(Above(keys, sub, node)) = Cardinality(Above(keys, sub, parent)) + 1
        BY <2>4, <2>5, <3>2, DepthIs
      <4> QED BY <4>1, <4>2
    <3> QED BY <3>1, <3>2
  <2> QED BY <2>6, <2>7
<1> QED BY <1>6, <1>7

\* A pass of an erase that rotates is the last one.
LEMMA EraseRotateEnds == ASSUME TreeInv, EraseRotate PROVE ~(InsertLoops \/ EraseLoops)'
<1>1. pc = "erase"
  BY Zenon DEF EraseRotate, EraseLoops
<1>2. pc' = "erase" /\ node' = tree'.root
  BY Zenon, <1>1 DEF EraseRotate
<1> QED BY <1>2 DEF InsertLoops, EraseLoops

\* No step of a call that goes on stays where it was or goes down again: every
\* insert and every erase ends, after as many passes as the tree is high.
THEOREM PassesClimbAlways == Spec => PassesClimb
<1> DEFINE Loops == InsertLoops \/ EraseLoops
<1>1. TreeInv /\ [Next]_vars => [Loops /\ Loops' => Level' < Level]_vars
  <2> SUFFICES ASSUME TreeInv, Next, Loops, Loops' PROVE Level' < Level
    OBVIOUS
  <2>1. CASE \E k \in Keys : Insert(k) \/ EraseOuter(k) \/ EraseInner(k)
    <3>1. pc = "idle"
      BY Zenon, <2>1 DEF Insert, EraseOuter, EraseInner
    <3> QED BY <3>1 DEF InsertLoops, EraseLoops
  <2>2. CASE InsertRecolor
    BY <2>2, InsertRecolorClimbs
  <2>3. CASE InsertRotate
    BY <2>3, InsertRotateEnds
  <2>4. CASE EraseRecolor
    BY <2>4, EraseRecolorClimbs
  <2>5. CASE EraseRotate
    BY <2>5, EraseRotateEnds
  <2>6. CASE InsertEnds \/ EraseEnds
    <3>1. pc' = "idle"
      BY Zenon, <2>6 DEF InsertEnds, EraseEnds
    <3> QED BY <3>1 DEF InsertLoops, EraseLoops
  <2> QED BY <2>1, <2>2, <2>3, <2>4, <2>5, <2>6 DEF Next, Rebalance
<1> QED BY <1>1, TreeInvHolds, PTL DEF Spec, PassesClimb

=============================================================================
