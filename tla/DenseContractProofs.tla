------------------------ MODULE DenseContractProofs -------------------------
(***************************************************************************)
(* For every graph of components in topological order, every cap, every    *)
(* choice of candidates and every compaction interval, the loop of         *)
(* mtBuildDenseMTasksVerilatorContract keeps an exact picture of the graph *)
(* of groups in its raw lists, caches and answers (ContractInv).  So its   *)
(* searches answer what they are asked, a merge is made only when no path  *)
(* between the two groups would close a cycle, the graph of groups stays   *)
(* acyclic, and the order at the end places every group.                   *)
(***************************************************************************)
EXTENDS DenseContract, Foundations

-----------------------------------------------------------------------------
(* The neighbour lists *)

\* For every group in L: its live list entries are its neighbours, and its dead ones
\* only repeat them.
Represents(list, rt, L, nb) ==
  \A r \in L : list[r] \cap L = nb[r] /\ {rt[s] : s \in list[r]} \ {r} = nb[r]

\* list without some mentions of a and b by each other.
Trimmed(S, list, a, b, D) ==
  \A x \in D : /\ S[x] \subseteq list[x] /\ list[x] \ {a, b} \subseteq S[x]
               /\ x \notin {a, b} => S[x] = list[x]

Rerooted(D, rt, a, b) == [x \in D |-> IF rt[x] = b THEN a ELSE rt[x]]

MergedLists(D, S, P, rt, a, b) == [x \in D |-> MergedList(S, P, Rerooted(D, rt, a, b), a, b, x)]

\* What merging two groups does to the lists of one direction.
LEMMA ListAfterMerge ==
  ASSUME NEW D, NEW rt \in [D -> D], NEW L, L = {x \in D : rt[x] = x}, \A x \in D : rt[rt[x]] = rt[x],
         NEW a \in L, NEW b \in L, a # b, NEW own \in [D -> SUBSET D], NEW other \in [D -> SUBSET D],
         NEW nb \in [L -> SUBSET L], Represents(own, rt, L, nb), Represents(other, rt, L, Inverted(nb)),
         NEW S, Trimmed(S, own, a, b, D), NEW P, Trimmed(P, other, a, b, D)
  PROVE  /\ MergedLists(D, S, P, rt, a, b) \in [D -> SUBSET D]
         /\ Represents(MergedLists(D, S, P, rt, a, b), Rerooted(D, rt, a, b), L \ {b}, MergedGraph(nb, a, b))
<1> DEFINE nr == Rerooted(D, rt, a, b)
           new == [x \in D |-> MergedList(S, P, nr, a, b, x)]
           m == MergedGraph(nb, a, b)
<1>0. a \in D /\ b \in D /\ L \subseteq D /\ rt[a] = a /\ rt[b] = b /\ \A x \in D : rt[x] \in L
  BY Zenon
<1>1. \A x \in D : nr[x] = IF rt[x] = b THEN a ELSE rt[x]
  BY Zenon DEF Rerooted
<1>2. \A x \in D : nr[x] \in L /\ nr[x] # b
  BY Zenon, <1>0, <1>1
<1>3. \A y \in L \ {b} : nr[y] = y
  BY Zenon, <1>0, <1>1
<1>4. /\ \A x \in D : S[x] \subseteq own[x] /\ own[x] \subseteq D /\ P[x] \subseteq other[x] /\ other[x] \subseteq D
      /\ \A x \in D : \A y \in own[x] : y # a /\ y # b => y \in S[x]
      /\ \A x \in D : \A y \in other[x] : y # a /\ y # b => y \in P[x]
      /\ \A x \in D : x # a /\ x # b => S[x] = own[x]
  BY Zenon DEF Trimmed
<1> HIDE DEF nr
<1>5. \A x \in D : new[x] = MergedList(S, P, nr, a, b, x)
  BY Zenon
<1>6. \A y : y \in new[a] <=> y # a /\ y # b /\ (y \in S[a] \/ \E s \in S[b] : y = nr[s])
  <2>1. new[a] = MergedList(S, P, nr, a, b, a)
    BY Zenon, <1>0
  <2> QED BY Zenon, <2>1 DEF MergedList
<1>7. ASSUME NEW x \in D, x # a
      PROVE  \A y : y \in new[x] <=> y \in S[x] \/ (y = a /\ \E s \in P[b] : x = nr[s])
  <2>1. new[x] = MergedList(S, P, nr, a, b, x)
    BY Zenon, <1>0
  <2> QED BY Zenon, <1>7, <2>1 DEF MergedList
<1>8. new \in [D -> SUBSET D]
  <2>1. ASSUME NEW x \in D PROVE new[x] \subseteq D
    <3> HIDE DEF new
    <3>1. CASE x = a
      BY <1>0, <1>2, <1>4, <1>6, <3>1
    <3>2. CASE x # a
      BY <1>0, <1>4, <1>7, <3>2
    <3> QED BY Zenon, <3>1, <3>2
  <2> QED BY Zenon, <1>5, <2>1
<1> HIDE DEF new
<1>9. \A r \in L : nb[r] \subseteq L
  BY Zenon
<1>10. /\ \A r \in L : \A y \in L : y \in own[r] <=> y \in nb[r]
       /\ \A r \in L : \A s \in own[r] : rt[s] # r => rt[s] \in nb[r]
       /\ \A r \in L : r \notin nb[r]
  BY <1>9 DEF Represents
<1>11. /\ \A r \in L : \A y \in L : y \in other[r] <=> r \in nb[y]
       /\ \A r \in L : \A s \in other[r] : rt[s] # r => rt[s] \in L /\ r \in nb[rt[s]]
  <2>1. \A r \in L : \A y : y \in Inverted(nb)[r] <=> y \in L /\ r \in nb[y]
    BY Zenon DEF Inverted
  <2> QED BY <2>1 DEF Represents
<1>12. /\ \A y : y \in m[a] <=> y # a /\ y # b /\ (y \in nb[a] \/ y \in nb[b])
       /\ \A x \in L \ {b} : x # a => \A y : y \in m[x] <=> y # b /\ (y \in nb[x] \/ (y = a /\ b \in nb[x]))
  <2>1. DOMAIN nb = L
    BY Zenon
  <2>2. m[a] = (nb[a] \cup nb[b]) \ {a, b}
    BY Zenon, <2>1 DEF MergedGraph
  <2>3. \A x \in L \ {b} : x # a => m[x] = IF b \in nb[x] THEN (nb[x] \ {b}) \cup {a} ELSE nb[x]
    BY Zenon, <2>1 DEF MergedGraph
  <2> HIDE DEF m
  <2>4. \A y : y \in m[a] <=> y # a /\ y # b /\ (y \in nb[a] \/ y \in nb[b])
    BY Zenon, <2>2
  <2>5. ASSUME NEW x \in L \ {b}, x # a
        PROVE  \A y : y \in m[x] <=> y # b /\ (y \in nb[x] \/ (y = a /\ b \in nb[x]))
    <3>1. CASE b \in nb[x]
      <4>1. m[x] = (nb[x] \ {b}) \cup {a}
        BY Zenon, <2>3, <2>5, <3>1
      <4> QED BY Zenon, <3>1, <4>1
    <3>2. CASE b \notin nb[x]
      <4>1. m[x] = nb[x]
        BY Zenon, <2>3, <2>5, <3>2
      <4> QED BY Zenon, <3>2, <4>1
    <3> QED BY Zenon, <3>1, <3>2
  <2> QED BY Zenon, <2>4, <2>5
<1> HIDE DEF m
<1>13. ASSUME NEW y PROVE y \in m[a] => y \in new[a] /\ y \in L \ {b} /\ y # a
  <2> SUFFICES ASSUME y \in m[a] PROVE y \in new[a] /\ y \in L \ {b} /\ y # a
    OBVIOUS
  <2>1. y # a /\ y # b /\ y \in L /\ (y \in nb[a] \/ y \in nb[b])
    BY Zenon, <1>9, <1>12
  <2>2. CASE y \in nb[a]
    <3>1. y \in S[a]
      BY Zenon, <1>0, <1>4, <1>10, <2>1, <2>2
    <3> QED BY Zenon, <1>6, <2>1, <3>1
  <2>3. CASE y \in nb[b]
    <3>1. y \in S[b] /\ y = nr[y]
      BY Zenon, <1>0, <1>3, <1>4, <1>10, <2>1, <2>3
    <3> QED BY Zenon, <1>6, <2>1, <3>1
  <2> QED BY Zenon, <2>1, <2>2, <2>3
<1>14. ASSUME NEW y \in new[a] PROVE y \in L => y \in m[a]
  <2> SUFFICES ASSUME y \in L PROVE y \in m[a]
    OBVIOUS
  <2>1. y # a /\ y # b /\ (y \in S[a] \/ \E s \in S[b] : y = nr[s])
    BY Zenon, <1>6
  <2>2. CASE y \in S[a]
    BY Zenon, <1>0, <1>4, <1>10, <1>12, <2>1, <2>2
  <2>3. ASSUME NEW s \in S[b], y = nr[s] PROVE y \in m[a]
    <3>1. s \in own[b] /\ s \in D
      BY Zenon, <1>0, <1>4
    <3>2. rt[s] # b /\ y = rt[s]
      BY Zenon, <1>1, <2>1, <2>3, <3>1
    <3> QED BY Zenon, <1>10, <1>12, <2>1, <3>1, <3>2
  <2> QED BY Zenon, <2>1, <2>2, <2>3
<1>15. ASSUME NEW s \in new[a] PROVE nr[s] # a => nr[s] \in m[a]
  <2> SUFFICES ASSUME nr[s] # a PROVE nr[s] \in m[a]
    OBVIOUS
  <2>1. s # a /\ s # b /\ s \in D /\ (s \in S[a] \/ \E t \in S[b] : s = nr[t])
    BY Zenon, <1>0, <1>6, <1>8
  <2>2. CASE s \in S[a]
    <3>1. rt[s] # b /\ nr[s] = rt[s] /\ s \in own[a]
      BY Zenon, <1>0, <1>1, <1>4, <2>1, <2>2
    <3> QED BY Zenon, <1>10, <1>12, <3>1
  <2>3. ASSUME NEW t \in S[b], s = nr[t] PROVE nr[s] \in m[a]
    <3>1. t \in D
      BY Zenon, <1>0, <1>4
    <3>2. s \in L /\ nr[s] = s
      BY Zenon, <1>2, <1>3, <2>3, <3>1
    <3> QED BY Zenon, <1>14, <3>2
  <2> QED BY Zenon, <2>1, <2>2, <2>3
<1>16. ASSUME NEW x \in L \ {b}, x # a PROVE b \in nb[x] <=> \E s \in P[b] : x = nr[s]
  <2>1. ASSUME b \in nb[x] PROVE \E s \in P[b] : x = nr[s]
    <3>1. x \in other[b]
      BY Zenon, <1>11, <2>1
    <3>2. x \in P[b] /\ x = nr[x]
      BY Zenon, <1>0, <1>3, <1>4, <1>16, <3>1
    <3> QED BY Zenon, <3>2
  <2>2. ASSUME NEW s \in P[b], x = nr[s] PROVE b \in nb[x]
    <3>1. s \in other[b] /\ s \in D
      BY Zenon, <1>0, <1>4
    <3>2. rt[s] # b /\ x = rt[s]
      BY Zenon, <1>1, <1>16, <2>2, <3>1
    <3> QED BY Zenon, <1>11, <3>1, <3>2
  <2> QED BY Zenon, <2>1, <2>2
<1>17. ASSUME NEW x \in L \ {b}, x # a PROVE \A y : y \in new[x] <=> y \in own[x] \/ (y = a /\ b \in nb[x])
  BY <1>0, <1>4, <1>7, <1>16, <1>17
<1>18. ASSUME NEW x \in L \ {b}, x # a
       PROVE  new[x] \cap (L \ {b}) = m[x] /\ {nr[s] : s \in new[x]} \ {x} = m[x]
  <2>1. \A y : y \in m[x] <=> y # b /\ (y \in nb[x] \/ (y = a /\ b \in nb[x]))
    BY Zenon, <1>12, <1>18
  <2>2. \A y : y \in new[x] <=> y \in own[x] \/ (y = a /\ b \in nb[x])
    BY Zenon, <1>17, <1>18
  <2>3. \A y \in L : y \in own[x] <=> y \in nb[x]
    BY Zenon, <1>10
  <2>4. \A s \in own[x] : rt[s] # x => rt[s] \in nb[x]
    BY Zenon, <1>10
  <2>5. nb[x] \subseteq L /\ x \notin nb[x] /\ own[x] \subseteq D
    BY Zenon, <1>0, <1>9, <1>10, <1>4
  <2>6. \A y : y \in new[x] \cap (L \ {b}) <=> y \in m[x]
    BY Zenon, <2>1, <2>2, <2>3, <2>5
  <2>7. ASSUME NEW y \in m[x] PROVE y \in new[x] /\ y = nr[y] /\ y # x
    BY Zenon, <1>3, <1>18, <2>1, <2>5, <2>6
  <2>8. ASSUME NEW s \in new[x], nr[s] # x PROVE nr[s] \in m[x]
    <3>1. CASE s = a /\ b \in nb[x]
      BY Zenon, <1>3, <2>1, <3>1
    <3>2. CASE s \in own[x] /\ rt[s] = b
      <4>1. nr[s] = a /\ b \in nb[x]
        BY Zenon, <1>1, <2>4, <2>5, <3>2
      <4> QED BY Zenon, <2>1, <4>1
    <3>3. CASE s \in own[x] /\ rt[s] # b
      <4>1. nr[s] = rt[s] /\ rt[s] \in nb[x]
        BY Zenon, <1>1, <2>4, <2>5, <2>8, <3>3
      <4> QED BY Zenon, <2>1, <3>3, <4>1
    <3> QED BY Zenon, <2>2, <3>1, <3>2, <3>3
  <2> QED BY <2>6, <2>7, <2>8
<1>19. new[a] \cap (L \ {b}) = m[a] /\ {nr[s] : s \in new[a]} \ {a} = m[a]
  <2>1. new[a] \cap (L \ {b}) = m[a]
    BY Zenon, <1>13, <1>14
  <2>2. ASSUME NEW y \in m[a] PROVE y \in new[a] /\ y = nr[y] /\ y # a
    BY Zenon, <1>3, <1>13
  <2> QED BY <1>15, <2>1, <2>2
<1>20. Represents(new, nr, L \ {b}, m)
  BY Zenon, <1>18, <1>19 DEF Represents
<1> QED BY Zenon, <1>8, <1>20 DEF nr, MergedLists, new, m

-----------------------------------------------------------------------------
(* The graph of the groups *)

\* Live, Quotient and the graph they make, for components c and roots rt.
LiveOf(c, rt) == {x \in Comps(c.n) : rt[x] = x}
QuotientOf(c, rt, r) == {rt[v] : v \in UNION {c.succs[u] : u \in {x \in Comps(c.n) : rt[x] = r}}} \ {r}
GraphOf(c, rt) == [r \in LiveOf(c, rt) |-> QuotientOf(c, rt, r)]

Roots(c, rt) == rt \in [Comps(c.n) -> Comps(c.n)] /\ \A x \in Comps(c.n) : rt[rt[x]] = rt[x]

\* What the assumption says of one graph of components.
LEMMA ContractFacts ==
  ASSUME NEW c \in Contracts
  PROVE  /\ c.n \in Nat /\ c.every \in Nat /\ Comps(c.n) \subseteq Nat
         /\ c.succs \in [Comps(c.n) -> SUBSET Comps(c.n)]
         /\ \A u \in Comps(c.n) : \A v \in c.succs[u] : u < v
<1>1. /\ c.n \in Nat /\ c.every \in Nat
      /\ c.succs \in [Comps(c.n) -> SUBSET Comps(c.n)]
      /\ \A u \in Comps(c.n) : \A v \in c.succs[u] : u < v
  BY Zenon, ContractAssumption DEF Comps
<1>2. Comps(c.n) \subseteq Nat
  BY <1>1 DEF Comps
<1> QED BY Zenon, <1>1, <1>2

\* An edge between groups comes from an edge between their members.
LEMMA QuotientEdge ==
  ASSUME NEW c \in Contracts, NEW rt, NEW r, NEW y
  PROVE  y \in QuotientOf(c, rt, r) <=>
           y # r /\ \E u \in Comps(c.n) : rt[u] = r /\ \E v \in c.succs[u] : y = rt[v]
BY Zenon DEF QuotientOf

\* The graph of groups is a graph on the roots.
LEMMA GraphFacts ==
  ASSUME NEW c \in Contracts, NEW rt, Roots(c, rt)
  PROVE  /\ LiveOf(c, rt) \subseteq Comps(c.n)
         /\ \A x \in Comps(c.n) : rt[x] \in LiveOf(c, rt)
         /\ \A r : QuotientOf(c, rt, r) \subseteq LiveOf(c, rt)
         /\ GraphOf(c, rt) \in [LiveOf(c, rt) -> SUBSET LiveOf(c, rt)]
<1>1. /\ c.n \in Nat /\ c.every \in Nat /\ Comps(c.n) \subseteq Nat
      /\ c.succs \in [Comps(c.n) -> SUBSET Comps(c.n)]
      /\ \A u \in Comps(c.n) : \A v \in c.succs[u] : u < v
  BY Zenon, ContractFacts
<1>2. \A x \in Comps(c.n) : rt[x] \in LiveOf(c, rt)
  BY Zenon DEF Roots, LiveOf
<1>3. ASSUME NEW r PROVE QuotientOf(c, rt, r) \subseteq LiveOf(c, rt)
  <2> SUFFICES ASSUME NEW y \in QuotientOf(c, rt, r) PROVE y \in LiveOf(c, rt)
    BY Zenon
  <2>1. PICK u \in Comps(c.n) : rt[u] = r /\ \E v \in c.succs[u] : y = rt[v]
    BY QuotientEdge
  <2>2. PICK v \in c.succs[u] : y = rt[v]
    BY Zenon, <2>1
  <2>3. v \in Comps(c.n)
    BY Zenon, <1>1, <2>2
  <2> QED BY Zenon, <1>2, <2>2, <2>3
<1>4. LiveOf(c, rt) \subseteq Comps(c.n)
  BY Zenon DEF LiveOf
<1> QED BY Zenon, <1>2, <1>3, <1>4 DEF GraphOf

\* Merging b into a merges the two in the graph.
Regrouped(c, rt, a, b, nr) ==
  /\ Roots(c, nr)
  /\ LiveOf(c, nr) = LiveOf(c, rt) \ {b}
  /\ GraphOf(c, nr) = MergedGraph(GraphOf(c, rt), a, b)

\* After the merge of b into a the graph of groups is the merged graph.
LEMMA GraphAfterMerge ==
  ASSUME NEW c \in Contracts, NEW rt, Roots(c, rt), NEW a \in LiveOf(c, rt), NEW b \in LiveOf(c, rt), a # b
  PROVE  Regrouped(c, rt, a, b, Rerooted(Comps(c.n), rt, a, b))
<1> DEFINE D == Comps(c.n)
           L == LiveOf(c, rt)
           nr == Rerooted(D, rt, a, b)
           q == GraphOf(c, rt)
           m == MergedGraph(q, a, b)
<1>0. /\ c.n \in Nat /\ c.every \in Nat /\ Comps(c.n) \subseteq Nat
      /\ c.succs \in [Comps(c.n) -> SUBSET Comps(c.n)]
      /\ \A u \in Comps(c.n) : \A v \in c.succs[u] : u < v
  BY Zenon, ContractFacts
<1>1. a \in D /\ b \in D /\ rt[a] = a /\ rt[b] = b /\ \A x \in D : rt[x] \in D /\ rt[rt[x]] = rt[x]
  BY Zenon DEF LiveOf, Roots
<1>2. \A x \in D : nr[x] = IF rt[x] = b THEN a ELSE rt[x]
  BY Zenon DEF Rerooted
<1>3. nr \in [D -> D]
  BY Zenon, <1>1 DEF Rerooted
<1> HIDE DEF nr
<1>4. \A x \in D : nr[nr[x]] = nr[x]
  BY Zenon, <1>1, <1>2
<1>5. Roots(c, nr)
  BY Zenon, <1>3, <1>4 DEF Roots
<1>6. LiveOf(c, nr) = L \ {b}
  <2>1. ASSUME NEW x \in D PROVE nr[x] = x <=> rt[x] = x /\ x # b
    BY Zenon, <1>1, <1>2
  <2>2. \A x : x \in LiveOf(c, nr) <=> x \in D /\ nr[x] = x
    BY Zenon DEF LiveOf
  <2>3. \A x : x \in L <=> x \in D /\ rt[x] = x
    BY Zenon DEF LiveOf
  <2> HIDE DEF L, D
  <2> QED BY Zenon, <2>1, <2>2, <2>3
<1>7. L \subseteq D /\ DOMAIN q = L /\ \A x \in L : q[x] = QuotientOf(c, rt, x)
  BY Zenon DEF GraphOf, LiveOf
<1>8. b \in L
  BY Zenon
<1>a. ASSUME NEW p \in L \ {b}, NEW r, r # a PROVE r \in m[p] <=> r # b /\ (r \in q[p] \/ (p = a /\ r \in q[b]))
  BY Zenon, <1>7, <1>a, MergedEdge
<1>b. ASSUME NEW p \in L \ {b} PROVE a \in m[p] <=> p # a /\ (a \in q[p] \/ b \in q[p])
  BY Zenon, <1>7, <1>b, MergedIntoA
<1>c. \A x \in L : \A y : y \in q[x] <=> y # x /\ \E u \in D : rt[u] = x /\ \E v \in c.succs[u] : y = rt[v]
  BY <1>7, QuotientEdge
<1>d. \A x : \A y : y \in QuotientOf(c, nr, x) <=> y # x /\ \E u \in D : nr[u] = x /\ \E v \in c.succs[u] : y = nr[v]
  BY Zenon, QuotientEdge
<1>e. \A u \in D : \A v \in c.succs[u] : v \in D
  BY Zenon, <1>0
<1>f. m = [x \in L \ {b} |-> m[x]]
  BY Zenon, <1>7 DEF MergedGraph
<1>g. GraphOf(c, nr) = [x \in L \ {b} |-> QuotientOf(c, nr, x)]
  BY Zenon, <1>6 DEF GraphOf
<1> HIDE DEF m, q, L, D
<1>9. ASSUME NEW x \in L \ {b} PROVE QuotientOf(c, nr, x) = m[x]
  <2>1. ASSUME NEW y, y # a, NEW u \in D, nr[u] = x, NEW v \in c.succs[u], y = nr[v], y # x PROVE y \in m[x]
    <3>1. rt[v] = y /\ y # b
      BY Zenon, <1>1, <1>2, <1>e, <2>1
    <3>2. rt[u] = x \/ (x = a /\ rt[u] = b)
      BY Zenon, <1>2, <2>1
    <3>3. y \in q[x] \/ (x = a /\ y \in q[b])
      BY <1>8, <1>c, <2>1, <3>1, <3>2
    <3> QED BY Zenon, <1>a, <2>1, <3>1, <3>3
  <2>2. ASSUME NEW u \in D, nr[u] = x, NEW v \in c.succs[u], a = nr[v], a # x PROVE a \in m[x]
    <3>1. rt[v] = a \/ rt[v] = b
      BY Zenon, <1>2, <1>e, <2>2
    <3>2. rt[u] = x
      BY Zenon, <1>2, <2>2
    <3>3. a \in q[x] \/ b \in q[x]
      BY <1>c, <2>2, <3>1, <3>2
    <3> QED BY Zenon, <1>b, <2>2, <3>3
  <2>3. ASSUME NEW y, y # a, y \in m[x] PROVE y \in QuotientOf(c, nr, x)
    <3>1. y # b /\ (y \in q[x] \/ (x = a /\ y \in q[b]))
      BY Zenon, <1>a, <2>3
    <3>2. CASE y \in q[x]
      <4>1. PICK u \in D : y # x /\ rt[u] = x /\ \E v \in c.succs[u] : y = rt[v]
        BY <1>c, <3>2
      <4>2. PICK v \in c.succs[u] : y = rt[v]
        BY Zenon, <4>1
      <4>3. nr[u] = x /\ nr[v] = y
        BY Zenon, <1>2, <1>e, <3>1, <4>1, <4>2
      <4> QED BY Zenon, <1>d, <4>1, <4>2, <4>3
    <3>3. CASE x = a /\ y \in q[b]
      <4>1. PICK u \in D : rt[u] = b /\ \E v \in c.succs[u] : y = rt[v]
        BY <1>8, <1>c, <3>3
      <4>2. PICK v \in c.succs[u] : y = rt[v]
        BY Zenon, <4>1
      <4>3. nr[u] = x /\ nr[v] = y
        BY Zenon, <1>2, <1>e, <3>1, <3>3, <4>1, <4>2
      <4> QED BY Zenon, <1>d, <2>3, <3>3, <4>2, <4>3
    <3> QED BY Zenon, <3>1, <3>2, <3>3
  <2>4. ASSUME a \in m[x] PROVE a \in QuotientOf(c, nr, x)
    <3>1. x # a /\ (a \in q[x] \/ b \in q[x])
      BY Zenon, <1>b, <2>4
    <3>2. PICK u \in D : rt[u] = x /\ \E v \in c.succs[u] : rt[v] = a \/ rt[v] = b
      BY <1>c, <3>1
    <3>3. PICK v \in c.succs[u] : rt[v] = a \/ rt[v] = b
      BY Zenon, <3>2
    <3>4. nr[u] = x /\ nr[v] = a
      BY Zenon, <1>1, <1>2, <1>e, <3>2, <3>3
    <3> QED BY Zenon, <1>d, <3>1, <3>3, <3>4
  <2>5. ASSUME NEW y, y \in QuotientOf(c, nr, x) PROVE y \in m[x]
    BY <1>d, <2>1, <2>2, <2>5
  <2>6. \A y : y \in QuotientOf(c, nr, x) <=> y \in m[x]
    BY Zenon, <2>3, <2>4, <2>5
  <2> QED BY Zenon, <2>6
<1>10. GraphOf(c, nr) = m
  BY Zenon, <1>9, <1>f, <1>g
<1> QED BY Zenon, <1>5, <1>6, <1>10 DEF Regrouped, nr, m, q, L, D

-----------------------------------------------------------------------------
(* The searches *)

\* Below(R), with the graph made explicit.
BelowOf(c, rt, R) ==
  LET wave[k \in 0..c.n] ==
        IF k = 0 THEN R ELSE wave[k - 1] \cup UNION {QuotientOf(c, rt, x) : x \in wave[k - 1]}
  IN  wave[c.n]

\* The waves of Below end at what R leads to.
LEMMA BelowIsLeast ==
  ASSUME NEW c \in Contracts, NEW rt, Roots(c, rt), NEW R \in SUBSET LiveOf(c, rt)
  PROVE  LeastClosed(GraphOf(c, rt), R, BelowOf(c, rt, R))
<1> DEFINE D == Comps(c.n)
           L == LiveOf(c, rt)
           Q(x) == QuotientOf(c, rt, x)
           f == [x \in D |-> Q(x)]
           Def(g) == g = [k \in 0..c.n |-> IF k = 0 THEN R ELSE g[k - 1] \cup UNION {Q(x) : x \in g[k - 1]}]
<1>0. c.n \in Nat /\ L \subseteq D /\ \A r : Q(r) \subseteq L
  <2>1. c.n \in Nat
    BY Zenon, ContractFacts
  <2> QED BY Zenon, <2>1, GraphFacts
<1>1. DOMAIN f = D /\ f \in [D -> SUBSET D] /\ \A x \in D : f[x] = Q(x)
  BY Zenon, <1>0
<1>2. R \in SUBSET D
  BY Zenon, <1>0
<1>3. BelowOf(c, rt, R) = (CHOOSE g : Def(g))[c.n]
  BY Zenon DEF BelowOf
<1> HIDE DEF D, f, Q
<1>4. PICK w \in [0..c.n -> SUBSET D] : \A k \in 0..c.n : w[k] = IF k = 0 THEN R ELSE Grow(f, w[k - 1])
  BY Zenon, <1>0, <1>1, <1>2, WaveExists DEF D
<1>5. ASSUME NEW s \in SUBSET D PROVE Grow(f, s) = s \cup UNION {Q(x) : x \in s}
  <2>1. {f[x] : x \in s} = {Q(x) : x \in s}
    BY Zenon, <1>1
  <2> QED BY Zenon, <2>1 DEF Grow
<1>6. \A k \in 0..c.n : k # 0 => k - 1 \in 0..c.n
  BY <1>0
<1>7. Def(w)
  <2>1. \A k \in 0..c.n : w[k] = IF k = 0 THEN R ELSE w[k - 1] \cup UNION {Q(x) : x \in w[k - 1]}
    BY Zenon, <1>4, <1>5, <1>6
  <2>2. w = [k \in 0..c.n |-> w[k]]
    BY Zenon, <1>4
  <2> QED BY Zenon, <2>1, <2>2
<1>8. PICK h : h = CHOOSE g : Def(g)
  BY Zenon
<1>9. Def(h)
  BY Zenon, <1>7, <1>8
<1>10. \A k \in 0..c.n : h[k] = IF k = 0 THEN R ELSE h[k - 1] \cup UNION {Q(x) : x \in h[k - 1]}
  BY Zenon, <1>9
<1>11. h[c.n] = w[c.n]
  <2> DEFINE A == {k \in 0..c.n : h[k] = w[k]}
  <2>0. 0 \in 0..c.n /\ c.n \in 0..c.n /\ 0 \in Int /\ c.n \in Int
    BY <1>0
  <2>1. 0 \in A
    BY Zenon, <1>4, <1>10, <2>0
  <2>2. ASSUME NEW k \in 0..(c.n - 1), k \in A PROVE k + 1 \in A
    <3>1. k + 1 \in 0..c.n /\ k + 1 # 0 /\ (k + 1) - 1 = k /\ k \in 0..c.n
      BY <1>0
    <3>2. w[k + 1] = w[k] \cup UNION {Q(x) : x \in w[k]}
      BY Zenon, <1>4, <1>5, <3>1
    <3>3. h[k + 1] = h[k] \cup UNION {Q(x) : x \in h[k]}
      BY Zenon, <1>10, <3>1
    <3>4. h[k] = w[k]
      BY Zenon, <2>2
    <3>5. h[k + 1] = w[k + 1]
      BY Zenon, <3>2, <3>3, <3>4
    <3> QED BY Zenon, <3>1, <3>5
  <2> HIDE DEF A
  <2>3. \A k \in 0..c.n : k \in A
    BY Zenon, <2>0, <2>1, <2>2, IntervalInduction
  <2> QED BY Zenon, <2>0, <2>3 DEF A
<1>12. w[0] = R /\ \A k \in 1..c.n : w[k] = Grow(f, w[k - 1])
  <2>1. 0 \in 0..c.n /\ \A k \in 1..c.n : k \in 0..c.n /\ k # 0
    BY <1>0
  <2> QED BY Zenon, <1>4, <2>1
<1>13. LeastClosed(f, R, w[c.n])
  BY Zenon, <1>0, <1>1, <1>2, <1>12, WaveIsLeast DEF D
<1>14. DOMAIN GraphOf(c, rt) = L /\ \A x \in L : GraphOf(c, rt)[x] = f[x] /\ f[x] \subseteq L
  <2>1. \A x \in L : GraphOf(c, rt)[x] = Q(x)
    BY Zenon DEF GraphOf, Q
  <2> QED BY Zenon, <1>0, <1>1, <2>1 DEF GraphOf
<1>15. LeastClosed(GraphOf(c, rt), R, w[c.n])
  BY Zenon, <1>0, <1>1, <1>13, <1>14, LeastInPart
<1> QED BY Zenon, <1>3, <1>8, <1>11, <1>15

\* What a search visits is what it reaches.
LEMMA VisitedIsLeast ==
  ASSUME components \in Contracts, NEW S, NEW C, NEW g, NEW L \in SUBSET Sccs, DOMAIN g = L, NEW src \in L,
         \A x \in L : g[x] = gsn(S, C, x) /\ g[x] \subseteq L,
         \A x \in Sccs : gsn(S, C, x) \subseteq Sccs
  PROVE  LeastClosed(g, {src}, Visited(S, C, src))
<1> DEFINE n == components.n
           D == Sccs
           Q(x) == gsn(S, C, x)
           f == [x \in D |-> Q(x)]
           Def(h) == h = [k \in 0..n |-> IF k = 0 THEN {src} ELSE h[k - 1] \cup UNION {Q(x) : x \in h[k - 1]}]
<1>0. n \in Nat /\ D = Comps(n)
  BY Zenon, ContractFacts DEF Sccs, Comps
<1>1. DOMAIN f = D /\ f \in [D -> SUBSET D] /\ \A x \in D : f[x] = Q(x)
  BY Zenon
<1>2. {src} \in SUBSET D
  BY Zenon
<1>3. Visited(S, C, src) = (CHOOSE h : Def(h))[n]
  BY DEF Visited
<1>14. \A x \in L : g[x] = f[x] /\ f[x] \subseteq L
  BY Zenon, <1>1
<1> HIDE DEF D, f, Q, n
<1>4. PICK w \in [0..n -> SUBSET D] : \A k \in 0..n : w[k] = IF k = 0 THEN {src} ELSE Grow(f, w[k - 1])
  <2>1. f \in [Comps(n) -> SUBSET Comps(n)] /\ {src} \in SUBSET Comps(n)
    BY Zenon, <1>0, <1>1, <1>2
  <2>2. \E w \in [0..n -> SUBSET Comps(n)] :
          \A k \in 0..n : w[k] = IF k = 0 THEN {src} ELSE Grow(f, w[k - 1])
    BY Zenon, <1>0, <2>1, WaveExists
  <2> QED BY Zenon, <1>0, <2>2
<1>5. ASSUME NEW s \in SUBSET D PROVE Grow(f, s) = s \cup UNION {Q(x) : x \in s}
  <2>1. {f[x] : x \in s} = {Q(x) : x \in s}
    BY Zenon, <1>1
  <2> QED BY Zenon, <2>1 DEF Grow
<1>6. \A k \in 0..n : k # 0 => k - 1 \in 0..n
  BY <1>0
<1>7. Def(w)
  <2>1. \A k \in 0..n : w[k] = IF k = 0 THEN {src} ELSE w[k - 1] \cup UNION {Q(x) : x \in w[k - 1]}
    BY Zenon, <1>4, <1>5, <1>6
  <2>2. w = [k \in 0..n |-> w[k]]
    BY Zenon, <1>4
  <2> QED BY Zenon, <2>1, <2>2
<1>8. PICK h : h = CHOOSE x : Def(x)
  BY Zenon
<1>9. Def(h)
  BY Zenon, <1>7, <1>8
<1>10. \A k \in 0..n : h[k] = IF k = 0 THEN {src} ELSE h[k - 1] \cup UNION {Q(x) : x \in h[k - 1]}
  BY Zenon, <1>9
<1>11. h[n] = w[n]
  <2> DEFINE A == {k \in 0..n : h[k] = w[k]}
  <2>0. 0 \in 0..n /\ n \in 0..n /\ 0 \in Int /\ n \in Int
    BY <1>0
  <2>1. 0 \in A
    BY Zenon, <1>4, <1>10, <2>0
  <2>2. ASSUME NEW k \in 0..(n - 1), k \in A PROVE k + 1 \in A
    <3>1. k + 1 \in 0..n /\ k + 1 # 0 /\ (k + 1) - 1 = k /\ k \in 0..n
      BY <1>0
    <3>2. w[k + 1] = w[k] \cup UNION {Q(x) : x \in w[k]}
      BY Zenon, <1>4, <1>5, <3>1
    <3>3. h[k + 1] = h[k] \cup UNION {Q(x) : x \in h[k]}
      BY Zenon, <1>10, <3>1
    <3>4. h[k] = w[k]
      BY Zenon, <2>2
    <3>5. h[k + 1] = w[k + 1]
      BY Zenon, <3>2, <3>3, <3>4
    <3> QED BY Zenon, <3>1, <3>5
  <2> HIDE DEF A
  <2>3. \A k \in 0..n : k \in A
    BY Zenon, <2>0, <2>1, <2>2, IntervalInduction
  <2> QED BY Zenon, <2>0, <2>3 DEF A
<1>12. w[0] = {src} /\ \A k \in 1..n : w[k] = Grow(f, w[k - 1])
  <2>1. 0 \in 0..n /\ \A k \in 1..n : k \in 0..n /\ k # 0
    BY <1>0
  <2> QED BY Zenon, <1>4, <2>1
<1>13. LeastClosed(f, {src}, w[n])
  <2>1. f \in [Comps(n) -> SUBSET Comps(n)] /\ {src} \in SUBSET Comps(n)
    BY Zenon, <1>0, <1>1, <1>2
  <2> QED BY Zenon, <1>0, <1>12, <2>1, WaveIsLeast
<1>a. L \in SUBSET D /\ {src} \in SUBSET L
  BY Zenon DEF D
<1>15. LeastClosed(g, {src}, w[n])
  BY Zenon, <1>1, <1>13, <1>14, <1>a, LeastInPart
<1> QED BY Zenon, <1>3, <1>8, <1>11, <1>15

-----------------------------------------------------------------------------
(* The inductive invariant *)

Graph == GraphOf(components, root)

\* A cache that has nothing wrong about the live groups.
ExactCache(C) ==
  /\ C \in [Sccs -> (SUBSET Sccs) \cup {Stale}]
  /\ \A r \in Live : C[r] # Stale => C[r] = Graph[r]

Shape ==
  /\ components \in Contracts
  /\ contractStage \in {"merge", "done"}
  /\ Roots(components, root)
  /\ gS \in [Sccs -> SUBSET Sccs] /\ gP \in [Sccs -> SUBSET Sccs]
  /\ gcost \in [Sccs -> Nat] /\ merges \in Nat

Lists == Represents(gS, root, Live, Graph) /\ Represents(gP, root, Live, Inverted(Graph))

Reaches(a, b) == b \in BelowOf(components, root, Graph[a])

\* Answers M of which none is wrong.
ExactMemo(M) ==
  /\ M \subseteq Live \X Live \X BOOLEAN
  /\ \A a, b \in Live : /\ <<a, b, TRUE>> \in M => Reaches(a, b)
                        /\ <<a, b, FALSE>> \in M => ~Reaches(a, b)

\* After a compaction the lists of live groups have no dead ids.
Compacted == components.every > 0 /\ merges % components.every = 0 => \A r \in Live : gS[r] \subseteq Live

\* The edges among the answers M were rejected for another path.
OnCycles(M) ==
  components.every > 0 /\ merges % components.every = 0 =>
    \A a, b \in Live : <<a, b, TRUE>> \in M /\ b \in gS[a] => b \in BelowOf(components, root, Graph[a] \ {b})

\* Who is in a group, and what it costs.
Members ==
  /\ \A x \in Sccs : x \in components.zero <=> root[x] \in components.zero
  /\ \A r \in Live : /\ gcost[r] = Cost * Cardinality(Group(r))
                     /\ Cardinality(Group(r)) > 1 => gcost[r] <= Cap

ContractInv ==
  /\ Shape /\ Lists /\ ExactCache(gSN) /\ ExactMemo(memo) /\ Compacted /\ OnCycles(memo) /\ Members
  /\ AcyclicGraph(Graph)

\* The names of the module for what the lemmas above call by its parts.
LEMMA Names ==
  /\ Sccs = Comps(components.n) /\ Live = LiveOf(components, root)
  /\ \A r : Quotient(r) = QuotientOf(components, root, r)
  /\ \A R : Below(R) = BelowOf(components, root, R)
<1>1. Sccs = Comps(components.n)
  BY Zenon DEF Sccs, Comps
<1>2. Live = LiveOf(components, root)
  BY Zenon, <1>1 DEF Live, LiveOf
<1>3. ASSUME NEW r PROVE Quotient(r) = QuotientOf(components, root, r)
  BY Zenon, <1>1 DEF Quotient, QuotientOf, Group
<1>4. ASSUME NEW R PROVE Below(R) = BelowOf(components, root, R)
  BY Zenon DEF Below, BelowOf, Quotient, QuotientOf, Group, Sccs, Comps
<1> QED BY Zenon, <1>1, <1>2, <1>3, <1>4

\* The same of the state.
LEMMA GraphNow ==
  ASSUME Shape
  PROVE  /\ Live \subseteq Sccs /\ \A x \in Sccs : root[x] \in Live
         /\ Graph \in [Live -> SUBSET Live]
         /\ \A r \in Live : Graph[r] = Quotient(r)
<1>1. /\ LiveOf(components, root) \subseteq Comps(components.n)
      /\ \A x \in Comps(components.n) : root[x] \in LiveOf(components, root)
      /\ \A r : QuotientOf(components, root, r) \subseteq LiveOf(components, root)
      /\ GraphOf(components, root) \in [LiveOf(components, root) -> SUBSET LiveOf(components, root)]
  BY Zenon, GraphFacts DEF Shape
<1>2. \A r \in LiveOf(components, root) : GraphOf(components, root)[r] = QuotientOf(components, root, r)
  BY Zenon DEF GraphOf
<1> QED BY Zenon, <1>1, <1>2, Names DEF Graph

\* What Below computes in the state.
LEMMA BelowNow ==
  ASSUME Shape, NEW R \in SUBSET Live
  PROVE  LeastClosed(Graph, R, BelowOf(components, root, R))
BY Zenon, Names, BelowIsLeast DEF Shape, Graph

\* A list the searches read is a row of the graph.
LEMMA GsnExact ==
  ASSUME Shape, Lists, NEW C, ExactCache(C)
  PROVE  /\ \A x \in Live : gsn(gS, C, x) = Graph[x]
         /\ \A x \in Sccs : gsn(gS, C, x) \subseteq Sccs
<1>0. Live \subseteq Sccs /\ \A x \in Sccs : root[x] \in Live
  BY Zenon, GraphNow
<1>1. ASSUME NEW x \in Live PROVE gsn(gS, C, x) = Graph[x]
  <2>1. Normalised(gS, x) = Graph[x]
    BY Zenon DEF Lists, Represents, Normalised
  <2> QED BY Zenon, <2>1 DEF gsn, ExactCache
<1>2. ASSUME NEW x \in Sccs PROVE gsn(gS, C, x) \subseteq Sccs
  <2>1. Normalised(gS, x) \subseteq Sccs
    <3>1. gS[x] \subseteq Sccs
      BY Zenon DEF Shape
    <3> QED BY Zenon, <1>0, <3>1 DEF Normalised
  <2>2. C[x] # Stale => C[x] \subseteq Sccs
    <3>1. C[x] \in (SUBSET Sccs) \cup {Stale}
      BY Zenon DEF ExactCache
    <3> HIDE DEF Stale
    <3> QED BY Zenon, <3>1
  <2> QED BY Zenon, <2>1, <2>2 DEF gsn
<1> QED BY Zenon, <1>1, <1>2

\* A search finds what the quotient graph reaches, whatever the cache has.
LEMMA VisitedNow ==
  ASSUME Shape, Lists, NEW C, ExactCache(C), NEW a \in Live
  PROVE  LeastClosed(Graph, {a}, Visited(gS, C, a))
<1>1. /\ \A x \in Live : gsn(gS, C, x) = Graph[x]
      /\ \A x \in Sccs : gsn(gS, C, x) \subseteq Sccs
  BY Zenon, GsnExact
<1>2. Live \in SUBSET Sccs /\ DOMAIN Graph = Live /\ \A x \in Live : Graph[x] \subseteq Live
  BY Zenon, GraphNow
<1>3. components \in Contracts
  BY Zenon DEF Shape
<1>4. \A x \in Live : Graph[x] = gsn(gS, C, x) /\ Graph[x] \subseteq Live
  BY Zenon, <1>1, <1>2
<1>5. \A x \in Sccs : gsn(gS, C, x) \subseteq Sccs
  BY Zenon, <1>1
<1> QED BY Zenon, <1>2, <1>3, <1>4, <1>5, VisitedIsLeast

\* pathExists, whether it searches or remembers, is right.
LEMMA SearchExact ==
  ASSUME Shape, Lists, ExactMemo(memo), NEW C, ExactCache(C), NEW a \in Live, NEW b \in Live, a # b
  PROVE  PathExists(gS, C, a, b) <=> Reaches(a, b)
<1> DEFINE V == Visited(gS, C, a)
           B == BelowOf(components, root, Graph[a])
<1>0. DOMAIN Graph = Live /\ Graph[a] \subseteq Live
  BY Zenon, GraphNow
<1>1. LeastClosed(Graph, {a}, V)
  BY Zenon, VisitedNow
<1>2. LeastClosed(Graph, Graph[a], B)
  BY Zenon, <1>0, BelowNow
<1> HIDE DEF V, B
<1>3. V \subseteq B \cup {a}
  <2>1. B \cup {a} \in SUBSET (DOMAIN Graph) /\ {a} \subseteq B \cup {a}
    BY Zenon, <1>0, <1>2 DEF LeastClosed
  <2>2. Graph[a] \subseteq B /\ \A x \in B : Graph[x] \subseteq B
    BY Zenon, <1>2 DEF LeastClosed
  <2>3. \A x \in B \cup {a} : Graph[x] \subseteq B \cup {a}
    BY Zenon, <2>2
  <2> QED BY Zenon, <1>1, <2>1, <2>3 DEF LeastClosed
<1>4. B \subseteq V
  <2>1. a \in V /\ V \in SUBSET (DOMAIN Graph) /\ \A x \in V : Graph[x] \subseteq V
    BY Zenon, <1>1 DEF LeastClosed
  <2> QED BY Zenon, <1>2, <2>1 DEF LeastClosed
<1>5. b \in V <=> b \in B
  BY Zenon, <1>3, <1>4
<1>6. CASE Known(a, b)
  <2>1. <<a, b, TRUE>> \in memo \/ <<a, b, FALSE>> \in memo
    BY Zenon, <1>6 DEF Known
  <2>2. PathExists(gS, C, a, b) <=> <<a, b, TRUE>> \in memo
    BY Zenon, <1>6 DEF PathExists
  <2> QED BY Zenon, <2>1, <2>2 DEF ExactMemo
<1>7. CASE ~Known(a, b)
  <2>1. PathExists(gS, C, a, b) <=> b \in V
    BY Zenon, <1>7 DEF PathExists, V
  <2> QED BY Zenon, <1>5, <2>1 DEF Reaches, B
<1> QED BY Zenon, <1>6, <1>7

\* What a search leaves in the cache is right.
LEMMA FilledExact ==
  ASSUME Shape, Lists, NEW C, ExactCache(C), NEW a, NEW b
  PROVE  ExactCache(Filled(gS, C, a, b))
<1>1. /\ \A x \in Live : gsn(gS, C, x) = Graph[x]
      /\ \A x \in Sccs : gsn(gS, C, x) \subseteq Sccs
  BY Zenon, GsnExact
<1>2. CASE Known(a, b)
  BY Zenon, <1>2 DEF Filled
<1>3. CASE ~Known(a, b)
  <2> DEFINE F == Filled(gS, C, a, b)
  <2>1. F = [x \in Sccs |-> IF x \in Visited(gS, C, a) THEN gsn(gS, C, x) ELSE C[x]]
    BY Zenon, <1>3 DEF Filled
  <2>2. \A x \in Sccs : F[x] = IF x \in Visited(gS, C, a) THEN gsn(gS, C, x) ELSE C[x]
    BY Zenon, <2>1
  <2>3. C \in [Sccs -> (SUBSET Sccs) \cup {Stale}] /\ \A r \in Live : C[r] # Stale => C[r] = Graph[r]
    BY Zenon DEF ExactCache
  <2>4. \A x \in Sccs : F[x] \in (SUBSET Sccs) \cup {Stale}
    BY Zenon, <1>1, <2>2, <2>3
  <2>5. Live \subseteq Sccs
    BY Zenon, GraphNow
  <2>6. \A r \in Live : F[r] # Stale => F[r] = Graph[r]
    BY Zenon, <1>1, <2>2, <2>3, <2>5
  <2>7. F \in [Sccs -> (SUBSET Sccs) \cup {Stale}]
    BY Zenon, <2>1, <2>4
  <2> QED BY Zenon, <2>6, <2>7 DEF ExactCache
<1> QED BY Zenon, <1>2, <1>3

\* The search without the direct edge from a to b, and without a's cached list.
Without(a, b) == [gS EXCEPT ![a] = @ \ {b}]
Uncached(a) == [gSN EXCEPT ![a] = Stale]

\* The lists a search reads while the direct edge is out.
LEMMA GsnWithout ==
  ASSUME Shape, Lists, ExactCache(gSN), NEW a \in Live, NEW b \in Live
  PROVE  /\ \A x \in Live : x # a => gsn(Without(a, b), Uncached(a), x) = Graph[x]
         /\ gsn(Without(a, b), Uncached(a), a) = {root[s] : s \in gS[a] \ {b}} \ {a}
         /\ \A x \in Sccs : gsn(Without(a, b), Uncached(a), x) \subseteq Sccs
<1> DEFINE S == Without(a, b)
           C == Uncached(a)
<1>0. Live \subseteq Sccs /\ (\A x \in Sccs : root[x] \in Live) /\ a \in Sccs
  BY Zenon, GraphNow
<1>1. gS \in [Sccs -> SUBSET Sccs] /\ gSN \in [Sccs -> (SUBSET Sccs) \cup {Stale}]
  BY Zenon DEF Shape, ExactCache
<1>2. S[a] = gS[a] \ {b} /\ C[a] = Stale /\ \A x \in Sccs : x # a => S[x] = gS[x] /\ C[x] = gSN[x]
  BY Zenon, <1>0, <1>1 DEF Without, Uncached
<1> HIDE DEF S, C
<1>3. ASSUME NEW x \in Sccs, x # a PROVE gsn(S, C, x) = gsn(gS, gSN, x)
  BY Zenon, <1>2, <1>3 DEF gsn, Normalised
<1>4. gsn(S, C, a) = {root[s] : s \in gS[a] \ {b}} \ {a}
  BY Zenon, <1>2 DEF gsn, Normalised
<1>5. /\ \A x \in Live : gsn(gS, gSN, x) = Graph[x]
      /\ \A x \in Sccs : gsn(gS, gSN, x) \subseteq Sccs
  BY Zenon, GsnExact
<1>6. gsn(S, C, a) \subseteq Sccs
  <2>1. gS[a] \subseteq Sccs
    BY Zenon, <1>0, <1>1
  <2> QED BY Zenon, <1>0, <1>4, <2>1
<1>7. \A x \in Live : x # a => gsn(S, C, x) = Graph[x]
  BY Zenon, <1>0, <1>3, <1>5
<1>8. \A x \in Sccs : gsn(S, C, x) \subseteq Sccs
  BY Zenon, <1>3, <1>5, <1>6
<1> QED BY Zenon, <1>4, <1>7, <1>8 DEF S, C

\* What the search without the edge visits, as a graph.
LEMMA VisitedWithout ==
  ASSUME Shape, Lists, ExactCache(gSN), NEW a \in Live, NEW b \in Live,
         NEW g, g = [x \in Live |-> gsn(Without(a, b), Uncached(a), x)]
  PROVE  /\ LeastClosed(g, {a}, Visited(Without(a, b), Uncached(a), a))
         /\ DOMAIN g = Live /\ \A x \in Live : g[x] \subseteq Live
         /\ \A x \in Live : x # a => g[x] = Graph[x]
         /\ g[a] = {root[s] : s \in gS[a] \ {b}} \ {a}
<1> DEFINE S == Without(a, b)
           C == Uncached(a)
<1>1. /\ \A x \in Live : x # a => gsn(S, C, x) = Graph[x]
      /\ gsn(S, C, a) = {root[s] : s \in gS[a] \ {b}} \ {a}
      /\ \A x \in Sccs : gsn(S, C, x) \subseteq Sccs
  BY Zenon, GsnWithout
<1>2. Live \in SUBSET Sccs /\ (\A x \in Sccs : root[x] \in Live) /\ \A x \in Live : Graph[x] \subseteq Live
  BY Zenon, GraphNow
<1>3. components \in Contracts /\ gS[a] \subseteq Sccs
  BY Zenon, <1>2 DEF Shape
<1> HIDE DEF S, C
<1>4. DOMAIN g = Live /\ \A x \in Live : g[x] = gsn(S, C, x)
  BY Zenon DEF S, C
<1>5. \A x \in Live : x # a => g[x] = Graph[x]
  BY Zenon, <1>1, <1>4
<1>6. g[a] = {root[s] : s \in gS[a] \ {b}} \ {a}
  BY Zenon, <1>1, <1>4
<1>7. \A x \in Live : g[x] \subseteq Live
  <2>1. g[a] \subseteq Live
    BY Zenon, <1>2, <1>3, <1>6
  <2> QED BY Zenon, <1>2, <1>5, <2>1
<1>8. \A x \in Live : g[x] = gsn(S, C, x) /\ g[x] \subseteq Live
  BY Zenon, <1>4, <1>7
<1>9. \A x \in Sccs : gsn(S, C, x) \subseteq Sccs
  BY Zenon, <1>1
<1>10. LeastClosed(g, {a}, Visited(S, C, a))
  BY Zenon, <1>2, <1>3, <1>4, <1>8, <1>9, VisitedIsLeast
<1> QED BY Zenon, <1>4, <1>5, <1>6, <1>7, <1>10 DEF S, C

\* A search that does not find b leaves the two groups apart.
LEMMA EdgeApart ==
  ASSUME Shape, Lists, ExactCache(gSN), ExactMemo(memo), AcyclicGraph(Graph), NEW a \in Live, NEW b \in Live, a # b,
         b \in gS[a], ~PathExists(Without(a, b), Uncached(a), a, b)
  PROVE  \E V, W : Apart(Graph, a, b, V, W)
<1> DEFINE g == [x \in Live |-> gsn(Without(a, b), Uncached(a), x)]
           V == Visited(Without(a, b), Uncached(a), a)
           W == BelowOf(components, root, {b})
<1>1. /\ LeastClosed(g, {a}, V)
      /\ DOMAIN g = Live /\ \A x \in Live : g[x] \subseteq Live
      /\ \A x \in Live : x # a => g[x] = Graph[x]
      /\ g[a] = {root[s] : s \in gS[a] \ {b}} \ {a}
  BY Zenon, VisitedWithout
<1>2. /\ Live \subseteq Sccs /\ DOMAIN Graph = Live /\ \A x \in Live : Graph[x] \subseteq Live
      /\ \A x \in Live : root[x] = x
  BY Zenon, GraphNow DEF Live
<1>3. gS[a] \cap Live = Graph[a] /\ {root[s] : s \in gS[a]} \ {a} = Graph[a]
  BY Zenon DEF Lists, Represents
<1>4. b \in Graph[a]
  BY Zenon, <1>3
<1>5. b \notin V
  <2>1. LeastClosed(Graph, Graph[a], BelowOf(components, root, Graph[a]))
    BY Zenon, <1>2, BelowNow
  <2>2. Reaches(a, b)
    BY Zenon, <1>4, <2>1 DEF Reaches, LeastClosed
  <2>3. ~Known(a, b)
    <3>1. <<a, b, FALSE>> \notin memo
      BY Zenon, <2>2 DEF ExactMemo
    <3> QED BY Zenon, <3>1 DEF PathExists, Known
  <2> QED BY Zenon, <2>3 DEF PathExists
<1>6. LeastClosed(Graph, {b}, W)
  BY Zenon, BelowNow
<1>7. a \notin W
  BY Zenon, <1>4, <1>6, NoWayBack
<1> HIDE DEF g, V, W
<1>8. a \in V /\ V \subseteq Live /\ \A x \in V : g[x] \subseteq V
  BY Zenon, <1>1 DEF LeastClosed
<1>9. b \in W /\ W \subseteq Live /\ \A x \in W : Graph[x] \subseteq W
  BY Zenon, <1>2, <1>6 DEF LeastClosed
<1>10. Graph[a] \ {b} \subseteq V
  <2> SUFFICES ASSUME NEW y \in Graph[a] \ {b} PROVE y \in V
    BY Zenon
  <2>1. y \in gS[a] \ {b} /\ y \in Live /\ root[y] = y
    BY Zenon, <1>2, <1>3
  <2>2. y # a
    BY Zenon, <1>3
  <2>3. y \in g[a]
    BY Zenon, <1>1, <2>1, <2>2
  <2> QED BY Zenon, <1>8, <2>3
<1>11. \A x \in V \cap DOMAIN Graph : x # a => Graph[x] \subseteq V
  BY Zenon, <1>1, <1>2, <1>8
<1>12. Apart(Graph, a, b, V, W)
  BY Zenon, <1>5, <1>7, <1>8, <1>9, <1>10, <1>11 DEF Apart
<1> QED BY Zenon, <1>12

\* When neither group reaches the other, they may be merged.
LEMMA SiblingApart ==
  ASSUME Shape, NEW a \in Live, NEW b \in Live, a # b, ~Reaches(a, b), ~Reaches(b, a)
  PROVE  \E V, W : Apart(Graph, a, b, V, W)
<1> DEFINE A == BelowOf(components, root, Graph[a])
           B == BelowOf(components, root, Graph[b])
<1>1. DOMAIN Graph = Live /\ \A x \in Live : Graph[x] \subseteq Live
  BY Zenon, GraphNow
<1>2. LeastClosed(Graph, Graph[a], A) /\ LeastClosed(Graph, Graph[b], B)
  BY Zenon, <1>1, BelowNow
<1>3. b \notin A /\ a \notin B
  BY Zenon DEF Reaches
<1> HIDE DEF A, B
<1>4. Graph[a] \subseteq A /\ \A x \in A : Graph[x] \subseteq A
  BY Zenon, <1>2 DEF LeastClosed
<1>5. Graph[b] \subseteq B /\ \A x \in B : Graph[x] \subseteq B
  BY Zenon, <1>2 DEF LeastClosed
<1>6. Apart(Graph, a, b, A \cup {a}, B \cup {b})
  BY Zenon, <1>3, <1>4, <1>5 DEF Apart
<1> QED BY Zenon, <1>6

\* Where the lists have no dead ids, a search that finds b found another path.
LEMMA EdgeOnCycle ==
  ASSUME Shape, Lists, ExactCache(gSN), NEW a \in Live, NEW b \in Live, a # b, gS[a] \subseteq Live,
         b \in Visited(Without(a, b), Uncached(a), a)
  PROVE  b \in BelowOf(components, root, Graph[a] \ {b})
<1> DEFINE g == [x \in Live |-> gsn(Without(a, b), Uncached(a), x)]
           V == Visited(Without(a, b), Uncached(a), a)
           B == BelowOf(components, root, Graph[a] \ {b})
<1>1. /\ LeastClosed(g, {a}, V)
      /\ DOMAIN g = Live /\ \A x \in Live : g[x] \subseteq Live
      /\ \A x \in Live : x # a => g[x] = Graph[x]
      /\ g[a] = {root[s] : s \in gS[a] \ {b}} \ {a}
  BY Zenon, VisitedWithout
<1>2. DOMAIN Graph = Live /\ (\A x \in Live : Graph[x] \subseteq Live) /\ \A x \in Live : root[x] = x
  BY Zenon, GraphNow DEF Live
<1>3. gS[a] \cap Live = Graph[a] /\ {root[s] : s \in gS[a]} \ {a} = Graph[a]
  BY Zenon DEF Lists, Represents
<1>4. LeastClosed(Graph, Graph[a] \ {b}, B)
  BY Zenon, <1>2, BelowNow
<1> HIDE DEF g, V, B
<1>5. g[a] \subseteq Graph[a] \ {b}
  <2> SUFFICES ASSUME NEW s \in gS[a] \ {b}, root[s] # a PROVE root[s] \in Graph[a] /\ root[s] # b
    BY Zenon, <1>1
  <2>1. root[s] = s
    BY Zenon, <1>2
  <2> QED BY Zenon, <1>3, <2>1
<1>6. Graph[a] \ {b} \subseteq B /\ B \subseteq Live /\ \A x \in B : Graph[x] \subseteq B
  BY Zenon, <1>2, <1>4 DEF LeastClosed
<1>7. \A x \in B \cup {a} : g[x] \subseteq B \cup {a}
  BY Zenon, <1>1, <1>5, <1>6
<1>8. B \cup {a} \in SUBSET (DOMAIN g) /\ {a} \subseteq B \cup {a}
  BY Zenon, <1>1, <1>6
<1>9. V \subseteq B \cup {a}
  BY Zenon, <1>1, <1>7, <1>8 DEF LeastClosed
<1>10. b \in V
  BY Zenon DEF V
<1> QED BY Zenon, <1>9, <1>10 DEF B

\* What an edge search leaves in the cache is right: the list of a, read without
\* its edge, is dropped.
LEMMA EdgeCacheExact ==
  ASSUME Shape, Lists, ExactCache(gSN), NEW a \in Live, NEW b \in Live
  PROVE  ExactCache([Filled(Without(a, b), Uncached(a), a, b) EXCEPT ![a] = Stale])
<1> DEFINE S == Without(a, b)
           C == Uncached(a)
           F == Filled(S, C, a, b)
<1>0. Live \subseteq Sccs /\ a \in Sccs
  BY Zenon, GraphNow
<1>1. /\ \A x \in Live : x # a => gsn(S, C, x) = Graph[x]
      /\ gsn(S, C, a) = {root[s] : s \in gS[a] \ {b}} \ {a}
      /\ \A x \in Sccs : gsn(S, C, x) \subseteq Sccs
  BY Zenon, GsnWithout
<1>2. gSN \in [Sccs -> (SUBSET Sccs) \cup {Stale}] /\ \A r \in Live : gSN[r] # Stale => gSN[r] = Graph[r]
  BY Zenon DEF ExactCache
<1> HIDE DEF Stale
<1>3. /\ C \in [Sccs -> (SUBSET Sccs) \cup {Stale}]
      /\ \A r \in Live : r # a /\ C[r] # Stale => C[r] = Graph[r]
  BY Zenon, <1>0, <1>2 DEF Uncached
<1> HIDE DEF S, C
<1>4. /\ F \in [Sccs -> (SUBSET Sccs) \cup {Stale}]
      /\ \A r \in Live : r # a /\ F[r] # Stale => F[r] = Graph[r]
  <2>1. CASE Known(a, b)
    BY Zenon, <1>3, <2>1 DEF Filled
  <2>2. CASE ~Known(a, b)
    <3>1. F = [x \in Sccs |-> IF x \in Visited(S, C, a) THEN gsn(S, C, x) ELSE C[x]]
      BY Zenon, <2>2 DEF Filled
    <3>2. \A x \in Sccs : F[x] = IF x \in Visited(S, C, a) THEN gsn(S, C, x) ELSE C[x]
      BY Zenon, <3>1
    <3>3. \A x \in Sccs : F[x] \in (SUBSET Sccs) \cup {Stale}
      BY Zenon, <1>1, <1>3, <3>2
    <3>4. F \in [Sccs -> (SUBSET Sccs) \cup {Stale}]
      BY Zenon, <3>1, <3>3
    <3> QED BY Zenon, <1>0, <1>1, <1>3, <3>2, <3>4
  <2> QED BY Zenon, <2>1, <2>2
<1> HIDE DEF F
<1>5. /\ [F EXCEPT ![a] = Stale] \in [Sccs -> (SUBSET Sccs) \cup {Stale}]
      /\ \A r \in Live : [F EXCEPT ![a] = Stale][r] # Stale => [F EXCEPT ![a] = Stale][r] = Graph[r]
  BY Zenon, <1>0, <1>4
<1> QED BY Zenon, <1>5 DEF ExactCache, F, S, C

-----------------------------------------------------------------------------
(* The steps keep the invariant *)

\* A refused candidate changes the answers and the cache only.
LEMMA RefusalKeeps ==
  ASSUME ContractInv, UNCHANGED <<components, contractStage, root, gS, gP, gcost, merges>>,
         ExactCache(gSN'), ExactMemo(memo'), OnCycles(memo')
  PROVE  ContractInv'
<1>1. Sccs' = Sccs /\ Live' = Live /\ Graph' = Graph
  BY Zenon DEF Sccs, Live, Graph
<1>2. Shape' /\ Lists' /\ AcyclicGraph(Graph)'
  BY Zenon, <1>1 DEF ContractInv, Shape, Lists
<1>3. Compacted' /\ Members'
  BY Zenon, <1>1 DEF ContractInv, Compacted, Members, Group
<1>4. ExactCache(gSN)'
  BY Zenon, <1>1 DEF ExactCache
<1>5. ExactMemo(memo)' /\ OnCycles(memo)'
  BY Zenon, <1>1 DEF ExactMemo, OnCycles, Reaches
<1> QED BY Zenon, <1>2, <1>3, <1>4, <1>5 DEF ContractInv

\* Turning the edges round twice changes nothing.
LEMMA InvertedTwice ==
  ASSUME NEW L, NEW q \in [L -> SUBSET L]
  PROVE  Inverted(q) \in [L -> SUBSET L] /\ Inverted(Inverted(q)) = q
<1>0. DOMAIN q = L /\ \A r \in L : q[r] \subseteq L
  BY Zenon
<1>1. DOMAIN Inverted(q) = L /\ \A r \in L : Inverted(q)[r] = {p \in L : r \in q[p]}
  BY Zenon, <1>0 DEF Inverted
<1>2. Inverted(q) \in [L -> SUBSET L]
  BY Zenon, <1>0 DEF Inverted
<1>3. \A r \in L : {p \in L : r \in Inverted(q)[p]} = q[r]
  BY Zenon, <1>0, <1>1
<1>4. Inverted(Inverted(q)) = [r \in L |-> {p \in L : r \in Inverted(q)[p]}]
  BY Zenon, <1>1 DEF Inverted
<1>5. q = [r \in L |-> q[r]]
  BY Zenon
<1>6. Inverted(Inverted(q)) = q
  BY Zenon, <1>3, <1>4, <1>5
<1> QED BY Zenon, <1>2, <1>6

\* A compaction leaves the lists right.
LEMMA CompactRepresents ==
  ASSUME NEW L \in SUBSET Sccs, NEW list \in [Sccs -> SUBSET Sccs], NEW rt, \A x \in L : rt[x] = x,
         NEW nb \in [L -> SUBSET L], \A r \in L : r \notin nb[r], Represents(list, rt, L, nb)
  PROVE  /\ Compact(L, list) \in [Sccs -> SUBSET Sccs]
         /\ Represents(Compact(L, list), rt, L, nb)
         /\ \A r \in L : Compact(L, list)[r] \subseteq L
<1> DEFINE K == Compact(L, list)
<1>1. \A x \in Sccs : K[x] = IF x \in L THEN list[x] \cap L ELSE list[x]
  BY Zenon DEF Compact
<1>2. K \in [Sccs -> SUBSET Sccs]
  BY Zenon DEF Compact
<1> HIDE DEF K
<1>3. ASSUME NEW r \in L PROVE K[r] = nb[r]
  BY Zenon, <1>1 DEF Represents
<1>4. ASSUME NEW r \in L PROVE K[r] \cap L = nb[r] /\ {rt[s] : s \in K[r]} \ {r} = nb[r]
  <2>1. nb[r] \subseteq L /\ r \notin nb[r]
    BY Zenon
  <2>2. \A s \in nb[r] : rt[s] = s
    BY Zenon, <2>1
  <2>3. {rt[s] : s \in nb[r]} = nb[r]
    BY <2>2
  <2>4. K[r] = nb[r]
    BY Zenon, <1>3
  <2> QED BY Zenon, <2>1, <2>3, <2>4
<1>5. \A r \in L : K[r] \subseteq L
  BY Zenon, <1>3
<1>6. Represents(K, rt, L, nb)
  BY Zenon, <1>4 DEF Represents
<1> QED BY Zenon, <1>2, <1>5, <1>6 DEF K

\* The graph after a merge.
LEMMA MergeGraph ==
  ASSUME Shape, NEW a \in Live, NEW b \in Live, a # b, NEW S, NEW P, Merge(S, P, a, b)
  PROVE  /\ root' = Rerooted(Sccs, root, a, b) /\ components' = components /\ Sccs' = Sccs
         /\ Roots(components, root')
         /\ Live' = Live \ {b}
         /\ Graph' = MergedGraph(Graph, a, b)
<1>1. root' = Rerooted(Sccs, root, a, b) /\ components' = components
  BY Zenon DEF Merge, Rerooted
<1>2. Sccs' = Sccs
  BY Zenon, <1>1 DEF Sccs
<1>3. Sccs = Comps(components.n) /\ Live = LiveOf(components, root)
  BY Zenon, Names
<1>4. /\ Roots(components, root')
      /\ LiveOf(components, root') = LiveOf(components, root) \ {b}
      /\ GraphOf(components, root') = MergedGraph(GraphOf(components, root), a, b)
  <2>1. components \in Contracts /\ Roots(components, root)
    BY Zenon DEF Shape
  <2>2. a \in LiveOf(components, root) /\ b \in LiveOf(components, root)
    BY Zenon, <1>3
  <2>3. root' = Rerooted(Comps(components.n), root, a, b)
    BY Zenon, <1>1, <1>3
  <2>4. Regrouped(components, root, a, b, Rerooted(Comps(components.n), root, a, b))
    BY Zenon, <2>1, <2>2, GraphAfterMerge
  <2> QED BY Zenon, <2>3, <2>4 DEF Regrouped
<1>5. Live' = LiveOf(components, root')
  BY Zenon, <1>1, <1>2, <1>3 DEF Live, LiveOf
<1>6. Graph' = GraphOf(components, root')
  BY Zenon, <1>1 DEF Graph
<1> QED BY Zenon, <1>1, <1>2, <1>3, <1>4, <1>5, <1>6 DEF Graph

\* After a merge, with or without a compaction, both raw lists are right.
LEMMA MergeLists ==
  ASSUME Shape, Lists, NEW a \in Live, NEW b \in Live, a # b,
         NEW S, Trimmed(S, gS, a, b, Sccs), NEW P, Trimmed(P, gP, a, b, Sccs), Merge(S, P, a, b)
  PROVE  /\ gS' \in [Sccs -> SUBSET Sccs] /\ gP' \in [Sccs -> SUBSET Sccs]
         /\ Lists' /\ Compacted'
<1> DEFINE nr == Rerooted(Sccs, root, a, b)
           newS == MergedLists(Sccs, S, P, root, a, b)
           newP == MergedLists(Sccs, P, S, root, a, b)
           m == MergedGraph(Graph, a, b)
           im == MergedGraph(Inverted(Graph), a, b)
           L == Live \ {b}
           due == components.every > 0 /\ (merges + 1) % components.every = 0
<1>1. /\ root' = nr /\ components' = components /\ Sccs' = Sccs
      /\ Roots(components, root')
      /\ Live' = L
      /\ Graph' = m
  BY Zenon, MergeGraph
<1>2. /\ gS' = (IF due THEN Compact(L, newS) ELSE newS)
      /\ gP' = (IF due THEN Compact(L, newP) ELSE newP)
      /\ merges' = merges + 1
  BY Zenon DEF Merge, Rerooted, MergedLists
<1>3. /\ Live \subseteq Sccs /\ Graph \in [Live -> SUBSET Live]
      /\ Inverted(Graph) \in [Live -> SUBSET Live] /\ Inverted(Inverted(Graph)) = Graph
      /\ Inverted(m) = im
  <2>1. Live \subseteq Sccs /\ Graph \in [Live -> SUBSET Live]
    BY Zenon, GraphNow
  <2>2. Inverted(Graph) \in [Live -> SUBSET Live] /\ Inverted(Inverted(Graph)) = Graph
    BY Zenon, <2>1, InvertedTwice
  <2>3. Inverted(MergedGraph(Graph, a, b)) = MergedGraph(Inverted(Graph), a, b)
    BY Zenon, <2>1, InvertedMerge
  <2> QED BY Zenon, <2>1, <2>2, <2>3
<1>4. /\ gS \in [Sccs -> SUBSET Sccs] /\ gP \in [Sccs -> SUBSET Sccs]
      /\ root \in [Sccs -> Sccs] /\ \A x \in Sccs : root[root[x]] = root[x]
  BY Zenon, Names DEF Shape, Roots
<1>5. Live = {x \in Sccs : root[x] = x}
  BY Zenon DEF Live
<1>6. Represents(gS, root, Live, Graph) /\ Represents(gP, root, Live, Inverted(Graph))
  BY Zenon DEF Lists
<1>7. newS \in [Sccs -> SUBSET Sccs] /\ Represents(newS, nr, L, m)
  <2>1. Graph \in [Live -> SUBSET Live]
    BY Zenon, <1>3
  <2> QED BY Zenon, <1>4, <1>5, <1>6, <2>1, ListAfterMerge
<1>8. newP \in [Sccs -> SUBSET Sccs] /\ Represents(newP, nr, L, im)
  <2>1. Inverted(Graph) \in [Live -> SUBSET Live] /\ Represents(gS, root, Live, Inverted(Inverted(Graph)))
    BY Zenon, <1>3, <1>6
  <2> QED BY Zenon, <1>4, <1>5, <1>6, <2>1, ListAfterMerge
<1>9. /\ L \in SUBSET Sccs /\ (\A x \in L : nr[x] = x)
      /\ m \in [L -> SUBSET L] /\ im \in [L -> SUBSET L]
  <2>1. L \in SUBSET Sccs /\ \A x \in L : nr[x] = x
    BY Zenon, <1>5 DEF Rerooted
  <2>2. m \in [L -> SUBSET L] /\ im \in [L -> SUBSET L]
    BY <1>3 DEF MergedGraph
  <2> QED BY Zenon, <2>1, <2>2
<1> HIDE DEF nr, newS, newP, m, im, L, due
<1>10. (\A r \in L : r \notin m[r]) /\ \A r \in L : r \notin im[r]
  BY Zenon, <1>7, <1>8 DEF Represents
<1>11. /\ gS' \in [Sccs -> SUBSET Sccs] /\ Represents(gS', nr, L, m)
       /\ due => \A r \in L : gS'[r] \subseteq L
  <2>1. /\ Compact(L, newS) \in [Sccs -> SUBSET Sccs]
        /\ Represents(Compact(L, newS), nr, L, m)
        /\ \A r \in L : Compact(L, newS)[r] \subseteq L
    BY <1>7, <1>9, <1>10, CompactRepresents
  <2> QED BY Zenon, <1>2, <1>7, <2>1
<1>12. gP' \in [Sccs -> SUBSET Sccs] /\ Represents(gP', nr, L, im)
  <2>1. /\ Compact(L, newP) \in [Sccs -> SUBSET Sccs]
        /\ Represents(Compact(L, newP), nr, L, im)
        /\ \A r \in L : Compact(L, newP)[r] \subseteq L
    BY <1>8, <1>9, <1>10, CompactRepresents
  <2> QED BY Zenon, <1>2, <1>8, <2>1
<1>13. Lists'
  BY Zenon, <1>1, <1>3, <1>11, <1>12 DEF Lists
<1>14. Compacted'
  BY Zenon, <1>1, <1>2, <1>11 DEF Compacted, due
<1> QED BY Zenon, <1>11, <1>12, <1>13, <1>14

\* There are n components.
LEMMA SccsFinite ==
  ASSUME Shape
  PROVE  IsFiniteSet(Sccs) /\ Cardinality(Sccs) = components.n
<1>1. components.n \in Nat
  BY Zenon, ContractFacts DEF Shape
<1>2. 0 \in Int /\ components.n - 1 \in Int
  BY <1>1
<1>3. /\ IsFiniteSet(0..(components.n - 1))
      /\ Cardinality(0..(components.n - 1)) =
           IF 0 > components.n - 1 THEN 0 ELSE (components.n - 1) - 0 + 1
  BY Zenon, <1>2, FS_Interval
<1>4. Cardinality(Sccs) = components.n
  BY <1>1, <1>3 DEF Sccs
<1> QED BY Zenon, <1>3, <1>4 DEF Sccs

\* After a merge the costs are those of the members, within the cap.
LEMMA MergeMembers ==
  ASSUME Shape, Members, NEW a \in Live, NEW b \in Live, Candidate(a, b), NEW S, NEW P, Merge(S, P, a, b)
  PROVE  Members' /\ gcost' \in [Sccs -> Nat]
<1>0. /\ a # b /\ ((a \in components.zero) <=> (b \in components.zero)) /\ gcost[a] + gcost[b] <= Cap
  BY DEF Candidate
<1>1. /\ root' = Rerooted(Sccs, root, a, b) /\ components' = components /\ Sccs' = Sccs
      /\ Live' = Live \ {b}
  BY Zenon, <1>0, MergeGraph
<1>2. \A x \in Sccs : root'[x] = IF root[x] = b THEN a ELSE root[x]
  BY Zenon, <1>1 DEF Rerooted
<1>3. Live \subseteq Sccs /\ gcost \in [Sccs -> Nat] /\ Sccs = Comps(components.n) /\ components \in Contracts
  BY Zenon, GraphNow, Names DEF Shape
<1>4. IsFiniteSet(Sccs)
  BY Zenon, SccsFinite
<1>5. \A r : IsFiniteSet(Group(r)) /\ Cardinality(Group(r)) \in Nat
  <2> TAKE r
  <2>1. Group(r) \in SUBSET Sccs
    BY Zenon DEF Group
  <2> QED BY Zenon, <1>4, <2>1, FS_Subset, FS_CardinalityType
<1>6. \A r : Group(r)' = {x \in Sccs : root'[x] = r}
  BY Zenon, <1>1 DEF Group
<1>7. \A r \in Live \ {a, b} : Group(r)' = Group(r)
  BY <1>2, <1>6 DEF Group
<1>8. Group(a)' = Group(a) \cup Group(b)
  BY <1>0, <1>2, <1>6 DEF Group
<1>9. Cardinality(Group(a)') = Cardinality(Group(a)) + Cardinality(Group(b))
  <2>1. Group(a) \cap Group(b) = {}
    BY Zenon, <1>0 DEF Group
  <2>2. Cardinality(Group(a) \cup Group(b)) =
          Cardinality(Group(a)) + Cardinality(Group(b)) - Cardinality(Group(a) \cap Group(b))
    BY Zenon, <1>5, FS_Union
  <2>3. Cardinality({}) = 0
    BY Zenon, FS_EmptySet
  <2>4. Cardinality(Group(a) \cup Group(b)) = Cardinality(Group(a)) + Cardinality(Group(b)) - 0
    BY Zenon, <2>1, <2>2, <2>3
  <2> QED BY <1>5, <1>8, <2>4
<1>10. gcost' = [gcost EXCEPT ![a] = gcost[a] + gcost[b]]
  BY Zenon DEF Merge
<1>11. /\ gcost' \in [Sccs -> Nat] /\ gcost'[a] = gcost[a] + gcost[b]
       /\ \A r \in Live \ {a, b} : gcost'[r] = gcost[r]
  BY <1>3, <1>10
<1>12. ASSUME NEW x \in Sccs PROVE x \in components.zero <=> root'[x] \in components.zero
  <2>1. x \in components.zero <=> root[x] \in components.zero
    BY Zenon DEF Members
  <2> QED BY <1>0, <1>2, <2>1
<1>13. gcost'[a] = Cost * Cardinality(Group(a)') /\ gcost'[a] <= Cap
  <2>1. gcost[a] = Cost * Cardinality(Group(a)) /\ gcost[b] = Cost * Cardinality(Group(b))
    BY Zenon DEF Members
  <2>2. Cost \in Nat
    BY ContractAssumption
  <2>3. \A x, y \in Nat : Cost * x + Cost * y = Cost * (x + y)
    BY <2>2
  <2>4. Cost * Cardinality(Group(a)) + Cost * Cardinality(Group(b)) = Cost * (Cardinality(Group(a)) + Cardinality(Group(b)))
    BY Zenon, <1>5, <2>3
  <2>5. gcost'[a] = Cost * Cardinality(Group(a)')
    BY Zenon, <1>9, <1>11, <2>1, <2>4
  <2> QED BY Zenon, <1>0, <1>11, <2>5
<1>14. ASSUME NEW r \in Live \ {b}
       PROVE  /\ gcost'[r] = Cost * Cardinality(Group(r)')
              /\ Cardinality(Group(r)') > 1 => gcost'[r] <= Cap
  <2>1. CASE r = a
    BY Zenon, <1>13, <2>1
  <2>2. CASE r # a
    <3>1. gcost'[r] = gcost[r] /\ Group(r)' = Group(r) /\ r \in Live
      BY Zenon, <1>7, <1>11, <2>2
    <3> QED BY Zenon, <3>1 DEF Members
  <2> QED BY Zenon, <2>1, <2>2
<1>15. Members'
  BY Zenon, <1>1, <1>12, <1>14 DEF Members
<1> QED BY Zenon, <1>11, <1>15

\* A merge that the search has shown to be safe keeps the invariant.
LEMMA MergeKeeps ==
  ASSUME ContractInv, NEW a \in Live, NEW b \in Live, Candidate(a, b),
         NEW S, Trimmed(S, gS, a, b, Sccs), NEW P, Trimmed(P, gP, a, b, Sccs), Merge(S, P, a, b),
         NEW V, NEW W, Apart(Graph, a, b, V, W)
  PROVE  ContractInv'
<1>0. a # b /\ Shape /\ Lists /\ Members /\ AcyclicGraph(Graph)
  BY Zenon DEF Candidate, ContractInv
<1>1. /\ components' = components /\ Sccs' = Sccs /\ Roots(components, root')
      /\ Live' = Live \ {b} /\ Graph' = MergedGraph(Graph, a, b)
  BY Zenon, <1>0, MergeGraph
<1>2. gS' \in [Sccs -> SUBSET Sccs] /\ gP' \in [Sccs -> SUBSET Sccs] /\ Lists' /\ Compacted'
  BY Zenon, <1>0, MergeLists
<1>3. Members' /\ gcost' \in [Sccs -> Nat]
  BY Zenon, <1>0, MergeMembers
<1>4. /\ memo' = {} /\ gSN' = [x \in Sccs |-> Stale] /\ merges' = merges + 1
      /\ contractStage' = contractStage
  BY Zenon DEF Merge
<1>5. Shape'
  <2>1. merges' \in Nat
    BY <1>0, <1>4 DEF Shape
  <2> QED BY Zenon, <1>0, <1>1, <1>2, <1>3, <1>4, <2>1 DEF Shape
<1>6. ExactCache(gSN)'
  <2>1. gSN' \in [Sccs -> (SUBSET Sccs) \cup {Stale}]
    BY Zenon, <1>4
  <2>2. \A r \in Live' : gSN'[r] = Stale
    BY <1>0, <1>1, <1>4, GraphNow
  <2> QED BY Zenon, <1>1, <2>1, <2>2 DEF ExactCache, Stale
<1>7. ExactMemo(memo)' /\ OnCycles(memo)'
  BY Zenon, <1>4 DEF ExactMemo, OnCycles
<1>8. AcyclicGraph(Graph)'
  <2>1. DOMAIN Graph = Live
    BY Zenon, <1>0, GraphNow
  <2>2. AcyclicGraph(MergedGraph(Graph, a, b))
    BY Zenon, <1>0, <2>1, MergeKeepsAcyclic
  <2> QED BY Zenon, <1>1, <2>2
<1> QED BY Zenon, <1>2, <1>3, <1>5, <1>6, <1>7, <1>8 DEF ContractInv

\* An answer that is right may be remembered.
LEMMA AnswerKept ==
  ASSUME NEW M, ExactMemo(M), NEW a \in Live, NEW b \in Live
  PROVE  /\ Reaches(a, b) => ExactMemo(M \cup {<<a, b, TRUE>>})
         /\ ~Reaches(a, b) => ExactMemo(M \cup {<<a, b, FALSE>>})
<1>1. \A x, y : <<x, y, TRUE>> = <<a, b, TRUE>> => x = a /\ y = b
  OBVIOUS
<1>2. \A x, y : <<x, y, FALSE>> = <<a, b, FALSE>> => x = a /\ y = b
  OBVIOUS
<1>3. \A x, y : <<x, y, FALSE>> # <<a, b, TRUE>> /\ <<x, y, TRUE>> # <<a, b, FALSE>>
  <2> TAKE x, y
  <2>1. <<x, y, FALSE>>[3] = FALSE /\ <<a, b, TRUE>>[3] = TRUE
    BY Zenon
  <2>2. <<x, y, TRUE>>[3] = TRUE /\ <<a, b, FALSE>>[3] = FALSE
    BY Zenon
  <2>3. TRUE # FALSE
    BY Zenon
  <2> QED BY Zenon, <2>1, <2>2, <2>3
<1>4. <<a, b, TRUE>> \in Live \X Live \X BOOLEAN /\ <<a, b, FALSE>> \in Live \X Live \X BOOLEAN
  BY Zenon
<1>5. M \subseteq Live \X Live \X BOOLEAN
  BY Zenon DEF ExactMemo
<1>6. ASSUME Reaches(a, b) PROVE ExactMemo(M \cup {<<a, b, TRUE>>})
  <2>1. M \cup {<<a, b, TRUE>>} \subseteq Live \X Live \X BOOLEAN
    BY Zenon, <1>4, <1>5
  <2>2. ASSUME NEW x \in Live, NEW y \in Live, <<x, y, TRUE>> \in M \cup {<<a, b, TRUE>>} PROVE Reaches(x, y)
    BY Zenon, <1>1, <1>6, <2>2 DEF ExactMemo
  <2>3. ASSUME NEW x \in Live, NEW y \in Live, <<x, y, FALSE>> \in M \cup {<<a, b, TRUE>>} PROVE ~Reaches(x, y)
    BY Zenon, <1>3, <2>3 DEF ExactMemo
  <2> QED BY Zenon, <2>1, <2>2, <2>3 DEF ExactMemo
<1>7. ASSUME ~Reaches(a, b) PROVE ExactMemo(M \cup {<<a, b, FALSE>>})
  <2>1. M \cup {<<a, b, FALSE>>} \subseteq Live \X Live \X BOOLEAN
    BY Zenon, <1>4, <1>5
  <2>2. ASSUME NEW x \in Live, NEW y \in Live, <<x, y, TRUE>> \in M \cup {<<a, b, FALSE>>} PROVE Reaches(x, y)
    BY Zenon, <1>3, <2>2 DEF ExactMemo
  <2>3. ASSUME NEW x \in Live, NEW y \in Live, <<x, y, FALSE>> \in M \cup {<<a, b, FALSE>>} PROVE ~Reaches(x, y)
    BY Zenon, <1>2, <1>7, <2>3 DEF ExactMemo
  <2> QED BY Zenon, <2>1, <2>2, <2>3 DEF ExactMemo
<1> QED BY Zenon, <1>6, <1>7

\* Answers about pairs without an edge.
LEMMA SiblingAnswers ==
  ASSUME NEW M, OnCycles(M), NEW a \in Live, NEW b \in Live, b \notin gS[a], a \notin gS[b]
  PROVE  /\ OnCycles(M \cup {<<a, b, TRUE>>})
         /\ OnCycles(M \cup {<<a, b, FALSE>>, <<b, a, TRUE>>})
<1>1. \A x, y, v : /\ <<x, y, TRUE>> = <<a, b, v>> => x = a /\ y = b
                  /\ <<x, y, TRUE>> = <<b, a, v>> => x = b /\ y = a
  OBVIOUS
<1>2. \A x, y : <<x, y, TRUE>> \in M \cup {<<a, b, TRUE>>} /\ y \in gS[x] => <<x, y, TRUE>> \in M
  BY Zenon, <1>1
<1>3. \A x, y : <<x, y, TRUE>> \in M \cup {<<a, b, FALSE>>, <<b, a, TRUE>>} /\ y \in gS[x] => <<x, y, TRUE>> \in M
  BY Zenon, <1>1
<1> QED BY Zenon, <1>2, <1>3 DEF OnCycles

\* A step along an edge, merged or refused.
LEMMA EdgeStep ==
  ASSUME ContractInv, NEW a \in Sccs, NEW b \in Sccs, TryEdge(a, b)
  PROVE  ContractInv'
<1> DEFINE S == Without(a, b)
           P == [gP EXCEPT ![b] = @ \ {a}]
           C == Uncached(a)
<1>0. /\ Shape /\ Lists /\ ExactCache(gSN) /\ ExactMemo(memo) /\ AcyclicGraph(Graph)
      /\ Compacted /\ OnCycles(memo)
  BY Zenon DEF ContractInv
<1>1. Candidate(a, b) /\ a \in Live /\ b \in Live /\ a # b /\ b \in gS[a]
  BY Zenon DEF TryEdge, Candidate
<1>2. \/ /\ PathExists(S, C, a, b)
         /\ memo' = memo \cup {<<a, b, TRUE>>}
         /\ gSN' = [Filled(S, C, a, b) EXCEPT ![a] = Stale]
         /\ UNCHANGED <<components, contractStage, root, gS, gP, gcost, merges>>
      \/ ~PathExists(S, C, a, b) /\ Merge(S, P, a, b)
  BY Zenon DEF TryEdge, Without, Uncached
<1>3. gS \in [Sccs -> SUBSET Sccs] /\ gP \in [Sccs -> SUBSET Sccs]
  BY Zenon, <1>0 DEF Shape
<1>4. Trimmed(S, gS, a, b, Sccs) /\ Trimmed(P, gP, a, b, Sccs)
  BY <1>3 DEF Trimmed, Without
<1>5. CASE ~PathExists(S, C, a, b) /\ Merge(S, P, a, b)
  <2>1. PICK V, W : Apart(Graph, a, b, V, W)
    BY Zenon, <1>0, <1>1, <1>5, EdgeApart
  <2> QED BY Zenon, <1>1, <1>4, <1>5, <2>1, MergeKeeps
<1>6. CASE /\ PathExists(S, C, a, b)
           /\ memo' = memo \cup {<<a, b, TRUE>>}
           /\ gSN' = [Filled(S, C, a, b) EXCEPT ![a] = Stale]
           /\ UNCHANGED <<components, contractStage, root, gS, gP, gcost, merges>>
  <2>1. ExactCache(gSN')
    BY Zenon, <1>0, <1>1, <1>6, EdgeCacheExact
  <2>2. b \in Graph[a] /\ Reaches(a, b)
    <3>1. b \in Graph[a]
      BY Zenon, <1>0, <1>1 DEF Lists, Represents
    <3>2. Graph[a] \in SUBSET Live
      BY Zenon, <1>0, <1>1, GraphNow
    <3>3. LeastClosed(Graph, Graph[a], BelowOf(components, root, Graph[a]))
      BY Zenon, <1>0, <3>2, BelowNow
    <3> QED BY Zenon, <3>1, <3>3 DEF LeastClosed, Reaches
  <2>3. ExactMemo(memo')
    BY Zenon, <1>0, <1>1, <1>6, <2>2, AnswerKept
  <2>4. OnCycles(memo')
    <3>1. SUFFICES ASSUME components.every > 0 /\ merges % components.every = 0,
                          NEW x \in Live, NEW y \in Live, <<x, y, TRUE>> \in memo', y \in gS[x]
                   PROVE  y \in BelowOf(components, root, Graph[x] \ {y})
      BY Zenon DEF OnCycles
    <3>2. CASE <<x, y, TRUE>> \in memo
      BY Zenon, <1>0, <3>1, <3>2 DEF OnCycles
    <3>3. CASE <<x, y, TRUE>> \notin memo
      <4>1. x = a /\ y = b
        BY <1>6, <3>1, <3>3
      <4>2. b \in Visited(S, C, a)
        BY Zenon, <1>6, <3>3, <4>1 DEF PathExists
      <4>3. gS[a] \subseteq Live
        BY Zenon, <1>0, <1>1, <3>1 DEF Compacted
      <4>4. b \in BelowOf(components, root, Graph[a] \ {b})
        BY Zenon, <1>0, <1>1, <4>2, <4>3, EdgeOnCycle
      <4> QED BY Zenon, <4>1, <4>4
    <3> QED BY Zenon, <3>2, <3>3
  <2> QED BY Zenon, <1>6, <2>1, <2>3, <2>4, RefusalKeeps
<1> QED BY Zenon, <1>2, <1>5, <1>6

\* A step between siblings, merged or refused.
LEMMA SiblingStep ==
  ASSUME ContractInv, NEW a \in Sccs, NEW b \in Sccs, TrySibling(a, b)
  PROVE  ContractInv'
<1> DEFINE C == Filled(gS, gSN, a, b)
<1>0. /\ Shape /\ Lists /\ ExactCache(gSN) /\ ExactMemo(memo) /\ OnCycles(memo)
  BY Zenon DEF ContractInv
<1>1. Candidate(a, b) /\ a \in Live /\ b \in Live /\ a # b /\ b \notin gS[a] /\ a \notin gS[b]
  BY Zenon DEF TrySibling, Candidate
<1>2. ExactCache(C)
  BY Zenon, <1>0, FilledExact
<1>3. ExactCache(Filled(gS, C, b, a))
  BY Zenon, <1>0, <1>2, FilledExact
<1>4. PathExists(gS, gSN, a, b) <=> Reaches(a, b)
  BY Zenon, <1>0, <1>1, SearchExact
<1>5. PathExists(gS, C, b, a) <=> Reaches(b, a)
  BY Zenon, <1>0, <1>1, <1>2, SearchExact
<1> HIDE DEF C
<1>6. \/ /\ Reaches(a, b)
         /\ memo' = memo \cup {<<a, b, TRUE>>} /\ gSN' = C
         /\ UNCHANGED <<components, contractStage, root, gS, gP, gcost, merges>>
      \/ /\ ~Reaches(a, b) /\ Reaches(b, a)
         /\ memo' = memo \cup {<<a, b, FALSE>>, <<b, a, TRUE>>} /\ gSN' = Filled(gS, C, b, a)
         /\ UNCHANGED <<components, contractStage, root, gS, gP, gcost, merges>>
      \/ ~Reaches(a, b) /\ ~Reaches(b, a) /\ Merge(gS, gP, a, b)
  BY Zenon, <1>4, <1>5 DEF TrySibling, C
<1>7. CASE ~Reaches(a, b) /\ ~Reaches(b, a) /\ Merge(gS, gP, a, b)
  <2>1. PICK V, W : Apart(Graph, a, b, V, W)
    BY Zenon, <1>0, <1>1, <1>7, SiblingApart
  <2>2. Trimmed(gS, gS, a, b, Sccs) /\ Trimmed(gP, gP, a, b, Sccs)
    BY Zenon DEF Trimmed
  <2> QED BY Zenon, <1>1, <1>7, <2>1, <2>2, MergeKeeps
<1>8. CASE /\ Reaches(a, b)
           /\ memo' = memo \cup {<<a, b, TRUE>>} /\ gSN' = C
           /\ UNCHANGED <<components, contractStage, root, gS, gP, gcost, merges>>
  <2>1. ExactMemo(memo')
    BY Zenon, <1>0, <1>1, <1>8, AnswerKept
  <2>2. OnCycles(memo')
    BY Zenon, <1>0, <1>1, <1>8, SiblingAnswers
  <2> QED BY Zenon, <1>2, <1>8, <2>1, <2>2, RefusalKeeps
<1>9. CASE /\ ~Reaches(a, b) /\ Reaches(b, a)
           /\ memo' = memo \cup {<<a, b, FALSE>>, <<b, a, TRUE>>} /\ gSN' = Filled(gS, C, b, a)
           /\ UNCHANGED <<components, contractStage, root, gS, gP, gcost, merges>>
  <2>1. ExactMemo(memo')
    <3>1. ExactMemo(memo \cup {<<a, b, FALSE>>})
      BY Zenon, <1>0, <1>1, <1>9, AnswerKept
    <3>2. ExactMemo((memo \cup {<<a, b, FALSE>>}) \cup {<<b, a, TRUE>>})
      BY Zenon, <1>1, <1>9, <3>1, AnswerKept
    <3>3. memo' = (memo \cup {<<a, b, FALSE>>}) \cup {<<b, a, TRUE>>}
      BY Zenon, <1>9
    <3> QED BY Zenon, <3>2, <3>3
  <2>2. OnCycles(memo')
    BY Zenon, <1>0, <1>1, <1>9, SiblingAnswers
  <2> QED BY Zenon, <1>3, <1>9, <2>1, <2>2, RefusalKeeps
<1> QED BY Zenon, <1>6, <1>7, <1>8, <1>9

\* The end of the loop, and a step that changes nothing.
LEMMA StageKeeps ==
  ASSUME ContractInv, contractStage' \in {"merge", "done"},
         UNCHANGED <<components, root, gS, gP, gcost, memo, gSN, merges>>
  PROVE  ContractInv'
<1>1. Sccs' = Sccs /\ Live' = Live /\ Graph' = Graph
  BY Zenon DEF Sccs, Live, Graph
<1>2. Shape' /\ Lists' /\ AcyclicGraph(Graph)'
  BY Zenon, <1>1 DEF ContractInv, Shape, Lists
<1>3. Compacted' /\ Members'
  BY Zenon, <1>1 DEF ContractInv, Compacted, Members, Group
<1>4. ExactCache(gSN)'
  BY Zenon, <1>1 DEF ContractInv, ExactCache
<1>5. ExactMemo(memo)' /\ OnCycles(memo)'
  BY Zenon, <1>1 DEF ContractInv, ExactMemo, OnCycles, Reaches
<1> QED BY Zenon, <1>2, <1>3, <1>4, <1>5 DEF ContractInv

\* At the start every component is a group of its own.
LEMMA StartInv ==
  ASSUME ContractInit
  PROVE  ContractInv
<1>1. /\ components \in Contracts /\ root = [x \in Sccs |-> x] /\ gS = components.succs
      /\ gP = [x \in Sccs |-> {p \in Sccs : x \in components.succs[p]}]
      /\ gcost = [x \in Sccs |-> Cost] /\ memo = {} /\ gSN = [x \in Sccs |-> Stale] /\ merges = 0
      /\ contractStage = "merge"
  BY Zenon DEF ContractInit
<1>2. /\ components.n \in Nat /\ components.every \in Nat /\ Comps(components.n) \subseteq Nat
      /\ components.succs \in [Comps(components.n) -> SUBSET Comps(components.n)]
      /\ \A u \in Comps(components.n) : \A v \in components.succs[u] : u < v
  BY Zenon, <1>1, ContractFacts
<1>3. Sccs = Comps(components.n) /\ \A x \in Sccs : root[x] = x
  BY Zenon, <1>1, Names
<1>4. Cost \in Nat
  BY ContractAssumption
<1>5. Live = Sccs
  BY Zenon, <1>3 DEF Live
<1>6. Shape
  <2>1. Roots(components, root)
    BY Zenon, <1>1, <1>3 DEF Roots
  <2>2. gcost \in [Sccs -> Nat] /\ merges \in Nat
    BY <1>1, <1>4
  <2>3. gS \in [Sccs -> SUBSET Sccs] /\ gP \in [Sccs -> SUBSET Sccs]
    BY Zenon, <1>1, <1>2, <1>3
  <2> QED BY Zenon, <1>1, <2>1, <2>2, <2>3 DEF Shape
<1>7. \A u \in Sccs : u \notin components.succs[u] /\ components.succs[u] \subseteq Sccs
  BY <1>2, <1>3
<1>8. Graph = components.succs
  <2>1. ASSUME NEW r \in Sccs PROVE Graph[r] = components.succs[r]
    <3>1. Graph[r] = QuotientOf(components, root, r)
      BY Zenon, <1>5, <1>6, <2>1, GraphNow, Names
    <3>2. ASSUME NEW y PROVE y \in Graph[r] <=> y \in components.succs[r]
      <4>1. y \in Graph[r] <=>
              y # r /\ \E u \in Comps(components.n) : root[u] = r /\ \E v \in components.succs[u] : y = root[v]
        <5>1. y \in QuotientOf(components, root, r) <=>
                y # r /\ \E u \in Comps(components.n) : root[u] = r /\ \E v \in components.succs[u] : y = root[v]
          BY <1>1, QuotientEdge
        <5> QED BY <3>1, <5>1
      <4>2. (\E u \in Comps(components.n) : root[u] = r /\ \E v \in components.succs[u] : y = root[v])
              <=> y \in components.succs[r]
        <5>1. r \in Comps(components.n) /\ root[r] = r /\ \A v \in components.succs[r] : root[v] = v
          BY Zenon, <1>3, <1>7
        <5>2. \A u \in Comps(components.n) : root[u] = u
          BY Zenon, <1>3
        <5> QED BY <5>1, <5>2
      <4> QED BY Zenon, <1>7, <4>1, <4>2
    <3> QED BY Zenon, <3>2
  <2>2. Graph \in [Sccs -> SUBSET Sccs]
    BY Zenon, <1>5, <1>6, GraphNow
  <2>3. Graph = [r \in Sccs |-> Graph[r]] /\ components.succs = [r \in Sccs |-> components.succs[r]]
    BY Zenon, <1>2, <1>3, <2>2
  <2> QED BY Zenon, <2>1, <2>3
<1>9. gP = Inverted(Graph)
  <2>1. DOMAIN Graph = Sccs
    BY Zenon, <1>2, <1>3, <1>8
  <2> QED BY Zenon, <1>1, <1>8, <2>1 DEF Inverted
<1>10. \A list : (\A r \in Sccs : r \notin list[r] /\ list[r] \subseteq Sccs) => Represents(list, root, Live, list)
  <2> SUFFICES ASSUME NEW list, \A r \in Sccs : r \notin list[r] /\ list[r] \subseteq Sccs, NEW r \in Sccs
               PROVE  list[r] \cap Sccs = list[r] /\ {root[s] : s \in list[r]} \ {r} = list[r]
    BY Zenon, <1>5 DEF Represents
  <2>1. r \notin list[r] /\ list[r] \subseteq Sccs
    OBVIOUS
  <2>2. \A s \in list[r] : root[s] = s
    BY Zenon, <1>3, <2>1
  <2>3. {root[s] : s \in list[r]} = list[r]
    BY <2>2
  <2> QED BY Zenon, <2>1, <2>3
<1>11. Lists
  <2>1. \A r \in Sccs : r \notin gS[r] /\ gS[r] \subseteq Sccs
    BY Zenon, <1>1, <1>7
  <2>2. \A r \in Sccs : r \notin gP[r] /\ gP[r] \subseteq Sccs
    BY Zenon, <1>1, <1>7
  <2>3. Represents(gS, root, Live, gS) /\ Represents(gP, root, Live, gP)
    BY Zenon, <1>10, <2>1, <2>2
  <2> QED BY Zenon, <1>1, <1>8, <1>9, <2>3 DEF Lists
<1>12. ExactCache(gSN)
  <2>1. gSN \in [Sccs -> (SUBSET Sccs) \cup {Stale}]
    BY Zenon, <1>1
  <2>2. \A r \in Live : gSN[r] = Stale
    BY Zenon, <1>1, <1>5
  <2> QED BY Zenon, <2>1, <2>2 DEF ExactCache
<1>13. ExactMemo(memo) /\ OnCycles(memo)
  BY Zenon, <1>1 DEF ExactMemo, OnCycles
<1>14. Compacted
  BY Zenon, <1>1, <1>5, <1>7 DEF Compacted
<1>15. Members
  <2>1. ASSUME NEW r \in Sccs PROVE gcost[r] = Cost /\ Cardinality(Group(r)) = 1
    <3>1. Group(r) = {r}
      BY Zenon, <1>3 DEF Group
    <3> QED BY Zenon, <1>1, <3>1, FS_Singleton
  <2>2. ASSUME NEW r \in Sccs
        PROVE  gcost[r] = Cost * Cardinality(Group(r)) /\ ~(Cardinality(Group(r)) > 1)
    BY <1>4, <2>1
  <2> QED BY Zenon, <1>3, <1>5, <2>2 DEF Members
<1>16. AcyclicGraph(Graph)
  <2>1. DOMAIN Graph = Sccs
    BY Zenon, <1>2, <1>3, <1>8
  <2>2. SUFFICES ASSUME NEW X \in SUBSET Sccs, X # {} PROVE Sourced(Graph, X)
    BY Zenon, <2>1 DEF AcyclicGraph
  <2>3. X \in SUBSET Nat
    BY Zenon, <1>2, <1>3
  <2>4. PICK r \in X : \A y \in X : r <= y
    BY Zenon, <2>2, <2>3, LeastNat
  <2>5. ASSUME NEW p \in X PROVE r \notin Graph[p]
    <3>1. r \in Nat /\ p \in Nat /\ r <= p /\ p \in Comps(components.n)
      BY Zenon, <1>3, <2>3, <2>4
    <3>2. r \in Graph[p] => p < r
      BY Zenon, <1>2, <1>8, <3>1
    <3> QED BY <3>1, <3>2
  <2> QED BY Zenon, <2>5 DEF Sourced
<1> QED BY Zenon, <1>6, <1>11, <1>12, <1>13, <1>14, <1>15, <1>16 DEF ContractInv
-----------------------------------------------------------------------------
(* The order of the groups *)

\* One step of KahnOrder: the groups that have their predecessors in done, and
\* the one of them that is taken.
Ready(done) == {r \in Live \ done : \A p \in Live : r \in Quotient(p) => p \in done}
Taken(done) == root[First(UNION {Group(r) : r \in Ready(done)})]
Placed(s) == {s[i] : i \in 1..Len(s)}
Longer(s) == IF Ready(Placed(s)) = {} THEN s ELSE Append(s, Taken(Placed(s)))

\* As long as a group is missing, one is ready.
LEMMA SomeReady ==
  ASSUME ContractInv, NEW done \in SUBSET Live, done # Live
  PROVE  Ready(done) # {} /\ Taken(done) \in Ready(done)
<1>0. Shape /\ AcyclicGraph(Graph)
  BY Zenon DEF ContractInv
<1>1. /\ Live \subseteq Sccs /\ DOMAIN Graph = Live
      /\ \A r \in Live : Graph[r] = Quotient(r)
  BY Zenon, <1>0, GraphNow
<1> DEFINE X == Live \ done
           U == UNION {Group(r) : r \in Ready(done)}
<1>2. X \in SUBSET (DOMAIN Graph) /\ X # {}
  BY Zenon, <1>1
<1>3. PICK r \in X : \A p \in X : r \notin Graph[p]
  BY Zenon, <1>0, <1>2 DEF AcyclicGraph, Sourced
<1>4. r \in Ready(done)
  BY Zenon, <1>1, <1>3 DEF Ready
<1>5. r \in U
  <2>1. r \in Group(r)
    BY Zenon, <1>1, <1>3 DEF Group, Live
  <2> QED BY Zenon, <1>4, <2>1
<1>6. U \in SUBSET Nat
  <2>1. U \subseteq Sccs
    BY Zenon DEF Group
  <2>2. Sccs \subseteq Nat
    BY Zenon, <1>0, Names, ContractFacts DEF Shape
  <2> QED BY Zenon, <2>1, <2>2
<1>7. \E x \in U : \A y \in U : x <= y
  <2> HIDE DEF U
  <2> QED BY Zenon, <1>5, <1>6, LeastNat
<1>8. First(U) \in U
  BY Zenon, <1>7 DEF First
<1>9. PICK t \in Ready(done) : First(U) \in Group(t)
  BY Zenon, <1>8
<1>10. Taken(done) = t
  BY Zenon, <1>9 DEF Taken, Group
<1> QED BY Zenon, <1>4, <1>9, <1>10

\* An order built so far, and how long it is after k steps.
Ordered(s) ==
  /\ s \in Seq(Live)
  /\ \A i, j \in 1..Len(s) : s[i] = s[j] => i = j
  /\ \A i \in 1..Len(s) : \A p \in Live : s[i] \in Graph[p] => \E j \in 1..(i - 1) : s[j] = p
Counted(s, k) == Placed(s) = Live \/ Cardinality(Placed(s)) = k

\* One more step of KahnOrder.
LEMMA LongerOrdered ==
  ASSUME ContractInv, NEW s, Ordered(s), NEW k \in Nat, Counted(s, k)
  PROVE  Ordered(Longer(s)) /\ Counted(Longer(s), k + 1)
<1>0. Shape
  BY Zenon DEF ContractInv
<1>1. s \in Seq(Live) /\ Placed(s) \in SUBSET Live
  BY DEF Ordered, Placed
<1>2. CASE Placed(s) = Live
  <2>1. Ready(Placed(s)) = {}
    BY Zenon, <1>2 DEF Ready
  <2> QED BY Zenon, <1>2, <2>1 DEF Longer, Counted
<1>3. CASE Placed(s) # Live
  <2> DEFINE x == Taken(Placed(s))
             t == Append(s, x)
  <2>1. x \in Ready(Placed(s))
    BY Zenon, <1>1, <1>3, SomeReady
  <2>2. Longer(s) = t
    BY Zenon, <2>1 DEF Longer
  <2>3. x \in Live /\ x \notin Placed(s) /\ \A p \in Live : x \in Graph[p] => p \in Placed(s)
    BY Zenon, <1>0, <2>1, GraphNow DEF Ready
  <2> HIDE DEF x
  <2>4. /\ t \in Seq(Live) /\ Len(t) = Len(s) + 1 /\ t[Len(s) + 1] = x /\ Len(s) \in Nat
        /\ \A i \in 1..Len(s) : t[i] = s[i]
    BY <1>1, <2>3
  <2> HIDE DEF t
  <2>5. \A i \in 1..Len(t) : i \in 1..Len(s) \/ i = Len(s) + 1
    BY <2>4
  <2>6. \A i \in 1..Len(s) : s[i] # x
    BY Zenon, <2>3 DEF Placed
  <2>7. \A i, j \in 1..Len(t) : t[i] = t[j] => i = j
    <3>1. \A i, j \in 1..Len(s) : t[i] = t[j] => i = j
      BY Zenon, <2>4 DEF Ordered
    <3>2. \A i \in 1..Len(s) : t[i] # x
      BY Zenon, <2>4, <2>6
    <3> QED BY Zenon, <2>4, <2>5, <3>1, <3>2
  <2>8. ASSUME NEW i \in 1..Len(t), NEW p \in Live, t[i] \in Graph[p] PROVE \E j \in 1..(i - 1) : t[j] = p
    <3>1. CASE i \in 1..Len(s)
      <4>1. PICK j \in 1..(i - 1) : s[j] = p
        BY Zenon, <2>4, <2>8, <3>1 DEF Ordered
      <4>2. j \in 1..Len(s)
        BY <2>4, <3>1
      <4> QED BY Zenon, <2>4, <4>1, <4>2
    <3>2. CASE i = Len(s) + 1
      <4>1. p \in Placed(s)
        BY Zenon, <2>3, <2>4, <2>8, <3>2
      <4>2. PICK j \in 1..Len(s) : s[j] = p
        BY Zenon, <4>1 DEF Placed
      <4>3. j \in 1..(i - 1)
        BY <2>4, <3>2
      <4> QED BY Zenon, <2>4, <4>2, <4>3
    <3> QED BY Zenon, <2>5, <3>1, <3>2
  <2>9. Placed(t) = Placed(s) \cup {x}
    <3>1. \A i \in 1..Len(s) : i \in 1..Len(t)
      BY <2>4
    <3>2. Len(s) + 1 \in 1..Len(t)
      BY <2>4
    <3> QED BY <2>4, <2>5, <3>1, <3>2 DEF Placed
  <2>10. Cardinality(Placed(t)) = k + 1
    <3>1. Placed(s) \in SUBSET Sccs /\ IsFiniteSet(Sccs)
      BY Zenon, <1>0, <1>1, GraphNow, SccsFinite
    <3>2. IsFiniteSet(Placed(s))
      BY Zenon, <3>1, FS_Subset
    <3>3. Cardinality(Placed(s)) = k
      BY Zenon, <1>3 DEF Counted
    <3>4. Cardinality(Placed(s) \cup {x}) = IF x \in Placed(s) THEN Cardinality(Placed(s)) ELSE Cardinality(Placed(s)) + 1
      BY Zenon, <3>2, FS_AddElement
    <3> QED BY Zenon, <2>3, <2>9, <3>3, <3>4
  <2>11. Ordered(t)
    BY Zenon, <2>4, <2>7, <2>8 DEF Ordered
  <2> QED BY Zenon, <2>2, <2>10, <2>11 DEF Counted
<1> QED BY Zenon, <1>2, <1>3

\* Every group is placed.
LEMMA KahnComplete ==
  ASSUME ContractInv
  PROVE  Ordered(KahnOrder) /\ Placed(KahnOrder) = Live
<1> DEFINE n == components.n
           S == Seq(Live)
           step == [p \in Int \X S |-> Longer(p[2])]
           Def(g) == g = [k \in 0..n |-> IF k = 0 THEN <<>> ELSE Longer(g[k - 1])]
<1>0. Shape /\ n \in Nat /\ 0 \in Int /\ n \in Int
  <2>1. Shape /\ n \in Nat
    BY Zenon, ContractFacts DEF ContractInv, Shape
  <2> QED BY <2>1
<1>1. KahnOrder = (CHOOSE g : Def(g))[n]
  BY Zenon DEF KahnOrder, Longer, Ready, Taken, Placed
<1>2. ASSUME NEW s \in S PROVE Longer(s) \in S
  <2>1. Placed(s) \in SUBSET Live
    BY DEF Placed
  <2>2. CASE Placed(s) = Live
    <3>1. Ready(Placed(s)) = {}
      BY Zenon, <2>2 DEF Ready
    <3> QED BY Zenon, <3>1 DEF Longer
  <2>3. CASE Placed(s) # Live
    <3>1. Taken(Placed(s)) \in Live
      BY Zenon, <2>1, <2>3, SomeReady DEF Ready
    <3>2. Append(s, Taken(Placed(s))) \in S
      BY <3>1
    <3> QED BY Zenon, <3>2 DEF Longer
  <2> QED BY Zenon, <2>2, <2>3
<1>3. step \in [Int \X S -> S]
  BY Zenon, <1>2
<1>4. \A k \in Int : \A s \in S : step[<<k, s>>] = Longer(s)
  <2> HIDE DEF S
  <2> QED OBVIOUS
<1>5. <<>> \in S
  OBVIOUS
<1> HIDE DEF n, S, step
<1>6. PICK w \in [0..n -> S] : Recurses(w, 0, n, <<>>, step)
  BY Zenon, <1>0, <1>3, <1>5, IntervalRecursion
<1>7. ASSUME NEW k \in 0..n PROVE w[k] = IF k = 0 THEN <<>> ELSE Longer(w[k - 1])
  <2>1. w[k] = IF k = 0 THEN <<>> ELSE step[<<k, w[k - 1]>>]
    BY Zenon, <1>6 DEF Recurses
  <2>2. CASE k # 0
    <3>1. k \in Int /\ k - 1 \in 0..n
      BY <1>0, <2>2
    <3>2. w[k - 1] \in S
      BY Zenon, <1>6, <3>1
    <3>3. step[<<k, w[k - 1]>>] = Longer(w[k - 1])
      BY Zenon, <1>4, <3>1, <3>2
    <3> QED BY Zenon, <2>1, <2>2, <3>3
  <2> QED BY Zenon, <2>1, <2>2
<1>8. Def(w)
  <2>1. w = [k \in 0..n |-> w[k]]
    BY Zenon, <1>6
  <2> QED BY Zenon, <1>7, <2>1
<1>9. PICK h : h = CHOOSE g : Def(g)
  BY Zenon
<1>10. Def(h)
  BY Zenon, <1>8, <1>9
<1>11. \A k \in 0..n : h[k] = IF k = 0 THEN <<>> ELSE Longer(h[k - 1])
  BY Zenon, <1>10
<1>12. Ordered(h[n]) /\ Counted(h[n], n)
  <2> DEFINE A == {k \in 0..n : Ordered(h[k]) /\ Counted(h[k], k)}
  <2>0. 0 \in 0..n /\ n \in 0..n
    BY <1>0
  <2>1. 0 \in A
    <3>1. h[0] = <<>>
      BY Zenon, <1>11, <2>0
    <3>2. Ordered(<<>>)
      BY DEF Ordered
    <3>3. Placed(<<>>) = {}
      BY DEF Placed
    <3>4. Counted(<<>>, 0)
      BY Zenon, <3>3, FS_EmptySet DEF Counted
    <3> QED BY Zenon, <2>0, <3>1, <3>2, <3>4
  <2>2. ASSUME NEW k \in 0..(n - 1), k \in A PROVE k + 1 \in A
    <3>1. k + 1 \in 0..n /\ k + 1 # 0 /\ (k + 1) - 1 = k /\ k \in Nat
      BY <1>0
    <3>2. h[k + 1] = Longer(h[k])
      BY Zenon, <1>11, <3>1
    <3>3. Ordered(h[k]) /\ Counted(h[k], k)
      BY Zenon, <2>2
    <3>4. Ordered(Longer(h[k])) /\ Counted(Longer(h[k]), k + 1)
      BY Zenon, <3>1, <3>3, LongerOrdered
    <3> QED BY Zenon, <3>1, <3>2, <3>4
  <2> HIDE DEF A
  <2>3. \A k \in 0..n : k \in A
    BY Zenon, <1>0, <2>1, <2>2, IntervalInduction
  <2> QED BY Zenon, <2>0, <2>3 DEF A
<1>13. KahnOrder = h[n]
  BY Zenon, <1>1, <1>9
<1>14. Placed(KahnOrder) = Live
  <2>1. Placed(KahnOrder) \in SUBSET Live
    BY <1>12, <1>13 DEF Ordered, Placed
  <2>2. Live \subseteq Sccs /\ IsFiniteSet(Sccs) /\ Cardinality(Sccs) = n
    BY Zenon, <1>0, GraphNow, SccsFinite DEF n
  <2>3. Placed(KahnOrder) \in SUBSET Sccs
    BY Zenon, <2>1, <2>2
  <2>4. CASE Cardinality(Placed(KahnOrder)) = n
    <3>1. Sccs = Placed(KahnOrder)
      BY Zenon, <2>2, <2>3, <2>4, FS_Subset
    <3> QED BY Zenon, <2>1, <2>2, <3>1
  <2> QED BY Zenon, <1>12, <1>13, <2>4 DEF Counted
<1> QED BY Zenon, <1>12, <1>13, <1>14

\* What Materialise returns.
LEMMA MaterialiseOrders ==
  ASSUME ContractInv, Materialise
  PROVE  MTasksWellFormed'
<1> DEFINE K == KahnOrder
<1>0. Shape /\ Members
  BY Zenon DEF ContractInv
<1>1. Ordered(K) /\ Placed(K) = Live
  BY Zenon, KahnComplete
<1>2. /\ mtasks' = [i \in 1..Len(K) |-> Group(K[i])]
      /\ components' = components /\ Sccs' = Sccs
  BY Zenon DEF Materialise, Sccs
<1> HIDE DEF K
<1>3. K \in Seq(Live) /\ Len(K) \in Nat /\ \A i \in 1..Len(K) : K[i] \in Live
  BY <1>1 DEF Ordered
<1>4. Len(mtasks') = Len(K) /\ \A i \in 1..Len(K) : mtasks'[i] = Group(K[i])
  BY <1>2, <1>3
<1>5. /\ Live \subseteq Sccs /\ \A x \in Sccs : root[x] \in Live
      /\ \A r \in Live : Graph[r] = QuotientOf(components, root, r)
      /\ Sccs = Comps(components.n) /\ components \in Contracts
  BY Zenon, <1>0, GraphNow, Names DEF Shape
<1>6. \A i, j \in 1..Len(K) : K[i] = K[j] => i = j
  BY Zenon, <1>1 DEF Ordered
<1>7. ASSUME NEW x \in Sccs PROVE Cardinality({i \in 1..Len(K) : x \in mtasks'[i]}) = 1
  <2>1. root[x] \in Placed(K)
    BY Zenon, <1>1, <1>5
  <2>2. PICK i \in 1..Len(K) : K[i] = root[x]
    BY Zenon, <2>1 DEF Placed
  <2>3. ASSUME NEW j \in 1..Len(K) PROVE x \in mtasks'[j] <=> j = i
    <3>1. x \in mtasks'[j] <=> root[x] = K[j]
      BY Zenon, <1>4 DEF Group
    <3> QED BY Zenon, <1>6, <2>2, <3>1
  <2>4. {j \in 1..Len(K) : x \in mtasks'[j]} = {i}
    BY Zenon, <2>3
  <2> QED BY Zenon, <2>4, FS_Singleton
<1>8. ASSUME NEW i \in 1..Len(K), NEW j \in 1..Len(K), i > j,
             NEW u \in mtasks'[i], NEW v \in components.succs[u] \cap mtasks'[j]
      PROVE  FALSE
  <2>1. u \in Sccs /\ root[u] = K[i] /\ root[v] = K[j]
    BY Zenon, <1>4 DEF Group
  <2>2. K[j] # K[i]
    <3>1. i # j
      BY <1>8
    <3> QED BY Zenon, <1>6, <3>1
  <2>3. K[j] \in Graph[K[i]]
    <3>1. u \in Comps(components.n) /\ v \in components.succs[u]
      BY Zenon, <1>5, <2>1
    <3>2. K[j] \in QuotientOf(components, root, K[i])
      BY <1>5, <2>1, <2>2, <3>1, QuotientEdge
    <3> QED BY Zenon, <1>3, <1>5, <3>2
  <2>4. PICK k \in 1..(j - 1) : K[k] = K[i]
    BY Zenon, <1>1, <1>3, <2>3 DEF Ordered
  <2>5. k \in 1..Len(K) /\ k # i
    BY <1>3, <1>8
  <2> QED BY Zenon, <1>6, <2>4, <2>5
<1>9. ASSUME NEW i \in 1..Len(K)
      PROVE  /\ mtasks'[i] \subseteq components.zero \/ mtasks'[i] \cap components.zero = {}
             /\ Cardinality(mtasks'[i]) > 1 => Cost * Cardinality(mtasks'[i]) <= Cap
  <2>1. mtasks'[i] = Group(K[i]) /\ K[i] \in Live
    BY Zenon, <1>3, <1>4
  <2>2. \A x \in Group(K[i]) : x \in components.zero <=> K[i] \in components.zero
    BY Zenon, <1>0 DEF Group, Members
  <2>3. Group(K[i]) \subseteq components.zero \/ Group(K[i]) \cap components.zero = {}
    BY Zenon, <2>2
  <2>4. Cardinality(Group(K[i])) > 1 => Cost * Cardinality(Group(K[i])) <= Cap
    BY Zenon, <1>0, <2>1 DEF Members
  <2> QED BY Zenon, <2>1, <2>3, <2>4
<1>10. \A x \in Sccs' : Cardinality({i \in 1..Len(mtasks') : x \in mtasks'[i]}) = 1
  BY Zenon, <1>2, <1>4, <1>7
<1>11. \A i, j \in 1..Len(mtasks') : i > j =>
         ~\E u \in mtasks'[i] : components'.succs[u] \cap mtasks'[j] # {}
  BY Zenon, <1>2, <1>4, <1>8
<1>12. \A i \in 1..Len(mtasks') :
         /\ mtasks'[i] \subseteq components'.zero \/ mtasks'[i] \cap components'.zero = {}
         /\ Cardinality(mtasks'[i]) > 1 => Cost * Cardinality(mtasks'[i]) <= Cap
  BY Zenon, <1>2, <1>4, <1>9
<1> QED BY Zenon, <1>10, <1>11, <1>12 DEF MTasksWellFormed

-----------------------------------------------------------------------------
(* The theorems *)

\* Every state of the contraction has ContractInv, and what it returns is well formed.
LEMMA ContractInvariant == ContractSpec => [](ContractInv /\ MTasksWellFormed)
<1>1. ASSUME ContractInit PROVE ContractInv /\ MTasksWellFormed
  <2>1. MTasksWellFormed
    BY <1>1 DEF ContractInit, MTasksWellFormed
  <2> QED BY Zenon, <1>1, <2>1, StartInv
<1>2. ASSUME ContractInv, MTasksWellFormed, [ContractNext]_contractVars
      PROVE  ContractInv' /\ MTasksWellFormed'
  <2>0. contractStage \in {"merge", "done"}
    BY Zenon, <1>2 DEF ContractInv, Shape
  <2>1. CASE \E a, b \in Sccs : TryEdge(a, b) \/ TrySibling(a, b)
    <3>1. PICK a \in Sccs, b \in Sccs : TryEdge(a, b) \/ TrySibling(a, b)
      BY Zenon, <2>1
    <3>2. ContractInv'
      BY Zenon, <1>2, <3>1, EdgeStep, SiblingStep
    <3>3. contractStage = "merge" /\ contractStage' = contractStage
      BY Zenon, <3>1 DEF TryEdge, TrySibling, Candidate, Merge
    <3>4. MTasksWellFormed'
      BY <3>3 DEF MTasksWellFormed
    <3> QED BY Zenon, <3>2, <3>4
  <2>2. CASE Materialise
    <3>1. contractStage' \in {"merge", "done"} /\ UNCHANGED <<components, root, gS, gP, gcost, memo, gSN, merges>>
      BY Zenon, <2>2 DEF Materialise
    <3> QED BY Zenon, <1>2, <2>2, <3>1, StageKeeps, MaterialiseOrders
  <2>3. CASE UNCHANGED contractVars
    <3>1. contractStage' = contractStage /\ UNCHANGED <<components, root, gS, gP, gcost, memo, gSN, merges, mtasks>>
      BY Zenon, <2>3 DEF contractVars
    <3>2. ContractInv'
      BY Zenon, <1>2, <2>0, <3>1, StageKeeps
    <3>3. MTasksWellFormed'
      BY Zenon, <1>2, <3>1 DEF MTasksWellFormed, Sccs
    <3> QED BY Zenon, <3>2, <3>3
  <2> QED BY Zenon, <1>2, <2>1, <2>2, <2>3 DEF ContractNext, Returned
<1> QED BY <1>1, <1>2, PTL DEF ContractSpec

\* What the loop of mtBuildDenseMTasksVerilatorContract remembers of the graph of
\* groups is right in every state: the raw lists with their dead ids, the
\* normalised lists it caches and the answers it keeps.
THEOREM BookkeepingHolds == ContractSpec => []BookkeepingExact
<1>1. ASSUME ContractInv PROVE BookkeepingExact
  <2>0. Shape /\ Lists /\ ExactCache(gSN) /\ ExactMemo(memo)
    BY Zenon, <1>1 DEF ContractInv
  <2>1. DOMAIN Graph = Live /\ \A r \in Live : Graph[r] = Quotient(r)
    BY Zenon, <2>0, GraphNow
  <2>2. ASSUME NEW r \in Live
        PROVE  /\ gS[r] \cap Live = Quotient(r)
               /\ {root[s] : s \in gS[r]} \ {r} = Quotient(r)
               /\ \A p \in Live : p \in gP[r] <=> r \in Quotient(p)
               /\ gSN[r] # Stale => gSN[r] = Quotient(r)
    <3>1. gS[r] \cap Live = Graph[r] /\ {root[s] : s \in gS[r]} \ {r} = Graph[r]
      BY Zenon, <2>0 DEF Lists, Represents
    <3>2. gP[r] \cap Live = {p \in Live : r \in Graph[p]}
      BY Zenon, <2>0, <2>1 DEF Lists, Represents, Inverted
    <3>3. gSN[r] # Stale => gSN[r] = Graph[r]
      BY Zenon, <2>0 DEF ExactCache
    <3>4. \A p \in Live : p \in gP[r] <=> r \in Graph[p]
      BY Zenon, <3>2
    <3> QED BY Zenon, <2>1, <3>1, <3>3, <3>4
  <2>3. ASSUME NEW m \in memo
        PROVE  m[1] \in Live /\ m[2] \in Live /\ m[3] = (m[2] \in Below(Quotient(m[1])))
    <3>1. PICK a \in Live, b \in Live, v \in BOOLEAN : m = <<a, b, v>>
      BY <2>0 DEF ExactMemo
    <3>2. m[1] = a /\ m[2] = b /\ m[3] = v
      BY Zenon, <3>1
    <3>3. Reaches(a, b) <=> b \in Below(Quotient(a))
      BY Zenon, <2>1, Names DEF Reaches
    <3>4. v = TRUE => b \in Below(Quotient(a))
      BY Zenon, <2>0, <3>1, <3>3 DEF ExactMemo
    <3>5. v = FALSE => ~(b \in Below(Quotient(a)))
      BY Zenon, <2>0, <3>1, <3>3 DEF ExactMemo
    <3>6. v = (b \in Below(Quotient(a)))
      <4>1. v = TRUE \/ v = FALSE
        BY Zenon
      <4>2. CASE v = TRUE
        <5>1. (b \in Below(Quotient(a))) = TRUE
          BY Zenon, <3>4, <4>2
        <5> QED BY Zenon, <4>2, <5>1
      <4>3. CASE v = FALSE
        <5>1. (b \in Below(Quotient(a))) = FALSE
          BY <3>5, <4>3
        <5> QED BY Zenon, <4>3, <5>1
      <4> QED BY Zenon, <4>1, <4>2, <4>3
    <3> QED BY Zenon, <3>2, <3>6
  <2> QED BY Zenon, <2>2, <2>3 DEF BookkeepingExact
<1> QED BY <1>1, ContractInvariant, PTL

\* With compaction, and from one compaction to the next merge, an edge is only
\* rejected when another path between its groups exists.
THEOREM RejectionsHold == ContractSpec => []RejectsOnlyCycles
<1>1. ASSUME ContractInv PROVE RejectsOnlyCycles
  <2>0. Shape /\ ExactMemo(memo) /\ OnCycles(memo)
    BY Zenon, <1>1 DEF ContractInv
  <2>1. SUFFICES ASSUME components.every > 0 /\ merges % components.every = 0,
                        NEW m \in memo, m[3], m[2] \in gS[m[1]]
                 PROVE  m[2] \in Below(Quotient(m[1]) \ {m[2]})
    BY Zenon DEF RejectsOnlyCycles
  <2>2. PICK a \in Live, b \in Live, v \in BOOLEAN : m = <<a, b, v>>
    BY <2>0 DEF ExactMemo
  <2>3. m[1] = a /\ m[2] = b /\ m[3] = v
    BY Zenon, <2>2
  <2>4. m = <<a, b, TRUE>> /\ b \in gS[a]
    BY Zenon, <2>1, <2>2, <2>3
  <2>5. b \in BelowOf(components, root, Graph[a] \ {b})
    BY Zenon, <2>0, <2>1, <2>4 DEF OnCycles
  <2>6. Graph[a] = Quotient(a)
    BY Zenon, <2>0, GraphNow
  <2> QED BY Zenon, <2>3, <2>5, <2>6, Names
<1> QED BY <1>1, ContractInvariant, PTL

\* For every graph of components, cap and order of merges, the groups can be put
\* in a topological order: the assertion "verilator contraction cyclic MTask
\* graph" never fails, and every component is in one MTask.
THEOREM MTasksHold == ContractSpec => []MTasksWellFormed
BY ContractInvariant, PTL
=============================================================================
