---------------------------- MODULE DenseContract ---------------------------
(***************************************************************************)
(* mtBuildDenseMTasksVerilatorContract: merges components of the schedule  *)
(* into MTasks, along edges and between siblings, as long as the quotient  *)
(* graph stays acyclic.  The scores that order the candidates, which the   *)
(* code calls "a heuristic that is safe for any CP value", are left out:   *)
(* any pair of groups may be tried next, and the loop may end at any time  *)
(* (the heap is empty or few enough groups are left).                      *)
(***************************************************************************)
EXTENDS Integers, FiniteSets, Sequences

CONSTANTS Contracts,  \* records n, succs, zero, every: every is the number of merges
                      \* from one compaction to the next, 256 in the code; 0 without
          Cost,       \* memberNodeCost of a component, at least 1
          Cap         \* perMTaskCap

\* The components come in topological order.
ASSUME ContractAssumption ==
  /\ Cost \in Nat \ {0} /\ Cap \in Nat
  /\ \A c \in Contracts :
       LET ids == 0..(c.n - 1) IN
       /\ c.n \in Nat /\ c.every \in Nat
       /\ c.succs \in [ids -> SUBSET ids]
       /\ \A u \in ids : \A v \in c.succs[u] : u < v

VARIABLES
  components,
  contractStage,  \* "merge" or "done"
  root,    \* find
  gS, gP,  \* the raw neighbour lists, dead ids included
  gcost,
  memo,    \* pathMemo: triples of source, destination and answer
  gSN,     \* the normalised successors of this merge epoch, or Stale
  merges,
  mtasks   \* the groups in the order of their new ids

contractVars == <<components, contractStage, root, gS, gP, gcost, memo, gSN, merges, mtasks>>

Stale == {-1}

Sccs == 0..(components.n - 1)
Live == {x \in Sccs : root[x] = x}

ContractInit ==
  /\ components \in Contracts
  /\ contractStage = "merge"
  /\ root = [x \in Sccs |-> x]
  /\ gS = components.succs
  /\ gP = [x \in Sccs |-> {p \in Sccs : x \in components.succs[p]}]
  /\ gcost = [x \in Sccs |-> Cost]
  /\ memo = {}
  /\ gSN = [x \in Sccs |-> Stale]
  /\ merges = 0
  /\ mtasks = <<>>

-----------------------------------------------------------------------------
(* pathExists, on the lists S with the cache C *)

Normalised(S, x) == {root[s] : s \in S[x]} \ {x}

gsn(S, C, x) == IF C[x] = Stale THEN Normalised(S, x) ELSE C[x]

\* The groups a search from src can visit.
Visited(S, C, src) ==
  LET wave[k \in 0..components.n] ==
        IF k = 0 THEN {src}
        ELSE wave[k - 1] \cup UNION {gsn(S, C, x) : x \in wave[k - 1]}
  IN  wave[components.n]

Known(a, b) == \E v \in BOOLEAN : <<a, b, v>> \in memo

PathExists(S, C, a, b) ==
  IF Known(a, b) THEN <<a, b, TRUE>> \in memo ELSE b \in Visited(S, C, a)

\* A search that is not answered by the memo leaves the lists it read in the
\* cache; one that ends early leaves fewer of them.
Filled(S, C, a, b) ==
  IF Known(a, b) THEN C
  ELSE [x \in Sccs |-> IF x \in Visited(S, C, a) THEN gsn(S, C, x) ELSE C[x]]

-----------------------------------------------------------------------------
(* Merging b into a *)

Candidate(a, b) ==
  /\ contractStage = "merge"
  /\ a \in Live /\ b \in Live /\ a # b
  /\ (a \in components.zero) = (b \in components.zero)
  /\ gcost[a] + gcost[b] <= Cap

\* Mutant: the compaction drops nothing.
CompactNothing(L, lists) == lists

\* recomputeCP with compaction: the live groups' lists lose the dead ids.
Compact(L, lists) == [x \in Sccs |-> IF x \in L THEN lists[x] \cap L ELSE lists[x]]

\* Mutant: the predecessors of b do not learn that a took its place.
MergedListNoMirror(own, other, newRoot, a, b, x) ==
  LET joined == {newRoot[s] : s \in own[b]} \ {a}
  IN  IF x = a THEN (own[a] \cup joined) \ {a, b} ELSE own[x]

\* A list of x after the merge: a gets the neighbours of b, and the neighbours
\* of b on the other side get a.
MergedList(own, other, newRoot, a, b, x) ==
  LET joined == {newRoot[s] : s \in own[b]} \ {a}
      mirror == {newRoot[s] : s \in other[b]} \ {a}
  IN  IF x = a THEN (own[a] \cup joined) \ {a, b}
      ELSE own[x] \cup (IF x \in mirror THEN {a} ELSE {})

\* Mutant: the answers of the epoch before are kept.
MergeKeepMemo(S, P, a, b) ==
  LET newRoot == [x \in Sccs |-> IF root[x] = b THEN a ELSE root[x]]
      newS == [x \in Sccs |-> MergedList(S, P, newRoot, a, b, x)]
      newP == [x \in Sccs |-> MergedList(P, S, newRoot, a, b, x)]
      due == components.every > 0 /\ (merges + 1) % components.every = 0
  IN  /\ root' = newRoot
      /\ gS' = IF due THEN Compact(Live \ {b}, newS) ELSE newS
      /\ gP' = IF due THEN Compact(Live \ {b}, newP) ELSE newP
      /\ gcost' = [gcost EXCEPT ![a] = @ + gcost[b]]
      /\ gSN' = [x \in Sccs |-> Stale]
      /\ merges' = merges + 1
      /\ UNCHANGED <<components, contractStage, mtasks, memo>>

Merge(S, P, a, b) ==
  LET newRoot == [x \in Sccs |-> IF root[x] = b THEN a ELSE root[x]]
      newS == [x \in Sccs |-> MergedList(S, P, newRoot, a, b, x)]
      newP == [x \in Sccs |-> MergedList(P, S, newRoot, a, b, x)]
      due == components.every > 0 /\ (merges + 1) % components.every = 0
  IN  /\ root' = newRoot
      /\ gS' = IF due THEN Compact(Live \ {b}, newS) ELSE newS
      /\ gP' = IF due THEN Compact(Live \ {b}, newP) ELSE newP
      /\ gcost' = [gcost EXCEPT ![a] = @ + gcost[b]]
      /\ memo' = {}
      /\ gSN' = [x \in Sccs |-> Stale]
      /\ merges' = merges + 1
      /\ UNCHANGED <<components, contractStage, mtasks>>

-----------------------------------------------------------------------------
(* One iteration of the loop *)

\* The search runs without the direct edge and without a's cached list.
TryEdge(a, b) ==
  LET S == [gS EXCEPT ![a] = @ \ {b}]
      P == [gP EXCEPT ![b] = @ \ {a}]
      C == [gSN EXCEPT ![a] = Stale]
  IN  /\ Candidate(a, b)
      /\ b \in gS[a]
      /\ \/ /\ PathExists(S, C, a, b)
            /\ memo' = memo \cup {<<a, b, TRUE>>}
            /\ gSN' = [Filled(S, C, a, b) EXCEPT ![a] = Stale]
            /\ UNCHANGED <<components, contractStage, root, gS, gP, gcost, merges, mtasks>>
         \/ /\ ~PathExists(S, C, a, b)
            /\ Merge(S, P, a, b)

\* a ~> b first; b ~> a is asked only if that is false.
TrySibling(a, b) ==
  LET forward == PathExists(gS, gSN, a, b)
      C == Filled(gS, gSN, a, b)
  IN  /\ Candidate(a, b)
      /\ b \notin gS[a] /\ a \notin gS[b]
      /\ \/ /\ forward
            /\ memo' = memo \cup {<<a, b, TRUE>>}
            /\ gSN' = C
            /\ UNCHANGED <<components, contractStage, root, gS, gP, gcost, merges, mtasks>>
         \/ /\ ~forward /\ PathExists(gS, C, b, a)
            /\ memo' = memo \cup {<<a, b, FALSE>>, <<b, a, TRUE>>}
            /\ gSN' = Filled(gS, C, b, a)
            /\ UNCHANGED <<components, contractStage, root, gS, gP, gcost, merges, mtasks>>
         \/ /\ ~forward /\ ~PathExists(gS, C, b, a)
            /\ Merge(gS, gP, a, b)

Group(r) == {x \in Sccs : root[x] = r}

\* The edges between groups, from the components' own edges.
Quotient(r) == {root[v] : v \in UNION {components.succs[u] : u \in Group(r)}} \ {r}

First(S) == CHOOSE x \in S : \A y \in S : x <= y

\* The groups in topological order, the one with the least component first.
KahnOrder ==
  LET order[k \in 0..components.n] ==
        IF k = 0 THEN <<>>
        ELSE LET before == order[k - 1]
                 done == {before[i] : i \in 1..Len(before)}
                 ready == {r \in Live \ done : \A p \in Live : r \in Quotient(p) => p \in done}
                 next == First(UNION {Group(r) : r \in ready})
             IN  IF ready = {} THEN before ELSE Append(before, root[next])
  IN  order[components.n]

Materialise ==
  LET order == KahnOrder IN
  /\ contractStage = "merge"
  /\ contractStage' = "done"
  /\ mtasks' = [i \in 1..Len(order) |-> Group(order[i])]
  /\ UNCHANGED <<components, root, gS, gP, gcost, memo, gSN, merges>>

Returned == contractStage = "done" /\ UNCHANGED contractVars

ContractNext ==
  \/ \E a, b \in Sccs : TryEdge(a, b) \/ TrySibling(a, b)
  \/ Materialise \/ Returned

ContractSpec == ContractInit /\ [][ContractNext]_contractVars

-----------------------------------------------------------------------------
(* Properties *)

\* The groups that can be reached from the groups in R over quotient edges.
Below(R) ==
  LET wave[k \in 0..components.n] == IF k = 0 THEN R ELSE wave[k - 1] \cup UNION {Quotient(x) : x \in wave[k - 1]}
  IN  wave[components.n]

\* What the loop remembers about the graph of groups is right in every state:
\* for live ids the raw lists, which the adjacency tests read, are the edges of
\* the groups in both directions, and dead ids only repeat such an edge ("leaves
\* the absorbed group's old ids in neighboring lists"); "every gSN snapshot is
\* stale" after a merge, and "a cached (srcRoot,dstRoot) -> reachable answer
\* equals a fresh computation until the next merge".
BookkeepingExact ==
  contractStage = "merge" =>
    /\ \A r \in Live :
         /\ gS[r] \cap Live = Quotient(r)
         /\ {root[s] : s \in gS[r]} \ {r} = Quotient(r)
         /\ \A p \in Live : p \in gP[r] <=> r \in Quotient(p)
         /\ gSN[r] # Stale => gSN[r] = Quotient(r)
    /\ \A m \in memo : m[1] \in Live /\ m[2] \in Live /\ m[3] = (m[2] \in Below(Quotient(m[1])))

\* A dead duplicate of an edge lets a search find the edge that was taken out
\* ("the merge is spuriously cycle-rejected").  In the epoch after a compaction
\* that does not happen: every edge that was rejected does close a cycle.
RejectsOnlyCycles ==
  components.every > 0 /\ merges % components.every = 0 =>
    \A m \in memo : m[3] /\ m[2] \in gS[m[1]] => m[2] \in Below(Quotient(m[1]) \ {m[2]})

\* Wherever the loop ends, the groups have a topological order, although the
\* searches ran on dead ids, cached copies and remembered answers ("verilator
\* contraction cyclic MTask graph" is never asserted): every component is in one
\* MTask, ids ascend along every edge, no MTask mixes worker-0 components with
\* others, and merged ones respect the cap.
MTasksWellFormed ==
  contractStage = "done" =>
    /\ \A x \in Sccs : Cardinality({i \in 1..Len(mtasks) : x \in mtasks[i]}) = 1
    /\ \A i, j \in 1..Len(mtasks) : i > j =>
         ~\E u \in mtasks[i] : components.succs[u] \cap mtasks[j] # {}
    /\ \A i \in 1..Len(mtasks) :
         /\ mtasks[i] \subseteq components.zero \/ mtasks[i] \cap components.zero = {}
         /\ Cardinality(mtasks[i]) > 1 => Cost * Cardinality(mtasks[i]) <= Cap
=============================================================================
