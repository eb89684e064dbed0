---------------------------- MODULE Reachability ----------------------------
(***************************************************************************)
(* The reachability oracle of crates/kovanica-dag/src/reachability.rs as a *)
(* value.  An oracle r has                                                 *)
(*   r.iv        block -> <<start, end>>, its interval in the tree;        *)
(*   r.next      block -> the first free point of its interval;            *)
(*   r.parent    block -> its parent in the selected-parent tree;          *)
(*   r.children  block -> its children there (the code's list is sorted by *)
(*               id wherever it is read, so it is a set here);             *)
(*   r.size      block -> the blocks of its subtree, itself included;      *)
(*   r.fcs       block -> its future-covering set, a list;                 *)
(*   r.dead      a lookup of a block that is not there has panicked.       *)
(* The two amortisation counters are left out: no answer depends on them.  *)
(***************************************************************************)
EXTENDS Integers, SequencesExt

CONSTANTS Genesis,
          ROOT_CAPACITY,   \* points of the interval of genesis, 2^63 - 1
          CHILD_RESERVE    \* the most points a new leaf is given, 2^40

\* f with x mapped to v.
Put(f, x, v) == [y \in DOMAIN f \cup {x} |-> IF y = x THEN v ELSE f[y]]
Drop(f, S) == [y \in DOMAIN f \ S |-> f[y]]

-----------------------------------------------------------------------------
\* x is a tree ancestor of y or y itself.
tree_reaches(r, x, y) ==
  /\ {x, y} \subseteq DOMAIN r.iv
  /\ r.iv[x][1] <= r.iv[y][1]
  /\ r.iv[y][1] <= r.iv[x][2]

is_chain_ancestor(r, a, b) == a # b /\ tree_reaches(r, a, b)

is_ancestor(r, a, b) ==
  /\ a # b
  /\ \/ tree_reaches(r, a, b)
     \/ a \in DOMAIN r.fcs /\ \E c \in ToSet(r.fcs[a]) : tree_reaches(r, c, b)

-----------------------------------------------------------------------------
\* The subtree of x, following the child lists.
Subtree(r, x) ==
  LET below[y \in DOMAIN r.children] ==
        {y} \cup UNION {below[c] : c \in r.children[y] \cap DOMAIN r.children}
  IN  below[x]

\* The points relayout_subtree gives to child c when a node's n descendants
\* share a region with `slack' points to spare.  GreedySpan, a mutant of it, hands
\* the whole slack to every child.
GreedySpan(r, c, n, slack) == r.size[c] + slack
ChildSpan(r, c, n, slack) ==
  Min({r.size[c] + (slack * r.size[c]) \div n, Max({CHILD_RESERVE, r.size[c]})})

(***************************************************************************)
(* relayout_subtree: the interval of `root' is kept and divided anew among *)
(* its descendants, siblings in the order of their ids, each with room for *)
(* its own subtree and a share of the slack; what is left over stays free. *)
(* A child without a size makes the code's lookup panic.                   *)
(***************************************************************************)
relayout_subtree(r, root) ==
  LET S == Subtree(r, root)
      Listed == UNION {r.children[x] : x \in S}
      \* the points used by the children of x that are in C
      Used(x, C, region) ==
        MapThenSumSet(LAMBDA c : ChildSpan(r, c, r.size[x] - 1, region - (r.size[x] - 1)), C)
      iv[x \in S] ==
        IF x = root THEN r.iv[root]
        ELSE LET p      == r.parent[x]
                 region == iv[p][2] - iv[p][1]
                 start  == iv[p][1] + 1
                             + Used(p, {c \in r.children[p] : c < x}, region)
             IN  <<start, start + Used(p, {x}, region) - 1>>
  IN  IF ~(Listed \subseteq DOMAIN r.size) THEN [r EXCEPT !.dead = TRUE]
      ELSE [r EXCEPT
              !.iv = [x \in DOMAIN @ |-> IF x \in S THEN iv[x] ELSE @[x]],
              !.next = [x \in DOMAIN @ \cup S |->
                          IF x \in S
                          THEN iv[x][1] + 1 + Used(x, r.children[x], iv[x][2] - iv[x][1])
                          ELSE @[x]]]

\* The blocks above a along the child edges that the parents P give.
FutureOf(P, a) ==
  LET above[x \in DOMAIN P] ==
        UNION {{b} \cup above[b] : b \in {c \in DOMAIN P : x \in P[c]}}
  IN  above[a]

\* build_fcs: the tree roots of what is above a outside a's own subtree, in the
\* order of their intervals.
build_fcs(r, P, a) ==
  LET future == FutureOf(P, a)
      covers == {c \in future :
                   /\ ~tree_reaches(r, a, c)
                   /\ c \in DOMAIN r.parent =>
                        \/ tree_reaches(r, a, r.parent[c])
                        \/ r.parent[c] \notin future}
  IN  SetToSortSeq(covers, LAMBDA x, y : r.iv[x][1] < r.iv[y][1])

\* build: the oracle of the blocks with parents P and selected parents sp, from
\* scratch.
build(P, sp) ==
  LET down == [x \in DOMAIN P |-> {c \in DOMAIN sp : sp[c] = x}]
      bare == [iv |-> [x \in DOMAIN P |-> <<1, ROOT_CAPACITY>>],
               next |-> [x \in {} |-> 0], parent |-> sp, children |-> down,
               size |-> [x \in DOMAIN P |-> 0], fcs |-> [x \in {} |-> <<>>],
               dead |-> FALSE]
      sized == [bare EXCEPT
                  !.size = [x \in DOMAIN P |-> Cardinality(Subtree(bare, x))]]
      laid  == relayout_subtree(sized, Genesis)
      fcs   == [a \in DOMAIN P |-> build_fcs(laid, P, a)]
  IN  [laid EXCEPT !.fcs = [a \in {x \in DOMAIN P : fcs[x] # <<>>} |-> fcs[a]]]

\* The oracle Dag::new seeds, of genesis alone.
NewOracle == build([b \in {Genesis} |-> {}], [b \in {} |-> Genesis])

\* reindex: from the lowest ancestor of `node' whose interval is twice its
\* subtree, or from the root.
reindex(r, node) ==
  LET capacity(x) == r.iv[x][2] - r.iv[x][1] + 1
      from[x \in DOMAIN r.iv] ==
        IF capacity(x) >= 2 * r.size[x] \/ x \notin DOMAIN r.parent THEN x
        ELSE from[r.parent[x]]
  IN  relayout_subtree(r, from[node])

-----------------------------------------------------------------------------
\* Where partition_point may end when it looks for the first entry that starts
\* behind b.  On a sorted list there is one such place; a reindex lays siblings
\* out by id and not by arrival, so it can leave a list unsorted.
Places(r, list, b) ==
  {i \in 0 .. Len(list) :
     /\ i > 0 => r.iv[list[i]][1] <= r.iv[b][1]
     /\ i < Len(list) => r.iv[list[i + 1]][1] > r.iv[b][1]}

\* y lies in the interval of x.
Within(r, y, x) == r.iv[x][1] <= r.iv[y][1] /\ r.iv[y][2] <= r.iv[x][2]

\* The list with b put at place i: not when the entry before already covers b;
\* otherwise the entries after it that b covers make way.
PlaceAt(r, list, i, b) ==
  LET covered(n) == \A j \in i + 1 .. i + n : Within(r, list[j], b)
      gone == Max({n \in 0 .. Len(list) - i : covered(n)})
  IN  IF i > 0 /\ Within(r, b, list[i]) THEN list
      ELSE SubSeq(list, 1, i) \o <<b>> \o SubSeq(list, i + gone + 1, Len(list))

\* insert_to_future_covering_set for every merged block: the possible lists.
insert_to_future_covering_set(r, merged, b) ==
  LET old(a) == IF a \in DOMAIN r.fcs THEN r.fcs[a] ELSE <<>>
      new(a) == {PlaceAt(r, old(a), i, b) : i \in Places(r, old(a), b)}
  IN  {[a \in DOMAIN r.fcs \cup merged |-> IF a \in merged THEN f[a] ELSE r.fcs[a]] :
         f \in {g \in [merged -> UNION {new(a) : a \in merged}] :
                  \A a \in merged : g[a] \in new(a)}}

\* Half of what the selected parent has left, within CHILD_RESERVE points.
FirstHalf(lo, hi) == <<lo, Min({lo + (hi - lo) \div 2, lo + CHILD_RESERVE - 1})>>

\* add_block, steps 1 and 2: the new leaf, its ancestors' sizes, its interval.
AddLeaf(r, id, sp) ==
  LET ancestors[x \in DOMAIN r.size] ==
        {x} \cup (IF x \in DOMAIN r.parent THEN ancestors[r.parent[x]] ELSE {})
      leaf == [r EXCEPT
                 !.parent = Put(@, id, sp),
                 !.children = Put(Put(@, id, {}), sp, r.children[sp] \cup {id}),
                 !.size = Put([x \in DOMAIN @ |->
                                 IF x \in ancestors[sp] THEN @[x] + 1 ELSE @[x]], id, 1)]
      lo   == r.next[sp]
      hi   == r.iv[sp][2]
      half == FirstHalf(lo, hi)
  IN  IF lo <= hi
      THEN [leaf EXCEPT !.iv = Put(@, id, half),
                        !.next = Put(Put(@, id, lo + 1), sp, half[2] + 1)]
      ELSE reindex([leaf EXCEPT !.iv = Put(@, id, <<lo, lo>>),
                                !.next = Put(@, id, lo)], sp)

\* add_block: the oracles that may result.
add_block(r, id, sp, merged) ==
  LET leaf == AddLeaf(r, id, sp)
  IN  IF leaf.dead THEN {leaf}
      ELSE {[leaf EXCEPT !.fcs = f] : f \in insert_to_future_covering_set(leaf, merged, id)}

(***************************************************************************)
(* remove_blocks: the present tree children of evicted blocks become       *)
(* children of genesis.  The evicted ones are not taken out of the list of *)
(* genesis.                                                                *)
(***************************************************************************)
remove_blocks(r, evicted) ==
  LET moved == UNION {r.children[e] : e \in evicted \cap DOMAIN r.children} \ evicted
  IN  IF evicted = {} THEN r
      ELSE [iv |-> Drop(r.iv, evicted), next |-> Drop(r.next, evicted),
            fcs |-> Drop(r.fcs, evicted), dead |-> r.dead,
            parent |-> [x \in DOMAIN r.parent \ evicted |->
                          IF x \in moved THEN Genesis ELSE r.parent[x]],
            children |-> [x \in DOMAIN r.children \ evicted |->
                            IF x = Genesis THEN r.children[x] \cup moved ELSE r.children[x]],
            size |-> [x \in DOMAIN r.size \ evicted |->
                        IF x = Genesis THEN Max({0, r.size[x] - Cardinality(evicted)})
                        ELSE r.size[x]]]

=============================================================================
