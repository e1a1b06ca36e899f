----------------------------- MODULE Clustering -----------------------------
(***************************************************************************)
(* Grouping candidates that fix the same thing (control-plane,             *)
(* internal/cluster and the cluster projections of internal/store).        *)
(*                                                                         *)
(* A candidate's changed paths are a sequence, as submitted: nobody sorts  *)
(* or deduplicates them.  Trigrams are taken of the sorted paths joined by *)
(* newlines; Grams[p] stands for those inside path p, and the three that   *)
(* span a newline are named by the paths on its two sides.                 *)
(***************************************************************************)
EXTENDS Naturals, Sequences, FiniteSets, Functions

CONSTANTS Grams,    \* Grams[p]: trigrams inside path p
          PathRank  \* PathRank[p]: place of p in the order of strings

ASSUME GramsFinite == \A p \in DOMAIN Grams : IsFiniteSet(Grams[p])
ASSUME PathRankInjective == \A p, q \in DOMAIN PathRank : PathRank[p] = PathRank[q] => p = q

Pathset(ps) == Range(ps)

\* Jaccard, as a fraction; an empty union scores 0.
Score(A, B) == [n |-> Cardinality(A \cap B),
                d |-> IF A \cup B = {} THEN 1 ELSE Cardinality(A \cup B)]
Less(x, y) == x.n * y.d < y.n * x.d
SixTenths == [n |-> 3, d |-> 5]

\* JoinPaths sorts: which paths it puts side by side.  A path is its own
\* neighbour when it is listed twice.
Neighbours(ps) ==
    {pq \in Pathset(ps) \X Pathset(ps) :
        \/ pq[1] = pq[2] /\ \E i, k \in DOMAIN ps : i # k /\ ps[i] = pq[1] /\ ps[k] = pq[1]
        \/ /\ PathRank[pq[1]] < PathRank[pq[2]]
           /\ \A r \in Pathset(ps) : PathRank[r] <= PathRank[pq[1]] \/ PathRank[pq[2]] <= PathRank[r]}

\* trigrams(JoinPaths(ps))
Trigrams(ps) ==
    (UNION {Grams[p] : p \in Pathset(ps)})
      \cup (UNION {{<<"end", pq[1]>>, <<"start", pq[2]>>, <<"seam", pq[1], pq[2]>>} :
                      pq \in Neighbours(ps)})

\* samePathSet: equal lengths, and every path of a is one of b.
SamePathSet(a, b) == Len(a) = Len(b) /\ Pathset(a) \subseteq Pathset(b)

\* classify.  A submission carries neither symbols nor declared dependencies,
\* so the relation rests on the paths alone.
RelationTo(a, b) ==
    IF SamePathSet(a, b) THEN "duplicate_of"
    ELSE IF Pathset(a) \cap Pathset(b) # {} THEN "conflicts_with"
    ELSE "alternative_of"

Unjoined == [rep |-> 0, relation |-> "none"]

\* Assign: among the clusters whose representative is near in paths and in
\* trigrams, the best by path overlap, then trigrams, then cluster id.  A
\* cluster goes by its representative, who seeded it and is never replaced.
Assign(ps, reps, pathsOf) ==
    LET Po(r)  == Score(Pathset(ps), Pathset(pathsOf[r]))
        Tri(r) == Score(Trigrams(ps), Trigrams(pathsOf[r]))
        near   == {r \in reps : ~Less(Po(r), SixTenths) /\ ~Less(Tri(r), SixTenths)}
        Before(r, q) == \/ Less(Po(q), Po(r))
                        \/ ~Less(Po(r), Po(q)) /\ Less(Tri(q), Tri(r))
                        \/ ~Less(Po(r), Po(q)) /\ ~Less(Tri(r), Tri(q)) /\ r <= q
        best   == CHOOSE r \in near : \A q \in near : Before(r, q)
    IN  IF near = {} THEN Unjoined
        ELSE [rep |-> best, relation |-> RelationTo(ps, pathsOf[best])]

\* SupersedeDecisions on the event "eligible": who stands down.
StandsDown(relation) == relation \in {"duplicate_of", "alternative_of"}
=============================================================================
