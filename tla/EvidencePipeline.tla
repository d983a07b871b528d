-------------------------- MODULE EvidencePipeline --------------------------
(***************************************************************************)
(* From a question to the context of its answer: the retrieval lanes of    *)
(* one pinned index release and their fusion (retrieval/laneFusion.ts),    *)
(* the reranker (reranker.ts), evidence selection (evidenceSelector.ts),   *)
(* structural expansion (evidenceExpansion.ts), the verdict and the        *)
(* decision (evidenceAssessment.ts, abstentionPolicy.ts) and the context   *)
(* with its token budget (contextBuilder.ts), in the order in which        *)
(* answers/chatService.ts 689-813 calls them.                              *)
(*                                                                         *)
(* A release is immutable, so one turn is modelled alone; what is left     *)
(* open is what each lane returns, what the reranker answers, and the      *)
(* order in which the database returns the edges of a unit, which the      *)
(* query of evidenceExpansion.ts 143-147 does not state.                   *)
(***************************************************************************)
EXTENDS Integers, Sequences, FiniteSets, SequencesExt, FiniteSetsExt

CONSTANTS
    Unit,               \* retrieval units, numbered in the order of their ids
    Scenarios,          \* the releases and questions looked at, see Scenario
    ExactHits,          \* bound on what one exact lane returns
    OtherHits,          \* bound on what the lexical or the vector lane returns
    RrfK, FusionTopK,                           \* DEFAULT_FUSION_POLICY
    RerankTopK,                                 \* DEFAULT_RERANK_POLICY
    EvidenceTopK, MaxPerSource, MaxPerMadhhab,  \* DEFAULT_EVIDENCE_POLICY
    Relations, MaxDepth, MaxPerSeed, MaxItems,  \* DEFAULT_EXPANSION_POLICY
    TokenBudget, ProtectedRelations             \* CONTEXT_PROFILES

ASSUME PolicyAssumption ==
    /\ Unit \subseteq Nat \ {0} /\ IsFiniteSet(Unit)
    /\ {RrfK, FusionTopK, RerankTopK, EvidenceTopK, MaxPerSource,
        MaxPerMadhhab, MaxDepth, MaxPerSeed, MaxItems, TokenBudget}
           \subseteq Nat \ {0}
    /\ {ExactHits, OtherHits} \subseteq Nat

ASSUME ScenarioAssumption ==
    \A s \in Scenarios :
        /\ s.scope \subseteq Unit
        /\ s.edges \subseteq [from : Unit, to : Unit, kind : STRING]
        /\ s.queries \in Nat \ {0}
        /\ s.requested \in Seq(STRING)

ExactLanes == {"exact_identifier", "exact_quote"}
FusedLanes == <<"lexical", "vector">>
OptionalLanes == ToSet(FusedLanes)
Lane == ExactLanes \cup OptionalLanes

(***************************************************************************)
(* A scenario fixes the release and the question:                          *)
(*   source, madhhab, tokens   attributes of the units                     *)
(*   same       pairs of units whose texts overlap                         *)
(*   scope      the units the principal may read                           *)
(*   edges      the relationship edges, [from, to, kind]                   *)
(*   queries    how many queries the planner made of the question          *)
(*   reranker   whether a reranker is configured                           *)
(*   requested  the schools to be represented (options.ensureMadhhab)      *)
(*   exactAsk   the planner's intent is exact_lookup                       *)
(***************************************************************************)
VARIABLES
    scenario,
    phase,      \* the stage the turn has reached
    lanes,      \* what the lanes of the last query returned
    outcomes,   \* per query: its fused list and the hits of its exact lanes
    ranked,     \* the list evidence is selected from
    selection,  \* selected units, exclusions, schools without a candidate
    walk,       \* the breadth-first walk of the expansion
    decision,   \* verdict, reasons and decision
    context     \* the items of the context and whether it is downgraded

vars == <<scenario, phase, lanes, outcomes, ranked, selection, walk,
          decision, context>>

Failed == [error |-> TRUE, hits |-> <<>>]
NoLanes == [l \in Lane |-> Failed]
NoSelection == [selected |-> <<>>, exclusions |-> {}, unavailable |-> {}]
NoWalk == [items |-> <<>>, skipped |-> {}, visited |-> {}, frontier |-> {},
           next |-> {}, node |-> {}, pending |-> {}]
NoDecision == [verdict |-> "none", reasons |-> {}, decision |-> "none"]
NoContext == [items |-> <<>>, downgraded |-> FALSE]

-----------------------------------------------------------------------------
(***************************************************************************)
(*                               Fusion                                    *)
(***************************************************************************)

\* The hits of a lane: distinct units the principal may read (every lane
\* filters tenant and scopes in its SQL), each with a score; a lane other than
\* the exact ones only matters by its order.
HitLists(n, scores) ==
    {h \in UNION {[1..k -> [unit : scenario.scope, score : scores]]
                    : k \in 0..n} :
        \A i, j \in DOMAIN h : i # j => h[i].unit # h[j].unit}

ExactResults == {[error |-> FALSE, hits |-> h] : h \in HitLists(ExactHits, 1..2)}
OtherResults ==
    {[error |-> FALSE, hits |-> h] : h \in HitLists(OtherHits, {1})}
        \cup {Failed}

UnitsOf(result) == {h.unit : h \in ToSet(result.hits)}
PlaceOf(result, u) == CHOOSE i \in DOMAIN result.hits : result.hits[i].unit = u
RankIn(result, u) == IF u \in UnitsOf(result) THEN PlaceOf(result, u) ELSE 0

\* The elements of S in the order of the pairs of `before`.
InOrder(S, before) ==
    [i \in 1..Cardinality(S) |->
        CHOOSE u \in S : Cardinality({v \in S : <<v, u>> \in before}) = i - 1]

ByScore(S, score) ==
    InOrder(S, {p \in S \X S :
                   \/ score[p[1]] > score[p[2]]
                   \/ score[p[1]] = score[p[2]] /\ p[1] < p[2]})

\* 1 / (rrfK + rank), over a denominator all ranks have in common; a lane in
\* which the unit has no rank contributes nothing.
LastRank == Max({FusionTopK, OtherHits})
Product[n \in 0..LastRank] == IF n = 0 THEN 1 ELSE (RrfK + n) * Product[n - 1]
Denominator == Product[LastRank]
Contribution(rank) == IF rank = 0 THEN 0 ELSE Denominator \div (RrfK + rank)

\* Mutant: only the first lane that returned the unit counts.
RrfScoreOfFirst(ranks) ==
    Contribution(ranks[Min({n \in DOMAIN ranks : ranks[n] # 0})])

RrfScore(ranks) ==
    LET sum[n \in 0..Len(ranks)] ==
            IF n = 0 THEN 0 ELSE sum[n - 1] + Contribution(ranks[n])
    IN  sum[Len(ranks)]

Truncate(list, n) == SubSeq(list, 1, Min({n, Len(list)}))

\* fuseLaneResults: the exact hits first, by their best score, then the
\* other units by reciprocal rank fusion.
ExactFirst(results) ==
    LET hits == UNION {ToSet(results[l].hits) : l \in ExactLanes}
        best == [u \in {h.unit : h \in hits} |->
                    Max({h.score : h \in {g \in hits : g.unit = u}})]
    IN  ByScore({h.unit : h \in hits}, best)

FuseLaneResults(results) ==
    LET exact == ExactFirst(results)
        found == UNION {UnitsOf(results[l]) : l \in OptionalLanes}
        others == found \ ToSet(exact)
        rrf == [u \in others |->
                  RrfScore([n \in DOMAIN FusedLanes |->
                              RankIn(results[FusedLanes[n]], u)])]
    IN  Truncate(exact \o ByScore(others, rrf), FusionTopK)

\* rerankCandidates: a reranker that fails keeps the head of the list in its
\* order, one that answers reorders and drops.
Reranked(list) ==
    IF scenario.reranker
    THEN {Truncate(list, RerankTopK)}
             \cup {r \in SeqOf(ToSet(list), Min({RerankTopK, Len(list)})) :
                     IsInjective(r)}
    ELSE {list}

\* The lists of several queries: exact hits of any query lead, in the order
\* of the queries; the rest by a second reciprocal rank fusion.
MergeQueries ==
    LET place(q, u) == CHOOSE i \in DOMAIN outcomes[q].fused :
                           outcomes[q].fused[i] = u
        exactOf(q) == ToSet(outcomes[q].fused) \cap outcomes[q].exact
        lead == UNION {exactOf(q) : q \in DOMAIN outcomes}
        first(u) == Min({q \in DOMAIN outcomes : u \in exactOf(q)})
        sooner(u, v) == \/ first(u) < first(v)
                        \/ first(u) = first(v) /\ place(first(u), u) < place(first(v), v)
        rest(q) == ToSet(outcomes[q].fused) \ lead
        rank(q, u) == IF u \notin rest(q) THEN 0
                      ELSE Cardinality({v \in rest(q) : place(q, v) <= place(q, u)})
        others == UNION {rest(q) : q \in DOMAIN outcomes}
        rrf == [u \in others |-> RrfScore([q \in DOMAIN outcomes |-> rank(q, u)])]
    IN  Truncate(InOrder(lead, {p \in lead \X lead : sooner(p[1], p[2])})
                     \o ByScore(others, rrf), FusionTopK)

-----------------------------------------------------------------------------
(***************************************************************************)
(*                              Selection                                  *)
(***************************************************************************)

InSource(units, s) == {u \in units : scenario.source[u] = s}
OfMadhhab(units, m) == {u \in units : m \in scenario.madhhab[u]}

\* Why the policy keeps a candidate out when `units` are already selected.
Objection(u, units) ==
    IF Cardinality(units) >= EvidenceTopK THEN "TOPK_TRUNCATED"
    ELSE IF \E v \in units : {u, v} \in scenario.same THEN "OVERLAP_COLLAPSED"
    ELSE IF Cardinality(InSource(units, scenario.source[u])) >= MaxPerSource
         THEN "SOURCE_CAP"
    ELSE IF /\ scenario.madhhab[u] # {}
            /\ \A m \in scenario.madhhab[u] :
                  Cardinality(OfMadhhab(units, m)) >= MaxPerMadhhab
         THEN "MADHHAB_CAP"
    ELSE "none"

Consider(s, u) ==
    LET why == Objection(u, ToSet(s.selected))
    IN  IF why = "none" THEN [s EXCEPT !.selected = Append(@, u)]
        ELSE [s EXCEPT !.exclusions = @ \cup {[unit |-> u, code |-> why]}]

\* A requested school without a selected unit gets the best ranked one of
\* the pool.
RepresentFrom(pool, s, m) ==
    LET pick == ranked[Min(pool)]
    IN  IF OfMadhhab(ToSet(s.selected), m) # {} THEN s
        ELSE IF pool = {} THEN [s EXCEPT !.unavailable = @ \cup {m}]
        ELSE [s EXCEPT !.selected = Append(@, pick),
                       !.exclusions = {e \in @ : e.unit # pick}]

\* Mutant: only what fell below the cut can be brought back.
RepresentFromCut(s, m) ==
    LET cut == {e.unit : e \in {x \in s.exclusions : x.code = "TOPK_TRUNCATED"}}
    IN  RepresentFrom({i \in DOMAIN ranked : /\ m \in scenario.madhhab[ranked[i]]
                                             /\ ranked[i] \in cut}, s, m)

\* The pool is all of the ranked list, whatever kept a candidate out.
Represent(s, m) ==
    RepresentFrom({i \in DOMAIN ranked : /\ m \in scenario.madhhab[ranked[i]]
                                         /\ ranked[i] \notin ToSet(s.selected)}, s, m)

\* applyEvidencePolicy: the ranked list is gone through in its order, then
\* the requested schools in theirs.
ApplyEvidencePolicy ==
    LET considered[n \in 0..Len(ranked)] ==
            IF n = 0 THEN NoSelection ELSE Consider(considered[n - 1], ranked[n])
        represented[n \in 0..Len(scenario.requested)] ==
            IF n = 0 THEN considered[Len(ranked)]
            ELSE Represent(represented[n - 1], scenario.requested[n])
    IN  represented[Len(scenario.requested)]

-----------------------------------------------------------------------------
Init ==
    /\ scenario \in Scenarios
    /\ phase = "retrieving"
    /\ lanes = NoLanes
    /\ outcomes = <<>>
    /\ ranked = <<>>
    /\ selection = NoSelection
    /\ walk = NoWalk
    /\ decision = NoDecision
    /\ context = NoContext

\* The four lanes of one query, settled together, and their fusion. A failed
\* optional lane only degrades the result.
RunQuery ==
    /\ phase = "retrieving"
    /\ \E i, q \in ExactResults, l, v \in OtherResults :
          /\ lanes' = [exact_identifier |-> i, exact_quote |-> q,
                       lexical |-> l, vector |-> v]
          /\ outcomes' = Append(outcomes,
                 [fused |-> FuseLaneResults(lanes'),
                  exact |-> UnitsOf(i) \cup UnitsOf(q)])
    /\ phase' = "fused"
    /\ UNCHANGED <<scenario, ranked, selection, walk, decision, context>>

\* A failed exact lane, or a scope check that cannot be made, fails the
\* retrieval and with it the turn.
FailRetrieval ==
    /\ phase = "retrieving"
    /\ phase' = "failed"
    /\ UNCHANGED <<scenario, lanes, outcomes, ranked, selection, walk,
                   decision, context>>

\* The reranker over the fused list of one query.
RerankQuery ==
    /\ phase = "fused"
    /\ \E r \in Reranked(Last(outcomes).fused) :
          outcomes' = [outcomes EXCEPT ![Len(outcomes)].fused = r]
    /\ phase' = IF Len(outcomes) < scenario.queries THEN "retrieving"
                ELSE "reranked"
    /\ lanes' = NoLanes
    /\ UNCHANGED <<scenario, ranked, selection, walk, decision, context>>

\* The lists of all queries are merged and, of several, reranked once more.
\* Later stages read only how many exact hits the first query had.
Rank ==
    /\ phase = "reranked"
    /\ IF scenario.queries = 1 THEN ranked' = outcomes[1].fused
       ELSE \E r \in Reranked(MergeQueries) : ranked' = r
    /\ phase' = "ranked"
    /\ outcomes' = <<[fused |-> <<>>, exact |-> outcomes[1].exact]>>
    /\ UNCHANGED <<scenario, lanes, selection, walk, decision, context>>

\* selectEvidence, and the seeds of the expansion.
SelectEvidence ==
    /\ phase = "ranked"
    /\ selection' = ApplyEvidencePolicy
    /\ walk' = LET seeds == ToSet(selection'.selected)
               IN  [NoWalk EXCEPT
                      !.visited = seeds,
                      !.frontier = {[id |-> u, via |-> u, depth |-> 0] :
                                      u \in seeds}]
    /\ phase' = "expanding"
    /\ UNCHANGED <<scenario, lanes, outcomes, ranked, decision, context>>
-----------------------------------------------------------------------------
(***************************************************************************)
(*                              Expansion                                  *)
(***************************************************************************)

EdgesOf(u) == {e \in scenario.edges : u \in {e.from, e.to}}
OtherEnd(e, u) == IF e.from = u THEN e.to ELSE e.from

\* The next unit of the level, in the order of the ids; one at the greatest
\* depth is not expanded.
VisitNode ==
    /\ phase = "expanding"
    /\ walk.pending = {} /\ walk.frontier # {}
    /\ LET node == CHOOSE n \in walk.frontier :
                       \A m \in walk.frontier : n.id <= m.id
       IN  walk' = [walk EXCEPT
                      !.frontier = @ \ {node},
                      !.node = {node},
                      !.pending = IF node.depth >= MaxDepth THEN {}
                                  ELSE EdgesOf(node.id)]
    /\ UNCHANGED <<scenario, phase, lanes, outcomes, ranked, selection,
                   decision, context>>

Skip(w, u, why) ==
    [w EXCEPT !.visited = @ \cup {u},
              !.skipped = @ \cup {[unit |-> u, code |-> why]}]

\* Mutant: the unit is found by way of the unit it was reached from.
FoundViaNode(w, u, e, node) ==
    [w EXCEPT
        !.visited = @ \cup {u},
        !.items = Append(@, [unit |-> u, relation |-> e.kind,
                             via |-> node.id, depth |-> node.depth + 1]),
        !.next = @ \cup {[id |-> u, via |-> node.id, depth |-> node.depth + 1]}]

Found(w, u, e, node) ==
    [w EXCEPT
        !.visited = @ \cup {u},
        !.items = Append(@, [unit |-> u, relation |-> e.kind,
                             via |-> node.via, depth |-> node.depth + 1]),
        !.next = @ \cup {[id |-> u, via |-> node.via,
                          depth |-> node.depth + 1]}]

PerSeed(w, seed) == Cardinality({i \in DOMAIN w.items : w.items[i].via = seed})

\* Mutant: the items have no cap of their own.
WalkedUncapped(w, e, node) ==
    LET u == OtherEnd(e, node.id)
    IN  IF u \in w.visited THEN w
        ELSE IF e.kind \notin Relations THEN Skip(w, u, "RELATION_NOT_ELIGIBLE")
        ELSE IF PerSeed(w, node.via) >= MaxPerSeed THEN Skip(w, u, "SEED_CAP")
        ELSE IF u \notin scenario.scope THEN Skip(w, u, "CROSS_SCOPE")
        ELSE Found(w, u, e, node)

\* Mutant: a unit beyond the cap is passed over without a record.
WalkedSilently(w, e, node) ==
    LET u == OtherEnd(e, node.id)
    IN  IF u \in w.visited THEN w
        ELSE IF e.kind \notin Relations THEN Skip(w, u, "RELATION_NOT_ELIGIBLE")
        ELSE IF \/ PerSeed(w, node.via) >= MaxPerSeed
                \/ Len(w.items) >= MaxItems
             THEN w
        ELSE IF u \notin scenario.scope THEN Skip(w, u, "CROSS_SCOPE")
        ELSE Found(w, u, e, node)

\* What one edge of the current unit does to the walk.
Walked(w, e, node) ==
    LET u == OtherEnd(e, node.id)
    IN  IF u \in w.visited THEN w
        ELSE IF e.kind \notin Relations THEN Skip(w, u, "RELATION_NOT_ELIGIBLE")
        ELSE IF PerSeed(w, node.via) >= MaxPerSeed THEN Skip(w, u, "SEED_CAP")
        ELSE IF Len(w.items) >= MaxItems THEN Skip(w, u, "GLOBAL_CAP")
        ELSE IF u \notin scenario.scope THEN Skip(w, u, "CROSS_SCOPE")
        ELSE Found(w, u, e, node)

\* One edge, in the order the database happens to return them.
FollowEdge ==
    /\ phase = "expanding"
    /\ \E e \in walk.pending, node \in walk.node :
          walk' = [Walked(walk, e, node) EXCEPT !.pending = @ \ {e}]
    /\ UNCHANGED <<scenario, phase, lanes, outcomes, ranked, selection,
                   decision, context>>

\* The level is done: the next one, or the end of the walk.
EndLevel ==
    /\ phase = "expanding"
    /\ walk.pending = {} /\ walk.frontier = {}
    /\ IF walk.next # {} /\ Len(walk.items) < MaxItems
       THEN /\ walk' = [walk EXCEPT !.frontier = walk.next, !.next = {}]
            /\ phase' = phase
       ELSE /\ walk' = [walk EXCEPT !.next = {}, !.node = {}]
            /\ phase' = "assessing"
    /\ UNCHANGED <<scenario, lanes, outcomes, ranked, selection, decision,
                   context>>

-----------------------------------------------------------------------------
(***************************************************************************)
(*                        Verdict and decision                             *)
(***************************************************************************)

Selected == ToSet(selection.selected)
Represented == UNION {scenario.madhhab[u] : u \in Selected}
Missing == {m \in ToSet(scenario.requested) : m \notin Represented}
Sources == {scenario.source[u] : u \in Selected}
Conflicts(units) == {e \in scenario.edges : /\ e.kind = "exception"
                                            /\ {e.from, e.to} \subseteq units}

Reasons ==
    {r \in {"CONTRADICTORY_EXCEPTION_EDGE", "EXACT_REQUEST_NO_EXACT_SUPPORT",
            "NO_EVIDENCE", "MISSING_MADHHAB", "SINGLE_SOURCE_ONLY"} :
        CASE r = "CONTRADICTORY_EXCEPTION_EDGE" -> Conflicts(Selected) # {}
          [] r = "EXACT_REQUEST_NO_EXACT_SUPPORT" ->
                scenario.exactAsk /\ outcomes[1].exact = {}
          [] r = "NO_EVIDENCE" -> Selected = {}
          [] r = "MISSING_MADHHAB" -> Missing # {}
          [] OTHER -> Cardinality(Sources) = 1}

\* assessEvidence: the lowest verdict any reason calls for.
Verdict(reasons) ==
    IF "CONTRADICTORY_EXCEPTION_EDGE" \in reasons THEN "contradictory"
    ELSE IF reasons \cap {"EXACT_REQUEST_NO_EXACT_SUPPORT", "NO_EVIDENCE"} # {}
         THEN "insufficient"
    ELSE IF reasons # {} THEN "partial"
    ELSE "sufficient"

\* decideResponse.
DecideResponse(verdict) ==
    CASE verdict = "contradictory" -> "escalate"
      [] verdict = "insufficient" -> "abstain"
      [] verdict = "partial" -> "answer_with_caveats"
      [] OTHER -> "answer"

Decide ==
    /\ phase = "assessing"
    /\ decision' = LET v == Verdict(Reasons)
                   IN  [verdict |-> v, reasons |-> Reasons,
                        decision |-> DecideResponse(v)]
    /\ phase' = IF decision'.decision \in {"answer", "answer_with_caveats"}
                THEN "building" ELSE "silent"
    /\ UNCHANGED <<scenario, lanes, outcomes, ranked, selection, walk, context>>

-----------------------------------------------------------------------------
(***************************************************************************)
(*                              Context                                    *)
(***************************************************************************)

ContextItems ==
    [i \in DOMAIN selection.selected |->
        [unit |-> selection.selected[i], relation |-> "primary", included |-> TRUE]]
    \o [i \in DOMAIN walk.items |->
        [unit |-> walk.items[i].unit, relation |-> walk.items[i].relation,
         included |-> TRUE]]

TokensOf(items) ==
    SumFunction([i \in {j \in DOMAIN items : items[j].included} |->
                   scenario.tokens[items[i].unit]])

Droppable(item) ==
    item.relation # "primary" /\ item.relation \notin ProtectedRelations

Drop(items, i) ==
    IF TokensOf(items) <= TokenBudget \/ ~Droppable(items[i]) THEN items
    ELSE [items EXCEPT ![i].included = FALSE]

\* buildContext: the last item is looked at first.
BuildContext ==
    /\ phase = "building"
    /\ context' =
          LET items == FoldLeft(LAMBDA acc, i : Drop(acc, i), ContextItems,
                                Reverse([i \in DOMAIN ContextItems |-> i]))
          IN  [items |-> items, downgraded |-> TokensOf(items) > TokenBudget]
    /\ phase' = "built"
    /\ UNCHANGED <<scenario, lanes, outcomes, ranked, selection, walk, decision>>

Next ==
    \/ RunQuery \/ FailRetrieval \/ RerankQuery \/ Rank
    \/ SelectEvidence \/ VisitNode \/ FollowEdge \/ EndLevel
    \/ Decide \/ BuildContext

Spec == Init /\ [][Next]_vars

-----------------------------------------------------------------------------
(***************************************************************************)
(*                             Properties                                  *)
(***************************************************************************)

\* The stages keep the shape of what they hand on: lists without repetition,
\* within their bounds, of units the principal may read.
TypeOK ==
    /\ scenario \in Scenarios
    /\ phase \in {"retrieving", "fused", "reranked", "ranked", "failed",
                  "expanding", "assessing", "silent", "building", "built"}
    /\ \A o \in ToSet(outcomes) :
          /\ IsInjective(o.fused) /\ Len(o.fused) <= FusionTopK
          /\ ToSet(o.fused) \cup o.exact \subseteq scenario.scope
    /\ IsInjective(ranked) /\ ToSet(ranked) \subseteq scenario.scope
    /\ IsInjective(selection.selected)
    /\ Selected \subseteq ToSet(ranked)
    /\ {i.unit : i \in ToSet(walk.items)} \subseteq scenario.scope \ Selected
    /\ Len(walk.items) <= MaxItems

\* Fusion is fair: exact hits lead the fused list, and among the others a unit
\* that is ahead of another in every lane that returned the other is ahead of
\* it in the list (laneFusion.ts 31-35: "never buried by RRF arithmetic").
FusedFairly ==
    phase = "fused" =>
        LET o == Last(outcomes)
            ahead(u, v) ==
                /\ \E l \in OptionalLanes : v \in UnitsOf(lanes[l])
                /\ \A l \in OptionalLanes : v \in UnitsOf(lanes[l]) =>
                      /\ u \in UnitsOf(lanes[l])
                      /\ PlaceOf(lanes[l], u) < PlaceOf(lanes[l], v)
            before(u, v) == \E i, j \in DOMAIN o.fused :
                               i < j /\ o.fused[i] = u /\ o.fused[j] = v
        IN  \A u \in scenario.scope, v \in ToSet(o.fused) \ o.exact :
               (u \in o.exact \/ ahead(u, v)) => before(u, v)

\* A requested school is represented whenever the ranked list holds any
\* candidate of it, and no book has more units than its cap but those that
\* were brought back to represent a school (evidenceSelector.ts 11-14).
RequestedAreHeard ==
    phase \notin {"retrieving", "fused", "reranked", "ranked", "failed"} =>
        /\ \A m \in ToSet(scenario.requested) :
              m \in Represented <=> OfMadhhab(ToSet(ranked), m) # {}
        /\ \A s \in Sources :
              Cardinality(InSource(Selected, s))
                  <= MaxPerSource + Len(scenario.requested)
        /\ scenario.requested = <<>> =>
              \A s \in Sources : Cardinality(InSource(Selected, s)) <= MaxPerSource

\* However the database orders the edges, the walk stays bounded: no seed
\* contributes more than its share, and every item hangs on its seed by a path
\* of eligible edges through items of the same seed, no longer than MaxDepth.
WalkHangsOnSeeds ==
    LET items == ToSet(walk.items)
        linked(a, b, kind) == \E e \in scenario.edges :
            {e.from, e.to} = {a, b} /\ e.kind = kind
    IN  /\ \A s \in Selected : PerSeed(walk, s) <= MaxPerSeed
        /\ \A i \in items :
              /\ i.via \in Selected /\ i.relation \in Relations
              /\ i.depth <= MaxDepth
              /\ \/ i.depth = 1 /\ linked(i.via, i.unit, i.relation)
                 \/ \E j \in items : /\ j.via = i.via /\ j.depth = i.depth - 1
                                      /\ linked(j.unit, i.unit, i.relation)

\* Expansion hides nothing either: once it ends, every neighbour of a selected
\* unit is selected, an item, or recorded as skipped (evidenceExpansion.ts 12-18).
NeighboursAccountedFor ==
    phase \in {"assessing", "silent", "building", "built"} =>
        \A u \in Selected : \A e \in EdgesOf(u) :
            OtherEnd(e, u) \in Selected
                \cup {i.unit : i \in ToSet(walk.items)}
                \cup {s.unit : s \in walk.skipped}
=============================================================================
