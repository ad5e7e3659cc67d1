---------------------------- MODULE SearchQuery -----------------------------
(***************************************************************************)
(* Searching the full-text index: collect_with of internal/search/mod.rs   *)
(* and its callers in lib.rs.  The index is a sequence of documents cut    *)
(* into two segments, each read in blocks; a document carries the graph    *)
(* and the subject it stands for, whether it is alive and of the active    *)
(* generation, its score for the query and the longer word it holds.       *)
(*                                                                         *)
(* Scores are naturals, the next smaller float is the next smaller         *)
(* integer, and a score of zero is that of a document which only matches   *)
(* by prefix.  The collector prunes by score before it looks at a          *)
(* document's graph, so that pruning, ties, repeated documents and graphs  *)
(* the caller may not read all meet in one page.                           *)
(***************************************************************************)
EXTENDS Integers, Sequences, FiniteSets, SequencesExt

CONSTANTS
    DocKinds,        \* the documents an index may hold
    DocCount,        \* documents of the index
    BlockSize,       \* documents of a postings block
    StableKey,       \* graph, subject -> the order of their hashed identity
    SearchQueries,   \* [words, prefix, subject, complete, candidates]
    SearchLimits,    \* limits a caller asks for
    SearchLimit,     \* MAX_SEARCH_LIMIT
    PrefixBudget,    \* postings a prefix expansion may hold
    SegmentScale     \* what a block bound of a segment is off by, at most

\* What the constants satisfy; a module that instantiates this one assumes it.
SearchQueryAssumption ==
    /\ {DocCount, BlockSize, SearchLimit, SegmentScale} \subseteq Nat \ {0}
    /\ PrefixBudget \in Nat /\ SearchLimits \subseteq Nat

VARIABLES
    sqIndex,      \* [docs, cut]: the first cut documents are the first segment
    sqReadable,   \* the graphs the caller may read now
    sqCall        \* the search in progress

sqVars == <<sqIndex, sqReadable, sqCall>>

DocGraphs == {k.graph : k \in DocKinds}
Documents == DOMAIN sqIndex.docs
Doc(i) == sqIndex.docs[i]
Segments == <<{i \in Documents : i <= sqIndex.cut}, {i \in Documents : i > sqIndex.cut}>>
Ordered(S) == SetToSortSeq(S, <)

\* stable_hit_key of the graph and the subject of a document.
stable_hit_key(i) == StableKey[<<Doc(i).graph, Doc(i).subject>>]

-----------------------------------------------------------------------------
(* The best documents so far.                                                       *)

\* RankedDoc's order: higher score, then smaller stable key, then smaller address.
Better(a, b) ==
    \/ a.score > b.score
    \/ a.score = b.score /\ a.stable < b.stable
    \/ a.score = b.score /\ a.stable = b.stable /\ a.address < b.address

Worst(top) == CHOOSE w \in top : \A d \in top : d = w \/ Better(d, w)

\* Faulty: a copy of a resource that is already kept takes a place of its own.
retain_copies(top, limit, d) ==
    CASE Cardinality(top) < limit -> top \cup {d}
      [] Better(d, Worst(top)) -> (top \ {Worst(top)}) \cup {d}
      [] OTHER -> top

\* TopRanked::retain: one copy per resource, the better one.
retain(top, limit, d) ==
    LET same == {c \in top : c.stable = d.stable} IN
    CASE same # {} -> IF \A c \in same : Better(d, c) THEN (top \ same) \cup {d} ELSE top
      [] same = {} /\ Cardinality(top) < limit -> top \cup {d}
      [] same = {} /\ Cardinality(top) >= limit /\ Better(d, Worst(top)) -> (top \ {Worst(top)}) \cup {d}
      [] OTHER -> top

\* Faulty: a score equal to the worst one kept cannot enter.
threshold_worst(top, limit) == IF Cardinality(top) >= limit THEN Worst(top).score ELSE -1

\* TopRanked::threshold: scores at or below it cannot enter, ties with the worst can.
threshold(top, limit) == IF Cardinality(top) >= limit THEN Worst(top).score - 1 ELSE -1

-----------------------------------------------------------------------------
(* What the query matches.                                                          *)

LongWords == {Doc(i).long : i \in Documents} \ {0}

\* One segment's share of prefix_docs: longer words in dictionary order while their
\* postings fit the budget; the first that does not ends the expansion everywhere.
PrefixSegment(acc, docs) ==
    LET Freq(w) == Cardinality({i \in docs : Doc(i).long = w})
        Upto(w) == Cardinality({i \in docs : Doc(i).long \in 1..w})
        kept == {w \in LongWords : acc.size + Upto(w) <= PrefixBudget}
        held == {i \in docs : Doc(i).long \in kept}
    IN  IF acc.full THEN acc
        ELSE [docs |-> acc.docs \cup held, size |-> acc.size + Cardinality(held),
              full |-> \E w \in LongWords \ kept : Freq(w) > 0]

\* prefix_docs.
prefix_docs == FoldLeft(PrefixSegment, [docs |-> {}, size |-> 0, full |-> FALSE], Segments).docs

\* The query of a request is one term: one word, not widened by a prefix or a subject.
IsTerm(q) == q.words = 1 /\ ~ q.prefix /\ q.subject = 0

\* A complete match of a frequent term is restricted to the candidate subjects when
\* there are few enough of them.
Restricts(q, limit) ==
    /\ q.complete /\ q.candidates # <<>> /\ IsTerm(q)
    /\ Cardinality({i \in Documents : Doc(i).score > 0}) > SearchLimit
    /\ Cardinality(q.candidates[1]) <= (IF limit < SearchLimit THEN limit ELSE SearchLimit)

\* The documents the query built by collect_with matches.
Matched(q, limit) ==
    {i \in Documents :
       /\ Doc(i).score > 0 \/ (q.prefix /\ ~ q.complete /\ i \in prefix_docs)
       /\ q.subject # 0 => Doc(i).subject = q.subject
       /\ Restricts(q, limit) => Doc(i).subject \in q.candidates[1]}

\* active_key: an alive document of the active generation, of a graph the caller may read.
active_key(i, allowed) == Doc(i).live /\ Doc(i).active /\ Doc(i).graph \in allowed

Ranked(i) == [score |-> Doc(i).score, stable |-> stable_hit_key(i), address |-> i]

-----------------------------------------------------------------------------
(* The collectors.                                                                  *)

\* A document is offered to the collector: an ineligible one leaves it as it is.
Offer(top, limit, allowed, i) ==
    IF active_key(i, allowed) THEN retain(top, limit, Ranked(i)) ELSE top

OfferAbove(top, limit, allowed, i) ==
    IF Doc(i).score > threshold(top, limit) THEN Offer(top, limit, allowed, i) ELSE top

Blocks(docs) ==
    LET s == Ordered(docs) IN
    [b \in 1..((Len(s) + BlockSize - 1) \div BlockSize) |->
       SubSeq(s, (b - 1) * BlockSize + 1, IF b * BlockSize < Len(s) THEN b * BlockSize ELSE Len(s))]

\* block_max_score with the segment's own statistics: off by the scale at most.
BlockBound(block) ==
    LET best == CHOOSE m \in {Doc(i).score : i \in Range(block)} :
                  \A i \in Range(block) : Doc(i).score <= m
    IN  (best + SegmentScale - 1) \div SegmentScale

\* Faulty: the bound is taken for one with the statistics of the whole index.
scaled_threshold_local(bound, t) == bound >= t
\* scaled_threshold: a block is read when its bound, scaled, reaches the threshold.
scaled_threshold(bound, t) == bound * SegmentScale >= t

\* The postings of a single term: blocks below the threshold are skipped whole.
PrunedBlocks(top, limit, allowed, docs) ==
    FoldLeft(LAMBDA acc, block :
               IF scaled_threshold(BlockBound(block), threshold(acc, limit))
               THEN FoldLeft(LAMBDA t, i : OfferAbove(t, limit, allowed, i), acc, block)
               ELSE acc,
             top, Blocks(docs))

\* pruning_safe: a union of terms in an index of one segment.
pruning_safe(q) ==
    /\ q.words > 1 /\ ~ q.prefix /\ q.subject = 0
    /\ Cardinality({s \in {1, 2} : Segments[s] # {}}) = 1

\* One segment of a ranked search, along the path its query takes.
RankSegment(q, limit, allowed, matched, top, docs) ==
    CASE IsTerm(q) -> PrunedBlocks(top, limit, allowed, docs \cap matched)
      [] pruning_safe(q) ->
           FoldLeft(LAMBDA t, i : OfferAbove(t, limit, allowed, i), top, Ordered(docs \cap matched))
      [] OTHER -> FoldLeft(LAMBDA t, i : Offer(t, limit, allowed, i), top, Ordered(docs \cap matched))

\* Faulty: it stops at the limit, so that more matches go unnoticed.
match_all_limit(limit, allowed, matched) ==
    LET eligible == Ordered({i \in matched : active_key(i, allowed)})
        n == IF Len(eligible) > limit THEN limit ELSE Len(eligible)
    IN  {[Ranked(eligible[k]) EXCEPT !.score = 0] : k \in 1..n}

\* match_all: eligible documents in address order, one more than the caller accepts.
match_all(limit, allowed, matched) ==
    LET eligible == Ordered({i \in matched : active_key(i, allowed)})
        n == IF Len(eligible) > limit + 1 THEN limit + 1 ELSE Len(eligible)
    IN  {[Ranked(eligible[k]) EXCEPT !.score = 0] : k \in 1..n}

\* collect_with: the hits in order, without duplicates of a resource when ranked.
collect_with(q, limit, allowed) ==
    LET matched == Matched(q, limit)
        found == IF q.complete
                 THEN match_all(limit, allowed, matched)
                 ELSE FoldLeft(LAMBDA top, docs : RankSegment(q, limit, allowed, matched, top, docs),
                               {}, Segments)
    IN  IF limit = 0 THEN <<>> ELSE SetToSortSeq(found, Better)

-----------------------------------------------------------------------------
NoSearch == [at |-> "idle"]

\* collect_hits and search_graphs_with: the limit of a ranked search is clamped, the policies are
\* pinned.  A complete match comes from a query, whose row limit is passed on.
collect_hits ==
    /\ sqCall.at = "idle"
    /\ \E q \in SearchQueries, asked \in SearchLimits :
         LET limit == IF q.complete \/ asked < SearchLimit THEN asked ELSE SearchLimit IN
         sqCall' = [at |-> "collected", query |-> q, limit |-> limit, pinned |-> sqReadable,
                    hits |-> collect_with(q, limit, sqReadable)]
    /\ UNCHANGED <<sqIndex, sqReadable>>

\* Faulty: the hits are given out under the policies pinned at the start.
recheck_hits_pinned ==
    /\ sqCall.at = "collected" /\ ~ sqCall.query.complete
    /\ sqCall' = [sqCall EXCEPT !.at = "done"]
    /\ UNCHANGED <<sqIndex, sqReadable>>

\* recheck_hits: graphs that became unreadable are dropped, and so is a resource that was seen.  A
\* complete match is checked again by the query (FtsService).
recheck_hits ==
    /\ sqCall.at = "collected" /\ ~ sqCall.query.complete
    /\ LET Keep(kept, h) ==
              IF /\ Doc(h.address).graph \in sqReadable
                 /\ \A k \in Range(kept) : stable_hit_key(k.address) # stable_hit_key(h.address)
              THEN Append(kept, h) ELSE kept
       IN  sqCall' = [sqCall EXCEPT !.at = "done", !.hits = FoldLeft(Keep, <<>>, @)]
    /\ UNCHANGED <<sqIndex, sqReadable>>

\* A policy of another caller takes effect.
ChangeReadable ==
    /\ sqCall.at = "collected"
    /\ \E g \in DocGraphs : sqReadable' = (sqReadable \ {g}) \cup ({g} \ sqReadable)
    /\ sqCall.pinned = sqReadable
    /\ UNCHANGED <<sqIndex, sqCall>>

\* An index with at most one living document per resource, or with repeated ones.
SqInit ==
    /\ \E docs \in [1..DocCount -> DocKinds], cut \in {DocCount \div 2, DocCount} :
         sqIndex = [docs |-> docs, cut |-> cut]
    /\ sqReadable \in SUBSET DocGraphs
    /\ sqCall = NoSearch

SqNext == collect_hits \/ recheck_hits \/ ChangeReadable

SearchQuerySpec == SqInit /\ [][SqNext]_sqVars

-----------------------------------------------------------------------------
\* What a search may return: per resource its best eligible document.
Eligible ==
    LET docs == {i \in Matched(sqCall.query, sqCall.limit) : active_key(i, sqCall.pinned)} IN
    {Ranked(i) : i \in {j \in docs : \A k \in docs :
                          k = j \/ stable_hit_key(k) # stable_hit_key(j) \/ Better(Ranked(j), Ranked(k))}}

\* The best resources, as many as the limit allows, best first.
RankedPage ==
    SubSeq(SetToSortSeq(Eligible, Better), 1,
           IF sqCall.limit < Cardinality(Eligible) THEN sqCall.limit ELSE Cardinality(Eligible))

\* A ranked page is exactly the best resources the caller may read, in order, whichever
\* of the three collectors ran: pruning never loses a tie, a skipped block or a resource
\* behind documents that are stale, repeated or unreadable.
RankedPageIsExact ==
    sqCall.at = "collected" /\ ~ sqCall.query.complete => sqCall.hits = RankedPage

\* A complete match returns every eligible document up to the limit, repeated ones included, and goes
\* past the limit exactly when there are more, which is how its caller notices; restricting a
\* frequent term to candidate subjects loses no resource with such a subject.
CompleteIsExact ==
    sqCall.at = "collected" /\ sqCall.query.complete /\ sqCall.limit > 0 =>
      LET q == sqCall.query
          all == {i \in Documents : /\ Doc(i).score > 0 /\ active_key(i, sqCall.pinned)
                                    /\ q.subject # 0 => Doc(i).subject = q.subject}
          wanted == {i \in all : q.candidates # <<>> => Doc(i).subject \in q.candidates[1]}
          got == {h.address : h \in Range(sqCall.hits)}
      IN  /\ got \subseteq all /\ Cardinality(got) = Len(sqCall.hits)
          /\ Len(sqCall.hits) <= sqCall.limit => wanted \subseteq got
          /\ Cardinality(all) <= sqCall.limit => Len(sqCall.hits) <= sqCall.limit

\* The hits given out are the page of the policies the search began with, in its order, less the
\* graphs that are unreadable at the end: dropping seen resources drops nothing else.
HitsAreReadable ==
    sqCall.at = "done" =>
      sqCall.hits = SelectSeq(RankedPage, LAMBDA h : Doc(h.address).graph \in sqReadable)

=============================================================================
