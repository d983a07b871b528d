------------------------ MODULE MCEvidencePipeline ------------------------
EXTENDS EvidencePipeline

\* Two concepts (1, 3) and four spans of one book (2, 4, 5, 6), with the edges
\* the compiler writes between such units: 3 is an exception to 1 and is
\* compared with it, too; 5 is a footnote outside the principal's scopes.
Library ==
    [source |-> <<"rev1", "book", "rev3", "book", "book", "book">>,
     madhhab |-> <<{"hanafi"}, {"hanafi"}, {"syafii"}, {"hanafi", "syafii"}, {}, {}>>,
     tokens |-> <<1, 1, 2, 1, 1, 1>>,
     same |-> {{1, 2}},
     edges |-> {[from |-> 3, to |-> 1, kind |-> "exception"],
                [from |-> 3, to |-> 1, kind |-> "comparison"],
                [from |-> 1, to |-> 2, kind |-> "evidence"],
                [from |-> 3, to |-> 4, kind |-> "evidence"],
                [from |-> 2, to |-> 4, kind |-> "adjacent"],
                [from |-> 2, to |-> 5, kind |-> "footnote"],
                [from |-> 4, to |-> 6, kind |-> "footnote"]}]

Ask(scope, queries, reranker, requested, exactAsk) ==
    [source |-> Library.source, madhhab |-> Library.madhhab,
     tokens |-> Library.tokens, same |-> Library.same, edges |-> Library.edges,
     scope |-> scope, queries |-> queries, reranker |-> reranker,
     requested |-> requested, exactAsk |-> exactAsk]

\* One question over most of the library, an exact one, and a comparison of
\* two queries over a part of it.
Questions ==
    {Ask({1, 2, 3, 4, 6}, 1, FALSE, <<"syafii">>, FALSE),
     Ask({1, 3, 4}, 1, TRUE, <<>>, TRUE),
     Ask({2, 3}, 2, TRUE, <<"syafii", "hanafi">>, FALSE)}
=============================================================================
