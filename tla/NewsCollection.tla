--------------------------- MODULE NewsCollection ---------------------------
(***************************************************************************)
(* The news of one company: a collection pages through the site's list,    *)
(* newest first, reads and summarises what it found, and stores it in one   *)
(* transaction.  The list grows while it is paged through, calls fail, and  *)
(* collections of two workflows run at once: a timed out step leaves its    *)
(* thread at work.                                                          *)
(*                                                                         *)
(* An article is the rank of its publication, which is also its URL.        *)
(***************************************************************************)
EXTENDS NewsText

CONSTANTS Collections,  \* executions of the pipeline
          PageSize, MaxArticles,
          MaxNews       \* bound on the articles the site publishes

ASSUME NewsAssumption ==
    PageSize \in Nat \ {0} /\ MaxArticles \in Nat \ {0} /\ MaxNews \in Nat

VARIABLES
    feed,     \* the site's list, newest first: [rank, dated]
    articles, \* daum_news_articles, by rank
    phase,    \* where a collection is
    page,     \* the next page it asks for
    cutoff,   \* articles up to this rank are too old
    list,     \* list_news_data
    begun,    \* history: the feed when it began
    cut,      \* history: a request failed and ended the list early
    batch,    \* the articles it will store, by rank
    found     \* the articles of the batch it saw stored already

newsVars == <<feed, articles, phase, page, cutoff, list, begun, cut, batch, found>>

NewsTypeOK ==
    /\ feed \in Seq([rank : 1..MaxNews, dated : BOOLEAN])
    /\ articles \subseteq 1..MaxNews
    /\ phase \in [Collections -> {"new", "listing", "reading", "looking", "writing",
                                  "done", "raised"}]
    /\ page \in [Collections -> Nat]
    /\ cutoff \in [Collections -> 0..MaxNews]
    /\ \A c \in Collections :
          /\ Len(list[c]) <= MaxArticles
          /\ \A i \in DOMAIN list[c] : list[c][i] > cutoff[c]
          /\ Len(batch[c]) <= MaxArticles

NewsInit ==
    /\ feed = <<>> /\ articles = {}
    /\ phase = [c \in Collections |-> "new"]
    /\ page = [c \in Collections |-> 1]
    /\ cutoff = [c \in Collections |-> 0]
    /\ list = [c \in Collections |-> <<>>]
    /\ begun = [c \in Collections |-> <<>>]
    /\ cut = [c \in Collections |-> FALSE]
    /\ batch = [c \in Collections |-> <<>>]
    /\ found = [c \in Collections |-> {}]

\* The site publishes an article, whose date may be unreadable.
Publish ==
    /\ Len(feed) < MaxNews
    /\ \E d \in BOOLEAN : feed' = <<[rank |-> Len(feed) + 1, dated |-> d]>> \o feed
    /\ UNCHANGED <<articles, phase, page, cutoff, list, begun, cut, batch, found>>

\* The pipeline begins; the cutoff is so many days ago.
BeginCollection(c) ==
    /\ phase[c] = "new"
    /\ phase' = [phase EXCEPT ![c] = "listing"]
    /\ \E n \in 0..Len(feed) : cutoff' = [cutoff EXCEPT ![c] = n]
    /\ begun' = [begun EXCEPT ![c] = feed]
    /\ UNCHANGED <<feed, articles, page, list, cut, batch, found>>
-----------------------------------------------------------------------------
(* extract_daum_news_list *)

PageItems(n) ==
    SubSeq(feed, (n - 1) * PageSize + 1,
           IF n * PageSize > Len(feed) THEN Len(feed) ELSE n * PageSize)

\* One item of a page: an unreadable date is skipped, an old article or the limit
\* ends the list.
TakeItem(c, l, item) ==
    IF ~l.more \/ ~item.dated THEN l
    ELSE IF item.rank <= cutoff[c] THEN [l EXCEPT !.more = FALSE]
    ELSE [taken |-> Append(l.taken, item.rank), more |-> Len(l.taken) + 1 < MaxArticles]

TakeItems(c, l, items) == FoldLeft(LAMBDA s, item : TakeItem(c, s, item), l, items)

\* Variants: the page is asked for again and again; a page is passed over.
NextPageStays(n) == n
NextPageSkips(n) == n + 2

NextPage(n) == n + 1

\* A page arrives.
ReadPage(c) ==
    /\ phase[c] = "listing"
    /\ LET items == PageItems(page[c])
           l     == TakeItems(c, [taken |-> list[c], more |-> TRUE], items)
       IN  IF items = <<>> \/ ~l.more
           THEN /\ list' = [list EXCEPT ![c] = l.taken]
                /\ phase' = [phase EXCEPT ![c] = "reading"]
                /\ UNCHANGED page
           ELSE /\ list' = [list EXCEPT ![c] = l.taken]
                /\ page' = [page EXCEPT ![c] = NextPage(@)]
                /\ UNCHANGED phase
    /\ UNCHANGED <<feed, articles, cutoff, begun, cut, batch, found>>

\* The request fails: the list ends with what it has, and nobody is told.
LosePage(c) ==
    /\ phase[c] = "listing"
    /\ phase' = [phase EXCEPT ![c] = "reading"]
    /\ cut' = [cut EXCEPT ![c] = TRUE]
    /\ UNCHANGED <<feed, articles, page, cutoff, list, begun, batch, found>>
-----------------------------------------------------------------------------
(* extract_daum_news_contents, build_article_payload, upsert_news_articles *)

\* What may become of a listed article: it is stored or dropped.  A text that could
\* not be read counts as a text without the company.
Fates == Verdicts \cup {FALSE}

\* Listing is over: its variables are gone, the batch is what is left.
ReadArticles(c) ==
    /\ phase[c] = "reading"
    /\ \E stored \in [DOMAIN list[c] -> Fates] :
          LET positions == SelectSeq([i \in DOMAIN list[c] |-> i], LAMBDA i : stored[i])
          IN  batch' = [batch EXCEPT ![c] = [k \in DOMAIN positions |->
                                                list[c][positions[k]]]]
    /\ phase' = [phase EXCEPT ![c] = "looking"]
    /\ list' = [list EXCEPT ![c] = <<>>] /\ begun' = [begun EXCEPT ![c] = <<>>]
    /\ page' = [page EXCEPT ![c] = 1] /\ cutoff' = [cutoff EXCEPT ![c] = 0]
    /\ cut' = [cut EXCEPT ![c] = FALSE]
    /\ UNCHANGED <<feed, articles, found>>

\* The selects of upsert_news_articles, one per article.
LookUp(c) ==
    /\ phase[c] = "looking"
    /\ found' = [found EXCEPT ![c] = Range(batch[c]) \cap articles]
    /\ phase' = [phase EXCEPT ![c] = "writing"]
    /\ UNCHANGED <<feed, articles, page, cutoff, list, begun, cut, batch>>

\* Variant: every select is answered before the first insert.
InsertsOnceUnflushed(c) ==
    \A i, k \in DOMAIN batch[c] :
       batch[c][i] = batch[c][k] /\ batch[c][i] \notin found[c] => i = k

\* A select flushes the inserts before it: an article that is listed twice is
\* inserted by its first copy and updated by the second.
InsertsOnce(c) == TRUE

\* The unique constraint on stock code and URL.
NoConflict(c) == InsertsOnce(c) /\ (Range(batch[c]) \ found[c]) \cap articles = {}

\* The commit stores the batch, or the constraint refuses it and the step fails.
Commit(c) ==
    /\ phase[c] = "writing"
    /\ IF NoConflict(c)
       THEN /\ articles' = articles \cup Range(batch[c])
            /\ phase' = [phase EXCEPT ![c] = "done"]
       ELSE /\ phase' = [phase EXCEPT ![c] = "raised"]
            /\ UNCHANGED articles
    /\ UNCHANGED <<feed, page, cutoff, list, begun, cut, batch, found>>

CollectionStep(c) == ReadPage(c) \/ ReadArticles(c) \/ LookUp(c) \/ Commit(c)

NewsNext ==
    \/ Publish
    \/ \E c \in Collections : BeginCollection(c) \/ CollectionStep(c) \/ LosePage(c)

NewsSpec == NewsInit /\ [][NewsNext]_newsVars
-----------------------------------------------------------------------------
(* Properties *)

\* However the list grew under the pages, the collection holds every recent
\* article that was on it at the beginning, except those older than all it holds
\* when the limit or a failed request cut it short.
ListHasNoGap ==
    \A c \in Collections : phase[c] = "reading" =>
       \A i \in DOMAIN begun[c] :
          LET item == begun[c][i]
              held == Range(list[c])
          IN  item.dated /\ item.rank > cutoff[c] =>
                 \/ item.rank \in held
                 \/ /\ cut[c] \/ Len(list[c]) = MaxArticles
                    /\ \A n \in held : n > item.rank

\* A collection fails only because another one stored one of its new articles
\* between its look and its commit, never over a copy of its own.
RaisedOnlyByRace ==
    \A c \in Collections : phase[c] = "raised" =>
       \E d \in Collections \ {c} :
          /\ phase[d] = "done"
          /\ (Range(batch[c]) \ found[c]) \cap Range(batch[d]) # {}

\* What is kept of a text is what the rules declare, for every text.
ExtractionIsExact == \A text \in Texts : Extract(text) = ExtractDeclared(text)
=============================================================================
