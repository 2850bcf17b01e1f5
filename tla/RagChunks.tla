------------------------------ MODULE RagChunks ------------------------------
(***************************************************************************)
(* How a page of a rating methodology becomes the chunks that are searched, *)
(* and how two rankings of chunks are merged.  A page is its lines that are *)
(* not blank; a line is its kind and its width.  A text line that starts    *)
(* like a number in a list is a heading to the code, whatever it says.      *)
(***************************************************************************)
EXTENDS Naturals, FiniteSets, Sequences, SequencesExt, Lists

CONSTANTS ChunkSize, Overlap,
          Widths, MaxLines  \* bounds on the lines of a page

ASSUME ChunkAssumption ==
    /\ Overlap \in Nat /\ ChunkSize \in Nat /\ Overlap < ChunkSize
    /\ Widths \subseteq Nat \ {0} /\ MaxLines \in Nat \ {0}

Lines == [kind : {"text", "heading", "table"}, width : Widths]
Pages == UNION {[1..n -> Lines] : n \in 1..MaxLines}
-----------------------------------------------------------------------------
(* Chunks *)

\* chunk_text: the windows of a text of n characters, as their first and last
\* character.
ChunkText(n) ==
    LET slide[start \in 1..n] ==
            LET end == IF start + ChunkSize - 1 < n THEN start + ChunkSize - 1 ELSE n
            IN  <<[from |-> start, to |-> end]>>
                   \o (IF end = n THEN <<>> ELSE slide[end - Overlap + 1])
    IN  IF n = 0 THEN <<>> ELSE slide[1]

\* The lines joined by a blank each.
JoinedWidth(page, lines) ==
    FoldLeft(LAMBDA sum, i : sum + page[i].width, Len(lines) - 1, lines)

\* A section that has no line is dropped, and its title with it.
EndSection(s) ==
    IF s.lines = <<>> THEN s.done ELSE Append(s.done, [title |-> s.title, lines |-> s.lines])

\* Variant: the section that is open at the end of the page is forgotten.
SectionsEnded(page) ==
    FoldLeft(LAMBDA s, i :
                IF page[i].kind = "text" THEN [s EXCEPT !.lines = Append(@, i)]
                ELSE [done |-> EndSection(s), title |-> i, lines |-> <<>>],
             [done |-> <<>>, title |-> 0, lines |-> <<>>],
             [i \in DOMAIN page |-> i]).done

\* The sections of a page: the lines under each heading and before the first.
Sections(page) ==
    EndSection(
        FoldLeft(LAMBDA s, i :
                    IF page[i].kind = "text" THEN [s EXCEPT !.lines = Append(@, i)]
                    ELSE [done |-> EndSection(s), title |-> i, lines |-> <<>>],
                 [done |-> <<>>, title |-> 0, lines |-> <<>>],
                 [i \in DOMAIN page |-> i]))

Piece(s, w) == [title |-> s.title, lines |-> s.lines, from |-> w.from, to |-> w.to]

\* A table or a section that fits with its title in front stays whole; of a longer
\* one every window is prefixed, and may be longer than a chunk for it.
SectionChunks(page, s) ==
    LET n         == JoinedWidth(page, s.lines)
        prefix    == IF s.title = 0 THEN 0 ELSE page[s.title].width + 3
        protected == s.title # 0 /\ page[s.title].kind = "table"
        windows   == IF protected \/ prefix + n <= ChunkSize
                     THEN <<[from |-> 1, to |-> n]>> ELSE ChunkText(n)
    IN  [k \in DOMAIN windows |-> Piece(s, windows[k])]

\* chunk_page_by_section; a page of headings only is cut as a whole.
ChunkPage(page) ==
    LET sections == Sections(page)
        whole    == [title |-> 0, lines |-> [i \in DOMAIN page |-> i]]
        windows  == ChunkText(JoinedWidth(page, whole.lines))
    IN  IF sections = <<>>
        THEN [k \in DOMAIN windows |-> Piece(whole, windows[k])]
        ELSE FoldLeft(LAMBDA chunks, s : chunks \o SectionChunks(page, s), <<>>, sections)

\* Nothing a page says is lost: each text line is in exactly one section, the
\* windows of a section cover it in order with the overlap and none lies in
\* another, only tables are longer than a chunk, and a heading is lost exactly if
\* no text follows it on its page while other text is there.
PageIsKept(page) ==
    LET chunks == ChunkPage(page)
        Of(c)  == Kept(chunks, LAMBDA x : x.lines = c.lines)
        bare   == \A i \in DOMAIN page : page[i].kind # "text"
    IN  /\ chunks # <<>>
        /\ \A i \in DOMAIN page : page[i].kind = "text" =>
              Cardinality({c.lines : c \in {x \in Range(chunks) : i \in Range(x.lines)}}) = 1
        /\ \A i \in DOMAIN page : page[i].kind # "text" =>
              ((\E c \in Range(chunks) : c.title = i \/ i \in Range(c.lines)) <=>
                  bare \/ (i < Len(page) /\ page[i + 1].kind = "text"))
        /\ \A c \in Range(chunks) :
              /\ \/ c.to - c.from < ChunkSize
                 \/ c.title # 0 /\ page[c.title].kind = "table" /\ Len(Of(c)) = 1
              /\ Of(c)[1].from = 1
              /\ Last(Of(c)).to = JoinedWidth(page, c.lines)
              /\ \A k \in 1..(Len(Of(c)) - 1) :
                    /\ Of(c)[k + 1].from = Of(c)[k].to - Overlap + 1
                    /\ Of(c)[k + 1].to > Of(c)[k].to
-----------------------------------------------------------------------------
(* Rankings *)

RrfConstant == 60

\* The reciprocal ranks of a chunk in both rankings, as a fraction.
RrfScore(d, dense, sparse) ==
    LET At(s) == RrfConstant + (CHOOSE i \in DOMAIN s : s[i] = d)
    IN  CASE d \in Range(dense) /\ d \in Range(sparse) ->
                <<At(dense) + At(sparse), At(dense) * At(sparse)>>
          [] d \in Range(dense) /\ d \notin Range(sparse) -> <<1, At(dense)>>
          [] OTHER -> <<1, At(sparse)>>

\* Variant: ranks of one ranking only.
RrfMergeDenseFirst(dense, sparse) ==
    dense \o Kept(sparse, LAMBDA d : d \notin Range(dense))

\* _rrf_merge: by score; of equal ones the one that was seen first.
RrfMerge(dense, sparse) ==
    LET Ahead(d, e) == LET a == RrfScore(d, dense, sparse)  b == RrfScore(e, dense, sparse)
                       IN  a[1] * b[2] > b[1] * a[2]
    IN  StableSort(dense \o Kept(sparse, LAMBDA d : d \notin Range(dense)), Ahead)

\* _hybrid_retrieve_ids: the head of the merge of the heads.
HybridIds(dense, sparse, topK) ==
    LET head(s) == SubSeq(s, 1, IF Len(s) < topK THEN Len(s) ELSE topK)
    IN  head(RrfMerge(head(dense), head(sparse)))

\* _hit_and_mrr: the rank of the first gold chunk, 0 for a miss.
FirstHit(ids, gold) ==
    LET hits == {i \in DOMAIN ids : ids[i] \in gold}
    IN  IF hits = {} THEN 0 ELSE CHOOSE i \in hits : \A k \in hits : i <= k

\* The merge ranks every chunk of both rankings once, a chunk of both above every
\* chunk of one, and never drops the nearest chunk for one only the words found.
RankingsAgree(Ids, topK) ==
    LET Rankings == {s \in UNION {[1..n -> Ids] : n \in 0..topK} : IsInjective(s)}
    IN  \A dense, sparse \in Rankings :
           LET merged == RrfMerge(dense, sparse)
               both   == Range(dense) \cap Range(sparse)
           IN  /\ Range(merged) = Range(dense) \cup Range(sparse) /\ IsInjective(merged)
               /\ \A i, k \in DOMAIN merged :
                     merged[i] \in both /\ merged[k] \notin both => i < k
               /\ \A n \in 1..topK : dense # <<>> =>
                     FirstHit(HybridIds(dense, sparse, n), {dense[1]}) > 0
=============================================================================
