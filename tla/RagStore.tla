------------------------------ MODULE RagStore ------------------------------
(***************************************************************************)
(* The store of the rating methodologies: ingests that read the directory   *)
(* of documents and add the chunks the store does not have, and the lookup  *)
(* of the industry analyst, which asks for the methodology of a company's    *)
(* own industry.  Documents are edited, calls fail, ingests are killed and   *)
(* run side by side.                                                         *)
(*                                                                          *)
(* A chunk is its id: the file, its place in the file and its text, which    *)
(* the code puts into the id as a hash.                                      *)
(***************************************************************************)
EXTENDS RagChunks, IndustryFacts

CONSTANTS Files,        \* names of the documents, one industry each
          Methodology,  \* what a name says: [industry, sub]
          Contents,     \* what a document may hold: sequences of texts
          Unreadable,   \* a document that cannot be parsed
          Ingests, Clients, TopK,
          MaxEdits, MaxFailures  \* bounds

ASSUME StoreAssumption ==
    /\ TopK \in Nat \ {0} /\ MaxEdits \in Nat /\ MaxFailures \in Nat
    /\ IsFiniteSet(Files) /\ IsFiniteSet(Ingests) /\ DOMAIN Methodology = Files
    /\ Contents \subseteq Seq(STRING) /\ Unreadable \notin Contents

VARIABLES
    docs,      \* the directory
    store,     \* the collection industry_knowledge
    ingest,        \* where an ingest is
    todo,      \* the documents it has left, in order
    docChunks,     \* the chunks of the document it is at
    fresh,     \* those it is about to add
    stats,     \* what it counts
    uncounted, \* history: chunks it added and lost before it counted them
    edited,    \* history: documents edited since an ingest began
    sideBySide,\* history: two ingests ran at once
    edits, failures,
    answer     \* the last lookup

ragVars == <<docs, store, ingest, todo, docChunks, fresh, stats, uncounted, edited, sideBySide,
             edits, failures, answer>>

NoAnswer == [client |-> "none"]
NoStats  == [documents |-> 0, chunks |-> 0, inserted |-> 0, skipped |-> 0, errors |-> 0]

\* build_document_chunks: the same text at the same place is the same chunk.
ChunksOf(f, content) ==
    IF content = Unreadable THEN {}
    ELSE {[file |-> f, place |-> k, text |-> content[k]] : k \in DOMAIN content}

Ingesting == {i \in Ingests : ingest[i] \in {"file", "asking", "adding", "added"}}

RagInit ==
    /\ docs \in [Files -> Contents \cup {Unreadable}]
    /\ store = {} /\ uncounted = {} /\ answer = NoAnswer
    /\ ingest = [i \in Ingests |-> "new"]
    /\ todo = [i \in Ingests |-> <<>>]
    /\ docChunks = [i \in Ingests |-> {}] /\ fresh = [i \in Ingests |-> {}]
    /\ stats = [i \in Ingests |-> NoStats]
    /\ edited = [i \in Ingests |-> {}]
    /\ sideBySide = FALSE /\ edits = 0 /\ failures = 0

\* Somebody replaces a document.
EditDocument(f) ==
    /\ edits < MaxEdits /\ edits' = edits + 1
    /\ \E content \in (Contents \cup {Unreadable}) \ {docs[f]} :
          docs' = [docs EXCEPT ![f] = content]
    /\ edited' = [i \in Ingests |-> IF ingest[i] = "new" THEN {} ELSE edited[i] \cup {f}]
    /\ UNCHANGED <<store, ingest, todo, docChunks, fresh, stats, uncounted, sideBySide, failures,
                   answer>>
-----------------------------------------------------------------------------
(* ingest_industry_docs *)

BeginIngest(i) ==
    /\ ingest[i] = "new"
    /\ ingest' = [ingest EXCEPT ![i] = "file"]
    /\ todo' = [todo EXCEPT ![i] = SetToSeq(Files)]
    /\ sideBySide' = (sideBySide \/ Ingesting # {})
    /\ UNCHANGED <<docs, store, docChunks, fresh, stats, uncounted, edited, edits, failures,
                   answer>>

\* The document is done with: it is counted, and the next one is taken.
NextFile(i, count) ==
    /\ ingest' = [ingest EXCEPT ![i] = "file"]
    /\ todo' = [todo EXCEPT ![i] = Tail(@)]
    /\ docChunks' = [docChunks EXCEPT ![i] = {}] /\ fresh' = [fresh EXCEPT ![i] = {}]
    /\ stats' = [stats EXCEPT ![i] = count]

Counted(s, inserted, skipped) ==
    [s EXCEPT !.documents = @ + 1, !.chunks = @ + inserted + skipped,
              !.inserted = @ + inserted, !.skipped = @ + skipped]

\* A document that cannot be parsed is an error, one without text has no chunks.
ReadFile(i) ==
    /\ ingest[i] = "file" /\ todo[i] # <<>>
    /\ LET f == Head(todo[i])
       IN  CASE docs[f] = Unreadable ->
                   NextFile(i, [stats[i] EXCEPT !.errors = @ + 1])
             [] docs[f] # Unreadable /\ docs[f] = <<>> -> NextFile(i, Counted(stats[i], 0, 0))
             [] OTHER -> /\ docChunks' = [docChunks EXCEPT ![i] = ChunksOf(f, docs[f])]
                         /\ ingest' = [ingest EXCEPT ![i] = "asking"]
                         /\ UNCHANGED <<todo, fresh, stats>>
    /\ UNCHANGED <<docs, store, uncounted, edited, sideBySide, edits, failures, answer>>

\* Variant: a document that is there in part counts as there.
NewChunksOfNewFile(chunks) == IF chunks \cap store = {} THEN chunks ELSE {}

\* add_chunks_without_duplicates: what the store does not have.
NewChunks(chunks) == chunks \ store

\* The ids are asked for; a document that is there already is skipped.
AskIds(i) ==
    /\ ingest[i] = "asking"
    /\ LET new == NewChunks(docChunks[i])
       IN  IF new = {}
           THEN NextFile(i, Counted(stats[i], 0, Cardinality(docChunks[i])))
           ELSE /\ fresh' = [fresh EXCEPT ![i] = new]
                /\ ingest' = [ingest EXCEPT ![i] = "adding"]
                /\ UNCHANGED <<todo, docChunks, stats>>
    /\ UNCHANGED <<docs, store, uncounted, edited, sideBySide, edits, failures, answer>>

\* collection.add: the new chunks of a document, in one call.
AddChunks(i) ==
    /\ ingest[i] = "adding"
    /\ store' = store \cup fresh[i]
    /\ ingest' = [ingest EXCEPT ![i] = "added"]
    /\ UNCHANGED <<docs, todo, docChunks, fresh, stats, uncounted, edited, sideBySide, edits,
                   failures, answer>>

\* What the call added is counted when it has returned.
CountChunks(i) ==
    /\ ingest[i] = "added"
    /\ NextFile(i, Counted(stats[i], Cardinality(fresh[i]),
                           Cardinality(docChunks[i] \ fresh[i])))
    /\ UNCHANGED <<docs, store, uncounted, edited, sideBySide, edits, failures, answer>>

\* What a call that added chunks leaves uncounted if it does not return.
LoseCount(i) ==
    uncounted' = IF ingest[i] = "added" THEN uncounted \cup fresh[i] ELSE uncounted

\* A call to the store fails, before it added anything or after: the document is an
\* error, and the next one is taken.
FailCall(i) ==
    /\ ingest[i] \in {"asking", "adding", "added"}
    /\ failures < MaxFailures /\ failures' = failures + 1
    /\ NextFile(i, [stats[i] EXCEPT !.errors = @ + 1])
    /\ LoseCount(i)
    /\ UNCHANGED <<docs, store, edited, sideBySide, edits, answer>>

FinishIngest(i) ==
    /\ ingest[i] = "file" /\ todo[i] = <<>>
    /\ ingest' = [ingest EXCEPT ![i] = "done"]
    /\ UNCHANGED <<docs, store, todo, docChunks, fresh, stats, uncounted, edited, sideBySide,
                   edits, failures, answer>>

\* The process is killed.
Kill(i) ==
    /\ ingest[i] \in {"file", "asking", "adding", "added"}
    /\ failures < MaxFailures /\ failures' = failures + 1
    /\ ingest' = [ingest EXCEPT ![i] = "killed"]
    /\ LoseCount(i)
    /\ UNCHANGED <<docs, store, todo, docChunks, fresh, stats, edited, sideBySide, edits,
                   answer>>

IngestStep(i) ==
    \/ ReadFile(i) \/ AskIds(i) \/ AddChunks(i) \/ CountChunks(i) \/ FinishIngest(i)
-----------------------------------------------------------------------------
(* retrieve_industry_methodology, as the industry analyst calls it *)

\* Variant: the sector of a manufacturer is not part of the filter.
MatchesOfIndustry(c) == {k \in store : Methodology[k.file].industry = c.industry}

\* _build_where_filter: the industry, and the sector if there is one.
Matches(c) ==
    {k \in store :
        /\ Methodology[k.file].industry = c.industry
        /\ InferSubSector(c) # NoSub => Methodology[k.file].sub = InferSubSector(c)}

\* The grades are computed on the scale of the first source; the arms industry has
\* no grades of its own and takes those of all manufacturers.
GradeScale(sources) ==
    IF sources = <<>> THEN NoSub
    ELSE LET sub == Methodology[sources[1].file].sub
         IN  IF sub = "defence" THEN "corporate" ELSE sub

\* A search gives the nearest chunks that match or, if the search by meaning fails,
\* the first ones, in an order nobody knows either way.  If both fail the methodology
\* is unavailable, as if nothing matched.
Lookup(c) ==
    /\ answer = NoAnswer
    /\ \E how \in {"search", "none"} :
       LET found == Matches(c)
           n     == IF Cardinality(found) < TopK THEN Cardinality(found) ELSE TopK
       IN  \E sources \in IF how = "none" THEN {<<>>} ELSE [1..n -> found] :
              /\ IsInjective(sources)
              /\ answer' = [client |-> c, how |-> how, sources |-> sources,
                            scale |-> GradeScale(sources), unknown |-> found = {}]
    /\ UNCHANGED <<docs, store, ingest, todo, docChunks, fresh, stats, uncounted, edited,
                   sideBySide, edits, failures>>
-----------------------------------------------------------------------------
RagNext ==
    \/ \E f \in Files : EditDocument(f)
    \/ \E i \in Ingests : BeginIngest(i) \/ IngestStep(i) \/ FailCall(i) \/ Kill(i)
    \/ \E c \in Clients : Lookup(c)

RagSpec == RagInit /\ [][RagNext]_ragVars
-----------------------------------------------------------------------------
(* Properties *)

InsertedBy(counts) == MapThenSumSet(LAMBDA i : counts[i].inserted, Ingests)

\* The chunks that are in the store and that no ingest has counted: those of a call
\* that has not returned and those of a call that never did.
Uncounted ==
    uncounted \cup UNION {fresh[i] : i \in {j \in Ingests : ingest[j] = "added"}}

\* An ingest that ends well tells the truth about the store: every document was
\* counted once, and one whose chunks are not all there although nobody edited it is
\* one of the errors.  Without a second ingest beside it every chunk was counted as
\* inserted exactly once, whatever was edited, had failed before or was stored
\* before -- but for those of an add that a failure or a kill kept from returning
\* once it had stored them: these were counted by nobody and never will be.
IngestTellsTheTruth ==
    /\ \A i \in Ingests : ingest[i] = "done" =>
          /\ stats[i].documents + stats[i].errors = Cardinality(Files)
          /\ stats[i].inserted + stats[i].skipped = stats[i].chunks
          /\ Cardinality({f \in Files \ edited[i] : ~(ChunksOf(f, docs[f]) \subseteq store)})
                <= stats[i].errors
    /\ ~sideBySide => Cardinality(store \ Uncounted) = InsertedBy(stats)

\* A manufacturer is judged by the methodology of its own sector and by nothing
\* else, and by none only if the store has none or both searches failed.
OwnMethodology ==
    answer # NoAnswer =>
       /\ \A k \in DOMAIN answer.sources :
             LET m == Methodology[answer.sources[k].file]
             IN  /\ m.industry = answer.client.industry
                 /\ answer.client.industry = "manufacturing" =>
                       m.sub = InferSubSector(answer.client)
       /\ answer.sources = <<>> => answer.how = "none" \/ answer.unknown
       /\ answer.scale # NoSub /\ answer.client.industry = "manufacturing" =>
             answer.scale \in {InferSubSector(answer.client), "corporate"}
=============================================================================
