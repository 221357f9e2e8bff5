------------------------------- MODULE Search -------------------------------
(***************************************************************************)
(* Spec 012, services/search_service.py: search-kb ranks what matches a    *)
(* query in five tables and returns one page of it.  A search is one       *)
(* transaction that only reads, so it is one step here; a listing is a     *)
(* caller's sequence of searches, page after page, of the same query.      *)
(*                                                                         *)
(* Which rows match a text and how well is up to MySQL's FULLTEXT index    *)
(* (external): any scores are possible, and only scores above 0 match.     *)
(* uids are numbers, in their order.  Snippets and titles are left out,    *)
(* and --content-uid, which filters as --document-uid does: 006 gives a    *)
(* content one document.                                                   *)
(***************************************************************************)
EXTENDS SequencesExt

CONSTANTS
  Entries,    \* the rows of the five tables that may match
  Documents,  \* the document_uids
  Project,    \* the one project that may be in kb_project
  Unknown,    \* a project_code that is in no row
  MaxScore,   \* bound on a relevance score
  Limits,     \* the values given for --limit
  None        \* no filter, no row, or nothing yet

ScopeOrder  == <<"document", "chunk", "evidence", "project", "curated">>
HitTypeRank == [evidence |-> 0, chunk |-> 1, document |-> 2, curated |-> 3,
                project |-> 4]

OfDocument == {"document", "chunk", "evidence"}

\* owner is the document of a document, chunk or evidence, and the project of
\* the others.
ASSUME EntriesAssumption ==
  /\ IsFiniteSet(Entries)
  /\ Entries \subseteq [type : ToSet(ScopeOrder), uid : Nat,
                        owner : Documents \cup {Project}]
  /\ \A e \in Entries : e.type \in OfDocument <=> e.owner \in Documents
  /\ \A e, f \in Entries : e.type = f.type /\ e.uid = f.uid => e = f
ASSUME MaxScoreAssumption == MaxScore \in Nat
ASSUME LimitsAssumption == Limits \subseteq 1..100
ASSUME ProjectAssumption == Project \notin Documents
ASSUME NoneAssumption ==
  /\ None \notin Documents \cup {Project, Unknown}
  /\ \A mapped \in SUBSET Documents : mapped # None

VARIABLES
  score,    \* score[e]: the relevance of e to the text of the query
  members,  \* kb_project_document of Project, or None without a kb_project
  listing   \* the caller's listing, or None

vars == <<score, members, listing>>

Query == [ scope    : ToSet(ScopeOrder) \cup {"all"},
           project  : {Project, Unknown, None},
           document : Documents \cup {None},
           limit    : Limits ]

Listing == [ query : Query,
             shown : BoundedSeq(Entries, Cardinality(Entries)),
             total : Nat \cup {None},       \* of the last page
             open  : BOOLEAN ]              \* there may be another page

TypeOK ==
  /\ score \in [Entries -> 0..MaxScore]
  /\ members \in {None} \cup SUBSET Documents
  /\ listing \in Listing \cup {None}

Init ==
  /\ score \in [Entries -> 0..MaxScore]
  /\ members \in {None} \cup SUBSET Documents
  /\ listing = None
-----------------------------------------------------------------------------
\* 010 and 011 write rows, and every score may change.  Nothing is asked of the
\* pages that a caller has already got.
Reindex(e, n) ==
  /\ score[e] # n
  /\ score' = [score EXCEPT ![e] = n]
  /\ listing' = None
  /\ UNCHANGED members

MapDocument(d) ==
  /\ members' = IF members = None THEN {d} ELSE members \cup {d}
  /\ members' # members
  /\ listing' = None
  /\ UNCHANGED score
-----------------------------------------------------------------------------
\* allowed_document_uids: None without --project-code.
Allowed(query) == IF query.project = None THEN None ELSE members

\* _scope_zero_for_project
ScopeZero(scope, allowed) == scope \in OfDocument /\ allowed = {}

\* The WHERE of _search_document, _search_chunk and _search_evidence (with
\* _document_filters), of _search_project and of _search_curated.
Matches(scope, query, allowed) ==
  { e \in Entries :
      /\ e.type = scope /\ score[e] > 0
      /\ IF scope \in OfDocument
         THEN /\ query.document \in {None, e.owner}
              /\ allowed # None => e.owner \in allowed
         ELSE query.project \in {None, e.owner} }

\* ORDER BY relevance_score DESC, uid ASC
RowBefore(e, f) ==
  score[e] > score[f] \/ (score[e] = score[f] /\ e.uid < f.uid)

\* _hit_sort_key
HitBefore(e, f) ==
  LET re == HitTypeRank[e.type]
      rf == HitTypeRank[f.type]
  IN \/ score[e] > score[f]
     \/ /\ score[e] = score[f]
        /\ re < rf \/ (re = rf /\ e.uid < f.uid)

\* The elements of S, in the order of before: each at the place that says how
\* many stand before it, itself included.
Ranked(S, before(_, _)) ==
  [ k \in 1..Cardinality(S) |->
      CHOOSE e \in S : Cardinality({f \in S : f = e \/ before(f, e)}) = k ]

\* Mutant: the offset is not passed on.
SliceFromStart(seq, offset, limit) == SubSeq(seq, 1, Min({limit, Len(seq)}))

\* LIMIT and OFFSET, and the slice of a Python list
Slice(seq, offset, limit) ==
  SubSeq(seq, offset + 1, Min({offset + limit, Len(seq)}))

\* Mutant: COUNT without the filters.
SearchScopeCountAll(scope, query, allowed, limit, offset) ==
  [ hits  |-> Slice(Ranked(Matches(scope, query, allowed), RowBefore),
                    offset, limit),
    total |-> Cardinality({e \in Entries : e.type = scope /\ score[e] > 0}) ]

SearchScope(scope, query, allowed, limit, offset) ==
  IF ScopeZero(scope, allowed) THEN [hits |-> <<>>, total |-> 0]
  ELSE LET rows == Matches(scope, query, allowed) IN
       [ hits  |-> Slice(Ranked(rows, RowBefore), offset, limit),
         total |-> Cardinality(rows) ]

\* Mutant: each scope is asked for one page only.
FetchOnePage(limit, offset) == limit

FetchCap(limit, offset) == limit + offset

\* _search_all_scopes: the best rows of every scope, merged, sorted and cut.
SearchAllScopes(query, allowed, offset) ==
  LET found == [ i \in DOMAIN ScopeOrder |->
                   SearchScope(ScopeOrder[i], query, allowed,
                               FetchCap(query.limit, offset), 0) ]
      merged == UNION {ToSet(found[i].hits) : i \in DOMAIN found}
  IN [ hits  |-> Slice(Ranked(merged, HitBefore), offset, query.limit),
       total |-> FoldLeft(LAMBDA sum, scope : sum + scope.total, 0, found) ]

SearchPage(query, offset) ==
  IF query.scope = "all" THEN SearchAllScopes(query, Allowed(query), offset)
  ELSE SearchScope(query.scope, query, Allowed(query), query.limit, offset)

\* _resolve_project_filter raises SearchProjectNotFoundError
NotFound(query) ==
  query.project = Unknown \/ (query.project = Project /\ members = None)

OpenListing(query) ==
  /\ listing = None
  /\ ~NotFound(query)
  /\ listing' = [query |-> query, shown |-> <<>>, total |-> None, open |-> TRUE]
  /\ UNCHANGED <<score, members>>

\* The caller asks for pages until one is not full.
NextPage ==
  /\ listing # None /\ listing.open
  /\ LET page == SearchPage(listing.query, Len(listing.shown))
     IN listing' = [listing EXCEPT !.shown = @ \o page.hits,
                                   !.total = page.total,
                                   !.open = Len(page.hits) = listing.query.limit]
  /\ UNCHANGED <<score, members>>
-----------------------------------------------------------------------------
Next ==
  \/ \E e \in Entries, n \in 0..MaxScore : Reindex(e, n)
  \/ \E d \in Documents : MapDocument(d)
  \/ \E query \in Query : OpenListing(query)
  \/ NextPage

Spec == Init /\ [][Next]_vars
-----------------------------------------------------------------------------
\* What a query asks for, over all the tables at once: entry e matches it, in
\* a scope that it names, and belongs to the project and the document given.
Relevant(query, e) ==
  /\ score[e] > 0
  /\ query.scope \in {"all", e.type}
  /\ query.document # None /\ e.type \in OfDocument => e.owner = query.document
  /\ query.project # None => e.owner \in members \cup {Project}

\* Better score first, then evidence before chunk before document before
\* curated before project, then the smaller uid.
Outranks(e, f) ==
  LET types == <<"evidence", "chunk", "document", "curated", "project">>
      At(t) == CHOOSE i \in DOMAIN types : types[i] = t
  IN \/ score[e] > score[f]
     \/ /\ score[e] = score[f]
        /\ At(e.type) < At(f.type) \/ (e.type = f.type /\ e.uid < f.uid)

\* The pages of a listing, one after the other, are the beginning of the one
\* ranking of all that is relevant: although every scope is queried, cut and
\* counted for itself, no page skips or repeats a hit of the pages before.
PagesAreRanking ==
  listing # None =>
    LET shown == listing.shown
        wanted == {e \in Entries : Relevant(listing.query, e)}
    IN /\ \A i, j \in DOMAIN shown : i < j => Outranks(shown[i], shown[j])
       /\ ToSet(shown) \subseteq wanted
       /\ \A e \in wanted \ ToSet(shown), i \in DOMAIN shown :
            Outranks(shown[i], e)

\* total_count, "total hits before offset/limit", is what a caller gets who
\* reads on to the end, and every page announces the same.
TotalIsReached ==
  listing # None /\ listing.total # None =>
    /\ listing.total = Cardinality({e \in Entries : Relevant(listing.query, e)})
    /\ ~listing.open => Len(listing.shown) = listing.total
=============================================================================
