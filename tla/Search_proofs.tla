--------------------------- MODULE Search_proofs ---------------------------
(***************************************************************************)
(* Theorems about Search, for any rows, scores, filters and limits: the    *)
(* pages of a listing, cut from five rankings, are the one ranking of all  *)
(* that is relevant.                                                       *)
(***************************************************************************)
EXTENDS Search, TLAPS, FiniteSetTheorems

(* The order of the hits is a strict total order of the entries.           *)

ScoreOK == score \in [Entries -> 0..MaxScore]

Types == {"document", "chunk", "evidence", "project", "curated"}

LEMMA ScopesAre ==
  /\ DOMAIN ScopeOrder = 1..5
  /\ ScopeOrder[1] = "document" /\ ScopeOrder[2] = "chunk"
  /\ ScopeOrder[3] = "evidence" /\ ScopeOrder[4] = "project"
  /\ ScopeOrder[5] = "curated"
  /\ ToSet(ScopeOrder) = Types
<1>1. /\ DOMAIN ScopeOrder = 1..5
      /\ ScopeOrder[1] = "document" /\ ScopeOrder[2] = "chunk"
      /\ ScopeOrder[3] = "evidence" /\ ScopeOrder[4] = "project"
      /\ ScopeOrder[5] = "curated"
  BY DEF ScopeOrder
<1>2. ToSet(ScopeOrder) = {ScopeOrder[i] : i \in 1..5}
  BY <1>1 DEF ToSet
<1>3. 1..5 = {1, 2, 3, 4, 5}
  OBVIOUS
<1> QED
  BY <1>1, <1>2, <1>3 DEF Types

LEMMA EntryIs ==
  ASSUME NEW e \in Entries
  PROVE  /\ e.type \in Types /\ e.uid \in Nat
         /\ e.owner \in Documents \cup {Project}
         /\ e.type \in OfDocument <=> e.owner \in Documents
BY EntriesAssumption, ScopesAre

LEMMA RankOfType ==
  /\ \A t \in Types : HitTypeRank[t] \in 0..4
  /\ \A t, u \in Types : HitTypeRank[t] = HitTypeRank[u] => t = u
BY DEF HitTypeRank, Types

LEMMA HitsAreOrdered ==
  ASSUME ScoreOK
  PROVE  /\ \A e \in Entries : ~HitBefore(e, e)
         /\ \A e, f \in Entries : e # f => HitBefore(e, f) \/ HitBefore(f, e)
         /\ \A e, f, g \in Entries :
              HitBefore(e, f) /\ HitBefore(f, g) => HitBefore(e, g)
<1>1. \A e \in Entries :
        /\ score[e] \in Nat /\ e.uid \in Nat
        /\ HitTypeRank[e.type] \in Nat
  BY EntryIs, RankOfType, MaxScoreAssumption DEF ScoreOK
<1>2. \A e, f \in Entries :
        HitTypeRank[e.type] = HitTypeRank[f.type] /\ e.uid = f.uid => e = f
  BY EntryIs, RankOfType, EntriesAssumption
<1> QED
  BY <1>1, <1>2 DEF HitBefore
-----------------------------------------------------------------------------
(* The place of an entry in a set of entries.                              *)

Until(S, e) == {f \in S : f = e \/ HitBefore(f, e)}

Place(S, e) == Cardinality(Until(S, e))

Ranking(S) == Ranked(S, HitBefore)

LEMMA FiniteEntries ==
  ASSUME NEW S, S \subseteq Entries
  PROVE  IsFiniteSet(S) /\ Cardinality(S) \in Nat
BY EntriesAssumption, FS_Subset, FS_CardinalityType

LEMMA PlaceIsPlace ==
  ASSUME NEW S, S \subseteq Entries, NEW e \in S
  PROVE  Place(S, e) \in 1..Cardinality(S)
<1>1. Until(S, e) \subseteq S /\ e \in Until(S, e)
  BY DEF Until
<1>2. Cardinality(Until(S, e)) \in Nat
  BY <1>1, FiniteEntries
<1>3. Cardinality(Until(S, e)) <= Cardinality(S)
  BY <1>1, FiniteEntries, FS_Subset
<1>4. Cardinality(Until(S, e)) # 0
  BY <1>1, FiniteEntries, FS_EmptySet
<1> QED
  BY <1>2, <1>3, <1>4, FiniteEntries DEF Place

LEMMA BeforeIsLess ==
  ASSUME ScoreOK, NEW S, S \subseteq Entries, NEW e \in S, NEW f \in S,
         HitBefore(e, f)
  PROVE  Place(S, e) < Place(S, f)
<1>1. Until(S, e) \subseteq Until(S, f)
  BY HitsAreOrdered DEF Until
<1>2. f \in Until(S, f) /\ f \notin Until(S, e)
  BY HitsAreOrdered DEF Until
<1>3. Until(S, f) \subseteq Entries
  BY DEF Until
<1>4. /\ IsFiniteSet(Until(S, f))
      /\ Place(S, e) \in Nat /\ Place(S, f) \in Nat
  BY <1>1, <1>3, FiniteEntries DEF Place
<1>5. Place(S, e) <= Place(S, f) /\ Place(S, e) # Place(S, f)
  BY <1>1, <1>2, <1>4, FS_Subset DEF Place
<1> QED
  BY <1>4, <1>5

\* Less is before, and no two entries have one place.
LEMMA LessIsBefore ==
  ASSUME ScoreOK, NEW S, S \subseteq Entries, NEW e \in S, NEW f \in S
  PROVE  /\ Place(S, e) < Place(S, f) => HitBefore(e, f)
         /\ Place(S, e) = Place(S, f) => e = f
<1>1. Place(S, e) \in Nat /\ Place(S, f) \in Nat
  BY PlaceIsPlace, FiniteEntries
<1>2. e = f \/ HitBefore(e, f) \/ HitBefore(f, e)
  BY HitsAreOrdered
<1> QED
  BY <1>1, <1>2, BeforeIsLess

LEMMA EveryPlace ==
  ASSUME ScoreOK, NEW S, S \subseteq Entries, NEW k \in 1..Cardinality(S)
  PROVE  \E e \in S : Place(S, e) = k
<1> DEFINE n == Cardinality(S)
           place == [e \in S |-> Place(S, e)]
<1>1. IsFiniteSet(S) /\ n \in Nat
  BY FiniteEntries
<1>2. IsFiniteSet(1..n) /\ Cardinality(1..n) = n
  BY <1>1, FS_Interval
<1>3. place \in Injection(S, 1..n)
  BY PlaceIsPlace, LessIsBefore DEF Injection, IsInjective
<1>4. place \in Surjection(S, 1..n)
  BY <1>1, <1>2, <1>3, FS_Injection
<1> QED
  BY <1>4 DEF Surjection

\* A ranking has every entry at its place.
LEMMA RankingIs ==
  ASSUME ScoreOK, NEW S, S \subseteq Entries
  PROVE  /\ Ranking(S) \in [1..Cardinality(S) -> S]
         /\ \A k \in 1..Cardinality(S) : Place(S, Ranking(S)[k]) = k
         /\ \A e \in S : Ranking(S)[Place(S, e)] = e
<1>1. Ranking(S) = [k \in 1..Cardinality(S) |-> CHOOSE e \in S : Place(S, e) = k]
  BY DEF Ranking, Ranked, Place, Until
<1>2. \A k \in 1..Cardinality(S) :
        Ranking(S)[k] \in S /\ Place(S, Ranking(S)[k]) = k
  BY <1>1, EveryPlace
<1>3. \A e \in S : Ranking(S)[Place(S, e)] = e
  BY <1>2, PlaceIsPlace, LessIsBefore
<1> QED
  BY <1>1, <1>2, <1>3
-----------------------------------------------------------------------------
(* Pages of a ranking.                                                     *)

\* hits are the entries of S from place offset + 1 on, at most limit of them.
IsPage(S, offset, limit, hits) ==
  /\ hits \in Seq(S)
  /\ Len(hits) = IF offset + limit <= Cardinality(S) THEN limit
                 ELSE IF offset <= Cardinality(S) THEN Cardinality(S) - offset
                 ELSE 0
  /\ \A i \in 1..Len(hits) : Place(S, hits[i]) = offset + i

LEMMA MinOfTwo ==
  ASSUME NEW m \in Nat, NEW n \in Nat
  PROVE  Min({m, n}) = IF m <= n THEN m ELSE n
<1> DEFINE r == IF m <= n THEN m ELSE n
<1>1. r \in {m, n} /\ \A y \in {m, n} : r <= y
  OBVIOUS
<1>2. \A x \in {m, n} : (\A y \in {m, n} : x <= y) => x = r
  OBVIOUS
<1> HIDE DEF r
<1>3. Min({m, n}) = r
  BY <1>1, <1>2 DEF Min
<1> QED
  BY <1>3 DEF r

LEMMA SliceIsPage ==
  ASSUME ScoreOK, NEW S, S \subseteq Entries,
         NEW offset \in Nat, NEW limit \in Nat
  PROVE  IsPage(S, offset, limit, Slice(Ranking(S), offset, limit))
<1> DEFINE n == Cardinality(S)
           seq == Ranking(S)
           last == IF offset + limit <= n THEN offset + limit ELSE n
           hits == SubSeq(seq, offset + 1, last)
<1>1. n \in Nat
  BY FiniteEntries
<1>2. seq \in Seq(S) /\ Len(seq) = n
  BY <1>1, RankingIs
<1>3. \A k \in 1..n : Place(S, seq[k]) = k
  BY RankingIs
<1> HIDE DEF seq, n
<1>4. Slice(seq, offset, limit) = hits
  BY <1>1, <1>2, MinOfTwo DEF Slice
<1>5. /\ hits \in Seq(S)
      /\ Len(hits) = IF offset + limit <= n THEN limit
                     ELSE IF offset <= n THEN n - offset ELSE 0
      /\ \A i \in 1..Len(hits) :
           offset + i \in 1..n /\ hits[i] = seq[offset + i]
  <2>1. CASE offset + 1 <= last
    <3>1. /\ offset + 1 \in 1..Len(seq) /\ last \in 1..Len(seq)
      BY <1>1, <1>2, <2>1
    <3>2. /\ hits \in Seq(S)
          /\ Len(hits) = last - offset
          /\ \A i \in 1..(last - offset) : hits[i] = seq[offset + i]
      BY <1>2, <2>1, <3>1
    <3> QED
      BY <1>1, <2>1, <3>2
  <2>2. CASE offset + 1 > last
    <3>1. hits = <<>>
      BY <1>1, <1>2, <2>2
    <3> QED
      BY <1>1, <2>2, <3>1
  <2> QED
    BY <1>1, <2>1, <2>2
<1> QED
  BY <1>3, <1>4, <1>5 DEF IsPage, n, seq

\* Two pages of the same places are the same.
LEMMA PagesAreSame ==
  ASSUME ScoreOK, NEW S, S \subseteq Entries,
         NEW offset \in Nat, NEW limit \in Nat,
         NEW hits, IsPage(S, offset, limit, hits),
         NEW others, IsPage(S, offset, limit, others)
  PROVE  hits = others
<1>1. hits \in Seq(S) /\ others \in Seq(S) /\ Len(hits) = Len(others)
  BY DEF IsPage
<1>2. ASSUME NEW i \in 1..Len(hits)
      PROVE  hits[i] = others[i]
  <2>1. hits[i] \in S /\ others[i] \in S
    BY <1>1
  <2>2. Place(S, hits[i]) = Place(S, others[i])
    BY <1>1 DEF IsPage
  <2> QED
    BY <2>1, <2>2, LessIsBefore
<1> QED
  BY <1>1, <1>2

\* The rows of one table are in the same order as the hits.
LEMMA RowsAsHits ==
  ASSUME ScoreOK, NEW S, S \subseteq Entries, NEW t, \A e \in S : e.type = t
  PROVE  Ranked(S, RowBefore) = Ranking(S)
<1>1. t \in Types => HitTypeRank[t] \in Nat
  BY RankOfType
<1>2. \A e, f \in S : RowBefore(e, f) <=> HitBefore(e, f)
  <2> TAKE e, f \in S
  <2>1. HitTypeRank[e.type] \in Nat /\ HitTypeRank[f.type] = HitTypeRank[e.type]
    BY <1>1, EntryIs
  <2> QED
    BY <2>1 DEF RowBefore, HitBefore
<1>3. \A e \in S : {f \in S : f = e \/ RowBefore(f, e)} = Until(S, e)
  BY <1>2 DEF Until
<1> DEFINE rows == Ranked(S, RowBefore)
           n == Cardinality(S)
           Pick(k) == CHOOSE e \in S :
             Cardinality({f \in S : f = e \/ RowBefore(f, e)}) = k
<1>4. rows = [k \in 1..n |-> Pick(k)]
  BY DEF Ranked
<1>5. ASSUME NEW k \in 1..n
      PROVE  Pick(k) = Ranking(S)[k]
  <2>1. \E e \in S : Cardinality({f \in S : f = e \/ RowBefore(f, e)}) = k
    BY <1>3, EveryPlace DEF Place
  <2>2. /\ Pick(k) \in S
        /\ Cardinality({f \in S : f = Pick(k) \/ RowBefore(f, Pick(k))}) = k
    BY <2>1
  <2>3. Place(S, Pick(k)) = k
    BY <1>3, <2>2 DEF Place
  <2> QED
    BY <2>2, <2>3, RankingIs
<1> HIDE DEF Pick
<1>6. Ranking(S) = [k \in 1..n |-> Ranking(S)[k]]
  BY RankingIs
<1> QED
  BY <1>4, <1>5, <1>6
-----------------------------------------------------------------------------
(* What a query asks for, scope by scope.                                  *)

Wanted(query) == {e \in Entries : Relevant(query, e)}

InScope(query, scope) == {e \in Wanted(query) : e.type = scope}

MembersOK == members \in {None} \cup SUBSET Documents

\* Each scope finds what is relevant in it, although the filters of a document
\* are others than those of a project.
LEMMA MatchesAreRelevant ==
  ASSUME ScoreOK, MembersOK, NEW query \in Query, ~NotFound(query),
         NEW scope \in Types, query.scope \in {"all", scope}
  PROVE  /\ Matches(scope, query, Allowed(query)) = InScope(query, scope)
         /\ ScopeZero(scope, Allowed(query)) => InScope(query, scope) = {}
<1>1. query.project \in {Project, None} /\ query.document \in Documents \cup {None}
  BY DEF NotFound, Query
<1>2. None # Project /\ None \notin Documents
  BY NoneAssumption
<1>3. CASE query.project = None
  <2>1. Allowed(query) = None /\ None # {}
    BY <1>3, NoneAssumption DEF Allowed
  <2>2. ~ ScopeZero(scope, Allowed(query))
    BY <2>1 DEF ScopeZero
  <2>3. \A e \in Entries :
          /\ e.type = scope /\ score[e] > 0
          /\ IF scope \in OfDocument
             THEN /\ query.document \in {None, e.owner}
                  /\ None # None => e.owner \in None
             ELSE query.project \in {None, e.owner}
          <=> Relevant(query, e) /\ e.type = scope
    BY <1>1, <1>3 DEF Relevant
  <2> QED
    BY <2>1, <2>2, <2>3 DEF Matches, InScope, Wanted
<1>4. CASE query.project = Project
  <2>1. /\ Allowed(query) = members
        /\ members # None /\ members \in SUBSET Documents
    BY <1>2, <1>4 DEF Allowed, NotFound, MembersOK
  <2>2. ASSUME NEW e \in Entries
        PROVE  /\ e.type = scope /\ score[e] > 0
               /\ IF scope \in OfDocument
                  THEN /\ query.document \in {None, e.owner}
                       /\ members # None => e.owner \in members
                  ELSE query.project \in {None, e.owner}
               <=> Relevant(query, e) /\ e.type = scope
    <3>1. CASE scope \in OfDocument
      BY <1>1, <1>2, <1>4, <2>1, <3>1, EntryIs, ProjectAssumption DEF Relevant
    <3>2. CASE scope \notin OfDocument
      BY <1>1, <1>2, <1>4, <2>1, <3>2, EntryIs DEF Relevant
    <3> QED
      BY <3>1, <3>2
  <2>3. Matches(scope, query, Allowed(query)) = InScope(query, scope)
    BY <2>1, <2>2 DEF Matches, InScope, Wanted
  <2>4. ScopeZero(scope, Allowed(query)) => InScope(query, scope) = {}
    BY <1>2, <1>4, <2>1, EntryIs, ProjectAssumption
       DEF ScopeZero, InScope, Wanted, Relevant
  <2> QED
    BY <2>3, <2>4
<1> QED
  BY <1>1, <1>3, <1>4
LEMMA NothingIsPage ==
  ASSUME NEW offset \in Nat, NEW limit \in Nat
  PROVE  IsPage({}, offset, limit, <<>>)
<1>1. Cardinality({}) = 0
  BY FS_EmptySet
<1>2. <<>> \in Seq({}) /\ Len(<<>>) = 0
  OBVIOUS
<1> QED
  BY <1>1, <1>2 DEF IsPage

LEMMA InScopeIs ==
  ASSUME NEW query, NEW scope
  PROVE  /\ InScope(query, scope) \subseteq Wanted(query)
         /\ Wanted(query) \subseteq Entries
         /\ InScope(query, scope) \subseteq Entries
         /\ \A e \in InScope(query, scope) : e.type = scope
BY DEF InScope, Wanted

\* One scope gives a page of what is relevant in it, and counts all of that.
LEMMA ScopeFinds ==
  ASSUME ScoreOK, MembersOK, NEW query \in Query, ~NotFound(query),
         NEW scope \in Types, query.scope \in {"all", scope},
         NEW offset \in Nat, NEW limit \in Nat
  PROVE  LET found == SearchScope(scope, query, Allowed(query), limit, offset)
         IN  /\ IsPage(InScope(query, scope), offset, limit, found.hits)
             /\ found.total = Cardinality(InScope(query, scope))
<1> DEFINE found == SearchScope(scope, query, Allowed(query), limit, offset)
           rows == InScope(query, scope)
<1>1. rows = Matches(scope, query, Allowed(query))
  BY MatchesAreRelevant
<1>2. CASE ScopeZero(scope, Allowed(query))
  <2>1. rows = {} /\ Cardinality({}) = 0
    BY <1>2, MatchesAreRelevant, FS_EmptySet
  <2>2. found = [hits |-> <<>>, total |-> 0]
    BY <1>2 DEF SearchScope
  <2> QED
    BY <2>1, <2>2, NothingIsPage
<1>3. CASE ~ ScopeZero(scope, Allowed(query))
  <2>1. Ranked(rows, RowBefore) = Ranking(rows)
    BY InScopeIs, RowsAsHits
  <2>2. found = [ hits  |-> Slice(Ranked(rows, RowBefore), offset, limit),
                  total |-> Cardinality(rows) ]
    BY <1>1, <1>3 DEF SearchScope
  <2>3. found = [ hits  |-> Slice(Ranking(rows), offset, limit),
                  total |-> Cardinality(rows) ]
    BY <2>1, <2>2
  <2> QED
    BY <2>3, InScopeIs, SliceIsPage
<1> QED
  BY <1>2, <1>3
-----------------------------------------------------------------------------
(* Cutting every scope before merging loses nothing.                       *)

\* A part of S that has the best of S has the same page of it.
LEMMA BestIsEnough ==
  ASSUME ScoreOK, NEW S, S \subseteq Entries, NEW M, M \subseteq S,
         NEW offset \in Nat, NEW limit \in Nat,
         \A e \in S : Place(S, e) <= offset + limit => e \in M
  PROVE  IsPage(S, offset, limit, Slice(Ranking(M), offset, limit))
<1> DEFINE last == offset + limit
           hits == Slice(Ranking(M), offset, limit)
<1>1. /\ Cardinality(S) \in Nat /\ Cardinality(M) \in Nat
      /\ Cardinality(M) <= Cardinality(S)
  BY FiniteEntries, FS_Subset
<1>2. IsPage(M, offset, limit, hits)
  BY SliceIsPage
<1> HIDE DEF hits
<1>3. ASSUME NEW e \in S, Place(S, e) <= last
      PROVE  e \in M /\ Place(M, e) = Place(S, e)
  <2>1. ASSUME NEW f \in Until(S, e)
        PROVE  f \in M
    <3>1. f \in S /\ (f = e \/ HitBefore(f, e))
      BY DEF Until
    <3>2. Place(S, f) <= Place(S, e)
      BY <3>1, BeforeIsLess, PlaceIsPlace, FiniteEntries
    <3>3. Place(S, f) \in Nat /\ Place(S, e) \in Nat
      BY <3>1, PlaceIsPlace, FiniteEntries
    <3> QED
      BY <1>3, <3>1, <3>2, <3>3
  <2>2. Until(M, e) = Until(S, e)
    BY <2>1 DEF Until
  <2> QED
    BY <1>3, <2>2 DEF Place
<1>4. ASSUME NEW e \in M
      PROVE  Place(M, e) <= last => Place(S, e) = Place(M, e)
  <2> SUFFICES ASSUME Place(M, e) <= last
               PROVE  Place(S, e) = Place(M, e)
    OBVIOUS
  <2>1. Place(M, e) \in 1..Cardinality(S)
    BY <1>1, PlaceIsPlace
  <2>2. PICK g \in S : Place(S, g) = Place(M, e)
    BY <2>1, EveryPlace
  <2>3. g \in M /\ Place(M, g) = Place(M, e)
    BY <1>3, <2>2
  <2>4. g = e
    BY <2>3, LessIsBefore
  <2> QED
    BY <2>2, <2>4
<1>5. \/ last <= Cardinality(M) /\ last <= Cardinality(S)
      \/ M = S
  <2>1. CASE last > Cardinality(S)
    <3>1. \A e \in S : Place(S, e) <= last
      BY <1>1, <2>1, PlaceIsPlace
    <3> QED
      BY <1>3, <3>1
  <2>2. CASE last <= Cardinality(S) /\ last > 0
    <3>1. PICK g \in S : Place(S, g) = last
      BY <1>1, <2>2, EveryPlace
    <3>2. g \in M /\ Place(M, g) = last
      BY <1>3, <3>1
    <3> QED
      BY <1>1, <2>2, <3>2, PlaceIsPlace
  <2> QED
    BY <1>1, <2>1, <2>2
<1>6. ASSUME NEW i \in 1..Len(hits)
      PROVE  Place(S, hits[i]) = offset + i
  <2>1. hits[i] \in M /\ Place(M, hits[i]) = offset + i
    BY <1>2 DEF IsPage
  <2>2. i <= limit
    BY <1>1, <1>2 DEF IsPage
  <2> QED
    BY <1>4, <2>1, <2>2
<1> QED
  BY <1>1, <1>2, <1>5, <1>6 DEF IsPage, hits

\* The best of a whole are among the best of its parts.
LEMMA BestOfPart ==
  ASSUME ScoreOK, NEW S, S \subseteq Entries, NEW R, R \subseteq S,
         NEW limit \in Nat, NEW hits, IsPage(R, 0, limit, hits),
         NEW e \in R, Place(S, e) <= limit
  PROVE  e \in ToSet(hits)
<1>1. Until(R, e) \subseteq Until(S, e) /\ Until(S, e) \subseteq Entries
  BY DEF Until
<1>2. Place(R, e) <= Place(S, e)
  BY <1>1, FiniteEntries, FS_Subset DEF Place
<1>3. /\ Place(R, e) \in 1..Cardinality(R) /\ Cardinality(R) \in Nat
      /\ Place(S, e) \in Nat
  BY PlaceIsPlace, FiniteEntries
<1>4. Place(R, e) \in 1..Len(hits)
  BY <1>2, <1>3 DEF IsPage
<1>5. hits \in Seq(R) /\ Place(R, hits[Place(R, e)]) = Place(R, e)
  BY <1>4 DEF IsPage
<1>6. hits[Place(R, e)] = e
  BY <1>4, <1>5, LessIsBefore
<1> QED
  BY <1>4, <1>5, <1>6 DEF ToSet
LEMMA DisjointAdd ==
  ASSUME NEW S, NEW T, IsFiniteSet(S), IsFiniteSet(T), S \cap T = {}
  PROVE  /\ IsFiniteSet(S \cup T)
         /\ Cardinality(S \cup T) = Cardinality(S) + Cardinality(T)
         /\ Cardinality(S) \in Nat /\ Cardinality(T) \in Nat
<1>1. Cardinality(S \cap T) = 0
  BY FS_EmptySet
<1>2. Cardinality(S) \in Nat /\ Cardinality(T) \in Nat
  BY FS_CardinalityType
<1>3. /\ IsFiniteSet(S \cup T)
      /\ Cardinality(S \cup T)
           = Cardinality(S) + Cardinality(T) - Cardinality(S \cap T)
  BY FS_Union
<1> QED
  BY <1>1, <1>2, <1>3

\* The scopes are five parts of what is wanted.
LEMMA ScopesAdd ==
  ASSUME NEW query
  PROVE  Cardinality(Wanted(query))
           = Cardinality(InScope(query, "document"))
               + Cardinality(InScope(query, "chunk"))
               + Cardinality(InScope(query, "evidence"))
               + Cardinality(InScope(query, "project"))
               + Cardinality(InScope(query, "curated"))
<1> DEFINE D == InScope(query, "document")
           C == InScope(query, "chunk")
           E == InScope(query, "evidence")
           P == InScope(query, "project")
           A == InScope(query, "curated")
<1>1. /\ IsFiniteSet(D) /\ IsFiniteSet(C) /\ IsFiniteSet(E)
      /\ IsFiniteSet(P) /\ IsFiniteSet(A)
  BY InScopeIs, FiniteEntries
<1>2. Wanted(query) = (((D \cup C) \cup E) \cup P) \cup A
  BY EntryIs DEF InScope, Wanted, Types
<1>3. /\ D \cap C = {}
      /\ (D \cup C) \cap E = {}
      /\ ((D \cup C) \cup E) \cap P = {}
      /\ (((D \cup C) \cup E) \cup P) \cap A = {}
  BY DEF InScope
<1> HIDE DEF D, C, E, P, A
<1>4. /\ IsFiniteSet(D \cup C)
      /\ Cardinality(D \cup C) = Cardinality(D) + Cardinality(C)
  BY <1>1, <1>3, DisjointAdd
<1>5. /\ IsFiniteSet((D \cup C) \cup E)
      /\ Cardinality((D \cup C) \cup E) = Cardinality(D \cup C) + Cardinality(E)
  BY <1>1, <1>3, <1>4, DisjointAdd
<1>6. /\ IsFiniteSet(((D \cup C) \cup E) \cup P)
      /\ Cardinality(((D \cup C) \cup E) \cup P)
           = Cardinality((D \cup C) \cup E) + Cardinality(P)
  BY <1>1, <1>3, <1>5, DisjointAdd
<1>7. Cardinality((((D \cup C) \cup E) \cup P) \cup A)
        = Cardinality(((D \cup C) \cup E) \cup P) + Cardinality(A)
  BY <1>1, <1>3, <1>6, DisjointAdd
<1> QED
  BY <1>2, <1>4, <1>5, <1>6, <1>7 DEF D, C, E, P, A

\* The sum of the totals of five scopes.
LEMMA SumOfFive ==
  ASSUME NEW found, DOMAIN found = 1..5,
         \A i \in 1..5 : found[i].total \in Nat
  PROVE  FoldLeft(LAMBDA sum, scope : sum + scope.total, 0, found)
           = found[1].total + found[2].total + found[3].total
               + found[4].total + found[5].total
<1> DEFINE T(i) == found[i].total
           Sum(s) == (IF 1 \in s THEN T(1) ELSE 0) + (IF 2 \in s THEN T(2) ELSE 0)
                       + (IF 3 \in s THEN T(3) ELSE 0)
                       + (IF 4 \in s THEN T(4) ELSE 0)
                       + (IF 5 \in s THEN T(5) ELSE 0)
           Is(iter) == iter = [s \in SUBSET (1..5) |->
                                IF s = {} THEN 0
                                ELSE iter[s \ {Max(s)}] + T(Max(s))]
           iter == CHOOSE iter : Is(iter)
<1>1. FoldLeft(LAMBDA sum, scope : sum + scope.total, 0, found) = iter[1..5]
  BY DEF FoldLeft, MapThenFoldSet
<1>2. \A s \in SUBSET (1..5) :
        s # {} => Max(s) \in s /\ Max(s) \in {1, 2, 3, 4, 5}
  <2> SUFFICES ASSUME NEW s \in SUBSET (1..5), s # {}
               PROVE  Max(s) \in s /\ Max(s) \in {1, 2, 3, 4, 5}
    OBVIOUS
  <2>1. \A y \in s : y \in 1..5
    OBVIOUS
  <2>2. \A y \in s : y = 1 \/ y = 2 \/ y = 3 \/ y = 4 \/ y = 5
    BY <2>1
  <2>3. 5 \in s => \A y \in s : 5 >= y
    BY <2>2
  <2>4. 5 \notin s => \A y \in s : 4 >= y
    BY <2>2
  <2>5. 5 \notin s /\ 4 \notin s => \A y \in s : 3 >= y
    BY <2>2
  <2>6. 5 \notin s /\ 4 \notin s /\ 3 \notin s => \A y \in s : 2 >= y
    BY <2>2
  <2>7. 5 \notin s /\ 4 \notin s /\ 3 \notin s /\ 2 \notin s
          => 1 \in s /\ \A y \in s : 1 >= y
    <3> SUFFICES ASSUME 5 \notin s, 4 \notin s, 3 \notin s, 2 \notin s
                 PROVE  1 \in s /\ \A y \in s : 1 >= y
      OBVIOUS
    <3>1. \A y \in s : y = 1
      BY <2>2
    <3>2. PICK y \in s : TRUE
      OBVIOUS
    <3> QED
      BY <3>1, <3>2
  <2>8. \E x \in s : \A y \in s : x >= y
    <3>1. CASE 5 \in s
      BY <2>3, <3>1
    <3>2. CASE 5 \notin s /\ 4 \in s
      BY <2>4, <3>2
    <3>3. CASE 5 \notin s /\ 4 \notin s /\ 3 \in s
      BY <2>5, <3>3
    <3>4. CASE 5 \notin s /\ 4 \notin s /\ 3 \notin s /\ 2 \in s
      BY <2>6, <3>4
    <3>5. CASE 5 \notin s /\ 4 \notin s /\ 3 \notin s /\ 2 \notin s
      BY <2>7, <3>5
    <3> QED
      BY <3>1, <3>2, <3>3, <3>4, <3>5
  <2>9. Max(s) \in s
    BY <2>8 DEF Max
  <2> QED
    BY <2>2, <2>9
<1>3. T(1) \in Nat /\ T(2) \in Nat /\ T(3) \in Nat /\ T(4) \in Nat /\ T(5) \in Nat
  OBVIOUS
<1> HIDE DEF T
<1>4. Is([s \in SUBSET (1..5) |-> Sum(s)])
  <2>1. \A s \in SUBSET (1..5) :
          Sum(s) = IF s = {} THEN 0 ELSE Sum(s \ {Max(s)}) + T(Max(s))
    BY <1>2, <1>3
  <2>2. \A s \in SUBSET (1..5) : s \ {Max(s)} \in SUBSET (1..5)
    OBVIOUS
  <2> HIDE DEF Sum
  <2> QED
    BY <2>1, <2>2
<1>5. Is(iter)
  BY <1>4
<1> HIDE DEF iter
<1>6. \A n \in {1, 2, 3, 4, 5} : iter[1..n] = iter[1..(n - 1)] + T(n)
  <2> TAKE n \in {1, 2, 3, 4, 5}
  <2>1. 1..n \in SUBSET (1..5) /\ 1..n # {}
    OBVIOUS
  <2>2. Max(1..n) = n
    BY DEF Max
  <2>3. (1..n) \ {n} = 1..(n - 1)
    OBVIOUS
  <2> QED
    BY <1>5, <2>1, <2>2, <2>3
<1>7. iter[1..0] = 0
  BY <1>5
<1>8. /\ iter[1..1] = iter[1..0] + T(1) /\ iter[1..2] = iter[1..1] + T(2)
      /\ iter[1..3] = iter[1..2] + T(3) /\ iter[1..4] = iter[1..3] + T(4)
      /\ iter[1..5] = iter[1..4] + T(5)
  BY <1>6
<1>9. iter[1..5] = T(1) + T(2) + T(3) + T(4) + T(5)
  BY <1>3, <1>7, <1>8
<1> QED
  BY <1>1, <1>9 DEF T

LEMMA QueryIs ==
  ASSUME NEW query \in Query
  PROVE  query.limit \in Nat /\ query.scope \in Types \cup {"all"}
<1>1. query.limit \in Limits /\ query.scope \in ToSet(ScopeOrder) \cup {"all"}
  BY DEF Query
<1>2. Limits \subseteq Nat
  BY LimitsAssumption
<1> QED
  BY <1>1, <1>2, ScopesAre

\* The scopes together give a page of all that is relevant, and count all of it.
LEMMA AllScopesFind ==
  ASSUME ScoreOK, MembersOK, NEW query \in Query, ~NotFound(query),
         query.scope = "all", NEW offset \in Nat
  PROVE  LET found == SearchAllScopes(query, Allowed(query), offset)
         IN  /\ IsPage(Wanted(query), offset, query.limit, found.hits)
             /\ found.total = Cardinality(Wanted(query))
<1> DEFINE cap   == FetchCap(query.limit, offset)
           found == [ i \in DOMAIN ScopeOrder |->
                        SearchScope(ScopeOrder[i], query, Allowed(query), cap, 0) ]
           merged == UNION {ToSet(found[i].hits) : i \in DOMAIN found}
           total == FoldLeft(LAMBDA sum, scope : sum + scope.total, 0, found)
           page  == Slice(Ranking(merged), offset, query.limit)
           W     == Wanted(query)
           R(i)  == InScope(query, ScopeOrder[i])
<1>1. query.limit \in Nat /\ cap \in Nat /\ cap = offset + query.limit
  BY QueryIs DEF FetchCap
<1>2. /\ DOMAIN found = 1..5
      /\ \A i \in 1..5 : ScopeOrder[i] \in Types
  BY ScopesAre DEF ToSet
<1>3. \A i \in 1..5 :
        /\ IsPage(R(i), 0, cap, found[i].hits)
        /\ found[i].total = Cardinality(R(i))
  BY <1>1, <1>2, ScopeFinds
<1>4. \A i \in 1..5 : R(i) \subseteq W /\ R(i) \subseteq Entries
  BY InScopeIs
<1>5. W \subseteq Entries
  BY InScopeIs
<1>6. SearchAllScopes(query, Allowed(query), offset)
        = [hits |-> page, total |-> total]
  BY DEF SearchAllScopes, Ranking
<1> HIDE DEF found, cap
<1>7. merged \subseteq W
  <2>1. \A i \in 1..5 : ToSet(found[i].hits) \subseteq R(i)
    BY <1>3 DEF IsPage, ToSet
  <2> QED
    BY <1>2, <1>4, <2>1
<1>8. ASSUME NEW e \in W, Place(W, e) <= cap
      PROVE  e \in merged
  <2>1. PICK i \in 1..5 : e.type = ScopeOrder[i]
    BY <1>5, EntryIs, ScopesAre DEF ToSet
  <2>2. e \in R(i)
    BY <2>1 DEF InScope
  <2>3. e \in ToSet(found[i].hits)
    BY <1>1, <1>3, <1>4, <1>5, <1>8, <2>2, BestOfPart
  <2> QED
    BY <1>2, <2>3
<1>9. IsPage(W, offset, query.limit, page)
  BY <1>1, <1>5, <1>7, <1>8, BestIsEnough
<1>10. \A i \in 1..5 : found[i].total = Cardinality(R(i)) /\ found[i].total \in Nat
  BY <1>3, <1>4, FiniteEntries
<1>11. total = Cardinality(W)
  <2>1. total
          = found[1].total + found[2].total + found[3].total
              + found[4].total + found[5].total
    BY <1>2, <1>10, SumOfFive
  <2>2. /\ found[1].total = Cardinality(InScope(query, "document"))
        /\ found[2].total = Cardinality(InScope(query, "chunk"))
        /\ found[3].total = Cardinality(InScope(query, "evidence"))
        /\ found[4].total = Cardinality(InScope(query, "project"))
        /\ found[5].total = Cardinality(InScope(query, "curated"))
    BY <1>10, ScopesAre
  <2> QED
    BY <2>1, <2>2, ScopesAdd
<1> HIDE DEF total, page
<1> QED
  BY <1>6, <1>9, <1>11

\* So every search gives a page of the one ranking of what is relevant.
LEMMA SearchFinds ==
  ASSUME ScoreOK, MembersOK, NEW query \in Query, ~NotFound(query),
         NEW offset \in Nat
  PROVE  LET page == SearchPage(query, offset)
         IN  /\ IsPage(Wanted(query), offset, query.limit, page.hits)
             /\ page.total = Cardinality(Wanted(query))
<1>1. CASE query.scope = "all"
  BY <1>1, AllScopesFind DEF SearchPage
<1>2. CASE query.scope # "all"
  <2>1. query.scope \in Types /\ query.limit \in Nat
    BY <1>2, QueryIs
  <2>2. InScope(query, query.scope) = Wanted(query)
    BY <1>2 DEF InScope, Wanted, Relevant
  <2> QED
    BY <1>2, <2>1, <2>2, ScopeFinds DEF SearchPage
<1> QED
  BY <1>1, <1>2
-----------------------------------------------------------------------------
(***************************************************************************)
(* The inductive invariant.  What has been shown is the beginning of the   *)
(* ranking, place by place, so the next page begins where it ends; and     *)
(* the project of the query is still there, since kb_project is never      *)
(* deleted.                                                                *)
(***************************************************************************)
Shows(list) ==
  /\ list \in Listing
  /\ ~NotFound(list.query)
  /\ IsPage(Wanted(list.query), 0, Len(list.shown), list.shown)
  /\ list.total # None => list.total = Cardinality(Wanted(list.query))
  /\ ~list.open => Len(list.shown) = Cardinality(Wanted(list.query))

SearchInv ==
  /\ ScoreOK
  /\ MembersOK
  /\ listing # None => Shows(listing)

\* While no row changes, what a listing shows now it still shows after the step.
LEMMA ShowsStays ==
  ASSUME UNCHANGED <<score, members>>, Shows(listing')
  PROVE  Shows(listing)'
<1> DEFINE list == listing'
           W    == Wanted(list.query)
<1>1. Wanted(listing.query)' = W
  BY DEF Wanted, Relevant
<1>2. NotFound(listing.query)' <=> NotFound(list.query)
  BY DEF NotFound
<1>3. \A i : Place(Wanted(listing.query), listing.shown[i])' = Place(W, list.shown[i])
  <2> TAKE i
  <2>1. \A f : HitBefore(f, listing.shown[i])' <=> HitBefore(f, list.shown[i])
    BY DEF HitBefore
  <2>2. Until(Wanted(listing.query), listing.shown[i])' = Until(W, list.shown[i])
    BY <1>1, <2>1 DEF Until
  <2> QED
    BY <2>2 DEF Place
<1>4. IsPage(Wanted(listing.query), 0, Len(listing.shown), listing.shown)'
  <2>1. IsPage(W, 0, Len(list.shown), list.shown)
    BY DEF Shows
  <2> QED
    BY <1>1, <1>3, <2>1 DEF IsPage
<1> QED
  BY <1>1, <1>2, <1>4 DEF Shows

LEMMA InitSearchInv == Init => SearchInv
BY DEF Init, SearchInv, ScoreOK, MembersOK

LEMMA OpenPreserves ==
  ASSUME SearchInv, NEW query \in Query, OpenListing(query)
  PROVE  SearchInv'
<1> DEFINE list == [query |-> query, shown |-> <<>>, total |-> None, open |-> TRUE]
<1>1. listing' = list /\ ~NotFound(query) /\ UNCHANGED <<score, members>>
  BY DEF OpenListing
<1>2. Cardinality(Wanted(query)) \in Nat /\ Cardinality(Entries) \in Nat
  BY InScopeIs, FiniteEntries
<1>3. <<>> \in BoundedSeq(Entries, Cardinality(Entries))
  BY <1>2 DEF BoundedSeq, SeqOf
<1>4. list \in Listing
  BY <1>3 DEF Listing
<1>5. Len(<<>>) = 0 /\ <<>> \in Seq(Wanted(query))
  OBVIOUS
<1>6. IsPage(Wanted(query), 0, Len(<<>>), <<>>)
  BY <1>2, <1>5 DEF IsPage
<1>7. Shows(list)
  BY <1>1, <1>4, <1>6 DEF Shows
<1>8. Shows(listing)'
  BY <1>1, <1>7, ShowsStays
<1> QED
  BY <1>1, <1>8 DEF SearchInv, ScoreOK, MembersOK

\* A page that begins where the last one ended makes the list longer.
LEMMA PageAdds ==
  ASSUME NEW S, S \subseteq Entries, NEW limit \in Nat,
         NEW shown, IsPage(S, 0, Len(shown), shown),
         NEW hits, IsPage(S, Len(shown), limit, hits)
  PROVE  /\ IsPage(S, 0, Len(shown \o hits), shown \o hits)
         /\ Len(hits) # limit => Len(shown \o hits) = Cardinality(S)
<1>1. Cardinality(S) \in Nat
  BY FiniteEntries
<1>2. /\ shown \in Seq(S) /\ hits \in Seq(S)
      /\ Len(shown) \in Nat /\ Len(hits) \in Nat
  BY DEF IsPage
<1>3. /\ shown \o hits \in Seq(S)
      /\ Len(shown \o hits) = Len(shown) + Len(hits)
      /\ \A i \in 1..(Len(shown) + Len(hits)) :
           (shown \o hits)[i] = IF i <= Len(shown) THEN shown[i]
                                ELSE hits[i - Len(shown)]
  BY <1>2
<1>4. Len(shown) <= Cardinality(S)
  BY <1>1, <1>2 DEF IsPage
<1>5. /\ Len(shown) + Len(hits) <= Cardinality(S)
      /\ Len(hits) # limit => Len(shown) + Len(hits) = Cardinality(S)
  BY <1>1, <1>2, <1>4 DEF IsPage
<1>6. ASSUME NEW i \in 1..(Len(shown) + Len(hits))
      PROVE  Place(S, (shown \o hits)[i]) = i
  <2>1. CASE i <= Len(shown)
    BY <1>2, <1>3, <2>1 DEF IsPage
  <2>2. CASE i > Len(shown)
    <3>1. i - Len(shown) \in 1..Len(hits)
      BY <1>2, <2>2
    <3>2. Place(S, hits[i - Len(shown)]) = Len(shown) + (i - Len(shown))
      BY <3>1 DEF IsPage
    <3> QED
      BY <1>2, <1>3, <2>2, <3>2
  <2> QED
    BY <1>2, <2>1, <2>2
<1> QED
  BY <1>1, <1>2, <1>3, <1>5, <1>6 DEF IsPage

LEMMA SeqIsBounded ==
  ASSUME NEW S, NEW n \in Nat, NEW seq \in Seq(S), Len(seq) <= n
  PROVE  seq \in BoundedSeq(S, n)
<1>1. Len(seq) \in 0..n /\ seq \in [1..Len(seq) -> S]
  OBVIOUS
<1> QED
  BY <1>1 DEF BoundedSeq, SeqOf

LEMMA NextPagePreserves ==
  ASSUME SearchInv, NextPage
  PROVE  SearchInv'
<1> DEFINE query == listing.query
           shown == listing.shown
           page  == SearchPage(query, Len(shown))
           list  == [listing EXCEPT !.shown = shown \o page.hits,
                                    !.total = page.total,
                                    !.open = Len(page.hits) = query.limit]
           W     == Wanted(query)
<1>1. /\ Shows(listing) /\ ScoreOK /\ MembersOK
      /\ listing' = list /\ UNCHANGED <<score, members>>
  BY DEF SearchInv, NextPage
<1>2. listing \in Listing /\ query \in Query /\ ~NotFound(query)
  BY <1>1 DEF Shows, Listing
<1>3. /\ W \subseteq Entries /\ Cardinality(W) \in Nat
      /\ Cardinality(Entries) \in Nat /\ Cardinality(W) <= Cardinality(Entries)
  BY InScopeIs, FiniteEntries, EntriesAssumption, FS_Subset
<1>4. IsPage(W, 0, Len(shown), shown)
  BY <1>1 DEF Shows
<1>5. Len(shown) \in Nat /\ query.limit \in Nat
  BY <1>2, <1>4, QueryIs DEF IsPage
<1>6. /\ IsPage(W, Len(shown), query.limit, page.hits)
      /\ page.total = Cardinality(W)
  BY <1>1, <1>2, <1>5, SearchFinds
<1> DEFINE hits == page.hits
           all  == shown \o hits
<1>7. /\ list.query = query /\ list.shown = all
      /\ list.total = page.total /\ list.open = (Len(hits) = query.limit)
  BY <1>2 DEF Listing
<1> HIDE DEF page, hits, shown, W
<1>8. /\ IsPage(W, 0, Len(all), all)
      /\ Len(hits) # query.limit => Len(all) = Cardinality(W)
  <2>1. IsPage(W, Len(shown), query.limit, hits)
    BY <1>6 DEF hits
  <2> QED
    BY <1>3, <1>4, <1>5, <2>1, PageAdds
<1> HIDE DEF all
<1>9. all \in BoundedSeq(Entries, Cardinality(Entries))
  <2>1. all \in Seq(W) /\ Len(all) <= Cardinality(W)
    <3>1. all \in Seq(W)
      BY <1>8 DEF IsPage
    <3>2. Len(all) \in Nat
      BY <3>1
    <3> QED
      BY <1>3, <1>8, <3>1, <3>2 DEF IsPage
  <2>2. all \in Seq(Entries) /\ Len(all) <= Cardinality(Entries)
    BY <1>3, <2>1
  <2> QED
    BY <1>3, <2>2, SeqIsBounded
<1>10. list \in Listing
  BY <1>2, <1>3, <1>6, <1>9 DEF Listing, all, hits, shown
<1>11. Shows(list)
  BY <1>2, <1>6, <1>7, <1>8, <1>10 DEF Shows, W
<1>12. Shows(listing)'
  BY <1>1, <1>11, ShowsStays
<1> QED
  BY <1>1, <1>12 DEF SearchInv, ScoreOK, MembersOK
LEMMA SearchStep == SearchInv /\ [Next]_vars => SearchInv'
<1> SUFFICES ASSUME SearchInv, [Next]_vars
             PROVE  SearchInv'
  OBVIOUS
<1>1. ASSUME NEW e \in Entries, NEW n \in 0..MaxScore, Reindex(e, n)
      PROVE  SearchInv'
  BY <1>1 DEF SearchInv, ScoreOK, MembersOK, Reindex
<1>2. ASSUME NEW d \in Documents, MapDocument(d)
      PROVE  SearchInv'
  BY <1>2 DEF SearchInv, ScoreOK, MembersOK, MapDocument
<1>3. ASSUME NEW query \in Query, OpenListing(query)
      PROVE  SearchInv'
  BY <1>3, OpenPreserves
<1>4. CASE NextPage
  BY <1>4, NextPagePreserves
<1>5. CASE UNCHANGED vars
  <2>1. UNCHANGED <<score, members>> /\ listing' = listing
    BY <1>5 DEF vars
  <2>2. listing' # None => Shows(listing')
    BY <2>1 DEF SearchInv
  <2>3. listing' # None => Shows(listing)'
    BY <2>1, <2>2, ShowsStays
  <2> QED
    BY <2>1, <2>3 DEF SearchInv, ScoreOK, MembersOK
<1> QED
  BY <1>1, <1>2, <1>3, <1>4, <1>5 DEF Next

\* At all times a listing shows the beginning of the ranking of what its query
\* asks for (search_service.py, _search_all_scopes and _search_scope).
THEOREM Invariant == Spec => []SearchInv
BY InitSearchInv, SearchStep, PTL DEF Spec

\* The scores, the project and the caller's listing are well formed at all
\* times; a listing never grows beyond the entries there are.
THEOREM TypeCorrect == Spec => []TypeOK
<1>1. SearchInv => TypeOK
  BY DEF SearchInv, TypeOK, ScoreOK, MembersOK, Shows
<1> QED
  BY <1>1, Invariant, PTL
-----------------------------------------------------------------------------
\* _hit_sort_key puts the hits in the order that spec 012 gives them.
LEMMA OutranksIsBefore ==
  ASSUME NEW e \in Entries, NEW f \in Entries
  PROVE  Outranks(e, f) <=> HitBefore(e, f)
<1> DEFINE types == <<"evidence", "chunk", "document", "curated", "project">>
           At(t) == CHOOSE i \in DOMAIN types : types[i] = t
<1>1. DOMAIN types = {1, 2, 3, 4, 5}
  OBVIOUS
<1>2. /\ types[1] = "evidence" /\ types[2] = "chunk" /\ types[3] = "document"
      /\ types[4] = "curated" /\ types[5] = "project"
  OBVIOUS
<1> HIDE DEF types
<1>3. \A t \in Types : At(t) \in DOMAIN types /\ types[At(t)] = t
  BY <1>1, <1>2 DEF Types
<1>4. \A t \in Types : At(t) = HitTypeRank[t] + 1
  BY <1>1, <1>2, <1>3 DEF Types, HitTypeRank
<1> HIDE DEF At
<1>5. /\ At(e.type) = HitTypeRank[e.type] + 1
      /\ At(f.type) = HitTypeRank[f.type] + 1
      /\ HitTypeRank[e.type] \in Nat /\ HitTypeRank[f.type] \in Nat
      /\ HitTypeRank[e.type] = HitTypeRank[f.type] <=> e.type = f.type
  BY <1>4, EntryIs, RankOfType
<1>6. Outranks(e, f) <=>
        \/ score[e] > score[f]
        \/ /\ score[e] = score[f]
           /\ At(e.type) < At(f.type) \/ (e.type = f.type /\ e.uid < f.uid)
  BY DEF Outranks, At, types
<1> QED
  BY <1>5, <1>6 DEF HitBefore

\* The pages of a listing are the beginning of the one ranking of all that is
\* relevant, with no hit left out or shown twice, although _search_all_scopes
\* asks every table for a few rows only (fetch_cap) and cuts after merging.
THEOREM PagesAreOneRanking == Spec => []PagesAreRanking
<1>1. SearchInv => PagesAreRanking
  <2> SUFFICES ASSUME SearchInv, listing # None
               PROVE  PagesAreRanking
    BY DEF PagesAreRanking
  <2> DEFINE shown == listing.shown
             W     == Wanted(listing.query)
  <2>1. IsPage(W, 0, Len(shown), shown) /\ ScoreOK
    BY DEF SearchInv, Shows
  <2>2. W \subseteq Entries /\ W = {e \in Entries : Relevant(listing.query, e)}
    BY DEF Wanted
  <2> HIDE DEF W, shown
  <2>3. shown \in Seq(W) /\ DOMAIN shown = 1..Len(shown) /\ Len(shown) \in Nat
    BY <2>1 DEF IsPage
  <2>4. \A i \in DOMAIN shown : shown[i] \in W /\ Place(W, shown[i]) = i
    BY <2>1, <2>3 DEF IsPage
  <2>5. ASSUME NEW i \in DOMAIN shown, NEW j \in DOMAIN shown, i < j
        PROVE  Outranks(shown[i], shown[j])
    <3>1. /\ shown[i] \in W /\ shown[j] \in W
          /\ Place(W, shown[i]) < Place(W, shown[j])
      BY <2>4, <2>5
    <3>2. HitBefore(shown[i], shown[j])
      BY <2>1, <2>2, <3>1, LessIsBefore
    <3> QED
      BY <2>2, <3>1, <3>2, OutranksIsBefore
  <2>6. ToSet(shown) \subseteq W
    BY <2>4 DEF ToSet
  <2>7. ASSUME NEW e \in W \ ToSet(shown), NEW i \in DOMAIN shown
        PROVE  Outranks(shown[i], e)
    <3>1. Place(W, e) \in Nat /\ Place(W, e) >= 1
      BY <2>2, PlaceIsPlace, FiniteEntries
    <3>2. Place(W, e) \notin DOMAIN shown
      <4> SUFFICES ASSUME Place(W, e) \in DOMAIN shown
                   PROVE  FALSE
        OBVIOUS
      <4>1. shown[Place(W, e)] = e
        BY <2>1, <2>2, <2>4, LessIsBefore
      <4> QED
        BY <4>1 DEF ToSet
    <3>3. Place(W, shown[i]) < Place(W, e)
      BY <2>3, <2>4, <3>1, <3>2
    <3> QED
      BY <2>1, <2>2, <2>4, <3>3, LessIsBefore, OutranksIsBefore
  <2> QED
    BY <2>2, <2>5, <2>6, <2>7 DEF PagesAreRanking, shown
<1> QED
  BY <1>1, Invariant, PTL

\* total_count, the sum of five COUNTs, is the number of hits that a caller has
\* who reads until a page is not full.
THEOREM TotalIsExact == Spec => []TotalIsReached
<1>1. SearchInv => TotalIsReached
  BY DEF SearchInv, Shows, TotalIsReached, Wanted
<1> QED
  BY <1>1, Invariant, PTL
=============================================================================
