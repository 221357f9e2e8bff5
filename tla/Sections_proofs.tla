-------------------------- MODULE Sections_proofs --------------------------
(***************************************************************************)
(* Theorems about Sections, for texts of any length and headings of any    *)
(* level: where a section says that it stands, and what it quotes.         *)
(*                                                                         *)
(* These are inductions over the headings of a text.  Each is written as   *)
(* the search for the first heading at which the claim fails: by the       *)
(* least-number lemma there is one, and the heading before it refutes it.  *)
(***************************************************************************)
EXTENDS MCSections, TLAPS, FiniteSetTheorems, WellFoundedInduction

LEMMA LeastNumber ==
  ASSUME NEW T, T \subseteq Nat, T # {}
  PROVE  \E n \in T : \A m \in T : n <= m
<1> DEFINE R == {ss \in Nat \X Nat : ss[1] < ss[2]}
<1>1. IsWellFoundedOn(R, Nat)
  BY NatLessThanWellFounded DEF OpToRel
<1>2. \A m, n \in T : m < n => <<m, n>> \in R
  OBVIOUS
<1> HIDE DEF R
<1>3. PICK n \in T : \A m \in T : ~ (<<m, n>> \in R)
  BY <1>1, WFMin
<1>4. \A m \in T : m \in Nat /\ n \in Nat /\ ~ (m < n)
  BY <1>2, <1>3
<1> QED
  BY <1>4

-----------------------------------------------------------------------------
(* Enumerating a finite set of numbers in their order.                     *)

Upto(S, i) == {j \in S : j <= i}

Numbered(S) == S \subseteq Nat /\ IsFiniteSet(S)

LEMMA UptoIs ==
  ASSUME NEW S, Numbered(S), NEW i \in S
  PROVE  Cardinality(Upto(S, i)) \in 1..Cardinality(S) /\ Cardinality(S) \in Nat
<1>1. Upto(S, i) \subseteq S /\ i \in Upto(S, i)
  BY DEF Upto, Numbered
<1>2. /\ IsFiniteSet(Upto(S, i)) /\ Cardinality(Upto(S, i)) <= Cardinality(S)
      /\ Cardinality(Upto(S, i)) \in Nat /\ Cardinality(S) \in Nat
  BY <1>1, FS_Subset, FS_CardinalityType DEF Numbered
<1>3. Cardinality(Upto(S, i)) # 0
  BY <1>1, <1>2, FS_EmptySet
<1> QED
  BY <1>2, <1>3

LEMMA LessHasLess ==
  ASSUME NEW S, Numbered(S), NEW i \in S, NEW j \in S, i < j
  PROVE  Cardinality(Upto(S, i)) < Cardinality(Upto(S, j))
<1>0. i \in Nat /\ j \in Nat /\ \A m \in S : m \in Nat
  BY DEF Numbered
<1>a. \A m \in S : m <= i => m <= j
  BY <1>0
<1>b. j <= j /\ ~ (j <= i)
  BY <1>0
<1>1. Upto(S, i) \subseteq Upto(S, j) /\ j \in Upto(S, j) /\ j \notin Upto(S, i)
  BY <1>a, <1>b DEF Upto
<1>2. IsFiniteSet(Upto(S, j))
  BY FS_Subset DEF Upto, Numbered
<1>3. /\ Cardinality(Upto(S, i)) <= Cardinality(Upto(S, j))
      /\ Cardinality(Upto(S, i)) # Cardinality(Upto(S, j))
  BY <1>1, <1>2, FS_Subset
<1>4. Cardinality(Upto(S, i)) \in Nat /\ Cardinality(Upto(S, j)) \in Nat
  BY UptoIs
<1> QED
  BY <1>3, <1>4

LEMMA LessIsLess ==
  ASSUME NEW S, Numbered(S), NEW i \in S, NEW j \in S
  PROVE  /\ Cardinality(Upto(S, i)) < Cardinality(Upto(S, j)) => i < j
         /\ Cardinality(Upto(S, i)) = Cardinality(Upto(S, j)) => i = j
<1>1. i \in Nat /\ j \in Nat
  BY DEF Numbered
<1>2. i < j \/ i = j \/ j < i
  BY <1>1
<1>3. Cardinality(Upto(S, i)) \in Nat /\ Cardinality(Upto(S, j)) \in Nat
  BY UptoIs
<1> QED
  BY <1>2, <1>3, LessHasLess

\* InOrder gives each member once, the smaller first.
LEMMA InOrderIs ==
  ASSUME NEW S, Numbered(S)
  PROVE  /\ Cardinality(S) \in Nat
         /\ InOrder(S) \in [1..Cardinality(S) -> S]
         /\ \A k, m \in 1..Cardinality(S) : k < m => InOrder(S)[k] < InOrder(S)[m]
         /\ \A i \in S : \E k \in 1..Cardinality(S) : InOrder(S)[k] = i
<1> DEFINE n == Cardinality(S)
           place == [i \in S |-> Cardinality(Upto(S, i))]
           Pick(k) == CHOOSE i \in S : Cardinality(Upto(S, i)) = k
<1>1. n \in Nat /\ IsFiniteSet(1..n) /\ Cardinality(1..n) = n
  <2>1. n \in Nat
    BY FS_CardinalityType DEF Numbered
  <2>2. \A m \in Nat : IsFiniteSet(1..m)
                       /\ Cardinality(1..m) = IF 1 > m THEN 0 ELSE m - 1 + 1
    BY FS_Interval
  <2> HIDE DEF n
  <2> QED
    BY <2>1, <2>2
<1>2. place \in Injection(S, 1..n)
  BY UptoIs, LessIsLess DEF Injection, IsInjective
<1>3. place \in Surjection(S, 1..n)
  BY <1>1, <1>2, FS_Injection DEF Numbered
<1>4. \A k \in 1..n : \E i \in S : Cardinality(Upto(S, i)) = k
  BY <1>3 DEF Surjection
<1>5. \A k \in 1..n : Pick(k) \in S /\ Cardinality(Upto(S, Pick(k))) = k
  BY <1>4
<1>6. InOrder(S) = [k \in 1..n |-> Pick(k)]
  BY DEF InOrder, Upto
<1> HIDE DEF Pick
<1>7. \A k, m \in 1..n : k < m => Pick(k) < Pick(m)
  BY <1>5, LessIsLess
<1>8. ASSUME NEW i \in S
      PROVE  \E k \in 1..n : Pick(k) = i
  <2>1. Cardinality(Upto(S, i)) \in 1..n
    BY UptoIs
  <2> QED
    BY <1>5, <2>1, LessIsLess
<1> QED
  BY <1>1, <1>5, <1>6, <1>7, <1>8

\* seq gives the members of S, each once, the smaller first.
Lists(seq, S) ==
  /\ seq \in Seq(S)
  /\ \A k, m \in 1..Len(seq) : k < m => seq[k] < seq[m]
  /\ \A i \in S : \E k \in 1..Len(seq) : seq[k] = i

LEMMA InOrderLists ==
  ASSUME NEW S, Numbered(S)
  PROVE  Lists(InOrder(S), S) /\ Len(InOrder(S)) = Cardinality(S)
<1> DEFINE seq == InOrder(S)
<1>1. seq \in Seq(S) /\ Len(seq) = Cardinality(S)
  BY InOrderIs
<1> QED
  BY <1>1, InOrderIs DEF Lists

\* There is only one such list.
LEMMA ListIsInOrder ==
  ASSUME NEW S, S \subseteq Nat, NEW seq, Lists(seq, S)
  PROVE  InOrder(S) = seq /\ Numbered(S)
<1> DEFINE n == Len(seq)
<1>1. n \in Nat /\ DOMAIN seq = 1..n /\ seq \in [1..n -> S]
  BY DEF Lists
<1>6. \A k, m \in 1..n : k < m => seq[k] < seq[m]
  BY DEF Lists
<1>7. \A i \in S : \E k \in 1..n : seq[k] = i
  BY DEF Lists
<1>8. \A k \in 1..n : seq[k] \in S /\ seq[k] \in Nat
  BY <1>1
<1> HIDE DEF n
<1>2. ASSUME NEW k \in 1..n
      PROVE  IsFiniteSet(Upto(S, seq[k])) /\ Cardinality(Upto(S, seq[k])) = k
  <2> DEFINE T == Upto(S, seq[k])
             part == [i \in 1..k |-> seq[i]]
  <2>1. ASSUME NEW i \in 1..k
        PROVE  i \in 1..n /\ seq[i] \in S /\ seq[i] <= seq[k]
    <3>1. i \in 1..n /\ (i = k \/ i < k)
      BY <1>1
    <3>2. i = k \/ seq[i] < seq[k]
      BY <1>6, <3>1
    <3> QED
      BY <1>8, <3>1, <3>2
  <2>2. part \in [1..k -> T]
    BY <2>1 DEF Upto
  <2>3. ASSUME NEW i \in T
        PROVE  \E j \in 1..k : part[j] = i
    <3>1. i \in S /\ i <= seq[k] /\ i \in Nat
      BY DEF Upto
    <3>2. PICK j \in 1..n : seq[j] = i
      BY <1>7, <3>1
    <3>3. ~ (k < j)
      <4> SUFFICES ASSUME k < j PROVE FALSE
        OBVIOUS
      <4>1. seq[k] < i
        BY <1>6, <3>2
      <4> QED
        BY <1>8, <3>1, <4>1
    <3>4. j \in 1..k
      BY <1>1, <3>3
    <3> QED
      BY <3>2, <3>4
  <2>4. \A i, j \in 1..k : part[i] = part[j] => i = j
    <3> SUFFICES ASSUME NEW i \in 1..k, NEW j \in 1..k, seq[i] = seq[j]
                 PROVE  i = j
      OBVIOUS
    <3>1. ~ (i < j) /\ ~ (j < i)
      <4>1. i \in 1..n /\ j \in 1..n
        BY <2>1
      <4>2. (i < j => seq[i] < seq[j]) /\ (j < i => seq[j] < seq[i])
        BY <1>6, <4>1
      <4> QED
        BY <1>8, <4>1, <4>2
    <3> QED
      BY <1>1, <3>1
  <2> HIDE DEF part
  <2>5. part \in Bijection(1..k, T)
    BY <2>2, <2>3, <2>4 DEF Bijection, Injection, Surjection, IsInjective
  <2>6. ExistsBijection(1..k, T)
    BY <2>5 DEF ExistsBijection
  <2>7. IsFiniteSet(1..k) /\ Cardinality(1..k) = k
    <3>1. \A m \in Nat : IsFiniteSet(1..m)
                         /\ Cardinality(1..m) = IF 1 > m THEN 0 ELSE m - 1 + 1
      BY FS_Interval
    <3> QED
      BY <1>1, <3>1
  <2> QED
    BY <2>6, <2>7, FS_Bijection
<1>3. IsFiniteSet(S) /\ Cardinality(S) = n
  <2>1. CASE n = 0
    <3>1. S = {}
      BY <1>1, <1>7, <2>1
    <3> QED
      BY <2>1, <3>1, FS_EmptySet
  <2>2. CASE n # 0
    <3>1. n \in 1..n
      BY <1>1, <2>2
    <3>2. \A i \in S : i <= seq[n]
      <4> TAKE i \in S
      <4>1. PICK k \in 1..n : seq[k] = i
        BY <1>7
      <4>2. k = n \/ k < n
        BY <1>1
      <4>3. k = n \/ seq[k] < seq[n]
        BY <1>6, <3>1, <4>2
      <4> QED
        BY <1>8, <3>1, <4>1, <4>3
    <3>3. Upto(S, seq[n]) = S
      BY <3>2 DEF Upto
    <3> QED
      BY <1>2, <3>1, <3>3
  <2> QED
    BY <2>1, <2>2
<1>4. Numbered(S)
  BY <1>3 DEF Numbered
<1>5. ASSUME NEW k \in 1..n
      PROVE  InOrder(S)[k] = seq[k]
  <2>1. InOrder(S)[k] = CHOOSE i \in S : Cardinality(Upto(S, i)) = k
    BY <1>3 DEF InOrder, Upto
  <2>2. seq[k] \in S /\ Cardinality(Upto(S, seq[k])) = k
    BY <1>1, <1>2
  <2>3. InOrder(S)[k] \in S /\ Cardinality(Upto(S, InOrder(S)[k])) = k
    BY <2>1, <2>2
  <2> QED
    BY <1>4, <2>2, <2>3, LessIsLess
<1>9. DOMAIN InOrder(S) = 1..n /\ InOrder(S) \in [1..n -> S]
  BY <1>3, <1>4, InOrderIs
<1> QED
  BY <1>1, <1>4, <1>5, <1>9
-----------------------------------------------------------------------------
(* The headings of a text.                                                 *)

IsText == text \in Seq(Lines) /\ MaxLevel \in Nat

Marks == {i \in 1..Len(text) : IsHeading(text[i])}

Heads == Headings(text)

Level(i) == text[i].level

LEMMA LinesHaveLevels ==
  ASSUME IsText, NEW i \in 1..Len(text)
  PROVE  /\ text[i] \in Lines
         /\ Level(i) \in Nat
         /\ IsHeading(text[i]) => text[i] # Blank
<1>1. text[i] \in Lines
  BY DEF IsText
<1>2. text[i].level \in 0..MaxLevel
  BY <1>1 DEF Lines, Blank, IsText
<1>3. IsHeading(text[i]) => text[i] # Blank
  BY DEF IsHeading, Blank
<1> QED
  BY <1>1, <1>2, <1>3 DEF IsText, Level

LEMMA LinesAreFew ==
  ASSUME IsText, NEW S, S \subseteq 1..Len(text)
  PROVE  Numbered(S)
<1>1. Len(text) \in Nat
  BY DEF IsText
<1>2. IsFiniteSet(1..Len(text))
  <2>1. \A m \in Nat : IsFiniteSet(1..m)
    BY FS_Interval
  <2> QED
    BY <1>1, <2>1
<1>3. IsFiniteSet(S)
  BY <1>2, FS_Subset
<1>4. S \subseteq Nat
  BY <1>1
<1> QED
  BY <1>3, <1>4 DEF Numbered

LEMMA HeadsList ==
  ASSUME IsText
  PROVE  /\ Lists(Heads, Marks)
         /\ Len(Heads) \in Nat
         /\ \A k \in 1..Len(Heads) : Heads[k] \in Marks
<1>1. Numbered(Marks)
  BY LinesAreFew DEF Marks
<1>2. Heads = InOrder(Marks)
  BY DEF Heads, Headings, Marks
<1>3. Lists(Heads, Marks)
  BY <1>1, <1>2, InOrderLists
<1> QED
  BY <1>3 DEF Lists

\* A marked line is, or stands before, the k-th heading iff it is one of the
\* first k.
LEMMA HeadsBefore ==
  ASSUME IsText, NEW k \in 1..Len(Heads), NEW i \in Marks, i <= Heads[k]
  PROVE  i = Heads[k] \/ (k # 1 /\ i <= Heads[k - 1] /\ Heads[k - 1] < Heads[k])
<1>1. PICK m \in 1..Len(Heads) : Heads[m] = i
  BY HeadsList DEF Lists
<1>2. \A a \in 1..Len(Heads) : Heads[a] \in Nat
  BY HeadsList DEF Marks
<1>3. \A a, b \in 1..Len(Heads) : a < b => Heads[a] < Heads[b]
  BY HeadsList DEF Lists
<1>4. ~ (k < m)
  <2> SUFFICES ASSUME k < m PROVE FALSE
    OBVIOUS
  <2>1. Heads[k] < Heads[m]
    BY <1>3
  <2> QED
    BY <1>1, <1>2, <2>1
<1>5. Len(Heads) \in Nat
  BY HeadsList
<1>6. m = k \/ (k # 1 /\ k - 1 \in 1..Len(Heads) /\ (m = k - 1 \/ m < k - 1))
  BY <1>4, <1>5
<1>7. CASE m = k
  BY <1>1, <1>7
<1>8. CASE k # 1 /\ k - 1 \in 1..Len(Heads) /\ (m = k - 1 \/ m < k - 1)
  <2>1. Heads[m] = Heads[k - 1] \/ Heads[m] < Heads[k - 1]
    BY <1>3, <1>8
  <2>2. Heads[k - 1] < Heads[k]
    BY <1>3, <1>5, <1>8
  <2> QED
    BY <1>1, <1>2, <1>8, <2>1, <2>2
<1> QED
  BY <1>6, <1>7, <1>8

-----------------------------------------------------------------------------
(* The headings that enclose a line.                                       *)

Enclosing(i) == {j \in 1..Len(text) : Encloses(j, i)}

\* What encloses the k-th heading and stands before it.
Outer(k) == IF k = 0 THEN {} ELSE Enclosing(Heads[k])

\* Of two headings that enclose a line the later is the deeper.
LEMMA EnclosingDeepens ==
  ASSUME IsText, NEW i \in 1..Len(text),
         NEW a \in Enclosing(i), NEW b \in Enclosing(i), a < b
  PROVE  Level(a) < Level(b)
<1>1. b <= i /\ IsHeading(text[b])
  BY DEF Enclosing, Encloses
<1>2. \A m \in (a + 1)..i : IsHeading(text[m]) => text[m].level > text[a].level
  BY DEF Enclosing, Encloses
<1>4. a \in 1..Len(text) /\ b \in 1..Len(text)
  BY DEF Enclosing
<1>5. b \in (a + 1)..i
  BY <1>1, <1>4
<1>3. Level(a) \in Nat /\ Level(b) \in Nat
  BY LinesHaveLevels DEF Enclosing
<1> QED
  BY <1>1, <1>2, <1>3, <1>5 DEF Level

\* With a heading in, without what it closes.
Entered(E, h) == {h} \cup {j \in E : Level(j) < Level(h)}

\* What encloses a heading is what enclosed the one before and is not closed,
\* and the heading.
LEMMA NextEncloses ==
  ASSUME IsText, NEW k \in 1..Len(Heads)
  PROVE  /\ Outer(k) = Entered(Outer(k - 1), Heads[k])
         /\ \A j \in Outer(k - 1) : j < Heads[k] /\ j \in 1..Len(text)
<1> DEFINE h == Heads[k]
<1>1. /\ h \in 1..Len(text) /\ IsHeading(text[h]) /\ h \in Nat
      /\ Len(text) \in Nat /\ k \in Nat /\ k # 0
  BY HeadsList DEF Marks, IsText
<1>2. k # 1 => /\ k - 1 # 0 /\ k - 1 \in 1..Len(Heads) /\ Heads[k - 1] \in Marks
               /\ Heads[k - 1] < h /\ Heads[k - 1] \in 1..Len(text)
  <2> SUFFICES ASSUME k # 1
               PROVE  /\ k - 1 # 0 /\ k - 1 \in 1..Len(Heads)
                      /\ Heads[k - 1] \in Marks /\ Heads[k - 1] < h
                      /\ Heads[k - 1] \in 1..Len(text)
    OBVIOUS
  <2>1. k - 1 # 0 /\ k - 1 \in 1..Len(Heads) /\ k - 1 < k
    BY HeadsList
  <2> QED
    BY <2>1, HeadsList DEF Lists, Marks
<1>3. \A i \in Marks : i <= h => i = h \/ (k # 1 /\ i <= Heads[k - 1])
  BY HeadsBefore
<1>4. Outer(k) = Enclosing(h)
  BY <1>1 DEF Outer
<1>5. Outer(k - 1) = IF k = 1 THEN {} ELSE Enclosing(Heads[k - 1])
  BY <1>1 DEF Outer
<1> HIDE DEF h
<1>6. \A j \in Outer(k - 1) : j < h /\ j \in 1..Len(text)
  <2> TAKE j \in Outer(k - 1)
  <2>1. k # 1 /\ j \in 1..Len(text) /\ j <= Heads[k - 1]
    BY <1>5 DEF Enclosing, Encloses
  <2> QED
    BY <1>1, <1>2, <2>1
<1>7. h \in Enclosing(h)
  <2>1. (h + 1)..h = {} /\ h <= h
    BY <1>1
  <2> QED
    BY <1>1, <2>1 DEF Enclosing, Encloses
<1>8. ASSUME NEW j \in Enclosing(h), j # h
      PROVE  j \in Outer(k - 1) /\ Level(j) < Level(h)
  <2>1. /\ j \in 1..Len(text) /\ j <= h /\ IsHeading(text[j])
        /\ \A m \in (j + 1)..h : IsHeading(text[m]) => text[m].level > text[j].level
    BY DEF Enclosing, Encloses
  <2>2. j \in Marks /\ h \in (j + 1)..h
    BY <1>1, <1>8, <2>1 DEF Marks
  <2>3. k # 1 /\ j <= Heads[k - 1]
    BY <1>3, <1>8, <2>1, <2>2
  <2>4. (j + 1)..Heads[k - 1] \subseteq (j + 1)..h
    BY <1>1, <1>2, <2>1, <2>3
  <2>5. j \in Enclosing(Heads[k - 1])
    BY <2>1, <2>3, <2>4 DEF Enclosing, Encloses
  <2>6. Level(j) < Level(h)
    <3>1. text[h].level > text[j].level
      BY <1>1, <2>1, <2>2
    <3>2. Level(j) \in Nat /\ Level(h) \in Nat
      BY <1>1, <2>1, LinesHaveLevels
    <3> QED
      BY <3>1, <3>2 DEF Level
  <2> QED
    BY <1>5, <2>3, <2>5, <2>6
<1>9. ASSUME NEW j \in Outer(k - 1), Level(j) < Level(h)
      PROVE  j \in Enclosing(h)
  <2>1. /\ k # 1 /\ j \in 1..Len(text) /\ j <= Heads[k - 1] /\ IsHeading(text[j])
        /\ \A m \in (j + 1)..Heads[k - 1] :
             IsHeading(text[m]) => text[m].level > text[j].level
    BY <1>5 DEF Enclosing, Encloses
  <2>2. ASSUME NEW m \in (j + 1)..h, IsHeading(text[m])
        PROVE  text[m].level > text[j].level
    <3>1. m \in Marks /\ m <= h /\ m \in Nat
      BY <1>1, <2>1, <2>2 DEF Marks
    <3>2. CASE m = h
      <4>1. Level(j) \in Nat /\ Level(h) \in Nat
        BY <1>1, <2>1, LinesHaveLevels
      <4> QED
        BY <1>9, <3>2, <4>1 DEF Level
    <3>3. CASE m <= Heads[k - 1]
      <4>1. m \in (j + 1)..Heads[k - 1]
        BY <1>2, <2>1, <3>3
      <4> QED
        BY <2>1, <2>2, <4>1
    <3> QED
      BY <1>3, <3>1, <3>2, <3>3
  <2>3. j <= h
    BY <1>1, <1>2, <2>1
  <2> QED
    BY <2>1, <2>2, <2>3 DEF Enclosing, Encloses
<1>10. Enclosing(h) = {h} \cup {j \in Outer(k - 1) : Level(j) < Level(h)}
  BY <1>7, <1>8, <1>9
<1> QED
  BY <1>4, <1>6, <1>10 DEF h, Entered
-----------------------------------------------------------------------------
(* The stack of headings.                                                  *)

\* A heading path shows these lines, in their order.
Shows(path, S) ==
  \E r : Lists(r, S) /\ path = [m \in 1..Len(r) |-> text[r[m]]]

\* Of a stack that deepens, the next heading leaves the part above it.
LEMMA UnwindKeeps ==
  ASSUME IsText, NEW r, r \in Seq(1..Len(text)), NEW level \in Nat,
         \A a, b \in 1..Len(r) : a < b => Level(r[a]) < Level(r[b])
  PROVE  LET stack == [m \in 1..Len(r) |-> text[r[m]]] IN
         \E p \in 0..Len(r) :
           /\ Unwind(stack, level) = [m \in 1..p |-> stack[m]]
           /\ \A j \in 1..Len(r) : j <= p <=> Level(r[j]) < level
<1> DEFINE n == Len(r)
           stack == [m \in 1..n |-> text[r[m]]]
           keep == {k \in 0..n : \A j \in (k + 1)..n : Level(r[j]) >= level}
<1>1. n \in Nat /\ \A j \in 1..n : r[j] \in 1..Len(text)
  OBVIOUS
<1>2. \A j \in 1..n : Level(r[j]) \in Nat
  BY <1>1, LinesHaveLevels
<1>3. stack \in Seq(Lines) /\ Len(stack) = n
  BY <1>1, LinesHaveLevels
<1>d. \A a, b \in 1..n : a < b => Level(r[a]) < Level(r[b])
  OBVIOUS
<1> HIDE DEF n
<1>4. keep = {k \in 0..Len(stack) : \A j \in (k + 1)..Len(stack) :
                                      stack[j].level >= level}
  <2>1. \A k \in 0..n : \A j \in (k + 1)..n : stack[j].level = Level(r[j])
    BY <1>1 DEF Level
  <2> HIDE DEF stack
  <2> QED
    BY <1>3, <2>1
<1>5. Unwind(stack, level) = SubSeq(stack, 1, Min(keep))
  BY <1>4 DEF Unwind
<1>6. n \in keep /\ keep \subseteq Nat
  BY <1>1
<1>7. PICK q \in keep : \A m \in keep : q <= m
  BY <1>6, LeastNumber
<1> DEFINE p == Min(keep)
<1>8. p \in keep /\ \A m \in keep : p <= m
  BY <1>7 DEF Min
<1> HIDE DEF p
<1>9. p \in 0..n /\ \A j \in (p + 1)..n : Level(r[j]) >= level
  BY <1>8
<1>10. ASSUME NEW j \in 1..n, j <= p
       PROVE  Level(r[j]) < level
  <2> SUFFICES ASSUME Level(r[j]) >= level
               PROVE  FALSE
    BY <1>2
  <2>1. ASSUME NEW a \in j..n
        PROVE  Level(r[a]) >= level
    <3>1. a = j \/ Level(r[j]) < Level(r[a])
      BY <1>1, <1>d
    <3>2. a \in 1..n
      BY <1>1
    <3> QED
      BY <1>2, <3>1, <3>2
  <2>2. j - 1 \in 0..n /\ (j - 1) + 1 = j
    BY <1>1
  <2>3. j - 1 \in keep
    BY <2>1, <2>2
  <2>4. p <= j - 1
    BY <1>8, <2>3
  <2> QED
    BY <1>1, <1>9, <1>10, <2>4
<1>11. \A j \in 1..n : j <= p <=> Level(r[j]) < level
  <2> TAKE j \in 1..n
  <2>1. CASE j <= p
    BY <1>10, <2>1
  <2>2. CASE ~ (j <= p)
    <3>1. j \in (p + 1)..n
      BY <1>1, <1>9, <2>2
    <3>2. Level(r[j]) >= level
      BY <1>9, <3>1
    <3> QED
      BY <1>2, <2>2, <3>2
  <2> QED
    BY <2>1, <2>2
<1> HIDE DEF stack, keep
<1>12. SubSeq(stack, 1, p) = [m \in 1..p |-> stack[m]]
  BY <1>1, <1>3, <1>9
<1>13. Unwind(stack, level) = [m \in 1..p |-> stack[m]]
  BY <1>5, <1>12 DEF p
<1> QED
  BY <1>9, <1>11, <1>13 DEF n, stack

\* One turn of the loop: what encloses a heading, from what encloses the one
\* before.
LEMMA StackStep ==
  ASSUME IsText, NEW E, E \subseteq 1..Len(text),
         \A a, b \in E : a < b => Level(a) < Level(b),
         NEW path, Shows(path, E),
         NEW h \in 1..Len(text), \A j \in E : j < h
  PROVE  Shows(Append(Unwind(path, Level(h)), text[h]), Entered(E, h))
<1>p. PICK r : Lists(r, E) /\ path = [m \in 1..Len(r) |-> text[r[m]]]
  BY DEF Shows
<1> DEFINE n == Len(r)
           stack == [m \in 1..n |-> text[r[m]]]
           F == {h} \cup {j \in E : Level(j) < Level(h)}
<1>1. /\ n \in Nat /\ r \in Seq(E) /\ Level(h) \in Nat
      /\ \A a \in 1..n : r[a] \in E /\ r[a] \in 1..Len(text) /\ r[a] \in Nat
      /\ r \in Seq(1..Len(text))
  <2>1. r \in Seq(E) /\ n \in Nat
    BY <1>p DEF Lists
  <2>2. r \in [1..n -> E] /\ \A a \in 1..n : r[a] \in E
    BY <2>1
  <2>6. \A i \in E : i \in 1..Len(text) /\ i \in Nat
    OBVIOUS
  <2>3. \A a \in 1..n : r[a] \in 1..Len(text) /\ r[a] \in Nat
    BY <2>2, <2>6
  <2>4. r \in Seq(1..Len(text))
    <3>1. r \in [1..n -> 1..Len(text)]
      BY <2>2, <2>3
    <3> HIDE DEF n
    <3> QED
      BY <2>1, <3>1
  <2>5. Level(h) \in Nat
    BY LinesHaveLevels
  <2> QED
    BY <2>1, <2>2, <2>3, <2>4, <2>5
<1>2. \A a, b \in 1..n : a < b => r[a] < r[b]
  BY <1>p DEF Lists
<1>3. \A i \in E : \E a \in 1..n : r[a] = i
  BY <1>p DEF Lists
<1>4. \A a, b \in 1..n : a < b => Level(r[a]) < Level(r[b])
  BY <1>1, <1>2
<1>5. PICK p \in 0..n : /\ Unwind(stack, Level(h)) = [m \in 1..p |-> stack[m]]
                        /\ \A j \in 1..n : j <= p <=> Level(r[j]) < Level(h)
  BY <1>1, <1>4, UnwindKeeps
<1> DEFINE s == [m \in 1..(p + 1) |-> IF m = p + 1 THEN h ELSE r[m]]
<1> HIDE DEF n
<1>6. p \in Nat /\ p + 1 \in Nat /\ p <= n
  BY <1>1
<1>7. \A m \in 1..p : m \in 1..n /\ m # p + 1 /\ r[m] \in F /\ r[m] \in E
  BY <1>1, <1>5, <1>6
<1>8. s \in Seq(F) /\ Len(s) = p + 1
  <2>1. \A m \in 1..(p + 1) : m = p + 1 \/ m \in 1..p
    BY <1>6
  <2>2. s \in [1..(p + 1) -> F]
    BY <1>7, <2>1
  <2> HIDE DEF s
  <2> QED
    BY <1>6, <2>2
<1>9. ASSUME NEW a \in 1..(p + 1), NEW b \in 1..(p + 1), a < b
      PROVE  s[a] < s[b]
  <2>1. a \in 1..p /\ a \in 1..n /\ s[a] = r[a] /\ r[a] \in E
    BY <1>6, <1>7, <1>9
  <2>2. CASE b = p + 1
    BY <2>1, <2>2
  <2>3. CASE b # p + 1
    <3>1. b \in 1..p /\ b \in 1..n /\ s[b] = r[b]
      BY <1>6, <1>7, <2>3
    <3> QED
      BY <1>2, <1>9, <2>1, <3>1
  <2> QED
    BY <2>2, <2>3
<1>10. ASSUME NEW i \in F
       PROVE  \E a \in 1..(p + 1) : s[a] = i
  <2>1. CASE i = h
    <3>1. p + 1 \in 1..(p + 1)
      BY <1>6
    <3> QED
      BY <2>1, <3>1
  <2>2. CASE i \in E /\ Level(i) < Level(h)
    <3>1. PICK a \in 1..n : r[a] = i
      BY <1>3, <2>2
    <3>2. a <= p
      BY <1>5, <2>2, <3>1
    <3>3. a \in 1..(p + 1) /\ a # p + 1
      BY <1>6, <3>2
    <3> QED
      BY <3>1, <3>3
  <2> QED
    BY <2>1, <2>2
<1>11. Lists(s, F)
  <2> HIDE DEF s, F
  <2> QED
    BY <1>8, <1>9, <1>10 DEF Lists
<1>12. Append(Unwind(stack, Level(h)), text[h]) = [m \in 1..Len(s) |-> text[s[m]]]
  <2> DEFINE u == [m \in 1..p |-> text[r[m]]]
  <2>1. Unwind(stack, Level(h)) = u
    BY <1>5, <1>7
  <2>2. u \in Seq(Lines) /\ Len(u) = p
    BY <1>1, <1>6, <1>7, LinesHaveLevels
  <2>3. \A m \in 1..(p + 1) : m = p + 1 \/ (m \in 1..p /\ m # p + 1)
    BY <1>6
  <2>4. \A m \in 1..p : u[m] = text[s[m]]
    BY <1>6, <1>7
  <2>5. text[s[p + 1]] = text[h] /\ text[h] \in Lines
    BY <1>6, LinesHaveLevels
  <2> HIDE DEF u, s, stack
  <2>6. Append(u, text[h]) = [m \in 1..(p + 1) |-> IF m = p + 1 THEN text[h] ELSE u[m]]
    BY <1>6, <2>2, <2>5
  <2>7. \A m \in 1..(p + 1) : (IF m = p + 1 THEN text[h] ELSE u[m]) = text[s[m]]
    BY <2>3, <2>4, <2>5
  <2> QED
    BY <1>8, <2>1, <2>6, <2>7
<1> HIDE DEF s, F
<1>13. Shows(Append(Unwind(stack, Level(h)), text[h]), F)
  BY <1>11, <1>12 DEF Shows
<1>14. path = stack
  BY <1>p DEF n
<1> QED
  BY <1>13, <1>14 DEF F, Entered

\* HeadingStack is computed as it says.
LEMMA StackIs ==
  ASSUME IsText
  PROVE  LET all == HeadingStack(text, Heads) IN
         /\ all[0] = <<>>
         /\ \A k \in 1..Len(Heads) :
              all[k] = Append(Unwind(all[k - 1], Level(Heads[k])), text[Heads[k]])
<1> DEFINE last == Len(Heads)
           Turn(stack, k) == Append(Unwind(stack, Level(Heads[k])), text[Heads[k]])
           Is(rows, n) == rows = [k \in 0..n |-> IF k = 0 THEN <<>>
                                                 ELSE Turn(rows[k - 1], k)]
           all == CHOOSE rows : Is(rows, last)
<1>1. last \in Nat
  BY HeadsList
<1>2. HeadingStack(text, Heads) = all
  BY DEF HeadingStack, Level
<1> HIDE DEF last, Turn
<1>3. \A n \in Nat : \E rows : Is(rows, n)
  <2> DEFINE Bad == {n \in Nat : ~ \E rows : Is(rows, n)}
  <2> SUFFICES ASSUME Bad # {}
               PROVE  FALSE
    OBVIOUS
  <2>1. PICK n \in Bad : \A m \in Bad : n <= m
    BY LeastNumber
  <2>2. CASE n = 0
    <3>1. Is([k \in 0..0 |-> <<>>], 0)
      OBVIOUS
    <3> QED
      BY <2>2, <3>1
  <2>3. CASE n # 0
    <3>1. n \in Nat /\ n - 1 \in Nat /\ n - 1 \notin Bad
      <4> HIDE DEF Is
      <4>1. n \in Nat /\ n - 1 \in Nat
        BY <2>3
      <4>2. ~ (n <= n - 1)
        BY <4>1
      <4> QED
        BY <2>1, <4>1, <4>2
    <3>2. PICK rows : Is(rows, n - 1)
      <4> HIDE DEF Is
      <4> QED
        BY <3>1
    <3> DEFINE more == [k \in 0..n |-> IF k = n THEN Turn(rows[n - 1], n)
                                       ELSE rows[k]]
    <3>3. \A k \in 0..n : more[k] = IF k = 0 THEN <<>> ELSE Turn(more[k - 1], k)
      <4> TAKE k \in 0..n
      <4>1. CASE k = 0
        BY <2>3, <3>1, <3>2, <4>1
      <4>2. CASE k # 0 /\ k # n
        <5>1. k \in 0..(n - 1) /\ k - 1 \in 0..(n - 1) /\ k - 1 # n
          BY <4>2, <2>1
        <5>2. more[k] = rows[k] /\ more[k - 1] = rows[k - 1]
          BY <4>2, <5>1
        <5>3. rows[k] = Turn(rows[k - 1], k)
          BY <3>2, <4>2, <5>1
        <5> QED
          BY <4>2, <5>2, <5>3
      <4>3. CASE k = n
        <5>1. n - 1 \in 0..n /\ n - 1 # n
          BY <2>3, <3>1
        <5>2. more[n - 1] = rows[n - 1] /\ more[n] = Turn(rows[n - 1], n)
          BY <2>1, <5>1
        <5> QED
          BY <2>3, <4>3, <5>2
      <4> QED
        BY <4>1, <4>2, <4>3
    <3>4. more = [k \in 0..n |-> more[k]]
      OBVIOUS
    <3> HIDE DEF more
    <3>5. Is(more, n)
      BY <3>3, <3>4
    <3> QED
      BY <3>5
  <2> QED
    BY <2>2, <2>3
<1>4. Is(all, last)
  BY <1>1, <1>3
<1> HIDE DEF all
<1>5. all[0] = <<>> /\ \A k \in 1..last : all[k] = Turn(all[k - 1], k)
  BY <1>1, <1>4
<1> QED
  BY <1>2, <1>5 DEF last, Turn

\* What stands before the k-th heading deepens, and belongs to the text.
LEMMA OuterDeepens ==
  ASSUME IsText, NEW k \in 0..Len(Heads)
  PROVE  /\ Outer(k) \subseteq 1..Len(text)
         /\ \A a, b \in Outer(k) : a < b => Level(a) < Level(b)
<1>1. CASE k = 0
  BY <1>1 DEF Outer
<1>2. CASE k # 0
  <2>1. Outer(k) = Enclosing(Heads[k]) /\ Heads[k] \in 1..Len(text)
    BY <1>2, HeadsList DEF Outer, Marks
  <2>2. Outer(k) \subseteq 1..Len(text)
    BY <2>1 DEF Enclosing
  <2> QED
    BY <2>1, <2>2, EnclosingDeepens
<1> QED
  BY <1>1, <1>2

\* The stack after a heading shows the headings that enclose it.
LEMMA StackShowsEnclosing ==
  ASSUME IsText, NEW k \in 0..Len(Heads)
  PROVE  Shows(HeadingStack(text, Heads)[k], Outer(k))
<1> DEFINE all == HeadingStack(text, Heads)
           Bad == {m \in 0..Len(Heads) : ~ Shows(all[m], Outer(m))}
<1> SUFFICES ASSUME Bad # {}
             PROVE  FALSE
  OBVIOUS
<1>1. Len(Heads) \in Nat
  BY HeadsList
<1>2. /\ all[0] = <<>>
      /\ \A m \in 1..Len(Heads) :
           all[m] = Append(Unwind(all[m - 1], Level(Heads[m])), text[Heads[m]])
  BY StackIs
<1> HIDE DEF all
<1>3. PICK n \in Bad : \A m \in Bad : n <= m
  <2>1. Bad \subseteq Nat
    BY <1>1
  <2> QED
    BY <2>1, LeastNumber
<1>4. CASE n = 0
  <2>1. Lists(<<>>, {})
    BY DEF Lists
  <2>2. all[0] = [m \in 1..Len(<<>>) |-> text[<<>>[m]]]
    BY <1>2
  <2>3. Shows(all[0], Outer(0))
    BY <2>1, <2>2 DEF Shows, Outer
  <2> QED
    BY <1>3, <1>4, <2>3
<1>5. CASE n # 0
  <2>1. n \in 1..Len(Heads) /\ n - 1 \in 0..Len(Heads) /\ n - 1 \notin Bad
    <3>1. n \in 1..Len(Heads) /\ n - 1 \in 0..Len(Heads)
      BY <1>1, <1>5
    <3>2. ~ (n <= n - 1)
      BY <3>1
    <3> QED
      BY <1>3, <3>1, <3>2
  <2>2. Shows(all[n - 1], Outer(n - 1))
    BY <2>1
  <2> DEFINE h == Heads[n]
             E == Outer(n - 1)
  <2>3. h \in 1..Len(text) /\ (\A j \in E : j < h)
        /\ Outer(n) = Entered(E, h)
    <3>1. h \in 1..Len(text)
      BY <2>1, HeadsList DEF Marks
    <3> QED
      BY <2>1, <3>1, NextEncloses
  <2>4. E \subseteq 1..Len(text) /\ \A a, b \in E : a < b => Level(a) < Level(b)
    BY <2>1, OuterDeepens
  <2>5. all[n] = Append(Unwind(all[n - 1], Level(h)), text[h])
    BY <1>2, <2>1
  <2> HIDE DEF h, E
  <2>6. Shows(all[n - 1], E)
    BY <2>2 DEF E
  <2>7. Shows(all[n], Outer(n))
    BY <2>3, <2>4, <2>5, <2>6, StackStep
  <2> QED
    BY <1>3, <2>7
<1> QED
  BY <1>4, <1>5
-----------------------------------------------------------------------------
(* The sections.                                                           *)

Sections == SplitSections(text)

Stop(k) == SectionEnd(text, Heads, k)

LEMMA SplitIs ==
  /\ Heads # <<>> =>
       Sections = [ k \in 1..Len(Heads) |->
                      [ path  |-> HeadingStack(text, Heads)[k],
                        start |-> Heads[k] - 1,
                        stop  |-> Stop(k),
                        body  |-> Strip(SubSeq(text, Heads[k], Stop(k))) ] ]
  /\ Heads = <<>> =>
       Sections = IF Strip(text) = <<>> THEN <<>>
                  ELSE << [ path |-> <<>>, start |-> 0, stop |-> Len(text),
                            body |-> Strip(text) ] >>
BY DEF Sections, SplitSections, Heads, Stop

LEMMA NoHeads ==
  ASSUME IsText
  PROVE  Heads = <<>> <=> Marks = {}
<1>1. Heads = <<>> <=> Len(Heads) = 0
  BY HeadsList DEF Lists
<1>2. Len(Heads) = 0 => Marks = {}
  <2> SUFFICES ASSUME Len(Heads) = 0, Marks # {} PROVE FALSE
    OBVIOUS
  <2>1. \A i \in Marks : \E k \in 1..Len(Heads) : Heads[k] = i
    BY HeadsList DEF Lists
  <2> QED
    BY <2>1
<1>3. Marks = {} => Len(Heads) = 0
  <2> SUFFICES ASSUME Marks = {}, Len(Heads) # 0 PROVE FALSE
    OBVIOUS
  <2>1. 1 \in 1..Len(Heads)
    BY HeadsList
  <2> QED
    BY <2>1, HeadsList
<1> QED
  BY <1>1, <1>2, <1>3

LEMMA PathsAreEnclosing ==
  ASSUME IsText
  PROVE  PathIsEnclosing
<1> SUFFICES ASSUME NEW k \in DOMAIN Sections
             PROVE  LET section == Sections[k]
                        rows == InOrder({j \in 1..Len(text) :
                                           Encloses(j, section.start + 1)})
                    IN section.path = [n \in DOMAIN rows |-> text[rows[n]]]
  BY DEF PathIsEnclosing, Sections
<1>1. ASSUME NEW r, NEW S, S \subseteq 1..Len(text), Lists(r, S)
      PROVE  InOrder(S) = r /\ DOMAIN r = 1..Len(r)
  <2>1. S \subseteq Nat
    BY <1>1, LinesAreFew DEF Numbered
  <2>2. InOrder(S) = r
    BY <1>1, <2>1, ListIsInOrder
  <2>3. r \in Seq(S)
    BY <1>1 DEF Lists
  <2> QED
    BY <2>2, <2>3
<1>2. CASE Heads # <<>>
  <2>1. /\ k \in 1..Len(Heads)
        /\ Sections[k].path = HeadingStack(text, Heads)[k]
        /\ Sections[k].start = Heads[k] - 1
    BY <1>2, SplitIs
  <2>2. k \in 0..Len(Heads) /\ k # 0 /\ Heads[k] \in Nat
    BY <2>1, HeadsList DEF Marks
  <2>3. Sections[k].start + 1 = Heads[k]
    BY <2>1, <2>2
  <2>4. {j \in 1..Len(text) : Encloses(j, Sections[k].start + 1)} = Outer(k)
    BY <2>2, <2>3 DEF Outer, Enclosing
  <2>5. Shows(Sections[k].path, Outer(k))
    BY <2>1, <2>2, StackShowsEnclosing
  <2>6. PICK r : /\ Lists(r, Outer(k))
                 /\ Sections[k].path = [m \in 1..Len(r) |-> text[r[m]]]
    BY <2>5 DEF Shows
  <2>7. InOrder(Outer(k)) = r /\ DOMAIN r = 1..Len(r)
    BY <1>1, <2>2, <2>6, OuterDeepens
  <2> QED
    BY <2>4, <2>6, <2>7
<1>3. CASE Heads = <<>>
  <2>1. Sections[k].path = <<>>
    BY <1>3, SplitIs
  <2>2. Marks = {}
    BY <1>3, NoHeads
  <2>3. {j \in 1..Len(text) : Encloses(j, Sections[k].start + 1)} = {}
    BY <2>2 DEF Encloses, Marks
  <2>4. Lists(<<>>, {})
    BY DEF Lists
  <2>5. InOrder({}) = <<>>
    BY <1>1, <2>4
  <2>6. <<>> = [n \in DOMAIN <<>> |-> text[<<>>[n]]]
    OBVIOUS
  <2> QED
    BY <2>1, <2>3, <2>5, <2>6
<1> QED
  BY <1>2, <1>3

-----------------------------------------------------------------------------
(* What the sections quote.                                                *)

Inked(lines) == {i \in DOMAIN lines : lines[i] # Blank}

\* Stripping takes no inked line.
LEMMA StripKeepsInk ==
  ASSUME NEW S, NEW lines \in Seq(S)
  PROVE  /\ Strip(lines) = <<>> <=> Inked(lines) = {}
         /\ ToSet(Strip(lines)) \ {Blank} = {lines[i] : i \in Inked(lines)}
<1> DEFINE inked == Inked(lines)
           last == Len(lines)
<1>1. last \in Nat /\ DOMAIN lines = 1..last /\ inked \subseteq 1..last
  BY DEF Inked
<1>2. Strip(lines) = IF inked = {} THEN <<>> ELSE SubSeq(lines, Min(inked), Max(inked))
  BY DEF Strip, Inked
<1>3. CASE inked = {}
  BY <1>2, <1>3 DEF ToSet
<1>4. CASE inked # {}
  <2> DEFINE lo == Min(inked)
             hi == Max(inked)
             body == SubSeq(lines, lo, hi)
  <2>b. body = Strip(lines)
    BY <1>2, <1>4
  <2>1. lo \in inked /\ \A i \in inked : lo <= i
    <3>1. inked \subseteq Nat
      BY <1>1
    <3>2. \E n \in inked : \A m \in inked : n <= m
      BY <1>4, <3>1, LeastNumber
    <3> HIDE DEF inked
    <3> QED
      BY <3>2 DEF Min
  <2>2. hi \in inked /\ \A i \in inked : i <= hi
    <3> DEFINE after == {last - i : i \in inked}
    <3>1. after \subseteq Nat /\ after # {}
      BY <1>1, <1>4
    <3>2. PICK n \in after : \A m \in after : n <= m
      BY <3>1, LeastNumber
    <3>3. PICK i \in inked : n = last - i
      BY <3>2
    <3>4. ASSUME NEW j \in inked
          PROVE  i >= j
      <4>1. last - j \in after
        OBVIOUS
      <4>2. last - i <= last - j
        BY <3>2, <3>3, <4>1
      <4>3. i \in 1..last /\ j \in 1..last
        BY <1>1
      <4> HIDE DEF last
      <4> QED
        BY <1>1, <4>2, <4>3
    <3> HIDE DEF inked
    <3>5. hi \in inked /\ \A j \in inked : hi >= j
      BY <3>4 DEF Max
    <3> QED
      BY <1>1, <3>5
  <2> HIDE DEF lo, hi
  <2>3. lo \in 1..last /\ hi \in 1..last /\ lo <= hi
    BY <1>1, <2>1, <2>2
  <2> HIDE DEF last
  <2>4. body = [m \in 1..(hi - lo + 1) |-> lines[lo + m - 1]]
    BY <1>1, <2>3 DEF last
  <2>5. DOMAIN body = 1..(hi - lo + 1) /\ 1 \in DOMAIN body
    BY <1>1, <2>3, <2>4
  <2>6. body # <<>>
    <3>1. DOMAIN <<>> = {}
      OBVIOUS
    <3>2. DOMAIN body # {}
      BY <2>5
    <3> HIDE DEF body
    <3> QED
      BY <3>1, <3>2
  <2>7. ASSUME NEW i \in inked
        PROVE  lines[i] \in ToSet(body) \ {Blank}
    <3>1. i - lo + 1 \in 1..(hi - lo + 1) /\ lo + (i - lo + 1) - 1 = i
      BY <1>1, <2>1, <2>2, <2>3
    <3>2. body[i - lo + 1] = lines[i]
      BY <2>4, <3>1
    <3>3. lines[i] # Blank
      BY DEF Inked
    <3> QED
      BY <2>5, <3>1, <3>2, <3>3 DEF ToSet
  <2>8. ASSUME NEW line \in ToSet(body) \ {Blank}
        PROVE  line \in {lines[i] : i \in inked}
    <3>1. PICK m \in 1..(hi - lo + 1) : body[m] = line
      BY <2>5 DEF ToSet
    <3>2. lo + m - 1 \in 1..last /\ lines[lo + m - 1] = line
      BY <1>1, <2>3, <2>4, <3>1
    <3>3. lo + m - 1 \in inked
      BY <1>1, <3>2 DEF Inked
    <3> QED
      BY <3>2, <3>3
  <2> HIDE DEF body, inked
  <2>9. ToSet(body) \ {Blank} = {lines[i] : i \in inked}
    BY <2>7, <2>8
  <2> QED
    BY <1>4, <2>b, <2>6, <2>9 DEF inked
<1> QED
  BY <1>3, <1>4

\* A section runs from its heading to the line before the next.
LEMMA StopIs ==
  ASSUME IsText, NEW k \in 1..Len(Heads)
  PROVE  /\ Heads[k] \in 1..Len(text) /\ Len(text) \in Nat
         /\ Stop(k) \in Heads[k]..Len(text)
         /\ \A m \in 1..Len(Heads) : k < m => Stop(k) < Heads[m]
         /\ \A i \in 1..Len(text) :
              (k < Len(Heads) => i < Heads[k + 1]) => i <= Stop(k)
<1>1. Len(Heads) \in Nat /\ Len(text) \in Nat
  BY HeadsList DEF IsText
<1>2. \A m \in 1..Len(Heads) : Heads[m] \in 1..Len(text) /\ Heads[m] \in Nat
  BY <1>1, HeadsList DEF Marks
<1>3. \A a, b \in 1..Len(Heads) : a < b => Heads[a] < Heads[b]
  BY HeadsList DEF Lists
<1>4. CASE k < Len(Heads)
  <2>1. k + 1 \in 1..Len(Heads) /\ k < k + 1
    BY <1>1, <1>4
  <2>2. Stop(k) = Heads[k + 1] - 1
    BY <1>4 DEF Stop, SectionEnd
  <2>3. Heads[k] < Heads[k + 1]
    BY <1>3, <2>1
  <2>4. Stop(k) \in Heads[k]..Len(text)
    BY <1>1, <1>2, <2>1, <2>2, <2>3
  <2>5. ASSUME NEW m \in 1..Len(Heads), k < m
        PROVE  Stop(k) < Heads[m]
    <3>1. m = k + 1 \/ k + 1 < m
      BY <1>1, <2>5
    <3>2. m = k + 1 \/ Heads[k + 1] < Heads[m]
      BY <1>3, <2>1, <3>1
    <3> QED
      BY <1>2, <2>1, <2>2, <3>2
  <2>6. \A i \in 1..Len(text) : i < Heads[k + 1] => i <= Stop(k)
    BY <1>1, <1>2, <2>1, <2>2
  <2> QED
    BY <1>1, <1>2, <1>4, <2>4, <2>5, <2>6
<1>5. CASE ~ (k < Len(Heads))
  <2>1. Stop(k) = Len(text)
    BY <1>5 DEF Stop, SectionEnd
  <2>2. \A m \in 1..Len(Heads) : ~ (k < m)
    BY <1>1, <1>5
  <2> QED
    BY <1>1, <1>2, <1>5, <2>1, <2>2
<1> QED
  BY <1>4, <1>5

\* A line from the first heading on stands in one section.
LEMMA OneSection ==
  ASSUME IsText, NEW i \in 1..Len(text), NEW j \in Marks, j <= i
  PROVE  \E k \in 1..Len(Heads) :
           \A m \in 1..Len(Heads) :
             (Heads[m] <= i /\ i <= Stop(m)) <=> m = k
<1>1. Len(Heads) \in Nat /\ i \in Nat /\ j \in Nat
  BY HeadsList DEF Marks
<1>2. \A m \in 1..Len(Heads) : Heads[m] \in Nat /\ Stop(m) \in Nat
  BY <1>1, HeadsList, StopIs DEF Marks
<1> DEFINE Past == {m \in Nat : m > 0 /\ (m <= Len(Heads) => i < Heads[m])}
<1>3. Len(Heads) + 1 \in Past
  BY <1>1
<1>4. PICK n \in Past : \A m \in Past : n <= m
  BY <1>3, LeastNumber
<1>5. n # 1
  <2> SUFFICES ASSUME n = 1 PROVE FALSE
    OBVIOUS
  <2>1. PICK a \in 1..Len(Heads) : Heads[a] = j
    BY HeadsList DEF Lists
  <2>2. 1 \in 1..Len(Heads) /\ i < Heads[1]
    BY <1>1, <1>4, <2>1
  <2>3. a = 1 \/ Heads[1] < Heads[a]
    BY <1>1, <2>2, HeadsList DEF Lists
  <2> QED
    BY <1>1, <1>2, <2>1, <2>2, <2>3
<1> DEFINE k == n - 1
<1>6. k \in 1..Len(Heads) /\ Heads[k] <= i /\ k + 1 = n
  <2>1. k \in Nat /\ k > 0 /\ k + 1 = n /\ n <= Len(Heads) + 1
    BY <1>1, <1>3, <1>4, <1>5
  <2>2. k \notin Past
    BY <1>4, <2>1
  <2>3. k \in 1..Len(Heads)
    BY <1>1, <2>1
  <2> HIDE DEF k
  <2>4. ~ (i < Heads[k])
    BY <2>1, <2>2, <2>3
  <2> QED
    BY <1>1, <1>2, <2>1, <2>3, <2>4
<1> HIDE DEF k
<1>7. i <= Stop(k)
  <2>1. k < Len(Heads) => i < Heads[k + 1]
    BY <1>1, <1>4, <1>6
  <2> QED
    BY <1>6, <2>1, StopIs
<1>8. ASSUME NEW m \in 1..Len(Heads), Heads[m] <= i, i <= Stop(m)
      PROVE  m = k
  <2>1. ~ (m < k)
    <3> SUFFICES ASSUME m < k PROVE FALSE
      OBVIOUS
    <3>1. Stop(m) < Heads[k]
      BY <1>6, StopIs
    <3> QED
      BY <1>1, <1>2, <1>6, <1>8, <3>1
  <2>2. ~ (k < m)
    <3> SUFFICES ASSUME k < m PROVE FALSE
      OBVIOUS
    <3>1. Stop(k) < Heads[m]
      BY <1>6, StopIs
    <3> QED
      BY <1>1, <1>2, <1>6, <1>7, <1>8, <3>1
  <2> QED
    BY <1>1, <1>6, <2>1, <2>2
<1> QED
  BY <1>6, <1>7, <1>8

LEMMA LinesAreQuotedOnce ==
  ASSUME IsText
  PROVE  QuotedOnce
<1> DEFINE quotable == {i \in DOMAIN text :
                          /\ text[i] # Blank
                          /\ \/ \A j \in DOMAIN text : ~IsHeading(text[j])
                             \/ \E j \in 1..i : IsHeading(text[j])}
           At(k) == {j \in quotable : Within(j, Sections[k])}
<1> SUFFICES /\ \A i \in quotable :
                  Cardinality({k \in DOMAIN Sections : Within(i, Sections[k])}) = 1
             /\ \A k \in DOMAIN Sections :
                  /\ Sections[k].body # <<>>
                  /\ ToSet(Sections[k].body) \ {Blank} = {text[i] : i \in At(k)}
  BY DEF QuotedOnce, Sections
<1>1. /\ DOMAIN text = 1..Len(text) /\ Len(text) \in Nat /\ text \in Seq(Lines)
      /\ quotable \subseteq 1..Len(text)
  BY DEF IsText
<1>2. \A i \in 1..Len(text) : IsHeading(text[i]) <=> i \in Marks
  BY DEF Marks
<1>3. CASE Heads # <<>>
  <2>1. /\ DOMAIN Sections = 1..Len(Heads)
        /\ \A k \in 1..Len(Heads) :
             /\ Sections[k].start = Heads[k] - 1 /\ Sections[k].stop = Stop(k)
             /\ Sections[k].body = Strip(SubSeq(text, Heads[k], Stop(k)))
    BY <1>3, SplitIs
  <2>2. \A k \in 1..Len(Heads) : Heads[k] \in Marks /\ Heads[k] \in Nat
    BY HeadsList DEF Marks
  <2>3. \A i \in 1..Len(text) : \A k \in 1..Len(Heads) :
          Within(i, Sections[k]) <=> Heads[k] <= i /\ i <= Stop(k)
    BY <2>1, <2>2 DEF Within
  <2>4. \A i \in 1..Len(text) :
          i \in quotable <=> text[i] # Blank /\ \E j \in Marks : j <= i
    <3>1. Marks # {} /\ Marks \subseteq 1..Len(text)
      BY <1>3, NoHeads DEF Marks
    <3> TAKE i \in 1..Len(text)
    <3>2. ~ \A j \in DOMAIN text : ~IsHeading(text[j])
      BY <1>1, <1>2, <3>1
    <3>3. (\E j \in 1..i : IsHeading(text[j])) <=> \E j \in Marks : j <= i
      BY <1>1, <1>2, <3>1
    <3> QED
      BY <1>1, <3>2, <3>3
  <2> HIDE DEF quotable
  <2>5. ASSUME NEW i \in quotable
        PROVE  Cardinality({k \in DOMAIN Sections : Within(i, Sections[k])}) = 1
    <3>1. i \in 1..Len(text) /\ \E j \in Marks : j <= i
      BY <1>1, <2>4
    <3>2. PICK k \in 1..Len(Heads) :
            \A m \in 1..Len(Heads) : (Heads[m] <= i /\ i <= Stop(m)) <=> m = k
      BY <3>1, OneSection
    <3>3. {m \in DOMAIN Sections : Within(i, Sections[m])} = {k}
      BY <2>1, <2>3, <3>1, <3>2
    <3> QED
      BY <3>3, FS_Singleton
  <2>6. ASSUME NEW k \in DOMAIN Sections
        PROVE  /\ Sections[k].body # <<>>
               /\ ToSet(Sections[k].body) \ {Blank} = {text[i] : i \in At(k)}
    <3> DEFINE h == Heads[k]
               part == SubSeq(text, h, Stop(k))
    <3>1. /\ k \in 1..Len(Heads) /\ h \in Marks /\ h \in 1..Len(text)
          /\ Stop(k) \in h..Len(text) /\ Sections[k].body = Strip(part)
      BY <2>1, <2>2, StopIs
    <3> HIDE DEF h
    <3>2. /\ part \in Seq(Lines)
          /\ part = [m \in 1..(Stop(k) - h + 1) |-> text[h + m - 1]]
          /\ DOMAIN part = 1..(Stop(k) - h + 1)
      BY <1>1, <3>1
    <3>3. /\ Strip(part) = <<>> <=> Inked(part) = {}
          /\ ToSet(Strip(part)) \ {Blank} = {part[m] : m \in Inked(part)}
      BY <3>2, StripKeepsInk
    <3> HIDE DEF part
    <3>4. 1 \in Inked(part)
      <4>1. 1 \in DOMAIN part /\ part[1] = text[h]
        BY <1>1, <3>1, <3>2
      <4>2. text[h] # Blank
        BY <3>1, LinesHaveLevels DEF Marks
      <4> QED
        BY <4>1, <4>2 DEF Inked
    <3>5. ASSUME NEW m \in Inked(part)
          PROVE  part[m] \in {text[i] : i \in At(k)}
      <4>1. m \in 1..(Stop(k) - h + 1) /\ part[m] = text[h + m - 1] /\ part[m] # Blank
        BY <3>2 DEF Inked
      <4>2. h + m - 1 \in 1..Len(text) /\ h <= h + m - 1 /\ h + m - 1 <= Stop(k)
        BY <1>1, <3>1, <4>1
      <4>3. h + m - 1 \in quotable
        BY <2>4, <3>1, <4>1, <4>2
      <4>4. Within(h + m - 1, Sections[k])
        BY <2>3, <3>1, <4>2 DEF h
      <4> QED
        BY <4>1, <4>3, <4>4
    <3>6. ASSUME NEW i \in At(k)
          PROVE  text[i] \in {part[m] : m \in Inked(part)}
      <4>1. i \in 1..Len(text) /\ text[i] # Blank /\ h <= i /\ i <= Stop(k)
        BY <1>1, <2>3, <2>4, <3>1 DEF h
      <4>2. i - h + 1 \in 1..(Stop(k) - h + 1) /\ h + (i - h + 1) - 1 = i
        BY <1>1, <3>1, <4>1
      <4>3. part[i - h + 1] = text[i]
        BY <3>2, <4>2
      <4>4. i - h + 1 \in Inked(part)
        BY <3>2, <4>1, <4>2, <4>3 DEF Inked
      <4> QED
        BY <4>3, <4>4
    <3> HIDE DEF At
    <3>7. {part[m] : m \in Inked(part)} = {text[i] : i \in At(k)}
      BY <3>5, <3>6
    <3> QED
      BY <3>1, <3>3, <3>4, <3>7
  <2> QED
    BY <2>5, <2>6
<1>4. CASE Heads = <<>>
  <2>1. Marks = {}
    BY <1>4, NoHeads
  <2>2. quotable = Inked(text)
    BY <1>1, <1>2, <2>1 DEF Inked
  <2>3. /\ Strip(text) = <<>> <=> Inked(text) = {}
        /\ ToSet(Strip(text)) \ {Blank} = {text[i] : i \in Inked(text)}
    BY <1>1, StripKeepsInk
  <2> HIDE DEF quotable
  <2>4. CASE Strip(text) = <<>>
    <3>1. quotable = {} /\ Sections = <<>>
      BY <1>4, <2>2, <2>3, <2>4, SplitIs
    <3>2. DOMAIN Sections = {}
      BY <3>1
    <3> QED
      BY <3>1, <3>2
  <2>5. CASE Strip(text) # <<>>
    <3>1. /\ DOMAIN Sections = {1} /\ Sections[1].body = Strip(text)
          /\ Sections[1].start = 0 /\ Sections[1].stop = Len(text)
      BY <1>4, <2>5, SplitIs
    <3>2. \A i \in quotable : Within(i, Sections[1])
      BY <1>1, <3>1 DEF Within
    <3>3. ASSUME NEW i \in quotable
          PROVE  Cardinality({k \in DOMAIN Sections : Within(i, Sections[k])}) = 1
      <4>1. {k \in DOMAIN Sections : Within(i, Sections[k])} = {1}
        BY <3>1, <3>2
      <4> QED
        BY <4>1, FS_Singleton
    <3>4. At(1) = Inked(text)
      BY <2>2, <3>2
    <3>5. /\ Sections[1].body # <<>>
          /\ ToSet(Sections[1].body) \ {Blank} = {text[i] : i \in At(1)}
      BY <2>3, <2>5, <3>1, <3>4
    <3> QED
      BY <3>1, <3>3, <3>5
  <2> QED
    BY <2>4, <2>5
<1> QED
  BY <1>3, <1>4

-----------------------------------------------------------------------------
LEMMA TextStaysText == Spec => []IsText
<1>1. Init => IsText
  BY MCSectionsAssumption DEF Init, IsText
<1>2. IsText /\ [Next]_text => IsText'
  BY DEF IsText, Next, AppendLine
<1> QED
  BY <1>1, <1>2, PTL DEF Spec

\* The heading path of a section is the headings that enclose it, whatever
\* levels the text skips or returns to: _split_markdown_sections closes as many
\* headings as the next one ends, and no more.
THEOREM PathsEnclose == Spec => []PathIsEnclosing
<1>1. IsText => PathIsEnclosing
  BY PathsAreEnclosing
<1> QED
  BY <1>1, TextStaysText, PTL

\* Of the text from its first heading on, or of a text without headings, no
\* inked line is lost and none is quoted twice.
THEOREM EverythingIsQuotedOnce == Spec => []QuotedOnce
<1>1. IsText => QuotedOnce
  BY LinesAreQuotedOnce
<1> QED
  BY <1>1, TextStaysText, PTL
=============================================================================
