-------------------------- MODULE MatchPagingProofs --------------------------
(***************************************************************************)
(* For every name, catalogue and page size: what the seller sees of Torob  *)
(* are its best results, as long as the pages keep their width, and "more" *)
(* goes on until there is nothing left.                                    *)
(***************************************************************************)
EXTENDS MatchPaging, FiniteSetTheorems, TLAPS

\* What Torob gives for the name, to the largest search that is made.
All == 1 .. Min({torob, FetchMax})

\* The best so many of it.
Best(n) == {i \in All : Place(All, i) < n}

\* The later answers of Torob bring nothing better than the first.
EarlyBest == \A b \in better : b <= FetchSize(Width)

----------------------------------------------------------------------------
\* The smaller and the larger of two numbers.
LEMMA OfTwo ==
    ASSUME NEW a \in Nat, NEW b \in Nat
    PROVE  /\ Min({a, b}) = IF a <= b THEN a ELSE b
           /\ Max({a, b}) = IF a <= b THEN b ELSE a
<1>1. CASE a <= b
  BY <1>1 DEF Min, Max
<1>2. CASE ~(a <= b)
  BY <1>2 DEF Min, Max
<1> QED
  BY <1>1, <1>2

LEMMA ConstantsOK ==
    /\ Torob \in Nat /\ Basalam \in Nat /\ MaxFailures \in Nat
    /\ FetchMin \in Nat /\ FetchMax \in Nat
    /\ PerSource \in Nat /\ PerSource >= 1 /\ Enough \in Nat /\ Enough >= 1
    /\ Width \in Nat /\ Width = PerSource + PerSource
BY MatchPagingAssumption DEF Width

\* A search asks for what it needs, or for all that it may ask for.
LEMMA FetchSizes ==
    ASSUME NEW size \in Nat
    PROVE  /\ FetchSize(size) \in Nat /\ FetchSize(size) <= FetchMax
           /\ FetchSize(size) = FetchMax \/ size <= FetchSize(size)
           /\ \A less \in Nat : less <= size => FetchSize(less) <= FetchSize(size)
<1> DEFINE large(n) == IF n * 3 <= FetchMin THEN FetchMin ELSE n * 3
<1>1. ASSUME NEW n \in Nat
      PROVE  /\ large(n) \in Nat
             /\ FetchSize(n) = IF large(n) <= FetchMax THEN large(n) ELSE FetchMax
  <2>1. n * 3 \in Nat /\ FetchMin \in Nat /\ FetchMax \in Nat
    BY ConstantsOK
  <2>2. Max({n * 3, FetchMin}) = large(n)
    BY <2>1, OfTwo
  <2>3. large(n) \in Nat
    BY <2>1
  <2>4. Min({large(n), FetchMax}) = IF large(n) <= FetchMax THEN large(n) ELSE FetchMax
    <3> HIDE DEF large
    <3> QED
      BY <2>1, <2>3, OfTwo
  <2> QED
    BY <2>2, <2>3, <2>4 DEF FetchSize
<1>2. FetchMin \in Nat /\ FetchMax \in Nat
  BY ConstantsOK
<1> QED
  BY <1>1, <1>2

\* A page has room for Torob.
LEMMA PageSizes ==
    ASSUME NEW c \in Nat
    PROVE  PageSize(c) \in Nat /\ PageSize(c) >= 1 /\ PageSize(c) <= Width
<1>1. Min({c, PerSource}) = IF c <= PerSource THEN c ELSE PerSource
  BY ConstantsOK, OfTwo
<1> QED
  BY <1>1, ConstantsOK DEF PageSize

----------------------------------------------------------------------------
\* The order of the results, and their places.
LEMMA FitsOrders ==
    ASSUME NEW a \in Nat, NEW b \in Nat
    PROVE  /\ ~Fits(a, a)
           /\ a # b => Fits(a, b) \/ Fits(b, a)
           /\ \A k \in Nat : Fits(k, a) /\ Fits(a, b) => Fits(k, b)
BY DEF Fits

LEMMA PlacesOrdered ==
    ASSUME NEW found \in SUBSET Nat, IsFiniteSet(found), NEW a \in found, NEW b \in found
    PROVE  /\ Place(found, a) \in Nat /\ Place(found, a) < Cardinality(found)
           /\ Fits(b, a) => Place(found, b) < Place(found, a)
<1> DEFINE ahead(i) == {k \in found : Fits(k, i)}
<1>1. ASSUME NEW i \in found
      PROVE  /\ IsFiniteSet(ahead(i)) /\ Cardinality(ahead(i)) \in Nat
             /\ Place(found, i) = Cardinality(ahead(i))
             /\ i \notin ahead(i)
  <2>1. IsFiniteSet(ahead(i))
    BY FS_Subset
  <2>2. ~Fits(i, i)
    BY FitsOrders
  <2> QED
    BY <2>1, <2>2, FS_CardinalityType DEF Place
<1>2. ASSUME NEW i \in found, NEW larger \in SUBSET found, ahead(i) \cup {i} \in SUBSET larger
      PROVE  Cardinality(ahead(i)) < Cardinality(larger)
  <2>1. IsFiniteSet(larger) /\ Cardinality(larger) \in Nat
    BY FS_Subset, FS_CardinalityType
  <2>2. Cardinality(ahead(i) \cup {i}) <= Cardinality(larger)
    <3> HIDE DEF ahead
    <3> QED
      BY <1>2, <2>1, FS_Subset
  <2>3. Cardinality(ahead(i) \cup {i}) = Cardinality(ahead(i)) + 1
    <3> HIDE DEF ahead
    <3> QED
      BY <1>1, FS_AddElement
  <2> HIDE DEF ahead
  <2> QED
    BY <1>1, <2>1, <2>2, <2>3
<1>3. Cardinality(ahead(a)) < Cardinality(found)
  <2>1. ahead(a) \cup {a} \in SUBSET found
    OBVIOUS
  <2> HIDE DEF ahead
  <2> QED
    BY <1>2, <2>1
<1>4. Fits(b, a) => Cardinality(ahead(b)) < Cardinality(ahead(a))
  <2> SUFFICES ASSUME Fits(b, a) PROVE Cardinality(ahead(b)) < Cardinality(ahead(a))
    OBVIOUS
  <2>1. ahead(b) \cup {b} \in SUBSET ahead(a)
    BY FitsOrders
  <2>2. ahead(a) \in SUBSET found
    OBVIOUS
  <2> HIDE DEF ahead
  <2> QED
    BY <1>2, <2>1, <2>2
<1> HIDE DEF ahead
<1> QED
  BY <1>1, <1>3, <1>4

\* There is a result at every place: if none is at the next places, there is
\* none after them.
LEMMA PlacesFilled ==
    ASSUME NEW found \in SUBSET Nat, IsFiniteSet(found), NEW n \in Nat,
           \A i \in found : Place(found, i) # n
    PROVE  \A i \in found : Place(found, i) < n
<1> DEFINE size   == Cardinality(found)
           places == 0 .. (size - 1)
           place  == [i \in found |-> Place(found, i)]
<1>1. size \in Nat
  BY FS_CardinalityType
<1>2. IsFiniteSet(places) /\ Cardinality(places) = size
  <2> HIDE DEF size
  <2> QED
    BY <1>1, FS_Interval
<1>3. ASSUME NEW i \in found
      PROVE  Place(found, i) \in Nat /\ Place(found, i) < size
  BY PlacesOrdered
<1>4. place \in [found -> places]
  <2> HIDE DEF size
  <2> QED
    BY <1>1, <1>3
<1>5. place \in Injection(found, places)
  <2>1. ASSUME NEW i \in found, NEW k \in found, i # k
        PROVE  place[i] # place[k]
    <3>1. Fits(i, k) \/ Fits(k, i)
      BY <2>1, FitsOrders
    <3>2. Place(found, i) < Place(found, k) \/ Place(found, k) < Place(found, i)
      BY <3>1, PlacesOrdered
    <3> QED
      BY <1>3, <3>2
  <2> HIDE DEF place, places
  <2> QED
    BY <1>4, <2>1 DEF Injection, IsInjective
<1>6. place \in Surjection(found, places)
  <2> HIDE DEF place, places, size
  <2> QED
    BY <1>2, <1>5, FS_Injection DEF size
<1>7. n \notin places
  <2> SUFFICES ASSUME n \in places PROVE FALSE
    OBVIOUS
  <2>1. PICK i \in found : place[i] = n
    <3> HIDE DEF place, places
    <3> QED
      BY <1>6 DEF Surjection
  <2> QED
    BY <2>1
<1>8. size <= n
  <2> HIDE DEF size
  <2> QED
    BY <1>1, <1>7
<1> HIDE DEF size
<1> QED
  BY <1>1, <1>3, <1>8

----------------------------------------------------------------------------
\* What a search gets of Torob is the beginning of All.
LEMMA PopularBegins ==
    ASSUME torob \in Nat, NEW size \in Nat
    PROVE  /\ IsFiniteSet(All) /\ All \in SUBSET Nat /\ All \subseteq 1 .. torob
           /\ Popular(size) \in SUBSET All
           /\ \A i \in Popular(size), j \in All \ Popular(size) :
                 i < j /\ FetchSize(size) < j
           /\ All # Popular(size) =>
                 Popular(size) = 1 .. FetchSize(size) /\ size <= FetchSize(size)
<1> DEFINE gets  == FetchSize(size)
           some  == IF torob <= gets THEN torob ELSE gets
           most  == IF torob <= FetchMax THEN torob ELSE FetchMax
<1>1. /\ gets \in Nat /\ gets <= FetchMax /\ FetchMax \in Nat
      /\ gets = FetchMax \/ size <= gets
  BY FetchSizes, ConstantsOK
<1>2. Popular(size) = 1 .. some
  <2> HIDE DEF gets
  <2>1. Min({torob, gets}) = some
    BY <1>1, OfTwo
  <2> QED
    BY <2>1 DEF Popular, gets
<1>3. All = 1 .. most
  <2>1. Min({torob, FetchMax}) = most
    BY <1>1, OfTwo
  <2> QED
    BY <2>1 DEF All
<1>4. most \in Nat /\ some \in Nat /\ some <= most /\ most <= torob
  <2> HIDE DEF gets
  <2> QED
    BY <1>1
<1>5. IsFiniteSet(All)
  <2> HIDE DEF most
  <2> QED
    BY <1>3, <1>4, FS_Interval
<1>6. some = most \/ (some = gets /\ size <= gets)
  <2> HIDE DEF gets
  <2> QED
    BY <1>1
<1> HIDE DEF gets, some, most
<1>7. Popular(size) \in SUBSET All /\ All \in SUBSET Nat /\ All \subseteq 1 .. torob
  BY <1>2, <1>3, <1>4
<1>8. \A i \in Popular(size), j \in All \ Popular(size) : i < j /\ gets < j
  BY <1>1, <1>2, <1>3, <1>4, <1>6
<1> QED
  BY <1>2, <1>3, <1>5, <1>6, <1>7, <1>8 DEF gets

\* The results of a search have the places that they have among all, if the
\* later answers bring nothing better; and the others have later places.
LEMMA PopularPlaces ==
    ASSUME torob \in Nat, EarlyBest, NEW size \in Nat, Width <= size
    PROVE  /\ \A i \in Popular(size) : Place(Popular(size), i) = Place(All, i)
           /\ \A j \in All \ Popular(size) : size <= Place(All, j)
<1> DEFINE found == Popular(size)
<1>1. /\ IsFiniteSet(All) /\ All \in SUBSET Nat /\ found \in SUBSET All
      /\ \A i \in found, j \in All \ found : i < j /\ FetchSize(size) < j
      /\ All # found => found = 1 .. FetchSize(size) /\ size <= FetchSize(size)
  BY PopularBegins
<1>2. FetchSize(Width) <= FetchSize(size) /\ FetchSize(size) \in Nat /\ FetchSize(Width) \in Nat
  BY FetchSizes, ConstantsOK
<1> HIDE DEF found
<1>3. \A j \in All \ found : j \notin better
  <2> SUFFICES ASSUME NEW j \in All \ found, j \in better PROVE FALSE
    OBVIOUS
  <2>1. j \in Nat /\ j <= FetchSize(Width)
    BY <1>1 DEF EarlyBest
  <2>2. CASE found = {}
    <3>1. 1 .. FetchSize(size) = {} /\ size <= FetchSize(size)
      BY <1>1, <2>2
    <3>2. FetchSize(size) = 0
      BY <1>2, <3>1
    <3>3. Width <= 0
      BY <1>2, <3>1, <3>2, ConstantsOK
    <3> QED
      BY <3>3, ConstantsOK
  <2>3. CASE found # {}
    <3>1. FetchSize(size) < j
      BY <1>1, <2>3
    <3> QED
      BY <1>2, <2>1, <3>1
  <2> QED
    BY <2>2, <2>3
<1>4. \A i \in found, j \in All \ found : Fits(i, j) /\ ~Fits(j, i)
  <2> SUFFICES ASSUME NEW i \in found, NEW j \in All \ found
               PROVE  Fits(i, j) /\ ~Fits(j, i)
    OBVIOUS
  <2>1. i < j /\ j \notin better /\ i \in Nat /\ j \in Nat
    BY <1>1, <1>3
  <2> QED
    BY <2>1 DEF Fits
<1>5. ASSUME NEW i \in found PROVE Place(found, i) = Place(All, i)
  <2>1. {k \in found : Fits(k, i)} = {k \in All : Fits(k, i)}
    BY <1>1, <1>4
  <2> QED
    BY <2>1 DEF Place
<1>6. ASSUME NEW j \in All \ found PROVE size <= Place(All, j)
  <2> DEFINE ahead == {k \in All : Fits(k, j)}
  <2>1. IsFiniteSet(ahead) /\ Cardinality(ahead) \in Nat
    BY <1>1, FS_Subset, FS_CardinalityType
  <2>2. found \in SUBSET ahead
    BY <1>1, <1>4
  <2>3. Cardinality(found) <= Cardinality(ahead)
    <3> HIDE DEF ahead
    <3> QED
      BY <2>1, <2>2, FS_Subset
  <2>4. found = 1 .. FetchSize(size) /\ size <= FetchSize(size)
    BY <1>1
  <2>5. Cardinality(found) = FetchSize(size)
    <3>1. Cardinality(1 .. FetchSize(size)) = FetchSize(size)
      <4> DEFINE top == FetchSize(size)
      <4>1. top \in Nat
        BY <1>2
      <4>2. Cardinality(1 .. top) = IF 1 > top THEN 0 ELSE top - 1 + 1
        <5> HIDE DEF top
        <5> QED
          BY <4>1, FS_Interval
      <4> HIDE DEF top
      <4>3. Cardinality(1 .. top) = top
        BY <4>1, <4>2
      <4> QED
        BY <4>3 DEF top
    <3> QED
      BY <2>4, <3>1
  <2>6. Place(All, j) = Cardinality(ahead)
    BY DEF Place
  <2> HIDE DEF ahead
  <2> QED
    BY <1>2, <2>1, <2>3, <2>4, <2>5, <2>6
<1> QED
  BY <1>5, <1>6 DEF found

----------------------------------------------------------------------------
\* Pages of one width lie side by side in what the search of the later page
\* asks for.
LEMMA PagesTile ==
    ASSUME NEW p \in Nat, NEW s \in Nat, s <= Width
    PROVE  /\ p * s \in Nat /\ (p + 1) * s \in Nat /\ (p + 1) * s = p * s + s
           /\ Asks(p) \in Nat /\ (p + 1) * s <= Asks(p) /\ Width <= Asks(p)
<1>1. Width \in Nat
  BY ConstantsOK
<1> DEFINE w == Width
           q == p + 1
<1>2. q \in Nat /\ q >= 1 /\ w \in Nat
  BY <1>1
<1>3. q * s <= w * q
  <2> DEFINE d == w - s
  <2>1. d \in Nat /\ w = s + d
    BY <1>1
  <2> HIDE DEF q, d, w
  <2>2. (s + d) * q = q * s + d * q /\ d * q \in Nat /\ q * s \in Nat
    BY <1>2, <2>1
  <2> QED
    BY <2>1, <2>2
<1>4. w <= w * q
  <2>1. w * q = w * p + w /\ w * p \in Nat
    <3> HIDE DEF w
    <3> QED
      BY <1>2
  <2> HIDE DEF w, q
  <2> QED
    BY <1>2, <2>1
<1>5. p * s \in Nat /\ q * s \in Nat /\ q * s = p * s + s /\ w * q \in Nat
  <2> HIDE DEF w
  <2> QED
    BY <1>2
<1> QED
  BY <1>3, <1>4, <1>5 DEF Asks

\* A window of Torob is what comes after the pages before, if they are as wide.
LEMMA WindowIsNext ==
    ASSUME torob \in Nat, EarlyBest, NEW p \in Nat, NEW c \in Nat
    PROVE  Window(p, c) = Best((p + 1) * PageSize(c)) \ Best(p * PageSize(c))
<1> DEFINE s     == PageSize(c)
           found == Popular(Asks(p))
           from  == p * s
           to    == (p + 1) * s
           asks  == Asks(p)
<1>1. s \in Nat /\ s <= Width
  BY PageSizes
<1>2. /\ from \in Nat /\ to \in Nat /\ to = from + s
      /\ asks \in Nat /\ to <= asks /\ Width <= asks
  <2> HIDE DEF s
  <2> QED
    BY <1>1, PagesTile
<1>3. /\ \A i \in found : Place(found, i) = Place(All, i)
      /\ \A j \in All \ found : asks <= Place(All, j)
      /\ found \in SUBSET All /\ All \in SUBSET Nat /\ IsFiniteSet(All)
  BY <1>2, PopularPlaces, PopularBegins
<1>4. \A i \in All : Place(All, i) \in Nat
  BY <1>3, PlacesOrdered
<1>5. Window(p, c) = {i \in found : /\ from <= Place(found, i) /\ Place(found, i) < from + s
                                   /\ Place(found, i) < asks}
  BY DEF Window, WindowStart
<1> HIDE DEF s, found, from, to, asks
<1>6. Window(p, c) = {i \in All : from <= Place(All, i) /\ Place(All, i) < to}
  <2>1. ASSUME NEW i \in found
        PROVE  /\ from <= Place(found, i) /\ Place(found, i) < from + s /\ Place(found, i) < asks
               <=> from <= Place(All, i) /\ Place(All, i) < to
    <3> DEFINE place == Place(All, i)
    <3>1. Place(found, i) = place /\ place \in Nat
      BY <1>3, <1>4
    <3> HIDE DEF place
    <3>2. /\ from <= place /\ place < from + s /\ place < asks
          <=> from <= place /\ place < to
      BY <1>1, <1>2, <3>1
    <3> QED
      BY <3>1, <3>2 DEF place
  <2>2. ASSUME NEW j \in All \ found PROVE ~(Place(All, j) < to)
    <3> DEFINE place == Place(All, j)
    <3>1. asks <= place /\ place \in Nat
      BY <1>3, <1>4
    <3> HIDE DEF place
    <3>2. ~(place < to)
      BY <1>2, <3>1
    <3> QED
      BY <3>2 DEF place
  <2> QED
    BY <1>3, <1>5, <2>1, <2>2
<1>7. {i \in All : from <= Place(All, i) /\ Place(All, i) < to} = Best(to) \ Best(from)
  BY <1>2, <1>4 DEF Best
<1> QED
  BY <1>6, <1>7 DEF s, from, to

\* If there is nothing at the next places, all was there before.
LEMMA EmptyWindow ==
    ASSUME torob \in Nat, NEW n \in Nat, NEW s \in Nat, s >= 1, Best(n + s) \ Best(n) = {}
    PROVE  Best(n) = All
<1>1. IsFiniteSet(All) /\ All \in SUBSET Nat
  BY PopularBegins
<1>2. \A i \in All : Place(All, i) \in Nat
  BY <1>1, PlacesOrdered
<1>3. \A i \in All : Place(All, i) # n
  <2> SUFFICES ASSUME NEW i \in All, Place(All, i) = n PROVE FALSE
    OBVIOUS
  <2>1. n < n + s /\ ~(n < n)
    OBVIOUS
  <2>2. i \in Best(n + s) /\ i \notin Best(n)
    BY <2>1 DEF Best
  <2> QED
    BY <2>2
<1>4. \A i \in All : Place(All, i) < n
  BY <1>1, <1>3, PlacesFilled
<1> QED
  BY <1>4 DEF Best

----------------------------------------------------------------------------
\* The row and the search that is made for it.
RowInv ==
    /\ TypeOK
    /\ Shown \subseteq All
    /\ slots \in SUBSET Nat /\ IsFiniteSet(slots)
    /\ request.kind = "first" => matches = {} /\ ~error /\ more /\ request.page = 0
    /\ request.kind = "more" => ~error /\ more /\ request.page = page

\* As long as the pages keep their width, they show one window after the other.
WindowsInv ==
    whole /\ Steady /\ request.kind # "first" =>
        \/ Exhausted
        \/ more /\ \E c \in slots : Shown = Best(page * PageSize(c))

PagingInv == RowInv /\ WindowsInv

\* What a search returns: a window of Torob, if Torob answers, beside the page
\* of Basalam, if that does in time.
LEMMA SearchOK ==
    ASSUME torob \in Nat, basalam \in Nat, NEW p \in Nat,
           NEW torobAnswers \in BOOLEAN, NEW basalamAnswers \in BOOLEAN
    PROVE  LET results == SearchProducts(p, torobAnswers, basalamAnswers)
               used    == IF basalamAnswers THEN Cardinality(BasalamFinds(p)) ELSE 0
           IN  /\ used \in Nat /\ IsFiniteSet(results)
               /\ results \subseteq ({"torob"} \X (1 .. torob)) \cup ({"basalam"} \X (1 .. basalam))
               /\ \A i : <<"torob", i>> \in results => i \in All
               /\ torobAnswers => \A i : <<"torob", i>> \in results <=> i \in Window(p, used)
<1> DEFINE fromBasalam == IF basalamAnswers THEN BasalamFinds(p) ELSE {}
           used        == IF basalamAnswers THEN Cardinality(BasalamFinds(p)) ELSE 0
           window      == Window(p, Cardinality(fromBasalam))
           fromTorob   == IF torobAnswers THEN window ELSE {}
           results     == SearchProducts(p, torobAnswers, basalamAnswers)
<1>1. IsFiniteSet(1 .. basalam)
  BY FS_Interval
<1>2. BasalamFinds(p) \in SUBSET (1 .. basalam)
  BY DEF BasalamFinds
<1>3. IsFiniteSet(BasalamFinds(p)) /\ Cardinality(BasalamFinds(p)) \in Nat
  BY <1>1, <1>2, FS_Subset, FS_CardinalityType
<1>4. /\ fromBasalam \subseteq 1 .. basalam /\ IsFiniteSet(fromBasalam)
      /\ Cardinality(fromBasalam) = used /\ used \in Nat
  BY <1>2, <1>3, FS_EmptySet
<1>5. IsFiniteSet(All) /\ All \subseteq 1 .. torob /\ window \subseteq All
  <2>1. Asks(p) \in Nat
    BY ConstantsOK DEF Asks
  <2>2. Popular(Asks(p)) \in SUBSET All /\ IsFiniteSet(All) /\ All \subseteq 1 .. torob
    BY <2>1, PopularBegins
  <2>3. window \subseteq Popular(Asks(p))
    BY DEF Window
  <2> QED
    BY <2>2, <2>3
<1>6. results = ({"torob"} \X fromTorob) \cup ({"basalam"} \X fromBasalam)
  BY DEF SearchProducts
<1>7. fromTorob \subseteq All /\ IsFiniteSet(fromTorob)
  <2> HIDE DEF window
  <2>1. fromTorob \in SUBSET All
    BY <1>5
  <2> HIDE DEF fromTorob
  <2> QED
    BY <1>5, <2>1, FS_Subset
<1>8. IsFiniteSet(results)
  <2> HIDE DEF fromTorob, fromBasalam, results
  <2>1. IsFiniteSet({"torob"}) /\ IsFiniteSet({"basalam"})
    BY FS_Singleton
  <2>2. IsFiniteSet({"torob"} \X fromTorob) /\ IsFiniteSet({"basalam"} \X fromBasalam)
    BY <1>4, <1>7, <2>1, FS_Product
  <2> QED
    BY <1>6, <2>2, FS_Union
<1>9. \A i : <<"torob", i>> \in results <=> i \in fromTorob
  <2> HIDE DEF fromTorob, fromBasalam, results
  <2> QED
    BY <1>6
<1>10. results \subseteq ({"torob"} \X (1 .. torob)) \cup ({"basalam"} \X (1 .. basalam))
  <2> HIDE DEF fromTorob, fromBasalam, results
  <2>1. fromTorob \subseteq 1 .. torob /\ fromBasalam \subseteq 1 .. basalam
    BY <1>4, <1>5, <1>7
  <2> QED
    BY <1>6, <2>1
<1>11. torobAnswers => fromTorob = Window(p, used)
  BY <1>4
<1> HIDE DEF fromTorob, results, used
<1> QED
  BY <1>4, <1>7, <1>8, <1>9, <1>10, <1>11 DEF results, used

----------------------------------------------------------------------------
LEMMA InitInv == Init => PagingInv
<1> SUFFICES ASSUME Init PROVE PagingInv
  OBVIOUS
<1>1. TypeOK
  <2>1. /\ request \in [kind : {"none", "first", "more"}, page : Nat, added : 0 .. Enough, tries : 0 .. 2]
        /\ failures \in 0 .. MaxFailures
    BY ConstantsOK DEF Init, NoRequest
  <2>2. page \in Nat \ {0} /\ {more, error, whole} \subseteq BOOLEAN /\ ~error
    <3>1. page = 1 /\ more = TRUE /\ error = FALSE /\ whole = FALSE
      BY DEF Init
    <3>2. more \in BOOLEAN /\ error \in BOOLEAN /\ whole \in BOOLEAN
      BY <3>1, Zenon
    <3>3. {more, error, whole} \subseteq BOOLEAN
      BY <3>2, Zenon
    <3> QED
      BY <3>1, <3>3
  <2>3. torob \in 0 .. Torob /\ basalam \in 0 .. Basalam /\ better \in Better
    BY DEF Init
  <2>4. matches \subseteq ({"torob"} \X (1 .. torob)) \cup ({"basalam"} \X (1 .. basalam))
    BY DEF Init
  <2> QED
    BY <2>1, <2>2, <2>3, <2>4 DEF TypeOK
<1>2. Shown = {} /\ IsFiniteSet(slots) /\ slots = {}
  BY FS_EmptySet DEF Init, Shown
<1>3. RowInv
  BY <1>1, <1>2 DEF Init, RowInv, NoRequest
<1>4. WindowsInv
  BY DEF Init, WindowsInv
<1> QED
  BY <1>3, <1>4 DEF PagingInv

\* Nothing is lost of the windows while a row waits.
LEMMA WindowsKept ==
    ASSUME WindowsInv, request.kind # "first",
           UNCHANGED <<torob, better, matches, page, more, slots, whole>>
    PROVE  WindowsInv'
<1>1. Steady' = Steady /\ Exhausted' = Exhausted
  BY DEF Steady, Exhausted, Shown
<1>2. ASSUME NEW c \in slots, Shown = Best(page * PageSize(c))
      PROVE  \E d \in slots' : Shown' = Best(page * PageSize(d))'
  <2> DEFINE n == page * PageSize(c)
  <2>1. Best(n)' = Best(n) /\ Shown' = Shown /\ slots' = slots /\ n' = n
    BY DEF Shown, Best, All, Place, Fits
  <2> QED
    BY <1>2, <2>1
<1> QED
  BY <1>1, <1>2 DEF WindowsInv

LEMMA UnchangedInv == PagingInv /\ UNCHANGED vars => PagingInv'
<1> SUFFICES ASSUME PagingInv, UNCHANGED vars PROVE PagingInv'
  OBVIOUS
<1>1. TypeOK' /\ Shown' = Shown /\ All' = All
  BY DEF PagingInv, RowInv, TypeOK, Shown, All, vars, catalogue, row
<1>2. RowInv'
  BY <1>1 DEF PagingInv, RowInv, vars, row
<1>3. WindowsInv'
  <2>1. CASE request.kind = "first"
    BY <2>1 DEF WindowsInv, vars
  <2>2. CASE request.kind # "first"
    BY <2>2, WindowsKept DEF PagingInv, vars, catalogue, row
  <2> QED
    BY <2>1, <2>2
<1> QED
  BY <1>2, <1>3 DEF PagingInv

\* A new search for the row changes nothing that is shown.
LEMMA BeginFirstStep == PagingInv /\ BeginFirst => PagingInv'
<1> SUFFICES ASSUME PagingInv, BeginFirst PROVE PagingInv'
  OBVIOUS
<1>1. TypeOK'
  <2>1. request' \in [kind : {"none", "first", "more"}, page : Nat, added : 0 .. Enough, tries : 0 .. 2]
    BY ConstantsOK DEF BeginFirst, NoRequest
  <2>2. page' \in Nat \ {0} /\ {more, error, whole}' \subseteq BOOLEAN /\ ~error'
    <3>1. page' = 1 /\ more' = TRUE /\ error' = FALSE /\ whole' = whole
      BY DEF BeginFirst
    <3>2. whole \in BOOLEAN
      BY DEF PagingInv, RowInv, TypeOK
    <3>3. more' \in BOOLEAN /\ error' \in BOOLEAN /\ whole' \in BOOLEAN
      BY <3>1, <3>2, Zenon
    <3>4. {more, error, whole}' \subseteq BOOLEAN
      BY <3>3, Zenon
    <3> QED
      BY <3>1, <3>4
  <2> QED
    BY <2>1, <2>2 DEF PagingInv, RowInv, BeginFirst, TypeOK, catalogue
<1>2. Shown' = Shown /\ All' = All
  BY DEF BeginFirst, Shown, All, catalogue
<1>3. RowInv'
  BY <1>1, <1>2 DEF PagingInv, RowInv, BeginFirst, NoRequest
<1>4. WindowsInv'
  BY DEF BeginFirst, WindowsInv, NoRequest
<1> QED
  BY <1>3, <1>4 DEF PagingInv

LEMMA BeginMoreStep == PagingInv /\ BeginMore => PagingInv'
<1> SUFFICES ASSUME PagingInv, BeginMore PROVE PagingInv'
  OBVIOUS
<1>1. TypeOK'
  BY ConstantsOK DEF PagingInv, RowInv, BeginMore, TypeOK, NoRequest, catalogue, row
<1>2. Shown' = Shown /\ All' = All
  BY DEF BeginMore, Shown, All, catalogue, row
<1>3. RowInv'
  BY <1>1, <1>2 DEF PagingInv, RowInv, BeginMore, NoRequest, row
<1>4. WindowsInv'
  <2>1. request.kind # "first"
    BY DEF BeginMore, NoRequest
  <2> QED
    BY <2>1, WindowsKept DEF PagingInv, BeginMore, catalogue, row
<1> QED
  BY <1>3, <1>4 DEF PagingInv

\* A page adds what was found, and nothing else changes what is shown of Torob.
LEMMA PageShown ==
    ASSUME TypeOK, Shown \subseteq All, NEW p \in Nat,
           NEW torobAnswers \in BOOLEAN, NEW basalamAnswers \in BOOLEAN,
           UNCHANGED catalogue,
           matches' = Appended(SearchProducts(p, torobAnswers, basalamAnswers))
    PROVE  LET used == IF basalamAnswers THEN Cardinality(BasalamFinds(p)) ELSE 0
           IN  /\ matches' \subseteq ({"torob"} \X (1 .. torob)) \cup ({"basalam"} \X (1 .. basalam))
               /\ All' = All /\ Shown \subseteq Shown' /\ Shown' \subseteq All'
               /\ torobAnswers => Shown' = Shown \cup Window(p, used)
<1> DEFINE results == SearchProducts(p, torobAnswers, basalamAnswers)
           used    == IF basalamAnswers THEN Cardinality(BasalamFinds(p)) ELSE 0
<1>1. torob \in Nat /\ basalam \in Nat
  BY ConstantsOK DEF TypeOK
<1>2. /\ results \subseteq ({"torob"} \X (1 .. torob)) \cup ({"basalam"} \X (1 .. basalam))
      /\ \A i : <<"torob", i>> \in results => i \in All
      /\ torobAnswers => \A i : <<"torob", i>> \in results <=> i \in Window(p, used)
  BY <1>1, SearchOK
<1>3. All \subseteq 1 .. torob
  BY <1>1, PopularBegins, ConstantsOK
<1>4. All' = All /\ torob' = torob /\ matches' = matches \cup results
  BY DEF All, Appended, catalogue
<1> HIDE DEF results, used
<1>5. Shown' = Shown \cup {i \in All : <<"torob", i>> \in results}
  BY <1>2, <1>3, <1>4 DEF Shown
<1>6. matches' \subseteq ({"torob"} \X (1 .. torob)) \cup ({"basalam"} \X (1 .. basalam))
  BY <1>2, <1>4 DEF TypeOK
<1>7. torobAnswers => {i \in All : <<"torob", i>> \in results} = Window(p, used)
  BY <1>2
<1> QED
  BY <1>4, <1>5, <1>6, <1>7 DEF used

\* The pages had one width if no two of them differ.
LEMMA OneWidth ==
    ASSUME NEW widths, IsFiniteSet(widths), Cardinality(widths) <= 1,
           NEW c \in widths, NEW d \in widths
    PROVE  c = d
<1>1. Cardinality(widths) \in Nat /\ Cardinality(widths) # 0
  BY FS_CardinalityType, FS_EmptySet
<1>2. Cardinality(widths) = 1
  BY <1>1
<1> QED
  BY <1>2, FS_Singleton

\* The first page is the window that all are counted from.
LEMMA FirstSearchEndsStep ==
    ASSUME PagingInv, NEW torobAnswers \in BOOLEAN, NEW basalamAnswers \in BOOLEAN,
           FirstSearchEnds(torobAnswers, basalamAnswers)
    PROVE  PagingInv'
<1> DEFINE results == SearchProducts(0, torobAnswers, basalamAnswers)
           used    == IF basalamAnswers THEN Cardinality(BasalamFinds(0)) ELSE 0
<1>1. /\ TypeOK /\ Shown \subseteq All /\ torob \in Nat /\ basalam \in Nat
      /\ request.kind = "first" /\ request.page = 0 /\ matches = {}
  BY ConstantsOK DEF PagingInv, RowInv, TypeOK, FirstSearchEnds
<1>2. /\ matches' = Appended(results) /\ UNCHANGED catalogue
      /\ error' = (results = {}) /\ more' = (results # {})
      /\ page' = 1 /\ request' = NoRequest
  BY DEF FirstSearchEnds, OffersMore
<1>3. /\ matches' \subseteq ({"torob"} \X (1 .. torob)) \cup ({"basalam"} \X (1 .. basalam))
      /\ All' = All /\ Shown' \subseteq All'
      /\ torobAnswers => Shown' = Shown \cup Window(0, used)
  BY <1>1, <1>2, PageShown
<1>4. used \in Nat
  BY <1>1, SearchOK
<1>5. slots' = {used} /\ (whole' => torobAnswers)
  BY <1>1 DEF FirstSearchEnds, Observes
<1>6. matches' = results
  BY <1>1, <1>2 DEF Appended
<1> HIDE DEF results, used
<1>7. TypeOK'
  <2>1. request' \in [kind : {"none", "first", "more"}, page : Nat, added : 0 .. Enough, tries : 0 .. 2]
    BY <1>2, ConstantsOK DEF NoRequest
  <2>2. {more, error, whole}' \subseteq BOOLEAN
    <3>1. more' \in BOOLEAN /\ error' \in BOOLEAN
      BY <1>2
    <3>2. whole' \in BOOLEAN
      BY DEF FirstSearchEnds, Observes
    <3> QED
      BY <3>1, <3>2, Zenon
  <2>3. failures' \in 0 .. MaxFailures
    BY <1>1, ConstantsOK DEF FirstSearchEnds, Observes, TypeOK
  <2>4. error' => matches' = {} /\ ~more'
    BY <1>2, <1>6
  <2>5. torob' \in 0 .. Torob /\ basalam' \in 0 .. Basalam /\ better' \in Better
    BY <1>1, <1>2 DEF TypeOK, catalogue
  <2>6. matches' \subseteq ({"torob"} \X (1 .. torob')) \cup ({"basalam"} \X (1 .. basalam'))
    BY <1>2, <1>3 DEF catalogue
  <2> QED
    BY <1>2, <2>1, <2>2, <2>3, <2>4, <2>5, <2>6 DEF TypeOK
<1>8. RowInv'
  <2>1. IsFiniteSet(slots')
    BY <1>5, FS_Singleton
  <2> QED
    BY <1>2, <1>3, <1>4, <1>5, <1>7, <2>1 DEF RowInv, NoRequest
<1>9. WindowsInv'
  <2> SUFFICES ASSUME whole', Steady', ~Exhausted'
               PROVE  more' /\ \E c \in slots' : Shown' = Best(page * PageSize(c))'
    BY DEF WindowsInv
  <2>0. PICK c \in Nat : c = used
    BY <1>4
  <2> DEFINE s == PageSize(c)
  <2>1. s \in Nat /\ s >= 1
    BY PageSizes
  <2>2. UNCHANGED <<torob, better>> /\ EarlyBest
    BY <1>2 DEF Steady, EarlyBest, catalogue
  <2>3. Shown' = Window(0, c)
    BY <1>1, <1>3, <1>5, <2>0 DEF Shown
  <2>4. Window(0, c) = Best(1 * s) \ Best(0 * s)
    BY <1>1, <2>2, WindowIsNext
  <2> HIDE DEF s
  <2>5. 1 * s = s /\ 0 * s = 0
    BY <2>1
  <2>6. \A i \in All : Place(All, i) \in Nat
    <3>1. All \in SUBSET Nat /\ IsFiniteSet(All)
      BY <1>1, PopularBegins, ConstantsOK
    <3> QED
      BY <3>1, PlacesOrdered
  <2>7. Best(0) = {}
    BY <2>6 DEF Best
  <2>8. Shown' = Best(s)
    BY <2>3, <2>4, <2>5, <2>7
  <2>9. Shown' # {}
    <3> SUFFICES ASSUME Best(s) = {} PROVE FALSE
      BY <2>8
    <3>1. Best(0 + s) \ Best(0) = {}
      BY <2>1
    <3>2. Best(0) = All
      BY <1>1, <2>1, <3>1, EmptyWindow
    <3>3. Shown' = All'
      BY <1>3, <2>7, <2>8, <3>2
    <3> QED
      BY <3>3 DEF Exhausted, All
  <2>10. more'
    BY <1>2, <1>6, <2>9 DEF Shown
  <2>11. page' * s = s
    BY <1>2, <2>1
  <2>12. Best(s)' = Best(s) /\ s' = s
    BY <2>2 DEF Best, All, Place, Fits, s
  <2>13. Best(page * PageSize(c))' = Best(s)
    BY <2>11, <2>12 DEF s
  <2> QED
    BY <1>5, <2>0, <2>8, <2>10, <2>13
<1> QED
  BY <1>8, <1>9 DEF PagingInv

\* A page of "more" adds the next window. If there is nothing in it, or nothing
\* new, then all was shown.
LEMMA MoreSearchEndsStep ==
    ASSUME PagingInv, NEW torobAnswers \in BOOLEAN, NEW basalamAnswers \in BOOLEAN,
           MoreSearchEnds(torobAnswers, basalamAnswers)
    PROVE  PagingInv'
<1>1. /\ TypeOK /\ Shown \subseteq All /\ torob \in Nat /\ basalam \in Nat /\ Enough \in Nat
      /\ request.kind = "more" /\ request.page = page /\ page \in Nat /\ ~error /\ more
      /\ slots \in SUBSET Nat /\ IsFiniteSet(slots)
      /\ request \in [kind : {"none", "first", "more"}, page : Nat, added : 0 .. Enough, tries : 0 .. 2]
  BY ConstantsOK DEF PagingInv, RowInv, TypeOK, MoreSearchEnds
<1>2. PICK p \in Nat : p = page
  BY <1>1
<1> DEFINE results == SearchProducts(p, torobAnswers, basalamAnswers)
           used    == IF basalamAnswers THEN Cardinality(BasalamFinds(p)) ELSE 0
           added   == request.added + Cardinality(results \ matches)
           ends    == results = {} \/ added >= Enough \/ request.tries = 2
<1>3. /\ matches' = Appended(results) /\ UNCHANGED <<catalogue, error>>
      /\ page' = IF results = {} THEN p ELSE p + 1
      /\ more' = (more /\ results # {} /\ (ends => added > 0))
      /\ request' = IF ends THEN NoRequest
                    ELSE [request EXCEPT !.page = @ + 1, !.added = added, !.tries = @ + 1]
  BY <1>1, <1>2 DEF MoreSearchEnds
<1>4. /\ matches' \subseteq ({"torob"} \X (1 .. torob)) \cup ({"basalam"} \X (1 .. basalam))
      /\ All' = All /\ Shown \subseteq Shown' /\ Shown' \subseteq All'
      /\ torobAnswers => Shown' = Shown \cup Window(p, used)
  BY <1>1, <1>3, PageShown
<1>5. /\ used \in Nat /\ IsFiniteSet(results)
      /\ torobAnswers => \A i : <<"torob", i>> \in results <=> i \in Window(p, used)
  BY <1>1, SearchOK
<1>6. PICK c \in Nat : c = used
  BY <1>5
<1>7. /\ slots' = (IF Exhausted THEN slots ELSE slots \cup {c})
      /\ whole' => torobAnswers /\ whole
  <2>1. Observes(torobAnswers, basalamAnswers)
    BY DEF MoreSearchEnds
  <2>2. request.page = p
    BY <1>1, <1>2
  <2> QED
    BY <1>1, <1>6, <2>1, <2>2 DEF Observes
<1>8. IsFiniteSet(results \ matches) /\ Cardinality(results \ matches) \in Nat
  <2> HIDE DEF results
  <2>1. results \ matches \in SUBSET results
    OBVIOUS
  <2> QED
    BY <1>5, <2>1, FS_Subset, FS_CardinalityType
<1> HIDE DEF results, used
<1>9. added \in Nat /\ (added = 0 => results \subseteq matches)
  <2>1. Cardinality(results \ matches) = 0 => results \ matches = {}
    BY <1>8, FS_EmptySet
  <2> QED
    BY <1>1, <1>8, <2>1
<1> HIDE DEF added
<1>10. TypeOK'
  <2>1. request' \in [kind : {"none", "first", "more"}, page : Nat, added : 0 .. Enough, tries : 0 .. 2]
    <3>1. CASE ends
      BY <1>1, <1>3, <3>1 DEF NoRequest
    <3>2. CASE ~ends
      <4>1. added \in 0 .. Enough /\ request.tries + 1 \in 0 .. 2 /\ request.page + 1 \in Nat
        BY <1>1, <1>9, <3>2
      <4>2. request' = [request EXCEPT !.page = @ + 1, !.added = added, !.tries = @ + 1]
        BY <1>3, <3>2
      <4> QED
        BY <1>1, <4>1, <4>2
    <3> QED
      BY <3>1, <3>2
  <2>2. {more, error, whole}' \subseteq BOOLEAN
    <3>1. more' \in BOOLEAN
      BY <1>3
    <3>2. error' \in BOOLEAN
      BY <1>1, <1>3 DEF TypeOK
    <3>3. whole' \in BOOLEAN
      BY DEF MoreSearchEnds, Observes
    <3> QED
      BY <3>1, <3>2, <3>3, Zenon
  <2>3. failures' \in 0 .. MaxFailures
    BY <1>1, ConstantsOK DEF MoreSearchEnds, Observes, TypeOK
  <2>4. torob' \in 0 .. Torob /\ basalam' \in 0 .. Basalam /\ better' \in Better
    BY <1>1, <1>3 DEF TypeOK, catalogue
  <2>5. matches' \subseteq ({"torob"} \X (1 .. torob')) \cup ({"basalam"} \X (1 .. basalam'))
    BY <1>3, <1>4 DEF catalogue
  <2>6. page' \in Nat \ {0}
    <3>1. p # 0
      BY <1>1, <1>2 DEF TypeOK
    <3> QED
      BY <1>3, <3>1
  <2>7. ~error'
    BY <1>1, <1>3
  <2> QED
    BY <2>1, <2>2, <2>3, <2>4, <2>5, <2>6, <2>7 DEF TypeOK
<1>11. RowInv'
  <2>1. slots' \in SUBSET Nat /\ IsFiniteSet(slots')
    <3>1. IsFiniteSet(slots \cup {c})
      BY <1>1, FS_AddElement
    <3> QED
      BY <1>1, <1>7, <3>1
  <2>2. request'.kind # "first"
    BY <1>1, <1>3 DEF NoRequest
  <2>3. request'.kind = "more" => more' /\ request'.page = page'
    <3>1. CASE ends
      BY <1>3, <3>1 DEF NoRequest
    <3>2. CASE ~ends
      BY <1>1, <1>2, <1>3, <3>2
    <3> QED
      BY <3>1, <3>2
  <2> QED
    BY <1>1, <1>3, <1>4, <1>10, <2>1, <2>2, <2>3 DEF RowInv
<1>12. WindowsInv'
  <2> SUFFICES ASSUME whole', Steady', ~Exhausted'
               PROVE  more' /\ \E d \in slots' : Shown' = Best(page * PageSize(d))'
    BY DEF WindowsInv
  <2>1. UNCHANGED <<torob, better>> /\ EarlyBest
    BY <1>3 DEF Steady, EarlyBest, catalogue
  <2>2. ~Exhausted
    BY <1>1, <1>4, <2>1 DEF Exhausted, All
  <2>3. slots' = slots \cup {c} /\ IsFiniteSet(slots \cup {c}) /\ Cardinality(slots \cup {c}) <= 1
    BY <1>1, <1>7, <2>2, FS_AddElement DEF Steady
  <2>4. Steady
    <3>1. Cardinality(slots) <= Cardinality(slots \cup {c})
      BY <2>3, FS_Subset
    <3>2. Cardinality(slots) \in Nat /\ Cardinality(slots \cup {c}) \in Nat
      BY <1>1, <2>3, FS_CardinalityType
    <3>3. Cardinality(slots) <= 1
      BY <2>3, <3>1, <3>2
    <3> QED
      BY <2>1, <3>3 DEF Steady, EarlyBest
  <2>5. PICK d \in slots : Shown = Best(p * PageSize(d))
    BY <1>1, <1>2, <1>7, <2>2, <2>4 DEF PagingInv, WindowsInv
  <2>6. d = c
    BY <2>3, <2>5, OneWidth
  <2> DEFINE s == PageSize(c)
             n == p * s
  <2>7. s \in Nat /\ s >= 1 /\ s <= Width
    BY PageSizes
  <2>8. n \in Nat /\ (p + 1) * s = n + s
    <3> HIDE DEF s
    <3> QED
      BY <2>7, PagesTile
  <2>9. Shown = Best(n)
    BY <2>5, <2>6
  <2>10. Window(p, c) = Best(n + s) \ Best(n)
    BY <1>1, <2>1, <2>8, WindowIsNext
  <2> HIDE DEF s, n
  <2>11. Window(p, c) # {}
    <3> SUFFICES ASSUME Window(p, c) = {} PROVE FALSE
      OBVIOUS
    <3>1. Best(n) = All
      BY <1>1, <2>7, <2>8, <2>10, EmptyWindow
    <3> QED
      BY <2>2, <2>9, <3>1 DEF Exhausted, All
  <2>12. \A i \in Window(p, c) : <<"torob", i>> \in results
    BY <1>5, <1>6, <1>7
  <2>13. results # {}
    BY <2>11, <2>12
  <2>14. added > 0
    <3>1. ~(results \subseteq matches)
      <4> SUFFICES ASSUME results \subseteq matches PROVE FALSE
        OBVIOUS
      <4>1. PICK i \in Window(p, c) : TRUE
        BY <2>11
      <4>2. <<"torob", i>> \in matches /\ i \notin Shown
        BY <2>9, <2>10, <2>12, <4>1
      <4>3. i \in 1 .. torob
        BY <1>1, <4>2 DEF TypeOK
      <4> QED
        BY <4>2, <4>3 DEF Shown
    <3> QED
      BY <1>9, <3>1
  <2>15. more'
    BY <1>1, <1>3, <2>13, <2>14
  <2>16. Shown' = Best(n) \cup (Best(n + s) \ Best(n))
    BY <1>4, <1>6, <1>7, <2>9, <2>10
  <2>17. Best(n) \subseteq Best(n + s)
    <3>1. \A i \in All : Place(All, i) \in Nat
      <4>1. All \in SUBSET Nat /\ IsFiniteSet(All)
        BY <1>1, PopularBegins, ConstantsOK
      <4> QED
        BY <4>1, PlacesOrdered
    <3> QED
      BY <2>7, <2>8, <3>1 DEF Best
  <2>18. Shown' = Best(n + s)
    BY <2>16, <2>17
  <2>19. page' = p + 1
    BY <1>3, <2>13
  <2>20. (p + 1) * s = n + s
    BY <2>8
  <2>21. Best(page * PageSize(c))' = Best(n + s)
    <3> DEFINE m == (p + 1) * PageSize(c)
    <3>1. Best(m)' = Best(m) /\ m' = m
      BY <2>1 DEF Best, All, Place, Fits
    <3>2. m = n + s
      BY <2>20 DEF s
    <3>3. (page * PageSize(c))' = m
      BY <2>19
    <3> QED
      BY <3>1, <3>2, <3>3
  <2> QED
    BY <2>3, <2>15, <2>18, <2>21
<1> QED
  BY <1>11, <1>12 DEF PagingInv

----------------------------------------------------------------------------
\* The invariant: the windows that a row was shown lie side by side.
THEOREM SpecInv == Spec => []PagingInv
<1>1. PagingInv /\ [Next]_vars => PagingInv'
  <2> SUFFICES ASSUME PagingInv, [Next]_vars PROVE PagingInv'
    OBVIOUS
  <2>1. CASE BeginFirst
    BY <2>1, BeginFirstStep
  <2>2. CASE BeginMore
    BY <2>2, BeginMoreStep
  <2>3. ASSUME NEW torobAnswers \in BOOLEAN, NEW basalamAnswers \in BOOLEAN,
               FirstSearchEnds(torobAnswers, basalamAnswers)
        PROVE  PagingInv'
    BY <2>3, FirstSearchEndsStep
  <2>4. ASSUME NEW torobAnswers \in BOOLEAN, NEW basalamAnswers \in BOOLEAN,
               MoreSearchEnds(torobAnswers, basalamAnswers)
        PROVE  PagingInv'
    BY <2>4, MoreSearchEndsStep
  <2>5. CASE UNCHANGED vars
    BY <2>5, UnchangedInv
  <2> QED
    BY <2>1, <2>2, <2>3, <2>4, <2>5 DEF Next
<1> QED
  BY <1>1, InitInv, PTL DEF Spec

\* A row holds what its columns allow, and one with an error has no matches.
THEOREM SpecTypeOK == Spec => []TypeOK
<1>1. PagingInv => TypeOK
  BY DEF PagingInv, RowInv
<1> QED
  BY <1>1, SpecInv, PTL

\* While the pages keep their width, the seller sees the best results of Torob
\* and none is left out between them, for every size of a page.
THEOREM SpecNothingSkipped == Spec => []NothingSkipped
<1>1. PagingInv => NothingSkipped
  <2> SUFFICES ASSUME PagingInv, whole, Steady, request = NoRequest,
                      NEW a \in Shown, NEW b \in All, Fits(b, a)
               PROVE  b \in Shown
    BY DEF NothingSkipped, All
  <2>1. CASE Exhausted
    BY <2>1 DEF Exhausted, All
  <2>2. CASE ~Exhausted
    <3>1. PICK c \in slots : Shown = Best(page * PageSize(c))
      BY <2>2 DEF PagingInv, WindowsInv, NoRequest
    <3> DEFINE n == page * PageSize(c)
    <3>2. n \in Nat
      <4>1. c \in Nat /\ page \in Nat
        BY DEF PagingInv, RowInv, TypeOK
      <4>2. PageSize(c) \in Nat
        BY <4>1, PageSizes
      <4> QED
        BY <4>1, <4>2
    <3> HIDE DEF n
    <3>3. torob \in Nat
      BY ConstantsOK DEF PagingInv, RowInv, TypeOK
    <3>4. IsFiniteSet(All) /\ All \in SUBSET Nat
      BY <3>3, PopularBegins, ConstantsOK
    <3>5. a \in All /\ Place(All, a) < n
      BY <3>1 DEF Best, n
    <3>6. /\ Place(All, b) < Place(All, a)
          /\ Place(All, a) \in Nat /\ Place(All, b) \in Nat
      BY <3>4, <3>5, PlacesOrdered
    <3>7. Place(All, b) < n
      BY <3>2, <3>5, <3>6
    <3> QED
      BY <3>1, <3>7 DEF Best, n
  <2> QED
    BY <2>1, <2>2
<1> QED
  BY <1>1, SpecInv, PTL

\* Then "more" is taken away only when everything was shown that Torob gives.
THEOREM SpecEndMeansExhausted == Spec => []EndMeansExhausted
<1>1. PagingInv => EndMeansExhausted
  BY DEF PagingInv, RowInv, WindowsInv, EndMeansExhausted
<1> QED
  BY <1>1, SpecInv, PTL
=============================================================================
