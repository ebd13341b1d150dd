------------------------- MODULE EitaaHistoryProofs -------------------------
(***************************************************************************)
(* What the two loops of an import from Eitaa do for every channel, limit  *)
(* and size of a page: the paging through the history, and the reading of  *)
(* products and photos. EitaaImportProofs puts them together.              *)
(***************************************************************************)
EXTENDS EitaaHistory, FiniteSetTheorems, WellFoundedInduction, TLAPS

\* A set of numbers that is not empty has a smallest one.
LEMMA MinExists ==
    ASSUME NEW ns \in SUBSET Nat, ns # {}
    PROVE  Min(ns) \in ns /\ \A n \in ns : Min(ns) <= n
<1> DEFINE less == {pair \in Nat \X Nat : pair[1] < pair[2]}
<1>1. IsWellFoundedOn(less, Nat)
  BY NatLessThanWellFounded DEF OpToRel
<1>2. PICK n \in ns : \A k \in ns : <<k, n>> \notin less
  <2> HIDE DEF less
  <2> QED
    BY <1>1, WFMin
<1>3. \A k \in ns : n <= k
  <2> SUFFICES ASSUME NEW k \in ns, ~(n <= k) PROVE FALSE
    OBVIOUS
  <2>1. k < n /\ k \in Nat /\ n \in Nat
    OBVIOUS
  <2> QED
    BY <1>2, <2>1
<1> QED
  BY <1>3 DEF Min

\* If it is bounded it has a largest one.
LEMMA MaxExists ==
    ASSUME NEW ns \in SUBSET Nat, ns # {}, NEW top \in Nat, \A n \in ns : n <= top
    PROVE  Max(ns) \in ns /\ \A n \in ns : n <= Max(ns)
<1> DEFINE below == {top - n : n \in ns}
<1>1. below \in SUBSET Nat /\ below # {}
  <2>1. \A n \in ns : top - n \in Nat
    OBVIOUS
  <2>2. PICK n \in ns : TRUE
    OBVIOUS
  <2>3. top - n \in below
    BY <2>2
  <2> QED
    BY <2>1, <2>3
<1>2. Min(below) \in below /\ \A b \in below : Min(below) <= b
  <2> HIDE DEF below
  <2> QED
    BY <1>1, MinExists
<1>3. PICK n \in ns : Min(below) = top - n
  BY <1>2
<1>4. \A k \in ns : k <= n
  <2> SUFFICES ASSUME NEW k \in ns PROVE k <= n
    OBVIOUS
  <2>1. top - k \in below
    OBVIOUS
  <2>2. top - n <= top - k
    BY <1>2, <1>3, <2>1
  <2> QED
    BY <2>2
<1> QED
  BY <1>4 DEF Max

\* As many numbers of a set as have fewer than size larger ones in it are size
\* at most.
LEMMA FewLarger ==
    ASSUME NEW ns \in SUBSET Nat, IsFiniteSet(ns), NEW size \in Nat
    PROVE  LET few == {n \in ns : Cardinality({k \in ns : k > n}) < size}
           IN  IsFiniteSet(few) /\ Cardinality(few) <= size
<1> DEFINE few == {n \in ns : Cardinality({k \in ns : k > n}) < size}
<1>1. IsFiniteSet(few) /\ Cardinality(few) \in Nat
  BY FS_Subset, FS_CardinalityType
<1> SUFFICES IsFiniteSet(few) /\ Cardinality(few) <= size
  OBVIOUS
<1>2. CASE few = {}
  <2> HIDE DEF few
  <2> QED
    BY <1>1, <1>2, FS_EmptySet
<1>3. CASE few # {}
  <2>1. few \in SUBSET Nat
    OBVIOUS
  <2>2. Min(few) \in few /\ \A k \in few : Min(few) <= k
    <3> HIDE DEF few
    <3> QED
      BY <1>3, <2>1, MinExists
  <2> DEFINE least == Min(few)
             larger == {k \in ns : k > least}
  <2>3. Cardinality(larger) < size /\ least \in Nat
    BY <2>2
  <2>4. IsFiniteSet(larger) /\ Cardinality(larger) \in Nat
    BY FS_Subset, FS_CardinalityType
  <2>5. few \ {least} \in SUBSET larger
    <3>1. \A k \in few : k \in Nat /\ k >= least /\ k \in ns
      <4> HIDE DEF few
      <4> QED
        BY <2>1, <2>2 DEF few
    <3>2. \A k \in few \ {least} : k \in ns /\ k > least
      <4> HIDE DEF few, least
      <4> QED
        BY <2>3, <3>1
    <3> HIDE DEF few, least
    <3> QED
      BY <3>2
  <2>6. Cardinality(few \ {least}) <= Cardinality(larger)
    <3> HIDE DEF few, larger, least
    <3> QED
      BY <2>4, <2>5, FS_Subset
  <2>7. Cardinality(few \ {least}) = Cardinality(few) - 1
    <3> HIDE DEF few
    <3> QED
      BY <1>1, <2>2, FS_RemoveElement
  <2> QED
    <3> HIDE DEF few, larger, least
    <3> QED
      BY <1>1, <2>3, <2>4, <2>6, <2>7
<1> QED
  BY <1>2, <1>3

\* So it is with smaller ones, if the set is bounded.
LEMMA FewSmaller ==
    ASSUME NEW ns \in SUBSET Nat, NEW top \in Nat, \A n \in ns : n <= top, IsFiniteSet(ns),
           NEW size \in Nat
    PROVE  LET few == {n \in ns : Cardinality({k \in ns : k < n}) < size}
           IN  IsFiniteSet(few) /\ Cardinality(few) <= size
<1> DEFINE few == {n \in ns : Cardinality({k \in ns : k < n}) < size}
<1>1. IsFiniteSet(few) /\ Cardinality(few) \in Nat
  BY FS_Subset, FS_CardinalityType
<1> SUFFICES IsFiniteSet(few) /\ Cardinality(few) <= size
  OBVIOUS
<1>2. CASE few = {}
  <2> HIDE DEF few
  <2> QED
    BY <1>1, <1>2, FS_EmptySet
<1>3. CASE few # {}
  <2>1. few \in SUBSET Nat /\ \A n \in few : n <= top
    OBVIOUS
  <2> DEFINE last == Max(few)
             smaller == {k \in ns : k < last}
  <2>2. last \in few /\ \A k \in few : k <= last
    <3> HIDE DEF few
    <3> QED
      BY <1>3, <2>1, MaxExists
  <2>3. Cardinality(smaller) < size /\ last \in Nat
    BY <2>2
  <2>4. IsFiniteSet(smaller) /\ Cardinality(smaller) \in Nat
    BY FS_Subset, FS_CardinalityType
  <2>5. few \ {last} \in SUBSET smaller
    <3>1. \A k \in few : k \in Nat /\ k <= last /\ k \in ns
      <4> HIDE DEF few
      <4> QED
        BY <2>1, <2>2 DEF few
    <3>2. \A k \in few \ {last} : k \in ns /\ k < last
      <4> HIDE DEF few, last
      <4> QED
        BY <2>3, <3>1
    <3> HIDE DEF few, last
    <3> QED
      BY <3>2
  <2>6. Cardinality(few \ {last}) <= Cardinality(smaller)
    <3> HIDE DEF few, smaller, last
    <3> QED
      BY <2>4, <2>5, FS_Subset
  <2>7. Cardinality(few \ {last}) = Cardinality(few) - 1
    <3> HIDE DEF few
    <3> QED
      BY <1>1, <2>2, FS_RemoveElement
  <2> QED
    <3> HIDE DEF few, smaller, last
    <3> QED
      BY <1>1, <2>3, <2>4, <2>6, <2>7
<1> QED
  BY <1>2, <1>3

\* Of two and of three numbers there is a smallest one.
LEMMA MinOfTwo ==
    ASSUME NEW a \in Nat, NEW b \in Nat
    PROVE  Min({a, b}) \in {a, b} /\ Min({a, b}) <= a /\ Min({a, b}) <= b
  BY MinExists

LEMMA MinOfThree ==
    ASSUME NEW a \in Nat, NEW b \in Nat, NEW c \in Nat
    PROVE  Min({a, b, c}) \in {a, b, c} /\ Min({a, b, c}) <= a
  BY MinExists

LEMMA MaxOfTwo ==
    ASSUME NEW a \in Nat, NEW b \in Nat
    PROVE  Max({a, b}) \in {a, b} /\ Max({a, b}) >= a /\ Max({a, b}) >= b
<1>1. a + b \in Nat /\ \A n \in {a, b} : n <= a + b
  OBVIOUS
<1> QED
  BY <1>1, MaxExists

\* A finite set is listed by SetToSeq, each element once.
LEMMA SetToSeqLists ==
    ASSUME NEW S, IsFiniteSet(S)
    PROVE  /\ SetToSeq(S) \in Seq(S)
           /\ Len(SetToSeq(S)) = Cardinality(S) /\ Cardinality(S) \in Nat
           /\ IsInjective(SetToSeq(S))
           /\ ToSet(SetToSeq(S)) = S
<1>1. Cardinality(S) \in Nat /\ ExistsBijection(1 .. Cardinality(S), S)
  BY FS_CardinalityType
<1>2. \E f \in [1 .. Cardinality(S) -> S] : IsInjective(f)
  BY <1>1 DEF ExistsBijection, Bijection, Injection, IsInjective
<1>3. SetToSeq(S) \in [1 .. Cardinality(S) -> S] /\ IsInjective(SetToSeq(S))
  BY <1>2 DEF SetToSeq
<1> DEFINE f == SetToSeq(S)
           n == Cardinality(S)
<1>4. f \in Injection(1 .. n, S)
  BY <1>3 DEF Injection, IsInjective
<1>5. IsFiniteSet(1 .. n) /\ Cardinality(1 .. n) = n
  BY <1>1, FS_Interval
<1>6. f \in Surjection(1 .. n, S)
  <2> HIDE DEF f
  <2> QED
    BY <1>4, <1>5, FS_Injection
<1>7. ToSet(f) = S
  <2> HIDE DEF f
  <2> QED
    BY <1>3, <1>6 DEF Surjection, ToSet
<1>8. f \in Seq(S) /\ Len(f) = n
  <2>1. \A k \in Nat : \A g \in [1 .. k -> S] : g \in Seq(S) /\ Len(g) = k
    OBVIOUS
  <2> QED
    BY <1>1, <1>3, <2>1
<1> QED
  BY <1>1, <1>3, <1>7, <1>8

LEMMA SeqOfMore == ASSUME NEW S, NEW T, S \subseteq T, NEW s \in Seq(S) PROVE s \in Seq(T)
  OBVIOUS

LEMMA SeqElements == ASSUME NEW S, NEW s \in Seq(S) PROVE ToSet(s) \in SUBSET S
<1>1. \A i \in DOMAIN s : s[i] \in S
  OBVIOUS
<1> QED
  BY <1>1 DEF ToSet

\* A list without repetitions is extended by elements that it does not have.
LEMMA ExtendedInjective ==
    ASSUME NEW S, NEW s \in Seq(S), NEW t \in Seq(S), IsInjective(s), IsInjective(t),
           ToSet(s) \cap ToSet(t) = {}
    PROVE  /\ s \o t \in Seq(S) /\ Len(s \o t) = Len(s) + Len(t)
           /\ ToSet(s \o t) = ToSet(s) \cup ToSet(t)
           /\ IsInjective(s \o t)
<1> DEFINE st == s \o t
<1>1. /\ st \in Seq(S) /\ Len(st) = Len(s) + Len(t)
      /\ Len(s) \in Nat /\ Len(t) \in Nat
      /\ DOMAIN s = 1 .. Len(s) /\ DOMAIN t = 1 .. Len(t)
      /\ DOMAIN st = 1 .. Len(s) + Len(t)
  OBVIOUS
<1>2. \A i \in DOMAIN s : i \in DOMAIN st /\ st[i] = s[i]
  OBVIOUS
<1>3. \A i \in DOMAIN t : Len(s) + i \in DOMAIN st /\ st[Len(s) + i] = t[i]
  OBVIOUS
<1>4. \A i \in DOMAIN st : i \in DOMAIN s \/ \E j \in DOMAIN t : i = Len(s) + j
  <2> TAKE i \in DOMAIN st
  <2>1. CASE i <= Len(s)
    BY <1>1, <2>1
  <2>2. CASE ~(i <= Len(s))
    <3>1. i - Len(s) \in DOMAIN t /\ i = Len(s) + (i - Len(s))
      BY <1>1, <2>2
    <3> QED
      BY <3>1
  <2> QED
    BY <2>1, <2>2
<1> HIDE DEF st
<1>5. ASSUME NEW i \in DOMAIN s, NEW j \in DOMAIN t PROVE s[i] # t[j]
  BY DEF ToSet
<1>6. ToSet(st) = ToSet(s) \cup ToSet(t)
  BY <1>2, <1>3, <1>4 DEF ToSet
<1>7. IsInjective(st)
  <2> SUFFICES ASSUME NEW i \in DOMAIN st, NEW j \in DOMAIN st, st[i] = st[j] PROVE i = j
    BY DEF IsInjective
  <2>1. CASE i \in DOMAIN s /\ j \in DOMAIN s
    BY <1>2, <2>1 DEF IsInjective
  <2>2. CASE i \in DOMAIN s /\ j \notin DOMAIN s
    BY <1>2, <1>3, <1>4, <1>5, <2>2
  <2>3. CASE i \notin DOMAIN s /\ j \in DOMAIN s
    BY <1>2, <1>3, <1>4, <1>5, <2>3
  <2>4. CASE i \notin DOMAIN s /\ j \notin DOMAIN s
    BY <1>2, <1>3, <1>4, <2>4 DEF IsInjective
  <2> QED
    BY <2>1, <2>2, <2>3, <2>4
<1> QED
  BY <1>1, <1>6, <1>7 DEF st

-----------------------------------------------------------------------------
(* The paging.                                                             *)

Histories ==
    [state : {"off", "paging", "done", "failed"}, messages : Seq(1 .. MaxId),
     offset : 0 .. MaxId, size : 1 .. PageSize, start : 0 .. MaxId]

\* What was there when the paging began, and still is, has been fetched or is
\* at or below the offset; then everything fetched is above it. A channel whose
\* first message was fetched may be started anew, from an offset of 0.
Covered ==
    \/ \A m \in channel : m <= history.start => m \in ToSet(history.messages)
    \/ /\ \A m \in ToSet(history.messages) : m > history.offset
       /\ \A m \in channel :
             m <= history.start /\ m \notin ToSet(history.messages) => m <= history.offset

HistoryInv ==
    /\ HistoryTypeOK
    /\ history \in Histories
    /\ IsInjective(history.messages)
    /\ history.state \in {"off", "paging"} => Covered /\ Len(history.messages) < TotalLimit
    /\ HistoryIsNewest

\* get_chat_history: a page has as many messages as were asked for or all that
\* there are, and nothing newer was left out.
LEMMA PageIsNewest ==
    ASSUME HistoryTypeOK, NEW offset \in Nat, Asked \in Nat \ {0}
    PROVE  LET page == PageFrom(offset)
           IN  /\ page \subseteq channel /\ \A m \in page : m <= offset
               /\ IsFiniteSet(page) /\ Cardinality(page) \in 0 .. Asked
               /\ \A m \in channel, p \in page : m <= offset /\ m \notin page => m < p
               /\ Cardinality(page) < Asked => \A m \in channel : m <= offset => m \in page
<1> DEFINE below == {m \in channel : m <= offset}
           larger(m) == {k \in below : k > m}
           page == {m \in below : Cardinality(larger(m)) < Asked}
<1>1. PageFrom(offset) = page
  BY DEF PageFrom
<1>2. below \in SUBSET Nat /\ IsFiniteSet(below)
  <2>1. channel \subseteq 1 .. published /\ published \in Nat
    BY EitaaHistoryAssumption DEF HistoryTypeOK
  <2>2. IsFiniteSet(1 .. published)
    BY <2>1, FS_Interval
  <2> QED
    <3>1. below \in SUBSET (1 .. published)
      BY <2>1
    <3> QED
      BY <2>1, <2>2, <3>1, FS_Subset
<1>3. page \subseteq channel /\ \A m \in page : m <= offset
  OBVIOUS
<1>4. IsFiniteSet(page) /\ Cardinality(page) \in 0 .. Asked
  <2>1. IsFiniteSet(page) /\ Cardinality(page) <= Asked
    <3> HIDE DEF below
    <3> QED
      BY <1>2, FewLarger
  <2> HIDE DEF page
  <2> QED
    BY <2>1, FS_CardinalityType
<1>5. \A m \in below : IsFiniteSet(larger(m)) /\ Cardinality(larger(m)) \in Nat
  <2> HIDE DEF below
  <2> QED
    BY <1>2, FS_Subset, FS_CardinalityType
<1>6. ASSUME NEW m \in below, NEW p \in page, m \notin page
      PROVE  m < p
  <2> SUFFICES ASSUME ~(m < p) PROVE FALSE
    OBVIOUS
  <2>1. m \in Nat /\ p \in Nat /\ p \in below /\ p <= m
    BY <1>2
  <2>2. larger(m) \in SUBSET larger(p)
    BY <1>2, <2>1
  <2>3. Cardinality(larger(m)) <= Cardinality(larger(p))
    <3> HIDE DEF larger, below
    <3> QED
      BY <1>5, <2>1, <2>2, FS_Subset
  <2>4. Cardinality(larger(p)) < Asked /\ ~(Cardinality(larger(m)) < Asked)
    BY <1>6
  <2> HIDE DEF larger
  <2> QED
    BY <1>5, <2>1, <2>3, <2>4
<1>7. ASSUME Cardinality(page) < Asked, NEW m \in below
      PROVE  m \in page
  <2> DEFINE out == below \ page
  <2> SUFFICES ASSUME out # {} PROVE FALSE
    OBVIOUS
  <2>1. out \in SUBSET Nat /\ \A n \in out : n <= offset
    <3> HIDE DEF page
    <3> QED
      BY <1>2
  <2>2. Max(out) \in out /\ \A n \in out : n <= Max(out)
    <3> HIDE DEF out
    <3> QED
      BY <2>1, MaxExists
  <2>3. \A k \in larger(Max(out)) : k \notin out
    <3>1. Max(out) \in Nat
      BY <2>1, <2>2
    <3>2. ASSUME NEW k \in larger(Max(out)), k \in out
          PROVE  FALSE
      <4>1. k > Max(out) /\ k <= Max(out) /\ k \in Nat
        BY <2>1, <2>2, <3>2
      <4> QED
        BY <3>1, <4>1
    <3> QED
      BY <3>2
  <2>4. larger(Max(out)) \in SUBSET page
    <3> HIDE DEF page
    <3> QED
      BY <2>3
  <2>5. Cardinality(larger(Max(out))) <= Cardinality(page)
    <3> HIDE DEF page, larger
    <3> QED
      BY <1>4, <2>4, FS_Subset
  <2>6. Max(out) \in below /\ ~(Cardinality(larger(Max(out))) < Asked)
    <3> DEFINE x == Max(out)
    <3>1. x \in below /\ x \notin page
      <4> HIDE DEF page
      <4> QED
        BY <2>2
    <3> HIDE DEF x, larger, below
    <3>2. ~(Cardinality(larger(x)) < Asked)
      BY <3>1
    <3> QED
      BY <3>1, <3>2 DEF x
  <2> HIDE DEF page, larger, below, out
  <2> QED
    BY <1>4, <1>5, <1>7, <2>5, <2>6
<1> HIDE DEF page
<1> QED
  BY <1>1, <1>3, <1>4, <1>6, <1>7

\* A page has at least one message to ask for.
LEMMA AskedType ==
    ASSUME HistoryInv, history.state = "paging"
    PROVE  /\ Asked \in Nat \ {0}
           /\ Len(history.messages) \in Nat
           /\ Asked <= TotalLimit - Len(history.messages)
<1> DEFINE left == TotalLimit - Len(history.messages)
<1>1. history.size \in Nat \ {0}
  BY EitaaHistoryAssumption DEF HistoryInv, HistoryTypeOK
<1>2. history.messages \in Seq(1 .. MaxId) /\ Len(history.messages) < TotalLimit
  BY DEF HistoryInv, Histories
<1>3. left \in Nat \ {0} /\ Len(history.messages) \in Nat
  BY <1>2, EitaaHistoryAssumption
<1> HIDE DEF left
<1>4. Min({history.size, left}) \in {history.size, left} /\ Min({history.size, left}) <= left
  BY <1>1, <1>3, MinOfTwo
<1> QED
  BY <1>1, <1>3, <1>4 DEF Asked, left

\* The paging as it begins, or before it does.
PagingBegins ==
    /\ channel \subseteq 1 .. published /\ published \in Posted .. MaxId /\ deletes \in 0 .. MaxDeletes
    /\ \E state \in {"off", "paging"} : history = [FirstPage EXCEPT !.state = state]

LEMMA FirstPageOK == PagingBegins => HistoryInv
<1> SUFFICES ASSUME channel \subseteq 1 .. published, published \in Posted .. MaxId,
                    deletes \in 0 .. MaxDeletes, NEW state \in {"off", "paging"},
                    history = [FirstPage EXCEPT !.state = state]
             PROVE  HistoryInv
  BY DEF PagingBegins
<1>1. Min({PageSize, TotalLimit}) \in 1 .. PageSize
  <2>1. PageSize \in Nat \ {0} /\ TotalLimit \in Nat \ {0}
    BY EitaaHistoryAssumption
  <2> QED
    BY <2>1, MinOfTwo
<1>2. history = [state |-> state, messages |-> <<>>, offset |-> NoOffset,
                  size |-> Min({PageSize, TotalLimit}), start |-> published]
  BY DEF FirstPage
<1>3. HistoryTypeOK /\ (history \in Histories)
  <2>1. published \in 0 .. MaxId /\ MaxId \in Nat /\ TotalLimit \in Nat /\ Posted \in Nat
    BY EitaaHistoryAssumption
  <2>2. /\ history.state = state /\ history.messages = <<>> /\ history.offset = MaxId
        /\ history.size \in 1 .. PageSize /\ history.start = published
    BY <1>1, <1>2 DEF NoOffset
  <2>3. <<>> \in Seq(1 .. published) /\ <<>> \in Seq(1 .. MaxId) /\ Len(<<>>) = 0
    OBVIOUS
  <2>4. HistoryTypeOK
    <3>1. channel \subseteq 1 .. published /\ published \in Posted .. MaxId
          /\ deletes \in 0 .. MaxDeletes
      OBVIOUS
    <3>2. history.messages \in Seq(1 .. published) /\ Len(history.messages) <= TotalLimit
      <4>1. Len(history.messages) = 0
        BY <2>2, <2>3
      <4>2. history.messages \in Seq(1 .. published)
        BY <2>2, <2>3
      <4> QED
        BY <2>1, <4>1, <4>2
    <3>3. history.offset \in 0 .. MaxId /\ history.start \in Posted .. published
      BY <2>1, <2>2
    <3> QED
      BY <2>2, <3>1, <3>2, <3>3 DEF HistoryTypeOK
  <2>5. history \in Histories
    <3>1. ASSUME NEW size \in 1 .. PageSize, NEW start \in 0 .. MaxId
          PROVE  [state |-> state, messages |-> <<>>, offset |-> MaxId, size |-> size,
                  start |-> start] \in Histories
      BY <2>1 DEF Histories
    <3> QED
      BY <1>1, <1>2, <2>1, <3>1 DEF NoOffset
  <2> QED
    BY <2>4, <2>5 DEF Histories
<1>4. IsInjective(history.messages)
  BY <1>2 DEF IsInjective
<1>5. Covered /\ Len(history.messages) < TotalLimit
  <2>1. ToSet(history.messages) = {}
    BY <1>2 DEF ToSet
  <2>2. \A m \in channel : m <= history.offset
    BY <1>2, EitaaHistoryAssumption DEF NoOffset
  <2>3. Len(history.messages) = 0 /\ TotalLimit \in Nat \ {0}
    BY <1>2, EitaaHistoryAssumption
  <2> QED
    BY <2>1, <2>2, <2>3 DEF Covered
<1>6. HistoryIsNewest
  BY <1>2 DEF HistoryIsNewest
<1> QED
  BY <1>3, <1>4, <1>5, <1>6 DEF HistoryInv

LEMMA HistoryKept ==
    ASSUME HistoryInv, UNCHANGED <<channel, published, deletes, history>>
    PROVE  HistoryInv'
  BY DEF HistoryInv, HistoryTypeOK, Covered, HistoryIsNewest

\* What the seller posts is newer than where the paging began; what is deleted
\* need not be fetched.
LEMMA SellerKeepsHistory ==
    ASSUME HistoryInv, Posts \/ \E m \in channel : Deletes(m)
    PROVE  HistoryInv'
<1>1. history' = history /\ published <= published' /\ published' \in Posted .. MaxId
      /\ published \in Nat /\ deletes' \in 0 .. MaxDeletes /\ channel' \subseteq 1 .. published'
  <2>1. /\ channel \subseteq 1 .. published /\ published \in Posted .. MaxId
        /\ deletes \in 0 .. MaxDeletes /\ {Posted, MaxId, MaxDeletes} \subseteq Nat
    BY EitaaHistoryAssumption DEF HistoryInv, HistoryTypeOK
  <2>2. CASE Posts
    <3>1. 1 .. published \subseteq 1 .. published' /\ published' \in 1 .. published'
      BY <2>1, <2>2 DEF Posts
    <3> QED
      BY <2>1, <2>2, <3>1 DEF Posts
  <2>3. CASE \E m \in channel : Deletes(m)
    BY <2>1, <2>3 DEF Deletes
  <2> QED
    BY <2>2, <2>3
<1>2. \A m \in channel' : m <= history.start => m \in channel
  BY <1>1 DEF HistoryInv, HistoryTypeOK, Posts, Deletes
<1>3. HistoryTypeOK'
  <2>1. history.messages \in Seq(1 .. published') /\ history.start \in Posted .. published'
    BY <1>1, EitaaHistoryAssumption DEF HistoryInv, HistoryTypeOK
  <2> QED
    BY <1>1, <2>1 DEF HistoryInv, HistoryTypeOK
<1>4. Covered => Covered'
  BY <1>1, <1>2 DEF Covered
<1>5. HistoryIsNewest'
  BY <1>1, <1>2 DEF HistoryInv, HistoryIsNewest
<1> QED
  BY <1>1, <1>3, <1>4, <1>5 DEF HistoryInv

LEMMA PageFailsStep == ASSUME HistoryInv, PageFails PROVE HistoryInv'
<1>1. history.size \in 1 .. PageSize /\ {PageSize, SmallPage} \subseteq Nat \ {0}
  BY EitaaHistoryAssumption DEF HistoryInv, HistoryTypeOK
<1>2. PICK state \in {"failed", "paging"}, size \in 1 .. PageSize :
         history' = [history EXCEPT !.state = state, !.size = size]
  <2>1. CASE history.size <= SmallPage
    <3>1. history' = [history EXCEPT !.state = "failed", !.size = history.size]
      BY <2>1 DEF PageFails, HistoryInv, Histories
    <3> QED
      BY <1>1, <3>1
  <2>2. CASE ~(history.size <= SmallPage)
    <3> DEFINE half == history.size \div 2
               smaller == Max({SmallPage, half})
    <3>1. half \in 0 .. history.size
      BY <1>1
    <3>2. smaller \in {SmallPage, half} /\ smaller >= SmallPage
      <4> HIDE DEF half
      <4> QED
        BY <1>1, <3>1, MaxOfTwo
    <3>3. smaller \in 1 .. PageSize
      <4> HIDE DEF half, smaller
      <4> QED
        BY <1>1, <2>2, <3>1, <3>2
    <3>4. history' = [history EXCEPT !.state = "paging", !.size = smaller]
      BY <2>2 DEF PageFails, HistoryInv, Histories
    <3> HIDE DEF smaller
    <3> QED
      BY <3>3, <3>4
  <2> QED
    BY <2>1, <2>2
<1>3. /\ history' \in Histories /\ history'.state = state /\ history'.size = size
      /\ history'.messages = history.messages /\ history'.offset = history.offset
      /\ history'.start = history.start
      /\ channel' = channel /\ published' = published /\ deletes' = deletes
  BY <1>2 DEF HistoryInv, Histories, PageFails
<1>4. history.state = "paging"
  BY DEF PageFails
<1>5. HistoryTypeOK'
  BY <1>3 DEF HistoryInv, HistoryTypeOK
<1>6. Covered'
  BY <1>3, <1>4 DEF HistoryInv, Covered
<1>7. HistoryIsNewest'
  BY <1>3 DEF HistoryIsNewest
<1> QED
  BY <1>3, <1>4, <1>5, <1>6, <1>7 DEF HistoryInv

\* What is new on a page is added to what was fetched.
LEMMA PageAdds ==
    ASSUME HistoryInv, NEW page, PageArrives(page)
    PROVE  LET new == NewMessages(page)
               all == history.messages \o SetToSeq(new)
           IN  /\ new \subseteq channel /\ new \subseteq page
               /\ all \in Seq(1 .. published) /\ all \in Seq(1 .. MaxId)
               /\ IsInjective(all) /\ Len(all) <= TotalLimit
               /\ ToSet(all) = ToSet(history.messages) \cup new
               /\ new # {} => Min(new) \in new /\ \A m \in new : Min(new) <= m
<1> DEFINE new == NewMessages(page)
           all == history.messages \o SetToSeq(new)
<1>1. Asked \in Nat \ {0} /\ Len(history.messages) \in Nat
      /\ Asked <= TotalLimit - Len(history.messages)
  BY AskedType DEF PageArrives
<1>2. PICK offset \in Nat : page = PageFrom(offset)
  BY EitaaHistoryAssumption DEF PageArrives, Pages, HistoryInv, HistoryTypeOK, NoOffset
<1>3. page \subseteq channel /\ IsFiniteSet(page) /\ Cardinality(page) \in 0 .. Asked
  BY <1>1, <1>2, PageIsNewest DEF HistoryInv
<1>4. new \subseteq page /\ new \cap ToSet(history.messages) = {}
  BY DEF NewMessages
<1>5. IsFiniteSet(new) /\ Cardinality(new) \in 0 .. Asked
  <2> HIDE DEF new
  <2>1. IsFiniteSet(new) /\ Cardinality(new) <= Cardinality(page)
    BY <1>3, <1>4, FS_Subset
  <2> QED
    BY <1>1, <1>3, <2>1, FS_CardinalityType
<1>6. /\ history.messages \in Seq(1 .. published) /\ IsInjective(history.messages)
      /\ channel \subseteq 1 .. published /\ published \in 0 .. MaxId /\ MaxId \in Nat
  BY EitaaHistoryAssumption DEF HistoryInv, HistoryTypeOK
<1>7. /\ SetToSeq(new) \in Seq(new) /\ Len(SetToSeq(new)) = Cardinality(new)
      /\ IsInjective(SetToSeq(new)) /\ ToSet(SetToSeq(new)) = new
  BY <1>5, SetToSeqLists
<1>8. new \subseteq 1 .. published
  BY <1>3, <1>4, <1>6
<1> HIDE DEF new
<1>9. SetToSeq(new) \in Seq(1 .. published)
  BY <1>7, <1>8, SeqOfMore
<1>10. /\ all \in Seq(1 .. published) /\ Len(all) = Len(history.messages) + Cardinality(new)
       /\ ToSet(all) = ToSet(history.messages) \cup new /\ IsInjective(all)
  <2> DEFINE ids == 1 .. published
             t == SetToSeq(new)
  <2>1. /\ history.messages \in Seq(ids) /\ t \in Seq(ids) /\ IsInjective(t)
        /\ Len(t) = Cardinality(new) /\ ToSet(t) = new
        /\ ToSet(history.messages) \cap ToSet(t) = {}
    BY <1>4, <1>6, <1>7, <1>9
  <2> HIDE DEF ids, t
  <2>2. /\ history.messages \o t \in Seq(ids)
        /\ Len(history.messages \o t) = Len(history.messages) + Len(t)
        /\ ToSet(history.messages \o t) = ToSet(history.messages) \cup ToSet(t)
        /\ IsInjective(history.messages \o t)
    BY <1>6, <2>1, ExtendedInjective
  <2> QED
    BY <2>1, <2>2 DEF ids, t
<1> HIDE DEF all
<1>11. all \in Seq(1 .. MaxId)
  <2>1. 1 .. published \subseteq 1 .. MaxId
    BY <1>6
  <2> QED
    BY <1>10, <2>1, SeqOfMore
<1>12. Len(all) <= TotalLimit
  <2>1. TotalLimit \in Nat
    BY EitaaHistoryAssumption
  <2> QED
    BY <1>1, <1>5, <1>10, <2>1
<1>13. new # {} => Min(new) \in new /\ \A m \in new : Min(new) <= m
  <2>1. new \in SUBSET Nat
    BY <1>6, <1>8
  <2> QED
    BY <2>1, MinExists
<1> QED
  BY <1>3, <1>4, <1>10, <1>11, <1>12, <1>13 DEF new, all

\* What is not fetched with a page, and was there when the paging began, is
\* older than the page and all that was fetched before; and the page is full.
LEMMA LeftOutIsOlder ==
    ASSUME HistoryInv, NEW page, PageArrives(page), NEW m \in channel, m <= history.start,
           m \notin ToSet(history.messages), m \notin NewMessages(page)
    PROVE  /\ \A k \in ToSet(history.messages) \cup page : m < k
           /\ \A p \in page, k \in ToSet(history.messages) : p < k
           /\ ~(Cardinality(page) < Asked)
           /\ NewMessages(page) # {}
<1>1. Asked \in Nat \ {0}
  BY AskedType DEF PageArrives
<1>2. /\ channel \subseteq 1 .. published /\ published \in Nat
      /\ history.offset \in Nat /\ ToSet(history.messages) \subseteq Nat
  <2>1. history.messages \in Seq(1 .. published) /\ published \in Posted .. MaxId
        /\ channel \subseteq 1 .. published /\ history.offset \in 0 .. MaxId
    BY DEF HistoryInv, HistoryTypeOK
  <2>2. published \in Nat /\ history.offset \in Nat
    BY <2>1, EitaaHistoryAssumption
  <2> QED
    BY <2>1, <2>2 DEF ToSet
<1>3. /\ \A k \in ToSet(history.messages) : k > history.offset
      /\ m <= history.offset
  BY DEF HistoryInv, PageArrives, Covered
<1>4. page = PageFrom(history.offset)
  <2>1. history.offset # 0
    BY <1>2, <1>3
  <2> QED
    BY <2>1 DEF PageArrives, Pages
<1>5. m \notin page
  BY DEF NewMessages
<1>6. /\ page \subseteq channel /\ \A p \in page : p <= history.offset
      /\ \A p \in page : m < p
      /\ ~(Cardinality(page) < Asked)
  BY <1>1, <1>2, <1>3, <1>4, <1>5, PageIsNewest DEF HistoryInv
<1>7. \A p \in page, k \in ToSet(history.messages) : p < k
  <2> TAKE p \in page, k \in ToSet(history.messages)
  <2>1. p \in Nat /\ k \in Nat /\ p <= history.offset /\ k > history.offset
    BY <1>2, <1>3, <1>6
  <2> QED
    BY <1>2, <2>1
<1>8. \A k \in ToSet(history.messages) : m < k
  <2> TAKE k \in ToSet(history.messages)
  <2>1. m \in Nat /\ k \in Nat /\ m <= history.offset /\ k > history.offset
    BY <1>2, <1>3
  <2> QED
    BY <1>2, <2>1
<1>9. NewMessages(page) # {}
  <2> SUFFICES ASSUME NewMessages(page) = {} PROVE FALSE
    OBVIOUS
  <2>1. page \subseteq ToSet(history.messages)
    BY DEF NewMessages
  <2>2. \A p \in page : p < p /\ p \in Nat
    BY <1>2, <1>6, <1>7, <2>1
  <2>3. page = {}
    BY <2>2
  <2> QED
    BY <1>1, <1>6, <2>3, FS_EmptySet
<1> QED
  BY <1>6, <1>7, <1>8, <1>9

LEMMA PageArrivesStep == ASSUME HistoryInv, NEW page, PageArrives(page) PROVE HistoryInv'
<1> DEFINE new == NewMessages(page)
           all == history.messages \o SetToSeq(new)
           offset == IF new = {} THEN history.offset ELSE NextOffset(new)
           size == Min({PageSize, TotalLimit, history.size + SmallPage})
           ends == new = {} \/ Cardinality(page) < Asked \/ Len(all) >= TotalLimit
           state == IF ends THEN "done" ELSE "paging"
<1>1. /\ new \subseteq channel /\ new \subseteq page
      /\ all \in Seq(1 .. published) /\ all \in Seq(1 .. MaxId)
      /\ IsInjective(all) /\ Len(all) <= TotalLimit
      /\ ToSet(all) = ToSet(history.messages) \cup new
      /\ new # {} => Min(new) \in new /\ \A m \in new : Min(new) <= m
  BY PageAdds
<1>2. /\ history \in Histories /\ history.state = "paging"
      /\ channel \subseteq 1 .. published /\ published \in 0 .. MaxId
      /\ MaxId \in Nat /\ TotalLimit \in Nat \ {0} /\ PageSize \in Nat \ {0}
      /\ SmallPage \in Nat \ {0} /\ Posted \in Nat
  BY EitaaHistoryAssumption DEF HistoryInv, HistoryTypeOK, PageArrives
<1>3. offset \in 0 .. MaxId
  <2>1. CASE new = {}
    BY <1>2, <2>1 DEF Histories
  <2>2. CASE new # {}
    <3>1. Min(new) \in 1 .. published
      BY <1>1, <1>2, <2>2
    <3>2. NextOffset(new) = Min(new) - 1
      BY DEF NextOffset
    <3> HIDE DEF new
    <3> QED
      BY <1>2, <2>2, <3>1, <3>2
  <2> QED
    BY <2>1, <2>2
<1>4. size \in 1 .. PageSize
  <2>1. history.size \in 1 .. PageSize
    BY <1>2 DEF Histories
  <2>2. history.size + SmallPage \in Nat /\ history.size + SmallPage > 0
    BY <1>2, <2>1
  <2>3. size \in {PageSize, TotalLimit, history.size + SmallPage} /\ size <= PageSize
    BY <1>2, <2>2, MinOfThree
  <2> HIDE DEF size
  <2> QED
    BY <1>2, <2>2, <2>3
<1>5. history' = [history EXCEPT !.messages = all, !.offset = offset, !.size = size,
                                 !.state = IF ends THEN "done" ELSE @]
  BY DEF PageArrives
<1>5a. channel' = channel /\ published' = published /\ deletes' = deletes
  BY DEF PageArrives
<1> HIDE DEF new, all, offset, size, ends
<1>6. /\ history' \in Histories
      /\ history'.messages = all /\ history'.offset = offset /\ history'.size = size
      /\ history'.state = state /\ history'.start = history.start
  BY <1>1, <1>2, <1>3, <1>4, <1>5 DEF Histories
<1>6a. ToSet(history.messages)' = ToSet(all)
  BY <1>6 DEF ToSet
<1>7. HistoryTypeOK'
  BY <1>1, <1>2, <1>3, <1>4, <1>5a, <1>6 DEF HistoryInv, HistoryTypeOK
<1>8. ASSUME NEW m \in channel, m <= history.start, m \notin ToSet(all)
      PROVE  /\ \A k \in ToSet(all) : m < k
             /\ new # {} /\ ~(Cardinality(page) < Asked)
             /\ \A k \in ToSet(history.messages), p \in new : p < k
  <2>1. m \notin ToSet(history.messages) /\ m \notin NewMessages(page)
    BY <1>1, <1>8 DEF new
  <2> QED
    BY <1>1, <1>8, <2>1, LeftOutIsOlder DEF new
<1>9. ToSet(all) \subseteq Nat
  BY <1>1, <1>2 DEF ToSet
<1>10. history'.state = "paging" => Covered' /\ Len(history'.messages) < TotalLimit
  <2> SUFFICES ASSUME history'.state = "paging" PROVE Covered' /\ Len(all) < TotalLimit
    BY <1>6
  <2>1. ~ends
    BY <1>6
  <2>2. Len(all) < TotalLimit
    BY <1>1, <1>2, <2>1 DEF ends
  <2>3. new # {} /\ offset = Min(new) - 1 /\ Min(new) \in Nat
    BY <1>1, <1>9, <2>1 DEF ends, offset, NextOffset
  <2>4. CASE \A m \in channel : m <= history.start => m \in ToSet(all)
    BY <1>5a, <1>6a, <1>6, <2>2, <2>4 DEF Covered
  <2>5. CASE \E m \in channel : m <= history.start /\ m \notin ToSet(all)
    <3>1. \A k \in ToSet(all) : k > offset
      <4> SUFFICES ASSUME NEW k \in ToSet(all) PROVE Min(new) <= k
        BY <1>9, <2>3
      <4>1. CASE k \in new
        BY <1>1, <4>1
      <4>2. CASE k \in ToSet(history.messages)
        <5>1. Min(new) < k
          BY <1>1, <1>8, <2>3, <2>5, <4>2
        <5> QED
          BY <1>9, <2>3, <5>1
      <4> QED
        BY <1>1, <4>1, <4>2
    <3>2. ASSUME NEW m \in channel, m <= history.start, m \notin ToSet(all)
          PROVE  m <= offset
      <4>1. m < Min(new) /\ m \in Nat
        BY <1>1, <1>2, <1>8, <2>3, <3>2
      <4> QED
        BY <2>3, <4>1
    <3> QED
      BY <1>5a, <1>6a, <1>6, <2>2, <3>1, <3>2 DEF Covered
  <2> QED
    BY <2>2, <2>4, <2>5
<1>11. HistoryIsNewest'
  <2> SUFFICES ASSUME history'.state = "done", NEW m \in channel, m <= history.start,
                      m \notin ToSet(all)
               PROVE  Len(all) = TotalLimit /\ m < Min(ToSet(all))
    BY <1>1, <1>5a, <1>6 DEF HistoryIsNewest
  <2>1. Len(all) >= TotalLimit
    BY <1>6, <1>8 DEF ends
  <2>2. Len(all) \in Nat
    BY <1>1
  <2>3. Min(ToSet(all)) \in ToSet(all)
    <3>1. ToSet(all) # {}
      BY <1>1, <1>8
    <3> QED
      BY <1>9, <3>1, MinExists
  <2> QED
    BY <1>1, <1>2, <1>8, <2>1, <2>2, <2>3
<1> QED
  BY <1>1, <1>6, <1>7, <1>10, <1>11 DEF HistoryInv

-----------------------------------------------------------------------------
(* The reading of products.                                                *)

Drafts == [message : 1 .. MaxId, name : Queries, photos : SUBSET (1 .. MaxId)]

\* A photo that was posted with the product, or belongs to it nevertheless.
Belongs(messages, photo, draft) ==
    photo # draft.message =>
        /\ photo < draft.message /\ draft.message - photo <= Near
        /\ \A k \in messages : photo <= k /\ k < draft.message => ~Content[k].text

\* What is known after the messages from m up were read: unless there are
\* enough products, no text came after the product that takes further photos.
ReadOK(messages, m, read) ==
    /\ read \in [drafts : Seq(Drafts), at : Nat]
    /\ Len(read.drafts) <= MaxProducts
    /\ read.at <= Len(read.drafts)
    /\ \A i \in 1 .. Len(read.drafts) :
          /\ read.drafts[i].message >= m
          /\ \A p \in read.drafts[i].photos : p >= m /\ Belongs(messages, p, read.drafts[i])
    /\ read.at # 0 /\ Len(read.drafts) < MaxProducts =>
          \A k \in messages : m <= k /\ k < read.drafts[read.at].message => ~Content[k].text

\* A message that is not there changes nothing; neither does one that is read
\* when there are enough products, or that has neither products nor text.
LEMMA ReadNothingNew ==
    ASSUME NEW messages \in SUBSET (1 .. MaxId), NEW m \in 1 .. MaxId, NEW read,
           ReadOK(messages, m + 1, read),
           m \in messages => Len(read.drafts) >= MaxProducts \/ ~Content[m].text
    PROVE  ReadOK(messages, m, read)
<1>1. /\ read \in [drafts : Seq(Drafts), at : Nat] /\ Len(read.drafts) \in Nat
      /\ \A i \in 1 .. Len(read.drafts) : read.drafts[i] \in Drafts
      /\ MaxId \in Nat /\ m \in Nat /\ MaxProducts \in Nat
  BY EitaaHistoryAssumption DEF ReadOK
<1>2. ASSUME NEW i \in 1 .. Len(read.drafts)
      PROVE  /\ read.drafts[i].message >= m
             /\ \A p \in read.drafts[i].photos : p >= m /\ Belongs(messages, p, read.drafts[i])
  <2>1. read.drafts[i].message \in Nat /\ \A p \in read.drafts[i].photos : p \in Nat
    BY <1>1 DEF Drafts
  <2>2. read.drafts[i].message >= m + 1
        /\ \A p \in read.drafts[i].photos : p >= m + 1 /\ Belongs(messages, p, read.drafts[i])
    BY DEF ReadOK
  <2> QED
    BY <1>1, <2>1, <2>2
<1>3. ASSUME read.at # 0, Len(read.drafts) < MaxProducts,
             NEW k \in messages, m <= k, k < read.drafts[read.at].message
      PROVE  ~Content[k].text
  <2>1. CASE k = m
    BY <1>1, <1>3, <2>1
  <2>2. CASE k # m
    <3>1. m + 1 <= k
      BY <1>1, <1>3, <2>2
    <3> QED
      BY <1>3, <3>1 DEF ReadOK
  <2> QED
    BY <2>1, <2>2
<1> QED
  BY <1>1, <1>2, <1>3 DEF ReadOK

\* An element of two lists behind each other is one of the first or the second.
LEMMA ConcatElements ==
    ASSUME NEW S, NEW s \in Seq(S), NEW t \in Seq(S)
    PROVE  /\ s \o t \in Seq(S) /\ Len(s \o t) = Len(s) + Len(t)
           /\ \A i \in 1 .. Len(s) : (s \o t)[i] = s[i]
           /\ \A i \in 1 .. Len(t) : (s \o t)[Len(s) + i] = t[i]
           /\ \A i \in 1 .. Len(s \o t) :
                 \/ i \in 1 .. Len(s) /\ (s \o t)[i] = s[i]
                 \/ \E j \in 1 .. Len(t) : (s \o t)[i] = t[j]
<1>1. s \o t \in Seq(S) /\ Len(s \o t) = Len(s) + Len(t) /\ Len(s) \in Nat /\ Len(t) \in Nat
  OBVIOUS
<1>2. \A i \in 1 .. Len(s) : (s \o t)[i] = s[i]
  OBVIOUS
<1>3. \A i \in 1 .. Len(t) : (s \o t)[Len(s) + i] = t[i]
  OBVIOUS
<1>4. ASSUME NEW i \in 1 .. Len(s \o t), i \notin 1 .. Len(s)
      PROVE  \E j \in 1 .. Len(t) : (s \o t)[i] = t[j]
  <2>1. i - Len(s) \in 1 .. Len(t) /\ Len(s) + (i - Len(s)) = i
    BY <1>1, <1>4
  <2> QED
    BY <1>3, <2>1
<1> QED
  BY <1>1, <1>2, <1>3, <1>4

\* A message with products: as many as there is room for, each with the photo of
\* the message if it is the only one.
LEMMA ReadProducts ==
    ASSUME NEW messages \in SUBSET (1 .. MaxId), NEW m \in messages, NEW read,
           ReadOK(messages, m + 1, read), Len(read.drafts) < MaxProducts, Content[m].names # <<>>
    PROVE  ReadOK(messages, m, TakesProducts(read, m))
<1> DEFINE names == Content[m].names
           own == IF Content[m].photo /\ Len(names) = 1 THEN {m} ELSE {}
           drafts == [i \in DOMAIN names |-> [message |-> m, name |-> names[i], photos |-> own]]
           room == MaxProducts - Len(read.drafts)
           n == Min({room, Len(drafts)})
           taken == SubSeq(drafts, 1, n)
           new == TakesProducts(read, m)
<1>1. /\ read.drafts \in Seq(Drafts) /\ Len(read.drafts) \in Nat
      /\ \A i \in 1 .. Len(read.drafts) : read.drafts[i] \in Drafts
      /\ MaxId \in Nat /\ m \in 1 .. MaxId /\ MaxProducts \in Nat
  <2>1. read \in [drafts : Seq(Drafts), at : Nat]
    BY DEF ReadOK
  <2>2. MaxId \in Nat /\ MaxProducts \in Nat
    BY EitaaHistoryAssumption
  <2> QED
    BY <2>1, <2>2
<1>2. names \in Seq(Queries) /\ names # <<>>
  BY EitaaHistoryAssumption
<1>3. own \in SUBSET {m}
  OBVIOUS
<1> HIDE DEF names, own
<1>4. Len(names) \in Nat \ {0} /\ DOMAIN names = 1 .. Len(names)
      /\ \A i \in 1 .. Len(names) : names[i] \in Queries
  BY <1>2
<1>5. \A i \in DOMAIN names : [message |-> m, name |-> names[i], photos |-> own] \in Drafts
  BY <1>1, <1>3, <1>4 DEF Drafts
<1>6. drafts \in Seq(Drafts) /\ Len(drafts) = Len(names)
      /\ \A i \in 1 .. Len(drafts) : drafts[i].message = m /\ drafts[i].photos = own
  BY <1>4, <1>5
<1>7. new = [drafts |-> read.drafts \o taken,
             at |-> IF Len(names) = 1 THEN Len(read.drafts) + 1 ELSE 0]
  BY DEF TakesProducts, names, own
<1> HIDE DEF drafts, new
<1>8. room \in Nat \ {0} /\ n \in 1 .. Len(drafts) /\ n <= room /\ (Len(drafts) = 1 => n = 1)
  <2>1. room \in Nat \ {0} /\ Len(drafts) \in Nat \ {0}
    BY <1>1, <1>4, <1>6
  <2>2. n \in {room, Len(drafts)} /\ n <= room /\ n <= Len(drafts)
    <3> HIDE DEF room
    <3> QED
      BY <2>1, MinOfTwo
  <2> HIDE DEF room, n
  <2>3. n \in Nat \ {0} /\ n \in 1 .. Len(drafts) /\ n <= room
    BY <2>1, <2>2
  <2>4. Len(drafts) = 1 => n = 1
    BY <2>2, <2>3
  <2> QED
    BY <2>1, <2>3, <2>4
<1> HIDE DEF n, room
<1>9. /\ taken \in Seq(Drafts) /\ Len(taken) = n
      /\ \A i \in 1 .. n : taken[i] = drafts[i]
  BY <1>6, <1>8
<1> HIDE DEF taken
<1>10. \A i \in 1 .. Len(taken) : taken[i].message = m /\ taken[i].photos = own
  BY <1>6, <1>8, <1>9
<1> DEFINE old == read.drafts
           all == old \o taken
<1>11. /\ all \in Seq(Drafts) /\ Len(all) = Len(old) + n
       /\ \A i \in 1 .. n : all[Len(old) + i] = taken[i]
       /\ \A i \in 1 .. Len(all) :
             \/ i \in 1 .. Len(old) /\ all[i] = old[i]
             \/ \E j \in 1 .. n : all[i] = taken[j]
  <2>1. old \in Seq(Drafts) /\ taken \in Seq(Drafts)
    BY <1>1, <1>9
  <2> HIDE DEF old, all
  <2>2. old \o taken \in Seq(Drafts) /\ Len(old \o taken) = Len(old) + Len(taken)
    BY <2>1
  <2>3. \A i \in 1 .. Len(taken) : (old \o taken)[Len(old) + i] = taken[i]
    BY <2>1, ConcatElements
  <2>4. \A i \in 1 .. Len(old \o taken) :
           \/ i \in 1 .. Len(old) /\ (old \o taken)[i] = old[i]
           \/ \E j \in 1 .. Len(taken) : (old \o taken)[i] = taken[j]
    BY <2>1, ConcatElements
  <2> QED
    BY <1>9, <2>2, <2>3, <2>4 DEF all
<1> HIDE DEF all
<1>12. new.drafts = all /\ new.at = (IF Len(names) = 1 THEN Len(read.drafts) + 1 ELSE 0)
  BY <1>7 DEF all, old
<1>13. new \in [drafts : Seq(Drafts), at : Nat]
  BY <1>1, <1>7, <1>11 DEF all, old
<1>14. Len(all) <= MaxProducts /\ new.at <= Len(all)
  BY <1>1, <1>6, <1>8, <1>11, <1>12 DEF room
<1>15. ASSUME NEW i \in 1 .. Len(all)
       PROVE  all[i].message >= m /\ \A p \in all[i].photos : p >= m /\ Belongs(messages, p, all[i])
  <2>1. CASE i \in 1 .. Len(read.drafts) /\ all[i] = read.drafts[i]
    <3>1. all[i].message >= m + 1
          /\ \A p \in all[i].photos : p >= m + 1 /\ Belongs(messages, p, all[i])
      BY <2>1 DEF ReadOK
    <3>2. all[i].message \in Nat /\ \A p \in all[i].photos : p \in Nat
      BY <1>1, <2>1 DEF Drafts
    <3> QED
      BY <1>1, <3>1, <3>2
  <2>2. CASE \E j \in 1 .. n : all[i] = taken[j]
    <3>1. all[i].message = m /\ all[i].photos \subseteq {m}
      BY <1>3, <1>9, <1>10, <2>2
    <3> QED
      BY <1>1, <3>1 DEF Belongs
  <2> QED
    BY <1>11, <2>1, <2>2
<1>16. new.at # 0 => all[new.at].message = m
  BY <1>1, <1>6, <1>8, <1>9, <1>10, <1>11, <1>12
<1>17. new.at # 0 => \A k \in messages : m <= k /\ k < all[new.at].message => ~Content[k].text
  BY <1>1, <1>16
<1> QED
  BY <1>12, <1>13, <1>14, <1>15, <1>17 DEF ReadOK, new

\* A text without a product ends the one before.
LEMMA ReadEnd ==
    ASSUME NEW messages \in SUBSET (1 .. MaxId), NEW m \in 1 .. MaxId, NEW read,
           ReadOK(messages, m + 1, read)
    PROVE  ReadOK(messages, m, [read EXCEPT !.at = 0])
<1>1. /\ read \in [drafts : Seq(Drafts), at : Nat] /\ Len(read.drafts) \in Nat
      /\ \A i \in 1 .. Len(read.drafts) : read.drafts[i] \in Drafts
      /\ MaxId \in Nat /\ m \in Nat
  BY EitaaHistoryAssumption DEF ReadOK
<1> DEFINE new == [read EXCEPT !.at = 0]
<1>2. new \in [drafts : Seq(Drafts), at : Nat] /\ new.drafts = read.drafts /\ new.at = 0
  BY <1>1
<1> HIDE DEF new
<1>3. ASSUME NEW i \in 1 .. Len(read.drafts)
      PROVE  /\ read.drafts[i].message >= m
             /\ \A p \in read.drafts[i].photos : p >= m /\ Belongs(messages, p, read.drafts[i])
  <2>1. read.drafts[i].message \in Nat /\ \A p \in read.drafts[i].photos : p \in Nat
    BY <1>1 DEF Drafts
  <2>2. read.drafts[i].message >= m + 1
        /\ \A p \in read.drafts[i].photos : p >= m + 1 /\ Belongs(messages, p, read.drafts[i])
    BY DEF ReadOK
  <2> QED
    BY <1>1, <2>1, <2>2
<1>4. Len(new.drafts) <= MaxProducts /\ new.at <= Len(new.drafts)
  BY <1>1, <1>2 DEF ReadOK
<1> QED
  BY <1>2, <1>3, <1>4 DEF ReadOK, new

\* A photo without text goes to the product that still takes photos, if there is
\* one and it is near enough.
LEMMA ReadPhoto ==
    ASSUME NEW messages \in SUBSET (1 .. MaxId), NEW m \in messages, NEW read,
           ReadOK(messages, m + 1, read), Len(read.drafts) < MaxProducts,
           HasLoosePhoto(m), read.at # 0, IsNear(m, read.drafts[read.at])
    PROVE  ReadOK(messages, m, TakesPhoto(read, m))
<1> DEFINE old == read.drafts
           at == read.at
           draft == [old[at] EXCEPT !.photos = @ \cup {m}]
           all == [old EXCEPT ![at] = draft]
           new == TakesPhoto(read, m)
<1>1. /\ read \in [drafts : Seq(Drafts), at : Nat] /\ old \in Seq(Drafts) /\ Len(old) \in Nat
      /\ \A i \in 1 .. Len(old) : old[i] \in Drafts
      /\ at \in 1 .. Len(old)
      /\ MaxId \in Nat /\ m \in 1 .. MaxId
  BY EitaaHistoryAssumption DEF ReadOK
<1>2. draft \in Drafts /\ draft.message = old[at].message /\ draft.photos = old[at].photos \cup {m}
  <2>1. old[at] \in Drafts
    BY <1>1
  <2> HIDE DEF old, at
  <2> QED
    BY <1>1, <2>1 DEF Drafts
<1>3. new = [read EXCEPT !.drafts = all]
  BY <1>1 DEF TakesPhoto
<1> HIDE DEF draft
<1>4. all \in Seq(Drafts) /\ Len(all) = Len(old)
      /\ \A i \in 1 .. Len(old) : all[i] = IF i = at THEN draft ELSE old[i]
  <2> HIDE DEF old, at
  <2> QED
    BY <1>1, <1>2
<1>5. new \in [drafts : Seq(Drafts), at : Nat] /\ new.drafts = all /\ new.at = at
  BY <1>1, <1>3, <1>4
<1> HIDE DEF all, new
<1>6. /\ m < old[at].message /\ old[at].message - m <= Near
      /\ \A k \in messages : m <= k /\ k < old[at].message => ~Content[k].text
  <2>1. old[at].message >= m + 1 /\ old[at].message \in Nat
    BY <1>1 DEF ReadOK, Drafts
  <2>2. \A k \in messages : m + 1 <= k /\ k < old[at].message => ~Content[k].text
    BY DEF ReadOK
  <2>3. old[at].message - m <= Near
    BY DEF IsNear
  <2>4. ~Content[m].text
    BY DEF HasLoosePhoto
  <2>5. \A k \in messages : k \in Nat
    BY <1>1
  <2> HIDE DEF old, at
  <2> QED
    BY <1>1, <2>1, <2>2, <2>3, <2>4, <2>5
<1>7. ASSUME NEW i \in 1 .. Len(old)
      PROVE  all[i].message >= m /\ \A p \in all[i].photos : p >= m /\ Belongs(messages, p, all[i])
  <2>1. /\ old[i].message >= m + 1
        /\ \A p \in old[i].photos : p >= m + 1 /\ Belongs(messages, p, old[i])
    BY DEF ReadOK
  <2>2. old[i].message \in Nat /\ \A p \in old[i].photos : p \in Nat
    BY <1>1 DEF Drafts
  <2>3. old[i].message >= m /\ \A p \in old[i].photos : p >= m /\ Belongs(messages, p, old[i])
    BY <1>1, <2>1, <2>2
  <2>4. CASE i # at
    BY <1>4, <2>3, <2>4
  <2>5. CASE i = at
    <3>1. all[i] = draft
      BY <1>4, <2>5
    <3>2. \A p \in old[i].photos : Belongs(messages, p, draft)
      BY <1>2, <2>3, <2>5 DEF Belongs
    <3>3. Belongs(messages, m, draft)
      BY <1>2, <1>6 DEF Belongs
    <3> HIDE DEF old, at
    <3> QED
      BY <1>1, <1>2, <2>3, <2>5, <3>1, <3>2, <3>3
  <2> QED
    BY <2>4, <2>5
<1>8. all[at].message = old[at].message
  BY <1>1, <1>2, <1>4
<1>9. Len(all) <= MaxProducts /\ at <= Len(all)
  BY <1>1, <1>4 DEF ReadOK
<1> QED
  BY <1>4, <1>5, <1>6, <1>7, <1>8, <1>9 DEF ReadOK, new

\* extract_products, one message.
LEMMA ReadsStep ==
    ASSUME NEW messages \in SUBSET (1 .. MaxId), NEW m \in messages, NEW read,
           ReadOK(messages, m + 1, read)
    PROVE  ReadOK(messages, m, Reads(read, m))
<1>1. m \in 1 .. MaxId /\ Len(read.drafts) \in Nat /\ MaxProducts \in Nat
  BY EitaaHistoryAssumption DEF ReadOK
<1>2. CASE Len(read.drafts) >= MaxProducts
  BY <1>1, <1>2, ReadNothingNew DEF Reads
<1>3. CASE Len(read.drafts) < MaxProducts /\ Content[m].names # <<>>
  <2>1. Reads(read, m) = TakesProducts(read, m)
    <3>1. Content[m].text
      BY <1>1, <1>3, EitaaHistoryAssumption
    <3> QED
      BY <1>1, <1>3, <3>1 DEF Reads, EndsProduct, HasLoosePhoto
  <2> QED
    BY <1>3, <2>1, ReadProducts
<1>4. CASE Len(read.drafts) < MaxProducts /\ EndsProduct(m)
  <2>1. Reads(read, m) = [read EXCEPT !.at = 0]
    BY <1>1, <1>4 DEF Reads, EndsProduct, HasLoosePhoto
  <2> QED
    BY <1>1, <2>1, ReadEnd
<1>5. CASE Len(read.drafts) < MaxProducts /\ Content[m].names = <<>> /\ ~Content[m].text
  <2>1. CASE HasLoosePhoto(m) /\ read.at # 0 /\ IsNear(m, read.drafts[read.at])
    <3>1. Reads(read, m) = TakesPhoto(read, m)
      BY <1>1, <1>5, <2>1 DEF Reads, EndsProduct
    <3> QED
      BY <1>5, <2>1, <3>1, ReadPhoto
  <2>2. CASE ~(HasLoosePhoto(m) /\ read.at # 0 /\ IsNear(m, read.drafts[read.at]))
    <3>1. Reads(read, m) = read
      BY <1>1, <1>5, <2>2 DEF Reads, EndsProduct
    <3> QED
      BY <1>1, <1>5, <3>1, ReadNothingNew
  <2> QED
    BY <2>1, <2>2
<1> QED
  BY <1>1, <1>2, <1>3, <1>4, <1>5 DEF EndsProduct

\* The recursion of the reading, from one message to the next older one.
ReadBody(messages, read, m) ==
    IF m = MaxId + 1 THEN NothingRead
    ELSE IF m \in messages THEN Reads(read[m + 1], m) ELSE read[m + 1]

ReadFrom(messages, lo, read) == read = [m \in lo .. MaxId + 1 |-> ReadBody(messages, read, m)]

\* It is defined: down to the newest message there is nothing to define, and a
\* reading down to one message is continued by the next.
LEMMA ReadDownToDefined ==
    ASSUME NEW messages \in SUBSET (1 .. MaxId)
    PROVE  ReadFrom(messages, 1, ReadDownTo(messages))
<1>1. MaxId \in Nat
  BY EitaaHistoryAssumption
<1> DEFINE Continues(lo) == \E g : ReadFrom(messages, lo, g)
           bad == {lo \in 1 .. MaxId + 1 : ~Continues(lo)}
           last == Max(bad)
<1>2. bad = {}
  <2> SUFFICES ASSUME bad # {} PROVE FALSE
    OBVIOUS
  <2>1. bad \in SUBSET Nat /\ \A lo \in bad : lo <= MaxId + 1
    BY <1>1
  <2>2. last \in bad /\ \A lo \in bad : lo <= last
    <3> HIDE DEF bad
    <3>1. MaxId + 1 \in Nat
      BY <1>1
    <3> QED
      BY <2>1, <3>1, MaxExists
  <2>3. last \in 1 .. MaxId + 1 /\ ~Continues(last)
    BY <2>2
  <2> HIDE DEF last
  <2>4. CASE last = MaxId + 1
    <3> DEFINE g == [m \in last .. MaxId + 1 |-> NothingRead]
    <3>1. \A m \in last .. MaxId + 1 : m = MaxId + 1
      BY <1>1, <2>4
    <3>2. g = [m \in last .. MaxId + 1 |-> ReadBody(messages, g, m)]
      <4> HIDE DEF g
      <4>1. \A m \in last .. MaxId + 1 : ReadBody(messages, g, m) = NothingRead
        BY <3>1 DEF ReadBody
      <4> QED
        BY <4>1 DEF g
    <3>3. ReadFrom(messages, last, g)
      BY <3>2 DEF ReadFrom
    <3> QED
      BY <2>3, <3>3
  <2>5. CASE last # MaxId + 1
    <3>1. last + 1 \in 1 .. MaxId + 1 /\ last + 1 > last /\ last \in Nat
      BY <1>1, <2>3, <2>5
    <3>2. Continues(last + 1)
      <4>1. last + 1 \notin bad
        <5> HIDE DEF bad
        <5> QED
          BY <2>2, <3>1
      <4> QED
        BY <3>1, <4>1
    <3>3. PICK h : ReadFrom(messages, last + 1, h)
      BY <3>2
    <3>4. h = [m \in last + 1 .. MaxId + 1 |-> ReadBody(messages, h, m)]
      BY <3>3 DEF ReadFrom
    <3> DEFINE g == [m \in last .. MaxId + 1 |->
                        IF m = last THEN ReadBody(messages, h, last) ELSE h[m]]
    <3>5. \A m \in last .. MaxId + 1 : g[m] = ReadBody(messages, g, m)
      <4> TAKE m \in last .. MaxId + 1
      <4>1. m \in Int
        BY <1>1, <3>1
      <4>2. CASE m = MaxId + 1
        <5>1. g[m] = h[m] /\ m \in last + 1 .. MaxId + 1
          BY <1>1, <2>5, <3>1, <4>2
        <5> HIDE DEF g
        <5>2. h[m] = ReadBody(messages, h, m)
          BY <3>4, <5>1
        <5> QED
          BY <4>2, <5>1, <5>2 DEF ReadBody
      <4>3. CASE m # MaxId + 1
        <5>1. m + 1 \in last .. MaxId + 1 /\ m + 1 # last
          BY <1>1, <3>1, <4>1, <4>3
        <5>2. g[m + 1] = h[m + 1]
          BY <5>1
        <5>3. g[m] = ReadBody(messages, h, m)
          <6>1. CASE m = last
            BY <6>1
          <6>2. CASE m # last
            <7>1. g[m] = h[m] /\ m \in last + 1 .. MaxId + 1
              BY <1>1, <3>1, <6>2
            <7> HIDE DEF g
            <7> QED
              BY <3>4, <7>1
          <6> QED
            BY <6>1, <6>2
        <5> HIDE DEF g
        <5> QED
          BY <4>3, <5>2, <5>3 DEF ReadBody
      <4> QED
        BY <4>2, <4>3
    <3>6. g = [m \in last .. MaxId + 1 |-> ReadBody(messages, g, m)]
      <4>1. g = [m \in last .. MaxId + 1 |-> g[m]]
        OBVIOUS
      <4> HIDE DEF g
      <4> QED
        BY <3>5, <4>1
    <3>7. ReadFrom(messages, last, g)
      <4> HIDE DEF g
      <4> QED
        BY <3>6 DEF ReadFrom
    <3> QED
      BY <2>3, <3>7
  <2> QED
    BY <2>4, <2>5
<1>3. Continues(1)
  <2>1. 1 \in 1 .. MaxId + 1
    BY <1>1
  <2> QED
    BY <1>2, <2>1
<1>4. PICK g : g = [m \in 1 .. MaxId + 1 |-> ReadBody(messages, g, m)]
  BY <1>3 DEF ReadFrom
<1>5. ReadDownTo(messages) = CHOOSE read : read = [m \in 1 .. MaxId + 1 |-> ReadBody(messages, read, m)]
  BY DEF ReadDownTo, ReadBody
<1>6. ReadDownTo(messages) = [m \in 1 .. MaxId + 1 |-> ReadBody(messages, ReadDownTo(messages), m)]
  BY <1>4, <1>5
<1> QED
  BY <1>6 DEF ReadFrom

\* extract_products: what is known of a reading holds down to the oldest message.
LEMMA ReadDownToOK ==
    ASSUME NEW messages \in SUBSET (1 .. MaxId)
    PROVE  ReadOK(messages, 1, ReadDownTo(messages)[1])
<1> DEFINE read == ReadDownTo(messages)
           bad == {m \in 1 .. MaxId + 1 : ~ReadOK(messages, m, read[m])}
           last == Max(bad)
<1>1. MaxId \in Nat /\ MaxProducts \in Nat
  BY EitaaHistoryAssumption
<1>2. \A m \in 1 .. MaxId + 1 : read[m] = ReadBody(messages, read, m)
  <2>1. read = [m \in 1 .. MaxId + 1 |-> ReadBody(messages, read, m)]
    BY ReadDownToDefined DEF ReadFrom
  <2> HIDE DEF read
  <2> QED
    BY <2>1
<1> HIDE DEF read
<1>3. bad = {}
  <2> SUFFICES ASSUME bad # {} PROVE FALSE
    OBVIOUS
  <2>1. bad \in SUBSET Nat /\ \A lo \in bad : lo <= MaxId + 1
    BY <1>1
  <2>2. last \in bad /\ \A lo \in bad : lo <= last
    <3> HIDE DEF bad
    <3>1. MaxId + 1 \in Nat
      BY <1>1
    <3> QED
      BY <2>1, <3>1, MaxExists
  <2>3. last \in 1 .. MaxId + 1 /\ ~ReadOK(messages, last, read[last])
    BY <2>2
  <2> HIDE DEF last
  <2>4. CASE last = MaxId + 1
    <3>1. read[last] = NothingRead
      BY <1>2, <2>3, <2>4 DEF ReadBody
    <3>2. NothingRead \in [drafts : Seq(Drafts), at : Nat]
          /\ NothingRead.drafts = <<>> /\ NothingRead.at = 0
      BY DEF NothingRead
    <3>3. ReadOK(messages, last, NothingRead)
      BY <1>1, <3>2 DEF ReadOK
    <3> QED
      BY <2>3, <3>1, <3>3
  <2>5. CASE last # MaxId + 1
    <3>1. last \in 1 .. MaxId /\ last + 1 \in 1 .. MaxId + 1 /\ last + 1 > last
      BY <1>1, <2>3, <2>5
    <3>2. ReadOK(messages, last + 1, read[last + 1])
      <4>1. last + 1 \notin bad
        <5> HIDE DEF bad
        <5> QED
          BY <1>1, <2>2, <3>1
      <4> QED
        BY <3>1, <4>1
    <3>3. read[last] = IF last \in messages THEN Reads(read[last + 1], last) ELSE read[last + 1]
      BY <1>2, <2>3, <2>5 DEF ReadBody
    <3>4. CASE last \in messages
      BY <2>3, <3>2, <3>3, <3>4, ReadsStep
    <3>5. CASE last \notin messages
      BY <2>3, <3>1, <3>2, <3>3, <3>5, ReadNothingNew
    <3> QED
      BY <3>4, <3>5
  <2> QED
    BY <2>4, <2>5
<1> QED
  BY <1>1, <1>3 DEF read

\* extract_products: at most eitaa_max_products, and a photo only with the product
\* that it belongs to.
LEMMA ExtractedProducts ==
    ASSUME NEW messages \in Seq(1 .. MaxId)
    PROVE  /\ ExtractProducts(messages) \in Seq(Drafts)
           /\ Len(ExtractProducts(messages)) <= MaxProducts
           /\ \A i \in 1 .. Len(ExtractProducts(messages)) :
                 \A p \in ExtractProducts(messages)[i].photos :
                    Belongs(ToSet(messages), p, ExtractProducts(messages)[i])
<1>1. ToSet(messages) \in SUBSET (1 .. MaxId)
  BY SeqElements
<1>2. ReadOK(ToSet(messages), 1, ReadDownTo(ToSet(messages))[1])
  BY <1>1, ReadDownToOK
<1> QED
  BY <1>2 DEF ReadOK, ExtractProducts

=============================================================================
