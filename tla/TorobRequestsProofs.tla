------------------------- MODULE TorobRequestsProofs -------------------------
(***************************************************************************)
(* For every set of searchers, interval and number of retries: a searcher  *)
(* waits in one place at most, and the requests of all searchers are an    *)
(* interval apart.                                                         *)
(***************************************************************************)
EXTENDS TorobRequests, TLAPS

\* Until the next request is allowed, the time since the last one makes up for
\* what is missing of the interval.
ClockInv ==
    /\ allowed \in 0 .. Interval
    /\ sinceLast \in 0 .. Interval
    /\ allowed + sinceLast >= Interval

\* A search that waits has a request left.
RequestLeft(c) ==
    c.phase \in {"queued", "backoff"} =>
        \/ c.kind = "text" /\ c.sent <= MaxRetries
        \/ c.kind = "image" /\ c.sent <= 1

SearchInv == \A s \in Searchers : RequestLeft(search[s])

IInv ==
    /\ TypeOK
    /\ OnePlaceInLine
    /\ ClockInv
    /\ SearchInv
    /\ holder.waited + allowed <= Interval

-----------------------------------------------------------------------------
\* Joining the line at its end, and leaving it at its head.
LEMMA JoinsLine ==
    ASSUME NEW q \in Seq(Searchers), IsInjective(q), NEW s \in Searchers \ ToSet(q)
    PROVE  /\ Append(q, s) \in Seq(Searchers) /\ IsInjective(Append(q, s))
           /\ ToSet(Append(q, s)) = ToSet(q) \cup {s}
<1>1. /\ DOMAIN q = 1 .. Len(q) /\ Len(q) \in Nat
      /\ DOMAIN Append(q, s) = 1 .. Len(q) + 1
      /\ \A i \in 1 .. Len(q) : Append(q, s)[i] = q[i]
      /\ Append(q, s)[Len(q) + 1] = s
  OBVIOUS
<1>2. \A i \in 1 .. Len(q) : q[i] # s
  BY <1>1 DEF ToSet
<1>3. IsInjective(Append(q, s))
  BY <1>1, <1>2 DEF IsInjective
<1>4. ToSet(Append(q, s)) = ToSet(q) \cup {s}
  BY <1>1 DEF ToSet
<1> QED
  BY <1>3, <1>4

LEMMA LeavesLine ==
    ASSUME NEW q \in Seq(Searchers), IsInjective(q), q # <<>>
    PROVE  /\ Tail(q) \in Seq(Searchers) /\ IsInjective(Tail(q))
           /\ Head(q) \in Searchers \ ToSet(Tail(q))
           /\ ToSet(q) = ToSet(Tail(q)) \cup {Head(q)}
<1>1. /\ DOMAIN q = 1 .. Len(q) /\ Len(q) \in Nat /\ Len(q) >= 1
      /\ DOMAIN Tail(q) = 1 .. Len(q) - 1
      /\ \A i \in 1 .. Len(q) - 1 : Tail(q)[i] = q[i + 1]
      /\ Head(q) = q[1] /\ Head(q) \in Searchers /\ Tail(q) \in Seq(Searchers)
  OBVIOUS
<1>2. IsInjective(Tail(q))
  BY <1>1 DEF IsInjective
<1>3. Head(q) \notin ToSet(Tail(q))
  BY <1>1 DEF ToSet, IsInjective
<1>4. ToSet(q) = ToSet(Tail(q)) \cup {Head(q)}
  <2>1. ASSUME NEW s \in ToSet(q) PROVE s \in ToSet(Tail(q)) \cup {Head(q)}
    <3>1. PICK i \in 1 .. Len(q) : q[i] = s
      BY <1>1 DEF ToSet
    <3>2. CASE i # 1
      <4>1. i - 1 \in 1 .. Len(q) - 1 /\ Tail(q)[i - 1] = s
        BY <1>1, <3>1, <3>2
      <4> QED
        BY <1>1, <4>1 DEF ToSet
    <3> QED
      BY <1>1, <3>1, <3>2
  <2>2. ToSet(Tail(q)) \cup {Head(q)} \subseteq ToSet(q)
    BY <1>1 DEF ToSet
  <2> QED
    BY <2>1, <2>2
<1> QED
  BY <1>1, <1>2, <1>3, <1>4

-----------------------------------------------------------------------------
LEMMA InitIInv == Init => IInv
<1> SUFFICES ASSUME Init PROVE IInv
  OBVIOUS
<1>1. /\ Interval \in Nat /\ MaxRetries \in Nat /\ allowed = 0 /\ sinceLast = Interval
      /\ queue = <<>> /\ holder = Free /\ search = [s \in Searchers |-> Idle]
  BY TorobRequestsAssumption DEF Init
<1>2. Idle \in Searches /\ Free \in [waited : 0 .. Interval, by : SUBSET Searchers]
  BY <1>1 DEF Idle, Free, Searches
<1>3. TypeOK
  BY <1>1, <1>2 DEF TypeOK, Idle, WithinRequests
<1>4. OnePlaceInLine
  BY <1>1 DEF OnePlaceInLine, IsInjective, ToSet, Free, Idle
<1>5. ClockInv /\ SearchInv /\ holder.waited + allowed <= Interval
  BY <1>1 DEF ClockInv, SearchInv, RequestLeft, Free, Idle
<1> QED
  BY <1>3, <1>4, <1>5 DEF IInv

\* A searcher goes on, and the others stay as they are.
LEMMA OneSearch ==
    ASSUME TypeOK, SearchInv, NEW s \in Searchers, NEW c \in Searches,
           search' = [search EXCEPT ![s] = c], RequestLeft(c), WithinRequests(c)
    PROVE  /\ search' \in [Searchers -> Searches]
           /\ search'[s] = c
           /\ \A t \in Searchers : t # s => search'[t] = search[t]
           /\ \A t \in Searchers : WithinRequests(search'[t])
           /\ SearchInv'
<1>1. /\ search' \in [Searchers -> Searches]
      /\ search'[s] = c
      /\ \A t \in Searchers : t # s => search'[t] = search[t]
  BY DEF TypeOK
<1>2. \A t \in Searchers : WithinRequests(search'[t])
  BY <1>1 DEF TypeOK
<1>3. SearchInv'
  <2> SUFFICES ASSUME NEW t \in Searchers
               PROVE  RequestLeft(search'[t])
    BY DEF SearchInv, RequestLeft
  <2>1. CASE t = s
    BY <1>1, <2>1
  <2>2. CASE t # s
    BY <1>1, <2>2 DEF SearchInv
  <2> QED
    BY <2>1, <2>2
<1> QED
  BY <1>1, <1>2, <1>3

\* A searcher that was not waiting joins the line.
LEMMA JoinKeeps ==
    ASSUME IInv, NEW s \in Searchers, NEW c \in Searches, search' = [search EXCEPT ![s] = c],
           search[s].phase # "queued", c.phase = "queued", RequestLeft(c),
           queue' = Queued(s), UNCHANGED <<holder, allowed, sinceLast>>
    PROVE  IInv'
<1>1. s \notin ToSet(queue) /\ s \notin holder.by
  BY DEF IInv, OnePlaceInLine
<1>2. /\ queue' \in Seq(Searchers) /\ IsInjective(queue')
      /\ ToSet(queue') = ToSet(queue) \cup {s}
  BY <1>1, JoinsLine DEF IInv, TypeOK, OnePlaceInLine, Queued
<1>3. MaxRetries \in Nat /\ c.sent \in Nat
  BY TorobRequestsAssumption DEF Searches
<1>4. WithinRequests(c)
  BY <1>3 DEF RequestLeft, WithinRequests
<1>5. /\ search' \in [Searchers -> Searches]
      /\ search'[s] = c
      /\ \A t \in Searchers : t # s => search'[t] = search[t]
      /\ \A t \in Searchers : WithinRequests(search'[t])
      /\ SearchInv'
  BY <1>4, OneSearch DEF IInv
<1>6. TypeOK'
  BY <1>2, <1>5 DEF IInv, TypeOK, Searches, WithinRequests
<1>7. OnePlaceInLine'
  <2>1. \A t \in Searchers : search'[t].phase = "queued" <=> t \in ToSet(queue') \cup holder'.by
    BY <1>2, <1>5 DEF IInv, OnePlaceInLine
  <2> QED
    BY <1>1, <1>2, <2>1 DEF IInv, OnePlaceInLine
<1>8. ClockInv' /\ holder'.waited + allowed' <= Interval
  BY DEF IInv, ClockInv
<1> QED
  BY <1>5, <1>6, <1>7, <1>8 DEF IInv

\* A searcher that holds no place goes on without the limiter.
LEMMA AsideKeeps ==
    ASSUME IInv, NEW s \in Searchers, NEW c \in Searches, search' = [search EXCEPT ![s] = c],
           search[s].phase # "queued", c.phase # "queued", RequestLeft(c), WithinRequests(c),
           UNCHANGED <<queue, holder, allowed, sinceLast>>
    PROVE  IInv'
<1>1. /\ search' \in [Searchers -> Searches]
      /\ search'[s] = c
      /\ \A t \in Searchers : t # s => search'[t] = search[t]
      /\ \A t \in Searchers : WithinRequests(search'[t])
      /\ SearchInv'
  BY OneSearch DEF IInv
<1>2. TypeOK'
  BY <1>1 DEF IInv, TypeOK, Searches, WithinRequests
<1>3. OnePlaceInLine'
  <2>1. \A t \in Searchers : search'[t].phase = "queued" <=> t \in ToSet(queue') \cup holder'.by
    BY <1>1 DEF IInv, OnePlaceInLine
  <2> QED
    BY <2>1 DEF IInv, OnePlaceInLine
<1>4. ClockInv' /\ holder'.waited + allowed' <= Interval
  BY DEF IInv, ClockInv
<1> QED
  BY <1>1, <1>2, <1>3, <1>4 DEF IInv

-----------------------------------------------------------------------------
LEMMA StartsStep ==
    ASSUME IInv, NEW s \in Searchers, NEW kind \in {"text", "image"}, Starts(s, kind)
    PROVE  IInv'
<1> DEFINE c == [phase |-> "queued", kind |-> kind, sent |-> 0]
<1>1. c \in Searches /\ RequestLeft(c) /\ c.phase = "queued"
  BY TorobRequestsAssumption DEF Searches, RequestLeft
<1>2. search' = [search EXCEPT ![s] = c] /\ search[s].phase # "queued"
  BY DEF Starts
<1> HIDE DEF c
<1> QED
  BY <1>1, <1>2, JoinKeeps DEF Starts

LEMMA RepeatsStep ==
    ASSUME IInv, NEW s \in Searchers, ImageUploaded(s) \/ TriesAgain(s)
    PROVE  IInv'
<1> DEFINE c == [search[s] EXCEPT !.phase = "queued"]
<1>1. search[s] \in Searches
  BY DEF IInv, TypeOK
<1>2. c \in Searches /\ c.phase = "queued" /\ c.kind = search[s].kind /\ c.sent = search[s].sent
  BY <1>1 DEF Searches
<1>3. search' = [search EXCEPT ![s] = c]
  BY DEF ImageUploaded, TriesAgain
<1>4. search[s].phase # "queued"
  BY DEF ImageUploaded, TriesAgain
<1>5. \/ search[s].kind = "image" /\ search[s].sent = 1
      \/ search[s].phase = "backoff" /\ RequestLeft(search[s])
  BY DEF IInv, SearchInv, ImageUploaded, TriesAgain
<1> HIDE DEF c
<1>6. RequestLeft(c)
  BY <1>2, <1>5 DEF RequestLeft
<1> QED
  BY <1>2, <1>3, <1>4, <1>6, JoinKeeps DEF ImageUploaded, TriesAgain

LEMMA EndsStep == ASSUME IInv, NEW s \in Searchers, Ends(s) PROVE IInv'
<1>1. Idle \in Searches /\ RequestLeft(Idle) /\ WithinRequests(Idle) /\ Idle.phase # "queued"
  BY DEF Idle, Searches, RequestLeft, WithinRequests
<1>2. search' = [search EXCEPT ![s] = Idle] /\ search[s].phase # "queued"
  BY DEF Ends
<1> QED
  BY <1>1, <1>2, AsideKeeps DEF Ends

LEMMA BacksOffStep == ASSUME IInv, NEW s \in Searchers, BacksOff(s) PROVE IInv'
<1> DEFINE c == [search[s] EXCEPT !.phase = "backoff"]
<1>1. search[s] \in Searches /\ search[s].kind = "text" /\ search[s].sent <= MaxRetries
  BY DEF IInv, TypeOK, BacksOff
<1>2. c \in Searches /\ c.phase = "backoff" /\ c.kind = "text" /\ c.sent = search[s].sent
  BY <1>1 DEF Searches
<1>3. search' = [search EXCEPT ![s] = c] /\ search[s].phase # "queued"
  BY DEF BacksOff
<1> HIDE DEF c
<1>4. MaxRetries \in Nat /\ c.sent \in Nat /\ c.sent <= MaxRetries
  BY <1>1, <1>2, TorobRequestsAssumption DEF Searches
<1>5. RequestLeft(c) /\ WithinRequests(c)
  BY <1>2, <1>4 DEF RequestLeft, WithinRequests
<1> QED
  BY <1>2, <1>3, <1>5, AsideKeeps DEF BacksOff

LEMMA TakesLockStep == IInv /\ TakesLock => IInv'
<1> SUFFICES ASSUME IInv, TakesLock PROVE IInv'
  OBVIOUS
<1>1. /\ queue' \in Seq(Searchers) /\ IsInjective(queue')
      /\ Head(queue) \in Searchers \ ToSet(queue')
      /\ ToSet(queue) = ToSet(queue') \cup {Head(queue)}
  BY LeavesLine DEF IInv, TypeOK, OnePlaceInLine, TakesLock
<1>2. /\ holder.by = {} /\ holder' = [waited |-> 0, by |-> {Head(queue)}]
      /\ UNCHANGED <<search, allowed, sinceLast>>
  BY DEF TakesLock
<1>3. Interval \in Nat
  BY TorobRequestsAssumption
<1>4. TypeOK'
  BY <1>1, <1>2, <1>3 DEF IInv, TypeOK, Searches, WithinRequests
<1>5. OnePlaceInLine'
  <2>1. \A t \in Searchers : search'[t].phase = "queued" <=> t \in ToSet(queue') \cup holder'.by
    BY <1>1, <1>2 DEF IInv, OnePlaceInLine
  <2> QED
    BY <1>1, <1>2, <2>1 DEF OnePlaceInLine
<1>6. SearchInv'
  BY <1>2 DEF IInv, SearchInv, RequestLeft
<1>7. ClockInv' /\ holder'.waited + allowed' <= Interval
  BY <1>2, <1>3 DEF IInv, ClockInv
<1> QED
  BY <1>4, <1>5, <1>6, <1>7 DEF IInv

LEMMA SendsStep == ASSUME IInv, NEW s \in Searchers, Sends(s) PROVE IInv' /\ sinceLast = Interval
<1> DEFINE c == [search[s] EXCEPT !.phase = "sent", !.sent = @ + 1]
<1>1. Interval \in Nat /\ MaxRetries \in Nat
  BY TorobRequestsAssumption
<1>2. /\ s \in holder.by /\ allowed = 0 /\ allowed' = Interval /\ sinceLast' = 0
      /\ holder' = Free /\ queue' = queue /\ search' = [search EXCEPT ![s] = c]
  BY DEF Sends, NextAllowed
<1>3. search[s] \in Searches /\ search[s].phase = "queued" /\ RequestLeft(search[s])
  BY <1>2 DEF IInv, TypeOK, OnePlaceInLine, SearchInv
<1>4. /\ search[s].sent \in Nat
      /\ \/ search[s].kind = "text" /\ search[s].sent <= MaxRetries
         \/ search[s].kind = "image" /\ search[s].sent <= 1
  BY <1>1, <1>3 DEF Searches, RequestLeft
<1>5. /\ c \in Searches /\ c.phase = "sent"
      /\ c.kind = search[s].kind /\ c.sent = search[s].sent + 1
  <2>1. search[s].sent + 1 \in Nat
    BY <1>4
  <2> QED
    BY <1>3, <2>1 DEF Searches
<1> HIDE DEF c
<1>6. RequestLeft(c) /\ WithinRequests(c)
  BY <1>1, <1>4, <1>5 DEF RequestLeft, WithinRequests
<1>7. /\ search' \in [Searchers -> Searches]
      /\ search'[s] = c
      /\ \A t \in Searchers : t # s => search'[t] = search[t]
      /\ \A t \in Searchers : WithinRequests(search'[t])
      /\ SearchInv'
  BY <1>2, <1>5, <1>6, OneSearch DEF IInv
<1>8. Free \in [waited : 0 .. Interval, by : SUBSET Searchers] /\ Free.waited = 0 /\ Free.by = {}
  BY <1>1 DEF Free
<1>9. TypeOK'
  BY <1>1, <1>2, <1>7, <1>8 DEF IInv, TypeOK, Searches, WithinRequests
<1>10. OnePlaceInLine'
  <2>1. \A t \in Searchers : search'[t].phase = "queued" <=> t \in ToSet(queue') \cup holder'.by
    BY <1>2, <1>5, <1>7, <1>8 DEF IInv, OnePlaceInLine
  <2> QED
    BY <1>2, <1>8, <2>1 DEF IInv, OnePlaceInLine
<1>11. ClockInv' /\ holder'.waited + allowed' <= Interval /\ sinceLast = Interval
  BY <1>1, <1>2, <1>8 DEF IInv, ClockInv
<1> QED
  BY <1>7, <1>9, <1>10, <1>11 DEF IInv

LEMMA TickStep == IInv /\ Tick => IInv'
<1> SUFFICES ASSUME IInv, Tick PROVE IInv'
  OBVIOUS
<1>1. Interval \in Nat /\ allowed \in 0 .. Interval /\ sinceLast \in 0 .. Interval
  BY TorobRequestsAssumption DEF IInv, ClockInv
<1>2. /\ allowed' = IF allowed > 0 THEN allowed - 1 ELSE 0
      /\ sinceLast' = IF sinceLast < Interval THEN sinceLast + 1 ELSE sinceLast
      /\ UNCHANGED <<search, queue>>
  BY DEF Tick
<1>3. ClockInv'
  BY <1>1, <1>2 DEF IInv, ClockInv
<1>4. holder.waited \in Nat /\ holder.by \subseteq Searchers /\ holder.waited + allowed <= Interval
  BY <1>1 DEF IInv, TypeOK
<1>5. /\ holder' \in [waited : 0 .. Interval, by : SUBSET Searchers]
      /\ holder'.by = holder.by
      /\ holder'.waited + allowed' <= Interval
  <2>1. CASE holder.by # {} /\ allowed > 0
    <3>1. holder' = [holder EXCEPT !.waited = @ + 1]
      BY <2>1 DEF Tick
    <3>2. holder.waited + 1 \in 0 .. Interval
      BY <1>1, <1>4, <2>1
    <3> QED
      BY <1>1, <1>2, <1>4, <2>1, <3>1, <3>2 DEF IInv, TypeOK
  <2>2. CASE ~(holder.by # {} /\ allowed > 0)
    <3>1. holder' = holder
      BY <2>2 DEF Tick
    <3> QED
      BY <1>1, <1>2, <1>4, <3>1 DEF IInv, TypeOK
  <2> QED
    BY <2>1, <2>2
<1>6. TypeOK'
  BY <1>2, <1>3, <1>5 DEF IInv, TypeOK, Searches, WithinRequests, ClockInv
<1>7. OnePlaceInLine' /\ SearchInv'
  BY <1>2, <1>5 DEF IInv, OnePlaceInLine, SearchInv, RequestLeft
<1> QED
  BY <1>3, <1>5, <1>6, <1>7 DEF IInv

-----------------------------------------------------------------------------
LEMMA StepIInv == IInv /\ [Next]_vars => IInv'
<1> SUFFICES ASSUME IInv, [Next]_vars PROVE IInv'
  OBVIOUS
<1>1. ASSUME NEW s \in Searchers, NEW kind \in {"text", "image"}, Starts(s, kind) PROVE IInv'
  BY <1>1, StartsStep
<1>2. ASSUME NEW s \in Searchers, Step(s) PROVE IInv'
  BY <1>2, SendsStep, EndsStep, RepeatsStep, BacksOffStep DEF Step
<1>3. CASE TakesLock
  BY <1>3, TakesLockStep
<1>4. CASE Tick
  BY <1>4, TickStep
<1>5. CASE UNCHANGED vars
  BY <1>5 DEF vars, IInv, TypeOK, OnePlaceInLine, ClockInv, SearchInv, RequestLeft, Searches
<1> QED
  BY <1>1, <1>2, <1>3, <1>4, <1>5 DEF Next

LEMMA SpecIInv == Spec => []IInv
<1> QED
  BY InitIInv, StepIInv, PTL DEF Spec

\* Only a searcher that the limiter lets pass sends a request.
LEMMA SendingIsSpaced ==
    ASSUME IInv, [Next]_vars, NEW s \in Searchers, search[s].phase # "sent", search'[s].phase = "sent"
    PROVE  sinceLast = Interval
<1>1. search \in [Searchers -> Searches]
  BY DEF IInv, TypeOK
<1>2. ASSUME NEW t \in Searchers, NEW kind \in {"text", "image"}, Starts(t, kind) PROVE FALSE
  BY <1>1, <1>2 DEF Starts
<1>3. ASSUME NEW t \in Searchers, Ends(t) \/ ImageUploaded(t) \/ BacksOff(t) \/ TriesAgain(t)
      PROVE  FALSE
  BY <1>1, <1>3 DEF Ends, ImageUploaded, BacksOff, TriesAgain, Idle, Searches
<1>4. CASE TakesLock \/ Tick \/ UNCHANGED vars
  BY <1>4 DEF TakesLock, Tick, vars
<1>5. ASSUME NEW t \in Searchers, Sends(t) PROVE sinceLast = Interval
  BY <1>5, SendsStep
<1> QED
  BY <1>2, <1>3, <1>4, <1>5 DEF Next, Step

\* A text search sends at most MaxRetries + 1 requests and a search by image at
\* most two, whatever fails and however many others search.
THEOREM SpecTypeOK == Spec => []TypeOK
<1>1. IInv => TypeOK
  BY DEF IInv
<1> QED
  BY SpecIInv, <1>1, PTL

\* Every search that waits for the limiter has one place in its line, and one
\* of them at most holds its lock.
THEOREM SpecOnePlaceInLine == Spec => []OnePlaceInLine
<1>1. IInv => OnePlaceInLine
  BY DEF IInv
<1> QED
  BY SpecIInv, <1>1, PTL

\* The requests of all searches are at least an interval apart.
THEOREM SpecSpacing == Spec => Spacing
<1>1. IInv /\ [Next]_vars =>
          [\A s \in Searchers :
              search[s].phase # "sent" /\ search'[s].phase = "sent" => sinceLast = Interval]_vars
  BY SendingIsSpaced
<1> QED
  BY SpecIInv, <1>1, PTL DEF Spec, Spacing
=============================================================================
