-------------------------- MODULE SessionViewProofs --------------------------
(***************************************************************************)
(* For any number of rows, pages, sends and failures: the stream holds     *)
(* live rows back only while a catch-up is under way; every variable has   *)
(* its type; the list of the store stays sound and in order, but for the   *)
(* two steps that may put it out; and no row from the list's first one on  *)
(* is skipped for a reason that NoGap does not name.                       *)
(*                                                                         *)
(* The list is built with Keep, InOrder, Insert and a recursive function.  *)
(* What they return is proved by induction over 0 .. n stated for a set    *)
(* (UpTo), as the library's induction over a predicate is out of reach.    *)
(***************************************************************************)
EXTENDS SessionView, FiniteSetTheorems, SequenceTheorems, TLAPS

-----------------------------------------------------------------------------
(* The stream is never stuck.                                              *)

\* A request is under way, or the hold is lifted.
LEMMA AskedIsNotIdle ==
    ASSUME NEW after, NEW got
    PROVE  Asked(after, got) # Idle
<1>1. Asked(after, got).st = "asked" /\ Idle.st = "idle"
  BY DEF Asked, Idle
<1>2. QED
  BY <1>1

\* The effect starts on a socket that is up only together with a catch-up.
LEMMA StartsAsking ==
    ASSUME NEW mark, StartStream(mark), UNCHANGED up
    PROVE  NeverStuck'
  BY AskedIsNotIdle DEF StartStream, NeverStuck

\* A catch-up ends with the hold lifted, whether it succeeds or not.
LEMMA CatchUpStep ==
    ASSUME NeverStuck, PageArrives \/ FetchTimesOut \/ Disconnects \/ Connects
    PROVE  NeverStuck'
<1>1. CASE PageArrives
  <2>1. fetchComplete' \/ \E after, got : catchUp' = Asked(after, got)
    BY <1>1 DEF PageArrives, CompleteFetch
  <2>2. CASE fetchComplete'
    BY <2>2 DEF NeverStuck
  <2>3. CASE \E after, got : catchUp' = Asked(after, got)
    BY <2>3, AskedIsNotIdle DEF NeverStuck
  <2>4. QED
    BY <2>1, <2>2, <2>3
<1>2. CASE FetchTimesOut
  BY <1>2 DEF FetchTimesOut, CatchUpFails, CompleteFetch, NeverStuck
<1>3. CASE Disconnects
  BY <1>3 DEF Disconnects, NeverStuck
<1>4. CASE Connects
  <2>1. CASE Streaming
    BY <1>4, <2>1, AskedIsNotIdle DEF Connects, NeverStuck
  <2>2. CASE ~Streaming
    BY <1>4, <2>2 DEF Connects, Streaming, NeverStuck, storeVars
  <2>3. QED
    BY <2>1, <2>2
<1>5. QED
  BY <1>1, <1>2, <1>3, <1>4

\* The page opens, is left, and the first reply enables the stream.
LEMMA PageStep ==
    ASSUME NeverStuck, (\E d \in detail : DetailLands(d)) \/ Leave \/ Return
    PROVE  NeverStuck'
<1>1. ASSUME NEW d \in detail, DetailLands(d) PROVE NeverStuck'
  <2>1. CASE open /\ ~loaded
    BY <1>1, <2>1, StartsAsking DEF DetailLands, linkVars
  <2>2. CASE ~(open /\ ~loaded)
    BY <1>1, <2>2 DEF DetailLands, linkVars, streamVars, NeverStuck, Streaming
  <2>3. QED
    BY <2>1, <2>2
<1>2. CASE Leave
  BY <1>2 DEF Leave, NeverStuck, Streaming
<1>3. CASE Return
  <2>1. CASE loaded
    BY <1>3, <2>1, StartsAsking DEF Return, linkVars
  <2>2. CASE ~loaded
    BY <1>3, <2>2 DEF Return, storeVars, NeverStuck, Streaming
  <2>3. QED
    BY <2>1, <2>2
<1>4. QED
  BY <1>1, <1>2, <1>3

\* Replies, frames and fetches: no step touches the hold or the catch-up's being under way.
LEMMA OtherStep ==
    ASSUME NeverStuck,
           RelayAnswers \/ FrameArrives \/ FetchDetail \/ LoadOlder
              \/ (\E o \in older : OlderLands(o)) \/ ReplyFails
    PROVE  NeverStuck'
<1>1. /\ UNCHANGED <<up, open, loaded, fetchComplete>>
      /\ catchUp' = catchUp \/ catchUp'.st = "answered"
  <2>1. CASE FetchDetail
    BY <2>1 DEF FetchDetail, linkVars, streamVars, storeVars
  <2>2. CASE RelayAnswers
    BY <2>2 DEF RelayAnswers, linkVars, storeVars
  <2>3. CASE FrameArrives
    BY <2>3 DEF FrameArrives, streamVars, storeVars
  <2>4. CASE LoadOlder \/ (\E o \in older : OlderLands(o)) \/ ReplyFails
    BY <2>4 DEF LoadOlder, OlderLands, ReplyFails, linkVars, streamVars, storeVars
  <2>5. QED
    BY <2>1, <2>2, <2>3, <2>4
<1>2. Idle.st = "idle"
  BY DEF Idle
<1>3. QED
  BY <1>1, <1>2 DEF NeverStuck, Streaming

\* However the page and the socket come and go, the chat never freezes behind
\* rows that nothing will give out.
THEOREM StreamNeverStuck == Spec => []NeverStuck
<1>1. Init => NeverStuck
  BY DEF Init, NeverStuck, Streaming
<1>2. NeverStuck /\ [Next]_vars => NeverStuck'
  <2>1. SUFFICES ASSUME NeverStuck, [Next]_vars
                 PROVE  NeverStuck'
    OBVIOUS
  <2>2. CASE UNCHANGED vars
    BY <2>1, <2>2 DEF vars, linkVars, streamVars, storeVars, NeverStuck, Streaming
  <2>3. ASSUME NEW r \in Rows, Commit(r) \/ Settle(r)
        PROVE  NeverStuck'
    BY <2>1, <2>3 DEF NeverStuck, Streaming, Commit, Settle, streamVars, storeVars
  <2>4. ASSUME NEW s \in Sends, (\E at \in Clocks : Send(s, at)) \/ PostFails(s)
        PROVE  NeverStuck'
    BY <2>1, <2>4 DEF NeverStuck, Streaming, Send, PostFails, linkVars, streamVars
  <2>5. CASE \/ RelayAnswers \/ FrameArrives \/ FetchDetail \/ LoadOlder
             \/ (\E o \in older : OlderLands(o)) \/ ReplyFails
    BY <2>1, <2>5, OtherStep
  <2>6. QED
    BY <2>1, <2>2, <2>3, <2>4, <2>5, CatchUpStep, PageStep DEF Next
<1>3. QED
  BY <1>1, <1>2, PTL DEF Spec

-----------------------------------------------------------------------------
(* Numbers.                                                                *)

\* Induction over the first numbers, for a set instead of a predicate.
LEMMA UpTo ==
    ASSUME NEW n \in Nat, NEW T, 0 \in T, \A i \in 0 .. n - 1 : i \in T => i + 1 \in T
    PROVE  \A i \in 0 .. n : i \in T
<1> SUFFICES ASSUME \E i \in 0 .. n : i \notin T PROVE FALSE
  OBVIOUS
<1> DEFINE R == OpToRel(<, Nat)
           D == {i \in 0 .. n : i \notin T}
<1>1. D \subseteq Nat /\ D # {}
  OBVIOUS
<1>2. \E x \in D : \A y \in D : ~ (<<y, x>> \in R)
  <2>1. IsWellFoundedOn(R, Nat)
    BY NatLessThanWellFounded
  <2> HIDE DEF R, D
  <2>2. QED
    BY <1>1, <2>1, WFMin
<1>3. PICK x \in D : \A y \in D : ~ (<<y, x>> \in R)
  BY <1>2
<1>4. \A y \in Nat : y < x => <<y, x>> \in R
  <2>1. R = {ss \in Nat \X Nat : ss[1] < ss[2]}
    BY DEF OpToRel
  <2>2. x \in Nat
    BY <1>1
  <2> HIDE DEF R
  <2>3. QED
    BY <2>1, <2>2
<1>5. x \in 1 .. n /\ x \notin T
  <2>1. x \in 0 .. n /\ x \notin T
    OBVIOUS
  <2>2. QED
    BY <2>1
<1>6. x - 1 \notin D
  <2>1. x - 1 \in Nat /\ x - 1 < x
    BY <1>5
  <2> HIDE DEF R, D
  <2>2. QED
    BY <1>3, <1>4, <2>1
<1>7. x - 1 \in T
  BY <1>5, <1>6
<1>8. x - 1 \in 0 .. n - 1 /\ (x - 1) + 1 = x
  BY <1>5
<1>9. QED
  BY <1>5, <1>7, <1>8

\* The biggest of some bounded numbers, and 0 of none.
LEMMA BiggestOf ==
    ASSUME NEW n \in Nat, NEW S, S \subseteq 0 .. n
    PROVE  /\ Biggest(S) \in S \cup {0}
           /\ \A y \in S : y <= Biggest(S)
           /\ Biggest(S) \in 0 .. n
<1> DEFINE T == {k \in 0 .. n : \E x \in S \cup {0} : \A y \in S : y <= k => y <= x}
<1>1. 0 \in T
  BY DEF T
<1>2. ASSUME NEW k \in 0 .. n - 1, k \in T PROVE k + 1 \in T
  <2>1. PICK x \in S \cup {0} : \A y \in S : y <= k => y <= x
    BY <1>2
  <2>2. CASE k + 1 \in S
    <3>1. \A y \in S : y <= k + 1 => y <= k + 1
      OBVIOUS
    <3>2. QED
      BY <2>2, <3>1
  <2>3. CASE k + 1 \notin S
    <3>1. \A y \in S : y <= k + 1 => y <= x
      BY <2>1, <2>3
    <3>2. QED
      BY <3>1
  <2>4. QED
    BY <2>2, <2>3
<1>3. n \in T
  <2> HIDE DEF T
  <2> QED
    BY <1>1, <1>2, UpTo
<1>4. \E x \in S \cup {0} : \A y \in S : y <= x
  BY <1>3
<1>5. Biggest(S) \in S \cup {0} /\ \A y \in S : y <= Biggest(S)
  BY <1>4 DEF Biggest
<1> HIDE DEF T
<1>6. Biggest(S) \in 0 .. n
  <2>1. \A x \in S \cup {0} : x \in 0 .. n
    OBVIOUS
  <2>2. QED
    BY <1>5, <2>1
<1>7. QED
  BY <1>5, <1>6

-----------------------------------------------------------------------------
(* Elements in order.                                                      *)

\* q lists the numbers of I, each once and in order.
Rising(q, I) ==
    /\ q \in Seq(I) /\ Len(q) \in Nat /\ DOMAIN q = 1 .. Len(q)
    /\ \A i, j \in 1 .. Len(q) : i < j => q[i] < q[j]
    /\ \A x \in I : \E i \in 1 .. Len(q) : q[i] = x

\* Bounded numbers can be listed in order.
LEMMA RisingExists ==
    ASSUME NEW n \in Nat, NEW I, I \subseteq 1 .. n
    PROVE  \E q : Rising(q, I)
<1> DEFINE T == {k \in 0 .. n : \E q : Rising(q, I \cap (1 .. k))}
<1>1. 0 \in T
  <2>1. Rising(<<>>, {})
    BY DEF Rising
  <2>2. I \cap (1 .. 0) = {}
    OBVIOUS
  <2>3. QED
    BY <2>1, <2>2
<1>2. ASSUME NEW k \in 0 .. n - 1, k \in T PROVE k + 1 \in T
  <2> DEFINE J == I \cap (1 .. k)
             K == I \cap (1 .. k + 1)
  <2>1. PICK q : Rising(q, J)
    BY <1>2
  <2>2. CASE k + 1 \notin I
    <3>1. J = K
      BY <2>2
    <3>2. QED
      BY <2>1, <3>1
  <2>3. CASE k + 1 \in I
    <3>1. K = J \cup {k + 1} /\ J \subseteq Nat /\ \A x \in J : x < k + 1
      BY <2>3
    <3> HIDE DEF J, K, T
    <3>2. q \in Seq(K) /\ k + 1 \in K
      BY <2>1, <3>1 DEF Rising
    <3> DEFINE r == Append(q, k + 1)
    <3>3. /\ r \in Seq(K) /\ Len(r) = Len(q) + 1 /\ DOMAIN r = 1 .. Len(q) + 1
          /\ \A i \in 1 .. Len(q) : r[i] = q[i]
          /\ r[Len(q) + 1] = k + 1
          /\ Len(q) \in Nat
      BY <3>2
    <3> HIDE DEF r
    <3>4. \A i \in 1 .. Len(q) : q[i] \in J
      BY <2>1 DEF Rising
    <3>5. \A i, j \in 1 .. Len(r) : i < j => r[i] < r[j]
      <4> SUFFICES ASSUME NEW i \in 1 .. Len(r), NEW j \in 1 .. Len(r), i < j
                   PROVE  r[i] < r[j]
        OBVIOUS
      <4>1. CASE j \in 1 .. Len(q)
        BY <2>1, <3>3, <4>1 DEF Rising
      <4>2. CASE j = Len(q) + 1
        <5>1. i \in 1 .. Len(q) /\ r[i] = q[i] /\ q[i] \in J
          BY <3>3, <3>4, <4>2
        <5>2. QED
          BY <3>1, <3>3, <4>2, <5>1
      <4>3. QED
        BY <3>3, <4>1, <4>2
    <3>6. \A x \in K : \E i \in 1 .. Len(r) : r[i] = x
      <4> TAKE x \in K
      <4>1. CASE x = k + 1
        BY <3>3, <4>1
      <4>2. CASE x \in J
        <5>1. PICK i \in 1 .. Len(q) : q[i] = x
          BY <2>1, <4>2 DEF Rising
        <5>2. QED
          BY <3>3, <5>1
      <4>3. QED
        BY <3>1, <4>1, <4>2
    <3>7. Rising(r, K)
      BY <3>3, <3>5, <3>6 DEF Rising
    <3>8. QED
      BY <3>7 DEF K, T
  <2>4. QED
    BY <2>2, <2>3
<1>3. n \in T
  <2> HIDE DEF T
  <2> QED
    BY <1>1, <1>2, UpTo
<1>4. I \cap (1 .. n) = I
  OBVIOUS
<1>5. QED
  BY <1>3, <1>4

\* A list of the numbers of a set in order has as many elements as the set.
LEMMA RisingIsBijection ==
    ASSUME NEW q, NEW I, I \subseteq Nat, Rising(q, I)
    PROVE  Cardinality(I) = Len(q) /\ q \in Bijection(1 .. Len(q), I)
<1>1. q \in [1 .. Len(q) -> I]
  BY DEF Rising
<1>2. \A i, j \in 1 .. Len(q) : q[i] = q[j] => i = j
  <2> SUFFICES ASSUME NEW i \in 1 .. Len(q), NEW j \in 1 .. Len(q), i < j
               PROVE  q[i] # q[j]
    BY DEF Rising
  <2>1. q[i] < q[j] /\ q[i] \in Nat /\ q[j] \in Nat
    BY <1>1 DEF Rising
  <2>2. QED
    BY <2>1
<1>3. q \in Bijection(1 .. Len(q), I)
  BY <1>1, <1>2 DEF Rising, Bijection, Injection, Surjection, IsInjective
<1>4. Cardinality(1 .. Len(q)) = Len(q) /\ IsFiniteSet(1 .. Len(q))
  <2>1. 1 \in Int /\ Len(q) \in Int /\ Len(q) >= 0
    BY DEF Rising
  <2>2. /\ IsFiniteSet(1 .. Len(q))
        /\ Cardinality(1 .. Len(q)) = IF 1 > Len(q) THEN 0 ELSE Len(q) - 1 + 1
    BY <2>1, FS_Interval
  <2>3. QED
    BY <2>1, <2>2
<1>5. QED
  BY <1>3, <1>4, FS_Bijection DEF ExistsBijection

\* Ascending lists the numbers of a set in order.
LEMMA AscendingRises ==
    ASSUME NEW n \in Nat, NEW I, I \subseteq 1 .. n
    PROVE  Rising(Ascending(I), I)
<1>1. PICK q : Rising(q, I)
  BY RisingExists
<1>2. Cardinality(I) = Len(q) /\ q \in Bijection(1 .. Len(q), I) /\ Len(q) \in Nat
  <2>1. I \subseteq Nat
    OBVIOUS
  <2>2. QED
    BY <1>1, <2>1, RisingIsBijection DEF Rising
<1> DEFINE N == Cardinality(I)
           P(p) == \A i, j \in DOMAIN p : i < j => p[i] < p[j]
<1>3. q \in Bijection(1 .. N, I) /\ P(q)
  BY <1>1, <1>2 DEF Rising
<1>4. Ascending(I) \in Bijection(1 .. N, I) /\ P(Ascending(I))
  BY <1>3 DEF Ascending
<1> DEFINE a == Ascending(I)
<1>5. /\ a \in [1 .. N -> I] /\ \A x \in I : \E i \in 1 .. N : a[i] = x
  BY <1>4 DEF Bijection, Injection, Surjection
<1>6. a \in Seq(I) /\ Len(a) = N /\ DOMAIN a = 1 .. N
  <2>1. N \in Nat /\ a \in [1 .. N -> I]
    BY <1>2, <1>5
  <2> HIDE DEF a, N
  <2>2. a \in Seq(I)
    BY <2>1, SeqDef
  <2>3. QED
    BY <2>1, <2>2
<1>7. QED
  BY <1>2, <1>4, <1>5, <1>6 DEF Rising

\* A list at some of its indexes.
LEMMA KeepOf ==
    ASSUME NEW E, NEW list \in Seq(E), NEW I, I \subseteq DOMAIN list
    PROVE  \E at : /\ Rising(at, I)
                   /\ Keep(list, I) \in Seq(E) /\ Len(Keep(list, I)) = Len(at)
                   /\ DOMAIN Keep(list, I) = 1 .. Len(at)
                   /\ \A k \in 1 .. Len(at) : Keep(list, I)[k] = list[at[k]] /\ at[k] \in I
<1>1. DOMAIN list = 1 .. Len(list) /\ Len(list) \in Nat
  OBVIOUS
<1>2. Rising(Ascending(I), I)
  BY <1>1, AscendingRises
<1> DEFINE a == Ascending(I)
           r == [k \in 1 .. Len(a) |-> list[a[k]]]
<1>3. Keep(list, I) = r
  BY <1>2 DEF Keep, Rising
<1>4. \A k \in 1 .. Len(a) : a[k] \in I /\ list[a[k]] \in E
  BY <1>2 DEF Rising
<1>5. r \in [1 .. Len(a) -> E] /\ Len(a) \in Nat
  BY <1>2, <1>4 DEF Rising
<1>6. r \in Seq(E)
  <2> HIDE DEF r, a
  <2> QED
    BY <1>5, SeqDef
<1>7. Len(r) = Len(a) /\ DOMAIN r = 1 .. Len(a)
  <2> HIDE DEF r, a
  <2> QED
    BY <1>5, <1>6
<1>8. QED
  BY <1>2, <1>3, <1>4, <1>6, <1>7

\* A page in the order of its rows.
LEMMA InOrderOf ==
    ASSUME NEW n \in Nat, NEW S, \A b \in S : b.id \in 1 .. n
    PROVE  /\ InOrder(S) \in Seq(S)
           /\ DOMAIN InOrder(S) = 1 .. Len(InOrder(S)) /\ Len(InOrder(S)) \in Nat
           /\ \A i, j \in DOMAIN InOrder(S) : i < j => InOrder(S)[i].id < InOrder(S)[j].id
           /\ \A b \in S : \E i \in DOMAIN InOrder(S) : InOrder(S)[i].id = b.id
<1> DEFINE I == {b.id : b \in S}
           a == Ascending(I)
           r == [k \in 1 .. Len(a) |-> CHOOSE b \in S : b.id = a[k]]
<1>1. I \subseteq 1 .. n
  OBVIOUS
<1>2. Rising(a, I)
  <2> HIDE DEF I
  <2> QED
    BY <1>1, AscendingRises
<1>3. InOrder(S) = r
  BY <1>2 DEF InOrder, Rising
<1>4. \A k \in 1 .. Len(a) : r[k] \in S /\ r[k].id = a[k]
  <2> TAKE k \in 1 .. Len(a)
  <2>1. a[k] \in I
    <3> HIDE DEF I
    <3> QED
      BY <1>2 DEF Rising
  <2>2. \E b \in S : b.id = a[k]
    BY <2>1
  <2>3. QED
    BY <2>2
<1>5. r \in [1 .. Len(a) -> S] /\ Len(a) \in Nat
  BY <1>2, <1>4 DEF Rising
<1>6. r \in Seq(S) /\ Len(r) = Len(a) /\ DOMAIN r = 1 .. Len(a)
  <2> HIDE DEF r, a
  <2>1. r \in Seq(S)
    BY <1>5, SeqDef
  <2> QED
    BY <1>5, <2>1
<1>7. /\ \A i, j \in 1 .. Len(a) : i < j => a[i] < a[j]
      /\ \A b \in S : \E i \in 1 .. Len(a) : a[i] = b.id
  BY <1>2 DEF Rising
<1> HIDE DEF r, a
<1>8. \A i, j \in 1 .. Len(a) : i < j => r[i].id < r[j].id
  BY <1>4, <1>7
<1>9. \A b \in S : \E i \in 1 .. Len(a) : r[i].id = b.id
  BY <1>4, <1>7
<1>10. QED
  BY <1>3, <1>5, <1>6, <1>8, <1>9

-----------------------------------------------------------------------------
(* Lists of entries.                                                       *)

\* No id twice; a row stands at its own time.
Distinct(list) == \A i, j \in DOMAIN list : list[i].id = list[j].id => i = j
RowsTimed(list) == \A i \in DOMAIN list : list[i].id \in Rows => list[i].at = list[i].id

\* A list and another one behind it.
LEMMA JoinedList ==
    ASSUME NEW a \in Seq(Entry), NEW b \in Seq(Entry)
    PROVE  /\ a \o b \in Seq(Entry)
           /\ Ids(a \o b) = Ids(a) \cup Ids(b)
           /\ Distinct(a) /\ Distinct(b) /\ Ids(a) \cap Ids(b) = {} => Distinct(a \o b)
           /\ RowsTimed(a) /\ RowsTimed(b) => RowsTimed(a \o b)
           /\ /\ InTimeOrder(a) /\ InTimeOrder(b)
              /\ \A i \in DOMAIN a, j \in DOMAIN b : a[i].at <= b[j].at
              => InTimeOrder(a \o b)
<1> DEFINE c == a \o b
           n == Len(a)
           m == Len(b)
<1>1. /\ c \in Seq(Entry) /\ Len(c) = n + m
      /\ \A i \in 1 .. n + m : c[i] = IF i <= n THEN a[i] ELSE b[i - n]
  BY ConcatProperties
<1>2. /\ n \in Nat /\ m \in Nat /\ DOMAIN a = 1 .. n /\ DOMAIN b = 1 .. m
      /\ DOMAIN c = 1 .. n + m
  BY <1>1
<1> HIDE DEF c, n, m
<1>3. /\ \A i \in 1 .. n : i \in 1 .. n + m /\ c[i] = a[i]
      /\ \A j \in 1 .. m : n + j \in 1 .. n + m /\ c[n + j] = b[j]
  <2>1. ASSUME NEW i \in 1 .. n PROVE i \in 1 .. n + m /\ c[i] = a[i]
    BY <1>1, <1>2
  <2>2. ASSUME NEW j \in 1 .. m PROVE n + j \in 1 .. n + m /\ c[n + j] = b[j]
    <3>1. n + j \in 1 .. n + m /\ ~ (n + j <= n) /\ (n + j) - n = j
      BY <1>2
    <3>2. QED
      BY <1>1, <3>1
  <2>3. QED
    BY <2>1, <2>2
<1>4. \A i \in 1 .. n + m : i \in 1 .. n \/ \E j \in 1 .. m : i = n + j
  <2> TAKE i \in 1 .. n + m
  <2>1. i \in 1 .. n \/ (i - n \in 1 .. m /\ i = n + (i - n))
    BY <1>2
  <2>2. QED
    BY <2>1
<1>5. Ids(c) = Ids(a) \cup Ids(b)
  <2>1. \A i \in 1 .. n + m : c[i].id \in Ids(a) \cup Ids(b)
    <3> TAKE i \in 1 .. n + m
    <3>1. CASE i \in 1 .. n
      BY <1>2, <1>3, <3>1 DEF Ids
    <3>2. ASSUME NEW j \in 1 .. m, i = n + j PROVE c[i].id \in Ids(b)
      BY <1>2, <1>3, <3>2 DEF Ids
    <3>3. QED
      BY <1>4, <3>1, <3>2
  <2>2. \A i \in 1 .. n : a[i].id \in Ids(c)
    BY <1>2, <1>3 DEF Ids
  <2>3. \A j \in 1 .. m : b[j].id \in Ids(c)
    BY <1>2, <1>3 DEF Ids
  <2>4. QED
    BY <1>2, <2>1, <2>2, <2>3 DEF Ids
<1>6. ASSUME Distinct(a), Distinct(b), Ids(a) \cap Ids(b) = {} PROVE Distinct(c)
  <2> SUFFICES ASSUME NEW i \in 1 .. n + m, NEW j \in 1 .. n + m, c[i].id = c[j].id
               PROVE  i = j
    BY <1>2 DEF Distinct
  <2>1. \A x \in 1 .. n, y \in 1 .. m : a[x].id # b[y].id
    BY <1>2, <1>6 DEF Ids
  <2>2. CASE i \in 1 .. n /\ j \in 1 .. n
    BY <1>2, <1>3, <1>6, <2>2 DEF Distinct
  <2>3. ASSUME NEW x \in 1 .. m, NEW y \in 1 .. m, i = n + x, j = n + y PROVE i = j
    <3>1. b[x].id = b[y].id
      BY <1>3, <2>3
    <3>2. x = y
      BY <1>2, <1>6, <3>1 DEF Distinct
    <3>3. QED
      BY <2>3, <3>2
  <2>4. ASSUME NEW y \in 1 .. m, i \in 1 .. n, j = n + y PROVE FALSE
    BY <1>3, <2>1, <2>4
  <2>5. ASSUME NEW x \in 1 .. m, j \in 1 .. n, i = n + x PROVE FALSE
    BY <1>3, <2>1, <2>5
  <2>6. QED
    BY <1>4, <2>2, <2>3, <2>4, <2>5
<1>7. ASSUME RowsTimed(a), RowsTimed(b) PROVE RowsTimed(c)
  <2> SUFFICES ASSUME NEW i \in 1 .. n + m, c[i].id \in Rows PROVE c[i].at = c[i].id
    BY <1>2 DEF RowsTimed
  <2>1. CASE i \in 1 .. n
    BY <1>2, <1>3, <1>7, <2>1 DEF RowsTimed
  <2>2. ASSUME NEW j \in 1 .. m, i = n + j PROVE c[i].at = c[i].id
    BY <1>2, <1>3, <1>7, <2>2 DEF RowsTimed
  <2>3. QED
    BY <1>4, <2>1, <2>2
<1>8. ASSUME InTimeOrder(a), InTimeOrder(b),
             \A i \in DOMAIN a, j \in DOMAIN b : a[i].at <= b[j].at
      PROVE  InTimeOrder(c)
  <2> SUFFICES ASSUME NEW i \in 1 .. n + m, NEW j \in 1 .. n + m, i < j
               PROVE  c[i].at <= c[j].at
    BY <1>2 DEF InTimeOrder
  <2>1. CASE i \in 1 .. n /\ j \in 1 .. n
    BY <1>2, <1>3, <1>8, <2>1 DEF InTimeOrder
  <2>2. ASSUME NEW x \in 1 .. m, NEW y \in 1 .. m, i = n + x, j = n + y
        PROVE  c[i].at <= c[j].at
    <3>1. x < y
      BY <1>2, <2>2
    <3>2. QED
      BY <1>2, <1>3, <1>8, <2>2, <3>1 DEF InTimeOrder
  <2>3. ASSUME NEW y \in 1 .. m, i \in 1 .. n, j = n + y PROVE c[i].at <= c[j].at
    <3>1. c[i] = a[i] /\ c[j] = b[y]
      BY <1>3, <2>3
    <3>2. i \in DOMAIN a /\ y \in DOMAIN b
      BY <1>2, <2>3
    <3>3. QED
      BY <1>8, <3>1, <3>2
  <2>4. ASSUME NEW x \in 1 .. m, j \in 1 .. n, i = n + x PROVE FALSE
    BY <1>2, <2>4
  <2>5. QED
    BY <1>4, <2>1, <2>2, <2>3, <2>4
<1>9. QED
  BY <1>1, <1>5, <1>6, <1>7, <1>8 DEF c

\* Some entries of a list.
LEMMA KeptList ==
    ASSUME NEW list \in Seq(Entry), NEW I, I \subseteq DOMAIN list
    PROVE  /\ Keep(list, I) \in Seq(Entry)
           /\ \A x : x \in Ids(Keep(list, I)) <=> \E i \in I : list[i].id = x
           /\ \A k \in DOMAIN Keep(list, I) : \E i \in I : Keep(list, I)[k] = list[i]
           /\ Distinct(list) => Distinct(Keep(list, I))
           /\ RowsTimed(list) => RowsTimed(Keep(list, I))
           /\ InTimeOrder(list) => InTimeOrder(Keep(list, I))
<1> DEFINE r == Keep(list, I)
<1>1. PICK at : /\ Rising(at, I)
                /\ r \in Seq(Entry) /\ Len(r) = Len(at) /\ DOMAIN r = 1 .. Len(at)
                /\ \A k \in 1 .. Len(at) : r[k] = list[at[k]] /\ at[k] \in I
  BY KeepOf
<1> HIDE DEF r
<1>2. \A k \in 1 .. Len(at) : at[k] \in DOMAIN list /\ at[k] \in Nat
  BY <1>1
<1>3. \A k, j \in 1 .. Len(at) : k < j => at[k] < at[j]
  BY <1>1 DEF Rising
<1>4. \A k, j \in 1 .. Len(at) : at[k] = at[j] => k = j
  <2> SUFFICES ASSUME NEW k \in 1 .. Len(at), NEW j \in 1 .. Len(at), k < j
               PROVE  at[k] # at[j]
    BY <1>1 DEF Rising
  <2>1. at[k] < at[j] /\ at[k] \in Nat /\ at[j] \in Nat
    BY <1>2, <1>3
  <2>2. QED
    BY <2>1
<1>5. \A x : x \in Ids(r) <=> \E i \in I : list[i].id = x
  <2> TAKE x
  <2>1. ASSUME x \in Ids(r) PROVE \E i \in I : list[i].id = x
    BY <1>1, <2>1 DEF Ids
  <2>2. ASSUME NEW i \in I, list[i].id = x PROVE x \in Ids(r)
    <3>1. PICK k \in 1 .. Len(at) : at[k] = i
      BY <1>1 DEF Rising
    <3>2. QED
      BY <1>1, <2>2, <3>1 DEF Ids
  <2>3. QED
    BY <2>1, <2>2
<1>6. ASSUME Distinct(list) PROVE Distinct(r)
  BY <1>1, <1>2, <1>4, <1>6 DEF Distinct
<1>7. ASSUME RowsTimed(list) PROVE RowsTimed(r)
  BY <1>1, <1>2, <1>7 DEF RowsTimed
<1>8. ASSUME InTimeOrder(list) PROVE InTimeOrder(r)
  BY <1>1, <1>2, <1>3, <1>8 DEF InTimeOrder
<1>9. QED
  BY <1>1, <1>5, <1>6, <1>7, <1>8 DEF r

\* The place of a new entry: behind the last one that is not newer.
Place(p, list, m) ==
    /\ p \in 0 .. Len(list)
    /\ Insert(list, m) = SubSeq(list, 1, p) \o <<m>> \o SubSeq(list, p + 1, Len(list))
    /\ \A i \in 1 .. Len(list) : list[i].at <= m.at => i <= p
    /\ p > 0 => list[p].at <= m.at

\* insertionIndex finds it.
LEMMA InsertPlace ==
    ASSUME NEW list \in Seq(Entry), NEW m \in Entry
    PROVE  \E k : Place(k, list, m)
<1> DEFINE S == {i \in DOMAIN list : list[i].at <= m.at}
<1>1. Len(list) \in Nat /\ DOMAIN list = 1 .. Len(list)
  OBVIOUS
<1>2. S \subseteq 0 .. Len(list)
  BY <1>1
<1>3. /\ Biggest(S) \in S \cup {0}
      /\ \A y \in S : y <= Biggest(S)
      /\ Biggest(S) \in 0 .. Len(list)
  <2> HIDE DEF S
  <2> QED
    BY <1>1, <1>2, BiggestOf
<1> DEFINE p == Biggest(S)
<1>4. Insert(list, m) = SubSeq(list, 1, p) \o <<m>> \o SubSeq(list, p + 1, Len(list))
  BY DEF Insert
<1>5. \A i \in 1 .. Len(list) : list[i].at <= m.at => i <= p
  BY <1>1, <1>3
<1>6. p > 0 => list[p].at <= m.at
  BY <1>3
<1>7. Place(p, list, m)
  BY <1>3, <1>4, <1>5, <1>6 DEF Place
<1> HIDE DEF p
<1>8. QED
  BY <1>7

\* A part of a list.
LEMMA PartOfList ==
    ASSUME NEW list \in Seq(Entry), NEW p \in 0 .. Len(list), NEW q \in 0 .. Len(list)
    PROVE  LET part == SubSeq(list, p + 1, q) IN
           /\ part \in Seq(Entry)
           /\ \A i \in DOMAIN part : p + i \in DOMAIN list /\ p + i <= q /\ part[i] = list[p + i]
           /\ \A i \in p + 1 .. q : i - p \in DOMAIN part
<1> DEFINE part == SubSeq(list, p + 1, q)
<1>1. Len(list) \in Nat /\ DOMAIN list = 1 .. Len(list)
  OBVIOUS
<1>2. p + 1 \in Int /\ q \in Int /\ \A i \in p + 1 .. q : list[i] \in Entry
  BY <1>1
<1>3. /\ part \in Seq(Entry)
      /\ Len(part) = IF p + 1 <= q THEN q - (p + 1) + 1 ELSE 0
      /\ \A i \in 1 .. q - (p + 1) + 1 : part[i] = list[(p + 1) + i - 1]
  BY <1>2, SubSeqProperties
<1>4. DOMAIN part = 1 .. Len(part)
  BY <1>3
<1> HIDE DEF part
<1>5. \A i \in 1 .. Len(part) : p + i \in 1 .. Len(list) /\ p + i <= q /\ part[i] = list[p + i]
  <2> TAKE i \in 1 .. Len(part)
  <2>1. p + 1 <= q /\ i \in 1 .. q - (p + 1) + 1 /\ (p + 1) + i - 1 = p + i
    BY <1>1, <1>3
  <2>2. QED
    BY <1>1, <1>3, <2>1
<1>6. \A i \in p + 1 .. q : i - p \in 1 .. Len(part)
  BY <1>1, <1>3
<1>7. QED
  BY <1>1, <1>3, <1>4, <1>5, <1>6 DEF part

\* A part of a list has what the list has.
LEMMA PartKeeps ==
    ASSUME NEW list \in Seq(Entry), NEW p \in 0 .. Len(list), NEW q \in 0 .. Len(list)
    PROVE  LET part == SubSeq(list, p + 1, q) IN
           /\ Distinct(list) => Distinct(part)
           /\ RowsTimed(list) => RowsTimed(part)
           /\ InTimeOrder(list) => InTimeOrder(part)
<1> DEFINE part == SubSeq(list, p + 1, q)
<1>1. /\ part \in Seq(Entry)
      /\ \A i \in DOMAIN part : p + i \in DOMAIN list /\ part[i] = list[p + i]
  BY PartOfList
<1>2. DOMAIN part \subseteq Nat /\ DOMAIN list \subseteq Nat
  BY <1>1
<1> HIDE DEF part
<1>3. \A i, j \in DOMAIN part : p + i = p + j => i = j
  BY <1>2
<1>4. \A i, j \in DOMAIN part : i < j => p + i < p + j
  BY <1>2
<1>5. ASSUME Distinct(list) PROVE Distinct(part)
  BY <1>1, <1>3, <1>5 DEF Distinct
<1>6. ASSUME RowsTimed(list) PROVE RowsTimed(part)
  BY <1>1, <1>6 DEF RowsTimed
<1>7. ASSUME InTimeOrder(list) PROVE InTimeOrder(part)
  BY <1>1, <1>4, <1>7 DEF InTimeOrder
<1>8. QED
  BY <1>5, <1>6, <1>7 DEF part

\* A new entry is in the list, and nothing else has changed.
LEMMA InsertKeeps ==
    ASSUME NEW list \in Seq(Entry), NEW m \in Entry
    PROVE  LET new == Insert(list, m) IN
           /\ new \in Seq(Entry)
           /\ Ids(new) = Ids(list) \cup {m.id}
           /\ Distinct(list) /\ m.id \notin Ids(list) => Distinct(new)
           /\ RowsTimed(list) /\ (m.id \in Rows => m.at = m.id) => RowsTimed(new)
           /\ InTimeOrder(list) => InTimeOrder(new)
<1> DEFINE n == Len(list)
<1>0. PICK p : Place(p, list, m)
  BY InsertPlace
<1>1. /\ p \in 0 .. n
      /\ \A i \in 1 .. n : list[i].at <= m.at => i <= p
      /\ p > 0 => list[p].at <= m.at
  BY <1>0 DEF Place
<1>2. n \in Nat /\ DOMAIN list = 1 .. n /\ p \in Nat /\ p <= n
  BY <1>1
<1> DEFINE a == SubSeq(list, 1, p)
           b == SubSeq(list, p + 1, n)
           c == a \o <<m>>
<1>3. /\ a \in Seq(Entry)
      /\ \A i \in DOMAIN a : i \in DOMAIN list /\ i <= p /\ a[i] = list[i]
      /\ \A i \in 1 .. p : i \in DOMAIN a
  <2>1. 0 \in 0 .. Len(list) /\ p \in 0 .. Len(list) /\ 0 + 1 = 1
    BY <1>2
  <2>2. /\ SubSeq(list, 0 + 1, p) \in Seq(Entry)
        /\ \A i \in DOMAIN SubSeq(list, 0 + 1, p) :
              0 + i \in DOMAIN list /\ 0 + i <= p /\ SubSeq(list, 0 + 1, p)[i] = list[0 + i]
        /\ \A i \in 0 + 1 .. p : i - 0 \in DOMAIN SubSeq(list, 0 + 1, p)
    BY <2>1, PartOfList
  <2>3. /\ a \in Seq(Entry)
        /\ \A i \in DOMAIN a : 0 + i \in DOMAIN list /\ 0 + i <= p /\ a[i] = list[0 + i]
        /\ \A i \in 1 .. p : i - 0 \in DOMAIN a
    BY <2>2
  <2> HIDE DEF a
  <2>4. \A i \in DOMAIN a : i \in Nat /\ 0 + i = i
    BY <2>3
  <2>5. QED
    BY <1>2, <2>3, <2>4
<1>4. /\ b \in Seq(Entry)
      /\ \A i \in DOMAIN b : p + i \in DOMAIN list /\ b[i] = list[p + i]
      /\ \A i \in p + 1 .. n : i - p \in DOMAIN b
  BY <1>2, PartOfList
<1>5. /\ Distinct(list) => Distinct(a) /\ Distinct(b)
      /\ RowsTimed(list) => RowsTimed(a) /\ RowsTimed(b)
      /\ InTimeOrder(list) => InTimeOrder(a) /\ InTimeOrder(b)
  <2>1. 0 \in 0 .. Len(list) /\ n \in 0 .. Len(list) /\ p \in 0 .. Len(list) /\ a = SubSeq(list, 0 + 1, p)
    BY <1>2
  <2> HIDE DEF a, b
  <2>2. /\ Distinct(list) => Distinct(a)
        /\ RowsTimed(list) => RowsTimed(a)
        /\ InTimeOrder(list) => InTimeOrder(a)
    BY <2>1, PartKeeps
  <2>3. /\ Distinct(list) => Distinct(b)
        /\ RowsTimed(list) => RowsTimed(b)
        /\ InTimeOrder(list) => InTimeOrder(b)
    BY <2>1, PartKeeps DEF b
  <2>4. QED
    BY <2>2, <2>3
<1>6. /\ <<m>> \in Seq(Entry) /\ DOMAIN <<m>> = {1} /\ <<m>>[1] = m
      /\ Ids(<<m>>) = {m.id}
  BY DEF Ids
<1>7. /\ Distinct(<<m>>) /\ InTimeOrder(<<m>>)
      /\ (m.id \in Rows => m.at = m.id) => RowsTimed(<<m>>)
  BY <1>6 DEF Distinct, InTimeOrder, RowsTimed
<1> HIDE DEF a, b, n
<1>8. Ids(a) \cup Ids(b) = Ids(list)
  <2>1. \A i \in DOMAIN a : a[i].id \in Ids(list)
    BY <1>3 DEF Ids
  <2>2. \A i \in DOMAIN b : b[i].id \in Ids(list)
    BY <1>4 DEF Ids
  <2>3. ASSUME NEW i \in 1 .. n PROVE list[i].id \in Ids(a) \cup Ids(b)
    <3>1. CASE i <= p
      BY <1>1, <1>3, <3>1 DEF Ids
    <3>2. CASE ~ (i <= p)
      <4>1. i \in p + 1 .. n /\ p + (i - p) = i
        BY <1>1, <1>2, <3>2
      <4>2. i - p \in DOMAIN b /\ b[i - p] = list[i]
        BY <1>4, <4>1
      <4>3. QED
        BY <4>2 DEF Ids
    <3>3. QED
      BY <3>1, <3>2
  <2>4. QED
    BY <1>2, <2>1, <2>2, <2>3 DEF Ids
<1>9. Distinct(list) => Ids(a) \cap Ids(b) = {}
  <2> SUFFICES ASSUME Distinct(list), NEW i \in DOMAIN a, NEW j \in DOMAIN b, a[i].id = b[j].id
               PROVE  FALSE
    BY DEF Ids
  <2>1. i \in DOMAIN list /\ p + j \in DOMAIN list /\ i <= p /\ j \in Nat /\ j >= 1
    <3>1. j \in Nat /\ j >= 1
      BY <1>4
    <3>2. QED
      BY <1>3, <1>4, <3>1
  <2>2. i = p + j
    BY <1>3, <1>4, <2>1 DEF Distinct
  <2>3. QED
    BY <1>1, <1>2, <2>1, <2>2
<1>10. /\ c \in Seq(Entry) /\ Ids(c) = Ids(a) \cup {m.id}
       /\ Distinct(a) /\ m.id \notin Ids(a) => Distinct(c)
       /\ RowsTimed(a) /\ (m.id \in Rows => m.at = m.id) => RowsTimed(c)
  <2>1. /\ c \in Seq(Entry) /\ Ids(c) = Ids(a) \cup Ids(<<m>>)
        /\ Distinct(a) /\ Distinct(<<m>>) /\ Ids(a) \cap Ids(<<m>>) = {} => Distinct(c)
        /\ RowsTimed(a) /\ RowsTimed(<<m>>) => RowsTimed(c)
    BY <1>3, <1>6, JoinedList
  <2> HIDE DEF c
  <2>2. m.id \notin Ids(a) => Ids(a) \cap Ids(<<m>>) = {}
    BY <1>6
  <2>3. QED
    BY <1>6, <1>7, <2>1, <2>2
<1>11. \A i \in DOMAIN list : list[i].at \in Nat /\ m.at \in Nat
  <2>1. \A x \in Entry : x.at \in Nat
    BY ViewAssumption DEF Entry, Rows
  <2>2. \A i \in DOMAIN list : list[i] \in Entry
    OBVIOUS
  <2>3. QED
    BY <2>1, <2>2
<1>12. ASSUME InTimeOrder(list)
       PROVE  /\ \A i \in DOMAIN a : a[i].at <= m.at
              /\ \A j \in DOMAIN b : m.at <= b[j].at
  <2>1. ASSUME NEW i \in DOMAIN a PROVE a[i].at <= m.at
    <3>1. p > 0 /\ p \in DOMAIN list /\ i \in DOMAIN list /\ i <= p
      BY <1>1, <1>2, <1>3
    <3>2. i = p \/ i < p
      BY <1>2, <3>1
    <3>3. list[i].at <= list[p].at
      BY <1>11, <1>12, <3>1, <3>2 DEF InTimeOrder
    <3>4. QED
      BY <1>1, <1>3, <1>11, <3>1, <3>3
  <2>2. ASSUME NEW j \in DOMAIN b PROVE m.at <= b[j].at
    <3>1. p + j \in 1 .. n /\ ~ (p + j <= p) /\ b[j] = list[p + j]
      <4>1. j \in Nat /\ j >= 1
        BY <1>4
      <4>2. QED
        BY <1>1, <1>2, <1>4, <4>1
    <3>2. ~ (list[p + j].at <= m.at)
      BY <1>1, <3>1
    <3>3. QED
      BY <1>2, <1>11, <3>1, <3>2
  <2>3. QED
    BY <2>1, <2>2
<1>13. InTimeOrder(list) => InTimeOrder(c)
  BY <1>3, <1>5, <1>6, <1>7, <1>12, JoinedList
<1>14. ASSUME InTimeOrder(list), NEW i \in DOMAIN c, NEW j \in DOMAIN b
       PROVE  c[i].at <= b[j].at
  <2>1. c[i] = m \/ \E k \in DOMAIN a : c[i] = a[k]
    <3>1. c[i] = IF i <= Len(a) THEN a[i] ELSE <<m>>[i - Len(a)]
      BY <1>3, <1>6, ConcatProperties
    <3>2. i \in 1 .. Len(a) + 1 /\ Len(a) \in Nat /\ DOMAIN a = 1 .. Len(a)
      BY <1>3, <1>6, <1>10, ConcatProperties
    <3>3. CASE i <= Len(a)
      BY <3>1, <3>2, <3>3
    <3>4. CASE ~ (i <= Len(a))
      <4>1. i - Len(a) = 1
        BY <3>2, <3>4
      <4>2. QED
        BY <1>6, <3>1, <3>4, <4>1
    <3>5. QED
      BY <3>3, <3>4
  <2>2. m.at <= b[j].at /\ b[j].at \in Nat
    BY <1>4, <1>11, <1>12, <1>14
  <2>3. CASE c[i] = m
    BY <2>2, <2>3
  <2>4. ASSUME NEW k \in DOMAIN a, c[i] = a[k] PROVE c[i].at <= b[j].at
    <3>1. a[k].at <= m.at /\ a[k].at \in Nat /\ m.at \in Nat
      BY <1>3, <1>11, <1>12, <1>14
    <3>2. QED
      BY <2>2, <2>4, <3>1
  <2>5. QED
    BY <2>1, <2>3, <2>4
<1>15. Insert(list, m) = c \o b
  BY <1>0 DEF Place, a, b, n
<1> HIDE DEF c
<1>16. /\ c \o b \in Seq(Entry) /\ Ids(c \o b) = Ids(c) \cup Ids(b)
       /\ Distinct(c) /\ Distinct(b) /\ Ids(c) \cap Ids(b) = {} => Distinct(c \o b)
       /\ RowsTimed(c) /\ RowsTimed(b) => RowsTimed(c \o b)
       /\ InTimeOrder(list) => InTimeOrder(c \o b)
  BY <1>4, <1>5, <1>10, <1>13, <1>14, JoinedList
<1>17. Distinct(list) /\ m.id \notin Ids(list) => Distinct(c \o b)
  BY <1>5, <1>8, <1>9, <1>10, <1>16
<1>18. RowsTimed(list) /\ (m.id \in Rows => m.at = m.id) => RowsTimed(c \o b)
  BY <1>5, <1>10, <1>16
<1>19. Ids(c \o b) = Ids(list) \cup {m.id}
  BY <1>8, <1>10, <1>16
<1>20. QED
  BY <1>15, <1>16, <1>17, <1>18, <1>19

\* A page, as entries.
LEMMA PageList ==
    ASSUME NEW page, page \subseteq Body
    PROVE  /\ AsRows(page) \in Seq(Entry)
           /\ Ids(AsRows(page)) = {b.id : b \in page}
           /\ Distinct(AsRows(page)) /\ RowsTimed(AsRows(page)) /\ InTimeOrder(AsRows(page))
           /\ \A i \in DOMAIN AsRows(page) :
                 AsRows(page)[i].at = AsRows(page)[i].id /\ AsRows(page)[i].id \in {b.id : b \in page}
<1> DEFINE q == InOrder(page)
           r == AsRows(page)
<1>1. \A b \in Body : b.id \in 1 .. LastRow /\ AsRow(b) \in Entry
                      /\ AsRow(b).id = b.id /\ AsRow(b).at = b.id
  BY DEF Body, Entry, AsRow, Rows
<1>2. LastRow \in Nat
  BY ViewAssumption
<1>3. /\ q \in Seq(page) /\ DOMAIN q = 1 .. Len(q) /\ Len(q) \in Nat
      /\ \A i, j \in DOMAIN q : i < j => q[i].id < q[j].id
      /\ \A b \in page : \E i \in DOMAIN q : q[i].id = b.id
  BY <1>1, <1>2, InOrderOf
<1>4. r = [i \in 1 .. Len(q) |-> AsRow(q[i])]
  BY <1>3 DEF AsRows
<1>5. \A i \in 1 .. Len(q) : q[i] \in page /\ q[i] \in Body
  BY <1>3
<1> HIDE DEF q, r
<1>6. r \in [1 .. Len(q) -> Entry]
  BY <1>1, <1>4, <1>5
<1>7. r \in Seq(Entry) /\ DOMAIN r = 1 .. Len(q)
  <2>1. r \in Seq(Entry)
    BY <1>3, <1>6, SeqDef
  <2>2. QED
    BY <1>6, <2>1
<1>8. \A i \in 1 .. Len(q) : r[i].id = q[i].id /\ r[i].at = r[i].id /\ q[i].id \in Nat
  BY <1>1, <1>4, <1>5
<1>9. Ids(r) = {b.id : b \in page}
  <2>1. \A i \in 1 .. Len(q) : r[i].id \in {b.id : b \in page}
    BY <1>5, <1>8
  <2>2. \A b \in page : \E i \in 1 .. Len(q) : r[i].id = b.id
    BY <1>3, <1>8
  <2>3. QED
    BY <1>7, <2>1, <2>2 DEF Ids
<1>10. Distinct(r)
  <2> SUFFICES ASSUME NEW i \in 1 .. Len(q), NEW j \in 1 .. Len(q), r[i].id = r[j].id
               PROVE  i = j
    BY <1>7 DEF Distinct
  <2>1. q[i].id = q[j].id /\ q[i].id \in Nat
    BY <1>8
  <2>2. (i < j => q[i].id < q[j].id) /\ (j < i => q[j].id < q[i].id)
    BY <1>3
  <2>3. ~ (q[i].id < q[j].id) /\ ~ (q[j].id < q[i].id)
    BY <2>1
  <2>4. QED
    BY <1>3, <2>2, <2>3
<1>11. RowsTimed(r)
  BY <1>7, <1>8 DEF RowsTimed
<1>12. InTimeOrder(r)
  <2> SUFFICES ASSUME NEW i \in 1 .. Len(q), NEW j \in 1 .. Len(q), i < j
               PROVE  r[i].at <= r[j].at
    BY <1>7 DEF InTimeOrder
  <2>1. q[i].id < q[j].id /\ q[i].id \in Nat /\ q[j].id \in Nat
    BY <1>3, <1>8
  <2>2. r[i].at = q[i].id /\ r[j].at = q[j].id
    BY <1>8
  <2>3. QED
    BY <2>1, <2>2
<1>13. \A i \in DOMAIN r : r[i].at = r[i].id /\ r[i].id \in {b.id : b \in page}
  BY <1>5, <1>7, <1>8
<1>14. QED
  BY <1>7, <1>9, <1>10, <1>11, <1>12, <1>13 DEF r

-----------------------------------------------------------------------------
(* Delivering rows.                                                        *)

\* appendOrMerge of one row.
LEMMA MergeKeeps ==
    ASSUME pending \in [Rows -> {None, Queued, Settled}],
           NEW list \in Seq(Entry), NEW b \in Body
    PROVE  /\ Merge(list, b) \in Seq(Entry)
           /\ Ids(Merge(list, b)) = Ids(list) \cup {b.id}
           /\ Distinct(list) => Distinct(Merge(list, b))
           /\ RowsTimed(list) => RowsTimed(Merge(list, b))
           /\ InTimeOrder(list) => InTimeOrder(Merge(list, b))
<1> DEFINE m == [AsRow(b) EXCEPT !.st = IF pending[b.id] = None THEN @ ELSE pending[b.id]]
<1>1. m \in Entry /\ m.id = b.id /\ (m.id \in Rows => m.at = m.id)
  BY DEF Body, Entry, AsRow, None, Queued, Settled
<1>2. CASE b.id \in Ids(list)
  BY <1>2 DEF Merge
<1>3. CASE b.id \notin Ids(list)
  <2>1. Merge(list, b) = Insert(list, m)
    BY <1>3 DEF Merge
  <2> HIDE DEF m
  <2>2. QED
    BY <1>1, <1>3, <2>1, InsertKeeps
<1>4. QED
  BY <1>2, <1>3

\* The rows one after the other: a recursive function on the numbers of the rows.
LEMMA MergedSteps ==
    ASSUME NEW bodies \in Seq(Body)
    PROVE  \E f : /\ f[0] = messages
                  /\ \A i \in 1 .. Len(bodies) : f[i] = Merge(f[i - 1], bodies[i])
                  /\ Merged(bodies) = f[Len(bodies)]
<1> DEFINE n == Len(bodies)
           F(h, k) == [i \in 0 .. k |-> IF i = 0 THEN messages ELSE Merge(h[i - 1], bodies[i])]
           T == {k \in 0 .. n : \E h : h = F(h, k)}
<1>1. n \in Nat
  OBVIOUS
<1>2. 0 \in T
  <2> DEFINE g == [i \in 0 .. 0 |-> messages]
  <2>1. g = F(g, 0)
    OBVIOUS
  <2>2. 0 \in 0 .. n
    BY <1>1
  <2> HIDE DEF g, F, n
  <2>3. QED
    BY <2>1, <2>2
<1>3. ASSUME NEW k \in 0 .. n - 1, k \in T PROVE k + 1 \in T
  <2>1. PICK h : h = F(h, k)
    BY <1>3
  <2> DEFINE g == [i \in 0 .. k + 1 |->
                      IF i = k + 1 THEN Merge(h[k], bodies[k + 1]) ELSE h[i]]
  <2>2. ASSUME NEW i \in 0 .. k + 1
        PROVE  g[i] = IF i = 0 THEN messages ELSE Merge(g[i - 1], bodies[i])
    <3>1. CASE i = 0
      <4>1. g[0] = h[0] /\ h[0] = messages
        BY <2>1
      <4>2. QED
        BY <3>1, <4>1
    <3>2. CASE i \in 1 .. k
      <4>1. g[i] = h[i] /\ g[i - 1] = h[i - 1] /\ h[i] = Merge(h[i - 1], bodies[i])
        BY <2>1, <3>2
      <4>2. QED
        BY <3>2, <4>1
    <3>3. CASE i = k + 1
      <4>1. g[i] = Merge(h[k], bodies[k + 1]) /\ g[k] = h[k] /\ i - 1 = k /\ i # 0
        BY <3>3
      <4> HIDE DEF g
      <4>2. QED
        BY <3>3, <4>1
    <3>4. QED
      BY <3>1, <3>2, <3>3
  <2>3. g = F(g, k + 1)
    <3>1. g = [i \in 0 .. k + 1 |-> g[i]]
      OBVIOUS
    <3> HIDE DEF g
    <3>2. QED
      BY <2>2, <3>1
  <2>4. k + 1 \in 0 .. n
    BY <1>1
  <2> HIDE DEF g, F, n
  <2>5. QED
    BY <2>3, <2>4
<1>4. n \in T
  <2> HIDE DEF T, n
  <2>1. \A i \in 0 .. n : i \in T
    BY <1>1, <1>2, <1>3, UpTo
  <2>2. QED
    BY <1>1, <2>1
<1> DEFINE f == CHOOSE f : f = [i \in 0 .. Len(bodies) |->
                                  IF i = 0 THEN messages ELSE Merge(f[i - 1], bodies[i])]
<1>5. f = [i \in 0 .. Len(bodies) |-> IF i = 0 THEN messages ELSE Merge(f[i - 1], bodies[i])]
  BY <1>4
<1>6. Merged(bodies) = f[Len(bodies)]
  BY DEF Merged
<1> HIDE DEF f
<1>7. f[0] = messages /\ \A i \in 1 .. Len(bodies) : f[i] = Merge(f[i - 1], bodies[i])
  <2>1. \A i \in 0 .. Len(bodies) : f[i] = IF i = 0 THEN messages ELSE Merge(f[i - 1], bodies[i])
    BY <1>5
  <2>2. QED
    BY <1>1, <2>1
<1>8. QED
  BY <1>6, <1>7

\* What the delivered list holds.
LEMMA MergedKeeps ==
    ASSUME pending \in [Rows -> {None, Queued, Settled}], messages \in Seq(Entry),
           NEW bodies \in Seq(Body)
    PROVE  /\ Merged(bodies) \in Seq(Entry)
           /\ Ids(Merged(bodies)) = Ids(messages) \cup Ids(bodies)
           /\ Distinct(messages) => Distinct(Merged(bodies))
           /\ RowsTimed(messages) => RowsTimed(Merged(bodies))
           /\ InTimeOrder(messages) => InTimeOrder(Merged(bodies))
<1>1. PICK f : /\ f[0] = messages
               /\ \A i \in 1 .. Len(bodies) : f[i] = Merge(f[i - 1], bodies[i])
               /\ Merged(bodies) = f[Len(bodies)]
  BY MergedSteps
<1> DEFINE n == Len(bodies)
           P(k) == /\ f[k] \in Seq(Entry)
                   /\ \A x : x \in Ids(f[k]) <=>
                               x \in Ids(messages) \/ \E i \in 1 .. k : bodies[i].id = x
                   /\ Distinct(messages) => Distinct(f[k])
                   /\ RowsTimed(messages) => RowsTimed(f[k])
                   /\ InTimeOrder(messages) => InTimeOrder(f[k])
           T == {k \in 0 .. n : P(k)}
<1>2. n \in Nat /\ DOMAIN bodies = 1 .. n
  OBVIOUS
<1>3. 0 \in T
  BY <1>1, <1>2
<1>4. ASSUME NEW k \in 0 .. n - 1, k \in T PROVE k + 1 \in T
  <2>1. P(k) /\ k + 1 \in 1 .. n /\ (k + 1) - 1 = k
    BY <1>2, <1>4
  <2>2. f[k + 1] = Merge(f[k], bodies[k + 1]) /\ bodies[k + 1] \in Body
    BY <1>1, <1>2, <2>1
  <2>3. /\ Merge(f[k], bodies[k + 1]) \in Seq(Entry)
        /\ Ids(Merge(f[k], bodies[k + 1])) = Ids(f[k]) \cup {bodies[k + 1].id}
        /\ Distinct(f[k]) => Distinct(Merge(f[k], bodies[k + 1]))
        /\ RowsTimed(f[k]) => RowsTimed(Merge(f[k], bodies[k + 1]))
        /\ InTimeOrder(f[k]) => InTimeOrder(Merge(f[k], bodies[k + 1]))
    BY <2>1, <2>2, MergeKeeps
  <2>4. ASSUME NEW x
        PROVE  x \in Ids(f[k + 1]) <=>
                  x \in Ids(messages) \/ \E i \in 1 .. k + 1 : bodies[i].id = x
    <3>1. x \in Ids(f[k + 1]) <=> x \in Ids(f[k]) \/ x = bodies[k + 1].id
      BY <2>2, <2>3
    <3>2. (\E i \in 1 .. k + 1 : bodies[i].id = x)
             <=> (\E i \in 1 .. k : bodies[i].id = x) \/ x = bodies[k + 1].id
      <4>1. \A i \in 1 .. k + 1 : i \in 1 .. k \/ i = k + 1
        BY <2>1
      <4>2. \A i \in 1 .. k : i \in 1 .. k + 1
        BY <2>1
      <4>3. k + 1 \in 1 .. k + 1
        BY <2>1
      <4>4. QED
        BY <4>1, <4>2, <4>3
    <3>3. QED
      BY <2>1, <3>1, <3>2
  <2>5. P(k + 1)
    BY <2>1, <2>2, <2>3, <2>4
  <2>6. QED
    BY <1>2, <2>1, <2>5
<1>5. n \in T
  <2> HIDE DEF T, n
  <2>1. \A i \in 0 .. n : i \in T
    BY <1>2, <1>3, <1>4, UpTo
  <2>2. QED
    BY <1>2, <2>1
<1>6. P(n) /\ Merged(bodies) = f[n]
  BY <1>1, <1>5
<1>7. Ids(f[n]) = Ids(messages) \cup Ids(bodies)
  <2>1. \A x : x \in Ids(bodies) <=> \E i \in 1 .. n : bodies[i].id = x
    BY <1>2 DEF Ids
  <2>2. QED
    BY <1>6, <2>1
<1>8. QED
  BY <1>6, <1>7

\* A number of a set, or 0, that no number of it exceeds is its biggest.
LEMMA BiggestIs ==
    ASSUME NEW n \in Nat, NEW S, S \subseteq 0 .. n,
           NEW x \in S \cup {0}, \A y \in S : y <= x
    PROVE  Biggest(S) = x
<1> DEFINE b == Biggest(S)
<1>1. b \in S \cup {0} /\ \A y \in S : y <= b
  BY BiggestOf
<1>2. b \in 0 .. n /\ x \in 0 .. n
  <2>1. b \in 0 .. n
    BY BiggestOf
  <2>2. 0 \in 0 .. n
    OBVIOUS
  <2>3. QED
    BY <2>1, <2>2
<1> HIDE DEF b
<1>3. (b \in S => b <= x) /\ (x \in S => x <= b)
  BY <1>1
<1>4. (b = 0 => b <= x) /\ (x = 0 => x <= b)
  BY <1>2
<1>5. b <= x /\ x <= b
  BY <1>1, <1>3, <1>4
<1>6. QED
  BY <1>2, <1>5 DEF b

\* The constants, as the lemmas use them.
LEMMA Constants ==
    /\ LastRow \in Nat /\ LastRow >= 1 /\ Rows = 1 .. LastRow
    /\ Sends \cap Rows = {} /\ PageSize \in Nat /\ PageSize >= 1
    /\ FetchLimit \in Nat /\ Window \in Nat
    /\ MaxFaults \in Nat /\ MaxLeaves \in Nat /\ MaxFetches \in Nat
    /\ Clocks \subseteq Rows /\ Sends \subseteq Nat
<1>1. Rows \subseteq 0 .. LastRow
  BY ViewAssumption DEF Rows
<1>2. QED
  BY <1>1, ViewAssumption DEF Rows

\* What the store keeps of its list.
ListHolds == /\ Distinct(messages)
             /\ \A s \in Sends : (send[s] = "shown") = (s \in Ids(messages))
             /\ storeMark \in Shown \cup {0}
StoreHolds == /\ messages \in Seq(Entry) /\ pending \in [Rows -> {None, Queued, Settled}]
              /\ storeMark \in 0 .. LastRow
              /\ ListHolds /\ RowsTimed(messages)

\* The entries of a list.
LEMMA EntriesOf ==
    ASSUME NEW list \in Seq(Entry)
    PROVE  /\ DOMAIN list = 1 .. Len(list) /\ Len(list) \in Nat
           /\ \A i \in DOMAIN list : /\ list[i] \in Entry /\ list[i].at \in Nat
                                     /\ list[i].id \in Rows \cup Sends /\ list[i].id \in Ids(list)
           /\ Ids(list) \subseteq Rows \cup Sends
<1>1. \A x \in Entry : x.at \in Nat /\ x.id \in Rows \cup Sends
  BY Constants DEF Entry
<1>2. \A i \in DOMAIN list : list[i] \in Entry
  OBVIOUS
<1>3. \A i \in DOMAIN list : list[i].id \in Ids(list)
  BY DEF Ids
<1>4. Ids(list) \subseteq Rows \cup Sends
  BY <1>1, <1>2 DEF Ids
<1>5. QED
  BY <1>1, <1>2, <1>3, <1>4

-----------------------------------------------------------------------------
(* A refresh.                                                              *)

\* What a refresh leaves of the list on each side of its page.
LEMMA SidesOf ==
    ASSUME StoreHolds, NEW page, page \subseteq Body
    PROVE  /\ Before(page) \in Seq(Entry) /\ Behind(page) \in Seq(Entry)
           /\ Distinct(Before(page)) /\ Distinct(Behind(page))
           /\ RowsTimed(Before(page)) /\ RowsTimed(Behind(page))
           /\ InTimeOrder(messages) => InTimeOrder(Before(page)) /\ InTimeOrder(Behind(page))
           /\ \A x : x \in Ids(Before(page)) <=>
                  /\ x \in Shown /\ page # {} /\ \A b \in page : x < b.id
           /\ \A x : x \in Ids(Behind(page)) <=>
                  \/ x \in Ids(messages) \cap Sends
                  \/ /\ x \in Ids(messages) /\ page # {}
                     /\ \E i \in DOMAIN messages :
                           messages[i].id = x /\ \A b \in page : messages[i].at > b.id
<1> DEFINE I == {i \in DOMAIN messages :
                    /\ messages[i].id \in Rows
                    /\ page # {} /\ \A b \in page : messages[i].at < b.id}
           J == {i \in DOMAIN messages :
                    \/ messages[i].id \in Sends
                    \/ page # {} /\ \A b \in page : messages[i].at > b.id}
<1>1. Before(page) = Keep(messages, I) /\ Behind(page) = Keep(messages, J)
  BY DEF Before, Behind
<1>2. I \subseteq DOMAIN messages /\ J \subseteq DOMAIN messages
  OBVIOUS
<1>3. messages \in Seq(Entry) /\ Distinct(messages) /\ RowsTimed(messages)
  BY DEF StoreHolds, ListHolds, Distinct
<1>4. ASSUME NEW x
      PROVE  (\E i \in I : messages[i].id = x) <=>
                /\ x \in Shown /\ page # {} /\ \A b \in page : x < b.id
  <2>1. ASSUME NEW i \in I, messages[i].id = x
        PROVE  x \in Shown /\ page # {} /\ \A b \in page : x < b.id
    BY <1>3, <2>1 DEF Shown, Ids, RowsTimed
  <2>2. ASSUME x \in Shown, page # {}, \A b \in page : x < b.id
        PROVE  \E i \in I : messages[i].id = x
    <3>1. PICK i \in DOMAIN messages : messages[i].id = x
      BY <2>2 DEF Shown, Ids
    <3>2. messages[i].id \in Rows /\ messages[i].at = x
      BY <1>3, <2>2, <3>1 DEF Shown, RowsTimed
    <3>3. i \in I
      BY <2>2, <3>2
    <3>4. QED
      BY <3>1, <3>3
  <2>3. QED
    BY <2>1, <2>2
<1>5. ASSUME NEW x
      PROVE  (\E i \in J : messages[i].id = x) <=>
                \/ x \in Ids(messages) \cap Sends
                \/ /\ x \in Ids(messages) /\ page # {}
                   /\ \E i \in DOMAIN messages :
                         messages[i].id = x /\ \A b \in page : messages[i].at > b.id
  BY DEF Ids
<1> HIDE DEF I, J
<1>6. /\ Before(page) \in Seq(Entry) /\ Distinct(Before(page)) /\ RowsTimed(Before(page))
      /\ \A x : x \in Ids(Before(page)) <=> \E i \in I : messages[i].id = x
      /\ InTimeOrder(messages) => InTimeOrder(Before(page))
  BY <1>1, <1>2, <1>3, KeptList
<1>7. /\ Behind(page) \in Seq(Entry) /\ Distinct(Behind(page)) /\ RowsTimed(Behind(page))
      /\ \A x : x \in Ids(Behind(page)) <=> \E i \in J : messages[i].id = x
      /\ InTimeOrder(messages) => InTimeOrder(Behind(page))
  BY <1>1, <1>2, <1>3, KeptList
<1>8. \A x : x \in Ids(Before(page)) <=>
                  /\ x \in Shown /\ page # {} /\ \A b \in page : x < b.id
  BY <1>4, <1>6
<1>9. \A x : x \in Ids(Behind(page)) <=>
                  \/ x \in Ids(messages) \cap Sends
                  \/ /\ x \in Ids(messages) /\ page # {}
                     /\ \E i \in DOMAIN messages :
                           messages[i].id = x /\ \A b \in page : messages[i].at > b.id
  BY <1>5, <1>7
<1>10. QED
  BY <1>6, <1>7, <1>8, <1>9

\* The list a refresh leaves.
Hydrated(page) == Before(page) \o AsRows(page) \o Behind(page)

\* The page replaces the span it covers: the list stays sound, sends stay shown, the mark
\* goes back only when the page is empty, and a list without sends stays in order.
LEMMA HydratedList ==
    ASSUME StoreHolds, NEW page, page \subseteq Body
    PROVE  /\ Hydrated(page) \in Seq(Entry) /\ Distinct(Hydrated(page)) /\ RowsTimed(Hydrated(page))
           /\ Ids(Hydrated(page)) \cap Sends = Ids(messages) \cap Sends
           /\ \A b \in page : b.id \in Ids(Hydrated(page))
           /\ Ids(Hydrated(page)) \subseteq Ids(messages) \cup {b.id : b \in page}
           /\ page # {} => \A x \in Shown : \E y \in Ids(Hydrated(page)) \cap Rows : x <= y
           /\ InTimeOrder(messages) /\ Ids(messages) \cap Sends = {} => InTimeOrder(Hydrated(page))
<1> DEFINE a == Before(page)
           r == AsRows(page)
           c == Behind(page)
           list == Hydrated(page)
           P == {b.id : b \in page}
<1>1. /\ a \in Seq(Entry) /\ c \in Seq(Entry)
      /\ Distinct(a) /\ Distinct(c) /\ RowsTimed(a) /\ RowsTimed(c)
      /\ InTimeOrder(messages) => InTimeOrder(a) /\ InTimeOrder(c)
  BY SidesOf
<1>2. \A x : x \in Ids(a) <=> x \in Shown /\ page # {} /\ \A b \in page : x < b.id
  BY SidesOf
<1>3. \A x : x \in Ids(c) <=>
                  \/ x \in Ids(messages) \cap Sends
                  \/ /\ x \in Ids(messages) /\ page # {}
                     /\ \E i \in DOMAIN messages :
                           messages[i].id = x /\ \A b \in page : messages[i].at > b.id
  BY SidesOf
<1>4. /\ r \in Seq(Entry) /\ Ids(r) = P
      /\ Distinct(r) /\ RowsTimed(r) /\ InTimeOrder(r)
      /\ \A i \in DOMAIN r : r[i].at = r[i].id /\ r[i].id \in P
  BY PageList
<1>5. P \subseteq Rows /\ \A b \in page : b.id \in P /\ b.id \in Nat
  BY Constants DEF Body
<1>6. list = (a \o r) \o c
  BY DEF Hydrated
<1>7. \A x \in Ids(c) \cap Rows : page # {} /\ \A b \in page : x > b.id
  <2> TAKE x \in Ids(c) \cap Rows
  <2>1. PICK i \in DOMAIN messages : /\ messages[i].id = x /\ page # {}
                                     /\ \A b \in page : messages[i].at > b.id
    BY <1>3, Constants
  <2>2. messages[i].at = x
    BY <2>1 DEF StoreHolds, RowsTimed
  <2>3. QED
    BY <2>1, <2>2
<1> HIDE DEF a, r, c, P, list
<1>8. Ids(a) \cap Ids(r) = {}
  BY <1>2, <1>4, <1>5 DEF P
<1>9. Ids(a) \subseteq Rows /\ Ids(a) \subseteq Ids(messages)
  BY <1>2 DEF Shown
<1>10. (Ids(a) \cup Ids(r)) \cap Ids(c) = {}
  <2>1. \A x \in Ids(c) \cap Rows : x \notin P
    <3> SUFFICES ASSUME NEW x \in Ids(c) \cap Rows, NEW b \in page, x = b.id PROVE FALSE
      BY DEF P
    <3>1. x > b.id /\ x \in Nat
      BY <1>7, Constants
    <3>2. QED
      BY <3>1
  <2>2. \A x \in Ids(c) \cap Rows : x \notin Ids(a)
    <3> SUFFICES ASSUME NEW x \in Ids(c) \cap Rows, x \in Ids(a) PROVE FALSE
      OBVIOUS
    <3>1. PICK b \in page : TRUE
      BY <1>7
    <3>2. x > b.id /\ x < b.id /\ x \in Nat /\ b.id \in Nat
      BY <1>2, <1>5, <1>7, <3>1, Constants
    <3>3. QED
      BY <3>2
  <2>3. QED
    BY <1>4, <1>5, <1>9, <2>1, <2>2
<1>11. /\ a \o r \in Seq(Entry) /\ Ids(a \o r) = Ids(a) \cup Ids(r)
       /\ Distinct(a \o r) /\ RowsTimed(a \o r)
  BY <1>1, <1>4, <1>8, JoinedList
<1>12. /\ list \in Seq(Entry) /\ Ids(list) = Ids(a) \cup Ids(r) \cup Ids(c)
       /\ Distinct(list) /\ RowsTimed(list)
  <2> DEFINE ar == a \o r
  <2>1. /\ ar \in Seq(Entry) /\ Distinct(ar) /\ RowsTimed(ar)
        /\ Ids(ar) = Ids(a) \cup Ids(r) /\ Ids(ar) \cap Ids(c) = {} /\ list = ar \o c
    BY <1>6, <1>10, <1>11
  <2> HIDE DEF ar
  <2>2. QED
    BY <1>1, <2>1, JoinedList
<1>13. Ids(list) \cap Sends = Ids(messages) \cap Sends
  BY <1>3, <1>4, <1>5, <1>9, <1>12, Constants
<1>14. \A b \in page : b.id \in Ids(list)
  BY <1>4, <1>5, <1>12
<1>15. Ids(list) \subseteq Ids(messages) \cup P
  BY <1>3, <1>4, <1>9, <1>12
<1>16. ASSUME page # {}, NEW x \in Shown PROVE \E y \in Ids(list) \cap Rows : x <= y
  <2>1. PICK i \in DOMAIN messages : messages[i].id = x /\ messages[i].at = x
    BY DEF Shown, Ids, StoreHolds, RowsTimed
  <2>2. x \in Rows /\ x \in Ids(messages) /\ x \in Nat
    BY Constants DEF Shown
  <2>3. CASE \A b \in page : x > b.id
    <3>1. x \in Ids(c)
      BY <1>3, <1>16, <2>1, <2>2, <2>3
    <3>2. QED
      BY <1>12, <2>2, <3>1
  <2>4. ASSUME NEW b \in page, ~ (x > b.id) PROVE \E y \in Ids(list) \cap Rows : x <= y
    <3>1. b.id \in Ids(list) \cap Rows /\ b.id \in Nat
      BY <1>5, <1>14
    <3>2. x <= b.id
      BY <2>2, <2>4, <3>1
    <3>3. QED
      BY <3>1, <3>2
  <2>5. QED
    BY <2>3, <2>4
<1>17. ASSUME InTimeOrder(messages), Ids(messages) \cap Sends = {} PROVE InTimeOrder(list)
  <2>1. \A i \in DOMAIN a : a[i].at = a[i].id /\ a[i].id \in Ids(a) /\ a[i].id \in Nat
    <3>1. \A i \in DOMAIN a : a[i].id \in Ids(a) /\ a[i].id \in Rows
      BY <1>1, <1>9, EntriesOf
    <3>2. QED
      BY <1>1, <3>1, Constants DEF RowsTimed
  <2>2. \A i \in DOMAIN c : c[i].at = c[i].id /\ c[i].id \in Ids(c) \cap Rows /\ c[i].id \in Nat
    <3>1. Ids(c) \subseteq Rows
      BY <1>1, <1>3, <1>17, EntriesOf
    <3>2. QED
      BY <1>1, <3>1, Constants DEF RowsTimed, Ids
  <2>3. ASSUME NEW i \in DOMAIN a, NEW j \in DOMAIN r PROVE a[i].at <= r[j].at
    <3>1. PICK b \in page : r[j].id = b.id
      BY <1>4 DEF P
    <3>2. QED
      BY <1>2, <1>4, <1>5, <2>1, <3>1
  <2>4. InTimeOrder(a \o r)
    BY <1>1, <1>4, <1>17, <2>3, JoinedList
  <2>5. ASSUME NEW x \in Ids(a) \cup Ids(r), NEW y \in Ids(c) \cap Rows PROVE x <= y
    <3>1. x \in Nat /\ y \in Nat
      <4>1. x \in Rows /\ y \in Rows
        BY <1>4, <1>5, <1>9
      <4>2. QED
        BY <4>1, Constants
    <3>2. PICK b \in page : x <= b.id
      <4>1. PICK d \in page : TRUE
        BY <1>7
      <4>2. CASE x \in Ids(a)
        BY <1>2, <1>5, <3>1, <4>1, <4>2
      <4>3. CASE x \in Ids(r)
        BY <1>4, <3>1, <4>3 DEF P
      <4>4. QED
        BY <4>2, <4>3
    <3>3. y > b.id /\ b.id \in Nat
      BY <1>5, <1>7
    <3>4. QED
      BY <3>1, <3>2, <3>3
  <2>6. \A i \in DOMAIN (a \o r) : (a \o r)[i].at = (a \o r)[i].id /\ (a \o r)[i].id \in Ids(a) \cup Ids(r)
    <3>1. Ids(a \o r) \subseteq Rows
      BY <1>4, <1>5, <1>9, <1>11
    <3>2. QED
      BY <1>11, <3>1 DEF RowsTimed, Ids
  <2>7. \A i \in DOMAIN (a \o r), j \in DOMAIN c : (a \o r)[i].at <= c[j].at
    BY <2>2, <2>5, <2>6
  <2>8. QED
    BY <1>1, <1>6, <1>11, <1>17, <2>4, <2>7, JoinedList
<1>18. QED
  BY <1>12, <1>13, <1>14, <1>15, <1>16, <1>17 DEF list, P

\* A step that lists the same ids, or the same and some rows, keeps the sends' places.
LEMMA StillSound ==
    ASSUME StoreHolds, messages' \in Seq(Entry), Distinct(messages'), RowsTimed(messages'),
           Ids(messages') \cap Sends = Ids(messages) \cap Sends,
           send' = send, storeMark' \in Shown' \cup {0},
           pending' \in [Rows -> {None, Queued, Settled}]
    PROVE  StoreHolds'
<1>1. Shown' = Ids(messages') \cap Rows /\ Shown' \subseteq 0 .. LastRow
  BY Constants DEF Shown
<1>2. storeMark' \in 0 .. LastRow
  BY <1>1, Constants
<1>3. \A s \in Sends : (send'[s] = "shown") = (s \in Ids(messages'))
  BY DEF StoreHolds, ListHolds
<1>4. ListHolds'
  BY <1>3 DEF ListHolds
<1>5. QED
  BY <1>2, <1>4 DEF StoreHolds, RowsTimed

\* The watermark is at the rows that are shown.
LEMMA MarkOfShown ==
    ASSUME StoreHolds
    PROVE  /\ Shown \subseteq 0 .. LastRow
           /\ storeMark \in Shown \cup {0} /\ storeMark \in Nat
           /\ \A y \in Shown : y \in Nat
BY Constants DEF Shown, StoreHolds, ListHolds

\* hydrateFromDetail.
LEMMA HydrateKeeps ==
    ASSUME StoreHolds, hasOlder \in BOOLEAN, NEW page, page \subseteq Body, Hydrate(page),
           send' = send
    PROVE  /\ StoreHolds' /\ loaded' \in BOOLEAN /\ hasOlder' \in BOOLEAN
           /\ InTimeOrder(messages) /\ (\A s \in Sends : send[s] # "shown")
                 => InTimeOrder(messages')
<1> DEFINE list == Hydrated(page)
<1>1. /\ list \in Seq(Entry) /\ Distinct(list) /\ RowsTimed(list)
      /\ Ids(list) \cap Sends = Ids(messages) \cap Sends
      /\ InTimeOrder(messages) /\ Ids(messages) \cap Sends = {} => InTimeOrder(list)
  BY HydratedList
<1>2. /\ messages' = list /\ storeMark' = Biggest(Ids(list) \cap Rows)
      /\ pending' = [r \in Rows |-> IF r \in Ids(list) THEN None ELSE pending[r]]
      /\ loaded' = TRUE
      /\ hasOlder' = IF Before(page) # <<>> THEN hasOlder ELSE Cardinality(page) >= PageSize
  BY DEF Hydrate, Hydrated
<1> HIDE DEF list
<1>3. pending' \in [Rows -> {None, Queued, Settled}]
  BY <1>2 DEF StoreHolds
<1>4. RowsTimed(messages') /\ Distinct(messages')
  BY <1>1, <1>2
<1>5. StoreHolds'
  <2>1. Shown' = Ids(list) \cap Rows /\ Shown' \subseteq 0 .. LastRow
    BY <1>2, Constants DEF Shown
  <2>2. storeMark' \in Shown' \cup {0}
    BY <1>2, <2>1, Constants, BiggestOf
  <2>3. QED
    BY <1>1, <1>2, <1>3, <1>4, <2>2, StillSound
<1>7. hasOlder' \in BOOLEAN
  <2>1. CASE Before(page) # <<>>
    BY <1>2, <2>1
  <2>2. CASE Before(page) = <<>>
    <3>1. hasOlder' = (Cardinality(page) >= PageSize)
      BY <1>2, <2>2
    <3>2. QED
      BY <3>1
  <2>3. QED
    BY <2>1, <2>2
<1>9. ASSUME \A s \in Sends : send[s] # "shown" PROVE Ids(messages) \cap Sends = {}
  BY <1>9 DEF StoreHolds, ListHolds
<1>10. InTimeOrder(messages) /\ (\A s \in Sends : send[s] # "shown") => InTimeOrder(messages')
  BY <1>1, <1>2, <1>9
<1>11. QED
  BY <1>2, <1>5, <1>7, <1>10

\* deliver().
LEMMA DeliverKeeps ==
    ASSUME StoreHolds, watermark \in 0 .. LastRow, NEW bodies \in Seq(Body), Deliver(bodies),
           send' = send
    PROVE  /\ StoreHolds' /\ watermark' \in 0 .. LastRow
           /\ InTimeOrder(messages) => InTimeOrder(messages')
<1>1. Ids(bodies) \subseteq Rows
  <2>1. \A i \in DOMAIN bodies : bodies[i] \in Body
    OBVIOUS
  <2>2. QED
    BY <2>1 DEF Ids, Body
<1>2. /\ watermark' = Biggest({watermark} \cup Ids(bodies))
      /\ messages' = Merged(bodies)
      /\ pending' = [r \in Rows |-> IF r \in Ids(bodies) \ Ids(messages) THEN None
                                    ELSE pending[r]]
      /\ storeMark' = Biggest({storeMark} \cup (Ids(bodies) \ Ids(messages)))
  BY DEF Deliver
<1>3. /\ messages' \in Seq(Entry) /\ Ids(messages') = Ids(messages) \cup Ids(bodies)
      /\ Distinct(messages') /\ RowsTimed(messages')
      /\ InTimeOrder(messages) => InTimeOrder(messages')
  <2>1. Distinct(messages) /\ RowsTimed(messages) /\ messages \in Seq(Entry)
        /\ pending \in [Rows -> {None, Queued, Settled}]
    BY DEF StoreHolds, ListHolds, Distinct
  <2>2. QED
    BY <1>2, <2>1, MergedKeeps
<1>4. Ids(messages') \cap Sends = Ids(messages) \cap Sends
  BY <1>1, <1>3, Constants
<1>5. pending' \in [Rows -> {None, Queued, Settled}]
  BY <1>2 DEF StoreHolds
<1>6. watermark' \in 0 .. LastRow
  <2>1. {watermark} \cup Ids(bodies) \subseteq 0 .. LastRow
    BY <1>1, Constants
  <2>2. QED
    BY <1>2, <2>1, Constants, BiggestOf
<1>7. storeMark' \in Shown' \cup {0}
  <2> DEFINE N == {storeMark} \cup (Ids(bodies) \ Ids(messages))
  <2>1. storeMark \in 0 .. LastRow /\ storeMark \in Shown \cup {0}
    BY DEF StoreHolds, ListHolds
  <2>2. N \subseteq 0 .. LastRow /\ storeMark' = Biggest(N)
    BY <1>1, <1>2, <2>1, Constants
  <2>3. Shown' = Shown \cup (Ids(bodies) \ Ids(messages))
    BY <1>1, <1>3 DEF Shown
  <2>4. N \cup {0} \subseteq Shown' \cup {0}
    BY <2>1, <2>3
  <2> HIDE DEF N
  <2>5. storeMark' \in N \cup {0}
    BY <2>2, Constants, BiggestOf
  <2>6. QED
    BY <2>4, <2>5
<1>8. StoreHolds'
  BY <1>3, <1>4, <1>5, <1>7, StillSound
<1>9. QED
  BY <1>3, <1>6, <1>7, <1>8

\* The smallest of some bounded numbers.
LEMMA SmallestOf ==
    ASSUME NEW n \in Nat, NEW S, S \subseteq 0 .. n, S # {}
    PROVE  \E x \in S : \A y \in S : x <= y
<1> SUFFICES ASSUME \A x \in S : \E y \in S : ~ (x <= y) PROVE FALSE
  OBVIOUS
<1> DEFINE T == {k \in 0 .. n + 1 : \A y \in S : k <= y}
<1>1. 0 \in T
  OBVIOUS
<1>2. ASSUME NEW k \in 0 .. (n + 1) - 1, k \in T PROVE k + 1 \in T
  <2>1. k \notin S
    BY <1>2
  <2>2. \A y \in S : k <= y /\ y # k /\ y \in Nat
    BY <1>2, <2>1
  <2>3. \A y \in S : k + 1 <= y
    BY <2>2
  <2>4. k + 1 \in 0 .. n + 1
    OBVIOUS
  <2>5. QED
    BY <2>3, <2>4
<1>3. n + 1 \in T
  <2> HIDE DEF T
  <2>1. n + 1 \in Nat /\ n + 1 \in 0 .. n + 1
    OBVIOUS
  <2>2. \A i \in 0 .. n + 1 : i \in T
    BY <1>1, <1>2, <2>1, UpTo
  <2>3. QED
    BY <2>1, <2>2
<1>4. PICK y \in S : n + 1 <= y
  BY <1>3
<1>5. y \in 0 .. n
  OBVIOUS
<1>6. QED
  BY <1>4, <1>5

\* The ids of a list and another one behind it.
LEMMA IdsOfJoined ==
    ASSUME NEW E, NEW a \in Seq(E), NEW b \in Seq(E)
    PROVE  Ids(a \o b) = Ids(a) \cup Ids(b)
<1> DEFINE c == a \o b
           n == Len(a)
           m == Len(b)
<1>1. /\ c \in Seq(E) /\ Len(c) = n + m
      /\ \A i \in 1 .. n + m : c[i] = IF i <= n THEN a[i] ELSE b[i - n]
  BY ConcatProperties
<1>2. /\ n \in Nat /\ m \in Nat /\ DOMAIN a = 1 .. n /\ DOMAIN b = 1 .. m
      /\ DOMAIN c = 1 .. n + m
  BY <1>1
<1> HIDE DEF c, n, m
<1>3. ASSUME NEW i \in 1 .. n PROVE i \in 1 .. n + m /\ c[i] = a[i]
  BY <1>1, <1>2
<1>4. ASSUME NEW j \in 1 .. m PROVE n + j \in 1 .. n + m /\ c[n + j] = b[j]
  <2>1. n + j \in 1 .. n + m /\ ~ (n + j <= n) /\ (n + j) - n = j
    BY <1>2
  <2>2. QED
    BY <1>1, <2>1
<1>5. ASSUME NEW i \in 1 .. n + m
      PROVE  (i \in 1 .. n /\ c[i] = a[i]) \/ \E j \in 1 .. m : c[i] = b[j]
  <2>1. i \in 1 .. n \/ (i - n \in 1 .. m /\ ~ (i <= n))
    BY <1>2
  <2>2. QED
    BY <1>1, <1>3, <2>1
<1>6. \A i \in 1 .. n + m : c[i].id \in Ids(a) \cup Ids(b)
  BY <1>2, <1>5 DEF Ids
<1>7. (\A i \in 1 .. n : a[i].id \in Ids(c)) /\ \A j \in 1 .. m : b[j].id \in Ids(c)
  BY <1>2, <1>3, <1>4 DEF Ids
<1>8. Ids(c) = Ids(a) \cup Ids(b)
  BY <1>2, <1>6, <1>7 DEF Ids
<1>9. QED
  BY <1>8 DEF c

\* completeFetch delivers what was fetched and held, but for the ids the tracker has.
LEMMA CompleteFetchDelivers ==
    ASSUME held \in Seq(Body), NEW rows \in Seq(Body), CompleteFetch(rows)
    PROVE  \E bodies \in Seq(Body) :
              /\ Deliver(bodies) /\ tracked' = tracked \cup Ids(bodies)
              /\ Ids(bodies) = (Ids(rows) \cup Ids(held)) \ tracked
<1> DEFINE all == rows \o held
           I == {i \in DOMAIN all : /\ all[i].id \notin tracked
                                    /\ \A j \in 1 .. i - 1 : all[j].id # all[i].id}
<1>1. all \in Seq(Body)
  BY ConcatProperties
<1>2. Deliver(Keep(all, I)) /\ tracked' = tracked \cup Ids(Keep(all, I))
  BY DEF CompleteFetch
<1>3. Ids(all) = Ids(rows) \cup Ids(held)
  BY IdsOfJoined
<1>4. I \subseteq DOMAIN all
  OBVIOUS
<1>5. ASSUME NEW x \in Ids(all) \ tracked PROVE \E i \in I : all[i].id = x
  <2> HIDE DEF all
  <2> DEFINE J == {i \in DOMAIN all : all[i].id = x}
  <2>1. DOMAIN all = 1 .. Len(all) /\ Len(all) \in Nat
    BY <1>1
  <2>2. J \subseteq 0 .. Len(all) /\ J # {}
    BY <2>1 DEF Ids
  <2>3. PICK i \in J : \A j \in J : i <= j
    <3> HIDE DEF J
    <3> QED
      BY <2>1, <2>2, SmallestOf
  <2>4. ASSUME NEW j \in 1 .. i - 1 PROVE all[j].id # x
    <3>1. j \in DOMAIN all /\ j < i
      BY <2>1
    <3>2. j \notin J
      BY <2>1, <2>3, <3>1
    <3>3. QED
      BY <3>1, <3>2
  <2>5. QED
    BY <2>4
<1>6. \A i \in I : all[i].id \in Ids(all) \ tracked
  BY DEF Ids
<1> HIDE DEF all, I
<1>7. PICK at : /\ Rising(at, I)
                /\ Keep(all, I) \in Seq(Body)
                /\ DOMAIN Keep(all, I) = 1 .. Len(at)
                /\ \A k \in 1 .. Len(at) : Keep(all, I)[k] = all[at[k]] /\ at[k] \in I
  BY <1>1, <1>4, KeepOf
<1>8. \A i \in I : \E k \in 1 .. Len(at) : at[k] = i
  BY <1>7 DEF Rising
<1>9. Ids(Keep(all, I)) = Ids(all) \ tracked
  <2>1. \A x \in Ids(Keep(all, I)) : x \in Ids(all) \ tracked
    <3> DEFINE K == Keep(all, I)
    <3>1. \A k \in DOMAIN K : K[k].id \in Ids(all) \ tracked
      BY <1>6, <1>7
    <3> HIDE DEF K
    <3>2. \A x \in Ids(K) : x \in Ids(all) \ tracked
      BY <3>1 DEF Ids
    <3>3. QED
      BY <3>2 DEF K
  <2>2. \A x \in Ids(all) \ tracked : x \in Ids(Keep(all, I))
    <3> TAKE x \in Ids(all) \ tracked
    <3>1. PICK i \in I : all[i].id = x
      BY <1>5
    <3>2. PICK k \in 1 .. Len(at) : at[k] = i
      BY <1>8
    <3>3. k \in DOMAIN Keep(all, I) /\ Keep(all, I)[k].id = x
      BY <1>7, <3>1, <3>2
    <3>4. QED
      BY <3>3 DEF Ids
  <2>3. QED
    BY <2>1, <2>2
<1>10. QED
  BY <1>2, <1>3, <1>7, <1>9

-----------------------------------------------------------------------------
(* The inductive invariant.                                                *)

StoreInv == /\ ListHolds /\ RowsTimed(messages)
IInv == TypeOK /\ StoreInv

\* What the store's lemmas ask for is part of the invariant.
LEMMA InvGivesStore ==
    ASSUME IInv
    PROVE  StoreHolds
BY DEF IInv, StoreInv, StoreHolds, TypeOK

\* Nothing that the store's invariant is about changes.
LEMMA StoreAside ==
    ASSUME IInv, UNCHANGED <<messages, storeMark, send>>
    PROVE  StoreInv' /\ OrderKept
<1>1. ListHolds'
  BY DEF IInv, StoreInv, ListHolds, Ids, Shown
<1>2. RowsTimed(messages)'
  BY DEF IInv, StoreInv, RowsTimed
<1>3. OrderKept
  BY DEF OrderKept, InTimeOrder
<1>4. QED
  BY <1>1, <1>2, <1>3 DEF StoreInv

-----------------------------------------------------------------------------
(* The relay.                                                              *)

\* Bodies, frames and statuses.
LEMMA RowsAre ==
    /\ Body = [id : Rows, st : {Queued, Settled}]
    /\ \A r \in Rows, s \in {Queued, Settled}, t \in {"new", "update"} :
          [t |-> t, id |-> r, st |-> s] \in Frame
    /\ Queued # None /\ Settled # None
BY DEF Body, Frame, Queued, Settled, None

\* A row commits or settles: the store does not hear of it yet.
LEMMA CommitStep ==
    ASSUME IInv, NEW r \in Rows, Commit(r) \/ Settle(r)
    PROVE  IInv' /\ OrderKept
<1>1. /\ db' \in [Rows -> {None, Queued, Settled}]
      /\ \A q \in Rows : db[q] # None => db'[q] # None
  BY RowsAre DEF IInv, TypeOK, Commit, Settle
<1>2. wire' \in Seq(Frame)
  <2>1. wire' = wire \/ \E f \in Frame : wire' = Append(wire, f)
    BY RowsAre DEF Commit, Settle
  <2>2. wire \in Seq(Frame)
    BY DEF IInv, TypeOK
  <2>3. QED
    BY <2>1, <2>2
<1>3. /\ UNCHANGED <<up, open, streamVars, storeVars, restVars, send, gone, faults, leaves>>
      /\ echo' \in [Sends -> 0 .. LastRow]
  <2>1. UNCHANGED <<up, open, streamVars, storeVars, restVars, send, gone, faults, leaves>>
    BY DEF Commit, Settle, sendVars
  <2>2. echo' = echo \/ \E s \in Sends : echo' = [echo EXCEPT ![s] = r]
    BY DEF Commit, Settle, sendVars
  <2>3. r \in 0 .. LastRow /\ echo \in [Sends -> 0 .. LastRow]
    BY Constants DEF IInv, TypeOK
  <2>4. QED
    BY <2>1, <2>2, <2>3
<1>4. TypeOK'
  BY <1>1, <1>2, <1>3 DEF IInv, TypeOK, streamVars, storeVars, restVars, sendVars
<1>5. StoreInv' /\ OrderKept
  BY <1>1, <1>3, <1>4, StoreAside DEF storeVars, sendVars
<1>6. QED
  BY <1>4, <1>5 DEF IInv

\* What a catch-up is at, and what it asks.
LEMMA CatchUpShape ==
    ASSUME TypeOK, catchUp # Idle
    PROVE  /\ catchUp.got \in Seq(Body)
           /\ catchUp.st = "answered" => catchUp.rows \subseteq Body /\ catchUp.more \in BOOLEAN
           /\ catchUp.st = "asked" => catchUp.after \in Cursor
BY DEF TypeOK, CatchUps

\* A request is a catch-up under way.
LEMMA AskedIsCatchUp ==
    ASSUME NEW at \in 0 .. LastRow, NEW strict \in BOOLEAN, NEW got \in Seq(Body)
    PROVE  Asked(After(at, strict), got) \in CatchUps
BY DEF Asked, After, CatchUps, Cursor

\* Committed rows, as they are read.
LEMMA FetchedIsBody ==
    ASSUME TypeOK, NEW S, S \subseteq Committed
    PROVE  {BodyOf(r) : r \in S} \subseteq Body
BY DEF TypeOK, Committed, BodyOf, Body

\* The relay answers a catch-up.
LEMMA RelayAnswersStep ==
    ASSUME IInv, RelayAnswers
    PROVE  IInv' /\ OrderKept
<1> DEFINE all == Fetched(catchUp.after)
           page == Oldest(all, FetchLimit)
<1>1. catchUp.got \in Seq(Body)
  BY CatchUpShape DEF IInv, RelayAnswers
<1>2. page \subseteq Body
  <2>1. all \subseteq Body
    BY DEF IInv, TypeOK, Fetched, Committed, BodyOf, Body
  <2>2. QED
    BY <2>1 DEF Oldest
<1>3. catchUp' = [st |-> "answered", got |-> catchUp.got, rows |-> page, more |-> all # page]
  BY DEF RelayAnswers
<1> HIDE DEF all, page
<1>4. catchUp' \in CatchUps
  BY <1>1, <1>2, <1>3 DEF CatchUps
<1>5. UNCHANGED <<db, linkVars, open, tracked, held, fetchComplete, watermark,
                   storeVars, restVars, sendVars, gone, faults, leaves>>
  BY DEF RelayAnswers
<1>6. TypeOK'
  BY <1>4, <1>5 DEF IInv, TypeOK, linkVars, storeVars, restVars, sendVars
<1>7. StoreInv' /\ OrderKept
  BY <1>5, <1>6, StoreAside DEF storeVars, sendVars
<1>8. QED
  BY <1>6, <1>7 DEF IInv

-----------------------------------------------------------------------------
(* The stream.                                                             *)

\* The socket comes up.
LEMMA ConnectsStep ==
    ASSUME IInv, Connects
    PROVE  IInv' /\ OrderKept
<1>1. wire' \in Seq(Frame) /\ up' \in BOOLEAN
  BY DEF Connects
<1>2. <<>> \in Seq(Body) /\ watermark \in 0 .. LastRow
  BY DEF IInv, TypeOK
<1>3. held' \in Seq(Body) /\ fetchComplete' \in BOOLEAN /\ catchUp' \in CatchUps
  BY <1>2, AskedIsCatchUp DEF IInv, TypeOK, Connects
<1>4. UNCHANGED <<db, open, tracked, watermark, storeVars, restVars, sendVars, gone, faults, leaves>>
  BY DEF Connects
<1>5. TypeOK'
  BY <1>1, <1>3, <1>4 DEF IInv, TypeOK, storeVars, restVars, sendVars
<1>6. StoreInv' /\ OrderKept
  BY <1>4, <1>5, StoreAside DEF storeVars, sendVars
<1>7. QED
  BY <1>5, <1>6 DEF IInv

\* A step that delivers rows and leaves the sends alone.
LEMMA DeliverStep ==
    ASSUME IInv, NEW bodies \in Seq(Body), Deliver(bodies), send' = send
    PROVE  StoreInv' /\ OrderKept
<1>1. /\ StoreHolds'
      /\ InTimeOrder(messages) => InTimeOrder(messages')
  BY InvGivesStore, DeliverKeeps DEF IInv, TypeOK
<1>2. ListHolds' /\ RowsTimed(messages)'
  BY <1>1 DEF StoreHolds
<1>5. OrderKept
  BY <1>1 DEF OrderKept
<1>6. QED
  BY <1>2, <1>5 DEF StoreInv

\* The types a delivery leaves.
LEMMA DeliverTypes ==
    ASSUME IInv, NEW bodies \in Seq(Body), Deliver(bodies), send' = send
    PROVE  /\ watermark' \in 0 .. LastRow /\ storeMark' \in 0 .. LastRow
           /\ messages' \in Seq(Entry) /\ pending' \in [Rows -> {None, Queued, Settled}]
           /\ Ids(bodies) \subseteq Rows
<1>1. StoreHolds' /\ watermark' \in 0 .. LastRow
  BY InvGivesStore, DeliverKeeps DEF IInv, TypeOK
<1>2. \A i \in DOMAIN bodies : bodies[i] \in Body
  OBVIOUS
<1>3. Ids(bodies) \subseteq Rows
  BY <1>2 DEF Ids, Body
<1>4. QED
  BY <1>1, <1>3 DEF StoreHolds

\* completeFetch, whatever was fetched.
LEMMA CompleteFetchStep ==
    ASSUME IInv, NEW rows \in Seq(Body), CompleteFetch(rows),
           UNCHANGED <<db, open, restVars, sendVars, leaves>>,
           up' \in BOOLEAN, wire' \in Seq(Frame), faults' \in 0 .. MaxFaults,
           gone' \in [Rows -> SUBSET Reasons]
    PROVE  IInv' /\ OrderKept
<1>1. PICK bodies \in Seq(Body) : Deliver(bodies) /\ tracked' = tracked \cup Ids(bodies)
  BY CompleteFetchDelivers DEF IInv, TypeOK
<1>2. /\ watermark' \in 0 .. LastRow /\ storeMark' \in 0 .. LastRow
      /\ messages' \in Seq(Entry) /\ pending' \in [Rows -> {None, Queued, Settled}]
      /\ Ids(bodies) \subseteq Rows
  BY <1>1, DeliverTypes DEF sendVars
<1>3. /\ held' = <<>> /\ fetchComplete' = TRUE /\ catchUp' = Idle
      /\ UNCHANGED <<loaded, hasOlder>>
  BY DEF CompleteFetch
<1>4. held' \in Seq(Body) /\ catchUp' \in CatchUps /\ tracked' \subseteq Rows
  BY <1>1, <1>2, <1>3 DEF IInv, TypeOK, CatchUps
<1>5. TypeOK'
  BY <1>2, <1>3, <1>4 DEF IInv, TypeOK, restVars, sendVars
<1>6. StoreInv' /\ OrderKept
  BY <1>1, <1>3, <1>5, DeliverStep DEF sendVars
<1>7. QED
  BY <1>5, <1>6 DEF IInv

\* Noting why rows are missing touches nothing else.
LEMMA BlameTypes ==
    ASSUME TypeOK, NEW S, NEW why \in Reasons, Blame(S, why)
    PROVE  gone' \in [Rows -> SUBSET Reasons]
BY DEF TypeOK, Blame

\* The reasons by name.
LEMMA ReasonsAre ==
    {"cut", "timeout", "hydrate", "overtaken", "left", "old", "late"} \subseteq Reasons
BY DEF Reasons

\* What a delivery uncovers is noted, and touches nothing else.
LEMMA UncoversTypes ==
    ASSUME TypeOK, Uncovers
    PROVE  gone' \in [Rows -> SUBSET Reasons]
BY BlameTypes, ReasonsAre DEF Uncovers

\* The pages collected so far, with the one that arrives.
LEMMA CollectedTypes ==
    ASSUME TypeOK, catchUp # Idle, catchUp.st = "answered"
    PROVE  /\ catchUp.got \o InOrder(catchUp.rows) \in Seq(Body)
           /\ catchUp.rows # {} => Last(catchUp.got \o InOrder(catchUp.rows)) \in Body
<1> DEFINE q == InOrder(catchUp.rows)
           got == catchUp.got \o q
<1>1. catchUp.got \in Seq(Body) /\ catchUp.rows \subseteq Body
  BY CatchUpShape
<1>2. \A b \in catchUp.rows : b.id \in 1 .. LastRow
  BY <1>1, Constants DEF Body
<1>3. /\ q \in Seq(catchUp.rows)
      /\ \A b \in catchUp.rows : \E i \in DOMAIN q : q[i].id = b.id
  BY <1>2, Constants, InOrderOf
<1>4. q \in Seq(Body)
  BY <1>1, <1>3
<1> HIDE DEF q
<1>5. got \in Seq(Body) /\ Len(got) = Len(catchUp.got) + Len(q)
  BY <1>1, <1>4, ConcatProperties
<1>6. ASSUME catchUp.rows # {} PROVE Last(got) \in Body
  <2>1. Len(q) >= 1 /\ Len(q) \in Nat /\ Len(catchUp.got) \in Nat
    <3>1. PICK i \in DOMAIN q : TRUE
      BY <1>3, <1>6
    <3>2. DOMAIN q = 1 .. Len(q) /\ Len(q) \in Nat /\ Len(catchUp.got) \in Nat
      BY <1>1, <1>4
    <3>3. QED
      BY <3>1, <3>2
  <2>2. Len(got) \in 1 .. Len(got)
    BY <1>5, <2>1
  <2> HIDE DEF got
  <2>3. QED
    BY <1>5, <2>2 DEF Last
<1>7. QED
  BY <1>5, <1>6 DEF q

\* A page arrives: the next is asked for, or what was collected is delivered.
LEMMA PageArrivesStep ==
    ASSUME IInv, PageArrives
    PROVE  IInv' /\ OrderKept
<1> DEFINE got == catchUp.got \o InOrder(catchUp.rows)
<1>1. TypeOK /\ catchUp # Idle /\ catchUp.st = "answered"
  BY DEF IInv, PageArrives
<1>2. got \in Seq(Body) /\ (catchUp.rows # {} => Last(got) \in Body)
  BY <1>1, CollectedTypes
<1>3. /\ UNCHANGED <<db, linkVars, open, restVars, sendVars, faults, leaves>>
      /\ gone' \in [Rows -> SUBSET Reasons]
  BY <1>1, UncoversTypes DEF PageArrives
<1>4. CASE catchUp.more /\ catchUp.rows # {}
  <2>1. /\ catchUp' = Asked(After(Last(got).id, TRUE), got)
        /\ UNCHANGED <<tracked, held, fetchComplete, watermark, storeVars>>
    BY <1>4 DEF PageArrives
  <2> HIDE DEF got
  <2>2. Last(got).id \in 0 .. LastRow
    BY <1>2, <1>4, Constants DEF Body
  <2>3. catchUp' \in CatchUps
    BY <1>2, <2>1, <2>2, AskedIsCatchUp
  <2>4. TypeOK'
    BY <1>1, <1>3, <2>1, <2>3 DEF TypeOK, linkVars, storeVars, restVars, sendVars
  <2>5. StoreInv' /\ OrderKept
    BY <1>3, <2>1, <2>4, StoreAside DEF storeVars, sendVars
  <2>6. QED
    BY <2>4, <2>5 DEF IInv
<1>5. CASE ~ (catchUp.more /\ catchUp.rows # {})
  <2>1. CompleteFetch(got)
    BY <1>5 DEF PageArrives
  <2> HIDE DEF got
  <2>2. /\ UNCHANGED <<db, open, restVars, sendVars, leaves>>
        /\ up' \in BOOLEAN /\ wire' \in Seq(Frame) /\ faults' \in 0 .. MaxFaults
        /\ gone' \in [Rows -> SUBSET Reasons]
    BY <1>1, <1>3 DEF TypeOK, linkVars
  <2>3. QED
    BY <1>2, <2>1, <2>2, CompleteFetchStep
<1>6. QED
  BY <1>4, <1>5

\* Faults are counted.
LEMMA FaultTypes ==
    ASSUME TypeOK, Fault
    PROVE  faults' \in 0 .. MaxFaults
BY Constants DEF TypeOK, Fault

\* A catch-up that fails delivers what it has.
LEMMA CatchUpFailsStep ==
    ASSUME IInv, NEW why \in Reasons,
           catchUp # Idle, CatchUpFails(why), Fault,
           UNCHANGED <<db, open, restVars, sendVars, leaves>>,
           up' \in BOOLEAN, wire' \in Seq(Frame)
    PROVE  IInv' /\ OrderKept
<1>1. catchUp.got \in Seq(Body)
  BY CatchUpShape DEF IInv
<1>2. gone' \in [Rows -> SUBSET Reasons]
  BY BlameTypes DEF IInv, CatchUpFails
<1>3. faults' \in 0 .. MaxFaults
  BY FaultTypes DEF IInv
<1>4. QED
  BY <1>1, <1>2, <1>3, CompleteFetchStep DEF CatchUpFails

\* The socket goes down.
LEMMA DisconnectsStep ==
    ASSUME IInv, Disconnects
    PROVE  IInv' /\ OrderKept
<1>1. /\ Fault /\ up' \in BOOLEAN /\ wire' \in Seq(Frame)
      /\ UNCHANGED <<db, open, restVars, sendVars, leaves>>
  <2>1. Fault /\ up' = FALSE /\ wire' = <<>>
    BY DEF Disconnects
  <2>2. <<>> \in Seq(Frame)
    OBVIOUS
  <2>3. UNCHANGED <<db, open, restVars, sendVars, leaves>>
    BY DEF Disconnects
  <2>4. QED
    BY <2>1, <2>2, <2>3
<1>2. CASE catchUp # Idle
  <2>1. CatchUpFails("cut")
    BY <1>2 DEF Disconnects
  <2>2. QED
    BY <1>1, <1>2, <2>1, CatchUpFailsStep, ReasonsAre
<1>3. CASE catchUp = Idle
  <2>1. /\ UNCHANGED <<streamVars, storeVars>>
        /\ Blame((Announced \cap Passed) \ Shown, "late")
    BY <1>3 DEF Disconnects
  <2>2. faults' \in 0 .. MaxFaults /\ gone' \in [Rows -> SUBSET Reasons]
    BY <1>1, <2>1, FaultTypes, BlameTypes, ReasonsAre DEF IInv
  <2>3. TypeOK'
    BY <1>1, <2>1, <2>2 DEF IInv, TypeOK, streamVars, storeVars, restVars, sendVars
  <2>4. StoreInv' /\ OrderKept
    BY <1>1, <2>1, <2>3, StoreAside DEF storeVars, sendVars
  <2>5. QED
    BY <2>3, <2>4 DEF IInv
<1>4. QED
  BY <1>2, <1>3

\* A fetch runs into its timeout.
LEMMA FetchTimesOutStep ==
    ASSUME IInv, FetchTimesOut
    PROVE  IInv' /\ OrderKept
<1>1. /\ Fault /\ catchUp # Idle /\ CatchUpFails("timeout")
      /\ UNCHANGED <<db, linkVars, open, restVars, sendVars, leaves>>
  BY DEF FetchTimesOut
<1>2. up' \in BOOLEAN /\ wire' \in Seq(Frame)
  BY <1>1 DEF IInv, TypeOK, linkVars
<1>3. QED
  BY <1>1, <1>2, CatchUpFailsStep, ReasonsAre

\* A status that lands changes no id and no time.
LEMMA PatchKeeps ==
    ASSUME IInv, NEW b \in Body, Patch(b),
           UNCHANGED <<storeMark, send>>
    PROVE  /\ messages' \in Seq(Entry) /\ pending' \in [Rows -> {None, Queued, Settled}]
           /\ StoreInv' /\ OrderKept /\ Shown' = Shown
<1>1. messages \in Seq(Entry) /\ pending \in [Rows -> {None, Queued, Settled}]
  BY DEF IInv, TypeOK
<1>2. /\ messages' \in Seq(Entry) /\ DOMAIN messages' = DOMAIN messages
      /\ \A i \in DOMAIN messages : /\ messages'[i].id = messages[i].id
                                    /\ messages'[i].at = messages[i].at
  <2>1. CASE b.id \in Ids(messages)
    <3> DEFINE m(i) == IF messages[i].id = b.id THEN [messages[i] EXCEPT !.st = b.st]
                       ELSE messages[i]
               r == [i \in 1 .. Len(messages) |-> m(i)]
    <3>1. DOMAIN messages = 1 .. Len(messages) /\ Len(messages) \in Nat
      BY <1>1
    <3>2. messages' = r
      BY <2>1, <3>1 DEF Patch
    <3>3. ASSUME NEW i \in 1 .. Len(messages)
          PROVE  m(i) \in Entry /\ m(i).id = messages[i].id /\ m(i).at = messages[i].at
      <4>1. messages[i] \in Entry
        BY <1>1, <3>3
      <4>2. b.st \in {Queued, Settled}
        BY DEF Body
      <4>3. QED
        BY <4>1, <4>2 DEF Entry
    <3> HIDE DEF m
    <3>4. r \in [1 .. Len(messages) -> Entry]
      BY <3>3
    <3>5. r \in Seq(Entry)
      BY <3>1, <3>4, SeqDef
    <3>6. DOMAIN r = 1 .. Len(messages) /\ \A i \in 1 .. Len(messages) : r[i] = m(i)
      OBVIOUS
    <3> HIDE DEF r
    <3>7. QED
      BY <3>1, <3>2, <3>3, <3>5, <3>6
  <2>2. CASE b.id \notin Ids(messages)
    BY <1>1, <2>2 DEF Patch
  <2>3. QED
    BY <2>1, <2>2
<1>3. Ids(messages') = Ids(messages) /\ Shown' = Shown
  BY <1>2 DEF Ids, Shown
<1>4. pending' \in [Rows -> {None, Queued, Settled}]
  BY <1>1 DEF Patch, Body
<1>5. ListHolds'
  BY <1>2, <1>3 DEF IInv, StoreInv, ListHolds, Distinct
<1>6. RowsTimed(messages)'
  BY <1>2 DEF IInv, StoreInv, RowsTimed
<1>8. OrderKept
  <2>1. InTimeOrder(messages) => InTimeOrder(messages')
    BY <1>2 DEF InTimeOrder
  <2>2. QED
    BY <2>1 DEF OrderKept
<1>9. QED
  BY <1>2, <1>3, <1>4, <1>5, <1>6, <1>8 DEF StoreInv

\* A frame arrives: dropped, held, patched in or delivered.
LEMMA FrameArrivesStep ==
    ASSUME IInv, FrameArrives
    PROVE  IInv' /\ OrderKept
<1> DEFINE f == Head(wire)
           b == [id |-> f.id, st |-> f.st]
<1>1. f \in Frame /\ wire' \in Seq(Frame)
  BY DEF IInv, TypeOK, FrameArrives
<1>2. b \in Body /\ f.id \in Rows
  BY <1>1 DEF Frame, Body
<1>3. /\ UNCHANGED <<db, up, open, restVars, sendVars, faults, leaves>>
      /\ gone' \in [Rows -> SUBSET Reasons]
  BY UncoversTypes DEF IInv, FrameArrives
<1>4. /\ TypeOK
      /\ \/ UNCHANGED <<streamVars, storeVars>>
         \/ Patch(b) /\ UNCHANGED <<streamVars, loaded, storeMark, hasOlder>>
         \/ /\ held' = Append(held, b)
            /\ UNCHANGED <<tracked, fetchComplete, watermark, catchUp, storeVars>>
         \/ /\ tracked' = tracked \cup {f.id} /\ Deliver(<<b>>)
            /\ UNCHANGED <<held, fetchComplete, catchUp, loaded, hasOlder>>
  BY DEF IInv, FrameArrives
<1> HIDE DEF f, b
<1>5. CASE UNCHANGED <<streamVars, storeVars>>
  <2>1. TypeOK'
    BY <1>1, <1>3, <1>4, <1>5 DEF TypeOK, streamVars, storeVars, restVars, sendVars
  <2>2. QED
    BY <1>3, <1>5, <2>1, StoreAside DEF IInv, storeVars, sendVars
<1>6. CASE Patch(b) /\ UNCHANGED <<streamVars, loaded, storeMark, hasOlder>>
  <2>1. /\ messages' \in Seq(Entry) /\ pending' \in [Rows -> {None, Queued, Settled}]
        /\ StoreInv' /\ OrderKept
    BY <1>2, <1>3, <1>6, PatchKeeps DEF sendVars
  <2>2. TypeOK'
    BY <1>1, <1>3, <1>4, <1>6, <2>1 DEF TypeOK, streamVars, restVars, sendVars
  <2>3. QED
    BY <2>1, <2>2 DEF IInv
<1>7. CASE /\ held' = Append(held, b)
           /\ UNCHANGED <<tracked, fetchComplete, watermark, catchUp, storeVars>>
  <2>1. held' \in Seq(Body)
    BY <1>2, <1>4, <1>7 DEF TypeOK
  <2>2. TypeOK'
    BY <1>1, <1>3, <1>4, <1>7, <2>1 DEF TypeOK, storeVars, restVars, sendVars
  <2>3. QED
    BY <1>3, <1>7, <2>2, StoreAside DEF IInv, storeVars, sendVars
<1>8. CASE /\ tracked' = tracked \cup {f.id} /\ Deliver(<<b>>)
           /\ UNCHANGED <<held, fetchComplete, catchUp, loaded, hasOlder>>
  <2>1. <<b>> \in Seq(Body) /\ tracked' \subseteq Rows
    BY <1>2, <1>4, <1>8 DEF TypeOK
  <2>2. /\ watermark' \in 0 .. LastRow /\ storeMark' \in 0 .. LastRow
        /\ messages' \in Seq(Entry) /\ pending' \in [Rows -> {None, Queued, Settled}]
    BY <1>3, <1>8, <2>1, DeliverTypes DEF sendVars
  <2>3. TypeOK'
    BY <1>1, <1>3, <1>4, <1>8, <2>1, <2>2 DEF TypeOK, restVars, sendVars
  <2>4. QED
    BY <1>3, <1>8, <2>1, <2>3, DeliverStep DEF IInv, sendVars
<1>9. QED
  BY <1>4, <1>5, <1>6, <1>7, <1>8

-----------------------------------------------------------------------------
(* The page.                                                               *)

\* The newest rows of some reach as far as all of them.
LEMMA NewestOf ==
    ASSUME NEW S, S \subseteq Rows
    PROVE  \A b \in S : \E c \in Newest(S, PageSize) : b <= c
<1> SUFFICES ASSUME NEW b \in S PROVE \E c \in Newest(S, PageSize) : b <= c
  OBVIOUS
<1> DEFINE x == Biggest(S)
<1>1. S \subseteq 0 .. LastRow
  BY Constants
<1>2. x \in S \cup {0} /\ \A y \in S : y <= x
  BY <1>1, Constants, BiggestOf
<1> HIDE DEF x
<1>3. \A y \in S : y \in Nat /\ y >= 1
  BY Constants
<1>4. x \in S
  BY <1>2, <1>3
<1>5. {q \in S : q > x} = {}
  BY <1>2, <1>3, <1>4
<1>6. Cardinality({q \in S : q > x}) < PageSize
  BY <1>5, FS_EmptySet, Constants
<1>7. QED
  BY <1>2, <1>4, <1>6 DEF Newest

\* A page that is read holds committed rows.
LEMMA PageRead ==
    ASSUME TypeOK, NEW S, S \subseteq Committed,
           NEW page, page = {BodyOf(r) : r \in Newest(S, PageSize)}
    PROVE  page \subseteq Body /\ \A b \in page : b.id \in S /\ db[b.id] # None
<1>1. Newest(S, PageSize) \subseteq S /\ S \subseteq Rows
  BY DEF Newest, Committed
<1>2. page \subseteq Body
  BY <1>1, FetchedIsBody
<1>3. \A r \in Newest(S, PageSize) : BodyOf(r).id = r /\ db[r] # None
  BY <1>1 DEF BodyOf, Committed
<1>4. QED
  BY <1>1, <1>2, <1>3

\* The newest page is asked for.
LEMMA FetchDetailStep ==
    ASSUME IInv, FetchDetail
    PROVE  IInv' /\ OrderKept
<1> DEFINE page == {BodyOf(r) : r \in Newest(Committed, PageSize)}
<1>1. page \subseteq Body
  BY PageRead DEF IInv
<1>2. /\ TypeOK /\ fetches < MaxFetches /\ fetches' = fetches + 1
      /\ detail' = detail \cup {[n |-> fetches', rows |-> page]}
      /\ UNCHANGED <<db, linkVars, open, streamVars, storeVars, older, loading, landed,
                     sendVars, gone, faults, leaves>>
  BY DEF IInv, FetchDetail
<1> HIDE DEF page
<1>3. fetches' \in 0 .. MaxFetches /\ fetches' \in 1 .. MaxFetches
  BY <1>2, Constants DEF TypeOK
<1>4. detail' \subseteq Reply
  BY <1>1, <1>2, <1>3 DEF TypeOK, Reply
<1>5. TypeOK'
  BY <1>2, <1>3, <1>4 DEF TypeOK, linkVars, streamVars, storeVars, sendVars
<1>6. StoreInv' /\ OrderKept
  BY <1>2, StoreAside DEF storeVars, sendVars
<1>7. QED
  BY <1>5, <1>6 DEF IInv

\* Numbers of replies stay within their bound.
LEMMA LatestOf ==
    ASSUME TypeOK, NEW d \in Reply
    PROVE  /\ Biggest({landed, d.n}) \in 0 .. MaxFetches
           /\ landed <= Biggest({landed, d.n}) /\ d.n <= Biggest({landed, d.n})
           /\ d.n >= 1 /\ d.n \in Nat /\ d.rows \subseteq Body
<1>1. {landed, d.n} \subseteq 0 .. MaxFetches /\ d.n \in 1 .. MaxFetches
  BY Constants DEF TypeOK, Reply
<1>2. /\ Biggest({landed, d.n}) \in 0 .. MaxFetches
      /\ \A y \in {landed, d.n} : y <= Biggest({landed, d.n})
  BY <1>1, Constants, BiggestOf
<1>3. QED
  BY <1>1, <1>2, Constants DEF Reply

\* Its reply lands: only here, and with a send on the screen, is the order put out.
LEMMA DetailLandsStep ==
    ASSUME IInv, NEW d \in detail, DetailLands(d)
    PROVE  IInv' /\ OrderKept
<1>1. /\ TypeOK /\ detail' = detail \ {d} /\ Hydrate(d.rows)
      /\ landed' = Biggest({landed, d.n})
      /\ UNCHANGED <<db, linkVars, open, older, loading, fetches, sendVars, faults, leaves>>
  BY DEF IInv, DetailLands
<1>2. d \in Reply /\ d.rows \subseteq Body /\ hasOlder \in BOOLEAN /\ send' = send
  BY <1>1 DEF TypeOK, Reply, sendVars
<1>3. /\ StoreHolds' /\ loaded' \in BOOLEAN /\ hasOlder' \in BOOLEAN
      /\ InTimeOrder(messages) /\ (\A s \in Sends : send[s] # "shown")
            => InTimeOrder(messages')
  BY <1>1, <1>2, InvGivesStore, HydrateKeeps
<1>4. /\ messages' \in Seq(Entry) /\ pending' \in [Rows -> {None, Queued, Settled}]
      /\ storeMark' \in 0 .. LastRow /\ ListHolds' /\ RowsTimed(messages)'
  BY <1>3 DEF StoreHolds
<1>5. gone' \in [Rows -> SUBSET Reasons]
  BY <1>1, BlameTypes, ReasonsAre DEF DetailLands
<1>6. /\ tracked' \subseteq Rows /\ fetchComplete' \in BOOLEAN
      /\ watermark' \in 0 .. LastRow /\ held' \in Seq(Body) /\ catchUp' \in CatchUps
  <2>1. CASE open /\ ~loaded
    <3>1. StartStream(storeMark')
      BY <2>1 DEF DetailLands
    <3>2. <<>> \in Seq(Body) /\ FALSE \in BOOLEAN /\ Idle \in CatchUps
      BY DEF CatchUps
    <3>3. QED
      BY <1>4, <3>1, <3>2, AskedIsCatchUp DEF StartStream
  <2>2. CASE ~ (open /\ ~loaded)
    BY <1>1, <2>2 DEF DetailLands, TypeOK, streamVars
  <2>3. QED
    BY <2>1, <2>2
<1>7. detail' \subseteq Reply /\ landed' \in 0 .. MaxFetches
  BY <1>1, <1>2, LatestOf DEF TypeOK
<1>8. TypeOK'
  BY <1>1, <1>3, <1>4, <1>5, <1>6, <1>7 DEF TypeOK, linkVars, sendVars
<1>9. OrderKept
  BY <1>1, <1>3 DEF OrderKept
<1>10. QED
  BY <1>4, <1>8, <1>9 DEF IInv, StoreInv

\* An older page is asked for.
LEMMA LoadOlderStep ==
    ASSUME IInv, LoadOlder
    PROVE  IInv' /\ OrderKept
<1> DEFINE first == Head(messages).id
           S == {q \in Committed : q < first}
           page == {BodyOf(r) : r \in Newest(S, PageSize)}
<1>1. page \subseteq Body
  <2>1. S \subseteq Committed
    OBVIOUS
  <2> HIDE DEF S
  <2>2. QED
    BY <2>1, PageRead DEF IInv
<1>2. /\ TypeOK /\ fetches < MaxFetches /\ fetches' = fetches + 1 /\ loading' = fetches'
      /\ older' = older \cup {[n |-> fetches', rows |-> page]}
      /\ UNCHANGED <<db, linkVars, open, streamVars, storeVars, detail, landed, sendVars,
                     gone, faults, leaves>>
  BY DEF IInv, LoadOlder
<1> HIDE DEF page
<1>3. fetches' \in 0 .. MaxFetches /\ fetches' \in 1 .. MaxFetches
  BY <1>2, Constants DEF TypeOK
<1>4. older' \subseteq Reply
  BY <1>1, <1>2, <1>3 DEF TypeOK, Reply
<1>5. TypeOK'
  BY <1>2, <1>3, <1>4 DEF TypeOK, linkVars, streamVars, storeVars, sendVars
<1>6. StoreInv' /\ OrderKept
  BY <1>2, StoreAside DEF storeVars, sendVars
<1>7. QED
  BY <1>5, <1>6 DEF IInv

\* The page does not wait for a load that has ended.
LEMMA OlderEndsTypes ==
    ASSUME TypeOK, NEW o, OlderEnds(o)
    PROVE  older' \subseteq Reply /\ loading' \in 0 .. MaxFetches
BY Constants DEF TypeOK, OlderEnds

\* prependOlder.
LEMMA OlderLandsStep ==
    ASSUME IInv, NEW o \in older, OlderLands(o)
    PROVE  IInv' /\ OrderKept /\ Shown' = Shown \cup {b.id : b \in o.rows}
<1> DEFINE fresh == {b \in o.rows : b.id \notin Ids(messages)}
           rows == AsRows(fresh)
           list == rows \o messages
<1>1. /\ TypeOK /\ OlderEnds(o) /\ messages' = list
      /\ hasOlder' = (fresh # {} /\ Cardinality(o.rows) >= PageSize)
      /\ UNCHANGED <<db, linkVars, open, streamVars, loaded, pending, storeMark, detail,
                     landed, fetches, sendVars, gone, faults, leaves>>
  BY DEF IInv, OlderLands
<1>2. StoreHolds /\ messages \in Seq(Entry) /\ Distinct(messages) /\ RowsTimed(messages)
  BY InvGivesStore DEF StoreHolds, ListHolds
<1>3. fresh \subseteq Body /\ o.rows \subseteq Body
  BY <1>1 DEF TypeOK, Reply
<1>4. \A b \in fresh : b.id \in Rows /\ b.id \notin Ids(messages)
  BY <1>3 DEF Body
<1> DEFINE P == {b.id : b \in fresh}
<1>5. P \subseteq Rows /\ P \cap Ids(messages) = {}
  BY <1>4
<1>6. Shown \cup P = Shown \cup {b.id : b \in o.rows}
  <2>1. \A b \in o.rows : b.id \in Rows
    BY <1>3 DEF Body
  <2>2. \A b \in o.rows : b \in fresh \/ b.id \in Shown
    BY <2>1 DEF Shown
  <2>3. QED
    BY <2>2
<1> HIDE DEF fresh
<1>7. rows \in Seq(Entry) /\ Ids(rows) = P /\ Distinct(rows) /\ RowsTimed(rows)
  BY <1>3, PageList
<1> HIDE DEF rows, P
<1>8. /\ list \in Seq(Entry) /\ Ids(list) = P \cup Ids(messages)
      /\ Distinct(list) /\ RowsTimed(list)
  BY <1>2, <1>5, <1>7, JoinedList
<1> HIDE DEF list
<1>9. Ids(messages') \cap Sends = Ids(messages) \cap Sends
  BY <1>1, <1>5, <1>8, Constants
<1>10. Shown' = Shown \cup P
  BY <1>1, <1>5, <1>8 DEF Shown
<1>11. storeMark' \in Shown' \cup {0} /\ send' = send
  BY <1>1, <1>2, <1>10 DEF StoreHolds, ListHolds, sendVars
<1>12. pending' \in [Rows -> {None, Queued, Settled}]
  BY <1>1 DEF TypeOK
<1>13. Distinct(messages') /\ RowsTimed(messages') /\ messages' \in Seq(Entry)
  BY <1>1, <1>8
<1>14. StoreHolds'
  BY <1>2, <1>9, <1>11, <1>12, <1>13, StillSound
<1>15. hasOlder' \in BOOLEAN
  BY <1>1
<1>16. older' \subseteq Reply /\ loading' \in 0 .. MaxFetches
  BY <1>1, OlderEndsTypes
<1>17. TypeOK'
  BY <1>1, <1>13, <1>15, <1>16 DEF TypeOK, linkVars, streamVars, sendVars
<1>18. OrderKept
  BY <1>1 DEF OrderKept, OlderEnds
<1>19. QED
  BY <1>6, <1>10, <1>14, <1>17, <1>18 DEF IInv, StoreInv, StoreHolds

\* A GET fails: the store does not hear of it.
LEMMA ReplyFailsStep ==
    ASSUME IInv, ReplyFails
    PROVE  IInv' /\ OrderKept
<1>1. UNCHANGED <<db, linkVars, open, streamVars, storeVars, landed, fetches, sendVars,
                  gone, faults, leaves>>
  BY DEF ReplyFails
<1>2. detail' \subseteq Reply /\ older' \subseteq Reply /\ loading' \in 0 .. MaxFetches
  BY OlderEndsTypes DEF IInv, TypeOK, ReplyFails
<1>3. TypeOK'
  BY <1>1, <1>2 DEF IInv, TypeOK, linkVars, streamVars, storeVars, sendVars
<1>4. StoreInv' /\ OrderKept
  BY <1>1, StoreAside DEF storeVars, sendVars
<1>5. QED
  BY <1>3, <1>4 DEF IInv

\* appendOptimistic.
LEMMA SendStep ==
    ASSUME IInv, NEW s \in Sends, NEW at \in Clocks, Send(s, at)
    PROVE  IInv' /\ OrderKept /\ Shown' = Shown
<1> DEFINE m == [id |-> s, at |-> at, st |-> Queued]
<1>1. /\ TypeOK /\ send[s] = "idle" /\ send' = [send EXCEPT ![s] = "shown"]
      /\ messages' = Insert(messages, m)
      /\ UNCHANGED <<db, linkVars, open, streamVars, loaded, pending, storeMark, hasOlder,
                     restVars, echo, gone, faults, leaves>>
  BY DEF IInv, Send
<1>2. StoreHolds /\ messages \in Seq(Entry) /\ Distinct(messages) /\ RowsTimed(messages)
  BY InvGivesStore DEF StoreHolds, ListHolds
<1>3. m \in Entry /\ m.id = s /\ s \notin Rows
  BY Constants DEF Entry
<1>4. s \notin Ids(messages)
  BY <1>1 DEF IInv, StoreInv, ListHolds
<1> HIDE DEF m
<1>5. /\ messages' \in Seq(Entry) /\ Ids(messages') = Ids(messages) \cup {s}
      /\ Distinct(messages') /\ RowsTimed(messages')
      /\ InTimeOrder(messages) => InTimeOrder(messages')
  BY <1>1, <1>2, <1>3, <1>4, InsertKeeps
<1>6. Shown' = Shown
  BY <1>3, <1>5 DEF Shown
<1>7. send \in [Sends -> {"idle", "shown", "failed"}]
  BY <1>1 DEF TypeOK
<1>8. /\ send' \in [Sends -> {"idle", "shown", "failed"}]
      /\ \A t \in Sends : (send'[t] = "shown") = (t \in Ids(messages'))
  <2>1. \A t \in Sends : (send[t] = "shown") = (t \in Ids(messages))
    BY DEF IInv, StoreInv, ListHolds
  <2>2. QED
    BY <1>1, <1>5, <1>7, <2>1
<1>9. ListHolds' /\ RowsTimed(messages)'
  BY <1>1, <1>5, <1>6, <1>8 DEF ListHolds, Distinct, IInv, StoreInv
<1>10. TypeOK'
  BY <1>1, <1>5, <1>8 DEF TypeOK, linkVars, streamVars, restVars
<1>11. QED
  BY <1>5, <1>6, <1>9, <1>10 DEF IInv, StoreInv, OrderKept

\* removeOptimisticMessage.
LEMMA PostFailsStep ==
    ASSUME IInv, NEW s \in Sends, PostFails(s)
    PROVE  IInv' /\ OrderKept /\ Shown' = Shown
<1> DEFINE I == {i \in DOMAIN messages : messages[i].id # s}
<1>1. /\ TypeOK /\ send[s] = "shown" /\ Fault /\ send' = [send EXCEPT ![s] = "failed"]
      /\ messages' = Keep(messages, I)
      /\ UNCHANGED <<db, linkVars, open, streamVars, loaded, pending, storeMark, hasOlder,
                     restVars, echo, gone, leaves>>
  BY DEF IInv, PostFails
<1>2. messages \in Seq(Entry) /\ Distinct(messages) /\ RowsTimed(messages)
  BY InvGivesStore DEF StoreHolds, ListHolds
<1>3. \A x : (\E i \in I : messages[i].id = x) <=> x \in Ids(messages) /\ x # s
  BY DEF Ids
<1>4. I \subseteq DOMAIN messages
  OBVIOUS
<1> HIDE DEF I
<1>5. /\ messages' \in Seq(Entry)
      /\ \A x : x \in Ids(messages') <=> \E i \in I : messages[i].id = x
      /\ Distinct(messages') /\ RowsTimed(messages')
      /\ InTimeOrder(messages) => InTimeOrder(messages')
  BY <1>1, <1>2, <1>4, KeptList
<1>6. Ids(messages') = Ids(messages) \ {s}
  BY <1>3, <1>5
<1>7. Shown' = Shown
  BY <1>6, Constants DEF Shown
<1>8. send \in [Sends -> {"idle", "shown", "failed"}] /\ faults' \in 0 .. MaxFaults
  BY <1>1, FaultTypes DEF TypeOK
<1>9. /\ send' \in [Sends -> {"idle", "shown", "failed"}]
      /\ \A t \in Sends : (send'[t] = "shown") = (t \in Ids(messages'))
  <2>1. \A t \in Sends : (send[t] = "shown") = (t \in Ids(messages))
    BY DEF IInv, StoreInv, ListHolds
  <2>2. QED
    BY <1>1, <1>6, <1>8, <2>1
<1>10. ListHolds' /\ RowsTimed(messages)'
  BY <1>1, <1>5, <1>7, <1>9 DEF ListHolds, Distinct, IInv, StoreInv
<1>11. TypeOK'
  BY <1>1, <1>5, <1>8, <1>9 DEF TypeOK, linkVars, streamVars, restVars
<1>12. QED
  BY <1>5, <1>7, <1>10, <1>11 DEF IInv, StoreInv, OrderKept

\* The page is left or opened again: the store is not touched.
LEMMA LeaveStep ==
    ASSUME IInv, Leave \/ Return
    PROVE  IInv' /\ OrderKept
<1>1. /\ gone' \in [Rows -> SUBSET Reasons]
      /\ open' \in BOOLEAN /\ leaves' \in 0 .. MaxLeaves
  <2>1. gone' \in [Rows -> SUBSET Reasons]
    BY BlameTypes, ReasonsAre DEF IInv, Leave, Return
  <2>2. open' \in BOOLEAN
    BY DEF Leave, Return
  <2>3. leaves' \in 0 .. MaxLeaves
    BY Constants DEF IInv, TypeOK, Leave, Return
  <2>4. QED
    BY <2>1, <2>2, <2>3
<1>2. /\ tracked' \subseteq Rows /\ fetchComplete' \in BOOLEAN
      /\ watermark' \in 0 .. LastRow /\ held' \in Seq(Body) /\ catchUp' \in CatchUps
  <2>1. <<>> \in Seq(Body) /\ FALSE \in BOOLEAN /\ Idle \in CatchUps
    BY DEF CatchUps
  <2>2. CASE Leave
    BY <2>1, <2>2 DEF IInv, TypeOK, Leave
  <2>3. CASE Return
    <3>1. StartStream(storeMark) \/ UNCHANGED streamVars
      BY <2>3 DEF Return
    <3>2. CASE StartStream(storeMark)
      BY <2>1, <3>2, AskedIsCatchUp DEF IInv, TypeOK, StartStream
    <3>3. CASE UNCHANGED streamVars
      BY <3>3 DEF IInv, TypeOK, streamVars
    <3>4. QED
      BY <3>1, <3>2, <3>3
  <2>4. QED
    BY <2>2, <2>3
<1>3. /\ UNCHANGED <<db, linkVars, storeVars, detail, older, landed, fetches, sendVars, faults>>
      /\ loading' \in 0 .. MaxFetches
  BY Constants DEF IInv, TypeOK, Leave, Return, restVars
<1>4. TypeOK'
  BY <1>1, <1>2, <1>3 DEF IInv, TypeOK, linkVars, storeVars, restVars, sendVars
<1>5. StoreInv' /\ OrderKept
  BY <1>3, <1>4, StoreAside DEF storeVars, sendVars
<1>6. QED
  BY <1>4, <1>5 DEF IInv

-----------------------------------------------------------------------------
(* The theorems.                                                           *)

\* Nothing is shown at the start.
LEMMA StartsSound ==
    ASSUME Init
    PROVE  IInv
<1>1. messages = <<>> /\ DOMAIN messages = {} /\ Ids(messages) = {}
  BY DEF Init, Ids
<1>2. TypeOK
  <2>1. /\ <<>> \in Seq(Frame) /\ <<>> \in Seq(Body) /\ <<>> \in Seq(Entry)
        /\ 0 \in 0 .. LastRow /\ 0 \in 0 .. MaxFaults /\ 0 \in 0 .. MaxLeaves
        /\ 0 \in 0 .. MaxFetches
    BY Constants
  <2>2. /\ catchUp \in CatchUps /\ db \in [Rows -> {None, Queued, Settled}]
        /\ pending \in [Rows -> {None, Queued, Settled}]
        /\ send \in [Sends -> {"idle", "shown", "failed"}] /\ echo \in [Sends -> 0 .. LastRow]
        /\ gone \in [Rows -> SUBSET Reasons]
    BY <2>1 DEF Init, CatchUps
  <2>3. QED
    BY <2>1, <2>2 DEF Init, TypeOK
<1>3. ListHolds
  BY <1>1 DEF Init, ListHolds, Distinct
<1>4. RowsTimed(messages)
  BY <1>1 DEF RowsTimed
<1>5. QED
  BY <1>2, <1>3, <1>4 DEF IInv, StoreInv

\* Every step keeps the invariant, and the order but for the two excepted steps.
LEMMA StepsSound ==
    ASSUME IInv, [Next]_vars
    PROVE  IInv' /\ [OrderKept]_vars
<1>1. CASE Next
  <2>1. ASSUME NEW r \in Rows, Commit(r) \/ Settle(r) PROVE IInv' /\ OrderKept
    BY <2>1, CommitStep
  <2>2. ASSUME NEW s \in Sends, NEW at \in Clocks, Send(s, at) PROVE IInv' /\ OrderKept
    BY <2>2, SendStep
  <2>3. ASSUME NEW s \in Sends, PostFails(s) PROVE IInv' /\ OrderKept
    BY <2>3, PostFailsStep
  <2>4. QED
    BY <1>1, <2>1, <2>2, <2>3, RelayAnswersStep, ConnectsStep, DisconnectsStep,
       FetchTimesOutStep, PageArrivesStep, FrameArrivesStep, FetchDetailStep,
       DetailLandsStep, LoadOlderStep, OlderLandsStep, ReplyFailsStep, LeaveStep
       DEF Next
<1>2. CASE UNCHANGED vars
  <2>1. TypeOK'
    BY <1>2 DEF IInv, TypeOK, vars, linkVars, streamVars, storeVars, restVars, sendVars
  <2>2. StoreInv'
    BY <1>2, StoreAside DEF vars, storeVars, sendVars
  <2>3. QED
    BY <1>2, <2>1, <2>2 DEF IInv
<1>3. QED
  BY <1>1, <1>2

\* The variables have their types, the lists of every length among them.
THEOREM ViewTypes == Spec => []TypeOK
<1>1. IInv => TypeOK
  BY DEF IInv
<1>2. QED
  BY <1>1, StartsSound, StepsSound, PTL DEF Spec

\* The list is sound at all times and after every step: no row twice, a send keeps its
\* place until its echo, the watermark is a row shown, and the order breaks only by an older page
\* or by a refresh with a send on the screen, in every behaviour of any size (MessageStore).
THEOREM StoreIsSound == Spec => []ListSound /\ StoreSound
<1>1. (IInv => ListSound) /\ (IInv' => ListSound')
  BY DEF IInv, StoreInv, ListHolds, ListSound, Distinct
<1>2. IInv /\ [Next]_vars => [ListSound' /\ OrderKept]_vars
  BY <1>1, StepsSound
<1>3. QED
  BY <1>1, <1>2, StartsSound, StepsSound, PTL DEF Spec, StoreSound

-----------------------------------------------------------------------------
(* No gap: the inductive invariant.                                        *)

\* A row that has not committed is at most the window behind those that have.
InWindow == \A q, r \in Rows : db[q] # None /\ db[r] = None => q <= r + Window

\* What a catch-up has collected, and what it is about to collect.
Collected == IF catchUp = Idle THEN {}
             ELSE Ids(catchUp.got) \cup
                  (IF catchUp.st = "answered" THEN {b.id : b \in catchUp.rows} ELSE {})

\* Everything that is shown or on its way has committed.
AllCommitted ==
    /\ Shown \cup Announced \cup Ids(held) \cup Collected \subseteq Committed
    /\ watermark \in Committed \cup {0}
    /\ \A p \in detail \cup older : \A b \in p.rows : db[b.id] # None

\* What the phases of the page, the socket and the stream have in common.
Phases ==
    /\ catchUp # Idle => Streaming /\ up /\ ~fetchComplete
    /\ Streaming /\ fetchComplete => held = <<>>
    /\ ~loaded => Shown = {} /\ older = {} /\ ~hasOlder /\ landed = 0
    /\ ~up => wire = <<>>

\* Rows the list has, or whose absence is accounted for: all that the tracker knows.
Reached == Shown \cup {r \in Rows : gone[r] # {}}
TrackedReached == tracked \subseteq Reached

\* A catch-up has the row, or will get it with the pages that it still asks for.
Covered(r) ==
    /\ catchUp # Idle
    /\ \/ r \in Collected
       \/ /\ catchUp.st = "asked"
          /\ IF catchUp.after.strict THEN r > catchUp.after.at
             ELSE r + Window >= catchUp.after.at
       \/ /\ catchUp.st = "answered" /\ catchUp.more /\ catchUp.rows # {}
          /\ \A b \in catchUp.rows : r > b.id

\* A row is on its way to the list, or will be once the socket is up.
Way(r) == \/ up /\ (r \in Announced \/ r \in Ids(held) \/ Covered(r))
          \/ ~up /\ r + Window >= watermark

\* While the page streams, a row that is not on its way is behind the watermark.
Traced == Streaming => \A r \in Committed \ Reached : Way(r) \/ r + Window < watermark

\* A page holds a row below r and not r.
Above(S, r) == (\E b \in S : b.id <= r) /\ (\A b \in S : b.id # r)

\* A row that a refresh under way skips committed since it was read.
DetailFresh == \A d \in detail, r \in Committed : Above(d.rows, r) =>
                  \A c \in d.rows : c.id <= r + Window

\* Of two refreshes under way the one that was read later reaches as far as the other.
DetailOrdered ==
    /\ \A d \in detail : d.n <= fetches
    /\ \A d, e \in detail : d.n < e.n => \A b \in d.rows : \E c \in e.rows : b.id <= c.id

\* Rows that the list skips, or will skip once a reply lands that has not been
\* overtaken, are on their way.
Owed(r) == \/ \E q \in Shown : q <= r
           \/ \E d \in detail : d.n > landed /\ Above(d.rows, r)
           \/ \E o \in older : Above(o.rows, r)
OwedComes == Streaming => \A r \in Committed \ Reached : Owed(r) => Way(r)

GapInv == /\ InWindow /\ AllCommitted /\ Phases /\ TrackedReached
          /\ Traced /\ DetailFresh /\ DetailOrdered /\ OwedComes

\* Nothing is on its way any more, so nothing is skipped.
LEMMA GapInvGivesNoGap ==
    ASSUME TypeOK, GapInv
    PROVE  NoGap
<1> SUFFICES ASSUME ~Settling, NEW r \in Committed, NEW q \in Shown, q <= r, r \notin Shown
             PROVE  gone[r] \cap Reasons # {}
  BY DEF NoGap, MissesOnly
<1>1. wire = <<>> /\ catchUp = Idle /\ held = <<>> /\ Streaming /\ up
  BY DEF Settling
<1>2. Announced = {} /\ Ids(held) = {} /\ ~Covered(r)
  BY <1>1 DEF Announced, Ids, Covered
<1>3. ~Way(r)
  BY <1>1, <1>2 DEF Way
<1>4. r \in Reached
  BY <1>1, <1>3 DEF GapInv, OwedComes, Owed
<1>5. r \in Rows /\ gone[r] # {} /\ gone[r] \subseteq Reasons
  BY <1>4 DEF Reached, Committed, TypeOK
<1>6. QED
  BY <1>5

-----------------------------------------------------------------------------
(* No gap: what the steps have in common.                                  *)

\* The pages on their way hold rows that have committed.
LEMMA PagesOf ==
    ASSUME TypeOK, GapInv
    PROVE  \A p \in detail \cup older : \A b \in p.rows : b.id \in Rows /\ db[b.id] # None
<1>1. \A p \in detail \cup older : p.rows \subseteq Body
  BY DEF TypeOK, Reply
<1>2. QED
  BY <1>1 DEF GapInv, AllCommitted, Body

\* Only what is on its way matters to a row's way.
LEMMA WayKept ==
    ASSUME NEW r, Way(r), up' = up, watermark' = watermark, held' = held,
           catchUp' = catchUp, r \in Announced => r \in Announced'
    PROVE  Way(r)'
BY DEF Way, Covered, Collected

\* Refreshes under way are no others than before.
LEMMA RefreshesKept ==
    ASSUME GapInv, detail' \subseteq detail, fetches' = fetches, Committed' = Committed
    PROVE  DetailFresh' /\ DetailOrdered'
<1>1. DetailFresh'
  BY DEF GapInv, DetailFresh
<1>2. DetailOrdered'
  BY DEF GapInv, DetailOrdered
<1>3. QED
  BY <1>1, <1>2

\* The list, the pages and the reasons may change, the stream may not.
LEMMA StreamAside ==
    ASSUME GapInv,
           UNCHANGED <<db, up, open, loaded, tracked, held, fetchComplete, watermark, catchUp>>,
           Announced' = Announced, wire = <<>> => wire' = <<>>,
           Reached \subseteq Reached', Shown' \subseteq Committed,
           \A r \in Committed \ Reached' : Streaming /\ Owed(r)' => Owed(r) \/ Way(r),
           loaded \/ (Shown' = {} /\ older' = {} /\ ~hasOlder' /\ landed' = 0),
           \A p \in detail' \cup older' : \A b \in p.rows : db[b.id] # None,
           DetailFresh', DetailOrdered'
    PROVE  GapInv'
<1>1. Committed' = Committed /\ Streaming' = Streaming /\ Collected' = Collected
  BY DEF Committed, Streaming, Collected
<1>2. InWindow' /\ AllCommitted'
  BY <1>1 DEF GapInv, InWindow, AllCommitted
<1>3. Phases'
  BY <1>1 DEF GapInv, Phases
<1>4. TrackedReached'
  BY DEF GapInv, TrackedReached
<1>5. \A r \in Committed \ Reached' : r \in Committed \ Reached /\ (Way(r) => Way(r)')
  BY WayKept
<1>6. Traced' /\ OwedComes'
  BY <1>1, <1>5 DEF GapInv, Traced, OwedComes
<1>7. QED
  BY <1>2, <1>3, <1>4, <1>6 DEF GapInv

\* Only reasons are added, or sends come and go.
LEMMA OnlySends ==
    ASSUME GapInv,
           UNCHANGED <<db, up, open, loaded, hasOlder, tracked, held, fetchComplete, watermark,
                       catchUp, detail, older, landed, fetches>>,
           Shown' = Shown, Announced' = Announced, wire = <<>> => wire' = <<>>,
           \A r \in Rows : gone[r] # {} => gone'[r] # {}
    PROVE  GapInv'
<1>1. Committed' = Committed /\ \A r : Owed(r)' = Owed(r)
  BY DEF Committed, Owed, Above
<1>2. DetailFresh' /\ DetailOrdered'
  BY <1>1, RefreshesKept
<1>3. Reached \subseteq Reached'
  BY DEF Reached
<1>4. Shown' \subseteq Committed
  BY DEF GapInv, AllCommitted
<1>5. loaded \/ (Shown' = {} /\ older' = {} /\ ~hasOlder' /\ landed' = 0)
  BY DEF GapInv, Phases
<1>6. \A p \in detail' \cup older' : \A b \in p.rows : db[b.id] # None
  BY DEF GapInv, AllCommitted
<1>7. QED
  BY <1>1, <1>2, <1>3, <1>4, <1>5, <1>6, StreamAside

\* What is noted stays noted.
LEMMA BlameNotes ==
    ASSUME TypeOK, NEW S, NEW why \in Reasons, Blame(S, why)
    PROVE  /\ \A r \in Rows : gone[r] # {} => gone'[r] # {}
           /\ \A r \in Rows \cap S : gone'[r] # {}
BY DEF Blame

\* Numbers that rows and watermarks are.
LEMMA GapNumbers ==
    ASSUME TypeOK
    PROVE  /\ Rows \subseteq Nat /\ 0 \notin Rows /\ Window \in Nat /\ watermark \in Nat
           /\ Committed \subseteq Rows /\ Shown \subseteq Rows
BY Constants DEF TypeOK, Committed, Shown

-----------------------------------------------------------------------------
(* No gap: the relay and the socket.                                       *)

\* A row commits: it is announced, or near enough to the watermark for the next catch-up.
LEMMA CommitGap ==
    ASSUME IInv, TypeOK, GapInv, NEW r \in Rows, Commit(r)
    PROVE  GapInv'
<1>1. /\ db[r] = None /\ \A q \in Rows : q + Window < r => db[q] # None
      /\ db' = [db EXCEPT ![r] = Queued]
      /\ wire' = IF up THEN Append(wire, [t |-> "new", id |-> r, st |-> Queued]) ELSE wire
      /\ UNCHANGED <<up, open, streamVars, storeVars, restVars, gone>>
  BY DEF Commit
<1>2. /\ \A q \in Rows : db'[q] # None <=> db[q] # None \/ q = r
      /\ Committed' = Committed \cup {r} /\ r \notin Committed
  BY <1>1, RowsAre DEF TypeOK, Committed
<1>3. UNCHANGED <<up, open, tracked, held, fetchComplete, watermark, catchUp, loaded, messages,
                  hasOlder, detail, older, landed, fetches, gone, Shown, Reached, Collected, Streaming>>
  BY <1>1 DEF streamVars, storeVars, restVars, Shown, Reached, Collected, Streaming
<1>4. Announced' = IF up THEN Announced \cup {r} ELSE Announced
  <2>1. CASE ~up
    BY <1>1, <2>1 DEF Announced
  <2>2. CASE up
    <3> DEFINE f == [t |-> "new", id |-> r, st |-> Queued]
    <3>1. f.t = "new" /\ f.id = r /\ wire \in Seq(Frame) /\ f \in Frame
      BY RowsAre DEF TypeOK
    <3>2. wire' = Append(wire, f)
      BY <1>1, <2>2
    <3> HIDE DEF f
    <3>3. /\ DOMAIN wire = 1 .. Len(wire) /\ Len(wire) \in Nat
          /\ DOMAIN wire' = 1 .. Len(wire) + 1
          /\ \A i \in 1 .. Len(wire) : wire'[i] = wire[i]
          /\ wire'[Len(wire) + 1] = f
      BY <3>1, <3>2
    <3>4. \A i \in 1 .. Len(wire) + 1 : i \in 1 .. Len(wire) \/ i = Len(wire) + 1
      BY <3>3
    <3>5. \A i \in 1 .. Len(wire) : i \in 1 .. Len(wire) + 1
      BY <3>3
    <3>6. Len(wire) + 1 \in 1 .. Len(wire) + 1
      BY <3>3
    <3>7. \A x \in Rows : (\E i \in DOMAIN wire' : wire'[i].t = "new" /\ wire'[i].id = x)
                <=> (\E i \in DOMAIN wire : wire[i].t = "new" /\ wire[i].id = x) \/ x = r
      BY <3>1, <3>3, <3>4, <3>5, <3>6
    <3>8. QED
      BY <2>2, <3>7 DEF Announced
  <2>3. QED
    BY <2>1, <2>2
<1>5. InWindow'
  <2> SUFFICES ASSUME NEW q \in Rows, NEW x \in Rows, db'[q] # None, db'[x] = None
               PROVE  q <= x + Window
    BY DEF InWindow
  <2>1. db[x] = None /\ x # r
    BY <1>2
  <2>2. CASE q = r
    <3>1. ~ (x + Window < r)
      BY <1>1, <2>1
    <3>2. QED
      BY <2>2, <3>1, GapNumbers
  <2>3. CASE q # r
    BY <1>2, <2>1, <2>3 DEF GapInv, InWindow
  <2>4. QED
    BY <2>2, <2>3
<1>6. \A c \in Committed : c <= r + Window
  BY <1>1 DEF GapInv, InWindow, Committed
<1>7. AllCommitted'
  <2>1. \A p \in detail' \cup older' : \A b \in p.rows : db'[b.id] # None
    BY <1>2, <1>3, PagesOf DEF GapInv
  <2>2. QED
    BY <1>2, <1>3, <1>4, <2>1 DEF GapInv, AllCommitted
<1>8. Phases'
  BY <1>1, <1>3 DEF GapInv, Phases
<1>9. TrackedReached'
  BY <1>3 DEF GapInv, TrackedReached
<1>10. Way(r)'
  <2>1. CASE up
    BY <1>3, <1>4, <2>1 DEF Way
  <2>2. CASE ~up
    <3>1. watermark \in Nat /\ (watermark \in Committed \/ watermark = 0)
      BY GapNumbers DEF GapInv, AllCommitted
    <3>2. r + Window >= watermark
      BY <1>6, <3>1, GapNumbers
    <3>3. QED
      BY <1>3, <2>2, <3>2 DEF Way
  <2>3. QED
    BY <2>1, <2>2
<1>11. \A x \in Rows : Way(x) => Way(x)'
  BY <1>3, <1>4, WayKept
<1>12. Traced'
  <2>1. \A x \in (Committed \cup {r}) \ Reached :
            Streaming => Way(x)' \/ x + Window < watermark
    BY <1>10, <1>11, GapNumbers DEF GapInv, Traced
  <2>2. QED
    BY <1>2, <1>3, <2>1 DEF Traced
<1>13. \A x : Owed(x)' = Owed(x)
  BY <1>3 DEF Owed, Above
<1>14. OwedComes'
  <2>1. \A x \in (Committed \cup {r}) \ Reached : Streaming /\ Owed(x) => Way(x)'
    BY <1>10, <1>11, GapNumbers DEF GapInv, OwedComes
  <2>2. QED
    BY <1>2, <1>3, <1>13, <2>1 DEF OwedComes
<1>15. DetailFresh'
  <2> SUFFICES ASSUME NEW d \in detail, NEW x \in Committed', Above(d.rows, x), NEW c \in d.rows
               PROVE  c.id <= x + Window
    BY <1>3 DEF DetailFresh
  <2>1. CASE x = r
    <3>1. c.id \in Committed
      BY PagesOf DEF Committed
    <3>2. QED
      BY <1>6, <2>1, <3>1
  <2>2. CASE x # r
    BY <1>2, <2>2 DEF GapInv, DetailFresh
  <2>3. QED
    BY <2>1, <2>2
<1>16. DetailOrdered'
  BY <1>3 DEF GapInv, DetailOrdered
<1>17. QED
  BY <1>5, <1>7, <1>8, <1>9, <1>12, <1>14, <1>15, <1>16 DEF GapInv

\* A row settles: its frame announces no row.
LEMMA SettleGap ==
    ASSUME IInv, GapInv, NEW r \in Rows, Settle(r)
    PROVE  GapInv'
<1> DEFINE f == [t |-> "update", id |-> r, st |-> Settled]
<1>1. /\ db[r] = Queued /\ db' = [db EXCEPT ![r] = Settled]
      /\ wire' = IF up THEN Append(wire, f) ELSE wire
      /\ UNCHANGED <<up, open, streamVars, storeVars, restVars, sendVars, gone, faults, leaves>>
  BY DEF Settle
<1>2. \A q \in Rows : db'[q] # None <=> db[q] # None
  BY <1>1, RowsAre DEF IInv, TypeOK
<1>3. UNCHANGED <<up, open, tracked, held, fetchComplete, watermark, catchUp, loaded, messages,
                  hasOlder, detail, older, landed, fetches, gone, Shown, Reached, Collected, Streaming, Committed>>
  BY <1>1, <1>2 DEF streamVars, storeVars, restVars, Shown, Reached, Collected, Streaming, Committed
<1>4. f.t # "new" /\ wire \in Seq(Frame) /\ f \in Frame
  BY RowsAre DEF IInv, TypeOK
<1> HIDE DEF f
<1>5. Announced' = Announced
  <2>1. CASE ~up
    BY <1>1, <2>1 DEF Announced
  <2>2. CASE up
    <3>1. wire' = Append(wire, f)
      BY <1>1, <2>2
    <3>2. /\ DOMAIN wire = 1 .. Len(wire) /\ Len(wire) \in Nat
          /\ DOMAIN wire' = 1 .. Len(wire) + 1
          /\ \A i \in 1 .. Len(wire) : wire'[i] = wire[i]
          /\ wire'[Len(wire) + 1] = f
      BY <1>4, <3>1
    <3>3. \A i \in 1 .. Len(wire) + 1 : i \in 1 .. Len(wire) \/ i = Len(wire) + 1
      BY <3>2
    <3>4. \A i \in 1 .. Len(wire) : i \in 1 .. Len(wire) + 1
      BY <3>2
    <3>5. \A x \in Rows : (\E i \in DOMAIN wire' : wire'[i].t = "new" /\ wire'[i].id = x)
                <=> (\E i \in DOMAIN wire : wire[i].t = "new" /\ wire[i].id = x)
      BY <1>4, <3>2, <3>3, <3>4
    <3>6. QED
      BY <3>5 DEF Announced
  <2>3. QED
    BY <2>1, <2>2
<1>6. InWindow'
  BY <1>2 DEF GapInv, InWindow
<1>7. \A p \in detail \cup older : \A b \in p.rows : db'[b.id] # None
  BY <1>2, PagesOf DEF IInv
<1>8. AllCommitted'
  BY <1>3, <1>5, <1>7 DEF GapInv, AllCommitted
<1>9. Phases' /\ TrackedReached'
  BY <1>1, <1>3 DEF GapInv, Phases, TrackedReached
<1>10. \A x : Way(x) => Way(x)'
  BY <1>3, <1>5, WayKept
<1>11. \A x : Owed(x)' = Owed(x)
  BY <1>3 DEF Owed, Above
<1>12. Traced' /\ OwedComes'
  BY <1>3, <1>10, <1>11 DEF GapInv, Traced, OwedComes
<1>13. DetailFresh' /\ DetailOrdered'
  BY <1>3, RefreshesKept
<1>14. QED
  BY <1>6, <1>8, <1>9, <1>12, <1>13 DEF GapInv

\* The oldest of some rows are some of them, and no later than the others.
LEMMA OldestOf ==
    ASSUME NEW S, IsFiniteSet(S), \A b \in S : b.id \in Rows
    PROVE  /\ Oldest(S, FetchLimit) \subseteq S
           /\ \A a \in S \ Oldest(S, FetchLimit), b \in Oldest(S, FetchLimit) : b.id <= a.id
           /\ S # {} => Oldest(S, FetchLimit) # {}
<1> DEFINE E(b) == {c \in S : c.id < b.id}
<1>1. \A b \in S : b.id \in Nat
  BY Constants
<1>2. \A b \in S : E(b) \subseteq S
  OBVIOUS
<1> HIDE DEF E
<1>3. \A b \in S : IsFiniteSet(E(b)) /\ Cardinality(E(b)) \in Nat
  BY <1>2, FS_Subset, FS_CardinalityType
<1>4. Oldest(S, FetchLimit) = {b \in S : Cardinality(E(b)) < FetchLimit}
  BY DEF Oldest, E
<1>5. ASSUME NEW a \in S, NEW b \in S, Cardinality(E(b)) < FetchLimit, ~ (b.id <= a.id)
      PROVE  Cardinality(E(a)) < FetchLimit
  <2>1. a.id < b.id /\ a.id \in Nat /\ b.id \in Nat
    BY <1>1, <1>5
  <2>2. \A c \in S : c.id \in Nat /\ (c.id < a.id => c.id < b.id)
    BY <1>1, <2>1
  <2>3. E(a) \subseteq E(b)
    BY <2>2 DEF E
  <2>4. Cardinality(E(a)) <= Cardinality(E(b))
    BY <1>3, <2>3, FS_Subset
  <2>5. QED
    BY <1>3, <1>5, <2>4, Constants
<1>6. ASSUME S # {} PROVE \E b \in S : Cardinality(E(b)) < FetchLimit
  <2> DEFINE I == {b.id : b \in S}
  <2>1. I \subseteq 0 .. LastRow /\ I # {}
    BY <1>6, Constants
  <2>2. \E x \in I : \A y \in I : x <= y
    <3> HIDE DEF I
    <3> QED
      BY <2>1, Constants, SmallestOf
  <2>3. PICK b \in S : \A c \in S : b.id <= c.id
    BY <2>2
  <2>4. \A c \in S : ~ (c.id < b.id)
    BY <1>1, <2>3
  <2>5. E(b) = {}
    BY <2>4 DEF E
  <2>6. Cardinality(E(b)) < FetchLimit
    BY <2>5, FS_EmptySet, ViewAssumption
  <2>7. QED
    BY <2>6
<1>7. QED
  BY <1>4, <1>5, <1>6

\* What the relay reads is finite, holds committed rows, and those that were asked for.
LEMMA FetchedOf ==
    ASSUME TypeOK, NEW after
    PROVE  /\ IsFiniteSet(Fetched(after)) /\ \A b \in Fetched(after) : b.id \in Committed
           /\ \A r \in Committed :
                 (IF after.strict THEN r > after.at ELSE r + Window >= after.at)
                    => \E b \in Fetched(after) : b.id = r
           /\ \A a, b \in Fetched(after) : a.id = b.id => a = b
<1> DEFINE Q == {q \in Committed :
                    IF after.strict THEN q > after.at ELSE q + Window >= after.at}
<1>1. Fetched(after) = {BodyOf(r) : r \in Q}
  BY DEF Fetched
<1>2. Q \subseteq Rows /\ Q \subseteq Committed
  BY DEF Committed
<1>3. \A r : BodyOf(r).id = r
  BY DEF BodyOf
<1>4. IsFiniteSet(Rows)
  <2>1. 1 \in Int /\ LastRow \in Int
    BY Constants
  <2>2. IsFiniteSet(1 .. LastRow)
    BY <2>1, FS_Interval
  <2>3. QED
    BY <2>2, Constants
<1>5. \A r \in Committed :
         (IF after.strict THEN r > after.at ELSE r + Window >= after.at) => r \in Q
  OBVIOUS
<1> HIDE DEF Q
<1>6. IsFiniteSet({BodyOf(r) : r \in Q})
  <2>1. IsFiniteSet(Q)
    BY <1>2, <1>4, FS_Subset
  <2> DEFINE g == [r \in Q |-> BodyOf(r)]
             T == {BodyOf(r) : r \in Q}
  <2>2. g \in [Q -> T] /\ \A b \in T : \E r \in Q : g[r] = b
    OBVIOUS
  <2> HIDE DEF g, T
  <2>3. g \in Surjection(Q, T)
    BY <2>2 DEF Surjection
  <2>4. IsFiniteSet(T)
    BY <2>1, <2>3, FS_Surjection DEF ExistsSurjection
  <2>5. QED
    BY <2>4 DEF T
<1>7. \A a, b \in {BodyOf(r) : r \in Q} : a.id = b.id => a = b
  BY <1>3
<1>8. QED
  BY <1>1, <1>2, <1>3, <1>5, <1>6, <1>7

\* The relay's answer has the rows that were asked for, or says that there are more.
LEMMA RelayAnswersGap ==
    ASSUME IInv, GapInv, RelayAnswers
    PROVE  GapInv'
<1> DEFINE all == Fetched(catchUp.after)
           page == Oldest(all, FetchLimit)
<1>1. /\ catchUp # Idle /\ catchUp.st = "asked"
      /\ catchUp' = [st |-> "answered", got |-> catchUp.got, rows |-> page, more |-> all # page]
      /\ UNCHANGED <<db, linkVars, open, tracked, held, fetchComplete, watermark,
                     storeVars, restVars, sendVars, gone, faults, leaves>>
  BY DEF RelayAnswers
<1>2. /\ IsFiniteSet(all) /\ \A b \in all : b.id \in Committed
      /\ \A r \in Committed :
            (IF catchUp.after.strict THEN r > catchUp.after.at ELSE r + Window >= catchUp.after.at)
               => \E b \in all : b.id = r
      /\ \A a, b \in all : a.id = b.id => a = b
  BY FetchedOf DEF IInv
<1> HIDE DEF all
<1>3. /\ page \subseteq all /\ \A a \in all \ page, b \in page : b.id <= a.id
      /\ all # {} => page # {}
  BY <1>2, GapNumbers, OldestOf DEF IInv
<1> HIDE DEF page
<1>4. \A a \in all \ page, b \in page : a.id > b.id
  <2> SUFFICES ASSUME NEW a \in all \ page, NEW b \in page PROVE a.id > b.id
    OBVIOUS
  <2>1. a.id # b.id /\ a.id \in Nat /\ b.id \in Nat
    BY <1>2, <1>3, GapNumbers DEF IInv
  <2>2. QED
    BY <1>3, <2>1
<1>5. UNCHANGED <<db, up, wire, open, loaded, hasOlder, tracked, held, fetchComplete, watermark,
                  messages, detail, older, landed, fetches, gone, Shown, Reached, Streaming, Committed, Announced>>
  BY <1>1 DEF linkVars, storeVars, restVars, Shown, Reached, Streaming, Committed, Announced
<1>6. /\ catchUp' # Idle /\ catchUp'.st = "answered" /\ catchUp'.got = catchUp.got
      /\ catchUp'.rows = page /\ catchUp'.more = (all # page)
  BY <1>1 DEF Idle
<1>7. Collected = Ids(catchUp.got) /\ Collected' = Ids(catchUp.got) \cup {b.id : b \in page}
  BY <1>1, <1>6 DEF Collected
<1>8. ASSUME NEW r \in Committed, Covered(r) PROVE Covered(r)'
  <2>1. CASE r \in Collected
    BY <1>6, <1>7, <2>1 DEF Covered
  <2>2. CASE r \notin Collected
    <3>1. PICK a \in all : a.id = r
      BY <1>1, <1>2, <1>8, <2>2 DEF Covered
    <3>2. CASE a \in page
      BY <1>6, <1>7, <3>1, <3>2 DEF Covered
    <3>3. CASE a \notin page
      BY <1>3, <1>4, <1>6, <3>1, <3>3 DEF Covered
    <3>4. QED
      BY <3>2, <3>3
  <2>3. QED
    BY <2>1, <2>2
<1>9. \A r \in Committed : Way(r) => Way(r)'
  BY <1>5, <1>8 DEF Way
<1>10. \A r : Owed(r)' = Owed(r)
  BY <1>5 DEF Owed, Above
<1>11. Traced' /\ OwedComes'
  BY <1>5, <1>9, <1>10 DEF GapInv, Traced, OwedComes
<1>12. AllCommitted'
  BY <1>2, <1>3, <1>5, <1>7 DEF GapInv, AllCommitted
<1>13. Phases' /\ TrackedReached' /\ InWindow'
  BY <1>1, <1>5 DEF GapInv, Phases, TrackedReached, InWindow
<1>14. DetailFresh' /\ DetailOrdered'
  BY <1>5, RefreshesKept
<1>15. QED
  BY <1>11, <1>12, <1>13, <1>14 DEF GapInv

\* The socket comes up: what is near the watermark is asked for.
LEMMA ConnectsGap ==
    ASSUME IInv, GapInv, Connects
    PROVE  GapInv'
<1>1. /\ ~up /\ up' = TRUE /\ wire' = <<>> /\ wire = <<>>
      /\ UNCHANGED <<db, open, tracked, watermark, storeVars, restVars, sendVars, gone,
                     faults, leaves>>
  BY DEF Connects, GapInv, Phases
<1>2. UNCHANGED <<db, open, loaded, hasOlder, tracked, watermark,
                  messages, detail, older, landed, fetches, gone, Shown, Reached, Streaming, Committed>>
  BY <1>1 DEF storeVars, restVars, Shown, Reached, Streaming, Committed
<1>3. Announced = {} /\ Announced' = {}
  BY <1>1 DEF Announced
<1>4. catchUp = Idle
  BY <1>1 DEF GapInv, Phases
<1>5. CASE Streaming
  <2>1. /\ held' = <<>> /\ fetchComplete' = FALSE
        /\ catchUp' = Asked(After(watermark, FALSE), <<>>)
    BY <1>5 DEF Connects
  <2>2. /\ catchUp' # Idle /\ catchUp'.st = "asked" /\ catchUp'.after.at = watermark
        /\ catchUp'.after.strict = FALSE /\ catchUp'.got = <<>>
    <3>1. catchUp' = [st |-> "asked", after |-> [at |-> watermark, strict |-> FALSE],
                      got |-> <<>>]
      BY <2>1 DEF Asked, After
    <3>2. catchUp'.st = "asked" /\ Idle.st = "idle"
      BY <3>1 DEF Idle
    <3>3. catchUp' # Idle
      BY <3>2
    <3>4. catchUp'.got = <<>> /\ catchUp'.after = [at |-> watermark, strict |-> FALSE]
      BY <3>1
    <3>5. catchUp'.after.at = watermark
      BY <3>4
    <3>6. catchUp'.after.strict = FALSE
      BY <3>4
    <3>7. QED
      BY <3>2, <3>3, <3>4, <3>5, <3>6
  <2>3. Ids(held)' = {} /\ Collected' = {}
    <3>1. Ids(held)' = {}
      BY <2>1 DEF Ids
    <3>2. \A x \in Ids(catchUp.got)' : FALSE
      <4>1. DOMAIN catchUp'.got = {}
        BY <2>2
      <4>2. QED
        BY <4>1 DEF Ids
    <3>3. Collected' = Ids(catchUp.got)'
      BY <2>2 DEF Collected
    <3>4. QED
      BY <3>1, <3>2, <3>3
  <2>4. \A r : Way(r) => Way(r)'
    BY <1>1, <1>2, <2>2 DEF Way, Covered
  <2>5. \A r : Owed(r)' = Owed(r)
    BY <1>2 DEF Owed, Above
  <2>6. Traced' /\ OwedComes'
    BY <1>2, <2>4, <2>5 DEF GapInv, Traced, OwedComes
  <2>7. AllCommitted'
    BY <1>2, <1>3, <2>3 DEF GapInv, AllCommitted
  <2>8. Phases' /\ TrackedReached' /\ InWindow'
    BY <1>1, <1>2, <1>5, <2>1 DEF GapInv, Phases, TrackedReached, InWindow
  <2>9. DetailFresh' /\ DetailOrdered'
    BY <1>2, RefreshesKept
  <2>10. QED
    BY <2>6, <2>7, <2>8, <2>9 DEF GapInv
<1>6. CASE ~Streaming
  <2>1. UNCHANGED <<held, fetchComplete, catchUp>>
    BY <1>6 DEF Connects
  <2>2. Traced' /\ OwedComes'
    BY <1>2, <1>6 DEF Traced, OwedComes
  <2>3. AllCommitted'
    BY <1>2, <1>3, <2>1 DEF GapInv, AllCommitted, Collected
  <2>4. Phases' /\ TrackedReached' /\ InWindow'
    BY <1>1, <1>2, <1>4, <1>6, <2>1 DEF GapInv, Phases, TrackedReached, InWindow
  <2>5. DetailFresh' /\ DetailOrdered'
    BY <1>2, RefreshesKept
  <2>6. QED
    BY <2>2, <2>3, <2>4, <2>5 DEF GapInv
<1>7. QED
  BY <1>5, <1>6

\* The store stays as it is, and what was on its way still is.
LEMMA StreamOn ==
    ASSUME GapInv,
           UNCHANGED <<db, open, loaded, detail, older, landed, fetches, tracked, watermark>>,
           Shown' = Shown, \A r \in Rows : gone[r] # {} => gone'[r] # {},
           AllCommitted', Phases',
           \A r \in Committed \ Reached' : Streaming /\ Way(r) => Way(r)'
    PROVE  GapInv'
<1>1. Committed' = Committed /\ Streaming' = Streaming /\ Reached \subseteq Reached'
  BY DEF Committed, Streaming, Reached
<1>2. \A r : Owed(r)' = Owed(r)
  BY DEF Owed, Above
<1>3. Traced' /\ OwedComes'
  BY <1>1, <1>2 DEF GapInv, Traced, OwedComes
<1>4. InWindow' /\ TrackedReached' /\ DetailFresh' /\ DetailOrdered'
  BY RefreshesKept, <1>1 DEF GapInv, InWindow, TrackedReached
<1>5. QED
  BY <1>3, <1>4 DEF GapInv

\* Rows that deliver() shows, and where it moves the watermark.
LEMMA DeliverShows ==
    ASSUME TypeOK, watermark \in Committed \cup {0},
           NEW bodies \in Seq(Body), Deliver(bodies), Ids(bodies) \subseteq Committed
    PROVE  /\ Shown' = Shown \cup Ids(bodies)
           /\ watermark' \in Committed \cup {0} /\ watermark' \in Nat /\ watermark <= watermark'
<1>1. /\ watermark' = Biggest({watermark} \cup Ids(bodies))
      /\ messages' = Merged(bodies)
  BY DEF Deliver
<1>2. Ids(messages') = Ids(messages) \cup Ids(bodies)
  BY <1>1, MergedKeeps DEF TypeOK
<1>3. Ids(bodies) \subseteq Rows
  BY DEF Committed
<1>4. Shown' = Shown \cup Ids(bodies)
  BY <1>2, <1>3 DEF Shown
<1> DEFINE S == {watermark} \cup Ids(bodies)
<1>5. S \subseteq 0 .. LastRow /\ watermark \in S
  BY <1>3, Constants DEF TypeOK
<1>6. S \subseteq Committed \cup {0}
  OBVIOUS
<1> HIDE DEF S
<1>7. Biggest(S) \in S \cup {0} /\ \A y \in S : y <= Biggest(S)
  BY <1>5, Constants, BiggestOf
<1>8. watermark' = Biggest(S)
  BY <1>1 DEF S
<1>9. watermark' \in Committed \cup {0} /\ watermark <= watermark'
  BY <1>5, <1>6, <1>7, <1>8
<1>10. watermark' \in Nat
  BY <1>9, GapNumbers
<1>11. QED
  BY <1>4, <1>9, <1>10

\* completeFetch shows all it has, but for what the tracker knows.
LEMMA CompleteFetchShows ==
    ASSUME IInv, GapInv, NEW rows \in Seq(Body), CompleteFetch(rows),
           Ids(rows) \subseteq Committed, \A r \in Rows : gone[r] # {} => gone'[r] # {}
    PROVE  /\ Shown \cup ((Ids(rows) \cup Ids(held)) \ tracked) = Shown'
           /\ Shown' \subseteq Committed /\ Reached \subseteq Reached'
           /\ Ids(rows) \cup Ids(held) \subseteq Reached' /\ tracked' \subseteq Reached'
           /\ watermark' \in Committed \cup {0} /\ watermark' \in Nat /\ watermark <= watermark'
<1>1. PICK bodies \in Seq(Body) :
         /\ Deliver(bodies) /\ tracked' = tracked \cup Ids(bodies)
         /\ Ids(bodies) = (Ids(rows) \cup Ids(held)) \ tracked
  BY CompleteFetchDelivers DEF IInv, TypeOK
<1>2. Ids(held) \subseteq Committed /\ Shown \subseteq Committed
      /\ watermark \in Committed \cup {0} /\ tracked \subseteq Reached
  BY DEF GapInv, AllCommitted, TrackedReached
<1>3. Ids(bodies) \subseteq Committed
  BY <1>1, <1>2
<1>4. /\ Shown' = Shown \cup Ids(bodies)
      /\ watermark' \in Committed \cup {0} /\ watermark' \in Nat /\ watermark <= watermark'
  BY <1>1, <1>2, <1>3, DeliverShows DEF IInv
<1>5. Reached \subseteq Reached' /\ Ids(bodies) \subseteq Reached'
  BY <1>4 DEF Reached
<1>6. QED
  BY <1>1, <1>2, <1>3, <1>4, <1>5

\* A catch-up that fails delivers what it has and accounts for the rest.
LEMMA CatchUpFailsGap ==
    ASSUME IInv, GapInv, NEW why \in Reasons, catchUp # Idle, CatchUpFails(why),
           UNCHANGED <<db, open, detail, older, landed, fetches>>,
           Announced' \subseteq Announced, ~up' => wire' = <<>>
    PROVE  GapInv'
<1> DEFINE S == Committed \ (Shown \cup Ids(held) \cup Ids(catchUp.got))
<1>1. catchUp.got \in Seq(Body)
  BY CatchUpShape DEF IInv
<1>2. Ids(catchUp.got) \subseteq Committed
  BY DEF GapInv, AllCommitted, Collected
<1>3. CompleteFetch(catchUp.got) /\ Blame(S, why)
  BY DEF CatchUpFails
<1> HIDE DEF S
<1>4. /\ \A r \in Rows : gone[r] # {} => gone'[r] # {}
      /\ \A r \in Rows \cap S : gone'[r] # {}
  BY <1>3, BlameNotes DEF IInv
<1>5. /\ Shown' \subseteq Committed /\ Reached \subseteq Reached'
      /\ Ids(catchUp.got) \cup Ids(held) \subseteq Reached' /\ tracked' \subseteq Reached'
      /\ watermark' \in Committed \cup {0}
  BY <1>1, <1>2, <1>3, <1>4, CompleteFetchShows
<1>6. Committed' = Committed /\ Committed \subseteq Rows
  BY DEF Committed
<1>7. Committed \subseteq Reached'
  BY <1>4, <1>5, <1>6 DEF S, Reached
<1>8. /\ held' = <<>> /\ fetchComplete' = TRUE /\ catchUp' = Idle
      /\ UNCHANGED <<loaded, hasOlder>>
  BY <1>3 DEF CompleteFetch
<1>9. Traced' /\ OwedComes'
  BY <1>6, <1>7 DEF Traced, OwedComes
<1>10. Ids(held)' = {} /\ Collected' = {}
  BY <1>8 DEF Ids, Collected
<1>11. AllCommitted'
  BY <1>5, <1>6, <1>10 DEF GapInv, AllCommitted
<1>12. loaded
  BY DEF GapInv, Phases, Streaming
<1>13. Phases'
  BY <1>8, <1>12 DEF Phases
<1>14. InWindow' /\ TrackedReached' /\ DetailFresh' /\ DetailOrdered'
  BY RefreshesKept, <1>5, <1>6 DEF GapInv, InWindow, TrackedReached
<1>15. QED
  BY <1>9, <1>11, <1>13, <1>14 DEF GapInv

\* The socket goes down.
LEMMA DisconnectsGap ==
    ASSUME IInv, NeverStuck, GapInv, Disconnects
    PROVE  GapInv'
<1>1. /\ up /\ up' = FALSE /\ wire' = <<>>
      /\ UNCHANGED <<db, open, restVars, sendVars, leaves>>
  BY DEF Disconnects
<1>2. Announced' = {}
  BY <1>1 DEF Announced
<1>3. UNCHANGED <<detail, older, landed, fetches>>
  BY <1>1 DEF restVars
<1>4. CASE catchUp # Idle
  <2>1. CatchUpFails("cut")
    BY <1>4 DEF Disconnects
  <2>2. QED
    BY <1>1, <1>2, <1>3, <1>4, <2>1, CatchUpFailsGap, ReasonsAre
<1>5. CASE catchUp = Idle
  <2> DEFINE S == (Announced \cap Passed) \ Shown
  <2>1. UNCHANGED <<streamVars, storeVars>> /\ Blame(S, "late")
    BY <1>5 DEF Disconnects
  <2> HIDE DEF S
  <2>2. UNCHANGED <<tracked, held, fetchComplete, watermark, catchUp, loaded, messages, hasOlder,
                    Shown, Committed, Streaming, Collected>>
    BY <1>1, <2>1 DEF streamVars, storeVars, Shown, Committed, Streaming, Collected
  <2>3. /\ \A r \in Rows : gone[r] # {} => gone'[r] # {}
        /\ \A r \in Rows \cap S : gone'[r] # {}
    BY <2>1, ReasonsAre, BlameNotes DEF IInv
  <2>4. AllCommitted'
    BY <1>1, <1>2, <1>3, <2>2 DEF GapInv, AllCommitted
  <2>5. Phases'
    BY <1>1, <1>3, <1>5, <2>2 DEF GapInv, Phases
  <2>6. ASSUME NEW r \in Committed \ Reached', Streaming, Way(r) PROVE Way(r)'
    <3>1. fetchComplete
      BY <1>1, <1>5, <2>6 DEF NeverStuck
    <3>2. Ids(held) = {}
      BY <2>6, <3>1 DEF GapInv, Phases, Ids
    <3>3. r \in Announced
      BY <1>1, <1>5, <2>6, <3>2 DEF Way, Covered
    <3>4. r \in Rows /\ r \notin Shown /\ gone'[r] = {}
      BY <2>2, <2>6, GapNumbers DEF Reached, IInv
    <3>5. ~ (r + Window < watermark)
      BY <2>3, <2>6, <3>3, <3>4 DEF S, Passed
    <3>6. r + Window >= watermark
      BY <3>4, <3>5, GapNumbers DEF IInv
    <3>7. QED
      BY <1>1, <2>2, <3>6 DEF Way
  <2>7. QED
    BY <1>1, <1>3, <2>2, <2>3, <2>4, <2>5, <2>6, StreamOn
<1>6. QED
  BY <1>4, <1>5

\* A fetch runs into its timeout.
LEMMA FetchTimesOutGap ==
    ASSUME IInv, GapInv, FetchTimesOut
    PROVE  GapInv'
<1>1. /\ up /\ catchUp # Idle /\ CatchUpFails("timeout")
      /\ UNCHANGED <<db, up, wire, open, detail, older, landed, fetches>>
  BY DEF FetchTimesOut, linkVars, restVars
<1>2. Announced' = Announced
  BY <1>1 DEF Announced
<1>3. QED
  BY <1>1, <1>2, CatchUpFailsGap, ReasonsAre

\* What a delivery uncovers stays noted.
LEMMA UncoversNotes ==
    ASSUME TypeOK, Uncovers
    PROVE  /\ \A r \in Rows : gone[r] # {} => gone'[r] # {}
           /\ \A r \in Rows : /\ r \in Passed' /\ r \notin Shown' /\ r \notin Announced
                              /\ \E b \in Shown' : b <= r
                              /\ \A q \in Shown : r < q
                              => gone'[r] # {}
<1> DEFINE S == Uncovered
<1>1. Blame(S, "old")
  BY DEF Uncovers
<1>2. \A r \in Rows : /\ r \in Passed' /\ r \notin Shown' /\ r \notin Announced
                      /\ \E b \in Shown' : b <= r
                      /\ \A q \in Shown : r < q
                      => r \in Rows \cap S
  BY DEF Uncovered
<1> HIDE DEF S
<1>3. /\ \A r \in Rows : gone[r] # {} => gone'[r] # {}
      /\ \A r \in Rows \cap S : gone'[r] # {}
  BY <1>1, ReasonsAre, BlameNotes
<1>4. QED
  BY <1>2, <1>3

\* The pages collected so far, with the one that arrives, are what was collected.
LEMMA CollectedIds ==
    ASSUME TypeOK, catchUp # Idle, catchUp.st = "answered"
    PROVE  /\ Ids(catchUp.got \o InOrder(catchUp.rows)) = Collected
           /\ catchUp.rows # {} =>
                Last(catchUp.got \o InOrder(catchUp.rows)) \in catchUp.rows
<1> DEFINE q == InOrder(catchUp.rows)
           got == catchUp.got \o q
           I == {b.id : b \in catchUp.rows}
<1>1. catchUp.got \in Seq(Body) /\ catchUp.rows \subseteq Body
  BY CatchUpShape
<1>2. \A b \in catchUp.rows : b.id \in 1 .. LastRow
  BY <1>1, Constants DEF Body
<1>3. /\ q \in Seq(catchUp.rows)
      /\ DOMAIN q = 1 .. Len(q) /\ Len(q) \in Nat
      /\ \A b \in catchUp.rows : \E i \in DOMAIN q : q[i].id = b.id
  BY <1>2, Constants, InOrderOf
<1>4. q \in Seq(Body) /\ \A i \in DOMAIN q : q[i] \in catchUp.rows
  BY <1>1, <1>3
<1> HIDE DEF q
<1>5. Ids(q) = I
  <2>1. \A x \in Ids(q) : x \in I
    BY <1>4 DEF Ids
  <2>2. \A x \in I : x \in Ids(q)
    <3> SUFFICES ASSUME NEW b \in catchUp.rows PROVE b.id \in Ids(q)
      OBVIOUS
    <3>1. PICK i \in DOMAIN q : q[i].id = b.id
      BY <1>3
    <3>2. QED
      BY <3>1 DEF Ids
  <2>3. QED
    BY <2>1, <2>2
<1>6. Ids(got) = Ids(catchUp.got) \cup Ids(q)
  BY <1>1, <1>4, IdsOfJoined
<1>7. Ids(got) = Collected
  BY <1>5, <1>6 DEF Collected
<1>8. ASSUME catchUp.rows # {} PROVE Last(got) \in catchUp.rows
  <2>1. /\ got \in Seq(Body) /\ Len(got) = Len(catchUp.got) + Len(q)
        /\ \A i \in 1 .. Len(catchUp.got) + Len(q) :
              got[i] = IF i <= Len(catchUp.got) THEN catchUp.got[i] ELSE q[i - Len(catchUp.got)]
    BY <1>1, <1>4, ConcatProperties
  <2> HIDE DEF got
  <2>2. PICK i \in DOMAIN q : TRUE
    BY <1>3, <1>8
  <2>3. Len(q) >= 1 /\ Len(q) \in Nat /\ Len(catchUp.got) \in Nat
    <3>1. DOMAIN q = 1 .. Len(q) /\ Len(q) \in Nat /\ Len(catchUp.got) \in Nat
      BY <1>1, <1>3
    <3>2. QED
      BY <2>2, <3>1
  <2> DEFINE n == Len(catchUp.got)
             m == Len(q)
  <2>4. got[n + m] = IF n + m <= n THEN catchUp.got[n + m] ELSE q[n + m - n]
    <3>1. n + m \in 1 .. n + m
      BY <2>3
    <3>2. QED
      BY <2>1, <3>1
  <2>5. ~ (n + m <= n) /\ n + m - n = m /\ m \in DOMAIN q
    BY <1>3, <2>3
  <2>6. got[n + m] = q[m]
    BY <2>4, <2>5
  <2>7. Last(got) = got[n + m]
    BY <2>1 DEF Last
  <2>8. QED
    BY <1>4, <2>5, <2>6, <2>7
<1>9. QED
  BY <1>7, <1>8 DEF q

\* A delivery shows all that was on its way, but for what is still announced.
LEMMA DeliveryGap ==
    ASSUME IInv, GapInv, Uncovers, Streaming, up,
           UNCHANGED <<db, up, open, loaded, hasOlder, detail, older, landed, fetches>>,
           held' = <<>>, fetchComplete' = TRUE, catchUp' = Idle,
           Shown \subseteq Shown', Shown' \subseteq Committed, tracked' \subseteq Reached',
           watermark' \in Committed \cup {0}, watermark' \in Nat, watermark <= watermark',
           Announced' \subseteq Announced, Announced \subseteq Announced' \cup Reached',
           \A r \in Committed \ Reached' : Way(r) => r \in Announced'
    PROVE  GapInv'
<1>1. /\ \A r \in Rows : gone[r] # {} => gone'[r] # {}
      /\ \A r \in Rows : /\ r \in Passed' /\ r \notin Shown' /\ r \notin Announced
                         /\ \E b \in Shown' : b <= r
                         /\ \A q \in Shown : r < q
                         => gone'[r] # {}
  BY UncoversNotes DEF IInv
<1>2. Committed' = Committed /\ Streaming' = Streaming /\ Reached \subseteq Reached'
  BY <1>1 DEF Committed, Streaming, Reached
<1>3. \A r \in Committed \ Reached' : /\ r \in Committed \ Reached
                                      /\ r \in Rows /\ r \in Nat /\ r \notin Shown'
                                      /\ gone'[r] = {}
                                      /\ Way(r) => Way(r)'
  BY <1>2, GapNumbers DEF Reached, IInv, Way
<1>4. Traced'
  <2> SUFFICES ASSUME NEW r \in Committed \ Reached', ~Way(r)' PROVE r + Window < watermark'
    BY <1>2 DEF Traced
  <2>1. r + Window < watermark
    BY <1>2, <1>3 DEF GapInv, Traced
  <2>2. r \in Nat /\ Window \in Nat /\ watermark \in Nat
    BY <1>3, GapNumbers DEF IInv
  <2>3. QED
    BY <2>1, <2>2
<1>5. OwedComes'
  <2> SUFFICES ASSUME NEW r \in Committed \ Reached', Owed(r)' PROVE Way(r)'
    BY <1>2 DEF OwedComes
  <2>1. CASE Owed(r)
    BY <1>2, <1>3, <2>1 DEF GapInv, OwedComes
  <2>2. CASE ~Owed(r)
    <3>1. (\E b \in Shown' : b <= r) /\ \A q \in Shown : ~ (q <= r)
      BY <2>2 DEF Owed, Above
    <3>2. \A q \in Shown : r < q
      BY <1>3, <3>1, GapNumbers DEF IInv
    <3>3. CASE r \in Announced
      BY <3>3 DEF Way
    <3>4. CASE r \notin Announced
      <4>1. r \notin Passed'
        BY <1>1, <1>3, <3>1, <3>2, <3>4
      <4>2. ~ (r + Window < watermark')
        BY <1>2, <4>1 DEF Passed
      <4>3. QED
        BY <1>2, <1>4, <4>2 DEF Traced
    <3>5. QED
      BY <3>3, <3>4
  <2>3. QED
    BY <2>1, <2>2
<1>6. Ids(held)' = {} /\ Collected' = {}
  BY DEF Ids, Collected
<1>7. AllCommitted'
  BY <1>2, <1>6 DEF GapInv, AllCommitted
<1>8. loaded
  BY DEF Streaming
<1>9. Phases'
  BY <1>8 DEF Phases
<1>10. InWindow' /\ TrackedReached' /\ DetailFresh' /\ DetailOrdered'
  BY RefreshesKept, <1>2 DEF GapInv, InWindow, TrackedReached
<1>11. QED
  BY <1>4, <1>5, <1>7, <1>9, <1>10 DEF GapInv

\* A page arrives: the next is asked for after its last row, or all is delivered.
LEMMA PageArrivesGap ==
    ASSUME IInv, GapInv, PageArrives
    PROVE  GapInv'
<1> DEFINE got == catchUp.got \o InOrder(catchUp.rows)
<1>1. /\ catchUp # Idle /\ catchUp.st = "answered" /\ Uncovers
      /\ UNCHANGED <<db, up, wire, open, detail, older, landed, fetches>>
  BY DEF PageArrives, linkVars, restVars
<1>2. /\ got \in Seq(Body) /\ Ids(got) = Collected
      /\ catchUp.rows # {} => Last(got) \in catchUp.rows
  BY <1>1, CollectedTypes, CollectedIds DEF IInv
<1>3. Ids(got) \subseteq Committed
  BY <1>2 DEF GapInv, AllCommitted
<1>4. \A r \in Rows : gone[r] # {} => gone'[r] # {}
  BY <1>1, UncoversNotes DEF IInv
<1>5. Streaming /\ up /\ Announced' = Announced /\ Committed' = Committed
  BY <1>1 DEF GapInv, Phases, Announced, Committed
<1>6. CASE catchUp.more /\ catchUp.rows # {}
  <2> DEFINE at == Last(got).id
  <2>1. /\ catchUp' = Asked(After(at, TRUE), got)
        /\ UNCHANGED <<tracked, held, fetchComplete, watermark, storeVars>>
    BY <1>6 DEF PageArrives
  <2>2. PICK b \in catchUp.rows : at = b.id
    BY <1>2, <1>6
  <2> HIDE DEF got, at
  <2>3. catchUp' = [st |-> "asked", after |-> [at |-> at, strict |-> TRUE], got |-> got]
    BY <2>1 DEF Asked, After
  <2>4. catchUp' # Idle
    <3>1. catchUp'.st = "asked" /\ Idle.st = "idle"
      BY <2>3 DEF Idle
    <3>2. QED
      BY <3>1
  <2>5. catchUp'.st = "asked" /\ catchUp'.got = got
    BY <2>3
  <2>6. catchUp'.after.at = at /\ catchUp'.after.strict = TRUE
    BY <2>3
  <2>7. Ids(catchUp.got)' = Ids(got)
    BY <2>5 DEF Ids
  <2>8. Collected' = Collected
    BY <1>2, <2>4, <2>5, <2>7 DEF Collected
  <2>9. UNCHANGED <<loaded, messages, hasOlder, Shown, Streaming>>
    BY <1>1, <2>1 DEF storeVars, Shown, Streaming
  <2>10. \A r : Covered(r) => Covered(r)'
    BY <1>1, <1>2, <2>2, <2>4, <2>5, <2>6, <2>8 DEF Covered
  <2>11. \A r : Way(r) => Way(r)'
    BY <1>1, <1>5, <2>1, <2>10 DEF Way
  <2>12. AllCommitted' /\ Phases'
    BY <1>1, <1>5, <2>1, <2>8, <2>9 DEF GapInv, AllCommitted, Phases
  <2>13. QED
    BY <1>1, <1>4, <2>1, <2>9, <2>11, <2>12, StreamOn
<1>7. CASE ~ (catchUp.more /\ catchUp.rows # {})
  <2>1. CompleteFetch(got)
    BY <1>7 DEF PageArrives
  <2> HIDE DEF got
  <2>2. /\ Shown \subseteq Shown'
        /\ Shown' \subseteq Committed /\ Reached \subseteq Reached'
        /\ Ids(got) \cup Ids(held) \subseteq Reached' /\ tracked' \subseteq Reached'
        /\ watermark' \in Committed \cup {0} /\ watermark' \in Nat /\ watermark <= watermark'
    BY <1>2, <1>3, <1>4, <2>1, CompleteFetchShows
  <2>3. \A r \in Committed \ Reached' : Way(r) => r \in Announced'
    BY <1>1, <1>2, <1>5, <1>7, <2>2 DEF Way, Covered
  <2>4. /\ held' = <<>> /\ fetchComplete' = TRUE /\ catchUp' = Idle
        /\ UNCHANGED <<loaded, hasOlder>>
    BY <2>1 DEF CompleteFetch
  <2>5. QED
    BY <1>1, <1>5, <2>2, <2>3, <2>4, DeliveryGap
<1>8. QED
  BY <1>6, <1>7

\* The frame that arrives is not announced any more, the others are.
LEMMA AnnouncedAfter ==
    ASSUME TypeOK, wire # <<>>, wire' = Tail(wire)
    PROVE  /\ Announced' \subseteq Announced
           /\ Announced \subseteq Announced' \cup {Head(wire).id}
           /\ Head(wire).t # "new" => Announced' = Announced
           /\ Head(wire).t = "new" => Head(wire).id \in Announced
<1> DEFINE n == Len(wire)
<1>1. wire \in Seq(Frame) /\ DOMAIN wire = 1 .. n /\ n \in Nat /\ n >= 1
  BY DEF TypeOK
<1>2. /\ DOMAIN wire' = 1 .. n - 1
      /\ \A i \in 1 .. n - 1 : wire'[i] = wire[i + 1]
  BY <1>1
<1>3. Head(wire) = wire[1] /\ 1 \in 1 .. n /\ wire[1].id \in Rows
  <2>1. 1 \in 1 .. n /\ Head(wire) = wire[1]
    BY <1>1
  <2>2. wire[1] \in Frame
    BY <1>1, <2>1
  <2>3. QED
    BY <2>1, <2>2 DEF Frame
<1> HIDE DEF n
<1>4. \A i \in 1 .. n - 1 : i + 1 \in 1 .. n
  BY <1>1
<1>5. \A j \in 1 .. n : j = 1 \/ \E i \in 1 .. n - 1 : j = i + 1
  <2> TAKE j \in 1 .. n
  <2>1. j = 1 \/ (j - 1 \in 1 .. n - 1 /\ j = (j - 1) + 1)
    BY <1>1
  <2>2. QED
    BY <2>1
<1>6. ASSUME NEW r \in Announced' PROVE r \in Announced
  <2>1. PICK i \in 1 .. n - 1 : wire'[i].t = "new" /\ wire'[i].id = r
    BY <1>2 DEF Announced
  <2>2. i + 1 \in DOMAIN wire /\ wire[i + 1].t = "new" /\ wire[i + 1].id = r
    BY <1>1, <1>2, <1>4, <2>1
  <2>3. r \in Rows
    BY DEF Announced
  <2>4. QED
    BY <2>2, <2>3 DEF Announced
<1>7. ASSUME NEW r \in Announced, r # wire[1].id \/ wire[1].t # "new" PROVE r \in Announced'
  <2>1. PICK j \in 1 .. n : wire[j].t = "new" /\ wire[j].id = r
    BY <1>1 DEF Announced
  <2>2. PICK i \in 1 .. n - 1 : j = i + 1
    BY <1>5, <1>7, <2>1
  <2>3. i \in DOMAIN wire' /\ wire'[i].t = "new" /\ wire'[i].id = r
    BY <1>2, <2>1, <2>2
  <2>4. r \in Rows
    BY DEF Announced
  <2>5. QED
    BY <2>3, <2>4 DEF Announced
<1>8. wire[1].t = "new" => wire[1].id \in Announced
  BY <1>1, <1>3 DEF Announced
<1>9. QED
  BY <1>3, <1>6, <1>7, <1>8

\* A frame arrives: dropped, held, patched in or delivered.
LEMMA FrameArrivesGap ==
    ASSUME IInv, GapInv, FrameArrives
    PROVE  GapInv'
<1> DEFINE f == Head(wire)
           b == [id |-> f.id, st |-> f.st]
<1>1. /\ wire # <<>> /\ wire' = Tail(wire) /\ Uncovers
      /\ UNCHANGED <<db, up, open, detail, older, landed, fetches>>
  BY DEF FrameArrives, restVars
<1>2. /\ Announced' \subseteq Announced
      /\ Announced \subseteq Announced' \cup {f.id}
      /\ f.t # "new" => Announced' = Announced
      /\ f.t = "new" => f.id \in Announced
  BY <1>1, AnnouncedAfter DEF IInv
<1>3. f \in Frame
  BY <1>1 DEF IInv, TypeOK
<1>4. b \in Body /\ f.id \in Rows /\ b.id = f.id
  BY <1>3 DEF Frame, Body
<1>5. \A r \in Rows : gone[r] # {} => gone'[r] # {}
  BY <1>1, UncoversNotes DEF IInv
<1>6. up /\ Committed' = Committed
  BY <1>1 DEF GapInv, Phases, Committed
<1>7. \/ ~Streaming /\ UNCHANGED <<streamVars, storeVars>>
      \/ /\ Streaming /\ f.t = "update" /\ Patch(b)
         /\ UNCHANGED <<streamVars, loaded, storeMark, hasOlder>>
      \/ /\ Streaming /\ f.t = "new" /\ ~fetchComplete /\ held' = Append(held, b)
         /\ UNCHANGED <<tracked, fetchComplete, watermark, catchUp, storeVars>>
      \/ /\ Streaming /\ f.t = "new" /\ f.id \in tracked
         /\ UNCHANGED <<streamVars, storeVars>>
      \/ /\ Streaming /\ f.t = "new" /\ fetchComplete /\ f.id \notin tracked
         /\ tracked' = tracked \cup {f.id} /\ Deliver(<<b>>)
         /\ UNCHANGED <<held, fetchComplete, catchUp, loaded, hasOlder>>
  BY DEF FrameArrives
<1> HIDE DEF f, b
<1>8. CASE /\ UNCHANGED <<streamVars, loaded, hasOlder, Shown>>
           /\ Streaming => Announced \ Reached' \subseteq Announced'
  <2>1. UNCHANGED <<tracked, held, fetchComplete, watermark, catchUp, loaded, hasOlder, Shown,
                    Collected>>
    BY <1>8 DEF streamVars, Collected
  <2>2. Streaming' = Streaming
    BY <1>1, <2>1 DEF Streaming
  <2>3. AllCommitted' /\ Phases'
    BY <1>1, <1>2, <1>6, <2>1, <2>2 DEF GapInv, AllCommitted, Phases
  <2>4. \A r \in Committed \ Reached' : Streaming /\ Way(r) => Way(r)'
    BY <1>1, <1>8, <2>1, WayKept
  <2>5. QED
    BY <1>1, <1>5, <2>1, <2>3, <2>4, StreamOn
<1>9. CASE UNCHANGED <<streamVars, storeVars>> /\ (Streaming => f.id \in tracked)
  <2>1. UNCHANGED <<streamVars, loaded, hasOlder, Shown>>
    BY <1>9 DEF storeVars, Shown
  <2>2. Reached \subseteq Reached'
    BY <1>5, <2>1 DEF Reached
  <2>3. Streaming => Announced \ Reached' \subseteq Announced'
    BY <1>2, <1>9, <2>2 DEF GapInv, TrackedReached
  <2>4. QED
    BY <1>8, <2>1, <2>3
<1>10. CASE /\ f.t = "update" /\ Patch(b)
            /\ UNCHANGED <<streamVars, loaded, storeMark, hasOlder>>
  <2>1. Announced' = Announced
    BY <1>2, <1>10
  <2>2. UNCHANGED <<storeMark, send>>
    BY <1>10 DEF FrameArrives, sendVars
  <2>3. Shown' = Shown
    BY <1>4, <1>10, <2>2, PatchKeeps
  <2>4. QED
    BY <1>8, <1>10, <2>1, <2>3
<1>11. CASE /\ Streaming /\ f.t = "new" /\ ~fetchComplete /\ held' = Append(held, b)
            /\ UNCHANGED <<tracked, fetchComplete, watermark, catchUp, storeVars>>
  <2>1. UNCHANGED <<tracked, fetchComplete, watermark, catchUp, loaded, hasOlder, Shown,
                    Collected>>
    BY <1>11 DEF storeVars, Shown, Collected
  <2>2. Streaming' = Streaming
    BY <1>1, <2>1 DEF Streaming
  <2>3. Ids(held)' = Ids(held) \cup {f.id}
    <3>1. held \in Seq(Body) /\ <<b>> \in Seq(Body) /\ held' = held \o <<b>>
      BY <1>4, <1>11 DEF IInv, TypeOK
    <3>2. Ids(held \o <<b>>) = Ids(held) \cup Ids(<<b>>)
      BY <3>1, IdsOfJoined
    <3>3. Ids(<<b>>) = {f.id}
      BY <1>4 DEF Ids
    <3>4. Ids(held)' = Ids(held \o <<b>>)
      BY <3>1 DEF Ids
    <3>5. QED
      BY <3>2, <3>3, <3>4
  <2>4. f.id \in Committed
    BY <1>2, <1>11 DEF GapInv, AllCommitted
  <2>5. AllCommitted'
    BY <1>1, <1>2, <1>6, <2>1, <2>3, <2>4 DEF GapInv, AllCommitted
  <2>6. Phases'
    BY <1>1, <1>6, <1>11, <2>1, <2>2 DEF GapInv, Phases
  <2>7. \A r : Covered(r) => Covered(r)'
    BY <2>1 DEF Covered
  <2>8. \A r \in Committed \ Reached' : Streaming /\ Way(r) => Way(r)'
    BY <1>1, <1>2, <1>6, <2>3, <2>7 DEF Way
  <2>9. QED
    BY <1>1, <1>5, <2>1, <2>5, <2>6, <2>8, StreamOn
<1>12. CASE /\ Streaming /\ f.t = "new" /\ fetchComplete
            /\ tracked' = tracked \cup {f.id} /\ Deliver(<<b>>)
            /\ UNCHANGED <<held, fetchComplete, catchUp, loaded, hasOlder>>
  <2>1. held = <<>> /\ catchUp = Idle
    BY <1>12 DEF GapInv, Phases
  <2>2. Ids(held) = {} /\ Ids(<<b>>) = {f.id} /\ <<b>> \in Seq(Body)
    BY <1>4, <2>1 DEF Ids
  <2>3. /\ f.id \in Committed /\ Shown \subseteq Committed /\ watermark \in Committed \cup {0}
        /\ tracked \subseteq Reached
    BY <1>2, <1>12 DEF GapInv, AllCommitted, TrackedReached
  <2>4. /\ Shown' = Shown \cup {f.id}
        /\ watermark' \in Committed \cup {0} /\ watermark' \in Nat /\ watermark <= watermark'
    <3>1. Ids(<<b>>) \subseteq Committed /\ Deliver(<<b>>)
      BY <1>12, <2>2, <2>3
    <3>2. /\ Shown' = Shown \cup Ids(<<b>>)
          /\ watermark' \in Committed \cup {0} /\ watermark' \in Nat /\ watermark <= watermark'
      BY <2>2, <2>3, <3>1, DeliverShows DEF IInv
    <3>3. QED
      BY <2>2, <3>2
  <2>5. Reached \subseteq Reached' /\ f.id \in Reached'
    BY <1>5, <2>4 DEF Reached
  <2>6. tracked' \subseteq Reached'
    BY <1>12, <2>3, <2>5
  <2>7. \A r \in Committed \ Reached' : Way(r) => r \in Announced'
    BY <1>2, <1>6, <2>1, <2>2, <2>5 DEF Way, Covered
  <2>8. /\ held' = <<>> /\ fetchComplete' = TRUE /\ catchUp' = Idle
        /\ UNCHANGED <<loaded, hasOlder>>
    BY <1>12, <2>1 DEF IInv, TypeOK
  <2>9. Announced \subseteq Announced' \cup Reached'
    BY <1>2, <2>5
  <2>10. QED
    BY <1>1, <1>2, <1>6, <1>12, <2>3, <2>4, <2>6, <2>7, <2>8, <2>9, DeliveryGap
<1>13. CASE ~Streaming /\ UNCHANGED <<streamVars, storeVars>>
  BY <1>9, <1>13
<1>14. CASE f.id \in tracked /\ UNCHANGED <<streamVars, storeVars>>
  BY <1>9, <1>14
<1>15. QED
  BY <1>7, <1>10, <1>11, <1>12, <1>13, <1>14

-----------------------------------------------------------------------------
(* No gap: the page.                                                       *)

\* No row above one of the newest is missing among them.
LEMMA NewestAbove ==
    ASSUME NEW S, S \subseteq Rows, NEW r \in S, NEW q \in Newest(S, PageSize), q <= r
    PROVE  r \in Newest(S, PageSize)
<1> DEFINE A == {x \in S : x > q}
           B == {x \in S : x > r}
<1>1. q \in S /\ Cardinality(A) < PageSize
  BY DEF Newest
<1>2. \A x \in S : x \in Nat
  BY Constants
<1>3. B \subseteq A
  BY <1>1, <1>2
<1>4. IsFiniteSet(Rows)
  <2>1. 1 \in Int /\ LastRow \in Int
    BY Constants
  <2>2. IsFiniteSet(1 .. LastRow)
    BY <2>1, FS_Interval
  <2>3. QED
    BY <2>2, Constants
<1>5. A \subseteq Rows
  OBVIOUS
<1> HIDE DEF A, B
<1>6. IsFiniteSet(A) /\ IsFiniteSet(B) /\ Cardinality(B) <= Cardinality(A)
      /\ Cardinality(A) \in Nat /\ Cardinality(B) \in Nat
  BY <1>3, <1>4, <1>5, FS_Subset, FS_CardinalityType
<1>7. Cardinality(B) < PageSize
  BY <1>1, <1>6, Constants
<1>8. QED
  BY <1>7 DEF Newest, B

\* A page that was just read misses no row of those it is taken from.
LEMMA NewestMisses ==
    ASSUME NEW S, S \subseteq Rows, NEW page, page = {BodyOf(q) : q \in Newest(S, PageSize)},
           NEW r \in S
    PROVE  ~ Above(page, r)
<1>1. \A q : BodyOf(q).id = q
  BY DEF BodyOf
<1> SUFFICES ASSUME Above(page, r) PROVE FALSE
  OBVIOUS
<1>2. PICK q \in Newest(S, PageSize) : q <= r
  BY <1>1 DEF Above
<1>3. r \notin Newest(S, PageSize)
  BY <1>1 DEF Above
<1>4. QED
  BY <1>2, <1>3, NewestAbove

\* The newest page is asked for: it misses no row, and reaches as far as the others.
LEMMA FetchDetailGap ==
    ASSUME IInv, GapInv, FetchDetail
    PROVE  GapInv'
<1> DEFINE page == {BodyOf(r) : r \in Newest(Committed, PageSize)}
           new == [n |-> fetches', rows |-> page]
<1>1. /\ fetches' = fetches + 1 /\ detail' = detail \cup {new}
      /\ UNCHANGED <<db, linkVars, open, streamVars, storeVars, older, landed, gone>>
  BY DEF FetchDetail
<1>2. UNCHANGED <<db, up, wire, open, loaded, hasOlder, tracked, held, fetchComplete, watermark,
                  catchUp, older, landed, Shown, Reached, Announced, Committed>>
  BY <1>1 DEF linkVars, streamVars, storeVars, Shown, Reached, Announced, Committed
<1>3. \A r \in Committed : ~ Above(page, r)
  BY NewestMisses DEF Committed
<1>4. /\ \A b \in page : db[b.id] # None
      /\ \A q \in Committed : \E b \in page : q <= b.id
  <2>1. \A b \in page : db[b.id] # None
    BY PageRead DEF IInv
  <2>2. \A q \in Committed : \E c \in Newest(Committed, PageSize) : q <= c
    BY NewestOf DEF Committed
  <2>3. \A r : BodyOf(r).id = r
    BY DEF BodyOf
  <2>4. QED
    BY <2>1, <2>2, <2>3
<1>5. new.n = fetches' /\ new.rows = page
  OBVIOUS
<1> HIDE DEF page, new
<1>6. \A r \in Committed : Owed(r)' => Owed(r)
  BY <1>1, <1>2, <1>3, <1>5 DEF Owed
<1>7. DetailFresh'
  BY <1>1, <1>2, <1>3, <1>5 DEF GapInv, DetailFresh
<1>8. \A d \in detail : /\ d.n \in Nat /\ d.n <= fetches /\ fetches \in Nat
                        /\ \A b \in d.rows : b.id \in Committed
  <2> TAKE d \in detail
  <2>1. d \in Reply /\ fetches \in Nat
    BY Constants DEF IInv, TypeOK
  <2>2. d.n \in Nat /\ d.rows \subseteq Body
    BY <2>1, Constants DEF Reply
  <2>3. d.n <= fetches
    BY DEF GapInv, DetailOrdered
  <2>4. \A b \in d.rows : b.id \in Rows /\ db[b.id] # None
    BY <2>2 DEF GapInv, AllCommitted, Body
  <2>5. QED
    BY <2>1, <2>2, <2>3, <2>4 DEF Committed
<1>9. DetailOrdered'
  <2>1. \A d \in detail' : d.n <= fetches'
    <3>1. fetches \in Nat
      BY Constants DEF IInv, TypeOK
    <3>2. QED
      BY <1>1, <1>5, <1>8, <3>1
  <2>2. ASSUME NEW d \in detail', NEW e \in detail', d.n < e.n, NEW b \in d.rows
        PROVE  \E c \in e.rows : b.id <= c.id
    <3>1. CASE d \in detail /\ e \in detail
      BY <2>2, <3>1 DEF GapInv, DetailOrdered
    <3>2. CASE d \in detail /\ e = new
      BY <1>4, <1>5, <1>8, <3>2
    <3>3. CASE d = new
      <4>1. ~ (d.n < e.n)
        <5>1. fetches \in Nat
          BY Constants DEF IInv, TypeOK
        <5>2. CASE e = new
          BY <1>1, <1>5, <3>3, <5>1, <5>2
        <5>3. CASE e \in detail
          BY <1>1, <1>5, <1>8, <3>3, <5>1, <5>3
        <5>4. QED
          BY <1>1, <5>2, <5>3
      <4>2. QED
        BY <2>2, <4>1
    <3>4. QED
      BY <1>1, <3>1, <3>2, <3>3
  <2>3. QED
    BY <2>1, <2>2 DEF DetailOrdered
<1>10. Shown' \subseteq Committed
  BY <1>2 DEF GapInv, AllCommitted
<1>11. \A p \in detail' \cup older' : \A b \in p.rows : db[b.id] # None
  BY <1>1, <1>2, <1>4, <1>5 DEF GapInv, AllCommitted
<1>12. loaded \/ (Shown' = {} /\ older' = {} /\ ~hasOlder' /\ landed' = 0)
  BY <1>2 DEF GapInv, Phases
<1>13. QED
  BY <1>2, <1>6, <1>7, <1>9, <1>10, <1>11, <1>12, StreamAside

\* An older page is asked for: rows above the list's first row are owed already.
LEMMA LoadOlderGap ==
    ASSUME IInv, GapInv, LoadOlder
    PROVE  GapInv'
<1> DEFINE first == Head(messages).id
           S == {q \in Committed : q < first}
           page == {BodyOf(r) : r \in Newest(S, PageSize)}
           new == [n |-> fetches', rows |-> page]
<1>1. /\ messages # <<>> /\ first \in Rows /\ hasOlder
      /\ fetches' = fetches + 1 /\ older' = older \cup {new}
      /\ UNCHANGED <<db, linkVars, open, streamVars, storeVars, detail, landed, gone>>
  BY DEF LoadOlder
<1>2. first \in Shown
  <2>1. messages \in Seq(Entry)
    BY DEF IInv, TypeOK
  <2>2. 1 \in DOMAIN messages /\ first = messages[1].id
    BY <1>1, <2>1
  <2> HIDE DEF first
  <2>3. QED
    BY <1>1, <2>2 DEF Shown, Ids
<1> HIDE DEF first
<1>3. S \subseteq Committed /\ S \subseteq Rows
  BY DEF Committed
<1>4. \A r \in Committed : r < first => r \in S
  OBVIOUS
<1> HIDE DEF S
<1>5. /\ \A b \in page : db[b.id] # None
      /\ \A r \in S : ~ Above(page, r)
  <2>1. \A b \in page : db[b.id] # None
    BY <1>3, PageRead DEF IInv
  <2>2. \A r \in S : ~ Above(page, r)
    BY <1>3, NewestMisses
  <2>3. QED
    BY <2>1, <2>2
<1>6. new.rows = page
  OBVIOUS
<1> HIDE DEF page, new
<1>7. UNCHANGED <<db, up, wire, open, loaded, hasOlder, tracked, held, fetchComplete, watermark,
                  catchUp, detail, landed, Shown, Reached, Announced, Committed>>
  BY <1>1 DEF linkVars, streamVars, storeVars, Shown, Reached, Announced, Committed
<1>8. ASSUME NEW r \in Committed, Owed(r)' PROVE Owed(r)
  <2>1. CASE r < first
    <3>1. ~ Above(page, r)
      BY <1>4, <1>5, <2>1
    <3>2. QED
      BY <1>1, <1>6, <1>7, <1>8, <3>1 DEF Owed
  <2>2. CASE ~ (r < first)
    <3>1. first <= r
      BY <1>1, <2>2, GapNumbers DEF IInv
    <3>2. QED
      BY <1>2, <3>1 DEF Owed
  <2>3. QED
    BY <2>1, <2>2
<1>9. fetches \in Nat /\ \A d \in detail : d.n \in Nat
  BY Constants DEF IInv, TypeOK, Reply
<1>10. DetailFresh' /\ DetailOrdered'
  <2>1. \A d \in detail : d.n <= fetches + 1
    BY <1>9 DEF GapInv, DetailOrdered
  <2>2. DetailFresh'
    BY <1>7 DEF GapInv, DetailFresh
  <2>3. DetailOrdered'
    BY <1>1, <1>7, <2>1 DEF GapInv, DetailOrdered
  <2>4. QED
    BY <2>2, <2>3
<1>11. \A p \in detail' \cup older' : \A b \in p.rows : db[b.id] # None
  BY <1>1, <1>5, <1>6, <1>7 DEF GapInv, AllCommitted
<1>12. Shown' \subseteq Committed
  BY <1>7 DEF GapInv, AllCommitted
<1>13. loaded
  BY <1>1 DEF GapInv, Phases
<1>14. QED
  BY <1>7, <1>8, <1>10, <1>11, <1>12, <1>13, StreamAside

\* An older page lands: a row that it skips was owed by it.
LEMMA OlderLandsGap ==
    ASSUME IInv, GapInv, NEW o \in older, OlderLands(o)
    PROVE  GapInv'
<1>1. /\ older' = older \ {o}
      /\ UNCHANGED <<db, linkVars, open, streamVars, loaded, pending, storeMark, detail,
                     landed, fetches, gone>>
  BY DEF OlderLands, OlderEnds
<1>2. Shown' = Shown \cup {b.id : b \in o.rows}
  BY OlderLandsStep
<1>3. UNCHANGED <<db, up, wire, open, loaded, tracked, held, fetchComplete, watermark,
                  catchUp, detail, landed, fetches, gone, Announced, Committed>>
  BY <1>1 DEF linkVars, streamVars, Announced, Committed
<1>4. Reached \subseteq Reached'
  BY <1>2, <1>3 DEF Reached
<1>5. ASSUME NEW r \in Committed \ Reached', Owed(r)' PROVE Owed(r)
  <2>1. r \notin {b.id : b \in o.rows}
    BY <1>2 DEF Reached
  <2>2. CASE \E q \in Shown' : q <= r
    <3>1. CASE \E q \in Shown : q <= r
      BY <3>1 DEF Owed
    <3>2. CASE \E b \in o.rows : b.id <= r
      BY <2>1, <3>2 DEF Owed, Above
    <3>3. QED
      BY <1>2, <2>2, <3>1, <3>2
  <2>3. QED
    BY <1>1, <1>3, <1>5, <2>2 DEF Owed
<1>6. DetailFresh' /\ DetailOrdered'
  BY <1>3, RefreshesKept
<1>7. Shown' \subseteq Committed
  <2>1. o.rows \subseteq Body
    BY DEF IInv, TypeOK, Reply
  <2>2. \A b \in o.rows : b.id \in Rows /\ db[b.id] # None
    BY <2>1 DEF GapInv, AllCommitted, Body
  <2>3. QED
    BY <1>2, <2>2 DEF GapInv, AllCommitted, Committed
<1>8. \A p \in detail' \cup older' : \A b \in p.rows : db[b.id] # None
  BY <1>1, <1>3 DEF GapInv, AllCommitted
<1>9. loaded
  BY DEF GapInv, Phases
<1>10. QED
  BY <1>3, <1>4, <1>5, <1>6, <1>7, <1>8, <1>9, StreamAside

\* A GET fails: less is owed.
LEMMA ReplyFailsGap ==
    ASSUME GapInv, ReplyFails
    PROVE  GapInv'
<1>1. /\ detail' \subseteq detail /\ older' \subseteq older
      /\ UNCHANGED <<db, linkVars, open, streamVars, storeVars, landed, fetches, gone>>
  BY DEF ReplyFails, OlderEnds
<1>2. UNCHANGED <<db, up, wire, open, loaded, hasOlder, tracked, held, fetchComplete, watermark,
                  catchUp, landed, fetches, Shown, Reached, Announced, Committed>>
  BY <1>1 DEF linkVars, streamVars, storeVars, Shown, Reached, Announced, Committed
<1>3. \A r : Owed(r)' => Owed(r)
  BY <1>1, <1>2 DEF Owed
<1>4. DetailFresh' /\ DetailOrdered'
  BY <1>1, <1>2, RefreshesKept
<1>5. Shown' \subseteq Committed
  BY <1>2 DEF GapInv, AllCommitted
<1>6. \A p \in detail' \cup older' : \A b \in p.rows : db[b.id] # None
  BY <1>1 DEF GapInv, AllCommitted
<1>7. loaded \/ (Shown' = {} /\ older' = {} /\ ~hasOlder' /\ landed' = 0)
  BY <1>1, <1>2 DEF GapInv, Phases
<1>8. QED
  BY <1>2, <1>3, <1>4, <1>5, <1>6, <1>7, StreamAside

\* A send appears or goes.
LEMMA SendGap ==
    ASSUME IInv, GapInv, NEW s \in Sends, (\E at \in Clocks : Send(s, at)) \/ PostFails(s)
    PROVE  GapInv'
<1>1. UNCHANGED <<db, linkVars, open, streamVars, loaded, hasOlder, restVars, gone>>
  BY DEF Send, PostFails
<1>2. Shown' = Shown
  BY SendStep, PostFailsStep
<1>3. UNCHANGED <<db, up, wire, open, loaded, hasOlder, tracked, held, fetchComplete, watermark,
                  catchUp, detail, older, landed, fetches, gone, Announced>>
  BY <1>1 DEF linkVars, streamVars, restVars, Announced
<1>4. QED
  BY <1>2, <1>3, OnlySends

\* A refresh shows its page, and notes what it takes away and, when it was overtaken,
\* what it uncovers.
LEMMA RefreshShows ==
    ASSUME IInv, NEW d \in detail, DetailLands(d)
    PROVE  /\ Shown' \subseteq Shown \cup {b.id : b \in d.rows}
           /\ {b.id : b \in d.rows} \subseteq Shown'
           /\ \A r \in Rows : gone[r] # {} => gone'[r] # {}
           /\ Reached \subseteq Reached'
           /\ storeMark' = Biggest(Shown') /\ loaded' = TRUE
           /\ d.n > landed \/ \A r \in Rows \cap Uncovered : gone'[r] # {}
<1> DEFINE list == Hydrated(d.rows)
<1>1. d.rows \subseteq Body
  BY DEF IInv, TypeOK, Reply
<1>2. /\ \A b \in d.rows : b.id \in Ids(list)
      /\ Ids(list) \subseteq Ids(messages) \cup {b.id : b \in d.rows}
  BY <1>1, InvGivesStore, HydratedList
<1>3. messages' = list /\ storeMark' = Biggest(Ids(list) \cap Rows) /\ loaded' = TRUE
  BY DEF DetailLands, Hydrate, Hydrated
<1>4. \A b \in d.rows : b.id \in Rows
  BY <1>1 DEF Body
<1> HIDE DEF list
<1>5. Shown' = Ids(list) \cap Rows
  BY <1>3 DEF Shown
<1>6. \/ d.n > landed /\ Blame(Lost, "hydrate")
      \/ Blame(Lost \cup Uncovered, "overtaken")
  BY DEF DetailLands
<1>7. /\ \A r \in Rows : gone[r] # {} => gone'[r] # {}
      /\ \A r \in Rows \cap Lost : gone'[r] # {}
      /\ d.n > landed \/ \A r \in Rows \cap Uncovered : gone'[r] # {}
  <2>1. CASE d.n > landed /\ Blame(Lost, "hydrate")
    BY <2>1, ReasonsAre, BlameNotes DEF IInv
  <2>2. CASE Blame(Lost \cup Uncovered, "overtaken")
    <3> DEFINE S == Lost \cup Uncovered
    <3>1. Lost \subseteq S /\ Uncovered \subseteq S /\ Blame(S, "overtaken")
      BY <2>2
    <3> HIDE DEF S
    <3>2. /\ \A r \in Rows : gone[r] # {} => gone'[r] # {}
          /\ \A r \in Rows \cap S : gone'[r] # {}
      BY <3>1, ReasonsAre, BlameNotes DEF IInv
    <3>3. QED
      BY <3>1, <3>2
  <2>3. QED
    BY <1>6, <2>1, <2>2
<1>8. Reached \subseteq Reached'
  BY <1>7 DEF Reached, Lost, Shown
<1>9. QED
  BY <1>2, <1>3, <1>4, <1>5, <1>7, <1>8 DEF Shown

\* The effect starts: what is not behind its watermark is asked for.
LEMMA StartGap ==
    ASSUME TypeOK, NEW mark \in 0 .. LastRow, StartStream(mark), up' = up
    PROVE  /\ tracked' = {} /\ held' = <<>> /\ fetchComplete' = FALSE /\ watermark' = mark
           /\ Ids(held)' = {} /\ Collected' = {} /\ (~up => catchUp' = Idle)
           /\ \A r \in Rows : r + Window >= mark => Way(r)'
           /\ \A r \in Rows : Way(r)' \/ r + Window < watermark'
<1>1. /\ tracked' = {} /\ held' = <<>> /\ fetchComplete' = FALSE /\ watermark' = mark
      /\ up => catchUp' = Asked(After(mark, FALSE), <<>>)
      /\ ~up => catchUp' = Idle
  BY DEF StartStream
<1>2. ASSUME up
      PROVE  /\ catchUp' # Idle /\ catchUp'.st = "asked" /\ catchUp'.got = <<>>
             /\ catchUp'.after.at = mark /\ catchUp'.after.strict = FALSE
  <2>1. catchUp' = [st |-> "asked", after |-> [at |-> mark, strict |-> FALSE], got |-> <<>>]
    BY <1>1, <1>2 DEF Asked, After
  <2>2. catchUp'.st = "asked" /\ Idle.st = "idle"
    BY <2>1 DEF Idle
  <2>3. catchUp' # Idle
    BY <2>2
  <2>4. catchUp'.got = <<>> /\ catchUp'.after = [at |-> mark, strict |-> FALSE]
    BY <2>1
  <2>5. catchUp'.after.at = mark
    BY <2>4
  <2>6. catchUp'.after.strict = FALSE
    BY <2>4
  <2>7. QED
    BY <2>2, <2>3, <2>4, <2>5, <2>6
<1>3. Collected' = {}
  <2>1. CASE up
    <3>1. \A x \in Ids(catchUp.got)' : FALSE
      <4>1. DOMAIN catchUp'.got = {}
        BY <1>2, <2>1
      <4>2. QED
        BY <4>1 DEF Ids
    <3>2. Collected' = Ids(catchUp.got)'
      BY <1>2, <2>1 DEF Collected
    <3>3. QED
      BY <3>1, <3>2
  <2>2. CASE ~up
    BY <1>1, <2>2 DEF Collected
  <2>3. QED
    BY <2>1, <2>2
<1>4. Ids(held)' = {}
  BY <1>1 DEF Ids
<1>5. ASSUME NEW r \in Rows, r + Window >= mark PROVE Way(r)'
  <2>1. CASE up
    BY <1>2, <1>5, <2>1 DEF Way, Covered
  <2>2. CASE ~up
    BY <1>1, <1>5, <2>2 DEF Way
  <2>3. QED
    BY <2>1, <2>2
<1>6. \A r \in Rows : r + Window >= mark \/ r + Window < mark
  BY GapNumbers
<1>7. QED
  BY <1>1, <1>3, <1>4, <1>5, <1>6

\* A newest page lands: what it skips was owed by it, or by one that was read later; a
\* page that was overtaken uncovers only what is noted or on its way.
LEMMA DetailLandsGap ==
    ASSUME IInv, GapInv, NEW d \in detail, DetailLands(d)
    PROVE  GapInv'
<1> DEFINE P == {b.id : b \in d.rows}
<1>1. /\ detail' = detail \ {d} /\ landed' = Biggest({landed, d.n})
      /\ UNCHANGED <<db, up, wire, open, older, fetches>>
  BY DEF DetailLands, linkVars
<1>2. d \in Reply /\ d.rows \subseteq Body
  BY DEF IInv, TypeOK, Reply
<1>3. \A b \in d.rows : b.id \in Rows /\ b.id \in Committed
  <2>1. \A b \in d.rows : b.id \in Rows /\ db[b.id] # None
    BY <1>2 DEF GapInv, AllCommitted, Body
  <2>2. QED
    BY <2>1 DEF Committed
<1>4. /\ Shown' \subseteq Shown \cup P /\ P \subseteq Shown'
      /\ \A r \in Rows : gone[r] # {} => gone'[r] # {}
      /\ Reached \subseteq Reached'
      /\ storeMark' = Biggest(Shown') /\ loaded' = TRUE
      /\ d.n > landed \/ \A r \in Rows \cap Uncovered : gone'[r] # {}
  BY RefreshShows
<1>5. P \subseteq Committed /\ Shown' \subseteq Committed
  BY <1>3, <1>4 DEF GapInv, AllCommitted
<1>6. Committed' = Committed /\ Announced' = Announced
  BY <1>1 DEF Committed, Announced
<1>7. DetailFresh' /\ DetailOrdered'
  BY <1>1, <1>6, RefreshesKept
<1>8. \A p \in detail' \cup older' : \A b \in p.rows : db[b.id] # None
  BY <1>1 DEF GapInv, AllCommitted
<1>9. ASSUME NEW e \in detail', e.n > landed'
      PROVE  e \in detail /\ e.n > landed /\ d.n < e.n
  <2>1. e \in detail /\ e \in Reply
    BY <1>1 DEF IInv, TypeOK
  <2>2. /\ landed' \in 0 .. MaxFetches /\ landed <= landed' /\ d.n <= landed' /\ d.n \in Nat
        /\ e.n \in Nat
    BY <1>1, <1>2, <2>1, LatestOf DEF IInv
  <2>3. landed \in Nat /\ landed' \in Nat
    BY <2>2, Constants DEF IInv, TypeOK
  <2>4. QED
    BY <1>9, <2>1, <2>2, <2>3
<1>10. ASSUME NEW r \in Committed \ Reached', Owed(r)'
       PROVE  \/ \E q \in Shown : q <= r
              \/ Above(d.rows, r)
              \/ \E e \in detail : e.n > landed /\ d.n < e.n /\ Above(e.rows, r)
              \/ \E o \in older : Above(o.rows, r)
  <2>1. r \notin P
    BY <1>4 DEF Reached
  <2>2. CASE \E q \in Shown' : q <= r
    <3>1. CASE \E b \in d.rows : b.id <= r
      BY <2>1, <3>1 DEF Above
    <3>2. QED
      BY <1>4, <2>2, <3>1
  <2>3. CASE \E e \in detail' : e.n > landed' /\ Above(e.rows, r)
    BY <1>9, <2>3
  <2>4. QED
    BY <1>1, <1>10, <2>2, <2>3 DEF Owed
<1>11. CASE loaded
  <2>1. UNCHANGED streamVars
    BY <1>11 DEF DetailLands
  <2>2. UNCHANGED <<loaded, tracked, held, fetchComplete, watermark, catchUp>>
    BY <1>4, <1>11, <2>1 DEF streamVars, IInv, TypeOK
  <2>3. ASSUME NEW r \in Committed \ Reached', Streaming, Owed(r)'
        PROVE  Owed(r) \/ Way(r)
    <3>1. SUFFICES ASSUME ~Owed(r) PROVE Way(r)
      OBVIOUS
    <3>2. Above(d.rows, r) /\ ~ (d.n > landed)
      BY <1>10, <2>3, <3>1 DEF Owed
    <3>3. /\ r \in Rows /\ r \in Nat /\ r \notin Shown' /\ gone'[r] = {}
          /\ \A q \in Shown : q \in Nat
      BY <1>4, <2>3, GapNumbers DEF Reached, IInv
    <3>4. \A q \in Shown : r < q
      <4>1. \A q \in Shown : ~ (q <= r)
        BY <3>1 DEF Owed
      <4>2. QED
        BY <3>3, <4>1
    <3>5. r \notin Uncovered
      BY <1>4, <3>2, <3>3
    <3>6. \E b \in Shown' : b <= r
      BY <1>4, <3>2 DEF Above
    <3>7. r \in Announced \/ ~ (r + Window < watermark)
      BY <1>6, <2>2, <2>3, <3>3, <3>4, <3>5, <3>6 DEF Uncovered, Passed
    <3>8. CASE r \in Announced
      BY <3>8 DEF GapInv, Phases, Announced, Way
    <3>9. CASE ~ (r + Window < watermark)
      BY <1>4, <2>3, <3>9 DEF GapInv, Traced
    <3>10. QED
      BY <3>7, <3>8, <3>9
  <2>4. QED
    BY <1>1, <1>4, <1>5, <1>6, <1>7, <1>8, <1>11, <2>2, <2>3, StreamAside
<1>12. CASE ~loaded
  <2>1. Shown = {} /\ older = {} /\ ~hasOlder /\ landed = 0 /\ ~Streaming /\ catchUp = Idle
    BY <1>12 DEF GapInv, Phases, Streaming
  <2>2. InWindow'
    BY <1>1 DEF GapInv, InWindow
  <2>3. CASE open
    <3>1. StartStream(storeMark')
      BY <1>12, <2>3 DEF DetailLands
    <3>2. Shown' \subseteq 0 .. LastRow
      BY Constants DEF Shown
    <3>3. storeMark' \in Shown' \cup {0} /\ storeMark' \in 0 .. LastRow
      <4>1. Biggest(Shown') \in Shown' \cup {0}
        BY <3>2, Constants, BiggestOf
      <4>2. 0 \in 0 .. LastRow
        BY Constants
      <4>3. QED
        BY <1>4, <3>2, <4>1, <4>2
    <3>4. /\ tracked' = {} /\ held' = <<>> /\ fetchComplete' = FALSE /\ watermark' = storeMark'
          /\ Ids(held)' = {} /\ Collected' = {} /\ (~up => catchUp' = Idle)
          /\ \A r \in Rows : r + Window >= storeMark' => Way(r)'
          /\ \A r \in Rows : Way(r)' \/ r + Window < watermark'
      BY <1>1, <3>1, <3>3, StartGap DEF IInv
    <3>5. Streaming'
      BY <1>1, <1>4, <2>3 DEF Streaming
    <3>6. AllCommitted'
      BY <1>1, <1>5, <1>6, <1>8, <3>3, <3>4 DEF GapInv, AllCommitted
    <3>7. Phases'
      BY <1>1, <1>4, <3>4, <3>5 DEF GapInv, Phases
    <3>8. TrackedReached'
      BY <3>4 DEF TrackedReached
    <3>9. Traced'
      BY <1>6, <3>4, GapNumbers DEF Traced, IInv
    <3>10. OwedComes'
      <4> SUFFICES ASSUME NEW r \in Committed \ Reached', Owed(r)' PROVE Way(r)'
        BY <1>6 DEF OwedComes
      <4>1. PICK e \in detail : Above(e.rows, r) /\ (e = d \/ d.n < e.n)
        BY <1>10, <2>1
      <4>2. r \in Rows /\ r \in Nat /\ Window \in Nat
        BY GapNumbers DEF IInv
      <4>3. \A c \in e.rows : c.id <= r + Window /\ c.id \in Nat
        <5>1. \A c \in e.rows : c.id <= r + Window
          BY <4>1 DEF GapInv, DetailFresh
        <5>2. e.rows \subseteq Body
          BY DEF IInv, TypeOK, Reply
        <5>3. QED
          BY <5>1, <5>2, Constants DEF Body
      <4>4. \A b \in d.rows : b.id <= r + Window
        <5>1. \A b \in d.rows : \E c \in e.rows : b.id <= c.id
          <6>1. CASE e = d
            BY <4>3, <6>1
          <6>2. CASE d.n < e.n
            BY <6>2 DEF GapInv, DetailOrdered
          <6>3. QED
            BY <4>1, <6>1, <6>2
        <5>2. \A b \in d.rows : b.id \in Nat
          BY <1>3, GapNumbers DEF IInv
        <5>3. QED
          BY <4>2, <4>3, <5>1, <5>2
      <4>5. storeMark' \in P \cup {0}
        BY <1>4, <2>1, <3>3
      <4>6. storeMark' <= r + Window
        BY <4>2, <4>4, <4>5
      <4>7. r + Window >= storeMark'
        BY <3>3, <4>2, <4>6
      <4>8. QED
        BY <3>4, <4>2, <4>7
    <3>11. QED
      BY <1>7, <2>2, <3>6, <3>7, <3>8, <3>9, <3>10 DEF GapInv
  <2>4. CASE ~open
    <3>1. UNCHANGED streamVars
      BY <2>4 DEF DetailLands
    <3>2. UNCHANGED <<tracked, held, fetchComplete, watermark, catchUp, Collected>>
      BY <3>1 DEF streamVars, Collected
    <3>3. ~Streaming'
      BY <1>1, <2>4 DEF Streaming
    <3>4. Traced' /\ OwedComes'
      BY <3>3 DEF Traced, OwedComes
    <3>5. AllCommitted'
      BY <1>1, <1>5, <1>6, <1>8, <3>2 DEF GapInv, AllCommitted
    <3>6. Phases'
      BY <1>1, <1>4, <2>1, <3>2, <3>3 DEF GapInv, Phases
    <3>7. TrackedReached'
      BY <1>4, <3>2 DEF GapInv, TrackedReached
    <3>8. QED
      BY <1>7, <2>2, <3>4, <3>5, <3>6, <3>7 DEF GapInv
  <2>5. QED
    BY <2>3, <2>4
<1>13. QED
  BY <1>11, <1>12

\* The page is left.
LEMMA LeaveGap ==
    ASSUME IInv, GapInv, Leave
    PROVE  GapInv'
<1> DEFINE S == {r \in Committed \ Shown : r < storeMark}
<1>1. /\ open' = FALSE /\ catchUp' = Idle /\ Blame(S, "left")
      /\ UNCHANGED <<db, up, wire, tracked, held, fetchComplete, watermark, loaded, messages,
                     hasOlder, detail, older, landed, fetches>>
  BY DEF Leave, linkVars, storeVars, restVars
<1> HIDE DEF S
<1>2. \A r \in Rows : gone[r] # {} => gone'[r] # {}
  BY <1>1, BlameNotes, ReasonsAre DEF IInv
<1>3. UNCHANGED <<Committed, Shown, Announced>> /\ Reached \subseteq Reached'
  BY <1>1, <1>2 DEF Committed, Shown, Announced, Reached
<1>4. ~Streaming' /\ Collected' = {}
  BY <1>1 DEF Streaming, Collected
<1>5. Traced' /\ OwedComes'
  BY <1>4 DEF Traced, OwedComes
<1>6. AllCommitted'
  BY <1>1, <1>3, <1>4 DEF GapInv, AllCommitted
<1>7. Phases'
  BY <1>1, <1>3, <1>4 DEF GapInv, Phases
<1>8. InWindow' /\ TrackedReached' /\ DetailFresh' /\ DetailOrdered'
  BY RefreshesKept, <1>1, <1>3 DEF GapInv, InWindow, TrackedReached
<1>9. QED
  BY <1>5, <1>6, <1>7, <1>8 DEF GapInv

\* And opened again: rows behind the store's watermark are left, the others asked for.
LEMMA ReturnGap ==
    ASSUME IInv, GapInv, Return
    PROVE  GapInv'
<1> DEFINE S == {r \in Committed \ Shown : r < storeMark}
<1>1. /\ ~open /\ open' = TRUE /\ Blame(S, "left")
      /\ UNCHANGED <<db, up, wire, loaded, messages, storeMark, hasOlder, detail, older, landed, fetches>>
  BY DEF Return, linkVars, storeVars, restVars
<1> HIDE DEF S
<1>2. /\ \A r \in Rows : gone[r] # {} => gone'[r] # {}
      /\ \A r \in Rows \cap S : gone'[r] # {}
  BY <1>1, BlameNotes, ReasonsAre DEF IInv
<1>3. UNCHANGED <<Committed, Shown, Announced>> /\ Reached \subseteq Reached'
  BY <1>1, <1>2 DEF Committed, Shown, Announced, Reached
<1>4. InWindow' /\ DetailFresh' /\ DetailOrdered'
  BY <1>1, <1>3, RefreshesKept DEF GapInv, InWindow
<1>5. catchUp = Idle
  BY <1>1 DEF GapInv, Phases, Streaming
<1>6. CASE loaded
  <2>1. StartStream(storeMark)
    BY <1>6 DEF Return
  <2>2. storeMark \in 0 .. LastRow /\ storeMark \in Shown \cup {0} /\ storeMark \in Nat
    BY InvGivesStore, MarkOfShown DEF IInv, TypeOK
  <2>3. /\ tracked' = {} /\ held' = <<>> /\ fetchComplete' = FALSE /\ watermark' = storeMark
        /\ Ids(held)' = {} /\ Collected' = {} /\ (~up => catchUp' = Idle)
        /\ \A r \in Rows : r + Window >= storeMark => Way(r)'
    BY <1>1, <2>1, <2>2, StartGap DEF IInv
  <2>4. Streaming'
    BY <1>1, <1>6 DEF Streaming
  <2>5. ASSUME NEW r \in Committed \ Reached' PROVE Way(r)'
    <3>1. r \in Rows /\ r \in Nat /\ Window \in Nat /\ r \notin Shown /\ gone'[r] = {}
      BY <1>3, <2>5, GapNumbers DEF Reached, IInv
    <3>2. ~ (r < storeMark)
      BY <1>2, <2>5, <3>1 DEF S
    <3>3. r + Window >= storeMark
      BY <2>2, <3>1, <3>2
    <3>4. QED
      BY <2>3, <3>1, <3>3
  <2>6. Traced' /\ OwedComes'
    BY <1>3, <2>5 DEF Traced, OwedComes
  <2>7. AllCommitted'
    BY <1>1, <1>3, <2>2, <2>3 DEF GapInv, AllCommitted
  <2>8. Phases'
    BY <1>1, <1>6, <2>3, <2>4 DEF GapInv, Phases
  <2>9. TrackedReached'
    BY <2>3 DEF TrackedReached
  <2>10. QED
    BY <1>4, <2>6, <2>7, <2>8, <2>9 DEF GapInv
<1>7. CASE ~loaded
  <2>1. UNCHANGED streamVars
    BY <1>7 DEF Return
  <2>2. UNCHANGED <<tracked, held, fetchComplete, watermark, catchUp, Collected>>
    BY <2>1 DEF streamVars, Collected
  <2>3. ~Streaming'
    BY <1>1, <1>7 DEF Streaming
  <2>4. Traced' /\ OwedComes'
    BY <2>3 DEF Traced, OwedComes
  <2>5. AllCommitted'
    BY <1>1, <1>3, <2>2 DEF GapInv, AllCommitted
  <2>6. Phases'
    BY <1>1, <1>3, <1>5, <2>2, <2>3 DEF GapInv, Phases
  <2>7. TrackedReached'
    BY <1>3, <2>2 DEF GapInv, TrackedReached
  <2>8. QED
    BY <1>4, <2>4, <2>5, <2>6, <2>7 DEF GapInv
<1>8. QED
  BY <1>6, <1>7

-----------------------------------------------------------------------------
(* No gap: the theorem.                                                    *)

\* At the start nothing has committed.
LEMMA StartsWithoutGap ==
    ASSUME Init
    PROVE  GapInv
<1>1. Committed = {} /\ Shown = {} /\ Announced = {} /\ Ids(held) = {} /\ Collected = {}
  BY DEF Init, Committed, Shown, Announced, Ids, Collected
<1>2. ~Streaming
  BY DEF Init, Streaming
<1>3. InWindow
  BY DEF Init, InWindow
<1>4. AllCommitted
  BY <1>1 DEF Init, AllCommitted
<1>5. Phases
  BY <1>1, <1>2 DEF Init, Phases
<1>6. TrackedReached /\ DetailFresh /\ DetailOrdered /\ Traced /\ OwedComes
  BY <1>1, <1>2 DEF Init, TrackedReached, DetailFresh, DetailOrdered, Traced, OwedComes
<1>7. QED
  BY <1>3, <1>4, <1>5, <1>6 DEF GapInv

\* Every step keeps the invariant.
LEMMA StepsWithoutGap ==
    ASSUME IInv, NeverStuck, GapInv, [Next]_vars
    PROVE  GapInv'
<1>1. CASE Next
  <2>1. ASSUME NEW r \in Rows, Commit(r) \/ Settle(r) PROVE GapInv'
    BY <2>1, CommitGap, SettleGap DEF IInv
  <2>2. ASSUME NEW s \in Sends, (\E at \in Clocks : Send(s, at)) \/ PostFails(s) PROVE GapInv'
    BY <2>2, SendGap
  <2>3. QED
    BY <1>1, <2>1, <2>2, RelayAnswersGap, ConnectsGap, DisconnectsGap, FetchTimesOutGap,
       PageArrivesGap, FrameArrivesGap, FetchDetailGap, DetailLandsGap, LoadOlderGap,
       OlderLandsGap, ReplyFailsGap, LeaveGap, ReturnGap
       DEF Next
<1>2. CASE UNCHANGED vars
  <2>1. UNCHANGED <<db, up, wire, open, loaded, hasOlder, tracked, held, fetchComplete, watermark,
                    catchUp, detail, older, landed, fetches, gone, Shown, Announced>>
    BY <1>2 DEF vars, linkVars, streamVars, storeVars, restVars, Shown, Announced
  <2>2. QED
    BY <2>1, OnlySends
<1>3. QED
  BY <1>1, <1>2

\* Once nothing is on its way, every committed row from the list's first one on is shown,
\* or one of the named events took it: whatever the order of frames, pages, cuts and visits,
\* and of replies that overlap (useMessageStream, MessageStore).
THEOREM NothingIsSkipped == Spec => []NoGap
<1>1. IInv /\ GapInv => NoGap
  BY GapInvGivesNoGap DEF IInv
<1>2. QED
  BY <1>1, StreamNeverStuck, StartsSound, StepsSound, StartsWithoutGap, StepsWithoutGap, PTL
     DEF Spec
=============================================================================
