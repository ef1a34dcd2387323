-------------------------- MODULE QuestionsProofs --------------------------
(***************************************************************************)
(* Proofs about Questions, for any set of questions, permissions and rows. *)
(* RegistriesAgree is inductive once the types are known.  ChatKept needs  *)
(* one thing more, which Futures has: a prompt that was answered is not in *)
(* a registry any more, so that only one that has expired can swallow a    *)
(* row.                                                                    *)
(***************************************************************************)
EXTENDS Questions, SequenceTheorems, TLAPS

Keys == byRequest \cup permKeys

\* The indexes of one registry: a set of keys and the order they came in.
Indexed(fifo, keys, S) ==
    /\ keys \subseteq S /\ fifo \in Seq(S)
    /\ ToSet(fifo) = keys /\ IsInjective(fifo)

Indexes ==
    /\ Indexed(auqFifo, byRequest, Questions)
    /\ Indexed(permFifo, permKeys, Permissions)
    /\ byMessage \subseteq byRequest

\* A future that somebody awaits is in a registry; what a registry holds is
\* awaited, or has expired, by a callback that has not returned.
Futures ==
    \A p \in Prompts :
        /\ fut[p] = "pending" => p \in Keys
        /\ p \in Keys => /\ fut[p] \in {"pending", "cancelled"}
                         /\ phase[p] \in {"posting", "posted", "waiting"}

\* The type invariant without the registries: what routing a row may change,
\* and the rest.
RouteTypes ==
    /\ fut \in [Prompts -> {None, "pending", "result", "cancelled"}]
    /\ takenBy \in [Prompts -> Rows \cup {None}]
    /\ seen \subseteq Rows /\ queuedOnce \subseteq Rows
    /\ inbox \in Seq(Rows)
    /\ interrupted \in BOOLEAN /\ stopping \in BOOLEAN

OtherTypes ==
    /\ phase \in [Prompts -> Phases]
    /\ content \in [Rows -> Content \cup {Unwritten}]
    /\ unread \in Seq(Rows) /\ restRows \in Seq(Rows)
    /\ wsSeen \subseteq Rows /\ passedOver \subseteq Rows
    /\ rest \in {"idle", "sent", "route"}
    /\ turn \in BOOLEAN
    /\ orphans \subseteq Prompts

IInv == Indexes /\ Futures /\ RouteTypes /\ OtherTypes

-----------------------------------------------------------------------------
(* The FIFO of a registry.                                                 *)

\* Taking the first occurrence of an element out of a sequence without
\* repetitions takes the element out of it.
LEMMA RemoveFirstIndexed ==
    ASSUME NEW S, NEW fifo, NEW keys, NEW e, Indexed(fifo, keys, S)
    PROVE  Indexed(RemoveFirst(fifo, e), keys \ {e}, S)
<1>1. CASE e \notin ToSet(fifo)
  <2>1. RemoveFirst(fifo, e) = fifo
    BY <1>1 DEF RemoveFirst, ToSet, Indexed
  <2>2. QED
    BY <1>1, <2>1 DEF Indexed
<1>2. CASE e \in ToSet(fifo)
  <2>1. fifo \in Seq(S) /\ DOMAIN fifo = 1 .. Len(fifo) /\ Len(fifo) \in Nat
    BY DEF Indexed
  <2>2. PICK k \in 1 .. Len(fifo) : fifo[k] = e
    BY <1>2, <2>1 DEF ToSet
  <2>3. \A i \in 1 .. Len(fifo) : fifo[i] = e <=> i = k
    BY <2>1, <2>2 DEF Indexed, IsInjective
  <2>4. {i \in 1 .. Len(fifo) : fifo[i] = e} = {k}
    BY <2>2, <2>3
  <2>5. Min({k}) = k
    BY <2>1 DEF Min
  <2>6. RemoveFirst(fifo, e)
          = RemoveAt(fifo, IF {i \in 1 .. Len(fifo) : fifo[i] = e} # {}
                           THEN Min({i \in 1 .. Len(fifo) : fifo[i] = e}) ELSE 0)
    BY <2>2 DEF RemoveFirst, SelectInSeq
  <2>7. RemoveFirst(fifo, e) = SubSeq(fifo, 1, k - 1) \o SubSeq(fifo, k + 1, Len(fifo))
    BY <2>4, <2>5, <2>6 DEF RemoveAt
  <2> DEFINE r == SubSeq(fifo, 1, k - 1) \o SubSeq(fifo, k + 1, Len(fifo))
             n == Len(fifo) - 1
  <2>8. /\ r \in Seq(S) /\ Len(r) = n /\ n \in Nat /\ DOMAIN r = 1 .. n
        /\ \A i \in 1 .. n : r[i] = IF i < k THEN fifo[i] ELSE fifo[i + 1]
    <3> DEFINE a == SubSeq(fifo, 1, k - 1)
               b == SubSeq(fifo, k + 1, Len(fifo))
    <3>1. /\ a \in Seq(S) /\ Len(a) = k - 1
          /\ \A i \in 1 .. k - 1 : a[i] = fifo[i]
      <4>1. \A i \in 1 .. k - 1 : fifo[i] \in S
        BY <2>1
      <4>2. /\ a \in Seq(S) /\ Len(a) = IF 1 <= k - 1 THEN (k - 1) - 1 + 1 ELSE 0
            /\ \A i \in 1 .. (k - 1) - 1 + 1 : a[i] = fifo[1 + i - 1]
        BY <2>1, <4>1, SubSeqProperties, 1 \in Int, k - 1 \in Int
      <4>3. QED
        <5> HIDE DEF a, b
        <5> QED
          BY <2>1, <4>2
    <3>2. /\ b \in Seq(S) /\ Len(b) = Len(fifo) - k
          /\ \A i \in 1 .. Len(fifo) - k : b[i] = fifo[(k + 1) + i - 1]
      <4>1. \A i \in k + 1 .. Len(fifo) : fifo[i] \in S
        BY <2>1
      <4>2. /\ b \in Seq(S)
            /\ Len(b) = IF k + 1 <= Len(fifo) THEN Len(fifo) - (k + 1) + 1 ELSE 0
            /\ \A i \in 1 .. Len(fifo) - (k + 1) + 1 : b[i] = fifo[(k + 1) + i - 1]
        BY <2>1, <4>1, SubSeqProperties, k + 1 \in Int
      <4>3. QED
        <5> HIDE DEF a, b
        <5> QED
          BY <2>1, <4>2
    <3> HIDE DEF a, b
    <3>3. /\ a \o b \in Seq(S) /\ Len(a \o b) = n /\ n \in Nat
          /\ DOMAIN (a \o b) = 1 .. n
      <4>1. a \o b \in Seq(S) /\ Len(a \o b) = Len(a) + Len(b)
        BY <3>1, <3>2, ConcatProperties
      <4>2. n \in Nat /\ Len(a) + Len(b) = n
        BY <2>1, <3>1, <3>2
      <4>3. QED
        BY <4>1, <4>2
    <3>4. \A i \in 1 .. n : (a \o b)[i] = IF i < k THEN fifo[i] ELSE fifo[i + 1]
      <4> TAKE i \in 1 .. n
      <4>1. (a \o b)[i] = IF i <= Len(a) THEN a[i] ELSE b[i - Len(a)]
        BY <2>1, <3>1, <3>2
      <4>2. CASE i < k
        BY <2>1, <3>1, <4>1, <4>2
      <4>3. CASE ~ (i < k)
        <5>1. i - (k - 1) \in 1 .. Len(fifo) - k /\ (k + 1) + (i - (k - 1)) - 1 = i + 1
          BY <2>1, <4>3
        <5>2. (a \o b)[i] = b[i - (k - 1)]
          BY <2>1, <3>1, <4>1, <4>3
        <5>3. QED
          BY <3>2, <4>3, <5>1, <5>2
      <4>4. QED
        BY <4>2, <4>3
    <3>5. QED
      BY <3>3, <3>4 DEF a, b
  <2> HIDE DEF r, n
  <2>9. ToSet(r) = keys \ {e}
    <3>1. ASSUME NEW i \in 1 .. n PROVE r[i] \in keys \ {e}
      <4>1. \E j \in 1 .. Len(fifo) : j # k /\ r[i] = fifo[j]
        <5>1. CASE i < k
          <6>1. i \in 1 .. Len(fifo) /\ i # k
            BY <2>1, <5>1 DEF n
          <6>2. r[i] = fifo[i]
            BY <2>8, <5>1
          <6>3. QED
            BY <6>1, <6>2
        <5>2. CASE ~ (i < k)
          <6>1. i + 1 \in 1 .. Len(fifo) /\ i + 1 # k
            BY <2>1, <5>2 DEF n
          <6>2. r[i] = fifo[i + 1]
            BY <2>8, <5>2
          <6>3. QED
            BY <6>1, <6>2
        <5>3. QED
          BY <5>1, <5>2
      <4>2. PICK j \in 1 .. Len(fifo) : j # k /\ r[i] = fifo[j]
        BY <4>1
      <4>3. QED
        BY <2>1, <2>3, <4>2 DEF Indexed, ToSet
    <3>2. ASSUME NEW x \in keys \ {e} PROVE \E i \in 1 .. n : r[i] = x
      <4>1. PICK j \in 1 .. Len(fifo) : fifo[j] = x /\ j # k
        BY <2>1, <2>2 DEF Indexed, ToSet
      <4>2. CASE j < k
        <5>1. j \in 1 .. n
          BY <2>1, <4>1, <4>2 DEF n
        <5>2. r[j] = fifo[j]
          BY <2>8, <4>2, <5>1
        <5>3. QED
          BY <4>1, <5>1, <5>2
      <4>3. CASE j > k
        <5>1. j - 1 \in 1 .. n /\ ~ (j - 1 < k) /\ (j - 1) + 1 = j
          BY <2>1, <4>1, <4>3 DEF n
        <5>2. r[j - 1] = fifo[j]
          BY <2>8, <5>1
        <5>3. QED
          BY <4>1, <5>1, <5>2
      <4>4. QED
        BY <4>1, <4>2, <4>3
    <3>3. DOMAIN r = 1 .. n
      BY <2>8
    <3>4. ToSet(r) = {r[i] : i \in 1 .. n}
      BY <3>3 DEF ToSet
    <3>5. \A x \in {r[i] : i \in 1 .. n} : x \in keys \ {e}
      BY <3>1
    <3>6. \A x \in keys \ {e} : x \in {r[i] : i \in 1 .. n}
      BY <3>2
    <3>7. QED
      BY <3>4, <3>5, <3>6
  <2>10. IsInjective(r)
    <3> SUFFICES ASSUME NEW i \in 1 .. n, NEW j \in 1 .. n, r[i] = r[j] PROVE i = j
      BY <2>8 DEF IsInjective
    <3>1. \A a, b \in 1 .. Len(fifo) : fifo[a] = fifo[b] => a = b
      BY <2>1 DEF Indexed, IsInjective
    <3>2. ASSUME NEW h \in 1 .. n
          PROVE  \E m \in 1 .. Len(fifo) :
                    r[h] = fifo[m] /\ (h < k => m = h) /\ (~ (h < k) => m = h + 1)
      <4>1. CASE h < k
        <5>1. h \in 1 .. Len(fifo)
          BY <2>1, <4>1 DEF n
        <5>2. r[h] = fifo[h]
          BY <2>8, <4>1
        <5>3. QED
          BY <4>1, <5>1, <5>2
      <4>2. CASE ~ (h < k)
        <5>1. h + 1 \in 1 .. Len(fifo)
          BY <2>1, <4>2 DEF n
        <5>2. r[h] = fifo[h + 1]
          BY <2>8, <4>2
        <5>3. QED
          BY <4>2, <5>1, <5>2
      <4>3. QED
        BY <4>1, <4>2
    <3>3. PICK a \in 1 .. Len(fifo) :
             r[i] = fifo[a] /\ (i < k => a = i) /\ (~ (i < k) => a = i + 1)
      BY <3>2
    <3>4. PICK b \in 1 .. Len(fifo) :
             r[j] = fifo[b] /\ (j < k => b = j) /\ (~ (j < k) => b = j + 1)
      BY <3>2
    <3>5. a = b
      BY <3>1, <3>3, <3>4
    <3>6. i \in Nat /\ j \in Nat /\ k \in Nat
      BY <2>1 DEF n
    <3>7. QED
      BY <3>3, <3>4, <3>5, <3>6
  <2>11. QED
    BY <2>7, <2>8, <2>9, <2>10 DEF Indexed, r
<1>3. QED
  BY <1>1, <1>2

\* A new element goes to the end.
LEMMA AppendIndexed ==
    ASSUME NEW S, NEW fifo, NEW keys, NEW e \in S, Indexed(fifo, keys, S), e \notin keys
    PROVE  Indexed(Append(fifo, e), keys \cup {e}, S)
<1> DEFINE r == Append(fifo, e)
<1>1. /\ r \in Seq(S) /\ Len(r) = Len(fifo) + 1 /\ DOMAIN r = 1 .. Len(fifo) + 1
      /\ \A i \in 1 .. Len(fifo) : r[i] = fifo[i]
      /\ r[Len(fifo) + 1] = e
      /\ DOMAIN fifo = 1 .. Len(fifo) /\ Len(fifo) \in Nat
  BY DEF Indexed
<1> HIDE DEF r
<1>2. ToSet(r) = keys \cup {e}
  <2>1. ASSUME NEW i \in 1 .. Len(fifo) + 1 PROVE r[i] \in keys \cup {e}
    BY <1>1 DEF Indexed, ToSet
  <2>2. ASSUME NEW x \in keys \cup {e} PROVE \E i \in 1 .. Len(fifo) + 1 : r[i] = x
    <3>1. CASE x = e
      BY <1>1, <3>1
    <3>2. CASE x # e
      <4>1. PICK j \in 1 .. Len(fifo) : fifo[j] = x
        BY <1>1, <3>2 DEF Indexed, ToSet
      <4>2. QED
        BY <1>1, <4>1
    <3>3. QED
      BY <3>1, <3>2
  <2>3. QED
    BY <1>1, <2>1, <2>2 DEF ToSet
<1>3. IsInjective(r)
  <2>1. \A i \in 1 .. Len(fifo) : fifo[i] # e
    BY <1>1 DEF Indexed, ToSet
  <2>2. QED
    BY <1>1, <2>1 DEF Indexed, IsInjective
<1>4. QED
  BY <1>1, <1>2, <1>3 DEF Indexed, r

-----------------------------------------------------------------------------
(* The operations of the registries.                                       *)

\* A prompt is a question or a permission, never both.
LEMMA Apart == /\ \A p \in Questions : p \notin Permissions /\ p \in Prompts
               /\ \A p \in Permissions : p \notin Questions /\ p \in Prompts
               /\ None \notin Prompts /\ None \notin Rows
BY QuestionsAssumption DEF Prompts

\* The keys of the registries are prompts.
LEMMA KeysArePrompts ==
    ASSUME Indexes
    PROVE  Keys \subseteq Prompts
BY DEF Indexes, Indexed, Keys, Prompts

\* create: the new prompt is found under its request id and in the FIFO.
LEMMA RegisterKeeps ==
    ASSUME IInv, NEW p \in Prompts, p \notin Keys, Register(p),
           phase' = [phase EXCEPT ![p] = "posting"]
    PROVE  /\ Indexes' /\ Futures'
           /\ fut' \in [Prompts -> {None, "pending", "result", "cancelled"}]
<1>1. fut' = [fut EXCEPT ![p] = "pending"] /\ fut \in [Prompts -> {None, "pending", "result", "cancelled"}]
  BY DEF Register, IInv, RouteTypes
<1>2. Keys' = Keys \cup {p}
  BY DEF Register, Keys
<1>3. Indexes'
  <2>1. CASE p \in Questions
    <3>1. Indexed(Append(auqFifo, p), byRequest \cup {p}, Questions)
      BY <2>1, AppendIndexed DEF IInv, Indexes, Keys
    <3>2. QED
      BY <2>1, <3>1 DEF Register, IInv, Indexes
  <2>2. CASE p \notin Questions
    <3>1. Indexed(Append(permFifo, p), permKeys \cup {p}, Permissions)
      BY <2>2, AppendIndexed DEF IInv, Indexes, Keys, Prompts
    <3>2. QED
      BY <2>2, <3>1 DEF Register, IInv, Indexes
  <2>3. QED
    BY <2>1, <2>2
<1>4. Futures'
  BY <1>1, <1>2 DEF IInv, Futures, OtherTypes
<1>5. QED
  BY <1>1, <1>3, <1>4

\* _forget: all indexes of the registry lose the prompt, and only that one.
LEMMA ForgetKeeps ==
    ASSUME IInv, NEW p \in Prompts, Forget(p)
    PROVE  Indexes' /\ Keys' = Keys \ {p}
<1>1. /\ Indexed(RemoveFirst(auqFifo, p), byRequest \ {p}, Questions)
      /\ Indexed(RemoveFirst(permFifo, p), permKeys \ {p}, Permissions)
  BY RemoveFirstIndexed DEF IInv, Indexes
<1>2. QED
  BY <1>1 DEF Forget, IInv, Indexes, Keys

\* The end of a callback: its future is done, whatever it was.
LEMMA FinishKeeps ==
    ASSUME IInv, NEW p \in Prompts, NEW result \in {"answered", "denied", "failed"},
           Finish(p, result)
    PROVE  IInv'
<1>1. Indexes' /\ Keys' = Keys \ {p}
  BY ForgetKeeps DEF Finish
<1>2. fut' = IF p \in Keys /\ fut[p] = "pending"
             THEN [fut EXCEPT ![p] = "cancelled"] ELSE fut
  BY DEF Finish, Keys
<1>3. RouteTypes'
  BY <1>2 DEF Finish, IInv, RouteTypes
<1>4. OtherTypes'
  BY DEF Finish, IInv, OtherTypes, Phases, rowVars, restVars, turnVars
<1>5. Futures'
  <2>1. phase' = [phase EXCEPT ![p] = result]
    BY DEF Finish
  <2>2. QED
    BY <1>1, <1>2, <2>1 DEF IInv, Futures, RouteTypes, OtherTypes
<1>6. QED
  BY <1>1, <1>3, <1>4, <1>5 DEF IInv

\* cancel_all: nobody is awaited any more, and the registries are empty.
LEMMA CancelAllKeeps ==
    ASSUME IInv, CancelAll
    PROVE  /\ Indexes' /\ Keys' = {}
           /\ fut' \in [Prompts -> {None, "pending", "result", "cancelled"}]
           /\ \A p \in Prompts : fut'[p] # "pending"
<1>1. /\ byRequest' = {} /\ byMessage' = {} /\ auqFifo' = <<>>
      /\ permKeys' = {} /\ permFifo' = <<>>
  BY DEF CancelAll
<1>2. ToSet(<<>>) = {} /\ IsInjective(<<>>)
  BY DEF ToSet, IsInjective
<1>3. \A S : Indexed(<<>>, {}, S)
  BY <1>2 DEF Indexed
<1>4. Indexes' /\ Keys' = {}
  BY <1>1, <1>3 DEF Indexes, Keys
<1>5. ToSet(auqFifo) \cup ToSet(permFifo) = Keys
  BY DEF IInv, Indexes, Indexed, Keys
<1>6. fut' = [p \in Prompts |-> IF p \in Keys /\ fut[p] = "pending"
                                THEN "cancelled" ELSE fut[p]]
  BY <1>5 DEF CancelAll
<1>7. QED
  BY <1>4, <1>6 DEF IInv, RouteTypes, Futures

-----------------------------------------------------------------------------
(* Routing.                                                                *)

\* A row is taken by a prompt that is in a registry.
LEMMA TakerIsKey ==
    ASSUME IInv, NEW r \in Rows, Taker(content[r]) # None
    PROVE  Taker(content[r]) \in Keys
<1> DEFINE c == content[r]
<1>1. auqFifo # <<>> => Head(auqFifo) \in byRequest
  BY DEF IInv, Indexes, Indexed, ToSet
<1>2. permFifo # <<>> => Head(permFifo) \in permKeys
  BY DEF IInv, Indexes, Indexed, ToSet
<1>3. Addressee(c) # None => Addressee(c) \in byRequest
  BY <1>1 DEF Addressee, IInv, Indexes
<1>4. QuestionPending => auqFifo # <<>>
  BY DEF QuestionPending
<1>5. QED
  BY <1>1, <1>2, <1>3, <1>4 DEF Taker, PermissionPending, Keys

\* A future that takes a reply, or discards one, is of a prompt that leaves its
\* registry with it.
LEMMA TakeKeeps ==
    ASSUME IInv, NEW r \in Rows, NEW p \in Keys, Take(r, p), phase' = phase
    PROVE  Indexes' /\ Futures' /\ RouteTypes'
<1>1. p \in Prompts
  BY KeysArePrompts DEF IInv
<1>2. Indexes' /\ Keys' = Keys \ {p}
  BY <1>1, ForgetKeeps DEF Take
<1>3. fut' = IF fut[p] = "pending" THEN [fut EXCEPT ![p] = "result"] ELSE fut
  BY DEF Take
<1>4. Futures'
  BY <1>1, <1>2, <1>3 DEF IInv, Futures, RouteTypes
<1>5. takenBy' \in [Prompts -> Rows \cup {None}]
  BY <1>1 DEF Take, IInv, RouteTypes
<1>6. RouteTypes'
  BY <1>1, <1>3, <1>5 DEF Take, IInv, RouteTypes
<1>7. QED
  BY <1>2, <1>4, <1>6

\* A row that is routed leaves the registries in order.
LEMMA RouteKeeps ==
    ASSUME IInv, NEW r \in Rows, Route(r), phase' = phase
    PROVE  Indexes' /\ Futures' /\ RouteTypes'
<1>1. CASE Taker(content[r]) # None /\ Take(r, Taker(content[r]))
  BY <1>1, TakerIsKey, TakeKeeps
<1>2. CASE UNCHANGED <<fut, registryVars>> /\ RouteTypes'
  BY <1>2 DEF registryVars, IInv, Indexes, Futures, Keys
<1>3. CASE Enqueue(r)
  BY <1>2, <1>3 DEF Enqueue, IInv, RouteTypes
<1>4. CASE BeginStop
  BY <1>2, <1>4 DEF BeginStop, IInv, RouteTypes, OtherTypes, registryVars
<1>5. CASE UNCHANGED routeVars
  BY <1>2, <1>5 DEF routeVars, IInv, RouteTypes
<1>6. QED
  BY <1>1, <1>3, <1>4, <1>5 DEF Route

-----------------------------------------------------------------------------
(* The invariant.                                                          *)

\* Nothing is asked when the session starts.
LEMMA InitIInv == Init => IInv
<1> SUFFICES ASSUME Init PROVE IInv
  OBVIOUS
<1>1. ToSet(<<>>) = {} /\ IsInjective(<<>>)
  BY DEF ToSet, IsInjective
<1>2. Indexes /\ Keys = {}
  BY <1>1 DEF Init, Indexes, Indexed, Keys
<1>3. Futures
  BY <1>2, Apart DEF Init, Futures, None
<1>4. RouteTypes
  <2>1. /\ fut \in [Prompts -> {None, "pending", "result", "cancelled"}]
        /\ takenBy \in [Prompts -> Rows \cup {None}]
    BY DEF Init
  <2>2. seen = {} /\ queuedOnce = {} /\ inbox = <<>>
    BY DEF Init
  <2>3. interrupted \in BOOLEAN /\ stopping \in BOOLEAN
    BY DEF Init
  <2>4. QED
    BY <2>1, <2>2, <2>3 DEF RouteTypes
<1>5. OtherTypes
  BY DEF Init, OtherTypes, Phases
<1>6. QED
  BY <1>2, <1>3, <1>4, <1>5 DEF IInv

\* The callback of a prompt.
LEMMA CallbackStep ==
    ASSUME IInv, NEW p \in Prompts, Callback(p)
    PROVE  IInv'
<1> USE DEF rowVars, restVars, turnVars
<1>1. CASE Ask(p)
  <2>1. p \notin Keys
    BY <1>1 DEF Ask, IInv, Futures
  <2>2. OtherTypes'
    BY <1>1 DEF Ask, IInv, OtherTypes, Phases
  <2>3. CASE p \in Questions
    <3>1. Register(p) /\ phase' = [phase EXCEPT ![p] = "posting"]
      BY <1>1, <2>3 DEF Ask
    <3>2. QED
      BY <1>1, <2>1, <2>2, <3>1, RegisterKeeps DEF Ask, IInv, RouteTypes
  <2>4. CASE p \notin Questions
    <3>1. phase' = [phase EXCEPT ![p] = "pause"] /\ UNCHANGED <<fut, registryVars>>
      BY <1>1, <2>4 DEF Ask
    <3>2. Indexes' /\ Futures'
      BY <2>1, <3>1 DEF IInv, Indexes, Futures, OtherTypes, Keys, registryVars
    <3>3. QED
      BY <1>1, <2>2, <3>1, <3>2 DEF Ask, IInv, RouteTypes
  <2>5. QED
    BY <2>3, <2>4
<1>2. CASE PauseOver(p)
  <2>1. p \notin Keys
    BY <1>2 DEF PauseOver, IInv, Futures
  <2>2. OtherTypes'
    BY <1>2 DEF PauseOver, IInv, OtherTypes, Phases
  <2>3. QED
    BY <1>2, <2>1, <2>2, RegisterKeeps DEF PauseOver, IInv, RouteTypes
<1>3. CASE PostCommits(p)
  <2>1. Indexes' /\ RouteTypes' /\ Keys' = Keys /\ fut' = fut
    BY <1>3 DEF PostCommits, IInv, Indexes, RouteTypes, Keys, routeVars, registryVars
  <2>2. OtherTypes'
    <3>1. unread' = <<>> /\ passedOver' \subseteq Rows
      BY <1>3 DEF PostCommits, MoveCursor, IInv, OtherTypes, ToSet
    <3>2. QED
      BY <1>3, <3>1 DEF PostCommits, MoveCursor, IInv, OtherTypes, Phases
  <2>3. Futures'
    BY <1>3, <2>1 DEF PostCommits, IInv, Futures, OtherTypes
  <2>4. QED
    BY <2>1, <2>2, <2>3 DEF IInv
<1>4. CASE PostReturns(p)
  <2>1. Indexes' /\ Keys' = Keys
    BY <1>4 DEF PostReturns, IInv, Indexes, Keys
  <2>2. Futures'
    BY <1>4, <2>1 DEF PostReturns, IInv, Futures, OtherTypes
  <2>3. RouteTypes' /\ OtherTypes'
    BY <1>4 DEF PostReturns, IInv, RouteTypes, OtherTypes, Phases
  <2>4. QED
    BY <2>1, <2>2, <2>3 DEF IInv
<1>5. CASE PostFails(p)
  BY <1>5, FinishKeeps DEF PostFails
<1>6. CASE Expire(p)
  <2>1. Indexes' /\ Keys' = Keys /\ OtherTypes'
    BY <1>6 DEF Expire, IInv, Indexes, OtherTypes, Keys, registryVars
  <2>2. Futures' /\ RouteTypes'
    BY <1>6, <2>1 DEF Expire, IInv, Futures, RouteTypes
  <2>3. QED
    BY <2>1, <2>2 DEF IInv
<1>7. CASE Resume(p)
  BY <1>7, FinishKeeps DEF Resume
<1>8. QED
  BY <1>1, <1>2, <1>3, <1>4, <1>5, <1>6, <1>7 DEF Callback

\* Turns and Stop.
LEMMA TurnStep ==
    ASSUME IInv, EndStop \/ AgentPost \/ EndTurn \/ StartTurn
    PROVE  IInv'
<1> USE DEF rowVars, restVars, turnVars
<1>1. CASE EndStop
  <2>1. /\ Indexes' /\ Keys' = {}
        /\ fut' \in [Prompts -> {None, "pending", "result", "cancelled"}]
        /\ \A p \in Prompts : fut'[p] # "pending"
    BY <1>1, CancelAllKeeps DEF EndStop
  <2>2. Futures'
    BY <2>1 DEF Futures
  <2>3. RouteTypes' /\ OtherTypes'
    BY <1>1, <2>1 DEF EndStop, IInv, RouteTypes, OtherTypes
  <2>4. QED
    BY <2>1, <2>2, <2>3 DEF IInv
<1>2. ASSUME UNCHANGED <<phase, fut, registryVars>>, RouteTypes', OtherTypes'
      PROVE  IInv'
  BY <1>2 DEF IInv, Indexes, Futures, Keys, registryVars
<1>3. CASE AgentPost
  <2>1. unread' = <<>> /\ passedOver' \subseteq Rows
    BY <1>3 DEF AgentPost, MoveCursor, IInv, OtherTypes, ToSet
  <2>2. RouteTypes' /\ OtherTypes'
    BY <1>3, <2>1 DEF AgentPost, MoveCursor, IInv, RouteTypes, OtherTypes, routeVars
  <2>3. QED
    BY <1>2, <1>3, <2>2 DEF AgentPost, routeVars
<1>4. CASE EndTurn
  <2>1. RouteTypes' /\ OtherTypes'
    BY <1>4 DEF EndTurn, IInv, RouteTypes, OtherTypes, routeVars
  <2>2. QED
    BY <1>2, <1>4, <2>1 DEF EndTurn, routeVars
<1>5. CASE StartTurn
  <2>1. inbox' \in Seq(Rows)
    BY <1>5 DEF StartTurn, IInv, RouteTypes
  <2>2. RouteTypes' /\ OtherTypes'
    BY <1>5, <2>1 DEF StartTurn, IInv, RouteTypes, OtherTypes
  <2>3. QED
    BY <1>2, <1>5, <2>2 DEF StartTurn
<1>6. QED
  BY <1>1, <1>3, <1>4, <1>5

\* Rows that are written, and the two ways they come in.
LEMMA RowStep ==
    ASSUME IInv,
           \/ \E r \in Rows : WriteRow(r) \/ WsDelivers(r)
           \/ RestAsks \/ RestAnswers \/ RestFails \/ RestUnsent \/ RestRoutes
    PROVE  IInv'
<1> USE DEF rowVars, restVars, turnVars
<1>1. ASSUME UNCHANGED <<phase, routeVars>>, OtherTypes'
      PROVE  IInv'
  BY <1>1 DEF IInv, Indexes, Futures, Keys, RouteTypes, routeVars, registryVars
<1>2. ASSUME NEW r \in Rows, WriteRow(r) PROVE IInv'
  BY <1>1, <1>2 DEF WriteRow, IInv, OtherTypes
<1>3. ASSUME NEW r \in Rows, WsDelivers(r) PROVE IInv'
  <2>1. Indexes' /\ Futures' /\ RouteTypes'
    BY <1>3, RouteKeeps DEF WsDelivers
  <2>2. OtherTypes'
    BY <1>3 DEF WsDelivers, IInv, OtherTypes
  <2>3. QED
    BY <2>1, <2>2 DEF IInv
<1>4. CASE RestAsks
  BY <1>1, <1>4 DEF RestAsks, IInv, OtherTypes
<1>5. CASE RestAnswers
  BY <1>1, <1>5 DEF RestAnswers, IInv, OtherTypes
<1>6. CASE RestFails
  <2>1. unread' = <<>> /\ passedOver' \subseteq Rows
    BY <1>6 DEF RestFails, MoveCursor, IInv, OtherTypes, ToSet
  <2>2. QED
    BY <1>1, <1>6, <2>1 DEF RestFails, MoveCursor, IInv, OtherTypes
<1>7. CASE RestUnsent
  BY <1>1, <1>7 DEF RestUnsent, IInv, OtherTypes
<1>8. CASE RestRoutes
  <2>1. CASE restRows = <<>>
    BY <1>1, <1>8, <2>1 DEF RestRoutes, IInv, OtherTypes
  <2>2. CASE restRows # <<>>
    <3>1. Head(restRows) \in Rows /\ Tail(restRows) \in Seq(Rows)
      BY <2>2 DEF IInv, OtherTypes
    <3>2. Indexes' /\ Futures' /\ RouteTypes'
      BY <1>8, <2>2, <3>1, RouteKeeps DEF RestRoutes
    <3>3. OtherTypes'
      BY <1>8, <2>2, <3>1 DEF RestRoutes, IInv, OtherTypes
    <3>4. QED
      BY <3>2, <3>3 DEF IInv
  <2>3. QED
    BY <2>1, <2>2
<1>9. QED
  BY <1>2, <1>3, <1>4, <1>5, <1>6, <1>7, <1>8

\* No step breaks the invariant.
LEMMA InvariantStep == IInv /\ [Next]_vars => IInv'
<1> SUFFICES ASSUME IInv, [Next]_vars PROVE IInv'
  OBVIOUS
<1>1. CASE UNCHANGED vars
  BY <1>1 DEF vars, routeVars, registryVars, rowVars, restVars, turnVars, IInv, Indexes,
     Futures, Keys, RouteTypes, OtherTypes
<1>2. CASE Next
  BY <1>2, CallbackStep, TurnStep, RowStep DEF Next
<1>3. QED
  BY <1>1, <1>2

\* The invariant, for every behaviour.
LEMMA Invariance == Spec => []IInv
BY InitIInv, InvariantStep, PTL DEF Spec

\* What the variables hold.
THEOREM TypeCorrect == Spec => []TypeOK
<1>1. IInv => TypeOK
  BY DEF IInv, Indexes, Indexed, RouteTypes, OtherTypes, TypeOK
<1>2. QED
  BY <1>1, Invariance, PTL

\* The indexes of each registry agree, and no callback waits for a future that
\* no reply can find (auq.py and permission.py: create, _forget, cancel, cancel_all).
THEOREM RegistriesHold == Spec => []RegistriesAgree
<1>1. IInv => RegistriesAgree
  BY DEF IInv, Indexes, Indexed, Futures, Keys, RegistriesAgree
<1>2. QED
  BY <1>1, Invariance, PTL

\* A chat row that the WebSocket delivers is queued or settles a prompt, unless a
\* prompt that has just expired discards it (claude_code.py, _route).
THEOREM ChatIsKept == Spec => ChatKept
<1> DEFINE Kept ==
        \A r \in wsSeen' \ wsSeen :
            content[r].type = "chat" =>
                \/ r \in seen'
                \/ \E p \in Prompts : takenBy'[p] = r
                \/ \E p \in byRequest \cup permKeys : fut[p] = "cancelled"
<1>1. ASSUME IInv, [Next]_vars PROVE Kept
  <2> SUFFICES ASSUME NEW r \in wsSeen' \ wsSeen, content[r].type = "chat"
               PROVE  \/ r \in seen'
                      \/ \E p \in Prompts : takenBy'[p] = r
                      \/ \E p \in byRequest \cup permKeys : fut[p] = "cancelled"
    OBVIOUS
  <2>1. r \in Rows /\ WsDelivers(r)
    <3>1. wsSeen' # wsSeen
      OBVIOUS
    <3>2. \E x \in Rows : WsDelivers(x)
      BY <1>1, <3>1 DEF Next, vars, rowVars, Callback, Ask, PauseOver, PostCommits,
         PostReturns, PostFails, Finish, Expire, Resume, EndStop, AgentPost, EndTurn,
         StartTurn, WriteRow, RestAsks, RestAnswers, RestFails, RestUnsent, RestRoutes,
         MoveCursor
    <3>3. QED
      BY <3>2 DEF WsDelivers
  <2>2. Route(r)
    BY <2>1 DEF WsDelivers
  <2>3. CASE Enqueue(r)
    BY <2>3 DEF Enqueue
  <2>4. CASE Taker(content[r]) # None /\ Take(r, Taker(content[r]))
    <3> DEFINE p == Taker(content[r])
    <3>1. p \in Keys /\ p \in Prompts
      BY <1>1, <2>1, <2>4, TakerIsKey, KeysArePrompts DEF IInv
    <3> HIDE DEF p
    <3>2. CASE fut[p] = "pending"
      BY <1>1, <2>4, <3>1, <3>2 DEF Take, IInv, RouteTypes, p
    <3>3. CASE fut[p] = "cancelled"
      BY <3>1, <3>3 DEF Keys
    <3>4. QED
      BY <1>1, <3>1, <3>2, <3>3 DEF IInv, Futures
  <2>5. QED
    BY <2>2, <2>3, <2>4 DEF Route
<1>2. IInv /\ [Next]_vars => [Kept]_vars
  BY <1>1
<1>3. QED
  BY <1>2, Invariance, PTL DEF Spec, ChatKept

\* When Stop has unwound, no callback awaits a reply any more: cancel_all goes by the
\* FIFOs, and every future that is awaited is in one (claude_code.py, _handle_interrupt).
StopWakes == [][EndStop => \A p \in Prompts : fut'[p] # "pending"]_vars

\* cancel_all reaches every future that is awaited.
THEOREM StopWakesAll == Spec => StopWakes
<1>1. IInv /\ [Next]_vars => [EndStop => \A p \in Prompts : fut'[p] # "pending"]_vars
  BY CancelAllKeeps DEF EndStop
<1>2. QED
  BY <1>1, Invariance, PTL DEF Spec, StopWakes
=============================================================================
