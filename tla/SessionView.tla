----------------------------- MODULE SessionView -----------------------------
(***************************************************************************)
(* The chat page of the web client: how the rows of one session reach the  *)
(* list on the screen, along three paths that know nothing of each other.  *)
(*                                                                         *)
(*   stream  useMessageStream: live frames of the shared socket, and on    *)
(*           every (re)connect a paged catch-up from its watermark, during *)
(*           which live rows are held back (CatchUpBuffer, append tracker) *)
(*   REST    the newest page of the session, on open and on demand, and    *)
(*           older pages on scroll; replies overlap, and may land in       *)
(*           another order than they were read in                          *)
(*   send    an optimistic row, until the POST fails or for ever           *)
(*                                                                         *)
(* All end in MessageStore, which outlives the page.  Rows are numbered in *)
(* the order of created_at; they commit, and are broadcast, a little out   *)
(* of that order.  A row's status is its queue status: Queued, Settled.    *)
(* The socket is WsClient's: of it only up and down are kept.              *)
(***************************************************************************)
EXTENDS Integers, Sequences, FiniteSets, SequencesExt

CONSTANTS
    LastRow,        \* rows are 1 .. LastRow
    Window,         \* WS_FETCH_SAFETY_WINDOW: a row commits at most this late
    FetchLimit,     \* WS_FETCH_PAGE_LIMIT
    PageSize,       \* INITIAL_MESSAGE_PAGE_SIZE, OLDER_MESSAGE_PAGE_SIZE
    UserRows,       \* rows with a queue status, which settles once
    Sends,          \* ids of optimistic rows
    Clocks,         \* what the browser's clock may read, as a row's rank
    MaxWire,        \* bound on frames on their way
    MaxFaults,      \* bound on lost sockets, timeouts and failed POSTs
    MaxLeaves,      \* bound on leaving the page
    MaxFetches      \* bound on REST fetches

Rows == 1 .. LastRow

ASSUME ViewAssumption ==
    /\ {LastRow, FetchLimit, PageSize} \subseteq Nat \ {0}
    /\ {Window, MaxFaults, MaxLeaves, MaxFetches, MaxWire} \subseteq Nat
    /\ UserRows \subseteq Rows /\ Clocks \subseteq Rows
    /\ Sends \subseteq Nat /\ Sends \cap (0 .. LastRow) = {}

Queued == 1
Settled == 2
None == 0

VARIABLES
    db,                         \* each row's status, None until it commits
    up, wire,                   \* the socket; its new-message, message-update frames
    open,                       \* the page is mounted
    tracked, held, fetchComplete, watermark,  \* useMessageStream, CatchUpBuffer
    catchUp,                    \* runCatchUp: what it asked and has collected
    loaded, messages, pending, storeMark, hasOlder,   \* MessageStore's entry
    detail, older,              \* REST replies on their way, newest and older pages
    loading,                    \* isLoadingOlderRef: the older page waited for, or 0
    landed,                     \* the last one read of the newest pages that landed
    send, echo,                 \* the composer's sends, and the row of each, or 0
    gone,                       \* why a row may be missing from the list
    faults, leaves, fetches

linkVars   == <<up, wire>>
streamVars == <<tracked, held, fetchComplete, watermark, catchUp>>
storeVars  == <<loaded, messages, pending, storeMark, hasOlder>>
restVars   == <<detail, older, loading, landed, fetches>>
sendVars   == <<send, echo>>
vars == <<db, linkVars, open, streamVars, storeVars, restVars, sendVars, gone,
          faults, leaves>>

Body == [id : Rows, st : {Queued, Settled}]
Frame == [t : {"new", "update"}, id : Rows, st : {Queued, Settled}]
Entry == [id : Rows \cup Sends, at : Rows, st : {Queued, Settled}]
Idle == [st |-> "idle"]
Cursor == [at : 0 .. LastRow, strict : BOOLEAN]
CatchUps ==
    {Idle} \cup [st : {"asked"}, after : Cursor, got : Seq(Body)]
           \cup [st : {"answered"}, got : Seq(Body), rows : SUBSET Body, more : BOOLEAN]
Reasons == {"cut", "timeout", "hydrate", "overtaken", "left", "old", "late"}
Reply == [n : 1 .. MaxFetches, rows : SUBSET Body]     \* n: in the order of reading

TypeOK ==
    /\ db \in [Rows -> {None, Queued, Settled}]
    /\ up \in BOOLEAN /\ open \in BOOLEAN
    /\ wire \in Seq(Frame)
    /\ tracked \subseteq Rows /\ fetchComplete \in BOOLEAN
    /\ watermark \in 0 .. LastRow /\ storeMark \in 0 .. LastRow
    /\ held \in Seq(Body)
    /\ catchUp \in CatchUps
    /\ loaded \in BOOLEAN /\ hasOlder \in BOOLEAN
    /\ messages \in Seq(Entry)
    /\ pending \in [Rows -> {None, Queued, Settled}]
    /\ detail \subseteq Reply /\ older \subseteq Reply
    /\ loading \in 0 .. MaxFetches /\ landed \in 0 .. MaxFetches
    /\ send \in [Sends -> {"idle", "shown", "failed"}]
    /\ echo \in [Sends -> 0 .. LastRow]
    /\ gone \in [Rows -> SUBSET Reasons]
    /\ faults \in 0 .. MaxFaults /\ leaves \in 0 .. MaxLeaves
    /\ fetches \in 0 .. MaxFetches

Init ==
    /\ db = [r \in Rows |-> None]
    /\ up = FALSE /\ wire = <<>>
    /\ open = TRUE
    /\ tracked = {} /\ held = <<>> /\ fetchComplete = FALSE /\ watermark = 0
    /\ catchUp = Idle
    /\ loaded = FALSE /\ messages = <<>> /\ storeMark = 0 /\ hasOlder = FALSE
    /\ pending = [r \in Rows |-> None]
    /\ detail = {} /\ older = {} /\ loading = 0 /\ landed = 0
    /\ send = [s \in Sends |-> "idle"] /\ echo = [s \in Sends |-> 0]
    /\ gone = [r \in Rows |-> {}]
    /\ faults = 0 /\ leaves = 0 /\ fetches = 0

Streaming == open /\ loaded             \* useMessageStream's `enabled`
Committed == {r \in Rows : db[r] # None}
Ids(list) == {list[i].id : i \in DOMAIN list}
Shown == Ids(messages) \cap Rows
Biggest(S) == CHOOSE x \in S \cup {0} : \A y \in S : y <= x

\* The numbers of a set, the elements of a list at some of its indexes, and a
\* page of rows: each in order.
Ascending(I) ==
    CHOOSE q \in Bijection(1 .. Cardinality(I), I) :
        \A i, j \in DOMAIN q : i < j => q[i] < q[j]
Keep(list, I) == LET at == Ascending(I) IN [k \in DOMAIN at |-> list[at[k]]]
InOrder(S) ==
    LET at == Ascending({b.id : b \in S})
    IN  [k \in DOMAIN at |-> CHOOSE b \in S : b.id = at[k]]

BodyOf(r) == [id |-> r, st |-> db[r]]
Newest(S, n) == {r \in S : Cardinality({q \in S : q > r}) < n}
Oldest(S, n) == {b \in S : Cardinality({c \in S : c.id < b.id}) < n}

\* Rows that are not on their way to the list are noted, and why.
Blame(S, why) ==
    gone' = [r \in Rows |-> IF r \in S THEN gone[r] \cup {why} ELSE gone[r]]

\* Rows whose frame is on its way, and rows behind what a catch-up asks for.
Announced == {r \in Rows : \E i \in DOMAIN wire : wire[i].t = "new" /\ wire[i].id = r}
Passed == {r \in Committed : r + Window < watermark}

\* Rows are put below the first one of the list: what is between them is history
\* that nothing fetches, as older pages start below the new first row.
Uncovered == {r \in Passed' \ (Shown' \cup Announced) :
                 (\E b \in Shown' : b <= r) /\ \A q \in Shown : r < q}
Uncovers == Blame(Uncovered, "old")

-----------------------------------------------------------------------------
(* The relay and the database (external).                                  *)

\* A row commits and is broadcast: no row it may not overtake is missing.  A
\* user's row may be what a POST of this page has stored.
Commit(r) ==
    /\ db[r] = None
    /\ \A q \in Rows : q + Window < r => db[q] # None
    /\ Len(wire) < MaxWire
    /\ db' = [db EXCEPT ![r] = Queued]
    /\ wire' = IF up THEN Append(wire, [t |-> "new", id |-> r, st |-> Queued]) ELSE wire
    /\ \/ UNCHANGED echo
       \/ \E s \in Sends : /\ r \in UserRows /\ send[s] = "shown" /\ echo[s] = 0
                            /\ echo' = [echo EXCEPT ![s] = r]
    /\ UNCHANGED <<up, open, streamVars, storeVars, restVars, send, gone, faults, leaves>>

\* A message is consumed or cancelled.
Settle(r) ==
    /\ r \in UserRows /\ db[r] = Queued /\ Len(wire) < MaxWire
    /\ db' = [db EXCEPT ![r] = Settled]
    /\ wire' = IF up THEN Append(wire, [t |-> "update", id |-> r, st |-> Settled]) ELSE wire
    /\ UNCHANGED <<up, open, streamVars, storeVars, restVars, sendVars, gone, faults, leaves>>

\* fetch_session_messages: from the watermark, or strictly after a cursor.
Fetched(after) ==
    {BodyOf(r) : r \in {q \in Committed :
        IF after.strict THEN q > after.at ELSE q + Window >= after.at}}

RelayAnswers ==
    /\ catchUp # Idle /\ catchUp.st = "asked"
    /\ LET all == Fetched(catchUp.after)
           page == Oldest(all, FetchLimit) IN
       catchUp' = [st |-> "answered", got |-> catchUp.got, rows |-> page,
                   more |-> all # page]
    /\ UNCHANGED <<db, linkVars, open, tracked, held, fetchComplete, watermark,
                   storeVars, restVars, sendVars, gone, faults, leaves>>

-----------------------------------------------------------------------------
(* MessageStore.                                                           *)

AsRow(b) == [id |-> b.id, at |-> b.id, st |-> b.st]
AsRows(page) == LET rows == InOrder(page) IN [i \in DOMAIN rows |-> AsRow(rows[i])]

\* insertionIndex: after the last row that is not newer.
Insert(list, m) ==
    LET at == Biggest({i \in DOMAIN list : list[i].at <= m.at})
    IN SubSeq(list, 1, at) \o <<m>> \o SubSeq(list, at + 1, Len(list))

\* Slip: what is stashed is folded in, whether or not anything is.
MergeUnstashed(list, b) ==
    IF b.id \in Ids(list) THEN list
    ELSE Insert(list, [AsRow(b) EXCEPT !.st = pending[b.id]])

\* handleNewMessage for a row of the stream, then appendOrMerge: a row that is
\* known is left alone, a status that came ahead of its row is folded in.  A row
\* of the stream spells its sender USER, which the test for the echo of a send takes
\* for an agent's, so no optimistic row is taken away.
Merge(list, b) ==
    IF b.id \in Ids(list) THEN list
    ELSE Insert(list, [AsRow(b) EXCEPT !.st = IF pending[b.id] = None THEN @
                                              ELSE pending[b.id]])

\* The rows are merged one after the other.
Merged(bodies) ==
    LET list[i \in 0 .. Len(bodies)] ==
            IF i = 0 THEN messages ELSE Merge(list[i - 1], bodies[i])
    IN  list[Len(bodies)]

\* deliver() of rows the tracker had not seen, in turn.
Deliver(bodies) ==
    /\ watermark' = Biggest({watermark} \cup Ids(bodies))
    /\ messages' = Merged(bodies)
    /\ pending' = [r \in Rows |-> IF r \in Ids(bodies) \ Ids(messages) THEN None
                                  ELSE pending[r]]
    /\ storeMark' = Biggest({storeMark} \cup (Ids(bodies) \ Ids(messages)))

\* patchMetadata
Patch(b) ==
    IF b.id \in Ids(messages)
    THEN /\ messages' = [i \in DOMAIN messages |->
                            IF messages[i].id = b.id THEN [messages[i] EXCEPT !.st = b.st]
                            ELSE messages[i]]
         /\ UNCHANGED pending
    ELSE pending' = [pending EXCEPT ![b.id] = b.st] /\ UNCHANGED messages

\* Older history that a refresh leaves in front of its page.
Before(page) ==
    Keep(messages, {i \in DOMAIN messages :
        /\ messages[i].id \in Rows
        /\ page # {} /\ \A b \in page : messages[i].at < b.id})

\* Slip: pending sends are replaced with the span the page covers.
BehindLive(page) ==
    Keep(messages, {i \in DOMAIN messages :
        page # {} /\ \A b \in page : messages[i].at > b.id})

\* What it leaves behind the page: pending sends, and live rows that are newer.
Behind(page) ==
    Keep(messages, {i \in DOMAIN messages :
        \/ messages[i].id \in Sends
        \/ page # {} /\ \A b \in page : messages[i].at > b.id})

\* hydrateFromDetail: the page replaces the span it covers.  Lost are the rows of
\* the list that it does not keep.
Hydrate(page) ==
    LET list == Before(page) \o AsRows(page) \o Behind(page) IN
    /\ messages' = list
    /\ storeMark' = Biggest(Ids(list) \cap Rows)
    /\ pending' = [r \in Rows |-> IF r \in Ids(list) THEN None ELSE pending[r]]
    /\ hasOlder' = IF Before(page) # <<>> THEN hasOlder ELSE Cardinality(page) >= PageSize
    /\ loaded' = TRUE
Lost == Shown \ Shown'

-----------------------------------------------------------------------------
(* useMessageStream.                                                       *)

After(at, strict) == [at |-> at, strict |-> strict]
Asked(after, got) == [st |-> "asked", after |-> after, got |-> got]

\* The effect runs: a fresh tracker and buffer, the store's watermark, and, on
\* a socket that is up, a catch-up at once.
StartStream(mark) ==
    /\ tracked' = {} /\ held' = <<>> /\ fetchComplete' = FALSE
    /\ watermark' = mark
    /\ catchUp' = IF up THEN Asked(After(mark, FALSE), <<>>) ELSE Idle

\* The connection listener: a new cycle, beginCatchUp, and the first request.
Connects ==
    /\ ~up
    /\ up' = TRUE /\ wire' = <<>>
    /\ IF Streaming
       THEN /\ held' = <<>> /\ fetchComplete' = FALSE
            /\ catchUp' = Asked(After(watermark, FALSE), <<>>)
       ELSE UNCHANGED <<held, fetchComplete, catchUp>>
    /\ UNCHANGED <<db, open, tracked, watermark, storeVars, restVars, sendVars, gone,
                   faults, leaves>>

\* completeFetch: the fetched rows, then the held ones, each id once.
CompleteFetch(rows) ==
    LET all == rows \o held
        bodies == Keep(all, {i \in DOMAIN all :
                      /\ all[i].id \notin tracked
                      /\ \A j \in 1 .. i - 1 : all[j].id # all[i].id}) IN
    /\ tracked' = tracked \cup Ids(bodies)
    /\ held' = <<>> /\ fetchComplete' = TRUE /\ catchUp' = Idle
    /\ Deliver(bodies)
    /\ UNCHANGED <<loaded, hasOlder>>

\* Slip: every page but the last is dropped.
PageArrivesLast ==
    /\ catchUp # Idle /\ catchUp.st = "answered"
    /\ IF catchUp.more
       THEN /\ catchUp' = Asked(After(Biggest({b.id : b \in catchUp.rows}), TRUE), <<>>)
            /\ UNCHANGED <<tracked, held, fetchComplete, watermark, storeVars>>
       ELSE CompleteFetch(InOrder(catchUp.rows))
    /\ UNCHANGED <<db, linkVars, open, restVars, sendVars, faults, leaves>>
    /\ Uncovers

\* A page arrives: the next is asked for, or the catch-up is complete.
PageArrives ==
    /\ catchUp # Idle /\ catchUp.st = "answered"
    /\ LET got == catchUp.got \o InOrder(catchUp.rows) IN
       IF catchUp.more /\ catchUp.rows # {}
       THEN /\ catchUp' = Asked(After(Last(got).id, TRUE), got)
            /\ UNCHANGED <<tracked, held, fetchComplete, watermark, storeVars>>
       ELSE CompleteFetch(got)
    /\ UNCHANGED <<db, linkVars, open, restVars, sendVars, faults, leaves>>
    /\ Uncovers

\* Slip: "return; the next connect re-runs catch-up".
CatchUpFailsQuiet(why) ==
    /\ Blame(Committed \ Shown, why)
    /\ catchUp' = Idle
    /\ UNCHANGED <<tracked, held, fetchComplete, watermark, storeVars>>

\* The request is rejected, by its timeout or with the socket: the cycle is
\* still the same, so what was collected and held is delivered as it is.
CatchUpFails(why) ==
    /\ Blame(Committed \ (Shown \cup Ids(held) \cup Ids(catchUp.got)), why)
    /\ CompleteFetch(catchUp.got)

Fault == faults < MaxFaults /\ faults' = faults + 1

\* The socket goes down: its frames are lost, for good when the watermark has passed
\* their rows by more than the window.
Disconnects ==
    /\ up /\ Fault
    /\ up' = FALSE /\ wire' = <<>>
    /\ IF catchUp # Idle THEN CatchUpFails("cut")
       ELSE /\ Blame((Announced \cap Passed) \ Shown, "late")
            /\ UNCHANGED <<streamVars, storeVars>>
    /\ UNCHANGED <<db, open, restVars, sendVars, leaves>>

\* The 15 s of a fetch on a socket that stays up.
FetchTimesOut ==
    /\ up /\ catchUp # Idle /\ Fault
    /\ CatchUpFails("timeout")
    /\ UNCHANGED <<db, linkVars, open, restVars, sendVars, leaves>>

\* The update listener.
FrameArrives ==
    /\ wire # <<>>
    /\ wire' = Tail(wire)
    /\ LET f == Head(wire)
           b == [id |-> f.id, st |-> f.st] IN
       \/ /\ ~Streaming
          /\ UNCHANGED <<streamVars, storeVars>>
       \/ /\ Streaming /\ f.t = "update"
          /\ Patch(b)
          /\ UNCHANGED <<streamVars, loaded, storeMark, hasOlder>>
       \/ /\ Streaming /\ f.t = "new" /\ ~fetchComplete
          /\ held' = Append(held, b)
          /\ UNCHANGED <<tracked, fetchComplete, watermark, catchUp, storeVars>>
       \/ /\ Streaming /\ f.t = "new" /\ fetchComplete /\ f.id \in tracked
          /\ UNCHANGED <<streamVars, storeVars>>
       \/ /\ Streaming /\ f.t = "new" /\ fetchComplete /\ f.id \notin tracked
          /\ tracked' = tracked \cup {f.id}
          /\ Deliver(<<b>>)
          /\ UNCHANGED <<held, fetchComplete, catchUp, loaded, hasOlder>>
    /\ UNCHANGED <<db, up, open, restVars, sendVars, faults, leaves>>
    /\ Uncovers

-----------------------------------------------------------------------------
(* The page.                                                               *)

\* fetchInstanceDetail: the newest page, as the database has it now.  It is called
\* on mount and from nine other places, whether or not another one is under way.
FetchDetail ==
    /\ open /\ fetches < MaxFetches
    /\ fetches' = fetches + 1
    /\ detail' = detail \cup {[n |-> fetches', rows |->
                      {BodyOf(r) : r \in Newest(Committed, PageSize)}]}
    /\ UNCHANGED <<db, linkVars, open, streamVars, storeVars, older, loading, landed,
                   sendVars, gone, faults, leaves>>

\* Its reply, also when the page has been left or a reply that was read later has
\* landed before it.  The first one enables the stream.
DetailLands(d) ==
    /\ d \in detail
    /\ detail' = detail \ {d}
    /\ landed' = Biggest({landed, d.n})
    /\ Hydrate(d.rows)
    /\ IF open /\ ~loaded THEN StartStream(storeMark') ELSE UNCHANGED streamVars
    /\ UNCHANGED <<db, linkVars, open, older, loading, fetches, sendVars, faults, leaves>>
    /\ IF d.n > landed THEN Blame(Lost, "hydrate")
       ELSE Blame(Lost \cup Uncovered, "overtaken")

\* loadOlderMessages, before the first row of the list ...
LoadOlder ==
    /\ open /\ loading = 0 /\ hasOlder /\ messages # <<>> /\ fetches < MaxFetches
    /\ Head(messages).id \in Rows
    /\ fetches' = fetches + 1 /\ loading' = fetches'
    /\ older' = older \cup {[n |-> fetches', rows |->
                    {BodyOf(r) : r \in Newest({q \in Committed : q < Head(messages).id},
                                              PageSize)}]}
    /\ UNCHANGED <<db, linkVars, open, streamVars, storeVars, detail, landed, sendVars,
                   gone, faults, leaves>>

\* The finally of the load that the page waits for.
OlderEnds(o) ==
    /\ o \in older
    /\ older' = older \ {o}
    /\ loading' = IF loading = o.n THEN 0 ELSE loading

\* ... and prependOlder.
OlderLands(o) ==
    /\ OlderEnds(o)
    /\ LET fresh == {b \in o.rows : b.id \notin Ids(messages)} IN
       /\ messages' = AsRows(fresh) \o messages
       /\ hasOlder' = (fresh # {} /\ Cardinality(o.rows) >= PageSize)
    /\ UNCHANGED <<db, linkVars, open, streamVars, loaded, pending, storeMark, detail,
                   landed, fetches, sendVars, gone, faults, leaves>>

\* A GET of either kind fails: an error is shown, nothing else changes.
ReplyFails ==
    /\ \/ (\E d \in detail : detail' = detail \ {d}) /\ UNCHANGED <<older, loading>>
       \/ (\E o \in older : OlderEnds(o)) /\ UNCHANGED detail
    /\ UNCHANGED <<db, linkVars, open, streamVars, storeVars, landed, fetches, sendVars,
                   gone, faults, leaves>>

\* sendMessage and appendOptimistic: the row carries the browser's clock.
Send(s, at) ==
    /\ open /\ loaded /\ send[s] = "idle"
    /\ send' = [send EXCEPT ![s] = "shown"]
    /\ messages' = Insert(messages, [id |-> s, at |-> at, st |-> Queued])
    /\ UNCHANGED <<db, linkVars, open, streamVars, loaded, pending, storeMark, hasOlder,
                   restVars, echo, gone, faults, leaves>>

\* The POST failed, perhaps after it was stored: removeOptimisticMessage.  When it
\* is answered the row stays.
PostFails(s) ==
    /\ send[s] = "shown" /\ Fault
    /\ send' = [send EXCEPT ![s] = "failed"]
    /\ messages' = Keep(messages, {i \in DOMAIN messages : messages[i].id # s})
    /\ UNCHANGED <<db, linkVars, open, streamVars, loaded, pending, storeMark, hasOlder,
                   restVars, echo, gone, leaves>>

\* The page is left: the effect's cleanup makes a running catch-up stale, and a load
\* under way is not waited for by the next mount.
Leave ==
    /\ open /\ leaves < MaxLeaves
    /\ leaves' = leaves + 1
    /\ open' = FALSE /\ loading' = 0
    /\ catchUp' = Idle
    /\ Blame({r \in Committed \ Shown : r < storeMark}, "left")
    /\ UNCHANGED <<db, linkVars, tracked, held, fetchComplete, watermark, storeVars,
                   detail, older, landed, fetches, sendVars, faults>>

\* And opened again, from the store.
Return ==
    /\ ~open
    /\ open' = TRUE
    /\ IF loaded THEN StartStream(storeMark) ELSE UNCHANGED streamVars
    /\ Blame({r \in Committed \ Shown : r < storeMark}, "left")
    /\ UNCHANGED <<db, linkVars, storeVars, restVars, sendVars, faults, leaves>>

-----------------------------------------------------------------------------
Next ==
    \/ \E r \in Rows : Commit(r) \/ Settle(r)
    \/ RelayAnswers \/ Connects \/ Disconnects \/ FetchTimesOut
    \/ PageArrives \/ FrameArrives
    \/ FetchDetail \/ (\E d \in detail : DetailLands(d))
    \/ LoadOlder \/ (\E o \in older : OlderLands(o)) \/ ReplyFails
    \/ \E s \in Sends : \/ \E at \in Clocks : Send(s, at)
                        \/ PostFails(s)
    \/ Leave \/ Return

Spec == Init /\ [][Next]_vars

-----------------------------------------------------------------------------
(* Properties.                                                             *)

\* Live rows are held back only while a catch-up is under way that will give
\* them out: no order of reconnects, timeouts, leaving and coming back leaves
\* a chat that looks frozen (runCatchUp, CatchUpBuffer).
NeverStuck ==
    Streaming /\ up /\ ~fetchComplete => catchUp # Idle

\* The list holds no row twice, whichever paths brought it.  A send that is not
\* refused stays in it through every refresh until its echo comes, and a refused one
\* is out of it.  The watermark, from which the page starts when it is opened again,
\* is a row of the list that the server stamped.
Echoed(s) == echo[s] # 0 /\ (echo[s] \in Shown \/ gone[echo[s]] # {})
ListSound ==
    /\ \A i, j \in DOMAIN messages : messages[i].id = messages[j].id => i = j
    /\ \A s \in Sends : /\ send[s] = "shown" /\ ~Echoed(s) => s \in Ids(messages)
                        /\ s \in Ids(messages) => send[s] = "shown"
    /\ storeMark \in Shown \cup {0}

\* What reads in the order the rows were written is put out of it only by an
\* older page that lands (in front of everything, also of rows that came since it
\* was asked for and are older), or by a refresh, which leaves pending sends
\* behind its page.
InTimeOrder(list) == \A i, j \in DOMAIN list : i < j => list[i].at <= list[j].at
OrderKept ==
    InTimeOrder(messages) /\ ~InTimeOrder(messages') =>
        \/ \E o \in older : older' = older \ {o}
        \/ /\ \E d \in detail : detail' = detail \ {d}
           /\ \E s \in Sends : send[s] = "shown"

\* MessageStore: hydrateFromDetail, appendOrMerge, prependOlder, appendOptimistic.  Each
\* step leaves a sound list, as the empty one at the start is.
StoreSound == [][ListSound' /\ OrderKept]_vars

Settling == \/ wire # <<>> \/ catchUp # Idle \/ held # <<>> \/ detail # {}
            \/ ~Streaming \/ ~up

\* Once nothing is on its way, the list has every row from its first one on,
\* but for those a failed catch-up, a refresh, one that lands after a later one did,
\* leaving the page, a row older than the list or a frame lost behind the watermark
\* took.
MissesOnly(reasons) ==
    ~Settling => \A r \in Committed : (\E q \in Shown : q <= r) =>
                    r \in Shown \/ gone[r] \cap reasons # {}

NoGap == MissesOnly(Reasons)

\* "If a real disconnect actually happened, the next reconnect's
\* beginCatchUp() wipes this state cleanly anyway" (use-ws-stream.ts).
CutHeals == MissesOnly(Reasons \ {"cut"})

=============================================================================
