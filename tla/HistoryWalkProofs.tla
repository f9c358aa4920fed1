-------------------------- MODULE HistoryWalkProofs --------------------------
(***************************************************************************)
(* That the walk leaves no gap, for every number of tabs, messages and     *)
(* pages.                                                                  *)
(***************************************************************************)
EXTENDS HistoryWalk, FiniteSetTheorems, TLAPS

\* A least element is the minimum.
LEMMA MinIsLeast ==
    ASSUME NEW S \in SUBSET Nat, NEW m \in S, \A k \in S : m <= k
    PROVE  Min(S) = m
<1>1. \A x \in S : (\A k \in S : x <= k) => x = m
  OBVIOUS
<1>2. QED
  BY <1>1 DEF Min

\* The minimum of two numbers is one of them and no more than the first.
LEMMA MinOfTwo ==
    ASSUME NEW a \in Nat, NEW b \in Nat
    PROVE  Min({a, b}) \in 0 .. a
<1>1. CASE a <= b
  <2>1. Min({a, b}) = a
    BY <1>1, MinIsLeast
  <2>2. QED
    BY <2>1
<1>2. CASE ~(a <= b)
  <2>1. Min({a, b}) = b
    BY <1>2, MinIsLeast
  <2>2. QED
    BY <1>2, <2>1
<1>3. QED
  BY <1>1, <1>2

\* A page is a finite set of messages older than its bound.
LEMMA PageType ==
    ASSUME NEW b \in 1 .. Top
    PROVE  /\ Page(b) \subseteq Messages
           /\ Cardinality(Page(b)) \in Nat
<1>1. Page(b) \subseteq Messages
  BY DEF Page
<1>2. IsFiniteSet(Messages)
  BY FS_Interval, WalkBounds DEF Messages
<1>3. QED
  BY <1>1, <1>2, FS_Subset, FS_CardinalityType

\* A page has an oldest message, and reaches from it up to the bound.
LEMMA PageIsSolid ==
    ASSUME NEW b \in 1 .. Top, Page(b) # {}
    PROVE  /\ Min(Page(b)) \in Page(b)
           /\ Min(Page(b)) \in Messages
           /\ Min(Page(b)) < b
           /\ \A m \in Messages : m < b /\ m >= Min(Page(b)) => m \in Page(b)
<1> DEFINE o == IF b > PageSize THEN b - PageSize ELSE 1
<1>1. PICK p \in Messages : p < b /\ b <= p + PageSize
  BY DEF Page
<1>2. /\ o \in Page(b)
      /\ \A k \in Page(b) : o <= k
      /\ \A m \in Messages : m < b /\ m >= o => m \in Page(b)
      /\ o < b
  BY <1>1, WalkBounds DEF Page, Messages, Top
<1>3. Page(b) \in SUBSET Nat
  BY DEF Page, Messages
<1> HIDE DEF o
<1>4. Min(Page(b)) = o
  BY <1>2, <1>3, MinIsLeast
<1>5. o \in Messages
  BY <1>2 DEF Page
<1>6. QED
  BY <1>2, <1>4, <1>5

\* The same of a page of the style sync, whose bound may be included.
LEMMA StylePageIsSolid ==
    ASSUME NEW b \in 1 .. Top, StylePage(b) # {}
    PROVE  /\ StylePage(b) \subseteq Messages
           /\ Cardinality(StylePage(b)) \in Nat
           /\ Min(StylePage(b)) \in Messages
           /\ \A m \in Messages : m < b /\ m >= Min(StylePage(b)) => m \in StylePage(b)
<1>1. CASE Inclusive /\ b # Top
  <2>1. b + 1 \in 1 .. Top /\ StylePage(b) = Page(b + 1)
    BY <1>1, WalkBounds DEF StylePage, Top
  <2>2. \A m \in Messages : m < b => m < b + 1
    BY DEF Messages
  <2>3. QED
    BY <2>1, <2>2, PageIsSolid, PageType
<1>2. CASE ~(Inclusive /\ b # Top)
  <2>1. StylePage(b) = Page(b)
    BY <1>2 DEF StylePage
  <2>2. QED
    BY <2>1, PageIsSolid, PageType
<1>3. QED
  BY <1>1, <1>2

\* What is asked for are calls; no name call is a search.
LEMMA CallTypes ==
    /\ \A b \in 1 .. Top : Search(b) \in Calls
    /\ \A B \in SUBSET Spaces, N \in SUBSET Spaces : NameCalls(B, N) \subseteq Calls
    /\ \A id, mail \in BOOLEAN : FirstSearch(id, mail) \subseteq Calls
    /\ \A b, B, N : Search(b) \notin NameCalls(B, N)
    /\ \A b, id, mail : Search(b) \in FirstSearch(id, mail) => b = Top
<1>1. \A b \in 1 .. Top : Search(b) \in Calls
  BY DEF Search, Calls
<1>2. \A B \in SUBSET Spaces, N \in SUBSET Spaces : NameCalls(B, N) \subseteq Calls
  BY WalkSpaces DEF NameCalls, Missing, Name, Calls
<1>3. Top \in 1 .. Top
  BY WalkBounds DEF Top
<1>4. \A id, mail \in BOOLEAN : FirstSearch(id, mail) \subseteq Calls
  BY <1>1, <1>3 DEF FirstSearch
<1>5. \A b, B, N : Search(b) \notin NameCalls(B, N)
  <2>1. \A b, s : Search(b).call = "search" /\ Name(s).call = "get_group"
    BY DEF Search, Name
  <2>2. QED
    BY <2>1 DEF NameCalls
<1>6. \A b, id, mail : Search(b) \in FirstSearch(id, mail) => b = Top
  <2>1. \A b : Search(b).before = b
    BY DEF Search
  <2>2. QED
    BY <2>1 DEF FirstSearch
<1>7. QED
  BY <1>1, <1>2, <1>4, <1>5, <1>6

\* A step keeps what is asked for stored if it unmarks no row and only asks for
\* more, among D, what is older than all that is stored.
LEMMA AskedStep ==
    ASSUME TypeOK, AskedIsStored,
           \A m \in Messages : rows[m] = "mine" => rows'[m] = "mine",
           NEW D,
           \A t \in Tabs : calls'[t] \subseteq calls[t] \cup D,
           \A b \in 1 .. Top : Search(b) \in D => StoredFrom(b)'
    PROVE  AskedIsStored'
<1>1. SUFFICES ASSUME NEW t \in Tabs, NEW b \in 1 .. Top, Search(b) \in calls'[t]
               PROVE  StoredFrom(b)'
  BY DEF AskedIsStored
<1>2. CASE Search(b) \in D
  BY <1>2
<1>3. CASE Search(b) \in calls[t]
  BY <1>3 DEF AskedIsStored, StoredFrom
<1>4. QED
  BY <1>1, <1>2, <1>3

\* The same of a step that asks for nothing more.
LEMMA AskedLess ==
    ASSUME TypeOK, AskedIsStored,
           \A m \in Messages : rows[m] = "mine" => rows'[m] = "mine",
           \A t \in Tabs : calls'[t] \subseteq calls[t]
    PROVE  AskedIsStored'
<1>1. SUFFICES ASSUME NEW t \in Tabs, NEW b \in 1 .. Top, Search(b) \in calls'[t]
               PROVE  StoredFrom(b)'
  BY DEF AskedIsStored
<1>2. Search(b) \in calls[t]
  BY <1>1
<1>3. QED
  BY <1>2 DEF AskedIsStored, StoredFrom

\* A publication leaves typed calls, all of them answered or published.
LEMMA PublishGives ==
    ASSUME NEW answered \in [Tabs -> SUBSET Calls], NEW C \in SUBSET Calls,
           Publish(answered, C)
    PROVE  /\ calls' \in [Tabs -> SUBSET Calls]
           /\ \A t \in Tabs : calls'[t] \subseteq answered[t] \cup C
BY DEF Publish

\* Answering a call takes it away, and nothing else.
LEMMA WithoutGives ==
    ASSUME calls \in [Tabs -> SUBSET Calls], NEW t, NEW c
    PROVE  /\ Without(t, c) \in [Tabs -> SUBSET Calls]
           /\ \A u \in Tabs : Without(t, c)[u] \subseteq calls[u]
BY DEF Without

\* Nothing is asked for from the top on.
LEMMA TopIsStored == StoredFrom(Top) /\ StoredFrom(Top)'
BY WalkBounds DEF StoredFrom, Top, Messages

\* Marking messages unmarks none.
LEMMA StoredGives ==
    ASSUME TypeOK, NEW P \in SUBSET Messages
    PROVE  /\ Stored(P) \in [Messages -> {"absent", "other", "mine"}]
           /\ \A m \in Messages : rows[m] = "mine" \/ m \in P => Stored(P)[m] = "mine"
           /\ \A N : Blanked(P, N) \subseteq Spaces
BY WalkSpaces DEF Stored, TypeOK, Blanked

\* The rest of the invariant when the walk and the style sync stand still.
LEMMA StandStill ==
    ASSUME TypeOK, FrontierStored, StyleIsStored,
           \A m \in Messages : rows[m] = "mine" => rows'[m] = "mine",
           UNCHANGED <<last, style>>
    PROVE  FrontierStored' /\ StyleIsStored'
<1>1. \A b : StoredFrom(b) => StoredFrom(b)'
  BY DEF StoredFrom
<1>2. FrontierStored'
  BY <1>1 DEF FrontierStored
<1>3. StyleIsStored'
  BY DEF StyleIsStored
<1>4. QED
  BY <1>2, <1>3

\* A page ingested.
LEMMA PageStep ==
    ASSUME WalkInv, NEW t \in Tabs, NEW b \in 1 .. Top, IngestPage(t, b)
    PROVE  WalkInv'
<1> DEFINE P == Page(b)
           W == Without(t, Search(b))
<1>1. TypeOK /\ AskedIsStored /\ FrontierStored /\ StyleIsStored
  BY DEF WalkInv
<1>2. W \in [Tabs -> SUBSET Calls] /\ \A u \in Tabs : W[u] \subseteq calls[u]
  BY <1>1, WithoutGives DEF TypeOK
<1>3. UNCHANGED <<named, unread, selfId, selfMail, live, started, style>>
  BY DEF IngestPage, self
<1>4. StoredFrom(b)
  BY <1>1 DEF IngestPage, AskedIsStored
<1>5. CASE P = {}
  <2>1. calls' = W /\ UNCHANGED <<rows, blank, count, last>>
    BY <1>5 DEF IngestPage, table, walk
  <2>2. TypeOK'
    BY <1>1, <1>2, <1>3, <2>1 DEF TypeOK
  <2>3. AskedIsStored'
    <3>1. \A u \in Tabs : calls'[u] \subseteq calls[u]
      BY <1>2, <2>1
    <3>2. \A m \in Messages : rows[m] = "mine" => rows'[m] = "mine"
      BY <2>1
    <3>3. QED
      BY <1>1, <3>1, <3>2, AskedLess
  <2>4. FrontierStored' /\ StyleIsStored'
    BY <1>1, <1>3, <2>1, StandStill
  <2>5. QED
    BY <2>2, <2>3, <2>4 DEF WalkInv
<1>6. CASE P # {}
  <2> DEFINE o == Min(P)
             new == \E m \in P : rows[m] = "absent"
             names == IF new THEN NameCalls(blank', named) ELSE {}
  <2>1. /\ rows' = Stored(P)
        /\ blank' = Blanked(P, named)
        /\ count' = Min({Cap, count + Cardinality(P)})
        /\ \/ last' = o /\ Publish(W, names \cup {Search(o)})
           \/ last' = last /\ Publish(W, names)
    BY <1>6 DEF IngestPage, NextBound
  <2>2. o \in Messages /\ o \in 1 .. Top /\ \A m \in Messages : m < b /\ m >= o => m \in P
    BY <1>6, PageIsSolid, WalkBounds DEF Messages, Top
  <2>3. P \subseteq Messages /\ Cardinality(P) \in Nat
    BY PageType
  <2> HIDE DEF P, W
  <2>4. /\ rows' \in [Messages -> {"absent", "other", "mine"}]
        /\ \A m \in Messages : rows[m] = "mine" \/ m \in P => rows'[m] = "mine"
        /\ blank' \subseteq Spaces
    BY <1>1, <2>1, <2>3, StoredGives
  <2> HIDE DEF o
  <2>5. StoredFrom(o)'
    BY <1>4, <2>2, <2>4 DEF StoredFrom, Messages
  <2>6. names \subseteq Calls /\ \A c : Search(c) \notin names
    BY <1>1, <2>4, CallTypes DEF TypeOK
  <2> HIDE DEF names
  <2>7. Search(o) \in Calls
    BY <2>2, CallTypes
  <2>8. /\ calls' \in [Tabs -> SUBSET Calls]
        /\ \A u \in Tabs : calls'[u] \subseteq calls[u] \cup (names \cup {Search(o)})
    <3>1. CASE Publish(W, names \cup {Search(o)})
      <4>1. names \cup {Search(o)} \in SUBSET Calls
        BY <2>6, <2>7
      <4>2. QED
        BY <1>2, <3>1, <4>1, PublishGives
    <3>2. CASE Publish(W, names)
      BY <1>2, <2>6, <3>2, PublishGives
    <3>3. QED
      BY <2>1, <3>1, <3>2
  <2>9. count' \in 0 .. Cap
    <3>1. count + Cardinality(P) \in Nat
      BY <1>1, <2>3 DEF TypeOK
    <3>2. QED
      BY <2>1, <3>1, MinOfTwo, WalkBounds
  <2>10. TypeOK'
    BY <1>1, <1>3, <2>1, <2>2, <2>4, <2>8, <2>9 DEF TypeOK, Messages
  <2>11. AskedIsStored'
    <3>1. \A c \in 1 .. Top : Search(c) \in names \cup {Search(o)} => StoredFrom(c)'
      <4>1. \A c : Search(c).before = c
        BY DEF Search
      <4>2. QED
        BY <2>5, <2>6, <4>1
    <3>2. QED
      BY <1>1, <2>4, <2>8, <3>1, AskedStep
  <2>12. StyleIsStored'
    BY <1>1, <1>3, <2>4 DEF StyleIsStored
  <2>13. FrontierStored'
    <3>1. \A c : StoredFrom(c) => StoredFrom(c)'
      BY <2>4 DEF StoredFrom
    <3>2. QED
      BY <1>1, <1>3, <2>1, <2>5, <3>1 DEF FrontierStored
  <2>14. QED
    BY <2>10, <2>11, <2>12, <2>13 DEF WalkInv
<1>7. QED
  BY <1>5, <1>6

\* A step that stores nothing and leaves the walk and the style sync alone, and
\* asks for no more than D.
LEMMA QuietStep ==
    ASSUME WalkInv, TypeOK', UNCHANGED <<rows, last, style>>,
           NEW D,
           \A t \in Tabs : calls'[t] \subseteq calls[t] \cup D,
           \A b \in 1 .. Top : Search(b) \in D => b = Top
    PROVE  WalkInv'
<1>1. TypeOK /\ AskedIsStored /\ FrontierStored /\ StyleIsStored
  BY DEF WalkInv
<1>2. \A b \in 1 .. Top : Search(b) \in D => StoredFrom(b)'
  BY TopIsStored
<1>3. AskedIsStored'
  BY <1>1, <1>2, AskedStep
<1>4. FrontierStored' /\ StyleIsStored'
  BY <1>1, StandStill
<1>5. QED
  BY <1>3, <1>4 DEF WalkInv

\* The same of a step that asks for nothing more.
LEMMA QuietLess ==
    ASSUME WalkInv, TypeOK', UNCHANGED <<rows, last, style>>,
           \A t \in Tabs : calls'[t] \subseteq calls[t]
    PROVE  WalkInv'
<1>1. TypeOK /\ AskedIsStored /\ FrontierStored /\ StyleIsStored
  BY DEF WalkInv
<1>2. AskedIsStored'
  BY <1>1, AskedLess
<1>3. FrontierStored' /\ StyleIsStored'
  BY <1>1, StandStill
<1>4. QED
  BY <1>2, <1>3 DEF WalkInv

\* What a tab does apart from a page.
LEMMA TabStep ==
    ASSUME WalkInv, NEW t \in Tabs,
           \/ Connect(t) \/ SocketLoss(t) \/ Reload(t) \/ Lose(t)
           \/ \E s \in Spaces : IngestName(t, s) \/ IngestFails(t, s)
    PROVE  WalkInv'
<1>1. TypeOK
  BY DEF WalkInv
<1>2. CASE Connect(t)
  <2>1. NameCalls(blank, named) \subseteq Calls /\ \A b : Search(b) \notin NameCalls(blank, named)
    BY <1>1, CallTypes DEF TypeOK
  <2>2. TypeOK'
    BY <1>1, <1>2, <2>1 DEF Connect, TypeOK, table, self, walk
  <2>3. \A u \in Tabs : calls'[u] \subseteq calls[u] \cup NameCalls(blank, named)
    BY <1>1, <1>2 DEF Connect, TypeOK
  <2>4. UNCHANGED <<rows, last, style>>
    BY <1>2 DEF Connect, table, walk
  <2>5. QED
    BY <2>1, <2>2, <2>3, <2>4, QuietStep
<1>3. CASE SocketLoss(t)
  <2>1. TypeOK'
    BY <1>1, <1>3 DEF SocketLoss, TypeOK, table, self, walk
  <2>2. \A u \in Tabs : calls'[u] \subseteq calls[u]
    BY <1>3 DEF SocketLoss
  <2>3. UNCHANGED <<rows, last, style>>
    BY <1>3 DEF SocketLoss, table, walk
  <2>4. QED
    BY <2>1, <2>2, <2>3, QuietLess
<1>4. CASE Reload(t)
  <2>1. TypeOK'
    BY <1>1, <1>4 DEF Reload, TypeOK, table, self, walk
  <2>2. \A u \in Tabs : calls'[u] \subseteq calls[u]
    BY <1>1, <1>4 DEF Reload, TypeOK
  <2>3. UNCHANGED <<rows, last, style>>
    BY <1>4 DEF Reload, table, walk
  <2>4. QED
    BY <2>1, <2>2, <2>3, QuietLess
<1>5. CASE Lose(t)
  <2>1. PICK c \in calls[t] : calls' = Without(t, c)
    BY <1>5 DEF Lose
  <2>2. /\ calls' \in [Tabs -> SUBSET Calls]
        /\ \A u \in Tabs : calls'[u] \subseteq calls[u]
    BY <1>1, <2>1, WithoutGives DEF TypeOK
  <2>3. TypeOK' /\ UNCHANGED <<rows, last, style>>
    BY <1>1, <1>5, <2>2 DEF Lose, TypeOK, table, self, walk
  <2>4. QED
    BY <2>2, <2>3, QuietLess
<1>6. ASSUME NEW s \in Spaces, IngestName(t, s) \/ IngestFails(t, s)
      PROVE  WalkInv'
  <2>1. calls' = Without(t, Name(s))
    BY <1>6 DEF IngestName, IngestFails
  <2>2. /\ calls' \in [Tabs -> SUBSET Calls]
        /\ \A u \in Tabs : calls'[u] \subseteq calls[u]
    BY <1>1, <2>1, WithoutGives DEF TypeOK
  <2>3. blank' \subseteq Spaces /\ named' \subseteq Spaces /\ unread' \subseteq Spaces \ Nameless
    BY <1>1, <1>6 DEF IngestName, IngestFails, Upsert, TypeOK, table
  <2>4. TypeOK' /\ UNCHANGED <<rows, last, style>>
    BY <1>1, <1>6, <2>2, <2>3 DEF IngestName, IngestFails, TypeOK, table, self, walk
  <2>5. QED
    BY <2>2, <2>4, QuietLess
<1>7. QED
  BY <1>2, <1>3, <1>4, <1>5, <1>6

\* Names from other sources, and what the backend learns of the user.
LEMMA LearnStep ==
    ASSUME WalkInv,
           \/ Tick
           \/ \E S \in (SUBSET (Spaces \ Nameless)) \ {{}} : BulkNames(S)
           \/ LearnId
           \/ \E own, directory \in BOOLEAN : LearnMembers(own, directory)
    PROVE  WalkInv'
<1>1. TypeOK
  BY DEF WalkInv
<1>2. CASE Tick \/ \E S \in (SUBSET (Spaces \ Nameless)) \ {{}} : BulkNames(S)
  <2>1. blank' \subseteq Spaces /\ named' \subseteq Spaces /\ unread' \subseteq Spaces \ Nameless
    BY <1>1, <1>2 DEF Tick, BulkNames, Upsert, TypeOK
  <2>2. TypeOK' /\ UNCHANGED <<rows, last, style, calls>>
    BY <1>1, <1>2, <2>1 DEF Tick, BulkNames, TypeOK, self, walk
  <2>3. \A u \in Tabs : calls'[u] \subseteq calls[u]
    BY <2>2
  <2>4. QED
    BY <2>2, <2>3, QuietLess
<1>3. CASE LearnId
  <2> DEFINE C == IF ~(selfId /\ selfMail) /\ count = 0 THEN FirstSearch(TRUE, selfMail) ELSE {}
  <2>1. Publish(calls, C)
    BY <1>3 DEF LearnId
  <2>2. C \in SUBSET Calls /\ \A b \in 1 .. Top : Search(b) \in C => b = Top
    BY <1>1, CallTypes DEF TypeOK
  <2> HIDE DEF C
  <2>3. /\ calls' \in [Tabs -> SUBSET Calls]
        /\ \A u \in Tabs : calls'[u] \subseteq calls[u] \cup C
    BY <1>1, <2>1, <2>2, PublishGives DEF TypeOK
  <2>4. TypeOK' /\ UNCHANGED <<rows, last, style>>
    BY <1>1, <1>3, <2>3 DEF LearnId, TypeOK, table, walk
  <2>5. QED
    BY <2>2, <2>3, <2>4, QuietStep
<1>4. ASSUME NEW own \in BOOLEAN, NEW directory \in BOOLEAN, LearnMembers(own, directory)
      PROVE  WalkInv'
  <2> DEFINE C == IF ~directory /\ count = 0 THEN FirstSearch(selfId, selfMail') ELSE {}
  <2>1. selfMail' \in BOOLEAN
    <3>1. selfMail' = (selfMail \/ own)
      BY <1>4 DEF LearnMembers
    <3>2. QED
      BY <3>1
  <2>2. Publish(calls, C)
    BY <1>4 DEF LearnMembers
  <2>3. C \in SUBSET Calls /\ \A b \in 1 .. Top : Search(b) \in C => b = Top
    BY <1>1, <2>1, CallTypes DEF TypeOK
  <2> HIDE DEF C
  <2>4. /\ calls' \in [Tabs -> SUBSET Calls]
        /\ \A u \in Tabs : calls'[u] \subseteq calls[u] \cup C
    BY <1>1, <2>2, <2>3, PublishGives DEF TypeOK
  <2>5. TypeOK' /\ UNCHANGED <<rows, last, style>>
    BY <1>1, <1>4, <2>1, <2>4 DEF LearnMembers, TypeOK, table, walk
  <2>6. QED
    BY <2>3, <2>4, <2>5, QuietStep
<1>5. QED
  BY <1>2, <1>3, <1>4

\* Another source stores a message.
LEMMA ArriveStep ==
    ASSUME WalkInv, NEW m \in Messages, Arrive(m)
    PROVE  WalkInv'
<1>1. TypeOK /\ AskedIsStored /\ FrontierStored /\ StyleIsStored
  BY DEF WalkInv
<1>2. \A k \in Messages : rows[k] = "mine" => rows'[k] = "mine"
  BY <1>1 DEF Arrive, TypeOK
<1>3. rows' \in [Messages -> {"absent", "other", "mine"}] /\ blank' \subseteq Spaces
  BY <1>1, WalkSpaces DEF Arrive, TypeOK
<1>4. UNCHANGED <<last, style, calls>>
  BY DEF Arrive, walk
<1>5. TypeOK'
  BY <1>1, <1>3 DEF Arrive, TypeOK, self, walk
<1>6. AskedIsStored'
  <2>1. \A b \in 1 .. Top : StoredFrom(b) => StoredFrom(b)'
    BY <1>2 DEF StoredFrom
  <2>2. QED
    BY <1>1, <1>4, <2>1 DEF AskedIsStored
<1>7. FrontierStored' /\ StyleIsStored'
  BY <1>1, <1>2, <1>4, StandStill
<1>8. QED
  BY <1>5, <1>6, <1>7 DEF WalkInv

\* A sync stores rows of its own.
LEMMA SyncStoresStep ==
    ASSUME WalkInv, NEW s \in Spaces, SyncStores(s)
    PROVE  WalkInv'
<1>1. TypeOK
  BY DEF WalkInv
<1>2. UNCHANGED <<rows, last, style, calls>>
  BY DEF SyncStores, walk
<1>3. TypeOK'
  BY <1>1, <1>2 DEF SyncStores, TypeOK, self, walk
<1>4. \A u \in Tabs : calls'[u] \subseteq calls[u]
  BY <1>2
<1>5. QED
  BY <1>2, <1>3, <1>4, QuietLess

\* The backend starts.
LEMMA StartStep ==
    ASSUME WalkInv, Start
    PROVE  WalkInv'
<1> DEFINE C == NameCalls(blank', named') \cup FirstSearch(selfId, selfMail)
<1>1. TypeOK /\ AskedIsStored /\ FrontierStored /\ StyleIsStored
  BY DEF WalkInv
<1>2. blank' \subseteq Spaces /\ named' \subseteq Spaces
  BY <1>1 DEF Start, Upsert, TypeOK
<1>3. C \in SUBSET Calls /\ \A b \in 1 .. Top : Search(b) \in C => b = Top
  BY <1>1, <1>2, CallTypes DEF TypeOK
<1>4. Publish(calls, C)
  BY DEF Start
<1> HIDE DEF C
<1>5. /\ calls' \in [Tabs -> SUBSET Calls]
      /\ \A u \in Tabs : calls'[u] \subseteq calls[u] \cup C
  BY <1>1, <1>3, <1>4, PublishGives DEF TypeOK
<1>6. /\ style' \in Styles
      /\ style'.pc \in {"off", "fetch"}
      /\ style'.pc = "fetch" => style'.before = Top
  <2>1. style' = IF Session THEN [pc |-> "fetch", before |-> Top, total |-> 0] ELSE Off
    BY DEF Start
  <2>2. Top \in 1 .. Top /\ 0 \in 0 .. Cap
    BY WalkBounds DEF Top
  <2>3. QED
    BY <2>1, <2>2 DEF Styles, Off
<1>7. UNCHANGED <<rows, last>>
  BY DEF Start, walk
<1>8. TypeOK'
  BY <1>1, <1>2, <1>5, <1>6 DEF Start, TypeOK, self, walk
<1>9. AskedIsStored'
  <2>1. \A b \in 1 .. Top : Search(b) \in C => StoredFrom(b)'
    BY <1>3, TopIsStored
  <2>2. QED
    BY <1>1, <1>5, <1>7, <2>1, AskedStep
<1>10. FrontierStored'
  BY <1>1, <1>6, <1>7, TopIsStored DEF FrontierStored, StoredFrom
<1>11. StyleIsStored'
  BY <1>6 DEF StyleIsStored
<1>12. QED
  BY <1>8, <1>9, <1>10, <1>11 DEF WalkInv

\* A step of the style sync that stores nothing.
LEMMA StyleQuiet ==
    ASSUME WalkInv, style' \in Styles,
           UNCHANGED <<table, named, unread, self, live, calls, walk, started>>,
           style'.pc = "fetch" => StoredFrom(style'.before),
           StyleIsStored'
    PROVE  WalkInv'
<1>1. TypeOK /\ AskedIsStored /\ FrontierStored
  BY DEF WalkInv
<1>2. TypeOK'
  BY <1>1 DEF TypeOK, table, self, walk
<1>3. AskedIsStored' /\ FrontierStored'
  BY <1>1 DEF AskedIsStored, FrontierStored, StoredFrom, table, walk
<1>4. QED
  BY <1>2, <1>3 DEF WalkInv

\* A page of the style sync fetched, or refused.
LEMMA StyleFetchStep ==
    ASSUME WalkInv, StyleFetch \/ StyleFails
    PROVE  WalkInv'
<1>1. TypeOK /\ FrontierStored /\ style.pc = "fetch"
  BY DEF WalkInv, StyleFetch, StyleFails
<1>2. style.before \in 1 .. Top /\ style.total \in 0 .. Cap /\ StoredFrom(style.before)
  BY <1>1 DEF TypeOK, Styles, Off, FrontierStored
<1>3. UNCHANGED <<table, named, unread, self, live, calls, walk, started>>
  BY DEF StyleFetch, StyleFails
<1>4. CASE style' = Off
  <2>1. style' \in Styles /\ style'.pc = "off"
    BY <1>4 DEF Styles, Off
  <2>2. QED
    BY <1>3, <2>1, StyleQuiet DEF StyleIsStored
<1>5. CASE style' # Off
  <2> DEFINE P == StylePage(style.before)
  <2>1. /\ P # {}
        /\ style' = [pc |-> "store", before |-> style.before, next |-> Min(P), todo |-> P,
                     total |-> Min({Cap, style.total + Cardinality(P)})]
    BY <1>5 DEF StyleFetch, StyleFails
  <2>2. /\ P \subseteq Messages
        /\ Cardinality(P) \in Nat
        /\ Min(P) \in Messages
        /\ \A m \in Messages : m < style.before /\ m >= Min(P) => m \in P
    <3>1. \A b \in 1 .. Top : StylePage(b) # {} =>
              /\ StylePage(b) \subseteq Messages
              /\ Cardinality(StylePage(b)) \in Nat
              /\ Min(StylePage(b)) \in Messages
              /\ \A m \in Messages : m < b /\ m >= Min(StylePage(b)) => m \in StylePage(b)
      BY StylePageIsSolid
    <3>2. QED
      BY <1>2, <2>1, <3>1
  <2> HIDE DEF P
  <2>3. Min({Cap, style.total + Cardinality(P)}) \in 0 .. Cap
    <3>1. \A a, c \in Nat : Min({a, c}) \in 0 .. a
      BY MinOfTwo
    <3>2. style.total + Cardinality(P) \in Nat
      BY <1>2, <2>2
    <3>3. QED
      BY <3>1, <3>2, WalkBounds
  <2>4. style' \in Styles
    BY <1>2, <2>1, <2>2, <2>3 DEF Styles
  <2>5. \A m \in Messages : m >= Min(P) => rows[m] = "mine" \/ m \in P
    BY <1>2, <2>2, WalkBounds DEF StoredFrom, Messages, Top
  <2>6. StyleIsStored'
    BY <1>3, <2>1, <2>5 DEF StyleIsStored, table
  <2>7. style'.pc # "fetch"
    BY <2>1
  <2>8. QED
    BY <1>3, <2>4, <2>6, <2>7, StyleQuiet
<1>6. QED
  BY <1>4, <1>5

\* A name looked up.
LEMMA StyleLooksUpStep ==
    ASSUME WalkInv, StyleLooksUp
    PROVE  WalkInv'
<1>1. TypeOK /\ StyleIsStored /\ style.pc = "store"
  BY DEF WalkInv, StyleLooksUp
<1>2. /\ style.before \in 1 .. Top
      /\ style.next \in Messages
      /\ style.todo \subseteq Messages
      /\ style.total \in 0 .. Cap
  BY <1>1 DEF TypeOK, Styles, Off
<1>3. PICK m \in style.todo :
        style' = [pc |-> "insert", before |-> style.before, next |-> style.next,
                  todo |-> style.todo \ {m}, total |-> style.total,
                  message |-> m, known |-> SpaceOf[m] \in named]
  BY DEF StyleLooksUp
<1>4. style' \in Styles
  <2>1. (SpaceOf[m] \in named) \in BOOLEAN
    OBVIOUS
  <2>2. QED
    BY <1>2, <1>3, <2>1 DEF Styles
<1>5. UNCHANGED <<table, named, unread, self, live, calls, walk, started>>
  BY DEF StyleLooksUp
<1>6. StyleIsStored'
  BY <1>1, <1>3, <1>5 DEF StyleIsStored, table
<1>7. style'.pc # "fetch"
  BY <1>3
<1>8. QED
  BY <1>4, <1>5, <1>6, <1>7, StyleQuiet

\* A message stored.
LEMMA StyleInsertsStep ==
    ASSUME WalkInv, StyleInserts
    PROVE  WalkInv'
<1>1. TypeOK /\ AskedIsStored /\ FrontierStored /\ StyleIsStored /\ style.pc = "insert"
  BY DEF WalkInv, StyleInserts
<1>2. /\ style.before \in 1 .. Top
      /\ style.next \in Messages
      /\ style.todo \subseteq Messages
      /\ style.total \in 0 .. Cap
      /\ style.message \in Messages
  BY <1>1 DEF TypeOK, Styles, Off
<1>3. PICK P \in SUBSET Messages : P = {style.message}
  BY <1>2
<1>4. rows' = Stored(P) /\ \E N : blank' = Blanked(P, N)
  BY <1>3 DEF StyleInserts
<1>5. /\ rows' \in [Messages -> {"absent", "other", "mine"}]
      /\ \A m \in Messages : rows[m] = "mine" \/ m \in P => rows'[m] = "mine"
      /\ blank' \subseteq Spaces
  BY <1>1, <1>4, StoredGives
<1>6. style' = [pc |-> "store", before |-> style.before, next |-> style.next,
                todo |-> style.todo, total |-> style.total]
  BY DEF StyleInserts
<1>7. style' \in Styles
  BY <1>2, <1>6 DEF Styles
<1>8. UNCHANGED <<named, unread, selfId, selfMail, live, calls, count, last, started>>
  BY DEF StyleInserts, self, walk
<1>9. TypeOK'
  BY <1>1, <1>5, <1>7, <1>8 DEF TypeOK
<1>10. \A b : StoredFrom(b) => StoredFrom(b)'
  BY <1>5 DEF StoredFrom
<1>11. AskedIsStored'
  BY <1>1, <1>8, <1>10 DEF AskedIsStored
<1>12. FrontierStored'
  BY <1>1, <1>6, <1>8, <1>10 DEF FrontierStored
<1>13. StyleIsStored'
  BY <1>1, <1>3, <1>5, <1>6 DEF StyleIsStored
<1>14. QED
  BY <1>9, <1>11, <1>12, <1>13 DEF WalkInv

\* A page of the style sync turned.
LEMMA StyleTurnsStep ==
    ASSUME WalkInv, StyleTurns
    PROVE  WalkInv'
<1>1. TypeOK /\ StyleIsStored /\ style.pc = "store" /\ style.todo = {}
  BY DEF WalkInv, StyleTurns
<1>2. style.next \in Messages /\ style.total \in 0 .. Cap
  BY <1>1 DEF TypeOK, Styles, Off
<1>3. style' = Off \/ style' = [pc |-> "fetch", before |-> style.next, total |-> style.total]
  BY DEF StyleTurns
<1>4. style.next \in 1 .. Top
  BY <1>2, WalkBounds DEF Messages, Top
<1>5. style' \in Styles /\ (style'.pc = "off" \/ (style'.pc = "fetch" /\ style'.before = style.next))
  BY <1>2, <1>3, <1>4 DEF Styles, Off
<1>6. StoredFrom(style.next)
  BY <1>1 DEF StyleIsStored, StoredFrom
<1>7. UNCHANGED <<table, named, unread, self, live, calls, walk, started>>
  BY DEF StyleTurns
<1>8. StyleIsStored'
  BY <1>5 DEF StyleIsStored
<1>9. QED
  BY <1>5, <1>6, <1>7, <1>8, StyleQuiet

\* The backend restarts.
LEMMA RestartStep ==
    ASSUME WalkInv, Restart
    PROVE  WalkInv'
<1>1. TypeOK /\ AskedIsStored
  BY DEF WalkInv
<1>2. UNCHANGED <<rows, blank, selfId, selfMail, calls>>
  BY DEF Restart, table, self
<1>3. /\ named' \subseteq Spaces
      /\ unread' = {} /\ live' = {} /\ count' = 0 /\ last' = 0 /\ started' = FALSE
      /\ style' = Off
  BY <1>1 DEF Restart, TypeOK
<1>4. Off \in Styles /\ Off.pc = "off"
  BY DEF Styles, Off
<1>5. TypeOK'
  <2>1. 0 \in 0 .. Cap /\ 0 \in 0 .. MessageCount
    BY WalkBounds
  <2>2. count' \in 0 .. Cap /\ last' \in 0 .. MessageCount
    BY <1>3, <2>1
  <2>3. started' \in BOOLEAN
    BY <1>3
  <2>4. style' \in Styles /\ live' \subseteq Tabs /\ unread' \subseteq Spaces \ Nameless
    BY <1>3, <1>4
  <2>5. QED
    BY <1>1, <1>2, <1>3, <2>2, <2>3, <2>4 DEF TypeOK
<1>6. AskedIsStored'
  BY <1>1, <1>2 DEF AskedIsStored, StoredFrom
<1>7. FrontierStored' /\ StyleIsStored'
  BY <1>3, <1>4 DEF FrontierStored, StyleIsStored
<1>8. QED
  BY <1>5, <1>6, <1>7 DEF WalkInv

\* The invariant holds at first.
LEMMA InitInv == Init => WalkInv
<1> SUFFICES ASSUME Init PROVE WalkInv
  OBVIOUS
<1>1. Off \in Styles /\ Off.pc = "off"
  BY DEF Styles, Off
<1>2. TypeOK
  <2>1. 0 \in 0 .. Cap /\ 0 \in 0 .. MessageCount
    BY WalkBounds
  <2>2. count \in 0 .. Cap /\ last \in 0 .. MessageCount
    BY <2>1 DEF Init
  <2>3. selfId \in BOOLEAN /\ selfMail \in BOOLEAN /\ started \in BOOLEAN
    BY DEF Init
  <2>4. style \in Styles
    BY <1>1 DEF Init
  <2>5. /\ rows \in [Messages -> {"absent", "other", "mine"}]
        /\ blank \subseteq Spaces /\ named \subseteq Spaces /\ unread \subseteq Spaces \ Nameless
        /\ live \subseteq Tabs /\ calls \in [Tabs -> SUBSET Calls]
    BY DEF Init
  <2>6. QED
    BY <2>2, <2>3, <2>4, <2>5 DEF TypeOK
<1>3. QED
  BY <1>1, <1>2 DEF Init, WalkInv, FrontierStored, AskedIsStored, StyleIsStored

\* Every step keeps the invariant.
LEMMA NextInv == WalkInv /\ [Next]_vars => WalkInv'
<1> SUFFICES ASSUME WalkInv, [Next]_vars PROVE WalkInv'
  OBVIOUS
<1>1. ASSUME NEW t \in Tabs, TabNext(t)
      PROVE  WalkInv'
  BY <1>1, TabStep, PageStep DEF TabNext
<1>2. CASE \/ Tick \/ LearnId
           \/ \E S \in (SUBSET (Spaces \ Nameless)) \ {{}} : BulkNames(S)
           \/ \E own, directory \in BOOLEAN : LearnMembers(own, directory)
  BY <1>2, LearnStep
<1>3. ASSUME NEW m \in Messages, Arrive(m)
      PROVE  WalkInv'
  BY <1>3, ArriveStep
<1>4. CASE Start
  BY <1>4, StartStep
<1>5. CASE StyleNext
  BY <1>5, StyleFetchStep, StyleLooksUpStep, StyleInsertsStep, StyleTurnsStep DEF StyleNext
<1>6. CASE Restart
  BY <1>6, RestartStep
<1>7. CASE UNCHANGED vars
  BY <1>7 DEF WalkInv, TypeOK, FrontierStored, AskedIsStored, StyleIsStored, StoredFrom,
              vars, table, self, walk
<1>8. ASSUME NEW s \in Spaces, SyncStores(s)
      PROVE  WalkInv'
  BY <1>8, SyncStoresStep
<1>9. QED
  BY <1>1, <1>2, <1>3, <1>4, <1>5, <1>6, <1>7, <1>8 DEF Next

\* The walk's state has its type.
THEOREM WalkTyped == Spec => []TypeOK
<1>1. WalkInv => TypeOK
  BY DEF WalkInv
<1>2. QED
  BY <1>1, InitInv, NextInv, PTL DEF Spec

\* Neither walk leaves a gap behind its boundary, for any number of tabs that
\* answer and any page size: ingestBatchExecuteSenderSearch, syncStyleCorpus.
THEOREM NoGap == Spec => []FrontierStored
<1>1. WalkInv => FrontierStored
  BY DEF WalkInv
<1>2. QED
  BY <1>1, InitInv, NextInv, PTL DEF Spec
=============================================================================
