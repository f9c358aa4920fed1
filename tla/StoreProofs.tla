---------------------------- MODULE StoreProofs ----------------------------
(***************************************************************************)
(* Proofs about the two modules of the SQLite file itself: what a client   *)
(* reads from it page by page (Pages) and how its schema comes about       *)
(* (Startup).                                                              *)
(*                                                                         *)
(* First Pages: types, that a walk of the messages or of the sent log      *)
(* misses nothing, and what a walk by offset may miss. What a page is for  *)
(* the proofs: some rows, with every row listed above one of them.         *)
(***************************************************************************)
EXTENDS Pages, Startup, FiniteSetTheorems, WellFoundedInduction, TLAPS

\* Nothing has been read before the client opens a listing.
IdleOK ==
    /\ phase = "idle" <=> list = "none"
    /\ phase = "idle" => /\ seen = {} /\ twice = FALSE /\ touched = {}
                         /\ cursorId = 0

\* The rows at or above before_id that were there at the start were delivered,
\* those below were not.
MessagesWalk ==
    list = "messages" =>
        /\ phase # "count" /\ twice = FALSE
        /\ began \subseteq 1 .. rows
        /\ phase = "page" /\ cursorId = 0 => seen = {}
        /\ phase = "page" /\ cursorId > 0 => \A m \in seen : m >= cursorId
        /\ phase = "page" /\ cursorId > 0 =>
              \A m \in began : m >= cursorId => m \in seen
        /\ phase = "done" => began \subseteq seen

\* An untouched draft is still in the log, and was delivered or follows the
\* cursor.
SentWalk ==
    list = "sent" =>
        /\ phase # "count"
        /\ \A m \in began \ touched :
              m \in 1 .. rows /\ draft[m] = "sent" /\ sentAt[m] # 0
        /\ phase = "page" /\ cursorId > 0 =>
              \A m \in began \ touched : m \in seen \/ Keyset(m, cursorAt, cursorId)
        /\ phase = "done" => began \ touched \subseteq seen

-----------------------------------------------------------------------------
(* Facts about pages. *)

\* Rows of a listing are ids.
LEMMA ListedIds ==
    ASSUME TypeOK, NEW l PROVE Listed(l) \subseteq 1 .. rows
<1>1. CASE l = "messages" BY <1>1 DEF Listed
<1>2. CASE l = "sent" BY <1>2 DEF Listed
<1>3. CASE l = "pending" BY <1>3 DEF Listed
<1>4. CASE l = "skipped" BY <1>4 DEF Listed
<1>5. CASE l \notin Lists BY <1>5 DEF Listed, Lists
<1> QED BY <1>1, <1>2, <1>3, <1>4, <1>5 DEF Lists

LEMMA ListedPrimed == Listed(list)' \subseteq 1 .. rows'
BY Zenon DEF Listed

LEMMA StampsAreNat ==
    ASSUME TypeOK PROVE \A m \in 1 .. rows : sentAt[m] \in Nat /\ m \in Nat
<1>1. \A m \in Ids : sentAt[m] \in 0 .. MaxTime BY DEF TypeOK
<1>2. 1 .. rows \subseteq Ids BY BoundsAssumption DEF TypeOK, Ids
<1> QED BY <1>1, <1>2, BoundsAssumption

LEMMA RowsAreIds ==
    ASSUME TypeOK PROVE 1 .. rows \subseteq Ids /\ rows \in Nat
BY BoundsAssumption DEF TypeOK, Ids

\* A set of ids is finite and has at most MaxRows members.
LEMMA IdsFinite ==
    ASSUME TypeOK, NEW S \in SUBSET (1 .. rows)
    PROVE  IsFiniteSet(S) /\ Cardinality(S) \in 0 .. MaxRows
<1>1. rows \in Nat /\ rows <= MaxRows BY BoundsAssumption DEF TypeOK
<1>2. IsFiniteSet(1 .. rows) /\ Cardinality(1 .. rows) = rows
  BY <1>1, FS_Interval
<1>3. IsFiniteSet(S) /\ Cardinality(S) <= Cardinality(1 .. rows)
  BY <1>2, FS_Subset
<1>4. Cardinality(S) \in Nat BY <1>3, FS_CardinalityType
<1> QED BY <1>1, <1>2, <1>3, <1>4, BoundsAssumption

\* A row above one of the first page is on it.
LEMMA PageClosed ==
    ASSUME TypeOK, NEW l, NEW S \in SUBSET (1 .. rows), NEW n \in Nat,
           NEW r \in Page(l, S, 0, n), NEW m \in S,
           \A q \in S : Above(l, q, m) => Above(l, q, r)
    PROVE  m \in Page(l, S, 0, n)
<1> DEFINE A(x) == {q \in S : Above(l, q, x)}
<1>1. A(m) \subseteq A(r) OBVIOUS
<1>2. /\ IsFiniteSet(A(r)) /\ Cardinality(A(r)) \in Nat
      /\ Cardinality(A(m)) \in Nat
  <2>1. A(r) \in SUBSET (1 .. rows) /\ A(m) \in SUBSET (1 .. rows) OBVIOUS
  <2> QED BY <2>1, IdsFinite, BoundsAssumption
<1>3. Cardinality(A(m)) <= Cardinality(A(r)) BY <1>1, <1>2, FS_Subset
<1>4. Cardinality(A(r)) < n BY <1>2 DEF Page, Rank
<1>5. 0 <= Cardinality(A(m)) /\ Cardinality(A(m)) < 0 + n BY <1>2, <1>3, <1>4
<1> QED BY <1>5 DEF Page, Rank

-----------------------------------------------------------------------------
(* Types. *)

LEMMA InitTyped == Init => TypeOK
<1> SUFFICES ASSUME Init PROVE TypeOK OBVIOUS
<1>1. PICK skipped \in SUBSET (1 .. rows), sent \in SUBSET (1 .. rows) :
         /\ skippedAt = [m \in Ids |-> IF m \in skipped THEN 1 ELSE 0]
         /\ draft = [m \in Ids |-> IF m \in sent THEN "sent" ELSE "none"]
         /\ sentAt = [m \in Ids |-> IF m \in sent THEN 1 ELSE 0]
  BY DEF Init
<1>2. {0, 1} \subseteq 0 .. MaxTime /\ 0 \in 0 .. MaxRows /\ 1 \in 1 .. MaxTime
  BY BoundsAssumption
<1>3. skippedAt \in [Ids -> 0 .. MaxTime] /\ sentAt \in [Ids -> 0 .. MaxTime]
  <2>1. \A m \in Ids : /\ (IF m \in skipped THEN 1 ELSE 0) \in 0 .. MaxTime
                      /\ (IF m \in sent THEN 1 ELSE 0) \in 0 .. MaxTime
    BY <1>2, Zenon
  <2> QED BY <1>1, <2>1, Zenon
<1>4. draft \in [Ids -> {"none", "open", "sent"}] BY <1>1
<1>5. /\ now \in 1 .. MaxTime /\ rows \in 0 .. MaxRows
      /\ offset \in 0 .. MaxRows /\ cursorAt \in 0 .. MaxTime
      /\ cursorId \in 0 .. MaxRows /\ got \in 0 .. MaxRows /\ left \in Nat
      /\ changes \in 0 .. MaxChanges
  BY <1>2, BoundsAssumption DEF Init
<1>6. /\ list \in Lists \cup {"none"} /\ phase \in {"idle", "page", "count", "done"}
      /\ limit \in Limits \cup {0} /\ twice \in BOOLEAN
      /\ began \in SUBSET Ids /\ seen \in SUBSET Ids /\ touched \in SUBSET Ids
  BY DEF Init
<1> QED BY <1>3, <1>4, <1>5, <1>6 DEF TypeOK

\* What others do touches no variable of the client but the notes.
LEMMA NotedTyped ==
    ASSUME TypeOK, NEW changed \in SUBSET Ids, Noted(changed),
           Listed(list)' \subseteq 1 .. rows', rows' \in 0 .. MaxRows
    PROVE  /\ list' = list /\ phase' = phase /\ began' = began /\ seen' = seen
           /\ twice' = twice /\ cursorAt' = cursorAt /\ cursorId' = cursorId
           /\ limit' = limit /\ offset' = offset /\ got' = got
           /\ touched' \in SUBSET Ids /\ left' \in Nat
           /\ changes' \in 0 .. MaxChanges
           /\ touched' = IF phase = "idle" THEN touched ELSE touched \cup changed
<1> DEFINE gone == Listed(list) \ Listed(list)'
<1>1. gone \in SUBSET (1 .. rows) BY ListedIds
<1>2. Cardinality(gone) \in Nat BY <1>1, IdsFinite, BoundsAssumption
<1>3. left' = left + Cardinality(gone) BY DEF Noted
<1>4. left' \in Nat BY <1>2, <1>3 DEF TypeOK
<1>5. changes' \in 0 .. MaxChanges BY BoundsAssumption DEF Noted, TypeOK
<1>6. touched' \in SUBSET Ids BY DEF Noted, TypeOK
<1> QED BY <1>4, <1>5, <1>6 DEF Noted, walk

LEMMA TypedStep == TypeOK /\ [Next]_vars => TypeOK'
<1> SUFFICES ASSUME TypeOK, [Next]_vars PROVE TypeOK' OBVIOUS
<1>1. CASE Tick BY <1>1, BoundsAssumption DEF Tick, TypeOK, walk, history
<1>2. ASSUME NEW muted \in BOOLEAN, InsertOrGetMessage(muted) PROVE TypeOK'
  <2>1. rows' \in 0 .. MaxRows
    BY <1>2, BoundsAssumption DEF InsertOrGetMessage, TypeOK
  <2>2. /\ now' \in 1 .. MaxTime /\ draft' \in [Ids -> {"none", "open", "sent"}]
        /\ sentAt' \in [Ids -> 0 .. MaxTime]
    BY <1>2 DEF InsertOrGetMessage, TypeOK
  <2>3. skippedAt' \in [Ids -> 0 .. MaxTime]
    <3>1. now \in 0 .. MaxTime /\ 0 \in 0 .. MaxTime
      BY BoundsAssumption DEF TypeOK
    <3>2. (IF muted THEN now ELSE 0) \in 0 .. MaxTime BY <3>1, Zenon
    <3> QED BY <1>2, <3>2, Zenon DEF InsertOrGetMessage, TypeOK
  <2>4. Listed(list)' \subseteq 1 .. rows'
    BY ListedPrimed
  <2>5. Noted({}) BY <1>2 DEF InsertOrGetMessage
  <2> QED BY <2>1, <2>2, <2>3, <2>4, <2>5, NotedTyped DEF TypeOK
<1>3. ASSUME NEW m \in Ids,
             SkipMessage(m) \/ UnskipMessage(m) \/ UpsertDraft(m) \/ UpdateDraftStatus(m)
      PROVE  TypeOK'
  <2>1. rows' = rows /\ rows' \in 0 .. MaxRows /\ now' \in 1 .. MaxTime
    BY <1>3 DEF SkipMessage, UnskipMessage, UpsertDraft, UpdateDraftStatus, TypeOK
  <2>2. skippedAt' \in [Ids -> 0 .. MaxTime]
    BY <1>3, BoundsAssumption
    DEF SkipMessage, UnskipMessage, UpsertDraft, UpdateDraftStatus, TypeOK
  <2>3. /\ draft' \in [Ids -> {"none", "open", "sent"}]
        /\ sentAt' \in [Ids -> 0 .. MaxTime]
    BY <1>3, BoundsAssumption
    DEF SkipMessage, UnskipMessage, UpsertDraft, UpdateDraftStatus, TypeOK
  <2>4. Listed(list)' \subseteq 1 .. rows' BY ListedPrimed
  <2>5. \E changed \in SUBSET Ids : Noted(changed)
    BY <1>3 DEF SkipMessage, UnskipMessage, UpsertDraft, UpdateDraftStatus
  <2> QED BY <2>1, <2>2, <2>3, <2>4, <2>5, NotedTyped DEF TypeOK
<1>4. ASSUME NEW l \in Lists, NEW n \in Limits, Open(l, n) PROVE TypeOK'
  <2>1. Listed(l) \subseteq Ids BY ListedIds, RowsAreIds
  <2> QED BY <1>4, <2>1 DEF Open, TypeOK, tables, history
<1>5. CASE ListMessagesBySpace
  <2> DEFINE S == {m \in Listed("messages") : cursorId > 0 => m < cursorId}
             P == Page("messages", S, 0, limit)
  <2>1. S \subseteq Ids /\ P \subseteq Ids BY ListedIds, RowsAreIds DEF Page
  <2>2. Deliver(P) BY <1>5 DEF ListMessagesBySpace
  <2>3. cursorId' \in 0 .. MaxRows /\ phase' \in {"page", "done"}
    <3>1. cursorId' = cursorId \/ cursorId' \in S
      BY <1>5 DEF ListMessagesBySpace
    <3>2. phase' \in {"page", "done"} BY <1>5 DEF ListMessagesBySpace
    <3> QED BY <2>1, <3>1, <3>2, BoundsAssumption DEF TypeOK, Ids
  <2>4. UNCHANGED <<offset, cursorAt, got>> BY <1>5 DEF ListMessagesBySpace
  <2> QED BY <2>1, <2>2, <2>3, <2>4 DEF Deliver, TypeOK, tables
<1>6. CASE ListSentLog
  <2> DEFINE S == {m \in Listed("sent") : cursorId > 0 => Keyset(m, cursorAt, cursorId)}
             P == Page("sent", S, 0, limit)
  <2>1. P \subseteq Ids BY ListedIds, RowsAreIds DEF Page
  <2>2. Deliver(P) BY <1>6 DEF ListSentLog
  <2>3. /\ cursorId' \in 0 .. MaxRows /\ cursorAt' \in 0 .. MaxTime
        /\ phase' \in {"page", "done"}
    <3>1. UNCHANGED <<cursorAt, cursorId>>
             \/ \E r \in P : cursorId' = r /\ cursorAt' = sentAt[r]
      BY <1>6 DEF ListSentLog
    <3>2. phase' \in {"page", "done"} BY <1>6 DEF ListSentLog
    <3>3. \A r \in P : sentAt[r] \in 0 .. MaxTime /\ r \in 0 .. MaxRows
      BY <2>1, BoundsAssumption DEF TypeOK, Ids
    <3> HIDE DEF P
    <3> QED BY <3>1, <3>2, <3>3 DEF TypeOK
  <2>4. UNCHANGED <<offset, got>> BY <1>6 DEF ListSentLog
  <2> QED BY <2>1, <2>2, <2>3, <2>4 DEF Deliver, TypeOK, tables
<1>7. CASE ListByOffset
  <2> DEFINE P == Page(list, Listed(list), offset, limit)
  <2>1. P \in SUBSET (1 .. rows) BY ListedIds DEF Page
  <2>2. P \subseteq Ids /\ Cardinality(P) \in 0 .. MaxRows
    BY <2>1, RowsAreIds, IdsFinite
  <2>3. Deliver(P) /\ got' = Cardinality(P) /\ phase' = "count"
    BY <1>7 DEF ListByOffset
  <2>4. UNCHANGED <<offset, cursorAt, cursorId>> BY <1>7 DEF ListByOffset
  <2> QED BY <2>2, <2>3, <2>4 DEF Deliver, TypeOK, tables
<1>8. CASE CountListed
  <2> DEFINE total == Cardinality(Listed(list))
  <2>1. total \in 0 .. MaxRows BY ListedIds, IdsFinite
  <2>2. NextOffset(total) \in 0 .. MaxRows
    BY <2>1, BoundsAssumption DEF NextOffset, TypeOK
  <2>3. offset' = NextOffset(total) /\ phase' \in {"page", "done"}
    BY <1>8 DEF CountListed
  <2> QED BY <1>8, <2>2, <2>3 DEF CountListed, TypeOK, tables, history
<1>9. CASE UNCHANGED vars BY <1>9 DEF vars, tables, walk, history, TypeOK
<1> QED BY <1>1, <1>2, <1>3, <1>4, <1>5, <1>6, <1>7, <1>8, <1>9 DEF Next

\* Every state has its types: offsets, before_id and the cursor among them.
THEOREM PagesTyped == Spec => []TypeOK
BY InitTyped, TypedStep, PTL DEF Spec

-----------------------------------------------------------------------------
(* The walks. *)

WalkInv == TypeOK /\ IdleOK /\ MessagesWalk /\ SentWalk

LEMMA InitWalk == Init => WalkInv
BY InitTyped DEF Init, WalkInv, IdleOK, MessagesWalk, SentWalk

\* A change by somebody else, which spares the drafts outside "changed".
LEMMA OthersKeepWalk ==
    ASSUME WalkInv, TypeOK', NEW changed \in SUBSET Ids, Noted(changed),
           rows' >= rows,
           \A m \in Ids \ changed : draft'[m] = draft[m] /\ sentAt'[m] = sentAt[m]
    PROVE  WalkInv'
<1> USE DEF WalkInv
<1>0. /\ list' = list /\ phase' = phase /\ began' = began /\ seen' = seen
      /\ twice' = twice /\ cursorAt' = cursorAt /\ cursorId' = cursorId
      /\ touched' = IF phase = "idle" THEN touched ELSE touched \cup changed
  <2>1. rows' \in 0 .. MaxRows BY DEF TypeOK
  <2> QED BY <2>1, ListedPrimed, NotedTyped
<1>1. IdleOK' BY <1>0 DEF IdleOK
<1>2. MessagesWalk'
  <2>1. 1 .. rows \subseteq 1 .. rows' BY DEF TypeOK
  <2> QED BY <1>0, <2>1 DEF MessagesWalk
<1>3. SentWalk'
  <2> SUFFICES ASSUME list = "sent" PROVE SentWalk' BY <1>0 DEF SentWalk
  <2>1. phase # "idle" BY DEF IdleOK
  <2>2. touched' = touched \cup changed BY <1>0, <2>1
  <2>3. 1 .. rows \subseteq 1 .. rows' BY DEF TypeOK
  <2>4. \A m \in began \ touched' : /\ m \in began \ touched
                                    /\ draft'[m] = draft[m] /\ sentAt'[m] = sentAt[m]
    BY <2>2, RowsAreIds DEF TypeOK
  <2>5. \A m \in began \ touched' :
           Keyset(m, cursorAt, cursorId) => Keyset(m, cursorAt, cursorId)'
    BY <2>4, <1>0 DEF Keyset, Stored
  <2> QED BY <1>0, <2>2, <2>3, <2>4, <2>5 DEF SentWalk
<1> QED BY <1>1, <1>2, <1>3

LEMMA MessagesPageKeepsWalk == WalkInv /\ TypeOK' /\ ListMessagesBySpace => WalkInv'
<1> SUFFICES ASSUME WalkInv, TypeOK', ListMessagesBySpace PROVE WalkInv' OBVIOUS
<1> USE DEF WalkInv
<1> DEFINE S == {m \in Listed("messages") : cursorId > 0 => m < cursorId}
           P == Page("messages", S, 0, limit)
<1>0. /\ list = "messages" /\ list' = list /\ phase = "page" /\ Deliver(P)
      /\ UNCHANGED <<tables, began, touched>>
  BY DEF ListMessagesBySpace, Deliver
<1>1. S = {m \in 1 .. rows : cursorId > 0 => m < cursorId} /\ P \subseteq S
  BY DEF Listed, Page
<1>2. cursorId \in Nat /\ seen \subseteq Nat /\ began \subseteq Nat /\ rows \in Nat
  <2>1. Ids \subseteq Nat BY BoundsAssumption DEF Ids
  <2> HIDE DEF S, P
  <2> QED BY <2>1, BoundsAssumption DEF TypeOK
<1>3. seen \cap P = {}
  BY <1>0, <1>1, <1>2 DEF MessagesWalk
<1>4. seen' = seen \cup P /\ twice' = FALSE
  BY <1>0, <1>3 DEF Deliver, MessagesWalk
<1>5. \A m \in began : m \in seen \/ m \in S
  BY <1>0, <1>1, <1>2 DEF MessagesWalk
<1>6. MessagesWalk'
  <2>1. CASE P = S /\ phase' = "done"
    <3>1. began' \subseteq seen' BY <1>0, <1>4, <1>5, <2>1
    <3>2. began' \subseteq 1 .. rows' BY <1>0 DEF MessagesWalk, tables
    <3> QED BY <1>4, <2>1, <3>1, <3>2 DEF MessagesWalk
  <2>2. ASSUME NEW r \in S, IsNextBefore(r, S), cursorId' = r, phase' = phase
        PROVE  MessagesWalk'
    <3>1. r \in P /\ \A q \in P \ {r} : q > r
      BY <2>2, <1>0 DEF IsNextBefore, IsLast, Above
    <3>2. \A m \in S : m >= r => m \in P
      <4> SUFFICES ASSUME NEW m \in S, m >= r PROVE m \in P OBVIOUS
      <4>1. \A q \in S : Above("messages", q, m) => Above("messages", q, r)
        BY <1>1, <1>2 DEF Above
      <4>2. limit \in Nat BY BoundsAssumption DEF TypeOK
      <4>3. S \in SUBSET (1 .. rows) BY <1>1
      <4> HIDE DEF S
      <4> QED BY <3>1, <4>1, <4>2, <4>3, PageClosed
    <3>3. r > 0 /\ \A m \in seen' : m >= r
      <4>1. \A m \in P : m >= r BY <3>1, <1>1, <1>2
      <4>2. \A m \in seen : m >= r
        BY <1>0, <1>1, <1>2 DEF MessagesWalk
      <4> QED BY <1>1, <1>2, <1>4, <4>1, <4>2
    <3>4. \A m \in began : m >= r => m \in seen'
      BY <3>2, <1>4, <1>5
    <3>5. began' \subseteq 1 .. rows' BY <1>0 DEF MessagesWalk, tables
    <3> QED BY <1>0, <1>2, <1>4, <2>2, <3>3, <3>4, <3>5 DEF MessagesWalk
  <2>3. \/ P = S /\ phase' = "done"
        \/ \E r \in S : IsNextBefore(r, S) /\ cursorId' = r /\ phase' = phase
    BY DEF ListMessagesBySpace
  <2> QED BY <2>1, <2>2, <2>3
<1>7. phase' \in {"page", "done"} BY <1>0 DEF ListMessagesBySpace
<1>8. IdleOK' BY <1>0, <1>7 DEF IdleOK
<1>9. SentWalk' BY <1>0 DEF SentWalk
<1> QED BY <1>6, <1>8, <1>9

LEMMA SentPageKeepsWalk == WalkInv /\ TypeOK' /\ ListSentLog => WalkInv'
<1> SUFFICES ASSUME WalkInv, TypeOK', ListSentLog PROVE WalkInv' OBVIOUS
<1> USE DEF WalkInv
<1> DEFINE S == {m \in Listed("sent") : cursorId > 0 => Keyset(m, cursorAt, cursorId)}
           P == Page("sent", S, 0, limit)
<1>0. /\ list = "sent" /\ list' = list /\ phase = "page" /\ Deliver(P)
      /\ UNCHANGED <<tables, began, touched>>
  BY DEF ListSentLog, Deliver
<1>1. S \in SUBSET (1 .. rows) /\ P \subseteq S BY ListedIds DEF Page
<1>2. seen' = seen \cup P BY <1>0 DEF Deliver
<1>3. \A m \in began \ touched :
         m \in 1 .. rows /\ draft[m] = "sent" /\ sentAt[m] # 0
  BY <1>0 DEF SentWalk
<1>4. cursorId > 0 \/ cursorId = 0 BY BoundsAssumption DEF TypeOK
<1>5. \A m \in began \ touched : m \in seen \/ m \in S
  BY <1>0, <1>3, <1>4 DEF SentWalk, Listed
<1>6. SentWalk'
  <2>1. CASE P = S /\ phase' = "done"
    <3>1. began \ touched \subseteq seen' BY <1>2, <1>5, <2>1
    <3> QED BY <1>0, <1>3, <2>1, <3>1 DEF SentWalk, tables
  <2>2. ASSUME NEW r \in P, IsLast("sent", P, r), cursorId' = r,
               cursorAt' = sentAt[r], phase' = phase
        PROVE  SentWalk'
    <3>1. \A m \in S : m \in P \/ Keyset(m, sentAt[r], r)
      <4> HIDE DEF P, S
      <4>0. \A q \in S : sentAt[q] \in Nat /\ q \in Nat BY <1>1, StampsAreNat
      <4>1. r \in S BY <1>1
      <4>5. \A m \in S : sentAt[m] <= sentAt[r] => Keyset(m, sentAt[r], r)
        BY <4>1, <4>0 DEF Keyset, TextLess, Stored, Bound
      <4> SUFFICES ASSUME NEW m \in S, sentAt[m] > sentAt[r] PROVE m \in P
        BY <4>1, <4>0, <4>5
      <4>2. \A q \in S : Above("sent", q, m) => Above("sent", q, r)
        BY <4>0, <4>1 DEF Above, Newer
      <4>3. limit \in Nat BY BoundsAssumption DEF TypeOK
      <4>4. S \in SUBSET (1 .. rows) BY <1>1
      <4>6. r \in Page("sent", S, 0, limit) BY DEF P
      <4>7. m \in Page("sent", S, 0, limit) BY <4>2, <4>3, <4>4, <4>6, PageClosed
      <4> QED BY <4>7 DEF P
    <3>2. \A m \in began \ touched : m \in seen' \/ Keyset(m, cursorAt', cursorId')
      BY <1>2, <1>5, <2>2, <3>1
    <3>3. \A m \in began' \ touched' :
             m \in seen' \/ Keyset(m, cursorAt, cursorId)'
      BY <3>2, <1>0 DEF Keyset, Stored, tables
    <3> QED BY <1>0, <1>3, <2>2, <3>3 DEF SentWalk, tables
  <2>3. \/ P = S /\ phase' = "done"
        \/ \E r \in P : /\ IsLast("sent", P, r) /\ cursorId' = r
                        /\ cursorAt' = sentAt[r] /\ phase' = phase
    BY DEF ListSentLog
  <2> QED BY <2>1, <2>2, <2>3
<1>7. phase' \in {"page", "done"} BY <1>0 DEF ListSentLog
<1>8. IdleOK' BY <1>0, <1>7 DEF IdleOK
<1>9. MessagesWalk' BY <1>0 DEF MessagesWalk
<1> QED BY <1>6, <1>8, <1>9

LEMMA WalkStep == WalkInv /\ [Next]_vars => WalkInv'
<1> SUFFICES ASSUME WalkInv, [Next]_vars PROVE WalkInv' OBVIOUS
<1> USE DEF WalkInv
<1>0. TypeOK' BY TypedStep
<1>1. CASE Tick
  <2>1. UNCHANGED <<rows, draft, sentAt, walk, history>> BY <1>1 DEF Tick
  <2> QED BY <1>0, <2>1
      DEF walk, history, IdleOK, MessagesWalk, SentWalk, Keyset, Stored
<1>2. ASSUME NEW muted \in BOOLEAN, InsertOrGetMessage(muted) PROVE WalkInv'
  <2>1. rows' >= rows BY <1>2, BoundsAssumption DEF InsertOrGetMessage, TypeOK
  <2> QED BY <1>0, <1>2, <2>1, OthersKeepWalk DEF InsertOrGetMessage
<1>3. ASSUME NEW m \in Ids, SkipMessage(m) \/ UnskipMessage(m) PROVE WalkInv'
  <2>1. rows' >= rows
    BY <1>3, BoundsAssumption DEF SkipMessage, UnskipMessage, TypeOK
  <2>2. Noted({}) /\ draft' = draft /\ sentAt' = sentAt
    BY <1>3 DEF SkipMessage, UnskipMessage
  <2> QED BY <1>0, <2>1, <2>2, OthersKeepWalk
<1>4. ASSUME NEW m \in Ids, UpsertDraft(m) \/ UpdateDraftStatus(m) PROVE WalkInv'
  <2>1. rows' >= rows
    BY <1>4, BoundsAssumption DEF UpsertDraft, UpdateDraftStatus, TypeOK
  <2>2. Noted({m}) BY <1>4 DEF UpsertDraft, UpdateDraftStatus
  <2>3. \A q \in Ids \ {m} : draft'[q] = draft[q] /\ sentAt'[q] = sentAt[q]
    BY <1>4 DEF UpsertDraft, UpdateDraftStatus, TypeOK
  <2> QED BY <1>0, <2>1, <2>2, <2>3, OthersKeepWalk
<1>5. ASSUME NEW l \in Lists, NEW n \in Limits, Open(l, n) PROVE WalkInv'
  <2>1. /\ phase = "idle" /\ phase' = "page" /\ list' = l
        /\ began' = Listed(l) /\ UNCHANGED <<tables, cursorId, history>>
    BY <1>5 DEF Open
  <2>2. seen = {} /\ twice = FALSE /\ touched = {} /\ cursorId = 0
    BY <2>1 DEF IdleOK
  <2>3. IdleOK' BY <2>1 DEF IdleOK, Lists
  <2>4. MessagesWalk'
    BY <2>1, <2>2 DEF MessagesWalk, Listed, tables, history
  <2>5. SentWalk'
    BY <2>1, <2>2 DEF SentWalk, Listed, tables, history
  <2> QED BY <1>0, <2>3, <2>4, <2>5
<1>6. CASE ListMessagesBySpace BY <1>0, <1>6, MessagesPageKeepsWalk
<1>7. CASE ListSentLog BY <1>0, <1>7, SentPageKeepsWalk
<1>8. CASE ListByOffset
  <2>1. /\ list \in {"pending", "skipped"} /\ list' = list /\ phase = "page"
        /\ phase' = "count"
    BY <1>8 DEF ListByOffset, Deliver
  <2> QED BY <1>0, <2>1 DEF IdleOK, MessagesWalk, SentWalk
<1>9. CASE CountListed
  <2>1. phase = "count" /\ phase' \in {"page", "done"} /\ list' = list
    BY <1>9 DEF CountListed
  <2>2. list \notin {"messages", "sent"} BY <2>1 DEF MessagesWalk, SentWalk
  <2> QED BY <1>0, <2>1, <2>2 DEF IdleOK, MessagesWalk, SentWalk
<1>10. CASE UNCHANGED vars
  BY <1>0, <1>10
  DEF vars, tables, walk, history, IdleOK, MessagesWalk, SentWalk, Keyset, Stored
<1> QED BY <1>1, <1>2, <1>3, <1>4, <1>5, <1>6, <1>7, <1>8, <1>9, <1>10 DEF Next

\* Whatever is ingested while a client follows next_before_id, it is given
\* every message once.
THEOREM MessagesWalkedOnce == Spec => []MessagesOnce
<1>1. WalkInv => MessagesOnce BY DEF WalkInv, MessagesWalk, MessagesOnce
<1> QED BY <1>1, InitWalk, WalkStep, PTL DEF Spec

\* A client that reaches the end of the sent log was given every draft nobody
\* touched, the text comparison of times notwithstanding.
THEOREM SentLogWalked == Spec => []SentLogMissesNothing
<1>1. WalkInv => SentLogMissesNothing
  BY DEF WalkInv, SentWalk, SentLogMissesNothing
<1> QED BY <1>1, InitWalk, WalkStep, PTL DEF Spec

-----------------------------------------------------------------------------
(* The lists with an offset: ranks.                                        *)

OffsetLists == {"pending", "skipped"}

\* The rows of S listed above m.
Over(l, S, m) == {q \in S : Above(l, q, m)}

\* The rows of a listing are in a strict total order.
LEMMA AboveOrders ==
    ASSUME TypeOK, NEW l \in OffsetLists
    PROVE  \A q, r, s \in 1 .. rows :
              /\ ~ Above(l, q, q)
              /\ q # r => Above(l, q, r) \/ Above(l, r, q)
              /\ Above(l, q, r) /\ Above(l, r, s) => Above(l, q, s)
<1>1. \A m \in 1 .. rows : m \in Nat /\ skippedAt[m] \in Nat
  <2>1. \A m \in Ids : skippedAt[m] \in 0 .. MaxTime BY DEF TypeOK
  <2> QED BY <2>1, RowsAreIds, BoundsAssumption
<1>2. CASE l = "pending" BY <1>1, <1>2 DEF Above
<1>3. CASE l = "skipped" BY <1>1, <1>3 DEF Above, Newer
<1> QED BY <1>2, <1>3 DEF OffsetLists

LEMMA RankTyped ==
    ASSUME TypeOK, NEW l \in OffsetLists, NEW S \in SUBSET (1 .. rows), NEW m \in S
    PROVE  /\ Rank(l, S, m) = Cardinality(Over(l, S, m))
           /\ IsFiniteSet(Over(l, S, m)) /\ Rank(l, S, m) \in Nat
           /\ Rank(l, S, m) < Cardinality(S)
<1>1. Rank(l, S, m) = Cardinality(Over(l, S, m)) BY DEF Rank, Over
<1>2. Over(l, S, m) \in SUBSET (S \ {m}) BY AboveOrders DEF Over
<1>3. IsFiniteSet(S) /\ Cardinality(S) \in Nat BY IdsFinite, BoundsAssumption
<1>4. IsFiniteSet(S \ {m}) /\ Cardinality(S \ {m}) = Cardinality(S) - 1
  BY <1>3, FS_RemoveElement
<1>5. /\ IsFiniteSet(Over(l, S, m))
      /\ Cardinality(Over(l, S, m)) <= Cardinality(S) - 1
      /\ Cardinality(Over(l, S, m)) \in Nat
  BY <1>2, <1>4, FS_Subset, FS_CardinalityType
<1> QED BY <1>1, <1>3, <1>5

\* A row listed above another has the smaller rank, ...
LEMMA RanksOrdered ==
    ASSUME TypeOK, NEW l \in OffsetLists, NEW S \in SUBSET (1 .. rows),
           NEW q \in S, NEW m \in S, Above(l, q, m)
    PROVE  Rank(l, S, q) < Rank(l, S, m)
<1>1. Over(l, S, q) \cup {q} \in SUBSET Over(l, S, m) BY AboveOrders DEF Over
<1>2. q \notin Over(l, S, q) BY AboveOrders DEF Over
<1>3. /\ IsFiniteSet(Over(l, S, q)) /\ IsFiniteSet(Over(l, S, m))
      /\ Rank(l, S, q) = Cardinality(Over(l, S, q)) /\ Rank(l, S, q) \in Nat
      /\ Rank(l, S, m) = Cardinality(Over(l, S, m)) /\ Rank(l, S, m) \in Nat
  BY RankTyped
<1>4. Cardinality(Over(l, S, q) \cup {q}) = Cardinality(Over(l, S, q)) + 1
  BY <1>2, <1>3, FS_AddElement
<1>5. Cardinality(Over(l, S, q) \cup {q}) <= Cardinality(Over(l, S, m))
  BY <1>1, <1>3, FS_Subset
<1> QED BY <1>3, <1>4, <1>5

\* ... and no two have the same.
LEMMA RanksDiffer ==
    ASSUME TypeOK, NEW l \in OffsetLists, NEW S \in SUBSET (1 .. rows),
           NEW q \in S, NEW m \in S, Rank(l, S, q) = Rank(l, S, m)
    PROVE  q = m
<1>1. Rank(l, S, q) \in Nat BY RankTyped
<1>2. ~ Above(l, q, m) /\ ~ Above(l, m, q)
  <2>1. ASSUME Above(l, q, m) PROVE FALSE BY <1>1, <2>1, RanksOrdered
  <2>2. ASSUME Above(l, m, q) PROVE FALSE BY <1>1, <2>2, RanksOrdered
  <2> QED BY <2>1, <2>2
<1> QED BY <1>2, AboveOrders

\* A page has at most the rows that were asked for.
LEMMA PageFits ==
    ASSUME TypeOK, NEW l \in OffsetLists, NEW S \in SUBSET (1 .. rows),
           NEW k \in Nat, NEW n \in Nat
    PROVE  Cardinality(Page(l, S, k, n)) <= n
<1> DEFINE P == Page(l, S, k, n)
           R == [r \in P |-> Rank(l, S, r)]
           T == k .. k + n - 1
<1>1. \A r \in P : r \in S /\ Rank(l, S, r) \in T
  <2> TAKE r \in P
  <2>1. r \in S /\ k <= Rank(l, S, r) /\ Rank(l, S, r) < k + n BY DEF Page
  <2>2. Rank(l, S, r) \in Nat BY <2>1, RankTyped
  <2> QED BY <2>1, <2>2
<1>2. IsFiniteSet(T) /\ Cardinality(T) = n
  <2>1. k \in Int /\ k + n - 1 \in Int OBVIOUS
  <2>2. IsFiniteSet(T) /\ Cardinality(T) = IF k > k + n - 1 THEN 0 ELSE (k + n - 1) - k + 1
    BY <2>1, FS_Interval
  <2> QED BY <2>2
<1>3. \A q, r \in P : R[q] = R[r] => q = r
  BY <1>1, RanksDiffer
<1> HIDE DEF P, T
<1>4. R \in Injection(P, T)
  BY <1>1, <1>3 DEF Injection, IsInjective
<1>5. Cardinality(P) <= Cardinality(T) BY <1>2, <1>4, FS_Injection
<1> QED BY <1>2, <1>5 DEF P

\* A listing that is not empty has a first row: its ranks are all there are below
\* its length.
LEMMA FirstRow ==
    ASSUME TypeOK, NEW l \in OffsetLists, NEW S \in SUBSET (1 .. rows), S # {}
    PROVE  \E r \in S : Rank(l, S, r) = 0
<1> DEFINE n == Cardinality(S)
           T == 0 .. n - 1
           R == [r \in S |-> Rank(l, S, r)]
<1>1. IsFiniteSet(S) /\ n \in Nat /\ n # 0
  BY IdsFinite, BoundsAssumption, FS_EmptySet
<1>2. IsFiniteSet(T) /\ Cardinality(T) = n
  <2>1. 0 \in Int /\ n - 1 \in Int BY <1>1
  <2>2. IsFiniteSet(T) /\ Cardinality(T) = IF 0 > n - 1 THEN 0 ELSE (n - 1) - 0 + 1
    BY <2>1, FS_Interval
  <2> HIDE DEF n
  <2> QED BY <1>1, <2>2
<1>3. \A r \in S : Rank(l, S, r) \in T
  <2>1. \A r \in S : Rank(l, S, r) \in Nat /\ Rank(l, S, r) < n BY RankTyped
  <2> HIDE DEF n
  <2> QED BY <1>1, <2>1
<1>4. \A q, r \in S : R[q] = R[r] => q = r
  BY RanksDiffer
<1>5. 0 \in T
  <2> HIDE DEF n
  <2> QED BY <1>1
<1>6. n = Cardinality(S) OBVIOUS
<1> HIDE DEF T, n
<1>7. R \in Injection(S, T)
  BY <1>3, <1>4 DEF Injection, IsInjective
<1>8. R \in Surjection(S, T)
  BY <1>2, <1>6, <1>7, FS_Injection
<1> QED BY <1>5, <1>8 DEF Surjection

-----------------------------------------------------------------------------
(* The lists with an offset: what a walk may have passed over.             *)

\* Rows of a smaller rank were delivered, or are taken for delivered.
Reach == offset + (IF phase = "count" THEN got ELSE 0)

\* The rows of the start that the walk will not come to any more, as things are.
Passed ==
    {m \in began \ seen : m \notin Listed(list) \/ Rank(list, Listed(list), m) < Reach}

\* For every row that left the listing the walk passes over one row at most. An
\* empty first page ends the walk, whatever the total is by then.
OffsetWalk ==
    /\ phase = "idle" => offset = 0
    /\ list \in OffsetLists =>
          /\ limit \in Limits
          /\ phase \in {"page", "count"} => Cardinality(Passed) <= left
          /\ phase = "count" /\ got = 0 /\ offset = 0 => Cardinality(began \ seen) <= left
          /\ phase = "done" => Cardinality(began \ seen) <= left

LEMMA MissedFinite ==
    ASSUME TypeOK, NEW S \in SUBSET Ids
    PROVE  IsFiniteSet(S) /\ Cardinality(S) \in Nat
<1>1. IsFiniteSet(Ids) BY BoundsAssumption, FS_Interval DEF Ids
<1> QED BY <1>1, FS_Subset, FS_CardinalityType

LEMMA PassedTyped ==
    ASSUME TypeOK
    PROVE  /\ Passed \in SUBSET Ids /\ began \ seen \in SUBSET Ids
           /\ Passed \subseteq began \ seen /\ Reach \in Nat
<1>1. Passed \subseteq began \ seen BY DEF Passed
<1>2. began \ seen \in SUBSET Ids BY DEF TypeOK
<1>3. Reach \in Nat
  <2>1. offset \in Nat /\ got \in Nat BY BoundsAssumption DEF TypeOK
  <2> QED BY <2>1 DEF Reach
<1> QED BY <1>1, <1>2, <1>3

\* What is passed over after a step that leaves the walk where it is.
LEMMA PassedAfter ==
    ASSUME NEW l \in OffsetLists, list = l, list' = l,
           UNCHANGED <<phase, offset, got, began, seen>>
    PROVE  Passed' = {m \in began \ seen : m \notin Listed(l)'
                                \/ Cardinality({q \in Listed(l)' : Above(l, q, m)'}) < Reach}
<1>1. Listed(list)' = Listed(l)' BY DEF Listed
<1>2. \A m : Rank(list, Listed(list), m)' = Cardinality({q \in Listed(l)' : Above(l, q, m)'})
  <2>1. \A q, m : Above(list, q, m)' = Above(l, q, m)' BY DEF Above, Newer
  <2> QED BY <1>1, <2>1 DEF Rank
<1>3. Reach' = Reach BY DEF Reach
<1> QED BY <1>1, <1>2, <1>3 DEF Passed

\* Rows that enter a listing put others off, and pass over none.
LEMMA EnteringPassesNone ==
    ASSUME TypeOK, TypeOK', NEW l \in OffsetLists, list = l, list' = l,
           UNCHANGED <<phase, offset, got, began, seen>>,
           Listed(l) \subseteq Listed(l)',
           \A q, m \in Listed(l) : Above(l, q, m)' = Above(l, q, m)
    PROVE  Passed' \subseteq Passed
<1> SUFFICES ASSUME NEW m \in Passed' PROVE m \in Passed OBVIOUS
<1>1. /\ m \in began \ seen
      /\ m \notin Listed(l)' \/ Cardinality({q \in Listed(l)' : Above(l, q, m)'}) < Reach
  BY PassedAfter
<1>2. CASE m \notin Listed(l) BY <1>1, <1>2 DEF Passed
<1>3. CASE m \in Listed(l)
  <2> DEFINE A == Over(l, Listed(l), m)
             B == {q \in Listed(l)' : Above(l, q, m)'}
  <2>1. A \in SUBSET B BY <1>3 DEF Over
  <2>2. Listed(l)' \subseteq Ids
    <3>1. Listed(list)' \subseteq 1 .. rows' /\ Listed(list)' = Listed(l)'
      BY ListedPrimed DEF Listed
    <3>2. 1 .. rows' \subseteq Ids BY BoundsAssumption DEF TypeOK, Ids
    <3> QED BY <3>1, <3>2
  <2>3. IsFiniteSet(B) /\ Cardinality(B) \in Nat
    <3>1. B \in SUBSET Ids BY <2>2
    <3> QED BY <3>1, MissedFinite
  <2>4. Cardinality(A) <= Cardinality(B) BY <2>1, <2>3, FS_Subset
  <2>5. Rank(l, Listed(l), m) = Cardinality(A) /\ Rank(l, Listed(l), m) \in Nat
    BY <1>3, ListedIds, RankTyped
  <2>6. Cardinality(B) < Reach BY <1>1, <1>3
  <2>7. Reach \in Nat BY PassedTyped
  <2> HIDE DEF A, B
  <2>8. Rank(l, Listed(l), m) < Reach BY <2>3, <2>4, <2>5, <2>6, <2>7
  <2> QED BY <1>1, <2>8 DEF Passed
<1> QED BY <1>2, <1>3

\* A row that leaves draws the others up by one: the row at the offset, or itself,
\* is passed over.
LEMMA LeavingPassesOne ==
    ASSUME TypeOK, NEW l \in OffsetLists, list = l, list' = l,
           UNCHANGED <<phase, offset, got, began, seen>>,
           NEW z \in Listed(l), Listed(l)' = Listed(l) \ {z},
           \A q, m \in Listed(l) \ {z} : Above(l, q, m)' = Above(l, q, m)
    PROVE  \E y \in Ids : Passed' \subseteq Passed \cup {y}
<1> DEFINE S == Listed(l)
<1>1. S \in SUBSET (1 .. rows) /\ z \in S /\ z \in Ids /\ S \subseteq Ids
  BY ListedIds, RowsAreIds
<1>2. Passed = {m \in began \ seen : m \notin S \/ Rank(l, S, m) < Reach}
  BY DEF Passed
<1>3. Reach \in Nat BY PassedTyped
\* A row that is passed over now, and was not, was at the reach and below z.
<1>4. ASSUME NEW m \in Passed', m \notin Passed, m # z
      PROVE  m \in S /\ Rank(l, S, m) = Reach /\ Above(l, z, m)
  <2>1. m \in began \ seen
        /\ (m \notin S \ {z} \/ Cardinality({q \in S \ {z} : Above(l, q, m)'}) < Reach)
    BY PassedAfter
  <2>2. m \in S /\ ~ (Rank(l, S, m) < Reach) BY <1>2, <1>4, <2>1
  <2>3. {q \in S \ {z} : Above(l, q, m)'} = Over(l, S, m) \ {z}
    BY <1>4, <2>2 DEF Over
  <2>4. /\ IsFiniteSet(Over(l, S, m)) /\ Rank(l, S, m) \in Nat
        /\ Rank(l, S, m) = Cardinality(Over(l, S, m))
    BY <1>1, <2>2, RankTyped
  <2>5. Cardinality(Over(l, S, m) \ {z}) < Reach BY <1>4, <2>1, <2>2, <2>3
  <2>6. Cardinality(Over(l, S, m) \ {z}) =
          IF z \in Over(l, S, m) THEN Cardinality(Over(l, S, m)) - 1 ELSE Cardinality(Over(l, S, m))
    BY <2>4, FS_RemoveElement
  <2> HIDE DEF S
  <2>7. z \in Over(l, S, m) /\ Rank(l, S, m) = Reach
    BY <1>3, <2>2, <2>4, <2>5, <2>6
  <2> QED BY <2>2, <2>7 DEF Over
<1>5. CASE \A m \in Passed' : m \in Passed \cup {z}
  BY <1>1, <1>5
<1>6. ASSUME NEW y \in Passed', y \notin Passed, y # z
      PROVE  Passed' \subseteq Passed \cup {y}
  <2>1. y \in S /\ Rank(l, S, y) = Reach /\ Above(l, z, y) BY <1>4, <1>6
  <2>2. Rank(l, S, z) < Reach BY <1>1, <2>1, RanksOrdered
  <2>3. ASSUME NEW m \in Passed', m \notin Passed PROVE m = y
    <3>1. CASE m = z
      <4>1. m \in began \ seen BY PassedAfter
      <4> QED BY <1>2, <2>2, <2>3, <3>1, <4>1
    <3>2. CASE m # z
      <4>1. m \in S /\ Rank(l, S, m) = Reach BY <1>4, <2>3, <3>2
      <4> QED BY <1>1, <2>1, <4>1, RanksDiffer
    <3> QED BY <3>1, <3>2
  <2> QED BY <2>3
<1>7. \A y \in Passed' : y \in Ids
  <2>1. Passed' \subseteq began \ seen BY PassedAfter
  <2> QED BY <2>1, PassedTyped
<1> QED BY <1>5, <1>6, <1>7

OffsetInv == TypeOK /\ IdleOK /\ OffsetWalk

\* A change by somebody else to the rows of a listing.
LEMMA OthersKeepOffset ==
    ASSUME OffsetInv, TypeOK', NEW changed \in SUBSET Ids, Noted(changed),
           \A l \in OffsetLists :
              \/ /\ Listed(l) \subseteq Listed(l)'
                 /\ \A q, m \in Listed(l) : Above(l, q, m)' = Above(l, q, m)
              \/ \E z \in Listed(l) :
                    /\ Listed(l)' = Listed(l) \ {z}
                    /\ \A q, m \in Listed(l) \ {z} : Above(l, q, m)' = Above(l, q, m)
    PROVE  OffsetWalk'
<1> USE DEF OffsetInv
<1>0. /\ list' = list /\ phase' = phase /\ began' = began /\ seen' = seen
      /\ limit' = limit /\ offset' = offset /\ got' = got
      /\ left' = left + Cardinality(Listed(list) \ Listed(list)')
  BY DEF Noted, walk
<1> SUFFICES ASSUME NEW l \in OffsetLists, list = l PROVE OffsetWalk'
  BY <1>0 DEF OffsetWalk
<1>1. Listed(list)' = Listed(l)' BY <1>0 DEF Listed
<1>2. left' = left + Cardinality(Listed(l) \ Listed(l)') BY <1>0, <1>1
<1>3. left \in Nat BY DEF TypeOK
<1>4. Cardinality(Passed) \in Nat /\ IsFiniteSet(Passed)
  BY PassedTyped, MissedFinite
<1>5. Cardinality(began \ seen) \in Nat BY PassedTyped, MissedFinite
<1>6. CASE /\ Listed(l) \subseteq Listed(l)'
           /\ \A q, m \in Listed(l) : Above(l, q, m)' = Above(l, q, m)
  <2>1. Passed' \in SUBSET Passed BY <1>0, <1>6, EnteringPassesNone
  <2>2. Cardinality(Passed') <= Cardinality(Passed) /\ Cardinality(Passed') \in Nat
    BY <1>4, <2>1, FS_Subset, FS_CardinalityType
  <2>3. left' = left
    <3>1. Listed(l) \ Listed(l)' = {} BY <1>6
    <3> QED BY <1>2, <1>3, <3>1, FS_EmptySet
  <2> QED BY <1>0, <1>3, <1>4, <2>2, <2>3 DEF OffsetWalk
<1>7. ASSUME NEW z \in Listed(l), Listed(l)' = Listed(l) \ {z},
             \A q, m \in Listed(l) \ {z} : Above(l, q, m)' = Above(l, q, m)
      PROVE  OffsetWalk'
  <2>1. PICK y \in Ids : Passed' \subseteq Passed \cup {y}
    BY <1>0, <1>7, LeavingPassesOne
  <2>2. /\ IsFiniteSet(Passed \cup {y})
        /\ Cardinality(Passed \cup {y}) <= Cardinality(Passed) + 1
        /\ Cardinality(Passed \cup {y}) \in Nat
    <3>1. /\ IsFiniteSet(Passed \cup {y})
          /\ Cardinality(Passed \cup {y}) =
               IF y \in Passed THEN Cardinality(Passed) ELSE Cardinality(Passed) + 1
      BY <1>4, FS_AddElement
    <3> QED BY <1>4, <3>1
  <2>3. Cardinality(Passed') <= Cardinality(Passed) + 1 /\ Cardinality(Passed') \in Nat
    <3>1. /\ IsFiniteSet(Passed') /\ Cardinality(Passed') <= Cardinality(Passed \cup {y})
      BY <2>1, <2>2, FS_Subset
    <3>2. Cardinality(Passed') \in Nat BY <3>1, FS_CardinalityType
    <3> QED BY <1>4, <2>2, <3>1, <3>2
  <2>4. left' = left + 1
    <3>1. Listed(l) \ Listed(l)' = {z} BY <1>7
    <3>2. Cardinality({z}) = 1 BY FS_Singleton
    <3> QED BY <1>2, <3>1, <3>2
  <2> QED BY <1>0, <1>3, <1>4, <1>5, <2>3, <2>4 DEF OffsetWalk
<1> QED BY <1>6, <1>7

\* A statement of somebody else takes one row from a listing or adds to it.
LEMMA ListingsChange ==
    ASSUME TypeOK, NEW l \in OffsetLists,
           \/ \E muted \in BOOLEAN : InsertOrGetMessage(muted)
           \/ \E m \in Ids : \/ SkipMessage(m) \/ UnskipMessage(m)
                             \/ UpsertDraft(m) \/ UpdateDraftStatus(m)
    PROVE  \/ /\ Listed(l) \subseteq Listed(l)'
              /\ \A q, m \in Listed(l) : Above(l, q, m)' = Above(l, q, m)
           \/ \E z \in Listed(l) :
                 /\ Listed(l)' = Listed(l) \ {z}
                 /\ \A q, m \in Listed(l) \ {z} : Above(l, q, m)' = Above(l, q, m)
<1> DEFINE Grows == /\ Listed(l) \subseteq Listed(l)'
                    /\ \A q, m \in Listed(l) : Above(l, q, m)' = Above(l, q, m)
           Loses(z) == /\ Listed(l)' = Listed(l) \ {z}
                       /\ \A q, m \in Listed(l) \ {z} : Above(l, q, m)' = Above(l, q, m)
<1>1. 1 .. rows \subseteq Ids /\ rows \in Nat BY RowsAreIds
<1>2. l = "pending" => /\ Listed(l) = {m \in 1 .. rows : draft[m] = "none" /\ skippedAt[m] = 0}
                       /\ Listed(l)' = {m \in 1 .. rows' : draft'[m] = "none" /\ skippedAt'[m] = 0}
                       /\ \A q, m : Above(l, q, m)' = Above(l, q, m)
  BY DEF Listed, Above
<1>3. l = "skipped" => /\ Listed(l) = {m \in 1 .. rows : skippedAt[m] # 0}
                       /\ Listed(l)' = {m \in 1 .. rows' : skippedAt'[m] # 0}
                       /\ \A q, m : Above(l, q, m) = Newer(skippedAt, q, m)
                       /\ \A q, m : Above(l, q, m)' = Newer(skippedAt', q, m)
  BY DEF Listed, Above
\* Rows whose skipped_at stays keep their order.
<1>4. ASSUME NEW S \in SUBSET Ids, \A m \in S : skippedAt'[m] = skippedAt[m]
      PROVE  \A q, m \in S : Above(l, q, m)' = Above(l, q, m)
  <2>1. l = "pending" \/ l = "skipped" BY DEF OffsetLists
  <2> QED BY <1>2, <1>3, <1>4, <2>1 DEF Newer
<1>5. ASSUME NEW muted \in BOOLEAN, InsertOrGetMessage(muted) PROVE Grows
  <2>1. /\ rows' = rows + 1 /\ draft' = draft
        /\ \A m \in 1 .. rows : skippedAt'[m] = skippedAt[m]
    BY <1>1, <1>5 DEF InsertOrGetMessage, TypeOK
  <2>2. 1 .. rows \subseteq 1 .. rows' BY <1>1, <2>1
  <2>3. Listed(l) \subseteq Listed(l)' BY <1>2, <1>3, <2>1, <2>2 DEF OffsetLists
  <2> QED BY <1>1, <1>4, <2>1, <2>3, ListedIds
<1>6. ASSUME NEW z \in Ids, SkipMessage(z) PROVE Grows \/ \E y \in Listed(l) : Loses(y)
  <2>1. /\ rows' = rows /\ draft' = draft /\ skippedAt[z] = 0 /\ skippedAt'[z] # 0
        /\ \A m \in Ids \ {z} : skippedAt'[m] = skippedAt[m]
    BY <1>6, BoundsAssumption DEF SkipMessage, TypeOK
  <2>2. CASE z \in Listed(l)
    <3>1. Listed(l)' = Listed(l) \ {z} BY <1>1, <1>2, <1>3, <2>1, <2>2 DEF OffsetLists
    <3>2. Listed(l) \ {z} \subseteq Ids \ {z} BY <1>1, ListedIds
    <3>3. Loses(z) BY <1>4, <2>1, <3>1, <3>2
    <3> QED BY <2>2, <3>3
  <2>3. CASE z \notin Listed(l)
    <3>1. Listed(l) \subseteq Listed(l)' BY <1>1, <1>2, <1>3, <2>1, <2>3 DEF OffsetLists
    <3>2. Listed(l) \subseteq Ids \ {z} BY <1>1, <2>3, ListedIds
    <3> QED BY <1>4, <2>1, <3>1, <3>2
  <2> QED BY <2>2, <2>3
<1>7. ASSUME NEW z \in Ids, UnskipMessage(z) PROVE Grows \/ \E y \in Listed(l) : Loses(y)
  <2>1. /\ rows' = rows /\ draft' = draft /\ skippedAt[z] # 0 /\ skippedAt'[z] = 0
        /\ \A m \in Ids \ {z} : skippedAt'[m] = skippedAt[m]
    BY <1>7, BoundsAssumption DEF UnskipMessage, TypeOK
  <2>2. CASE z \in Listed(l)
    <3>1. Listed(l)' = Listed(l) \ {z} BY <1>1, <1>2, <1>3, <2>1, <2>2 DEF OffsetLists
    <3>2. Listed(l) \ {z} \subseteq Ids \ {z} BY <1>1, ListedIds
    <3>3. Loses(z) BY <1>4, <2>1, <3>1, <3>2
    <3> QED BY <2>2, <3>3
  <2>3. CASE z \notin Listed(l)
    <3>1. Listed(l) \subseteq Listed(l)' BY <1>1, <1>2, <1>3, <2>1, <2>3 DEF OffsetLists
    <3>2. Listed(l) \subseteq Ids \ {z} BY <1>1, <2>3, ListedIds
    <3> QED BY <1>4, <2>1, <3>1, <3>2
  <2> QED BY <2>2, <2>3
<1>8. ASSUME NEW z \in Ids, UpsertDraft(z) \/ UpdateDraftStatus(z)
      PROVE  Grows \/ \E y \in Listed(l) : Loses(y)
  <2>1. /\ rows' = rows /\ skippedAt' = skippedAt /\ draft'[z] # "none"
        /\ \A m \in Ids \ {z} : draft'[m] = draft[m]
    BY <1>8 DEF UpsertDraft, UpdateDraftStatus, TypeOK
  <2>2. \A S \in SUBSET Ids : \A q, m \in S : Above(l, q, m)' = Above(l, q, m)
    BY <1>4, <2>1
  <2>3. CASE l = "pending" /\ z \in Listed(l)
    <3>1. Listed(l)' = Listed(l) \ {z} BY <1>1, <1>2, <2>1, <2>3
    <3>2. Listed(l) \ {z} \in SUBSET Ids BY <1>1, ListedIds
    <3>3. Loses(z) BY <2>2, <3>1, <3>2
    <3> QED BY <2>3, <3>3
  <2>4. CASE ~ (l = "pending" /\ z \in Listed(l))
    <3>1. Listed(l) \subseteq Listed(l)' BY <1>1, <1>2, <1>3, <2>1, <2>4 DEF OffsetLists
    <3>2. Listed(l) \in SUBSET Ids BY <1>1, ListedIds
    <3> QED BY <2>2, <3>1, <3>2
  <2> QED BY <2>3, <2>4
<1> QED BY <1>5, <1>6, <1>7, <1>8

\* A page: what comes within reach is delivered with it. A first page without a
\* row means an empty listing, and that everything missed is passed over.
LEMMA OffsetPageKeeps == OffsetInv /\ ListByOffset => OffsetWalk'
<1> SUFFICES ASSUME OffsetInv, ListByOffset PROVE OffsetWalk' OBVIOUS
<1> USE DEF OffsetInv
<1>1. PICK l \in OffsetLists : list = l BY DEF ListByOffset, OffsetLists
<1> DEFINE S == Listed(l)
           P == Page(l, S, offset, limit)
<1>2. /\ phase = "page" /\ phase' = "count" /\ list' = l /\ limit' = limit /\ offset' = offset
      /\ seen' = seen \cup P /\ got' = Cardinality(P)
      /\ UNCHANGED <<tables, began, left>>
  BY <1>1 DEF ListByOffset, Deliver
<1>3. /\ S \in SUBSET (1 .. rows) /\ limit \in Limits /\ limit \in Nat \ {0}
      /\ offset \in Nat /\ left \in Nat
  BY <1>1, ListedIds, BoundsAssumption DEF OffsetWalk, TypeOK
<1>4. P \in SUBSET (1 .. rows) /\ Cardinality(P) \in Nat /\ Cardinality(P) <= limit
  <2>1. P \in SUBSET (1 .. rows) BY <1>3 DEF Page
  <2>2. Cardinality(P) \in Nat BY <2>1, IdsFinite, BoundsAssumption
  <2>3. Cardinality(P) <= limit BY <1>3, PageFits
  <2> QED BY <2>1, <2>2, <2>3
<1>5. Cardinality(Passed) <= left /\ IsFiniteSet(Passed) /\ Cardinality(Passed) \in Nat
  BY <1>1, <1>2, PassedTyped, MissedFinite DEF OffsetWalk
<1>6. Passed = {m \in began \ seen : m \notin S \/ Rank(l, S, m) < offset}
  <2>1. Reach = offset BY <1>2, <1>3 DEF Reach
  <2> QED BY <1>1, <2>1 DEF Passed
<1>7. \A m \in S : Rank(l, S, m) \in Nat BY <1>3, RankTyped
<1>8. Passed' = {m \in began \ (seen \cup P) : m \notin S \/ Rank(l, S, m) < offset + got'}
  <2>1. Listed(list)' = S BY <1>1, <1>2 DEF Listed, tables
  <2>2. \A m : Rank(list, Listed(list), m)' = Rank(l, S, m)
    <3>1. \A q, m : Above(list, q, m)' = Above(l, q, m) BY <1>2 DEF Above, Newer, tables
    <3> QED BY <2>1, <3>1 DEF Rank
  <2>3. Reach' = offset + got' BY <1>2 DEF Reach
  <2> HIDE DEF P, S
  <2> QED BY <1>2, <2>1, <2>2, <2>3 DEF Passed
<1>9. Passed' \in SUBSET Passed
  <2>1. ASSUME NEW m \in Passed' PROVE m \in Passed
    <3>1. m \in began \ seen /\ m \notin P /\ (m \notin S \/ Rank(l, S, m) < offset + got')
      BY <1>8
    <3>2. CASE m \notin S BY <1>6, <3>1, <3>2
    <3>3. CASE m \in S
      <4>1. Rank(l, S, m) < offset + limit
        <5> HIDE DEF P, S
        <5> QED BY <1>2, <1>3, <1>4, <1>7, <3>1, <3>3
      <4>2. ~ (offset <= Rank(l, S, m)) BY <3>1, <3>3, <4>1 DEF Page
      <4>3. Rank(l, S, m) < offset
        <5> HIDE DEF P, S
        <5> QED BY <1>3, <1>7, <3>3, <4>2
      <4> QED BY <1>6, <3>1, <4>3
    <3> QED BY <3>2, <3>3
  <2> QED BY <2>1
<1>10. Cardinality(Passed') <= left'
  <2>1. Cardinality(Passed') <= Cardinality(Passed) /\ Cardinality(Passed') \in Nat
    BY <1>5, <1>9, FS_Subset, FS_CardinalityType
  <2> QED BY <1>2, <1>3, <1>5, <2>1
<1>11. ASSUME got' = 0, offset = 0 PROVE Cardinality(began' \ seen') <= left'
  <2>1. P = {}
    <3>1. IsFiniteSet(P) BY <1>4, IdsFinite
    <3> HIDE DEF P
    <3> QED BY <1>2, <1>11, <3>1, FS_EmptySet
  <2>2. S = {}
    <3> SUFFICES ASSUME S # {} PROVE FALSE OBVIOUS
    <3>1. PICK r \in S : Rank(l, S, r) = 0 BY <1>3, FirstRow
    <3>2. 0 <= 0 /\ 0 < 0 + limit
      <4> HIDE DEF S, P
      <4> QED BY <1>3
    <3>3. r \in P BY <1>11, <3>1, <3>2 DEF Page
    <3> QED BY <2>1, <3>3
  <2>3. began' \ seen' = Passed
    <3> HIDE DEF P, S
    <3> QED BY <1>2, <1>6, <2>1, <2>2
  <2> QED BY <1>2, <1>5, <2>3
<1> HIDE DEF P, S
<1> QED BY <1>1, <1>2, <1>3, <1>10, <1>11 DEF OffsetWalk

\* The total: a walk that ends had every row there is within its reach.
LEMMA OffsetCountKeeps == OffsetInv /\ CountListed => OffsetWalk'
<1> SUFFICES ASSUME OffsetInv, CountListed PROVE OffsetWalk' OBVIOUS
<1> USE DEF OffsetInv
<1> DEFINE S == Listed(list)
           total == Cardinality(S)
<1>1. /\ phase = "count" /\ offset' = NextOffset(total)
      /\ phase' = IF offset' = 0 THEN "done" ELSE "page"
      /\ UNCHANGED <<tables, list, limit, got, began, seen, left>>
  BY DEF CountListed, history
<1> SUFFICES ASSUME NEW l \in OffsetLists, list = l PROVE OffsetWalk'
  BY <1>1 DEF OffsetWalk
<1>2. S \in SUBSET (1 .. rows) BY ListedIds
<1>3. total \in Nat /\ offset \in Nat /\ got \in Nat /\ left \in Nat
  BY <1>2, IdsFinite, BoundsAssumption DEF TypeOK
<1>4. /\ Cardinality(Passed) <= left /\ limit \in Limits
      /\ got = 0 /\ offset = 0 => Cardinality(began \ seen) <= left
  BY <1>1 DEF OffsetWalk
<1>5. Reach = offset + got BY <1>1 DEF Reach
<1>6. CASE offset + got >= total
  <2>1. offset' = 0 /\ phase' = "done" BY <1>1, <1>6 DEF NextOffset
  <2>2. ASSUME NEW m \in began \ seen PROVE m \in Passed
    <3>1. CASE m \notin S BY <3>1, <2>2 DEF Passed
    <3>2. CASE m \in S
      <4>1. Rank(list, S, m) \in Nat /\ Rank(list, S, m) < total
        BY <1>2, <3>2, RankTyped
      <4> HIDE DEF total
      <4>2. Rank(list, S, m) < Reach BY <1>3, <1>5, <1>6, <4>1
      <4> QED BY <2>2, <4>2 DEF Passed
    <3> QED BY <3>1, <3>2
  <2>3. Passed = began \ seen BY <2>2, PassedTyped
  <2>4. Cardinality(began' \ seen') <= left' BY <1>1, <1>4, <2>3
  <2> QED BY <1>1, <1>4, <2>1, <2>4 DEF OffsetWalk
<1>7. CASE ~ (offset + got >= total)
  <2>1. offset' = offset + got BY <1>1, <1>7 DEF NextOffset
  <2>2. CASE offset' = 0
    <3>1. offset = 0 /\ got = 0 BY <1>3, <2>1, <2>2
    <3>2. Cardinality(began' \ seen') <= left' /\ phase' = "done"
      BY <1>1, <1>4, <2>2, <3>1
    <3> QED BY <1>1, <1>4, <2>2, <3>2 DEF OffsetWalk
  <2>3. CASE offset' # 0
    <3>1. phase' = "page" BY <1>1, <2>3
    <3>2. Reach' = Reach BY <1>3, <1>5, <2>1, <3>1 DEF Reach
    <3>3. Listed(list)' = S BY <1>1 DEF Listed, tables
    <3>4. \A m : Rank(list, Listed(list), m)' = Rank(list, S, m)
      <4>1. \A q, m : Above(list, q, m)' = Above(list, q, m) BY <1>1 DEF Above, Newer, tables
      <4> QED BY <3>3, <4>1 DEF Rank
    <3>5. Passed' = Passed
      <4> HIDE DEF total
      <4> QED BY <1>1, <3>2, <3>3, <3>4 DEF Passed
    <3>6. Cardinality(Passed') <= left' BY <1>1, <1>4, <3>5
    <3> QED BY <1>1, <1>4, <3>1, <3>6 DEF OffsetWalk
  <2> QED BY <2>2, <2>3
<1> QED BY <1>6, <1>7

\* A step that touches neither the tables nor the walk.
LEMMA StillOffset ==
    ASSUME OffsetWalk, UNCHANGED <<rows, skippedAt, draft, sentAt, walk, history>>
    PROVE  OffsetWalk'
<1>1. UNCHANGED <<list, phase, limit, offset, got, began, seen, left>>
  BY DEF walk, history
<1>2. Listed(list)' = Listed(list) BY <1>1 DEF Listed
<1>3. \A m : Rank(list, Listed(list), m)' = Rank(list, Listed(list), m)
  <2>1. \A q, m : Above(list, q, m)' = Above(list, q, m) BY <1>1 DEF Above, Newer
  <2> QED BY <1>2, <2>1 DEF Rank
<1>4. Passed' = Passed
  <2>1. Reach' = Reach BY <1>1 DEF Reach
  <2> QED BY <1>1, <1>2, <1>3, <2>1 DEF Passed
<1> QED BY <1>1, <1>4 DEF OffsetWalk

LEMMA OffsetStep == OffsetInv /\ WalkInv /\ [Next]_vars => OffsetInv'
<1> SUFFICES ASSUME OffsetInv, WalkInv, [Next]_vars PROVE OffsetInv' OBVIOUS
<1>0. TypeOK' /\ IdleOK' BY TypedStep, WalkStep DEF WalkInv
<1> SUFFICES OffsetWalk' BY <1>0 DEF OffsetInv
<1>1. CASE Tick
  <2>1. UNCHANGED <<rows, skippedAt, draft, sentAt, walk, history>> BY <1>1 DEF Tick
  <2> QED BY <2>1, StillOffset DEF OffsetInv
<1>2. CASE UNCHANGED vars
  <2>1. UNCHANGED <<rows, skippedAt, draft, sentAt, walk, history>>
    BY <1>2 DEF vars, tables
  <2> QED BY <2>1, StillOffset DEF OffsetInv
<1>3. ASSUME \/ \E muted \in BOOLEAN : InsertOrGetMessage(muted)
             \/ \E m \in Ids : \/ SkipMessage(m) \/ UnskipMessage(m)
                               \/ UpsertDraft(m) \/ UpdateDraftStatus(m)
      PROVE  OffsetWalk'
  <2>1. PICK changed \in SUBSET Ids : Noted(changed)
    BY <1>3 DEF InsertOrGetMessage, SkipMessage, UnskipMessage, UpsertDraft, UpdateDraftStatus
  <2>2. \A l \in OffsetLists :
           \/ /\ Listed(l) \subseteq Listed(l)'
              /\ \A q, m \in Listed(l) : Above(l, q, m)' = Above(l, q, m)
           \/ \E z \in Listed(l) :
                 /\ Listed(l)' = Listed(l) \ {z}
                 /\ \A q, m \in Listed(l) \ {z} : Above(l, q, m)' = Above(l, q, m)
    BY <1>3, ListingsChange DEF OffsetInv
  <2> QED BY <1>0, <2>1, <2>2, OthersKeepOffset
<1>4. ASSUME NEW l \in Lists, NEW n \in Limits, Open(l, n) PROVE OffsetWalk'
  <2>1. /\ phase = "idle" /\ phase' = "page" /\ list' = l /\ limit' = n
        /\ began' = Listed(l) /\ UNCHANGED <<tables, offset, got, history>>
    BY <1>4 DEF Open
  <2>2. offset = 0 /\ seen = {} BY <2>1 DEF OffsetInv, OffsetWalk, IdleOK
  <2>3. ASSUME l \in OffsetLists PROVE Passed' = {}
    <3>1. Listed(list)' = Listed(l) BY <2>1 DEF Listed, tables
    <3>2. \A m \in Listed(l) : Rank(list, Listed(list), m)' \in Nat
      <4>1. \A q, m : Above(list, q, m)' = Above(l, q, m) BY <2>1 DEF Above, Newer, tables
      <4>2. \A m : Rank(list, Listed(list), m)' = Rank(l, Listed(l), m)
        BY <3>1, <4>1 DEF Rank
      <4> QED BY <2>3, <4>2, ListedIds, RankTyped DEF OffsetInv
    <3>3. Reach' = 0 BY <2>1, <2>2 DEF Reach
    <3> QED BY <2>1, <3>1, <3>2, <3>3 DEF Passed
  <2>4. left' \in Nat /\ 0 <= left' BY <1>0, BoundsAssumption DEF TypeOK
  <2> QED BY <2>1, <2>3, <2>4, FS_EmptySet DEF OffsetWalk
<1>5. CASE ListMessagesBySpace \/ ListSentLog
  <2>1. list' \notin OffsetLists /\ phase' # "idle"
    BY <1>5 DEF ListMessagesBySpace, ListSentLog, Deliver, OffsetLists
  <2> QED BY <2>1 DEF OffsetWalk
<1>6. CASE ListByOffset BY <1>6, OffsetPageKeeps
<1>7. CASE CountListed BY <1>7, OffsetCountKeeps
<1> QED BY <1>1, <1>2, <1>3, <1>4, <1>5, <1>6, <1>7 DEF Next

LEMMA InitOffset == Init => OffsetInv
BY InitTyped DEF Init, OffsetInv, IdleOK, OffsetWalk, OffsetLists

\* A walk of the pending or the skipped list that has ended misses no more of the
\* rows that were there when it began, and still are, than rows left the listing,
\* for any page sizes and whatever is skipped, unskipped, answered and ingested
\* between a page and its total.
THEOREM OffsetMissesAtMostWhatLeft == Spec => []OffsetMissesBounded
<1>1. OffsetInv => OffsetMissesBounded
  <2> SUFFICES ASSUME OffsetInv, list \in {"pending", "skipped"}, phase = "done"
               PROVE  Cardinality((began \cap Listed(list)) \ seen) <= left
    BY DEF OffsetMissesBounded
  <2> DEFINE missed == (began \cap Listed(list)) \ seen
  <2>1. Cardinality(began \ seen) <= left
    BY DEF OffsetInv, OffsetWalk, OffsetLists
  <2>2. missed \in SUBSET (began \ seen) OBVIOUS
  <2>3. /\ IsFiniteSet(began \ seen) /\ Cardinality(began \ seen) \in Nat
        /\ IsFiniteSet(missed) /\ Cardinality(missed) \in Nat
    <3>1. began \ seen \in SUBSET Ids BY PassedTyped DEF OffsetInv
    <3>2. missed \in SUBSET Ids BY <2>2, <3>1
    <3> HIDE DEF missed
    <3> QED BY <3>1, <3>2, MissedFinite DEF OffsetInv
  <2>4. Cardinality(missed) <= Cardinality(began \ seen) BY <2>2, <2>3, FS_Subset
  <2>5. left \in Nat BY DEF OffsetInv, TypeOK
  <2> HIDE DEF missed
  <2>6. Cardinality(missed) <= left BY <2>1, <2>3, <2>4, <2>5
  <2> QED BY <2>6 DEF missed
<1> QED BY <1>1, InitOffset, OffsetStep, InitWalk, WalkStep, PTL DEF Spec

-----------------------------------------------------------------------------
(* Now Startup: the schema stays on the one path through the migrations.   *)
(* The path is defined by recursion over the statements of a file and over *)
(* the files, so recursion comes first: by the least element of a set of   *)
(* numbers, which the library proves for sets and not only for operators.  *)

\* A set of numbers has a least one.
LEMMA LeastOne ==
    ASSUME NEW T, T \subseteq Nat, T # {}
    PROVE  \E x \in T : \A y \in T : x <= y
<1> DEFINE R == OpToRel(<, Nat)
<1>1. IsWellFoundedOn(R, Nat)
  BY NatLessThanWellFounded
<1>2. \E x \in T : \A y \in T : <<y, x>> \notin R
  <2> HIDE DEF R
  <2> QED BY <1>1, WFMin
<1>3. \A x, y \in T : <<y, x>> \notin R => x <= y
  BY DEF OpToRel
<1> QED BY <1>2, <1>3

\* Induction up to n: a set that has 0, and with a number below n the next, has
\* them all.
LEMMA UpTo ==
    ASSUME NEW n \in Nat, NEW S, 0 \in S, \A i \in 0 .. n - 1 : i \in S => i + 1 \in S
    PROVE  0 .. n \subseteq S
<1> DEFINE T == (0 .. n) \ S
<1>1. SUFFICES ASSUME T # {} PROVE FALSE
  OBVIOUS
<1>2. PICK x \in T : \A y \in T : x <= y
  <2>1. T \subseteq Nat
    OBVIOUS
  <2> HIDE DEF T
  <2> QED BY <1>1, <2>1, LeastOne
<1>3. x # 0 /\ x - 1 \in 0 .. n - 1 /\ x - 1 \in S
  BY <1>2
<1> QED BY <1>2, <1>3

\* A step for each number from 1 to n, and what they make of b one by one.
StepsOn(step, n, F) == \A i \in 1 .. n : step[i] \in [F -> F]

Iterates(g, step, n, F, b) ==
    /\ g \in [0 .. n -> F]
    /\ g[0] = b
    /\ \A i \in 1 .. n : g[i] = step[i][g[i - 1]]

\* A function may be given by its first value and its steps.
LEMMA Recursion ==
    ASSUME NEW n \in Nat, NEW F, NEW b \in F, NEW step, StepsOn(step, n, F)
    PROVE  \E g : Iterates(g, step, n, F, b)
<1> DEFINE S == {m \in 0 .. n : \E g : Iterates(g, step, m, F, b)}
<1>1. 0 \in S
  <2> DEFINE first == [i \in 0 .. 0 |-> b]
  <2>1. Iterates(first, step, 0, F, b)
    BY DEF Iterates
  <2> HIDE DEF first
  <2> QED BY <2>1
<1>2. ASSUME NEW m \in 0 .. n - 1, m \in S
      PROVE  m + 1 \in S
  <2>1. PICK g : Iterates(g, step, m, F, b)
    BY <1>2
  <2> DEFINE h == [i \in 0 .. m + 1 |-> IF i = m + 1 THEN step[m + 1][g[m]] ELSE g[i]]
  <2>2. step[m + 1][g[m]] \in F
    BY <2>1 DEF Iterates, StepsOn
  <2>3. Iterates(h, step, m + 1, F, b)
    BY <2>1, <2>2 DEF Iterates
  <2> HIDE DEF h
  <2> QED BY <2>3
<1>3. n \in S
  <2> HIDE DEF S
  <2> QED BY <1>1, <1>2, UpTo
<1> QED BY <1>3

\* A flattened sequence of sequences is a sequence.
LEMMA FlattenTyped ==
    ASSUME NEW S, NEW n \in Nat, NEW ss \in [1 .. n -> Seq(S)]
    PROVE  FlattenSeq(ss) \in Seq(S)
<1> DEFINE cat(p, q) == p \o q
           P(f) == f = [i \in 1 .. n |-> IF i = 1 THEN ss[i] ELSE cat(f[i - 1], ss[i])]
           Q == Seq(S)
<1>1. ss \in Seq(Seq(S)) /\ Len(ss) = n
  OBVIOUS
<1>2. \A p, q \in Q : cat(p, q) \in Q
  OBVIOUS
<1>3. CASE n = 0
  <2>1. ss = <<>>
    BY <1>1, <1>3
  <2> QED BY <1>1, <1>3, <2>1 DEF FlattenSeq
<1>4. CASE n > 0
  <2>1. FlattenSeq(ss) = (CHOOSE f : P(f))[n]
    BY <1>1, <1>4 DEF FlattenSeq
  <2> HIDE DEF cat, Q
  <2> DEFINE k == n - 1
             step == [i \in 1 .. k |-> [q \in Q |-> cat(q, ss[i + 1])]]
  <2>2. \A i \in 1 .. n : ss[i] \in Q
    BY DEF Q
  <2>3. StepsOn(step, k, Q)
    BY <2>2, <1>2 DEF StepsOn
  <2>4. PICK g \in [0 .. k -> Q] :
          g[0] = ss[1] /\ \A i \in 1 .. k : g[i] = step[i][g[i - 1]]
    <3>1. ss[1] \in Q /\ k \in Nat
      BY <2>2, <1>4
    <3> HIDE DEF step, k
    <3>2. PICK g : Iterates(g, step, k, Q, ss[1])
      BY <2>3, <3>1, Recursion
    <3> QED BY <3>2 DEF Iterates
  <2>5. \A i \in 1 .. n - 1 : g[i] = cat(g[i - 1], ss[i + 1])
    <3> SUFFICES ASSUME NEW i \in 1 .. k PROVE g[i] = cat(g[i - 1], ss[i + 1])
      OBVIOUS
    <3>1. g[i - 1] \in Q
      OBVIOUS
    <3>2. \A q \in Q : step[i][q] = cat(q, ss[i + 1])
      OBVIOUS
    <3> QED BY <2>4, <3>1, <3>2
  <2> HIDE DEF step
  <2> DEFINE h == [i \in 1 .. n |-> g[i - 1]]
  <2>6. \A i \in 1 .. n : h[i] = IF i = 1 THEN ss[i] ELSE cat(h[i - 1], ss[i])
    <3> SUFFICES ASSUME NEW i \in 1 .. n, i # 1 PROVE h[i] = cat(h[i - 1], ss[i])
      BY <2>4
    <3>1. i - 1 \in 1 .. n - 1 /\ i - 1 \in 1 .. n /\ (i - 1) + 1 = i
      OBVIOUS
    <3>2. g[i - 1] = cat(g[(i - 1) - 1], ss[i])
      BY <3>1, <2>5
    <3> QED BY <3>1, <3>2
  <2>7. P(h)
    BY <2>6
  <2>8. P(CHOOSE f : P(f))
    <3> HIDE DEF P
    <3> QED BY <2>7
  <2>9. ASSUME NEW f, P(f) PROVE f[n] \in Q
    <3> DEFINE T == {i \in 0 .. n : i > 0 => f[i] \in Q}
    <3>1. 0 \in T
      OBVIOUS
    <3>2. ASSUME NEW i \in 0 .. n - 1, i \in T PROVE i + 1 \in T
      <4>1. i + 1 \in 1 .. n
        OBVIOUS
      <4>2. CASE i = 0
        BY <2>2, <2>9, <4>1, <4>2
      <4>3. CASE i > 0
        <5>1. f[i + 1] = cat(f[(i + 1) - 1], ss[i + 1])
          BY <2>9, <4>1, <4>3
        <5>2. (i + 1) - 1 = i /\ f[i] \in Q /\ ss[i + 1] \in Q
          BY <3>2, <4>1, <4>3, <2>2
        <5> QED BY <5>1, <5>2, <1>2
      <4> QED BY <4>2, <4>3
    <3>3. 0 .. n \subseteq T
      <4> HIDE DEF T
      <4> QED BY <3>1, <3>2, UpTo
    <3> QED BY <3>3, <1>4
  <2> HIDE DEF P
  <2>10. FlattenSeq(ss) \in Q
    BY <2>1, <2>8, <2>9
  <2> QED BY <2>10 DEF Q
<1> QED BY <1>3, <1>4

-----------------------------------------------------------------------------
(* The scripts.                                                            *)

Schemas == SUBSET STRING

\* A statement as SQLite is given it: what creates by itself adds its own name.
Statement ==
    {s \in [op : Ops, name : STRING, adds : SUBSET STRING] :
        s.op \in Making => s.name \in s.adds}

\* A statement as a file has it.
Source == {s \in [op : Ops, names : Seq(STRING)] : s.names # <<>>}

LEMMA ExpandedTyped ==
    ASSUME NEW s \in Source
    PROVE  expandMultiAddColumn(s) \in Seq(Statement)
<1>1. s.names \in Seq(STRING) /\ s.names # <<>> /\ s.op \in Ops
  BY DEF Source
<1>2. ASSUME NEW i \in 1 .. Len(s.names), s.op = "add"
      PROVE  [op |-> s.op, name |-> s.names[i], adds |-> {s.names[i]}] \in Statement
  <2>1. s.names[i] \in STRING
    BY <1>1
  <2> QED BY <1>1, <2>1 DEF Statement
<1>3. [op |-> s.op, name |-> Head(s.names), adds |-> ToSet(s.names)] \in Statement
  <2>1. Head(s.names) \in STRING /\ Head(s.names) = s.names[1] /\ 1 \in DOMAIN s.names
    BY <1>1
  <2>2. ToSet(s.names) \subseteq STRING /\ Head(s.names) \in ToSet(s.names)
    BY <1>1, <2>1 DEF ToSet
  <2> QED BY <1>1, <2>1, <2>2 DEF Statement
<1>4. CASE s.op = "add"
  <2> DEFINE n == Len(s.names)
             one == [i \in 1 .. n |-> [op |-> s.op, name |-> s.names[i], adds |-> {s.names[i]}]]
  <2>1. n \in Nat
    BY <1>1
  <2>2. one \in [1 .. n -> Statement]
    BY <1>2, <1>4
  <2>3. expandMultiAddColumn(s) = one
    BY <1>4 DEF expandMultiAddColumn
  <2> HIDE DEF one, n
  <2> QED BY <2>1, <2>2, <2>3
<1>5. CASE s.op # "add"
  <2> DEFINE whole == [op |-> s.op, name |-> Head(s.names), adds |-> ToSet(s.names)]
  <2>1. expandMultiAddColumn(s) = <<whole>>
    BY <1>5 DEF expandMultiAddColumn
  <2> HIDE DEF whole
  <2>2. whole \in Statement
    BY <1>3 DEF whole
  <2> QED BY <2>1, <2>2
<1> QED BY <1>4, <1>5

LEMMA RewrittenTyped ==
    ASSUME NEW s \in Source
    PROVE  Rewritten(s) \in Seq(Source)
<1>1. [s EXCEPT !.op = "add"] \in Source /\ [s EXCEPT !.op = "drop"] \in Source
  BY DEF Source, Ops
<1>2. \A x \in Source : <<x>> \in Seq(Source)
  OBVIOUS
<1>3. <<>> \in Seq(Source)
  OBVIOUS
<1> HIDE DEF Source
<1> QED BY <1>1, <1>2, <1>3 DEF Rewritten

\* What becomes of a file is a sequence of statements.
LEMMA ScriptTyped ==
    ASSUME NEW f \in 1 .. Len(Files)
    PROVE  Script(f) \in Seq(Statement)
<1> DEFINE file == Files[f]
           rewritten == [i \in 1 .. Len(file) |-> Rewritten(file[i])]
           text == rewritePgDDL(file)
           expanded == [i \in 1 .. Len(text) |-> expandMultiAddColumn(text[i])]
<1>1. Len(file) \in Nat /\ \A i \in 1 .. Len(file) : file[i] \in [op : Ops, names : Seq(STRING)]
  <2> DEFINE R == [op : Ops, names : Seq(STRING)]
  <2>1. Files \in Seq(Seq(R))
    BY StartupFiles
  <2> HIDE DEF R
  <2>2. file \in Seq(R)
    BY <2>1
  <2>3. Len(file) \in Nat /\ \A i \in 1 .. Len(file) : file[i] \in R
    BY <2>2
  <2> QED BY <2>3 DEF R
<1>2. \A i \in 1 .. Len(file) : file[i] \in Source
  <2> SUFFICES ASSUME NEW i \in 1 .. Len(file) PROVE file[i] \in Source
    OBVIOUS
  <2>1. file[i] \in [op : Ops, names : Seq(STRING)]
    BY <1>1
  <2>2. file[i].names # <<>>
    BY StartupFiles
  <2> QED BY <2>1, <2>2 DEF Source
<1>3. rewritten \in [1 .. Len(file) -> Seq(Source)]
  BY <1>2, RewrittenTyped
<1>4. text \in Seq(Source)
  <2>1. text = FlattenSeq(rewritten)
    BY DEF rewritePgDDL
  <2> HIDE DEF text, rewritten
  <2> QED BY <1>1, <1>3, <2>1, FlattenTyped
<1>5. Script(f) = FlattenSeq(expanded)
  BY DEF Script
<1> HIDE DEF text
<1>6. Len(text) \in Nat /\ \A i \in 1 .. Len(text) : text[i] \in Source
  BY <1>4
<1>7. expanded \in [1 .. Len(text) -> Seq(Statement)]
  BY <1>6, ExpandedTyped
<1> HIDE DEF expanded
<1> QED BY <1>5, <1>6, <1>7, FlattenTyped

\* SQLite makes a schema of a schema.
LEMMA ResultTyped ==
    ASSUME NEW s \in Statement, NEW X \in Schemas
    PROVE  Result(s, X) \in Schemas
<1>1. X \cup s.adds \in Schemas /\ X \ {s.name} \in Schemas
  BY DEF Statement, Schemas
<1> QED BY <1>1 DEF Result

-----------------------------------------------------------------------------
(* The path.                                                               *)

\* Along follows its script.
LEMMA AlongSteps ==
    ASSUME NEW script \in Seq(Statement), NEW from \in Schemas
    PROVE  /\ \A i \in 0 .. Len(script) : Along(script, from)[i] \in Schemas
           /\ Along(script, from)[0] = from
           /\ \A i \in 1 .. Len(script) : Along(script, from)[i] =
                  Result(script[i], Along(script, from)[i - 1])
<1> DEFINE n == Len(script)
           P(f) == f = [i \in 0 .. n |-> IF i = 0 THEN from ELSE Result(script[i], f[i - 1])]
           step == [i \in 1 .. n |-> [X \in Schemas |-> Result(script[i], X)]]
           made == CHOOSE f : P(f)
<1>1. n \in Nat /\ \A i \in 1 .. n : script[i] \in Statement
  OBVIOUS
<1>2. Along(script, from) = made
  BY DEF Along
<1> HIDE DEF n
<1>3. \A i \in 1 .. n, X \in Schemas : Result(script[i], X) \in Schemas
  BY <1>1, ResultTyped
<1>4. StepsOn(step, n, Schemas)
  BY <1>3 DEF StepsOn
<1>5. PICK g : Iterates(g, step, n, Schemas, from)
  <2> HIDE DEF step
  <2> QED BY <1>1, <1>4, Recursion
<1>6. P(g)
  <2>1. \A i \in 1 .. n : g[i] = Result(script[i], g[i - 1])
    <3> SUFFICES ASSUME NEW i \in 1 .. n PROVE g[i] = Result(script[i], g[i - 1])
      OBVIOUS
    <3>1. g[i - 1] \in Schemas
      BY <1>5, <1>1 DEF Iterates
    <3>2. \A X \in Schemas : step[i][X] = Result(script[i], X)
      OBVIOUS
    <3> QED BY <1>5, <3>1, <3>2 DEF Iterates
  <2> HIDE DEF step
  <2>2. \A i \in 0 .. n : g[i] = IF i = 0 THEN from ELSE Result(script[i], g[i - 1])
    BY <2>1, <1>5 DEF Iterates
  <2> QED BY <2>2, <1>5 DEF Iterates
<1>7. P(made)
  <2> HIDE DEF P
  <2> QED BY <1>6
<1>8. made[0] = from /\ \A i \in 1 .. n : made[i] = Result(script[i], made[i - 1])
  <2> HIDE DEF made
  <2>1. \A i \in 0 .. n : made[i] = IF i = 0 THEN from ELSE Result(script[i], made[i - 1])
    BY <1>7
  <2>2. 0 \in 0 .. n /\ \A i \in 1 .. n : i \in 0 .. n /\ i # 0
    BY <1>1
  <2> QED BY <2>1, <2>2
<1>9. 0 .. n \subseteq {i \in 0 .. n : made[i] \in Schemas}
  <2> HIDE DEF made
  <2> DEFINE T == {i \in 0 .. n : made[i] \in Schemas}
  <2>1. 0 \in T
    BY <1>1, <1>8
  <2>2. ASSUME NEW i \in 0 .. n - 1, i \in T PROVE i + 1 \in T
    <3>1. i + 1 \in 1 .. n /\ i + 1 \in 0 .. n /\ (i + 1) - 1 = i
      BY <1>1
    <3>2. made[i + 1] = Result(script[i + 1], made[i])
      BY <1>8, <3>1
    <3> QED BY <2>2, <3>1, <3>2, <1>3
  <2> HIDE DEF T
  <2>3. 0 .. n \subseteq T
    BY <1>1, <2>1, <2>2, UpTo
  <2> QED BY <2>3 DEF T
<1> HIDE DEF made
<1> QED BY <1>2, <1>8, <1>9 DEF n

\* Complete follows the files.
LEMMA CompleteSteps ==
    /\ \A k \in 0 .. Len(Files) : Complete[k] \in Schemas
    /\ Complete[0] = {}
    /\ \A k \in 1 .. Len(Files) : Complete[k] =
           Along(Script(k), Complete[k - 1])[Len(Script(k))]
<1> DEFINE n == Len(Files)
           File(k, X) == Along(Script(k), X)[Len(Script(k))]
           P(f) == f = [k \in 0 .. n |-> IF k = 0 THEN {} ELSE File(k, f[k - 1])]
           step == [k \in 1 .. n |-> [X \in Schemas |-> File(k, X)]]
           made == CHOOSE f : P(f)
<1>1. n \in Nat
  BY StartupFiles
<1>2. Complete = made
  BY DEF Complete
<1>3. \A k \in 1 .. n, X \in Schemas : File(k, X) \in Schemas
  <2> SUFFICES ASSUME NEW k \in 1 .. n, NEW X \in Schemas PROVE File(k, X) \in Schemas
    OBVIOUS
  <2>1. Script(k) \in Seq(Statement)
    BY ScriptTyped
  <2>2. Len(Script(k)) \in 0 .. Len(Script(k))
    BY <2>1
  <2> QED BY <2>1, <2>2, AlongSteps
<1> HIDE DEF n, File
<1>4. StepsOn(step, n, Schemas)
  BY <1>3 DEF StepsOn
<1>5. {} \in Schemas
  BY DEF Schemas
<1>6. PICK g : Iterates(g, step, n, Schemas, {})
  <2> HIDE DEF step
  <2> QED BY <1>1, <1>4, <1>5, Recursion
<1>7. P(g)
  <2>1. \A k \in 1 .. n : g[k] = File(k, g[k - 1])
    <3> SUFFICES ASSUME NEW k \in 1 .. n PROVE g[k] = File(k, g[k - 1])
      OBVIOUS
    <3>1. g[k - 1] \in Schemas
      BY <1>6, <1>1 DEF Iterates
    <3>2. \A X \in Schemas : step[k][X] = File(k, X)
      OBVIOUS
    <3> QED BY <1>6, <3>1, <3>2 DEF Iterates
  <2> HIDE DEF step
  <2>2. \A k \in 0 .. n : g[k] = IF k = 0 THEN {} ELSE File(k, g[k - 1])
    BY <2>1, <1>6 DEF Iterates
  <2> QED BY <2>2, <1>6 DEF Iterates
<1>8. P(made)
  <2> HIDE DEF P
  <2> QED BY <1>7
<1>9. made[0] = {} /\ \A k \in 1 .. n : made[k] = File(k, made[k - 1])
  <2> HIDE DEF made
  <2>1. \A k \in 0 .. n : made[k] = IF k = 0 THEN {} ELSE File(k, made[k - 1])
    BY <1>8
  <2>2. 0 \in 0 .. n /\ \A k \in 1 .. n : k \in 0 .. n /\ k # 0
    BY <1>1
  <2> QED BY <2>1, <2>2
<1>10. 0 .. n \subseteq {k \in 0 .. n : made[k] \in Schemas}
  <2> HIDE DEF made
  <2> DEFINE T == {k \in 0 .. n : made[k] \in Schemas}
  <2>1. 0 \in T
    BY <1>1, <1>5, <1>9
  <2>2. ASSUME NEW k \in 0 .. n - 1, k \in T PROVE k + 1 \in T
    <3>1. k + 1 \in 1 .. n /\ k + 1 \in 0 .. n /\ (k + 1) - 1 = k
      BY <1>1
    <3>2. made[k + 1] = File(k + 1, made[k])
      BY <1>9, <3>1
    <3> QED BY <2>2, <3>1, <3>2, <1>3
  <2> HIDE DEF T
  <2>3. 0 .. n \subseteq T
    BY <1>1, <2>1, <2>2, UpTo
  <2> QED BY <2>3 DEF T
<1> HIDE DEF made
<1> QED BY <1>2, <1>9, <1>10 DEF n, File

\* The statements of the file after the first k; the points of the path.
Rest(k) == IF k < Len(Files) THEN Len(Script(k + 1)) ELSE 0

Point(k, i) == k \in 0 .. Len(Files) /\ i \in 0 .. Rest(k)

\* The path begins at the empty schema; a statement leads from one point to the
\* next; the last point of a file is the first of the file after it.
LEMMA PathSteps ==
    ASSUME NEW k, NEW i, Point(k, i)
    PROVE  /\ Made(0, 0) = {}
           /\ i < Rest(k) => Made(k, i + 1) =
                  Result(Script(k + 1)[i + 1], Made(k, i))
           /\ k < Len(Files) /\ i = Rest(k) => Made(k + 1, 0) = Made(k, i)
<1> DEFINE N == Len(Files)
<1>1. N \in Nat /\ k \in 0 .. N
  BY StartupFiles DEF Point
<1>2. \A j \in 0 .. N - 1 : Script(j + 1) \in Seq(Statement) /\ Complete[j] \in Schemas
  BY <1>1, ScriptTyped, CompleteSteps
<1>3. \A j \in 0 .. N : Made(j, 0) = Complete[j]
  <2> SUFFICES ASSUME NEW j \in 0 .. N, j < N
               PROVE  Along(Script(j + 1), Complete[j])[0] = Complete[j]
    BY <1>1 DEF Made
  <2> QED BY <1>1, <1>2, AlongSteps
<1>4. Made(0, 0) = {}
  BY <1>1, <1>3, CompleteSteps
<1>5. ASSUME k < N
      PROVE  /\ i < Rest(k) => Made(k, i + 1) =
                    Result(Script(k + 1)[i + 1], Made(k, i))
             /\ i = Rest(k) => Made(k + 1, 0) = Made(k, i)
  <2>1. /\ Script(k + 1) \in Seq(Statement) /\ Complete[k] \in Schemas
        /\ Rest(k) = Len(Script(k + 1)) /\ Rest(k) \in Nat /\ i \in 0 .. Rest(k)
    BY <1>1, <1>2, <1>5 DEF Rest, Point
  <2>2. \A j : Made(k, j) = Along(Script(k + 1), Complete[k])[j]
    BY <1>5 DEF Made
  <2>3. ASSUME i < Rest(k)
        PROVE  Made(k, i + 1) = Result(Script(k + 1)[i + 1], Made(k, i))
    <3>1. i + 1 \in 1 .. Len(Script(k + 1)) /\ (i + 1) - 1 = i
      BY <2>1, <2>3
    <3>2. Along(Script(k + 1), Complete[k])[i + 1] =
              Result(Script(k + 1)[i + 1], Along(Script(k + 1), Complete[k])[(i + 1) - 1])
      BY <2>1, <3>1, AlongSteps
    <3> QED BY <2>2, <3>1, <3>2
  <2>4. ASSUME i = Rest(k) PROVE Made(k + 1, 0) = Made(k, i)
    <3>1. k + 1 \in 1 .. N /\ k + 1 \in 0 .. N /\ (k + 1) - 1 = k
      BY <1>1, <1>5
    <3>2. Complete[k + 1] =
              Along(Script(k + 1), Complete[k])[Len(Script(k + 1))]
      BY <3>1, CompleteSteps
    <3> QED BY <1>3, <2>1, <2>2, <2>4, <3>1, <3>2
  <2> QED BY <2>3, <2>4
<1>6. k = N => Rest(k) = 0 /\ i = 0
  BY <1>1 DEF Rest, Point
<1> QED BY <1>1, <1>4, <1>5, <1>6

-----------------------------------------------------------------------------
(* Statements that have been run.                                          *)

\* Running s again is refused or changes nothing.
Settled(s, X) == Refused(s, X) \/ Result(s, X) = X

\* A statement settles itself.
LEMMA RunSettles ==
    ASSUME NEW s \in Statement, NEW X, ~ Refused(s, X)
    PROVE  Settled(s, Result(s, X))
<1>1. s.op \in Making => s.name \in s.adds
  BY DEF Statement
<1>2. CASE s.op = "create" \/ s.op = "add"
  BY <1>1, <1>2 DEF Settled, Refused, Result, Making
<1>3. CASE s.op = "create if missing"
  BY <1>1, <1>3 DEF Settled, Refused, Result, Making
<1>4. CASE s.op = "drop"
  BY <1>4 DEF Settled, Refused, Result
<1>5. CASE s.op \notin {"create", "add", "create if missing", "drop"}
  BY <1>5 DEF Settled, Refused, Result
<1> QED BY <1>2, <1>3, <1>4, <1>5

\* A later statement that takes nothing back leaves an earlier one settled.
LEMMA StaysSettled ==
    ASSUME NEW s \in Statement, NEW t \in Statement, NEW X, Settled(s, X),
           s.op \in Making /\ t.op = "drop" => s.name # t.name,
           s.op = "drop" /\ t.op \in Making => s.name \notin t.adds
    PROVE  Settled(s, Result(t, X))
<1> DEFINE Y == Result(t, X)
<1>1. s.op \in Making => s.name \in s.adds
  BY DEF Statement
<1>2. \/ Y = X
      \/ t.op \in Making /\ Y = X \cup t.adds
      \/ t.op = "drop" /\ Y = X \ {t.name}
  BY DEF Result, Making
<1> HIDE DEF Y
<1>3. CASE s.op \in Making
  <2>1. s.name \in X
    BY <1>1, <1>3 DEF Settled, Refused, Result, Making
  <2>2. s.name \in Y
    BY <1>2, <1>3, <2>1
  <2> QED BY <1>3, <2>2 DEF Y, Settled, Refused, Result, Making
<1>4. CASE s.op = "drop"
  <2>1. s.name \notin X
    BY <1>4 DEF Settled, Refused, Result
  <2>2. s.name \notin Y
    BY <1>2, <1>4, <2>1
  <2> QED BY <1>4, <2>2 DEF Y, Settled, Refused, Result
<1>5. CASE s.op \notin Making \cup {"drop"}
  BY <1>5 DEF Settled, Refused, Result, Making
<1> QED BY <1>3, <1>4, <1>5 DEF Y

-----------------------------------------------------------------------------
(* The processes.                                                          *)

\* The first n statements of the file f are behind the point (k, i).
Behind(f, n, k, i) == f <= k \/ (f = k + 1 /\ n <= i)

\* Where a process may be while the schema is at the point (k, i): all that it
\* has gone through is behind that point.
Placed(x, k, i) ==
    \/ x = Down
    \/ \E ver \in 1 .. Len(Files) :
          \/ \E f \in 1 .. ver : x = Check(ver, f) /\ f - 1 <= k
          \/ \E f \in 1 .. ver : \E n \in 1 .. Len(Script(f)) + 1 :
                x = Run(ver, f, n) /\ f - 1 <= k /\ Behind(f, n - 1, k, i)
          \/ \E f \in 1 .. ver :
                x = Book(ver, f) /\ Behind(f, Len(Script(f)), k, i)
          \/ x \in {Listen(ver), Serve(ver)} /\ ver <= k

\* The schema is at a point of the path, the files before it are booked, every
\* statement behind it is settled, and no process is ahead of it.
AtPoint(k, i) ==
    /\ Point(k, i)
    /\ booked = 1 .. k
    /\ schema = Made(k, i)
    /\ \A f \in 1 .. Len(Files) : \A n \in 1 .. Len(Script(f)) :
          Behind(f, n, k, i) => Settled(Script(f)[n], schema)
    /\ DOMAIN proc = Procs
    /\ \A p \in Procs : Placed(proc[p], k, i)

BootInv == \E k, i : AtPoint(k, i)

LEMMA InitAtPoint ==
    ASSUME BootInit
    PROVE  BootInv
<1>1. Len(Files) \in Nat /\ \A f \in 1 .. Len(Files) : Len(Script(f)) \in Nat
  BY ScriptTyped, StartupFiles
<1>2. Point(0, 0)
  BY <1>1 DEF Point, Rest
<1>3. \A f \in 1 .. Len(Files) : \A n \in 1 .. Len(Script(f)) : ~ Behind(f, n, 0, 0)
  BY <1>1 DEF Behind
<1>4. schema = Made(0, 0)
  BY <1>2, PathSteps DEF BootInit
<1>5. booked = 1 .. 0 /\ DOMAIN proc = Procs /\ \A p \in Procs : Placed(proc[p], 0, 0)
  BY DEF BootInit, Placed
<1>6. AtPoint(0, 0)
  BY <1>2, <1>3, <1>4, <1>5 DEF AtPoint
<1> QED BY <1>6 DEF BootInv

\* A process that moves while the schema and its bookkeeping stay.
LEMMA ProcMoves ==
    ASSUME NEW k, NEW i, AtPoint(k, i), UNCHANGED <<schema, booked>>,
           NEW p \in Procs, NEW x, Placed(x, k, i), proc' = [proc EXCEPT ![p] = x]
    PROVE  AtPoint(k, i)'
<1>1. DOMAIN proc' = Procs /\ \A q \in Procs : Placed(proc'[q], k, i)
  BY DEF AtPoint
<1> QED BY <1>1 DEF AtPoint

\* What is behind a point is behind the next, and so who is not ahead of it.
LEMMA BehindNext ==
    ASSUME NEW k, NEW i, Point(k, i), NEW x, Placed(x, k, i)
    PROVE  /\ i < Rest(k) => Placed(x, k, i + 1)
           /\ k < Len(Files) /\ i = Rest(k) => Placed(x, k + 1, 0)
<1>1. Len(Files) \in Nat /\ \A f \in 1 .. Len(Files) : Len(Script(f)) \in Nat
  BY ScriptTyped, StartupFiles
<1>2. k \in 0 .. Len(Files) /\ Rest(k) \in Nat /\ i \in 0 .. Rest(k)
  BY <1>1 DEF Point, Rest
<1>3. \A f \in Nat, n \in Int : Behind(f, n, k, i) => Behind(f, n, k, i + 1)
  BY <1>1, <1>2 DEF Behind
<1>4. \A f \in Nat, n \in Int : Behind(f, n, k, i) => Behind(f, n, k + 1, 0)
  BY <1>1, <1>2 DEF Behind
<1>5. CASE x = Down
  BY <1>5 DEF Placed
<1>6. ASSUME NEW ver \in 1 .. Len(Files), NEW f \in 1 .. ver, x = Check(ver, f), f - 1 <= k
      PROVE  Placed(x, k, i + 1) /\ Placed(x, k + 1, 0)
  BY <1>1, <1>2, <1>6 DEF Placed
<1>7. ASSUME NEW ver \in 1 .. Len(Files), NEW f \in 1 .. ver, NEW n \in 1 .. Len(Script(f)) + 1,
             x = Run(ver, f, n), f - 1 <= k, Behind(f, n - 1, k, i)
      PROVE  Placed(x, k, i + 1) /\ Placed(x, k + 1, 0)
  <2>1. f \in Nat /\ n - 1 \in Int /\ f - 1 <= k + 1
    BY <1>1, <1>2, <1>7
  <2>2. Behind(f, n - 1, k, i + 1) /\ Behind(f, n - 1, k + 1, 0)
    BY <1>3, <1>4, <1>7, <2>1
  <2> QED BY <1>7, <2>1, <2>2 DEF Placed
<1>8. ASSUME NEW ver \in 1 .. Len(Files), NEW f \in 1 .. ver,
             x = Book(ver, f), Behind(f, Len(Script(f)), k, i)
      PROVE  Placed(x, k, i + 1) /\ Placed(x, k + 1, 0)
  <2>1. f \in Nat /\ Len(Script(f)) \in Int
    BY <1>1
  <2>2. /\ Behind(f, Len(Script(f)), k, i + 1)
        /\ Behind(f, Len(Script(f)), k + 1, 0)
    BY <1>3, <1>4, <1>8, <2>1
  <2> QED BY <1>8, <2>2 DEF Placed
<1>9. ASSUME NEW ver \in 1 .. Len(Files), x \in {Listen(ver), Serve(ver)}, ver <= k
      PROVE  Placed(x, k, i + 1) /\ Placed(x, k + 1, 0)
  BY <1>1, <1>2, <1>9 DEF Placed
<1> QED BY <1>5, <1>6, <1>7, <1>8, <1>9 DEF Placed

\* After the file f of a binary with ver of them, when the first k are booked.
LEMMA AfterPlaced ==
    ASSUME NEW k, NEW i, Point(k, i),
           NEW ver \in 1 .. Len(Files), NEW f \in 1 .. ver, f <= k
    PROVE  Placed(After(ver, f), k, i)
<1>1. Len(Files) \in Nat /\ k \in Nat
  BY StartupFiles DEF Point
<1>2. CASE f = ver
  BY <1>2 DEF Placed, After
<1>3. CASE f # ver
  <2>1. f + 1 \in 1 .. ver /\ (f + 1) - 1 <= k
    BY <1>1, <1>3
  <2>2. After(ver, f) = Check(ver, f + 1)
    BY <1>3 DEF After
  <2> QED BY <2>1, <2>2 DEF Placed
<1> QED BY <1>2, <1>3

LEMMA StartKeeps ==
    ASSUME NEW k, NEW i, AtPoint(k, i), NEW p \in Procs, Start(p)
    PROVE  AtPoint(k, i)'
<1>1. PICK ver \in 1 .. Len(Files) : proc' = [proc EXCEPT ![p] = Check(ver, 1)]
  BY DEF Start, Versions
<1>2. 1 \in 1 .. ver /\ 1 - 1 <= k
  BY DEF AtPoint, Point
<1>3. Placed(Check(ver, 1), k, i)
  BY <1>2 DEF Placed
<1> QED BY <1>1, <1>3, ProcMoves DEF Start

\* What the pc of a process tells of where it is.
LEMMA PlacedByPc ==
    ASSUME NEW x, NEW k, NEW i, Placed(x, k, i)
    PROVE  /\ x.pc = "check" =>
                 x.ver \in 1 .. Len(Files) /\ x.file \in 1 .. x.ver /\ x.file - 1 <= k
           /\ x.pc = "run" =>
                 /\ x.ver \in 1 .. Len(Files) /\ x.file \in 1 .. x.ver
                 /\ x.next \in 1 .. Len(Script(x.file)) + 1
                 /\ x.file - 1 <= k /\ Behind(x.file, x.next - 1, k, i)
           /\ x.pc = "book" =>
                 /\ x.ver \in 1 .. Len(Files) /\ x.file \in 1 .. x.ver
                 /\ Behind(x.file, Len(Script(x.file)), k, i)
           /\ x.pc \in {"listen", "serve"} => x.ver \in 1 .. Len(Files) /\ x.ver <= k
<1> USE DEF Down, Check, Run, Book, Listen, Serve
<1>1. CASE x = Down
  BY <1>1
<1>2. ASSUME NEW ver \in 1 .. Len(Files), NEW f \in 1 .. ver, x = Check(ver, f), f - 1 <= k
      PROVE  x.pc = "check" /\ x.ver = ver /\ x.file = f
  BY <1>2
<1>3. ASSUME NEW ver, NEW f, NEW n, x = Run(ver, f, n)
      PROVE  x.pc = "run" /\ x.ver = ver /\ x.file = f /\ x.next = n
  BY <1>3
<1>4. ASSUME NEW ver, NEW f, x = Book(ver, f)
      PROVE  x.pc = "book" /\ x.ver = ver /\ x.file = f
  BY <1>4
<1>5. ASSUME NEW ver, x \in {Listen(ver), Serve(ver)}
      PROVE  x.pc \in {"listen", "serve"} /\ x.ver = ver
  BY <1>5
<1> QED BY <1>1, <1>2, <1>3, <1>4, <1>5 DEF Placed

LEMMA CheckKeeps ==
    ASSUME NEW k, NEW i, AtPoint(k, i), NEW p \in Procs, CheckFile(p)
    PROVE  AtPoint(k, i)'
<1> DEFINE ver == proc[p].ver
           f == proc[p].file
           x == IF f \in booked THEN After(ver, f) ELSE Run(ver, f, 1)
<1>1. ver \in 1 .. Len(Files) /\ f \in 1 .. ver /\ f - 1 <= k
  BY PlacedByPc DEF AtPoint, CheckFile
<1>2. Len(Script(f)) \in Nat /\ k \in Nat /\ i \in Nat
  BY <1>1, ScriptTyped, StartupFiles DEF AtPoint, Point, Rest
<1> HIDE DEF ver, f
<1>3. CASE f \in booked
  <2>1. f <= k
    BY <1>1, <1>2, <1>3 DEF AtPoint
  <2> QED BY <1>1, <1>3, <2>1, AfterPlaced, ProcMoves DEF AtPoint, CheckFile, ver, f
<1>4. CASE f \notin booked
  <2>1. Behind(f, 1 - 1, k, i) /\ 1 \in 1 .. Len(Script(f)) + 1
    BY <1>1, <1>2, <1>4 DEF Behind
  <2>2. Placed(Run(ver, f, 1), k, i)
    BY <1>1, <2>1 DEF Placed
  <2> QED BY <1>4, <2>2, ProcMoves DEF CheckFile, ver, f
<1> QED BY <1>3, <1>4

LEMMA BookKeeps ==
    ASSUME NEW k, NEW i, AtPoint(k, i), NEW p \in Procs, BookFile(p)
    PROVE  BootInv'
<1> DEFINE ver == proc[p].ver
           f == proc[p].file
<1>1. ver \in 1 .. Len(Files) /\ f \in 1 .. ver /\ Behind(f, Len(Script(f)), k, i)
  BY PlacedByPc DEF AtPoint, BookFile
<1>2. /\ Len(Script(f)) \in Nat /\ k \in 0 .. Len(Files) /\ Len(Files) \in Nat
      /\ Rest(k) \in Nat /\ i \in 0 .. Rest(k)
  <2>1. \A g \in 1 .. Len(Files) : Len(Script(g)) \in Nat
    BY ScriptTyped
  <2>2. k \in 0 .. Len(Files) /\ Len(Files) \in Nat /\ i \in 0 .. Rest(k)
    BY StartupFiles DEF AtPoint, Point
  <2>3. Rest(k) \in Nat
    BY <2>1, <2>2 DEF Rest
  <2> QED BY <1>1, <2>1, <2>2, <2>3
<1> HIDE DEF ver, f
<1>3. CASE f \in booked
  <2>1. Placed(Down, k, i)
    BY DEF Placed
  <2>2. AtPoint(k, i)'
    BY <1>3, <2>1, ProcMoves DEF BookFile, f
  <2> QED BY <2>2 DEF BootInv
<1>4. CASE f \notin booked
  <2>1. f = k + 1 /\ k < Len(Files) /\ i = Rest(k) /\ k + 1 \in 1 .. Len(Files)
    BY <1>1, <1>2, <1>4 DEF AtPoint, Behind, Rest
  <2>2. Point(k + 1, 0)
    <3>1. Rest(k + 1) \in Nat
      BY <1>2, <2>1, ScriptTyped DEF Rest
    <3> QED BY <1>2, <2>1, <3>1 DEF Point
  <2>3. booked' = 1 .. k + 1 /\ schema' = schema
    BY <1>2, <2>1 DEF AtPoint, BookFile, f
  <2>4. schema = Made(k + 1, 0)
    BY <2>1, PathSteps DEF AtPoint
  <2>5. ASSUME NEW g \in 1 .. Len(Files), NEW n \in 1 .. Len(Script(g)), Behind(g, n, k + 1, 0)
        PROVE  Settled(Script(g)[n], schema)
    <3>1. Len(Script(g)) \in Nat
      BY ScriptTyped
    <3>2. Behind(g, n, k, i)
      BY <1>2, <2>1, <2>5, <3>1 DEF Behind, Rest
    <3> QED BY <3>2 DEF AtPoint
  <2>6. DOMAIN proc' = Procs /\ \A q \in Procs : Placed(proc'[q], k + 1, 0)
    <3>1. Placed(After(ver, f), k + 1, 0)
      BY <1>1, <1>2, <2>1, <2>2, AfterPlaced
    <3>2. \A q \in Procs : Placed(proc[q], k + 1, 0)
      BY <2>1, BehindNext DEF AtPoint
    <3>3. proc' = [proc EXCEPT ![p] = After(ver, f)]
      BY <1>4 DEF BookFile, ver, f
    <3> QED BY <3>1, <3>2, <3>3 DEF AtPoint
  <2>7. AtPoint(k + 1, 0)'
    BY <2>2, <2>3, <2>4, <2>5, <2>6 DEF AtPoint
  <2> QED BY <2>7 DEF BootInv
<1> QED BY <1>3, <1>4

LEMMA ListenKeeps ==
    ASSUME NEW k, NEW i, AtPoint(k, i), NEW p \in Procs, ListenAndServe(p)
    PROVE  AtPoint(k, i)'
<1>1. proc[p].ver \in 1 .. Len(Files) /\ proc[p].ver <= k
  BY PlacedByPc DEF AtPoint, ListenAndServe
<1>2. Placed(Down, k, i) /\ Placed(Serve(proc[p].ver), k, i)
  BY <1>1 DEF Placed
<1> QED BY <1>2, ProcMoves DEF ListenAndServe

LEMMA StopKeeps ==
    ASSUME NEW k, NEW i, AtPoint(k, i), NEW p \in Procs, Stop(p)
    PROVE  AtPoint(k, i)'
<1>1. Placed(Down, k, i)
  BY DEF Placed
<1> QED BY <1>1, ProcMoves DEF Stop

\* The statement at the point (k, i) is run: the schema goes one point on.
LEMMA LeaderRuns ==
    ASSUME NEW k, NEW i, AtPoint(k, i),
           k < Len(Files), i < Rest(k),
           ~ Refused(Script(k + 1)[i + 1], schema),
           schema' = Result(Script(k + 1)[i + 1], schema), UNCHANGED booked,
           NEW p \in Procs, NEW x, Placed(x, k, i + 1), proc' = [proc EXCEPT ![p] = x]
    PROVE  AtPoint(k, i + 1)'
<1> DEFINE t == Script(k + 1)[i + 1]
<1>1. /\ Len(Files) \in Nat /\ k \in Nat /\ i \in Nat
      /\ k + 1 \in 1 .. Len(Files) /\ i + 1 \in 1 .. Len(Script(k + 1))
      /\ i + 1 \in 0 .. Rest(k) /\ Rest(k) = Len(Script(k + 1))
  <2>1. Len(Files) \in Nat /\ k \in 0 .. Len(Files) /\ i \in 0 .. Rest(k)
    BY StartupFiles DEF AtPoint, Point
  <2>2. k + 1 \in 1 .. Len(Files) /\ Rest(k) = Len(Script(k + 1))
    BY <2>1 DEF Rest
  <2>3. Rest(k) \in Nat
    BY <2>2, ScriptTyped
  <2> QED BY <2>1, <2>2, <2>3
<1>2. Point(k, i + 1)
  BY <1>1 DEF AtPoint, Point
<1>3. schema' = Made(k, i + 1)
  BY PathSteps DEF AtPoint
<1>4. \A f \in 1 .. Len(Files) : \A n \in 1 .. Len(Script(f)) :
          Script(f)[n] \in Statement
  BY ScriptTyped
<1>5. t \in Statement
  BY <1>1, <1>4
<1>6. ASSUME NEW f \in 1 .. Len(Files), NEW n \in 1 .. Len(Script(f)), Behind(f, n, k, i + 1)
      PROVE  Settled(Script(f)[n], schema')
  <2>1. Len(Script(f)) \in Nat
    BY ScriptTyped
  <2>2. CASE f = k + 1 /\ n = i + 1
    BY <1>5, <2>2, RunSettles
  <2>3. CASE ~ (f = k + 1 /\ n = i + 1)
    <3>1. Behind(f, n, k, i) /\ (f < k + 1 \/ (f = k + 1 /\ n < i + 1))
      BY <1>1, <1>6, <2>1, <2>3 DEF Behind
    <3>2. Settled(Script(f)[n], schema)
      BY <3>1 DEF AtPoint
    <3>3. /\ Script(f)[n].op \in Making /\ t.op = "drop" =>
                Script(f)[n].name # t.name
          /\ Script(f)[n].op = "drop" /\ t.op \in Making =>
                Script(f)[n].name \notin t.adds
      BY <1>1, <3>1, MigrationsAdvance DEF UndoNothing
    <3> HIDE DEF t
    <3>4. Settled(Script(f)[n], Result(t, schema))
      BY <1>4, <1>5, <3>2, <3>3, StaysSettled
    <3> QED BY <3>4 DEF t
  <2> QED BY <2>2, <2>3
<1>7. DOMAIN proc' = Procs /\ \A q \in Procs : Placed(proc'[q], k, i + 1)
  <2>1. \A q \in Procs : Placed(proc[q], k, i + 1)
    BY BehindNext DEF AtPoint
  <2> QED BY <2>1 DEF AtPoint
<1> QED BY <1>2, <1>3, <1>6, <1>7 DEF AtPoint

LEMMA ExecuteKeeps ==
    ASSUME NEW k, NEW i, AtPoint(k, i),
           NEW p \in Procs, Execute(p)
    PROVE  BootInv'
<1> DEFINE ver == proc[p].ver
           f == proc[p].file
           n == proc[p].next
           s == Script(f)[n]
<1>1. /\ ver \in 1 .. Len(Files) /\ f \in 1 .. ver /\ f - 1 <= k
      /\ n \in 1 .. Len(Script(f)) + 1 /\ Behind(f, n - 1, k, i)
  BY PlacedByPc DEF AtPoint, Execute
<1>2. /\ Len(Files) \in Nat /\ k \in 0 .. Len(Files) /\ f \in 1 .. Len(Files)
      /\ Len(Script(f)) \in Nat /\ i \in 0 .. Rest(k)
  BY <1>1, ScriptTyped, StartupFiles DEF AtPoint, Point
<1>3. \/ n > Len(Script(f)) /\ proc' = [proc EXCEPT ![p] = Book(ver, f)] /\ schema' = schema
      \/ n <= Len(Script(f)) /\ proc' = [proc EXCEPT ![p] = Down] /\ schema' = schema
      \/ /\ n <= Len(Script(f)) /\ ~ Refused(s, schema)
         /\ proc' = [proc EXCEPT ![p] = Run(ver, f, n + 1)]
         /\ schema' = Result(s, schema)
  BY <1>1, <1>2 DEF Execute
<1>4. booked' = booked
  BY DEF Execute
<1> HIDE DEF ver, f, n
<1>5. ASSUME n > Len(Script(f)), proc' = [proc EXCEPT ![p] = Book(ver, f)], schema' = schema
      PROVE  AtPoint(k, i)'
  <2>1. n - 1 = Len(Script(f))
    BY <1>1, <1>2, <1>5
  <2>2. Placed(Book(ver, f), k, i)
    BY <1>1, <2>1 DEF Placed
  <2> QED BY <1>4, <1>5, <2>2, ProcMoves
<1>6. ASSUME proc' = [proc EXCEPT ![p] = Down], schema' = schema
      PROVE  AtPoint(k, i)'
  <2>1. Placed(Down, k, i)
    BY DEF Placed
  <2> QED BY <1>4, <1>6, <2>1, ProcMoves
<1>7. ASSUME n <= Len(Script(f)), ~ Refused(s, schema),
             proc' = [proc EXCEPT ![p] = Run(ver, f, n + 1)],
             schema' = Result(s, schema)
      PROVE  BootInv'
  <2>1. n \in 1 .. Len(Script(f)) /\ n + 1 \in 1 .. Len(Script(f)) + 1 /\ (n + 1) - 1 = n
    BY <1>1, <1>2, <1>7
  <2>2. CASE Behind(f, n, k, i)
    <3>1. schema' = schema
      BY <1>2, <1>7, <2>1, <2>2 DEF AtPoint, Settled
    <3>2. Placed(Run(ver, f, n + 1), k, i)
      BY <1>1, <2>1, <2>2 DEF Placed
    <3>3. AtPoint(k, i)'
      BY <1>4, <1>7, <3>1, <3>2, ProcMoves
    <3> QED BY <3>3 DEF BootInv
  <2>3. CASE ~ Behind(f, n, k, i)
    <3>1. f = k + 1 /\ n = i + 1 /\ k < Len(Files) /\ i < Rest(k)
      BY <1>1, <1>2, <2>1, <2>3 DEF Behind, Rest
    <3>2. Behind(f, n, k, i + 1)
      BY <1>2, <3>1 DEF Behind
    <3>3. Placed(Run(ver, f, n + 1), k, i + 1)
      BY <1>1, <2>1, <3>2 DEF Placed
    <3>4. AtPoint(k, i + 1)'
      BY <1>4, <1>7, <3>1, <3>3, LeaderRuns
    <3> QED BY <3>4 DEF BootInv
  <2> QED BY <2>2, <2>3
<1> HIDE DEF s
<1> QED BY <1>3, <1>5, <1>6, <1>7 DEF BootInv

LEMMA BootStep ==
    ASSUME BootInv, [BootNext]_bootVars
    PROVE  BootInv'
<1>1. PICK k, i : AtPoint(k, i)
  BY DEF BootInv
<1>2. ASSUME NEW p \in Procs, ProcNext(p) PROVE BootInv'
  <2>1. ASSUME AtPoint(k, i)' PROVE BootInv'
    BY <2>1 DEF BootInv
  <2>2. CASE Start(p)
    BY <1>1, <2>1, <2>2, StartKeeps
  <2>3. CASE CheckFile(p)
    BY <1>1, <2>1, <2>3, CheckKeeps
  <2>4. CASE Execute(p)
    BY <1>1, <2>4, ExecuteKeeps
  <2>5. CASE BookFile(p)
    BY <1>1, <2>5, BookKeeps
  <2>6. CASE ListenAndServe(p)
    BY <1>1, <2>1, <2>6, ListenKeeps
  <2>7. CASE Stop(p)
    BY <1>1, <2>1, <2>7, StopKeeps
  <2> QED BY <1>2, <2>2, <2>3, <2>4, <2>5, <2>6, <2>7 DEF ProcNext
<1>3. CASE UNCHANGED bootVars
  <2>1. AtPoint(k, i)'
    BY <1>1, <1>3 DEF AtPoint, bootVars
  <2> QED BY <2>1 DEF BootInv
<1> QED BY <1>2, <1>3 DEF BootNext

\* BootInv is inductive: whatever processes start, die or run side by side, of
\* whatever version, no process is ahead of the schema and the bookkeeping.
THEOREM StartInvariant == BootSpec => []BootInv
<1>1. BootInit => BootInv
  BY InitAtPoint
<1>2. BootInv /\ [BootNext]_bootVars => BootInv'
  BY BootStep
<1> QED BY <1>1, <1>2, PTL DEF BootSpec

\* The schema never leaves the one path through the migrations, at or after the
\* files that are booked and before the next.
THEOREM SchemaStaysOnPath == BootSpec => []OnThePath
<1>1. BootInv => OnThePath
  <2> SUFFICES ASSUME NEW k, NEW i, AtPoint(k, i) PROVE OnThePath
    BY DEF BootInv
  <2>1. /\ k \in 0 .. Len(Files) /\ booked = 1 .. k /\ schema = Made(k, i)
        /\ i \in 0 .. (IF k < Len(Files) THEN Len(Script(k + 1)) ELSE 0)
    BY DEF AtPoint, Point, Rest
  <2> QED BY <2>1 DEF OnThePath
<1> QED BY <1>1, StartInvariant, PTL

\* A process that serves has all its migrations booked.
THEOREM ServersAreMigrated == BootSpec => []ServedIsComplete
<1>1. BootInv => ServedIsComplete
  <2> SUFFICES ASSUME NEW k, NEW i, AtPoint(k, i), NEW p \in Procs, proc[p].pc = "serve"
               PROVE  1 .. proc[p].ver \subseteq booked
    BY DEF BootInv, ServedIsComplete
  <2>1. proc[p].ver \in 1 .. Len(Files) /\ proc[p].ver <= k /\ booked = 1 .. k /\ k \in Nat
    BY PlacedByPc DEF AtPoint, Point
  <2> QED BY <2>1
<1> QED BY <1>1, StartInvariant, PTL

=============================================================================
