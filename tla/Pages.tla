------------------------------- MODULE Pages -------------------------------
(***************************************************************************)
(* Four listings a client reads page by page while the rows under it       *)
(* change: the messages of a space (before_id), the sent log (a cursor of  *)
(* sent_at and id), and the pending and the skipped list (an offset, and a *)
(* total counted by a second statement). One client walks one listing to   *)
(* its end; everybody else inserts, skips, unskips, answers, posts and     *)
(* approves again in between.                                              *)
(*                                                                         *)
(* A message and its draft share a number: the order of both is the order  *)
(* of their ids. Time is in seconds, which is what CURRENT_TIMESTAMP       *)
(* stores. The pending list goes by observed_at, here the order of         *)
(* arrival.                                                                *)
(***************************************************************************)
EXTENDS Naturals, FiniteSets

CONSTANTS
    Limits,    \* page sizes a client may ask for
    MaxRows,   \* bound: messages of the space
    MaxTime,   \* bound: seconds
    MaxChanges \* bound: changes to the rows after the start

ASSUME BoundsAssumption ==
    /\ Limits \subseteq Nat \ {0}
    /\ MaxRows \in Nat
    /\ MaxTime \in Nat \ {0}
    /\ MaxChanges \in Nat

VARIABLES
    now,       \* the clock, in seconds
    rows,      \* number of messages stored; their ids are 1 .. rows
    skippedAt, \* skippedAt[m]: messages.skipped_at, 0 is NULL
    draft,     \* draft[m]: "none", "open" or "sent", the draft of m
    sentAt,    \* sentAt[m]: drafts.sent_at, 0 is NULL
    list,      \* the listing the client walks
    phase,     \* what the client does next: "idle", "page", "count", "done"
    limit,     \* its page size
    offset,    \* offset of the next page (pending and skipped)
    cursorAt,  \* sent_at in the cursor (sent log)
    cursorId,  \* before_id, or the id in the cursor; 0 is no cursor
    got,       \* rows of the page whose total is being counted
    began,     \* history: the rows listed when the walk began
    seen,      \* history: the rows the client was given
    twice,     \* history: some row was given twice
    left,      \* history: rows that left the listing since
    touched,   \* history: rows posted or reopened since
    changes    \* number of changes so far

tables == <<now, rows, skippedAt, draft, sentAt>>
walk == <<list, phase, limit, offset, cursorAt, cursorId, got, began>>
history == <<seen, twice, left, touched>>
vars == <<tables, changes, walk, history>>

Ids == 1 .. MaxRows
Lists == {"messages", "sent", "pending", "skipped"}

(* The rows a listing selects. *)
Listed(l) ==
    CASE l = "messages" -> 1 .. rows
      [] l = "sent"     -> {m \in 1 .. rows : draft[m] = "sent" /\ sentAt[m] # 0}
      [] l = "pending"  -> {m \in 1 .. rows : draft[m] = "none" /\ skippedAt[m] = 0}
      [] l = "skipped"  -> {m \in 1 .. rows : skippedAt[m] # 0}
      [] OTHER          -> {}

\* q is listed before r: ORDER BY time DESC, id DESC. Rows skipped in the same
\* second come in scan order, here the id's.
Newer(at, q, r) == at[q] > at[r] \/ (at[q] = at[r] /\ q > r)

Above(l, q, r) ==
    CASE l = "sent"    -> Newer(sentAt, q, r)
      [] l = "skipped" -> Newer(skippedAt, q, r)
      [] OTHER         -> q > r

Rank(l, S, r) == Cardinality({q \in S : Above(l, q, r)})

\* LIMIT n OFFSET k over the rows of S.
Page(l, S, k, n) == {r \in S : k <= Rank(l, S, r) /\ Rank(l, S, r) < k + n}

\* r is the last row of a page.
IsLast(l, P, r) == r \in P /\ \A q \in P \ {r} : Above(l, q, r)

(***************************************************************************)
(* sent_at is stored by CURRENT_TIMESTAMP as "2026-01-02 10:00:00" and     *)
(* compared as text with the cursor's time, which the driver binds with a  *)
(* zone, "2026-01-02 10:00:00+00:00": a stored second comes before the     *)
(* bound one of the same second, and no two are equal.                     *)
(***************************************************************************)
Stored(s) == [second |-> s, zone |-> 0]
Bound(s) == [second |-> s, zone |-> 1]

TextLess(a, b) ==
    a.second < b.second \/ (a.second = b.second /\ a.zone < b.zone)

\* A keyset that drops the tie: the rows of the cursor's second are skipped.
MutantKeyset(m, at, id) == sentAt[m] < at

Keyset(m, at, id) ==
    \/ TextLess(Stored(sentAt[m]), Bound(at))
    \/ Stored(sentAt[m]) = Bound(at) /\ m < id

-----------------------------------------------------------------------------
(* What the others do to the rows. *)

\* Messages, skips and posts of the first second are there already.
Init ==
    /\ now = 1 /\ changes = 0
    /\ rows \in 0 .. MaxRows
    /\ \E skipped, sent \in SUBSET (1 .. rows) :
          /\ skippedAt = [m \in Ids |-> IF m \in skipped THEN 1 ELSE 0]
          /\ draft = [m \in Ids |-> IF m \in sent THEN "sent" ELSE "none"]
          /\ sentAt = [m \in Ids |-> IF m \in sent THEN 1 ELSE 0]
    /\ list = "none" /\ phase = "idle"
    /\ limit = 0 /\ offset = 0 /\ cursorAt = 0 /\ cursorId = 0 /\ got = 0
    /\ began = {} /\ seen = {} /\ twice = FALSE /\ left = 0 /\ touched = {}

\* The client is not disturbed; what it should know of the change is noted.
Noted(changed) ==
    /\ changes < MaxChanges
    /\ changes' = changes + 1
    /\ UNCHANGED <<walk, seen, twice>>
    /\ left' = left + Cardinality(Listed(list) \ Listed(list)')
    /\ touched' = IF phase = "idle" THEN touched ELSE touched \cup changed

Tick ==
    /\ now < MaxTime
    /\ now' = now + 1
    /\ UNCHANGED <<rows, skippedAt, draft, sentAt, changes, walk, history>>

\* A message is ingested; a muted one is stored as skipped.
InsertOrGetMessage(muted) ==
    /\ rows < MaxRows
    /\ rows' = rows + 1
    /\ skippedAt' = [skippedAt EXCEPT ![rows + 1] = IF muted THEN now ELSE 0]
    /\ UNCHANGED <<now, draft, sentAt>>
    /\ Noted({})

SkipMessage(m) ==
    /\ m <= rows /\ skippedAt[m] = 0
    /\ skippedAt' = [skippedAt EXCEPT ![m] = now]
    /\ UNCHANGED <<now, rows, draft, sentAt>>
    /\ Noted({})

UnskipMessage(m) ==
    /\ m <= rows /\ skippedAt[m] # 0
    /\ skippedAt' = [skippedAt EXCEPT ![m] = 0]
    /\ UNCHANGED <<now, rows, draft, sentAt>>
    /\ Noted({})

\* A reply drafts an answer; an approval or an edit of a sent draft reopens it
\* and leaves its sent_at.
UpsertDraft(m) ==
    /\ m <= rows /\ draft[m] # "open"
    /\ draft' = [draft EXCEPT ![m] = "open"]
    /\ UNCHANGED <<now, rows, skippedAt, sentAt>>
    /\ Noted({m})

\* The tab reports the post: the row is stamped, again when it was sent before.
UpdateDraftStatus(m) ==
    /\ m <= rows /\ draft[m] # "none"
    /\ <<draft[m], sentAt[m]>> # <<"sent", now>>
    /\ draft' = [draft EXCEPT ![m] = "sent"]
    /\ sentAt' = [sentAt EXCEPT ![m] = now]
    /\ UNCHANGED <<now, rows, skippedAt>>
    /\ Noted({m})

-----------------------------------------------------------------------------
(* The client. *)

Open(l, n) ==
    /\ phase = "idle"
    /\ list' = l /\ phase' = "page" /\ limit' = n
    /\ began' = Listed(l)
    /\ UNCHANGED <<tables, changes, offset, cursorAt, cursorId, got, history>>

Deliver(P) ==
    /\ seen' = seen \cup P
    /\ twice' = (twice \/ seen \cap P # {})
    /\ UNCHANGED <<tables, changes, list, limit, began, left, touched>>

\* The boundary taken from the row that was only read to see whether there is
\* a next page.
MutantIsNextBefore(r, S) == IsLast("messages", Page("messages", S, 0, limit + 1), r)

IsNextBefore(r, S) == IsLast("messages", Page("messages", S, 0, limit), r)

\* GET /api/messages?space_key=: one row more than asked tells a next page.
ListMessagesBySpace ==
    LET S == {m \in Listed("messages") : cursorId > 0 => m < cursorId}
        P == Page("messages", S, 0, limit)
    IN  /\ list = "messages" /\ phase = "page"
        /\ Deliver(P)
        /\ \/ P = S /\ phase' = "done" /\ UNCHANGED cursorId
           \/ /\ P # S /\ UNCHANGED phase
              /\ \E r \in S : IsNextBefore(r, S) /\ cursorId' = r
        /\ UNCHANGED <<offset, cursorAt, got>>

\* GET /api/sent: the same with a cursor of two parts.
ListSentLog ==
    LET S == {m \in Listed("sent") : cursorId > 0 => Keyset(m, cursorAt, cursorId)}
        P == Page("sent", S, 0, limit)
    IN  /\ list = "sent" /\ phase = "page"
        /\ Deliver(P)
        /\ \/ P = S /\ phase' = "done" /\ UNCHANGED <<cursorAt, cursorId>>
           \/ /\ P # S /\ UNCHANGED phase
              /\ \E r \in P : /\ IsLast("sent", P, r)
                             /\ cursorId' = r /\ cursorAt' = sentAt[r]
        /\ UNCHANGED <<offset, got>>

\* GET /api/claude/pending and /api/claude/skipped: first the rows ...
ListByOffset ==
    LET P == Page(list, Listed(list), offset, limit)
    IN  /\ list \in {"pending", "skipped"} /\ phase = "page"
        /\ Deliver(P)
        /\ got' = Cardinality(P) /\ phase' = "count"
        /\ UNCHANGED <<offset, cursorAt, cursorId>>

\* The next page is sought a full page further, however many rows this one had.
MutantNextOffsetByLimit(total) ==
    IF offset + got >= total THEN 0 ELSE offset + limit

\* An off-by-one: the last row of a listing is taken for read.
MutantNextOffset(total) == IF offset + got + 1 >= total THEN 0 ELSE offset + got

NextOffset(total) == IF offset + got >= total THEN 0 ELSE offset + got

\* ... then, with the rows free to change in between, the total. A next_offset
\* of 0 says there is no more.
CountListed ==
    LET next == NextOffset(Cardinality(Listed(list)))
    IN  /\ phase = "count"
        /\ offset' = next
        /\ phase' = IF next = 0 THEN "done" ELSE "page"
        /\ UNCHANGED <<tables, changes, list, limit, cursorAt, cursorId, got, began, history>>

Next ==
    \/ Tick
    \/ \E muted \in BOOLEAN : InsertOrGetMessage(muted)
    \/ \E m \in Ids : \/ SkipMessage(m) \/ UnskipMessage(m)
                      \/ UpsertDraft(m) \/ UpdateDraftStatus(m)
    \/ \E l \in Lists, n \in Limits : Open(l, n)
    \/ ListMessagesBySpace \/ ListSentLog \/ ListByOffset \/ CountListed

Spec == Init /\ [][Next]_vars

-----------------------------------------------------------------------------
(* Properties. *)

\* The variables have their types.
TypeOK ==
    /\ now \in 1 .. MaxTime /\ rows \in 0 .. MaxRows
    /\ skippedAt \in [Ids -> 0 .. MaxTime]
    /\ draft \in [Ids -> {"none", "open", "sent"}]
    /\ sentAt \in [Ids -> 0 .. MaxTime]
    /\ list \in Lists \cup {"none"}
    /\ phase \in {"idle", "page", "count", "done"}
    /\ limit \in Limits \cup {0} /\ offset \in 0 .. MaxRows
    /\ cursorAt \in 0 .. MaxTime /\ cursorId \in 0 .. MaxRows /\ got \in 0 .. MaxRows
    /\ began \in SUBSET Ids /\ seen \in SUBSET Ids
    /\ twice \in BOOLEAN /\ left \in Nat /\ touched \in SUBSET Ids
    /\ changes \in 0 .. MaxChanges

\* GET /api/messages: whatever is ingested meanwhile, a client that follows
\* next_before_id to its end was given every message stored when it began, and
\* none twice.
MessagesOnce ==
    list = "messages" =>
        /\ ~twice
        /\ phase = "done" => began \subseteq seen

\* GET /api/sent: a client that reaches the end was given every draft that was
\* sent when it began, unless that draft was posted or reopened since. (Not
\* "once": see Keyset.)
SentLogMissesNothing ==
    list = "sent" /\ phase = "done" => began \ touched \subseteq seen

\* GET /api/claude/pending and /api/claude/skipped: an offset slips by one for
\* every row that leaves, so a finished walk may miss rows that were there all
\* the time, but never more of them than rows left, the count statement read
\* late included.
OffsetMissesBounded ==
    list \in {"pending", "skipped"} /\ phase = "done" =>
        Cardinality((began \cap Listed(list)) \ seen) <= left

=============================================================================
