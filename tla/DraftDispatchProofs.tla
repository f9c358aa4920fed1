------------------------ MODULE DraftDispatchProofs ------------------------
(***************************************************************************)
(* DispatchInv is an inductive invariant of DraftDispatch, for any number  *)
(* of tabs, concurrent requests, messages, drafts and faults; the safety   *)
(* properties and the refinement of ReplyContract follow from it.          *)
(***************************************************************************)
EXTENDS DraftDispatch, TLAPS

-----------------------------------------------------------------------------
(* Sequences and the sets of their elements                                *)

LEMMA ElementsType == ASSUME NEW S, NEW s \in Seq(S) PROVE ToSet(s) \subseteq S
BY DEF ToSet

LEMMA AppendElements ==
    ASSUME NEW S, NEW s \in Seq(S), NEW e \in S
    PROVE  Append(s, e) \in Seq(S) /\ ToSet(Append(s, e)) = ToSet(s) \cup {e}
<1>1. Append(s, e) \in Seq(S)
  OBVIOUS
<1>2. DOMAIN Append(s, e) = 1 .. Len(s) + 1 /\ DOMAIN s = 1 .. Len(s)
  OBVIOUS
<1>3. /\ \A i \in 1 .. Len(s) : Append(s, e)[i] = s[i]
      /\ Append(s, e)[Len(s) + 1] = e
      /\ Len(s) \in Nat
  OBVIOUS
<1>4. \A i \in 1 .. Len(s) + 1 : i \in 1 .. Len(s) \/ i = Len(s) + 1
  BY <1>3
<1>5. ToSet(Append(s, e)) \subseteq ToSet(s) \cup {e}
  BY <1>2, <1>3, <1>4 DEF ToSet
<1>6. ToSet(s) \subseteq ToSet(Append(s, e)) /\ e \in ToSet(Append(s, e))
  BY <1>2, <1>3 DEF ToSet
<1> QED  BY <1>1, <1>5, <1>6

LEMMA TailElements ==
    ASSUME NEW S, NEW s \in Seq(S), s # <<>>
    PROVE  /\ Head(s) \in S /\ Head(s) \in ToSet(s)
           /\ Tail(s) \in Seq(S) /\ ToSet(Tail(s)) \subseteq ToSet(s)
BY DEF ToSet

LEMMA EmptyElements == ASSUME NEW S PROVE <<>> \in Seq(S) /\ ToSet(<<>>) = {}
BY DEF ToSet

-----------------------------------------------------------------------------
(* What each kind of change preserves                                      *)

\* What every step keeps whatever it does to the requests: grants only grow, rows
\* only appear, and the invariant's parts about the table, texts and reports hold.
Kept ==
    /\ granted \subseteq granted'
    /\ \A e \in Drafts : Exists(e) => Exists(e)'
    /\ CarriedTextIsGranted' /\ NothingDangles' /\ ReportsAreHonest'
    /\ OnlyApprovedTextIsPosted' /\ SentWasPosted'

LEMMA DraftsArePositive == \A d \in Drafts : d \in 0 .. MaxDrafts
BY BoundsAssumption DEF Drafts

\* The two requests that hold nothing.
LEMMA EmptyHanded ==
    \A r \in {Idle, Listing} : r \in Requests /\ r.pc \in {"idle", "list"} /\ r.todo = {}
<1>1. 0 \in 0 .. MaxDrafts
  BY BoundsAssumption
<1>2. Idle \in Requests /\ Idle.pc = "idle" /\ Idle.todo = {}
  BY <1>1 DEF Idle, Requests
<1>3. Listing \in Requests
  BY <1>1 DEF Listing, Idle, Requests
<1>4. Listing.pc = "list" /\ Listing.todo = {}
  BY DEF Listing, Idle
<1> QED  BY <1>2, <1>3, <1>4

LEMMA PushRestHoldsTodo ==
    ASSUME NEW todo, todo \subseteq Items
    PROVE  PushRest(todo) \in Requests /\ PushRest(todo).pc \in {"idle", "push"}
           /\ PushRest(todo).todo = todo
<1>1. 0 \in 0 .. MaxDrafts
  BY BoundsAssumption
<1> QED  BY <1>1, EmptyHanded DEF PushRest, Idle, Requests

\* A request takes one step while granted grows and no row disappears.
LEMMA RequestStep ==
    ASSUME TypeOK, HandlersAreReady,
           NEW w \in Workers, NEW r \in Requests, req' = [req EXCEPT ![w] = r], Ready(r)',
           granted \subseteq granted',
           \A d \in Drafts : Exists(d) => Exists(d)'
    PROVE  req' \in [Workers -> Requests] /\ HandlersAreReady'
<1>1. req' \in [Workers -> Requests]
  BY DEF TypeOK
<1>2. ASSUME NEW v \in Workers PROVE Ready(req[v])'
  <2>1. CASE v = w
    BY <2>1 DEF TypeOK
  <2>2. CASE v # w
    <3>1. req'[v] = req[v] /\ Ready(req[v])
      BY <2>2 DEF TypeOK, HandlersAreReady
    <3> QED  BY <3>1 DEF Ready
  <2> QED  BY <2>1, <2>2
<1> QED  BY <1>1, <1>2 DEF HandlersAreReady

\* No request takes a step while granted grows and no row disappears.
LEMMA RequestStutter ==
    ASSUME HandlersAreReady, req' = req, granted \subseteq granted',
           \A d \in Drafts : Exists(d) => Exists(d)'
    PROVE  HandlersAreReady'
BY DEF HandlersAreReady, Ready

\* One row is written. It may say "sent" only if Chat took some text of the draft.
LEMMA RowStep ==
    ASSUME DispatchInv, NEW d \in Drafts,
           NEW row \in [msg : Messages, body : Bodies, status : Statuses], WriteRow(d, row),
           row.status = "sent" => WasPosted(d),
           \A t \in Tabs : ToSet(up'[t]) \subseteq ToSet(up[t]),
           UNCHANGED <<sub, backlog, tabVars>>
    PROVE  rows' \in [Drafts -> Rows] /\ granted' \subseteq Items /\ Kept
<1> USE DEF DispatchInv, WriteRow, tabVars
<1>1. rows' \in [Drafts -> Rows] /\ rows'[d] = row /\ \A e \in Drafts \ {d} : rows'[e] = rows[e]
  BY DEF TypeOK, Rows
<1>2. granted \subseteq granted' /\ granted' \subseteq granted \cup {[draft |-> d, body |-> row.body]}
  OBVIOUS
<1>3. [draft |-> d, body |-> row.body] \in Items /\ granted' \subseteq Items
  BY <1>2 DEF TypeOK, Items
<1>4. Exists(d)' /\ \A e \in Drafts : Exists(e) => Exists(e)'
  BY <1>1 DEF Exists, Statuses
<1>5. CarriedTextIsGranted'
  BY <1>1, <1>2 DEF CarriedTextIsGranted
<1>6. NothingDangles'
  <2>1. \A i \in granted' : i.draft \in Drafts /\ Exists(i.draft)'
    BY <1>2, <1>3, <1>4 DEF NothingDangles, Items
  <2>2. ASSUME NEW t \in Tabs, NEW r \in ToSet(up'[t]) \cup ToSet(outbox'[t]) PROVE Exists(r.draft)'
    <3>1. up[t] \in Seq(Reports) /\ outbox[t] \in Seq(Reports) /\ outbox' = outbox
      BY DEF TypeOK
    <3>2. ToSet(up[t]) \cup ToSet(outbox[t]) \subseteq Reports
      BY <3>1, ElementsType
    <3>3. r \in ToSet(up[t]) \cup ToSet(outbox[t])
      BY <3>1
    <3>4. r.draft \in Drafts /\ Exists(r.draft)
      BY <3>2, <3>3 DEF NothingDangles, Reports
    <3> QED  BY <3>4, <1>4
  <2> QED  BY <2>1, <2>2 DEF NothingDangles
<1>7. ReportsAreHonest' /\ OnlyApprovedTextIsPosted' /\ SentWasPosted'
  BY <1>1, <1>2 DEF ReportsAreHonest, OnlyApprovedTextIsPosted, SentWasPosted, WasPosted
<1> QED  BY <1>1, <1>2, <1>3, <1>4, <1>5, <1>6, <1>7 DEF Kept

\* No row is written, and nothing is posted, carried or reported that was not before.
LEMMA TableStutter ==
    ASSUME DispatchInv, UNCHANGED <<table, posted>>,
           \A t \in Tabs :
              /\ ToSet(sub'[t]) \cup backlog'[t] \cup inFlight'[t] \cup polled'[t] \subseteq granted
              /\ ToSet(up'[t]) \cup ToSet(outbox'[t]) \subseteq ToSet(up[t]) \cup ToSet(outbox[t])
    PROVE  Kept
<1> USE DEF DispatchInv, table
<1>1. CarriedTextIsGranted'
  BY DEF CarriedTextIsGranted
<1>2. NothingDangles' /\ ReportsAreHonest'
  BY DEF NothingDangles, ReportsAreHonest, Exists, WasPosted
<1>3. OnlyApprovedTextIsPosted' /\ SentWasPosted'
  BY DEF OnlyApprovedTextIsPosted, SentWasPosted, WasPosted
<1> QED  BY <1>1, <1>2, <1>3 DEF Exists, Kept


\* Only requests and claims move.
LEMMA RequestsOnly ==
    ASSUME DispatchInv, UNCHANGED <<table, connVars, tabVars>>
    PROVE  Kept
<1>1. UNCHANGED <<sub, backlog, up, inFlight, outbox, polled, posted>>
  BY DEF connVars, tabVars
<1>2. \A t \in Tabs :
         /\ ToSet(sub'[t]) \cup backlog'[t] \cup inFlight'[t] \cup polled'[t] \subseteq granted
         /\ ToSet(up'[t]) \cup ToSet(outbox'[t]) \subseteq ToSet(up[t]) \cup ToSet(outbox[t])
  BY <1>1 DEF DispatchInv, CarriedTextIsGranted
<1> QED  BY <1>1, <1>2, TableStutter

-----------------------------------------------------------------------------
(* HTTP requests                                                           *)

LEMMA ReplyKeepsInv ==
    ASSUME DispatchInv, NEW w \in Workers, NEW m \in Messages, NEW b \in Bodies,
           NEW autoMode \in BOOLEAN, Reply(w, m, b, autoMode)
    PROVE  DispatchInv'
<1> USE DEF DispatchInv, Reply
<1>1. PICK d \in Latest(Actionable(m)) :
         Begin(w, "reply", [Idle EXCEPT !.pc = "write", !.msg = m, !.body = b,
                                !.draft = d, !.auto = AutoSend(autoMode, b)])
  OBVIOUS
<1> DEFINE r == [Idle EXCEPT !.pc = "write", !.msg = m, !.body = b,
                     !.draft = d, !.auto = AutoSend(autoMode, b)]
<1>2. d \in 0 .. MaxDrafts
  BY BoundsAssumption DEF Latest, Actionable, Drafts
<1>3. AutoSend(autoMode, b) \in BOOLEAN
  BY Zenon DEF AutoSend
<1>4. r \in Requests
  BY <1>2, <1>3 DEF Idle, Requests
<1>5. r.pc = "write" /\ r.msg = m /\ r.body = b /\ r.todo = {}
  BY DEF Idle
<1>6. req' = [req EXCEPT ![w] = r] /\ requests' = requests + 1
  BY <1>1 DEF Begin
<1> HIDE DEF r
<1>7. UNCHANGED <<table, connVars, tabVars>>
  OBVIOUS
<1>8. HandlersAreReady' /\ req' \in [Workers -> Requests]
  BY <1>4, <1>5, <1>6, <1>7, RequestStep, RequestsOnly DEF Kept, Ready
<1>9. TypeOK'
  BY <1>6, <1>8 DEF TypeOK, table, connVars, tabVars
<1> QED  BY <1>7, <1>8, <1>9, RequestsOnly DEF Kept

LEMMA ReplyWriteKeepsInv ==
    ASSUME DispatchInv, NEW w \in Workers, ReplyWrite(w)
    PROVE  DispatchInv'
<1> USE DEF DispatchInv, ReplyWrite
<1>1. PICK d \in Drafts :
        /\ WriteRow(d, [msg |-> req[w].msg, body |-> req[w].body, status |-> Promote(req[w].auto)])
        /\ Continue(w, [Idle EXCEPT !.pc = "release", !.draft = d, !.auto = req[w].auto])
  OBVIOUS
<1> DEFINE row == [msg |-> req[w].msg, body |-> req[w].body, status |-> Promote(req[w].auto)]
           auto == req[w].auto
           r == [Idle EXCEPT !.pc = "release", !.draft = d, !.auto = auto]
<1>2. /\ req[w].msg \in Messages /\ req[w].body \in Bodies /\ auto \in BOOLEAN
  BY DEF HandlersAreReady, Ready, TypeOK, Requests
<1>3. row \in [msg : Messages, body : Bodies, status : Statuses] /\ row.status # "sent"
  BY <1>2 DEF Promote, Statuses
<1>4. WriteRow(d, row) /\ req' = [req EXCEPT ![w] = r] /\ UNCHANGED requests
  BY <1>1 DEF Continue
<1>5. d \in 0 .. MaxDrafts
  BY DraftsArePositive
<1> HIDE DEF row, auto
<1>6. r \in Requests /\ r.pc = "release" /\ r.todo = {}
  BY <1>2, <1>5 DEF Idle, Requests
<1> HIDE DEF r
<1>7. \A t \in Tabs : ToSet(up'[t]) \subseteq ToSet(up[t])
  BY DEF connVars
<1>8. rows' \in [Drafts -> Rows] /\ granted' \subseteq Items /\ Kept
  BY <1>3, <1>4, <1>7, RowStep DEF connVars
<1>9. HandlersAreReady' /\ req' \in [Workers -> Requests]
  BY <1>4, <1>6, <1>8, RequestStep DEF Kept, Ready
<1>10. TypeOK'
  BY <1>4, <1>8, <1>9 DEF TypeOK, connVars, tabVars
<1> QED  BY <1>8, <1>9, <1>10 DEF Kept

LEMMA ReplyReleaseKeepsInv ==
    ASSUME DispatchInv, NEW w \in Workers, ReplyRelease(w)
    PROVE  DispatchInv'
<1> USE DEF DispatchInv, ReplyRelease
<1> DEFINE r == IF req[w].auto THEN Listing ELSE Idle
<1>1. r \in Requests /\ r.pc \in {"idle", "list"} /\ r.todo = {}
  BY EmptyHanded
<1>2. req' = [req EXCEPT ![w] = r] /\ UNCHANGED <<requests, table, connVars, tabVars>>
  BY DEF Continue
<1> HIDE DEF r
<1>3. HandlersAreReady' /\ req' \in [Workers -> Requests]
  BY <1>1, <1>2, RequestStep, RequestsOnly DEF Kept, Ready
<1>4. TypeOK'
  BY <1>2, <1>3 DEF TypeOK, table, connVars, tabVars
<1> QED  BY <1>2, <1>3, <1>4, RequestsOnly DEF Kept

LEMMA ApproveEditedKeepsInv ==
    ASSUME DispatchInv, NEW w \in Workers, NEW d \in Drafts, NEW b \in Bodies,
           NEW badSendMode \in BOOLEAN, ApproveEdited(w, d, b, badSendMode)
    PROVE  DispatchInv'
<1> USE DEF DispatchInv, ApproveEdited
<1> DEFINE row == [rows[d] EXCEPT !.body = b]
           r == IF badSendMode THEN Idle ELSE [Idle EXCEPT !.pc = "status", !.draft = d]
<1>1. rows[d] \in [msg : Messages, body : Bodies, status : Statuses]
  BY DEF TypeOK, Rows, NoRow, Exists
<1>2. /\ row \in [msg : Messages, body : Bodies, status : Statuses]
      /\ row.status = "sent" => WasPosted(d)
  BY <1>1 DEF SentWasPosted
<1>3. WriteRow(d, row) /\ req' = [req EXCEPT ![w] = r] /\ requests' = requests + 1
  BY DEF Begin
<1>4. [draft |-> d, body |-> b] \in Items /\ d \in 0 .. MaxDrafts
  BY DraftsArePositive DEF Items
<1>5. r \in Requests /\ r.pc \in {"idle", "status"} /\ r.todo = {} /\ (r.pc = "status" => r.draft = d)
  BY <1>4, EmptyHanded DEF Idle, Requests
<1> HIDE DEF row, r
<1>6. \A t \in Tabs : ToSet(up'[t]) \subseteq ToSet(up[t])
  BY DEF connVars
<1>7. rows' \in [Drafts -> Rows] /\ granted' \subseteq Items /\ Kept
  BY <1>2, <1>3, <1>6, RowStep DEF connVars
<1>8. HandlersAreReady' /\ req' \in [Workers -> Requests]
  BY <1>3, <1>5, <1>7, RequestStep DEF Kept, Ready
<1>9. TypeOK'
  BY <1>3, <1>4, <1>7, <1>8 DEF TypeOK, connVars, tabVars
<1> QED  BY <1>7, <1>8, <1>9 DEF Kept

LEMMA ApprovalKeepsInv ==
    ASSUME DispatchInv, NEW w \in Workers, NEW d \in Drafts, Exists(d), MarkApproved(d),
           req' = [req EXCEPT ![w] = Listing], requests' \in Nat
    PROVE  DispatchInv'
<1> USE DEF DispatchInv, MarkApproved, SetStatus
<1> DEFINE row == [rows[d] EXCEPT !.status = "approved"]
<1>1. rows[d] \in [msg : Messages, body : Bodies, status : Statuses]
  BY DEF TypeOK, Rows, NoRow, Exists
<1>2. row \in [msg : Messages, body : Bodies, status : Statuses] /\ row.status # "sent"
  BY <1>1 DEF Statuses
<1>3. [draft |-> d, body |-> rows[d].body] \in Items
  BY <1>1 DEF Items
<1>4. WriteRow(d, row)
  OBVIOUS
<1> HIDE DEF row
<1>5. \A t \in Tabs : ToSet(up'[t]) \subseteq ToSet(up[t])
  BY DEF connVars
<1>6. rows' \in [Drafts -> Rows] /\ granted' \subseteq Items /\ Kept
  BY <1>2, <1>4, <1>5, RowStep DEF connVars
<1>7. HandlersAreReady' /\ req' \in [Workers -> Requests]
  BY <1>6, EmptyHanded, RequestStep DEF Kept, Ready
<1>8. TypeOK'
  BY <1>3, <1>6, <1>7 DEF TypeOK, connVars, tabVars
<1> QED  BY <1>6, <1>7, <1>8 DEF Kept

LEMMA RejectKeepsInv ==
    ASSUME DispatchInv, NEW d \in Drafts, Reject(d)
    PROVE  DispatchInv'
<1> USE DEF DispatchInv, Reject, SetStatus
<1> DEFINE row == [rows[d] EXCEPT !.status = "rejected"]
<1>1. rows[d] \in [msg : Messages, body : Bodies, status : Statuses]
  BY DEF TypeOK, Rows, NoRow, Exists
<1>2. row \in [msg : Messages, body : Bodies, status : Statuses] /\ row.status # "sent"
  BY <1>1 DEF Statuses
<1>3. WriteRow(d, row)
  OBVIOUS
<1> HIDE DEF row
<1>4. \A t \in Tabs : ToSet(up'[t]) \subseteq ToSet(up[t])
  BY DEF connVars
<1>5. rows' \in [Drafts -> Rows] /\ granted' \subseteq Items /\ Kept
  BY <1>2, <1>3, <1>4, RowStep DEF connVars
<1>6. HandlersAreReady'
  BY <1>5, RequestStutter DEF Kept
<1>7. TypeOK'
  BY <1>5 DEF TypeOK, connVars, tabVars
<1> QED  BY <1>5, <1>6, <1>7 DEF Kept

LEMMA PatchKeepsInv ==
    ASSUME DispatchInv, NEW w \in Workers, NEW d \in Drafts, NEW b \in Bodies,
           NEW promote \in BOOLEAN, Patch(w, d, b, promote)
    PROVE  DispatchInv'
<1> USE DEF DispatchInv, Patch
<1> DEFINE row == [rows[d] EXCEPT !.body = b, !.status = Promote(promote)]
           r == IF promote THEN Listing ELSE Idle
<1>1. rows[d] \in [msg : Messages, body : Bodies, status : Statuses]
  BY DEF TypeOK, Rows, NoRow, Exists
<1>2. row \in [msg : Messages, body : Bodies, status : Statuses] /\ row.status # "sent"
  BY <1>1 DEF Promote, Statuses
<1>3. WriteRow(d, row) /\ req' = [req EXCEPT ![w] = r] /\ requests' = requests + 1
  BY DEF Begin
<1>4. r \in Requests /\ r.pc \in {"idle", "list"} /\ r.todo = {}
  BY EmptyHanded
<1> HIDE DEF row, r
<1>5. \A t \in Tabs : ToSet(up'[t]) \subseteq ToSet(up[t])
  BY DEF connVars
<1>6. rows' \in [Drafts -> Rows] /\ granted' \subseteq Items /\ Kept
  BY <1>2, <1>3, <1>5, RowStep DEF connVars
<1>7. HandlersAreReady' /\ req' \in [Workers -> Requests]
  BY <1>3, <1>4, <1>6, RequestStep DEF Kept, Ready
<1>8. TypeOK'
  BY <1>3, <1>6, <1>7 DEF TypeOK, connVars, tabVars
<1> QED  BY <1>6, <1>7, <1>8 DEF Kept

LEMMA ListingsAreGranted ==
    ASSUME DispatchInv, NEW L \in Listings
    PROVE  L \subseteq granted /\ L \subseteq Items
<1>1. PICK S \in SUBSET ApprovedDrafts : L = {[draft |-> d, body |-> rows[d].body] : d \in S}
  BY DEF Listings
<1>2. \A d \in S : d \in Drafts /\ rows[d].status = "approved"
  BY DEF ApprovedDrafts
<1>3. L \subseteq granted
  BY <1>1, <1>2 DEF DispatchInv, CarriedTextIsGranted
<1> QED  BY <1>3 DEF DispatchInv, TypeOK

LEMMA PushListKeepsInv ==
    ASSUME DispatchInv, NEW w \in Workers, PushList(w)
    PROVE  DispatchInv'
<1> USE DEF DispatchInv, PushList
<1>1. PICK L \in Listings : Continue(w, PushRest(L))
  OBVIOUS
<1>2. L \subseteq granted /\ L \subseteq Items
  BY ListingsAreGranted
<1>3. PushRest(L) \in Requests /\ PushRest(L).pc \in {"idle", "push"} /\ PushRest(L).todo \subseteq granted
  BY <1>2, PushRestHoldsTodo
<1>4. req' = [req EXCEPT ![w] = PushRest(L)] /\ UNCHANGED <<requests, table, connVars, tabVars>>
  BY <1>1 DEF Continue
<1>5. HandlersAreReady' /\ req' \in [Workers -> Requests]
  BY <1>3, <1>4, RequestStep, RequestsOnly DEF Kept, Ready
<1>6. TypeOK'
  BY <1>4, <1>5 DEF TypeOK, table, connVars, tabVars
<1> QED  BY <1>4, <1>5, <1>6, RequestsOnly DEF Kept

LEMMA PushClaimKeepsInv ==
    ASSUME DispatchInv, NEW w \in Workers, NEW item \in Items, PushClaim(w, item)
    PROVE  DispatchInv'
<1> USE DEF DispatchInv, PushClaim
<1> DEFINE rest == req[w].todo \ {item}
           publish == [Idle EXCEPT !.pc = "publish", !.draft = item.draft,
                          !.body = item.body, !.todo = rest]
           r == IF item.draft \in dispatched THEN PushRest(rest) ELSE publish
<1>1. rest \subseteq Items /\ rest \subseteq granted /\ item \in granted
  BY DEF TypeOK, Requests, HandlersAreReady, Ready
<1>2. PushRest(rest) \in Requests /\ PushRest(rest).pc \in {"idle", "push"} /\ PushRest(rest).todo \subseteq granted
  BY <1>1, PushRestHoldsTodo
<1>3. item.draft \in 0 .. MaxDrafts /\ item.draft \in Drafts /\ item.body \in Bodies
      /\ [draft |-> item.draft, body |-> item.body] = item
  BY DraftsArePositive DEF Items
<1>4. req' = [req EXCEPT ![w] = r] /\ UNCHANGED <<requests, table, connVars, tabVars>>
  BY DEF Continue
<1> HIDE DEF rest
<1>5. publish \in Requests /\ publish.pc = "publish" /\ publish.draft = item.draft
      /\ publish.body = item.body /\ publish.todo \subseteq granted
  BY <1>1, <1>3 DEF Idle, Requests
<1> HIDE DEF publish
<1>6. /\ r \in Requests /\ r.pc \in {"idle", "push", "publish"} /\ r.todo \subseteq granted
      /\ r.pc = "publish" => [draft |-> r.draft, body |-> r.body] \in granted
  BY <1>1, <1>2, <1>3, <1>5
<1> HIDE DEF r
<1>7. HandlersAreReady' /\ req' \in [Workers -> Requests]
  BY <1>4, <1>6, RequestStep, RequestsOnly DEF Kept, Ready
<1>8. TypeOK'
  BY <1>3, <1>4, <1>7 DEF TypeOK, table, connVars, tabVars
<1> QED  BY <1>4, <1>7, <1>8, RequestsOnly DEF Kept

LEMMA PushPublishKeepsInv ==
    ASSUME DispatchInv, NEW w \in Workers, PushPublish(w)
    PROVE  DispatchInv'
<1> USE DEF DispatchInv, PushPublish
<1> DEFINE item == [draft |-> req[w].draft, body |-> req[w].body]
           r == PushRest(req[w].todo)
<1>1. item \in granted /\ item \in Items /\ req[w].todo \subseteq granted /\ req[w].todo \subseteq Items
  BY DEF TypeOK, Requests, HandlersAreReady, Ready
<1>2. r \in Requests /\ r.pc \in {"idle", "push"} /\ r.todo \subseteq granted
  BY <1>1, PushRestHoldsTodo
<1>3. /\ req' = [req EXCEPT ![w] = r] /\ Publish(item)
      /\ UNCHANGED <<requests, table, dispatched, phase, backlog, up, releasing, tabVars, vouched, faults>>
  BY DEF Continue
<1> HIDE DEF item, r
<1>4. ASSUME NEW t \in Tabs
      PROVE  sub'[t] \in Seq(Items) /\ ToSet(sub'[t]) \subseteq granted
  <2>1. sub[t] \in Seq(Items) /\ ToSet(sub[t]) \subseteq granted
    BY DEF TypeOK, CarriedTextIsGranted
  <2>2. sub'[t] \in {sub[t], Append(sub[t], item)}
    BY <1>3 DEF Publish
  <2>3. Append(sub[t], item) \in Seq(Items) /\ ToSet(Append(sub[t], item)) = ToSet(sub[t]) \cup {item}
    BY <1>1, <2>1, AppendElements
  <2> QED  BY <1>1, <2>1, <2>2, <2>3
<1>5. sub' \in [Tabs -> Seq(Items)]
  BY <1>3, <1>4 DEF Publish
<1>6. Kept
  <2>1. UNCHANGED <<table, posted, backlog, inFlight, polled, up, outbox>>
    BY <1>3 DEF tabVars
  <2>2. \A t \in Tabs :
           /\ ToSet(sub'[t]) \cup backlog'[t] \cup inFlight'[t] \cup polled'[t] \subseteq granted
           /\ ToSet(up'[t]) \cup ToSet(outbox'[t]) \subseteq ToSet(up[t]) \cup ToSet(outbox[t])
    BY <1>4, <2>1 DEF CarriedTextIsGranted
  <2> QED  BY <2>1, <2>2, TableStutter
<1>7. HandlersAreReady' /\ req' \in [Workers -> Requests]
  BY <1>2, <1>3, <1>6, RequestStep DEF Kept, Ready
<1>8. TypeOK'
  BY <1>3, <1>5, <1>7 DEF TypeOK, table, tabVars
<1> QED  BY <1>6, <1>7, <1>8 DEF Kept

LEMMA AbortKeepsInv ==
    ASSUME DispatchInv, NEW w \in Workers, Abort(w)
    PROVE  DispatchInv'
<1> USE DEF DispatchInv, Abort
<1>1. Idle \in Requests /\ Idle.pc \in {"idle", "list"} /\ Idle.todo = {}
  BY EmptyHanded
<1>2. /\ req' = [req EXCEPT ![w] = Idle] /\ faults' = faults + 1
      /\ UNCHANGED <<requests, table, dispatched, connVars, tabVars, vouched>>
  BY DEF Continue, Fault
<1>3. HandlersAreReady' /\ req' \in [Workers -> Requests]
  BY <1>1, <1>2, RequestStep, RequestsOnly DEF Kept, Ready
<1>4. TypeOK'
  BY <1>2, <1>3 DEF TypeOK, table, connVars, tabVars
<1> QED  BY <1>2, <1>3, <1>4, RequestsOnly DEF Kept

-----------------------------------------------------------------------------
(* The WebSocket handler                                                   *)

LEMMA ConnectKeepsInv ==
    ASSUME DispatchInv, NEW t \in Tabs, Connect(t)
    PROVE  DispatchInv'
<1> USE DEF DispatchInv, Connect
<1>1. Kept
  <2>1. ASSUME NEW s \in Tabs
        PROVE  /\ ToSet(sub'[s]) \cup backlog'[s] \cup inFlight'[s] \cup polled'[s] \subseteq granted
               /\ ToSet(up'[s]) \cup ToSet(outbox'[s]) \subseteq ToSet(up[s]) \cup ToSet(outbox[s])
    <3>1. up'[s] \in {up[s], outbox[s]} /\ outbox'[s] \in {outbox[s], <<>>}
      BY DEF TypeOK
    <3> QED  BY <3>1, EmptyElements DEF CarriedTextIsGranted
  <2> QED  BY <2>1, TableStutter
<1>2. HandlersAreReady'
  BY <1>1, RequestStutter DEF Kept
<1>3. TypeOK'
  BY DEF TypeOK, table
<1> QED  BY <1>1, <1>2, <1>3 DEF Kept

LEMMA FlushListKeepsInv ==
    ASSUME DispatchInv, NEW t \in Tabs, FlushList(t)
    PROVE  DispatchInv'
<1> USE DEF DispatchInv, FlushList, tabVars
<1>1. PICK L \in Listings : backlog' = [backlog EXCEPT ![t] = L]
  OBVIOUS
<1>2. L \subseteq granted /\ L \subseteq Items
  BY ListingsAreGranted
<1>3. Kept
  <2>1. \A s \in Tabs :
           /\ ToSet(sub'[s]) \cup backlog'[s] \cup inFlight'[s] \cup polled'[s] \subseteq granted
           /\ ToSet(up'[s]) \cup ToSet(outbox'[s]) \subseteq ToSet(up[s]) \cup ToSet(outbox[s])
    BY <1>1, <1>2 DEF TypeOK, CarriedTextIsGranted
  <2> QED  BY <2>1, TableStutter
<1>4. HandlersAreReady'
  BY <1>3, RequestStutter DEF Kept
<1>5. TypeOK'
  BY <1>1, <1>2 DEF TypeOK, table
<1> QED  BY <1>3, <1>4, <1>5 DEF Kept

\* The frame a reader takes is about a row, and honest.
LEMMA HeadReport ==
    ASSUME DispatchInv, NEW t \in Tabs, up[t] # <<>>
    PROVE  /\ Head(up[t]) \in Reports
           /\ Exists(Head(up[t]).draft)
           /\ Head(up[t]).ok => WasPosted(Head(up[t]).draft)
           /\ [up EXCEPT ![t] = Tail(@)] \in [Tabs -> Seq(Reports)]
           /\ \A s \in Tabs : ToSet([up EXCEPT ![t] = Tail(@)][s]) \subseteq ToSet(up[s])
<1> USE DEF DispatchInv
<1>1. up[t] \in Seq(Reports)
  BY DEF TypeOK
<1>2. /\ Head(up[t]) \in Reports /\ Head(up[t]) \in ToSet(up[t])
      /\ Tail(up[t]) \in Seq(Reports) /\ ToSet(Tail(up[t])) \subseteq ToSet(up[t])
  BY <1>1, TailElements
<1>3. Exists(Head(up[t]).draft) /\ (Head(up[t]).ok => WasPosted(Head(up[t]).draft))
  BY <1>2 DEF NothingDangles, ReportsAreHonest
<1> QED  BY <1>2, <1>3 DEF TypeOK

LEMMA RecordReportKeepsInv ==
    ASSUME DispatchInv, NEW t \in Tabs, RecordReport(t)
    PROVE  DispatchInv'
<1> USE DEF DispatchInv, RecordReport, SetStatus
<1> DEFINE r == Head(up[t])
           row == [rows[r.draft] EXCEPT !.status = Outcome(r)]
<1>1. /\ r \in Reports /\ Exists(r.draft) /\ (r.ok => WasPosted(r.draft))
      /\ up' \in [Tabs -> Seq(Reports)] /\ \A s \in Tabs : ToSet(up'[s]) \subseteq ToSet(up[s])
  BY HeadReport
<1>2. WriteRow(r.draft, row) /\ releasing' = [releasing EXCEPT ![t] = r.draft]
  OBVIOUS
<1> HIDE DEF r
<1>3. r.draft \in Drafts /\ r.draft \in 0 .. MaxDrafts
  BY <1>1, DraftsArePositive DEF Reports
<1>4. rows[r.draft] \in [msg : Messages, body : Bodies, status : Statuses]
  BY <1>1, <1>3 DEF TypeOK, Rows, NoRow, Exists
<1>5. /\ row \in [msg : Messages, body : Bodies, status : Statuses]
      /\ row.status = "sent" => WasPosted(r.draft)
  BY <1>1, <1>4 DEF Statuses, Outcome
<1> HIDE DEF row
<1>6. rows' \in [Drafts -> Rows] /\ granted' \subseteq Items /\ Kept
  BY <1>1, <1>2, <1>3, <1>5, RowStep
<1>7. HandlersAreReady'
  BY <1>6, RequestStutter DEF Kept
<1>8. TypeOK'
  BY <1>1, <1>2, <1>3, <1>6 DEF TypeOK, tabVars
<1> QED  BY <1>6, <1>7, <1>8 DEF Kept

LEMMA LoseReportKeepsInv ==
    ASSUME DispatchInv, NEW t \in Tabs, LoseReport(t)
    PROVE  DispatchInv'
<1> USE DEF DispatchInv, LoseReport, tabVars, Fault
<1>1. up' \in [Tabs -> Seq(Reports)] /\ \A s \in Tabs : ToSet(up'[s]) \subseteq ToSet(up[s])
  BY HeadReport
<1>2. Kept
  <2>1. \A s \in Tabs :
           /\ ToSet(sub'[s]) \cup backlog'[s] \cup inFlight'[s] \cup polled'[s] \subseteq granted
           /\ ToSet(up'[s]) \cup ToSet(outbox'[s]) \subseteq ToSet(up[s]) \cup ToSet(outbox[s])
    BY <1>1 DEF CarriedTextIsGranted
  <2> QED  BY <2>1, TableStutter
<1>3. HandlersAreReady'
  BY <1>2, RequestStutter DEF Kept
<1>4. TypeOK'
  BY <1>1 DEF TypeOK, table
<1> QED  BY <1>2, <1>3, <1>4 DEF Kept

LEMMA ReleaseReportedKeepsInv ==
    ASSUME DispatchInv, NEW t \in Tabs, ReleaseReported(t)
    PROVE  DispatchInv'
<1> USE DEF DispatchInv, ReleaseReported, tabVars
<1>1. Kept
  <2>1. \A s \in Tabs :
           /\ ToSet(sub'[s]) \cup backlog'[s] \cup inFlight'[s] \cup polled'[s] \subseteq granted
           /\ ToSet(up'[s]) \cup ToSet(outbox'[s]) \subseteq ToSet(up[s]) \cup ToSet(outbox[s])
    BY DEF CarriedTextIsGranted
  <2> QED  BY <2>1, TableStutter
<1>2. HandlersAreReady'
  BY <1>1, RequestStutter DEF Kept
<1>3. TypeOK'
  BY BoundsAssumption DEF TypeOK, table
<1> QED  BY <1>1, <1>2, <1>3 DEF Kept

-----------------------------------------------------------------------------
(* The extension                                                           *)

\* The tab starts sending granted items.
LEMMA DispatchStep ==
    ASSUME DispatchInv, NEW t \in Tabs, NEW items, items \subseteq granted, Dispatch(t, items)
    PROVE  /\ inFlight' \in [Tabs -> SUBSET Items]
           /\ \A s \in Tabs : inFlight'[s] \subseteq granted
BY DEF DispatchInv, TypeOK, CarriedTextIsGranted, Dispatch

LEMMA ReceiveEventKeepsInv ==
    ASSUME DispatchInv, NEW t \in Tabs, ReceiveEvent(t)
    PROVE  DispatchInv'
<1> USE DEF DispatchInv, ReceiveEvent
<1>1. sub[t] \in Seq(Items) /\ ToSet(sub[t]) \subseteq granted
  BY DEF TypeOK, CarriedTextIsGranted
<1>2. /\ Head(sub[t]) \in ToSet(sub[t])
      /\ Tail(sub[t]) \in Seq(Items) /\ ToSet(Tail(sub[t])) \subseteq ToSet(sub[t])
  BY <1>1, TailElements
<1>3. inFlight' \in [Tabs -> SUBSET Items] /\ \A s \in Tabs : inFlight'[s] \subseteq granted
  BY <1>1, <1>2, DispatchStep
<1>4. Kept
  <2>1. \A s \in Tabs : ToSet(sub'[s]) \subseteq granted
    BY <1>1, <1>2 DEF TypeOK, CarriedTextIsGranted
  <2>2. \A s \in Tabs :
           /\ ToSet(sub'[s]) \cup backlog'[s] \cup inFlight'[s] \cup polled'[s] \subseteq granted
           /\ ToSet(up'[s]) \cup ToSet(outbox'[s]) \subseteq ToSet(up[s]) \cup ToSet(outbox[s])
    BY <1>3, <2>1 DEF CarriedTextIsGranted
  <2> QED  BY <2>2, TableStutter
<1>5. HandlersAreReady'
  BY <1>4, RequestStutter DEF Kept
<1>6. TypeOK'
  BY <1>2, <1>3 DEF TypeOK, table
<1> QED  BY <1>4, <1>5, <1>6 DEF Kept

LEMMA ReceiveBacklogKeepsInv ==
    ASSUME DispatchInv, NEW t \in Tabs, NEW item \in Items, ReceiveBacklog(t, item)
    PROVE  DispatchInv'
<1> USE DEF DispatchInv, ReceiveBacklog
<1>1. {item} \subseteq granted
  BY DEF CarriedTextIsGranted
<1>2. inFlight' \in [Tabs -> SUBSET Items] /\ \A s \in Tabs : inFlight'[s] \subseteq granted
  BY <1>1, DispatchStep
<1>3. Kept
  <2>1. \A s \in Tabs :
           /\ ToSet(sub'[s]) \cup backlog'[s] \cup inFlight'[s] \cup polled'[s] \subseteq granted
           /\ ToSet(up'[s]) \cup ToSet(outbox'[s]) \subseteq ToSet(up[s]) \cup ToSet(outbox[s])
    BY <1>2 DEF TypeOK, CarriedTextIsGranted
  <2> QED  BY <2>1, TableStutter
<1>4. HandlersAreReady'
  BY <1>3, RequestStutter DEF Kept
<1>5. TypeOK'
  BY <1>2 DEF TypeOK, table
<1> QED  BY <1>3, <1>4, <1>5 DEF Kept

\* Google Chat accepts items that were granted.
LEMMA PostStep ==
    ASSUME DispatchInv, UNCHANGED table, posted \subseteq posted', posted' \subseteq granted,
           \A t \in Tabs :
              ToSet(sub'[t]) \cup backlog'[t] \cup inFlight'[t] \cup polled'[t] \subseteq granted,
           \A t \in Tabs : \A r \in ToSet(up'[t]) \cup ToSet(outbox'[t]) :
              \/ r \in ToSet(up[t]) \cup ToSet(outbox[t])
              \/ Exists(r.draft) /\ (r.ok => WasPosted(r.draft)')
    PROVE  Kept /\ posted' \subseteq Items
<1> USE DEF DispatchInv, table
<1>1. CarriedTextIsGranted'
  BY DEF CarriedTextIsGranted
<1>2. NothingDangles' /\ ReportsAreHonest'
  BY DEF NothingDangles, ReportsAreHonest, Exists, WasPosted
<1>3. OnlyApprovedTextIsPosted' /\ SentWasPosted'
  BY DEF OnlyApprovedTextIsPosted, SentWasPosted, WasPosted
<1> QED  BY <1>1, <1>2, <1>3 DEF Exists, Kept, TypeOK

LEMMA FinishKeepsInv ==
    ASSUME DispatchInv, NEW t \in Tabs, NEW item \in Items,
           NEW landed \in BOOLEAN, NEW ok \in BOOLEAN, Finish(t, item, landed, ok)
    PROVE  DispatchInv'
<1> USE DEF DispatchInv, Finish
<1> DEFINE r == [draft |-> item.draft, ok |-> ok]
<1>1. item \in granted /\ Exists(item.draft) /\ r \in Reports /\ r.draft = item.draft /\ r.ok = ok
  BY DEF CarriedTextIsGranted, NothingDangles, Items, Reports
<1>2. posted \subseteq posted' /\ posted' \subseteq granted /\ (landed => item \in posted')
  BY <1>1 DEF OnlyApprovedTextIsPosted
<1>3. r.ok => WasPosted(r.draft)'
  BY <1>1, <1>2 DEF MayReport, WasPosted
<1>4. up[t] \in Seq(Reports) /\ outbox[t] \in Seq(Reports)
  BY DEF TypeOK
<1>5. /\ Append(up[t], r) \in Seq(Reports) /\ ToSet(Append(up[t], r)) = ToSet(up[t]) \cup {r}
      /\ Append(outbox[t], r) \in Seq(Reports) /\ ToSet(Append(outbox[t], r)) = ToSet(outbox[t]) \cup {r}
  BY <1>1, <1>4, AppendElements
<1>6. \/ up' = [up EXCEPT ![t] = Append(@, r)] /\ UNCHANGED outbox
      \/ UNCHANGED up /\ outbox' = [outbox EXCEPT ![t] = Append(@, r)]
      \/ UNCHANGED <<up, outbox>>
  BY DEF TypeOK
<1> HIDE DEF r
<1>7. up' \in [Tabs -> Seq(Reports)] /\ outbox' \in [Tabs -> Seq(Reports)]
  BY <1>5, <1>6 DEF TypeOK
<1>8. \A s \in Tabs : ToSet(up'[s]) \cup ToSet(outbox'[s]) \subseteq ToSet(up[s]) \cup ToSet(outbox[s]) \cup {r}
  BY <1>5, <1>6 DEF TypeOK
<1>9. \A s \in Tabs :
         ToSet(sub'[s]) \cup backlog'[s] \cup inFlight'[s] \cup polled'[s] \subseteq granted
  BY DEF TypeOK, CarriedTextIsGranted
<1>10. Kept /\ posted' \subseteq Items
  BY <1>1, <1>2, <1>3, <1>8, <1>9, PostStep
<1>11. HandlersAreReady'
  BY <1>10, RequestStutter DEF Kept
<1>12. TypeOK'
  BY <1>7, <1>10 DEF TypeOK, table
<1> QED  BY <1>10, <1>11, <1>12 DEF Kept

LEMMA PollKeepsInv ==
    ASSUME DispatchInv, NEW t \in Tabs, Poll(t)
    PROVE  DispatchInv'
<1> USE DEF DispatchInv, Poll, Fault, connVars
<1>1. PICK L \in Listings : polled' = [polled EXCEPT ![t] = L]
  OBVIOUS
<1>2. L \subseteq granted /\ L \subseteq Items
  BY ListingsAreGranted
<1>3. Kept
  <2>1. \A s \in Tabs :
           /\ ToSet(sub'[s]) \cup backlog'[s] \cup inFlight'[s] \cup polled'[s] \subseteq granted
           /\ ToSet(up'[s]) \cup ToSet(outbox'[s]) \subseteq ToSet(up[s]) \cup ToSet(outbox[s])
    BY <1>1, <1>2 DEF TypeOK, CarriedTextIsGranted
  <2> QED  BY <2>1, TableStutter
<1>4. HandlersAreReady'
  BY <1>3, RequestStutter DEF Kept
<1>5. TypeOK'
  BY <1>1, <1>2 DEF TypeOK, table
<1> QED  BY <1>3, <1>4, <1>5 DEF Kept

LEMMA PollAnswerKeepsInv ==
    ASSUME DispatchInv, NEW t \in Tabs, PollAnswer(t)
    PROVE  DispatchInv'
<1> USE DEF DispatchInv, PollAnswer, connVars
<1>1. polled[t] \subseteq granted
  BY DEF CarriedTextIsGranted
<1>2. inFlight' \in [Tabs -> SUBSET Items] /\ \A s \in Tabs : inFlight'[s] \subseteq granted
  BY <1>1, DispatchStep
<1>3. Kept
  <2>1. \A s \in Tabs :
           /\ ToSet(sub'[s]) \cup backlog'[s] \cup inFlight'[s] \cup polled'[s] \subseteq granted
           /\ ToSet(up'[s]) \cup ToSet(outbox'[s]) \subseteq ToSet(up[s]) \cup ToSet(outbox[s])
    BY <1>2 DEF TypeOK, CarriedTextIsGranted
  <2> QED  BY <2>1, TableStutter
<1>4. HandlersAreReady'
  BY <1>3, RequestStutter DEF Kept
<1>5. TypeOK'
  BY <1>2 DEF TypeOK, table
<1> QED  BY <1>3, <1>4, <1>5 DEF Kept

-----------------------------------------------------------------------------
(* Faults                                                                  *)

LEMMA DisconnectKeepsInv ==
    ASSUME DispatchInv, NEW t \in Tabs, Disconnect(t)
    PROVE  DispatchInv'
<1> USE DEF DispatchInv, Disconnect, Fault, tabVars
<1>1. Kept
  <2>1. \A s \in Tabs :
           /\ ToSet(sub'[s]) \cup backlog'[s] \cup inFlight'[s] \cup polled'[s] \subseteq granted
           /\ ToSet(up'[s]) \cup ToSet(outbox'[s]) \subseteq ToSet(up[s]) \cup ToSet(outbox[s])
    BY EmptyElements DEF TypeOK, CarriedTextIsGranted
  <2> QED  BY <2>1, TableStutter
<1>2. HandlersAreReady'
  BY <1>1, RequestStutter DEF Kept
<1>3. TypeOK'
  BY DEF TypeOK, table
<1> QED  BY <1>1, <1>2, <1>3 DEF Kept

LEMMA ReloadKeepsInv ==
    ASSUME DispatchInv, NEW t \in Tabs, NEW taken \in SUBSET Items, Reload(t, taken)
    PROVE  DispatchInv'
<1> USE DEF DispatchInv, Reload, Fault
<1>1. taken \subseteq granted
  BY DEF CarriedTextIsGranted
<1>2. posted \subseteq posted' /\ posted' \subseteq granted
  BY <1>1 DEF OnlyApprovedTextIsPosted
<1>3. \A s \in Tabs :
         /\ ToSet(sub'[s]) \cup backlog'[s] \cup inFlight'[s] \cup polled'[s] \subseteq granted
         /\ ToSet(up'[s]) \cup ToSet(outbox'[s]) \subseteq ToSet(up[s]) \cup ToSet(outbox[s])
  BY EmptyElements DEF TypeOK, CarriedTextIsGranted
<1>4. Kept /\ posted' \subseteq Items
  BY <1>2, <1>3, PostStep
<1>5. HandlersAreReady'
  BY <1>4, RequestStutter DEF Kept
<1>6. TypeOK'
  BY <1>4 DEF TypeOK, table
<1> QED  BY <1>4, <1>5, <1>6 DEF Kept

LEMMA RestartKeepsInv ==
    ASSUME DispatchInv, Restart
    PROVE  DispatchInv'
<1> USE DEF DispatchInv, Restart, Fault, tabVars
<1>1. Kept
  <2>1. \A s \in Tabs :
           /\ ToSet(sub'[s]) \cup backlog'[s] \cup inFlight'[s] \cup polled'[s] \subseteq granted
           /\ ToSet(up'[s]) \cup ToSet(outbox'[s]) \subseteq ToSet(up[s]) \cup ToSet(outbox[s])
    BY EmptyElements DEF TypeOK, CarriedTextIsGranted
  <2> QED  BY <2>1, TableStutter
<1>2. Idle \in Requests /\ Idle.pc \in {"idle", "list"} /\ Idle.todo = {}
  BY EmptyHanded
<1>3. HandlersAreReady'
  BY <1>2 DEF HandlersAreReady, Ready
<1>4. TypeOK'
  BY <1>2, BoundsAssumption DEF TypeOK, table
<1> QED  BY <1>1, <1>3, <1>4 DEF Kept

-----------------------------------------------------------------------------
(* The theorems                                                            *)

LEMMA InitEstablishesInv == Init => DispatchInv
<1> SUFFICES ASSUME Init PROVE DispatchInv
  OBVIOUS
<1> USE DEF Init
<1>1. Idle \in Requests /\ Idle.pc \in {"idle", "list"} /\ Idle.todo = {}
  BY EmptyHanded
<1>2. TypeOK
  BY <1>1, BoundsAssumption DEF TypeOK, Rows
<1>3. HandlersAreReady
  BY <1>1 DEF HandlersAreReady, Ready
<1>4. CarriedTextIsGranted /\ NothingDangles /\ ReportsAreHonest
  BY EmptyElements DEF CarriedTextIsGranted, NothingDangles, ReportsAreHonest, NoRow
<1>5. OnlyApprovedTextIsPosted /\ SentWasPosted
  BY DEF OnlyApprovedTextIsPosted, SentWasPosted, NoRow
<1> QED  BY <1>2, <1>3, <1>4, <1>5 DEF DispatchInv

LEMMA StartStepKeepsInv ==
    ASSUME DispatchInv, NEW w \in Workers, StartStep(w)
    PROVE  DispatchInv'
<1>1. ASSUME NEW m \in Messages, NEW b \in Bodies, NEW autoMode \in BOOLEAN, Reply(w, m, b, autoMode)
      PROVE  DispatchInv'
  BY <1>1, ReplyKeepsInv
<1>2. ASSUME NEW d \in Drafts, NEW b \in Bodies, NEW bad \in BOOLEAN, ApproveEdited(w, d, b, bad)
      PROVE  DispatchInv'
  BY <1>2, ApproveEditedKeepsInv
<1>3. ASSUME NEW d \in Drafts, Approve(w, d)
      PROVE  DispatchInv'
  <2>1. /\ Exists(d) /\ MarkApproved(d)
        /\ req' = [req EXCEPT ![w] = Listing] /\ requests' = requests + 1
    BY <1>3 DEF Approve, Begin
  <2>2. requests' \in Nat
    BY <2>1 DEF DispatchInv, TypeOK
  <2> QED  BY <2>1, <2>2, ApprovalKeepsInv
<1>4. ASSUME NEW d \in Drafts, NEW b \in Bodies, NEW promote \in BOOLEAN, Patch(w, d, b, promote)
      PROVE  DispatchInv'
  BY <1>4, PatchKeepsInv
<1> QED  BY <1>1, <1>2, <1>3, <1>4 DEF StartStep

LEMMA HandlerStepKeepsInv ==
    ASSUME DispatchInv, NEW w \in Workers, HandlerStep(w)
    PROVE  DispatchInv'
<1>1. CASE ReplyWrite(w)
  BY <1>1, ReplyWriteKeepsInv
<1>2. CASE ReplyRelease(w)
  BY <1>2, ReplyReleaseKeepsInv
<1>3. CASE ApproveStatus(w)
  <2>1. req[w].draft \in Drafts /\ Exists(req[w].draft) /\ MarkApproved(req[w].draft)
    BY <1>3 DEF ApproveStatus, DispatchInv, HandlersAreReady, Ready
  <2>2. req' = [req EXCEPT ![w] = Listing] /\ requests' \in Nat
    BY <1>3 DEF ApproveStatus, Continue, DispatchInv, TypeOK
  <2> QED  BY <2>1, <2>2, ApprovalKeepsInv
<1>4. CASE PushList(w)
  BY <1>4, PushListKeepsInv
<1>5. ASSUME NEW item \in Items, PushClaim(w, item)
      PROVE  DispatchInv'
  BY <1>5, PushClaimKeepsInv
<1>6. CASE PushPublish(w)
  BY <1>6, PushPublishKeepsInv
<1> QED  BY <1>1, <1>2, <1>3, <1>4, <1>5, <1>6 DEF HandlerStep

LEMMA TabStepKeepsInv ==
    ASSUME DispatchInv, NEW t \in Tabs,
           \/ Connect(t) \/ FlushList(t) \/ ReceiveStep(t)
           \/ FinishStep(t) \/ ReportStep(t) \/ PollAnswer(t)
    PROVE  DispatchInv'
<1>1. CASE Connect(t)
  BY <1>1, ConnectKeepsInv
<1>2. CASE FlushList(t)
  BY <1>2, FlushListKeepsInv
<1>3. CASE ReceiveStep(t)
  BY <1>3, ReceiveEventKeepsInv, ReceiveBacklogKeepsInv DEF ReceiveStep
<1>4. CASE FinishStep(t)
  BY <1>4, FinishKeepsInv DEF FinishStep
<1>5. CASE ReportStep(t)
  BY <1>5, RecordReportKeepsInv, ReleaseReportedKeepsInv DEF ReportStep
<1>6. CASE PollAnswer(t)
  BY <1>6, PollAnswerKeepsInv
<1> QED  BY <1>1, <1>2, <1>3, <1>4, <1>5, <1>6

LEMMA FaultStepKeepsInv == ASSUME DispatchInv, FaultStep PROVE DispatchInv'
<1>1. ASSUME NEW w \in Workers, Abort(w) PROVE DispatchInv'
  BY <1>1, AbortKeepsInv
<1>2. ASSUME NEW t \in Tabs, LoseReport(t) \/ Disconnect(t) \/ Poll(t) PROVE DispatchInv'
  BY <1>2, LoseReportKeepsInv, DisconnectKeepsInv, PollKeepsInv
<1>3. ASSUME NEW t \in Tabs, NEW taken \in SUBSET Items, Reload(t, taken) PROVE DispatchInv'
  BY <1>3, ReloadKeepsInv
<1>4. CASE Restart
  BY <1>4, RestartKeepsInv
<1> QED  BY <1>1, <1>2, <1>3, <1>4 DEF FaultStep

LEMMA StutterKeepsInv == ASSUME DispatchInv, UNCHANGED vars PROVE DispatchInv'
BY DEF vars, table, connVars, tabVars, DispatchInv, TypeOK, HandlersAreReady, Ready, Exists,
       CarriedTextIsGranted, NothingDangles, ReportsAreHonest, WasPosted,
       OnlyApprovedTextIsPosted, SentWasPosted

LEMMA NextKeepsInv == DispatchInv /\ [Next]_vars => DispatchInv'
<1> SUFFICES ASSUME DispatchInv, [Next]_vars PROVE DispatchInv'
  OBVIOUS
<1>1. ASSUME NEW w \in Workers, StartStep(w) \/ HandlerStep(w) PROVE DispatchInv'
  BY <1>1, StartStepKeepsInv, HandlerStepKeepsInv
<1>2. ASSUME NEW d \in Drafts, Reject(d) PROVE DispatchInv'
  BY <1>2, RejectKeepsInv
<1>3. ASSUME NEW t \in Tabs,
             \/ Connect(t) \/ FlushList(t) \/ ReceiveStep(t)
             \/ FinishStep(t) \/ ReportStep(t) \/ PollAnswer(t)
      PROVE  DispatchInv'
  BY <1>3, TabStepKeepsInv
<1>4. CASE FaultStep
  BY <1>4, FaultStepKeepsInv
<1>5. CASE UNCHANGED vars
  BY <1>5, StutterKeepsInv
<1> QED  BY <1>1, <1>2, <1>3, <1>4, <1>5 DEF Next

\* DispatchInv holds in every reachable state: each text on its way to Google Chat
\* was granted, each report of success is true, and every handler that is about to
\* write a row has a row to write.
THEOREM DispatchInvariant == Spec => []DispatchInv
<1>1. Init => DispatchInv
  BY InitEstablishesInv
<1>2. DispatchInv /\ [Next]_vars => DispatchInv'
  BY NextKeepsInv
<1> QED  BY <1>1, <1>2, PTL DEF Spec

\* Rows, requests, channels, sockets and the extension's state keep their shapes.
THEOREM TypeCorrect == Spec => []TypeOK
<1>1. DispatchInv => TypeOK
  BY DEF DispatchInv
<1> QED  BY <1>1, DispatchInvariant, PTL

\* Whatever route carried it, Google Chat only receives a text its draft held while
\* it was approved.
THEOREM OnlyApprovedIsPosted == Spec => []OnlyApprovedTextIsPosted
<1>1. DispatchInv => OnlyApprovedTextIsPosted
  BY DEF DispatchInv
<1> QED  BY <1>1, DispatchInvariant, PTL

\* A row marked "sent" belongs to a draft of which Google Chat accepted some text.
THEOREM SentIsPosted == Spec => []SentWasPosted
<1>1. DispatchInv => SentWasPosted
  BY DEF DispatchInv
<1> QED  BY <1>1, DispatchInvariant, PTL

-----------------------------------------------------------------------------
(* The safety rails, where no generation of PATCH /api/drafts/{id} is      *)
(* promoted: that handler does not call safety.Check.                      *)

LEMMA GrantKeepsRails ==
    ASSUME DispatchInv, AutoModeSparesFlagged, vouched \subseteq vouched',
           \A i \in granted' \ granted : i.body \in Flagged => i \in vouched',
           \A w \in Workers : req'[w].pc = "write" => req'[w] = req[w]
    PROVE  AutoModeSparesFlagged'
BY DEF AutoModeSparesFlagged

LEMMA RowIsFull ==
    ASSUME TypeOK, NEW d \in Drafts, Exists(d)
    PROVE  rows[d] \in [msg : Messages, body : Bodies, status : Statuses]
BY DEF TypeOK, Rows, NoRow, Exists

LEMMA StartStepKeepsRails ==
    ASSUME "promote" \notin RequestKinds, DispatchInv, AutoModeSparesFlagged,
           NEW w \in Workers, StartStep(w)
    PROVE  AutoModeSparesFlagged'
<1> USE DEF DispatchInv, TypeOK
<1>1. ASSUME NEW m \in Messages, NEW b \in Bodies, NEW autoMode \in BOOLEAN, Reply(w, m, b, autoMode)
      PROVE  AutoModeSparesFlagged'
  <2>1. PICK d \in Latest(Actionable(m)) :
          req' = [req EXCEPT ![w] = [Idle EXCEPT !.pc = "write", !.msg = m, !.body = b,
                                        !.draft = d, !.auto = AutoSend(autoMode, b)]]
    BY <1>1 DEF Reply, Begin
  <2>2. AutoSend(autoMode, b) => b \notin Flagged
    BY DEF AutoSend
  <2>3. /\ req'[w].auto = AutoSend(autoMode, b) /\ req'[w].body = b
        /\ \A v \in Workers \ {w} : req'[v] = req[v]
    BY <2>1 DEF Idle
  <2>4. granted' = granted /\ vouched' = vouched
    BY <1>1 DEF Reply, table
  <2> QED  BY <2>2, <2>3, <2>4 DEF AutoModeSparesFlagged
<1>2. ASSUME NEW d \in Drafts, NEW b \in Bodies, NEW bad \in BOOLEAN, ApproveEdited(w, d, b, bad)
      PROVE  AutoModeSparesFlagged'
  <2>1. rows[d].body \in Bodies /\ [rows[d] EXCEPT !.body = b].body = b
    BY <1>2 DEF ApproveEdited, Exists, Rows, NoRow
  <2>2. \A i \in granted' \ granted : i \in vouched'
    BY <1>2, <2>1 DEF ApproveEdited, WriteRow
  <2>3. \A v \in Workers : req'[v].pc = "write" => req'[v] = req[v]
    BY <1>2 DEF ApproveEdited, Begin, Idle
  <2> QED  BY <1>2, <2>2, <2>3, GrantKeepsRails DEF ApproveEdited
<1>3. ASSUME NEW d \in Drafts, Approve(w, d) PROVE AutoModeSparesFlagged'
  <2>1. \A i \in granted' \ granted : i \in vouched'
    BY <1>3 DEF Approve, MarkApproved, SetStatus, WriteRow
  <2>2. \A v \in Workers : req'[v].pc = "write" => req'[v] = req[v]
    BY <1>3 DEF Approve, Begin, Listing, Idle
  <2> QED  BY <1>3, <2>1, <2>2, GrantKeepsRails DEF Approve, MarkApproved
<1>4. ASSUME NEW d \in Drafts, NEW b \in Bodies, NEW promote \in BOOLEAN, Patch(w, d, b, promote)
      PROVE  AutoModeSparesFlagged'
  <2>1. promote = FALSE /\ req' = [req EXCEPT ![w] = Idle] /\ vouched' = vouched
    BY <1>4 DEF Patch, Begin
  <2>2. rows[d] \in [msg : Messages, body : Bodies, status : Statuses]
    BY <1>4, RowIsFull DEF Patch
  <2>3. [rows[d] EXCEPT !.body = b, !.status = Promote(promote)].status = "pending"
    BY <2>1, <2>2 DEF Promote
  <2>4. granted' = granted
    BY <1>4, <2>3 DEF Patch, WriteRow
  <2> QED  BY <2>1, <2>4, GrantKeepsRails DEF Idle
<1> QED  BY <1>1, <1>2, <1>3, <1>4 DEF StartStep

LEMMA HandlerStepKeepsRails ==
    ASSUME DispatchInv, AutoModeSparesFlagged, NEW w \in Workers, HandlerStep(w)
    PROVE  AutoModeSparesFlagged'
<1> USE DEF DispatchInv, TypeOK
<1> DEFINE Rest == \A v \in Workers : req'[v].pc = "write" => req'[v] = req[v]
<1>1. CASE ReplyWrite(w)
  <2>1. PICK d \in Drafts :
          /\ WriteRow(d, [msg |-> req[w].msg, body |-> req[w].body, status |-> Promote(req[w].auto)])
          /\ req' = [req EXCEPT ![w] = [Idle EXCEPT !.pc = "release", !.draft = d, !.auto = req[w].auto]]
    BY <1>1 DEF ReplyWrite, Continue
  <2>2. req[w].pc = "write" /\ vouched' = vouched
    BY <1>1 DEF ReplyWrite
  <2>3. \A i \in granted' \ granted : i.body = req[w].body /\ req[w].auto
    BY <2>1 DEF WriteRow, Promote
  <2>4. \A i \in granted' \ granted : i.body \notin Flagged
    BY <2>2, <2>3 DEF AutoModeSparesFlagged
  <2>5. Rest
    BY <2>1 DEF Idle
  <2> QED  BY <2>2, <2>4, <2>5, GrantKeepsRails
<1>2. CASE ReplyRelease(w)
  <2>1. UNCHANGED <<granted, vouched>> /\ Rest
    BY <1>2 DEF ReplyRelease, Continue, Listing, Idle, table
  <2> QED  BY <2>1, GrantKeepsRails
<1>3. CASE ApproveStatus(w)
  <2>1. \A i \in granted' \ granted : i \in vouched'
    BY <1>3 DEF ApproveStatus, MarkApproved, SetStatus, WriteRow
  <2>2. Rest /\ vouched \subseteq vouched'
    BY <1>3 DEF ApproveStatus, MarkApproved, Continue, Listing, Idle
  <2> QED  BY <2>1, <2>2, GrantKeepsRails
<1>4. CASE PushList(w)
  <2>1. UNCHANGED <<granted, vouched>> /\ Rest
    BY <1>4 DEF PushList, Continue, PushRest, Idle, table
  <2> QED  BY <2>1, GrantKeepsRails
<1>5. ASSUME NEW item \in Items, PushClaim(w, item) PROVE AutoModeSparesFlagged'
  <2>1. UNCHANGED <<granted, vouched>> /\ Rest
    BY <1>5 DEF PushClaim, Continue, PushRest, Idle, table
  <2> QED  BY <2>1, GrantKeepsRails
<1>6. CASE PushPublish(w)
  <2>1. UNCHANGED <<granted, vouched>> /\ Rest
    BY <1>6 DEF PushPublish, Continue, PushRest, Idle, table
  <2> QED  BY <2>1, GrantKeepsRails
<1> QED  BY <1>1, <1>2, <1>3, <1>4, <1>5, <1>6 DEF HandlerStep

LEMMA OtherStepsKeepRails ==
    ASSUME DispatchInv, AutoModeSparesFlagged,
           granted' \subseteq granted, vouched' = vouched,
           \A v \in Workers : req'[v] \in {req[v], Idle}
    PROVE  AutoModeSparesFlagged'
BY GrantKeepsRails DEF Idle

LEMMA NextKeepsRails ==
    ASSUME "promote" \notin RequestKinds, DispatchInv, AutoModeSparesFlagged, [Next]_vars
    PROVE  AutoModeSparesFlagged'
<1> USE DEF DispatchInv, TypeOK
<1> DEFINE Spared == granted' \subseteq granted /\ vouched' = vouched
                     /\ \A v \in Workers : req'[v] \in {req[v], Idle}
<1>1. ASSUME NEW w \in Workers, StartStep(w) \/ HandlerStep(w) PROVE AutoModeSparesFlagged'
  BY <1>1, StartStepKeepsRails, HandlerStepKeepsRails
<1>2. ASSUME NEW d \in Drafts, Reject(d) PROVE Spared
  <2>1. WriteRow(d, [rows[d] EXCEPT !.status = "rejected"]) /\ Exists(d) /\ UNCHANGED <<req, vouched>>
    BY <1>2 DEF Reject, SetStatus
  <2>2. [rows[d] EXCEPT !.status = "rejected"].status = "rejected"
    BY <2>1 DEF Rows, NoRow
  <2> QED  BY <2>1, <2>2 DEF WriteRow
<1>3. ASSUME NEW t \in Tabs, Connect(t) \/ FlushList(t) \/ ReceiveStep(t) \/ FinishStep(t) \/ PollAnswer(t)
      PROVE  Spared
  BY <1>3 DEF Connect, FlushList, ReceiveStep, ReceiveEvent, ReceiveBacklog, FinishStep, Finish, PollAnswer, table
<1>4. ASSUME NEW t \in Tabs, ReportStep(t) PROVE Spared
  <2>1. CASE ReleaseReported(t)
    BY <2>1 DEF ReleaseReported, table
  <2>2. CASE RecordReport(t)
    <3> DEFINE r == Head(up[t])
    <3>1. r \in Reports
      BY <2>2, HeadReport DEF RecordReport
    <3>2. rows[r.draft] \in Rows /\ Outcome(r) # "approved"
      BY <3>1 DEF Reports, Outcome
    <3>3. [rows[r.draft] EXCEPT !.status = Outcome(r)].status # "approved"
      BY <3>2 DEF Rows, NoRow
    <3>4. WriteRow(r.draft, [rows[r.draft] EXCEPT !.status = Outcome(r)]) /\ UNCHANGED <<req, vouched>>
      BY <2>2 DEF RecordReport, SetStatus
    <3> QED  BY <3>3, <3>4 DEF WriteRow
  <2> QED  BY <1>4, <2>1, <2>2 DEF ReportStep
<1>5. CASE FaultStep
  <2>1. ASSUME NEW w \in Workers, Abort(w) PROVE Spared
    BY <2>1 DEF Abort, Continue, table
  <2>2. ASSUME NEW t \in Tabs, LoseReport(t) \/ Disconnect(t) \/ Poll(t) PROVE Spared
    BY <2>2 DEF LoseReport, Disconnect, Poll, table
  <2>3. ASSUME NEW t \in Tabs, NEW taken \in SUBSET Items, Reload(t, taken) PROVE Spared
    BY <2>3 DEF Reload, table
  <2>4. CASE Restart
    <3>1. req' = [w \in Workers |-> Idle] /\ UNCHANGED <<rows, granted, vouched>>
      BY <2>4 DEF Restart, table
    <3>2. \A v \in Workers : req'[v] = Idle
      BY <3>1
    <3> QED  BY <3>1, <3>2, OtherStepsKeepRails
  <2> QED  BY <1>5, <2>1, <2>2, <2>3, <2>4, OtherStepsKeepRails DEF FaultStep
<1>6. CASE UNCHANGED vars
  BY <1>6 DEF vars, table, AutoModeSparesFlagged
<1> QED  BY <1>1, <1>2, <1>3, <1>4, <1>5, <1>6, OtherStepsKeepRails DEF Next

\* With the rails on and no PATCH of a draft promoting it, a text safety.Check flags
\* reaches Google Chat only if a human typed it or approved the draft while it held it.
THEOREM FlaggedNeedsAHuman ==
    ASSUME "promote" \notin RequestKinds
    PROVE  Spec => []FlaggedTextNeedsAHuman
<1>1. Init => AutoModeSparesFlagged
  BY DEF Init, AutoModeSparesFlagged, Idle
<1>2. DispatchInv /\ AutoModeSparesFlagged /\ [Next]_vars => AutoModeSparesFlagged'
  BY NextKeepsRails
<1>3. DispatchInv /\ AutoModeSparesFlagged => FlaggedTextNeedsAHuman
  BY DEF DispatchInv, OnlyApprovedTextIsPosted, AutoModeSparesFlagged, FlaggedTextNeedsAHuman
<1> QED  BY <1>1, <1>2, <1>3, DispatchInvariant, PTL DEF Spec

-----------------------------------------------------------------------------
(* Refinement: every step is a step of ReplyContract, or none              *)

Recorded == {d \in Drafts : rows[d].status = "sent"}

\* Nothing the contract sees changes.
LEMMA ContractStutter ==
    ASSUME UNCHANGED <<granted, posted>>, Recorded' = Recorded
    PROVE  UNCHANGED Contract!contractVars
BY DEF Contract!contractVars, Recorded

\* A row is written to a status other than "sent".
LEMMA DecisionStep ==
    ASSUME DispatchInv, NEW d \in Drafts,
           NEW row \in [msg : Messages, body : Bodies, status : Statuses], WriteRow(d, row),
           row.status # "sent", UNCHANGED posted
    PROVE  Contract!Next
<1> USE DEF DispatchInv, TypeOK, WriteRow
<1>1. row.body \in Bodies /\ granted' \in {granted, granted \cup {[draft |-> d, body |-> row.body]}}
  OBVIOUS
<1>2. \A e \in Drafts : rows'[e].status = "sent" <=> (rows[e].status = "sent" /\ e # d)
  OBVIOUS
<1>3. Recorded' = Recorded \ {d}
  BY <1>2 DEF Recorded
<1>4. Contract!Decide(d)
  BY <1>1, <1>3 DEF Contract!Decide, Recorded
<1> QED  BY <1>4 DEF Contract!Next

LEMMA ApprovalIsDecision ==
    ASSUME DispatchInv, NEW d \in Drafts, Exists(d), MarkApproved(d)
    PROVE  Contract!Next
<1> DEFINE row == [rows[d] EXCEPT !.status = "approved"]
<1>1. row \in [msg : Messages, body : Bodies, status : Statuses] /\ row.status # "sent"
  BY RowIsFull DEF DispatchInv, Statuses
<1>2. WriteRow(d, row) /\ UNCHANGED posted
  BY DEF MarkApproved, SetStatus, tabVars
<1> HIDE DEF row
<1> QED  BY <1>1, <1>2, DecisionStep

LEMMA StartStepRefines ==
    ASSUME DispatchInv, NEW w \in Workers, StartStep(w)
    PROVE  [Contract!Next]_(Contract!contractVars)
<1>1. ASSUME NEW m \in Messages, NEW b \in Bodies, NEW autoMode \in BOOLEAN, Reply(w, m, b, autoMode)
      PROVE  UNCHANGED Contract!contractVars
  BY <1>1, ContractStutter DEF Reply, table, tabVars, Recorded
<1>2. ASSUME NEW d \in Drafts, NEW b \in Bodies, NEW bad \in BOOLEAN, ApproveEdited(w, d, b, bad)
      PROVE  [Contract!Next]_(Contract!contractVars)
  <2> DEFINE row == [rows[d] EXCEPT !.body = b]
  <2>1. rows[d] \in [msg : Messages, body : Bodies, status : Statuses]
    BY <1>2, RowIsFull DEF ApproveEdited, DispatchInv
  <2>2. /\ row \in [msg : Messages, body : Bodies, status : Statuses]
        /\ row.status = rows[d].status
    BY <2>1
  <2>3. WriteRow(d, row) /\ UNCHANGED posted
    BY <1>2 DEF ApproveEdited, tabVars
  <2> HIDE DEF row
  <2>4. CASE rows[d].status # "sent"
    BY <2>2, <2>3, <2>4, DecisionStep
  <2>5. CASE rows[d].status = "sent"
    <3>1. granted' = granted /\ \A e \in Drafts : rows'[e].status = "sent" <=> rows[e].status = "sent"
      BY <2>2, <2>3, <2>5 DEF WriteRow, DispatchInv, TypeOK
    <3> QED  BY <2>3, <3>1, ContractStutter DEF Recorded
  <2> QED  BY <2>4, <2>5
<1>3. ASSUME NEW d \in Drafts, Approve(w, d) PROVE Contract!Next
  BY <1>3, ApprovalIsDecision DEF Approve
<1>4. ASSUME NEW d \in Drafts, NEW b \in Bodies, NEW promote \in BOOLEAN, Patch(w, d, b, promote)
      PROVE  Contract!Next
  <2> DEFINE row == [rows[d] EXCEPT !.body = b, !.status = Promote(promote)]
  <2>1. rows[d] \in [msg : Messages, body : Bodies, status : Statuses]
    BY <1>4, RowIsFull DEF Patch, DispatchInv
  <2>2. row \in [msg : Messages, body : Bodies, status : Statuses] /\ row.status # "sent"
    BY <2>1 DEF Promote, Statuses
  <2>3. WriteRow(d, row) /\ UNCHANGED posted
    BY <1>4 DEF Patch, tabVars
  <2> HIDE DEF row
  <2> QED  BY <2>2, <2>3, DecisionStep
<1> QED  BY <1>1, <1>2, <1>3, <1>4 DEF StartStep

LEMMA HandlerStepRefines ==
    ASSUME DispatchInv, NEW w \in Workers, HandlerStep(w)
    PROVE  [Contract!Next]_(Contract!contractVars)
<1>1. CASE ReplyWrite(w)
  <2>1. PICK d \in Drafts :
          WriteRow(d, [msg |-> req[w].msg, body |-> req[w].body, status |-> Promote(req[w].auto)])
    BY <1>1 DEF ReplyWrite
  <2> DEFINE row == [msg |-> req[w].msg, body |-> req[w].body, status |-> Promote(req[w].auto)]
  <2>2. row \in [msg : Messages, body : Bodies, status : Statuses] /\ row.status # "sent"
    BY <1>1 DEF ReplyWrite, DispatchInv, HandlersAreReady, Ready, Promote, Statuses
  <2>3. UNCHANGED posted /\ WriteRow(d, row)
    BY <1>1, <2>1 DEF ReplyWrite, tabVars
  <2> HIDE DEF row
  <2> QED  BY <2>2, <2>3, DecisionStep
<1>2. CASE ApproveStatus(w)
  BY <1>2, ApprovalIsDecision DEF ApproveStatus, DispatchInv, HandlersAreReady, Ready
<1>3. ASSUME \/ ReplyRelease(w) \/ PushList(w) \/ PushPublish(w)
             \/ \E item \in Items : PushClaim(w, item)
      PROVE  UNCHANGED Contract!contractVars
  BY <1>3, ContractStutter DEF ReplyRelease, PushList, PushPublish, PushClaim, table, tabVars, Recorded
<1> QED  BY <1>1, <1>2, <1>3 DEF HandlerStep

LEMMA RejectRefines ==
    ASSUME DispatchInv, NEW d \in Drafts, Reject(d)
    PROVE  Contract!Next
<1> DEFINE row == [rows[d] EXCEPT !.status = "rejected"]
<1>1. rows[d] \in [msg : Messages, body : Bodies, status : Statuses]
  BY RowIsFull DEF Reject, DispatchInv
<1>2. row \in [msg : Messages, body : Bodies, status : Statuses] /\ row.status # "sent"
  BY <1>1 DEF Statuses
<1>3. WriteRow(d, row) /\ UNCHANGED posted
  BY DEF Reject, SetStatus, tabVars
<1> HIDE DEF row
<1> QED  BY <1>2, <1>3, DecisionStep

\* Finish and Reload: Google Chat takes items that were in flight, so granted before.
LEMMA PostingRefines ==
    ASSUME DispatchInv, UNCHANGED table, posted \subseteq posted', posted' \subseteq posted \cup granted
    PROVE  Contract!Next
<1>1. Contract!Post
  BY DEF Contract!Post, table
<1> QED  BY <1>1 DEF Contract!Next

LEMMA ReportRefines ==
    ASSUME DispatchInv, NEW t \in Tabs, RecordReport(t)
    PROVE  Contract!Next
<1> USE DEF DispatchInv
<1> DEFINE r == Head(up[t])
           row == [rows[r.draft] EXCEPT !.status = Outcome(r)]
<1>1. r.draft \in Drafts /\ Exists(r.draft) /\ (r.ok => WasPosted(r.draft)) /\ r.ok \in BOOLEAN
  BY HeadReport DEF RecordReport, Reports
<1>2. WriteRow(r.draft, row) /\ UNCHANGED posted
  BY DEF RecordReport, SetStatus, tabVars
<1> HIDE DEF r
<1>3. rows[r.draft] \in [msg : Messages, body : Bodies, status : Statuses]
  BY <1>1, RowIsFull
<1>4. row \in [msg : Messages, body : Bodies, status : Statuses] /\ row.status = Outcome(r)
  BY <1>3 DEF Statuses, Outcome
<1> HIDE DEF row
<1>5. CASE r.ok
  <2>1. row.status = "sent" /\ WasPosted(r.draft)
    BY <1>1, <1>4, <1>5 DEF Outcome
  <2>2. granted' = granted /\ rows' = [rows EXCEPT ![r.draft] = row]
    BY <1>2, <2>1 DEF WriteRow
  <2>3. \A e \in Drafts : rows'[e].status = "sent" <=> (rows[e].status = "sent" \/ e = r.draft)
    BY <1>1, <2>1, <2>2 DEF TypeOK
  <2>4. Recorded' = Recorded \cup {r.draft}
    BY <1>1, <2>3 DEF Recorded
  <2>5. PICK d \in Drafts : d = r.draft
    BY <1>1
  <2>6. Contract!Record(d)
    BY <1>2, <2>1, <2>2, <2>4, <2>5 DEF Contract!Record, WasPosted, Recorded
  <2> QED  BY <2>6 DEF Contract!Next
<1>6. CASE ~r.ok
  <2>1. row.status # "sent"
    BY <1>4, <1>6 DEF Outcome
  <2> QED  BY <1>1, <1>2, <1>4, <2>1, DecisionStep
<1> QED  BY <1>5, <1>6

LEMMA TabStepRefines ==
    ASSUME DispatchInv, NEW t \in Tabs,
           \/ Connect(t) \/ FlushList(t) \/ ReceiveStep(t)
           \/ FinishStep(t) \/ ReportStep(t) \/ PollAnswer(t)
    PROVE  [Contract!Next]_(Contract!contractVars)
<1>1. CASE Connect(t) \/ FlushList(t) \/ ReceiveStep(t) \/ PollAnswer(t)
  BY <1>1, ContractStutter
     DEF Connect, FlushList, ReceiveStep, ReceiveEvent, ReceiveBacklog, PollAnswer, table, tabVars, Recorded
<1>2. ASSUME NEW item \in Items, NEW landed \in BOOLEAN, NEW ok \in BOOLEAN, Finish(t, item, landed, ok)
      PROVE  Contract!Next
  BY <1>2, PostingRefines DEF Finish, DispatchInv, CarriedTextIsGranted
<1>3. CASE RecordReport(t)
  BY <1>3, ReportRefines
<1>4. CASE ReleaseReported(t)
  BY <1>4, ContractStutter DEF ReleaseReported, table, tabVars, Recorded
<1> QED  BY <1>1, <1>2, <1>3, <1>4 DEF FinishStep, ReportStep

LEMMA FaultStepRefines ==
    ASSUME DispatchInv, FaultStep
    PROVE  [Contract!Next]_(Contract!contractVars)
<1>1. ASSUME \/ \E w \in Workers : Abort(w)
             \/ \E t \in Tabs : LoseReport(t) \/ Disconnect(t) \/ Poll(t)
             \/ Restart
      PROVE  UNCHANGED Contract!contractVars
  BY <1>1, ContractStutter DEF Abort, LoseReport, Disconnect, Poll, Restart, table, tabVars, Recorded
<1>2. ASSUME NEW t \in Tabs, NEW taken \in SUBSET Items, Reload(t, taken)
      PROVE  Contract!Next
  BY <1>2, PostingRefines DEF Reload, DispatchInv, CarriedTextIsGranted
<1> QED  BY <1>1, <1>2 DEF FaultStep

LEMMA NextRefines == DispatchInv /\ [Next]_vars => [Contract!Next]_(Contract!contractVars)
<1> SUFFICES ASSUME DispatchInv, [Next]_vars PROVE [Contract!Next]_(Contract!contractVars)
  OBVIOUS
<1>1. ASSUME NEW w \in Workers, StartStep(w) \/ HandlerStep(w)
      PROVE  [Contract!Next]_(Contract!contractVars)
  BY <1>1, StartStepRefines, HandlerStepRefines
<1>2. ASSUME NEW d \in Drafts, Reject(d) PROVE Contract!Next
  BY <1>2, RejectRefines
<1>3. ASSUME NEW t \in Tabs,
             \/ Connect(t) \/ FlushList(t) \/ ReceiveStep(t)
             \/ FinishStep(t) \/ ReportStep(t) \/ PollAnswer(t)
      PROVE  [Contract!Next]_(Contract!contractVars)
  BY <1>3, TabStepRefines
<1>4. CASE FaultStep
  BY <1>4, FaultStepRefines
<1>5. CASE UNCHANGED vars
  BY <1>5, ContractStutter DEF vars, table, tabVars, Recorded
<1> QED  BY <1>1, <1>2, <1>3, <1>4, <1>5 DEF Next

\* The queue implements its contract: under every interleaving, crash and lost frame,
\* what Google Chat accepts was granted before, and what is recorded as sent was
\* accepted before.
THEOREM QueueImplementsContract == Spec => ImplementsContract
<1>1. Init => Contract!Init
  BY DEF Init, Contract!Init, NoRow
<1>2. DispatchInv /\ [Next]_vars => [Contract!Next]_(Contract!contractVars)
  BY NextRefines
<1> QED  BY <1>1, <1>2, DispatchInvariant, PTL DEF Spec, ImplementsContract, Contract!Spec
=============================================================================
