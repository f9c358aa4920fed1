--------------------------- MODULE DraftDispatch ---------------------------
(***************************************************************************)
(* How an approved draft reaches Google Chat: the drafts table, the HTTP   *)
(* handlers that write it, the hub's claim set and broadcast, one          *)
(* WebSocket connection per Chat tab, and the extension's send loop.       *)
(*                                                                         *)
(* SQLite runs on one connection (store.go: SetMaxOpenConns(1)) and no     *)
(* handler opens a transaction, so one SQL statement is one step and       *)
(* handlers interleave between statements.                                 *)
(***************************************************************************)
EXTENDS Naturals, FiniteSets, Sequences, SequencesExt

CONSTANTS
    Tabs,          \* Chat tabs running content.js, each with its own /ws/ext
    Workers,       \* HTTP requests the backend can be serving at one time
    Messages,      \* incoming chat messages a reply can be posted for
    Bodies,        \* draft texts
    Flagged,       \* the texts safety.Check flags with the rails enabled
    RequestKinds,  \* requests clients issue: "reply", "approve", "reject",
                   \* "patch" (a generation auto mode leaves pending), "promote" (one it approves)
    FaultKinds,    \* what may go wrong: see Fault
    None,          \* no message / no text
    MaxDrafts,     \* bound: rows ever inserted into drafts
    MaxRequests,   \* bound: requests ever issued
    MaxFaults,     \* bound: disconnects, reloads, restarts, failed statements, polls
    ListLimit,     \* LIMIT of ListApprovedPending (20)
    SubCap,        \* capacity of a hub subscription channel (32)
    OutboxCap      \* OUTBOX_CAP of content.js (200)

ASSUME BoundsAssumption ==
    /\ MaxDrafts \in Nat \ {0}
    /\ MaxRequests \in Nat
    /\ MaxFaults \in Nat
    /\ ListLimit \in Nat \ {0}
    /\ SubCap \in Nat \ {0}
    /\ OutboxCap \in Nat

ASSUME DataAssumption ==
    /\ Flagged \subseteq Bodies
    /\ None \notin Bodies \cup Messages
    /\ RequestKinds \subseteq {"reply", "approve", "reject", "patch", "promote"}
    /\ FaultKinds \subseteq {"abort", "statement", "disconnect", "reload", "restart", "poll"}

VARIABLES
    rows,       \* the drafts table
    req,        \* progress of each HTTP request being served
    dispatched, \* hub.dispatched: drafts some handler has claimed
    phase,      \* where handleExtWS is for each tab
    sub,        \* hub events on their way to the tab: subscription channel, writer, socket
    backlog,    \* drafts of the post-connect flush on their way to the tab
    up,         \* frames from the tab its reader has not taken yet
    releasing,  \* draft whose report the reader recorded but has not released (0: none)
    inFlight,   \* content.js inFlightDrafts, with the request to Chat each stands for
    outbox,     \* content.js pendingOutbox: reports kept while the socket is down
    polled,     \* answer of /api/ext/pending not yet dispatched
    posted,     \* what Google Chat has accepted
    granted,    \* history: each text a row has held while approved
    vouched,    \* history: each text a human typed or approved
    requests,   \* counts towards MaxRequests
    faults      \* counts towards MaxFaults

table == <<rows, granted>>
connVars == <<phase, sub, backlog, up, releasing>>
tabVars == <<inFlight, outbox, polled, posted>>
vars == <<table, req, dispatched, connVars, tabVars, vouched, requests, faults>>

Drafts == 1 .. MaxDrafts
Statuses == {"pending", "approved", "rejected", "sent", "failed"}
Items == [draft : Drafts, body : Bodies]
Reports == [draft : Drafts, ok : BOOLEAN]

NoRow == [msg |-> None, body |-> None, status |-> "none"]
Rows == [msg : Messages, body : Bodies, status : Statuses] \cup {NoRow}
Exists(d) == rows[d].status # "none"

Idle == [pc |-> "idle", msg |-> None, draft |-> 0, body |-> None, auto |-> FALSE, todo |-> {}]

Requests == [pc : {"idle", "write", "release", "status", "list", "push", "publish"},
             msg : Messages \cup {None}, draft : 0 .. MaxDrafts, body : Bodies \cup {None},
             auto : BOOLEAN, todo : SUBSET Items]

\* Every disturbance counts towards MaxFaults: a request cut short, a statement
\* that fails, a socket that drops, a tab reloaded, a backend restarted, a poll.
Fault(kind) ==
    /\ kind \in FaultKinds
    /\ faults < MaxFaults
    /\ faults' = faults + 1

-----------------------------------------------------------------------------
(* internal/store                                                          *)

\* Mutant: a listing that forgets the status of a pending draft.
MutantApprovedDrafts == {d \in Drafts : rows[d].status \in {"pending", "approved"}}

ApprovedDrafts == {d \in Drafts : rows[d].status = "approved"}

\* The rows a call of ListApprovedPending may return: all the approved ones, or
\* ListLimit of them. Which ones (ORDER BY updated_at, one-second resolution) is
\* left open.
Listings ==
    {{[draft |-> d, body |-> rows[d].body] : d \in S} :
        S \in {T \in SUBSET ApprovedDrafts :
                  IF Cardinality(ApprovedDrafts) <= ListLimit
                  THEN T = ApprovedDrafts
                  ELSE Cardinality(T) = ListLimit}}

Actionable(m) == {d \in Drafts : rows[d].msg = m /\ rows[d].status \in {"pending", "approved"}}

\* ORDER BY id DESC LIMIT 1 has one answer: the largest id, or no row at all (0).
Latest(S) == IF S = {} THEN {0} ELSE {d \in S : \A e \in S : e <= d}

NewDraft(d) == ~Exists(d) /\ \A e \in Drafts : e < d => Exists(e)

\* The status a reply or a generation leaves its draft in.
Promote(auto) == IF auto THEN "approved" ELSE "pending"

\* One INSERT or UPDATE of the drafts table, by id.
WriteRow(d, row) ==
    /\ rows' = [rows EXCEPT ![d] = row]
    /\ granted' = IF row.status = "approved"
                  THEN granted \cup {[draft |-> d, body |-> row.body]}
                  ELSE granted

SetStatus(d, s) == WriteRow(d, [rows[d] EXCEPT !.status = s])

-----------------------------------------------------------------------------
(* internal/hub                                                            *)

\* PublishExt: every subscriber gets the event, unless its channel is full.
Publish(item) ==
    sub' = [t \in Tabs |-> IF phase[t] # "down" /\ Len(sub[t]) < SubCap
                           THEN Append(sub[t], item)
                           ELSE sub[t]]

-----------------------------------------------------------------------------
(* HTTP requests. Each serves one client call, and takes one step per SQL  *)
(* statement or hub operation that reads or writes state another request   *)
(* can see; req[w].pc names the step to take next.                         *)

Begin(w, kind, r) ==
    /\ kind \in RequestKinds
    /\ req[w] = Idle
    /\ requests < MaxRequests
    /\ requests' = requests + 1
    /\ req' = [req EXCEPT ![w] = r]

Continue(w, r) ==
    /\ req' = [req EXCEPT ![w] = r]
    /\ UNCHANGED requests

Listing == [Idle EXCEPT !.pc = "list"]

\* What is left of a push once the drafts in todo remain.
PushRest(todo) == IF todo = {} THEN Idle ELSE [Idle EXCEPT !.pc = "push", !.todo = todo]

\* Mutant: auto mode without the rails.
MutantAutoSend(autoMode, b) == autoMode

\* autoSend of handleClaudeReply: the user's auto mode, unless safety.Check flags.
AutoSend(autoMode, b) == autoMode /\ b \notin Flagged

\* POST /api/claude/reply: after safety.Check, UpsertDraftForMessage looks for the
\* actionable row of the message. The user may switch auto mode at any time, so a
\* request may find it on or off.
Reply(w, m, b, autoMode) ==
    /\ \E d \in Latest(Actionable(m)) :
          Begin(w, "reply", [Idle EXCEPT !.pc = "write", !.msg = m, !.body = b,
                                !.draft = d, !.auto = AutoSend(autoMode, b)])
    /\ UNCHANGED <<table, dispatched, connVars, tabVars, vouched, faults>>

\* In a second statement it updates that row by id, or inserts a new one.
ReplyWrite(w) ==
    /\ req[w].pc = "write"
    /\ \E d \in Drafts :
          /\ IF req[w].draft = 0 THEN NewDraft(d) ELSE d = req[w].draft
          /\ WriteRow(d, [msg |-> req[w].msg, body |-> req[w].body,
                          status |-> Promote(req[w].auto)])
          /\ Continue(w, [Idle EXCEPT !.pc = "release", !.draft = d, !.auto = req[w].auto])
    /\ UNCHANGED <<dispatched, connVars, tabVars, vouched, faults>>

ReplyRelease(w) ==
    /\ req[w].pc = "release"
    /\ dispatched' = dispatched \ {req[w].draft}
    /\ Continue(w, IF req[w].auto THEN Listing ELSE Idle)
    /\ UNCHANGED <<table, connVars, tabVars, vouched, faults>>

\* POST /api/drafts/{id}/approve with edited text: UpdateDraftBody comes first, and
\* a bad send_mode is only refused after it.
ApproveEdited(w, d, b, badSendMode) ==
    /\ Exists(d)
    /\ Begin(w, "approve", IF badSendMode THEN Idle ELSE [Idle EXCEPT !.pc = "status", !.draft = d])
    /\ WriteRow(d, [rows[d] EXCEPT !.body = b])
    /\ vouched' = vouched \cup {[draft |-> d, body |-> b]}
    /\ UNCHANGED <<dispatched, connVars, tabVars, faults>>

\* UpdateDraftStatus of an approval, whatever status and text the row has by now.
MarkApproved(d) ==
    /\ SetStatus(d, "approved")
    /\ vouched' = vouched \cup {[draft |-> d, body |-> rows[d].body]}
    /\ UNCHANGED <<dispatched, connVars, tabVars, faults>>

\* POST /api/drafts/{id}/approve without an edit.
Approve(w, d) ==
    /\ Exists(d)
    /\ Begin(w, "approve", Listing)
    /\ MarkApproved(d)

ApproveStatus(w) ==
    /\ req[w].pc = "status"
    /\ Continue(w, Listing)
    /\ MarkApproved(req[w].draft)

\* POST /api/drafts/{id}/reject: one statement, and no ReleaseDraft.
Reject(d) ==
    /\ "reject" \in RequestKinds
    /\ requests < MaxRequests
    /\ Exists(d)
    /\ SetStatus(d, "rejected")
    /\ requests' = requests + 1
    /\ UNCHANGED <<req, dispatched, connVars, tabVars, vouched, faults>>

\* PATCH /api/drafts/{id}: PatchDraftGeneration writes the row by id, whatever its
\* status. promote: auto mode is on, confidence >= 0.7 and no blocked keyword.
Patch(w, d, b, promote) ==
    /\ Exists(d)
    /\ IF promote THEN Begin(w, "promote", Listing) ELSE Begin(w, "patch", Idle)
    /\ WriteRow(d, [rows[d] EXCEPT !.body = b, !.status = Promote(promote)])
    /\ UNCHANGED <<dispatched, connVars, tabVars, vouched, faults>>

\* pushPendingForUser / pushPendingForClaude list the approved drafts, ...
PushList(w) ==
    /\ req[w].pc = "list"
    /\ \E L \in Listings : Continue(w, PushRest(L))
    /\ UNCHANGED <<table, dispatched, connVars, tabVars, vouched, faults>>

\* ... claim each in turn, skipping those already claimed, ...
PushClaim(w, item) ==
    /\ req[w].pc = "push"
    /\ item \in req[w].todo
    /\ dispatched' = dispatched \cup {item.draft}
    /\ LET rest == req[w].todo \ {item}
       IN Continue(w, IF item.draft \in dispatched
                      THEN PushRest(rest)
                      ELSE [Idle EXCEPT !.pc = "publish", !.draft = item.draft,
                                        !.body = item.body, !.todo = rest])
    /\ UNCHANGED <<table, connVars, tabVars, vouched, faults>>

\* ... and broadcast what they claimed.
PushPublish(w) ==
    /\ req[w].pc = "publish"
    /\ Publish([draft |-> req[w].draft, body |-> req[w].body])
    /\ Continue(w, PushRest(req[w].todo))
    /\ UNCHANGED <<table, dispatched, phase, backlog, up, releasing, tabVars, vouched, faults>>

\* The client hangs up or a statement fails: the handler returns where it is.
Abort(w) ==
    /\ req[w].pc \in {"write", "status", "list"}
    /\ Fault("abort")
    /\ Continue(w, Idle)
    /\ UNCHANGED <<table, dispatched, connVars, tabVars, vouched>>

-----------------------------------------------------------------------------
(* handleExtWS, one per connected tab                                      *)

\* The socket opens, the server subscribes; content.js flushes its outbox.
Connect(t) ==
    /\ phase[t] = "down"
    /\ phase' = [phase EXCEPT ![t] = "subscribed"]
    /\ up' = [up EXCEPT ![t] = outbox[t]]
    /\ outbox' = [outbox EXCEPT ![t] = <<>>]
    /\ UNCHANGED <<table, req, dispatched, sub, backlog, releasing, inFlight, polled, posted,
                   vouched, requests, faults>>

\* Mutant: a connection that starts without the post-connect flush.
MutantFlushList(t) ==
    /\ phase[t] = "subscribed"
    /\ phase' = [phase EXCEPT ![t] = "live"]
    /\ UNCHANGED <<table, req, dispatched, sub, backlog, up, releasing, tabVars, vouched, requests, faults>>

\* The post-connect flush writes out the approved drafts. It claims none of them,
\* and the reader starts after it.
FlushList(t) ==
    /\ phase[t] = "subscribed"
    /\ \E L \in Listings : backlog' = [backlog EXCEPT ![t] = L]
    /\ phase' = [phase EXCEPT ![t] = "live"]
    /\ UNCHANGED <<table, req, dispatched, sub, up, releasing, tabVars, vouched, requests, faults>>

\* Mutant: a status the drafts table's CHECK constraint does not have.
MutantOutcome(r) == "done"

\* Mutant: the reader ignores the ok field of the report.
MutantAlwaysSent(r) == "sent"

Outcome(r) == IF r.ok THEN "sent" ELSE "failed"

\* The reader (it runs once the flush is over) takes a "sent" frame and records it.
RecordReport(t) ==
    /\ phase[t] = "live"
    /\ up[t] # <<>>
    /\ releasing[t] = 0
    /\ SetStatus(Head(up[t]).draft, Outcome(Head(up[t])))
    /\ releasing' = [releasing EXCEPT ![t] = Head(up[t]).draft]
    /\ up' = [up EXCEPT ![t] = Tail(@)]
    /\ UNCHANGED <<req, dispatched, phase, sub, backlog, tabVars, vouched, requests, faults>>

\* UpdateDraftStatus fails: the frame is gone and the claim stays.
LoseReport(t) ==
    /\ phase[t] = "live"
    /\ up[t] # <<>>
    /\ releasing[t] = 0
    /\ Fault("statement")
    /\ up' = [up EXCEPT ![t] = Tail(@)]
    /\ UNCHANGED <<table, req, dispatched, phase, sub, backlog, releasing, tabVars, vouched, requests>>

ReleaseReported(t) ==
    /\ releasing[t] # 0
    /\ dispatched' = dispatched \ {releasing[t]}
    /\ releasing' = [releasing EXCEPT ![t] = 0]
    /\ UNCHANGED <<table, req, phase, sub, backlog, up, tabVars, vouched, requests, faults>>

-----------------------------------------------------------------------------
(* extension: content.js and inject-main.js                                *)

InFlightIds(t) == {x.draft : x \in inFlight[t]}

\* dispatchSendRequest for each of a set of items, one per draft.
Dispatch(t, items) ==
    inFlight' = [inFlight EXCEPT ![t] = @ \cup
        {i \in items : i.draft \notin InFlightIds(t)}]

\* The writer goroutine merges two streams: the hub's events, in order, ...
ReceiveEvent(t) ==
    /\ sub[t] # <<>>
    /\ Dispatch(t, {Head(sub[t])})
    /\ sub' = [sub EXCEPT ![t] = Tail(@)]
    /\ UNCHANGED <<table, req, dispatched, phase, backlog, up, releasing, outbox, polled, posted,
                   vouched, requests, faults>>

\* ... and the flush.
ReceiveBacklog(t, item) ==
    /\ item \in backlog[t]
    /\ Dispatch(t, {item})
    /\ backlog' = [backlog EXCEPT ![t] = @ \ {item}]
    /\ UNCHANGED <<table, req, dispatched, phase, sub, up, releasing, outbox, polled, posted,
                   vouched, requests, faults>>

\* A 2xx answer means Google Chat took the message; an error may mean either.
MayReport(landed, ok) == ok => landed

\* The XHR ends: the draft leaves inFlightDrafts and wsSend reports the outcome.
Finish(t, item, landed, ok) ==
    /\ item \in inFlight[t]
    /\ MayReport(landed, ok)
    /\ posted' = IF landed THEN posted \cup {item} ELSE posted
    /\ inFlight' = [inFlight EXCEPT ![t] = @ \ {item}]
    /\ LET r == [draft |-> item.draft, ok |-> ok]
       IN IF phase[t] # "down"
          THEN up' = [up EXCEPT ![t] = Append(@, r)] /\ UNCHANGED outbox
          ELSE /\ UNCHANGED up
               /\ outbox' = [outbox EXCEPT ![t] = IF Len(@) < OutboxCap THEN Append(@, r) ELSE @]
    /\ UNCHANGED <<table, req, dispatched, phase, sub, backlog, releasing, polled,
                   vouched, requests, faults>>

\* HTTP fallback while the socket is down: GET /api/ext/pending ...
Poll(t) ==
    /\ Fault("poll")
    /\ phase[t] = "down"
    /\ polled[t] = {}
    /\ \E L \in Listings \ {{}} : polled' = [polled EXCEPT ![t] = L]
    /\ UNCHANGED <<table, req, dispatched, connVars, inFlight, outbox, posted, vouched, requests>>

\* ... whose answer may arrive after the socket is back.
PollAnswer(t) ==
    /\ polled[t] # {}
    /\ Dispatch(t, polled[t])
    /\ polled' = [polled EXCEPT ![t] = {}]
    /\ UNCHANGED <<table, req, dispatched, connVars, outbox, posted, vouched, requests, faults>>

-----------------------------------------------------------------------------
(* Faults                                                                  *)

\* The socket drops: whatever is in a channel or on the wire is gone.
Disconnect(t) ==
    /\ Fault("disconnect")
    /\ phase[t] # "down"
    /\ phase' = [phase EXCEPT ![t] = "down"]
    /\ sub' = [sub EXCEPT ![t] = <<>>]
    /\ backlog' = [backlog EXCEPT ![t] = {}]
    /\ up' = [up EXCEPT ![t] = <<>>]
    /\ UNCHANGED <<table, req, dispatched, releasing, tabVars, vouched, requests>>

\* The tab reloads: content.js loses its variables as well. Chat may already have
\* taken some of what was in flight.
Reload(t, taken) ==
    /\ Fault("reload")
    /\ phase' = [phase EXCEPT ![t] = "down"]
    /\ sub' = [sub EXCEPT ![t] = <<>>]
    /\ backlog' = [backlog EXCEPT ![t] = {}]
    /\ up' = [up EXCEPT ![t] = <<>>]
    /\ taken \in SUBSET inFlight[t]
    /\ posted' = posted \cup taken
    /\ inFlight' = [inFlight EXCEPT ![t] = {}]
    /\ outbox' = [outbox EXCEPT ![t] = <<>>]
    /\ polled' = [polled EXCEPT ![t] = {}]
    /\ UNCHANGED <<table, req, dispatched, releasing, vouched, requests>>

\* The backend restarts: the database and the tabs survive, nothing else does.
Restart ==
    /\ Fault("restart")
    /\ req' = [w \in Workers |-> Idle]
    /\ dispatched' = {}
    /\ phase' = [t \in Tabs |-> "down"]
    /\ sub' = [t \in Tabs |-> <<>>]
    /\ backlog' = [t \in Tabs |-> {}]
    /\ up' = [t \in Tabs |-> <<>>]
    /\ releasing' = [t \in Tabs |-> 0]
    /\ UNCHANGED <<table, tabVars, vouched, requests>>

-----------------------------------------------------------------------------
Init ==
    /\ rows = [d \in Drafts |-> NoRow]
    /\ req = [w \in Workers |-> Idle]
    /\ dispatched = {}
    /\ phase = [t \in Tabs |-> "down"]
    /\ sub = [t \in Tabs |-> <<>>]
    /\ backlog = [t \in Tabs |-> {}]
    /\ up = [t \in Tabs |-> <<>>]
    /\ releasing = [t \in Tabs |-> 0]
    /\ inFlight = [t \in Tabs |-> {}]
    /\ outbox = [t \in Tabs |-> <<>>]
    /\ polled = [t \in Tabs |-> {}]
    /\ posted = {}
    /\ granted = {}
    /\ vouched = {}
    /\ requests = 0
    /\ faults = 0

StartStep(w) ==
    \/ \E m \in Messages, b \in Bodies, autoMode \in BOOLEAN : Reply(w, m, b, autoMode)
    \/ \E d \in Drafts, b \in Bodies, bad \in BOOLEAN : ApproveEdited(w, d, b, bad)
    \/ \E d \in Drafts : Approve(w, d)
    \/ \E d \in Drafts, b \in Bodies, promote \in BOOLEAN : Patch(w, d, b, promote)

HandlerStep(w) ==
    \/ ReplyWrite(w)
    \/ ReplyRelease(w)
    \/ ApproveStatus(w)
    \/ PushList(w)
    \/ \E item \in Items : PushClaim(w, item)
    \/ PushPublish(w)

ReceiveStep(t) ==
    \/ ReceiveEvent(t)
    \/ \E item \in Items : ReceiveBacklog(t, item)

ReportStep(t) ==
    \/ RecordReport(t)
    \/ ReleaseReported(t)

FinishStep(t) == \E item \in Items, landed, ok \in BOOLEAN : Finish(t, item, landed, ok)

FaultStep ==
    \/ \E w \in Workers : Abort(w)
    \/ \E t \in Tabs :
          \/ LoseReport(t)
          \/ Disconnect(t)
          \/ \E taken \in SUBSET Items : Reload(t, taken)
          \/ Poll(t)
    \/ Restart

Next ==
    \/ \E w \in Workers : StartStep(w) \/ HandlerStep(w)
    \/ \E d \in Drafts : Reject(d)
    \/ \E t \in Tabs :
          \/ Connect(t)
          \/ FlushList(t)
          \/ ReceiveStep(t)
          \/ FinishStep(t)
          \/ ReportStep(t)
          \/ PollAnswer(t)
    \/ FaultStep

(***************************************************************************)
(* A goroutine that can run does run, a socket that is down is redialled   *)
(* (scheduleReconnect), and an XHR ends. Nobody is obliged to issue a      *)
(* request, to poll, to change a setting or to cause a fault.              *)
(***************************************************************************)
Fairness ==
    /\ \A w \in Workers : WF_vars(HandlerStep(w))
    /\ \A t \in Tabs :
          /\ WF_vars(Connect(t))
          /\ WF_vars(FlushList(t))
          /\ WF_vars(ReceiveStep(t))
          /\ WF_vars(FinishStep(t))
          /\ WF_vars(ReportStep(t))
          /\ WF_vars(PollAnswer(t))

Spec == Init /\ [][Next]_vars /\ Fairness

-----------------------------------------------------------------------------
(* Properties                                                              *)

\* Every variable keeps its shape: rows, the progress of each handler, the
\* channels and sockets of each connection, and the extension's own state.
TypeOK ==
    /\ rows \in [Drafts -> Rows]
    /\ req \in [Workers -> Requests]
    /\ dispatched \in SUBSET Drafts
    /\ phase \in [Tabs -> {"down", "subscribed", "live"}]
    /\ sub \in [Tabs -> Seq(Items)]
    /\ backlog \in [Tabs -> SUBSET Items]
    /\ up \in [Tabs -> Seq(Reports)]
    /\ releasing \in [Tabs -> 0 .. MaxDrafts]
    /\ inFlight \in [Tabs -> SUBSET Items]
    /\ outbox \in [Tabs -> Seq(Reports)]
    /\ polled \in [Tabs -> SUBSET Items]
    /\ posted \in SUBSET Items
    /\ granted \in SUBSET Items
    /\ vouched \in SUBSET Items
    /\ requests \in Nat
    /\ faults \in Nat

\* Google Chat only ever receives a text its draft held while it was approved:
\* whichever of the three routes (broadcast, post-connect flush, HTTP poll)
\* carried it, however many edits, rejections, reconnects and restarts raced it.
OnlyApprovedTextIsPosted == posted \subseteq granted

\* With the rails on, a text safety.Check flags reaches Google Chat only if a
\* human typed it or approved the draft while it held it: auto mode never sends it.
FlaggedTextNeedsAHuman == \A i \in posted : i.body \in Flagged => i \in vouched

WasPosted(d) == \E i \in posted : i.draft = d

\* A row that says "sent" is a row of which Google Chat did accept some text.
SentWasPosted == \A d \in Drafts : rows[d].status = "sent" => WasPosted(d)

\* What the safety properties rest on. A handler that is about to write or
\* broadcast holds all it needs, and the row it will write exists.
Ready(r) ==
    /\ r.pc = "write" => r.msg \in Messages /\ r.body \in Bodies
    /\ r.pc = "status" => r.draft \in Drafts /\ Exists(r.draft)
    /\ r.pc = "publish" => [draft |-> r.draft, body |-> r.body] \in granted
    /\ r.todo \subseteq granted

HandlersAreReady == \A w \in Workers : Ready(req[w])

\* Whatever a channel, a socket, a poll or a tab carries was granted, for good.
CarriedTextIsGranted ==
    /\ \A d \in Drafts :
          rows[d].status = "approved" => [draft |-> d, body |-> rows[d].body] \in granted
    /\ \A t \in Tabs :
          ToSet(sub[t]) \cup backlog[t] \cup inFlight[t] \cup polled[t] \subseteq granted

\* Rows are never deleted, so what was granted or reported is about a row.
NothingDangles ==
    /\ \A i \in granted : Exists(i.draft)
    /\ \A t \in Tabs : \A r \in ToSet(up[t]) \cup ToSet(outbox[t]) : Exists(r.draft)

\* A report of success, on the wire or waiting in an outbox, is about a draft
\* Google Chat took.
ReportsAreHonest ==
    \A t \in Tabs : \A r \in ToSet(up[t]) \cup ToSet(outbox[t]) : r.ok => WasPosted(r.draft)

\* The part of the rails: auto mode neither granted a flagged text nor is about to.
AutoModeSparesFlagged ==
    /\ \A i \in granted : i.body \in Flagged => i \in vouched
    /\ \A w \in Workers : req[w].pc = "write" /\ req[w].auto => req[w].body \notin Flagged

\* The inductive invariant: at every step each text under way was granted, each
\* report is honest, and each row, request and message has its shape.
DispatchInv ==
    /\ TypeOK
    /\ HandlersAreReady
    /\ CarriedTextIsGranted
    /\ NothingDangles
    /\ ReportsAreHonest
    /\ OnlyApprovedTextIsPosted
    /\ SentWasPosted

\* hub.go and pushPendingForUser: a claimed draft goes to exactly one tab, so two
\* tabs never have the same draft in flight.
OneTabPerDraft ==
    \A t1, t2 \in Tabs : t1 # t2 => InFlightIds(t1) \cap InFlightIds(t2) = {}

\* UpsertDraftForMessage: rejected drafts are left alone and a new row is inserted
\* instead, so without a new approval or generation a rejected draft stays rejected.
RejectionStands ==
    [][\A d \in Drafts : rows[d].status = "rejected" => rows'[d].status = "rejected"]_vars

\* The queue implements its contract: every step is a decision about one draft, a
\* text Google Chat accepts after it was granted, or a draft recorded as sent after
\* Google Chat accepted it.
Contract == INSTANCE ReplyContract WITH
    Draft <- Drafts, Body <- Bodies,
    recorded <- {d \in Drafts : rows[d].status = "sent"}

ImplementsContract == Contract!Spec

\* An approved draft does not stay approved for ever: it is sent, it fails, or
\* somebody takes the approval back.
ApprovedSettles ==
    \A d \in Drafts : rows[d].status = "approved" ~> rows[d].status # "approved"

=============================================================================
