--------------------------- MODULE MessageIntake ---------------------------
(***************************************************************************)
(* How a chat message becomes a row the agent is asked to answer: what     *)
(* the tabs observe goes into a ring of raw events and is ingested at      *)
(* once; a ticker reads the ring again as a fallback. Each ingested        *)
(* message is judged (is it stale, is it our own, is it muted), then       *)
(* inserted unless a row exists. The pending list shows the rest.          *)
(*                                                                         *)
(* Who "we" are is learned on the way, in two places: the worker's         *)
(* userName and the users row, which restarts do not lose.                 *)
(***************************************************************************)
EXTENDS Naturals, FiniteSets, Sequences, SequencesExt

CONSTANTS
    Tabs,        \* Chat tabs, each with a reader goroutine (or requests) in the backend
    Ticker,      \* the worker's ticker goroutine
    Messages,    \* message_keys: of a message as ingests store it, and as a history sync does
    Original,    \* Original[m]: the key an ingest stores that message under
    Replies,     \* those the extension posts for drafts of the agent
    Blocked,     \* those a blocked keyword matches
    People,      \* senders; a person is also the name they go by
    User,        \* the person the program answers for
    Texts,       \* message texts, as WasRecentlySentDraft compares them
    Author,      \* Author[m]: who sent m
    Text,        \* Text[m]: its text
    Mentions,    \* Mentions[m]: the people whose "@name" is in the text
    Placeholder, \* the default name, "Local Extension User"
    Blank,       \* sender_name = ''
    None,        \* no row / no message
    ConfigName,  \* LOCAL_USER_NAME, or Placeholder
    ConfigMail,  \* the person LOCAL_USER_EMAIL belongs to, or None
    EventKinds,  \* what tabs observe: "topics", "frame", "search"
    ChangeKinds, \* what clients may do: "mention", "skip", "unskip", "sync"
    FaultKinds,  \* what may go wrong: "statement", "abandon", "restart", "age"
    RingCap,     \* capacity of RawEventStore (50000)
    BatchSize,   \* rows a tick reads (200)
    MaxPage,     \* bound: messages of one observed response
    MaxEvents,   \* bound: events observed between two restarts
    MaxChanges,  \* bound: changes made by clients
    MaxFaults    \* bound: disturbances

ASSUME BoundsAreNumbers ==
    /\ RingCap \in Nat \ {0}
    /\ BatchSize \in Nat \ {0}
    /\ {MaxPage, MaxEvents, MaxChanges, MaxFaults} \subseteq Nat

ASSUME WorldAssumption ==
    /\ Ticker \notin Tabs
    /\ User \in People
    /\ Author \in [Messages -> People]
    /\ Text \in [Messages -> Texts]
    /\ Mentions \in [Messages -> SUBSET People]
    /\ Replies \subseteq Messages /\ Blocked \subseteq Messages
    /\ \A m \in Replies : Author[m] = User
    /\ Placeholder \notin People \cup {Blank, None}
    /\ Blank \notin People \cup {None}
    /\ None \notin People \cup Messages
    /\ ConfigName \in {Placeholder, User}
    /\ ConfigMail \in {None, User}

\* The page of a history scan names a message "spaces/<id>/messages/<id>"; what tabs
\* observe is stored under its short id. Only a history sync stores these keys.
SyncKeys == {m \in Messages : Original[m] # m}

ASSUME KeysAssumption ==
    /\ Original \in [Messages -> Messages \ SyncKeys]
    /\ Replies \cap SyncKeys = {}
    /\ \A m \in SyncKeys :
          /\ Author[m] = Author[Original[m]] /\ Text[m] = Text[Original[m]]
          /\ Mentions[m] = Mentions[Original[m]] /\ (m \in Blocked <=> Original[m] \in Blocked)

ASSUME KindsAssumption == EventKinds \subseteq {"topics", "frame", "search"}

VARIABLES
    age,         \* age[m]: "unsent", "fresh", or "stale" (older than freshnessWindow)
    old,         \* messages older than the backend: observed_at < sessionStart
    sent,        \* texts of drafts recorded as sent recently
    ring,        \* RawEventStore.events; only what a tick reads of an event is kept
    nextID,      \* RawEventStore.nextID
    cursor,      \* ChatProcessor.lastID
    work,        \* what each reader and the ticker is ingesting
    rows,        \* the messages table
    known,       \* chat_members: people whose name the directory holds
    self,        \* ChatProcessor.userName
    name,        \* users.name
    mentionOnly, \* user_settings.reply_only_when_mentioned
    listed,      \* what the agent was last given as pending
    drafted,     \* messages that have a draft
    seen,        \* history: messages of topics events since the last restart
    dropped,     \* history: those a tick could not store, or that left the ring unread
    punctual,    \* history: replies recorded as sent before anyone judged them
    freed,       \* history: messages a client ever unskipped
    rescued,     \* history: messages unskipped and not skipped again by a client
    unjudged,    \* history: messages judged while a check failed
    changes,     \* counts towards MaxChanges
    faults       \* counts towards MaxFaults

chatVars == <<age, old, sent>>
ringVars == <<ring, nextID, cursor>>
selfVars == <<known, self, name>>
agentVars == <<listed, drafted>>
tickHistory == <<seen, dropped>>
skipHistory == <<freed, rescued, unjudged>>
vars == <<chatVars, ringVars, work, rows, selfVars, mentionOnly, agentVars,
          tickHistory, punctual, skipHistory, changes, faults>>

Actors == Tabs \cup {Ticker}
Names == People \cup {Placeholder}
ByUser == {m \in Messages : Author[m] = User}

Row(mine, skipped, sender) == [mine |-> mine, skipped |-> skipped, sender |-> sender]
NoRow == Row(FALSE, FALSE, None)
Rows == [mine : BOOLEAN, skipped : BOOLEAN, sender : Names \cup {Blank}]
Stored == {m \in Messages : rows[m] # NoRow}

\* An ingest: the messages left to judge, and the judged one that is to be inserted.
Job(pc, kind, todo, msg, row, upto) ==
    [pc |-> pc, kind |-> kind, todo |-> todo, msg |-> msg, row |-> row, upto |-> upto]
Idle == Job("idle", "none", {}, None, NoRow, 0)

Change(kind) ==
    /\ kind \in ChangeKinds
    /\ changes < MaxChanges
    /\ changes' = changes + 1

Fault(kind) ==
    /\ kind \in FaultKinds
    /\ faults < MaxFaults
    /\ faults' = faults + 1

-----------------------------------------------------------------------------
(* Who the user is                                                         *)

Signed(n) == {m \in Stored : rows[m].mine /\ rows[m].sender = n}

\* AutoDetectChatIdentity: ORDER BY COUNT DESC LIMIT 1 over the named rows of ours.
Commonest == {n \in Names : /\ Signed(n) # {}
                            /\ \A k \in Names : Cardinality(Signed(k)) <= Cardinality(Signed(n))}

\* requireLocalUser, which every request and every frame of a tab starts with: the
\* name in the users row changes only while it is the placeholder.
RequireLocalUser ==
    name' \in IF name = Placeholder /\ Commonest # {} THEN Commonest ELSE {name}

-----------------------------------------------------------------------------
(* Google Chat and the drafts (DraftDispatch has the whole of them)        *)

\* Somebody writes a message. Ours are posted for a draft.
Post(m) ==
    /\ m \notin SyncKeys
    /\ age[m] = "unsent"
    /\ m \in Replies => drafted # {}
    /\ age' = [age EXCEPT ![m] = "fresh"]
    /\ UNCHANGED <<old, sent, ringVars, work, rows, selfVars, mentionOnly, agentVars,
                   tickHistory, punctual, skipHistory, changes, faults>>

Judged == {work[a].msg : a \in Actors}

\* The tab's report makes the draft "sent". One that comes too late to match, five
\* minutes after the message, is as good as none and is left out.
Report(m) ==
    /\ m \in Replies
    /\ age[m] # "unsent"
    /\ sent' = sent \cup {Text[m]}
    /\ punctual' = IF m \in Stored \cup Judged THEN punctual ELSE punctual \cup {m}
    /\ UNCHANGED <<age, old, ringVars, work, rows, selfVars, mentionOnly, agentVars,
                   tickHistory, skipHistory, changes, faults>>

\* Half an hour passes for m.
Age(m) ==
    /\ Fault("age")
    /\ age[m] = "fresh"
    /\ age' = [age EXCEPT ![m] = "stale"]
    /\ UNCHANGED <<old, sent, ringVars, work, rows, selfVars, mentionOnly, agentVars,
                   tickHistory, punctual, skipHistory, changes>>

-----------------------------------------------------------------------------
(* The ring of raw events                                                  *)

\* Events a tick asks for: the URLs with /api/ in them. Pushed frames and the pages
\* of a sender search take room in the ring, but no tick reads them.
Event(kind, ms) == [id |-> nextID + 1, msgs |-> IF kind = "topics" THEN ms ELSE {}]

Full == Len(ring) >= RingCap
Evicted == IF Full THEN {Head(ring)} ELSE {}

\* RawEventStore.Insert: a full ring loses its oldest event.
Record(event) ==
    /\ ring' = Append(IF Full THEN Tail(ring) ELSE ring, event)
    /\ nextID' = nextID + 1

Events == Range(ring)

\* Mutant: the cursor is taken for the next id to read.
MutantUnread == {e \in Events : e.id > cursor + 1 /\ e.msgs # {}}

Unread == {e \in Events : e.id > cursor /\ e.msgs # {}}

\* RawEventStore.Since: the oldest BatchSize of the unread events.
Batch == {e \in Unread : Cardinality({f \in Unread : f.id < e.id}) < BatchSize}

MessagesOf(es) == UNION {e.msgs : e \in es}

\* handleExtInbound, case "raw" (or handleExtRaw): the response a tab has observed
\* goes into the ring, and its reader asks for the lock.
Observe(t, kind, ms) ==
    /\ kind \in EventKinds
    /\ work[t] = Idle
    /\ nextID < MaxEvents
    /\ ms # {} /\ Cardinality(ms) <= MaxPage
    /\ \A m \in ms : age[m] # "unsent"
    /\ kind = "search" => ms \subseteq ByUser
    /\ RequireLocalUser
    /\ Record(Event(kind, ms))
    /\ seen' = IF kind = "topics" THEN seen \cup ms ELSE seen
    /\ dropped' = dropped \cup MessagesOf(Evicted)
    /\ work' = [work EXCEPT ![t] = Job("wait", kind, ms, None, NoRow, 0)]
    /\ UNCHANGED <<chatVars, cursor, rows, known, self, mentionOnly, agentVars,
                   punctual, skipHistory, changes, faults>>

\* Ingest takes the lock, which keeps the readers from one another. A tick takes none.
Enter(t) ==
    /\ work[t].pc = "wait"
    /\ \A u \in Tabs : work[u].pc \in {"idle", "wait"}
    /\ work' = [work EXCEPT ![t].pc = "judge"]
    /\ UNCHANGED <<chatVars, ringVars, rows, selfVars, mentionOnly, agentVars,
                   tickHistory, punctual, skipHistory, changes, faults>>

\* The ticker reads the next batch.
Tick ==
    /\ work[Ticker] = Idle
    /\ \E last \in Batch :
          /\ \A e \in Batch : e.id <= last.id
          /\ work' = [work EXCEPT ![Ticker] =
                Job("judge", "topics", MessagesOf(Batch), None, NoRow, last.id)]
    /\ UNCHANGED <<chatVars, ringVars, rows, selfVars, mentionOnly, agentVars,
                   tickHistory, punctual, skipHistory, changes, faults>>

\* Mutant: the tick ends at the newest event, not at the last one it has read.
MutantDone(a) ==
    /\ work[a].pc = "judge"
    /\ work[a].todo = {}
    /\ cursor' = IF a = Ticker THEN nextID ELSE cursor
    /\ work' = [work EXCEPT ![a] = Idle]
    /\ UNCHANGED <<chatVars, ring, nextID, rows, selfVars, mentionOnly, agentVars,
                   tickHistory, punctual, skipHistory, changes, faults>>

\* Nothing is left to judge: Ingest returns, or the tick moves the cursor.
Done(a) ==
    /\ work[a].pc = "judge"
    /\ work[a].todo = {}
    /\ cursor' = IF a = Ticker THEN work[a].upto ELSE cursor
    /\ work' = [work EXCEPT ![a] = Idle]
    /\ UNCHANGED <<chatVars, ring, nextID, rows, selfVars, mentionOnly, agentVars,
                   tickHistory, punctual, skipHistory, changes, faults>>

\* What a tick gives up on is not read again; what a reader gives up on is in the ring.
GivenUp(a, ms) == dropped' = IF a = Ticker THEN dropped \cup ms ELSE dropped

-----------------------------------------------------------------------------
(* ingestMessage                                                           *)

\* isFresh: an old message is dropped.
DropStale(a, m) ==
    /\ work[a].pc = "judge"
    /\ work[a].kind \in {"topics", "frame"}
    /\ m \in work[a].todo
    /\ age[m] = "stale"
    /\ work' = [work EXCEPT ![a].todo = @ \ {m}]
    /\ GivenUp(a, {m})
    /\ UNCHANGED <<chatVars, ringVars, rows, selfVars, mentionOnly, agentVars,
                   seen, punctual, skipHistory, changes, faults>>

\* A topics response names the sender; a frame has the id only, so the directory must.
Named(a, m) == work[a].kind = "topics" \/ Author[m] \in known

\* By e-mail or by name; ...
LooksOurs(a, m) == Named(a, m) /\ Author[m] \in {ConfigMail, self}

\* ... or, failing that, because we have just sent that text there.
EchoesUs(m) == Text[m] \in sent

\* Mutant: an echo teaches our name, but does not make the message ours.
MutantIsMine(a, m, echoes) == LooksOurs(a, m)

IsMine(a, m, echoes) == LooksOurs(a, m) \/ echoes

\* Mutant: the blocked keywords are looked at in mention-only mode only.
MutantMuted(m) == mentionOnly /\ (m \in Blocked \/ self \notin Mentions[m])

\* autoSkipReason, for a message of somebody else.
Muted(m) == m \in Blocked \/ (mentionOnly /\ self \notin Mentions[m])

\* An echo that only its text betrays teaches the worker our name, ...
Learns(a, m, echoes) == ~LooksOurs(a, m) /\ echoes /\ Named(a, m)

\* Mutant: the name of whoever is judged is learned.
MutantLearnName(a, m, echoes) ==
    /\ self' = IF Named(a, m) THEN Author[m] ELSE self
    /\ name' = name

\* Mutant: an echo teaches the worker our name though the frame has none.
BlankLearnName(a, m, echoes) ==
    /\ self' = IF ~LooksOurs(a, m) /\ echoes THEN IF Named(a, m) THEN Author[m] ELSE Blank
                                             ELSE self
    /\ name' = name

\* ... and the users row, unless that has one already.
LearnName(a, m, echoes) ==
    /\ self' = IF Learns(a, m, echoes) THEN Author[m] ELSE self
    /\ name' = IF Learns(a, m, echoes) /\ name = Placeholder THEN Author[m] ELSE name

\* m is judged, with the outcome of two checks that read the database.
JudgeBy(a, m, echoes, muted) ==
    /\ work[a].pc = "judge"
    /\ work[a].kind \in {"topics", "frame"}
    /\ m \in work[a].todo
    /\ age[m] = "fresh"
    /\ known' = IF Named(a, m) THEN known \cup {Author[m]} ELSE known
    /\ LearnName(a, m, echoes)
    /\ work' = [work EXCEPT
          ![a].pc = "insert", ![a].todo = @ \ {m}, ![a].msg = m,
          ![a].row = Row(IsMine(a, m, echoes), IsMine(a, m, echoes) \/ muted,
                         IF Named(a, m) THEN Author[m] ELSE Blank)]
    /\ UNCHANGED <<chatVars, ringVars, rows, mentionOnly, agentVars,
                   tickHistory, punctual, freed, rescued, changes>>

Judge(a, m) == JudgeBy(a, m, EchoesUs(m), Muted(m)) /\ UNCHANGED <<unjudged, faults>>

\* One of the two reads fails: the message is no echo, or is muted by no setting. It
\* is inserted all the same.
Misjudge(a, m) ==
    /\ Fault("statement")
    /\ JudgeBy(a, m, FALSE, Muted(m)) \/ JudgeBy(a, m, EchoesUs(m), FALSE)
    /\ unjudged' = unjudged \cup {m}

\* Mutant: a message seen again is stored anew.
MutantInserted(m, row) == row

\* InsertOrGetMessage: ON CONFLICT (user_id, message_key) DO NOTHING. (The sender_id
\* it fills in then is not modelled.)
Inserted(m, row) == IF m \in Stored THEN rows[m] ELSE row

Resume(a) == work' = [work EXCEPT ![a].pc = "judge", ![a].msg = None, ![a].row = NoRow]

Insert(a) ==
    /\ work[a].pc = "insert"
    /\ rows' = [rows EXCEPT ![work[a].msg] = Inserted(work[a].msg, work[a].row)]
    /\ Resume(a)
    /\ UNCHANGED <<chatVars, ringVars, selfVars, mentionOnly, agentVars,
                   tickHistory, punctual, skipHistory, changes, faults>>

\* The statement fails. The error is logged, and the loop goes on.
FailInsert(a) ==
    /\ Fault("statement")
    /\ work[a].pc = "insert"
    /\ GivenUp(a, {work[a].msg})
    /\ Resume(a)
    /\ UNCHANGED <<chatVars, ringVars, rows, selfVars, mentionOnly, agentVars,
                   seen, punctual, skipHistory, changes>>

\* ingestBatchExecuteSenderSearch: a message the search found is ours, whatever its
\* age; MarkMessageAsMine corrects a row that says otherwise.
MarkMine(a, m) ==
    /\ work[a].pc = "judge"
    /\ work[a].kind = "search"
    /\ m \in work[a].todo
    /\ rows' = [rows EXCEPT ![m] = [Inserted(m, Row(TRUE, FALSE, self)) EXCEPT !.mine = TRUE]]
    /\ work' = [work EXCEPT ![a].todo = @ \ {m}]
    /\ UNCHANGED <<chatVars, ringVars, selfVars, mentionOnly, agentVars,
                   tickHistory, punctual, skipHistory, changes, faults>>

-----------------------------------------------------------------------------
(* The clients                                                             *)

\* ListClaudePending, for the name in the users row: a message of this session that
\* is not ours, neither answered nor skipped, and, in mention-only mode, mentions us.
\* Disabled spaces are left out.
Pending(who) ==
    {m \in Stored :
        /\ ~rows[m].mine
        /\ rows[m].sender # who
        /\ m \notin drafted
        /\ ~rows[m].skipped
        /\ m \notin old
        /\ mentionOnly => who \in Mentions[m]}

\* GET /api/claude/pending: the agent gets the list.
List ==
    /\ RequireLocalUser
    /\ listed' = Pending(name')
    /\ UNCHANGED <<chatVars, ringVars, work, rows, known, self, mentionOnly, drafted,
                   tickHistory, punctual, skipHistory, changes, faults>>

\* POST /api/claude/reply: any message can be replied to; the agent does so for
\* those it was given.
Reply(m) ==
    /\ m \in listed
    /\ RequireLocalUser
    /\ drafted' = drafted \cup {m}
    /\ listed' = listed \ {m}
    /\ UNCHANGED <<chatVars, ringVars, work, rows, known, self, mentionOnly,
                   tickHistory, punctual, skipHistory, changes, faults>>

\* POST /api/claude/skip, of the agent or of the pending page: SkipMessage is one
\* UPDATE that leaves a skipped row alone.
Skip(m) ==
    /\ Change("skip")
    /\ m \in Stored
    /\ RequireLocalUser
    /\ rows' = [rows EXCEPT ![m].skipped = TRUE]
    /\ rescued' = rescued \ {m}
    /\ UNCHANGED <<chatVars, ringVars, work, known, self, mentionOnly, agentVars,
                   tickHistory, punctual, freed, unjudged, faults>>

\* POST /api/claude/unskip.
Unskip(m) ==
    /\ Change("unskip")
    /\ m \in Stored
    /\ RequireLocalUser
    /\ rows' = [rows EXCEPT ![m].skipped = FALSE]
    /\ freed' = freed \cup {m}
    /\ rescued' = rescued \cup {m}
    /\ UNCHANGED <<chatVars, ringVars, work, known, self, mentionOnly, agentVars,
                   tickHistory, punctual, unjudged, faults>>

\* PATCH /api/settings turns mention-only mode on or off.
SetMentionOnly ==
    /\ Change("mention")
    /\ RequireLocalUser
    /\ mentionOnly' = ~mentionOnly
    /\ UNCHANGED <<chatVars, ringVars, work, rows, known, self, agentVars,
                   tickHistory, punctual, skipHistory, faults>>

\* A batch of the history sync (SyncHistory) stores a message, under a key of its own
\* whether or not it was ingested, as somebody else's and unmuted.
SyncInsert(m) ==
    /\ Change("sync")
    /\ m \in SyncKeys
    /\ age[Original[m]] # "unsent"
    /\ m \notin Stored
    /\ RequireLocalUser
    /\ rows' = [rows EXCEPT ![m] = Row(FALSE, FALSE, Author[m])]
    /\ UNCHANGED <<chatVars, ringVars, work, known, self, mentionOnly, agentVars,
                   tickHistory, punctual, skipHistory, faults>>

-----------------------------------------------------------------------------
(* Disturbances                                                            *)

\* An ingest ends early: the request of /api/ext/raw it serves is cancelled, the user
\* cannot be read, or the response does not parse.
Abandon(t) ==
    /\ Fault("abandon")
    /\ work[t] # Idle
    /\ work' = [work EXCEPT ![t] = Idle]
    /\ UNCHANGED <<chatVars, ringVars, rows, selfVars, mentionOnly, agentVars,
                   tickHistory, punctual, skipHistory, changes>>

\* The backend restarts: the ring, the cursor and the worker's name are gone.
Restart ==
    /\ Fault("restart")
    /\ old' = {m \in Messages : age[Original[m]] # "unsent"}
    /\ ring' = <<>>
    /\ nextID' = 0
    /\ cursor' = 0
    /\ work' = [a \in Actors |-> Idle]
    /\ self' = ConfigName
    /\ seen' = {}
    /\ dropped' = {}
    /\ UNCHANGED <<age, sent, rows, known, name, mentionOnly, agentVars,
                   punctual, skipHistory, changes>>

-----------------------------------------------------------------------------
Init ==
    /\ age = [m \in Messages |-> "unsent"]
    /\ old = {}
    /\ sent = {}
    /\ ring = <<>>
    /\ nextID = 0
    /\ cursor = 0
    /\ work = [a \in Actors |-> Idle]
    /\ rows = [m \in Messages |-> NoRow]
    /\ known = {}
    /\ self = ConfigName
    /\ name = ConfigName
    /\ mentionOnly = FALSE
    /\ listed = {}
    /\ drafted = {}
    /\ seen = {}
    /\ dropped = {}
    /\ punctual = {}
    /\ freed = {}
    /\ rescued = {}
    /\ unjudged = {}
    /\ changes = 0
    /\ faults = 0

\* What an ingest that has started does next.
IngestStep(a) ==
    \/ Done(a)
    \/ Insert(a)
    \/ \E m \in Messages : DropStale(a, m) \/ Judge(a, m) \/ MarkMine(a, m)

ChatStep(m) == Post(m) \/ Report(m) \/ Age(m)

ObserveStep(t) == \E kind \in EventKinds, ms \in SUBSET (Messages \ SyncKeys) : Observe(t, kind, ms)

ClientStep ==
    \/ List
    \/ SetMentionOnly
    \/ \E m \in Messages : Reply(m) \/ Skip(m) \/ Unskip(m) \/ SyncInsert(m)

FaultStep ==
    \/ Restart
    \/ \E t \in Tabs : Abandon(t)
    \/ \E a \in Actors : FailInsert(a) \/ \E m \in Messages : Misjudge(a, m)

Next ==
    \/ \E m \in Messages : ChatStep(m)
    \/ \E t \in Tabs : ObserveStep(t) \/ Enter(t)
    \/ Tick
    \/ \E a \in Actors : IngestStep(a)
    \/ ClientStep
    \/ FaultStep

(***************************************************************************)
(* The ticker fires every three seconds, goroutines run, and a mutex is    *)
(* handed on. Nothing makes tabs observe, people write or clients ask.     *)
(***************************************************************************)
Fairness ==
    /\ WF_vars(Tick)
    /\ \A a \in Actors : WF_vars(IngestStep(a))
    /\ \A t \in Tabs : WF_vars(Enter(t))

Spec == Init /\ [][Next]_vars /\ Fairness

-----------------------------------------------------------------------------
(* Properties                                                              *)

JobRecords == [pc : {"idle", "wait", "judge", "insert"},
               kind : {"none", "topics", "frame", "search"},
               todo : SUBSET Messages, msg : Messages \cup {None},
               row : Rows \cup {NoRow}, upto : Nat]

\* Every variable keeps its shape.
TypeOK ==
    /\ age \in [Messages -> {"unsent", "fresh", "stale"}]
    /\ old \subseteq Messages
    /\ sent \subseteq Texts
    /\ ring \in Seq([id : Nat, msgs : SUBSET Messages])
    /\ nextID \in Nat /\ cursor \in Nat
    /\ work \in [Actors -> JobRecords]
    /\ rows \in [Messages -> Rows \cup {NoRow}]
    /\ known \subseteq People
    /\ self \in Names /\ name \in Names
    /\ mentionOnly \in BOOLEAN
    /\ listed \subseteq Messages /\ drafted \subseteq Messages
    /\ seen \subseteq Messages /\ dropped \subseteq Messages
    /\ punctual \subseteq Messages /\ freed \subseteq Messages
    /\ rescued \subseteq Messages /\ unjudged \subseteq Messages
    /\ changes \in Nat /\ faults \in Nat

\* An actor between two messages holds none, one that is to insert holds a judged
\* message with its row, and a sender search only finds messages of the user.
JobsInOrder ==
    \A a \in Actors :
        LET job == work[a]
        IN /\ job.pc = "insert" => job.msg \in Messages /\ job.row \in Rows
           /\ job.pc # "insert" => job.msg = None
           /\ job.kind = "search" => job.todo \subseteq ByUser

\* Ingest is the fast path and the ticker the fallback for anything it missed: each
\* message of an observed topics response is stored, still to be read from the ring,
\* or given up by the ticker (too old, statement failed, pushed out of the ring),
\* however readers fail, block and race with it.
NothingPassedOver == seen \subseteq Stored \cup dropped \cup MessagesOf(Unread)

\* A tick moves the cursor over what it has stored or given up, once its hand is empty.
TickIsThorough ==
    LET tick == work[Ticker]
        batch == {e \in Unread : e.id <= tick.upto}
    IN MessagesOf(batch) \subseteq Stored \cup dropped \cup tick.todo \cup {tick.msg}

\* Event ids are handed out in order.
IdsInOrder ==
    /\ \A e \in Events : e.id <= nextID
    /\ cursor <= nextID
    /\ work[Ticker].upto <= nextID

CatchUpInv == NothingPassedOver /\ TickIsThorough /\ IdsInOrder

\* Nobody else writes what one of our replies says.
TextsTellUsApart ==
    \A m \in Messages, r \in Replies : Text[m] = Text[r] => Author[m] = User

\* The worker and the users row never take anybody else for the user, and no message
\* of anybody else counts as ours, provided that nobody else writes what we reply:
\* text matches, name learning, detection from rows and searches feed one another.
OnlyTheUserIsUs ==
    TextsTellUsApart =>
        /\ self \in {User, Placeholder}
        /\ name \in {User, Placeholder}
        /\ \A m \in Stored : rows[m].mine => Author[m] = User

Honest(m, row) ==
    /\ row.mine => Author[m] = User
    /\ row.sender \in {Author[m], User, Placeholder, Blank}

\* What OnlyTheUserIsUs rests on: rows, judged or stored, are signed by their author or
\* by us, and only texts of replies are recorded as sent.
RowsAreHonest ==
    /\ \A x \in sent : \E r \in Replies : x = Text[r]
    /\ TextsTellUsApart =>
         /\ \A m \in Stored : Honest(m, rows[m])
         /\ \A a \in Actors : work[a].pc = "insert" => Honest(work[a].msg, work[a].row)

\* A reply that was recorded as sent before anyone judged it comes back as our own: the
\* row of its ingest is not answered in its turn, whichever path sees it first and
\* whatever clients unskip, unless the check of its text failed. The row a history sync
\* adds for it can be (EachAnsweredOnce).
PunctualRepliesEndThere ==
    {m \in drafted : Original[m] \in punctual} \subseteq unjudged \cup SyncKeys

\* What PunctualRepliesEndThere rests on.
PunctualIsMine ==
    \A m \in punctual \ SyncKeys :
        /\ Text[m] \in sent
        /\ m \in Stored => rows[m].mine \/ m \in unjudged
        /\ \A a \in Actors : work[a].msg = m => work[a].row.mine \/ m \in unjudged
        /\ m \in listed \cup drafted => m \in unjudged

\* A message with a blocked keyword is answered only if a client unskipped it, its
\* settings could not be read, or a history sync stored it: once more, when an ingest
\* had stored it muted.
BlockedNeedsAClient == Blocked \cap drafted \subseteq freed \cup unjudged \cup SyncKeys

\* What BlockedNeedsAClient rests on.
BlockedIsMuted ==
    \A m \in Blocked \ SyncKeys :
        /\ m \in Stored => rows[m].mine \/ rows[m].skipped \/ m \in freed \cup unjudged
        /\ \A a \in Actors : work[a].msg = m => work[a].row.skipped \/ m \in unjudged
        /\ m \in listed \cup drafted => m \in freed \cup unjudged

\* A message a client unskipped stays unskipped until a client skips it: tabs and
\* ticks that see it again do not mute it again.
UnskipStands == \A m \in rescued : m \in Stored /\ ~rows[m].skipped

\* The inductive invariant.
IntakeInv ==
    /\ TypeOK
    /\ JobsInOrder
    /\ CatchUpInv
    /\ OnlyTheUserIsUs
    /\ RowsAreHonest
    /\ listed \cup drafted \subseteq Stored
    /\ PunctualIsMine
    /\ BlockedIsMuted
    /\ UnskipStands

\* What a topics response shows is stored or given up by the ticker, at the latest
\* when the ticker has read it, unless a restart forgets it.
Caught == \A m \in Messages \ SyncKeys : m \in seen ~> (m \in Stored \cup dropped \/ m \notin seen)

\* A message is stored once: "message_id PK 去重" (f012). No message is answered twice.
EachAnsweredOnce ==
    \A m, n \in drafted : Original[m] = Original[n] => m = n

\* WasRecentlySentDraft recognises our own messages "and avoids reply loops".
NoReplyLoop == drafted \cap ByUser = {}

\* Mention-only mode mutes a message whose text "doesn't mention self": none that
\* mentions the name the users row has for us.
MentionsAreNotMuted ==
    [][\A a \in Actors :
          LET m == work'[a].msg
              row == work'[a].row
          IN /\ work[a].pc = "judge" /\ work'[a].pc = "insert"
             /\ m \notin Stored \cup Blocked
             /\ row.skipped /\ ~row.mine
             => name \notin Mentions[m]]_vars

=============================================================================
