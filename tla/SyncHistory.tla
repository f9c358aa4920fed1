---------------------------- MODULE SyncHistory ----------------------------
(***************************************************************************)
(* History sync: a job in space_history_sync_jobs, the scan of a space by  *)
(* every Chat tab that was asked for it, and the HTTP calls a scan makes   *)
(* (batches of messages, then the completion).                             *)
(*                                                                         *)
(* content.js starts each call without waiting for the one before, so the  *)
(* calls of a scan reach the backend in any order. The backend serves each *)
(* statement by statement, without a transaction.                          *)
(*                                                                         *)
(* A scan asks for one page of each topic. The rows it stores have keys of *)
(* their own (spaces/<space>/messages/<id>), which no row of the ingest    *)
(* worker has: only scans store the rows modelled here.                    *)
(***************************************************************************)
EXTENDS Naturals, FiniteSets

CONSTANTS
    Jobs,        \* job ids
    Tabs,        \* Chat tabs running the extension
    Slots,       \* bound: calls open at one time, all tabs together
    Messages,    \* the history of the space: its messages with a text
    FirstPages,  \* those of them in the page get_topic_messages gives of a topic (100)
    Invalid,     \* messages without a sender name
    BatchSize,   \* BATCH_SIZE of inject-main.js (100)
    FaultKinds,  \* what may go wrong: see Fault
    MaxFaults,   \* bound: faults of any kind
    None, Uncounted   \* owners of a message row other than a slot or a job

ASSUME SyncBounds ==
    /\ BatchSize \in Nat \ {0}
    /\ MaxFaults \in Nat
    /\ IsFiniteSet(Messages)
    /\ FirstPages \subseteq Messages
    /\ Invalid \subseteq Messages
    /\ FaultKinds \subseteq {"skip", "scan", "lose", "statement", "reload"}

ASSUME OwnersDiffer ==
    /\ Jobs \cap Slots = {}
    /\ {None, Uncounted} \cap (Jobs \cup Slots) = {}
    /\ None # Uncounted

VARIABLES
    jobs,    \* the table: status and inserted_messages of each job
    asked,   \* scans asked of a tab and not begun
    scan,    \* progress of each tab's scan of each job
    calls,   \* the HTTP call in each slot
    owner,   \* the messages table, rows of scans; history: who inserted one (None: no row)
    waiter,  \* POST /api/spaces/sync-history in synchronous mode
    missed,  \* history: messages a job gave up, and so did not store
    faults   \* counts towards MaxFaults

vars == <<jobs, asked, scan, calls, owner, waiter, missed, faults>>

JobStatuses == {"none", "running", "completed", "failed"}
NoJob == [status |-> "none", inserted |-> 0]

NotScanned == [phase |-> "idle", left |-> {}, buf |-> {}]
Scanning(left, buf) == [phase |-> "scanning", left |-> left, buf |-> buf]

Call(pc, j, ms, status) ==
    [pc |-> pc, job |-> j, todo |-> ms, inserted |-> 0, status |-> status]
Free == Call("free", None, {}, "none")

\* Mutant: the batch does not say whose it is.
MutantBatchCall(j, ms) == Call("check", None, ms, "none")

BatchCall(j, ms) == Call("check", j, ms, "none")
CompleteCall(j, status) == Call("complete", j, {}, status)

Stored == {m \in Messages : owner[m] # None}
OwnedBy(o) == {m \in Messages : owner[m] = o}

Fault(kind) ==
    /\ kind \in FaultKinds
    /\ faults < MaxFaults
    /\ faults' = faults + 1

-----------------------------------------------------------------------------
(* Starting a job                                                          *)

\* CreateSyncJob: the job id is unique, and the row starts as running.
CreateJob(j) ==
    /\ jobs[j].status = "none"
    /\ jobs' = [jobs EXCEPT ![j].status = "running"]

Ask(j, ts) == asked' = [t \in Tabs |-> IF t \in ts THEN asked[t] \cup {j} ELSE asked[t]]

\* The popup starts a job and asks the active tab, if that runs the extension.
StartFromPopup(j, ts) ==
    /\ Cardinality(ts) <= 1
    /\ CreateJob(j)
    /\ Ask(j, ts)
    /\ UNCHANGED <<scan, calls, owner, waiter, missed, faults>>

\* POST /api/spaces/sync-history: the hub asks every tab it can reach, and the
\* handler may wait for the job to finish.
StartFromAgent(j, ts, wait) ==
    /\ CreateJob(j)
    /\ Ask(j, ts)
    /\ waiter' = [waiter EXCEPT ![j] = IF wait THEN "waiting" ELSE "none"]
    /\ UNCHANGED <<scan, calls, owner, missed, faults>>

\* The handler polls the row until it sees the job finished, ...
Answer(j) ==
    /\ waiter[j] = "waiting"
    /\ jobs[j].status \in {"completed", "failed"}
    /\ waiter' = [waiter EXCEPT ![j] = jobs[j].status]
    /\ UNCHANGED <<jobs, asked, scan, calls, owner, missed, faults>>

\* ... or its deadline passes, or its client goes away.
GiveUp(j) ==
    /\ waiter[j] = "waiting"
    /\ waiter' = [waiter EXCEPT ![j] = "timeout"]
    /\ UNCHANGED <<jobs, asked, scan, calls, owner, missed, faults>>

-----------------------------------------------------------------------------
(* The scan in a tab                                                       *)

\* activeSyncJobs keeps a tab from scanning a job twice at a time. The scan is
\* going to read the first page of each topic: it hands no page token on.
BeginScan(t, j) ==
    /\ j \in asked[t]
    /\ asked' = [asked EXCEPT ![t] = @ \ {j}]
    /\ scan' = IF scan[t][j].phase = "scanning" THEN scan
               ELSE [scan EXCEPT ![t][j] = Scanning(FirstPages, {})]
    /\ UNCHANGED <<jobs, calls, owner, waiter, missed, faults>>

\* postSyncHistoryBatch or completeSyncHistory: a fetch nobody waits for.
Send(call) == \E s \in Slots : calls[s] = Free /\ calls' = [calls EXCEPT ![s] = call]

\* Mutant: a full buffer is emptied before it is posted.
MutantEmit(j, buf) == IF Cardinality(buf) >= BatchSize THEN Send(BatchCall(j, {})) ELSE UNCHANGED calls

\* flushBatch, once the buffer is full.
Emit(j, buf) == IF Cardinality(buf) >= BatchSize THEN Send(BatchCall(j, buf)) ELSE UNCHANGED calls

\* One more message of a topic goes into the buffer.
ReadMessage(t, j, m) ==
    /\ scan[t][j].phase = "scanning"
    /\ m \in scan[t][j].left
    /\ LET buf == scan[t][j].buf \cup {m}
       IN /\ Emit(j, buf)
          /\ scan' = [scan EXCEPT ![t][j] =
                Scanning(@.left \ {m}, IF Cardinality(buf) >= BatchSize THEN {} ELSE buf)]
    /\ UNCHANGED <<jobs, asked, owner, waiter, missed, faults>>

\* list_topics or get_topic_messages fails, or its answer does not parse, which is
\* taken for an empty one. The scan goes on without what that would have brought
\* (a topic, a page of topics and all after it), and reports none of it.
SkipMessages(t, j, ms) ==
    /\ Fault("skip")
    /\ scan[t][j].phase = "scanning"
    /\ ms # {} /\ ms \subseteq scan[t][j].left
    /\ scan' = [scan EXCEPT ![t][j] = Scanning(@.left \ ms, @.buf)]
    /\ missed' = [missed EXCEPT ![j] = @ \cup ms]
    /\ UNCHANGED <<jobs, asked, calls, owner, waiter>>

\* The end of a space posts what is left in the buffer (which message belongs to
\* which space is not told apart, so it may come at any message), ...
FlushRest(t, j) ==
    /\ scan[t][j].phase = "scanning"
    /\ scan[t][j].buf # {}
    /\ Send(BatchCall(j, scan[t][j].buf))
    /\ scan' = [scan EXCEPT ![t][j] = Scanning(@.left, {})]
    /\ UNCHANGED <<jobs, asked, owner, waiter, missed, faults>>

\* Mutant: a scan that is done posts no completion.
MutantEndScan(t, j) ==
    /\ scan[t][j].phase = "scanning"
    /\ scan[t][j].left = {}
    /\ scan[t][j].buf = {}
    /\ scan' = [scan EXCEPT ![t][j].phase = "done"]
    /\ UNCHANGED <<jobs, asked, calls, owner, waiter, missed, faults>>

\* ... and sync-history-done posts the completion.
EndScan(t, j) ==
    /\ scan[t][j].phase = "scanning"
    /\ scan[t][j].left = {}
    /\ scan[t][j].buf = {}
    /\ Send(CompleteCall(j, "completed"))
    /\ scan' = [scan EXCEPT ![t][j].phase = "done"]
    /\ UNCHANGED <<jobs, asked, owner, waiter, missed, faults>>

\* No session headers, or list_spaces fails: sync-history-error before any batch.
FailScan(t, j) ==
    /\ Fault("scan")
    /\ scan[t][j] = Scanning(FirstPages, {})
    /\ Send(CompleteCall(j, "failed"))
    /\ scan' = [scan EXCEPT ![t][j] = NotScanned]
    /\ UNCHANGED <<jobs, asked, owner, waiter, missed>>

\* The tab reloads or closes: its scans are forgotten.
Reload(t) ==
    /\ Fault("reload")
    /\ asked' = [asked EXCEPT ![t] = {}]
    /\ scan' = [scan EXCEPT ![t] = [j \in Jobs |-> NotScanned]]
    /\ UNCHANGED <<jobs, calls, owner, waiter, missed>>

-----------------------------------------------------------------------------
(* The handlers                                                            *)

\* handleSyncHistoryBatch looks at the job once: a job that is not running refuses
\* the whole batch.
CheckBatch(s) ==
    /\ calls[s].pc = "check"
    /\ IF jobs[calls[s].job].status = "running"
       THEN calls' = [calls EXCEPT ![s].pc = "insert"] /\ UNCHANGED missed
       ELSE /\ calls' = [calls EXCEPT ![s] = Free]
            /\ missed' = [missed EXCEPT ![calls[s].job] = @ \cup calls[s].todo]
    /\ UNCHANGED <<jobs, asked, scan, owner, waiter, faults>>

\* INSERT ... ON CONFLICT (user_id, message_key) DO NOTHING: a row is new once.
IsNew(m) == owner[m] = None

\* InsertOrGetMessage for the next message; one that lacks a required field only
\* counts as failed.
InsertMessage(s, m) ==
    /\ calls[s].pc = "insert"
    /\ m \in calls[s].todo
    /\ LET fresh == m \notin Invalid /\ IsNew(m)
       IN /\ owner' = IF fresh THEN [owner EXCEPT ![m] = s] ELSE owner
          /\ calls' = [calls EXCEPT ![s].todo = @ \ {m},
                                    ![s].inserted = IF fresh THEN @ + 1 ELSE @]
    /\ UNCHANGED <<jobs, asked, scan, waiter, missed, faults>>

\* The statement fails: the message counts as failed.
FailInsert(s, m) ==
    /\ Fault("statement")
    /\ calls[s].pc = "insert"
    /\ m \in calls[s].todo
    /\ calls' = [calls EXCEPT ![s].todo = @ \ {m}]
    /\ missed' = [missed EXCEPT ![calls[s].job] = @ \cup {m}]
    /\ UNCHANGED <<jobs, asked, scan, owner, waiter>>

Reown(from, to) == [m \in Messages |-> IF owner[m] = from THEN to ELSE owner[m]]

\* Mutant: the counter of the last batch, not the running total.
MutantCounted(j, n) == [jobs EXCEPT ![j].inserted = n]

Counted(j, n) == [jobs EXCEPT ![j].inserted = @ + n]

\* RecordBatch adds the counts to the job's row, whatever its status by now.
RecordBatch(s) ==
    /\ calls[s].pc = "insert"
    /\ calls[s].todo = {}
    /\ jobs' = Counted(calls[s].job, calls[s].inserted)
    /\ owner' = Reown(s, calls[s].job)
    /\ calls' = [calls EXCEPT ![s] = Free]
    /\ UNCHANGED <<asked, scan, waiter, missed, faults>>

\* handleSyncHistoryComplete: MarkJobComplete, one unconditional UPDATE.
CompleteJob(s) ==
    /\ calls[s].pc = "complete"
    /\ jobs' = [jobs EXCEPT ![calls[s].job].status = calls[s].status]
    /\ calls' = [calls EXCEPT ![s] = Free]
    /\ UNCHANGED <<asked, scan, owner, waiter, missed, faults>>

\* The request is lost, the handler fails before or between its statements, or
\* RecordBatch fails: what was inserted stays, and nothing is counted.
LoseCall(s) ==
    /\ Fault("lose")
    /\ calls[s].pc # "free"
    /\ calls' = [calls EXCEPT ![s] = Free]
    /\ owner' = Reown(s, Uncounted)
    /\ missed' = [missed EXCEPT ![calls[s].job] = @ \cup calls[s].todo]
    /\ UNCHANGED <<jobs, asked, scan, waiter>>

-----------------------------------------------------------------------------
Init ==
    /\ jobs = [j \in Jobs |-> NoJob]
    /\ asked = [t \in Tabs |-> {}]
    /\ scan = [t \in Tabs |-> [j \in Jobs |-> NotScanned]]
    /\ calls = [s \in Slots |-> Free]
    /\ owner = [m \in Messages |-> None]
    /\ waiter = [j \in Jobs |-> "none"]
    /\ missed = [j \in Jobs |-> {}]
    /\ faults = 0

StartStep(j) ==
    \E ts \in SUBSET Tabs :
        StartFromPopup(j, ts) \/ \E wait \in BOOLEAN : StartFromAgent(j, ts, wait)

ScanStep(t, j) ==
    \/ BeginScan(t, j)
    \/ \E m \in Messages : ReadMessage(t, j, m)
    \/ FlushRest(t, j)
    \/ EndScan(t, j)

CallStep(s) ==
    \/ CheckBatch(s)
    \/ \E m \in Messages : InsertMessage(s, m)
    \/ RecordBatch(s)
    \/ CompleteJob(s)

FaultStep ==
    \/ \E t \in Tabs, j \in Jobs : FailScan(t, j) \/ \E ms \in SUBSET Messages : SkipMessages(t, j, ms)
    \/ \E t \in Tabs : Reload(t)
    \/ \E s \in Slots : LoseCall(s) \/ \E m \in Messages : FailInsert(s, m)

Next ==
    \/ \E j \in Jobs : StartStep(j) \/ Answer(j) \/ GiveUp(j)
    \/ \E t \in Tabs, j \in Jobs : ScanStep(t, j)
    \/ \E s \in Slots : CallStep(s)
    \/ FaultStep

(***************************************************************************)
(* A scan that can go on goes on, the backend serves the calls it has got, *)
(* and the synchronous handler polls and has a deadline. Nothing fails a   *)
(* job that nobody completes: MarkTimedOutJobs is called by no code but    *)
(* RunSyncJobTimeoutTicker, which nothing starts.                          *)
(***************************************************************************)
Fairness ==
    /\ \A t \in Tabs, j \in Jobs : WF_vars(ScanStep(t, j))
    /\ \A s \in Slots : WF_vars(CallStep(s))
    /\ \A j \in Jobs : WF_vars(Answer(j)) /\ WF_vars(GiveUp(j))

Spec == Init /\ [][Next]_vars /\ Fairness

-----------------------------------------------------------------------------
(* Properties                                                              *)

Scans == [phase : {"idle", "scanning", "done"}, left : SUBSET Messages, buf : SUBSET Messages]

Calls == [pc : {"free", "check", "insert", "complete"}, job : Jobs \cup {None},
          todo : SUBSET Messages, inserted : Nat, status : {"none", "completed", "failed"}]

\* Every variable keeps its shape, and a call under way is about a job.
TypeOK ==
    /\ jobs \in [Jobs -> [status : JobStatuses, inserted : Nat]]
    /\ asked \in [Tabs -> SUBSET Jobs]
    /\ scan \in [Tabs -> [Jobs -> Scans]]
    /\ calls \in [Slots -> Calls]
    /\ \A s \in Slots : calls[s].pc # "free" => calls[s].job \in Jobs
    /\ owner \in [Messages -> Jobs \cup Slots \cup {None, Uncounted}]
    /\ waiter \in [Jobs -> {"none", "waiting", "timeout", "completed", "failed"}]
    /\ missed \in [Jobs -> SUBSET Messages]
    /\ faults \in Nat

\* inserted_messages of a job is the number of rows its recorded batches put into
\* the messages table: no row is counted twice, by one job or by two, however
\* many tabs scan the same history at the same time.
InsertedIsExact == \A j \in Jobs : jobs[j].inserted = Cardinality(OwnedBy(j))

\* The same of a batch on its way: what makes InsertedIsExact inductive.
BatchesAreExact == \A s \in Slots : calls[s].inserted = Cardinality(OwnedBy(s))

\* Only a batch past its check has inserted, and only a batch has messages to insert.
CallsInOrder ==
    \A s \in Slots :
        /\ calls[s].pc # "insert" => calls[s].inserted = 0
        /\ calls[s].pc \notin {"check", "insert"} => calls[s].todo = {}

InFlight(j) == UNION {calls[s].todo : s \in {s \in Slots : calls[s].job = j}}

Accounted(j) == InFlight(j) \cup Stored \cup Invalid \cup missed[j]

\* What a scan asks for does not vanish on its way: a message of a first page is
\* still to be read, buffered, on its way, stored, invalid, or the scan's job
\* gave it up (unreadable topic, refused or lost batch, failed statement).
ReadIsAccountedFor ==
    \A t \in Tabs, j \in Jobs : scan[t][j].phase # "idle" =>
        FirstPages \subseteq scan[t][j].left \cup scan[t][j].buf \cup Accounted(j)

\* The inductive invariant.
SyncInv ==
    /\ TypeOK
    /\ InsertedIsExact
    /\ BatchesAreExact
    /\ CallsInOrder
    /\ ReadIsAccountedFor

\* A scan that nothing disturbs ends its job.
UndisturbedScanSettles ==
    \A j \in Jobs :
        (\E t \in Tabs : j \in asked[t]) ~> (jobs[j].status # "running" \/ faults > 0)

\* The scan fetches "all topics + messages" of a space, and the completion follows
\* the last batch: a completed job none of whose calls is under way has stored
\* all that is valid, unless something failed.
CompletedIsStored ==
    \A j \in Jobs :
        jobs[j].status = "completed" /\ faults = 0 /\ (\A s \in Slots : calls[s].job # j)
            => Messages \ Invalid \subseteq Stored

=============================================================================
