# Verification of google-chat-bot in TLA+

The program answers Google Chat messages on behalf of one local user. A Go
backend keeps messages and reply drafts in SQLite; an external agent posts
replies; the user approves, edits or rejects them in a web UI; a browser
extension inside each open Google Chat tab sends the approved ones and reports
the outcome. This directory holds its models, the TLC runs that check them and
the theorems TLAPS proves about them.

    tlc -workers 2 -config MCDraftDispatch.cfg MCDraftDispatch      # and so on, section 4
    tlapm DraftDispatchProofs.tla                                   # and so on, section 7

`PROJECT.json` lists every run with what it shows, every modelled definition with
the source lines it stands for, the hazards of the code, and the theorems.

## 1. Inventory

| Component | State it keeps | Operations | Talks to | Module |
|---|---|---|---|---|
| Approval queue (`store/messages.go`, `store/drafts_context.go`, `httpapi/claude.go`, `httpapi/extension.go`, `httpapi/drafts.go`) | table `drafts` | reply, approve, approve with edit, reject, generation patch, report | hub (claims, pushes) | `DraftDispatch` |
| Hub (`hub/hub.go`) | subscribers, claimed drafts, RPC waiters; all in memory | subscribe, publish, claim, release, await, complete | every handler | in each module that uses it |
| WebSocket of a tab (`httpapi/ws.go`) | one subscription, one writer, one reader per connection | connect, flush, forward, read a frame, close | hub, store, extension | as above |
| Extension (`extension/content.js`, `inject-main.js`) | in-flight drafts, outbox, socket, XHRs; gone on reload | dispatch, send, report, reconnect, poll, proxy, search | Google Chat, backend | as above |
| Extension RPC (`chatproxy.go`, `chat_rpc.go`, `send_message.go`, `reactions.go`, `reactions_direct.go`) | waiters by request id, pushed credentials, emoji catalog | proxy call, answer, time-out | hub, all tabs | `ProxyCalls` |
| History sync (`extension_sync_history.go`, `store/sync_jobs.go`, `spaces_history.go`) | table `space_history_sync_jobs` | start, batch, complete, status | extension, messages | `SyncHistory` |
| Ingest worker (`worker/chat_processor.go`, `memstore/raw_events.go`) | raw-event ring, cursor, identity of the user | append, tick, ingest | messages, hub | `MessageIntake` |
| Backfills of the worker (`chat_processor.go`, `googleapi/chat_search.go`, `store/spaces.go`, `store/users.go`) | boundary and count of the sender search, space names, members | search page by page, style sync, name refresh | hub, messages | `HistoryWalk` |
| Pending list and skip (`store/claude.go`, `store/skip.go`, `claude_skip.go`) | columns of `messages` | list, skip, unskip | agent, queue | `MessageIntake`, `Pages` |
| Space facts and mining (`space_facts.go`, `space_facts_mining.go`) | tables `space_facts`, `space_facts_mining_jobs` | propose, patch, approve, reject, delete, enqueue, claim, finish | agent, UI | `MiningQueue` (the jobs; facts: section 8) |
| Settings, overrides, safety rails (`spaces.go`, `safety.go`, `safety/*`, `extension.go`) | user and space settings | partial updates, events, check | queue, UI | `UserSettings` |
| Listings (`sent_log.go`, `messages_list.go`, `claude.go`, `skip.go`) | none; the client keeps the cursor | page, count | UI, mining skill | `Pages` |
| Migrations and start (`store/store.go`, `cmd/server/main.go`) | the schema, `schema_migrations`, the port | migrate, listen | every table | `Startup` |
| Parsers, placeholder translation of the store, debug, profile, backfill command | none, or one row | decode, translate, edit | | none (section 8) |

What makes them hard:

- SQLite runs on one connection and no handler opens a transaction, so each SQL
  statement is atomic and handlers interleave between statements (select, then
  insert; list, then claim, then publish; one UPDATE for each field; rows, then
  their count; DDL, then its bookkeeping).
- Three routes carry an approved draft to a tab: the broadcast of a push, the
  flush after a connect and the HTTP poll. They race each other, edits and reports.
- Whatever goes to a tab goes to every tab: each runs the same XHR, search or scan,
  and several answers come back to one question, in any order and late.
- Channels are bounded and drop; sockets drop; tabs reload and lose their memory;
  the backend restarts and loses its claims, waiters, ring and boundaries while the
  tabs keep their outboxes.
- Pushes, timeouts and retries are best effort, and nothing re-lists a draft
  unless a request, a reconnect or a poll does.

What makes each component correct:

- Queue: only a text its draft held while approved reaches Chat; a flagged text
  needs a human; "sent" means Chat took it; an approved draft is in the end sent
  or failed; a rejection stands (it does not, section 5).
- RPC: "ok" is said of the call that was performed; every call returns; no waiter
  is left, no answer lost that a healthy tab owes, no reader stalled.
- History sync: counters match what was inserted; no message a scan has read vanishes.
- Ingest: each message is stored once, in whatever order frames and ticks see it (and
  once more by a history sync, section 5); nobody else is taken for the user; what is
  muted or unskipped stays so.
- Backfills: no gap behind the boundary of a walk; a placeholder does not stay where there is a name.
- Mining: a promised mining comes; progress does not go back.
- Settings: an acknowledged write is not undone by another field's; the settings of a
  page that missed nothing are current; no combination that never was in force spares a text.
- Listings: a walk misses and repeats no more than its cursor allows.
- Start: a served schema is complete, whatever died or ran beside it.

## 2. Plan, and what is done of it

1. `DraftDispatch`: the approval queue, hub, sockets and send loop composed,
   because every interesting behaviour crosses all four. `ReplyContract` is its
   abstract specification; `DraftDispatchProofs` the theorems. Done.
2. `SyncHistory`, `SyncHistoryProofs`: jobs, scans by several tabs, batches and
   completion racing, the message table's unique key. Done.
3. `ProxyCalls`, `ProxyCallsProofs`: waiters, the broadcast to every tab, first
   answer wins, time-outs. Done.
4. `MessageIntake`, `MessageIntakeProofs`: ring and cursor, idempotent insert, late
   identity, auto-skip, skip and unskip, what is pending. Done.
5. `MiningQueue`, `MiningQueueProofs`: the jobs and the sessions that work them off. Done.
6. `UserSettings`, `UserSettingsProofs`: partial updates that race each other, the events,
   the rails. Done.
7. `HistoryWalk`, `HistoryWalkProofs`: the walks back and the names. Done.
8. `Pages`, and the first half of `StoreProofs`: listings walked while rows change. Done.
9. `Startup`, and the second half of `StoreProofs`: migrations and the processes that
   run them. Done.
10. Left: the writer of a connection that dies while the flush is blocked; the reports
    of drafts composed with the judgement of echoes; a hub that keeps a claim when a
    push reaches no tab (`hub.go:218`).

## 3. Modules

### DraftDispatch

One step is one SQL statement, one hub operation, one frame or one callback of
the extension.

| State | Code |
|---|---|
| `rows` | table `drafts`, without the columns no guard reads |
| `req[w]` | where an HTTP handler is between two of its statements, with its local variables |
| `dispatched` | `Hub.dispatched`, the claim set |
| `phase[t]` | `handleExtWS`: down, subscribed but before its flush, live |
| `sub[t]`, `backlog[t]` | frames to the tab: the hub subscription (with the writer and the socket behind it), and those of the flush |
| `up[t]`, `releasing[t]` | frames from the tab; the reader between the update of a report and `ReleaseDraft` |
| `inFlight[t]`, `outbox[t]`, `polled[t]` | `inFlightDrafts` with its XHRs, `pendingOutbox`, an answer of the HTTP poll |
| `posted` | what Google Chat accepted |
| `granted`, `vouched` | history: the texts a row held while approved; those a human typed or approved |

| Actions | Code |
|---|---|
| `Reply`, `ReplyWrite`, `ReplyRelease` | `handleClaudeReply` with `UpsertDraftForMessage`'s select and write |
| `Approve`, `ApproveEdited`, `ApproveStatus`, `Reject` | `handleDraftAction` |
| `Patch` | `handlePatchDraft`, `PatchDraftGeneration` |
| `PushList`, `PushClaim`, `PushPublish` | `pushPendingForUser`, `pushPendingForClaude`, `ClaimDraft`, `PublishExt` |
| `Connect`, `FlushList` | the start of `handleExtWS`; `ws.onopen` with the outbox flush |
| `ReceiveEvent`, `ReceiveBacklog` | the writer goroutine, `onServerMessage`, `dispatchSendRequest` |
| `Finish` | `handleSendRequest` and the `send_result` listener |
| `RecordReport`, `LoseReport`, `ReleaseReported` | the `sent` case of `handleExtInbound` |
| `Poll`, `PollAnswer` | the HTTP fallback and `handleExtPending` |
| `Abort`, `Disconnect`, `Reload`, `Restart` | a request cut short, a socket, tab or backend that goes away |

`ReplyContract` is what the queue promises with none of this in it: a text is
granted, Google Chat takes granted texts only, a draft is recorded as sent after
Google Chat took it. `DraftDispatch` implements it with `recorded` read off the table.

### SyncHistory

| State | Code |
|---|---|
| `jobs` | table `space_history_sync_jobs`: status and `inserted_messages` |
| `asked[t]` | `sync-history-scan` messages a tab has not taken |
| `scan[t][j]` | `handleSyncHistoryScan`: messages still to read, at first those of `FirstPages`, and `batchBuffer` |
| `calls[s]` | an open fetch of a tab and the handler that serves it |
| `owner[m]` | the rows of scans in table `messages`: whether one exists, and (history) who inserted it |
| `waiter[j]` | the synchronous mode of `POST /api/spaces/sync-history` |
| `missed[j]` | history: messages a job gave up |

| Actions | Code |
|---|---|
| `StartFromPopup`, `StartFromAgent`, `Answer`, `GiveUp` | `startSync` of the popup; `handleSyncSpacesHistory` and its polling loop; `CreateSyncJob` |
| `BeginScan`, `ReadMessage`, `SkipMessages`, `FlushRest`, `EndScan`, `FailScan`, `Reload` | the scan of `inject-main.js` and the sync listeners of `content.js` |
| `CheckBatch`, `InsertMessage`, `FailInsert`, `RecordBatch` | `handleSyncHistoryBatch`, `InsertOrGetMessage`, `RecordBatch` |
| `CompleteJob` | `handleSyncHistoryComplete`, `MarkJobComplete` |
| `LoseCall` | a call that dies half-way |

`FirstPages` is what a scan can see: `get_topic_messages` asks for 100 messages of a
topic without a page token (`inject-main.js:1411`). What is beyond is not read and not
reported. An answer that does not parse is taken for an empty one (1363, 1389, 1413) and is
a case of `SkipMessages`. The key of a row is `spaces/<space>/messages/<id>` (1446),
which no ingested row has, so the ingest worker is no party to this race.

### MessageIntake

One step is one SQL statement or one turn of a goroutine on its own memory.

| State | Code |
|---|---|
| `age[m]`, `old` | Google Chat: unsent, fresh, older than `freshnessWindow`; and whether m is older than `sessionStart` |
| `sent` | `drafts` with status `sent`, as far as `WasRecentlySentDraft` asks |
| `ring`, `nextID`, `cursor` | `RawEventStore`, and `ChatProcessor.lastID` |
| `work[a]` | where a reader (`Ingest`) or the ticker (`tick`) is: waiting for the mutex, judging, about to insert a judged row |
| `rows[m]` | table `messages`: `sender_is_me`, `skipped_at`, `sender_name` |
| `Original`, `SyncKeys` | a message has a second key, under which a history sync stores it; `Original` maps it to the first |
| `known` | `chat_members` |
| `self`, `name` | `ChatProcessor.userName`, and `users.name` |
| `mentionOnly` | `user_settings.reply_only_when_mentioned` |
| `listed`, `drafted` | what the agent was last given; messages with a draft |
| `seen`, `dropped`, `punctual`, `freed`, `rescued`, `unjudged` | history |

| Actions | Code |
|---|---|
| `Post`, `Report`, `Age` | Google Chat; the `sent` frame of a tab; time |
| `Observe`, `Enter` | the `raw` frame (`handleExtInbound`, `handleExtRaw`) and the mutex of `Ingest` |
| `Tick`, `Done` | `tick`: read a batch of the ring, and move the cursor past it |
| `DropStale`, `Judge`, `Misjudge`, `Insert`, `FailInsert` | `ingestMessage` with `autoSkipReason` and `InsertOrGetMessage`; a check or the insert may fail |
| `MarkMine` | `ingestBatchExecuteSenderSearch`, `MarkMessageAsMine` |
| `RequireLocalUser` (part of every request) | `requireLocalUser`, `EnsureLocalUser`, `AutoDetectChatIdentity` |
| `List`, `Reply`, `Skip`, `Unskip`, `SetMentionOnly`, `SyncInsert` | the clients: agent, pending page, settings, history sync |
| `Abandon`, `Restart` | an ingest cut short, a backend that restarts |

It meets the other modules at two points: `Report` is the step by which
`DraftDispatch` records "sent", and `SyncInsert` the one by which `SyncHistory`
inserts a row. Each is modelled here by what it does to a message. A row of a sync
is one more row of the same message, somebody else's and unmuted, and
`MarkMessageAsMine`, which goes by the short key, does not find it.

### ProxyCalls

One step is one hub operation, one frame, one XHR callback or one pushed snapshot.

| State | Code |
|---|---|
| `auth`, `catalog` | `authStateData` (absent, without the boq parameters, full) and `emojiCatalog`, in memory |
| `at[c]` | where the handler of a call is |
| `waiting`, `answer[c]` | `Hub.proxyWaiters` and the channel of capacity one of each |
| `up`, `sub[t]` | connected tabs; the requests in a tab's hub channel and socket |
| `xhr[t]`, `frames[t]` | XHRs of a tab; its answers on the wire or in `pendingOutbox` |
| `applied`, `owed` | history: calls Chat has performed; tabs that owe an answer |

| Actions | Code |
|---|---|
| `PushAuth`, `PushCatalog` | `handlePushAuthState`, `handlePushEmojiCatalog` |
| `handleSendMessage`, `handleReaction`, `batchexecuteCall` | the three callers, with their checks before the call |
| `Publish`, `Receive`, `Expire` | `chatProxyCall`: `ProxyRequest`, the answer, the deadline or the client's leaving |
| `TakeRequest`, `Answer`, `WsSend` (in them) | `content.js` and `handleProxyRequest` of the page |
| `Read` with `CompleteProxy` | the `proxy_response` case of `handleExtInbound` |
| `Connect`, `Disconnect`, `Reload`, `Restart` | sockets, tabs and the backend |

### MiningQueue

| State | Code |
|---|---|
| `jobs` | `space_facts_mining_jobs`: status, `last_mined_message_id`, whether there is an error |
| `req` | enqueueings between their two statements |
| `miner`, `tip` | sessions of the mining skill, a client; the newest message of a space |
| `owed`, `raced` | history: spaces promised a mining; whether a row changed between the statements of a call |

| Actions | Code |
|---|---|
| `EnqueueReads`, `EnqueueWrites` | `EnqueueMiningJob`, statement by statement |
| `MinerLists`, `MinerClaims`, `MinerReads`, `MinerFinishes`, `MinerDies` | `ListMiningJobs` and `PatchMiningJob` as the skill calls them (`specs/features/f014-space-facts-mining.md`) |
| `NewMessage` | a message appears |

### UserSettings

One step is one UPDATE, one event or one turn of a page.

| State | Code |
|---|---|
| `rows` | `user_settings` and `space_settings`: which flags of a row are on |
| `req[r]` | a handler with the fields it has still to write, the events to send, or a reply being checked |
| `queue[p]`, `live`, `fetch`, `shown[p]` | UI channel and socket, subscription, SWR revalidations and the user's settings as `useSettings` holds them |
| `untold`, `promise` | history: what a page missed; what an answer of 200 promised (and, from the start, that spaces are disabled) |

| Actions | Code |
|---|---|
| `PatchSettings`, `PatchSafetyRules`, `PatchSpace`, `SetAutoMode`, `SetMentionOnly`, `ToggleSpace` (by `Begin`) | the handlers of `extension.go` and `safety.go` |
| `WriteField`, `FailRequest`, `Reread`, `PublishUI`, `Respond` | `PatchUserSettings`, `PatchSpaceSettings`, the read after it, the events, the answer |
| `OpenPage`, `Subscribe`, `Unsubscribe`, `TakeEvent`, `Fetch` | `handleUIWS`, `useSettings.ts`, `handleGetSettings` |
| `ReplyReads`, `ReplyDecides`, `ReplyEnds` | the check of `handleClaudeReply`, `safety.Check` |

`useSettings` acts on `settings_updated` and `settings_changed` only. No hook of the
React pages acts on `spaces_changed`, and the space list and the safety section are
fetched when they appear, so `PageIsCurrent` is about the user's settings alone.

### HistoryWalk

`Ingest` runs under `ChatProcessor.mu` and is one step; the style sync takes no
lock, so its look-up of a name and its insert are two.

| State | Code |
|---|---|
| `rows`, `blank`, `named` | `messages` of the user's own, those with a placeholder name, `spaces_directory` |
| `count`, `last` | `senderSearchCount`, `lastSenderSearchOldestMs` |
| `calls[t]`, `live` | what each tab was asked (search before a bound, name of a space) and has not answered |
| `selfId`, `selfMail` | `users.chat_user_id`, an e-mail in `chat_members` |
| `unread`, `style`, `started` | raw ring, `syncStyleCorpus`, `Run` |

| Actions | Code |
|---|---|
| `IngestPage` | `ingestBatchExecuteSenderSearch`: mark, insert, ask for what is older |
| `IngestName`, `IngestFails`, `Tick`, `BulkNames` | `get_group` and `jfcZG` responses, `UpsertSpaceName`, the ticker; nothing is stored for a space of `Nameless` |
| `LearnId`, `LearnMembers`, `Start` | `get_user_settings`, `list_members`, `Run`: each may start the walk |
| `StyleFetch`, `StyleFails`, `StyleLooksUp`, `StyleInserts`, `StyleTurns` | `syncStyleCorpus` |
| `Arrive`, `SyncStores`, `Connect`, `SocketLoss`, `Reload`, `Lose`, `Restart` | other sources (ingest, history sync), sockets, lost calls, the backend |

### Startup

`schema` is the set of tables, indexes and columns of the file, `booked` the rows of
`schema_migrations`, `proc[p]` how far a process is. `Script` is what a migration
becomes (`rewritePgDDL`, `expandMultiAddColumn`, `splitStatements`); `CheckFile`,
`Execute` and `BookFile` are the loop of `Migrate`; `Start`, `ListenAndServe` and
`Stop` are `main`. A process may die between any two statements, two may run at
once, and each may be of any version. `Made(k, i)` is the path: what the first k files
and i statements of the next make of an empty file. `UndoNothing`, which TLC evaluates
for the instance and which the files in `migrations/` satisfy, says that no later
statement takes back an earlier one; without it a slow process could add again what a faster one dropped.

### Pages

| State | Code |
|---|---|
| `rows`, `skippedAt`, `draft`, `sentAt`, `now` | `messages` and `drafts` as far as the listings select and sort by them |
| `list`, `phase`, `limit`, `offset`, `cursorAt`, `cursorId`, `got` | the client's walk |
| `began`, `seen`, `twice`, `left`, `touched` | history |

| Actions | Code |
|---|---|
| `InsertOrGetMessage`, `SkipMessage`, `UnskipMessage`, `UpsertDraft`, `UpdateDraftStatus` | the statements of those names; an approval of a sent draft reopens it |
| `ListMessagesBySpace`, `ListSentLog` | one page with its boundary (`limit + 1` rows are read) |
| `ListByOffset`, `CountListed` | `handleClaudePending`, `handleListSkipped`: rows, then the total |

`Keyset` compares times as SQLite does, as text: a stored second is always less
than the cursor's own second, which is bound with a zone.

The `Mutant...` operators stand beside the definition they change: each is that
definition with a plausible bug, and some property of some run breaks when it is
used (`BlankLearnName` is one too).

## 4. Runs

Runs that pass:

| Run | Shows | Bounds |
|---|---|---|
| `dispatch_safety` | only approved text is posted, flagged text needs a human, "sent" was posted | 1 message, 1 draft, 1 tab, 2 concurrent requests of 3, replies, approvals, rejections, patches that promote nothing, 1 fault of any of 6 kinds |
| `dispatch_liveness` | an approved draft is not approved for ever; the queue implements `ReplyContract` | 2 drafts, 3 requests (replies, rejections, patches that promote nothing), 1 disconnect, reload, restart or poll |
| `sync_history` | counters are exact, no message that was read vanishes, an undisturbed scan ends its job | 1 job, 2 tabs, 2 open calls, batches of 2, a valid and an invalid message and one beyond the first page, 2 faults of any of 5 kinds |
| `intake_safety` | no observed message is passed over, only the user is taken for the user, ingested rows of punctual echoes and blocked messages are not answered, what is unskipped stays so, and whatever is observed is in the end stored, given up or forgotten | 1 tab and the ticker, a blocked message and a reply, each with its second key, a ring of 1, batches of 1, 2 events of 3 kinds, responses of 2 messages, 1 client change of 4 kinds, 1 fault of 4 kinds |
| `proxy_calls` | "ok" is earned, no waiter left, no owed answer lost, every call returns, no reader stalls | 2 calls, 2 tabs, channels of 1, 1 lost socket, reload or restart |
| `mining_queue` | a promised mining comes, progress never goes back | 2 spaces, 2 enqueueings at a time, 1 session, 2 new messages a space |
| `user_settings` | acknowledged writes hold, the settings of an undisturbed page are current, nothing risky slips | 1 space, 1 page with a channel of 2, 2 requests of 7 kinds at a time and in all, 3 answers of the client |
| `history_walk` | no gap behind either boundary; the names there are arrive | 1 tab, a space and a nameless DM, 3 messages, pages of 1, a cap of 3, style sync on |
| `startup` | the schema is on the one path; a process that serves is complete | 2 processes, the shapes of 5 migrations |
| `pages` | `before_id` gives every message once, the sent log misses nothing untouched, an offset misses at most what left | 3 messages, 2 seconds, 3 changes, pages of 1 and 2 |

Why the bounds are enough to be worth running. The races of the queue are between
a row and the copies of it that are under way, so one row, one tab and two
handlers already give every pair of steps on the same draft. One fault is
enough for each route to overtake another (the poll answer after the reconnect,
the report after the restart). In `SyncHistory` two tabs and two slots give the
two races that exist (batch against batch, batch against completion). In
`MessageIntake` the races are between a reader, the ticker, a request and the
report, so one of each gives every pair, and two events are one more than the ring
holds and a batch takes. In `ProxyCalls` an answer can be mistaken for another
call's with two calls, be second with two tabs, and find a channel full at
capacity one. Two requests give every pair of handlers of `UserSettings`, and a
channel of two is overrun by the events of two. In `HistoryWalk` three messages and pages of
one make a walk of three pages with a call between any two; calls a tab still holds
from before a restart are answered against the new boundary, out of order. Two
tabs answering the same call are in `MCHistoryTabs.cfg` (no style sync; 3 million
states) and in the theorem. `Startup`'s files have each kind of
statement the migrations have, two of them in files of several statements. In
`Pages` three rows and pages of one make three pages, with changes between any
two; the ties that matter (two rows in a second, the cursor's row itself) need two
seconds. The limits 20, 32, 50, 97, 100, 200, 10000 and 50000 of the code are
constants, run at 1, 2 or 3 so that they are reached. Where an instance is too small to
convince, the theorems of section 7 hold for every value of the constants.

`CHECK_DEADLOCK FALSE` is set where requests and faults are bounded and every
client may stop asking (`DraftDispatch`, `SyncHistory`, `MessageIntake`, `Pages`);
`ProxyCalls`, `MiningQueue`, `UserSettings`, `HistoryWalk` and `Startup` are checked
for deadlock, since a tab, a page or a process can always do something.

## 5. Where the code does something else than it says

Runs that fail, each because the code does something else than a line of its own
comments or specification says (quoted in `PROJECT.json` under `findings`):

| Run | What happens |
|---|---|
| `two_tabs` | The flush after a connect does not claim, so a draft claimed for a broadcast goes to a second tab too: the message can be posted twice |
| `promote` | The generation patch promotes a text without the rails; auto mode posts it |

Further configurations, kept beside the runs; each ends in the violation it names:

| Configuration (module) | Property | What happens, and what says otherwise |
|---|---|---|
| `MCRejectedReply.cfg` (`MCDraftDispatch`) | `RejectionStands` | A reply that selected its row before a rejection overwrites the rejected row (`store/messages.go:308`); lines 292-293 say rejected drafts "are left alone" |
| `MCSyncOvertaken.cfg` (`MCSyncHistory`) | `CompletedIsStored` | `content.js:378-390` awaits no call, so a completion overtakes the last batch, which is refused; `f012-extension-sync-history.md:144` has it called after the last batch |
| `MCSyncFirstPage.cfg` (`MCSyncHistory`) | `CompletedIsStored` | The job is completed with the second page of a topic never asked for (`inject-main.js:1411`); `f012-extension-sync-history.md:29` has it fetch all topics and messages of each space |
| `MCSyncedTwice.cfg` (`MCMessageIntake`) | `EachAnsweredOnce` | A sync stores an answered message once more, under its own key, and it is answered again; `f012-extension-sync-history.md:30` says a message is stored once, by its `message_id` |
| `MCReplyLoop.cfg` (`MCMessageIntake`) | `NoReplyLoop` | The frame with our reply is judged before the report that it was sent (`chat_processor.go:1032`), so the reply is listed and answered; `spaces.go:286-288` says the check avoids reply loops |
| `MCMuted.cfg` (`MCMessageIntake`) | `MentionsAreNotMuted` | The worker mutes by its own copy of the name (`chat_processor.go:1049`), a placeholder while the users row has the name; line 1003 says only bodies without a mention are skipped |
| `MCMiningRace.cfg` (`MCMiningQueue`) | `RunningStays` | An enqueueing that read "completed" puts a job back to pending that a session has marked running since; `space_facts_mining.go:42` and `f014-space-facts-mining.md:140` say a running job is refused |
| `MCHalfMigrated.cfg` (`MCStartup`) | `AppliedOnce` | After a crash within a migration its ADD COLUMN runs again and fails, so no start succeeds any more; `store.go:259-261` strips IF NOT EXISTS because migrations "are only ever applied once" |

(`MCIntakeLiveness.cfg`, a second instance of `Caught` with two tabs, and `MCHistoryTabs.cfg`
pass.)

Disagreements the models reach, or the reading for them met, without a configuration of their own:

- Queue: two concurrent replies to one message stack two drafts (`claude.go:160` says
  they do not); behind a full page of approved drafts a new one is pushed by nobody;
  an approval of a sent draft sends it again.
- History sync: a second completion changes a finished job (`sync_jobs.go:73` says it
  does not), and so does a batch that is recorded after it; a job whose tab went away
  runs for ever, because nothing starts `RunSyncJobTimeoutTicker`; a duplicate
  `job_id` is a 500, since `isUniqueViolation` does not know SQLite's error;
  `failed_messages` is never reported; an answer that does not parse counts as an
  empty one, so what it held is missing without a trace; the rows a sync adds for
  messages that were ingested are unmuted and not ours, whatever the first rows are.
- Facts: `POST /api/space-facts` is always a 500, because `CreateSpaceFact`
  (`space_facts.go:105-123`) binds and scans an `[]int64`, which the SQLite adapter
  passes on as it is (`store.go:88-109`): no fact is ever created. `space_key` has no
  foreign key.
- Mining: two enqueueings that both find no row end in a 500 for one; a session that dies leaves its
  job running for ever, and every enqueueing is then a 409; `f015:127` says a rejected
  fact cannot be approved again, the update is unconditional; `f015:230` says secret
  facts are in no list of the UI, the candidates include them.
- Settings: `PATCH /api/safety/rules` sends no event; `spaces_changed` is heard by no
  hook of the React pages (the page at `/legacy` reloads its spaces); the `settings_updated` of the
  two older endpoints holds one field, although `hub.go:316` says "the full settings
  object"; a page with a full channel may keep an outdated payload; a `safety_rules`
  map and a `blocked_keywords` list cannot be bound, so the request is a 500 after its
  earlier fields were written; `auto_mode_override` has no reader.
- History walk: a space Google has no name for (a DM) keeps its placeholder for ever, since an
  answer without a name is dropped (`chat_processor.go:503`, `chat_groups.go:51-54`); a search call that is lost stalls the walk until a restart; the first
  call of `Run` goes to nobody when no tab is connected; `UpsertSpaceName` is two
  statements ("atomically", `spaces.go:210`); a message whose insert fails is passed
  over; `before` is the oldest message less one millisecond, so messages of the
  same millisecond that a page cuts off are skipped; the tick reads and writes the
  worker's state without the mutex its comment promises; the tick replays an old
  `get_group` over a newer name.
- Listings: `next_before_id` is the id of the last message, not "minus 1" as
  `messages_list.go:100-102` has it (145-150), which is right; the sent log repeats the rows of the cursor's second, the cursor's row
  included, because times are compared as text, and does not get past a second with a
  page of drafts or more (`sent_log.go:119`: "(sent_at, id) keyset"); `useSent.ts`
  does not drop the repeated rows; `next_since` (`claude_skip.go:213`) selects rows at or after the time,
  newest first, so it never reaches older ones; `usePending.ts` reads `skipped`, the
  backend answers `items`; `id_in` binds a slice and fails on SQLite; a cursor that
  does not decode starts over.
- The backfill command asks for pages of 1000 where the backend takes at most 200, and
  posts `message_id` as a number where the backend wants a string: it marks nothing.
- `AwaitReaction`, `CompleteReaction`, `isAfterSessionStart` and `runSyncHistoryScan`
  (`inject-main.js`) have no caller.

## 6. Fairness

Weak fairness is assumed of what the code schedules by itself: a handler that can
take its next step (goroutines run, SQLite answers), the writer and the reader of
a connection, the redial of a closed socket (`scheduleReconnect` in `content.js`),
the end of an XHR, a tab's scan, the polling loop and the deadline of the
synchronous sync, the ticker of the worker (every three seconds), an ingest that
has started, and the mutex of `Ingest` (Go hands it on to a goroutine that waits).
None is assumed of clients (requests, settings), of the HTTP
poll (it only runs on a timer while the socket is down) or of faults.

In `ProxyCalls` only the handler (with its timer) and the readers are fair: tabs
may never answer, and `EveryCallReturns` holds by the deadline. `NamesArrive` assumes strong
fairness of a name call being answered: a tab that is asked again and again
answers some time, although it may lose any single call; its hypothesis is a tab that
loses its socket again and again, because only a new connection asks again. An answer
may hold no name: it is about the spaces that have one (not in `Nameless`) and are
asked for (`Prefixed`, of the form `space:XXX`).
`Startup` and the other modules state none.

`ApprovedSettles` is checked for replies, rejections and generation patches that
promote nothing. With explicit approvals or promotions it fails: approving a draft
whose claim a previous round has not released yet pushes nothing (hazard at `hub.go:218`).
`UndisturbedScanSettles` needs the absence of faults, because nothing retries a
call of a scan.

## 7. Proofs

Eight modules hold theorems: `DraftDispatchProofs`, `SyncHistoryProofs`,
`MessageIntakeProofs`, `ProxyCallsProofs`, `MiningQueueProofs`, `HistoryWalkProofs`,
`UserSettingsProofs`, and `StoreProofs` for both `Pages` and `Startup` (which is why
the specification of the latter is called `BootSpec`).
Every invariant that a run checks is a theorem.

Assumptions: each module's bounds are numbers (`BoundsAssumption`, `SyncBounds`,
`BoundsAreNumbers`, `ProxyBounds`, `TipBound`, `WalkBounds`, `SettingsBounds`), and its
data make sense (`DataAssumption`, `OwnersDiffer`, `WorldAssumption`, `KeysAssumption`, `KindsAssumption`,
`WalkSpaces`, `SettingsData`, `StartupFiles`, `MigrationsAdvance`): the history of a space is
finite, markers and names are distinct, replies of the agent are sent by the user,
every message has a space, the migrations are sequences of statements of which none
takes back an earlier one. TLC evaluates them in every run.

`DispatchInv` is inductive. `OnlyApprovedTextIsPosted` alone is not: a text is
granted long before it is posted, so the invariant follows it along every route.
`CarriedTextIsGranted` covers channels, sockets, polls and tabs,
`HandlersAreReady` the handlers that have listed or claimed but not yet
published, `ReportsAreHonest` and `NothingDangles` the reports on their way back.
Each action has a lemma, most by the same four facts (what a row write, a
request's step, a dispatch or a post preserves); `NextKeepsInv` combines them.
`FlaggedNeedsAHuman` adds `AutoModeSparesFlagged` and is proved for a backend that
promotes no generation patch, since with one the property is false (`promote`); a
patch that leaves its draft pending is harmless.
`QueueImplementsContract` maps every step, under `DispatchInv`, to a step of
`ReplyContract` or to a stutter: handlers that write a row are decisions, `Finish` and
`Reload` are posts, a recorded success is a record, all else stutters.

`SyncInv` is inductive. The counter of a job changes in the last statement of a
batch, while its rows appear one at a time, so exactness is stated for batches
under way too (`BatchesAreExact`), and `CallsInOrder` makes a slot that is reused start
at zero. The cardinality lemmas show that handing the rows of a batch to its job
adds exactly its count; they need distinct owners and a finite history.
`ReadIsAccountedFor` is proved action by action: what leaves one set enters another. It
speaks of the first pages only, which are all a scan ever has.

`IntakeInv` is inductive and has four parts that need one another little. For
`NothingPassedOver`, `TickIsThorough` follows the batch a tick holds: a batch is
downward closed in the ids (`BatchIsAPrefix`, by cardinality of the events before
it), so what the cursor passes was in the tick's hand, and a message leaves that hand
only stored or given up. For `OnlyTheUserIsUs`, `RowsAreHonest` says that rows,
stored or in an actor's hand, are signed by their author or by us; the cycle from
rows to names to rows is broken by `TextsTellUsApart`, which is a hypothesis of
the property and not of the module, since the code cannot ensure it.
`PunctualIsMine` and `BlockedIsMuted` follow an ingested message from the judgement to the
list; the rows of a sync are excepted, since nothing judges them. `JudgeByKeepsInv` covers a judgement with both checks and one with a check that
failed: in the latter the message is in `unjudged`, which the properties name.

`ProxyCalls`: the invariant adds `Truthful` to the three properties: a success on the
wire, in an outbox or in a waiter's channel is of a call Chat has performed. A
restart forgets the waiters but not what tabs carry, which is why the fact has to
be about every place an answer can be.

`MiningQueue`: progress needs that nothing is mined that was not there, and that
what a session holds is not behind the row; the promise needs that the row of a space
the session works on says "running", so that no enqueueing is accepted then. Both
are for one session, and the promise for enqueueings whose two statements nobody
came between: `MCMiningRace.cfg` shows what happens else. That an error is the last mining's
(`ErrorIsCurrent`) holds for any number of sessions.

`HistoryWalk`: `FrontierStored` holds because a call is only ever made for what is
older than everything that is stored (`AskedIsStored`), whoever answers it, and
because the style sync stores its page before it turns it (`StyleIsStored`). That a
page and the stored rows above its bound leave nothing between them is arithmetic on `Page`.

`Pages`: `MessagesWalk` says that everything at or above `before_id` that was there at
the start was delivered and nothing below it; `SentWalk` that an untouched draft was
delivered or follows the cursor. Both need that a page is closed upwards: if a row is
in it, so is every row listed above it, which is a fact about ranks, by cardinality
(`FiniteSetTheorems`). The text comparison makes the keyset wider than intended
and so costs repetitions, not losses. For the lists with an offset, `OffsetWalk` counts
the rows of the start that the walk will not come to any more: those that left and
those that moved up behind the offset (`Passed`). They are never more than the rows that
left, since one row that leaves moves one row at most past the offset
(`LeavingPassesOne`), a row that enters moves none forward (`EnteringPassesNone`), and a
page raises the offset by what it delivered. The count statement that follows
the page sees another listing, so the count is kept across it (`Reach`).

`UserSettings`: three invariants that share only the types. A write is promised
by an answer of 200, long after its UPDATE, so `WrittenHolds` speaks of the
fields an open request has written, for those no other request overlapped (`clean`):
`CleanIsAlone` makes it their owner, and `PromisedIsFree` that nobody who is open
names a promised field. `PageIsCurrent` is about an empty channel and says
nothing of a full one; inductive is that every page that is behind awaits something
(`CaughtUp`: a fetch, an event that makes it fetch, or a handler that still has one
to send), and that behind a `settings_updated` whose payload may be out of date
there is always such an event in the queue or to come (`PayloadsFollowed`). This is
where the order of the two events of a handler matters. `RepliesRemember` carries what
a reply read of the user's switch to the moment it reads the space's.

`Startup`: `AtPoint(k, i)` says that the schema is at one point of the path, that
every statement behind the point is settled (running it again is refused or
changes nothing), and that no process is ahead of it. A process at the point takes the schema
one statement on; one that is behind changes nothing, because its statement is settled, and
it stays so because later statements take nothing back (`StaysSettled`). The path is a
recursive function over the statements of a file within one over the files; that both
exist, and that a flattened sequence is a sequence, is proved by the least element of a
set (`LeastOne`, `UpTo`, `Recursion`): the library's `WFMin` is stated for sets, while its
induction theorems for operators are beyond these provers.

Only model-checked: liveness under fairness (`ApprovedSettles`, `EveryCallReturns`,
`ReaderNeverStalls`, `NamesArrive`, `Caught`, `UndisturbedScanSettles`: ENABLED is beyond this
prover), and the runs that fail.

## 8. Abstractions and limits

In `DraftDispatch`:

- A request finds auto mode on or off: the setting is a nondeterministic parameter.
- The reads of a handler happen in one step with its first write or lookup. A
  setting that changes in between is covered by the parameter (and by `UserSettings`); a row that changes
  in between is what the separate later steps model.
- `sub` joins the hub's channel, the connection's `out` channel and the socket: one
  queue with the capacity of the first. What is in a socket when it drops is lost.
- Frames of the flush may be delivered in any order with the broadcast.
- A closed connection ends at both sides at once.
- Left out: events to the web UI, the audit columns of safety overrides,
  `handleExtSent` (no client calls it), `chat_message_id` and wording.
- `Flagged` is the set of texts `safety.Check` flags under the current rails; what the
  rails match is not modelled.

In `SyncHistory`:

- The split of a history into topics and pages is only `FirstPages`; messages without a text,
  which a scan passes over, are no part of `Messages`.
- Which space a message belongs to is not told apart, so the flush at the end of a
  space may come after any message.
- A call counts as lost whether the network, the handler or `RecordBatch` failed.
- Only `inserted_messages` is counted, not the duplicate, failed and total columns.
- The id of a job is fresh: a second `CreateSyncJob` with the same id changes nothing.

In `MessageIntake`:

- The ring keeps every event, but of their contents only the messages a tick reads:
  events other than topics responses hold none.
- A text was "recently sent" if a draft with it was reported sent; the space and the
  window of an hour are not told apart, and a report more than five minutes late
  is taken for none.
- A report may be handled while the reader of a tab is busy: it can come from
  another tab's socket.
- Every space is enabled. Names compare exactly; nobody but the user has the
  user's name, and a message mentions people, not substrings.
- `Blocked` is the set of texts the configured keywords match; it does not change.
- The list is what the agent is shown without `debug=true`, which also shows our own.
- `p.userName` is read and written without a lock by the ticker; steps interleave,
  but the string is not torn.
- `chat_user_id` and the late `sender_id` of a row are left out, and so are events to the web UI.

In `ProxyCalls`: what a call asks is not told apart, nor why a verdict is a failure
(412, 422, 502, 504, or a backend that died). Requests on their way to a tab are a set:
the hub's channel and the socket, with the channel's capacity. The deadline may pass at any moment.

In `MiningQueue`: `candidates_generated` and the times are left out. The mining skill is a
client, modelled as its specification has it; with two sessions the properties about
mining are not claimed.

In `UserSettings`: the GET of a page is one step with the statements it runs. Each
message of the socket reaches `useSettings` (`react-use-websocket` holds the last one only,
and two that arrive within one render would be one). A request
that fails half-way, an event a page did not get, and requests that overlap on one
field are named in the properties (`untold`, `clean`), since the code does not repair them.

In `HistoryWalk`: no two of the user's messages are within a millisecond, and an
insert the database refuses is not modelled (the code passes over the message for
good). `Inclusive` is whether Google takes the bound of a search for included,
which the code cannot know.

In `Startup`: a statement is told apart by what it does to the schema, and the
instance has one migration of each shape the real files have. The only columns
a real file drops (0019) are of a CREATE TABLE; none is one that an ADD COLUMN
statement added, and so it is in the instance.

In `Pages`: the filters of a listing stay as they are during a walk; all spaces are
enabled and the user's own messages left out; the pending list is sorted by
`observed_at`, here the order of arrival; `skipped_at` is compared by its second
(a skip by the worker and one by a client are stored in two text formats, which can mis-order them).

Not modelled, and why: space facts (with no fact ever created, the other operations
find nothing), the parsers of Google Chat's payloads (positional decoding of a
third party's data; no state), the placeholder translation of queries in
`store.go` (text; one consequence matters, slices and maps that cannot be bound:
in `UserSettings` it fails requests half-way, for space facts it fails every
creation, and `id_in` of a listing fails too), the pages of the web UI beyond the settings page and the
walk of a list (layout, and requests that are inputs of the modules), debug
endpoints, the style profile and its corpus (single-row CRUD), and the backfill
command (a sequential client that, as section 5 says, marks nothing).
