---------------------------- MODULE HistoryWalk ----------------------------
(***************************************************************************)
(* What the backend fetches for itself through the extension: the walk     *)
(* back through the user's own messages (sender search), the same walk     *)
(* over a saved session (style sync), and the names of the spaces their    *)
(* rows are in.                                                            *)
(*                                                                         *)
(* The hub broadcasts each call to every subscribed tab; a tab makes it    *)
(* and forwards what came back. Ingest runs under ChatProcessor.mu, so it  *)
(* is one step; the style sync takes no lock, so its look-up of a name and *)
(* its insert are two. The user's messages are numbered in the order they  *)
(* were sent, no two of them within a millisecond: a call for what is      *)
(* before oldest-1 ms then returns what is older than the oldest message.  *)
(***************************************************************************)
EXTENDS Naturals, FiniteSets, FiniteSetsExt

CONSTANTS
    Tabs,         \* Google Chat tabs with the extension
    Spaces,       \* space keys
    Prefixed,     \* those of the form space:XXX
    Nameless,     \* those Google's answers have no name for, as a DM without a title
    MessageCount, \* the user's own messages are 1 .. MessageCount
    SpaceOf,      \* the space each of them is in
    PageSize,     \* messages in a page of the search (97)
    Cap,          \* extensionSenderSearchCap and styleSyncMaxRecords (10000)
    LocalMail,    \* LOCAL_USER_EMAIL is set
    Session,      \* CHAT_SESSION_FILE is set
    Inclusive     \* Google's search takes its bound for included

ASSUME WalkBounds ==
    /\ MessageCount \in Nat
    /\ PageSize \in Nat \ {0}
    /\ Cap \in Nat
    /\ {LocalMail, Session, Inclusive} \subseteq BOOLEAN

Messages == 1 .. MessageCount

ASSUME WalkSpaces ==
    /\ SpaceOf \in [Messages -> Spaces]
    /\ Prefixed \subseteq Spaces
    /\ Nameless \subseteq Spaces

VARIABLES
    rows,     \* messages: whose each of the user's messages is stored as
    blank,    \* spaces with a placeholder in the space_name of some row
    named,    \* spaces with a row in spaces_directory
    unread,   \* get_group responses with a name in the raw ring the ticker has not read
    selfId,   \* users.chat_user_id is known
    selfMail, \* chat_members has the user's email
    live,     \* tabs whose socket is subscribed to the hub
    calls,    \* what each tab has been asked for and has not answered
    count,    \* senderSearchCount, up to Cap
    last,     \* lastSenderSearchOldestMs
    started,  \* ChatProcessor.Run has run
    style     \* progress of syncStyleCorpus

self == <<selfId, selfMail>>
walk == <<count, last>>
table == <<rows, blank>>
vars == <<table, named, unread, self, live, calls, walk, started, style>>

Top == MessageCount + 1
Search(b) == [call |-> "search", before |-> b]
Name(s) == [call |-> "get_group", space |-> s]
Calls == [call : {"search"}, before : 1 .. Top] \cup [call : {"get_group"}, space : Spaces]

Off == [pc |-> "off"]
Styles ==
    {Off} \cup [pc : {"fetch"}, before : 1 .. Top, total : 0 .. Cap]
        \cup [pc : {"store"}, before : 1 .. Top, next : Messages, todo : SUBSET Messages, total : 0 .. Cap]
        \cup [pc : {"insert"}, before : 1 .. Top, next : Messages, todo : SUBSET Messages,
              total : 0 .. Cap, message : Messages, known : BOOLEAN]

Init ==
    /\ rows = [m \in Messages |-> "absent"]
    /\ blank = {}
    /\ named = {}
    /\ unread = {}
    /\ selfId = FALSE
    /\ selfMail = FALSE
    /\ live = {}
    /\ calls = [t \in Tabs |-> {}]
    /\ count = 0
    /\ last = 0
    /\ started = FALSE
    /\ style = Off

-----------------------------------------------------------------------------
(* Reads and publications.                                                 *)

\* ListSpacesMissingName looks for placeholders in messages, whatever the directory has.
\* Mutant: it looks for spaces the directory has no row for.
MutantMissing(B, N) == (B \cap Prefixed) \ N
Missing(B, N) == B \cap Prefixed

\* requestSpaceNameRefresh: the calls it asks for.
NameCalls(B, N) == {Name(s) : s \in Missing(B, N)}

\* resolveSelfLdap finds an address.
Ldap(id, mail) == LocalMail \/ (id /\ mail)

\* requestInitialSenderSearch.
FirstSearch(id, mail) == IF Ldap(id, mail) THEN {Search(Top)} ELSE {}

\* PublishExt. A tab that holds the same call already gets it merged; a call
\* that finds the tab's channel full is lost, see Lose.
Publish(answered, C) ==
    calls' = [t \in Tabs |-> answered[t] \cup (IF t \in live THEN C ELSE {})]

\* What is left when tab t has answered c.
Without(t, c) == [calls EXCEPT ![t] = @ \ {c}]

\* UpsertSpaceName for each of S: the directory, then the placeholders of messages.
Upsert(S) ==
    /\ named' = named \cup S
    /\ blank' = blank \ S

-----------------------------------------------------------------------------
(* The extension.                                                          *)

\* handleExtWS: subscribe, then ask the new tab for the names that are missing.
Connect(t) ==
    /\ t \notin live
    /\ live' = live \cup {t}
    /\ calls' = [calls EXCEPT ![t] = @ \cup NameCalls(blank, named)]
    /\ UNCHANGED <<table, named, unread, self, walk, started, style>>

\* The socket of a tab breaks: the calls it has are still answered, later.
SocketLoss(t) ==
    /\ t \in live
    /\ live' = live \ {t}
    /\ UNCHANGED <<table, named, unread, self, calls, walk, started, style>>

\* The user reloads or closes the page: the calls it had are gone.
Reload(t) ==
    /\ t \in live
    /\ live' = live \ {t}
    /\ calls' = [calls EXCEPT ![t] = {}]
    /\ UNCHANGED <<table, named, unread, self, walk, started, style>>

\* A call finds a full channel or a broken socket, or Google refuses it.
Lose(t) ==
    /\ \E c \in calls[t] : calls' = Without(t, c)
    /\ UNCHANGED <<table, named, unread, self, live, walk, started, style>>

-----------------------------------------------------------------------------
(* Ingest.                                                                 *)

\* The page a search bounded by b returns: the newest PageSize messages before it.
Page(b) == {m \in Messages : m < b /\ b <= m + PageSize}

\* Rows after the messages of P are stored and marked as the user's.
Stored(P) == [m \in Messages |-> IF m \in P THEN "mine" ELSE rows[m]]

\* Placeholders after new rows are stored for P, with the names in N known.
Blanked(P, N) == blank \cup ({SpaceOf[m] : m \in {x \in P : rows[x] = "absent"}} \ N)

\* The walk goes on after a page with the oldest message o.
GoesOn(o) == count' < Cap /\ (last = 0 \/ o < last)

\* What is asked for after a page with the oldest message o.
\* Mutant: the bound is taken for one that includes its message, as the style
\* sync's is, and lowered by a message.
MutantNextBound(o) == o - 1
NextBound(o) == o

\* ingestBatchExecuteSenderSearch of the page tab t fetched for b.
IngestPage(t, b) ==
    /\ t \in live
    /\ Search(b) \in calls[t]
    /\ LET P == Page(b) IN
       IF P = {}
       THEN /\ calls' = Without(t, Search(b))
            /\ UNCHANGED <<table, walk>>
       ELSE /\ rows' = Stored(P)
            /\ blank' = Blanked(P, named)
            /\ count' = Min({Cap, count + Cardinality(P)})
            /\ LET new == \E m \in P : rows[m] = "absent"
                   names == IF new THEN NameCalls(blank', named) ELSE {}
               IN IF GoesOn(Min(P))
                  THEN /\ last' = Min(P)
                       /\ Publish(Without(t, Search(b)), names \cup {Search(NextBound(Min(P)))})
                  ELSE /\ UNCHANGED last
                       /\ Publish(Without(t, Search(b)), names)
    /\ UNCHANGED <<named, unread, self, live, started, style>>

\* A get_group response is put in the raw ring, then ingested. One without a
\* name is dropped by Ingest and by the ticker.
IngestName(t, s) ==
    /\ t \in live
    /\ Name(s) \in calls[t]
    /\ calls' = Without(t, Name(s))
    /\ unread' = unread \cup ({s} \ Nameless)
    /\ Upsert({s} \ Nameless)
    /\ UNCHANGED <<rows, self, live, walk, started, style>>

\* The same when a statement of Ingest fails: the response stays in the ring.
IngestFails(t, s) ==
    /\ t \in live
    /\ Name(s) \in calls[t]
    /\ calls' = Without(t, Name(s))
    /\ unread' = unread \cup ({s} \ Nameless)
    /\ UNCHANGED <<table, named, self, live, walk, started, style>>

\* The ticker catches up with the ring.
Tick ==
    /\ started
    /\ unread # {}
    /\ Upsert(unread)
    /\ unread' = {}
    /\ UNCHANGED <<rows, self, live, calls, walk, started, style>>

\* A jfcZG response: the Browse panel, or handleRefreshSpaceDirectory.
BulkNames(S) ==
    /\ live # {}
    /\ Upsert(S)
    /\ UNCHANGED <<rows, unread, self, live, calls, walk, started, style>>

\* get_user_settings. "First time" is tested by the email, which is the first
\* result of LookupSelfIdentity.
LearnId ==
    /\ live # {}
    /\ selfId' = TRUE
    /\ LET firstTime == ~(selfId /\ selfMail) IN
       Publish(calls, IF firstTime /\ count = 0 THEN FirstSearch(TRUE, selfMail) ELSE {})
    /\ UNCHANGED <<table, named, unread, selfMail, live, walk, started, style>>

\* list_members with profiles, or a UIgx0 directory without the restart of the search.
LearnMembers(own, directory) ==
    /\ live # {}
    /\ selfMail' = (selfMail \/ own)
    /\ Publish(calls, IF ~directory /\ count = 0 THEN FirstSearch(selfId, selfMail') ELSE {})
    /\ UNCHANGED <<table, named, unread, selfId, live, walk, started, style>>

\* Another source stores message m: ingestMessage, which takes what it does
\* not recognise for someone else's.
Arrive(m) ==
    /\ rows[m] = "absent"
    /\ \E whose \in {"mine", "other"} : rows' = [rows EXCEPT ![m] = whose]
    /\ blank' \in {blank, blank \cup {SpaceOf[m]}}
    /\ UNCHANGED <<named, unread, self, live, calls, walk, started, style>>

\* A sync batch stores messages of s under keys of its own, with the key of the
\* space for its name.
SyncStores(s) ==
    /\ blank' = blank \cup {s}
    /\ UNCHANGED <<rows, named, unread, self, live, calls, walk, started, style>>

-----------------------------------------------------------------------------
(* Start, style sync, restart.                                             *)

\* Run: the backfills from the ring, the refresh of names, the style sync and
\* the first search.
Start ==
    /\ ~started
    /\ started' = TRUE
    /\ Upsert(unread)
    /\ Publish(calls, NameCalls(blank', named') \cup FirstSearch(selfId, selfMail))
    /\ style' = IF Session THEN [pc |-> "fetch", before |-> Top, total |-> 0] ELSE Off
    /\ UNCHANGED <<rows, unread, self, live, walk>>

\* SearchOwnMessages with the bound of the last page's oldest message itself.
StylePage(b) == IF Inclusive /\ b # Top THEN Page(b + 1) ELSE Page(b)

StyleFetch ==
    /\ style.pc = "fetch"
    /\ style' = LET P == StylePage(style.before) IN
                IF P = {} \/ style.total >= Cap
                THEN Off
                ELSE [pc |-> "store", before |-> style.before, next |-> Min(P), todo |-> P,
                      total |-> Min({Cap, style.total + Cardinality(P)})]
    /\ UNCHANGED <<table, named, unread, self, live, calls, walk, started>>

\* The saved session has expired.
StyleFails ==
    /\ style.pc = "fetch"
    /\ style' = Off
    /\ UNCHANGED <<table, named, unread, self, live, calls, walk, started>>

\* LookupSpaceName for the next message of the page.
StyleLooksUp ==
    /\ style.pc = "store"
    /\ style.todo # {}
    /\ \E m \in style.todo :
        style' = [pc |-> "insert", before |-> style.before, next |-> style.next,
                  todo |-> style.todo \ {m}, total |-> style.total,
                  message |-> m, known |-> SpaceOf[m] \in named]
    /\ UNCHANGED <<table, named, unread, self, live, calls, walk, started>>

\* InsertOrGetMessage and MarkMessageAsMine with the name looked up before.
StyleInserts ==
    /\ style.pc = "insert"
    /\ rows' = Stored({style.message})
    /\ blank' = Blanked({style.message}, IF style.known THEN {SpaceOf[style.message]} ELSE {})
    /\ style' = [pc |-> "store", before |-> style.before, next |-> style.next,
                 todo |-> style.todo, total |-> style.total]
    /\ UNCHANGED <<named, unread, self, live, calls, walk, started>>

\* The page is done: go on before its oldest message, or stop for want of progress.
StyleTurns ==
    /\ style.pc = "store"
    /\ style.todo = {}
    /\ style' = IF style.next >= style.before
                THEN Off
                ELSE [pc |-> "fetch", before |-> style.next, total |-> style.total]
    /\ UNCHANGED <<table, named, unread, self, live, calls, walk, started>>

\* The backend restarts. What was in memory is gone; an UpsertSpaceName may
\* have been cut between its two statements. Tabs keep their calls.
Restart ==
    /\ \E cut \in {{}} \cup {{s} : s \in {x \in Spaces \ Nameless : \E t \in live : Name(x) \in calls[t]}} :
        named' = named \cup cut
    /\ unread' = {}
    /\ live' = {}
    /\ count' = 0
    /\ last' = 0
    /\ started' = FALSE
    /\ style' = Off
    /\ UNCHANGED <<table, self, calls>>

TabNext(t) ==
    \/ Connect(t) \/ SocketLoss(t) \/ Reload(t) \/ Lose(t)
    \/ \E b \in 1 .. Top : IngestPage(t, b)
    \/ \E s \in Spaces : IngestName(t, s) \/ IngestFails(t, s)

StyleNext == StyleFetch \/ StyleFails \/ StyleLooksUp \/ StyleInserts \/ StyleTurns

Next ==
    \/ \E t \in Tabs : TabNext(t)
    \/ Tick
    \/ \E S \in (SUBSET (Spaces \ Nameless)) \ {{}} : BulkNames(S)
    \/ LearnId
    \/ \E own, directory \in BOOLEAN : LearnMembers(own, directory)
    \/ \E m \in Messages : Arrive(m)
    \/ \E s \in Spaces : SyncStores(s)
    \/ Start
    \/ StyleNext
    \/ Restart

\* content.js connects again and again; the tab's calls are answered again and
\* again; Run is called in main.
Fairness ==
    /\ WF_vars(Start)
    /\ \A t \in Tabs : WF_vars(Connect(t))
    /\ \A t \in Tabs, s \in Spaces : SF_vars(IngestName(t, s))

Spec == Init /\ [][Next]_vars /\ Fairness

-----------------------------------------------------------------------------
(* Properties.                                                             *)

\* Every variable has its type.
TypeOK ==
    /\ rows \in [Messages -> {"absent", "other", "mine"}]
    /\ blank \subseteq Spaces
    /\ named \subseteq Spaces
    /\ unread \subseteq Spaces \ Nameless
    /\ selfId \in BOOLEAN
    /\ selfMail \in BOOLEAN
    /\ live \subseteq Tabs
    /\ calls \in [Tabs -> SUBSET Calls]
    /\ count \in 0 .. Cap
    /\ last \in 0 .. MessageCount
    /\ started \in BOOLEAN
    /\ style \in Styles

\* All messages from b on are stored as the user's.
StoredFrom(b) == \A m \in Messages : m >= b => rows[m] = "mine"

\* The walk leaves no gap: however many tabs answer the same call, in whatever
\* order, and whatever other sources store in between, all that is newer than
\* the boundary the walk has reached, or the style sync's, is in the table and
\* is the user's. lastSenderSearchOldestMs and before are the only memory of
\* what was fetched: a message passed over is never asked for again. This holds
\* as long as the database takes the inserts.
FrontierStored ==
    /\ last # 0 => StoredFrom(last)
    /\ style.pc = "fetch" => StoredFrom(style.before)

\* What keeps it so: a call is only ever made for what is older than everything
\* that is stored, and the style sync stores its page before it turns it.
AskedIsStored == \A t \in Tabs, b \in 1 .. Top : Search(b) \in calls[t] => StoredFrom(b)

StyleIsStored ==
    style.pc \in {"store", "insert"} =>
        \A m \in Messages :
            m >= style.next =>
                \/ rows[m] = "mine"
                \/ m \in style.todo
                \/ style.pc = "insert" /\ m = style.message

WalkInv == TypeOK /\ FrontierStored /\ AskedIsStored /\ StyleIsStored

\* Names arrive. requestSpaceNameRefresh "is safe to repeat: if the extension is
\* offline the event is dropped; ws.go re-fires on every new WS connect so
\* eventually at least one browser tab handles it": where a tab loses its
\* connection again and again, no space that has a name and is asked for keeps a
\* placeholder for ever, though calls are lost, the sync inserts a name it looked
\* up too early, or the backend dies between the two statements of
\* UpsertSpaceName. A space without a name keeps it, however often a tab answers.
NamesArrive ==
    (\E t \in Tabs : []<>(t \notin live)) =>
        \A s \in Prefixed \ Nameless : []<>(s \notin blank)
=============================================================================
