----------------------------- MODULE ProxyCalls -----------------------------
(***************************************************************************)
(* Calls to Google Chat that the backend makes through the extension: send *)
(* a message, react to one, run a batchexecute RPC. A handler registers a  *)
(* waiter under a fresh req_id, the hub hands the request to every Chat    *)
(* tab, each tab runs it as an XHR and answers over its socket, and the    *)
(* socket's reader gives the first answer to the waiter. The credentials   *)
(* and the emoji catalog the handlers need live in the backend's memory    *)
(* and are pushed by the tabs.                                             *)
(***************************************************************************)
EXTENDS Naturals, FiniteSets

CONSTANTS
    Calls,      \* requests to /api/messages/send, /api/reactions, ...; each is a req_id
    Tabs,       \* Chat tabs running the extension
    HubCap,     \* events a tab's socket holds (32 in SubscribeExt)
    MaxFaults   \* bound: lost sockets, reloads and backend restarts

ASSUME ProxyBounds ==
    /\ HubCap \in Nat \ {0}
    /\ MaxFaults \in Nat

VARIABLES
    auth,     \* authStateData: "none", "bare" (no boq parameters) or "full"
    catalog,  \* emojiCatalog knows the emoji asked for
    at,       \* where the handler of each call is
    waiting,  \* proxyWaiters: the calls with a registered channel
    answer,   \* the channel of a call (capacity 1): a result or None
    up,       \* the tabs whose socket is connected
    sub,      \* requests on their way to each tab: hub channel and socket
    xhr,      \* XHRs each tab has open
    frames,   \* answers of each tab: on its socket, or in pendingOutbox while
              \* that is down
    applied,  \* history: the calls Chat has performed
    owed,     \* history: the tabs that owe each call an answer
    faults    \* counts towards MaxFaults

backend == <<auth, catalog, at, waiting, answer>>
wire == <<up, sub>>
tab == <<xhr, frames>>
ghost == <<applied, owed>>
vars == <<backend, wire, tab, ghost, faults>>

Results == {"done", "failed"}  \* OK with a 2xx status, or anything else
None == "none"
Verdicts == {"ok", "failed"}  \* 200; or 412, 422, 502, 504, a dead backend
Frame(c, r) == [call |-> c, res |-> r]

InProgress(c) == at[c] \in {"registered", "waiting"}

\* The variables have their types: of what the tabs and the hub hold, each call's
\* state and its one answer.
TypeOK ==
    /\ auth \in {"none", "bare", "full"}
    /\ catalog \in BOOLEAN
    /\ at \in [Calls -> {"idle", "registered", "waiting"} \cup Verdicts]
    /\ waiting \subseteq Calls
    /\ answer \in [Calls -> Results \cup {None}]
    /\ up \subseteq Tabs
    /\ sub \in [Tabs -> SUBSET Calls]
    /\ xhr \in [Tabs -> SUBSET Calls]
    /\ frames \in [Tabs -> SUBSET [call : Calls, res : Results]]
    /\ applied \subseteq Calls
    /\ owed \in [Calls -> SUBSET Tabs]
    /\ faults \in 0 .. MaxFaults

Init ==
    /\ auth = "none"
    /\ catalog = FALSE
    /\ at = [c \in Calls |-> "idle"]
    /\ waiting = {}
    /\ answer = [c \in Calls |-> None]
    /\ up = {}
    /\ sub = [t \in Tabs |-> {}]
    /\ xhr = [t \in Tabs |-> {}]
    /\ frames = [t \in Tabs |-> {}]
    /\ applied = {}
    /\ owed = [c \in Calls |-> {}]
    /\ faults = 0

-----------------------------------------------------------------------------
(* What the tabs push over HTTP.                                           *)

\* A page tells of its token once, with the boq parameters it has by then,
\* and a reloaded page or a new token may come at any time. The snapshot
\* replaces the one before. (A failed or refused push changes nothing; the tab
\* has counted it as done and does not repeat it.)
PushAuth ==
    /\ auth' \in {"bare", "full"}
    /\ UNCHANGED <<catalog, at, waiting, answer, wire, tab, ghost, faults>>

\* setEmojiCatalog replaces the catalog with that of the tab that pushed last.
PushCatalog ==
    /\ catalog' \in BOOLEAN
    /\ UNCHANGED <<auth, at, waiting, answer, wire, tab, ghost, faults>>

-----------------------------------------------------------------------------
(* The handlers.                                                           *)

\* AwaitProxy.
AwaitProxy(c) ==
    /\ waiting' = waiting \cup {c}
    /\ answer' = [answer EXCEPT ![c] = None]

\* The function AwaitProxy returns; the channel goes with the handler.
MutantCleanup(c) == UNCHANGED <<waiting, answer>>
Cleanup(c) ==
    /\ waiting' = waiting \ {c}
    /\ answer' = [answer EXCEPT ![c] = None]

\* A handler up to its waiter's registration. It turns down a request that is
\* malformed, or that comes before what it needs was pushed: 400, 412, 422.
Begin(c, ready) ==
    /\ at[c] = "idle"
    /\ \/ /\ ready
          /\ at' = [at EXCEPT ![c] = "registered"]
          /\ AwaitProxy(c)
       \/ /\ at' = [at EXCEPT ![c] = "failed"]
          /\ UNCHANGED <<waiting, answer>>
    /\ UNCHANGED <<auth, catalog, wire, tab, ghost, faults>>

handleSendMessage(c) == Begin(c, auth # "none")
handleReaction(c) == Begin(c, auth # "none" /\ catalog)
batchexecuteCall(c) == Begin(c, auth = "full")

Start(c) == handleSendMessage(c) \/ handleReaction(c) \/ batchexecuteCall(c)

\* ProxyRequest and PublishExt: to every connected tab whose channel has room.
Reached == {t \in up : Cardinality(sub[t]) < HubCap}
Publish(c) ==
    /\ at[c] = "registered"
    /\ at' = [at EXCEPT ![c] = "waiting"]
    /\ sub' = [t \in Tabs |-> IF t \in Reached THEN sub[t] \cup {c} ELSE sub[t]]
    /\ owed' = [owed EXCEPT ![c] = Reached]
    /\ UNCHANGED <<auth, catalog, waiting, answer, up, tab, applied, faults>>

\* What the handler makes of a result: only an OK with a 2xx status is one.
MutantVerdictRaw(r) == r
Verdict(r) == IF r = "done" THEN "ok" ELSE "failed"

\* The waiter has its answer.
Receive(c) ==
    /\ at[c] = "waiting"
    /\ answer[c] # None
    /\ at' = [at EXCEPT ![c] = Verdict(answer[c])]
    /\ Cleanup(c)
    /\ UNCHANGED <<auth, catalog, wire, tab, ghost, faults>>

\* defaultProxyTimeout, or the caller has gone: select picks any branch that
\* is ready, so this one may win over an answer.
\* Mutant: a call made while no tab is connected waits for one.
MutantExpire(c) ==
    /\ at[c] = "waiting"
    /\ up # {}
    /\ at' = [at EXCEPT ![c] = "failed"]
    /\ Cleanup(c)
    /\ UNCHANGED <<auth, catalog, wire, tab, ghost, faults>>
Expire(c) ==
    /\ at[c] = "waiting"
    /\ at' = [at EXCEPT ![c] = "failed"]
    /\ Cleanup(c)
    /\ UNCHANGED <<auth, catalog, wire, tab, ghost, faults>>

-----------------------------------------------------------------------------
(* A tab.                                                                  *)

\* handleProxyRequest begins; it does not look whether another tab runs the
\* same request.
TakeRequest(t, c) ==
    /\ c \in sub[t]
    /\ sub' = [sub EXCEPT ![t] = @ \ {c}]
    /\ xhr' = [xhr EXCEPT ![t] = @ \cup {c}]
    /\ UNCHANGED <<backend, up, frames, ghost, faults>>

\* wsSend: over the socket, or into the outbox, which drops the frame when
\* others (raw, token, debug) have filled it.
MutantWsSend(t, f) ==
    /\ frames' = IF t \in up THEN [frames EXCEPT ![t] = @ \cup {f}] ELSE frames
    /\ UNCHANGED owed
WsSend(t, f) ==
    \/ /\ frames' = [frames EXCEPT ![t] = @ \cup {f}]
       /\ UNCHANGED owed
    \/ /\ t \notin up
       /\ UNCHANGED frames
       /\ owed' = [owed EXCEPT ![f.call] = @ \ {t}]

\* The XHR ends and the tab answers. Chat may have performed a call whose
\* connection then broke. There is no timeout on the XHR.
Answer(t, c) ==
    /\ c \in xhr[t]
    /\ xhr' = [xhr EXCEPT ![t] = @ \ {c}]
    /\ \E r \in Results :
          /\ \/ applied' = applied \cup {c}
             \/ r = "failed" /\ UNCHANGED applied
          /\ WsSend(t, Frame(c, r))
    /\ UNCHANGED <<backend, wire, faults>>

\* connectWS, SubscribeExt and flushOutbox: what the outbox held is on the
\* socket now.
Connect(t) ==
    /\ t \notin up
    /\ up' = up \cup {t}
    /\ UNCHANGED <<backend, sub, tab, ghost, faults>>

-----------------------------------------------------------------------------
(* The reader of a tab's socket.                                           *)

\* CompleteProxy: no waiter, or one already answered, and the result is dropped.
MutantCompleteProxyAnyWaiter(c, r) ==
    \/ \E d \in waiting : answer' = [answer EXCEPT ![d] = r]
    \/ waiting = {} /\ UNCHANGED answer
MutantCompleteProxyBlocks(c, r) ==
    \/ c \in waiting /\ answer[c] = None /\ answer' = [answer EXCEPT ![c] = r]
    \/ c \notin waiting /\ at[c] # "failed" /\ UNCHANGED answer
CompleteProxy(c, r) ==
    answer' = IF c \in waiting /\ answer[c] = None
              THEN [answer EXCEPT ![c] = r] ELSE answer

\* handleExtInbound, case "proxy_response".
Read(t) ==
    /\ t \in up
    /\ \E f \in frames[t] :
          /\ frames' = [frames EXCEPT ![t] = @ \ {f}]
          /\ CompleteProxy(f.call, f.res)
    /\ UNCHANGED <<auth, catalog, at, waiting, wire, xhr, ghost, faults>>

-----------------------------------------------------------------------------
(* Faults.                                                                 *)

Faulty == faults < MaxFaults /\ faults' = faults + 1

\* The socket breaks: unsub, and what was under way in it is lost.
Disconnect(t) ==
    /\ Faulty
    /\ t \in up
    /\ up' = up \ {t}
    /\ sub' = [sub EXCEPT ![t] = {}]
    /\ frames' = [frames EXCEPT ![t] = {}]
    /\ owed' = [c \in Calls |-> IF c \in xhr[t] THEN owed[c] ELSE owed[c] \ {t}]
    /\ UNCHANGED <<backend, xhr, applied>>

\* The page reloads: its XHRs end unheard, performed or not.
Reload(t) ==
    /\ Faulty
    /\ up' = up \ {t}
    /\ sub' = [sub EXCEPT ![t] = {}]
    /\ frames' = [frames EXCEPT ![t] = {}]
    /\ xhr' = [xhr EXCEPT ![t] = {}]
    /\ \E C \in SUBSET xhr[t] : applied' = applied \cup C
    /\ owed' = [c \in Calls |-> owed[c] \ {t}]
    /\ UNCHANGED backend

\* The backend restarts: the globals of reactions_direct.go and the hub are
\* gone, and every socket breaks.
Restart ==
    /\ Faulty
    /\ auth' = "none"
    /\ catalog' = FALSE
    /\ at' = [c \in Calls |-> IF InProgress(c) THEN "failed" ELSE at[c]]
    /\ waiting' = {}
    /\ answer' = [c \in Calls |-> None]
    /\ up' = {}
    /\ sub' = [t \in Tabs |-> {}]
    /\ frames' = [t \in Tabs |-> IF t \in up THEN {} ELSE frames[t]]
    /\ UNCHANGED <<xhr, ghost>>

-----------------------------------------------------------------------------
TabStep(t) ==
    \/ Connect(t) \/ Read(t) \/ Disconnect(t) \/ Reload(t)
    \/ \E c \in Calls : TakeRequest(t, c) \/ Answer(t, c)

Next ==
    \/ \E c \in Calls : Start(c) \/ Publish(c) \/ Receive(c) \/ Expire(c)
    \/ \E t \in Tabs : TabStep(t)
    \/ PushAuth
    \/ PushCatalog
    \/ Restart

Spec == Init /\ [][Next]_vars

\* A handler runs on and its timer fires; a socket's reader reads on.
Fairness ==
    /\ \A c \in Calls : WF_vars(Publish(c)) /\ WF_vars(Expire(c))
    /\ \A t \in Tabs : WF_vars(Read(t))

FairSpec == Spec /\ Fairness

-----------------------------------------------------------------------------
\* A caller told "ok" has had its own call performed by Chat, whatever other
\* calls were answered meanwhile and whichever tab answered.
VerdictEarned == \A c \in Calls : at[c] = "ok" => c \in applied

\* No handler leaves its waiter behind, and none waits without one: a waiter
\* is registered exactly while its handler runs (proxyWaiters does not grow).
NoWaiterLeft == waiting = {c \in Calls : InProgress(c)}

\* While a handler waits, the answer of every tab that took the request and
\* has not failed since is under way: queued, running, on the wire, kept in
\* the outbox while the socket is down, or already in the channel.
Carries(t, c) ==
    \/ c \in sub[t] \cup xhr[t]
    \/ \E f \in frames[t] : f.call = c
NoAnswerLost ==
    \A c \in Calls : at[c] = "waiting" /\ answer[c] = None =>
        \A t \in owed[c] : Carries(t, c)

\* Every call returns to its caller, whatever becomes of tabs and sockets.
EveryCallReturns == \A c \in Calls : InProgress(c) ~> at[c] \in Verdicts

\* An answer nobody waits for, late or second, never stalls the socket's
\* reader (the comment on AwaitReaction): all that was sent is read.
ReaderNeverStalls ==
    \A t \in Tabs : t \in up /\ frames[t] # {} ~> t \notin up \/ frames[t] = {}
=============================================================================
