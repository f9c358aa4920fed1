---------------------------- MODULE UserSettings ----------------------------
(***************************************************************************)
(* The user's settings and those of each space: the two tables, the HTTP   *)
(* handlers that change them, the events the handlers send to the open     *)
(* pages, and the check of a reply that reads them.                        *)
(*                                                                         *)
(* A PATCH is one UPDATE for each field it names, in the order of the code *)
(* and outside a transaction, so handlers interleave between fields. What  *)
(* is told apart of a row is which of its flags are on. The other fields   *)
(* (freshness window, debug mode, auto_mode_override) are written the same *)
(* way as the flag before them.                                            *)
(***************************************************************************)
EXTENDS Naturals, Sequences, SequencesExt

CONSTANTS
    Spaces,       \* space keys
    User,         \* the local user: the key of the row in user_settings
    Pages,        \* open pages of the web UI
    Requests,     \* bound: requests being served at one time
    RequestKinds, \* requests clients make: see Begin
    Answers,      \* what ClaudeClient.SafetyCheck may answer
    UICap,        \* capacity of a page's hub channel (16)
    MaxRequests   \* bound: requests ever made

ASSUME SettingsBounds == UICap \in Nat /\ MaxRequests \in Nat

ASSUME SettingsData ==
    /\ User \notin Spaces
    /\ RequestKinds \subseteq {"settings", "safety", "auto", "mention", "space", "toggle", "reply"}
    /\ Answers \subseteq {"flag", "clear", "error"}

VARIABLES
    rows,     \* user_settings and space_settings: the flags that are on
    req,      \* progress of each request
    queue,    \* events on their way to each page: hub channel and socket
    live,     \* pages whose socket is subscribed
    fetch,    \* pages about to fetch the user's settings again
    shown,    \* the user's settings as each page has them
    untold,   \* history: pages not told of a change they have not fetched since
    promise,  \* history: what holds until the field is named by another request
    requests  \* counts towards MaxRequests

pageVars == <<queue, live, fetch, shown, untold>>
vars == <<rows, req, pageVars, promise, requests>>

Targets == Spaces \cup {User}
UserFlags == {"auto_mode", "reply_only_when_mentioned", "safety_rails_enabled", "money"}
SpaceFlags == {"disabled", "mention_only", "safety_rails_off"}
Flags == UserFlags \cup SpaceFlags
NoRow == {"no row"}

\* What the readers take a missing row for, and what an INSERT of the keys leaves.
Default(x) == IF x = User THEN {"safety_rails_enabled", "money"} ELSE {"disabled"}

\* GetUserSettings, IsSpaceDisabled, GetSpaceSafetyOverride, ListSpaces.
View(x) == IF rows[x] = NoRow THEN Default(x) ELSE rows[x]

Ensured(x) == IF rows[x] = NoRow THEN Default(x) ELSE rows[x]

Updated(S) == [kind |-> "settings_updated", on |-> S]
Changed == [kind |-> "settings_changed"]
SpacesChanged == [kind |-> "spaces_changed"]
Events == [kind : {"settings_updated"}, on : SUBSET UserFlags] \cup {Changed, SpacesChanged}

Free == [pc |-> "free"]
Fields == Flags \cup {"keywords"}
Writes ==
    [pc : {"write"}, api : RequestKinds, row : Targets, named : SUBSET Fields,
     on : SUBSET Fields, todo : SUBSET Fields, clean : SUBSET Fields]
Tellings ==
    [pc : {"tell"}, api : RequestKinds, row : Targets, named : SUBSET Fields,
     on : SUBSET Fields, tell : Seq(Events), clean : SUBSET Fields]
Replies ==
    [pc : {"override"}, space : Spaces, user : SUBSET UserFlags, risky : BOOLEAN, off : BOOLEAN]
        \cup [pc : {"decided"}, auto : BOOLEAN, risky : BOOLEAN, off : BOOLEAN]

Init ==
    /\ rows = [x \in Targets |-> NoRow]
    /\ req = [r \in Requests |-> Free]
    /\ queue = [p \in Pages |-> <<>>]
    /\ live = {}
    /\ fetch = {}
    /\ shown = [p \in Pages |-> Default(User)]
    /\ untold = {}
    /\ promise = [x \in Targets |-> IF x = User THEN {} ELSE {<<"disabled", TRUE>>}]
    /\ requests = 0

-----------------------------------------------------------------------------
(* Writes.                                                                 *)

Busy(r) == req[r].pc \in {"write", "tell"}

\* The fields of a request that no other open request names.
Alone(x, F) == F \ UNION {req[r].named : r \in {q \in Requests : Busy(q) /\ req[q].row = x}}

\* The driver binds neither a map nor a slice: the statement with safety_rules
\* and the one with blocked_keywords fail.
Unbindable == {"money", "keywords"}

\* The statements a request runs: one for each field it names.
\* Mutant: the row read before them is written back whole.
MutantStatements(x, F, V) ==
    [named |-> F \cup (Default(x) \ Unbindable), on |-> V \cup (View(x) \ F)]
Statements(x, F, V) == [named |-> F, on |-> V]

\* A handler has decoded and validated its body, which names the fields F of
\* row x and turns those in V on; the row is inserted if it is missing. (An
\* upsert does that in the statement that sets the field.)
Begin(r, kind, x, F, V) ==
    /\ kind \in RequestKinds
    /\ req[r] = Free
    /\ requests < MaxRequests
    /\ requests' = requests + 1
    /\ rows' = [rows EXCEPT ![x] = Ensured(x)]
    /\ LET w == Statements(x, F, V)
       IN req' = [q \in Requests |->
                    IF q = r
                    THEN [pc |-> "write", api |-> kind, row |-> x, named |-> F,
                          on |-> w.on, todo |-> w.named, clean |-> Alone(x, F)]
                    ELSE IF Busy(q) /\ req[q].row = x
                    THEN [req[q] EXCEPT !.clean = @ \ F]
                    ELSE req[q]]
    /\ promise' = [promise EXCEPT ![x] = {w \in @ : w[1] \notin F}]
    /\ UNCHANGED pageVars

Named(S) == (SUBSET S) \ {{}}

\* PATCH /api/settings and PATCH /api/safety/rules: PatchUserSettings.
PatchSettings(r) ==
    \E F \in Named({"auto_mode", "safety_rails_enabled", "money"}) : \E V \in SUBSET F :
        Begin(r, "settings", User, F, V)
PatchSafetyRules(r) ==
    \E F \in Named({"safety_rails_enabled", "money"}) : \E V \in SUBSET F :
        Begin(r, "safety", User, F, V)

\* PATCH /api/spaces/{space_id}: PatchSpaceSettings.
PatchSpace(r, s) ==
    \E F \in Named({"mention_only", "safety_rails_off", "keywords"}) : \E V \in SUBSET F :
        Begin(r, "space", s, F, V)

\* POST /api/settings/auto-mode and mention-only.
SetAutoMode(r) ==
    \E V \in SUBSET {"auto_mode"} : Begin(r, "auto", User, {"auto_mode"}, V)
SetMentionOnly(r) ==
    \E V \in SUBSET {"reply_only_when_mentioned"} :
        Begin(r, "mention", User, {"reply_only_when_mentioned"}, V)

\* POST /api/spaces/toggle: disabled, or the inverse enabled; neither enables.
ToggleSpace(r, s) ==
    \E V \in SUBSET {"disabled"} : Begin(r, "toggle", s, {"disabled"}, V)

\* The order of the statements.
Order == <<"auto_mode", "safety_rails_enabled", "money", "reply_only_when_mentioned",
           "disabled", "mention_only", "safety_rails_off", "keywords">>
IsFirst(f, todo) ==
    /\ f \in todo
    /\ \E i \in DOMAIN Order : Order[i] = f /\ \A j \in 1 .. i - 1 : Order[j] \notin todo

WriteField(r) ==
    /\ req[r].pc = "write"
    /\ \E f \in req[r].todo \ Unbindable :
          /\ IsFirst(f, req[r].todo)
          /\ rows' = [rows EXCEPT ![req[r].row] =
                        IF f \in req[r].on THEN @ \cup {f} ELSE @ \ {f}]
          /\ req' = [req EXCEPT ![r].todo = @ \ {f}]
    /\ UNCHANGED <<pageVars, promise, requests>>

\* A statement fails, or the client has gone, which cancels the context: the
\* handler answers 500 and publishes nothing. What it has written stays.
FailRequest(r) ==
    /\ req[r].pc = "write"
    /\ req' = [req EXCEPT ![r] = Free]
    /\ untold' = IF req[r].row = User THEN Pages ELSE untold
    /\ UNCHANGED <<rows, queue, live, fetch, shown, promise, requests>>

\* The events of a handler: a settings_updated with the row as it reads now, or
\* with the field it set (mention_only is no key of Settings), then the older
\* settings_changed. PATCH /api/safety/rules sends none.
\* Mutant: a handler that only sends the payload.
MutantTell(api, on) ==
    CASE api = "settings" -> <<Updated(View(User) \ {"reply_only_when_mentioned"})>>
      [] api = "auto" -> <<Updated(on), Changed>>
      [] api = "mention" -> <<Updated({}), Changed>>
      [] api \in {"space", "toggle"} -> <<SpacesChanged>>
      [] OTHER -> <<>>
Tell(api, on) ==
    CASE api = "settings" -> <<Updated(View(User) \ {"reply_only_when_mentioned"}), Changed>>
      [] api = "auto" -> <<Updated(on), Changed>>
      [] api = "mention" -> <<Updated({}), Changed>>
      [] api \in {"space", "toggle"} -> <<SpacesChanged>>
      [] OTHER -> <<>>

Reread(r) ==
    /\ req[r].pc = "write"
    /\ req[r].todo = {}
    /\ req' = [req EXCEPT ![r] =
                [pc |-> "tell", api |-> @.api, row |-> @.row, named |-> @.named,
                 on |-> @.on, tell |-> Tell(@.api, @.on), clean |-> @.clean]]
    /\ untold' = IF req[r].api = "safety" THEN Pages ELSE untold
    /\ UNCHANGED <<rows, queue, live, fetch, shown, promise, requests>>

\* PublishUI: no page waits, a full channel loses the event.
\* Mutant: a channel that takes events without a bound.
MutantHears(p) == p \in live
Hears(p) == p \in live /\ Len(queue[p]) < UICap
PublishUI(r) ==
    /\ req[r].pc = "tell"
    /\ req[r].tell # <<>>
    /\ LET ev == Head(req[r].tell)
       IN /\ queue' = [p \in Pages |-> IF Hears(p) THEN Append(queue[p], ev) ELSE queue[p]]
          /\ untold' = IF ev = SpacesChanged THEN untold
                       ELSE untold \cup {p \in Pages : ~ Hears(p)}
    /\ req' = [req EXCEPT ![r].tell = Tail(@)]
    /\ UNCHANGED <<rows, live, fetch, shown, promise, requests>>

\* 200.
Respond(r) ==
    /\ req[r].pc = "tell"
    /\ req[r].tell = <<>>
    /\ promise' = [promise EXCEPT ![req[r].row] =
                    @ \cup {<<f, f \in req[r].on>> : f \in req[r].clean}]
    /\ req' = [req EXCEPT ![r] = Free]
    /\ UNCHANGED <<rows, pageVars, requests>>

-----------------------------------------------------------------------------
(* A page of the web UI, and what its useSettings holds. (Its space list   *)
(* and its safety section are fetched when they appear and follow no       *)
(* event.)                                                                 *)

\* It is loaded, or loaded again.
OpenPage(p) ==
    /\ shown' = [shown EXCEPT ![p] = View(User)]
    /\ queue' = [queue EXCEPT ![p] = <<>>]
    /\ live' = live \ {p}
    /\ fetch' = fetch \ {p}
    /\ untold' = untold \ {p}
    /\ UNCHANGED <<rows, req, promise, requests>>

\* handleUIWS.
Subscribe(p) ==
    /\ live' = live \cup {p}
    /\ UNCHANGED <<rows, req, queue, fetch, shown, untold, promise, requests>>

\* No event about the user's settings is on its way to p.
Quiet(p) == \A i \in DOMAIN queue[p] : queue[p][i] = SpacesChanged

\* The socket drops: what was on its way is lost.
Unsubscribe(p) ==
    /\ live' = live \ {p}
    /\ queue' = [queue EXCEPT ![p] = <<>>]
    /\ untold' = IF Quiet(p) THEN untold ELSE untold \cup {p}
    /\ UNCHANGED <<rows, req, fetch, shown, promise, requests>>

\* useSettings: a payload replaces what is held, settings_changed fetches it again,
\* and no hook asks for spaces_changed.
TakeEvent(p) ==
    /\ queue[p] # <<>>
    /\ LET ev == Head(queue[p])
       IN \/ /\ ev.kind = "settings_updated"
             /\ shown' = [shown EXCEPT ![p] = ev.on]
             /\ UNCHANGED fetch
          \/ /\ ev = Changed
             /\ fetch' = fetch \cup {p}
             /\ UNCHANGED shown
          \/ ev = SpacesChanged /\ UNCHANGED <<fetch, shown>>
    /\ queue' = [queue EXCEPT ![p] = Tail(@)]
    /\ UNCHANGED <<rows, req, live, untold, promise, requests>>

\* GET /api/settings. It makes up for what the page missed, unless an event that is
\* older than the fetch is still on its way.
Fetch(p) ==
    /\ p \in fetch
    /\ shown' = [shown EXCEPT ![p] = View(User)]
    /\ fetch' = fetch \ {p}
    /\ untold' = IF Quiet(p) THEN untold \ {p} ELSE untold
    /\ UNCHANGED <<rows, req, queue, live, promise, requests>>

-----------------------------------------------------------------------------
(* The check of a reply: handleClaudeReply, and safety.Check.              *)

RailsOff(s) == ~ {"safety_rails_enabled", "money"} \subseteq View(User)
               \/ "safety_rails_off" \in View(s)

\* GetUserSettings.
ReplyReads(r, s, risky) ==
    /\ "reply" \in RequestKinds
    /\ req[r] = Free
    /\ requests < MaxRequests
    /\ requests' = requests + 1
    /\ req' = [req EXCEPT ![r] = [pc |-> "override", space |-> s, user |-> View(User),
                                  risky |-> risky, off |-> RailsOff(s)]]
    /\ UNCHANGED <<rows, pageVars, promise>>

\* Check: the user's switch, the space's, the rule, the patterns, then the
\* client, whose error counts as a flag. (StubClaudeClient always flags.)
\* Mutant: an error of the client lets the draft through.
MutantFlagged(user, off, risky, answer) ==
    /\ {"safety_rails_enabled", "money"} \subseteq user
    /\ ~ off
    /\ risky
    /\ answer = "flag"
Flagged(user, off, risky, answer) ==
    /\ {"safety_rails_enabled", "money"} \subseteq user
    /\ ~ off
    /\ risky
    /\ answer # "clear"

\* GetSpaceSafetyOverride, the check, and what becomes of autoSend.
ReplyDecides(r, answer) ==
    /\ req[r].pc = "override"
    /\ LET q == req[r]
           off == "safety_rails_off" \in View(q.space)
       IN req' = [req EXCEPT ![r] =
                    [pc |-> "decided", risky |-> q.risky,
                     auto |-> "auto_mode" \in q.user /\ ~ Flagged(q.user, off, q.risky, answer),
                     off |-> q.off \/ RailsOff(q.space) \/ answer = "clear"]]
    /\ UNCHANGED <<rows, pageVars, promise, requests>>

\* The draft is stored, approved or pending (DraftDispatch models the rest).
ReplyEnds(r) ==
    /\ req[r].pc = "decided"
    /\ req' = [req EXCEPT ![r] = Free]
    /\ UNCHANGED <<rows, pageVars, promise, requests>>

-----------------------------------------------------------------------------
Next ==
    \/ \E r \in Requests :
          \/ PatchSettings(r) \/ PatchSafetyRules(r) \/ SetAutoMode(r) \/ SetMentionOnly(r)
          \/ \E s \in Spaces : PatchSpace(r, s) \/ ToggleSpace(r, s)
          \/ WriteField(r) \/ FailRequest(r) \/ Reread(r) \/ PublishUI(r) \/ Respond(r)
          \/ \E s \in Spaces, risky \in BOOLEAN : ReplyReads(r, s, risky)
          \/ (\E a \in Answers : ReplyDecides(r, a)) \/ ReplyEnds(r)
    \/ \E p \in Pages :
          OpenPage(p) \/ Subscribe(p) \/ Unsubscribe(p) \/ TakeEvent(p) \/ Fetch(p)

Spec == Init /\ [][Next]_vars

-----------------------------------------------------------------------------
\* The rows hold flags of their table, and no page's channel more than it takes.
TypeOK ==
    /\ rows \in [Targets -> (SUBSET Flags) \cup {NoRow}]
    /\ \A x \in Targets : rows[x] = NoRow
          \/ rows[x] \subseteq (IF x = User THEN UserFlags ELSE SpaceFlags)
    /\ req \in [Requests -> Writes \cup Tellings \cup Replies \cup {Free}]
    /\ queue \in [Pages -> Seq(Events)]
    /\ \A p \in Pages : Len(queue[p]) <= UICap
    /\ live \subseteq Pages
    /\ fetch \subseteq Pages
    /\ shown \in [Pages -> SUBSET Flags]
    /\ untold \subseteq Pages
    /\ promise \in [Targets -> SUBSET (Fields \X BOOLEAN)]
    /\ requests \in 0 .. MaxRequests

\* A field that a request set, with a 200, keeps that value until a request that
\* names the field comes: a PATCH of other fields never takes it back, however
\* the statements of the two interleave. In the same way drafting is opt-in: a
\* space stays disabled until it is toggled, whatever else of it is patched.
\* (Requests that overlapped on the field are promised nothing.)
AckedWritesHold ==
    \A x \in Targets : \A w \in promise[x] : (w[1] \in View(x)) = w[2]

Settled == \A r \in Requests : ~ (Busy(r) /\ req[r].row = User)

\* When no handler is at work on the user's settings and a page has dealt with its
\* events, it holds what is stored: in whatever order concurrent handlers publish, a
\* payload that is out of date is fetched over. Excepted is a page that missed
\* something: events lost on a full or closed socket, a failed request, PATCH
\* /api/safety/rules.
PageIsCurrent ==
    \A p \in Pages :
        Settled /\ Quiet(p) /\ p \notin fetch \cup untold => shown[p] = View(User)

\* A reply that speaks of money is only sent by itself if the rails were off for
\* its space, or the client cleared it, at some moment of the request: reading
\* the user's switch and the space's in two statements opens no gap.
NothingRiskySlips ==
    \A r \in Requests :
        req[r].pc = "decided" /\ req[r].auto /\ req[r].risky => req[r].off
=============================================================================
