------------------------- MODULE UserSettingsProofs -------------------------
(***************************************************************************)
(* Proofs about UserSettings: acknowledged writes hold, a page that missed *)
(* nothing holds the user's settings as they are stored, nothing risky is  *)
(* sent unseen, for any number of spaces, pages and concurrent requests    *)
(* and any capacity of a channel.                                          *)
(***************************************************************************)
EXTENDS UserSettings, TLAPS

UserApis == {"settings", "safety", "auto", "mention"}
SpaceApis == {"space", "toggle"}

\* The fields a request to the row x may name.
RowFields(x) == IF x = User THEN UserFlags ELSE SpaceFlags \cup {"keywords"}
RowApis(x) == IF x = User THEN UserApis ELSE SpaceApis

\* What a handler may have left to tell of the row x.
Announcements(x) ==
    IF x = User
    THEN {<<>>, <<Changed>>} \cup {<<Updated(S), Changed>> : S \in SUBSET UserFlags}
    ELSE {<<>>, <<SpacesChanged>>}

\* A handler writes to a row that is there, and only what it was asked to.
RequestsShaped ==
    \A r \in Requests : Busy(r) =>
        /\ rows[req[r].row] # NoRow
        /\ req[r].api \in RowApis(req[r].row)
        /\ req[r].named \subseteq RowFields(req[r].row)
        /\ req[r].on \subseteq req[r].named
        /\ req[r].clean \subseteq req[r].named
        /\ req[r].pc = "write" => req[r].todo \subseteq req[r].named
        /\ req[r].pc = "tell" => req[r].tell \in Announcements(req[r].row)

\* A clean field of a request is named by no other open request.
CleanIsAlone ==
    \A r, q \in Requests :
        Busy(r) /\ Busy(q) /\ r # q /\ req[r].row = req[q].row =>
            req[r].clean \cap req[q].named = {}

Todo(r) == IF req[r].pc = "write" THEN req[r].todo ELSE {}

\* A clean field that is written reads as the request asked.
WrittenHolds ==
    \A x \in Targets, r \in Requests : Busy(r) /\ req[r].row = x =>
        \A f \in req[r].clean \ Todo(r) : (f \in View(x)) = (f \in req[r].on)

\* No open request names a promised field.
PromisedIsFree ==
    \A r \in Requests : Busy(r) =>
        \A w \in promise[req[r].row] : w[1] \notin req[r].named

WritesInv ==
    /\ RequestsShaped
    /\ CleanIsAlone
    /\ WrittenHolds
    /\ PromisedIsFree
    /\ AckedWritesHold

-----------------------------------------------------------------------------
\* A handler that will send settings_changed, or mark it as missed.
Owing(r) ==
    /\ Busy(r)
    /\ req[r].row = User
    /\ req[r].pc = "tell" => req[r].tell # <<>>
SomeOwing == \E r \in Requests : Owing(r)

\* The page will fetch the user's settings again, or is known to have missed something.
Awaits(p) ==
    \/ p \in fetch \cup untold
    \/ \E i \in DOMAIN queue[p] : queue[p][i] = Changed
    \/ SomeOwing

\* A page that awaits nothing holds what is stored, ...
CaughtUp(p) == Awaits(p) \/ shown[p] = View(User)

\* ... and a payload on its way, which may be out of date, is never the last word.
PayloadsFollowed(p) ==
    \A i \in DOMAIN queue[p] : queue[p][i].kind = "settings_updated" =>
        \/ p \in untold
        \/ \E j \in DOMAIN queue[p] : j > i /\ queue[p][j] = Changed
        \/ SomeOwing

PagesInv == \A p \in Pages : CaughtUp(p) /\ PayloadsFollowed(p)

\* The switch a reply read was on, or it has noted that the rails were off.
RepliesRemember ==
    \A r \in Requests : req[r].pc = "override" =>
        req[r].off \/ {"safety_rails_enabled", "money"} \subseteq req[r].user

SettingsInv == TypeOK /\ WritesInv /\ PagesInv /\ RepliesRemember /\ NothingRiskySlips

-----------------------------------------------------------------------------
(* Facts about the operators.                                              *)

LEMMA TargetKinds ==
    /\ User \in Targets
    /\ \A x \in Targets : x # User => x \in Spaces
    /\ \A s \in Spaces : s \in Targets /\ s # User
BY SettingsData DEF Targets

LEMMA NoRowIsNoFlags == \A S \in SUBSET Flags : S # NoRow
BY DEF Flags, UserFlags, SpaceFlags, NoRow

\* What is read of a row are flags of its table.
LEMMA ViewTyped ==
    ASSUME TypeOK, NEW x \in Targets
    PROVE  /\ View(x) \subseteq (IF x = User THEN UserFlags ELSE SpaceFlags)
           /\ Default(x) \subseteq (IF x = User THEN UserFlags ELSE SpaceFlags)
<1>1. Default(x) \subseteq (IF x = User THEN UserFlags ELSE SpaceFlags)
  BY DEF Default, UserFlags, SpaceFlags
<1>2. rows[x] # NoRow => rows[x] \subseteq (IF x = User THEN UserFlags ELSE SpaceFlags)
  BY DEF TypeOK
<1> QED  BY <1>1, <1>2 DEF View

\* Inserting the default row changes nothing a reader sees.
LEMMA EnsuredIsView ==
    ASSUME TypeOK, NEW x \in Targets
    PROVE  /\ Ensured(x) = View(x)
           /\ Ensured(x) # NoRow
           /\ Ensured(x) \subseteq (IF x = User THEN UserFlags ELSE SpaceFlags)
<1>1. Ensured(x) = View(x)
  BY DEF Ensured, View
<1>2. View(x) \in SUBSET Flags
  BY ViewTyped DEF Flags
<1> QED  BY <1>1, <1>2, ViewTyped, NoRowIsNoFlags

\* The row of a target that no statement touches reads as before.
LEMMA ViewFrame ==
    ASSUME NEW x, rows'[x] = rows[x]
    PROVE  View(x)' = View(x)
BY DEF View, Default

LEMMA EventKinds ==
    /\ \A S : Updated(S).kind = "settings_updated" /\ Updated(S).on = S
    /\ Changed.kind = "settings_changed" /\ SpacesChanged.kind = "spaces_changed"
    /\ \A ev \in Events :
          \/ ev.kind = "settings_updated" /\ ev.on \in SUBSET UserFlags
          \/ ev = Changed
          \/ ev = SpacesChanged
BY DEF Updated, Changed, SpacesChanged, Events

\* The next event of an announcement, and what is left of it.
LEMMA AnnouncementSteps ==
    ASSUME NEW x \in Targets, NEW tell \in Announcements(x), tell # <<>>
    PROVE  /\ Head(tell) \in Events
           /\ Tail(tell) \in Announcements(x)
           /\ x = User => Head(tell) # SpacesChanged
           /\ x = User /\ Tail(tell) = <<>> => Head(tell) = Changed
           /\ x # User => Head(tell) = SpacesChanged
<1> USE DEF Events, Changed, SpacesChanged, Updated
<1>1. CASE x # User
  <2>1. tell = <<SpacesChanged>>
    BY <1>1 DEF Announcements
  <2> QED  BY <1>1, <2>1 DEF Announcements
<1>2. CASE x = User /\ tell = <<Changed>>
  BY <1>2 DEF Announcements
<1>3. ASSUME NEW S \in SUBSET UserFlags, x = User, tell = <<Updated(S), Changed>>
      PROVE  /\ Head(tell) \in Events
             /\ Head(tell) # SpacesChanged
             /\ Tail(tell) = <<Changed>>
  BY <1>3
<1> QED
  <2>1. CASE tell = <<Changed>> /\ x = User
    BY <2>1, <1>2
  <2>2. ASSUME NEW S \in SUBSET UserFlags, x = User, tell = <<Updated(S), Changed>>
        PROVE  /\ Head(tell) \in Events
               /\ Tail(tell) \in Announcements(x)
               /\ Head(tell) # SpacesChanged
               /\ Tail(tell) # <<>>
    BY <2>2, <1>3 DEF Announcements
  <2> QED  BY <1>1, <2>1, <2>2 DEF Announcements

\* Every announcement is a sequence of events.
LEMMA AnnouncementsTyped ==
    ASSUME NEW x, NEW tell \in Announcements(x) PROVE tell \in Seq(Events)
<1>1. Changed \in Events /\ SpacesChanged \in Events
  BY DEF Events
<1>2. \A S \in SUBSET UserFlags : Updated(S) \in Events
  BY DEF Events, Updated
<1>3. \A e, f \in Events : <<e>> \in Seq(Events) /\ <<e, f>> \in Seq(Events)
  OBVIOUS
<1>4. <<>> \in Seq(Events)
  OBVIOUS
<1> QED  BY <1>1, <1>2, <1>3, <1>4, Zenon DEF Announcements

-----------------------------------------------------------------------------
(* What a step does to the requests.                                       *)

\* Every request to change settings begins in the same way.
BeginStep(r) ==
    \/ PatchSettings(r) \/ PatchSafetyRules(r) \/ SetAutoMode(r) \/ SetMentionOnly(r)
    \/ \E s \in Spaces : PatchSpace(r, s) \/ ToggleSpace(r, s)

LEMMA BeginsAreShaped ==
    ASSUME NEW r \in Requests, BeginStep(r)
    PROVE  \E kind \in RequestKinds, x \in Targets :
              \E F \in SUBSET RowFields(x) : \E V \in SUBSET F :
                 kind \in RowApis(x) /\ Begin(r, kind, x, F, V)
<1> USE TargetKinds DEF RowFields, RowApis, UserApis, SpaceApis, UserFlags, SpaceFlags
<1>1. CASE PatchSettings(r)
  <2>1. PICK F \in Named({"auto_mode", "safety_rails_enabled", "money"}) :
            \E V \in SUBSET F : Begin(r, "settings", User, F, V)
    BY <1>1 DEF PatchSettings
  <2>2. F \in SUBSET UserFlags
    BY DEF Named
  <2> QED  BY <2>1, <2>2 DEF Begin
<1>2. CASE PatchSafetyRules(r)
  <2>1. PICK F \in Named({"safety_rails_enabled", "money"}) :
            \E V \in SUBSET F : Begin(r, "safety", User, F, V)
    BY <1>2 DEF PatchSafetyRules
  <2>2. F \in SUBSET UserFlags
    BY DEF Named
  <2> QED  BY <2>1, <2>2 DEF Begin
<1>3. CASE SetAutoMode(r)
  BY <1>3 DEF SetAutoMode, Begin
<1>4. CASE SetMentionOnly(r)
  BY <1>4 DEF SetMentionOnly, Begin
<1>5. ASSUME NEW s \in Spaces, PatchSpace(r, s)
      PROVE  \E kind \in RequestKinds, x \in Targets :
              \E F \in SUBSET RowFields(x) : \E V \in SUBSET F :
                 kind \in RowApis(x) /\ Begin(r, kind, x, F, V)
  <2>1. PICK F \in Named({"mention_only", "safety_rails_off", "keywords"}) :
            \E V \in SUBSET F : Begin(r, "space", s, F, V)
    BY <1>5 DEF PatchSpace
  <2>2. F \in SUBSET (SpaceFlags \cup {"keywords"})
    BY DEF Named
  <2> QED  BY <2>1, <2>2 DEF Begin
<1>6. ASSUME NEW s \in Spaces, ToggleSpace(r, s)
      PROVE  \E kind \in RequestKinds, x \in Targets :
              \E F \in SUBSET RowFields(x) : \E V \in SUBSET F :
                 kind \in RowApis(x) /\ Begin(r, kind, x, F, V)
  <2>1. PICK V \in SUBSET {"disabled"} : Begin(r, "toggle", s, {"disabled"}, V)
    BY <1>6 DEF ToggleSpace
  <2>2. {"disabled"} \in SUBSET (SpaceFlags \cup {"keywords"})
    OBVIOUS
  <2>3. "toggle" \in RequestKinds
    BY <2>1, Zenon DEF Begin
  <2>4. s \in Targets /\ s # User
    OBVIOUS
  <2> QED  BY <2>1, <2>2, <2>3, <2>4
<1> QED  BY <1>1, <1>2, <1>3, <1>4, <1>5, <1>6 DEF BeginStep

\* An open request is a record of one of two kinds.
LEMMA BusyKinds ==
    ASSUME TypeOK, NEW r \in Requests
    PROVE  /\ req[r].pc = "write" => req[r] \in Writes
           /\ req[r].pc = "tell" => req[r] \in Tellings
           /\ Busy(r) => req[r].row \in Targets /\ req[r].pc # "free"
           /\ ~ Busy(r) => req[r] \in Replies \cup {Free}
<1>1. req[r] \in Writes \cup Tellings \cup Replies \cup {Free}
  BY DEF TypeOK
<1> QED  BY <1>1 DEF Busy, Writes, Tellings, Replies, Free

\* A new request owns what no other names, and the others give up what it names.
LEMMA BeginMoves ==
    ASSUME TypeOK, NEW r \in Requests, NEW kind \in RequestKinds, NEW x \in Targets,
           NEW F \in SUBSET RowFields(x), NEW V \in SUBSET F, Begin(r, kind, x, F, V)
    PROVE  /\ req'[r] = [pc |-> "write", api |-> kind, row |-> x, named |-> F,
                         on |-> V, todo |-> F, clean |-> Alone(x, F)]
           /\ \A q \in Requests \ {r} :
                 \/ /\ ~ (Busy(q) /\ req[q].row = x)
                    /\ req'[q] = req[q]
                 \/ /\ Busy(q) /\ req[q].row = x
                    /\ req'[q].pc = req[q].pc /\ req'[q].api = req[q].api
                    /\ req'[q].row = x /\ req'[q].named = req[q].named
                    /\ req'[q].on = req[q].on /\ req'[q].clean = req[q].clean \ F
                    /\ req[q].pc = "write" => req'[q].todo = req[q].todo
                    /\ req[q].pc = "tell" => req'[q].tell = req[q].tell
                    /\ req'[q] \in Writes \cup Tellings
<1>1. req'[r] = [pc |-> "write", api |-> kind, row |-> x, named |-> F,
                 on |-> V, todo |-> F, clean |-> Alone(x, F)]
  BY DEF Begin, Statements
<1>2. \A q \in Requests \ {r} :
          req'[q] = IF Busy(q) /\ req[q].row = x
                    THEN [req[q] EXCEPT !.clean = @ \ F] ELSE req[q]
  BY DEF Begin
<1>3. ASSUME NEW q \in Requests \ {r}, Busy(q), req[q].row = x
      PROVE  /\ req'[q].pc = req[q].pc /\ req'[q].api = req[q].api
             /\ req'[q].row = x /\ req'[q].named = req[q].named
             /\ req'[q].on = req[q].on /\ req'[q].clean = req[q].clean \ F
             /\ req[q].pc = "write" => req'[q].todo = req[q].todo
             /\ req[q].pc = "tell" => req'[q].tell = req[q].tell
             /\ req'[q] \in Writes \cup Tellings
  <2>1. req'[q] = [req[q] EXCEPT !.clean = @ \ F]
    BY <1>2, <1>3
  <2>2. CASE req[q].pc = "write"
    <3>1. req[q] \in Writes
      BY <2>2, BusyKinds
    <3> QED  BY <1>3, <2>1, <2>2, <3>1 DEF Writes
  <2>3. CASE req[q].pc = "tell"
    <3>1. req[q] \in Tellings
      BY <2>3, BusyKinds
    <3> QED  BY <1>3, <2>1, <2>3, <3>1 DEF Tellings
  <2> QED  BY <1>3, <2>2, <2>3 DEF Busy
<1> QED  BY <1>1, <1>2, <1>3

-----------------------------------------------------------------------------
(* Types.                                                                  *)

RowTyped(S, x) == S \subseteq (IF x = User THEN UserFlags ELSE SpaceFlags)

\* A row that is replaced by flags of its table.
LEMMA RowWriteTyped ==
    ASSUME TypeOK, NEW x \in Targets, NEW S, RowTyped(S, x), rows' = [rows EXCEPT ![x] = S]
    PROVE  /\ rows' \in [Targets -> (SUBSET Flags) \cup {NoRow}]
           /\ \A y \in Targets : rows'[y] = NoRow \/ RowTyped(rows'[y], y)
<1>1. S \in SUBSET Flags
  BY DEF RowTyped, Flags
<1>2. /\ rows \in [Targets -> (SUBSET Flags) \cup {NoRow}]
      /\ \A y \in Targets : rows[y] = NoRow \/ RowTyped(rows[y], y)
  BY DEF TypeOK, RowTyped
<1>3. rows'[x] = S /\ \A y \in Targets \ {x} : rows'[y] = rows[y]
  BY <1>2
<1> QED  BY <1>1, <1>2, <1>3

LEMMA BeginTyped ==
    ASSUME TypeOK, RequestsShaped, NEW r \in Requests, BeginStep(r)
    PROVE  TypeOK'
<1>1. PICK kind \in RequestKinds, x \in Targets :
          \E F \in SUBSET RowFields(x) : \E V \in SUBSET F : kind \in RowApis(x) /\ Begin(r, kind, x, F, V)
  BY BeginsAreShaped
<1>0. PICK F \in SUBSET RowFields(x) : \E V \in SUBSET F : kind \in RowApis(x) /\ Begin(r, kind, x, F, V)
  BY <1>1
<1>2. PICK V \in SUBSET F : kind \in RowApis(x) /\ Begin(r, kind, x, F, V)
  BY <1>0
<1>3. F \subseteq Fields
  BY DEF RowFields, Fields, Flags
<1>4. rows' = [rows EXCEPT ![x] = Ensured(x)]
  BY <1>2 DEF Begin
<1>5. /\ rows' \in [Targets -> (SUBSET Flags) \cup {NoRow}]
      /\ \A y \in Targets : rows'[y] = NoRow \/ RowTyped(rows'[y], y)
  BY <1>4, EnsuredIsView, RowWriteTyped DEF RowTyped
<1>6. req' \in [Requests -> Writes \cup Tellings \cup Replies \cup {Free}]
  <2>1. req'[r] \in Writes
    <3>1. Alone(x, F) \subseteq F
      BY DEF Alone
    <3>2. req'[r] = [pc |-> "write", api |-> kind, row |-> x, named |-> F,
                     on |-> V, todo |-> F, clean |-> Alone(x, F)]
      BY <1>2, BeginMoves
    <3>3. F \subseteq Fields /\ V \subseteq Fields /\ Alone(x, F) \subseteq Fields
      BY <1>3, <3>1
    <3> QED  BY <3>2, <3>3 DEF Writes
  <2>2. \A q \in Requests \ {r} : req'[q] \in Writes \cup Tellings \cup Replies \cup {Free}
    BY <1>2, BeginMoves DEF TypeOK
  <2>3. req' = [q \in Requests |-> req'[q]]
    BY <1>2, Zenon DEF Begin
  <2> QED  BY <2>1, <2>2, <2>3
<1>7. promise' \in [Targets -> SUBSET (Fields \X BOOLEAN)]
  <2>1. promise' = [promise EXCEPT ![x] = {w \in promise[x] : w[1] \notin F}]
    BY <1>2 DEF Begin
  <2> QED  BY <2>1 DEF TypeOK
<1>8. requests' \in 0 .. MaxRequests
  <2>1. requests < MaxRequests /\ requests' = requests + 1
    BY <1>2 DEF Begin
  <2> QED  BY <2>1, SettingsBounds DEF TypeOK
<1>9. UNCHANGED pageVars
  BY <1>2 DEF Begin
<1> QED  BY <1>5, <1>6, <1>7, <1>8, <1>9 DEF TypeOK, RowTyped, pageVars

LEMMA WriteFieldTyped ==
    ASSUME TypeOK, RequestsShaped, NEW r \in Requests, WriteField(r)
    PROVE  TypeOK'
<1>1. PICK f \in req[r].todo \ Unbindable :
          /\ rows' = [rows EXCEPT ![req[r].row] =
                        IF f \in req[r].on THEN @ \cup {f} ELSE @ \ {f}]
          /\ req' = [req EXCEPT ![r].todo = @ \ {f}]
  BY DEF WriteField
<1> DEFINE x == req[r].row
           S == IF f \in req[r].on THEN rows[x] \cup {f} ELSE rows[x] \ {f}
<1>2. req[r].pc = "write" /\ UNCHANGED <<pageVars, promise, requests>>
  BY DEF WriteField
<1>3. req[r] \in Writes /\ x \in Targets /\ Busy(r)
  BY <1>2, BusyKinds DEF Busy
<1>4. RowTyped(rows[x], x)
  BY <1>3 DEF TypeOK, RequestsShaped, RowTyped
<1>5. f \in RowFields(x) /\ f \notin {"keywords"}
  BY <1>2, <1>3 DEF RequestsShaped, Unbindable
<1>6. RowTyped(S, x)
  BY <1>4, <1>5 DEF RowTyped, RowFields
<1>7. rows' = [rows EXCEPT ![x] = S]
  BY <1>1
<1>8. req' \in [Requests -> Writes \cup Tellings \cup Replies \cup {Free}]
  <2>1. [req[r] EXCEPT !.todo = @ \ {f}] \in Writes
    BY <1>3 DEF Writes
  <2> QED  BY <1>1, <2>1 DEF TypeOK
<1> HIDE DEF S, x
<1>9. /\ rows' \in [Targets -> (SUBSET Flags) \cup {NoRow}]
      /\ \A y \in Targets : rows'[y] = NoRow \/ RowTyped(rows'[y], y)
  BY <1>3, <1>6, <1>7, RowWriteTyped
<1> QED  BY <1>2, <1>8, <1>9 DEF TypeOK, RowTyped, pageVars

LEMMA RereadMoves ==
    ASSUME TypeOK, RequestsShaped, NEW r \in Requests, Reread(r)
    PROVE  /\ req[r] \in Writes /\ req[r].todo = {}
           /\ req' = [req EXCEPT ![r] =
                [pc |-> "tell", api |-> req[r].api, row |-> req[r].row, named |-> req[r].named,
                 on |-> req[r].on, tell |-> Tell(req[r].api, req[r].on), clean |-> req[r].clean]]
           /\ Tell(req[r].api, req[r].on) \in Announcements(req[r].row)
           /\ Tell(req[r].api, req[r].on) = <<>> => req[r].api = "safety"
           /\ req[r].api = "safety" => req[r].row = User
<1>1. req[r].pc = "write" /\ req[r].todo = {}
  BY DEF Reread
<1>2. req[r] \in Writes /\ Busy(r) /\ req[r].row \in Targets
  BY <1>1, BusyKinds DEF Busy
<1>3. req' = [req EXCEPT ![r] =
                [pc |-> "tell", api |-> req[r].api, row |-> req[r].row, named |-> req[r].named,
                 on |-> req[r].on, tell |-> Tell(req[r].api, req[r].on), clean |-> req[r].clean]]
  BY DEF Reread
<1>4. req[r].api \in RowApis(req[r].row) /\ req[r].on \subseteq RowFields(req[r].row)
  BY <1>2 DEF RequestsShaped
<1>5. CASE req[r].row = User
  <2>1. View(User) \ {"reply_only_when_mentioned"} \in SUBSET UserFlags
    BY ViewTyped, TargetKinds
  <2>2. req[r].on \in SUBSET UserFlags /\ {} \in SUBSET UserFlags
    BY <1>4, <1>5 DEF RowFields
  <2>3. req[r].api \in UserApis
    BY <1>4, <1>5 DEF RowApis
  <2>4. /\ Tell(req[r].api, req[r].on) \in Announcements(User)
        /\ Tell(req[r].api, req[r].on) = <<>> => req[r].api = "safety"
    BY <2>1, <2>2, <2>3, Zenon DEF Tell, Announcements, UserApis
  <2> QED  BY <1>1, <1>2, <1>3, <1>5, <2>4
<1>6. CASE req[r].row # User
  <2>1. req[r].api \in SpaceApis
    BY <1>4, <1>6 DEF RowApis
  <2>2. Tell(req[r].api, req[r].on) = <<SpacesChanged>> /\ req[r].api # "safety"
    BY <2>1 DEF Tell, SpaceApis
  <2>3. <<SpacesChanged>> \in Announcements(req[r].row) /\ <<SpacesChanged>> # <<>>
    BY <1>6 DEF Announcements
  <2> QED  BY <1>1, <1>2, <1>3, <2>2, <2>3
<1> QED  BY <1>5, <1>6

LEMMA FailRequestTyped ==
    ASSUME TypeOK, NEW r \in Requests, FailRequest(r)
    PROVE  TypeOK'
<1>1. /\ req[r].pc = "write"
      /\ req' = [req EXCEPT ![r] = Free]
      /\ untold' = IF req[r].row = User THEN Pages ELSE untold
      /\ UNCHANGED <<rows, queue, live, fetch, shown, promise, requests>>
  BY DEF FailRequest
<1>2. req' \in [Requests -> Writes \cup Tellings \cup Replies \cup {Free}]
  BY <1>1 DEF TypeOK
<1>3. untold' \subseteq Pages
  BY <1>1 DEF TypeOK
<1> QED  BY <1>1, <1>2, <1>3 DEF TypeOK

LEMMA RereadTyped ==
    ASSUME TypeOK, RequestsShaped, NEW r \in Requests, Reread(r)
    PROVE  TypeOK'
<1> DEFINE tell == Tell(req[r].api, req[r].on)
           w == [pc |-> "tell", api |-> req[r].api, row |-> req[r].row, named |-> req[r].named,
                 on |-> req[r].on, tell |-> tell, clean |-> req[r].clean]
<1>1. req[r] \in Writes /\ req' = [req EXCEPT ![r] = w] /\ tell \in Announcements(req[r].row)
  BY RereadMoves
<1>2. tell \in Seq(Events)
  BY <1>1, AnnouncementsTyped
<1>3. /\ untold' = IF req[r].api = "safety" THEN Pages ELSE untold
      /\ UNCHANGED <<rows, queue, live, fetch, shown, promise, requests>>
  BY DEF Reread
<1>4. w \in Tellings
  <2> HIDE DEF tell
  <2> QED  BY <1>1, <1>2 DEF Writes, Tellings
<1>5. req' \in [Requests -> Writes \cup Tellings \cup Replies \cup {Free}]
  <2> HIDE DEF w
  <2> QED  BY <1>1, <1>4 DEF TypeOK
<1>6. untold' \subseteq Pages
  BY <1>3 DEF TypeOK
<1> QED  BY <1>3, <1>5, <1>6 DEF TypeOK

LEMMA PublishUITyped ==
    ASSUME TypeOK, RequestsShaped, NEW r \in Requests, PublishUI(r)
    PROVE  TypeOK'
<1> DEFINE ev == Head(req[r].tell)
<1>1. /\ req[r].pc = "tell" /\ req[r].tell # <<>>
      /\ queue' = [p \in Pages |-> IF Hears(p) THEN Append(queue[p], ev) ELSE queue[p]]
      /\ untold' = IF ev = SpacesChanged THEN untold
                   ELSE untold \cup {p \in Pages : ~ Hears(p)}
      /\ req' = [req EXCEPT ![r].tell = Tail(@)]
      /\ UNCHANGED <<rows, live, fetch, shown, promise, requests>>
  BY DEF PublishUI
<1>2. req[r] \in Tellings /\ Busy(r) /\ req[r].row \in Targets
  BY <1>1, BusyKinds DEF Busy
<1>3. req[r].tell \in Announcements(req[r].row)
  BY <1>1, <1>2 DEF RequestsShaped
<1>4. ev \in Events /\ Tail(req[r].tell) \in Announcements(req[r].row)
  BY <1>1, <1>2, <1>3, AnnouncementSteps
<1>5. Tail(req[r].tell) \in Seq(Events)
  BY <1>4, AnnouncementsTyped
<1> HIDE DEF ev
<1>6. req' \in [Requests -> Writes \cup Tellings \cup Replies \cup {Free}]
  <2>1. [req[r] EXCEPT !.tell = Tail(@)] \in Tellings
    BY <1>2, <1>5 DEF Tellings
  <2> QED  BY <1>1, <2>1 DEF TypeOK
<1>7. queue' \in [Pages -> Seq(Events)] /\ \A p \in Pages : Len(queue'[p]) <= UICap
  <2>1. ASSUME NEW p \in Pages
        PROVE  queue'[p] \in Seq(Events) /\ Len(queue'[p]) <= UICap
    <3>1. queue[p] \in Seq(Events) /\ Len(queue[p]) <= UICap
      BY DEF TypeOK
    <3>2. CASE Hears(p)
      <4>1. queue'[p] = Append(queue[p], ev) /\ Len(queue[p]) < UICap
        BY <1>1, <3>2 DEF Hears
      <4> QED  BY <1>4, <3>1, <4>1, SettingsBounds
    <3>3. CASE ~ Hears(p)
      BY <1>1, <3>1, <3>3
    <3> QED  BY <3>2, <3>3
  <2>2. DOMAIN queue' = Pages /\ queue' = [p \in Pages |-> queue'[p]]
    BY <1>1
  <2> QED  BY <2>1, <2>2
<1>8. untold' \subseteq Pages
  BY <1>1 DEF TypeOK
<1> QED  BY <1>1, <1>6, <1>7, <1>8 DEF TypeOK

LEMMA RespondTyped ==
    ASSUME TypeOK, RequestsShaped, NEW r \in Requests, Respond(r)
    PROVE  TypeOK'
<1>1. /\ req[r].pc = "tell"
      /\ promise' = [promise EXCEPT ![req[r].row] =
                      @ \cup {<<f, f \in req[r].on>> : f \in req[r].clean}]
      /\ req' = [req EXCEPT ![r] = Free]
      /\ UNCHANGED <<rows, queue, live, fetch, shown, untold, requests>>
  BY DEF Respond, pageVars
<1>2. req[r] \in Tellings
  BY <1>1, BusyKinds
<1>3. req' \in [Requests -> Writes \cup Tellings \cup Replies \cup {Free}]
  BY <1>1 DEF TypeOK
<1>4. promise' \in [Targets -> SUBSET (Fields \X BOOLEAN)]
  <2>1. {<<f, f \in req[r].on>> : f \in req[r].clean} \subseteq Fields \X BOOLEAN
    <3>1. req[r].clean \subseteq Fields
      BY <1>2 DEF Tellings
    <3>2. \A f \in Fields, b \in BOOLEAN : <<f, b>> \in Fields \X BOOLEAN
      OBVIOUS
    <3>3. ASSUME NEW f \in req[r].clean PROVE (f \in req[r].on) \in BOOLEAN
      OBVIOUS
    <3> QED  BY <3>1, <3>2, <3>3, Zenon
  <2>2. \A x \in Targets : promise[x] \subseteq Fields \X BOOLEAN
    BY DEF TypeOK
  <2> DEFINE D == {<<f, f \in req[r].on>> : f \in req[r].clean}
  <2>3. promise' = [promise EXCEPT ![req[r].row] = @ \cup D]
    BY <1>1
  <2> HIDE DEF D
  <2>4. D \subseteq Fields \X BOOLEAN
    BY <2>1 DEF D
  <2> QED  BY <2>2, <2>3, <2>4 DEF TypeOK
<1> QED  BY <1>1, <1>3, <1>4 DEF TypeOK

LEMMA PageTyped ==
    ASSUME TypeOK, NEW p \in Pages,
           OpenPage(p) \/ Subscribe(p) \/ Unsubscribe(p) \/ TakeEvent(p) \/ Fetch(p)
    PROVE  TypeOK'
<1> USE DEF TypeOK
<1>0. View(User) \in SUBSET Flags
  BY ViewTyped, TargetKinds DEF Flags
<1>1. CASE OpenPage(p)
  <2>1. <<>> \in Seq(Events) /\ Len(<<>>) = 0 /\ 0 <= UICap
    BY SettingsBounds
  <2> QED  BY <1>0, <1>1, <2>1 DEF OpenPage
<1>2. CASE Subscribe(p)
  BY <1>2 DEF Subscribe
<1>3. CASE Unsubscribe(p)
  <2>1. <<>> \in Seq(Events) /\ Len(<<>>) = 0 /\ 0 <= UICap
    BY SettingsBounds
  <2>2. untold' \subseteq Pages
    BY <1>3 DEF Unsubscribe
  <2>3. queue' \in [Pages -> Seq(Events)] /\ \A q \in Pages : Len(queue'[q]) <= UICap
    BY <1>3, <2>1 DEF Unsubscribe
  <2> QED  BY <1>3, <2>2, <2>3 DEF Unsubscribe
<1>4. CASE TakeEvent(p)
  <2>1. queue[p] \in Seq(Events) /\ queue[p] # <<>> /\ queue' = [queue EXCEPT ![p] = Tail(@)]
    BY <1>4 DEF TakeEvent
  <2>2. Tail(queue[p]) \in Seq(Events) /\ Len(Tail(queue[p])) <= Len(queue[p])
    BY <2>1
  <2>3. queue' \in [Pages -> Seq(Events)] /\ \A q \in Pages : Len(queue'[q]) <= UICap
    <3>1. Len(Tail(queue[p])) <= UICap
      BY <2>1, <2>2, SettingsBounds
    <3> QED  BY <2>1, <2>2, <3>1
  <2>4. Head(queue[p]) \in Events
    BY <2>1
  <2>5. Head(queue[p]).kind = "settings_updated" => Head(queue[p]).on \in SUBSET Flags
    BY <2>4, EventKinds DEF Flags
  <2>6. fetch' \subseteq Pages
    BY <1>4 DEF TakeEvent
  <2>7. shown' \in [Pages -> SUBSET Flags]
    <3>1. \/ shown' = shown
          \/ /\ Head(queue[p]).kind = "settings_updated"
             /\ shown' = [shown EXCEPT ![p] = Head(queue[p]).on]
      BY <1>4 DEF TakeEvent
    <3>2. ASSUME NEW S \in SUBSET Flags, shown' = [shown EXCEPT ![p] = S]
          PROVE  shown' \in [Pages -> SUBSET Flags]
      BY <3>2
    <3> QED  BY <2>5, <3>1, <3>2
  <2>8. UNCHANGED <<rows, req, live, untold, promise, requests>>
    BY <1>4 DEF TakeEvent
  <2> QED  BY <2>3, <2>6, <2>7, <2>8
<1>5. CASE Fetch(p)
  <2>1. shown' \in [Pages -> SUBSET Flags]
    BY <1>0, <1>5 DEF Fetch
  <2>2. fetch' \subseteq Pages /\ untold' \subseteq Pages
    BY <1>5 DEF Fetch
  <2> QED  BY <1>5, <2>1, <2>2 DEF Fetch
<1> QED  BY <1>1, <1>2, <1>3, <1>4, <1>5

LEMMA ReplyTyped ==
    ASSUME TypeOK, NEW r \in Requests,
           \/ \E s \in Spaces, risky \in BOOLEAN : ReplyReads(r, s, risky)
           \/ \E a \in Answers : ReplyDecides(r, a)
           \/ ReplyEnds(r)
    PROVE  TypeOK'
<1>1. ASSUME NEW s \in Spaces, NEW risky \in BOOLEAN, ReplyReads(r, s, risky) PROVE TypeOK'
  <2> DEFINE w == [pc |-> "override", space |-> s, user |-> View(User),
                   risky |-> risky, off |-> RailsOff(s)]
  <2>1. /\ requests < MaxRequests /\ requests' = requests + 1
        /\ req' = [req EXCEPT ![r] = w]
        /\ UNCHANGED <<rows, pageVars, promise>>
    BY <1>1 DEF ReplyReads
  <2>2. View(User) \in SUBSET UserFlags
    BY ViewTyped, TargetKinds
  <2>3. RailsOff(s) \in BOOLEAN
    BY DEF RailsOff
  <2>4. w \in Replies
    BY <2>2, <2>3 DEF Replies
  <2> HIDE DEF w
  <2>5. requests' \in 0 .. MaxRequests
    BY <2>1, SettingsBounds DEF TypeOK
  <2> QED  BY <2>1, <2>4, <2>5 DEF TypeOK, pageVars
<1>2. ASSUME NEW a \in Answers, ReplyDecides(r, a) PROVE TypeOK'
  <2> DEFINE off == "safety_rails_off" \in View(req[r].space)
             w == [pc |-> "decided", risky |-> req[r].risky,
                   auto |-> "auto_mode" \in req[r].user /\ ~ Flagged(req[r].user, off, req[r].risky, a),
                   off |-> req[r].off \/ RailsOff(req[r].space) \/ a = "clear"]
  <2>1. /\ req[r].pc = "override"
        /\ req' = [req EXCEPT ![r] = w]
        /\ UNCHANGED <<rows, pageVars, promise, requests>>
    BY <1>2 DEF ReplyDecides
  <2>2. req[r] \in Replies
    <3>1. req[r] \in Writes \cup Tellings \cup Replies \cup {Free} /\ req[r].pc = "override"
      BY <2>1 DEF TypeOK
    <3> QED  BY <3>1 DEF Writes, Tellings, Free
  <2>3. req[r].risky \in BOOLEAN
    BY <2>2 DEF Replies
  <2>4. /\ ("auto_mode" \in req[r].user /\ ~ Flagged(req[r].user, off, req[r].risky, a)) \in BOOLEAN
        /\ (req[r].off \/ RailsOff(req[r].space) \/ a = "clear") \in BOOLEAN
    OBVIOUS
  <2>5. w \in Replies
    BY <2>3, <2>4 DEF Replies
  <2> HIDE DEF w
  <2> QED  BY <2>1, <2>5 DEF TypeOK, pageVars
<1>3. CASE ReplyEnds(r)
  BY <1>3 DEF ReplyEnds, TypeOK, pageVars
<1> QED  BY <1>1, <1>2, <1>3

LEMMA TypedStep ==
    ASSUME TypeOK, RequestsShaped, [Next]_vars
    PROVE  TypeOK'
<1>1. CASE UNCHANGED vars
  BY <1>1 DEF vars, pageVars, TypeOK
<1>2. CASE Next
  BY <1>2, BeginTyped, WriteFieldTyped, FailRequestTyped, RereadTyped, PublishUITyped,
     RespondTyped, PageTyped, ReplyTyped DEF Next, BeginStep
<1> QED  BY <1>1, <1>2

-----------------------------------------------------------------------------
(* Acknowledged writes.                                                    *)

\* What a request that begins leaves of the rows and the promises.
LEMMA BeginKeepsViews ==
    ASSUME TypeOK, NEW r \in Requests, NEW kind \in RequestKinds, NEW x \in Targets,
           NEW F \in SUBSET RowFields(x), NEW V \in SUBSET F, Begin(r, kind, x, F, V)
    PROVE  /\ \A y \in Targets : View(y)' = View(y)
           /\ \A y \in Targets : rows[y] # NoRow => rows'[y] # NoRow
           /\ rows'[x] # NoRow
           /\ promise'[x] = {w \in promise[x] : w[1] \notin F}
           /\ \A y \in Targets \ {x} : promise'[y] = promise[y]
<1>1. /\ rows' = [rows EXCEPT ![x] = Ensured(x)]
      /\ promise' = [promise EXCEPT ![x] = {w \in promise[x] : w[1] \notin F}]
  BY DEF Begin
<1>2. rows'[x] = Ensured(x) /\ \A y \in Targets \ {x} : rows'[y] = rows[y]
  BY <1>1 DEF TypeOK
<1>3. Ensured(x) = View(x) /\ Ensured(x) # NoRow
  BY EnsuredIsView
<1>4. \A y \in Targets : View(y)' = View(y)
  BY <1>2, <1>3 DEF View, Default
<1>5. /\ promise'[x] = {w \in promise[x] : w[1] \notin F}
      /\ \A y \in Targets \ {x} : promise'[y] = promise[y]
  BY <1>1 DEF TypeOK
<1> QED  BY <1>2, <1>3, <1>4, <1>5

LEMMA BeginWrites ==
    ASSUME TypeOK, WritesInv, NEW r \in Requests, BeginStep(r)
    PROVE  WritesInv'
<1>1. PICK kind \in RequestKinds, x \in Targets :
          \E F \in SUBSET RowFields(x) : \E V \in SUBSET F : kind \in RowApis(x) /\ Begin(r, kind, x, F, V)
  BY BeginsAreShaped
<1>2. PICK F \in SUBSET RowFields(x) : \E V \in SUBSET F : kind \in RowApis(x) /\ Begin(r, kind, x, F, V)
  BY <1>1
<1>3. PICK V \in SUBSET F : kind \in RowApis(x) /\ Begin(r, kind, x, F, V)
  BY <1>2
<1>4. /\ \A y \in Targets : View(y)' = View(y)
      /\ \A y \in Targets : rows[y] # NoRow => rows'[y] # NoRow
      /\ rows'[x] # NoRow
      /\ promise'[x] = {w \in promise[x] : w[1] \notin F}
      /\ \A y \in Targets \ {x} : promise'[y] = promise[y]
  BY <1>3, BeginKeepsViews
<1>5. kind \in RowApis(x)
  BY <1>3
<1>6. /\ req'[r].pc = "write" /\ req'[r].api = kind /\ req'[r].row = x /\ req'[r].named = F
      /\ req'[r].on = V /\ req'[r].todo = F /\ req'[r].clean = Alone(x, F)
  <2>1. req'[r] = [pc |-> "write", api |-> kind, row |-> x, named |-> F,
                   on |-> V, todo |-> F, clean |-> Alone(x, F)]
    BY <1>3, BeginMoves
  <2> QED  BY <2>1
<1>0. \A q \in Requests \ {r} :
        \/ /\ ~ (Busy(q) /\ req[q].row = x)
           /\ req'[q] = req[q]
        \/ /\ Busy(q) /\ req[q].row = x
           /\ req'[q].pc = req[q].pc /\ req'[q].api = req[q].api
           /\ req'[q].row = x /\ req'[q].named = req[q].named
           /\ req'[q].on = req[q].on /\ req'[q].clean = req[q].clean \ F
           /\ req[q].pc = "write" => req'[q].todo = req[q].todo
           /\ req[q].pc = "tell" => req'[q].tell = req[q].tell
           /\ req'[q] \in Writes \cup Tellings
  <2>1. Begin(r, kind, x, F, V)
    BY <1>3
  <2> QED  BY <2>1, BeginMoves, Zenon
<1>7. \A q \in Requests \ {r} :
        /\ Busy(q)' = Busy(q)
        /\ Busy(q) =>
            /\ req[q].row \in Targets
            /\ req'[q].pc = req[q].pc /\ req'[q].api = req[q].api
            /\ req'[q].row = req[q].row /\ req'[q].named = req[q].named
            /\ req'[q].on = req[q].on /\ Todo(q)' = Todo(q)
            /\ req'[q].clean \subseteq req[q].clean
            /\ req[q].row = x => req'[q].clean \cap F = {}
            /\ req[q].pc = "write" => req'[q].todo = req[q].todo
            /\ req[q].pc = "tell" => req'[q].tell = req[q].tell
  <2> TAKE q \in Requests \ {r}
  <2>0. Busy(q) => req[q].row \in Targets
    BY BusyKinds
  <2>1. CASE ~ (Busy(q) /\ req[q].row = x)
    <3>1. req'[q] = req[q]
      BY <1>0, <2>1
    <3> QED  BY <2>0, <2>1, <3>1 DEF Busy, Todo
  <2>2. CASE Busy(q) /\ req[q].row = x
    <3>1. /\ req'[q].pc = req[q].pc /\ req'[q].api = req[q].api
          /\ req'[q].row = x /\ req'[q].named = req[q].named
          /\ req'[q].on = req[q].on /\ req'[q].clean = req[q].clean \ F
          /\ req[q].pc = "write" => req'[q].todo = req[q].todo
          /\ req[q].pc = "tell" => req'[q].tell = req[q].tell
      BY <1>0, <2>2
    <3> QED  BY <2>0, <2>2, <3>1 DEF Busy, Todo
  <2> QED  BY <2>1, <2>2
<1>8. Busy(r)' /\ Todo(r)' = F /\ Alone(x, F) \subseteq F
  BY <1>6 DEF Busy, Todo, Alone
<1> USE DEF WritesInv
<1>9. RequestsShaped'
  <2>1. ASSUME NEW q \in Requests \ {r}, Busy(q)'
        PROVE  /\ rows'[req'[q].row] # NoRow
               /\ req'[q].api \in RowApis(req'[q].row)
               /\ req'[q].named \subseteq RowFields(req'[q].row)
               /\ req'[q].on \subseteq req'[q].named
               /\ req'[q].clean \subseteq req'[q].named
               /\ req'[q].pc = "write" => req'[q].todo \subseteq req'[q].named
               /\ req'[q].pc = "tell" => req'[q].tell \in Announcements(req'[q].row)
    <3>1. Busy(q)
      BY <1>7, <2>1
    <3> QED  BY <1>4, <1>7, <3>1 DEF RequestsShaped
  <2>2. /\ rows'[req'[r].row] # NoRow
        /\ req'[r].api \in RowApis(req'[r].row)
        /\ req'[r].named \subseteq RowFields(req'[r].row)
        /\ req'[r].on \subseteq req'[r].named
        /\ req'[r].clean \subseteq req'[r].named
        /\ req'[r].todo \subseteq req'[r].named
    BY <1>4, <1>5, <1>6, <1>8
  <2> QED  BY <1>6, <2>1, <2>2 DEF RequestsShaped, RowFields, RowApis, Announcements
<1>10. CleanIsAlone'
  <2>1. \A q \in Requests \ {r} : Busy(q) /\ req[q].row = x => Alone(x, F) \cap req[q].named = {}
    BY DEF Alone
  <2> QED  BY <1>6, <1>7, <2>1 DEF CleanIsAlone
<1>11. WrittenHolds'
  BY <1>4, <1>6, <1>7, <1>8 DEF WrittenHolds
<1>12. PromisedIsFree'
  BY <1>4, <1>6, <1>7 DEF PromisedIsFree
<1>13. AckedWritesHold'
  <2>1. \A y \in Targets : promise'[y] \subseteq promise[y]
    BY <1>4
  <2> QED  BY <1>4, <2>1 DEF AckedWritesHold
<1> QED  BY <1>9, <1>10, <1>11, <1>12, <1>13

\* A statement changes the field of its request, which no other owns.
LEMMA WriteMoves ==
    ASSUME TypeOK, RequestsShaped, NEW r \in Requests, WriteField(r),
           NEW x \in Targets, req[r].row = x
    PROVE  /\ req[r].pc = "write"
           /\ \A q \in Requests \ {r} : req'[q] = req[q]
           /\ req'[r].pc = "write" /\ req'[r].api = req[r].api /\ req'[r].row = x
           /\ req'[r].named = req[r].named /\ req'[r].on = req[r].on
           /\ req'[r].clean = req[r].clean
           /\ \E f \in req[r].todo :
                 /\ req'[r].todo = req[r].todo \ {f}
                 /\ rows'[x] # NoRow
                 /\ (f \in View(x)') = (f \in req[r].on)
                 /\ \A g : g # f => (g \in View(x)') = (g \in View(x))
           /\ \A y \in Targets \ {x} : rows'[y] = rows[y] /\ View(y)' = View(y)
<1>1. PICK f \in req[r].todo \ Unbindable :
          /\ rows' = [rows EXCEPT ![x] = IF f \in req[r].on THEN @ \cup {f} ELSE @ \ {f}]
          /\ req' = [req EXCEPT ![r].todo = @ \ {f}]
  BY DEF WriteField
<1>2. req[r].pc = "write"
  BY DEF WriteField
<1>3. req[r] \in Writes /\ Busy(r)
  BY <1>2, BusyKinds DEF Busy
<1>4. req' = [req EXCEPT ![r] = [req[r] EXCEPT !.todo = @ \ {f}]]
  BY <1>1
<1>5. req'[r] = [req[r] EXCEPT !.todo = @ \ {f}] /\ \A q \in Requests \ {r} : req'[q] = req[q]
  BY <1>4 DEF TypeOK
<1>6. /\ req'[r].pc = "write" /\ req'[r].api = req[r].api /\ req'[r].row = x
      /\ req'[r].named = req[r].named /\ req'[r].on = req[r].on
      /\ req'[r].clean = req[r].clean /\ req'[r].todo = req[r].todo \ {f}
  BY <1>2, <1>3, <1>5 DEF Writes
<1> DEFINE S == IF f \in req[r].on THEN rows[x] \cup {f} ELSE rows[x] \ {f}
<1>7. rows'[x] = S /\ \A y \in Targets \ {x} : rows'[y] = rows[y]
  BY <1>1 DEF TypeOK
<1>8. rows[x] # NoRow /\ rows[x] \in SUBSET Flags
  BY <1>3 DEF RequestsShaped, TypeOK
<1>9. S # NoRow
  <2>1. f # "no row" /\ "no row" \notin Flags
    BY <1>2, <1>3 DEF RequestsShaped, RowFields, Flags, UserFlags, SpaceFlags
  <2>2. "no row" \notin S
    BY <1>8, <2>1
  <2> QED  BY <2>2 DEF NoRow
<1>10. View(x)' = S /\ View(x) = rows[x]
  BY <1>7, <1>8, <1>9 DEF View
<1>11. \A y \in Targets \ {x} : View(y)' = View(y)
  BY <1>7, ViewFrame
<1>12. (f \in S) = (f \in req[r].on) /\ \A g : g # f => (g \in S) = (g \in rows[x])
  OBVIOUS
<1> HIDE DEF S
<1>13. (f \in View(x)') = (f \in req[r].on) /\ \A g : g # f => (g \in View(x)') = (g \in View(x))
  BY <1>10, <1>12
<1>14. rows'[x] # NoRow
  BY <1>7, <1>9
<1> QED  BY <1>1, <1>2, <1>5, <1>6, <1>7, <1>11, <1>13, <1>14

LEMMA WriteFieldWrites ==
    ASSUME TypeOK, WritesInv, NEW r \in Requests, WriteField(r)
    PROVE  WritesInv'
<1> USE DEF WritesInv
<1>1. PICK x \in Targets : req[r].row = x
  BY BusyKinds DEF WriteField, Busy
<1>2. /\ req[r].pc = "write"
      /\ \A q \in Requests \ {r} : req'[q] = req[q]
      /\ req'[r].pc = "write" /\ req'[r].api = req[r].api /\ req'[r].row = x
      /\ req'[r].named = req[r].named /\ req'[r].on = req[r].on
      /\ req'[r].clean = req[r].clean
      /\ \A y \in Targets \ {x} : rows'[y] = rows[y] /\ View(y)' = View(y)
  BY <1>1, WriteMoves
<1>3. PICK f \in req[r].todo :
         /\ req'[r].todo = req[r].todo \ {f}
         /\ rows'[x] # NoRow
         /\ (f \in View(x)') = (f \in req[r].on)
         /\ \A g : g # f => (g \in View(x)') = (g \in View(x))
  BY <1>1, WriteMoves
<1>4. UNCHANGED promise
  BY DEF WriteField
<1>5. \A q \in Requests : Busy(q)' = Busy(q) /\ (Busy(q) => req'[q].row = req[q].row /\ req[q].row \in Targets)
  BY <1>1, <1>2, BusyKinds DEF Busy
<1>6. f \in req[r].named
  BY <1>2 DEF RequestsShaped, Busy
<1>7. RequestsShaped'
  <2>1. ASSUME NEW q \in Requests, Busy(q)'
        PROVE  /\ rows'[req'[q].row] # NoRow
               /\ req'[q].api \in RowApis(req'[q].row)
               /\ req'[q].named \subseteq RowFields(req'[q].row)
               /\ req'[q].on \subseteq req'[q].named
               /\ req'[q].clean \subseteq req'[q].named
               /\ req'[q].pc = "write" => req'[q].todo \subseteq req'[q].named
               /\ req'[q].pc = "tell" => req'[q].tell \in Announcements(req'[q].row)
    <3>1. Busy(q) /\ req'[q].row = req[q].row /\ req[q].row \in Targets
      BY <1>5, <2>1
    <3>2. rows'[req[q].row] # NoRow
      BY <1>2, <1>3, <3>1 DEF RequestsShaped
    <3>3. CASE q = r
      BY <1>1, <1>2, <1>3, <3>1, <3>2, <3>3 DEF RequestsShaped
    <3>4. CASE q # r
      BY <1>2, <3>1, <3>2, <3>4 DEF RequestsShaped
    <3> QED  BY <3>3, <3>4
  <2> QED  BY <2>1 DEF RequestsShaped, RowFields, RowApis, Announcements
<1>8. CleanIsAlone'
  BY <1>1, <1>2, <1>5 DEF CleanIsAlone
<1>9. WrittenHolds'
  <2>1. \A q \in Requests \ {r} : Todo(q)' = Todo(q)
    BY <1>2 DEF Todo
  <2>2. Todo(r) = req[r].todo /\ Todo(r)' = req[r].todo \ {f}
    BY <1>2, <1>3 DEF Todo
  <2>3. ASSUME NEW q \in Requests, Busy(q), NEW g \in req[q].clean \ Todo(q)', req[q].row = x
        PROVE  (g \in View(x)') = (g \in req[q].on)
    <3>1. CASE q = r /\ g = f
      BY <1>3, <3>1
    <3>2. CASE g # f
      <4>1. g \in req[q].clean \ Todo(q)
        BY <2>1, <2>2, <2>3, <3>2
      <4>2. (g \in View(x)) = (g \in req[q].on)
        BY <2>3, <4>1 DEF WrittenHolds
      <4> QED  BY <1>3, <3>2, <4>2
    <3>3. CASE q # r /\ g = f
      <4>1. req[q].clean \cap req[r].named = {}
        BY <1>1, <1>2, <2>3, <3>3 DEF CleanIsAlone, Busy
      <4> QED  BY <1>6, <2>3, <3>3, <4>1
    <3> QED  BY <3>1, <3>2, <3>3
  <2>4. ASSUME NEW y \in Targets, NEW q \in Requests, Busy(q)', req'[q].row = y
        PROVE  \A g \in req'[q].clean \ Todo(q)' : (g \in View(y)') = (g \in req'[q].on)
    <3>1. Busy(q) /\ req[q].row = y
      BY <1>5, <2>4
    <3>2. req'[q].clean = req[q].clean /\ req'[q].on = req[q].on
      BY <1>2
    <3>3. CASE y = x
      BY <2>3, <3>1, <3>2, <3>3
    <3>4. CASE y # x
      <4>1. q # r
        BY <1>1, <3>1, <3>4
      <4>2. View(y)' = View(y)
        BY <1>2, <3>4
      <4> QED  BY <2>1, <3>1, <3>2, <4>1, <4>2 DEF WrittenHolds
    <3> QED  BY <3>3, <3>4
  <2> QED  BY <2>4 DEF WrittenHolds
<1>10. PromisedIsFree'
  BY <1>1, <1>2, <1>4, <1>5 DEF PromisedIsFree
<1>11. AckedWritesHold'
  <2>1. \A w \in promise[x] : w[1] # f
    BY <1>1, <1>2, <1>6 DEF PromisedIsFree, Busy
  <2>2. \A w \in promise[x] : (w[1] \in View(x)') = w[2]
    BY <1>3, <2>1 DEF AckedWritesHold
  <2> QED  BY <1>2, <1>4, <2>2 DEF AckedWritesHold
<1> QED  BY <1>7, <1>8, <1>9, <1>10, <1>11

\* The request stays what it is, has written no more, or is over.
Keeps(q) ==
    Busy(q)' =>
        /\ Busy(q)
        /\ req'[q].row = req[q].row /\ req'[q].api = req[q].api
        /\ req'[q].named = req[q].named /\ req'[q].on = req[q].on
        /\ req'[q].clean = req[q].clean
        /\ Todo(q) \subseteq Todo(q)'
        /\ req'[q].pc = "write" => req'[q].todo \subseteq req'[q].named
        /\ req'[q].pc = "tell" => req'[q].tell \in Announcements(req'[q].row)

LEMMA SameKeeps ==
    ASSUME RequestsShaped, NEW q \in Requests, req'[q] = req[q] PROVE Keeps(q)
BY DEF RequestsShaped, Keeps, Busy, Todo

LEMMA IdleKeeps ==
    ASSUME NEW q \in Requests, req'[q].pc \notin {"write", "tell"} PROVE Keeps(q)
BY DEF Keeps, Busy

LEMMA KeptWrites ==
    ASSUME TypeOK, WritesInv, UNCHANGED <<rows, promise>>, \A q \in Requests : Keeps(q)
    PROVE  WritesInv'
<1> USE DEF WritesInv
<1>1. \A x \in Targets : View(x)' = View(x)
  BY ViewFrame
<1>2. \A q \in Requests : Busy(q)' =>
        /\ Busy(q)
        /\ req[q].row \in Targets
        /\ req'[q].row = req[q].row /\ req'[q].api = req[q].api
        /\ req'[q].named = req[q].named /\ req'[q].on = req[q].on
        /\ req'[q].clean = req[q].clean
        /\ Todo(q) \subseteq Todo(q)'
        /\ req'[q].pc = "write" => req'[q].todo \subseteq req'[q].named
        /\ req'[q].pc = "tell" => req'[q].tell \in Announcements(req'[q].row)
  BY BusyKinds DEF Keeps
<1>3. RequestsShaped'
  <2>1. ASSUME NEW q \in Requests, Busy(q)'
        PROVE  /\ rows'[req'[q].row] # NoRow
               /\ req'[q].api \in RowApis(req'[q].row)
               /\ req'[q].named \subseteq RowFields(req'[q].row)
               /\ req'[q].on \subseteq req'[q].named
               /\ req'[q].clean \subseteq req'[q].named
               /\ req'[q].pc = "write" => req'[q].todo \subseteq req'[q].named
               /\ req'[q].pc = "tell" => req'[q].tell \in Announcements(req'[q].row)
    BY <1>2, <2>1 DEF RequestsShaped
  <2> QED  BY <2>1 DEF RequestsShaped, RowFields, RowApis, Announcements
<1>4. CleanIsAlone'
  BY <1>2 DEF CleanIsAlone
<1>5. WrittenHolds'
  BY <1>1, <1>2 DEF WrittenHolds
<1>6. PromisedIsFree'
  BY <1>2 DEF PromisedIsFree
<1>7. AckedWritesHold'
  BY <1>1 DEF AckedWritesHold
<1> QED  BY <1>3, <1>4, <1>5, <1>6, <1>7

\* One request moves on, the others stay.
LEMMA OneMoves ==
    ASSUME TypeOK, RequestsShaped, NEW r \in Requests, NEW w, req' = [req EXCEPT ![r] = w]
    PROVE  /\ req'[r] = w
           /\ \A q \in Requests \ {r} : req'[q] = req[q] /\ Keeps(q)
<1>1. req'[r] = w /\ \A q \in Requests \ {r} : req'[q] = req[q]
  BY DEF TypeOK
<1> QED  BY <1>1, SameKeeps

LEMMA FailRequestWrites ==
    ASSUME TypeOK, WritesInv, NEW r \in Requests, FailRequest(r)
    PROVE  WritesInv'
<1>1. req' = [req EXCEPT ![r] = Free] /\ UNCHANGED <<rows, promise>>
  BY DEF FailRequest
<1>2. req'[r] = Free /\ \A q \in Requests \ {r} : Keeps(q)
  BY <1>1, OneMoves DEF WritesInv
<1>3. Keeps(r)
  BY <1>2, IdleKeeps DEF Free
<1> QED  BY <1>1, <1>2, <1>3, KeptWrites

LEMMA RereadWrites ==
    ASSUME TypeOK, WritesInv, NEW r \in Requests, Reread(r)
    PROVE  WritesInv'
<1> DEFINE tell == Tell(req[r].api, req[r].on)
           w == [pc |-> "tell", api |-> req[r].api, row |-> req[r].row, named |-> req[r].named,
                 on |-> req[r].on, tell |-> tell, clean |-> req[r].clean]
<1>1. /\ req[r] \in Writes /\ req[r].todo = {}
      /\ req' = [req EXCEPT ![r] = w] /\ tell \in Announcements(req[r].row)
  BY RereadMoves DEF WritesInv
<1>2. UNCHANGED <<rows, promise>>
  BY DEF Reread
<1> HIDE DEF tell
<1>3. req'[r] = w /\ \A q \in Requests \ {r} : Keeps(q)
  BY <1>1, OneMoves DEF WritesInv
<1>4. Keeps(r)
  <2>1. req[r].pc = "write" /\ Todo(r) = {} /\ Busy(r)
    BY <1>1 DEF Writes, Todo, Busy
  <2> QED  BY <1>1, <1>3, <2>1 DEF Keeps
<1> QED  BY <1>2, <1>3, <1>4, KeptWrites

\* The event a handler sends, and what it has left to send.
LEMMA PublishMoves ==
    ASSUME TypeOK, RequestsShaped, NEW r \in Requests, PublishUI(r)
    PROVE  /\ req[r].pc = "tell" /\ req[r].row \in Targets
           /\ req[r].tell \in Announcements(req[r].row) /\ req[r].tell # <<>>
           /\ \A q \in Requests \ {r} : req'[q] = req[q]
           /\ req'[r].pc = "tell" /\ req'[r].api = req[r].api /\ req'[r].row = req[r].row
           /\ req'[r].named = req[r].named /\ req'[r].on = req[r].on
           /\ req'[r].clean = req[r].clean /\ req'[r].tell = Tail(req[r].tell)
           /\ UNCHANGED <<rows, promise, live, fetch, shown>>
<1>1. req[r].pc = "tell" /\ req[r].tell # <<>> /\ UNCHANGED <<rows, promise, live, fetch, shown>>
  BY Zenon DEF PublishUI
<1>2. req' = [req EXCEPT ![r] = [req[r] EXCEPT !.tell = Tail(req[r].tell)]]
  BY Zenon DEF PublishUI
<1>3. req[r] \in Tellings /\ Busy(r) /\ req[r].row \in Targets
  BY <1>1, BusyKinds DEF Busy
<1>4. req[r].tell \in Announcements(req[r].row)
  BY <1>1, <1>3 DEF RequestsShaped
<1>5. PICK t : t = Tail(req[r].tell)
  OBVIOUS
<1>6. req' = [req EXCEPT ![r] = [req[r] EXCEPT !.tell = t]]
  BY <1>2, <1>5
<1>7. req'[r] = [req[r] EXCEPT !.tell = t] /\ \A q \in Requests \ {r} : req'[q] = req[q]
  BY <1>6 DEF TypeOK
<1>8. /\ req'[r].pc = "tell" /\ req'[r].api = req[r].api /\ req'[r].row = req[r].row
      /\ req'[r].named = req[r].named /\ req'[r].on = req[r].on
      /\ req'[r].clean = req[r].clean /\ req'[r].tell = t
  BY <1>1, <1>3, <1>7 DEF Tellings
<1> QED  BY <1>1, <1>3, <1>4, <1>5, <1>7, <1>8

LEMMA PublishUIWrites ==
    ASSUME TypeOK, WritesInv, NEW r \in Requests, PublishUI(r)
    PROVE  WritesInv'
<1>1. /\ req[r].pc = "tell" /\ req[r].row \in Targets
      /\ req[r].tell \in Announcements(req[r].row) /\ req[r].tell # <<>>
      /\ \A q \in Requests \ {r} : req'[q] = req[q]
      /\ req'[r].pc = "tell" /\ req'[r].api = req[r].api /\ req'[r].row = req[r].row
      /\ req'[r].named = req[r].named /\ req'[r].on = req[r].on
      /\ req'[r].clean = req[r].clean /\ req'[r].tell = Tail(req[r].tell)
      /\ UNCHANGED <<rows, promise>>
  BY PublishMoves DEF WritesInv
<1>2. Tail(req[r].tell) \in Announcements(req[r].row)
  BY <1>1, AnnouncementSteps
<1>3. Keeps(r)
  BY <1>1, <1>2 DEF Keeps, Busy, Todo
<1>4. \A q \in Requests \ {r} : Keeps(q)
  BY <1>1, SameKeeps DEF WritesInv
<1> QED  BY <1>1, <1>3, <1>4, KeptWrites

\* A response promises what the request has written and no other has named since.
LEMMA RespondWrites ==
    ASSUME TypeOK, WritesInv, NEW r \in Requests, Respond(r)
    PROVE  WritesInv'
<1> USE DEF WritesInv
<1> DEFINE D == {<<f, f \in req[r].on>> : f \in req[r].clean}
<1>1. /\ req[r].pc = "tell"
      /\ promise' = [promise EXCEPT ![req[r].row] = @ \cup D]
      /\ req' = [req EXCEPT ![r] = Free]
      /\ UNCHANGED rows
  BY DEF Respond
<1>2. Busy(r) /\ Todo(r) = {}
  BY <1>1 DEF Busy, Todo
<1>3. PICK x \in Targets : req[r].row = x
  BY <1>2, BusyKinds
<1>4. \A d \in D : d[1] \in req[r].clean /\ d[2] = (d[1] \in req[r].on)
  OBVIOUS
<1> HIDE DEF D
<1>5. promise'[x] = promise[x] \cup D /\ \A y \in Targets \ {x} : promise'[y] = promise[y]
  BY <1>1, <1>3 DEF TypeOK
<1>6. req'[r] = Free /\ \A q \in Requests \ {r} : req'[q] = req[q]
  BY <1>1, OneMoves
<1>7. ~ Busy(r)' /\ \A q \in Requests \ {r} : Busy(q)' = Busy(q) /\ Todo(q)' = Todo(q)
  BY <1>6 DEF Free, Busy, Todo
<1>8. \A y \in Targets : View(y)' = View(y)
  BY <1>1, ViewFrame
<1>9. RequestsShaped'
  <2>1. ASSUME NEW q \in Requests, Busy(q)'
        PROVE  /\ rows'[req'[q].row] # NoRow
               /\ req'[q].api \in RowApis(req'[q].row)
               /\ req'[q].named \subseteq RowFields(req'[q].row)
               /\ req'[q].on \subseteq req'[q].named
               /\ req'[q].clean \subseteq req'[q].named
               /\ req'[q].pc = "write" => req'[q].todo \subseteq req'[q].named
               /\ req'[q].pc = "tell" => req'[q].tell \in Announcements(req'[q].row)
    <3>1. Busy(q) /\ req'[q] = req[q]
      BY <1>6, <1>7, <2>1
    <3> QED  BY <1>1, <3>1 DEF RequestsShaped
  <2> QED  BY <2>1 DEF RequestsShaped, RowFields, RowApis, Announcements
<1>10. CleanIsAlone'
  BY <1>6, <1>7 DEF CleanIsAlone
<1>11. WrittenHolds'
  BY <1>6, <1>7, <1>8 DEF WrittenHolds
<1>12. PromisedIsFree'
  <2>1. ASSUME NEW q \in Requests, Busy(q)', NEW w \in promise'[req'[q].row]
        PROVE  w[1] \notin req'[q].named
    <3>1. Busy(q) /\ req'[q] = req[q] /\ q # r /\ req[q].row \in Targets
      BY <1>6, <1>7, <2>1, BusyKinds
    <3>2. CASE w \in promise[req[q].row]
      BY <3>1, <3>2 DEF PromisedIsFree
    <3>3. CASE req[q].row = x /\ w \in D
      <4>1. req[r].clean \cap req[q].named = {}
        BY <1>2, <1>3, <3>1, <3>3 DEF CleanIsAlone
      <4> QED  BY <1>4, <3>1, <3>3, <4>1
    <3> QED  BY <1>5, <2>1, <3>1, <3>2, <3>3
  <2> QED  BY <2>1 DEF PromisedIsFree
<1>13. AckedWritesHold'
  <2>1. ASSUME NEW y \in Targets, NEW w \in promise'[y]
        PROVE  (w[1] \in View(y)') = w[2]
    <3>1. CASE w \in promise[y]
      BY <1>8, <3>1 DEF AckedWritesHold
    <3>2. CASE y = x /\ w \in D
      <4>1. w[1] \in req[r].clean \ Todo(r)
        BY <1>2, <1>4, <3>2
      <4>2. (w[1] \in View(x)) = (w[1] \in req[r].on)
        BY <1>2, <1>3, <4>1 DEF WrittenHolds
      <4> QED  BY <1>4, <1>8, <3>2, <4>2
    <3> QED  BY <1>5, <2>1, <3>1, <3>2
  <2> QED  BY <2>1 DEF AckedWritesHold
<1> QED  BY <1>9, <1>10, <1>11, <1>12, <1>13

LEMMA ReplyWrites ==
    ASSUME TypeOK, WritesInv, NEW r \in Requests,
           \/ \E s \in Spaces, risky \in BOOLEAN : ReplyReads(r, s, risky)
           \/ \E a \in Answers : ReplyDecides(r, a)
           \/ ReplyEnds(r)
    PROVE  WritesInv'
<1>1. /\ \E w : req' = [req EXCEPT ![r] = w] /\ w.pc \notin {"write", "tell"}
      /\ UNCHANGED <<rows, promise>>
  <2>1. ASSUME NEW s \in Spaces, NEW risky \in BOOLEAN, ReplyReads(r, s, risky)
        PROVE  /\ \E w : req' = [req EXCEPT ![r] = w] /\ w.pc \notin {"write", "tell"}
               /\ UNCHANGED <<rows, promise>>
    <3> DEFINE w == [pc |-> "override", space |-> s, user |-> View(User),
                     risky |-> risky, off |-> RailsOff(s)]
    <3>1. req' = [req EXCEPT ![r] = w] /\ UNCHANGED <<rows, promise>>
      BY <2>1 DEF ReplyReads
    <3>2. w.pc \notin {"write", "tell"}
      OBVIOUS
    <3> HIDE DEF w
    <3> QED  BY <3>1, <3>2
  <2>2. ASSUME NEW a \in Answers, ReplyDecides(r, a)
        PROVE  /\ \E w : req' = [req EXCEPT ![r] = w] /\ w.pc \notin {"write", "tell"}
               /\ UNCHANGED <<rows, promise>>
    <3> DEFINE off == "safety_rails_off" \in View(req[r].space)
               w == [pc |-> "decided", risky |-> req[r].risky,
                     auto |-> "auto_mode" \in req[r].user /\ ~ Flagged(req[r].user, off, req[r].risky, a),
                     off |-> req[r].off \/ RailsOff(req[r].space) \/ a = "clear"]
    <3>1. req' = [req EXCEPT ![r] = w] /\ UNCHANGED <<rows, promise>>
      BY <2>2 DEF ReplyDecides
    <3>2. w.pc \notin {"write", "tell"}
      OBVIOUS
    <3> HIDE DEF w
    <3> QED  BY <3>1, <3>2
  <2>3. CASE ReplyEnds(r)
    <3>1. req' = [req EXCEPT ![r] = Free] /\ UNCHANGED <<rows, promise>>
      BY <2>3 DEF ReplyEnds
    <3>2. Free.pc \notin {"write", "tell"}
      BY DEF Free
    <3> QED  BY <3>1, <3>2
  <2> QED  BY <2>1, <2>2, <2>3
<1>2. PICK w : req' = [req EXCEPT ![r] = w] /\ w.pc \notin {"write", "tell"}
  BY <1>1
<1>3. req'[r] = w /\ \A q \in Requests \ {r} : Keeps(q)
  BY <1>2, OneMoves DEF WritesInv
<1>4. Keeps(r)
  BY <1>2, <1>3, IdleKeeps
<1> QED  BY <1>1, <1>3, <1>4, KeptWrites

LEMMA StillWrites ==
    ASSUME TypeOK, WritesInv, UNCHANGED <<rows, req, promise>>
    PROVE  WritesInv'
<1>1. \A q \in Requests : Keeps(q)
  BY SameKeeps DEF WritesInv
<1> QED  BY <1>1, KeptWrites

LEMMA WritesStep ==
    ASSUME TypeOK, WritesInv, [Next]_vars
    PROVE  WritesInv'
<1>1. CASE UNCHANGED vars
  BY <1>1, StillWrites DEF vars
<1>2. ASSUME NEW p \in Pages,
             OpenPage(p) \/ Subscribe(p) \/ Unsubscribe(p) \/ TakeEvent(p) \/ Fetch(p)
      PROVE  WritesInv'
  <2>1. UNCHANGED <<rows, req, promise>>
    BY <1>2 DEF OpenPage, Subscribe, Unsubscribe, TakeEvent, Fetch
  <2> QED  BY <2>1, StillWrites
<1>3. CASE Next
  BY <1>2, <1>3, BeginWrites, WriteFieldWrites, FailRequestWrites, RereadWrites,
     PublishUIWrites, RespondWrites, ReplyWrites DEF Next, BeginStep
<1> QED  BY <1>1, <1>3

-----------------------------------------------------------------------------
(* Pages.                                                                  *)

\* What a step may do besides to a page: a change of the user's row is owed an event,
\* and an event that was owed is still owed, or every page is known to have missed it.
OwingKept ==
    /\ View(User)' = View(User) \/ SomeOwing'
    /\ SomeOwing => SomeOwing' \/ Pages \subseteq untold'

LEMMA PageFrame ==
    ASSUME NEW p \in Pages, CaughtUp(p), PayloadsFollowed(p), OwingKept,
           queue'[p] = queue[p], shown'[p] = shown[p], p \in fetch => p \in fetch',
           p \in untold => p \in untold'
    PROVE  CaughtUp(p)' /\ PayloadsFollowed(p)'
<1>1. Awaits(p) => Awaits(p)'
  BY DEF Awaits, OwingKept, Changed
<1>2. CaughtUp(p)'
  <2>1. CASE SomeOwing'
    BY <2>1 DEF CaughtUp, Awaits
  <2>2. CASE ~ SomeOwing'
    BY <1>1, <2>2 DEF CaughtUp, OwingKept
  <2> QED  BY <2>1, <2>2
<1>3. PayloadsFollowed(p)'
  BY DEF PayloadsFollowed, OwingKept, Changed
<1> QED  BY <1>2, <1>3

\* A step of a handler that sends nothing.
LEMMA QuietPages ==
    ASSUME PagesInv, OwingKept, UNCHANGED <<queue, shown, fetch>>, untold \subseteq untold'
    PROVE  PagesInv'
BY PageFrame DEF PagesInv

\* No row changes, and what a request owes it still owes.
LEMMA OwingFrame ==
    ASSUME View(User)' = View(User),
           \A q \in Requests : Owing(q) => Owing(q)' \/ Pages \subseteq untold'
    PROVE  OwingKept
BY DEF OwingKept, SomeOwing

LEMMA SameOwing ==
    ASSUME NEW q \in Requests, req'[q] = req[q] PROVE Owing(q)' = Owing(q)
BY DEF Owing, Busy

LEMMA BeginPages ==
    ASSUME TypeOK, PagesInv, NEW r \in Requests, BeginStep(r)
    PROVE  PagesInv'
<1>1. PICK kind \in RequestKinds, x \in Targets :
          \E F \in SUBSET RowFields(x) : \E V \in SUBSET F : kind \in RowApis(x) /\ Begin(r, kind, x, F, V)
  BY BeginsAreShaped
<1>2. PICK F \in SUBSET RowFields(x) : \E V \in SUBSET F : kind \in RowApis(x) /\ Begin(r, kind, x, F, V)
  BY <1>1
<1>3. PICK V \in SUBSET F : kind \in RowApis(x) /\ Begin(r, kind, x, F, V)
  BY <1>2
<1>4. Begin(r, kind, x, F, V)
  BY <1>3
<1>5. View(User)' = View(User)
  BY <1>4, BeginKeepsViews, TargetKinds
<1>6. \A q \in Requests \ {r} :
        \/ /\ ~ (Busy(q) /\ req[q].row = x)
           /\ req'[q] = req[q]
        \/ /\ Busy(q) /\ req[q].row = x
           /\ req'[q].pc = req[q].pc /\ req'[q].api = req[q].api
           /\ req'[q].row = x /\ req'[q].named = req[q].named
           /\ req'[q].on = req[q].on /\ req'[q].clean = req[q].clean \ F
           /\ req[q].pc = "write" => req'[q].todo = req[q].todo
           /\ req[q].pc = "tell" => req'[q].tell = req[q].tell
           /\ req'[q] \in Writes \cup Tellings
  BY <1>4, BeginMoves, Zenon
<1>7. req[r] = Free /\ UNCHANGED pageVars
  BY <1>4, Zenon DEF Begin
<1>8. ASSUME NEW q \in Requests, Owing(q) PROVE Owing(q)'
  <2>1. q # r
    BY <1>7, <1>8 DEF Owing, Busy, Free
  <2> QED  BY <1>6, <1>8, <2>1 DEF Owing, Busy
<1>9. OwingKept
  BY <1>5, <1>8, OwingFrame
<1>10. UNCHANGED <<queue, shown, fetch, untold>>
  BY <1>7 DEF pageVars
<1> QED  BY <1>9, <1>10, QuietPages

\* The handler that changes a row owes its pages an event.
LEMMA WriteFieldPages ==
    ASSUME TypeOK, WritesInv, PagesInv, NEW r \in Requests, WriteField(r)
    PROVE  PagesInv'
<1>1. PICK x \in Targets : req[r].row = x
  BY BusyKinds DEF WriteField, Busy
<1>2. /\ req[r].pc = "write"
      /\ \A q \in Requests \ {r} : req'[q] = req[q]
      /\ req'[r].pc = "write" /\ req'[r].row = x
      /\ \A y \in Targets \ {x} : View(y)' = View(y)
  BY <1>1, WriteMoves DEF WritesInv
<1>3. x = User => Owing(r)'
  BY <1>2 DEF Owing, Busy
<1>4. \A q \in Requests : Owing(q) => Owing(q)'
  BY <1>1, <1>2 DEF Owing, Busy
<1>5. View(User)' = View(User) \/ SomeOwing'
  BY <1>2, <1>3, TargetKinds DEF SomeOwing
<1>6. SomeOwing => SomeOwing'
  BY <1>4 DEF SomeOwing
<1>7. UNCHANGED <<queue, shown, fetch, untold>>
  BY DEF WriteField, pageVars
<1>8. OwingKept
  BY <1>5, <1>6 DEF OwingKept
<1> QED  BY <1>7, <1>8, QuietPages

LEMMA FailRequestPages ==
    ASSUME TypeOK, WritesInv, PagesInv, NEW r \in Requests, FailRequest(r)
    PROVE  PagesInv'
<1>1. /\ req' = [req EXCEPT ![r] = Free]
      /\ untold' = IF req[r].row = User THEN Pages ELSE untold
      /\ UNCHANGED <<rows, queue, fetch, shown>>
  BY DEF FailRequest
<1>2. \A q \in Requests \ {r} : req'[q] = req[q]
  BY <1>1, OneMoves DEF WritesInv
<1>3. View(User)' = View(User)
  BY <1>1, ViewFrame
<1>4. ASSUME NEW q \in Requests, Owing(q)
      PROVE  Owing(q)' \/ Pages \subseteq untold'
  <2>1. CASE q = r
    BY <1>1, <1>4, <2>1 DEF Owing
  <2>2. CASE q # r
    BY <1>2, <1>4, <2>2, SameOwing
  <2> QED  BY <2>1, <2>2
<1>5. OwingKept
  BY <1>3, <1>4, OwingFrame
<1>6. untold \subseteq untold'
  BY <1>1 DEF TypeOK
<1> QED  BY <1>1, <1>5, <1>6, QuietPages

LEMMA RereadPages ==
    ASSUME TypeOK, WritesInv, PagesInv, NEW r \in Requests, Reread(r)
    PROVE  PagesInv'
<1> DEFINE tell == Tell(req[r].api, req[r].on)
           w == [pc |-> "tell", api |-> req[r].api, row |-> req[r].row, named |-> req[r].named,
                 on |-> req[r].on, tell |-> tell, clean |-> req[r].clean]
<1>1. /\ req[r] \in Writes /\ req' = [req EXCEPT ![r] = w]
      /\ tell = <<>> => req[r].api = "safety"
      /\ req[r].api = "safety" => req[r].row = User
  BY RereadMoves DEF WritesInv
<1>2. /\ untold' = IF req[r].api = "safety" THEN Pages ELSE untold
      /\ UNCHANGED <<rows, queue, fetch, shown>>
  BY DEF Reread
<1> HIDE DEF tell
<1>3. req'[r] = w /\ \A q \in Requests \ {r} : req'[q] = req[q]
  BY <1>1, OneMoves DEF WritesInv
<1>4. View(User)' = View(User)
  BY <1>2, ViewFrame
<1>5. ASSUME NEW q \in Requests, Owing(q)
      PROVE  Owing(q)' \/ Pages \subseteq untold'
  <2>1. CASE q = r /\ tell # <<>>
    BY <1>3, <1>5, <2>1 DEF Owing, Busy
  <2>2. CASE q = r /\ tell = <<>>
    BY <1>1, <1>2, <2>2
  <2>3. CASE q # r
    BY <1>3, <1>5, <2>3, SameOwing
  <2> QED  BY <2>1, <2>2, <2>3
<1>6. OwingKept
  BY <1>4, <1>5, OwingFrame
<1>7. untold \subseteq untold'
  BY <1>2 DEF TypeOK
<1> QED  BY <1>2, <1>6, <1>7, QuietPages

\* A request that owes nothing moves on.
LEMMA OweNothingPages ==
    ASSUME TypeOK, WritesInv, PagesInv, NEW r \in Requests,
           ~ Owing(r),
           \A q \in Requests \ {r} : req'[q] = req[q],
           UNCHANGED <<rows, pageVars>>
    PROVE  PagesInv'
<1>1. View(User)' = View(User)
  BY ViewFrame
<1>2. \A q \in Requests : Owing(q) => Owing(q)'
  BY SameOwing
<1>3. OwingKept
  BY <1>1, <1>2, OwingFrame
<1>4. UNCHANGED <<queue, shown, fetch, untold>>
  BY DEF pageVars
<1> QED  BY <1>3, <1>4, QuietPages

LEMMA RespondPages ==
    ASSUME TypeOK, WritesInv, PagesInv, NEW r \in Requests, Respond(r)
    PROVE  PagesInv'
<1>1. /\ req[r].pc = "tell" /\ req[r].tell = <<>> /\ req' = [req EXCEPT ![r] = Free]
      /\ UNCHANGED <<rows, pageVars>>
  BY DEF Respond
<1>2. \A q \in Requests \ {r} : req'[q] = req[q]
  BY <1>1, OneMoves DEF WritesInv
<1>3. ~ Owing(r)
  BY <1>1 DEF Owing
<1> QED  BY <1>1, <1>2, <1>3, OweNothingPages

\* What a reply does to the requests.
LEMMA ReplyMoves ==
    ASSUME TypeOK, NEW r \in Requests,
           \/ \E s \in Spaces, risky \in BOOLEAN : ReplyReads(r, s, risky)
           \/ \E a \in Answers : ReplyDecides(r, a)
           \/ ReplyEnds(r)
    PROVE  /\ ~ Busy(r)
           /\ \A q \in Requests \ {r} : req'[q] = req[q]
           /\ UNCHANGED <<rows, pageVars, promise>>
<1>1. \A q \in Requests \ {r} : req'[q] = req[q]
  BY DEF ReplyReads, ReplyDecides, ReplyEnds, TypeOK
<1>2. req[r].pc \in {"free", "override", "decided"} /\ UNCHANGED <<rows, pageVars, promise>>
  BY DEF ReplyReads, ReplyDecides, ReplyEnds, Free
<1> QED  BY <1>1, <1>2 DEF Busy

LEMMA ReplyPages ==
    ASSUME TypeOK, WritesInv, PagesInv, NEW r \in Requests,
           \/ \E s \in Spaces, risky \in BOOLEAN : ReplyReads(r, s, risky)
           \/ \E a \in Answers : ReplyDecides(r, a)
           \/ ReplyEnds(r)
    PROVE  PagesInv'
<1>1. /\ ~ Busy(r)
      /\ \A q \in Requests \ {r} : req'[q] = req[q]
      /\ UNCHANGED <<rows, pageVars, promise>>
  BY ReplyMoves
<1>2. ~ Owing(r)
  BY <1>1 DEF Owing
<1> QED  BY <1>1, <1>2, OweNothingPages

\* An event that is sent reaches a page, or the page is known to have missed it.
LEMMA PublishUIPages ==
    ASSUME TypeOK, WritesInv, PagesInv, NEW r \in Requests, PublishUI(r)
    PROVE  PagesInv'
<1>1. PICK x0 \in Targets : req[r].row = x0
  BY PublishMoves DEF WritesInv
<1>2. PICK tell \in Announcements(x0) : tell = req[r].tell /\ tell # <<>>
  BY <1>1, PublishMoves DEF WritesInv
<1>3. PICK ev : ev = Head(tell)
  OBVIOUS
<1>4. /\ req[r].pc = "tell" /\ req'[r].pc = "tell" /\ req'[r].row = x0
      /\ req'[r].tell = Tail(tell)
      /\ \A q \in Requests \ {r} : req'[q] = req[q]
      /\ UNCHANGED <<rows, fetch, shown>>
  BY <1>1, <1>2, PublishMoves DEF WritesInv
<1>5. /\ ev \in Events
      /\ x0 = User => ev # SpacesChanged
      /\ x0 = User /\ Tail(tell) = <<>> => ev = Changed
      /\ x0 # User => ev = SpacesChanged
  BY <1>2, <1>3, AnnouncementSteps
<1>6. \A p \in Pages :
        /\ p \in untold => p \in untold'
        /\ \/ queue'[p] = Append(queue[p], ev)
           \/ queue'[p] = queue[p] /\ (ev = SpacesChanged \/ p \in untold')
  <2>1. /\ queue' = [p \in Pages |-> IF Hears(p) THEN Append(queue[p], Head(req[r].tell)) ELSE queue[p]]
        /\ untold' = IF Head(req[r].tell) = SpacesChanged THEN untold
                     ELSE untold \cup {p \in Pages : ~ Hears(p)}
    BY Zenon DEF PublishUI
  <2>2. /\ queue' = [p \in Pages |-> IF Hears(p) THEN Append(queue[p], ev) ELSE queue[p]]
        /\ untold' = IF ev = SpacesChanged THEN untold
                     ELSE untold \cup {p \in Pages : ~ Hears(p)}
    BY <1>2, <1>3, <2>1
  <2> QED  BY <2>2
<1>7. View(User)' = View(User)
  BY <1>4, ViewFrame
\* What was owed is owed, or was the event.
<1>8. SomeOwing /\ ~ SomeOwing' => ev = Changed
  <2> SUFFICES ASSUME SomeOwing, ~ SomeOwing' PROVE ev = Changed
    OBVIOUS
  <2>1. PICK q \in Requests : Owing(q)
    BY DEF SomeOwing
  <2>2. CASE q # r
    BY <1>4, <2>1, <2>2, SameOwing DEF SomeOwing
  <2>3. CASE q = r
    <3>1. x0 = User
      BY <1>1, <2>1, <2>3 DEF Owing
    <3>2. Tail(tell) = <<>>
      BY <1>4, <3>1 DEF SomeOwing, Owing, Busy
    <3> QED  BY <1>5, <3>1, <3>2
  <2> QED  BY <2>2, <2>3
<1>9. ASSUME NEW p \in Pages PROVE CaughtUp(p)' /\ PayloadsFollowed(p)'
  <2>1. queue[p] \in Seq(Events)
    BY DEF TypeOK
  <2>2. CaughtUp(p) /\ PayloadsFollowed(p)
    BY DEF PagesInv
  <2>3. CASE queue'[p] = queue[p] /\ (ev = SpacesChanged \/ p \in untold')
    <3>1. SomeOwing => SomeOwing' \/ p \in untold'
      BY <1>8, <2>3, EventKinds
    <3>2. Awaits(p) => Awaits(p)'
      BY <1>4, <1>6, <2>3, <3>1 DEF Awaits, Changed
    <3>3. CaughtUp(p)'
      BY <1>4, <1>7, <2>2, <3>2 DEF CaughtUp
    <3>4. PayloadsFollowed(p)'
      BY <1>6, <2>2, <2>3, <3>1 DEF PayloadsFollowed, Changed
    <3> QED  BY <3>3, <3>4
  <2>4. CASE queue'[p] = Append(queue[p], ev)
    <3> DEFINE n == Len(queue[p]) + 1
    <3>1. /\ n \in DOMAIN queue'[p] /\ queue'[p][n] = ev
          /\ \A i \in DOMAIN queue[p] : i \in DOMAIN queue'[p] /\ i < n /\ queue'[p][i] = queue[p][i]
          /\ \A i \in DOMAIN queue'[p] : i = n \/ i \in DOMAIN queue[p]
      BY <1>5, <2>1, <2>4
    <3> HIDE DEF n
    <3>2. SomeOwing => SomeOwing' \/ \E i \in DOMAIN queue'[p] : queue'[p][i] = Changed
      BY <1>8, <3>1
    <3>3. (\E i \in DOMAIN queue[p] : queue[p][i] = Changed)
              => \E i \in DOMAIN queue'[p] : queue'[p][i] = Changed
      BY <3>1
    <3>4. Awaits(p) => Awaits(p)'
      BY <1>4, <1>6, <3>2, <3>3 DEF Awaits, Changed
    <3>5. CaughtUp(p)'
      BY <1>4, <1>7, <2>2, <3>4 DEF CaughtUp
    <3>6. ASSUME NEW i \in DOMAIN queue'[p], queue'[p][i].kind = "settings_updated"
          PROVE  \/ p \in untold'
                 \/ \E j \in DOMAIN queue'[p] : j > i /\ queue'[p][j] = Changed
                 \/ SomeOwing'
      <4>1. CASE i = n
        <5>1. ev.kind = "settings_updated"
          BY <3>1, <3>6, <4>1
        <5>2. x0 = User /\ Tail(tell) # <<>>
          BY <1>5, <5>1, EventKinds
        <5> QED  BY <1>4, <5>2 DEF SomeOwing, Owing, Busy
      <4>2. CASE i \in DOMAIN queue[p]
        <5>1. \/ p \in untold
              \/ \E j \in DOMAIN queue[p] : j > i /\ queue[p][j] = Changed
              \/ SomeOwing
          BY <2>2, <3>1, <3>6, <4>2 DEF PayloadsFollowed
        <5> QED  BY <1>6, <1>8, <3>1, <4>2, <5>1
      <4> QED  BY <3>1, <4>1, <4>2
    <3>7. PayloadsFollowed(p)'
      BY <3>6 DEF PayloadsFollowed, Changed
    <3> QED  BY <3>5, <3>7
  <2> QED  BY <1>6, <2>3, <2>4
<1> QED  BY <1>9 DEF PagesInv

\* A step of a page owes nothing, and leaves the other pages alone.
LEMMA StillOwing ==
    ASSUME UNCHANGED <<rows, req>>
    PROVE  OwingKept /\ View(User)' = View(User) /\ SomeOwing' = SomeOwing
<1>1. View(User)' = View(User)
  BY ViewFrame
<1>2. \A q \in Requests : Owing(q)' = Owing(q)
  BY SameOwing
<1>3. OwingKept
  BY <1>1, <1>2, OwingFrame
<1> QED  BY <1>1, <1>2, <1>3 DEF SomeOwing

LEMMA OtherPages ==
    ASSUME PagesInv, UNCHANGED <<rows, req>>, NEW p \in Pages,
           \A q \in Pages \ {p} : /\ queue'[q] = queue[q] /\ shown'[q] = shown[q]
                                  /\ q \in fetch => q \in fetch'
                                  /\ q \in untold => q \in untold',
           CaughtUp(p)', PayloadsFollowed(p)'
    PROVE  PagesInv'
<1>1. ASSUME NEW q \in Pages PROVE CaughtUp(q)' /\ PayloadsFollowed(q)'
  <2>1. CASE q = p
    BY <2>1
  <2>2. CASE q # p
    <3>1. CaughtUp(q) /\ PayloadsFollowed(q) /\ OwingKept
      BY StillOwing DEF PagesInv
    <3>2. /\ queue'[q] = queue[q] /\ shown'[q] = shown[q]
          /\ (q \in fetch => q \in fetch') /\ (q \in untold => q \in untold')
      BY <2>2
    <3> QED  BY <3>1, <3>2, PageFrame
  <2> QED  BY <2>1, <2>2
<1> QED  BY <1>1 DEF PagesInv

LEMMA OpenPagePages ==
    ASSUME TypeOK, PagesInv, NEW p \in Pages, OpenPage(p)
    PROVE  PagesInv'
<1>1. /\ shown'[p] = View(User) /\ queue'[p] = <<>>
      /\ \A q \in Pages \ {p} : /\ queue'[q] = queue[q] /\ shown'[q] = shown[q]
                                /\ q \in fetch => q \in fetch'
                                /\ q \in untold => q \in untold'
      /\ UNCHANGED <<rows, req>>
  BY DEF OpenPage, TypeOK
<1>2. CaughtUp(p)'
  BY <1>1, StillOwing DEF CaughtUp
<1>3. PayloadsFollowed(p)'
  BY <1>1 DEF PayloadsFollowed
<1> QED  BY <1>1, <1>2, <1>3, OtherPages

LEMMA UnsubscribePages ==
    ASSUME TypeOK, PagesInv, NEW p \in Pages, Unsubscribe(p)
    PROVE  PagesInv'
<1>1. /\ queue'[p] = <<>>
      /\ \A q \in Pages \ {p} : queue'[q] = queue[q]
      /\ untold' = IF Quiet(p) THEN untold ELSE untold \cup {p}
      /\ UNCHANGED <<rows, req, fetch, shown>>
  BY DEF Unsubscribe, TypeOK
<1>2. (\E i \in DOMAIN queue[p] : queue[p][i] = Changed) => p \in untold'
  BY <1>1, EventKinds DEF Quiet
<1>3. Awaits(p) => Awaits(p)'
  BY <1>1, <1>2, StillOwing DEF Awaits
<1>4. CaughtUp(p)'
  BY <1>1, <1>3, StillOwing DEF PagesInv, CaughtUp
<1>5. PayloadsFollowed(p)'
  BY <1>1 DEF PayloadsFollowed
<1>6. \A q \in Pages \ {p} : /\ queue'[q] = queue[q] /\ shown'[q] = shown[q]
                             /\ q \in fetch => q \in fetch'
                             /\ q \in untold => q \in untold'
  BY <1>1
<1>7. UNCHANGED <<rows, req>>
  BY <1>1
<1> QED  BY <1>4, <1>5, <1>6, <1>7, OtherPages

\* What follows a payload makes up for it.
LEMMA TakeEventPages ==
    ASSUME TypeOK, PagesInv, NEW p \in Pages, TakeEvent(p)
    PROVE  PagesInv'
<1>1. queue[p] \in Seq(Events) /\ queue[p] # <<>>
  BY DEF TakeEvent, TypeOK
<1>2. PICK ev : ev = Head(queue[p])
  OBVIOUS
<1>3. /\ queue'[p] = Tail(queue[p])
      /\ \A q \in Pages \ {p} : queue'[q] = queue[q] /\ shown'[q] = shown[q]
      /\ fetch \subseteq fetch'
      /\ UNCHANGED <<rows, req, untold>>
  BY DEF TakeEvent, TypeOK
<1>4. /\ ev = Changed => p \in fetch'
      /\ ev.kind # "settings_updated" => shown'[p] = shown[p]
  BY <1>2, EventKinds DEF TakeEvent, TypeOK
<1>5. /\ ev = queue[p][1] /\ 1 \in DOMAIN queue[p]
      /\ \A i \in DOMAIN queue[p] : i = 1 \/ (i - 1 \in DOMAIN queue'[p] /\ queue'[p][i - 1] = queue[p][i])
      /\ \A i \in DOMAIN queue'[p] : i \in Nat /\ i + 1 \in DOMAIN queue[p] /\ queue'[p][i] = queue[p][i + 1]
      /\ \A i \in DOMAIN queue[p] : i \in Nat /\ i >= 1
  BY <1>1, <1>2, <1>3
<1>6. View(User)' = View(User) /\ SomeOwing' = SomeOwing
  BY <1>3, StillOwing
<1>7. CaughtUp(p) /\ PayloadsFollowed(p)
  BY DEF PagesInv
<1>8. ASSUME NEW i \in DOMAIN queue[p], queue[p][i] = Changed PROVE Awaits(p)'
  <2>1. CASE i = 1
    BY <1>4, <1>5, <1>8, <2>1 DEF Awaits
  <2>2. CASE i # 1
    <3>1. i - 1 \in DOMAIN queue'[p] /\ queue'[p][i - 1] = Changed
      BY <1>5, <1>8, <2>2
    <3> QED  BY <3>1 DEF Awaits, Changed
  <2> QED  BY <2>1, <2>2
<1>9. Awaits(p) => Awaits(p)'
  BY <1>3, <1>6, <1>8 DEF Awaits
<1>10. CaughtUp(p)'
  <2>1. CASE ev.kind # "settings_updated"
    BY <1>4, <1>6, <1>7, <1>9, <2>1 DEF CaughtUp
  <2>2. CASE ev.kind = "settings_updated"
    <3>1. \/ p \in untold
          \/ \E j \in DOMAIN queue[p] : j > 1 /\ queue[p][j] = Changed
          \/ SomeOwing
      BY <1>5, <1>7, <2>2 DEF PayloadsFollowed
    <3>2. Awaits(p)
      BY <3>1 DEF Awaits
    <3> QED  BY <1>9, <3>2 DEF CaughtUp
  <2> QED  BY <2>1, <2>2
<1>11. ASSUME NEW i \in DOMAIN queue'[p], queue'[p][i].kind = "settings_updated"
       PROVE  \/ p \in untold'
              \/ \E j \in DOMAIN queue'[p] : j > i /\ queue'[p][j] = Changed
              \/ SomeOwing'
  <2>1. i + 1 \in DOMAIN queue[p] /\ queue[p][i + 1].kind = "settings_updated" /\ i \in Nat
    BY <1>5, <1>11
  <2>2. \/ p \in untold
        \/ \E j \in DOMAIN queue[p] : j > i + 1 /\ queue[p][j] = Changed
        \/ SomeOwing
    BY <1>7, <2>1 DEF PayloadsFollowed
  <2>3. ASSUME NEW j \in DOMAIN queue[p], j > i + 1, queue[p][j] = Changed
        PROVE  \E k \in DOMAIN queue'[p] : k > i /\ queue'[p][k] = Changed
    <3>1. j - 1 \in DOMAIN queue'[p] /\ queue'[p][j - 1] = queue[p][j] /\ j - 1 > i
      BY <1>5, <2>1, <2>3
    <3> QED  BY <2>3, <3>1
  <2> QED  BY <1>3, <1>6, <2>2, <2>3
<1>12. PayloadsFollowed(p)'
  BY <1>11 DEF PayloadsFollowed, Changed
<1>13. \A q \in Pages \ {p} : /\ queue'[q] = queue[q] /\ shown'[q] = shown[q]
                              /\ q \in fetch => q \in fetch'
                              /\ q \in untold => q \in untold'
  BY <1>3
<1>14. UNCHANGED <<rows, req>>
  BY <1>3
<1> QED  BY <1>10, <1>12, <1>13, <1>14, OtherPages

LEMMA FetchPages ==
    ASSUME TypeOK, PagesInv, NEW p \in Pages, Fetch(p)
    PROVE  PagesInv'
<1>1. /\ shown'[p] = View(User)
      /\ \A q \in Pages \ {p} : shown'[q] = shown[q]
      /\ fetch' = fetch \ {p}
      /\ untold' = IF Quiet(p) THEN untold \ {p} ELSE untold
      /\ UNCHANGED <<rows, req, queue>>
  BY DEF Fetch, TypeOK
<1>2. View(User)' = View(User) /\ SomeOwing' = SomeOwing
  BY <1>1, StillOwing
<1>3. CaughtUp(p)'
  BY <1>1, <1>2 DEF CaughtUp
<1>4. PayloadsFollowed(p)'
  <2>1. CASE Quiet(p)
    <3>1. \A i \in DOMAIN queue'[p] : queue'[p][i].kind # "settings_updated"
      BY <1>1, <2>1, EventKinds DEF Quiet
    <3> QED  BY <3>1 DEF PayloadsFollowed
  <2>2. CASE ~ Quiet(p)
    BY <1>1, <1>2, <2>2 DEF PagesInv, PayloadsFollowed, Changed
  <2> QED  BY <2>1, <2>2
<1>5. \A q \in Pages \ {p} : /\ queue'[q] = queue[q] /\ shown'[q] = shown[q]
                             /\ q \in fetch => q \in fetch'
                             /\ q \in untold => q \in untold'
  BY <1>1
<1>6. UNCHANGED <<rows, req>>
  BY <1>1
<1> QED  BY <1>3, <1>4, <1>5, <1>6, OtherPages

LEMMA PagesStep ==
    ASSUME TypeOK, WritesInv, PagesInv, [Next]_vars
    PROVE  PagesInv'
<1>1. ASSUME UNCHANGED <<rows, req, queue, fetch, shown, untold>> PROVE PagesInv'
  BY <1>1, StillOwing, QuietPages
<1>2. CASE UNCHANGED vars
  BY <1>1, <1>2 DEF vars, pageVars
<1>3. ASSUME NEW p \in Pages, Subscribe(p) PROVE PagesInv'
  BY <1>1, <1>3 DEF Subscribe
<1>4. CASE Next
  BY <1>3, <1>4, BeginPages, WriteFieldPages, FailRequestPages, RereadPages, PublishUIPages,
     RespondPages, ReplyPages, OpenPagePages, UnsubscribePages, TakeEventPages, FetchPages
  DEF Next, BeginStep
<1> QED  BY <1>2, <1>4

-----------------------------------------------------------------------------
(* Replies.                                                                *)

RepliesInv == RepliesRemember /\ NothingRiskySlips

LEMMA RepliesStep ==
    ASSUME TypeOK, WritesInv, RepliesInv, [Next]_vars
    PROVE  RepliesInv'
<1> USE DEF RepliesInv
<1>1. ASSUME \A r \in Requests : req'[r].pc \in {"override", "decided"} => req'[r] = req[r]
      PROVE  RepliesInv'
  BY <1>1 DEF RepliesRemember, NothingRiskySlips
<1>2. CASE UNCHANGED vars
  BY <1>1, <1>2 DEF vars
<1>3. ASSUME NEW r \in Requests, BeginStep(r) PROVE RepliesInv'
  <2>1. PICK kind \in RequestKinds, x \in Targets :
            \E F \in SUBSET RowFields(x) : \E V \in SUBSET F : kind \in RowApis(x) /\ Begin(r, kind, x, F, V)
    BY <1>3, BeginsAreShaped
  <2>2. PICK F \in SUBSET RowFields(x) : \E V \in SUBSET F : kind \in RowApis(x) /\ Begin(r, kind, x, F, V)
    BY <2>1
  <2>3. PICK V \in SUBSET F : kind \in RowApis(x) /\ Begin(r, kind, x, F, V)
    BY <2>2
  <2>4. Begin(r, kind, x, F, V)
    BY <2>3
  <2>5. req'[r] = [pc |-> "write", api |-> kind, row |-> x, named |-> F,
                   on |-> V, todo |-> F, clean |-> Alone(x, F)]
    BY <2>4, BeginMoves
  <2>6. \A q \in Requests \ {r} :
          \/ /\ ~ (Busy(q) /\ req[q].row = x)
             /\ req'[q] = req[q]
          \/ /\ Busy(q) /\ req[q].row = x
             /\ req'[q].pc = req[q].pc /\ req'[q].api = req[q].api
             /\ req'[q].row = x /\ req'[q].named = req[q].named
             /\ req'[q].on = req[q].on /\ req'[q].clean = req[q].clean \ F
             /\ req[q].pc = "write" => req'[q].todo = req[q].todo
             /\ req[q].pc = "tell" => req'[q].tell = req[q].tell
             /\ req'[q] \in Writes \cup Tellings
    BY <2>4, BeginMoves, Zenon
  <2>7. req'[r].pc = "write" /\ \A q \in Requests \ {r} : (Busy(q) /\ req'[q].pc = req[q].pc) \/ req'[q] = req[q]
    BY <2>5, <2>6
  <2> QED  BY <1>1, <2>7 DEF Busy
<1>4. ASSUME NEW r \in Requests, WriteField(r) \/ PublishUI(r) PROVE RepliesInv'
  <2>1. PICK x \in Targets : req[r].row = x
    BY <1>4, BusyKinds DEF WriteField, PublishUI, Busy
  <2>2. req'[r].pc \in {"write", "tell"} /\ \A q \in Requests \ {r} : req'[q] = req[q]
    BY <1>4, <2>1, WriteMoves, PublishMoves DEF WritesInv
  <2> QED  BY <1>1, <2>2
<1>5. ASSUME NEW r \in Requests, FailRequest(r) \/ Respond(r) \/ ReplyEnds(r) PROVE RepliesInv'
  <2>1. req' = [req EXCEPT ![r] = Free]
    BY <1>5 DEF FailRequest, Respond, ReplyEnds
  <2>2. req'[r].pc = "free" /\ \A q \in Requests \ {r} : req'[q] = req[q]
    BY <2>1 DEF TypeOK, Free
  <2> QED  BY <1>1, <2>2
<1>6. ASSUME NEW r \in Requests, Reread(r) PROVE RepliesInv'
  <2> DEFINE w == [pc |-> "tell", api |-> req[r].api, row |-> req[r].row, named |-> req[r].named,
                   on |-> req[r].on, tell |-> Tell(req[r].api, req[r].on), clean |-> req[r].clean]
  <2>1. req' = [req EXCEPT ![r] = w]
    BY <1>6, RereadMoves DEF WritesInv
  <2>2. w.pc = "tell"
    OBVIOUS
  <2> HIDE DEF w
  <2>3. req'[r].pc = "tell" /\ \A q \in Requests \ {r} : req'[q] = req[q]
    BY <2>1, <2>2 DEF TypeOK
  <2> QED  BY <1>1, <2>3
\* The rails are off when a user's switch is read off.
<1>7. ASSUME NEW r \in Requests, NEW s \in Spaces, NEW risky \in BOOLEAN, ReplyReads(r, s, risky)
      PROVE  RepliesInv'
  <2>1. /\ req'[r] = [pc |-> "override", space |-> s, user |-> View(User),
                      risky |-> risky, off |-> RailsOff(s)]
        /\ \A q \in Requests \ {r} : req'[q] = req[q]
    BY <1>7 DEF ReplyReads, TypeOK
  <2>2. RailsOff(s) \/ {"safety_rails_enabled", "money"} \subseteq View(User)
    BY DEF RailsOff
  <2>3. /\ req'[r].pc = "override" /\ req'[r].user = View(User) /\ req'[r].off = RailsOff(s)
    BY <2>1
  <2> QED  BY <2>1, <2>2, <2>3 DEF RepliesRemember, NothingRiskySlips
\* A risky reply that is not flagged had the rails off, at one of the two reads.
<1>8. ASSUME NEW r \in Requests, NEW a \in Answers, ReplyDecides(r, a) PROVE RepliesInv'
  <2> DEFINE q == req[r]
             off == "safety_rails_off" \in View(q.space)
             auto == "auto_mode" \in q.user /\ ~ Flagged(q.user, off, q.risky, a)
             noted == q.off \/ RailsOff(q.space) \/ a = "clear"
  <2>1. /\ req[r].pc = "override"
        /\ req'[r] = [pc |-> "decided", risky |-> q.risky, auto |-> auto, off |-> noted]
        /\ \A o \in Requests \ {r} : req'[o] = req[o]
    BY <1>8 DEF ReplyDecides, TypeOK
  <2>2. q.off \/ {"safety_rails_enabled", "money"} \subseteq q.user
    BY <2>1 DEF RepliesRemember
  <2>3. off => RailsOff(q.space)
    BY DEF RailsOff
  <2>4. auto /\ q.risky => noted
    BY <2>2, <2>3 DEF Flagged
  <2> HIDE DEF auto, noted, off
  <2>5. req'[r].pc = "decided" /\ req'[r].risky = q.risky /\ req'[r].auto = auto /\ req'[r].off = noted
    BY <2>1
  <2> QED  BY <2>1, <2>4, <2>5 DEF RepliesRemember, NothingRiskySlips
<1>9. ASSUME NEW p \in Pages,
             OpenPage(p) \/ Subscribe(p) \/ Unsubscribe(p) \/ TakeEvent(p) \/ Fetch(p)
      PROVE  RepliesInv'
  <2>1. UNCHANGED req
    BY <1>9 DEF OpenPage, Subscribe, Unsubscribe, TakeEvent, Fetch
  <2> QED  BY <1>1, <2>1
<1>10. CASE Next
  BY <1>3, <1>4, <1>5, <1>6, <1>7, <1>8, <1>9, <1>10 DEF Next, BeginStep
<1> QED  BY <1>2, <1>10

-----------------------------------------------------------------------------
(* The theorems.                                                           *)

LEMMA SettingsInit == Init => SettingsInv
<1> SUFFICES ASSUME Init PROVE SettingsInv
  OBVIOUS
<1>1. \A r \in Requests : req[r].pc = "free" /\ ~ Busy(r)
  BY DEF Init, Free, Busy
<1>2. \A x \in Targets : View(x) = Default(x) /\ Default(x) \in SUBSET Flags
  BY DEF Init, View, Default, Flags, UserFlags, SpaceFlags
<1>3. TypeOK
  <2>1. promise \in [Targets -> SUBSET (Fields \X BOOLEAN)]
    <3>1. "disabled" \in Fields
      BY DEF Fields, Flags, SpaceFlags
    <3>2. {<<"disabled", TRUE>>} \in SUBSET (Fields \X BOOLEAN)
      <4>1. \A f \in Fields, b \in BOOLEAN : <<f, b>> \in Fields \X BOOLEAN
        OBVIOUS
      <4>2. TRUE \in BOOLEAN
        OBVIOUS
      <4>3. <<"disabled", TRUE>> \in Fields \X BOOLEAN
        BY <3>1, <4>1, <4>2, Zenon
      <4> QED  BY <4>3, Zenon
    <3>3. promise = [x \in Targets |-> IF x = User THEN {} ELSE {<<"disabled", TRUE>>}]
      BY DEF Init
    <3> QED  BY <3>2, <3>3
  <2>2. queue \in [Pages -> Seq(Events)] /\ \A p \in Pages : Len(queue[p]) <= UICap
    BY SettingsBounds DEF Init
  <2>3. shown \in [Pages -> SUBSET Flags]
    BY <1>2, TargetKinds DEF Init
  <2>4. requests \in 0 .. MaxRequests
    BY SettingsBounds DEF Init
  <2> QED  BY <2>1, <2>2, <2>3, <2>4 DEF Init, TypeOK
<1>4. AckedWritesHold
  <2> DEFINE d == <<"disabled", TRUE>>
  <2>0. promise = [x \in Targets |-> IF x = User THEN {} ELSE {d}]
    BY DEF Init
  <2>4. d[1] = "disabled" /\ d[2] = TRUE
    <3>1. \A b \in BOOLEAN : <<"disabled", b>>[1] = "disabled" /\ <<"disabled", b>>[2] = b
      OBVIOUS
    <3> QED  BY <3>1, Zenon
  <2> HIDE DEF d
  <2>1. promise[User] = {} /\ \A x \in Targets : x # User => promise[x] = {d}
    BY <2>0, TargetKinds
  <2>2. \A x \in Targets : x # User => View(x) = {"disabled"}
    BY <1>2 DEF Default
  <2>3. ASSUME NEW x \in Targets, NEW w \in promise[x] PROVE (w[1] \in View(x)) = w[2]
    <3>1. x # User /\ w = d
      BY <2>1, <2>3
    <3>2. w[1] = "disabled" /\ w[2] = TRUE
      BY <2>4, <3>1, Zenon
    <3>3. w[1] \in View(x)
      BY <2>2, <3>1, <3>2
    <3>4. (w[1] \in View(x)) = TRUE
      BY <3>3
    <3> QED  BY <3>2, <3>4, Zenon
  <2> QED  BY <2>3 DEF AckedWritesHold
<1>5. WritesInv
  BY <1>1, <1>4 DEF WritesInv, RequestsShaped, CleanIsAlone, WrittenHolds, PromisedIsFree
<1>6. PagesInv
  BY <1>2, TargetKinds DEF Init, PagesInv, CaughtUp, PayloadsFollowed
<1>7. RepliesRemember /\ NothingRiskySlips
  BY <1>1 DEF RepliesRemember, NothingRiskySlips
<1> QED  BY <1>3, <1>5, <1>6, <1>7 DEF SettingsInv

LEMMA SettingsStep == SettingsInv /\ [Next]_vars => SettingsInv'
BY TypedStep, WritesStep, PagesStep, RepliesStep DEF SettingsInv, RepliesInv, WritesInv

LEMMA SettingsAlways == Spec => []SettingsInv
BY SettingsInit, SettingsStep, PTL DEF Spec

\* Settled requests owe nothing: what a page awaits it fetches or has missed.
LEMMA SettledIsCurrent == SettingsInv => PageIsCurrent
<1> SUFFICES ASSUME SettingsInv, NEW p \in Pages, Settled, Quiet(p), p \notin fetch \cup untold
             PROVE  shown[p] = View(User)
  BY DEF PageIsCurrent
<1>1. ~ SomeOwing
  BY DEF Settled, SomeOwing, Owing
<1>2. \A i \in DOMAIN queue[p] : queue[p][i] # Changed
  BY EventKinds DEF Quiet
<1>3. ~ Awaits(p)
  BY <1>1, <1>2 DEF Awaits
<1> QED  BY <1>3 DEF SettingsInv, PagesInv, CaughtUp

\* The rows hold flags of their table and no channel more than it takes, whatever
\* handlers interleave.
THEOREM SettingsTyped == Spec => []TypeOK
<1>1. SettingsInv => TypeOK
  BY DEF SettingsInv
<1> QED  BY <1>1, SettingsAlways, PTL

\* A field set with a 200 keeps its value until another request names it, and a
\* space nobody toggled stays disabled, for any number of concurrent handlers: an
\* open request writes only the fields it names, and only one owns a field.
THEOREM AckedWritesAlwaysHold == Spec => []AckedWritesHold
<1>1. SettingsInv => AckedWritesHold
  BY DEF SettingsInv, WritesInv
<1> QED  BY <1>1, SettingsAlways, PTL

\* A page that missed nothing and has dealt with its events holds the user's
\* settings as they are stored, in whatever order the handlers published: behind a
\* payload that may be out of date there is always an event that makes useSettings
\* fetch. (The claim is about the user's row, the only one a hook follows.)
THEOREM PagesAreCurrent == Spec => []PageIsCurrent
BY SettledIsCurrent, SettingsAlways, PTL

\* No reply that speaks of money goes out by itself unless the rails were off for
\* its space, or the client cleared it, at some moment of the request.
THEOREM NothingRiskyEverSlips == Spec => []NothingRiskySlips
<1>1. SettingsInv => NothingRiskySlips
  BY DEF SettingsInv
<1> QED  BY <1>1, SettingsAlways, PTL
=============================================================================
