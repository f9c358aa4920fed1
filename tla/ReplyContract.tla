--------------------------- MODULE ReplyContract ---------------------------
(***************************************************************************)
(* What the approval queue promises, with no handlers, channels or tabs in *)
(* it: somebody entitled to grants a text, Google Chat takes granted texts *)
(* only, and a draft is recorded as sent only once Chat has taken it.      *)
(***************************************************************************)
CONSTANTS
    Draft,  \* draft ids
    Body    \* draft texts

VARIABLES
    granted,  \* the texts some draft has held while approved
    posted,   \* what Google Chat has accepted
    recorded  \* the drafts whose row says "sent"

contractVars == <<granted, posted, recorded>>

Text == [draft : Draft, body : Body]

Init == granted = {} /\ posted = {} /\ recorded = {}

\* A decision about one draft: it may grant it a text, and it takes back "sent".
Decide(d) ==
    /\ \E b \in Body : granted' \in {granted, granted \cup {[draft |-> d, body |-> b]}}
    /\ recorded' = recorded \ {d}
    /\ UNCHANGED posted

\* Google Chat accepts texts granted before this step.
Post ==
    /\ posted \subseteq posted'
    /\ posted' \subseteq posted \cup granted
    /\ UNCHANGED <<granted, recorded>>

\* A draft becomes "sent" after Chat has accepted some text of it.
Record(d) ==
    /\ \E i \in posted : i.draft = d
    /\ recorded' = recorded \cup {d}
    /\ UNCHANGED <<granted, posted>>

Next == Post \/ \E d \in Draft : Decide(d) \/ Record(d)

Spec == Init /\ [][Next]_contractVars
=============================================================================
