------------------------ MODULE MessageIntakeProofs ------------------------
(***************************************************************************)
(* IntakeInv is an invariant of MessageIntake, for every value of the      *)
(* constants. It falls apart into what the ticker still has to catch up    *)
(* with, who we are, replies that come back, blocked messages, and         *)
(* messages that clients unskip; most actions touch few of these, and the  *)
(* lemmas below say when a part survives.                                  *)
(***************************************************************************)
EXTENDS MessageIntake, FiniteSetTheorems, SequenceTheorems, FunctionTheorems, TLAPS

USE WorldAssumption, BoundsAreNumbers

-----------------------------------------------------------------------------
(* Rows and jobs                                                           *)

LEMMA NoRowIsNoRow == NoRow \notin Rows
  BY DEF NoRow, Row, Rows, Names

LEMMA RowType ==
  ASSUME NEW mine \in BOOLEAN, NEW skipped \in BOOLEAN, NEW sender \in Names \cup {Blank}
  PROVE  Row(mine, skipped, sender) \in Rows
  BY DEF Row, Rows

LEMMA IdleType == Idle \in JobRecords
  BY DEF Idle, Job, JobRecords

\* A stored message has a row, and the others have none.
LEMMA StoredType ==
  ASSUME TypeOK
  PROVE  /\ Stored \subseteq Messages
         /\ \A m \in Stored : rows[m] \in Rows
         /\ \A m \in Messages \ Stored : rows[m] = NoRow
  BY DEF TypeOK, Stored

\* A row written for m makes it stored, and changes no other row.
LEMMA RowWrite ==
  ASSUME TypeOK, NEW m \in Messages, NEW row \in Rows, rows' = [rows EXCEPT ![m] = row]
  PROVE  /\ rows' \in [Messages -> Rows \cup {NoRow}]
         /\ Stored' = Stored \cup {m}
         /\ rows'[m] = row
         /\ \A k \in Messages : k # m => rows'[k] = rows[k]
  BY NoRowIsNoRow DEF TypeOK, Stored

\* A step of one actor leaves the jobs of the others alone.
LEMMA JobWrite ==
  ASSUME TypeOK, NEW a \in Actors, NEW job \in JobRecords, work' = [work EXCEPT ![a] = job]
  PROVE  /\ work' \in [Actors -> JobRecords]
         /\ work'[a] = job
         /\ \A b \in Actors : b # a => work'[b] = work[b]
  BY DEF TypeOK

EventRecords == [id : Nat, msgs : SUBSET Messages]

LEMMA EventType ==
  ASSUME TypeOK
  PROVE  /\ Events \subseteq EventRecords
         /\ \A e \in Events : \E i \in 1 .. Len(ring) : e = ring[i]
<1>1. ring \in Seq(EventRecords)
  BY DEF TypeOK, EventRecords
<1>2. /\ DOMAIN ring = 1 .. Len(ring)
      /\ \A i \in 1 .. Len(ring) : ring[i] \in EventRecords
  BY <1>1
<1> QED
  BY <1>2 DEF Events, Range

-----------------------------------------------------------------------------
(* When a part of the invariant survives                                   *)

LEMMA CatchUpFrame ==
  ASSUME TypeOK, CatchUpInv, JobsInOrder,
         UNCHANGED <<ring, nextID, cursor, seen>>,
         dropped \subseteq dropped', Stored \subseteq Stored',
         work'[Ticker].upto = work[Ticker].upto,
         Messages \cap (work[Ticker].todo \cup {work[Ticker].msg})
            \subseteq Stored' \cup dropped' \cup work'[Ticker].todo \cup {work'[Ticker].msg}
  PROVE  CatchUpInv'
<1>1. /\ Unread' = Unread
      /\ Events' = Events
  BY DEF Unread, Events
<1>2. NothingPassedOver'
  BY <1>1 DEF CatchUpInv, NothingPassedOver, MessagesOf
<1>3. \A e \in Unread : e.msgs \subseteq Messages
  BY EventType DEF Unread, EventRecords
<1>4. TickIsThorough'
  BY <1>1, <1>3 DEF CatchUpInv, TickIsThorough, MessagesOf
<1>5. IdsInOrder'
  BY <1>1 DEF CatchUpInv, IdsInOrder
<1> QED
  BY <1>2, <1>4, <1>5 DEF CatchUpInv

\* The users row learns no name but ours.
LEMMA NameStep ==
  ASSUME TypeOK, OnlyTheUserIsUs, RowsAreHonest, RequireLocalUser
  PROVE  /\ name' \in Names
         /\ TextsTellUsApart => name' \in {User, Placeholder}
<1>1. CASE name' = name
  BY <1>1 DEF TypeOK, OnlyTheUserIsUs
<1>2. CASE name' \in Commonest
  <2>1. /\ name' \in Names
        /\ Signed(name') # {}
    BY <1>2 DEF Commonest
  <2>2. PICK m \in Stored : rows[m].mine /\ rows[m].sender = name'
    BY <2>1 DEF Signed
  <2>3. TextsTellUsApart => Author[m] = User /\ name' \in {Author[m], User, Placeholder, Blank}
    BY <2>2 DEF RowsAreHonest, Honest
  <2> QED
    BY <2>1, <2>3 DEF Names
<1> QED
  BY <1>1, <1>2 DEF RequireLocalUser

\* Honesty survives while rows, texts and jobs stay.
LEMMA HonestFrame ==
  ASSUME RowsAreHonest, UNCHANGED <<sent, rows, work>>
  PROVE  RowsAreHonest'
  BY DEF RowsAreHonest, Stored, Honest

LEMMA UsFrame ==
  ASSUME OnlyTheUserIsUs, UNCHANGED <<self, rows>>,
         TextsTellUsApart => name' \in {User, Placeholder}
  PROVE  OnlyTheUserIsUs'
  BY DEF OnlyTheUserIsUs, Stored

LEMMA JobsFrame ==
  ASSUME JobsInOrder, UNCHANGED work
  PROVE  JobsInOrder'
  BY DEF JobsInOrder

LEMMA PunctualFrame ==
  ASSUME PunctualIsMine, UNCHANGED <<punctual, rows, unjudged, work, listed, drafted>>,
         sent \subseteq sent'
  PROVE  PunctualIsMine'
  BY DEF PunctualIsMine, Stored

LEMMA BlockedFrame ==
  ASSUME BlockedIsMuted, UNCHANGED <<rows, freed, unjudged, work, listed, drafted>>
  PROVE  BlockedIsMuted'
  BY DEF BlockedIsMuted, Stored

LEMMA UnskipFrame ==
  ASSUME UnskipStands, UNCHANGED <<rows, rescued>>
  PROVE  UnskipStands'
  BY DEF UnskipStands, Stored

\* Nothing of the catching up moves while the ring, the jobs and the rows stay.
LEMMA CatchUpStays ==
  ASSUME TypeOK, CatchUpInv, JobsInOrder, UNCHANGED <<ringVars, work, rows, tickHistory>>
  PROVE  CatchUpInv'
  BY CatchUpFrame DEF ringVars, tickHistory, Stored

-----------------------------------------------------------------------------
(* Google Chat and the clients                                             *)

LEMMA PostKeepsInv ==
  ASSUME IntakeInv, NEW m \in Messages, Post(m)
  PROVE  IntakeInv'
<1> USE DEF IntakeInv, Post
<1>1. TypeOK'
  BY DEF TypeOK, ringVars, selfVars, agentVars, tickHistory, skipHistory
<1>2. UNCHANGED <<sent, ringVars, work, rows, self, name, agentVars, tickHistory, punctual, skipHistory>>
  BY DEF selfVars
<1>3. CatchUpInv'
  BY <1>2, CatchUpStays
<1>4. JobsInOrder' /\ RowsAreHonest' /\ OnlyTheUserIsUs'
  BY <1>2, JobsFrame, HonestFrame, UsFrame DEF OnlyTheUserIsUs
<1>5. PunctualIsMine' /\ BlockedIsMuted' /\ UnskipStands'
  BY <1>2, PunctualFrame, BlockedFrame, UnskipFrame DEF agentVars, skipHistory
<1>6. (listed \cup drafted \subseteq Stored)'
  BY <1>2 DEF agentVars, Stored
<1> QED
  BY <1>1, <1>3, <1>4, <1>5, <1>6

LEMMA AgeKeepsInv ==
  ASSUME IntakeInv, NEW m \in Messages, Age(m)
  PROVE  IntakeInv'
<1> USE DEF IntakeInv, Age
<1>1. TypeOK'
  BY DEF TypeOK, Fault, ringVars, selfVars, agentVars, tickHistory, skipHistory
<1>2. UNCHANGED <<sent, ringVars, work, rows, self, name, agentVars, tickHistory, punctual, skipHistory>>
  BY DEF selfVars
<1>3. CatchUpInv'
  BY <1>2, CatchUpStays
<1>4. JobsInOrder' /\ RowsAreHonest' /\ OnlyTheUserIsUs'
  BY <1>2, JobsFrame, HonestFrame, UsFrame DEF OnlyTheUserIsUs
<1>5. PunctualIsMine' /\ BlockedIsMuted' /\ UnskipStands'
  BY <1>2, PunctualFrame, BlockedFrame, UnskipFrame DEF agentVars, skipHistory
<1>6. (listed \cup drafted \subseteq Stored)'
  BY <1>2 DEF agentVars, Stored
<1> QED
  BY <1>1, <1>3, <1>4, <1>5, <1>6

\* The text of a reply becomes one of ours; if nobody has judged the reply yet, nobody
\* has listed or answered it either.
LEMMA ReportKeepsInv ==
  ASSUME IntakeInv, NEW m \in Messages, Report(m)
  PROVE  IntakeInv'
<1> USE DEF IntakeInv, Report
<1>1. TypeOK'
  BY DEF TypeOK, ringVars, selfVars, agentVars, tickHistory, skipHistory
<1>2. UNCHANGED <<ringVars, work, rows, self, name, listed, drafted, tickHistory, skipHistory>>
  BY DEF selfVars, agentVars
<1>3. CatchUpInv'
  BY <1>2, CatchUpStays
<1>4. JobsInOrder' /\ OnlyTheUserIsUs'
  BY <1>2, JobsFrame, UsFrame DEF OnlyTheUserIsUs
<1>5. RowsAreHonest'
  BY <1>2 DEF RowsAreHonest, Stored, Honest
<1>6. PunctualIsMine'
  <2>1. SUFFICES ASSUME NEW k \in punctual' \ SyncKeys
                 PROVE  /\ Text[k] \in sent'
                        /\ k \in Stored => rows[k].mine \/ k \in unjudged
                        /\ \A a \in Actors : work[a].msg = k => work[a].row.mine \/ k \in unjudged
                        /\ k \in listed \cup drafted => k \in unjudged
    BY <1>2 DEF PunctualIsMine, Stored, skipHistory
  <2>2. CASE k \in punctual
    BY <2>2 DEF PunctualIsMine
  <2>3. CASE k \notin punctual
    <3>1. k = m /\ m \notin Stored \cup Judged
      BY <2>1, <2>3
    <3> QED
      BY <3>1 DEF Judged
  <2> QED
    BY <2>2, <2>3
<1>7. BlockedIsMuted' /\ UnskipStands'
  BY <1>2, BlockedFrame, UnskipFrame DEF skipHistory
<1>8. (listed \cup drafted \subseteq Stored)'
  BY <1>2 DEF Stored
<1> QED
  BY <1>1, <1>3, <1>4, <1>5, <1>6, <1>7, <1>8

LEMMA SetMentionOnlyKeepsInv ==
  ASSUME IntakeInv, SetMentionOnly
  PROVE  IntakeInv'
<1> USE DEF IntakeInv, SetMentionOnly
<1>1. /\ name' \in Names
      /\ TextsTellUsApart => name' \in {User, Placeholder}
  BY NameStep
<1>2. TypeOK'
  BY <1>1 DEF TypeOK, Change, chatVars, ringVars, agentVars, tickHistory, skipHistory
<1>3. UNCHANGED <<sent, ringVars, work, rows, self, agentVars, tickHistory, punctual, skipHistory>>
  BY DEF chatVars
<1>4. CatchUpInv'
  BY <1>3, CatchUpStays
<1>5. JobsInOrder' /\ RowsAreHonest' /\ OnlyTheUserIsUs'
  BY <1>1, <1>3, JobsFrame, HonestFrame, UsFrame
<1>6. PunctualIsMine' /\ BlockedIsMuted' /\ UnskipStands'
  BY <1>3, PunctualFrame, BlockedFrame, UnskipFrame DEF agentVars, skipHistory
<1>7. (listed \cup drafted \subseteq Stored)'
  BY <1>3 DEF agentVars, Stored
<1> QED
  BY <1>2, <1>4, <1>5, <1>6, <1>7

\* What is pending is stored, not ours and not skipped: no punctual reply, and no
\* blocked message but those freed or unjudged.
LEMMA ListKeepsInv ==
  ASSUME IntakeInv, List
  PROVE  IntakeInv'
<1> USE DEF IntakeInv, List
<1>1. /\ name' \in Names
      /\ TextsTellUsApart => name' \in {User, Placeholder}
  BY NameStep
<1>2. listed' \subseteq {m \in Stored : ~rows[m].mine /\ ~rows[m].skipped}
  BY DEF Pending
<1>3. UNCHANGED <<age, old, sent, ringVars, work, rows, known, self, mentionOnly, drafted,
                  tickHistory, punctual, freed, rescued, unjudged, changes, faults>>
  BY DEF chatVars, skipHistory
<1>4. TypeOK'
  BY <1>1, <1>2, <1>3, StoredType DEF TypeOK, ringVars, tickHistory
<1>5. CatchUpInv'
  BY <1>3, CatchUpStays
<1>6. JobsInOrder' /\ RowsAreHonest' /\ OnlyTheUserIsUs'
  BY <1>1, <1>3, JobsFrame, HonestFrame, UsFrame
<1>7. PunctualIsMine'
  BY <1>2, <1>3 DEF PunctualIsMine, Stored
<1>8. BlockedIsMuted'
  BY <1>2, <1>3 DEF BlockedIsMuted, Stored
<1>9. UnskipStands'
  BY <1>3, UnskipFrame
<1>10. (listed \cup drafted \subseteq Stored)'
  BY <1>2, <1>3 DEF Stored
<1> QED
  BY <1>4, <1>5, <1>6, <1>7, <1>8, <1>9, <1>10

LEMMA ReplyKeepsInv ==
  ASSUME IntakeInv, NEW m \in Messages, Reply(m)
  PROVE  IntakeInv'
<1> USE DEF IntakeInv, Reply
<1>1. /\ name' \in Names
      /\ TextsTellUsApart => name' \in {User, Placeholder}
  BY NameStep
<1>2. listed' \cup drafted' \subseteq listed \cup drafted
  OBVIOUS
<1>3. UNCHANGED <<age, old, sent, ringVars, work, rows, known, self, mentionOnly,
                  tickHistory, punctual, freed, rescued, unjudged, changes, faults>>
  BY DEF chatVars, skipHistory
<1>4. TypeOK'
  BY <1>1, <1>2, <1>3 DEF TypeOK, ringVars, tickHistory
<1>5. CatchUpInv'
  BY <1>3, CatchUpStays
<1>6. JobsInOrder' /\ RowsAreHonest' /\ OnlyTheUserIsUs'
  BY <1>1, <1>3, JobsFrame, HonestFrame, UsFrame
<1>7. PunctualIsMine'
  BY <1>2, <1>3 DEF PunctualIsMine, Stored
<1>8. BlockedIsMuted'
  BY <1>2, <1>3 DEF BlockedIsMuted, Stored
<1>9. UnskipStands'
  BY <1>3, UnskipFrame
<1>10. (listed \cup drafted \subseteq Stored)'
  BY <1>2, <1>3 DEF Stored
<1> QED
  BY <1>4, <1>5, <1>6, <1>7, <1>8, <1>9, <1>10

\* Skipping and unskipping change one field of a row.
LEMMA SkipWrite ==
  ASSUME TypeOK, NEW m \in Stored, NEW b \in BOOLEAN, rows' = [rows EXCEPT ![m].skipped = b]
  PROVE  /\ rows' \in [Messages -> Rows \cup {NoRow}]
         /\ Stored' = Stored
         /\ rows'[m].mine = rows[m].mine /\ rows'[m].skipped = b /\ rows'[m].sender = rows[m].sender
         /\ \A k \in Messages : k # m => rows'[k] = rows[k]
<1>1. m \in Messages /\ rows[m] \in Rows /\ rows \in [Messages -> Rows \cup {NoRow}]
  BY StoredType DEF TypeOK
<1>2. PICK row \in Rows : /\ row = [rows[m] EXCEPT !.skipped = b]
                          /\ row.mine = rows[m].mine
                          /\ row.skipped = b
                          /\ row.sender = rows[m].sender
  BY <1>1 DEF Rows
<1>3. rows' = [rows EXCEPT ![m] = row]
  BY <1>1, <1>2
<1> QED
  BY <1>1, <1>2, <1>3, NoRowIsNoRow DEF Stored

LEMMA SkipKeepsInv ==
  ASSUME IntakeInv, NEW m \in Messages, Skip(m)
  PROVE  IntakeInv'
<1> USE DEF IntakeInv, Skip
<1> DEFINE row == [rows[m] EXCEPT !.skipped = TRUE]
<1>1. /\ name' \in Names
      /\ TextsTellUsApart => name' \in {User, Placeholder}
  BY NameStep
<1>2. /\ rows' \in [Messages -> Rows \cup {NoRow}]
      /\ Stored' = Stored
      /\ rows'[m].mine = rows[m].mine /\ rows'[m].skipped = TRUE /\ rows'[m].sender = rows[m].sender
      /\ \A k \in Messages : k # m => rows'[k] = rows[k]
  BY SkipWrite
<1>3. UNCHANGED <<age, old, sent, ringVars, work, known, self, mentionOnly, listed, drafted,
                  tickHistory, punctual, unjudged, faults>>
  BY DEF chatVars, agentVars
<1>4. TypeOK'
  BY <1>1, <1>2, <1>3 DEF TypeOK, Change, ringVars, tickHistory
<1>5. CatchUpInv'
  BY <1>2, <1>3, CatchUpFrame DEF ringVars, tickHistory
<1>6. JobsInOrder'
  BY <1>3, JobsFrame
<1>7. OnlyTheUserIsUs'
  BY <1>1, <1>2, <1>3, StoredType DEF OnlyTheUserIsUs
<1>8. RowsAreHonest'
  BY <1>2, <1>3, StoredType DEF RowsAreHonest, Honest
<1>9. PunctualIsMine'
  BY <1>2, <1>3, StoredType DEF PunctualIsMine
<1>10. BlockedIsMuted'
  BY <1>2, <1>3, StoredType DEF BlockedIsMuted
<1>11. UnskipStands'
  BY <1>2, <1>3, StoredType DEF UnskipStands
<1>12. (listed \cup drafted \subseteq Stored)'
  BY <1>2, <1>3
<1> QED
  BY <1>4, <1>5, <1>6, <1>7, <1>8, <1>9, <1>10, <1>11, <1>12

LEMMA UnskipKeepsInv ==
  ASSUME IntakeInv, NEW m \in Messages, Unskip(m)
  PROVE  IntakeInv'
<1> USE DEF IntakeInv, Unskip
<1> DEFINE row == [rows[m] EXCEPT !.skipped = FALSE]
<1>1. /\ name' \in Names
      /\ TextsTellUsApart => name' \in {User, Placeholder}
  BY NameStep
<1>2. /\ rows' \in [Messages -> Rows \cup {NoRow}]
      /\ Stored' = Stored
      /\ rows'[m].mine = rows[m].mine /\ rows'[m].skipped = FALSE /\ rows'[m].sender = rows[m].sender
      /\ \A k \in Messages : k # m => rows'[k] = rows[k]
  BY SkipWrite
<1>3. UNCHANGED <<age, old, sent, ringVars, work, known, self, mentionOnly, listed, drafted,
                  tickHistory, punctual, unjudged, faults>>
  BY DEF chatVars, agentVars
<1>4. TypeOK'
  BY <1>1, <1>2, <1>3 DEF TypeOK, Change, ringVars, tickHistory
<1>5. CatchUpInv'
  BY <1>2, <1>3, CatchUpFrame DEF ringVars, tickHistory
<1>6. JobsInOrder'
  BY <1>3, JobsFrame
<1>7. OnlyTheUserIsUs'
  BY <1>1, <1>2, <1>3, StoredType DEF OnlyTheUserIsUs
<1>8. RowsAreHonest'
  BY <1>2, <1>3, StoredType DEF RowsAreHonest, Honest
<1>9. PunctualIsMine'
  BY <1>2, <1>3, StoredType DEF PunctualIsMine
<1>10. BlockedIsMuted'
  BY <1>2, <1>3, StoredType DEF BlockedIsMuted
<1>11. UnskipStands'
  BY <1>2, <1>3, StoredType DEF UnskipStands
<1>12. (listed \cup drafted \subseteq Stored)'
  BY <1>2, <1>3
<1> QED
  BY <1>4, <1>5, <1>6, <1>7, <1>8, <1>9, <1>10, <1>11, <1>12

LEMMA SyncInsertKeepsInv ==
  ASSUME IntakeInv, NEW m \in Messages, SyncInsert(m)
  PROVE  IntakeInv'
<1> USE DEF IntakeInv, SyncInsert
<1>1. /\ name' \in Names
      /\ TextsTellUsApart => name' \in {User, Placeholder}
  BY NameStep
<1>2. PICK row \in Rows : /\ row = Row(FALSE, FALSE, Author[m])
                          /\ ~row.mine /\ ~row.skipped /\ row.sender = Author[m]
  <2>1. Author[m] \in Names \cup {Blank}
    BY DEF Names
  <2>2. Row(FALSE, FALSE, Author[m]) \in Rows
    BY <2>1, RowType
  <2> QED
    BY <2>2 DEF Row
<1>3. /\ rows' \in [Messages -> Rows \cup {NoRow}]
      /\ Stored' = Stored \cup {m}
      /\ rows'[m] = row
      /\ \A k \in Messages : k # m => rows'[k] = rows[k]
  BY <1>2, RowWrite
<1>4. UNCHANGED <<age, old, sent, ringVars, work, known, self, mentionOnly, listed, drafted,
                  tickHistory, punctual, freed, rescued, unjudged, faults>>
  BY DEF chatVars, agentVars, skipHistory
<1>5. TypeOK'
  <2>1. changes' \in Nat
    BY DEF TypeOK, Change
  <2> HIDE DEF SyncInsert
  <2> QED
    BY <1>1, <1>3, <1>4, <2>1 DEF TypeOK, ringVars, tickHistory
<1>6. CatchUpInv'
  BY <1>3, <1>4, CatchUpFrame DEF ringVars, tickHistory
<1>7. JobsInOrder'
  BY <1>4, JobsFrame
<1>8. OnlyTheUserIsUs'
  BY <1>1, <1>2, <1>3, <1>4, StoredType DEF OnlyTheUserIsUs
<1>9. RowsAreHonest'
  <2>1. Honest(m, row)
    BY <1>2 DEF Honest
  <2> HIDE DEF SyncInsert
  <2> QED
    BY <1>3, <1>4, <2>1, StoredType DEF RowsAreHonest, Honest
<1>10. PunctualIsMine'
  BY <1>3, <1>4, StoredType DEF PunctualIsMine
<1>11. BlockedIsMuted'
  BY <1>3, <1>4, StoredType DEF BlockedIsMuted
<1>12. UnskipStands'
  BY <1>3, <1>4, StoredType DEF UnskipStands
<1>13. (listed \cup drafted \subseteq Stored)'
  BY <1>3, <1>4
<1> QED
  BY <1>5, <1>6, <1>7, <1>8, <1>9, <1>10, <1>11, <1>12, <1>13

-----------------------------------------------------------------------------
(* The ring, the readers and the ticker                                    *)

\* A job between two messages puts no row in anybody's hand.
LEMMA EmptyHanded ==
  ASSUME IntakeInv, NEW a \in Actors, NEW job \in JobRecords,
         work' = [work EXCEPT ![a] = job],
         job.pc # "insert", job.msg = None, job.kind = "search" => job.todo \subseteq ByUser,
         UNCHANGED <<sent, rows, listed, drafted, punctual, freed, rescued, unjudged>>
  PROVE  /\ JobsInOrder'
         /\ RowsAreHonest'
         /\ PunctualIsMine'
         /\ BlockedIsMuted'
         /\ UnskipStands'
         /\ (listed \cup drafted \subseteq Stored)'
<1> USE DEF IntakeInv
<1>1. /\ work'[a] = job
      /\ \A b \in Actors : b # a => work'[b] = work[b]
  BY JobWrite
<1>2. Stored' = Stored
  BY DEF Stored
<1>3. JobsInOrder'
  BY <1>1 DEF JobsInOrder
<1>4. RowsAreHonest'
  BY <1>1, <1>2 DEF RowsAreHonest, Honest
<1>5. PunctualIsMine'
  <2>1. None \notin punctual
    BY DEF TypeOK
  <2> QED
    BY <1>1, <1>2, <2>1 DEF PunctualIsMine
<1>6. BlockedIsMuted'
  BY <1>1, <1>2 DEF BlockedIsMuted
<1>7. UnskipStands'
  BY <1>2 DEF UnskipStands
<1> QED
  BY <1>2, <1>3, <1>4, <1>5, <1>6, <1>7

LEMMA EnterKeepsInv ==
  ASSUME IntakeInv, NEW t \in Tabs, Enter(t)
  PROVE  IntakeInv'
<1> USE DEF IntakeInv, Enter
<1>1. t \in Actors /\ t # Ticker
  BY DEF Actors
<1>2. PICK job \in JobRecords : /\ job = [work[t] EXCEPT !.pc = "judge"]
                                /\ job.pc = "judge" /\ job.msg = work[t].msg
                                /\ job.kind = work[t].kind /\ job.todo = work[t].todo
  <2>1. work[t] \in JobRecords
    BY <1>1 DEF TypeOK
  <2> DEFINE job == [work[t] EXCEPT !.pc = "judge"]
  <2>2. job \in JobRecords
    BY <2>1 DEF JobRecords
  <2>3. /\ job.pc = "judge" /\ job.msg = work[t].msg
        /\ job.kind = work[t].kind /\ job.todo = work[t].todo
    BY <2>1 DEF JobRecords
  <2> QED
    BY <2>2, <2>3
<1>3. work' = [work EXCEPT ![t] = job]
  BY <1>1, <1>2 DEF TypeOK
<1>4. /\ work' \in [Actors -> JobRecords]
      /\ work'[Ticker] = work[Ticker]
  BY <1>1, <1>3, JobWrite DEF Actors
<1>5. UNCHANGED <<chatVars, ringVars, rows, selfVars, mentionOnly, agentVars, tickHistory,
                  punctual, skipHistory, changes, faults>>
  OBVIOUS
<1>6. TypeOK'
  BY <1>4, <1>5 DEF TypeOK, chatVars, ringVars, selfVars, agentVars, tickHistory, skipHistory
<1>7. CatchUpInv'
  BY <1>4, <1>5, CatchUpFrame DEF ringVars, tickHistory, Stored
<1>8. OnlyTheUserIsUs'
  BY <1>5, UsFrame DEF OnlyTheUserIsUs, selfVars
<1>9. work[t].msg = None /\ (work[t].kind = "search" => work[t].todo \subseteq ByUser)
  BY <1>1 DEF JobsInOrder
<1>10. /\ JobsInOrder' /\ RowsAreHonest' /\ PunctualIsMine' /\ BlockedIsMuted' /\ UnskipStands'
       /\ (listed \cup drafted \subseteq Stored)'
  <2>1. /\ job.pc # "insert" /\ job.msg = None
        /\ job.kind = "search" => job.todo \subseteq ByUser
    BY <1>2, <1>9
  <2>2. UNCHANGED <<sent, rows, listed, drafted, punctual, freed, rescued, unjudged>>
    BY <1>5 DEF chatVars, agentVars, skipHistory
  <2> HIDE DEF Enter
  <2> QED
    BY <1>1, <1>3, <2>1, <2>2, EmptyHanded
<1> QED
  BY <1>6, <1>7, <1>8, <1>10

LEMMA AbandonKeepsInv ==
  ASSUME IntakeInv, NEW t \in Tabs, Abandon(t)
  PROVE  IntakeInv'
<1> USE DEF IntakeInv, Abandon
<1>1. t \in Actors /\ t # Ticker
  BY DEF Actors
<1>2. Idle.pc = "idle" /\ Idle.msg = None /\ Idle.kind = "none"
  BY DEF Idle, Job
<1>3. /\ work' \in [Actors -> JobRecords]
      /\ work'[Ticker] = work[Ticker]
  BY <1>1, JobWrite, IdleType DEF Actors
<1>4. UNCHANGED <<chatVars, ringVars, rows, selfVars, mentionOnly, agentVars, tickHistory,
                  punctual, skipHistory, changes>>
  OBVIOUS
<1>5. TypeOK'
  BY <1>3, <1>4 DEF TypeOK, Fault, chatVars, ringVars, selfVars, agentVars, tickHistory, skipHistory
<1>6. CatchUpInv'
  BY <1>3, <1>4, CatchUpFrame DEF ringVars, tickHistory, Stored
<1>7. OnlyTheUserIsUs'
  BY <1>4, UsFrame DEF OnlyTheUserIsUs, selfVars
<1>8. /\ JobsInOrder' /\ RowsAreHonest' /\ PunctualIsMine' /\ BlockedIsMuted' /\ UnskipStands'
      /\ (listed \cup drafted \subseteq Stored)'
  BY <1>1, <1>2, <1>4, EmptyHanded, IdleType DEF chatVars, agentVars, skipHistory
<1> QED
  BY <1>5, <1>6, <1>7, <1>8

\* A restart empties every hand and forgets what was seen.
LEMMA RestartKeepsInv ==
  ASSUME IntakeInv, Restart
  PROVE  IntakeInv'
<1> USE DEF IntakeInv, Restart
<1>1. Idle.pc = "idle" /\ Idle.msg = None /\ Idle.kind = "none" /\ Idle.upto = 0
  BY DEF Idle, Job
<1>2. /\ work' \in [Actors -> JobRecords]
      /\ \A a \in Actors : work'[a] = Idle
      /\ Ticker \in Actors
  BY IdleType DEF Actors
<1>3. UNCHANGED <<age, sent, rows, known, name, mentionOnly, listed, drafted, punctual,
                  freed, rescued, unjudged, changes>>
  BY DEF agentVars, skipHistory
<1>4. Stored' = Stored
  BY <1>3 DEF Stored
<1>5. ring' = <<>> /\ Events' = {}
  BY DEF Events, Range
<1>6. TypeOK'
  BY <1>2, <1>3, <1>5 DEF TypeOK, Fault, Names
<1>7. CatchUpInv'
  BY <1>1, <1>2, <1>5
     DEF CatchUpInv, NothingPassedOver, TickIsThorough, IdsInOrder, Unread, MessagesOf
<1>8. JobsInOrder'
  BY <1>1, <1>2 DEF JobsInOrder
<1>9. OnlyTheUserIsUs'
  BY <1>3, <1>4 DEF OnlyTheUserIsUs
<1>10. RowsAreHonest'
  BY <1>1, <1>2, <1>3, <1>4 DEF RowsAreHonest, Honest
<1>11. PunctualIsMine'
  BY <1>1, <1>2, <1>3, <1>4 DEF PunctualIsMine, TypeOK
<1>12. BlockedIsMuted'
  BY <1>1, <1>2, <1>3, <1>4 DEF BlockedIsMuted
<1>13. UnskipStands' /\ (listed \cup drafted \subseteq Stored)'
  BY <1>3, <1>4 DEF UnskipStands
<1> QED
  BY <1>6, <1>7, <1>8, <1>9, <1>10, <1>11, <1>12, <1>13

LEMMA JobType ==
  ASSUME NEW pc \in {"idle", "wait", "judge", "insert"},
         NEW kind \in {"none", "topics", "frame", "search"},
         NEW todo \in SUBSET Messages, NEW msg \in Messages \cup {None},
         NEW row \in Rows \cup {NoRow}, NEW upto \in Nat
  PROVE  /\ Job(pc, kind, todo, msg, row, upto) \in JobRecords
         /\ Job(pc, kind, todo, msg, row, upto).pc = pc
         /\ Job(pc, kind, todo, msg, row, upto).kind = kind
         /\ Job(pc, kind, todo, msg, row, upto).todo = todo
         /\ Job(pc, kind, todo, msg, row, upto).msg = msg
         /\ Job(pc, kind, todo, msg, row, upto).row = row
         /\ Job(pc, kind, todo, msg, row, upto).upto = upto
  BY DEF Job, JobRecords

\* What is left of the ring when it makes room: all but the evicted event.
Kept == IF Full THEN Tail(ring) ELSE ring

LEMMA KeptEvents ==
  ASSUME TypeOK
  PROVE  /\ Kept \in Seq(EventRecords)
         /\ Range(Kept) \subseteq Events
         /\ Events \subseteq Range(Kept) \cup Evicted
<1>1. ring \in Seq(EventRecords)
  BY DEF TypeOK, EventRecords
<1>2. CASE Full
  <2>1. Len(ring) \in Nat /\ Len(ring) >= 1 /\ ring # <<>>
    BY <1>1, <1>2 DEF Full
  <2>2. PICK rest \in Seq(EventRecords) :
           /\ rest = Kept
           /\ Len(rest) = Len(ring) - 1
           /\ \A i \in 1 .. Len(rest) : rest[i] = ring[i + 1]
    <3>1. Kept = Tail(ring)
      BY <1>2 DEF Kept
    <3>2. /\ Tail(ring) \in Seq(EventRecords)
          /\ Len(Tail(ring)) = Len(ring) - 1
          /\ \A i \in 1 .. Len(Tail(ring)) : Tail(ring)[i] = ring[i + 1]
      BY <1>1, <2>1
    <3> QED
      BY <3>1, <3>2
  <2>3. /\ Range(rest) = {rest[i] : i \in 1 .. Len(rest)}
        /\ Events = {ring[i] : i \in 1 .. Len(ring)}
    BY <1>1, <2>2, RangeEquality DEF Events
  <2>4. \A i \in 1 .. Len(rest) : i + 1 \in 1 .. Len(ring)
    BY <2>1, <2>2
  <2>5. \A i \in 1 .. Len(ring) : i = 1 \/ (i - 1 \in 1 .. Len(rest) /\ ring[i] = rest[i - 1])
    BY <2>1, <2>2
  <2>6. Evicted = {ring[1]}
    BY <1>1, <1>2, <2>1 DEF Evicted
  <2> QED
    BY <2>2, <2>3, <2>4, <2>5, <2>6
<1>3. CASE ~Full
  BY <1>1, <1>3 DEF Events, Kept
<1> QED
  BY <1>2, <1>3

\* An insertion into the ring adds one event, and evicts at most the oldest.
LEMMA RecordEvents ==
  ASSUME TypeOK, NEW event \in EventRecords, ring' = Append(Kept, event)
  PROVE  /\ ring' \in Seq(EventRecords)
         /\ Events' \subseteq Events \cup {event}
         /\ event \in Events'
         /\ Events \subseteq Events' \cup Evicted
<1>1. /\ Kept \in Seq(EventRecords)
      /\ Range(Kept) \subseteq Events
      /\ Events \subseteq Range(Kept) \cup Evicted
  BY KeptEvents
<1>2. PICK kept \in Seq(EventRecords), longer \in Seq(EventRecords) :
         /\ kept = Kept /\ longer = ring'
         /\ Len(longer) = Len(kept) + 1
         /\ \A i \in 1 .. Len(kept) : longer[i] = kept[i]
         /\ longer[Len(kept) + 1] = event
  <2>1. PICK kept \in Seq(EventRecords) : kept = Kept
    BY <1>1
  <2>2. /\ Append(kept, event) \in Seq(EventRecords)
        /\ Len(Append(kept, event)) = Len(kept) + 1
        /\ \A i \in 1 .. Len(kept) : Append(kept, event)[i] = kept[i]
        /\ Append(kept, event)[Len(kept) + 1] = event
    OBVIOUS
  <2> QED
    BY <2>1, <2>2
<1>3. /\ Events' = {longer[i] : i \in 1 .. Len(longer)}
      /\ Range(Kept) = {kept[i] : i \in 1 .. Len(kept)}
      /\ Len(kept) \in Nat
  <2>1. Range(longer) = {longer[i] : i \in 1 .. Len(longer)}
    BY RangeEquality
  <2>2. Range(kept) = {kept[i] : i \in 1 .. Len(kept)}
    BY RangeEquality
  <2>3. Events' = Range(longer)
    BY <1>2 DEF Events, Range
  <2> QED
    BY <1>2, <2>1, <2>2, <2>3
<1>4. Events' = Range(Kept) \cup {event}
  <2>1. \A i \in 1 .. Len(longer) : i \in 1 .. Len(kept) \/ i = Len(kept) + 1
    BY <1>2, <1>3
  <2>2. Len(kept) + 1 \in 1 .. Len(longer) /\ \A i \in 1 .. Len(kept) : i \in 1 .. Len(longer)
    BY <1>2, <1>3
  <2> QED
    BY <1>2, <1>3, <2>1, <2>2
<1> QED
  BY <1>1, <1>2, <1>4

LEMMA ObserveKeepsInv ==
  ASSUME IntakeInv, NEW t \in Tabs, NEW kind \in EventKinds, NEW ms \in SUBSET Messages,
         Observe(t, kind, ms)
  PROVE  IntakeInv'
<1> USE DEF IntakeInv
<1> DEFINE event == Event(kind, ms)
           job == Job("wait", kind, ms, None, NoRow, 0)
<1>1. t \in Actors /\ t # Ticker
  BY DEF Actors
<1>2. /\ event \in EventRecords /\ event.id = nextID + 1
      /\ event.msgs = IF kind = "topics" THEN ms ELSE {}
  BY DEF Event, EventRecords, TypeOK
<1>3. /\ ms # {}
      /\ kind = "search" => ms \subseteq ByUser
      /\ ring' = Append(Kept, event)
      /\ nextID' = nextID + 1
      /\ seen' = IF kind = "topics" THEN seen \cup ms ELSE seen
      /\ dropped' = dropped \cup MessagesOf(Evicted)
      /\ work' = [work EXCEPT ![t] = job]
      /\ RequireLocalUser
  BY DEF Observe, Record, Kept
<1>4. UNCHANGED <<age, old, sent, cursor, rows, known, self, mentionOnly, listed, drafted,
                  punctual, freed, rescued, unjudged, changes, faults>>
  BY DEF Observe, chatVars, agentVars, skipHistory
<1>5. /\ job \in JobRecords /\ job.pc = "wait" /\ job.msg = None
      /\ job.kind = kind /\ job.todo = ms
  <2>1. kind \in {"none", "topics", "frame", "search"}
    BY KindsAssumption
  <2> QED
    BY <2>1, JobType
<1>6. /\ work' \in [Actors -> JobRecords]
      /\ work'[Ticker] = work[Ticker]
  <2> HIDE DEF job
  <2> QED
    BY <1>1, <1>3, <1>5, JobWrite DEF Actors
<1>7. /\ name' \in Names
      /\ TextsTellUsApart => name' \in {User, Placeholder}
  BY <1>3, NameStep
<1> HIDE DEF event, job
<1>8. /\ ring' \in Seq(EventRecords)
      /\ Events' \subseteq Events \cup {event}
      /\ event \in Events'
      /\ Events \subseteq Events' \cup Evicted
  BY <1>2, <1>3, RecordEvents
<1>9. MessagesOf(Evicted) \subseteq Messages
  <2>1. Evicted \subseteq EventRecords
    <3>1. ring \in Seq(EventRecords)
      BY DEF TypeOK, EventRecords
    <3> QED
      BY <3>1 DEF Evicted, Full
  <2> QED
    BY <2>1 DEF MessagesOf, EventRecords
<1>10. TypeOK'
  BY <1>3, <1>4, <1>6, <1>7, <1>8, <1>9 DEF TypeOK, EventRecords
<1>11. Stored' = Stored
  BY <1>4 DEF Stored
<1>12. CatchUpInv'
  <2> USE DEF CatchUpInv
  <2>1. /\ nextID \in Nat /\ cursor \in Nat
        /\ work[Ticker].upto \in Nat
        /\ \A e \in Events : e.id \in Nat
    BY EventType DEF TypeOK, JobRecords, Actors, EventRecords
  <2>2. NothingPassedOver'
    <3>1. \A e \in Unread : e \in Unread' \/ e.msgs \subseteq dropped'
      BY <1>3, <1>4, <1>8 DEF Unread, MessagesOf
    <3>2. kind = "topics" => event \in Unread' /\ event.msgs = ms
      BY <1>2, <1>3, <1>4, <1>8, <2>1 DEF Unread, IdsInOrder
    <3> QED
      BY <1>3, <1>11, <3>1, <3>2 DEF NothingPassedOver, MessagesOf
  <2>3. TickIsThorough'
    <3>1. \A e \in Unread' : e.id <= work[Ticker].upto => e \in Unread
      BY <1>2, <1>4, <1>8, <2>1 DEF Unread, IdsInOrder
    <3> QED
      BY <1>3, <1>6, <1>11, <3>1 DEF TickIsThorough, MessagesOf
  <2>4. IdsInOrder'
    <3>1. \A e \in Events' : e.id <= nextID'
      <4>1. \A e \in Events : e.id <= nextID'
        BY <1>3, <2>1 DEF IdsInOrder
      <4>2. event.id <= nextID'
        BY <1>2, <1>3, <2>1
      <4> QED
        BY <1>8, <4>1, <4>2
    <3>2. cursor' <= nextID' /\ work'[Ticker].upto <= nextID'
      BY <1>3, <1>4, <1>6, <2>1 DEF IdsInOrder
    <3> QED
      BY <3>1, <3>2 DEF IdsInOrder
  <2> QED
    BY <2>2, <2>3, <2>4
<1>13. OnlyTheUserIsUs'
  BY <1>4, <1>7, UsFrame
<1>14. /\ JobsInOrder' /\ RowsAreHonest' /\ PunctualIsMine' /\ BlockedIsMuted' /\ UnskipStands'
       /\ (listed \cup drafted \subseteq Stored)'
  BY <1>1, <1>3, <1>4, <1>5, EmptyHanded
<1> QED
  BY <1>10, <1>12, <1>13, <1>14

-----------------------------------------------------------------------------
(* The ticker                                                              *)

LEMMA UnreadType ==
  ASSUME TypeOK
  PROVE  /\ IsFiniteSet(Unread)
         /\ Unread \subseteq EventRecords
         /\ \A e \in Unread : e.id \in Nat /\ e.msgs \subseteq Messages
<1>1. ring \in Seq(EventRecords)
  BY DEF TypeOK, EventRecords
<1>2. Len(ring) \in Nat /\ Events = {ring[i] : i \in 1 .. Len(ring)}
  BY <1>1, RangeEquality DEF Events
<1>3. IsFiniteSet(1 .. Len(ring))
  BY <1>2, FS_Interval
<1>4. ring \in Surjection(1 .. Len(ring), Events)
  <2>1. ring \in [1 .. Len(ring) -> Events]
    BY <1>1, <1>2
  <2>2. \A e \in Events : \E i \in 1 .. Len(ring) : ring[i] = e
    BY <1>2
  <2> QED
    BY <2>1, <2>2, Fun_IsSurj
<1>5. IsFiniteSet(Events)
  BY <1>3, <1>4, FS_Surjection
<1>6. Unread \subseteq Events
  BY DEF Unread
<1>7. IsFiniteSet(Unread)
  BY <1>5, <1>6, FS_Subset
<1> QED
  BY <1>6, <1>7, EventType DEF EventRecords

\* A batch takes the unread events in order: up to its last one, it holds them all.
LEMMA BatchIsAPrefix ==
  ASSUME TypeOK, NEW last \in Batch, NEW e \in Unread, e.id <= last.id
  PROVE  e \in Batch
<1> DEFINE before(x) == {f \in Unread : f.id < x.id}
<1>1. last \in Unread /\ Cardinality(before(last)) < BatchSize
  BY DEF Batch
<1>2. e.id \in Nat /\ last.id \in Nat /\ \A f \in Unread : f.id \in Nat
  BY <1>1, UnreadType
<1>3. before(e) \subseteq before(last)
  BY <1>2
<1>4. IsFiniteSet(before(last))
  <2>1. before(last) \subseteq Unread
    OBVIOUS
  <2> QED
    BY <2>1, UnreadType, FS_Subset
<1>5. /\ IsFiniteSet(before(e)) /\ Cardinality(before(e)) <= Cardinality(before(last))
      /\ Cardinality(before(e)) \in Nat /\ Cardinality(before(last)) \in Nat
  BY <1>3, <1>4, FS_Subset, FS_CardinalityType
<1>6. Cardinality(before(e)) < BatchSize
  BY <1>1, <1>5
<1> QED
  BY <1>6 DEF Batch

\* The cursor will move to the last event of the batch, all of which is to be judged.
LEMMA TickKeepsInv ==
  ASSUME IntakeInv, Tick
  PROVE  IntakeInv'
<1> USE DEF IntakeInv
<1>1. Ticker \in Actors
  BY DEF Actors
<1>2. PICK last \in Batch :
         work' = [work EXCEPT ![Ticker] =
                    Job("judge", "topics", MessagesOf(Batch), None, NoRow, last.id)]
  BY DEF Tick
<1>3. UNCHANGED <<chatVars, ringVars, rows, selfVars, mentionOnly, agentVars, tickHistory,
                  punctual, skipHistory, changes, faults>>
  BY DEF Tick
<1>4. last \in Unread /\ last.id \in Nat /\ last.id <= nextID
  BY UnreadType DEF Batch, Unread, CatchUpInv, IdsInOrder
<1>5. MessagesOf(Batch) \subseteq Messages
  <2>1. Batch \subseteq Unread
    BY DEF Batch
  <2>2. \A e \in Batch : e.msgs \subseteq Messages
    BY <2>1, UnreadType
  <2> QED
    BY <2>2 DEF MessagesOf
<1> DEFINE job == Job("judge", "topics", MessagesOf(Batch), None, NoRow, last.id)
<1>6. /\ job \in JobRecords /\ job.pc = "judge" /\ job.kind = "topics" /\ job.msg = None
      /\ job.todo = MessagesOf(Batch) /\ job.upto = last.id
  BY <1>4, <1>5, JobType
<1>7. work' = [work EXCEPT ![Ticker] = job]
  BY <1>2
<1> HIDE DEF job
<1>8. work' \in [Actors -> JobRecords] /\ work'[Ticker] = job
  BY <1>1, <1>6, <1>7, JobWrite
<1>9. TypeOK'
  BY <1>3, <1>8 DEF TypeOK, chatVars, ringVars, selfVars, agentVars, tickHistory, skipHistory
<1>10. CatchUpInv'
  <2>1. Unread' = Unread /\ Stored' = Stored /\ Events' = Events
    BY <1>3 DEF Unread, Stored, Events, ringVars
  <2>2. NothingPassedOver'
    BY <1>3, <2>1 DEF CatchUpInv, NothingPassedOver, MessagesOf, tickHistory
  <2>3. TickIsThorough'
    <3>1. {e \in Unread : e.id <= last.id} \subseteq Batch
      BY BatchIsAPrefix
    <3> QED
      BY <1>6, <1>8, <2>1, <3>1 DEF TickIsThorough, MessagesOf
  <2>4. IdsInOrder'
    BY <1>3, <1>4, <1>6, <1>8, <2>1 DEF CatchUpInv, IdsInOrder, ringVars
  <2> QED
    BY <2>2, <2>3, <2>4 DEF CatchUpInv
<1>11. OnlyTheUserIsUs'
  BY <1>3, UsFrame DEF OnlyTheUserIsUs, selfVars
<1>12. /\ JobsInOrder' /\ RowsAreHonest' /\ PunctualIsMine' /\ BlockedIsMuted' /\ UnskipStands'
       /\ (listed \cup drafted \subseteq Stored)'
  BY <1>1, <1>3, <1>6, <1>7, EmptyHanded DEF chatVars, agentVars, skipHistory
<1> QED
  BY <1>9, <1>10, <1>11, <1>12

\* When nothing is left to judge, what the cursor passes is stored or given up.
LEMMA DoneKeepsInv ==
  ASSUME IntakeInv, NEW a \in Actors, Done(a)
  PROVE  IntakeInv'
<1> USE DEF IntakeInv
<1>1. Idle.pc = "idle" /\ Idle.msg = None /\ Idle.kind = "none" /\ Idle.upto = 0
  BY DEF Idle, Job
<1>2. /\ work[a].pc = "judge" /\ work[a].todo = {}
      /\ cursor' = IF a = Ticker THEN work[a].upto ELSE cursor
      /\ work' = [work EXCEPT ![a] = Idle]
  BY DEF Done
<1>3. UNCHANGED <<chatVars, ring, nextID, rows, selfVars, mentionOnly, agentVars, tickHistory,
                  punctual, skipHistory, changes, faults>>
  BY DEF Done
<1>4. /\ work' \in [Actors -> JobRecords] /\ work'[a] = Idle
      /\ \A b \in Actors : b # a => work'[b] = work[b]
  BY <1>2, JobWrite, IdleType
<1>5. work[a].upto \in Nat /\ cursor \in Nat /\ nextID \in Nat /\ Ticker \in Actors
  BY DEF TypeOK, JobRecords, Actors
<1>6. TypeOK'
  BY <1>2, <1>3, <1>4, <1>5
     DEF TypeOK, chatVars, selfVars, agentVars, tickHistory, skipHistory
<1>7. CatchUpInv'
  <2>1. CASE a # Ticker
    BY <1>2, <1>3, <1>4, <1>5, <2>1, CatchUpFrame DEF tickHistory, Stored
  <2>2. CASE a = Ticker
    <3>1. Stored' = Stored /\ Events' = Events /\ cursor' = work[Ticker].upto
      BY <1>2, <1>3, <2>2 DEF Stored, Events
    <3>2. work[Ticker].msg = None
      BY <1>2, <2>2 DEF JobsInOrder
    <3>3. \A e \in Unread : e.id \in Nat /\ e.msgs \subseteq Messages
      BY UnreadType
    <3>4. \A e \in Unread : e \in Unread' \/ e.msgs \subseteq Stored \cup dropped
      <4>1. SUFFICES ASSUME NEW e \in Unread, e \notin Unread'
                     PROVE  e.msgs \subseteq Stored \cup dropped
        OBVIOUS
      <4>2. e.id <= work[Ticker].upto
        BY <1>5, <2>2, <3>1, <3>3, <4>1 DEF Unread
      <4>3. e.msgs \subseteq Stored \cup dropped \cup {None}
        BY <1>2, <2>2, <3>2, <4>2 DEF CatchUpInv, TickIsThorough, MessagesOf
      <4> QED
        BY <3>3, <4>3
    <3>5. NothingPassedOver'
      BY <1>3, <3>1, <3>4 DEF CatchUpInv, NothingPassedOver, MessagesOf, tickHistory
    <3>6. {e \in Unread' : e.id <= 0} = {}
      BY <1>5, <2>2, <3>1, EventType DEF Unread, EventRecords
    <3>7. TickIsThorough'
      BY <1>1, <1>4, <2>2, <3>6 DEF TickIsThorough, MessagesOf
    <3>8. IdsInOrder'
      BY <1>1, <1>3, <1>4, <1>5, <2>2, <3>1 DEF CatchUpInv, IdsInOrder
    <3> QED
      BY <3>5, <3>7, <3>8 DEF CatchUpInv
  <2> QED
    BY <2>1, <2>2
<1>8. OnlyTheUserIsUs'
  BY <1>3, UsFrame DEF OnlyTheUserIsUs, selfVars
<1>9. /\ JobsInOrder' /\ RowsAreHonest' /\ PunctualIsMine' /\ BlockedIsMuted' /\ UnskipStands'
      /\ (listed \cup drafted \subseteq Stored)'
  BY <1>1, <1>2, <1>3, IdleType, EmptyHanded DEF chatVars, agentVars, skipHistory
<1> QED
  BY <1>6, <1>7, <1>8, <1>9

-----------------------------------------------------------------------------
(* Judging and inserting                                                   *)

\* A job that changes some fields is a job.
LEMMA TodoWrite ==
  ASSUME TypeOK, NEW a \in Actors, NEW m \in Messages, work' = [work EXCEPT ![a].todo = @ \ {m}]
  PROVE  \E job \in JobRecords :
            /\ work' = [work EXCEPT ![a] = job]
            /\ job.todo = work[a].todo \ {m}
            /\ job.pc = work[a].pc /\ job.kind = work[a].kind /\ job.msg = work[a].msg
            /\ job.row = work[a].row /\ job.upto = work[a].upto
<1>1. work[a] \in JobRecords
  BY DEF TypeOK
<1> DEFINE job == [work[a] EXCEPT !.todo = @ \ {m}]
<1>2. job \in JobRecords
  BY <1>1 DEF JobRecords
<1>3. /\ job.todo = work[a].todo \ {m}
      /\ job.pc = work[a].pc /\ job.kind = work[a].kind /\ job.msg = work[a].msg
      /\ job.row = work[a].row /\ job.upto = work[a].upto
  BY <1>1 DEF JobRecords
<1>4. work' = [work EXCEPT ![a] = job]
  BY DEF TypeOK
<1> QED
  BY <1>2, <1>3, <1>4

LEMMA ResumeWrite ==
  ASSUME TypeOK, NEW a \in Actors, Resume(a)
  PROVE  \E job \in JobRecords :
            /\ work' = [work EXCEPT ![a] = job]
            /\ job.pc = "judge" /\ job.msg = None
            /\ job.todo = work[a].todo /\ job.kind = work[a].kind /\ job.upto = work[a].upto
<1>1. work[a] \in JobRecords
  BY DEF TypeOK
<1> DEFINE job == [work[a] EXCEPT !.pc = "judge", !.msg = None, !.row = NoRow]
<1>2. job \in JobRecords
  BY <1>1 DEF JobRecords
<1>3. /\ job.pc = "judge" /\ job.msg = None
      /\ job.todo = work[a].todo /\ job.kind = work[a].kind /\ job.upto = work[a].upto
  BY <1>1 DEF JobRecords
<1>4. work' = [work EXCEPT ![a] = job]
  BY DEF TypeOK, Resume
<1> QED
  BY <1>2, <1>3, <1>4

\* The message a job gives up, or has stored, is no longer on the ticker's hands.
LEMMA DropStaleKeepsInv ==
  ASSUME IntakeInv, NEW a \in Actors, NEW m \in Messages, DropStale(a, m)
  PROVE  IntakeInv'
<1> USE DEF IntakeInv
<1>1. /\ work[a].pc = "judge"
      /\ work' = [work EXCEPT ![a].todo = @ \ {m}]
      /\ dropped' = IF a = Ticker THEN dropped \cup {m} ELSE dropped
  BY DEF DropStale, GivenUp
<1>2. UNCHANGED <<chatVars, ringVars, rows, selfVars, mentionOnly, agentVars, seen, punctual,
                  skipHistory, changes, faults>>
  BY DEF DropStale
<1>3. PICK job \in JobRecords :
         /\ work' = [work EXCEPT ![a] = job]
         /\ job.todo = work[a].todo \ {m}
         /\ job.pc = work[a].pc /\ job.kind = work[a].kind /\ job.msg = work[a].msg
         /\ job.row = work[a].row /\ job.upto = work[a].upto
  BY <1>1, TodoWrite
<1>4. /\ work' \in [Actors -> JobRecords] /\ work'[a] = job
      /\ \A b \in Actors : b # a => work'[b] = work[b]
  BY <1>3, JobWrite
<1>5. TypeOK'
  BY <1>1, <1>2, <1>4 DEF TypeOK, chatVars, ringVars, selfVars, agentVars, skipHistory
<1>6. CatchUpInv'
  <2>1. Stored' = Stored /\ Ticker \in Actors
    BY <1>2 DEF Stored, Actors
  <2> QED
    BY <1>1, <1>2, <1>3, <1>4, <2>1, CatchUpFrame DEF ringVars
<1>7. OnlyTheUserIsUs'
  BY <1>2, UsFrame DEF OnlyTheUserIsUs, selfVars
<1>8. job.msg = None /\ (job.kind = "search" => job.todo \subseteq ByUser)
  BY <1>1, <1>3 DEF JobsInOrder
<1>9. /\ JobsInOrder' /\ RowsAreHonest' /\ PunctualIsMine' /\ BlockedIsMuted' /\ UnskipStands'
      /\ (listed \cup drafted \subseteq Stored)'
  BY <1>1, <1>2, <1>3, <1>8, EmptyHanded DEF chatVars, agentVars, skipHistory
<1> QED
  BY <1>5, <1>6, <1>7, <1>9

LEMMA FailInsertKeepsInv ==
  ASSUME IntakeInv, NEW a \in Actors, FailInsert(a)
  PROVE  IntakeInv'
<1> USE DEF IntakeInv
<1>1. /\ work[a].pc = "insert"
      /\ Resume(a)
      /\ dropped' = IF a = Ticker THEN dropped \cup {work[a].msg} ELSE dropped
      /\ faults' = faults + 1
  BY DEF FailInsert, GivenUp, Fault
<1>2. UNCHANGED <<chatVars, ringVars, rows, selfVars, mentionOnly, agentVars, seen, punctual,
                  skipHistory, changes>>
  BY DEF FailInsert
<1>3. PICK job \in JobRecords :
         /\ work' = [work EXCEPT ![a] = job]
         /\ job.pc = "judge" /\ job.msg = None
         /\ job.todo = work[a].todo /\ job.kind = work[a].kind /\ job.upto = work[a].upto
  BY <1>1, ResumeWrite
<1>4. /\ work' \in [Actors -> JobRecords] /\ work'[a] = job
      /\ \A b \in Actors : b # a => work'[b] = work[b]
  BY <1>3, JobWrite
<1>5. /\ work[a].msg \in Messages
      /\ job.kind = "search" => job.todo \subseteq ByUser
  BY <1>1, <1>3 DEF JobsInOrder
<1>6. TypeOK'
  BY <1>1, <1>2, <1>4, <1>5 DEF TypeOK, chatVars, ringVars, selfVars, agentVars, skipHistory
<1>7. CatchUpInv'
  <2>1. Stored' = Stored /\ Ticker \in Actors
    BY <1>2 DEF Stored, Actors
  <2> QED
    BY <1>1, <1>2, <1>3, <1>4, <2>1, CatchUpFrame DEF ringVars
<1>8. OnlyTheUserIsUs'
  BY <1>2, UsFrame DEF OnlyTheUserIsUs, selfVars
<1>9. /\ JobsInOrder' /\ RowsAreHonest' /\ PunctualIsMine' /\ BlockedIsMuted' /\ UnskipStands'
      /\ (listed \cup drafted \subseteq Stored)'
  BY <1>2, <1>3, <1>5, EmptyHanded DEF chatVars, agentVars, skipHistory
<1> QED
  BY <1>6, <1>7, <1>8, <1>9

\* Texts tell us apart: who looks like us is us, and so is who echoes us.
LEMMA MineIsOurs ==
  ASSUME TypeOK, OnlyTheUserIsUs, RowsAreHonest, TextsTellUsApart,
         NEW a \in Actors, NEW m \in Messages, NEW echoes \in BOOLEAN, echoes => EchoesUs(m),
         IsMine(a, m, echoes)
  PROVE  Author[m] = User
<1>1. CASE LooksOurs(a, m)
  <2>1. Author[m] \in {None, User, Placeholder} /\ Author[m] \in People
    BY <1>1 DEF LooksOurs, OnlyTheUserIsUs
  <2> QED
    BY <2>1
<1>2. CASE echoes
  BY <1>2 DEF EchoesUs, RowsAreHonest, TextsTellUsApart
<1> QED
  BY <1>1, <1>2 DEF IsMine

\* A judged message is in the hand of its actor with an honest row; an echo is ours,
\* and a blocked message muted, unless a check has failed.
LEMMA JudgeByKeepsInv ==
  ASSUME IntakeInv, NEW a \in Actors, NEW m \in Messages,
         NEW echoes \in BOOLEAN, NEW muted \in BOOLEAN, JudgeBy(a, m, echoes, muted),
         echoes => EchoesUs(m),
         faults' \in Nat, unjudged \subseteq unjudged', unjudged' \subseteq Messages,
         (EchoesUs(m) => echoes) \/ m \in unjudged', (Muted(m) => muted) \/ m \in unjudged'
  PROVE  IntakeInv'
<1> USE DEF IntakeInv
<1>1. /\ work[a].pc = "judge" /\ m \in work[a].todo /\ work[a].kind \in {"topics", "frame"}
      /\ known' = IF Named(a, m) THEN known \cup {Author[m]} ELSE known
      /\ LearnName(a, m, echoes)
  BY DEF JudgeBy
<1>2. UNCHANGED <<chatVars, ringVars, rows, mentionOnly, agentVars, tickHistory, punctual,
                  freed, rescued, changes>>
  BY DEF JudgeBy
<1>3. work[a] \in JobRecords /\ m \notin {None} /\ Author[m] \in Names
  BY DEF TypeOK, Names
<1>4. PICK row \in Rows : /\ row = Row(IsMine(a, m, echoes), IsMine(a, m, echoes) \/ muted,
                                       IF Named(a, m) THEN Author[m] ELSE Blank)
                          /\ row.mine = IsMine(a, m, echoes)
                          /\ row.skipped = (IsMine(a, m, echoes) \/ muted)
                          /\ row.sender \in {Author[m], Blank}
  <2> DEFINE mine == IsMine(a, m, echoes)
             skipped == IsMine(a, m, echoes) \/ muted
             sender == IF Named(a, m) THEN Author[m] ELSE Blank
  <2>1. mine \in BOOLEAN
    BY DEF IsMine, LooksOurs, Named
  <2>2. skipped \in BOOLEAN
    BY DEF IsMine, LooksOurs, Named
  <2>3. sender \in Names \cup {Blank} /\ sender \in {Author[m], Blank}
    BY <1>3
  <2> HIDE DEF mine, skipped, sender
  <2>4. /\ Row(mine, skipped, sender) \in Rows
        /\ Row(mine, skipped, sender).mine = mine
        /\ Row(mine, skipped, sender).skipped = skipped
        /\ Row(mine, skipped, sender).sender = sender
    BY <2>1, <2>2, <2>3, RowType DEF Row
  <2> QED
    BY <2>3, <2>4 DEF mine, skipped, sender
<1>5. PICK job \in JobRecords :
         /\ work' = [work EXCEPT ![a] = job]
         /\ job.pc = "insert" /\ job.todo = work[a].todo \ {m} /\ job.msg = m
         /\ job.row = row /\ job.kind = work[a].kind /\ job.upto = work[a].upto
  <2> DEFINE job == [work[a] EXCEPT !.pc = "insert", !.todo = @ \ {m}, !.msg = m, !.row = row]
  <2>1. job \in JobRecords
    BY <1>3 DEF JobRecords
  <2>2. /\ job.pc = "insert" /\ job.todo = work[a].todo \ {m} /\ job.msg = m
        /\ job.row = row /\ job.kind = work[a].kind /\ job.upto = work[a].upto
    BY <1>3 DEF JobRecords
  <2>3. work' = [work EXCEPT ![a].pc = "insert", ![a].todo = @ \ {m}, ![a].msg = m,
                             ![a].row = row]
    BY <1>4 DEF JudgeBy
  <2>4. work' = [work EXCEPT ![a] = job]
    BY <2>3 DEF TypeOK
  <2> QED
    BY <2>1, <2>2, <2>4
<1>6. /\ work' \in [Actors -> JobRecords] /\ work'[a] = job
      /\ \A b \in Actors : b # a => work'[b] = work[b]
  BY <1>5, JobWrite
<1>7. Stored' = Stored
  BY <1>2 DEF Stored
<1>8. /\ self' \in Names /\ name' \in Names
      /\ self' = self \/ (self' = Author[m] /\ IsMine(a, m, echoes))
      /\ name' = name \/ (name' = Author[m] /\ IsMine(a, m, echoes))
  BY <1>1, <1>3 DEF LearnName, Learns, IsMine, TypeOK
<1>9. TypeOK'
  BY <1>1, <1>2, <1>6, <1>8 DEF TypeOK, chatVars, ringVars, agentVars, tickHistory
<1>10. CatchUpInv'
  <2>1. work[a].msg = None /\ Ticker \in Actors
    BY <1>1 DEF JobsInOrder, Actors
  <2>2. work'[Ticker].upto = work[Ticker].upto
    BY <1>5, <1>6, <2>1
  <2>3. Messages \cap (work[Ticker].todo \cup {work[Ticker].msg})
           \subseteq work'[Ticker].todo \cup {work'[Ticker].msg}
    BY <1>5, <1>6, <2>1
  <2> QED
    BY <1>2, <1>7, <2>2, <2>3, CatchUpFrame DEF ringVars, tickHistory
<1>11. JobsInOrder'
  BY <1>1, <1>5, <1>6 DEF JobsInOrder
<1>12. OnlyTheUserIsUs'
  BY <1>2, <1>7, <1>8, MineIsOurs DEF OnlyTheUserIsUs
<1>13. RowsAreHonest'
  <2>1. TextsTellUsApart => Honest(m, row)
    BY <1>4, MineIsOurs DEF Honest
  <2> QED
    BY <1>2, <1>5, <1>6, <1>7, <2>1 DEF RowsAreHonest, Honest, chatVars
<1>14. PunctualIsMine'
  <2>1. m \in punctual \ SyncKeys => row.mine \/ m \in unjudged'
    BY <1>4 DEF PunctualIsMine, IsMine, EchoesUs
  <2> QED
    BY <1>2, <1>5, <1>6, <1>7, <2>1 DEF PunctualIsMine, chatVars, agentVars
<1>15. BlockedIsMuted'
  <2>1. m \in Blocked => row.skipped \/ m \in unjudged'
    BY <1>4 DEF Muted
  <2> QED
    BY <1>2, <1>5, <1>6, <1>7, <2>1 DEF BlockedIsMuted, agentVars
<1>16. UnskipStands' /\ (listed \cup drafted \subseteq Stored)'
  BY <1>2, <1>7 DEF UnskipStands, agentVars
<1> QED
  BY <1>9, <1>10, <1>11, <1>12, <1>13, <1>14, <1>15, <1>16

LEMMA JudgeKeepsInv ==
  ASSUME IntakeInv, NEW a \in Actors, NEW m \in Messages, Judge(a, m)
  PROVE  IntakeInv'
<1>1. EchoesUs(m) \in BOOLEAN /\ Muted(m) \in BOOLEAN
  BY DEF EchoesUs, Muted, IntakeInv, TypeOK
<1>2. PICK echoes \in BOOLEAN, muted \in BOOLEAN : echoes = EchoesUs(m) /\ muted = Muted(m)
  BY <1>1
<1>3. JudgeBy(a, m, echoes, muted) /\ UNCHANGED <<unjudged, faults>>
  BY <1>2 DEF Judge
<1>4. unjudged' \subseteq Messages /\ faults' \in Nat
  BY <1>3 DEF IntakeInv, TypeOK
<1> QED
  BY <1>2, <1>3, <1>4, JudgeByKeepsInv

LEMMA MisjudgeKeepsInv ==
  ASSUME IntakeInv, NEW a \in Actors, NEW m \in Messages, Misjudge(a, m)
  PROVE  IntakeInv'
<1>1. EchoesUs(m) \in BOOLEAN /\ Muted(m) \in BOOLEAN
  BY DEF EchoesUs, Muted, IntakeInv, TypeOK
<1>2. PICK echoes \in BOOLEAN, muted \in BOOLEAN : echoes = EchoesUs(m) /\ muted = Muted(m)
  BY <1>1
<1>3. unjudged' = unjudged \cup {m} /\ unjudged' \subseteq Messages /\ faults' \in Nat
  BY DEF Misjudge, Fault, IntakeInv, TypeOK
<1>4. PICK no \in BOOLEAN : no = FALSE
  OBVIOUS
<1>5. JudgeBy(a, m, no, muted) \/ JudgeBy(a, m, echoes, no)
  BY <1>2, <1>4 DEF Misjudge
<1>6. unjudged \subseteq unjudged' /\ m \in unjudged'
  BY <1>3
<1>7. CASE JudgeBy(a, m, no, muted)
  BY <1>2, <1>3, <1>4, <1>6, <1>7, JudgeByKeepsInv
<1>8. CASE JudgeBy(a, m, echoes, no)
  BY <1>2, <1>3, <1>4, <1>6, <1>8, JudgeByKeepsInv
<1> QED
  BY <1>5, <1>7, <1>8

\* The row in the actor's hand is stored, unless there is one already.
LEMMA InsertKeepsInv ==
  ASSUME IntakeInv, NEW a \in Actors, Insert(a)
  PROVE  IntakeInv'
<1> USE DEF IntakeInv
<1>1. /\ work[a].pc = "insert"
      /\ rows' = [rows EXCEPT ![work[a].msg] = Inserted(work[a].msg, work[a].row)]
      /\ Resume(a)
  BY DEF Insert
<1>2. UNCHANGED <<chatVars, ringVars, selfVars, mentionOnly, agentVars, tickHistory, punctual,
                  skipHistory, changes, faults>>
  BY DEF Insert
<1>3. PICK m \in Messages, row \in Rows : m = work[a].msg /\ row = work[a].row
  BY <1>1 DEF JobsInOrder
<1>4. PICK job \in JobRecords :
         /\ work' = [work EXCEPT ![a] = job]
         /\ job.pc = "judge" /\ job.msg = None
         /\ job.todo = work[a].todo /\ job.kind = work[a].kind /\ job.upto = work[a].upto
  BY <1>1, ResumeWrite
<1>5. /\ work' \in [Actors -> JobRecords] /\ work'[a] = job
      /\ \A b \in Actors : b # a => work'[b] = work[b]
  BY <1>4, JobWrite
<1>6. /\ rows' \in [Messages -> Rows \cup {NoRow}]
      /\ Stored' = Stored \cup {m}
      /\ m \notin Stored => rows'[m] = row
      /\ \A k \in Stored : rows'[k] = rows[k]
  <2>1. CASE m \in Stored
    <3>1. rows' = rows
      BY <1>1, <1>3, <2>1 DEF Inserted, TypeOK
    <3> QED
      BY <2>1, <3>1 DEF TypeOK, Stored
  <2>2. CASE m \notin Stored
    <3>1. rows' = [rows EXCEPT ![m] = row]
      BY <1>1, <1>3, <2>2 DEF Inserted
    <3> QED
      BY <2>2, <3>1, RowWrite, StoredType
  <2> QED
    BY <2>1, <2>2
<1>7. TypeOK'
  BY <1>2, <1>5, <1>6 DEF TypeOK, chatVars, ringVars, selfVars, agentVars, tickHistory, skipHistory
<1>8. CatchUpInv'
  <2>1. Ticker \in Actors
    BY DEF Actors
  <2>2. work'[Ticker].upto = work[Ticker].upto
    BY <1>4, <1>5, <2>1
  <2>3. Messages \cap (work[Ticker].todo \cup {work[Ticker].msg})
           \subseteq Stored' \cup work'[Ticker].todo \cup {work'[Ticker].msg}
    BY <1>3, <1>4, <1>5, <1>6, <2>1
  <2> QED
    BY <1>2, <1>6, <2>2, <2>3, CatchUpFrame DEF ringVars, tickHistory
<1>9. JobsInOrder'
  BY <1>4, <1>5 DEF JobsInOrder
<1>10. TextsTellUsApart => Honest(m, row)
  BY <1>1, <1>3 DEF RowsAreHonest
<1>11. OnlyTheUserIsUs'
  BY <1>2, <1>6, <1>10 DEF OnlyTheUserIsUs, Honest, selfVars
<1>12. RowsAreHonest'
  BY <1>2, <1>4, <1>5, <1>6, <1>10 DEF RowsAreHonest, Honest, chatVars
<1>13. PunctualIsMine'
  <2>1. m \in punctual \ SyncKeys => row.mine \/ m \in unjudged
    BY <1>3 DEF PunctualIsMine
  <2>2. None \notin punctual
    BY DEF TypeOK
  <2> QED
    BY <1>2, <1>4, <1>5, <1>6, <2>1, <2>2 DEF PunctualIsMine, chatVars, agentVars, skipHistory
<1>14. BlockedIsMuted'
  <2>1. m \in Blocked \ SyncKeys => row.skipped \/ m \in unjudged
    BY <1>3 DEF BlockedIsMuted
  <2> QED
    BY <1>2, <1>4, <1>5, <1>6, <2>1 DEF BlockedIsMuted, agentVars, skipHistory
<1>15. UnskipStands' /\ (listed \cup drafted \subseteq Stored)'
  BY <1>2, <1>6 DEF UnskipStands, agentVars, skipHistory
<1> QED
  BY <1>7, <1>8, <1>9, <1>11, <1>12, <1>13, <1>14, <1>15

\* A message a search found is of the user, and its row says so from now on.
LEMMA MarkMineKeepsInv ==
  ASSUME IntakeInv, NEW a \in Actors, NEW m \in Messages, MarkMine(a, m)
  PROVE  IntakeInv'
<1> USE DEF IntakeInv
<1>1. /\ work[a].pc = "judge" /\ work[a].kind = "search" /\ m \in work[a].todo
      /\ rows' = [rows EXCEPT ![m] = [Inserted(m, Row(TRUE, FALSE, self)) EXCEPT !.mine = TRUE]]
      /\ work' = [work EXCEPT ![a].todo = @ \ {m}]
  BY DEF MarkMine
<1>2. UNCHANGED <<chatVars, ringVars, selfVars, mentionOnly, agentVars, tickHistory, punctual,
                  skipHistory, changes, faults>>
  BY DEF MarkMine
<1>3. Author[m] = User
  BY <1>1 DEF JobsInOrder, ByUser
<1>4. PICK job \in JobRecords :
         /\ work' = [work EXCEPT ![a] = job]
         /\ job.todo = work[a].todo \ {m}
         /\ job.pc = work[a].pc /\ job.kind = work[a].kind /\ job.msg = work[a].msg
         /\ job.row = work[a].row /\ job.upto = work[a].upto
  BY <1>1, TodoWrite
<1>5. /\ work' \in [Actors -> JobRecords] /\ work'[a] = job
      /\ \A b \in Actors : b # a => work'[b] = work[b]
  BY <1>4, JobWrite
<1>6. PICK row \in Rows : /\ row = [Inserted(m, Row(TRUE, FALSE, self)) EXCEPT !.mine = TRUE]
                          /\ row.mine
                          /\ m \in Stored => /\ row.skipped = rows[m].skipped
                                             /\ row.sender = rows[m].sender
                          /\ m \notin Stored => row.sender = self
  <2>1. PICK base \in Rows : /\ base = Inserted(m, Row(TRUE, FALSE, self))
                             /\ m \in Stored => base = rows[m]
                             /\ m \notin Stored => base.sender = self
    <3>1. CASE m \in Stored
      BY <3>1, StoredType DEF Inserted
    <3>2. CASE m \notin Stored
      <4>1. Row(TRUE, FALSE, self) \in Rows /\ Row(TRUE, FALSE, self).sender = self
        BY RowType DEF Row, TypeOK
      <4> QED
        BY <3>2, <4>1 DEF Inserted
    <3> QED
      BY <3>1, <3>2
  <2> DEFINE row == [base EXCEPT !.mine = TRUE]
  <2>2. row \in Rows /\ row.mine /\ row.skipped = base.skipped /\ row.sender = base.sender
    BY DEF Rows
  <2> QED
    BY <2>1, <2>2
<1>7. /\ rows' \in [Messages -> Rows \cup {NoRow}]
      /\ Stored' = Stored \cup {m}
      /\ rows'[m] = row
      /\ \A k \in Messages : k # m => rows'[k] = rows[k]
  BY <1>1, <1>6, RowWrite
<1>8. /\ \A b \in Actors : /\ work'[b].pc = work[b].pc /\ work'[b].msg = work[b].msg
                            /\ work'[b].row = work[b].row
       /\ m \in Messages /\ m \in Stored'
  BY <1>4, <1>5, <1>7
<1>9. TypeOK'
  BY <1>2, <1>5, <1>7 DEF TypeOK, chatVars, ringVars, selfVars, agentVars, tickHistory, skipHistory
<1>10. CatchUpInv'
  <2>1. Ticker \in Actors
    BY DEF Actors
  <2>2. work'[Ticker].upto = work[Ticker].upto
    BY <1>4, <1>5, <2>1
  <2>3. Messages \cap (work[Ticker].todo \cup {work[Ticker].msg})
           \subseteq Stored' \cup work'[Ticker].todo \cup {work'[Ticker].msg}
    BY <1>4, <1>5, <1>7, <2>1
  <2> QED
    BY <1>2, <1>7, <2>2, <2>3, CatchUpFrame DEF ringVars, tickHistory
<1>11. JobsInOrder'
  BY <1>1, <1>4, <1>5 DEF JobsInOrder
<1>12. OnlyTheUserIsUs'
  BY <1>2, <1>3, <1>7, StoredType DEF OnlyTheUserIsUs, selfVars
<1>13. RowsAreHonest'
  <2>1. TextsTellUsApart => Honest(m, row)
    BY <1>3, <1>6 DEF RowsAreHonest, OnlyTheUserIsUs, Honest
  <2>2. sent' = sent /\ Stored \subseteq Messages
    BY <1>2, StoredType DEF chatVars
  <2>3. TextsTellUsApart => \A k \in Stored' : Honest(k, rows'[k])
    BY <1>7, <2>1, <2>2 DEF RowsAreHonest
  <2>4. TextsTellUsApart =>
           \A b \in Actors : work'[b].pc = "insert" => Honest(work'[b].msg, work'[b].row)
    BY <1>8 DEF RowsAreHonest
  <2> QED
    BY <2>2, <2>3, <2>4 DEF RowsAreHonest, Honest
<1>14. PunctualIsMine'
  <2>1. PunctualIsMine /\ Stored \subseteq Messages /\ punctual \subseteq Messages
    BY StoredType DEF TypeOK
  <2>2. UNCHANGED <<sent, punctual, listed, drafted, unjudged>>
    BY <1>2 DEF chatVars, agentVars, skipHistory
  <2>3. \A k \in punctual \ SyncKeys : k \in Stored' => rows'[k].mine \/ k \in unjudged
    BY <1>6, <1>7, <2>1 DEF PunctualIsMine
  <2> QED
    BY <1>8, <2>1, <2>2, <2>3 DEF PunctualIsMine
<1>15. BlockedIsMuted'
  <2>1. BlockedIsMuted /\ Stored \subseteq Messages
    BY StoredType
  <2>2. UNCHANGED <<listed, drafted, freed, unjudged>>
    BY <1>2 DEF agentVars, skipHistory
  <2>3. \A k \in Blocked \ SyncKeys :
           k \in Stored' => rows'[k].mine \/ rows'[k].skipped \/ k \in freed \cup unjudged
    BY <1>6, <1>7, <2>1 DEF BlockedIsMuted
  <2> QED
    BY <1>8, <2>1, <2>2, <2>3 DEF BlockedIsMuted
<1>16. UnskipStands'
  BY <1>2, <1>6, <1>7, StoredType DEF UnskipStands, skipHistory
<1>17. (listed \cup drafted \subseteq Stored)'
  BY <1>2, <1>7 DEF agentVars
<1> QED
  BY <1>9, <1>10, <1>11, <1>12, <1>13, <1>14, <1>15, <1>16, <1>17

-----------------------------------------------------------------------------
(* The theorems                                                            *)

LEMMA InitInv ==
  ASSUME Init
  PROVE  IntakeInv
<1>1. Idle.pc = "idle" /\ Idle.msg = None /\ Idle.kind = "none" /\ Idle.upto = 0
  BY DEF Idle, Job
<1>2. Idle \in JobRecords /\ Ticker \in Actors
  BY IdleType DEF Actors
<1>3. ring = <<>> /\ Events = {} /\ Stored = {}
  BY DEF Init, Events, Range, Stored
<1>4. TypeOK
  <2>1. /\ work \in [Actors -> JobRecords] /\ rows \in [Messages -> Rows \cup {NoRow}]
        /\ age \in [Messages -> {"unsent", "fresh", "stale"}]
        /\ self \in Names /\ name \in Names
    BY <1>2 DEF Init, Names
  <2>2. /\ ring \in Seq([id : Nat, msgs : SUBSET Messages])
        /\ nextID \in Nat /\ cursor \in Nat /\ changes \in Nat /\ faults \in Nat
    BY DEF Init
  <2>3. /\ old \subseteq Messages /\ sent \subseteq Texts /\ known \subseteq People
        /\ mentionOnly \in BOOLEAN
        /\ listed \subseteq Messages /\ drafted \subseteq Messages
        /\ seen \subseteq Messages /\ dropped \subseteq Messages
        /\ punctual \subseteq Messages /\ freed \subseteq Messages
        /\ rescued \subseteq Messages /\ unjudged \subseteq Messages
    BY DEF Init
  <2> QED
    BY <2>1, <2>2, <2>3 DEF TypeOK
<1>5. JobsInOrder
  BY <1>1 DEF Init, JobsInOrder
<1>6. CatchUpInv
  BY <1>1, <1>2, <1>3
     DEF Init, CatchUpInv, NothingPassedOver, TickIsThorough, IdsInOrder, Unread, MessagesOf
<1>7. OnlyTheUserIsUs /\ RowsAreHonest
  BY <1>1, <1>3 DEF Init, OnlyTheUserIsUs, RowsAreHonest
<1>8. PunctualIsMine /\ BlockedIsMuted /\ UnskipStands
  BY <1>1, <1>3 DEF Init, PunctualIsMine, BlockedIsMuted, UnskipStands
<1> QED
  BY <1>3, <1>4, <1>5, <1>6, <1>7, <1>8 DEF Init, IntakeInv

LEMMA NextKeepsInv ==
  ASSUME IntakeInv, [Next]_vars
  PROVE  IntakeInv'
<1>1. ASSUME NEW m \in Messages, ChatStep(m)
      PROVE  IntakeInv'
  BY <1>1, PostKeepsInv, ReportKeepsInv, AgeKeepsInv DEF ChatStep
<1>2. ASSUME NEW t \in Tabs, ObserveStep(t) \/ Enter(t)
      PROVE  IntakeInv'
  BY <1>2, ObserveKeepsInv, EnterKeepsInv DEF ObserveStep
<1>3. ASSUME NEW a \in Actors, IngestStep(a)
      PROVE  IntakeInv'
  BY <1>3, DoneKeepsInv, InsertKeepsInv, DropStaleKeepsInv, JudgeKeepsInv, MarkMineKeepsInv
     DEF IngestStep
<1>4. CASE ClientStep
  BY <1>4, ListKeepsInv, SetMentionOnlyKeepsInv, ReplyKeepsInv, SkipKeepsInv, UnskipKeepsInv,
     SyncInsertKeepsInv DEF ClientStep
<1>5. CASE FaultStep
  BY <1>5, RestartKeepsInv, AbandonKeepsInv, FailInsertKeepsInv, MisjudgeKeepsInv DEF FaultStep
<1>6. CASE UNCHANGED vars
  <2>1. UNCHANGED <<age, old, sent, ringVars, work, rows, selfVars, mentionOnly, agentVars,
                    tickHistory, punctual, skipHistory, changes, faults>>
    BY <1>6 DEF vars, chatVars
  <2>2. TypeOK'
    BY <2>1 DEF IntakeInv, TypeOK, ringVars, selfVars, agentVars, tickHistory, skipHistory
  <2>3. CatchUpInv'
    BY <2>1, CatchUpStays DEF IntakeInv
  <2>4. JobsInOrder' /\ RowsAreHonest' /\ OnlyTheUserIsUs'
    BY <2>1, JobsFrame, HonestFrame, UsFrame DEF IntakeInv, OnlyTheUserIsUs, selfVars
  <2>5. PunctualIsMine' /\ BlockedIsMuted' /\ UnskipStands'
    BY <2>1, PunctualFrame, BlockedFrame, UnskipFrame DEF IntakeInv, agentVars, skipHistory
  <2>6. (listed \cup drafted \subseteq Stored)'
    BY <2>1 DEF IntakeInv, agentVars, Stored
  <2> QED
    BY <2>2, <2>3, <2>4, <2>5, <2>6 DEF IntakeInv
<1> QED
  BY <1>1, <1>2, <1>3, <1>4, <1>5, <1>6, TickKeepsInv DEF Next

\* The invariant the theorems below follow from holds in every reachable state.
THEOREM IntakeInvariant == Spec => []IntakeInv
<1>1. Init => IntakeInv
  BY InitInv
<1>2. IntakeInv /\ [Next]_vars => IntakeInv'
  BY NextKeepsInv
<1> QED
  BY <1>1, <1>2, PTL DEF Spec

\* Every variable keeps its shape.
THEOREM IntakeTypes == Spec => []TypeOK
<1>1. IntakeInv => TypeOK
  BY DEF IntakeInv
<1> QED
  BY <1>1, IntakeInvariant, PTL

\* A message of an observed topics response is stored, still to be read from the ring,
\* or given up by the ticker, whatever the readers do meanwhile.
THEOREM TickerCatchesUp == Spec => []NothingPassedOver
<1>1. IntakeInv => NothingPassedOver
  BY DEF IntakeInv, CatchUpInv
<1> QED
  BY <1>1, IntakeInvariant, PTL

\* If nobody else writes what our replies say, no name but the user's is learned, by
\* the worker or in the users row, and no message of anybody else counts as ours.
THEOREM IdentityIsHonest == Spec => []OnlyTheUserIsUs
<1>1. IntakeInv => OnlyTheUserIsUs
  BY DEF IntakeInv
<1> QED
  BY <1>1, IntakeInvariant, PTL

\* The row an ingest stores for a reply recorded as sent before anybody judged it is not
\* answered in its turn, unless the check of its text failed.
THEOREM PunctualRepliesAreNotAnswered == Spec => []PunctualRepliesEndThere
<1>1. IntakeInv => PunctualRepliesEndThere
  <2>1. IntakeInv => drafted \subseteq Messages
    BY DEF IntakeInv, TypeOK
  <2>2. \A m \in Messages \ SyncKeys : Original[m] = m
    BY DEF SyncKeys
  <2> QED
    BY <2>1, <2>2 DEF IntakeInv, PunctualIsMine, PunctualRepliesEndThere
<1> QED
  BY <1>1, IntakeInvariant, PTL

\* A message with a blocked keyword is answered only if a client unskipped it, its
\* settings could not be read, or a history sync stored it (again).
THEOREM BlockedMessagesStayMuted == Spec => []BlockedNeedsAClient
<1>1. IntakeInv => BlockedNeedsAClient
  <2>1. IntakeInv => drafted \subseteq Messages
    BY DEF IntakeInv, TypeOK
  <2> QED
    BY <2>1 DEF IntakeInv, BlockedIsMuted, BlockedNeedsAClient
<1> QED
  BY <1>1, IntakeInvariant, PTL

\* What a client unskipped is not muted again by messages seen again.
THEOREM UnskippedStaysUnskipped == Spec => []UnskipStands
<1>1. IntakeInv => UnskipStands
  BY DEF IntakeInv
<1> QED
  BY <1>1, IntakeInvariant, PTL

=============================================================================
