------------------------- MODULE MiningQueueProofs -------------------------
(***************************************************************************)
(* The promises of MiningQueue, for any number of spaces, calls and        *)
(* messages; those that need a single session say so themselves.           *)
(***************************************************************************)
EXTENDS MiningQueue, TLAPS

\* A session that has taken up a space works on a row of the table.
RowsExist == \A m \in Miners : miner[m] # Idle => jobs[miner[m].space] # NoJob

\* Nothing is mined that was not there, and a session has all that was mined.
MinedBelowTip ==
    /\ \A s \in Spaces : jobs[s].mined <= tip[s]
    /\ \A m \in Miners : miner[m].pc = "mining" => miner[m].upto <= tip[miner[m].space]
    /\ OneSession => \A m \in Miners :
           miner[m].pc = "mining" => jobs[miner[m].space].mined <= miner[m].upto

\* The row of a space that the only session works on says so, and once it has
\* read the messages nothing is owed to that space.
Claimed ==
    OneSession /\ ~ raced => \A m \in Miners :
        /\ miner[m].pc \in {"claimed", "mining"} => jobs[miner[m].space].status = "running"
        /\ miner[m].pc = "mining" => miner[m].space \notin owed

IInv ==
    /\ TypeOK
    /\ RowsExist
    /\ ErrorIsCurrent
    /\ MinedBelowTip
    /\ Claimed
    /\ EnqueueHonoured

LEMMA InitIInv == Init => IInv
<1> SUFFICES ASSUME Init PROVE IInv
    OBVIOUS
<1>1. TypeOK
    <2>1. raced \in BOOLEAN
        BY DEF Init
    <2>2. 0 \in 0 .. MaxTip
        BY TipBound
    <2> QED BY <2>1, <2>2 DEF Init, TypeOK
<1>2. RowsExist /\ MinedBelowTip /\ Claimed /\ EnqueueHonoured
    BY DEF Init, RowsExist, MinedBelowTip, Claimed, EnqueueHonoured, Idle, NoJob
<1>3. ErrorIsCurrent
    BY Zenon DEF Init, ErrorIsCurrent, NoJob
<1> QED BY <1>1, <1>2, <1>3 DEF IInv

-----------------------------------------------------------------------------
(* Jobs. Every action on them leaves either the row of one space, or only  *)
(* the calls and the sessions, changed.                                    *)

LEMMA RowTypes ==
    ASSUME IInv, NEW s \in Spaces, NEW n \in 0 .. MaxTip
    PROVE  /\ jobs[s].mined \in 0 .. MaxTip
           /\ Reset(jobs[s]) \in Jobs /\ Running(jobs[s]) \in Jobs
           /\ Failed(jobs[s]) \in Jobs /\ Completed(n) \in Jobs
<1>1. jobs[s].mined \in 0 .. MaxTip
    BY TipBound DEF IInv, TypeOK, Jobs, NoJob
<1> QED BY <1>1 DEF Reset, Running, Failed, Completed, Jobs, JobStatuses

LEMMA JobsAreRows == ASSUME NEW j \in Jobs PROVE j # NoJob
    BY DEF Jobs, NoJob, JobStatuses

LEMMA SessionsTyped ==
    ASSUME IInv, NEW m \in Miners
    PROVE  /\ miner[m] # Idle => miner[m].space \in Spaces
           /\ miner[m].pc \in {"listed", "claimed", "mining"} => miner[m] # Idle
           /\ miner[m].pc = "mining" => miner[m].upto \in 0 .. MaxTip
    BY DEF IInv, TypeOK, Sessions, Idle

LEMMA ReadStep ==
    ASSUME IInv, NEW r \in Requests, NEW s \in Spaces, EnqueueReads(r, s)
    PROVE  IInv'
<1>1. UNCHANGED <<jobs, miner, tip, raced>>
    BY DEF EnqueueReads
<1>2. \/ UNCHANGED <<req, owed>>
      \/ jobs[s].status = "pending" /\ owed' = owed \cup {s} /\ UNCHANGED req
      \/ /\ jobs[s].status \in {"none", "completed", "failed"}
         /\ req' = [req EXCEPT ![r] = [pc |-> "write", space |-> s, saw |-> jobs[s].status]]
         /\ UNCHANGED owed
    BY DEF EnqueueReads, EnqueueDecides, Accept
<1>3. req' \in [Requests -> Calls \cup {Free}] /\ owed' \subseteq Spaces
    BY <1>2 DEF IInv, TypeOK, Calls
<1>4. RowsExist' /\ MinedBelowTip'
    BY <1>1 DEF IInv, TypeOK, RowsExist, MinedBelowTip
<1>5. ErrorIsCurrent'
    BY <1>1, Zenon DEF IInv, TypeOK, ErrorIsCurrent
<1>6. Claimed' /\ EnqueueHonoured'
    BY <1>1, <1>2 DEF IInv, TypeOK, Claimed, EnqueueHonoured
<1> QED BY <1>1, <1>3, <1>4, <1>5, <1>6 DEF IInv, TypeOK

\* One row is replaced by a row of the table with a current error.
LEMMA ErrorKept ==
    ASSUME IInv, NEW s \in Spaces, NEW j \in Jobs, j.err = (j.status = "failed"),
           jobs' = [jobs EXCEPT ![s] = j]
    PROVE  jobs' \in [Spaces -> Jobs \cup {NoJob}] /\ ErrorIsCurrent'
<1>1. jobs' \in [Spaces -> Jobs \cup {NoJob}]
    BY DEF IInv, TypeOK
<1>2. ASSUME NEW u \in Spaces PROVE jobs'[u].err = (jobs'[u].status = "failed")
    <2>1. CASE u = s
        <3>1. jobs'[u] = j
            BY <2>1 DEF IInv, TypeOK
        <3> QED BY <3>1, Zenon
    <2>2. CASE u # s
        <3>1. jobs'[u] = jobs[u]
            BY <2>2 DEF IInv, TypeOK
        <3> QED BY <3>1, Zenon DEF IInv, TypeOK, ErrorIsCurrent
    <2> QED BY <2>1, <2>2
<1> QED BY <1>1, <1>2 DEF ErrorIsCurrent

LEMMA WriteStep ==
    ASSUME IInv, NEW r \in Requests, EnqueueWrites(r) PROVE IInv'
<1> DEFINE s == req[r].space
           j == Reset(jobs[s])
<1>1. s \in Spaces /\ req[r].saw \in {"none", "completed", "failed"}
    BY DEF IInv, TypeOK, EnqueueWrites, Calls
<1>2. /\ \/ UNCHANGED <<jobs, owed>>
         \/ jobs' = [jobs EXCEPT ![s] = j] /\ owed' = owed \cup {s}
      /\ raced' = (raced \/ jobs[s].status # req[r].saw)
      /\ req' = [req EXCEPT ![r] = Free]
      /\ UNCHANGED <<miner, tip>>
    BY DEF EnqueueWrites, Accept
<1>0. 0 \in 0 .. MaxTip
    BY TipBound
<1>3. /\ j \in Jobs /\ j # NoJob
      /\ j.status = "pending" /\ j.mined = jobs[s].mined
      /\ j.err = (j.status = "failed")
    BY <1>1, <1>0, RowTypes, JobsAreRows DEF Reset
<1>4. ~ raced' => ~ raced /\ jobs[s].status \notin {"running"}
    BY <1>1, <1>2
<1>5. raced' \in BOOLEAN
    BY <1>2
<1> HIDE DEF s, j
<1>6. jobs' \in [Spaces -> Jobs \cup {NoJob}] /\ ErrorIsCurrent'
    <2>1. CASE UNCHANGED jobs
        BY <2>1, Zenon DEF IInv, TypeOK, ErrorIsCurrent
    <2>2. CASE jobs' = [jobs EXCEPT ![s] = j]
        BY <1>1, <1>3, <2>2, ErrorKept
    <2> QED BY <1>2, <2>1, <2>2
<1>7. req' \in [Requests -> Calls \cup {Free}] /\ owed' \subseteq Spaces
    BY <1>1, <1>2 DEF IInv, TypeOK
<1>8. RowsExist' /\ MinedBelowTip'
    BY <1>1, <1>2, <1>3, SessionsTyped DEF IInv, TypeOK, RowsExist, MinedBelowTip
<1>9. Claimed'
    BY <1>1, <1>2, <1>3, <1>4, SessionsTyped DEF IInv, TypeOK, Claimed
<1>10. EnqueueHonoured'
    BY <1>1, <1>2, <1>3, <1>4 DEF IInv, TypeOK, EnqueueHonoured
<1> QED BY <1>2, <1>5, <1>6, <1>7, <1>8, <1>9, <1>10 DEF IInv, TypeOK

\* A session moves on and leaves the table alone.
LEMMA SessionStep ==
    ASSUME IInv, NEW m \in Miners,
           MinerReads(m) \/ MinerDies(m) \/ \E s \in Spaces : MinerLists(m, s)
    PROVE  IInv'
<1>1. UNCHANGED <<jobs, req, tip, raced>>
    BY DEF MinerReads, MinerDies, MinerLists
<1>2. ErrorIsCurrent'
    BY <1>1, Zenon DEF IInv, TypeOK, ErrorIsCurrent
<1>3. CASE MinerReads(m)
    <2> DEFINE s == miner[m].space
               w == [pc |-> "mining", space |-> s, upto |-> tip[s]]
    <2>1. s \in Spaces /\ miner[m] # Idle /\ miner[m].pc = "claimed"
        BY <1>3, SessionsTyped DEF MinerReads
    <2>2. miner' = [miner EXCEPT ![m] = w] /\ owed' = owed \ {s}
        BY <1>3 DEF MinerReads
    <2>3. w \in Sessions /\ w # Idle /\ w.pc = "mining" /\ w.space = s /\ w.upto = tip[s]
        BY <2>1 DEF IInv, TypeOK, Sessions, Idle
    <2> HIDE DEF s, w
    <2>4. miner' \in [Miners -> Sessions \cup {Idle}] /\ owed' \subseteq Spaces
        BY <2>2, <2>3 DEF IInv, TypeOK
    <2>5. RowsExist'
        BY <1>1, <2>1, <2>2, <2>3 DEF IInv, TypeOK, RowsExist, s
    <2>6. MinedBelowTip'
        <3>1. \A u \in Spaces : jobs'[u].mined <= tip'[u]
            BY <1>1 DEF IInv, TypeOK, MinedBelowTip
        <3>2. tip[s] \in 0 .. MaxTip /\ tip[s] <= tip[s]
            BY <2>1, TipBound DEF IInv, TypeOK
        <3>3. miner'[m] = w
            BY <2>2 DEF IInv, TypeOK
        <3>4. ASSUME NEW n \in Miners, n # m PROVE miner'[n] = miner[n]
            BY <2>2, <3>4 DEF IInv, TypeOK
        <3>5. \A n \in Miners : miner'[n].pc = "mining"
                  => miner'[n].upto <= tip'[miner'[n].space]
            BY <3>2, <3>3, <3>4, <1>1, <2>3 DEF IInv, TypeOK, MinedBelowTip
        <3>6. ASSUME OneSession, NEW n \in Miners
              PROVE  jobs'[miner'[n].space].mined <= miner'[n].upto
            <4>1. n = m
                BY <3>6 DEF OneSession
            <4> QED BY <4>1, <3>1, <3>3, <1>1, <2>1, <2>3
        <3> QED BY <3>1, <3>5, <3>6 DEF MinedBelowTip
    <2>7. Claimed'
        BY <1>1, <2>1, <2>2, <2>3 DEF IInv, TypeOK, Claimed, s, OneSession
    <2>8. EnqueueHonoured'
        BY <1>1, <2>2 DEF IInv, TypeOK, EnqueueHonoured
    <2> QED BY <1>1, <1>2, <2>4, <2>5, <2>6, <2>7, <2>8 DEF IInv, TypeOK
<1>4. CASE MinerDies(m)
    BY <1>1, <1>2, <1>4, SessionsTyped
       DEF MinerDies, IInv, TypeOK, RowsExist, MinedBelowTip, Claimed, EnqueueHonoured, Idle
<1>5. ASSUME NEW s \in Spaces, MinerLists(m, s) PROVE IInv'
    <2> DEFINE w == [pc |-> "listed", space |-> s]
    <2>1. /\ miner' = [miner EXCEPT ![m] = w] /\ UNCHANGED owed
          /\ jobs[s].status = "pending"
        BY <1>5 DEF MinerLists
    <2>2. w \in Sessions /\ w.pc = "listed" /\ w.space = s
        BY DEF Sessions
    <2>3. jobs[s] # NoJob
        BY <2>1 DEF NoJob
    <2> HIDE DEF w
    <2>4. miner' \in [Miners -> Sessions \cup {Idle}]
        BY <2>1, <2>2 DEF IInv, TypeOK
    <2>5. RowsExist'
        BY <1>1, <2>1, <2>2, <2>3 DEF IInv, TypeOK, RowsExist
    <2>6. MinedBelowTip' /\ Claimed' /\ EnqueueHonoured'
        BY <1>1, <2>1, <2>2 DEF IInv, TypeOK, MinedBelowTip, Claimed, EnqueueHonoured
    <2> QED BY <1>1, <1>2, <2>1, <2>4, <2>5, <2>6 DEF IInv, TypeOK
<1> QED BY <1>3, <1>4, <1>5

\* PATCH of the row of a space by the session that took it up.
LEMMA SessionPatch ==
    ASSUME IInv, NEW m \in Miners, MinerClaims(m) \/ MinerFinishes(m)
    PROVE  /\ IInv'
           /\ OneSession => \A u \in Spaces : jobs'[u].mined >= jobs[u].mined
<1> DEFINE s == miner[m].space
           w == [pc |-> "claimed", space |-> s]
<1>1. s \in Spaces /\ miner[m] # Idle /\ jobs[s] # NoJob
    BY SessionsTyped DEF MinerClaims, MinerFinishes, IInv, TypeOK, RowsExist
<1>2. UNCHANGED <<req, tip, owed, raced>>
    BY DEF MinerClaims, MinerFinishes
<1>3. PICK j \in Jobs :
          /\ jobs' = [jobs EXCEPT ![s] = j]
          /\ j.err = (j.status = "failed")
          /\ \/ /\ miner[m].pc = "listed" /\ miner' = [miner EXCEPT ![m] = w]
                /\ j.status = "running" /\ j.mined = jobs[s].mined
             \/ /\ miner[m].pc = "mining" /\ miner' = [miner EXCEPT ![m] = Idle]
                /\ j.mined \in {jobs[s].mined, miner[m].upto}
    <2>1. CASE MinerClaims(m)
        <3>1. /\ miner[m].pc = "listed" /\ jobs' = [jobs EXCEPT ![s] = Running(jobs[s])]
              /\ miner' = [miner EXCEPT ![m] = w]
            BY <2>1 DEF MinerClaims
        <3>2. 0 \in 0 .. MaxTip
            BY TipBound
        <3>3. Running(jobs[s]) \in Jobs
            BY <1>1, <3>2, RowTypes
        <3>4. /\ Running(jobs[s]).status = "running"
              /\ Running(jobs[s]).mined = jobs[s].mined
              /\ Running(jobs[s]).err = FALSE
            BY DEF Running
        <3>5. FALSE = ("running" = "failed")
            OBVIOUS
        <3> QED BY <3>1, <3>3, <3>4, <3>5
    <2>2. CASE MinerFinishes(m)
        <3>1. /\ miner[m].pc = "mining" /\ miner' = [miner EXCEPT ![m] = Idle]
              /\ \/ jobs' = [jobs EXCEPT ![s] = Completed(miner[m].upto)]
                 \/ jobs' = [jobs EXCEPT ![s] = Failed(jobs[s])]
            BY <2>2 DEF MinerFinishes
        <3>2. miner[m].upto \in 0 .. MaxTip
            BY <3>1, SessionsTyped
        <3>3. Completed(miner[m].upto) \in Jobs /\ Failed(jobs[s]) \in Jobs
            BY <1>1, <3>2, RowTypes
        <3>4. /\ Completed(miner[m].upto).err = FALSE
              /\ Completed(miner[m].upto).status = "completed"
              /\ Completed(miner[m].upto).mined = miner[m].upto
              /\ Failed(jobs[s]).err = TRUE
              /\ Failed(jobs[s]).status = "failed"
              /\ Failed(jobs[s]).mined = jobs[s].mined
            BY DEF Completed, Failed
        <3>5. FALSE = ("completed" = "failed") /\ TRUE = ("failed" = "failed")
            OBVIOUS
        <3> QED BY <3>1, <3>3, <3>4, <3>5
    <2> QED BY <2>1, <2>2
<1>4. w \in Sessions /\ w.pc = "claimed" /\ w.space = s /\ w # Idle
    BY <1>1 DEF Sessions, Idle
<1>5. j # NoJob
    BY JobsAreRows
<1> HIDE DEF w
<1>6. jobs' \in [Spaces -> Jobs \cup {NoJob}] /\ ErrorIsCurrent'
    BY <1>1, <1>3, ErrorKept
<1>7. miner' \in [Miners -> Sessions \cup {Idle}]
    BY <1>3, <1>4 DEF IInv, TypeOK
<1>8. RowsExist'
    BY <1>1, <1>3, <1>4, <1>5, <1>6 DEF IInv, TypeOK, RowsExist
<1>9. 0 \in 0 .. MaxTip
    BY TipBound
<1>10. jobs[s].mined \in 0 .. MaxTip /\ tip[s] \in 0 .. MaxTip
    BY <1>1, <1>9, RowTypes DEF IInv, TypeOK
<1>11. j.mined <= tip[s] /\ (OneSession => j.mined >= jobs[s].mined)
    <2>1. jobs[s].mined <= tip[s]
        BY <1>1 DEF IInv, TypeOK, MinedBelowTip
    <2>2. CASE j.mined = jobs[s].mined
        BY <2>1, <2>2, <1>10
    <2>3. CASE miner[m].pc = "mining" /\ j.mined = miner[m].upto
        <3>1. miner[m].upto <= tip[s]
            BY <2>3 DEF IInv, TypeOK, MinedBelowTip
        <3>2. OneSession => jobs[s].mined <= miner[m].upto
            BY <2>3 DEF IInv, TypeOK, MinedBelowTip
        <3>3. miner[m].upto \in 0 .. MaxTip
            BY <2>3, SessionsTyped
        <3> QED BY <2>3, <3>1, <3>2, <3>3, <1>10
    <2> QED BY <2>2, <2>3, <1>3
<1>12. MinedBelowTip'
    <2>1. ASSUME NEW u \in Spaces PROVE jobs'[u].mined <= tip'[u]
        BY <1>2, <1>3, <1>11 DEF IInv, TypeOK, MinedBelowTip
    <2>2. \A n \in Miners : miner'[n].pc = "mining" => miner'[n] = miner[n]
        BY <1>3, <1>4 DEF IInv, TypeOK, Idle
    <2>3. OneSession => \A n \in Miners : miner'[n].pc # "mining"
        BY <1>3, <1>4 DEF IInv, TypeOK, OneSession, Idle
    <2>4. \A n \in Miners : miner'[n].pc = "mining"
              => miner'[n].upto <= tip'[miner'[n].space]
        BY <1>2, <2>2 DEF IInv, TypeOK, MinedBelowTip
    <2> QED BY <2>1, <2>3, <2>4 DEF MinedBelowTip
<1>13. Claimed'
    BY <1>1, <1>2, <1>3, <1>4 DEF IInv, TypeOK, Claimed, OneSession, Idle
<1>14. EnqueueHonoured'
    BY <1>1, <1>2, <1>3 DEF IInv, TypeOK, Claimed, EnqueueHonoured
<1>15. OneSession => \A u \in Spaces : jobs'[u].mined >= jobs[u].mined
    <2> SUFFICES ASSUME OneSession, NEW u \in Spaces
                 PROVE  jobs'[u].mined >= jobs[u].mined
        OBVIOUS
    <2>1. jobs[u].mined \in 0 .. MaxTip
        BY <1>9, RowTypes
    <2>2. CASE u = s
        BY <1>3, <1>11, <2>2 DEF IInv, TypeOK
    <2>3. CASE u # s
        BY <1>3, <2>1, <2>3 DEF IInv, TypeOK
    <2> QED BY <2>2, <2>3
<1> QED BY <1>2, <1>6, <1>7, <1>8, <1>12, <1>13, <1>14, <1>15 DEF IInv, TypeOK

LEMMA MessageStep ==
    ASSUME IInv, NEW s \in Spaces, NewMessage(s) PROVE IInv'
<1>1. UNCHANGED <<jobs, req, miner, owed, raced>> /\ tip[s] < MaxTip
      /\ tip' = [tip EXCEPT ![s] = tip[s] + 1]
    BY DEF NewMessage
<1>2. tip' \in [Spaces -> 0 .. MaxTip] /\ \A u \in Spaces : tip'[u] >= tip[u]
    BY <1>1, TipBound DEF IInv, TypeOK
<1>3. ErrorIsCurrent'
    BY <1>1, Zenon DEF IInv, TypeOK, ErrorIsCurrent
<1>4. RowsExist' /\ Claimed' /\ EnqueueHonoured'
    BY <1>1 DEF IInv, TypeOK, RowsExist, Claimed, EnqueueHonoured
<1>5. ASSUME NEW u \in Spaces, NEW k \in 0 .. MaxTip, k <= tip[u] PROVE k <= tip'[u]
    BY <1>2, <1>5, TipBound DEF IInv, TypeOK
<1>6. 0 \in 0 .. MaxTip
    BY TipBound
<1>7. \A u \in Spaces : jobs[u].mined \in 0 .. MaxTip
    BY <1>6, RowTypes
<1>8. ASSUME NEW m \in Miners, miner[m].pc = "mining"
      PROVE  miner[m].upto \in 0 .. MaxTip /\ miner[m].space \in Spaces
    BY <1>8, SessionsTyped
<1>9. \A u \in Spaces : jobs[u].mined <= tip'[u]
    BY <1>5, <1>7 DEF IInv, TypeOK, MinedBelowTip
<1>10. \A m \in Miners : miner[m].pc = "mining" => miner[m].upto <= tip'[miner[m].space]
    BY <1>5, <1>8 DEF IInv, TypeOK, MinedBelowTip
<1>11. MinedBelowTip'
    BY <1>1, <1>9, <1>10 DEF IInv, TypeOK, MinedBelowTip
<1> QED BY <1>1, <1>2, <1>3, <1>4, <1>11 DEF IInv, TypeOK

-----------------------------------------------------------------------------
LEMMA StepIInv == IInv /\ [Next]_vars => IInv'
<1> SUFFICES ASSUME IInv, [Next]_vars PROVE IInv'
    OBVIOUS
<1>1. CASE UNCHANGED vars
    BY <1>1 DEF vars, IInv, TypeOK, RowsExist, ErrorIsCurrent, MinedBelowTip, Claimed,
                EnqueueHonoured
<1>2. ASSUME NEW s \in Spaces, NewMessage(s) PROVE IInv'
    BY <1>2, MessageStep
<1>3. ASSUME NEW r \in Requests, EnqueueWrites(r) PROVE IInv'
    BY <1>3, WriteStep
<1>4. ASSUME NEW r \in Requests, NEW s \in Spaces, EnqueueReads(r, s) PROVE IInv'
    BY <1>4, ReadStep
<1>5. ASSUME NEW m \in Miners, MinerClaims(m) \/ MinerFinishes(m) PROVE IInv'
    BY <1>5, SessionPatch
<1>6. ASSUME NEW m \in Miners,
             MinerReads(m) \/ MinerDies(m) \/ \E s \in Spaces : MinerLists(m, s)
      PROVE  IInv'
    BY <1>6, SessionStep
<1> QED BY <1>1, <1>2, <1>3, <1>4, <1>5, <1>6 DEF Next

\* The statements of the queue and the sessions' calls keep the inductive invariant.
THEOREM IInvariant == Spec => []IInv
<1>1. Init => IInv
    BY InitIInv
<1>2. IInv /\ [Next]_vars => IInv'
    BY StepIInv
<1> QED BY <1>1, <1>2, PTL DEF Spec

\* The types of MiningQueue, for every instance: what the handlers write is a row of
\* the schema.
THEOREM MiningTyped == Spec => []TypeOK
<1>1. IInv => TypeOK
    BY DEF IInv
<1> QED BY <1>1, IInvariant, PTL

\* With one session and no row changed between the statements of an
\* enqueueing, a space promised a mining is not finished by an older one.
THEOREM PromisedMiningComes == Spec => []EnqueueHonoured
<1>1. IInv => EnqueueHonoured
    BY DEF IInv
<1> QED BY <1>1, IInvariant, PTL

\* The error shown for a job is that of its last mining.
THEOREM ErrorsAreCurrent == Spec => []ErrorIsCurrent
<1>1. IInv => ErrorIsCurrent
    BY DEF IInv
<1> QED BY <1>1, IInvariant, PTL

\* With one session the progress of a space's mining never goes back, however
\* enqueueings, failures and dead sessions interleave.
THEOREM ProgressStays == Spec => MinedNeverBack
<1> DEFINE A == OneSession => \A s \in Spaces : jobs'[s].mined >= jobs[s].mined
<1>1. IInv /\ [Next]_vars => [A]_vars
    <2> SUFFICES ASSUME IInv, Next, OneSession, NEW s \in Spaces
                 PROVE  jobs'[s].mined >= jobs[s].mined
        OBVIOUS
    <2>1. IInv
        OBVIOUS
    <2>2. 0 \in 0 .. MaxTip
        BY TipBound
    <2>3. jobs[s].mined \in 0 .. MaxTip
        BY <2>1, <2>2, RowTypes
    <2>4. CASE UNCHANGED jobs
        BY <2>3, <2>4
    <2>5. ASSUME NEW r \in Requests, EnqueueWrites(r) PROVE jobs'[s].mined >= jobs[s].mined
        <3>1. \/ UNCHANGED jobs
              \/ jobs' = [jobs EXCEPT ![req[r].space] = Reset(jobs[req[r].space])]
            BY <2>5 DEF EnqueueWrites
        <3>2. jobs'[s] = jobs[s] \/ jobs'[s] = Reset(jobs[s])
            BY <3>1, <2>1 DEF IInv, TypeOK
        <3> QED BY <3>2, <2>3 DEF Reset
    <2>6. ASSUME NEW m \in Miners, MinerClaims(m) \/ MinerFinishes(m)
          PROVE  jobs'[s].mined >= jobs[s].mined
        BY <2>1, <2>6, SessionPatch
    <2>7. \/ UNCHANGED jobs
          \/ \E r \in Requests : EnqueueWrites(r)
          \/ \E m \in Miners : MinerClaims(m) \/ MinerFinishes(m)
        BY DEF Next, NewMessage, EnqueueReads, MinerReads, MinerDies, MinerLists
    <2> QED BY <2>4, <2>5, <2>6, <2>7
<1> QED BY <1>1, IInvariant, PTL DEF Spec, MinedNeverBack
=============================================================================
