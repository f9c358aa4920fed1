------------------------ MODULE SyncHistoryProofs --------------------------
(***************************************************************************)
(* SyncInv is an inductive invariant of SyncHistory, for any number of     *)
(* jobs, tabs, calls, messages and faults: the counters of a job account   *)
(* for the rows its batches inserted, and what a scan asks for is          *)
(* accounted for.                                                          *)
(***************************************************************************)
EXTENDS SyncHistory, FiniteSetTheorems, TLAPS

-----------------------------------------------------------------------------
(* Ownership of message rows                                               *)

LEMMA OwnedIsFinite == ASSUME NEW o PROVE IsFiniteSet(OwnedBy(o))
<1>1. OwnedBy(o) \in SUBSET Messages
  BY DEF OwnedBy
<1> QED  BY <1>1, SyncBounds, FS_Subset

LEMMA OwnersDistinct ==
    /\ \A j \in Jobs, s \in Slots : j # s
    /\ \A j \in Jobs : j # None /\ j # Uncounted
    /\ \A s \in Slots : s # None /\ s # Uncounted
BY OwnersDiffer

\* A message without a row gets one: its new owner has one row more, the others none.
LEMMA RowInserted ==
    ASSUME TypeOK, NEW m \in Messages, NEW o, owner[m] = None, o # None,
           owner' = [owner EXCEPT ![m] = o]
    PROVE  /\ Cardinality(OwnedBy(o)') = Cardinality(OwnedBy(o)) + 1
           /\ \A p : p # o /\ p # None => OwnedBy(p)' = OwnedBy(p)
           /\ Stored' = Stored \cup {m}
<1>1. /\ OwnedBy(o)' = OwnedBy(o) \cup {m}
      /\ m \notin OwnedBy(o)
      /\ \A p : p # o /\ p # None => OwnedBy(p)' = OwnedBy(p)
      /\ Stored' = Stored \cup {m}
  BY DEF TypeOK, OwnedBy, Stored
<1> QED  BY <1>1, OwnedIsFinite, FS_AddElement

\* The rows of one owner pass to another: the numbers add up.
LEMMA RowsReowned ==
    ASSUME TypeOK, NEW from, NEW to, from # to, from # None, to # None,
           owner' = Reown(from, to)
    PROVE  /\ Cardinality(OwnedBy(to)') = Cardinality(OwnedBy(to)) + Cardinality(OwnedBy(from))
           /\ Cardinality(OwnedBy(from)') = 0
           /\ \A p : p # from /\ p # to => OwnedBy(p)' = OwnedBy(p)
           /\ Stored' = Stored
<1>1. /\ OwnedBy(to)' = OwnedBy(to) \cup OwnedBy(from)
      /\ OwnedBy(to) \cap OwnedBy(from) = {}
      /\ OwnedBy(from)' = {}
      /\ \A p : p # from /\ p # to => OwnedBy(p)' = OwnedBy(p)
      /\ Stored' = Stored
  BY DEF TypeOK, OwnedBy, Stored, Reown
<1>2. /\ IsFiniteSet(OwnedBy(to)) /\ Cardinality(OwnedBy(to)) \in Nat
      /\ IsFiniteSet(OwnedBy(from)) /\ Cardinality(OwnedBy(from)) \in Nat
  BY OwnedIsFinite, FS_CardinalityType
<1>3. Cardinality(OwnedBy(to) \cup OwnedBy(from))
        = Cardinality(OwnedBy(to)) + Cardinality(OwnedBy(from)) - Cardinality(OwnedBy(to) \cap OwnedBy(from))
  BY <1>2, FS_Union
<1>4. Cardinality(OwnedBy(to) \cap OwnedBy(from)) = 0 /\ Cardinality(OwnedBy(from)') = 0
  BY <1>1, FS_EmptySet
<1>5. Cardinality(OwnedBy(to)') = Cardinality(OwnedBy(to)) + Cardinality(OwnedBy(from))
  BY <1>1, <1>2, <1>3, <1>4
<1> QED  BY <1>1, <1>4, <1>5

\* Nothing changes owner and no counter moves.
LEMMA CountsKept ==
    ASSUME InsertedIsExact, BatchesAreExact, owner' = owner,
           \A j \in Jobs : jobs'[j].inserted = jobs[j].inserted,
           \A s \in Slots : calls'[s].inserted = calls[s].inserted
    PROVE  InsertedIsExact' /\ BatchesAreExact'
<1>1. \A o : OwnedBy(o)' = OwnedBy(o)
  BY DEF OwnedBy
<1> QED  BY <1>1 DEF InsertedIsExact, BatchesAreExact

-----------------------------------------------------------------------------
(* One call moves                                                          *)

WellFormed(c) ==
    /\ c \in Calls
    /\ c.pc # "free" => c.job \in Jobs
    /\ c.pc # "insert" => c.inserted = 0
    /\ c.pc \notin {"check", "insert"} => c.todo = {}

CallsWellFormed == calls \in [Slots -> Calls] /\ \A s \in Slots : WellFormed(calls[s])

LEMMA CallsAreWellFormed ==
    CallsWellFormed <=> /\ calls \in [Slots -> Calls]
                        /\ \A s \in Slots : calls[s].pc # "free" => calls[s].job \in Jobs
                        /\ CallsInOrder
BY DEF CallsWellFormed, WellFormed, CallsInOrder

LEMMA NewCalls ==
    /\ WellFormed(Free) /\ Free.todo = {} /\ Free.inserted = 0
    /\ \A j \in Jobs, ms \in SUBSET Messages :
          WellFormed(BatchCall(j, ms)) /\ BatchCall(j, ms).inserted = 0
          /\ BatchCall(j, ms).todo = ms /\ BatchCall(j, ms).job = j
    /\ \A j \in Jobs, status \in {"completed", "failed"} :
          WellFormed(CompleteCall(j, status)) /\ CompleteCall(j, status).inserted = 0
BY DEF Free, BatchCall, CompleteCall, Call, WellFormed, Calls

LEMMA CallMoves ==
    ASSUME CallsWellFormed, NEW s \in Slots, NEW c, WellFormed(c), calls' = [calls EXCEPT ![s] = c]
    PROVE  /\ CallsWellFormed'
           /\ calls'[s] = c
           /\ \A r \in Slots \ {s} : calls'[r] = calls[r]
BY DEF CallsWellFormed, WellFormed

\* What a job has accounted for stays so when one call moves, if what the call held
\* it still holds for the same job, or is stored, invalid or given up.
LEMMA CallKeepsAccounts ==
    ASSUME CallsWellFormed, NEW s \in Slots, NEW c, WellFormed(c), calls' = [calls EXCEPT ![s] = c],
           Stored \subseteq Stored',
           \A j \in Jobs : missed[j] \subseteq missed'[j],
           \A m \in calls[s].todo :
              \/ m \in c.todo /\ c.job = calls[s].job
              \/ m \in Stored' \cup Invalid \cup missed'[calls[s].job]
    PROVE  \A j \in Jobs : Accounted(j) \subseteq Accounted(j)'
<1>1. SUFFICES ASSUME NEW j \in Jobs, NEW m \in InFlight(j) PROVE m \in Accounted(j)'
  BY DEF Accounted
<1>2. PICK r \in Slots : calls[r].job = j /\ m \in calls[r].todo
  BY DEF InFlight
<1>3. CASE r # s
  <2>1. calls'[r] = calls[r]
    BY <1>3 DEF CallsWellFormed
  <2>2. m \in InFlight(j)'
    BY <1>2, <2>1 DEF InFlight
  <2> QED  BY <2>2 DEF Accounted
<1>4. CASE r = s /\ m \in c.todo /\ c.job = calls[s].job
  <2>1. calls'[s] = c
    BY DEF CallsWellFormed
  <2>2. m \in InFlight(j)'
    BY <1>2, <1>4, <2>1 DEF InFlight
  <2> QED  BY <2>2 DEF Accounted
<1>5. CASE r = s /\ m \in Stored' \cup Invalid \cup missed'[calls[s].job]
  BY <1>2, <1>5 DEF Accounted
<1> QED  BY <1>2, <1>3, <1>4, <1>5

LEMMA CallsKeepAccounts ==
    ASSUME calls' = calls, Stored \subseteq Stored', \A j \in Jobs : missed[j] \subseteq missed'[j]
    PROVE  \A j \in Jobs : Accounted(j) \subseteq Accounted(j)'
BY DEF Accounted, InFlight

\* Nothing vanishes when accounts are kept and what leaves a scan is accounted for.
LEMMA ScansKept ==
    ASSUME ReadIsAccountedFor, \A j \in Jobs : Accounted(j) \subseteq Accounted(j)',
           \A t \in Tabs, j \in Jobs : scan'[t][j].phase # "idle" =>
              \/ scan'[t][j].left = FirstPages
              \/ /\ scan[t][j].phase # "idle"
                 /\ scan[t][j].left \cup scan[t][j].buf
                       \subseteq scan'[t][j].left \cup scan'[t][j].buf \cup Accounted(j)'
    PROVE  ReadIsAccountedFor'
BY DEF ReadIsAccountedFor

LEMMA ScanMoves ==
    ASSUME TypeOK, NEW t \in Tabs, NEW j \in Jobs, NEW x \in Scans,
           scan' = [scan EXCEPT ![t][j] = x]
    PROVE  /\ scan' \in [Tabs -> [Jobs -> Scans]]
           /\ scan'[t][j] = x
           /\ \A u \in Tabs, k \in Jobs : u # t \/ k # j => scan'[u][k] = scan[u][k]
BY DEF TypeOK

\* The scan of one job in one tab moves; what it gives away is accounted for.
LEMMA ScanStepKeeps ==
    ASSUME TypeOK, ReadIsAccountedFor, NEW t \in Tabs, NEW j \in Jobs, NEW x \in Scans,
           scan' = [scan EXCEPT ![t][j] = x],
           \A k \in Jobs : Accounted(k) \subseteq Accounted(k)',
           \/ x.phase = "idle"
           \/ x.left = FirstPages
           \/ /\ scan[t][j].phase # "idle"
              /\ scan[t][j].left \cup scan[t][j].buf \subseteq x.left \cup x.buf \cup Accounted(j)'
    PROVE  ReadIsAccountedFor' /\ scan' \in [Tabs -> [Jobs -> Scans]]
<1>1. /\ scan' \in [Tabs -> [Jobs -> Scans]]
      /\ scan'[t][j] = x
      /\ \A u \in Tabs, k \in Jobs : u # t \/ k # j => scan'[u][k] = scan[u][k]
  BY ScanMoves
<1> QED  BY <1>1, ScansKept

-----------------------------------------------------------------------------
(* The steps                                                               *)

LEMMA InitEstablishes == Init => SyncInv
<1> SUFFICES ASSUME Init PROVE SyncInv
  OBVIOUS
<1>1. TypeOK
  <2>1. WellFormed(Free) /\ NotScanned \in Scans
    BY NewCalls DEF NotScanned, Scans
  <2>2. Free.pc = "free"
    BY DEF Free, Call
  <2>3. 0 \in Nat /\ NoJob \in [status : JobStatuses, inserted : Nat]
    BY DEF NoJob, JobStatuses
  <2> QED  BY <2>1, <2>2, <2>3 DEF Init, TypeOK, WellFormed
<1>2. \A j \in Jobs : OwnedBy(j) = {}
  BY OwnersDistinct DEF Init, OwnedBy
<1>3. \A s \in Slots : OwnedBy(s) = {}
  BY OwnersDistinct DEF Init, OwnedBy
<1>4. InsertedIsExact
  BY <1>2, FS_EmptySet DEF Init, InsertedIsExact, NoJob
<1>5. BatchesAreExact
  BY <1>3, FS_EmptySet, NewCalls DEF Init, BatchesAreExact
<1>6. CallsInOrder
  BY NewCalls DEF Init, CallsInOrder
<1>7. ReadIsAccountedFor
  BY DEF Init, ReadIsAccountedFor, NotScanned
<1> QED  BY <1>1, <1>4, <1>5, <1>6, <1>7 DEF SyncInv

\* TypeOK and CallsInOrder after a step, from their parts.
LEMMA TypesAndOrder ==
    ASSUME jobs' \in [Jobs -> [status : JobStatuses, inserted : Nat]],
           asked' \in [Tabs -> SUBSET Jobs],
           scan' \in [Tabs -> [Jobs -> Scans]],
           CallsWellFormed',
           owner' \in [Messages -> Jobs \cup Slots \cup {None, Uncounted}],
           waiter' \in [Jobs -> {"none", "waiting", "timeout", "completed", "failed"}],
           missed' \in [Jobs -> SUBSET Messages],
           faults' \in Nat
    PROVE  TypeOK' /\ CallsInOrder'
BY DEF TypeOK, CallsWellFormed, WellFormed, CallsInOrder

LEMMA InvCalls == ASSUME SyncInv PROVE CallsWellFormed
BY CallsAreWellFormed DEF SyncInv, TypeOK

LEMMA StartKeeps ==
    ASSUME SyncInv, NEW j \in Jobs, NEW ts \in SUBSET Tabs, CreateJob(j), Ask(j, ts),
           waiter' \in [Jobs -> {"none", "waiting", "timeout", "completed", "failed"}],
           UNCHANGED <<scan, calls, owner, missed, faults>>
    PROVE  SyncInv'
<1> USE DEF SyncInv
<1>1. /\ jobs' \in [Jobs -> [status : JobStatuses, inserted : Nat]]
      /\ \A k \in Jobs : jobs'[k].inserted = jobs[k].inserted
  BY DEF TypeOK, CreateJob, JobStatuses
<1>2. asked' \in [Tabs -> SUBSET Jobs]
  BY DEF TypeOK, Ask
<1>3. InsertedIsExact' /\ BatchesAreExact'
  BY <1>1, CountsKept
<1>4. TypeOK' /\ CallsInOrder'
  BY <1>1, <1>2 DEF TypeOK, CallsInOrder
<1>5. ReadIsAccountedFor'
  BY DEF ReadIsAccountedFor, Accounted, InFlight, Stored
<1> QED  BY <1>3, <1>4, <1>5

LEMMA WaiterKeeps ==
    ASSUME SyncInv, NEW j \in Jobs, Answer(j) \/ GiveUp(j)
    PROVE  SyncInv'
<1> USE DEF SyncInv
<1>1. waiter' \in [Jobs -> {"none", "waiting", "timeout", "completed", "failed"}]
  BY DEF TypeOK, Answer, GiveUp
<1>2. UNCHANGED <<jobs, asked, scan, calls, owner, missed, faults>>
  BY DEF Answer, GiveUp
<1>3. TypeOK' /\ CallsInOrder'
  BY <1>1, <1>2 DEF TypeOK, CallsInOrder
<1>4. InsertedIsExact' /\ BatchesAreExact'
  BY <1>2, CountsKept
<1>5. ReadIsAccountedFor'
  BY <1>2 DEF ReadIsAccountedFor, Accounted, InFlight, Stored
<1> QED  BY <1>3, <1>4, <1>5

\* A tab takes a request up, or forgets everything: no call, row or count changes.
LEMMA BeginKeeps == ASSUME SyncInv, NEW t \in Tabs, NEW j \in Jobs, BeginScan(t, j) PROVE SyncInv'
<1> USE DEF SyncInv
<1>1. UNCHANGED <<jobs, calls, owner, waiter, missed, faults>> /\ asked' \in [Tabs -> SUBSET Jobs]
  BY DEF BeginScan, TypeOK
<1>2. InsertedIsExact' /\ BatchesAreExact'
  BY <1>1, CountsKept
<1>3. \A k \in Jobs : Accounted(k) \subseteq Accounted(k)'
  <2>1. Stored' = Stored
    BY <1>1 DEF Stored
  <2> QED  BY <1>1, <2>1, CallsKeepAccounts
<1>4. ReadIsAccountedFor' /\ scan' \in [Tabs -> [Jobs -> Scans]]
  <2>1. CASE scan' = scan
    <3>1. scan' \in [Tabs -> [Jobs -> Scans]]
      BY <2>1 DEF TypeOK
    <3>2. ReadIsAccountedFor'
      BY <1>3, <2>1 DEF ReadIsAccountedFor
    <3> QED  BY <3>1, <3>2
  <2>2. CASE scan' = [scan EXCEPT ![t][j] = Scanning(FirstPages, {})]
    <3>1. Scanning(FirstPages, {}) \in Scans /\ Scanning(FirstPages, {}).left = FirstPages
      BY SyncBounds DEF Scanning, Scans
    <3> QED  BY <1>3, <2>2, <3>1, ScanStepKeeps
  <2> QED  BY <2>1, <2>2 DEF BeginScan
<1>5. TypeOK' /\ CallsInOrder'
  BY <1>1, <1>4 DEF TypeOK, CallsInOrder
<1> QED  BY <1>2, <1>4, <1>5

LEMMA ReloadKeeps == ASSUME SyncInv, NEW t \in Tabs, Reload(t) PROVE SyncInv'
<1> USE DEF SyncInv
<1>1. /\ UNCHANGED <<jobs, calls, owner, waiter, missed>>
      /\ asked' \in [Tabs -> SUBSET Jobs]
      /\ faults' \in Nat
  BY DEF Reload, TypeOK, Fault
<1>2. /\ scan' \in [Tabs -> [Jobs -> Scans]]
      /\ \A u \in Tabs, k \in Jobs : scan'[u][k] = scan[u][k] \/ scan'[u][k].phase = "idle"
  BY DEF Reload, TypeOK, NotScanned, Scans
<1>3. InsertedIsExact' /\ BatchesAreExact'
  BY <1>1, CountsKept
<1>4. ReadIsAccountedFor'
  BY <1>1, <1>2 DEF ReadIsAccountedFor, Accounted, InFlight, Stored
<1>5. TypeOK' /\ CallsInOrder'
  BY <1>1, <1>2 DEF TypeOK, CallsInOrder
<1> QED  BY <1>3, <1>4, <1>5

\* A scan moves, and may put a new call into a free slot.
LEMMA ScanMoveKeeps ==
    ASSUME SyncInv, NEW t \in Tabs, NEW j \in Jobs, NEW x \in Scans,
           scan' = [scan EXCEPT ![t][j] = x],
           CallsWellFormed',
           \A s \in Slots : calls'[s].inserted = calls[s].inserted,
           missed' \in [Jobs -> SUBSET Messages], faults' \in Nat,
           \A k \in Jobs : Accounted(k) \subseteq Accounted(k)',
           \/ x.phase = "idle"
           \/ /\ scan[t][j].phase # "idle"
              /\ scan[t][j].left \cup scan[t][j].buf \subseteq x.left \cup x.buf \cup Accounted(j)',
           UNCHANGED <<jobs, asked, owner, waiter>>
    PROVE  SyncInv'
<1> USE DEF SyncInv
<1>1. ReadIsAccountedFor' /\ scan' \in [Tabs -> [Jobs -> Scans]]
  BY ScanStepKeeps
<1>2. InsertedIsExact' /\ BatchesAreExact'
  BY CountsKept
<1>3. TypeOK' /\ CallsInOrder'
  BY <1>1, TypesAndOrder DEF TypeOK
<1> QED  BY <1>1, <1>2, <1>3

\* A call is sent into a free slot: it is well formed, and what it carries is in flight.
LEMMA SendKeeps ==
    ASSUME SyncInv, NEW c, WellFormed(c), c.inserted = 0, Send(c), UNCHANGED <<owner, missed>>
    PROVE  /\ CallsWellFormed'
           /\ \A s \in Slots : calls'[s].inserted = calls[s].inserted
           /\ \A k \in Jobs : Accounted(k) \subseteq Accounted(k)'
           /\ c.todo \subseteq InFlight(c.job)'
<1>1. PICK s \in Slots : calls[s] = Free /\ calls' = [calls EXCEPT ![s] = c]
  BY DEF Send
<1>2. CallsWellFormed
  BY InvCalls
<1>3. CallsWellFormed' /\ calls'[s] = c /\ \A r \in Slots \ {s} : calls'[r] = calls[r]
  BY <1>1, <1>2, CallMoves
<1>4. Stored' = Stored
  BY DEF Stored
<1>5. \A k \in Jobs : Accounted(k) \subseteq Accounted(k)'
  BY <1>1, <1>2, <1>4, NewCalls, CallKeepsAccounts
<1>6. \A r \in Slots : calls'[r].inserted = calls[r].inserted
  BY <1>1, <1>3, NewCalls
<1>7. c.todo \subseteq InFlight(c.job)'
  BY <1>3 DEF InFlight
<1> QED  BY <1>3, <1>5, <1>6, <1>7

LEMMA ReadKeeps ==
    ASSUME SyncInv, NEW t \in Tabs, NEW j \in Jobs, NEW m \in Messages, ReadMessage(t, j, m)
    PROVE  SyncInv'
<1> DEFINE buf == scan[t][j].buf \cup {m}
           full == Cardinality(buf) >= BatchSize
           x == Scanning(scan[t][j].left \ {m}, IF full THEN {} ELSE buf)
<1> USE DEF SyncInv
<1>1. /\ scan[t][j].phase = "scanning"
      /\ scan' = [scan EXCEPT ![t][j] = x]
      /\ Emit(j, buf)
      /\ UNCHANGED <<jobs, asked, owner, waiter, missed, faults>>
  BY DEF ReadMessage
<1>2. scan[t][j] \in Scans /\ buf \in SUBSET Messages
  BY DEF TypeOK, Scans
<1>3. x \in Scans /\ x.left = scan[t][j].left \ {m} /\ x.buf = IF full THEN {} ELSE buf
  BY <1>2 DEF Scanning, Scans
<1>4. /\ CallsWellFormed'
      /\ \A s \in Slots : calls'[s].inserted = calls[s].inserted
      /\ \A k \in Jobs : Accounted(k) \subseteq Accounted(k)'
      /\ full => buf \subseteq Accounted(j)'
  <2>1. CASE full
    <3>1. Send(BatchCall(j, buf))
      BY <1>1, <2>1 DEF Emit
    <3>2. WellFormed(BatchCall(j, buf)) /\ BatchCall(j, buf).inserted = 0
          /\ BatchCall(j, buf).todo = buf /\ BatchCall(j, buf).job = j
      BY <1>2, NewCalls
    <3> HIDE DEF buf
    <3>3. /\ CallsWellFormed'
          /\ \A s \in Slots : calls'[s].inserted = calls[s].inserted
          /\ \A k \in Jobs : Accounted(k) \subseteq Accounted(k)'
          /\ buf \subseteq InFlight(j)'
      BY <1>1, <3>1, <3>2, SendKeeps
    <3> QED  BY <3>3 DEF Accounted
  <2>2. CASE ~full
    <3>1. calls' = calls
      BY <1>1, <2>2 DEF Emit
    <3>2. Stored' = Stored
      BY <1>1 DEF Stored
    <3>3. \A k \in Jobs : Accounted(k) \subseteq Accounted(k)'
      BY <1>1, <3>1, <3>2, CallsKeepAccounts
    <3>4. CallsWellFormed'
      BY <3>1, InvCalls DEF CallsWellFormed, WellFormed
    <3> QED  BY <2>2, <3>1, <3>3, <3>4
  <2> QED  BY <2>1, <2>2
<1>5. scan[t][j].left \cup scan[t][j].buf \subseteq x.left \cup x.buf \cup Accounted(j)'
  BY <1>3, <1>4
<1>6. missed' \in [Jobs -> SUBSET Messages] /\ faults' \in Nat
  BY <1>1 DEF TypeOK
<1> HIDE DEF x, buf, full
<1> QED  BY <1>1, <1>3, <1>4, <1>5, <1>6, ScanMoveKeeps

LEMMA SkipKeeps ==
    ASSUME SyncInv, NEW t \in Tabs, NEW j \in Jobs, NEW ms \in SUBSET Messages, SkipMessages(t, j, ms)
    PROVE  SyncInv'
<1> DEFINE x == Scanning(scan[t][j].left \ ms, scan[t][j].buf)
<1> USE DEF SyncInv
<1>1. /\ scan[t][j].phase = "scanning"
      /\ scan' = [scan EXCEPT ![t][j] = x]
      /\ missed' = [missed EXCEPT ![j] = @ \cup ms]
      /\ UNCHANGED <<jobs, asked, calls, owner, waiter>>
      /\ faults' = faults + 1
  BY DEF SkipMessages, Fault
<1>2. x \in Scans /\ x.left = scan[t][j].left \ ms /\ x.buf = scan[t][j].buf
  BY DEF TypeOK, Scans, Scanning
<1>3. /\ missed' \in [Jobs -> SUBSET Messages] /\ faults' \in Nat
      /\ ms \subseteq missed'[j] /\ \A k \in Jobs : missed[k] \subseteq missed'[k]
  BY <1>1 DEF TypeOK
<1>4. \A k \in Jobs : Accounted(k) \subseteq Accounted(k)'
  <2>1. Stored' = Stored
    BY <1>1 DEF Stored
  <2> QED  BY <1>1, <1>3, <2>1, CallsKeepAccounts
<1>5. scan[t][j].left \cup scan[t][j].buf \subseteq x.left \cup x.buf \cup Accounted(j)'
  BY <1>2, <1>3 DEF Accounted
<1>6. CallsWellFormed'
  BY <1>1, InvCalls DEF CallsWellFormed, WellFormed
<1> HIDE DEF x
<1> QED  BY <1>1, <1>2, <1>3, <1>4, <1>5, <1>6, ScanMoveKeeps

LEMMA FlushKeeps ==
    ASSUME SyncInv, NEW t \in Tabs, NEW j \in Jobs, FlushRest(t, j)
    PROVE  SyncInv'
<1> DEFINE x == Scanning(scan[t][j].left, {})
           buf == scan[t][j].buf
<1> USE DEF SyncInv
<1>1. /\ scan[t][j].phase = "scanning"
      /\ scan' = [scan EXCEPT ![t][j] = x]
      /\ Send(BatchCall(j, buf))
      /\ UNCHANGED <<jobs, asked, owner, waiter, missed, faults>>
  BY DEF FlushRest
<1>2. x \in Scans /\ x.left = scan[t][j].left /\ buf \in SUBSET Messages
  BY DEF TypeOK, Scans, Scanning
<1>3. WellFormed(BatchCall(j, buf)) /\ BatchCall(j, buf).inserted = 0
      /\ BatchCall(j, buf).todo = buf /\ BatchCall(j, buf).job = j
  BY <1>2, NewCalls
<1>4. /\ CallsWellFormed'
      /\ \A s \in Slots : calls'[s].inserted = calls[s].inserted
      /\ \A k \in Jobs : Accounted(k) \subseteq Accounted(k)'
      /\ buf \subseteq InFlight(j)'
  <2> HIDE DEF buf
  <2> QED  BY <1>1, <1>3, SendKeeps
<1>5. scan[t][j].left \cup scan[t][j].buf \subseteq x.left \cup x.buf \cup Accounted(j)'
  BY <1>2, <1>4 DEF Accounted
<1>6. missed' \in [Jobs -> SUBSET Messages] /\ faults' \in Nat
  BY <1>1 DEF TypeOK
<1> HIDE DEF x
<1> QED  BY <1>1, <1>2, <1>4, <1>5, <1>6, ScanMoveKeeps

LEMMA EndKeeps ==
    ASSUME SyncInv, NEW t \in Tabs, NEW j \in Jobs, EndScan(t, j)
    PROVE  SyncInv'
<1> DEFINE x == [scan[t][j] EXCEPT !.phase = "done"]
           c == CompleteCall(j, "completed")
<1> USE DEF SyncInv
<1>1. /\ scan[t][j].phase = "scanning"
      /\ scan' = [scan EXCEPT ![t][j] = x]
      /\ Send(c)
      /\ UNCHANGED <<jobs, asked, owner, waiter, missed, faults>>
  BY DEF EndScan
<1>2. x \in Scans /\ x.left = scan[t][j].left /\ x.buf = scan[t][j].buf
  <2>1. scan[t][j] \in Scans
    BY DEF TypeOK
  <2> QED  BY <2>1 DEF Scans
<1>3. WellFormed(c) /\ c.inserted = 0
  BY NewCalls
<1>4. missed' \in [Jobs -> SUBSET Messages] /\ faults' \in Nat
  BY <1>1 DEF TypeOK
<1> HIDE DEF x, c
<1>5. /\ CallsWellFormed'
      /\ \A s \in Slots : calls'[s].inserted = calls[s].inserted
      /\ \A k \in Jobs : Accounted(k) \subseteq Accounted(k)'
  BY <1>1, <1>3, SendKeeps
<1> QED  BY <1>1, <1>2, <1>4, <1>5, ScanMoveKeeps

LEMMA FailScanKeeps ==
    ASSUME SyncInv, NEW t \in Tabs, NEW j \in Jobs, FailScan(t, j)
    PROVE  SyncInv'
<1> DEFINE c == CompleteCall(j, "failed")
<1> USE DEF SyncInv
<1>1. /\ scan' = [scan EXCEPT ![t][j] = NotScanned]
      /\ Send(c)
      /\ UNCHANGED <<jobs, asked, owner, waiter, missed>>
      /\ faults' = faults + 1
  BY DEF FailScan, Fault
<1>2. NotScanned \in Scans /\ NotScanned.phase = "idle"
  BY DEF NotScanned, Scans
<1>3. WellFormed(c) /\ c.inserted = 0
  BY NewCalls
<1>4. missed' \in [Jobs -> SUBSET Messages] /\ faults' \in Nat
  BY <1>1 DEF TypeOK
<1> HIDE DEF c
<1>5. /\ CallsWellFormed'
      /\ \A s \in Slots : calls'[s].inserted = calls[s].inserted
      /\ \A k \in Jobs : Accounted(k) \subseteq Accounted(k)'
  BY <1>1, <1>3, SendKeeps
<1> QED  BY <1>1, <1>2, <1>4, <1>5, ScanMoveKeeps

\* A step of the backend leaves the tabs alone.
LEMMA BackendKeeps ==
    ASSUME SyncInv,
           UNCHANGED <<asked, scan, waiter>>,
           jobs' \in [Jobs -> [status : JobStatuses, inserted : Nat]],
           CallsWellFormed',
           owner' \in [Messages -> Jobs \cup Slots \cup {None, Uncounted}],
           missed' \in [Jobs -> SUBSET Messages], faults' \in Nat,
           InsertedIsExact', BatchesAreExact',
           \A k \in Jobs : Accounted(k) \subseteq Accounted(k)'
    PROVE  SyncInv'
<1> USE DEF SyncInv
<1>1. ReadIsAccountedFor'
  BY DEF ReadIsAccountedFor
<1>2. TypeOK' /\ CallsInOrder'
  BY TypesAndOrder DEF TypeOK
<1> QED  BY <1>1, <1>2

LEMMA CheckKeeps == ASSUME SyncInv, NEW s \in Slots, CheckBatch(s) PROVE SyncInv'
<1> USE DEF SyncInv
<1>1. CallsWellFormed /\ calls[s].pc = "check" /\ calls[s].inserted = 0 /\ calls[s].job \in Jobs
      /\ calls[s] \in Calls
  BY InvCalls DEF CheckBatch, CallsWellFormed, WellFormed
<1>2. UNCHANGED <<jobs, asked, scan, owner, waiter, faults>> /\ Stored' = Stored
  BY DEF CheckBatch, Stored
<1>3. CASE jobs[calls[s].job].status = "running"
  <2> DEFINE c == [calls[s] EXCEPT !.pc = "insert"]
  <2>1. calls' = [calls EXCEPT ![s] = c] /\ missed' = missed
    BY <1>3 DEF CheckBatch
  <2>2. WellFormed(c) /\ c.todo = calls[s].todo /\ c.job = calls[s].job /\ c.inserted = 0
    BY <1>1 DEF WellFormed, Calls
  <2> HIDE DEF c
  <2>3. CallsWellFormed' /\ calls'[s] = c /\ \A r \in Slots \ {s} : calls'[r] = calls[r]
    BY <1>1, <2>1, <2>2, CallMoves
  <2>4. \A k \in Jobs : Accounted(k) \subseteq Accounted(k)'
    BY <1>1, <1>2, <2>1, <2>2, CallKeepsAccounts
  <2>5. \A r \in Slots : calls'[r].inserted = calls[r].inserted
    BY <1>1, <2>2, <2>3
  <2>6. InsertedIsExact' /\ BatchesAreExact'
    BY <1>2, <2>5, CountsKept
  <2> QED  BY <1>2, <2>1, <2>3, <2>4, <2>6, BackendKeeps DEF TypeOK
<1>4. CASE jobs[calls[s].job].status # "running"
  <2>1. calls' = [calls EXCEPT ![s] = Free]
        /\ missed' = [missed EXCEPT ![calls[s].job] = @ \cup calls[s].todo]
    BY <1>4 DEF CheckBatch
  <2>2. /\ missed' \in [Jobs -> SUBSET Messages]
        /\ \A k \in Jobs : missed[k] \subseteq missed'[k]
        /\ calls[s].todo \subseteq missed'[calls[s].job]
    BY <1>1, <2>1 DEF TypeOK, Calls
  <2>3. CallsWellFormed' /\ calls'[s] = Free /\ \A r \in Slots \ {s} : calls'[r] = calls[r]
    BY <1>1, <2>1, NewCalls, CallMoves
  <2>4. \A k \in Jobs : Accounted(k) \subseteq Accounted(k)'
    BY <1>1, <1>2, <2>1, <2>2, NewCalls, CallKeepsAccounts
  <2>5. \A r \in Slots : calls'[r].inserted = calls[r].inserted
    BY <1>1, <2>3, NewCalls
  <2>6. InsertedIsExact' /\ BatchesAreExact'
    BY <1>2, <2>5, CountsKept
  <2> QED  BY <1>2, <2>2, <2>3, <2>4, <2>6, BackendKeeps DEF TypeOK
<1> QED  BY <1>3, <1>4

LEMMA FailInsertKeeps ==
    ASSUME SyncInv, NEW s \in Slots, NEW m \in Messages, FailInsert(s, m)
    PROVE  SyncInv'
<1> DEFINE c == [calls[s] EXCEPT !.todo = @ \ {m}]
<1> USE DEF SyncInv
<1>1. CallsWellFormed /\ calls[s].pc = "insert" /\ calls[s].job \in Jobs /\ calls[s] \in Calls
  BY InvCalls DEF FailInsert, CallsWellFormed, WellFormed
<1>2. /\ UNCHANGED <<jobs, asked, scan, owner, waiter>> /\ Stored' = Stored
      /\ calls' = [calls EXCEPT ![s] = c]
      /\ missed' = [missed EXCEPT ![calls[s].job] = @ \cup {m}]
      /\ faults' = faults + 1
  BY DEF FailInsert, Stored, Fault
<1>3. WellFormed(c) /\ c.todo = calls[s].todo \ {m} /\ c.job = calls[s].job
      /\ c.inserted = calls[s].inserted
  BY <1>1 DEF WellFormed, Calls
<1>4. /\ missed' \in [Jobs -> SUBSET Messages] /\ faults' \in Nat
      /\ \A k \in Jobs : missed[k] \subseteq missed'[k]
      /\ m \in missed'[calls[s].job]
  BY <1>1, <1>2 DEF TypeOK
<1> HIDE DEF c
<1>5. CallsWellFormed' /\ calls'[s] = c /\ \A r \in Slots \ {s} : calls'[r] = calls[r]
  BY <1>1, <1>2, <1>3, CallMoves
<1>6. \A k \in Jobs : Accounted(k) \subseteq Accounted(k)'
  BY <1>1, <1>2, <1>3, <1>4, CallKeepsAccounts
<1>7. InsertedIsExact' /\ BatchesAreExact'
  BY <1>2, <1>3, <1>5, CountsKept
<1> QED  BY <1>2, <1>4, <1>5, <1>6, <1>7, BackendKeeps DEF TypeOK

LEMMA InsertKeeps ==
    ASSUME SyncInv, NEW s \in Slots, NEW m \in Messages, InsertMessage(s, m)
    PROVE  SyncInv'
<1> DEFINE fresh == m \notin Invalid /\ IsNew(m)
           n == IF fresh THEN calls[s].inserted + 1 ELSE calls[s].inserted
           c == [calls[s] EXCEPT !.todo = @ \ {m}, !.inserted = n]
<1> USE DEF SyncInv
<1>1. CallsWellFormed /\ calls[s].pc = "insert" /\ calls[s].job \in Jobs /\ calls[s] \in Calls
      /\ calls[s].inserted \in Nat
  BY InvCalls DEF InsertMessage, CallsWellFormed, WellFormed, Calls
<1>2. /\ UNCHANGED <<jobs, asked, scan, waiter, missed, faults>>
      /\ calls' = [calls EXCEPT ![s] = c]
      /\ owner' = IF fresh THEN [owner EXCEPT ![m] = s] ELSE owner
  BY DEF InsertMessage
<1>3. WellFormed(c) /\ c.todo = calls[s].todo \ {m} /\ c.job = calls[s].job
      /\ c.inserted = n
  <2>1. n \in Nat
    BY <1>1
  <2> HIDE DEF n
  <2> QED  BY <1>1, <2>1 DEF WellFormed, Calls
<1>4. CallsWellFormed' /\ calls'[s] = c /\ \A r \in Slots \ {s} : calls'[r] = calls[r]
  <2> HIDE DEF c
  <2> QED  BY <1>1, <1>2, <1>3, CallMoves
<1>5. /\ InsertedIsExact' /\ BatchesAreExact'
      /\ Stored \subseteq Stored' /\ m \in Stored' \cup Invalid
  <2>1. CASE fresh
    <3>1. owner[m] = None /\ s # None /\ owner' = [owner EXCEPT ![m] = s]
      BY <1>2, <2>1, OwnersDistinct DEF IsNew
    <3>2. /\ Cardinality(OwnedBy(s)') = Cardinality(OwnedBy(s)) + 1
          /\ \A p : p # s /\ p # None => OwnedBy(p)' = OwnedBy(p)
          /\ Stored' = Stored \cup {m}
      BY <3>1, RowInserted
    <3>3. InsertedIsExact'
      BY <1>2, <3>2, OwnersDistinct DEF InsertedIsExact
    <3>4. BatchesAreExact'
      <4>1. SUFFICES ASSUME NEW r \in Slots PROVE calls'[r].inserted = Cardinality(OwnedBy(r)')
        BY DEF BatchesAreExact
      <4>2. CASE r = s
        BY <1>3, <1>4, <2>1, <3>2, <4>2 DEF BatchesAreExact
      <4>3. CASE r # s
        <5>1. calls'[r] = calls[r] /\ OwnedBy(r)' = OwnedBy(r)
          BY <1>4, <3>2, <4>3, OwnersDistinct
        <5> QED  BY <5>1 DEF BatchesAreExact
      <4> QED  BY <4>2, <4>3
    <3> QED  BY <3>2, <3>3, <3>4
  <2>2. CASE ~fresh
    <3>1. owner' = owner /\ c.inserted = calls[s].inserted
      BY <1>2, <1>3, <2>2
    <3>2. InsertedIsExact' /\ BatchesAreExact'
      BY <1>2, <1>4, <3>1, CountsKept
    <3>3. Stored' = Stored /\ m \in Stored \cup Invalid
      BY <2>2, <3>1 DEF Stored, IsNew
    <3> QED  BY <3>2, <3>3
  <2> QED  BY <2>1, <2>2
<1>6. owner' \in [Messages -> Jobs \cup Slots \cup {None, Uncounted}]
  BY <1>2 DEF TypeOK
<1> HIDE DEF c, fresh
<1>7. \A k \in Jobs : Accounted(k) \subseteq Accounted(k)'
  BY <1>1, <1>2, <1>3, <1>5, CallKeepsAccounts
<1> QED  BY <1>2, <1>4, <1>5, <1>6, <1>7, BackendKeeps DEF TypeOK

\* The rows of a batch become rows of its job, and its count goes to the job's counter.
LEMMA RecordKeeps == ASSUME SyncInv, NEW s \in Slots, RecordBatch(s) PROVE SyncInv'
<1> USE DEF SyncInv
<1>0. CallsWellFormed /\ calls[s].todo = {} /\ calls[s].job \in Jobs /\ calls[s].inserted \in Nat
  BY InvCalls DEF RecordBatch, CallsWellFormed, WellFormed, Calls
<1> PICK j \in Jobs : j = calls[s].job
  BY <1>0
<1>1. CallsWellFormed /\ calls[s].todo = {} /\ j = calls[s].job /\ calls[s].inserted \in Nat
  BY <1>0
<1>2. /\ UNCHANGED <<asked, scan, waiter, missed, faults>>
      /\ jobs' = [jobs EXCEPT ![j].inserted = @ + calls[s].inserted]
      /\ owner' = Reown(s, j)
      /\ calls' = [calls EXCEPT ![s] = Free]
  BY <1>1 DEF RecordBatch, Counted
<1>3. CallsWellFormed' /\ calls'[s] = Free /\ \A r \in Slots \ {s} : calls'[r] = calls[r]
  BY <1>1, <1>2, NewCalls, CallMoves
<1>4. s # j /\ s # None /\ j # None
  BY <1>1, OwnersDistinct
<1>5. /\ Cardinality(OwnedBy(j)') = Cardinality(OwnedBy(j)) + Cardinality(OwnedBy(s))
      /\ Cardinality(OwnedBy(s)') = 0
      /\ \A p : p # s /\ p # j => OwnedBy(p)' = OwnedBy(p)
      /\ Stored' = Stored
  BY <1>2, <1>4, RowsReowned
<1>6. /\ jobs' \in [Jobs -> [status : JobStatuses, inserted : Nat]]
      /\ jobs'[j].inserted = jobs[j].inserted + calls[s].inserted
      /\ \A k \in Jobs \ {j} : jobs'[k] = jobs[k]
  BY <1>1, <1>2 DEF TypeOK
<1>7. InsertedIsExact'
  <2>1. SUFFICES ASSUME NEW k \in Jobs PROVE jobs'[k].inserted = Cardinality(OwnedBy(k)')
    BY DEF InsertedIsExact
  <2>2. CASE k = j
    <3>1. jobs[j].inserted = Cardinality(OwnedBy(j)) /\ calls[s].inserted = Cardinality(OwnedBy(s))
      BY DEF InsertedIsExact, BatchesAreExact
    <3> QED  BY <1>5, <1>6, <2>2, <3>1
  <2>3. CASE k # j
    BY <1>5, <1>6, <2>3, OwnersDistinct DEF InsertedIsExact
  <2> QED  BY <2>2, <2>3
<1>8. BatchesAreExact'
  <2>1. SUFFICES ASSUME NEW r \in Slots PROVE calls'[r].inserted = Cardinality(OwnedBy(r)')
    BY DEF BatchesAreExact
  <2>2. CASE r = s
    BY <1>3, <1>5, <2>2, NewCalls
  <2>3. CASE r # s
    BY <1>1, <1>3, <1>5, <2>3, OwnersDistinct DEF BatchesAreExact
  <2> QED  BY <2>2, <2>3
<1>9. \A k \in Jobs : Accounted(k) \subseteq Accounted(k)'
  BY <1>1, <1>2, <1>5, NewCalls, CallKeepsAccounts
<1>10. owner' \in [Messages -> Jobs \cup Slots \cup {None, Uncounted}]
  BY <1>1, <1>2 DEF TypeOK, Reown
<1> QED  BY <1>2, <1>3, <1>6, <1>7, <1>8, <1>9, <1>10, BackendKeeps DEF TypeOK

LEMMA CompleteKeeps == ASSUME SyncInv, NEW s \in Slots, CompleteJob(s) PROVE SyncInv'
<1> USE DEF SyncInv
<1>1. CallsWellFormed /\ calls[s].todo = {} /\ calls[s].inserted = 0 /\ calls[s].job \in Jobs
  BY InvCalls DEF CompleteJob, CallsWellFormed, WellFormed
<1>2. /\ UNCHANGED <<asked, scan, owner, waiter, missed, faults>> /\ Stored' = Stored
      /\ calls' = [calls EXCEPT ![s] = Free]
      /\ jobs' = [jobs EXCEPT ![calls[s].job].status = calls[s].status]
  BY DEF CompleteJob, Stored
<1>3. CallsWellFormed' /\ calls'[s] = Free /\ \A r \in Slots \ {s} : calls'[r] = calls[r]
  BY <1>1, <1>2, NewCalls, CallMoves
<1>4. /\ jobs' \in [Jobs -> [status : JobStatuses, inserted : Nat]]
      /\ \A k \in Jobs : jobs'[k].inserted = jobs[k].inserted
  <2>1. calls[s].status \in JobStatuses
    BY DEF TypeOK, Calls, JobStatuses
  <2> QED  BY <1>1, <1>2, <2>1 DEF TypeOK
<1>5. \A r \in Slots : calls'[r].inserted = calls[r].inserted
  BY <1>1, <1>3, NewCalls
<1>6. InsertedIsExact' /\ BatchesAreExact'
  BY <1>2, <1>4, <1>5, CountsKept
<1>7. \A k \in Jobs : Accounted(k) \subseteq Accounted(k)'
  BY <1>1, <1>2, NewCalls, CallKeepsAccounts
<1> QED  BY <1>2, <1>3, <1>4, <1>6, <1>7, BackendKeeps DEF TypeOK

LEMMA LoseKeeps == ASSUME SyncInv, NEW s \in Slots, LoseCall(s) PROVE SyncInv'
<1> USE DEF SyncInv
<1>1. CallsWellFormed /\ calls[s].job \in Jobs /\ calls[s] \in Calls
  BY InvCalls DEF LoseCall, CallsWellFormed, WellFormed
<1>2. /\ UNCHANGED <<jobs, asked, scan, waiter>>
      /\ calls' = [calls EXCEPT ![s] = Free]
      /\ owner' = Reown(s, Uncounted)
      /\ missed' = [missed EXCEPT ![calls[s].job] = @ \cup calls[s].todo]
      /\ faults' = faults + 1
  BY DEF LoseCall, Fault
<1>3. CallsWellFormed' /\ calls'[s] = Free /\ \A r \in Slots \ {s} : calls'[r] = calls[r]
  BY <1>1, <1>2, NewCalls, CallMoves
<1>4. s # Uncounted /\ s # None /\ Uncounted # None
  BY OwnersDistinct, OwnersDiffer
<1>5. /\ Cardinality(OwnedBy(s)') = 0
      /\ \A p : p # s /\ p # Uncounted => OwnedBy(p)' = OwnedBy(p)
      /\ Stored' = Stored
  BY <1>2, <1>4, RowsReowned
<1>6. /\ missed' \in [Jobs -> SUBSET Messages] /\ faults' \in Nat
      /\ \A k \in Jobs : missed[k] \subseteq missed'[k]
      /\ calls[s].todo \subseteq missed'[calls[s].job]
  BY <1>1, <1>2 DEF TypeOK, Calls
<1>7. InsertedIsExact'
  BY <1>2, <1>5, OwnersDistinct DEF InsertedIsExact
<1>8. BatchesAreExact'
  <2>1. SUFFICES ASSUME NEW r \in Slots PROVE calls'[r].inserted = Cardinality(OwnedBy(r)')
    BY DEF BatchesAreExact
  <2>2. CASE r = s
    BY <1>3, <1>5, <2>2, NewCalls
  <2>3. CASE r # s
    BY <1>3, <1>5, <2>3, OwnersDistinct DEF BatchesAreExact
  <2> QED  BY <2>2, <2>3
<1>9. \A k \in Jobs : Accounted(k) \subseteq Accounted(k)'
  BY <1>1, <1>2, <1>5, <1>6, NewCalls, CallKeepsAccounts
<1>10. owner' \in [Messages -> Jobs \cup Slots \cup {None, Uncounted}]
  BY <1>2 DEF TypeOK, Reown
<1>11. jobs' \in [Jobs -> [status : JobStatuses, inserted : Nat]]
  BY <1>2 DEF TypeOK
<1> QED  BY <1>2, <1>3, <1>6, <1>7, <1>8, <1>9, <1>10, <1>11, BackendKeeps

LEMMA StepsKeep == SyncInv /\ [Next]_vars => SyncInv'
<1> SUFFICES ASSUME SyncInv, [Next]_vars PROVE SyncInv'
  OBVIOUS
<1>1. ASSUME NEW j \in Jobs, StartStep(j) PROVE SyncInv'
  <2>1. PICK ts \in SUBSET Tabs : StartFromPopup(j, ts) \/ \E wait \in BOOLEAN : StartFromAgent(j, ts, wait)
    BY <1>1 DEF StartStep
  <2>2. waiter' \in [Jobs -> {"none", "waiting", "timeout", "completed", "failed"}]
    <3>1. waiter \in [Jobs -> {"none", "waiting", "timeout", "completed", "failed"}]
      BY DEF SyncInv, TypeOK
    <3> QED  BY <2>1, <3>1 DEF StartFromPopup, StartFromAgent
  <2>3. CreateJob(j) /\ Ask(j, ts) /\ UNCHANGED <<scan, calls, owner, missed, faults>>
    BY <2>1 DEF StartFromPopup, StartFromAgent
  <2> QED  BY <2>2, <2>3, StartKeeps
<1>2. ASSUME NEW t \in Tabs, NEW j \in Jobs, ScanStep(t, j) PROVE SyncInv'
  BY <1>2, BeginKeeps, ReadKeeps, FlushKeeps, EndKeeps DEF ScanStep
<1>3. ASSUME NEW s \in Slots, CallStep(s) PROVE SyncInv'
  BY <1>3, CheckKeeps, InsertKeeps, RecordKeeps, CompleteKeeps DEF CallStep
<1>4. ASSUME FaultStep PROVE SyncInv'
  BY <1>4, FailScanKeeps, SkipKeeps, ReloadKeeps, LoseKeeps, FailInsertKeeps DEF FaultStep
<1>5. CASE UNCHANGED vars
  BY <1>5 DEF vars, SyncInv, TypeOK, InsertedIsExact, BatchesAreExact, CallsInOrder, OwnedBy,
              ReadIsAccountedFor, Accounted, InFlight, Stored
<1> QED  BY <1>1, <1>2, <1>3, <1>4, <1>5, WaiterKeeps DEF Next

-----------------------------------------------------------------------------
(* The theorems                                                            *)

\* The inductive invariant holds of every behaviour.
THEOREM SyncInvariant == Spec => []SyncInv
<1>1. Init => SyncInv
  BY InitEstablishes
<1>2. SyncInv /\ [Next]_vars => SyncInv'
  BY StepsKeep
<1> QED  BY <1>1, <1>2, PTL DEF Spec

\* Every variable keeps its shape.
THEOREM SyncTypes == Spec => []TypeOK
<1>1. SyncInv => TypeOK
  BY DEF SyncInv
<1> QED  BY <1>1, SyncInvariant, PTL

\* inserted_messages of every job is the number of rows its batches inserted,
\* whatever the number of tabs, jobs and concurrent calls.
THEOREM CountersAreExact == Spec => []InsertedIsExact
<1>1. SyncInv => InsertedIsExact
  BY DEF SyncInv
<1> QED  BY <1>1, SyncInvariant, PTL

\* No message a scan asks for vanishes without its job having given it up.
THEOREM ScansAccountForWhatTheyRead == Spec => []ReadIsAccountedFor
<1>1. SyncInv => ReadIsAccountedFor
  BY DEF SyncInv
<1> QED  BY <1>1, SyncInvariant, PTL
=============================================================================
