---------------------------- MODULE MiningQueue ----------------------------
(***************************************************************************)
(* The queue of mining jobs, one row a space, that the user fills over     *)
(* HTTP and the mining skill works off. Every handler runs one statement,  *)
(* except the enqueueing of a job, which reads the row and then writes it. *)
(* The skill is another program: its calls come at any time, from what it  *)
(* last read. The facts it posts are not here: creating one is always a    *)
(* 500 on SQLite, so the table they would go to stays empty.               *)
(***************************************************************************)
EXTENDS Naturals

CONSTANTS
    Spaces,     \* space keys
    Requests,   \* bound: POST mining-queue calls open at one time
    Miners,     \* sessions of the mining skill
    MaxTip      \* bound: id of a space's newest message

ASSUME TipBound == MaxTip \in Nat

VARIABLES
    jobs,       \* the table space_facts_mining_jobs, by space
    req,        \* POST mining-queue calls between their two statements
    miner,      \* what each session of the skill is at
    tip,        \* newest message of each space
    owed,       \* history: spaces accepted for mining and not read since
    raced       \* history: a row changed between the statements of a call

vars == <<jobs, req, miner, tip, owed, raced>>

JobStatuses == {"pending", "running", "completed", "failed"}
NoJob == [status |-> "none", mined |-> 0, err |-> FALSE]
Jobs == [status : JobStatuses, mined : 0 .. MaxTip, err : BOOLEAN]

Free == [pc |-> "free"]
Calls == [pc : {"write"}, space : Spaces, saw : {"none", "completed", "failed"}]
Idle == [pc |-> "idle"]
Sessions ==
    [pc : {"listed", "claimed"}, space : Spaces]
        \cup [pc : {"mining"}, space : Spaces, upto : 0 .. MaxTip]

\* The rows of the queue are those the schema allows.
TypeOK ==
    /\ jobs \in [Spaces -> Jobs \cup {NoJob}]
    /\ req \in [Requests -> Calls \cup {Free}]
    /\ miner \in [Miners -> Sessions \cup {Idle}]
    /\ tip \in [Spaces -> 0 .. MaxTip]
    /\ owed \subseteq Spaces
    /\ raced \in BOOLEAN

Init ==
    /\ jobs = [s \in Spaces |-> NoJob]
    /\ req = [r \in Requests |-> Free]
    /\ miner = [m \in Miners |-> Idle]
    /\ tip = [s \in Spaces |-> 0]
    /\ owed = {}
    /\ raced = FALSE

-----------------------------------------------------------------------------
(* EnqueueMiningJob.                                                       *)

\* The answer that a job is pending promises a mining that begins later.
Accept(s) == owed' = owed \cup {s}

\* SELECT. A running job is refused (409), a pending one is left alone.
MutantEnqueueDecides(r, s) ==
    \/ jobs[s].status \in {"pending", "running"} /\ Accept(s) /\ UNCHANGED req
    \/ /\ jobs[s].status \in {"none", "completed", "failed"}
       /\ req' = [req EXCEPT ![r] = [pc |-> "write", space |-> s, saw |-> jobs[s].status]]
       /\ UNCHANGED owed
EnqueueDecides(r, s) ==
    \/ jobs[s].status = "running" /\ UNCHANGED <<req, owed>>
    \/ jobs[s].status = "pending" /\ Accept(s) /\ UNCHANGED req
    \/ /\ jobs[s].status \in {"none", "completed", "failed"}
       /\ req' = [req EXCEPT ![r] = [pc |-> "write", space |-> s, saw |-> jobs[s].status]]
       /\ UNCHANGED owed

EnqueueReads(r, s) ==
    /\ req[r] = Free
    /\ EnqueueDecides(r, s)
    /\ UNCHANGED <<jobs, miner, tip, raced>>

\* The row the second statement leaves: the progress of earlier minings stays.
MutantResetForgets(j) == [status |-> "pending", mined |-> 0, err |-> FALSE]
Reset(j) == [status |-> "pending", mined |-> j.mined, err |-> FALSE]

\* INSERT or UPDATE, by what the SELECT saw. A second INSERT breaks the
\* UNIQUE on space_key and is a 500.
EnqueueWrites(r) ==
    /\ req[r] # Free
    /\ LET s == req[r].space
           clash == req[r].saw = "none" /\ jobs[s] # NoJob
       IN /\ jobs' = IF clash THEN jobs ELSE [jobs EXCEPT ![s] = Reset(@)]
          /\ IF clash THEN UNCHANGED owed ELSE Accept(s)
          /\ raced' = (raced \/ jobs[s].status # req[r].saw)
    /\ req' = [req EXCEPT ![r] = Free]
    /\ UNCHANGED <<miner, tip>>

-----------------------------------------------------------------------------
(* The mining skill, as specs/features/f014-space-facts-mining.md has it.  *)

\* PatchMiningJob: any status but failed clears the error, and what is not
\* given stays. It does not look at the row's status.
MutantCompleted(upto) == [status |-> "completed", mined |-> upto + 1, err |-> FALSE]
Completed(upto) == [status |-> "completed", mined |-> upto, err |-> FALSE]
Failed(j) == [status |-> "failed", mined |-> j.mined, err |-> TRUE]
Running(j) == [status |-> "running", mined |-> j.mined, err |-> FALSE]

\* ListMiningJobs: the pending ones, of which the session takes one up.
MinerLists(m, s) ==
    /\ miner[m] = Idle
    /\ jobs[s].status = "pending"
    /\ miner' = [miner EXCEPT ![m] = [pc |-> "listed", space |-> s]]
    /\ UNCHANGED <<jobs, req, tip, owed, raced>>

\* PATCH status running.
MinerClaims(m) ==
    /\ miner[m].pc = "listed"
    /\ jobs' = [jobs EXCEPT ![miner[m].space] = Running(@)]
    /\ miner' = [miner EXCEPT ![m] = [pc |-> "claimed", space |-> @.space]]
    /\ UNCHANGED <<req, tip, owed, raced>>

\* GET /api/messages: what it mines is what is there now.
MinerReads(m) ==
    /\ miner[m].pc = "claimed"
    /\ miner' = [miner EXCEPT ![m] =
                    [pc |-> "mining", space |-> @.space, upto |-> tip[@.space]]]
    /\ owed' = owed \ {miner[m].space}
    /\ UNCHANGED <<jobs, req, tip, raced>>

\* PATCH completed with last_mined_message_id, or failed with error_message; posting
\* the facts found changes nothing.
MinerFinishes(m) ==
    /\ miner[m].pc = "mining"
    /\ \/ jobs' = [jobs EXCEPT ![miner[m].space] = Completed(miner[m].upto)]
       \/ jobs' = [jobs EXCEPT ![miner[m].space] = Failed(@)]
    /\ miner' = [miner EXCEPT ![m] = Idle]
    /\ UNCHANGED <<req, tip, owed, raced>>

\* The session ends half way: the job stays running.
MinerDies(m) ==
    /\ miner[m] # Idle
    /\ miner' = [miner EXCEPT ![m] = Idle]
    /\ UNCHANGED <<jobs, req, tip, owed, raced>>

NewMessage(s) ==
    /\ tip[s] < MaxTip
    /\ tip' = [tip EXCEPT ![s] = @ + 1]
    /\ UNCHANGED <<jobs, req, miner, owed, raced>>

-----------------------------------------------------------------------------
Next ==
    \/ \E s \in Spaces : NewMessage(s)
    \/ \E r \in Requests : EnqueueWrites(r) \/ \E s \in Spaces : EnqueueReads(r, s)
    \/ \E m \in Miners :
          \/ MinerClaims(m) \/ MinerReads(m) \/ MinerFinishes(m) \/ MinerDies(m)
          \/ \E s \in Spaces : MinerLists(m, s)

Spec == Init /\ [][Next]_vars

-----------------------------------------------------------------------------
OneSession == \A m, n \in Miners : m = n

\* With one mining session, a space that was accepted for mining ("pending" in
\* the answer) is not finished by a mining that had read its messages before,
\* unless a row changed between the two statements of an enqueueing.
EnqueueHonoured ==
    OneSession /\ ~ raced =>
        \A s \in owed : jobs[s].status \in {"pending", "running"}

\* error_message is that of the last mining: it goes with status failed.
ErrorIsCurrent == \A s \in Spaces : jobs[s].err = (jobs[s].status = "failed")

\* last_mined_message_id never goes back: no later mining, and no new
\* enqueueing, forgets how far one session had come.
MinedNeverBack ==
    [][OneSession => \A s \in Spaces : jobs'[s].mined >= jobs[s].mined]_vars

\* "Existing row with status running -> returns (nil, false, ErrMiningJobRunning)":
\* a job a session works on is not put back in the queue by an enqueueing.
RunningStays ==
    [][\A s \in Spaces : jobs[s].status = "running" => jobs'[s].status # "pending"]_vars
=============================================================================
