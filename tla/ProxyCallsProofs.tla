-------------------------- MODULE ProxyCallsProofs --------------------------
(***************************************************************************)
(* What ProxyCalls promises, for any number of calls and tabs, any channel *)
(* capacity and any number of faults.                                      *)
(***************************************************************************)
EXTENDS ProxyCalls, TLAPS

\* A 2xx result, on its way or in a channel, is of a call Chat performed.
Truthful ==
    /\ \A t \in Tabs : \A f \in frames[t] : f.res = "done" => f.call \in applied
    /\ \A c \in Calls : answer[c] = "done" => c \in applied

\* The inductive invariant.
IInv ==
    /\ TypeOK
    /\ Truthful
    /\ VerdictEarned
    /\ NoWaiterLeft
    /\ NoAnswerLost

LEMMA InitIInv == Init => IInv
<1> SUFFICES ASSUME Init PROVE IInv
    OBVIOUS
<1>1. TypeOK
    <2>1. catalog \in BOOLEAN
        BY DEF Init
    <2>2. faults \in 0 .. MaxFaults
        BY ProxyBounds DEF Init
    <2> QED BY <2>1, <2>2 DEF Init, TypeOK, Results, None, Verdicts
<1>2. Truthful /\ VerdictEarned /\ NoWaiterLeft /\ NoAnswerLost
    BY DEF Init, Truthful, VerdictEarned, NoWaiterLeft, NoAnswerLost, None, InProgress
<1> QED BY <1>1, <1>2 DEF IInv

\* Each action keeps the invariant: one lemma for each family of actions.

LEMMA PushStep == IInv /\ (PushAuth \/ PushCatalog) => IInv'
<1> SUFFICES ASSUME IInv, PushAuth \/ PushCatalog PROVE IInv'
    OBVIOUS
<1> USE DEF IInv
<1>1. UNCHANGED <<at, waiting, answer, wire, tab, ghost, faults>>
    BY DEF PushAuth, PushCatalog
<1>2. TypeOK'
    BY <1>1 DEF TypeOK, PushAuth, PushCatalog, wire, tab, ghost
<1>3. Truthful' /\ VerdictEarned' /\ NoWaiterLeft'
    BY <1>1 DEF Truthful, VerdictEarned, NoWaiterLeft, InProgress, tab, ghost
<1>4. NoAnswerLost'
    BY <1>1 DEF NoAnswerLost, Carries, wire, tab, ghost
<1> QED BY <1>2, <1>3, <1>4

LEMMA StartStep == ASSUME IInv, NEW c \in Calls, Start(c) PROVE IInv'
<1> USE DEF IInv
<1>0. /\ at[c] = "idle"
      /\ UNCHANGED <<auth, catalog, wire, tab, ghost, faults>>
      /\ \/ at' = [at EXCEPT ![c] = "registered"] /\ AwaitProxy(c)
         \/ at' = [at EXCEPT ![c] = "failed"] /\ UNCHANGED <<waiting, answer>>
    BY DEF Start, handleSendMessage, handleReaction, batchexecuteCall, Begin
<1>1. TypeOK'
    BY <1>0 DEF TypeOK, AwaitProxy, wire, tab, ghost, Verdicts
<1>2. Truthful'
    BY <1>0 DEF Truthful, TypeOK, AwaitProxy, None, tab, ghost
<1>3. VerdictEarned'
    BY <1>0 DEF VerdictEarned, TypeOK, ghost
<1>4. NoWaiterLeft'
    BY <1>0 DEF NoWaiterLeft, TypeOK, AwaitProxy, InProgress
<1>5. NoAnswerLost'
    BY <1>0 DEF NoAnswerLost, Carries, TypeOK, AwaitProxy, wire, tab, ghost
<1> QED BY <1>1, <1>2, <1>3, <1>4, <1>5

LEMMA PublishStep == ASSUME IInv, NEW c \in Calls, Publish(c) PROVE IInv'
<1> USE DEF IInv
<1>1. TypeOK'
    BY DEF TypeOK, Publish, Reached, tab
<1>2. Truthful' /\ VerdictEarned' /\ NoWaiterLeft'
    BY DEF Publish, Truthful, VerdictEarned, NoWaiterLeft, InProgress, TypeOK, tab
<1>3. NoAnswerLost'
    BY DEF Publish, NoAnswerLost, Carries, TypeOK, Reached, tab
<1> QED BY <1>1, <1>2, <1>3

LEMMA ReturnStep ==
    ASSUME IInv, NEW c \in Calls, Receive(c) \/ Expire(c) PROVE IInv'
<1> USE DEF IInv
<1>0. /\ at[c] = "waiting"
      /\ \/ at' = [at EXCEPT ![c] = Verdict(answer[c])]
         \/ at' = [at EXCEPT ![c] = "failed"]
      /\ waiting' = waiting \ {c}
      /\ answer' = [answer EXCEPT ![c] = None]
      /\ UNCHANGED <<auth, catalog, wire, tab, ghost, faults>>
    BY DEF Receive, Expire, Cleanup
<1>1. TypeOK'
    BY <1>0 DEF TypeOK, Verdict, Verdicts, wire, tab, ghost
<1>2. Truthful' /\ NoWaiterLeft'
    BY <1>0 DEF Truthful, NoWaiterLeft, InProgress, TypeOK, Verdict, None, tab, ghost
<1>3. VerdictEarned'
    BY <1>0 DEF VerdictEarned, Truthful, TypeOK, Verdict, ghost
<1>4. NoAnswerLost'
    BY <1>0 DEF NoAnswerLost, Carries, TypeOK, Verdict, wire, tab, ghost
<1> QED BY <1>1, <1>2, <1>3, <1>4

LEMMA TakeStep ==
    ASSUME IInv, NEW t \in Tabs, NEW c \in Calls, TakeRequest(t, c) PROVE IInv'
<1> USE DEF IInv
<1>1. TypeOK'
    BY DEF TypeOK, TakeRequest, backend, ghost
<1>2. Truthful' /\ VerdictEarned' /\ NoWaiterLeft'
    BY DEF TakeRequest, Truthful, VerdictEarned, NoWaiterLeft, InProgress, backend, ghost
<1>3. NoAnswerLost'
    BY DEF TakeRequest, NoAnswerLost, Carries, TypeOK, backend, ghost
<1> QED BY <1>1, <1>2, <1>3

LEMMA AnswerStep ==
    ASSUME IInv, NEW t \in Tabs, NEW c \in Calls, Answer(t, c) PROVE IInv'
<1> USE DEF IInv
<1>1. PICK r \in Results :
          /\ \/ applied' = applied \cup {c}
             \/ r = "failed" /\ UNCHANGED applied
          /\ WsSend(t, Frame(c, r))
    BY DEF Answer
<1>2. /\ c \in xhr[t]
      /\ xhr' = [xhr EXCEPT ![t] = @ \ {c}]
      /\ UNCHANGED <<backend, wire, faults>>
    BY DEF Answer
<1> DEFINE f == [call |-> c, res |-> r]
<1>3. \/ frames' = [frames EXCEPT ![t] = @ \cup {f}] /\ UNCHANGED owed
      \/ UNCHANGED frames /\ owed' = [owed EXCEPT ![c] = @ \ {t}]
    BY <1>1 DEF WsSend, Frame
<1>4. f \in [call : Calls, res : Results] /\ f.call = c /\ f.res = r
    OBVIOUS
<1> HIDE DEF f
<1>5. TypeOK'
    BY <1>1, <1>2, <1>3, <1>4 DEF TypeOK, backend, wire
<1>6. Truthful'
    BY <1>1, <1>2, <1>3, <1>4 DEF Truthful, TypeOK, backend
<1>7. VerdictEarned' /\ NoWaiterLeft'
    BY <1>1, <1>2 DEF VerdictEarned, NoWaiterLeft, InProgress, backend
<1>8. NoAnswerLost'
    <2> SUFFICES ASSUME NEW d \in Calls, at[d] = "waiting", answer[d] = None,
                        NEW u \in owed'[d]
                 PROVE Carries(u, d)'
        BY <1>2 DEF NoAnswerLost, backend
    <2>1. u \in Tabs /\ u \in owed[d] /\ (u # t \/ d # c \/ UNCHANGED owed)
        BY <1>3 DEF TypeOK
    <2>2. Carries(u, d)
        BY <2>1 DEF NoAnswerLost
    <2>3. CASE u = t /\ d = c
        <3>1. f \in frames'[t]
            BY <1>3, <2>1, <2>3 DEF TypeOK
        <3> QED BY <3>1, <1>4, <2>3 DEF Carries
    <2>4. CASE ~ (u = t /\ d = c)
        BY <1>2, <1>3, <2>1, <2>2, <2>4 DEF Carries, TypeOK, wire
    <2> QED BY <2>3, <2>4
<1> QED BY <1>5, <1>6, <1>7, <1>8

LEMMA ConnectStep == ASSUME IInv, NEW t \in Tabs, Connect(t) PROVE IInv'
<1> USE DEF IInv
<1>1. TypeOK'
    BY DEF TypeOK, Connect, backend, tab, ghost
<1>2. Truthful' /\ VerdictEarned' /\ NoWaiterLeft' /\ NoAnswerLost'
    BY DEF Connect, Truthful, VerdictEarned, NoWaiterLeft, NoAnswerLost, Carries,
           InProgress, backend, tab, ghost
<1> QED BY <1>1, <1>2

LEMMA ReadStep == ASSUME IInv, NEW t \in Tabs, Read(t) PROVE IInv'
<1> USE DEF IInv
<1>1. PICK f \in frames[t] :
          /\ frames' = [frames EXCEPT ![t] = @ \ {f}]
          /\ answer' = IF f.call \in waiting /\ answer[f.call] = None
                       THEN [answer EXCEPT ![f.call] = f.res] ELSE answer
    BY DEF Read, CompleteProxy
<1>2. UNCHANGED <<auth, catalog, at, waiting, wire, xhr, ghost, faults>>
    BY DEF Read
<1>3. f.call \in Calls /\ f.res \in Results /\ f.res # None
    BY DEF TypeOK, Results, None
<1>4. TypeOK'
    BY <1>1, <1>2, <1>3 DEF TypeOK, wire, ghost
<1>5. Truthful'
    BY <1>1, <1>2, <1>3 DEF Truthful, TypeOK, ghost
<1>6. VerdictEarned' /\ NoWaiterLeft'
    BY <1>2 DEF VerdictEarned, NoWaiterLeft, InProgress, ghost
<1>7. NoAnswerLost'
    <2> SUFFICES ASSUME NEW d \in Calls, at[d] = "waiting", answer'[d] = None,
                        NEW u \in owed[d]
                 PROVE Carries(u, d)'
        BY <1>2 DEF NoAnswerLost, ghost
    <2>1. d \in waiting
        BY DEF NoWaiterLeft, InProgress
    <2>2. d # f.call /\ answer[d] = None
        BY <1>1, <1>3, <2>1 DEF TypeOK
    <2>3. Carries(u, d) /\ u \in Tabs
        BY <2>2 DEF NoAnswerLost, TypeOK
    <2> QED BY <1>1, <1>2, <2>2, <2>3 DEF Carries, TypeOK, wire
<1> QED BY <1>4, <1>5, <1>6, <1>7

LEMMA SocketFaultStep ==
    ASSUME IInv, NEW t \in Tabs, Disconnect(t) \/ Reload(t) PROVE IInv'
<1> USE DEF IInv
<1>1. /\ UNCHANGED backend
      /\ up' = up \ {t}
      /\ sub' = [sub EXCEPT ![t] = {}]
      /\ frames' = [frames EXCEPT ![t] = {}]
      /\ faults < MaxFaults /\ faults' = faults + 1
    BY DEF Disconnect, Reload, Faulty
<1>2. \/ /\ UNCHANGED <<xhr, applied>>
         /\ owed' = [c \in Calls |-> IF c \in xhr[t] THEN owed[c] ELSE owed[c] \ {t}]
      \/ /\ xhr' = [xhr EXCEPT ![t] = {}]
         /\ \E C \in SUBSET xhr[t] : applied' = applied \cup C
         /\ owed' = [c \in Calls |-> owed[c] \ {t}]
    BY DEF Disconnect, Reload
<1>3. applied \subseteq applied' /\ applied' \subseteq Calls
    BY <1>2 DEF TypeOK
<1>4. TypeOK'
    <2>1. faults' \in 0 .. MaxFaults
        BY <1>1, ProxyBounds DEF TypeOK
    <2>2. xhr' \in [Tabs -> SUBSET Calls] /\ owed' \in [Calls -> SUBSET Tabs]
        BY <1>2 DEF TypeOK
    <2> QED BY <1>1, <1>3, <2>1, <2>2 DEF TypeOK, backend
<1>5. Truthful' /\ VerdictEarned' /\ NoWaiterLeft'
    BY <1>1, <1>3 DEF Truthful, VerdictEarned, NoWaiterLeft, InProgress, TypeOK, backend
<1>6. NoAnswerLost'
    <2> SUFFICES ASSUME NEW d \in Calls, at[d] = "waiting", answer[d] = None,
                        NEW u \in owed'[d]
                 PROVE Carries(u, d)'
        BY <1>1 DEF NoAnswerLost, backend
    <2>1. u \in owed[d] /\ u \in Tabs /\ (u # t \/ (d \in xhr[t] /\ UNCHANGED xhr))
        BY <1>2 DEF TypeOK
    <2>2. Carries(u, d)
        BY <2>1 DEF NoAnswerLost
    <2> QED BY <1>1, <1>2, <2>1, <2>2 DEF Carries, TypeOK
<1> QED BY <1>4, <1>5, <1>6

LEMMA RestartStep == IInv /\ Restart => IInv'
<1> SUFFICES ASSUME IInv, Restart PROVE IInv'
    OBVIOUS
<1> USE DEF IInv
<1>1. TypeOK'
    <2>1. faults' \in 0 .. MaxFaults
        BY ProxyBounds DEF TypeOK, Restart, Faulty
    <2> QED BY <2>1 DEF TypeOK, Restart, Verdicts, InProgress, None, ghost
<1>2. Truthful' /\ VerdictEarned' /\ NoWaiterLeft'
    BY DEF Restart, Truthful, VerdictEarned, NoWaiterLeft, InProgress, TypeOK, None, ghost
<1>3. NoAnswerLost'
    BY DEF Restart, NoAnswerLost, InProgress, TypeOK
<1> QED BY <1>1, <1>2, <1>3

LEMMA StepIInv == IInv /\ [Next]_vars => IInv'
<1> SUFFICES ASSUME IInv, [Next]_vars PROVE IInv'
    OBVIOUS
<1>1. CASE UNCHANGED vars
    BY <1>1 DEF IInv, TypeOK, Truthful, VerdictEarned, NoWaiterLeft, NoAnswerLost,
                Carries, InProgress, vars, backend, wire, tab, ghost
<1>2. CASE Next
    <2>1. ASSUME NEW c \in Calls, Start(c) \/ Publish(c) \/ Receive(c) \/ Expire(c)
          PROVE IInv'
        BY <2>1, StartStep, PublishStep, ReturnStep
    <2>2. ASSUME NEW t \in Tabs, TabStep(t) PROVE IInv'
        BY <2>2, ConnectStep, ReadStep, SocketFaultStep, TakeStep, AnswerStep DEF TabStep
    <2> QED BY <1>2, <2>1, <2>2, PushStep, RestartStep DEF Next
<1> QED BY <1>1, <1>2

\* The types of the proxy's state, and the facts below, hold for ever.
THEOREM CallsTyped == Spec => []TypeOK
<1>1. Spec => []IInv
    BY InitIInv, StepIInv, PTL DEF Spec
<1> QED BY <1>1, PTL DEF IInv

\* A caller told 200 has had its own call performed: no answer of another
\* call, late, repeated or of another tab, is taken for it.
THEOREM OkIsEarned == Spec => []VerdictEarned
<1>1. Spec => []IInv
    BY InitIInv, StepIInv, PTL DEF Spec
<1> QED BY <1>1, PTL DEF IInv

\* proxyWaiters holds the running calls and nothing else.
THEOREM WaitersAreCleaned == Spec => []NoWaiterLeft
<1>1. Spec => []IInv
    BY InitIInv, StepIInv, PTL DEF Spec
<1> QED BY <1>1, PTL DEF IInv

\* The answer a healthy tab owes a waiting handler is always under way.
THEOREM AnswersSurvive == Spec => []NoAnswerLost
<1>1. Spec => []IInv
    BY InitIInv, StepIInv, PTL DEF Spec
<1> QED BY <1>1, PTL DEF IInv
=============================================================================
