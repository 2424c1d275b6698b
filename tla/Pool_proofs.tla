----------------------------- MODULE Pool_proofs -----------------------------
(***************************************************************************)
(* Proofs about Pool, for any set of calls: its types, the inductive       *)
(* invariant PoolInv that says where in the pipeline queue -> worker ->    *)
(* reactor every call is, and what follows from it.                        *)
(***************************************************************************)
EXTENDS Pool, TLAPS

InQueue(j)  == \E i \in DOMAIN queue : queue[i] = j
InReply(j)  == \E i \in DOMAIN threadCalls : threadCalls[i].call = j
Late        == issued \ due

\* The worker holds a call exactly while it runs it; there is no worker
\* before the reactor runs.
HoldsWhileRunning == /\ (worker = "run") <=> (current # NoCall)
                     /\ (reactor = "init") => (worker = "unborn")

\* A call is in one place of the pipeline, once; one that was answered has
\* left it.
InOnePlace ==
  /\ \A i, k \in DOMAIN queue : queue[i] = queue[k] => i = k
  /\ \A i, k \in DOMAIN threadCalls :
        threadCalls[i].call = threadCalls[k].call => i = k
  /\ \A i \in DOMAIN queue : /\ queue[i] # current
                             /\ answer[queue[i]] = NoCall
                             /\ ~InReply(queue[i])
  /\ \A i \in DOMAIN threadCalls : /\ threadCalls[i].call # current
                                   /\ answer[threadCalls[i].call] = NoCall
  /\ current # NoCall => answer[current] = NoCall

\* Only calls that were invoked, and StopCall, enter the pipeline.
OnlyIssued ==
  /\ \A i \in DOMAIN queue : queue[i] \in issued \cup {StopCall}
  /\ \A i \in DOMAIN threadCalls : threadCalls[i].call \in issued \cup {StopCall}
  /\ current \in issued \cup {StopCall, NoCall}
  /\ \A c \in Calls : answer[c] # NoCall => c \in issued

\* A call that was invoked is in the pipeline until it is answered.
Accounted ==
  \A c \in issued : answer[c] # NoCall \/ InQueue(c) \/ current = c \/ InReply(c)

\* Before the shutdown trigger nothing is due and StopCall is nowhere.
BeforeShutdown ==
  reactor \in {"init", "running"} =>
    /\ due = {}
    /\ ~InQueue(StopCall) /\ current # StopCall /\ ~InReply(StopCall)
    /\ answer[StopCall] = NoCall
    /\ started <=> (reactor = "running")

\* While the reactor waits, StopCall is behind every call that is due and
\* before every late one; once it has run, the worker takes nothing more.
DuringShutdown ==
  reactor = "stopping" =>
    /\ InQueue(StopCall) \/ current = StopCall \/ InReply(StopCall)
    /\ answer[StopCall] = NoCall
    /\ \A i, k \in DOMAIN queue : queue[k] = StopCall /\ queue[i] \in due => i < k
    /\ \A i, k \in DOMAIN queue : queue[k] = StopCall /\ queue[i] \in Late => k < i
    /\ ~InQueue(StopCall) => \A i \in DOMAIN queue : queue[i] \notin due
    /\ InReply(StopCall) =>
         /\ ~started /\ worker \in {"test", "dead"}
         /\ \A i, k \in DOMAIN threadCalls :
              threadCalls[k].call = StopCall /\ threadCalls[i].call \in due => i < k

\* Late calls stay in the queue for ever.
LateStayQueued ==
  reactor \in {"stopping", "down"} =>
     /\ \A c \in Late : InQueue(c) /\ answer[c] = NoCall

AfterShutdown ==
  reactor = "down" => /\ ~started /\ worker \in {"test", "dead"}
                      /\ \A c \in due : answer[c] # NoCall

PoolInv ==
  /\ TypeOK
  /\ HoldsWhileRunning
  /\ InOnePlace
  /\ OnlyIssued
  /\ Accounted
  /\ BeforeShutdown
  /\ DuringShutdown
  /\ LateStayQueued
  /\ AfterShutdown

-----------------------------------------------------------------------------
\* What Append and Tail do, index by index.
LEMMA AppendAt ==
  ASSUME NEW S, NEW s \in Seq(S), NEW e \in S
  PROVE  /\ Append(s, e) \in Seq(S)
         /\ Len(s) \in Nat
         /\ DOMAIN s = 1..Len(s)
         /\ DOMAIN Append(s, e) = 1..(Len(s) + 1)
         /\ \A i \in DOMAIN s : Append(s, e)[i] = s[i]
         /\ Append(s, e)[Len(s) + 1] = e
  OBVIOUS

LEMMA TailAt ==
  ASSUME NEW S, NEW s \in Seq(S), s # <<>>
  PROVE  /\ Tail(s) \in Seq(S)
         /\ Len(s) \in Nat \ {0}
         /\ DOMAIN s = 1..Len(s)
         /\ DOMAIN Tail(s) = 1..(Len(s) - 1)
         /\ \A i \in DOMAIN Tail(s) : i + 1 \in DOMAIN s /\ Tail(s)[i] = s[i + 1]
         /\ Head(s) = s[1]
         /\ Head(s) \in S
  OBVIOUS

-----------------------------------------------------------------------------
\* The types and the worker's hand: inductive together (a worker that ran
\* without a call would post a reply to nobody).
LEMMA TypesInductive ==
  /\ Init => TypeOK /\ HoldsWhileRunning
  /\ TypeOK /\ HoldsWhileRunning /\ [Next]_vars => (TypeOK /\ HoldsWhileRunning)'
  <1> USE PoolAssumption
  <1>1. Init => TypeOK /\ HoldsWhileRunning
    <2>1. Init => answer \in [Jobs -> Outcomes \cup {NoCall}]
      BY DEF Init
    <2>2. Init => queue \in Seq(Jobs) /\ threadCalls \in Seq([call : Jobs, outcome : Outcomes])
      BY DEF Init
    <2>3. Init => TypeOK
      BY <2>1, <2>2 DEF Init, TypeOK
    <2>4. Init => HoldsWhileRunning
      BY DEF Init, HoldsWhileRunning
    <2>5. QED
      BY <2>3, <2>4
  <1>2. ASSUME TypeOK, HoldsWhileRunning, [Next]_vars
        PROVE  TypeOK' /\ HoldsWhileRunning'
    <2> USE <1>2 DEF TypeOK, HoldsWhileRunning, Jobs, Outcomes
    <2>1. ASSUME NEW c \in Calls, Invoke(c)
          PROVE  TypeOK' /\ HoldsWhileRunning'
      BY <2>1 DEF Invoke
    <2>2. CASE Start
      <3>1. started' \in BOOLEAN /\ worker' \in {worker, "test"}
        BY <2>2 DEF Start
      <3>2. current = NoCall
        BY <2>2 DEF Start
      <3>3. QED
        BY <2>2, <3>1, <3>2 DEF Start
    <2>3. CASE Shutdown
      BY <2>3 DEF Shutdown
    <2>4. CASE Deliver
      <3>1. /\ Head(threadCalls) \in [call : Jobs, outcome : Outcomes]
            /\ Tail(threadCalls) \in Seq([call : Jobs, outcome : Outcomes])
        BY <2>4, TailAt DEF Deliver
      <3>2. QED
        BY <2>4, <3>1 DEF Deliver
    <2>5. CASE Test
      BY <2>5 DEF Test
    <2>6. CASE Take
      BY <2>6, TailAt DEF Take
    <2>7. ASSUME NEW o \in Outcomes, Run(o)
          PROVE  TypeOK' /\ HoldsWhileRunning'
      <3>1. started' \in BOOLEAN
        BY <2>7 DEF Run
      <3>2. threadCalls' \in Seq([call : Jobs, outcome : Outcomes])
        BY <2>7 DEF Run
      <3>3. QED
        BY <2>7, <3>1, <3>2 DEF Run
    <2>8. CASE UNCHANGED vars
      BY <2>8 DEF vars
    <2>9. QED
      BY <2>1, <2>2, <2>3, <2>4, <2>5, <2>6, <2>7, <2>8 DEF Next, Worker
  <1>3. QED
    BY <1>1, <1>2

\* Pool keeps to its types, whatever the set of calls (pool.py:8-39).
THEOREM PoolTypes == Spec => []TypeOK
  BY TypesInductive, PTL DEF Spec

-----------------------------------------------------------------------------
\* The pipeline invariant, action by action.
LEMMA InvariantInductive == PoolInv /\ [Next]_vars => PoolInv'
  <1> SUFFICES ASSUME PoolInv, [Next]_vars PROVE PoolInv'
    OBVIOUS
  <1> USE PoolAssumption
  <1>0. TypeOK' /\ HoldsWhileRunning'
    BY TypesInductive DEF PoolInv
  <1> USE <1>0
  <1> DEFINE Rest == /\ InOnePlace
                     /\ OnlyIssued
                     /\ Accounted
                     /\ BeforeShutdown
                     /\ DuringShutdown
                     /\ LateStayQueued
                     /\ AfterShutdown
  <1>1. ASSUME NEW c \in Calls, Invoke(c) PROVE Rest'
    <2> USE <1>1 DEF PoolInv, TypeOK, Jobs, InQueue, InReply, Late, Invoke
    <2>a. /\ Len(queue) \in Nat
          /\ DOMAIN queue = 1..Len(queue)
          /\ DOMAIN queue' = 1..(Len(queue) + 1)
          /\ \A i \in DOMAIN queue : queue'[i] = queue[i]
          /\ queue'[Len(queue) + 1] = c
      BY AppendAt
    <2>b. /\ answer[c] = NoCall /\ current # c /\ ~InReply(c) /\ ~InQueue(c)
      BY DEF OnlyIssued
    <2>1. InOnePlace'
      BY <2>a, <2>b DEF InOnePlace
    <2>2. OnlyIssued'
      BY <2>a DEF OnlyIssued
    <2>3. Accounted'
      <3>1. \A j : InQueue(j) => InQueue(j)'
        BY <2>a
      <3>2. InQueue(c)'
        BY <2>a
      <3>3. QED
        BY <3>1, <3>2 DEF Accounted
    <2>4. BeforeShutdown'
      BY <2>a DEF BeforeShutdown
    <2>5. DuringShutdown'
      BY <2>a, <2>b DEF DuringShutdown
    <2>6. LateStayQueued'
      BY <2>a, <2>b DEF LateStayQueued
    <2>7. AfterShutdown'
      BY DEF AfterShutdown
    <2>8. QED
      BY <2>1, <2>2, <2>3, <2>4, <2>5, <2>6, <2>7
  <1>2. CASE Start
    BY <1>2 DEF PoolInv, TypeOK, Start, InOnePlace, OnlyIssued, Accounted, BeforeShutdown,
       DuringShutdown, LateStayQueued, AfterShutdown, InQueue, InReply, Late
  <1>3. CASE Shutdown
    <2> USE <1>3 DEF PoolInv, TypeOK, Jobs, InQueue, InReply, Late, Shutdown
    <2>a. /\ Len(queue) \in Nat
          /\ DOMAIN queue = 1..Len(queue)
          /\ DOMAIN queue' = 1..(Len(queue) + 1)
          /\ \A i \in DOMAIN queue : queue'[i] = queue[i]
          /\ queue'[Len(queue) + 1] = StopCall
      BY AppendAt
    <2>b. /\ answer[StopCall] = NoCall /\ current # StopCall
          /\ ~InReply(StopCall) /\ ~InQueue(StopCall)
      BY DEF BeforeShutdown
    <2>1. InOnePlace'
      BY <2>a, <2>b DEF InOnePlace
    <2>2. OnlyIssued'
      BY <2>a DEF OnlyIssued
    <2>3. Accounted'
      <3>1. \A j : InQueue(j) => InQueue(j)'
        BY <2>a
      <3>2. QED
        BY <3>1 DEF Accounted
    <2>4. DuringShutdown'
      BY <2>a, <2>b DEF DuringShutdown
    <2>5. QED
      BY <2>1, <2>2, <2>3, <2>4 DEF BeforeShutdown, LateStayQueued, AfterShutdown
  <1>4. CASE Deliver
    <2> DEFINE r == Head(threadCalls)
    <2> USE <1>4 DEF PoolInv, TypeOK, Jobs, InQueue, InReply, Late
    <2>a. /\ Len(threadCalls) \in Nat \ {0}
          /\ DOMAIN threadCalls = 1..Len(threadCalls)
          /\ DOMAIN threadCalls' = 1..(Len(threadCalls) - 1)
          /\ \A i \in DOMAIN threadCalls' : /\ i + 1 \in DOMAIN threadCalls
                                            /\ threadCalls'[i] = threadCalls[i + 1]
          /\ r = threadCalls[1]
          /\ r.call \in Jobs
          /\ r.outcome \in Outcomes
      <3>1. threadCalls \in Seq([call : Jobs, outcome : Outcomes]) /\ threadCalls # <<>>
        BY DEF Deliver
      <3>2. threadCalls' = Tail(threadCalls)
        BY DEF Deliver
      <3>3. r \in [call : Jobs, outcome : Outcomes]
        BY <3>1, TailAt
      <3>4. QED
        BY <3>1, <3>2, <3>3, TailAt
    <2>b. /\ answer' = [answer EXCEPT ![r.call] = r.outcome]
          /\ reactor' = IF r.call = StopCall THEN "down" ELSE reactor
          /\ reactor \in {"running", "stopping"}
          /\ UNCHANGED <<started, worker, queue, current, issued, due>>
      BY DEF Deliver
    <2>c. /\ answer'[r.call] # NoCall
          /\ \A j \in Jobs : j # r.call => answer'[j] = answer[j]
      BY <2>a, <2>b DEF Outcomes
    <2>d. /\ \A i \in DOMAIN queue : queue[i] # r.call
          /\ current # r.call
          /\ \A i \in DOMAIN threadCalls' : threadCalls'[i].call # r.call
          /\ r.call \in issued \cup {StopCall}
      <3>1. 1 \in DOMAIN threadCalls
        BY <2>a
      <3>2. \A i \in DOMAIN queue : queue[i] # r.call
        BY <2>a, <3>1 DEF InOnePlace
      <3>3. current # r.call
        BY <2>a, <3>1 DEF InOnePlace
      <3>4. \A i \in DOMAIN threadCalls' : threadCalls'[i].call # r.call
        BY <2>a, <3>1 DEF InOnePlace
      <3>5. r.call \in issued \cup {StopCall}
        BY <2>a, <3>1 DEF OnlyIssued
      <3>6. QED
        BY <3>2, <3>3, <3>4, <3>5
    <2> HIDE DEF r
    <2>1. InOnePlace'
      BY <2>a, <2>b, <2>c, <2>d DEF InOnePlace
    <2>2. OnlyIssued'
      BY <2>a, <2>b, <2>c, <2>d DEF OnlyIssued
    <2>e. \A j : InReply(j) => InReply(j)' \/ j = r.call
      <3> SUFFICES ASSUME NEW j, j # r.call,
                          NEW i \in DOMAIN threadCalls, threadCalls[i].call = j
                   PROVE  \E k \in DOMAIN threadCalls' : threadCalls'[k].call = j
        OBVIOUS
      <3>1. i # 1 /\ i - 1 \in DOMAIN threadCalls'
        BY <2>a
      <3>2. threadCalls'[i - 1] = threadCalls[i]
        BY <2>a, <3>1
      <3>3. QED
        BY <3>1, <3>2
    <2>f. \A j : InReply(j)' => InReply(j)
      BY <2>a
    <2>g. r.call = StopCall => InReply(StopCall) /\ reactor = "stopping"
      BY <2>a, <2>b DEF BeforeShutdown
    <2>3. Accounted'
      BY <2>b, <2>c, <2>e DEF Accounted
    <2>4. BeforeShutdown'
      BY <2>a, <2>b, <2>c, <2>d DEF BeforeShutdown
    <2>5. DuringShutdown'
      <3> SUFFICES ASSUME r.call # StopCall, reactor = "stopping" PROVE DuringShutdown'
        BY <2>b DEF DuringShutdown
      <3>1. /\ InQueue(StopCall) \/ current = StopCall \/ InReply(StopCall)'
            /\ answer'[StopCall] = NoCall
        BY <2>c, <2>e DEF DuringShutdown
      <3>2. ASSUME InReply(StopCall)'
            PROVE  /\ ~started /\ worker \in {"test", "dead"}
                   /\ \A i, k \in DOMAIN threadCalls' :
                        threadCalls'[k].call = StopCall /\ threadCalls'[i].call \in due => i < k
        <4>1. InReply(StopCall)
          BY <3>2, <2>f
        <4>2. \A i, k \in DOMAIN threadCalls' : i + 1 < k + 1 => i < k
          BY <2>a
        <4>3. QED
          BY <4>1, <4>2, <2>a DEF DuringShutdown
      <3>3. QED
        BY <3>1, <3>2, <2>b DEF DuringShutdown
    <2>6. LateStayQueued'
      <3> SUFFICES ASSUME reactor = "stopping" PROVE LateStayQueued'
        BY <2>b, <2>g DEF LateStayQueued
      <3>1. \A c \in Late : c # r.call
        BY <2>d DEF LateStayQueued
      <3>2. QED
        BY <3>1, <2>b, <2>c DEF LateStayQueued
    <2>7. AfterShutdown'
      <3> SUFFICES ASSUME r.call = StopCall PROVE AfterShutdown'
        BY <2>b DEF AfterShutdown
      <3>1. ~started /\ worker \in {"test", "dead"}
        BY <2>g DEF DuringShutdown
      <3>2. current = NoCall
        BY <3>1 DEF HoldsWhileRunning
      <3>3. \A c \in due : ~InReply(c)
        <4>1. \A i \in DOMAIN threadCalls : threadCalls[i].call \in due => i < 1
          BY <2>a, <2>g DEF DuringShutdown
        <4>2. QED
          BY <4>1, <2>a
      <3>4. \A c \in due : ~InQueue(c)
        <4>1. ~InQueue(StopCall)
          BY <2>d
        <4>2. QED
          BY <4>1, <2>g DEF DuringShutdown
      <3>5. \A c \in due : answer[c] # NoCall
        BY <3>2, <3>3, <3>4 DEF Accounted
      <3>6. \A c \in due : answer'[c] # NoCall
        BY <3>5, <2>c
      <3>7. QED
        BY <3>1, <3>6, <2>b DEF AfterShutdown
    <2>8. QED
      BY <2>1, <2>2, <2>3, <2>4, <2>5, <2>6, <2>7
  <1>5. CASE Test
    BY <1>5 DEF PoolInv, TypeOK, Test, InOnePlace, OnlyIssued, Accounted, BeforeShutdown,
       DuringShutdown, LateStayQueued, AfterShutdown, InQueue, InReply, Late
  <1>6. CASE Take
    <2> DEFINE h == Head(queue)
    <2> USE <1>6 DEF PoolInv, TypeOK, Jobs, InQueue, InReply, Late
    <2>a. /\ Len(queue) \in Nat \ {0}
          /\ DOMAIN queue = 1..Len(queue)
          /\ DOMAIN queue' = 1..(Len(queue) - 1)
          /\ \A i \in DOMAIN queue' : i + 1 \in DOMAIN queue /\ queue'[i] = queue[i + 1]
          /\ h = queue[1]
          /\ current' = h
          /\ h \in Jobs
      BY TailAt DEF Take
    <2>b. /\ worker = "wait" /\ worker' = "run" /\ current = NoCall
          /\ UNCHANGED <<started, threadCalls, issued, due, answer, reactor>>
      BY DEF Take, HoldsWhileRunning
    <2>c. \A i \in DOMAIN queue' : queue'[i] # h
      BY <2>a DEF InOnePlace
    <2>d. /\ answer[h] = NoCall /\ ~InReply(h) /\ h \in issued \cup {StopCall} /\ h # NoCall
      BY <2>a DEF InOnePlace, OnlyIssued
    <2>e. \A j : InQueue(j) => InQueue(j)' \/ j = h
      <3> SUFFICES ASSUME NEW j, j # h, NEW i \in DOMAIN queue, queue[i] = j
                   PROVE  \E k \in DOMAIN queue' : queue'[k] = j
        OBVIOUS
      <3>1. i # 1 /\ i - 1 \in DOMAIN queue'
        BY <2>a
      <3>2. queue'[i - 1] = queue[i]
        BY <2>a, <3>1
      <3>3. QED
        BY <3>1, <3>2
    <2> HIDE DEF h
    <2>1. InOnePlace'
      BY <2>a, <2>b, <2>c, <2>d DEF InOnePlace
    <2>2. OnlyIssued'
      BY <2>a, <2>b, <2>d DEF OnlyIssued
    <2>3. Accounted'
      BY <2>a, <2>b, <2>e DEF Accounted
    <2>4. BeforeShutdown'
      BY <2>a, <2>b DEF BeforeShutdown
    <2>5. DuringShutdown'
      <3> SUFFICES ASSUME reactor = "stopping" PROVE DuringShutdown'
        BY <2>b DEF DuringShutdown
      <3>1. /\ InQueue(StopCall)' \/ current' = StopCall \/ InReply(StopCall)
            /\ answer[StopCall] = NoCall
            /\ ~InReply(StopCall)
        BY <2>a, <2>b, <2>e DEF DuringShutdown
      <3>2. \A i, k \in DOMAIN queue' : i + 1 < k + 1 => i < k
        BY <2>a
      <3>3. /\ \A i, k \in DOMAIN queue' : queue'[k] = StopCall /\ queue'[i] \in due => i < k
            /\ \A i, k \in DOMAIN queue' : queue'[k] = StopCall /\ queue'[i] \in Late => k < i
        BY <3>2, <2>a DEF DuringShutdown
      <3>4. ~InQueue(StopCall)' => \A i \in DOMAIN queue' : queue'[i] \notin due
        <4> SUFFICES ASSUME ~InQueue(StopCall)', NEW i \in DOMAIN queue', queue'[i] \in due
                     PROVE  FALSE
          OBVIOUS
        <4>1. h = StopCall
          BY <2>e, <2>b, <3>1 DEF DuringShutdown, HoldsWhileRunning
        <4>2. i + 1 < 1
          BY <4>1, <2>a DEF DuringShutdown
        <4>3. QED
          BY <4>2, <2>a
      <3>5. QED
        BY <3>1, <3>3, <3>4, <2>b DEF DuringShutdown
    <2>6. LateStayQueued'
      <3>1. \A c \in Late : reactor \in {"stopping", "down"} => c # h
        BY <2>a, <2>b DEF LateStayQueued, DuringShutdown, AfterShutdown
      <3>2. QED
        BY <3>1, <2>b, <2>e DEF LateStayQueued
    <2>7. AfterShutdown'
      BY <2>b DEF AfterShutdown
    <2>8. QED
      BY <2>1, <2>2, <2>3, <2>4, <2>5, <2>6, <2>7
  <1>7. ASSUME NEW o \in Outcomes, Run(o) PROVE Rest'
    <2> DEFINE e == [call |-> current, outcome |-> o]
    <2> USE <1>7 DEF PoolInv, TypeOK, Jobs, InQueue, InReply, Late
    <2>a. /\ Len(threadCalls) \in Nat
          /\ DOMAIN threadCalls = 1..Len(threadCalls)
          /\ DOMAIN threadCalls' = 1..(Len(threadCalls) + 1)
          /\ \A i \in DOMAIN threadCalls : threadCalls'[i] = threadCalls[i]
          /\ threadCalls'[Len(threadCalls) + 1] = e
          /\ e.call = current
      <3>1. e \in [call : Jobs, outcome : Outcomes]
        BY DEF Run, HoldsWhileRunning
      <3>2. QED
        BY <3>1, AppendAt DEF Run
    <2>b. /\ worker = "run" /\ worker' = "test" /\ current # NoCall /\ current' = NoCall
          /\ UNCHANGED <<queue, issued, due, answer, reactor>>
          /\ started' = IF current = StopCall THEN FALSE ELSE started
      BY DEF Run, HoldsWhileRunning
    <2>c. \A j : InReply(j) => InReply(j)'
      BY <2>a
    <2>d. \E i \in DOMAIN threadCalls' : threadCalls'[i].call = current
      <3>1. Len(threadCalls) + 1 \in DOMAIN threadCalls'
        BY <2>a
      <3>2. threadCalls'[Len(threadCalls) + 1].call = current
        BY <2>a
      <3>3. QED
        BY <3>1, <3>2
    <2>f. \A j : InReply(j)' => InReply(j) \/ j = current
      <3> SUFFICES ASSUME NEW i \in DOMAIN threadCalls'
                   PROVE  \/ \E k \in DOMAIN threadCalls : threadCalls[k].call = threadCalls'[i].call
                          \/ threadCalls'[i].call = current
        OBVIOUS
      <3>1. i \in DOMAIN threadCalls \/ i = Len(threadCalls) + 1
        BY <2>a
      <3>2. QED
        BY <3>1, <2>a
    <2> HIDE DEF e
    <2>1. InOnePlace'
      <3>1. \A i, k \in DOMAIN threadCalls' :
               threadCalls'[i].call = threadCalls'[k].call => i = k
        BY <2>a DEF InOnePlace
      <3>2. \A i \in DOMAIN queue : ~InReply(queue[i]) /\ queue[i] # current
        BY DEF InOnePlace
      <3>3. \A i \in DOMAIN queue' : ~\E k \in DOMAIN threadCalls' : threadCalls'[k].call = queue'[i]
        BY <3>2, <2>b, <2>f
      <3>4. \A i \in DOMAIN threadCalls' : /\ threadCalls'[i].call # NoCall
                                           /\ answer[threadCalls'[i].call] = NoCall
        BY <2>a, <2>b DEF InOnePlace, OnlyIssued
      <3>5. \A i \in DOMAIN queue : queue[i] # NoCall /\ answer[queue[i]] = NoCall
        BY DEF InOnePlace, OnlyIssued
      <3>6. QED
        BY <3>1, <3>3, <3>4, <3>5, <2>b DEF InOnePlace
    <2>2. OnlyIssued'
      BY <2>a, <2>b DEF OnlyIssued
    <2>3. Accounted'
      BY <2>b, <2>c, <2>d DEF Accounted
    <2>4. BeforeShutdown'
      BY <2>b, <2>f DEF BeforeShutdown
    <2>5. DuringShutdown'
      <3> SUFFICES ASSUME reactor = "stopping" PROVE DuringShutdown'
        BY <2>b DEF DuringShutdown
      <3>1. ~InReply(StopCall)
        BY <2>b DEF DuringShutdown
      <3>2. CASE current = StopCall
        <4>1. \A i, k \in DOMAIN threadCalls' :
                threadCalls'[k].call = StopCall /\ threadCalls'[i].call \in due => i < k
          BY <3>1, <3>2, <2>a
        <4>2. ~InQueue(StopCall)
          BY <3>2 DEF InOnePlace
        <4>3. InReply(StopCall)'
          BY <3>2, <2>d
        <4>4. QED
          BY <3>2, <4>1, <4>2, <4>3, <2>b DEF DuringShutdown
      <3>3. CASE current # StopCall
        BY <3>1, <3>3, <2>b, <2>f DEF DuringShutdown
      <3>4. QED
        BY <3>2, <3>3
    <2>6. LateStayQueued'
      BY <2>b DEF LateStayQueued
    <2>7. AfterShutdown'
      BY <2>b DEF AfterShutdown
    <2>8. QED
      BY <2>1, <2>2, <2>3, <2>4, <2>5, <2>6, <2>7
  <1>8. CASE UNCHANGED vars
    BY <1>8 DEF vars, PoolInv, TypeOK, InOnePlace, OnlyIssued, Accounted, BeforeShutdown,
       DuringShutdown, LateStayQueued, AfterShutdown, InQueue, InReply, Late
  <1>9. QED
    BY <1>1, <1>2, <1>3, <1>4, <1>5, <1>6, <1>7, <1>8 DEF Next, Worker, PoolInv

LEMMA InvariantInitially == Init => PoolInv
  <1> SUFFICES ASSUME Init PROVE PoolInv
    OBVIOUS
  <1>1. TypeOK /\ HoldsWhileRunning
    BY TypesInductive
  <1>2. /\ DOMAIN queue = {} /\ DOMAIN threadCalls = {}
        /\ current = NoCall /\ issued = {} /\ due = {} /\ reactor = "init"
        /\ started = FALSE
        /\ \A j \in Jobs : answer[j] = NoCall
    BY DEF Init
  <1>3. InOnePlace /\ OnlyIssued /\ Accounted
    BY <1>2 DEF InOnePlace, OnlyIssued, Accounted, InQueue, InReply, Jobs
  <1>4. BeforeShutdown /\ DuringShutdown /\ LateStayQueued /\ AfterShutdown
    BY <1>2, PoolAssumption DEF BeforeShutdown, DuringShutdown, LateStayQueued, AfterShutdown,
       InQueue, InReply, Jobs
  <1>5. QED
    BY <1>1, <1>3, <1>4 DEF PoolInv

\* Where every call is, in every state the pool can reach.
THEOREM PipelineInvariant == Spec => []PoolInv
  BY InvariantInitially, InvariantInductive, PTL DEF Spec

\* The reactor never goes down on a call that was made before the shutdown
\* trigger and is not answered (pool.py:44: the stop request is queued
\* behind it).
THEOREM NoCallLeftBehind == Spec => []AnsweredBeforeDown
  <1>1. PoolInv => AnsweredBeforeDown
    BY DEF PoolInv, AfterShutdown, AnsweredBeforeDown
  <1>2. QED
    BY <1>1, PipelineInvariant, PTL

\* A call made after the shutdown trigger is never answered (pool.py:24-28:
\* the worker ends with the item still in its queue).
THEOREM LateCallsUnanswered == Spec => []LateCallsNeverAnswered
  <1>1. PoolInv => LateCallsNeverAnswered
    BY DEF PoolInv, LateStayQueued, Late, LateCallsNeverAnswered
  <1>2. QED
    BY <1>1, PipelineInvariant, PTL

\* No Deferred is fired twice (pool.py:30-34 posts one callback per item).
THEOREM NoCallFiredTwice == Spec => FiredOnce
  <1>1. PoolInv /\ PoolInv' /\ [Next]_vars => NoneFiredAgain
    <2> SUFFICES ASSUME PoolInv, PoolInv', [Next]_vars,
                        NEW j \in Jobs, answer[j] # NoCall
                 PROVE  /\ answer'[j] = answer[j]
                        /\ \A i \in DOMAIN threadCalls' : threadCalls'[i].call # j
      BY DEF NoneFiredAgain
    <2>1. answer'[j] = answer[j]
      <3>1. CASE Deliver
        <4>1. threadCalls \in Seq([call : Jobs, outcome : Outcomes]) /\ threadCalls # <<>>
          BY <3>1 DEF Deliver, PoolInv, TypeOK
        <4>2. 1 \in DOMAIN threadCalls /\ Head(threadCalls) = threadCalls[1]
          BY <4>1, TailAt
        <4>3. answer[Head(threadCalls).call] = NoCall
          BY <4>2 DEF PoolInv, InOnePlace
        <4>4. QED
          BY <3>1, <4>3 DEF Deliver, PoolInv, TypeOK
      <3>2. CASE ~Deliver
        BY <3>2 DEF Next, Worker, Invoke, Start, Shutdown, Test, Take, Run, vars
      <3>3. QED
        BY <3>1, <3>2
    <2>2. \A i \in DOMAIN threadCalls' : answer'[threadCalls'[i].call] = NoCall
      BY DEF PoolInv, InOnePlace
    <2>3. QED
      BY <2>1, <2>2
  <1>2. QED
    BY <1>1, PipelineInvariant, PTL DEF Spec, FiredOnce

-----------------------------------------------------------------------------
(* The refinement.  Pipe is what SerialExecutor calls waiting.             *)

Pipe == Held \o queue

\* The pipe loses nothing when an item is put behind the queue, nor when the
\* worker, empty-handed, takes the head of the queue.
LEMMA PipeFacts ==
  ASSUME TypeOK
  PROVE  /\ Pipe \in Seq(Jobs)
         /\ \A j \in Jobs : Held \o Append(queue, j) = Append(Pipe, j)
         /\ queue # <<>> => <<Head(queue)>> \o Tail(queue) = queue
         /\ current = NoCall => Pipe = queue
         /\ current # NoCall => /\ Pipe # <<>>
                                /\ Head(Pipe) = current
                                /\ Tail(Pipe) = queue
         /\ \A j \in Range(Pipe) : j = current \/ InQueue(j)
  <1> USE DEF TypeOK, Held, Pipe
  <1>0. queue \in Seq(Jobs) /\ current \in Jobs \cup {NoCall}
    OBVIOUS
  <1>1. Held \in Seq(Jobs) /\ Pipe \in Seq(Jobs)
    <2>1. CASE current = NoCall
      BY <1>0, <2>1
    <2>2. CASE current # NoCall
      BY <1>0, <2>2
    <2>3. QED
      BY <2>1, <2>2
  <1>2. ASSUME NEW j \in Jobs PROVE Held \o Append(queue, j) = Append(Pipe, j)
    BY <1>1
  <1>3. queue # <<>> => <<Head(queue)>> \o Tail(queue) = queue
    OBVIOUS
  <1>4. current = NoCall => Pipe = queue
    OBVIOUS
  <1>5. ASSUME current # NoCall
        PROVE  Pipe # <<>> /\ Head(Pipe) = current /\ Tail(Pipe) = queue
    BY <1>5
  <1>6. \A j \in Range(Pipe) : j = current \/ InQueue(j)
    BY <1>1 DEF Range, InQueue
  <1>7. QED
    BY <1>1, <1>2, <1>3, <1>4, <1>5, <1>6

\* Each step of the pool is a step of the executor, or none: invoking is
\* Accept, running is Execute, delivering is Answer; taking an item moves
\* nothing.
LEMMA StepRefines ==
  PoolInv /\ PoolInv' /\ [Next]_vars => [Executor!Next]_(Executor!vars)
  <1> SUFFICES ASSUME PoolInv, PoolInv', [Next]_vars
               PROVE  Executor!Next \/ UNCHANGED Executor!vars
    OBVIOUS
  <1> USE PoolAssumption
  <1>t. TypeOK /\ TypeOK'
    BY DEF PoolInv
  <1>1. ASSUME NEW j \in Jobs, queue' = Append(queue, j), UNCHANGED <<current, threadCalls>>,
               ~InQueue(j), j # current, ~InReply(j)
        PROVE  Executor!Accept(j)
    <2>1. Held' \o queue' = Append(Held \o queue, j)
      BY <1>1, <1>t, PipeFacts DEF Pipe, Held
    <2>2. j \notin Range(Held \o queue)
      BY <1>1, <1>t, PipeFacts DEF Pipe
    <2>3. j \notin {threadCalls[i].call : i \in DOMAIN threadCalls}
      BY <1>1 DEF InReply
    <2>4. QED
      BY <1>1, <2>1, <2>2, <2>3 DEF Executor!Accept, Executor!Outstanding, Executor!Executed,
         Executor!Range, Range
  <1>2. ASSUME NEW c \in Calls, Invoke(c) PROVE Executor!Accept(c)
    <2>1. ~InQueue(c) /\ c # current /\ ~InReply(c)
      BY <1>2 DEF PoolInv, OnlyIssued, InQueue, InReply, Invoke
    <2>2. QED
      BY <2>1, <1>1, <1>2 DEF Invoke, Jobs
  <1>3. CASE Shutdown
    <2>1. ~InQueue(StopCall) /\ StopCall # current /\ ~InReply(StopCall)
      BY <1>3 DEF PoolInv, BeforeShutdown, Shutdown
    <2>2. QED
      BY <2>1, <1>1, <1>3 DEF Shutdown, Jobs, Executor!Next
  <1>4. CASE Deliver
    <2>1. Head(threadCalls) \in [call : Jobs, outcome : Outcomes]
      BY <1>4, <1>t, TailAt DEF Deliver, TypeOK
    <2>2. Executor!Answer(Head(threadCalls).call, Head(threadCalls).outcome)
      BY <1>4, <2>1 DEF Deliver, Executor!Answer, Held
    <2>3. QED
      BY <2>1, <2>2 DEF Executor!Next
  <1>5. CASE Take
    <2>1. current = NoCall /\ current' # NoCall
      BY <1>5 DEF PoolInv, HoldsWhileRunning, Take
    <2>2. Held' \o queue' = queue
      BY <1>5, <2>1, <1>t, PipeFacts DEF Take, Held
    <2>3. Held \o queue = queue
      BY <2>1, <1>t, PipeFacts DEF Pipe
    <2>4. QED
      BY <1>5, <2>2, <2>3 DEF Take, Executor!vars
  <1>6. ASSUME NEW o \in Outcomes, Run(o) PROVE Executor!Execute(o)
    <2>1. current # NoCall /\ current' = NoCall
      BY <1>6 DEF PoolInv, HoldsWhileRunning, Run
    <2>2. /\ Held \o queue # <<>>
          /\ Head(Held \o queue) = current
          /\ Tail(Held \o queue) = queue
      BY <2>1, <1>t, PipeFacts DEF Pipe
    <2>3. Held' \o queue' = queue'
      BY <2>1, <1>t DEF Held, TypeOK
    <2>4. QED
      BY <1>6, <2>2, <2>3 DEF Run, Executor!Execute
  <1>7. CASE Start \/ Test \/ UNCHANGED vars
    BY <1>7 DEF Start, Test, vars, Executor!vars, Held
  <1>8. QED
    BY <1>2, <1>3, <1>4, <1>5, <1>6, <1>7 DEF Next, Worker, Executor!Next, Jobs

\* The thread, its queue and the reactor's queue are, seen from the code
\* above, one serial executor: calls take effect in the order they were
\* invoked and are answered in that order (pool.py:15-39).
THEOREM PoolRefinesExecutor == Spec => ImplementsSerialExecutor
  <1>1. Init => Executor!Init
    BY DEF Init, Executor!Init, Held
  <1>2. QED
    BY <1>1, PipelineInvariant, StepRefines, PTL
       DEF Spec, ImplementsSerialExecutor, Executor!Spec

=============================================================================
