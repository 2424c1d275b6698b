-------------------------------- MODULE Pool --------------------------------
(***************************************************************************)
(* absddb/pool.py: the single worker thread that runs every Berkeley DB    *)
(* call of the service.  The event loop (the Twisted reactor) puts calls   *)
(* in a queue; the worker runs them and hands each result back with        *)
(* reactor.callFromThread.  The pool is started by the reactor's           *)
(* "after startup" trigger; its "before shutdown" trigger invokes          *)
(* Pool.stop THROUGH the pool, and the reactor waits for the Deferred of   *)
(* that call before it goes down.                                          *)
(***************************************************************************)
EXTENDS Naturals, Sequences, SequencesExt

CONSTANTS Calls,     \* the calls the program makes, each with its own Deferred
          StopCall,  \* the call of Pool.stop made by the shutdown trigger
          NoCall     \* no call, no outcome

ASSUME PoolAssumption == /\ StopCall \notin Calls
                         /\ NoCall \notin Calls \cup {StopCall}
                         /\ NoCall \notin {"result", "error"}

Jobs     == Calls \cup {StopCall}
Outcomes == {"result", "error"}

VARIABLES started,      \* Pool.__started
          worker,       \* where the thread is in __thread_func_
          queue,        \* Pool.__queue_
          current,      \* the call the worker took, NoCall if none
          threadCalls,  \* reactor.threadCallQueue: results on their way back
          issued,       \* the calls invoked so far
          due,          \* the calls invoked before the shutdown trigger ran
          answer,       \* what each call's Deferred was fired with
          reactor       \* "init", "running", "stopping" or "down"

vars == <<started, worker, queue, current, threadCalls, issued, due, answer, reactor>>

TypeOK ==
  /\ started \in BOOLEAN
  /\ worker \in {"unborn", "test", "wait", "run", "dead"}
  /\ queue \in Seq(Jobs)
  /\ current \in Jobs \cup {NoCall}
  /\ threadCalls \in Seq([call : Jobs, outcome : Outcomes])
  /\ issued \subseteq Calls
  /\ due \subseteq issued
  /\ answer \in [Jobs -> Outcomes \cup {NoCall}]
  /\ reactor \in {"init", "running", "stopping", "down"}

Init ==
  /\ started = FALSE
  /\ worker = "unborn"
  /\ queue = <<>>
  /\ current = NoCall
  /\ threadCalls = <<>>
  /\ issued = {}
  /\ due = {}
  /\ answer = [j \in Jobs |-> NoCall]
  /\ reactor = "init"

-----------------------------------------------------------------------------
(* The event loop.                                                         *)

\* pool.invoke: a new Deferred and one item in the queue.  Code calls it at
\* any time, also before the worker is started and while the reactor waits
\* for the shutdown triggers.
Invoke(c) ==
  /\ reactor # "down"
  /\ c \in Calls \ issued
  /\ issued' = issued \cup {c}
  /\ queue' = Append(queue, c)
  /\ UNCHANGED <<started, worker, current, threadCalls, due, answer, reactor>>

\* The "after startup" trigger: Pool.start.
Start ==
  /\ reactor = "init"
  /\ reactor' = "running"
  /\ IF started
     THEN UNCHANGED <<started, worker>>
     ELSE started' = TRUE /\ worker' = "test"
  /\ UNCHANGED <<queue, current, threadCalls, issued, due, answer>>

\* The shutdown trigger as a plausible mistake would register it: the
\* trigger calls Pool.stop itself and the reactor waits for nothing.
ShutdownCallsStopDirectly ==
  /\ reactor = "running"
  /\ reactor' = "down"
  /\ due' = issued
  /\ started' = FALSE
  /\ UNCHANGED <<worker, queue, current, threadCalls, issued, answer>>

\* The "before shutdown" trigger: invoke(Pool.stop).  The reactor keeps
\* running its loop until the Deferred of this call fires.
Shutdown ==
  /\ reactor = "running"
  /\ reactor' = "stopping"
  /\ due' = issued
  /\ queue' = Append(queue, StopCall)
  /\ UNCHANGED <<started, worker, current, threadCalls, issued, answer>>

\* runUntilCurrent: the oldest threadCallQueue entry fires its Deferred.
\* The answer to StopCall lets the reactor finish its shutdown.
Deliver ==
  /\ reactor \in {"running", "stopping"}
  /\ threadCalls # <<>>
  /\ LET r == Head(threadCalls) IN
       /\ answer' = [answer EXCEPT ![r.call] = r.outcome]
       /\ reactor' = IF r.call = StopCall THEN "down" ELSE reactor
  /\ threadCalls' = Tail(threadCalls)
  /\ UNCHANGED <<started, worker, queue, current, issued, due>>

-----------------------------------------------------------------------------
(* The worker thread: __thread_func_.                                      *)

\* "while self.__started".
Test ==
  /\ worker = "test"
  /\ worker' = IF started THEN "wait" ELSE "dead"
  /\ UNCHANGED <<started, queue, current, threadCalls, issued, due, answer, reactor>>

\* queue.get as a LIFO would serve it.
TakeNewest ==
  /\ worker = "wait"
  /\ queue # <<>>
  /\ current' = Last(queue)
  /\ queue' = Front(queue)
  /\ worker' = "run"
  /\ UNCHANGED <<started, threadCalls, issued, due, answer, reactor>>

\* queue.get(True): blocks while the queue is empty.
Take ==
  /\ worker = "wait"
  /\ queue # <<>>
  /\ current' = Head(queue)
  /\ queue' = Tail(queue)
  /\ worker' = "run"
  /\ UNCHANGED <<started, threadCalls, issued, due, answer, reactor>>

\* An except clause that only logs: the call that fails is never answered.
RunDropsErrors(outcome) ==
  /\ worker = "run"
  /\ (current = StopCall) => (outcome = "result")
  /\ threadCalls' = IF outcome = "error" THEN threadCalls
                    ELSE Append(threadCalls, [call |-> current, outcome |-> outcome])
  /\ started' = IF current = StopCall THEN FALSE ELSE started
  /\ current' = NoCall
  /\ worker' = "test"
  /\ UNCHANGED <<queue, issued, due, answer, reactor>>

\* A worker that never looks at the flag Pool.stop clears.
RunForgetsStop(outcome) ==
  /\ worker = "run"
  /\ (current = StopCall) => (outcome = "result")
  /\ threadCalls' = Append(threadCalls, [call |-> current, outcome |-> outcome])
  /\ current' = NoCall
  /\ worker' = "test"
  /\ UNCHANGED <<started, queue, issued, due, answer, reactor>>

\* The call runs, and its result (or its Exception, as a Failure) is handed
\* to the reactor.  Running StopCall is Pool.stop, which clears __started
\* and cannot raise.
Run(outcome) ==
  /\ worker = "run"
  /\ (current = StopCall) => (outcome = "result")
  /\ threadCalls' = Append(threadCalls, [call |-> current, outcome |-> outcome])
  /\ started' = IF current = StopCall THEN FALSE ELSE started
  /\ current' = NoCall
  /\ worker' = "test"
  /\ UNCHANGED <<queue, issued, due, answer, reactor>>

-----------------------------------------------------------------------------
Worker == Test \/ Take \/ \E o \in Outcomes : Run(o)

Next == \/ \E c \in Calls : Invoke(c)
        \/ Start
        \/ Shutdown
        \/ Deliver
        \/ Worker

\* The operating system schedules the thread, a Berkeley DB call returns,
\* and the reactor goes on turning until it is down.  Nothing forces anyone
\* to invoke, to start the reactor or to stop it.
Fairness == WF_vars(Worker) /\ WF_vars(Deliver)

Spec     == Init /\ [][Next]_vars
FairSpec == Spec /\ Fairness

-----------------------------------------------------------------------------
(* Properties.                                                             *)

\* The reactor goes down only after every call made before the shutdown
\* trigger was answered: the stop request travels through the same queue,
\* behind them (pool.py:44).
AnsweredBeforeDown ==
  (reactor = "down") => \A c \in due : answer[c] # NoCall

\* A call made once the shutdown trigger ran is behind StopCall: it never
\* runs, and its Deferred never fires (pool.py:24-28).
LateCallsNeverAnswered ==
  (reactor \in {"stopping", "down"}) => \A c \in issued \ due : answer[c] = NoCall

\* A Deferred that fired never fires again: no call is run or delivered
\* twice (Twisted would raise AlreadyCalledError).
NoneFiredAgain ==
  \A j \in Jobs : answer[j] # NoCall =>
                    /\ answer'[j] = answer[j]
                    /\ \A i \in DOMAIN threadCalls' : threadCalls'[i].call # j

FiredOnce == [][NoneFiredAgain]_vars

\* A call made before or while the reactor runs is answered, whether it
\* succeeds or raises, and also when a shutdown is asked for meanwhile.
EveryCallAnswered ==
  \A c \in Calls : (c \in issued /\ reactor = "running") ~> (answer[c] # NoCall)

\* A shutdown that was asked for comes to its end: the reactor goes down and
\* the worker (a non-daemon thread, which would keep the process alive) ends.
ShutdownCompletes == (reactor = "stopping") ~> (reactor = "down" /\ worker = "dead")

-----------------------------------------------------------------------------
(* The pool implements the serial executor: a call the worker holds is     *)
(* still waiting, one that was posted to the reactor has been executed.    *)

Held == IF current = NoCall THEN <<>> ELSE <<current>>

Executor == INSTANCE SerialExecutor WITH Calls    <- Jobs,
                                         waiting  <- Held \o queue,
                                         replies  <- threadCalls

\* Calls take effect one at a time in the order they were invoked, and are
\* answered in that order (pool.py:27-34).
ImplementsSerialExecutor == Executor!Spec

=============================================================================
