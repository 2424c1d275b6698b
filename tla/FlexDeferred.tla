---------------------------- MODULE FlexDeferred ----------------------------
(* Deferred of the Flex console (defer/Deferred.as): a result that comes    *)
(* later and the callbacks that are to have it, one after the other, each   *)
(* with what the one before it returned.  A callback that returns a         *)
(* Deferred stops the others until that one has a result.                   *)
(*                                                                          *)
(* There is one thread, but callbacks are entered from everywhere: a        *)
(* callback may add callbacks, fire or pause any Deferred, its own too, so  *)
(* _runCallbacks is on the stack several times, for one Deferred even.  The *)
(* stack is modelled: a step is a call, a return or a turn of the loop.     *)
(*                                                                          *)
(* What results are is left out, but for Deferreds; so is the choice        *)
(* between callback and errback.  The console fires a Deferred once, and    *)
(* never returns one to a callback that it waits for itself.                *)
EXTENDS Integers, FiniteSets, Sequences, SequencesExt

CONSTANTS Deferreds, Value, User, \* a result, a callback of the program
          MaxAdds, MaxPauses

ASSUME DeferredAssumption == /\ MaxAdds \in Nat /\ MaxPauses \in Nat
                             /\ Value \notin Deferreds /\ User \notin Deferreds

VARIABLES callbacks, called, paused, running, result, \* of each Deferred
          stack,  \* the calls of _runCallbacks, the last one first
          pauses, \* history: calls of pause() by the program, of each
          adds    \* callbacks added by the program

deferredVars == <<callbacks, called, paused, running, result, stack, pauses, adds>>

Stops  == {"enter", "loop", "callback", "continue", "break"}
Frames == [d : Deferreds, at : Stops]

DeferredTypeOK ==
  /\ callbacks \in [Deferreds -> Seq(Deferreds \cup {User})] \* e: the _continue of e
  /\ called \in [Deferreds -> BOOLEAN] /\ running \in [Deferreds -> BOOLEAN]
  /\ paused \in [Deferreds -> Int] /\ pauses \in [Deferreds -> 0..MaxPauses]
  /\ result \in [Deferreds -> Deferreds \cup {Value}]
  /\ stack \in Seq(Frames) /\ adds \in 0..MaxAdds

DeferredInit ==
  /\ callbacks = [d \in Deferreds |-> <<>>]
  /\ called = [d \in Deferreds |-> FALSE] /\ running = [d \in Deferreds |-> FALSE]
  /\ paused = [d \in Deferreds |-> 0] /\ pauses = [d \in Deferreds |-> 0]
  /\ result = [d \in Deferreds |-> Value]
  /\ stack = <<>> /\ adds = 0

Top(at) == stack # <<>> /\ stack[1].at = at
Goto(at) == <<[stack[1] EXCEPT !.at = at]>> \o Tail(stack)
Call(d) == <<[d |-> d, at |-> "enter"]>>
\* The program runs: a callback, or a timer or an event that came in.
Program == stack = <<>> \/ Top("callback")
\* x waits for y: _continue of x is a callback of y.
Waits(x, y) == Contains(callbacks[y], x)
\* A callback of d may return e: e does not wait for d, nor through others.
MayWait(d, e) == \E S \in SUBSET (Deferreds \ {d}) :
                   e \in S /\ \A x \in S, y \in Deferreds : Waits(x, y) => y \in S

-----------------------------------------------------------------------------
(* The program.                                                            *)

AddCallback(d) ==
  /\ Program /\ adds < MaxAdds
  /\ adds' = adds + 1
  /\ callbacks' = [callbacks EXCEPT ![d] = Append(@, User)]
  /\ stack' = IF called[d] THEN Call(d) \o stack ELSE stack
  /\ UNCHANGED <<called, paused, running, result, pauses>>

\* callback and errback.
Fire(d) ==
  /\ Program /\ ~called[d]
  /\ called' = [called EXCEPT ![d] = TRUE]
  /\ result' = [result EXCEPT ![d] = Value]
  /\ stack' = Call(d) \o stack
  /\ UNCHANGED <<callbacks, paused, running, pauses, adds>>

\* A chain that must not go on, as the markers controllers stop theirs.
Pause(d) ==
  /\ Program /\ pauses[d] < MaxPauses
  /\ pauses' = [pauses EXCEPT ![d] = @ + 1]
  /\ paused' = [paused EXCEPT ![d] = @ + 1]
  /\ UNCHANGED <<callbacks, called, running, result, stack, adds>>

-----------------------------------------------------------------------------
(* _runCallbacks.                                                          *)

EnterNested ==
  /\ Top("enter")
  /\ stack' = IF paused[stack[1].d] > 0 THEN Tail(stack) ELSE Goto("loop")
  /\ UNCHANGED <<callbacks, called, paused, running, result, pauses, adds>>

Enter ==
  /\ Top("enter")
  /\ stack' = IF running[stack[1].d] \/ paused[stack[1].d] > 0 THEN Tail(stack) ELSE Goto("loop")
  /\ UNCHANGED <<callbacks, called, paused, running, result, pauses, adds>>

\* The loop ends.
Leave ==
  /\ Top("break") \/ (Top("loop") /\ callbacks[stack[1].d] = <<>>)
  /\ stack' = Tail(stack)
  /\ UNCHANGED <<callbacks, called, paused, running, result, pauses, adds>>

\* The loop calls a callback of the program.
Shift(d) ==
  /\ Top("loop") /\ d = stack[1].d
  /\ callbacks[d] # <<>> /\ callbacks[d][1] = User
  /\ callbacks' = [callbacks EXCEPT ![d] = Tail(@)]
  /\ running' = [running EXCEPT ![d] = TRUE]
  /\ stack' = Goto("callback")
  /\ UNCHANGED <<called, paused, result, pauses, adds>>

ContinueAsleep(d) ==
  /\ Top("loop") /\ d = stack[1].d
  /\ callbacks[d] # <<>> /\ callbacks[d][1] # User
  /\ LET e == callbacks[d][1]
     IN /\ callbacks' = [callbacks EXCEPT ![d] = Tail(@)]
        /\ running' = [running EXCEPT ![d] = TRUE]
        /\ result' = [result EXCEPT ![e] = result[d]]
        /\ paused' = [paused EXCEPT ![e] = @ - 1]
        /\ stack' = Goto("continue")
  /\ UNCHANGED <<called, pauses, adds>>

\* The loop calls _continue of e, which waits for d: unpause lets it run.
Continue(d) ==
  /\ Top("loop") /\ d = stack[1].d
  /\ callbacks[d] # <<>> /\ callbacks[d][1] # User
  /\ LET e == callbacks[d][1]
     IN /\ callbacks' = [callbacks EXCEPT ![d] = Tail(@)]
        /\ running' = [running EXCEPT ![d] = TRUE]
        /\ result' = [result EXCEPT ![e] = result[d]]
        /\ paused' = [paused EXCEPT ![e] = @ - 1]
        /\ stack' = (IF paused'[e] = 0 /\ called[e] THEN Call(e) ELSE <<>>) \o Goto("continue")
  /\ UNCHANGED <<called, pauses, adds>>

\* A callback returns a result, or raises; _continue returns nothing.
Return ==
  /\ Top("callback") \/ Top("continue")
  /\ running' = [running EXCEPT ![stack[1].d] = FALSE]
  /\ result' = [result EXCEPT ![stack[1].d] = Value]
  /\ stack' = Goto("loop")
  /\ UNCHANGED <<callbacks, called, paused, pauses, adds>>

ReturnDeferredGoesOn(e) ==
  /\ Top("callback")
  /\ LET d == stack[1].d
     IN /\ MayWait(d, e)
        /\ running' = [running EXCEPT ![d] = FALSE]
        /\ result' = [result EXCEPT ![d] = e]
        /\ paused' = [paused EXCEPT ![d] = @ + 1]
        /\ callbacks' = [callbacks EXCEPT ![e] = Append(@, d)]
  /\ stack' = (IF called[e] THEN Call(e) ELSE <<>>) \o Goto("loop")
  /\ UNCHANGED <<called, pauses, adds>>

\* A callback returns a Deferred: pause, and _continue when that one is done.
ReturnDeferred(e) ==
  /\ Top("callback")
  /\ LET d == stack[1].d
     IN /\ MayWait(d, e)
        /\ running' = [running EXCEPT ![d] = FALSE]
        /\ result' = [result EXCEPT ![d] = e]
        /\ paused' = [paused EXCEPT ![d] = @ + 1]
        /\ callbacks' = [callbacks EXCEPT ![e] = Append(@, d)]
  /\ stack' = (IF called[e] THEN Call(e) ELSE <<>>) \o Goto("break")
  /\ UNCHANGED <<called, pauses, adds>>

-----------------------------------------------------------------------------
DeferredNext == \/ Enter \/ Leave \/ Return
        \/ \E d \in Deferreds : \/ AddCallback(d) \/ Fire(d) \/ Pause(d)
                                \/ Shift(d) \/ Continue(d) \/ ReturnDeferred(d)

DeferredSpec == DeferredInit /\ [][DeferredNext]_deferredVars

-----------------------------------------------------------------------------
(* Properties.                                                             *)

InCallback(frame) == frame.at \in {"callback", "continue"}

\* Callbacks of one Deferred never run inside one another, wherever it is fired,
\* continued or added to from: the loop that is under way runs those that are
\* added meanwhile (Deferred.as:292-298, 317-331).
OneAtATime ==
  \A i, j \in DOMAIN stack :
    InCallback(stack[i]) /\ InCallback(stack[j]) /\ stack[i].d = stack[j].d => i = j

\* A Deferred that waits for one that a callback returned calls none of its
\* callbacks until that one is done, whenever they were added and whatever fires
\* or runs meanwhile, and none of them is given a Deferred for a result.  (A
\* callback that pauses its own Deferred does not stop the loop it is called
\* from: paused is tested at the entry only; Deferred.as:273-277, 300, 334-340.)
ResultsAreSettled ==
  [][\A d \in Deferreds :
       Len(callbacks'[d]) < Len(callbacks[d]) =>
         result[d] \notin Deferreds /\ \A e \in Deferreds : ~Waits(d, e)]_deferredVars

\* When the thread is idle no callback is left behind: a Deferred that has
\* fired has run them all, unless the program has paused it or it waits for a
\* Deferred, which holds its _continue once (Deferred.as:159-162, 255-277,
\* 292-349).
NothingLeftBehind ==
  stack = <<>> => \A d \in Deferreds :
    /\ called[d] /\ callbacks[d] # <<>> =>
         pauses[d] > 0 \/ \E e \in Deferreds : Waits(d, e)
    /\ paused[d] = pauses[d] + Cardinality({e \in Deferreds : Waits(d, e)})
    /\ \A e, f \in Deferreds : Waits(d, e) /\ Waits(d, f) => e = f

=============================================================================
