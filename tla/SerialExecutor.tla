--------------------------- MODULE SerialExecutor ---------------------------
(***************************************************************************)
(* What the asynchronous Berkeley DB wrapper (absddb) promises to the code *)
(* above it: blocking calls handed over by the event loop take effect one  *)
(* at a time, in the order they were handed over, and each is answered     *)
(* once, in that same order.  It says nothing about threads, start or      *)
(* shutdown: module Pool implements it, module AbsddbStorage is built on   *)
(* it.                                                                     *)
(***************************************************************************)
EXTENDS Sequences, SequencesExt

CONSTANTS Calls,     \* the calls (in the code: the Deferreds they answer)
          Outcomes   \* what a call can be answered with

VARIABLES waiting,   \* calls not yet executed, oldest first
          replies    \* executed calls with their outcome, not yet delivered

vars == <<waiting, replies>>

Reply == [call : Calls, outcome : Outcomes]

Executed == {replies[i].call : i \in DOMAIN replies}

Outstanding == Range(waiting) \cup Executed

Init == /\ waiting = <<>>
        /\ replies = <<>>

\* A call is handed over.
Accept(c) == /\ c \notin Outstanding
             /\ waiting' = Append(waiting, c)
             /\ UNCHANGED replies

\* The oldest waiting call takes effect, with the given outcome.
Execute(outcome) ==
  /\ waiting # <<>>
  /\ waiting' = Tail(waiting)
  /\ replies' = Append(replies, [call |-> Head(waiting), outcome |-> outcome])

\* The oldest reply is delivered to its caller.
Answer(c, outcome) ==
  /\ replies # <<>>
  /\ Head(replies) = [call |-> c, outcome |-> outcome]
  /\ replies' = Tail(replies)
  /\ UNCHANGED waiting

\* The oldest reply is delivered, and its caller hands over its next call
\* before the event loop does anything else.
AnswerThenAccept(c, outcome) ==
  /\ replies # <<>>
  /\ Head(replies) = [call |-> c, outcome |-> outcome]
  /\ c \notin Range(waiting)
  /\ replies' = Tail(replies)
  /\ waiting' = Append(waiting, c)

Next == \/ \E c \in Calls : Accept(c)
        \/ \E o \in Outcomes : Execute(o)
        \/ \E c \in Calls, o \in Outcomes : Answer(c, o) \/ AnswerThenAccept(c, o)

Spec == Init /\ [][Next]_vars

=============================================================================
