--------------------------- MODULE Console_proofs ---------------------------
(***************************************************************************)
(* Proofs about the two models of the Flex console, FlexDeferred and       *)
(* ConsoleMarkers.                                                         *)
(*                                                                         *)
(* About FlexDeferred, for any Deferreds and any number of callbacks: its  *)
(* types, that callbacks of one Deferred never run inside one another,     *)
(* that none is called with a result that has yet to come, and that none   *)
(* is left behind when the thread is idle.                                 *)
(*                                                                         *)
(* About ConsoleMarkers, for any number of gomees, markers, users,         *)
(* sessions and requests: its types, that the controller knows no gomee of *)
(* an earlier session's user, and that what the map shows and what the     *)
(* controller knows agree.  The inductive invariant MarkersInv says for    *)
(* the last what a marker's kind and the requests under way mean.          *)
(***************************************************************************)
EXTENDS FlexDeferred, ConsoleMarkers, SequenceTheorems, FiniteSetTheorems, TLAPS

-----------------------------------------------------------------------------
(* FlexDeferred.                                                           *)

LEMMA GotoStack ==
  ASSUME stack \in Seq(Frames), stack # <<>>, NEW at \in Stops
  PROVE  /\ Goto(at) \in Seq(Frames)
         /\ Len(Goto(at)) = Len(stack)
         /\ Goto(at)[1] = [d |-> stack[1].d, at |-> at]
         /\ \A i \in 2..Len(stack) : Goto(at)[i] = stack[i]
<1> DEFINE f == [d |-> stack[1].d, at |-> at]
<1>1. stack[1] \in Frames /\ Len(stack) \in Nat \ {0}
  BY EmptySeq
<1>2. [stack[1] EXCEPT !.at = at] = f /\ f \in Frames
  BY <1>1 DEF Frames
<1>3. /\ Tail(stack) \in Seq(Frames)
      /\ Len(Tail(stack)) = Len(stack) - 1
      /\ \A i \in 1..Len(Tail(stack)) : Tail(stack)[i] = stack[i + 1]
  BY HeadTailProperties
<1>4. Goto(at) = <<f>> \o Tail(stack)
  BY <1>2 DEF Goto
<1> HIDE DEF f
<1>5. <<f>> \in Seq(Frames) /\ Len(<<f>>) = 1 /\ <<f>>[1] = f
  BY <1>2
<1>6. /\ <<f>> \o Tail(stack) \in Seq(Frames)
      /\ Len(<<f>> \o Tail(stack)) = Len(stack)
      /\ \A i \in 1..Len(stack) :
           (<<f>> \o Tail(stack))[i] = IF i <= 1 THEN <<f>>[i] ELSE Tail(stack)[i - 1]
  BY <1>1, <1>3, <1>5, ConcatProperties
<1> QED
  BY <1>1, <1>3, <1>4, <1>5, <1>6 DEF f

LEMMA CallStack ==
  ASSUME NEW s \in Seq(Frames), NEW d \in Deferreds
  PROVE  /\ Call(d) \o s \in Seq(Frames)
         /\ Len(Call(d) \o s) = Len(s) + 1
         /\ (Call(d) \o s)[1] = [d |-> d, at |-> "enter"]
         /\ \A i \in 1..Len(s) : (Call(d) \o s)[i + 1] = s[i]
<1> DEFINE f == [d |-> d, at |-> "enter"]
<1>1. f \in Frames
  BY DEF Frames, Stops
<1>2. Call(d) = <<f>>
  BY DEF Call
<1> HIDE DEF f
<1>3. <<f>> \in Seq(Frames) /\ Len(<<f>>) = 1 /\ <<f>>[1] = f
  BY <1>1
<1>4. /\ <<f>> \o s \in Seq(Frames)
      /\ Len(<<f>> \o s) = Len(s) + 1
      /\ \A i \in 1..Len(s) + 1 : (<<f>> \o s)[i] = IF i <= 1 THEN <<f>>[i] ELSE s[i - 1]
  BY <1>3, ConcatProperties
<1> QED
  BY <1>2, <1>3, <1>4 DEF f

-----------------------------------------------------------------------------
\* What the actions do to callbacks keeps them sequences.
LEMMA CallbackSequences ==
  ASSUME DeferredTypeOK, NEW d \in Deferreds
  PROVE  /\ \A c \in Deferreds \cup {User} :
              [callbacks EXCEPT ![d] = Append(@, c)] \in [Deferreds -> Seq(Deferreds \cup {User})]
         /\ callbacks[d] # <<>> =>
              /\ callbacks[d][1] \in Deferreds \cup {User}
              /\ [callbacks EXCEPT ![d] = Tail(@)] \in [Deferreds -> Seq(Deferreds \cup {User})]
<1>1. callbacks[d] \in Seq(Deferreds \cup {User})
  BY DEF DeferredTypeOK
<1>2. \A c \in Deferreds \cup {User} : Append(callbacks[d], c) \in Seq(Deferreds \cup {User})
  BY <1>1, AppendProperties
<1>3. callbacks[d] # <<>> => /\ Tail(callbacks[d]) \in Seq(Deferreds \cup {User})
                            /\ Len(callbacks[d]) \in Nat \ {0}
  BY <1>1, HeadTailProperties, EmptySeq
<1> QED
  BY <1>1, <1>2, <1>3 DEF DeferredTypeOK

\* Each step leaves Deferreds, callbacks and the stack of calls well formed
\* (Deferred.as:142-349).
THEOREM DeferredTypes == DeferredSpec => []DeferredTypeOK
<1>1. DeferredInit => DeferredTypeOK
  BY DeferredAssumption DEF DeferredInit, DeferredTypeOK
<1>2. DeferredTypeOK /\ [DeferredNext]_deferredVars => DeferredTypeOK'
  <2> SUFFICES ASSUME DeferredTypeOK, [DeferredNext]_deferredVars PROVE DeferredTypeOK'
    OBVIOUS
  <2> USE DeferredAssumption
  <2>1. stack # <<>> => /\ Tail(stack) \in Seq(Frames) /\ stack[1].d \in Deferreds
                       /\ \A at \in Stops : Goto(at) \in Seq(Frames)
    <3>1. ASSUME stack # <<>> PROVE stack[1] \in Frames /\ Tail(stack) \in Seq(Frames)
      BY <3>1, HeadTailProperties, EmptySeq DEF DeferredTypeOK
    <3> QED
      BY <3>1, GotoStack DEF DeferredTypeOK, Frames
  <2>2. \A d \in Deferreds, s \in Seq(Frames) : Call(d) \o s \in Seq(Frames)
    BY CallStack
  <2>3. \A s \in Seq(Frames) : <<>> \o s \in Seq(Frames)
    BY ConcatEmptySeq
  <2>4. ASSUME NEW d \in Deferreds, AddCallback(d) PROVE DeferredTypeOK'
    BY <2>2, <2>4, CallbackSequences DEF AddCallback, DeferredTypeOK
  <2>5. ASSUME NEW d \in Deferreds, Fire(d) PROVE DeferredTypeOK'
    BY <2>2, <2>5 DEF Fire, DeferredTypeOK
  <2>6. ASSUME NEW d \in Deferreds, Pause(d) PROVE DeferredTypeOK'
    BY <2>6 DEF Pause, DeferredTypeOK
  <2>7. CASE Enter
    BY <2>1, <2>7 DEF Enter, Top, DeferredTypeOK, Stops
  <2>8. CASE Leave
    BY <2>1, <2>8 DEF Leave, Top, DeferredTypeOK
  <2>9. CASE Return
    BY <2>1, <2>9 DEF Return, Top, DeferredTypeOK, Stops
  <2>10. ASSUME NEW d \in Deferreds, Shift(d) PROVE DeferredTypeOK'
    BY <2>1, <2>10, CallbackSequences DEF Shift, Top, DeferredTypeOK, Stops
  <2>11. ASSUME NEW d \in Deferreds, Continue(d) PROVE DeferredTypeOK'
    <3>1. /\ callbacks[d][1] \in Deferreds
          /\ callbacks' \in [Deferreds -> Seq(Deferreds \cup {User})]
      BY <2>11, CallbackSequences DEF Continue
    <3>2. stack' \in Seq(Frames)
      BY <2>1, <2>2, <2>3, <2>11, <3>1 DEF Continue, Top, Stops
    <3>3. /\ running' = [running EXCEPT ![d] = TRUE]
          /\ paused' = [paused EXCEPT ![callbacks[d][1]] = @ - 1]
          /\ result' = [result EXCEPT ![callbacks[d][1]] = result[d]]
      BY <2>11 DEF Continue
    <3>4. /\ running' \in [Deferreds -> BOOLEAN]
          /\ paused' \in [Deferreds -> Int]
          /\ result' \in [Deferreds -> Deferreds \cup {Value}]
      BY <3>1, <3>3 DEF DeferredTypeOK
    <3>5. UNCHANGED <<called, pauses, adds>>
      BY <2>11 DEF Continue
    <3> QED
      BY <3>1, <3>2, <3>3, <3>4, <3>5 DEF DeferredTypeOK
  <2>12. ASSUME NEW e \in Deferreds, ReturnDeferred(e) PROVE DeferredTypeOK'
    <3>1. stack[1].d \in Deferreds
      BY <2>1, <2>12 DEF ReturnDeferred, Top
    <3>2. callbacks' \in [Deferreds -> Seq(Deferreds \cup {User})]
      BY <2>12, <3>1, CallbackSequences DEF ReturnDeferred
    <3>3. stack' \in Seq(Frames)
      BY <2>1, <2>2, <2>3, <2>12 DEF ReturnDeferred, Top, Stops
    <3>4. /\ running' \in [Deferreds -> BOOLEAN]
          /\ paused' \in [Deferreds -> Int]
          /\ result' \in [Deferreds -> Deferreds \cup {Value}]
      BY <2>12, <3>1 DEF ReturnDeferred, DeferredTypeOK
    <3>5. UNCHANGED <<called, pauses, adds>>
      BY <2>12 DEF ReturnDeferred
    <3> QED
      BY <3>2, <3>3, <3>4, <3>5 DEF DeferredTypeOK
  <2>13. CASE UNCHANGED deferredVars
    BY <2>13 DEF deferredVars, DeferredTypeOK
  <2> QED
    BY <2>4, <2>5, <2>6, <2>7, <2>8, <2>9, <2>10, <2>11, <2>12, <2>13 DEF DeferredNext
<1> QED
  BY <1>1, <1>2, PTL DEF DeferredSpec

-----------------------------------------------------------------------------
(* The frames of the stack below the top are in a callback, or about to    *)
(* break; running tells for each Deferred whether one of them is in a      *)
(* callback of it, and only such a frame sets it.                          *)

FrameOk(s, i, run) == /\ i > 1 => s[i].at \notin {"enter", "loop"}
                      /\ s[i].at = "loop" => ~run[s[i].d]
                      /\ InCallback(s[i]) => run[s[i].d]

Apart(s, i, j) == InCallback(s[i]) /\ InCallback(s[j]) /\ s[i].d = s[j].d => i = j

StackOk(s, run) == \A i \in 1..Len(s) : /\ FrameOk(s, i, run)
                                       /\ \A j \in 1..Len(s) : Apart(s, i, j)

StackInv == StackOk(stack, running)

\* A call of _runCallbacks from the program, or from below a loop.
LEMMA CallKeeps ==
  ASSUME NEW s \in Seq(Frames), s = <<>> \/ s[1].at \notin {"enter", "loop"},
         NEW r \in [Deferreds -> BOOLEAN], StackOk(s, r), NEW d \in Deferreds
  PROVE  StackOk(Call(d) \o s, r)
<1> DEFINE t == Call(d) \o s
<1>1. /\ Len(t) = Len(s) + 1
      /\ t[1].at = "enter"
      /\ \A i \in 1..Len(s) : t[i + 1] = s[i]
  <2>1. /\ Len(t) = Len(s) + 1
        /\ t[1] = [d |-> d, at |-> "enter"]
        /\ \A i \in 1..Len(s) : t[i + 1] = s[i]
    BY CallStack
  <2> QED
    BY <2>1
<1>2. Len(s) \in Nat
  OBVIOUS
<1> HIDE DEF t
<1>3. \A j \in 1..Len(t) : j = 1 \/ (j - 1 \in 1..Len(s) /\ t[j] = s[j - 1])
  BY <1>1, <1>2
<1>4. ASSUME NEW i \in 1..Len(t) PROVE FrameOk(t, i, r)
  <2>1. CASE i = 1
    BY <1>1, <2>1 DEF FrameOk, InCallback
  <2>2. CASE i - 1 = 1 /\ i - 1 \in 1..Len(s) /\ t[i] = s[i - 1]
    <3>1. s # <<>>
      BY <2>2, EmptySeq
    <3> QED
      BY <2>2, <3>1 DEF FrameOk, StackOk
  <2>3. CASE i - 1 # 1 /\ i - 1 \in 1..Len(s) /\ t[i] = s[i - 1]
    BY <1>2, <2>3 DEF FrameOk, StackOk
  <2> QED
    BY <1>3, <2>1, <2>2, <2>3
<1>5. ASSUME NEW i \in 1..Len(t), NEW j \in 1..Len(t) PROVE Apart(t, i, j)
  <2>1. ~InCallback(t[1])
    BY <1>1 DEF InCallback
  <2>2. CASE i = 1 \/ j = 1
    BY <2>1, <2>2 DEF Apart
  <2>3. CASE i # 1 /\ j # 1
    <3>1. /\ i - 1 \in 1..Len(s) /\ t[i] = s[i - 1]
          /\ j - 1 \in 1..Len(s) /\ t[j] = s[j - 1]
      BY <1>3, <2>3
    <3>2. Apart(s, i - 1, j - 1)
      BY <3>1 DEF StackOk
    <3> QED
      BY <1>2, <3>1, <3>2 DEF Apart
  <2> QED
    BY <2>2, <2>3
<1> QED
  BY <1>4, <1>5 DEF StackOk, t

\* The frame on top goes elsewhere in _runCallbacks: into a callback, out of
\* one, or to the loop when no callback runs.
LEMMA GotoKeeps ==
  ASSUME DeferredTypeOK, StackInv, stack # <<>>, NEW at \in Stops,
         NEW r \in [Deferreds -> BOOLEAN],
         \A d \in Deferreds : d # stack[1].d => r[d] = running[d],
         at = "loop" => ~r[stack[1].d],
         at \in {"callback", "continue"} => r[stack[1].d],
         running[stack[1].d] => InCallback(stack[1])
  PROVE  StackOk(Goto(at), r)
<1> DEFINE s == Goto(at)
<1>1. stack \in Seq(Frames) /\ Len(stack) \in Nat \ {0} /\ running \in [Deferreds -> BOOLEAN]
  BY EmptySeq DEF DeferredTypeOK
<1>2. /\ Len(s) = Len(stack)
      /\ s[1].at = at /\ s[1].d = stack[1].d
      /\ \A i \in 2..Len(stack) : s[i] = stack[i]
  <2>1. /\ Len(s) = Len(stack)
        /\ s[1] = [d |-> stack[1].d, at |-> at]
        /\ \A i \in 2..Len(stack) : s[i] = stack[i]
    BY <1>1, GotoStack
  <2> QED
    BY <2>1
<1> HIDE DEF s
<1>3. \A i \in 1..Len(stack) : stack[i] \in Frames
  BY <1>1
<1>4. ASSUME NEW i \in 2..Len(stack), InCallback(stack[i])
      PROVE  stack[i].d # stack[1].d
  BY <1>1, <1>4 DEF StackInv, StackOk, FrameOk, Apart
<1>5. ASSUME NEW i \in 1..Len(stack) PROVE FrameOk(s, i, r)
  <2>1. CASE i = 1
    BY <1>2, <2>1 DEF FrameOk, InCallback
  <2>2. CASE i # 1
    <3>1. FrameOk(stack, i, running) /\ s[i] = stack[i] /\ stack[i].d \in Deferreds
      BY <1>1, <1>2, <1>3, <2>2 DEF StackInv, StackOk, Frames
    <3> QED
      BY <1>1, <1>4, <2>2, <3>1 DEF FrameOk
  <2> QED
    BY <2>1, <2>2
<1>6. ASSUME NEW i \in 1..Len(stack), NEW j \in 1..Len(stack) PROVE Apart(s, i, j)
  BY <1>1, <1>2, <1>4 DEF StackInv, StackOk, Apart
<1> QED
  BY <1>2, <1>5, <1>6 DEF StackOk, s

\* _runCallbacks returns.
LEMMA TailKeeps ==
  ASSUME DeferredTypeOK, StackInv, stack # <<>>
  PROVE  StackOk(Tail(stack), running)
<1> DEFINE s == Tail(stack)
<1>1. stack \in Seq(Frames) /\ Len(stack) \in Nat \ {0}
  BY EmptySeq DEF DeferredTypeOK
<1>2. /\ Len(s) = Len(stack) - 1
      /\ \A i \in 1..Len(s) : s[i] = stack[i + 1]
  BY <1>1, HeadTailProperties
<1> HIDE DEF s
<1>3. \A i \in 1..Len(s) : i \in Nat \ {0} /\ i + 1 \in 1..Len(stack)
  BY <1>1, <1>2
<1>4. ASSUME NEW i \in 1..Len(s) PROVE FrameOk(s, i, running)
  <2>1. FrameOk(stack, i + 1, running) /\ s[i] = stack[i + 1] /\ i + 1 > 1
    BY <1>2, <1>3 DEF StackInv, StackOk
  <2> QED
    BY <2>1 DEF FrameOk
<1>5. ASSUME NEW i \in 1..Len(s), NEW j \in 1..Len(s) PROVE Apart(s, i, j)
  BY <1>2, <1>3 DEF StackInv, StackOk, Apart
<1> QED
  BY <1>4, <1>5 DEF StackOk, s

LEMMA StackInvariant == DeferredSpec => []StackInv
<1>1. DeferredInit => StackInv
  BY EmptySeq DEF DeferredInit, StackInv, StackOk
<1>2. DeferredTypeOK /\ StackInv /\ [DeferredNext]_deferredVars => StackInv'
  <2> SUFFICES ASSUME DeferredTypeOK, StackInv, [DeferredNext]_deferredVars PROVE StackInv'
    OBVIOUS
  <2>1. /\ stack \in Seq(Frames) /\ running \in [Deferreds -> BOOLEAN]
        /\ stack # <<>> => Len(stack) \in Nat \ {0} /\ stack[1] \in Frames
    BY EmptySeq DEF DeferredTypeOK
  <2>2. stack # <<>> =>
          /\ stack[1].d \in Deferreds
          /\ InCallback(stack[1]) => running[stack[1].d]
          /\ stack[1].at = "loop" => ~running[stack[1].d]
    BY <2>1 DEF StackInv, StackOk, FrameOk, Frames
  <2>3. ASSUME NEW d \in Deferreds, Program PROVE StackOk(Call(d) \o stack, running)
    BY <2>1, <2>3, CallKeeps DEF Program, Top, StackInv
  <2>4. ASSUME NEW d \in Deferreds, AddCallback(d) PROVE StackInv'
    BY <2>3, <2>4 DEF AddCallback, StackInv
  <2>5. ASSUME NEW d \in Deferreds, Fire(d) PROVE StackInv'
    BY <2>3, <2>5 DEF Fire, StackInv
  <2>6. ASSUME NEW d \in Deferreds, Pause(d) PROVE StackInv'
    BY <2>6 DEF Pause, StackInv
  <2>7. CASE Enter
    <3>1. CASE stack' = Tail(stack)
      BY <2>7, <3>1, TailKeeps DEF Enter, Top, StackInv
    <3>2. CASE stack' = Goto("loop") /\ ~running[stack[1].d]
      BY <2>1, <2>7, <3>2, GotoKeeps DEF Enter, Top, StackInv, Stops
    <3> QED
      BY <2>7, <3>1, <3>2 DEF Enter
  <2>8. CASE Leave
    BY <2>8, TailKeeps DEF Leave, Top, StackInv
  <2>9. CASE Return
    BY <2>1, <2>2, <2>9, GotoKeeps DEF Return, Top, StackInv, Stops, InCallback
  <2>10. ASSUME NEW d \in Deferreds, Shift(d) PROVE StackInv'
    BY <2>1, <2>2, <2>10, GotoKeeps DEF Shift, Top, StackInv, Stops
  <2>11. ASSUME NEW d \in Deferreds, Continue(d) PROVE StackInv'
    <3> DEFINE e == callbacks[d][1]
    <3>1. /\ stack # <<>> /\ d = stack[1].d /\ ~running[d]
          /\ running' = [running EXCEPT ![d] = TRUE]
          /\ stack' \in {Call(e) \o Goto("continue"), <<>> \o Goto("continue")}
          /\ e \in Deferreds
      BY <2>2, <2>11, CallbackSequences DEF Continue, Top
    <3>2. /\ Goto("continue") \in Seq(Frames)
          /\ Goto("continue")[1].at \notin {"enter", "loop"}
          /\ StackOk(Goto("continue"), running')
          /\ running' \in [Deferreds -> BOOLEAN]
      <4>1. Goto("continue") \in Seq(Frames) /\ Goto("continue")[1] = [d |-> stack[1].d, at |-> "continue"]
        BY <2>1, <3>1, GotoStack DEF Stops
      <4>2. /\ running' \in [Deferreds -> BOOLEAN] /\ running'[stack[1].d] = TRUE
            /\ \A x \in Deferreds : x # stack[1].d => running'[x] = running[x]
        BY <2>1, <3>1
      <4>3. StackOk(Goto("continue"), running')
        BY <3>1, <4>2, GotoKeeps DEF Stops
      <4> QED
        BY <4>1, <4>2, <4>3
    <3>3. StackOk(Call(e) \o Goto("continue"), running')
      BY <3>1, <3>2, CallKeeps
    <3>4. <<>> \o Goto("continue") = Goto("continue")
      BY <3>2, ConcatEmptySeq
    <3> QED
      BY <3>1, <3>2, <3>3, <3>4 DEF StackInv
  <2>12. ASSUME NEW e \in Deferreds, ReturnDeferred(e) PROVE StackInv'
    <3>1. /\ stack # <<>> /\ InCallback(stack[1]) /\ stack[1].d \in Deferreds
          /\ running' = [running EXCEPT ![stack[1].d] = FALSE]
          /\ stack' \in {Call(e) \o Goto("break"), <<>> \o Goto("break")}
      BY <2>2, <2>12 DEF ReturnDeferred, Top, InCallback
    <3>2. /\ Goto("break") \in Seq(Frames)
          /\ Goto("break")[1].at \notin {"enter", "loop"}
          /\ StackOk(Goto("break"), running')
          /\ running' \in [Deferreds -> BOOLEAN]
      <4>1. Goto("break") \in Seq(Frames) /\ Goto("break")[1] = [d |-> stack[1].d, at |-> "break"]
        BY <2>1, <3>1, GotoStack DEF Stops
      <4>2. /\ running' \in [Deferreds -> BOOLEAN] /\ running'[stack[1].d] = FALSE
            /\ \A x \in Deferreds : x # stack[1].d => running'[x] = running[x]
        BY <2>1, <3>1
      <4>3. StackOk(Goto("break"), running')
        BY <3>1, <4>2, GotoKeeps DEF Stops
      <4> QED
        BY <4>1, <4>2, <4>3
    <3>3. StackOk(Call(e) \o Goto("break"), running')
      BY <3>1, <3>2, CallKeeps
    <3>4. <<>> \o Goto("break") = Goto("break")
      BY <3>2, ConcatEmptySeq
    <3> QED
      BY <3>1, <3>2, <3>3, <3>4 DEF StackInv
  <2>13. CASE UNCHANGED deferredVars
    BY <2>13 DEF deferredVars, StackInv
  <2> QED
    BY <2>4, <2>5, <2>6, <2>7, <2>8, <2>9, <2>10, <2>11, <2>12, <2>13 DEF DeferredNext
<1> QED
  BY <1>1, <1>2, DeferredTypes, PTL DEF DeferredSpec

\* Callbacks of one Deferred do not run inside one another, however many
\* Deferreds fire, continue and add to each other (Deferred.as:292-349).
THEOREM NoneInside == DeferredSpec => []OneAtATime
<1>1. DeferredTypeOK /\ StackInv => OneAtATime
  <2> SUFFICES ASSUME DeferredTypeOK, StackInv PROVE OneAtATime
    OBVIOUS
  <2>1. DOMAIN stack = 1..Len(stack)
    BY DEF DeferredTypeOK
  <2> QED
    BY <2>1 DEF StackInv, StackOk, Apart, OneAtATime
<1> QED
  BY <1>1, DeferredTypes, StackInvariant, PTL

-----------------------------------------------------------------------------
(* Who waits.  A Deferred whose loop goes on, or is in a callback, waits   *)
(* for nobody; one that waits is paused once for it, by one Deferred that  *)
(* holds its _continue once; and what a loop has to do there is a frame to *)
(* do it.                                                                  *)

\* A frame of d is at one of the stops.
Has(s, d, stops) == \E i \in 1..Len(s) : s[i].d = d /\ s[i].at \in stops

Inside == {"callback", "continue"}
Going  == {"loop", "callback", "continue"}
Awake  == {"enter", "loop", "callback", "continue"}

Waiting(d) == \E e \in Deferreds : Waits(d, e)

HeldOnce == \A e, f \in Deferreds : \A i \in 1..Len(callbacks[e]), j \in 1..Len(callbacks[f]) :
              callbacks[e][i] = callbacks[f][j] /\ callbacks[e][i] # User => e = f /\ i = j

ChainOf(d) ==
  /\ running[d] => Has(stack, d, Inside)
  /\ Has(stack, d, Going) => ~Waiting(d)
  /\ result[d] \in Deferreds => Waiting(d)
  /\ paused[d] = pauses[d] + (IF Waiting(d) THEN 1 ELSE 0)
  /\ called[d] /\ callbacks[d] # <<>> /\ paused[d] = 0 => Has(stack, d, Awake)

ChainInv == HeldOnce /\ \A d \in Deferreds : ChainOf(d)

\* What a new call, or a step within _runCallbacks, makes of the stack.
LEMMA HasCall ==
  ASSUME NEW s \in Seq(Frames), NEW d \in Deferreds
  PROVE  \A x, stops : Has(Call(d) \o s, x, stops) <=> Has(s, x, stops) \/ (x = d /\ "enter" \in stops)
<1> DEFINE t == Call(d) \o s
<1>1. /\ Len(t) = Len(s) + 1 /\ Len(s) \in Nat
      /\ t[1].d = d /\ t[1].at = "enter"
      /\ \A i \in 1..Len(s) : t[i + 1] = s[i]
  <2>1. /\ Len(t) = Len(s) + 1
        /\ t[1] = [d |-> d, at |-> "enter"]
        /\ \A i \in 1..Len(s) : t[i + 1] = s[i]
    BY CallStack
  <2> QED
    BY <2>1
<1> HIDE DEF t
<1>2. \A j \in 1..Len(t) : j = 1 \/ (j - 1 \in 1..Len(s) /\ t[j] = s[j - 1])
  BY <1>1
<1>3. \A i \in 1..Len(s) : i + 1 \in 1..Len(t)
  BY <1>1
<1>4. \A x, stops : Has(t, x, stops) => Has(s, x, stops) \/ (x = d /\ "enter" \in stops)
  BY <1>1, <1>2 DEF Has
<1>5. \A x, stops : Has(s, x, stops) \/ (x = d /\ "enter" \in stops) => Has(t, x, stops)
  <2>1. 1 \in 1..Len(t)
    BY <1>1
  <2> QED
    BY <1>1, <1>3, <2>1 DEF Has
<1> QED
  BY <1>4, <1>5 DEF t

LEMMA HasGoto ==
  ASSUME stack \in Seq(Frames), stack # <<>>
  PROVE  \A x, stops :
           /\ Has(stack, x, stops) <=> \/ x = stack[1].d /\ stack[1].at \in stops
                                       \/ Has(Tail(stack), x, stops)
           /\ \A at \in Stops :
                Has(Goto(at), x, stops) <=> \/ x = stack[1].d /\ at \in stops
                                            \/ Has(Tail(stack), x, stops)
<1>1. /\ Len(stack) \in Nat \ {0} /\ Len(Tail(stack)) = Len(stack) - 1
      /\ \A i \in 1..Len(Tail(stack)) : Tail(stack)[i] = stack[i + 1]
  BY EmptySeq, HeadTailProperties
<1>2. /\ \A i \in 1..Len(Tail(stack)) : i + 1 \in 2..Len(stack)
      /\ \A i \in 2..Len(stack) : i - 1 \in 1..Len(Tail(stack)) /\ Tail(stack)[i - 1] = stack[i]
  BY <1>1
<1>3. ASSUME NEW t, Len(t) = Len(stack), \A i \in 2..Len(stack) : t[i] = stack[i]
      PROVE  \A x, stops : Has(t, x, stops) <=> (x = t[1].d /\ t[1].at \in stops)
                                                \/ Has(Tail(stack), x, stops)
  <2> TAKE x, stops
  <2>1. ASSUME NEW i \in 1..Len(t), t[i].d = x, t[i].at \in stops
        PROVE  (x = t[1].d /\ t[1].at \in stops) \/ Has(Tail(stack), x, stops)
    <3>1. i = 1 \/ i \in 2..Len(stack)
      BY <1>1, <1>3
    <3> QED
      BY <1>2, <1>3, <2>1, <3>1 DEF Has
  <2>2. 1 \in 1..Len(t) /\ \A i \in 2..Len(stack) : i \in 1..Len(t)
    BY <1>1, <1>3
  <2>3. Has(Tail(stack), x, stops) => Has(t, x, stops)
    BY <1>1, <1>2, <1>3, <2>2 DEF Has
  <2>4. x = t[1].d /\ t[1].at \in stops => Has(t, x, stops)
    BY <2>2 DEF Has
  <2> QED
    BY <2>1, <2>3, <2>4 DEF Has
<1>4. ASSUME NEW at \in Stops
      PROVE  /\ Len(Goto(at)) = Len(stack) /\ \A i \in 2..Len(stack) : Goto(at)[i] = stack[i]
             /\ Goto(at)[1].d = stack[1].d /\ Goto(at)[1].at = at
  <2>1. Goto(at)[1] = [d |-> stack[1].d, at |-> at]
    BY GotoStack
  <2> QED
    BY <2>1, GotoStack
<1>5. \A x, stops : Has(stack, x, stops) <=> \/ x = stack[1].d /\ stack[1].at \in stops
                                            \/ Has(Tail(stack), x, stops)
  BY <1>3
<1>6. ASSUME NEW at \in Stops, NEW x, NEW stops
      PROVE  Has(Goto(at), x, stops) <=> \/ x = stack[1].d /\ at \in stops
                                         \/ Has(Tail(stack), x, stops)
  <2> DEFINE t == Goto(at)
  <2>1. /\ Len(t) = Len(stack) /\ \A i \in 2..Len(stack) : t[i] = stack[i]
        /\ t[1].d = stack[1].d /\ t[1].at = at
    BY <1>4
  <2> HIDE DEF t
  <2>2. Has(t, x, stops) <=> (x = t[1].d /\ t[1].at \in stops) \/ Has(Tail(stack), x, stops)
    BY <1>3, <2>1
  <2> QED
    BY <2>1, <2>2 DEF t
<1> QED
  BY <1>5, <1>6

\* Below the top there are frames in a callback, each of a Deferred of its own
\* that is running, and frames that are about to break.
LEMMA Below ==
  ASSUME DeferredTypeOK, StackInv, stack # <<>>
  PROVE  \A x : /\ Has(Tail(stack), x, Going) => Has(Tail(stack), x, Inside)
                /\ Has(Tail(stack), x, Awake) => Has(Tail(stack), x, Inside)
                /\ Has(Tail(stack), x, Inside) => Has(Tail(stack), x, Going) /\ Has(Tail(stack), x, Awake)
                /\ Has(Tail(stack), x, Inside) =>
                     running[x] /\ ~(x = stack[1].d /\ InCallback(stack[1]))
<1>1. stack \in Seq(Frames) /\ Len(stack) \in Nat \ {0}
  BY EmptySeq DEF DeferredTypeOK
<1>2. /\ Len(Tail(stack)) = Len(stack) - 1
      /\ \A i \in 1..Len(Tail(stack)) : Tail(stack)[i] = stack[i + 1]
  BY <1>1, HeadTailProperties
<1>3. ASSUME NEW i \in 1..Len(Tail(stack))
      PROVE  /\ Tail(stack)[i].at \notin {"enter", "loop"}
             /\ Tail(stack)[i].at \in Inside =>
                  /\ running[Tail(stack)[i].d]
                  /\ ~(Tail(stack)[i].d = stack[1].d /\ InCallback(stack[1]))
  <2>1. i + 1 \in 1..Len(stack) /\ i + 1 > 1 /\ 1 \in 1..Len(stack) /\ i + 1 # 1
    BY <1>1, <1>2
  <2>2. FrameOk(stack, i + 1, running) /\ Apart(stack, i + 1, 1)
    BY <2>1 DEF StackInv, StackOk
  <2> QED
    BY <1>2, <2>1, <2>2 DEF FrameOk, Apart, InCallback, Inside
<1> QED
  BY <1>3 DEF Has, Going, Awake, Inside

\* A callback is added: of the program, or the _continue of who begins to wait.
LEMMA WaitsAppend ==
  ASSUME DeferredTypeOK, HeldOnce, NEW d \in Deferreds, NEW c \in Deferreds \cup {User},
         callbacks' = [callbacks EXCEPT ![d] = Append(@, c)]
  PROVE  /\ \A x, y \in Deferreds : Waits(x, y)' <=> Waits(x, y) \/ (y = d /\ x = c)
         /\ c = User \/ ~Waiting(c) => HeldOnce'
         /\ \A y \in Deferreds : y # d => callbacks'[y] = callbacks[y]
<1> DEFINE q == callbacks[d]
<1>1. /\ q \in Seq(Deferreds \cup {User}) /\ Len(q) \in Nat
      /\ callbacks'[d] = Append(q, c)
      /\ \A y \in Deferreds : y # d => callbacks'[y] = callbacks[y]
  BY DEF DeferredTypeOK
<1>2. /\ Len(callbacks'[d]) = Len(q) + 1 /\ callbacks'[d][Len(q) + 1] = c
      /\ \A i \in 1..Len(q) : callbacks'[d][i] = q[i]
  BY <1>1, AppendProperties
<1>3. /\ \A i \in 1..Len(q) + 1 : i = Len(q) + 1 \/ i \in 1..Len(q)
      /\ \A i \in 1..Len(q) : i \in 1..Len(q) + 1
      /\ Len(q) + 1 \in 1..Len(q) + 1
  BY <1>1
<1>4. \A x : Waits(x, d)' <=> Waits(x, d) \/ x = c
  BY <1>2, <1>3 DEF Waits, Contains
<1>5. \A x, y \in Deferreds : y # d => (Waits(x, y)' <=> Waits(x, y))
  BY <1>1 DEF Waits, Contains
<1>6. ASSUME c = User \/ ~Waiting(c) PROVE HeldOnce'
  <2> SUFFICES ASSUME NEW e \in Deferreds, NEW f \in Deferreds,
                      NEW i \in 1..Len(callbacks'[e]), NEW j \in 1..Len(callbacks'[f]),
                      callbacks'[e][i] = callbacks'[f][j], callbacks'[e][i] # User
               PROVE  e = f /\ i = j
    BY DEF HeldOnce
  <2>1. \A g \in Deferreds : \A k \in 1..Len(callbacks'[g]) :
          \/ g = d /\ k = Len(q) + 1 /\ callbacks'[g][k] = c
          \/ k \in 1..Len(callbacks[g]) /\ callbacks'[g][k] = callbacks[g][k]
    BY <1>1, <1>2, <1>3
  <2>2. c = User \/ \A g \in Deferreds : \A k \in 1..Len(callbacks[g]) : callbacks[g][k] # c
    BY <1>6 DEF Waiting, Waits, Contains
  <2> QED
    BY <2>1, <2>2 DEF HeldOnce
<1> QED
  BY <1>1, <1>4, <1>5, <1>6

\* A loop takes the first callback: whose _continue it is waits no more.
LEMMA WaitsTail ==
  ASSUME DeferredTypeOK, HeldOnce, NEW d \in Deferreds, callbacks[d] # <<>>,
         callbacks' = [callbacks EXCEPT ![d] = Tail(@)]
  PROVE  /\ HeldOnce'
         /\ \A x, y \in Deferreds : Waits(x, y)' <=> Waits(x, y) /\ x # callbacks[d][1]
         /\ callbacks[d][1] \in Deferreds => Waits(callbacks[d][1], d)
         /\ \A y \in Deferreds : y # d => callbacks'[y] = callbacks[y]
<1> DEFINE q == callbacks[d]
<1>1. /\ q \in Seq(Deferreds \cup {User}) /\ Len(q) \in Nat \ {0}
      /\ callbacks'[d] = Tail(q)
      /\ \A y \in Deferreds : y # d => callbacks'[y] = callbacks[y]
  BY EmptySeq DEF DeferredTypeOK
<1>2. /\ Len(callbacks'[d]) = Len(q) - 1
      /\ \A i \in 1..Len(callbacks'[d]) : callbacks'[d][i] = q[i + 1]
  <2>1. /\ Len(Tail(q)) = Len(q) - 1
        /\ \A i \in 1..Len(Tail(q)) : Tail(q)[i] = q[i + 1]
    BY <1>1, HeadTailProperties
  <2> QED
    BY <1>1, <2>1
<1>3. /\ \A i \in 1..Len(q) - 1 : i + 1 \in 1..Len(q) /\ i + 1 # 1
      /\ \A i \in 1..Len(q) : i = 1 \/ (i - 1 \in 1..Len(q) - 1 /\ q[i] = callbacks'[d][i - 1])
      /\ 1 \in 1..Len(q)
  BY <1>1, <1>2
<1>4. HeldOnce'
  <2> SUFFICES ASSUME NEW e \in Deferreds, NEW f \in Deferreds,
                      NEW i \in 1..Len(callbacks'[e]), NEW j \in 1..Len(callbacks'[f]),
                      callbacks'[e][i] = callbacks'[f][j], callbacks'[e][i] # User
               PROVE  e = f /\ i = j
    BY DEF HeldOnce
  <2>1. \A g \in Deferreds : \A k \in 1..Len(callbacks'[g]) : \E m \in 1..Len(callbacks[g]) :
          callbacks'[g][k] = callbacks[g][m] /\ m = IF g = d THEN k + 1 ELSE k
    BY <1>1, <1>2, <1>3
  <2>2. PICK m \in 1..Len(callbacks[e]) :
          callbacks'[e][i] = callbacks[e][m] /\ m = IF e = d THEN i + 1 ELSE i
    BY <2>1
  <2>3. PICK n \in 1..Len(callbacks[f]) :
          callbacks'[f][j] = callbacks[f][n] /\ n = IF f = d THEN j + 1 ELSE j
    BY <2>1
  <2>4. e = f /\ m = n
    BY <2>2, <2>3 DEF HeldOnce
  <2>5. i \in Int /\ j \in Int
    OBVIOUS
  <2> QED
    BY <2>2, <2>3, <2>4, <2>5
<1>5. ASSUME NEW x \in Deferreds, NEW y \in Deferreds
      PROVE  Waits(x, y)' <=> Waits(x, y) /\ x # q[1]
  <2>1. CASE y = d
    <3>1. Waits(x, d)' => Waits(x, d)
      BY <1>2, <1>3 DEF Waits, Contains
    <3>2. x = q[1] => ~Waits(x, d)'
      <4> SUFFICES ASSUME NEW i \in 1..Len(callbacks'[d]), q[i + 1] = q[1], q[1] = x PROVE FALSE
        BY <1>2 DEF Waits, Contains
      <4>1. i + 1 \in 1..Len(q) /\ i + 1 # 1 /\ q[1] # User
        BY <1>2, <1>3, DeferredAssumption
      <4> QED
        BY <1>3, <4>1 DEF HeldOnce
    <3>3. Waits(x, d) /\ x # q[1] => Waits(x, d)'
      <4> SUFFICES ASSUME NEW i \in 1..Len(q), q[i] = x, x # q[1] PROVE Waits(x, d)'
        BY DEF Waits, Contains
      <4>1. i - 1 \in 1..Len(q) - 1 /\ callbacks'[d][i - 1] = x
        BY <1>3
      <4> QED
        BY <1>2, <4>1 DEF Waits, Contains
    <3> QED
      BY <2>1, <3>1, <3>2, <3>3
  <2>2. CASE y # d
    <3>1. Waits(x, y)' <=> Waits(x, y)
      BY <1>1, <2>2 DEF Waits, Contains
    <3>2. x = q[1] => ~Waits(x, y)
      BY <1>3, <2>2, DeferredAssumption DEF HeldOnce, Waits, Contains
    <3> QED
      BY <3>1, <3>2
  <2> QED
    BY <2>1, <2>2
<1>6. q[1] \in Deferreds => Waits(q[1], d)
  BY <1>3 DEF Waits, Contains
<1> QED
  BY <1>1, <1>4, <1>5, <1>6

\* A Deferred with a frame below the top, in a callback of it.
Under(x) == Has(Tail(stack), x, Inside)

\* Where a Deferred is on the stack, before and after a step of the top frame.
LEMMA TopFrame ==
  ASSUME DeferredTypeOK, StackInv, stack # <<>>, NEW x
  PROVE  /\ Has(stack, x, Inside) <=> (x = stack[1].d /\ stack[1].at \in Inside) \/ Under(x)
         /\ Has(stack, x, Going) <=> (x = stack[1].d /\ stack[1].at \in Going) \/ Under(x)
         /\ Has(stack, x, Awake) <=> (x = stack[1].d /\ stack[1].at \in Awake) \/ Under(x)
         /\ \A at \in Stops :
              /\ Has(Goto(at), x, Inside) <=> (x = stack[1].d /\ at \in Inside) \/ Under(x)
              /\ Has(Goto(at), x, Going) <=> (x = stack[1].d /\ at \in Going) \/ Under(x)
              /\ Has(Goto(at), x, Awake) <=> (x = stack[1].d /\ at \in Awake) \/ Under(x)
         /\ Has(Tail(stack), x, Going) <=> Under(x)
         /\ Has(Tail(stack), x, Awake) <=> Under(x)
         /\ Under(x) => running[x] /\ ~(x = stack[1].d /\ stack[1].at \in Inside)
<1>1. stack \in Seq(Frames)
  BY DEF DeferredTypeOK
<1>2. /\ Has(Tail(stack), x, Going) <=> Under(x)
      /\ Has(Tail(stack), x, Awake) <=> Under(x)
      /\ Has(Tail(stack), x, Inside) <=> Under(x)
      /\ Under(x) => running[x] /\ ~(x = stack[1].d /\ stack[1].at \in Inside)
  BY Below DEF Under, InCallback, Inside
<1> QED
  BY <1>1, <1>2, HasGoto

LEMMA ChainInvariant == DeferredSpec => []ChainInv
<1> USE DeferredAssumption
<1>1. DeferredInit => ChainInv
  <2> SUFFICES ASSUME DeferredInit PROVE ChainInv
    OBVIOUS
  <2>1. \A d \in Deferreds : Len(callbacks[d]) = 0 /\ callbacks[d] = <<>>
    BY EmptySeq DEF DeferredInit
  <2>2. HeldOnce /\ \A d \in Deferreds : ~Waiting(d)
    BY <2>1 DEF HeldOnce, Waiting, Waits, Contains
  <2>3. \A d, stops : ~Has(stack, d, stops)
    BY EmptySeq DEF DeferredInit, Has
  <2> QED
    BY <2>1, <2>2, <2>3 DEF DeferredInit, ChainInv, ChainOf
<1>2. DeferredTypeOK /\ StackInv /\ ChainInv /\ [DeferredNext]_deferredVars => ChainInv'
  <2> SUFFICES ASSUME DeferredTypeOK, StackInv, ChainInv, [DeferredNext]_deferredVars PROVE ChainInv'
    OBVIOUS
  <2>0. /\ HeldOnce /\ \A x \in Deferreds : ChainOf(x)
        /\ stack \in Seq(Frames)
        /\ stack # <<>> => /\ stack[1].d \in Deferreds
                           /\ \A at \in Stops : Goto(at) \in Seq(Frames) /\ <<>> \o Goto(at) = Goto(at)
    <3>1. ASSUME stack # <<>> PROVE stack[1] \in Frames
      BY <3>1, EmptySeq DEF DeferredTypeOK
    <3> QED
      BY <3>1, GotoStack, ConcatEmptySeq DEF ChainInv, DeferredTypeOK, Frames
  <2>1. /\ \A x \in Deferreds : paused[x] \in Int /\ pauses[x] \in Nat
        /\ \A x \in Deferreds : result[x] \in Deferreds \cup {Value}
    BY DEF DeferredTypeOK
  <2>2. ASSUME callbacks' = callbacks
        PROVE  HeldOnce' /\ \A x \in Deferreds : Waiting(x)' <=> Waiting(x)
    BY <2>0, <2>2 DEF HeldOnce, Waiting, Waits
  <2>3. ASSUME NEW d \in Deferreds, AddCallback(d) PROVE ChainInv'
    <3>1. /\ callbacks' = [callbacks EXCEPT ![d] = Append(@, User)]
          /\ UNCHANGED <<called, paused, running, result, pauses>>
          /\ stack' = IF called[d] THEN Call(d) \o stack ELSE stack
      BY <2>3 DEF AddCallback
    <3>2. HeldOnce' /\ \A x \in Deferreds : Waiting(x)' <=> Waiting(x)
      BY <2>0, <3>1, WaitsAppend DEF Waiting
    <3>3. \A x \in Deferreds : x # d => callbacks'[x] = callbacks[x]
      BY <2>0, <3>1, WaitsAppend
    <3>4. \A x \in Deferreds : /\ Has(stack', x, Inside) <=> Has(stack, x, Inside)
                               /\ Has(stack', x, Going) <=> Has(stack, x, Going)
                               /\ Has(stack, x, Awake) => Has(stack', x, Awake)
                               /\ called[d] => Has(stack', d, Awake)
      BY <2>0, <3>1, HasCall DEF Inside, Going, Awake
    <3>5. ASSUME NEW x \in Deferreds PROVE ChainOf(x)'
      BY <2>0, <3>1, <3>2, <3>3, <3>4 DEF ChainOf
    <3> QED
      BY <3>2, <3>5 DEF ChainInv
  <2>4. ASSUME NEW d \in Deferreds, Fire(d) PROVE ChainInv'
    <3>1. \A x \in Deferreds : /\ Has(stack', x, Inside) <=> Has(stack, x, Inside)
                               /\ Has(stack', x, Going) <=> Has(stack, x, Going)
                               /\ Has(stack, x, Awake) => Has(stack', x, Awake)
                               /\ Has(stack', d, Awake)
      BY <2>0, <2>4, HasCall DEF Fire, Inside, Going, Awake
    <3>2. /\ UNCHANGED <<callbacks, paused, running, pauses>>
          /\ \A x \in Deferreds : x # d => called'[x] = called[x] /\ result'[x] = result[x]
          /\ result'[d] = Value
      BY <2>4 DEF Fire, DeferredTypeOK
    <3>3. ASSUME NEW x \in Deferreds PROVE ChainOf(x)'
      BY <2>0, <2>2, <3>1, <3>2 DEF ChainOf
    <3> QED
      BY <2>2, <3>2, <3>3 DEF ChainInv
  <2>5. ASSUME NEW d \in Deferreds, Pause(d) PROVE ChainInv'
    <3>1. /\ UNCHANGED <<callbacks, called, running, result, stack>>
          /\ \A x \in Deferreds : x # d => paused'[x] = paused[x] /\ pauses'[x] = pauses[x]
          /\ paused'[d] = paused[d] + 1 /\ pauses'[d] = pauses[d] + 1
      BY <2>5 DEF Pause, DeferredTypeOK
    <3>2. ASSUME NEW x \in Deferreds PROVE ChainOf(x)'
      <4>1. ChainOf(x) /\ (Waiting(x)' <=> Waiting(x))
        BY <2>0, <2>2, <3>1
      <4>2. CASE x = d
        BY <2>1, <3>1, <4>1, <4>2 DEF ChainOf
      <4>3. CASE x # d
        BY <3>1, <4>1, <4>3 DEF ChainOf
      <4> QED
        BY <4>2, <4>3
    <3> QED
      BY <2>2, <3>1, <3>2 DEF ChainInv
  <2>6. CASE Enter
    <3>1. stack # <<>> /\ stack[1].at = "enter" /\ UNCHANGED <<callbacks, called, paused, running, result, pauses>>
      BY <2>6 DEF Enter, Top
    <3>2. ASSUME NEW x \in Deferreds PROVE ChainOf(x)'
      <4>1. ChainOf(x) /\ (Waiting(x)' <=> Waiting(x))
        BY <2>0, <2>2, <3>1
      <4>2. CASE stack' = Tail(stack) /\ (running[stack[1].d] \/ paused[stack[1].d] > 0)
        <5>1. /\ Has(stack', x, Inside) <=> Under(x)
              /\ Has(stack', x, Going) <=> Under(x)
              /\ Has(stack', x, Awake) <=> Under(x)
          BY <3>1, <4>2, TopFrame DEF Under
        <5>2. /\ Has(stack, x, Inside) <=> Under(x)
              /\ Has(stack, x, Going) <=> Under(x)
              /\ Has(stack, x, Awake) <=> x = stack[1].d \/ Under(x)
          BY <3>1, TopFrame DEF Inside, Going, Awake
        <5> QED
          BY <2>1, <3>1, <4>1, <4>2, <5>1, <5>2 DEF ChainOf
      <4>3. CASE stack' = Goto("loop") /\ ~(paused[stack[1].d] > 0)
        <5>1. /\ Has(stack', x, Inside) <=> Has(stack, x, Inside)
              /\ Has(stack', x, Going) <=> x = stack[1].d \/ Has(stack, x, Going)
              /\ Has(stack', x, Awake) <=> Has(stack, x, Awake)
          BY <3>1, <4>3, TopFrame DEF Inside, Going, Awake, Stops
        <5>2. x = stack[1].d => ~Waiting(x)
          BY <2>1, <4>1, <4>3 DEF ChainOf
        <5> QED
          BY <3>1, <4>1, <5>1, <5>2 DEF ChainOf
      <4> QED
        BY <2>6, <4>2, <4>3 DEF Enter
    <3> QED
      BY <2>2, <3>1, <3>2 DEF ChainInv
  <2>7. CASE Leave
    <3>1. /\ stack # <<>> /\ stack' = Tail(stack)
          /\ stack[1].at = "break" \/ (stack[1].at = "loop" /\ callbacks[stack[1].d] = <<>>)
          /\ UNCHANGED <<callbacks, called, paused, running, result, pauses>>
      BY <2>7 DEF Leave, Top
    <3>2. ASSUME NEW x \in Deferreds PROVE ChainOf(x)'
      <4>1. ChainOf(x) /\ (Waiting(x)' <=> Waiting(x))
        BY <2>0, <2>2, <3>1
      <4>2. /\ Has(stack', x, Inside) <=> Has(stack, x, Inside)
            /\ Has(stack', x, Going) => Has(stack, x, Going)
            /\ callbacks[x] # <<>> /\ Has(stack, x, Awake) => Has(stack', x, Awake)
        BY <3>1, TopFrame DEF Inside, Going, Awake, Under
      <4> QED
        BY <3>1, <4>1, <4>2 DEF ChainOf
    <3> QED
      BY <2>2, <3>1, <3>2 DEF ChainInv
  <2>8. CASE Return
    <3> DEFINE d == stack[1].d
    <3>1. /\ stack # <<>> /\ stack' = Goto("loop") /\ stack[1].at \in Inside
          /\ running' = [running EXCEPT ![d] = FALSE] /\ result' = [result EXCEPT ![d] = Value]
          /\ UNCHANGED <<callbacks, called, paused, pauses>>
      BY <2>8 DEF Return, Top, Inside
    <3>2. ASSUME NEW x \in Deferreds PROVE ChainOf(x)'
      <4>1. ChainOf(x) /\ (Waiting(x)' <=> Waiting(x))
        BY <2>0, <2>2, <3>1
      <4>2. /\ x # d => (Has(stack', x, Inside) <=> Has(stack, x, Inside))
            /\ Has(stack', x, Going) <=> Has(stack, x, Going)
            /\ Has(stack', x, Awake) <=> Has(stack, x, Awake)
        BY <3>1, TopFrame DEF Inside, Going, Awake, Stops
      <4>3. IF x = d THEN ~running'[x] /\ result'[x] = Value
                     ELSE running'[x] = running[x] /\ result'[x] = result[x]
        BY <2>0, <3>1 DEF DeferredTypeOK
      <4> QED
        BY <3>1, <4>1, <4>2, <4>3 DEF ChainOf
    <3> QED
      BY <2>2, <3>1, <3>2 DEF ChainInv
  <2>9. ASSUME NEW d \in Deferreds, Shift(d) PROVE ChainInv'
    <3>1. /\ stack # <<>> /\ d = stack[1].d /\ stack[1].at = "loop" /\ stack' = Goto("callback")
          /\ callbacks[d] # <<>> /\ callbacks[d][1] = User
          /\ callbacks' = [callbacks EXCEPT ![d] = Tail(@)]
          /\ running' = [running EXCEPT ![d] = TRUE]
          /\ UNCHANGED <<called, paused, result, pauses>>
      BY <2>9 DEF Shift, Top
    <3>2. /\ HeldOnce' /\ \A x \in Deferreds : Waiting(x)' <=> Waiting(x)
          /\ \A x \in Deferreds : x # d => callbacks'[x] = callbacks[x]
      BY <2>0, <3>1, WaitsTail DEF Waiting
    <3>3. ASSUME NEW x \in Deferreds PROVE ChainOf(x)'
      <4>1. /\ Has(stack', x, Inside) <=> x = d \/ Has(stack, x, Inside)
            /\ Has(stack', x, Going) <=> Has(stack, x, Going)
            /\ Has(stack', x, Awake) <=> Has(stack, x, Awake)
        BY <3>1, TopFrame DEF Inside, Going, Awake, Stops
      <4>2. x # d => running'[x] = running[x]
        BY <3>1 DEF DeferredTypeOK
      <4> QED
        BY <2>0, <3>1, <3>2, <4>1, <4>2 DEF ChainOf
    <3> QED
      BY <3>2, <3>3 DEF ChainInv
  <2>10. ASSUME NEW d \in Deferreds, Continue(d) PROVE ChainInv'
    <3>1. PICK e \in Deferreds :
            /\ e = callbacks[d][1]
            /\ stack # <<>> /\ d = stack[1].d /\ stack[1].at = "loop" /\ callbacks[d] # <<>>
            /\ callbacks' = [callbacks EXCEPT ![d] = Tail(@)]
            /\ running' = [running EXCEPT ![d] = TRUE]
            /\ result' = [result EXCEPT ![e] = result[d]]
            /\ paused' = [paused EXCEPT ![e] = @ - 1]
            /\ stack' = (IF paused'[e] = 0 /\ called[e] THEN Call(e) ELSE <<>>) \o Goto("continue")
            /\ UNCHANGED <<called, pauses>>
      BY <2>10, CallbackSequences DEF Continue, Top
    <3>2. /\ HeldOnce' /\ \A x \in Deferreds : Waiting(x)' <=> Waiting(x) /\ x # e
          /\ \A x \in Deferreds : x # d => callbacks'[x] = callbacks[x]
          /\ Waiting(e)
      BY <2>0, <3>1, WaitsTail DEF Waiting
    <3>3. ~Waiting(d) /\ result[d] = Value /\ e # d
      <4>1. Has(stack, d, Going) /\ ChainOf(d)
        BY <2>0, <3>1, TopFrame DEF Going
      <4> QED
        BY <2>1, <3>2, <4>1 DEF ChainOf
    <3>4. /\ \A x \in Deferreds : /\ x # d => running'[x] = running[x]
                                  /\ x # e => paused'[x] = paused[x] /\ result'[x] = result[x]
          /\ paused'[e] = paused[e] - 1 /\ result'[e] = Value
      BY <3>1, <3>3 DEF DeferredTypeOK
    <3>5. ASSUME NEW x \in Deferreds PROVE ChainOf(x)'
      <4>1. /\ Has(Goto("continue"), x, Inside) <=> x = d \/ Has(stack, x, Inside)
            /\ Has(Goto("continue"), x, Going) <=> Has(stack, x, Going)
            /\ Has(Goto("continue"), x, Awake) <=> Has(stack, x, Awake)
        BY <3>1, TopFrame DEF Inside, Going, Awake, Stops
      <4>2. /\ Has(stack', x, Inside) <=> Has(Goto("continue"), x, Inside)
            /\ Has(stack', x, Going) <=> Has(Goto("continue"), x, Going)
            /\ Has(Goto("continue"), x, Awake) => Has(stack', x, Awake)
            /\ x = e /\ paused'[e] = 0 /\ called[e] => Has(stack', x, Awake)
        <5>1. Goto("continue") \in Seq(Frames) /\ <<>> \o Goto("continue") = Goto("continue")
          BY <2>0, <3>1 DEF Stops
        <5>2. CASE paused'[e] = 0 /\ called[e]
          <6>1. stack' = Call(e) \o Goto("continue")
            BY <3>1, <5>2
          <6>2. \A stops : Has(stack', x, stops) <=>
                             Has(Goto("continue"), x, stops) \/ (x = e /\ "enter" \in stops)
            BY <5>1, <6>1, HasCall
          <6> QED
            BY <6>2 DEF Inside, Going, Awake
        <5>3. CASE ~(paused'[e] = 0 /\ called[e])
          BY <3>1, <5>1, <5>3
        <5> QED
          BY <5>2, <5>3
      <4>3. ChainOf(x)
        BY <2>0
      <4>4. CASE x = e
        <5>1. /\ paused[x] = pauses[x] + 1 /\ pauses'[x] = pauses[x] /\ pauses[x] \in Nat
              /\ paused'[x] = paused[x] - 1
              /\ ~Waiting(x)' /\ called' = called /\ result'[x] = Value /\ Value \notin Deferreds
              /\ running'[x] = running[x]
          BY <2>1, <3>1, <3>2, <3>3, <3>4, <4>3, <4>4 DEF ChainOf
        <5>2. /\ running'[x] => Has(stack', x, Inside)
              /\ called[x] /\ paused'[x] = 0 => Has(stack', x, Awake)
          BY <3>3, <4>1, <4>2, <4>3, <4>4, <5>1 DEF ChainOf
        <5> QED
          BY <5>1, <5>2 DEF ChainOf
      <4>5. CASE x # e
        BY <3>1, <3>2, <3>3, <3>4, <4>1, <4>2, <4>3, <4>5 DEF ChainOf
      <4> QED
        BY <4>4, <4>5
    <3> QED
      BY <3>2, <3>5 DEF ChainInv
  <2>11. ASSUME NEW e \in Deferreds, ReturnDeferred(e) PROVE ChainInv'
    <3>1. PICK d \in Deferreds :
            /\ stack # <<>> /\ d = stack[1].d /\ stack[1].at = "callback"
            /\ callbacks' = [callbacks EXCEPT ![e] = Append(@, d)]
            /\ running' = [running EXCEPT ![d] = FALSE]
            /\ result' = [result EXCEPT ![d] = e]
            /\ paused' = [paused EXCEPT ![d] = @ + 1]
            /\ stack' = (IF called[e] THEN Call(e) ELSE <<>>) \o Goto("break")
            /\ UNCHANGED <<called, pauses>>
      BY <2>0, <2>11 DEF ReturnDeferred, Top
    <3>2. ~Waiting(d)
      <4>1. Has(stack, d, Going) /\ ChainOf(d)
        BY <2>0, <3>1, TopFrame DEF Going
      <4> QED
        BY <4>1 DEF ChainOf
    <3>3. /\ HeldOnce' /\ \A x \in Deferreds : Waiting(x)' <=> Waiting(x) \/ x = d
          /\ \A x \in Deferreds : x # e => callbacks'[x] = callbacks[x]
      <4>1. HeldOnce /\ d \in Deferreds \cup {User}
        BY <2>0
      <4>2. callbacks' = [callbacks EXCEPT ![e] = Append(@, d)]
        BY <3>1
      <4>3. /\ d = User \/ ~Waiting(d) => HeldOnce'
            /\ \A x, y \in Deferreds : Waits(x, y)' <=> Waits(x, y) \/ (y = e /\ x = d)
            /\ \A x \in Deferreds : x # e => callbacks'[x] = callbacks[x]
        BY <4>1, <4>2, WaitsAppend
      <4> QED
        BY <3>2, <4>3 DEF Waiting
    <3>4. /\ \A x \in Deferreds : x # d => /\ running'[x] = running[x] /\ paused'[x] = paused[x]
                                           /\ result'[x] = result[x]
          /\ paused'[d] = paused[d] + 1 /\ ~running'[d]
      BY <3>1 DEF DeferredTypeOK
    <3>5. ASSUME NEW x \in Deferreds PROVE ChainOf(x)'
      <4>1. /\ x # d => /\ Has(Goto("break"), x, Inside) <=> Has(stack, x, Inside)
                        /\ Has(Goto("break"), x, Awake) <=> Has(stack, x, Awake)
            /\ Has(Goto("break"), x, Going) <=> x # d /\ Has(stack, x, Going)
        BY <3>1, TopFrame DEF Inside, Going, Awake, Stops
      <4>2. /\ Has(stack', x, Inside) <=> Has(Goto("break"), x, Inside)
            /\ Has(stack', x, Going) <=> Has(Goto("break"), x, Going)
            /\ Has(Goto("break"), x, Awake) => Has(stack', x, Awake)
            /\ x = e /\ called[e] => Has(stack', x, Awake)
        <5>1. Goto("break") \in Seq(Frames) /\ <<>> \o Goto("break") = Goto("break")
          BY <2>0, <3>1 DEF Stops
        <5>2. CASE called[e]
          <6>1. stack' = Call(e) \o Goto("break")
            BY <3>1, <5>2
          <6>2. \A stops : Has(stack', x, stops) <=>
                             Has(Goto("break"), x, stops) \/ (x = e /\ "enter" \in stops)
            BY <5>1, <6>1, HasCall
          <6> QED
            BY <6>2 DEF Inside, Going, Awake
        <5>3. CASE ~called[e]
          BY <3>1, <5>1, <5>3
        <5> QED
          BY <5>2, <5>3
      <4>3. ChainOf(x)
        BY <2>0
      <4>4. CASE x = d
        BY <2>1, <3>1, <3>2, <3>3, <3>4, <4>1, <4>2, <4>3, <4>4 DEF ChainOf
      <4>5. CASE x # d
        BY <3>1, <3>3, <3>4, <4>1, <4>2, <4>3, <4>5 DEF ChainOf
      <4> QED
        BY <4>4, <4>5
    <3> QED
      BY <3>3, <3>5 DEF ChainInv
  <2>12. CASE UNCHANGED deferredVars
    <3>1. \A x \in Deferreds : ChainOf(x)'
      BY <2>0, <2>2, <2>12 DEF deferredVars, ChainOf
    <3> QED
      BY <2>2, <2>12, <3>1 DEF deferredVars, ChainInv
  <2> QED
    BY <2>3, <2>4, <2>5, <2>6, <2>7, <2>8, <2>9, <2>10, <2>11, <2>12 DEF DeferredNext
<1> QED
  BY <1>1, <1>2, DeferredTypes, StackInvariant, PTL DEF DeferredSpec

\* When the thread is idle no callback is left behind (Deferred.as:159-162,
\* 255-277, 292-349): a Deferred that has fired is done, paused by the program
\* or waits for one other.
THEOREM NoneLeftBehind == DeferredSpec => []NothingLeftBehind
<1>1. DeferredTypeOK /\ ChainInv => NothingLeftBehind
  <2> SUFFICES ASSUME DeferredTypeOK, ChainInv, stack = <<>>, NEW d \in Deferreds
               PROVE  /\ called[d] /\ callbacks[d] # <<>> =>
                           pauses[d] > 0 \/ \E e \in Deferreds : Waits(d, e)
                      /\ paused[d] = pauses[d] + Cardinality({e \in Deferreds : Waits(d, e)})
                      /\ \A e, f \in Deferreds : Waits(d, e) /\ Waits(d, f) => e = f
    BY DEF NothingLeftBehind
  <2> DEFINE W == {e \in Deferreds : Waits(d, e)}
  <2>1. /\ ChainOf(d) /\ ~Has(stack, d, Awake) /\ pauses[d] \in Nat
        /\ Waiting(d) <=> W # {}
    BY EmptySeq DEF ChainInv, Has, DeferredTypeOK, Waiting
  <2>2. \A e, f \in Deferreds : Waits(d, e) /\ Waits(d, f) => e = f
    BY DeferredAssumption DEF ChainInv, HeldOnce, Waits, Contains
  <2>3. Cardinality(W) = IF Waiting(d) THEN 1 ELSE 0
    <3>1. CASE W = {}
      BY <2>1, <3>1, FS_EmptySet
    <3>2. CASE W # {}
      <4>1. PICK e \in Deferreds : W = {e}
        BY <2>2, <3>2
      <4> QED
        BY <2>1, <4>1, FS_Singleton
    <3> QED
      BY <3>1, <3>2
  <2> QED
    BY <2>1, <2>2, <2>3 DEF ChainOf, Waiting
<1> QED
  BY <1>1, DeferredTypes, ChainInvariant, PTL

\* A Deferred that waits for another one calls none of its callbacks, and no
\* callback is given a Deferred for a result (Deferred.as:273-277, 334-340).
THEOREM SettledResults == DeferredSpec => ResultsAreSettled
<1>1. DeferredTypeOK /\ StackInv /\ ChainInv /\ [DeferredNext]_deferredVars =>
        [\A d \in Deferreds :
           Len(callbacks'[d]) < Len(callbacks[d]) =>
             result[d] \notin Deferreds /\ \A e \in Deferreds : ~Waits(d, e)]_deferredVars
  <2> SUFFICES ASSUME DeferredTypeOK, StackInv, ChainInv, [DeferredNext]_deferredVars, NEW d \in Deferreds,
                      Len(callbacks'[d]) < Len(callbacks[d])
               PROVE  result[d] \notin Deferreds /\ \A e \in Deferreds : ~Waits(d, e)
    OBVIOUS
  <2>1. callbacks[d] \in Seq(Deferreds \cup {User}) /\ Len(callbacks[d]) \in Nat
    BY DEF DeferredTypeOK
  <2>2. callbacks'[d] # callbacks[d]
    BY <2>1
  <2>3. \A c \in Deferreds \cup {User} : callbacks'[d] # Append(callbacks[d], c)
    <3> SUFFICES ASSUME NEW c \in Deferreds \cup {User}, callbacks'[d] = Append(callbacks[d], c)
                 PROVE  FALSE
      OBVIOUS
    <3>1. Len(callbacks'[d]) = Len(callbacks[d]) + 1
      BY <2>1, AppendProperties
    <3> QED
      BY <2>1, <3>1
  <2>4. \A e, c \in Deferreds \cup {User} :
          e \in Deferreds => callbacks' # [callbacks EXCEPT ![e] = Append(@, c)]
    BY <2>2, <2>3 DEF DeferredTypeOK
  <2>5. ASSUME NEW e \in Deferreds, ReturnDeferred(e) PROVE FALSE
    <3>1. stack[1].d \in Deferreds
      BY <2>5, EmptySeq DEF ReturnDeferred, Top, DeferredTypeOK, Frames
    <3> QED
      BY <2>4, <2>5, <3>1 DEF ReturnDeferred
  <2>6. stack # <<>> /\ stack[1].d = d /\ stack[1].at = "loop"
    <3>1. ASSUME NEW e \in Deferreds, Shift(e) \/ Continue(e)
          PROVE  stack # <<>> /\ stack[1].d = d /\ stack[1].at = "loop"
      BY <2>2, <3>1 DEF Shift, Continue, Top, DeferredTypeOK
    <3>2. ASSUME NEW e \in Deferreds, AddCallback(e) PROVE FALSE
      BY <2>4, <3>2 DEF AddCallback
    <3> QED
      BY <2>2, <2>5, <3>1, <3>2 DEF DeferredNext, deferredVars, Enter, Leave, Return, Fire, Pause
  <2>7. Has(stack, d, Going)
    BY <2>6, TopFrame DEF Going
  <2> QED
    BY <2>7 DEF ChainInv, ChainOf, Waiting
<1> QED
  BY <1>1, DeferredTypes, StackInvariant, ChainInvariant, PTL DEF DeferredSpec, ResultsAreSettled

-----------------------------------------------------------------------------
(* ConsoleMarkers.                                                         *)

Kinds == {"draft", "saved", "listed"}

\* What Show does for new gomees keeps the screen well formed, and makes markers
\* of kind listed for gomees of the listing only.
LEMMA ShowScreen ==
  ASSUME TypeOK, NEW found \in SUBSET Gomees, Show(found)
  PROVE  /\ layer' \subseteq Markers
         /\ markers' \in [Gomees -> Markers \cup {None}]
         /\ kind' \in [Markers -> Kinds]
         /\ data' \in [Markers -> Gomees \cup {Own}]
         /\ \A g \in Gomees : markers'[g] # markers[g] => g \in found
         /\ \A g \in Gomees : markers[g] # None =>
              markers'[g] = markers[g] /\ kind'[markers[g]] = kind[markers[g]]
<1> DEFINE new == {g \in found : markers[g] = None}
<1>1. PICK f \in Injection(new, Free) :
       /\ layer' = layer \cup Range(f)
       /\ markers' = [g \in Gomees |-> IF g \in new THEN f[g] ELSE markers[g]]
       /\ kind' = [m \in Markers |-> IF m \in Range(f) THEN "listed" ELSE kind[m]]
       /\ data' = [m \in Markers |-> IF \E g \in found : markers'[g] = m
                                     THEN CHOOSE g \in found : markers'[g] = m ELSE data[m]]
  BY DEF Show
<1>2. f \in [new -> Free] /\ Range(f) \subseteq Free
  BY DEF Injection, Range
<1>3. Free \subseteq Markers /\ Free \cap Known = {}
  BY DEF Free
<1>4. \A m \in Markers : (\E g \in found : markers'[g] = m)
                            => (CHOOSE g \in found : markers'[g] = m) \in Gomees
  OBVIOUS
<1>5. \A g \in Gomees : markers[g] # None => markers[g] \in Known /\ markers[g] \in Markers
  BY DEF Known, Range, TypeOK
<1> QED
  BY <1>1, <1>2, <1>3, <1>4, <1>5 DEF TypeOK, Kinds

\* Each action keeps the server, the screen and the requests well formed
\* (MineGomeeMarkersController.as:72-332).
THEOREM Types == Spec => []TypeOK
<1>1. Init => TypeOK
  <2> SUFFICES ASSUME Init PROVE TypeOK
    OBVIOUS
  <2>1. /\ owner \in [Gomees -> (Users \ {Guest}) \cup {None}]
        /\ stored \subseteq {g \in Gomees : owner[g] # None}
    BY DEF Init
  <2>2. 1 \in Sessions
    BY ConsoleAssumption DEF Sessions
  <2>3. /\ layer \subseteq Markers
        /\ markers \in [Gomees -> Markers \cup {None}]
        /\ kind \in [Markers -> {"draft", "saved", "listed"}]
        /\ data \in [Markers -> Gomees \cup {Own}]
        /\ ownId \in [Markers -> Gomees \cup {None}]
    BY DEF Init
  <2>4. /\ post \in [Posts -> PostRequests]
        /\ delete \in [Deletes -> DeleteRequests]
    BY DEF Init, PostRequests, DeleteRequests
  <2>5. listing \in [Sessions -> [stage : {"idle", "sent", "handled"}, found : SUBSET Gomees]]
    BY DEF Init, NoList
  <2> QED
    BY <2>1, <2>2, <2>3, <2>4, <2>5 DEF Init, TypeOK
<1>2. TypeOK /\ [Next]_vars => TypeOK'
  <2> SUFFICES ASSUME TypeOK, [Next]_vars PROVE TypeOK'
    OBVIOUS
  <2> USE ConsoleAssumption DEF Idle, PostRequests, DeleteRequests, server, screen, history
  <2>1. CASE AddMarker
    BY <2>1 DEF AddMarker, TypeOK, Free
  <2>2. CASE UpdateMarkers
    BY <2>2 DEF UpdateMarkers, TypeOK
  <2>3. CASE SignIn
    <3>1. session' \in Sessions
      BY <2>3 DEF SignIn, TypeOK, Sessions
    <3>2. /\ layer' \subseteq Markers
          /\ markers' \in [Gomees -> Markers \cup {None}]
          /\ raised' \in BOOLEAN
      <4>1. CASE Known \subseteq layer
        BY <2>3, <4>1 DEF SignIn, TypeOK
      <4>2. CASE ~(Known \subseteq layer)
        <5>1. PICK S \in SUBSET {g \in Gomees : markers[g] \in layer} :
                /\ layer' = layer \ {markers[g] : g \in S}
                /\ markers' = [g \in Gomees |-> IF g \in S THEN None ELSE markers[g]]
                /\ raised' = TRUE
          BY <2>3, <4>2 DEF SignIn
        <5> QED
          BY <5>1 DEF TypeOK
      <4> QED
        BY <4>1, <4>2
    <3> QED
      BY <2>3, <3>1, <3>2 DEF SignIn, TypeOK
  <2>4. ASSUME NEW m \in Markers, DropDraft(m) PROVE TypeOK'
    BY <2>4 DEF DropDraft, TypeOK
  <2>5. ASSUME NEW m \in Markers, NEW p \in Posts, Save(m, p) PROVE TypeOK'
    BY <2>5 DEF Save, TypeOK
  <2>6. ASSUME NEW m \in Markers, NEW d \in Deletes, RemoveClick(m, d) PROVE TypeOK'
    BY <2>6 DEF RemoveClick, TypeOK, GomeeId
  <2>7. ASSUME NEW p \in Posts, PostHandled(p) PROVE TypeOK'
    <3>1. PICK g \in Gomees :
            /\ owner' = [owner EXCEPT ![g] = user[post[p].session]]
            /\ stored' = stored \cup {g}
            /\ post' = [post EXCEPT ![p].stage = "stored", ![p].id = g]
      BY <2>7 DEF PostHandled
    <3>2. post[p] # Idle /\ user[post[p].session] \in Users \ {Guest}
      BY <2>7 DEF PostHandled, TypeOK
    <3>3. /\ owner' \in [Gomees -> (Users \ {Guest}) \cup {None}]
          /\ stored' \subseteq {x \in Gomees : owner'[x] # None}
      BY <3>1, <3>2 DEF TypeOK
    <3>4. post' \in [Posts -> PostRequests]
      <4>1. post \in [Posts -> PostRequests]
        BY DEF TypeOK
      <4>2. post[p] \in [stage : {"sent", "stored", "owner"}, marker : Markers,
                         session : Sessions, id : Gomees \cup {None}]
        BY <3>2, <4>1 DEF PostRequests
      <4>3. [post[p] EXCEPT !.stage = "stored", !.id = g] \in PostRequests
        BY <4>2 DEF PostRequests
      <4> QED
        BY <3>1, <4>1, <4>3
    <3> QED
      BY <2>7, <3>3, <3>4 DEF PostHandled, TypeOK
  <2>8. ASSUME NEW p \in Posts, PostFails(p) PROVE TypeOK'
    BY <2>8 DEF PostFails, TypeOK
  <2>9. ASSUME NEW p \in Posts, SetId(p) PROVE TypeOK'
    <3>1. post[p] # Idle /\ post[p] \in PostRequests
      BY <2>9 DEF SetId, TypeOK
    <3>2. post[p].id \in Gomees \cup {None} /\ [post[p] EXCEPT !.stage = "owner"] \in PostRequests
      BY <3>1
    <3>3. /\ ownId' \in [Markers -> Gomees \cup {None}]
          /\ post' \in [Posts -> PostRequests]
      BY <2>9, <3>2 DEF SetId, TypeOK
    <3> QED
      BY <2>9, <3>3 DEF SetId, TypeOK
  <2>10. ASSUME NEW p \in Posts, Register(p) PROVE TypeOK'
    BY <2>10 DEF Register, TypeOK
  <2>11. ASSUME NEW d \in Deletes, DeleteHandled(d) PROVE TypeOK'
    BY <2>11 DEF DeleteHandled, TypeOK
  <2>12. ASSUME NEW d \in Deletes, DeleteFails(d) PROVE TypeOK'
    BY <2>12 DEF DeleteFails, TypeOK
  <2>13. ASSUME NEW d \in Deletes, Removed(d) PROVE TypeOK'
    BY <2>13 DEF Removed, TypeOK
  <2>14. ASSUME NEW s \in Sessions, ListHandled(s) PROVE TypeOK'
    BY <2>14 DEF ListHandled, TypeOK
  <2>15. ASSUME NEW s \in Sessions, ListFails(s) PROVE TypeOK'
    BY <2>15 DEF ListFails, TypeOK, NoList
  <2>16. ASSUME NEW s \in Sessions, Listed(s) PROVE TypeOK'
    <3>1. listing[s].found \in SUBSET Gomees
      BY DEF TypeOK
    <3>2. /\ layer' \subseteq Markers
          /\ markers' \in [Gomees -> Markers \cup {None}]
          /\ kind' \in [Markers -> Kinds]
          /\ data' \in [Markers -> Gomees \cup {Own}]
      BY <2>16, <3>1, ShowScreen DEF Listed, TypeOK, Kinds
    <3> QED
      BY <2>16, <3>2 DEF Listed, TypeOK, NoList, Kinds
  <2>17. CASE UNCHANGED vars
    BY <2>17 DEF vars, TypeOK
  <2> QED
    BY <2>1, <2>2, <2>3, <2>4, <2>5, <2>6, <2>7, <2>8, <2>9, <2>10, <2>11, <2>12, <2>13,
       <2>14, <2>15, <2>16, <2>17 DEF Next
<1> QED
  BY <1>1, <1>2, PTL DEF Spec

-----------------------------------------------------------------------------
(* Nobody owns a gomee before it is stored, and then for good, so what a   *)
(* listing has found stays the listing user's.                             *)

ApartInv ==
  /\ SessionsApart
  /\ \A s \in Sessions : \A g \in listing[s].found : owner[g] = user[s]

\* The markers of listings belong to the user of the session, however late the
\* listings of earlier sessions are answered
\* (MineGomeeMarkersController.as:72-87, 299-332).
THEOREM NoneFromEarlierSessions == Spec => []SessionsApart
<1>1. Init => ApartInv
  BY DEF Init, ApartInv, SessionsApart, NoList, Sessions
<1>2. TypeOK /\ TypeOK' /\ ApartInv /\ [Next]_vars => ApartInv'
  <2> SUFFICES ASSUME TypeOK, TypeOK', ApartInv, [Next]_vars PROVE ApartInv'
    OBVIOUS
  <2> USE ConsoleAssumption DEF server, screen, history
  <2>1. CASE AddMarker
    <3>1. PICK m \in Free : kind' = [kind EXCEPT ![m] = "draft"]
      BY <2>1 DEF AddMarker
    <3>2. \A g \in Gomees : markers[g] # None => markers[g] # m
      BY <3>1 DEF Free, Known, Range, TypeOK
    <3> QED
      BY <2>1, <3>1, <3>2 DEF AddMarker, ApartInv, SessionsApart, TypeOK
  <2>2. CASE UpdateMarkers
    BY <2>2 DEF UpdateMarkers, ApartInv, SessionsApart, TypeOK
  <2>3. CASE SignIn
    BY <2>3 DEF SignIn, ApartInv, SessionsApart, TypeOK
  <2>4. ASSUME NEW m \in Markers, DropDraft(m) PROVE ApartInv'
    BY <2>4 DEF DropDraft, ApartInv, SessionsApart
  <2>5. ASSUME NEW m \in Markers, NEW p \in Posts, Save(m, p) PROVE ApartInv'
    BY <2>5 DEF Save, ApartInv, SessionsApart
  <2>6. ASSUME NEW m \in Markers, NEW d \in Deletes, RemoveClick(m, d) PROVE ApartInv'
    BY <2>6 DEF RemoveClick, ApartInv, SessionsApart
  <2>7. ASSUME NEW p \in Posts, PostHandled(p) PROVE ApartInv'
    <3>1. PICK g \in Gomees : owner[g] = None /\ owner' = [owner EXCEPT ![g] = user[post[p].session]]
      BY <2>7 DEF PostHandled
    <3>2. \A s \in Sessions : user[s] # None /\ session \in Sessions
      BY DEF TypeOK
    <3> QED
      BY <2>7, <3>1, <3>2 DEF PostHandled, ApartInv, SessionsApart, TypeOK
  <2>8. ASSUME NEW p \in Posts, PostFails(p) PROVE ApartInv'
    BY <2>8 DEF PostFails, ApartInv, SessionsApart
  <2>9. ASSUME NEW p \in Posts, SetId(p) PROVE ApartInv'
    BY <2>9 DEF SetId, ApartInv, SessionsApart
  <2>10. ASSUME NEW p \in Posts, Register(p) PROVE ApartInv'
    BY <2>10 DEF Register, ApartInv, SessionsApart, TypeOK
  <2>11. ASSUME NEW d \in Deletes, DeleteHandled(d) PROVE ApartInv'
    BY <2>11 DEF DeleteHandled, ApartInv, SessionsApart
  <2>12. ASSUME NEW d \in Deletes, DeleteFails(d) PROVE ApartInv'
    BY <2>12 DEF DeleteFails, ApartInv, SessionsApart
  <2>13. ASSUME NEW d \in Deletes, Removed(d) PROVE ApartInv'
    BY <2>13 DEF Removed, ApartInv, SessionsApart, TypeOK
  <2>14. ASSUME NEW s \in Sessions, ListHandled(s) PROVE ApartInv'
    BY <2>14 DEF ListHandled, ApartInv, SessionsApart, TypeOK
  <2>15. ASSUME NEW s \in Sessions, ListFails(s) PROVE ApartInv'
    BY <2>15 DEF ListFails, ApartInv, SessionsApart, TypeOK, NoList
  <2>16. ASSUME NEW s \in Sessions, Listed(s) PROVE ApartInv'
    <3>1. \A x \in Sessions : \A g \in listing'[x].found : owner'[g] = user'[x]
      BY <2>16 DEF Listed, ApartInv, TypeOK, NoList
    <3>2. CASE s = session
      <4>1. /\ listing[s].found \in SUBSET Gomees
            /\ Show(listing[s].found)
            /\ \A g \in listing[s].found : owner[g] = user[session]
        BY <2>16, <3>2 DEF Listed, ApartInv, TypeOK
      <4>2. \A g \in Gomees : markers[g] # None =>
              markers'[g] = markers[g] /\ kind'[markers[g]] = kind[markers[g]]
        BY <4>1, ShowScreen
      <4>3. \A g \in Gomees : markers'[g] # markers[g] => g \in listing[s].found
        BY <4>1, ShowScreen
      <4> QED
        BY <2>16, <3>1, <4>1, <4>2, <4>3 DEF Listed, ApartInv, SessionsApart
    <3>3. CASE s # session
      BY <2>16, <3>1, <3>3 DEF Listed, ApartInv, SessionsApart
    <3> QED
      BY <3>2, <3>3
  <2>17. CASE UNCHANGED vars
    BY <2>17 DEF vars, ApartInv, SessionsApart
  <2> QED
    BY <2>1, <2>2, <2>3, <2>4, <2>5, <2>6, <2>7, <2>8, <2>9, <2>10, <2>11, <2>12, <2>13,
       <2>14, <2>15, <2>16, <2>17 DEF Next
<1>3. ApartInv => SessionsApart
  BY DEF ApartInv
<1> QED
  BY <1>1, <1>2, <1>3, Types, PTL DEF Spec

-----------------------------------------------------------------------------
(* What the map shows and what the controller knows.  A marker has one     *)
(* gomee, whose identity settles when addGomee is answered: from then on   *)
(* it is Id(m), whatever listings do to its data.  A request about a       *)
(* marker keeps its name taken, so what is said of the marker holds while  *)
(* the request is under way.                                               *)

Id(m) == GomeeId(m, data[m])

KnownInv ==
  /\ \A g \in Gomees : markers[g] # None =>
       markers[g] \in layer /\ kind[markers[g]] # "draft" /\ Id(markers[g]) = g
  /\ \A m \in Markers : kind[m] = "draft" => data[m] = Own

ShownInv ==
  \A m \in layer : \/ kind[m] = "draft"
                   \/ Id(m) \in Gomees /\ markers[Id(m)] = m
                   \/ Id(m) \in doubled

PostsInv ==
  /\ \A p \in Posts : Busy(post[p]) =>
       /\ kind[post[p].marker] = "draft"
       /\ post[p].stage \in {"stored", "owner"} => post[p].id \in Gomees
       /\ post[p].stage = "owner" => ownId[post[p].marker] = post[p].id
  /\ \A p, q \in Posts : Busy(post[p]) /\ Busy(post[q]) /\ post[p].marker = post[q].marker => p = q

DeletesInv ==
  \A d \in Deletes : Busy(delete[d]) =>
    /\ kind[delete[d].marker] # "draft"
    /\ GomeeId(delete[d].marker, delete[d].gomee) = Id(delete[d].marker)

Tidy == ~raised /\ KnownInv /\ ShownInv /\ PostsInv /\ DeletesInv

\* A draft that is saved again before it is answered ends all this.
MarkersInv == ~resaved => Tidy

\* A listing shows each of its gomees by the marker that is known for it, or by
\* a new one, which no request is about.
LEMMA ShowTidy ==
  ASSUME TypeOK, Tidy, NEW found \in SUBSET Gomees, Show(found),
         UNCHANGED <<ownId, post, delete, raised, doubled>>
  PROVE  Tidy'
<1> DEFINE new == {g \in found : markers[g] = None}
<1>1. PICK f \in Injection(new, Free) :
       /\ layer' = layer \cup Range(f)
       /\ markers' = [g \in Gomees |-> IF g \in new THEN f[g] ELSE markers[g]]
       /\ kind' = [m \in Markers |-> IF m \in Range(f) THEN "listed" ELSE kind[m]]
       /\ data' = [m \in Markers |-> IF \E g \in found : markers'[g] = m
                                     THEN CHOOSE g \in found : markers'[g] = m ELSE data[m]]
  BY DEF Show
<1>2. /\ \A g \in new : f[g] \in Free /\ f[g] \in Range(f)
      /\ \A m \in Range(f) : m \in Free /\ \E g \in new : m = f[g]
      /\ \A g, h \in new : f[g] = f[h] => g = h
  BY DEF Injection, Range, IsInjective
<1>3. /\ Free \subseteq Markers /\ Free \cap layer = {}
      /\ \A g \in Gomees : markers[g] \notin Free
      /\ \A p \in Posts : Busy(post[p]) => post[p].marker \notin Free
      /\ \A d \in Deletes : Busy(delete[d]) => delete[d].marker \notin Free
  BY ConsoleAssumption DEF Free, Known, Range, TypeOK
<1> HIDE DEF new
<1>4. new \subseteq Gomees /\ \A g \in found : g \in new <=> markers[g] = None
  BY DEF new
<1>5. \A g, h \in Gomees : markers'[g] # None /\ markers'[g] = markers'[h] => g = h
  BY <1>1, <1>2, <1>3, <1>4 DEF Tidy, KnownInv
<1>6. \A g \in found : markers'[g] \in Markers /\ markers'[g] # None
  BY <1>1, <1>2, <1>3, <1>4, ConsoleAssumption DEF TypeOK
<1>7. \A g \in found : data'[markers'[g]] = g
  BY <1>1, <1>5, <1>6
<1>8. \A m \in Markers : (~\E g \in found : markers'[g] = m) => data'[m] = data[m]
  BY <1>1
<1>9. \A m \in Markers \ Free : kind'[m] = kind[m]
  BY <1>1, <1>2
<1>10. \A m \in Range(f) : kind'[m] = "listed" /\ Id(m)' \in Gomees /\ markers'[Id(m)'] = m
  <2> SUFFICES ASSUME NEW m \in Range(f)
               PROVE  kind'[m] = "listed" /\ Id(m)' \in Gomees /\ markers'[Id(m)'] = m
    OBVIOUS
  <2>1. PICK g \in new : m = f[g]
    BY <1>2
  <2>2. g \in found /\ g \in Gomees /\ markers'[g] = m
    BY <1>1, <1>4, <2>1 DEF new
  <2>3. Id(m)' = g
    BY <1>7, <2>2, ConsoleAssumption DEF Id, GomeeId
  <2> QED
    BY <1>1, <1>2, <1>3, <2>2, <2>3
<1>11. \A g \in Gomees : g \notin new => markers'[g] = markers[g]
  BY <1>1
<1>12. \A m \in Markers \ Free : \A g \in found : markers'[g] = m => markers[g] = m
  BY <1>1, <1>2
<1>13. \A m \in Markers \ Free : Id(m)' = Id(m)
  <2> SUFFICES ASSUME NEW m \in Markers \ Free PROVE Id(m)' = Id(m)
    OBVIOUS
  <2>1. CASE \E g \in found : markers'[g] = m
    <3>1. PICK g \in found : markers'[g] = m
      BY <2>1
    <3>2. markers[g] = m /\ g \in Gomees /\ m # None
      BY <1>12, <3>1, ConsoleAssumption
    <3>3. Id(m) = g /\ data'[m] = g
      BY <1>7, <3>1, <3>2 DEF Tidy, KnownInv
    <3> QED
      BY <3>2, <3>3, ConsoleAssumption DEF Id, GomeeId
  <2>2. CASE ~\E g \in found : markers'[g] = m
    BY <1>8, <2>2 DEF Id, GomeeId
  <2> QED
    BY <2>1, <2>2
<1>14. KnownInv'
  <2>1. ASSUME NEW g \in Gomees, markers'[g] # None
        PROVE  (markers[g] \in layer /\ kind[markers[g]] # "draft" /\ Id(markers[g]) = g)'
    <3>1. CASE g \in new
      <4>1. markers'[g] = f[g] /\ f[g] \in Range(f) /\ g \in found
        BY <1>1, <1>2, <1>4, <3>1 DEF new
      <4>2. Id(f[g])' = g
        BY <1>7, <2>1, <4>1, ConsoleAssumption DEF Id, GomeeId
      <4> QED
        BY <1>1, <1>10, <4>1, <4>2
    <3>2. CASE g \notin new
      <4>1. markers'[g] = markers[g]
        BY <1>11, <3>2
      <4>2. markers[g] \in layer /\ kind[markers[g]] # "draft" /\ Id(markers[g]) = g
        BY <2>1, <4>1 DEF Tidy, KnownInv
      <4>3. markers[g] \in Markers \ Free
        BY <1>3, <4>2 DEF TypeOK
      <4> QED
        BY <1>1, <1>9, <1>13, <4>1, <4>2, <4>3
    <3> QED
      BY <3>1, <3>2
  <2>2. ASSUME NEW m \in Markers, kind'[m] = "draft" PROVE data'[m] = Own
    <3>1. m \notin Range(f) /\ kind[m] = "draft"
      BY <1>1, <2>2
    <3>2. ~\E g \in found : markers'[g] = m
      <4> SUFFICES ASSUME NEW g \in found, markers'[g] = m PROVE FALSE
        OBVIOUS
      <4>1. g \in Gomees /\ g \notin new
        BY <1>1, <1>2, <1>4, <3>1
      <4>2. markers[g] = m /\ m # None
        BY <1>11, <4>1, ConsoleAssumption
      <4> QED
        BY <3>1, <4>1, <4>2 DEF Tidy, KnownInv
    <3> QED
      BY <1>8, <3>1, <3>2 DEF Tidy, KnownInv
  <2> QED
    BY <2>1, <2>2 DEF KnownInv
<1>15. ShownInv'
  <2> SUFFICES ASSUME NEW m \in layer', m \notin Range(f)
               PROVE  (\/ kind[m] = "draft"
                       \/ Id(m) \in Gomees /\ markers[Id(m)] = m
                       \/ Id(m) \in doubled)'
    BY <1>10 DEF ShownInv
  <2>1. m \in layer /\ m \in Markers \ Free
    BY <1>1, <1>3 DEF TypeOK
  <2>2. kind'[m] = kind[m] /\ Id(m)' = Id(m)
    BY <1>9, <1>13, <2>1
  <2>3. Id(m) \in Gomees /\ markers[Id(m)] = m => markers'[Id(m)] = m
    BY <1>4, <1>11, <2>1, ConsoleAssumption DEF new
  <2> QED
    BY <2>1, <2>2, <2>3 DEF Tidy, ShownInv
<1>16. PostsInv'
  <2>1. \A p \in Posts : Busy(post[p]) => post[p].marker \in Markers \ Free
    BY <1>3 DEF TypeOK, PostRequests, Busy
  <2> QED
    BY <1>9, <2>1 DEF Tidy, PostsInv, Busy
<1>17. DeletesInv'
  <2>1. \A d \in Deletes : Busy(delete[d]) => delete[d].marker \in Markers \ Free
    BY <1>3 DEF TypeOK, DeleteRequests, Busy
  <2>2. \A m, g : GomeeId(m, g)' = GomeeId(m, g)
    BY DEF GomeeId
  <2> QED
    BY <1>9, <1>13, <2>1, <2>2 DEF Tidy, DeletesInv, Busy
<1> QED
  BY <1>14, <1>15, <1>16, <1>17 DEF Tidy

LEMMA MarkersInvariant == Spec => []MarkersInv
<1>1. Init => MarkersInv
  BY ConsoleAssumption DEF Init, MarkersInv, Tidy, KnownInv, ShownInv, PostsInv, DeletesInv, Busy
<1>2. TypeOK /\ TypeOK' /\ MarkersInv /\ [Next]_vars => MarkersInv'
  <2> SUFFICES ASSUME TypeOK, TypeOK', Tidy, [Next]_vars, ~resaved, ~resaved'
               PROVE  Tidy'
    <3>1. [Next]_vars /\ resaved => resaved'
      BY DEF Next, vars, history, AddMarker, UpdateMarkers, SignIn, DropDraft, Save, RemoveClick,
             PostHandled, PostFails, SetId, Register, DeleteHandled, DeleteFails, Removed,
             ListHandled, ListFails, Listed
    <3> QED
      BY <3>1 DEF MarkersInv
  <2> USE ConsoleAssumption DEF server, screen, history, Tidy, KnownInv, ShownInv, PostsInv,
        DeletesInv, Draft, Id, GomeeId, Busy
  <2>1. CASE AddMarker
    BY <2>1 DEF AddMarker, TypeOK, Free, Known, Range
  <2>2. CASE UpdateMarkers
    BY <2>2 DEF UpdateMarkers, TypeOK
  <2>3. CASE SignIn
    BY <2>3 DEF SignIn, TypeOK, Known, Range
  <2>4. ASSUME NEW m \in Markers, DropDraft(m) PROVE Tidy'
    BY <2>4 DEF DropDraft, TypeOK
  <2>5. ASSUME NEW m \in Markers, NEW p \in Posts, Save(m, p) PROVE Tidy'
    <3>0. ~\E q \in Posts : Busy(post[q]) /\ post[q].marker = m
      BY <2>5 DEF Save
    <3>1. /\ post'[p].marker = m /\ post'[p].stage = "sent"
          /\ \A q \in Posts \ {p} : post'[q] = post[q]
      BY <2>5 DEF Save, TypeOK
    <3>2. PostsInv'
      <4>1. kind' = kind /\ ownId' = ownId /\ kind[m] = "draft"
        BY <2>5 DEF Save
      <4> QED
        BY <3>0, <3>1, <4>1
    <3> QED
      BY <2>5, <3>2 DEF Save
  <2>6. ASSUME NEW m \in Markers, NEW d \in Deletes, RemoveClick(m, d) PROVE Tidy'
    BY <2>6 DEF RemoveClick, TypeOK
  <2>7. ASSUME NEW p \in Posts, PostHandled(p) PROVE Tidy'
    <3>1. /\ post'[p].marker = post[p].marker /\ post'[p].stage = "stored" /\ post'[p].id \in Gomees
          /\ Busy(post[p])
          /\ \A q \in Posts \ {p} : post'[q] = post[q]
      <4>1. PICK g \in Gomees : post' = [post EXCEPT ![p].stage = "stored", ![p].id = g]
        BY <2>7 DEF PostHandled
      <4>2. post \in [Posts -> PostRequests] /\ Busy(post[p])
        BY <2>7 DEF PostHandled, TypeOK, Idle
      <4>3. post[p] \in [stage : {"sent", "stored", "owner"}, marker : Markers, session : Sessions,
                         id : Gomees \cup {None}]
        BY <4>2 DEF PostRequests
      <4> QED
        BY <4>1, <4>2, <4>3
    <3>2. PostsInv'
      <4>1. kind' = kind /\ ownId' = ownId
        BY <2>7 DEF PostHandled
      <4> QED
        BY <3>1, <4>1
    <3> QED
      BY <2>7, <3>2 DEF PostHandled
  <2>8. ASSUME NEW p \in Posts, PostFails(p) PROVE Tidy'
    BY <2>8 DEF PostFails, TypeOK
  <2>9. ASSUME NEW p \in Posts, SetId(p) PROVE Tidy'
    <3> DEFINE m == post[p].marker
    <3>1. Busy(post[p]) /\ m \in Markers /\ post[p].id \in Gomees /\ kind[m] = "draft"
      BY <2>9 DEF SetId, TypeOK, Idle, PostRequests
    <3>2. /\ ownId' = [ownId EXCEPT ![m] = post[p].id]
          /\ post'[p].marker = m /\ post'[p].stage = "owner" /\ post'[p].id = post[p].id
          /\ \A q \in Posts \ {p} : post'[q] = post[q]
      <4>1. post \in [Posts -> PostRequests]
        BY DEF TypeOK
      <4>2. post[p] \in [stage : {"sent", "stored", "owner"}, marker : Markers, session : Sessions,
                         id : Gomees \cup {None}]
        BY <3>1, <4>1 DEF PostRequests
      <4> QED
        BY <2>9, <4>1, <4>2 DEF SetId
    <3>3. ownId'[m] = post[p].id /\ \A n \in Markers \ {m} : ownId'[n] = ownId[n]
      BY <3>1, <3>2 DEF TypeOK
    <3>4. \A q \in Posts : Busy(post[q]) => post[q].marker \in Markers
      BY DEF TypeOK, PostRequests, Idle
    <3>5. \A d \in Deletes : Busy(delete[d]) => delete[d].marker \in Markers
      BY DEF TypeOK, DeleteRequests, Idle
    <3>6. UNCHANGED <<layer, markers, kind, data, delete, raised, doubled>>
      BY <2>9 DEF SetId
    <3> HIDE DEF m
    <3>7. PostsInv'
      <4>1. \A q \in Posts \ {p} : Busy(post[q]) => post[q].marker \in Markers \ {m}
        BY <3>1, <3>4 DEF m
      <4> QED
        BY <3>1, <3>2, <3>3, <3>6, <4>1
    <3>8. DeletesInv'
      BY <3>1, <3>3, <3>5, <3>6
    <3>9. KnownInv' /\ ShownInv'
      BY <3>1, <3>3, <3>6 DEF TypeOK
    <3> QED
      BY <3>6, <3>7, <3>8, <3>9
  <2>10. ASSUME NEW p \in Posts, Register(p) PROVE Tidy'
    <3> DEFINE m == post[p].marker
               g == ownId[m]
    <3>1. /\ Busy(post[p]) /\ m \in Markers /\ kind[m] = "draft" /\ data[m] = Own
          /\ g \in Gomees
      BY <2>10 DEF Register, TypeOK, Idle, PostRequests
    <3>2. post'[p] = Idle /\ \A q \in Posts \ {p} : post'[q] = post[q]
      BY <2>10 DEF Register, TypeOK
    <3>3. UNCHANGED <<layer, data, ownId, delete, raised>>
      BY <2>10 DEF Register
    <3>4. CASE Draft(m)
      <4>1. /\ kind' = [kind EXCEPT ![m] = "saved"] /\ markers' = [markers EXCEPT ![g] = m]
            /\ doubled' = IF markers[g] = None THEN doubled ELSE doubled \cup {g}
        BY <2>10, <3>4 DEF Register
      <4>2. /\ kind'[m] = "saved" /\ \A n \in Markers \ {m} : kind'[n] = kind[n]
            /\ markers'[g] = m /\ \A h \in Gomees \ {g} : markers'[h] = markers[h]
        BY <3>1, <4>1 DEF TypeOK
      <4>3. m \in layer
        BY <3>4
      <4> HIDE DEF m, g
      <4>4. Id(m) = g
        BY <3>1 DEF g
      <4>5. KnownInv'
        BY <3>1, <3>3, <4>2, <4>3, <4>4 DEF TypeOK
      <4>6. ShownInv'
        <5> SUFFICES ASSUME NEW n \in layer, kind'[n] # "draft", n # m, Id(n) \notin doubled'
                     PROVE  Id(n) \in Gomees /\ markers'[Id(n)] = n
          BY <3>1, <3>3, <4>2, <4>4
        <5>1. n \in Markers /\ kind[n] # "draft" /\ Id(n) \notin doubled
          BY <4>1, <4>2 DEF TypeOK
        <5>2. Id(n) \in Gomees /\ markers[Id(n)] = n
          BY <5>1
        <5>3. Id(n) # g
          BY <4>1, <5>1, <5>2, ConsoleAssumption
        <5> QED
          BY <4>2, <5>2, <5>3
      <4>7. PostsInv'
        <5>1. \A q \in Posts \ {p} : Busy(post[q]) => post[q].marker \in Markers \ {m}
          BY <3>1 DEF m, TypeOK, PostRequests, Idle
        <5> QED
          BY <3>2, <3>3, <4>2, <5>1
      <4>8. DeletesInv'
        <5>1. \A d \in Deletes : Busy(delete[d]) => delete[d].marker \in Markers \ {m}
          BY <3>1 DEF TypeOK, DeleteRequests, Idle
        <5> QED
          BY <3>3, <4>2, <5>1
      <4> QED
        BY <3>3, <4>5, <4>6, <4>7, <4>8
    <3>5. CASE ~Draft(m)
      BY <2>10, <3>2, <3>5 DEF Register
    <3> QED
      BY <3>4, <3>5
  <2>11. ASSUME NEW d \in Deletes, DeleteHandled(d) PROVE Tidy'
    <3>1. /\ delete'[d].marker = delete[d].marker /\ delete'[d].gomee = delete[d].gomee
          /\ Busy(delete[d])
          /\ \A e \in Deletes \ {d} : delete'[e] = delete[e]
      <4>1. delete \in [Deletes -> DeleteRequests] /\ Busy(delete[d])
        BY <2>11 DEF DeleteHandled, TypeOK, Idle
      <4>2. delete[d] \in [stage : {"sent", "handled"}, marker : Markers, session : Sessions,
                           gomee : Gomees \cup {Own}, id : Gomees \cup {None}]
        BY <4>1 DEF DeleteRequests
      <4> QED
        BY <2>11, <4>1, <4>2 DEF DeleteHandled
    <3>2. DeletesInv'
      BY <2>11, <3>1 DEF DeleteHandled
    <3> QED
      BY <2>11, <3>2 DEF DeleteHandled
  <2>12. ASSUME NEW d \in Deletes, DeleteFails(d) PROVE Tidy'
    BY <2>12 DEF DeleteFails, TypeOK
  <2>13. ASSUME NEW d \in Deletes, Removed(d) PROVE Tidy'
    <3> DEFINE m == delete[d].marker
               g == GomeeId(m, delete[d].gomee)
    <3>1. Busy(delete[d]) /\ m \in Markers /\ kind[m] # "draft" /\ g = Id(m)
      BY <2>13 DEF Removed, TypeOK, DeleteRequests, Idle
    <3>2. /\ delete'[d] = Idle /\ \A e \in Deletes \ {d} : delete'[e] = delete[e]
          /\ UNCHANGED <<kind, data, ownId, post, raised, doubled>>
      BY <2>13 DEF Removed, TypeOK
    <3>3. PostsInv' /\ DeletesInv'
      BY <3>2
    <3>4. CASE m \in layer
      <4>1. layer' = layer \ {m} /\ markers' = [markers EXCEPT ![g] = None]
        BY <2>13, <3>4 DEF Removed
      <4>2. \A h \in Gomees : markers'[h] = IF h = g THEN None ELSE markers[h]
        BY <4>1 DEF TypeOK
      <4> HIDE DEF m, g
      <4>3. KnownInv'
        BY <3>1, <3>2, <4>1, <4>2
      <4>4. ShownInv'
        <5> SUFFICES ASSUME NEW n \in layer, n # m, kind[n] # "draft", Id(n) \notin doubled
                     PROVE  Id(n) \in Gomees /\ markers'[Id(n)] = n
          BY <3>2, <4>1
        <5>1. Id(n) \in Gomees /\ markers[Id(n)] = n
          OBVIOUS
        <5>2. Id(n) # g
          <6> SUFFICES ASSUME Id(n) = Id(m) PROVE FALSE
            BY <3>1
          <6>1. markers[Id(m)] = m
            BY <3>1, <3>4
          <6> QED
            BY <5>1, <6>1
        <5> QED
          BY <4>2, <5>1, <5>2
      <4> QED
        BY <3>2, <3>3, <4>3, <4>4
    <3>5. CASE m \notin layer
      BY <2>13, <3>2, <3>3, <3>5 DEF Removed
    <3> QED
      BY <3>4, <3>5
  <2>14. ASSUME NEW s \in Sessions, ListHandled(s) PROVE Tidy'
    BY <2>14 DEF ListHandled, TypeOK
  <2>15. ASSUME NEW s \in Sessions, ListFails(s) PROVE Tidy'
    BY <2>15 DEF ListFails, TypeOK
  <2>16. ASSUME NEW s \in Sessions, Listed(s) PROVE Tidy'
    <3>1. UNCHANGED <<ownId, post, delete, raised, doubled>>
      BY <2>16 DEF Listed
    <3>2. CASE s = session
      BY <2>16, <3>1, <3>2, ShowTidy DEF Listed, TypeOK
    <3>3. CASE s # session
      BY <2>16, <3>1, <3>3 DEF Listed
    <3> QED
      BY <3>2, <3>3
  <2>17. CASE UNCHANGED vars
    BY <2>17 DEF vars
  <2> QED
    BY <2>1, <2>2, <2>3, <2>4, <2>5, <2>6, <2>7, <2>8, <2>9, <2>10, <2>11, <2>12, <2>13, <2>14, <2>15, <2>16, <2>17 DEF Next
<1> QED
  BY <1>1, <1>2, Types, PTL DEF Spec

\* What the controller knows is on the map, known for one gomee each, and
\* clearMarkers never raises, unless a draft was saved again before it was
\* answered (MineGomeeMarkersController.as:129-200, YoMarkersController.as:77-103).
THEOREM KnownMarkersShown == Spec => []KnownIsShown
<1>1. TypeOK /\ MarkersInv => KnownIsShown
  BY DEF MarkersInv, Tidy, KnownInv, KnownIsShown, Known, Range, TypeOK
<1> QED
  BY <1>1, MarkersInvariant, Types, PTL

\* What the map shows can be cleared: it is a draft, known, or of a gomee that
\* was listed before addGomee was answered (YoMarkersController.as:77-103).
THEOREM ShownMarkersKnown == Spec => []ShownIsKnown
<1>1. TypeOK /\ MarkersInv => ShownIsKnown
  BY ConsoleAssumption DEF MarkersInv, Tidy, ShownInv, ShownIsKnown, Known, Range, Id, Draft, TypeOK
<1> QED
  BY <1>1, MarkersInvariant, Types, PTL

=============================================================================
