------------------------- MODULE IndexQuery_proofs -------------------------
(***************************************************************************)
(* Proofs about module IndexQuery, for any queries, writers, identities,   *)
(* values and failures: what where answers while other requests write,     *)
(* which cursors stay open, and that both use the pool by its contract.    *)
(***************************************************************************)
EXTENDS IndexQuery, FiniteSetTheorems, SequenceTheorems, TLAPS

-----------------------------------------------------------------------------
(* The least of a set of numbers.                                          *)

LEMMA LeastExists ==
  ASSUME NEW S \in SUBSET Nat, S # {}
  PROVE  Least(S) \in S /\ \A y \in S : Least(S) <= y
<1>1. PICK m \in Nat : m \in S
  OBVIOUS
<1> DEFINE T == {n \in 1..m : \A i \in 0..(n - 1) : i \notin S}
           k == Cardinality(T)
<1>2. IsFiniteSet(1..m) /\ Cardinality(1..m) = m
  BY FS_Interval
<1>3. IsFiniteSet(T) /\ k \in Nat /\ k <= m
  BY <1>2, FS_Subset, FS_CardinalityType
<1>4. ASSUME NEW n \in T PROVE n <= k
  <2>1. n \in Nat /\ 1..n \subseteq T
    OBVIOUS
  <2>2. Cardinality(1..n) = n
    BY <2>1, FS_Interval
  <2>3. Cardinality(1..n) <= Cardinality(T)
    BY <1>3, <2>1, FS_Subset
  <2> QED
    BY <2>2, <2>3
<1>5. T = 1..k
  <2>1. IsFiniteSet(1..k) /\ Cardinality(1..k) = k
    BY <1>3, FS_Interval
  <2>2. T \subseteq 1..k
    BY <1>3, <1>4
  <2> QED
    BY <2>1, <2>2, FS_Subset
<1>6. \A i \in 0..(k - 1) : i \notin S
  <2>1. CASE k = 0
    BY <2>1
  <2>2. CASE k # 0
    <3>1. k \in T
      BY <1>3, <1>5, <2>2
    <3> HIDE DEF k
    <3> QED
      BY <3>1
  <2> QED
    BY <2>1, <2>2
<1>7. k \in S
  <2> SUFFICES ASSUME k \notin S PROVE FALSE
    OBVIOUS
  <2>1. k < m
    BY <1>1, <1>3
  <2>2. k + 1 \in T
    <3> HIDE DEF k
    <3>1. k + 1 \in 1..m
      BY <1>3, <2>1
    <3>2. \A i \in 0..k : i \notin S
      BY <1>3, <1>6
    <3> QED
      BY <1>3, <3>1, <3>2
  <2>3. k + 1 <= k
    BY <1>4, <2>2
  <2> HIDE DEF k
  <2> QED
    BY <1>3, <2>3
<1>8. \A y \in S : k <= y
  <2> HIDE DEF k
  <2> QED
    BY <1>3, <1>6
<1> HIDE DEF k
<1> QED
  BY <1>7, <1>8 DEF Least

-----------------------------------------------------------------------------
(* The executor: what waits and what is replied, as sets.                  *)

Waits  == Range(waiting)
Under  == {replies[i] : i \in DOMAIN replies}
Callers(R) == {p.call : p \in R}

\* A chain has at most one call in the executor.
OneCallEach ==
  /\ \A i, k \in DOMAIN waiting : waiting[i] = waiting[k] => i = k
  /\ \A i, k \in DOMAIN replies : replies[i].call = replies[k].call => i = k
  /\ Waits \cap Callers(Under) = {}

\* The element at the head of a sequence without repetitions is not in its tail.
LEMMA TailOf ==
  ASSUME NEW S, NEW s \in Seq(S), s # <<>>
  PROVE  /\ Head(s) \in S /\ Tail(s) \in Seq(S)
         /\ Head(s) = s[1] /\ 1 \in DOMAIN s
         /\ DOMAIN Tail(s) = 1..(Len(s) - 1) /\ Len(s) \in Nat \ {0}
         /\ \A i \in DOMAIN Tail(s) : i + 1 \in DOMAIN s /\ Tail(s)[i] = s[i + 1]
         /\ \A i \in DOMAIN s \ {1} : i - 1 \in DOMAIN Tail(s) /\ Tail(s)[i - 1] = s[i]
<1>1. Len(s) \in Nat \ {0} /\ DOMAIN s = 1..Len(s)
  BY EmptySeq, LenProperties
<1>2. Head(s) \in S /\ Tail(s) \in Seq(S) /\ Len(Tail(s)) = Len(s) - 1
      /\ \A i \in 1..Len(Tail(s)) : Tail(s)[i] = s[i + 1]
  BY HeadTailProperties
<1>3. Head(s) = s[1]
  OBVIOUS
<1>4. DOMAIN Tail(s) = 1..(Len(s) - 1)
  BY <1>2, LenProperties
<1>5. \A i \in DOMAIN s \ {1} : i - 1 \in DOMAIN Tail(s) /\ Tail(s)[i - 1] = s[i]
  <2> SUFFICES ASSUME NEW i \in DOMAIN s \ {1}
               PROVE  i - 1 \in DOMAIN Tail(s) /\ Tail(s)[i - 1] = s[i]
    OBVIOUS
  <2>1. i - 1 \in 1..(Len(s) - 1) /\ (i - 1) + 1 = i
    BY <1>1
  <2> QED
    BY <1>2, <1>4, <2>1
<1> QED
  BY <1>1, <1>2, <1>3, <1>4, <1>5

LineTypes == waiting \in Seq(Chains) /\ replies \in Seq([call : Chains, outcome : Outcomes])

LEMMA AcceptLine ==
  ASSUME LineTypes, OneCallEach, NEW c \in Chains, Executor!Accept(c)
  PROVE  /\ LineTypes' /\ OneCallEach'
         /\ Waits' = Waits \cup {c} /\ Under' = Under
<1> USE DEF LineTypes
<1>1. /\ c \notin Range(waiting) /\ c \notin {replies[i].call : i \in DOMAIN replies}
      /\ waiting' = Append(waiting, c) /\ replies' = replies
  BY DEF Executor!Accept, Executor!Outstanding, Executor!Executed, Executor!Range, Range
<1>2. /\ DOMAIN waiting = 1..Len(waiting) /\ Len(waiting) \in Nat
      /\ DOMAIN waiting' = 1..(Len(waiting) + 1) /\ waiting'[Len(waiting) + 1] = c
      /\ \A i \in DOMAIN waiting : waiting'[i] = waiting[i]
  BY <1>1, AppendProperties, LenProperties
<1>3. Waits' = Waits \cup {c} /\ Under' = Under
  BY <1>1, <1>2 DEF Waits, Under, Range
<1>4. \A i \in DOMAIN waiting : waiting[i] # c
  BY <1>1 DEF Range
<1>5. \A i, k \in DOMAIN waiting' : waiting'[i] = waiting'[k] => i = k
  BY <1>2, <1>4 DEF OneCallEach
<1>6. (Waits \cap Callers(Under))' = {}
  BY <1>1, <1>3 DEF OneCallEach, Callers, Under
<1> QED
  BY <1>1, <1>3, <1>5, <1>6 DEF OneCallEach

LEMMA ExecuteLine ==
  ASSUME LineTypes, OneCallEach, NEW o \in Outcomes, Executor!Execute(o)
  PROVE  /\ LineTypes' /\ OneCallEach' /\ Head(waiting) \in Waits \cap Chains
         /\ Waits' = Waits \ {Head(waiting)}
         /\ Under' = Under \cup {[call |-> Head(waiting), outcome |-> o]}
<1> USE DEF LineTypes
<1> DEFINE p == [call |-> Head(waiting), outcome |-> o]
<1>1. waiting # <<>> /\ waiting' = Tail(waiting) /\ replies' = Append(replies, p)
  BY DEF Executor!Execute
<1>2. /\ Head(waiting) \in Chains /\ Tail(waiting) \in Seq(Chains)
      /\ Head(waiting) = waiting[1] /\ 1 \in DOMAIN waiting
      /\ DOMAIN waiting' = 1..(Len(waiting) - 1) /\ Len(waiting) \in Nat \ {0}
      /\ \A i \in DOMAIN waiting' : i + 1 \in DOMAIN waiting /\ waiting'[i] = waiting[i + 1]
      /\ \A i \in DOMAIN waiting \ {1} : i - 1 \in DOMAIN waiting' /\ waiting'[i - 1] = waiting[i]
  BY <1>1, TailOf
<1>3. p \in [call : Chains, outcome : Outcomes] /\ p.call = Head(waiting)
  BY <1>2
<1> HIDE DEF p
<1>4. /\ replies' \in Seq([call : Chains, outcome : Outcomes])
      /\ DOMAIN replies = 1..Len(replies) /\ Len(replies) \in Nat
      /\ DOMAIN replies' = 1..(Len(replies) + 1) /\ replies'[Len(replies) + 1] = p
      /\ \A i \in DOMAIN replies : replies'[i] = replies[i]
  BY <1>1, <1>3, AppendProperties, LenProperties
<1>5. Head(waiting) \in Waits
  BY <1>2 DEF Waits, Range
<1>6. Waits' = Waits \ {Head(waiting)}
  <2>1. Waits' \subseteq Waits
    BY <1>2 DEF Waits, Range
  <2>2. Head(waiting) \notin Waits'
    <3> SUFFICES ASSUME NEW i \in DOMAIN waiting', waiting'[i] = waiting[1] PROVE FALSE
      BY <1>2 DEF Waits, Range
    <3>1. i + 1 \in DOMAIN waiting /\ waiting[i + 1] = waiting[1] /\ i \in Nat /\ i > 0
      BY <1>2
    <3>2. i + 1 = 1
      BY <1>2, <3>1 DEF OneCallEach
    <3> QED
      BY <3>1, <3>2
  <2>3. ASSUME NEW i \in DOMAIN waiting, waiting[i] # Head(waiting) PROVE waiting[i] \in Waits'
    <3>1. i - 1 \in DOMAIN waiting' /\ waiting'[i - 1] = waiting[i]
      BY <1>2, <2>3
    <3> QED
      BY <3>1 DEF Waits, Range
  <2>4. Waits \ {Head(waiting)} \subseteq Waits'
    BY <2>3 DEF Waits, Range
  <2> QED
    BY <2>1, <2>2, <2>4
<1>7. Under' = Under \cup {p}
  <2>1. Under' \subseteq Under \cup {p}
    BY <1>4 DEF Under
  <2>2. \A i \in DOMAIN replies : replies[i] \in Under'
    BY <1>4 DEF Under
  <2>3. p \in Under'
    BY <1>4 DEF Under
  <2> QED
    BY <2>1, <2>2, <2>3 DEF Under
<1>8. \A i, k \in DOMAIN waiting' : waiting'[i] = waiting'[k] => i = k
  <2> SUFFICES ASSUME NEW i \in DOMAIN waiting', NEW k \in DOMAIN waiting', waiting'[i] = waiting'[k]
               PROVE  i = k
    OBVIOUS
  <2>1. i + 1 \in DOMAIN waiting /\ k + 1 \in DOMAIN waiting /\ waiting[i + 1] = waiting[k + 1]
    BY <1>2
  <2>2. i + 1 = k + 1
    BY <2>1 DEF OneCallEach
  <2> QED
    BY <1>2, <2>2
<1>9. \A i \in DOMAIN replies : replies[i].call # Head(waiting)
  BY <1>5 DEF OneCallEach, Callers, Under
<1>10. \A i, k \in DOMAIN replies' : replies'[i].call = replies'[k].call => i = k
  BY <1>3, <1>4, <1>9 DEF OneCallEach
<1>11. (Waits \cap Callers(Under))' = {}
  BY <1>3, <1>6, <1>7 DEF OneCallEach, Callers
<1> QED
  BY <1>1, <1>2, <1>4, <1>5, <1>6, <1>7, <1>8, <1>10, <1>11 DEF OneCallEach, p

LEMMA AnswerLine ==
  ASSUME LineTypes, OneCallEach, NEW c, NEW o, replies # <<>>,
         Head(replies) = [call |-> c, outcome |-> o], replies' = Tail(replies)
  PROVE  /\ replies' \in Seq([call : Chains, outcome : Outcomes])
         /\ c \in Chains \ Waits /\ o \in Outcomes
         /\ [call |-> c, outcome |-> o] \in Under
         /\ Under' = Under \ {[call |-> c, outcome |-> o]}
         /\ \A p \in Under' : p.call # c
         /\ \A i, k \in DOMAIN replies' : replies'[i].call = replies'[k].call => i = k
<1> USE DEF LineTypes
<1> DEFINE q == [call |-> c, outcome |-> o]
<1>1. q.call = c /\ q.outcome = o
  OBVIOUS
<1>2. Head(replies) = q
  OBVIOUS
<1> HIDE DEF q
<1>3. /\ q \in [call : Chains, outcome : Outcomes]
      /\ replies' \in Seq([call : Chains, outcome : Outcomes])
      /\ q = replies[1] /\ 1 \in DOMAIN replies
      /\ DOMAIN replies' = 1..(Len(replies) - 1) /\ Len(replies) \in Nat \ {0}
      /\ \A i \in DOMAIN replies' : i + 1 \in DOMAIN replies /\ replies'[i] = replies[i + 1]
      /\ \A i \in DOMAIN replies \ {1} : i - 1 \in DOMAIN replies' /\ replies'[i - 1] = replies[i]
  BY <1>2, TailOf
<1>4. c \in Chains /\ o \in Outcomes
  BY <1>1, <1>3
<1>5. q \in Under
  BY <1>3 DEF Under
<1>6. c \notin Waits
  BY <1>1, <1>5 DEF OneCallEach, Callers
<1>7. \A p \in Under' : p \in Under /\ p.call # c
  <2> SUFFICES ASSUME NEW i \in DOMAIN replies'
               PROVE  replies'[i] \in Under /\ replies'[i].call # c
    BY DEF Under
  <2>1. i + 1 \in DOMAIN replies /\ replies'[i] = replies[i + 1] /\ i + 1 # 1
    BY <1>3
  <2>2. replies[i + 1].call # replies[1].call
    BY <1>3, <2>1 DEF OneCallEach
  <2> QED
    BY <1>1, <1>3, <2>1, <2>2 DEF Under
<1>8. Under \ {q} \subseteq Under'
  <2> SUFFICES ASSUME NEW i \in DOMAIN replies, replies[i] # q PROVE replies[i] \in Under'
    BY DEF Under
  <2>1. i - 1 \in DOMAIN replies' /\ replies'[i - 1] = replies[i]
    BY <1>3
  <2> QED
    BY <2>1 DEF Under
<1>9. Under' = Under \ {q}
  BY <1>1, <1>7, <1>8
<1>10. \A i, k \in DOMAIN replies' : replies'[i].call = replies'[k].call => i = k
  <2> SUFFICES ASSUME NEW i \in DOMAIN replies', NEW k \in DOMAIN replies',
                      replies'[i].call = replies'[k].call
               PROVE  i = k
    OBVIOUS
  <2>1. /\ i + 1 \in DOMAIN replies /\ k + 1 \in DOMAIN replies
        /\ replies[i + 1].call = replies[k + 1].call
    BY <1>3
  <2>2. i + 1 = k + 1
    BY <2>1 DEF OneCallEach
  <2> QED
    BY <1>3, <2>2
<1> QED
  BY <1>3, <1>4, <1>5, <1>6, <1>7, <1>9, <1>10 DEF q

LEMMA AnswerOnlyLine ==
  ASSUME LineTypes, OneCallEach, NEW c, NEW o, Executor!Answer(c, o)
  PROVE  /\ LineTypes' /\ OneCallEach' /\ c \in Chains \ Waits /\ o \in Outcomes
         /\ Waits' = Waits
         /\ [call |-> c, outcome |-> o] \in Under
         /\ Under' = Under \ {[call |-> c, outcome |-> o]}
         /\ \A p \in Under' : p.call # c
<1>1. /\ replies # <<>> /\ Head(replies) = [call |-> c, outcome |-> o]
      /\ replies' = Tail(replies) /\ waiting' = waiting
  BY DEF Executor!Answer
<1>2. /\ replies' \in Seq([call : Chains, outcome : Outcomes])
      /\ c \in Chains \ Waits /\ o \in Outcomes
      /\ [call |-> c, outcome |-> o] \in Under
      /\ Under' = Under \ {[call |-> c, outcome |-> o]}
      /\ \A p \in Under' : p.call # c
      /\ \A i, k \in DOMAIN replies' : replies'[i].call = replies'[k].call => i = k
  BY <1>1, AnswerLine
<1>3. Waits' = Waits
  BY <1>1 DEF Waits
<1>4. (Waits \cap Callers(Under))' = {}
  BY <1>2, <1>3 DEF OneCallEach, Callers
<1> QED
  BY <1>1, <1>2, <1>3, <1>4 DEF LineTypes, OneCallEach

LEMMA AnswerThenAcceptLine ==
  ASSUME LineTypes, OneCallEach, NEW c, NEW o, Executor!AnswerThenAccept(c, o)
  PROVE  /\ LineTypes' /\ OneCallEach' /\ c \in Chains \ Waits /\ o \in Outcomes
         /\ Waits' = Waits \cup {c}
         /\ [call |-> c, outcome |-> o] \in Under
         /\ Under' = Under \ {[call |-> c, outcome |-> o]}
         /\ \A p \in Under' : p.call # c
<1>1. /\ replies # <<>> /\ Head(replies) = [call |-> c, outcome |-> o]
      /\ replies' = Tail(replies) /\ waiting' = Append(waiting, c)
  BY DEF Executor!AnswerThenAccept
<1>2. /\ replies' \in Seq([call : Chains, outcome : Outcomes])
      /\ c \in Chains \ Waits /\ o \in Outcomes
      /\ [call |-> c, outcome |-> o] \in Under
      /\ Under' = Under \ {[call |-> c, outcome |-> o]}
      /\ \A p \in Under' : p.call # c
      /\ \A i, k \in DOMAIN replies' : replies'[i].call = replies'[k].call => i = k
  BY <1>1, AnswerLine
<1>3. /\ DOMAIN waiting = 1..Len(waiting) /\ Len(waiting) \in Nat
      /\ waiting' \in Seq(Chains)
      /\ DOMAIN waiting' = 1..(Len(waiting) + 1) /\ waiting'[Len(waiting) + 1] = c
      /\ \A i \in DOMAIN waiting : waiting'[i] = waiting[i]
  BY <1>1, <1>2, AppendProperties, LenProperties DEF LineTypes
<1>4. Waits' = Waits \cup {c}
  BY <1>3 DEF Waits, Range
<1>5. \A i \in DOMAIN waiting : waiting[i] # c
  BY <1>2 DEF Waits, Range
<1>6. \A i, k \in DOMAIN waiting' : waiting'[i] = waiting'[k] => i = k
  BY <1>3, <1>5 DEF OneCallEach
<1>7. (Waits \cap Callers(Under))' = {}
  BY <1>2, <1>4 DEF OneCallEach, Callers
<1> QED
  BY <1>1, <1>2, <1>3, <1>4, <1>6, <1>7 DEF LineTypes, OneCallEach

-----------------------------------------------------------------------------
(* The invariant.                                                          *)

Calling == {"get_cursor", "set_key", "fetch_next", "close", "write"}

\* What a query has collected is sorted, and while it walks it has everything
\* up to its cursor that it must answer.
QueryInv(q) ==
  /\ pc[q] \in {"idle", "called", "get_cursor", "opened", "set_key"} => ids[q] = <<>>
  /\ \A i, k \in DOMAIN ids[q] : i < k => ids[q][i] < ids[q][k]
  /\ pc[q] = "fetch_next" => /\ ids[q] # <<>> /\ cursor[q] = ids[q][Len(ids[q])]
                             /\ \A id \in always[q] : id <= cursor[q] => id \in Collected(q)
  /\ pc[q] \in {"close", "answered"} => always[q] \subseteq Collected(q)
  /\ Collected(q) \subseteq ever[q]
  /\ always[q] \subseteq Having(value[q])
  /\ pc[q] \notin {"idle", "answered", "failed"} => Having(value[q]) \subseteq ever[q]
  /\ pc[q] \in {"idle", "called", "answered"} => q \notin open

\* What a reply says was true when it was made, and what it says of the entities
\* that must be answered still is.
FoundKey(q, o) == IF o # None /\ o.key = value[q]
                  THEN o.id \in ever[q] /\ \A id \in always[q] : o.id <= id
                  ELSE always[q] = {}

FoundNext(q, o) == IF o = None THEN \A id \in always[q] : id <= cursor[q]
                   ELSE /\ o.id \in ever[q] /\ o.id > cursor[q]
                        /\ \A id \in always[q] : id <= cursor[q] \/ o.id <= id

ReplyInv(p) ==
  p.call \in Queries /\ p.outcome # Failure =>
    /\ pc[p.call] = "set_key" => FoundKey(p.call, p.outcome)
    /\ pc[p.call] = "fetch_next" => FoundNext(p.call, p.outcome)
    /\ pc[p.call] = "close" => p.call \notin open

\* Those that have failed, or will.
Troubled == {q \in Queries : pc[q] = "failed"}
              \cup {q \in Queries : \E p \in Under : p.call = q /\ p.outcome = Failure}

LineInv == OneCallEach /\ \A c \in Waits \cup Callers(Under) : pc[c] \in Calling

FailureInv == IsFiniteSet(Troubled) /\ Cardinality(Troubled) <= failures

IndexInv == /\ TypeOK /\ LineInv /\ FailureInv
            /\ \A q \in Queries : QueryInv(q)
            /\ \A p \in Under : ReplyInv(p)

LEMMA InitIndexInv == Init => IndexInv
<1> SUFFICES ASSUME Init PROVE IndexInv
  OBVIOUS
<1> USE DEF Init
<1>1. TypeOK
  BY QueryAssumption DEF TypeOK, Chains
<1>2. Waits = {} /\ Under = {} /\ Callers(Under) = {}
  BY DEF Waits, Under, Callers, Range
<1>3. LineInv
  BY <1>2 DEF LineInv, OneCallEach
<1>4. \A q \in Queries : pc[q] = "idle"
  BY DEF Chains
<1>5. FailureInv
  <2>1. Troubled = {}
    BY <1>2, <1>4 DEF Troubled
  <2> QED
    BY <2>1, FS_EmptySet DEF FailureInv
<1>6. \A q \in Queries : QueryInv(q)
  BY <1>4 DEF QueryInv, Collected
<1> QED
  BY <1>1, <1>2, <1>3, <1>5, <1>6 DEF IndexInv

\* A step of one chain of the event loop: what has to be shown of it.
LEMMA OneChainMoves ==
  ASSUME IndexInv, TypeOK', OneCallEach', NEW c \in Chains,
         \A d \in Chains : d # c => pc'[d] = pc[d],
         \A q \in Queries : q # c => /\ ids'[q] = ids[q] /\ cursor'[q] = cursor[q]
                                     /\ always'[q] = always[q] /\ ever'[q] = ever[q],
         UNCHANGED <<stored, value, open, failures>>,
         Waits' \subseteq Waits \cup {c}, Under' \subseteq Under,
         c \in Waits' => pc'[c] \in Calling,
         \A p \in Under' : p.call # c,
         c \in Queries => QueryInv(c)' /\ (c \in Troubled' <=> c \in Troubled),
         \A q \in Queries : q # c => (q \in Troubled' <=> q \in Troubled)
  PROVE  IndexInv'
<1> USE DEF IndexInv
<1>1. \A p \in Under' : p \in Under /\ p.call # c
  OBVIOUS
<1>2. LineInv'
  <2>1. ASSUME NEW d \in (Waits \cup Callers(Under))' PROVE pc'[d] \in Calling
    <3>1. d \in Chains
      <4>1. waiting' \in Seq(Chains) /\ replies' \in Seq([call : Chains, outcome : Outcomes])
        BY DEF TypeOK
      <4>2. \A i \in DOMAIN waiting' : waiting'[i] \in Chains
        BY <4>1, ElementOfSeq, LenProperties
      <4>3. \A i \in DOMAIN replies' : replies'[i] \in Executor!Reply
        BY <4>1, ElementOfSeq, LenProperties DEF Executor!Reply
      <4> QED
        BY <2>1, <4>2, <4>3 DEF Waits, Under, Callers, Range, Executor!Reply
    <3>2. CASE d = c
      BY <2>1, <3>2 DEF Callers
    <3>3. CASE d # c
      BY <2>1, <3>1, <3>3 DEF LineInv, Callers
    <3> QED
      BY <3>2, <3>3
  <2> QED
    BY <2>1 DEF LineInv
<1>3. \A q \in Queries : QueryInv(q)'
  <2> SUFFICES ASSUME NEW q \in Queries, q # c PROVE QueryInv(q)'
    OBVIOUS
  <2>1. pc'[q] = pc[q] /\ Collected(q)' = Collected(q) /\ Having(value[q])' = Having(value[q])
    BY DEF Collected, Having, Chains
  <2> QED
    BY <2>1 DEF QueryInv
<1>4. \A p \in Under' : ReplyInv(p)'
  <2> SUFFICES ASSUME NEW p \in Under', p.call \in Queries PROVE ReplyInv(p)'
    BY DEF ReplyInv
  <2>1. p \in Under /\ p.call # c /\ pc'[p.call] = pc[p.call] /\ ReplyInv(p)
    BY <1>1 DEF Chains
  <2> QED
    BY <2>1 DEF ReplyInv, FoundKey, FoundNext
<1>5. FailureInv'
  <2>1. Troubled' = Troubled
    BY DEF Troubled
  <2> QED
    BY <2>1 DEF FailureInv
<1> QED
  BY <1>2, <1>3, <1>4, <1>5

-----------------------------------------------------------------------------
(* The steps.                                                              *)

\* Another request puts or deletes: its call waits.
LEMMA WriteKeeps ==
  ASSUME IndexInv, NEW w \in Writers, NEW id \in Ids, NEW v \in Vals \cup {None}, Write(w, id, v)
  PROVE  IndexInv'
<1> USE DEF IndexInv
<1>1. /\ pc[w] = "idle" /\ pc' = [pc EXCEPT ![w] = "write"] /\ Executor!Accept(w)
      /\ writes[w] < MaxWrites /\ writes' = [writes EXCEPT ![w] = @ + 1]
      /\ write' = [write EXCEPT ![w] = [id |-> id, val |-> v]]
      /\ UNCHANGED <<stored, value, cursor, open, ids, failures, always, ever>>
  BY DEF Write
<1>2. w \in Chains /\ w \notin Queries
  BY QueryAssumption DEF Chains
<1>3. LineTypes' /\ OneCallEach' /\ Waits' = Waits \cup {w} /\ Under' = Under
  BY <1>1, <1>2, AcceptLine DEF TypeOK, LineTypes, LineInv
<1>4. TypeOK'
  <2>1. writes' \in [Writers -> 0..MaxWrites]
    BY <1>1, QueryAssumption DEF TypeOK
  <2>2. write' \in [Writers -> [id : Ids \cup {None}, val : Vals \cup {None}]]
    BY <1>1 DEF TypeOK
  <2>3. /\ pc' \in [Chains -> {"idle", "called", "get_cursor", "opened", "set_key", "fetch_next",
                               "close", "answered", "failed", "write"}]
        /\ \A q \in Queries : pc'[q] # "write"
        /\ \A x \in Writers : pc'[x] \in {"idle", "write"}
    BY <1>1, <1>2 DEF TypeOK, Chains
  <2> QED
    BY <1>1, <1>3, <2>1, <2>2, <2>3 DEF TypeOK, LineTypes
<1>5. \A p \in Under' : p.call # w
  <2>1. \A p \in Under : p.call \in Callers(Under)
    BY DEF Callers
  <2> QED
    BY <1>1, <1>3, <2>1 DEF LineInv, Calling
<1>6. \A q \in Queries : q \in Troubled' <=> q \in Troubled
  BY <1>1, <1>2, <1>3 DEF Troubled, TypeOK, Chains
<1>7. pc'[w] \in Calling /\ \A d \in Chains : d # w => pc'[d] = pc[d]
  BY <1>1, <1>2 DEF Calling, TypeOK
<1> QED
  BY <1>1, <1>2, <1>3, <1>4, <1>5, <1>6, <1>7, OneChainMoves

\* A step of a query that hands over a call without an answer.
LEMMA AcceptKeeps ==
  ASSUME IndexInv, NEW q \in Queries, NEW next \in {"get_cursor", "set_key"},
         <<pc[q], next>> \in {<<"called", "get_cursor">>, <<"opened", "set_key">>},
         pc' = [pc EXCEPT ![q] = next], Executor!Accept(q),
         UNCHANGED <<stored, value, cursor, open, ids, write, writes, failures, always, ever>>
  PROVE  IndexInv'
<1> USE DEF IndexInv
<1>1. q \in Chains /\ pc[q] \in {"called", "opened"}
  BY DEF Chains
<1>2. LineTypes' /\ OneCallEach' /\ Waits' = Waits \cup {q} /\ Under' = Under
  BY <1>1, AcceptLine DEF TypeOK, LineTypes, LineInv
<1>3. /\ pc' \in [Chains -> {"idle", "called", "get_cursor", "opened", "set_key", "fetch_next",
                             "close", "answered", "failed", "write"}]
      /\ \A d \in Chains : d # q => pc'[d] = pc[d]
      /\ pc'[q] = next /\ \A d \in Queries : pc'[d] # "write"
      /\ \A w \in Writers : pc'[w] \in {"idle", "write"}
  BY <1>1, QueryAssumption DEF TypeOK, Chains
<1>4. TypeOK'
  BY <1>2, <1>3 DEF TypeOK, LineTypes
<1>5. \A p \in Under' : p.call # q
  <2>1. \A p \in Under : p.call \in Callers(Under)
    BY DEF Callers
  <2> QED
    BY <1>1, <1>2, <2>1 DEF LineInv, Calling
<1>6. \A d \in Queries : d \in Troubled' <=> d \in Troubled
  BY <1>1, <1>2, <1>3 DEF Troubled, Chains
<1>7. QueryInv(q)'
  <2>1. Collected(q)' = Collected(q) /\ Having(value[q])' = Having(value[q])
    BY DEF Collected, Having
  <2> QED
    BY <1>1, <1>3, <2>1 DEF QueryInv
<1> QED
  BY <1>1, <1>2, <1>3, <1>4, <1>5, <1>6, <1>7, OneChainMoves DEF Calling

\* where is called: what has the value now is what it must and may answer.
LEMMA WhereKeeps ==
  ASSUME IndexInv, NEW q \in Queries, Where(q)
  PROVE  IndexInv'
<1> USE DEF IndexInv
<1>1. /\ pc[q] = "idle" /\ pc' = [pc EXCEPT ![q] = "called"]
      /\ always' = [always EXCEPT ![q] = Having(value[q])]
      /\ ever' = [ever EXCEPT ![q] = Having(value[q])]
      /\ UNCHANGED <<stored, waiting, replies, value, cursor, open, ids, write, writes, failures>>
  BY DEF Where
<1>2. q \in Chains
  BY DEF Chains
<1>3. /\ pc' \in [Chains -> {"idle", "called", "get_cursor", "opened", "set_key", "fetch_next",
                             "close", "answered", "failed", "write"}]
      /\ \A d \in Chains : d # q => pc'[d] = pc[d]
      /\ pc'[q] = "called" /\ \A d \in Queries : pc'[d] # "write"
      /\ \A w \in Writers : pc'[w] \in {"idle", "write"}
  BY <1>1, <1>2, QueryAssumption DEF TypeOK, Chains
<1>4. always' \in [Queries -> SUBSET Ids] /\ ever' \in [Queries -> SUBSET Ids]
      /\ always'[q] = Having(value[q]) /\ ever'[q] = Having(value[q])
      /\ \A d \in Queries : d # q => always'[d] = always[d] /\ ever'[d] = ever[d]
  BY <1>1 DEF TypeOK, Having
<1>5. TypeOK'
  BY <1>1, <1>3, <1>4 DEF TypeOK
<1>6. Waits' = Waits /\ Under' = Under /\ OneCallEach'
  BY <1>1 DEF Waits, Under, LineInv, OneCallEach, Callers
<1>7. q \notin Waits /\ \A p \in Under' : p.call # q
  <2>1. \A p \in Under : p.call \in Callers(Under)
    BY DEF Callers
  <2> QED
    BY <1>1, <1>6, <2>1 DEF LineInv, Calling
<1>8. \A d \in Queries : d \in Troubled' <=> d \in Troubled
  BY <1>1, <1>3, <1>6 DEF Troubled, Chains
<1>9. QueryInv(q)'
  <2>1. Having(value[q])' = Having(value[q]) /\ ids[q] = <<>> /\ ids'[q] = <<>> /\ q \notin open
    BY <1>1 DEF Having, QueryInv
  <2>2. Collected(q)' = {}
    BY <2>1 DEF Collected
  <2> QED
    BY <1>1, <1>3, <1>4, <2>1, <2>2 DEF QueryInv
<1> QED
  BY <1>1, <1>2, <1>3, <1>4, <1>5, <1>6, <1>7, <1>8, <1>9, OneChainMoves

\* A reply that ends a call of a chain and hands over no other.
LEMMA AnswerKeeps ==
  ASSUME IndexInv, NEW c \in Chains, NEW o, Executor!Answer(c, o),
         NEW next \in {"idle", "opened", "answered", "failed"},
         pc' = [pc EXCEPT ![c] = next],
         UNCHANGED <<stored, value, cursor, open, ids, write, writes, failures, always, ever>>,
         c \in Writers => next = "idle" /\ o # Failure,
         c \in Queries => /\ o = Failure <=> next = "failed"
                          /\ next = "opened" => pc[c] = "get_cursor"
                          /\ next = "answered" => pc[c] = "close"
                          /\ next # "idle"
  PROVE  IndexInv'
<1> USE DEF IndexInv
<1>1. /\ LineTypes' /\ OneCallEach' /\ c \notin Waits /\ Waits' = Waits
      /\ [call |-> c, outcome |-> o] \in Under
      /\ Under' = Under \ {[call |-> c, outcome |-> o]} /\ \A p \in Under' : p.call # c
  BY AnswerOnlyLine DEF TypeOK, LineTypes, LineInv
<1>2. PICK p \in Under : p.call = c /\ p.outcome = o
  BY <1>1
<1>3. pc[c] \in Calling /\ ReplyInv(p)
  BY <1>2 DEF LineInv, Callers
<1>4. /\ pc' \in [Chains -> {"idle", "called", "get_cursor", "opened", "set_key", "fetch_next",
                             "close", "answered", "failed", "write"}]
      /\ \A d \in Chains : d # c => pc'[d] = pc[d]
      /\ pc'[c] = next /\ \A d \in Queries : pc'[d] # "write"
      /\ \A w \in Writers : pc'[w] \in {"idle", "write"}
  BY QueryAssumption DEF TypeOK, Chains
<1>5. TypeOK'
  BY <1>1, <1>4 DEF TypeOK, LineTypes
<1>6. \A d \in Queries : d # c => (d \in Troubled' <=> d \in Troubled)
  <2> SUFFICES ASSUME NEW d \in Queries, d # c PROVE d \in Troubled' <=> d \in Troubled
    OBVIOUS
  <2>1. \A r : r.call = d => (r \in Under' <=> r \in Under)
    BY <1>1
  <2>2. pc'[d] = pc[d]
    BY <1>4 DEF Chains
  <2> QED
    BY <2>1, <2>2 DEF Troubled
<1>7. c \in Queries => (c \in Troubled' <=> c \in Troubled)
  <2> SUFFICES ASSUME c \in Queries PROVE c \in Troubled' <=> c \in Troubled
    OBVIOUS
  <2>1. c \in Troubled' <=> next = "failed"
    BY <1>1, <1>4 DEF Troubled
  <2>2. \A r \in Under : r.call = c => r = [call |-> c, outcome |-> o]
    BY <1>1
  <2>3. c \in Troubled <=> o = Failure
    BY <1>2, <1>3, <2>2 DEF Troubled, Calling
  <2> QED
    BY <2>1, <2>3
<1>8. c \in Queries => QueryInv(c)'
  <2> SUFFICES ASSUME c \in Queries PROVE QueryInv(c)'
    OBVIOUS
  <2>1. Collected(c)' = Collected(c) /\ Having(value[c])' = Having(value[c])
    BY DEF Collected, Having
  <2>2. QueryInv(c)
    OBVIOUS
  <2>3. CASE next = "opened"
    BY <1>4, <2>1, <2>2, <2>3 DEF QueryInv
  <2>4. CASE next = "answered"
    <3>1. c \notin open
      BY <1>2, <1>3, <2>4 DEF ReplyInv
    <3> QED
      BY <1>4, <2>1, <2>2, <2>4, <3>1 DEF QueryInv
  <2>5. CASE next = "failed"
    BY <1>4, <2>1, <2>2, <2>5 DEF QueryInv
  <2> QED
    BY <2>3, <2>4, <2>5
<1> QED
  BY <1>1, <1>4, <1>5, <1>6, <1>7, <1>8, OneChainMoves

\* set_key and fetch_next: an identity is collected, or the walk is over.
LEMMA CollectKeeps ==
  ASSUME IndexInv, NEW q \in Queries, NEW more \in BOOLEAN, Collect(q, more),
         replies # <<>>, Head(replies).call = q, Outcome # Failure,
         \/ pc[q] = "set_key" /\ (more <=> Outcome # None /\ Outcome.key = value[q])
         \/ pc[q] = "fetch_next" /\ (more <=> Outcome # None)
  PROVE  IndexInv'
<1> USE DEF IndexInv
<1>1. /\ pc' = [pc EXCEPT ![q] = IF more THEN "fetch_next" ELSE "close"]
      /\ ids' = IF more THEN [ids EXCEPT ![q] = Append(@, Outcome.id)] ELSE ids
      /\ cursor' = IF more THEN [cursor EXCEPT ![q] = Outcome.id] ELSE cursor
      /\ Executor!AnswerThenAccept(q, Outcome)
      /\ UNCHANGED <<stored, value, open, write, writes, failures, always, ever>>
  BY DEF Collect
<1>2. PICK o \in Outcomes : o = Outcome
  BY <1>1, AnswerThenAcceptLine DEF TypeOK, LineTypes, LineInv
<1>3. /\ LineTypes' /\ OneCallEach' /\ q \notin Waits /\ Waits' = Waits \cup {q}
      /\ [call |-> q, outcome |-> o] \in Under
      /\ Under' = Under \ {[call |-> q, outcome |-> o]} /\ \A p \in Under' : p.call # q
  BY <1>1, <1>2, AnswerThenAcceptLine DEF TypeOK, LineTypes, LineInv
<1>4. PICK p \in Under : p.call = q /\ p.outcome = o
  BY <1>3
<1>5. ReplyInv(p) /\ QueryInv(q) /\ q \in Chains
  BY DEF Chains
<1>6. more => o \in [key : Vals, id : Ids]
  BY <1>2 DEF Outcomes
<1>7. /\ pc' \in [Chains -> {"idle", "called", "get_cursor", "opened", "set_key", "fetch_next",
                             "close", "answered", "failed", "write"}]
      /\ \A d \in Chains : d # q => pc'[d] = pc[d]
      /\ pc'[q] = IF more THEN "fetch_next" ELSE "close"
      /\ \A d \in Queries : pc'[d] # "write"
      /\ \A w \in Writers : pc'[w] \in {"idle", "write"}
  BY <1>1, <1>5, QueryAssumption DEF TypeOK, Chains
<1>8. /\ ids' \in [Queries -> Seq(Ids)] /\ cursor' \in [Queries -> Ids \cup {0}]
      /\ \A d \in Queries : d # q => ids'[d] = ids[d] /\ cursor'[d] = cursor[d]
      /\ more => ids'[q] = Append(ids[q], o.id) /\ cursor'[q] = o.id
      /\ ~more => ids'[q] = ids[q] /\ cursor'[q] = cursor[q]
  <2>1. CASE more
    <3>1. Append(ids[q], o.id) \in Seq(Ids) /\ o.id \in Ids
      BY <1>6, <2>1, AppendProperties DEF TypeOK
    <3> QED
      BY <1>1, <1>2, <2>1, <3>1 DEF TypeOK
  <2>2. CASE ~more
    BY <1>1, <2>2 DEF TypeOK
  <2> QED
    BY <2>1, <2>2
<1>9. TypeOK'
  BY <1>1, <1>3, <1>7, <1>8 DEF TypeOK, LineTypes
<1>10. \A d \in Queries : d # q => (d \in Troubled' <=> d \in Troubled)
  <2> SUFFICES ASSUME NEW d \in Queries, d # q PROVE d \in Troubled' <=> d \in Troubled
    OBVIOUS
  <2>1. \A r : r.call = d => (r \in Under' <=> r \in Under)
    BY <1>3
  <2>2. pc'[d] = pc[d]
    BY <1>7 DEF Chains
  <2> QED
    BY <2>1, <2>2 DEF Troubled
<1>11. q \notin Troubled' /\ q \notin Troubled
  BY <1>2, <1>3, <1>7 DEF Troubled
<1>12. QueryInv(q)'
  <2>1. Having(value[q])' = Having(value[q])
    BY <1>1 DEF Having
  <2>2. always[q] \subseteq Ids /\ ids[q] \in Seq(Ids) /\ Ids \subseteq Nat
        /\ DOMAIN ids[q] = 1..Len(ids[q]) /\ Len(ids[q]) \in Nat
    BY QueryAssumption DEF TypeOK
  <2>3. CASE ~more
    <3>1. Collected(q)' = Collected(q)
      BY <1>8, <2>3 DEF Collected
    <3>2. always[q] \subseteq Collected(q)
      <4>1. CASE pc[q] = "set_key"
        BY <1>2, <1>4, <1>5, <2>3, <4>1 DEF ReplyInv, FoundKey
      <4>2. CASE pc[q] = "fetch_next"
        BY <1>2, <1>4, <1>5, <2>3, <4>2 DEF ReplyInv, FoundNext, QueryInv
      <4> QED
        BY <4>1, <4>2
    <3> QED
      BY <1>1, <1>5, <1>7, <1>8, <2>1, <2>3, <3>1, <3>2 DEF QueryInv
  <2>4. CASE more
    <3> DEFINE n == Len(ids[q])
    <3>1. /\ DOMAIN ids'[q] = 1..(n + 1) /\ ids'[q][n + 1] = o.id /\ Len(ids'[q]) = n + 1
          /\ \A i \in 1..n : ids'[q][i] = ids[q][i]
      BY <1>6, <1>8, <2>2, <2>4, AppendProperties
    <3>2. o.id \in ever[q] /\ o.id \in Ids
      BY <1>2, <1>4, <1>5, <1>6, <2>4 DEF ReplyInv, FoundKey, FoundNext
    <3>3. Collected(q)' = Collected(q) \cup {o.id}
      BY <2>2, <3>1 DEF Collected
    <3>4. \A i \in 1..n : ids[q][i] < o.id
      <4>1. CASE pc[q] = "set_key"
        <5>1. n = 0
          BY <1>5, <4>1 DEF QueryInv
        <5> QED
          BY <5>1
      <4>2. CASE pc[q] = "fetch_next"
        <5>1. o.id > ids[q][n] /\ n # 0
          BY <1>2, <1>4, <1>5, <2>2, <2>4, <4>2 DEF ReplyInv, FoundNext, QueryInv
        <5>2. \A i \in 1..n : i < n => ids[q][i] < ids[q][n]
          BY <1>5, <2>2, <5>1 DEF QueryInv
        <5>3. \A i \in 1..n : ids[q][i] \in Nat
          BY <2>2, ElementOfSeq
        <5>4. n \in 1..n /\ o.id \in Nat
          <6>1. n \in Nat /\ n # 0
            BY <2>2, <5>1
          <6>2. o.id \in Nat
            BY <2>2, <3>2
          <6> HIDE DEF n
          <6> QED
            BY <6>1, <6>2
        <5> SUFFICES ASSUME NEW i \in 1..n PROVE ids[q][i] < o.id
          OBVIOUS
        <5>5. i = n \/ ids[q][i] < ids[q][n]
          BY <2>2, <5>2
        <5> HIDE DEF n
        <5> QED
          BY <5>1, <5>3, <5>4, <5>5
      <4> QED
        BY <4>1, <4>2
    <3>5. \A i, k \in DOMAIN ids'[q] : i < k => ids'[q][i] < ids'[q][k]
      <4> SUFFICES ASSUME NEW i \in 1..(n + 1), NEW k \in 1..(n + 1), i < k
                   PROVE  ids'[q][i] < ids'[q][k]
        BY <3>1
      <4>1. CASE k = n + 1
        BY <2>2, <3>1, <3>4, <4>1
      <4>2. CASE k # n + 1
        <5>1. i \in 1..n /\ k \in 1..n
          BY <2>2, <4>2
        <5>2. ids[q][i] < ids[q][k]
          BY <1>5, <2>2, <5>1 DEF QueryInv
        <5> QED
          BY <3>1, <5>1, <5>2
      <4> QED
        BY <4>1, <4>2
    <3>6. \A id \in always[q] : id <= o.id => id \in Collected(q) \cup {o.id}
      <4> SUFFICES ASSUME NEW id \in always[q], id <= o.id, id # o.id
                   PROVE  id \in Collected(q)
        OBVIOUS
      <4>1. id \in Nat /\ o.id \in Nat
        BY <2>2, <3>2
      <4>2. CASE pc[q] = "set_key"
        <5>1. o.id <= id
          BY <1>2, <1>4, <1>5, <2>4, <4>2 DEF ReplyInv, FoundKey
        <5> QED
          BY <4>1, <5>1
      <4>3. CASE pc[q] = "fetch_next"
        <5>1. id <= cursor[q]
          BY <1>2, <1>4, <1>5, <2>4, <4>1, <4>3 DEF ReplyInv, FoundNext
        <5> QED
          BY <1>5, <4>3, <5>1 DEF QueryInv
      <4> QED
        BY <4>2, <4>3
    <3>7. ids'[q] # <<>> /\ cursor'[q] = ids'[q][Len(ids'[q])]
      BY <1>8, <2>2, <2>4, <3>1
    <3> QED
      BY <1>1, <1>5, <1>7, <1>8, <2>1, <2>4, <3>2, <3>3, <3>5, <3>6, <3>7 DEF QueryInv
  <2> QED
    BY <2>3, <2>4
<1> QED
  BY <1>1, <1>3, <1>5, <1>7, <1>8, <1>9, <1>10, <1>11, <1>12, OneChainMoves DEF Calling

-----------------------------------------------------------------------------
(* The pool's thread.                                                      *)

\* DB_SET_RANGE finds the least identity of the value, if there is one.
LEMMA SetRangeFinds ==
  ASSUME TypeOK, NEW v \in Vals, NEW o, o = SetRange(v)
  PROVE  /\ o \in Outcomes \ {Failure}
         /\ IF o # None /\ o.key = v
            THEN o.id \in Having(v) /\ \A id \in Having(v) : o.id <= id
            ELSE Having(v) = {}
<1> DEFINE keys == {stored[id] : id \in {i \in Ids : stored[i] # None /\ stored[i] >= v}}
<1>1. keys \subseteq Vals /\ Vals \subseteq Nat /\ Ids \subseteq Nat /\ None \notin Vals
      /\ \A k \in keys : k >= v
  BY QueryAssumption DEF TypeOK
<1>2. Having(v) # {} => v \in keys
  <2> SUFFICES ASSUME NEW id \in Ids, stored[id] = v PROVE v \in keys
    BY DEF Having
  <2>1. stored[id] # None /\ stored[id] >= v
    BY <1>1
  <2> QED
    BY <2>1
<1>3. \A k \in keys : Having(k) # {} /\ Having(k) \in SUBSET Nat
  BY <1>1 DEF Having
<1>4. o = IF keys = {} THEN None ELSE [key |-> Least(keys), id |-> Least(Having(Least(keys)))]
  BY DEF SetRange
<1> HIDE DEF keys
<1>5. CASE keys = {}
  BY <1>2, <1>4, <1>5, QueryAssumption DEF Outcomes
<1>6. CASE keys # {}
  <2>1. Least(keys) \in keys /\ \A k \in keys : Least(keys) <= k
    BY <1>1, <1>6, LeastExists
  <2>2. PICK k \in keys : k = Least(keys)
    BY <2>1
  <2>3. Least(Having(k)) \in Having(k) /\ \A id \in Having(k) : Least(Having(k)) <= id
    BY <1>3, LeastExists
  <2>4. o = [key |-> k, id |-> Least(Having(k))]
    BY <1>4, <1>6, <2>2
  <2>5. o \in [key : Vals, id : Ids] /\ o.key = k /\ o.id = Least(Having(k))
    BY <1>1, <2>3, <2>4 DEF Having
  <2>6. o \in Outcomes \ {Failure} /\ o # None
    BY <2>5, QueryAssumption DEF Outcomes
  <2>7. k # v => v \notin keys
    BY <1>1, <2>1, <2>2
  <2> QED
    BY <1>2, <2>3, <2>5, <2>6, <2>7
<1> QED
  BY <1>5, <1>6

\* DB_NEXT_DUP finds the least identity of the value after the cursor.
LEMMA NextDupFinds ==
  ASSUME TypeOK, NEW v \in Vals, NEW at \in Ids \cup {0}, NEW o, o = NextDup(v, at)
  PROVE  /\ o \in Outcomes \ {Failure}
         /\ IF o = None THEN \A id \in Having(v) : id <= at
            ELSE /\ o.id \in Having(v) /\ o.id > at
                 /\ \A id \in Having(v) : id <= at \/ o.id <= id
<1> DEFINE after == {id \in Having(v) : id > at}
<1>1. Ids \subseteq Nat /\ at \in Nat /\ Having(v) \subseteq Ids
  BY QueryAssumption DEF Having
<1>2. after \in SUBSET Nat /\ \A id \in Having(v) : id <= at \/ id \in after
  <2>1. \A id \in Having(v) : id \in Nat
    BY <1>1
  <2>2. \A id \in Having(v) : id <= at \/ id > at
    BY <1>1, <2>1
  <2> QED
    BY <2>1, <2>2
<1>3. o = IF after = {} THEN None ELSE [key |-> v, id |-> Least(after)]
  BY DEF NextDup
<1>4. \A id \in after : id \in Having(v) /\ id > at
  OBVIOUS
<1> HIDE DEF after
<1>5. CASE after = {}
  BY <1>2, <1>3, <1>5, QueryAssumption DEF Outcomes
<1>6. CASE after # {}
  <2>1. Least(after) \in after /\ \A id \in after : Least(after) <= id
    BY <1>2, <1>6, LeastExists
  <2>2. o = [key |-> v, id |-> Least(after)]
    BY <1>3, <1>6
  <2>3. o \in [key : Vals, id : Ids] /\ o.id = Least(after)
    BY <1>1, <1>4, <2>1, <2>2
  <2>4. o \in Outcomes \ {Failure} /\ o # None
    BY <2>3, QueryAssumption DEF Outcomes
  <2> QED
    BY <1>2, <1>4, <2>1, <2>3, <2>4
<1> QED
  BY <1>5, <1>6

\* A call takes effect: what has to be shown of it.
LEMMA OneCallExecutes ==
  ASSUME IndexInv, TypeOK', FailureInv', NEW o \in Outcomes, Executor!Execute(o),
         NEW ch, ch = Head(waiting), UNCHANGED <<pc, value, ids>>,
         \A q \in Queries : /\ always'[q] \subseteq always[q] /\ ever[q] \subseteq ever'[q]
                            /\ always'[q] \subseteq Having(value[q])'
                            /\ pc[q] \notin {"idle", "answered", "failed"}
                                 => Having(value[q])' \subseteq ever'[q]
                            /\ q # ch => cursor'[q] = cursor[q] /\ (q \in open' <=> q \in open),
         pc[ch] # "close" => cursor' = cursor,
         ReplyInv([call |-> ch, outcome |-> o])'
  PROVE  IndexInv'
<1> USE DEF IndexInv
<1>1. /\ OneCallEach' /\ ch \in Waits \cap Chains /\ Waits' = Waits \ {ch}
      /\ Under' = Under \cup {[call |-> ch, outcome |-> o]}
  BY ExecuteLine DEF TypeOK, LineTypes, LineInv
<1>2. pc[ch] \in Calling /\ ch \notin Callers(Under)
  BY <1>1 DEF LineInv, OneCallEach
<1>3. LineInv'
  <2>1. \A d \in (Waits \cup Callers(Under))' : d \in Waits \cup Callers(Under)
    BY <1>1 DEF Callers
  <2> QED
    BY <1>1, <2>1 DEF LineInv
<1>4. ASSUME NEW q \in Queries PROVE QueryInv(q)'
  <2>1. Collected(q)' = Collected(q) /\ pc'[q] = pc[q] /\ ids'[q] = ids[q] /\ value'[q] = value[q]
    BY DEF Collected
  <2>2. QueryInv(q) /\ always'[q] \subseteq always[q] /\ ever[q] \subseteq ever'[q]
    OBVIOUS
  <2>3. pc[q] = "fetch_next" => cursor'[q] = cursor[q]
    OBVIOUS
  <2>4. pc[q] \in {"idle", "called", "answered"} => q \notin open'
    BY <1>2, <2>2 DEF QueryInv, Calling
  <2> QED
    BY <2>1, <2>2, <2>3, <2>4 DEF QueryInv
<1>5. ASSUME NEW p \in Under' PROVE ReplyInv(p)'
  <2>1. CASE p = [call |-> ch, outcome |-> o]
    BY <2>1
  <2>2. CASE p \in Under
    <3> SUFFICES ASSUME p.call \in Queries, p.outcome # Failure PROVE ReplyInv(p)'
      BY DEF ReplyInv
    <3>1. p.call # ch /\ ReplyInv(p)
      BY <1>2, <2>2 DEF Callers
    <3>2. PICK d \in Queries : d = p.call
      OBVIOUS
    <3>3. /\ cursor'[d] = cursor[d] /\ (d \in open' <=> d \in open)
          /\ always'[d] \subseteq always[d] /\ ever[d] \subseteq ever'[d]
          /\ pc'[d] = pc[d] /\ value'[d] = value[d]
      BY <3>1, <3>2
    <3>4. pc[d] = "set_key" => FoundKey(d, p.outcome)'
      BY <3>1, <3>2, <3>3 DEF ReplyInv, FoundKey
    <3>5. pc[d] = "fetch_next" => FoundNext(d, p.outcome)'
      BY <3>1, <3>2, <3>3 DEF ReplyInv, FoundNext
    <3> QED
      BY <3>1, <3>2, <3>3, <3>4, <3>5 DEF ReplyInv
  <2> QED
    BY <1>1, <2>1, <2>2
<1> QED
  BY <1>3, <1>4, <1>5

LEMMA ExecuteKeeps ==
  ASSUME IndexInv, Execute
  PROVE  IndexInv'
<1> USE DEF IndexInv
<1>1. waiting # <<>> /\ Head(waiting) \in Chains
  BY TailOf DEF Execute, TypeOK
<1>2. PICK ch \in Chains : ch = Head(waiting)
  BY <1>1
<1>3. PICK o : o = CASE pc[ch] = "set_key"    -> SetRange(value[ch])
                     [] pc[ch] = "fetch_next" -> NextDup(value[ch], cursor[ch])
                     [] OTHER                 -> None
  OBVIOUS
<1>4. /\ Executor!Execute(o)
      /\ stored' = IF pc[ch] = "write" THEN [stored EXCEPT ![write[ch].id] = write[ch].val]
                   ELSE stored
      /\ open' = CASE pc[ch] = "get_cursor" -> open \cup {ch}
                   [] pc[ch] = "close"      -> open \ {ch}
                   [] OTHER                 -> open
      /\ cursor' = IF pc[ch] = "close" THEN [cursor EXCEPT ![ch] = 0] ELSE cursor
      /\ always' = [q \in Queries |-> always[q] \cap {id \in Ids : stored'[id] = value[q]}]
      /\ ever' = [q \in Queries |-> IF pc[q] \in {"idle", "answered", "failed"} THEN ever[q]
                                    ELSE ever[q] \cup {id \in Ids : stored'[id] = value[q]}]
      /\ UNCHANGED <<pc, value, ids, write, writes, failures>>
  BY <1>2, <1>3 DEF Execute
<1>5. /\ pc[ch] \in {"set_key", "fetch_next", "get_cursor", "close"} => ch \in Queries
      /\ pc[ch] = "write" => ch \in Writers
  BY DEF TypeOK, Chains
<1>6. pc[ch] = "set_key" =>
        /\ o \in Outcomes \ {Failure}
        /\ IF o # None /\ o.key = value[ch]
           THEN o.id \in Having(value[ch]) /\ \A id \in Having(value[ch]) : o.id <= id
           ELSE Having(value[ch]) = {}
  <2> SUFFICES ASSUME pc[ch] = "set_key"
               PROVE  /\ o \in Outcomes \ {Failure}
                      /\ IF o # None /\ o.key = value[ch]
                         THEN /\ o.id \in Having(value[ch])
                              /\ \A id \in Having(value[ch]) : o.id <= id
                         ELSE Having(value[ch]) = {}
    OBVIOUS
  <2>1. value[ch] \in Vals /\ o = SetRange(value[ch])
    BY <1>3, <1>5 DEF TypeOK
  <2> QED
    BY <2>1, SetRangeFinds
<1>7. pc[ch] = "fetch_next" =>
        /\ o \in Outcomes \ {Failure}
        /\ IF o = None THEN \A id \in Having(value[ch]) : id <= cursor[ch]
           ELSE /\ o.id \in Having(value[ch]) /\ o.id > cursor[ch]
                /\ \A id \in Having(value[ch]) : id <= cursor[ch] \/ o.id <= id
  <2> SUFFICES ASSUME pc[ch] = "fetch_next"
               PROVE  /\ o \in Outcomes \ {Failure}
                      /\ IF o = None THEN \A id \in Having(value[ch]) : id <= cursor[ch]
                         ELSE /\ o.id \in Having(value[ch]) /\ o.id > cursor[ch]
                              /\ \A id \in Having(value[ch]) : id <= cursor[ch] \/ o.id <= id
    OBVIOUS
  <2>1. value[ch] \in Vals /\ cursor[ch] \in Ids \cup {0} /\ o = NextDup(value[ch], cursor[ch])
    BY <1>3, <1>5 DEF TypeOK
  <2> QED
    BY <2>1, NextDupFinds
<1>8. o \in Outcomes /\ o # Failure
  <2>1. pc[ch] \notin {"set_key", "fetch_next"} => o = None
    BY <1>3
  <2> QED
    BY <1>6, <1>7, <2>1, QueryAssumption DEF Outcomes
<1>9. LineTypes' /\ Under' = Under \cup {[call |-> ch, outcome |-> o]}
  BY <1>2, <1>4, <1>8, ExecuteLine DEF TypeOK, LineTypes, LineInv
<1>10. stored' \in [Ids -> Vals \cup {None}]
  BY <1>4, <1>5 DEF TypeOK
<1>11. TypeOK'
  <2>1. open' \subseteq Queries
    BY <1>4, <1>5 DEF TypeOK
  <2>2. cursor' \in [Queries -> Ids \cup {0}]
    BY <1>4, <1>5 DEF TypeOK
  <2>3. always' \in [Queries -> SUBSET Ids] /\ ever' \in [Queries -> SUBSET Ids]
    BY <1>4 DEF TypeOK
  <2> QED
    BY <1>4, <1>9, <1>10, <2>1, <2>2, <2>3 DEF TypeOK, LineTypes
<1>12. FailureInv'
  <2>1. Troubled' = Troubled
    BY <1>4, <1>8, <1>9 DEF Troubled
  <2> QED
    BY <1>4, <2>1 DEF FailureInv
<1>13. ASSUME NEW q \in Queries
       PROVE  /\ always'[q] \subseteq always[q] /\ ever[q] \subseteq ever'[q]
              /\ always'[q] \subseteq Having(value[q])'
              /\ pc[q] \notin {"idle", "answered", "failed"}
                   => Having(value[q])' \subseteq ever'[q]
              /\ q # ch => cursor'[q] = cursor[q] /\ (q \in open' <=> q \in open)
  <2>1. Having(value[q])' = {id \in Ids : stored'[id] = value[q]}
    BY <1>4 DEF Having
  <2>2. /\ always'[q] = always[q] \cap Having(value[q])'
        /\ ever'[q] = IF pc[q] \in {"idle", "answered", "failed"} THEN ever[q]
                      ELSE ever[q] \cup Having(value[q])'
    BY <1>4, <2>1
  <2>3. q # ch => cursor'[q] = cursor[q] /\ (q \in open' <=> q \in open)
    BY <1>4 DEF TypeOK
  <2> QED
    BY <2>2, <2>3
<1>14. ReplyInv([call |-> ch, outcome |-> o])'
  <2> SUFFICES ASSUME ch \in Queries
               PROVE  /\ pc'[ch] = "set_key" => FoundKey(ch, o)'
                      /\ pc'[ch] = "fetch_next" => FoundNext(ch, o)'
                      /\ pc'[ch] = "close" => ch \notin open'
    BY DEF ReplyInv
  <2>1. pc' = pc /\ value' = value /\ (pc[ch] # "write" => stored' = stored)
    BY <1>4
  <2>2. /\ pc[ch] \in {"set_key", "fetch_next"} => Having(value[ch])' = Having(value[ch])
        /\ always'[ch] \subseteq Having(value[ch])'
        /\ pc[ch] \in {"set_key", "fetch_next"} => Having(value[ch])' \subseteq ever'[ch]
    BY <1>13, <2>1 DEF Having
  <2>3. pc[ch] = "set_key" => FoundKey(ch, o)'
    BY <1>6, <2>1, <2>2 DEF FoundKey
  <2>4. pc[ch] = "fetch_next" => FoundNext(ch, o)'
    <3>1. pc[ch] = "fetch_next" => cursor' = cursor
      BY <1>4
    <3> QED
      BY <1>7, <2>1, <2>2, <3>1 DEF FoundNext
  <2>5. pc[ch] = "close" => ch \notin open'
    BY <1>4
  <2> QED
    BY <2>1, <2>3, <2>4, <2>5
<1> QED
  BY <1>2, <1>4, <1>8, <1>11, <1>12, <1>13, <1>14, OneCallExecutes

\* A cursor call raises: one more where fails, and one more call has.
LEMMA RaiseKeeps ==
  ASSUME IndexInv, Raise
  PROVE  IndexInv'
<1> USE DEF IndexInv
<1>1. PICK q \in Queries : q = Head(waiting)
  BY DEF Raise
<1>2. /\ Executor!Execute(Failure) /\ failures < MaxFailures /\ failures' = failures + 1
      /\ UNCHANGED <<stored, pc, value, cursor, open, ids, write, writes, always, ever>>
  BY DEF Raise
<1>3. Failure \in Outcomes
  BY DEF Outcomes
<1>4. /\ LineTypes' /\ q \in Waits
      /\ Under' = Under \cup {[call |-> q, outcome |-> Failure]}
  BY <1>1, <1>2, <1>3, ExecuteLine DEF TypeOK, LineTypes, LineInv
<1>5. failures \in Nat /\ failures' \in 0..MaxFailures
  BY <1>2, QueryAssumption DEF TypeOK
<1>6. TypeOK'
  BY <1>2, <1>4, <1>5 DEF TypeOK, LineTypes
<1>7. FailureInv'
  <2>1. Troubled' = Troubled \cup {q}
    <3>1. \A d \in Queries : d \in Troubled' <=> d \in Troubled \/ d = q
      <4>1. [call |-> q, outcome |-> Failure] \in Under'
        BY <1>4
      <4>2. q \in Troubled'
        BY <4>1 DEF Troubled
      <4>3. ASSUME NEW d \in Queries, d # q PROVE d \in Troubled' <=> d \in Troubled
        <5>1. \A r : r.call = d => (r \in Under' <=> r \in Under)
          BY <1>4, <4>3
        <5> QED
          BY <1>2, <5>1 DEF Troubled
      <4> QED
        BY <4>2, <4>3
    <3>2. Troubled \subseteq Queries /\ Troubled' \subseteq Queries
      BY DEF Troubled
    <3> QED
      BY <3>1, <3>2
  <2>2. IsFiniteSet(Troubled') /\ Cardinality(Troubled') <= Cardinality(Troubled) + 1
    <3> DEFINE T == Troubled
    <3>1. IsFiniteSet(T) /\ Troubled' = T \cup {q}
      BY <2>1 DEF FailureInv
    <3> HIDE DEF T
    <3>2. /\ IsFiniteSet(T \cup {q}) /\ Cardinality(T) \in Nat
          /\ Cardinality(T \cup {q}) = Cardinality(T)
             \/ Cardinality(T \cup {q}) = Cardinality(T) + 1
      BY <3>1, FS_AddElement, FS_CardinalityType
    <3>3. Cardinality(T \cup {q}) <= Cardinality(T) + 1
      BY <3>2
    <3> QED
      BY <3>1, <3>2, <3>3 DEF T
  <2>3. Cardinality(Troubled) \in Nat /\ Cardinality(Troubled') \in Nat
    BY <2>2, FS_CardinalityType DEF FailureInv
  <2> QED
    BY <1>2, <1>5, <2>2, <2>3 DEF FailureInv
<1>8. \A d \in Queries : /\ always'[d] \subseteq Having(value[d])'
                         /\ pc[d] \notin {"idle", "answered", "failed"}
                              => Having(value[d])' \subseteq ever'[d]
  BY <1>2 DEF Having, QueryInv
<1>9. ReplyInv([call |-> q, outcome |-> Failure])'
  BY DEF ReplyInv
<1> QED
  BY <1>1, <1>2, <1>3, <1>6, <1>7, <1>8, <1>9, OneCallExecutes

-----------------------------------------------------------------------------
LEMMA NextKeepsIndexInv == IndexInv /\ [Next]_vars => IndexInv'
<1> SUFFICES ASSUME IndexInv, [Next]_vars PROVE IndexInv'
  OBVIOUS
<1>1. ASSUME NEW q \in Queries, Where(q) PROVE IndexInv'
  BY <1>1, WhereKeeps
<1>2. ASSUME NEW w \in Writers, NEW id \in Ids, NEW v \in Vals \cup {None}, Write(w, id, v)
      PROVE  IndexInv'
  BY <1>2, WriteKeeps
<1>3. CASE Execute
  BY <1>3, ExecuteKeeps
<1>4. CASE Raise
  BY <1>4, RaiseKeeps
<1>5. ASSUME NEW q \in Queries, GetCursor(q) PROVE IndexInv'
  BY <1>5, AcceptKeeps DEF GetCursor
<1>6. ASSUME NEW q \in Queries, SetKey(q) PROVE IndexInv'
  BY <1>6, AcceptKeeps DEF SetKey
<1>7. ASSUME NEW q \in Queries, CursorOpened(q) PROVE IndexInv'
  <2>1. q \in Chains /\ q \notin Writers /\ Outcome # Failure /\ pc[q] = "get_cursor"
    BY <1>7, QueryAssumption DEF Chains, CursorOpened, Answered, Outcome
  <2>2. PICK o : o = Outcome
    OBVIOUS
  <2>3. /\ Executor!Answer(q, o) /\ o # Failure /\ pc' = [pc EXCEPT ![q] = "opened"]
        /\ UNCHANGED <<stored, value, cursor, open, ids, write, writes, failures, always, ever>>
    BY <1>7, <2>1, <2>2 DEF CursorOpened
  <2> QED
    BY <2>1, <2>3, AnswerKeeps
<1>8. ASSUME NEW q \in Queries, CursorClosed(q) PROVE IndexInv'
  <2>1. q \in Chains /\ q \notin Writers /\ Outcome # Failure /\ pc[q] = "close"
    BY <1>8, QueryAssumption DEF Chains, CursorClosed, Answered, Outcome
  <2>2. PICK o : o = Outcome
    OBVIOUS
  <2>3. /\ Executor!Answer(q, o) /\ o # Failure /\ pc' = [pc EXCEPT ![q] = "answered"]
        /\ UNCHANGED <<stored, value, cursor, open, ids, write, writes, failures, always, ever>>
    BY <1>8, <2>1, <2>2 DEF CursorClosed
  <2> QED
    BY <2>1, <2>3, AnswerKeeps
<1>9. ASSUME NEW q \in Queries, Failed(q) PROVE IndexInv'
  <2>1. q \in Chains /\ q \notin Writers
    BY QueryAssumption DEF Chains
  <2> QED
    BY <1>9, <2>1, AnswerKeeps DEF Failed
<1>10. ASSUME NEW q \in Queries, KeySet(q) \/ Fetched(q) PROVE IndexInv'
  <2>1. replies # <<>> /\ Head(replies).call = q /\ Outcome # Failure
    BY <1>10 DEF KeySet, Fetched, Answered, Outcome
  <2>2. CASE KeySet(q)
    <3>1. PICK more \in BOOLEAN : more <=> Outcome # None /\ Outcome.key = value[q]
      OBVIOUS
    <3>2. pc[q] = "set_key" /\ Collect(q, more)
      BY <2>2, <3>1 DEF KeySet, Answered, Collect
    <3> QED
      BY <2>1, <3>1, <3>2, CollectKeeps
  <2>3. CASE Fetched(q)
    <3>1. PICK more \in BOOLEAN : more <=> Outcome # None
      OBVIOUS
    <3>2. pc[q] = "fetch_next" /\ Collect(q, more)
      BY <2>3, <3>1 DEF Fetched, Answered, Collect
    <3> QED
      BY <2>1, <3>1, <3>2, CollectKeeps
  <2> QED
    BY <1>10, <2>2, <2>3
<1>11. ASSUME NEW w \in Writers, Written(w) PROVE IndexInv'
  <2>1. w \in Chains /\ w \notin Queries /\ Outcome # Failure
    BY <1>11, QueryAssumption DEF Chains, Written, Answered, Outcome
  <2> QED
    BY <1>11, <2>1, AnswerKeeps DEF Written
<1>12. CASE UNCHANGED vars
  <2>1. TypeOK'
    BY <1>12 DEF vars, IndexInv, TypeOK
  <2>2. Waits' = Waits /\ Under' = Under /\ Callers(Under)' = Callers(Under)
    BY <1>12 DEF vars, Waits, Under, Callers
  <2>3. LineInv'
    BY <1>12, <2>2 DEF vars, IndexInv, LineInv, OneCallEach
  <2>4. FailureInv'
    BY <1>12, <2>2 DEF vars, IndexInv, FailureInv, Troubled
  <2>5. \A q \in Queries : QueryInv(q)'
    BY <1>12 DEF vars, IndexInv, QueryInv, Collected, Having
  <2>6. \A p \in Under' : ReplyInv(p)'
    BY <1>12, <2>2 DEF vars, IndexInv, ReplyInv, FoundKey, FoundNext
  <2> QED
    BY <2>1, <2>3, <2>4, <2>5, <2>6 DEF IndexInv
<1> QED
  BY <1>1, <1>2, <1>3, <1>4, <1>5, <1>6, <1>7, <1>8, <1>9, <1>10, <1>11, <1>12
     DEF Next, EventLoop

LEMMA IndexInvHolds == Spec => []IndexInv
<1> QED
  BY InitIndexInv, NextKeepsIndexInv, PTL DEF Spec

\* where, its cursors and the executor's queues have the types of the code.
THEOREM Types == Spec => []TypeOK
<1>1. IndexInv => TypeOK
  BY DEF IndexInv
<1> QED
  BY <1>1, IndexInvHolds, PTL

\* Whatever any number of requests put and delete meanwhile, a where that
\* answers has every entity that had the value all along, nothing that never
\* had it, and nothing twice.
THEOREM WhereAnswersRight == Spec => []WhereAnswer
<1>1. IndexInv => WhereAnswer
  <2> SUFFICES ASSUME IndexInv, NEW q \in Queries, pc[q] = "answered"
               PROVE  /\ Collected(q) \subseteq ever[q]
                      /\ always[q] \subseteq Collected(q)
                      /\ \A i, k \in DOMAIN ids[q] : i < k => ids[q][i] < ids[q][k]
    BY DEF WhereAnswer
  <2>1. QueryInv(q)
    BY DEF IndexInv
  <2> QED
    BY <2>1 DEF QueryInv
<1> QED
  BY <1>1, IndexInvHolds, PTL

\* A cursor stays open only after a failed call of its where, and so there are
\* never more of them than calls that failed.
THEOREM OpenCursorsBounded == Spec => []CursorsClosed
<1>1. IndexInv => CursorsClosed
  <2> SUFFICES ASSUME IndexInv PROVE CursorsClosed
    OBVIOUS
  <2>1. \A q \in open : pc[q] \notin {"idle", "called", "answered"}
    BY DEF IndexInv, TypeOK, QueryInv
  <2>2. {q \in open : pc[q] = "failed"} \subseteq Troubled
    BY DEF IndexInv, TypeOK, Troubled
  <2> DEFINE S == {q \in open : pc[q] = "failed"}
  <2>3. IsFiniteSet(Troubled) /\ Cardinality(Troubled) <= failures /\ failures \in Nat
    BY QueryAssumption DEF IndexInv, FailureInv, TypeOK
  <2>4. /\ Cardinality(S) <= Cardinality(Troubled)
        /\ Cardinality(S) \in Nat /\ Cardinality(Troubled) \in Nat
    BY <2>2, <2>3, FS_Subset, FS_CardinalityType
  <2>5. Cardinality(S) <= failures
    BY <2>3, <2>4
  <2> QED
    BY <2>1, <2>5 DEF CursorsClosed
<1> QED
  BY <1>1, IndexInvHolds, PTL

-----------------------------------------------------------------------------
(* The queries and writers use the executor as it is meant to be used.     *)

LEMMA OutstandingIs == Executor!Outstanding = Waits \cup Callers(Under)
<1>1. Executor!Range(waiting) = Waits
  BY DEF Executor!Range, Range, Waits
<1>2. Executor!Executed = Callers(Under)
  BY DEF Executor!Executed, Callers, Under
<1> QED
  BY <1>1, <1>2 DEF Executor!Outstanding

\* Nobody has a call under way while it is about to make one: so a query whose
\* next call is due, or a writer that may write, is never held up by the
\* condition of Accept (sabsddb.py:505-535).
NothingUnderWay == \A c \in Chains : pc[c] \notin Calling => c \notin Executor!Outstanding

THEOREM CallersNeverHeldUp == Spec => []NothingUnderWay
<1>1. IndexInv => NothingUnderWay
  BY OutstandingIs DEF IndexInv, LineInv, NothingUnderWay
<1> QED
  BY <1>1, IndexInvHolds, PTL

\* A call is answered with what the executor can answer.
LEMMA AnswersAreOutcomes ==
  ASSUME IndexInv, replies # <<>>
  PROVE  /\ Head(replies).call \in Chains /\ Head(replies).outcome \in Outcomes
         /\ Head(replies) = [call |-> Head(replies).call, outcome |-> Head(replies).outcome]
<1>1. Head(replies) \in [call : Chains, outcome : Outcomes]
  BY HeadTailProperties DEF IndexInv, TypeOK
<1> QED
  BY <1>1

LEMMA ExecutionHasOutcome ==
  ASSUME IndexInv', NEW o, Executor!Execute(o)
  PROVE  o \in Outcomes
<1> DEFINE p == [call |-> Head(waiting), outcome |-> o]
<1>1. replies' = Append(replies, p)
  BY DEF Executor!Execute
<1>2. replies' \in Seq([call : Chains, outcome : Outcomes])
  BY DEF IndexInv, TypeOK
<1> QED
  BY <1>1, <1>2

LEMMA StepUsesExecutor ==
  ASSUME IndexInv, IndexInv', [Next]_vars
  PROVE  [Executor!Next]_(Executor!vars)
<1> SUFFICES Executor!Next \/ UNCHANGED <<waiting, replies>>
  BY DEF Executor!vars
<1>1. ASSUME NEW q \in Queries, Where(q) PROVE UNCHANGED <<waiting, replies>>
  BY <1>1 DEF Where
<1>2. ASSUME NEW w \in Writers, NEW id \in Ids, NEW v \in Vals \cup {None}, Write(w, id, v)
      PROVE  Executor!Next
  BY <1>2 DEF Write, Executor!Next, Chains
<1>3. ASSUME Execute \/ Raise PROVE Executor!Next
  <2>1. PICK o : Executor!Execute(o)
    BY <1>3 DEF Execute, Raise
  <2>2. o \in Outcomes
    BY <2>1, ExecutionHasOutcome
  <2> QED
    BY <2>1, <2>2 DEF Executor!Next
<1>4. ASSUME NEW q \in Queries, GetCursor(q) \/ SetKey(q) PROVE Executor!Next
  BY <1>4 DEF GetCursor, SetKey, Executor!Next, Chains
<1>5. ASSUME NEW c \in Chains, NEW o, Executor!Answer(c, o) \/ Executor!AnswerThenAccept(c, o)
      PROVE  Executor!Next
  <2>1. replies # <<>> /\ Head(replies).outcome = o
    BY <1>5 DEF Executor!Answer, Executor!AnswerThenAccept
  <2>2. o \in Outcomes
    BY <2>1, AnswersAreOutcomes
  <2> QED
    BY <1>5, <2>2 DEF Executor!Next
<1>6. ASSUME NEW q \in Queries,
             CursorOpened(q) \/ KeySet(q) \/ Fetched(q) \/ CursorClosed(q) \/ Failed(q)
      PROVE  Executor!Next
  <2>1. q \in Chains
    BY DEF Chains
  <2>2. PICK o : Executor!Answer(q, o) \/ Executor!AnswerThenAccept(q, o)
    BY <1>6 DEF CursorOpened, KeySet, Fetched, CursorClosed, Failed, Collect
  <2> QED
    BY <1>5, <2>1, <2>2
<1>7. ASSUME NEW w \in Writers, Written(w) PROVE Executor!Next
  BY <1>5, <1>7 DEF Written, Chains
<1>8. CASE UNCHANGED vars
  BY <1>8 DEF vars
<1> QED
  BY <1>1, <1>2, <1>3, <1>4, <1>6, <1>7, <1>8 DEF Next, EventLoop

\* The calls of any number of queries and writers are behaviour the pool's
\* contract allows: every step hands over, executes or answers one call, or
\* leaves them alone.  Pool implements that contract (PoolRefinesExecutor), so
\* what is proved here holds of queries over the pool (absddb/adbcursor.py).
THEOREM QueriesUseExecutor == Spec => Executor!Spec
<1>1. Init => Executor!Init
  BY DEF Init, Executor!Init
<1>2. IndexInv /\ IndexInv' /\ [Next]_vars => [Executor!Next]_(Executor!vars)
  BY StepUsesExecutor
<1> QED
  BY <1>1, <1>2, IndexInvHolds, PTL DEF Spec, Executor!Spec

=============================================================================
