------------------------- MODULE RestRequest_proofs -------------------------
(***************************************************************************)
(* Proofs about modules HttpChannel and RestRequest, for any connections,  *)
(* requests and resources: the order of the answers, the timer of a        *)
(* connection, the time an answer reports, and the built-in users.         *)
(***************************************************************************)
EXTENDS RestRequest, FiniteSetTheorems, SequenceTheorems, TLAPS

-----------------------------------------------------------------------------
(* Sequences.                                                              *)

\* DoneLength is the length of the longest prefix of q that is done.
LEMMA DoneLengthProperties ==
  ASSUME NEW S, NEW q \in Seq(S), NEW done
  PROVE  /\ DoneLength(q, done) \in 0..Len(q)
         /\ \A i \in 1..DoneLength(q, done) : q[i] \in done
         /\ DoneLength(q, done) < Len(q) => q[DoneLength(q, done) + 1] \notin done
<1> DEFINE T == {n \in DOMAIN q : \A i \in 1..n : q[i] \in done}
           k == Cardinality(T)
<1>1. DOMAIN q = 1..Len(q) /\ Len(q) \in Nat
  OBVIOUS
<1>2. IsFiniteSet(T) /\ k <= Len(q) /\ k \in Nat
  <2>1. IsFiniteSet(1..Len(q)) /\ Cardinality(1..Len(q)) = Len(q)
    BY <1>1, FS_Interval
  <2>2. IsFiniteSet(T) /\ Cardinality(T) <= Cardinality(1..Len(q))
    BY <1>1, <2>1, FS_Subset
  <2> QED
    BY <2>1, <2>2, FS_CardinalityType
<1>3. ASSUME NEW m \in T PROVE m <= k
  <2>1. m \in Nat /\ 1..m \subseteq T
    BY <1>1
  <2>2. Cardinality(1..m) = m
    BY <2>1, FS_Interval
  <2>3. Cardinality(1..m) <= Cardinality(T)
    BY <1>2, <2>1, FS_Subset
  <2> QED
    BY <2>2, <2>3
<1>4. T = 1..k
  <2>1. IsFiniteSet(1..k) /\ Cardinality(1..k) = k
    BY <1>2, FS_Interval
  <2>2. T \subseteq 1..k
    BY <1>1, <1>3, <1>2
  <2> QED
    BY <2>1, <2>2, FS_Subset
<1>5. \A i \in 1..k : q[i] \in done
  BY <1>4, <1>1
<1>6. ASSUME k < Len(q), q[k + 1] \in done PROVE FALSE
  <2>1. \A i \in 1..(k + 1) : q[i] \in done
    BY <1>2, <1>5, <1>6
  <2>2. k + 1 \in T
    BY <1>1, <1>2, <1>6, <2>1
  <2>3. k + 1 <= k
    BY <1>3, <2>2
  <2> HIDE DEF k
  <2> QED
    BY <1>2, <2>3
<1>7. DoneLength(q, done) = k
  BY DEF DoneLength
<1> HIDE DEF k
<1> QED
  BY <1>2, <1>5, <1>6, <1>7

\* Appending to the end of a concatenation.
LEMMA AppendOfConcat ==
  ASSUME NEW S, NEW s \in Seq(S), NEW t \in Seq(S), NEW e \in S, NEW u, u = Append(t, e)
  PROVE  Append(s \o t, e) = s \o u
<1>1. <<e>> \in Seq(S) /\ s \o t \in Seq(S)
  OBVIOUS
<1>2. (s \o t) \o <<e>> = s \o (t \o <<e>>)
  BY <1>1, ConcatAssociative
<1> QED
  BY <1>1, <1>2, AppendIsConcat

\* Moving the front of what follows a sequence behind it.
LEMMA Regrouped ==
  ASSUME NEW S, NEW a \in Seq(S), NEW b \in Seq(S), NEW c \in Seq(S)
  PROVE  a \o b \in Seq(S) /\ a \o (b \o c) = (a \o b) \o c
<1>1. a \o b \in Seq(S) /\ b \o c \in Seq(S)
  OBVIOUS
<1>2. (a \o b) \o c = a \o (b \o c)
  BY <1>1, SMTT(60)
<1> QED
  BY <1>1, <1>2

\* A prefix, in terms of what follows it.
LEMMA PrefixOfConcat ==
  ASSUME NEW S, NEW s \in Seq(S), NEW t \in Seq(S)
  PROVE  IsPrefix(s, s \o t)
<1>1. Len(s) \in Nat /\ Len(t) \in Nat /\ Len(s \o t) = Len(s) + Len(t)
  BY ConcatProperties
<1>2. SubSeq(s \o t, 1, Len(s)) = SubSeq(s, 1, Len(s))
  BY <1>1, SubSeqOfConcat1
<1> QED
  BY <1>1, <1>2 DEF IsPrefix

\* A sequence with one more thing in between.
With(a, e, b) == (a \o <<e>>) \o b

LEMMA OneMoreThere ==
  ASSUME NEW S, NEW e, NEW a \in Seq(S), NEW b \in Seq(S)
  PROVE  Len(a) + 1 \in DOMAIN With(a, e, b) /\ With(a, e, b)[Len(a) + 1] = e
<1> DEFINE T == S \cup {e}
<1>1. a \in Seq(T) /\ b \in Seq(T) /\ <<e>> \in Seq(T)
  OBVIOUS
<1> HIDE DEF T
<1> QED
  BY <1>1 DEF With

LEMMA OneMoreRemoved ==
  ASSUME NEW S, NEW e, NEW a \in Seq(S), NEW b \in Seq(S)
  PROVE  RemoveAt(With(a, e, b), Len(a) + 1) = a \o b
<1> DEFINE T == S \cup {e}
           n == Len(a) + 1
<1>1. a \in Seq(T) /\ b \in Seq(T) /\ <<e>> \in Seq(T)
  OBVIOUS
<1>2. PICK f \in Seq(T) : f = a \o <<e>> /\ Len(f) = n
  <2>1. a \o <<e>> \in Seq(T) /\ Len(a \o <<e>>) = n
    BY <1>1
  <2> HIDE DEF T
  <2> QED
    BY <2>1
<1>3. /\ n \in Nat \ {0} /\ Len(a) \in Nat /\ Len(b) \in Nat
      /\ f \o b \in Seq(T) /\ Len(f \o b) = n + Len(b)
  BY <1>1, <1>2
<1>4. SubSeq(f \o b, 1, n - 1) = a
  BY <1>1, <1>2, <1>3
<1>5. SubSeq(f \o b, n + 1, Len(f \o b)) = b
  BY <1>1, <1>2, <1>3
<1>6. RemoveAt(f \o b, n) = a \o b
  BY <1>3, <1>4, <1>5 DEF RemoveAt
<1> QED
  BY <1>2, <1>6, Zenon DEF With

\* The two parts that a queue is cut into.
LEMMA CutQueue ==
  ASSUME NEW S, NEW q \in Seq(S), NEW n \in 0..Len(q)
  PROVE  /\ SubSeq(q, 1, n) \in Seq(S) /\ SubSeq(q, n + 1, Len(q)) \in Seq(S)
         /\ q = SubSeq(q, 1, n) \o SubSeq(q, n + 1, Len(q))
         /\ Len(SubSeq(q, n + 1, Len(q))) = Len(q) - n
         /\ \A i \in 1..(Len(q) - n) : SubSeq(q, n + 1, Len(q))[i] = q[n + i]
<1>1. Len(q) \in Nat
  OBVIOUS
<1>2. /\ SubSeq(q, 1, n) \in Seq(S) 
  BY <1>1, SubSeqProperties
<1>3. /\ SubSeq(q, n + 1, Len(q)) \in Seq(S)
      /\ Len(SubSeq(q, n + 1, Len(q))) = Len(q) - n
      /\ \A i \in 1..(Len(q) - n) : SubSeq(q, n + 1, Len(q))[i] = q[n + i]
  BY <1>1, SubSeqProperties
<1>4. q = SubSeq(q, 1, Len(q))
  BY SubSeqFull
<1>5. SubSeq(q, 1, n) \o SubSeq(q, n + 1, Len(q)) = SubSeq(q, 1, Len(q))
  <2>1. 1 \in 1..(Len(q) + 1) /\ n \in (1 - 1)..Len(q) /\ Len(q) \in n..Len(q)
    BY <1>1
  <2> QED
    BY <2>1, ConcatAdjacentSubSeq
<1> QED
  BY <1>2, <1>3, <1>4, <1>5

-----------------------------------------------------------------------------
(* The invariant.                                                          *)

\* What has gone out on a connection and what is queued is what came in, in that
\* order, but for the 400 of a connection that is refused.
Order(st, out, queue, in) ==
  /\ st = "open" => out \in Seq(Requests) /\ in = out \o queue
  /\ st = "refused" => \E a, b \in Seq(Requests) :
                         out = With(a, BadRequest, b) /\ in = (a \o b) \o queue

\* What has gone out is in order.
Turn(st, out, in) ==
  \/ IsPrefix(out, in)
  \/ /\ st # "open"
     /\ \E n \in DOMAIN out : out[n] = BadRequest /\ IsPrefix(RemoveAt(out, n), in)

LEMMA OrderGivesTurn ==
  ASSUME NEW st \in {"open", "refused"}, NEW out, NEW queue \in Seq(Requests), NEW in,
         Order(st, out, queue, in)
  PROVE  Turn(st, out, in)
<1>1. CASE st = "open"
  BY <1>1, PrefixOfConcat DEF Order, Turn
<1>2. CASE st = "refused"
  <2>1. PICK a \in Seq(Requests), b \in Seq(Requests) :
          out = With(a, BadRequest, b) /\ in = (a \o b) \o queue
    BY <1>2 DEF Order
  <2>2. PICK n \in DOMAIN out : out[n] = BadRequest /\ RemoveAt(out, n) = a \o b
    <3>1. /\ Len(a) + 1 \in DOMAIN With(a, BadRequest, b)
          /\ With(a, BadRequest, b)[Len(a) + 1] = BadRequest
      BY OneMoreThere, Zenon
    <3>2. RemoveAt(With(a, BadRequest, b), Len(a) + 1) = a \o b
      BY OneMoreRemoved, Zenon
    <3> QED
      BY <2>1, <3>1, <3>2, Zenon
  <2>3. a \o b \in Seq(Requests)
    BY ConcatProperties
  <2>4. IsPrefix(RemoveAt(out, n), in)
    BY <2>1, <2>2, <2>3, PrefixOfConcat
  <2> QED
    BY <1>2, <2>2, <2>4 DEF Turn
<1> QED
  BY <1>1, <1>2

\* The 400 is written where it has no turn.
LEMMA Refusal ==
  ASSUME NEW out \in Seq(Requests), NEW queue \in Seq(Requests)
  PROVE  Order("refused", Append(out, BadRequest), queue, out \o queue)
<1>1. <<>> \in Seq(Requests) /\ out \o <<>> = out
  OBVIOUS
<1>2. Append(out, BadRequest) = With(out, BadRequest, <<>>)
  BY DEF With
<1> QED
  BY <1>1, <1>2 DEF Order

\* Answers go out that have waited at the head of the queue.
LEMMA HandOver ==
  ASSUME NEW st, NEW out, NEW queue, NEW in, Order(st, out, queue, in),
         NEW h \in Seq(Requests), NEW t \in Seq(Requests), queue = h \o t
  PROVE  Order(st, out \o h, t, in)
<1>1. ASSUME st = "open" PROVE out \o h \in Seq(Requests) /\ in = (out \o h) \o t
  <2>1. PICK a \in Seq(Requests) : a = out /\ in = a \o (h \o t)
    BY <1>1, Zenon DEF Order
  <2>2. a \o h \in Seq(Requests) /\ a \o (h \o t) = (a \o h) \o t
    BY Regrouped
  <2> QED
    BY <2>1, <2>2, Zenon
<1>2. ASSUME st = "refused"
      PROVE  \E a, b \in Seq(Requests) :
               out \o h = With(a, BadRequest, b) /\ in = (a \o b) \o t
  <2>1. PICK a \in Seq(Requests), b \in Seq(Requests) :
          out = With(a, BadRequest, b) /\ in = (a \o b) \o (h \o t)
    BY <1>2 DEF Order
  <2> DEFINE T == Requests \cup {BadRequest}
  <2>2. a \in Seq(T) /\ b \in Seq(T) /\ h \in Seq(T) /\ <<BadRequest>> \in Seq(T)
    OBVIOUS
  <2>3. a \o <<BadRequest>> \in Seq(T)
    BY <2>2, ConcatProperties
  <2> HIDE DEF T
  <2>4. (a \o <<BadRequest>>) \o (b \o h) = ((a \o <<BadRequest>>) \o b) \o h
    <3>1. PICK z \in Seq(T) : z = a \o <<BadRequest>>
      BY <2>3, Zenon
    <3>2. z \o (b \o h) = (z \o b) \o h
      BY <2>2, Regrouped
    <3> QED
      BY <3>1, <3>2, Zenon
  <2>5. b \o h \in Seq(Requests) /\ a \o b \in Seq(Requests)
    BY Regrouped
  <2>6. (a \o b) \o (h \o t) = ((a \o b) \o h) \o t
    <3>1. PICK z \in Seq(Requests) : z = a \o b
      BY <2>5, Zenon
    <3>2. z \o (h \o t) = (z \o h) \o t
      BY Regrouped
    <3> QED
      BY <3>1, <3>2, Zenon
  <2>7. a \o (b \o h) = (a \o b) \o h
    BY Regrouped
  <2>8. out \o h = With(a, BadRequest, b \o h) /\ in = (a \o (b \o h)) \o t
    BY <2>1, <2>4, <2>6, <2>7, Zenon DEF With
  <2> QED
    BY <2>5, <2>8, Zenon
<1> QED
  BY <1>1, <1>2 DEF Order

\* A request is in the queue of its connection from its first line until its
\* answer is written; at most one of a queue is incomplete, and while one is
\* an open connection will be kept; and the order of what goes out.
QueueInv ==
  /\ \A c \in Conns : \A q \in InQueue(c) : conn[q] = c /\ pc[q] # "sent"
  /\ \A r \in Requests : pc[r] # "sent" /\ r \notin finished => r \in InQueue(conn[r])
  /\ \A c \in Conns : \A q, r \in InQueue(c) \ complete :
       q = r /\ (state[c] = "open" => persistent[c])
  /\ \A c \in Conns : state[c] = "closed" => ~persistent[c]
  /\ \A c \in Conns : Order(state[c], sent[c], requests[c], received[c])

\* An open connection whose timer does not run remembers how long it has to.
TimerInv == \A c \in Conns : state[c] = "open" => c \in timed \cup saved

ChannelInv == TypeOK /\ QueueInv /\ TimerInv /\ AnswersInOrder /\ TimedWhenIdle

LEMMA InitChannelInv == Init => ChannelInv
<1> SUFFICES ASSUME Init PROVE ChannelInv
  OBVIOUS
<1> USE DEF Init, ChannelInit
<1>1. TypeOK
  <2>1. ChannelTypeOK
    BY DEF ChannelTypeOK
  <2> QED
    BY <2>1, RestAssumption DEF TypeOK
<1>2. \A c \in Conns : InQueue(c) = {}
  BY DEF InQueue
<1>3. QueueInv /\ TimerInv /\ TimedWhenIdle
  BY <1>2 DEF QueueInv, TimerInv, TimedWhenIdle, Order
<1>4. AnswersInOrder
  <2>1. \A c \in Conns : IsPrefix(sent[c], received[c])
    BY DEF IsPrefix
  <2> QED
    BY <2>1 DEF AnswersInOrder
<1> QED
  BY <1>1, <1>3, <1>4 DEF ChannelInv

\* Nothing of it changes while the channels do not.
LEMMA ChannelUnchanged ==
  ASSUME ChannelInv, TypeOK', UNCHANGED <<channelVars, inputs>>,
         \A r \in Requests : pc'[r] = "sent" <=> pc[r] = "sent"
  PROVE  ChannelInv'
<1>1. \A c : InQueue(c)' = InQueue(c)
  BY DEF InQueue, channelVars
<1>2. TimerInv' /\ AnswersInOrder' /\ TimedWhenIdle'
  BY <1>1 DEF ChannelInv, TimerInv, AnswersInOrder, TimedWhenIdle, channelVars
<1>3. QueueInv'
  <2>1. \A c \in Conns : requests[c] \in Seq(Requests)
    BY DEF ChannelInv, TypeOK, ChannelTypeOK
  <2>2. \A c \in Conns : InQueue(c) \subseteq Requests
    BY <2>1 DEF InQueue
  <2> QED
    BY <1>1, <2>2 DEF ChannelInv, QueueInv, channelVars, inputs
<1> QED
  BY <1>2, <1>3 DEF ChannelInv

-----------------------------------------------------------------------------
(* The steps of a channel.                                                 *)

\* What a 400 leaves as it is.
LEMMA BadRequestTypes ==
  ASSUME ChannelTypeOK, NEW c \in Conns, NEW bad \in BOOLEAN, WriteBadRequest(c, bad)
  PROVE  /\ state' \in [Conns -> {"open", "refused", "closed", "lost"}]
         /\ sent' \in [Conns -> Seq(Requests \cup {BadRequest})]
         /\ state'[c] = IF bad THEN "refused" ELSE state[c]
         /\ sent'[c] = IF bad THEN Append(sent[c], BadRequest) ELSE sent[c]
         /\ \A d \in Conns : d # c => state'[d] = state[d] /\ sent'[d] = sent[d]
<1>1. CASE bad
  <2>1. Append(sent[c], BadRequest) \in Seq(Requests \cup {BadRequest})
    BY DEF ChannelTypeOK
  <2> QED
    BY <1>1, <2>1 DEF WriteBadRequest, ChannelTypeOK
<1>2. CASE ~bad
  BY <1>2 DEF WriteBadRequest, ChannelTypeOK
<1> QED
  BY <1>1, <1>2

\* Nor does it disturb the order, if what came in is what went out and the queue.
LEMMA BadRequestOrder ==
  ASSUME ChannelTypeOK, NEW c \in Conns, NEW bad \in BOOLEAN, WriteBadRequest(c, bad),
         state[c] = "open", sent[c] \in Seq(Requests), NEW q \in Seq(Requests), NEW in,
         in = sent[c] \o q
  PROVE  /\ Order(state'[c], sent'[c], q, in)
         /\ Turn(state'[c], sent'[c], in)
<1>1. Order(state'[c], sent'[c], q, in)
  <2>1. CASE bad
    BY <2>1, BadRequestTypes, Refusal
  <2>2. CASE ~bad
    BY <2>2, BadRequestTypes DEF Order
  <2> QED
    BY <2>1, <2>2
<1>2. state'[c] \in {"open", "refused"}
  BY BadRequestTypes
<1> QED
  BY <1>1, <1>2, OrderGivesTurn

\* Begin: the request joins a queue whose requests are all complete.
LEMMA FirstLineKeeps ==
  ASSUME ChannelInv, NEW r \in Requests, NEW bad \in BOOLEAN, FirstLine(r, bad)
  PROVE  ChannelInv'
<1> USE DEF ChannelInv
<1>0. PICK c \in Conns : c = conn[r]
  BY DEF TypeOK
<1>1. /\ pc[r] = "sent" /\ pc' = [pc EXCEPT ![r] = IF bad THEN "refused" ELSE "begun"]
      /\ state[c] = "open" /\ persistent[c] /\ InQueue(c) \subseteq complete
      /\ requests' = [requests EXCEPT ![c] = Append(@, r)]
      /\ received' = [received EXCEPT ![c] = Append(@, r)]
      /\ WriteBadRequest(c, bad)
      /\ UNCHANGED <<complete, finished, persistent, timed, saved, conn,
                     resource, status, initd, now, time, begun, mute>>
  BY <1>0 DEF FirstLine, Begin, Goto, inputs
<1>2. /\ ChannelTypeOK
      /\ \A d \in Conns : requests[d] \in Seq(Requests) /\ received[d] \in Seq(Requests)
      /\ requests \in [Conns -> Seq(Requests)] /\ received \in [Conns -> Seq(Requests)]
      /\ pc \in [Requests -> {"sent", "begun", "init", "initializing", "fetch_user", "sign",
                             "check", "auth", "answer", "mute", "answered", "refused"}]
  BY DEF TypeOK, ChannelTypeOK
<1>3. r \notin complete /\ r \notin finished
  BY <1>1 DEF TypeOK
<1>4. InQueue(c)' = InQueue(c) \cup {r} /\ \A d \in Conns : d # c => InQueue(d)' = InQueue(d)
  <2>1. requests'[c] = Append(requests[c], r)
    BY <1>1, <1>2
  <2>2. /\ DOMAIN requests'[c] = 1..(Len(requests[c]) + 1) /\ requests'[c][Len(requests[c]) + 1] = r
        /\ DOMAIN requests[c] = 1..Len(requests[c]) /\ Len(requests[c]) \in Nat
        /\ \A i \in 1..Len(requests[c]) : requests'[c][i] = requests[c][i]
    BY <1>2, <2>1
  <2>3. InQueue(c)' \subseteq InQueue(c) \cup {r}
    BY <2>2 DEF InQueue
  <2>4. InQueue(c) \cup {r} \subseteq InQueue(c)'
    BY <2>2 DEF InQueue
  <2>5. ASSUME NEW d \in Conns, d # c PROVE InQueue(d)' = InQueue(d)
    <3>1. requests'[d] = requests[d]
      BY <1>1, <1>2, <2>5
    <3> QED
      BY <3>1 DEF InQueue
  <2> QED
    BY <2>3, <2>4, <2>5
<1>5. /\ state' \in [Conns -> {"open", "refused", "closed", "lost"}]
      /\ sent' \in [Conns -> Seq(Requests \cup {BadRequest})]
      /\ \A d \in Conns : d # c => state'[d] = state[d] /\ sent'[d] = sent[d]
      /\ state'[c] \in {"open", "refused"}
  BY <1>1, <1>2, BadRequestTypes
<1>6. TypeOK'
  <2>1. ChannelTypeOK'
    <3>1. Append(requests[c], r) \in Seq(Requests) /\ Append(received[c], r) \in Seq(Requests)
      BY <1>2
    <3>2. requests' \in [Conns -> Seq(Requests)] /\ received' \in [Conns -> Seq(Requests)]
      BY <1>1, <1>2, <3>1
    <3> QED
      BY <1>1, <1>2, <1>5, <3>2 DEF ChannelTypeOK
  <2> QED
    BY <1>1, <1>3, <2>1 DEF TypeOK, inputs
<1>7. \A d \in Conns : /\ Order(state'[d], sent'[d], requests'[d], received'[d])
                       /\ Turn(state'[d], sent'[d], received'[d])
  <2>1. ASSUME NEW d \in Conns, d # c
        PROVE  /\ Order(state'[d], sent'[d], requests'[d], received'[d])
               /\ Turn(state'[d], sent'[d], received'[d])
    <3>1. /\ state'[d] = state[d] /\ sent'[d] = sent[d]
          /\ requests'[d] = requests[d] /\ received'[d] = received[d]
      BY <1>1, <1>2, <1>5, <2>1
    <3>2. /\ Order(state[d], sent[d], requests[d], received[d])
          /\ Turn(state[d], sent[d], received[d])
      BY DEF QueueInv, AnswersInOrder, Turn
    <3> QED
      BY <3>1, <3>2
  <2>2. sent[c] \in Seq(Requests) /\ received[c] = sent[c] \o requests[c]
    BY <1>1 DEF QueueInv, Order
  <2>3. PICK q \in Seq(Requests) : q = Append(requests[c], r)
    <3>1. Append(requests[c], r) \in Seq(Requests)
      BY <1>2
    <3> QED
      BY <3>1, Zenon
  <2>4. received'[c] = sent[c] \o q /\ requests'[c] = q
    <3>1. Append(sent[c] \o requests[c], r) = sent[c] \o q
      <4>1. sent[c] \in Seq(Requests) /\ requests[c] \in Seq(Requests)
        BY <1>2, <2>2
      <4>2. Append(sent[c] \o requests[c], r) = sent[c] \o Append(requests[c], r)
        BY <4>1, AppendOfConcat
      <4> QED
        BY <2>3, <4>2, Zenon
    <3> QED
      BY <1>1, <1>2, <2>2, <2>3, <3>1
  <2>5. /\ Order(state'[c], sent'[c], requests'[c], received'[c])
        /\ Turn(state'[c], sent'[c], received'[c])
    BY <1>1, <1>2, <2>2, <2>4, BadRequestOrder
  <2> QED
    BY <2>1, <2>5
<1>8. QueueInv'
  <2>1. \A d \in Conns : \A q \in InQueue(d)' : conn'[q] = d /\ pc'[q] # "sent"
    <3> SUFFICES ASSUME NEW d \in Conns, NEW q \in InQueue(d)'
                 PROVE  conn[q] = d /\ q \in Requests /\ pc'[q] # "sent"
      BY <1>1
    <3>1. CASE d = c /\ q = r
      BY <1>0, <1>1, <1>2, <3>1
    <3>2. CASE q \in InQueue(d)
      <4>1. q \in Requests
        BY <1>2, <3>2 DEF InQueue
      <4> QED
        BY <1>1, <1>2, <3>2, <4>1 DEF QueueInv
    <3> QED
      BY <1>4, <3>1, <3>2
  <2>2. \A q \in Requests : pc'[q] # "sent" /\ q \notin finished' => (q \in InQueue(conn[q]))'
    <3> SUFFICES ASSUME NEW q \in Requests, pc'[q] # "sent", q \notin finished
                 PROVE  (q \in InQueue(conn[q]))'
      BY <1>1
    <3>1. PICK d \in Conns : d = conn[q] /\ d = conn'[q]
      BY <1>1 DEF TypeOK
    <3>2. CASE q = r
      BY <1>0, <1>4, <3>1, <3>2
    <3>3. CASE q # r
      <4>1. pc[q] # "sent"
        BY <1>1, <1>2, <3>3
      <4>2. q \in InQueue(conn[q])
        BY <4>1 DEF QueueInv
      <4> QED
        BY <1>4, <3>1, <4>2
    <3> QED
      BY <3>2, <3>3
  <2>3. \A d \in Conns : \A q, p \in InQueue(d)' \ complete' :
          q = p /\ (state'[d] = "open" => persistent'[d])
    <3>1. \A q \in InQueue(c)' \ complete' : q = r
      BY <1>1, <1>4
    <3>2. ASSUME NEW d \in Conns, d # c
          PROVE  \A q, p \in InQueue(d)' \ complete' : q = p /\ (state'[d] = "open" => persistent'[d])
      BY <1>1, <1>4, <1>5, <3>2 DEF QueueInv
    <3> QED
      BY <1>1, <3>1, <3>2
  <2>4. \A d \in Conns : state'[d] = "closed" => ~persistent'[d]
    BY <1>1, <1>5 DEF QueueInv
  <2> QED
    BY <1>7, <2>1, <2>2, <2>3, <2>4 DEF QueueInv
<1>9. AnswersInOrder'
  <2>1. requests'[c] # <<>> /\ Head(requests'[c]) = IF requests[c] = <<>> THEN r ELSE Head(requests[c])
    BY <1>1, <1>2
  <2>2. \A d \in Conns : requests'[d] # <<>> /\ persistent'[d] => Head(requests'[d]) \notin finished'
    BY <1>1, <1>2, <1>3, <2>1 DEF AnswersInOrder
  <2> QED
    BY <1>7, <2>2 DEF AnswersInOrder, Turn
<1>10. TimerInv' /\ TimedWhenIdle'
  <2>1. requests'[c] # <<>>
    BY <1>1, <1>2
  <2> QED
    BY <1>1, <1>2, <1>3, <1>4, <1>5, <2>1 DEF TimerInv, TimedWhenIdle
<1> QED
  BY <1>6, <1>8, <1>9, <1>10

\* The rest of a request comes in, or enough of it to be refused: it is the only
\* one of its queue that was incomplete.
LEMMA HeadersKeep ==
  ASSUME ChannelInv, TypeOK', NEW r \in Requests, NEW c \in Conns, c = conn[r],
         NEW keep \in BOOLEAN, NEW bad \in BOOLEAN,
         state[c] = "open", r \in InQueue(c) \ complete, WriteBadRequest(c, bad),
         persistent' = [persistent EXCEPT ![c] = keep],
         (bad /\ UNCHANGED <<complete, timed, saved>>)
           \/ (/\ complete' = complete \cup {r} /\ timed' = timed \ {c}
               /\ saved' = IF c \in timed THEN saved \cup {c} ELSE saved),
         \A q \in Requests : pc'[q] = "sent" <=> pc[q] = "sent",
         UNCHANGED <<requests, finished, received, conn>>
  PROVE  ChannelInv'
<1> USE DEF ChannelInv
<1>1. /\ ChannelTypeOK
      /\ \A d \in Conns : requests[d] \in Seq(Requests)
      /\ persistent \in [Conns -> BOOLEAN] /\ saved \subseteq Conns
  BY DEF TypeOK, ChannelTypeOK
<1>2. \A d : InQueue(d)' = InQueue(d)
  BY DEF InQueue
<1>3. \A d \in Conns : InQueue(d) \subseteq Requests
  BY <1>1 DEF InQueue
<1>4. /\ state'[c] = IF bad THEN "refused" ELSE "open"
      /\ \A d \in Conns : d # c => state'[d] = state[d] /\ sent'[d] = sent[d]
  BY <1>1, BadRequestTypes
<1>5. persistent'[c] = keep /\ \A d \in Conns : d # c => persistent'[d] = persistent[d]
  BY <1>1
<1>6. /\ \A q \in InQueue(c) \ complete : q = r
      /\ persistent[c] /\ \A d \in Conns : d # c => r \notin InQueue(d)
  BY DEF QueueInv
<1>7. \A d \in Conns : /\ Order(state'[d], sent'[d], requests'[d], received'[d])
                       /\ Turn(state'[d], sent'[d], received'[d])
  <2>1. ASSUME NEW d \in Conns, d # c
        PROVE  /\ Order(state'[d], sent'[d], requests'[d], received'[d])
               /\ Turn(state'[d], sent'[d], received'[d])
    <3>1. /\ state'[d] = state[d] /\ sent'[d] = sent[d]
          /\ requests'[d] = requests[d] /\ received'[d] = received[d]
      BY <1>4, <2>1
    <3>2. /\ Order(state[d], sent[d], requests[d], received[d])
          /\ Turn(state[d], sent[d], received[d])
      BY DEF QueueInv, AnswersInOrder, Turn
    <3> QED
      BY <3>1, <3>2
  <2>2. /\ sent[c] \in Seq(Requests) /\ received'[c] = sent[c] \o requests'[c]
        /\ requests'[c] \in Seq(Requests)
    BY <1>1 DEF QueueInv, Order
  <2>3. /\ Order(state'[c], sent'[c], requests'[c], received'[c])
        /\ Turn(state'[c], sent'[c], received'[c])
    BY <1>1, <2>2, BadRequestOrder
  <2> QED
    BY <2>1, <2>3
<1>8. QueueInv'
  <2>1. \A d \in Conns : \A q \in InQueue(d)' : conn'[q] = d /\ pc'[q] # "sent"
    BY <1>2, <1>3 DEF QueueInv
  <2>2. \A q \in Requests : pc'[q] # "sent" /\ q \notin finished' => (q \in InQueue(conn[q]))'
    BY <1>2 DEF QueueInv
  <2>3. \A d \in Conns : \A q, p \in InQueue(d)' \ complete' :
          q = p /\ (state'[d] = "open" => persistent'[d])
    BY <1>2, <1>4, <1>5, <1>6 DEF QueueInv
  <2>4. \A d \in Conns : state'[d] = "closed" => ~persistent'[d]
    BY <1>4, <1>5 DEF QueueInv
  <2> QED
    BY <1>7, <2>1, <2>2, <2>3, <2>4 DEF QueueInv
<1>9. AnswersInOrder'
  <2>1. \A d \in Conns : requests'[d] # <<>> /\ persistent'[d] => Head(requests'[d]) \notin finished'
    BY <1>5, <1>6 DEF AnswersInOrder
  <2> QED
    BY <1>7, <2>1 DEF AnswersInOrder, Turn
<1>10. TimerInv'
  BY <1>1, <1>4 DEF TimerInv
<1>11. TimedWhenIdle'
  <2>1. requests[c] # <<>>
    BY <1>1 DEF InQueue
  <2> QED
    BY <1>1, <1>2, <1>4, <1>6, <2>1 DEF TimedWhenIdle
<1> QED
  BY <1>8, <1>9, <1>10, <1>11

\* Receive: the request is worked on, or refused for a part of its content.
LEMMA ReceiveKeeps ==
  ASSUME ChannelInv, NEW r \in Requests, NEW keep \in BOOLEAN, NEW bad \in BOOLEAN,
         Render(r, keep, bad) \/ (bad /\ RefusePart(r, keep))
  PROVE  ChannelInv'
<1> USE DEF ChannelInv
<1>0. PICK c \in Conns : c = conn[r]
  BY DEF TypeOK
<1>1. /\ pc[r] = "begun" /\ \E to \in {"init", "refused"} : pc' = [pc EXCEPT ![r] = to]
      /\ state[c] = "open" /\ r \in InQueue(c) \ complete /\ complete' = complete \cup {r}
      /\ WriteBadRequest(c, bad)
      /\ persistent' = [persistent EXCEPT ![c] = keep]
      /\ timed' = timed \ {c} /\ saved' = IF c \in timed THEN saved \cup {c} ELSE saved
      /\ \/ /\ time' = [time EXCEPT ![resource[r]] = now]
            /\ begun' = [begun EXCEPT ![r] = now]
         \/ UNCHANGED <<time, begun>>
      /\ UNCHANGED <<requests, finished, received, conn, resource, status, initd, now, mute>>
  BY <1>0 DEF Render, RefusePart, Receive, ReceiveSaving, Goto, inputs
<1>2. TypeOK'
  <2>1. ChannelTypeOK'
    BY <1>1, BadRequestTypes DEF TypeOK, ChannelTypeOK
  <2>2. time' \in [Resources -> 0..MaxTime] /\ begun' \in [Requests -> 0..MaxTime \cup {None}]
    BY <1>1 DEF TypeOK
  <2>3. /\ pc' \in [Requests -> {"sent", "begun", "init", "initializing", "fetch_user", "sign",
                                 "check", "auth", "answer", "mute", "answered", "refused"}]
        /\ \A q \in Requests : /\ q \in complete' => pc'[q] \notin {"sent", "begun"}
                              /\ pc'[q] \notin {"sent", "begun", "refused"} => q \in complete'
                              /\ q \in finished' <=> pc'[q] = "answered"
    <3>1. PICK to \in {"init", "refused"} : pc' = [pc EXCEPT ![r] = to]
      BY <1>1
    <3> QED
      BY <1>1, <3>1 DEF TypeOK
  <2> QED
    BY <1>1, <2>1, <2>2, <2>3 DEF TypeOK
<1>3. \A q \in Requests : pc'[q] = "sent" <=> pc[q] = "sent"
  BY <1>1 DEF TypeOK
<1> QED
  BY <1>0, <1>1, <1>2, <1>3, HeadersKeep

\* RefuseHeaders: the request stays incomplete for ever.
LEMMA TooManyHeadersKeeps ==
  ASSUME ChannelInv, NEW r \in Requests, NEW keep \in BOOLEAN, TooManyHeaders(r, keep)
  PROVE  ChannelInv'
<1> USE DEF ChannelInv
<1>0. PICK c \in Conns : c = conn[r]
  BY DEF TypeOK
<1>1. /\ pc[r] = "begun" /\ pc' = [pc EXCEPT ![r] = "refused"]
      /\ state[c] = "open" /\ r \in InQueue(c) \ complete /\ WriteBadRequest(c, TRUE)
      /\ persistent' = [persistent EXCEPT ![c] = keep]
      /\ UNCHANGED <<requests, complete, finished, timed, saved, received, conn, resource, status,
                     initd, now, time, begun, mute>>
  BY <1>0 DEF TooManyHeaders, RefuseHeaders, Goto, inputs
<1>2. TypeOK'
  <2>1. ChannelTypeOK'
    BY <1>1, BadRequestTypes DEF TypeOK, ChannelTypeOK
  <2> QED
    BY <1>1, <2>1 DEF TypeOK
<1>3. \A q \in Requests : pc'[q] = "sent" <=> pc[q] = "sent"
  BY <1>1 DEF TypeOK
<1> QED
  BY <1>0, <1>1, <1>2, <1>3, HeadersKeep

\* A lost connection neither takes requests nor sends answers.
LEMMA LostKeeps ==
  ASSUME ChannelInv, NEW c \in Conns, Lost(c)
  PROVE  ChannelInv'
<1> USE DEF ChannelInv
<1>1. /\ state' = [state EXCEPT ![c] = IF @ = "closed" THEN @ ELSE "lost"]
      /\ timed' = timed \ {c}
      /\ UNCHANGED <<requests, complete, finished, persistent, saved, received, sent, inputs, pc,
                     status, initd, now, time, begun, mute>>
  BY DEF Lost, ConnectionLost
<1>2. state \in [Conns -> {"open", "refused", "closed", "lost"}]
  BY DEF TypeOK, ChannelTypeOK
<1>3. \A d : InQueue(d)' = InQueue(d)
  BY <1>1 DEF InQueue
<1>4. TypeOK'
  <2>1. ChannelTypeOK'
    BY <1>1, <1>2 DEF TypeOK, ChannelTypeOK
  <2> QED
    BY <1>1, <2>1 DEF TypeOK, inputs
<1>5. QueueInv'
  <2>1. \A d \in Conns : InQueue(d) \subseteq Requests
    BY DEF InQueue, TypeOK, ChannelTypeOK
  <2>2. \A d \in Conns : d # c => state'[d] = state[d]
    BY <1>1, <1>2
  <2>3. \A d \in Conns : Order(state'[d], sent'[d], requests'[d], received'[d])
    <3>1. state'[c] \in {"closed", "lost"}
      BY <1>1, <1>2
    <3>2. ASSUME NEW d \in Conns, d # c
          PROVE  Order(state'[d], sent'[d], requests'[d], received'[d])
      BY <1>1, <2>2, <3>2 DEF QueueInv
    <3>3. Order(state'[c], sent'[c], requests'[c], received'[c])
      BY <3>1 DEF Order
    <3> QED
      BY <3>2, <3>3
  <2> QED
    BY <1>1, <1>2, <1>3, <2>1, <2>3 DEF QueueInv, inputs
<1>6. AnswersInOrder'
  <2>1. \A d \in Conns : state'[d] = "open" => state[d] = "open"
    BY <1>1, <1>2
  <2> QED
    BY <1>1, <2>1 DEF AnswersInOrder
<1>7. TimerInv' /\ TimedWhenIdle'
  BY <1>1, <1>2, <1>3 DEF TimerInv, TimedWhenIdle
<1> QED
  BY <1>4, <1>5, <1>6, <1>7

\* Finish of a request that is not at the head of its queue, or on a
\* connection that is closed: its answer waits.
LEMMA FinishWaits ==
  ASSUME ChannelInv, TypeOK', NEW r \in Requests, NEW c \in Conns, c = conn[r],
         r \in complete \ finished, finished' = finished \cup {r}, pc'[r] # "sent",
         \A q \in Requests : q # r => pc'[q] = pc[q],
         ~Writing(c, r),
         UNCHANGED <<requests, sent, state, timed, complete, persistent, saved, received,
                     conn, resource>>
  PROVE  ChannelInv'
<1> USE DEF ChannelInv
<1>1. \A d : InQueue(d)' = InQueue(d)
  BY DEF InQueue
<1>2. \A d \in Conns : InQueue(d) \subseteq Requests /\ requests[d] \in Seq(Requests)
  BY DEF InQueue, TypeOK, ChannelTypeOK
<1>3. pc[r] # "sent"
  BY DEF TypeOK
<1>4. QueueInv'
  <2>1. \A d \in Conns : \A q \in InQueue(d)' : conn'[q] = d /\ pc'[q] # "sent"
    BY <1>1, <1>2 DEF QueueInv
  <2>2. \A q \in Requests : pc'[q] # "sent" /\ q \notin finished' => (q \in InQueue(conn[q]))'
    BY <1>1, <1>3 DEF QueueInv
  <2>3. \A d \in Conns : \A q, p \in InQueue(d)' \ complete' :
          q = p /\ (state'[d] = "open" => persistent'[d])
    BY <1>1 DEF QueueInv
  <2>4. \A d \in Conns : /\ state'[d] = "closed" => ~persistent'[d]
                         /\ Order(state'[d], sent'[d], requests'[d], received'[d])
    BY DEF QueueInv
  <2> QED
    BY <2>1, <2>2, <2>3, <2>4 DEF QueueInv
<1>5. AnswersInOrder'
  <2>1. ASSUME NEW d \in Conns, requests[d] # <<>>, persistent[d], Head(requests[d]) = r
        PROVE  FALSE
    <3>1. r \in InQueue(d)
      BY <1>2, <2>1 DEF InQueue
    <3>2. d = c
      BY <3>1 DEF QueueInv
    <3> QED
      BY <2>1, <3>2 DEF Writing, QueueInv
  <2> QED
    BY <2>1 DEF AnswersInOrder
<1>6. TimerInv' /\ TimedWhenIdle'
  BY <1>1 DEF TimerInv, TimedWhenIdle
<1> QED
  BY <1>4, <1>5, <1>6

\* Finish of the request that writes: what is finished at the head of the queue
\* goes out.
LEMMA FinishWrites ==
  ASSUME ChannelInv, TypeOK', NEW r \in Requests, NEW c \in Conns, c = conn[r],
         r \in complete \ finished, finished' = finished \cup {r}, pc'[r] # "sent",
         \A q \in Requests : q # r => pc'[q] = pc[q],
         NEW n \in 1..Len(requests[c]), requests[c][1] = r, state[c] # "closed",
         \A i \in 1..n : requests[c][i] \in finished',
         persistent[c] /\ n < Len(requests[c]) => requests[c][n + 1] \notin finished',
         RequestsDone(c, n),
         UNCHANGED <<complete, persistent, saved, received, conn, resource>>
  PROVE  ChannelInv'
<1> USE DEF ChannelInv
<1>1. /\ \A d \in Conns : requests[d] \in Seq(Requests) /\ received[d] \in Seq(Requests)
      /\ requests \in [Conns -> Seq(Requests)]
      /\ sent \in [Conns -> Seq(Requests \cup {BadRequest})]
      /\ state \in [Conns -> {"open", "refused", "closed", "lost"}]
  BY DEF TypeOK, ChannelTypeOK
<1>2. PICK h \in Seq(Requests), t \in Seq(Requests) :
        /\ h = SubSeq(requests[c], 1, n) /\ t = SubSeq(requests[c], n + 1, Len(requests[c]))
        /\ requests[c] = h \o t /\ Len(t) = Len(requests[c]) - n
        /\ \A i \in 1..(Len(requests[c]) - n) : t[i] = requests[c][n + i]
  <2>1. requests[c] \in Seq(Requests) /\ n \in 0..Len(requests[c])
    BY <1>1
  <2> DEFINE h == SubSeq(requests[c], 1, n)
             t == SubSeq(requests[c], n + 1, Len(requests[c]))
  <2>2. /\ h \in Seq(Requests) /\ t \in Seq(Requests)
        /\ requests[c] = h \o t /\ Len(t) = Len(requests[c]) - n
        /\ \A i \in 1..(Len(requests[c]) - n) : t[i] = requests[c][n + i]
    BY <2>1, CutQueue
  <2>3. h = SubSeq(requests[c], 1, n) /\ t = SubSeq(requests[c], n + 1, Len(requests[c]))
    OBVIOUS
  <2> HIDE DEF h, t
  <2> QED
    BY <2>2, <2>3
<1>3. /\ requests' = [requests EXCEPT ![c] = t]
      /\ sent' = IF state[c] \in {"open", "refused"} THEN [sent EXCEPT ![c] = @ \o h] ELSE sent
      /\ state' = IF persistent[c] THEN state ELSE [state EXCEPT ![c] = "closed"]
      /\ timed' = IF persistent[c] /\ n = Len(requests[c]) /\ c \in saved THEN timed \cup {c}
                  ELSE timed
  BY <1>2 DEF RequestsDone
<1>4. Len(requests[c]) \in Nat /\ DOMAIN requests[c] = 1..Len(requests[c])
  BY <1>1
<1>5. /\ InQueue(c)' \subseteq InQueue(c) /\ InQueue(c) \subseteq InQueue(c)' \cup finished'
      /\ \A d \in Conns : d # c => InQueue(d)' = InQueue(d)
  <2>1. requests'[c] = t /\ DOMAIN t = 1..(Len(requests[c]) - n)
    BY <1>1, <1>2, <1>3, <1>4
  <2>2. \A i \in DOMAIN t : n + i \in DOMAIN requests[c] /\ t[i] = requests[c][n + i]
    BY <1>2, <1>4, <2>1
  <2>3. InQueue(c)' \subseteq InQueue(c)
    BY <2>1, <2>2 DEF InQueue
  <2>4. ASSUME NEW i \in DOMAIN requests[c], i > n PROVE requests[c][i] \in InQueue(c)'
    <3>1. i - n \in DOMAIN t /\ n + (i - n) = i
      BY <1>4, <2>1, <2>4
    <3>2. t[i - n] = requests[c][i]
      BY <2>2, <3>1
    <3> QED
      BY <2>1, <3>1, <3>2 DEF InQueue
  <2>5. InQueue(c) \subseteq InQueue(c)' \cup finished'
    BY <1>4, <2>4 DEF InQueue
  <2>6. ASSUME NEW d \in Conns, d # c PROVE InQueue(d)' = InQueue(d)
    <3>1. requests'[d] = requests[d]
      BY <1>1, <1>3, <2>6
    <3> QED
      BY <3>1 DEF InQueue
  <2> QED
    BY <2>3, <2>5, <2>6
<1>6. \A d \in Conns : InQueue(d) \subseteq Requests
  BY <1>1 DEF InQueue
<1>7. state[c] \in {"open", "refused"} => /\ Order(state[c], sent'[c], t, received[c])
                                        /\ Turn(state[c], sent'[c], received[c])
  <2> SUFFICES ASSUME state[c] \in {"open", "refused"}
               PROVE  /\ Order(state[c], sent'[c], t, received[c])
                      /\ Turn(state[c], sent'[c], received[c])
    OBVIOUS
  <2>1. Order(state[c], sent[c], requests[c], received[c]) /\ sent'[c] = sent[c] \o h
    BY <1>1, <1>3 DEF QueueInv
  <2>2. h \in Seq(Requests) /\ t \in Seq(Requests) /\ requests[c] = h \o t
    BY <1>2
  <2>3. Order(state[c], sent'[c], t, received[c])
    <3>1. Order(state[c], sent[c] \o h, t, received[c])
      BY <2>1, <2>2, HandOver, Zenon
    <3> QED
      BY <2>1, <3>1, Zenon
  <2> QED
    BY <2>2, <2>3, OrderGivesTurn
<1>8. QueueInv'
  <2>1. \A d \in Conns : \A q \in InQueue(d)' : conn'[q] = d /\ pc'[q] # "sent"
    BY <1>5, <1>6 DEF QueueInv
  <2>2. ASSUME NEW q \in Requests, pc'[q] # "sent", q \notin finished'
        PROVE  (q \in InQueue(conn[q]))'
    <3>1. PICK d \in Conns : d = conn[q] /\ d = conn'[q]
      BY DEF TypeOK
    <3>2. q \in InQueue(d)
      BY <2>2, <3>1 DEF QueueInv, TypeOK
    <3>3. q \in InQueue(d)'
      BY <1>5, <2>2, <3>2
    <3> QED
      BY <3>1, <3>3
  <2>3. \A d \in Conns : \A q, p \in InQueue(d)' \ complete' :
          q = p /\ (state'[d] = "open" => persistent'[d])
    <3>1. \A d \in Conns : state'[d] = "open" => state[d] = "open"
      BY <1>1, <1>3
    <3> QED
      BY <1>5, <3>1 DEF QueueInv
  <2>4. \A d \in Conns : state'[d] = "closed" => ~persistent'[d]
    BY <1>1, <1>3 DEF QueueInv
  <2>5. ASSUME NEW d \in Conns PROVE Order(state'[d], sent'[d], requests'[d], received'[d])
    <3>1. CASE d = c /\ state'[c] \in {"open", "refused"}
      <4>1. state'[c] = state[c] /\ requests'[c] = t /\ received'[c] = received[c]
        BY <1>1, <1>3, <3>1
      <4> QED
        BY <1>7, <3>1, <4>1
    <3>2. CASE d # c
      <4>1. /\ state'[d] = state[d] /\ sent'[d] = sent[d]
            /\ requests'[d] = requests[d] /\ received'[d] = received[d]
        BY <1>1, <1>3, <3>2
      <4> QED
        BY <4>1 DEF QueueInv
    <3>3. CASE d = c /\ state'[c] \notin {"open", "refused"}
      BY <3>3 DEF Order
    <3> QED
      BY <3>1, <3>2, <3>3
  <2> QED
    BY <2>1, <2>2, <2>3, <2>4, <2>5 DEF QueueInv
<1>9. AnswersInOrder'
  <2>1. ASSUME NEW d \in Conns PROVE Turn(state'[d], sent'[d], received'[d])
    <3>1. state'[d] \in {state[d], "closed"} /\ received'[d] = received[d]
      BY <1>1, <1>3
    <3>2. Turn(state[d], sent'[d], received[d])
      <4>1. CASE d = c /\ state[c] \in {"open", "refused"}
        BY <1>7, <4>1
      <4>2. CASE ~(d = c /\ state[c] \in {"open", "refused"})
        <5>1. sent'[d] = sent[d]
          BY <1>1, <1>3, <4>2
        <5> QED
          BY <5>1 DEF AnswersInOrder, Turn
      <4> QED
        BY <4>1, <4>2
    <3> QED
      BY <3>1, <3>2 DEF Turn
  <2>2. ASSUME NEW d \in Conns, requests'[d] # <<>>, persistent'[d]
        PROVE  Head(requests'[d]) \notin finished'
    <3>1. CASE d = c
      <4>1. requests'[d] = t /\ Len(t) > 0 /\ n < Len(requests[c])
        BY <1>1, <1>2, <1>3, <1>4, <2>2, <3>1
      <4>2. Head(t) = requests[c][n + 1]
        BY <1>2, <1>4, <4>1
      <4> QED
        BY <2>2, <3>1, <4>1, <4>2
    <3>2. CASE d # c
      <4>1. requests'[d] = requests[d] /\ requests[d] # <<>> /\ persistent[d]
        BY <1>1, <1>3, <2>2, <3>2
      <4>2. Head(requests[d]) \notin finished
        BY <4>1 DEF AnswersInOrder
      <4>3. Head(requests[d]) \in InQueue(d)
        BY <1>1, <4>1 DEF InQueue
      <4>4. r \notin InQueue(d)
        BY <3>2 DEF QueueInv
      <4> QED
        BY <4>1, <4>2, <4>3, <4>4
    <3> QED
      BY <3>1, <3>2
  <2> QED
    BY <2>1, <2>2 DEF AnswersInOrder, Turn
<1>10. TimerInv' /\ TimedWhenIdle'
  <2>1. requests'[c] = <<>> <=> n = Len(requests[c])
    <3>1. requests'[c] = t
      BY <1>1, <1>3
    <3>2. t = <<>> <=> Len(t) = 0
      BY EmptySeq
    <3>3. Len(t) = 0 <=> n = Len(requests[c])
      BY <1>2, <1>4
    <3> QED
      BY <3>1, <3>2, <3>3
  <2>2. TimerInv'
    BY <1>1, <1>3 DEF TimerInv
  <2>3. ASSUME NEW d \in Conns, state'[d] = "open", requests'[d] = <<>> PROVE d \in timed'
    BY <1>1, <1>3, <2>1, <2>3 DEF TimedWhenIdle, TimerInv
  <2>4. ASSUME NEW d \in Conns, d \in timed' PROVE InQueue(d)' \cap complete' = {}
    <3>1. CASE d \in timed
      BY <1>5, <3>1 DEF TimedWhenIdle
    <3>2. CASE d \notin timed
      <4>1. d = c /\ requests'[c] = <<>>
        BY <1>3, <2>1, <2>4, <3>2
      <4> QED
        BY <4>1 DEF InQueue
    <3> QED
      BY <3>1, <3>2
  <2> QED
    BY <2>2, <2>3, <2>4 DEF TimedWhenIdle
<1> QED
  BY <1>8, <1>9, <1>10

\* An answer is written now, or when those before it are.
LEMMA AnswerKeeps ==
  ASSUME ChannelInv, NEW r \in Requests, Answer(r)
  PROVE  ChannelInv'
<1> USE DEF ChannelInv
<1>0. PICK c \in Conns : c = conn[r]
  BY DEF TypeOK
<1>1. /\ pc[r] = "answer" /\ r \in complete \ finished /\ finished' = finished \cup {r}
      /\ pc' = [pc EXCEPT ![r] = "answered"] /\ Finish(c, r)
      /\ status' \in {status, [status EXCEPT ![r] = "FAIL"]}
      /\ UNCHANGED <<complete, persistent, saved, received, conn, resource, initd, now, time,
                     begun, mute>>
  BY <1>0 DEF Answer, Finish, Goto, inputs
<1>2. requests[c] \in Seq(Requests) /\ r \in InQueue(c)
  BY <1>0, <1>1 DEF TypeOK, ChannelTypeOK, QueueInv
<1>3. Len(requests[c]) \in Nat \ {0} /\ requests[c] # <<>>
      /\ Head(requests[c]) = requests[c][1]
  BY <1>2 DEF InQueue
<1>4. CASE ~Writing(c, r)
  <2>1. UNCHANGED <<requests, sent, state, timed>>
    BY <1>1, <1>4 DEF Finish
  <2>2. ChannelTypeOK'
    BY <1>1, <2>1 DEF TypeOK, ChannelTypeOK
  <2>3. TypeOK'
    BY <1>1, <2>2 DEF TypeOK
  <2>4. /\ pc'[r] # "sent" /\ \A q \in Requests : q # r => pc'[q] = pc[q]
    BY <1>1 DEF TypeOK
  <2> QED
    BY <1>0, <1>1, <1>4, <2>1, <2>3, <2>4, FinishWaits
<1>5. CASE Writing(c, r)
  <2> DEFINE n == IF persistent[c] THEN DoneLength(requests[c], finished') ELSE 1
  <2>1. /\ DoneLength(requests[c], finished') \in 0..Len(requests[c])
        /\ \A i \in 1..DoneLength(requests[c], finished') : requests[c][i] \in finished'
        /\ DoneLength(requests[c], finished') < Len(requests[c]) =>
             requests[c][DoneLength(requests[c], finished') + 1] \notin finished'
    BY <1>2, DoneLengthProperties
  <2>2. requests[c][1] = r /\ state[c] # "closed" /\ r \in finished'
    BY <1>1, <1>3, <1>5 DEF Writing
  <2>3. DoneLength(requests[c], finished') # 0
    BY <1>3, <2>1, <2>2
  <2>4. /\ n \in 1..Len(requests[c]) /\ \A i \in 1..n : requests[c][i] \in finished'
        /\ persistent[c] /\ n < Len(requests[c]) => requests[c][n + 1] \notin finished'
    BY <1>3, <2>1, <2>2, <2>3
  <2>5. RequestsDone(c, n)
    BY <1>1, <1>5 DEF Finish
  <2> HIDE DEF n
  <2>6. ChannelTypeOK'
    <3>1. /\ SubSeq(requests[c], 1, n) \in Seq(Requests)
          /\ SubSeq(requests[c], n + 1, Len(requests[c])) \in Seq(Requests)
      BY <1>2, <1>3, <2>4, CutQueue
    <3>2. PICK h \in Seq(Requests), t \in Seq(Requests) :
            /\ h = SubSeq(requests[c], 1, n)
            /\ t = SubSeq(requests[c], n + 1, Len(requests[c]))
      BY <3>1
    <3>3. /\ requests' = [requests EXCEPT ![c] = t]
          /\ sent' = IF state[c] \in {"open", "refused"}
                     THEN [sent EXCEPT ![c] = @ \o h] ELSE sent
          /\ state' = IF persistent[c] THEN state ELSE [state EXCEPT ![c] = "closed"]
          /\ timed' \subseteq timed \cup {c}
      BY <2>5, <3>2 DEF RequestsDone
    <3>4. requests' \in [Conns -> Seq(Requests)]
      BY <3>2, <3>3 DEF TypeOK, ChannelTypeOK
    <3>5. sent[c] \o h \in Seq(Requests \cup {BadRequest})
      <4>1. h \in Seq(Requests \cup {BadRequest}) /\ sent[c] \in Seq(Requests \cup {BadRequest})
        BY <3>2 DEF TypeOK, ChannelTypeOK
      <4> QED
        BY <4>1, ConcatProperties
    <3>6. sent' \in [Conns -> Seq(Requests \cup {BadRequest})]
      BY <3>3, <3>5 DEF TypeOK, ChannelTypeOK
    <3>7. state' \in [Conns -> {"open", "refused", "closed", "lost"}] /\ timed' \subseteq Conns
      BY <3>3 DEF TypeOK, ChannelTypeOK
    <3> QED
      BY <1>1, <3>4, <3>6, <3>7 DEF TypeOK, ChannelTypeOK
  <2>7. TypeOK'
    BY <1>1, <2>6 DEF TypeOK
  <2>8. /\ pc'[r] # "sent" /\ \A q \in Requests : q # r => pc'[q] = pc[q]
    BY <1>1 DEF TypeOK
  <2> QED
    BY <1>0, <1>1, <2>2, <2>4, <2>5, <2>7, <2>8, FinishWrites
<1> QED
  BY <1>4, <1>5

-----------------------------------------------------------------------------
(* The other steps.                                                        *)

\* Every step keeps the invariant of the channels.
LEMMA NextKeepsChannelInv ==
  ASSUME ChannelInv, [Next]_vars
  PROVE  ChannelInv'
<1> USE DEF ChannelInv
<1>1. ASSUME UNCHANGED <<channelVars, inputs, now, time, begun>>, NEW p,
             p \in [Requests -> {"init", "initializing", "fetch_user", "sign", "check", "auth",
                                 "answer", "mute"} \cup {"sent", "begun", "answered", "refused"}],
             pc' = p,
             \A r \in Requests : p[r] = pc[r] \/ {p[r], pc[r]} \cap {"sent", "begun", "answered", "refused"} = {},
             status' \in [Requests -> {None, "FAIL"}],
             initd' \in [Resources -> {"no", "pending", "root", "done"}]
      PROVE  ChannelInv'
  <2>1. ChannelTypeOK'
    BY <1>1 DEF TypeOK, ChannelTypeOK, channelVars
  <2>2. \A r \in Requests : \A s \in {"sent", "begun", "answered", "refused"} : pc'[r] = s <=> pc[r] = s
    BY <1>1
  <2>3. TypeOK'
    BY <1>1, <2>1, <2>2 DEF TypeOK, channelVars, inputs
  <2> QED
    BY <1>1, <2>2, <2>3, ChannelUnchanged
<1>2. ASSUME NEW r \in Requests, Step(r) PROVE ChannelInv'
  <2>1. CASE AuthInit(r)
    BY <1>1, <2>1 DEF AuthInit, Goto, quiet, TypeOK
  <2>2. CASE FetchUser(r)
    BY <1>1, <2>2 DEF FetchUser, Continue, Goto, quiet, TypeOK
  <2>3. CASE Sign(r)
    BY <1>1, <2>3 DEF Sign, Continue, Goto, quiet, TypeOK
  <2>4. CASE Check(r)
    BY <1>1, <2>4 DEF Check, Continue, Goto, quiet, TypeOK
  <2>5. CASE Auth(r)
    BY <1>1, <2>5 DEF Auth, Continue, Goto, quiet, TypeOK
  <2>6. CASE AuthNeverFires(r)
    BY <1>1, <2>6 DEF AuthNeverFires, Goto, quiet, TypeOK
  <2>7. CASE WriteFailRaises(r)
    BY <1>1, <2>7 DEF WriteFailRaises, Goto, quiet, TypeOK
  <2> QED
    BY <1>2, <2>1, <2>2, <2>3, <2>4, <2>5, <2>6, <2>7, AnswerKeeps DEF Step
<1>3. ASSUME NEW s \in Resources, CreateRoot(s) \/ CreateGuest(s) PROVE ChannelInv'
  <2>1. CASE CreateRoot(s)
    BY <1>1, <2>1 DEF CreateRoot, quiet, TypeOK
  <2>2. CASE CreateGuest(s)
    BY <1>1, <2>2 DEF CreateGuest, quiet, TypeOK
  <2> QED
    BY <1>3, <2>1, <2>2
<1>4. CASE Tick
  <2>1. TypeOK'
    BY <1>4, RestAssumption DEF Tick, TypeOK, ChannelTypeOK, channelVars, inputs
  <2> QED
    BY <1>4, <2>1, ChannelUnchanged DEF Tick
<1>5. CASE UNCHANGED vars
  <2>1. TypeOK'
    BY <1>5 DEF vars, TypeOK, ChannelTypeOK, channelVars
  <2> QED
    BY <1>5, <2>1, ChannelUnchanged DEF vars, inputs
<1> QED
  BY <1>2, <1>3, <1>4, <1>5, FirstLineKeeps, ReceiveKeeps, TooManyHeadersKeeps,
     LostKeeps DEF Next

\* The channels' invariant holds in every behaviour.
LEMMA ChannelInvHolds == Spec => []ChannelInv
<1>1. Init => ChannelInv
  BY InitChannelInv
<1>2. ChannelInv /\ [Next]_vars => ChannelInv'
  BY NextKeepsChannelInv
<1> QED
  BY <1>1, <1>2, PTL DEF Spec

-----------------------------------------------------------------------------
(* The theorems.                                                           *)

\* A request is complete once it was rendered, finished once it was answered,
\* and the channels keep requests only (http.py, HTTPChannel).
THEOREM Types == Spec => []TypeOK
<1>1. ChannelInv => TypeOK
  BY DEF ChannelInv
<1> QED
  BY <1>1, ChannelInvHolds, PTL

\* Answers go out in the order the requests came in, but for one 400 that the
\* channel writes out of turn before it closes, and none that could go out is held
\* back (http.py, lineReceived, headerReceived, requestDone).
THEOREM AnswersGoOutInOrder == Spec => []AnswersInOrder
<1>1. ChannelInv => AnswersInOrder
  BY DEF ChannelInv
<1> QED
  BY <1>1, ChannelInvHolds, PTL

\* The timer of a channel runs whenever nothing is asked of it, and never while
\* a request is worked on (http.py:1387, 1468).
THEOREM TimerOfIdleChannels == Spec => []TimedWhenIdle
<1>1. ChannelInv => TimedWhenIdle
  BY DEF ChannelInv
<1> QED
  BY <1>1, ChannelInvHolds, PTL

\* The first lookup of a user waits for the built-in ones, for any number of
\* requests that come while they are made (auth.py:33-49).
THEOREM BuiltinUsersFirst == Spec => []BuiltinUsersMade
<1>1. Init => BuiltinUsersMade
  BY DEF Init, BuiltinUsersMade
<1>2. TypeOK /\ BuiltinUsersMade /\ [Next]_vars => BuiltinUsersMade'
  <2> SUFFICES ASSUME TypeOK, BuiltinUsersMade, [Next]_vars PROVE BuiltinUsersMade'
    OBVIOUS
  <2> USE DEF BuiltinUsersMade
  <2>1. ASSUME NEW r \in Requests, Step(r) PROVE BuiltinUsersMade'
    <3>1. CASE AuthInit(r)
      BY <3>1 DEF AuthInit, Goto, quiet, inputs, TypeOK
    <3>2. CASE FetchUser(r) \/ Sign(r) \/ Check(r) \/ Auth(r)
      BY <3>2 DEF FetchUser, Sign, Check, Auth, Continue, Goto, quiet, inputs, TypeOK
    <3>3. CASE AuthNeverFires(r) \/ WriteFailRaises(r) \/ Answer(r)
      BY <3>3 DEF AuthNeverFires, WriteFailRaises, Answer, Goto, quiet, inputs, TypeOK
    <3> QED
      BY <2>1, <3>1, <3>2, <3>3 DEF Step
  <2>2. ASSUME NEW s \in Resources, CreateRoot(s) \/ CreateGuest(s) PROVE BuiltinUsersMade'
    <3>1. CASE CreateRoot(s)
      BY <3>1 DEF CreateRoot, quiet, inputs, TypeOK
    <3>2. CASE CreateGuest(s)
      BY <3>2 DEF CreateGuest, quiet, inputs, TypeOK
    <3> QED
      BY <2>2, <3>1, <3>2
  <2>3. ASSUME NEW r \in Requests, NEW keep \in BOOLEAN, NEW bad \in BOOLEAN,
               FirstLine(r, bad) \/ TooManyHeaders(r, keep) \/ RefusePart(r, keep)
                 \/ Render(r, keep, bad)
        PROVE  BuiltinUsersMade'
    BY <2>3 DEF FirstLine, TooManyHeaders, RefusePart, Render, Goto, inputs, TypeOK
  <2>4. CASE Tick \/ (\E c \in Conns : Lost(c)) \/ UNCHANGED vars
    BY <2>4 DEF Tick, Lost, vars, inputs
  <2> QED
    BY <2>1, <2>2, <2>3, <2>4 DEF Next
<1> QED
  BY <1>1, <1>2, Types, PTL DEF Spec

\* A resource has the time of the last of the requests it was rendered for.
TimeInv ==
  /\ \A r \in Requests : pc[r] \notin {"sent", "begun", "refused"} => begun[r] # None
  /\ \A s \in Resources : time[s] <= now
  /\ \A r \in Requests : begun[r] # None =>
       /\ begun[r] <= time[resource[r]]
       /\ \E q \in Requests : resource[q] = resource[r] /\ begun[q] = time[resource[r]]

LEMMA TimeInvHolds == Spec => []TimeInv
<1>1. Init => TimeInv
  BY DEF Init, TimeInv
<1>2. TypeOK /\ TimeInv /\ [Next]_vars => TimeInv'
  <2> SUFFICES ASSUME TypeOK, TimeInv, [Next]_vars PROVE TimeInv'
    OBVIOUS
  <2> USE DEF TimeInv
  <2>1. ASSUME UNCHANGED <<resource, time, begun>>, now' \in Nat, now <= now',
               \A r \in Requests : pc[r] \in {"sent", "begun", "refused"} =>
                                    pc'[r] \in {"sent", "begun", "refused"}
        PROVE  TimeInv'
    BY <2>1, RestAssumption DEF TypeOK
  <2>2. ASSUME UNCHANGED <<resource, time, begun, now>>,
               \A r \in Requests : pc[r] \in {"sent", "begun", "refused"} =>
                                    pc'[r] \in {"sent", "begun", "refused"}
        PROVE  TimeInv'
    BY <2>2
  <2>3. ASSUME NEW r \in Requests, Step(r) PROVE TimeInv'
    <3>1. CASE AuthInit(r)
      BY <2>2, <3>1 DEF AuthInit, Goto, quiet, inputs, TypeOK
    <3>2. CASE FetchUser(r) \/ Sign(r) \/ Check(r) \/ Auth(r)
      BY <2>2, <3>2 DEF FetchUser, Sign, Check, Auth, Continue, Goto, quiet, inputs, TypeOK
    <3>3. CASE AuthNeverFires(r) \/ WriteFailRaises(r) \/ Answer(r)
      BY <2>2, <3>3 DEF AuthNeverFires, WriteFailRaises, Answer, Goto, quiet, inputs, TypeOK
    <3> QED
      BY <2>3, <3>1, <3>2, <3>3 DEF Step
  <2>4. ASSUME NEW s \in Resources, CreateRoot(s) \/ CreateGuest(s) PROVE TimeInv'
    <3>1. CASE CreateRoot(s)
      BY <2>2, <3>1 DEF CreateRoot, quiet, inputs
    <3>2. CASE CreateGuest(s)
      BY <2>2, <3>2 DEF CreateGuest, quiet, inputs, TypeOK
    <3> QED
      BY <2>4, <3>1, <3>2
  <2>5. ASSUME NEW r \in Requests, NEW keep \in BOOLEAN, NEW bad \in BOOLEAN,
               FirstLine(r, bad) \/ TooManyHeaders(r, keep) \/ RefusePart(r, keep)
        PROVE  TimeInv'
    <3>1. CASE FirstLine(r, bad)
      BY <2>2, <3>1 DEF FirstLine, Goto, inputs, TypeOK
    <3>2. CASE TooManyHeaders(r, keep)
      BY <2>2, <3>2 DEF TooManyHeaders, Goto, inputs, TypeOK
    <3>3. CASE RefusePart(r, keep)
      BY <2>2, <3>3 DEF RefusePart, Goto, inputs, TypeOK
    <3> QED
      BY <2>5, <3>1, <3>2, <3>3
  <2>6. ASSUME NEW r \in Requests, NEW keep \in BOOLEAN, NEW bad \in BOOLEAN, Render(r, keep, bad)
        PROVE  TimeInv'
    <3>1. /\ pc' = [pc EXCEPT ![r] = "init"] /\ time' = [time EXCEPT ![resource[r]] = now]
          /\ begun' = [begun EXCEPT ![r] = now] /\ now' = now /\ resource' = resource
      BY <2>6 DEF Render, Goto, inputs
    <3>2. /\ now \in Nat /\ now # None /\ time \in [Resources -> Nat]
          /\ resource \in [Requests -> Resources] /\ begun \in [Requests -> Nat \cup {None}]
      BY RestAssumption DEF TypeOK
    <3>3. /\ time'[resource[r]] = now /\ begun'[r] = now
          /\ \A q \in Requests : q # r => begun'[q] = begun[q]
          /\ \A s \in Resources : s # resource[r] => time'[s] = time[s]
      BY <3>1, <3>2 DEF TypeOK
    <3>4. \A q \in Requests : pc'[q] \notin {"sent", "begun", "refused"} => begun'[q] # None
      BY <3>1, <3>2, <3>3 DEF TypeOK
    <3>5. \A s \in Resources : time'[s] <= now
      BY <3>2, <3>3
    <3>6. ASSUME NEW q \in Requests, begun'[q] # None
          PROVE  /\ begun'[q] <= time'[resource[q]]
                 /\ \E p \in Requests : resource[p] = resource[q] /\ begun'[p] = time'[resource[q]]
      <4>1. CASE resource[q] = resource[r]
        <5>1. begun'[q] <= now
          BY <3>2, <3>3, <3>6
        <5> QED
          BY <3>3, <4>1, <5>1
      <4>2. CASE resource[q] # resource[r]
        <5>1. /\ begun[q] <= time[resource[q]] /\ time'[resource[q]] = time[resource[q]]
              /\ begun'[q] = begun[q]
          BY <3>2, <3>3, <3>6, <4>2
        <5>2. PICK p \in Requests : resource[p] = resource[q] /\ begun[p] = time[resource[q]]
          BY <3>6, <5>1
        <5>3. begun'[p] = begun[p]
          BY <3>3, <4>2, <5>2
        <5> QED
          BY <5>1, <5>2, <5>3
      <4> QED
        BY <4>1, <4>2
    <3> QED
      BY <3>1, <3>4, <3>5, <3>6
  <2>7. CASE Tick
    BY <2>1, <2>7 DEF Tick, inputs, TypeOK
  <2>8. CASE (\E c \in Conns : Lost(c)) \/ UNCHANGED vars
    BY <2>2, <2>8 DEF Lost, vars, inputs
  <2> QED
    BY <2>3, <2>4, <2>5, <2>6, <2>7, <2>8 DEF Next
<1> QED
  BY <1>1, <1>2, Types, PTL DEF Spec

\* The time an answer reports is too short only when the resource was rendered
\* for another request meanwhile, and never too long (resource.py:25, 43, 60).
THEOREM TimeOfAnswers == Spec => []ReportedTime
<1>1. TypeOK /\ TimeInv => ReportedTime
  <2> SUFFICES ASSUME TypeOK, TimeInv, NEW r \in Requests, pc[r] = "answer"
               PROVE  /\ Reported(r) <= now - begun[r]
                      /\ \/ Reported(r) = now - begun[r]
                         \/ \E q \in Requests \ {r} : /\ resource[q] = resource[r]
                                                      /\ begun[q] # None /\ begun[q] > begun[r]
    BY DEF ReportedTime
  <2>1. begun[r] # None
    BY DEF TimeInv
  <2>2. /\ now \in Nat /\ begun[r] \in Nat /\ time[resource[r]] \in Nat
        /\ begun[r] <= time[resource[r]]
    BY <2>1, RestAssumption DEF TypeOK, TimeInv
  <2>3. PICK q \in Requests : resource[q] = resource[r] /\ begun[q] = time[resource[r]]
    BY <2>1 DEF TimeInv
  <2>4. begun[q] # None
    BY <2>2, <2>3, RestAssumption
  <2> QED
    BY <2>2, <2>3, <2>4 DEF Reported
<1> QED
  BY <1>1, Types, TimeInvHolds, PTL

=============================================================================
