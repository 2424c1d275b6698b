---------------------------- MODULE HttpChannel ----------------------------
(***************************************************************************)
(* The server's side of an HTTP connection, twisted/web/http.py: a channel *)
(* keeps the requests of its connection in a queue.  The first of them     *)
(* writes to the connection, the others to buffers until it is their turn. *)
(* A timer closes a connection on which nothing is asked for.  A request   *)
(* the channel itself finds bad is not queued up to be answered: the 400   *)
(* goes to the connection at once, which is told to close and read from no *)
(* more, but still written to until it is gone.                            *)
(*                                                                         *)
(* A component: RestRequest says what is done between a request's arrival  *)
(* and its finish.                                                         *)
(***************************************************************************)
EXTENDS Naturals, Sequences, FiniteSets

CONSTANTS Conns, Requests, BadRequest

\* The 400 is no request.
ASSUME ChannelAssumption == BadRequest \notin Requests

VARIABLES state,      \* of each connection: refused, closed by the server, or lost
          requests,   \* the queue of each channel
          complete,   \* the requests whose content has come in
          finished,   \* the requests whose answer is written
          persistent, \* whether the connection stays open after an answer
          timed,      \* the channels whose timer runs
          saved,      \* those that remember how long it has to run
          received,   \* the requests of each connection in the order they came
          sent        \* what has gone out: the requests answered, and the 400

channelVars == <<state, requests, complete, finished, persistent, timed, saved, received,
                 sent>>

InQueue(c) == {requests[c][i] : i \in DOMAIN requests[c]}

ChannelTypeOK ==
  /\ state \in [Conns -> {"open", "refused", "closed", "lost"}]
  /\ requests \in [Conns -> Seq(Requests)]
  /\ complete \subseteq Requests /\ finished \subseteq complete
  /\ persistent \in [Conns -> BOOLEAN]
  /\ timed \subseteq Conns /\ saved \subseteq Conns
  /\ received \in [Conns -> Seq(Requests)]
  /\ sent \in [Conns -> Seq(Requests \cup {BadRequest})]

ChannelInit ==
  /\ state = [c \in Conns |-> "open"]
  /\ requests = [c \in Conns |-> <<>>]
  /\ complete = {} /\ finished = {}
  /\ persistent = [c \in Conns |-> TRUE]
  /\ timed = Conns /\ saved = {}
  /\ received = [c \in Conns |-> <<>>]
  /\ sent = [c \in Conns |-> <<>>]

\* A bad request is answered by the channel, ahead of all that wait.
WriteBadRequest(c, bad) ==
  IF bad THEN /\ sent' = [sent EXCEPT ![c] = Append(@, BadRequest)]
              /\ state' = [state EXCEPT ![c] = "refused"]
         ELSE UNCHANGED <<state, sent>>

\* The first line of a request: it joins the queue, also when it is bad.
Begin(c, r, bad) ==
  /\ state[c] = "open"
  /\ persistent[c]
  /\ InQueue(c) \subseteq complete
  /\ requests' = [requests EXCEPT ![c] = Append(@, r)]
  /\ received' = [received EXCEPT ![c] = Append(@, r)]
  /\ WriteBadRequest(c, bad)
  /\ UNCHANGED <<complete, finished, persistent, timed, saved>>

\* Too many headers, found before the request is complete.
RefuseHeaders(c, r, keep) ==
  /\ state[c] = "open"
  /\ r \in InQueue(c) \ complete
  /\ persistent' = [persistent EXCEPT ![c] = keep]
  /\ WriteBadRequest(c, TRUE)
  /\ UNCHANGED <<requests, complete, finished, timed, saved, received>>

ReceiveSaving(c, r, keep, bad, remembered) ==
  /\ state[c] = "open"
  /\ r \in InQueue(c) \ complete
  /\ complete' = complete \cup {r}
  /\ persistent' = [persistent EXCEPT ![c] = keep]
  /\ timed' = timed \ {c}
  /\ saved' = remembered
  /\ WriteBadRequest(c, bad)
  /\ UNCHANGED <<requests, finished, received>>

\* Saves what the timer has, also when it has nothing.
ReceiveSavesAlways(c, r, keep, bad) ==
  ReceiveSaving(c, r, keep, bad, IF c \in timed THEN saved \cup {c} ELSE saved \ {c})

\* The headers, which say whether to keep the connection, and the content: the
\* timer, if it runs, is put off until the request is answered.  Too many headers
\* of a request without content, or a bad part of the content, are a bad request.
Receive(c, r, keep, bad) ==
  ReceiveSaving(c, r, keep, bad, IF c \in timed THEN saved \cup {c} ELSE saved)

\* How many requests at the head of a queue are finished.
DoneLength(q, done) == Cardinality({n \in DOMAIN q : \A i \in 1..n : q[i] \in done})

\* requestDone for the first n of the queue.
RequestsDone(c, n) ==
  /\ requests' = [requests EXCEPT ![c] = SubSeq(@, n + 1, Len(@))]
  /\ sent' = IF state[c] \in {"open", "refused"}
             THEN [sent EXCEPT ![c] = @ \o SubSeq(requests[c], 1, n)]
             ELSE sent
  /\ state' = IF persistent[c] THEN state ELSE [state EXCEPT ![c] = "closed"]
  /\ timed' = IF persistent[c] /\ n = Len(requests[c]) /\ c \in saved THEN timed \cup {c}
              ELSE timed

\* The first in the queue is not queued; what a close has left behind is for
\* ever.
Writing(c, r) == Head(requests[c]) = r /\ state[c] # "closed"

\* A finish that hands over to the next request and forgets what it has
\* finished already.
FinishHandsOverOnce(c, r) ==
  /\ r \in complete \ finished
  /\ finished' = finished \cup {r}
  /\ IF Writing(c, r) THEN RequestsDone(c, 1)
     ELSE UNCHANGED <<requests, sent, state, timed>>
  /\ UNCHANGED <<complete, persistent, saved, received>>

\* request.finish, and requestDone when it is the first in the queue: on a
\* connection that is kept the next one takes over, which may be finished
\* already; any other connection is closed.
Finish(c, r) ==
  /\ r \in complete \ finished
  /\ finished' = finished \cup {r}
  /\ IF Writing(c, r)
     THEN RequestsDone(c, IF persistent[c] THEN DoneLength(requests[c], finished') ELSE 1)
     ELSE UNCHANGED <<requests, sent, state, timed>>
  /\ UNCHANGED <<complete, persistent, saved, received>>

\* Nothing has been asked for too long, the client goes away, or all is written
\* that there was before a 400.  The requests
\* are told, which changes nothing for them.
ConnectionLost(c) ==
  /\ state[c] \in {"open", "refused"} \/ c \in timed
  /\ state' = [state EXCEPT ![c] = IF @ = "closed" THEN @ ELSE "lost"]
  /\ timed' = timed \ {c}
  /\ UNCHANGED <<requests, complete, finished, persistent, saved, received, sent>>

=============================================================================
