---------------------------- MODULE RestRequest ----------------------------
(***************************************************************************)
(* A request of the REST interface from its first line to its answer:      *)
(* resource/resource.py (ResourceBase, AuthResource, UserResourceBase) and *)
(* service/auth.py on top of HttpChannel.                                  *)
(*                                                                         *)
(* Requests meet at three places: in the queue of their connection, in the *)
(* AuthService of their resource, which makes root and guest once, and in  *)
(* the resource itself, which keeps the time it was rendered last.  The    *)
(* resources that api.py makes (me, users, gomees, targets) serve every    *)
(* request to their path; the others are made for one request.             *)
(*                                                                         *)
(* What a handler does is the other modules' subject: here it answers,     *)
(* fails, or never fires (target.py:118).                                  *)
(***************************************************************************)
EXTENDS HttpChannel, SequencesExt

CONSTANTS Resources, MaxTime, None

ASSUME RestAssumption == MaxTime \in Nat /\ None \notin Nat

VARIABLES conn,     \* the connection of each request
          resource, \* the resource object of each request
          pc,       \* where each request is
          status,   \* what it will be answered, None as long as it works
          initd,    \* AuthService.init of each resource
          now,      \* time.time()
          time,     \* resource.time
          begun,    \* when each request was rendered, None before
          mute      \* requests that will never be answered

vars == <<channelVars, conn, resource, pc, status, initd, now, time, begun,
          mute>>

inputs == <<conn, resource>>

TypeOK ==
  /\ ChannelTypeOK
  /\ conn \in [Requests -> Conns] /\ resource \in [Requests -> Resources]
  /\ pc \in [Requests -> {"sent", "begun", "init", "initializing", "fetch_user", "sign",
                          "check", "auth", "answer", "mute", "answered", "refused"}]
  /\ status \in [Requests -> {None, "FAIL"}]
  /\ initd \in [Resources -> {"no", "pending", "root", "done"}]
  /\ now \in 0..MaxTime
  /\ time \in [Resources -> 0..MaxTime]
  /\ begun \in [Requests -> 0..MaxTime \cup {None}]
  /\ \A r \in Requests : /\ r \in complete => pc[r] \notin {"sent", "begun"}
                         /\ pc[r] \notin {"sent", "begun", "refused"} => r \in complete
                         /\ r \in finished <=> pc[r] = "answered"

Init ==
  /\ ChannelInit
  /\ conn \in [Requests -> Conns]
  /\ resource \in [Requests -> Resources]
  /\ pc = [r \in Requests |-> "sent"]
  /\ status = [r \in Requests |-> None]
  /\ initd = [s \in Resources |-> "no"]
  /\ now = 0
  /\ time = [s \in Resources |-> 0]
  /\ begun = [r \in Requests |-> None]
  /\ mute = {}

Goto(r, step) == pc' = [pc EXCEPT ![r] = step]

-----------------------------------------------------------------------------
(* The connection.                                                         *)

\* A first line that has not three parts is bad.
FirstLine(r, bad) ==
  /\ pc[r] = "sent"
  /\ Begin(conn[r], r, bad)
  /\ Goto(r, IF bad THEN "refused" ELSE "begun")
  /\ UNCHANGED <<inputs, status, initd, now, time, begun, mute>>

\* The channel refuses a request for its headers.
TooManyHeaders(r, keep) ==
  /\ pc[r] = "begun"
  /\ RefuseHeaders(conn[r], r, keep)
  /\ Goto(r, "refused")
  /\ UNCHANGED <<inputs, status, initd, now, time, begun, mute>>

\* requestReceived refuses a request for a part of its content.
RefusePart(r, keep) ==
  /\ pc[r] = "begun"
  /\ Receive(conn[r], r, keep, TRUE)
  /\ Goto(r, "refused")
  /\ UNCHANGED <<inputs, status, initd, now, time, begun, mute>>

\* A resource that takes the time when it is asked for the first time.
RenderFirst(r, keep, bad) ==
  /\ pc[r] = "begun"
  /\ Receive(conn[r], r, keep, bad)
  /\ Goto(r, "init")
  /\ time' = IF \E q \in Requests : resource[q] = resource[r] /\ begun[q] # None
             THEN time ELSE [time EXCEPT ![resource[r]] = now]
  /\ begun' = [begun EXCEPT ![r] = now]
  /\ UNCHANGED <<inputs, status, initd, now, mute>>

\* render: the resource takes the time, and auth_user is scheduled, also for a
\* request whose last header was one too many.
Render(r, keep, bad) ==
  /\ pc[r] = "begun"
  /\ Receive(conn[r], r, keep, bad)
  /\ Goto(r, "init")
  /\ time' = [time EXCEPT ![resource[r]] = now]
  /\ begun' = [begun EXCEPT ![r] = now]
  /\ UNCHANGED <<inputs, status, initd, now, mute>>

Lost(c) ==
  /\ ConnectionLost(c)
  /\ UNCHANGED <<inputs, pc, status, initd, now, time, begun, mute>>

Tick ==
  /\ now < MaxTime
  /\ now' = now + 1
  /\ UNCHANGED <<channelVars, inputs, pc, status, initd, time, begun, mute>>

\* The time an answer written now would report.
Reported(r) == now - time[resource[r]]

-----------------------------------------------------------------------------
(* AuthService.auth_user.                                                  *)

quiet == <<channelVars, inputs, now, time, begun>>

\* AuthService.init: the first request starts it, those that come before it is
\* over wait for the same Deferred.
AuthInit(r) ==
  /\ pc[r] = "init"
  /\ LET s == resource[r] IN
       IF initd[s] = "done"
       THEN Goto(r, "fetch_user") /\ UNCHANGED initd
       ELSE /\ Goto(r, "initializing")
            /\ initd' = IF initd[s] = "no" THEN [initd EXCEPT ![s] = "pending"] ELSE initd
  /\ UNCHANGED <<quiet, status, mute>>

CreateRoot(s) ==
  /\ initd[s] = "pending"
  /\ initd' = [initd EXCEPT ![s] = "root"]
  /\ UNCHANGED <<quiet, pc, status, mute>>

\* A guest made after the callbacks of those who wait were run.
CreateGuestForOne(s) ==
  /\ initd[s] = "root"
  /\ initd' = [initd EXCEPT ![s] = "done"]
  /\ pc' = LET waiting == {r \in Requests : pc[r] = "initializing" /\ resource[r] = s}
           IN [r \in Requests |-> IF waiting # {} /\ r = CHOOSE w \in waiting : TRUE
                                  THEN "fetch_user" ELSE pc[r]]
  /\ UNCHANGED <<quiet, status, mute>>

\* create_guest and complete: all who wait go on.
CreateGuest(s) ==
  /\ initd[s] = "root"
  /\ initd' = [initd EXCEPT ![s] = "done"]
  /\ pc' = [r \in Requests |-> IF pc[r] = "initializing" /\ resource[r] = s
                               THEN "fetch_user" ELSE pc[r]]
  /\ UNCHANGED <<quiet, status, mute>>

\* A step of the chain succeeds, or fails and the answer is the error.
Continue(r, next) ==
  /\ \/ Goto(r, next) /\ UNCHANGED status
     \/ Goto(r, "answer") /\ status' = [status EXCEPT ![r] = "FAIL"]
  /\ UNCHANGED <<quiet, initd, mute>>

\* get_login, and root, guest or the user of the login; root and guest are
\* attributes, which do not exist before init.
FetchUser(r) ==
  /\ pc[r] = "fetch_user"
  /\ Continue(r, "sign")

\* sign_request.
Sign(r) == pc[r] = "sign" /\ Continue(r, "check")

-----------------------------------------------------------------------------
(* AuthResource.                                                           *)

\* check, which may fetch the user of the path; a false result is an error.
Check(r) == pc[r] = "check" /\ Continue(r, "auth")

\* auth, which fetches that user again, and the handler.
Auth(r) == pc[r] = "auth" /\ Continue(r, "answer")

\* A handler whose Deferred is never fired.
AuthNeverFires(r) ==
  /\ pc[r] = "auth"
  /\ Goto(r, "mute")
  /\ mute' = mute \cup {r}
  /\ UNCHANGED <<quiet, status, initd>>

\* make_response, encode_response and write_encoded_response; a response that
\* cannot be encoded, as any error, is written by write_fail.
Answer(r) ==
  /\ pc[r] = "answer"
  /\ Finish(conn[r], r)
  /\ Goto(r, "answered")
  /\ status' \in {status, [status EXCEPT ![r] = "FAIL"]}
  /\ UNCHANGED <<inputs, initd, now, time, begun, mute>>

\* write_fail raises, for a message that is no text: nobody answers.
WriteFailRaises(r) ==
  /\ pc[r] = "answer" /\ status[r] = "FAIL"
  /\ Goto(r, "mute")
  /\ mute' = mute \cup {r}
  /\ UNCHANGED <<quiet, status, initd>>

-----------------------------------------------------------------------------
Step(r) == \/ AuthInit(r) \/ FetchUser(r) \/ Sign(r) \/ Check(r)
           \/ Auth(r) \/ AuthNeverFires(r) \/ Answer(r) \/ WriteFailRaises(r)

Next == \/ \E r \in Requests : Step(r)
        \/ \E r \in Requests, bad \in BOOLEAN : FirstLine(r, bad)
        \/ \E r \in Requests, keep \in BOOLEAN : TooManyHeaders(r, keep) \/ RefusePart(r, keep)
        \/ \E r \in Requests, keep, bad \in BOOLEAN : Render(r, keep, bad)
        \/ \E s \in Resources : CreateRoot(s) \/ CreateGuest(s)
        \/ \E c \in Conns : Lost(c)
        \/ Tick

\* The reactor runs what is scheduled, and the storage answers.
Spec     == Init /\ [][Next]_vars
FairSpec == Spec /\ \A r \in Requests : WF_vars(Step(r))
                 /\ \A s \in Resources : WF_vars(CreateRoot(s) \/ CreateGuest(s))

-----------------------------------------------------------------------------
(* Properties.                                                             *)

\* Pipelined requests are answered in the order they came, whichever handler
\* is done first, and an answer waits for no request but those before it that
\* are not answered yet (http.py, requestDone, noLongerQueued).  The one thing
\* written out of turn is the 400 of the channel itself, once, and on a
\* connection that it closes (http.py:708, 1312, 1369).
AnswersInOrder ==
  \A c \in Conns :
    /\ \/ IsPrefix(sent[c], received[c])
       \/ /\ state[c] # "open"
          /\ \E n \in DOMAIN sent[c] : /\ sent[c][n] = BadRequest
                                       /\ IsPrefix(RemoveAt(sent[c], n), received[c])
    /\ requests[c] # <<>> /\ persistent[c] => Head(requests[c]) \notin finished

\* The timer of an open connection runs when nothing is asked for, and not
\* while a request is being worked on, however requests and answers overlapped
\* before (http.py:1387, 1468).
TimedWhenIdle ==
  \A c \in Conns : /\ state[c] = "open" /\ requests[c] = <<>> => c \in timed
                   /\ c \in timed => InQueue(c) \cap complete = {}

\* The time an answer reports is taken from the resource, which later requests
\* to the same path set anew: it is never longer than the request took, and
\* right if no other was rendered meanwhile (resource.py:25, 43, 60).
ReportedTime ==
  \A r \in Requests : pc[r] = "answer" =>
    /\ Reported(r) <= now - begun[r]
    /\ \/ Reported(r) = now - begun[r]
       \/ \E q \in Requests \ {r} : /\ resource[q] = resource[r]
                                    /\ begun[q] # None /\ begun[q] > begun[r]

\* Nobody looks for a user, who may be root or guest, before root and guest are
\* made, so a login of theirs is refused for its signature only (auth.py:33-37,
\* 91-97).
BuiltinUsersMade ==
  \A r \in Requests : pc[r] = "fetch_user" => initd[resource[r]] = "done"

\* r's answer has gone out.
Answered(r) == \E n \in DOMAIN sent[conn[r]] : sent[conn[r]][n] = r

\* r is in the queue of its connection behind a request that is mute.
HeldUp(r) ==
  LET q == requests[conn[r]] IN
    \E i, j \in DOMAIN q : i < j /\ q[i] \in mute /\ q[j] = r

\* The answer to every request that is worked on goes out, unless the request is
\* mute (a handler that never fires, an error that cannot be written), waits
\* behind one that is, or its connection has gone (resource.py:24-62,
\* http.py:1458-1471).
EveryRequestAnswered ==
  \A r \in Requests :
    pc[r] = "init" ~> \/ pc[r] = "mute"
                      \/ pc[r] = "answered" /\ (Answered(r) \/ HeldUp(r))
                      \/ pc[r] = "answered" /\ state[conn[r]] \in {"closed", "lost"}

=============================================================================
