---------------------------- MODULE UserService ----------------------------
(***************************************************************************)
(* service/user.py: concurrent calls of add_user, and of get_user_profile  *)
(* and update_user_profile on the users they store.                        *)
(*                                                                         *)
(* Each call works on repositories of its own over one storage.  A user is *)
(* named by the add_user that makes it, and so is its profile.  where is   *)
(* one step between call and answer: users and profiles are only added, so *)
(* what IndexQuery promises of a walk (WhereAnswer) is what one look at    *)
(* some moment of it sees.  The put of a one-entity repository comes twice *)
(* (Repository: put_new, put_cached).  Nothing here removes: del_user      *)
(* always fails (its parameter hides the module user, line 112).           *)
(*                                                                         *)
(* The server may be stopped at any moment and started again: every put is *)
(* a transaction of its own (sabsddb.py:38-42, DB_AUTO_COMMIT), the calls  *)
(* under way and the instances in memory are lost.                         *)
(***************************************************************************)
EXTENDS Naturals

CONSTANTS Adds,     \* calls of add_user
          Logins,
          Uses,     \* calls of get_user_profile and update_user_profile
          Vals,     \* what an update may set a field of the profile to
          MaxFaults, \* how many calls of the storage raise, and stops of the server
          Blank,    \* the field as add_user stores it
          Anything, None

ASSUME UserAssumption == /\ Adds \cap Uses = {}
                         /\ None \notin Uses \cup Vals \cup {Blank}
                         /\ Anything \notin Vals \cup {Blank}
                         /\ MaxFaults \in Nat

VARIABLES users,   \* the users stored
          profile, \* the field in the stored profile of each user, or None
          cached,  \* id_cache of the profiles: the call that made the instance, or None
          inst,    \* the field in the instance each call's load made, or None
          pc,      \* where each call is
          login,   \* the login each add_user asks for
          target,  \* the user whose profile each use is about
          held,    \* whose instance a use works on, or None
          faults,  \* how often the storage or the server has failed
          before,  \* the users stored when each add_user was called
          solo,    \* the calls that no other call about the same user overlaps
          expected \* what the last undisturbed update of a profile set, or Anything

vars == <<users, profile, cached, inst, pc, login, target, held, faults, before, solo, expected>>

AddSteps == {"check", "put_user", "put_user_again", "put_profile", "put_profile_again"}
UseSteps == {"where", "cache", "update", "put"}
Ends     == {"ok", "exists", "failed", "stopped"}
Fields   == Vals \cup {Blank}

TypeOK ==
  /\ users \subseteq Adds
  /\ profile \in [Adds -> Fields \cup {None}]
  /\ cached \in [Adds -> Uses \cup {None}]
  /\ inst \in [Uses -> Fields \cup {None}]
  /\ pc \in [Adds \cup Uses -> {"idle"} \cup AddSteps \cup UseSteps \cup Ends]
  /\ \A a \in Adds : pc[a] \notin UseSteps
  /\ \A u \in Uses : pc[u] \notin AddSteps \cup {"exists"}
  /\ login \in [Adds -> Logins]
  /\ target \in [Uses -> Adds]
  /\ held \in [Uses -> Uses \cup {None}]
  /\ faults \in 0..MaxFaults
  /\ before \in [Adds -> SUBSET Adds]
  /\ solo \subseteq Adds \cup Uses
  /\ expected \in [Adds -> Fields \cup {Anything}]
  /\ \A a \in Adds : cached[a] # None => inst[cached[a]] # None
  /\ \A u \in Uses : /\ pc[u] = "cache" => inst[u] # None
                     /\ pc[u] \in {"update", "put"} => held[u] # None /\ inst[held[u]] # None

Init ==
  /\ users = {}
  /\ profile = [a \in Adds |-> None]
  /\ cached = [a \in Adds |-> None]
  /\ inst = [u \in Uses |-> None]
  /\ pc = [c \in Adds \cup Uses |-> "idle"]
  /\ login \in [Adds -> Logins]
  /\ target \in [Uses -> Adds]
  /\ held = [u \in Uses |-> None]
  /\ faults = 0
  /\ before = [a \in Adds |-> {}]
  /\ solo = {}
  /\ expected = [a \in Adds |-> Anything]

UnderWay == {c \in Adds \cup Uses : pc[c] \notin {"idle"} \cup Ends}
About(a) == {a} \cup {u \in Uses : target[u] = a}
Goto(c, step) == pc' = [pc EXCEPT ![c] = step]

-----------------------------------------------------------------------------
(* add_user.                                                               *)

AddUser(a) ==
  /\ pc[a] = "idle"
  /\ Goto(a, "check")
  /\ before' = [before EXCEPT ![a] = users]
  /\ solo' = solo \cup {a}
  /\ UNCHANGED <<users, profile, cached, inst, login, target, held, faults, expected>>

\* A check_exists that accepts one result.
CheckOffByOne(a) ==
  /\ pc[a] = "check"
  /\ Goto(a, IF \E b, c \in users : b # c /\ login[b] = login[a] /\ login[c] = login[a]
             THEN "exists" ELSE "put_user")
  /\ UNCHANGED <<users, profile, cached, inst, login, target, held, faults, before, solo, expected>>

\* check_exists.
Check(a) ==
  /\ pc[a] = "check"
  /\ Goto(a, IF \E b \in users : login[b] = login[a] THEN "exists" ELSE "put_user")
  /\ UNCHANGED <<users, profile, cached, inst, login, target, held, faults, before, solo, expected>>

\* persist_user.
PutUser(a) ==
  /\ pc[a] \in {"put_user", "put_user_again"}
  /\ users' = users \cup {a}
  /\ Goto(a, IF pc[a] = "put_user" THEN "put_user_again" ELSE "put_profile")
  /\ UNCHANGED <<profile, cached, inst, login, target, held, faults, before, solo, expected>>

\* persist_profile: both puts write the profile as it was created.
PutProfile(a) ==
  /\ pc[a] \in {"put_profile", "put_profile_again"}
  /\ profile' = [profile EXCEPT ![a] = Blank]
  /\ IF pc[a] = "put_profile"
     THEN Goto(a, "put_profile_again") /\ UNCHANGED expected
     ELSE /\ Goto(a, "ok")
          /\ expected' = IF a \in solo THEN [expected EXCEPT ![a] = Blank] ELSE expected
  /\ UNCHANGED <<users, cached, inst, login, target, held, faults, before, solo>>

-----------------------------------------------------------------------------
(* get_user_profile and update_user_profile.                               *)

\* Only a stored user can be asked about (resource.py:120).
Use(u) ==
  /\ pc[u] = "idle"
  /\ target[u] \in users
  /\ Goto(u, "where")
  /\ LET rivals == About(target[u]) \cap UnderWay
     IN solo' = IF rivals = {} THEN solo \cup {u} ELSE solo \ rivals
  /\ UNCHANGED <<users, profile, cached, inst, login, target, held, faults, before, expected>>

\* where(user = usr) and the get of what it finds; result[0] raises when there
\* is no profile.
Where(u) ==
  /\ pc[u] = "where"
  /\ LET a == target[u] IN
       \/ /\ profile[a] = None
          /\ Goto(u, "failed")
          /\ UNCHANGED <<held, inst>>
       \/ /\ profile[a] # None /\ cached[a] # None
          /\ held' = [held EXCEPT ![u] = cached[a]]
          /\ Goto(u, "update")
          /\ UNCHANGED inst
       \/ /\ profile[a] # None /\ cached[a] = None
          /\ inst' = [inst EXCEPT ![u] = profile[a]]
          /\ Goto(u, "cache")
          /\ UNCHANGED held
  /\ UNCHANGED <<users, profile, cached, login, target, faults, before, solo, expected>>

\* The end of a load, as AddToCache of module Repository.
Cache(u) ==
  /\ pc[u] = "cache"
  /\ cached' = [cached EXCEPT ![target[u]] = u]
  /\ held' = [held EXCEPT ![u] = u]
  /\ Goto(u, "update")
  /\ UNCHANGED <<users, profile, inst, login, target, faults, before, solo, expected>>

\* get_user_profile answers the instance.
Get(u) ==
  /\ pc[u] = "update"
  /\ Goto(u, "ok")
  /\ UNCHANGED <<users, profile, cached, inst, login, target, held, faults, before, solo, expected>>

\* An update of a copy that never becomes the cached instance.
UpdateOfCopy(u, v) ==
  /\ pc[u] = "update"
  /\ inst' = [inst EXCEPT ![u] = v]
  /\ held' = [held EXCEPT ![u] = u]
  /\ Goto(u, "put")
  /\ expected' = [expected EXCEPT ![target[u]] = Anything]
  /\ UNCHANGED <<users, profile, cached, login, target, faults, before, solo>>

\* update_profile: the request may leave the field alone and change others.
Update(u, v) ==
  /\ pc[u] = "update"
  /\ inst' = [inst EXCEPT ![held[u]] = v]
  /\ Goto(u, "put")
  /\ expected' = [expected EXCEPT ![target[u]] = Anything]
  /\ UNCHANGED <<users, profile, cached, login, target, held, faults, before, solo>>

\* persist, of which only put_cached has work.
Put(u) ==
  /\ pc[u] = "put"
  /\ profile' = [profile EXCEPT ![target[u]] = inst[held[u]]]
  /\ Goto(u, "ok")
  /\ expected' = [expected EXCEPT ![target[u]] = IF u \in solo THEN inst[held[u]] ELSE Anything]
  /\ UNCHANGED <<users, cached, inst, login, target, held, faults, before, solo>>

-----------------------------------------------------------------------------
(* Faults.                                                                 *)

\* persist_user with addBoth in place of addCallback: its failure is lost.
FailLost(c) ==
  /\ c \in UnderWay
  /\ pc[c] \notin {"cache", "update"}
  /\ faults < MaxFaults
  /\ faults' = faults + 1
  /\ Goto(c, IF pc[c] = "put_user" THEN "put_profile" ELSE "failed")
  /\ UNCHANGED <<users, profile, cached, inst, login, target, held, before, solo, expected>>

\* A call of the storage raises: nothing is written and the call fails.
Fail(c) ==
  /\ c \in UnderWay
  /\ pc[c] \notin {"cache", "update"}
  /\ faults < MaxFaults
  /\ faults' = faults + 1
  /\ Goto(c, "failed")
  /\ UNCHANGED <<users, profile, cached, inst, login, target, held, before, solo, expected>>

Restart ==
  /\ faults < MaxFaults
  /\ faults' = faults + 1
  /\ pc' = [c \in Adds \cup Uses |-> IF c \in UnderWay THEN "stopped" ELSE pc[c]]
  /\ cached' = [a \in Adds |-> None]
  /\ UNCHANGED <<users, profile, inst, login, target, held, before, solo, expected>>

-----------------------------------------------------------------------------
Step(c) == \/ c \in Adds /\ (Check(c) \/ PutUser(c) \/ PutProfile(c))
           \/ c \in Uses /\ (Where(c) \/ Cache(c) \/ Get(c) \/ Put(c)
                             \/ \E v \in Fields : Update(c, v))

Next == \/ \E a \in Adds : AddUser(a)
        \/ \E u \in Uses : Use(u)
        \/ \E c \in Adds \cup Uses : Step(c) \/ Fail(c)
        \/ Restart

Spec == Init /\ [][Next]_vars

-----------------------------------------------------------------------------
(* Properties.                                                             *)

\* A login is stored twice only by calls of add_user that overlap: once a
\* user is stored no later call stores another of its login, whatever fails
\* and however often the server is restarted (user.py:29-38).
LoginTwiceOnlyByOverlap ==
  \A a, b \in users : a \in before[b] => login[a] # login[b]

\* A stored profile has its user; an add_user that answers the user has stored
\* both.  So a user without profile, whom every use of the profile fails for
\* and whose login stays taken, is left only by a call that has failed or was
\* stopped (user.py:46-85).
UserBeforeProfile ==
  \A a \in Adds : /\ profile[a] # None => a \in users
                  /\ pc[a] = "ok" => profile[a] # None
                  /\ a \in users /\ profile[a] = None =>
                       pc[a] \in {"put_user_again", "put_profile", "failed", "stopped"}

\* Overlapping loads make two instances of a profile, a failed persist leaves
\* its change in the shared one, and add_user puts its own twice: then
\* instance and record differ.  But one update that nothing disturbs makes
\* them agree again: until the next update every call finds what it set,
\* however calls overlap and after a restart too (user.py:192-223,
\* sabsddb.py:378).
LastUpdateFound ==
  \A u \in Uses : pc[u] = "update" /\ expected[target[u]] # Anything =>
    inst[held[u]] = expected[target[u]]

=============================================================================
