----------------------------- MODULE TagService -----------------------------
(***************************************************************************)
(* service/tag.py, set_gomee_tags: requests that give gomees their tags,   *)
(* and del_gomee of service/gomee.py as far as the tags can tell.          *)
(*                                                                         *)
(* A request knows its tags by name.  It looks for the links (GomeeTag) of *)
(* its gomee and for the tags (Tag) of the names to add, creates the tags  *)
(* that are missing and stores them, and then stores the new links,        *)
(* removes the old ones and stores again what it has kept: three stages of *)
(* the repository, whose calls run in any order and of which one that      *)
(* fails does not stop the others (module Repository).                     *)
(*                                                                         *)
(* The i-th name of request r makes at most one tag and one link; both are *)
(* named <<r, i>>.  Between its call and its answer a where may find       *)
(* anything that was there at some moment and misses nothing that was      *)
(* there all the time (IndexQuery, WhereAnswer).                           *)
(***************************************************************************)
EXTENDS Naturals, Sequences, FiniteSets

CONSTANTS Requests, Gomees, Names,
          MaxNames,  \* how many names a request gives
          MaxFaults, \* how many storage calls raise
          None

ASSUME TagAssumption == /\ MaxNames \in Nat /\ MaxFaults \in Nat
                        /\ None \notin Requests \X (1..MaxNames)

VARIABLES gomee,  \* the gomee of each request
          wanted, \* its data["tags"]
          alive,  \* the gomees stored
          tags,   \* the tags stored
          links,  \* the links stored
          tagOf,  \* the tag each link refers to, or None
          pc,     \* where each request is
          ok,     \* whether it has not failed
          current, \* the links it has found and loaded
          todo,   \* its storage calls under way: the tags or links they are about
          always, \* what a where under way must find
          ever,   \* what it may find
          faults, \* how many storage calls have raised
          before, \* the tags stored when each request was called
          rivals  \* the requests that each request overlaps

vars == <<gomee, wanted, alive, tags, links, tagOf, pc, ok, current, todo,
          always, ever, faults, before, rivals>>

Ids     == Requests \X (1..MaxNames)
Stages  == {"get_current_tags", "get_existing_tags", "put_tags", "put_new",
            "remove_deleted", "put_cached", "where"}
Name(x) == wanted[x[1]][x[2]]
NamesOf(S)  == {Name(x) : x \in S}
LinksOf(g)  == {l \in links : gomee[l[1]] = g}
WantedBy(r) == {wanted[r][i] : i \in DOMAIN wanted[r]}
Own(r)      == {<<r, i>> : i \in DOMAIN wanted[r]}

ToDel(r) == {l \in current[r] : Name(l) \notin WantedBy(r)}
Kept(r)  == current[r] \ ToDel(r)
ToAdd(r) == {x \in Own(r) : Name(x) \notin NamesOf(current[r])}
New(r)   == {x \in ToAdd(r) : tagOf[x] # None}

\* A request that has failed may have calls under way.
Running(r) == pc[r] \notin {"idle", "done"} /\ (r \in ok \/ todo[r] # {})

\* A persist that removes first.
AfterRemovesFirst == [put_tags |-> "remove_deleted", remove_deleted |-> "put_new",
                      put_new |-> "put_cached", put_cached |-> "where"]

\* The stages that store: tagRepository.persist, the three stages of
\* gomeeTagRepository.persist, and then the where of the answer.
After == [put_tags |-> "put_new", put_new |-> "remove_deleted",
          remove_deleted |-> "put_cached", put_cached |-> "where"]

\* The tags and links that the requests may make.
Made == {x \in Ids : x \in Own(x[1])}

TypeOK ==
  /\ gomee \in [Requests -> Gomees] /\ alive \subseteq Gomees
  /\ wanted \in [Requests -> UNION {[1..n -> Names] : n \in 0..MaxNames}]
  /\ tags \subseteq Made /\ links \subseteq Made
  /\ tagOf \in [Ids -> Ids \cup {None}]
  /\ pc \in [Requests -> Stages \cup {"idle", "done"}]
  /\ ok \subseteq Requests
  /\ current \in [Requests -> SUBSET Made] /\ todo \in [Requests -> SUBSET Made]
  /\ always \in [Requests -> SUBSET Made] /\ ever \in [Requests -> SUBSET Made]
  /\ \A r \in Requests : /\ always[r] \subseteq ever[r]
                         /\ todo[r] # {} => pc[r] \in DOMAIN After
  /\ faults \in 0..MaxFaults
  /\ before \in [Requests -> SUBSET Made] /\ rivals \in [Requests -> SUBSET Requests]

Init ==
  /\ gomee \in [Requests -> Gomees]
  /\ wanted \in [Requests -> UNION {[1..n -> Names] : n \in 0..MaxNames}]
  /\ alive = Gomees
  /\ tags = {} /\ links = {}
  /\ tagOf = [x \in Ids |-> None]
  /\ pc = [r \in Requests |-> "idle"]
  /\ ok = Requests
  /\ current = [r \in Requests |-> {}]
  /\ todo = [r \in Requests |-> {}]
  /\ always = [r \in Requests |-> {}] /\ ever = [r \in Requests |-> {}]
  /\ faults = 0
  /\ before = [r \in Requests |-> {}]
  /\ rivals = [r \in Requests |-> {}]

-----------------------------------------------------------------------------
(* The request.                                                            *)

\* The resource has just got the gomee (resource/gomee.py).  The call looks
\* for the gomee's links.
SetTags(r) ==
  /\ pc[r] = "idle"
  /\ gomee[r] \in alive
  /\ pc' = [pc EXCEPT ![r] = "get_current_tags"]
  /\ always' = [always EXCEPT ![r] = LinksOf(gomee[r])]
  /\ ever' = [ever EXCEPT ![r] = LinksOf(gomee[r])]
  /\ before' = [before EXCEPT ![r] = tags]
  /\ LET running == {q \in Requests : Running(q)}
     IN rivals' = [q \in Requests |-> IF q = r THEN running
                                      ELSE IF q \in running THEN rivals[q] \cup {r} ELSE rivals[q]]
  /\ UNCHANGED <<gomee, wanted, alive, tags, links, tagOf, ok, current, todo, faults>>

\* The links are found and loaded; those with other names leave the
\* repository's cache (remove_tags), and the tags to add are looked for.
GetCurrentTags(r) ==
  /\ pc[r] = "get_current_tags" /\ r \in ok
  /\ \E S \in SUBSET ever[r] :
       /\ always[r] \subseteq S
       /\ current' = [current EXCEPT ![r] = S]
  /\ pc' = [pc EXCEPT ![r] = "get_existing_tags"]
  /\ always' = [always EXCEPT ![r] = tags]
  /\ ever' = [ever EXCEPT ![r] = tags]
  /\ UNCHANGED <<gomee, wanted, alive, tags, links, tagOf, ok, todo, faults, before, rivals>>

\* The tags of the name of x, among those of T.
Named(x, T) == {t \in T : Name(t) = Name(x)}

Create(r, existing, create, found) ==
  /\ tagOf' = [x \in Ids |-> IF x \in create THEN x
                             ELSE IF x \in existing THEN CHOOSE t \in found[x] : TRUE
                             ELSE tagOf[x]]
  /\ todo' = [todo EXCEPT ![r] = create]
  /\ pc' = [pc EXCEPT ![r] = "put_tags"]
  /\ always' = [always EXCEPT ![r] = {}]
  /\ ever' = [ever EXCEPT ![r] = {}]
  /\ UNCHANGED <<gomee, wanted, alive, tags, links, ok, current, faults, before, rivals>>

Found(r) == {f \in [ToAdd(r) -> SUBSET tags] :
               \A x \in ToAdd(r) : Named(x, always[r]) \subseteq f[x] /\ f[x] \subseteq Named(x, tags)}

\* create_and_add_tags that compares names with tags.
GetExistingTagsComparesTags(r) ==
  /\ pc[r] = "get_existing_tags" /\ r \in ok
  /\ \E f \in Found(r) : Create(r, {}, ToAdd(r), f)

\* create_and_add_tags: a name whose where has found one tag exists; every
\* mention of any other name makes a tag.
GetExistingTags(r) ==
  /\ pc[r] = "get_existing_tags" /\ r \in ok
  /\ \E f \in Found(r) :
       LET existing == {x \in ToAdd(r) : Cardinality(f[x]) = 1}
       IN Create(r, existing, {x \in ToAdd(r) : Name(x) \notin NamesOf(existing)}, f)

\* A remove that leaves the link in the repository's cache.
WorkKeepsDeleted(r, stage) == CASE stage = "put_new"        -> New(r)
                                [] stage = "remove_deleted" -> ToDel(r)
                                [] stage = "put_cached"     -> New(r) \cup current[r]
                                [] stage = "where"          -> {}

Work(r, stage) == CASE stage = "put_new"        -> New(r)
                    [] stage = "remove_deleted" -> ToDel(r)
                    [] stage = "put_cached"     -> New(r) \cup Kept(r)
                    [] stage = "where"          -> {}

Enter(r, stage) ==
  /\ pc' = [pc EXCEPT ![r] = stage]
  /\ todo' = [todo EXCEPT ![r] = Work(r, stage)]
  /\ IF stage = "where" THEN /\ always' = [always EXCEPT ![r] = LinksOf(gomee[r])]
                             /\ ever' = [ever EXCEPT ![r] = LinksOf(gomee[r])]
                        ELSE UNCHANGED <<always, ever>>
  /\ UNCHANGED <<gomee, wanted, alive, tags, links, tagOf, ok, current, faults, before, rivals>>

\* The calls of a stage are answered.
Proceed(r) ==
  /\ r \in ok
  /\ todo[r] = {}
  /\ pc[r] \in DOMAIN After
  /\ Enter(r, After[pc[r]])

Answer(r) ==
  /\ pc[r] = "where" /\ r \in ok
  /\ pc' = [pc EXCEPT ![r] = "done"]
  /\ always' = [always EXCEPT ![r] = {}]
  /\ ever' = [ever EXCEPT ![r] = {}]
  /\ UNCHANGED <<gomee, wanted, alive, tags, links, tagOf, ok, current, todo, faults, before, rivals>>

-----------------------------------------------------------------------------
(* The storage.                                                            *)

\* What the walks under way see of a change of the links.
Walked == /\ always' = [r \in Requests |-> IF pc[r] \in {"get_current_tags", "where"}
                                           THEN always[r] \cap links' ELSE always[r]]
          /\ ever' = [r \in Requests |-> IF pc[r] \in {"get_current_tags", "where"}
                                         THEN ever[r] \cup {l \in links' : gomee[l[1]] = gomee[r]}
                                         ELSE ever[r]]

\* A put takes effect; so does a remove of a link that is there.
Call(r, x) ==
  /\ x \in todo[r]
  /\ pc[r] = "remove_deleted" => x \in links
  /\ todo' = [todo EXCEPT ![r] = @ \ {x}]
  /\ tags' = IF pc[r] = "put_tags" THEN tags \cup {x} ELSE tags
  /\ links' = CASE pc[r] = "put_tags"       -> links
                [] pc[r] = "remove_deleted" -> links \ {x}
                [] OTHER                    -> links \cup {x}
  /\ Walked
  /\ UNCHANGED <<gomee, wanted, alive, tagOf, pc, ok, current, faults, before, rivals>>

\* A call fails: the link to remove is gone, the gomee of a link that was kept
\* is gone and could not be loaded (AbsddbStorage, ReferencesPreserved), or
\* the storage raises.
CallFails(r, x) ==
  /\ x \in todo[r]
  /\ \/ pc[r] = "remove_deleted" /\ x \notin links /\ UNCHANGED faults
     \/ pc[r] = "put_cached" /\ x \in Kept(r) /\ gomee[r] \notin alive /\ UNCHANGED faults
     \/ faults < MaxFaults /\ faults' = faults + 1
  /\ todo' = [todo EXCEPT ![r] = @ \ {x}]
  /\ ok' = ok \ {r}
  /\ UNCHANGED <<gomee, wanted, alive, tags, links, tagOf, pc, current, always, ever, before, rivals>>

\* A where fails: a link it has found is gone when it is loaded, or the storage
\* raises; so may the second put of the tags.
WhereFails(r) ==
  /\ r \in ok /\ todo[r] = {}
  /\ \/ pc[r] \in {"get_current_tags", "where"} /\ ~(ever[r] \subseteq links) /\ UNCHANGED faults
     \/ /\ pc[r] \in {"get_current_tags", "get_existing_tags", "put_tags", "where"}
        /\ faults < MaxFaults /\ faults' = faults + 1
  /\ ok' = ok \ {r}
  /\ UNCHANGED <<gomee, wanted, alive, tags, links, tagOf, pc, current, todo,
                 always, ever, before, rivals>>

\* del_gomee: the gomee goes, its links stay.
DelGomee(g) ==
  /\ g \in alive
  /\ alive' = alive \ {g}
  /\ UNCHANGED <<gomee, wanted, tags, links, tagOf, pc, ok, current, todo,
                 always, ever, faults, before, rivals>>

-----------------------------------------------------------------------------
Step(r) == \/ GetCurrentTags(r) \/ GetExistingTags(r) \/ Proceed(r) \/ Answer(r)
           \/ WhereFails(r)
           \/ \E x \in Ids : Call(r, x) \/ CallFails(r, x)

Next == \/ \E r \in Requests : SetTags(r) \/ Step(r)
        \/ \E g \in Gomees : DelGomee(g)

Spec == Init /\ [][Next]_vars

-----------------------------------------------------------------------------
(* Properties.                                                             *)

\* When one tag of a name was stored before the call, the call stores another
\* of that name only if a request it overlaps did so: the first duplicate
\* needs a race, or a name given twice, and only then does len(t) == 1 miss
\* and make more (tag.py:57-61).
DuplicatesSpreadOnly ==
  \A t \in tags : Cardinality(Named(t, before[t[1]])) = 1 =>
    \E u \in Named(t, tags) : u[1] \in rivals[t[1]]

\* A call that overlaps no other about its gomee gives the gomee the names of
\* its data and no others, whatever duplicates of tags and links are there and
\* whether the gomee still is (tag.py:27-129).
Alone(r) == \A q \in rivals[r] : gomee[q] # gomee[r]
NamesAsWanted ==
  \A r \in Requests : pc[r] = "where" /\ r \in ok /\ Alone(r) =>
    NamesOf(LinksOf(gomee[r])) = WantedBy(r)

\* A call that fails half way has removed nothing that it should keep, and
\* nothing at all unless the gomee has all the names asked for.
NoNameLost ==
  \A r \in Requests : Running(r) /\ Alone(r) =>
    /\ pc[r] # "get_current_tags" => Kept(r) \subseteq links
    /\ ~(ToDel(r) \subseteq links) => WantedBy(r) \subseteq NamesOf(LinksOf(gomee[r]))

=============================================================================
