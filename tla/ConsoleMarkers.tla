--------------------------- MODULE ConsoleMarkers ---------------------------
(***************************************************************************)
(* The Flex console's markers of the user's own gomees:                    *)
(* MineGomeeMarkersController and its base classes, over GomeeRepository,  *)
(* UserRepository.getMe and the server.                                    *)
(*                                                                         *)
(* A session is a UnitOfWork; signing in or out starts another.  A marker  *)
(* is a child of the map's layer (layer) and known to the controller under *)
(* the identity of its gomee (markers).  A draft comes from the user and   *)
(* is known once the server has answered with its identity; the others     *)
(* come from listings.  Between a request and its answer the user may do   *)
(* anything.                                                               *)
(*                                                                         *)
(* A marker's data is the gomee it was dropped with (Own), whose identity  *)
(* changes when an answer comes, or one of a listing.  What gomees contain *)
(* is not modelled, nor saveGomee, which changes only that.                *)
(***************************************************************************)
EXTENDS Naturals, FiniteSets, Functions

CONSTANTS Gomees, Markers, Users,
          Guest,       \* who may not store anything
          Posts, Deletes, \* requests to add and to remove a gomee
          MaxSession,
          Own, None

ASSUME ConsoleAssumption == /\ MaxSession \in Nat \ {0}
                            /\ Own \notin Gomees /\ None \notin Gomees \cup Markers \cup Users

VARIABLES owner,   \* the server: who has stored each gomee, None before
          stored,  \* the server: the gomees stored
          session, user, \* the session, and the user of each
          layer,   \* the markers shown
          markers, \* the controller's: the marker known for each gomee, or None
          kind,    \* of a marker: which handlers it has
          data,    \* its gomee: Own, or one of a listing
          ownId,   \* the identity of its Own gomee, None before it has one
          post, delete, \* the requests
          listing, \* the request of each session's update under way
          raised,  \* history: clearMarkers has raised
          doubled, \* history: gomees a listing has shown before addGomee was answered
          resaved  \* history: a draft has been saved again before it was answered

server  == <<owner, stored>>
screen  == <<layer, markers, kind, data, ownId>>
history == <<raised, doubled, resaved>>
vars == <<server, session, user, screen, post, delete, listing, history>>

Sessions == 1..MaxSession
Idle     == [stage |-> "idle"]
NoList   == [stage |-> "idle", found |-> {}]

PostRequests ==
  {Idle} \cup [stage : {"sent", "stored", "owner"}, marker : Markers, session : Sessions,
               id : Gomees \cup {None}]
DeleteRequests ==
  {Idle} \cup [stage : {"sent", "handled"}, marker : Markers, session : Sessions,
               gomee : Gomees \cup {Own}, id : Gomees \cup {None}]

TypeOK ==
  /\ owner \in [Gomees -> (Users \ {Guest}) \cup {None}]
  /\ stored \subseteq {g \in Gomees : owner[g] # None}
  /\ session \in Sessions /\ user \in [Sessions -> Users]
  /\ layer \subseteq Markers
  /\ markers \in [Gomees -> Markers \cup {None}]
  /\ kind \in [Markers -> {"draft", "saved", "listed"}]
  /\ data \in [Markers -> Gomees \cup {Own}]
  /\ ownId \in [Markers -> Gomees \cup {None}]
  /\ post \in [Posts -> PostRequests] /\ delete \in [Deletes -> DeleteRequests]
  /\ listing \in [Sessions -> [stage : {"idle", "sent", "handled"}, found : SUBSET Gomees]]
  /\ raised \in BOOLEAN /\ resaved \in BOOLEAN /\ doubled \subseteq Gomees \cup {None}

Init ==
  /\ owner \in [Gomees -> (Users \ {Guest}) \cup {None}]
  /\ stored = {g \in Gomees : owner[g] # None}
  /\ session = 1 /\ user \in [Sessions -> Users]
  /\ layer = {} /\ markers = [g \in Gomees |-> None]
  /\ kind = [m \in Markers |-> "draft"]
  /\ data = [m \in Markers |-> Own] /\ ownId = [m \in Markers |-> None]
  /\ post = [p \in Posts |-> Idle] /\ delete = [d \in Deletes |-> Idle]
  /\ listing = [s \in Sessions |-> NoList]
  /\ raised = FALSE /\ resaved = FALSE /\ doubled = {}

Known == Range(markers) \ {None}
Busy(r) == r # Idle
\* Names that a new marker may have.
Free == Markers \ (layer \cup Known \cup {post[p].marker : p \in {q \in Posts : Busy(post[q])}}
                         \cup {delete[d].marker : d \in {e \in Deletes : Busy(delete[e])}})
Draft(m) == kind[m] = "draft" /\ m \in layer
GomeeId(m, g) == IF g = Own THEN ownId[m] ELSE g

-----------------------------------------------------------------------------
(* Drafts.                                                                 *)

AddMarker ==
  /\ \E m \in Free :
       /\ layer' = layer \cup {m}
       /\ kind' = [kind EXCEPT ![m] = "draft"]
       /\ data' = [data EXCEPT ![m] = Own]
       /\ ownId' = [ownId EXCEPT ![m] = None]
  /\ UNCHANGED <<server, session, user, markers, post, delete, listing, history>>

\* delhandler.
DropDraft(m) ==
  /\ Draft(m)
  /\ layer' = layer \ {m}
  /\ UNCHANGED <<server, session, user, markers, kind, data, ownId, post, delete,
                 listing, history>>

\* handler, each time the draft's edit state is left.
Save(m, p) ==
  /\ Draft(m)
  /\ post[p] = Idle
  /\ post' = [post EXCEPT ![p] = [stage |-> "sent", marker |-> m, session |-> session, id |-> None]]
  /\ resaved' = (resaved \/ \E q \in Posts : Busy(post[q]) /\ post[q].marker = m)
  /\ UNCHANGED <<server, session, user, screen, delete, listing, raised, doubled>>

\* The server stores a gomee.
PostHandled(p) ==
  /\ post[p].stage = "sent"
  /\ user[post[p].session] # Guest
  /\ \E g \in {h \in Gomees : owner[h] = None} :
       /\ owner' = [owner EXCEPT ![g] = user[post[p].session]]
       /\ stored' = stored \cup {g}
       /\ post' = [post EXCEPT ![p].stage = "stored", ![p].id = g]
  /\ UNCHANGED <<session, user, screen, delete, listing, history>>

\* The request or its answer is lost, the server refuses it, or set_owner does
\* not learn who the user is.
PostFails(p) ==
  /\ post[p] # Idle
  /\ post' = [post EXCEPT ![p] = Idle]
  /\ UNCHANGED <<server, session, user, screen, delete, listing, history>>

\* set_id, and set_owner asks for me.
SetId(p) ==
  /\ post[p].stage = "stored"
  /\ ownId' = [ownId EXCEPT ![post[p].marker] = post[p].id]
  /\ post' = [post EXCEPT ![p].stage = "owner"]
  /\ UNCHANGED <<server, session, user, layer, markers, kind, data, delete, listing,
                 history>>

\* A callback that keeps the draft's own handlers, and so its dialog, on the
\* marker it has just registered.
RegisterKeepsDraft(p) ==
  /\ post[p].stage = "owner"
  /\ LET m == post[p].marker
     IN markers' = IF Draft(m) THEN [markers EXCEPT ![ownId[m]] = m] ELSE markers
  /\ post' = [post EXCEPT ![p] = Idle]
  /\ UNCHANGED <<server, session, user, layer, kind, data, ownId, delete, listing, history>>

\* The callback of addGomee: unless the draft is gone, or saved already, which
\* makes removeChild(m) raise, the controller knows the marker from now on.
Register(p) ==
  /\ post[p].stage = "owner"
  /\ LET m == post[p].marker
         g == ownId[m]
     IN IF Draft(m)
        THEN /\ kind' = [kind EXCEPT ![m] = "saved"]
             /\ markers' = [markers EXCEPT ![g] = m]
             /\ doubled' = IF markers[g] = None THEN doubled ELSE doubled \cup {g}
        ELSE UNCHANGED <<kind, markers, doubled>>
  /\ post' = [post EXCEPT ![p] = Idle]
  /\ UNCHANGED <<server, session, user, layer, data, ownId, delete, listing, raised, resaved>>

-----------------------------------------------------------------------------
(* Removing a gomee.                                                       *)

RemoveClick(m, d) ==
  /\ m \in layer /\ kind[m] # "draft"
  /\ delete[d] = Idle
  /\ delete' = [delete EXCEPT ![d] = [stage |-> "sent", marker |-> m, session |-> session,
                                     gomee |-> data[m], id |-> GomeeId(m, data[m])]]
  /\ UNCHANGED <<server, session, user, screen, post, listing, history>>

\* The server removes a gomee of the user's.
DeleteHandled(d) ==
  /\ delete[d].stage = "sent"
  /\ user[delete[d].session] # Guest
  /\ delete[d].id \in stored
  /\ stored' = stored \ {delete[d].id}
  /\ delete' = [delete EXCEPT ![d].stage = "handled"]
  /\ UNCHANGED <<owner, session, user, screen, post, listing, history>>

DeleteFails(d) ==
  /\ delete[d].stage \in {"sent", "handled"}
  /\ delete' = [delete EXCEPT ![d] = Idle]
  /\ UNCHANGED <<server, session, user, screen, post, listing, history>>

\* A callback that forgets the marker before it knows that it is shown.
RemovedForgetsFirst(d) ==
  /\ delete[d].stage = "handled"
  /\ LET m == delete[d].marker
     IN markers' = [markers EXCEPT ![GomeeId(m, delete[d].gomee)] = None]
  /\ delete' = [delete EXCEPT ![d] = Idle]
  /\ UNCHANGED <<server, session, user, layer, kind, data, ownId, post, listing, history>>

\* The callback of removeGomee; removeChild raises when the marker is gone.
Removed(d) ==
  /\ delete[d].stage = "handled"
  /\ LET m == delete[d].marker
     IN IF m \in layer
        THEN /\ layer' = layer \ {m}
             /\ markers' = [markers EXCEPT ![GomeeId(m, delete[d].gomee)] = None]
        ELSE UNCHANGED <<layer, markers>>
  /\ delete' = [delete EXCEPT ![d] = Idle]
  /\ UNCHANGED <<server, session, user, kind, data, ownId, post, listing, history>>

-----------------------------------------------------------------------------
(* Listings: one at a time in each session, those of earlier sessions are  *)
(* paused.                                                                 *)

\* updateMarkers appends to the chain _updating, which asks who the user is and
\* then for its gomees.  Updates that come meanwhile wait in the chain: nothing
\* tells them from updates that come later.
UpdateMarkers ==
  /\ user[session] # Guest
  /\ listing[session] = NoList
  /\ listing' = [listing EXCEPT ![session].stage = "sent"]
  /\ UNCHANGED <<server, session, user, screen, post, delete, history>>

\* The server finds the user's gomees in the bounds of the map.
ListHandled(s) ==
  /\ listing[s].stage = "sent"
  /\ \E inBounds \in SUBSET Gomees :
       listing' = [listing EXCEPT ![s] = [stage |-> "handled",
                                          found |-> {g \in stored \cap inBounds : owner[g] = user[s]}]]
  /\ UNCHANGED <<server, session, user, screen, post, delete, history>>

\* Either request or its answer is lost.
ListFails(s) ==
  /\ listing[s].stage = "sent"
  /\ listing' = [listing EXCEPT ![s] = NoList]
  /\ UNCHANGED <<server, session, user, screen, post, delete, history>>

\* _addMarker for each gomee: one that is known gets the gomee of the listing,
\* the others get a marker.
Show(found) ==
  LET new == {g \in found : markers[g] = None}
  IN \E f \in Injection(new, Free) :
       /\ layer' = layer \cup Range(f)
       /\ markers' = [g \in Gomees |-> IF g \in new THEN f[g] ELSE markers[g]]
       /\ kind' = [m \in Markers |-> IF m \in Range(f) THEN "listed" ELSE kind[m]]
       /\ data' = [m \in Markers |-> IF \E g \in found : markers'[g] = m
                                     THEN CHOOSE g \in found : markers'[g] = m ELSE data[m]]

\* A uow setter that drops _adding without pausing it.
ListedNotPaused(s) ==
  /\ listing[s].stage = "handled"
  /\ listing' = [listing EXCEPT ![s] = NoList]
  /\ Show(listing[s].found)
  /\ UNCHANGED <<server, session, user, ownId, post, delete, history>>

\* The callback of getGomees.
Listed(s) ==
  /\ listing[s].stage = "handled"
  /\ listing' = [listing EXCEPT ![s] = NoList]
  /\ IF s = session THEN Show(listing[s].found)
                    ELSE UNCHANGED <<layer, markers, kind, data>>
  /\ UNCHANGED <<server, session, user, ownId, post, delete, history>>

-----------------------------------------------------------------------------
(* The uow setter and clearMarkers: when a known marker is not in the      *)
(* layer, removeChild raises, and the loop has treated some of the others. *)

SignIn ==
  /\ session < MaxSession
  /\ session' = session + 1
  /\ IF Known \subseteq layer
     THEN /\ layer' = layer \ Known
          /\ markers' = [g \in Gomees |-> None]
          /\ UNCHANGED raised
     ELSE \E S \in SUBSET {g \in Gomees : markers[g] \in layer} :
            /\ layer' = layer \ {markers[g] : g \in S}
            /\ markers' = [g \in Gomees |-> IF g \in S THEN None ELSE markers[g]]
            /\ raised' = TRUE
  /\ UNCHANGED <<server, user, kind, data, ownId, post, delete, listing, doubled, resaved>>

-----------------------------------------------------------------------------
Next == \/ AddMarker \/ UpdateMarkers \/ SignIn
        \/ \E m \in Markers : \/ DropDraft(m)
                              \/ \E p \in Posts : Save(m, p)
                              \/ \E d \in Deletes : RemoveClick(m, d)
        \/ \E p \in Posts : PostHandled(p) \/ PostFails(p) \/ SetId(p) \/ Register(p)
        \/ \E d \in Deletes : DeleteHandled(d) \/ DeleteFails(d) \/ Removed(d)
        \/ \E s \in Sessions : ListHandled(s) \/ ListFails(s) \/ Listed(s)

Spec == Init /\ [][Next]_vars

-----------------------------------------------------------------------------
(* Properties.                                                             *)

\* A marker the controller knows is shown, and known for one gomee, so
\* clearMarkers never raises half way, unless a draft was saved again before it
\* was answered: the second answer changes the identity of the gomee that its
\* marker may be known by already, and removing the marker forgets another
\* (MineGomeeMarkersController.as:129-200, YoMarkersController.as:77-103).
KnownIsShown ==
  ~resaved => /\ ~raised
              /\ Known \subseteq layer
              /\ \A g, h \in Gomees : markers[g] # None /\ markers[g] = markers[h] => g = h

\* What is shown can be cleared: a marker in the layer is a draft or known, but
\* for those of a gomee that a listing has shown before addGomee was answered,
\* and what a draft saved twice leaves.  Those stay until the page is closed
\* (MineGomeeMarkersController.as:141-193, YoMarkersController.as:77-103).
ShownIsKnown ==
  ~resaved => \A m \in layer : Draft(m) \/ m \in Known \/ GomeeId(m, data[m]) \in doubled

\* The controller knows no gomee of an earlier session's user, however late
\* that session's listings are answered: except drafts, which outlive a
\* session, and what a clearMarkers that raised has left
\* (MineGomeeMarkersController.as:72-87, 299-332).
SessionsApart ==
  \A g \in Gomees : markers[g] # None /\ kind[markers[g]] = "listed" /\ ~raised =>
    owner[g] = user[session]

=============================================================================
