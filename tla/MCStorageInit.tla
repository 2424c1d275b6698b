--------------------------- MODULE MCStorageInit ---------------------------
(***************************************************************************)
(* Instances of StorageInit for TLC, with the shape of the entities User   *)
(* and Friend: Friend has two fields of type User.  One request is about   *)
(* User, the others about Friend.                                          *)
(***************************************************************************)
EXTENDS StorageInit

CONSTANTS r1, r2, r3

MCEntities == {"User", "Friend"}
MCFields   == {"user1", "user2"}
MCOwnerOf  == [f \in MCFields |-> "Friend"]
MCTypeOf   == [f \in MCFields |-> "User"]
MCRequests == {r1, r2, r3}
MCWants    == [r \in MCRequests |-> IF r = r1 THEN "User" ELSE "Friend"]

\* Three callers about one entity.
MCWantUser == [r \in MCRequests |-> "User"]

=============================================================================
