---------------------------- MODULE MCWorkspace ----------------------------
(* Two or three people, one workspace, one account with two devices, a room *)
(* or two, one tab.                                                         *)
EXTENDS Workspace, TLC

(* What a tenant's scenario does not name it does not do. *)
NoTenant == [k \in {"events", "deliveries", "projections", "changes", "ticks", "faults", "uploads",
                    "transfers", "sweeps", "deletions", "purges", "chunks", "restores"} |-> 0]
NoRooms == [built |-> <<>>, moves |-> {}, posts |-> 0, steps |-> 0]

Sc(members, callBound, lossBound, deliveryBound, parts) ==
    [members |-> members, seats |-> IF Len(members) = 3 THEN 3 ELSE 2,
     calls |-> callBound, losses |-> lossBound, deliveries |-> deliveryBound, exercise |-> parts, breaks |-> 0, rooms |-> NoRooms, tenant |-> NoTenant]

Ann == <<"ann", "owner">>
Bob(role) == <<"bob", role>>
Team == <<Ann, Bob("admin"), <<"cas", "member">>>>

(* Rooms as they are built, with the moves that are exercised in them. *)
Room(kind, members, ranked, buckets) ==
    [kind |-> kind, creator |-> "bob", members |-> members, form |-> ranked, ranked |-> ranked,
     buckets |-> buckets]
Plain == [b \in Buckets |-> NoBucket]
Queue == Room("private", People, TRUE, [b \in Buckets |-> [on |-> TRUE, private |-> TRUE, allowed |-> {}]])
Hall == Room("public", {"bob"}, FALSE, Plain)
Talk == Room("public", {"ann", "bob"}, FALSE, Plain)
Den == Room("private", {"bob"}, FALSE, Plain)
Dm == Room("dm", {"bob"}, FALSE, Plain)

Ro(members, callBound, moves, postBound, stepBound, built) ==
    [Sc(members, callBound, 0, 0, {"rooms"}) EXCEPT
        !.rooms = [built |-> built, moves |-> moves, posts |-> postBound, steps |-> stepBound]]
Li(members, callBound, breakBound, moves, postBound, stepBound, built) ==
    [Ro(members, callBound, moves, postBound, stepBound, built) EXCEPT
        !.exercise = {"live"}, !.breaks = breakBound]

(* A tenant, with what it does. *)
Te(callBound, parts, tenant, postBound, stepBound) ==
    [Ro(<<Ann, Bob("member")>>, callBound, {"send"}, postBound, stepBound, [r1 |-> Talk]) EXCEPT
        !.exercise = parts, !.tenant = tenant @@ NoTenant]
Bills(said, webhooks, projections, tickBound, faultBound) ==
    [events |-> said, deliveries |-> webhooks, projections |-> projections, ticks |-> tickBound,
     faults |-> faultBound]
Keeps(uploads, puts, sweeps, tickBound, faultBound) ==
    [projections |-> 1, uploads |-> uploads, transfers |-> puts, sweeps |-> sweeps,
     ticks |-> tickBound, faults |-> faultBound]
Ends(deletions, purges, tickBound, faultBound) ==
    [deletions |-> deletions, purges |-> purges, ticks |-> tickBound, faults |-> faultBound]

MCTabOf == [t1 |-> "bob"]

MCScenarios ==
    {Sc(<<>>, 2, 0, 0, {}),
     Sc(<<Ann, Bob("admin")>>, 2, 1, 0, {}),
     Sc(<<Ann, Bob("member")>>, 1, 1, 2, {}),
     Sc(<<Ann>>, 3, 0, 0, {}),
     Sc(<<Ann>>, 1, 0, 0, {"tokens"}),
     Sc(<<Ann>>, 0, 0, 0, {"sessions"}),
     Sc(<<Ann>>, 1, 0, 0, {"requests"}),
     Sc(<<Ann>>, 0, 0, 0, {"challenges"}),
     Sc(<<Ann>>, 0, 0, 0, {"recovery"}),
     Sc(<<Ann>>, 0, 0, 0, {"recovery", "fetches"}),
     Ro(Team, 0, {"send", "queue", "status"}, 1, 3, [r1 |-> Queue]),
     Ro(<<Ann, Bob("owner")>>, 1, {"send", "status"}, 1, 2, [r1 |-> Queue]),
     Ro(Team, 0, {"send", "status", "keep", "delete"}, 1, 3, [r1 |-> Queue]),
     Ro(Team, 0, {"send", "prefs"}, 2, 2, [r1 |-> Talk]),
     Ro(Team, 0, {"send", "read", "forward"}, 2, 3, [r1 |-> Talk]),
     Ro(Team, 0, {"rooms", "places"}, 0, 2, [r1 |-> Talk]),
     Ro(Team, 0, {"drafts"}, 0, 5, [r1 |-> Talk]),
     Li(<<Ann, Bob("admin")>>, 0, 2, {"send"}, 3, 3, [r1 |-> Hall]),
     Li(<<Ann, Bob("admin")>>, 0, 1, {"send", "places"}, 1, 3, [r1 |-> Den]),
     Li(<<Ann, Bob("admin")>>, 0, 1, {"send", "keep"}, 1, 3, [r1 |-> Hall]),
     Li(<<Ann, Bob("admin")>>, 0, 1, {"send", "delete", "forward"}, 2, 3, [r1 |-> Hall]),
     Li(<<Ann, Bob("admin")>>, 0, 1, {"send", "card"}, 2, 2, [r1 |-> Hall, r2 |-> Dm]),
     Li(<<Ann, Bob("member")>>, 1, 0, {"send"}, 1, 1, [r1 |-> Hall]),
     Te(0, {"billing"}, Bills(2, 3, 0, 1, 0), 0, 0),
     Te(0, {"billing"}, Bills(2, 2, 2, 1, 0), 0, 0),
     Te(0, {"billing"}, Bills(1, 2, 1, 0, 1), 0, 0),
     Te(0, {"billing"}, [changes |-> 3], 0, 0),
     Te(0, {"files"}, Keeps(1, 2, 1, 1, 1), 0, 0),
     Te(0, {"files"}, Keeps(2, 1, 1, 1, 0), 0, 0),
     Te(0, {"files"}, Keeps(1, 1, 0, 0, 0), 1, 1),
     Te(0, {"files"}, [uploads |-> 1, transfers |-> 1] @@ Bills(1, 1, 2, 0, 0), 0, 0),
     Te(0, {"tenancy"}, Ends(2, 8, 1, 0), 1, 1),
     Te(1, {"tenancy"}, Ends(1, 1, 0, 0), 0, 0),
     Te(0, {"files", "tenancy"}, Ends(1, 7, 0, 1) @@ Keeps(1, 1, 0, 0, 0), 0, 0),
     Te(0, {"tenancy"}, [chunks |-> 3, restores |-> 1, ticks |-> 1], 1, 1),
     Te(0, {"tenancy"}, [chunks |-> 3, faults |-> 1], 1, 1),
     [Te(0, {"tenancy"}, [chunks |-> 2, restores |-> 1], 1, 2) EXCEPT !.rooms.moves = {"send", "rooms"}]}
=============================================================================
