----------------------------- MODULE Membership -----------------------------
(* Memberships of one workspace: the rows of the control plane              *)
(* (src/control/administration.ts, src/control/onboarding.ts), their        *)
(* projection into the workspace object (applyMembership), and the calls    *)
(* that change both.  A call is a chain of awaits: it reads, commits a      *)
(* batch that records the operation, has the object apply it, and commits a *)
(* batch that acknowledges it.  A reduction is in the first batch, anything *)
(* else in the last.  Any number of calls run at the same time, and one may *)
(* be lost between any two of its steps.                                    *)
EXTENDS Naturals, Sequences, FiniteSets, FiniteSetsExt

CONSTANTS People, Founder, Invitations, Calls, None,
          Scenarios    \* first members, seats, and bounds on calls, losses and deliveries

ASSUME MembershipAssumption ==
    /\ Founder \in People
    /\ IsFiniteSet(People) /\ IsFiniteSet(Invitations)
    /\ \A sc \in Scenarios :
          /\ {"members", "seats", "calls", "losses", "deliveries"} \subseteq DOMAIN sc
          /\ sc.members \in Seq(People \X {"owner", "admin", "member"})
          /\ sc.members # <<>> => \E k \in DOMAIN sc.members : sc.members[k][2] = "owner"
          /\ \A k, l \in DOMAIN sc.members : sc.members[k][1] = sc.members[l][1] => k = l
          /\ sc.seats \in Nat \ {0} /\ Len(sc.members) <= sc.seats
          /\ sc.calls \in Nat /\ sc.losses \in Nat /\ sc.deliveries \in Nat

Roles == {"owner", "admin", "member"}
Statuses == {"pending", "active", "suspended", "removed"}

VARIABLES
    version,       \* workspaces.membership_version
    rows,          \* memberships, by account: a UNIQUE(workspace, account) row
    ops,           \* control_operations, UNIQUE by member and version
    invites,       \* invitations
    local,         \* members, in the workspace object
    taken,         \* applied_control_operations, in the workspace object
    calls,         \* what each call in flight has read
    budget,        \* the scenario, and what is left of its bounds
    overlapped,    \* history: two calls were in flight at the same time
    lost           \* history: the operations whose call did not come to its end

vars == <<version, rows, ops, invites, local, taken, calls, budget, overlapped, lost>>
tables == <<version, rows, ops, invites, local, taken>>

NoRow == [role |-> None, status |-> "none", epoch |-> 0, version |-> 0]
NoInvite == [state |-> "none", person |-> None, role |-> None]
NoCall == [pc |-> "idle", kind |-> None, by |-> None, member |-> None, invite |-> None,
           role |-> None, status |-> None, epoch |-> 0, version |-> 0, reduces |-> FALSE]

Rank(role) == CASE role = "owner" -> 0 [] role = "admin" -> 1 [] OTHER -> 2

(* The projection a call carries, and the operation that records it. *)
Projection(c) == [role |-> c.role, status |-> c.status, epoch |-> c.epoch, version |-> c.version]
Operation(c) == [member |-> c.member, role |-> c.role, status |-> c.status,
                 epoch |-> c.epoch, version |-> c.version]
IdOf(o) == <<o.member, o.version>>
ProjectionOf(o) == [role |-> o.role, status |-> o.status, epoch |-> o.epoch, version |-> o.version]

(* What a request gets through with: the active row of the control plane    *)
(* names the epoch, and the object asks for the same one.                   *)
Access(p) ==
    /\ rows[p].status = "active" /\ local[p].status = "active"
    /\ rows[p].epoch = local[p].epoch

Administrator(p) == rows[p].status = "active" /\ rows[p].role \in {"owner", "admin"}

Counted == {p \in People : rows[p].status = "active"}
ReadyInvites == {i \in Invitations : invites[i].state = "ready"}
Seats == budget.seats
SeatsTaken == Cardinality(Counted) + Cardinality(ReadyInvites)

(* Both planes have the triggers memberships_keep_last_owner_update and      *)
(* members_keep_last_owner_update: an update that would take the last       *)
(* active owner away aborts.                                                *)
OwnerIn(table, p) == table[p].role = "owner" /\ table[p].status = "active"
KeepsOwner(table, p, new) ==
    OwnerIn(table, p) /\ ~(new.role = "owner" /\ new.status = "active") =>
        \E other \in People \ {p} : OwnerIn(table, other)

InFlight == {c \in Calls : calls[c].pc # "idle"}

CanBegin(c) == calls[c].pc = "idle" /\ budget.calls > 0

Begin(c, record) ==
    /\ CanBegin(c)
    /\ calls' = [calls EXCEPT ![c] = record]
    /\ budget' = [budget EXCEPT !.calls = @ - 1]
    /\ overlapped' = (overlapped \/ InFlight # {})
    /\ UNCHANGED lost

At(c, pc) ==
    /\ calls[c].pc = pc
    /\ UNCHANGED <<budget, overlapped, lost>>

Continue(c, pc) == calls' = [calls EXCEPT ![c].pc = pc]
Finish(c) == calls' = [calls EXCEPT ![c] = NoCall]

-----------------------------------------------------------------------------
(* Invitations. *)

(* inviteMember, its reads: an administrator invites somebody who is        *)
(* neither a member nor invited already.                                    *)
BeginInvite(c, by, p, role) ==
    /\ Administrator(by) /\ role # "owner"
    /\ rows[p].status \in {"none", "removed"}
    /\ \A i \in Invitations : invites[i].person = p => invites[i].state \notin {"ready", "held"}
    /\ Begin(c, [NoCall EXCEPT !.pc = "inviting", !.kind = "invite", !.by = by,
                               !.member = p, !.role = role])
    /\ UNCHANGED tables

(* Its insert decides by itself whether a seat is free. *)
Invite(c, i) ==
    /\ At(c, "inviting")
    /\ invites[i].state = "none"
    /\ invites' = [invites EXCEPT ![i] =
          [state |-> IF SeatsTaken >= Seats THEN "held" ELSE "ready",
           person |-> calls[c].member, role |-> calls[c].role]]
    /\ Finish(c)
    /\ UNCHANGED <<version, rows, ops, local, taken>>

(* revokeInvitation, and the end of its seven days, which reads the same. *)
RevokeInvitation(i) ==
    /\ invites[i].state \in {"ready", "held"}
    /\ invites' = [invites EXCEPT ![i].state = "revoked"]
    /\ UNCHANGED <<version, rows, ops, local, taken, calls, budget, overlapped, lost>>

(* confirmInvitationPlan: one statement that asks for a free seat. *)
ConfirmInvitationPlan(i) ==
    /\ invites[i].state = "held" /\ SeatsTaken < Seats
    /\ invites' = [invites EXCEPT ![i].state = "ready"]
    /\ overlapped' = (overlapped \/ InFlight # {})
    /\ UNCHANGED <<version, rows, ops, local, taken, calls, budget, lost>>

(* acceptInvitation, its read. *)
BeginAccept(c, i) ==
    /\ invites[i].state = "ready"
    /\ Begin(c, [NoCall EXCEPT !.pc = "joining", !.kind = "join", !.member = invites[i].person,
                     !.invite = i, !.role = invites[i].role, !.status = "active",
                     !.epoch = 1, !.version = version + 1])
    /\ UNCHANGED tables

(* Its first batch does not ask again whether the invitation stands; a      *)
(* person who has a row already is refused by the table.                    *)
Admit(c) ==
    LET call == calls[c]
    IN  /\ At(c, "joining")
        /\ rows[call.member].status = "none"
        /\ rows' = [rows EXCEPT ![call.member] = [Projection(call) EXCEPT !.status = "pending"]]
        /\ version' = call.version
        /\ invites' = [invites EXCEPT ![call.invite].state = "accepted"]
        /\ ops' = ops \cup {Operation(call)}
        /\ Continue(c, "recorded")
        /\ UNCHANGED <<local, taken>>

NotAdmitted(c) ==
    /\ At(c, "joining")
    /\ rows[calls[c].member].status # "none"
    /\ Finish(c)
    /\ UNCHANGED tables

-----------------------------------------------------------------------------
(* Changes of a member. *)

(* createWorkspace, its first batch: a pending founder of a workspace that  *)
(* is being provisioned.                                                    *)
CreateWorkspace(c) ==
    LET call == [NoCall EXCEPT !.pc = "recorded", !.kind = "found", !.member = Founder,
                    !.role = "owner", !.status = "active", !.epoch = 1, !.version = 1]
    IN  /\ version = 0
        /\ Begin(c, call)
        /\ version' = 1
        /\ rows' = [rows EXCEPT ![Founder] = [Projection(call) EXCEPT !.status = "pending"]]
        /\ ops' = ops \cup {Operation(call)}
        /\ UNCHANGED <<invites, local, taken>>

(* mayAdministerMember *)
MayAdminister(by, p, role, status) ==
    \/ rows[by].role = "owner" /\ ~(by = p /\ status = "removed")
    \/ /\ rows[by].role = "admin"
       /\ rows[p].role \notin {"owner", "admin"}
       /\ role \notin {"owner", "admin"}

Or(wanted, current) == IF wanted = None THEN current ELSE wanted

(* administerMember, its reads: what is not asked for is taken from the row *)
(* as it is now.                                                            *)
BeginAdminister(c, by, p, role, status) ==
    /\ Administrator(by) /\ rows[p].status # "none"
    /\ role # None \/ status # None
    /\ MayAdminister(by, p, role, status)
    /\ rows[p].status # "active" /\ status = "active" => SeatsTaken < Seats
    /\ Begin(c, [NoCall EXCEPT !.pc = "asked", !.kind = "change", !.by = by, !.member = p,
                     !.role = Or(role, rows[p].role), !.status = Or(status, rows[p].status)])
    /\ UNCHANGED tables

(* transferOwnership, its reads: the target becomes an owner, and then the  *)
(* actor an admin.                                                          *)
BeginTransfer(c, by, p) ==
    /\ Administrator(by) /\ rows[by].role = "owner"
    /\ rows[p].status = "active" /\ local[p] # NoRow
    /\ Begin(c, [NoCall EXCEPT !.pc = "asked", !.kind = "transfer", !.by = by, !.member = p,
                               !.role = "owner", !.status = "active"])
    /\ UNCHANGED tables

(* changeMemberProjection, its reads: the version and the epoch that follow *)
(* the row as it is by now.                                                 *)
ReadMember(c) ==
    LET call == calls[c]
        row == rows[call.member]
    IN  /\ At(c, "asked")
        /\ local[call.member] # NoRow
        /\ calls' = [calls EXCEPT ![c] =
              [call EXCEPT !.pc = "read", !.version = version + 1, !.epoch = row.epoch + 1,
                  !.reduces = call.status # "active" \/ Rank(call.role) > Rank(row.role)]]
        /\ UNCHANGED tables

(* Nobody is projected for the row: the call fails. *)
NotProjected(c) ==
    /\ At(c, "asked")
    /\ local[calls[c].member] = NoRow
    /\ Finish(c)
    /\ UNCHANGED tables

(* Two operations of a member may not have one version, and an owner stays. *)
Recordable(call) ==
    /\ IdOf(call) \notin {IdOf(o) : o \in ops}
    /\ call.reduces => KeepsOwner(rows, call.member, Projection(call))

(* Faulty variant: every change waits for the object. *)
RecordNothingYet(c) ==
    LET call == calls[c]
    IN  /\ At(c, "read")
        /\ Recordable(call)
        /\ version' = call.version
        /\ ops' = ops \cup {Operation(call)}
        /\ rows' = rows
        /\ calls' = [calls EXCEPT ![c].pc = "recorded", ![c].reduces = FALSE]
        /\ UNCHANGED <<invites, local, taken>>

(* Its first batch: the operation, and what it takes away. *)
Record(c) ==
    LET call == calls[c]
    IN  /\ At(c, "read")
        /\ Recordable(call)
        /\ version' = call.version
        /\ ops' = ops \cup {Operation(call)}
        /\ rows' = IF call.reduces THEN [rows EXCEPT ![call.member] = Projection(call)] ELSE rows
        /\ Continue(c, "recorded")
        /\ UNCHANGED <<invites, local, taken>>

NotRecorded(c) ==
    /\ At(c, "read")
    /\ ~Recordable(calls[c])
    /\ Finish(c)
    /\ UNCHANGED tables

-----------------------------------------------------------------------------
(* The workspace object. *)

Refused(o) ==
    /\ IdOf(o) \notin taken
    /\ local[o.member].version >= o.version \/ ~KeepsOwner(local, o.member, o)

(* Faulty variant: a late operation is applied too. *)
ApplyMembershipLate(o) ==
    /\ local' = IF IdOf(o) \in taken THEN local ELSE [local EXCEPT ![o.member] = ProjectionOf(o)]
    /\ taken' = taken \cup {IdOf(o)}

(* applyMembership: once per operation, only forward, and not the last      *)
(* owner.                                                                   *)
ApplyMembership(o) ==
    /\ ~Refused(o)
    /\ local' = IF IdOf(o) \in taken THEN local ELSE [local EXCEPT ![o.member] = ProjectionOf(o)]
    /\ taken' = taken \cup {IdOf(o)}

Project(c) ==
    /\ At(c, "recorded")
    /\ ApplyMembership(Operation(calls[c]))
    /\ Continue(c, "projected")
    /\ UNCHANGED <<version, rows, ops, invites>>

(* The object throws, and the call ends without its second batch. *)
NotProjectable(c) ==
    /\ calls[c].pc = "recorded" /\ Refused(Operation(calls[c]))
    /\ Finish(c)
    /\ lost' = lost \cup {IdOf(calls[c])}
    /\ UNCHANGED <<tables, budget, overlapped>>

(* An operation that was recorded is delivered again, as the contract wants *)
(* it (identity-tenant-contract.md, failed delivery).                       *)
Redeliver(o) ==
    /\ o \in ops /\ budget.deliveries > 0
    /\ ApplyMembership(o)
    /\ budget' = [budget EXCEPT !.deliveries = @ - 1]
    /\ UNCHANGED <<version, rows, ops, invites, calls, overlapped, lost>>

(* The second batch: the row, unless the first had it, and no question      *)
(* whether it changed meanwhile.                                            *)
Acknowledged(c) ==
    LET call == calls[c]
    IN  IF call.kind \in {"found", "join"} THEN [rows[call.member] EXCEPT !.status = "active"]
        ELSE IF call.reduces THEN rows[call.member]
        ELSE Projection(call)

(* A transfer goes on with its actor. *)
Acknowledge(c) ==
    LET call == calls[c]
        p == call.member
    IN  /\ At(c, "projected")
        /\ KeepsOwner(rows, p, Acknowledged(c))
        /\ rows' = [rows EXCEPT ![p] = Acknowledged(c)]
        /\ IF call.kind = "transfer" /\ call.by # p
           THEN calls' = [calls EXCEPT ![c] =
                   [NoCall EXCEPT !.pc = "asked", !.kind = "change", !.by = call.by,
                                  !.member = call.by, !.role = "admin", !.status = "active"]]
           ELSE Finish(c)
        /\ UNCHANGED <<version, ops, invites, local, taken>>

NotAcknowledged(c) ==
    /\ calls[c].pc = "projected" /\ ~KeepsOwner(rows, calls[c].member, Acknowledged(c))
    /\ Finish(c)
    /\ lost' = lost \cup {IdOf(calls[c])}
    /\ UNCHANGED <<tables, budget, overlapped>>

(* A call is cut off between two steps. *)
Lose(c) ==
    /\ calls[c].pc # "idle" /\ budget.losses > 0
    /\ Finish(c)
    /\ budget' = [budget EXCEPT !.losses = @ - 1]
    /\ lost' = IF calls[c].pc \in {"recorded", "projected"} THEN lost \cup {IdOf(calls[c])} ELSE lost
    /\ UNCHANGED <<tables, overlapped>>

-----------------------------------------------------------------------------
(* A workspace at rest, whose members joined one after the other. *)
Joined(members) ==
    [p \in People |->
        IF \E k \in DOMAIN members : members[k][1] = p
        THEN LET k == CHOOSE k \in DOMAIN members : members[k][1] = p
             IN  [role |-> members[k][2], status |-> "active", epoch |-> 1, version |-> k]
        ELSE NoRow]

MembershipInit ==
    /\ budget \in Scenarios
    /\ version = Len(budget.members)
    /\ rows = Joined(budget.members)
    /\ local = rows
    /\ ops = {[member |-> budget.members[k][1], role |-> budget.members[k][2],
               status |-> "active", epoch |-> 1, version |-> k] : k \in DOMAIN budget.members}
    /\ taken = {IdOf(o) : o \in ops}
    /\ invites = [i \in Invitations |-> NoInvite]
    /\ calls = [c \in Calls |-> NoCall]
    /\ overlapped = FALSE /\ lost = {}

InvitationStep ==
    \/ \E c \in Calls : \/ CanBegin(c) /\ \E by, p \in People, role \in Roles : BeginInvite(c, by, p, role)
                        \/ \E i \in Invitations : Invite(c, i) \/ BeginAccept(c, i)
                        \/ Admit(c)
                        \/ NotAdmitted(c)
    \/ \E i \in Invitations : RevokeInvitation(i) \/ ConfirmInvitationPlan(i)

ChangeStep ==
    \E c \in Calls :
        \/ CreateWorkspace(c)
        \/ CanBegin(c) /\ \E by, p \in People :
              \/ \E role \in Roles \cup {None}, status \in (Statuses \ {"pending"}) \cup {None} :
                    BeginAdminister(c, by, p, role, status)
              \/ BeginTransfer(c, by, p)
        \/ ReadMember(c) \/ NotProjected(c)
        \/ Record(c) \/ NotRecorded(c)

ProjectionStep ==
    \/ \E c \in Calls : Project(c) \/ NotProjectable(c) \/ Lose(c)
                       \/ Acknowledge(c) \/ NotAcknowledged(c)
    \/ \E o \in ops : Redeliver(o)

MembershipNext == InvitationStep \/ ChangeStep \/ ProjectionStep

MembershipSpec == MembershipInit /\ [][MembershipNext]_vars

-----------------------------------------------------------------------------
(* Properties. *)

MembershipTypeOK ==
    /\ version \in Nat
    /\ \A p \in People : /\ rows[p] # NoRow => rows[p].status \in Statuses /\ rows[p].role \in Roles
                         /\ local[p] # NoRow => local[p].status \in Statuses /\ local[p].role \in Roles
                         /\ rows[p] = NoRow => local[p] = NoRow
    /\ \A o \in ops : o.member \in People /\ o.role \in Roles
    /\ \A c \in Calls : calls[c].pc \in {"idle", "inviting", "joining", "asked", "read",
                                         "recorded", "projected"}
    /\ lost \subseteq {IdOf(o) : o \in ops}

(* Whatever calls overlap, are lost, arrive late or are delivered again,    *)
(* the object holds the newest operation it ever took for a member and      *)
(* nothing else (identity-tenant-contract.md: replays and stale versions).  *)
ProjectionIsNewest ==
    /\ MembershipTypeOK
    /\ taken \subseteq {IdOf(o) : o \in ops}
    /\ \A p \in People :
          LET mine == {o \in ops : o.member = p /\ IdOf(o) \in taken}
          IN  IF mine = {} THEN local[p] = NoRow
              ELSE \E o \in mine : /\ local[p] = ProjectionOf(o)
                                   /\ \A other \in mine : other.version <= o.version

(* The newest operation about a member, where no earlier one was lost. *)
Newest(o) == \A other \in ops : other.member = o.member =>
                 other.version <= o.version /\ (IdOf(other) \in lost => other = o)

(* As long as calls follow one another, nobody acts between the planes:     *)
(* what was recorded as taken away is gone at once, also when the call is   *)
(* lost before the object hears of it, unless an earlier call about the     *)
(* person was lost; who gets through does so with the role both agree on;   *)
(* and between two calls the planes are equal, except for people a lost     *)
(* call was about.  So are the seats: calls that follow one another do not  *)
(* oversell them.  And whatever overlaps or is lost, each plane keeps an    *)
(* active owner; a workspace at rest, one who gets through.                 *)
PlanesAgree ==
    /\ \A table \in {rows, local} :
          (\E p \in People : table[p].status = "active") => \E p \in People : OwnerIn(table, p)
    /\ ~overlapped =>
          /\ \A o \in ops : Newest(o) /\ Access(o.member) =>
                o.status = "active" /\ Rank(local[o.member].role) >= Rank(o.role)
          /\ \A p \in People \ {id[1] : id \in lost} :
                /\ Access(p) => rows[p].role = local[p].role
                /\ InFlight = {} => rows[p] = local[p]
          /\ SeatsTaken <= Seats
          /\ lost = {} /\ InFlight = {} /\ ops # {} => \E p \in People : Access(p) /\ OwnerIn(rows, p)
=============================================================================
