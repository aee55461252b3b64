-------------------------- MODULE ControlPlaneProofs --------------------------
(***************************************************************************)
(* What the steps of Membership, Accounts, OauthTokens and Billing keep,   *)
(* each by itself, for any people, invitations, devices, connections and   *)
(* scenarios.  Module WorkspaceProofs draws the theorems from it.          *)
(*                                                                         *)
(* The two planes of the memberships rest on three invariants.             *)
(* MembersInvariant says what every call in flight knows of the tables it  *)
(* read: what the object took is recorded, an id names one operation, and  *)
(* nobody is projected who has no row; from that, the object holds the     *)
(* newest operation it ever took (ProjectionIsNewest).  OwnersKept says    *)
(* who has an owner before, during and after the founding of a workspace.  *)
(* SerialInvariant says how far an operation can have come while calls     *)
(* follow one another: what is neither under way nor lost is in both       *)
(* planes, what is under way is half written in one of three ways, and     *)
(* whoever is about to be admitted has a seat.  The three give PlanesAgree.*)
(*                                                                         *)
(* AccountInvariant says what an account call may rely on of what it read: *)
(* an epoch only grows, a challenge and a signed request that were used    *)
(* stay used, and a device that was removed comes back with no key.        *)
(* OauthInvariant says which call is alone with a code or a pair of tokens.*)
(* BillingInvariant adds to BillingHolds what a request holds of an event  *)
(* and a projection of the row: as long as the row's moment advances with  *)
(* each of its changes, the moment names the row, so that what was read or *)
(* projected at that moment is the row as it is.                           *)
(***************************************************************************)
EXTENDS OauthTokens, Accounts, Billing, FiniteSetTheorems, SequenceTheorems, TLAPS

MemberRow == [role : Roles, status : Statuses, epoch : Nat, version : Nat]
Table == [People -> MemberRow \cup {NoRow}]
OperationSet == [member : People, role : Roles, status : Statuses, epoch : Nat, version : Nat]
InviteSet == [state : {"none", "ready", "held", "revoked", "accepted"},
              person : People \cup {None}, role : Roles \cup {None}]
CallSet == [pc : {"idle", "inviting", "joining", "asked", "read", "recorded", "projected"},
            kind : {None, "invite", "join", "found", "change", "transfer"},
            by : People \cup {None}, member : People \cup {None}, invite : Invitations \cup {None},
            role : Roles \cup {None}, status : Statuses \cup {None},
            epoch : Nat, version : Nat, reduces : BOOLEAN]

TablesTyped ==
    /\ version \in Nat
    /\ rows \in Table /\ local \in Table
    /\ ops \subseteq OperationSet
    /\ invites \in [Invitations -> InviteSet]
    /\ \A i \in Invitations : invites[i].state \in {"ready", "held"} =>
          invites[i].person \in People /\ invites[i].role \in Roles

(* What a call has read, by how far it has come.                            *)
CallTyped(call) ==
    /\ call.pc # "idle" => call.member \in People /\ call.role \in Roles
    /\ call.pc \notin {"idle", "inviting"} => call.status \in Statuses
    /\ call.pc \in {"joining", "read", "recorded", "projected"} => call.version > 0
    /\ call.pc = "joining" => call.invite \in Invitations
    /\ call.pc # "idle" /\ call.kind = "transfer" => call.by \in People /\ call.status = "active"
    /\ call.pc = "inviting" => call.kind = "invite"
    /\ call.pc = "joining" => call.kind = "join" /\ call.status = "active"
    /\ call.pc \in {"asked", "read"} => call.kind \in {"change", "transfer"}
    /\ call.pc \in {"recorded", "projected"} =>
          /\ call.kind \in {"found", "join", "change", "transfer"}
          /\ call.kind \in {"found", "join"} => call.status = "active"
          /\ call.kind = "found" => call.role = "owner"

CallsTyped ==
    /\ calls \in [Calls -> CallSet]
    /\ \A c \in Calls : CallTyped(calls[c])

(* A call that recorded something is among the operations, and the object   *)
(* has it once it is projected; whoever a call was asked to change has a    *)
(* row, and so has whoever gives the workspace away.                        *)
Rooted(call) ==
    /\ call.pc \in {"recorded", "projected"} => Operation(call) \in ops
    /\ call.pc = "projected" => IdOf(call) \in taken
    /\ call.pc \in {"asked", "read"} => rows[call.member] # NoRow
    /\ call.pc # "idle" /\ call.kind = "transfer" => rows[call.by] # NoRow
CallsKnown == \A c \in Calls : Rooted(calls[c])

OperationsNamed ==
    /\ \A o, q \in ops : IdOf(o) = IdOf(q) => o = q
    /\ \A o \in ops : rows[o.member] # NoRow
    /\ version = 0 => ops = {} /\ \A p \in People : rows[p] = NoRow
    /\ taken \subseteq {IdOf(o) : o \in ops}
    /\ lost \subseteq {IdOf(o) : o \in ops}

(* The object's row is the newest operation it took. *)
LocalIsTaken ==
    \A p \in People : local[p] # NoRow =>
        \E o \in ops : o.member = p /\ IdOf(o) \in taken /\ local[p] = ProjectionOf(o)
LocalIsLast ==
    \A o \in ops : IdOf(o) \in taken =>
        local[o.member] # NoRow /\ o.version <= local[o.member].version

MembersInvariant ==
    /\ TablesTyped /\ CallsTyped /\ CallsKnown /\ OperationsNamed
    /\ LocalIsTaken /\ LocalIsLast


-----------------------------------------------------------------------------
(* Owners. *)

HasOwner(table) == \E p \in People : OwnerIn(table, p)

(* Whatever happened in the workspace, apart from its founding, happened    *)
(* when both planes had an owner, and an owner stays.                       *)
Lively ==
    \/ \E p \in People : rows[p].status = "active"
    \/ \E i \in Invitations : invites[i].state # "none"
    \/ \E c \in InFlight : calls[c].kind # "found"
    \/ \E o \in ops : ~(o.role = "owner" /\ o.status = "active")

Founding(c) == c \in InFlight /\ calls[c].kind = "found"

OwnersKept ==
    /\ Lively => HasOwner(rows) /\ HasOwner(local)
    /\ taken # {} => HasOwner(local)
    /\ \A c \in Calls : Founding(c) =>
          HasOwner(rows) \/ rows[calls[c].member].role = "owner"
    /\ ops # {} /\ lost = {} => HasOwner(rows) \/ \E c \in Calls : Founding(c)

-----------------------------------------------------------------------------
(* Calls that follow one another. *)

Settled(o) == rows[o.member] = ProjectionOf(o) /\ local[o.member] = ProjectionOf(o)

(* Between its two batches, or where its call was lost.                     *)
Reduced(o) ==
    /\ rows[o.member] = ProjectionOf(o)
    /\ local[o.member] = ProjectionOf(o) \/ local[o.member].epoch < o.epoch
Joining(o) == o.status = "active" /\ rows[o.member] = [ProjectionOf(o) EXCEPT !.status = "pending"]
Rising(o) ==
    LET row == rows[o.member]
    IN  /\ o.status = "active" /\ Rank(o.role) <= Rank(row.role) /\ row.epoch < o.epoch
        /\ local[o.member] \in {row, ProjectionOf(o)}
Between(o) == Reduced(o) \/ Joining(o) \/ Rising(o)

(* What a call that recorded something has written of it.                   *)
HalfWritten(call) ==
    LET o == Operation(call)
    IN  IF call.kind \in {"found", "join"} THEN Joining(o)
        ELSE IF call.reduces THEN Reduced(o)
        ELSE Rising(o)

Carries(call, o) == call.pc \in {"recorded", "projected"} /\ Operation(call) = o
Carried(o) == \E c \in Calls : Carries(calls[c], o)

OneCall == \A c, d \in InFlight : c = d
VersionsBelow == \A o \in ops : o.version <= version

(* What the call in flight has read is so still. *)
CallInTurn(call) ==
    LET row == rows[call.member]
    IN  /\ call.pc \in {"joining", "read"} => call.version = version + 1
        /\ call.pc = "read" =>
              /\ call.epoch = row.epoch + 1
              /\ call.reduces <=> call.status # "active" \/ Rank(call.role) > Rank(row.role)
        /\ call.pc \in {"recorded", "projected"} =>
              /\ call.version = version
              /\ Newest(Operation(call)) => HalfWritten(call)
        /\ call.pc # "idle" /\ call.kind = "transfer" => rows[call.by].status = "active"

(* Whoever it is about to admit has a seat. *)
SeatKept(call) ==
    /\ call.pc = "joining" => invites[call.invite].state = "ready" \/ SeatsTaken < Seats
    /\ call.pc \in {"asked", "read", "recorded", "projected"} /\ call.status = "active"
       /\ rows[call.member].status # "active" => SeatsTaken < Seats

(* What is neither lost nor under way has been taken by both planes. *)
Finished(o) == IdOf(o) \notin lost /\ ~Carried(o)

InTurn ==
    /\ OneCall /\ VersionsBelow
    /\ \A c \in Calls : CallInTurn(calls[c]) /\ SeatKept(calls[c])
    /\ \A o \in ops : Finished(o) => IdOf(o) \in taken
    /\ \A o \in ops : Newest(o) => Between(o) /\ (Finished(o) => Settled(o))
    /\ SeatsTaken <= Seats

RowsRecorded == \A p \in People : rows[p] # NoRow => \E o \in ops : o.member = p
BudgetKnown == "seats" \in DOMAIN budget /\ Seats \in Nat \ {0}

SerialInvariant == RowsRecorded /\ BudgetKnown /\ (~overlapped => InTurn)

-----------------------------------------------------------------------------
(* Calls. *)

LEMMA IdleCall == NoCall \in CallSet /\ CallTyped(NoCall) /\ Rooted(NoCall)
BY DEF NoCall, CallSet, CallTyped, Rooted, Roles, Statuses

(* One call goes on; what was recorded stays recorded.                      *)
LEMMA CallGoesOn ==
    ASSUME MembersInvariant, NEW c \in Calls, NEW r \in CallSet, CallTyped(r),
           r.pc \in {"recorded", "projected"} => Operation(r) \in ops',
           r.pc = "projected" => IdOf(r) \in taken', taken \subseteq taken',
           r.pc \in {"asked", "read"} => rows'[r.member] # NoRow,
           r.pc # "idle" /\ r.kind = "transfer" => rows'[r.by] # NoRow,
           ops \subseteq ops', \A p \in People : rows[p] # NoRow => rows'[p] # NoRow,
           calls' = [calls EXCEPT ![c] = r]
    PROVE  CallsTyped' /\ CallsKnown'
<1>1. calls \in [Calls -> CallSet] /\ (\A d \in Calls : CallTyped(calls[d]))
  BY DEF MembersInvariant, CallsTyped
<1>2. calls' \in [Calls -> CallSet]
  BY <1>1
<1>3. \A d \in Calls : calls'[d] = IF d = c THEN r ELSE calls[d]
  BY <1>1
<1>4. \A d \in Calls : CallTyped(calls'[d])
  BY <1>1, <1>3
<1>5. \A d \in Calls : calls'[d].pc \in {"recorded", "projected"} => Operation(calls'[d]) \in ops'
  BY <1>3 DEF MembersInvariant, CallsKnown, Rooted
<1>7. \A d \in Calls : calls'[d].pc = "projected" => IdOf(calls'[d]) \in taken'
  BY <1>3 DEF MembersInvariant, CallsKnown, Rooted
<1>6. \A d \in Calls :
         /\ calls'[d].pc \in {"asked", "read"} => rows'[calls'[d].member] # NoRow
         /\ calls'[d].pc # "idle" /\ calls'[d].kind = "transfer" => rows'[calls'[d].by] # NoRow
  BY <1>1, <1>3 DEF MembersInvariant, CallsKnown, Rooted, CallTyped
<1> QED BY <1>2, <1>4, <1>5, <1>6, <1>7 DEF CallsTyped, CallsKnown, Rooted

(* A step of a call that leaves the tables alone.                           *)
LEMMA OnlyCalls ==
    ASSUME MembersInvariant, UNCHANGED tables, CallsTyped', CallsKnown',
           lost' \subseteq {IdOf(o) : o \in ops}
    PROVE  MembersInvariant'
<1>1. UNCHANGED <<version, rows, ops, invites, local, taken>>
  BY DEF tables
<1>2. TablesTyped'
  BY <1>1 DEF MembersInvariant, TablesTyped
<1>3. OperationsNamed'
  BY <1>1 DEF MembersInvariant, OperationsNamed
<1>4. LocalIsTaken' /\ LocalIsLast'
  BY <1>1 DEF MembersInvariant, LocalIsTaken, LocalIsLast
<1> QED BY <1>2, <1>3, <1>4 DEF MembersInvariant

LEMMA CallEnds ==
    ASSUME MembersInvariant, NEW c \in Calls, Finish(c), UNCHANGED tables,
           lost' \subseteq lost \cup {IdOf(calls[c])},
           lost' # lost => calls[c].pc \in {"recorded", "projected"}
    PROVE  MembersInvariant'
<1>1. UNCHANGED <<rows, ops, taken>>
  BY DEF tables
<1>2. CallsTyped' /\ CallsKnown'
  BY <1>1, IdleCall, CallGoesOn DEF Finish, NoCall
<1>3. lost \subseteq {IdOf(o) : o \in ops}
  BY DEF MembersInvariant, OperationsNamed
<1>4. ASSUME calls[c].pc \in {"recorded", "projected"}
      PROVE  IdOf(calls[c]) \in {IdOf(o) : o \in ops}
  <2>1. Operation(calls[c]) \in ops
    BY <1>4 DEF MembersInvariant, CallsKnown, Rooted
  <2>2. IdOf(calls[c]) = IdOf(Operation(calls[c]))
    BY DEF IdOf, Operation
  <2> QED BY <2>1, <2>2
<1> QED BY <1>2, <1>3, <1>4, OnlyCalls

-----------------------------------------------------------------------------
(* Steps that only read. *)

LEMMA BeginInviteKeeps ==
    ASSUME MembersInvariant, NEW c \in Calls, NEW by \in People, NEW p \in People,
           NEW role \in Roles, BeginInvite(c, by, p, role)
    PROVE  MembersInvariant'
<1> DEFINE r == [NoCall EXCEPT !.pc = "inviting", !.kind = "invite", !.by = by,
                               !.member = p, !.role = role]
<1>1. /\ calls' = [calls EXCEPT ![c] = r]
      /\ UNCHANGED tables /\ UNCHANGED lost
  BY DEF BeginInvite, Begin
<1>2. /\ r.pc = "inviting" /\ r.kind = "invite" /\ r.by = by /\ r.member = p
      /\ r.invite = None /\ r.role = role /\ r.status = None /\ r.epoch = 0
      /\ r.version = 0
  BY DEF NoCall
<1>3. r \in CallSet
  BY IdleCall DEF CallSet
<1> HIDE DEF r
<1>6. CallTyped(r) /\ r.pc = "inviting"
  BY <1>2 DEF CallTyped
<1>4. UNCHANGED <<ops, rows, taken>>
  BY <1>1 DEF tables
<1>5. CallsTyped' /\ CallsKnown'
  BY <1>1, <1>2, <1>3, <1>6, <1>4, CallGoesOn
<1> QED BY <1>1, <1>5, OnlyCalls DEF MembersInvariant, OperationsNamed

LEMMA BeginAcceptKeeps ==
    ASSUME MembersInvariant, NEW c \in Calls, NEW i \in Invitations, BeginAccept(c, i)
    PROVE  MembersInvariant'
<1> DEFINE r == [NoCall EXCEPT !.pc = "joining", !.kind = "join", !.member = invites[i].person,
                     !.invite = i, !.role = invites[i].role, !.status = "active",
                     !.epoch = 1, !.version = version + 1]
<1>1. /\ calls' = [calls EXCEPT ![c] = r]
      /\ UNCHANGED tables /\ UNCHANGED lost
      /\ invites[i].state = "ready"
  BY DEF BeginAccept, Begin
<1>2. /\ r.pc = "joining" /\ r.kind = "join" /\ r.by = None /\ r.member = invites[i].person
      /\ r.invite = i /\ r.role = invites[i].role /\ r.status = "active" /\ r.epoch = 1
      /\ r.version = version + 1
  BY DEF NoCall
<1>3. invites[i].person \in People /\ invites[i].role \in Roles /\ version \in Nat
  BY <1>1 DEF MembersInvariant, TablesTyped
<1>4. r \in CallSet
  <2> DEFINE next == version + 1
  <2>1. next \in Nat /\ "active" \in Statuses \cup {None} /\ 1 \in Nat
    BY <1>3 DEF Statuses
  <2> HIDE DEF next
  <2>2. [NoCall EXCEPT !.pc = "joining", !.kind = "join", !.member = invites[i].person,
                     !.invite = i, !.role = invites[i].role, !.status = "active",
                     !.epoch = 1, !.version = next] \in CallSet
    BY <1>3, <2>1, IdleCall DEF CallSet
  <2> QED BY <2>2 DEF next
<1> HIDE DEF r
<1>7. CallTyped(r) /\ r.pc = "joining"
  BY <1>2, <1>3 DEF CallTyped, Statuses
<1>5. UNCHANGED <<ops, rows, taken>>
  BY <1>1 DEF tables
<1>6. CallsTyped' /\ CallsKnown'
  BY <1>1, <1>2, <1>4, <1>7, <1>5, CallGoesOn
<1> QED BY <1>1, <1>6, OnlyCalls DEF MembersInvariant, OperationsNamed

(* A row that says something is a member's row.                             *)
LEMMA RowThere ==
    ASSUME MembersInvariant, NEW p \in People
    PROVE  /\ rows[p].status # "none" \/ rows[p] # NoRow => rows[p] \in MemberRow
           /\ rows[p].status = "none" => rows[p] = NoRow
           /\ local[p].status = "none" => local[p] = NoRow
           /\ local[p] # NoRow => local[p] \in MemberRow
           /\ rows[p].epoch \in Nat /\ rows[p].version \in Nat
BY DEF MembersInvariant, TablesTyped, Table, MemberRow, NoRow, Statuses

LEMMA BeginAdministerKeeps ==
    ASSUME MembersInvariant, NEW c \in Calls, NEW by \in People, NEW p \in People,
           NEW role \in Roles \cup {None}, NEW status \in (Statuses \ {"pending"}) \cup {None},
           BeginAdminister(c, by, p, role, status)
    PROVE  MembersInvariant'
<1> DEFINE r == [NoCall EXCEPT !.pc = "asked", !.kind = "change", !.by = by, !.member = p,
                     !.role = Or(role, rows[p].role), !.status = Or(status, rows[p].status)]
<1>1. /\ calls' = [calls EXCEPT ![c] = r]
      /\ UNCHANGED tables /\ UNCHANGED lost
      /\ rows[p].status # "none"
  BY DEF BeginAdminister, Begin
<1>2. /\ r.pc = "asked" /\ r.kind = "change" /\ r.by = by /\ r.member = p
      /\ r.invite = None /\ r.role = Or(role, rows[p].role) /\ r.status = Or(status, rows[p].status) /\ r.epoch = 0
      /\ r.version = 0
  BY DEF NoCall
<1>3. rows[p] \in MemberRow
  BY <1>1, RowThere
<1>4. Or(role, rows[p].role) \in Roles /\ Or(status, rows[p].status) \in Statuses
  BY <1>3 DEF Or, MemberRow
<1>5. r \in CallSet
  BY <1>4, IdleCall DEF CallSet
<1> HIDE DEF r
<1>8. CallTyped(r) /\ r.pc = "asked"
  BY <1>2, <1>4 DEF CallTyped
<1>6. UNCHANGED <<ops, rows, taken>>
  BY <1>1 DEF tables
<1>9. rows[p] # NoRow
  BY <1>1 DEF NoRow
<1>7. CallsTyped' /\ CallsKnown'
  BY <1>1, <1>2, <1>5, <1>8, <1>9, <1>6, CallGoesOn
<1> QED BY <1>1, <1>7, OnlyCalls DEF MembersInvariant, OperationsNamed

LEMMA BeginTransferKeeps ==
    ASSUME MembersInvariant, NEW c \in Calls, NEW by \in People, NEW p \in People,
           BeginTransfer(c, by, p)
    PROVE  MembersInvariant'
<1> DEFINE r == [NoCall EXCEPT !.pc = "asked", !.kind = "transfer", !.by = by, !.member = p,
                               !.role = "owner", !.status = "active"]
<1>1. /\ calls' = [calls EXCEPT ![c] = r]
      /\ UNCHANGED tables /\ UNCHANGED lost
      /\ rows[p].status = "active" /\ rows[by].status = "active"
  BY DEF BeginTransfer, Begin, Administrator
<1>2. /\ r.pc = "asked" /\ r.kind = "transfer" /\ r.by = by /\ r.member = p
      /\ r.invite = None /\ r.role = "owner" /\ r.status = "active" /\ r.epoch = 0
      /\ r.version = 0
  BY DEF NoCall
<1>3. r \in CallSet
  BY IdleCall DEF CallSet, Roles, Statuses
<1> HIDE DEF r
<1>6. CallTyped(r) /\ r.pc = "asked"
  BY <1>2 DEF CallTyped, Roles, Statuses
<1>4. UNCHANGED <<ops, rows, taken>>
  BY <1>1 DEF tables
<1>7. rows[p] # NoRow /\ rows[by] # NoRow
  BY <1>1 DEF NoRow
<1>5. CallsTyped' /\ CallsKnown'
  BY <1>1, <1>2, <1>3, <1>6, <1>4, <1>7, CallGoesOn
<1> QED BY <1>1, <1>5, OnlyCalls DEF MembersInvariant, OperationsNamed

LEMMA ReadMemberKeeps ==
    ASSUME MembersInvariant, NEW c \in Calls, ReadMember(c)
    PROVE  MembersInvariant'
<1> DEFINE call == calls[c]
           row == rows[call.member]
           reducing == call.status # "active" \/ Rank(call.role) > Rank(row.role)
           r == [call EXCEPT !.pc = "read", !.version = version + 1, !.epoch = row.epoch + 1,
                             !.reduces = reducing]
<1>1. /\ call.pc = "asked"
      /\ calls' = [calls EXCEPT ![c] = r]
      /\ UNCHANGED tables /\ UNCHANGED lost
  BY DEF ReadMember, At
<1>2. reducing \in BOOLEAN
  OBVIOUS
<1>3. call \in CallSet /\ CallTyped(call) /\ version \in Nat
  BY DEF MembersInvariant, CallsTyped, TablesTyped
<1>4. call.member \in People /\ call.role \in Roles /\ call.status \in Statuses
  BY <1>1, <1>3 DEF CallTyped
<1>5. row.epoch \in Nat
  BY <1>4, RowThere
<1> HIDE DEF reducing, row
<1>6. /\ r.pc = "read" /\ r.kind = call.kind /\ r.by = call.by /\ r.member = call.member
      /\ r.role = call.role /\ r.status = call.status /\ r.version = version + 1
  BY <1>3 DEF CallSet
<1>7. call.kind = "transfer" => call.by \in People /\ call.status = "active"
  BY <1>1, <1>3 DEF CallTyped
<1>8. r \in CallSet
  <2> DEFINE next == version + 1
             after == row.epoch + 1
  <2>1. next \in Nat /\ after \in Nat
    BY <1>3, <1>5
  <2> HIDE DEF next, after
  <2>2. [call EXCEPT !.pc = "read", !.version = next, !.epoch = after, !.reduces = reducing]
           \in CallSet
    BY <1>2, <1>3, <2>1 DEF CallSet
  <2> QED BY <2>2 DEF next, after
<1>12. rows[call.member] # NoRow /\ (call.kind = "transfer" => rows[call.by] # NoRow)
  BY <1>1 DEF MembersInvariant, CallsKnown, Rooted
<1> HIDE DEF r, call
<1>9. CallTyped(r) /\ r.pc = "read"
  BY <1>1, <1>3, <1>4, <1>6, <1>7 DEF CallTyped
<1>10. UNCHANGED <<ops, rows, taken>>
  BY <1>1 DEF tables
<1>11. CallsTyped' /\ CallsKnown'
  BY <1>1, <1>6, <1>8, <1>9, <1>10, <1>12, CallGoesOn
<1> QED BY <1>1, <1>11, OnlyCalls DEF MembersInvariant, OperationsNamed

(* Steps that end a call: nothing else changes.                             *)
LEMMA EndingKeeps ==
    ASSUME MembersInvariant, NEW c \in Calls,
           NotAdmitted(c) \/ NotProjected(c) \/ NotRecorded(c) \/ NotProjectable(c)
              \/ NotAcknowledged(c) \/ Lose(c)
    PROVE  MembersInvariant'
<1>1. /\ Finish(c) /\ UNCHANGED tables
      /\ lost' = lost \/ lost' = lost \cup {IdOf(calls[c])}
      /\ lost' # lost => calls[c].pc \in {"recorded", "projected"}
  BY DEF NotAdmitted, NotProjected, NotRecorded, NotProjectable, NotAcknowledged, Lose, At
<1> QED BY <1>1, CallEnds

-----------------------------------------------------------------------------
(* Invitations. *)

LEMMA InvitesChange ==
    ASSUME MembersInvariant, UNCHANGED <<version, rows, ops, local, taken, lost>>,
           NEW i \in Invitations, NEW invite \in InviteSet,
           invite.state \in {"ready", "held"} => invite.person \in People /\ invite.role \in Roles,
           invites' = [invites EXCEPT ![i] = invite], CallsTyped', CallsKnown'
    PROVE  MembersInvariant'
<1>1. /\ invites \in [Invitations -> InviteSet]
      /\ \A k \in Invitations : invites[k].state \in {"ready", "held"} =>
            invites[k].person \in People /\ invites[k].role \in Roles
  BY DEF MembersInvariant, TablesTyped
<1>2. invites' \in [Invitations -> InviteSet]
  BY <1>1
<1>3. \A k \in Invitations : invites'[k].state \in {"ready", "held"} =>
         invites'[k].person \in People /\ invites'[k].role \in Roles
  BY <1>1
<1>4. TablesTyped'
  BY <1>2, <1>3 DEF MembersInvariant, TablesTyped
<1>5. OperationsNamed'
  BY DEF MembersInvariant, OperationsNamed
<1>6. LocalIsTaken' /\ LocalIsLast'
  BY DEF MembersInvariant, LocalIsTaken, LocalIsLast
<1> QED BY <1>4, <1>5, <1>6 DEF MembersInvariant

LEMMA InviteKeeps ==
    ASSUME MembersInvariant, NEW c \in Calls, NEW i \in Invitations, Invite(c, i)
    PROVE  MembersInvariant'
<1> DEFINE state == IF SeatsTaken >= Seats THEN "held" ELSE "ready"
           invite == [state |-> state, person |-> calls[c].member, role |-> calls[c].role]
<1>1. /\ calls[c].pc = "inviting" /\ Finish(c)
      /\ invites' = [invites EXCEPT ![i] = invite]
      /\ UNCHANGED <<version, rows, ops, local, taken, lost>>
  BY DEF Invite, At
<1>2. state \in {"held", "ready"}
  OBVIOUS
<1>3. calls[c].member \in People /\ calls[c].role \in Roles
  BY <1>1 DEF MembersInvariant, CallsTyped, CallTyped
<1> HIDE DEF state
<1>4. invite \in InviteSet /\ invite.person \in People /\ invite.role \in Roles
  BY <1>2, <1>3 DEF InviteSet
<1>5. CallsTyped' /\ CallsKnown'
  BY <1>1, IdleCall, CallGoesOn DEF Finish, NoCall
<1> HIDE DEF invite
<1> QED BY <1>1, <1>4, <1>5, InvitesChange

(* An invitation that was made keeps its person. *)
LEMMA InvitationMoves ==
    ASSUME MembersInvariant, NEW i \in Invitations,
           NEW state \in {"none", "ready", "held", "revoked", "accepted"},
           state \in {"ready", "held"} => invites[i].state \in {"ready", "held"}
    PROVE  /\ [invites[i] EXCEPT !.state = state] \in InviteSet
           /\ [invites[i] EXCEPT !.state = state].state \in {"ready", "held"} =>
                 /\ [invites[i] EXCEPT !.state = state].person \in People
                 /\ [invites[i] EXCEPT !.state = state].role \in Roles
<1>1. invites[i] \in InviteSet
  BY DEF MembersInvariant, TablesTyped
<1>2. [invites[i] EXCEPT !.state = state] \in InviteSet
  BY <1>1 DEF InviteSet
<1>3. /\ [invites[i] EXCEPT !.state = state].state = state
      /\ [invites[i] EXCEPT !.state = state].person = invites[i].person
      /\ [invites[i] EXCEPT !.state = state].role = invites[i].role
  BY <1>1 DEF InviteSet
<1> QED BY <1>2, <1>3 DEF MembersInvariant, TablesTyped

LEMMA CallsStay ==
    ASSUME MembersInvariant, UNCHANGED <<calls, rows>>, ops \subseteq ops', taken \subseteq taken'
    PROVE  CallsTyped' /\ CallsKnown'
<1>1. CallsTyped'
  BY DEF MembersInvariant, CallsTyped
<1>2. \A c \in Calls : calls[c].pc \in {"recorded", "projected"} => Operation(calls[c]) \in ops'
  BY DEF MembersInvariant, CallsKnown, Rooted
<1>4. \A c \in Calls : calls[c].pc = "projected" => IdOf(calls[c]) \in taken'
  BY DEF MembersInvariant, CallsKnown, Rooted
<1>3. \A c \in Calls : Rooted(calls[c])'
  BY <1>2, <1>4 DEF Rooted, MembersInvariant, CallsKnown
<1> QED BY <1>1, <1>3 DEF CallsKnown

LEMMA RevokeKeeps ==
    ASSUME MembersInvariant, NEW i \in Invitations,
           RevokeInvitation(i) \/ ConfirmInvitationPlan(i)
    PROVE  MembersInvariant'
<1>1. UNCHANGED <<version, rows, ops, local, taken, lost, calls>>
  BY DEF RevokeInvitation, ConfirmInvitationPlan
<1>2. CallsTyped' /\ CallsKnown'
  BY <1>1, CallsStay
<1>3. CASE RevokeInvitation(i)
  <2> DEFINE invite == [invites[i] EXCEPT !.state = "revoked"]
  <2>1. invites' = [invites EXCEPT ![i] = invite]
    BY <1>3 DEF RevokeInvitation
  <2>2. invite \in InviteSet
        /\ (invite.state \in {"ready", "held"} => invite.person \in People /\ invite.role \in Roles)
    BY InvitationMoves
  <2> HIDE DEF invite
  <2> QED BY <1>1, <1>2, <2>1, <2>2, InvitesChange
<1>4. CASE ConfirmInvitationPlan(i)
  <2> DEFINE invite == [invites[i] EXCEPT !.state = "ready"]
  <2>1. invites' = [invites EXCEPT ![i] = invite] /\ invites[i].state \in {"ready", "held"}
    BY <1>4 DEF ConfirmInvitationPlan
  <2>2. invite \in InviteSet
        /\ (invite.state \in {"ready", "held"} => invite.person \in People /\ invite.role \in Roles)
    BY <2>1, InvitationMoves
  <2> HIDE DEF invite
  <2> QED BY <1>1, <1>2, <2>1, <2>2, InvitesChange
<1> QED BY <1>3, <1>4

-----------------------------------------------------------------------------
(* Steps that record an operation. *)

LEMMA NewOperation ==
    ASSUME MembersInvariant, NEW o \in OperationSet,
           IdOf(o) \notin {IdOf(q) : q \in ops}, ops' = ops \cup {o},
           rows' \in Table, rows'[o.member] # NoRow,
           \A p \in People : rows[p] # NoRow => rows'[p] # NoRow,
           version' \in Nat \ {0},
           invites' \in [Invitations -> InviteSet],
           \A i \in Invitations : invites'[i].state \in {"ready", "held"} =>
              invites'[i].person \in People /\ invites'[i].role \in Roles,
           UNCHANGED <<local, taken, lost>>, CallsTyped', CallsKnown'
    PROVE  MembersInvariant'
<1>1. /\ ops \subseteq OperationSet /\ local \in Table
      /\ \A q, r \in ops : IdOf(q) = IdOf(r) => q = r
      /\ \A q \in ops : rows[q.member] # NoRow
      /\ taken \subseteq {IdOf(q) : q \in ops} /\ lost \subseteq {IdOf(q) : q \in ops}
  BY DEF MembersInvariant, TablesTyped, OperationsNamed
<1>2. TablesTyped'
  BY <1>1 DEF TablesTyped
<1>3. \A q \in ops : q.member \in People
  BY <1>1 DEF OperationSet
<1>4. /\ \A q, r \in ops' : IdOf(q) = IdOf(r) => q = r
      /\ \A q \in ops' : rows'[q.member] # NoRow
  BY <1>1, <1>3
<1>5. {IdOf(q) : q \in ops} \subseteq {IdOf(q) : q \in ops'}
  OBVIOUS
<1>6. OperationsNamed'
  BY <1>1, <1>4, <1>5 DEF OperationsNamed, IdOf
<1>7. LocalIsTaken'
  BY DEF MembersInvariant, LocalIsTaken
<1>8. \A q \in ops' : IdOf(q) \in taken => q \in ops
  BY <1>1
<1>9. LocalIsLast'
  BY <1>8 DEF MembersInvariant, LocalIsLast, IdOf
<1> QED BY <1>2, <1>6, <1>7, <1>9 DEF MembersInvariant

LEMMA CallContinues ==
    ASSUME MembersInvariant, NEW c \in Calls, NEW pc \in {"recorded", "projected"},
           calls[c].pc \in {"joining", "read", "recorded"},
           Continue(c, pc), ops \subseteq ops', Operation(calls[c]) \in ops',
           taken \subseteq taken', pc = "projected" => IdOf(calls[c]) \in taken',
           \A p \in People : rows[p] # NoRow => rows'[p] # NoRow
    PROVE  CallsTyped' /\ CallsKnown'
<1> DEFINE r == [calls[c] EXCEPT !.pc = pc]
<1>1. calls[c] \in CallSet /\ CallTyped(calls[c])
  BY DEF MembersInvariant, CallsTyped
<1>2. calls' = [calls EXCEPT ![c] = r]
  BY DEF Continue
<1>3. r \in CallSet
  BY <1>1 DEF CallSet
<1>4. /\ r.pc = pc /\ r.kind = calls[c].kind /\ r.by = calls[c].by /\ r.member = calls[c].member
      /\ r.role = calls[c].role /\ r.status = calls[c].status /\ r.version = calls[c].version
      /\ r.epoch = calls[c].epoch
  BY <1>1 DEF CallSet
<1> HIDE DEF r
<1>5. CallTyped(r)
  BY <1>1, <1>4 DEF CallTyped
<1>6. Operation(r) \in ops'
  BY <1>4 DEF Operation
<1>8. pc = "projected" => IdOf(r) \in taken'
  BY <1>4 DEF IdOf
<1>7. r.kind = "transfer" => rows'[r.by] # NoRow
  BY <1>1, <1>4 DEF MembersInvariant, CallsKnown, Rooted, CallTyped
<1> QED BY <1>2, <1>3, <1>4, <1>5, <1>6, <1>7, <1>8, CallGoesOn

(* What a call that is joining or has read would record. *)
LEMMA OperationOfCall ==
    ASSUME MembersInvariant, NEW c \in Calls,
           calls[c].pc \in {"joining", "read", "recorded", "projected"}
    PROVE  /\ Operation(calls[c]) \in OperationSet
           /\ Operation(calls[c]).member = calls[c].member /\ calls[c].member \in People
           /\ Operation(calls[c]).version = calls[c].version /\ calls[c].version \in Nat \ {0}
           /\ IdOf(Operation(calls[c])) = IdOf(calls[c])
           /\ Projection(calls[c]) \in MemberRow
<1>1. calls[c] \in CallSet /\ CallTyped(calls[c])
  BY DEF MembersInvariant, CallsTyped
<1>2. calls[c].member \in People /\ calls[c].role \in Roles /\ calls[c].status \in Statuses
      /\ calls[c].epoch \in Nat /\ calls[c].version \in Nat /\ calls[c].version > 0
  BY <1>1 DEF CallTyped, CallSet
<1> QED BY <1>2 DEF Operation, OperationSet, IdOf, Projection, MemberRow

LEMMA AdmitKeeps ==
    ASSUME MembersInvariant, NEW c \in Calls, Admit(c)
    PROVE  MembersInvariant'
<1> DEFINE call == calls[c]
           o == Operation(call)
           row == [Projection(call) EXCEPT !.status = "pending"]
           invite == [invites[call.invite] EXCEPT !.state = "accepted"]
<1>1. /\ call.pc = "joining" /\ rows[call.member].status = "none"
      /\ rows' = [rows EXCEPT ![call.member] = row]
      /\ version' = call.version
      /\ invites' = [invites EXCEPT ![call.invite] = invite]
      /\ ops' = ops \cup {o}
      /\ Continue(c, "recorded")
      /\ UNCHANGED <<local, taken, lost>>
  BY DEF Admit, At
<1>2. /\ o \in OperationSet /\ o.member = call.member /\ call.member \in People
      /\ call.version \in Nat \ {0} /\ Projection(call) \in MemberRow
  BY <1>1, OperationOfCall
<1>3. row \in MemberRow
  BY <1>2 DEF MemberRow, Statuses
<1>4. call.invite \in Invitations
  BY <1>1 DEF MembersInvariant, CallsTyped, CallTyped
<1>5. /\ rows \in Table /\ invites \in [Invitations -> InviteSet]
      /\ \A i \in Invitations : invites[i].state \in {"ready", "held"} =>
            invites[i].person \in People /\ invites[i].role \in Roles
  BY DEF MembersInvariant, TablesTyped
<1>6. rows[call.member] = NoRow
  BY <1>1, <1>2, RowThere
<1>7. IdOf(o) \notin {IdOf(q) : q \in ops}
  BY <1>2, <1>6 DEF MembersInvariant, OperationsNamed, IdOf
<1>8. invite \in InviteSet /\ invite.state = "accepted"
  BY <1>4, <1>5 DEF InviteSet
<1> HIDE DEF o, row, invite
<1>10. rows' \in Table /\ rows'[o.member] # NoRow
  BY <1>1, <1>2, <1>3, <1>5 DEF Table, NoRow, MemberRow, Statuses
<1>11. \A p \in People : rows[p] # NoRow => rows'[p] # NoRow
  BY <1>1, <1>2, <1>5, <1>6 DEF Table
<1>9. CallsTyped' /\ CallsKnown'
  BY <1>1, <1>11, CallContinues DEF o
<1> HIDE DEF call
<1>12. /\ invites' \in [Invitations -> InviteSet]
       /\ \A i \in Invitations : invites'[i].state \in {"ready", "held"} =>
             invites'[i].person \in People /\ invites'[i].role \in Roles
  BY <1>1, <1>4, <1>5, <1>8
<1> QED BY <1>1, <1>2, <1>7, <1>9, <1>10, <1>11, <1>12, NewOperation

LEMMA CreateWorkspaceKeeps ==
    ASSUME MembersInvariant, NEW c \in Calls, CreateWorkspace(c)
    PROVE  MembersInvariant'
<1> DEFINE call == [NoCall EXCEPT !.pc = "recorded", !.kind = "found", !.member = Founder,
                       !.role = "owner", !.status = "active", !.epoch = 1, !.version = 1]
           o == Operation(call)
           row == [Projection(call) EXCEPT !.status = "pending"]
<1>1. /\ version = 0 /\ version' = 1
      /\ calls' = [calls EXCEPT ![c] = call]
      /\ rows' = [rows EXCEPT ![Founder] = row]
      /\ ops' = ops \cup {o}
      /\ UNCHANGED <<invites, local, taken, lost>>
  BY DEF CreateWorkspace, Begin
<1>2. /\ call.pc = "recorded" /\ call.kind = "found" /\ call.member = Founder
      /\ call.role = "owner" /\ call.status = "active" /\ call.epoch = 1 /\ call.version = 1
  BY DEF NoCall
<1>3. Founder \in People /\ "owner" \in Roles /\ "active" \in Statuses /\ "pending" \in Statuses
  BY MembershipAssumption DEF Roles, Statuses
<1>4. call \in CallSet
  BY <1>3, IdleCall DEF CallSet
<1> HIDE DEF call
<1>5. CallTyped(call)
  BY <1>2, <1>3 DEF CallTyped
<1>6. o \in OperationSet /\ o.member = Founder /\ o.version = 1
  BY <1>2, <1>3 DEF Operation, OperationSet
<1>7. row = [role |-> "owner", status |-> "pending", epoch |-> 1, version |-> 1]
  BY <1>2 DEF Projection
<1> HIDE DEF row
<1>8. row \in MemberRow /\ row # NoRow
  BY <1>3, <1>7 DEF MemberRow, NoRow
<1>9. ops = {} /\ (\A p \in People : rows[p] = NoRow)
  BY <1>1 DEF MembersInvariant, OperationsNamed
<1>11. rows \in Table /\ invites \in [Invitations -> InviteSet]
       /\ \A i \in Invitations : invites[i].state \in {"ready", "held"} =>
             invites[i].person \in People /\ invites[i].role \in Roles
  BY DEF MembersInvariant, TablesTyped
<1>12. rows' \in Table /\ rows'[o.member] # NoRow
  BY <1>1, <1>3, <1>6, <1>8, <1>11 DEF Table
<1> HIDE DEF o
<1>13. IdOf(o) \notin {IdOf(q) : q \in ops}
  BY <1>9
<1>14. \A p \in People : rows[p] # NoRow => rows'[p] # NoRow
  BY <1>9
<1>10. CallsTyped' /\ CallsKnown'
  BY <1>1, <1>2, <1>4, <1>5, <1>14, CallGoesOn DEF o
<1>15. version' \in Nat \ {0}
  BY <1>1
<1> QED BY <1>1, <1>6, <1>10, <1>11, <1>12, <1>13, <1>14, <1>15, NewOperation

LEMMA RecordKeeps ==
    ASSUME MembersInvariant, NEW c \in Calls, Record(c)
    PROVE  MembersInvariant'
<1> DEFINE call == calls[c]
           o == Operation(call)
<1>1. /\ call.pc = "read" /\ Recordable(call)
      /\ version' = call.version
      /\ rows' = IF call.reduces THEN [rows EXCEPT ![call.member] = Projection(call)] ELSE rows
      /\ ops' = ops \cup {o}
      /\ Continue(c, "recorded")
      /\ UNCHANGED <<invites, local, taken, lost>>
  BY DEF Record, At
<1>2. /\ o \in OperationSet /\ o.member = call.member /\ call.member \in People
      /\ call.version \in Nat \ {0} /\ Projection(call) \in MemberRow /\ IdOf(o) = IdOf(call)
  BY <1>1, OperationOfCall
<1>3. IdOf(o) \notin {IdOf(q) : q \in ops}
  BY <1>1, <1>2 DEF Recordable
<1>5. rows \in Table /\ invites \in [Invitations -> InviteSet]
      /\ \A i \in Invitations : invites[i].state \in {"ready", "held"} =>
            invites[i].person \in People /\ invites[i].role \in Roles
  BY DEF MembersInvariant, TablesTyped
<1>6. rows[call.member] # NoRow
  BY <1>1, <1>2 DEF MembersInvariant, CallsKnown, Rooted
<1> HIDE DEF o
<1>7. Projection(call) # NoRow
  BY <1>2 DEF MemberRow, NoRow, Statuses
<1>8. rows' \in Table /\ rows'[o.member] # NoRow
  BY <1>1, <1>2, <1>5, <1>6, <1>7 DEF Table
<1>9. \A p \in People : rows[p] # NoRow => rows'[p] # NoRow
  BY <1>1, <1>2, <1>5, <1>7 DEF Table
<1>4. CallsTyped' /\ CallsKnown'
  BY <1>1, <1>9, CallContinues DEF o
<1> HIDE DEF call
<1> QED BY <1>1, <1>2, <1>3, <1>4, <1>5, <1>8, <1>9, NewOperation

-----------------------------------------------------------------------------
(* The workspace object. *)

LEMMA ApplyMembershipKeeps ==
    ASSUME MembersInvariant, NEW o \in ops, ApplyMembership(o),
           UNCHANGED <<version, rows, ops, invites, lost>>, CallsTyped', CallsKnown'
    PROVE  MembersInvariant'
<1>1. /\ o \in OperationSet /\ ops \subseteq OperationSet /\ local \in Table
      /\ \A q, r \in ops : IdOf(q) = IdOf(r) => q = r
      /\ taken \subseteq {IdOf(q) : q \in ops}
  BY DEF MembersInvariant, TablesTyped, OperationsNamed
<1>2. o.member \in People /\ o.version \in Nat /\ ProjectionOf(o) \in MemberRow
  BY <1>1 DEF OperationSet, ProjectionOf, MemberRow
<1>3. taken' = taken \cup {IdOf(o)}
  BY DEF ApplyMembership
<1>4. CASE IdOf(o) \in taken
  <2>1. UNCHANGED <<local, taken>>
    BY <1>3, <1>4 DEF ApplyMembership
  <2>2. TablesTyped' /\ OperationsNamed'
    BY <2>1 DEF MembersInvariant, TablesTyped, OperationsNamed
  <2>3. LocalIsTaken' /\ LocalIsLast'
    BY <2>1 DEF MembersInvariant, LocalIsTaken, LocalIsLast
  <2> QED BY <2>2, <2>3 DEF MembersInvariant
<1>5. CASE IdOf(o) \notin taken
  <2>1. /\ local' = [local EXCEPT ![o.member] = ProjectionOf(o)]
        /\ ~(local[o.member].version >= o.version)
    BY <1>5 DEF ApplyMembership, Refused
  <2>2. local' \in Table
    BY <1>1, <1>2, <2>1 DEF Table
  <2>3. TablesTyped'
    BY <2>2 DEF MembersInvariant, TablesTyped
  <2>4. OperationsNamed'
    BY <1>3 DEF MembersInvariant, OperationsNamed
  <2>5. \A p \in People : local'[p] = IF p = o.member THEN ProjectionOf(o) ELSE local[p]
    BY <1>1, <2>1 DEF Table
  <2>6. LocalIsTaken'
    <3> SUFFICES ASSUME NEW p \in People, local'[p] # NoRow
                 PROVE  \E q \in ops : q.member = p /\ IdOf(q) \in taken' /\ local'[p] = ProjectionOf(q)
      BY DEF LocalIsTaken
    <3>1. CASE p = o.member
      BY <1>3, <2>5, <3>1
    <3>2. CASE p # o.member
      <4>1. local'[p] = local[p]
        BY <2>5, <3>2
      <4> QED BY <1>3, <4>1 DEF MembersInvariant, LocalIsTaken
    <3> QED BY <3>1, <3>2
  <2>7. LocalIsLast'
    <3> SUFFICES ASSUME NEW q \in ops, IdOf(q) \in taken'
                 PROVE  local'[q.member] # NoRow /\ q.version <= local'[q.member].version
      BY DEF LocalIsLast
    <3>0. q.member \in People /\ q.version \in Nat
      BY <1>1 DEF OperationSet
    <3>1. CASE q = o
      BY <1>2, <2>5, <3>1 DEF ProjectionOf, NoRow, MemberRow, Statuses
    <3>2. CASE q # o /\ q.member = o.member
      <4>1. IdOf(q) \in taken
        BY <1>1, <1>3, <3>2
      <4>2. q.version <= local[o.member].version
        BY <3>2, <4>1 DEF MembersInvariant, LocalIsLast
      <4>3. local[o.member].version \in Nat
        BY <1>1, <1>2 DEF Table, MemberRow, NoRow
      <4>4. local'[q.member] = ProjectionOf(o) /\ ProjectionOf(o).version = o.version
        BY <1>2, <2>5, <3>2 DEF ProjectionOf
      <4>5. q.version <= o.version
        BY <1>2, <2>1, <3>0, <4>2, <4>3
      <4> QED BY <1>2, <4>4, <4>5 DEF NoRow, MemberRow, Statuses
    <3>3. CASE q.member # o.member
      <4>1. IdOf(q) \in taken
        BY <1>3, <3>3 DEF IdOf
      <4>2. local'[q.member] = local[q.member]
        BY <2>5, <3>0, <3>3
      <4> QED BY <4>1, <4>2 DEF MembersInvariant, LocalIsLast
    <3> QED BY <3>1, <3>2, <3>3
  <2> QED BY <2>3, <2>4, <2>6, <2>7 DEF MembersInvariant
<1> QED BY <1>4, <1>5

LEMMA ProjectKeeps ==
    ASSUME MembersInvariant, NEW c \in Calls, Project(c)
    PROVE  MembersInvariant'
<1>1. /\ calls[c].pc = "recorded" /\ ApplyMembership(Operation(calls[c]))
      /\ Continue(c, "projected") /\ UNCHANGED <<version, rows, ops, invites, lost>>
  BY DEF Project, At
<1>2. Operation(calls[c]) \in ops
  BY <1>1 DEF MembersInvariant, CallsKnown, Rooted
<1>4. taken \subseteq taken' /\ IdOf(calls[c]) \in taken'
  BY <1>1 DEF ApplyMembership, IdOf, Operation
<1>3. CallsTyped' /\ CallsKnown'
  BY <1>1, <1>2, <1>4, CallContinues
<1> QED BY <1>1, <1>2, <1>3, ApplyMembershipKeeps

LEMMA RedeliverKeeps ==
    ASSUME MembersInvariant, NEW o \in ops, Redeliver(o)
    PROVE  MembersInvariant'
<1>1. ApplyMembership(o) /\ UNCHANGED <<version, rows, ops, invites, lost, calls>>
  BY DEF Redeliver
<1>2. CallsTyped' /\ CallsKnown'
  BY <1>1, CallsStay DEF ApplyMembership
<1> QED BY <1>1, <1>2, ApplyMembershipKeeps

(* What the second batch writes. *)
LEMMA AcknowledgedRow ==
    ASSUME MembersInvariant, NEW c \in Calls, calls[c].pc = "projected"
    PROVE  Acknowledged(c) \in MemberRow
<1>1. Operation(calls[c]) \in ops
  BY DEF MembersInvariant, CallsKnown, Rooted
<1>2. calls[c].member \in People /\ Projection(calls[c]) \in MemberRow
      /\ Operation(calls[c]).member = calls[c].member
  BY OperationOfCall
<1>3. rows[calls[c].member] # NoRow
  BY <1>1, <1>2 DEF MembersInvariant, OperationsNamed
<1>4. rows[calls[c].member] \in MemberRow
  BY <1>2, <1>3, RowThere
<1>5. [rows[calls[c].member] EXCEPT !.status = "active"] \in MemberRow
  BY <1>4 DEF MemberRow, Statuses
<1> QED BY <1>2, <1>4, <1>5 DEF Acknowledged

LEMMA AcknowledgeKeeps ==
    ASSUME MembersInvariant, NEW c \in Calls, Acknowledge(c)
    PROVE  MembersInvariant'
<1> DEFINE call == calls[c]
           p == call.member
           row == Acknowledged(c)
           onward == [NoCall EXCEPT !.pc = "asked", !.kind = "change", !.by = call.by,
                                    !.member = call.by, !.role = "admin", !.status = "active"]
<1>1. /\ call.pc = "projected"
      /\ rows' = [rows EXCEPT ![p] = row]
      /\ \/ /\ call.kind = "transfer"
            /\ calls' = [calls EXCEPT ![c] = onward]
         \/ Finish(c)
      /\ UNCHANGED <<version, ops, invites, local, taken, lost>>
  BY DEF Acknowledge, At
<1>2. row \in MemberRow /\ p \in People
  BY <1>1, AcknowledgedRow, OperationOfCall
<1>3. rows \in Table
  BY DEF MembersInvariant, TablesTyped
<1>4. row # NoRow
  BY <1>2 DEF MemberRow, NoRow, Statuses
<1> HIDE DEF row, p
<1>5. rows' \in Table /\ \A q \in People : rows[q] # NoRow => rows'[q] # NoRow
  BY <1>1, <1>2, <1>3, <1>4 DEF Table
<1>6. CallsTyped' /\ CallsKnown'
  <2>1. CASE Finish(c)
    BY <1>1, <1>5, <2>1, IdleCall, CallGoesOn DEF Finish, NoCall
  <2>2. CASE call.kind = "transfer" /\ calls' = [calls EXCEPT ![c] = onward]
    <3>1. call.by \in People /\ rows[call.by] # NoRow
      BY <1>1, <2>2 DEF MembersInvariant, CallsTyped, CallTyped, CallsKnown, Rooted
    <3>2. "admin" \in Roles /\ "active" \in Statuses
      BY DEF Roles, Statuses
    <3>3. onward \in CallSet
      BY <3>1, <3>2, IdleCall DEF CallSet
    <3>4. /\ onward.pc = "asked" /\ onward.kind = "change" /\ onward.member = call.by
          /\ onward.role = "admin" /\ onward.status = "active"
      BY DEF NoCall
    <3> HIDE DEF onward
    <3>5. CallTyped(onward)
      BY <3>1, <3>2, <3>4 DEF CallTyped
    <3>6. rows'[call.by] # NoRow
      BY <1>5, <3>1
    <3> QED BY <1>1, <1>5, <2>2, <3>3, <3>4, <3>5, <3>6, CallGoesOn
  <2> QED BY <1>1, <2>1, <2>2
<1>7. TablesTyped'
  BY <1>1, <1>5 DEF MembersInvariant, TablesTyped
<1>8. OperationsNamed'
  <2>1. \A o \in ops : o.member \in People
    BY DEF MembersInvariant, TablesTyped, OperationSet
  <2>2. \A o \in ops : rows'[o.member] # NoRow
    BY <1>5, <2>1 DEF MembersInvariant, OperationsNamed
  <2>3. version # 0
    <3>1. Operation(call) \in ops
      BY <1>1 DEF MembersInvariant, CallsKnown, Rooted
    <3> QED BY <3>1 DEF MembersInvariant, OperationsNamed
  <2> QED BY <1>1, <2>2, <2>3 DEF MembersInvariant, OperationsNamed
<1>9. LocalIsTaken' /\ LocalIsLast'
  BY <1>1 DEF MembersInvariant, LocalIsTaken, LocalIsLast
<1> QED BY <1>6, <1>7, <1>8, <1>9 DEF MembersInvariant

-----------------------------------------------------------------------------
(* The memberships, wherever they take steps. *)

LEMMA MembersStart == MembershipInit => MembersInvariant
<1> SUFFICES ASSUME MembershipInit PROVE MembersInvariant
  OBVIOUS
<1> DEFINE ms == budget.members
           op(k) == [member |-> ms[k][1], role |-> ms[k][2], status |-> "active",
                     epoch |-> 1, version |-> k]
<1>1. /\ ms \in Seq(People \X Roles)
      /\ \A k, l \in DOMAIN ms : ms[k][1] = ms[l][1] => k = l
  BY MembershipAssumption DEF MembershipInit, Roles
<1>2. /\ Len(ms) \in Nat /\ DOMAIN ms = 1 .. Len(ms)
      /\ \A k \in DOMAIN ms : ms[k][1] \in People /\ ms[k][2] \in Roles
  BY <1>1
<1>3. /\ version = Len(ms) /\ rows = Joined(ms) /\ local = rows
      /\ ops = {op(k) : k \in DOMAIN ms} /\ taken = {IdOf(o) : o \in ops}
      /\ invites = [i \in Invitations |-> NoInvite]
      /\ calls = [c \in Calls |-> NoCall] /\ lost = {}
  BY DEF MembershipInit
<1> HIDE DEF ms
<1>4. \A k \in DOMAIN ms : op(k) \in OperationSet
  BY <1>2 DEF OperationSet, Statuses
<1>5. \A k \in DOMAIN ms : op(k).member = ms[k][1] /\ op(k).version = k
  OBVIOUS
<1>6. \A k \in DOMAIN ms : rows[ms[k][1]] = ProjectionOf(op(k))
  <2> SUFFICES ASSUME NEW k \in DOMAIN ms PROVE rows[ms[k][1]] = ProjectionOf(op(k))
    OBVIOUS
  <2>1. (CHOOSE l \in DOMAIN ms : ms[l][1] = ms[k][1]) = k
    BY <1>1
  <2>2. rows[ms[k][1]] = [role |-> ms[k][2], status |-> "active", epoch |-> 1, version |-> k]
    BY <1>2, <1>3, <2>1 DEF Joined
  <2> QED BY <2>2 DEF ProjectionOf
<1>7. \A p \in People : (\A k \in DOMAIN ms : ms[k][1] # p) => rows[p] = NoRow
  BY <1>3 DEF Joined
<1>8. \A k \in DOMAIN ms : ProjectionOf(op(k)) \in MemberRow
  BY <1>4 DEF OperationSet, ProjectionOf, MemberRow
<1>9. rows \in Table
  <2>1. \A p \in People : rows[p] \in MemberRow \cup {NoRow}
    BY <1>6, <1>7, <1>8
  <2>2. rows = [p \in People |-> rows[p]]
    BY <1>3 DEF Joined
  <2> QED BY <2>1, <2>2 DEF Table
<1>10. TablesTyped
  BY <1>2, <1>3, <1>4, <1>9 DEF TablesTyped, InviteSet, NoInvite
<1>11. CallsTyped
  BY <1>3, IdleCall DEF CallsTyped
<1>12. CallsKnown
  BY <1>3, IdleCall DEF CallsKnown
<1>13. \A o \in ops : \E k \in DOMAIN ms : o = op(k)
  BY <1>3
<1> HIDE DEF op
<1>14. \A o, q \in ops : IdOf(o) = IdOf(q) => o = q
  BY <1>5, <1>13 DEF IdOf
<1>15. \A o \in ops : /\ rows[o.member] = ProjectionOf(o) /\ ProjectionOf(o) # NoRow
                      /\ ProjectionOf(o).version = o.version
  <2>1. NoRow \notin MemberRow
    BY DEF NoRow, MemberRow, Statuses
  <2> QED BY <1>5, <1>6, <1>8, <1>13, <2>1 DEF ProjectionOf
<1>16. \A p \in People : rows[p] # NoRow => \E o \in ops : o.member = p /\ rows[p] = ProjectionOf(o)
  BY <1>3, <1>5, <1>6, <1>7
<1>17. \A o \in ops : o.version \in Nat
  BY <1>2, <1>5, <1>13
<1>18. version = 0 => ops = {} /\ \A p \in People : rows[p] = NoRow
  BY <1>2, <1>3, <1>7
<1>19. OperationsNamed
  BY <1>3, <1>14, <1>15, <1>18 DEF OperationsNamed
<1>20. LocalIsTaken
  BY <1>3, <1>16 DEF LocalIsTaken
<1>21. LocalIsLast
  BY <1>3, <1>15, <1>17 DEF LocalIsLast
<1> QED BY <1>10, <1>11, <1>12, <1>19, <1>20, <1>21 DEF MembersInvariant

LEMMA MembersStutter == MembersInvariant /\ UNCHANGED vars => MembersInvariant'
<1> SUFFICES ASSUME MembersInvariant, UNCHANGED vars PROVE MembersInvariant'
  OBVIOUS
<1>1. UNCHANGED tables /\ UNCHANGED <<ops, rows, taken, calls, lost>>
  BY DEF vars, tables
<1>2. CallsTyped' /\ CallsKnown'
  BY <1>1, CallsStay
<1> QED BY <1>1, <1>2, OnlyCalls DEF MembersInvariant, OperationsNamed

LEMMA MembersStep == MembersInvariant /\ MembershipNext => MembersInvariant'
<1> SUFFICES ASSUME MembersInvariant, MembershipNext PROVE MembersInvariant'
  OBVIOUS
<1>1. CASE InvitationStep
  BY <1>1, BeginInviteKeeps, InviteKeeps, BeginAcceptKeeps, AdmitKeeps, EndingKeeps, RevokeKeeps
     DEF InvitationStep
<1>2. CASE ChangeStep
  BY <1>2, CreateWorkspaceKeeps, BeginAdministerKeeps, BeginTransferKeeps, ReadMemberKeeps,
     EndingKeeps, RecordKeeps DEF ChangeStep
<1>3. CASE ProjectionStep
  BY <1>3, ProjectKeeps, EndingKeeps, AcknowledgeKeeps, RedeliverKeeps DEF ProjectionStep
<1> QED BY <1>1, <1>2, <1>3 DEF MembershipNext

LEMMA MembersAreNewest == MembersInvariant => ProjectionIsNewest
<1> SUFFICES ASSUME MembersInvariant PROVE ProjectionIsNewest
  OBVIOUS
<1>1. /\ version \in Nat /\ rows \in Table /\ local \in Table /\ ops \subseteq OperationSet
      /\ \A o \in ops : rows[o.member] # NoRow
      /\ taken \subseteq {IdOf(o) : o \in ops} /\ lost \subseteq {IdOf(o) : o \in ops}
  BY DEF MembersInvariant, TablesTyped, OperationsNamed
<1>2. MembershipTypeOK
  <2>1. \A p \in People :
           /\ rows[p] # NoRow => rows[p].status \in Statuses /\ rows[p].role \in Roles
           /\ local[p] # NoRow => local[p].status \in Statuses /\ local[p].role \in Roles
    BY <1>1 DEF Table, MemberRow
  <2>2. \A p \in People : rows[p] = NoRow => local[p] = NoRow
    BY <1>1 DEF MembersInvariant, LocalIsTaken
  <2>3. \A o \in ops : o.member \in People /\ o.role \in Roles
    BY <1>1 DEF OperationSet
  <2>4. \A c \in Calls : calls[c].pc \in {"idle", "inviting", "joining", "asked", "read",
                                         "recorded", "projected"}
    BY DEF MembersInvariant, CallsTyped, CallSet
  <2> QED BY <1>1, <2>1, <2>2, <2>3, <2>4 DEF MembershipTypeOK
<1>3. ASSUME NEW p \in People
      PROVE  LET mine == {o \in ops : o.member = p /\ IdOf(o) \in taken}
             IN  IF mine = {} THEN local[p] = NoRow
                 ELSE \E o \in mine : /\ local[p] = ProjectionOf(o)
                                      /\ \A other \in mine : other.version <= o.version
  <2> DEFINE mine == {o \in ops : o.member = p /\ IdOf(o) \in taken}
  <2>1. CASE mine = {}
    BY <2>1 DEF MembersInvariant, LocalIsTaken
  <2>2. CASE mine # {}
    <3>1. local[p] # NoRow
      BY <2>2 DEF MembersInvariant, LocalIsLast
    <3>2. PICK o \in ops : o.member = p /\ IdOf(o) \in taken /\ local[p] = ProjectionOf(o)
      BY <3>1 DEF MembersInvariant, LocalIsTaken
    <3>3. local[p].version = o.version
      BY <3>2 DEF ProjectionOf
    <3>4. \A other \in mine : other.version <= o.version
      BY <3>3 DEF MembersInvariant, LocalIsLast
    <3> QED BY <2>2, <3>2, <3>4
  <2> QED BY <2>1, <2>2
<1> QED BY <1>1, <1>2, <1>3 DEF ProjectionIsNewest

-----------------------------------------------------------------------------
(* Owners.  An update that either plane accepts leaves it one.              *)

LEMMA OwnerStays ==
    ASSUME NEW table \in Table, HasOwner(table), NEW p \in People, NEW row, NEW new,
           new.role = row.role, new.status = row.status, KeepsOwner(table, p, new)
    PROVE  HasOwner([table EXCEPT ![p] = row])
<1>1. \A q \in People : [table EXCEPT ![p] = row][q] = IF q = p THEN row ELSE table[q]
  BY DEF Table
<1>2. PICK q \in People : OwnerIn(table, q)
  BY DEF HasOwner
<1>3. CASE q # p
  BY <1>1, <1>2, <1>3 DEF OwnerIn, HasOwner
<1>4. CASE q = p /\ row.role = "owner" /\ row.status = "active"
  BY <1>1, <1>4 DEF OwnerIn, HasOwner
<1>5. CASE q = p /\ ~(row.role = "owner" /\ row.status = "active")
  <2>1. PICK other \in People \ {p} : OwnerIn(table, other)
    BY <1>2, <1>5 DEF KeepsOwner
  <2> QED BY <1>1, <2>1 DEF OwnerIn, HasOwner
<1> QED BY <1>3, <1>4, <1>5

LEMMA OwnerStaysBehind ==
    ASSUME NEW table \in Table, HasOwner(table), NEW p \in People, NEW row, ~OwnerIn(table, p)
    PROVE  HasOwner([table EXCEPT ![p] = row])
<1>1. \A q \in People : q # p => [table EXCEPT ![p] = row][q] = table[q]
  BY DEF Table
<1> QED BY <1>1 DEF HasOwner, OwnerIn

LEMMA ApplyKeepsOwner ==
    ASSUME MembersInvariant, NEW o \in ops, ApplyMembership(o), HasOwner(local)
    PROVE  HasOwner(local')
<1>1. local \in Table /\ o.member \in People
  BY DEF MembersInvariant, TablesTyped, OperationSet
<1>2. CASE IdOf(o) \in taken
  BY <1>2 DEF ApplyMembership
<1>3. CASE IdOf(o) \notin taken
  <2>1. local' = [local EXCEPT ![o.member] = ProjectionOf(o)] /\ KeepsOwner(local, o.member, o)
    BY <1>3 DEF ApplyMembership, Refused
  <2>2. o.role = ProjectionOf(o).role /\ o.status = ProjectionOf(o).status
    BY DEF ProjectionOf
  <2> QED BY <1>1, <2>1, <2>2, OwnerStays
<1> QED BY <1>2, <1>3

(* No step takes the last owner of either plane away. *)
LEMMA OwnersStable ==
    ASSUME MembersInvariant, MembershipNext
    PROVE  (HasOwner(rows) => HasOwner(rows')) /\ (HasOwner(local) => HasOwner(local'))
<1>0. rows \in Table
  BY DEF MembersInvariant, TablesTyped
<1>1. CASE UNCHANGED <<rows, local>>
  BY <1>1
<1>2. ASSUME NEW c \in Calls, Admit(c)
      PROVE  (HasOwner(rows) => HasOwner(rows')) /\ local' = local
  <2> DEFINE p == calls[c].member
             row == [Projection(calls[c]) EXCEPT !.status = "pending"]
  <2>1. calls[c].pc = "joining" /\ rows[p].status = "none" /\ rows' = [rows EXCEPT ![p] = row]
        /\ local' = local
    BY <1>2 DEF Admit, At
  <2>2. p \in People /\ ~OwnerIn(rows, p)
    BY <2>1, OperationOfCall DEF OwnerIn
  <2> HIDE DEF p, row
  <2> QED BY <1>0, <2>1, <2>2, OwnerStaysBehind
<1>3. ASSUME NEW c \in Calls, CreateWorkspace(c)
      PROVE  ~HasOwner(rows) /\ local' = local
  BY <1>3 DEF CreateWorkspace, MembersInvariant, OperationsNamed, HasOwner, OwnerIn, NoRow
<1>4. ASSUME NEW c \in Calls, Record(c)
      PROVE  (HasOwner(rows) => HasOwner(rows')) /\ local' = local
  <2> DEFINE p == calls[c].member
             row == Projection(calls[c])
  <2>1. /\ calls[c].pc = "read" /\ Recordable(calls[c]) /\ local' = local
        /\ rows' = IF calls[c].reduces THEN [rows EXCEPT ![p] = row] ELSE rows
    BY <1>4 DEF Record, At
  <2>2. p \in People
    BY <2>1, OperationOfCall
  <2>3. calls[c].reduces => KeepsOwner(rows, p, row)
    BY <2>1 DEF Recordable
  <2> HIDE DEF p, row
  <2> QED BY <1>0, <2>1, <2>2, <2>3, OwnerStays
<1>5. ASSUME NEW c \in Calls, Acknowledge(c)
      PROVE  (HasOwner(rows) => HasOwner(rows')) /\ local' = local
  <2> DEFINE p == calls[c].member
             row == Acknowledged(c)
  <2>1. /\ calls[c].pc = "projected" /\ KeepsOwner(rows, p, row) /\ local' = local
        /\ rows' = [rows EXCEPT ![p] = row]
    BY <1>5 DEF Acknowledge, At
  <2>2. p \in People
    BY <2>1, OperationOfCall
  <2> HIDE DEF p, row
  <2> QED BY <1>0, <2>1, <2>2, OwnerStays
<1>6. ASSUME NEW c \in Calls, Project(c)
      PROVE  (HasOwner(local) => HasOwner(local')) /\ rows' = rows
  <2>1. Operation(calls[c]) \in ops
    BY <1>6 DEF Project, At, MembersInvariant, CallsKnown, Rooted
  <2> QED BY <1>6, <2>1, ApplyKeepsOwner DEF Project
<1>7. ASSUME NEW o \in ops, Redeliver(o)
      PROVE  (HasOwner(local) => HasOwner(local')) /\ rows' = rows
  BY <1>7, ApplyKeepsOwner DEF Redeliver
<1>8. CASE InvitationStep
  <2>1. \/ \E c \in Calls : Admit(c)
        \/ UNCHANGED <<rows, local>>
    BY Zenon, <1>8 DEF InvitationStep, BeginInvite, Invite, BeginAccept, NotAdmitted, RevokeInvitation,
                ConfirmInvitationPlan, tables
  <2> QED BY <1>1, <1>2, <2>1
<1>9. CASE ChangeStep
  <2>1. PICK c \in Calls :
           \/ CreateWorkspace(c) \/ Record(c) \/ ReadMember(c) \/ NotProjected(c) \/ NotRecorded(c)
           \/ \E by, p \in People : \E role, status : BeginAdminister(c, by, p, role, status)
           \/ \E by, p \in People : BeginTransfer(c, by, p)
    BY <1>9 DEF ChangeStep
  <2>2. CreateWorkspace(c) \/ Record(c) \/ UNCHANGED tables
    BY Zenon, <2>1 DEF BeginAdminister, BeginTransfer, ReadMember, NotProjected, NotRecorded
  <2> QED BY <1>1, <1>3, <1>4, <2>2 DEF tables
<1>10. CASE ProjectionStep
  <2>1. \/ \E c \in Calls : Project(c) \/ Acknowledge(c)
        \/ \E o \in ops : Redeliver(o)
        \/ UNCHANGED <<rows, local>>
    BY <1>10 DEF ProjectionStep, NotProjectable, Lose, NotAcknowledged, tables
  <2> QED BY <1>1, <1>5, <1>6, <1>7, <2>1
<1> QED BY <1>8, <1>9, <1>10 DEF MembershipNext

(* Before anything happened in a workspace it can only be founded.          *)
LEMMA OnlyFounding ==
    ASSUME MembersInvariant, ~Lively, MembershipNext
    PROVE  \/ \E c \in Calls : CreateWorkspace(c)
           \/ \E c \in InFlight : /\ Founding(c)
                                  /\ Project(c) \/ Acknowledge(c) \/ NotProjectable(c)
                                     \/ NotAcknowledged(c) \/ Lose(c)
           \/ \E o \in ops : Redeliver(o)
<1>1. \A p \in People : rows[p].status # "active"
  BY DEF Lively
<1>2. \A i \in Invitations : invites[i].state = "none"
  BY DEF Lively
<1>3. \A c \in Calls : calls[c].pc # "idle" =>
         c \in InFlight /\ Founding(c) /\ calls[c].pc \in {"recorded", "projected"}
  <2> SUFFICES ASSUME NEW c \in Calls, calls[c].pc # "idle"
               PROVE  c \in InFlight /\ Founding(c) /\ calls[c].pc \in {"recorded", "projected"}
    OBVIOUS
  <2>1. c \in InFlight /\ calls[c].kind = "found"
    BY DEF InFlight, Lively
  <2>2. CallTyped(calls[c]) /\ calls[c] \in CallSet
    BY DEF MembersInvariant, CallsTyped
  <2>3. calls[c].pc \in {"recorded", "projected"}
    BY <2>1, <2>2 DEF CallTyped, CallSet
  <2> QED BY <2>1, <2>3 DEF Founding
<1>4. ~InvitationStep
  BY Zenon, <1>1, <1>2, <1>3 DEF InvitationStep, BeginInvite, Administrator, Invite, BeginAccept, Admit,
     NotAdmitted, RevokeInvitation, ConfirmInvitationPlan, At
<1>5. CASE ChangeStep
  <2>1. PICK c \in Calls :
           \/ CreateWorkspace(c) \/ Record(c) \/ ReadMember(c) \/ NotProjected(c) \/ NotRecorded(c)
           \/ \E by, p \in People : \E role, status : BeginAdminister(c, by, p, role, status)
           \/ \E by, p \in People : BeginTransfer(c, by, p)
    BY <1>5 DEF ChangeStep
  <2>2. CreateWorkspace(c)
    BY Zenon, <1>1, <1>3, <2>1 DEF BeginAdminister, BeginTransfer, Administrator, ReadMember,
     NotProjected, Record, NotRecorded, At
  <2> QED BY <2>2
<1>6. CASE ProjectionStep
  BY Zenon, <1>3, <1>6 DEF ProjectionStep, Project, NotProjectable, Lose, Acknowledge, NotAcknowledged, At
<1> QED BY <1>4, <1>5, <1>6 DEF MembershipNext

LEMMA FoundingStep ==
    ASSUME MembersInvariant, OwnersKept, ~Lively, NEW c \in Calls, CreateWorkspace(c)
    PROVE  OwnersKept'
<1> DEFINE call == [NoCall EXCEPT !.pc = "recorded", !.kind = "found", !.member = Founder,
                       !.role = "owner", !.status = "active", !.epoch = 1, !.version = 1]
           row == [Projection(call) EXCEPT !.status = "pending"]
<1>1. /\ version = 0 /\ calls' = [calls EXCEPT ![c] = call]
      /\ rows' = [rows EXCEPT ![Founder] = row]
      /\ ops' = ops \cup {Operation(call)}
      /\ UNCHANGED <<invites, local, taken, lost>>
  BY DEF CreateWorkspace, Begin
<1>2. /\ call.pc = "recorded" /\ call.kind = "found" /\ call.member = Founder
      /\ call.role = "owner" /\ call.status = "active"
  BY DEF NoCall
<1> HIDE DEF call
<1>3. row.role = "owner" /\ row.status = "pending"
      /\ Operation(call).role = "owner" /\ Operation(call).status = "active"
  BY <1>2 DEF Projection, Operation
<1> HIDE DEF row
<1>4. /\ ops = {} /\ taken = {} /\ \A p \in People : rows[p] = NoRow
      /\ rows \in Table /\ calls \in [Calls -> CallSet]
  BY <1>1 DEF MembersInvariant, OperationsNamed, TablesTyped, CallsTyped
<1>5. Founder \in People
  BY MembershipAssumption
<1>6. \A p \in People : rows'[p] = IF p = Founder THEN row ELSE NoRow
  BY <1>1, <1>4, <1>5 DEF Table
<1>7. \A d \in Calls : calls'[d] = IF d = c THEN call ELSE calls[d]
  BY <1>1, <1>4
<1>8. \A d \in Calls : d # c => calls[d].pc = "idle"
  <2> SUFFICES ASSUME NEW d \in Calls, calls[d].pc # "idle" PROVE FALSE
    BY <1>7
  <2>1. calls[d].kind = "found"
    BY DEF Lively, InFlight
  <2>2. calls[d].pc \in {"recorded", "projected"}
    BY <2>1, <1>4 DEF MembersInvariant, CallsTyped, CallTyped, CallSet
  <2> QED BY <1>4, <2>2 DEF MembersInvariant, CallsKnown, Rooted
<1>9. ~Lively'
  <2>1. \A p \in People : rows'[p].status # "active"
    BY <1>3, <1>6 DEF NoRow
  <2>2. \A i \in Invitations : invites'[i].state = "none"
    BY <1>1 DEF Lively
  <2>3. \A d \in Calls : calls'[d].pc # "idle" => calls'[d].kind = "found"
    BY <1>2, <1>7, <1>8
  <2>4. \A o \in ops' : o.role = "owner" /\ o.status = "active"
    BY <1>1, <1>3, <1>4
  <2> QED BY <2>1, <2>2, <2>3, <2>4 DEF Lively, InFlight
<1>10. \A d \in Calls : Founding(d)' => rows'[calls'[d].member].role = "owner"
  BY <1>2, <1>3, <1>5, <1>6, <1>7, <1>8 DEF Founding, InFlight
<1>11. Founding(c)'
  BY <1>2, <1>7 DEF Founding, InFlight
<1> QED BY <1>1, <1>4, <1>9, <1>10, <1>11 DEF OwnersKept

LEMMA FoundedByObject ==
    ASSUME MembersInvariant, OwnersKept, ~Lively, NEW o \in ops, ApplyMembership(o),
           UNCHANGED <<rows, ops, invites, lost>>,
           \A c \in Calls : calls'[c].pc # "idle" <=> calls[c].pc # "idle",
           \A c \in Calls : calls'[c].kind = calls[c].kind /\ calls'[c].member = calls[c].member
    PROVE  OwnersKept'
<1>1. ~Lively'
  BY DEF Lively, InFlight
<1>2. HasOwner(local')
  <2>1. CASE IdOf(o) \in taken
    BY <2>1 DEF ApplyMembership, OwnersKept
  <2>2. CASE IdOf(o) \notin taken
    <3>1. local' = [local EXCEPT ![o.member] = ProjectionOf(o)]
      BY <2>2 DEF ApplyMembership
    <3>2. local \in Table /\ o.member \in People
      BY DEF MembersInvariant, TablesTyped, OperationSet
    <3>3. o.role = "owner" /\ o.status = "active"
      BY DEF Lively
    <3>4. OwnerIn(local', o.member)
      BY <3>1, <3>2, <3>3 DEF OwnerIn, ProjectionOf, Table
    <3> QED BY <3>2, <3>4 DEF HasOwner
  <2> QED BY <2>1, <2>2
<1>3. \A c \in Calls : Founding(c)' <=> Founding(c)
  BY DEF Founding, InFlight
<1>4. HasOwner(rows)' <=> HasOwner(rows)
  BY DEF HasOwner, OwnerIn
<1>5. \A c \in Calls : Founding(c)' => HasOwner(rows)' \/ rows'[calls'[c].member].role = "owner"
  BY <1>3, <1>4 DEF OwnersKept
<1>6. ops' # {} /\ lost' = {} => HasOwner(rows)' \/ \E c \in Calls : Founding(c)'
  BY <1>3, <1>4 DEF OwnersKept
<1>7. HasOwner(local)'
  BY <1>2 DEF HasOwner
<1> QED BY <1>1, <1>5, <1>6, <1>7 DEF OwnersKept

LEMMA FoundingEnds ==
    ASSUME MembersInvariant, OwnersKept, ~Lively, NEW c \in Calls, Founding(c),
           NotProjectable(c) \/ NotAcknowledged(c) \/ Lose(c)
    PROVE  OwnersKept'
<1>1. CallTyped(calls[c]) /\ calls[c] \in CallSet /\ calls \in [Calls -> CallSet]
  BY DEF MembersInvariant, CallsTyped
<1>2. calls[c].pc \in {"recorded", "projected"}
  BY <1>1 DEF Founding, InFlight, CallTyped, CallSet
<1>3. /\ Finish(c) /\ UNCHANGED <<rows, ops, invites, local, taken>> /\ lost' # {}
  BY <1>2 DEF NotProjectable, NotAcknowledged, Lose, tables
<1>4. \A d \in Calls : calls'[d] = IF d = c THEN NoCall ELSE calls[d]
  BY <1>1, <1>3 DEF Finish
<1>5. \A d \in Calls : calls'[d].pc # "idle" => calls[d].pc # "idle" /\ calls'[d] = calls[d]
  BY <1>4 DEF NoCall
<1>6. ~Lively'
  BY <1>3, <1>5 DEF Lively, InFlight
<1>7. (HasOwner(rows)' <=> HasOwner(rows)) /\ (HasOwner(local)' <=> HasOwner(local))
  BY <1>3 DEF HasOwner, OwnerIn
<1>8. \A d \in Calls : Founding(d)' => Founding(d) /\ calls'[d] = calls[d]
  BY <1>5 DEF Founding, InFlight
<1>9. \A d \in Calls : Founding(d)' => HasOwner(rows)' \/ rows'[calls'[d].member].role = "owner"
  BY <1>3, <1>7, <1>8 DEF OwnersKept
<1> QED BY <1>3, <1>6, <1>7, <1>9 DEF OwnersKept

LEMMA FoundingDone ==
    ASSUME MembersInvariant, OwnersKept, ~Lively, NEW c \in Calls, Founding(c), Acknowledge(c)
    PROVE  HasOwner(rows') /\ HasOwner(local')
<1> DEFINE p == calls[c].member
<1>1. /\ calls[c].pc = "projected" /\ calls[c].kind = "found"
      /\ rows' = [rows EXCEPT ![p] = Acknowledged(c)] /\ local' = local
  BY DEF Acknowledge, At, Founding
<1>2. p \in People /\ rows \in Table
  BY <1>1, OperationOfCall DEF MembersInvariant, TablesTyped
<1>3. ~HasOwner(rows)
  BY DEF Lively, HasOwner, OwnerIn
<1>4. rows[p].role = "owner"
  BY <1>3 DEF OwnersKept
<1>5. Operation(calls[c]) \in ops /\ IdOf(calls[c]) \in taken
  BY <1>1 DEF MembersInvariant, CallsKnown, Rooted
<1>6. rows[p] \in MemberRow
  <2>1. Operation(calls[c]).member = p
    BY DEF Operation
  <2>2. rows[p] # NoRow
    BY <1>5, <2>1 DEF MembersInvariant, OperationsNamed
  <2> QED BY <1>2, <2>2, RowThere
<1>7. Acknowledged(c).role = "owner" /\ Acknowledged(c).status = "active"
  BY <1>1, <1>4, <1>6 DEF Acknowledged, MemberRow
<1>8. OwnerIn(rows', p)
  BY <1>1, <1>2, <1>7 DEF OwnerIn, Table
<1>9. HasOwner(local)
  BY <1>5 DEF OwnersKept
<1> QED BY <1>1, <1>2, <1>8, <1>9 DEF HasOwner

LEMMA BothOwners ==
    ASSUME HasOwner(rows'), HasOwner(local')
    PROVE  OwnersKept'
<1>1. HasOwner(rows)' /\ HasOwner(local)'
  BY DEF HasOwner
<1> QED BY <1>1 DEF OwnersKept

LEMMA OwnersStep ==
    ASSUME MembersInvariant, OwnersKept, MembershipNext
    PROVE  OwnersKept'
<1>1. CASE Lively
  BY <1>1, OwnersStable, BothOwners DEF OwnersKept
<1>2. CASE ~Lively
  <2>1. ASSUME NEW c \in InFlight, Founding(c), Project(c)
        PROVE  OwnersKept'
    <3>1. /\ calls[c].pc = "recorded" /\ ApplyMembership(Operation(calls[c]))
          /\ calls' = [calls EXCEPT ![c].pc = "projected"]
          /\ UNCHANGED <<rows, ops, invites, lost>> /\ c \in Calls
      BY <2>1 DEF Project, At, Continue, InFlight
    <3>2. Operation(calls[c]) \in ops /\ calls \in [Calls -> CallSet]
      BY <3>1 DEF MembersInvariant, CallsKnown, Rooted, CallsTyped
    <3>3. \A d \in Calls : /\ calls'[d].pc # "idle" <=> calls[d].pc # "idle"
                           /\ calls'[d].kind = calls[d].kind /\ calls'[d].member = calls[d].member
      BY <3>1, <3>2 DEF CallSet
    <3> QED BY <1>2, <3>1, <3>2, <3>3, FoundedByObject
  <2>2. ASSUME NEW o \in ops, Redeliver(o)
        PROVE  OwnersKept'
    BY <1>2, <2>2, FoundedByObject DEF Redeliver
  <2>3. ASSUME NEW c \in InFlight, Founding(c), Acknowledge(c)
        PROVE  OwnersKept'
    BY <1>2, <2>3, FoundingDone, BothOwners DEF InFlight
  <2>4. ASSUME NEW c \in InFlight, Founding(c), NotProjectable(c) \/ NotAcknowledged(c) \/ Lose(c)
        PROVE  OwnersKept'
    BY <1>2, <2>4, FoundingEnds DEF InFlight
  <2> QED BY <1>2, <2>1, <2>2, <2>3, <2>4, OnlyFounding, FoundingStep
<1> QED BY <1>1, <1>2

LEMMA OwnersStutter == OwnersKept /\ UNCHANGED vars => OwnersKept'
<1> SUFFICES ASSUME OwnersKept, UNCHANGED vars PROVE OwnersKept'
  OBVIOUS
<1>1. UNCHANGED <<rows, ops, invites, local, taken, calls, lost>>
  BY DEF vars
<1> QED BY <1>1 DEF OwnersKept, Lively, HasOwner, OwnerIn, Founding, InFlight

LEMMA OwnersStart == MembershipInit => OwnersKept
<1> SUFFICES ASSUME MembershipInit PROVE OwnersKept
  OBVIOUS
<1> DEFINE ms == budget.members
<1>1. /\ ms \in Seq(People \X Roles)
      /\ ms # <<>> => \E k \in DOMAIN ms : ms[k][2] = "owner"
      /\ \A k, l \in DOMAIN ms : ms[k][1] = ms[l][1] => k = l
  BY MembershipAssumption DEF MembershipInit, Roles
<1>2. /\ rows = Joined(ms) /\ local = rows
      /\ ops = {[member |-> ms[k][1], role |-> ms[k][2], status |-> "active",
                 epoch |-> 1, version |-> k] : k \in DOMAIN ms}
      /\ taken = {IdOf(o) : o \in ops}
      /\ invites = [i \in Invitations |-> NoInvite] /\ calls = [c \in Calls |-> NoCall]
  BY DEF MembershipInit
<1>3. \A c \in Calls : ~Founding(c) /\ c \notin InFlight
  BY <1>2 DEF Founding, InFlight, NoCall
<1>4. CASE ms = <<>>
  <2>1. DOMAIN ms = {}
    BY <1>4
  <2> HIDE DEF ms
  <2>2. ops = {} /\ taken = {} /\ \A p \in People : rows[p] = NoRow
    BY <1>2, <2>1 DEF Joined
  <2>3. ~Lively
    BY <1>2, <1>3, <2>2 DEF Lively, NoInvite, NoRow, InFlight
  <2> QED BY <1>3, <2>2, <2>3 DEF OwnersKept
<1>5. CASE ms # <<>>
  <2>1. PICK k \in DOMAIN ms : ms[k][2] = "owner"
    BY <1>1, <1>5
  <2>2. ms[k][1] \in People
    BY <1>1
  <2>3. (CHOOSE l \in DOMAIN ms : ms[l][1] = ms[k][1]) = k
    BY <1>1
  <2> HIDE DEF ms
  <2>4. rows[ms[k][1]] = [role |-> ms[k][2], status |-> "active", epoch |-> 1, version |-> k]
    BY <1>2, <2>2, <2>3 DEF Joined
  <2>5. HasOwner(rows) /\ HasOwner(local)
    BY <1>2, <2>1, <2>2, <2>4 DEF HasOwner, OwnerIn
  <2> QED BY <2>5, <1>3 DEF OwnersKept
<1> QED BY <1>4, <1>5

(* Seats. *)
LEMMA SeatSets ==
    /\ IsFiniteSet(Counted) /\ IsFiniteSet(ReadyInvites)
    /\ Cardinality(Counted) \in Nat /\ Cardinality(ReadyInvites) \in Nat
<1>1. IsFiniteSet(Counted) /\ IsFiniteSet(ReadyInvites)
  BY MembershipAssumption, FS_Subset DEF Counted, ReadyInvites
<1> QED BY <1>1, FS_CardinalityType

LEMMA SeatSetsLater ==
    /\ IsFiniteSet(Counted') /\ IsFiniteSet(ReadyInvites')
    /\ Cardinality(Counted') \in Nat /\ Cardinality(ReadyInvites') \in Nat
<1>1. Counted' \subseteq People /\ ReadyInvites' \subseteq Invitations
  BY DEF Counted, ReadyInvites
<1>2. IsFiniteSet(Counted') /\ IsFiniteSet(ReadyInvites')
  BY <1>1, MembershipAssumption, FS_Subset
<1> QED BY <1>2, FS_CardinalityType

LEMMA SeatsSame ==
    ASSUME Counted' = Counted, ReadyInvites' = ReadyInvites
    PROVE  SeatsTaken' = SeatsTaken /\ SeatsTaken \in Nat
BY SeatSets DEF SeatsTaken

LEMMA SeatsFewer ==
    ASSUME Counted' \subseteq Counted, ReadyInvites' \subseteq ReadyInvites
    PROVE  SeatsTaken' <= SeatsTaken /\ SeatsTaken' \in Nat /\ SeatsTaken \in Nat
<1>1. Cardinality(Counted') <= Cardinality(Counted)
  BY SeatSets, FS_Subset
<1>2. Cardinality(ReadyInvites') <= Cardinality(ReadyInvites)
  BY SeatSets, FS_Subset
<1> QED BY <1>1, <1>2, SeatSets, SeatSetsLater DEF SeatsTaken

LEMMA OneElementMore ==
    ASSUME NEW S, NEW x, IsFiniteSet(S)
    PROVE  /\ IsFiniteSet(S \cup {x}) /\ Cardinality(S \cup {x}) \in Nat
           /\ Cardinality(S \cup {x}) <= Cardinality(S) + 1
<1>1. Cardinality(S) \in Nat
  BY FS_CardinalityType
<1>2. /\ IsFiniteSet(S \cup {x})
      /\ Cardinality(S \cup {x}) = IF x \in S THEN Cardinality(S) ELSE Cardinality(S) + 1
  BY FS_AddElement
<1> QED BY <1>1, <1>2

LEMMA OneSeatMore ==
    ASSUME NEW p, NEW i,
           \/ Counted' \subseteq Counted \cup {p} /\ ReadyInvites' \subseteq ReadyInvites
           \/ Counted' \subseteq Counted /\ ReadyInvites' \subseteq ReadyInvites \cup {i}
    PROVE  SeatsTaken' <= SeatsTaken + 1 /\ SeatsTaken' \in Nat /\ SeatsTaken \in Nat
<1>1. /\ IsFiniteSet(Counted \cup {p}) /\ Cardinality(Counted \cup {p}) <= Cardinality(Counted) + 1
      /\ Cardinality(Counted \cup {p}) \in Nat
  BY SeatSets, OneElementMore
<1>2. /\ IsFiniteSet(ReadyInvites \cup {i})
      /\ Cardinality(ReadyInvites \cup {i}) <= Cardinality(ReadyInvites) + 1
      /\ Cardinality(ReadyInvites \cup {i}) \in Nat
  BY SeatSets, OneElementMore
<1>3. CASE Counted' \subseteq Counted \cup {p} /\ ReadyInvites' \subseteq ReadyInvites
  <2>1. Cardinality(Counted') <= Cardinality(Counted \cup {p})
    BY <1>1, <1>3, FS_Subset
  <2>2. Cardinality(ReadyInvites') <= Cardinality(ReadyInvites)
    BY <1>3, SeatSets, FS_Subset
  <2> QED BY <1>1, <2>1, <2>2, SeatSets, SeatSetsLater DEF SeatsTaken
<1>4. CASE Counted' \subseteq Counted /\ ReadyInvites' \subseteq ReadyInvites \cup {i}
  <2>1. Cardinality(ReadyInvites') <= Cardinality(ReadyInvites \cup {i})
    BY <1>2, <1>4, FS_Subset
  <2>2. Cardinality(Counted') <= Cardinality(Counted)
    BY <1>4, SeatSets, FS_Subset
  <2> QED BY <1>2, <2>1, <2>2, SeatSets, SeatSetsLater DEF SeatsTaken
<1> QED BY <1>3, <1>4

(* An invitation that is no longer ready gives its seat back. *)
LEMMA SeatGivenBack ==
    ASSUME Counted' \subseteq Counted, NEW i \in ReadyInvites, ReadyInvites' \subseteq ReadyInvites \ {i}
    PROVE  SeatsTaken' < SeatsTaken /\ SeatsTaken' \in Nat /\ SeatsTaken \in Nat
<1>1. /\ IsFiniteSet(ReadyInvites \ {i}) /\ Cardinality(ReadyInvites \ {i}) = Cardinality(ReadyInvites) - 1
      /\ Cardinality(ReadyInvites \ {i}) \in Nat
  BY SeatSets, FS_RemoveElement, FS_CardinalityType
<1>2. Cardinality(ReadyInvites') <= Cardinality(ReadyInvites \ {i})
  BY <1>1, FS_Subset
<1>3. Cardinality(Counted') <= Cardinality(Counted)
  BY SeatSets, FS_Subset
<1> QED BY <1>1, <1>2, <1>3, SeatSets, SeatSetsLater DEF SeatsTaken

LEMMA BudgetStays ==
    ASSUME BudgetKnown,
           \/ budget' = budget
           \/ budget' = [budget EXCEPT !.calls = @ - 1]
           \/ budget' = [budget EXCEPT !.losses = @ - 1]
           \/ budget' = [budget EXCEPT !.deliveries = @ - 1]
    PROVE  BudgetKnown' /\ Seats' = Seats
<1>1. DOMAIN budget' = DOMAIN budget /\ budget'.seats = budget.seats
  BY DEF BudgetKnown
<1> QED BY <1>1 DEF BudgetKnown, Seats

-----------------------------------------------------------------------------
(* Calls that follow one another.                                           *)

(* Of several calls only the one that takes a step is under way. *)
LEMMA ItGoesOn ==
    ASSUME MembersInvariant, NEW c \in Calls, InFlight \subseteq {c},
           NEW r, calls' = [calls EXCEPT ![c] = r], CallInTurn(r)', SeatKept(r)'
    PROVE  /\ OneCall' /\ \A d \in Calls : (CallInTurn(calls[d]) /\ SeatKept(calls[d]))'
           /\ \A o : Carried(o) <=> Carries(calls[c], o)
           /\ \A o : Carried(o)' <=> Carries(r, o)
<1>1. calls \in [Calls -> CallSet]
  BY DEF MembersInvariant, CallsTyped
<1>2. \A d \in Calls : calls'[d] = IF d = c THEN r ELSE calls[d]
  BY <1>1
<1>3. \A d \in Calls : d # c => calls[d].pc = "idle"
  BY DEF InFlight
<1>4. \A d \in Calls : d # c => calls'[d].pc = "idle"
  BY <1>2, <1>3
<1>5. OneCall'
  BY <1>4 DEF OneCall, InFlight
<1>6. \A d \in Calls : d # c => (CallInTurn(calls[d]) /\ SeatKept(calls[d]))'
  BY <1>4 DEF CallInTurn, SeatKept
<1>7. (CallInTurn(calls[c]) /\ SeatKept(calls[c]))'
  <2>1. calls'[c] = r
    BY <1>2
  <2> QED BY <2>1 DEF CallInTurn, SeatKept
<1>8. \A o : Carried(o) <=> Carries(calls[c], o)
  BY <1>3 DEF Carried, Carries
<1>9. \A o : Carried(o)' <=> Carries(r, o)
  BY <1>2, <1>4 DEF Carried, Carries
<1> QED BY <1>5, <1>6, <1>7, <1>8, <1>9

(* What calls and invitations do alone, the planes do not notice. *)
LEMMA SamePlanes ==
    ASSUME UNCHANGED <<version, rows, ops, local, taken>>, lost \subseteq lost'
    PROVE  /\ VersionsBelow => VersionsBelow'
           /\ \A o \in ops : /\ Between(o) => Between(o)'
                             /\ Settled(o) => Settled(o)'
                             /\ Newest(o)' => Newest(o)
<1>1. VersionsBelow => VersionsBelow'
  BY DEF VersionsBelow
<1>2. \A o \in ops : Between(o) => Between(o)'
  BY DEF Between, Reduced, Joining, Rising
<1>3. \A o \in ops : Settled(o) => Settled(o)'
  BY DEF Settled
<1>4. \A o \in ops : Newest(o)' => Newest(o)
  BY DEF Newest
<1> QED BY <1>1, <1>2, <1>3, <1>4

LEMMA TurnGoesOn ==
    ASSUME MembersInvariant, InTurn, NEW c \in Calls, InFlight \subseteq {c},
           UNCHANGED <<version, rows, ops, local, taken>>, lost \subseteq lost',
           calls[c].pc \in {"recorded", "projected"} => IdOf(calls[c]) \in lost',
           NEW r, calls' = [calls EXCEPT ![c] = r], r.pc \notin {"recorded", "projected"},
           CallInTurn(r)', SeatKept(r)', SeatsTaken' <= Seats'
    PROVE  InTurn'
<1>1. /\ OneCall' /\ \A d \in Calls : (CallInTurn(calls[d]) /\ SeatKept(calls[d]))'
      /\ \A o : Carried(o) <=> Carries(calls[c], o)
      /\ \A o : Carried(o)' <=> Carries(r, o)
  BY ItGoesOn
<1>2. \A o \in ops : Finished(o)' => Finished(o)
  <2> SUFFICES ASSUME NEW o \in ops, Finished(o)' PROVE Finished(o)
    OBVIOUS
  <2>1. IdOf(o) \notin lost' /\ IdOf(o) \notin lost
    BY DEF Finished
  <2>2. ASSUME Carries(calls[c], o) PROVE FALSE
    BY <2>1, <2>2 DEF Carries, Operation, IdOf
  <2> QED BY <1>1, <2>1, <2>2 DEF Finished
<1>3. VersionsBelow'
  BY SamePlanes DEF InTurn
<1>4. \A o \in ops' : Finished(o)' => IdOf(o) \in taken'
  BY <1>2 DEF InTurn
<1>5. \A o \in ops' : Newest(o)' => Between(o)' /\ (Finished(o)' => Settled(o)')
  BY <1>2, SamePlanes DEF InTurn
<1> QED BY <1>1, <1>3, <1>4, <1>5 DEF InTurn

(* The tables change, but neither the calls nor the planes. *)
LEMMA TurnStands ==
    ASSUME InTurn, UNCHANGED <<version, rows, ops, local, taken, calls, lost>>,
           \A c \in Calls : SeatKept(calls[c])', SeatsTaken' <= Seats'
    PROVE  InTurn'
<1>1. OneCall'
  BY DEF InTurn, OneCall, InFlight
<1>2. \A o \in ops : Finished(o)' => Finished(o)
  BY DEF Finished, Carried, Carries
<1>3. VersionsBelow'
  BY SamePlanes DEF InTurn
<1>4. \A o \in ops' : Finished(o)' => IdOf(o) \in taken'
  BY <1>2 DEF InTurn
<1>5. \A o \in ops' : Newest(o)' => Between(o)' /\ (Finished(o)' => Settled(o)')
  BY <1>2, SamePlanes DEF InTurn
<1>6. \A c \in Calls : CallInTurn(calls[c])'
  <2> SUFFICES ASSUME NEW c \in Calls PROVE CallInTurn(calls[c])'
    OBVIOUS
  <2>1. CallInTurn(calls[c])
    BY DEF InTurn
  <2>2. \A o : Newest(o)' <=> Newest(o)
    BY DEF Newest
  <2>3. HalfWritten(calls[c])' <=> HalfWritten(calls[c])
    BY DEF HalfWritten, Joining, Reduced, Rising
  <2>4. Newest(Operation(calls[c]))' <=> Newest(Operation(calls[c]))
    BY <2>2
  <2> QED BY <2>1, <2>3, <2>4 DEF CallInTurn
<1> QED BY <1>1, <1>3, <1>4, <1>5, <1>6 DEF InTurn

LEMMA TablesStand ==
    ASSUME InTurn, BudgetKnown, UNCHANGED tables,
           \/ budget' = budget
           \/ budget' = [budget EXCEPT !.calls = @ - 1]
           \/ budget' = [budget EXCEPT !.losses = @ - 1]
    PROVE  /\ UNCHANGED <<version, rows, ops, invites, local, taken>>
           /\ SeatsTaken' = SeatsTaken /\ Seats' = Seats /\ SeatsTaken' <= Seats'
<1>1. UNCHANGED <<version, rows, ops, invites, local, taken>>
  BY DEF tables
<1>2. SeatsTaken' = SeatsTaken
  BY <1>1, SeatsSame DEF Counted, ReadyInvites
<1> QED BY <1>1, <1>2, BudgetStays DEF InTurn

LEMMA BeginInTurn ==
    ASSUME MembersInvariant, BudgetKnown, InTurn, ~overlapped', NEW c \in Calls,
           UNCHANGED tables, NEW r, Begin(c, r), r.pc \notin {"recorded", "projected"},
           r.pc \notin {"recorded", "projected"} => CallInTurn(r)' /\ SeatKept(r)'
    PROVE  InTurn'
<1>1. /\ calls[c].pc = "idle" /\ calls' = [calls EXCEPT ![c] = r] /\ lost' = lost
      /\ budget' = [budget EXCEPT !.calls = @ - 1] /\ InFlight \subseteq {c}
  BY DEF Begin, CanBegin
<1>2. UNCHANGED <<version, rows, ops, local, taken>> /\ SeatsTaken' <= Seats'
  BY <1>1, TablesStand
<1> QED BY <1>1, <1>2, TurnGoesOn

LEMMA BeginInviteInTurn ==
    ASSUME MembersInvariant, BudgetKnown, InTurn, ~overlapped', NEW c \in Calls,
           NEW by \in People, NEW p \in People, NEW role \in Roles, BeginInvite(c, by, p, role)
    PROVE  InTurn'
<1>1. PICK r : r = [NoCall EXCEPT !.pc = "inviting", !.kind = "invite", !.by = by,
                                  !.member = p, !.role = role]
  OBVIOUS
<1>2. r.pc = "inviting" /\ r.kind = "invite"
  BY <1>1 DEF NoCall
<1>3. Begin(c, r) /\ UNCHANGED tables
  BY <1>1 DEF BeginInvite
<1>4. CallInTurn(r)' /\ SeatKept(r)'
  BY <1>2 DEF CallInTurn, SeatKept
<1> QED BY <1>2, <1>3, <1>4, BeginInTurn

LEMMA BeginAcceptInTurn ==
    ASSUME MembersInvariant, BudgetKnown, InTurn, ~overlapped', NEW c \in Calls,
           NEW i \in Invitations, BeginAccept(c, i)
    PROVE  InTurn'
<1>1. PICK r : r = [NoCall EXCEPT !.pc = "joining", !.kind = "join", !.member = invites[i].person,
                     !.invite = i, !.role = invites[i].role, !.status = "active",
                     !.epoch = 1, !.version = version + 1]
  OBVIOUS
<1>2. r.pc = "joining" /\ r.kind = "join" /\ r.invite = i /\ r.version = version + 1
  BY <1>1 DEF NoCall
<1>3. Begin(c, r) /\ UNCHANGED tables /\ invites[i].state = "ready"
  BY <1>1 DEF BeginAccept
<1>4. UNCHANGED <<version, invites>>
  BY <1>3 DEF tables
<1>5. CallInTurn(r)'
  BY <1>2, <1>4 DEF CallInTurn
<1>6. SeatKept(r)'
  BY <1>2, <1>3, <1>4 DEF SeatKept
<1> QED BY <1>2, <1>3, <1>5, <1>6, BeginInTurn

LEMMA BeginAdministerInTurn ==
    ASSUME MembersInvariant, BudgetKnown, InTurn, ~overlapped', NEW c \in Calls,
           NEW by \in People, NEW p \in People,
           NEW role \in Roles \cup {None}, NEW status \in (Statuses \ {"pending"}) \cup {None},
           BeginAdminister(c, by, p, role, status)
    PROVE  InTurn'
<1>1. PICK r : r = [NoCall EXCEPT !.pc = "asked", !.kind = "change", !.by = by, !.member = p,
                     !.role = Or(role, rows[p].role), !.status = Or(status, rows[p].status)]
  OBVIOUS
<1>2. r.pc = "asked" /\ r.kind = "change" /\ r.member = p /\ r.status = Or(status, rows[p].status)
  BY <1>1 DEF NoCall
<1>3. /\ Begin(c, r) /\ UNCHANGED tables
      /\ rows[p].status # "active" /\ status = "active" => SeatsTaken < Seats
  BY <1>1 DEF BeginAdminister
<1>4. UNCHANGED rows /\ SeatsTaken' = SeatsTaken /\ Seats' = Seats
  BY <1>3, TablesStand DEF Begin
<1>5. r.status = "active" /\ rows[p].status # "active" => SeatsTaken < Seats
  BY <1>2, <1>3 DEF Or
<1>6. CallInTurn(r)'
  BY <1>2 DEF CallInTurn
<1>7. SeatKept(r)'
  BY <1>2, <1>4, <1>5 DEF SeatKept
<1> QED BY <1>2, <1>3, <1>6, <1>7, BeginInTurn

LEMMA BeginTransferInTurn ==
    ASSUME MembersInvariant, BudgetKnown, InTurn, ~overlapped', NEW c \in Calls,
           NEW by \in People, NEW p \in People, BeginTransfer(c, by, p)
    PROVE  InTurn'
<1>1. PICK r : r = [NoCall EXCEPT !.pc = "asked", !.kind = "transfer", !.by = by, !.member = p,
                               !.role = "owner", !.status = "active"]
  OBVIOUS
<1>2. r.pc = "asked" /\ r.kind = "transfer" /\ r.by = by /\ r.member = p /\ r.status = "active"
  BY <1>1 DEF NoCall
<1>3. /\ Begin(c, r) /\ UNCHANGED tables
      /\ rows[by].status = "active" /\ rows[p].status = "active"
  BY <1>1 DEF BeginTransfer, Administrator
<1>4. UNCHANGED rows
  BY <1>3 DEF tables
<1>5. CallInTurn(r)'
  BY <1>2, <1>3, <1>4 DEF CallInTurn
<1>6. SeatKept(r)'
  BY <1>2, <1>3, <1>4 DEF SeatKept
<1> QED BY <1>2, <1>3, <1>5, <1>6, BeginInTurn

LEMMA ReadMemberInTurn ==
    ASSUME MembersInvariant, BudgetKnown, InTurn, NEW c \in Calls, ReadMember(c)
    PROVE  InTurn'
<1>0. PICK call : call = calls[c]
  OBVIOUS
<1>1. PICK r : r = [call EXCEPT !.pc = "read", !.version = version + 1,
                       !.epoch = rows[call.member].epoch + 1,
                       !.reduces = call.status # "active" \/ Rank(call.role) > Rank(rows[call.member].role)]
  OBVIOUS
<1>2. /\ call.pc = "asked" /\ calls' = [calls EXCEPT ![c] = r] /\ UNCHANGED tables
      /\ UNCHANGED <<budget, lost>>
  BY <1>0, <1>1 DEF ReadMember, At
<1>3. call \in CallSet
  BY <1>0 DEF MembersInvariant, CallsTyped
<1>4. /\ r.pc = "read" /\ r.kind = call.kind /\ r.by = call.by /\ r.member = call.member
      /\ r.status = call.status /\ r.role = call.role /\ r.version = version + 1
      /\ r.epoch = rows[call.member].epoch + 1
  BY <1>1, <1>3 DEF CallSet
<1>5. r.reduces <=> r.status # "active" \/ Rank(r.role) > Rank(rows[r.member].role)
  <2> DEFINE reducing == call.status # "active" \/ Rank(call.role) > Rank(rows[call.member].role)
  <2>1. reducing \in BOOLEAN
    OBVIOUS
  <2>2. r.reduces = reducing
    BY <1>1, <1>3 DEF CallSet
  <2> QED BY <1>4, <2>2
<1>6. /\ UNCHANGED <<version, rows, ops, local, taken>>
      /\ SeatsTaken' = SeatsTaken /\ Seats' = Seats /\ SeatsTaken' <= Seats'
  BY <1>2, TablesStand
<1>7. InFlight \subseteq {c}
  BY <1>0, <1>2 DEF InTurn, OneCall, InFlight
<1>8. CallInTurn(call) /\ SeatKept(call)
  BY <1>0 DEF InTurn
<1>9. CallInTurn(r)'
  BY <1>2, <1>4, <1>5, <1>6, <1>8 DEF CallInTurn
<1>10. SeatKept(r)'
  BY <1>2, <1>4, <1>6, <1>8 DEF SeatKept
<1> QED BY <1>0, <1>2, <1>4, <1>6, <1>7, <1>9, <1>10, TurnGoesOn

LEMMA EndInTurn ==
    ASSUME MembersInvariant, BudgetKnown, InTurn, NEW c \in Calls,
           NotAdmitted(c) \/ NotProjected(c) \/ NotRecorded(c) \/ NotProjectable(c)
              \/ NotAcknowledged(c) \/ Lose(c)
    PROVE  InTurn'
<1>1. /\ Finish(c) /\ UNCHANGED tables /\ lost \subseteq lost' /\ calls[c].pc # "idle"
      /\ calls[c].pc \in {"recorded", "projected"} => IdOf(calls[c]) \in lost'
      /\ budget' = budget \/ budget' = [budget EXCEPT !.losses = @ - 1]
  BY DEF NotAdmitted, NotProjected, NotRecorded, NotProjectable, NotAcknowledged, Lose, At
<1>2. UNCHANGED <<version, rows, ops, local, taken>> /\ SeatsTaken' <= Seats'
  BY <1>1, TablesStand
<1>3. InFlight \subseteq {c}
  BY <1>1 DEF InTurn, OneCall, InFlight
<1>4. NoCall.pc = "idle" /\ calls' = [calls EXCEPT ![c] = NoCall]
  BY <1>1 DEF NoCall, Finish
<1>5. CallInTurn(NoCall)' /\ SeatKept(NoCall)'
  BY <1>4 DEF CallInTurn, SeatKept
<1> QED BY <1>1, <1>2, <1>3, <1>4, <1>5, TurnGoesOn

-----------------------------------------------------------------------------
(* Invitations, in turn.                                                    *)

LEMMA InviteInTurn ==
    ASSUME MembersInvariant, BudgetKnown, InTurn, NEW c \in Calls, NEW i \in Invitations,
           Invite(c, i)
    PROVE  InTurn'
<1>1. /\ calls[c].pc = "inviting" /\ Finish(c) /\ UNCHANGED <<version, rows, ops, local, taken>>
      /\ UNCHANGED <<budget, lost>> /\ invites[i].state = "none"
      /\ invites' = [invites EXCEPT ![i] =
          [state |-> IF SeatsTaken >= Seats THEN "held" ELSE "ready",
           person |-> calls[c].member, role |-> calls[c].role]]
  BY DEF Invite, At
<1>2. Seats' = Seats /\ Seats \in Nat /\ invites \in [Invitations -> InviteSet]
  BY <1>1 DEF Seats, BudgetKnown, MembersInvariant, TablesTyped
<1>3. Counted' \subseteq Counted
  BY <1>1 DEF Counted
<1>4. SeatsTaken' <= Seats'
  <2>1. CASE SeatsTaken >= Seats
    <3>1. ReadyInvites' \subseteq ReadyInvites
      BY <1>1, <1>2, <2>1 DEF ReadyInvites
    <3> QED BY <1>2, <1>3, <3>1, SeatsFewer DEF InTurn
  <2>2. CASE ~(SeatsTaken >= Seats)
    <3>1. ReadyInvites' \subseteq ReadyInvites \cup {i}
      BY <1>1, <1>2 DEF ReadyInvites
    <3>2. SeatsTaken' <= SeatsTaken + 1 /\ SeatsTaken' \in Nat /\ SeatsTaken \in Nat
      BY <1>3, <3>1, OneSeatMore
    <3> QED BY <1>2, <2>2, <3>2
  <2> QED BY <2>1, <2>2
<1>5. InFlight \subseteq {c}
  BY <1>1 DEF InTurn, OneCall, InFlight
<1>6. NoCall.pc = "idle" /\ calls' = [calls EXCEPT ![c] = NoCall]
  BY <1>1 DEF NoCall, Finish
<1>7. CallInTurn(NoCall)' /\ SeatKept(NoCall)'
  BY <1>6 DEF CallInTurn, SeatKept
<1> QED BY <1>1, <1>4, <1>5, <1>6, <1>7, TurnGoesOn

LEMMA RevokeInTurn ==
    ASSUME MembersInvariant, BudgetKnown, InTurn, NEW i \in Invitations, RevokeInvitation(i)
    PROVE  InTurn'
<1>1. /\ invites' = [invites EXCEPT ![i].state = "revoked"]
      /\ UNCHANGED <<version, rows, ops, local, taken, calls, lost, budget>>
  BY DEF RevokeInvitation
<1>2. Seats' = Seats /\ Seats \in Nat /\ invites \in [Invitations -> InviteSet]
  BY <1>1 DEF Seats, BudgetKnown, MembersInvariant, TablesTyped
<1>3. \A k \in Invitations : /\ k # i => invites'[k] = invites[k]
                             /\ invites'[i].state = "revoked"
  BY <1>1, <1>2 DEF InviteSet
<1>4. Counted' \subseteq Counted /\ ReadyInvites' \subseteq ReadyInvites \ {i}
  BY <1>1, <1>3 DEF Counted, ReadyInvites
<1>5. SeatsTaken' <= SeatsTaken /\ SeatsTaken' \in Nat /\ SeatsTaken \in Nat
  BY <1>4, SeatsFewer
<1>6. invites[i].state = "ready" => SeatsTaken' < SeatsTaken
  BY <1>4, SeatGivenBack DEF ReadyInvites
<1>7. SeatsTaken <= Seats
  BY DEF InTurn
<1>8. \A c \in Calls : SeatKept(calls[c])'
  <2> SUFFICES ASSUME NEW c \in Calls PROVE SeatKept(calls[c])'
    OBVIOUS
  <2>1. SeatKept(calls[c]) /\ (calls[c].pc = "joining" => calls[c].invite \in Invitations)
    BY DEF InTurn, MembersInvariant, CallsTyped, CallTyped
  <2>2. SeatsTaken < Seats => SeatsTaken' < Seats'
    BY <1>2, <1>5
  <2>3. invites[i].state = "ready" => SeatsTaken' < Seats'
    BY <1>2, <1>5, <1>6, <1>7
  <2> QED BY <1>1, <1>3, <2>1, <2>2, <2>3 DEF SeatKept
<1>9. SeatsTaken' <= Seats'
  BY <1>2, <1>5, <1>7
<1> QED BY <1>1, <1>8, <1>9, TurnStands

LEMMA ConfirmInTurn ==
    ASSUME MembersInvariant, BudgetKnown, InTurn, ~overlapped', NEW i \in Invitations,
           ConfirmInvitationPlan(i)
    PROVE  InTurn'
<1>1. /\ invites' = [invites EXCEPT ![i].state = "ready"] /\ SeatsTaken < Seats
      /\ UNCHANGED <<version, rows, ops, local, taken, calls, lost, budget>> /\ InFlight = {}
  BY DEF ConfirmInvitationPlan
<1>2. Seats' = Seats /\ Seats \in Nat /\ invites \in [Invitations -> InviteSet]
  BY <1>1 DEF Seats, BudgetKnown, MembersInvariant, TablesTyped
<1>3. Counted' \subseteq Counted /\ ReadyInvites' \subseteq ReadyInvites \cup {i}
  BY <1>1, <1>2 DEF Counted, ReadyInvites
<1>4. SeatsTaken' <= SeatsTaken + 1 /\ SeatsTaken' \in Nat /\ SeatsTaken \in Nat
  BY <1>3, OneSeatMore
<1>5. SeatsTaken' <= Seats'
  BY <1>1, <1>2, <1>4
<1>6. \A c \in Calls : SeatKept(calls[c])'
  BY <1>1 DEF InFlight, SeatKept
<1> QED BY <1>1, <1>5, <1>6, TurnStands

-----------------------------------------------------------------------------
(* An operation is recorded, in turn.                                       *)

(* Where every call about a person came to its end, the planes are equal.   *)
LEMMA RestOfPerson ==
    ASSUME MembersInvariant, RowsRecorded, InTurn, NEW p \in People,
           \A o \in ops : o.member = p => Finished(o)
    PROVE  rows[p] = local[p]
<1>1. \A o \in ops : o.member = p => IdOf(o) \in taken
  BY DEF InTurn
<1>2. CASE local[p] = NoRow
  <2>1. \A o \in ops : o.member # p
    BY <1>1, <1>2 DEF MembersInvariant, LocalIsLast
  <2> QED BY <1>2, <2>1 DEF RowsRecorded
<1>3. CASE local[p] # NoRow
  <2>1. PICK q \in ops : q.member = p /\ local[p] = ProjectionOf(q)
    BY <1>3 DEF MembersInvariant, LocalIsTaken
  <2>2. \A o \in ops : o.member = p => o.version <= q.version
    BY <1>1, <2>1 DEF MembersInvariant, LocalIsLast, ProjectionOf
  <2>3. Newest(q)
    BY <2>1, <2>2 DEF Newest, Finished
  <2> QED BY <2>1, <2>3 DEF InTurn, Settled
<1> QED BY <1>2, <1>3

LEMMA RecordedInTurn ==
    ASSUME MembersInvariant, InTurn, NEW c \in Calls, InFlight \subseteq {c},
           calls[c].pc \notin {"recorded", "projected"},
           NEW o \in OperationSet, IdOf(o) \notin {IdOf(q) : q \in ops},
           o.version = version + 1, version' = o.version, ops' = ops \cup {o},
           \A p \in People : p # o.member => rows'[p] = rows[p],
           UNCHANGED <<local, taken, lost>>,
           NEW r, calls' = [calls EXCEPT ![c] = r], r.pc = "recorded", Operation(r) = o,
           Newest(o)' => HalfWritten(r)',
           r.kind = "transfer" => rows'[r.by].status = "active",
           SeatKept(r)', SeatsTaken' <= Seats'
    PROVE  InTurn'
<1>0. ops \subseteq OperationSet /\ version \in Nat /\ r.version = o.version
  BY DEF MembersInvariant, TablesTyped, Operation
<1>1. CallInTurn(r)'
  BY <1>0 DEF CallInTurn
<1>2. /\ OneCall' /\ \A d \in Calls : (CallInTurn(calls[d]) /\ SeatKept(calls[d]))'
      /\ \A q : Carried(q) <=> Carries(calls[c], q)
      /\ \A q : Carried(q)' <=> Carries(r, q)
  BY <1>1, ItGoesOn
<1>3. VersionsBelow'
  <2>1. \A q \in ops : q.version <= version /\ q.version \in Nat
    BY <1>0 DEF InTurn, VersionsBelow, OperationSet
  <2> QED BY <1>0, <2>1 DEF VersionsBelow, OperationSet
<1>4. Carried(o)'
  BY <1>2 DEF Carries
<1>5. \A q \in ops : Finished(q)' => Finished(q)
  BY <1>2 DEF Finished, Carries
<1>6. \A q \in ops' : Finished(q)' => IdOf(q) \in taken'
  BY <1>4, <1>5 DEF InTurn, Finished
<1>7. ASSUME NEW q \in ops', Newest(q)'
      PROVE  Between(q)' /\ (Finished(q)' => Settled(q)')
  <2>1. CASE q = o
    <3>1. HalfWritten(r)'
      BY <1>7, <2>1
    <3>2. Between(o)'
      BY <3>1 DEF HalfWritten, Between
    <3> QED BY <1>4, <2>1, <3>2 DEF Finished
  <2>2. CASE q # o
    <3>1. q \in ops /\ q.version <= version /\ q.version \in Nat
      BY <1>0, <2>2 DEF InTurn, VersionsBelow, OperationSet
    <3>2. q.member # o.member
      BY <1>0, <1>7, <3>1 DEF Newest
    <3>3. q.member \in People /\ rows'[q.member] = rows[q.member]
      BY <1>0, <3>1, <3>2 DEF OperationSet
    <3>4. Newest(q)
      BY <1>7 DEF Newest
    <3>5. Between(q) => Between(q)'
      BY <3>3 DEF Between, Reduced, Joining, Rising
    <3>6. Settled(q) => Settled(q)'
      BY <3>3 DEF Settled
    <3> QED BY <1>5, <3>1, <3>4, <3>5, <3>6 DEF InTurn
  <2> QED BY <2>1, <2>2
<1> QED BY <1>2, <1>3, <1>6, <1>7 DEF InTurn

LEMMA AdmitInTurn ==
    ASSUME MembersInvariant, BudgetKnown, InTurn, NEW c \in Calls, Admit(c)
    PROVE  InTurn'
<1>0. PICK call : call = calls[c]
  OBVIOUS
<1>1. PICK r : r = [call EXCEPT !.pc = "recorded"]
  OBVIOUS
<1>2. PICK o : o = Operation(call)
  OBVIOUS
<1>3. /\ call.pc = "joining" /\ rows[call.member].status = "none"
      /\ rows' = [rows EXCEPT ![call.member] = [Projection(call) EXCEPT !.status = "pending"]]
      /\ version' = call.version
      /\ invites' = [invites EXCEPT ![call.invite].state = "accepted"]
      /\ ops' = ops \cup {o}
      /\ calls' = [calls EXCEPT ![c] = r]
      /\ UNCHANGED <<local, taken, lost, budget>>
  BY <1>0, <1>1, <1>2 DEF Admit, At, Continue
<1>4. /\ o \in OperationSet /\ o.member = call.member /\ call.member \in People
      /\ o.version = call.version
  BY <1>0, <1>2, <1>3, OperationOfCall
<1>5. call \in CallSet /\ CallTyped(call) /\ rows \in Table /\ invites \in [Invitations -> InviteSet]
  BY <1>0 DEF MembersInvariant, CallsTyped, TablesTyped
<1>6. /\ r.pc = "recorded" /\ r.kind = "join" /\ r.member = call.member /\ r.status = call.status
      /\ Operation(r) = o
  BY <1>1, <1>2, <1>3, <1>5 DEF CallSet, Operation, CallTyped
<1>7. IdOf(o) \notin {IdOf(q) : q \in ops}
  <2>1. rows[call.member] = NoRow
    BY <1>3, <1>4, RowThere
  <2> QED BY <1>4, <2>1 DEF MembersInvariant, OperationsNamed, IdOf
<1>8. CallInTurn(call) /\ SeatKept(call) /\ SeatsTaken <= Seats
  BY <1>0 DEF InTurn
<1>9. call.version = version + 1
  BY <1>3, <1>8 DEF CallInTurn
<1>10. InFlight \subseteq {c} /\ calls[c].pc = "joining"
  BY <1>0, <1>3 DEF InTurn, OneCall, InFlight
<1>11. \A p \in People : rows'[p] = IF p = call.member
                                    THEN [Projection(call) EXCEPT !.status = "pending"] ELSE rows[p]
  BY <1>3, <1>4, <1>5 DEF Table
<1>12. HalfWritten(r)'
  <2>1. [Projection(call) EXCEPT !.status = "pending"] = [ProjectionOf(o) EXCEPT !.status = "pending"]
    BY <1>2 DEF Projection, ProjectionOf, Operation
  <2>2. o.status = "active"
    BY <1>2, <1>3, <1>5 DEF CallTyped, Operation
  <2> QED BY <1>4, <1>6, <1>11, <2>1, <2>2 DEF HalfWritten, Joining
<1>13. Counted' \subseteq Counted
  BY <1>11 DEF Counted, Projection
<1>14. call.invite \in Invitations
  BY <1>3, <1>5 DEF CallTyped
<1>15. ReadyInvites' \subseteq ReadyInvites \ {call.invite}
  <2>1. \A k \in Invitations : /\ k # call.invite => invites'[k] = invites[k]
                               /\ invites'[call.invite].state = "accepted"
    BY <1>3, <1>5, <1>14 DEF InviteSet
  <2> QED BY <2>1 DEF ReadyInvites
<1>16. Seats' = Seats /\ Seats \in Nat
  BY <1>3 DEF Seats, BudgetKnown
<1>17. SeatsTaken' < Seats' /\ SeatsTaken' \in Nat
  <2>1. SeatsTaken' <= SeatsTaken /\ SeatsTaken' \in Nat /\ SeatsTaken \in Nat
    BY <1>13, <1>15, SeatsFewer
  <2>2. CASE invites[call.invite].state = "ready"
    <3>1. SeatsTaken' < SeatsTaken
      BY <1>13, <1>14, <1>15, <2>2, SeatGivenBack DEF ReadyInvites
    <3> QED BY <1>8, <1>16, <2>1, <3>1
  <2>3. CASE SeatsTaken < Seats
    BY <1>16, <2>1, <2>3
  <2> QED BY <1>3, <1>8, <2>2, <2>3 DEF SeatKept
<1>18. SeatKept(r)' /\ SeatsTaken' <= Seats'
  BY <1>6, <1>16, <1>17 DEF SeatKept
<1> QED BY <1>0, <1>3, <1>4, <1>6, <1>7, <1>9, <1>10, <1>11, <1>12, <1>18, RecordedInTurn

LEMMA CreateWorkspaceInTurn ==
    ASSUME MembersInvariant, OwnersKept, BudgetKnown, InTurn, ~overlapped',
           NEW c \in Calls, CreateWorkspace(c)
    PROVE  InTurn'
<1>1. PICK r : r = [NoCall EXCEPT !.pc = "recorded", !.kind = "found", !.member = Founder,
                       !.role = "owner", !.status = "active", !.epoch = 1, !.version = 1]
  OBVIOUS
<1>2. PICK o : o = Operation(r)
  OBVIOUS
<1>3. /\ version = 0 /\ calls[c].pc = "idle" /\ InFlight = {} /\ version' = 1
      /\ rows' = [rows EXCEPT ![Founder] = [Projection(r) EXCEPT !.status = "pending"]]
      /\ ops' = ops \cup {o}
      /\ calls' = [calls EXCEPT ![c] = r]
      /\ UNCHANGED <<invites, local, taken, lost>>
      /\ budget' = [budget EXCEPT !.calls = @ - 1]
  BY <1>1, <1>2 DEF CreateWorkspace, Begin, CanBegin
<1>4. /\ r.pc = "recorded" /\ r.kind = "found" /\ r.member = Founder /\ r.role = "owner"
      /\ r.status = "active" /\ r.epoch = 1 /\ r.version = 1
  BY <1>1 DEF NoCall
<1>5. /\ o.member = Founder /\ o.role = "owner" /\ o.status = "active" /\ o.epoch = 1
      /\ o.version = 1 /\ Founder \in People
  BY <1>2, <1>4, MembershipAssumption DEF Operation
<1>6. o \in OperationSet
  BY <1>2, <1>4, <1>5 DEF Operation, OperationSet, Roles, Statuses
<1>7. /\ ops = {} /\ \A p \in People : rows[p] = NoRow
      /\ rows \in Table /\ invites \in [Invitations -> InviteSet]
  BY <1>3 DEF MembersInvariant, OperationsNamed, TablesTyped
<1>8. \A p \in People : rows'[p] = IF p = Founder
                                   THEN [Projection(r) EXCEPT !.status = "pending"] ELSE NoRow
  BY <1>3, <1>5, <1>7 DEF Table
<1>9. HalfWritten(r)'
  <2>1. [Projection(r) EXCEPT !.status = "pending"] = [ProjectionOf(o) EXCEPT !.status = "pending"]
    BY <1>2 DEF Projection, ProjectionOf, Operation
  <2> QED BY <1>2, <1>4, <1>5, <1>8, <2>1 DEF HalfWritten, Joining
<1>10. Counted' \subseteq Counted
  BY <1>8 DEF Counted, Projection, NoRow
<1>11. ReadyInvites' \subseteq ReadyInvites /\ ReadyInvites = {} /\ Counted = {}
  <2>1. ~HasOwner(rows)
    BY <1>7 DEF HasOwner, OwnerIn, NoRow
  <2>2. ~Lively
    BY <2>1 DEF OwnersKept
  <2> QED BY <1>3, <1>7, <2>2 DEF ReadyInvites, Lively, Counted, NoRow
<1>12. Seats' = Seats /\ Seats \in Nat \ {0}
  BY <1>3, BudgetStays DEF BudgetKnown
<1>13. SeatsTaken' < Seats' /\ SeatsTaken' <= Seats'
  <2>1. SeatsTaken' <= SeatsTaken /\ SeatsTaken' \in Nat
    BY <1>10, <1>11, SeatsFewer
  <2>2. SeatsTaken = 0
    BY <1>11, FS_EmptySet DEF SeatsTaken
  <2> QED BY <1>12, <2>1, <2>2
<1>14. SeatKept(r)'
  BY <1>4, <1>13 DEF SeatKept
<1>15. o.version = version + 1 /\ version' = o.version /\ InFlight \subseteq {c}
       /\ calls[c].pc \notin {"recorded", "projected"} /\ IdOf(o) \notin {IdOf(q) : q \in ops}
       /\ \A p \in People : p # o.member => rows'[p] = rows[p]
  BY <1>3, <1>5, <1>7, <1>8
<1> QED BY <1>2, <1>3, <1>4, <1>6, <1>9, <1>13, <1>14, <1>15, RecordedInTurn

LEMMA RecordInTurn ==
    ASSUME MembersInvariant, RowsRecorded, BudgetKnown, InTurn, NEW c \in Calls, Record(c)
    PROVE  InTurn'
<1>0. PICK call : call = calls[c]
  OBVIOUS
<1>1. PICK r : r = [call EXCEPT !.pc = "recorded"]
  OBVIOUS
<1>2. PICK o : o = Operation(call)
  OBVIOUS
<1>3. /\ call.pc = "read" /\ IdOf(call) \notin {IdOf(q) : q \in ops}
      /\ rows' = IF call.reduces THEN [rows EXCEPT ![call.member] = Projection(call)] ELSE rows
      /\ version' = call.version /\ ops' = ops \cup {o}
      /\ calls' = [calls EXCEPT ![c] = r]
      /\ UNCHANGED <<invites, local, taken, lost, budget>>
  BY <1>0, <1>1, <1>2 DEF Record, Recordable, At, Continue
<1>4. /\ o \in OperationSet /\ o.member = call.member /\ call.member \in People
      /\ o.version = call.version /\ IdOf(o) = IdOf(call)
  BY <1>0, <1>2, <1>3, OperationOfCall
<1>5. call \in CallSet /\ CallTyped(call) /\ rows \in Table
  BY <1>0 DEF MembersInvariant, CallsTyped, TablesTyped
<1>6. /\ r.pc = "recorded" /\ r.kind = call.kind /\ r.by = call.by /\ r.member = call.member
      /\ r.role = call.role /\ r.status = call.status /\ r.reduces = call.reduces
      /\ Operation(r) = o
  BY <1>1, <1>2, <1>5 DEF CallSet, Operation
<1>7. CallInTurn(call) /\ SeatKept(call) /\ SeatsTaken <= Seats
  BY <1>0 DEF InTurn
<1>8. /\ call.version = version + 1 /\ call.epoch = rows[call.member].epoch + 1
      /\ call.reduces <=> call.status # "active" \/ Rank(call.role) > Rank(rows[call.member].role)
  BY <1>3, <1>7 DEF CallInTurn
<1>9. InFlight \subseteq {c} /\ calls[c].pc = "read"
  BY <1>0, <1>3 DEF InTurn, OneCall, InFlight
<1>10. \A p \in People : rows'[p] = IF p = call.member /\ call.reduces
                                    THEN Projection(call) ELSE rows[p]
  BY <1>3, <1>4, <1>5 DEF Table
<1>11. /\ o.role = call.role /\ o.status = call.status /\ o.epoch = call.epoch
       /\ Projection(call) = ProjectionOf(o) /\ Projection(call).status = call.status
  BY <1>2 DEF Operation, Projection, ProjectionOf
<1>12. Newest(o)' => rows[call.member] = local[call.member]
  <2> SUFFICES ASSUME Newest(o)' PROVE rows[call.member] = local[call.member]
    OBVIOUS
  <2>1. \A q \in ops : ~Carried(q)
    BY <1>9 DEF Carried, Carries, InFlight
  <2>2. \A q \in ops : q.member = call.member => IdOf(q) \notin lost
    BY <1>3, <1>4 DEF Newest
  <2>3. \A q \in ops : q.member = call.member => Finished(q)
    BY <2>1, <2>2 DEF Finished
  <2> QED BY <1>4, <2>3, RestOfPerson
<1>13. Newest(o)' => HalfWritten(r)'
  <2> SUFFICES ASSUME Newest(o)' PROVE HalfWritten(r)'
    OBVIOUS
  <2>1. r.kind \notin {"found", "join"}
    BY <1>3, <1>5, <1>6 DEF CallTyped
  <2>2. rows[call.member].epoch \in Nat /\ local'[call.member] = rows[call.member]
    BY <1>3, <1>4, <1>12, RowThere
  <2>3. CASE call.reduces
    <3>1. Reduced(o)'
      BY <1>4, <1>8, <1>10, <1>11, <2>2, <2>3 DEF Reduced
    <3> QED BY <1>6, <2>1, <2>3, <3>1 DEF HalfWritten
  <2>4. CASE ~call.reduces
    <3>1. rows'[call.member] = rows[call.member]
      BY <1>4, <1>10, <2>4
    <3>2. o.status = "active" /\ ~(Rank(o.role) > Rank(rows[call.member].role))
      BY <1>8, <1>11, <2>4
    <3>3. Rank(o.role) \in Nat /\ Rank(rows[call.member].role) \in Nat
      BY DEF Rank
    <3>4. Rank(o.role) <= Rank(rows[call.member].role) /\ rows[call.member].epoch < o.epoch
      BY <1>8, <1>11, <2>2, <3>2, <3>3
    <3>5. Rising(o)'
      BY <1>4, <2>2, <3>1, <3>2, <3>4 DEF Rising, Rank
    <3> QED BY <1>6, <2>1, <2>4, <3>5 DEF HalfWritten
  <2> QED BY <2>3, <2>4
<1>14. r.kind = "transfer" => rows'[r.by].status = "active"
  BY <1>3, <1>5, <1>6, <1>7, <1>10, <1>11 DEF CallInTurn, CallTyped
<1>15. Seats' = Seats /\ Seats \in Nat /\ UNCHANGED ReadyInvites
  BY <1>3 DEF Seats, BudgetKnown, ReadyInvites
<1>16. SeatsTaken' <= Seats' /\ SeatKept(r)'
  <2>1. CASE ~call.reduces
    <3>1. Counted' = Counted
      BY <1>3, <2>1 DEF Counted
    <3>2. SeatsTaken' = SeatsTaken
      BY <1>15, <3>1, SeatsSame
    <3> QED BY <1>3, <1>6, <1>7, <1>15, <2>1, <3>2 DEF SeatKept
  <2>2. CASE call.reduces /\ call.status # "active"
    <3>1. Counted' \subseteq Counted
      BY <1>10, <1>11, <2>2 DEF Counted
    <3>2. SeatsTaken' <= Seats'
      BY <1>7, <1>15, <3>1, SeatsFewer
    <3> QED BY <1>6, <2>2, <3>2 DEF SeatKept
  <2>3. CASE call.reduces /\ call.status = "active"
    <3>1. rows'[r.member].status = "active"
      BY <1>4, <1>6, <1>10, <1>11, <2>3
    <3>2. SeatKept(r)'
      BY <1>6, <3>1 DEF SeatKept
    <3>3. CASE rows[call.member].status = "active"
      <4>1. Counted' \subseteq Counted
        BY <1>10, <3>3 DEF Counted
      <4> QED BY <1>7, <1>15, <3>2, <4>1, SeatsFewer
    <3>4. CASE rows[call.member].status # "active"
      <4>1. SeatsTaken < Seats
        BY <1>3, <1>7, <2>3, <3>4 DEF SeatKept
      <4>2. Counted' \subseteq Counted \cup {call.member}
        BY <1>10 DEF Counted
      <4>3. SeatsTaken' <= SeatsTaken + 1 /\ SeatsTaken' \in Nat /\ SeatsTaken \in Nat
        BY <1>15, <4>2, OneSeatMore
      <4> QED BY <1>15, <3>2, <4>1, <4>3
    <3> QED BY <3>3, <3>4
  <2> QED BY <2>1, <2>2, <2>3
<1>17. \A p \in People : p # o.member => rows'[p] = rows[p]
  BY <1>4, <1>10
<1> QED BY <1>0, <1>3, <1>4, <1>6, <1>8, <1>9, <1>13, <1>14, <1>16, <1>17, RecordedInTurn

-----------------------------------------------------------------------------
(* The object takes an operation, in turn.                                  *)

(* It is the newest of its member, or taken already. *)
LEMMA OnlyNewestApplied ==
    ASSUME MembersInvariant, InTurn, NEW o \in ops, ApplyMembership(o), NEW x \in ops, Newest(x)
    PROVE  local'[x.member] = local[x.member] \/ local'[x.member] = ProjectionOf(x)
<1>1. /\ ops \subseteq OperationSet /\ local \in Table
      /\ \A p, q \in ops : IdOf(p) = IdOf(q) => p = q
  BY DEF MembersInvariant, TablesTyped, OperationsNamed
<1>2. /\ o.member \in People /\ x.member \in People /\ o.version \in Nat /\ x.version \in Nat
  BY <1>1 DEF OperationSet
<1>3. CASE IdOf(o) \in taken \/ x.member # o.member
  BY <1>1, <1>2, <1>3 DEF ApplyMembership, Table
<1>4. CASE x = o
  BY <1>1, <1>2, <1>4 DEF ApplyMembership, Table
<1>5. ASSUME IdOf(o) \notin taken, x.member = o.member, x # o
      PROVE  FALSE
  <2>1. o.version <= x.version /\ IdOf(o) \notin lost
    BY <1>5 DEF Newest
  <2>2. o.version # x.version
    BY <1>1, <1>5 DEF IdOf
  <2>3. Carried(o)
    BY <1>5, <2>1 DEF InTurn, Finished
  <2>4. PICK c \in Calls : calls[c].pc \in {"recorded", "projected"} /\ Operation(calls[c]) = o
    BY <2>3 DEF Carried, Carries
  <2>5. calls[c].version = version /\ o.version = calls[c].version
    BY <2>4 DEF InTurn, CallInTurn, Operation
  <2>6. x.version <= version
    BY DEF InTurn, VersionsBelow
  <2> QED BY <1>2, <2>1, <2>2, <2>5, <2>6
<1> QED BY <1>3, <1>4, <1>5

LEMMA AppliedInTurn ==
    ASSUME MembersInvariant, InTurn, NEW o \in ops, ApplyMembership(o),
           UNCHANGED <<version, rows, ops, invites, lost>>, Seats' = Seats,
           calls' \in [Calls -> CallSet],
           \A c \in Calls : \/ calls'[c] = calls[c]
                            \/ calls[c].pc = "recorded" /\ calls'[c] = [calls[c] EXCEPT !.pc = "projected"]
    PROVE  InTurn'
<1>1. calls \in [Calls -> CallSet]
  BY DEF MembersInvariant, CallsTyped
<1>2. ASSUME NEW c \in Calls
      PROVE  /\ calls'[c].pc = "idle" <=> calls[c].pc = "idle"
             /\ calls'[c].pc \in {"recorded", "projected"} <=> calls[c].pc \in {"recorded", "projected"}
             /\ calls'[c].pc \in {"joining", "asked", "read"} => calls'[c] = calls[c]
             /\ calls'[c].kind = calls[c].kind /\ calls'[c].by = calls[c].by
             /\ calls'[c].member = calls[c].member /\ calls'[c].status = calls[c].status
             /\ calls'[c].role = calls[c].role /\ calls'[c].reduces = calls[c].reduces
             /\ calls'[c].version = calls[c].version
             /\ Operation(calls'[c]) = Operation(calls[c])
  BY <1>1 DEF CallSet, Operation
<1>3. OneCall'
  BY <1>2 DEF InTurn, OneCall, InFlight
<1>4. \A x : Carried(x)' <=> Carried(x)
  BY <1>2 DEF Carried, Carries
<1>5. \A x : Newest(x)' <=> Newest(x)
  BY DEF Newest
<1>6. \A x \in ops : Finished(x)' <=> Finished(x)
  BY <1>4 DEF Finished
<1>7. VersionsBelow'
  BY DEF InTurn, VersionsBelow
<1>8. \A x \in ops' : Finished(x)' => IdOf(x) \in taken'
  BY <1>6 DEF InTurn, ApplyMembership
<1>9. ASSUME NEW x \in ops, Newest(x)
      PROVE  /\ Reduced(x) => Reduced(x)'
             /\ Joining(x) => Joining(x)'
             /\ Rising(x) => Rising(x)'
             /\ Settled(x) => Settled(x)'
  <2>1. local'[x.member] = local[x.member] \/ local'[x.member] = ProjectionOf(x)
    BY <1>9, OnlyNewestApplied
  <2> QED BY <2>1 DEF Reduced, Joining, Rising, Settled
<1>10. \A x \in ops' : Newest(x)' => Between(x)' /\ (Finished(x)' => Settled(x)')
  BY <1>5, <1>6, <1>9 DEF InTurn, Between
<1>11. SeatsTaken' = SeatsTaken
  BY SeatsSame DEF Counted, ReadyInvites
<1>12. ASSUME NEW c \in Calls PROVE SeatKept(calls[c])'
  <2>1. SeatKept(calls[c])
    BY DEF InTurn
  <2>2. CASE calls'[c].pc = "joining"
    BY <1>2, <1>11, <2>1, <2>2 DEF SeatKept
  <2>3. CASE calls'[c].pc \in {"asked", "read"}
    BY <1>2, <1>11, <2>1, <2>3 DEF SeatKept
  <2>4. CASE calls'[c].pc \in {"recorded", "projected"}
    <3>1. calls[c].pc \in {"recorded", "projected"}
      BY <1>2, <2>4
    <3> QED BY <1>2, <1>11, <2>1, <2>4, <3>1 DEF SeatKept
  <2> QED BY <2>2, <2>3, <2>4 DEF SeatKept
<1>13. ASSUME NEW c \in Calls PROVE CallInTurn(calls[c])'
  <2>1. CallInTurn(calls[c])
    BY DEF InTurn
  <2>2. PICK s : s = calls[c]
    OBVIOUS
  <2>3. PICK t : t = calls'[c]
    OBVIOUS
  <2>4. CASE t.pc \in {"recorded", "projected"}
    <3>1. s.pc \in {"recorded", "projected"} /\ s.version = version
      BY <1>2, <2>1, <2>2, <2>3, <2>4 DEF CallInTurn
    <3>2. /\ t.version = s.version /\ t.kind = s.kind /\ t.by = s.by /\ t.reduces = s.reduces
          /\ Operation(t) = Operation(s)
      BY <1>2, <2>2, <2>3
    <3>3. PICK x : x = Operation(s)
      OBVIOUS
    <3>4. x \in ops
      BY <2>2, <3>1, <3>3 DEF MembersInvariant, CallsKnown, Rooted
    <3>5. Newest(x) => HalfWritten(s)
      BY <2>1, <2>2, <3>1, <3>3 DEF CallInTurn
    <3>6. Newest(x)' => HalfWritten(t)'
      BY <1>5, <1>9, <3>2, <3>3, <3>4, <3>5 DEF HalfWritten
    <3>7. Newest(Operation(t))' => HalfWritten(t)'
      BY <3>2, <3>3, <3>6
    <3>8. t.kind = "transfer" => rows'[t.by].status = "active"
      BY <2>1, <2>2, <3>1, <3>2 DEF CallInTurn
    <3>9. CallInTurn(t)'
      BY <2>4, <3>1, <3>2, <3>7, <3>8 DEF CallInTurn
    <3> QED BY <2>3, <3>9 DEF CallInTurn
  <2>5. CASE t.pc \notin {"recorded", "projected"}
    BY <1>2, <2>1, <2>2, <2>3, <2>5 DEF CallInTurn
  <2> QED BY <2>4, <2>5
<1>14. SeatsTaken' <= Seats'
  BY <1>11 DEF InTurn
<1> QED BY <1>3, <1>7, <1>8, <1>10, <1>12, <1>13, <1>14 DEF InTurn

LEMMA ProjectInTurn ==
    ASSUME MembersInvariant, BudgetKnown, InTurn, NEW c \in Calls, Project(c)
    PROVE  InTurn'
<1>1. /\ calls[c].pc = "recorded" /\ ApplyMembership(Operation(calls[c]))
      /\ calls' = [calls EXCEPT ![c].pc = "projected"]
      /\ UNCHANGED <<version, rows, ops, invites, lost, budget>>
  BY DEF Project, At, Continue
<1>2. Operation(calls[c]) \in ops /\ calls \in [Calls -> CallSet]
  BY <1>1 DEF MembersInvariant, CallsKnown, Rooted, CallsTyped
<1>3. [calls[c] EXCEPT !.pc = "projected"] \in CallSet
  BY <1>2 DEF CallSet
<1>4. calls' \in [Calls -> CallSet]
  BY <1>1, <1>2, <1>3
<1>5. \A d \in Calls : \/ calls'[d] = calls[d]
                       \/ calls[d].pc = "recorded" /\ calls'[d] = [calls[d] EXCEPT !.pc = "projected"]
  BY <1>1, <1>2
<1>6. Seats' = Seats
  BY <1>1 DEF Seats
<1> QED BY <1>1, <1>2, <1>4, <1>5, <1>6, AppliedInTurn

LEMMA RedeliverInTurn ==
    ASSUME MembersInvariant, BudgetKnown, InTurn, NEW o \in ops, Redeliver(o)
    PROVE  InTurn'
<1>1. /\ ApplyMembership(o) /\ UNCHANGED <<version, rows, ops, invites, lost, calls>>
      /\ budget' = [budget EXCEPT !.deliveries = @ - 1]
  BY DEF Redeliver
<1>2. Seats' = Seats
  BY <1>1, BudgetStays
<1>3. calls \in [Calls -> CallSet]
  BY DEF MembersInvariant, CallsTyped
<1> QED BY <1>1, <1>2, <1>3, AppliedInTurn

(* The object's row is the newest operation, once it has been taken. *)
LEMMA TakenIsNewest ==
    ASSUME MembersInvariant, NEW o \in ops, IdOf(o) \in taken,
           \A q \in ops : q.member = o.member => q.version <= o.version
    PROVE  local[o.member] = ProjectionOf(o)
<1>1. /\ ops \subseteq OperationSet /\ \A p, q \in ops : IdOf(p) = IdOf(q) => p = q
  BY DEF MembersInvariant, TablesTyped, OperationsNamed
<1>2. local[o.member] # NoRow /\ o.version <= local[o.member].version
  BY DEF MembersInvariant, LocalIsLast
<1>3. o.member \in People
  BY <1>1 DEF OperationSet
<1>4. PICK q \in ops : q.member = o.member /\ local[o.member] = ProjectionOf(q)
  BY <1>2, <1>3 DEF MembersInvariant, LocalIsTaken
<1>5. q.version = local[o.member].version
  BY <1>4 DEF ProjectionOf
<1>6. q.version = o.version
  BY <1>1, <1>2, <1>4, <1>5 DEF OperationSet
<1>7. q = o
  BY <1>1, <1>4, <1>6 DEF IdOf
<1> QED BY <1>4, <1>7

LEMMA AcknowledgeInTurn ==
    ASSUME MembersInvariant, BudgetKnown, InTurn, NEW c \in Calls, Acknowledge(c)
    PROVE  InTurn'
<1>0. PICK call : call = calls[c]
  OBVIOUS
<1>1. PICK row : row = Acknowledged(c)
  OBVIOUS
<1>2. PICK o : o = Operation(call)
  OBVIOUS
<1>3. PICK r : r = IF call.kind = "transfer" /\ call.by # call.member
                   THEN [NoCall EXCEPT !.pc = "asked", !.kind = "change", !.by = call.by,
                                  !.member = call.by, !.role = "admin", !.status = "active"]
                   ELSE NoCall
  OBVIOUS
<1>4. /\ call.pc = "projected" /\ rows' = [rows EXCEPT ![call.member] = row]
      /\ calls' = [calls EXCEPT ![c] = r]
      /\ UNCHANGED <<version, ops, invites, local, taken, lost, budget>>
  BY <1>0, <1>1, <1>3 DEF Acknowledge, At, Finish
<1>5. /\ o \in ops /\ IdOf(o) \in taken /\ o.member = call.member /\ call.member \in People
      /\ o.version = call.version
  BY <1>0, <1>2, <1>4, OperationOfCall DEF MembersInvariant, CallsKnown, Rooted, IdOf
<1>6. call \in CallSet /\ CallTyped(call) /\ rows \in Table /\ ops \subseteq OperationSet
      /\ \A p, q \in ops : IdOf(p) = IdOf(q) => p = q
  BY <1>0 DEF MembersInvariant, CallsTyped, TablesTyped, OperationsNamed
<1>7. CallInTurn(call) /\ SeatKept(call) /\ SeatsTaken <= Seats
  BY <1>0 DEF InTurn
<1>8. call.version = version /\ (Newest(o) => HalfWritten(call))
  BY <1>2, <1>4, <1>7 DEF CallInTurn
<1>9. InFlight \subseteq {c} /\ calls[c].pc = "projected"
  BY <1>0, <1>4 DEF InTurn, OneCall, InFlight
<1>10. \A p \in People : rows'[p] = IF p = call.member THEN row ELSE rows[p]
  BY <1>4, <1>5, <1>6 DEF Table
<1>11. row = IF call.kind \in {"found", "join"} THEN [rows[call.member] EXCEPT !.status = "active"]
             ELSE IF call.reduces THEN rows[call.member]
             ELSE ProjectionOf(o)
  BY <1>0, <1>1, <1>2 DEF Acknowledged, Projection, ProjectionOf, Operation
<1>12. o.status = call.status /\ o.role = call.role
  BY <1>2 DEF Operation
<1>13. rows[call.member] \in MemberRow
  <2>1. rows[call.member] # NoRow
    BY <1>5 DEF MembersInvariant, OperationsNamed
  <2> QED BY <1>5, <2>1, RowThere
<1>14. \A q \in ops : q.member = o.member => q.version <= o.version
  BY <1>5, <1>8 DEF InTurn, VersionsBelow
<1>15. local[o.member] = ProjectionOf(o)
  BY <1>5, <1>14, TakenIsNewest
<1>16. Newest(o) => Settled(o)'
  <2> SUFFICES ASSUME Newest(o) PROVE row = ProjectionOf(o)
    BY <1>4, <1>5, <1>10, <1>15 DEF Settled
  <2>1. HalfWritten(call)
    BY <1>8
  <2>2. CASE call.kind \in {"found", "join"}
    <3>1. Joining(o)
      BY <1>2, <2>1, <2>2 DEF HalfWritten
    <3>2. row = [rows[call.member] EXCEPT !.status = "active"]
      BY <1>11, <2>2
    <3>3. /\ row.role = rows[call.member].role /\ row.status = "active"
          /\ row.epoch = rows[call.member].epoch /\ row.version = rows[call.member].version
          /\ row \in MemberRow
      BY <1>13, <3>2 DEF MemberRow, Statuses
    <3>4. /\ rows[call.member].role = o.role /\ rows[call.member].epoch = o.epoch
          /\ rows[call.member].version = o.version /\ o.status = "active"
      BY <1>5, <3>1 DEF Joining, ProjectionOf
    <3>5. ProjectionOf(o) \in MemberRow
      BY <1>5, <1>6 DEF OperationSet, ProjectionOf, MemberRow
    <3>6. /\ ProjectionOf(o).role = o.role /\ ProjectionOf(o).status = o.status
          /\ ProjectionOf(o).epoch = o.epoch /\ ProjectionOf(o).version = o.version
      BY DEF ProjectionOf
    <3> QED BY <3>3, <3>4, <3>5, <3>6 DEF MemberRow
  <2>3. CASE call.kind \notin {"found", "join"} /\ call.reduces
    BY <1>2, <1>5, <1>11, <2>1, <2>3 DEF HalfWritten, Reduced
  <2>4. CASE call.kind \notin {"found", "join"} /\ ~call.reduces
    BY <1>11, <2>4
  <2> QED BY <2>2, <2>3, <2>4
<1>17. r.pc = "idle" \/ (r.pc = "asked" /\ r.kind = "change")
  <2>1. CASE call.kind = "transfer" /\ call.by # call.member
    BY <1>3, <2>1 DEF NoCall
  <2>2. CASE ~(call.kind = "transfer" /\ call.by # call.member)
    <3>1. r = NoCall
      BY <1>3, <2>2
    <3> QED BY <3>1 DEF NoCall
  <2> QED BY <2>1, <2>2
<1>18. CallInTurn(r)'
  BY <1>17 DEF CallInTurn
<1>19. r.pc = "asked" => rows'[r.member].status = "active"
  <2> SUFFICES ASSUME r.pc = "asked" PROVE rows'[r.member].status = "active"
    OBVIOUS
  <2>1. call.kind = "transfer" /\ call.by # call.member
    BY <1>3 DEF NoCall
  <2>2. r.member = call.by
    BY <1>3, <2>1 DEF NoCall
  <2>3. rows[call.by].status = "active" /\ call.by \in People
    BY <1>4, <1>6, <1>7, <2>1 DEF CallInTurn, CallTyped
  <2> QED BY <1>10, <2>1, <2>2, <2>3
<1>20. SeatKept(r)'
  BY <1>17, <1>19 DEF SeatKept
<1>21. Seats' = Seats /\ Seats \in Nat /\ UNCHANGED ReadyInvites
  BY <1>4 DEF Seats, BudgetKnown, ReadyInvites
<1>22. SeatsTaken' <= Seats'
  <2>1. CASE row.status = "active" => rows[call.member].status = "active"
    <3>1. Counted' \subseteq Counted
      BY <1>10, <2>1 DEF Counted
    <3> QED BY <1>7, <1>21, <3>1, SeatsFewer
  <2>2. CASE row.status = "active" /\ rows[call.member].status # "active"
    <3>1. call.status = "active"
      BY <1>4, <1>6, <1>11, <1>12, <2>2 DEF CallTyped, ProjectionOf
    <3>2. SeatsTaken < Seats
      BY <1>4, <1>7, <2>2, <3>1 DEF SeatKept
    <3>3. Counted' \subseteq Counted \cup {call.member}
      BY <1>10 DEF Counted
    <3>4. SeatsTaken' <= SeatsTaken + 1 /\ SeatsTaken' \in Nat /\ SeatsTaken \in Nat
      BY <1>21, <3>3, OneSeatMore
    <3> QED BY <1>21, <3>2, <3>4
  <2> QED BY <2>1, <2>2
<1>23. /\ OneCall' /\ \A d \in Calls : (CallInTurn(calls[d]) /\ SeatKept(calls[d]))'
       /\ \A x : Carried(x) <=> Carries(calls[c], x)
  BY <1>4, <1>9, <1>18, <1>20, ItGoesOn
<1>24. \A x \in ops : x # o /\ Finished(x)' => Finished(x)
  BY <1>0, <1>2, <1>4, <1>23 DEF Finished, Carries
<1>25. \A x \in ops' : Finished(x)' => IdOf(x) \in taken'
  BY <1>4, <1>5, <1>24 DEF InTurn
<1>26. \A x \in ops : Newest(x)' <=> Newest(x)
  BY <1>4 DEF Newest
<1>27. VersionsBelow'
  BY <1>4 DEF InTurn, VersionsBelow
<1>28. ASSUME NEW x \in ops, Newest(x)
       PROVE  Between(x)' /\ (Finished(x)' => Settled(x)')
  <2>1. CASE x = o
    <3>1. Settled(o)'
      BY <1>16, <1>28, <2>1
    <3>2. Between(o)'
      BY <3>1 DEF Settled, Between, Reduced
    <3> QED BY <2>1, <3>1, <3>2
  <2>2. CASE x # o
    <3>1. x.member # o.member
      <4>1. ASSUME x.member = o.member PROVE FALSE
        <5>1. o.version <= x.version /\ x.version <= o.version
          BY <1>5, <1>14, <1>28, <4>1 DEF Newest
        <5>2. x.version = o.version
          BY <1>5, <1>6, <5>1 DEF OperationSet
        <5> QED BY <1>5, <1>6, <2>2, <4>1, <5>2 DEF IdOf
      <4> QED BY <4>1
    <3>2. rows'[x.member] = rows[x.member] /\ local'[x.member] = local[x.member]
      BY <1>4, <1>5, <1>6, <1>10, <3>1 DEF OperationSet
    <3>3. Between(x) => Between(x)'
      BY <3>2 DEF Between, Reduced, Joining, Rising
    <3>4. Settled(x) => Settled(x)'
      BY <3>2 DEF Settled
    <3> QED BY <1>24, <1>28, <2>2, <3>3, <3>4 DEF InTurn
  <2> QED BY <2>1, <2>2
<1>29. \A x \in ops' : Newest(x)' => Between(x)' /\ (Finished(x)' => Settled(x)')
  BY <1>4, <1>26, <1>28
<1> QED BY <1>22, <1>23, <1>25, <1>27, <1>29 DEF InTurn

-----------------------------------------------------------------------------
(* All steps. *)

LEMMA RecordedRows ==
    ASSUME RowsRecorded, ops \subseteq ops', NEW o \in ops',
           \A p \in People : p # o.member => rows'[p] = rows[p]
    PROVE  RowsRecorded'
BY DEF RowsRecorded

LEMMA RowsRecordedStep ==
    ASSUME MembersInvariant, RowsRecorded, MembershipNext
    PROVE  RowsRecorded'
<1>0. rows \in Table
  BY DEF MembersInvariant, TablesTyped
<1>1. CASE UNCHANGED rows /\ ops \subseteq ops'
  BY <1>1 DEF RowsRecorded
<1>2. ASSUME NEW c \in Calls, Admit(c) \/ Record(c) PROVE RowsRecorded'
  <2>1. calls[c].pc \in {"joining", "read"}
    BY <1>2 DEF Admit, Record, At
  <2>2. ops' = ops \cup {Operation(calls[c])} /\ Operation(calls[c]).member = calls[c].member
    BY <1>2, <2>1, OperationOfCall DEF Admit, Record
  <2>3. \A p \in People : p # calls[c].member => rows'[p] = rows[p]
    BY <1>0, <1>2 DEF Admit, Record, Table
  <2> QED BY <2>2, <2>3, RecordedRows
<1>3. ASSUME NEW c \in Calls, CreateWorkspace(c) PROVE RowsRecorded'
  <2>1. PICK r : r = [NoCall EXCEPT !.pc = "recorded", !.kind = "found", !.member = Founder,
                         !.role = "owner", !.status = "active", !.epoch = 1, !.version = 1]
    OBVIOUS
  <2>2. r.member = Founder
    BY <2>1 DEF NoCall
  <2>3. /\ ops' = ops \cup {Operation(r)} /\ Operation(r).member = Founder
        /\ rows' = [rows EXCEPT ![Founder] = [Projection(r) EXCEPT !.status = "pending"]]
    BY <1>3, <2>1, <2>2 DEF CreateWorkspace, Operation
  <2>4. \A p \in People : p # Founder => rows'[p] = rows[p]
    BY <1>0, <2>3 DEF Table
  <2> QED BY <2>3, <2>4, RecordedRows
<1>4. ASSUME NEW c \in Calls, Acknowledge(c) PROVE RowsRecorded'
  <2>1. /\ calls[c].pc = "projected" /\ ops' = ops
        /\ rows' = [rows EXCEPT ![calls[c].member] = Acknowledged(c)]
    BY <1>4 DEF Acknowledge, At
  <2>2. Operation(calls[c]) \in ops' /\ Operation(calls[c]).member = calls[c].member
    BY <2>1, OperationOfCall DEF MembersInvariant, CallsKnown, Rooted
  <2>3. \A p \in People : p # calls[c].member => rows'[p] = rows[p]
    BY <1>0, <2>1 DEF Table
  <2> QED BY <2>1, <2>2, <2>3, RecordedRows
<1>5. CASE InvitationStep
  <2>1. (\E c \in Calls : Admit(c)) \/ UNCHANGED <<rows, ops>>
    BY Zenon, <1>5 DEF InvitationStep, BeginInvite, Invite, BeginAccept, NotAdmitted, RevokeInvitation,
                ConfirmInvitationPlan, tables
  <2> QED BY <1>1, <1>2, <2>1
<1>6. CASE ChangeStep
  <2>1. PICK c \in Calls :
           \/ CreateWorkspace(c) \/ Record(c) \/ ReadMember(c) \/ NotProjected(c) \/ NotRecorded(c)
           \/ \E by, p \in People : \E role, status : BeginAdminister(c, by, p, role, status)
           \/ \E by, p \in People : BeginTransfer(c, by, p)
    BY <1>6 DEF ChangeStep
  <2>2. CreateWorkspace(c) \/ Record(c) \/ UNCHANGED tables
    BY Zenon, <2>1 DEF BeginAdminister, BeginTransfer, ReadMember, NotProjected, NotRecorded
  <2> QED BY <1>1, <1>2, <1>3, <2>2 DEF tables
<1>7. CASE ProjectionStep
  <2>1. (\E c \in Calls : Acknowledge(c)) \/ UNCHANGED <<rows, ops>>
    BY <1>7 DEF ProjectionStep, Project, NotProjectable, Lose, NotAcknowledged, Redeliver, tables
  <2> QED BY <1>1, <1>4, <2>1
<1> QED BY <1>5, <1>6, <1>7 DEF MembershipNext

(* The bounds are used up one by one, and the history only grows. *)
LEMMA BudgetStep ==
    ASSUME MembershipNext
    PROVE  /\ \/ budget' = budget
              \/ budget' = [budget EXCEPT !.calls = @ - 1]
              \/ budget' = [budget EXCEPT !.losses = @ - 1]
              \/ budget' = [budget EXCEPT !.deliveries = @ - 1]
           /\ overlapped => overlapped'
<1>1. ASSUME NEW c \in Calls, NEW r, Begin(c, r)
      PROVE  budget' = [budget EXCEPT !.calls = @ - 1] /\ (overlapped => overlapped')
  BY <1>1 DEF Begin
<1>2. CASE InvitationStep
  <2>1. CASE \E c \in Calls, i \in Invitations : BeginAccept(c, i)
    BY <1>1, <2>1 DEF BeginAccept
  <2>2. CASE \E c \in Calls, by, p \in People, role \in Roles : BeginInvite(c, by, p, role)
    BY <1>1, <2>2 DEF BeginInvite
  <2>3. ASSUME NEW c \in Calls, NEW i \in Invitations, Invite(c, i)
        PROVE  budget' = budget /\ overlapped' = overlapped
    BY <2>3 DEF Invite, At
  <2>4. ASSUME NEW c \in Calls, Admit(c) \/ NotAdmitted(c)
        PROVE  budget' = budget /\ overlapped' = overlapped
    BY <2>4 DEF Admit, NotAdmitted, At
  <2>5. ASSUME NEW i \in Invitations, RevokeInvitation(i) \/ ConfirmInvitationPlan(i)
        PROVE  budget' = budget /\ (overlapped => overlapped')
    <3>1. CASE RevokeInvitation(i)
      BY <3>1 DEF RevokeInvitation
    <3>2. CASE ConfirmInvitationPlan(i)
      <4>1. budget' = budget
        BY <3>2 DEF ConfirmInvitationPlan
      <4>2. overlapped => overlapped'
        BY <3>2 DEF ConfirmInvitationPlan
      <4> QED BY <4>1, <4>2
    <3> QED BY <2>5, <3>1, <3>2
  <2> QED BY <1>2, <2>1, <2>2, <2>3, <2>4, <2>5 DEF InvitationStep
<1>3. CASE ChangeStep
  <2>1. PICK c \in Calls :
           \/ CreateWorkspace(c) \/ Record(c) \/ ReadMember(c) \/ NotProjected(c) \/ NotRecorded(c)
           \/ \E by, p \in People : \E role, status : BeginAdminister(c, by, p, role, status)
           \/ \E by, p \in People : BeginTransfer(c, by, p)
    BY <1>3 DEF ChangeStep
  <2>2. CASE \/ CreateWorkspace(c)
             \/ \E by, p \in People : \E role, status : BeginAdminister(c, by, p, role, status)
             \/ \E by, p \in People : BeginTransfer(c, by, p)
    BY Zenon, <1>1, <2>2 DEF CreateWorkspace, BeginAdminister, BeginTransfer
  <2>3. CASE Record(c) \/ ReadMember(c) \/ NotProjected(c) \/ NotRecorded(c)
    BY <2>3 DEF Record, ReadMember, NotProjected, NotRecorded, At
  <2> QED BY <2>1, <2>2, <2>3
<1>4. CASE ProjectionStep
  <2>1. CASE \E c \in Calls : Project(c) \/ Acknowledge(c)
    BY <2>1 DEF Project, Acknowledge, At
  <2>2. CASE \E c \in Calls : NotProjectable(c) \/ NotAcknowledged(c)
    BY <2>2 DEF NotProjectable, NotAcknowledged
  <2>3. CASE (\E c \in Calls : Lose(c)) \/ \E o \in ops : Redeliver(o)
    BY <2>3 DEF Lose, Redeliver
  <2> QED BY <1>4, <2>1, <2>2, <2>3 DEF ProjectionStep
<1> QED BY <1>2, <1>3, <1>4 DEF MembershipNext

LEMMA InTurnStep ==
    ASSUME MembersInvariant, OwnersKept, RowsRecorded, BudgetKnown, InTurn, ~overlapped',
           MembershipNext
    PROVE  InTurn'
<1>1. CASE InvitationStep
  BY <1>1, BeginInviteInTurn, InviteInTurn, BeginAcceptInTurn, AdmitInTurn, EndInTurn,
     RevokeInTurn, ConfirmInTurn DEF InvitationStep
<1>2. CASE ChangeStep
  BY <1>2, CreateWorkspaceInTurn, BeginAdministerInTurn, BeginTransferInTurn, ReadMemberInTurn,
     EndInTurn, RecordInTurn DEF ChangeStep
<1>3. CASE ProjectionStep
  BY <1>3, ProjectInTurn, EndInTurn, AcknowledgeInTurn, RedeliverInTurn DEF ProjectionStep
<1> QED BY <1>1, <1>2, <1>3 DEF MembershipNext

LEMMA SerialStep ==
    ASSUME MembersInvariant, OwnersKept, SerialInvariant, MembershipNext
    PROVE  SerialInvariant'
<1>1. RowsRecorded'
  BY RowsRecordedStep DEF SerialInvariant
<1>2. BudgetKnown'
  BY BudgetStep, BudgetStays DEF SerialInvariant
<1>3. ~overlapped' => InTurn'
  BY BudgetStep, InTurnStep DEF SerialInvariant
<1> QED BY <1>1, <1>2, <1>3 DEF SerialInvariant

LEMMA SerialStutter == SerialInvariant /\ MembersInvariant /\ UNCHANGED vars => SerialInvariant'
<1> SUFFICES ASSUME SerialInvariant, MembersInvariant, UNCHANGED vars PROVE SerialInvariant'
  OBVIOUS
<1>1. UNCHANGED <<version, rows, ops, invites, local, taken, calls, budget, overlapped, lost>>
  BY DEF vars
<1>2. RowsRecorded'
  BY <1>1 DEF SerialInvariant, RowsRecorded
<1>3. BudgetKnown' /\ Seats' = Seats
  BY <1>1 DEF SerialInvariant, BudgetKnown, Seats
<1>4. SeatsTaken' = SeatsTaken
  BY <1>1, SeatsSame DEF Counted, ReadyInvites
<1>5. InTurn => InTurn'
  <2> SUFFICES ASSUME InTurn PROVE InTurn'
    OBVIOUS
  <2>1. \A c \in Calls : SeatKept(calls[c])'
    BY <1>1, <1>3, <1>4 DEF InTurn, SeatKept
  <2> QED BY <1>1, <1>3, <1>4, <2>1, TurnStands DEF InTurn
<1> QED BY <1>1, <1>2, <1>3, <1>5 DEF SerialInvariant

LEMMA SerialStart == MembershipInit => SerialInvariant
<1> SUFFICES ASSUME MembershipInit PROVE SerialInvariant
  OBVIOUS
<1>1. MembersInvariant
  BY MembersStart
<1> DEFINE ms == budget.members
           n == Len(ms)
<1>2. /\ budget \in Scenarios /\ version = n /\ rows = Joined(ms) /\ local = rows
      /\ ops = {[member |-> ms[k][1], role |-> ms[k][2], status |-> "active",
                 epoch |-> 1, version |-> k] : k \in DOMAIN ms}
      /\ taken = {IdOf(o) : o \in ops} /\ lost = {}
      /\ invites = [i \in Invitations |-> NoInvite] /\ calls = [c \in Calls |-> NoCall]
  BY DEF MembershipInit
<1>3. /\ ms \in Seq(People \X Roles) /\ n <= budget.seats /\ budget.seats \in Nat \ {0}
      /\ "seats" \in DOMAIN budget
  BY <1>2, MembershipAssumption DEF Roles
<1>4. n \in Nat /\ DOMAIN ms = 1 .. n
  BY <1>3
<1>5. BudgetKnown
  BY <1>3 DEF BudgetKnown, Seats
<1>6. RowsRecorded
  BY <1>1, <1>2 DEF RowsRecorded, MembersInvariant, LocalIsTaken
<1>7. \A c \in Calls : calls[c].pc = "idle"
  BY <1>2 DEF NoCall
<1>8. OneCall /\ \A c \in Calls : CallInTurn(calls[c]) /\ SeatKept(calls[c])
  BY <1>7 DEF OneCall, InFlight, CallInTurn, SeatKept
<1>9. VersionsBelow
  BY <1>2, <1>4 DEF VersionsBelow
<1>10. \A o \in ops : Newest(o) => Settled(o)
  <2> SUFFICES ASSUME NEW o \in ops, Newest(o) PROVE Settled(o)
    OBVIOUS
  <2>1. local[o.member] = ProjectionOf(o)
    BY <1>1, <1>2, TakenIsNewest DEF Newest
  <2> QED BY <1>2, <2>1 DEF Settled
<1>11. \A o \in ops : Newest(o) => Between(o)
  BY <1>10 DEF Settled, Between, Reduced
<1>12. SeatsTaken <= Seats
  <2> DEFINE named == {ms[k][1] : k \in 1 .. n}
             name == [k \in 1 .. n |-> ms[k][1]]
  <2>1. name \in Surjection(1 .. n, named)
    BY DEF Surjection
  <2>2. IsFiniteSet(1 .. n) /\ Cardinality(1 .. n) <= n
    <3>1. \A k \in Nat : IsFiniteSet(1 .. k) /\ Cardinality(1 .. k) = IF 1 > k THEN 0 ELSE k - 1 + 1
      BY FS_Interval
    <3> HIDE DEF n
    <3> QED BY <1>4, <3>1
  <2>3. IsFiniteSet(named) /\ Cardinality(named) <= n
    <3>1. IsFiniteSet(named) /\ Cardinality(named) <= Cardinality(1 .. n)
      BY <2>1, <2>2, FS_Surjection
    <3> QED BY <1>4, <2>2, <3>1, FS_CardinalityType
  <2>4. Counted \subseteq named
    BY <1>2, <1>4 DEF Counted, Joined, NoRow
  <2>5. Cardinality(Counted) <= Cardinality(named)
    BY <2>3, <2>4, FS_Subset
  <2>6. ReadyInvites = {}
    BY <1>2 DEF ReadyInvites, NoInvite
  <2>7. Cardinality(ReadyInvites) = 0
    BY <2>6, FS_EmptySet
  <2>8. Cardinality(named) \in Nat /\ Cardinality(Counted) \in Nat
    BY <2>3, FS_CardinalityType, SeatSets
  <2> QED BY <1>3, <1>4, <2>3, <2>5, <2>7, <2>8 DEF SeatsTaken, Seats
<1>13. \A o \in ops : Finished(o) => IdOf(o) \in taken
  BY <1>2
<1>14. InTurn
  BY <1>8, <1>9, <1>10, <1>11, <1>12, <1>13 DEF InTurn
<1> QED BY <1>5, <1>6, <1>14 DEF SerialInvariant

LEMMA PlanesHold ==
    ASSUME MembersInvariant, OwnersKept, SerialInvariant
    PROVE  PlanesAgree
<1>1. ASSUME NEW table \in {rows, local}, \E p \in People : table[p].status = "active"
      PROVE  \E p \in People : OwnerIn(table, p)
  <2>1. CASE table = rows
    BY <1>1, <2>1 DEF OwnersKept, Lively, HasOwner
  <2>2. CASE table = local
    <3>1. PICK p \in People : local[p] # NoRow
      BY <1>1, <2>2 DEF NoRow
    <3>2. taken # {}
      BY <3>1 DEF MembersInvariant, LocalIsTaken
    <3> QED BY <2>2, <3>2 DEF OwnersKept, HasOwner
  <2> QED BY <2>1, <2>2
<1>2. RowsRecorded
  BY DEF SerialInvariant
<1>3. ASSUME ~overlapped
      PROVE  /\ \A o \in ops : Newest(o) /\ Access(o.member) =>
                   o.status = "active" /\ Rank(local[o.member].role) >= Rank(o.role)
             /\ \A p \in People \ {id[1] : id \in lost} :
                   /\ Access(p) => rows[p].role = local[p].role
                   /\ InFlight = {} => rows[p] = local[p]
             /\ SeatsTaken <= Seats
             /\ lost = {} /\ InFlight = {} /\ ops # {} => \E p \in People : Access(p) /\ OwnerIn(rows, p)
  <2>1. InTurn
    BY <1>3 DEF SerialInvariant
  <2>2. ASSUME NEW o \in ops, Newest(o), Access(o.member)
        PROVE  o.status = "active" /\ Rank(local[o.member].role) >= Rank(o.role)
    <3>1. Between(o)
      BY <2>1, <2>2 DEF InTurn
    <3>2. /\ rows[o.member].status = "active" /\ rows[o.member].epoch = local[o.member].epoch
      BY <2>2 DEF Access
    <3>3. /\ ProjectionOf(o).role = o.role /\ ProjectionOf(o).status = o.status
          /\ ProjectionOf(o).epoch = o.epoch /\ o.epoch \in Nat
      BY DEF ProjectionOf, MembersInvariant, TablesTyped, OperationSet
    <3>4. Rank(o.role) \in Nat /\ Rank(rows[o.member].role) \in Nat
      BY DEF Rank
    <3>5. ~Joining(o)
      BY <3>2 DEF Joining, ProjectionOf
    <3>6. CASE Reduced(o)
      <4>1. rows[o.member] = ProjectionOf(o) /\ local[o.member] = ProjectionOf(o)
        BY <3>2, <3>3, <3>6 DEF Reduced
      <4> QED BY <3>2, <3>3, <3>4, <4>1
    <3>7. CASE Rising(o)
      <4>1. o.status = "active" /\ Rank(o.role) <= Rank(rows[o.member].role)
            /\ local[o.member] \in {rows[o.member], ProjectionOf(o)}
        BY <3>7 DEF Rising
      <4> QED BY <3>3, <3>4, <4>1
    <3> QED BY <3>1, <3>5, <3>6, <3>7 DEF Between
  <2>3. ASSUME NEW p \in People \ {id[1] : id \in lost}
        PROVE  /\ Access(p) => rows[p].role = local[p].role
               /\ InFlight = {} => rows[p] = local[p]
    <3>1. \A o \in ops : o.member = p => IdOf(o) \notin lost
      BY DEF IdOf
    <3>2. CASE \A o \in ops : o.member = p => ~Carried(o)
      BY <1>2, <2>1, <3>1, <3>2, RestOfPerson DEF Finished
    <3>3. ASSUME NEW o \in ops, o.member = p, Carried(o)
          PROVE  /\ Access(p) => rows[p].role = local[p].role
                 /\ InFlight # {}
      <4>1. PICK c \in Calls : calls[c].pc \in {"recorded", "projected"} /\ Operation(calls[c]) = o
        BY <3>3 DEF Carried, Carries
      <4>2. InFlight # {}
        BY <4>1 DEF InFlight
      <4>3. o.version = version
        BY <2>1, <4>1 DEF InTurn, CallInTurn, Operation
      <4>4. Newest(o)
        BY <2>1, <3>1, <3>3, <4>3 DEF Newest, InTurn, VersionsBelow
      <4>5. Between(o)
        BY <2>1, <4>4 DEF InTurn
      <4>6. ASSUME Access(p) PROVE rows[p].role = local[p].role
        <5>1. rows[p].status = "active" /\ rows[p].epoch = local[p].epoch
          BY <4>6 DEF Access
        <5>2. ProjectionOf(o).epoch = o.epoch /\ o.epoch \in Nat /\ rows[p].epoch \in Nat
          BY RowThere DEF ProjectionOf, MembersInvariant, TablesTyped, OperationSet
        <5>3. ~Joining(o)
          BY <3>3, <5>1 DEF Joining, ProjectionOf
        <5>4. CASE Reduced(o)
          BY <3>3, <5>1, <5>2, <5>4 DEF Reduced
        <5>5. CASE Rising(o)
          BY <3>3, <5>1, <5>2, <5>5 DEF Rising
        <5> QED BY <4>5, <5>3, <5>4, <5>5 DEF Between
      <4> QED BY <4>2, <4>6
    <3> QED BY <3>2, <3>3
  <2>4. ASSUME lost = {}, InFlight = {}, ops # {}
        PROVE  \E p \in People : Access(p) /\ OwnerIn(rows, p)
    <3>1. PICK p \in People : OwnerIn(rows, p)
      BY <2>4 DEF OwnersKept, Founding, HasOwner
    <3>2. rows[p] = local[p]
      BY <2>3, <2>4
    <3> QED BY <3>1, <3>2 DEF Access, OwnerIn
  <2> QED BY <2>1, <2>2, <2>3, <2>4 DEF InTurn
<1> QED BY <1>1, <1>3 DEF PlanesAgree

-----------------------------------------------------------------------------
(* The account. *)

SessionRow == [state : {"none", "open", "revoked"}, epoch : Nat, early : BOOLEAN]
DeviceRow == [state : {"none", "active", "revoked"}, epoch : Nat, key : Nat, early : BOOLEAN]
ChallengeRow == [state : {"none", "live", "lapsed", "consumed"},
                 kind : {None, "email", "registration", "passkey"}, digest : Digests \cup {None}]
PackageSet == [device : Devices, epoch : Nat, key : Nat, consumed : BOOLEAN, ahead : BOOLEAN]
AccountCallSet ==
    [pc : {"idle", "session", "device", "verified", "member", "admitted", "consumed", "asserting",
           "rotating", "cleaning", "approved", "targeted", "validated", "storing", "claimed",
           "looking", "consuming", "acting", "expecting", "removing"},
     epoch : Nat, early : BOOLEAN, device : Devices \cup {None}, nonce : Nonces \cup {None},
     challenge : Challenges \cup {None}, digest : Digests \cup {None}, count : Nat, ahead : BOOLEAN]

SpentSet == [challenges : [Challenges -> Nat], nonces : [Devices \X Nonces -> Nat],
             epochs : [0 .. MaxEpoch -> Nat]]

AccountTables ==
    /\ account \in [epoch : 1 .. MaxEpoch, count : 0 .. 1]
    /\ sessions \in [Sessions -> SessionRow] /\ devices \in [Devices -> DeviceRow]
    /\ challenges \in [Challenges -> ChallengeRow]
    /\ recovery \in 0 .. MaxEpoch /\ packages \subseteq PackageSet
    /\ accountCalls \in [AccountCalls -> AccountCallSet]
    /\ nonces \subseteq Devices \X Nonces
    /\ spent \in SpentSet
    /\ approved \in [Challenges -> SUBSET Digests]
    /\ removed \in [Devices -> Nat]

(* A package on its way into the table: an epoch that was there when the    *)
(* call began is below the epoch of any removal after the device was read   *)
(* as active.                                                               *)
StoreKnown(call) ==
    call.pc \in {"approved", "targeted", "validated", "storing"} =>
        /\ call.device \in Devices /\ call.epoch \in 1 .. MaxEpoch
        /\ (~call.ahead \/ call.pc \in {"validated", "storing"}) => call.epoch <= recovery
        /\ (call.pc # "approved" /\ ~call.ahead /\ removed[call.device] > 0) =>
              call.epoch < removed[call.device]

(* What an account call has read: the epoch of an account only grows, a     *)
(* challenge that was consumed stays so, and a device that has been removed *)
(* is never active again.                                                   *)
AccountCallKnown(call) ==
    /\ call.pc \in {"session", "device"} =>
          call.epoch <= account.epoch /\ (call.early => call.epoch < account.epoch)
    /\ call.pc \in {"consumed", "asserting"} =>
          /\ call.challenge \in Challenges /\ challenges[call.challenge].state = "consumed"
          /\ call.digest \in {None, challenges[call.challenge].digest} /\ call.count \in 0 .. 1
    /\ StoreKnown(call)
    /\ call.pc \in {"claimed", "looking", "consuming", "acting", "expecting", "removing"} =>
          call.device \in Devices
    /\ call.pc \in {"verified", "member", "admitted"} =>
          call.device \in Devices /\ call.nonce \in Nonces

(* Whatever was there when the epoch moved is closed or of an older one.    *)
SignedOut ==
    /\ \A s \in Sessions : sessions[s].state = "open" /\ sessions[s].early =>
          sessions[s].epoch < account.epoch
    /\ \A d \in Devices : devices[d].state = "active" =>
          devices[d].epoch <= account.epoch /\ (devices[d].early => devices[d].epoch < account.epoch)

GesturesOnce ==
    \A c \in Challenges :
        /\ spent.challenges[c] <= 1
        /\ challenges[c].state # "consumed" => spent.challenges[c] = 0 /\ approved[c] = {}
        /\ approved[c] \subseteq {challenges[c].digest} \ {None}

RequestsOnce ==
    \A n \in Devices \X Nonces : spent.nonces[n] <= 1 /\ (n \notin nonces => spent.nonces[n] = 0)

EpochsOnce ==
    \A e \in 0 .. MaxEpoch : spent.epochs[e] <= 1 /\ (e >= recovery => spent.epochs[e] = 0)

RemovedBehind ==
    /\ \A d \in Devices : removed[d] > 0 => devices[d].state = "revoked"
    /\ \A p \in packages : /\ p.epoch \in 1 .. recovery
                           /\ (removed[p.device] > 0 /\ ~p.ahead) => p.epoch < removed[p.device]

AccountCallsKnown == \A k \in AccountCalls : AccountCallKnown(accountCalls[k])

AccountInvariant ==
    /\ AccountTables /\ AccountCallsKnown /\ SignedOut
    /\ GesturesOnce /\ RequestsOnce /\ EpochsOnce /\ RemovedBehind

LEMMA CountUp ==
    ASSUME NEW D, NEW f \in [D -> Nat], NEW n \in D
    PROVE  /\ [f EXCEPT ![n] = f[n] + 1] \in [D -> Nat]
           /\ \A x \in D : [f EXCEPT ![n] = f[n] + 1][x] = IF x = n THEN f[x] + 1 ELSE f[x]
OBVIOUS

(* One more acceptance is counted.                                          *)
LEMMA GestureCounted ==
    ASSUME NEW s \in SpentSet, NEW n \in Challenges
    PROVE  LET more == [s EXCEPT !.challenges[n] = @ + 1]
           IN  /\ more \in SpentSet /\ more.nonces = s.nonces /\ more.epochs = s.epochs
               /\ \A x \in Challenges :
                     more.challenges[x] = IF x = n THEN s.challenges[x] + 1 ELSE s.challenges[x]
<1> DEFINE more == [s EXCEPT !.challenges[n] = @ + 1]
<1>1. s.challenges \in [Challenges -> Nat]
  BY DEF SpentSet
<1>2. PICK f : f = [s.challenges EXCEPT ![n] = s.challenges[n] + 1]
  OBVIOUS
<1>3. f \in [Challenges -> Nat]
      /\ \A x \in Challenges : f[x] = IF x = n THEN s.challenges[x] + 1 ELSE s.challenges[x]
  BY <1>1, <1>2, CountUp
<1>4. [s EXCEPT !.challenges[n] = @ + 1] = [s EXCEPT !.challenges = f]
  BY <1>2
<1>5. PICK m : m = [s EXCEPT !.challenges = f]
  OBVIOUS
<1>6. m \in SpentSet
  BY <1>3, <1>5 DEF SpentSet
<1>7. m.challenges = f /\ m.nonces = s.nonces /\ m.epochs = s.epochs
  BY <1>5 DEF SpentSet
<1>8. more = m
  BY <1>4, <1>5
<1> HIDE DEF more
<1>9. /\ more \in SpentSet /\ more.nonces = s.nonces /\ more.epochs = s.epochs
      /\ \A x \in Challenges :
            more.challenges[x] = IF x = n THEN s.challenges[x] + 1 ELSE s.challenges[x]
  BY <1>3, <1>6, <1>7, <1>8
<1> QED BY <1>9 DEF more

LEMMA RequestCounted ==
    ASSUME NEW s \in SpentSet, NEW n \in (Devices \X Nonces)
    PROVE  LET more == [s EXCEPT !.nonces[n] = @ + 1]
           IN  /\ more \in SpentSet /\ more.challenges = s.challenges /\ more.epochs = s.epochs
               /\ \A x \in (Devices \X Nonces) :
                     more.nonces[x] = IF x = n THEN s.nonces[x] + 1 ELSE s.nonces[x]
<1> DEFINE more == [s EXCEPT !.nonces[n] = @ + 1]
<1>1. s.nonces \in [(Devices \X Nonces) -> Nat]
  BY DEF SpentSet
<1>2. PICK f : f = [s.nonces EXCEPT ![n] = s.nonces[n] + 1]
  OBVIOUS
<1>3. f \in [(Devices \X Nonces) -> Nat]
      /\ \A x \in (Devices \X Nonces) : f[x] = IF x = n THEN s.nonces[x] + 1 ELSE s.nonces[x]
  BY <1>1, <1>2, CountUp
<1>4. [s EXCEPT !.nonces[n] = @ + 1] = [s EXCEPT !.nonces = f]
  BY <1>2
<1>5. PICK m : m = [s EXCEPT !.nonces = f]
  OBVIOUS
<1>6. m \in SpentSet
  BY <1>3, <1>5 DEF SpentSet
<1>7. m.nonces = f /\ m.challenges = s.challenges /\ m.epochs = s.epochs
  BY <1>5 DEF SpentSet
<1>8. more = m
  BY <1>4, <1>5
<1> HIDE DEF more
<1>9. /\ more \in SpentSet /\ more.challenges = s.challenges /\ more.epochs = s.epochs
      /\ \A x \in (Devices \X Nonces) :
            more.nonces[x] = IF x = n THEN s.nonces[x] + 1 ELSE s.nonces[x]
  BY <1>3, <1>6, <1>7, <1>8
<1> QED BY <1>9 DEF more

LEMMA EpochCounted ==
    ASSUME NEW s \in SpentSet, NEW n \in (0 .. MaxEpoch)
    PROVE  LET more == [s EXCEPT !.epochs[n] = @ + 1]
           IN  /\ more \in SpentSet /\ more.challenges = s.challenges /\ more.nonces = s.nonces
               /\ \A x \in (0 .. MaxEpoch) :
                     more.epochs[x] = IF x = n THEN s.epochs[x] + 1 ELSE s.epochs[x]
<1> DEFINE more == [s EXCEPT !.epochs[n] = @ + 1]
<1>1. s.epochs \in [(0 .. MaxEpoch) -> Nat]
  BY DEF SpentSet
<1>2. PICK f : f = [s.epochs EXCEPT ![n] = s.epochs[n] + 1]
  OBVIOUS
<1>3. f \in [(0 .. MaxEpoch) -> Nat]
      /\ \A x \in (0 .. MaxEpoch) : f[x] = IF x = n THEN s.epochs[x] + 1 ELSE s.epochs[x]
  BY <1>1, <1>2, CountUp
<1>4. [s EXCEPT !.epochs[n] = @ + 1] = [s EXCEPT !.epochs = f]
  BY <1>2
<1>5. PICK m : m = [s EXCEPT !.epochs = f]
  OBVIOUS
<1>6. m \in SpentSet
  BY <1>3, <1>5 DEF SpentSet
<1>7. m.epochs = f /\ m.challenges = s.challenges /\ m.nonces = s.nonces
  BY <1>5 DEF SpentSet
<1>8. more = m
  BY <1>4, <1>5
<1> HIDE DEF more
<1>9. /\ more \in SpentSet /\ more.challenges = s.challenges /\ more.nonces = s.nonces
      /\ \A x \in (0 .. MaxEpoch) :
            more.epochs[x] = IF x = n THEN s.epochs[x] + 1 ELSE s.epochs[x]
  BY <1>3, <1>6, <1>7, <1>8
<1> QED BY <1>9 DEF more

LEMMA AccountIsHeld == AccountInvariant => AccountsHold
<1> SUFFICES ASSUME AccountInvariant PROVE AccountsHold
  OBVIOUS
<1>1. AccountsTypeOK
  BY DEF AccountInvariant, AccountTables, AccountsTypeOK, SessionRow, DeviceRow, PackageSet,
         RemovedBehind
<1>2. \A s \in Sessions : sessions[s].early => ~Authentic(s)
  BY DEF AccountInvariant, AccountTables, SignedOut, Authentic, SessionRow
<1>3. \A d \in Devices : devices[d].early => ~Trusted(d)
  BY DEF AccountInvariant, AccountTables, SignedOut, Trusted, DeviceRow
<1>4. /\ DOMAIN spent.nonces = Devices \X Nonces
      /\ DOMAIN spent.epochs = 0 .. MaxEpoch
  BY DEF AccountInvariant, AccountTables, SpentSet
<1>5. \A c \in Challenges : /\ spent.challenges[c] <= 1
                            /\ approved[c] \subseteq {challenges[c].digest} \ {None}
  BY DEF AccountInvariant, GesturesOnce
<1>6. \A n \in DOMAIN spent.nonces : spent.nonces[n] <= 1
  BY <1>4 DEF AccountInvariant, RequestsOnce
<1>7. \A e \in DOMAIN spent.epochs : spent.epochs[e] <= 1
  BY <1>4 DEF AccountInvariant, EpochsOnce
<1>8. \A p \in packages : removed[p.device] > 0 /\ ~p.ahead => p.epoch < removed[p.device]
  BY DEF AccountInvariant, RemovedBehind
<1> QED BY <1>1, <1>2, <1>3, <1>5, <1>6, <1>7, <1>8 DEF AccountsHold

LEMMA AccountStart == AccountsInit => AccountInvariant
<1> SUFFICES ASSUME AccountsInit PROVE AccountInvariant
  OBVIOUS
<1>1. AccountTables
  <2>1. account \in [epoch : 1 .. MaxEpoch, count : 0 .. 1] /\ recovery \in 0 .. MaxEpoch
    BY AccountsAssumption DEF AccountsInit
  <2>2. /\ sessions \in [Sessions -> SessionRow] /\ devices \in [Devices -> DeviceRow]
        /\ challenges \in [Challenges -> ChallengeRow]
    BY DEF AccountsInit, NoSession, NoDevice, NewDevice, NoChallenge, SessionRow, DeviceRow, ChallengeRow
  <2>3. accountCalls \in [AccountCalls -> AccountCallSet]
    BY DEF AccountsInit, NoAccountCall, AccountCallSet
  <2>4. spent \in SpentSet
    BY DEF AccountsInit, SpentSet
  <2>5. packages \subseteq PackageSet /\ nonces \subseteq Devices \X Nonces
        /\ approved \in [Challenges -> SUBSET Digests] /\ removed \in [Devices -> Nat]
    BY DEF AccountsInit
  <2> QED BY <2>1, <2>2, <2>3, <2>4, <2>5 DEF AccountTables
<1>2. AccountCallsKnown
  BY DEF AccountsInit, AccountCallsKnown, AccountCallKnown, StoreKnown, NoAccountCall
<1>3. SignedOut
  BY DEF AccountsInit, SignedOut, NoSession, NoDevice, NewDevice
<1>4. GesturesOnce
  BY DEF AccountsInit, GesturesOnce
<1>5. RequestsOnce
  BY DEF AccountsInit, RequestsOnce
<1>6. EpochsOnce
  BY DEF AccountsInit, EpochsOnce
<1>7. RemovedBehind
  BY DEF AccountsInit, RemovedBehind
<1> QED BY <1>1, <1>2, <1>3, <1>4, <1>5, <1>6, <1>7 DEF AccountInvariant

LEMMA AccountStutter == AccountInvariant /\ UNCHANGED accountVars => AccountInvariant'
BY DEF AccountInvariant, AccountTables, AccountCallsKnown, AccountCallKnown, StoreKnown, SignedOut, GesturesOnce,
       RequestsOnce, EpochsOnce, RemovedBehind, accountVars

(* One call goes on.                                                        *)
LEMMA AccountCallGoesOn ==
    ASSUME AccountInvariant, NEW k \in AccountCalls, NEW r \in AccountCallSet, AccountCallKnown(r)',
           \A call \in AccountCallSet : AccountCallKnown(call) => AccountCallKnown(call)',
           Calling(k, r)
    PROVE  accountCalls' \in [AccountCalls -> AccountCallSet] /\ AccountCallsKnown'
<1>1. accountCalls \in [AccountCalls -> AccountCallSet] /\ (\A j \in AccountCalls : AccountCallKnown(accountCalls[j]))
  BY DEF AccountInvariant, AccountTables, AccountCallsKnown
<1>2. accountCalls' = [accountCalls EXCEPT ![k] = r]
  BY DEF Calling
<1>3. accountCalls' \in [AccountCalls -> AccountCallSet]
  BY <1>1, <1>2
<1>4. \A j \in AccountCalls : accountCalls'[j] = IF j = k THEN r ELSE accountCalls[j]
  BY <1>1, <1>2
<1>5. ASSUME NEW j \in AccountCalls PROVE AccountCallKnown(accountCalls[j])'
  <2>1. PICK s : s = accountCalls'[j]
    OBVIOUS
  <2>2. AccountCallKnown(s)'
    BY <1>1, <1>4, <2>1
  <2> QED BY <2>1, <2>2 DEF AccountCallKnown, StoreKnown
<1> QED BY <1>3, <1>5 DEF AccountCallsKnown

LEMMA ReturnedCall == NoAccountCall \in AccountCallSet /\ AccountCallKnown(NoAccountCall)'
BY DEF NoAccountCall, AccountCallSet, AccountCallKnown, StoreKnown

(* A step of a call that changes nothing else.                              *)
LEMMA OnlyAccountCalls ==
    ASSUME AccountInvariant, NEW k \in AccountCalls, NEW r \in AccountCallSet, AccountCallKnown(r),
           Calling(k, r),
           UNCHANGED <<account, sessions, devices, challenges, recovery, packages, nonces, histories>>
    PROVE  AccountInvariant'
<1>1. AccountCallKnown(r)' /\ (\A call \in AccountCallSet : AccountCallKnown(call) => AccountCallKnown(call)')
  BY DEF AccountCallKnown, StoreKnown, histories
<1>2. accountCalls' \in [AccountCalls -> AccountCallSet] /\ AccountCallsKnown'
  BY <1>1, AccountCallGoesOn
<1>3. AccountTables'
  BY <1>2 DEF AccountInvariant, AccountTables, histories
<1>4. SignedOut' /\ GesturesOnce' /\ RequestsOnce' /\ EpochsOnce' /\ RemovedBehind'
  BY DEF AccountInvariant, SignedOut, GesturesOnce, RequestsOnce, EpochsOnce, RemovedBehind, histories
<1> QED BY <1>2, <1>3, <1>4 DEF AccountInvariant

LEMMA AccountCallThere ==
    ASSUME AccountInvariant, NEW k \in AccountCalls
    PROVE  accountCalls[k] \in AccountCallSet /\ AccountCallKnown(accountCalls[k])
BY DEF AccountInvariant, AccountTables, AccountCallsKnown

(* The calls begin and end.                                                 *)
LEMMA AccountCallsBegin ==
    ASSUME AccountInvariant, NEW k \in AccountCalls,
           \/ \E what \in {"session", "device"} : BeginIssue(k, what)
           \/ \E d \in Devices, n \in Nonces : BeginRequest(k, d, n)
           \/ \E d \in Devices, epoch \in Expected : BeginRotate(k, d, epoch)
           \/ \E d \in Devices : BeginConsumePackage(k, d)
           \/ \E by, d \in Devices : BeginRemove(k, by, d)
           \/ \E by, d \in Devices, epoch \in 1 .. MaxEpoch : BeginStore(k, by, d, epoch)
    PROVE  AccountInvariant'
<1>0. /\ account.epoch \in Nat /\ recovery \in Nat /\ MaxEpoch \in Nat
      /\ NoAccountCall \in AccountCallSet
      /\ \A d \in Devices : devices[d] \in DeviceRow
  BY AccountsAssumption, ReturnedCall DEF AccountInvariant, AccountTables
<1>1. ASSUME NEW what \in {"session", "device"}, BeginIssue(k, what) PROVE AccountInvariant'
  <2> DEFINE r == [NoAccountCall EXCEPT !.pc = what, !.epoch = account.epoch]
  <2>1. r \in AccountCallSet
    BY <1>0 DEF AccountCallSet
  <2>3. AccountCallKnown(r)
    BY <1>0 DEF NoAccountCall, AccountCallKnown, StoreKnown
  <2>2. Calling(k, r)
    BY <1>1 DEF BeginIssue
  <2> HIDE DEF r
  <2> QED BY <1>1, <2>1, <2>2, <2>3, OnlyAccountCalls DEF BeginIssue
<1>2. ASSUME NEW d \in Devices, NEW n \in Nonces, BeginRequest(k, d, n) PROVE AccountInvariant'
  <2> DEFINE r == [NoAccountCall EXCEPT !.pc = "verified", !.device = d, !.nonce = n]
  <2>1. r \in AccountCallSet
    BY <1>0 DEF AccountCallSet
  <2>3. AccountCallKnown(r)
    BY <1>0 DEF NoAccountCall, AccountCallKnown, StoreKnown
  <2>2. Calling(k, r)
    BY Zenon, <1>2 DEF BeginRequest
  <2> HIDE DEF r
  <2> QED BY Zenon, <1>2, <2>1, <2>2, <2>3, OnlyAccountCalls DEF BeginRequest
<1>3. ASSUME NEW d \in Devices, NEW epoch \in Expected, BeginRotate(k, d, epoch) PROVE AccountInvariant'
  <2> DEFINE r == [NoAccountCall EXCEPT !.pc = "rotating", !.epoch = epoch]
  <2>0. epoch \in Nat
    BY <1>0 DEF Expected
  <2>1. r \in AccountCallSet
    BY <1>0, <2>0 DEF AccountCallSet
  <2>3. AccountCallKnown(r)
    BY <1>0 DEF NoAccountCall, AccountCallKnown, StoreKnown
  <2>2. Calling(k, r)
    BY Zenon, <1>3 DEF BeginRotate
  <2> HIDE DEF r
  <2> QED BY Zenon, <1>3, <2>1, <2>2, <2>3, OnlyAccountCalls DEF BeginRotate
<1>4. ASSUME NEW d \in Devices, BeginConsumePackage(k, d) PROVE AccountInvariant'
  <2> DEFINE r == [NoAccountCall EXCEPT !.pc = "claimed", !.device = d, !.count = devices[d].key]
  <2>0. devices[d].key \in Nat
    BY <1>0 DEF DeviceRow
  <2>1. r \in AccountCallSet
    BY <1>0, <2>0 DEF AccountCallSet
  <2>3. AccountCallKnown(r)
    BY <1>0 DEF NoAccountCall, AccountCallKnown, StoreKnown
  <2>2. Calling(k, r)
    BY Zenon, <1>4 DEF BeginConsumePackage
  <2> HIDE DEF r
  <2> QED BY Zenon, <1>4, <2>1, <2>2, <2>3, OnlyAccountCalls DEF BeginConsumePackage
<1>5. ASSUME NEW by \in Devices, NEW d \in Devices, NEW epoch \in 1 .. MaxEpoch, BeginStore(k, by, d, epoch)
      PROVE  AccountInvariant'
  <2>0. PICK ahead : ahead \in BOOLEAN /\ ahead = (epoch > recovery) /\ (~ahead => epoch <= recovery)
    <3>1. CASE epoch > recovery
      <4>1. TRUE = (epoch > recovery)
        BY <3>1
      <4> QED BY <4>1
    <3>2. CASE ~(epoch > recovery)
      <4>1. FALSE = (epoch > recovery) /\ epoch <= recovery
        BY <1>0, <3>2
      <4> QED BY <4>1
    <3> QED BY <3>1, <3>2
  <2> DEFINE r == [NoAccountCall EXCEPT !.pc = "approved", !.device = d, !.epoch = epoch, !.ahead = ahead]
  <2>1. epoch \in Nat /\ ahead \in BOOLEAN /\ (~ahead => epoch <= recovery)
    BY <1>0, <2>0
  <2>2. r \in AccountCallSet
    BY <1>0, <2>1 DEF AccountCallSet
  <2>3. /\ r.pc = "approved" /\ r.device = d /\ r.epoch = epoch /\ r.ahead = ahead
    BY DEF NoAccountCall
  <2>5. Calling(k, r)
    <3>1. Calling(k, [NoAccountCall EXCEPT !.pc = "approved", !.device = d, !.epoch = epoch,
                                           !.ahead = (epoch > recovery)])
      BY Zenon, <1>5 DEF BeginStore
    <3> QED BY <2>0, <3>1
  <2> HIDE DEF r
  <2>4. AccountCallKnown(r)
    BY <2>1, <2>3 DEF AccountCallKnown, StoreKnown
  <2> QED BY Zenon, <1>5, <2>2, <2>4, <2>5, OnlyAccountCalls DEF BeginStore
<1>6. ASSUME NEW by \in Devices, NEW d \in Devices, BeginRemove(k, by, d) PROVE AccountInvariant'
  <2> DEFINE r == [NoAccountCall EXCEPT !.pc = "acting", !.device = d]
  <2>1. r \in AccountCallSet
    BY <1>0 DEF AccountCallSet
  <2>3. AccountCallKnown(r)
    BY <1>0 DEF NoAccountCall, AccountCallKnown, StoreKnown
  <2>2. Calling(k, r)
    BY Zenon, <1>6 DEF BeginRemove
  <2> HIDE DEF r
  <2> QED BY Zenon, <1>6, <2>1, <2>2, <2>3, OnlyAccountCalls DEF BeginRemove
<1> QED BY <1>1, <1>2, <1>3, <1>4, <1>5, <1>6

(* A call goes on with what it has read, or ends.                           *)
LEMMA AccountCallReads ==
    ASSUME AccountInvariant, rows[Holder].epoch \in Nat, NEW k \in AccountCalls,
           \/ AskControl(k) \/ AskObject(k)
           \/ ReadRecovery(k) \/ ReadTarget(k) \/ FindNoPackage(k) \/ FindPackage(k) \/ ReadRemoved(k)
           \/ \E count \in 0 .. 1 : LoadPasskey(k, count)
           \/ RefuseRequest(k) \/ DropCall(k)
    PROVE  AccountInvariant'
<1> DEFINE call == accountCalls[k]
           others == <<account, sessions, devices, challenges, recovery, packages, nonces, histories>>
<1>0. call \in AccountCallSet /\ AccountCallKnown(call)
  BY AccountCallThere
<1> HIDE DEF call
<1>1. /\ recovery \in Nat /\ MaxEpoch \in Nat /\ call.epoch \in Nat /\ removed \in [Devices -> Nat]
      /\ \A d \in Devices : devices[d] \in DeviceRow
  BY <1>0, AccountsAssumption DEF AccountInvariant, AccountTables, AccountCallSet
<1>2. ASSUME NEW r, r \in AccountCallSet, AccountCallKnown(r), Calling(k, r), UNCHANGED others
      PROVE  AccountInvariant'
  BY <1>2, OnlyAccountCalls
<1>3. ASSUME Return(k), UNCHANGED others PROVE AccountInvariant'
  <2>1. NoAccountCall \in AccountCallSet /\ AccountCallKnown(NoAccountCall)
    BY DEF NoAccountCall, AccountCallSet, AccountCallKnown, StoreKnown
  <2> QED BY <1>2, <1>3, <2>1 DEF Return
<1>4. CASE AskControl(k)
  <2>1. CASE Return(k)
    BY <1>3, <1>4, <2>1 DEF AskControl
  <2>2. CASE ~Return(k)
    <3>1. PICK r : r = [call EXCEPT !.pc = "member", !.epoch = rows[Holder].epoch]
      OBVIOUS
    <3>2. r \in AccountCallSet /\ AccountCallKnown(r)
      BY <1>0, <1>4, <3>1 DEF AskControl, call, AccountCallSet, AccountCallKnown, StoreKnown
    <3>3. Calling(k, r) /\ UNCHANGED others
      BY <1>4, <2>2, <3>1 DEF AskControl, call
    <3> QED BY <1>2, <3>2, <3>3
  <2> QED BY <2>1, <2>2
<1>5. CASE AskObject(k)
  <2>1. CASE Return(k)
    BY <1>3, <1>5, <2>1 DEF AskObject
  <2>2. CASE ~Return(k)
    <3>1. PICK r : r = [call EXCEPT !.pc = "admitted"]
      OBVIOUS
    <3>2. r \in AccountCallSet /\ AccountCallKnown(r)
      BY <1>0, <1>5, <3>1 DEF AskObject, call, AccountCallSet, AccountCallKnown, StoreKnown
    <3>3. Calling(k, r) /\ UNCHANGED others
      BY <1>5, <2>2, <3>1 DEF AskObject, call
    <3> QED BY <1>2, <3>2, <3>3
  <2> QED BY <2>1, <2>2
<1>6. CASE ReadRecovery(k)
  <2>0. recovery > 0 /\ UNCHANGED others
    BY <1>6 DEF ReadRecovery
  <2>1. CASE call.pc = "targeted"
    <3>1. PICK r : r = [call EXCEPT !.pc = "validated"]
      OBVIOUS
    <3>2. /\ r \in AccountCallSet /\ r.pc = "validated" /\ r.device = call.device
          /\ r.epoch = call.epoch /\ r.ahead = call.ahead
      BY <1>0, <3>1 DEF AccountCallSet
    <3>3. Calling(k, r) /\ call.epoch = recovery
      BY <1>6, <2>1, <3>1 DEF ReadRecovery, call
    <3>4. AccountCallKnown(r)
      BY <1>0, <1>1, <2>1, <3>2, <3>3 DEF AccountCallKnown, StoreKnown
    <3> QED BY <1>2, <2>0, <3>2, <3>3, <3>4
  <2>2. ASSUME NEW pc \in {"looking", "expecting"}, call.pc \in {"claimed", "acting"},
               Calling(k, [call EXCEPT !.pc = pc, !.epoch = recovery])
        PROVE  AccountInvariant'
    <3>1. PICK r : r = [call EXCEPT !.pc = pc, !.epoch = recovery]
      OBVIOUS
    <3>2. r \in AccountCallSet /\ r.pc = pc /\ r.device = call.device
      BY <1>0, <1>1, <3>1 DEF AccountCallSet
    <3>3. AccountCallKnown(r)
      BY <1>0, <2>2, <3>2 DEF AccountCallKnown, StoreKnown
    <3> QED BY <1>2, <2>0, <2>2, <3>1, <3>2, <3>3
  <2> QED BY <1>6, <2>1, <2>2 DEF ReadRecovery, call
<1>7. CASE ReadTarget(k)
  <2>1. call.pc = "approved" /\ devices[call.device].state = "active" /\ UNCHANGED others
    BY <1>7 DEF ReadTarget, ActiveDevice, call
  <2>2. PICK r : r = [call EXCEPT !.pc = "targeted", !.count = devices[call.device].key]
    OBVIOUS
  <2>3. call.device \in Devices
    BY <1>0, <2>1 DEF AccountCallKnown, StoreKnown
  <2>4. devices[call.device].key \in Nat
    BY <1>1, <2>3 DEF DeviceRow
  <2>5. /\ r \in AccountCallSet /\ r.pc = "targeted" /\ r.device = call.device
        /\ r.epoch = call.epoch /\ r.ahead = call.ahead
    BY <1>0, <2>2, <2>4 DEF AccountCallSet
  <2>6. ~(removed[call.device] > 0)
    BY <2>1, <2>3 DEF AccountInvariant, RemovedBehind
  <2>7. AccountCallKnown(r)
    BY <1>0, <2>1, <2>5, <2>6 DEF AccountCallKnown, StoreKnown
  <2>8. Calling(k, r)
    BY <1>7, <2>2 DEF ReadTarget, call
  <2> QED BY <1>2, <2>1, <2>5, <2>7, <2>8
<1>8. ASSUME NEW pc, \/ call.pc = "validated" /\ pc = "storing"
                     \/ call.pc = "looking" /\ pc = "consuming"
                     \/ call.pc = "expecting" /\ pc = "removing",
             Calling(k, [call EXCEPT !.pc = pc]), UNCHANGED others
      PROVE  AccountInvariant'
  <2>1. PICK r : r = [call EXCEPT !.pc = pc]
    OBVIOUS
  <2>2. /\ r \in AccountCallSet /\ r.pc = pc /\ r.device = call.device
        /\ r.epoch = call.epoch /\ r.ahead = call.ahead
    BY <1>0, <1>8, <2>1 DEF AccountCallSet
  <2>3. AccountCallKnown(r)
    BY <1>0, <1>8, <2>2 DEF AccountCallKnown, StoreKnown
  <2> QED BY <1>2, <1>8, <2>1, <2>2, <2>3
<1>9. CASE FindNoPackage(k) \/ FindPackage(k) \/ ReadRemoved(k)
  BY <1>8, <1>9 DEF FindNoPackage, FindPackage, ReadRemoved, call
<1>10. ASSUME NEW count \in 0 .. 1, LoadPasskey(k, count) PROVE AccountInvariant'
  <2>0. count \in Nat /\ count \in 0 .. 1
    OBVIOUS
  <2>1. call.pc = "consumed" /\ UNCHANGED others
    BY <1>10 DEF LoadPasskey, call
  <2>2. PICK r : r = [call EXCEPT !.pc = "asserting", !.count = count]
    OBVIOUS
  <2>3. /\ r \in AccountCallSet /\ r.pc = "asserting" /\ r.challenge = call.challenge
        /\ r.digest = call.digest /\ r.count = count
    BY <1>0, <2>0, <2>2 DEF AccountCallSet
  <2>4. AccountCallKnown(r)
    BY <1>0, <2>1, <2>3 DEF AccountCallKnown, StoreKnown
  <2>5. Calling(k, r)
    BY <1>10, <2>2 DEF LoadPasskey, call
  <2> QED BY <1>2, <2>1, <2>3, <2>4, <2>5
<1> QED BY <1>3, <1>4, <1>5, <1>6, <1>7, <1>9, <1>10 DEF RefuseRequest, DropCall

(* Sessions and devices.                                                    *)
LEMMA IssueSessionStep ==
    ASSUME AccountInvariant, NEW k \in AccountCalls, NEW s \in Sessions, IssueSession(k, s)
    PROVE  AccountInvariant'
<1> DEFINE call == accountCalls[k]
           row == [state |-> "open", epoch |-> call.epoch, early |-> call.early]
<1>1. row \in SessionRow /\ (row.early => row.epoch < account.epoch)
  BY AccountCallThere DEF IssueSession, AccountCallSet, AccountCallKnown, StoreKnown, SessionRow
<1>2. sessions \in [Sessions -> SessionRow] /\ sessions' = [sessions EXCEPT ![s] = row]
  BY DEF AccountInvariant, AccountTables, IssueSession
<1> HIDE DEF row
<1>3. sessions' \in [Sessions -> SessionRow]
      /\ \A t \in Sessions : sessions'[t] = IF t = s THEN row ELSE sessions[t]
  BY <1>1, <1>2
<1>4. accountCalls' \in [AccountCalls -> AccountCallSet] /\ AccountCallsKnown'
  <2>1. \A c \in AccountCallSet : AccountCallKnown(c) => AccountCallKnown(c)'
    BY DEF IssueSession, AccountCallKnown, StoreKnown, histories
  <2> QED BY <2>1, ReturnedCall, AccountCallGoesOn DEF IssueSession, Return
<1>5. AccountTables'
  BY <1>3, <1>4 DEF AccountInvariant, AccountTables, IssueSession, histories
<1>6. SignedOut'
  BY <1>1, <1>3 DEF AccountInvariant, SignedOut, IssueSession
<1>7. GesturesOnce' /\ RequestsOnce' /\ EpochsOnce' /\ RemovedBehind'
  BY DEF AccountInvariant, IssueSession, GesturesOnce, RequestsOnce, EpochsOnce, RemovedBehind, histories
<1> QED BY <1>4, <1>5, <1>6, <1>7 DEF AccountInvariant

LEMMA RegisterDeviceStep ==
    ASSUME AccountInvariant, NEW k \in AccountCalls, NEW d \in Devices, RegisterDevice(k, d)
    PROVE  AccountInvariant'
<1> DEFINE call == accountCalls[k]
           row == NewDevice(call.epoch, call.early)
<1>1. /\ row \in DeviceRow /\ row.epoch <= account.epoch
      /\ row.early => row.epoch < account.epoch
  BY AccountCallThere DEF RegisterDevice, AccountCallSet, AccountCallKnown, StoreKnown, DeviceRow, NewDevice
<1>2. devices \in [Devices -> DeviceRow] /\ devices' = [devices EXCEPT ![d] = row]
      /\ devices[d].state = "none"
  BY DEF AccountInvariant, AccountTables, RegisterDevice
<1> HIDE DEF row
<1>3. devices' \in [Devices -> DeviceRow]
      /\ \A e \in Devices : devices'[e] = IF e = d THEN row ELSE devices[e]
  BY <1>1, <1>2
<1>4. accountCalls' \in [AccountCalls -> AccountCallSet] /\ AccountCallsKnown'
  <2>1. \A c \in AccountCallSet : AccountCallKnown(c) => AccountCallKnown(c)'
    BY DEF RegisterDevice, AccountCallKnown, StoreKnown, histories
  <2> QED BY <2>1, ReturnedCall, AccountCallGoesOn DEF RegisterDevice, Return
<1>5. AccountTables'
  BY <1>3, <1>4 DEF AccountInvariant, AccountTables, RegisterDevice, histories
<1>6. SignedOut'
  BY <1>1, <1>3 DEF AccountInvariant, SignedOut, RegisterDevice
<1>7. GesturesOnce' /\ RequestsOnce' /\ EpochsOnce'
  BY DEF AccountInvariant, RegisterDevice, GesturesOnce, RequestsOnce, EpochsOnce, histories
<1>8. RemovedBehind'
  BY <1>2, <1>3 DEF AccountInvariant, RegisterDevice, RemovedBehind, histories
<1> QED BY <1>4, <1>5, <1>6, <1>7, <1>8 DEF AccountInvariant

LEMMA RevokeSessionStep ==
    ASSUME AccountInvariant, NEW s \in Sessions, RevokeSession(s)
    PROVE  AccountInvariant'
<1>1. sessions \in [Sessions -> SessionRow]
  BY DEF AccountInvariant, AccountTables
<1>2. /\ sessions' \in [Sessions -> SessionRow]
      /\ \A t \in Sessions : t # s => sessions'[t] = sessions[t]
      /\ sessions'[s].state = "revoked"
  BY <1>1 DEF RevokeSession, SessionRow
<1>3. AccountTables'
  BY <1>2 DEF AccountInvariant, AccountTables, RevokeSession, histories
<1>4. SignedOut'
  BY <1>2 DEF AccountInvariant, SignedOut, RevokeSession
<1>5. AccountCallsKnown' /\ GesturesOnce' /\ RequestsOnce' /\ EpochsOnce' /\ RemovedBehind'
  BY DEF AccountInvariant, RevokeSession, AccountCallsKnown, AccountCallKnown, StoreKnown, GesturesOnce,
         RequestsOnce, EpochsOnce, RemovedBehind, histories
<1> QED BY <1>3, <1>4, <1>5 DEF AccountInvariant

LEMMA RevokeDeviceStep ==
    ASSUME AccountInvariant, NEW d \in Devices, RevokeDevice(d)
    PROVE  AccountInvariant'
<1>1. devices \in [Devices -> DeviceRow]
  BY DEF AccountInvariant, AccountTables
<1>2. /\ devices' \in [Devices -> DeviceRow]
      /\ \A e \in Devices : e # d => devices'[e] = devices[e]
      /\ devices'[d].state = "revoked"
  BY <1>1 DEF RevokeDevice, DeviceRow
<1>3. AccountTables'
  BY <1>2 DEF AccountInvariant, AccountTables, RevokeDevice, histories
<1>4. SignedOut'
  BY <1>2 DEF AccountInvariant, SignedOut, RevokeDevice
<1>5. RemovedBehind'
  BY <1>2 DEF AccountInvariant, RemovedBehind, RevokeDevice, histories
<1>6. AccountCallsKnown' /\ GesturesOnce' /\ RequestsOnce' /\ EpochsOnce'
  BY DEF AccountInvariant, RevokeDevice, AccountCallsKnown, AccountCallKnown, StoreKnown, GesturesOnce,
         RequestsOnce, EpochsOnce, histories
<1> QED BY <1>3, <1>4, <1>5, <1>6 DEF AccountInvariant

(* Everything that is open, and everything that is being issued, is of an   *)
(* older epoch from now on.                                                 *)
LEMMA RevokeAllStep ==
    ASSUME AccountInvariant, RevokeAll
    PROVE  AccountInvariant'
<1>1. /\ account.epoch \in Nat /\ account'.epoch = account.epoch + 1
      /\ account' \in [epoch : 1 .. MaxEpoch, count : 0 .. 1]
  <2>1. account \in [epoch : 1 .. MaxEpoch, count : 0 .. 1] /\ account.epoch < MaxEpoch
        /\ account' = [account EXCEPT !.epoch = account.epoch + 1]
    BY Zenon DEF AccountInvariant, AccountTables, RevokeAll
  <2>2. PICK next : next = account.epoch + 1
    OBVIOUS
  <2>3. next \in 1 .. MaxEpoch /\ account.epoch \in Nat
    BY <2>1, <2>2, AccountsAssumption
  <2> QED BY <2>1, <2>2, <2>3
<1>2. sessions' \in [Sessions -> SessionRow] /\ \A s \in Sessions : sessions'[s].state # "open"
  BY Zenon DEF AccountInvariant, AccountTables, RevokeAll, SessionRow
<1>3. /\ devices' \in [Devices -> DeviceRow]
      /\ \A d \in Devices : /\ devices'[d].state = devices[d].state
                            /\ devices'[d].epoch = devices[d].epoch
  BY Zenon DEF AccountInvariant, AccountTables, RevokeAll, DeviceRow
<1>4. /\ accountCalls' \in [AccountCalls -> AccountCallSet]
      /\ \A k \in AccountCalls :
            /\ accountCalls'[k].pc = accountCalls[k].pc /\ accountCalls'[k].epoch = accountCalls[k].epoch
            /\ accountCalls'[k].challenge = accountCalls[k].challenge
            /\ accountCalls'[k].digest = accountCalls[k].digest
            /\ accountCalls'[k].count = accountCalls[k].count
            /\ accountCalls'[k].device = accountCalls[k].device
            /\ accountCalls'[k].nonce = accountCalls[k].nonce
            /\ accountCalls'[k].ahead = accountCalls[k].ahead
  <2>1. accountCalls \in [AccountCalls -> AccountCallSet]
    BY DEF AccountInvariant, AccountTables
  <2>2. ASSUME NEW k \in AccountCalls, NEW early \in BOOLEAN
        PROVE  [accountCalls[k] EXCEPT !.early = early] \in AccountCallSet
    BY <2>1 DEF AccountCallSet
  <2>3. \A k \in AccountCalls : accountCalls[k].early \in BOOLEAN
    BY <2>1 DEF AccountCallSet
  <2>4. accountCalls' = [k \in AccountCalls |-> [accountCalls[k] EXCEPT !.early =
             accountCalls[k].early \/ accountCalls[k].pc \in {"session", "device"}]]
    BY Zenon DEF RevokeAll
  <2>5. accountCalls' \in [AccountCalls -> AccountCallSet]
    BY <2>2, <2>3, <2>4
  <2>6. \A k \in AccountCalls : DOMAIN accountCalls[k] =
           {"pc", "epoch", "early", "device", "nonce", "challenge", "digest", "count", "ahead"}
    BY <2>1 DEF AccountCallSet
  <2> QED BY <2>4, <2>5, <2>6
<1>5. AccountTables'
  BY Zenon, <1>1, <1>2, <1>3, <1>4 DEF AccountInvariant, AccountTables, RevokeAll, histories
<1>6. SignedOut'
  <2>1. ASSUME NEW d \in Devices, devices'[d].state = "active"
        PROVE  devices'[d].epoch < account'.epoch
    <3>1. devices[d].epoch \in Nat /\ devices[d].epoch <= account.epoch
      BY <1>3, <2>1 DEF AccountInvariant, AccountTables, SignedOut, DeviceRow
    <3> QED BY <1>1, <1>3, <3>1
  <2>2. \A d \in Devices : devices'[d].epoch \in Nat
    BY <1>3 DEF DeviceRow
  <2> QED BY <1>1, <1>2, <2>1, <2>2 DEF SignedOut
<1>7. AccountCallsKnown'
  <2>1. ASSUME NEW k \in AccountCalls PROVE AccountCallKnown(accountCalls[k])'
    <3>1. AccountCallKnown(accountCalls[k]) /\ accountCalls[k].epoch \in Nat
      BY AccountCallThere DEF AccountCallSet
    <3>2. UNCHANGED <<challenges, recovery, removed>>
      BY Zenon DEF RevokeAll, histories
    <3>3. accountCalls[k].pc \in {"session", "device"} => accountCalls[k].epoch < account'.epoch
      BY <1>1, <3>1 DEF AccountCallKnown, StoreKnown
    <3>4. PICK new : new = accountCalls'[k]
      OBVIOUS
    <3>5. AccountCallKnown(new)'
      <4>1. new.pc \in {"session", "device"} =>
               new.epoch <= account'.epoch /\ (new.early => new.epoch < account'.epoch)
        BY <1>1, <1>4, <3>1, <3>3, <3>4
      <4> QED BY <1>4, <3>1, <3>2, <3>4, <4>1 DEF AccountCallKnown, StoreKnown
    <3> QED BY <3>4, <3>5 DEF AccountCallKnown, StoreKnown
  <2> QED BY <2>1 DEF AccountCallsKnown
<1>8. GesturesOnce' /\ RequestsOnce' /\ EpochsOnce' /\ RemovedBehind'
  BY Zenon, <1>3 DEF AccountInvariant, RevokeAll, GesturesOnce, RequestsOnce, EpochsOnce, RemovedBehind, histories
<1> QED BY <1>5, <1>6, <1>7, <1>8 DEF AccountInvariant

(* Signed requests.                                                         *)
LEMMA AcceptRequestStep ==
    ASSUME AccountInvariant, NEW k \in AccountCalls, AcceptRequest(k)
    PROVE  AccountInvariant'
<1> DEFINE used == <<accountCalls[k].device, accountCalls[k].nonce>>
<1>1. used \in Devices \X Nonces /\ used \notin nonces
  BY AccountCallThere DEF AcceptRequest, AccountCallKnown, StoreKnown
<1>2. accountCalls' \in [AccountCalls -> AccountCallSet] /\ AccountCallsKnown'
  <2>1. \A c \in AccountCallSet : AccountCallKnown(c) => AccountCallKnown(c)'
    BY DEF AcceptRequest, AccountCallKnown, StoreKnown
  <2> QED BY <2>1, ReturnedCall, AccountCallGoesOn DEF AcceptRequest, Return
<1> HIDE DEF used
<1>3. /\ spent \in SpentSet
      /\ spent' = [spent EXCEPT !.nonces[used] = @ + 1] /\ nonces' = nonces \cup {used}
  BY DEF AccountInvariant, AccountTables, AcceptRequest, used
<1>4. /\ spent' \in SpentSet
      /\ spent'.challenges = spent.challenges /\ spent'.epochs = spent.epochs
      /\ \A n \in Devices \X Nonces :
            spent'.nonces[n] = IF n = used THEN spent.nonces[n] + 1 ELSE spent.nonces[n]
  BY <1>1, <1>3, RequestCounted
<1>5. AccountTables'
  BY <1>1, <1>2, <1>3, <1>4 DEF AccountInvariant, AccountTables, AcceptRequest
<1>6. RequestsOnce'
  <2>1. \A n \in Devices \X Nonces : spent.nonces[n] \in Nat /\ spent.nonces[n] <= 1
                                     /\ (n \notin nonces => spent.nonces[n] = 0)
    BY <1>3 DEF AccountInvariant, RequestsOnce, SpentSet
  <2> QED BY <1>1, <1>3, <1>4, <2>1 DEF RequestsOnce
<1>7. GesturesOnce' /\ EpochsOnce'
  BY <1>4 DEF AccountInvariant, AcceptRequest, GesturesOnce, EpochsOnce
<1>8. SignedOut' /\ RemovedBehind'
  BY DEF AccountInvariant, AcceptRequest, SignedOut, RemovedBehind
<1> QED BY <1>2, <1>5, <1>6, <1>7, <1>8 DEF AccountInvariant

(* Challenges.                                                              *)
LEMMA ChallengeMoves ==
    ASSUME AccountInvariant, NEW c \in Challenges,
           \/ \E kind \in {"email", "registration", "passkey"}, digest \in Digests \cup {None} :
                 IssueChallenge(c, kind, digest)
           \/ LapseChallenge(c)
    PROVE  AccountInvariant'
<1>1. PICK row \in ChallengeRow : /\ row.state \in {"live", "lapsed"}
                                  /\ challenges[c].state # "consumed"
                                  /\ challenges' = [challenges EXCEPT ![c] = row]
  <2>1. CASE LapseChallenge(c)
    <3>1. challenges[c] \in ChallengeRow
      BY DEF AccountInvariant, AccountTables
    <3>2. PICK row : row = [challenges[c] EXCEPT !.state = "lapsed"]
      OBVIOUS
    <3>3. row \in ChallengeRow /\ row.state = "lapsed"
      BY <3>1, <3>2 DEF ChallengeRow
    <3>4. challenges[c].state = "live" /\ challenges' = [challenges EXCEPT ![c] = row]
      BY <2>1, <3>2 DEF LapseChallenge
    <3> QED BY <3>3, <3>4
  <2>2. ASSUME NEW kind \in {"email", "registration", "passkey"}, NEW digest \in Digests \cup {None},
               IssueChallenge(c, kind, digest)
        PROVE  \E row \in ChallengeRow : /\ row.state \in {"live", "lapsed"}
                                         /\ challenges[c].state # "consumed"
                                         /\ challenges' = [challenges EXCEPT ![c] = row]
    BY <2>2 DEF IssueChallenge, ChallengeRow
  <2> QED BY <2>1, <2>2
<1>2. UNCHANGED <<account, sessions, devices, recovery, packages, accountCalls, nonces, histories>>
  BY DEF IssueChallenge, LapseChallenge
<1>3. /\ challenges' \in [Challenges -> ChallengeRow]
      /\ \A x \in Challenges : challenges'[x] = IF x = c THEN row ELSE challenges[x]
  BY <1>1 DEF AccountInvariant, AccountTables
<1>4. AccountTables'
  BY <1>2, <1>3 DEF AccountInvariant, AccountTables, histories
<1>5. AccountCallsKnown'
  BY <1>1, <1>2, <1>3 DEF AccountInvariant, AccountCallsKnown, AccountCallKnown, StoreKnown, histories
<1>6. GesturesOnce'
  BY <1>1, <1>2, <1>3 DEF AccountInvariant, GesturesOnce, histories
<1>7. SignedOut' /\ RequestsOnce' /\ EpochsOnce' /\ RemovedBehind'
  BY <1>2 DEF AccountInvariant, SignedOut, RequestsOnce, EpochsOnce, RemovedBehind, histories
<1> QED BY <1>4, <1>5, <1>6, <1>7 DEF AccountInvariant

(* A challenge is consumed; one call may go on with it.                     *)
LEMMA ConsumedStep ==
    ASSUME AccountInvariant, NEW c \in Challenges, NEW kind, Consume(c, kind),
           UNCHANGED <<account, sessions, devices, recovery, packages, nonces, approved, removed>>,
           \/ UNCHANGED accountCalls
           \/ \E k \in AccountCalls, r \in AccountCallSet :
                 /\ Calling(k, r)
                 /\ r.pc = "consumed" /\ r.challenge = c /\ r.count \in 0 .. 1
                 /\ r.digest \in {None, challenges[c].digest}
    PROVE  AccountInvariant'
<1>1. challenges \in [Challenges -> ChallengeRow]
      /\ spent \in SpentSet
  BY DEF AccountInvariant, AccountTables
<1>2. challenges[c].state = "live"
      /\ challenges' = [challenges EXCEPT ![c].state = "consumed"]
      /\ spent' = [spent EXCEPT !.challenges[c] = @ + 1]
  BY DEF Consume
<1>3. /\ challenges' \in [Challenges -> ChallengeRow]
      /\ \A x \in Challenges : x # c => challenges'[x] = challenges[x]
      /\ \A x \in Challenges : challenges'[x].digest = challenges[x].digest
      /\ challenges'[c].state = "consumed"
  BY <1>1, <1>2 DEF ChallengeRow
<1>4. /\ spent' \in SpentSet
      /\ spent'.nonces = spent.nonces /\ spent'.epochs = spent.epochs
      /\ \A x \in Challenges :
            spent'.challenges[x] = IF x = c THEN spent.challenges[x] + 1 ELSE spent.challenges[x]
  BY <1>1, <1>2, GestureCounted
<1>5. \A call \in AccountCallSet : AccountCallKnown(call) => AccountCallKnown(call)'
  BY <1>2, <1>3 DEF AccountCallKnown, StoreKnown
<1>6. accountCalls' \in [AccountCalls -> AccountCallSet] /\ AccountCallsKnown'
  <2>1. CASE UNCHANGED accountCalls
    BY <1>5, <2>1 DEF AccountInvariant, AccountTables, AccountCallsKnown, AccountCallKnown, StoreKnown
  <2>2. ASSUME NEW k \in AccountCalls, NEW r \in AccountCallSet, Calling(k, r), r.pc = "consumed",
               r.challenge = c, r.count \in 0 .. 1, r.digest \in {None, challenges[c].digest}
        PROVE  accountCalls' \in [AccountCalls -> AccountCallSet] /\ AccountCallsKnown'
    <3>1. AccountCallKnown(r)'
      BY <1>3, <2>2 DEF AccountCallKnown, StoreKnown
    <3> QED BY <1>5, <2>2, <3>1, AccountCallGoesOn
  <2> QED BY <2>1, <2>2
<1>7. AccountTables'
  BY <1>3, <1>4, <1>6 DEF AccountInvariant, AccountTables
<1>8. GesturesOnce'
  <2>1. \A x \in Challenges :
           /\ spent.challenges[x] \in Nat /\ spent.challenges[x] <= 1
           /\ challenges[x].state # "consumed" => spent.challenges[x] = 0 /\ approved[x] = {}
           /\ approved[x] \subseteq {challenges[x].digest} \ {None}
    BY <1>1 DEF AccountInvariant, GesturesOnce, SpentSet
  <2>2. ASSUME NEW x \in Challenges PROVE spent'.challenges[x] <= 1
    <3>1. CASE x = c
      <4>1. spent.challenges[x] = 0
        BY <1>2, <2>1, <3>1
      <4> QED BY <1>4, <3>1, <4>1
    <3>2. CASE x # c
      BY <1>4, <2>1, <3>2
    <3> QED BY <3>1, <3>2
  <2>3. \A x \in Challenges : challenges'[x].state # "consumed" =>
           spent'.challenges[x] = 0 /\ approved'[x] = {}
    BY <1>3, <1>4, <2>1
  <2> QED BY <1>3, <2>1, <2>2, <2>3 DEF GesturesOnce
<1>9. SignedOut' /\ RequestsOnce' /\ EpochsOnce' /\ RemovedBehind'
  BY <1>4 DEF AccountInvariant, SignedOut, RequestsOnce, EpochsOnce, RemovedBehind
<1> QED BY <1>6, <1>7, <1>8, <1>9 DEF AccountInvariant

LEMMA GestureBegins ==
    ASSUME AccountInvariant, NEW c \in Challenges,
           \/ \E kind \in {"email", "registration"} : UseChallenge(c, kind)
           \/ \E k \in AccountCalls, digest \in Digests \cup {None} : BeginAssertion(k, c, digest)
    PROVE  AccountInvariant'
<1>1. CASE \E kind \in {"email", "registration"} : UseChallenge(c, kind)
  BY <1>1, ConsumedStep DEF UseChallenge
<1>2. ASSUME NEW k \in AccountCalls, NEW digest \in Digests \cup {None},
             BeginAssertion(k, c, digest)
      PROVE  AccountInvariant'
  <2>1. Consume(c, "passkey")
        /\ UNCHANGED <<account, sessions, devices, recovery, packages, nonces, approved, removed>>
    BY Zenon, <1>2 DEF BeginAssertion
  <2>2. CASE UNCHANGED accountCalls
    BY <2>1, <2>2, ConsumedStep
  <2>3. CASE ~UNCHANGED accountCalls
    <3> DEFINE r == [NoAccountCall EXCEPT !.pc = "consumed", !.challenge = c, !.digest = digest]
    <3>1. r \in AccountCallSet
      BY ReturnedCall DEF AccountCallSet
    <3>2. Calling(k, r) /\ digest \in {None, challenges[c].digest}
      BY Zenon, <1>2, <2>3 DEF BeginAssertion
    <3>3. r.pc = "consumed" /\ r.challenge = c /\ r.digest = digest /\ r.count \in 0 .. 1
      BY DEF NoAccountCall
    <3> HIDE DEF r
    <3> QED BY <2>1, <3>1, <3>2, <3>3, ConsumedStep
  <2> QED BY <2>2, <2>3
<1> QED BY <1>1, <1>2

LEMMA FinishAssertionStep ==
    ASSUME AccountInvariant, NEW k \in AccountCalls, FinishAssertion(k)
    PROVE  AccountInvariant'
<1> DEFINE call == accountCalls[k]
<1>1. /\ call.challenge \in Challenges /\ challenges[call.challenge].state = "consumed"
      /\ call.digest \in {None, challenges[call.challenge].digest} /\ call.count \in 0 .. 1
      /\ call.digest \in Digests \cup {None}
  BY AccountCallThere DEF FinishAssertion, AccountCallKnown, StoreKnown, AccountCallSet
<1>2. account \in [epoch : 1 .. MaxEpoch, count : 0 .. 1] /\ approved \in [Challenges -> SUBSET Digests]
  BY DEF AccountInvariant, AccountTables
<1>3. account' \in [epoch : 1 .. MaxEpoch, count : 0 .. 1] /\ account'.epoch = account.epoch
  BY <1>1, <1>2 DEF FinishAssertion
<1>4. /\ approved' \in [Challenges -> SUBSET Digests]
      /\ \A c \in Challenges : c # call.challenge => approved'[c] = approved[c]
      /\ approved'[call.challenge] \subseteq approved[call.challenge] \cup ({call.digest} \ {None})
  BY <1>1, <1>2 DEF FinishAssertion
<1>5. accountCalls' \in [AccountCalls -> AccountCallSet] /\ AccountCallsKnown'
  <2>1. \A c \in AccountCallSet : AccountCallKnown(c) => AccountCallKnown(c)'
    BY <1>3 DEF FinishAssertion, AccountCallKnown, StoreKnown
  <2> QED BY <2>1, ReturnedCall, AccountCallGoesOn DEF FinishAssertion, Return
<1>6. AccountTables'
  BY <1>3, <1>4, <1>5 DEF AccountInvariant, AccountTables, FinishAssertion
<1>7. GesturesOnce'
  BY <1>1, <1>4 DEF AccountInvariant, GesturesOnce, FinishAssertion
<1>8. SignedOut' /\ RequestsOnce' /\ EpochsOnce' /\ RemovedBehind'
  BY <1>3 DEF AccountInvariant, FinishAssertion, SignedOut, RequestsOnce, EpochsOnce, RemovedBehind
<1> QED BY <1>5, <1>6, <1>7, <1>8 DEF AccountInvariant

(* The recovery package.                                                    *)
LEMMA RotateStep ==
    ASSUME AccountInvariant, NEW k \in AccountCalls, Rotate(k)
    PROVE  AccountInvariant'
<1>1. recovery \in 0 .. MaxEpoch /\ recovery < MaxEpoch /\ recovery' = recovery + 1
      /\ spent' = [spent EXCEPT !.epochs[recovery] = @ + 1]
  BY DEF AccountInvariant, AccountTables, Rotate
<1>2. recovery' \in 0 .. MaxEpoch /\ recovery \in Nat
  BY <1>1, AccountsAssumption
<1>3. spent \in SpentSet
  BY DEF AccountInvariant, AccountTables
<1>4. /\ spent' \in SpentSet
      /\ spent'.challenges = spent.challenges /\ spent'.nonces = spent.nonces
      /\ \A e \in 0 .. MaxEpoch :
            spent'.epochs[e] = IF e = recovery THEN spent.epochs[e] + 1 ELSE spent.epochs[e]
  BY <1>1, <1>3, EpochCounted
<1>5. accountCalls' \in [AccountCalls -> AccountCallSet] /\ AccountCallsKnown'
  <2>1. \A c \in AccountCallSet : AccountCallKnown(c) => AccountCallKnown(c)'
    BY <1>1, <1>2 DEF Rotate, AccountCallKnown, StoreKnown
  <2>5. PICK r : r = [accountCalls[k] EXCEPT !.pc = "cleaning"]
    OBVIOUS
  <2>2. r \in AccountCallSet /\ r.pc = "cleaning"
    BY <2>5, AccountCallThere DEF AccountCallSet
  <2>3. Return(k) \/ Calling(k, r)
    BY <2>5 DEF Rotate
  <2>4. AccountCallKnown(r)'
    BY <2>2 DEF AccountCallKnown, StoreKnown
  <2> QED BY <2>1, <2>2, <2>3, <2>4, ReturnedCall, AccountCallGoesOn DEF Return
<1>6. AccountTables'
  BY <1>2, <1>4, <1>5 DEF AccountInvariant, AccountTables, Rotate
<1>7. EpochsOnce'
  <2>1. \A e \in 0 .. MaxEpoch : spent.epochs[e] \in Nat /\ spent.epochs[e] <= 1
                                 /\ (e >= recovery => spent.epochs[e] = 0)
    BY <1>3 DEF AccountInvariant, EpochsOnce, SpentSet
  <2>2. \A e \in 0 .. MaxEpoch : spent'.epochs[e] <= 1
    BY <1>2, <1>4, <2>1
  <2>3. \A e \in 0 .. MaxEpoch : e >= recovery' => spent'.epochs[e] = 0
    BY <1>1, <1>2, <1>4, <2>1
  <2> QED BY <2>2, <2>3 DEF EpochsOnce
<1>8. RemovedBehind'
  <2>1. \A e \in 1 .. recovery : e \in 1 .. recovery'
    BY <1>1, <1>2
  <2> QED BY <2>1 DEF AccountInvariant, Rotate, RemovedBehind
<1>9. SignedOut' /\ GesturesOnce' /\ RequestsOnce'
  BY <1>4 DEF AccountInvariant, Rotate, SignedOut, GesturesOnce, RequestsOnce
<1> QED BY <1>5, <1>6, <1>7, <1>8, <1>9 DEF AccountInvariant

(* What a call does with the packages.                                      *)
LEMMA PackagesStep ==
    ASSUME AccountInvariant, NEW k \in AccountCalls, Return(k),
           UNCHANGED <<account, sessions, devices, challenges, recovery, nonces, histories>>,
           packages' \subseteq PackageSet,
           \A p \in packages' : /\ p.epoch \in 1 .. recovery
                                /\ (removed[p.device] > 0 /\ ~p.ahead) => p.epoch < removed[p.device]
    PROVE  AccountInvariant'
<1>1. accountCalls' \in [AccountCalls -> AccountCallSet] /\ AccountCallsKnown'
  <2>1. \A c \in AccountCallSet : AccountCallKnown(c) => AccountCallKnown(c)'
    BY DEF AccountCallKnown, StoreKnown, histories
  <2> QED BY <2>1, ReturnedCall, AccountCallGoesOn DEF Return
<1>2. AccountTables'
  BY <1>1 DEF AccountInvariant, AccountTables, histories
<1>3. RemovedBehind'
  BY DEF AccountInvariant, RemovedBehind, histories
<1>4. SignedOut' /\ GesturesOnce' /\ RequestsOnce' /\ EpochsOnce'
  BY DEF AccountInvariant, SignedOut, GesturesOnce, RequestsOnce, EpochsOnce, histories
<1> QED BY <1>1, <1>2, <1>3, <1>4 DEF AccountInvariant

LEMMA PackagesMove ==
    ASSUME AccountInvariant, NEW k \in AccountCalls, CleanPackages(k) \/ Store(k) \/ ConsumePackage(k)
    PROVE  AccountInvariant'
<1>1. packages \subseteq PackageSet /\ \A p \in packages :
          /\ p.epoch \in 1 .. recovery /\ ((removed[p.device] > 0 /\ ~p.ahead) => p.epoch < removed[p.device])
  BY DEF AccountInvariant, AccountTables, RemovedBehind
<1>2. CASE CleanPackages(k)
  BY <1>1, <1>2, PackagesStep DEF CleanPackages
<1>3. CASE Store(k)
  <2> DEFINE call == accountCalls[k]
             new == [device |-> call.device, epoch |-> call.epoch, key |-> call.count,
                     consumed |-> FALSE, ahead |-> call.ahead]
  <2>0. call.epoch \in Nat /\ call.count \in Nat /\ call.ahead \in BOOLEAN /\ StoreKnown(call)
        /\ call.pc = "storing"
    BY <1>3, AccountCallThere DEF Store, AccountCallKnown, AccountCallSet
  <2>1. /\ call.device \in Devices /\ call.epoch \in 1 .. recovery
        /\ (removed[call.device] > 0 /\ ~call.ahead) => call.epoch < removed[call.device]
    BY <2>0, AccountsAssumption DEF StoreKnown, AccountInvariant, AccountTables
  <2>2. new \in PackageSet /\ new.epoch \in 1 .. recovery
        /\ ((removed[new.device] > 0 /\ ~new.ahead) => new.epoch < removed[new.device])
    BY <2>0, <2>1 DEF PackageSet
  <2>3. packages' = packages \cup {new}
    BY <1>3 DEF Store
  <2> HIDE DEF new
  <2>4. packages' \subseteq PackageSet /\ \A p \in packages' :
          /\ p.epoch \in 1 .. recovery /\ ((removed[p.device] > 0 /\ ~p.ahead) => p.epoch < removed[p.device])
    BY <1>1, <2>2, <2>3
  <2> QED BY <1>3, <2>4, PackagesStep DEF Store
<1>4. CASE ConsumePackage(k)
  <2>1. \A p \in PackageSet : LET new == [p EXCEPT !.consumed = TRUE]
                              IN  /\ new \in PackageSet /\ new.epoch = p.epoch
                                  /\ new.device = p.device /\ new.ahead = p.ahead
    BY DEF PackageSet
  <2>2. \A q \in packages' : q \in packages \/ \E p \in packages : q = [p EXCEPT !.consumed = TRUE]
    BY <1>4 DEF ConsumePackage
  <2>3. ASSUME NEW q \in packages'
        PROVE  /\ q \in PackageSet /\ q.epoch \in 1 .. recovery
               /\ (removed[q.device] > 0 /\ ~q.ahead) => q.epoch < removed[q.device]
    <3>1. CASE q \in packages
      BY <1>1, <3>1
    <3>2. ASSUME NEW p \in packages, q = [p EXCEPT !.consumed = TRUE]
          PROVE  /\ q \in PackageSet /\ q.epoch \in 1 .. recovery
                 /\ (removed[q.device] > 0 /\ ~q.ahead) => q.epoch < removed[q.device]
      <4>1. q \in PackageSet /\ q.epoch = p.epoch /\ q.device = p.device /\ q.ahead = p.ahead
        BY <1>1, <2>1, <3>2
      <4> QED BY <1>1, <4>1
    <3> QED BY <2>2, <3>1, <3>2
  <2> QED BY <1>4, <2>3, PackagesStep DEF ConsumePackage
<1> QED BY <1>2, <1>3, <1>4

(* A removal refused because the epoch has moved revokes the device and     *)
(* drops the packages all the same.                                         *)
LEMMA RemoveStep ==
    ASSUME AccountInvariant, NEW k \in AccountCalls, Remove(k)
    PROVE  AccountInvariant'
<1> DEFINE d == accountCalls[k].device
           moved == recovery # accountCalls[k].epoch
<1>1. d \in Devices
  BY AccountCallThere DEF Remove, AccountCallKnown, StoreKnown
<1>2. recovery \in 0 .. MaxEpoch /\ recovery \in Nat /\ recovery < MaxEpoch /\ recovery + 1 \in 0 .. MaxEpoch
  BY AccountsAssumption DEF AccountInvariant, AccountTables, Remove
<1>3. /\ recovery' = IF moved THEN recovery ELSE recovery + 1
      /\ devices' = IF ActiveDevice(d) THEN [devices EXCEPT ![d].state = "revoked", ![d].key = @ + 1]
                    ELSE devices
      /\ packages' = {}
      /\ removed' = IF ~moved /\ ActiveDevice(d) THEN [removed EXCEPT ![d] = recovery + 1] ELSE removed
      /\ spent' = IF moved THEN spent ELSE [spent EXCEPT !.epochs[recovery] = @ + 1]
      /\ Return(k)
      /\ UNCHANGED <<account, sessions, challenges, nonces, approved>>
  BY DEF Remove
<1>4. /\ devices \in [Devices -> DeviceRow] /\ removed \in [Devices -> Nat]
      /\ spent \in SpentSet
  BY DEF AccountInvariant, AccountTables
<1> HIDE DEF d, moved
<1>5. recovery' \in 0 .. MaxEpoch /\ recovery <= recovery' /\ recovery' \in Nat
      /\ (recovery' = recovery \/ recovery' = recovery + 1)
  BY <1>2, <1>3
<1>6. /\ devices' \in [Devices -> DeviceRow]
      /\ \A e \in Devices : e # d \/ devices[e].state # "active" => devices'[e] = devices[e]
      /\ \A e \in Devices : devices'[e].state = "active" => devices'[e] = devices[e]
      /\ devices[d].state = "active" => devices'[d].state = "revoked"
  <2>1. CASE ActiveDevice(d)
    <3>1. PICK row : row = [devices[d] EXCEPT !.state = "revoked", !.key = devices[d].key + 1]
      OBVIOUS
    <3>4. PICK next : next = devices[d].key + 1
      OBVIOUS
    <3>5. next \in Nat /\ devices[d] \in DeviceRow
      BY <1>1, <1>4, <3>4 DEF DeviceRow
    <3>2. row \in DeviceRow /\ row.state = "revoked"
      BY <3>1, <3>4, <3>5 DEF DeviceRow
    <3>3. devices' = [devices EXCEPT ![d] = row]
      BY <1>1, <1>3, <1>4, <2>1, <3>1
    <3> QED BY <1>1, <1>4, <2>1, <3>2, <3>3 DEF ActiveDevice
  <2>2. CASE ~ActiveDevice(d)
    BY <1>3, <1>4, <2>2 DEF ActiveDevice
  <2> QED BY <2>1, <2>2
<1>7. /\ removed' \in [Devices -> Nat]
      /\ \A e \in Devices : removed'[e] # removed[e] =>
            /\ e = d /\ devices[d].state = "active" /\ removed'[e] = recovery + 1
  BY <1>1, <1>2, <1>3, <1>4 DEF ActiveDevice
<1>8. /\ spent' \in SpentSet
      /\ spent'.challenges = spent.challenges /\ spent'.nonces = spent.nonces
      /\ \A e \in 0 .. MaxEpoch : \/ spent'.epochs[e] = spent.epochs[e]
                                  \/ e = recovery /\ spent'.epochs[e] = spent.epochs[e] + 1
                                     /\ recovery' = recovery + 1
  <2>1. CASE moved
    BY <1>3, <1>4, <2>1
  <2>2. CASE ~moved
    <3>1. recovery \in (0 .. MaxEpoch) /\ spent' = [spent EXCEPT !.epochs[recovery] = @ + 1]
      BY <1>2, <1>3, <2>2
    <3>2. /\ spent' \in SpentSet
          /\ spent'.challenges = spent.challenges /\ spent'.nonces = spent.nonces
          /\ \A e \in (0 .. MaxEpoch) :
                spent'.epochs[e] = IF e = recovery THEN spent.epochs[e] + 1 ELSE spent.epochs[e]
      BY <1>4, <3>1, EpochCounted
    <3> QED BY <1>3, <2>2, <3>2
  <2> QED BY <2>1, <2>2
<1>9. accountCalls' \in [AccountCalls -> AccountCallSet] /\ AccountCallsKnown'
  <2>1. ASSUME NEW c \in AccountCallSet, AccountCallKnown(c) PROVE AccountCallKnown(c)'
    <3>1. StoreKnown(c) /\ c.epoch \in Nat
      BY <2>1 DEF AccountCallKnown, AccountCallSet
    <3>2. StoreKnown(c)'
      <4> SUFFICES ASSUME c.pc \in {"approved", "targeted", "validated", "storing"}
                   PROVE  /\ c.device \in Devices /\ c.epoch \in 1 .. MaxEpoch
                          /\ (~c.ahead \/ c.pc \in {"validated", "storing"}) => c.epoch <= recovery'
                          /\ (c.pc # "approved" /\ ~c.ahead /\ removed'[c.device] > 0) =>
                                c.epoch < removed'[c.device]
        BY DEF StoreKnown
      <4>1. /\ c.device \in Devices /\ c.epoch \in 1 .. MaxEpoch
            /\ (~c.ahead \/ c.pc \in {"validated", "storing"}) => c.epoch <= recovery
            /\ (c.pc # "approved" /\ ~c.ahead /\ removed[c.device] > 0) => c.epoch < removed[c.device]
        BY <3>1 DEF StoreKnown
      <4>2. (~c.ahead \/ c.pc \in {"validated", "storing"}) => c.epoch <= recovery'
        BY <1>2, <1>5, <3>1, <4>1
      <4>3. CASE removed'[c.device] = removed[c.device]
        BY <4>1, <4>2, <4>3
      <4>4. CASE removed'[c.device] # removed[c.device]
        <5>1. removed'[c.device] = recovery + 1
          BY <1>7, <4>1, <4>4
        <5>2. ~c.ahead => c.epoch < removed'[c.device]
          BY <1>2, <3>1, <4>1, <5>1
        <5> QED BY <4>1, <4>2, <5>2
      <4> QED BY <4>3, <4>4
    <3> QED BY <1>3, <2>1, <3>2 DEF AccountCallKnown, StoreKnown
  <2> QED BY <1>3, <2>1, ReturnedCall, AccountCallGoesOn DEF Return
<1>10. AccountTables'
  BY <1>3, <1>5, <1>6, <1>7, <1>8, <1>9 DEF AccountInvariant, AccountTables
<1>11. EpochsOnce'
  <2>1. \A e \in 0 .. MaxEpoch : spent.epochs[e] \in Nat /\ spent.epochs[e] <= 1
                                 /\ (e >= recovery => spent.epochs[e] = 0)
    BY <1>4 DEF AccountInvariant, EpochsOnce, SpentSet
  <2>2. \A e \in 0 .. MaxEpoch : spent'.epochs[e] <= 1
    BY <1>2, <1>8, <2>1
  <2>3. \A e \in 0 .. MaxEpoch : e >= recovery' => spent'.epochs[e] = 0
    BY <1>2, <1>5, <1>8, <2>1
  <2> QED BY <2>2, <2>3 DEF EpochsOnce
<1>12. RemovedBehind'
  <2>1. \A e \in Devices : removed[e] > 0 => devices[e].state = "revoked"
    BY DEF AccountInvariant, RemovedBehind
  <2>2. \A e \in Devices : removed'[e] > 0 => devices'[e].state = "revoked"
    BY <1>6, <1>7, <2>1
  <2> QED BY <1>3, <2>2 DEF RemovedBehind
<1>13. SignedOut'
  BY <1>3, <1>6 DEF AccountInvariant, SignedOut
<1>14. GesturesOnce' /\ RequestsOnce'
  BY <1>3, <1>8 DEF AccountInvariant, GesturesOnce, RequestsOnce
<1> QED BY <1>9, <1>10, <1>11, <1>12, <1>13, <1>14 DEF AccountInvariant

LEMMA AccountStepHolds ==
    ASSUME AccountInvariant, rows[Holder].epoch \in Nat,
           \/ SessionStep \/ RequestStep \/ ChallengeStep \/ RecoveryStep \/ FetchStep
           \/ \E d \in Devices : RevokeDevice(d)
           \/ \E k \in AccountCalls : DropCall(k)
    PROVE  AccountInvariant'
<1>1. CASE SessionStep
  BY <1>1, AccountCallsBegin, IssueSessionStep, RegisterDeviceStep, RevokeSessionStep, RevokeAllStep
     DEF SessionStep
<1>2. CASE RequestStep
  BY <1>2, AccountCallsBegin, AccountCallReads, AcceptRequestStep DEF RequestStep
<1>3. CASE ChallengeStep
  BY <1>3, ChallengeMoves, GestureBegins, AccountCallReads, FinishAssertionStep DEF ChallengeStep
<1>4. CASE RecoveryStep
  BY <1>4, AccountCallsBegin, AccountCallReads, RotateStep, PackagesMove, RemoveStep DEF RecoveryStep
<1>7. CASE FetchStep
  BY <1>7, AccountCallsBegin, AccountCallReads, PackagesMove DEF FetchStep
<1>5. CASE \E d \in Devices : RevokeDevice(d)
  BY <1>5, RevokeDeviceStep
<1>6. CASE \E k \in AccountCalls : DropCall(k)
  BY <1>6, AccountCallReads
<1> QED BY <1>1, <1>2, <1>3, <1>4, <1>5, <1>6, <1>7

-----------------------------------------------------------------------------
(* The connections. *)

CodeRow == [state : {"none", "live", "spent", "swept"}, member : People \cup {None}, lapsed : BOOLEAN]
ConnectionRow == [state : {"none", "open", "revoked"}, member : People \cup {None},
                  current : Nat, previous : Nat]
TokenCallSet == [pc : {"idle", "verifying", "exchanging", "refreshing"}, code : Codes \cup {None},
                 connection : Connections \cup {None}, pair : Nat]

OauthTables ==
    /\ codes \in [Codes -> CodeRow] /\ connections \in [Connections -> ConnectionRow]
    /\ tokenCalls \in [TokenCalls -> TokenCallSet]
    /\ minted \in Nat /\ minted <= MaxPairs
    /\ made \in [Codes -> Nat] /\ rotated \in [Pairs -> Nat] /\ raced \in BOOLEAN

CodesSpent ==
    /\ \A c \in Codes : made[c] <= 1 /\ (codes[c].state \in {"none", "live"} => made[c] = 0)
    /\ \A t \in TokenCalls : tokenCalls[t].pc \in {"verifying", "exchanging"} =>
          tokenCalls[t].code \in Codes

(* A pair of tokens is minted for one connection.                           *)
PairsApart ==
    /\ \A c \in Connections : /\ connections[c].current <= minted
                              /\ connections[c].previous <= minted
                              /\ connections[c].state # "none" => connections[c].current > 0
    /\ \A c, d \in Connections :
          connections[c].state # "none" /\ connections[c].current = connections[d].current => c = d
    /\ \A t \in TokenCalls : tokenCalls[t].pc = "refreshing" =>
          /\ tokenCalls[t].connection \in Connections /\ tokenCalls[t].pair \in 1 .. minted
          /\ connections[tokenCalls[t].connection].state # "none"

(* Unless two refreshes of one token raced, whoever waits to rotate a pair  *)
(* is alone with its connection, and the pair is still the current one.     *)
RotatedOnce ==
    /\ \A p \in Pairs : p > minted => rotated[p] = 0
    /\ ~raced =>
          /\ \A p \in Pairs : rotated[p] <= 1
          /\ \A c \in Connections : connections[c].state # "none" => rotated[connections[c].current] = 0
          /\ \A t \in TokenCalls : tokenCalls[t].pc = "refreshing" =>
                tokenCalls[t].pair = connections[tokenCalls[t].connection].current
          /\ \A t, u \in TokenCalls :
                /\ tokenCalls[t].pc = "refreshing" /\ tokenCalls[u].pc = "refreshing"
                /\ tokenCalls[t].connection = tokenCalls[u].connection
                => t = u

OauthInvariant == OauthTables /\ CodesSpent /\ PairsApart /\ RotatedOnce

LEMMA OauthIsHeld == OauthInvariant => SpentOnce
<1> SUFFICES ASSUME OauthInvariant PROVE SpentOnce
  OBVIOUS
<1>1. OauthTypeOK
  BY OauthAssumption DEF OauthInvariant, OauthTables, PairsApart, OauthTypeOK, CodeRow, ConnectionRow,
     TokenCallSet
<1>2. \A c, d \in Connections : \A pair \in Pairs : Honoured(c, pair) /\ Honoured(d, pair) => c = d
  BY DEF OauthInvariant, PairsApart, Honoured
<1>3. \A c \in Codes : made[c] <= 1
  BY DEF OauthInvariant, CodesSpent
<1>4. raced \/ \A pair \in Pairs : rotated[pair] <= 1
  BY DEF OauthInvariant, RotatedOnce
<1> QED BY <1>1, <1>2, <1>3, <1>4 DEF SpentOnce

LEMMA OauthStart == OauthInit => OauthInvariant
<1> SUFFICES ASSUME OauthInit PROVE OauthInvariant
  OBVIOUS
<1>1. OauthTables
  <2>1. NoCode \in CodeRow /\ NoConnection \in ConnectionRow /\ NoTokenCall \in TokenCallSet
    BY DEF NoCode, NoConnection, NoTokenCall, CodeRow, ConnectionRow, TokenCallSet
  <2>2. /\ codes \in [Codes -> CodeRow] /\ connections \in [Connections -> ConnectionRow]
        /\ tokenCalls \in [TokenCalls -> TokenCallSet]
    BY <2>1 DEF OauthInit
  <2>3. made \in [Codes -> Nat] /\ rotated \in [Pairs -> Nat]
    BY DEF OauthInit
  <2>4. minted \in Nat /\ minted <= MaxPairs
    BY OauthAssumption DEF OauthInit
  <2>5. raced \in BOOLEAN
    BY DEF OauthInit
  <2> QED BY <2>2, <2>3, <2>4, <2>5 DEF OauthTables
<1>2. CodesSpent
  BY DEF OauthInit, CodesSpent, NoTokenCall
<1>3. PairsApart
  BY DEF OauthInit, PairsApart, NoTokenCall, NoConnection
<1>4. RotatedOnce
  BY DEF OauthInit, RotatedOnce, NoTokenCall, NoConnection
<1> QED BY <1>1, <1>2, <1>3, <1>4 DEF OauthInvariant

LEMMA OauthStutter == OauthInvariant /\ UNCHANGED oauthVars => OauthInvariant'
BY DEF OauthInvariant, OauthTables, CodesSpent, PairsApart, RotatedOnce, oauthVars, Pairs

(* The codes.                                                               *)
LEMMA CodesMove ==
    ASSUME OauthInvariant, NEW code \in Codes, LapseCode(code) \/ \E p \in People : Authorize(p, code)
    PROVE  OauthInvariant'
<1>1. codes \in [Codes -> CodeRow]
  BY DEF OauthInvariant, OauthTables
<1>2. /\ codes' \in [Codes -> CodeRow]
      /\ \A c \in Codes : codes'[c].state \in {"none", "live"} => codes[c].state \in {"none", "live"}
  <2>1. CASE LapseCode(code)
    BY <1>1, <2>1 DEF LapseCode, CodeRow
  <2>2. ASSUME NEW p \in People, Authorize(p, code)
        PROVE  /\ codes' \in [Codes -> CodeRow]
               /\ \A c \in Codes : codes'[c].state \in {"none", "live"} => codes[c].state \in {"none", "live"}
    <3>1. PICK new : new = [NoCode EXCEPT !.state = "live", !.member = p]
      OBVIOUS
    <3>2. new \in CodeRow
      BY <3>1 DEF NoCode, CodeRow
    <3>3. \A c \in Codes : LET swept == [codes[c] EXCEPT !.state = "swept"]
                           IN  swept \in CodeRow /\ swept.state = "swept"
      BY <1>1 DEF CodeRow
    <3>4. codes' = [c \in Codes |-> IF c = code THEN new
                                    ELSE IF codes[c].lapsed THEN [codes[c] EXCEPT !.state = "swept"]
                                    ELSE codes[c]]
          /\ codes[code].state = "none"
      BY Zenon, <2>2, <3>1 DEF Authorize
    <3> QED BY <1>1, <3>2, <3>3, <3>4
  <2> QED BY <2>1, <2>2
<1>3. UNCHANGED <<connections, tokenCalls, minted, made, rotated, raced>>
  BY Zenon DEF LapseCode, Authorize
<1>4. OauthTables'
  BY <1>2, <1>3 DEF OauthInvariant, OauthTables, Pairs
<1>5. CodesSpent'
  BY <1>2, <1>3 DEF OauthInvariant, CodesSpent
<1>6. PairsApart' /\ RotatedOnce'
  BY <1>3 DEF OauthInvariant, PairsApart, RotatedOnce, Pairs
<1> QED BY <1>4, <1>5, <1>6 DEF OauthInvariant

(* A call that waits for a code, or ends.                                   *)
LEMMA TokenCallMoves ==
    ASSUME OauthInvariant, NEW t \in TokenCalls, NEW r \in TokenCallSet, r.pc # "refreshing",
           r.pc \in {"verifying", "exchanging"} => r.code \in Codes,
           tokenCalls' = [tokenCalls EXCEPT ![t] = r],
           UNCHANGED <<codes, connections, minted, made, rotated, raced>>
    PROVE  OauthInvariant'
<1>1. tokenCalls \in [TokenCalls -> TokenCallSet]
  BY DEF OauthInvariant, OauthTables
<1>2. /\ tokenCalls' \in [TokenCalls -> TokenCallSet]
      /\ \A u \in TokenCalls : tokenCalls'[u] = IF u = t THEN r ELSE tokenCalls[u]
  BY <1>1
<1>3. OauthTables'
  BY <1>2 DEF OauthInvariant, OauthTables, Pairs
<1>4. CodesSpent'
  BY <1>2 DEF OauthInvariant, CodesSpent
<1>5. PairsApart'
  BY <1>2 DEF OauthInvariant, PairsApart
<1>6. RotatedOnce'
  BY <1>2 DEF OauthInvariant, RotatedOnce, Pairs
<1> QED BY <1>3, <1>4, <1>5, <1>6 DEF OauthInvariant

LEMMA NoCallThere == NoTokenCall \in TokenCallSet /\ NoTokenCall.pc = "idle"
BY DEF NoTokenCall, TokenCallSet

LEMMA ExchangeWaits ==
    ASSUME OauthInvariant, NEW t \in TokenCalls,
           \/ \E code \in Codes : BeginExchange(t, code)
           \/ Verified(t) \/ ExchangeRefused(t) \/ RefreshRefused(t)
    PROVE  OauthInvariant'
<1>1. tokenCalls[t] \in TokenCallSet
      /\ (tokenCalls[t].pc \in {"verifying", "exchanging"} => tokenCalls[t].code \in Codes)
  BY DEF OauthInvariant, OauthTables, CodesSpent
<1>2. CASE tokenCalls' = [tokenCalls EXCEPT ![t] = NoTokenCall]
  BY Zenon, <1>2, NoCallThere, TokenCallMoves DEF BeginExchange, Verified, ExchangeRefused, RefreshRefused
<1>3. ASSUME NEW code \in Codes, BeginExchange(t, code) PROVE OauthInvariant'
  <2>1. PICK r : r = [NoTokenCall EXCEPT !.pc = "verifying", !.code = code]
    OBVIOUS
  <2>2. r \in TokenCallSet /\ r.pc = "verifying" /\ r.code = code
    BY <2>1 DEF NoTokenCall, TokenCallSet
  <2>3. tokenCalls' = [tokenCalls EXCEPT ![t] = r]
    BY Zenon, <1>3, <2>1 DEF BeginExchange
  <2> QED BY Zenon, <1>3, <2>2, <2>3, TokenCallMoves DEF BeginExchange
<1>4. ASSUME tokenCalls[t].pc = "verifying", tokenCalls' = [tokenCalls EXCEPT ![t].pc = "exchanging"],
             UNCHANGED <<codes, connections, minted, made, rotated, raced>>
      PROVE  OauthInvariant'
  <2>1. PICK r : r = [tokenCalls[t] EXCEPT !.pc = "exchanging"]
    OBVIOUS
  <2>2. r \in TokenCallSet /\ r.pc = "exchanging" /\ r.code = tokenCalls[t].code
    BY <1>1, <2>1 DEF TokenCallSet
  <2>3. tokenCalls' = [tokenCalls EXCEPT ![t] = r]
    BY <1>4, <2>1
  <2> QED BY <1>1, <1>4, <2>2, <2>3, TokenCallMoves
<1> QED BY <1>2, <1>3, <1>4 DEF Verified, ExchangeRefused, RefreshRefused

(* The exchange spends the code and makes a connection of a new pair.       *)
LEMMA FinishExchangeStep ==
    ASSUME OauthInvariant, NEW t \in TokenCalls, NEW conn \in Connections, FinishExchange(t, conn)
    PROVE  OauthInvariant'
<1> DEFINE code == tokenCalls[t].code
<1>1. /\ code \in Codes /\ codes[code].state = "live" /\ connections[conn].state = "none"
      /\ minted' = minted + 1 /\ minted < MaxPairs
      /\ codes' = [codes EXCEPT ![code].state = "spent"]
      /\ made' = [made EXCEPT ![code] = @ + 1]
      /\ tokenCalls' = [tokenCalls EXCEPT ![t] = NoTokenCall]
      /\ UNCHANGED <<rotated, raced>>
  BY DEF FinishExchange, Mint, OauthInvariant, CodesSpent
<1>2. /\ codes \in [Codes -> CodeRow] /\ connections \in [Connections -> ConnectionRow]
      /\ tokenCalls \in [TokenCalls -> TokenCallSet] /\ made \in [Codes -> Nat]
      /\ minted \in Nat
  BY DEF OauthInvariant, OauthTables
<1>3. PICK row \in ConnectionRow : /\ row.state = "open" /\ row.current = minted + 1 /\ row.previous = 0
                                   /\ connections' = [connections EXCEPT ![conn] = row]
  <2>1. PICK next : next = minted + 1
    OBVIOUS
  <2>2. PICK row : row = [NoConnection EXCEPT !.state = "open", !.member = codes[code].member,
                                              !.current = next]
    OBVIOUS
  <2>3. codes[code].member \in People \cup {None} /\ next \in Nat
    BY <1>1, <1>2, <2>1 DEF CodeRow
  <2>4. row \in ConnectionRow /\ row.state = "open" /\ row.current = next /\ row.previous = 0
    BY <2>2, <2>3 DEF NoConnection, ConnectionRow
  <2>5. connections' = [connections EXCEPT ![conn] = row]
    BY <2>1, <2>2 DEF FinishExchange
  <2> QED BY <2>1, <2>4, <2>5
<1> HIDE DEF code
<1>4. /\ codes' \in [Codes -> CodeRow] /\ codes'[code].state = "spent"
      /\ \A c \in Codes : c # code => codes'[c] = codes[c]
  BY <1>1, <1>2 DEF CodeRow
<1>5. /\ connections' \in [Connections -> ConnectionRow]
      /\ \A c \in Connections : connections'[c] = IF c = conn THEN row ELSE connections[c]
  BY <1>2, <1>3
<1>6. /\ made' \in [Codes -> Nat]
      /\ \A c \in Codes : made'[c] = IF c = code THEN made[c] + 1 ELSE made[c]
  BY <1>1, <1>2
<1>7. /\ tokenCalls' \in [TokenCalls -> TokenCallSet]
      /\ \A u \in TokenCalls : tokenCalls'[u] = IF u = t THEN NoTokenCall ELSE tokenCalls[u]
  BY <1>1, <1>2, NoCallThere
<1>8. OauthTables'
  <2>1. minted' \in Nat /\ minted' <= MaxPairs
    BY <1>1, <1>2, OauthAssumption
  <2> QED BY <1>1, <1>4, <1>5, <1>6, <1>7, <2>1 DEF OauthInvariant, OauthTables, Pairs
<1>9. CodesSpent'
  <2>1. \A c \in Codes : made'[c] <= 1 /\ (codes'[c].state \in {"none", "live"} => made'[c] = 0)
    BY <1>1, <1>2, <1>4, <1>6 DEF OauthInvariant, CodesSpent
  <2>2. \A u \in TokenCalls : tokenCalls'[u].pc \in {"verifying", "exchanging"} => tokenCalls'[u].code \in Codes
    BY <1>7, NoCallThere DEF OauthInvariant, CodesSpent
  <2> QED BY <2>1, <2>2 DEF CodesSpent
<1>10. PairsApart'
  <2>1. \A c \in Connections : connections[c].current \in Nat /\ connections[c].current <= minted
           /\ connections[c].previous \in Nat /\ connections[c].previous <= minted
    BY <1>2 DEF OauthInvariant, PairsApart, ConnectionRow
  <2>2. \A c \in Connections : /\ connections'[c].current <= minted'
                               /\ connections'[c].previous <= minted'
                               /\ connections'[c].state # "none" => connections'[c].current > 0
    BY <1>1, <1>2, <1>3, <1>5, <2>1 DEF OauthInvariant, PairsApart
  <2>3. ASSUME NEW c \in Connections, NEW d \in Connections, connections'[c].state # "none",
               connections'[c].current = connections'[d].current
        PROVE  c = d
    BY <1>2, <1>3, <1>5, <2>1, <2>3 DEF OauthInvariant, PairsApart
  <2>4. ASSUME NEW u \in TokenCalls, tokenCalls'[u].pc = "refreshing"
        PROVE  /\ tokenCalls'[u].connection \in Connections /\ tokenCalls'[u].pair \in 1 .. minted'
               /\ connections'[tokenCalls'[u].connection].state # "none"
    <3>1. tokenCalls'[u] = tokenCalls[u]
      BY <1>7, <2>4, NoCallThere
    <3>2. /\ tokenCalls[u].connection \in Connections /\ tokenCalls[u].pair \in 1 .. minted
          /\ connections[tokenCalls[u].connection].state # "none"
      BY <2>4, <3>1 DEF OauthInvariant, PairsApart
    <3>3. \A n \in 1 .. minted : n \in 1 .. minted'
      BY <1>1, <1>2
    <3>4. tokenCalls'[u].pair \in 1 .. minted'
      BY <3>1, <3>2, <3>3
    <3>5. \A c \in Connections : connections[c].state # "none" => connections'[c].state # "none"
      BY <1>3, <1>5
    <3>6. PICK c : c = tokenCalls[u].connection
      OBVIOUS
    <3>7. c \in Connections /\ connections'[c].state # "none"
      BY <3>2, <3>5, <3>6
    <3> QED BY <3>1, <3>4, <3>6, <3>7
  <2>5. \A c, d \in Connections :
           connections'[c].state # "none" /\ connections'[c].current = connections'[d].current => c = d
    BY <2>3
  <2>6. \A u \in TokenCalls : tokenCalls'[u].pc = "refreshing" =>
           /\ tokenCalls'[u].connection \in Connections /\ tokenCalls'[u].pair \in 1 .. minted'
           /\ connections'[tokenCalls'[u].connection].state # "none"
    BY <2>4
  <2> QED BY <2>2, <2>5, <2>6 DEF PairsApart
<1>11. RotatedOnce'
  <2>1. \A p \in Pairs : p > minted' => rotated'[p] = 0
    BY <1>1, <1>2 DEF OauthInvariant, RotatedOnce, Pairs
  <2>2. ASSUME ~raced'
        PROVE  /\ \A p \in Pairs : rotated'[p] <= 1
               /\ \A c \in Connections : connections'[c].state # "none" => rotated'[connections'[c].current] = 0
               /\ \A u \in TokenCalls : tokenCalls'[u].pc = "refreshing" =>
                     tokenCalls'[u].pair = connections'[tokenCalls'[u].connection].current
               /\ \A u, v \in TokenCalls :
                     /\ tokenCalls'[u].pc = "refreshing" /\ tokenCalls'[v].pc = "refreshing"
                     /\ tokenCalls'[u].connection = tokenCalls'[v].connection
                     => u = v
    <3>1. \A p \in Pairs : rotated'[p] <= 1
      BY <1>1, <2>2 DEF OauthInvariant, RotatedOnce
    <3>2. minted + 1 \in Pairs /\ rotated[minted + 1] = 0
      BY <1>1, <1>2, OauthAssumption DEF OauthInvariant, RotatedOnce, Pairs
    <3>3. \A c \in Connections : connections'[c].state # "none" => rotated'[connections'[c].current] = 0
      BY <1>1, <1>3, <1>5, <2>2, <3>2 DEF OauthInvariant, RotatedOnce
    <3>4. \A u \in TokenCalls : tokenCalls'[u].pc = "refreshing" =>
             /\ tokenCalls[u].pc = "refreshing" /\ tokenCalls'[u] = tokenCalls[u]
             /\ tokenCalls[u].connection \in Connections /\ tokenCalls[u].connection # conn
      BY <1>1, <1>7, NoCallThere DEF OauthInvariant, PairsApart
    <3>5. \A u \in TokenCalls : tokenCalls'[u].pc = "refreshing" =>
             tokenCalls'[u].pair = connections'[tokenCalls'[u].connection].current
      BY <1>1, <1>5, <2>2, <3>4 DEF OauthInvariant, RotatedOnce
    <3>6. \A u, v \in TokenCalls :
             /\ tokenCalls'[u].pc = "refreshing" /\ tokenCalls'[v].pc = "refreshing"
             /\ tokenCalls'[u].connection = tokenCalls'[v].connection
             => u = v
      BY <1>1, <2>2, <3>4 DEF OauthInvariant, RotatedOnce
    <3> QED BY <3>1, <3>3, <3>5, <3>6
  <2> QED BY <2>1, <2>2 DEF RotatedOnce
<1> QED BY <1>8, <1>9, <1>10, <1>11 DEF OauthInvariant

(* A refresh waits: if one of the same pair does already, the two race.     *)
LEMMA BeginRefreshStep ==
    ASSUME OauthInvariant, NEW t \in TokenCalls, NEW conn \in Connections, NEW pair \in 1 .. minted,
           BeginRefresh(t, conn, pair)
    PROVE  OauthInvariant'
<1>1. PICK r : r = [NoTokenCall EXCEPT !.pc = "refreshing", !.connection = conn, !.pair = pair]
  OBVIOUS
<1>2. minted \in Nat /\ pair \in Nat
  BY DEF OauthInvariant, OauthTables
<1>3. r \in TokenCallSet /\ r.pc = "refreshing" /\ r.connection = conn /\ r.pair = pair
  BY <1>1, <1>2 DEF NoTokenCall, TokenCallSet
<1>4. /\ connections[conn].state = "open" /\ connections[conn].current = pair
      /\ raced' = (raced \/ Refreshing(conn, pair) # {})
      /\ tokenCalls' = [tokenCalls EXCEPT ![t] = r]
      /\ UNCHANGED <<codes, connections, minted, made, rotated>>
  BY <1>1 DEF BeginRefresh
<1>5. /\ tokenCalls' \in [TokenCalls -> TokenCallSet]
      /\ \A u \in TokenCalls : tokenCalls'[u] = IF u = t THEN r ELSE tokenCalls[u]
  BY <1>3, <1>4 DEF OauthInvariant, OauthTables
<1>6. raced' \in BOOLEAN
  BY <1>4 DEF OauthInvariant, OauthTables
<1>7. OauthTables'
  BY <1>4, <1>5, <1>6 DEF OauthInvariant, OauthTables, Pairs
<1>8. CodesSpent'
  BY <1>3, <1>4, <1>5 DEF OauthInvariant, CodesSpent
<1>9. PairsApart'
  BY <1>3, <1>4, <1>5 DEF OauthInvariant, PairsApart
<1>10. RotatedOnce'
  <2>1. CASE raced'
    BY <1>4, <2>1 DEF OauthInvariant, RotatedOnce, Pairs
  <2>2. CASE ~raced'
    <3>1. ~raced /\ Refreshing(conn, pair) = {}
      BY <1>4, <2>2
    <3>2. \A u \in TokenCalls : tokenCalls[u].pc = "refreshing" => tokenCalls[u].connection # conn
      BY <1>4, <3>1 DEF OauthInvariant, RotatedOnce, Refreshing
    <3> QED BY <1>3, <1>4, <1>5, <3>1, <3>2 DEF OauthInvariant, RotatedOnce, Pairs
  <2> QED BY <2>1, <2>2
<1> QED BY <1>7, <1>8, <1>9, <1>10 DEF OauthInvariant

(* The rotation.                                                            *)
LEMMA FinishRefreshStep ==
    ASSUME OauthInvariant, NEW t \in TokenCalls, FinishRefresh(t)
    PROVE  OauthInvariant'
<1>1. PICK conn : conn = tokenCalls[t].connection
  OBVIOUS
<1>2. PICK pair : pair = tokenCalls[t].pair
  OBVIOUS
<1>3. /\ conn \in Connections /\ pair \in 1 .. minted /\ connections[conn].state = "open"
      /\ minted' = minted + 1 /\ minted < MaxPairs
      /\ rotated' = [rotated EXCEPT ![pair] = @ + 1]
      /\ tokenCalls' = [tokenCalls EXCEPT ![t] = NoTokenCall]
      /\ UNCHANGED <<codes, made, raced>>
      /\ tokenCalls[t].pc = "refreshing"
  BY <1>1, <1>2 DEF FinishRefresh, Mint, OauthInvariant, PairsApart
<1>4. /\ connections \in [Connections -> ConnectionRow] /\ rotated \in [Pairs -> Nat]
      /\ tokenCalls \in [TokenCalls -> TokenCallSet] /\ minted \in Nat
  BY DEF OauthInvariant, OauthTables
<1>5. pair \in Pairs /\ pair \in Nat /\ pair <= minted /\ minted + 1 \in Pairs /\ minted' \in Nat
      /\ minted' <= MaxPairs
  BY <1>3, <1>4, OauthAssumption DEF Pairs
<1>6. PICK row \in ConnectionRow : /\ row.state = "open" /\ row.current = minted + 1 /\ row.previous = pair
                                   /\ connections' = [connections EXCEPT ![conn] = row]
  <2>1. PICK next : next = minted + 1
    OBVIOUS
  <2>2. PICK row : row = [connections[conn] EXCEPT !.current = next, !.previous = pair]
    OBVIOUS
  <2>3. connections[conn] \in ConnectionRow /\ next \in Nat
    BY <1>3, <1>4, <2>1
  <2>4. row \in ConnectionRow /\ row.state = "open" /\ row.current = next /\ row.previous = pair
    BY <1>3, <1>5, <2>2, <2>3 DEF ConnectionRow
  <2>5. connections' = [connections EXCEPT ![conn] = row]
    BY <1>1, <1>2, <2>1, <2>2 DEF FinishRefresh
  <2> QED BY <2>1, <2>4, <2>5
<1>7. /\ connections' \in [Connections -> ConnectionRow]
      /\ \A c \in Connections : connections'[c] = IF c = conn THEN row ELSE connections[c]
  BY <1>4, <1>6
<1>8. /\ rotated' \in [Pairs -> Nat]
      /\ \A p \in Pairs : rotated'[p] = IF p = pair THEN rotated[p] + 1 ELSE rotated[p]
  BY <1>3, <1>4, <1>5 DEF Pairs
<1>9. /\ tokenCalls' \in [TokenCalls -> TokenCallSet]
      /\ \A u \in TokenCalls : tokenCalls'[u] = IF u = t THEN NoTokenCall ELSE tokenCalls[u]
  BY <1>3, <1>4, NoCallThere
<1>10. OauthTables'
  BY <1>3, <1>5, <1>7, <1>8, <1>9 DEF OauthInvariant, OauthTables, Pairs
<1>11. CodesSpent'
  BY <1>3, <1>9, NoCallThere DEF OauthInvariant, CodesSpent
<1>12. PairsApart'
  <2>1. \A c \in Connections : connections[c].current \in Nat /\ connections[c].current <= minted
           /\ connections[c].previous \in Nat /\ connections[c].previous <= minted
    BY <1>4 DEF OauthInvariant, PairsApart, ConnectionRow
  <2>2. \A c \in Connections : /\ connections'[c].current <= minted'
                               /\ connections'[c].previous <= minted'
                               /\ connections'[c].state # "none" => connections'[c].current > 0
    BY <1>3, <1>4, <1>5, <1>6, <1>7, <2>1 DEF OauthInvariant, PairsApart
  <2>3. ASSUME NEW c \in Connections, NEW d \in Connections, connections'[c].state # "none",
               connections'[c].current = connections'[d].current
        PROVE  c = d
    BY <1>3, <1>4, <1>6, <1>7, <2>1, <2>3 DEF OauthInvariant, PairsApart
  <2>4. ASSUME NEW u \in TokenCalls, tokenCalls'[u].pc = "refreshing"
        PROVE  /\ tokenCalls'[u].connection \in Connections /\ tokenCalls'[u].pair \in 1 .. minted'
               /\ connections'[tokenCalls'[u].connection].state # "none"
    <3>1. tokenCalls'[u] = tokenCalls[u]
      BY <1>9, <2>4, NoCallThere
    <3>2. /\ tokenCalls[u].connection \in Connections /\ tokenCalls[u].pair \in 1 .. minted
          /\ connections[tokenCalls[u].connection].state # "none"
      BY <2>4, <3>1 DEF OauthInvariant, PairsApart
    <3>3. \A n \in 1 .. minted : n \in 1 .. minted'
      BY <1>3, <1>4
    <3>4. tokenCalls'[u].pair \in 1 .. minted'
      BY <3>1, <3>2, <3>3
    <3>5. \A c \in Connections : connections[c].state # "none" => connections'[c].state # "none"
      BY <1>6, <1>7
    <3>6. PICK c : c = tokenCalls[u].connection
      OBVIOUS
    <3>7. c \in Connections /\ connections'[c].state # "none"
      BY <3>2, <3>5, <3>6
    <3> QED BY <3>1, <3>4, <3>6, <3>7
  <2>5. \A c, d \in Connections :
           connections'[c].state # "none" /\ connections'[c].current = connections'[d].current => c = d
    BY <2>3
  <2>6. \A u \in TokenCalls : tokenCalls'[u].pc = "refreshing" =>
           /\ tokenCalls'[u].connection \in Connections /\ tokenCalls'[u].pair \in 1 .. minted'
           /\ connections'[tokenCalls'[u].connection].state # "none"
    BY <2>4
  <2> QED BY <2>2, <2>5, <2>6 DEF PairsApart
<1>13. RotatedOnce'
  <2>1. \A p \in Pairs : p > minted' => rotated'[p] = 0
    BY <1>3, <1>4, <1>5, <1>8 DEF OauthInvariant, RotatedOnce, Pairs
  <2>2. ASSUME ~raced'
        PROVE  /\ \A p \in Pairs : rotated'[p] <= 1
               /\ \A c \in Connections : connections'[c].state # "none" => rotated'[connections'[c].current] = 0
               /\ \A u \in TokenCalls : tokenCalls'[u].pc = "refreshing" =>
                     tokenCalls'[u].pair = connections'[tokenCalls'[u].connection].current
               /\ \A u, v \in TokenCalls :
                     /\ tokenCalls'[u].pc = "refreshing" /\ tokenCalls'[v].pc = "refreshing"
                     /\ tokenCalls'[u].connection = tokenCalls'[v].connection
                     => u = v
    <3>0. /\ ~raced
          /\ \A p \in Pairs : rotated[p] <= 1
          /\ \A c \in Connections : connections[c].state # "none" => rotated[connections[c].current] = 0
          /\ \A u \in TokenCalls : tokenCalls[u].pc = "refreshing" =>
                tokenCalls[u].pair = connections[tokenCalls[u].connection].current
          /\ \A u, v \in TokenCalls :
                /\ tokenCalls[u].pc = "refreshing" /\ tokenCalls[v].pc = "refreshing"
                /\ tokenCalls[u].connection = tokenCalls[v].connection
                => u = v
      BY <1>3, <2>2 DEF OauthInvariant, RotatedOnce
    <3>1. connections[conn].current = pair /\ rotated[pair] = 0
      BY <1>1, <1>2, <1>3, <3>0
    <3>2. \A p \in Pairs : rotated'[p] <= 1
      BY <1>8, <3>0, <3>1
    <3>3. rotated'[minted + 1] = 0
      BY <1>4, <1>5, <1>8 DEF OauthInvariant, RotatedOnce
    <3>4. ASSUME NEW c \in Connections, connections'[c].state # "none"
          PROVE  rotated'[connections'[c].current] = 0
      <4>1. CASE c = conn
        BY <1>6, <1>7, <3>3, <4>1
      <4>2. CASE c # conn
        <5>1. connections'[c] = connections[c] /\ connections[c].state # "none"
          BY <1>7, <3>4, <4>2
        <5>2. /\ connections[c].current \in 1 .. minted /\ connections[c].current # pair
          BY <1>3, <1>4, <3>1, <4>2, <5>1 DEF OauthInvariant, PairsApart, ConnectionRow
        <5>3. connections[c].current \in Pairs
          BY <1>3, <1>4, <5>2, OauthAssumption DEF Pairs
        <5> QED BY <1>8, <3>0, <5>1, <5>2, <5>3
      <4> QED BY <4>1, <4>2
    <3>5. \A u \in TokenCalls : tokenCalls'[u].pc = "refreshing" =>
             /\ tokenCalls[u].pc = "refreshing" /\ tokenCalls'[u] = tokenCalls[u]
             /\ tokenCalls[u].connection \in Connections /\ tokenCalls[u].connection # conn
      BY <1>1, <1>3, <1>9, <3>0, NoCallThere DEF OauthInvariant, PairsApart
    <3>6. \A u \in TokenCalls : tokenCalls'[u].pc = "refreshing" =>
             tokenCalls'[u].pair = connections'[tokenCalls'[u].connection].current
      BY <1>7, <3>0, <3>5
    <3>7. \A u, v \in TokenCalls :
             /\ tokenCalls'[u].pc = "refreshing" /\ tokenCalls'[v].pc = "refreshing"
             /\ tokenCalls'[u].connection = tokenCalls'[v].connection
             => u = v
      BY <3>0, <3>5
    <3> QED BY <3>2, <3>4, <3>6, <3>7
  <2> QED BY <2>1, <2>2 DEF RotatedOnce
<1> QED BY <1>10, <1>11, <1>12, <1>13 DEF OauthInvariant

LEMMA ConnectionRevoked ==
    ASSUME OauthInvariant, NEW conn \in Connections,
           Disconnect(conn) \/ \E pair \in 1 .. minted : Replay(conn, pair) \/ RevokeToken(conn, pair)
    PROVE  OauthInvariant'
<1>1. /\ connections' = [connections EXCEPT ![conn].state = "revoked"]
      /\ connections[conn].state = "open"
      /\ UNCHANGED <<codes, tokenCalls, minted, made, rotated, raced>>
  BY DEF Disconnect, Replay, RevokeToken
<1>2. connections \in [Connections -> ConnectionRow]
  BY DEF OauthInvariant, OauthTables
<1>3. /\ connections' \in [Connections -> ConnectionRow]
      /\ \A c \in Connections : /\ connections'[c].current = connections[c].current
                                /\ connections'[c].previous = connections[c].previous
                                /\ connections'[c].state = "none" <=> connections[c].state = "none"
  BY <1>1, <1>2 DEF ConnectionRow
<1>4. OauthTables'
  BY <1>1, <1>3 DEF OauthInvariant, OauthTables, Pairs
<1>5. CodesSpent' /\ PairsApart'
  BY <1>1, <1>3 DEF OauthInvariant, CodesSpent, PairsApart
<1>6. RotatedOnce'
  BY <1>1, <1>3 DEF OauthInvariant, RotatedOnce, PairsApart, Pairs
<1> QED BY <1>4, <1>5, <1>6 DEF OauthInvariant

LEMMA OauthStep == OauthInvariant /\ OauthNext => OauthInvariant'
BY CodesMove, ExchangeWaits, FinishExchangeStep, BeginRefreshStep, FinishRefreshStep, ConnectionRevoked
   DEF OauthNext

(* What a step leaves of a connection.                                      *)
ConnectionsKept ==
    \A c \in Connections :
        /\ connections[c].state = "revoked" => connections'[c] = connections[c]
        /\ connections[c].state = "open" => connections'[c].member = connections[c].member

LEMMA OauthKeeps == OauthInvariant /\ OauthNext => ConnectionsKept
<1> SUFFICES ASSUME OauthInvariant, OauthNext PROVE ConnectionsKept
  OBVIOUS
<1>0. connections \in [Connections -> ConnectionRow]
  BY DEF OauthInvariant, OauthTables
<1>1. CASE UNCHANGED connections
  BY <1>1 DEF ConnectionsKept
<1>2. ASSUME NEW t \in TokenCalls, NEW conn \in Connections, FinishExchange(t, conn)
      PROVE  ConnectionsKept
  BY <1>0, <1>2 DEF FinishExchange, ConnectionsKept
<1>3. ASSUME NEW t \in TokenCalls, FinishRefresh(t)
      PROVE  ConnectionsKept
  <2>1. tokenCalls[t].connection \in Connections /\ connections[tokenCalls[t].connection].state = "open"
    BY <1>3 DEF FinishRefresh, OauthInvariant, PairsApart
  <2> QED BY <1>0, <1>3, <2>1 DEF FinishRefresh, ConnectionsKept, ConnectionRow
<1>4. ASSUME NEW conn \in Connections, connections[conn].state = "open",
             connections' = [connections EXCEPT ![conn].state = "revoked"]
      PROVE  ConnectionsKept
  BY <1>0, <1>4 DEF ConnectionsKept, ConnectionRow
<1> QED BY Zenon, <1>1, <1>2, <1>3, <1>4
        DEF OauthNext, Authorize, BeginExchange, LapseCode, Verified, ExchangeRefused, RefreshRefused,
            Disconnect, Replay, RevokeToken, BeginRefresh

-----------------------------------------------------------------------------
(* What was bought. *)

EventRow == [second : Nat, size : Sizes]
SubscriptionRow == [size : Sizes, version : Nat, updated : Nat]
ChangeRow == [size : Sizes, status : {"pending", "superseded", "expired", "submitted"}, handed : Nat]
AcceptSet == [pc : {"idle", "unseen", "stale", "newer"}, event : Nat, at : Nat]
ProjectionSet == [pc : {"idle", "read"}, of : SubscriptionRow]
PurchaseSet == [pc : {"idle", "asked", "checkout"}, size : Sizes, change : Nat]

BillingTables ==
    /\ clock \in Nat
    /\ events \in Seq(EventRow) /\ subscription \in SubscriptionRow
    /\ DOMAIN receipts \subseteq DOMAIN events
    /\ accepting \in [Deliveries -> AcceptSet]
    /\ allowance \in [quota : Nat, version : Nat]
    /\ projecting \in [Projectors -> ProjectionSet]
    /\ changes \in Seq(ChangeRow) /\ buying \in [Buyers -> PurchaseSet]
    /\ disordered \in BOOLEAN /\ projected \in BOOLEAN

(* The row says what the newest event that was applied says.                *)
EventsApplied ==
    /\ \A d \in Deliveries : accepting[d].pc # "idle" => accepting[d].event \in DOMAIN events
    /\ \A e \in Applied : events[e].second <= subscription.version
    /\ subscription.version > 0 =>
          \E e \in Applied : /\ events[e].second = subscription.version
                             /\ events[e].size = subscription.size

(* While its moment advances with each of its changes, the moment names the *)
(* row: what was read or projected at the same moment is the row as it is.  *)
MomentsName ==
    ~disordered =>
        /\ allowance.version <= subscription.updated
        /\ allowance.version = subscription.updated => allowance.quota = Quota(subscription.size)
        /\ projected => allowance.version = subscription.updated
        /\ \A e \in Projectors : projecting[e].pc = "read" =>
              /\ projecting[e].of.updated <= subscription.updated
              /\ projecting[e].of.updated = subscription.updated => projecting[e].of = subscription

(* One change waits, and it has not been handed out.                        *)
OneChangeWaits ==
    /\ \A k, l \in DOMAIN changes :
          changes[k].status = "pending" /\ changes[l].status = "pending" => k = l
    /\ \A k \in DOMAIN changes : /\ changes[k].handed <= 1
                                 /\ changes[k].status = "pending" => changes[k].handed = 0
    /\ \A b \in Buyers : buying[b].pc = "checkout" => buying[b].change \in DOMAIN changes

BillingInvariant == BillingTables /\ EventsApplied /\ MomentsName /\ OneChangeWaits

LEMMA BillingIsHeld == BillingInvariant => BillingHolds
<1> SUFFICES ASSUME BillingInvariant PROVE BillingHolds
  OBVIOUS
<1>1. projected /\ ~disordered => allowance.quota = Quota(subscription.size)
  BY DEF BillingInvariant, MomentsName
<1>2. Cardinality({k \in DOMAIN changes : changes[k].status = "pending"}) <= 1
  <2> DEFINE Waiting == {k \in DOMAIN changes : changes[k].status = "pending"}
  <2>1. CASE Waiting = {}
    <3>1. Cardinality({}) = 0
      BY FS_EmptySet
    <3> QED BY <2>1, <3>1
  <2>2. CASE Waiting # {}
    <3>1. PICK k \in Waiting : TRUE
      BY <2>2
    <3>2. Waiting = {k}
      BY <3>1 DEF BillingInvariant, OneChangeWaits
    <3>3. Cardinality({k}) = 1
      BY FS_Singleton
    <3> QED BY <3>2, <3>3
  <2> QED BY <2>1, <2>2
<1> QED BY <1>1, <1>2 DEF BillingHolds, BillingInvariant, EventsApplied, OneChangeWaits

LEMMA BillingStart == BillingInit => BillingInvariant
<1> SUFFICES ASSUME BillingInit PROVE BillingInvariant
  OBVIOUS
<1>1. BillingTables
  <2>1. NoAccept \in AcceptSet /\ NoProjection \in ProjectionSet /\ NoPurchase \in PurchaseSet
    BY DEF AcceptSet, ProjectionSet, PurchaseSet, SubscriptionRow, Sizes, NoAccept, NoProjection, NoPurchase
  <2>2. subscription \in SubscriptionRow /\ clock \in Nat /\ allowance \in [quota : Nat, version : Nat]
    BY DEF BillingInit, SubscriptionRow, Sizes, First
  <2>3. events \in Seq(EventRow) /\ changes \in Seq(ChangeRow) /\ DOMAIN receipts = {}
    BY EmptySeq DEF BillingInit
  <2>4. disordered \in BOOLEAN /\ projected \in BOOLEAN
    BY DEF BillingInit
  <2> QED BY <2>1, <2>2, <2>3, <2>4 DEF BillingInit, BillingTables
<1>2. EventsApplied
  BY DEF BillingInit, EventsApplied, Applied, NoAccept
<1>3. MomentsName
  BY DEF BillingInit, MomentsName, NoProjection
<1>4. OneChangeWaits
  BY DEF BillingInit, OneChangeWaits, NoPurchase
<1> QED BY <1>1, <1>2, <1>3, <1>4 DEF BillingInvariant

(* The bounds do not matter to it.                                          *)
billingRows == <<clock, events, subscription, receipts, accepting, allowance, projecting,
                 changes, buying, disordered, projected>>

LEMMA BillingStutter == BillingInvariant /\ UNCHANGED billingRows => BillingInvariant'
BY DEF BillingInvariant, BillingTables, EventsApplied, MomentsName, OneChangeWaits, Applied, billingRows

LEMMA TickHolds == BillingInvariant /\ Tick => BillingInvariant'
BY DEF BillingInvariant, BillingTables, EventsApplied, MomentsName, OneChangeWaits, Applied, Tick

-----------------------------------------------------------------------------
(* Events. *)

LEMMA ProviderSaysHolds ==
    ASSUME BillingInvariant, NEW size \in Sizes, ProviderSays(size)
    PROVE  BillingInvariant'
<1> DEFINE row == [second |-> Second, size |-> size]
<1>1. clock \in Nat /\ events \in Seq(EventRow) /\ row \in EventRow
  BY DEF BillingInvariant, BillingTables, EventRow, Second
<1>2. events' = Append(events, row)
  BY DEF ProviderSays
<1>3. /\ events' \in Seq(EventRow) /\ DOMAIN events \subseteq DOMAIN events'
      /\ \A e \in DOMAIN events : events'[e] = events[e]
  BY <1>1, <1>2
<1>4. BillingTables'
  BY <1>3 DEF ProviderSays, BillingInvariant, BillingTables
<1>5. EventsApplied'
  <2>1. Applied' = Applied /\ Applied \subseteq DOMAIN events
    BY DEF ProviderSays, Applied, BillingInvariant, BillingTables
  <2> QED BY <1>3, <2>1 DEF ProviderSays, BillingInvariant, EventsApplied
<1>6. MomentsName' /\ OneChangeWaits'
  BY DEF ProviderSays, BillingInvariant, MomentsName, OneChangeWaits
<1> QED BY <1>4, <1>5, <1>6 DEF BillingInvariant

(* A request that reads, or ends without a statement.                       *)
LEMMA AcceptingMoves ==
    ASSUME BillingInvariant, NEW d \in Deliveries, NEW r \in AcceptSet,
           r.pc # "idle" => r.event \in DOMAIN events,
           accepting' = [accepting EXCEPT ![d] = r],
           UNCHANGED <<clock, events, subscription, receipts, allowance, projecting, changes, buying,
                       disordered, projected>>
    PROVE  BillingInvariant'
<1>1. BillingTables'
  BY DEF BillingInvariant, BillingTables
<1>2. EventsApplied'
  BY DEF BillingInvariant, BillingTables, EventsApplied, Applied
<1>3. MomentsName' /\ OneChangeWaits'
  BY DEF BillingInvariant, MomentsName, OneChangeWaits
<1> QED BY <1>1, <1>2, <1>3 DEF BillingInvariant

LEMMA AcceptingReads ==
    ASSUME BillingInvariant, NEW d \in Deliveries,
           \/ \E e \in DOMAIN events : BeginAccepting(d, e)
           \/ ReadVersion(d) \/ LoseAccepting(d)
    PROVE  BillingInvariant'
<1>0. /\ clock \in Nat /\ events \in Seq(EventRow) /\ accepting \in [Deliveries -> AcceptSet]
      /\ accepting[d] \in AcceptSet
      /\ accepting[d].pc # "idle" => accepting[d].event \in DOMAIN events
  BY DEF BillingInvariant, BillingTables, EventsApplied
<1>1. ASSUME NEW e \in DOMAIN events, BeginAccepting(d, e) PROVE BillingInvariant'
  <2>1. [pc |-> "unseen", event |-> e, at |-> clock] \in AcceptSet
    BY <1>0 DEF AcceptSet
  <2> QED BY <1>1, <2>1, AcceptingMoves DEF BeginAccepting
<1>2. CASE ReadVersion(d)
  <2>1. PICK pc \in {"stale", "newer"} : accepting' = [accepting EXCEPT ![d].pc = pc]
    BY <1>2 DEF ReadVersion
  <2>2. PICK r : r = [accepting[d] EXCEPT !.pc = pc]
    OBVIOUS
  <2>3. r \in AcceptSet /\ r.event = accepting[d].event
    BY <1>0, <2>2 DEF AcceptSet
  <2>4. accepting' = [accepting EXCEPT ![d] = r]
    BY <2>1, <2>2
  <2> QED BY <1>0, <1>2, <2>3, <2>4, AcceptingMoves DEF ReadVersion
<1>3. CASE LoseAccepting(d)
  <2>1. NoAccept \in AcceptSet /\ NoAccept.pc = "idle"
    BY DEF AcceptSet, NoAccept
  <2> QED BY <1>3, <2>1, AcceptingMoves DEF LoseAccepting
<1> QED BY <1>1, <1>2, <1>3

(* The last statement of a request: what it had read is an event that was   *)
(* said, and the receipts there were stay as they are.                      *)
LEMMA Disposed ==
    ASSUME BillingInvariant, NEW d \in Deliveries, NEW pc \in {"stale", "newer"},
           NEW disposition \in {"stale", "applied"}, Dispose(d, pc, disposition)
    PROVE  /\ accepting[d].event \in DOMAIN events /\ accepting[d].at \in Nat
           /\ accepting' \in [Deliveries -> AcceptSet]
           /\ \A o \in Deliveries : accepting'[o].pc # "idle" => accepting'[o].event \in DOMAIN events
           /\ DOMAIN receipts' \subseteq DOMAIN events
           /\ Applied' = IF disposition = "applied" /\ accepting[d].event \notin DOMAIN receipts
                         THEN Applied \cup {accepting[d].event} ELSE Applied
           /\ UNCHANGED <<clock, events, allowance, projecting, changes, buying>>
<1>0. /\ accepting \in [Deliveries -> AcceptSet] /\ DOMAIN receipts \subseteq DOMAIN events
      /\ \A o \in Deliveries : accepting[o].pc # "idle" => accepting[o].event \in DOMAIN events
  BY DEF BillingInvariant, BillingTables, EventsApplied
<1>1. accepting[d].event \in DOMAIN events /\ accepting[d].at \in Nat
  BY <1>0 DEF Dispose, AcceptSet
<1>2. accepting' = [accepting EXCEPT ![d] = NoAccept] /\ NoAccept \in AcceptSet /\ NoAccept.pc = "idle"
  BY DEF Dispose, NoAccept, AcceptSet
<1>3. receipts' = [e \in DOMAIN receipts \cup {accepting[d].event} |->
          IF e \in DOMAIN receipts THEN receipts[e] ELSE disposition]
  BY DEF Dispose
<1>4. Applied' = IF disposition = "applied" /\ accepting[d].event \notin DOMAIN receipts
                 THEN Applied \cup {accepting[d].event} ELSE Applied
  BY <1>3 DEF Applied
<1>5. DOMAIN receipts' \subseteq DOMAIN events
  BY <1>0, <1>1, <1>3
<1>6. /\ accepting' \in [Deliveries -> AcceptSet]
      /\ \A o \in Deliveries : accepting'[o].pc # "idle" => accepting'[o].event \in DOMAIN events
  BY <1>0, <1>2
<1> QED BY <1>1, <1>4, <1>5, <1>6 DEF Dispose

LEMMA RecordStaleHolds ==
    ASSUME BillingInvariant, NEW d \in Deliveries, RecordStale(d)
    PROVE  BillingInvariant'
<1>1. Dispose(d, "stale", "stale") /\ UNCHANGED <<subscription, disordered, projected>>
  BY DEF RecordStale
<1>2. /\ accepting' \in [Deliveries -> AcceptSet] /\ DOMAIN receipts' \subseteq DOMAIN events
      /\ \A o \in Deliveries : accepting'[o].pc # "idle" => accepting'[o].event \in DOMAIN events
      /\ Applied' = Applied
      /\ UNCHANGED <<clock, events, allowance, projecting, changes, buying>>
  BY <1>1, Disposed
<1>3. BillingTables'
  BY <1>1, <1>2 DEF BillingInvariant, BillingTables
<1>4. EventsApplied'
  BY <1>1, <1>2 DEF BillingInvariant, EventsApplied
<1>5. MomentsName' /\ OneChangeWaits'
  BY <1>1, <1>2 DEF BillingInvariant, MomentsName, OneChangeWaits
<1> QED BY <1>3, <1>4, <1>5 DEF BillingInvariant

LEMMA ApplyEventHolds ==
    ASSUME BillingInvariant, NEW d \in Deliveries, ApplyEvent(d)
    PROVE  BillingInvariant'
<1>1. PICK e, event, at :
          /\ e = accepting[d].event /\ event = events[e] /\ at = accepting[d].at
  OBVIOUS
<1>2. /\ e \in DOMAIN events /\ at \in Nat
      /\ accepting' \in [Deliveries -> AcceptSet] /\ DOMAIN receipts' \subseteq DOMAIN events
      /\ \A o \in Deliveries : accepting'[o].pc # "idle" => accepting'[o].event \in DOMAIN events
      /\ Applied' = IF e \notin DOMAIN receipts THEN Applied \cup {e} ELSE Applied
      /\ UNCHANGED <<clock, events, allowance, projecting, changes, buying>>
  BY <1>1, Disposed DEF ApplyEvent
<1>3. /\ events \in Seq(EventRow) /\ subscription \in SubscriptionRow
      /\ disordered \in BOOLEAN /\ projected \in BOOLEAN
  BY DEF BillingInvariant, BillingTables
<1>4. event \in EventRow
  BY <1>1, <1>2, <1>3
<1>5. subscription.version \in Nat /\ event.second \in Nat /\ event.size \in Sizes
      /\ subscription.updated \in Nat
  BY <1>3, <1>4 DEF EventRow, SubscriptionRow
<1>6. OneChangeWaits'
  BY <1>2 DEF BillingInvariant, OneChangeWaits
<1>7. CASE e \notin DOMAIN receipts /\ subscription.version < event.second
  <2>1. subscription' = [size |-> event.size, version |-> event.second, updated |-> at]
    BY <1>1, <1>7 DEF ApplyEvent
  <2>2. disordered' = (disordered \/ at <= subscription.updated)
    BY <1>1, <1>7 DEF ApplyEvent
  <2>3. projected' = (projected /\ subscription' = subscription)
    BY DEF ApplyEvent
  <2>4. subscription' \in SubscriptionRow /\ disordered' \in BOOLEAN /\ projected' \in BOOLEAN
    BY <1>2, <1>5, <2>1, <2>2, <2>3 DEF SubscriptionRow
  <2>5. BillingTables'
    BY <1>2, <2>4 DEF BillingInvariant, BillingTables
  <2>6. EventsApplied'
    <3>1. \A o \in Applied' : events[o].second <= subscription'.version
      <4>1. \A o \in Applied : o \in DOMAIN events /\ events[o].second \in Nat
                                /\ events[o].second <= subscription.version
        <5>1. \A o \in DOMAIN events : events[o] \in EventRow
          BY <1>3
        <5> QED BY <5>1 DEF BillingInvariant, BillingTables, EventsApplied, Applied, EventRow
      <4> QED BY <1>1, <1>2, <1>5, <1>7, <2>1, <4>1
    <3>2. \E o \in Applied' : /\ events[o].second = subscription'.version
                              /\ events[o].size = subscription'.size
      <4>1. e \in Applied'
        BY <1>2, <1>7
      <4> QED BY <1>1, <2>1, <4>1
    <3> QED BY <1>2, <3>1, <3>2 DEF EventsApplied
  <2>7. MomentsName'
    <3> SUFFICES ASSUME ~disordered' PROVE MomentsName'
      BY DEF MomentsName
    <3>1. ~disordered /\ subscription.updated < at
      <4>1. ~disordered /\ ~(at <= subscription.updated)
        BY <2>2, Zenon
      <4> QED BY <1>2, <1>5, <4>1
    <3>2. subscription'.updated = at /\ ~projected'
      <4>1. subscription'.updated = at
        BY <2>1
      <4>2. subscription' # subscription
        BY <1>2, <1>5, <3>1, <4>1
      <4> QED BY <2>3, <4>1, <4>2, Zenon
    <3>3. allowance.version \in Nat
      BY DEF BillingInvariant, BillingTables
    <3>4. \A o \in Projectors : projecting[o].of.updated \in Nat
      BY DEF BillingInvariant, BillingTables, ProjectionSet, SubscriptionRow
    <3>5. allowance.version < at
      BY <1>2, <1>5, <3>1, <3>3 DEF BillingInvariant, MomentsName
    <3>6. \A o \in Projectors : projecting[o].pc = "read" => projecting[o].of.updated < at
      BY <1>2, <1>5, <3>1, <3>4 DEF BillingInvariant, MomentsName
    <3> QED BY <1>2, <3>2, <3>3, <3>4, <3>5, <3>6 DEF MomentsName
  <2> QED BY <1>6, <2>5, <2>6, <2>7 DEF BillingInvariant
<1>8. CASE ~(e \notin DOMAIN receipts /\ subscription.version < event.second)
  <2>1. UNCHANGED <<subscription, disordered, projected>>
    <3>1. subscription' = subscription
      BY <1>1, <1>8 DEF ApplyEvent
    <3>2. disordered' = disordered
      BY <1>1, <1>3, <1>8 DEF ApplyEvent
    <3>3. projected' = (projected /\ subscription' = subscription)
      BY DEF ApplyEvent
    <3> QED BY <1>3, <3>1, <3>2, <3>3
  <2>2. BillingTables'
    BY <1>2, <2>1 DEF BillingInvariant, BillingTables
  <2>3. EventsApplied'
    <3>1. \A o \in Applied' : events[o].second <= subscription.version
      BY <1>1, <1>2, <1>5, <1>8 DEF BillingInvariant, EventsApplied
    <3>2. Applied \subseteq Applied'
      BY <1>2
    <3> QED BY <1>2, <2>1, <3>1, <3>2 DEF BillingInvariant, EventsApplied
  <2>4. MomentsName'
    BY <1>2, <2>1 DEF BillingInvariant, MomentsName
  <2> QED BY <1>6, <2>2, <2>3, <2>4 DEF BillingInvariant
<1> QED BY <1>7, <1>8

LEMMA EventStepHolds == BillingInvariant /\ EventStep => BillingInvariant'
BY ProviderSaysHolds, AcceptingReads, RecordStaleHolds, ApplyEventHolds DEF EventStep

-----------------------------------------------------------------------------
(* The allowance. *)

LEMMA ProjectingMoves ==
    ASSUME BillingInvariant, NEW e \in Projectors, NEW r \in ProjectionSet,
           r.pc = "read" => r.of = subscription,
           projecting' = [projecting EXCEPT ![e] = r],
           UNCHANGED <<clock, events, subscription, receipts, accepting, allowance, changes, buying,
                       disordered, projected>>
    PROVE  BillingInvariant'
<1>1. BillingTables'
  BY DEF BillingInvariant, BillingTables
<1>2. EventsApplied' /\ OneChangeWaits'
  BY DEF BillingInvariant, EventsApplied, OneChangeWaits, Applied
<1>3. MomentsName'
  <2>1. projecting \in [Projectors -> ProjectionSet] /\ subscription.updated \in Nat
    BY DEF BillingInvariant, BillingTables, SubscriptionRow
  <2> QED BY <2>1 DEF BillingInvariant, MomentsName
<1> QED BY <1>1, <1>2, <1>3 DEF BillingInvariant

LEMMA ApplyStorageHolds ==
    ASSUME BillingInvariant, NEW e \in Projectors, ApplyStorageEntitlement(e)
    PROVE  BillingInvariant'
<1>1. PICK row : row = projecting[e].of
  OBVIOUS
<1>2. /\ projecting[e].pc = "read" /\ projecting' = [projecting EXCEPT ![e] = NoProjection]
      /\ allowance' = IF allowance.version >= row.updated THEN allowance
                      ELSE [quota |-> Quota(row.size), version |-> row.updated]
      /\ projected' = (projected \/ row = subscription)
      /\ UNCHANGED <<clock, events, subscription, receipts, accepting, changes, buying, disordered>>
  BY <1>1 DEF ApplyStorageEntitlement
<1>3. /\ projecting \in [Projectors -> ProjectionSet] /\ row \in SubscriptionRow
      /\ allowance \in [quota : Nat, version : Nat] /\ subscription \in SubscriptionRow
      /\ projected \in BOOLEAN
  BY <1>1 DEF BillingInvariant, BillingTables, ProjectionSet
<1>4. /\ row.updated \in Nat /\ Quota(row.size) \in Nat /\ allowance.version \in Nat
      /\ subscription.updated \in Nat
  BY <1>3 DEF SubscriptionRow, Quota, Sizes
<1>5. NoProjection \in ProjectionSet /\ NoProjection.pc = "idle"
  BY DEF NoProjection, ProjectionSet, SubscriptionRow, Sizes
<1>6. projected' \in BOOLEAN
  BY <1>2, <1>3
<1>7. BillingTables'
  <2>1. allowance' \in [quota : Nat, version : Nat]
    BY <1>2, <1>3, <1>4
  <2>2. projecting' \in [Projectors -> ProjectionSet]
    BY <1>2, <1>3, <1>5
  <2> QED BY <1>2, <1>6, <2>1, <2>2 DEF BillingInvariant, BillingTables
<1>8. EventsApplied' /\ OneChangeWaits'
  BY <1>2 DEF BillingInvariant, EventsApplied, OneChangeWaits, Applied
<1>9. MomentsName'
  <2> SUFFICES ASSUME ~disordered PROVE MomentsName'
    BY <1>2 DEF MomentsName
  <2>1. /\ allowance.version <= subscription.updated
        /\ allowance.version = subscription.updated => allowance.quota = Quota(subscription.size)
        /\ projected => allowance.version = subscription.updated
        /\ row.updated <= subscription.updated
        /\ row.updated = subscription.updated => row = subscription
    BY <1>1, <1>2 DEF BillingInvariant, MomentsName
  <2>2. \A o \in Projectors : projecting'[o].pc = "read" => projecting'[o] = projecting[o]
    BY <1>2, <1>3, <1>5
  <2>3. /\ allowance'.version <= subscription.updated
        /\ allowance'.version = subscription.updated => allowance'.quota = Quota(subscription.size)
        /\ row = subscription => allowance'.version = subscription.updated
        /\ projected => allowance'.version = subscription.updated
    <3>1. CASE allowance.version >= row.updated
      BY <1>2, <1>4, <2>1, <3>1
    <3>2. CASE ~(allowance.version >= row.updated)
      BY <1>2, <1>4, <2>1, <3>2
    <3> QED BY <3>1, <3>2
  <2> QED BY <1>2, <2>2, <2>3 DEF BillingInvariant, MomentsName
<1> QED BY <1>7, <1>8, <1>9 DEF BillingInvariant

LEMMA AllowanceStepHolds == BillingInvariant /\ AllowanceStep => BillingInvariant'
<1> SUFFICES ASSUME BillingInvariant, NEW e \in Projectors,
                    BeginProjecting(e) \/ ApplyStorageEntitlement(e) \/ LoseProjecting(e)
             PROVE  BillingInvariant'
  BY DEF AllowanceStep
<1>1. CASE BeginProjecting(e)
  <2>1. [pc |-> "read", of |-> subscription] \in ProjectionSet
    BY DEF BillingInvariant, BillingTables, ProjectionSet
  <2> QED BY <1>1, <2>1, ProjectingMoves DEF BeginProjecting
<1>2. CASE LoseProjecting(e)
  <2>1. NoProjection \in ProjectionSet /\ NoProjection.pc = "idle"
    BY DEF NoProjection, ProjectionSet, SubscriptionRow, Sizes
  <2> QED BY <1>2, <2>1, ProjectingMoves DEF LoseProjecting
<1> QED BY <1>1, <1>2, ApplyStorageHolds

-----------------------------------------------------------------------------
(* Changes of the plan. *)

(* What the other parts of the invariant say is not about them.             *)
LEMMA PlansMove ==
    ASSUME BillingInvariant, changes' \in Seq(ChangeRow), buying' \in [Buyers -> PurchaseSet],
           OneChangeWaits',
           UNCHANGED <<clock, events, subscription, receipts, accepting, allowance, projecting,
                       disordered, projected>>
    PROVE  BillingInvariant'
BY DEF BillingInvariant, BillingTables, EventsApplied, MomentsName, Applied

LEMMA BuyingMoves ==
    ASSUME BillingInvariant, NEW b \in Buyers, NEW r \in PurchaseSet,
           r.pc = "checkout" => r.change \in DOMAIN changes,
           buying' = [buying EXCEPT ![b] = r],
           UNCHANGED <<clock, events, subscription, receipts, accepting, allowance, projecting,
                       changes, disordered, projected>>
    PROVE  BillingInvariant'
<1>1. buying \in [Buyers -> PurchaseSet] /\ changes \in Seq(ChangeRow)
  BY DEF BillingInvariant, BillingTables
<1>2. OneChangeWaits'
  BY <1>1 DEF BillingInvariant, OneChangeWaits
<1> QED BY <1>1, <1>2, PlansMove

LEMMA RecordChangeHolds ==
    ASSUME BillingInvariant, NEW b \in Buyers, RecordChange(b)
    PROVE  BillingInvariant'
<1>1. PICK old, row :
          /\ old = [k \in DOMAIN changes |->
                       IF changes[k].status = "pending" THEN [changes[k] EXCEPT !.status = "superseded"]
                       ELSE changes[k]]
          /\ row = [size |-> buying[b].size, status |-> "pending", handed |-> 0]
  OBVIOUS
<1>2. /\ changes \in Seq(ChangeRow) /\ buying \in [Buyers -> PurchaseSet]
      /\ row \in ChangeRow
  BY <1>1 DEF BillingInvariant, BillingTables, PurchaseSet, ChangeRow
<1>3. \A k \in DOMAIN changes : /\ old[k] \in ChangeRow /\ old[k].status # "pending"
                                /\ old[k].handed = changes[k].handed
  <2>1. \A k \in DOMAIN changes : changes[k] \in ChangeRow
    BY <1>2
  <2> QED BY <1>1, <2>1 DEF ChangeRow
<1>4. old \in Seq(ChangeRow) /\ DOMAIN old = DOMAIN changes
  <2>1. Len(changes) \in Nat /\ DOMAIN changes = 1 .. Len(changes)
    BY <1>2
  <2>2. old \in [1 .. Len(changes) -> ChangeRow]
    BY <1>1, <1>3, <2>1
  <2> QED BY <1>1, <2>1, <2>2, SeqDef
<1>5. changes' = Append(old, row)
  BY <1>1 DEF RecordChange
<1>6. /\ changes' \in Seq(ChangeRow)
      /\ DOMAIN changes' = DOMAIN changes \cup {Len(old) + 1}
      /\ \A k \in DOMAIN changes : changes'[k] = old[k]
      /\ changes'[Len(old) + 1] = row
  BY <1>2, <1>4, <1>5
<1>7. NoPurchase \in PurchaseSet /\ NoPurchase.pc = "idle"
  BY DEF NoPurchase, PurchaseSet, Sizes
<1>8. buying' = [buying EXCEPT ![b] = NoPurchase]
  BY DEF RecordChange
<1>9. OneChangeWaits'
  <2>1. \A k \in DOMAIN changes' : /\ changes'[k].status = "pending" => k = Len(old) + 1
                                   /\ changes'[k].handed <= 1
    <3>1. row.handed = 0
      BY <1>1
    <3>2. \A k \in DOMAIN changes : changes[k].handed <= 1
      BY DEF BillingInvariant, OneChangeWaits
    <3> QED BY <1>3, <1>6, <3>1, <3>2
  <2>2. \A k \in DOMAIN changes' : changes'[k].status = "pending" => changes'[k].handed = 0
    BY <1>1, <1>6, <2>1
  <2>3. \A o \in Buyers : buying'[o].pc = "checkout" => buying'[o].change \in DOMAIN changes'
    BY <1>2, <1>6, <1>7, <1>8 DEF BillingInvariant, OneChangeWaits
  <2> QED BY <2>1, <2>2, <2>3 DEF OneChangeWaits
<1> QED BY <1>2, <1>6, <1>7, <1>8, <1>9, PlansMove DEF RecordChange

(* One change ends its wait, and is handed out at most once.                *)
LEMMA ChangeSettles ==
    ASSUME BillingInvariant, NEW k \in DOMAIN changes, changes[k].status = "pending",
           NEW r \in ChangeRow, r.status # "pending", r.handed <= 1,
           changes' = [changes EXCEPT ![k] = r]
    PROVE  /\ changes' \in Seq(ChangeRow) /\ DOMAIN changes' = DOMAIN changes
           /\ \A o, l \in DOMAIN changes :
                 changes'[o].status = "pending" /\ changes'[l].status = "pending" => o = l
           /\ \A o \in DOMAIN changes : /\ changes'[o].handed <= 1
                                        /\ changes'[o].status = "pending" => changes'[o].handed = 0
<1>1. changes \in Seq(ChangeRow)
  BY DEF BillingInvariant, BillingTables
<1>2. changes' \in Seq(ChangeRow) /\ DOMAIN changes' = DOMAIN changes
  BY <1>1
<1>3. \A o \in DOMAIN changes : changes'[o] = IF o = k THEN r ELSE changes[o]
  BY <1>1
<1> QED BY <1>2, <1>3 DEF BillingInvariant, OneChangeWaits

LEMMA ChangePlanStepHolds == BillingInvariant /\ ChangePlanStep => BillingInvariant'
<1> SUFFICES ASSUME BillingInvariant, ChangePlanStep PROVE BillingInvariant'
  OBVIOUS
<1>0. /\ changes \in Seq(ChangeRow) /\ buying \in [Buyers -> PurchaseSet]
      /\ \A k \in DOMAIN changes : changes[k] \in ChangeRow
      /\ NoPurchase \in PurchaseSet /\ NoPurchase.pc = "idle"
  <2>1. changes \in Seq(ChangeRow) /\ buying \in [Buyers -> PurchaseSet]
    BY DEF BillingInvariant, BillingTables
  <2>2. NoPurchase \in PurchaseSet /\ NoPurchase.pc = "idle"
    BY DEF NoPurchase, PurchaseSet, Sizes
  <2> QED BY <2>1, <2>2
<1>1. ASSUME NEW b \in Buyers, NEW p \in People, NEW size \in Sizes, NEW used \in 0 .. 2,
             BeginChange(b, p, size, used)
      PROVE  BillingInvariant'
  <2>1. [pc |-> "asked", size |-> size, change |-> 0] \in PurchaseSet
    BY DEF PurchaseSet
  <2> QED BY <1>1, <2>1, BuyingMoves DEF BeginChange
<1>2. ASSUME NEW b \in Buyers, NEW p \in People, NEW k \in DOMAIN changes, BeginCheckout(b, p, k)
      PROVE  BillingInvariant'
  <2>1. k \in Nat /\ changes[k].size \in Sizes
    BY <1>0 DEF ChangeRow
  <2>2. [pc |-> "checkout", size |-> changes[k].size, change |-> k] \in PurchaseSet
    BY <2>1 DEF PurchaseSet
  <2> QED BY <1>2, <2>2, BuyingMoves DEF BeginCheckout
<1>3. ASSUME NEW b \in Buyers, MarkSubmitted(b)
      PROVE  BillingInvariant'
  <2>1. PICK k : k = buying[b].change
    OBVIOUS
  <2>2. k \in DOMAIN changes /\ changes[k] \in ChangeRow
    BY <1>0, <1>3, <2>1 DEF MarkSubmitted, BillingInvariant, OneChangeWaits
  <2>3. buying' = [buying EXCEPT ![b] = NoPurchase]
    BY <1>3 DEF MarkSubmitted
  <2>4. CASE changes[k].status = "pending"
    <3>1. PICK r : r = [changes[k] EXCEPT !.status = "submitted", !.handed = 1]
      OBVIOUS
    <3>2. changes[k].handed = 0
      BY <2>2, <2>4 DEF BillingInvariant, OneChangeWaits
    <3>3. r \in ChangeRow /\ r.status = "submitted" /\ r.handed = 1
      BY <2>2, <3>1 DEF ChangeRow
    <3>4. changes' = [changes EXCEPT ![k] = r]
      <4>1. changes' = [changes EXCEPT ![k].status = "submitted", ![k].handed = @ + 1]
        BY <1>3, <2>1, <2>4 DEF MarkSubmitted
      <4>2. r = [changes[k] EXCEPT !.status = "submitted", !.handed = @ + 1]
        BY <2>2, <3>1, <3>2 DEF ChangeRow
      <4> QED BY <1>0, <2>2, <4>1, <4>2
    <3>5. OneChangeWaits'
      BY <1>0, <2>2, <2>3, <2>4, <3>3, <3>4, ChangeSettles DEF BillingInvariant, OneChangeWaits
    <3>6. changes' \in Seq(ChangeRow)
      BY <1>0, <2>2, <3>3, <3>4
    <3>7. buying' \in [Buyers -> PurchaseSet]
      BY <1>0, <2>3
    <3>8. UNCHANGED <<clock, events, subscription, receipts, accepting, allowance, projecting,
                      disordered, projected>>
      BY <1>3 DEF MarkSubmitted
    <3> QED BY <3>5, <3>6, <3>7, <3>8, PlansMove
  <2>5. CASE changes[k].status # "pending"
    <3>1. changes' = changes
      BY <1>3, <2>1, <2>5 DEF MarkSubmitted
    <3> QED BY <1>0, <1>3, <2>3, <3>1, BuyingMoves DEF MarkSubmitted
  <2> QED BY <2>4, <2>5
<1>4. ASSUME NEW k \in DOMAIN changes, ChangeExpires(k)
      PROVE  BillingInvariant'
  <2>1. PICK r : r = [changes[k] EXCEPT !.status = "expired"]
    OBVIOUS
  <2>2. changes[k].status = "pending" /\ changes[k].handed = 0 /\ UNCHANGED buying
    BY <1>4 DEF ChangeExpires, BillingInvariant, OneChangeWaits
  <2>3. r \in ChangeRow /\ r.status = "expired" /\ r.handed = 0
    BY <1>0, <2>1, <2>2 DEF ChangeRow
  <2>4. changes' = [changes EXCEPT ![k] = r]
    BY <1>0, <1>4, <2>1 DEF ChangeExpires
  <2>5. OneChangeWaits'
    BY <2>2, <2>3, <2>4, ChangeSettles DEF BillingInvariant, OneChangeWaits
  <2>6. changes' \in Seq(ChangeRow)
    BY <1>0, <2>3, <2>4
  <2>7. UNCHANGED <<clock, events, subscription, receipts, accepting, allowance, projecting,
                    disordered, projected>>
    BY <1>4 DEF ChangeExpires
  <2>8. buying' \in [Buyers -> PurchaseSet]
    BY <1>0, <2>2
  <2> QED BY <2>5, <2>6, <2>7, <2>8, PlansMove
<1> QED BY <1>1, <1>2, <1>3, <1>4, RecordChangeHolds DEF ChangePlanStep

LEMMA BillingStepHolds ==
    BillingInvariant /\ (EventStep \/ AllowanceStep \/ ChangePlanStep \/ Tick) => BillingInvariant'
BY EventStepHolds, AllowanceStepHolds, ChangePlanStepHolds, TickHolds

-----------------------------------------------------------------------------
(* Epochs.  The first operation about a member has epoch one, and the       *)
(* object takes it before any other; whatever it takes of a member it knows *)
(* has a later epoch.                                                       *)

FirstIsOne ==
    /\ \A o \in ops : o.epoch > 0
    /\ \A o, q \in ops : o.member = q.member /\ o.epoch = 1 /\ q.epoch = 1 => o = q
    /\ \A o \in ops : IF local[o.member] = NoRow THEN o.epoch = 1
                      ELSE o.epoch = 1 => IdOf(o) \in taken
    /\ \A p \in People : rows[p] # NoRow => rows[p].epoch > 0

EpochRead(call) ==
    /\ call.pc = "joining" => call.epoch = 1
    /\ call.pc = "read" => call.epoch > 1 /\ local[call.member] # NoRow

EpochsKept == FirstIsOne /\ \A c \in Calls : EpochRead(calls[c])

(* One call goes on, and whoever the object knew it still knows. *)
LEMMA EpochsOfCalls ==
    ASSUME MembersInvariant, EpochsKept, NEW c \in Calls, NEW r, calls' = [calls EXCEPT ![c] = r],
           EpochRead(r), r.pc = "read" => r.member \in People,
           \A p \in People : local[p] # NoRow => local'[p] # NoRow
    PROVE  \A d \in Calls : EpochRead(calls[d])'
<1>0. calls \in [Calls -> CallSet] /\ \A d \in Calls : CallTyped(calls[d])
  BY DEF MembersInvariant, CallsTyped
<1> SUFFICES ASSUME NEW d \in Calls PROVE EpochRead(calls[d])'
  OBVIOUS
<1>1. CASE d = c
  <2>1. calls'[d] = r
    BY <1>0, <1>1
  <2> QED BY <2>1 DEF EpochRead
<1>2. CASE d # c
  <2>1. calls'[d] = calls[d]
    BY <1>0, <1>2
  <2>2. calls[d].pc = "read" => calls[d].member \in People
    BY <1>0 DEF CallTyped
  <2> QED BY <2>1, <2>2 DEF EpochsKept, EpochRead
<1> QED BY <1>1, <1>2

LEMMA FirstStays ==
    ASSUME FirstIsOne, UNCHANGED <<rows, ops, local, taken>>
    PROVE  FirstIsOne'
BY DEF FirstIsOne

(* Steps of calls alone. *)
LEMMA EpochsQuiet ==
    ASSUME MembersInvariant, EpochsKept, UNCHANGED <<rows, ops, local, taken>>, NEW c \in Calls,
           NEW r, calls' = [calls EXCEPT ![c] = r], EpochRead(r), r.pc = "read" => r.member \in People
    PROVE  EpochsKept'
<1>1. FirstIsOne'
  BY FirstStays DEF EpochsKept
<1>2. \A d \in Calls : EpochRead(calls[d])'
  BY EpochsOfCalls
<1> QED BY <1>1, <1>2 DEF EpochsKept

LEMMA EpochsEnd ==
    ASSUME MembersInvariant, EpochsKept, UNCHANGED <<rows, ops, local, taken>>, NEW c \in Calls, Finish(c)
    PROVE  EpochsKept'
<1>1. EpochRead(NoCall) /\ NoCall.pc # "read"
  BY DEF EpochRead, NoCall
<1> QED BY <1>1, EpochsQuiet DEF Finish

LEMMA EpochsBegin ==
    ASSUME MembersInvariant, EpochsKept, UNCHANGED <<rows, ops, local, taken>>, NEW c \in Calls,
           NEW r, Begin(c, r), r.pc \in {"inviting", "asked"} \/ (r.pc = "joining" /\ r.epoch = 1)
    PROVE  EpochsKept'
<1>1. EpochRead(r) /\ r.pc # "read"
  BY DEF EpochRead
<1> QED BY <1>1, EpochsQuiet DEF Begin

LEMMA EpochsRead ==
    ASSUME MembersInvariant, EpochsKept, NEW c \in Calls, ReadMember(c)
    PROVE  EpochsKept'
<1> DEFINE call == calls[c]
           reduces == call.status # "active" \/ Rank(call.role) > Rank(rows[call.member].role)
           r == [call EXCEPT !.pc = "read", !.version = version + 1,
                             !.epoch = rows[call.member].epoch + 1, !.reduces = reduces]
<1>1. /\ call.pc = "asked" /\ local[call.member] # NoRow /\ calls' = [calls EXCEPT ![c] = r]
      /\ UNCHANGED <<rows, ops, local, taken>>
  BY DEF ReadMember, At, tables
<1>2. call \in CallSet /\ CallTyped(call) /\ Rooted(call) /\ rows \in Table
  BY DEF MembersInvariant, CallsTyped, CallsKnown, TablesTyped
<1>3. call.member \in People /\ rows[call.member] # NoRow
  BY <1>1, <1>2 DEF CallTyped, Rooted
<1>4. rows[call.member].epoch > 0 /\ rows[call.member].epoch \in Nat
  BY <1>2, <1>3 DEF EpochsKept, FirstIsOne, Table, MemberRow
<1>5. r.pc = "read" /\ r.epoch = rows[call.member].epoch + 1 /\ r.member = call.member
  BY <1>2 DEF CallSet
<1> HIDE DEF r
<1>6. EpochRead(r)
  BY <1>1, <1>4, <1>5 DEF EpochRead
<1> HIDE DEF call
<1> QED BY <1>1, <1>3, <1>5, <1>6, EpochsQuiet

(* An operation is recorded, a first one or a later one. *)
LEMMA EpochsOfOperation ==
    ASSUME MembersInvariant, EpochsKept, NEW o \in OperationSet, ops' = ops \cup {o},
           UNCHANGED <<local, taken>>,
           \/ (o.epoch = 1 /\ rows[o.member] = NoRow)
           \/ (o.epoch > 1 /\ local[o.member] # NoRow),
           \A p \in People : rows'[p] # NoRow => rows'[p].epoch > 0
    PROVE  FirstIsOne'
<1>1. /\ \A q \in ops : rows[q.member] # NoRow /\ q \in OperationSet
      /\ \A p \in People : local[p] # NoRow => \E q \in ops : q.member = p
  BY DEF MembersInvariant, OperationsNamed, TablesTyped, LocalIsTaken
<1>2. o.member \in People /\ o.epoch \in Nat
  BY DEF OperationSet
<1>3. rows[o.member] = NoRow => local[o.member] = NoRow /\ \A q \in ops : q.member # o.member
  BY <1>1, <1>2
<1>4. \A q \in ops' : q.epoch > 0
  BY <1>2 DEF EpochsKept, FirstIsOne
<1>5. \A q, s \in ops' : q.member = s.member /\ q.epoch = 1 /\ s.epoch = 1 => q = s
  BY <1>2, <1>3 DEF EpochsKept, FirstIsOne
<1>6. \A q \in ops' : IF local[q.member] = NoRow THEN q.epoch = 1 ELSE q.epoch = 1 => IdOf(q) \in taken
  BY <1>2, <1>3 DEF EpochsKept, FirstIsOne
<1> QED BY <1>4, <1>5, <1>6 DEF FirstIsOne, IdOf

LEMMA EpochsOfContinued ==
    ASSUME MembersInvariant, EpochsKept, NEW c \in Calls, NEW pc \in {"recorded", "projected"},
           Continue(c, pc), \A p \in People : local[p] # NoRow => local'[p] # NoRow
    PROVE  \A d \in Calls : EpochRead(calls[d])'
<1> DEFINE r == [calls[c] EXCEPT !.pc = pc]
<1>1. calls[c] \in CallSet
  BY DEF MembersInvariant, CallsTyped
<1>2. calls' = [calls EXCEPT ![c] = r] /\ r.pc = pc
  BY <1>1 DEF Continue, CallSet
<1> HIDE DEF r
<1>3. EpochRead(r) /\ r.pc # "read"
  BY <1>2 DEF EpochRead
<1> QED BY <1>2, <1>3, EpochsOfCalls

LEMMA EpochsAdmit ==
    ASSUME MembersInvariant, EpochsKept, NEW c \in Calls, Admit(c)
    PROVE  EpochsKept'
<1> DEFINE call == calls[c]
           o == Operation(call)
           row == [Projection(call) EXCEPT !.status = "pending"]
<1>1. /\ call.pc = "joining" /\ rows[call.member].status = "none"
      /\ rows' = [rows EXCEPT ![call.member] = row]
      /\ ops' = ops \cup {o} /\ Continue(c, "recorded") /\ UNCHANGED <<local, taken>>
  BY DEF Admit, At
<1>2. o \in OperationSet /\ o.member = call.member /\ call.member \in People
  BY <1>1, OperationOfCall
<1>3. call.epoch = 1 /\ o.epoch = 1 /\ row.epoch = 1
  BY <1>1 DEF EpochsKept, EpochRead, Operation, Projection
<1>4. rows[call.member] = NoRow
  BY <1>1, <1>2, RowThere
<1>5. rows \in Table
  BY DEF MembersInvariant, TablesTyped
<1> HIDE DEF row, o
<1>6. \A p \in People : rows'[p] # NoRow => rows'[p].epoch > 0
  BY <1>1, <1>3, <1>5 DEF EpochsKept, FirstIsOne, Table
<1>7. FirstIsOne'
  BY <1>1, <1>2, <1>3, <1>4, <1>6, EpochsOfOperation
<1>8. \A d \in Calls : EpochRead(calls[d])'
  BY <1>1, EpochsOfContinued
<1> QED BY <1>7, <1>8 DEF EpochsKept

LEMMA EpochsRecord ==
    ASSUME MembersInvariant, EpochsKept, NEW c \in Calls, Record(c)
    PROVE  EpochsKept'
<1> DEFINE call == calls[c]
           o == Operation(call)
<1>1. /\ call.pc = "read"
      /\ rows' = IF call.reduces THEN [rows EXCEPT ![call.member] = Projection(call)] ELSE rows
      /\ ops' = ops \cup {o} /\ Continue(c, "recorded") /\ UNCHANGED <<local, taken>>
  BY DEF Record, At
<1>2. o \in OperationSet /\ o.member = call.member /\ call.member \in People
  BY <1>1, OperationOfCall
<1>3. call.epoch > 1 /\ o.epoch = call.epoch /\ Projection(call).epoch = call.epoch
      /\ local[call.member] # NoRow
  BY <1>1 DEF EpochsKept, EpochRead, Operation, Projection
<1>4. rows \in Table /\ call.epoch \in Nat
  BY DEF MembersInvariant, TablesTyped, CallsTyped, CallSet
<1> HIDE DEF o
<1>5. \A p \in People : rows'[p] # NoRow => rows'[p].epoch > 0
  BY <1>1, <1>3, <1>4 DEF EpochsKept, FirstIsOne, Table
<1>6. FirstIsOne'
  BY <1>1, <1>2, <1>3, <1>5, EpochsOfOperation
<1>7. \A d \in Calls : EpochRead(calls[d])'
  BY <1>1, EpochsOfContinued
<1> QED BY <1>6, <1>7 DEF EpochsKept

LEMMA EpochsCreate ==
    ASSUME MembersInvariant, EpochsKept, NEW c \in Calls, CreateWorkspace(c)
    PROVE  EpochsKept'
<1> DEFINE call == [NoCall EXCEPT !.pc = "recorded", !.kind = "found", !.member = Founder,
                       !.role = "owner", !.status = "active", !.epoch = 1, !.version = 1]
           o == Operation(call)
           row == [Projection(call) EXCEPT !.status = "pending"]
<1>1. /\ version = 0 /\ calls' = [calls EXCEPT ![c] = call]
      /\ rows' = [rows EXCEPT ![Founder] = row]
      /\ ops' = ops \cup {o} /\ UNCHANGED <<local, taken>>
  BY DEF CreateWorkspace, Begin
<1>2. /\ call.pc = "recorded" /\ call.member = Founder /\ call.role = "owner"
      /\ call.status = "active" /\ call.epoch = 1 /\ call.version = 1
  BY DEF NoCall
<1>3. Founder \in People /\ "owner" \in Roles /\ "active" \in Statuses
  BY MembershipAssumption DEF Roles, Statuses
<1> HIDE DEF call
<1>4. o \in OperationSet /\ o.member = Founder /\ o.epoch = 1 /\ row.epoch = 1
  BY <1>2, <1>3 DEF Operation, OperationSet, Projection
<1>5. rows[Founder] = NoRow /\ rows \in Table
  BY <1>1, <1>3 DEF MembersInvariant, OperationsNamed, TablesTyped
<1> HIDE DEF row, o
<1>6. \A p \in People : rows'[p] # NoRow => rows'[p].epoch > 0
  BY <1>1, <1>4, <1>5 DEF EpochsKept, FirstIsOne, Table
<1>7. FirstIsOne'
  BY <1>1, <1>4, <1>5, <1>6, EpochsOfOperation
<1>8. EpochRead(call) /\ call.pc # "read"
  BY <1>2 DEF EpochRead
<1>9. \A d \in Calls : EpochRead(calls[d])'
  BY <1>1, <1>8, EpochsOfCalls
<1> QED BY <1>7, <1>9 DEF EpochsKept

(* Nobody whom the object knows is projected as he was first. *)
LEMMA EpochsApply ==
    ASSUME MembersInvariant, FirstIsOne, NEW o \in ops, ApplyMembership(o), UNCHANGED <<rows, ops>>
    PROVE  /\ FirstIsOne' /\ \A p \in People : local[p] # NoRow => local'[p] # NoRow
           /\ \A p \in People : local'[p] # local[p] /\ local[p] # NoRow => local'[p].epoch > 1
<1>1. /\ local \in Table /\ ops \subseteq OperationSet
  BY DEF MembersInvariant, TablesTyped
<1>2. o.member \in People /\ ProjectionOf(o) # NoRow /\ ProjectionOf(o).epoch = o.epoch /\ o.epoch \in Nat
  BY <1>1 DEF OperationSet, ProjectionOf, NoRow, Statuses
<1>3. taken' = taken \cup {IdOf(o)}
  BY DEF ApplyMembership
<1>4. CASE IdOf(o) \in taken
  <2>1. UNCHANGED <<local, taken>>
    BY <1>3, <1>4 DEF ApplyMembership
  <2> QED BY <2>1 DEF FirstIsOne
<1>5. CASE IdOf(o) \notin taken
  <2>1. \A p \in People : local'[p] = IF p = o.member THEN ProjectionOf(o) ELSE local[p]
    BY <1>1, <1>2, <1>5 DEF ApplyMembership, Table
  <2>2. ASSUME NEW q \in ops
        PROVE  IF local'[q.member] = NoRow THEN q.epoch = 1 ELSE q.epoch = 1 => IdOf(q) \in taken'
    <3>1. q.member \in People
      BY <1>1 DEF OperationSet
    <3>2. CASE q.member = o.member
      <4>1. local'[q.member] # NoRow
        BY <1>2, <2>1, <3>2
      <4>2. ASSUME q.epoch = 1 PROVE IdOf(q) \in taken'
        <5>1. CASE local[o.member] = NoRow
          <6>1. o.epoch = 1
            BY <5>1 DEF FirstIsOne
          <6>2. q = o
            BY <3>2, <4>2, <6>1 DEF FirstIsOne
          <6> QED BY <1>3, <6>2
        <5>2. CASE local[o.member] # NoRow
          <6>1. IdOf(q) \in taken
            BY <3>2, <4>2, <5>2 DEF FirstIsOne
          <6> QED BY <1>3, <6>1
        <5> QED BY <5>1, <5>2
      <4> QED BY <4>1, <4>2
    <3>3. CASE q.member # o.member
      BY <1>3, <2>1, <3>1, <3>3 DEF FirstIsOne
    <3> QED BY <3>2, <3>3
  <2>3. FirstIsOne'
    BY <2>2 DEF FirstIsOne, IdOf
  <2>4. local[o.member] # NoRow => o.epoch > 1
    BY <1>2, <1>5 DEF FirstIsOne
  <2> QED BY <1>2, <2>1, <2>3, <2>4
<1> QED BY <1>4, <1>5

LEMMA EpochsProject ==
    ASSUME MembersInvariant, EpochsKept, NEW c \in Calls, Project(c)
    PROVE  EpochsKept'
<1> DEFINE o == Operation(calls[c])
<1>1. /\ calls[c].pc = "recorded" /\ ApplyMembership(o)
      /\ Continue(c, "projected") /\ UNCHANGED <<rows, ops>>
  BY DEF Project, At
<1>2. o \in ops
  BY <1>1 DEF MembersInvariant, CallsKnown, Rooted
<1> HIDE DEF o
<1>3. FirstIsOne' /\ \A p \in People : local[p] # NoRow => local'[p] # NoRow
  BY <1>1, <1>2, EpochsApply DEF EpochsKept
<1>4. \A d \in Calls : EpochRead(calls[d])'
  BY <1>1, <1>3, EpochsOfContinued
<1> QED BY <1>3, <1>4 DEF EpochsKept

LEMMA EpochsRedeliver ==
    ASSUME MembersInvariant, EpochsKept, NEW o \in ops, Redeliver(o)
    PROVE  EpochsKept'
<1>1. ApplyMembership(o) /\ UNCHANGED <<rows, ops, calls>>
  BY DEF Redeliver
<1>2. FirstIsOne' /\ \A p \in People : local[p] # NoRow => local'[p] # NoRow
  BY <1>1, EpochsApply DEF EpochsKept
<1>3. \A d \in Calls : calls[d].pc = "read" => calls[d].member \in People
  BY DEF MembersInvariant, CallsTyped, CallTyped
<1>4. \A d \in Calls : EpochRead(calls[d])'
  BY <1>1, <1>2, <1>3 DEF EpochsKept, EpochRead
<1> QED BY <1>2, <1>4 DEF EpochsKept

LEMMA EpochsAcknowledge ==
    ASSUME MembersInvariant, EpochsKept, NEW c \in Calls, Acknowledge(c)
    PROVE  EpochsKept'
<1> DEFINE call == calls[c]
           row == Acknowledged(c)
           next == [NoCall EXCEPT !.pc = "asked", !.kind = "change", !.by = call.by,
                                  !.member = call.by, !.role = "admin", !.status = "active"]
<1>1. /\ call.pc = "projected" /\ rows' = [rows EXCEPT ![call.member] = row]
      /\ calls' = [calls EXCEPT ![c] = next] \/ Finish(c)
      /\ UNCHANGED <<ops, local, taken>>
  BY DEF Acknowledge, At
<1>2. /\ call \in CallSet /\ Operation(call) \in ops /\ rows \in Table
      /\ Operation(call).epoch = call.epoch /\ Operation(call).member = call.member
      /\ Projection(call).epoch = call.epoch /\ call.member \in People
  <2>1. call \in CallSet /\ Operation(call) \in ops /\ rows \in Table
    BY <1>1 DEF MembersInvariant, CallsTyped, CallsKnown, Rooted, TablesTyped
  <2>2. call.member \in People
    BY <1>1, OperationOfCall
  <2> QED BY <2>1, <2>2 DEF Operation, Projection
<1>3. rows[call.member] # NoRow /\ rows[call.member].epoch > 0 /\ call.epoch > 0
  <2>1. rows[call.member] # NoRow
    BY <1>2 DEF MembersInvariant, OperationsNamed
  <2> QED BY <1>2, <2>1 DEF EpochsKept, FirstIsOne
<1>4. row.epoch > 0
  <2>1. rows[call.member] \in MemberRow
    BY <1>2, <1>3 DEF Table
  <2>2. [rows[call.member] EXCEPT !.status = "active"].epoch = rows[call.member].epoch
    BY <2>1 DEF MemberRow
  <2> QED BY <1>2, <1>3, <2>2 DEF Acknowledged
<1>5. next.pc = "asked" /\ NoCall.pc = "idle"
  BY DEF NoCall
<1> HIDE DEF row, next
<1>6. \A p \in People : rows'[p] # NoRow => rows'[p].epoch > 0
  BY <1>1, <1>2, <1>4 DEF EpochsKept, FirstIsOne, Table
<1>7. FirstIsOne'
  BY <1>1, <1>6 DEF EpochsKept, FirstIsOne, IdOf
<1>8. EpochRead(next) /\ EpochRead(NoCall) /\ next.pc # "read" /\ NoCall.pc # "read"
  BY <1>5 DEF EpochRead
<1>9. \A d \in Calls : EpochRead(calls[d])'
  <2>1. CASE calls' = [calls EXCEPT ![c] = next]
    BY <1>1, <1>8, <2>1, EpochsOfCalls
  <2>2. CASE Finish(c)
    BY <1>1, <1>8, <2>2, EpochsOfCalls DEF Finish
  <2> QED BY <1>1, <2>1, <2>2
<1> QED BY <1>7, <1>9 DEF EpochsKept

LEMMA EpochsStutter ==
    ASSUME EpochsKept, UNCHANGED <<rows, ops, local, taken, calls>>
    PROVE  EpochsKept'
BY DEF EpochsKept, FirstIsOne, EpochRead, IdOf

LEMMA EpochsStep == MembersInvariant /\ EpochsKept /\ MembershipNext => EpochsKept'
<1> SUFFICES ASSUME MembersInvariant, EpochsKept, MembershipNext PROVE EpochsKept'
  OBVIOUS
<1>1. CASE InvitationStep
  <2>1. ASSUME NEW c \in Calls, NEW by \in People, NEW p \in People, NEW role \in Roles,
               BeginInvite(c, by, p, role)
        PROVE  EpochsKept'
    <3> DEFINE r == [NoCall EXCEPT !.pc = "inviting", !.kind = "invite", !.by = by,
                                   !.member = p, !.role = role]
    <3>1. Begin(c, r) /\ UNCHANGED <<rows, ops, local, taken>> /\ r.pc = "inviting"
      BY <2>1 DEF BeginInvite, tables, NoCall
    <3> HIDE DEF r
    <3> QED BY <3>1, EpochsBegin
  <2>2. ASSUME NEW c \in Calls, NEW i \in Invitations, BeginAccept(c, i)
        PROVE  EpochsKept'
    <3> DEFINE r == [NoCall EXCEPT !.pc = "joining", !.kind = "join", !.member = invites[i].person,
                     !.invite = i, !.role = invites[i].role, !.status = "active",
                     !.epoch = 1, !.version = version + 1]
    <3>1. Begin(c, r) /\ UNCHANGED <<rows, ops, local, taken>> /\ r.pc = "joining" /\ r.epoch = 1
      BY <2>2 DEF BeginAccept, tables, NoCall
    <3> HIDE DEF r
    <3> QED BY <3>1, EpochsBegin
  <2>3. ASSUME NEW c \in Calls, NotAdmitted(c) \/ \E i \in Invitations : Invite(c, i)
        PROVE  EpochsKept'
    BY <2>3, EpochsEnd DEF NotAdmitted, Invite, At, tables
  <2>4. ASSUME NEW i \in Invitations, RevokeInvitation(i) \/ ConfirmInvitationPlan(i)
        PROVE  EpochsKept'
    BY <2>4, EpochsStutter DEF RevokeInvitation, ConfirmInvitationPlan
  <2> QED BY <1>1, <2>1, <2>2, <2>3, <2>4, EpochsAdmit DEF InvitationStep
<1>2. CASE ChangeStep
  <2>1. ASSUME NEW c \in Calls, NEW by \in People, NEW p \in People, NEW role, NEW status,
               BeginAdminister(c, by, p, role, status)
        PROVE  EpochsKept'
    <3> DEFINE r == [NoCall EXCEPT !.pc = "asked", !.kind = "change", !.by = by, !.member = p,
                     !.role = Or(role, rows[p].role), !.status = Or(status, rows[p].status)]
    <3>1. Begin(c, r) /\ UNCHANGED <<rows, ops, local, taken>> /\ r.pc = "asked"
      BY <2>1 DEF BeginAdminister, tables, NoCall
    <3> HIDE DEF r
    <3> QED BY <3>1, EpochsBegin
  <2>2. ASSUME NEW c \in Calls, NEW by \in People, NEW p \in People, BeginTransfer(c, by, p)
        PROVE  EpochsKept'
    <3> DEFINE r == [NoCall EXCEPT !.pc = "asked", !.kind = "transfer", !.by = by, !.member = p,
                               !.role = "owner", !.status = "active"]
    <3>1. Begin(c, r) /\ UNCHANGED <<rows, ops, local, taken>> /\ r.pc = "asked"
      BY <2>2 DEF BeginTransfer, tables, NoCall
    <3> HIDE DEF r
    <3> QED BY <3>1, EpochsBegin
  <2>3. ASSUME NEW c \in Calls, NotProjected(c) \/ NotRecorded(c) PROVE EpochsKept'
    BY <2>3, EpochsEnd DEF NotProjected, NotRecorded, At, tables
  <2> QED BY <1>2, <2>1, <2>2, <2>3, EpochsCreate, EpochsRead, EpochsRecord DEF ChangeStep
<1>3. CASE ProjectionStep
  <2>1. ASSUME NEW c \in Calls, NotProjectable(c) \/ NotAcknowledged(c) \/ Lose(c) PROVE EpochsKept'
    BY <2>1, EpochsEnd DEF NotProjectable, NotAcknowledged, Lose, tables
  <2> QED BY <1>3, <2>1, EpochsProject, EpochsAcknowledge, EpochsRedeliver DEF ProjectionStep
<1> QED BY <1>1, <1>2, <1>3 DEF MembershipNext

LEMMA EpochsStart == MembershipInit => EpochsKept
<1> SUFFICES ASSUME MembershipInit PROVE EpochsKept
  OBVIOUS
<1>1. /\ budget \in Scenarios /\ rows = Joined(budget.members) /\ local = rows
      /\ ops = {[member |-> budget.members[k][1], role |-> budget.members[k][2],
                 status |-> "active", epoch |-> 1, version |-> k] : k \in DOMAIN budget.members}
      /\ taken = {IdOf(o) : o \in ops} /\ calls = [c \in Calls |-> NoCall]
  BY DEF MembershipInit
<1>2. \A k, l \in DOMAIN budget.members : budget.members[k][1] = budget.members[l][1] => k = l
  BY <1>1, MembershipAssumption
<1>3. \A p \in People : rows[p] # NoRow => rows[p].epoch = 1
  BY <1>1 DEF Joined
<1>4. \A o, q \in ops : o.epoch = 1 /\ (o.member = q.member => o = q)
  BY <1>1, <1>2
<1>5. FirstIsOne
  BY <1>1, <1>3, <1>4 DEF FirstIsOne
<1>6. \A c \in Calls : calls[c].pc = "idle"
  BY <1>1 DEF NoCall
<1> QED BY <1>5, <1>6 DEF EpochsKept, EpochRead

(* Whomever the object knows it projects with a later epoch. *)
LEMMA LaterEpoch ==
    ASSUME MembersInvariant, EpochsKept, MembershipNext,
           NEW p \in People, local'[p] # local[p], local[p] # NoRow
    PROVE  local'[p].epoch > 1
<1> SUFFICES ASSUME local' # local PROVE local'[p].epoch > 1
  OBVIOUS
<1>1. ~InvitationStep
  BY DEF InvitationStep, BeginInvite, BeginAccept, Invite, Admit, NotAdmitted, RevokeInvitation,
     ConfirmInvitationPlan, tables
<1>2. ~ChangeStep
  <2>1. \A c, by, p_, role, status : ~(BeginAdminister(c, by, p_, role, status) \/ BeginTransfer(c, by, p_))
    BY DEF BeginAdminister, BeginTransfer, tables
  <2>2. \A c : ~(CreateWorkspace(c) \/ ReadMember(c) \/ NotProjected(c) \/ Record(c) \/ NotRecorded(c))
    BY DEF CreateWorkspace, ReadMember, NotProjected, Record, NotRecorded, tables
  <2> QED BY <2>1, <2>2 DEF ChangeStep
<1>3. \E o \in ops : ApplyMembership(o) /\ UNCHANGED <<rows, ops>>
  <2>1. CASE \E o \in ops : Redeliver(o)
    BY <2>1 DEF Redeliver
  <2>2. CASE \E c \in Calls : Project(c)
    <3>1. PICK c \in Calls : Project(c)
      BY <2>2
    <3>2. calls[c].pc = "recorded" /\ ApplyMembership(Operation(calls[c])) /\ UNCHANGED <<rows, ops>>
      BY <3>1 DEF Project, At
    <3>3. Operation(calls[c]) \in ops
      BY <3>2 DEF MembersInvariant, CallsKnown, Rooted
    <3> QED BY <3>2, <3>3
  <2>3. \A c \in Calls : ~(NotProjectable(c) \/ Lose(c) \/ Acknowledge(c) \/ NotAcknowledged(c))
    BY DEF NotProjectable, Lose, Acknowledge, NotAcknowledged, tables
  <2> QED BY <1>1, <1>2, <2>1, <2>2, <2>3 DEF MembershipNext, ProjectionStep
<1> QED BY <1>3, EpochsApply DEF EpochsKept
=============================================================================
