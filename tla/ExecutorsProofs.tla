--------------------------- MODULE ExecutorsProofs ---------------------------
(***************************************************************************)
(* What acts for a workspace from outside of it keeps what module          *)
(* Executors' run checks of it, for any number of machines, agents, runs,  *)
(* browsers and calls, and for any bounds: SoloHolds, PushesHold,          *)
(* AgentWritesHold, RunnersHold and RuntimesHold.                          *)
(*                                                                         *)
(* None of them is inductive, and each part has an invariant of its own:   *)
(* SoloInvariant, PushInvariant, WritesInvariant, RunnersInvariant and     *)
(* RuntimesInvariant say what the object keeps of frames that were routed, *)
(* of a dispatch that waits, of the windows of a connection, of a daemon   *)
(* that has a stop on its way, and of a call that waits for the provider.  *)
(* A part's variables are its own, so a step of another part leaves its    *)
(* invariant alone.                                                        *)
(***************************************************************************)
EXTENDS Executors, FiniteSetTheorems, TLAPS

-----------------------------------------------------------------------------
(* A Solo workspace's host. *)

SnapshotSet == [epoch : Int, rows : SUBSET Requests]
Hosting == [mode : {"local_host", "cloud"}, host : Hosts \cup {NoHost}, epoch : Nat, until : Int,
            sequence : [Directions -> Nat], routing : Nat]
Import == [status : {"none", "staged", "complete"}, epoch : Int, rows : SUBSET Requests]
Frame == [epoch : Nat, host : Hosts, direction : Directions, number : Nat]

SoloTyped ==
    /\ ticks \in Nat \ {0}
    /\ hosting \in Hosting
    /\ staged \in [Imports -> Import]
    /\ cloudRows \in SUBSET Requests
    /\ stores \in [Hosts -> [epoch : Int, rows : SUBSET Requests, log : UNION {[D -> Int] : D \in SUBSET Requests}]]
    /\ snapshots \subseteq SnapshotSet
    /\ relayed \in Seq(Frame)
    /\ leased \subseteq [host : Hosts, epoch : Nat]

(* The sequence the object keeps is ahead of every frame of this epoch. *)
FramesBehind ==
    \A k \in DOMAIN relayed :
       /\ relayed[k].epoch <= hosting.epoch
       /\ relayed[k].epoch = hosting.epoch => relayed[k].number <= hosting.sequence[relayed[k].direction]

(* A lease the object keeps was granted to its host, in this epoch. *)
LeaseGranted ==
    /\ \A g \in leased : /\ g.epoch <= hosting.epoch
                         /\ Local /\ g.epoch = hosting.epoch => g.host = hosting.host
    /\ hosting.until > 0 => [host |-> hosting.host, epoch |-> hosting.epoch] \in leased

SoloInvariant == SoloTyped /\ FramesBehind /\ LeaseGranted /\ SoloHolds

(* Steps that leave alone what is routed, granted and hosted.              *)
LEMMA FramesUnmoved ==
    ASSUME SoloInvariant, UNCHANGED <<hosting, relayed, leased>>
    PROVE  (FramesBehind /\ LeaseGranted /\ FramesFollow /\ FramesLeased)'
BY DEF SoloInvariant, FramesBehind, LeaseGranted, SoloHolds, FramesFollow, FramesLeased, Local

(* Steps that leave the upgrade alone.                                     *)
LEMMA UpgradeUnmoved ==
    ASSUME SoloInvariant, UNCHANGED <<hosting, staged, cloudRows>>, snapshots \subseteq snapshots'
    PROVE  UpgradedOnce'
BY DEF SoloInvariant, SoloHolds, UpgradedOnce, Local, Staged, SnapshotOf

(* What a machine's store keeps and exports has its type. *)
LEMMA StoreTyped ==
    ASSUME SoloInvariant, StoreStep
    PROVE  SoloTyped' /\ UNCHANGED <<hosting, staged, cloudRows, relayed, leased>> /\ snapshots \subseteq snapshots'
<1> USE DEF SoloInvariant, SoloTyped, SnapshotSet
<1>1. ASSUME NEW d \in Hosts, NEW r \in Requests, NEW e \in HostEpochs, CommitMessage(d, r, e)
      PROVE  SoloTyped' /\ UNCHANGED <<hosting, staged, cloudRows, relayed, leased>> /\ snapshots \subseteq snapshots'
  <2>1. stores[d].log \in UNION {[D -> Int] : D \in SUBSET Requests}
    OBVIOUS
  <2>2. PICK D \in SUBSET Requests : stores[d].log \in [D -> Int]
    BY <2>1
  <2>3. e \in Int /\ D \cup {r} \in SUBSET Requests
    BY SoloAssumption DEF HostEpochs
  <2> DEFINE lg == [q \in DOMAIN stores[d].log \cup {r} |-> IF q = r THEN e ELSE stores[d].log[q]]
  <2>4. lg \in [D \cup {r} -> Int]
    BY <2>2, <2>3
  <2>5. lg \in UNION {[E -> Int] : E \in SUBSET Requests}
    BY <2>3, <2>4
  <2>6. stores' = [stores EXCEPT ![d].rows = @ \cup {r}, ![d].log = lg]
    BY <1>1 DEF CommitMessage
  <2>7. stores' \in [Hosts -> [epoch : Int, rows : SUBSET Requests, log : UNION {[E -> Int] : E \in SUBSET Requests}]]
    <3> HIDE DEF lg
    <3> DEFINE Logs == UNION {[E -> Int] : E \in SUBSET Requests}
    <3>1. lg \in Logs /\ stores \in [Hosts -> [epoch : Int, rows : SUBSET Requests, log : Logs]]
      BY <2>5
    <3> HIDE DEF Logs
    <3>2. PICK x : x = [stores[d] EXCEPT !.rows = @ \cup {r}]
      OBVIOUS
    <3>3. x \in [epoch : Int, rows : SUBSET Requests, log : Logs]
      BY <3>1, <3>2
    <3>4. [x EXCEPT !.log = lg] \in [epoch : Int, rows : SUBSET Requests, log : Logs]
      BY <3>1, <3>3
    <3>5. stores' = [stores EXCEPT ![d] = [x EXCEPT !.log = lg]]
      BY <2>6, <3>1, <3>2
    <3>6. stores' \in [Hosts -> [epoch : Int, rows : SUBSET Requests, log : Logs]]
      BY <3>1, <3>4, <3>5
    <3> QED BY <3>6 DEF Logs
  <2> QED BY <1>1, <2>7 DEF CommitMessage
<1>2. ASSUME NEW d \in Hosts, NEW s \in snapshots, ImportSnapshot(d, s)
      PROVE  SoloTyped' /\ UNCHANGED <<hosting, staged, cloudRows, relayed, leased>> /\ snapshots \subseteq snapshots'
  <2> DEFINE Logs == UNION {[D -> Int] : D \in SUBSET Requests}
  <2>1. stores \in [Hosts -> [epoch : Int, rows : SUBSET Requests, log : Logs]]
    OBVIOUS
  <2>2. s.epoch \in Int /\ s.rows \in SUBSET Requests
    OBVIOUS
  <2> HIDE DEF Logs
  <2>3. PICK x : x = [stores[d] EXCEPT !.rows = s.rows]
    OBVIOUS
  <2>4. x \in [epoch : Int, rows : SUBSET Requests, log : Logs]
    BY <2>1, <2>2, <2>3
  <2>5. [x EXCEPT !.epoch = s.epoch] \in [epoch : Int, rows : SUBSET Requests, log : Logs]
    BY <2>2, <2>4
  <2>6. stores' = [stores EXCEPT ![d] = [x EXCEPT !.epoch = s.epoch]]
    BY <1>2, <2>1, <2>3 DEF ImportSnapshot
  <2>7. stores' \in [Hosts -> [epoch : Int, rows : SUBSET Requests, log : Logs]]
    BY <2>1, <2>5, <2>6
  <2> QED BY <1>2, <2>7 DEF ImportSnapshot, Logs
<1>3. ASSUME NEW d \in Hosts, SetHostEpoch(d)
      PROVE  SoloTyped' /\ UNCHANGED <<hosting, staged, cloudRows, relayed, leased>> /\ snapshots \subseteq snapshots'
  <2> DEFINE Logs == UNION {[D -> Int] : D \in SUBSET Requests}
  <2>1. stores \in [Hosts -> [epoch : Int, rows : SUBSET Requests, log : Logs]]
    OBVIOUS
  <2> HIDE DEF Logs
  <2> DEFINE next == stores[d].epoch + 1
  <2>2. next \in Int /\ stores' = [stores EXCEPT ![d].epoch = next]
    BY <1>3, <2>1 DEF SetHostEpoch
  <2> HIDE DEF next
  <2>3. stores' \in [Hosts -> [epoch : Int, rows : SUBSET Requests, log : Logs]]
    BY <2>1, <2>2
  <2> QED BY <1>3, <2>3 DEF SetHostEpoch, Logs
<1>4. ASSUME NEW d \in Hosts, ExportSnapshot(d)
      PROVE  SoloTyped' /\ UNCHANGED <<hosting, staged, cloudRows, relayed, leased>> /\ snapshots \subseteq snapshots'
  BY <1>4 DEF ExportSnapshot, SnapshotOf
<1> QED BY <1>1, <1>2, <1>3, <1>4 DEF StoreStep

LEMMA StoreKeeps ==
    ASSUME SoloInvariant, StoreStep
    PROVE  SoloInvariant'
BY StoreTyped, FramesUnmoved, UpgradeUnmoved DEF SoloInvariant, SoloHolds

(* A new epoch has no frame and no lease yet. *)
LEMMA DesignateKeeps ==
    ASSUME SoloInvariant, NEW d \in Hosts, DesignateSoloHost(d)
    PROVE  SoloInvariant'
<1> DEFINE zero == [x \in Directions |-> 0]
          next == hosting.epoch + 1
<1>1. SoloTyped /\ FramesBehind /\ LeaseGranted /\ SoloHolds
  BY DEF SoloInvariant
<1>2. /\ hosting \in Hosting /\ relayed \in Seq(Frame)
      /\ leased \subseteq [host : Hosts, epoch : Nat]
  BY <1>1 DEF SoloTyped
<1>3. /\ Local /\ zero \in [Directions -> Nat]
      /\ hosting' = [hosting EXCEPT !.host = d, !.epoch = next, !.until = 0, !.sequence = zero]
      /\ UNCHANGED <<ticks, staged, cloudRows, stores, snapshots, relayed, leased>>
  BY DEF DesignateSoloHost
<1>4. hosting.epoch \in Nat /\ next \in Nat /\ next = hosting.epoch + 1
  BY <1>2 DEF Hosting
<1> HIDE DEF zero, next
<1>5. /\ hosting'.epoch = hosting.epoch + 1 /\ hosting'.until = 0 /\ hosting'.mode = hosting.mode
      /\ hosting'.host = d /\ hosting'.routing = hosting.routing
      /\ hosting' \in Hosting
  <2>1. hosting' = [mode |-> hosting.mode, host |-> d, epoch |-> next, until |-> 0, sequence |-> zero,
                    routing |-> hosting.routing]
    BY <1>2, <1>3 DEF Hosting
  <2>2. hosting.mode \in {"local_host", "cloud"} /\ hosting.routing \in Nat
    BY <1>2 DEF Hosting
  <2> QED BY <1>3, <1>4, <2>1, <2>2 DEF Hosting
<1>6. SoloTyped'
  BY <1>1, <1>3, <1>5 DEF SoloTyped
<1>7. FramesBehind'
  <2>1. \A k \in DOMAIN relayed : relayed[k].epoch \in Nat /\ relayed[k].epoch <= hosting.epoch
    <3>1. \A k \in DOMAIN relayed : relayed[k] \in Frame
      BY <1>2
    <3> QED BY <3>1, <1>1 DEF Frame, FramesBehind
  <2>2. \A k \in DOMAIN relayed : relayed[k].epoch <= hosting'.epoch /\ relayed[k].epoch # hosting'.epoch
    BY <2>1, <1>4, <1>5
  <2> QED BY <2>2, <1>3 DEF FramesBehind
<1>8. LeaseGranted'
  <2>1. \A g \in leased : g.epoch \in Nat /\ g.epoch <= hosting.epoch
    BY <1>1, <1>2 DEF LeaseGranted
  <2>2. \A g \in leased : g.epoch <= hosting'.epoch /\ g.epoch # hosting'.epoch
    BY <2>1, <1>4, <1>5
  <2> QED BY <2>2, <1>3, <1>5 DEF LeaseGranted
<1>9. FramesFollow' /\ FramesLeased'
  BY <1>1, <1>3 DEF SoloHolds, FramesFollow, FramesLeased
<1>10. UpgradedOnce'
  BY <1>1, <1>3, <1>5 DEF SoloHolds, UpgradedOnce, Local, Staged, SnapshotOf
<1> QED BY <1>6, <1>7, <1>8, <1>9, <1>10 DEF SoloHolds, SoloInvariant

(* A lease that is granted is the host's, of this epoch. *)
LEMMA RenewKeeps ==
    ASSUME SoloInvariant, NEW d \in Hosts, NEW e \in HostEpochs, NEW now \in {ticks - 1, ticks},
           NEW ttl \in Leases, RenewSoloHostLease(d, e, now, ttl)
    PROVE  SoloInvariant'
<1>1. SoloTyped /\ FramesBehind /\ LeaseGranted /\ SoloHolds
  BY DEF SoloInvariant
<1>2. hosting \in Hosting /\ ticks \in Nat \ {0} /\ leased \subseteq [host : Hosts, epoch : Nat]
  BY <1>1 DEF SoloTyped
<1>3. /\ Local /\ hosting.host = d /\ hosting.epoch = e
      /\ hosting' = [hosting EXCEPT !.until = now + ttl]
      /\ leased' = leased \cup {[host |-> d, epoch |-> e]}
      /\ UNCHANGED <<ticks, staged, cloudRows, stores, snapshots, relayed>>
  BY DEF RenewSoloHostLease
<1>4. now + ttl \in Int /\ e \in Nat
  BY <1>2, <1>3 DEF Leases, Hosting
<1>5. /\ hosting'.epoch = hosting.epoch /\ hosting'.mode = hosting.mode /\ hosting'.host = hosting.host
      /\ hosting'.routing = hosting.routing /\ hosting'.sequence = hosting.sequence
      /\ hosting' \in Hosting
  BY <1>2, <1>3, <1>4 DEF Hosting
<1>6. SoloTyped'
  BY <1>1, <1>3, <1>4, <1>5 DEF SoloTyped
<1>7. FramesBehind'
  BY <1>1, <1>3, <1>5 DEF FramesBehind
<1>8. LeaseGranted'
  <2>1. \A g \in leased : g.epoch <= hosting.epoch /\ (g.epoch = hosting.epoch => g.host = hosting.host)
    BY <1>1, <1>3 DEF LeaseGranted
  <2>2. \A g \in leased' : \/ g \in leased
                           \/ g.epoch = hosting.epoch /\ g.host = hosting.host /\ g.epoch \in Nat
    BY <1>3, <1>4
  <2>3. \A g \in leased' : g.epoch <= hosting'.epoch /\ (g.epoch = hosting'.epoch => g.host = hosting'.host)
    BY <2>1, <2>2, <1>5
  <2>4. [host |-> hosting'.host, epoch |-> hosting'.epoch] \in leased'
    BY <1>3, <1>5
  <2> QED BY <2>3, <2>4 DEF LeaseGranted
<1>9. FramesFollow' /\ FramesLeased'
  <2>1. \A g \in leased : g.epoch = e => g.host = d
    BY <1>1, <1>3 DEF LeaseGranted
  <2> QED BY <2>1, <1>1, <1>3 DEF SoloHolds, FramesFollow, FramesLeased
<1>10. UpgradedOnce'
  BY <1>1, <1>3, <1>5 DEF SoloHolds, UpgradedOnce, Local, Staged, SnapshotOf
<1> QED BY <1>6, <1>7, <1>8, <1>9, <1>10 DEF SoloHolds, SoloInvariant

(* The frame that is routed comes after all of its epoch and direction.    *)
LEMMA RouteKeeps ==
    ASSUME SoloInvariant, NEW e \in HostEpochs, NEW x \in Directions, NEW n \in 1 .. MaxRelay,
           NEW now \in {ticks - 1, ticks}, RouteOpaqueFrame(e, x, n, now)
    PROVE  SoloInvariant'
<1> USE DEF SoloInvariant
<1> DEFINE f == [epoch |-> e, host |-> hosting.host, direction |-> x, number |-> n]
<1>1. /\ Local /\ hosting.host # NoHost /\ hosting.epoch = e /\ hosting.until > now
      /\ n > hosting.sequence[x]
      /\ hosting' = [hosting EXCEPT !.sequence[x] = n]
      /\ relayed' = Append(relayed, f)
      /\ UNCHANGED <<ticks, staged, cloudRows, stores, snapshots, leased>>
  BY DEF RouteOpaqueFrame
<1>2. hosting \in Hosting /\ relayed \in Seq(Frame) /\ ticks \in Nat \ {0}
  BY DEF SoloTyped
<1>3. n \in Nat /\ e \in Nat /\ hosting.host \in Hosts
  BY <1>1, <1>2, SoloAssumption DEF Hosting
<1>4. f \in Frame
  BY <1>3 DEF Frame
<1>5. /\ hosting' \in Hosting
      /\ hosting'.epoch = hosting.epoch /\ hosting'.mode = hosting.mode /\ hosting'.host = hosting.host
      /\ hosting'.routing = hosting.routing /\ hosting'.until = hosting.until
      /\ hosting'.sequence = [hosting.sequence EXCEPT ![x] = n]
  BY <1>1, <1>2, <1>3 DEF Hosting
<1>6. SoloTyped'
  BY <1>1, <1>2, <1>4, <1>5 DEF SoloTyped
<1>7. /\ DOMAIN relayed' = 1 .. (Len(relayed) + 1) /\ DOMAIN relayed = 1 .. Len(relayed)
      /\ relayed'[Len(relayed) + 1] = f
      /\ \A k \in DOMAIN relayed : relayed'[k] = relayed[k] /\ relayed[k] \in Frame
  BY <1>1, <1>2, <1>4
<1>8. f.epoch = e /\ f.direction = x /\ f.number = n /\ f.host = hosting.host
  OBVIOUS
<1>9. \A k \in DOMAIN relayed : relayed[k].epoch <= e
                                /\ (relayed[k].epoch = e /\ relayed[k].direction = x => relayed[k].number < n)
  BY <1>1, <1>2, <1>3, <1>7 DEF FramesBehind, Frame, Hosting
<1> HIDE DEF f
<1>10. FramesFollow'
  <2> SUFFICES ASSUME NEW j \in DOMAIN relayed', NEW k \in DOMAIN relayed', j < k
               PROVE  /\ relayed'[j].epoch <= relayed'[k].epoch
                      /\ relayed'[j].epoch = relayed'[k].epoch /\ relayed'[j].direction = relayed'[k].direction
                            => relayed'[j].number < relayed'[k].number
    BY DEF FramesFollow
  <2>1. j \in DOMAIN relayed /\ (k \in DOMAIN relayed \/ k = Len(relayed) + 1)
    BY <1>2, <1>7
  <2>2. CASE k \in DOMAIN relayed
    BY <2>1, <2>2, <1>7 DEF SoloHolds, FramesFollow
  <2>3. CASE k = Len(relayed) + 1
    BY <2>1, <2>3, <1>7, <1>8, <1>9
  <2> QED BY <2>1, <2>2, <2>3
<1>11. [host |-> hosting.host, epoch |-> e] \in leased
  BY <1>1, <1>2 DEF LeaseGranted, Hosting
<1>12. FramesLeased'
  <2>1. \A k \in DOMAIN relayed' : k \in DOMAIN relayed \/ k = Len(relayed) + 1
    BY <1>2, <1>7
  <2> QED BY <2>1, <1>1, <1>7, <1>8, <1>11 DEF SoloHolds, FramesLeased
<1>13. FramesBehind'
  <2> SUFFICES ASSUME NEW k \in DOMAIN relayed'
               PROVE  /\ relayed'[k].epoch <= hosting.epoch
                      /\ relayed'[k].epoch = hosting.epoch
                            => relayed'[k].number <= hosting'.sequence[relayed'[k].direction]
    BY <1>5 DEF FramesBehind
  <2>1. k \in DOMAIN relayed \/ k = Len(relayed) + 1
    BY <1>2, <1>7
  <2>2. hosting.sequence \in [Directions -> Nat]
    BY <1>2 DEF Hosting
  <2>3. CASE k \in DOMAIN relayed
    <3>1. relayed'[k] = relayed[k] /\ relayed[k] \in Frame
      BY <1>7, <2>3
    <3>2. relayed[k].direction \in Directions /\ relayed[k].number \in Nat
      BY <3>1 DEF Frame
    <3>3. CASE relayed[k].direction = x
      BY <3>1, <3>2, <3>3, <2>2, <2>3, <1>1, <1>3, <1>5, <1>9 DEF FramesBehind
    <3>4. CASE relayed[k].direction # x
      BY <3>1, <3>2, <3>4, <2>2, <2>3, <1>5 DEF FramesBehind
    <3> QED BY <3>3, <3>4
  <2>4. CASE k = Len(relayed) + 1
    BY <2>2, <2>4, <1>1, <1>3, <1>5, <1>7, <1>8
  <2> QED BY <2>1, <2>3, <2>4
<1>14. LeaseGranted'
  BY <1>1, <1>5 DEF LeaseGranted, Local
<1>15. UpgradedOnce'
  BY <1>1, <1>5 DEF SoloHolds, UpgradedOnce, Local, Staged, SnapshotOf
<1> QED BY <1>6, <1>10, <1>12, <1>13, <1>14, <1>15 DEF SoloHolds

LEMMA StageKeeps ==
    ASSUME SoloInvariant, NEW i \in Imports, NEW s \in snapshots, StageSoloUpgrade(i, s)
    PROVE  SoloInvariant'
<1> USE DEF SoloInvariant, StageSoloUpgrade
<1>1. s \in SnapshotSet /\ staged \in [Imports -> Import]
  BY DEF SoloTyped
<1>2. s.epoch \in Int /\ s.rows \in SUBSET Requests /\ s = [epoch |-> s.epoch, rows |-> s.rows]
  BY <1>1 DEF SnapshotSet
<1>3. SoloTyped'
  BY <1>1, <1>2 DEF SoloTyped, Import
<1>4. FramesBehind' /\ LeaseGranted' /\ FramesFollow' /\ FramesLeased'
  BY FramesUnmoved
<1>5. UpgradedOnce'
  BY <1>1, <1>2 DEF SoloHolds, UpgradedOnce, Local, Staged, SnapshotOf, Import
<1> QED BY <1>3, <1>4, <1>5 DEF SoloHolds

LEMMA FinalizeKeeps ==
    ASSUME SoloInvariant, NEW i \in Imports, FinalizeSoloUpgrade(i)
    PROVE  SoloInvariant'
<1> USE DEF SoloInvariant, FinalizeSoloUpgrade
<1>1. hosting \in Hosting /\ staged \in [Imports -> Import]
  BY DEF SoloTyped
<1> DEFINE next == hosting.routing + 1
<1>0. next \in Nat /\ hosting' = [hosting EXCEPT !.mode = "cloud", !.routing = next, !.host = NoHost, !.until = 0]
  BY <1>1 DEF Hosting
<1> HIDE DEF next
<1>2. /\ hosting' \in Hosting
      /\ hosting'.epoch = hosting.epoch /\ hosting'.mode = "cloud" /\ hosting'.host = NoHost
      /\ hosting'.routing = hosting.routing + 1 /\ hosting'.until = 0
      /\ hosting'.sequence = hosting.sequence
  <2>1. hosting' = [mode |-> "cloud", host |-> NoHost, epoch |-> hosting.epoch, until |-> 0,
                    sequence |-> hosting.sequence, routing |-> next]
    BY <1>0, <1>1 DEF Hosting
  <2>2. hosting.epoch \in Nat /\ hosting.sequence \in [Directions -> Nat]
    BY <1>1 DEF Hosting
  <2>3. hosting' \in Hosting
    BY <1>0, <2>1, <2>2 DEF Hosting
  <2> QED BY <2>1, <2>3 DEF next
<1>3. /\ staged' \in [Imports -> Import]
      /\ staged'[i].status = "complete" /\ staged'[i].epoch = staged[i].epoch /\ staged'[i].rows = staged[i].rows
      /\ \A j \in Imports : j # i => staged'[j] = staged[j]
  <2>1. staged[i] \in Import /\ staged' = [staged EXCEPT ![i].status = "complete"]
    BY <1>1
  <2>2. [staged[i] EXCEPT !.status = "complete"] \in Import
    BY <2>1 DEF Import
  <2>3. /\ [staged[i] EXCEPT !.status = "complete"].status = "complete"
        /\ [staged[i] EXCEPT !.status = "complete"].epoch = staged[i].epoch
        /\ [staged[i] EXCEPT !.status = "complete"].rows = staged[i].rows
    BY <2>1 DEF Import
  <2> DEFINE done == [staged[i] EXCEPT !.status = "complete"]
  <2>4. staged' = [staged EXCEPT ![i] = done]
    BY <2>1
  <2> HIDE DEF done
  <2>5. staged'[i] = done /\ \A j \in Imports : j # i => staged'[j] = staged[j]
    BY <1>1, <2>4
  <2> QED BY <1>1, <2>2, <2>3, <2>4, <2>5 DEF done
<1>4. SoloTyped'
  BY <1>1, <1>2, <1>3 DEF SoloTyped, Import
<1>5. FramesBehind' /\ FramesFollow' /\ FramesLeased'
  BY <1>2 DEF SoloHolds, FramesBehind, FramesFollow, FramesLeased
<1>6. LeaseGranted'
  BY <1>2 DEF LeaseGranted, Local
<1>7. /\ \A j \in Imports : staged[j].status # "complete"
      /\ hosting.routing = 1 /\ cloudRows = {} /\ hosting.epoch = staged[i].epoch
  BY DEF SoloHolds, UpgradedOnce
<1>8. {j \in Imports : staged'[j].status = "complete"} = {i}
  BY <1>3, <1>7
<1>9. cloudRows' = staged'[i].rows
  BY <1>3, <1>7
<1>10. \A j \in Imports : staged'[j].status # "none"
                             => staged[j].status # "none" /\ staged'[j].epoch = staged[j].epoch /\ staged'[j].rows = staged[j].rows
  BY <1>3
<1>11. \A j \in Imports : Staged(j)' => SnapshotOf(staged'[j]) \in snapshots'
  BY <1>10 DEF SoloHolds, UpgradedOnce, Staged, SnapshotOf
<1>12. UpgradedOnce'
  BY <1>2, <1>3, <1>7, <1>8, <1>9, <1>11 DEF UpgradedOnce, Local
<1> QED BY <1>4, <1>5, <1>6, <1>12 DEF SoloHolds

LEMMA PassKeeps ==
    ASSUME SoloInvariant, Pass
    PROVE  SoloInvariant'
<1>1. SoloTyped'
  BY DEF SoloInvariant, SoloTyped, Pass
<1> QED BY <1>1, FramesUnmoved, UpgradeUnmoved DEF SoloInvariant, SoloHolds, Pass

LEMMA SoloStart == SoloInit => SoloInvariant
<1> SUFFICES ASSUME SoloInit PROVE SoloInvariant
  OBVIOUS
<1> USE DEF SoloInit
<1>1. hosting \in Hosting
  BY DEF Hosting, Directions
<1>2. staged \in [Imports -> Import]
  BY DEF NoImport, Import
<1>3. EmptyStore.log \in [{} -> Int] /\ {} \in SUBSET Requests
  BY DEF EmptyStore
<1>33. \E D \in SUBSET Requests : EmptyStore.log \in [D -> Int]
  BY <1>3
<1>34. EmptyStore.log \in UNION {[D -> Int] : D \in SUBSET Requests}
  BY <1>33
<1>35. EmptyStore = [epoch |-> 0, rows |-> {}, log |-> EmptyStore.log]
  BY DEF EmptyStore
<1>4. EmptyStore \in [epoch : Int, rows : SUBSET Requests, log : UNION {[D -> Int] : D \in SUBSET Requests}]
  BY <1>34, <1>35
<1>5. SoloTyped
  BY <1>1, <1>2, <1>4 DEF SoloTyped
<1>6. FramesBehind /\ LeaseGranted /\ FramesFollow /\ FramesLeased
  BY DEF FramesBehind, LeaseGranted, FramesFollow, FramesLeased
<1>7. UpgradedOnce
  BY DEF UpgradedOnce, Local, NoImport, Staged
<1> QED BY <1>5, <1>6, <1>7 DEF SoloInvariant, SoloHolds

LEMMA SoloKeeps == SoloInvariant /\ [SoloNext]_soloVars => SoloInvariant'
<1> SUFFICES ASSUME SoloInvariant, [SoloNext]_soloVars PROVE SoloInvariant'
  OBVIOUS
<1>1. CASE StoreStep
  BY <1>1, StoreKeeps
<1>2. CASE RelayStep
  BY <1>2, DesignateKeeps, RenewKeeps, RouteKeeps, PassKeeps DEF RelayStep, LeaseStep
<1>3. CASE UpgradeStep
  BY <1>3, StageKeeps, FinalizeKeeps DEF UpgradeStep
<1>4. CASE UNCHANGED soloVars
  <2>1. UNCHANGED <<ticks, hosting, staged, cloudRows, stores, snapshots, relayed, leased>>
    BY <1>4 DEF soloVars
  <2>2. SoloTyped'
    BY <2>1 DEF SoloInvariant, SoloTyped
  <2> QED BY <2>1, <2>2, FramesUnmoved, UpgradeUnmoved DEF SoloInvariant, SoloHolds
<1> QED BY <1>1, <1>2, <1>3, <1>4 DEF SoloNext

-----------------------------------------------------------------------------
(* Pushes. *)

Entries == People \X Subjects
Tells == [status : {"none", "pending", "delivered", "dead"}, attempts : Nat]
Dispatches == [pc : {"idle", "sealing", "sending", "answered"}, to : People \cup {NoBody},
               about : Subjects \cup {NoBody}, todo : SUBSET Browsers, any : BOOLEAN,
               at : Browsers \cup {NoBody}, answer : {"none", "delivered", "expired", "retry"}]

PushTables ==
    /\ standing \subseteq People
    /\ subscriptions \in [Browsers -> People \cup {NoBody}]
    /\ tells \in [Entries -> Tells]
    /\ pushed \in [Entries -> [Browsers -> Nat]]
    /\ dispatch \in Dispatches
    /\ dispatch.pc # "idle" => Entry \in Entries /\ tells[Entry].status = "pending"
    /\ dispatch.pc = "answered" => dispatch.at \in dispatch.todo

(* What the drain has done so far for the entry it holds: it takes a push   *)
(* for sent only where one was, and unless an answer was lost it has been   *)
(* to nobody it has yet to go to.                                           *)
DispatchTrue ==
    dispatch.pc # "idle" =>
        /\ dispatch.any => \E b \in Browsers : pushed[Entry][b] > 0
        /\ dispatch.pc = "answered" /\ dispatch.answer = "delivered" => pushed[Entry][dispatch.at] > 0
        /\ Entry \notin unsure =>
              \A b \in Browsers : pushed[Entry][b] > 0 =>
                 /\ b \notin dispatch.todo \/ (dispatch.pc = "answered" /\ dispatch.at = b)
                 /\ dispatch.pc # "sealing"
                 /\ dispatch.any \/ (dispatch.pc = "answered" /\ dispatch.answer = "delivered")

(* An entry that is to be tried, and is not being tried, reached nobody.    *)
PushedOnce ==
    \A e \in Entries \ unsure : \A b \in Browsers :
        /\ pushed[e][b] <= 1
        /\ tells[e].status # "delivered" /\ ~(dispatch.pc # "idle" /\ Entry = e) => pushed[e][b] = 0

ShownOnce == \A b \in Browsers : \A c, d \in displayed[b] : c.about = d.about => c = d
ShowsAreSets == displayed = [b \in Browsers |-> displayed[b]]

LateIsLate == \A e \in Entries : <<e, "late">> \in accounted => e[2] \in overdue

PushInvariant ==
    /\ PushTables /\ FormerMembersForgotten /\ DispatchTrue /\ PushedOnce
    /\ ShowsAreSets /\ ShownOnce /\ LateIsLate /\ DeliveredIsTold

LEMMA PushesStart == PushesInit => PushInvariant
<1> SUFFICES ASSUME PushesInit PROVE PushInvariant
  OBVIOUS
<1>1. Resting \in Dispatches /\ Resting.pc = "idle"
  BY DEF Resting, Dispatches
<1>2. NoTell \in Tells /\ NoTell.status = "none"
  BY DEF NoTell, Tells
<1>3. room.first \in People
  BY PushesAssumption DEF PushesInit
<1>4. \A e \in Entries : tells[e] = NoTell /\ pushed[e] = [b \in Browsers |-> 0]
  BY DEF PushesInit, Entries
<1>5. tells \in [Entries -> Tells] /\ pushed \in [Entries -> [Browsers -> Nat]]
  BY <1>2 DEF PushesInit, Entries
<1>6. PushTables /\ FormerMembersForgotten
  BY <1>1, <1>3, <1>5 DEF PushesInit, PushTables, FormerMembersForgotten
<1>7. DispatchTrue
  BY <1>1 DEF PushesInit, DispatchTrue
<1>70. \A e \in Entries : \A b \in Browsers : pushed[e][b] = 0
  BY <1>4
<1>71. PushedOnce
  BY <1>70 DEF PushedOnce
<1>8. ShowsAreSets /\ ShownOnce
  BY DEF PushesInit, ShowsAreSets, ShownOnce
<1>9. LateIsLate /\ DeliveredIsTold
  BY <1>2, <1>4 DEF PushesInit, LateIsLate, DeliveredIsTold, Entries
<1> QED BY <1>6, <1>7, <1>71, <1>8, <1>9 DEF PushInvariant

(* What leaves the drain and its record alone, and takes no subscription    *)
(* from a member for somebody who is none.                                  *)
LEMMA PeopleMove ==
    ASSUME PushInvariant,
           standing' \subseteq People,
           subscriptions' \in [Browsers -> People \cup {NoBody}],
           \A b \in Browsers : subscriptions'[b] # NoBody => subscriptions'[b] \in standing',
           overdue \subseteq overdue',
           UNCHANGED <<tells, dispatch, displayed, accounted, pushed, unsure>>
    PROVE  PushInvariant'
<1>1. PushTables' /\ FormerMembersForgotten'
  BY DEF PushInvariant, PushTables, FormerMembersForgotten, Entry
<1>2. DispatchTrue' /\ PushedOnce'
  BY DEF PushInvariant, DispatchTrue, PushedOnce, Entry
<1>3. ShowsAreSets' /\ ShownOnce'
  BY DEF PushInvariant, ShowsAreSets, ShownOnce
<1>4. LateIsLate' /\ DeliveredIsTold'
  BY DEF PushInvariant, LateIsLate, DeliveredIsTold
<1> QED BY <1>1, <1>2, <1>3, <1>4 DEF PushInvariant

LEMMA PeopleStepHolds == PushInvariant /\ PeopleStep => PushInvariant'
<1> SUFFICES ASSUME PushInvariant, PeopleStep PROVE PushInvariant'
  OBVIOUS
<1>0. /\ standing \subseteq People /\ subscriptions \in [Browsers -> People \cup {NoBody}]
      /\ \A b \in Browsers : subscriptions[b] # NoBody => subscriptions[b] \in standing
  BY DEF PushInvariant, PushTables, FormerMembersForgotten
<1>1. ASSUME NEW p \in People, Offboard(p) PROVE PushInvariant'
  <2>1. /\ standing' = standing \ {p}
        /\ subscriptions' = [b \in Browsers |-> IF subscriptions[b] = p THEN NoBody ELSE subscriptions[b]]
        /\ UNCHANGED <<tells, dispatch, displayed, accounted, pushed, unsure, overdue>>
    BY <1>1 DEF Offboard, outer
  <2> QED BY <1>0, <2>1, PeopleMove
<1>2. ASSUME NEW p \in People, NEW s \in Subjects, Leave(p, s) PROVE PushInvariant'
  BY <1>0, <1>2, PeopleMove DEF Leave, outer
<1>3. ASSUME NEW s \in Subjects, Close(s) PROVE PushInvariant'
  BY <1>0, <1>3, PeopleMove DEF Close, outer
<1>4. ASSUME NEW s \in Subjects, RunOut(s) PROVE PushInvariant'
  BY <1>0, <1>4, PeopleMove DEF RunOut, outer
<1>5. ASSUME NEW p \in People, NEW s \in Subjects, Tell(p, s) PROVE PushInvariant'
  <2>1. PICK e : e = <<p, s>>
    OBVIOUS
  <2>2. e \in Entries /\ tells[e] = NoTell /\ tells' = [tells EXCEPT ![e].status = "pending"]
    BY <1>5, <2>1 DEF Tell, Entries
  <2>3. PICK row : row = [tells[e] EXCEPT !.status = "pending"]
    OBVIOUS
  <2>4. row \in Tells /\ row.status = "pending" /\ tells[e].status = "none"
    BY <2>2, <2>3 DEF PushInvariant, PushTables, Tells, NoTell
  <2>5. /\ tells' = [tells EXCEPT ![e] = row] /\ tells \in [Entries -> Tells] /\ tells' \in [Entries -> Tells]
        /\ UNCHANGED <<standing, subscriptions, dispatch, displayed, accounted, pushed, unsure, overdue>>
    BY <1>5, <2>2, <2>3, <2>4 DEF Tell, PushInvariant, PushTables, people
  <2>6. PushTables' /\ FormerMembersForgotten'
    BY <2>2, <2>4, <2>5 DEF PushInvariant, PushTables, FormerMembersForgotten, Entry
  <2>7. DispatchTrue' /\ PushedOnce'
    BY <2>2, <2>4, <2>5 DEF PushInvariant, DispatchTrue, PushedOnce, Entry
  <2>8. ShowsAreSets' /\ ShownOnce' /\ LateIsLate'
    BY <2>5 DEF PushInvariant, ShowsAreSets, ShownOnce, LateIsLate
  <2>9. DeliveredIsTold'
    BY <2>2, <2>4, <2>5 DEF PushInvariant, DeliveredIsTold, Entries
  <2> QED BY <2>6, <2>7, <2>8, <2>9 DEF PushInvariant
<1> QED BY <1>1, <1>2, <1>3, <1>4, <1>5 DEF PeopleStep

LEMMA BrowserStepHolds == PushInvariant /\ BrowserStep => PushInvariant'
<1> SUFFICES ASSUME PushInvariant, BrowserStep PROVE PushInvariant'
  OBVIOUS
<1>0. /\ standing \subseteq People /\ subscriptions \in [Browsers -> People \cup {NoBody}]
      /\ \A b \in Browsers : subscriptions[b] # NoBody => subscriptions[b] \in standing
  BY DEF PushInvariant, PushTables, FormerMembersForgotten
<1>1. ASSUME NEW b \in Browsers, NEW p \in People, SubscribeToPush(b, p) \/ UnsubscribeFromPush(b, p)
      PROVE  PushInvariant'
  <2>1. /\ subscriptions' \in [Browsers -> People \cup {NoBody}]
        /\ \A c \in Browsers : subscriptions'[c] # NoBody => subscriptions'[c] \in standing
    BY <1>0, <1>1 DEF SubscribeToPush, UnsubscribeFromPush
  <2>2. UNCHANGED <<standing, overdue, tells, dispatch, displayed, accounted, pushed, unsure>>
    BY <1>1 DEF SubscribeToPush, UnsubscribeFromPush, people
  <2> QED BY <1>0, <2>1, <2>2, PeopleMove
<1>2. ASSUME NEW b \in Browsers, NEW p \in People \cup {NoBody}, Sign(b, p) PROVE PushInvariant'
  BY <1>0, <1>2, PeopleMove DEF Sign, outer
<1>3. ASSUME NEW b \in Browsers, NEW what, Ask(b, what) PROVE PushInvariant'
  BY <1>0, <1>3, PeopleMove DEF Ask
<1>4. ASSUME NEW b \in Browsers, DropEndpoint(b) PROVE PushInvariant'
  BY <1>0, <1>4, PeopleMove DEF DropEndpoint
<1>5. ASSUME NEW b \in Browsers, NEW s \in Subjects, Present(b, s) PROVE PushInvariant'
  <2>1. PICK d : d = [about |-> s, to |-> signedIn[b], words |-> signedIn[b] # NoBody /\ Words(signedIn[b], s)]
    OBVIOUS
  <2>2. PICK shown : shown = {x \in displayed[b] : x.about # s} \cup {d}
    OBVIOUS
  <2>3. /\ displayed' = [displayed EXCEPT ![b] = shown] /\ d.about = s
        /\ UNCHANGED <<standing, overdue, subscriptions, tells, dispatch, accounted, pushed, unsure>>
    BY <1>5, <2>1, <2>2 DEF Present, people
  <2>4. ShowsAreSets'
    BY <2>3 DEF PushInvariant, ShowsAreSets
  <2>5. ShownOnce'
    BY <2>2, <2>3 DEF PushInvariant, ShowsAreSets, ShownOnce
  <2>6. PushTables' /\ FormerMembersForgotten'
    BY <2>3 DEF PushInvariant, PushTables, FormerMembersForgotten, Entry
  <2>7. DispatchTrue' /\ PushedOnce'
    BY <2>3 DEF PushInvariant, DispatchTrue, PushedOnce, Entry
  <2>8. LateIsLate' /\ DeliveredIsTold'
    BY <2>3 DEF PushInvariant, LateIsLate, DeliveredIsTold
  <2> QED BY <2>4, <2>5, <2>6, <2>7, <2>8 DEF PushInvariant
<1> QED BY <1>1, <1>2, <1>3, <1>4, <1>5 DEF BrowserStep

(* An attempt ends: as delivered where there was nobody, too little time,   *)
(* or somebody was reached, and for another try only where nobody was.      *)
LEMMA AttemptEnds ==
    ASSUME PushInvariant, NEW e \in Entries, tells[e].status = "pending",
           NEW status \in {"delivered", "pending", "dead"}, NEW why,
           dispatch.pc # "idle" => Entry = e,
           Settling(e, status, why),
           status = "delivered" => \/ why = "none" \/ (why = "late" /\ e[2] \in overdue)
                                   \/ why = "taken" /\ \E b \in Browsers : pushed[e][b] > 0,
           status # "delivered" => dispatch.pc # "idle" /\ dispatch.pc # "answered" /\ ~dispatch.any,
           UNCHANGED <<standing, overdue, subscriptions, displayed, pushed, unsure>>
    PROVE  PushInvariant'
<1>1. PICK more : more = tells[e].attempts + 1
  OBVIOUS
<1>2. tells \in [Entries -> Tells] /\ tells[e] \in Tells /\ more \in Nat
  BY <1>1 DEF PushInvariant, PushTables, Tells
<1>20. PICK row : row = [tells[e] EXCEPT !.attempts = more, !.status = status]
  OBVIOUS
<1>3. row \in Tells /\ row.status = status
  BY <1>2, <1>20 DEF Tells
<1>4. tells' = [tells EXCEPT ![e] = row]
  BY <1>1, <1>2, <1>20 DEF Settling, Tells
<1>5. /\ tells' \in [Entries -> Tells] /\ \A x \in Entries : tells'[x] = IF x = e THEN row ELSE tells[x]
      /\ dispatch' = Resting /\ Resting.pc = "idle" /\ Resting \in Dispatches
      /\ accounted' = IF status = "delivered" THEN accounted \cup {<<e, why>>} ELSE accounted
  BY <1>2, <1>3, <1>4 DEF Settling, Resting, Dispatches
<1>6. PushTables' /\ FormerMembersForgotten'
  BY <1>5 DEF PushInvariant, PushTables, FormerMembersForgotten
<1>7. DispatchTrue'
  BY <1>5 DEF DispatchTrue
<1>8. PushedOnce'
  <2>1. e \notin unsure /\ status # "delivered" => \A b \in Browsers : pushed[e][b] = 0
    BY DEF PushInvariant, PushTables, DispatchTrue
  <2>2. \A x \in Entries \ unsure : x # e => ~(dispatch.pc # "idle" /\ Entry = x)
    OBVIOUS
  <2> QED BY <1>3, <1>5, <2>1, <2>2 DEF PushInvariant, PushedOnce
<1>9. ShowsAreSets' /\ ShownOnce'
  BY DEF PushInvariant, ShowsAreSets, ShownOnce
<1>10. LateIsLate'
  BY <1>5 DEF PushInvariant, LateIsLate
<1>11. DeliveredIsTold'
  BY <1>3, <1>5 DEF PushInvariant, DeliveredIsTold, Entries
<1> QED BY <1>6, <1>7, <1>8, <1>9, <1>10, <1>11 DEF PushInvariant

LEMMA DispatchStepHolds == PushInvariant /\ DispatchStep => PushInvariant'
<1> SUFFICES ASSUME PushInvariant, DispatchStep PROVE PushInvariant'
  OBVIOUS
<1>0. /\ dispatch \in Dispatches /\ (dispatch.pc # "idle" => Entry \in Entries /\ tells[Entry].status = "pending")
      /\ tells \in [Entries -> Tells] /\ pushed \in [Entries -> [Browsers -> Nat]]
      /\ subscriptions \in [Browsers -> People \cup {NoBody}]
      /\ dispatch.pc = "answered" => dispatch.at \in dispatch.todo
  BY DEF PushInvariant, PushTables
<1>1. ASSUME NEW p \in People, NEW s \in Subjects, DispatchPush(p, s) PROVE PushInvariant'
  <2>1. PICK e : e = <<p, s>>
    OBVIOUS
  <2>2. PICK mine : mine = {b \in Browsers : subscriptions[b] = p}
    OBVIOUS
  <2>3. e \in Entries /\ dispatch.pc = "idle" /\ tells[e].status = "pending"
        /\ UNCHANGED <<standing, overdue, subscriptions, displayed, pushed, unsure>>
    BY <1>1, <2>1 DEF DispatchPush, Entries, people
  <2>4. CASE mine = {}
    <3>1. Settling(e, "delivered", "none")
      BY <1>1, <2>1, <2>2, <2>4 DEF DispatchPush
    <3> QED BY <2>3, <3>1, AttemptEnds
  <2>5. CASE mine # {}
    <3>1. PICK r : r = [Resting EXCEPT !.pc = "sealing", !.to = p, !.about = s, !.todo = mine]
      OBVIOUS
    <3>2. /\ dispatch' = r /\ UNCHANGED <<tells, accounted>>
          /\ r.pc = "sealing" /\ r.to = p /\ r.about = s /\ r.any = FALSE /\ r \in Dispatches
      BY <1>1, <2>1, <2>2, <2>5, <3>1 DEF DispatchPush, Resting, Dispatches
    <3>3. Entry' = e
      BY <2>1, <3>2 DEF Entry
    <3>4. PushTables' /\ FormerMembersForgotten'
      BY <2>3, <3>2, <3>3 DEF PushInvariant, PushTables, FormerMembersForgotten
    <3>5. DispatchTrue' /\ PushedOnce'
      BY <2>3, <3>2, <3>3 DEF PushInvariant, DispatchTrue, PushedOnce
    <3>6. ShowsAreSets' /\ ShownOnce' /\ LateIsLate' /\ DeliveredIsTold'
      BY <2>3, <3>2 DEF PushInvariant, ShowsAreSets, ShownOnce, LateIsLate, DeliveredIsTold
    <3> QED BY <3>4, <3>5, <3>6 DEF PushInvariant
  <2> QED BY <2>4, <2>5
<1>2. CASE CheckTtl
  <2>0. dispatch.pc = "sealing" /\ UNCHANGED <<standing, overdue, subscriptions, displayed, pushed, unsure>>
    BY <1>2 DEF CheckTtl, people
  <2>1. CASE dispatch.about \in overdue
    <3>1. Settling(Entry, "delivered", "late") /\ Entry[2] \in overdue
      BY <1>2, <2>1 DEF CheckTtl, Entry
    <3> QED BY <1>0, <2>0, <3>1, AttemptEnds
  <2>2. CASE dispatch.about \notin overdue
    <3>1. PICK r : r = [dispatch EXCEPT !.pc = "sending"]
      OBVIOUS
    <3>2. /\ dispatch' = r /\ r \in Dispatches /\ r.pc = "sending" /\ r.any = dispatch.any /\ r.todo = dispatch.todo
          /\ r.to = dispatch.to /\ r.about = dispatch.about /\ UNCHANGED <<tells, accounted>>
      BY <1>0, <1>2, <2>2, <3>1 DEF CheckTtl, Dispatches
    <3>3. Entry' = Entry
      BY <3>2 DEF Entry
    <3>4. PushTables' /\ FormerMembersForgotten'
      BY <2>0, <3>2, <3>3 DEF PushInvariant, PushTables, FormerMembersForgotten
    <3>5. DispatchTrue' /\ PushedOnce'
      BY <2>0, <3>2, <3>3 DEF PushInvariant, DispatchTrue, PushedOnce
    <3>6. ShowsAreSets' /\ ShownOnce' /\ LateIsLate' /\ DeliveredIsTold'
      BY <2>0, <3>2 DEF PushInvariant, ShowsAreSets, ShownOnce, LateIsLate, DeliveredIsTold
    <3> QED BY <3>4, <3>5, <3>6 DEF PushInvariant
  <2> QED BY <2>1, <2>2
<1>3. ASSUME NEW b \in Browsers, SendPush(b) PROVE PushInvariant'
  <2>1. PICK answer \in {"delivered", "expired", "retry"} :
          dispatch' = [dispatch EXCEPT !.pc = "answered", !.at = b, !.answer = answer]
          /\ (answer = "delivered" => pushed' = [pushed EXCEPT ![Entry][b] = @ + 1])
          /\ (answer = "expired" => pushed' = pushed)
          /\ (answer = "retry" => pushed' = pushed \/ (Entry \in unsure' /\ pushed' = [pushed EXCEPT ![Entry][b] = @ + 1]))
    BY <1>3 DEF SendPush
  <2>2. /\ dispatch.pc = "sending" /\ b \in dispatch.todo /\ Entry \in Entries
        /\ UNCHANGED <<standing, overdue, subscriptions, tells, displayed, accounted>>
        /\ unsure \subseteq unsure' /\ unsure' \subseteq unsure \cup {Entry}
    BY <1>0, <1>3 DEF SendPush, Mishap
  <2>3. PICK r : r = [dispatch EXCEPT !.pc = "answered", !.at = b, !.answer = answer]
    OBVIOUS
  <2>4. /\ dispatch' = r /\ r \in Dispatches /\ r.pc = "answered" /\ r.at = b /\ r.answer = answer
        /\ r.any = dispatch.any /\ r.todo = dispatch.todo /\ r.to = dispatch.to /\ r.about = dispatch.about
    BY <1>0, <2>1, <2>3 DEF Dispatches
  <2>5. Entry' = Entry
    BY <2>4 DEF Entry
  <2>6. PICK more : more = [pushed[Entry] EXCEPT ![b] = @ + 1]
    OBVIOUS
  <2>7. /\ pushed[Entry] \in [Browsers -> Nat] /\ more \in [Browsers -> Nat]
        /\ more[b] = pushed[Entry][b] + 1 /\ pushed[Entry][b] \in Nat
        /\ \A c \in Browsers : c # b => more[c] = pushed[Entry][c]
    BY <1>0, <2>2, <2>6
  <2>8. pushed' = pushed \/ pushed' = [pushed EXCEPT ![Entry] = more]
    BY <1>0, <2>1, <2>6
  <2>9. /\ pushed' \in [Entries -> [Browsers -> Nat]]
        /\ \A e \in Entries : \A c \in Browsers : pushed'[e][c] >= pushed[e][c]
        /\ \A e \in Entries : \A c \in Browsers : e # Entry \/ c # b => pushed'[e][c] = pushed[e][c]
        /\ pushed'[Entry][b] <= pushed[Entry][b] + 1
    <3>1. CASE pushed' = pushed
      BY <1>0, <2>7, <3>1
    <3>2. CASE pushed' = [pushed EXCEPT ![Entry] = more]
      <4>1. \A e \in Entries : pushed'[e] = IF e = Entry THEN more ELSE pushed[e]
        BY <1>0, <3>2
      <4>2. pushed' \in [Entries -> [Browsers -> Nat]]
        BY <1>0, <2>2, <2>7, <3>2
      <4>3. \A e \in Entries : \A c \in Browsers : pushed[e][c] \in Nat
        BY <1>0
      <4>4. \A c \in Browsers : more[c] >= pushed[Entry][c]
        BY <2>2, <2>7, <4>3
      <4> QED BY <2>2, <2>7, <4>1, <4>2, <4>3, <4>4
    <3> QED BY <2>8, <3>1, <3>2
  <2>10. /\ answer = "delivered" => pushed'[Entry][b] > 0
         /\ answer = "expired" \/ answer = "retry" => pushed' = pushed \/ Entry \in unsure'
    BY <1>0, <2>1, <2>2, <2>7
  <2>11. Entry \notin unsure => pushed[Entry][b] = 0
    BY <2>2, <2>7 DEF PushInvariant, DispatchTrue
  <2>12. PushTables' /\ FormerMembersForgotten'
    BY <2>2, <2>4, <2>5, <2>9 DEF PushInvariant, PushTables, FormerMembersForgotten
  <2>13. DispatchTrue'
    <3>1. dispatch.any => \E c \in Browsers : pushed'[Entry][c] > 0
      BY <1>0, <2>2, <2>9 DEF PushInvariant, DispatchTrue
    <3>2. ASSUME Entry \notin unsure', NEW c \in Browsers, pushed'[Entry][c] > 0
          PROVE  /\ c \notin r.todo \/ r.at = c
                 /\ r.any \/ r.answer = "delivered"
      <4>1. Entry \notin unsure
        BY <2>2, <3>2
      <4>2. CASE c = b
        <5>1. pushed' # pushed
          BY <2>11, <3>2, <4>1, <4>2
        <5> QED BY <2>4, <2>10, <3>2, <4>2, <5>1
      <4>3. CASE c # b
        <5>1. pushed[Entry][c] > 0
          BY <2>2, <2>9, <3>2, <4>3
        <5> QED BY <2>2, <2>4, <4>1, <5>1 DEF PushInvariant, DispatchTrue
      <4> QED BY <4>2, <4>3
    <3> QED BY <2>4, <2>5, <2>10, <3>1, <3>2 DEF DispatchTrue
  <2>14. PushedOnce'
    <3> SUFFICES ASSUME NEW e \in Entries \ unsure', NEW c \in Browsers
                 PROVE  /\ pushed'[e][c] <= 1
                        /\ tells[e].status # "delivered" /\ Entry # e => pushed'[e][c] = 0
      BY <2>2, <2>4, <2>5 DEF PushedOnce
    <3>1. pushed[e][c] <= 1 /\ (tells[e].status # "delivered" /\ Entry # e => pushed[e][c] = 0)
      BY <2>2 DEF PushInvariant, PushedOnce
    <3>2. pushed[e][c] \in Nat /\ pushed'[e][c] \in Nat
      BY <1>0, <2>9
    <3> QED BY <2>2, <2>9, <2>11, <3>1, <3>2
  <2>15. ShowsAreSets' /\ ShownOnce' /\ LateIsLate'
    BY <2>2 DEF PushInvariant, ShowsAreSets, ShownOnce, LateIsLate
  <2>16. DeliveredIsTold'
    <3> SUFFICES ASSUME NEW e \in Entries, tells[e].status = "delivered", NEW c \in Browsers, pushed[e][c] > 0
                 PROVE  pushed'[e][c] > 0
      BY <2>2 DEF PushInvariant, DeliveredIsTold, Entries
    <3> QED BY <1>0, <2>9
  <2> QED BY <2>12, <2>13, <2>14, <2>15, <2>16 DEF PushInvariant
<1>4. CASE AnswerPush
  <2>1. PICK r : r = [dispatch EXCEPT !.pc = "sending", !.todo = @ \ {dispatch.at}, !.at = NoBody,
                                      !.any = @ \/ dispatch.answer = "delivered", !.answer = "none"]
    OBVIOUS
  <2>2. /\ dispatch' = r /\ r \in Dispatches /\ r.pc = "sending" /\ r.todo = dispatch.todo \ {dispatch.at}
        /\ r.to = dispatch.to /\ r.about = dispatch.about
        /\ r.any <=> (dispatch.any \/ dispatch.answer = "delivered")
    BY <1>0, <1>4, <2>1, Zenon DEF AnswerPush, Dispatches
  <2>3. /\ dispatch.pc = "answered" /\ dispatch.at \in Browsers
        /\ UNCHANGED <<standing, overdue, tells, displayed, accounted, pushed, unsure>>
        /\ subscriptions' \in [Browsers -> People \cup {NoBody}]
        /\ \A b \in Browsers : subscriptions'[b] \in {subscriptions[b], NoBody}
    BY <1>0, <1>4 DEF AnswerPush, people, Dispatches
  <2>4. Entry' = Entry
    BY <2>2 DEF Entry
  <2>5. PushTables' /\ FormerMembersForgotten'
    BY <2>2, <2>3, <2>4 DEF PushInvariant, PushTables, FormerMembersForgotten
  <2>6. DispatchTrue' /\ PushedOnce'
    BY <2>2, <2>3, <2>4 DEF PushInvariant, DispatchTrue, PushedOnce
  <2>7. ShowsAreSets' /\ ShownOnce' /\ LateIsLate' /\ DeliveredIsTold'
    BY <2>3 DEF PushInvariant, ShowsAreSets, ShownOnce, LateIsLate, DeliveredIsTold
  <2> QED BY <2>5, <2>6, <2>7 DEF PushInvariant
<1>5. CASE EndPush
  <2>0. dispatch.pc = "sending" /\ UNCHANGED <<standing, overdue, subscriptions, displayed, pushed, unsure>>
    BY <1>5 DEF EndPush, people
  <2>1. CASE dispatch.any
    <3>1. Settling(Entry, "delivered", "taken")
      BY <1>5, <2>1 DEF EndPush
    <3>2. \E b \in Browsers : pushed[Entry][b] > 0
      BY <2>0, <2>1 DEF PushInvariant, DispatchTrue
    <3> QED BY <1>0, <2>0, <3>1, <3>2, AttemptEnds
  <2>2. CASE ~dispatch.any
    <3>1. PICK status \in {"dead", "pending"} : Settling(Entry, status, "none")
      BY <1>5, <2>2 DEF EndPush
    <3> QED BY <1>0, <2>0, <2>2, <3>1, AttemptEnds
  <2> QED BY <2>1, <2>2
<1>6. CASE LoseDispatch
  <2>1. /\ dispatch.pc # "idle" /\ dispatch' = Resting /\ unsure' = unsure \cup {Entry}
        /\ UNCHANGED <<standing, overdue, subscriptions, tells, displayed, accounted, pushed>>
        /\ Resting \in Dispatches /\ Resting.pc = "idle"
    BY <1>6 DEF LoseDispatch, Resting, Dispatches
  <2>2. PushTables' /\ FormerMembersForgotten' /\ DispatchTrue'
    BY <2>1 DEF PushInvariant, PushTables, FormerMembersForgotten, DispatchTrue
  <2>3. PushedOnce'
    BY <2>1 DEF PushInvariant, PushedOnce
  <2>4. ShowsAreSets' /\ ShownOnce' /\ LateIsLate' /\ DeliveredIsTold'
    BY <2>1 DEF PushInvariant, ShowsAreSets, ShownOnce, LateIsLate, DeliveredIsTold
  <2> QED BY <2>2, <2>3, <2>4 DEF PushInvariant
<1> QED BY <1>1, <1>2, <1>3, <1>4, <1>5, <1>6 DEF DispatchStep

LEMMA PushesStep == PushInvariant /\ [PushesNext]_pushVars => PushInvariant'
<1> SUFFICES ASSUME PushInvariant, [PushesNext]_pushVars PROVE PushInvariant'
  OBVIOUS
<1>1. CASE UNCHANGED pushVars
  <2>1. /\ standing \subseteq People /\ subscriptions \in [Browsers -> People \cup {NoBody}]
        /\ \A b \in Browsers : subscriptions[b] # NoBody => subscriptions[b] \in standing
    BY DEF PushInvariant, PushTables, FormerMembersForgotten
  <2> QED BY <1>1, <2>1, PeopleMove DEF pushVars, people
<1> QED BY <1>1, PeopleStepHolds, BrowserStepHolds, DispatchStepHolds DEF PushesNext

LEMMA PushesAreHeld == PushInvariant => PushesHold
<1> SUFFICES ASSUME PushInvariant PROVE PushesHold
  OBVIOUS
<1>1. ASSUME NEW e \in Entries, NEW b \in Browsers
      PROVE  Cardinality({d \in displayed[b] : d.about = e[2]}) <= 1
  <2>1. PICK S : S = {d \in displayed[b] : d.about = e[2]}
    OBVIOUS
  <2>2. CASE S = {}
    <3>1. Cardinality(S) = 0
      BY <2>2, FS_EmptySet
    <3> QED BY <2>1, <3>1
  <2>3. CASE S # {}
    <3>1. PICK d : d \in S
      BY <2>3
    <3>2. S = {d}
      BY <2>1, <3>1 DEF PushInvariant, ShownOnce
    <3>3. Cardinality({d}) = 1
      BY FS_Singleton
    <3> QED BY <2>1, <3>2, <3>3
  <2> QED BY <2>2, <2>3
<1>2. ASSUME NEW e \in Entries, NEW b \in Browsers, pushed[e][b] > 1 PROVE e \in unsure
  <2>1. pushed[e][b] \in Nat
    BY DEF PushInvariant, PushTables
  <2> QED BY <1>2, <2>1 DEF PushInvariant, PushedOnce
<1>3. WokenOnce
  BY <1>1, <1>2 DEF WokenOnce, Entries
<1> QED BY <1>3 DEF PushInvariant, PushesHold

-----------------------------------------------------------------------------
(* Writes of clients. *)

WrittenIsSequence == \E E : written \in Seq(E)

CallsRead ==
    /\ toolCalls = [c \in Calls |-> toolCalls[c]]
    /\ \A c \in Calls :
          /\ toolCalls[c].pc \in {"sent", "looked"} =>
                /\ toolCalls[c] = [pc |-> toolCalls[c].pc, request |-> toolCalls[c].request, at |-> toolCalls[c].at]
                /\ toolCalls[c].at \in Nat /\ toolCalls[c].at <= minute /\ minute - toolCalls[c].at <= Lateness
          /\ toolCalls[c].pc = "looked" =>
                toolCalls[c].request.tool = "agent_post" /\ toolCalls[c].request.cred = "session"

(* What is written was committed by now, and counts against the window that *)
(* its bucket has.                                                          *)
WindowsTyped ==
    /\ minute \in Nat
    /\ \A i \in DOMAIN written : written[i].committed \in Nat /\ written[i].committed <= minute
    /\ windows \in [Buckets -> [from : Int, count : Nat]]
    /\ \A b \in Buckets : windows[b].from >= 0 => /\ windows[b].count \in 1 .. WriteLimit
                                                  /\ windows[b].from <= minute

Since(b, i) == Cardinality(WrittenBetween(b, i, Len(written)))

(* The messages of the window that is open come last, as many as it counts. *)
(* What was committed by its start came no more than Lateness after it; and *)
(* what is a whole window further back, one window earlier.                 *)
WindowsCount ==
    \A b \in Buckets : \A i \in DOMAIN written : written[i].bucket = b =>
        /\ windows[b].from >= 0
        /\ Since(b, i) <= windows[b].count => written[i].committed >= windows[b].from
        /\ Since(b, i) >= windows[b].count => written[i].committed <= windows[b].from + Lateness
        /\ Since(b, i) >= windows[b].count + WriteLimit =>
              written[i].committed <= windows[b].from - WriteWindow + Lateness

(* A key that was written has its receipt, or its receipt was swept.        *)
ReceiptsStand ==
    \A i \in DOMAIN written :
        Receipt(written[i].request) \in forgotten \/ \E x \in receipts : x.of = Receipt(written[i].request)

WritesInvariant ==
    /\ WrittenIsSequence /\ CallsRead /\ WindowsTyped /\ WindowsCount /\ BudgetKept
    /\ ReceiptsStand /\ OneMessagePerKey

LEMMA WritesStart == WritesInit => WritesInvariant
<1> SUFFICES ASSUME WritesInit PROVE WritesInvariant
  OBVIOUS
<1>1. written = <<>> /\ written \in Seq({}) /\ DOMAIN written = {} /\ Len(written) = 0
  BY DEF WritesInit
<1>2. WrittenIsSequence
  BY <1>1 DEF WrittenIsSequence
<1>3. CallsRead
  BY DEF WritesInit, CallsRead, NoCall
<1>4. WindowsTyped
  BY <1>1 DEF WritesInit, WindowsTyped, NoWindow
<1>5. WindowsCount /\ BudgetKept /\ ReceiptsStand /\ OneMessagePerKey
  BY <1>1 DEF WindowsCount, BudgetKept, ReceiptsStand, OneMessagePerKey
<1> QED BY <1>2, <1>3, <1>4, <1>5 DEF WritesInvariant

(* Nothing is written. *)
LEMMA NothingWritten ==
    ASSUME WritesInvariant, CallsRead', minute' \in Nat, minute <= minute',
           UNCHANGED <<written, windows>>,
           receipts \subseteq receipts' \cup {x \in receipts : x.of \in forgotten'}, forgotten \subseteq forgotten'
    PROVE  WritesInvariant'
<1>1. WrittenIsSequence'
  BY DEF WritesInvariant, WrittenIsSequence
<1>2. WindowsTyped'
  BY DEF WritesInvariant, WindowsTyped
<1>3. WindowsCount'
  BY DEF WritesInvariant, WindowsCount, Since, WrittenBetween
<1>4. BudgetKept'
  BY DEF WritesInvariant, BudgetKept, WrittenBetween
<1>5. ReceiptsStand' /\ OneMessagePerKey'
  BY DEF WritesInvariant, ReceiptsStand, OneMessagePerKey
<1> QED BY <1>1, <1>2, <1>3, <1>4, <1>5 DEF WritesInvariant

(* One message more. *)
LEMMA Longer ==
    ASSUME WrittenIsSequence, NEW m, written' = Append(written, m)
    PROVE  /\ WrittenIsSequence'
           /\ Len(written) \in Nat /\ Len(written') = Len(written) + 1
           /\ DOMAIN written = 1 .. Len(written) /\ DOMAIN written' = 1 .. Len(written) + 1
           /\ \A i \in DOMAIN written : written'[i] = written[i]
           /\ written'[Len(written) + 1] = m
<1>1. PICK E : written \in Seq(E)
  BY DEF WrittenIsSequence
<1>2. written \in Seq(E \cup {m}) /\ m \in E \cup {m}
  BY <1>1
<1>3. written' \in Seq(E \cup {m})
  BY <1>2
<1> QED BY <1>2, <1>3 DEF WrittenIsSequence

LEMMA CountedOnce ==
    ASSUME WrittenIsSequence, NEW m, written' = Append(written, m), NEW b,
           NEW i \in DOMAIN written, NEW j \in DOMAIN written'
    PROVE  /\ j \in DOMAIN written => WrittenBetween(b, i, j)' = WrittenBetween(b, i, j)
           /\ m.bucket # b => Since(b, i)' = Since(b, i)
           /\ m.bucket = b => Since(b, i)' = Since(b, i) + 1
           /\ Since(b, i) \in Nat
<1>0. PICK n : n = Len(written)
  OBVIOUS
<1> DEFINE S == {k \in i .. n : written[k].bucket = b}
           T == {k \in i .. n + 1 : written'[k].bucket = b}
<1>1. /\ n \in Nat /\ Len(written') = n + 1 /\ DOMAIN written = 1 .. n /\ DOMAIN written' = 1 .. n + 1
      /\ \A k \in 1 .. n : written'[k] = written[k]
      /\ written'[n + 1] = m /\ n = Len(written)
  BY <1>0, Longer
<1>2. i \in 1 .. n /\ j \in 1 .. n + 1
  BY <1>1
<1>3. Since(b, i) = Cardinality(S) /\ Since(b, i)' = Cardinality(T)
  BY <1>1 DEF Since, WrittenBetween
<1>4. j \in 1 .. n => WrittenBetween(b, i, j)' = WrittenBetween(b, i, j)
  BY <1>1, <1>2 DEF WrittenBetween
<1>5. IsFiniteSet(S) /\ n + 1 \notin S
  <2>1. IsFiniteSet(i .. n)
    BY <1>1, <1>2, FS_Interval
  <2>2. S \subseteq i .. n /\ n + 1 \notin S
    BY <1>1, <1>2
  <2> QED BY <2>1, <2>2, FS_Subset
<1>6. m.bucket # b => T = S
  BY <1>1, <1>2
<1>7. m.bucket = b => T = S \cup {n + 1}
  BY <1>1, <1>2
<1> HIDE DEF S, T
<1>8. Cardinality(S) \in Nat
  BY <1>5, FS_CardinalityType
<1>9. Cardinality(S \cup {n + 1}) = Cardinality(S) + 1
  BY <1>5, FS_AddElement
<1> QED BY <1>1, <1>2, <1>3, <1>4, <1>6, <1>7, <1>8, <1>9

(* A message with a key that has no receipt, in the window its bucket has   *)
(* then, or in none.                                                        *)
LEMMA OneMore ==
    ASSUME WritesInvariant, CallsRead', NEW r, NEW at \in Nat, NEW credential, ~Known(r),
           at <= minute, minute - at <= Lateness,
           Insert(r, at, credential), UNCHANGED <<minute, forgotten>>,
           LET b == Attribution(r, credential)
           IN  IF b \in Buckets
               THEN /\ windows' = [windows EXCEPT ![b] = NextMcpWriteWindow(windows[b], at)]
                    /\ windows'[b].count <= WriteLimit
               ELSE windows' = windows
    PROVE  WritesInvariant'
<1> DEFINE b == Attribution(r, credential)
<1>0. PICK n : n = Len(written) + 1
  OBVIOUS
<1>1. PICK m : m = [scope |-> ScopeOf(r), key |-> r.key, room |-> r.room, text |-> r.text,
                    bucket |-> b, request |-> r, committed |-> minute]
  OBVIOUS
<1>2. /\ written' = Append(written, m) /\ m.bucket = b /\ m.request = r /\ m.committed = minute
      /\ receipts \subseteq receipts' /\ (\E x \in receipts' : x.of = Receipt(r))
  <2>1. PICK x : x = [of |-> Receipt(r), until |-> at + ReceiptLife]
    OBVIOUS
  <2>2. x.of = Receipt(r) /\ receipts' = receipts \cup {x}
    BY <2>1 DEF Insert
  <2>3. written' = Append(written, m) /\ m.bucket = b /\ m.request = r /\ m.committed = minute
    BY <1>1 DEF Insert
  <2> QED BY <2>2, <2>3
<1>3. /\ WrittenIsSequence' /\ Len(written) \in Nat /\ Len(written') = n
      /\ DOMAIN written = 1 .. Len(written) /\ DOMAIN written' = 1 .. n
      /\ \A i \in DOMAIN written : written'[i] = written[i]
      /\ written'[n] = m
  BY <1>0, <1>2, Longer DEF WritesInvariant
<1>4. \A i \in DOMAIN written' : i \in DOMAIN written \/ i = n
  BY <1>0, <1>3
<1>5. /\ minute \in Nat /\ minute' = minute
      /\ \A i \in DOMAIN written : written[i].committed \in Nat /\ written[i].committed <= minute
      /\ windows \in [Buckets -> [from : Int, count : Nat]]
      /\ \A x \in Buckets : windows[x].from >= 0 => /\ windows[x].count \in 1 .. WriteLimit
                                                    /\ windows[x].from <= minute
      /\ WriteLimit \in Nat \ {0} /\ WriteWindow \in Nat \ {0} /\ Lateness \in Nat
  BY AgentWritesAssumption DEF WritesInvariant, WindowsTyped
<1>6. \A x \in Buckets : x # b => windows'[x] = windows[x]
  BY <1>5
<1>7. ASSUME b \in Buckets
      PROVE  /\ windows' \in [Buckets -> [from : Int, count : Nat]]
             /\ windows'[b].count \in 1 .. WriteLimit /\ windows'[b].from <= minute /\ windows'[b].from \in Nat
             /\ \/ windows'[b].from = at /\ windows'[b].count = 1
                   /\ (windows[b].from < 0 \/ at - windows[b].from >= WriteWindow)
                \/ windows[b].from >= 0 /\ windows'[b].from = windows[b].from
                   /\ windows'[b].count = windows[b].count + 1
  <2>1. PICK w : w = NextMcpWriteWindow(windows[b], at)
    OBVIOUS
  <2>2. windows[b] \in [from : Int, count : Nat] /\ (windows[b].from >= 0 => windows[b].count \in 1 .. WriteLimit /\ windows[b].from <= minute)
    BY <1>5, <1>7
  <2>3. windows' = [windows EXCEPT ![b] = w] /\ windows'[b] = w /\ w.count <= WriteLimit
    BY <1>5, <1>7, <2>1
  <2>4. \/ w = [from |-> at, count |-> 1] /\ (windows[b].from < 0 \/ at - windows[b].from >= WriteWindow)
        \/ windows[b].from >= 0 /\ w = [from |-> windows[b].from, count |-> windows[b].count + 1]
    BY <2>1, <2>2 DEF NextMcpWriteWindow
  <2>5. w \in [from : Int, count : Nat]
    BY <2>2, <2>4
  <2> QED BY <1>5, <1>7, <2>2, <2>3, <2>4, <2>5
<1>8. WindowsTyped'
  <2>1. \A i \in DOMAIN written' : written'[i].committed \in Nat /\ written'[i].committed <= minute
    BY <1>2, <1>3, <1>4, <1>5
  <2>2. windows' \in [Buckets -> [from : Int, count : Nat]]
    BY <1>5, <1>7
  <2>3. \A x \in Buckets : windows'[x].from >= 0 => windows'[x].count \in 1 .. WriteLimit /\ windows'[x].from <= minute
    BY <1>5, <1>6, <1>7
  <2> QED BY <1>5, <2>1, <2>2, <2>3 DEF WindowsTyped
<1> HIDE DEF b
<1>9. \A x \in Buckets : \A i \in DOMAIN written :
         /\ \A j \in DOMAIN written : WrittenBetween(x, i, j)' = WrittenBetween(x, i, j)
         /\ Since(x, i) \in Nat
         /\ Since(x, i)' = IF x = b THEN Since(x, i) + 1 ELSE Since(x, i)
  <2> SUFFICES ASSUME NEW x \in Buckets, NEW i \in DOMAIN written
               PROVE  /\ \A j \in DOMAIN written : WrittenBetween(x, i, j)' = WrittenBetween(x, i, j)
                      /\ Since(x, i) \in Nat
                      /\ Since(x, i)' = IF x = b THEN Since(x, i) + 1 ELSE Since(x, i)
    OBVIOUS
  <2>1. WrittenIsSequence /\ DOMAIN written \subseteq DOMAIN written'
    BY <1>0, <1>3 DEF WritesInvariant
  <2>2. \A j \in DOMAIN written : WrittenBetween(x, i, j)' = WrittenBetween(x, i, j)
    BY <1>2, <2>1, CountedOnce
  <2>3. i \in DOMAIN written'
    BY <2>1
  <2>4. /\ m.bucket # x => Since(x, i)' = Since(x, i)
        /\ m.bucket = x => Since(x, i)' = Since(x, i) + 1
        /\ Since(x, i) \in Nat
    BY <1>2, <2>1, <2>3, CountedOnce
  <2>5. m.bucket = b
    BY <1>2
  <2> QED BY <2>2, <2>4, <2>5
<1>10. b \in Buckets => Since(b, n)' = 1
  <2>1. Since(b, n)' = Cardinality({k \in n .. n : written'[k].bucket = b})
    BY <1>3 DEF Since, WrittenBetween
  <2>2. {k \in n .. n : written'[k].bucket = b} = {n}
    BY <1>2, <1>3
  <2> QED BY <2>1, <2>2, FS_Singleton
<1>11. ASSUME NEW x \in Buckets, NEW i \in DOMAIN written, written[i].bucket = x
       PROVE  /\ windows[x].from >= 0
              /\ Since(x, i) <= windows[x].count => written[i].committed >= windows[x].from
              /\ Since(x, i) >= windows[x].count => written[i].committed <= windows[x].from + Lateness
              /\ Since(x, i) >= windows[x].count + WriteLimit =>
                    written[i].committed <= windows[x].from - WriteWindow + Lateness
  BY <1>11 DEF WritesInvariant, WindowsCount
<1>12. WindowsCount'
  <2> SUFFICES ASSUME NEW x \in Buckets, NEW i \in DOMAIN written', written'[i].bucket = x
               PROVE  /\ windows'[x].from >= 0
                      /\ Since(x, i)' <= windows'[x].count => written'[i].committed >= windows'[x].from
                      /\ Since(x, i)' >= windows'[x].count => written'[i].committed <= windows'[x].from + Lateness
                      /\ Since(x, i)' >= windows'[x].count + WriteLimit =>
                            written'[i].committed <= windows'[x].from - WriteWindow + Lateness
    BY DEF WindowsCount
  <2>1. CASE x # b
    <3>1. i # n
      BY <1>2, <1>3, <2>1
    <3>2. i \in DOMAIN written
      BY <1>4, <3>1
    <3> QED BY <1>3, <1>6, <1>9, <1>11, <2>1, <3>2
  <2>2. CASE x = b /\ i = n
    <3>1. Since(x, i)' = 1 /\ written'[i].committed = minute
      BY <1>2, <1>3, <1>10, <2>2
    <3>2. /\ windows'[x].count \in 1 .. WriteLimit /\ windows'[x].from <= minute /\ windows'[x].from \in Nat
          /\ \/ windows'[x].from = at
             \/ windows[x].from >= 0 /\ windows'[x].count = windows[x].count + 1
      BY <1>7, <2>2
    <3>3. windows[x].from >= 0 => windows[x].count >= 1 /\ windows[x].count \in Nat
      BY <1>5
    <3> QED BY <1>5, <3>1, <3>2, <3>3
  <2>3. CASE x = b /\ i # n
    <3>1. i \in DOMAIN written /\ written[i].bucket = x /\ written'[i] = written[i]
      BY <1>3, <1>4, <2>3
    <3>2. Since(x, i)' = Since(x, i) + 1 /\ Since(x, i) \in Nat /\ written[i].committed \in Nat /\ written[i].committed <= minute
      BY <1>5, <1>9, <2>3, <3>1
    <3>3. /\ windows'[x].count \in 1 .. WriteLimit /\ windows'[x].from \in Nat
          /\ \/ windows'[x].from = at /\ windows'[x].count = 1
                /\ (windows[x].from < 0 \/ at - windows[x].from >= WriteWindow)
             \/ windows[x].from >= 0 /\ windows'[x].from = windows[x].from
                /\ windows'[x].count = windows[x].count + 1
      BY <1>7, <2>3
    <3>4. windows[x].from \in Int /\ (windows[x].from >= 0 => windows[x].count \in 1 .. WriteLimit)
      BY <1>5
    <3>5. CASE windows[x].from >= 0 /\ windows'[x].from = windows[x].from /\ windows'[x].count = windows[x].count + 1
      BY <1>5, <1>11, <3>1, <3>2, <3>3, <3>4, <3>5
    <3>6. CASE windows'[x].from = at /\ windows'[x].count = 1 /\ at - windows[x].from >= WriteWindow
      <4>1. windows[x].from >= 0 /\ windows[x].count \in 1 .. WriteLimit
        BY <1>11, <3>1, <3>4
      <4>2. Since(x, i) >= WriteLimit => written[i].committed <= windows[x].from + Lateness
        BY <1>5, <1>11, <3>1, <3>2, <4>1
      <4>3. Since(x, i) >= 1
        <5>1. i \in 1 .. Len(written)
          BY <1>3, <3>1
        <5>2. IsFiniteSet(i .. Len(written)) /\ WrittenBetween(x, i, Len(written)) \subseteq i .. Len(written)
          BY <1>3, <5>1, FS_Interval DEF WrittenBetween
        <5>3. IsFiniteSet(WrittenBetween(x, i, Len(written))) /\ i \in WrittenBetween(x, i, Len(written))
          BY <1>3, <3>1, <5>1, <5>2, FS_Subset DEF WrittenBetween
        <5>4. {i} \subseteq WrittenBetween(x, i, Len(written)) /\ Cardinality({i}) = 1
          BY <5>3, FS_Singleton
        <5>5. Cardinality({i}) <= Cardinality(WrittenBetween(x, i, Len(written)))
          BY <5>3, <5>4, FS_Subset
        <5> QED BY <5>4, <5>5 DEF Since
      <4> QED BY <1>5, <3>1, <3>2, <3>6, <4>1, <4>2, <4>3
    <3> QED BY <1>11, <3>1, <3>3, <3>4, <3>5, <3>6
  <2> QED BY <2>1, <2>2, <2>3
<1>13. BudgetKept'
  <2> SUFFICES ASSUME NEW x \in Buckets, NEW i \in DOMAIN written', NEW j \in DOMAIN written',
                      {i, j} \subseteq WrittenBetween(x, i, j)',
                      Cardinality(WrittenBetween(x, i, j)') >= 2 * WriteLimit
               PROVE  written'[j].committed - written'[i].committed >= WriteWindow - Lateness
    BY DEF BudgetKept
  <2>0. j \in i .. j /\ written'[i].bucket = x /\ written'[j].bucket = x /\ i \in Int /\ j \in Int /\ i <= j
    BY <1>3 DEF WrittenBetween
  <2>1. CASE j \in DOMAIN written
    <3>1. i \in DOMAIN written
      BY <1>3, <2>0, <2>1
    <3>2. WrittenBetween(x, i, j)' = WrittenBetween(x, i, j)
      BY <1>9, <2>1, <3>1
    <3> QED BY <1>3, <2>1, <3>1, <3>2 DEF WritesInvariant, BudgetKept
  <2>2. CASE j = n
    <3>1. x = b /\ written'[j].committed = minute
      BY <1>2, <1>3, <2>0, <2>2
    <3>2. WrittenBetween(x, i, j)' = WrittenBetween(x, i, Len(written))'
      BY <1>3, <2>2 DEF WrittenBetween
    <3>3. Since(x, i)' >= 2 * WriteLimit /\ Since(x, i)' \in Nat
      <4>1. Since(x, i)' = Cardinality(WrittenBetween(x, i, j)')
        BY <3>2 DEF Since
      <4>2. Since(x, i)' \in Nat
        BY <1>4, <1>9, <1>10, <3>1
      <4> QED BY <4>1, <4>2
    <3>4. windows'[x].count \in 1 .. WriteLimit /\ windows'[x].from <= minute /\ windows'[x].from \in Nat
      BY <1>7, <3>1
    <3>5. written'[i].committed <= windows'[x].from - WriteWindow + Lateness
      BY <1>5, <1>12, <2>0, <3>3, <3>4 DEF WindowsCount
    <3>6. written'[i].committed \in Nat
      BY <1>8 DEF WindowsTyped
    <3> QED BY <1>5, <3>1, <3>4, <3>5, <3>6
  <2> QED BY <1>4, <2>1, <2>2
<1>14. ReceiptsStand'
  BY <1>2, <1>3, <1>4 DEF WritesInvariant, ReceiptsStand
<1>15. OneMessagePerKey'
  <2>1. \A i \in DOMAIN written : Receipt(written[i].request) = Receipt(r) => Receipt(r) \in forgotten
    BY DEF WritesInvariant, ReceiptsStand, Known
  <2> SUFFICES ASSUME NEW i \in DOMAIN written', NEW j \in DOMAIN written', i # j,
                      Receipt(written'[i].request) = Receipt(written'[j].request)
               PROVE  Receipt(written'[i].request) \in forgotten
    BY <1>3 DEF OneMessagePerKey
  <2>2. CASE i = n \/ j = n
    BY <1>2, <1>3, <1>4, <2>1, <2>2
  <2>3. CASE i # n /\ j # n
    BY <1>3, <1>4, <2>3 DEF WritesInvariant, OneMessagePerKey
  <2> QED BY <2>2, <2>3
<1> QED BY <1>3, <1>8, <1>12, <1>13, <1>14, <1>15 DEF WritesInvariant

(* What becomes of one call. *)
LEMMA CallMoves ==
    ASSUME WritesInvariant, NEW c \in Calls, NEW t, toolCalls' = [toolCalls EXCEPT ![c] = t], minute' = minute,
           \/ t.pc \notin {"sent", "looked"}
           \/ /\ t = [pc |-> t.pc, request |-> t.request, at |-> t.at]
              /\ t.at \in Nat /\ t.at <= minute /\ minute - t.at <= Lateness
              /\ t.pc = "looked" => t.request.tool = "agent_post" /\ t.request.cred = "session"
    PROVE  CallsRead'
BY DEF WritesInvariant, CallsRead

LEMMA ReadyCalls ==
    ASSUME WritesInvariant, NEW c \in Calls, ReadyToWrite(c)
    PROVE  /\ toolCalls[c].at \in Nat /\ toolCalls[c].at <= minute /\ minute - toolCalls[c].at <= Lateness
           /\ <<toolCalls[c].request.cred, By(toolCalls[c].request)>> \in Buckets
           /\ toolCalls[c].request.tool # "submit_form"
BY DEF WritesInvariant, CallsRead, ReadyToWrite, By, Buckets

LEMMA CallStepHolds == WritesInvariant /\ CallStep => WritesInvariant'
<1> SUFFICES ASSUME WritesInvariant, CallStep PROVE WritesInvariant'
  OBVIOUS
<1>0. minute \in Nat /\ Lateness \in Nat
  BY AgentWritesAssumption DEF WritesInvariant, WindowsTyped
<1>1. ASSUME NEW c \in Calls, NEW r \in limits.asks[c], AuthenticateMcpToken(c, r) PROVE WritesInvariant'
  <2>1. PICK t : /\ t \in {[pc |-> "known", request |-> r], [pc |-> "over"]} /\ toolCalls' = [toolCalls EXCEPT ![c] = t]
                 /\ UNCHANGED <<minute, windows, receipts, written, forgotten>>
    BY <1>1 DEF AuthenticateMcpToken
  <2>2. t.pc \notin {"sent", "looked"}
    BY <2>1
  <2>3. CallsRead'
    BY <2>1, <2>2, CallMoves
  <2> QED BY <1>0, <2>1, <2>3, NothingWritten
<1>2. ASSUME NEW c \in Calls, AssertSessionChannel(c) PROVE WritesInvariant'
  <2>1. PICK r : r = toolCalls[c].request
    OBVIOUS
  <2>2. PICK t : /\ t = [pc |-> "sent", request |-> r, at |-> minute] \/ t = [pc |-> "over"]
                 /\ toolCalls' = [toolCalls EXCEPT ![c] = t]
                 /\ UNCHANGED <<minute, windows, receipts, written, forgotten>>
    BY <1>2, <2>1 DEF AssertSessionChannel
  <2>3. \/ t.pc \notin {"sent", "looked"}
        \/ /\ t = [pc |-> t.pc, request |-> t.request, at |-> t.at]
           /\ t.at \in Nat /\ t.at <= minute /\ minute - t.at <= Lateness
           /\ t.pc = "looked" => t.request.tool = "agent_post" /\ t.request.cred = "session"
    BY <1>0, <2>2
  <2>4. CallsRead'
    BY <2>2, <2>3, CallMoves
  <2> QED BY <1>0, <2>2, <2>4, NothingWritten
<1>3. ASSUME NEW c \in Calls, LookAtSession(c) PROVE WritesInvariant'
  <2>1. PICK r : r = toolCalls[c].request
    OBVIOUS
  <2>2. /\ toolCalls[c].pc = "sent" /\ r.tool = "agent_post" /\ r.cred = "session"
        /\ toolCalls[c] = [pc |-> "sent", request |-> r, at |-> toolCalls[c].at]
        /\ toolCalls[c].at \in Nat /\ toolCalls[c].at <= minute /\ minute - toolCalls[c].at <= Lateness
    BY <1>3, <2>1 DEF LookAtSession, WritesInvariant, CallsRead
  <2>3. PICK t : /\ t = [toolCalls[c] EXCEPT !.pc = "looked"] \/ t = [pc |-> "over"]
                 /\ toolCalls' = [toolCalls EXCEPT ![c] = t]
                 /\ UNCHANGED <<minute, windows, receipts, written, forgotten>>
    BY <1>3 DEF LookAtSession
  <2>4. \/ t.pc \notin {"sent", "looked"}
        \/ /\ t = [pc |-> t.pc, request |-> t.request, at |-> t.at]
           /\ t.at \in Nat /\ t.at <= minute /\ minute - t.at <= Lateness
           /\ t.pc = "looked" => t.request.tool = "agent_post" /\ t.request.cred = "session"
    BY <2>2, <2>3
  <2>5. CallsRead'
    BY <2>3, <2>4, CallMoves
  <2> QED BY <1>0, <2>3, <2>5, NothingWritten
<1>4. ASSUME NEW c \in Calls, SendAttributedMcpMessage(c) PROVE WritesInvariant'
  <2>1. PICK r : r = toolCalls[c].request
    OBVIOUS
  <2>2. PICK at : at = toolCalls[c].at
    OBVIOUS
  <2>3. /\ at \in Nat /\ at <= minute /\ minute - at <= Lateness /\ <<r.cred, By(r)>> \in Buckets
        /\ UNCHANGED <<minute, forgotten>> /\ toolCalls' = [toolCalls EXCEPT ![c] = [pc |-> "over"]]
    BY <1>4, <2>1, <2>2, ReadyCalls DEF SendAttributedMcpMessage
  <2>4. CallsRead'
    BY <2>3, CallMoves
  <2>5. \/ UNCHANGED <<windows, written, receipts>>
        \/ ~Known(r) /\ Consume(r, at)
    BY <1>4, <2>1, <2>2 DEF SendAttributedMcpMessage
  <2>6. CASE UNCHANGED <<windows, written, receipts>>
    BY <1>0, <2>3, <2>4, <2>6, NothingWritten
  <2>7. CASE ~Known(r) /\ Consume(r, at) /\ ~UNCHANGED <<windows, written, receipts>>
    <3>1. PICK b : b = <<r.cred, By(r)>>
      OBVIOUS
    <3>2. PICK next : next = NextMcpWriteWindow(windows[b], at)
      OBVIOUS
    <3>3. /\ next.count <= WriteLimit /\ windows' = [windows EXCEPT ![b] = next] /\ Insert(r, at, r.cred)
          /\ Attribution(r, r.cred) = b
      BY <2>7, <3>1, <3>2 DEF Consume, Attribution
    <3>4. windows'[b] = next
      BY <2>3, <3>1, <3>3 DEF WritesInvariant, WindowsTyped
    <3> QED BY <2>3, <2>4, <2>7, <3>1, <3>2, <3>3, <3>4, OneMore
  <2> QED BY <2>5, <2>6, <2>7
<1>5. ASSUME NEW c \in Calls, SubmitForm(c) PROVE WritesInvariant'
  <2>1. PICK r : r = toolCalls[c].request
    OBVIOUS
  <2>2. PICK at : at = toolCalls[c].at
    OBVIOUS
  <2>3. /\ at \in Nat /\ at <= minute /\ minute - at <= Lateness
        /\ UNCHANGED <<minute, forgotten, windows>> /\ toolCalls' = [toolCalls EXCEPT ![c] = [pc |-> "over"]]
    BY <1>5, <2>1, <2>2 DEF SubmitForm, WritesInvariant, CallsRead
  <2>4. CallsRead'
    BY <2>3, CallMoves
  <2>5. \/ UNCHANGED <<written, receipts>>
        \/ ~Known(r) /\ Insert(r, at, "none")
    BY <1>5, <2>1, <2>2 DEF SubmitForm
  <2>6. CASE UNCHANGED <<written, receipts>>
    BY <1>0, <2>3, <2>4, <2>6, NothingWritten
  <2>7. CASE ~Known(r) /\ Insert(r, at, "none")
    <3>1. Attribution(r, "none") \notin Buckets
      BY DEF Attribution, Buckets
    <3> QED BY <2>3, <2>4, <2>7, <3>1, OneMore
  <2> QED BY <2>5, <2>6, <2>7
<1> QED BY <1>1, <1>2, <1>3, <1>4, <1>5 DEF CallStep

LEMMA GroundsStepHolds == WritesInvariant /\ (GroundsStep \/ UNCHANGED writeVars) => WritesInvariant'
<1> SUFFICES ASSUME WritesInvariant, GroundsStep \/ UNCHANGED writeVars PROVE WritesInvariant'
  OBVIOUS
<1>1. UNCHANGED <<minute, toolCalls, windows, receipts, written, forgotten>>
  BY DEF GroundsStep, EndCredential, SuspendMember, PauseOrResume, PlantCanary, SetAgentScope, SetArchived,
     SetJoined, SetForm, Altered, writeVars
<1>2. CallsRead' /\ minute \in Nat
  BY <1>1 DEF WritesInvariant, WindowsTyped, CallsRead
<1> QED BY <1>1, <1>2, NothingWritten

LEMMA WritesStep == WritesInvariant /\ [WritesNext]_writeVars => WritesInvariant'
<1> SUFFICES ASSUME WritesInvariant, [WritesNext]_writeVars PROVE WritesInvariant'
  OBVIOUS
<1>0. minute \in Nat /\ Lateness \in Nat
  BY AgentWritesAssumption DEF WritesInvariant, WindowsTyped
<1>1. CASE PassMinute
  <2>1. /\ minute' = minute + 1 /\ UNCHANGED <<toolCalls, windows, receipts, written, forgotten>>
        /\ \A c \in Calls : toolCalls[c].pc \in {"sent", "looked"} => minute - toolCalls[c].at < Lateness
    BY <1>1 DEF PassMinute
  <2>2. CallsRead'
    <3>1. \A c \in Calls : toolCalls[c].pc \in {"sent", "looked"} =>
             toolCalls[c].at \in Nat /\ toolCalls[c].at <= minute + 1 /\ minute + 1 - toolCalls[c].at <= Lateness
      BY <1>0, <2>1 DEF WritesInvariant, CallsRead
    <3>2. /\ toolCalls = [c \in Calls |-> toolCalls[c]]
          /\ \A c \in Calls :
                /\ toolCalls[c].pc \in {"sent", "looked"} =>
                      toolCalls[c] = [pc |-> toolCalls[c].pc, request |-> toolCalls[c].request, at |-> toolCalls[c].at]
                /\ toolCalls[c].pc = "looked" =>
                      toolCalls[c].request.tool = "agent_post" /\ toolCalls[c].request.cred = "session"
      BY DEF WritesInvariant, CallsRead
    <3>3. \A c \in Calls : toolCalls[c].pc \in {"sent", "looked"} =>
             /\ toolCalls[c] = [pc |-> toolCalls[c].pc, request |-> toolCalls[c].request, at |-> toolCalls[c].at]
             /\ toolCalls[c].at \in Nat /\ toolCalls[c].at <= minute' /\ minute' - toolCalls[c].at <= Lateness
      <4>1. PICK t : t = minute + 1
        OBVIOUS
      <4>2. minute' = t
        BY <2>1, <4>1
      <4>3. \A c \in Calls : toolCalls[c].pc \in {"sent", "looked"} =>
               /\ toolCalls[c] = [pc |-> toolCalls[c].pc, request |-> toolCalls[c].request, at |-> toolCalls[c].at]
               /\ toolCalls[c].at \in Nat /\ toolCalls[c].at <= t /\ t - toolCalls[c].at <= Lateness
        <5>1. \A c \in Calls : toolCalls[c].pc \in {"sent", "looked"} =>
                 toolCalls[c].at \in Nat /\ toolCalls[c].at <= t /\ t - toolCalls[c].at <= Lateness
          <6> SUFFICES ASSUME NEW c \in Calls, toolCalls[c].pc \in {"sent", "looked"}
                       PROVE  toolCalls[c].at \in Nat /\ toolCalls[c].at <= t /\ t - toolCalls[c].at <= Lateness
            OBVIOUS
          <6> QED BY <1>0, <3>1, <4>1
        <5>2. \A c \in Calls : toolCalls[c].pc \in {"sent", "looked"} =>
                 toolCalls[c] = [pc |-> toolCalls[c].pc, request |-> toolCalls[c].request, at |-> toolCalls[c].at]
          BY <3>2
        <5> QED BY ONLY <5>1, <5>2
      <4> QED BY ONLY <4>2, <4>3
    <3>4. toolCalls' = toolCalls
      BY <2>1
    <3> QED BY ONLY <3>2, <3>3, <3>4 DEF CallsRead
  <2> QED BY <1>0, <2>1, <2>2, NothingWritten
<1>2. CASE SweepReceipts
  <2>1. PICK old : old = {x \in receipts : x.until <= minute}
    OBVIOUS
  <2>2. /\ receipts' = receipts \ old /\ forgotten' = forgotten \cup {x.of : x \in old}
        /\ UNCHANGED <<minute, toolCalls, windows, written>>
    BY <1>2, <2>1 DEF SweepReceipts
  <2>3. receipts \subseteq receipts' \cup {x \in receipts : x.of \in forgotten'} /\ forgotten \subseteq forgotten'
    BY <2>2
  <2>4. CallsRead'
    BY <2>2 DEF WritesInvariant, CallsRead
  <2> QED BY <1>0, <2>2, <2>3, <2>4, NothingWritten
<1> QED BY <1>1, <1>2, CallStepHolds, GroundsStepHolds DEF WritesNext

(* The message of a call carries no canary, and rests on what the call      *)
(* rests on at that moment.                                                 *)
LEMMA WrittenOnGrounds ==
    WritesInvariant /\ [WritesNext]_writeVars =>
        [\A i \in DOMAIN written' \ DOMAIN written :
            LET r == written'[i].request
            IN  /\ ~HasCanary(r)
                /\ IF r.tool = "submit_form" THEN grounds.standing /\ Takes(r) /\ r.room \in grounds.forms
                   ELSE MayPost(r) /\ r.room \notin grounds.forms]_written
<1> SUFFICES ASSUME WritesInvariant, WritesNext, written' # written,
                    NEW i \in DOMAIN written' \ DOMAIN written
             PROVE  LET r == written'[i].request
                    IN  /\ ~HasCanary(r)
                        /\ IF r.tool = "submit_form" THEN grounds.standing /\ Takes(r) /\ r.room \in grounds.forms
                           ELSE MayPost(r) /\ r.room \notin grounds.forms
  BY DEF writeVars
<1>1. PICK c \in Calls : SendAttributedMcpMessage(c) \/ SubmitForm(c)
  BY Zenon DEF WritesNext, CallStep, GroundsStep, AuthenticateMcpToken, AssertSessionChannel, LookAtSession,
     EndCredential, SuspendMember, PauseOrResume, PlantCanary, SetAgentScope, SetArchived,
     SetJoined, SetForm, Altered, PassMinute, SweepReceipts
<1>2. PICK r : r = toolCalls[c].request
  OBVIOUS
<1>3. ASSUME NEW at, NEW credential, Insert(r, at, credential) PROVE written'[i].request = r
  <2>1. PICK m : m = [scope |-> ScopeOf(r), key |-> r.key, room |-> r.room, text |-> r.text,
                      bucket |-> Attribution(r, credential), request |-> r, committed |-> minute]
    OBVIOUS
  <2>2. written' = Append(written, m) /\ m.request = r /\ WrittenIsSequence
    BY <1>3, <2>1 DEF Insert, WritesInvariant
  <2> QED BY <2>2, Longer
<1>4. CASE SendAttributedMcpMessage(c)
  <2>1. MayPost(r) /\ ~HasCanary(r) /\ r.room \notin grounds.forms /\ Consume(r, toolCalls[c].at)
    BY <1>2, <1>4 DEF SendAttributedMcpMessage
  <2>2. written'[i].request = r
    BY <1>3, <2>1 DEF Consume
  <2>3. r.tool # "submit_form"
    BY <1>2, <1>4, ReadyCalls DEF SendAttributedMcpMessage
  <2> QED BY <2>1, <2>2, <2>3
<1>5. CASE SubmitForm(c)
  <2>1. /\ grounds.standing /\ Takes(r) /\ r.room \in grounds.forms /\ ~HasCanary(r)
        /\ Insert(r, toolCalls[c].at, "none") /\ r.tool = "submit_form"
    BY <1>2, <1>5 DEF SubmitForm
  <2>2. written'[i].request = r
    BY <1>3, <2>1
  <2> QED BY <2>1, <2>2
<1> QED BY <1>1, <1>4, <1>5

LEMMA WritesAreHeld == WritesInvariant => BudgetKept /\ OneMessagePerKey
BY DEF WritesInvariant

-----------------------------------------------------------------------------
(* The machines that answer for an agent. *)

SocketRow == [open : BOOLEAN, epoch : 0 .. MaxEpoch, mail : Seq(Frames)]
ProcRow(n) == [phase : {"off", "looping", "asking", "hashing"}, epoch : 0 .. MaxEpoch, linked : BOOLEAN,
               stopped : BOOLEAN, running : 0 .. n, session : 0 .. n, found : BOOLEAN]

(* What the workspace keeps of a machine. *)
RegistryTyped ==
    /\ devices \in [Devices -> 0 .. MaxEpoch]
    /\ answering \in Devices \cup {None}
    /\ wakes \in [Devices -> {"none", "pending", "delivered"}]
    /\ untold \subseteq Procs
    /\ sockets \in [Procs -> SocketRow]

(* What is on its way to a daemon is read over a connection, and a daemon   *)
(* is welcomed by the first frame of one.                                   *)
MailInOrder ==
    \A p \in Procs :
       /\ ~procs[p].linked => sockets[p].mail = <<>>
       /\ procs[p].phase = "off" => ~procs[p].linked
       /\ \A i \in DOMAIN sockets[p].mail : sockets[p].mail[i] = "welcome" => i = 1

(* A daemon runs the agent, or will with what was found or is on its way to *)
(* it.                                                                      *)
MayWork(p) ==
    \/ procs[p].running # 0
    \/ procs[p].phase = "hashing" /\ procs[p].found
    \/ /\ Contains(sockets[p].mail, "wake")
       /\ procs[p].stopped => Contains(sockets[p].mail, "welcome")

StopComes == \A p \in Procs : MayWork(p) /\ answering # DeviceOf[p] => StopOnTheWay(p)

RunnersKept == AnswererRegistered /\ WakesNamed /\ SocketsCurrent /\ MailInOrder /\ StopComes
RunnersInvariant == RunnersTypeOK /\ RunnersKept

LEMMA RunnersStart == RunnersInit => RunnersInvariant
<1> SUFFICES ASSUME RunnersInit PROVE RunnersInvariant
  OBVIOUS
<1>0. MaxEpoch \in Nat
  BY RunnersAssumption
<1>1. RunnersTypeOK
  <2>1. NoSocket \in SocketRow
    BY <1>0 DEF NoSocket, SocketRow
  <2>2. Off \in ProcRow(0)
    <3>1. Off = [phase |-> "off", epoch |-> 0, linked |-> FALSE, stopped |-> FALSE,
                 running |-> 0, session |-> 0, found |-> FALSE]
      <4>1. PICK f : f = [phase |-> "looping", epoch |-> 0, linked |-> FALSE, stopped |-> FALSE,
                          running |-> 0, session |-> 0, found |-> FALSE]
        OBVIOUS
      <4>2. Off = [f EXCEPT !.phase = "off"]
        BY <4>1 DEF Off, Fresh
      <4> QED BY <4>1, <4>2
    <3>2. 0 \in 0 .. MaxEpoch /\ 0 \in 0 .. 0
      BY <1>0
    <3> QED BY <3>1, <3>2 DEF ProcRow
  <2>3. sockets \in [Procs -> SocketRow] /\ procs \in [Procs -> ProcRow(0)]
    BY <2>1, <2>2 DEF RunnersInit
  <2>4. /\ {active, granted, heeded} \subseteq BOOLEAN /\ attention \in BOOLEAN
        /\ open = 0 /\ issued = 0 /\ untold \subseteq Procs
        /\ item \in [state : {"none", "pending", "claimed"}, by : 0 .. 0]
    <3>1. {active, granted, heeded} \subseteq BOOLEAN /\ attention \in BOOLEAN
      BY DEF RunnersInit
    <3>2. open = 0 /\ issued = 0 /\ untold \subseteq Procs /\ item = [state |-> "none", by |-> 0]
      BY DEF RunnersInit
    <3>3. 0 \in 0 .. 0
      OBVIOUS
    <3> QED BY <3>1, <3>2, <3>3
  <2>5. /\ devices \in [Devices -> 0 .. MaxEpoch] /\ answering \in Devices \cup {None}
        /\ wakes \in [Devices -> {"none", "pending", "delivered"}]
    BY <1>0 DEF RunnersInit
  <2> QED BY <2>3, <2>4, <2>5 DEF RunnersTypeOK, SocketRow, ProcRow
<1>2. AnswererRegistered /\ WakesNamed /\ SocketsCurrent
  BY DEF RunnersInit, AnswererRegistered, WakesNamed, SocketsCurrent, NoSocket
<1>3. MailInOrder
  BY DEF RunnersInit, MailInOrder, NoSocket, Off, Fresh
<1>4. StopComes
  BY DEF RunnersInit, StopComes, MayWork, Contains, NoSocket, Off, Fresh
<1> QED BY <1>1, <1>2, <1>3, <1>4 DEF RunnersInvariant, RunnersKept

(* Frames. *)
LEMMA FramesSent ==
    ASSUME RunnersTypeOK, NEW d, NEW frame \in Frames
    PROVE  /\ Sent(d, frame) \in [Procs -> SocketRow]
           /\ \A p \in Procs :
                 /\ Sent(d, frame)[p].open = sockets[p].open
                 /\ Sent(d, frame)[p].epoch = sockets[p].epoch
                 /\ DeviceOf[p] # d => Sent(d, frame)[p] = sockets[p]
                 /\ ~procs[p].linked => Sent(d, frame)[p] = sockets[p]
                 /\ Sent(d, frame)[p].mail \in {sockets[p].mail, Append(sockets[p].mail, frame)}
                 /\ p \notin Unreached(d) /\ DeviceOf[p] = d =>
                       Sent(d, frame)[p].mail = Append(sockets[p].mail, frame)
<1> SUFFICES ASSUME NEW p \in Procs
             PROVE  /\ Sent(d, frame)[p] \in SocketRow
                    /\ Sent(d, frame)[p].open = sockets[p].open
                    /\ Sent(d, frame)[p].epoch = sockets[p].epoch
                    /\ DeviceOf[p] # d => Sent(d, frame)[p] = sockets[p]
                    /\ ~procs[p].linked => Sent(d, frame)[p] = sockets[p]
                    /\ Sent(d, frame)[p].mail \in {sockets[p].mail, Append(sockets[p].mail, frame)}
                    /\ p \notin Unreached(d) /\ DeviceOf[p] = d =>
                          Sent(d, frame)[p].mail = Append(sockets[p].mail, frame)
  BY DEF Sent
<1>1. sockets[p] \in SocketRow
  BY DEF RunnersTypeOK, SocketRow
<1>2. Append(sockets[p].mail, frame) \in Seq(Frames)
  BY <1>1 DEF SocketRow
<1>3. [sockets[p] EXCEPT !.mail = Append(@, frame)] \in SocketRow
  BY <1>1, <1>2 DEF SocketRow
<1>4. Sent(d, frame)[p] = IF p \in On(d) /\ sockets[p].open /\ procs[p].linked
                          THEN [sockets[p] EXCEPT !.mail = Append(@, frame)] ELSE sockets[p]
  BY DEF Sent
<1>5. p \in On(d) <=> DeviceOf[p] = d
  BY DEF On
<1> QED BY <1>1, <1>3, <1>4, <1>5 DEF SocketRow, Unreached

LEMMA SocketsClosed ==
    ASSUME NEW held \in [Procs -> SocketRow], NEW d, NEW epoch \in Nat
    PROVE  /\ Closed(held, d, epoch) \in [Procs -> SocketRow]
           /\ \A p \in Procs :
                 /\ Closed(held, d, epoch)[p].mail = held[p].mail
                 /\ Closed(held, d, epoch)[p].epoch = held[p].epoch
                 /\ DeviceOf[p] # d => Closed(held, d, epoch)[p] = held[p]
                 /\ Closed(held, d, epoch)[p].open =>
                       held[p].open /\ (DeviceOf[p] = d => held[p].epoch >= epoch)
<1> SUFFICES ASSUME NEW p \in Procs
             PROVE  /\ Closed(held, d, epoch)[p] \in SocketRow
                    /\ Closed(held, d, epoch)[p].mail = held[p].mail
                    /\ Closed(held, d, epoch)[p].epoch = held[p].epoch
                    /\ DeviceOf[p] # d => Closed(held, d, epoch)[p] = held[p]
                    /\ Closed(held, d, epoch)[p].open =>
                          held[p].open /\ (DeviceOf[p] = d => held[p].epoch >= epoch)
  BY DEF Closed
<1>0. held[p] \in SocketRow /\ MaxEpoch \in Nat
  BY RunnersAssumption
<1>1. held[p] \in SocketRow /\ [held[p] EXCEPT !.open = FALSE] \in SocketRow /\ held[p].epoch \in Nat
  <2>1. PICK row : row = held[p]
    OBVIOUS
  <2>2. row \in SocketRow
    BY <2>1
  <2>3. row.epoch \in Nat
    BY <1>0, <2>2 DEF SocketRow
  <2>4. [row EXCEPT !.open = FALSE] \in SocketRow
    BY <2>2, Zenon DEF SocketRow
  <2> QED BY <2>1, <2>2, <2>3, <2>4
<1>2. Closed(held, d, epoch)[p] = IF p \in On(d) /\ held[p].epoch < epoch
                                  THEN [held[p] EXCEPT !.open = FALSE] ELSE held[p]
  BY DEF Closed
<1>3. p \in On(d) <=> DeviceOf[p] = d
  BY DEF On
<1> QED BY <1>1, <1>2, <1>3 DEF SocketRow

(* What a frame more does to the mail of a daemon.                          *)
LEMMA MailLonger ==
    ASSUME NEW s \in Seq(Frames), NEW frame \in Frames
    PROVE  /\ \A f \in Frames : Contains(Append(s, frame), f) <=> Contains(s, f) \/ f = frame
           /\ frame # "welcome" /\ (\A i \in DOMAIN s : s[i] = "welcome" => i = 1) =>
                 \A i \in DOMAIN Append(s, frame) : Append(s, frame)[i] = "welcome" => i = 1
<1>1. /\ Len(s) \in Nat /\ Len(Append(s, frame)) = Len(s) + 1
      /\ DOMAIN s = 1 .. Len(s) /\ DOMAIN Append(s, frame) = 1 .. Len(s) + 1
      /\ \A i \in 1 .. Len(s) : Append(s, frame)[i] = s[i]
      /\ Append(s, frame)[Len(s) + 1] = frame
  OBVIOUS
<1>2. ASSUME NEW f \in Frames PROVE Contains(Append(s, frame), f) <=> Contains(s, f) \/ f = frame
  BY <1>1 DEF Contains
<1>3. ASSUME frame # "welcome", \A i \in DOMAIN s : s[i] = "welcome" => i = 1,
             NEW i \in DOMAIN Append(s, frame), Append(s, frame)[i] = "welcome"
      PROVE  i = 1
  BY <1>1, <1>3
<1> QED BY <1>2, <1>3

(* Nothing is said to a machine. *)
LEMMA NothingSaid ==
    ASSUME RunnersKept, UNCHANGED <<devices, answering, wakes, sockets, procs, untold>>
    PROVE  RunnersKept'
<1>1. (AnswererRegistered /\ WakesNamed /\ SocketsCurrent)'
  BY DEF RunnersKept, AnswererRegistered, WakesNamed, SocketsCurrent
<1>2. MailInOrder'
  BY DEF RunnersKept, MailInOrder
<1>3. StopComes'
  BY DEF RunnersKept, StopComes, MayWork, StopOnTheWay
<1> QED BY <1>1, <1>2, <1>3 DEF RunnersKept

(* The machine that answers is told to stop, or to wake. *)
LEMMA StopSent ==
    ASSUME RunnersInvariant, StopRunners, UNCHANGED <<devices, answering, procs>>
    PROVE  RunnersKept' /\ RegistryTyped'
<1>0. RegistryTyped
  BY DEF RunnersInvariant, RunnersTypeOK, RegistryTyped, SocketRow
<1>1. CASE answering = None
  <2>1. UNCHANGED <<wakes, sockets, untold>>
    BY <1>1 DEF StopRunners
  <2>2. RegistryTyped'
    BY <1>0, <2>1 DEF RegistryTyped
  <2> QED BY <2>1, <2>2, NothingSaid DEF RunnersInvariant
<1>2. CASE answering # None
  <2>1. /\ wakes' = [d \in Devices |-> "none"] /\ sockets' = Sent(answering, "stop")
        /\ untold' = untold \cup Unreached(answering)
    BY <1>2 DEF StopRunners
  <2>2. /\ sockets' \in [Procs -> SocketRow]
        /\ \A p \in Procs :
              /\ sockets'[p].open = sockets[p].open /\ sockets'[p].epoch = sockets[p].epoch
              /\ DeviceOf[p] # answering => sockets'[p] = sockets[p]
              /\ ~procs[p].linked => sockets'[p] = sockets[p]
              /\ sockets'[p].mail \in {sockets[p].mail, Append(sockets[p].mail, "stop")}
    <3>1. "stop" \in Frames
      BY DEF Frames
    <3> QED BY <2>1, <3>1, FramesSent DEF RunnersInvariant
  <2>3. RegistryTyped'
    <3>1. Unreached(answering) \subseteq Procs
      BY DEF Unreached, On
    <3> QED BY <1>0, <2>1, <2>2, <3>1 DEF RegistryTyped
  <2>4. (AnswererRegistered /\ WakesNamed /\ SocketsCurrent)'
    BY <2>1, <2>2 DEF RunnersInvariant, RunnersKept, AnswererRegistered, WakesNamed, SocketsCurrent
  <2>5. MailInOrder'
    <3> SUFFICES ASSUME NEW p \in Procs
                 PROVE  /\ ~procs[p].linked => sockets'[p].mail = <<>>
                        /\ procs[p].phase = "off" => ~procs[p].linked
                        /\ \A i \in DOMAIN sockets'[p].mail : sockets'[p].mail[i] = "welcome" => i = 1
      BY DEF MailInOrder
    <3>1. /\ ~procs[p].linked => sockets[p].mail = <<>>
          /\ procs[p].phase = "off" => ~procs[p].linked
          /\ \A i \in DOMAIN sockets[p].mail : sockets[p].mail[i] = "welcome" => i = 1
      BY DEF RunnersInvariant, RunnersKept, MailInOrder
    <3>2. sockets[p].mail \in Seq(Frames) /\ "stop" \in Frames
      BY <1>0 DEF RegistryTyped, SocketRow, Frames
    <3>3. \A i \in DOMAIN Append(sockets[p].mail, "stop") : Append(sockets[p].mail, "stop")[i] = "welcome" => i = 1
      BY <3>1, <3>2, MailLonger
    <3> QED BY <2>2, <3>1, <3>3
  <2>6. StopComes'
    BY <2>1, <2>2 DEF RunnersInvariant, RunnersKept, StopComes, MayWork, StopOnTheWay
  <2> QED BY <2>3, <2>4, <2>5, <2>6 DEF RunnersKept
<1> QED BY <1>1, <1>2

LEMMA WakeSent ==
    ASSUME RunnersInvariant, RecordRunnerWake, UNCHANGED <<devices, answering, procs, untold>>
    PROVE  RunnersKept' /\ RegistryTyped'
<1>0. RegistryTyped
  BY DEF RunnersInvariant, RunnersTypeOK, RegistryTyped, SocketRow
<1>1. CASE answering = None
  <2>1. UNCHANGED <<wakes, sockets>>
    BY <1>1 DEF RecordRunnerWake
  <2>2. RegistryTyped'
    BY <1>0, <2>1 DEF RegistryTyped
  <2> QED BY <2>1, <2>2, NothingSaid DEF RunnersInvariant
<1>2. CASE answering # None
  <2>1. /\ wakes' = [wakes EXCEPT ![answering] = IF Taken(answering) THEN "delivered" ELSE "pending"]
        /\ sockets' = Sent(answering, "wake")
    BY <1>2 DEF RecordRunnerWake
  <2>2. /\ sockets' \in [Procs -> SocketRow]
        /\ \A p \in Procs :
              /\ sockets'[p].open = sockets[p].open /\ sockets'[p].epoch = sockets[p].epoch
              /\ DeviceOf[p] # answering => sockets'[p] = sockets[p]
              /\ ~procs[p].linked => sockets'[p] = sockets[p]
              /\ sockets'[p].mail \in {sockets[p].mail, Append(sockets[p].mail, "wake")}
    <3>1. "wake" \in Frames
      BY DEF Frames
    <3> QED BY <2>1, <3>1, FramesSent DEF RunnersInvariant
  <2>3. RegistryTyped'
    BY <1>0, <1>2, <2>1, <2>2 DEF RegistryTyped
  <2>4. (AnswererRegistered /\ SocketsCurrent)'
    BY <2>1, <2>2 DEF RunnersInvariant, RunnersKept, AnswererRegistered, SocketsCurrent
  <2>5. WakesNamed'
    BY <1>0, <1>2, <2>1, <2>2 DEF RegistryTyped, RunnersInvariant, RunnersKept, WakesNamed, Taken, On
  <2>6. MailInOrder'
    <3> SUFFICES ASSUME NEW p \in Procs
                 PROVE  /\ ~procs[p].linked => sockets'[p].mail = <<>>
                        /\ procs[p].phase = "off" => ~procs[p].linked
                        /\ \A i \in DOMAIN sockets'[p].mail : sockets'[p].mail[i] = "welcome" => i = 1
      BY DEF MailInOrder
    <3>1. /\ ~procs[p].linked => sockets[p].mail = <<>>
          /\ procs[p].phase = "off" => ~procs[p].linked
          /\ \A i \in DOMAIN sockets[p].mail : sockets[p].mail[i] = "welcome" => i = 1
      BY DEF RunnersInvariant, RunnersKept, MailInOrder
    <3>2. sockets[p].mail \in Seq(Frames) /\ "wake" \in Frames
      BY <1>0 DEF RegistryTyped, SocketRow, Frames
    <3>3. \A i \in DOMAIN Append(sockets[p].mail, "wake") : Append(sockets[p].mail, "wake")[i] = "welcome" => i = 1
      BY <3>1, <3>2, MailLonger
    <3> QED BY <2>2, <3>1, <3>3
  <2>7. StopComes'
    BY <2>1, <2>2 DEF RunnersInvariant, RunnersKept, StopComes, MayWork, StopOnTheWay
  <2> QED BY <2>3, <2>4, <2>5, <2>6, <2>7 DEF RunnersKept
<1> QED BY <1>1, <1>2

(* A stop that is sent does not start anything. *)
LEMMA StopAppended ==
    ASSUME RunnersInvariant, NEW p \in Procs, NEW s \in {sockets[p].mail, Append(sockets[p].mail, "stop")}
    PROVE  /\ \A i \in DOMAIN s : s[i] = "welcome" => i = 1
           /\ Contains(s, "wake") <=> Contains(sockets[p].mail, "wake")
           /\ Contains(s, "welcome") <=> Contains(sockets[p].mail, "welcome")
           /\ Contains(sockets[p].mail, "stop") \/ s = Append(sockets[p].mail, "stop") => Contains(s, "stop")
<1>1. sockets[p].mail \in Seq(Frames) /\ {"stop", "wake", "welcome"} \subseteq Frames
  BY DEF RunnersInvariant, RunnersTypeOK, Frames
<1>2. \A i \in DOMAIN sockets[p].mail : sockets[p].mail[i] = "welcome" => i = 1
  BY DEF RunnersInvariant, RunnersKept, MailInOrder
<1>3. PICK t : t = Append(sockets[p].mail, "stop")
  OBVIOUS
<1>4. /\ \A i \in DOMAIN t : t[i] = "welcome" => i = 1
      /\ \A f \in Frames : Contains(t, f) <=> Contains(sockets[p].mail, f) \/ f = "stop"
  BY <1>1, <1>2, <1>3, MailLonger
<1>5. s = sockets[p].mail \/ s = t
  BY <1>3
<1> QED BY <1>1, <1>2, <1>3, <1>4, <1>5

LEMMA RegisterKeeps ==
    ASSUME RunnersInvariant, NEW d \in Devices, NEW epoch \in Nat, NEW claims \in BOOLEAN,
           Register(d, epoch, claims),
           \A p \in Procs : \/ procs'[p] = procs[p]
                            \/ /\ claims /\ DeviceOf[p] = d
                               /\ ~procs[p].linked /\ ~procs'[p].linked
    PROVE  RunnersKept' /\ RegistryTyped'
<1>0. RegistryTyped /\ MaxEpoch \in Nat /\ None \notin Devices /\ \A p \in Procs : DeviceOf[p] \in Devices
  BY RunnersAssumption DEF RunnersInvariant, RunnersTypeOK, RegistryTyped, SocketRow
<1>1. PICK loses : loses = (answering # None /\ (claims <=> answering # d))
  OBVIOUS
<1>2. PICK loser : loser = IF claims THEN answering ELSE d
  OBVIOUS
<1>3. PICK held : held = IF loses THEN Sent(loser, "stop") ELSE sockets
  OBVIOUS
<1>4. /\ epoch >= devices[d] /\ epoch \in 1 .. MaxEpoch
      /\ devices' = [devices EXCEPT ![d] = epoch]
      /\ answering' = IF claims THEN d ELSE IF answering = d THEN None ELSE answering
      /\ wakes' = WakesAfter(d, claims)
      /\ sockets' = Closed(held, d, epoch)
      /\ untold' = IF loses THEN untold \cup Unreached(loser) ELSE untold
  BY <1>1, <1>2, <1>3 DEF Register
<1>5. /\ held \in [Procs -> SocketRow]
      /\ \A p \in Procs :
            /\ held[p].open = sockets[p].open /\ held[p].epoch = sockets[p].epoch
            /\ ~procs[p].linked => held[p] = sockets[p]
            /\ held[p].mail \in {sockets[p].mail, Append(sockets[p].mail, "stop")}
            /\ loses /\ DeviceOf[p] = loser /\ p \notin Unreached(loser) =>
                  held[p].mail = Append(sockets[p].mail, "stop")
  <2>1. "stop" \in Frames
    BY DEF Frames
  <2>2. CASE loses
    BY <1>3, <2>1, <2>2, FramesSent DEF RunnersInvariant
  <2>3. CASE ~loses
    BY <1>0, <1>3, <2>3 DEF RegistryTyped
  <2> QED BY <2>2, <2>3
<1>6. /\ sockets' \in [Procs -> SocketRow]
      /\ \A p \in Procs :
            /\ sockets'[p].mail = held[p].mail /\ sockets'[p].epoch = sockets[p].epoch
            /\ sockets'[p].open => sockets[p].open /\ (DeviceOf[p] = d => sockets[p].epoch >= epoch)
  BY <1>4, <1>5, SocketsClosed
<1>7. RegistryTyped'
  <2>1. untold' \subseteq Procs
    BY <1>0, <1>4 DEF RegistryTyped, Unreached, On
  <2>2. devices' \in [Devices -> 0 .. MaxEpoch] /\ answering' \in Devices \cup {None}
    BY <1>0, <1>4 DEF RegistryTyped
  <2>3. wakes' \in [Devices -> {"none", "pending", "delivered"}]
    BY <1>0, <1>4 DEF RegistryTyped, WakesAfter
  <2> QED BY <1>6, <2>1, <2>2, <2>3 DEF RegistryTyped
<1>8. AnswererRegistered'
  <2>1. answering # None => devices[answering] # 0
    BY DEF RunnersInvariant, RunnersKept, AnswererRegistered
  <2> QED BY <1>0, <1>4, <2>1 DEF AnswererRegistered, RegistryTyped
<1>9. WakesNamed'
  <2> SUFFICES ASSUME NEW e \in Devices
               PROVE  /\ wakes'[e] # "none" => answering' = e
                      /\ wakes'[e] = "pending" => \A p \in On(e) : ~sockets'[p].open
    BY DEF WakesNamed, On
  <2>1. /\ wakes[e] # "none" => answering = e
        /\ wakes[e] = "pending" => \A p \in On(e) : ~sockets[p].open
    BY DEF RunnersInvariant, RunnersKept, WakesNamed
  <2>2. wakes'[e] = IF (claims /\ e # d) \/ (e = d /\ ~claims /\ answering = d) THEN "none" ELSE wakes[e]
    BY <1>4 DEF WakesAfter
  <2>3. wakes'[e] # "none" => answering' = e
    BY <1>4, <2>1, <2>2
  <2>4. wakes'[e] = "pending" => \A p \in On(e) : ~sockets'[p].open
    BY <1>6, <2>1, <2>2 DEF On
  <2> QED BY <2>3, <2>4
<1>10. SocketsCurrent'
  <2> SUFFICES ASSUME NEW p \in Procs, sockets'[p].open PROVE sockets'[p].epoch = devices'[DeviceOf[p]]
    BY DEF SocketsCurrent
  <2>1. sockets[p].epoch = devices[DeviceOf[p]] /\ (DeviceOf[p] = d => sockets[p].epoch >= epoch)
    BY <1>6 DEF RunnersInvariant, RunnersKept, SocketsCurrent
  <2>2. devices[DeviceOf[p]] \in Nat
    BY <1>0 DEF RegistryTyped
  <2>3. sockets'[p].epoch = sockets[p].epoch
    BY <1>6
  <2>4. CASE DeviceOf[p] = d
    <3>1. sockets[p].epoch = epoch
      BY <1>4, <2>1, <2>2, <2>4
    <3> QED BY <1>0, <1>4, <2>3, <2>4, <3>1 DEF RegistryTyped
  <2>5. CASE DeviceOf[p] # d
    BY <1>0, <1>4, <2>1, <2>3, <2>5 DEF RegistryTyped
  <2> QED BY <2>4, <2>5
<1>11. MailInOrder'
  <2> SUFFICES ASSUME NEW p \in Procs
               PROVE  /\ ~procs'[p].linked => sockets'[p].mail = <<>>
                      /\ procs'[p].phase = "off" => ~procs'[p].linked
                      /\ \A i \in DOMAIN sockets'[p].mail : sockets'[p].mail[i] = "welcome" => i = 1
    BY DEF MailInOrder
  <2>1. /\ ~procs[p].linked => sockets[p].mail = <<>>
        /\ procs[p].phase = "off" => ~procs[p].linked
    BY DEF RunnersInvariant, RunnersKept, MailInOrder
  <2>2. sockets'[p].mail \in {sockets[p].mail, Append(sockets[p].mail, "stop")}
    BY <1>5, <1>6
  <2>3. \A i \in DOMAIN sockets'[p].mail : sockets'[p].mail[i] = "welcome" => i = 1
    <3>1. PICK s : s = sockets'[p].mail
      OBVIOUS
    <3> QED BY <2>2, <3>1, StopAppended
  <2> QED BY <1>5, <1>6, <2>1, <2>3
<1>12. StopComes'
  <2> SUFFICES ASSUME NEW p \in Procs, MayWork(p)', answering' # DeviceOf[p] PROVE StopOnTheWay(p)'
    BY DEF StopComes
  <2>1. PICK s : s = sockets'[p].mail
    OBVIOUS
  <2>2. /\ s \in {sockets[p].mail, Append(sockets[p].mail, "stop")}
        /\ loses /\ DeviceOf[p] = loser /\ p \notin Unreached(loser) => s = Append(sockets[p].mail, "stop")
    BY <1>5, <1>6, <2>1
  <2>3. /\ Contains(s, "wake") <=> Contains(sockets[p].mail, "wake")
        /\ Contains(s, "welcome") <=> Contains(sockets[p].mail, "welcome")
        /\ Contains(sockets[p].mail, "stop") \/ s = Append(sockets[p].mail, "stop") => Contains(s, "stop")
    BY <2>2, StopAppended
  <2>4. procs'[p] = procs[p]
    BY <1>4
  <2>5. MayWork(p)
    BY <2>1, <2>3, <2>4 DEF MayWork
  <2>6. CASE loses /\ DeviceOf[p] = loser
    BY <1>4, <2>1, <2>2, <2>3, <2>6 DEF StopOnTheWay
  <2>7. CASE ~(loses /\ DeviceOf[p] = loser)
    <3>1. answering # DeviceOf[p]
      BY <1>0, <1>1, <1>2, <1>4, <2>7
    <3>2. StopOnTheWay(p)
      BY <2>5, <3>1 DEF RunnersInvariant, RunnersKept, StopComes
    <3> QED BY <1>4, <2>1, <2>3, <3>2 DEF StopOnTheWay
  <2> QED BY <2>6, <2>7
<1> QED BY <1>7, <1>8, <1>9, <1>10, <1>11, <1>12 DEF RunnersKept

LEMMA ReleaseKeeps ==
    ASSUME RunnersInvariant, NEW d \in Devices, ReleaseRunner(d)
    PROVE  RunnersKept' /\ RegistryTyped'
<1>0. RegistryTyped /\ MaxEpoch \in Nat /\ None \notin Devices /\ \A p \in Procs : DeviceOf[p] \in Devices
  BY RunnersAssumption DEF RunnersInvariant, RunnersTypeOK, RegistryTyped, SocketRow
<1>1. PICK held : held = IF answering = d THEN Sent(d, "stop") ELSE sockets
  OBVIOUS
<1>2. /\ devices' = [devices EXCEPT ![d] = 0]
      /\ answering' = IF answering = d THEN None ELSE answering
      /\ wakes' = [wakes EXCEPT ![d] = "none"]
      /\ sockets' = Closed(held, d, MaxEpoch + 1)
      /\ untold' = IF answering = d THEN untold \cup Unreached(d) ELSE untold
      /\ procs' = procs
  BY <1>1 DEF ReleaseRunner
<1>3. /\ held \in [Procs -> SocketRow]
      /\ \A p \in Procs :
            /\ held[p].open = sockets[p].open /\ held[p].epoch = sockets[p].epoch
            /\ ~procs[p].linked => held[p] = sockets[p]
            /\ held[p].mail \in {sockets[p].mail, Append(sockets[p].mail, "stop")}
            /\ answering = d /\ DeviceOf[p] = d /\ p \notin Unreached(d) =>
                  held[p].mail = Append(sockets[p].mail, "stop")
  <2>1. "stop" \in Frames
    BY DEF Frames
  <2>2. CASE answering = d
    BY <1>1, <2>1, <2>2, FramesSent DEF RunnersInvariant
  <2>3. CASE answering # d
    BY <1>0, <1>1, <2>3 DEF RegistryTyped
  <2> QED BY <2>2, <2>3
<1>4. /\ sockets' \in [Procs -> SocketRow]
      /\ \A p \in Procs :
            /\ sockets'[p].mail = held[p].mail /\ sockets'[p].epoch = sockets[p].epoch
            /\ sockets'[p].open => sockets[p].open /\ DeviceOf[p] # d
  <2>1. MaxEpoch + 1 \in Nat
    BY <1>0
  <2>2. /\ sockets' \in [Procs -> SocketRow]
        /\ \A p \in Procs :
              /\ sockets'[p].mail = held[p].mail /\ sockets'[p].epoch = sockets[p].epoch
              /\ sockets'[p].open => sockets[p].open /\ (DeviceOf[p] = d => sockets[p].epoch >= MaxEpoch + 1)
    BY <1>2, <1>3, <2>1, SocketsClosed
  <2>3. \A p \in Procs : sockets[p].epoch \in 0 .. MaxEpoch
    BY <1>0 DEF RegistryTyped, SocketRow
  <2>4. \A p \in Procs : ~(sockets[p].epoch >= MaxEpoch + 1)
    BY <1>0, <2>3
  <2> QED BY <2>2, <2>4
<1>5. RegistryTyped'
  <2>1. untold' \subseteq Procs
    BY <1>0, <1>2 DEF RegistryTyped, Unreached, On
  <2>2. devices' \in [Devices -> 0 .. MaxEpoch] /\ answering' \in Devices \cup {None}
    BY <1>0, <1>2 DEF RegistryTyped
  <2>3. wakes' \in [Devices -> {"none", "pending", "delivered"}]
    BY <1>0, <1>2 DEF RegistryTyped
  <2> QED BY <1>4, <2>1, <2>2, <2>3 DEF RegistryTyped
<1>6. AnswererRegistered'
  <2>1. answering # None => devices[answering] # 0
    BY DEF RunnersInvariant, RunnersKept, AnswererRegistered
  <2> QED BY <1>0, <1>2, <2>1 DEF AnswererRegistered, RegistryTyped
<1>7. WakesNamed'
  <2> SUFFICES ASSUME NEW e \in Devices
               PROVE  /\ wakes'[e] # "none" => answering' = e
                      /\ wakes'[e] = "pending" => \A p \in On(e) : ~sockets'[p].open
    BY DEF WakesNamed, On
  <2>1. /\ wakes[e] # "none" => answering = e
        /\ wakes[e] = "pending" => \A p \in On(e) : ~sockets[p].open
    BY DEF RunnersInvariant, RunnersKept, WakesNamed
  <2>2. wakes'[e] = IF e = d THEN "none" ELSE wakes[e]
    BY <1>0, <1>2 DEF RegistryTyped
  <2>3. wakes'[e] # "none" => answering' = e
    BY <1>2, <2>1, <2>2
  <2>4. wakes'[e] = "pending" => \A p \in On(e) : ~sockets'[p].open
    BY <1>4, <2>1, <2>2 DEF On
  <2> QED BY <2>3, <2>4
<1>8. SocketsCurrent'
  BY <1>0, <1>2, <1>4 DEF RunnersInvariant, RunnersKept, SocketsCurrent, RegistryTyped
<1>9. MailInOrder'
  <2> SUFFICES ASSUME NEW p \in Procs
               PROVE  /\ ~procs'[p].linked => sockets'[p].mail = <<>>
                      /\ procs'[p].phase = "off" => ~procs'[p].linked
                      /\ \A i \in DOMAIN sockets'[p].mail : sockets'[p].mail[i] = "welcome" => i = 1
    BY DEF MailInOrder
  <2>1. /\ ~procs[p].linked => sockets[p].mail = <<>>
        /\ procs[p].phase = "off" => ~procs[p].linked
    BY DEF RunnersInvariant, RunnersKept, MailInOrder
  <2>2. sockets'[p].mail \in {sockets[p].mail, Append(sockets[p].mail, "stop")}
    BY <1>3, <1>4
  <2>3. \A i \in DOMAIN sockets'[p].mail : sockets'[p].mail[i] = "welcome" => i = 1
    <3>1. PICK s : s = sockets'[p].mail
      OBVIOUS
    <3> QED BY <2>2, <3>1, StopAppended
  <2> QED BY <1>2, <1>3, <1>4, <2>1, <2>3
<1>10. StopComes'
  <2> SUFFICES ASSUME NEW p \in Procs, MayWork(p)', answering' # DeviceOf[p] PROVE StopOnTheWay(p)'
    BY DEF StopComes
  <2>1. PICK s : s = sockets'[p].mail
    OBVIOUS
  <2>2. /\ s \in {sockets[p].mail, Append(sockets[p].mail, "stop")}
        /\ answering = d /\ DeviceOf[p] = d /\ p \notin Unreached(d) => s = Append(sockets[p].mail, "stop")
    BY <1>3, <1>4, <2>1
  <2>3. /\ Contains(s, "wake") <=> Contains(sockets[p].mail, "wake")
        /\ Contains(s, "welcome") <=> Contains(sockets[p].mail, "welcome")
        /\ Contains(sockets[p].mail, "stop") \/ s = Append(sockets[p].mail, "stop") => Contains(s, "stop")
    BY <2>2, StopAppended
  <2>5. MayWork(p)
    BY <1>2, <2>1, <2>3 DEF MayWork
  <2>6. CASE answering = d /\ DeviceOf[p] = d
    BY <1>2, <2>1, <2>2, <2>3, <2>6 DEF StopOnTheWay
  <2>7. CASE ~(answering = d /\ DeviceOf[p] = d)
    <3>1. answering # DeviceOf[p]
      BY <1>2, <2>7
    <3>2. StopOnTheWay(p)
      BY <2>5, <3>1 DEF RunnersInvariant, RunnersKept, StopComes
    <3> QED BY <1>2, <2>1, <2>3, <3>2 DEF StopOnTheWay
  <2> QED BY <2>6, <2>7
<1> QED BY <1>5, <1>6, <1>7, <1>8, <1>9, <1>10 DEF RunnersKept

AgentTyped ==
    /\ {active, granted, heeded} \subseteq BOOLEAN /\ attention \in BOOLEAN
    /\ open \in 0 .. issued /\ issued \in Nat
    /\ item \in [state : {"none", "pending", "claimed"}, by : 0 .. issued]

ProcsTyped == procs \in [Procs -> ProcRow(issued)]

LEMMA TypesOf == ASSUME RunnersInvariant PROVE RegistryTyped /\ AgentTyped /\ ProcsTyped
BY DEF RunnersInvariant, RunnersTypeOK, RegistryTyped, AgentTyped, ProcsTyped, SocketRow, ProcRow

LEMMA TypesMake == ASSUME RegistryTyped', AgentTyped', ProcsTyped', RunnersKept' PROVE RunnersInvariant'
BY DEF RunnersInvariant, RunnersTypeOK, RegistryTyped, AgentTyped, ProcsTyped, SocketRow, ProcRow

(* A step of one daemon that reads nothing. *)
LEMMA OneDaemon ==
    ASSUME RunnersKept, NEW p \in Procs,
           UNCHANGED <<devices, answering, wakes, sockets, untold>>,
           \A q \in Procs : q # p => procs'[q] = procs[q],
           procs'[p].linked \/ sockets[p].mail = <<>>,
           procs'[p].phase = "off" => ~procs'[p].linked,
           MayWork(p)' /\ answering # DeviceOf[p] => MayWork(p)
    PROVE  RunnersKept'
<1>1. (AnswererRegistered /\ WakesNamed /\ SocketsCurrent)'
  BY DEF RunnersKept, AnswererRegistered, WakesNamed, SocketsCurrent
<1>2. MailInOrder'
  BY DEF RunnersKept, MailInOrder
<1>3. StopComes'
  <2> SUFFICES ASSUME NEW q \in Procs, MayWork(q)', answering' # DeviceOf[q] PROVE StopOnTheWay(q)'
    BY DEF StopComes
  <2>1. MayWork(q)
    <3>1. CASE q = p
      BY <3>1
    <3>2. CASE q # p
      BY <3>2 DEF MayWork
    <3> QED BY <3>1, <3>2
  <2>2. StopOnTheWay(q)
    BY <2>1 DEF RunnersKept, StopComes
  <2> QED BY <2>2 DEF StopOnTheWay
<1> QED BY <1>1, <1>2, <1>3 DEF RunnersKept

(* How the daemon's own steps change what it knows. *)
LEMMA DaemonMoves ==
    ASSUME RunnersInvariant, NEW p \in Procs, UNCHANGED <<devices, answering, wakes, sockets, untold>>,
           AgentTyped', issued <= issued',
           NEW row \in ProcRow(issued'), procs' = [procs EXCEPT ![p] = row],
           row.linked \/ sockets[p].mail = <<>>, row.phase # "off", row.stopped = procs[p].stopped,
           answering # DeviceOf[p] =>
              /\ row.running # 0 => MayWork(p)
              /\ row.phase = "hashing" /\ row.found => MayWork(p)
    PROVE  RunnersInvariant'
<1>1. RegistryTyped /\ AgentTyped /\ ProcsTyped
  BY TypesOf
<1>2. procs'[p] = row /\ \A q \in Procs : q # p => procs'[q] = procs[q]
  BY <1>1 DEF ProcsTyped
<1>3. RegistryTyped'
  BY <1>1 DEF RegistryTyped
<1>5. ProcsTyped'
  <2>1. 0 .. issued \subseteq 0 .. issued'
    BY <1>1 DEF AgentTyped
  <2>2. PICK n : n = issued'
    OBVIOUS
  <2>3. ProcRow(issued) \subseteq ProcRow(n)
    BY <2>1, <2>2 DEF ProcRow
  <2>4. procs' \in [Procs -> ProcRow(n)]
    BY <1>1, <2>2, <2>3 DEF ProcsTyped
  <2> QED BY <2>2, <2>4 DEF ProcsTyped
<1>6. MayWork(p)' /\ answering # DeviceOf[p] => MayWork(p)
  BY <1>2 DEF MayWork
<1>8. RunnersKept'
  BY <1>2, <1>6, OneDaemon DEF RunnersInvariant
<1> QED BY <1>3, <1>5, <1>8, TypesMake

LEMMA DaemonAlone ==
    ASSUME RunnersInvariant, NEW p \in Procs, UNCHANGED <<tables, sockets, untold>>,
           NEW row \in ProcRow(issued), procs' = [procs EXCEPT ![p] = row],
           row.linked \/ sockets[p].mail = <<>>, row.phase # "off", row.stopped = procs[p].stopped,
           answering # DeviceOf[p] =>
              /\ row.running # 0 => MayWork(p)
              /\ row.phase = "hashing" /\ row.found => MayWork(p)
    PROVE  RunnersInvariant'
<1>1. AgentTyped /\ issued \in Nat
  BY TypesOf DEF AgentTyped
<1>2. AgentTyped' /\ issued' = issued /\ issued <= issued' /\ UNCHANGED <<devices, answering, wakes>>
  BY <1>1 DEF AgentTyped, tables, authority, minted, queue, registry
<1> QED BY <1>2, DaemonMoves

LEMMA RefusedHolds ==
    ASSUME RunnersInvariant, NEW p \in Procs, procs[p].phase # "off", Refused(p), UNCHANGED <<tables, sockets, untold>>
    PROVE  RunnersInvariant'
<1>1. AgentTyped /\ ProcsTyped
  BY TypesOf
<1>2. PICK old : old = procs[p]
  OBVIOUS
<1>3. old \in ProcRow(issued)
  BY <1>1, <1>2 DEF ProcsTyped
<1>4. PICK row : row = [old EXCEPT !.phase = "looping", !.session = 0, !.found = FALSE]
  OBVIOUS
<1>5. /\ row \in ProcRow(issued) /\ row.linked = old.linked /\ row.stopped = old.stopped
      /\ row.running = old.running /\ row.phase = "looping"
  <2>1. 0 \in 0 .. issued
    BY <1>1 DEF AgentTyped
  <2> QED BY <1>3, <1>4, <2>1 DEF ProcRow
<1>6. procs' = [procs EXCEPT ![p] = row]
  BY <1>1, <1>2, <1>4 DEF Refused, ProcsTyped
<1>7. row.running # 0 => MayWork(p)
  BY <1>2, <1>5 DEF MayWork
<1>8. row.linked \/ sockets[p].mail = <<>>
  BY <1>2, <1>5 DEF RunnersInvariant, RunnersKept, MailInOrder
<1> QED BY <1>2, <1>5, <1>6, <1>7, <1>8, DaemonAlone

LEMMA SeeCloseHolds == ASSUME RunnersInvariant, NEW p \in Procs, SeeClose(p) PROVE RunnersInvariant'
<1>1. AgentTyped /\ ProcsTyped
  BY TypesOf
<1>2. PICK old : old = procs[p]
  OBVIOUS
<1>3. old \in ProcRow(issued)
  BY <1>1, <1>2 DEF ProcsTyped
<1>4. PICK row : row = [old EXCEPT !.linked = FALSE]
  OBVIOUS
<1>5. /\ row \in ProcRow(issued) /\ row.stopped = old.stopped
      /\ row.running = old.running /\ row.phase = old.phase
  BY <1>1, <1>3, <1>4 DEF ProcRow, AgentTyped
<1>6. /\ procs' = [procs EXCEPT ![p] = row] /\ old.phase = "looping" /\ sockets[p].mail = <<>>
      /\ UNCHANGED <<tables, sockets, untold>>
  BY <1>1, <1>2, <1>4 DEF SeeClose, ProcsTyped
<1>7. row.running # 0 => MayWork(p)
  BY <1>2, <1>5 DEF MayWork
<1> QED BY <1>2, <1>5, <1>6, <1>7, DaemonAlone

(* StartOrAsk, by a daemon that may start. *)
LEMMA StartHolds ==
    ASSUME RunnersInvariant, NEW p \in Procs, NEW found \in BOOLEAN, StartOrAsk(p, found), procs[p].phase = "looping",
           UNCHANGED <<tables, sockets, untold>>, answering = DeviceOf[p]
    PROVE  RunnersInvariant'
<1>1. AgentTyped /\ ProcsTyped
  BY TypesOf
<1>2. PICK old : old = procs[p]
  OBVIOUS
<1>3. old \in ProcRow(issued)
  BY <1>1, <1>2 DEF ProcsTyped
<1>4. PICK row : row = IF old.session # 0 THEN [old EXCEPT !.running = old.session]
                       ELSE [old EXCEPT !.phase = "asking", !.found = found]
  OBVIOUS
<1>5. /\ row \in ProcRow(issued) /\ row.linked = old.linked /\ row.stopped = old.stopped /\ row.phase # "off"
  <2>1. CASE old.session # 0
    BY <1>2, <1>3, <1>4, <2>1 DEF ProcRow
  <2>2. CASE old.session = 0
    BY <1>2, <1>3, <1>4, <2>2 DEF ProcRow
  <2> QED BY <2>1, <2>2
<1>6. procs' = [procs EXCEPT ![p] = row]
  BY <1>1, <1>2, <1>4 DEF StartOrAsk, ProcsTyped
<1>8. row.linked \/ sockets[p].mail = <<>>
  BY <1>2, <1>5 DEF RunnersInvariant, RunnersKept, MailInOrder
<1> QED BY <1>2, <1>5, <1>6, <1>8, DaemonAlone

LEMMA CheckDepthHolds == ASSUME RunnersInvariant, NEW p \in Procs, CheckDepth(p) PROVE RunnersInvariant'
<1>1. answering = DeviceOf[p]
  BY DEF CheckDepth, Depth
<1> QED BY <1>1, StartHolds DEF CheckDepth

LEMMA BeginSessionHolds == ASSUME RunnersInvariant, NEW p \in Procs, BeginSession(p) PROVE RunnersInvariant'
<1>0. procs[p].phase = "asking" /\ UNCHANGED <<tables, sockets, untold>>
  BY DEF BeginSession
<1>1. CASE Refused(p)
  BY <1>0, <1>1, RefusedHolds
<1>2. CASE answering = DeviceOf[p] /\ procs' = [procs EXCEPT ![p].phase = "hashing"]
  <2>1. AgentTyped /\ ProcsTyped
    BY TypesOf
  <2>2. PICK old : old = procs[p]
    OBVIOUS
  <2>3. old \in ProcRow(issued)
    BY <2>1, <2>2 DEF ProcsTyped
  <2>4. PICK row : row = [old EXCEPT !.phase = "hashing"]
    OBVIOUS
  <2>5. row \in ProcRow(issued) /\ row.linked = old.linked /\ row.stopped = old.stopped /\ row.phase = "hashing"
    BY <2>3, <2>4 DEF ProcRow
  <2>6. procs' = [procs EXCEPT ![p] = row]
    BY <1>2, <2>1, <2>2, <2>4 DEF ProcsTyped
  <2>8. row.linked \/ sockets[p].mail = <<>>
    BY <2>2, <2>5 DEF RunnersInvariant, RunnersKept, MailInOrder
  <2> QED BY <1>0, <1>2, <2>2, <2>5, <2>6, <2>8, DaemonAlone
<1> QED BY <1>1, <1>2 DEF BeginSession

LEMMA FinishSessionHolds == ASSUME RunnersInvariant, NEW p \in Procs, FinishSession(p) PROVE RunnersInvariant'
<1>0. /\ procs[p].phase = "hashing"
      /\ UNCHANGED <<active, granted, heeded, devices, answering, wakes, item, attention, sockets, untold>>
  BY DEF FinishSession, authority, registry, queue
<1>1. CASE Refused(p) /\ UNCHANGED minted
  <2>1. UNCHANGED <<tables, sockets, untold>>
    BY <1>0, <1>1 DEF tables, authority, registry, queue
  <2> QED BY <1>0, <1>1, <2>1, RefusedHolds
<1>2. CASE /\ issued' = issued + 1 /\ open' = issued + 1
           /\ procs' = [procs EXCEPT ![p].phase = "looping", ![p].session = issued + 1, ![p].found = FALSE,
                     ![p].running = IF procs[p].found /\ MayStart(p) THEN issued + 1 ELSE @]
  <2>1. RegistryTyped /\ AgentTyped /\ ProcsTyped
    BY TypesOf
  <2>2. PICK old : old = procs[p]
    OBVIOUS
  <2>3. old \in ProcRow(issued)
    BY <2>1, <2>2 DEF ProcsTyped
  <2>4. PICK n : n = issued + 1
    OBVIOUS
  <2>5. n \in 0 .. n /\ 0 .. issued \subseteq 0 .. n /\ n \in Nat /\ issued' = n /\ issued <= n /\ open' = n
    BY <1>2, <2>1, <2>4 DEF AgentTyped
  <2>6. PICK row : row = [old EXCEPT !.phase = "looping", !.session = n, !.found = FALSE,
                                     !.running = IF old.found /\ MayStart(p) THEN n ELSE old.running]
    OBVIOUS
  <2>7. /\ row \in ProcRow(n) /\ row.linked = old.linked /\ row.stopped = old.stopped
        /\ row.phase = "looping" /\ (row.running = old.running \/ old.found)
    <3>1. old \in ProcRow(n)
      BY <2>3, <2>5 DEF ProcRow
    <3>2. CASE old.found /\ MayStart(p)
      BY <2>5, <2>6, <3>1, <3>2 DEF ProcRow
    <3>3. CASE ~(old.found /\ MayStart(p))
      BY <2>5, <2>6, <3>1, <3>3 DEF ProcRow
    <3> QED BY <3>2, <3>3
  <2>8. procs' = [procs EXCEPT ![p] = row]
    BY <1>2, <2>1, <2>2, <2>4, <2>6 DEF ProcsTyped
  <2>9. AgentTyped'
    <3>1. item \in [state : {"none", "pending", "claimed"}, by : 0 .. n]
      BY <2>1, <2>5 DEF AgentTyped
    <3>2. {active, granted, heeded} \subseteq BOOLEAN /\ attention \in BOOLEAN
      BY <2>1 DEF AgentTyped
    <3> QED BY <1>0, <2>5, <3>1, <3>2 DEF AgentTyped
  <2>10. row.linked \/ sockets[p].mail = <<>>
    BY <2>2, <2>7 DEF RunnersInvariant, RunnersKept, MailInOrder
  <2>11. row.running # 0 => MayWork(p)
    BY <1>0, <2>2, <2>7 DEF MayWork
  <2>12. row \in ProcRow(issued') /\ issued <= issued'
    BY <2>5, <2>7
  <2> QED BY <1>0, <2>2, <2>7, <2>8, <2>9, <2>10, <2>11, <2>12, DaemonMoves
<1> QED BY <1>1, <1>2 DEF FinishSession

LEMMA LoseAnswerHolds == ASSUME RunnersInvariant, NEW p \in Procs, LoseAnswer(p) PROVE RunnersInvariant'
<1>0. /\ procs[p].phase = "hashing" /\ Refused(p) /\ issued' = issued + 1 /\ open' = issued + 1
      /\ UNCHANGED <<active, granted, heeded, devices, answering, wakes, item, attention, sockets, untold>>
  BY DEF LoseAnswer, authority, registry, queue
<1>1. AgentTyped /\ ProcsTyped
  BY TypesOf
<1>2. PICK old : old = procs[p]
  OBVIOUS
<1>3. old \in ProcRow(issued)
  BY <1>1, <1>2 DEF ProcsTyped
<1>4. PICK n : n = issued + 1
  OBVIOUS
<1>5. n \in 0 .. n /\ 0 .. issued \subseteq 0 .. n /\ 0 \in 0 .. n /\ n \in Nat /\ issued' = n /\ issued <= n /\ open' = n
  BY <1>0, <1>1, <1>4 DEF AgentTyped
<1>6. PICK row : row = [old EXCEPT !.phase = "looping", !.session = 0, !.found = FALSE]
  OBVIOUS
<1>7. /\ row \in ProcRow(n) /\ row.linked = old.linked /\ row.stopped = old.stopped
      /\ row.running = old.running /\ row.phase = "looping"
  <2>1. old \in ProcRow(n)
    BY <1>3, <1>5 DEF ProcRow
  <2> QED BY <1>5, <1>6, <2>1 DEF ProcRow
<1>8. procs' = [procs EXCEPT ![p] = row]
  BY <1>0, <1>1, <1>2, <1>6 DEF Refused, ProcsTyped
<1>9. AgentTyped'
  <2>1. item \in [state : {"none", "pending", "claimed"}, by : 0 .. n]
    BY <1>1, <1>5 DEF AgentTyped
  <2>2. {active, granted, heeded} \subseteq BOOLEAN /\ attention \in BOOLEAN
    BY <1>1 DEF AgentTyped
  <2> QED BY <1>0, <1>5, <2>1, <2>2 DEF AgentTyped
<1>10. row.linked \/ sockets[p].mail = <<>>
  BY <1>2, <1>7 DEF RunnersInvariant, RunnersKept, MailInOrder
<1>11. row.running # 0 => MayWork(p)
  BY <1>2, <1>7 DEF MayWork
<1>12. row \in ProcRow(issued') /\ issued <= issued'
  BY <1>5, <1>7
<1> QED BY <1>0, <1>2, <1>7, <1>8, <1>9, <1>10, <1>11, <1>12, DaemonMoves

LEMMA ForgetSessionHolds == ASSUME RunnersInvariant, NEW p \in Procs, ForgetSession(p) PROVE RunnersInvariant'
<1>1. AgentTyped /\ ProcsTyped
  BY TypesOf
<1>2. PICK old : old = procs[p]
  OBVIOUS
<1>3. old \in ProcRow(issued)
  BY <1>1, <1>2 DEF ProcsTyped
<1>4. PICK row : row = [old EXCEPT !.session = 0]
  OBVIOUS
<1>5. /\ row \in ProcRow(issued) /\ row.linked = old.linked /\ row.stopped = old.stopped
      /\ row.running = old.running /\ row.phase = old.phase
  <2>1. 0 \in 0 .. issued
    BY <1>1 DEF AgentTyped
  <2> QED BY <1>3, <1>4, <2>1 DEF ProcRow
<1>6. procs' = [procs EXCEPT ![p] = row] /\ old.phase = "looping" /\ UNCHANGED <<tables, sockets, untold>>
  BY <1>1, <1>2, <1>4 DEF ForgetSession, ProcsTyped
<1>7. row.running # 0 => MayWork(p)
  BY <1>2, <1>5 DEF MayWork
<1>8. row.linked \/ sockets[p].mail = <<>>
  BY <1>2, <1>5 DEF RunnersInvariant, RunnersKept, MailInOrder
<1> QED BY <1>2, <1>5, <1>6, <1>7, <1>8, DaemonAlone

LEMMA ExitHolds ==
    ASSUME RunnersInvariant, NEW p \in Procs, NEW outcome, NEW told, Exit(p, outcome, told) PROVE RunnersInvariant'
<1>1. AgentTyped /\ ProcsTyped
  BY TypesOf
<1>2. PICK old : old = procs[p]
  OBVIOUS
<1>3. old \in ProcRow(issued)
  BY <1>1, <1>2 DEF ProcsTyped
<1>4. PICK row : row = [old EXCEPT !.running = 0, !.session = IF outcome = "failed" THEN 0 ELSE old.session]
  OBVIOUS
<1>5. /\ row \in ProcRow(issued) /\ row.linked = old.linked /\ row.stopped = old.stopped
      /\ row.running = 0 /\ row.phase = old.phase
  <2>1. 0 \in 0 .. issued
    BY <1>1 DEF AgentTyped
  <2>2. CASE outcome = "failed"
    BY <1>3, <1>4, <2>1, <2>2 DEF ProcRow
  <2>3. CASE outcome # "failed"
    BY <1>3, <1>4, <2>1, <2>3 DEF ProcRow
  <2> QED BY <2>2, <2>3
<1>6. /\ procs' = [procs EXCEPT ![p] = row] /\ old.phase = "looping"
      /\ UNCHANGED <<active, granted, heeded, devices, answering, wakes, open, issued, sockets, untold>>
  BY <1>1, <1>2, <1>4 DEF Exit, ProcsTyped, authority, registry, minted
<1>7. (item' = [state |-> "none", by |-> 0] /\ attention' = TRUE) \/ UNCHANGED <<item, attention>>
  BY DEF Exit, Reported, queue
<1>8. row.linked \/ sockets[p].mail = <<>>
  BY <1>2, <1>5 DEF RunnersInvariant, RunnersKept, MailInOrder
<1>9. AgentTyped' /\ issued <= issued' /\ row \in ProcRow(issued')
  <2>1. 0 \in 0 .. issued /\ issued <= issued' /\ issued \in Nat /\ open \in 0 .. issued
    BY <1>1, <1>6 DEF AgentTyped
  <2>2. item' \in [state : {"none", "pending", "claimed"}, by : 0 .. issued]
    BY <1>1, <1>7, <2>1 DEF AgentTyped
  <2>3. {active, granted, heeded} \subseteq BOOLEAN /\ attention' \in BOOLEAN
    BY <1>1, <1>7 DEF AgentTyped
  <2> QED BY <1>5, <1>6, <2>1, <2>2, <2>3 DEF AgentTyped
<1> QED BY <1>2, <1>5, <1>6, <1>8, <1>9, DaemonMoves

LEMMA MailShorter ==
    ASSUME NEW s \in Seq(Frames), s # <<>>, \A i \in DOMAIN s : s[i] = "welcome" => i = 1
    PROVE  /\ Tail(s) \in Seq(Frames) /\ Head(s) \in Frames
           /\ \A i \in DOMAIN Tail(s) : Tail(s)[i] # "welcome"
           /\ ~Contains(Tail(s), "welcome") /\ Contains(s, Head(s))
           /\ \A f \in Frames : /\ Contains(Tail(s), f) => Contains(s, f)
                                /\ Contains(s, f) /\ f # Head(s) => Contains(Tail(s), f)
<1>1. /\ Len(s) \in Nat /\ Len(s) >= 1 /\ Tail(s) \in Seq(Frames) /\ Head(s) = s[1]
      /\ Len(Tail(s)) = Len(s) - 1 /\ DOMAIN Tail(s) = 1 .. Len(s) - 1 /\ DOMAIN s = 1 .. Len(s)
      /\ \A i \in 1 .. Len(s) - 1 : Tail(s)[i] = s[i + 1]
  OBVIOUS
<1>2. \A i \in DOMAIN Tail(s) : Tail(s)[i] # "welcome"
  BY <1>1
<1>3. ~Contains(Tail(s), "welcome")
  BY <1>1, <1>2 DEF Contains
<1>4. Head(s) \in Frames /\ Contains(s, Head(s))
  BY <1>1 DEF Contains
<1>5. ASSUME NEW f \in Frames
      PROVE  /\ Contains(Tail(s), f) => Contains(s, f)
             /\ Contains(s, f) /\ f # Head(s) => Contains(Tail(s), f)
  <2>1. ASSUME Contains(Tail(s), f) PROVE Contains(s, f)
    <3>1. PICK i \in 1 .. Len(s) - 1 : Tail(s)[i] = f
      BY <1>1, <2>1 DEF Contains
    <3>2. i + 1 \in 1 .. Len(s) /\ s[i + 1] = f
      BY <1>1, <3>1
    <3> QED BY <3>2 DEF Contains
  <2>2. ASSUME Contains(s, f), f # Head(s) PROVE Contains(Tail(s), f)
    <3>1. PICK i \in 1 .. Len(s) : s[i] = f
      BY <2>2 DEF Contains
    <3>2. i # 1 /\ i - 1 \in 1 .. Len(s) - 1 /\ i - 1 + 1 = i
      BY <1>1, <2>2, <3>1
    <3>3. Tail(s)[i - 1] = f
      BY <1>1, <3>1, <3>2
    <3> QED BY <1>1, <3>2, <3>3 DEF Contains
  <2> QED BY <2>1, <2>2
<1> QED BY <1>1, <1>2, <1>3, <1>4, <1>5

(* A step of one daemon, and of what is on its way to it. *)
LEMMA OneConnection ==
    ASSUME RunnersInvariant, NEW p \in Procs,
           UNCHANGED <<active, granted, heeded, attention, open, issued, item, devices, answering, wakes>>,
           untold' \subseteq Procs, \A q \in Procs \ {p} : q \in untold => q \in untold',
           NEW socket \in SocketRow, sockets' = [sockets EXCEPT ![p] = socket],
           socket.open => sockets[p].open, socket.epoch = sockets[p].epoch,
           NEW row \in ProcRow(issued), procs' = [procs EXCEPT ![p] = row],
           ~row.linked => socket.mail = <<>>, row.phase = "off" => ~row.linked,
           \A i \in DOMAIN socket.mail : socket.mail[i] = "welcome" => i = 1,
           MayWork(p)' /\ answering # DeviceOf[p] => StopOnTheWay(p)'
    PROVE  RunnersInvariant'
<1>1. RegistryTyped /\ AgentTyped /\ ProcsTyped
  BY TypesOf
<1>2. /\ procs'[p] = row /\ \A q \in Procs : q # p => procs'[q] = procs[q]
      /\ sockets'[p] = socket /\ \A q \in Procs : q # p => sockets'[q] = sockets[q]
  BY <1>1 DEF ProcsTyped, RegistryTyped
<1>3. RegistryTyped'
  BY <1>1 DEF RegistryTyped
<1>4. AgentTyped'
  BY <1>1 DEF AgentTyped
<1>5. ProcsTyped'
  BY <1>1 DEF ProcsTyped
<1>6. \A q \in Procs : /\ sockets'[q].open => sockets[q].open
                       /\ sockets'[q].epoch = sockets[q].epoch
  BY <1>2
<1>7. (AnswererRegistered /\ SocketsCurrent)'
  BY <1>6 DEF RunnersInvariant, RunnersKept, AnswererRegistered, SocketsCurrent
<1>8. WakesNamed'
  BY <1>6 DEF RunnersInvariant, RunnersKept, WakesNamed, On
<1>9. MailInOrder'
  BY <1>2 DEF RunnersInvariant, RunnersKept, MailInOrder
<1>10. StopComes'
  <2> SUFFICES ASSUME NEW q \in Procs, MayWork(q)', answering' # DeviceOf[q] PROVE StopOnTheWay(q)'
    BY DEF StopComes
  <2>1. CASE q = p
    BY <2>1
  <2>2. CASE q # p
    <3>1. MayWork(q)
      BY <1>2, <2>2 DEF MayWork
    <3>2. StopOnTheWay(q)
      BY <3>1 DEF RunnersInvariant, RunnersKept, StopComes
    <3> QED BY <1>2, <2>2, <3>2 DEF StopOnTheWay
  <2> QED BY <2>1, <2>2
<1>11. RunnersKept'
  BY <1>7, <1>8, <1>9, <1>10 DEF RunnersKept
<1> QED BY <1>3, <1>4, <1>5, <1>11, TypesMake

LEMMA ReadFrameHolds == ASSUME RunnersInvariant, NEW p \in Procs, ReadFrame(p) PROVE RunnersInvariant'
<1>1. RegistryTyped /\ AgentTyped /\ ProcsTyped /\ 0 \in 0 .. issued
  BY TypesOf DEF AgentTyped
<1>2. PICK old : old = procs[p]
  OBVIOUS
<1>3. PICK was : was = sockets[p]
  OBVIOUS
<1>4. old \in ProcRow(issued) /\ was \in SocketRow
  BY <1>1, <1>2, <1>3 DEF ProcsTyped, RegistryTyped
<1>5. PICK s : s = was.mail
  OBVIOUS
<1>6. s \in Seq(Frames) /\ s # <<>> /\ \A i \in DOMAIN s : s[i] = "welcome" => i = 1
  BY <1>3, <1>4, <1>5 DEF SocketRow, RunnersInvariant, RunnersKept, MailInOrder, ReadFrame
<1>7. PICK t : t = Tail(s)
  OBVIOUS
<1>8. PICK frame : frame = Head(s)
  OBVIOUS
<1>9. /\ t \in Seq(Frames) /\ frame \in Frames /\ \A i \in DOMAIN t : t[i] = "welcome" => i = 1
      /\ ~Contains(t, "welcome") /\ Contains(s, frame)
      /\ \A f \in {"stop", "wake", "welcome"} : /\ Contains(t, f) => Contains(s, f)
                                                /\ Contains(s, f) /\ f # frame => Contains(t, f)
  BY <1>6, <1>7, <1>8, MailShorter DEF Frames
<1>10. PICK socket : socket = [was EXCEPT !.mail = t]
  OBVIOUS
<1>11. /\ socket \in SocketRow /\ socket.mail = t /\ socket.open = was.open /\ socket.epoch = was.epoch
       /\ sockets' = [sockets EXCEPT ![p] = socket]
  <2>1. sockets' = [sockets EXCEPT ![p] = socket]
    BY <1>1, <1>3, <1>5, <1>7, <1>10 DEF ReadFrame, RegistryTyped
  <2> QED BY <1>4, <1>9, <1>10, <2>1 DEF SocketRow
<1>12. /\ old.phase = "looping" /\ old.linked
       /\ UNCHANGED <<active, granted, heeded, attention, open, issued, item, devices, answering, wakes>>
       /\ untold' = IF frame = "stop" THEN untold \ {p} ELSE untold
  BY <1>2, <1>3, <1>5, <1>8 DEF ReadFrame, tables, authority, registry, minted, queue
<1>13. untold' \subseteq Procs /\ \A q \in Procs \ {p} : q \in untold => q \in untold'
  BY <1>1, <1>12 DEF RegistryTyped
<1>14. MayWork(p) /\ answering # DeviceOf[p] => p \in untold \/ Contains(s, "stop")
  BY <1>3, <1>5 DEF RunnersInvariant, RunnersKept, StopComes, StopOnTheWay
<1>15. sockets'[p] = socket
  BY <1>1, <1>11 DEF RegistryTyped
<1>16. ASSUME NEW row \in ProcRow(issued), procs' = [procs EXCEPT ![p] = row],
              row.linked = old.linked, row.phase \in {"looping", "asking"}, frame # "stop",
              row.running # 0 \/ (Contains(t, "wake") /\ (row.stopped => Contains(t, "welcome"))) => MayWork(p)
       PROVE  RunnersInvariant'
  <2>1. procs'[p] = row
    BY <1>1, <1>16 DEF ProcsTyped
  <2>2. MayWork(p)' /\ answering # DeviceOf[p] => StopOnTheWay(p)'
    BY <1>9, <1>11, <1>12, <1>14, <1>15, <1>16, <2>1 DEF MayWork, StopOnTheWay
  <2> QED BY <1>3, <1>9, <1>11, <1>12, <1>13, <1>16, <2>2, OneConnection
<1>17. CASE /\ frame = "welcome"
            /\ procs' = [procs EXCEPT ![p].stopped = FALSE, ![p].found = FALSE,
                      ![p].phase = IF procs[p].session = 0 THEN "asking" ELSE @]
  <2>1. PICK row : row = [old EXCEPT !.stopped = FALSE, !.found = FALSE,
                             !.phase = IF old.session = 0 THEN "asking" ELSE old.phase]
    OBVIOUS
  <2>2. /\ row \in ProcRow(issued) /\ row.linked = old.linked /\ row.phase \in {"looping", "asking"}
        /\ row.running = old.running
    <3>1. CASE old.session = 0
      BY <1>4, <1>12, <2>1, <3>1 DEF ProcRow
    <3>2. CASE old.session # 0
      BY <1>4, <1>12, <2>1, <3>2 DEF ProcRow
    <3> QED BY <3>1, <3>2
  <2>3. procs' = [procs EXCEPT ![p] = row]
    BY <1>1, <1>2, <1>17, <2>1 DEF ProcsTyped
  <2>4. row.running # 0 \/ Contains(t, "wake") => MayWork(p)
    <3>1. sockets[p].mail = s /\ procs[p] = old
      BY <1>2, <1>3, <1>5
    <3>2. Contains(s, "welcome") /\ (Contains(t, "wake") => Contains(s, "wake"))
      <4>1. frame = "welcome"
        BY <1>17
      <4>2. Contains(s, frame)
        BY <1>9
      <4>3. Contains(t, "wake") => Contains(s, "wake")
        BY <1>9
      <4> QED BY <4>1, <4>2, <4>3
    <3> QED BY <2>2, <3>1, <3>2 DEF MayWork
  <2> QED BY <1>16, <1>17, <2>2, <2>3, <2>4
<1>18. CASE frame = "wake" /\ IF MayStart(p) THEN StartOrAsk(p, FALSE) ELSE UNCHANGED procs
  <2>0. ~old.stopped => MayWork(p)
    BY <1>2, <1>3, <1>5, <1>9, <1>18 DEF MayWork
  <2>1. CASE MayStart(p)
    <3>1. PICK row : row = IF old.session # 0 THEN [old EXCEPT !.running = old.session]
                           ELSE [old EXCEPT !.phase = "asking", !.found = FALSE]
      OBVIOUS
    <3>2. row \in ProcRow(issued) /\ row.linked = old.linked /\ row.phase \in {"looping", "asking"}
      <4>1. CASE old.session # 0
        BY <1>4, <1>12, <3>1, <4>1 DEF ProcRow
      <4>2. CASE old.session = 0
        BY <1>4, <1>12, <3>1, <4>2 DEF ProcRow
      <4> QED BY <4>1, <4>2
    <3>3. procs' = [procs EXCEPT ![p] = row]
      BY <1>1, <1>2, <1>18, <2>1, <3>1 DEF StartOrAsk, ProcsTyped
    <3>4. MayWork(p)
      BY <1>2, <2>0, <2>1 DEF MayStart
    <3> QED BY <1>16, <1>18, <3>2, <3>3, <3>4
  <2>2. CASE ~MayStart(p)
    <3>1. procs' = [procs EXCEPT ![p] = old]
      BY <1>1, <1>2, <1>18, <2>2 DEF ProcsTyped
    <3>2. old.running # 0 \/ (Contains(t, "wake") /\ (old.stopped => Contains(t, "welcome"))) => MayWork(p)
      BY <1>2, <1>9, <2>0 DEF MayWork
    <3> QED BY <1>4, <1>12, <1>16, <1>18, <3>1, <3>2
  <2> QED BY <2>1, <2>2
<1>19. CASE frame = "stop" /\ procs' = [procs EXCEPT ![p].stopped = TRUE, ![p].running = 0]
  <2>1. PICK row : row = [old EXCEPT !.stopped = TRUE, !.running = 0]
    OBVIOUS
  <2>2. /\ row \in ProcRow(issued) /\ row.linked = old.linked /\ row.phase = "looping"
        /\ row.running = 0 /\ row.stopped
    BY <1>1, <1>4, <1>12, <2>1 DEF ProcRow
  <2>3. procs' = [procs EXCEPT ![p] = row]
    BY <1>1, <1>2, <1>19, <2>1 DEF ProcsTyped
  <2>4. procs'[p] = row
    BY <1>1, <2>3 DEF ProcsTyped
  <2>5. ~MayWork(p)'
    BY <1>9, <1>11, <1>15, <2>2, <2>4 DEF MayWork
  <2> QED BY <1>3, <1>9, <1>11, <1>12, <1>13, <2>2, <2>3, <2>5, OneConnection
<1> QED BY <1>3, <1>5, <1>8, <1>17, <1>18, <1>19 DEF ReadFrame

LEMMA BreakHolds == ASSUME RunnersInvariant, NEW p \in Procs, Break(p) PROVE RunnersInvariant'
<1>1. RegistryTyped /\ AgentTyped /\ ProcsTyped
  BY TypesOf
<1>2. PICK old : old = procs[p]
  OBVIOUS
<1>3. PICK was : was = sockets[p]
  OBVIOUS
<1>4. old \in ProcRow(issued) /\ was \in SocketRow /\ <<>> \in Seq(Frames)
  BY <1>1, <1>2, <1>3 DEF ProcsTyped, RegistryTyped
<1>5. PICK noticed \in BOOLEAN : sockets' = [sockets EXCEPT ![p].mail = <<>>, ![p].open = @ /\ ~noticed]
  BY DEF Break
<1>6. PICK socket : socket = [was EXCEPT !.mail = <<>>, !.open = was.open /\ ~noticed]
  OBVIOUS
<1>7. /\ socket \in SocketRow /\ socket.mail = <<>> /\ (socket.open => was.open) /\ socket.epoch = was.epoch
      /\ sockets' = [sockets EXCEPT ![p] = socket]
  <2>1. sockets' = [sockets EXCEPT ![p] = socket]
    BY <1>1, <1>3, <1>5, <1>6 DEF RegistryTyped
  <2>2. (was.open /\ ~noticed) \in BOOLEAN
    OBVIOUS
  <2>3. socket \in SocketRow
    BY <1>4, <1>6, <2>2 DEF SocketRow
  <2>4. socket.mail = <<>> /\ (socket.open => was.open) /\ socket.epoch = was.epoch
    BY <1>4, <1>6 DEF SocketRow
  <2> QED BY <2>1, <2>3, <2>4
<1>8. PICK row : row = [old EXCEPT !.linked = FALSE]
  OBVIOUS
<1>9. row \in ProcRow(issued) /\ ~row.linked /\ row.phase = old.phase /\ row.running = old.running /\ row.found = old.found
  BY <1>4, <1>8 DEF ProcRow
<1>10. /\ UNCHANGED <<active, granted, heeded, attention, open, issued, item, devices, answering, wakes>>
       /\ untold' = IF Contains(sockets[p].mail, "stop") THEN untold \cup {p} ELSE untold
       /\ procs' = [procs EXCEPT ![p] = row]
  BY <1>1, <1>2, <1>8 DEF Break, tables, authority, registry, minted, queue, ProcsTyped
<1>11. untold' \subseteq Procs /\ \A q \in Procs \ {p} : q \in untold => q \in untold'
  BY <1>1, <1>10 DEF RegistryTyped
<1>12. procs'[p] = row /\ sockets'[p] = socket
  BY <1>1, <1>7, <1>10 DEF ProcsTyped, RegistryTyped
<1>13. \A f \in {"stop", "wake", "welcome"} : ~Contains(<<>>, f)
  BY DEF Contains
<1>14. MayWork(p)' => MayWork(p)
  BY <1>2, <1>7, <1>9, <1>12, <1>13 DEF MayWork
<1>15. MayWork(p) /\ answering # DeviceOf[p] => p \in untold'
  BY <1>10 DEF RunnersInvariant, RunnersKept, StopComes, StopOnTheWay
<1>16. MayWork(p)' /\ answering # DeviceOf[p] => StopOnTheWay(p)'
  BY <1>14, <1>15 DEF StopOnTheWay
<1>17. \A i \in DOMAIN socket.mail : socket.mail[i] = "welcome" => i = 1
  BY <1>7
<1> QED BY <1>3, <1>7, <1>9, <1>10, <1>11, <1>16, <1>17, OneConnection

LEMMA CrashHolds == ASSUME RunnersInvariant, NEW p \in Procs, Crash(p) PROVE RunnersInvariant'
<1>1. RegistryTyped /\ AgentTyped /\ ProcsTyped /\ MaxEpoch \in Nat
  BY TypesOf, RunnersAssumption
<1>3. PICK was : was = sockets[p]
  OBVIOUS
<1>4. was \in SocketRow /\ <<>> \in Seq(Frames)
  BY <1>1, <1>3 DEF RegistryTyped
<1>6. PICK socket : socket = [was EXCEPT !.mail = <<>>]
  OBVIOUS
<1>7. /\ socket \in SocketRow /\ socket.mail = <<>> /\ socket.open = was.open /\ socket.epoch = was.epoch
      /\ sockets' = [sockets EXCEPT ![p] = socket]
  <2>1. sockets' = [sockets EXCEPT ![p] = socket]
    BY <1>1, <1>3, <1>6 DEF Crash, RegistryTyped
  <2> QED BY <1>4, <1>6, <2>1 DEF SocketRow
<1>8. PICK row : row = Off
  OBVIOUS
<1>9. row \in ProcRow(issued) /\ ~row.linked /\ row.phase = "off" /\ row.running = 0
  <2>1. PICK f : f = [phase |-> "looping", epoch |-> 0, linked |-> FALSE, stopped |-> FALSE,
                      running |-> 0, session |-> 0, found |-> FALSE]
    OBVIOUS
  <2>2. row = [f EXCEPT !.phase = "off"]
    BY <1>8, <2>1 DEF Off, Fresh
  <2>3. 0 \in 0 .. MaxEpoch /\ 0 \in 0 .. issued
    BY <1>1 DEF AgentTyped
  <2> QED BY <2>1, <2>2, <2>3 DEF ProcRow
<1>10. /\ UNCHANGED <<active, granted, heeded, attention, open, issued, item, devices, answering, wakes>>
       /\ untold' = untold \ {p} /\ procs' = [procs EXCEPT ![p] = row]
  BY <1>8 DEF Crash, tables, authority, registry, minted, queue
<1>11. untold' \subseteq Procs /\ \A q \in Procs \ {p} : q \in untold => q \in untold'
  BY <1>1, <1>10 DEF RegistryTyped
<1>12. procs'[p] = row /\ sockets'[p] = socket
  BY <1>1, <1>7, <1>10 DEF ProcsTyped, RegistryTyped
<1>13. \A f \in {"stop", "wake", "welcome"} : ~Contains(<<>>, f)
  BY DEF Contains
<1>14. ~MayWork(p)'
  BY <1>7, <1>9, <1>12, <1>13 DEF MayWork
<1>17. \A i \in DOMAIN socket.mail : socket.mail[i] = "welcome" => i = 1
  BY <1>7
<1> QED BY <1>3, <1>7, <1>9, <1>10, <1>11, <1>14, <1>17, OneConnection

LEMMA NoticeDeadHolds == ASSUME RunnersInvariant, NEW p \in Procs, NoticeDead(p) PROVE RunnersInvariant'
<1>1. RegistryTyped /\ AgentTyped /\ ProcsTyped
  BY TypesOf
<1>2. PICK old : old = procs[p]
  OBVIOUS
<1>3. PICK was : was = sockets[p]
  OBVIOUS
<1>4. old \in ProcRow(issued) /\ was \in SocketRow
  BY <1>1, <1>2, <1>3 DEF ProcsTyped, RegistryTyped
<1>6. PICK socket : socket = [was EXCEPT !.open = FALSE]
  OBVIOUS
<1>7. /\ socket \in SocketRow /\ socket.mail = was.mail /\ ~socket.open /\ socket.epoch = was.epoch
      /\ sockets' = [sockets EXCEPT ![p] = socket]
  <2>1. sockets' = [sockets EXCEPT ![p] = socket]
    BY <1>1, <1>3, <1>6 DEF NoticeDead, RegistryTyped
  <2> QED BY <1>4, <1>6, <2>1 DEF SocketRow
<1>10. /\ UNCHANGED <<active, granted, heeded, attention, open, issued, item, devices, answering, wakes, untold>>
       /\ procs' = [procs EXCEPT ![p] = old]
  BY <1>1, <1>2 DEF NoticeDead, tables, authority, registry, minted, queue, ProcsTyped
<1>11. untold' \subseteq Procs /\ \A q \in Procs \ {p} : q \in untold => q \in untold'
  BY <1>1, <1>10 DEF RegistryTyped
<1>12. procs'[p] = procs[p] /\ sockets'[p] = socket
  BY <1>1, <1>2, <1>7, <1>10 DEF ProcsTyped, RegistryTyped
<1>14. MayWork(p)' => MayWork(p)
  BY <1>3, <1>7, <1>12 DEF MayWork
<1>15. MayWork(p) /\ answering # DeviceOf[p] => StopOnTheWay(p)
  BY DEF RunnersInvariant, RunnersKept, StopComes
<1>16. MayWork(p)' /\ answering # DeviceOf[p] => StopOnTheWay(p)'
  BY <1>3, <1>7, <1>10, <1>12, <1>14, <1>15 DEF StopOnTheWay
<1>17. /\ \A i \in DOMAIN socket.mail : socket.mail[i] = "welcome" => i = 1
       /\ ~old.linked => socket.mail = <<>>
       /\ old.phase = "off" => ~old.linked
  BY <1>2, <1>3, <1>7 DEF RunnersInvariant, RunnersKept, MailInOrder
<1> QED BY <1>3, <1>4, <1>7, <1>10, <1>11, <1>16, <1>17, OneConnection

(* A connection is made when the registration is in force. *)
LEMMA ConnectHolds == ASSUME RunnersInvariant, NEW p \in Procs, Connect(p) PROVE RunnersInvariant'
<1>1. RegistryTyped /\ AgentTyped /\ ProcsTyped /\ MaxEpoch \in Nat
  BY TypesOf, RunnersAssumption
<1>2. PICK d : d = DeviceOf[p]
  OBVIOUS
<1>3. PICK old : old = procs[p]
  OBVIOUS
<1>4. PICK mail : mail = IF answering = d THEN <<"welcome">> ELSE <<>>
  OBVIOUS
<1>5. PICK socket : socket = [open |-> TRUE, epoch |-> old.epoch, mail |-> mail]
  OBVIOUS
<1>6. PICK held : held = [sockets EXCEPT ![p] = socket]
  OBVIOUS
<1>7. /\ old.phase = "looping" /\ ~old.linked /\ devices[d] = old.epoch
      /\ procs' = [procs EXCEPT ![p].linked = TRUE] /\ Flushed(p, held)
      /\ UNCHANGED <<active, granted, heeded, attention, open, issued, item, devices, answering, untold>>
  BY <1>2, <1>3, <1>4, <1>5, <1>6 DEF Connect, authority, registry, minted, queue
<1>8. old \in ProcRow(issued) /\ d \in Devices /\ {"welcome", "wake"} \subseteq Frames
  BY <1>1, <1>2, <1>3, RunnersAssumption DEF ProcsTyped, Frames
<1>9. mail \in Seq(Frames) /\ mail \in {<<>>, <<"welcome">>}
  BY <1>4, <1>8
<1>10. socket \in SocketRow /\ socket.open /\ socket.epoch = old.epoch /\ socket.mail = mail
  BY <1>5, <1>8, <1>9 DEF SocketRow, ProcRow
<1>11. /\ held \in [Procs -> SocketRow] /\ held[p] = socket
       /\ \A q \in Procs : q # p => held[q] = sockets[q]
  BY <1>1, <1>6, <1>10 DEF RegistryTyped
<1>12. PICK row : row = [old EXCEPT !.linked = TRUE]
  OBVIOUS
<1>13. /\ row \in ProcRow(issued) /\ row.linked /\ row.phase = "looping"
       /\ row.running = old.running /\ row.stopped = old.stopped
       /\ procs' = [procs EXCEPT ![p] = row]
  <2>1. procs' = [procs EXCEPT ![p] = row]
    BY <1>1, <1>3, <1>7, <1>12 DEF ProcsTyped
  <2> QED BY <1>7, <1>8, <1>12, <2>1 DEF ProcRow
<1>14. procs'[p] = row /\ \A q \in Procs : q # p => procs'[q] = procs[q]
  BY <1>1, <1>13 DEF ProcsTyped
<1>15. wakes[d] = "pending" => answering = d
  BY <1>8 DEF RunnersInvariant, RunnersKept, WakesNamed
<1>16. /\ sockets' \in [Procs -> SocketRow]
       /\ wakes' \in [Devices -> {"none", "pending", "delivered"}]
       /\ wakes'[d] # "pending"
       /\ \A e \in Devices : (wakes'[e] # "none" => wakes[e] # "none") /\ (e # d => wakes'[e] = wakes[e])
       /\ \A q \in Procs :
             /\ sockets'[q].open = held[q].open /\ sockets'[q].epoch = held[q].epoch
             /\ answering # DeviceOf[q] \/ (q # p /\ ~procs[q].linked) => sockets'[q] = held[q]
             /\ sockets'[q].mail \in {held[q].mail, Append(held[q].mail, "wake")}
  <2>1. CASE wakes[d] # "pending"
    <3>1. sockets' = held /\ wakes' = wakes
      BY <1>2, <1>7, <2>1 DEF Flushed
    <3> QED BY <1>1, <1>11, <2>1, <3>1 DEF RegistryTyped
  <2>2. CASE wakes[d] = "pending"
    <3>1. /\ wakes' = [wakes EXCEPT ![d] = "delivered"]
          /\ sockets' = [q \in Procs |->
                IF q = p \/ (q \in On(d) /\ sockets[q].open /\ procs[q].linked)
                THEN [held[q] EXCEPT !.mail = Append(@, "wake")] ELSE held[q]]
      BY <1>2, <1>7, <2>2 DEF Flushed
    <3>2. ASSUME NEW q \in Procs
          PROVE  /\ sockets'[q] \in SocketRow
                 /\ sockets'[q].open = held[q].open /\ sockets'[q].epoch = held[q].epoch
                 /\ answering # DeviceOf[q] \/ (q # p /\ ~procs[q].linked) => sockets'[q] = held[q]
                 /\ sockets'[q].mail \in {held[q].mail, Append(held[q].mail, "wake")}
      <4>1. PICK h : h = held[q]
        OBVIOUS
      <4>2. h \in SocketRow
        BY <1>11, <4>1
      <4>3. Append(h.mail, "wake") \in Seq(Frames)
        BY <1>8, <4>2 DEF SocketRow
      <4>4. PICK l : l = [h EXCEPT !.mail = Append(h.mail, "wake")]
        OBVIOUS
      <4>5. l \in SocketRow /\ l.open = h.open /\ l.epoch = h.epoch /\ l.mail = Append(h.mail, "wake")
        BY <4>2, <4>3, <4>4 DEF SocketRow
      <4>6. \/ sockets'[q] = h
            \/ sockets'[q] = l /\ (q = p \/ (q \in On(d) /\ procs[q].linked))
        BY <3>1, <4>1, <4>4
      <4>7. (q = p \/ q \in On(d)) => DeviceOf[q] = answering
        BY <1>2, <1>15, <2>2 DEF On
      <4> QED BY <4>1, <4>2, <4>5, <4>6, <4>7
    <3>3. sockets' \in [Procs -> SocketRow]
      BY <3>1, <3>2
    <3>4. /\ wakes' \in [Devices -> {"none", "pending", "delivered"}]
          /\ wakes'[d] # "pending"
          /\ \A e \in Devices : (wakes'[e] # "none" => wakes[e] # "none") /\ (e # d => wakes'[e] = wakes[e])
      BY <1>1, <1>8, <2>2, <3>1 DEF RegistryTyped
    <3> QED BY <3>2, <3>3, <3>4
  <2> QED BY <2>1, <2>2
<1>17. RegistryTyped'
  BY <1>1, <1>7, <1>16 DEF RegistryTyped
<1>18. AgentTyped'
  BY <1>1, <1>7 DEF AgentTyped
<1>19. ProcsTyped'
  BY <1>1, <1>7, <1>13 DEF ProcsTyped
<1>20. AnswererRegistered'
  BY <1>7 DEF RunnersInvariant, RunnersKept, AnswererRegistered
<1>21. WakesNamed'
  <2> SUFFICES ASSUME NEW e \in Devices
               PROVE  /\ wakes'[e] # "none" => answering' = e
                      /\ wakes'[e] = "pending" => \A q \in On(e) : ~sockets'[q].open
    BY DEF WakesNamed, On
  <2>1. /\ wakes[e] # "none" => answering = e
        /\ wakes[e] = "pending" => \A q \in On(e) : ~sockets[q].open
    BY DEF RunnersInvariant, RunnersKept, WakesNamed
  <2>2. wakes'[e] = "pending" => \A q \in On(e) : ~sockets'[q].open
    <3> SUFFICES ASSUME wakes'[e] = "pending", NEW q \in On(e) PROVE ~sockets'[q].open
      OBVIOUS
    <3>1. e # d /\ q \in Procs /\ DeviceOf[q] = e
      BY <1>16 DEF On
    <3>2. q # p /\ ~sockets[q].open
      BY <1>2, <1>16, <2>1, <3>1
    <3> QED BY <1>11, <1>16, <3>1, <3>2
  <2> QED BY <1>7, <1>16, <2>1, <2>2
<1>22. SocketsCurrent'
  <2> SUFFICES ASSUME NEW q \in Procs, sockets'[q].open PROVE sockets'[q].epoch = devices[DeviceOf[q]]
    BY <1>7 DEF SocketsCurrent
  <2>1. CASE q = p
    BY <1>2, <1>7, <1>10, <1>11, <1>16, <2>1
  <2>2. CASE q # p
    BY <1>11, <1>16, <2>2 DEF RunnersInvariant, RunnersKept, SocketsCurrent
  <2> QED BY <2>1, <2>2
<1>23. ASSUME NEW q \in Procs
       PROVE  /\ held[q].mail \in Seq(Frames)
              /\ \A i \in DOMAIN held[q].mail : held[q].mail[i] = "welcome" => i = 1
  <2>1. held[q].mail \in Seq(Frames)
    BY <1>11 DEF SocketRow
  <2>2. CASE q = p
    <3>1. mail = <<>> \/ mail = <<"welcome">>
      BY <1>9
    <3>2. \A i \in DOMAIN mail : mail[i] = "welcome" => i = 1
      BY <3>1
    <3> QED BY <1>10, <1>11, <2>1, <2>2, <3>2
  <2>3. CASE q # p
    BY <1>11, <2>1, <2>3 DEF RunnersInvariant, RunnersKept, MailInOrder
  <2> QED BY <2>2, <2>3
<1>24. MailInOrder'
  <2> SUFFICES ASSUME NEW q \in Procs
               PROVE  /\ ~procs'[q].linked => sockets'[q].mail = <<>>
                      /\ procs'[q].phase = "off" => ~procs'[q].linked
                      /\ \A i \in DOMAIN sockets'[q].mail : sockets'[q].mail[i] = "welcome" => i = 1
    BY DEF MailInOrder
  <2>1. \A i \in DOMAIN sockets'[q].mail : sockets'[q].mail[i] = "welcome" => i = 1
    <3>1. PICK s : s = held[q].mail
      OBVIOUS
    <3>2. PICK t : t = Append(s, "wake")
      OBVIOUS
    <3>3. /\ \A i \in DOMAIN s : s[i] = "welcome" => i = 1
          /\ \A i \in DOMAIN t : t[i] = "welcome" => i = 1
      BY <1>8, <1>23, <3>1, <3>2, MailLonger
    <3>4. sockets'[q].mail = s \/ sockets'[q].mail = t
      BY <1>16, <3>1, <3>2
    <3> QED BY <3>3, <3>4
  <2>2. CASE q = p
    BY <1>13, <1>14, <2>1, <2>2
  <2>3. CASE q # p
    <3>1. /\ ~procs[q].linked => sockets[q].mail = <<>>
          /\ procs[q].phase = "off" => ~procs[q].linked
      BY DEF RunnersInvariant, RunnersKept, MailInOrder
    <3> QED BY <1>11, <1>14, <1>16, <2>1, <2>3, <3>1
  <2> QED BY <2>2, <2>3
<1>25. StopComes'
  <2> SUFFICES ASSUME NEW q \in Procs, MayWork(q)', answering' # DeviceOf[q] PROVE StopOnTheWay(q)'
    BY DEF StopComes
  <2>1. sockets'[q] = held[q]
    BY <1>7, <1>16
  <2>2. CASE q = p
    <3>1. mail = <<>> /\ sockets[p].mail = <<>>
      BY <1>2, <1>3, <1>4, <1>7, <2>2 DEF RunnersInvariant, RunnersKept, MailInOrder
    <3>2. \A f \in {"stop", "wake", "welcome"} : ~Contains(<<>>, f)
      BY DEF Contains
    <3>3. row.running # 0
      BY <1>10, <1>11, <1>13, <1>14, <2>1, <2>2, <3>1, <3>2 DEF MayWork
    <3>4. MayWork(p)
      BY <1>3, <1>13, <3>3 DEF MayWork
    <3>5. p \in untold
      BY <1>7, <2>2, <3>1, <3>2, <3>4 DEF RunnersInvariant, RunnersKept, StopComes, StopOnTheWay
    <3> QED BY <1>7, <2>2, <3>5 DEF StopOnTheWay
  <2>3. CASE q # p
    <3>1. MayWork(q)
      BY <1>11, <1>14, <2>1, <2>3 DEF MayWork
    <3>2. StopOnTheWay(q)
      BY <1>7, <3>1 DEF RunnersInvariant, RunnersKept, StopComes
    <3> QED BY <1>7, <1>11, <2>1, <2>3, <3>2 DEF StopOnTheWay
  <2> QED BY <2>2, <2>3
<1>26. RunnersKept'
  BY <1>20, <1>21, <1>22, <1>24, <1>25 DEF RunnersKept
<1> QED BY <1>17, <1>18, <1>19, <1>26, TypesMake

LEMMA StartDaemonHolds ==
    ASSUME RunnersInvariant, NEW p \in Procs, NEW epoch \in 1 .. MaxEpoch, StartDaemon(p, epoch)
    PROVE  RunnersInvariant'
<1>1. RegistryTyped /\ AgentTyped /\ ProcsTyped /\ MaxEpoch \in Nat /\ DeviceOf[p] \in Devices /\ epoch \in Nat
  BY TypesOf, RunnersAssumption
<1>2. PICK row : row = Fresh(epoch)
  OBVIOUS
<1>3. row \in ProcRow(issued) /\ ~row.linked
  <2>1. 0 \in 0 .. issued /\ epoch \in 0 .. MaxEpoch
    BY <1>1 DEF AgentTyped
  <2> QED BY <1>2, <2>1 DEF Fresh, ProcRow
<1>4. /\ Register(DeviceOf[p], epoch, TRUE) /\ procs' = [procs EXCEPT ![p] = row] /\ procs[p].phase = "off"
      /\ UNCHANGED <<active, granted, heeded, open, issued, item, attention>>
  BY <1>2 DEF StartDaemon, Register, authority, minted, queue
<1>5. \A q \in Procs : \/ procs'[q] = procs[q]
                       \/ /\ TRUE /\ DeviceOf[q] = DeviceOf[p]
                          /\ ~procs[q].linked /\ ~procs'[q].linked
  BY <1>1, <1>3, <1>4 DEF ProcsTyped, RunnersInvariant, RunnersKept, MailInOrder
<1>6. RunnersKept' /\ RegistryTyped'
  BY <1>1, <1>4, <1>5, RegisterKeeps
<1>7. ProcsTyped' /\ AgentTyped'
  <2>1. ProcsTyped'
    BY <1>1, <1>3, <1>4 DEF ProcsTyped
  <2>2. AgentTyped'
    BY <1>1, <1>4 DEF AgentTyped
  <2> QED BY <2>1, <2>2
<1> QED BY <1>6, <1>7, TypesMake

(* Steps that change what the workspace keeps of the agent alone. *)
LEMMA AgentChanges ==
    ASSUME RunnersInvariant, AgentTyped', issued' = issued, procs' = procs, RunnersKept' /\ RegistryTyped'
    PROVE  RunnersInvariant'
<1>1. ProcsTyped
  BY TypesOf
<1>2. ProcsTyped'
  BY <1>1 DEF ProcsTyped
<1> QED BY <1>2, TypesMake

LEMMA WorkChanges ==
    ASSUME RunnersInvariant, AgentTyped', UNCHANGED <<issued, procs, devices, answering, wakes, sockets, untold>>
    PROVE  RunnersInvariant'
<1>1. RunnersKept'
  BY NothingSaid DEF RunnersInvariant
<1>2. RegistryTyped
  BY TypesOf
<1>3. RegistryTyped'
  BY <1>2 DEF RegistryTyped
<1> QED BY <1>1, <1>3, AgentChanges

LEMMA HarnessHolds == ASSUME RunnersInvariant, NEW p \in Procs, HarnessStep(p) PROVE RunnersInvariant'
<1>0. AgentTyped /\ ProcsTyped
  BY TypesOf
<1>1. CASE Claim(p) \/ Complete(p)
  <2>1. /\ UNCHANGED <<active, granted, heeded, open, issued, attention>>
        /\ UNCHANGED <<devices, answering, wakes, sockets, procs, untold>>
    BY <1>1 DEF Claim, Complete, authority, registry, minted
  <2>2. PICK k : k = procs[p].running
    OBVIOUS
  <2>3. k \in 0 .. issued /\ 0 \in 0 .. issued
    BY <1>0, <2>2 DEF AgentTyped, ProcsTyped, ProcRow
  <2>4. item' = [state |-> "claimed", by |-> k] \/ item' = [state |-> "none", by |-> 0]
    BY <1>1, <2>2 DEF Claim, Complete
  <2>5. item' \in [state : {"none", "pending", "claimed"}, by : 0 .. issued]
    BY <2>3, <2>4
  <2>6. AgentTyped'
    BY <1>0, <2>1, <2>5 DEF AgentTyped
  <2> QED BY <2>1, <2>6, WorkChanges
<1>2. CASE EndRun(p)
  BY <1>2, ExitHolds DEF EndRun
<1> QED BY <1>1, <1>2 DEF HarnessStep

LEMMA MentionHolds == ASSUME RunnersInvariant, Mention PROVE RunnersInvariant'
<1>1. AgentTyped
  BY TypesOf
<1>2. /\ UNCHANGED <<active, granted, heeded, open, issued, attention, devices, answering, procs, untold>>
      /\ item' = [state |-> "pending", by |-> 0]
      /\ RecordRunnerWake \/ UNCHANGED <<wakes, sockets>>
  BY DEF Mention, authority, registry, minted
<1>3. AgentTyped'
  <2>1. 0 \in 0 .. issued
    BY <1>1 DEF AgentTyped
  <2>2. item' \in [state : {"none", "pending", "claimed"}, by : 0 .. issued]
    BY <1>2, <2>1
  <2> QED BY <1>1, <1>2, <2>2 DEF AgentTyped
<1>4. CASE RecordRunnerWake
  <2>1. RunnersKept' /\ RegistryTyped'
    BY <1>2, <1>4, WakeSent
  <2> QED BY <1>2, <1>3, <2>1, AgentChanges
<1>5. CASE UNCHANGED <<wakes, sockets>>
  BY <1>2, <1>3, <1>5, WorkChanges
<1> QED BY <1>2, <1>4, <1>5

LEMMA ChangeHolds == ASSUME RunnersInvariant, Change PROVE RunnersInvariant'
<1>0. AgentTyped /\ ProcsTyped /\ 0 \in 0 .. issued /\ MaxEpoch \in Nat
  BY TypesOf, RunnersAssumption DEF AgentTyped
<1>1. ASSUME NEW d \in Devices, NEW epoch \in 1 .. MaxEpoch, NEW claims \in BOOLEAN,
             RegisterByHand(d, epoch, claims)
      PROVE  RunnersInvariant'
  <2>1. /\ Register(d, epoch, claims) /\ procs' = procs /\ epoch \in Nat
        /\ UNCHANGED <<active, granted, heeded, open, issued, item, attention>>
    BY <1>0, <1>1 DEF RegisterByHand, Register, authority, minted, queue
  <2>2. RunnersKept' /\ RegistryTyped'
    BY <2>1, RegisterKeeps
  <2>3. AgentTyped'
    BY <1>0, <2>1 DEF AgentTyped
  <2> QED BY <2>1, <2>2, <2>3, AgentChanges
<1>2. ASSUME NEW d \in Devices, ReleaseRunner(d) PROVE RunnersInvariant'
  <2>1. UNCHANGED <<active, granted, heeded, open, issued, item, attention, procs>>
    BY <1>2 DEF ReleaseRunner, authority, minted, queue
  <2>2. RunnersKept' /\ RegistryTyped'
    BY <1>2, ReleaseKeeps
  <2>3. AgentTyped'
    BY <1>0, <2>1 DEF AgentTyped
  <2> QED BY <2>1, <2>2, <2>3, AgentChanges
<1>3. ASSUME UNCHANGED <<devices, answering, procs, issued>>, AgentTyped',
             StopRunners \/ UNCHANGED <<wakes, sockets, untold>>
      PROVE  RunnersInvariant'
  <2>1. CASE StopRunners
    BY <1>3, <2>1, StopSent, AgentChanges
  <2>2. CASE UNCHANGED <<wakes, sockets, untold>>
    BY <1>3, <2>2, WorkChanges
  <2> QED BY <1>3, <2>1, <2>2
<1>4. ASSUME NEW status \in BOOLEAN \ {active}, SetAgentStatus(status) PROVE RunnersInvariant'
  <2>1. /\ UNCHANGED <<granted, heeded, devices, answering, issued, item, attention, procs>>
        /\ active' = status /\ (open' = open \/ open' = 0)
        /\ StopRunners \/ UNCHANGED <<wakes, sockets, untold>>
    BY <1>4 DEF SetAgentStatus, registry, queue
  <2>2. open' \in 0 .. issued
    BY <1>0, <2>1 DEF AgentTyped
  <2>3. AgentTyped'
    BY <1>0, <2>1, <2>2 DEF AgentTyped
  <2> QED BY <1>3, <2>1, <2>3
<1>5. ASSUME NEW told \in BOOLEAN, EndDelegation(told) PROVE RunnersInvariant'
  <2>1. /\ UNCHANGED <<active, heeded, devices, answering, issued, item, attention, procs>>
        /\ granted' = FALSE /\ open' = 0
        /\ StopRunners \/ UNCHANGED <<wakes, sockets, untold>>
    BY <1>5 DEF EndDelegation, registry, queue
  <2>2. AgentTyped'
    BY <1>0, <2>1 DEF AgentTyped
  <2> QED BY <1>3, <2>1, <2>2
<1>6. ASSUME CreateDelegation \/ SetLocalRuntimePolicy PROVE RunnersInvariant'
  <2>1. /\ UNCHANGED <<active, devices, answering, open, issued, item, attention, procs, wakes, sockets, untold>>
        /\ (granted' = TRUE \/ granted' = granted) /\ (heeded' = heeded \/ heeded' = ~heeded)
    BY <1>6 DEF CreateDelegation, SetLocalRuntimePolicy, registry, minted, queue
  <2>2. {active', granted', heeded'} \subseteq BOOLEAN
    BY <1>0, <2>1 DEF AgentTyped
  <2>3. AgentTyped'
    BY <1>0, <2>1, <2>2 DEF AgentTyped
  <2> QED BY <2>1, <2>3, WorkChanges
<1>7. ASSUME StopAgentRuntime PROVE RunnersInvariant'
  <2>1. /\ UNCHANGED <<active, granted, heeded, devices, answering, issued, item, attention, procs>>
        /\ open' = 0 /\ StopRunners
    BY <1>7 DEF StopAgentRuntime, authority, registry, queue
  <2>2. AgentTyped'
    BY <1>0, <2>1 DEF AgentTyped
  <2> QED BY <1>3, <2>1, <2>2
<1>8. ASSUME StartLocalRuntimeNow PROVE RunnersInvariant'
  <2>1. /\ UNCHANGED <<active, granted, heeded, devices, answering, open, issued, item, attention, procs, untold>>
        /\ RecordRunnerWake
    BY <1>8 DEF StartLocalRuntimeNow, authority, registry, minted, queue
  <2>2. AgentTyped'
    BY <1>0, <2>1 DEF AgentTyped
  <2>3. RunnersKept' /\ RegistryTyped'
    BY <2>1, WakeSent
  <2> QED BY <2>1, <2>2, <2>3, AgentChanges
<1> QED BY <1>1, <1>2, <1>4, <1>5, <1>6, <1>7, <1>8 DEF Change

LEMMA FaultHolds == ASSUME RunnersInvariant, Fault PROVE RunnersInvariant'
BY BreakHolds, CrashHolds, LoseAnswerHolds, ForgetSessionHolds, ExitHolds DEF Fault

LEMMA DaemonHolds == ASSUME RunnersInvariant, NEW p \in Procs, DaemonStep(p) PROVE RunnersInvariant'
BY ConnectHolds, ReadFrameHolds, SeeCloseHolds, CheckDepthHolds, BeginSessionHolds, FinishSessionHolds DEF DaemonStep

LEMMA RunnersStep == RunnersInvariant /\ [RunnersNext]_runnerVars => RunnersInvariant'
<1> SUFFICES ASSUME RunnersInvariant, [RunnersNext]_runnerVars PROVE RunnersInvariant'
  OBVIOUS
<1>1. CASE UNCHANGED runnerVars
  <2>1. UNCHANGED <<issued, procs, devices, answering, wakes, sockets, untold>>
    BY <1>1 DEF runnerVars, tables, registry, minted
  <2>2. UNCHANGED <<active, granted, heeded, open, item, attention>>
    BY <1>1 DEF runnerVars, tables, authority, minted, queue
  <2>3. AgentTyped'
    BY <2>1, <2>2, TypesOf DEF AgentTyped
  <2> QED BY <2>1, <2>3, WorkChanges
<1> QED BY <1>1, MentionHolds, ChangeHolds, FaultHolds, StartDaemonHolds, DaemonHolds, HarnessHolds,
           NoticeDeadHolds DEF RunnersNext

LEMMA RunnersAreHeld == RunnersInvariant => RunnersHold
<1> SUFFICES ASSUME RunnersInvariant PROVE RunnersHold
  OBVIOUS
<1>1. StopsReach
  BY DEF RunnersInvariant, RunnersKept, StopComes, MayWork, StopsReach
<1> QED BY <1>1 DEF RunnersInvariant, RunnersKept, RunnersHold

-----------------------------------------------------------------------------
(* Agents that run elsewhere. *)

Ids == Runs \cup Wakes \cup Events
SomePair == Pairs \cup {NoPair}
SomeAgent == Agents \cup {"none"}
SomeSession == {0} \cup Sessions
ConfigRow == [kind : {"none", "claude_cloud", "custom", "connected"},
              status : {"active", "pending", "disconnected"}, pair : SomePair,
              made : Nat, resource : Nat, webhook : Nat, deployment : Nat, failures : Nat]
RunRow == [agent : SomeAgent, state : {"none", "queued", "starting", "running", "idle", "terminated"},
           session : SomeSession, origin : BOOLEAN]
WakeRow == [agent : SomeAgent, state : {"none", "pending", "delivered", "dead"}]
EntryRow == [status : {"none", "pending", "delivered", "dead"}, attempts : Nat, agent : SomeAgent]
SessionRow == [run : Runs \cup {"none", "manual"}, state : {"none", "running", "idle", "terminated"},
               change : Nat, pair : SomePair]
EventRow == [session : SomeSession, change : Nat, pair : SomePair]
AskRow == [pc : {"idle", "routing", "forgetting", "token", "answer", "deployed"},
           what : {"none", "prove", "schedule", "manual"}, agent : SomeAgent, read : ConfigRow]
FlightRow == [pc : {"idle", "settle", "token", "call", "made", "reconciling"}, entry : Ids \cup {"none"},
              read : ConfigRow, session : SomeSession,
              outcome : {"none", "delivered", "retry", "permanent"}, todo : SUBSET Runs]

SetupRow == [ready : SUBSET Agents, agents : SUBSET Agents, pairs : SUBSET Pairs,
             does : SUBSET STRING, events : SUBSET Events, callers : SUBSET OwnerCalls,
             faults : Nat, refusals : Nat, reconciliations : Nat]

ConfigsTyped ==
    /\ configs \in [Agents -> ConfigRow]
    /\ routes \in [Pairs -> BOOLEAN]
    /\ asking \in [OwnerCalls -> AskRow]
    /\ setup \in SetupRow

WorkTyped ==
    /\ runs \in [Runs -> RunRow]
    /\ wakings \in [Wakes -> WakeRow]
    /\ entries \in [Ids -> EntryRow]
    /\ provider \in [Sessions -> SessionRow]
    /\ said \in [Events -> EventRow]
    /\ flight \in FlightRow

(* What was obtained for an agent is for the configuration it has, unless a *)
(* proof was overtaken; and what a call has read of it is of an earlier     *)
(* configuration, or of this one before.                                    *)
Proved(a) ==
    /\ configs[a].status = "active" => configs[a].resource = configs[a].made /\ configs[a].webhook = configs[a].made
    /\ {configs[a].resource, configs[a].webhook, configs[a].deployment} \subseteq {0, configs[a].made}

ReadBefore(c) ==
    LET now == configs[asking[c].agent]
    IN  /\ asking[c].agent \in Agents
        /\ asking[c].read.made <= now.made
        /\ asking[c].read.made = now.made /\ asking[c].read.webhook # 0 => now.webhook = asking[c].read.webhook

ProofsStand ==
    /\ \A a \in Agents : Claude(a) => Proved(a) \/ <<"overtaken", a>> \in strayed
    /\ \A c \in OwnerCalls : asking[c].pc \in {"token", "answer"} => ReadBefore(c)

(* What the handler has in hand is due, and a run in hand has no session.   *)
FlightTrue ==
    /\ flight.pc \in {"token", "call", "made", "settle"} =>
          flight.entry \in Ids /\ entries[flight.entry].status = "pending"
    /\ flight.pc \in {"token", "call", "made"} /\ flight.entry \in Runs => runs[flight.entry].session = 0
    /\ flight.pc = "made" =>
          /\ flight.entry \in Runs /\ flight.session \in Sessions
          /\ \A e \in Events : said[e].session = flight.session => entries[e].status # "delivered"
    /\ flight.pc = "settle" /\ flight.outcome = "delivered" =>
          /\ flight.entry \in Runs => runs[flight.entry].session # 0
          /\ flight.entry \in Wakes => wakings[flight.entry].state = "delivered"
    /\ \A id \in Ids : entries[id].status # "none" => entries[id].agent \in Agents

(* A session was made for a run that has it, that is about to have it, or   *)
(* that lost it.                                                            *)
SessionsKnown ==
    /\ \A s \in Sessions :
          /\ provider[s].run # "none" <=> provider[s].state # "none"
          /\ provider[s].run \in Runs =>
                \/ <<"lost", provider[s].run>> \in strayed
                \/ runs[provider[s].run].session = s
                \/ flight.pc = "made" /\ flight.entry = provider[s].run /\ flight.session = s
    /\ flight.pc = "made" => provider[flight.session].run = flight.entry
    /\ \A r \in Runs :
          /\ entries[r].status # "none" => runs[r].state # "none"
          /\ entries[r].status = "delivered" => runs[r].session # 0
          /\ runs[r].session # 0 => provider[runs[r].session].run \in {r, "manual"}
    /\ \A c \in OwnerCalls : asking[c].pc = "deployed" =>
          /\ asking[c].agent \in Agents /\ asking[c].read.deployment \in Sessions
          /\ provider[asking[c].read.deployment].run = "manual"

(* Events are of sessions that were made, and are dealt with after they     *)
(* were said.                                                               *)
EventsKnown ==
    \A e \in Events :
       /\ said[e].session # 0 => /\ provider[said[e].session].state # "none"
                                 /\ said[e].change \in 1 .. provider[said[e].session].change
       /\ e \in carried \/ entries[e].status # "none" => said[e] # NoEvent

DealtWith(e) ==
    \/ entries[e].status = "delivered"
    \/ flight.pc = "settle" /\ flight.outcome = "delivered" /\ flight.entry = e

Follows(e, r) ==
    /\ runs[r].session # 0 /\ runs[r].session = said[e].session
    /\ said[e].change = provider[said[e].session].change
    => runs[r].state = provider[said[e].session].state \/ <<"missed", r>> \in strayed

DealtRunsFollow == \A e \in Events, r \in Runs : DealtWith(e) => Follows(e, r)

RuntimesInvariant ==
    /\ ConfigsTyped /\ WorkTyped
    /\ ProofsStand /\ RoutesStand /\ WakesAgree
    /\ FlightTrue /\ SessionsKnown /\ EventsKnown /\ DealtRunsFollow

(* Rows that are not there yet. *)
LEMMA EmptyRows ==
    /\ NoConfig \in ConfigRow /\ NoRun \in RunRow /\ NoWake \in WakeRow /\ NoEntry \in EntryRow
    /\ NoSession \in SessionRow /\ NoEvent \in EventRow /\ NoAsking \in AskRow /\ Grounded \in FlightRow
<1>1. NoConfig \in ConfigRow
  BY DEF NoConfig, ConfigRow, SomePair
<1>2. NoRun \in RunRow /\ NoWake \in WakeRow /\ NoEntry \in EntryRow
  BY DEF NoRun, RunRow, NoWake, WakeRow, NoEntry, EntryRow, SomeAgent, SomeSession
<1>3. NoSession \in SessionRow /\ NoEvent \in EventRow
  BY DEF NoSession, SessionRow, NoEvent, EventRow, SomePair, SomeSession
<1>4. NoAsking \in AskRow
  BY <1>1 DEF NoAsking, AskRow, SomeAgent
<1>5. Grounded \in FlightRow
  BY <1>1 DEF Grounded, FlightRow, SomeSession
<1> QED BY <1>1, <1>2, <1>3, <1>4, <1>5

LEMMA Distinct ==
    /\ "none" \notin Ids /\ "manual" \notin Ids /\ 0 \notin Sessions /\ Sessions \subseteq Nat
    /\ \A id \in Ids : /\ id \in Runs => id \notin Wakes /\ id \notin Events
                       /\ id \in Wakes => id \notin Events
BY RuntimesAssumption DEF Ids, Sessions

LEMMA RuntimesStart == RuntimesInit => RuntimesInvariant
<1> SUFFICES ASSUME RuntimesInit PROVE RuntimesInvariant
  OBVIOUS
<1>1. PICK p : /\ p \in setup.pairs
               /\ configs = [a \in Agents |-> IF a \in setup.ready THEN Ready(p) ELSE NoConfig]
               /\ routes = [q \in Pairs |-> q = p /\ setup.ready # {}]
  BY DEF RuntimesInit
<1>2. setup \in SetupRow
  BY RuntimesAssumption DEF RuntimesInit, SetupRow
<1>3. p \in Pairs
  BY <1>1, <1>2 DEF SetupRow
<1>4. PICK row : row = Ready(p)
  OBVIOUS
<1>5. /\ row \in ConfigRow /\ row.kind = "claude_cloud" /\ row.pair = p
      /\ row.made = 1 /\ row.resource = 1 /\ row.webhook = 1 /\ row.deployment = 1
  <2>1. PICK n : n = NoConfig
    OBVIOUS
  <2>2. n \in ConfigRow
    BY <2>1, EmptyRows
  <2>3. row = [n EXCEPT !.kind = "claude_cloud", !.pair = p, !.made = 1, !.resource = 1, !.webhook = 1, !.deployment = 1]
    BY <1>4, <2>1 DEF Ready
  <2> QED BY <1>3, <2>2, <2>3 DEF ConfigRow, SomePair
<1>6. \A a \in Agents : configs[a] = row \/ configs[a].kind = "none"
  BY <1>1, <1>4 DEF NoConfig
<1>7. ConfigsTyped
  BY <1>1, <1>2, <1>4, <1>5, EmptyRows DEF RuntimesInit, ConfigsTyped
<1>8. WorkTyped
  BY EmptyRows DEF RuntimesInit, WorkTyped, Ids
<1>9. \A c \in OwnerCalls : asking[c].pc = "idle"
  BY DEF RuntimesInit, NoAsking
<1>10. ProofsStand
  BY <1>5, <1>6, <1>9 DEF ProofsStand, Proved, Claude
<1>11. RoutesStand
  <2> SUFFICES ASSUME NEW q \in Pairs, NEW a \in Agents, Claude(a), configs[a].pair = q PROVE routes[q]
    BY DEF RoutesStand, UsedPair
  <2>1. a \in setup.ready /\ q = p
    BY <1>1, <1>4, <1>5 DEF Claude, NoConfig
  <2> QED BY <1>1, <2>1
<1>12. flight.pc = "idle" /\ \A id \in Ids : entries[id].status = "none"
  BY DEF RuntimesInit, Grounded, NoEntry, Ids
<1>13. WakesAgree
  BY <1>12 DEF RuntimesInit, WakesAgree, NoWake, Ids
<1>14. FlightTrue
  BY <1>12 DEF FlightTrue
<1>15. SessionsKnown
  <2>1. \A s \in Sessions : provider[s].run = "none" /\ provider[s].state = "none"
    BY DEF RuntimesInit, NoSession
  <2>2. \A r \in Runs : runs[r].session = 0
    BY DEF RuntimesInit, NoRun
  <2> QED BY <1>9, <1>12, <2>1, <2>2, Distinct DEF SessionsKnown, Ids
<1>16. EventsKnown
  BY <1>12 DEF RuntimesInit, EventsKnown, NoEvent, Ids
<1>17. DealtRunsFollow
  BY <1>12 DEF DealtRunsFollow, DealtWith, Ids
<1> QED BY <1>7, <1>8, <1>10, <1>11, <1>13, <1>14, <1>15, <1>16, <1>17 DEF RuntimesInvariant

(* Steps that configure nothing. *)
LEMMA ConfigsKept ==
    ASSUME RuntimesInvariant, configs' \in [Agents -> ConfigRow], setup' \in SetupRow,
           asking' \in [OwnerCalls -> AskRow], routes' = routes,
           \A a \in Agents :
              /\ configs'[a].kind = configs[a].kind /\ configs'[a].pair = configs[a].pair
              /\ configs'[a].made = configs[a].made /\ configs'[a].resource = configs[a].resource
              /\ configs'[a].webhook = configs[a].webhook /\ configs'[a].deployment = configs[a].deployment
              /\ configs'[a].status \in {configs[a].status, "disconnected"},
           \A a \in Agents : <<"overtaken", a>> \in strayed => <<"overtaken", a>> \in strayed',
           \A q \in Pairs : <<"crossed", q>> \in strayed => <<"crossed", q>> \in strayed',
           \A c \in OwnerCalls :
              /\ asking'[c].pc \in {"token", "answer"} =>
                    /\ asking'[c].agent \in Agents
                    /\ \/ asking[c].pc \in {"token", "answer"} /\ asking'[c].agent = asking[c].agent
                                                             /\ asking'[c].read = asking[c].read
                       \/ asking'[c].read = configs[asking'[c].agent]
              /\ asking[c].pc = "routing" => asking'[c] = asking[c] \/ <<"crossed", asking[c].read.pair>> \in strayed'
    PROVE  (ConfigsTyped /\ ProofsStand /\ RoutesStand)'
<1>1. ConfigsTyped'
  BY DEF RuntimesInvariant, ConfigsTyped
<1>2. \A a \in Agents : Claude(a)' => Proved(a)' \/ <<"overtaken", a>> \in strayed'
  BY DEF RuntimesInvariant, ProofsStand, Proved, Claude
<1>3. \A c \in OwnerCalls : asking'[c].pc \in {"token", "answer"} => ReadBefore(c)'
  <2> SUFFICES ASSUME NEW c \in OwnerCalls, asking'[c].pc \in {"token", "answer"} PROVE ReadBefore(c)'
    OBVIOUS
  <2>1. PICK a : a = asking'[c].agent
    OBVIOUS
  <2>2. a \in Agents
    BY <2>1
  <2>3. CASE asking[c].pc \in {"token", "answer"} /\ a = asking[c].agent /\ asking'[c].read = asking[c].read
    BY <2>1, <2>2, <2>3 DEF RuntimesInvariant, ProofsStand, ReadBefore
  <2>4. CASE asking'[c].read = configs[a]
    BY <2>1, <2>2, <2>4 DEF RuntimesInvariant, ConfigsTyped, ConfigRow, ReadBefore
  <2> QED BY <2>1, <2>3, <2>4
<1>4. RoutesStand'
  <2> SUFFICES ASSUME NEW q \in Pairs, UsedPair(q)'
               PROVE  \/ routes'[q] \/ <<"crossed", q>> \in strayed'
                      \/ \E c \in OwnerCalls : asking'[c].pc = "routing" /\ asking'[c].read.pair = q
    BY DEF RoutesStand
  <2>1. UsedPair(q)
    BY DEF UsedPair, Claude
  <2> QED BY <2>1 DEF RuntimesInvariant, RoutesStand
<1> QED BY <1>1, <1>2, <1>3, <1>4 DEF ProofsStand

(* Steps that make no session and give none to a run. *)
LEMMA SessionsKept ==
    ASSUME RuntimesInvariant,
           UNCHANGED <<entries, provider, said, carried>>,
           \A r \in Runs : /\ runs'[r].session = runs[r].session
                           /\ runs[r].state # "none" => runs'[r].state # "none",
           \A r \in Runs : <<"lost", r>> \in strayed => <<"lost", r>> \in strayed',
           flight.pc = "made" => flight' = flight \/ <<"lost", flight.entry>> \in strayed',
           flight'.pc = "made" => flight' = flight,
           \A c \in OwnerCalls : asking'[c].pc = "deployed" => asking[c].pc = "deployed" /\ asking'[c] = asking[c]
    PROVE  (SessionsKnown /\ EventsKnown)'
<1>1. EventsKnown'
  BY DEF RuntimesInvariant, EventsKnown
<1>2. ASSUME NEW s \in Sessions
      PROVE  /\ provider[s].run # "none" <=> provider[s].state # "none"
             /\ provider[s].run \in Runs =>
                   \/ <<"lost", provider[s].run>> \in strayed'
                   \/ runs'[provider[s].run].session = s
                   \/ flight'.pc = "made" /\ flight'.entry = provider[s].run /\ flight'.session = s
  <2>1. /\ provider[s].run # "none" <=> provider[s].state # "none"
        /\ provider[s].run \in Runs =>
              \/ <<"lost", provider[s].run>> \in strayed
              \/ runs[provider[s].run].session = s
              \/ flight.pc = "made" /\ flight.entry = provider[s].run /\ flight.session = s
    BY DEF RuntimesInvariant, SessionsKnown
  <2>2. PICK r : r = provider[s].run
    OBVIOUS
  <2>3. ASSUME r \in Runs
        PROVE  \/ <<"lost", r>> \in strayed' \/ runs'[r].session = s
               \/ flight'.pc = "made" /\ flight'.entry = r /\ flight'.session = s
    <3>1. CASE <<"lost", r>> \in strayed \/ runs[r].session = s
      BY <2>3, <3>1
    <3>2. CASE flight.pc = "made" /\ flight.entry = r /\ flight.session = s
      BY <2>3, <3>2
    <3> QED BY <2>1, <2>2, <2>3, <3>1, <3>2
  <2> QED BY <2>1, <2>2, <2>3
<1>3. flight'.pc = "made" => provider[flight'.session].run = flight'.entry
  BY DEF RuntimesInvariant, SessionsKnown
<1>4. ASSUME NEW r \in Runs
      PROVE  /\ entries[r].status # "none" => runs'[r].state # "none"
             /\ entries[r].status = "delivered" => runs'[r].session # 0
             /\ runs'[r].session # 0 => provider[runs'[r].session].run \in {r, "manual"}
  BY DEF RuntimesInvariant, SessionsKnown
<1>5. \A c \in OwnerCalls : asking'[c].pc = "deployed" =>
         /\ asking'[c].agent \in Agents /\ asking'[c].read.deployment \in Sessions
         /\ provider[asking'[c].read.deployment].run = "manual"
  BY DEF RuntimesInvariant, SessionsKnown
<1> QED BY <1>1, <1>2, <1>3, <1>4, <1>5 DEF SessionsKnown

(* Steps that do not touch the work, or that put back in line what has no   *)
(* session.                                                                 *)
LEMMA WorkKept ==
    ASSUME RuntimesInvariant, WorkTyped', FlightTrue',
           UNCHANGED <<wakings, entries, provider, said, carried, reached>>,
           \A r \in Runs :
              /\ runs'[r].session = runs[r].session
              /\ runs'[r].state = runs[r].state \/ (runs[r].session = 0 /\ runs'[r].state # "none"),
           \A r \in Runs : /\ <<"lost", r>> \in strayed => <<"lost", r>> \in strayed'
                           /\ <<"missed", r>> \in strayed => <<"missed", r>> \in strayed',
           flight.pc = "made" => flight' = flight \/ <<"lost", flight.entry>> \in strayed',
           flight'.pc = "made" => flight' = flight,
           \A e \in Events : DealtWith(e)' => DealtWith(e),
           \A c \in OwnerCalls : asking'[c].pc = "deployed" => asking[c].pc = "deployed" /\ asking'[c] = asking[c]
    PROVE  (WakesAgree /\ SessionsKnown /\ EventsKnown /\ DealtRunsFollow)'
<1>1. WakesAgree'
  BY DEF RuntimesInvariant, WakesAgree
<1>2. (SessionsKnown /\ EventsKnown)'
  BY SessionsKept
<1>3. DealtRunsFollow'
  <2> SUFFICES ASSUME NEW e \in Events, NEW r \in Runs, DealtWith(e)' PROVE Follows(e, r)'
    BY DEF DealtRunsFollow
  <2>1. Follows(e, r)
    BY DEF RuntimesInvariant, DealtRunsFollow
  <2> QED BY <2>1 DEF Follows
<1> QED BY <1>1, <1>2, <1>3

(* Steps that leave the work as it is. *)
LEMMA WorkUntouched ==
    ASSUME RuntimesInvariant,
           UNCHANGED <<runs, wakings, entries, provider, said, carried, flight, reached>>,
           \A r \in Runs : /\ <<"lost", r>> \in strayed => <<"lost", r>> \in strayed'
                           /\ <<"missed", r>> \in strayed => <<"missed", r>> \in strayed',
           \A c \in OwnerCalls : asking'[c].pc = "deployed" => asking[c].pc = "deployed" /\ asking'[c] = asking[c]
    PROVE  (WorkTyped /\ FlightTrue /\ WakesAgree /\ SessionsKnown /\ EventsKnown /\ DealtRunsFollow)'
<1>1. WorkTyped'
  BY DEF RuntimesInvariant, WorkTyped
<1>2. FlightTrue'
  BY DEF RuntimesInvariant, FlightTrue
<1>3. \A e \in Events : DealtWith(e)' => DealtWith(e)
  BY DEF DealtWith
<1> QED BY <1>1, <1>2, <1>3, WorkKept

(* Steps that do not touch a configuration or a call. *)
LEMMA ConfigsUntouched ==
    ASSUME RuntimesInvariant, UNCHANGED <<configs, routes, asking>>, setup' \in SetupRow,
           \A a \in Agents : <<"overtaken", a>> \in strayed => <<"overtaken", a>> \in strayed',
           \A q \in Pairs : <<"crossed", q>> \in strayed => <<"crossed", q>> \in strayed'
    PROVE  (ConfigsTyped /\ ProofsStand /\ RoutesStand)'
<1>1. /\ configs' \in [Agents -> ConfigRow] /\ asking' \in [OwnerCalls -> AskRow]
      /\ \A c \in OwnerCalls : asking[c].pc \in {"token", "answer"} => asking[c].agent \in Agents
  BY DEF RuntimesInvariant, ConfigsTyped, ProofsStand, ReadBefore
<1> QED BY <1>1, ConfigsKept

LEMMA SetupUsed ==
    ASSUME setup \in SetupRow, NEW what \in {"faults", "refusals", "reconciliations"}, Use(what)
    PROVE  setup' \in SetupRow
<1>1. CASE what = "faults"
  <2>1. setup' = [setup EXCEPT !.faults = setup.faults - 1] /\ setup.faults > 0
    BY <1>1 DEF Use
  <2> QED BY <2>1 DEF SetupRow
<1>2. CASE what = "refusals"
  <2>1. setup' = [setup EXCEPT !.refusals = setup.refusals - 1] /\ setup.refusals > 0
    BY <1>2 DEF Use
  <2> QED BY <2>1 DEF SetupRow
<1>3. CASE what = "reconciliations"
  <2>1. setup' = [setup EXCEPT !.reconciliations = setup.reconciliations - 1] /\ setup.reconciliations > 0
    BY <1>3 DEF Use
  <2> QED BY <2>1 DEF SetupRow
<1> QED BY <1>1, <1>2, <1>3

-----------------------------------------------------------------------------
(* Configuration. *)

LEMMA StoreClaudeHolds ==
    ASSUME RuntimesInvariant, NEW c \in OwnerCalls, NEW a \in Agents, NEW p \in Pairs, StoreClaude(c, a, p)
    PROVE  RuntimesInvariant'
<1>1. PICK empty : empty = NoConfig
  OBVIOUS
<1>2. PICK old : old = configs[a]
  OBVIOUS
<1>3. empty \in ConfigRow /\ old \in ConfigRow
  BY <1>1, <1>2, EmptyRows DEF RuntimesInvariant, ConfigsTyped
<1>4. PICK row : row = [empty EXCEPT !.kind = "claude_cloud", !.status = "pending", !.pair = p,
                                     !.made = old.made + 1, !.failures = old.failures]
  OBVIOUS
<1>5. /\ row \in ConfigRow /\ row.kind = "claude_cloud" /\ row.status = "pending" /\ row.pair = p
      /\ row.made = old.made + 1 /\ row.resource = 0 /\ row.webhook = 0 /\ row.deployment = 0
  <2>1. empty.resource = 0 /\ empty.webhook = 0 /\ empty.deployment = 0
    BY <1>1 DEF NoConfig
  <2>2. old.made + 1 \in Nat /\ old.failures \in Nat /\ p \in SomePair
    BY <1>3 DEF ConfigRow, SomePair
  <2>3. PICK n : n = old.made + 1
    OBVIOUS
  <2>4. row \in ConfigRow
    BY <1>3, <1>4, <2>2, <2>3 DEF ConfigRow
  <2>5. /\ row.kind = "claude_cloud" /\ row.status = "pending" /\ row.pair = p /\ row.made = n
        /\ row.resource = 0 /\ row.webhook = 0 /\ row.deployment = 0
    BY <1>3, <1>4, <2>1, <2>3 DEF ConfigRow
  <2> QED BY <2>3, <2>4, <2>5
<1>6. PICK ask : ask = [pc |-> "routing", what |-> "none", agent |-> a, read |-> row]
  OBVIOUS
<1>7. /\ asking[c].pc = "idle" /\ configs' = [configs EXCEPT ![a] = row]
      /\ UNCHANGED <<runs, wakings, entries, routes, provider, said, carried, flight, reached, strayed, setup>>
  BY <1>1, <1>2, <1>4 DEF StoreClaude, outside
<1>8. configs' \in [Agents -> ConfigRow] /\ configs'[a] = row /\ \A b \in Agents : b # a => configs'[b] = configs[b]
  BY <1>5, <1>7 DEF RuntimesInvariant, ConfigsTyped
<1>9. asking' = [asking EXCEPT ![c] = ask]
  BY <1>6, <1>8 DEF StoreClaude
<1>10. /\ asking' \in [OwnerCalls -> AskRow] /\ asking'[c] = ask
       /\ \A d \in OwnerCalls : d # c => asking'[d] = asking[d]
  <2>1. ask \in AskRow
    BY <1>5, <1>6 DEF AskRow, SomeAgent
  <2> QED BY <1>9, <2>1 DEF RuntimesInvariant, ConfigsTyped
<1>11. ConfigsTyped'
  BY <1>7, <1>8, <1>10 DEF RuntimesInvariant, ConfigsTyped
<1>12. old.made \in Nat /\ row.made # old.made /\ row.made > old.made /\ row.made \in Nat
  BY <1>3, <1>5 DEF ConfigRow
<1>13. ProofsStand'
  <2>1. ASSUME NEW b \in Agents, Claude(b)' PROVE Proved(b)' \/ <<"overtaken", b>> \in strayed'
    <3>1. CASE b = a
      BY <1>5, <1>8, <3>1 DEF Proved
    <3>2. CASE b # a
      BY <1>7, <1>8, <2>1, <3>2 DEF RuntimesInvariant, ProofsStand, Proved, Claude
    <3> QED BY <3>1, <3>2
  <2>2. ASSUME NEW d \in OwnerCalls, asking'[d].pc \in {"token", "answer"} PROVE ReadBefore(d)'
    <3>1. d # c /\ asking'[d] = asking[d]
      BY <1>6, <1>10, <2>2
    <3>2. ReadBefore(d)
      BY <2>2, <3>1 DEF RuntimesInvariant, ProofsStand
    <3>3. asking[d].read.made \in Nat
      BY DEF RuntimesInvariant, ConfigsTyped, AskRow, ConfigRow
    <3>4. CASE asking[d].agent = a
      BY <1>2, <1>8, <1>12, <3>1, <3>2, <3>3, <3>4 DEF ReadBefore
    <3>5. CASE asking[d].agent # a
      BY <1>8, <3>1, <3>2, <3>5 DEF ReadBefore
    <3> QED BY <3>4, <3>5
  <2> QED BY <2>1, <2>2 DEF ProofsStand
<1>14. RoutesStand'
  <2> SUFFICES ASSUME NEW q \in Pairs, UsedPair(q)'
               PROVE  \/ routes'[q] \/ <<"crossed", q>> \in strayed'
                      \/ \E d \in OwnerCalls : asking'[d].pc = "routing" /\ asking'[d].read.pair = q
    BY DEF RoutesStand
  <2>1. CASE q = p
    BY <1>5, <1>6, <1>10, <2>1
  <2>2. CASE q # p
    <3>1. UsedPair(q)
      BY <1>5, <1>8, <2>2 DEF UsedPair, Claude
    <3>2. \A d \in OwnerCalls : asking[d].pc = "routing" => asking'[d] = asking[d]
      BY <1>7, <1>10
    <3> QED BY <1>7, <3>1, <3>2 DEF RuntimesInvariant, RoutesStand
  <2> QED BY <2>1, <2>2
<1>15. (WorkTyped /\ FlightTrue /\ WakesAgree /\ SessionsKnown /\ EventsKnown /\ DealtRunsFollow)'
  <2>1. \A d \in OwnerCalls : asking'[d].pc = "deployed" => asking[d].pc = "deployed" /\ asking'[d] = asking[d]
    BY <1>6, <1>10
  <2> QED BY <1>7, <2>1, WorkUntouched
<1> QED BY <1>11, <1>13, <1>14, <1>15 DEF RuntimesInvariant

(* A call that is over. *)
LEMMA CallOver ==
    ASSUME ConfigsTyped, NEW c \in OwnerCalls, asking' = [asking EXCEPT ![c] = NoAsking]
    PROVE  /\ asking' \in [OwnerCalls -> AskRow] /\ asking'[c].pc = "idle"
           /\ \A d \in OwnerCalls : d # c => asking'[d] = asking[d]
           /\ \A d \in OwnerCalls : asking'[d].pc # "idle" => asking'[d] = asking[d]
<1>1. NoAsking \in AskRow /\ NoAsking.pc = "idle"
  BY EmptyRows DEF NoAsking
<1> QED BY <1>1 DEF ConfigsTyped

LEMMA RouteClaudeHolds ==
    ASSUME RuntimesInvariant, NEW c \in OwnerCalls, RouteClaude(c)
    PROVE  RuntimesInvariant'
<1>1. PICK p : p = asking[c].read.pair
  OBVIOUS
<1>2. /\ asking[c].pc = "routing" /\ routes' = [routes EXCEPT ![p] = TRUE]
      /\ asking' = [asking EXCEPT ![c] = NoAsking]
      /\ UNCHANGED <<configs, runs, wakings, entries, provider, said, carried, flight, reached, strayed, setup>>
  BY <1>1 DEF RouteClaude, outside, runtimeRows
<1>3. /\ asking' \in [OwnerCalls -> AskRow] /\ asking'[c].pc = "idle"
      /\ \A d \in OwnerCalls : d # c => asking'[d] = asking[d]
  BY <1>2, CallOver DEF RuntimesInvariant
<1>4. ConfigsTyped'
  BY <1>2, <1>3 DEF RuntimesInvariant, ConfigsTyped
<1>5. ProofsStand'
  BY <1>2, <1>3 DEF RuntimesInvariant, ProofsStand, ReadBefore, Proved, Claude
<1>6. RoutesStand'
  <2> SUFFICES ASSUME NEW q \in Pairs, UsedPair(q)'
               PROVE  \/ routes'[q] \/ <<"crossed", q>> \in strayed'
                      \/ \E d \in OwnerCalls : asking'[d].pc = "routing" /\ asking'[d].read.pair = q
    BY DEF RoutesStand
  <2>1. UsedPair(q)
    BY <1>2 DEF UsedPair, Claude
  <2>2. CASE q = p
    BY <1>2, <2>2 DEF RuntimesInvariant, ConfigsTyped
  <2>3. CASE q # p
    <3>1. routes'[q] = routes[q]
      BY <1>2, <2>3 DEF RuntimesInvariant, ConfigsTyped
    <3>2. \A d \in OwnerCalls : asking[d].read.pair = q => asking'[d] = asking[d]
      BY <1>1, <1>3, <2>3
    <3> QED BY <1>2, <2>1, <3>1, <3>2 DEF RuntimesInvariant, RoutesStand
  <2> QED BY <2>2, <2>3
<1>7. (WorkTyped /\ FlightTrue /\ WakesAgree /\ SessionsKnown /\ EventsKnown /\ DealtRunsFollow)'
  <2>1. \A d \in OwnerCalls : asking'[d].pc = "deployed" => asking[d].pc = "deployed" /\ asking'[d] = asking[d]
    BY <1>3
  <2> QED BY <1>2, <2>1, WorkUntouched
<1> QED BY <1>4, <1>5, <1>6, <1>7 DEF RuntimesInvariant

(* An agent that leaves the provider, by either of two ways. *)
LEMMA LeavesProvider ==
    ASSUME RuntimesInvariant, NEW a \in Agents, NEW row, row \in ConfigRow,
           row.kind # "claude_cloud", row.made = configs[a].made + 1,
           configs' = [configs EXCEPT ![a] = row],
           UNCHANGED <<runs, wakings, entries, routes, provider, said, carried, flight, reached, strayed, setup>>,
           asking' \in [OwnerCalls -> AskRow],
           \A c \in OwnerCalls : asking'[c] = asking[c] \/ (asking[c].pc = "idle" /\ asking'[c].pc = "forgetting")
    PROVE  RuntimesInvariant'
<1>1. configs' \in [Agents -> ConfigRow] /\ configs'[a] = row /\ \A b \in Agents : b # a => configs'[b] = configs[b]
  BY DEF RuntimesInvariant, ConfigsTyped
<1>2. configs[a].made \in Nat /\ row.made # configs[a].made /\ row.made > configs[a].made /\ row.made \in Nat
  BY DEF RuntimesInvariant, ConfigsTyped, ConfigRow
<1>3. ConfigsTyped'
  BY <1>1 DEF RuntimesInvariant, ConfigsTyped
<1>4. ProofsStand'
  <2>1. ASSUME NEW b \in Agents, Claude(b)' PROVE Proved(b)' \/ <<"overtaken", b>> \in strayed'
    <3>1. b # a
      BY <1>1, <2>1 DEF Claude
    <3> QED BY <1>1, <2>1, <3>1 DEF RuntimesInvariant, ProofsStand, Proved, Claude
  <2>2. ASSUME NEW d \in OwnerCalls, asking'[d].pc \in {"token", "answer"} PROVE ReadBefore(d)'
    <3>1. asking'[d] = asking[d]
      BY <2>2
    <3>2. ReadBefore(d)
      BY <2>2, <3>1 DEF RuntimesInvariant, ProofsStand
    <3>3. asking[d].read.made \in Nat
      BY DEF RuntimesInvariant, ConfigsTyped, AskRow, ConfigRow
    <3>4. CASE asking[d].agent = a
      BY <1>1, <1>2, <3>1, <3>2, <3>3, <3>4 DEF ReadBefore
    <3>5. CASE asking[d].agent # a
      BY <1>1, <3>1, <3>2, <3>5 DEF ReadBefore
    <3> QED BY <3>4, <3>5
  <2> QED BY <2>1, <2>2 DEF ProofsStand
<1>5. RoutesStand'
  <2> SUFFICES ASSUME NEW q \in Pairs, UsedPair(q)'
               PROVE  \/ routes'[q] \/ <<"crossed", q>> \in strayed'
                      \/ \E d \in OwnerCalls : asking'[d].pc = "routing" /\ asking'[d].read.pair = q
    BY DEF RoutesStand
  <2>1. UsedPair(q)
    BY <1>1 DEF UsedPair, Claude
  <2>2. \A d \in OwnerCalls : asking[d].pc = "routing" => asking'[d] = asking[d]
    OBVIOUS
  <2> QED BY <2>1, <2>2 DEF RuntimesInvariant, RoutesStand
<1>6. (WorkTyped /\ FlightTrue /\ WakesAgree /\ SessionsKnown /\ EventsKnown /\ DealtRunsFollow)'
  <2>1. \A d \in OwnerCalls : asking'[d].pc = "deployed" => asking[d].pc = "deployed" /\ asking'[d] = asking[d]
    OBVIOUS
  <2> QED BY <2>1, WorkUntouched
<1> QED BY <1>3, <1>4, <1>5, <1>6 DEF RuntimesInvariant

LEMMA ConfigureCustomHolds ==
    ASSUME RuntimesInvariant, NEW a \in Agents, ConfigureCustomRuntime(a)
    PROVE  RuntimesInvariant'
<1>1. PICK empty : empty = NoConfig
  OBVIOUS
<1>2. PICK old : old = configs[a]
  OBVIOUS
<1>3. empty \in ConfigRow /\ old \in ConfigRow
  BY <1>1, <1>2, EmptyRows DEF RuntimesInvariant, ConfigsTyped
<1>4. PICK row : row = [empty EXCEPT !.kind = "custom", !.made = old.made + 1, !.failures = old.failures]
  OBVIOUS
<1>5. old.made + 1 \in Nat /\ old.failures \in Nat
  BY <1>3 DEF ConfigRow
<1>6. PICK n : n = old.made + 1
  OBVIOUS
<1>7. row \in ConfigRow /\ row.kind = "custom" /\ row.made = n
  BY <1>3, <1>4, <1>5, <1>6 DEF ConfigRow
<1>8. /\ configs' = [configs EXCEPT ![a] = row]
      /\ UNCHANGED <<runs, wakings, entries, routes, provider, said, carried, flight, reached, strayed, setup, asking>>
  BY <1>1, <1>2, <1>4 DEF ConfigureCustomRuntime, outside
<1>9. asking' \in [OwnerCalls -> AskRow]
  BY <1>8 DEF RuntimesInvariant, ConfigsTyped
<1> QED BY <1>2, <1>6, <1>7, <1>8, <1>9, LeavesProvider

LEMMA SelectAgentHolds ==
    ASSUME RuntimesInvariant, NEW c \in OwnerCalls, NEW a \in Agents, SelectAgentRuntime(c, a)
    PROVE  RuntimesInvariant'
<1>1. PICK empty : empty = NoConfig
  OBVIOUS
<1>2. PICK old : old = configs[a]
  OBVIOUS
<1>3. empty \in ConfigRow /\ old \in ConfigRow
  BY <1>1, <1>2, EmptyRows DEF RuntimesInvariant, ConfigsTyped
<1>4. PICK row : row = [empty EXCEPT !.kind = "connected", !.made = old.made + 1]
  OBVIOUS
<1>5. old.made + 1 \in Nat
  BY <1>3 DEF ConfigRow
<1>6. PICK n : n = old.made + 1
  OBVIOUS
<1>7. row \in ConfigRow /\ row.kind = "connected" /\ row.made = n
  BY <1>3, <1>4, <1>5, <1>6 DEF ConfigRow
<1>8. /\ configs' = [configs EXCEPT ![a] = row] /\ asking[c].pc = "idle"
      /\ UNCHANGED <<runs, wakings, entries, routes, provider, said, carried, flight, reached, strayed, setup>>
  BY <1>1, <1>2, <1>4 DEF SelectAgentRuntime, outside
<1>9. PICK ask : ask = [pc |-> "forgetting", what |-> "none", agent |-> a, read |-> old]
  OBVIOUS
<1>10. ask \in AskRow
  BY <1>3, <1>9 DEF AskRow, SomeAgent
<1>11. asking' = [asking EXCEPT ![c] = ask] \/ asking' = asking
  BY <1>2, <1>9 DEF SelectAgentRuntime
<1>12. /\ asking' \in [OwnerCalls -> AskRow]
       /\ \A d \in OwnerCalls : asking'[d] = asking[d] \/ (asking[d].pc = "idle" /\ asking'[d].pc = "forgetting")
  <2>1. CASE asking' = asking
    BY <2>1 DEF RuntimesInvariant, ConfigsTyped
  <2>2. CASE asking' = [asking EXCEPT ![c] = ask]
    BY <1>8, <1>9, <1>10, <2>2 DEF RuntimesInvariant, ConfigsTyped
  <2> QED BY <1>11, <2>1, <2>2
<1> QED BY <1>2, <1>6, <1>7, <1>8, <1>12, LeavesProvider

LEMMA ForgetRouteHolds ==
    ASSUME RuntimesInvariant, NEW c \in OwnerCalls, ForgetRuntimeWebhookRoute(c)
    PROVE  RuntimesInvariant'
<1>1. PICK p : p = asking[c].read.pair
  OBVIOUS
<1>2. /\ asking[c].pc = "forgetting" /\ routes' = [routes EXCEPT ![p] = FALSE]
      /\ asking' = [asking EXCEPT ![c] = NoAsking]
      /\ strayed' = IF UsedPair(p) THEN strayed \cup {<<"crossed", p>>} ELSE strayed
      /\ UNCHANGED <<configs, runs, wakings, entries, provider, said, carried, flight, reached, setup>>
  BY <1>1 DEF ForgetRuntimeWebhookRoute, outside, runtimeRows
<1>3. /\ asking' \in [OwnerCalls -> AskRow] /\ asking'[c].pc = "idle"
      /\ \A d \in OwnerCalls : d # c => asking'[d] = asking[d]
  BY <1>2, CallOver DEF RuntimesInvariant
<1>4. strayed \subseteq strayed' /\ (UsedPair(p) => <<"crossed", p>> \in strayed')
  BY <1>2
<1>5. ConfigsTyped'
  BY <1>2, <1>3 DEF RuntimesInvariant, ConfigsTyped
<1>6. ProofsStand'
  BY <1>2, <1>3, <1>4 DEF RuntimesInvariant, ProofsStand, ReadBefore, Proved, Claude
<1>7. RoutesStand'
  <2> SUFFICES ASSUME NEW q \in Pairs, UsedPair(q)'
               PROVE  \/ routes'[q] \/ <<"crossed", q>> \in strayed'
                      \/ \E d \in OwnerCalls : asking'[d].pc = "routing" /\ asking'[d].read.pair = q
    BY DEF RoutesStand
  <2>1. UsedPair(q)
    BY <1>2 DEF UsedPair, Claude
  <2>2. CASE q = p
    BY <1>4, <2>1, <2>2
  <2>3. CASE q # p
    <3>1. routes'[q] = routes[q]
      BY <1>2, <2>3 DEF RuntimesInvariant, ConfigsTyped
    <3>2. \A d \in OwnerCalls : asking[d].read.pair = q => asking'[d] = asking[d]
      BY <1>1, <1>3, <2>3
    <3> QED BY <1>4, <2>1, <3>1, <3>2 DEF RuntimesInvariant, RoutesStand
  <2> QED BY <2>2, <2>3
<1>8. (WorkTyped /\ FlightTrue /\ WakesAgree /\ SessionsKnown /\ EventsKnown /\ DealtRunsFollow)'
  <2>1. \A d \in OwnerCalls : asking'[d].pc = "deployed" => asking[d].pc = "deployed" /\ asking'[d] = asking[d]
    BY <1>3
  <2> QED BY <1>2, <1>4, <2>1, WorkUntouched
<1> QED BY <1>5, <1>6, <1>7, <1>8 DEF RuntimesInvariant

-----------------------------------------------------------------------------
(* What owners ask the provider for. *)

LEMMA AskProviderHolds ==
    ASSUME RuntimesInvariant, NEW c \in OwnerCalls, NEW a \in Agents,
           NEW what \in {"prove", "schedule", "manual"}, AskProvider(c, a, what)
    PROVE  RuntimesInvariant'
<1>1. PICK row : row = configs[a]
  OBVIOUS
<1>2. PICK ask : ask = [pc |-> "token", what |-> what, agent |-> a, read |-> row]
  OBVIOUS
<1>3. row \in ConfigRow
  BY <1>1 DEF RuntimesInvariant, ConfigsTyped
<1>4. ask \in AskRow /\ ask.pc = "token" /\ ask.agent = a /\ ask.read = row
  BY <1>2, <1>3 DEF AskRow, SomeAgent
<1>5. /\ asking[c].pc = "idle" /\ asking' = [asking EXCEPT ![c] = ask]
      /\ UNCHANGED <<configs, runs, wakings, entries, routes, provider, said, carried, flight, reached, strayed, setup>>
  BY <1>1, <1>2 DEF AskProvider, outside, runtimeRows
<1>6. /\ asking' \in [OwnerCalls -> AskRow] /\ asking'[c] = ask
      /\ \A d \in OwnerCalls : d # c => asking'[d] = asking[d]
  BY <1>4, <1>5 DEF RuntimesInvariant, ConfigsTyped
<1>7. configs' \in [Agents -> ConfigRow] /\ setup' \in SetupRow
  BY <1>5 DEF RuntimesInvariant, ConfigsTyped
<1>8. ASSUME NEW d \in OwnerCalls
      PROVE  /\ asking'[d].pc \in {"token", "answer"} =>
                   /\ asking'[d].agent \in Agents
                   /\ \/ asking[d].pc \in {"token", "answer"} /\ asking'[d].agent = asking[d].agent
                                                            /\ asking'[d].read = asking[d].read
                      \/ asking'[d].read = configs[asking'[d].agent]
             /\ asking[d].pc = "routing" => asking'[d] = asking[d] \/ <<"crossed", asking[d].read.pair>> \in strayed'
             /\ asking'[d].pc = "deployed" => asking[d].pc = "deployed" /\ asking'[d] = asking[d]
  <2>1. CASE d = c
    BY <1>1, <1>4, <1>5, <1>6, <2>1
  <2>2. CASE d # c
    <3>1. asking'[d] = asking[d]
      BY <1>6, <2>2
    <3>2. asking[d].pc \in {"token", "answer"} => asking[d].agent \in Agents
      BY DEF RuntimesInvariant, ProofsStand, ReadBefore
    <3> QED BY <3>1, <3>2
  <2> QED BY <2>1, <2>2
<1>9. (ConfigsTyped /\ ProofsStand /\ RoutesStand)'
  BY <1>5, <1>6, <1>7, <1>8, ConfigsKept
<1>10. (WorkTyped /\ FlightTrue /\ WakesAgree /\ SessionsKnown /\ EventsKnown /\ DealtRunsFollow)'
  BY <1>5, <1>8, WorkUntouched
<1> QED BY <1>9, <1>10 DEF RuntimesInvariant

LEMMA FailuresSet ==
    ASSUME NEW x \in ConfigRow, NEW n \in Nat
    PROVE  LET y == [x EXCEPT !.failures = n]
           IN  /\ y \in ConfigRow /\ y.status = x.status /\ y.kind = x.kind /\ y.pair = x.pair
               /\ y.made = x.made /\ y.resource = x.resource /\ y.webhook = x.webhook
               /\ y.deployment = x.deployment
BY DEF ConfigRow

LEMMA StatusSet ==
    ASSUME NEW x \in ConfigRow, NEW st \in {"active", "pending", "disconnected"},
           NEW y, y = [x EXCEPT !.status = st]
    PROVE  /\ y \in ConfigRow /\ y.status = st /\ y.kind = x.kind /\ y.pair = x.pair
           /\ y.made = x.made /\ y.resource = x.resource /\ y.webhook = x.webhook
           /\ y.deployment = x.deployment
BY DEF ConfigRow

LEMMA TokenKeeps ==
    ASSUME configs \in [Agents -> ConfigRow], NEW a, NEW read \in ConfigRow,
           TokenGranted(a, read) \/ TokenRefused(a, read)
    PROVE  /\ configs' \in [Agents -> ConfigRow]
           /\ \A b \in Agents :
                 /\ configs'[b].kind = configs[b].kind /\ configs'[b].pair = configs[b].pair
                 /\ configs'[b].made = configs[b].made /\ configs'[b].resource = configs[b].resource
                 /\ configs'[b].webhook = configs[b].webhook /\ configs'[b].deployment = configs[b].deployment
                 /\ configs'[b].status \in {configs[b].status, "disconnected"}
<1>1. CASE configs' = configs
  BY <1>1
<1>2. CASE configs' = [configs EXCEPT ![a].failures = 0]
  <2>1. ASSUME NEW b \in Agents
        PROVE  /\ configs'[b] \in ConfigRow
               /\ configs'[b].kind = configs[b].kind /\ configs'[b].pair = configs[b].pair
               /\ configs'[b].made = configs[b].made /\ configs'[b].resource = configs[b].resource
               /\ configs'[b].webhook = configs[b].webhook
               /\ configs'[b].deployment = configs[b].deployment
               /\ configs'[b].status = configs[b].status
    <3>1. configs[b] \in ConfigRow
      OBVIOUS
    <3>2. configs'[b] = IF b = a THEN [configs[b] EXCEPT !.failures = 0] ELSE configs[b]
      BY <1>2
    <3> QED BY <3>1, <3>2, FailuresSet
  <2>2. configs' = [b \in Agents |-> configs'[b]]
    BY <1>2
  <2>3. configs' \in [Agents -> ConfigRow]
    BY <2>1, <2>2
  <2> QED BY <2>1, <2>3
<1>3. CASE TokenRefused(a, read)
  <2>1. read.failures + 1 \in Nat
    BY DEF ConfigRow
  <2>2. PICK n : n = read.failures + 1
    OBVIOUS
  <2>3. PICK st : st = IF read.failures + 1 >= 3 THEN "disconnected" ELSE configs[a].status
    OBVIOUS
  <2>4. st \in {configs[a].status, "disconnected"}
    BY <2>3
  <2>5. configs' = [configs EXCEPT ![a].failures = n, ![a].status = st]
    BY <1>3, <2>2, <2>3 DEF TokenRefused
  <2>6. n \in Nat
    BY <2>1, <2>2
  <2>7. PICK once : once = [configs EXCEPT ![a].failures = n]
    OBVIOUS
  <2>8. ASSUME NEW b \in Agents
        PROVE  /\ once[b] \in ConfigRow
               /\ once[b].kind = configs[b].kind /\ once[b].pair = configs[b].pair
               /\ once[b].made = configs[b].made /\ once[b].resource = configs[b].resource
               /\ once[b].webhook = configs[b].webhook /\ once[b].deployment = configs[b].deployment
               /\ once[b].status = configs[b].status
    <3>1. configs[b] \in ConfigRow
      OBVIOUS
    <3>2. once[b] = IF b = a THEN [configs[b] EXCEPT !.failures = n] ELSE configs[b]
      BY <2>7
    <3> QED BY <2>6, <3>1, <3>2, FailuresSet
  <2>9. configs' = [once EXCEPT ![a].status = st] /\ DOMAIN once = Agents /\ once = [b \in Agents |-> once[b]]
    BY <2>5, <2>7
  <2>10. ASSUME NEW b \in Agents
         PROVE  /\ configs'[b] \in ConfigRow
                /\ configs'[b].kind = once[b].kind /\ configs'[b].pair = once[b].pair
                /\ configs'[b].made = once[b].made /\ configs'[b].resource = once[b].resource
                /\ configs'[b].webhook = once[b].webhook /\ configs'[b].deployment = once[b].deployment
                /\ configs'[b].status = IF b = a THEN st ELSE once[b].status
    <3>1. CASE b = a
      <4>1. st \in {"active", "pending", "disconnected"}
        BY <2>4, <3>1 DEF ConfigRow
      <4>2. configs'[b] = [once[b] EXCEPT !.status = st]
        BY <2>9, <3>1
      <4>3. PICK x \in ConfigRow : x = once[b]
        BY <2>8
      <4>4. PICK y : y = [x EXCEPT !.status = st]
        OBVIOUS
      <4>5. y = configs'[b]
        BY <4>2, <4>3, <4>4
      <4>6. /\ y \in ConfigRow /\ y.status = st /\ y.kind = x.kind /\ y.pair = x.pair
            /\ y.made = x.made /\ y.resource = x.resource /\ y.webhook = x.webhook
            /\ y.deployment = x.deployment
        BY <4>1, <4>4, StatusSet
      <4> QED BY <3>1, <4>3, <4>5, <4>6
    <3>2. CASE b # a
      <4>1. configs'[b] = once[b]
        BY <2>9, <3>2
      <4> QED BY <2>8, <3>2, <4>1
    <3> QED BY <3>1, <3>2
  <2>11. configs' \in [Agents -> ConfigRow]
    <3>1. configs' = [b \in Agents |-> configs'[b]]
      BY <2>9
    <3> QED BY <2>10, <3>1
  <2> QED BY <2>4, <2>8, <2>10, <2>11
<1> QED BY <1>1, <1>2, <1>3 DEF TokenGranted

LEMMA OwnerTokenHolds ==
    ASSUME RuntimesInvariant, NEW c \in OwnerCalls, OwnerToken(c)
    PROVE  RuntimesInvariant'
<1>1. PICK a : a = asking[c].agent
  OBVIOUS
<1>2. PICK read : read = asking[c].read
  OBVIOUS
<1>3. read \in ConfigRow /\ configs \in [Agents -> ConfigRow] /\ asking[c] \in AskRow
  BY <1>2 DEF RuntimesInvariant, ConfigsTyped, AskRow
<1>4. /\ asking[c].pc = "token"
      /\ UNCHANGED <<runs, wakings, entries, routes, provider, said, carried, flight, reached, strayed>>
      /\ TokenGranted(a, read) \/ TokenRefused(a, read)
  BY <1>1, <1>2 DEF OwnerToken, outside
<1>5. /\ setup' \in SetupRow
      /\ asking' = [asking EXCEPT ![c].pc = "answer"] \/ asking' = [asking EXCEPT ![c] = NoAsking]
  <2>1. setup \in SetupRow
    BY DEF RuntimesInvariant, ConfigsTyped
  <2> QED BY <2>1, SetupUsed DEF OwnerToken
<1>6. /\ asking' \in [OwnerCalls -> AskRow]
      /\ (asking'[c].pc = "answer" /\ asking'[c].agent = a /\ asking'[c].read = read) \/ asking'[c].pc = "idle"
      /\ \A d \in OwnerCalls : d # c => asking'[d] = asking[d]
  <2>1. CASE asking' = [asking EXCEPT ![c].pc = "answer"]
    <3>1. PICK row : row = [asking[c] EXCEPT !.pc = "answer"]
      OBVIOUS
    <3>2. row \in AskRow /\ row.pc = "answer" /\ row.agent = a /\ row.read = read
      BY <1>1, <1>2, <1>3, <3>1 DEF AskRow
    <3>3. asking' = [asking EXCEPT ![c] = row]
      BY <2>1, <3>1
    <3> QED BY <3>2, <3>3 DEF RuntimesInvariant, ConfigsTyped
  <2>2. CASE asking' = [asking EXCEPT ![c] = NoAsking]
    BY <2>2, CallOver DEF RuntimesInvariant
  <2> QED BY <1>5, <2>1, <2>2
<1>7. ASSUME NEW d \in OwnerCalls
      PROVE  /\ asking'[d].pc \in {"token", "answer"} =>
                   /\ asking'[d].agent \in Agents
                   /\ \/ asking[d].pc \in {"token", "answer"} /\ asking'[d].agent = asking[d].agent
                                                            /\ asking'[d].read = asking[d].read
                      \/ asking'[d].read = configs[asking'[d].agent]
             /\ asking[d].pc = "routing" => asking'[d] = asking[d] \/ <<"crossed", asking[d].read.pair>> \in strayed'
             /\ asking'[d].pc = "deployed" => asking[d].pc = "deployed" /\ asking'[d] = asking[d]
  <2>1. asking[d].pc \in {"token", "answer"} => asking[d].agent \in Agents
    BY DEF RuntimesInvariant, ProofsStand, ReadBefore
  <2>2. CASE d = c
    BY <1>1, <1>2, <1>4, <1>6, <2>1, <2>2
  <2>3. CASE d # c
    BY <1>6, <2>1, <2>3
  <2> QED BY <2>2, <2>3
<1>8. (ConfigsTyped /\ ProofsStand /\ RoutesStand)'
  BY <1>3, <1>4, <1>5, <1>6, <1>7, ConfigsKept, TokenKeeps
<1>9. (WorkTyped /\ FlightTrue /\ WakesAgree /\ SessionsKnown /\ EventsKnown /\ DealtRunsFollow)'
  BY <1>4, <1>7, WorkUntouched
<1> QED BY <1>8, <1>9 DEF RuntimesInvariant

(* An answer of the provider is kept with what the agent has now. *)
LEMMA AnswerKept ==
    ASSUME RuntimesInvariant, NEW c \in OwnerCalls, NEW a \in Agents, NEW row \in ConfigRow,
           asking[c].pc = "answer", a = asking[c].agent,
           configs' = [configs EXCEPT ![a] = row],
           row.kind = configs[a].kind, row.pair = configs[a].pair, row.made = configs[a].made,
           row.webhook = configs[a].webhook,
           asking' = [asking EXCEPT ![c] = NoAsking], strayed' = Straying(c),
           configs[a].made = asking[c].read.made /\ ReadBefore(c) /\ Proved(a) =>
              /\ row.status = "active" => row.resource = row.made /\ row.webhook = row.made
              /\ {row.resource, row.webhook, row.deployment} \subseteq {0, row.made},
           UNCHANGED <<runs, wakings, entries, routes, provider, said, carried, flight, reached, setup>>
    PROVE  RuntimesInvariant'
<1>1. configs' \in [Agents -> ConfigRow] /\ configs'[a] = row /\ \A b \in Agents : b # a => configs'[b] = configs[b]
  BY DEF RuntimesInvariant, ConfigsTyped
<1>2. /\ asking' \in [OwnerCalls -> AskRow]
      /\ \A d \in OwnerCalls : asking'[d].pc # "idle" => asking'[d] = asking[d]
      /\ \A d \in OwnerCalls : d # c => asking'[d] = asking[d]
  BY CallOver DEF RuntimesInvariant
<1>3. strayed \subseteq strayed' /\ (configs[a].made # asking[c].read.made => <<"overtaken", a>> \in strayed')
  BY DEF Straying, Overtaken
<1>4. ConfigsTyped'
  BY <1>1, <1>2 DEF RuntimesInvariant, ConfigsTyped
<1>5. ProofsStand'
  <2>1. ASSUME NEW b \in Agents, Claude(b)' PROVE Proved(b)' \/ <<"overtaken", b>> \in strayed'
    <3>1. Claude(b)
      BY <1>1, <2>1 DEF Claude
    <3>2. Proved(b) \/ <<"overtaken", b>> \in strayed
      BY <3>1 DEF RuntimesInvariant, ProofsStand
    <3>3. CASE b # a
      BY <1>1, <1>3, <3>2, <3>3 DEF Proved
    <3>4. CASE b = a
      <4>1. ReadBefore(c)
        BY DEF RuntimesInvariant, ProofsStand
      <4> QED BY <1>1, <1>3, <3>2, <3>4, <4>1 DEF Proved
    <3> QED BY <3>3, <3>4
  <2>2. ASSUME NEW d \in OwnerCalls, asking'[d].pc \in {"token", "answer"} PROVE ReadBefore(d)'
    <3>1. asking'[d] = asking[d]
      BY <1>2, <2>2
    <3>2. ReadBefore(d)
      BY <2>2, <3>1 DEF RuntimesInvariant, ProofsStand
    <3>3. CASE asking[d].agent = a
      BY <1>1, <3>1, <3>2, <3>3 DEF ReadBefore
    <3>4. CASE asking[d].agent # a
      BY <1>1, <3>1, <3>2, <3>4 DEF ReadBefore
    <3> QED BY <3>3, <3>4
  <2> QED BY <2>1, <2>2 DEF ProofsStand
<1>6. RoutesStand'
  <2> SUFFICES ASSUME NEW q \in Pairs, UsedPair(q)'
               PROVE  \/ routes'[q] \/ <<"crossed", q>> \in strayed'
                      \/ \E d \in OwnerCalls : asking'[d].pc = "routing" /\ asking'[d].read.pair = q
    BY DEF RoutesStand
  <2>1. UsedPair(q)
    BY <1>1 DEF UsedPair, Claude
  <2>2. \A d \in OwnerCalls : asking[d].pc = "routing" => asking'[d] = asking[d]
    BY <1>2
  <2> QED BY <1>3, <2>1, <2>2 DEF RuntimesInvariant, RoutesStand
<1>7. (WorkTyped /\ FlightTrue /\ WakesAgree /\ SessionsKnown /\ EventsKnown /\ DealtRunsFollow)'
  <2>1. \A d \in OwnerCalls : asking'[d].pc = "deployed" => asking[d].pc = "deployed" /\ asking'[d] = asking[d]
    BY <1>2
  <2> QED BY <1>3, <2>1, WorkUntouched
<1> QED BY <1>4, <1>5, <1>6, <1>7 DEF RuntimesInvariant

LEMMA ProveHolds ==
    ASSUME RuntimesInvariant, NEW c \in OwnerCalls, ProveClaudeRuntimeResources(c)
    PROVE  RuntimesInvariant'
<1>1. PICK a : a = asking[c].agent
  OBVIOUS
<1>2. PICK m : m = asking[c].read.made
  OBVIOUS
<1>3. PICK w : w = asking[c].read.webhook
  OBVIOUS
<1>4. a \in Agents /\ m \in Nat
  BY <1>1, <1>2 DEF RuntimesInvariant, ProofsStand, ReadBefore, ProveClaudeRuntimeResources, ConfigsTyped, AskRow,
                    ConfigRow
<1>5. PICK old : old = configs[a]
  OBVIOUS
<1>6. old \in ConfigRow
  BY <1>4, <1>5 DEF RuntimesInvariant, ConfigsTyped
<1>7. PICK st : st = IF w = 0 THEN "pending" ELSE "active"
  OBVIOUS
<1>8. PICK row : row = [old EXCEPT !.resource = m, !.status = st]
  OBVIOUS
<1>9. /\ row \in ConfigRow /\ row.kind = old.kind /\ row.pair = old.pair /\ row.made = old.made
      /\ row.webhook = old.webhook /\ row.resource = m /\ row.status = st /\ row.deployment = old.deployment
  <2>1. st \in {"pending", "active"}
    BY <1>7
  <2> QED BY <1>4, <1>6, <1>8, <2>1 DEF ConfigRow
<1>10. /\ configs' = [configs EXCEPT ![a] = row] /\ strayed' = Straying(c) /\ asking[c].pc = "answer"
       /\ asking' = [asking EXCEPT ![c] = NoAsking]
       /\ UNCHANGED <<runs, wakings, entries, routes, provider, said, carried, flight, reached, setup>>
  BY <1>1, <1>2, <1>3, <1>4, <1>5, <1>7, <1>8 DEF ProveClaudeRuntimeResources, outside, RuntimesInvariant, ConfigsTyped
<1>11. configs[a].made = m /\ ReadBefore(c) /\ Proved(a) =>
          /\ row.status = "active" => row.resource = row.made /\ row.webhook = row.made
          /\ {row.resource, row.webhook, row.deployment} \subseteq {0, row.made}
  BY <1>1, <1>2, <1>3, <1>5, <1>7, <1>9 DEF ReadBefore, Proved
<1> QED BY <1>1, <1>2, <1>4, <1>5, <1>9, <1>10, <1>11, AnswerKept

LEMMA ScheduleHolds ==
    ASSUME RuntimesInvariant, NEW c \in OwnerCalls, CreateClaudeSchedule(c)
    PROVE  RuntimesInvariant'
<1>1. PICK a : a = asking[c].agent
  OBVIOUS
<1>2. PICK m : m = asking[c].read.made
  OBVIOUS
<1>3. a \in Agents /\ m \in Nat
  BY <1>1, <1>2 DEF RuntimesInvariant, ProofsStand, ReadBefore, CreateClaudeSchedule, ConfigsTyped, AskRow, ConfigRow
<1>4. PICK old : old = configs[a]
  OBVIOUS
<1>5. old \in ConfigRow
  BY <1>3, <1>4 DEF RuntimesInvariant, ConfigsTyped
<1>6. PICK row : row = [old EXCEPT !.deployment = m]
  OBVIOUS
<1>7. /\ row \in ConfigRow /\ row.kind = old.kind /\ row.pair = old.pair /\ row.made = old.made
      /\ row.webhook = old.webhook /\ row.resource = old.resource /\ row.status = old.status /\ row.deployment = m
  BY <1>3, <1>5, <1>6 DEF ConfigRow
<1>8. /\ configs' = [configs EXCEPT ![a] = row] /\ strayed' = Straying(c) /\ asking[c].pc = "answer"
      /\ asking' = [asking EXCEPT ![c] = NoAsking]
      /\ UNCHANGED <<runs, wakings, entries, routes, provider, said, carried, flight, reached, setup>>
  BY <1>1, <1>2, <1>4, <1>6 DEF CreateClaudeSchedule, outside
<1>9. configs[a].made = m /\ ReadBefore(c) /\ Proved(a) =>
         /\ row.status = "active" => row.resource = row.made /\ row.webhook = row.made
         /\ {row.resource, row.webhook, row.deployment} \subseteq {0, row.made}
  BY <1>4, <1>7 DEF Proved
<1> QED BY <1>1, <1>2, <1>3, <1>4, <1>7, <1>8, <1>9, AnswerKept

LEMMA FailCallHolds ==
    ASSUME RuntimesInvariant, NEW c \in OwnerCalls, FailCall(c)
    PROVE  RuntimesInvariant'
<1>1. /\ asking' = [asking EXCEPT ![c] = NoAsking] /\ Use("faults")
      /\ strayed' = IF asking[c].pc = "routing" THEN strayed \cup {<<"crossed", asking[c].read.pair>>} ELSE strayed
      /\ UNCHANGED <<configs, runs, wakings, entries, routes, provider, said, carried, flight, reached>>
  BY DEF FailCall, outside, runtimeRows
<1>2. /\ asking' \in [OwnerCalls -> AskRow]
      /\ \A d \in OwnerCalls : asking'[d].pc # "idle" => asking'[d] = asking[d]
      /\ \A d \in OwnerCalls : d # c => asking'[d] = asking[d]
  BY <1>1, CallOver DEF RuntimesInvariant
<1>3. setup' \in SetupRow /\ configs' \in [Agents -> ConfigRow]
  BY <1>1, SetupUsed DEF RuntimesInvariant, ConfigsTyped
<1>4. strayed \subseteq strayed'
  BY <1>1
<1>5. ASSUME NEW d \in OwnerCalls
      PROVE  /\ asking'[d].pc \in {"token", "answer"} =>
                   /\ asking'[d].agent \in Agents
                   /\ \/ asking[d].pc \in {"token", "answer"} /\ asking'[d].agent = asking[d].agent
                                                            /\ asking'[d].read = asking[d].read
                      \/ asking'[d].read = configs[asking'[d].agent]
             /\ asking[d].pc = "routing" => asking'[d] = asking[d] \/ <<"crossed", asking[d].read.pair>> \in strayed'
             /\ asking'[d].pc = "deployed" => asking[d].pc = "deployed" /\ asking'[d] = asking[d]
  <2>1. asking[d].pc \in {"token", "answer"} => asking[d].agent \in Agents
    BY DEF RuntimesInvariant, ProofsStand, ReadBefore
  <2> QED BY <1>1, <1>2, <2>1
<1>6. (ConfigsTyped /\ ProofsStand /\ RoutesStand)'
  BY <1>1, <1>2, <1>3, <1>4, <1>5, ConfigsKept
<1>7. (WorkTyped /\ FlightTrue /\ WakesAgree /\ SessionsKnown /\ EventsKnown /\ DealtRunsFollow)'
  BY <1>1, <1>4, <1>5, WorkUntouched
<1> QED BY <1>6, <1>7 DEF RuntimesInvariant

(* A session that was not made yet is nobody's. *)
LEMMA NobodysSession ==
    ASSUME RuntimesInvariant, NEW s \in Sessions, provider[s] = NoSession
    PROVE  /\ provider[s].run = "none" /\ provider[s].state = "none"
           /\ \A r \in Runs : runs[r].session # s
           /\ \A e \in Events : said[e].session # s
           /\ \A c \in OwnerCalls : asking[c].pc = "deployed" => asking[c].read.deployment # s
           /\ flight.pc = "made" => flight.session # s
<1>1. provider[s].run = "none" /\ provider[s].state = "none" /\ s # 0
  BY Distinct DEF NoSession
<1>2. "none" \notin Runs
  BY RuntimesAssumption
<1>3. \A r \in Runs : runs[r].session # s
  BY <1>1, <1>2 DEF RuntimesInvariant, SessionsKnown
<1>4. \A e \in Events : said[e].session # s
  BY <1>1 DEF RuntimesInvariant, EventsKnown
<1>5. \A c \in OwnerCalls : asking[c].pc = "deployed" => asking[c].read.deployment # s
  BY <1>1 DEF RuntimesInvariant, SessionsKnown
<1>6. flight.pc = "made" => flight.session # s
  BY <1>1, <1>2 DEF RuntimesInvariant, SessionsKnown, FlightTrue
<1> QED BY <1>1, <1>3, <1>4, <1>5, <1>6

(* Two calls of a manual run: the provider's session first, its row then.   *)
LEMMA DeployHolds ==
    ASSUME RuntimesInvariant, NEW c \in OwnerCalls, NEW s \in Sessions, DeployManualRun(c, s)
    PROVE  RuntimesInvariant'
<1>1. PICK row : row = [run |-> "manual", state |-> "running", change |-> 0, pair |-> asking[c].read.pair]
  OBVIOUS
<1>2. asking[c] \in AskRow /\ asking[c].pc = "answer" /\ asking[c].agent \in Agents
  BY DEF DeployManualRun, RuntimesInvariant, ConfigsTyped, ProofsStand, ReadBefore
<1>3. row \in SessionRow /\ row.run = "manual" /\ row.state = "running"
  BY <1>1, <1>2 DEF SessionRow, AskRow, ConfigRow
<1>4. PICK read : read = [asking[c].read EXCEPT !.deployment = s]
  OBVIOUS
<1>5. read \in ConfigRow /\ read.deployment = s
  BY <1>2, <1>4 DEF AskRow, ConfigRow, Sessions
<1>6. PICK ask : ask = [asking[c] EXCEPT !.pc = "deployed", !.read = read]
  OBVIOUS
<1>7. ask \in AskRow /\ ask.pc = "deployed" /\ ask.agent = asking[c].agent /\ ask.read = read
  BY <1>2, <1>5, <1>6 DEF AskRow
<1>8. /\ provider[s] = NoSession /\ provider' = [provider EXCEPT ![s] = row]
      /\ UNCHANGED <<configs, runs, wakings, entries, routes, said, carried, flight, reached, strayed, setup>>
  BY <1>1 DEF DeployManualRun, runtimeRows
<1>9. asking' = [asking EXCEPT ![c] = ask]
  <2>1. asking' = [asking EXCEPT ![c].pc = "deployed", ![c].read.deployment = s]
    BY DEF DeployManualRun
  <2> QED BY <1>2, <1>4, <1>6, <2>1 DEF AskRow
<1>10. /\ asking' \in [OwnerCalls -> AskRow] /\ asking'[c] = ask
       /\ \A d \in OwnerCalls : d # c => asking'[d] = asking[d]
  BY <1>7, <1>9 DEF RuntimesInvariant, ConfigsTyped
<1>11. /\ provider' \in [Sessions -> SessionRow] /\ provider'[s] = row
       /\ \A t \in Sessions : t # s => provider'[t] = provider[t]
  BY <1>3, <1>8 DEF RuntimesInvariant, WorkTyped
<1>12. /\ provider[s].run = "none" /\ provider[s].state = "none"
       /\ \A r \in Runs : runs[r].session # s
       /\ \A e \in Events : said[e].session # s
       /\ \A d \in OwnerCalls : asking[d].pc = "deployed" => asking[d].read.deployment # s
       /\ flight.pc = "made" => flight.session # s
  BY <1>8, NobodysSession
<1>13. ASSUME NEW d \in OwnerCalls
       PROVE  /\ asking'[d].pc \in {"token", "answer"} =>
                    /\ asking'[d].agent \in Agents
                    /\ \/ asking[d].pc \in {"token", "answer"} /\ asking'[d].agent = asking[d].agent
                                                             /\ asking'[d].read = asking[d].read
                       \/ asking'[d].read = configs[asking'[d].agent]
              /\ asking[d].pc = "routing" => asking'[d] = asking[d] \/ <<"crossed", asking[d].read.pair>> \in strayed'
  <2>1. asking[d].pc \in {"token", "answer"} => asking[d].agent \in Agents
    BY DEF RuntimesInvariant, ProofsStand, ReadBefore
  <2>2. CASE d = c
    BY <1>2, <1>7, <1>10, <2>2
  <2>3. CASE d # c
    BY <1>10, <2>1, <2>3
  <2> QED BY <2>2, <2>3
<1>14. (ConfigsTyped /\ ProofsStand /\ RoutesStand)'
  <2>1. configs' \in [Agents -> ConfigRow] /\ setup' \in SetupRow
    BY <1>8 DEF RuntimesInvariant, ConfigsTyped
  <2> QED BY <1>8, <1>10, <1>13, <2>1, ConfigsKept
<1>15. (WorkTyped /\ FlightTrue /\ WakesAgree)'
  BY <1>8, <1>11 DEF RuntimesInvariant, WorkTyped, FlightTrue, WakesAgree
<1>16. SessionsKnown'
  <2>1. "manual" \notin Runs /\ "manual" # "none"
    BY RuntimesAssumption
  <2>2. ASSUME NEW t \in Sessions
        PROVE  /\ provider'[t].run # "none" <=> provider'[t].state # "none"
               /\ provider'[t].run \in Runs =>
                     \/ <<"lost", provider'[t].run>> \in strayed'
                     \/ runs'[provider'[t].run].session = t
                     \/ flight'.pc = "made" /\ flight'.entry = provider'[t].run /\ flight'.session = t
    <3>1. CASE t = s
      BY <1>3, <1>11, <2>1, <3>1
    <3>2. CASE t # s
      BY <1>8, <1>11, <3>2 DEF RuntimesInvariant, SessionsKnown
    <3> QED BY <3>1, <3>2
  <2>3. flight'.pc = "made" => provider'[flight'.session].run = flight'.entry
    BY <1>8, <1>11, <1>12 DEF RuntimesInvariant, SessionsKnown, FlightTrue
  <2>4. ASSUME NEW r \in Runs
        PROVE  /\ entries'[r].status # "none" => runs'[r].state # "none"
               /\ entries'[r].status = "delivered" => runs'[r].session # 0
               /\ runs'[r].session # 0 => provider'[runs'[r].session].run \in {r, "manual"}
    <3>1. runs[r].session \in SomeSession
      BY DEF RuntimesInvariant, WorkTyped, RunRow
    <3> QED BY <1>8, <1>11, <1>12, <3>1 DEF RuntimesInvariant, SessionsKnown, SomeSession
  <2>5. ASSUME NEW d \in OwnerCalls, asking'[d].pc = "deployed"
        PROVE  /\ asking'[d].agent \in Agents /\ asking'[d].read.deployment \in Sessions
               /\ provider'[asking'[d].read.deployment].run = "manual"
    <3>1. CASE d = c
      BY <1>2, <1>3, <1>5, <1>7, <1>10, <1>11, <3>1
    <3>2. CASE d # c
      BY <1>10, <1>11, <1>12, <2>5, <3>2 DEF RuntimesInvariant, SessionsKnown
    <3> QED BY <3>1, <3>2
  <2> QED BY <2>2, <2>3, <2>4, <2>5 DEF SessionsKnown
<1>17. EventsKnown'
  <2>1. \A e \in Events : said[e].session \in SomeSession
    BY DEF RuntimesInvariant, WorkTyped, EventRow
  <2> QED BY <1>8, <1>11, <1>12, <2>1 DEF RuntimesInvariant, EventsKnown, SomeSession
<1>18. DealtRunsFollow'
  <2> SUFFICES ASSUME NEW e \in Events, NEW r \in Runs, DealtWith(e)' PROVE Follows(e, r)'
    BY DEF DealtRunsFollow
  <2>1. Follows(e, r)
    BY <1>8 DEF RuntimesInvariant, DealtRunsFollow, DealtWith
  <2>2. said[e].session \in SomeSession /\ said[e].session # s
    BY <1>12 DEF RuntimesInvariant, WorkTyped, EventRow
  <2>3. said[e].session # 0 => provider'[said[e].session] = provider[said[e].session]
    BY <1>11, <2>2 DEF SomeSession
  <2> QED BY <1>8, <2>1, <2>3 DEF Follows
<1> QED BY <1>14, <1>15, <1>16, <1>17, <1>18 DEF RuntimesInvariant

LEMMA StartManualHolds ==
    ASSUME RuntimesInvariant, NEW c \in OwnerCalls, NEW r \in Runs, StartManualClaudeRun(c, r)
    PROVE  RuntimesInvariant'
<1>1. PICK s : s = asking[c].read.deployment
  OBVIOUS
<1>2. /\ asking[c].pc = "deployed" /\ s \in Sessions /\ asking[c].agent \in Agents /\ provider[s].run = "manual"
      /\ s # 0
  BY <1>1, Distinct DEF StartManualClaudeRun, RuntimesInvariant, SessionsKnown
<1>3. PICK row : row = [agent |-> asking[c].agent, state |-> "running", session |-> s, origin |-> FALSE]
  OBVIOUS
<1>4. row.state = "running" /\ row.session = s
  BY <1>3
<1>5. row \in RunRow
  BY <1>2, <1>3 DEF RunRow, SomeAgent, SomeSession
<1>6. /\ runs[r] = NoRun /\ runs' = [runs EXCEPT ![r] = row]
      /\ strayed' = IF provider[s].change > 0 THEN strayed \cup {<<"missed", r>>} ELSE strayed
      /\ asking' = [asking EXCEPT ![c] = NoAsking]
      /\ UNCHANGED <<configs, wakings, entries, routes, provider, said, carried, flight, reached, setup>>
  BY <1>1, <1>3 DEF StartManualClaudeRun, outside
<1>7. /\ asking' \in [OwnerCalls -> AskRow]
      /\ \A d \in OwnerCalls : asking'[d].pc # "idle" => asking'[d] = asking[d]
      /\ \A d \in OwnerCalls : d # c => asking'[d] = asking[d]
  BY <1>6, CallOver DEF RuntimesInvariant
<1>8. strayed \subseteq strayed' /\ (provider[s].change > 0 => <<"missed", r>> \in strayed')
  BY <1>6
<1>9. /\ runs' \in [Runs -> RunRow] /\ runs'[r] = row
      /\ \A q \in Runs : q # r => runs'[q] = runs[q]
  BY <1>5, <1>6 DEF RuntimesInvariant, WorkTyped
<1>10. runs[r].state = "none" /\ runs[r].session = 0 /\ entries[r].status = "none"
  <2>1. runs[r].state = "none" /\ runs[r].session = 0
    BY <1>6 DEF NoRun
  <2> QED BY <2>1 DEF RuntimesInvariant, SessionsKnown
<1>11. flight.pc \in {"token", "call", "made", "settle"} => flight.entry # r
  BY <1>10 DEF RuntimesInvariant, FlightTrue
<1>12. (ConfigsTyped /\ ProofsStand /\ RoutesStand)'
  <2>1. configs' \in [Agents -> ConfigRow] /\ setup' \in SetupRow
    BY <1>6 DEF RuntimesInvariant, ConfigsTyped
  <2>2. ASSUME NEW d \in OwnerCalls
        PROVE  /\ asking'[d].pc \in {"token", "answer"} =>
                     /\ asking'[d].agent \in Agents
                     /\ \/ asking[d].pc \in {"token", "answer"} /\ asking'[d].agent = asking[d].agent
                                                              /\ asking'[d].read = asking[d].read
                        \/ asking'[d].read = configs[asking'[d].agent]
               /\ asking[d].pc = "routing" => asking'[d] = asking[d] \/ <<"crossed", asking[d].read.pair>> \in strayed'
    <3>1. asking[d].pc \in {"token", "answer"} => asking[d].agent \in Agents
      BY DEF RuntimesInvariant, ProofsStand, ReadBefore
    <3> QED BY <1>2, <1>7, <3>1
  <2> QED BY <1>6, <1>7, <1>8, <2>1, <2>2, ConfigsKept
<1>13. WorkTyped'
  BY <1>6, <1>9 DEF RuntimesInvariant, WorkTyped
<1>14. FlightTrue'
  BY <1>6, <1>9, <1>11 DEF RuntimesInvariant, FlightTrue
<1>15. WakesAgree' /\ EventsKnown'
  BY <1>6 DEF RuntimesInvariant, WakesAgree, EventsKnown
<1>16. SessionsKnown'
  <2>1. ASSUME NEW t \in Sessions
        PROVE  /\ provider[t].run # "none" <=> provider[t].state # "none"
               /\ provider[t].run \in Runs =>
                     \/ <<"lost", provider[t].run>> \in strayed'
                     \/ runs'[provider[t].run].session = t
                     \/ flight.pc = "made" /\ flight.entry = provider[t].run /\ flight.session = t
    <3>1. /\ provider[t].run # "none" <=> provider[t].state # "none"
          /\ provider[t].run \in Runs =>
                \/ <<"lost", provider[t].run>> \in strayed
                \/ runs[provider[t].run].session = t
                \/ flight.pc = "made" /\ flight.entry = provider[t].run /\ flight.session = t
      BY DEF RuntimesInvariant, SessionsKnown
    <3>2. t # 0
      BY Distinct
    <3>3. CASE provider[t].run = r
      BY <1>8, <1>10, <1>11, <3>1, <3>2, <3>3
    <3>4. CASE provider[t].run # r
      BY <1>8, <1>9, <3>1, <3>4
    <3> QED BY <3>3, <3>4
  <2>2. ASSUME NEW q \in Runs
        PROVE  /\ entries[q].status # "none" => runs'[q].state # "none"
               /\ entries[q].status = "delivered" => runs'[q].session # 0
               /\ runs'[q].session # 0 => provider[runs'[q].session].run \in {q, "manual"}
    <3>1. CASE q = r
      BY <1>2, <1>4, <1>9, <1>10, <3>1
    <3>2. CASE q # r
      BY <1>9, <3>2 DEF RuntimesInvariant, SessionsKnown
    <3> QED BY <3>1, <3>2
  <2>3. \A d \in OwnerCalls : asking'[d].pc = "deployed" =>
           /\ asking'[d].agent \in Agents /\ asking'[d].read.deployment \in Sessions
           /\ provider[asking'[d].read.deployment].run = "manual"
    BY <1>7 DEF RuntimesInvariant, SessionsKnown
  <2>4. flight.pc = "made" => provider[flight.session].run = flight.entry
    BY DEF RuntimesInvariant, SessionsKnown
  <2> QED BY <1>6, <2>1, <2>2, <2>3, <2>4 DEF SessionsKnown
<1>17. DealtRunsFollow'
  <2> SUFFICES ASSUME NEW e \in Events, NEW q \in Runs, DealtWith(e)' PROVE Follows(e, q)'
    BY DEF DealtRunsFollow
  <2>1. Follows(e, q)
    BY <1>6 DEF RuntimesInvariant, DealtRunsFollow, DealtWith
  <2>2. CASE q # r
    BY <1>6, <1>8, <1>9, <2>1, <2>2 DEF Follows
  <2>3. CASE q = r
    <3>1. said[e].session = s /\ said[e].change = provider[s].change => provider[s].change > 0
      BY <1>2 DEF RuntimesInvariant, EventsKnown
    <3> QED BY <1>4, <1>6, <1>8, <1>9, <2>3, <3>1 DEF Follows
  <2> QED BY <2>2, <2>3
<1> QED BY <1>12, <1>13, <1>14, <1>15, <1>16, <1>17 DEF RuntimesInvariant

-----------------------------------------------------------------------------
(* Mentions. *)

LEMMA RecordWakeHolds ==
    ASSUME RuntimesInvariant, NEW a \in Agents, RecordRuntimeWake(a)
    PROVE  RuntimesInvariant'
<1>1. UNCHANGED <<configs, routes, provider, said, carried, asking, flight, reached, strayed, setup>>
  BY DEF RecordRuntimeWake, outside
<1>2. (ConfigsTyped /\ ProofsStand /\ RoutesStand)'
  <2>1. setup' \in SetupRow
    BY <1>1 DEF RuntimesInvariant, ConfigsTyped
  <2> QED BY <1>1, <2>1, ConfigsUntouched
<1>3. PICK entry : entry = [status |-> "pending", attempts |-> 0, agent |-> a]
  OBVIOUS
<1>4. entry \in EntryRow /\ entry.status = "pending" /\ entry.agent = a
  BY <1>3 DEF EntryRow, SomeAgent
<1>5. ASSUME NEW r \in Runs, runs[r] = NoRun, UNCHANGED wakings,
             runs' = [runs EXCEPT ![r] = [agent |-> a, state |-> "queued", session |-> 0, origin |-> TRUE]],
             entries' = [entries EXCEPT ![r] = entry]
      PROVE  (WorkTyped /\ FlightTrue /\ WakesAgree /\ SessionsKnown /\ EventsKnown /\ DealtRunsFollow)'
  <2>1. PICK row : row = [agent |-> a, state |-> "queued", session |-> 0, origin |-> TRUE]
    OBVIOUS
  <2>2. row \in RunRow /\ row.state = "queued" /\ row.session = 0
    BY <2>1 DEF RunRow, SomeAgent, SomeSession
  <2>3. /\ runs' \in [Runs -> RunRow] /\ runs'[r] = row
        /\ \A q \in Runs : q # r => runs'[q] = runs[q]
    BY <1>5, <2>1, <2>2 DEF RuntimesInvariant, WorkTyped
  <2>4. r \in Ids /\ r \notin Wakes /\ r \notin Events
    BY Distinct DEF Ids
  <2>5. /\ entries' \in [Ids -> EntryRow] /\ entries'[r] = entry
        /\ \A id \in Ids : id # r => entries'[id] = entries[id]
    BY <1>4, <1>5, <2>4 DEF RuntimesInvariant, WorkTyped
  <2>6. runs[r].state = "none" /\ runs[r].session = 0 /\ entries[r].status = "none"
    <3>1. runs[r].state = "none" /\ runs[r].session = 0
      BY <1>5 DEF NoRun
    <3> QED BY <3>1 DEF RuntimesInvariant, SessionsKnown
  <2>7. flight.pc \in {"token", "call", "made", "settle"} => flight.entry # r
    BY <2>6 DEF RuntimesInvariant, FlightTrue
  <2>8. WorkTyped'
    BY <1>1, <1>5, <2>3, <2>5 DEF RuntimesInvariant, WorkTyped
  <2>9. \A e \in Events : e \in Ids /\ e # r
    BY <2>4 DEF Ids
  <2>10. FlightTrue'
    <3>1. \A id \in Ids : entries'[id].status # "none" => entries'[id].agent \in Agents
      BY <1>4, <2>5 DEF RuntimesInvariant, FlightTrue
    <3>2. \A e \in Events : entries'[e] = entries[e]
      BY <2>5, <2>9
    <3> QED BY <1>1, <1>5, <2>3, <2>5, <2>7, <3>1, <3>2 DEF RuntimesInvariant, FlightTrue
  <2>11. WakesAgree'
    <3>1. \A w \in Wakes : entries'[w] = entries[w]
      BY <2>4, <2>5 DEF Ids
    <3> QED BY <1>1, <1>5, <3>1 DEF RuntimesInvariant, WakesAgree
  <2>12. EventsKnown'
    <3>1. \A e \in Events : entries'[e] = entries[e]
      BY <2>5, <2>9
    <3> QED BY <1>1, <3>1 DEF RuntimesInvariant, EventsKnown
  <2>13. SessionsKnown'
    <3>1. ASSUME NEW t \in Sessions
          PROVE  /\ provider[t].run # "none" <=> provider[t].state # "none"
                 /\ provider[t].run \in Runs =>
                       \/ <<"lost", provider[t].run>> \in strayed
                       \/ runs'[provider[t].run].session = t
                       \/ flight.pc = "made" /\ flight.entry = provider[t].run /\ flight.session = t
      <4>1. /\ provider[t].run # "none" <=> provider[t].state # "none"
            /\ provider[t].run \in Runs =>
                  \/ <<"lost", provider[t].run>> \in strayed
                  \/ runs[provider[t].run].session = t
                  \/ flight.pc = "made" /\ flight.entry = provider[t].run /\ flight.session = t
        BY DEF RuntimesInvariant, SessionsKnown
      <4>2. t # 0
        BY Distinct
      <4>3. CASE provider[t].run = r
        BY <2>6, <2>7, <4>1, <4>2, <4>3
      <4>4. CASE provider[t].run # r
        BY <2>3, <4>1, <4>4
      <4> QED BY <4>3, <4>4
    <3>2. ASSUME NEW q \in Runs
          PROVE  /\ entries'[q].status # "none" => runs'[q].state # "none"
                 /\ entries'[q].status = "delivered" => runs'[q].session # 0
                 /\ runs'[q].session # 0 => provider[runs'[q].session].run \in {q, "manual"}
      <4>1. CASE q = r
        BY <1>4, <2>2, <2>3, <2>5, <4>1
      <4>2. CASE q # r
        <5>1. runs'[q] = runs[q] /\ entries'[q] = entries[q]
          BY <2>3, <2>5, <4>2 DEF Ids
        <5> QED BY <5>1 DEF RuntimesInvariant, SessionsKnown
      <4> QED BY <4>1, <4>2
    <3>3. /\ flight.pc = "made" => provider[flight.session].run = flight.entry
          /\ \A c \in OwnerCalls : asking[c].pc = "deployed" =>
                /\ asking[c].agent \in Agents /\ asking[c].read.deployment \in Sessions
                /\ provider[asking[c].read.deployment].run = "manual"
      BY DEF RuntimesInvariant, SessionsKnown
    <3> QED BY <1>1, <3>1, <3>2, <3>3 DEF SessionsKnown
  <2>14. DealtRunsFollow'
    <3> SUFFICES ASSUME NEW e \in Events, NEW q \in Runs, DealtWith(e)' PROVE Follows(e, q)'
      BY DEF DealtRunsFollow
    <3>1. DealtWith(e)
      BY <1>1, <2>5, <2>9 DEF DealtWith
    <3>2. Follows(e, q)
      BY <3>1 DEF RuntimesInvariant, DealtRunsFollow
    <3> QED BY <1>1, <2>2, <2>3, <3>2 DEF Follows
  <2> QED BY <2>8, <2>10, <2>11, <2>12, <2>13, <2>14
<1>6. ASSUME NEW w \in Wakes, wakings[w] = NoWake, UNCHANGED runs,
             wakings' = [wakings EXCEPT ![w] = [agent |-> a, state |-> "pending"]],
             entries' = [entries EXCEPT ![w] = entry]
      PROVE  (WorkTyped /\ FlightTrue /\ WakesAgree /\ SessionsKnown /\ EventsKnown /\ DealtRunsFollow)'
  <2>1. PICK row : row = [agent |-> a, state |-> "pending"]
    OBVIOUS
  <2>2. row \in WakeRow /\ row.state = "pending"
    BY <2>1 DEF WakeRow, SomeAgent
  <2>3. /\ wakings' \in [Wakes -> WakeRow] /\ wakings'[w] = row
        /\ \A v \in Wakes : v # w => wakings'[v] = wakings[v]
    BY <1>6, <2>1, <2>2 DEF RuntimesInvariant, WorkTyped
  <2>4. w \in Ids /\ w \notin Runs /\ w \notin Events
    BY Distinct DEF Ids
  <2>5. /\ entries' \in [Ids -> EntryRow] /\ entries'[w] = entry
        /\ \A id \in Ids : id # w => entries'[id] = entries[id]
    BY <1>4, <1>6, <2>4 DEF RuntimesInvariant, WorkTyped
  <2>6. /\ \A e \in Events : entries'[e] = entries[e]
        /\ \A r \in Runs : entries'[r] = entries[r]
    BY <2>4, <2>5 DEF Ids
  <2>7. wakings[w].state = "none"
    BY <1>6 DEF NoWake
  <2>8. WorkTyped'
    BY <1>1, <1>6, <2>3, <2>5 DEF RuntimesInvariant, WorkTyped
  <2>9. FlightTrue'
    <3>1. \A id \in Ids : entries'[id].status # "none" => entries'[id].agent \in Agents
      BY <1>4, <2>5 DEF RuntimesInvariant, FlightTrue
    <3>2. \A id \in Ids : entries[id].status = "pending" => entries'[id].status = "pending"
      BY <1>4, <2>5
    <3>3. flight.pc = "settle" /\ flight.outcome = "delivered" /\ flight.entry \in Wakes =>
             wakings'[flight.entry].state = "delivered"
      BY <2>3, <2>7 DEF RuntimesInvariant, FlightTrue
    <3> QED BY <1>1, <1>6, <2>6, <3>1, <3>2, <3>3 DEF RuntimesInvariant, FlightTrue
  <2>10. WakesAgree'
    <3>1. ASSUME NEW v \in Wakes
          PROVE  /\ wakings'[v].state = "delivered" => v \in reached
                 /\ wakings'[v].state = "dead" <=> entries'[v].status = "dead"
                 /\ entries'[v].status = "delivered" => wakings'[v].state = "delivered"
      <4>1. CASE v = w
        BY <1>4, <2>2, <2>3, <2>5, <4>1
      <4>2. CASE v # w
        <5>1. wakings'[v] = wakings[v] /\ entries'[v] = entries[v]
          BY <2>3, <2>5, <4>2 DEF Ids
        <5> QED BY <5>1 DEF RuntimesInvariant, WakesAgree
      <4> QED BY <4>1, <4>2
    <3> QED BY <1>1, <3>1 DEF WakesAgree
  <2>11. SessionsKnown' /\ EventsKnown'
    BY <1>1, <1>6, <2>6 DEF RuntimesInvariant, SessionsKnown, EventsKnown
  <2>12. DealtRunsFollow'
    BY <1>1, <1>6, <2>6 DEF RuntimesInvariant, DealtRunsFollow, DealtWith, Follows
  <2> QED BY <2>8, <2>9, <2>10, <2>11, <2>12
<1>7. (WorkTyped /\ FlightTrue /\ WakesAgree /\ SessionsKnown /\ EventsKnown /\ DealtRunsFollow)'
  BY <1>3, <1>5, <1>6 DEF RecordRuntimeWake
<1> QED BY <1>2, <1>7 DEF RuntimesInvariant

LEMMA DeleteOriginHolds ==
    ASSUME RuntimesInvariant, NEW r \in Runs, DeleteOrigin(r)
    PROVE  RuntimesInvariant'
<1>1. /\ runs' = [runs EXCEPT ![r].origin = FALSE]
      /\ UNCHANGED <<configs, wakings, entries, routes, provider, said, carried, asking, flight, reached, strayed, setup>>
  BY DEF DeleteOrigin, outside
<1>2. /\ runs' \in [Runs -> RunRow]
      /\ \A q \in Runs : runs'[q].session = runs[q].session /\ runs'[q].state = runs[q].state
  BY <1>1 DEF RuntimesInvariant, WorkTyped, RunRow
<1>3. WorkTyped'
  BY <1>1, <1>2 DEF RuntimesInvariant, WorkTyped
<1>4. FlightTrue'
  BY <1>1, <1>2 DEF RuntimesInvariant, FlightTrue
<1>5. \A e \in Events : DealtWith(e)' => DealtWith(e)
  BY <1>1 DEF DealtWith
<1>6. (WakesAgree /\ SessionsKnown /\ EventsKnown /\ DealtRunsFollow)'
  BY <1>1, <1>2, <1>3, <1>4, <1>5, WorkKept
<1>7. (ConfigsTyped /\ ProofsStand /\ RoutesStand)'
  <2>1. setup' \in SetupRow
    BY <1>1 DEF RuntimesInvariant, ConfigsTyped
  <2> QED BY <1>1, <2>1, ConfigsUntouched
<1> QED BY <1>3, <1>4, <1>6, <1>7 DEF RuntimesInvariant

-----------------------------------------------------------------------------
(* The provider and its events. *)

(* An event that was not said yet is nowhere. *)
LEMMA UnsaidEvent ==
    ASSUME RuntimesInvariant, NEW e \in Events, said[e] = NoEvent
    PROVE  /\ said[e].session = 0 /\ e \notin carried /\ entries[e].status = "none" /\ ~DealtWith(e)
<1>1. said[e].session = 0
  BY DEF NoEvent
<1>2. e \notin carried /\ entries[e].status = "none"
  BY DEF RuntimesInvariant, EventsKnown
<1>3. ~DealtWith(e)
  BY <1>2 DEF DealtWith, RuntimesInvariant, FlightTrue
<1> QED BY <1>1, <1>2, <1>3

LEMMA ProviderSaysHolds ==
    ASSUME RuntimesInvariant, NEW e \in Events, NEW p \in Pairs, ProviderSays(e, p)
    PROVE  RuntimesInvariant'
<1>1. PICK old : old = said[e]
  OBVIOUS
<1>2. old \in EventRow /\ old = NoEvent
  BY <1>1 DEF RuntimesInvariant, WorkTyped, ProviderSays
<1>3. PICK row : row = [old EXCEPT !.pair = p]
  OBVIOUS
<1>4. row \in EventRow /\ row.session = 0 /\ row.pair = p
  <2>1. old.session = 0
    BY <1>2 DEF NoEvent
  <2> QED BY <1>2, <1>3, <2>1 DEF EventRow, SomePair
<1>5. row # NoEvent
  <2>1. p # NoPair
    BY RuntimesAssumption
  <2> QED BY <1>4, <2>1 DEF NoEvent
<1>6. /\ said' = [said EXCEPT ![e] = row]
      /\ UNCHANGED <<configs, runs, wakings, entries, routes, provider, carried, asking, flight, reached, strayed, setup>>
  BY <1>1, <1>3 DEF ProviderSays, runtimeRows
<1>7. /\ said' \in [Events -> EventRow] /\ said'[e] = row /\ \A x \in Events : x # e => said'[x] = said[x]
  BY <1>4, <1>6 DEF RuntimesInvariant, WorkTyped
<1>8. (ConfigsTyped /\ ProofsStand /\ RoutesStand)'
  <2>1. setup' \in SetupRow
    BY <1>6 DEF RuntimesInvariant, ConfigsTyped
  <2> QED BY <1>6, <2>1, ConfigsUntouched
<1>9. WorkTyped' /\ WakesAgree' /\ SessionsKnown'
  BY <1>6, <1>7 DEF RuntimesInvariant, WorkTyped, WakesAgree, SessionsKnown
<1>10. \A x \in Events : said'[x].session = said[x].session \/ said'[x].session = 0
  BY <1>4, <1>7
<1>11. FlightTrue'
  <2>1. flight.pc = "made" => flight.session # 0
    BY Distinct DEF RuntimesInvariant, FlightTrue
  <2> QED BY <1>6, <1>10, <2>1 DEF RuntimesInvariant, FlightTrue
<1>12. EventsKnown'
  BY <1>4, <1>5, <1>6, <1>7 DEF RuntimesInvariant, EventsKnown
<1>13. DealtRunsFollow'
  <2> SUFFICES ASSUME NEW x \in Events, NEW r \in Runs, DealtWith(x)' PROVE Follows(x, r)'
    BY DEF DealtRunsFollow
  <2>1. DealtWith(x)
    BY <1>6 DEF DealtWith
  <2>2. said'[x] = said[x]
    BY <1>1, <1>2, <1>7, <2>1, UnsaidEvent
  <2>3. Follows(x, r)
    BY <2>1 DEF RuntimesInvariant, DealtRunsFollow
  <2> QED BY <1>6, <2>2, <2>3 DEF Follows
<1> QED BY <1>8, <1>9, <1>11, <1>12, <1>13 DEF RuntimesInvariant

LEMMA ProviderMovesHolds ==
    ASSUME RuntimesInvariant, NEW s \in Sessions, NEW e \in Events,
           NEW state \in {"running", "idle", "terminated"}, ProviderMoves(s, e, state)
    PROVE  RuntimesInvariant'
<1>1. PICK old : old = provider[s]
  OBVIOUS
<1>2. old \in SessionRow /\ old.change \in Nat /\ old.change + 1 \in Nat /\ old.pair \in SomePair
  BY <1>1 DEF RuntimesInvariant, WorkTyped, SessionRow
<1>3. PICK n : n = old.change + 1
  OBVIOUS
<1>4. PICK row : row = [old EXCEPT !.state = state, !.change = n]
  OBVIOUS
<1>5. row \in SessionRow /\ row.run = old.run /\ row.state = state /\ row.change = n
  BY <1>2, <1>3, <1>4 DEF SessionRow
<1>6. PICK event : event = [session |-> s, change |-> n, pair |-> old.pair]
  OBVIOUS
<1>7. event \in EventRow /\ event.session = s /\ event.change = n
  BY <1>2, <1>3, <1>6 DEF EventRow, SomeSession
<1>8. s # 0 /\ event # NoEvent
  BY <1>7, Distinct DEF NoEvent
<1>9. /\ old.state # "none" /\ said[e] = NoEvent
      /\ provider' = [provider EXCEPT ![s] = row] /\ said' = [said EXCEPT ![e] = event]
      /\ UNCHANGED <<configs, runs, wakings, entries, routes, carried, asking, flight, reached, strayed, setup>>
  BY <1>1, <1>3, <1>4, <1>6 DEF ProviderMoves, runtimeRows
<1>10. /\ provider' \in [Sessions -> SessionRow] /\ provider'[s] = row
       /\ \A t \in Sessions : t # s => provider'[t] = provider[t]
  BY <1>5, <1>9 DEF RuntimesInvariant, WorkTyped
<1>11. /\ said' \in [Events -> EventRow] /\ said'[e] = event
       /\ \A x \in Events : x # e => said'[x] = said[x]
  BY <1>7, <1>9 DEF RuntimesInvariant, WorkTyped
<1>12. e \notin carried /\ entries[e].status = "none" /\ ~DealtWith(e)
  BY <1>9, UnsaidEvent
<1>13. (ConfigsTyped /\ ProofsStand /\ RoutesStand)'
  <2>1. setup' \in SetupRow
    BY <1>9 DEF RuntimesInvariant, ConfigsTyped
  <2> QED BY <1>9, <2>1, ConfigsUntouched
<1>14. WorkTyped' /\ WakesAgree'
  BY <1>9, <1>10, <1>11 DEF RuntimesInvariant, WorkTyped, WakesAgree
<1>15. FlightTrue'
  <2>1. \A x \in Events : said'[x] = said[x] \/ entries[x].status = "none"
    BY <1>11, <1>12
  <2> QED BY <1>9, <2>1 DEF RuntimesInvariant, FlightTrue
<1>16. \A t \in Sessions : /\ provider'[t].run = provider[t].run
                           /\ provider'[t].state # "none" <=> provider[t].state # "none"
  BY <1>1, <1>5, <1>9, <1>10
<1>17. SessionsKnown'
  <2>1. \A t \in Sessions :
           /\ provider'[t].run # "none" <=> provider'[t].state # "none"
           /\ provider'[t].run \in Runs =>
                 \/ <<"lost", provider'[t].run>> \in strayed
                 \/ runs[provider'[t].run].session = t
                 \/ flight.pc = "made" /\ flight.entry = provider'[t].run /\ flight.session = t
    BY <1>16 DEF RuntimesInvariant, SessionsKnown
  <2>2. flight.pc = "made" => provider'[flight.session].run = flight.entry
    BY <1>16 DEF RuntimesInvariant, SessionsKnown, FlightTrue
  <2>3. ASSUME NEW r \in Runs
        PROVE  /\ entries[r].status # "none" => runs[r].state # "none"
               /\ entries[r].status = "delivered" => runs[r].session # 0
               /\ runs[r].session # 0 => provider'[runs[r].session].run \in {r, "manual"}
    <3>1. runs[r].session \in SomeSession
      BY DEF RuntimesInvariant, WorkTyped, RunRow
    <3> QED BY <1>16, <3>1 DEF RuntimesInvariant, SessionsKnown, SomeSession
  <2>4. \A c \in OwnerCalls : asking[c].pc = "deployed" =>
           /\ asking[c].agent \in Agents /\ asking[c].read.deployment \in Sessions
           /\ provider'[asking[c].read.deployment].run = "manual"
    BY <1>16 DEF RuntimesInvariant, SessionsKnown
  <2> QED BY <1>9, <2>1, <2>2, <2>3, <2>4 DEF SessionsKnown
<1>18. EventsKnown'
  <2> SUFFICES ASSUME NEW x \in Events
               PROVE  /\ said'[x].session # 0 => /\ provider'[said'[x].session].state # "none"
                                                 /\ said'[x].change \in 1 .. provider'[said'[x].session].change
                      /\ x \in carried \/ entries[x].status # "none" => said'[x] # NoEvent
    BY <1>9 DEF EventsKnown
  <2>1. CASE x = e
    BY <1>2, <1>3, <1>5, <1>7, <1>8, <1>10, <1>11, <2>1
  <2>2. CASE x # e
    <3>1. PICK t : t = said[x].session
      OBVIOUS
    <3>2. t \in SomeSession
      BY <3>1 DEF RuntimesInvariant, WorkTyped, EventRow
    <3>3. /\ t # 0 => provider[t].state # "none" /\ said[x].change \in 1 .. provider[t].change
          /\ x \in carried \/ entries[x].status # "none" => said[x] # NoEvent
      BY <3>1 DEF RuntimesInvariant, EventsKnown
    <3>4. CASE t = s
      <4>1. said'[x] = said[x] /\ provider'[s].state # "none" /\ provider'[s].change = n
        BY <1>5, <1>10, <1>11, <2>2
      <4>2. said[x].change \in 1 .. old.change
        BY <1>1, <1>8, <3>3, <3>4
      <4>3. said[x].change \in 1 .. n
        BY <1>2, <1>3, <4>2
      <4> QED BY <3>1, <3>3, <3>4, <4>1, <4>3
    <3>5. CASE t # s
      BY <1>10, <1>11, <2>2, <3>1, <3>2, <3>3, <3>5 DEF SomeSession
    <3> QED BY <3>4, <3>5
  <2> QED BY <2>1, <2>2
<1>19. DealtRunsFollow'
  <2> SUFFICES ASSUME NEW x \in Events, NEW r \in Runs, DealtWith(x)' PROVE Follows(x, r)'
    BY DEF DealtRunsFollow
  <2>1. DealtWith(x)
    BY <1>9 DEF DealtWith
  <2>2. said'[x] = said[x]
    BY <1>11, <1>12, <2>1
  <2>3. Follows(x, r)
    BY <2>1 DEF RuntimesInvariant, DealtRunsFollow
  <2>4. said[x].session \in SomeSession
    BY DEF RuntimesInvariant, WorkTyped, EventRow
  <2>5. CASE said[x].session = s
    <3>1. said[x].change # n
      BY <1>1, <1>2, <1>3, <1>8, <2>5 DEF RuntimesInvariant, EventsKnown
    <3> QED BY <1>5, <1>10, <2>2, <2>5, <3>1 DEF Follows
  <2>6. CASE said[x].session # s
    BY <1>9, <1>10, <2>2, <2>3, <2>4, <2>6 DEF Follows, SomeSession
  <2> QED BY <2>5, <2>6
<1> QED BY <1>13, <1>14, <1>15, <1>17, <1>18, <1>19 DEF RuntimesInvariant

LEMMA GatewayHolds ==
    ASSUME RuntimesInvariant, NEW e \in Events, HandleRuntimeGatewayRequest(e)
    PROVE  RuntimesInvariant'
<1>1. /\ said[e] # NoEvent /\ carried' = carried \cup {e}
      /\ UNCHANGED <<configs, runs, wakings, entries, routes, provider, said, asking, flight, reached, strayed, setup>>
  BY DEF HandleRuntimeGatewayRequest, runtimeRows, outside
<1>2. (ConfigsTyped /\ ProofsStand /\ RoutesStand)'
  <2>1. setup' \in SetupRow
    BY <1>1 DEF RuntimesInvariant, ConfigsTyped
  <2> QED BY <1>1, <2>1, ConfigsUntouched
<1>3. WorkTyped' /\ WakesAgree' /\ SessionsKnown'
  BY <1>1 DEF RuntimesInvariant, WorkTyped, WakesAgree, SessionsKnown
<1>4. FlightTrue'
  BY <1>1 DEF RuntimesInvariant, FlightTrue
<1>5. EventsKnown'
  BY <1>1 DEF RuntimesInvariant, EventsKnown
<1>6. DealtRunsFollow'
  BY <1>1 DEF RuntimesInvariant, DealtRunsFollow, DealtWith, Follows
<1> QED BY <1>2, <1>3, <1>4, <1>5, <1>6 DEF RuntimesInvariant

LEMMA AcceptHolds ==
    ASSUME RuntimesInvariant, NEW e \in Events, NEW a \in Agents, AcceptAnthropicWebhook(e, a)
    PROVE  RuntimesInvariant'
<1>1. PICK old : old = configs[a]
  OBVIOUS
<1>2. old \in ConfigRow
  BY <1>1 DEF RuntimesInvariant, ConfigsTyped
<1>3. PICK hook : hook = IF old.webhook = 0 THEN old.made ELSE old.webhook
  OBVIOUS
<1>4. PICK st : st = IF old.resource = 0 THEN "pending" ELSE "active"
  OBVIOUS
<1>5. PICK row : row = [old EXCEPT !.webhook = hook, !.status = st]
  OBVIOUS
<1>6. hook \in Nat /\ st \in {"pending", "active"}
  BY <1>2, <1>3, <1>4 DEF ConfigRow
<1>7. /\ row \in ConfigRow /\ row.kind = old.kind /\ row.pair = old.pair /\ row.made = old.made
      /\ row.resource = old.resource /\ row.deployment = old.deployment /\ row.webhook = hook /\ row.status = st
  BY <1>2, <1>5, <1>6 DEF ConfigRow
<1>8. PICK entry : entry = [status |-> "pending", attempts |-> 0, agent |-> a]
  OBVIOUS
<1>9. entry \in EntryRow /\ entry.status = "pending" /\ entry.agent = a
  BY <1>8 DEF EntryRow, SomeAgent
<1>10. /\ Claude(a) /\ e \in carried /\ entries[e] = NoEntry
       /\ entries' = [entries EXCEPT ![e] = entry]
       /\ UNCHANGED <<runs, wakings, routes, provider, said, carried, asking, flight, reached, strayed, setup>>
  BY <1>8 DEF AcceptAnthropicWebhook, outside
<1>11. configs' = [configs EXCEPT ![a] = row]
  <2>1. configs' = [configs EXCEPT ![a].webhook = IF @ = 0 THEN configs[a].made ELSE @,
                                   ![a].status = IF configs[a].resource = 0 THEN "pending" ELSE "active"]
    BY DEF AcceptAnthropicWebhook
  <2> QED BY <1>1, <1>3, <1>4, <1>5, <2>1 DEF RuntimesInvariant, ConfigsTyped
<1>12. configs' \in [Agents -> ConfigRow] /\ configs'[a] = row /\ \A b \in Agents : b # a => configs'[b] = configs[b]
  BY <1>7, <1>11 DEF RuntimesInvariant, ConfigsTyped
<1>13. ConfigsTyped'
  BY <1>10, <1>12 DEF RuntimesInvariant, ConfigsTyped
<1>14. ProofsStand'
  <2>1. ASSUME NEW b \in Agents, Claude(b)' PROVE Proved(b)' \/ <<"overtaken", b>> \in strayed'
    <3>1. Claude(b)
      BY <1>1, <1>7, <1>12, <2>1 DEF Claude
    <3>2. Proved(b) \/ <<"overtaken", b>> \in strayed
      BY <3>1 DEF RuntimesInvariant, ProofsStand
    <3>3. CASE b # a
      BY <1>10, <1>12, <3>2, <3>3 DEF Proved
    <3>4. CASE b = a
      BY <1>1, <1>3, <1>4, <1>7, <1>10, <1>12, <3>2, <3>4 DEF Proved
    <3> QED BY <3>3, <3>4
  <2>2. ASSUME NEW d \in OwnerCalls, asking'[d].pc \in {"token", "answer"} PROVE ReadBefore(d)'
    <3>1. asking'[d] = asking[d]
      BY <1>10
    <3>2. ReadBefore(d)
      BY <2>2, <3>1 DEF RuntimesInvariant, ProofsStand
    <3>3. CASE asking[d].agent = a
      BY <1>1, <1>3, <1>7, <1>12, <3>1, <3>2, <3>3 DEF ReadBefore
    <3>4. CASE asking[d].agent # a
      BY <1>12, <3>1, <3>2, <3>4 DEF ReadBefore
    <3> QED BY <3>3, <3>4
  <2> QED BY <2>1, <2>2 DEF ProofsStand
<1>15. RoutesStand'
  <2>1. ASSUME NEW q \in Pairs, UsedPair(q)' PROVE UsedPair(q)
    BY <1>1, <1>7, <1>12, <2>1 DEF UsedPair, Claude
  <2> QED BY <1>10, <2>1 DEF RuntimesInvariant, RoutesStand
<1>16. entries[e].status = "none" /\ said[e] # NoEvent /\ e \in Ids /\ e \notin Runs /\ e \notin Wakes
  <2>1. entries[e].status = "none"
    BY <1>10 DEF NoEntry
  <2>2. said[e] # NoEvent
    BY <1>10 DEF RuntimesInvariant, EventsKnown
  <2> QED BY <2>1, <2>2, Distinct DEF Ids
<1>17. /\ entries' \in [Ids -> EntryRow] /\ entries'[e] = entry
       /\ \A id \in Ids : id # e => entries'[id] = entries[id]
  BY <1>9, <1>10, <1>16 DEF RuntimesInvariant, WorkTyped
<1>18. /\ \A w \in Wakes : entries'[w] = entries[w]
       /\ \A r \in Runs : entries'[r] = entries[r]
       /\ \A x \in Events : entries'[x] = entries[x] \/ (x = e /\ entries'[x].status = "pending")
  BY <1>9, <1>16, <1>17 DEF Ids
<1>19. WorkTyped' /\ WakesAgree' /\ SessionsKnown'
  BY <1>10, <1>17, <1>18 DEF RuntimesInvariant, WorkTyped, WakesAgree, SessionsKnown
<1>20. FlightTrue'
  <2>1. \A id \in Ids : entries'[id].status # "none" => entries'[id].agent \in Agents
    BY <1>9, <1>17 DEF RuntimesInvariant, FlightTrue
  <2>2. \A id \in Ids : entries[id].status = "pending" => entries'[id].status = "pending"
    BY <1>9, <1>17
  <2> QED BY <1>10, <1>18, <2>1, <2>2 DEF RuntimesInvariant, FlightTrue
<1>21. EventsKnown'
  BY <1>10, <1>16, <1>18 DEF RuntimesInvariant, EventsKnown
<1>22. DealtRunsFollow'
  <2> SUFFICES ASSUME NEW x \in Events, NEW r \in Runs, DealtWith(x)' PROVE Follows(x, r)'
    BY DEF DealtRunsFollow
  <2>1. DealtWith(x)
    BY <1>10, <1>18 DEF DealtWith
  <2>2. Follows(x, r)
    BY <2>1 DEF RuntimesInvariant, DealtRunsFollow
  <2> QED BY <1>10, <2>2 DEF Follows
<1> QED BY <1>13, <1>14, <1>15, <1>19, <1>20, <1>21, <1>22 DEF RuntimesInvariant

-----------------------------------------------------------------------------
(* The alarm handler. *)

LEMMA Landed ==
    ASSUME NEW id \in Ids, NEW outcome \in {"delivered", "retry", "permanent"}
    PROVE  /\ Landing(id, outcome) \in FlightRow /\ Landing(id, outcome).pc = "settle"
           /\ Landing(id, outcome).entry = id /\ Landing(id, outcome).outcome = outcome
<1>1. PICK ground : ground = Grounded
  OBVIOUS
<1>2. ground \in FlightRow
  BY <1>1, EmptyRows
<1>3. PICK row : row = [ground EXCEPT !.pc = "settle", !.entry = id, !.outcome = outcome]
  OBVIOUS
<1>4. row \in FlightRow /\ row.pc = "settle" /\ row.entry = id /\ row.outcome = outcome
  BY <1>2, <1>3 DEF FlightRow
<1>5. Landing(id, outcome) = row
  BY <1>1, <1>3 DEF Landing
<1> QED BY <1>4, <1>5

LEMMA TakenInHand ==
    ASSUME RuntimesInvariant, NEW id \in Ids, entries[id].status = "pending", NEW pc \in {"token", "call"}
    PROVE  Taking(id, pc) \in FlightRow /\ Taking(id, pc).pc = pc /\ Taking(id, pc).entry = id
<1>1. PICK ground : ground = Grounded
  OBVIOUS
<1>2. ground \in FlightRow
  BY <1>1, EmptyRows
<1>3. PICK read : read = configs[entries[id].agent]
  OBVIOUS
<1>4. read \in ConfigRow
  BY <1>3 DEF RuntimesInvariant, FlightTrue, ConfigsTyped
<1>5. PICK row : row = [ground EXCEPT !.pc = pc, !.entry = id, !.read = read]
  OBVIOUS
<1>6. row \in FlightRow /\ row.pc = pc /\ row.entry = id
  BY <1>2, <1>4, <1>5 DEF FlightRow
<1>7. Taking(id, pc) = row
  BY <1>1, <1>3, <1>5 DEF Taking
<1> QED BY <1>6, <1>7

LEMMA GroundedRow == Grounded \in FlightRow /\ Grounded.pc = "idle"
BY EmptyRows DEF Grounded

LEMMA SettleHolds ==
    ASSUME RuntimesInvariant, Settle
    PROVE  RuntimesInvariant'
<1>1. PICK id : id = flight.entry
  OBVIOUS
<1>2. PICK outcome : outcome = flight.outcome
  OBVIOUS
<1>3. /\ flight.pc = "settle" /\ Settled(id, outcome) /\ flight' = Grounded
      /\ UNCHANGED <<configs, runs, routes, provider, said, carried, asking, reached, strayed, setup>>
  BY <1>1, <1>2 DEF Settle, outside
<1>4. id \in Ids /\ entries[id].status = "pending"
  BY <1>1, <1>3 DEF RuntimesInvariant, FlightTrue
<1>5. PICK n : n = entries[id].attempts + 1
  OBVIOUS
<1>6. PICK status : status = IF outcome = "delivered" THEN "delivered"
                             ELSE IF outcome = "permanent" \/ n >= MaxAttempts THEN "dead" ELSE "pending"
  OBVIOUS
<1>7. /\ status \in {"delivered", "dead", "pending"}
      /\ status = "delivered" => outcome = "delivered"
  BY <1>6
<1>8. /\ entries' = [entries EXCEPT ![id].attempts = n, ![id].status = status]
      /\ wakings' = IF id \in Wakes /\ status = "dead" THEN [wakings EXCEPT ![id].state = "dead"] ELSE wakings
  BY <1>3, <1>5, <1>6 DEF Settled
<1>9. entries[id] \in EntryRow /\ n \in Nat
  BY <1>4, <1>5 DEF RuntimesInvariant, WorkTyped, EntryRow
<1>10. /\ entries' \in [Ids -> EntryRow] /\ entries'[id].status = status /\ entries'[id].agent = entries[id].agent
       /\ \A x \in Ids : x # id => entries'[x] = entries[x]
  <2>1. PICK row : row = [entries[id] EXCEPT !.attempts = n, !.status = status]
    OBVIOUS
  <2>2. row \in EntryRow /\ row.status = status /\ row.agent = entries[id].agent
    BY <1>7, <1>9, <2>1 DEF EntryRow
  <2>3. entries' = [entries EXCEPT ![id] = row]
    BY <1>8, <2>1
  <2> QED BY <1>4, <2>2, <2>3 DEF RuntimesInvariant, WorkTyped
<1>11. /\ wakings' \in [Wakes -> WakeRow]
       /\ \A w \in Wakes : wakings'[w].state = IF w = id /\ status = "dead" THEN "dead" ELSE wakings[w].state
  BY <1>8 DEF RuntimesInvariant, WorkTyped, WakeRow
<1>12. (ConfigsTyped /\ ProofsStand /\ RoutesStand)'
  <2>1. setup' \in SetupRow
    BY <1>3 DEF RuntimesInvariant, ConfigsTyped
  <2> QED BY <1>3, <2>1, ConfigsUntouched
<1>13. flight' \in FlightRow /\ flight'.pc = "idle"
  BY <1>3, GroundedRow
<1>14. WorkTyped'
  BY <1>3, <1>10, <1>11, <1>13 DEF RuntimesInvariant, WorkTyped
<1>15. FlightTrue'
  <2>1. \A x \in Ids : entries'[x].status # "none" => entries'[x].agent \in Agents
    BY <1>4, <1>10 DEF RuntimesInvariant, FlightTrue
  <2> QED BY <1>13, <2>1 DEF FlightTrue
<1>16. WakesAgree'
  <2> SUFFICES ASSUME NEW w \in Wakes
               PROVE  /\ wakings'[w].state = "delivered" => w \in reached
                      /\ wakings'[w].state = "dead" <=> entries'[w].status = "dead"
                      /\ entries'[w].status = "delivered" => wakings'[w].state = "delivered"
    BY <1>3 DEF WakesAgree
  <2>1. /\ wakings[w].state = "delivered" => w \in reached
        /\ wakings[w].state = "dead" <=> entries[w].status = "dead"
        /\ entries[w].status = "delivered" => wakings[w].state = "delivered"
    BY DEF RuntimesInvariant, WakesAgree
  <2>2. CASE w = id
    <3>1. status = "delivered" => wakings[w].state = "delivered"
      BY <1>1, <1>2, <1>3, <1>7, <2>2 DEF RuntimesInvariant, FlightTrue
    <3> QED BY <1>4, <1>7, <1>10, <1>11, <2>1, <2>2, <3>1
  <2>3. CASE w # id
    <3>1. w \in Ids
      BY DEF Ids
    <3> QED BY <1>10, <1>11, <2>1, <2>3, <3>1
  <2> QED BY <2>2, <2>3
<1>17. SessionsKnown'
  <2>1. \A t \in Sessions :
           /\ provider[t].run # "none" <=> provider[t].state # "none"
           /\ provider[t].run \in Runs => <<"lost", provider[t].run>> \in strayed \/ runs[provider[t].run].session = t
    BY <1>3 DEF RuntimesInvariant, SessionsKnown
  <2>2. ASSUME NEW r \in Runs
        PROVE  /\ entries'[r].status # "none" => runs[r].state # "none"
               /\ entries'[r].status = "delivered" => runs[r].session # 0
               /\ runs[r].session # 0 => provider[runs[r].session].run \in {r, "manual"}
    <3>1. /\ entries[r].status # "none" => runs[r].state # "none"
          /\ entries[r].status = "delivered" => runs[r].session # 0
          /\ runs[r].session # 0 => provider[runs[r].session].run \in {r, "manual"}
      BY DEF RuntimesInvariant, SessionsKnown
    <3>2. CASE r = id
      <4>1. status = "delivered" => runs[r].session # 0
        BY <1>1, <1>2, <1>3, <1>7, <3>2 DEF RuntimesInvariant, FlightTrue
      <4> QED BY <1>4, <1>10, <3>1, <3>2, <4>1
    <3>3. CASE r # id
      <4>1. r \in Ids
        BY DEF Ids
      <4> QED BY <1>10, <3>1, <3>3, <4>1
    <3> QED BY <3>2, <3>3
  <2>3. \A c \in OwnerCalls : asking[c].pc = "deployed" =>
           /\ asking[c].agent \in Agents /\ asking[c].read.deployment \in Sessions
           /\ provider[asking[c].read.deployment].run = "manual"
    BY DEF RuntimesInvariant, SessionsKnown
  <2> QED BY <1>3, <1>13, <2>1, <2>2, <2>3 DEF SessionsKnown
<1>18. \A e \in Events : e \in Ids
  BY DEF Ids
<1>19. EventsKnown'
  <2>1. \A e \in Events : entries'[e].status # "none" => entries[e].status # "none"
    BY <1>4, <1>10, <1>18
  <2> QED BY <1>3, <2>1 DEF RuntimesInvariant, EventsKnown
<1>20. DealtRunsFollow'
  <2> SUFFICES ASSUME NEW e \in Events, NEW r \in Runs, DealtWith(e)' PROVE Follows(e, r)'
    BY DEF DealtRunsFollow
  <2>1. entries'[e].status = "delivered"
    BY <1>13 DEF DealtWith
  <2>2. DealtWith(e)
    BY <1>1, <1>2, <1>3, <1>7, <1>10, <1>18, <2>1 DEF DealtWith
  <2>3. Follows(e, r)
    BY <2>2 DEF RuntimesInvariant, DealtRunsFollow
  <2> QED BY <1>3, <2>3 DEF Follows
<1> QED BY <1>12, <1>14, <1>15, <1>16, <1>17, <1>19, <1>20 DEF RuntimesInvariant

(* The handler goes on, and no session comes of it. *)
LEMMA WorkMoves ==
    ASSUME RuntimesInvariant,
           UNCHANGED <<wakings, entries, provider, said, carried, reached>>,
           runs' \in [Runs -> RunRow], flight' \in FlightRow, flight'.pc # "made",
           \A r \in Runs :
              /\ runs'[r].session = runs[r].session
              /\ runs'[r].state = runs[r].state \/ (runs[r].session = 0 /\ runs'[r].state # "none"),
           flight'.pc \in {"token", "call", "settle"} =>
              flight'.entry \in Ids /\ entries[flight'.entry].status = "pending",
           flight'.pc \in {"token", "call"} /\ flight'.entry \in Runs => runs[flight'.entry].session = 0,
           flight'.pc = "settle" /\ flight'.outcome = "delivered" =>
              flight'.entry \in Runs /\ runs[flight'.entry].session # 0,
           \A r \in Runs : /\ <<"lost", r>> \in strayed => <<"lost", r>> \in strayed'
                           /\ <<"missed", r>> \in strayed => <<"missed", r>> \in strayed',
           flight.pc = "made" => <<"lost", flight.entry>> \in strayed',
           \A c \in OwnerCalls : asking'[c].pc = "deployed" => asking[c].pc = "deployed" /\ asking'[c] = asking[c]
    PROVE  (WorkTyped /\ FlightTrue /\ WakesAgree /\ SessionsKnown /\ EventsKnown /\ DealtRunsFollow)'
<1>1. WorkTyped'
  BY DEF RuntimesInvariant, WorkTyped
<1>2. FlightTrue'
  <2>1. flight'.entry \in Runs => flight'.entry \notin Wakes
    BY RuntimesAssumption
  <2>2. \A id \in Ids : entries[id].status # "none" => entries[id].agent \in Agents
    BY DEF RuntimesInvariant, FlightTrue
  <2> QED BY <2>1, <2>2 DEF FlightTrue
<1>3. \A e \in Events : DealtWith(e)' => DealtWith(e)
  BY RuntimesAssumption DEF DealtWith
<1> QED BY <1>1, <1>2, <1>3, WorkKept

LEMMA DispatchMentionHolds ==
    ASSUME RuntimesInvariant, NEW r \in Runs, DispatchCloudRuntimeMention(r)
    PROVE  RuntimesInvariant'
<1>1. /\ flight.pc = "idle" /\ entries[r].status = "pending"
      /\ UNCHANGED <<configs, wakings, entries, routes, provider, said, carried, asking, reached, strayed, setup>>
  BY DEF DispatchCloudRuntimeMention, Pending, outside
<1>2. r \in Ids /\ runs \in [Runs -> RunRow]
  BY DEF Ids, RuntimesInvariant, WorkTyped
<1>3. (ConfigsTyped /\ ProofsStand /\ RoutesStand)'
  <2>1. setup' \in SetupRow
    BY <1>1 DEF RuntimesInvariant, ConfigsTyped
  <2> QED BY <1>1, <2>1, ConfigsUntouched
<1>4. CASE runs[r].session = 0 /\ runs' = [runs EXCEPT ![r].state = "starting"] /\ flight' = Taking(r, "token")
  <2>1. flight' \in FlightRow /\ flight'.entry = r /\ flight'.pc = "token"
    BY <1>1, <1>2, <1>4, TakenInHand
  <2>2. /\ runs' \in [Runs -> RunRow] /\ runs'[r].state = "starting"
        /\ \A q \in Runs : runs'[q].session = runs[q].session /\ (q # r => runs'[q] = runs[q])
    BY <1>2, <1>4 DEF RunRow
  <2>3. (WorkTyped /\ FlightTrue /\ WakesAgree /\ SessionsKnown /\ EventsKnown /\ DealtRunsFollow)'
    BY <1>1, <1>2, <1>4, <2>1, <2>2, WorkMoves
  <2> QED BY <1>3, <2>3 DEF RuntimesInvariant
<1>5. ASSUME NEW outcome \in {"delivered", "permanent"}, outcome = "delivered" => runs[r].session # 0,
             runs' = runs, flight' = Landing(r, outcome)
      PROVE  RuntimesInvariant'
  <2>1. flight' \in FlightRow /\ flight'.entry = r /\ flight'.pc = "settle" /\ flight'.outcome = outcome
    BY <1>2, <1>5, Landed
  <2>2. (WorkTyped /\ FlightTrue /\ WakesAgree /\ SessionsKnown /\ EventsKnown /\ DealtRunsFollow)'
    BY <1>1, <1>2, <1>5, <2>1, WorkMoves
  <2> QED BY <1>3, <2>2 DEF RuntimesInvariant
<1>6. CASE ~(runs[r].session = 0 /\ runs' = [runs EXCEPT ![r].state = "starting"] /\ flight' = Taking(r, "token"))
  <2>1. /\ runs' = runs
        /\ \/ flight' = Landing(r, "delivered") /\ runs[r].session # 0
           \/ flight' = Landing(r, "permanent")
    BY <1>6 DEF DispatchCloudRuntimeMention
  <2> QED BY <1>5, <2>1
<1> QED BY <1>4, <1>6

LEMMA MakeSessionHolds ==
    ASSUME RuntimesInvariant, NEW s \in Sessions, MakeSession(s)
    PROVE  RuntimesInvariant'
<1>1. PICK r : r = flight.entry
  OBVIOUS
<1>2. /\ flight.pc = "call" /\ r \in Runs /\ flight \in FlightRow
      /\ r \in Ids /\ entries[r].status = "pending" /\ runs[r].session = 0
  BY <1>1 DEF MakeSession, RuntimesInvariant, FlightTrue, WorkTyped
<1>3. PICK row : row = [run |-> r, state |-> "running", change |-> 0, pair |-> flight.read.pair]
  OBVIOUS
<1>4. row \in SessionRow /\ row.run = r /\ row.state = "running"
  BY <1>2, <1>3 DEF SessionRow, FlightRow, ConfigRow
<1>5. /\ provider[s] = NoSession /\ provider' = [provider EXCEPT ![s] = row]
      /\ flight' = [flight EXCEPT !.pc = "made", !.session = s]
      /\ UNCHANGED <<configs, runs, wakings, entries, routes, said, carried, asking, reached, strayed, setup>>
  BY <1>1, <1>3 DEF MakeSession, runtimeRows
<1>6. /\ provider' \in [Sessions -> SessionRow] /\ provider'[s] = row
      /\ \A t \in Sessions : t # s => provider'[t] = provider[t]
  BY <1>4, <1>5 DEF RuntimesInvariant, WorkTyped
<1>7. flight' \in FlightRow /\ flight'.pc = "made" /\ flight'.session = s /\ flight'.entry = r
  BY <1>1, <1>2, <1>5 DEF FlightRow, SomeSession
<1>8. /\ provider[s].run = "none" /\ provider[s].state = "none"
      /\ \A q \in Runs : runs[q].session # s
      /\ \A e \in Events : said[e].session # s
      /\ \A d \in OwnerCalls : asking[d].pc = "deployed" => asking[d].read.deployment # s
  BY <1>5, NobodysSession
<1>9. (ConfigsTyped /\ ProofsStand /\ RoutesStand)'
  <2>1. setup' \in SetupRow
    BY <1>5 DEF RuntimesInvariant, ConfigsTyped
  <2> QED BY <1>5, <2>1, ConfigsUntouched
<1>10. WorkTyped' /\ WakesAgree'
  BY <1>5, <1>6, <1>7 DEF RuntimesInvariant, WorkTyped, WakesAgree
<1>11. FlightTrue'
  <2>1. \A id \in Ids : entries[id].status # "none" => entries[id].agent \in Agents
    BY DEF RuntimesInvariant, FlightTrue
  <2> QED BY <1>2, <1>5, <1>7, <1>8, <2>1 DEF FlightTrue
<1>12. SessionsKnown'
  <2>1. ASSUME NEW t \in Sessions
        PROVE  /\ provider'[t].run # "none" <=> provider'[t].state # "none"
               /\ provider'[t].run \in Runs =>
                     \/ <<"lost", provider'[t].run>> \in strayed
                     \/ runs[provider'[t].run].session = t
                     \/ provider'[t].run = r /\ t = s
    <3>1. CASE t = s
      <4>1. r # "none"
        BY <1>2, RuntimesAssumption
      <4> QED BY <1>4, <1>6, <3>1, <4>1
    <3>2. CASE t # s
      BY <1>2, <1>6, <3>2 DEF RuntimesInvariant, SessionsKnown
    <3> QED BY <3>1, <3>2
  <2>2. ASSUME NEW q \in Runs
        PROVE  /\ entries[q].status # "none" => runs[q].state # "none"
               /\ entries[q].status = "delivered" => runs[q].session # 0
               /\ runs[q].session # 0 => provider'[runs[q].session].run \in {q, "manual"}
    <3>1. runs[q].session \in SomeSession
      BY DEF RuntimesInvariant, WorkTyped, RunRow
    <3> QED BY <1>6, <1>8, <3>1 DEF RuntimesInvariant, SessionsKnown, SomeSession
  <2>3. \A c \in OwnerCalls : asking[c].pc = "deployed" =>
           /\ asking[c].agent \in Agents /\ asking[c].read.deployment \in Sessions
           /\ provider'[asking[c].read.deployment].run = "manual"
    BY <1>6, <1>8 DEF RuntimesInvariant, SessionsKnown
  <2> QED BY <1>4, <1>5, <1>6, <1>7, <2>1, <2>2, <2>3 DEF SessionsKnown
<1>13. EventsKnown'
  <2>1. \A e \in Events : said[e].session \in SomeSession
    BY DEF RuntimesInvariant, WorkTyped, EventRow
  <2> QED BY <1>5, <1>6, <1>8, <2>1 DEF RuntimesInvariant, EventsKnown, SomeSession
<1>14. DealtRunsFollow'
  <2> SUFFICES ASSUME NEW e \in Events, NEW q \in Runs, DealtWith(e)' PROVE Follows(e, q)'
    BY DEF DealtRunsFollow
  <2>1. DealtWith(e)
    BY <1>5, <1>7 DEF DealtWith
  <2>2. Follows(e, q)
    BY <2>1 DEF RuntimesInvariant, DealtRunsFollow
  <2>3. said[e].session \in SomeSession /\ said[e].session # s
    BY <1>8 DEF RuntimesInvariant, WorkTyped, EventRow
  <2>4. said[e].session # 0 => provider'[said[e].session] = provider[said[e].session]
    BY <1>6, <2>3 DEF SomeSession
  <2> QED BY <1>5, <2>2, <2>4 DEF Follows
<1> QED BY <1>9, <1>10, <1>11, <1>12, <1>13, <1>14 DEF RuntimesInvariant

LEMMA BindSessionHolds ==
    ASSUME RuntimesInvariant, BindSession
    PROVE  RuntimesInvariant'
<1>1. PICK r : r = flight.entry
  OBVIOUS
<1>2. PICK s : s = flight.session
  OBVIOUS
<1>3. /\ flight.pc = "made" /\ r \in Runs /\ s \in Sessions
      /\ r \in Ids /\ entries[r].status = "pending" /\ runs[r].session = 0
      /\ \A e \in Events : said[e].session = s => entries[e].status # "delivered"
  BY <1>1, <1>2 DEF BindSession, RuntimesInvariant, FlightTrue
<1>4. s # 0 /\ r \notin Wakes /\ r \notin Events /\ provider[s].run = r
  BY <1>1, <1>2, <1>3, Distinct DEF RuntimesInvariant, SessionsKnown
<1>5. PICK row : row = [runs[r] EXCEPT !.session = s, !.state = "running"]
  OBVIOUS
<1>6. row \in RunRow /\ row.session = s /\ row.state = "running"
  BY <1>3, <1>5 DEF RuntimesInvariant, WorkTyped, RunRow, SomeSession
<1>7. /\ runs' = [runs EXCEPT ![r] = row] /\ flight' = Landing(r, "delivered")
      /\ UNCHANGED <<configs, wakings, entries, routes, provider, said, carried, asking, reached, strayed, setup>>
  BY <1>1, <1>2, <1>3, <1>5 DEF BindSession, outside
<1>8. /\ runs' \in [Runs -> RunRow] /\ runs'[r] = row
      /\ \A q \in Runs : q # r => runs'[q] = runs[q]
  BY <1>3, <1>6, <1>7 DEF RuntimesInvariant, WorkTyped
<1>9. flight' \in FlightRow /\ flight'.entry = r /\ flight'.pc = "settle" /\ flight'.outcome = "delivered"
  BY <1>3, <1>7, Landed
<1>10. (ConfigsTyped /\ ProofsStand /\ RoutesStand)'
  <2>1. setup' \in SetupRow
    BY <1>7 DEF RuntimesInvariant, ConfigsTyped
  <2> QED BY <1>7, <2>1, ConfigsUntouched
<1>11. WorkTyped' /\ WakesAgree'
  BY <1>7, <1>8, <1>9 DEF RuntimesInvariant, WorkTyped, WakesAgree
<1>12. FlightTrue'
  <2>1. \A id \in Ids : entries[id].status # "none" => entries[id].agent \in Agents
    BY DEF RuntimesInvariant, FlightTrue
  <2> QED BY <1>3, <1>4, <1>6, <1>7, <1>8, <1>9, <2>1 DEF FlightTrue
<1>13. SessionsKnown'
  <2>1. ASSUME NEW t \in Sessions
        PROVE  /\ provider[t].run # "none" <=> provider[t].state # "none"
               /\ provider[t].run \in Runs =>
                     <<"lost", provider[t].run>> \in strayed \/ runs'[provider[t].run].session = t
    <3>1. t # 0
      BY Distinct
    <3>2. /\ provider[t].run # "none" <=> provider[t].state # "none"
          /\ provider[t].run \in Runs =>
                \/ <<"lost", provider[t].run>> \in strayed
                \/ runs[provider[t].run].session = t
                \/ r = provider[t].run /\ s = t
      BY <1>1, <1>2 DEF RuntimesInvariant, SessionsKnown
    <3>3. CASE provider[t].run = r
      BY <1>3, <1>6, <1>8, <3>1, <3>2, <3>3
    <3>4. CASE provider[t].run # r
      BY <1>8, <3>2, <3>4
    <3> QED BY <3>3, <3>4
  <2>2. ASSUME NEW q \in Runs
        PROVE  /\ entries[q].status # "none" => runs'[q].state # "none"
               /\ entries[q].status = "delivered" => runs'[q].session # 0
               /\ runs'[q].session # 0 => provider[runs'[q].session].run \in {q, "manual"}
    <3>1. CASE q = r
      BY <1>4, <1>6, <1>8, <3>1
    <3>2. CASE q # r
      BY <1>8, <3>2 DEF RuntimesInvariant, SessionsKnown
    <3> QED BY <3>1, <3>2
  <2>3. \A c \in OwnerCalls : asking[c].pc = "deployed" =>
           /\ asking[c].agent \in Agents /\ asking[c].read.deployment \in Sessions
           /\ provider[asking[c].read.deployment].run = "manual"
    BY DEF RuntimesInvariant, SessionsKnown
  <2> QED BY <1>7, <1>9, <2>1, <2>2, <2>3 DEF SessionsKnown
<1>14. EventsKnown'
  BY <1>7 DEF RuntimesInvariant, EventsKnown
<1>15. DealtRunsFollow'
  <2> SUFFICES ASSUME NEW e \in Events, NEW q \in Runs, DealtWith(e)' PROVE Follows(e, q)'
    BY DEF DealtRunsFollow
  <2>1. entries[e].status = "delivered"
    BY <1>4, <1>7, <1>9 DEF DealtWith
  <2>2. Follows(e, q)
    BY <2>1 DEF RuntimesInvariant, DealtRunsFollow, DealtWith
  <2>3. said[e].session # s
    BY <1>3, <2>1
  <2> QED BY <1>6, <1>7, <1>8, <2>2, <2>3 DEF Follows
<1> QED BY <1>10, <1>11, <1>12, <1>13, <1>14, <1>15 DEF RuntimesInvariant

LEMMA FetchHolds ==
    ASSUME RuntimesInvariant, NEW e \in Events, DispatchAnthropicResourceFetch(e)
    PROVE  RuntimesInvariant'
<1>1. /\ flight.pc = "idle" /\ entries[e].status = "pending"
      /\ flight' = Taking(e, "token") \/ flight' = Landing(e, "permanent")
      /\ UNCHANGED <<configs, runs, wakings, entries, routes, provider, said, carried, asking, reached, strayed, setup>>
  BY DEF DispatchAnthropicResourceFetch, Pending, outside, runtimeRows
<1>2. e \in Ids /\ e \notin Runs /\ runs \in [Runs -> RunRow]
  BY Distinct DEF Ids, RuntimesInvariant, WorkTyped
<1>3. (ConfigsTyped /\ ProofsStand /\ RoutesStand)'
  <2>1. setup' \in SetupRow
    BY <1>1 DEF RuntimesInvariant, ConfigsTyped
  <2> QED BY <1>1, <2>1, ConfigsUntouched
<1>4. /\ flight' \in FlightRow /\ flight'.entry = e /\ flight'.pc \in {"token", "settle"}
      /\ flight'.pc = "settle" => flight'.outcome = "permanent"
  BY <1>1, <1>2, TakenInHand, Landed
<1>5. (WorkTyped /\ FlightTrue /\ WakesAgree /\ SessionsKnown /\ EventsKnown /\ DealtRunsFollow)'
  BY <1>1, <1>2, <1>4, WorkMoves
<1> QED BY <1>3, <1>5 DEF RuntimesInvariant

LEMMA ApplyFetchHolds ==
    ASSUME RuntimesInvariant, ApplyFetch
    PROVE  RuntimesInvariant'
<1>1. PICK e : e = flight.entry
  OBVIOUS
<1>2. PICK s : s = said[e].session
  OBVIOUS
<1>3. PICK of : of = {r \in Runs : s # 0 /\ runs[r].session = s}
  OBVIOUS
<1>4. PICK hit : hit = {r \in of : runs[r].agent = entries[e].agent}
  OBVIOUS
<1>5. /\ flight.pc = "call" /\ e \in Events
      /\ runs' = [r \in Runs |-> IF r \in hit THEN [runs[r] EXCEPT !.state = provider[s].state] ELSE runs[r]]
      /\ strayed' = strayed \cup {<<"missed", r>> : r \in of \ hit}
      /\ flight' = Landing(e, "delivered")
      /\ UNCHANGED <<configs, wakings, entries, routes, provider, said, carried, asking, reached, setup>>
  BY <1>1, <1>2, <1>3, <1>4 DEF ApplyFetch, outside
<1>6. e \in Ids /\ entries[e].status = "pending" /\ e \notin Runs /\ e \notin Wakes
  BY <1>1, <1>5, Distinct DEF RuntimesInvariant, FlightTrue
<1>7. flight' \in FlightRow /\ flight'.entry = e /\ flight'.pc = "settle" /\ flight'.outcome = "delivered"
  BY <1>5, <1>6, Landed
<1>8. s \in SomeSession /\ (s # 0 => provider[s].state # "none" /\ provider[s] \in SessionRow)
  BY <1>2, <1>5 DEF RuntimesInvariant, WorkTyped, EventRow, EventsKnown, SomeSession
<1>9. \A r \in hit : r \in Runs /\ s # 0 /\ runs[r].session = s
  BY <1>3, <1>4
<1>10. \A r \in Runs : r \notin hit => runs'[r] = runs[r]
  BY <1>5
<1>11. ASSUME NEW r \in hit
       PROVE  /\ runs'[r] \in RunRow /\ runs'[r].session = runs[r].session
              /\ runs'[r].state = provider[s].state /\ runs'[r].state # "none"
  <2>1. runs[r] \in RunRow /\ r \in Runs
    BY <1>9 DEF RuntimesInvariant, WorkTyped
  <2>2. provider[s].state \in {"running", "idle", "terminated"}
    BY <1>8, <1>9 DEF SessionRow
  <2>3. PICK st : st = provider[s].state
    OBVIOUS
  <2>4. runs'[r] = [runs[r] EXCEPT !.state = st]
    BY <1>5, <2>1, <2>3
  <2> QED BY <2>1, <2>2, <2>3, <2>4 DEF RunRow
<1>12. runs' \in [Runs -> RunRow]
  <2>1. \A r \in Runs : runs'[r] \in RunRow
    BY <1>10, <1>11 DEF RuntimesInvariant, WorkTyped
  <2> QED BY <1>5, <2>1
<1>13. strayed \subseteq strayed'
  BY <1>5
<1>15. (ConfigsTyped /\ ProofsStand /\ RoutesStand)'
  <2>1. setup' \in SetupRow
    BY <1>5 DEF RuntimesInvariant, ConfigsTyped
  <2> QED BY <1>5, <1>13, <2>1, ConfigsUntouched
<1>16. WorkTyped' /\ WakesAgree'
  BY <1>5, <1>7, <1>12 DEF RuntimesInvariant, WorkTyped, WakesAgree
<1>17. FlightTrue'
  <2>1. \A id \in Ids : entries[id].status # "none" => entries[id].agent \in Agents
    BY DEF RuntimesInvariant, FlightTrue
  <2> QED BY <1>5, <1>6, <1>7, <2>1 DEF FlightTrue
<1>18. (SessionsKnown /\ EventsKnown)'
  <2>1. \A r \in Runs : /\ runs'[r].session = runs[r].session
                        /\ runs[r].state # "none" => runs'[r].state # "none"
    BY <1>10, <1>11
  <2> QED BY <1>5, <1>7, <1>13, <2>1, SessionsKept
<1>19. DealtRunsFollow'
  <2> SUFFICES ASSUME NEW x \in Events, NEW r \in Runs, DealtWith(x)',
                      runs'[r].session # 0, runs'[r].session = said[x].session,
                      said[x].change = provider[said[x].session].change
               PROVE  runs'[r].state = provider[said[x].session].state \/ <<"missed", r>> \in strayed'
    BY <1>5 DEF DealtRunsFollow, Follows
  <2>1. CASE r \in hit
    BY <1>9, <1>11, <2>1
  <2>2. CASE r \notin hit
    <3>1. runs'[r] = runs[r]
      BY <1>10, <2>2
    <3>2. CASE x = e
      <4>1. r \in of
        BY <1>2, <1>3, <3>1, <3>2
      <4> QED BY <1>5, <2>2, <4>1
    <3>3. CASE x # e
      <4>1. DealtWith(x)
        BY <1>5, <1>7, <3>3 DEF DealtWith
      <4>2. Follows(x, r)
        BY <4>1 DEF RuntimesInvariant, DealtRunsFollow
      <4> QED BY <1>13, <3>1, <4>2 DEF Follows
    <3> QED BY <3>2, <3>3
  <2> QED BY <2>1, <2>2
<1> QED BY <1>15, <1>16, <1>17, <1>18, <1>19 DEF RuntimesInvariant

LEMMA CustomWakeHolds ==
    ASSUME RuntimesInvariant, NEW w \in Wakes, DispatchCustomRuntimeWake(w)
    PROVE  RuntimesInvariant'
<1>1. /\ flight.pc = "idle" /\ entries[w].status = "pending"
      /\ flight' = Taking(w, "call") \/ flight' = Landing(w, "permanent")
      /\ UNCHANGED <<configs, runs, wakings, entries, routes, provider, said, carried, asking, reached, strayed, setup>>
  BY DEF DispatchCustomRuntimeWake, Pending, outside, runtimeRows
<1>2. w \in Ids /\ w \notin Runs /\ runs \in [Runs -> RunRow]
  BY Distinct DEF Ids, RuntimesInvariant, WorkTyped
<1>3. (ConfigsTyped /\ ProofsStand /\ RoutesStand)'
  <2>1. setup' \in SetupRow
    BY <1>1 DEF RuntimesInvariant, ConfigsTyped
  <2> QED BY <1>1, <2>1, ConfigsUntouched
<1>4. /\ flight' \in FlightRow /\ flight'.entry = w /\ flight'.pc \in {"call", "settle"}
      /\ flight'.pc = "settle" => flight'.outcome = "permanent"
  BY <1>1, <1>2, TakenInHand, Landed
<1>5. (WorkTyped /\ FlightTrue /\ WakesAgree /\ SessionsKnown /\ EventsKnown /\ DealtRunsFollow)'
  BY <1>1, <1>2, <1>4, WorkMoves
<1> QED BY <1>3, <1>5 DEF RuntimesInvariant

LEMMA DeliverWakeHolds ==
    ASSUME RuntimesInvariant, NEW outcome \in {"delivered", "retry", "permanent"}, DeliverCustomWake(outcome)
    PROVE  RuntimesInvariant'
<1>1. PICK w : w = flight.entry
  OBVIOUS
<1>2. /\ flight.pc = "call" /\ w \in Wakes /\ flight' = Landing(w, outcome)
      /\ wakings' = IF outcome = "delivered" THEN [wakings EXCEPT ![w].state = "delivered"] ELSE wakings
      /\ reached' = IF outcome = "delivered" THEN reached \cup {w} ELSE reached
      /\ UNCHANGED <<configs, runs, entries, routes, provider, said, carried, asking, strayed>>
  BY <1>1 DEF DeliverCustomWake, outside
<1>3. w \in Ids /\ entries[w].status = "pending" /\ w \notin Runs /\ w \notin Events
  BY <1>1, <1>2, Distinct DEF RuntimesInvariant, FlightTrue
<1>4. flight' \in FlightRow /\ flight'.entry = w /\ flight'.pc = "settle" /\ flight'.outcome = outcome
  BY <1>2, <1>3, Landed
<1>5. setup' \in SetupRow
  <2>1. setup \in SetupRow
    BY DEF RuntimesInvariant, ConfigsTyped
  <2>2. CASE outcome = "delivered"
    BY <2>1, <2>2 DEF DeliverCustomWake
  <2>3. CASE outcome # "delivered"
    <3>1. Use("refusals")
      BY <2>3 DEF DeliverCustomWake, Use
    <3> QED BY <2>1, <3>1, SetupUsed
  <2> QED BY <2>2, <2>3
<1>6. (ConfigsTyped /\ ProofsStand /\ RoutesStand)'
  BY <1>2, <1>5, ConfigsUntouched
<1>7. /\ wakings' \in [Wakes -> WakeRow]
      /\ \A v \in Wakes : wakings'[v].state = IF v = w /\ outcome = "delivered" THEN "delivered" ELSE wakings[v].state
  BY <1>2 DEF RuntimesInvariant, WorkTyped, WakeRow
<1>8. WorkTyped'
  BY <1>2, <1>4, <1>7 DEF RuntimesInvariant, WorkTyped
<1>9. FlightTrue'
  <2>1. \A id \in Ids : entries[id].status # "none" => entries[id].agent \in Agents
    BY DEF RuntimesInvariant, FlightTrue
  <2> QED BY <1>2, <1>3, <1>4, <1>7, <2>1 DEF FlightTrue
<1>10. WakesAgree'
  <2>1. ASSUME NEW v \in Wakes
        PROVE  /\ wakings'[v].state = "delivered" => v \in reached'
               /\ wakings'[v].state = "dead" <=> entries[v].status = "dead"
               /\ entries[v].status = "delivered" => wakings'[v].state = "delivered"
    <3>1. /\ wakings[v].state = "delivered" => v \in reached
          /\ wakings[v].state = "dead" <=> entries[v].status = "dead"
          /\ entries[v].status = "delivered" => wakings[v].state = "delivered"
      BY DEF RuntimesInvariant, WakesAgree
    <3>2. CASE v = w /\ outcome = "delivered"
      BY <1>2, <1>3, <1>7, <3>2
    <3>3. CASE ~(v = w /\ outcome = "delivered")
      BY <1>2, <1>7, <3>1, <3>3
    <3> QED BY <3>2, <3>3
  <2> QED BY <1>2, <2>1 DEF WakesAgree
<1>11. (SessionsKnown /\ EventsKnown)'
  BY <1>2, <1>4, SessionsKept
<1>12. DealtRunsFollow'
  <2> SUFFICES ASSUME NEW x \in Events, NEW r \in Runs, DealtWith(x)' PROVE Follows(x, r)'
    BY DEF DealtRunsFollow
  <2>1. DealtWith(x)
    BY <1>2, <1>3, <1>4 DEF DealtWith
  <2>2. Follows(x, r)
    BY <2>1 DEF RuntimesInvariant, DealtRunsFollow
  <2> QED BY <1>2, <2>2 DEF Follows
<1> QED BY <1>6, <1>8, <1>9, <1>10, <1>11, <1>12 DEF RuntimesInvariant

(* What a token writes while no call of an owner moves. *)
LEMMA TokenTaken ==
    ASSUME RuntimesInvariant, NEW a, NEW read \in ConfigRow, TokenGranted(a, read) \/ TokenRefused(a, read),
           UNCHANGED <<routes, asking>>, setup' \in SetupRow,
           \A b \in Agents : <<"overtaken", b>> \in strayed => <<"overtaken", b>> \in strayed',
           \A q \in Pairs : <<"crossed", q>> \in strayed => <<"crossed", q>> \in strayed'
    PROVE  (ConfigsTyped /\ ProofsStand /\ RoutesStand)'
<1>1. /\ asking' \in [OwnerCalls -> AskRow] /\ configs \in [Agents -> ConfigRow]
      /\ \A c \in OwnerCalls : asking[c].pc \in {"token", "answer"} => asking[c].agent \in Agents
  BY DEF RuntimesInvariant, ConfigsTyped, ProofsStand, ReadBefore
<1>2. /\ configs' \in [Agents -> ConfigRow]
      /\ \A b \in Agents :
            /\ configs'[b].kind = configs[b].kind /\ configs'[b].pair = configs[b].pair
            /\ configs'[b].made = configs[b].made /\ configs'[b].resource = configs[b].resource
            /\ configs'[b].webhook = configs[b].webhook /\ configs'[b].deployment = configs[b].deployment
            /\ configs'[b].status \in {configs[b].status, "disconnected"}
  BY <1>1, TokenKeeps
<1> QED BY <1>1, <1>2, ConfigsKept

LEMMA Requeues ==
    ASSUME RuntimesInvariant, NEW id, id \in Runs => runs[id].session = 0, Requeued(id)
    PROVE  /\ runs' \in [Runs -> RunRow]
           /\ \A r \in Runs :
                 /\ runs'[r].session = runs[r].session
                 /\ runs'[r].state = runs[r].state \/ (runs[r].session = 0 /\ runs'[r].state # "none")
<1>1. CASE id \in Runs
  <2>1. runs' = [runs EXCEPT ![id].state = "queued"]
    BY <1>1 DEF Requeued
  <2> QED BY <1>1, <2>1 DEF RuntimesInvariant, WorkTyped, RunRow
<1>2. CASE id \notin Runs
  BY <1>2 DEF Requeued, RuntimesInvariant, WorkTyped
<1> QED BY <1>1, <1>2

LEMMA FlightTokenHolds ==
    ASSUME RuntimesInvariant, FlightToken
    PROVE  RuntimesInvariant'
<1>1. PICK id : id = flight.entry
  OBVIOUS
<1>2. PICK a : a = entries[id].agent
  OBVIOUS
<1>3. PICK read : read = flight.read
  OBVIOUS
<1>4. /\ flight.pc = "token" /\ flight \in FlightRow /\ read \in ConfigRow
      /\ id \in Ids /\ entries[id].status = "pending" /\ (id \in Runs => runs[id].session = 0)
  BY <1>1, <1>3 DEF FlightToken, RuntimesInvariant, FlightTrue, WorkTyped, FlightRow
<1>5. UNCHANGED <<wakings, entries, routes, provider, said, carried, asking, reached, strayed>>
  BY DEF FlightToken, outside
<1>6. CASE TokenGranted(a, read) /\ flight' = [flight EXCEPT !.pc = "call"] /\ UNCHANGED <<runs, setup>>
  <2>1. flight' \in FlightRow /\ flight'.pc = "call" /\ flight'.entry = id
    BY <1>1, <1>4, <1>6 DEF FlightRow
  <2>2. runs' \in [Runs -> RunRow] /\ setup' \in SetupRow
    BY <1>6 DEF RuntimesInvariant, WorkTyped, ConfigsTyped
  <2>3. (ConfigsTyped /\ ProofsStand /\ RoutesStand)'
    BY <1>4, <1>5, <1>6, <2>2, TokenTaken
  <2>4. (WorkTyped /\ FlightTrue /\ WakesAgree /\ SessionsKnown /\ EventsKnown /\ DealtRunsFollow)'
    BY <1>4, <1>5, <1>6, <2>1, <2>2, WorkMoves
  <2> QED BY <2>3, <2>4 DEF RuntimesInvariant
<1>7. CASE Use("refusals") /\ TokenRefused(a, read) /\ Requeued(id) /\ flight' = Landing(id, "retry")
  <2>1. flight' \in FlightRow /\ flight'.pc = "settle" /\ flight'.entry = id /\ flight'.outcome = "retry"
    BY <1>4, <1>7, Landed
  <2>2. setup' \in SetupRow
    BY <1>7, SetupUsed DEF RuntimesInvariant, ConfigsTyped
  <2>3. /\ runs' \in [Runs -> RunRow]
        /\ \A r \in Runs :
              /\ runs'[r].session = runs[r].session
              /\ runs'[r].state = runs[r].state \/ (runs[r].session = 0 /\ runs'[r].state # "none")
    BY <1>4, <1>7, Requeues
  <2>4. (ConfigsTyped /\ ProofsStand /\ RoutesStand)'
    BY <1>4, <1>5, <1>7, <2>2, TokenTaken
  <2>5. (WorkTyped /\ FlightTrue /\ WakesAgree /\ SessionsKnown /\ EventsKnown /\ DealtRunsFollow)'
    BY <1>4, <1>5, <2>1, <2>3, WorkMoves
  <2> QED BY <2>4, <2>5 DEF RuntimesInvariant
<1> QED BY <1>1, <1>2, <1>3, <1>6, <1>7 DEF FlightToken

LEMMA FlightFailsHolds ==
    ASSUME RuntimesInvariant, FlightFails
    PROVE  RuntimesInvariant'
<1>1. PICK id : id = flight.entry
  OBVIOUS
<1>2. /\ flight.pc \in {"call", "made"} /\ Use("faults") /\ Requeued(id) /\ flight' = Landing(id, "retry")
      /\ strayed' = IF flight.pc = "made" THEN strayed \cup {<<"lost", id>>} ELSE strayed
      /\ UNCHANGED <<configs, wakings, entries, routes, provider, said, carried, asking, reached>>
  BY <1>1 DEF FlightFails, outside
<1>3. id \in Ids /\ entries[id].status = "pending" /\ (id \in Runs => runs[id].session = 0)
  BY <1>1, <1>2 DEF RuntimesInvariant, FlightTrue
<1>4. flight' \in FlightRow /\ flight'.pc = "settle" /\ flight'.entry = id /\ flight'.outcome = "retry"
  BY <1>2, <1>3, Landed
<1>5. setup' \in SetupRow
  BY <1>2, SetupUsed DEF RuntimesInvariant, ConfigsTyped
<1>6. strayed \subseteq strayed' /\ (flight.pc = "made" => <<"lost", id>> \in strayed')
  BY <1>2
<1>7. /\ runs' \in [Runs -> RunRow]
      /\ \A r \in Runs :
            /\ runs'[r].session = runs[r].session
            /\ runs'[r].state = runs[r].state \/ (runs[r].session = 0 /\ runs'[r].state # "none")
  BY <1>2, <1>3, Requeues
<1>8. (ConfigsTyped /\ ProofsStand /\ RoutesStand)'
  BY <1>2, <1>5, <1>6, ConfigsUntouched
<1>9. (WorkTyped /\ FlightTrue /\ WakesAgree /\ SessionsKnown /\ EventsKnown /\ DealtRunsFollow)'
  BY <1>1, <1>2, <1>3, <1>4, <1>6, <1>7, WorkMoves
<1> QED BY <1>8, <1>9 DEF RuntimesInvariant

LEMMA ReconcileStarts ==
    ASSUME RuntimesInvariant, ReconcileCloudRuntimes
    PROVE  RuntimesInvariant'
<1>1. PICK todo : todo = {r \in Runs : runs[r].state \in Open}
  OBVIOUS
<1>2. PICK ground : ground = Grounded
  OBVIOUS
<1>3. ground \in FlightRow
  BY <1>2, EmptyRows
<1>4. /\ flight.pc = "idle" /\ Use("reconciliations")
      /\ flight' = [ground EXCEPT !.pc = "reconciling", !.todo = todo]
      /\ UNCHANGED <<configs, runs, wakings, entries, routes, provider, said, carried, asking, reached, strayed>>
  BY <1>1, <1>2 DEF ReconcileCloudRuntimes, outside, runtimeRows
<1>5. flight' \in FlightRow /\ flight'.pc = "reconciling"
  <2>1. todo \subseteq Runs
    BY <1>1
  <2> QED BY <1>3, <1>4, <2>1 DEF FlightRow
<1>6. setup' \in SetupRow /\ runs' \in [Runs -> RunRow]
  BY <1>4, SetupUsed DEF RuntimesInvariant, ConfigsTyped, WorkTyped
<1>7. (ConfigsTyped /\ ProofsStand /\ RoutesStand)'
  BY <1>4, <1>6, ConfigsUntouched
<1>8. (WorkTyped /\ FlightTrue /\ WakesAgree /\ SessionsKnown /\ EventsKnown /\ DealtRunsFollow)'
  BY <1>4, <1>5, <1>6, WorkMoves
<1> QED BY <1>7, <1>8 DEF RuntimesInvariant

(* The handler is done with reconciling. *)
LEMMA ReconcileDone ==
    ASSUME RuntimesInvariant, flight.pc = "reconciling", flight' = Grounded,
           UNCHANGED <<configs, runs, wakings, entries, routes, provider, said, carried, asking, reached, strayed, setup>>
    PROVE  RuntimesInvariant'
<1>1. flight' \in FlightRow /\ flight'.pc = "idle"
  BY GroundedRow
<1>2. setup' \in SetupRow /\ runs' \in [Runs -> RunRow]
  BY DEF RuntimesInvariant, ConfigsTyped, WorkTyped
<1>3. (ConfigsTyped /\ ProofsStand /\ RoutesStand)'
  BY <1>2, ConfigsUntouched
<1>4. (WorkTyped /\ FlightTrue /\ WakesAgree /\ SessionsKnown /\ EventsKnown /\ DealtRunsFollow)'
  BY <1>1, <1>2, WorkMoves
<1> QED BY <1>3, <1>4 DEF RuntimesInvariant

LEMMA ReconcileRunHolds ==
    ASSUME RuntimesInvariant, NEW r \in Runs, ReconcileRun(r)
    PROVE  RuntimesInvariant'
<1>1. flight.pc = "reconciling" /\ UNCHANGED <<wakings, entries, routes, provider, said, carried, asking, reached, setup>>
  BY DEF ReconcileRun, outside
<1>2. CASE Claude(runs[r].agent) /\ runs[r].session # 0
  <2>1. PICK a : a = runs[r].agent
    OBVIOUS
  <2>2. PICK s : s = runs[r].session
    OBVIOUS
  <2>3. PICK read : read = configs[a]
    OBVIOUS
  <2>4. /\ runs' = [runs EXCEPT ![r].state = provider[s].state]
        /\ TokenGranted(a, read)
        /\ strayed' = strayed \ {<<"missed", r>>}
        /\ flight' = [flight EXCEPT !.todo = @ \ {r}]
    BY <1>2, <2>1, <2>2, <2>3 DEF ReconcileRun
  <2>5. s \in Sessions /\ provider[s] \in SessionRow /\ provider[s].state # "none"
    <3>1. s \in Sessions
      BY <1>2, <2>2 DEF RuntimesInvariant, WorkTyped, RunRow, SomeSession
    <3>2. provider[s].run \in {r, "manual"} /\ r # "none"
      BY <1>2, <2>2, RuntimesAssumption DEF RuntimesInvariant, SessionsKnown
    <3>3. provider[s].state # "none"
      BY <3>1, <3>2 DEF RuntimesInvariant, SessionsKnown
    <3> QED BY <3>1, <3>3 DEF RuntimesInvariant, WorkTyped
  <2>6. /\ runs' \in [Runs -> RunRow] /\ runs'[r].state = provider[s].state
        /\ \A q \in Runs : runs'[q].session = runs[q].session /\ (q # r => runs'[q] = runs[q])
    <3>1. PICK st : st = provider[s].state
      OBVIOUS
    <3>2. st \in {"running", "idle", "terminated"}
      BY <2>5, <3>1 DEF SessionRow
    <3>3. runs' = [runs EXCEPT ![r].state = st]
      BY <2>4, <3>1
    <3> QED BY <3>1, <3>2, <3>3 DEF RuntimesInvariant, WorkTyped, RunRow
  <2>7. flight' \in FlightRow /\ flight'.pc = "reconciling"
    BY <1>1, <2>4 DEF RuntimesInvariant, WorkTyped, FlightRow
  <2>8. /\ \A q \in Runs : <<"lost", q>> \in strayed => <<"lost", q>> \in strayed'
        /\ \A q \in Runs : q # r /\ <<"missed", q>> \in strayed => <<"missed", q>> \in strayed'
        /\ \A b \in Agents : <<"overtaken", b>> \in strayed => <<"overtaken", b>> \in strayed'
        /\ \A q \in Pairs : <<"crossed", q>> \in strayed => <<"crossed", q>> \in strayed'
    BY <2>4
  <2>9. (ConfigsTyped /\ ProofsStand /\ RoutesStand)'
    <3>1. setup' \in SetupRow
      BY <1>1 DEF RuntimesInvariant, ConfigsTyped
    <3>2. CASE TokenGranted(a, read) /\ read.failures > 0 /\ a \in Agents
      <4>1. read \in ConfigRow
        BY <2>3, <3>2 DEF RuntimesInvariant, ConfigsTyped
      <4> QED BY <1>1, <2>4, <2>8, <3>1, <4>1, TokenTaken
    <3>3. CASE configs' = configs
      BY <1>1, <2>8, <3>1, <3>3, ConfigsUntouched
    <3>4. a \notin Agents => configs' = configs
      BY <2>4 DEF TokenGranted, RuntimesInvariant, ConfigsTyped
    <3> QED BY <2>4, <3>2, <3>3, <3>4 DEF TokenGranted
  <2>10. WorkTyped' /\ WakesAgree'
    BY <1>1, <2>6, <2>7 DEF RuntimesInvariant, WorkTyped, WakesAgree
  <2>11. FlightTrue'
    <3>1. \A id \in Ids : entries[id].status # "none" => entries[id].agent \in Agents
      BY DEF RuntimesInvariant, FlightTrue
    <3> QED BY <1>1, <2>7, <3>1 DEF FlightTrue
  <2>12. (SessionsKnown /\ EventsKnown)'
    <3>1. \A q \in Runs : runs[q].state # "none" => runs'[q].state # "none"
      BY <2>5, <2>6
    <3> QED BY <1>1, <2>6, <2>7, <2>8, <3>1, SessionsKept
  <2>13. DealtRunsFollow'
    <3> SUFFICES ASSUME NEW x \in Events, NEW q \in Runs, DealtWith(x)' PROVE Follows(x, q)'
      BY DEF DealtRunsFollow
    <3>1. DealtWith(x)
      BY <1>1, <2>7 DEF DealtWith
    <3>2. Follows(x, q)
      BY <3>1 DEF RuntimesInvariant, DealtRunsFollow
    <3>3. CASE q = r
      BY <1>1, <2>2, <2>6, <3>3 DEF Follows
    <3>4. CASE q # r
      BY <1>1, <2>6, <2>8, <3>2, <3>4 DEF Follows
    <3> QED BY <3>3, <3>4
  <2> QED BY <2>9, <2>10, <2>11, <2>12, <2>13 DEF RuntimesInvariant
<1>3. CASE ~(Claude(runs[r].agent) /\ runs[r].session # 0)
  BY <1>1, <1>3, ReconcileDone DEF ReconcileRun
<1> QED BY <1>2, <1>3

LEMMA ReconcileEndsHolds ==
    ASSUME RuntimesInvariant, ReconcileEnds
    PROVE  RuntimesInvariant'
BY ReconcileDone DEF ReconcileEnds, outside, runtimeRows

LEMMA RestartHolds ==
    ASSUME RuntimesInvariant, RestartRuntimes
    PROVE  RuntimesInvariant'
<1>1. /\ Use("faults") /\ asking' = [c \in OwnerCalls |-> NoAsking] /\ flight' = Grounded
      /\ UNCHANGED <<configs, runs, wakings, entries, routes, provider, said, carried, reached>>
  BY DEF RestartRuntimes, outside, runtimeRows
<1>2. asking' \in [OwnerCalls -> AskRow] /\ \A c \in OwnerCalls : asking'[c].pc = "idle"
  BY <1>1, EmptyRows DEF NoAsking
<1>3. flight' \in FlightRow /\ flight'.pc = "idle"
  BY <1>1, GroundedRow
<1>4. /\ strayed \subseteq strayed'
      /\ \A c \in OwnerCalls : asking[c].pc = "routing" => <<"crossed", asking[c].read.pair>> \in strayed'
      /\ flight.pc = "made" => <<"lost", flight.entry>> \in strayed'
  BY DEF RestartRuntimes
<1>5. setup' \in SetupRow /\ runs' \in [Runs -> RunRow] /\ configs' \in [Agents -> ConfigRow]
  BY <1>1, SetupUsed DEF RuntimesInvariant, ConfigsTyped, WorkTyped
<1>6. (ConfigsTyped /\ ProofsStand /\ RoutesStand)'
  BY <1>1, <1>2, <1>4, <1>5, ConfigsKept
<1>7. (WorkTyped /\ FlightTrue /\ WakesAgree /\ SessionsKnown /\ EventsKnown /\ DealtRunsFollow)'
  BY <1>1, <1>2, <1>3, <1>4, <1>5, WorkMoves
<1> QED BY <1>6, <1>7 DEF RuntimesInvariant

-----------------------------------------------------------------------------

LEMMA ConfigureStepHolds ==
    ASSUME RuntimesInvariant, ConfigureStep
    PROVE  RuntimesInvariant'
<1>1. setup.agents \subseteq Agents /\ setup.callers \subseteq OwnerCalls /\ setup.pairs \subseteq Pairs
  BY DEF RuntimesInvariant, ConfigsTyped, SetupRow
<1>2. CASE \E a \in setup.agents : ConfigureCustomRuntime(a)
  BY <1>1, <1>2, ConfigureCustomHolds
<1>3. CASE \E a \in setup.agents, c \in setup.callers, p \in setup.pairs : StoreClaude(c, a, p)
  BY <1>1, <1>3, StoreClaudeHolds
<1>4. CASE \E a \in setup.agents, c \in setup.callers : SelectAgentRuntime(c, a)
  BY <1>1, <1>4, SelectAgentHolds
<1>5. CASE \E c \in OwnerCalls : RouteClaude(c) \/ ForgetRuntimeWebhookRoute(c)
  BY <1>5, RouteClaudeHolds, ForgetRouteHolds
<1> QED BY <1>2, <1>3, <1>4, <1>5 DEF ConfigureStep

LEMMA AskStepHolds ==
    ASSUME RuntimesInvariant, AskStep
    PROVE  RuntimesInvariant'
<1>1. PICK c \in setup.callers :
         \/ \E a \in Agents, what \in {"prove", "schedule", "manual"} \cap setup.does : AskProvider(c, a, what)
         \/ OwnerToken(c) \/ ProveClaudeRuntimeResources(c) \/ CreateClaudeSchedule(c) \/ FailCall(c)
         \/ \E s \in Sessions : DeployManualRun(c, s)
         \/ \E r \in Runs : StartManualClaudeRun(c, r)
  BY DEF AskStep
<1>2. c \in OwnerCalls
  BY <1>1 DEF RuntimesInvariant, ConfigsTyped, SetupRow
<1>3. CASE \E a \in Agents, what \in {"prove", "schedule", "manual"} \cap setup.does : AskProvider(c, a, what)
  <2>1. PICK a \in Agents, what \in {"prove", "schedule", "manual"} : AskProvider(c, a, what)
    BY <1>3
  <2> QED BY <1>2, <2>1, AskProviderHolds
<1>4. CASE OwnerToken(c) \/ ProveClaudeRuntimeResources(c) \/ CreateClaudeSchedule(c) \/ FailCall(c)
  BY <1>2, <1>4, OwnerTokenHolds, ProveHolds, ScheduleHolds, FailCallHolds
<1>5. CASE (\E s \in Sessions : DeployManualRun(c, s)) \/ (\E r \in Runs : StartManualClaudeRun(c, r))
  BY <1>2, <1>5, DeployHolds, StartManualHolds
<1> QED BY <1>1, <1>3, <1>4, <1>5

LEMMA ProviderStepHolds ==
    ASSUME RuntimesInvariant, ProviderStep
    PROVE  RuntimesInvariant'
<1>1. PICK e \in setup.events :
         \/ \E s \in Sessions, state \in {"running", "idle", "terminated"} : ProviderMoves(s, e, state)
         \/ "hooks" \in setup.does /\ \E p \in setup.pairs : ProviderSays(e, p)
         \/ HandleRuntimeGatewayRequest(e)
         \/ \E a \in Agents : AcceptAnthropicWebhook(e, a)
  BY DEF ProviderStep
<1>2. e \in Events /\ setup.pairs \subseteq Pairs
  BY <1>1 DEF RuntimesInvariant, ConfigsTyped, SetupRow
<1> QED BY <1>1, <1>2, ProviderMovesHolds, ProviderSaysHolds, GatewayHolds, AcceptHolds

LEMMA FlightStepHolds ==
    ASSUME RuntimesInvariant, FlightStep
    PROVE  RuntimesInvariant'
<1>1. CASE \E r \in Runs : DispatchCloudRuntimeMention(r) \/ ReconcileRun(r)
  BY <1>1, DispatchMentionHolds, ReconcileRunHolds
<1>2. CASE \/ \E e \in Events : DispatchAnthropicResourceFetch(e)
           \/ \E w \in Wakes : DispatchCustomRuntimeWake(w)
           \/ \E s \in Sessions : MakeSession(s)
           \/ \E outcome \in {"delivered", "retry", "permanent"} : DeliverCustomWake(outcome)
  BY <1>2, FetchHolds, CustomWakeHolds, MakeSessionHolds, DeliverWakeHolds
<1>3. CASE \/ FlightToken \/ FlightFails \/ BindSession \/ ApplyFetch \/ Settle
           \/ ReconcileCloudRuntimes \/ ReconcileEnds
  BY <1>3, FlightTokenHolds, FlightFailsHolds, BindSessionHolds, ApplyFetchHolds, SettleHolds, ReconcileStarts,
     ReconcileEndsHolds
<1> QED BY <1>1, <1>2, <1>3 DEF FlightStep

LEMMA RuntimesStep == RuntimesInvariant /\ [RuntimesNext]_runtimeVars => RuntimesInvariant'
<1> SUFFICES ASSUME RuntimesInvariant, [RuntimesNext]_runtimeVars PROVE RuntimesInvariant'
  OBVIOUS
<1>1. CASE "mention" \in setup.does /\ \E a \in Agents : RecordRuntimeWake(a)
  BY <1>1, RecordWakeHolds
<1>2. CASE "delete" \in setup.does /\ \E r \in Runs : DeleteOrigin(r)
  BY <1>2, DeleteOriginHolds
<1>3. CASE ConfigureStep \/ AskStep \/ ProviderStep \/ FlightStep \/ RestartRuntimes
  BY <1>3, ConfigureStepHolds, AskStepHolds, ProviderStepHolds, FlightStepHolds, RestartHolds
<1>4. CASE UNCHANGED runtimeVars
  <2>1. UNCHANGED <<configs, runs, wakings, entries, routes, provider, said, carried, asking, flight, reached, strayed,
                    setup>>
    BY <1>4 DEF runtimeVars, runtimeRows, outside
  <2>2. setup' \in SetupRow
    BY <2>1 DEF RuntimesInvariant, ConfigsTyped
  <2>3. (ConfigsTyped /\ ProofsStand /\ RoutesStand)'
    BY <2>1, <2>2, ConfigsUntouched
  <2>4. (WorkTyped /\ FlightTrue /\ WakesAgree /\ SessionsKnown /\ EventsKnown /\ DealtRunsFollow)'
    BY <2>1, WorkUntouched
  <2> QED BY <2>3, <2>4 DEF RuntimesInvariant
<1> QED BY <1>1, <1>2, <1>3, <1>4 DEF RuntimesNext

LEMMA RuntimesAreHeld == RuntimesInvariant => RuntimesHold
<1> SUFFICES ASSUME RuntimesInvariant PROVE RuntimesHold
  OBVIOUS
<1>1. ASSUME NEW r \in Runs, <<"lost", r>> \notin strayed
      PROVE  ~(Cardinality({s \in Sessions : provider[s].run = r}) > 1)
  <2>1. PICK u : u = IF flight.pc = "made" /\ flight.entry = r THEN flight.session ELSE runs[r].session
    OBVIOUS
  <2>2. flight.pc = "made" /\ flight.entry = r => runs[r].session = 0
    BY DEF RuntimesInvariant, FlightTrue
  <2>3. ASSUME NEW s \in Sessions, provider[s].run = r PROVE s = u
    <3>1. s # 0
      BY Distinct
    <3>2. runs[r].session = s \/ (flight.pc = "made" /\ flight.entry = r /\ flight.session = s)
      BY <1>1, <2>3 DEF RuntimesInvariant, SessionsKnown
    <3> QED BY <2>1, <2>2, <3>1, <3>2
  <2>4. PICK S : S = {s \in Sessions : provider[s].run = r}
    OBVIOUS
  <2>5. S \subseteq {u}
    BY <2>3, <2>4
  <2>6. IsFiniteSet({u}) /\ Cardinality({u}) = 1
    BY FS_Singleton
  <2>7. IsFiniteSet(S) /\ Cardinality(S) <= Cardinality({u})
    BY <2>5, <2>6, FS_Subset
  <2>8. Cardinality(S) \in Nat
    BY <2>7, FS_CardinalityType
  <2>9. ~(Cardinality(S) > 1)
    BY <2>6, <2>7, <2>8
  <2> QED BY <2>4, <2>9
<1>2. OneSessionEach
  BY <1>1 DEF OneSessionEach, RuntimesInvariant, SessionsKnown
<1>3. RunsFollow
  BY DEF RuntimesInvariant, DealtRunsFollow, DealtWith, Follows, RunsFollow
<1>4. ActiveWhenProved
  BY DEF RuntimesInvariant, ProofsStand, Proved, ActiveWhenProved
<1> QED BY <1>2, <1>3, <1>4 DEF RuntimesInvariant, RuntimesHold

-----------------------------------------------------------------------------
(* The parts together. *)

LEMMA PartsMoveAlone ==
    [Next]_executorVars =>
       /\ [SoloNext]_soloVars /\ [PushesNext]_pushVars /\ [WritesNext]_writeVars
       /\ [RunnersNext]_runnerVars /\ [RuntimesNext]_runtimeVars
<1> SUFFICES ASSUME [Next]_executorVars
             PROVE  /\ [SoloNext]_soloVars /\ [PushesNext]_pushVars /\ [WritesNext]_writeVars
                    /\ [RunnersNext]_runnerVars /\ [RuntimesNext]_runtimeVars
  OBVIOUS
<1>1. CASE UNCHANGED executorVars
  BY <1>1 DEF executorVars
<1>2. CASE SoloStep /\ UNCHANGED <<runnerVars, runtimeVars, pushVars, writeVars>>
  <2>1. SoloNext
    BY <1>2 DEF SoloStep, SoloNext, RelayStep, LeaseStep
  <2> QED BY <1>2, <2>1
<1>3. CASE Next /\ ~SoloStep
  BY <1>3 DEF Next
<1> QED BY <1>1, <1>2, <1>3 DEF Next

LEMMA PartsStart == Init => SoloInit /\ PushesInit /\ WritesInit /\ RunnersInit /\ RuntimesInit
BY DEF Init

(* However frames and snapshots are delayed and repeated, what is routed    *)
(* follows the epochs and goes to the machine that holds the lease, and the *)
(* move to the cloud is made once (designateSoloHost, routeOpaqueFrame,     *)
(* finalizeSoloUpgrade).                                                    *)
THEOREM SoloHeld == Spec => []SoloHolds
<1>1. Init => SoloInvariant
  BY PartsStart, SoloStart
<1>2. SoloInvariant /\ [Next]_executorVars => SoloInvariant'
  BY PartsMoveAlone, SoloKeeps
<1>3. SoloInvariant => SoloHolds
  BY DEF SoloInvariant
<1> QED BY <1>1, <1>2, <1>3, PTL DEF Spec

(* However a dispatch is interrupted and repeated, a browser shows a        *)
(* message once and only to who it is for, and an endpoint that is gone is  *)
(* not used again (dispatchPush, deliverOnePush).                           *)
THEOREM PushesAreKept == Spec => []PushesHold
<1>1. Init => PushInvariant
  BY PartsStart, PushesStart
<1>2. PushInvariant /\ [Next]_executorVars => PushInvariant'
  BY PartsMoveAlone, PushesStep
<1> QED BY <1>1, <1>2, PushesAreHeld, PTL DEF Spec

(* However long a call is under way and whatever changes meanwhile, it      *)
(* writes on grounds that stand, within its window, and once for a key      *)
(* (sendAttributedMcpMessage, submitForm).                                  *)
THEOREM WritesAreKept == Spec => AgentWritesHold
<1>1. Init => WritesInvariant
  BY PartsStart, WritesStart
<1>2. WritesInvariant /\ [Next]_executorVars => WritesInvariant'
  BY PartsMoveAlone, WritesStep
<1>3. WritesInvariant /\ [Next]_executorVars =>
         [\A i \in DOMAIN written' \ DOMAIN written :
            LET r == written'[i].request
            IN  /\ ~HasCanary(r)
                /\ IF r.tool = "submit_form" THEN grounds.standing /\ Takes(r) /\ r.room \in grounds.forms
                   ELSE MayPost(r) /\ r.room \notin grounds.forms]_written
  BY PartsMoveAlone, WrittenOnGrounds
<1> QED BY <1>1, <1>2, <1>3, WritesAreHeld, PTL DEF Spec, AgentWritesHold

(* However connections break, daemons end and machines take over, the       *)
(* daemon that holds a session is the one the workspace thinks of, and a    *)
(* stop reaches it (registerRunner, acceptRunnerSocket, stopAgentRuntime,   *)
(* the daemon's apply_frame).                                               *)
THEOREM RunnersAreKept == Spec => []RunnersHold
<1>1. Init => RunnersInvariant
  BY PartsStart, RunnersStart
<1>2. RunnersInvariant /\ [Next]_executorVars => RunnersInvariant'
  BY PartsMoveAlone, RunnersStep
<1> QED BY <1>1, <1>2, RunnersAreHeld, PTL DEF Spec

(* However configurations, proofs, events, answers and restarts cross, a    *)
(* mention has one session, a run follows the provider, and what counts as  *)
(* proved, routed and delivered is (dispatchCloudRuntimeMention,            *)
(* acceptAnthropicWebhook, proveClaudeRuntimeResources, drainOutbox).       *)
THEOREM RuntimesAreKept == Spec => []RuntimesHold
<1>1. Init => RuntimesInvariant
  BY PartsStart, RuntimesStart
<1>2. RuntimesInvariant /\ [Next]_executorVars => RuntimesInvariant'
  BY PartsMoveAlone, RuntimesStep
<1> QED BY <1>1, <1>2, RuntimesAreHeld, PTL DEF Spec
=============================================================================
