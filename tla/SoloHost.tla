------------------------------ MODULE SoloHost ------------------------------
(***************************************************************************)
(* A Solo workspace keeps its content on one of its owner's machines and   *)
(* the object relays frames to it (designateSoloHost to                    *)
(* finalizeSoloUpgrade in src/cloudflare/workspace.ts; the machine's store *)
(* is src-tauri/src/local_store.rs).  The object names one host by a host  *)
(* epoch and a lease, routes what a sender offers it in the order of its   *)
(* sequence, and takes the content over, once, when the workspace becomes  *)
(* a team's.                                                               *)
(*                                                                         *)
(* Whoever sends frames is external: any frame may be offered at any time, *)
(* late, twice or of an epoch that is over.  So is whoever carries a       *)
(* snapshot from a machine to the next one or to the object: any that was  *)
(* made may arrive, and one that was altered is refused by its checksum.   *)
(* Every call is one transaction; finalizeSoloUpgrade reads what was       *)
(* staged before it waits for the checksum, and that does not change.      *)
(***************************************************************************)
EXTENDS Integers, Sequences, FiniteSets

CONSTANTS
    Hosts,              \* machines of the owner
    Requests,           \* requests of clients; each writes one message
    Imports,            \* import ids
    NoHost              \* SQL NULL

(* Bounds: on host epochs, on sequence numbers, on frames that are routed,  *)
(* on snapshots and on the clock; a lease is granted for one tick or two.   *)
CONSTANTS MaxHostEpoch, MaxRelay, MaxFrames, MaxSnapshots, MaxTicks

ASSUME SoloAssumption ==
    /\ NoHost \notin Hosts
    /\ MaxHostEpoch \in Nat /\ MaxRelay \in Nat /\ MaxFrames \in Nat
    /\ MaxSnapshots \in Nat /\ MaxTicks \in Nat

VARIABLES
    ticks,              \* the object's clock
    hosting,            \* workspace_config
    staged,             \* solo_upgrade_imports and the records that were staged
    cloudRows,          \* messages, in the object
    stores,             \* LocalContentStore of each machine
    snapshots,          \* snapshots that were exported (external)
    relayed,            \* history: the frames that were routed, in that order
    leased             \* history: leases that were granted

soloVars == <<ticks, hosting, staged, cloudRows, stores, snapshots, relayed, leased>>

Directions == {"to_host", "from_host"}
Leases == 1 .. 2
HostEpochs == 0 .. MaxHostEpoch

NoImport == [status |-> "none", epoch |-> 0, rows |-> {}]
Staged(i) == staged[i].status # "none"

-----------------------------------------------------------------------------
(* The machine.  Its store keeps the messages and, for every request it     *)
(* committed, the epoch that request named.                                 *)

EmptyStore == [epoch |-> 0, rows |-> {}, log |-> <<>>]

(* commit_message: what was committed is acknowledged again and changes     *)
(* nothing; a request of another epoch is refused.                          *)
CommitMessage(d, r, e) ==
    /\ r \notin DOMAIN stores[d].log
    /\ stores[d].epoch = e
    /\ r \notin stores[d].rows
    /\ stores' = [stores EXCEPT
          ![d].rows = @ \cup {r},
          ![d].log = [q \in DOMAIN @ \cup {r} |-> IF q = r THEN e ELSE @[q]]]
    /\ UNCHANGED <<ticks, hosting, staged, cloudRows, snapshots, relayed, leased>>

(* set_host_epoch, by a machine that learns that it was designated. *)
SetHostEpoch(d) ==
    /\ hosting.host = d /\ hosting.epoch = stores[d].epoch + 1
    /\ stores' = [stores EXCEPT ![d].epoch = @ + 1]
    /\ UNCHANGED <<ticks, hosting, staged, cloudRows, snapshots, relayed, leased>>

(* SoloStoreSnapshot: the content under its checksum, without the requests. *)
SnapshotOf(store) == [epoch |-> store.epoch, rows |-> store.rows]

(* export_snapshot *)
ExportSnapshot(d) ==
    /\ Cardinality(snapshots) < MaxSnapshots
    /\ snapshots' = snapshots \cup {SnapshotOf(stores[d])}
    /\ UNCHANGED <<ticks, hosting, staged, cloudRows, stores, relayed, leased>>

(* import_snapshot: the content and the epoch are replaced, the requests    *)
(* that were committed are not.                                             *)
ImportSnapshot(d, s) ==
    /\ stores' = [stores EXCEPT ![d].rows = s.rows, ![d].epoch = s.epoch]
    /\ UNCHANGED <<ticks, hosting, staged, cloudRows, snapshots, relayed, leased>>

-----------------------------------------------------------------------------
(* The object. *)

Local == hosting.mode = "local_host"

(* Faulty variant: the lease of the machine before is left to run out. *)
DesignateKeepingLease(d) ==
    /\ Local /\ hosting.epoch < MaxHostEpoch
    /\ hosting' = [hosting EXCEPT !.host = d, !.epoch = @ + 1,
                                  !.sequence = [x \in Directions |-> 0]]
    /\ UNCHANGED <<ticks, staged, cloudRows, stores, snapshots, relayed, leased>>

(* designateSoloHost *)
DesignateSoloHost(d) ==
    /\ Local /\ hosting.epoch < MaxHostEpoch
    /\ hosting' = [hosting EXCEPT !.host = d, !.epoch = @ + 1, !.until = 0,
                                  !.sequence = [x \in Directions |-> 0]]
    /\ UNCHANGED <<ticks, staged, cloudRows, stores, snapshots, relayed, leased>>

(* renewSoloHostLease, called with the moment its caller had. *)
RenewSoloHostLease(d, e, now, ttl) ==
    /\ Local /\ hosting.host = d /\ hosting.epoch = e
    /\ hosting' = [hosting EXCEPT !.until = now + ttl]
    /\ leased' = leased \cup {[host |-> d, epoch |-> e]}
    /\ UNCHANGED <<ticks, staged, cloudRows, stores, snapshots, relayed>>

(* routeOpaqueFrame *)
RouteOpaqueFrame(e, x, n, now) ==
    /\ Len(relayed) < MaxFrames
    /\ Local /\ hosting.host # NoHost
    /\ hosting.epoch = e /\ hosting.until > now
    /\ n > hosting.sequence[x]
    /\ hosting' = [hosting EXCEPT !.sequence[x] = n]
    /\ relayed' = Append(relayed, [epoch |-> e, host |-> hosting.host, direction |-> x,
                                   number |-> n])
    /\ UNCHANGED <<ticks, staged, cloudRows, stores, snapshots, leased>>

(* stageSoloUpgrade: an id that was used stands for what it was used for.   *)
StageSoloUpgrade(i, s) ==
    /\ Local /\ hosting.epoch = s.epoch /\ s.epoch >= 1
    /\ ~Staged(i)
    /\ staged' = [staged EXCEPT ![i] = [status |-> "staged", epoch |-> s.epoch, rows |-> s.rows]]
    /\ UNCHANGED <<ticks, hosting, cloudRows, stores, snapshots, relayed, leased>>

(* Faulty variant: whether the workspace is still a Solo one is not asked. *)
FinalizeAnyMode(i) ==
    /\ staged[i].status = "staged"
    /\ hosting.epoch = staged[i].epoch
    /\ cloudRows' = cloudRows \cup staged[i].rows
    /\ hosting' = [hosting EXCEPT !.mode = "cloud", !.routing = @ + 1, !.host = NoHost, !.until = 0]
    /\ staged' = [staged EXCEPT ![i].status = "complete"]
    /\ UNCHANGED <<ticks, stores, snapshots, relayed, leased>>

(* finalizeSoloUpgrade: one that is complete is answered again. *)
FinalizeSoloUpgrade(i) ==
    /\ staged[i].status = "staged"
    /\ Local /\ hosting.epoch = staged[i].epoch
    /\ cloudRows \cap staged[i].rows = {}
    /\ cloudRows' = cloudRows \cup staged[i].rows
    /\ hosting' = [hosting EXCEPT !.mode = "cloud", !.routing = @ + 1, !.host = NoHost, !.until = 0]
    /\ staged' = [staged EXCEPT ![i].status = "complete"]
    /\ UNCHANGED <<ticks, stores, snapshots, relayed, leased>>

Pass ==
    /\ ticks < MaxTicks
    /\ ticks' = ticks + 1
    /\ UNCHANGED <<hosting, staged, cloudRows, stores, snapshots, relayed, leased>>

-----------------------------------------------------------------------------
SoloInit ==
    /\ ticks = 1
    /\ hosting = [mode |-> "local_host", host |-> NoHost, epoch |-> 0, until |-> 0,
                  sequence |-> [x \in Directions |-> 0], routing |-> 1]
    /\ staged = [i \in Imports |-> NoImport]
    /\ cloudRows = {}
    /\ stores = [d \in Hosts |-> EmptyStore]
    /\ snapshots = {} /\ relayed = <<>> /\ leased = {}

StoreStep ==
    \E d \in Hosts :
       \/ \E r \in Requests, e \in HostEpochs : CommitMessage(d, r, e)
       \/ \E s \in snapshots : ImportSnapshot(d, s)
       \/ SetHostEpoch(d) \/ ExportSnapshot(d)

LeaseStep ==
    \E d \in Hosts :
       \/ DesignateSoloHost(d)
       \/ \E e \in HostEpochs, now \in {ticks - 1, ticks}, ttl \in Leases : RenewSoloHostLease(d, e, now, ttl)

UpgradeStep ==
    \E i \in Imports :
       \/ \E s \in snapshots : StageSoloUpgrade(i, s)
       \/ FinalizeSoloUpgrade(i)

RelayStep ==
    \/ LeaseStep \/ Pass
    \/ \E e \in HostEpochs, x \in Directions, n \in 1 .. MaxRelay, now \in {ticks - 1, ticks} :
          RouteOpaqueFrame(e, x, n, now)

SoloNext == StoreStep \/ RelayStep \/ UpgradeStep

SoloSpec == SoloInit /\ [][SoloNext]_soloVars

-----------------------------------------------------------------------------
(* Properties. *)

(* What is routed follows the epochs, and within one of them each direction *)
(* follows its numbers, however frames are repeated, delayed and overtaken. *)
FramesFollow ==
    \A j, k \in DOMAIN relayed :
       j < k => /\ relayed[j].epoch <= relayed[k].epoch
                /\ relayed[j].epoch = relayed[k].epoch /\ relayed[j].direction = relayed[k].direction
                      => relayed[j].number < relayed[k].number

(* Every frame went to the machine that had been granted a lease of that    *)
(* very epoch, and an epoch is one machine's.                               *)
FramesLeased ==
    /\ \A k \in DOMAIN relayed :
          [host |-> relayed[k].host, epoch |-> relayed[k].epoch] \in leased
    /\ \A g, h \in leased : g.epoch = h.epoch => g.host = h.host

(* The content is taken over once, as a snapshot of the epoch that was the  *)
(* last, and nobody is the host after that.                                 *)
UpgradedOnce ==
    LET done == {i \in Imports : staged[i].status = "complete"}
    IN  /\ Local => done = {} /\ hosting.routing = 1 /\ cloudRows = {}
        /\ ~Local => /\ hosting.routing = 2 /\ hosting.host = NoHost /\ hosting.until = 0
                     /\ \E i \in done : /\ done = {i} /\ cloudRows = staged[i].rows
                                        /\ staged[i].epoch = hosting.epoch
        /\ \A i \in Imports : Staged(i) => SnapshotOf(staged[i]) \in snapshots

(* A host that is replaced, that comes back late or that a snapshot made a  *)
(* second time cannot answer in the place of the host there is              *)
(* (routeOpaqueFrame, designateSoloHost), and the move to the cloud is made *)
(* once, of content that is whole (finalizeSoloUpgrade).                    *)
SoloHolds == FramesFollow /\ FramesLeased /\ UpgradedOnce
=============================================================================
