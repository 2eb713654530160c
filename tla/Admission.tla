------------------------------ MODULE Admission ------------------------------
(***************************************************************************)
(* AWS admission for a fleet: every boot is admitted, and every capacity   *)
(* demand reserved, by one READ COMMITTED transaction under one global     *)
(* lock.  Its counters are read by separate statements, between which the  *)
(* lifecycle moves placements without the lock, computers are deleted and  *)
(* deadlines pass; and it compares deadlines with the time it began, which *)
(* may be long before it got the lock.                                     *)
(*                                                                         *)
(* Refusals that only depend on configuration or on the monthly usage      *)
(* (kill switch, hours, egress, plan) are one nondeterministic refusal.    *)
(* What the ready pool answers to a boot or a reservation is arbitrary.    *)
(***************************************************************************)
EXTENDS Naturals, Sequences, FiniteSets

CONSTANTS
    Computers,   \* computers
    Owner,       \* each computer's user
    Types,       \* instance types
    Vcpu,        \* vCPU of each type
    Offered,     \* the types a computer's plan and choice of size may resolve to
    Deletable,   \* bound: the computers their owners delete
    RegionList,  \* configured regions, in the order a create tries them
    RegionCap,   \* vCPU budget of each region
    Cap,         \* vCPU budget of the fleet
    MaxEpoch,    \* bound: leases of each computer
    MaxWaiting   \* bound: transactions waiting for the lock

Regions == {RegionList[i] : i \in DOMAIN RegionList}
Users == {Owner[c] : c \in Computers}

ASSUME FleetAssumption ==
    /\ IsFiniteSet(Computers)
    /\ Offered \in [Computers -> SUBSET Types] /\ Deletable \subseteq Computers
    /\ "keep" \notin Types
    /\ "none" \notin Types /\ "none" \notin Regions
    /\ MaxEpoch \in [Computers -> Nat] /\ MaxWaiting \in Nat
ASSUME CapsAssumption ==
    /\ Vcpu \in [Types -> Nat \ {0}]
    /\ RegionCap \in [Regions -> Nat] /\ Cap \in Nat

\* FAILED is UNCONFIRMED whose last_error is a failed enrollment; BUSY stands
\* for every other running-class state but RUNNING: admission treats them alike.
State == {"none", "BUSY", "RUNNING", "FAILED", "STOPPED", "RETIRED",
          "PURGE_ELIGIBLE"}
RUNNING_CLASS_STATES == {"BUSY", "RUNNING", "FAILED"}

VARIABLES
    row,      \* each computer's aws-ec2 placement
    demand,   \* each computer's unclosed capacity demand
    deleted,  \* computers that are soft-deleted
    waiting,  \* admission transactions that have begun and wait for the lock
    tx,       \* the transaction that holds the lock
    count     \* the counters it has read

vars == <<row, demand, deleted, waiting, tx, count>>

\* held: an admission let it boot since it was last at rest, so an instance may
\* be running.
NoRow == [state |-> "none", type |-> "none", region |-> "none", epoch |-> 0,
          held |-> FALSE]
Row == [state: State \ {"none"}, type: Types, region: Regions, epoch: Nat,
        held: BOOLEAN] \cup {NoRow}

\* late: the deadline has passed, the row is not closed yet.  src: the lease
\* epoch of the STOPPED placement it wakes, 0 for a create.
NoDemand == [st |-> "none", type |-> "none", region |-> "none", src |-> 0]
Demand == [st: {"active", "late"}, type: Types, region: Regions, src: Nat]
          \cup {NoDemand}

\* type: of a create or a reservation, or what a lease resizes to.  dead: the
\* computers whose demand was past its deadline when the transaction began.
Request ==
    [kind: {"create"}, c: Computers, type: Types, region: {"none"},
     src: {0}, dead: SUBSET Computers]
    \cup
    [kind: {"lease"}, c: Computers, type: Types \cup {"keep"}, region: {"none"},
     src: Nat, dead: SUBSET Computers]
    \cup
    [kind: {"reserve"}, c: Computers, type: Types, region: Regions,
     src: Nat, dead: SUBSET Computers]

\* The lock holder: its request, its next statement, and the type and region
\* the decision admitted.
Tx == [pc: {"running", "regions", "user", "decide"}, q: Request,
       type: {"none"}, region: {"none"}]
      \cup [pc: {"write"}, q: Request, type: Types, region: Regions]
NoTx == [pc |-> "free"]
NoCount == [vcpu |-> 0, region |-> [r \in Regions |-> 0], others |-> 0]

Unclosed(c) == demand[c].st # "none"
Live(c) == demand[c].st = "active"
Counted(q, c) == Unclosed(c) /\ c \notin q.dead /\ c # q.c

TypeOK ==
    /\ row \in [Computers -> Row]
    /\ demand \in [Computers -> Demand]
    /\ deleted \subseteq Computers
    /\ waiting \subseteq Request
    /\ tx \in Tx \cup {NoTx}

Init ==
    /\ row = [c \in Computers |-> NoRow]
    /\ demand = [c \in Computers |-> NoDemand]
    /\ deleted = {} /\ waiting = {} /\ tx = NoTx /\ count = NoCount

-----------------------------------------------------------------------------
(* Writers that do not take the admission lock.                            *)

Edges ==
    [BUSY |-> {"RUNNING", "STOPPED", "FAILED", "RETIRED"},
     RUNNING |-> {"BUSY", "STOPPED"},
     FAILED |-> {"BUSY", "STOPPED", "RETIRED"},
     STOPPED |-> {"BUSY"},
     RETIRED |-> {"PURGE_ELIGIBLE"},
     PURGE_ELIGIBLE |-> {}]

\* The lifecycle moves a placement.  From STOPPED it only retires or releases
\* its disk, which boots nothing, so that only what was admitted runs, or fails
\* to enroll.
transition(c, to) ==
    /\ row[c].state # "none" /\ to \in Edges[row[c].state]
    /\ to \in {"RUNNING", "FAILED"} => row[c].held
    /\ row' = [row EXCEPT ![c].state = to,
                          ![c].held = @ /\ to \in RUNNING_CLASS_STATES]
    /\ UNCHANGED <<demand, deleted, waiting, tx, count>>

softDelete(c) ==
    /\ c \in Deletable \ deleted
    /\ deleted' = deleted \cup {c}
    /\ UNCHANGED <<row, demand, waiting, tx, count>>

DeadlinePasses(c) ==
    /\ Live(c)
    /\ demand' = [demand EXCEPT ![c].st = "late"]
    /\ UNCHANGED <<row, deleted, waiting, tx, count>>

-----------------------------------------------------------------------------
(* An open begins its transaction with what its handler read.              *)

Past == {c \in Computers : demand[c].st = "late"}
Begin(q) ==
    /\ Cardinality(waiting) < MaxWaiting
    /\ waiting' = waiting \cup {q}

openCreate(c, type) ==
    /\ row[c].state = "none" /\ c \notin deleted
    /\ Begin([kind |-> "create", c |-> c, type |-> type, region |-> "none",
              src |-> 0, dead |-> Past])
    /\ UNCHANGED <<row, demand, deleted, tx, count>>

\* A wake of a stopped computer or of one whose enrollment failed, with the size
\* its plan now has.  A running computer keeps its size until it stops.
openLease(c, resizeTo) ==
    /\ c \notin deleted /\ row[c].epoch < MaxEpoch[c]
    /\ row[c].state \in {"STOPPED", "FAILED"}
    /\ resizeTo # row[c].type
    /\ Begin([kind |-> "lease", c |-> c, type |-> resizeTo, region |-> "none",
              src |-> row[c].epoch, dead |-> Past])
    /\ UNCHANGED <<row, demand, deleted, tx, count>>

-----------------------------------------------------------------------------
(* The transaction, statement by statement.                                *)

\* The lock, and the computer's own row: deleted, or moved from what the
\* reservation names, is refused.  A reservation's transaction began at some
\* time since the one before it was rolled back.
withAdmission(q, dead) ==
    /\ tx = NoTx /\ q \in waiting
    /\ IF q.kind = "reserve" THEN q.dead \subseteq dead ELSE q.dead = dead
    /\ waiting' = waiting \ {q}
    /\ IF /\ q.c \notin deleted
          /\ q.kind = "reserve" =>
               IF q.src = 0 THEN row[q.c].state = "none"
               ELSE /\ row[q.c].state = "STOPPED" /\ row[q.c].epoch = q.src
                    /\ row[q.c].region = q.region
         THEN tx' = [pc |-> "running", q |-> [q EXCEPT !.dead = dead],
                     type |-> "none", region |-> "none"]
         ELSE UNCHANGED tx
    /\ count' = NoCount
    /\ UNCHANGED <<row, demand, deleted>>

\* A sum of vCPU is the number of vCPU slots that placements or demands take.
Running == {c \in Computers : row[c].state \in RUNNING_CLASS_STATES}
RowSlots(S) == UNION {{c} \X (1..Vcpu[row[c].type]) : c \in S}
DemandSlots(S) == UNION {{c} \X (1..Vcpu[demand[c].type]) : c \in S}
RowVcpu(S) == Cardinality(RowSlots(S))
DemandVcpu(S) == Cardinality(DemandSlots(S))

countRunning ==
    /\ tx.pc = "running"
    /\ count' = [count EXCEPT !.vcpu = RowVcpu(Running)]
    /\ tx' = [tx EXCEPT !.pc = "regions"]
    /\ UNCHANGED <<row, demand, deleted, waiting>>

countRegions ==
    /\ tx.pc = "regions"
    /\ count' = [count EXCEPT !.region =
                   [r \in Regions |-> RowVcpu({c \in Running : row[c].region = r})]]
    /\ tx' = [tx EXCEPT !.pc = "user"]
    /\ UNCHANGED <<row, demand, deleted, waiting>>

\* Mutant: a deleted computer's placement does not count.
UndeletedPlacements(q) ==
    {c \in Computers \ {q.c} : /\ Owner[c] = Owner[q.c]
                               /\ row[c].state \notin {"none", "PURGE_ELIGIBLE"}
                               /\ c \notin deleted}

OtherPlacements(q) ==
    {c \in Computers \ {q.c} : /\ Owner[c] = Owner[q.c]
                               /\ row[c].state \notin {"none", "PURGE_ELIGIBLE"}}

\* Every demand but the computer's own counts where it is reserved.  Demands
\* only change under the lock: when they are read makes no difference.
Promised(q) == {c \in Computers : Counted(q, c)}
countUserAndDemands ==
    LET D == Promised(tx.q) IN
    /\ tx.pc = "user"
    /\ count' = [vcpu |-> count.vcpu + DemandVcpu(D),
                 region |-> [r \in Regions |-> count.region[r] +
                               DemandVcpu({c \in D : demand[c].region = r})],
                 others |-> Cardinality(OtherPlacements(tx.q)) +
                   Cardinality({c \in D : Owner[c] = Owner[tx.q.c]})]
    /\ tx' = [tx EXCEPT !.pc = "decide"]
    /\ UNCHANGED <<row, demand, deleted, waiting>>

Refuse == tx' = NoTx /\ count' = NoCount

\* A replacement gives its own slot back before its new type is counted.
replaces(q) ==
    \/ row[q.c].state = "FAILED"
    \/ (row[q.c].state = "RUNNING" /\ q.type # "keep")

\* Mutant: any lease gives a slot back.
AnyLeaseReleases(q) ==
    IF q.kind # "lease" THEN count
    ELSE LET r == row[q.c]
             less(n) == IF n > Vcpu[r.type] THEN n - Vcpu[r.type] ELSE 0
         IN [vcpu |-> less(count.vcpu), others |-> count.others,
             region |-> [count.region EXCEPT ![r.region] = less(@)]]

releaseOwnSlot(q) ==
    IF q.kind # "lease" \/ ~replaces(q) THEN count
    ELSE LET r == row[q.c]
             less(n) == IF n > Vcpu[r.type] THEN n - Vcpu[r.type] ELSE 0
         IN [vcpu |-> less(count.vcpu), others |-> count.others,
             region |-> [count.region EXCEPT ![r.region] = less(@)]]

instanceType(q) == IF q.type = "keep" THEN row[q.c].type ELSE q.type

\* The first configured region with room, or the placement's own, if any.
Room(n, r, need) == n.region[r] + need <= RegionCap[r]
regionFor(q, n, need) ==
    IF q.kind = "create" \/ (q.kind = "reserve" /\ q.src = 0)
    THEN {RegionList[i] : i \in
            {i \in DOMAIN RegionList :
                /\ Room(n, RegionList[i], need)
                /\ \A k \in 1..(i - 1) : ~Room(n, RegionList[k], need)}}
    ELSE {r \in Regions : r = row[q.c].region /\ Room(n, r, need)}

decideAdmission(q, n, need, region) ==
    /\ n.vcpu + need <= Cap /\ n.others = 0
    /\ region \in regionFor(q, n, need)

\* The placement is read again; a lease whose epoch moved loses.
Admit(region) ==
    LET q == tx.q IN
    /\ q.kind = "lease" => row[q.c].epoch = q.src
    /\ decideAdmission(q, releaseOwnSlot(q), Vcpu[instanceType(q)], region)
    /\ q.kind = "reserve" => region = q.region
    /\ tx' = [tx EXCEPT !.pc = "write", !.type = instanceType(q), !.region = region]
    /\ count' = NoCount

decide ==
    /\ tx.pc = "decide"
    /\ Refuse \/ \E region \in Regions : Admit(region)
    /\ UNCHANGED <<row, demand, deleted, waiting>>

-----------------------------------------------------------------------------
(* What it writes.  Commit frees the lock.                                 *)

Leasable(q) ==
    /\ row[q.c].epoch = q.src
    /\ IF replaces(q) THEN TRUE ELSE row[q.c].state = "STOPPED"
\* Mutant: the row records the size as requested.
BootedAsRequested ==
    [state |-> "BUSY", type |-> tx.q.type, region |-> tx.region,
     epoch |-> tx.q.src + 1, held |-> TRUE]
Booted ==
    [state |-> "BUSY", type |-> tx.type, region |-> tx.region,
     epoch |-> tx.q.src + 1, held |-> TRUE]

\* The boot's own live demand, bound to exactly this boot.
claimDemand(q) ==
    /\ Unclosed(q.c) /\ q.c \notin q.dead
    /\ demand[q.c].type = tx.type /\ demand[q.c].region = tx.region
    /\ demand[q.c].src = q.src

\* createAwsPlacement or leasePlacement, then the pool's capacity check.
boot ==
    LET q == tx.q IN
    /\ tx.pc = "write" /\ q.kind # "reserve"
    /\ IF q.kind = "create" THEN row[q.c].state = "none" ELSE Leasable(q)
    /\ row' = [row EXCEPT ![q.c] = Booted]
    /\ demand' = IF claimDemand(q) THEN [demand EXCEPT ![q.c] = NoDemand] ELSE demand
    /\ Refuse
    /\ UNCHANGED <<deleted, waiting>>

\* Only the pool's spares are in the way: everything is rolled back and a
\* reservation begins in a transaction of its own.
poolPressure ==
    LET q == tx.q IN
    /\ tx.pc = "write" /\ q.kind # "reserve"
    /\ IF q.kind = "create" THEN row[q.c].state = "none" ELSE Leasable(q)
    /\ Begin([kind |-> "reserve", c |-> q.c, type |-> tx.type,
              region |-> tx.region, src |-> q.src, dead |-> Past])
    /\ Refuse
    /\ UNCHANGED <<row, demand, deleted>>

\* placement_exists, cas_conflict, or anything thrown.
rollback ==
    /\ tx.pc = "write" /\ Refuse
    /\ UNCHANGED <<row, demand, deleted, waiting>>

closeExpiredDemands(dead) ==
    [c \in Computers |-> IF c \in dead /\ Unclosed(c) THEN NoDemand ELSE demand[c]]

\* No demand of its own and none in its region.
Reservable(q, d) ==
    /\ d[q.c].st = "none"
    /\ \A c \in Computers : d[c].st # "none" => d[c].region # q.region

\* A new demand's deadline lies ahead of every transaction that has begun.
reservePoolDemand ==
    LET q == tx.q
        d == closeExpiredDemands(q.dead)
    IN /\ tx.pc = "write" /\ q.kind = "reserve"
       /\ \/ /\ Reservable(q, d)
             /\ demand' = [d EXCEPT ![q.c] =
                             [st |-> "active", type |-> q.type,
                              region |-> q.region, src |-> q.src]]
             /\ waiting' = {[w EXCEPT !.dead = @ \ {q.c}] : w \in waiting}
          \/ demand' = d /\ UNCHANGED waiting
       /\ Refuse
       /\ UNCHANGED <<row, deleted>>

\* A stop cancels the computer's demand.
cancelComputerDemand(c) ==
    /\ tx = NoTx /\ Unclosed(c)
    /\ demand' = [demand EXCEPT ![c] = NoDemand]
    /\ UNCHANGED <<row, deleted, waiting, tx, count>>

\* The replenish pass closes what had expired when it began, and the demands
\* of deleted computers.
closeOrphanedDemands(dead) ==
    /\ tx = NoTx
    /\ demand' = [c \in Computers |-> IF c \in dead \cup deleted THEN NoDemand
                                      ELSE demand[c]]
    /\ UNCHANGED <<row, deleted, waiting, tx, count>>

Transaction ==
    \/ countRunning \/ countRegions \/ countUserAndDemands \/ decide
    \/ boot \/ poolPressure \/ rollback \/ reservePoolDemand

Next ==
    \/ \E c \in Computers, to \in State : transition(c, to)
    \/ \E c \in Computers :
          softDelete(c) \/ DeadlinePasses(c) \/ cancelComputerDemand(c)
    \/ \E c \in Computers : \E type \in Offered[c] : openCreate(c, type)
    \/ \E c \in Computers : \E type \in Offered[c] \cup {"keep"} : openLease(c, type)
    \/ \E q \in waiting : \E dead \in SUBSET (q.dead \cup Past) : withAdmission(q, dead)
    \/ Transaction
    \/ \E dead \in SUBSET Past : closeOrphanedDemands(dead)

Spec == Init /\ [][Next]_vars

-----------------------------------------------------------------------------
\* What may be taken of the budget of some regions: the slots of instances that
\* may be running and of live promises.  Those of one computer overlap: it uses
\* its promise, or what it has.
Liable(R) ==
    RowSlots({c \in Computers : row[c].held /\ row[c].region \in R})
    \cup DemandSlots({c \in Computers : Live(c) /\ demand[c].region \in R})

\* The fleet and each region stay within their vCPU budgets, promises to
\* waiting opens included, although counters are read one by one and the
\* lifecycle never takes the lock.
WithinCaps ==
    /\ Cardinality(Liable(Regions)) <= Cap
    /\ \A r \in Regions : Cardinality(Liable({r})) <= RegionCap[r]

\* A user has one AWS computer, or one reservation for one: a deleted
\* computer's slot is only free once its placement may be purged.
Holds(c) == row[c].state \notin {"none", "PURGE_ELIGIBLE"} \/ Live(c)
OnePerOwner ==
    \A a, b \in Computers :
        Owner[a] = Owner[b] /\ Holds(a) /\ Holds(b) => a = b

\* insertDemand never meets the table's unique indexes: unclosed demands, late
\* ones included, differ in region and in owner.
DemandsFitIndexes ==
    \A a, b \in Computers :
        /\ Unclosed(a) /\ Unclosed(b)
        /\ (demand[a].region = demand[b].region \/ Owner[a] = Owner[b])
        => a = b
=============================================================================
