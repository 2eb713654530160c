------------------------------ MODULE ReadyPool ------------------------------
(***************************************************************************)
(* The pool of warm hosts: rows that a minutely pass provisions and        *)
(* retires through Step Functions, the machines behind them, and the       *)
(* computers that adopt a ready host, run on it once and give it up.       *)
(*                                                                         *)
(* Three parties act on a row without seeing each other: transactions      *)
(* under the admission lock (replenish, lease, demand), row updates that   *)
(* take no lock (the host's enrollment, the dispatcher's outcomes), and    *)
(* executions that were allowed to act on what the row said a moment ago.  *)
(* One instance class of one vCPU unit; ages are choices of the planner.   *)
(***************************************************************************)
EXTENDS Naturals, FiniteSets

CONSTANTS
    N,          \* bound: host rows ever inserted
    Computers,
    Cap,        \* regionVcpuCap, in hosts
    Deletable,  \* bound: the computers their owners delete
    ColdOpens,  \* bound: the computers whose opens may find no usable spare
    MaxEpoch,   \* bound: opens of one computer by its owner
    MaxFaults   \* bound: failures of AWS calls and executions, and crashes

ASSUME BoundsAssumption ==
    N \in Nat /\ Cap \in Nat /\ MaxEpoch \in Nat /\ MaxFaults \in Nat
ASSUME ComputersAssumption ==
    IsFiniteSet(Computers) /\ 0 \notin Computers /\ Deletable \subseteq Computers

VARIABLES
    row,      \* ezil_compute_pool_hosts
    place,    \* the placements, as far as the pool acts on them
    deleted,  \* computers that are soft-deleted
    demand,   \* the region's active capacity demand
    exec,     \* the executions of each host's jobs
    calls,    \* start calls under way, and refusals still to be written
    refusals, \* history: the jobs whose start AWS has refused to some caller
    ec2,      \* each host's machine: none, up with pool or claim tags, gone
    vol,      \* the host each computer's data disk is attached to
    faults

vars == <<row, place, deleted, demand, exec, calls, refusals, ec2, vol, faults>>

Hosts == 1..N
Nobody == 0
NoHost == 0
Provision == 1                \* a row's first job; every later one is a pool-retire
LastJob == 2 + MaxFaults      \* bound: a pool-retire is only renewed after a fault
Jobs == 1..LastJob

Epochs == 0..(MaxEpoch + 1)   \* the last one replaces a host that stalled

\* inst: instance_id is known.  claim: the epoch of the published claim.
\* dispatch: pending, unknown and started are read alike everywhere: pending.
HostRow == [state: {"none", "booting", "ready", "leased", "retiring", "retired", "failed"},
            inst: BOOLEAN, enrolled: BOOLEAN, session: BOOLEAN,
            lessee: Computers \cup {Nobody}, claim: Epochs,
            job: Jobs \cup {0}, dispatch: {"none", "pending", "settled"}]
Unborn == [state |-> "none", inst |-> FALSE, enrolled |-> FALSE, session |-> FALSE,
           lessee |-> Nobody, claim |-> 0, job |-> 0, dispatch |-> "none"]

\* ADOPTING: LEASED, STARTING or MOUNTING.  STALLED: UNCONFIRMED by an enrollment
\* failure.  RELEASING: DRAINING or STOPPING.  COLD: on a machine of its own.
\* x: how far the execution of its job is.  tried: it recovers, or did.
PlaceState == {"STOPPED", "COLD", "ADOPTING", "RUNNING", "RELEASING", "STALLED",
               "UNCONFIRMED", "RECOVERING", "RETIRING", "RETIRED"}
Operation == {"none", "adopt", "release", "retire"}
Progress == {"none", "running", "attached", "claimed", "detached", "terminated",
             "succeeded", "refused", "failed"}
Place == [st: PlaceState, epoch: Epochs, host: 0..N, tried: BOOLEAN,
          job: Operation, x: Progress]
NewPlace == [st |-> "STOPPED", epoch |-> 0, host |-> NoHost, tried |-> FALSE,
             job |-> "none", x |-> "none"]

\* allowed: the observer returned a mutation.  acted: it happened.
\* clean: FAILED, and the history proves that nothing was launched.
Exec == {"absent", "running", "allowed", "acted", "succeeded", "clean", "failed"}
Call == [host: Hosts, job: Jobs, res: {"todo", "refused"}]

TypeOK ==
    /\ row \in [Hosts -> HostRow] /\ place \in [Computers -> Place]
    /\ deleted \subseteq Computers
    /\ \A h \in Hosts :
          row[h].lessee # Nobody => row[h].state \in {"leased", "retiring", "retired"}
    /\ demand \in [by: Computers \cup {Nobody}, hosts: SUBSET Hosts]
    /\ exec \in [Hosts -> [Jobs -> Exec]]
    /\ calls \subseteq Call /\ refusals \subseteq Hosts \X Jobs
    /\ ec2 \in [Hosts -> {"none", "pool", "claimed", "gone"}]
    /\ vol \in [Computers -> 0..N] /\ faults \in 0..MaxFaults

Init ==
    /\ row = [h \in Hosts |-> Unborn] /\ place = [c \in Computers |-> NewPlace]
    /\ deleted = {} /\ demand = [by |-> Nobody, hosts |-> {}]
    /\ exec = [h \in Hosts |-> [j \in Jobs |-> "absent"]]
    /\ calls = {} /\ refusals = {}
    /\ ec2 = [h \in Hosts |-> "none"] /\ vol = [c \in Computers |-> NoHost]
    /\ faults = 0

Fault == faults < MaxFaults /\ faults' = faults + 1

-----------------------------------------------------------------------------
(* What the transactions read.                                             *)

Live(P) == {c \in Computers : P[c].st \notin {"STOPPED", "RETIRED"}}
\* Mutant: a host on its way out is taken for gone.
RetiringIsFree(R, P) ==
    Cardinality(Live(P)) +
    Cardinality({h \in Hosts : /\ R[h].state \in {"booting", "ready", "leased"}
                               /\ \A c \in Live(P) : ~(P[c].host = h /\ R[h].inst)})
\* A host that a live placement names counts once, with the placement.
vcpuInUse(R, P) ==
    Cardinality(Live(P)) +
    Cardinality({h \in Hosts : /\ R[h].state \notin {"none", "retired"}
                               /\ \A c \in Live(P) : ~(P[c].host = h /\ R[h].inst)})
demandVcpu == IF demand.by = Nobody THEN 0 ELSE 1

\* Mutant: an earmarked host is as good as any.
AnyReady(h) ==
    /\ row[h].state = "ready" /\ row[h].inst /\ row[h].enrolled
    /\ row[h].lessee = Nobody
usableReady(h) ==
    /\ row[h].state = "ready" /\ row[h].inst /\ row[h].enrolled
    /\ row[h].lessee = Nobody /\ h \notin demand.hosts

canRetire(h) ==
    /\ row[h].lessee = Nobody /\ row[h].claim = 0
    /\ row[h].inst /\ row[h].dispatch = "settled" /\ row[h].job < LastJob

Reclaimable ==
    {h \in Hosts : /\ row[h].state \in {"ready", "booting"} /\ row[h].lessee = Nobody
                   /\ row[h].claim = 0 /\ h \notin demand.hosts
                   /\ \A c \in Computers : ~(place[c].st # "RETIRED" /\ place[c].host = h)}

\* prepare: the row takes a new job, which is dispatched after the commit.
Prepare(R, S, state) ==
    [h \in Hosts |-> IF h \in S THEN [R[h] EXCEPT !.state = state, !.job = R[h].job + 1,
                                                  !.dispatch = "pending"]
                     ELSE R[h]]
Dispatch(S) == {[host |-> h, job |-> row[h].job + 1, res |-> "todo"] : h \in S}

-----------------------------------------------------------------------------
(* The minutely pass and the dispatcher.                                   *)

\* Expired and orphaned demands close; stranded retirements, settled earmarked
\* hosts, failed hosts and hosts the plan gives up are retired; boots the plan
\* finds stalled fail; spares are provisioned where the region has room.
provisionBudget == 2
retireBudget == 2
runPoolReplenish ==
    \E open \in {demand, [by |-> Nobody, hosts |-> {}]},
       fail \in SUBSET {h \in Hosts : row[h].state = "booting" /\ row[h].lessee = Nobody},
       new \in SUBSET {h \in Hosts : row[h].state = "none"} :
    LET n == Cardinality(new)
        stranded == {h \in Hosts : row[h].state = "retiring" /\ canRetire(h)}
        earmarked == {h \in open.hosts : /\ canRetire(h)
                                         /\ row[h].state \in {"booting", "ready", "failed"}}
        failedNow == fail \ earmarked
        failed == {h \in Hosts : row[h].state = "failed"} \cup failedNow
        idle == {h \in Hosts : row[h].state = "ready" /\ row[h].lessee = Nobody}
    IN  /\ open.by \notin deleted
        /\ n <= provisionBudget
        /\ \A h \in new, g \in Hosts \ new : row[g].state = "none" => h < g
        /\ n > 0 => vcpuInUse(row, place) + (IF open.by = Nobody THEN 0 ELSE 1) + n <= Cap
        /\ \E given \in SUBSET {h \in (failed \cup idle) \ earmarked : canRetire(h)} :
           LET retire == stranded \cup earmarked \cup given
               marked == [h \in Hosts |-> IF h \in failedNow
                                          THEN [row[h] EXCEPT !.state = "failed"] ELSE row[h]]
           IN  /\ Cardinality(given) <= retireBudget
               /\ Cardinality(given) < retireBudget =>
                     \A h \in failed \ earmarked : canRetire(h) => h \in given
               /\ row' = Prepare(Prepare(marked, retire, "retiring"), new, "booting")
               /\ calls' = calls \cup Dispatch(retire \cup new)
               /\ demand' = open
               /\ UNCHANGED <<place, deleted, exec, refusals, ec2, vol, faults>>

Run(h, j, to) == exec' = [exec EXCEPT ![h][j] = to]

\* The attempts of one caller.  StartExecution is idempotent by name, and a refusal
\* of one attempt ends the call, but says nothing of an earlier attempt whose answer
\* was lost or of another caller's: the execution may exist, or start all the same.
startLifecycleJob(call) ==
    /\ call \in calls /\ call.res = "todo"
    /\ LET h == call.host  j == call.job
           accepted == IF exec[h][j] = "absent" THEN Run(h, j, "running") ELSE UNCHANGED exec
       IN
       \/ /\ accepted /\ calls' = calls \ {call}
          /\ UNCHANGED <<refusals, faults>>
       \/ /\ accepted \/ UNCHANGED exec
          /\ Fault
          /\ refusals' = refusals \cup {<<h, j>>}
          /\ calls' = (calls \ {call}) \cup {[call EXCEPT !.res = "refused"]}
    /\ UNCHANGED <<row, place, deleted, demand, ec2, vol>>

\* What a refused start leaves of the host, whoever has leased it.
refusedAs(call) == IF call.job = Provision THEN "retired" ELSE "failed"

outcome(call) ==
    /\ call \in calls /\ call.res = "refused"
    /\ calls' = calls \ {call}
    /\ LET r == row[call.host] IN
       row' = IF r.job = call.job /\ r.dispatch = "pending"
              THEN [row EXCEPT ![call.host].dispatch = "settled",
                               ![call.host].state = refusedAs(call)]
              ELSE row
    /\ UNCHANGED <<place, deleted, demand, exec, refusals, ec2, vol, faults>>

\* The process dies before the call or before its outcome, or the call is lost.
Crash(call) ==
    /\ call \in calls /\ calls' = calls \ {call} /\ Fault
    /\ UNCHANGED <<row, place, deleted, demand, exec, refusals, ec2, vol>>

poolJobAuthority(h, j) ==
    /\ row[h].job = j /\ row[h].lessee = Nobody
    /\ IF j = Provision THEN row[h].state = "booting"
                        ELSE row[h].state = "retiring" /\ row[h].inst

\* Mutant: a failed provision is taken for one that never launched.
FailureProvesNothing(h) == IF row[h].job = Provision THEN "retired" ELSE "failed"
\* Mutant: a failed provision is settled whoever has leased its host.
LeasedOrNot(h) == TRUE
unleased(h) == row[h].lessee = Nobody
\* What a failed execution leaves of its host.
settledAs(h) ==
    IF row[h].job = Provision /\ exec[h][Provision] = "clean" THEN "retired" ELSE "failed"

\* The pass reads the pending rows first and writes each by its job alone: of what
\* may settle a row in between, only a refusal leaves it in another state.
ReadPending(h) == row[h].dispatch = "pending" \/ <<h, row[h].job>> \in refusals

\* One row of reconcile.  A history that cannot be read yet leaves the row for
\* the next pass: no step.
reconcile(h) ==
    /\ ReadPending(h)
    /\ LET j == row[h].job  e == exec[h][j] IN
       \/ /\ e = "absent" /\ (j = Provision => poolJobAuthority(h, j))
          /\ calls' = calls \cup {[host |-> h, job |-> j, res |-> "todo"]}
          /\ UNCHANGED row
       \/ /\ e = "succeeded"
          /\ row' = [row EXCEPT ![h].inst = TRUE, ![h].dispatch = "settled",
                                ![h].state = IF j = Provision THEN @ ELSE "retired"]
          /\ UNCHANGED calls
       \/ /\ e \in {"clean", "failed"} /\ unleased(h)
          /\ row' = [row EXCEPT ![h].dispatch = "settled", ![h].state = settledAs(h)]
          /\ UNCHANGED calls
    /\ UNCHANGED <<place, deleted, demand, exec, refusals, ec2, vol, faults>>

-----------------------------------------------------------------------------
(* The executions of pool jobs: the observer asks for authority before each *)
(* mutation and at each look, the graph acts on its answer later.  Whether  *)
(* the class is eligible (kill switch, subscribers, release) may differ at  *)
(* each look.                                                               *)

observePool(h, j) ==
    /\ exec[h][j] \in {"running", "acted"}
    /\ \E eligible \in {TRUE, j # Provision} :
       LET e == exec[h][j]  may == eligible /\ poolJobAuthority(h, j) IN
       \/ /\ e = "running" /\ j = Provision /\ Run(h, j, IF may THEN "allowed" ELSE "clean")
       \/ /\ e = "running" /\ j # Provision
          /\ Run(h, j, IF ~may \/ ec2[h] \in {"none", "claimed"} THEN "failed"
                       ELSE IF ec2[h] = "gone" THEN "succeeded" ELSE "allowed")
       \/ /\ e = "acted" /\ Run(h, j, IF may THEN "succeeded" ELSE "failed")
    /\ UNCHANGED <<row, place, deleted, demand, calls, refusals, ec2, vol, faults>>

\* RunInstances or TerminateInstances.
actPool(h, j) ==
    /\ exec[h][j] = "allowed" /\ Run(h, j, "acted")
    /\ ec2' = [ec2 EXCEPT ![h] = IF j = Provision THEN "pool" ELSE "gone"]
    /\ UNCHANGED <<row, place, deleted, demand, calls, refusals, vol, faults>>

\* A capacity refusal of the launch proves itself; any other end does not.
failPool(h, j) ==
    /\ \/ exec[h][j] = "allowed" /\ j = Provision /\ Run(h, j, "clean")
       \/ exec[h][j] \in {"running", "allowed", "acted"} /\ Run(h, j, "failed")
    /\ Fault
    /\ UNCHANGED <<row, place, deleted, demand, calls, refusals, ec2, vol>>

-----------------------------------------------------------------------------
(* The warm host.                                                          *)

recordPoolEnrollment(h) ==
    /\ ec2[h] = "pool" /\ row[h].state \in {"booting", "ready"} /\ row[h].lessee = Nobody
    /\ row' = [row EXCEPT ![h].inst = TRUE, ![h].enrolled = TRUE]
    /\ UNCHANGED <<place, deleted, demand, exec, calls, refusals, ec2, vol, faults>>

recordPoolReady(h) ==
    /\ ec2[h] = "pool" /\ row[h].state \in {"booting", "ready"} /\ row[h].lessee = Nobody
    /\ row[h].inst /\ row[h].enrolled
    /\ row' = [row EXCEPT ![h].state = "ready"]
    /\ UNCHANGED <<place, deleted, demand, exec, calls, refusals, ec2, vol, faults>>

-----------------------------------------------------------------------------
(* Opening a computer: under the admission lock, with room in the region.  *)

Open(c, st, h) ==
    [place EXCEPT ![c] = [st |-> st, epoch |-> @.epoch + 1, host |-> h, tried |-> FALSE,
                          job |-> IF st = "ADOPTING" THEN "adopt" ELSE "none", x |-> "none"]]
\* validateCapacity, with the credit of the open's own demand, which it consumes.
validateCapacity(c, R, P) ==
    /\ vcpuInUse(R, P) + (IF demand.by = c THEN 0 ELSE demandVcpu) <= Cap
    /\ demand' = IF demand.by = c THEN [by |-> Nobody, hosts |-> {}] ELSE demand

leasePoolHost(c, h) ==
    /\ place[c].st = "STOPPED" /\ c \notin deleted /\ place[c].epoch < MaxEpoch
    /\ vol[c] = NoHost /\ usableReady(h)
    /\ row' = [row EXCEPT ![h].state = "leased", ![h].lessee = c]
    /\ place' = Open(c, "ADOPTING", h)
    /\ validateCapacity(c, row', place')
    /\ UNCHANGED <<deleted, exec, calls, refusals, ec2, vol, faults>>

\* No usable spare, or one that another open has locked: a machine of its own.
openCold(c) ==
    /\ c \in ColdOpens
    /\ place[c].st = "STOPPED" /\ c \notin deleted /\ place[c].epoch < MaxEpoch
    /\ place' = Open(c, "COLD", NoHost)
    /\ validateCapacity(c, row, place')
    /\ UNCHANGED <<row, deleted, exec, calls, refusals, ec2, vol, faults>>

coldStop(c) ==
    /\ place[c].st = "COLD" /\ place' = [place EXCEPT ![c].st = "STOPPED"]
    /\ UNCHANGED <<row, deleted, demand, exec, calls, refusals, ec2, vol, faults>>

\* Only idle spares stand in the way: as few as suffice are given up, ready ones
\* first; one whose provision has not settled is earmarked.
reservePoolDemand(c) ==
    /\ c \in ColdOpens
    /\ place[c].st = "STOPPED" /\ c \notin deleted /\ place[c].epoch < MaxEpoch
    /\ demand.by = Nobody
    /\ \E picked \in SUBSET Reclaimable :
          /\ picked # {} /\ Cardinality(picked) + Cap = vcpuInUse(row, place) + 1
          /\ \A h \in picked, g \in Reclaimable \ picked :
                row[g].state = "ready" => row[h].state = "ready"
          /\ LET now == {h \in picked : canRetire(h)} IN
             /\ row' = Prepare(row, now, "retiring")
             /\ calls' = calls \cup Dispatch(now)
          /\ demand' = [by |-> c, hosts |-> picked]
    /\ UNCHANGED <<place, deleted, exec, refusals, ec2, vol, faults>>

cancelComputerDemand(c) ==
    /\ demand.by = c /\ demand' = [by |-> Nobody, hosts |-> {}]
    /\ UNCHANGED <<row, place, deleted, exec, calls, refusals, ec2, vol, faults>>

-----------------------------------------------------------------------------
(* The executions of a computer's jobs.  Their start calls, and the        *)
(* authority they ask for, are Placement's subject; a job whose start was  *)
(* lost is started again, except an adopt, whose row is left UNCONFIRMED.  *)

X(c, x) == place' = [place EXCEPT ![c].x = x]
Move(c, st, job, x) ==
    place' = [place EXCEPT ![c].st = st, ![c].job = job, ![c].x = x]
Others == <<row, deleted, demand, exec, calls, refusals>>

startJob(c) ==
    /\ place[c].job # "none" /\ place[c].x = "none" /\ place[c].st # "UNCONFIRMED"
    /\ \/ X(c, "running") /\ UNCHANGED faults
       \/ /\ place[c].job = "adopt" /\ place[c].st = "ADOPTING" /\ Fault
          /\ place' = [place EXCEPT ![c].st = "UNCONFIRMED"]
    /\ UNCHANGED <<Others, ec2, vol>>

observeAdopt(c) ==
    /\ place[c].job = "adopt"
    /\ LET h == place[c].host IN
       \/ /\ place[c].x = "running" /\ ec2[h] = "pool" /\ X(c, "attached")
          /\ vol' = [vol EXCEPT ![c] = h] /\ UNCHANGED ec2
       \/ /\ place[c].x = "attached" /\ X(c, "claimed")
          /\ ec2' = [ec2 EXCEPT ![h] = "claimed"] /\ UNCHANGED vol
       \/ place[c].x = "claimed" /\ X(c, "succeeded") /\ UNCHANGED <<ec2, vol>>
    /\ UNCHANGED <<Others, faults>>

\* Mutant: the host is ended with the disk still on it.
TerminatesAttached(c) ==
    /\ place[c].job = "release"
    /\ LET h == place[c].host IN
       \/ /\ place[c].x = "running" /\ X(c, "detached")
          /\ ec2' = [ec2 EXCEPT ![h] = "gone"] /\ UNCHANGED vol
       \/ /\ place[c].x = "detached" /\ X(c, "terminated")
          /\ vol' = [vol EXCEPT ![c] = NoHost] /\ UNCHANGED ec2
       \/ place[c].x = "terminated" /\ X(c, "succeeded") /\ UNCHANGED <<ec2, vol>>
    /\ UNCHANGED <<Others, faults>>
\* Stop, detach, terminate: a host is only ended once it holds no disk.
observeRelease(c) ==
    /\ place[c].job = "release"
    /\ LET h == place[c].host IN
       \/ /\ place[c].x = "running" /\ X(c, "detached")
          /\ vol' = [vol EXCEPT ![c] = NoHost] /\ UNCHANGED ec2
       \/ /\ place[c].x = "detached" /\ X(c, "terminated")
          /\ ec2' = [ec2 EXCEPT ![h] = "gone"] /\ UNCHANGED vol
       \/ place[c].x = "terminated" /\ X(c, "succeeded") /\ UNCHANGED <<ec2, vol>>
    /\ UNCHANGED <<Others, faults>>

\* retire identifies its instance by the tags of a cold launch, which no pool
\* host carries: it succeeds only where EC2 knows no instance, or none was left.
observeRetire(c) ==
    /\ place[c].job = "retire" /\ place[c].x = "running"
    /\ LET h == place[c].host IN
       X(c, IF h # NoHost /\ (ec2[h] \in {"pool", "claimed"} \/ vol[c] # NoHost)
            THEN "failed" ELSE "succeeded")
    /\ UNCHANGED <<Others, ec2, vol, faults>>

\* refused: the observer gave up before it changed anything.  The one release of
\* a recovery may always fail.
failJob(c) ==
    /\ place[c].x \in {"running", "attached", "claimed", "detached", "terminated"}
    /\ IF place[c].st = "RECOVERING" THEN UNCHANGED faults ELSE Fault
    /\ \/ place[c].job = "adopt" /\ place[c].x = "running" /\ X(c, "refused")
       \/ X(c, "failed")
    /\ UNCHANGED <<Others, ec2, vol>>

-----------------------------------------------------------------------------
(* What the receipts of an adopt do.                                       *)

Adopted(c) == place[c].st = "ADOPTING" /\ place[c].x = "succeeded"

\* Mutant: the claim is published as soon as the host is leased.
PublishesEarly(c) ==
    /\ place[c].st = "ADOPTING"
    /\ LET h == place[c].host IN
       /\ row[h].state = "leased" /\ row[h].lessee = c /\ row[h].claim = 0
       /\ row' = [row EXCEPT ![h].claim = place[c].epoch]
    /\ UNCHANGED <<place, deleted, demand, exec, calls, refusals, ec2, vol, faults>>
\* By a poll of the owner or of the host itself.
publishPoolClaim(c) ==
    /\ Adopted(c)
    /\ LET h == place[c].host IN
       /\ row[h].state = "leased" /\ row[h].lessee = c /\ row[h].claim = 0
       /\ row' = [row EXCEPT ![h].claim = place[c].epoch]
    /\ UNCHANGED <<place, deleted, demand, exec, calls, refusals, ec2, vol, faults>>

\* The claim is taken, the disk mounted, the desktop up: session_ready_at.
handlePoolSessionReady(h) ==
    /\ row[h].state = "leased" /\ row[h].claim # 0 /\ ~row[h].session
    /\ LET c == row[h].lessee IN
       /\ place[c].st = "ADOPTING" /\ place[c].host = h /\ place[c].epoch = row[h].claim
       /\ ec2[h] = "claimed" /\ vol[c] = h
    /\ row' = [row EXCEPT ![h].session = TRUE]
    /\ UNCHANGED <<place, deleted, demand, exec, calls, refusals, ec2, vol, faults>>

adoptRunning(c) ==
    /\ Adopted(c)
    /\ LET r == row[place[c].host] IN
       r.state = "leased" /\ r.session /\ r.claim = place[c].epoch
    /\ Move(c, "RUNNING", "none", "none")
    /\ UNCHANGED <<row, deleted, demand, exec, calls, refusals, ec2, vol, faults>>

\* 180 s after the lease without a session: the host is given up, still bound.
failStalledPoolAdopt(c) ==
    /\ Adopted(c)
    /\ LET h == place[c].host IN
       /\ row[h].state = "leased" /\ row[h].claim = place[c].epoch /\ ~row[h].session
       /\ row' = [row EXCEPT ![h].state = "retiring"]
    /\ place' = [place EXCEPT ![c].st = "STALLED"]
    /\ UNCHANGED <<deleted, demand, exec, calls, refusals, ec2, vol, faults>>

\* Mutant: a host no computer used goes back to the pool.
RefusedReturns(c) ==
    /\ place[c].st = "ADOPTING" /\ place[c].x = "refused"
    /\ LET h == place[c].host IN
       /\ ec2[h] = "pool" /\ vol[c] # h /\ row[h].state = "leased" /\ row[h].claim = 0
       /\ row' = [row EXCEPT ![h].state = "ready", ![h].lessee = Nobody]
    /\ place' = [place EXCEPT ![c] = [NewPlace EXCEPT !.epoch = place[c].epoch]]
    /\ UNCHANGED <<deleted, demand, exec, calls, refusals, ec2, vol, faults>>
\* Positive evidence that host and disk are untouched: the lease is undone and
\* the host retired.
recoverRefusedAdopt(c) ==
    /\ place[c].st = "ADOPTING" /\ place[c].x = "refused"
    /\ LET h == place[c].host IN
       /\ ec2[h] = "pool" /\ vol[c] # h /\ row[h].state = "leased" /\ row[h].claim = 0
       /\ row' = [row EXCEPT ![h].state = "retiring", ![h].lessee = Nobody]
    /\ place' = [place EXCEPT ![c] = [NewPlace EXCEPT !.epoch = place[c].epoch]]
    /\ UNCHANGED <<deleted, demand, exec, calls, refusals, ec2, vol, faults>>

\* Any other failed job, and a refused adopt whose evidence is missing.
receiptFailed(c) ==
    /\ place[c].st \in {"ADOPTING", "RELEASING", "RETIRING"}
    /\ place[c].x \in {"refused", "failed"}
    /\ place' = [place EXCEPT ![c].st = "UNCONFIRMED"]
    /\ UNCHANGED <<row, deleted, demand, exec, calls, refusals, ec2, vol, faults>>

-----------------------------------------------------------------------------
(* Ending a session.                                                       *)

startStop(c) ==
    /\ place[c].st = "RUNNING" /\ c \notin deleted
    /\ Move(c, "RELEASING", "release", "none")
    /\ UNCHANGED <<row, deleted, demand, exec, calls, refusals, ec2, vol, faults>>

\* The lease a release of the placement burns.
Burnt(c) ==
    LET r == row[place[c].host] IN
    r.state \in {"leased", "retiring"} /\ r.lessee = c /\ r.claim = place[c].epoch

Unclaimed(c) == row[place[c].host].claim = 0

Released(c) ==
    /\ place[c].job = "release" /\ place[c].x = "succeeded"
    /\ \/ place[c].st = "RELEASING"
       \/ place[c].st = "RECOVERING" /\ ~Unclaimed(c) /\ c \notin deleted

\* A transaction of its own, before the row is STOPPED.
retirePoolLease(c) ==
    /\ Released(c) /\ Burnt(c)
    /\ row' = [row EXCEPT ![place[c].host].state = "retired"]
    /\ UNCHANGED <<place, deleted, demand, exec, calls, refusals, ec2, vol, faults>>

releaseStopped(c) ==
    /\ Released(c) /\ ~Burnt(c)
    /\ Move(c, "STOPPED", "none", "none")
    /\ UNCHANGED <<row, deleted, demand, exec, calls, refusals, ec2, vol, faults>>

-----------------------------------------------------------------------------
(* The fleet pass: what it does with a placement that is not confirmed.    *)

\* A host given up at its claim: released under the failed row, again under a
\* new job when that fails, then burnt in the transaction that drops the job.
reconcileStalledPoolAdopt(c) ==
    /\ place[c].st = "STALLED" /\ c \notin deleted
    /\ row[place[c].host].state = "retiring" /\ Burnt(c)
    /\ \/ /\ place[c].job = "adopt" \/ place[c].x = "failed"
          /\ Move(c, "STALLED", "release", "none")
          /\ UNCHANGED row
       \/ /\ place[c].job = "release" /\ place[c].x = "succeeded"
          /\ Move(c, "STALLED", "none", "none")
          /\ row' = [row EXCEPT ![place[c].host].state = "retired"]
    /\ UNCHANGED <<deleted, demand, exec, calls, refusals, ec2, vol, faults>>

\* An open of its own, on a machine of its own.
replaceStalledPoolAdopt(c) ==
    /\ place[c].st = "STALLED" /\ c \notin deleted /\ place[c].job = "none"
    /\ row[place[c].host].state = "retired"
    /\ place' = Open(c, "COLD", NoHost)
    /\ validateCapacity(c, row, place')
    /\ UNCHANGED <<row, deleted, exec, calls, refusals, ec2, vol, faults>>

\* An adopt that failed after its attach and before its claim, or a failed
\* release: one release of the recovery's own, and no second one.
Recoverable(c) ==
    /\ place[c].x = "failed" /\ c \notin deleted /\ ~place[c].tried
    /\ LET h == place[c].host IN
       \/ /\ place[c].job = "adopt" /\ vol[c] = h /\ ec2[h] = "pool"
          /\ Unclaimed(c) /\ row[h].state = "leased"
       \/ place[c].job = "release"

startRecovery(c) ==
    /\ place[c].st = "UNCONFIRMED" /\ Recoverable(c)
    /\ place' = [place EXCEPT ![c].st = "RECOVERING", ![c].job = "release",
                              ![c].x = "none", ![c].tried = TRUE]
    /\ UNCHANGED <<row, deleted, demand, exec, calls, refusals, ec2, vol, faults>>

recoveryFailed(c) ==
    /\ place[c].st = "RECOVERING" /\ place[c].x = "failed" /\ c \notin deleted
    /\ place' = [place EXCEPT ![c].st = "UNCONFIRMED"]
    /\ UNCHANGED <<row, deleted, demand, exec, calls, refusals, ec2, vol, faults>>

\* saveAdoptRecovery: the row and the placement in one transaction.
completeAdoptRecovery(c) ==
    /\ place[c].st = "RECOVERING" /\ place[c].x = "succeeded" /\ c \notin deleted
    /\ Unclaimed(c) /\ row[place[c].host].state = "leased"
    /\ ec2[place[c].host] = "gone" /\ vol[c] = NoHost
    /\ row' = [row EXCEPT ![place[c].host].state = "retired"]
    /\ Move(c, "STOPPED", "none", "none")
    /\ UNCHANGED <<deleted, demand, exec, calls, refusals, ec2, vol, faults>>

-----------------------------------------------------------------------------
(* Deleting a computer, and the pass that finishes it.                     *)

Retire(c) == Move(c, "RETIRING", "retire", "none")

\* The owner's delete is refused while the computer starts.
terminate(c) ==
    /\ c \in Deletable \ deleted /\ deleted' = deleted \cup {c}
    /\ \/ /\ \/ place[c].st = "STOPPED" /\ place[c].epoch > 0
             \/ place[c].st \in {"RUNNING", "STALLED", "UNCONFIRMED", "RECOVERING"}
          /\ Retire(c)
       \/ place[c].st = "RELEASING" /\ UNCHANGED place
    /\ UNCHANGED <<row, demand, exec, calls, refusals, ec2, vol, faults>>

reconcileDeletedAwsComputers(c) ==
    /\ c \in deleted /\ place[c].st \in {"STOPPED", "UNCONFIRMED"}
    /\ Retire(c)
    /\ UNCHANGED <<row, deleted, demand, exec, calls, refusals, ec2, vol, faults>>

retireDone(c) ==
    /\ place[c].st = "RETIRING" /\ place[c].x = "succeeded"
    /\ Move(c, "RETIRED", "none", "none")
    /\ UNCHANGED <<row, deleted, demand, exec, calls, refusals, ec2, vol, faults>>

-----------------------------------------------------------------------------
Dispatcher == \E call \in calls : startLifecycleJob(call) \/ outcome(call) \/ Crash(call)
HostJob(h) == \E j \in Jobs : observePool(h, j) \/ actPool(h, j) \/ failPool(h, j)
Agent(h) ==
    \/ recordPoolEnrollment(h) \/ recordPoolReady(h) \/ handlePoolSessionReady(h)
Owner(c) ==
    \/ \E h \in Hosts : leasePoolHost(c, h)
    \/ openCold(c) \/ coldStop(c) \/ reservePoolDemand(c) \/ cancelComputerDemand(c)
    \/ startStop(c) \/ terminate(c)
JobRuns(c) == startJob(c) \/ observeAdopt(c) \/ observeRelease(c) \/ observeRetire(c)
Job(c) == JobRuns(c) \/ failJob(c)
Receipt(c) ==
    \/ publishPoolClaim(c) \/ adoptRunning(c) \/ failStalledPoolAdopt(c)
    \/ recoverRefusedAdopt(c) \/ receiptFailed(c) \/ retirePoolLease(c) \/ releaseStopped(c)
Fleet(c) ==
    \/ reconcileStalledPoolAdopt(c) \/ replaceStalledPoolAdopt(c) \/ startRecovery(c)
    \/ recoveryFailed(c) \/ completeAdoptRecovery(c)
    \/ reconcileDeletedAwsComputers(c) \/ retireDone(c)

Next ==
    \/ runPoolReplenish \/ Dispatcher
    \/ \E h \in Hosts : reconcile(h) \/ HostJob(h) \/ Agent(h)
    \/ \E c \in Computers : Owner(c) \/ Job(c) \/ Receipt(c) \/ Fleet(c)

Spec == Init /\ [][Next]_vars

\* The pass runs every minute, reads every pending row and starts what is absent;
\* an execution and an answer that is out come to an end; the fleet pass and the
\* polls see to every computer.
Fairness ==
    /\ WF_vars(runPoolReplenish)
    /\ WF_vars((\E call \in calls : startLifecycleJob(call)) \/ (\E h \in Hosts : reconcile(h)))
    /\ WF_vars(\/ \E call \in calls : outcome(call)
               \/ \E h \in Hosts, j \in Jobs : observePool(h, j) \/ actPool(h, j))
    /\ \A c \in Computers : WF_vars(JobRuns(c)) /\ WF_vars(Receipt(c)) /\ WF_vars(Fleet(c))
FairSpec == Spec /\ Fairness

-----------------------------------------------------------------------------
\* What the code gets wrong, and the next three properties except: AWS refused the
\* start of the host's provision to one caller or attempt, and accepted another.
\* outcome() takes the refusal for proof that nothing runs and retires the row.
Disowned(h) == <<h, Provision>> \in refusals /\ exec[h][Provision] # "absent"

\* A machine that is up has a row that counts it and that some pass looks at: no
\* sequence of lost answers, repeated starts, failed executions and late outcomes
\* writes off a row ("retired") whose launch still happens, unless it is disowned.
NoLeakedMachine ==
    \A h \in Hosts :
       ec2[h] \in {"pool", "claimed"} /\ ~Disowned(h) => row[h].state \notin {"none", "retired"}

\* The data disk of a computer is only ever on a machine that runs and whose row
\* is leased to that computer, or is given up but still names it: a host is not
\* ended, returned or leased again under an attached disk.  A disowned host may be
\* written off under the disk, but runs and still names the computer.
AttachedHostIsBound ==
    \A c \in Computers : vol[c] # NoHost =>
        /\ ec2[vol[c]] \in {"pool", "claimed"} /\ row[vol[c]].lessee = c
        /\ row[vol[c]].state \in {"leased", "retiring"} \/ Disowned(vol[c])

\* A host that may read a claim reads the one of its computer's current epoch,
\* and the disk the claim names is attached to it while the computer starts or runs.
ClaimIsCurrent ==
    \A h \in Hosts : row[h].state = "leased" /\ row[h].claim # 0 =>
        LET c == row[h].lessee IN
        /\ place[c].host = h /\ place[c].epoch = row[h].claim
        /\ place[c].st \in {"ADOPTING", "RUNNING"} => vol[c] = h

\* A host that a capacity demand gave up is not adopted by another open before it
\* is retired: the vCPUs the demand waits for would never come free.
EarmarkedNotAdopted == \A h \in demand.hosts : row[h].lessee = Nobody

\* Spares, adopted hosts and cold machines together never exceed the region's
\* cap, although hosts are launched after the lock is gone and rows lag behind;
\* a disowned host's machine is one no count knows of.
WithinCap ==
    Cardinality({h \in Hosts : ec2[h] \in {"pool", "claimed"} /\ ~Disowned(h)})
      + Cardinality({c \in Computers : place[c].st = "COLD"}) <= Cap

\* A host serves one computer, once: what was leased or given up never goes back
\* to the pool, is leased to nobody else, and retired is for good; a disowned host
\* written off by its refusal may still be found failed.
SingleUse ==
    [][\A h \in Hosts :
          /\ row[h].state \in {"leased", "retiring", "failed", "retired"} =>
                row'[h].state \notin {"none", "booting", "ready"}
          /\ row[h].state # "ready" => row'[h].lessee \in {row[h].lessee, Nobody}
          /\ row[h].state = "retired" =>
                \/ row'[h].state = "retired"
                \/ row'[h].state = "failed" /\ Disowned(h)]_vars

\* reconcileDeletedAwsComputers: drive every deleted computer's placement to RETIRED.
DeletedPlacementRetires ==
    \A c \in Computers :
       (c \in deleted /\ place[c].epoch > 0) ~> place[c].st = "RETIRED"
=============================================================================
