# EZiL-OS: the life of an AWS computer, specified, checked and proved

EZiL-OS gives a user a desktop in the browser. Each user's computer runs on an
EC2 instance that is booted when it is opened, reached through a Cloudflare
tunnel, stopped when it is idle and replaced when it is lost. The code that
decides all this is stateless (serverless handlers and cron routes over one
Postgres database), talks to four services that can fail or not answer, and
spends money whenever it is wrong. These modules specify that part of the
repository: TLC checks them on small instances, TLAPS proves the safety
properties that matter most for every instance.

Paths below are relative to `src/`; `compute/` stands for
`app/src/server/lib/compute/`.

## 1. Inventory

### The parts, their state and how they interact

| Part | Source | State | Operations |
|---|---|---|---|
| Placement state machine | `compute/placement.ts` | one row per computer: state, generation, lease epoch, instance, volume, fence token, job, nonce, last_error; usage rows | create, lease, compare-and-swap transitions by owner and by reconciler, enrollment writes, usage effects, counters |
| AWS compute provider | `compute/aws-ec2.ts`, `app/src/server/api/routers/computer.ts` | none of its own | `ensure` (open), `stop`, `terminate` (delete), `status`, `activity` |
| Receipts and background passes | `compute/aws-receipts.ts` | none of its own | apply a lifecycle receipt, settle an unknown start, guest stop, lost instance, caps, host retire, fleet pass, deleted-computer pass |
| Replacement settlement | `compute/aws-rebase-generation.ts` | none | give a failed replacement's generation back, on EC2 evidence |
| Host enrollment | `compute/aws-enroll.ts` | the row's nonce and last_error | verify identity, consume nonce, create tunnel, finish |
| Lifecycle workflow | `infra/app-computers/lib/lifecycle/`, `.../lifecycle-authority/route.ts` | Step Functions executions | observe EC2, ask the authority, one EC2 call at a time |
| Worker tunnel registry | `worker/src/aws-tunnels.ts` | durable object storage per computer: record, fence, pending create; tunnels and CNAMEs at Cloudflare | create, remove, verify origin, replay, aiNonce, restartPush |
| Admission | `compute/admission.ts` | advisory lock, counters over all rows | count, decide, boot in the same transaction |
| Capacity demand | `compute/capacity-demand.ts`, `compute/aws-pool-demand.ts` | demand rows with deadlines | reserve, claim, expire, cancel, reset, sweep |
| Ready pool | `compute/ready-pool.ts`, `compute/aws-pool-*.ts` (`aws-pool-replenish.ts` among them) | host rows: state, job, dispatch, lessee, published claim, earmark | provision, enroll, lease, claim, adopt, release, recover, replenish, reclaim for a demand |
| Desktop config asks | `worker/src/aws-ice.ts`, `worker/src/aws-restart.ts`, `infra/host-agent/lib/ezil_host/`, the record's `restartPush` fields | none of their own | read record and host status, claim, push, release, record; staged config of the Restart route |
| Provider migration, image rebase | `compute/provider-migrate-*.ts`, `compute/aws-rebase-*.ts` | migration and image-job rows | long-running moves over the same row |
| Billing, AI credit outbox | `app/src/server/billing/` | subscriptions, credits, outbox | webhooks, grants, delivery |
| Host agent, Worker edge, shell, native, macOS, SDK, MCP | `infra/host-agent`, `worker`, `shell`, `native`, `macos*`, `sdk`, `mcp` | local | user interface, proxying, request wrappers |

An open goes through most of it: the provider *admits* the request (lock,
counters, decision) and in the same transaction *leases* the row for the next
epoch with a job recorded on it; it then starts the lifecycle *execution*, which
asks the *authority* endpoint before each EC2 call; the booted host *enrolls*,
which makes the Worker create the epoch's *tunnel*; the *receipt* path, run by
whoever looks next (the owner's poll or a cron pass), reads the execution's
result and moves the row to RUNNING. Nothing holds a lock across these steps:
every one is a compare-and-swap on a row read earlier.

### What is hard

* Every handler acts on a row it read before several external calls; requests of
  two tabs, two cron passes and the host's own call interleave freely.
* StartExecution, the tunnel create and the tunnel remove may be performed
  although no answer came back. Executions go on when the row has moved.
* An invocation may end (serverless timeout) between recording a job and
  starting it.
* Cleaning up one epoch may overtake, or be overtaken by, the creation of the
  next one.
* Admission counts with several READ COMMITTED statements while placements move
  without its lock; `now()` in its transactions is the time they began, not the
  time they got the lock.
* Somebody must always finish the job: after a delete the owner never returns.

`PROJECT.json` lists these hazards at their lines with the properties that
would catch each one going wrong.

## 2. Modules

| Module | Models | Kind |
|---|---|---|
| `Placement` | row, invocations, executions, EC2, tunnel and usage of one computer | composition of the parts an open goes through |
| `PlacementProofs` | types and legal edges | proofs |
| `PlacementRestProofs` | what is running, and which calls are still to come | proofs |
| `PlacementSessionProofs` | what a running computer has, and what its session leaves at the Worker | proofs |
| `TunnelRegistry` | the Worker's durable object for one computer | component, each `await` a step |
| `EpochFence` | what the registry promises | abstract specification |
| `TunnelRegistryProofs` | with the refinement of `EpochFence` | proofs |
| `DesktopPush` | the asks for a desktop's config and its host | extends `TunnelRegistry`: registry, asks and host composed |
| `DesktopPushProofs` | with the refinement of `TunnelRegistry` | proofs |
| `Admission` | the admission transaction over all computers and their demands | component, each statement a step |
| `AdmissionProofs` | | proofs |
| `CapacityDemand` | the open attempts of one computer over time | component |
| `CapacityDemandProofs` | | proofs |
| `ReadyPool` | warm hosts, their jobs and machines, and the computers that adopt them | component |
| `ReadyPoolProofs` | | proofs |
| `MC*` | small instances for TLC | |

### Placement

State: `row` (the placement record, with `job = 0` for a null job id), `deleted`
(the computer's soft-delete), `usage` (instances with an open usage row), `exec`
(executions by job), `inst` (EC2 instances, named by the epoch that launched
them), `vol` (the data volume: attached where, tagged with which fence token),
`tunnel` (record and fence of the Worker's registry), `proc` (the invocations:
where each is, and the row it read), and two clocks as flags, `aged` (the row is
older than the settle or retry window) and `expired` (the enrollment deadline
and grace passed).

Invocations are requests of the owner (`Users`), background passes (`Crons`) and
enrollment calls (`Hosts`). One that begins reads the row (`Begin`), applies the
receipt of its job if there is one (`applyLifecycleReceipt`, whose fences and
swaps are separate steps), re-reads (`ReRead`), looks at EC2 (`Look`: guest
stop, lost instance), and acts (`Act`: caps, create, lease, stop, retire,
release, delete). Recording a job and starting it are two steps, and `Crash`
may come between any two. `StartExecution` may go unanswered, in which case the
execution exists, appears later (`LateStartExecution`), or never. An execution
observes (`observe`), is authorized (`ExecArm`), and performs the EC2 call later
(`ExecMutate`). Of the phase the helper carries from call to call one bit
matters: `ran`, that a launch was entered, or that a start is past its boot and
only waits for the instance.

Abstractions. The cold path only: opens from the ready pool are `ReadyPool`'s
subject; image rebase and moves between providers are left out. `status` and `activity` take a subset of the steps of a fleet
pass. The second look `ensure` takes at a RUNNING row is merged with the first.
Lease renewals and presence write only fields no guard here reads. The
description of a *finished* execution and the first swap on it are one step (a
finished execution does not change). ModifyInstanceAttribute and StartInstances
are one call, and terminating detaches the volume. `gone` stands both for
terminated and for no longer listed; EC2 never loses the volume. The describe
call fails as a fault (`LookPassed`, `ReceiptFailed`). Branches for a receipt
that contradicts the row are omitted because `ReceiptFits` shows they are never
reached, and the `illegal_transition` answers because `EdgesAreLegal` does.
What admission refuses is one nondeterministic outcome here; `Admission` decides
it. The registry is reduced to the record and fence that `TunnelRegistry` shows
it to promise.

### TunnelRegistry and EpochFence

`fence`, `record`, `verified` and `pending` are the durable object's storage;
`tunnels`, `cnames` and `writes` (CNAME writes sent and not yet settled) are
Cloudflare; `op` is the one operation the serial queue runs; `acked` is a
history variable, the highest epoch whose removal was answered. Each `await` is
a step. `Abort` ends an operation after any of them: a failed call, a lost
answer, an eviction. Requests that are refused, and replays, read only. The
generation is left out (a lease epoch belongs to one generation). `aiNonce` and
`restartPush`, which rewrite other fields of the record, are not modelled. An
outstanding leg settles before the object is evicted; whether Cloudflare applies
a write whose client is gone is outside this repository.

`EpochFence` is the promise the callers rely on: one epoch served at a time, an
epoch that was cut off never served again. `KeepsPromise` maps `served` to
`liveRecord` and `cut` to `fence`.

### DesktopPush

A running desktop takes a config only by restarting, so the windows that ask for
it every two seconds must share one push. `push` are the `restartPush` fields of
the record for the host's present boot, `host` is the machine of one lease epoch
(desktop down, applied or unapplied; config held or not), `ask` the asks under
way. An ask reads record and host status in one step (what changes between the
two reads is refused by the compare that follows), claims (`expected`: the
record still shows the push the ask read), pushes, and records or releases; each
call can be lost or slow. Times are only compared for equality with what was
read, so an ask keeps whether that is still current.

The compare is per boot: an ask left from before a reboot could be granted over
the new boot's claim. The model assumes a reboot outlasts the calls of the asks
it leaves behind (`reboot` ends them), and that the registry answers fast enough
for mint (20 s) and push (8 s) to end within a claim's 40 s (a guard of `Tick`).
A fenced record is never read again, so its fields, its host and its asks end
with the fence. A host without a boot id (an older AMI) is not modelled.

### Admission

Rows and demands of all computers, the requests that wait for the advisory lock,
the transaction that holds it and what it has counted. `countRunning`,
`countRegions` and `countUserAndDemands` are separate steps; between them any
placement may move along its edges (`transition`), be soft-deleted, and any
deadline may pass. `decide` is `runAdmission` up to `decideAdmission` and
`boot`/`rollback`/`poolPressure` its ends. `reservePoolDemand` is a second
transaction that begins some time after the rolled-back one. A transaction's
`now()` is modelled by `dead`, the demands whose deadline had passed when it
began.

`BUSY` is the quotient of the running-class states between lease and RUNNING;
`FAILED` is UNCONFIRMED with `ENROLLMENT_FAILED`. `held` is set when an
admission lets a computer boot and cleared at rest. Demands change only under
the lock, so the two counters over users and demands are one step. Answers of
the pool and refusals for plan, usage cap or kill switch are nondeterministic.
The deployment is in pool mode. `ensure` answers ok for a RUNNING computer, so
only stopped and failed ones are leased; `replaces` keeps `runAdmission`'s
RUNNING branch. `Offered` are the types a computer's plan and choice of size may
resolve to; `Deletable` (the computers deleted) and `MaxWaiting` are bounds.

### CapacityDemand

The rows of `ezil_compute_capacity_demands` of one computer, in insertion order,
with begin-time dates: a logical clock ticks at every BEGIN and at every
deadline, and transactions run in the order they get the lock. `owner` records
which act of the owner released a row and `marker` tells marker rows from
attempts; both are history. No transaction waits for the lock as long as the
300 s life of a demand.

### ReadyPool

`row` are the rows of `ezil_compute_pool_hosts`, `place` the placements as far as
the pool acts on them, `exec` the executions of each host's jobs (the first is
its provision, every later one a pool-retire), `calls` the start calls under way
and the refusals still to be written, `refusals` (history) the jobs whose start was
refused to some caller, `ec2` each host's machine and tags, `vol`
where each computer's data disk is attached. Transactions under the admission
lock are one step; the host's enrollment, the dispatcher's outcomes and the
executions act without the lock on what a row said before.

One instance class of one vCPU; ages (a spare too old, a claim stalled, a
dispatch to retry) are choices of the planner, so every age is covered; a lease
that misses a ready host by `SKIP LOCKED` or the volume check is `openCold`,
always possible. `planPool`'s arithmetic over several classes, the release at a
production open and the retry of a release on a newer deployment are left out.

`startLifecycleJob` is all attempts of one caller. It may be refused although an
earlier attempt, or another caller's, was accepted, and be accepted after another
caller was refused; `reconcile` may also act on a pending row it read before the
refusal was written (`ReadPending`). `outcome` takes any refusal for proof that
nothing runs, so a provision can be written off while its launch goes on (finding
2). `Disowned` names such hosts, and `NoLeakedMachine`, `AttachedHostIsBound`,
`WithinCap` and `SingleUse` except them and nothing else. Without the exception
`NoLeakedMachine` and `WithinCap` are false of the code: TLC needs six states to
write off a machine that comes up, and eight to have three machines under a cap
of two.
Dispatch `pending`, `unknown` and `started` are read alike everywhere.

## 3. Runs

| Run | Instance | Checks |
|---|---|---|
| `placement_wake` | stopped or running computer, two owner requests (symmetric), no cron and no host, wakes in place and by replacement, 3 epochs, 3 jobs, 1 fault or crash | `NothingRunsAtRest`, `ReceiptFits`, `LeaseIsExclusive` |
| `placement_session` | first open or running computer, 2 jobs from there, one owner request, one cron, one host, both wakes, 2 epochs, 1 fault or crash | `TypeOK`, `NothingRunsAtRest`, `RunningIsReachable`, `OneInstanceRuns`, `NoTunnelAtRest`, `RunningOwnsVolume`, `EdgesAreLegal` |
| `placement_delete` | any start, 1 epoch, 4 jobs, no crash, fair | `DeletedIsRetired` |
| `placement_no_enrollment` | stopped computer, no host enrolls, 2 epochs, 4 jobs, fair | `WakeSettles`, `FailedHostEnds` |
| `tunnel_registry` | registry composed with two asks and a host: 2 epochs, claim 1 and apply 2 ticks, 1 fault, fair | `TypeOK`, `NoOrphan`, `OneEpochExists`, `NoDanglingName`, `RemovalIsFinal`, `KeepsPromise`, `OnePush`, `NoRepush`, `UnappliedIsEarned`, `NeverEndlessStarting` |
| `admission` | three computers of two users (c1 of either size, c2 small, c3 large), region budgets 1 and 2, fleet budget 2, c1 wakes once and is deleted | `TypeOK`, `WithinCaps`, `OnePerOwner` |
| `capacity_demand` | 10 ticks, 2 epochs, 2 transactions under way | `TypeOK`, `NoSilentRestart`, `RetryReleases` |
| `ready_pool` | two host rows, two computers (one is deleted, and its open may find no spare and reserve or go cold), cap of two, 1 epoch, 1 fault | `TypeOK`, `NoLeakedMachine`, `AttachedHostIsBound`, `ClaimIsCurrent`, `EarmarkedNotAdopted`, `WithinCap`, `SingleUse` |
| `placement_crash` | running computer, with crashes, fair | violates `DeletedIsRetired` |
| `placement_flaky_refusal` | a refusal after an accepted attempt | violates `NothingRunsAtRest` |
| `capacity_demand_stop` | 7 ticks | violates `StopReleases` |
| `ready_pool_delete` | one host, one computer, no fault, fair | violates `DeletedPlacementRetires` |

Each property of a passing run has a mutant in `PROJECT.json`: a plausible bug
of the code under which TLC finds the property violated on the same instance.

**Why the bounds are enough.** In `Placement` two epochs give an old and a new
lease, instance, tunnel and job, and everything stale belongs to *an* older
epoch (`placement_wake` has three, so that two stale ones differ); two jobs
are a boot and the stop or failed boot it follows; a third is the retire after
it; four allow a retire to be refused, lost and repeated. One fault at any point is what
the code claims to survive by design; the fault may be an unanswered call, a
failure, a lost instance, a guest shutdown or a crash. The safety properties of
`placement_wake` and `placement_session` are also proved for every bound; where
they need it, under the same assumption as these runs, that AWS refuses no start
it had accepted (`FlakyRefusal`, section 5; `ReadyPool` does not assume it). The registry is proved for every set of
epochs; its run is the composed one. In `Admission` the lock holder and one
waiting request are the two transactions a race needs (the lifecycle moves
without the lock). A small machine has 1, a large one 2 units. c1 comes to a
smaller type by a wake and by the replacement of a RUNNING or FAILED machine; a
growth where it is finds the fleet's budget sufficient and its region's not, and
a small beside a large machine finds each region's sufficient and the fleet's
not. Within this instance no two machines are up together and no growth in place
succeeds: two small machines in two regions have too many states for a run, and
are covered by `BudgetsHold`, which is proved for all sizes, regions and budgets.
`CapacityDemand` has room for an attempt that
expires, its release and a second attempt, with two transactions overlapping.
In `ReadyPool` two rows and two computers allow a host to be wrongly given to
the second computer while the other row fills the cap; one fault reaches every
retire that is renewed, and a start that is refused after it was accepted, or
accepted after it was refused to another caller. One computer (`ColdOpens`,
`Deletable`) is the one that opens cold, reserves or is deleted, the other only
leases; the theorems let any of them do all. `CHECK_DEADLOCK FALSE` stands where a bound is reached,
or a computer is purged and nobody asks for anything.

**Fairness.** The liveness properties assume it. In `Placement` an invocation
that has begun goes on (WF on `Handle`; without `Crash`), Step Functions drives
its executions and retries its own tasks (WF on `Workflow`), time passes (WF on
`Age` and `Expire`), and the cron ticks for ever and rotates over all rows, so
each kind of pass looks at this row again and again (SF on `Begin` of `Crons`: a
pass is skipped while another is under way). Nobody has to open, stop or delete,
and no host has to enroll. In `DesktopPush` the windows ask again every two
seconds and the registry's queue is first in, first out (SF on the asks, since
other operations go between); host statuses need not fail. In `ReadyPool` (only
`ready_pool_delete`) the minutely pass runs again and again, executions end, and
the fleet's passes go on; that run excludes faults, so its counterexample is not
one that fairness lets starve.

## 4. Findings

1. **A crash strands a delete** (`placement_crash`, `aws-receipts.ts:510`). A
   stop is recorded, the invocation ends before StartExecution, and the row
   carries no `lifecycle_start_unknown` mark. The delete that follows is
   accepted because a job is recorded; no pass ever starts it. The documents
   say one delete is enough. Without the crash `DeletedIsRetired` holds.
2. **A late refusal undoes a started boot** (`placement_flaky_refusal`,
   `aws-receipts.ts:239`). `refused` is returned for a permanent refusal on any
   attempt, also after one that got no answer and may have been accepted. The
   row goes back to STOPPED while its execution has an instance booting. The
   other Placement runs assume a start is never refused after it was accepted.
   In the pool `outcome` (`aws-pool-dispatch.ts:110`) writes the row of such a
   provision `retired`; its machine comes up, or goes on running, and no count
   or pass looks at it. `ReadyPool` includes this, and excepts these hosts.
3. **A stop can be dated too early** (`capacity_demand_stop`,
   `capacity-demand.ts:193`). The release marker of a stop carries its
   transaction's begin time; a sweep that began later but got the lock first
   dates the attempt's end after it. The stop is answered, and the next open is
   refused as expired. `Retry` is not exposed to this (`RetryReleases`).
4. **A deleted computer on an adopted host is never retired**
   (`ready_pool_delete`, `infra/app-computers/lib/lifecycle/helper.ts:552`). The
   retire of a running computer looks for its machine by the tags of a cold
   launch, which a host adopted from the pool does not carry: the job fails, is
   recorded again by the next pass, and fails alike, without any fault.

Two more were met without a run of their own:

* **The reconciler's swap does not compare the job** (`compute/placement.ts:1195`).
  Two passes may both have read an absent, aged retire j1. One settles it; the
  refused retry puts the row back to STOPPED. The next delete records j2, whose
  start is lost and marked alike, and whose execution, running, has its terminate
  authorized. The other pass now settles j1 with the swap of what it read, which
  fits the row, and takes back j2. An open leases the next epoch from STOPPED
  while j2's terminate is still to be performed on the old instance.
  `LeaseIsExclusive` therefore allows the calls of stops and retires of an
  earlier lease, and proves that nothing else is left. The scenario takes three
  owner requests, two passes and four faults, more than a run here has; the
  attempt to prove the stronger property led to it, and a guided TLC search
  confirmed it.
* `savePoolEnrollmentNonce` (`placement.ts:2015`) writes `updated_at` with
  microseconds where every other writer is asked for whole milliseconds, so that
  `failStalledPoolEnrollment`'s compare may never match. Seen by reading;
  `ReadyPool` lets the stall be missed, so its properties hold either way.

## 5. Theorems

All are proved for every value of the constants under the modules' named
`ASSUME`s, which TLC evaluates on the instances. The runs check the same
formulas on small ones, and the inductive invariants were checked with TLC
before they were proved.

**`TunnelRegistryProofs`**: `TypeCorrect`, `NothingOrphaned`,
`EpochsDoNotOverlap`, `NamesResolve`, `RemovalsAreFinal`, and `PromiseKept`,
that the registry implements `EpochFence`. The properties are not inductive
alone: whether a tunnel may exist depends on where the running operation is. The
invariant `IInv` adds `OpOK` (which epochs an operation at each await can have),
`CloudOK` (what can be at Cloudflare there), `MarkerOK` (beside a record there
is no marker but its own) and `AckedOK` (every answered removal is covered by
the fence or older than the record, and what storage still names is newer).

**`DesktopPushProofs`**: `DesktopKeepsRegistry` (the composed system is a
`TunnelRegistry`, so all of the above holds of it), `OnlyOnePushes`,
`NothingIsPushedAgain`, `UnappliedOnlyWhenEarned`. `DInv` adds to the types
`HoldsOK` (what an ask or the record says of the held config is so), `PushOK`
(a pushing ask owns the record's claim, younger than its bound, or its claim was
replaced) and `CallOK` (a call compares what its ask read).

**`AdmissionProofs`**: `TypeCorrect`, `OneComputerPerOwner`, `DemandsNeverCollide`
(the unique indexes of the demand table are never hit) and `BudgetsHold`
(`WithinCaps`, for any budgets and any sizes of computer). `IInv` adds `AloneOK`
(once the user's placements and demands are counted as none, nothing the other
actors do before the boot can give the user one: rows come only from an
admission, and demands change only under the lock) and `DeadOK` (the demands a transaction takes for dead are not live: a passed
deadline does not come back, and a new demand's deadline lies ahead of every
transaction that has begun). `CapInv` is the argument for the budgets: only the
lock holder lets a computer boot or promises it a boot, so what is held and
promised can only shrink under its statements (`ShrinkingKeepsCaps`) and each
counter stays an upper bound (`CountOK`); a replacement may subtract its own slots
because a computer that runs or failed to enroll was held, hence counted
(`HeldOK`, `ReleasedCounts`); what was admitted fits beside the others until it is
written (`AdmittedOK`). A sum is the cardinality of a set of slots, so the proof
needs no induction over the fleet; that a computer uses its old slots or its new
ones, not both, is `OwnOverlap`.

**`CapacityDemandProofs`**: `DemandTypes`, `PollingRestartsNothing` and
`RetriesRelease`. `IInv` says of the rows that they are in the order of their
sources (`InOrder`), dated no later than the clock (`Dated`), that between two
attempts of one source stands an act of the owner, and that an expired attempt
is released by its owner or left behind by a new lease or the delete
(`ReleasedByOwner`); of the handlers, that a Retry under way began after its
attempt had ended, which is why its marker's date suffices where a stop's does
not (finding 3).

**`ReadyPoolProofs`**: `TypeCorrect`, `MachinesAreNotLeaked`, `DisksStayBound`,
`ClaimsAreCurrent`, `EarmarksHold`, `HostsServeOnce` and `RegionHolds`. `IInv` relates each row
to its jobs and each job to its machine (`HostOK`), the computer's job to host
and disk (`PlaceOK`), the claims that may be out to the epochs (`ClaimOK`), and
each refusal still to be written to one AWS gave (`CallOK`). No assumption is
made on refusals: a refused job may have been accepted, or be accepted later, and
where a clause of `HostOK` needs that a job was not refused it says so. `SingleUse`
follows row by row (`UsedOnce`). What the transactions check, `vcpuInUse <= Cap`, is not invariant:
deleting a stopped computer makes it count again while another may have taken
its room. `RoomInv` bounds what does not come back, the rows that are neither
unborn nor retired and whose provision was refused to nobody, plus the cold machines; `UseCovers` shows that `vcpuInUse`
counts at least those (a host a live placement names is counted with it, and no
two hosts with one placement), so every insert and every cold open leaves them
within the cap. `WithinCap` follows, because a machine that is up has such a row or
is disowned.

**`PlacementProofs`**: `PlacementTypes` and `EdgesLegal`. `Inv1` carries what
each invocation read to its next swap: a row it is about to write from is of a
state its step may leave, and the undo state of a recorded job is one its
state may go to.

**`PlacementRestProofs`**: `RestIsRest` (`NothingRunsAtRest`),
`InstancesExclude` (`OneInstanceRuns`), `ReceiptsFit` (`ReceiptFits`) and
`LeasesExclude` (`LeaseIsExclusive`). They follow from `Inv2`, which adds to
`Inv1`:

* `JobsInv`: a boot's job has a call to be performed only while the row waits
  for it; a start boots its instance once; a replacement's source has ended
  before its target is launched; a stop or retire that succeeded leaves the
  computer down. One boot per lease (`OneBoot`).
* `RowInv`: the job a row names fits its state (`JobFits`); whatever is alive is
  the row's instance or, while it knows none, the source or target of its boot
  (`AliveInv`); a row at rest is `Down`, for good until the next lease.
* `ProcsInv`: what an invocation read still says of the row while the lease is
  the same. An invocation that may still take a boot back is the only one that
  starts it (`OneStarter`); the evidence that a replacement did not happen
  cannot be overtaken before the swap that uses it (`GenerationInv`); an
  enrollment's boot is over (`EnrollInv`).

The frame of the proof is `Evolves`: what one step may change under an
invocation that does not take it (a generation only goes back within its lease,
what has ended stays ended, the boot is left for good). Each handler is shown to
evolve and to leave what it goes on with. Hypothesis: `FlakyRefusal = FALSE`,
AWS does not permanently refuse a start it already accepted. Without it the
theorem is false: `placement_flaky_refusal` is the counterexample.

**`PlacementSessionProofs`**: `SessionsEnd` (`NoTunnelAtRest`), from `TunnelInv` on
top of `Inv2`, and so under the same hypothesis. A row at rest is `Untunneled`:
there is no record, and what an enrollment under way may still ask for is fenced.
Most ways to rest go through a removal: an invocation about to take its final swap
(`Fencing`) has fenced the lease it read. The others take a boot back whose host
cannot have enrolled: a start Step Functions does not know (`IdleStart`), and a
retire of a computer already at rest (`MarkedEnd` in the row, `RestUndo` in the
invocation that may still write it). The invariant names these three, as none of
them is fenced at the swap that brings the row to rest. `TunnelMoves` is all that may happen
to the tunnel in one step.

The same module proves `RunningReachable` (`RunningIsReachable`) and `RunningOwns`
(`RunningOwnsVolume`), from `SessInv` on top of `Inv2`. Neither is inductive over the
rows that are RUNNING: the retire of a running computer may be taken back, by its
caller when the start is refused (`Returns`) or by any receipt once its mark
`unknown:RUNNING` has aged, and in between the row is RETIRING, UNCONFIRMED or
RECOVERING. `SessInv` therefore keeps the tunnel (`Ready`), and the volume and the
meter (`Owns`), for every row that is `Up`: it runs, or may be shown RUNNING again. It
says besides:

* of the row (`RowSess`): from MOUNTING on it owns its volume and its meter; a boot
  whose enrollment is finished is ready, and one whose enrollment is pending knows its
  instance. At most one invocation may take the retire back (`OneReturns`), and none
  while the row is RUNNING or marked. No row that may return has an error of a host's
  retire.
* of the jobs (`JobSess`): a boot that succeeded holds the volume under its fence
  token; a retire that ended has left its source gone; a lease whose computer may run
  has had no stop, and its boot is done.
* of the invocations (`ReadSess`, `ProcSess`): the errors and the instance in what each
  has read; an enrollment about to finish has its tunnel.

A swap within the lease is one of three: the row cools (what may still return keeps what
it owns), a boot goes on up to RUNNING, or a running row and its retire turn into each
other (`Cooled`, `Boosted`, `Turned`). A removal for the row's own lease is asked for
only when its instance is gone or the computer cannot come back (`FenceSess`), one for
an earlier lease leaves a newer record (`FenceLeaves`), and the Worker makes no second
tunnel of an epoch (`AnswerSess`).

What proving changed in the model: a start's phase (`ran`) is now remembered
(without it an instance that shut itself down was booted twice by one start, a
behaviour the bounds had hidden and the code excludes); overlapping `CASE`
guards of the helper were made disjoint; `LeaseIsExclusive` was restated
(section 4).

**Only model-checked.** Liveness and everything about fairness: `ENABLED` is out of the
prover's reach. Every safety property the passing runs check is also stated by a theorem.

## 6. Not modelled

Provider migration, image rebase, `aiNonce` and billing are not modelled yet
(section 7). The edge proxy, shell, native, macOS, SDK and MCP clients keep no
state the control plane relies on; the host agent appears by its calls
(enrollment, claim, idle shutdown) and, for the desktop's config, as the host of
`DesktopPush`. Cryptographic checks of the enrollment are one guard. A first
boot whose host never enrolls stays PROVISIONING: the code bounds only a wake's
enrollment, and `WakeSettles` says no more than that.

Most of the repository's lines are user interface (`shell/`), native and macOS
clients, proxies, tests and wrappers of AWS and Cloudflare calls. They hold no
protocol state, so the mapped share of all lines is small; of the files that
decide the life of a computer about a quarter of the lines is modelled, the rest
being queries, parsing, logging and the branches named above.

## 7. Plan

Done: `Placement`, its runs, types, edges, the safety of jobs and instances, what a
running computer has and the end of its tunnel proved; `TunnelRegistry`,
`EpochFence`, `DesktopPush`, `Admission`, `CapacityDemand` and `ReadyPool` with proofs.

Next, in this order:

1. AI credit outbox (`billing/ai-credit-outbox.ts`): one account per root,
   restore after suspend, the kick that may be lost while a delivery parks;
   at-least-once delivery against a ledger that applies each key once
   (abstract specification and refinement).
2. Provider migration and the reverse move: a second long-running protocol on
   the same row; fencing of the old provider before the new one serves.
3. Image rebase: preparation, permit, recovery.
4. `aiNonce`, billing reversals.

Related questions about one module share a run, so that new modules replace runs
rather than add to them.
