------------------------------ MODULE Placement ------------------------------
(***************************************************************************)
(* One AWS computer: its placement row (compare-and-swap only), the        *)
(* control-plane invocations that move it (requests of its owner, the      *)
(* background passes, the enrollment endpoint), the lifecycle executions   *)
(* they start, and the EC2, tunnel and usage state those leave behind.     *)
(*                                                                         *)
(* An invocation reads the row once and later swaps on what it read, so    *)
(* every read, every external call and every swap is a step of its own and *)
(* the invocations interleave between them.  An invocation can die between *)
(* any two steps.  The cold path is modelled: no ready pool, no image      *)
(* rebase, no provider move.                                               *)
(***************************************************************************)
EXTENDS Naturals, FiniteSets

CONSTANTS
    Users,         \* concurrent requests of the computer's owner
    Crons,         \* concurrent background passes
    Hosts,         \* concurrent calls of the enrollment endpoint
    MaxEpoch,      \* bound: leases (lease_epoch) of the computer
    MaxJob,        \* bound: lifecycle jobs ever recorded
    BootJobs,      \* bound: the same, of a computer not yet booted
    MaxFaults,     \* bound: failures, losses and deaths of the environment
    Born,          \* the states the computer starts in: "NONE" before its
                   \* first open, else at rest after its first boot
    WakeModes,     \* whether a wake of an intact instance replaces it
    Crashes,       \* may an invocation die between two steps
    FlakyRefusal   \* may AWS permanently refuse a start it already accepted

ASSUME BoundsAssumption ==
    /\ MaxEpoch \in Nat \ {0}
    /\ MaxJob \in Nat \ {0}
    /\ BootJobs \in 1..MaxJob
    /\ MaxFaults \in Nat
ASSUME ConfigAssumption ==
    /\ Born \subseteq {"NONE", "STOPPED", "RUNNING"} /\ Born # {}
    /\ WakeModes \subseteq BOOLEAN /\ WakeModes # {}
    /\ Crashes \in BOOLEAN
    /\ FlakyRefusal \in BOOLEAN
ASSUME ProcsAssumption ==
    /\ Users \cap Crons = {} /\ Users \cap Hosts = {} /\ Crons \cap Hosts = {}

Epochs == 1..MaxEpoch
Jobs == 1..MaxJob
Procs == Users \cup Crons \cup Hosts

PlacementState ==
    {"PROVISIONING", "STOPPED", "LEASED", "STARTING", "MOUNTING", "RUNNING",
     "DRAINING", "STOPPING", "UNCONFIRMED", "RECOVERING", "RETIRING",
     "RETIRED", "PURGE_ELIGIBLE"}

\* The edges a transition may take, and those only the reconciler may.
PLACEMENT_TRANSITIONS ==
    [PROVISIONING |-> {"RUNNING", "STOPPED", "UNCONFIRMED"},
     STOPPED |-> {"RETIRING"},
     LEASED |-> {"STARTING", "STOPPED", "UNCONFIRMED"},
     STARTING |-> {"MOUNTING", "UNCONFIRMED"},
     MOUNTING |-> {"RUNNING", "UNCONFIRMED"},
     RUNNING |-> {"DRAINING", "RETIRING", "UNCONFIRMED"},
     DRAINING |-> {"STOPPING", "UNCONFIRMED"},
     STOPPING |-> {"STOPPED", "UNCONFIRMED"},
     UNCONFIRMED |-> {"RECOVERING"},
     RECOVERING |-> {"STOPPED", "RETIRING", "UNCONFIRMED"},
     RETIRING |-> {"RETIRED", "STOPPED", "RUNNING", "UNCONFIRMED"},
     RETIRED |-> {"PURGE_ELIGIBLE"},
     PURGE_ELIGIBLE |-> {}]
RECONCILER_TRANSITIONS ==
    [state \in PlacementState |->
        CASE state = "RUNNING" -> {"STOPPED"}
          [] state \in {"UNCONFIRMED", "RECOVERING"} -> {"RETIRED"}
          [] OTHER -> {}]

\* last_error of a start whose answer was lost, with the undo state it carries.
RecordedUndo ==
    [m \in {"unknown:STOPPED", "unknown:RUNNING", "unknown:UNCONFIRMED",
            "unknown:UNCONFIRMED:host_retire"} |->
        CASE m = "unknown:STOPPED" -> "STOPPED"
          [] m = "unknown:RUNNING" -> "RUNNING"
          [] OTHER -> "UNCONFIRMED"]
StartUnknown == DOMAIN RecordedUndo

\* Mutant: the prefix of last_error is not cut off.
UndoNotParsed(s) == s.err

lifecycleStartUnknownUndo(s) ==
    IF RecordedUndo[s.err] \in PLACEMENT_TRANSITIONS[s.state]
    THEN RecordedUndo[s.err] ELSE "UNCONFIRMED"

LastError ==
    StartUnknown \cup
    {"none", "enroll_tunnel_pending", "enroll_succeeded",
     "enroll_tunnel_failed", "enroll_host_retire", "instance_lost",
     "lifecycle_start_failed", "failed", "session_limit",
     "deleted_recovery", "released_no_resources"}

ENROLLABLE_STATES == {"PROVISIONING", "STARTING", "MOUNTING"}
IN_FLIGHT_STATES ==
    {"PROVISIONING", "LEASED", "STARTING", "MOUNTING", "DRAINING",
     "STOPPING", "RETIRING"}
\* Mutant: a stopped placement is thought not to need its retire.
RetirePendingUnlessStopped ==
    {"RUNNING", "DRAINING", "STOPPING", "RETIRING", "UNCONFIRMED", "RECOVERING"}
RETIRE_PENDING_STATES ==
    {"RUNNING", "DRAINING", "STOPPING", "STOPPED", "RETIRING",
     "UNCONFIRMED", "RECOVERING"}
RECONCILABLE_STATES ==
    {"RUNNING", "UNCONFIRMED", "RECOVERING"} \cup IN_FLIGHT_STATES
UsageClosing == {"STOPPED", "RETIRED", "PURGE_ELIGIBLE"}
Stopping == {"DRAINING", "STOPPING"}

VARIABLES
    row,      \* the placement row
    deleted,  \* the computer row is soft-deleted
    aged,     \* the row has not been written for the settle window
    expired,  \* the boot's enrollment deadline and grace have passed
    usage,    \* instances with an open usage row
    exec,     \* lifecycle executions, by job
    jobs,     \* jobs recorded so far
    inst,     \* EC2 instances, by the epoch that launched them
    vol,      \* the data volume
    tunnel,   \* the Worker's tunnel record and fence
    proc,     \* the control-plane invocations
    faults    \* environment failures spent

vars == <<row, deleted, aged, expired, usage, exec, jobs, inst, vol, tunnel,
          proc, faults>>
rowVars == <<row, aged, expired, usage, exec, jobs>>
world == <<inst, vol, tunnel>>

\* instance_id 0 and lifecycle_job_id 0 are NULL.  nonce: "live" is a stored
\* nonce hash, "used" its consumed proof.  fence is the fence token, named by
\* the epoch that minted it.
Row ==
    [state: PlacementState \cup {"NONE"}, gen: 0..MaxEpoch,
     epoch: 0..MaxEpoch, inst: 0..MaxEpoch, vol: BOOLEAN,
     fence: 0..MaxEpoch, job: 0..MaxJob, nonce: {"none", "live", "used"},
     err: LastError]
NoRow ==
    [state |-> "NONE", gen |-> 0, epoch |-> 0, inst |-> 0, vol |-> FALSE,
     fence |-> 0, job |-> 0, nonce |-> "none", err |-> "none"]

Operation == {"provision", "start", "replace", "stop", "retire"}
Mutation == {"createVolume", "run", "tag", "attach", "boot", "stop",
             "terminate"}
\* st "absent": recorded, unknown to Step Functions.  armed: the EC2 call the
\* helper authorized and Step Functions has not performed yet.  ran: its
\* history has entered the launch; of a start, its phase is past the boot, so
\* that it only waits for the instance.
Exec ==
    [op: Operation, gen: 0..MaxEpoch, epoch: Epochs, fence: Epochs,
     src: 0..MaxEpoch, prevGen: 0..MaxEpoch, prevFence: 0..MaxEpoch,
     st: {"absent", "running", "succeeded", "lost", "failed"},
     armed: Mutation \cup {"none"}, ran: BOOLEAN]
NoExec ==
    [op |-> "none", gen |-> 0, epoch |-> 0, fence |-> 0, src |-> 0,
     prevGen |-> 0, prevFence |-> 0, st |-> "none", armed |-> "none",
     ran |-> FALSE]

Pc == {"idle", "receipt", "reread", "look", "again", "act", "recover",
       "start", "refused", "undo", "final", "gencas", "lost", "release",
       "purge", "softdelete", "consume", "tunnel", "finish"}
Goal == {"none", "open", "stop", "delete", "fleet", "deleted", "enroll"}
\* Why a job is started, or what an enrollment or an evidence read found.
Kind == {"none", "boot", "ustop", "rstop", "capstop", "uretire", "rretire",
         "hostretire", "fleetretire", "uncretire", "settle",
         "fresh", "pending", "refused", "gone", "kept"}
Proc == [pc: Pc, goal: Goal, snap: Row, old: BOOLEAN, kind: Kind,
         undo: PlacementState \cup {"NONE"}, host: 0..MaxEpoch]
Idle == [pc |-> "idle", goal |-> "none", snap |-> NoRow, old |-> FALSE,
         kind |-> "none", undo |-> "NONE", host |-> 0]

-----------------------------------------------------------------------------
(* Swaps on the row.                                                       *)

\* Mutant: the state is not compared.
CasAnyState(s) == row.gen = s.gen /\ row.epoch = s.epoch

\* A user's transition matches generation, epoch and state; the reconciler's
\* also matches the instance and last_error it read; some match updated_at,
\* which only an unchanged row has.
CasUser(s) == row.gen = s.gen /\ row.epoch = s.epoch /\ row.state = s.state
CasReconciler(s) == CasUser(s) /\ row.inst = s.inst /\ row.err = s.err
CasExact(s) == row = s

\* Mutant: usage is only opened by a swap that lands RUNNING.
UsageOpensLate(r, effect) ==
    IF r.state \in UsageClosing \/ effect = "close" THEN {}
    ELSE IF effect = "open" /\ r.state = "RUNNING" THEN {r.inst}
    ELSE usage

\* The usage writer of a won swap: a terminal state closes every open row, an
\* open closes the rows of other instances.
applyTransitionUsageInTx(r, effect) ==
    IF r.state \in UsageClosing \/ effect = "close" THEN {}
    ELSE IF effect = "open" THEN {r.inst}
    ELSE usage

Write(r, effect) ==
    /\ row' = r
    /\ aged' = FALSE
    /\ usage' = applyTransitionUsageInTx(r, effect)

\* An invocation goes on at pc; before a read it forgets what it read.
Goto(p, pc, s, kind) ==
    proc' = [proc EXCEPT ![p] =
               CASE pc = "idle" -> Idle
                 [] pc \in {"reread", "again", "softdelete"} ->
                      [Idle EXCEPT !.pc = pc, !.goal = proc[p].goal]
                 [] OTHER -> [@ EXCEPT !.pc = pc, !.snap = s, !.kind = kind]]

casInTx(wins, r, effect) ==
    /\ IF wins THEN Write(r, effect) ELSE UNCHANGED <<row, aged, usage>>
    /\ UNCHANGED <<expired, exec, jobs>>

\* One compare-and-swap of invocation p: the winner goes on at pc with the row
\* it wrote, the loser at lose with the row it had read.
step(p, wins, r, effect, pc, lose) ==
    /\ casInTx(wins, r, effect)
    /\ Goto(p, IF wins THEN pc ELSE lose, IF wins THEN r ELSE proc[p].snap,
            proc[p].kind)

\* A swap that records a new job, started next; its execution is absent.
recordJob(p, wins, r, work, kind, undo, lose) ==
    /\ jobs < MaxJob
    /\ IF wins
         THEN /\ Write([r EXCEPT !.job = jobs + 1], "none")
              /\ jobs' = jobs + 1
              /\ exec' = [exec EXCEPT ![jobs + 1] = work]
              /\ proc' = [proc EXCEPT ![p].pc = "start", ![p].snap = row',
                                      ![p].kind = kind, ![p].undo = undo]
         ELSE /\ UNCHANGED <<row, aged, usage, jobs, exec>>
              /\ Goto(p, lose, proc[p].snap, "none")

\* The intent of a stop or retire of the placement's current generation.
currentGenerationIntent(s, op) ==
    [op |-> op, gen |-> s.gen, epoch |-> s.epoch, fence |-> s.fence,
     src |-> s.inst, prevGen |-> 0, prevFence |-> 0, st |-> "absent",
     armed |-> "none", ran |-> FALSE]

\* enrollConsumedHash is cleared; an unconsumed nonce would stay.
dropProof(nonce) == IF nonce = "used" THEN "none" ELSE nonce

\* Mutant: a consumed nonce counts as an enrollment.
EnrolledOnceConsumed(s) == s.nonce # "live" /\ s.inst # 0

Complete(s) == s.inst # 0 /\ s.vol
enrolled(s) ==
    s.err = "enroll_succeeded" /\ s.nonce # "live" /\ s.inst # 0
isEnrollmentHostRetire(s) ==
    /\ s.state \in {"RECOVERING", "RETIRING"}
    /\ s.err \in {"enroll_host_retire", "unknown:UNCONFIRMED:host_retire"}
Fault == faults < MaxFaults /\ faults' = faults + 1

\* Mutant: the record of epoch e itself counts as newer.
KeepsOwnEpoch(e) ==
    IF tunnel.rec >= e THEN tunnel
    ELSE [rec |-> 0, fence |-> IF tunnel.fence > e THEN tunnel.fence ELSE e]

\* The Worker's removal through epoch e: a newer record is left alone, else
\* the fence rises to e before the record goes.
deleteTunnel(e) ==
    IF tunnel.rec > e THEN tunnel
    ELSE [rec |-> 0, fence |-> IF tunnel.fence > e THEN tunnel.fence ELSE e]

\* The removal is answered and p goes on at pc, or no answer comes (the Worker
\* may have done it) and p gives up at lose.
Fence(p, e, pc, kind, lose) ==
    \/ /\ tunnel' = deleteTunnel(e)
       /\ Goto(p, pc, proc[p].snap, kind)
       /\ UNCHANGED faults
    \/ /\ Fault
       /\ tunnel' \in {tunnel, deleteTunnel(e)}
       /\ Goto(p, lose, proc[p].snap, proc[p].kind)

-----------------------------------------------------------------------------
(* Handlers begin by reading the row.  status, activity and the minute     *)
(* settlement pass take a subset of the steps of a fleet pass, so they add *)
(* no behaviour and have no goal of their own.                             *)

ReadableBy(p, goal) ==
    \/ p \in Users /\ ~deleted /\ goal \in {"open", "stop", "delete"}
    \/ p \in Crons /\ goal = "fleet" /\ row.state \in RECONCILABLE_STATES
    \/ /\ p \in Crons /\ goal = "deleted"
       /\ deleted /\ row.state \in RETIRE_PENDING_STATES

Begin(p, goal) ==
    /\ proc[p].pc = "idle"
    /\ ReadableBy(p, goal)
    /\ proc' = [proc EXCEPT ![p] =
                  [Idle EXCEPT !.pc = IF goal = "stop" \/ row.state = "NONE"
                                      THEN "act" ELSE "receipt",
                               !.goal = goal, !.snap = row, !.old = aged]]
    /\ UNCHANGED <<rowVars, deleted, world, faults>>

\* After the receipt was applied the row is read again; the owner's requests
\* and the fleet pass then look at the instance.
ReRead(p) ==
    /\ proc[p].pc \in {"reread", "again"}
    /\ proc' = [proc EXCEPT ![p].pc = IF @ = "reread" /\ proc[p].goal # "deleted"
                                      THEN "look" ELSE "act",
                            ![p].snap = row, ![p].old = aged]
    /\ UNCHANGED <<rowVars, deleted, world, faults>>

\* An invocation is killed: what it wrote and what it sent stays.
Crash(p) ==
    /\ Crashes /\ proc[p].pc # "idle"
    /\ Fault /\ Goto(p, "idle", NoRow, "none")
    /\ UNCHANGED <<rowVars, deleted, world>>

-----------------------------------------------------------------------------
(* applyLifecycleReceipt: the outcome of the job on the row that was read. *)
(* A finished execution never changes, so describing it and the first swap *)
(* that follows are one step.                                              *)

Waiting == IN_FLIGHT_STATES \cup {"UNCONFIRMED"}
Settled(s) == s.state = "MOUNTING" /\ s.job = 0
Described(p, st) ==
    LET s == proc[p].snap IN
    /\ proc[p].pc = "receipt"
    /\ ~Settled(s) /\ s.job # 0 /\ s.state \in Waiting
    /\ exec[s.job].st \in st
ResultInstance(x) == IF x.op \in {"provision", "replace"} THEN x.epoch ELSE x.src

\* A boot's job is already settled: enrolled hosts go RUNNING, a host past its
\* deadline is failed and retired.
ReceiptMounted(p) ==
    LET s == proc[p].snap IN
    /\ proc[p].pc = "receipt" /\ Settled(s)
    /\ \/ /\ enrolled(s)
          /\ step(p, CasReconciler(s), [row EXCEPT !.state = "RUNNING"], "none",
                  "reread", "reread")
       \/ /\ ~enrolled(s) /\ expired
          /\ casInTx(CasExact(s),
                     [row EXCEPT !.state = "UNCONFIRMED", !.nonce = "none",
                                 !.err = "enroll_tunnel_failed"], "none")
          /\ Goto(p, IF CasExact(s) THEN "recover" ELSE "reread", row',
                  "hostretire")
       \/ /\ ~enrolled(s) /\ ~expired
          /\ Goto(p, "reread", NoRow, "none")
          /\ UNCHANGED rowVars
    /\ UNCHANGED <<deleted, world, faults>>

\* Nothing to apply: no job, a state that awaits none, an execution that still
\* runs, a finished one of an UNCONFIRMED row, an unsettled absent one.
ReceiptNothing(p) ==
    LET s == proc[p].snap IN
    /\ proc[p].pc = "receipt" /\ ~Settled(s)
    /\ \/ s.job = 0 \/ s.state \notin Waiting
       \/ Described(p, {"running"})
       \/ Described(p, {"succeeded", "lost"}) /\ s.state = "UNCONFIRMED"
       \/ /\ Described(p, {"absent"})
          /\ ~(s.err \in StartUnknown /\ proc[p].old)
       \/ /\ Described(p, {"succeeded"}) /\ s.state = "PROVISIONING"
          /\ ~enrolled(s)
    /\ Goto(p, "reread", NoRow, "none")
    /\ UNCHANGED <<rowVars, deleted, world, faults>>

\* settleUnknownStart: a marked start is absent past the settle window.  A stop
\* or retire is started again; a boot goes to its recorded undo state.
settledUndo(s) ==
    LET undo == lifecycleStartUnknownUndo(s)
        unresolvedReplacement ==
            undo = "UNCONFIRMED" /\ s.state \in {"LEASED", "STARTING", "MOUNTING"}
    IN [row EXCEPT !.state = undo, !.nonce = "none",
                   !.job = IF unresolvedReplacement THEN @ ELSE 0,
                   !.err = IF isEnrollmentHostRetire(s)
                           THEN "enroll_tunnel_failed"
                           ELSE "lifecycle_start_failed"]

\* Mutant: only a stop or a retire is settled.
SettlesNoBoot(p) ==
    LET s == proc[p].snap IN
    /\ Described(p, {"absent"}) /\ s.err \in StartUnknown /\ proc[p].old
    /\ IF s.state \in Stopping \cup {"RETIRING"}
         THEN Goto(p, "start", s, "settle")
         ELSE Goto(p, "reread", NoRow, "none")
    /\ UNCHANGED <<rowVars, deleted, world, faults>>

settleUnknownStart(p) ==
    LET s == proc[p].snap IN
    /\ Described(p, {"absent"}) /\ s.err \in StartUnknown /\ proc[p].old
    /\ IF s.state \in Stopping \cup {"RETIRING"}
         THEN Goto(p, "start", s, "settle") /\ UNCHANGED rowVars
         ELSE step(p, CasReconciler(s), settledUndo(s), "none",
                   "reread", "reread")
    /\ UNCHANGED <<deleted, world, faults>>

\* Mutant: the target instance is not looked at.
EvidenceWithoutTarget(s, refused) ==
    LET x == exec[s.job]
        source == inst[x.src].st
    IN /\ s.job # 0 /\ x.op = "replace"
       /\ x.gen = s.gen /\ x.epoch = s.epoch /\ x.fence = s.fence
       /\ source = "gone" \/ (refused /\ source = "stopped")
       /\ vol.at = 0

\* settleReplacementGeneration: what EC2 must show before a replacement that
\* did not happen gives the generation back.  refused: its start never ran.  A
\* launch that was entered is settled only by its terminated target.
ReplacementEvidence(s, refused) ==
    LET x == exec[s.job]
        source == inst[x.src].st
        target == inst[x.epoch].st
    IN /\ s.job # 0 /\ x.op = "replace"
       /\ x.gen = s.gen /\ x.epoch = s.epoch /\ x.fence = s.fence
       /\ source = "gone" \/ (refused /\ source = "stopped")
       /\ target = IF refused \/ ~x.ran THEN "none" ELSE "gone"
       /\ vol.fence = x.prevFence \/ (vol.fence = x.fence /\ target = "gone")
       /\ \/ vol.at = 0
          \/ /\ refused /\ source = "stopped" /\ vol.at = x.src
             /\ vol.fence = x.prevFence

\* The tunnel is fenced, then one swap restores the confirmed generation.
GenerationFence(p) ==
    LET s == proc[p].snap
        x == exec[s.job]
        refused == proc[p].pc = "refused"
    IN /\ refused \/ Described(p, {"failed"})
       /\ ReplacementEvidence(s, refused)
       /\ Fence(p, s.epoch, "gencas",
                IF inst[x.src].st = "stopped" THEN "kept" ELSE "gone",
                IF refused THEN "undo" ELSE "reread")
       /\ UNCHANGED <<rowVars, deleted, inst, vol>>

reconcileReplacementGeneration(p) ==
    LET s == proc[p].snap
        x == exec[s.job]
        sourcePair == vol.fence = x.prevFence
    IN /\ proc[p].pc = "gencas"
       /\ step(p, CasExact(s),
               [row EXCEPT
                  !.state = "STOPPED", !.job = 0, !.nonce = "none",
                  !.gen = IF sourcePair THEN x.prevGen ELSE x.gen,
                  !.fence = IF sourcePair THEN x.prevFence ELSE x.fence,
                  !.inst = IF sourcePair THEN x.src ELSE x.epoch,
                  !.err = IF sourcePair /\ proc[p].kind = "kept"
                          THEN "lifecycle_start_failed" ELSE "instance_lost"],
               "close",
               IF proc[p].undo = "NONE" THEN "reread" ELSE "idle",
               IF proc[p].undo = "NONE" THEN "reread" ELSE "undo")
       /\ UNCHANGED <<deleted, world, faults>>

\* Mutant: a failed host retire keeps its job.
FailedRetireKeepsJob(p) ==
    LET s == proc[p].snap
        hostRetire == isEnrollmentHostRetire(s)
    IN /\ Described(p, {"failed"}) /\ ~ReplacementEvidence(s, FALSE)
       /\ IF s.state = "UNCONFIRMED"
            THEN Goto(p, "reread", NoRow, "none") /\ UNCHANGED rowVars
            ELSE step(p, CasReconciler(s),
                      [row EXCEPT !.state = "UNCONFIRMED", !.nonce = "none",
                                  !.err = IF hostRetire
                                          THEN "enroll_tunnel_failed"
                                          ELSE "failed"],
                      "none", "reread", "reread")
       /\ UNCHANGED <<deleted, world, faults>>

\* A failed job: UNCONFIRMED, unless a replacement's evidence is complete.  A
\* failed host retire hands its row back without its job.
ReceiptFailed(p) ==
    LET s == proc[p].snap
        hostRetire == isEnrollmentHostRetire(s)
    IN /\ Described(p, {"failed"})
       /\ ReplacementEvidence(s, FALSE) => Fault
       /\ IF s.state = "UNCONFIRMED"
            THEN Goto(p, "reread", NoRow, "none") /\ UNCHANGED rowVars
            ELSE step(p, CasReconciler(s),
                      [row EXCEPT !.state = "UNCONFIRMED", !.nonce = "none",
                                  !.err = IF hostRetire
                                          THEN "enroll_tunnel_failed"
                                          ELSE "failed",
                                  !.job = IF hostRetire THEN 0 ELSE @],
                      "none", "reread", "reread")
       /\ ~ReplacementEvidence(s, FALSE) => UNCHANGED faults
       /\ UNCHANGED <<deleted, world>>

\* A finished stop or retire: the tunnel is fenced before the row is final.
ReceiptDraining(p) ==
    LET s == proc[p].snap IN
    /\ Described(p, {"succeeded", "lost"}) /\ s.state = "DRAINING"
    /\ step(p, CasReconciler(s), [row EXCEPT !.state = "STOPPING"], "none",
            "receipt", "reread")
    /\ UNCHANGED <<deleted, world, faults>>

ReceiptFence(p) ==
    LET s == proc[p].snap IN
    /\ Described(p, {"succeeded", "lost"}) /\ s.state \in {"STOPPING", "RETIRING"}
    /\ Fence(p, s.epoch, "final", "none", "reread")
    /\ UNCHANGED <<rowVars, deleted, inst, vol>>

FinalRow(s) ==
    LET x == exec[s.job]
        hostRetire == isEnrollmentHostRetire(s)
    IN [row EXCEPT
          !.state = IF s.state = "RETIRING" /\ ~hostRetire THEN "RETIRED"
                    ELSE "STOPPED",
          !.job = 0, !.inst = x.src, !.vol = TRUE,
          !.err = IF hostRetire \/ (s.state = "STOPPING" /\ x.st = "lost")
                  THEN "instance_lost" ELSE "none"]
ReceiptFinal(p) ==
    LET s == proc[p].snap IN
    /\ proc[p].pc = "final"
    /\ step(p, CasReconciler(s), FinalRow(s), "close", "reread", "reread")
    /\ UNCHANGED <<deleted, world, faults>>

\* A finished boot: STARTING, MOUNTING with the job cleared and usage open,
\* RUNNING only once the host enrolled.  A first boot skips MOUNTING.
ReceiptBooted(p) ==
    LET s == proc[p].snap
        done == [row EXCEPT !.job = 0, !.vol = TRUE,
                            !.inst = ResultInstance(exec[s.job])]
    IN /\ Described(p, {"succeeded"})
       /\ \/ /\ s.state = "PROVISIONING" /\ enrolled(s)
             /\ step(p, CasReconciler(s), [done EXCEPT !.state = "RUNNING"],
                     "open", "reread", "reread")
          \/ /\ s.state = "LEASED"
             /\ step(p, CasReconciler(s), [row EXCEPT !.state = "STARTING"],
                     "none", "receipt", "reread")
          \/ /\ s.state = "STARTING"
             /\ step(p, CasReconciler(s), [done EXCEPT !.state = "MOUNTING"],
                     "open", IF enrolled(s) THEN "receipt" ELSE "reread",
                     "reread")
       /\ UNCHANGED <<deleted, world, faults>>

-----------------------------------------------------------------------------
(* startLifecycleJob: up to three idempotent StartExecution calls, then    *)
(* what the caller does with started, refused or unknown.                  *)

AtStart(p) == proc[p].pc = "start"
AfterStart(p) ==
    CASE proc[p].kind = "uretire" -> "softdelete"
      [] proc[p].kind = "uncretire" /\ proc[p].goal = "delete" -> "softdelete"
      [] proc[p].kind \in {"hostretire", "settle"} -> "reread"
      [] proc[p].kind = "rstop" /\ proc[p].goal # "fleet" -> "again"
      [] OTHER -> "idle"

\* A call reaches Step Functions.
StartExecution(p) ==
    LET j == proc[p].snap.job IN
    /\ AtStart(p) /\ exec[j].st = "absent"
    /\ exec' = [exec EXCEPT ![j].st = "running"]
    /\ UNCHANGED <<row, aged, expired, usage, jobs, deleted, world, proc, faults>>

\* A call that got no answer reaches Step Functions after its caller moved on,
\* within the settle window.
LateStartExecution ==
    LET j == row.job IN
    /\ j # 0 /\ row.err \in StartUnknown /\ ~aged
    /\ exec[j].st = "absent"
    /\ exec' = [exec EXCEPT ![j].st = "running"]
    /\ UNCHANGED <<row, aged, expired, usage, jobs, deleted, world, proc, faults>>

Started(p) ==
    LET s == proc[p].snap
        kind == proc[p].kind
        to == CASE kind = "boot" /\ s.state = "LEASED" -> "STARTING"
                [] kind \in {"ustop", "rstop", "capstop"} -> "STOPPING"
                [] OTHER -> "NONE"
        wins == IF kind \in {"boot", "ustop"} THEN CasUser(s) ELSE CasReconciler(s)
    IN /\ AtStart(p) /\ exec[s.job].st # "absent"
       /\ IF to = "NONE"
            THEN UNCHANGED rowVars
            ELSE casInTx(wins, [row EXCEPT !.state = to], "none")
       /\ Goto(p, AfterStart(p), s, "none")
       /\ UNCHANGED <<deleted, world, faults>>

\* Mutant: a start without an answer is taken back like a refused one.
UnknownIsUndone(p) ==
    LET s == proc[p].snap IN
    /\ AtStart(p) /\ Fault
    /\ casInTx(CasUser(s) /\ row.err = s.err,
               [row EXCEPT !.state = IF proc[p].kind = "settle" THEN @
                                     ELSE proc[p].undo], "none")
    /\ Goto(p, AfterStart(p), s, "none")
    /\ UNCHANGED <<deleted, world>>

\* No answer, or throttled: the row is marked and keeps its state and job.
markLifecycleStartUnknown(p) ==
    LET s == proc[p].snap
        undo == IF proc[p].kind = "settle" THEN lifecycleStartUnknownUndo(s)
                ELSE proc[p].undo
        mark == IF proc[p].kind \in {"hostretire", "fleetretire"}
                   \/ isEnrollmentHostRetire(s)
                THEN "unknown:UNCONFIRMED:host_retire"
                ELSE CASE undo = "STOPPED" -> "unknown:STOPPED"
                       [] undo = "RUNNING" -> "unknown:RUNNING"
                       [] OTHER -> "unknown:UNCONFIRMED"
    IN /\ AtStart(p) /\ Fault
       /\ casInTx(/\ undo \in PLACEMENT_TRANSITIONS[s.state]
                  /\ CasUser(s) /\ row.err = s.err,
                  [row EXCEPT !.err = mark], "none")
       /\ Goto(p, AfterStart(p), s, "none")
       /\ UNCHANGED <<deleted, world>>

\* Mutant: a refused stop goes back to RUNNING.
StopUndoneToRunning(s, kind, undo) ==
    CASE kind = "settle" -> settledUndo(s)
      [] kind = "uretire" -> [row EXCEPT !.state = undo, !.nonce = "none"]
      [] kind \in {"ustop", "rstop", "capstop"} -> [row EXCEPT !.state = "RUNNING"]
      [] kind \in {"rretire", "uncretire"} ->
            [row EXCEPT !.state = undo, !.job = 0, !.err = "failed"]
      [] OTHER -> [row EXCEPT !.state = "UNCONFIRMED", !.job = 0,
                              !.err = "enroll_tunnel_failed"]

\* A permanent refusal: the caller takes its step back.
UndoRow(s, kind, undo) ==
    CASE kind = "settle" -> settledUndo(s)
      [] kind = "ustop" -> [row EXCEPT !.state = "UNCONFIRMED", !.nonce = "none"]
      [] kind = "uretire" -> [row EXCEPT !.state = undo, !.nonce = "none"]
      [] kind \in {"rstop", "capstop"} ->
            [row EXCEPT !.state = "UNCONFIRMED", !.err = "failed"]
      [] kind \in {"rretire", "uncretire"} ->
            [row EXCEPT !.state = undo, !.job = 0, !.err = "failed"]
      [] OTHER -> [row EXCEPT !.state = "UNCONFIRMED", !.job = 0,
                              !.err = "enroll_tunnel_failed"]
Refused(p) ==
    LET s == proc[p].snap
        kind == proc[p].kind
        wins == IF kind \in {"ustop", "uretire"} THEN CasUser(s)
                ELSE CasReconciler(s)
        pc == IF kind \in {"hostretire", "settle"} THEN "reread" ELSE "idle"
    IN /\ AtStart(p) /\ Fault
       /\ exec[s.job].st = "absent" \/ FlakyRefusal
       /\ IF kind = "boot"
            THEN Goto(p, "refused", s, "boot") /\ UNCHANGED rowVars
            ELSE step(p, wins, UndoRow(s, kind, proc[p].undo), "none", pc, pc)
       /\ UNCHANGED <<deleted, world>>

\* A refused boot whose generation was not given back: its undo state, the
\* nonce revoked, the job kept.
RefusedBoot(p) ==
    LET s == proc[p].snap IN
    /\ \/ proc[p].pc = "undo"
       \/ proc[p].pc = "refused" /\ ~ReplacementEvidence(s, TRUE)
    /\ step(p, CasUser(s), [row EXCEPT !.state = proc[p].undo, !.nonce = "none"],
            "none", "idle", "idle")
    /\ UNCHANGED <<deleted, world, faults>>

-----------------------------------------------------------------------------
(* reconcileGuestStop and recoverLostInstance.                             *)

GuestStopDue(s) ==
    s.state = "RUNNING" /\ Complete(s) /\ inst[s.inst].st \in {"stopped", "gone"}

StopJob(p, s, wins, err, kind) ==
    /\ recordJob(p, wins, [row EXCEPT !.state = "DRAINING",
                                      !.nonce = dropProof(@), !.err = err],
                 currentGenerationIntent(s, "stop"), kind, "UNCONFIRMED",
                 IF kind = "rstop" THEN "act" ELSE "idle")
    /\ UNCHANGED <<expired, deleted, world, faults>>

\* The host shut itself down: an ordinary stop is recorded and started.
reconcileGuestStop(p) ==
    LET s == proc[p].snap IN
    /\ proc[p].pc = "look" /\ GuestStopDue(s) /\ inst[s.inst].st = "stopped"
    /\ StopJob(p, s, CasReconciler(s), "none", "rstop")

\* The instance is gone: fence, then one swap to STOPPED for a replacement.
LostFence(p) ==
    LET s == proc[p].snap IN
    /\ proc[p].pc = "look" /\ GuestStopDue(s) /\ inst[s.inst].st = "gone"
    /\ Fence(p, s.epoch, "lost", "none", "act")
    /\ UNCHANGED <<rowVars, deleted, inst, vol>>

recoverLostInstance(p) ==
    LET s == proc[p].snap IN
    /\ proc[p].pc = "lost"
    /\ step(p, CasUser(s) /\ row.inst = s.inst,
            [row EXCEPT !.state = "STOPPED", !.job = 0, !.nonce = dropProof(@),
                        !.err = "instance_lost"], "close",
            IF proc[p].goal = "fleet" THEN "idle" ELSE "again", "act")
    /\ UNCHANGED <<deleted, world, faults>>

\* Nothing seen, or the describe failed.
LookPassed(p) ==
    LET s == proc[p].snap IN
    /\ proc[p].pc = "look"
    /\ IF GuestStopDue(s) THEN Fault ELSE UNCHANGED faults
    /\ Goto(p, "act", s, "none")
    /\ UNCHANGED <<rowVars, deleted, world>>

\* An hour cap is reached for a running computer.
enforceSessionLimits(p) ==
    LET s == proc[p].snap IN
    /\ proc[p].pc = "act" /\ proc[p].goal \in {"open", "fleet"}
    /\ s.state = "RUNNING" /\ Complete(s)
    /\ StopJob(p, s, CasReconciler(s), "session_limit", "capstop")

-----------------------------------------------------------------------------
(* ensure, stop, terminate and the background passes act on the row.       *)

Acting(p, goals) == proc[p].pc = "act" /\ proc[p].goal \in goals

\* First open: admission inserts the row with its first lease and its job.
createAwsPlacement(p) ==
    LET wins == row.state = "NONE" /\ ~deleted IN
    /\ Acting(p, {"open"}) /\ proc[p].snap.state = "NONE"
    /\ recordJob(p, wins,
                 [NoRow EXCEPT !.state = "PROVISIONING", !.gen = 1, !.epoch = 1,
                               !.fence = 1, !.nonce = "live"],
                 [op |-> "provision", gen |-> 1, epoch |-> 1, fence |-> 1,
                  src |-> 0, prevGen |-> 0, prevFence |-> 0, st |-> "absent",
                  armed |-> "none", ran |-> FALSE],
                 "boot", "UNCONFIRMED", "idle")
    /\ expired' = IF wins THEN FALSE ELSE expired
    /\ UNCHANGED <<deleted, world, faults>>

\* An open of a stopped computer leases its next epoch.  replace: a new
\* generation on the same volume, forced when the instance is unusable.
Openable(s) ==
    /\ \/ s.state = "STOPPED"
       \/ s.state = "UNCONFIRMED" /\ s.err = "enroll_tunnel_failed"
    /\ Complete(s)
replaceModes(s) ==
    IF s.err \in {"enroll_tunnel_failed", "instance_lost"} THEN {TRUE}
    ELSE WakeModes
LeaseWins(s, replace) ==
    /\ row.gen = s.gen /\ row.epoch = s.epoch
    /\ \/ row.state = "STOPPED"
       \/ /\ replace /\ row.state = "UNCONFIRMED"
          /\ row.err = "enroll_tunnel_failed"
leasePlacement(p, replace) ==
    LET s == proc[p].snap
        wins == LeaseWins(s, replace) /\ ~deleted
        e == s.epoch + 1
        gen == IF replace THEN s.gen + 1 ELSE s.gen
        fence == IF replace THEN e ELSE s.fence
    IN /\ Acting(p, {"open"}) /\ Openable(s) /\ replace \in replaceModes(s)
       /\ s.epoch < MaxEpoch
       /\ recordJob(p, wins,
                    [row EXCEPT !.state = "LEASED", !.epoch = e, !.gen = gen,
                                !.fence = fence, !.nonce = "live", !.err = "none",
                                !.inst = IF replace THEN 0 ELSE @],
                    [op |-> IF replace THEN "replace" ELSE "start",
                     gen |-> gen, epoch |-> e, fence |-> fence, src |-> s.inst,
                     prevGen |-> IF replace THEN s.gen ELSE 0,
                     prevFence |-> IF replace THEN s.fence ELSE 0,
                     st |-> "absent", armed |-> "none", ran |-> FALSE],
                    "boot", IF replace THEN "UNCONFIRMED" ELSE "STOPPED", "idle")
       /\ expired' = IF wins THEN FALSE ELSE expired
       /\ UNCHANGED <<deleted, world, faults>>

startStop(p) ==
    LET s == proc[p].snap IN
    /\ Acting(p, {"stop"}) /\ s.state = "RUNNING" /\ Complete(s)
    /\ StopJob(p, s, CasUser(s), "none", "ustop")

\* A running or stopped computer is retired by its delete, or by the
\* background pass once it is deleted.
startRetire(p) ==
    LET s == proc[p].snap
        user == proc[p].goal = "delete"
    IN /\ Acting(p, {"delete", "deleted"})
       /\ s.state \in {"RUNNING", "STOPPED"} /\ Complete(s)
       /\ recordJob(p, IF user THEN CasUser(s) ELSE CasReconciler(s),
                    [row EXCEPT !.state = "RETIRING", !.nonce = dropProof(@),
                                !.err = "none"],
                    currentGenerationIntent(s, "retire"),
                    IF user THEN "uretire" ELSE "rretire", s.state, "idle")
       /\ UNCHANGED <<expired, deleted, world, faults>>

\* settleUnconfirmedAwsPlacement: a placement that owns nothing is released, a
\* complete one is retired by way of RECOVERING, any other is left to an
\* operator.
NothingRecorded(s) == s.inst = 0 /\ ~s.vol
NothingFound ==
    vol.fence = 0 /\ \A i \in Epochs : inst[i].st \in {"none", "gone"}
Retirable(s) == Complete(s) /\ (inst[s.inst].st = "gone" => vol.at = 0)
Unconfirmed(p) ==
    /\ Acting(p, {"delete", "deleted"})
    /\ proc[p].snap.state \in {"UNCONFIRMED", "RECOVERING"}

ReleaseFence(p) ==
    LET s == proc[p].snap IN
    /\ Unconfirmed(p) /\ NothingRecorded(s) /\ NothingFound
    /\ Fence(p, s.epoch, "release", "none", "idle")
    /\ UNCHANGED <<rowVars, deleted, inst, vol>>

releaseWithoutResources(p) ==
    LET s == proc[p].snap IN
    /\ \/ /\ proc[p].pc = "release"
          /\ step(p, CasUser(s) /\ row.inst = s.inst,
                  [row EXCEPT !.state = "RETIRED", !.job = 0,
                              !.nonce = dropProof(@),
                              !.err = "released_no_resources"],
                  "close", "purge", "idle")
       \/ /\ proc[p].pc = "purge"
          /\ step(p, CasReconciler(s), [row EXCEPT !.state = "PURGE_ELIGIBLE"],
                  "none", IF proc[p].goal = "delete" THEN "softdelete" ELSE "idle",
                  IF proc[p].goal = "delete" THEN "softdelete" ELSE "idle")
    /\ UNCHANGED <<deleted, world, faults>>

\* UNCONFIRMED to RECOVERING, for a delete or for the host of a failed boot.
Recovering(p) ==
    LET s == proc[p].snap
        host == \/ proc[p].pc = "recover" /\ s.state = "UNCONFIRMED"
                \/ /\ Acting(p, {"fleet"}) /\ s.err = "enroll_tunnel_failed"
                   /\ s.job = 0 /\ Complete(s) /\ proc[p].old
        kind == IF proc[p].goal = "fleet" /\ proc[p].pc = "act"
                THEN "fleetretire"
                ELSE IF host THEN "hostretire" ELSE "uncretire"
    IN /\ s.state = "UNCONFIRMED"
       /\ host \/ (Unconfirmed(p) /\ Retirable(s))
       /\ casInTx(CasReconciler(s),
                  [row EXCEPT !.state = "RECOVERING",
                              !.err = IF host THEN "enroll_host_retire"
                                      ELSE "deleted_recovery"], "none")
       /\ Goto(p, IF CasReconciler(s) THEN "recover"
                  ELSE IF kind = "hostretire" THEN "reread" ELSE "idle",
               row', kind)
       /\ UNCHANGED <<deleted, world, faults>>

\* RECOVERING to RETIRING with the retire job recorded.
RecoveringRetire(p) ==
    LET s == proc[p].snap
        fleet == /\ Acting(p, {"fleet"}) /\ s.err = "enroll_host_retire"
                 /\ s.job = 0 /\ Complete(s) /\ proc[p].old
        kind == IF proc[p].pc = "recover" THEN proc[p].kind
                ELSE IF fleet THEN "fleetretire" ELSE "uncretire"
    IN /\ s.state = "RECOVERING"
       /\ proc[p].pc = "recover" \/ fleet \/ (Unconfirmed(p) /\ Retirable(s))
       /\ recordJob(p, CasReconciler(s),
                    [row EXCEPT !.state = "RETIRING", !.nonce = dropProof(@),
                                !.err = IF kind = "uncretire" THEN "none"
                                        ELSE "enroll_host_retire"],
                    currentGenerationIntent(s, "retire"), kind, "UNCONFIRMED",
                    IF kind = "hostretire" THEN "reread" ELSE "idle")
       /\ UNCHANGED <<expired, deleted, world, faults>>

\* The delete's answer lets the router soft-delete the computer.
softDeleteComputer(p) ==
    LET s == proc[p].snap IN
    /\ \/ proc[p].pc = "softdelete"
       \/ /\ Acting(p, {"delete"})
          /\ \/ s.state \in {"NONE", "RETIRED", "PURGE_ELIGIBLE"}
             \/ s.state \in Stopping \cup {"RETIRING"} /\ s.job # 0
    /\ deleted' = TRUE
    /\ Goto(p, "idle", NoRow, "none")
    /\ UNCHANGED <<rowVars, world, faults>>

\* Every other row is answered as it stands.
Answer(p) ==
    LET s == proc[p].snap IN
    /\ \/ Acting(p, {"stop"}) /\ ~(s.state = "RUNNING" /\ Complete(s))
       \/ /\ Acting(p, {"open"}) /\ s.state # "NONE"
          /\ ~(Openable(s) /\ s.epoch < MaxEpoch)
       \/ /\ Acting(p, {"fleet"})
          /\ ~(/\ \/ s.state = "UNCONFIRMED" /\ s.err = "enroll_tunnel_failed"
                  \/ s.state = "RECOVERING" /\ s.err = "enroll_host_retire"
               /\ s.job = 0 /\ Complete(s) /\ proc[p].old)
       \/ /\ Acting(p, {"delete", "deleted"})
          /\ \/ /\ s.state \in {"RUNNING", "STOPPED"} /\ ~Complete(s)
             \/ /\ Unconfirmed(p) /\ ~Retirable(s)
                /\ ~(NothingRecorded(s) /\ NothingFound)
             \/ s.state \in {"PROVISIONING", "LEASED", "STARTING", "MOUNTING"}
             \/ s.state \in Stopping \cup {"RETIRING"} /\
                  (s.job = 0 \/ proc[p].goal = "deleted")
             \/ /\ s.state \in {"RETIRED", "PURGE_ELIGIBLE"}
                /\ proc[p].goal = "deleted"
    /\ Goto(p, "idle", NoRow, "none")
    /\ UNCHANGED <<rowVars, deleted, world, faults>>

-----------------------------------------------------------------------------
(* The lifecycle workflow: the helper observes EC2, asks the authority     *)
(* endpoint and names one EC2 call, which Step Functions then performs.    *)

\* lifecycle-authority: only the row's own job, at its epoch, in flight.
Authority(j) ==
    /\ row.job = j /\ row.epoch = exec[j].epoch
    /\ row.state \in IN_FLIGHT_STATES

\* The helper's decision for job j: the next EC2 call, an answer, or none.
EndSource(x, last) ==
    LET source == inst[x.src].st IN
    IF source = "gone" THEN IF vol.at = 0 THEN last ELSE "none"
    ELSE IF vol.at # x.src THEN "none"
    ELSE IF source = "running" THEN "stop"
    ELSE IF x.op = "stop" THEN "succeeded" ELSE "terminate"
Launch(x) ==
    LET target == inst[x.epoch].st IN
    IF target = "none" THEN IF vol.at = 0 THEN "run" ELSE "none"
    ELSE IF target # "running" THEN "none"
    ELSE IF vol.fence # x.fence THEN IF vol.at = 0 THEN "tag" ELSE "none"
    ELSE CASE vol.at = 0 -> "attach"
           [] vol.at = x.epoch -> "succeeded"
           [] OTHER -> "none"
\* The volume carries a fence token that job x may meet.
Met(x) == vol.fence = x.fence \/ (x.op = "replace" /\ vol.fence = x.prevFence)
\* Mutant: a replacement is launched before its source has ended.
LaunchFirst(x) ==
    IF x.op = "provision"
    THEN IF vol.fence = 0 THEN "createVolume" ELSE Launch(x)
    ELSE IF ~Met(x) THEN "none"
    ELSE CASE x.op = "stop" -> EndSource(x, "lost")
           [] x.op = "retire" -> EndSource(x, "succeeded")
           [] x.op = "replace" -> IF inst[x.epoch].st = "none" THEN "run"
                                  ELSE IF inst[x.src].st = "gone" THEN Launch(x)
                                  ELSE EndSource(x, "none")
           [] OTHER -> "succeeded"
observe(x) ==
    IF x.op = "provision"
    THEN IF vol.fence = 0 THEN "createVolume" ELSE Launch(x)
    ELSE IF ~Met(x) THEN "none"
    ELSE CASE x.op = "stop" -> EndSource(x, "lost")
           [] x.op = "retire" -> EndSource(x, "succeeded")
           [] x.op = "replace" -> IF inst[x.src].st = "gone" THEN Launch(x)
                                  ELSE EndSource(x, "none")
           [] x.op = "start" -> IF vol.at # x.src THEN "none"
                                ELSE CASE inst[x.src].st = "running" -> "succeeded"
                                       [] inst[x.src].st = "stopped" /\ ~x.ran -> "boot"
                                       [] OTHER -> "none"

Running(j) == exec[j].st = "running" /\ exec[j].armed = "none"

\* The authority is asked right before the call is handed to Step Functions.
ExecArm(j) ==
    /\ Running(j) /\ Authority(j) /\ observe(exec[j]) \in Mutation
    /\ exec' = [exec EXCEPT ![j].armed = observe(exec[j]),
                            ![j].ran = @ \/ observe(exec[j]) \in {"run", "boot"}]
    /\ UNCHANGED <<row, aged, expired, usage, jobs, deleted, world, proc, faults>>

\* The call is performed on EC2 as it is by then, or lost: asked for again (a
\* throttled boot goes back to the phase before it), or the end of the
\* execution.
Ec2(x) ==
    LET src == x.src
        tgt == x.epoch
    IN CASE x.armed = "stop" ->
              /\ inst' = [inst EXCEPT ![src].st = IF @ = "running" THEN "stopped"
                                                  ELSE @]
              /\ UNCHANGED vol
         [] x.armed = "terminate" ->
              /\ inst' = [inst EXCEPT ![src].st = "gone"]
              /\ vol' = [vol EXCEPT !.at = IF @ = src THEN 0 ELSE @]
         [] x.armed = "boot" ->
              /\ inst' = [inst EXCEPT ![src] =
                            IF @.st = "stopped"
                            THEN [st |-> "running", boot |-> x.epoch] ELSE @]
              /\ UNCHANGED vol
         [] x.armed = "createVolume" ->
              vol' = [at |-> 0, fence |-> x.fence] /\ UNCHANGED inst
         [] x.armed = "run" ->
              /\ inst' = [inst EXCEPT ![tgt] = [st |-> "running", boot |-> tgt]]
              /\ UNCHANGED vol
         [] x.armed = "tag" ->
              vol' = [vol EXCEPT !.fence = x.fence] /\ UNCHANGED inst
         [] OTHER ->
              /\ vol' = [vol EXCEPT !.at = IF @ = 0 /\ inst[tgt].st = "running"
                                           THEN tgt ELSE @]
              /\ UNCHANGED inst
ExecMutate(j) ==
    /\ exec[j].armed # "none"
    /\ \/ /\ Ec2(exec[j]) /\ UNCHANGED faults
          /\ exec' = [exec EXCEPT ![j].armed = "none"]
       \/ /\ Fault /\ UNCHANGED <<inst, vol>>
          /\ \E st \in {"running", "failed"} :
                exec' = [exec EXCEPT ![j].armed = "none", ![j].st = st,
                                     ![j].ran = @ /\ exec[j].armed # "boot"]
    /\ UNCHANGED <<row, aged, expired, usage, jobs, deleted, tunnel, proc>>

ExecSucceed(j) ==
    /\ Running(j) /\ Authority(j) /\ observe(exec[j]) \in {"succeeded", "lost"}
    /\ exec' = [exec EXCEPT ![j].st = observe(exec[j])]
    /\ UNCHANGED <<row, aged, expired, usage, jobs, deleted, world, proc, faults>>

\* Authority denied, an observation that fits no step, or a refusal of EC2
\* (capacity, a rejected call, throttled too long).
ExecFail(j) ==
    /\ Running(j)
    /\ IF Authority(j) /\ observe(exec[j]) # "none" THEN Fault
       ELSE UNCHANGED faults
    /\ exec' = [exec EXCEPT ![j].st = "failed"]
    /\ UNCHANGED <<row, aged, expired, usage, jobs, deleted, world, proc>>

-----------------------------------------------------------------------------
(* Hosts and time.                                                         *)

\* The host stops itself after its idle window.
GuestShutdown(i) ==
    /\ inst[i].st = "running" /\ Fault
    /\ inst' = [inst EXCEPT ![i].st = "stopped"]
    /\ UNCHANGED <<rowVars, deleted, vol, tunnel, proc>>

\* EC2 loses or an operator terminates the instance; the volume stays.
InstanceLost(i) ==
    /\ inst[i].st \in {"running", "stopped"} /\ Fault
    /\ inst' = [inst EXCEPT ![i].st = "gone"]
    /\ vol' = [vol EXCEPT !.at = IF @ = i THEN 0 ELSE @]
    /\ UNCHANGED <<rowVars, deleted, tunnel, proc>>

\* The settle window passes; a start's three attempts take far less.  Only a
\* marked start and a failed enrollment are ever asked for their age.
Age ==
    /\ ~aged
    /\ row.err \in StartUnknown \cup {"enroll_tunnel_failed", "enroll_host_retire"}
    /\ \A p \in Procs : ~(AtStart(p) /\ proc[p].snap.job = row.job)
    /\ aged' = TRUE
    /\ UNCHANGED <<row, expired, usage, exec, jobs, deleted, world, proc, faults>>

\* The boot's enrollment deadline and its grace pass.
Expire ==
    /\ ~expired /\ row.nonce # "none" /\ row.state \in ENROLLABLE_STATES
    /\ expired' = TRUE
    /\ UNCHANGED <<row, aged, usage, exec, jobs, deleted, world, proc, faults>>

-----------------------------------------------------------------------------
(* Enrollment of a booted host: verify, consume the nonce, create the      *)
(* tunnel, finish.                                                         *)

Enroll(p, i) ==
    /\ p \in Hosts /\ proc[p].pc = "idle"
    /\ row.state \in ENROLLABLE_STATES /\ ~expired
    /\ inst[i].st = "running" /\ inst[i].boot = row.epoch
    /\ vol.at = i /\ vol.fence = row.fence /\ row.inst \in {0, i}
    /\ \/ row.nonce = "live"
       \/ row.nonce = "used" /\ row.err = "enroll_tunnel_pending"
    /\ proc' = [proc EXCEPT ![p] =
                  [Idle EXCEPT !.pc = IF row.nonce = "live" THEN "consume"
                                      ELSE "tunnel",
                               !.goal = "enroll", !.snap = row, !.host = i,
                               !.kind = IF row.nonce = "live" THEN "fresh"
                                        ELSE "pending"]]
    /\ UNCHANGED <<rowVars, deleted, world, faults>>

consumeEnrollmentNonce(p) ==
    LET s == proc[p].snap
        i == proc[p].host
        wins == /\ row.gen = s.gen /\ row.epoch = s.epoch
                /\ row.state \in ENROLLABLE_STATES
                /\ row.nonce = "live" /\ ~expired /\ row.inst \in {0, i}
    IN /\ proc[p].pc = "consume"
       /\ step(p, wins,
               [row EXCEPT !.nonce = "used", !.err = "enroll_tunnel_pending",
                           !.inst = i, !.vol = TRUE],
               "none", "tunnel", "idle")
       /\ UNCHANGED <<deleted, world, faults>>

\* The Worker's create for epoch e: fence first, never below the fence, never
\* a second record of an epoch.
createTunnelAllowed(e) == e > tunnel.fence /\ e > tunnel.rec
createTunnel(e) ==
    [rec |-> e, fence |-> IF tunnel.rec > tunnel.fence THEN tunnel.rec
                          ELSE tunnel.fence]

TunnelAnswer(p) ==
    LET e == proc[p].snap.epoch
        pending == proc[p].kind = "pending"
    IN /\ proc[p].pc = "tunnel"
       /\ \/ /\ createTunnelAllowed(e) /\ tunnel' = createTunnel(e)
             /\ Goto(p, "finish", proc[p].snap, proc[p].kind)
             /\ UNCHANGED faults
          \/ /\ ~createTunnelAllowed(e) /\ UNCHANGED <<tunnel, faults>>
             /\ IF pending /\ tunnel.rec = e /\ e > tunnel.fence
                  THEN Goto(p, "finish", proc[p].snap, "pending")
                  ELSE Goto(p, IF pending THEN "idle" ELSE "finish",
                            proc[p].snap, "refused")
          \/ /\ Fault /\ ~pending /\ UNCHANGED tunnel
             /\ Goto(p, "finish", proc[p].snap, "refused")
       /\ UNCHANGED <<rowVars, deleted, inst, vol>>

\* No answer: the Worker may have committed the tunnel.  The epoch stays
\* pending with its consumed nonce and the host retries.
tunnelOutcomeUnknown(p) ==
    LET e == proc[p].snap.epoch IN
    /\ proc[p].pc = "tunnel" /\ Fault
    /\ tunnel' \in {tunnel} \cup
                   (IF createTunnelAllowed(e) THEN {createTunnel(e)} ELSE {})
    /\ Goto(p, "idle", NoRow, "none")
    /\ UNCHANGED <<rowVars, deleted, inst, vol>>

finishEnrollment(p) ==
    LET s == proc[p].snap
        wins == /\ row.gen = s.gen /\ row.epoch = s.epoch
                /\ row.state \in ENROLLABLE_STATES /\ row.inst = s.inst
                /\ row.err = "enroll_tunnel_pending" /\ row.nonce # "live"
    IN /\ proc[p].pc = "finish"
       /\ step(p, wins,
               IF proc[p].kind # "refused"
               THEN [row EXCEPT !.err = "enroll_succeeded"]
               ELSE [row EXCEPT !.state = "UNCONFIRMED", !.nonce = "none",
                                !.err = "enroll_tunnel_failed"],
               "none", "idle", "idle")
       /\ UNCHANGED <<deleted, world, faults>>

-----------------------------------------------------------------------------
\* At rest after the first boot: enrolled and running, or stopped since.
BornRow(state) ==
    CASE state = "RUNNING" ->
           [NoRow EXCEPT !.state = "RUNNING", !.gen = 1, !.epoch = 1, !.inst = 1,
                         !.vol = TRUE, !.fence = 1, !.nonce = "used",
                         !.err = "enroll_succeeded"]
      [] state = "STOPPED" ->
           [NoRow EXCEPT !.state = "STOPPED", !.gen = 1, !.epoch = 1, !.inst = 1,
                         !.vol = TRUE, !.fence = 1]
      [] OTHER -> NoRow

Init ==
    \E state \in Born :
    LET here == IF state = "NONE" THEN 0 ELSE 1
        up == state = "RUNNING"
    IN /\ row = BornRow(state)
       /\ deleted = FALSE /\ aged = FALSE /\ expired = FALSE
       /\ usage = IF up THEN {1} ELSE {}
       /\ jobs = (IF state = "NONE" THEN MaxJob - BootJobs ELSE 0)
       /\ faults = 0
       /\ exec = [j \in Jobs |-> NoExec]
       /\ inst = [i \in Epochs |->
                    IF i # here THEN [st |-> "none", boot |-> 0]
                    ELSE [st |-> IF up THEN "running" ELSE "stopped",
                          boot |-> 1]]
       /\ vol = [at |-> here, fence |-> here]
       /\ tunnel = [rec |-> IF up THEN 1 ELSE 0, fence |-> IF up THEN 0 ELSE here]
       /\ proc = [p \in Procs |-> Idle]

\* The steps of an invocation that has begun.
applyLifecycleReceipt(p) ==
    \/ ReceiptMounted(p) \/ ReceiptNothing(p) \/ settleUnknownStart(p)
    \/ GenerationFence(p) \/ reconcileReplacementGeneration(p)
    \/ ReceiptFailed(p) \/ ReceiptDraining(p) \/ ReceiptFence(p)
    \/ ReceiptFinal(p) \/ ReceiptBooted(p)
startLifecycleJob(p) ==
    \/ StartExecution(p) \/ Started(p) \/ markLifecycleStartUnknown(p)
    \/ Refused(p) \/ RefusedBoot(p)
Act(p) ==
    \/ enforceSessionLimits(p) \/ createAwsPlacement(p)
    \/ \E replace \in BOOLEAN : leasePlacement(p, replace)
    \/ startStop(p) \/ startRetire(p)
    \/ ReleaseFence(p) \/ releaseWithoutResources(p)
    \/ Recovering(p) \/ RecoveringRetire(p)
    \/ softDeleteComputer(p) \/ Answer(p)
Look(p) ==
    \/ ReRead(p) \/ LookPassed(p)
    \/ reconcileGuestStop(p) \/ LostFence(p) \/ recoverLostInstance(p)
EnrollStep(p) ==
    \/ consumeEnrollmentNonce(p) \/ TunnelAnswer(p) \/ tunnelOutcomeUnknown(p)
    \/ finishEnrollment(p)
Handle(p) ==
    \/ applyLifecycleReceipt(p) \/ startLifecycleJob(p)
    \/ Look(p) \/ Act(p) \/ EnrollStep(p)

Workflow(j) == ExecArm(j) \/ ExecMutate(j) \/ ExecSucceed(j) \/ ExecFail(j)

Next ==
    \/ \E p \in Procs : Handle(p) \/ Crash(p)
    \/ \E p \in Users, goal \in {"open", "stop", "delete"} : Begin(p, goal)
    \/ \E p \in Crons, goal \in {"fleet", "deleted"} : Begin(p, goal)
    \/ \E p \in Hosts, i \in Epochs : Enroll(p, i)
    \/ \E j \in Jobs : Workflow(j)
    \/ \E i \in Epochs : GuestShutdown(i) \/ InstanceLost(i)
    \/ LateStartExecution \/ Age \/ Expire

Spec == Init /\ [][Next]_vars

\* An invocation that has begun goes on; the cron ticks for ever and its passes
\* rotate over every row; Step Functions drives its executions; time passes.
\* Nobody has to open, stop or delete, and no host has to enroll.
Fairness ==
    /\ \A p \in Procs : WF_vars(Handle(p))
    /\ \A p \in Crons, goal \in {"fleet", "deleted"} : SF_vars(Begin(p, goal))
    /\ \A j \in Jobs : WF_vars(Workflow(j))
    /\ WF_vars(Age) /\ WF_vars(Expire)
FairSpec == Spec /\ Fairness

-----------------------------------------------------------------------------
\* The row, the executions and the invocations hold only the values the code
\* writes there: every state a last_error names is one of PlacementState.
TypeOK ==
    /\ row \in Row
    /\ deleted \in BOOLEAN /\ aged \in BOOLEAN /\ expired \in BOOLEAN
    /\ usage \subseteq Epochs
    /\ exec \in [Jobs -> Exec \cup {NoExec}]
    /\ jobs \in 0..MaxJob
    /\ inst \in [Epochs -> [st: {"none", "running", "stopped", "gone"},
                            boot: 0..MaxEpoch]]
    /\ vol \in [at: 0..MaxEpoch, fence: 0..MaxEpoch]
    /\ tunnel \in [rec: 0..MaxEpoch, fence: 0..MaxEpoch]
    /\ proc \in [Procs -> Proc]
    /\ faults \in 0..MaxFaults

AtRest == {"STOPPED", "RETIRED", "PURGE_ELIGIBLE"}

\* A row at rest has nothing running and no authorized EC2 call that could
\* still start something: the undo states of a refused or absent start, and
\* the final swap of a stop or retire, are taken only when that is so.
NothingRunsAtRest ==
    row.state \in AtRest =>
        /\ \A i \in Epochs : inst[i].st # "running"
        /\ \A j \in Jobs : exec[j].armed \notin {"run", "boot"}

\* No tunnel outlives the session: a row at rest has no tunnel record, though
\* enrollments, removals and swaps of several epochs interleave.
NoTunnelAtRest == row.state \in AtRest => tunnel.rec = 0

\* RUNNING is only shown for a host the browser can reach: the record is of
\* the row's own epoch and not fenced (until EC2 loses the instance).
RunningIsReachable ==
    row.state = "RUNNING" /\ inst[row.inst].st # "gone" =>
        tunnel.rec = row.epoch /\ tunnel.fence < row.epoch

\* RUNNING holds the data volume under the row's own fence token, and exactly
\* its instance is metered.
RunningOwnsVolume ==
    row.state = "RUNNING" =>
        /\ usage = {row.inst} /\ vol.fence = row.fence
        /\ inst[row.inst].st # "gone" => vol.at = row.inst

\* Two instances of one computer never run at the same time: a replacement is
\* launched after its source is gone.
OneInstanceRuns ==
    \A i, k \in Epochs :
        inst[i].st = "running" /\ inst[k].st = "running" => i = k

\* The receipt of the row's own job always fits the row, so the conflict branch
\* of applyLifecycleReceipt is never taken.
ReceiptFits ==
    row.job # 0 /\ exec[row.job].st = "succeeded" /\ row.state \in Waiting =>
        LET x == exec[row.job] IN
        /\ x.epoch = row.epoch /\ x.gen = row.gen /\ x.fence = row.fence
        /\ row.inst \in {0, ResultInstance(x)}
        /\ row.state \in Stopping => x.op = "stop"
        /\ row.state = "RETIRING" => x.op = "retire"

\* No handler asks for an edge the tables refuse (illegal_transition is never
\* answered): beside their edges a row is only inserted, leased, or given back
\* its generation.
EdgesAreLegal ==
    [][row'.state # row.state =>
        \/ row.state = "NONE" /\ row'.state = "PROVISIONING"
        \/ row'.state \in PLACEMENT_TRANSITIONS[row.state]
        \/ row'.state \in RECONCILER_TRANSITIONS[row.state]
        \/ /\ row.state \in {"STOPPED", "UNCONFIRMED"}
           /\ row'.state = "LEASED" /\ row'.epoch > row.epoch
        \/ /\ row'.state = "STOPPED"
           /\ \E p \in Procs : proc[p].pc = "gencas" /\ proc'[p].pc # "gencas"]_vars

\* A lease is exclusive: when a new epoch is taken no launch, boot or other call
\* of an earlier boot is still to be performed, and epochs never go back.  (A
\* stop or a terminate of an earlier epoch may be: the reconciler's swap does not
\* compare the job, so the absence of one retire can settle the next one.)
LeaseIsExclusive ==
    [][/\ row'.epoch >= row.epoch
       /\ row'.epoch > row.epoch =>
            \A j \in Jobs : exec[j].armed # "none" => exec[j].op \in {"stop", "retire"}]_vars

\* What settleUnconfirmedAwsPlacement leaves to an operator.
Stuck ==
    /\ row.state \in {"UNCONFIRMED", "RECOVERING"}
    /\ ~Retirable(row) /\ ~(NothingRecorded(row) /\ NothingFound)

\* One delete is enough: a deleted computer is retired without its owner, or
\* waits for an operator.
DeletedIsRetired ==
    deleted ~> row.state \in {"NONE", "RETIRED", "PURGE_ELIGIBLE"} \/ Stuck

\* A wake never hangs: it runs, or fails, by its deadline.
WakeSettles ==
    row.state \in {"LEASED", "STARTING", "MOUNTING"} ~>
        row.state \notin {"LEASED", "STARTING", "MOUNTING"}

\* The host of a wake that failed does not run, and cost, for ever: whatever
\* retire of it is lost or fails is started again.
HostRetireErrors ==
    {"enroll_tunnel_failed", "enroll_host_retire", "unknown:UNCONFIRMED:host_retire"}
FailedHostEnds ==
    row.err = "enroll_tunnel_failed" /\ Complete(row) /\ row.job = 0 ~>
        row.err \notin HostRetireErrors \/ inst[row.inst].st # "running"

=============================================================================
