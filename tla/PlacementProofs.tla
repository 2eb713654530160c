--------------------------- MODULE PlacementProofs ---------------------------
(***************************************************************************)
(* What the compare-and-swaps of one computer's row give, for every set of *)
(* invocations, every bound and every failure.                             *)
(***************************************************************************)
EXTENDS Placement, TLAPS

\* After one of these an invocation reads the row again, or has ended.
Resets == {"idle", "reread", "again", "softdelete"}
Retires == {"uretire", "rretire", "hostretire", "fleetretire", "uncretire"}
Stops == {"ustop", "rstop", "capstop"}

\* A row that exists has a lease, a generation and a fence token of its leases,
\* and an instance once it was told of one.
RowOK(r) ==
    /\ r \in Row
    /\ r.state # "NONE" => r.epoch >= 1 /\ r.gen \in 1..r.epoch /\ r.fence \in 1..r.epoch
    /\ r.state = "MOUNTING" => r.inst >= 1

\* A job names its lease's generation and fence token, and what it starts from;
\* only a running execution has a call to be performed.
ExecOK(x) ==
    \/ x = NoExec
    \/ /\ x \in Exec
       /\ x.gen \in 1..x.epoch /\ x.fence \in 1..x.epoch
       /\ x.op # "provision" => x.src >= 1
       /\ x.op = "replace" => x.prevGen \in 1..x.epoch /\ x.prevFence \in 1..x.epoch
       /\ x.armed # "none" => x.st = "running"

\* What a refused or unanswered boot gives its row back to.
BootUndo(s, undo) ==
    /\ s.state \in {"PROVISIONING", "LEASED"}
    /\ undo \in PLACEMENT_TRANSITIONS[s.state] /\ undo \in {"STOPPED", "UNCONFIRMED"}

\* What is started, of which row, and the state its refusal would go back to.
StartOK(s, kind, undo) ==
    \/ kind = "boot" /\ BootUndo(s, undo)
    \/ kind \in Stops /\ s.state = "DRAINING"
    \/ kind \in {"uretire", "rretire"} /\ s.state = "RETIRING" /\ undo \in {"RUNNING", "STOPPED"}
    \/ kind \in Retires \ {"uretire", "rretire"} /\ s.state = "RETIRING" /\ undo = "UNCONFIRMED"
    \/ kind = "settle" /\ s.state \in Stopping \cup {"RETIRING"} /\ s.err \in StartUnknown

\* What an invocation that goes on at pc has read, and found in the jobs x.
SnapOK(pc, s, kind, undo, x) ==
    /\ pc = "receipt" => undo = "NONE"
    /\ pc = "start" => s.job # 0 /\ StartOK(s, kind, undo)
    /\ pc \in {"refused", "undo"} => BootUndo(s, undo)
    /\ pc = "gencas" =>
         /\ undo # "NONE" => BootUndo(s, undo)
         /\ s.job # 0 /\ s.state # "NONE"
         /\ x[s.job].op = "replace" /\ x[s.job].epoch = s.epoch
    /\ pc = "final" =>
         /\ s.job # 0 /\ s.state \in {"STOPPING", "RETIRING"}
         /\ x[s.job].st \in {"succeeded", "lost"}
    /\ pc = "lost" => s.state = "RUNNING"
    /\ pc = "release" => s.state \in {"UNCONFIRMED", "RECOVERING"}
    /\ pc = "purge" => s.state = "RETIRED"
    /\ pc = "recover" =>
         /\ s.state \in {"UNCONFIRMED", "RECOVERING"} /\ s.inst # 0
         /\ kind \in {"hostretire", "fleetretire", "uncretire"}

ExecsOK == \A j \in Jobs : ExecOK(exec[j]) /\ (j > jobs => exec[j] = NoExec)
ProcsOK ==
    \A p \in Procs :
        /\ RowOK(proc[p].snap)
        /\ SnapOK(proc[p].pc, proc[p].snap, proc[p].kind, proc[p].undo, exec)

Inv1 == TypeOK /\ RowOK(row) /\ ExecsOK /\ ProcsOK

-----------------------------------------------------------------------------
(* The parts of a step: what an invocation does next, one swap, one job.   *)

\* The jobs only grow, and a job keeps what it was recorded with and how it
\* ended.
JobsGrow(x, y) ==
    \A j \in Jobs :
        /\ x[j].op # "none" =>
             /\ y[j].op = x[j].op /\ y[j].gen = x[j].gen /\ y[j].epoch = x[j].epoch
             /\ y[j].fence = x[j].fence /\ y[j].src = x[j].src
             /\ y[j].prevGen = x[j].prevGen /\ y[j].prevFence = x[j].prevFence
        /\ x[j].st \in {"succeeded", "lost", "failed"} => y[j].st = x[j].st

\* The bounds and the sets a step's types rest on.
LEMMA Bounds ==
    /\ MaxEpoch \in Nat /\ MaxJob \in Nat /\ MaxFaults \in Nat
    /\ 1 \in Epochs /\ 0 \in 0..MaxEpoch /\ Epochs \subseteq 0..MaxEpoch
    /\ NoRow \in Row /\ RowOK(NoRow) /\ NoRow.state = "NONE"
<1>1. /\ MaxEpoch \in Nat /\ MaxJob \in Nat /\ MaxFaults \in Nat
      /\ 1 \in Epochs /\ 0 \in 0..MaxEpoch /\ Epochs \subseteq 0..MaxEpoch
      /\ 0 \in 0..MaxJob
  BY BoundsAssumption DEF Epochs
<1>2. NoRow \in Row /\ NoRow.state = "NONE"
  BY <1>1 DEF NoRow, Row, LastError
<1>3. RowOK(NoRow)
  BY <1>2 DEF RowOK
<1> QED BY <1>1, <1>2, <1>3

\* What an invocation is after Goto.
LEMMA GotoIs ==
    ASSUME proc \in [Procs -> Proc], NEW p \in Procs, NEW pc \in Pc, NEW s \in Row,
           NEW kind \in Kind, Goto(p, pc, s, kind)
    PROVE  /\ proc' \in [Procs -> Proc]
           /\ \A q \in Procs : q # p => proc'[q] = proc[q]
           /\ proc'[p].pc = pc
           /\ pc \in Resets => proc'[p].snap = NoRow
           /\ pc \notin Resets =>
                /\ proc'[p].snap = s /\ proc'[p].kind = kind
                /\ proc'[p].undo = proc[p].undo /\ proc'[p].old = proc[p].old
                /\ proc'[p].goal = proc[p].goal /\ proc'[p].host = proc[p].host
<1>1. proc[p] \in Proc
  OBVIOUS
<1>2. Idle \in Proc /\ Idle.snap = NoRow /\ Idle.pc = "idle"
  BY Bounds DEF Idle, Proc, Pc, Goal, Kind
<1>3. CASE pc = "idle"
  <2>1. proc' = [proc EXCEPT ![p] = Idle]
    BY <1>3 DEF Goto
  <2> QED BY <1>2, <1>3, <2>1 DEF Resets
<1>4. CASE pc \in {"reread", "again", "softdelete"}
  <2> DEFINE new == [Idle EXCEPT !.pc = pc, !.goal = proc[p].goal]
  <2>1. proc' = [proc EXCEPT ![p] = new]
    BY <1>4 DEF Goto
  <2>2. new \in Proc /\ new.pc = pc /\ new.snap = NoRow
    BY <1>1, <1>2 DEF Proc
  <2> QED BY <1>4, <2>1, <2>2 DEF Resets
<1>5. CASE pc \notin Resets
  <2> DEFINE new == [proc[p] EXCEPT !.pc = pc, !.snap = s, !.kind = kind]
  <2>1. proc' = [proc EXCEPT ![p] = new]
    BY <1>5 DEF Goto, Resets
  <2>2. /\ new \in Proc /\ new.pc = pc /\ new.snap = s /\ new.kind = kind
        /\ new.undo = proc[p].undo /\ new.old = proc[p].old
        /\ new.goal = proc[p].goal /\ new.host = proc[p].host
    BY <1>1 DEF Proc
  <2> QED BY <1>5, <2>1, <2>2
<1> QED BY <1>3, <1>4, <1>5 DEF Resets

\* What was read of the jobs stays so while the jobs grow.
LEMMA SnapStays ==
    ASSUME NEW pc, NEW s \in Row, NEW kind, NEW undo, NEW x, NEW y,
           SnapOK(pc, s, kind, undo, x), JobsGrow(x, y)
    PROVE  SnapOK(pc, s, kind, undo, y)
<1>1. s.job # 0 => s.job \in Jobs
  BY BoundsAssumption DEF Row, Jobs
<1> QED BY <1>1 DEF SnapOK, JobsGrow

\* A reset has read nothing.
LEMMA ResetReadsNothing ==
    ASSUME NEW pc \in Resets, NEW s, NEW kind, NEW undo, NEW x
    PROVE  SnapOK(pc, s, kind, undo, x)
BY DEF SnapOK, Resets

\* The invocations of a step that moves one of them.
LEMMA GotoKeeps ==
    ASSUME Inv1, JobsGrow(exec, exec'), NEW p \in Procs, NEW pc \in Pc, NEW s,
           RowOK(s), NEW kind \in Kind, Goto(p, pc, s, kind),
           pc \in Resets \/ SnapOK(pc, s, kind, proc[p].undo, exec')
    PROVE  proc' \in [Procs -> Proc] /\ ProcsOK'
<1>1. proc \in [Procs -> Proc] /\ s \in Row
  BY DEF Inv1, TypeOK, RowOK
<1>2. /\ proc' \in [Procs -> Proc]
      /\ \A q \in Procs : q # p => proc'[q] = proc[q]
      /\ proc'[p].pc = pc
      /\ pc \in Resets => proc'[p].snap = NoRow
      /\ pc \notin Resets =>
           /\ proc'[p].snap = s /\ proc'[p].kind = kind
           /\ proc'[p].undo = proc[p].undo
  BY <1>1, GotoIs
<1>3. ASSUME NEW q \in Procs
      PROVE  /\ RowOK(proc'[q].snap)
             /\ SnapOK(proc'[q].pc, proc'[q].snap, proc'[q].kind, proc'[q].undo, exec')
  <2>1. CASE q # p
    <3>1. /\ RowOK(proc[q].snap)
          /\ SnapOK(proc[q].pc, proc[q].snap, proc[q].kind, proc[q].undo, exec)
      BY DEF Inv1, ProcsOK
    <3>2. proc[q].snap \in Row
      BY <3>1 DEF RowOK
    <3> QED BY <1>2, <2>1, <3>1, <3>2, SnapStays
  <2>2. CASE q = p /\ pc \in Resets
    BY <1>2, <2>2, Bounds, ResetReadsNothing
  <2>3. CASE q = p /\ pc \notin Resets
    BY <1>2, <2>3
  <2> QED BY <2>1, <2>2, <2>3
<1> QED BY <1>2, <1>3 DEF ProcsOK

\* The invocations of a step that moves none of them.
LEMMA ProcsStay ==
    ASSUME Inv1, JobsGrow(exec, exec'), proc' = proc
    PROVE  ProcsOK'
<1>1. ASSUME NEW q \in Procs
      PROVE  /\ RowOK(proc[q].snap)
             /\ SnapOK(proc[q].pc, proc[q].snap, proc[q].kind, proc[q].undo, exec')
  <2>1. /\ RowOK(proc[q].snap)
        /\ SnapOK(proc[q].pc, proc[q].snap, proc[q].kind, proc[q].undo, exec)
    BY DEF Inv1, ProcsOK
  <2>2. proc[q].snap \in Row
    BY <2>1 DEF RowOK
  <2> QED BY <2>1, <2>2, SnapStays
<1> QED BY <1>1 DEF ProcsOK

\* The jobs do not change.
LEMMA SameJobsGrow == \A x : JobsGrow(x, x)
BY DEF JobsGrow

\* The parts of the world beside row, jobs and invocations hold their types.
WorldOK ==
    /\ deleted \in BOOLEAN /\ expired \in BOOLEAN
    /\ inst \in [Epochs -> [st: {"none", "running", "stopped", "gone"}, boot: 0..MaxEpoch]]
    /\ vol \in [at: 0..MaxEpoch, fence: 0..MaxEpoch]
    /\ tunnel \in [rec: 0..MaxEpoch, fence: 0..MaxEpoch]
    /\ faults \in 0..MaxFaults

\* One compare-and-swap.
LEMMA StepKeeps ==
    ASSUME Inv1, NEW p \in Procs, NEW wins, NEW r, NEW effect, NEW pc \in Pc,
           NEW lose \in Pc, step(p, wins, r, effect, pc, lose),
           WorldOK',
           wins => RowOK(r),
           effect = "open" => (wins => r.inst \in Epochs),
           wins => pc \in Resets \/ SnapOK(pc, r, proc[p].kind, proc[p].undo, exec),
           lose \in Resets \/ SnapOK(lose, proc[p].snap, proc[p].kind, proc[p].undo, exec)
    PROVE  Inv1'
<1>1. /\ RowOK(proc[p].snap) /\ proc[p].kind \in Kind
      /\ RowOK(row) /\ aged \in BOOLEAN /\ usage \subseteq Epochs
      /\ proc \in [Procs -> Proc] /\ exec \in [Jobs -> Exec \cup {NoExec}]
      /\ jobs \in 0..MaxJob /\ ExecsOK
  BY DEF Inv1, TypeOK, ProcsOK, Proc
<1>2. /\ exec' = exec /\ jobs' = jobs
      /\ wins => Write(r, effect)
      /\ ~wins => row' = row /\ aged' = aged /\ usage' = usage
  BY DEF step, casInTx
<1>3. /\ RowOK(row') /\ aged' \in BOOLEAN /\ usage' \subseteq Epochs
  <2>1. CASE wins
    BY <1>1, <1>2, <2>1 DEF Write, applyTransitionUsageInTx
  <2>2. CASE ~wins
    BY <1>1, <1>2, <2>2
  <2> QED BY <2>1, <2>2
<1>4. JobsGrow(exec, exec')
  BY <1>2, SameJobsGrow
<1>5. proc' \in [Procs -> Proc] /\ ProcsOK'
  <2>1. CASE wins
    <3>1. Goto(p, pc, r, proc[p].kind)
      BY <2>1 DEF step
    <3>2. pc \in Resets \/ SnapOK(pc, r, proc[p].kind, proc[p].undo, exec')
      BY <2>1, <1>2
    <3> QED BY <1>1, <1>4, <2>1, <3>1, <3>2, GotoKeeps
  <2>2. CASE ~wins
    <3>1. Goto(p, lose, proc[p].snap, proc[p].kind)
      BY <2>2 DEF step
    <3>2. lose \in Resets \/ SnapOK(lose, proc[p].snap, proc[p].kind, proc[p].undo, exec')
      BY <1>2
    <3> QED BY <1>1, <1>4, <3>1, <3>2, GotoKeeps
  <2> QED BY <2>1, <2>2
<1>6. TypeOK'
  BY <1>1, <1>2, <1>3, <1>5 DEF TypeOK, WorldOK, RowOK
<1>7. ExecsOK'
  BY <1>1, <1>2 DEF ExecsOK
<1> QED BY <1>3, <1>5, <1>6, <1>7 DEF Inv1

\* One invocation goes on; the row and the jobs stay.
LEMMA MoveKeeps ==
    ASSUME Inv1, NEW p \in Procs, NEW pc \in Pc, NEW s, RowOK(s), NEW kind \in Kind,
           Goto(p, pc, s, kind),
           UNCHANGED <<row, aged, usage, exec, jobs>>, WorldOK',
           pc \in Resets \/ SnapOK(pc, s, kind, proc[p].undo, exec)
    PROVE  Inv1'
<1>1. JobsGrow(exec, exec')
  BY SameJobsGrow
<1>2. pc \in Resets \/ SnapOK(pc, s, kind, proc[p].undo, exec')
  OBVIOUS
<1>3. proc' \in [Procs -> Proc] /\ ProcsOK'
  BY <1>1, <1>2, GotoKeeps
<1>4. TypeOK' /\ RowOK(row') /\ ExecsOK'
  BY <1>3 DEF Inv1, TypeOK, WorldOK, ExecsOK
<1> QED BY <1>3, <1>4 DEF Inv1

\* A swap that records a job, started next.
LEMMA RecordKeeps ==
    ASSUME Inv1, NEW p \in Procs, NEW wins, NEW r, NEW work, NEW kind \in Kind,
           NEW undo \in PlacementState \cup {"NONE"}, NEW lose \in Pc,
           recordJob(p, wins, r, work, kind, undo, lose),
           WorldOK',
           wins => RowOK(r) /\ work \in Exec /\ ExecOK(work) /\ StartOK(r, kind, undo),
           lose \in Resets \cup {"act"}
    PROVE  Inv1'
<1>1. /\ RowOK(proc[p].snap) /\ proc[p] \in Proc /\ proc[p].kind \in Kind
      /\ RowOK(row) /\ aged \in BOOLEAN /\ usage \subseteq Epochs
      /\ proc \in [Procs -> Proc] /\ exec \in [Jobs -> Exec \cup {NoExec}]
      /\ jobs \in 0..MaxJob /\ ExecsOK
  BY DEF Inv1, TypeOK, ProcsOK, Proc
<1>2. CASE ~wins
  <2>1. UNCHANGED <<row, aged, usage, exec, jobs>> /\ Goto(p, lose, proc[p].snap, "none")
    BY <1>2 DEF recordJob
  <2>2. "none" \in Kind
    BY DEF Kind
  <2>3. lose \in Resets \/ SnapOK(lose, proc[p].snap, "none", proc[p].undo, exec)
    BY DEF SnapOK
  <2> QED BY <1>1, <2>1, <2>2, <2>3, MoveKeeps
<1>3. CASE wins
  <2> DEFINE j == jobs + 1
             new == [r EXCEPT !.job = j]
  <2>1. /\ j \in Jobs /\ j # 0 /\ jobs' = j /\ j \in 0..MaxJob
        /\ Write(new, "none")
        /\ exec' = [exec EXCEPT ![j] = work]
        /\ proc' = [proc EXCEPT ![p].pc = "start", ![p].snap = row',
                                ![p].kind = kind, ![p].undo = undo]
    BY <1>1, <1>3, BoundsAssumption DEF recordJob, Jobs
  <2>2. /\ RowOK(new) /\ new.job = j /\ new.state = r.state /\ new.err = r.err
        /\ StartOK(new, kind, undo)
    <3>1. /\ RowOK(new) /\ new.job = j /\ new.state = r.state /\ new.err = r.err
      BY <1>3, <2>1 DEF RowOK, Row
    <3> QED BY <1>3, <3>1 DEF StartOK, BootUndo
  <2>3. row' = new /\ aged' = FALSE /\ usage' \subseteq Epochs
    BY <1>1, <2>1 DEF Write, applyTransitionUsageInTx
  <2> HIDE DEF new
  <2>4. /\ exec' \in [Jobs -> Exec \cup {NoExec}] /\ ExecsOK'
    <3>1. \A k \in Jobs : exec'[k] = IF k = j THEN work ELSE exec[k]
      BY <1>1, <2>1
    <3>2. exec' \in [Jobs -> Exec \cup {NoExec}]
      BY <1>1, <1>3, <2>1
    <3>3. ASSUME NEW k \in Jobs
          PROVE  ExecOK(exec'[k]) /\ (k > jobs' => exec'[k] = NoExec)
      <4>1. ExecOK(exec[k]) /\ (k > jobs => exec[k] = NoExec)
        BY <1>1 DEF ExecsOK
      <4>2. k \in Nat /\ jobs \in Nat
        BY <1>1, Bounds DEF Jobs
      <4>3. k > jobs' => k # j /\ k > jobs
        BY <2>1, <4>2
      <4>4. ExecOK(exec'[k])
        BY <1>3, <3>1, <4>1
      <4> QED BY <3>1, <4>1, <4>3, <4>4
    <3> QED BY <3>2, <3>3 DEF ExecsOK
  <2>5. /\ proc' \in [Procs -> Proc]
        /\ \A q \in Procs : q # p => proc'[q] = proc[q]
        /\ proc'[p].pc = "start" /\ proc'[p].snap = new
        /\ proc'[p].kind = kind /\ proc'[p].undo = undo
    <3> DEFINE now == [proc[p] EXCEPT !.pc = "start", !.snap = new, !.kind = kind,
                                      !.undo = undo]
    <3>1. proc' = [proc EXCEPT ![p] = now]
      BY <1>1, <2>1, <2>3
    <3>2. /\ now \in Proc /\ now.pc = "start" /\ now.snap = new
          /\ now.kind = kind /\ now.undo = undo
      BY <1>1, <2>2 DEF Proc, Pc, RowOK
    <3> HIDE DEF now
    <3> QED BY <1>1, <3>1, <3>2
  <2>6. JobsGrow(exec, exec')
    <3>1. exec[j] = NoExec
      BY <1>1, <2>1 DEF ExecsOK
    <3>2. \A k \in Jobs : k # j => exec'[k] = exec[k]
      BY <1>1, <2>1
    <3> QED BY <3>1, <3>2 DEF JobsGrow, NoExec
  <2>7. ProcsOK'
    <3> SUFFICES ASSUME NEW q \in Procs
                 PROVE  /\ RowOK(proc'[q].snap)
                        /\ SnapOK(proc'[q].pc, proc'[q].snap, proc'[q].kind,
                                  proc'[q].undo, exec')
      BY DEF ProcsOK
    <3>1. CASE q = p
      BY <2>1, <2>2, <2>5, <3>1 DEF SnapOK
    <3>2. CASE q # p
      <4>1. /\ RowOK(proc[q].snap) /\ proc[q].snap \in Row
            /\ SnapOK(proc[q].pc, proc[q].snap, proc[q].kind, proc[q].undo, exec)
        BY DEF Inv1, ProcsOK, RowOK
      <4> QED BY <2>5, <2>6, <3>2, <4>1, SnapStays
    <3> QED BY <3>1, <3>2
  <2>8. TypeOK'
    BY <1>1, <2>1, <2>2, <2>3, <2>4, <2>5 DEF TypeOK, WorldOK, RowOK
  <2> QED BY <2>2, <2>3, <2>4, <2>7, <2>8 DEF Inv1
<1> QED BY <1>2, <1>3

-----------------------------------------------------------------------------
(* The world beside the row: what each kind of step leaves well formed.    *)

\* An invocation's own fields.
LEMMA ProcIs ==
    ASSUME Inv1, NEW p \in Procs
    PROVE  /\ proc[p] \in Proc /\ proc[p].kind \in Kind /\ proc[p].goal \in Goal
           /\ proc[p].undo \in PlacementState \cup {"NONE"}
           /\ proc[p].host \in 0..MaxEpoch /\ proc[p].pc \in Pc
           /\ RowOK(proc[p].snap) /\ proc[p].snap \in Row
           /\ SnapOK(proc[p].pc, proc[p].snap, proc[p].kind, proc[p].undo, exec)
<1>1. proc[p] \in Proc
  BY DEF Inv1, TypeOK
<1>2. /\ RowOK(proc[p].snap)
      /\ SnapOK(proc[p].pc, proc[p].snap, proc[p].kind, proc[p].undo, exec)
  BY DEF Inv1, ProcsOK
<1> QED BY <1>1, <1>2 DEF Proc, RowOK

\* A failure is counted within its bound.
LEMMA FaultCounts ==
    ASSUME Inv1, Fault
    PROVE  faults' \in 0..MaxFaults
BY BoundsAssumption DEF Inv1, TypeOK, Fault

\* Nothing but the row and the invocations changes.
LEMMA WorldStays ==
    ASSUME Inv1, UNCHANGED <<deleted, world, expired>>, faults' = faults \/ Fault
    PROVE  WorldOK'
<1>1. faults' \in 0..MaxFaults
  BY FaultCounts DEF Inv1, TypeOK
<1> QED BY <1>1 DEF Inv1, TypeOK, WorldOK, world

\* A removal leaves the tunnel well formed, and the row's invocations alone but
\* the one that asked for it.
LEMMA FenceKeeps ==
    ASSUME Inv1, NEW p \in Procs, NEW pc \in Pc, NEW kind \in Kind,
           NEW lose \in Resets \cup {"undo", "act"},
           Fence(p, proc[p].snap.epoch, pc, kind, lose),
           UNCHANGED <<rowVars, deleted, inst, vol>>,
           SnapOK(pc, proc[p].snap, kind, proc[p].undo, exec),
           lose = "undo" => BootUndo(proc[p].snap, proc[p].undo)
    PROVE  Inv1'
<1> DEFINE e == proc[p].snap.epoch
<1>1. /\ RowOK(proc[p].snap) /\ e \in 0..MaxEpoch /\ proc[p].kind \in Kind
  BY ProcIs DEF Row
<1>2. deleteTunnel(e) \in [rec: 0..MaxEpoch, fence: 0..MaxEpoch]
  BY <1>1, Bounds DEF Inv1, TypeOK, deleteTunnel
<1>3. tunnel' \in [rec: 0..MaxEpoch, fence: 0..MaxEpoch]
  BY <1>2 DEF Fence, Inv1, TypeOK
<1>4. faults' \in 0..MaxFaults
  BY FaultCounts DEF Fence, Inv1, TypeOK
<1>5. WorldOK' /\ UNCHANGED <<row, aged, usage, exec, jobs>>
  BY <1>3, <1>4 DEF Inv1, TypeOK, WorldOK, rowVars
<1>6. lose \in Pc /\ (lose \in Resets \/ SnapOK(lose, proc[p].snap, proc[p].kind, proc[p].undo, exec))
  BY DEF Resets, Pc, SnapOK
<1>7. CASE Goto(p, pc, proc[p].snap, kind)
  BY <1>1, <1>5, <1>7, MoveKeeps
<1>8. CASE Goto(p, lose, proc[p].snap, proc[p].kind)
  BY <1>1, <1>5, <1>6, <1>8, MoveKeeps
<1> QED BY <1>7, <1>8 DEF Fence

\* An invocation that reads nothing more of the row.
LEMMA ResetKeeps ==
    ASSUME Inv1, NEW p \in Procs, NEW pc \in Resets, NEW s, RowOK(s), NEW kind \in Kind,
           Goto(p, pc, s, kind),
           UNCHANGED <<row, aged, usage, exec, jobs>>, WorldOK'
    PROVE  Inv1'
<1>1. pc \in Pc
  BY DEF Resets, Pc
<1> QED BY <1>1, MoveKeeps

\* An invocation that has not begun.
LEMMA IdleIs ==
    /\ Idle \in Proc /\ Idle.pc = "idle" /\ Idle.snap = NoRow /\ Idle.undo = "NONE"
BY Bounds DEF Idle, Proc, Pc, Goal, Kind

\* One invocation becomes new.
LEMMA OneMoves ==
    ASSUME Inv1, NEW p \in Procs, NEW new \in Proc, proc' = [proc EXCEPT ![p] = new],
           RowOK(new.snap), SnapOK(new.pc, new.snap, new.kind, new.undo, exec),
           UNCHANGED <<row, aged, usage, exec, jobs>>, WorldOK'
    PROVE  Inv1'
<1>1. ASSUME NEW q \in Procs
      PROVE  /\ RowOK(proc'[q].snap)
             /\ SnapOK(proc'[q].pc, proc'[q].snap, proc'[q].kind, proc'[q].undo, exec')
  <2>1. CASE q = p
    BY <2>1 DEF Inv1, TypeOK
  <2>2. CASE q # p
    <3>1. proc'[q] = proc[q]
      BY <2>2 DEF Inv1, TypeOK
    <3> QED BY <3>1, ProcIs
  <2> QED BY <2>1, <2>2
<1>2. proc' \in [Procs -> Proc]
  BY DEF Inv1, TypeOK
<1> QED BY <1>1, <1>2 DEF Inv1, TypeOK, WorldOK, ExecsOK, ProcsOK

\* A request or a pass reads the row.
LEMMA BeginKeeps ==
    ASSUME Inv1, NEW p \in Procs, NEW goal \in Goal, Begin(p, goal)
    PROVE  Inv1'
<1> DEFINE pc == IF goal = "stop" \/ row.state = "NONE" THEN "act" ELSE "receipt"
           new == [Idle EXCEPT !.pc = pc, !.goal = goal, !.snap = row, !.old = aged]
<1>1. /\ proc' = [proc EXCEPT ![p] = new]
      /\ UNCHANGED <<rowVars, deleted, world, faults>>
  BY DEF Begin
<1>2. row \in Row /\ RowOK(row) /\ aged \in BOOLEAN /\ pc \in Pc
  BY DEF Inv1, TypeOK, Pc
<1>3. /\ new \in Proc /\ new.snap = row /\ new.pc = pc /\ new.undo = "NONE"
  <2>1. new \in Proc
    BY <1>2, IdleIs DEF Proc
  <2> QED BY <2>1 DEF Idle
<1>4. SnapOK(new.pc, new.snap, new.kind, new.undo, exec)
  BY <1>3 DEF SnapOK
<1> HIDE DEF new
<1>5. UNCHANGED <<row, aged, usage, exec, jobs, expired>>
  BY <1>1 DEF rowVars
<1>6. WorldOK'
  BY <1>1, <1>5, WorldStays
<1> QED BY <1>1, <1>2, <1>3, <1>4, <1>5, <1>6, OneMoves

\* The row is read again.
LEMMA ReReadKeeps ==
    ASSUME Inv1, NEW p \in Procs, ReRead(p)
    PROVE  Inv1'
<1> DEFINE pc == IF proc[p].pc = "reread" /\ proc[p].goal # "deleted" THEN "look" ELSE "act"
           new == [proc[p] EXCEPT !.pc = pc, !.snap = row, !.old = aged]
<1>1. row \in Row /\ RowOK(row) /\ aged \in BOOLEAN /\ pc \in Pc
  BY DEF Inv1, TypeOK, Pc
<1>2. proc[p] \in Proc
  BY ProcIs
<1>3. /\ proc' = [proc EXCEPT ![p] = new]
      /\ UNCHANGED <<rowVars, deleted, world, faults>>
  BY <1>2 DEF ReRead, Inv1, TypeOK
<1>4. /\ new \in Proc /\ new.snap = row /\ new.pc = pc
  BY <1>1, <1>2 DEF Proc
<1>5. SnapOK(new.pc, new.snap, new.kind, new.undo, exec)
  BY <1>4 DEF SnapOK
<1> HIDE DEF new
<1>6. UNCHANGED <<row, aged, usage, exec, jobs, expired>>
  BY <1>3 DEF rowVars
<1>7. WorldOK'
  BY <1>3, <1>6, WorldStays
<1> QED BY <1>1, <1>3, <1>4, <1>5, <1>6, <1>7, OneMoves

\* A host reports in.
LEMMA EnrollKeeps ==
    ASSUME Inv1, NEW p \in Procs, NEW i \in Epochs, Enroll(p, i)
    PROVE  Inv1'
<1> DEFINE new == [Idle EXCEPT !.pc = IF row.nonce = "live" THEN "consume" ELSE "tunnel",
                               !.goal = "enroll", !.snap = row, !.host = i,
                               !.kind = IF row.nonce = "live" THEN "fresh" ELSE "pending"]
<1>1. /\ proc' = [proc EXCEPT ![p] = new]
      /\ UNCHANGED <<rowVars, deleted, world, faults>>
  BY DEF Enroll
<1>2. row \in Row /\ RowOK(row) /\ i \in 0..MaxEpoch
  BY Bounds DEF Inv1, TypeOK
<1>3. /\ new \in Proc /\ new.snap = row /\ new.pc \in {"consume", "tunnel"}
  <2>1. new \in Proc
    BY <1>2, IdleIs DEF Proc, Pc, Goal, Kind
  <2> QED BY <2>1 DEF Idle
<1>4. SnapOK(new.pc, new.snap, new.kind, new.undo, exec)
  BY <1>3 DEF SnapOK
<1> HIDE DEF new
<1>5. UNCHANGED <<row, aged, usage, exec, jobs, expired>>
  BY <1>1 DEF rowVars
<1>6. WorldOK'
  BY <1>1, <1>5, WorldStays
<1> QED BY <1>1, <1>2, <1>3, <1>4, <1>5, <1>6, OneMoves

\* An invocation dies.
LEMMA CrashKeeps ==
    ASSUME Inv1, NEW p \in Procs, Crash(p)
    PROVE  Inv1'
<1>1. Goto(p, "idle", NoRow, "none") /\ UNCHANGED <<rowVars, deleted, world>> /\ Fault
  BY DEF Crash
<1>2. WorldOK' /\ UNCHANGED <<row, aged, usage, exec, jobs>>
  BY <1>1, WorldStays DEF rowVars
<1> QED BY <1>1, <1>2, Bounds, ResetKeeps DEF Resets, Kind

-----------------------------------------------------------------------------
(* The steps that only move an invocation, or the tunnel.                  *)

\* A receipt that changes nothing.
LEMMA ReceiptNothingKeeps ==
    ASSUME Inv1, NEW p \in Procs, ReceiptNothing(p)
    PROVE  Inv1'
<1>1. Goto(p, "reread", NoRow, "none") /\ UNCHANGED <<rowVars, deleted, world, faults>>
  BY DEF ReceiptNothing
<1>2. WorldOK' /\ UNCHANGED <<row, aged, usage, exec, jobs>>
  BY <1>1, WorldStays DEF rowVars
<1> QED BY <1>1, <1>2, Bounds, ResetKeeps DEF Resets, Kind

\* The tunnel of a replacement that did not happen is fenced.
LEMMA GenerationFenceKeeps ==
    ASSUME Inv1, NEW p \in Procs, GenerationFence(p)
    PROVE  Inv1'
<1> DEFINE s == proc[p].snap
           kind == IF inst[exec[s.job].src].st = "stopped" THEN "kept" ELSE "gone"
           lose == IF proc[p].pc = "refused" THEN "undo" ELSE "reread"
<1>1. /\ Fence(p, s.epoch, "gencas", kind, lose)
      /\ UNCHANGED <<rowVars, deleted, inst, vol>>
      /\ proc[p].pc = "refused" \/ (proc[p].pc = "receipt" /\ s.state \in Waiting)
      /\ s.job # 0 /\ exec[s.job].op = "replace" /\ exec[s.job].epoch = s.epoch
  BY DEF GenerationFence, Described, ReplacementEvidence
<1>2. SnapOK(proc[p].pc, s, proc[p].kind, proc[p].undo, exec)
  BY ProcIs
<1>3. /\ SnapOK("gencas", s, kind, proc[p].undo, exec)
      /\ lose = "undo" => BootUndo(s, proc[p].undo)
  BY <1>1, <1>2 DEF SnapOK, Waiting, IN_FLIGHT_STATES, BootUndo
<1>4. "gencas" \in Pc /\ kind \in Kind /\ lose \in Resets \cup {"undo", "act"}
  BY DEF Pc, Kind, Resets
<1> QED BY <1>1, <1>3, <1>4, FenceKeeps

\* The tunnel of a finished session is fenced.
LEMMA ReceiptFenceKeeps ==
    ASSUME Inv1, NEW p \in Procs, ReceiptFence(p)
    PROVE  Inv1'
<1> DEFINE s == proc[p].snap
<1>1. /\ Fence(p, s.epoch, "final", "none", "reread")
      /\ UNCHANGED <<rowVars, deleted, inst, vol>>
      /\ s.job # 0 /\ s.state \in {"STOPPING", "RETIRING"}
      /\ exec[s.job].st \in {"succeeded", "lost"}
  BY DEF ReceiptFence, Described
<1>2. SnapOK("final", s, "none", proc[p].undo, exec)
  BY <1>1 DEF SnapOK
<1> QED BY <1>1, <1>2, FenceKeeps DEF Pc, Kind, Resets

\* The tunnel of a lost instance is fenced.
LEMMA LostFenceKeeps ==
    ASSUME Inv1, NEW p \in Procs, LostFence(p)
    PROVE  Inv1'
<1> DEFINE s == proc[p].snap
<1>1. /\ Fence(p, s.epoch, "lost", "none", "act")
      /\ UNCHANGED <<rowVars, deleted, inst, vol>> /\ s.state = "RUNNING"
  BY DEF LostFence, GuestStopDue
<1>2. SnapOK("lost", s, "none", proc[p].undo, exec)
  BY <1>1 DEF SnapOK
<1> QED BY <1>1, <1>2, FenceKeeps DEF Pc, Kind, Resets

\* The tunnel of a placement that owns nothing is fenced.
LEMMA ReleaseFenceKeeps ==
    ASSUME Inv1, NEW p \in Procs, ReleaseFence(p)
    PROVE  Inv1'
<1> DEFINE s == proc[p].snap
<1>1. /\ Fence(p, s.epoch, "release", "none", "idle")
      /\ UNCHANGED <<rowVars, deleted, inst, vol>>
      /\ s.state \in {"UNCONFIRMED", "RECOVERING"}
  BY DEF ReleaseFence, Unconfirmed
<1>2. SnapOK("release", s, "none", proc[p].undo, exec)
  BY <1>1 DEF SnapOK
<1> QED BY <1>1, <1>2, FenceKeeps DEF Pc, Kind, Resets

\* Nothing was seen of the instance.
LEMMA LookPassedKeeps ==
    ASSUME Inv1, NEW p \in Procs, LookPassed(p)
    PROVE  Inv1'
<1>1. /\ Goto(p, "act", proc[p].snap, "none")
      /\ UNCHANGED <<rowVars, deleted, world>> /\ (faults' = faults \/ Fault)
  BY DEF LookPassed
<1>2. WorldOK' /\ UNCHANGED <<row, aged, usage, exec, jobs>>
  BY <1>1, WorldStays DEF rowVars
<1>3. SnapOK("act", proc[p].snap, "none", proc[p].undo, exec)
  BY DEF SnapOK
<1> QED BY <1>1, <1>2, <1>3, ProcIs, MoveKeeps DEF Pc, Kind

\* The request is answered as the row stands.
LEMMA AnswerKeeps ==
    ASSUME Inv1, NEW p \in Procs, Answer(p)
    PROVE  Inv1'
<1>1. Goto(p, "idle", NoRow, "none") /\ UNCHANGED <<rowVars, deleted, world, faults>>
  BY DEF Answer
<1>2. WorldOK' /\ UNCHANGED <<row, aged, usage, exec, jobs>>
  BY <1>1, WorldStays DEF rowVars
<1> QED BY <1>1, <1>2, Bounds, ResetKeeps DEF Resets, Kind

\* The computer row is soft-deleted.
LEMMA SoftDeleteKeeps ==
    ASSUME Inv1, NEW p \in Procs, softDeleteComputer(p)
    PROVE  Inv1'
<1>1. /\ Goto(p, "idle", NoRow, "none") /\ UNCHANGED <<rowVars, world, faults>>
      /\ deleted' = TRUE
  BY DEF softDeleteComputer
<1>2. WorldOK' /\ UNCHANGED <<row, aged, usage, exec, jobs>>
  BY <1>1 DEF rowVars, world, Inv1, TypeOK, WorldOK
<1> QED BY <1>1, <1>2, Bounds, ResetKeeps DEF Resets, Kind

\* A tunnel of a well-formed epoch.
LEMMA CreateIsTunnel ==
    ASSUME Inv1, NEW e \in 0..MaxEpoch
    PROVE  createTunnel(e) \in [rec: 0..MaxEpoch, fence: 0..MaxEpoch]
BY DEF Inv1, TypeOK, createTunnel

\* The Worker answers an enrollment.
LEMMA TunnelAnswerKeeps ==
    ASSUME Inv1, NEW p \in Procs, TunnelAnswer(p) \/ tunnelOutcomeUnknown(p)
    PROVE  Inv1'
<1> DEFINE s == proc[p].snap
<1>1. s.epoch \in 0..MaxEpoch /\ RowOK(s) /\ proc[p].kind \in Kind
  BY ProcIs DEF Row
<1>2. /\ UNCHANGED <<rowVars, deleted, inst, vol>>
      /\ tunnel' \in {tunnel, createTunnel(s.epoch)}
      /\ faults' = faults \/ Fault
      /\ \/ \E kind \in {proc[p].kind, "pending", "refused"} :
              Goto(p, "finish", s, kind) \/ Goto(p, "idle", s, kind)
         \/ Goto(p, "idle", NoRow, "none")
  BY DEF TunnelAnswer, tunnelOutcomeUnknown
<1>3. WorldOK' /\ UNCHANGED <<row, aged, usage, exec, jobs>>
  <2>1. faults' \in 0..MaxFaults
    BY <1>2, FaultCounts DEF Inv1, TypeOK
  <2>2. tunnel' \in [rec: 0..MaxEpoch, fence: 0..MaxEpoch]
    BY <1>1, <1>2, CreateIsTunnel DEF Inv1, TypeOK
  <2> QED BY <1>2, <2>1, <2>2 DEF rowVars, Inv1, TypeOK, WorldOK
<1>4. ASSUME NEW kind \in {proc[p].kind, "pending", "refused"}
      PROVE  kind \in Kind /\ SnapOK("finish", s, kind, proc[p].undo, exec)
  BY <1>1 DEF Kind, SnapOK
<1>5. ASSUME NEW kind \in {proc[p].kind, "pending", "refused"}, Goto(p, "finish", s, kind)
      PROVE  Inv1'
  BY <1>1, <1>3, <1>4, <1>5, MoveKeeps DEF Pc
<1>6. ASSUME NEW kind \in {proc[p].kind, "pending", "refused"}, Goto(p, "idle", s, kind)
      PROVE  Inv1'
  BY <1>1, <1>3, <1>4, <1>6, ResetKeeps DEF Resets
<1>7. ASSUME Goto(p, "idle", NoRow, "none")
      PROVE  Inv1'
  BY <1>3, <1>7, Bounds, ResetKeeps DEF Resets, Kind
<1> QED BY <1>2, <1>5, <1>6, <1>7

-----------------------------------------------------------------------------
(* The edges of the tables.                                                *)

\* The tables, state by state.
LEMMA TransitionsAre ==
    /\ PLACEMENT_TRANSITIONS["PROVISIONING"] = {"RUNNING", "STOPPED", "UNCONFIRMED"}
    /\ PLACEMENT_TRANSITIONS["STOPPED"] = {"RETIRING"}
    /\ PLACEMENT_TRANSITIONS["LEASED"] = {"STARTING", "STOPPED", "UNCONFIRMED"}
    /\ PLACEMENT_TRANSITIONS["STARTING"] = {"MOUNTING", "UNCONFIRMED"}
    /\ PLACEMENT_TRANSITIONS["MOUNTING"] = {"RUNNING", "UNCONFIRMED"}
    /\ PLACEMENT_TRANSITIONS["RUNNING"] = {"DRAINING", "RETIRING", "UNCONFIRMED"}
    /\ PLACEMENT_TRANSITIONS["DRAINING"] = {"STOPPING", "UNCONFIRMED"}
    /\ PLACEMENT_TRANSITIONS["STOPPING"] = {"STOPPED", "UNCONFIRMED"}
    /\ PLACEMENT_TRANSITIONS["UNCONFIRMED"] = {"RECOVERING"}
    /\ PLACEMENT_TRANSITIONS["RECOVERING"] = {"STOPPED", "RETIRING", "UNCONFIRMED"}
    /\ PLACEMENT_TRANSITIONS["RETIRING"] = {"RETIRED", "STOPPED", "RUNNING", "UNCONFIRMED"}
    /\ PLACEMENT_TRANSITIONS["RETIRED"] = {"PURGE_ELIGIBLE"}
    /\ PLACEMENT_TRANSITIONS["PURGE_ELIGIBLE"] = {}
BY DEF PLACEMENT_TRANSITIONS

\* The edges of the reconciler alone.
LEMMA ReconcilersAre ==
    /\ RECONCILER_TRANSITIONS["RUNNING"] = {"STOPPED"}
    /\ RECONCILER_TRANSITIONS["UNCONFIRMED"] = {"RETIRED"}
    /\ RECONCILER_TRANSITIONS["RECOVERING"] = {"RETIRED"}
BY DEF RECONCILER_TRANSITIONS, PlacementState

\* The undo state a marked start carries, or UNCONFIRMED.
LEMMA UndoIs ==
    ASSUME NEW s \in Row, s.err \in StartUnknown
    PROVE  /\ lifecycleStartUnknownUndo(s) \in {"STOPPED", "RUNNING", "UNCONFIRMED"}
           /\ \/ lifecycleStartUnknownUndo(s) \in PLACEMENT_TRANSITIONS[s.state]
              \/ lifecycleStartUnknownUndo(s) = "UNCONFIRMED"
<1>1. RecordedUndo[s.err] \in {"STOPPED", "RUNNING", "UNCONFIRMED"}
  BY DEF StartUnknown, RecordedUndo
<1> QED BY <1>1 DEF lifecycleStartUnknownUndo

\* The marks of an unanswered start are errors a row may hold.
LEMMA MarksAreErrors == StartUnknown \subseteq LastError
BY DEF LastError

\* A step of the row along an edge of the tables, or none.
EdgeTaken(a, b) ==
    \/ b.state = a.state
    \/ b.state \in PLACEMENT_TRANSITIONS[a.state]
    \/ b.state \in RECONCILER_TRANSITIONS[a.state]

\* What EdgesAreLegal asks of one step.
EdgeOK ==
    row'.state # row.state =>
        \/ row.state = "NONE" /\ row'.state = "PROVISIONING"
        \/ row'.state \in PLACEMENT_TRANSITIONS[row.state]
        \/ row'.state \in RECONCILER_TRANSITIONS[row.state]
        \/ /\ row.state \in {"STOPPED", "UNCONFIRMED"}
           /\ row'.state = "LEASED" /\ row'.epoch > row.epoch
        \/ /\ row'.state = "STOPPED"
           /\ \E p \in Procs : proc[p].pc = "gencas" /\ proc'[p].pc # "gencas"

\* A swap that writes r, if it wins, takes an edge.
LEMMA SwapTakesEdge ==
    ASSUME NEW wins, NEW r, NEW effect, casInTx(wins, r, effect),
           wins => EdgeTaken(row, r)
    PROVE  EdgeOK
BY DEF casInTx, Write, EdgeTaken, EdgeOK

\* A swap whose winner and loser go on as they like.
LEMMA SwapKeeps ==
    ASSUME Inv1, NEW p \in Procs, NEW wins, NEW r, NEW effect,
           casInTx(wins, r, effect), WorldOK', wins => RowOK(r),
           effect = "open" => (wins => r.inst \in Epochs),
           NEW pc \in Pc, NEW s, RowOK(s), NEW kind \in Kind, Goto(p, pc, s, kind),
           pc \in Resets \/ SnapOK(pc, s, kind, proc[p].undo, exec)
    PROVE  Inv1'
<1>1. /\ RowOK(row) /\ aged \in BOOLEAN /\ usage \subseteq Epochs
      /\ exec \in [Jobs -> Exec \cup {NoExec}] /\ jobs \in 0..MaxJob /\ ExecsOK
  BY DEF Inv1, TypeOK
<1>2. /\ exec' = exec /\ jobs' = jobs
      /\ wins => Write(r, effect)
      /\ ~wins => row' = row /\ aged' = aged /\ usage' = usage
  BY DEF casInTx
<1>3. RowOK(row') /\ aged' \in BOOLEAN /\ usage' \subseteq Epochs
  BY <1>1, <1>2 DEF Write, applyTransitionUsageInTx
<1>4. JobsGrow(exec, exec')
  BY <1>2, SameJobsGrow
<1>5. pc \in Resets \/ SnapOK(pc, s, kind, proc[p].undo, exec')
  BY <1>2
<1>6. proc' \in [Procs -> Proc] /\ ProcsOK'
  BY <1>4, <1>5, GotoKeeps
<1>7. TypeOK'
  BY <1>1, <1>2, <1>3, <1>6 DEF TypeOK, WorldOK, RowOK
<1> QED BY <1>1, <1>2, <1>3, <1>6, <1>7 DEF Inv1, ExecsOK

\* A row whose state, job, nonce and error are rewritten stays well formed.
LEMMA RowRewritten ==
    ASSUME NEW r, RowOK(r), r.state # "NONE", NEW state \in PlacementState,
           state = "MOUNTING" => r.inst >= 1,
           NEW job \in 0..MaxJob, NEW nonce \in {"none", "live", "used"},
           NEW err \in LastError
    PROVE  RowOK([r EXCEPT !.state = state, !.job = job, !.nonce = nonce, !.err = err])
<1> DEFINE new == [r EXCEPT !.state = state, !.job = job, !.nonce = nonce, !.err = err]
<1>1. /\ new \in Row /\ new.state = state /\ new.epoch = r.epoch /\ new.gen = r.gen
      /\ new.fence = r.fence /\ new.inst = r.inst
  BY DEF RowOK, Row
<1> HIDE DEF new
<1>2. RowOK(new)
  BY <1>1 DEF RowOK
<1> QED BY <1>2 DEF new

-----------------------------------------------------------------------------
(* The receipts.                                                           *)

\* A settled boot: RUNNING once enrolled, failed past its deadline.
LEMMA ReceiptMountedKeeps ==
    ASSUME Inv1, NEW p \in Procs, ReceiptMounted(p)
    PROVE  Inv1' /\ EdgeOK
<1> DEFINE s == proc[p].snap
           failed == [row EXCEPT !.state = "UNCONFIRMED", !.nonce = "none",
                                 !.err = "enroll_tunnel_failed"]
<1>1. /\ UNCHANGED <<deleted, world, faults>> /\ s.state = "MOUNTING"
  BY DEF ReceiptMounted, Settled
<1>2. /\ RowOK(row) /\ row \in Row /\ RowOK(s) /\ proc[p].kind \in Kind
  BY ProcIs DEF Inv1, TypeOK
<1>3. CASE step(p, CasReconciler(s), [row EXCEPT !.state = "RUNNING"], "none",
                "reread", "reread")
  <2> DEFINE r == [row EXCEPT !.state = "RUNNING"]
  <2>1. CasReconciler(s) => RowOK(r) /\ EdgeTaken(row, r)
    BY <1>1, <1>2, TransitionsAre DEF CasReconciler, CasUser, RowOK, Row, PlacementState,
       EdgeTaken
  <2> HIDE DEF r
  <2>2. casInTx(CasReconciler(s), r, "none")
    BY <1>3 DEF step, r
  <2>3. WorldOK'
    BY <1>1, <2>2, WorldStays DEF casInTx
  <2>4. EdgeOK
    BY <2>1, <2>2, SwapTakesEdge
  <2>5. Inv1'
    BY <1>3, <2>1, <2>3, StepKeeps DEF Resets, Pc, r
  <2> QED BY <2>4, <2>5
<1>4. CASE /\ casInTx(CasExact(s), failed, "none")
           /\ Goto(p, IF CasExact(s) THEN "recover" ELSE "reread", row', "hostretire")
  <2>1. CasExact(s) => /\ RowOK(failed) /\ EdgeTaken(row, failed) /\ failed.inst # 0
                       /\ failed.state = "UNCONFIRMED"
    <3>1. ASSUME row = s
          PROVE  /\ RowOK(failed) /\ failed.inst = row.inst /\ failed.state = "UNCONFIRMED"
                 /\ row.state = "MOUNTING"
      BY <1>1, <1>2, <3>1 DEF RowOK, Row, PlacementState, LastError
    <3>2. row = s => row.inst >= 1
      BY <1>1, <1>2 DEF RowOK, Row
    <3>3. row = s => failed.inst # 0
      BY <1>2, <3>1, <3>2, Bounds DEF Row
    <3> QED BY <3>1, <3>3, TransitionsAre DEF CasExact, EdgeTaken
  <2> HIDE DEF failed
  <2>2. WorldOK'
    BY <1>1, <1>4, WorldStays DEF casInTx
  <2>3. EdgeOK
    BY <1>4, <2>1, SwapTakesEdge
  <2>4. CASE CasExact(s)
    <3>1. Goto(p, "recover", failed, "hostretire")
      BY <1>4, <2>4 DEF casInTx, Write
    <3>2. SnapOK("recover", failed, "hostretire", proc[p].undo, exec)
      BY <2>1, <2>4 DEF SnapOK
    <3>3. "recover" \in Pc /\ "hostretire" \in Kind /\ "none" # "open"
      BY DEF Pc, Kind
    <3> QED BY <1>4, <2>1, <2>2, <2>3, <2>4, <3>1, <3>2, <3>3, SwapKeeps
  <2>5. CASE ~CasExact(s)
    <3>1. /\ Goto(p, "reread", row, "hostretire")
          /\ UNCHANGED <<row, aged, usage, exec, jobs>>
      BY <1>4, <2>5 DEF casInTx
    <3> QED BY <1>2, <2>2, <2>3, <3>1, ResetKeeps DEF Resets, Kind
  <2> QED BY <2>4, <2>5
<1>5. CASE Goto(p, "reread", NoRow, "none") /\ UNCHANGED rowVars
  <2>1. WorldOK' /\ UNCHANGED <<row, aged, usage, exec, jobs>>
    BY <1>1, <1>5, WorldStays DEF rowVars
  <2>2. Inv1'
    BY <1>5, <2>1, Bounds, ResetKeeps DEF Resets, Kind
  <2> QED BY <2>1, <2>2 DEF EdgeOK
<1> QED BY <1>3, <1>4, <1>5 DEF ReceiptMounted

\* The row a settled start leaves behind.
LEMMA SettledRow ==
    ASSUME NEW s \in Row, s.err \in StartUnknown, RowOK(row), row.state = s.state,
           s.state # "NONE",
           "UNCONFIRMED" \in PLACEMENT_TRANSITIONS[s.state] \/ s.state = "UNCONFIRMED"
    PROVE  RowOK(settledUndo(s)) /\ EdgeTaken(row, settledUndo(s))
<1> DEFINE undo == lifecycleStartUnknownUndo(s)
           job == IF undo = "UNCONFIRMED" /\ s.state \in {"LEASED", "STARTING", "MOUNTING"}
                  THEN row.job ELSE 0
           err == IF isEnrollmentHostRetire(s) THEN "enroll_tunnel_failed"
                  ELSE "lifecycle_start_failed"
<1>1. undo \in {"STOPPED", "RUNNING", "UNCONFIRMED"}
      /\ (undo \in PLACEMENT_TRANSITIONS[s.state] \/ undo = "UNCONFIRMED")
  BY UndoIs
<1>2. settledUndo(s) = [row EXCEPT !.state = undo, !.job = job, !.nonce = "none", !.err = err]
  BY DEF settledUndo, RowOK, Row
<1>3. /\ undo \in PlacementState /\ undo # "MOUNTING" /\ job \in 0..MaxJob
      /\ err \in LastError
  BY <1>1, BoundsAssumption DEF RowOK, Row, PlacementState, LastError
<1>4. EdgeTaken(row, [row EXCEPT !.state = undo, !.job = job, !.nonce = "none", !.err = err])
  BY <1>1 DEF EdgeTaken, RowOK, Row
<1>5. row.state # "NONE" /\ "none" \in {"none", "live", "used"}
  OBVIOUS
<1> HIDE DEF undo, job, err
<1>6. RowOK([row EXCEPT !.state = undo, !.job = job, !.nonce = "none", !.err = err])
  BY <1>3, <1>5, RowRewritten
<1> QED BY <1>2, <1>4, <1>6

\* The states a receipt awaits can be failed.
LEMMA WaitingCanFail ==
    \A state \in Waiting :
        /\ state \in PlacementState
        /\ "UNCONFIRMED" \in PLACEMENT_TRANSITIONS[state] \/ state = "UNCONFIRMED"
BY TransitionsAre DEF Waiting, IN_FLIGHT_STATES, PlacementState

\* What a receipt found of its job.
LEMMA DescribedIs ==
    ASSUME Inv1, NEW p \in Procs, NEW st, Described(p, st)
    PROVE  /\ proc[p].snap.job \in Jobs /\ proc[p].snap.job # 0
           /\ proc[p].snap.state \in Waiting /\ proc[p].snap.state # "NONE"
           /\ proc[p].pc = "receipt" /\ proc[p].undo = "NONE"
           /\ exec[proc[p].snap.job].st \in st
           /\ proc[p].snap \in Row /\ RowOK(proc[p].snap) /\ proc[p].kind \in Kind
           /\ exec[proc[p].snap.job] \in Exec \cup {NoExec}
           /\ ExecOK(exec[proc[p].snap.job])
<1>1. /\ proc[p].snap.job # 0 /\ proc[p].snap.state \in Waiting
      /\ proc[p].pc = "receipt" /\ exec[proc[p].snap.job].st \in st
  BY DEF Described
<1>2. /\ proc[p].snap \in Row /\ RowOK(proc[p].snap) /\ proc[p].kind \in Kind
      /\ proc[p].undo = "NONE"
  BY <1>1, ProcIs DEF SnapOK
<1>3. proc[p].snap.job \in Jobs
  BY <1>1, <1>2, Bounds DEF Row, Jobs
<1> QED BY <1>1, <1>2, <1>3 DEF Inv1, TypeOK, ExecsOK, Waiting, IN_FLIGHT_STATES

\* A marked start that never reached Step Functions is settled.
LEMMA SettleUnknownKeeps ==
    ASSUME Inv1, NEW p \in Procs, settleUnknownStart(p)
    PROVE  Inv1' /\ EdgeOK
<1> DEFINE s == proc[p].snap
<1>1. /\ s \in Row /\ RowOK(s) /\ s.job # 0 /\ s.state \in Waiting /\ s.state # "NONE"
      /\ s.err \in StartUnknown /\ UNCHANGED <<deleted, world, faults>>
      /\ proc[p].kind \in Kind /\ RowOK(row)
  BY DescribedIs DEF settleUnknownStart, Inv1
<1>2. CASE s.state \in Stopping \cup {"RETIRING"}
  <2>1. Goto(p, "start", s, "settle") /\ UNCHANGED rowVars
    BY <1>2 DEF settleUnknownStart
  <2>2. SnapOK("start", s, "settle", proc[p].undo, exec)
    BY <1>1, <1>2 DEF SnapOK, StartOK
  <2>3. WorldOK' /\ UNCHANGED <<row, aged, usage, exec, jobs>>
    BY <1>1, <2>1, WorldStays DEF rowVars
  <2>4. Inv1'
    BY <1>1, <2>1, <2>2, <2>3, MoveKeeps DEF Pc, Kind
  <2> QED BY <2>3, <2>4 DEF EdgeOK
<1>3. CASE s.state \notin Stopping \cup {"RETIRING"}
  <2>1. step(p, CasReconciler(s), settledUndo(s), "none", "reread", "reread")
    BY <1>3 DEF settleUnknownStart
  <2>2. CasReconciler(s) => RowOK(settledUndo(s)) /\ EdgeTaken(row, settledUndo(s))
    <3>1. CasReconciler(s) => row.state = s.state
      BY DEF CasReconciler, CasUser
    <3> QED BY <1>1, <3>1, WaitingCanFail, SettledRow
  <2>3. casInTx(CasReconciler(s), settledUndo(s), "none")
    BY <2>1 DEF step
  <2>4. WorldOK'
    BY <1>1, <2>3, WorldStays DEF casInTx
  <2>5. EdgeOK
    BY <2>2, <2>3, SwapTakesEdge
  <2>6. Inv1'
    BY <2>1, <2>2, <2>4, StepKeeps DEF Resets, Pc
  <2> QED BY <2>5, <2>6
<1> QED BY <1>2, <1>3

\* A replacement that did not happen gives its generation back.
LEMMA GenerationKeeps ==
    ASSUME Inv1, NEW p \in Procs, reconcileReplacementGeneration(p)
    PROVE  Inv1' /\ EdgeOK
<1> DEFINE s == proc[p].snap
           x == exec[s.job]
           sourcePair == vol.fence = x.prevFence
           r == [row EXCEPT
                  !.state = "STOPPED", !.job = 0, !.nonce = "none",
                  !.gen = IF sourcePair THEN x.prevGen ELSE x.gen,
                  !.fence = IF sourcePair THEN x.prevFence ELSE x.fence,
                  !.inst = IF sourcePair THEN x.src ELSE x.epoch,
                  !.err = IF sourcePair /\ proc[p].kind = "kept"
                          THEN "lifecycle_start_failed" ELSE "instance_lost"]
           pc == IF proc[p].undo = "NONE" THEN "reread" ELSE "idle"
           lose == IF proc[p].undo = "NONE" THEN "reread" ELSE "undo"
<1>1. /\ proc[p].pc = "gencas" /\ step(p, CasExact(s), r, "close", pc, lose)
      /\ UNCHANGED <<deleted, world, faults>>
  BY DEF reconcileReplacementGeneration
<1>2. /\ s \in Row /\ s.job # 0 /\ s.state # "NONE" /\ x.op = "replace" /\ x.epoch = s.epoch
      /\ proc[p].undo # "NONE" => BootUndo(s, proc[p].undo)
  BY <1>1, ProcIs DEF SnapOK
<1>3. /\ x.gen \in 1..s.epoch /\ x.fence \in 1..s.epoch
      /\ x.prevGen \in 1..s.epoch /\ x.prevFence \in 1..s.epoch
      /\ x.src \in 0..MaxEpoch /\ s.epoch \in 0..MaxEpoch
  <2>1. s.job \in Jobs
    BY <1>2, Bounds DEF Row, Jobs
  <2>2. ExecOK(x) /\ x # NoExec
    BY <1>2, <2>1 DEF Inv1, ExecsOK, NoExec
  <2> QED BY <1>2, <2>2 DEF ExecOK, Exec, Row
<1>4. CasExact(s) => RowOK(r)
  <2>1. ASSUME row = s
        PROVE  /\ r \in Row /\ r.state = "STOPPED" /\ r.epoch = s.epoch
               /\ r.gen \in 1..s.epoch /\ r.fence \in 1..s.epoch
    <3> DEFINE gen == IF sourcePair THEN x.prevGen ELSE x.gen
               fence == IF sourcePair THEN x.prevFence ELSE x.fence
               i == IF sourcePair THEN x.src ELSE x.epoch
               err == IF sourcePair /\ proc[p].kind = "kept"
                      THEN "lifecycle_start_failed" ELSE "instance_lost"
    <3>1. /\ gen \in 1..s.epoch /\ fence \in 1..s.epoch /\ i \in 0..MaxEpoch
          /\ err \in LastError /\ "STOPPED" \in PlacementState /\ 0 \in 0..MaxJob
      BY <1>2, <1>3, Bounds DEF LastError, PlacementState
    <3>2. gen \in 0..MaxEpoch /\ fence \in 0..MaxEpoch
      BY <1>3, <3>1, Bounds
    <3>3. r = [row EXCEPT !.state = "STOPPED", !.job = 0, !.nonce = "none", !.gen = gen,
                          !.fence = fence, !.inst = i, !.err = err]
      OBVIOUS
    <3> HIDE DEF gen, fence, i, err, r
    <3> QED BY <1>2, <2>1, <3>1, <3>2, <3>3 DEF Row
  <2> HIDE DEF r
  <2> QED BY <1>3, <2>1, Bounds DEF CasExact, RowOK
<1> HIDE DEF r
<1>5. WorldOK'
  BY <1>1, WorldStays DEF step, casInTx
<1>6. pc \in Resets /\ pc \in Pc /\ lose \in Pc
      /\ (lose \in Resets \/ SnapOK(lose, s, proc[p].kind, proc[p].undo, exec))
  BY <1>2 DEF Resets, Pc, SnapOK
<1>7. Inv1'
  BY <1>1, <1>4, <1>5, <1>6, StepKeeps
<1>8. EdgeOK
  <2>1. CASE CasExact(s)
    <3>1. row' = r /\ Goto(p, pc, r, proc[p].kind)
      BY <1>1, <2>1 DEF step, casInTx, Write
    <3>2. RowOK(r) /\ proc[p].kind \in Kind /\ proc \in [Procs -> Proc]
      BY <1>4, <2>1, ProcIs DEF Inv1, TypeOK
    <3>3. proc'[p].pc # "gencas"
      BY <1>6, <3>1, <3>2, GotoIs DEF RowOK, Resets
    <3>4. row'.state = "STOPPED"
      BY <2>1, <3>1, <1>2 DEF r, CasExact, Row
    <3> QED BY <1>1, <3>3, <3>4 DEF EdgeOK
  <2>2. CASE ~CasExact(s)
    BY <1>1, <2>2 DEF step, casInTx, EdgeOK
  <2> QED BY <2>1, <2>2
<1> QED BY <1>7, <1>8

\* A failed job leaves its row UNCONFIRMED.
LEMMA ReceiptFailedKeeps ==
    ASSUME Inv1, NEW p \in Procs, ReceiptFailed(p)
    PROVE  Inv1' /\ EdgeOK
<1> DEFINE s == proc[p].snap
           err == IF isEnrollmentHostRetire(s) THEN "enroll_tunnel_failed" ELSE "failed"
           job == IF isEnrollmentHostRetire(s) THEN 0 ELSE row.job
           r == [row EXCEPT !.state = "UNCONFIRMED", !.job = job, !.nonce = "none", !.err = err]
<1>1. /\ s.state \in Waiting /\ s.state # "NONE" /\ RowOK(row) /\ row \in Row
  BY DescribedIs DEF ReceiptFailed, Inv1, TypeOK
<1>2. UNCHANGED <<deleted, world>> /\ (faults' = faults \/ Fault)
  BY DEF ReceiptFailed
<1>3. CASE s.state = "UNCONFIRMED"
  <2>1. Goto(p, "reread", NoRow, "none") /\ UNCHANGED rowVars
    BY <1>3 DEF ReceiptFailed
  <2>2. WorldOK' /\ UNCHANGED <<row, aged, usage, exec, jobs>>
    BY <1>2, <2>1, WorldStays DEF rowVars
  <2>3. Inv1'
    BY <2>1, <2>2, Bounds, ResetKeeps DEF Resets, Kind
  <2> QED BY <2>2, <2>3 DEF EdgeOK
<1>4. CASE s.state # "UNCONFIRMED"
  <2>1. step(p, CasReconciler(s), r, "none", "reread", "reread")
    <3>1. r = [row EXCEPT !.state = "UNCONFIRMED", !.nonce = "none", !.err = err, !.job = job]
      BY <1>1 DEF Row
    <3> QED BY <1>4, <3>1 DEF ReceiptFailed
  <2>2. CasReconciler(s) => RowOK(r) /\ EdgeTaken(row, r)
    <3>1. CasReconciler(s) => row.state = s.state
      BY DEF CasReconciler, CasUser
    <3>2. err \in LastError /\ job \in 0..MaxJob /\ "UNCONFIRMED" \in PlacementState
      BY <1>1, Bounds, BoundsAssumption DEF Row, LastError, PlacementState
    <3>3. CasReconciler(s) => EdgeTaken(row, r)
      BY <1>1, <1>4, <3>1, WaitingCanFail DEF EdgeTaken, Row
    <3> HIDE DEF err, job
    <3>4. CasReconciler(s) => RowOK(r)
      BY <1>1, <3>1, <3>2, RowRewritten
    <3> QED BY <3>3, <3>4
  <2> HIDE DEF r
  <2>3. casInTx(CasReconciler(s), r, "none")
    BY <2>1 DEF step
  <2>4. WorldOK'
    BY <1>2, <2>3, WorldStays DEF casInTx
  <2>5. EdgeOK
    BY <2>2, <2>3, SwapTakesEdge
  <2>6. Inv1'
    BY <2>1, <2>2, <2>4, StepKeeps DEF Resets, Pc
  <2> QED BY <2>5, <2>6
<1> QED BY <1>3, <1>4

\* A step that writes r with no use opened, if the row it read still stands.
LEMMA StepAlongEdge ==
    ASSUME Inv1, NEW p \in Procs, NEW wins, NEW r, NEW effect \in {"none", "close"},
           NEW pc \in Pc, NEW lose \in Pc, step(p, wins, r, effect, pc, lose),
           UNCHANGED <<deleted, world>>, faults' = faults \/ Fault,
           wins => RowOK(r) /\ EdgeTaken(row, r),
           wins => pc \in Resets \/ SnapOK(pc, r, proc[p].kind, proc[p].undo, exec),
           lose \in Resets \/ SnapOK(lose, proc[p].snap, proc[p].kind, proc[p].undo, exec)
    PROVE  Inv1' /\ EdgeOK
<1>1. casInTx(wins, r, effect)
  BY DEF step
<1>2. WorldOK'
  BY <1>1, WorldStays DEF casInTx
<1>3. EdgeOK
  BY <1>1, SwapTakesEdge
<1>4. Inv1'
  BY <1>2, StepKeeps
<1> QED BY <1>3, <1>4

\* A finished stop moves on.
LEMMA ReceiptDrainingKeeps ==
    ASSUME Inv1, NEW p \in Procs, ReceiptDraining(p)
    PROVE  Inv1' /\ EdgeOK
<1> DEFINE s == proc[p].snap
           r == [row EXCEPT !.state = "STOPPING"]
<1>1. /\ s.state = "DRAINING" /\ UNCHANGED <<deleted, world, faults>>
      /\ step(p, CasReconciler(s), r, "none", "receipt", "reread")
      /\ proc[p].undo = "NONE" /\ RowOK(row)
  BY DescribedIs DEF ReceiptDraining, Inv1
<1>2. CasReconciler(s) => RowOK(r) /\ EdgeTaken(row, r)
  BY <1>1, TransitionsAre DEF CasReconciler, CasUser, RowOK, Row, PlacementState, EdgeTaken
<1> HIDE DEF r
<1>3. SnapOK("receipt", r, proc[p].kind, proc[p].undo, exec)
  BY <1>1 DEF SnapOK
<1> QED BY <1>1, <1>2, <1>3, StepAlongEdge DEF Resets, Pc

\* The final swap of a stop or a retire.
LEMMA ReceiptFinalKeeps ==
    ASSUME Inv1, NEW p \in Procs, ReceiptFinal(p)
    PROVE  Inv1' /\ EdgeOK
<1> DEFINE s == proc[p].snap
           x == exec[s.job]
<1>1. /\ UNCHANGED <<deleted, world, faults>>
      /\ step(p, CasReconciler(s), FinalRow(s), "close", "reread", "reread")
      /\ s.job # 0 /\ s.state \in {"STOPPING", "RETIRING"} /\ s \in Row
      /\ x.st \in {"succeeded", "lost"} /\ RowOK(row) /\ row \in Row
  BY ProcIs DEF ReceiptFinal, SnapOK, Inv1, TypeOK
<1>2. x.src \in 0..MaxEpoch
  <2>1. s.job \in Jobs
    BY <1>1, Bounds DEF Row, Jobs
  <2>2. x \in Exec
    BY <1>1, <2>1 DEF Inv1, TypeOK, NoExec
  <2> QED BY <2>2 DEF Exec
<1>3. ASSUME row.state = s.state
      PROVE  RowOK(FinalRow(s)) /\ EdgeTaken(row, FinalRow(s))
  <2> DEFINE state == IF s.state = "RETIRING" /\ ~isEnrollmentHostRetire(s) THEN "RETIRED"
                      ELSE "STOPPED"
             err == IF isEnrollmentHostRetire(s) \/ (s.state = "STOPPING" /\ x.st = "lost")
                    THEN "instance_lost" ELSE "none"
             new == [row EXCEPT !.state = state, !.job = 0, !.inst = x.src, !.vol = TRUE,
                                !.err = err]
  <2>1. /\ state \in PlacementState /\ err \in LastError /\ 0 \in 0..MaxJob
        /\ state # "MOUNTING" /\ state # "NONE" /\ row.state # "NONE"
        /\ state \in PLACEMENT_TRANSITIONS[row.state]
    BY <1>1, <1>3, TransitionsAre, BoundsAssumption DEF PlacementState, LastError
  <2>2. FinalRow(s) = new
    BY DEF FinalRow
  <2> HIDE DEF state, err
  <2>3. /\ new \in Row /\ new.state = state /\ new.epoch = row.epoch /\ new.gen = row.gen
        /\ new.fence = row.fence
    BY <1>1, <1>2, <2>1 DEF Row
  <2> HIDE DEF new
  <2>4. RowOK(new)
    BY <1>1, <2>1, <2>3 DEF RowOK
  <2> QED BY <2>1, <2>2, <2>3, <2>4 DEF EdgeTaken
<1>4. CasReconciler(s) => RowOK(FinalRow(s)) /\ EdgeTaken(row, FinalRow(s))
  BY <1>3 DEF CasReconciler, CasUser
<1> QED BY <1>1, <1>4, StepAlongEdge DEF Resets, Pc

\* A finished boot.
LEMMA ReceiptBootedKeeps ==
    ASSUME Inv1, NEW p \in Procs, ReceiptBooted(p)
    PROVE  Inv1' /\ EdgeOK
<1> DEFINE s == proc[p].snap
           x == exec[s.job]
           i == ResultInstance(x)
           done == [row EXCEPT !.job = 0, !.vol = TRUE, !.inst = i]
<1>1. /\ UNCHANGED <<deleted, world, faults>> /\ proc[p].undo = "NONE"
      /\ RowOK(row) /\ row \in Row /\ x \in Exec /\ ExecOK(x)
  BY DescribedIs DEF ReceiptBooted, Inv1, TypeOK, NoExec
<1>2. i \in Epochs /\ i \in 0..MaxEpoch /\ i >= 1
  BY <1>1, Bounds DEF ExecOK, Exec, ResultInstance, NoExec, Epochs, Operation
<1> HIDE DEF i
<1>3. CASE /\ s.state = "LEASED"
           /\ step(p, CasReconciler(s), [row EXCEPT !.state = "STARTING"], "none",
                   "receipt", "reread")
  <2> DEFINE r == [row EXCEPT !.state = "STARTING"]
  <2>1. CasReconciler(s) => RowOK(r) /\ EdgeTaken(row, r)
    BY <1>1, <1>3, TransitionsAre DEF CasReconciler, CasUser, RowOK, Row, PlacementState,
       EdgeTaken
  <2>2. step(p, CasReconciler(s), r, "none", "receipt", "reread")
    BY <1>3
  <2> HIDE DEF r
  <2>3. SnapOK("receipt", r, proc[p].kind, proc[p].undo, exec)
    BY <1>1 DEF SnapOK
  <2> QED BY <1>1, <2>1, <2>2, <2>3, StepAlongEdge DEF Resets, Pc
<1>4. ASSUME NEW state \in {"RUNNING", "MOUNTING"}, NEW pc \in {"receipt", "reread"},
             step(p, CasReconciler(s), [done EXCEPT !.state = state], "open", pc, "reread"),
             state \in PLACEMENT_TRANSITIONS[s.state], s.state \in PlacementState
      PROVE  Inv1' /\ EdgeOK
  <2> DEFINE r == [done EXCEPT !.state = state]
  <2>1. CasReconciler(s) => RowOK(r) /\ EdgeTaken(row, r)
    <3>1. /\ r \in Row /\ r.state = state /\ r.epoch = row.epoch /\ r.gen = row.gen
          /\ r.fence = row.fence /\ r.inst = i
      <4>1. done \in Row /\ done.epoch = row.epoch /\ done.gen = row.gen
            /\ done.fence = row.fence /\ done.inst = i
        <5>1. row \in Row /\ i \in 0..MaxEpoch /\ 0 \in 0..MaxJob
          BY <1>1, <1>2, BoundsAssumption
        <5> QED BY <5>1 DEF Row
      <4>2. state \in PlacementState
        BY DEF PlacementState
      <4> HIDE DEF done
      <4> QED BY <4>1, <4>2 DEF Row
    <3>2. CasReconciler(s) => row.state = s.state /\ row.state # "NONE"
      BY <1>4 DEF CasReconciler, CasUser, PlacementState
    <3> HIDE DEF r
    <3> QED BY <1>1, <1>2, <1>4, <3>1, <3>2 DEF RowOK, EdgeTaken
  <2>2. r.inst \in Epochs
    BY <1>1, <1>2 DEF Row
  <2>3. step(p, CasReconciler(s), r, "open", pc, "reread")
    BY <1>4
  <2> HIDE DEF r
  <2>4. SnapOK("receipt", r, proc[p].kind, proc[p].undo, exec)
    BY <1>1 DEF SnapOK
  <2>5. casInTx(CasReconciler(s), r, "open")
    BY <2>3 DEF step
  <2>6. WorldOK'
    BY <1>1, <2>5, WorldStays DEF casInTx
  <2>7. EdgeOK
    BY <2>1, <2>5, SwapTakesEdge
  <2>8. pc \in Pc /\ "reread" \in Pc /\ "reread" \in Resets
        /\ (pc \in Resets \/ SnapOK(pc, r, proc[p].kind, proc[p].undo, exec))
    BY <1>4, <2>4 DEF Pc, Resets
  <2>9. Inv1'
    BY <2>1, <2>2, <2>3, <2>6, <2>8, StepKeeps
  <2> QED BY <2>7, <2>9
<1>5. CASE /\ s.state = "PROVISIONING"
           /\ step(p, CasReconciler(s), [done EXCEPT !.state = "RUNNING"], "open",
                   "reread", "reread")
  BY <1>4, <1>5, TransitionsAre DEF PlacementState
<1>6. CASE /\ s.state = "STARTING"
           /\ step(p, CasReconciler(s), [done EXCEPT !.state = "MOUNTING"], "open",
                   IF enrolled(s) THEN "receipt" ELSE "reread", "reread")
  <2> DEFINE pc == IF enrolled(s) THEN "receipt" ELSE "reread"
  <2>1. /\ pc \in {"receipt", "reread"} /\ s.state \in PlacementState
        /\ "MOUNTING" \in PLACEMENT_TRANSITIONS[s.state]
    BY <1>6, TransitionsAre DEF PlacementState
  <2>2. step(p, CasReconciler(s), [done EXCEPT !.state = "MOUNTING"], "open", pc, "reread")
    BY <1>6
  <2> HIDE DEF pc
  <2> QED BY <1>4, <2>1, <2>2
<1> QED BY <1>3, <1>5, <1>6 DEF ReceiptBooted, i

-----------------------------------------------------------------------------
(* startLifecycleJob.                                                      *)

\* What an invocation at its start has read.
LEMMA AtStartIs ==
    ASSUME Inv1, NEW p \in Procs, AtStart(p)
    PROVE  /\ proc[p].snap \in Row /\ RowOK(proc[p].snap) /\ proc[p].snap.job # 0
           /\ StartOK(proc[p].snap, proc[p].kind, proc[p].undo)
           /\ AfterStart(p) \in Resets /\ proc[p].kind \in Kind
           /\ RowOK(row) /\ row \in Row
BY ProcIs DEF AtStart, SnapOK, AfterStart, Resets, Inv1, TypeOK

\* The job of a boot or a stop was started.
LEMMA StartedKeeps ==
    ASSUME Inv1, NEW p \in Procs, Started(p)
    PROVE  Inv1' /\ EdgeOK
<1> DEFINE s == proc[p].snap
           kind == proc[p].kind
           to == CASE kind = "boot" /\ s.state = "LEASED" -> "STARTING"
                   [] kind \in {"ustop", "rstop", "capstop"} -> "STOPPING"
                   [] OTHER -> "NONE"
           wins == IF kind \in {"boot", "ustop"} THEN CasUser(s) ELSE CasReconciler(s)
           r == [row EXCEPT !.state = to]
<1>1. /\ AtStart(p) /\ UNCHANGED <<deleted, world, faults>>
      /\ IF to = "NONE" THEN UNCHANGED rowVars ELSE casInTx(wins, r, "none")
      /\ Goto(p, AfterStart(p), s, "none")
  BY DEF Started
<1>2. /\ s \in Row /\ RowOK(s) /\ StartOK(s, kind, proc[p].undo) /\ RowOK(row) /\ row \in Row
      /\ AfterStart(p) \in Resets /\ AfterStart(p) \in Pc /\ "none" \in Kind
  BY <1>1, AtStartIs DEF Resets, Pc, Kind
<1>3. CASE to = "NONE"
  <2>1. UNCHANGED rowVars
    BY <1>1, <1>3
  <2>2. WorldOK' /\ UNCHANGED <<row, aged, usage, exec, jobs>>
    BY <1>1, <2>1, WorldStays DEF rowVars
  <2>3. Inv1'
    BY <1>1, <1>2, <2>2, ResetKeeps
  <2> QED BY <2>2, <2>3 DEF EdgeOK
<1>4. CASE to # "NONE"
  <2>1. wins => row.state = s.state
    BY DEF CasUser, CasReconciler
  <2>2. \/ to = "STARTING" /\ s.state = "LEASED"
        \/ to = "STOPPING" /\ s.state = "DRAINING"
    BY <1>2, <1>4 DEF StartOK, Stops, Retires
  <2> HIDE DEF to
  <2>3. wins => RowOK(r) /\ EdgeTaken(row, r)
    BY <1>2, <2>1, <2>2, TransitionsAre DEF RowOK, Row, PlacementState, EdgeTaken
  <2> HIDE DEF r, wins
  <2>4. casInTx(wins, r, "none")
    BY <1>1, <1>4
  <2>5. WorldOK'
    BY <1>1, <2>4, WorldStays DEF casInTx
  <2>6. EdgeOK
    BY <2>3, <2>4, SwapTakesEdge
  <2>7. Inv1'
    BY <1>1, <1>2, <2>3, <2>4, <2>5, SwapKeeps
  <2> QED BY <2>6, <2>7
<1> QED BY <1>3, <1>4

\* A start without an answer marks its row.
LEMMA MarkKeeps ==
    ASSUME Inv1, NEW p \in Procs, markLifecycleStartUnknown(p)
    PROVE  Inv1' /\ EdgeOK
<1> DEFINE s == proc[p].snap
           undo == IF proc[p].kind = "settle" THEN lifecycleStartUnknownUndo(s)
                   ELSE proc[p].undo
           mark == IF proc[p].kind \in {"hostretire", "fleetretire"}
                      \/ isEnrollmentHostRetire(s)
                   THEN "unknown:UNCONFIRMED:host_retire"
                   ELSE CASE undo = "STOPPED" -> "unknown:STOPPED"
                          [] undo = "RUNNING" -> "unknown:RUNNING"
                          [] OTHER -> "unknown:UNCONFIRMED"
           wins == /\ undo \in PLACEMENT_TRANSITIONS[s.state]
                   /\ CasUser(s) /\ row.err = s.err
           r == [row EXCEPT !.err = mark]
<1>1. /\ AtStart(p) /\ UNCHANGED <<deleted, world>> /\ Fault
      /\ casInTx(wins, r, "none") /\ Goto(p, AfterStart(p), s, "none")
  BY DEF markLifecycleStartUnknown
<1>2. /\ RowOK(s) /\ RowOK(row) /\ row \in Row
      /\ AfterStart(p) \in Resets /\ AfterStart(p) \in Pc /\ "none" \in Kind
  BY <1>1, AtStartIs DEF Resets, Pc, Kind
<1>3. mark \in LastError
  BY MarksAreErrors DEF StartUnknown, RecordedUndo
<1> HIDE DEF mark, wins
<1>4. RowOK(r) /\ EdgeTaken(row, r)
  BY <1>2, <1>3 DEF RowOK, Row, EdgeTaken
<1> HIDE DEF r
<1>5. WorldOK'
  BY <1>1, WorldStays DEF casInTx
<1>6. EdgeOK
  BY <1>1, <1>4, SwapTakesEdge
<1>7. Inv1'
  BY <1>1, <1>2, <1>4, <1>5, SwapKeeps
<1> QED BY <1>6, <1>7

\* The row a refused start, of anything but a boot, goes back to.
LEMMA UndoRowKeeps ==
    ASSUME NEW s \in Row, RowOK(row), row \in Row, row.state = s.state,
           NEW kind, kind # "boot", NEW undo, StartOK(s, kind, undo)
    PROVE  RowOK(UndoRow(s, kind, undo)) /\ EdgeTaken(row, UndoRow(s, kind, undo))
<1>1. CASE kind = "settle"
  <2>1. /\ s.err \in StartUnknown /\ s.state # "NONE"
        /\ "UNCONFIRMED" \in PLACEMENT_TRANSITIONS[s.state]
    BY <1>1, TransitionsAre DEF StartOK, Stops, Retires, Stopping
  <2>2. UndoRow(s, kind, undo) = settledUndo(s)
    BY <1>1 DEF UndoRow
  <2> QED BY <2>1, <2>2, SettledRow
<1>2. ASSUME NEW state \in {"UNCONFIRMED", "RUNNING", "STOPPED"}, NEW job \in 0..MaxJob,
             NEW nonce \in {"none", "live", "used"}, NEW err \in LastError,
             state \in PLACEMENT_TRANSITIONS[row.state], row.state # "NONE",
             UndoRow(s, kind, undo) =
                 [row EXCEPT !.state = state, !.job = job, !.nonce = nonce, !.err = err]
      PROVE  RowOK(UndoRow(s, kind, undo)) /\ EdgeTaken(row, UndoRow(s, kind, undo))
  <2>1. state \in PlacementState /\ state # "MOUNTING"
    BY DEF PlacementState
  <2>2. RowOK(UndoRow(s, kind, undo))
    <3>1. RowOK([row EXCEPT !.state = state, !.job = job, !.nonce = nonce, !.err = err])
      BY <1>2, <2>1, RowRewritten
    <3> QED BY <1>2, <3>1
  <2>3. UndoRow(s, kind, undo).state = state
    BY <1>2 DEF Row
  <2> QED BY <1>2, <2>2, <2>3 DEF EdgeTaken
<1>3. /\ row.job \in 0..MaxJob /\ 0 \in 0..MaxJob /\ row.nonce \in {"none", "live", "used"}
      /\ row.err \in LastError /\ {"failed", "enroll_tunnel_failed"} \subseteq LastError
  BY BoundsAssumption DEF Row, LastError
<1>4. CASE kind = "ustop"
  <2>1. /\ "UNCONFIRMED" \in PLACEMENT_TRANSITIONS[row.state] /\ row.state # "NONE"
    BY <1>4, TransitionsAre DEF StartOK, Stops, Retires
  <2>2. UndoRow(s, kind, undo) =
          [row EXCEPT !.state = "UNCONFIRMED", !.job = row.job, !.nonce = "none", !.err = row.err]
    BY <1>4 DEF UndoRow, Row
  <2> QED BY <1>2, <1>3, <2>1, <2>2
<1>5. CASE kind \in {"rstop", "capstop"}
  <2>1. /\ "UNCONFIRMED" \in PLACEMENT_TRANSITIONS[row.state] /\ row.state # "NONE"
    BY <1>5, TransitionsAre DEF StartOK, Stops, Retires
  <2>2. UndoRow(s, kind, undo) =
          [row EXCEPT !.state = "UNCONFIRMED", !.job = row.job, !.nonce = row.nonce,
                      !.err = "failed"]
    BY <1>5 DEF UndoRow, Row
  <2> QED BY <1>2, <1>3, <2>1, <2>2
<1>6. CASE kind = "uretire"
  <2>1. /\ undo \in {"RUNNING", "STOPPED"} /\ undo \in PLACEMENT_TRANSITIONS[row.state]
        /\ row.state # "NONE"
    BY <1>6, TransitionsAre DEF StartOK, Stops, Retires
  <2>2. UndoRow(s, kind, undo) =
          [row EXCEPT !.state = undo, !.job = row.job, !.nonce = "none", !.err = row.err]
    <3>1. UndoRow(s, kind, undo) = [row EXCEPT !.state = undo, !.nonce = "none"]
      BY <1>6 DEF UndoRow
    <3>2. undo \in {"UNCONFIRMED", "RUNNING", "STOPPED"}
      BY <2>1
    <3> QED BY <3>1, <3>2 DEF Row
  <2>3. undo \in {"UNCONFIRMED", "RUNNING", "STOPPED"}
    BY <2>1
  <2> QED BY <1>2, <1>3, <2>1, <2>2, <2>3
<1>7. CASE kind \in {"rretire", "uncretire"}
  <2>1. /\ undo \in {"UNCONFIRMED", "RUNNING", "STOPPED"}
        /\ undo \in PLACEMENT_TRANSITIONS[row.state] /\ row.state # "NONE"
    BY <1>7, TransitionsAre DEF StartOK, Stops, Retires
  <2>2. UndoRow(s, kind, undo) =
          [row EXCEPT !.state = undo, !.job = 0, !.nonce = row.nonce, !.err = "failed"]
    <3>1. UndoRow(s, kind, undo) = [row EXCEPT !.state = undo, !.job = 0, !.err = "failed"]
      BY <1>7 DEF UndoRow
    <3>2. undo \in {"UNCONFIRMED", "RUNNING", "STOPPED"}
      BY <2>1
    <3> QED BY <3>1, <3>2 DEF Row
  <2>3. /\ undo \in {"UNCONFIRMED", "RUNNING", "STOPPED"}
        /\ undo \in PLACEMENT_TRANSITIONS[row.state] /\ row.state # "NONE"
    BY <2>1
  <2>4. 0 \in 0..MaxJob /\ row.nonce \in {"none", "live", "used"} /\ "failed" \in LastError
    BY <1>3
  <2> QED BY ONLY <1>2, <2>2, <2>3, <2>4
<1>8. CASE kind \in {"hostretire", "fleetretire"}
  <2>1. /\ "UNCONFIRMED" \in PLACEMENT_TRANSITIONS[row.state] /\ row.state # "NONE"
    BY <1>8, TransitionsAre DEF StartOK, Stops, Retires
  <2>2. UndoRow(s, kind, undo) =
          [row EXCEPT !.state = "UNCONFIRMED", !.job = 0, !.nonce = row.nonce,
                      !.err = "enroll_tunnel_failed"]
    BY <1>8 DEF UndoRow, Row
  <2> QED BY <1>2, <1>3, <2>1, <2>2
<1> QED BY <1>1, <1>4, <1>5, <1>6, <1>7, <1>8 DEF StartOK, Stops, Retires

\* A refused start.
LEMMA RefusedKeeps ==
    ASSUME Inv1, NEW p \in Procs, Refused(p)
    PROVE  Inv1' /\ EdgeOK
<1> DEFINE s == proc[p].snap
           kind == proc[p].kind
           undo == proc[p].undo
           wins == IF kind \in {"ustop", "uretire"} THEN CasUser(s) ELSE CasReconciler(s)
           pc == IF kind \in {"hostretire", "settle"} THEN "reread" ELSE "idle"
<1>1. /\ AtStart(p) /\ UNCHANGED <<deleted, world>> /\ Fault
      /\ IF kind = "boot" THEN Goto(p, "refused", s, "boot") /\ UNCHANGED rowVars
         ELSE step(p, wins, UndoRow(s, kind, undo), "none", pc, pc)
  BY DEF Refused
<1>2. /\ s \in Row /\ RowOK(s) /\ StartOK(s, kind, undo) /\ RowOK(row) /\ row \in Row
  BY <1>1, AtStartIs
<1>3. CASE kind = "boot"
  <2>1. Goto(p, "refused", s, "boot") /\ UNCHANGED rowVars
    BY <1>1, <1>3
  <2>2. WorldOK' /\ UNCHANGED <<row, aged, usage, exec, jobs>>
    BY <1>1, <2>1, WorldStays DEF rowVars
  <2>3. SnapOK("refused", s, "boot", undo, exec)
    BY <1>2, <1>3 DEF SnapOK, StartOK, Stops, Retires
  <2>4. "refused" \in Pc /\ "boot" \in Kind
    BY DEF Pc, Kind
  <2>5. Inv1'
    BY <1>2, <2>1, <2>2, <2>3, <2>4, MoveKeeps
  <2> QED BY <2>2, <2>5 DEF EdgeOK
<1>4. CASE kind # "boot"
  <2>1. step(p, wins, UndoRow(s, kind, undo), "none", pc, pc)
    BY <1>1, <1>4
  <2>2. wins => row.state = s.state
    BY DEF CasUser, CasReconciler
  <2>3. pc \in Resets /\ pc \in Pc
    BY DEF Resets, Pc
  <2> HIDE DEF wins, pc
  <2>4. wins => RowOK(UndoRow(s, kind, undo)) /\ EdgeTaken(row, UndoRow(s, kind, undo))
    BY <1>2, <1>4, <2>2, UndoRowKeeps
  <2> QED BY <1>1, <2>1, <2>3, <2>4, StepAlongEdge
<1> QED BY <1>3, <1>4

\* A refused boot goes back to its undo state.
LEMMA RefusedBootKeeps ==
    ASSUME Inv1, NEW p \in Procs, RefusedBoot(p)
    PROVE  Inv1' /\ EdgeOK
<1> DEFINE s == proc[p].snap
           undo == proc[p].undo
           r == [row EXCEPT !.state = undo, !.job = row.job, !.nonce = "none", !.err = row.err]
<1>1. /\ UNCHANGED <<deleted, world, faults>> /\ proc[p].pc \in {"undo", "refused"}
      /\ step(p, CasUser(s), [row EXCEPT !.state = undo, !.nonce = "none"], "none",
              "idle", "idle")
  BY DEF RefusedBoot
<1>2. BootUndo(s, undo) /\ RowOK(row) /\ row \in Row
  BY <1>1, ProcIs DEF SnapOK, Inv1, TypeOK
<1>3. [row EXCEPT !.state = undo, !.nonce = "none"] = r
  BY <1>2 DEF Row
<1>4. CasUser(s) => RowOK(r) /\ EdgeTaken(row, r)
  <2>1. undo \in PlacementState /\ undo # "MOUNTING" /\ s.state # "NONE"
    BY <1>2 DEF BootUndo, PlacementState
  <2>2. /\ row.job \in 0..MaxJob /\ row.err \in LastError /\ r.state = undo
    BY <1>2 DEF Row
  <2>3. CasUser(s) => row.state = s.state /\ EdgeTaken(row, r)
    BY <1>2, <2>2 DEF CasUser, BootUndo, EdgeTaken
  <2>4. CasUser(s) => RowOK(r)
    BY <1>2, <2>1, <2>2, <2>3, RowRewritten
  <2> QED BY <2>3, <2>4
<1> HIDE DEF r
<1> QED BY <1>1, <1>3, <1>4, StepAlongEdge DEF Resets, Pc

-----------------------------------------------------------------------------
(* Lost instances, releases, recoveries and enrollments.                   *)

\* Dropping a consumed proof leaves a nonce.
LEMMA ProofDropped ==
    ASSUME NEW r \in Row
    PROVE  dropProof(r.nonce) \in {"none", "live", "used"}
BY DEF Row, dropProof

\* A lost instance's row is stopped.
LEMMA RecoverLostKeeps ==
    ASSUME Inv1, NEW p \in Procs, recoverLostInstance(p)
    PROVE  Inv1' /\ EdgeOK
<1> DEFINE s == proc[p].snap
           wins == CasUser(s) /\ row.inst = s.inst
           r == [row EXCEPT !.state = "STOPPED", !.job = 0, !.nonce = dropProof(row.nonce),
                            !.err = "instance_lost"]
           pc == IF proc[p].goal = "fleet" THEN "idle" ELSE "again"
<1>1. /\ UNCHANGED <<deleted, world, faults>> /\ s.state = "RUNNING"
      /\ step(p, wins, r, "close", pc, "act")
  BY ProcIs DEF recoverLostInstance, SnapOK
<1>2. RowOK(row) /\ row \in Row /\ wins => row.state = "RUNNING"
  BY <1>1 DEF Inv1, TypeOK, CasUser
<1>3. wins => RowOK(r) /\ EdgeTaken(row, r)
  <2>1. /\ "STOPPED" \in PlacementState /\ "STOPPED" # "MOUNTING" /\ 0 \in 0..MaxJob
        /\ dropProof(row.nonce) \in {"none", "live", "used"} /\ "instance_lost" \in LastError
        /\ RowOK(row) /\ row \in Row
    BY ProofDropped, BoundsAssumption DEF PlacementState, LastError, Inv1, TypeOK
  <2>2. wins => row.state = "RUNNING" /\ row.state # "NONE"
    BY <1>1 DEF CasUser
  <2>3. wins => RowOK(r)
    BY <2>1, <2>2, RowRewritten
  <2>4. r.state = "STOPPED"
    BY <2>1 DEF Row
  <2>5. wins => EdgeTaken(row, r)
    BY <2>2, <2>4, ReconcilersAre DEF EdgeTaken
  <2> QED BY <2>3, <2>5
<1>4. pc \in Resets /\ pc \in Pc /\ "act" \in Pc
      /\ SnapOK("act", s, proc[p].kind, proc[p].undo, exec)
  BY DEF Resets, Pc, SnapOK
<1> HIDE DEF r, pc, wins
<1> QED BY <1>1, <1>3, <1>4, StepAlongEdge

\* A placement that owns nothing is released, then purged.
LEMMA ReleaseKeeps ==
    ASSUME Inv1, NEW p \in Procs, releaseWithoutResources(p)
    PROVE  Inv1' /\ EdgeOK
<1> DEFINE s == proc[p].snap
<1>1. /\ UNCHANGED <<deleted, world, faults>> /\ RowOK(row) /\ row \in Row
      /\ SnapOK(proc[p].pc, s, proc[p].kind, proc[p].undo, exec)
  BY ProcIs DEF releaseWithoutResources, Inv1, TypeOK
<1>2. CASE proc[p].pc = "release"
  <2> DEFINE wins == CasUser(s) /\ row.inst = s.inst
             r == [row EXCEPT !.state = "RETIRED", !.job = 0, !.nonce = dropProof(row.nonce),
                              !.err = "released_no_resources"]
  <2>1. step(p, wins, r, "close", "purge", "idle")
    BY <1>2 DEF releaseWithoutResources
  <2>2. wins => row.state \in {"UNCONFIRMED", "RECOVERING"}
    BY <1>1, <1>2 DEF SnapOK, CasUser
  <2>3. /\ "RETIRED" \in PlacementState /\ "RETIRED" # "MOUNTING" /\ 0 \in 0..MaxJob
        /\ dropProof(row.nonce) \in {"none", "live", "used"}
        /\ "released_no_resources" \in LastError
    BY <1>1, ProofDropped, BoundsAssumption DEF PlacementState, LastError
  <2>4. wins => RowOK(r)
    <3>1. wins => row.state # "NONE"
      BY <2>2
    <3> QED BY <1>1, <2>3, <3>1, RowRewritten
  <2>5. r.state = "RETIRED"
    BY <1>1 DEF Row
  <2>6. wins => EdgeTaken(row, r)
    BY <2>2, <2>5, ReconcilersAre DEF EdgeTaken
  <2>7. SnapOK("purge", r, proc[p].kind, proc[p].undo, exec)
    BY <2>5 DEF SnapOK
  <2> HIDE DEF r, wins
  <2> QED BY <1>1, <2>1, <2>4, <2>6, <2>7, StepAlongEdge DEF Resets, Pc
<1>3. CASE proc[p].pc = "purge"
  <2> DEFINE r == [row EXCEPT !.state = "PURGE_ELIGIBLE", !.job = row.job, !.nonce = row.nonce,
                              !.err = row.err]
             pc == IF proc[p].goal = "delete" THEN "softdelete" ELSE "idle"
  <2>1. step(p, CasReconciler(s), r, "none", pc, pc)
    <3>1. [row EXCEPT !.state = "PURGE_ELIGIBLE"] = r
      BY <1>1 DEF Row
    <3> QED BY <1>3, <3>1 DEF releaseWithoutResources
  <2>2. CasReconciler(s) => row.state = "RETIRED" /\ row.state # "NONE"
    BY <1>1, <1>3 DEF SnapOK, CasUser, CasReconciler
  <2>3. /\ "PURGE_ELIGIBLE" \in PlacementState /\ "PURGE_ELIGIBLE" # "MOUNTING"
        /\ row.job \in 0..MaxJob /\ row.nonce \in {"none", "live", "used"} /\ row.err \in LastError
    BY <1>1 DEF PlacementState, Row
  <2>4. CasReconciler(s) => RowOK(r)
    BY <1>1, <2>2, <2>3, RowRewritten
  <2>5. r.state = "PURGE_ELIGIBLE"
    BY <1>1 DEF Row
  <2>6. CasReconciler(s) => EdgeTaken(row, r)
    BY <2>2, <2>5, TransitionsAre DEF EdgeTaken
  <2>7. pc \in Resets /\ pc \in Pc
    BY DEF Resets, Pc
  <2> HIDE DEF r, pc
  <2> QED BY <1>1, <2>1, <2>4, <2>6, <2>7, StepAlongEdge
<1> QED BY <1>2, <1>3 DEF releaseWithoutResources

\* UNCONFIRMED to RECOVERING.
LEMMA RecoveringKeeps ==
    ASSUME Inv1, NEW p \in Procs, Recovering(p)
    PROVE  Inv1' /\ EdgeOK
<1> DEFINE s == proc[p].snap
           host == \/ proc[p].pc = "recover" /\ s.state = "UNCONFIRMED"
                   \/ /\ Acting(p, {"fleet"}) /\ s.err = "enroll_tunnel_failed"
                      /\ s.job = 0 /\ Complete(s) /\ proc[p].old
           kind == IF proc[p].goal = "fleet" /\ proc[p].pc = "act"
                   THEN "fleetretire"
                   ELSE IF host THEN "hostretire" ELSE "uncretire"
           err == IF host THEN "enroll_host_retire" ELSE "deleted_recovery"
           r == [row EXCEPT !.state = "RECOVERING", !.err = err]
           lose == IF kind = "hostretire" THEN "reread" ELSE "idle"
<1>1. /\ s.state = "UNCONFIRMED" /\ UNCHANGED <<deleted, world, faults>>
      /\ host \/ (Unconfirmed(p) /\ Retirable(s))
      /\ casInTx(CasReconciler(s), r, "none")
      /\ Goto(p, IF CasReconciler(s) THEN "recover" ELSE lose, row', kind)
  BY DEF Recovering
<1>2. /\ RowOK(row) /\ row \in Row
      /\ SnapOK(proc[p].pc, s, proc[p].kind, proc[p].undo, exec)
  BY ProcIs DEF Inv1, TypeOK
<1>3. s.inst # 0
  BY <1>1, <1>2 DEF SnapOK, Retirable, Complete
<1>4. /\ kind \in {"hostretire", "fleetretire", "uncretire"} /\ kind \in Kind
      /\ err \in LastError /\ lose \in Resets /\ lose \in Pc /\ "recover" \in Pc
  BY DEF Kind, LastError, Resets, Pc
<1> HIDE DEF kind, err, lose
<1>5. CasReconciler(s) => /\ RowOK(r) /\ EdgeTaken(row, r) /\ r.state = "RECOVERING"
                          /\ r.inst # 0
  BY <1>1, <1>2, <1>3, <1>4, TransitionsAre DEF CasReconciler, CasUser, RowOK, Row,
     PlacementState, EdgeTaken
<1> HIDE DEF r, host
<1>6. WorldOK'
  BY <1>1, WorldStays DEF casInTx
<1>7. EdgeOK
  BY <1>1, <1>5, SwapTakesEdge
<1>8. CASE CasReconciler(s)
  <2>1. Goto(p, "recover", r, kind)
    BY <1>1, <1>8 DEF casInTx, Write
  <2>2. SnapOK("recover", r, kind, proc[p].undo, exec)
    BY <1>4, <1>5, <1>8 DEF SnapOK
  <2> QED BY <1>1, <1>4, <1>5, <1>6, <1>7, <1>8, <2>1, <2>2, SwapKeeps
<1>9. CASE ~CasReconciler(s)
  <2>1. Goto(p, lose, row, kind) /\ UNCHANGED <<row, aged, usage, exec, jobs>>
    BY <1>1, <1>9 DEF casInTx
  <2> QED BY <1>2, <1>4, <1>6, <1>7, <2>1, ResetKeeps
<1> QED BY <1>8, <1>9

\* The nonce of a boot is consumed.
LEMMA ConsumeKeeps ==
    ASSUME Inv1, NEW p \in Procs, consumeEnrollmentNonce(p)
    PROVE  Inv1' /\ EdgeOK
<1> DEFINE s == proc[p].snap
           i == proc[p].host
           wins == /\ row.gen = s.gen /\ row.epoch = s.epoch
                   /\ row.state \in ENROLLABLE_STATES
                   /\ row.nonce = "live" /\ ~expired /\ row.inst \in {0, i}
           r == [row EXCEPT !.nonce = "used", !.err = "enroll_tunnel_pending",
                            !.inst = i, !.vol = TRUE]
<1>1. /\ UNCHANGED <<deleted, world, faults>>
      /\ step(p, wins, r, "none", "tunnel", "idle")
  BY DEF consumeEnrollmentNonce
<1>2. RowOK(row) /\ row \in Row /\ i \in 0..MaxEpoch
  BY ProcIs DEF Inv1, TypeOK
<1> HIDE DEF i
<1>3. wins => RowOK(r) /\ EdgeTaken(row, r)
  <2>1. /\ r \in Row /\ r.state = row.state /\ r.epoch = row.epoch /\ r.gen = row.gen
        /\ r.fence = row.fence /\ r.inst = i
    BY <1>2 DEF Row, LastError
  <2> HIDE DEF r
  <2>2. wins /\ row.state = "MOUNTING" => i >= 1
    BY <1>2, Bounds DEF RowOK, Row
  <2> QED BY <1>2, <2>1, <2>2 DEF RowOK, EdgeTaken
<1> HIDE DEF r, wins
<1>4. SnapOK("tunnel", r, proc[p].kind, proc[p].undo, exec)
  BY DEF SnapOK
<1> QED BY <1>1, <1>3, <1>4, StepAlongEdge DEF Resets, Pc

\* An enrollment is finished.
LEMMA FinishKeeps ==
    ASSUME Inv1, NEW p \in Procs, finishEnrollment(p)
    PROVE  Inv1' /\ EdgeOK
<1> DEFINE s == proc[p].snap
           wins == /\ row.gen = s.gen /\ row.epoch = s.epoch
                   /\ row.state \in ENROLLABLE_STATES /\ row.inst = s.inst
                   /\ row.err = "enroll_tunnel_pending" /\ row.nonce # "live"
           refused == proc[p].kind = "refused"
           r == IF ~refused THEN [row EXCEPT !.err = "enroll_succeeded"]
                ELSE [row EXCEPT !.state = "UNCONFIRMED", !.nonce = "none",
                                 !.err = "enroll_tunnel_failed"]
<1>1. /\ UNCHANGED <<deleted, world, faults>>
      /\ step(p, wins, r, "none", "idle", "idle")
  BY DEF finishEnrollment
<1>2. RowOK(row) /\ row \in Row
  BY DEF Inv1, TypeOK
<1>3. wins => RowOK(r) /\ EdgeTaken(row, r)
  <2>1. CASE ~refused
    BY <1>2, <2>1 DEF RowOK, Row, LastError, EdgeTaken
  <2>2. CASE refused
    BY <1>2, <2>2, TransitionsAre DEF RowOK, Row, LastError, PlacementState, EdgeTaken,
       ENROLLABLE_STATES
  <2> QED BY <2>1, <2>2
<1> HIDE DEF r, wins
<1> QED BY <1>1, <1>3, StepAlongEdge DEF Resets, Pc

-----------------------------------------------------------------------------
(* The swaps that record a job.                                            *)

\* A recorded job takes the edge of the row it is recorded in.
LEMMA RecordTakesEdge ==
    ASSUME NEW p, NEW wins, NEW r \in Row, NEW work, NEW kind, NEW undo, NEW lose,
           recordJob(p, wins, r, work, kind, undo, lose)
    PROVE  \/ row' = row
           \/ wins /\ row'.state = r.state /\ row'.epoch = r.epoch
BY DEF recordJob, Write, Row

\* What a job is recorded with.
LEMMA JobIs ==
    ASSUME NEW op \in Operation, NEW gen \in 0..MaxEpoch, NEW e \in Epochs,
           NEW fence \in Epochs, NEW src \in 0..MaxEpoch, NEW prevGen \in 0..MaxEpoch,
           NEW prevFence \in 0..MaxEpoch, NEW x,
           x = [op |-> op, gen |-> gen, epoch |-> e, fence |-> fence, src |-> src,
                prevGen |-> prevGen, prevFence |-> prevFence, st |-> "absent",
                armed |-> "none", ran |-> FALSE]
    PROVE  /\ x \in Exec /\ x.op = op /\ x.gen = gen /\ x.epoch = e
           /\ x.fence = fence /\ x.src = src /\ x.prevGen = prevGen
           /\ x.prevFence = prevFence /\ x.st = "absent" /\ x.armed = "none"
           /\ x.ran = FALSE
BY DEF Exec

\* The intent of a stop or a retire of a placement that has an instance.
LEMMA IntentIsJob ==
    ASSUME NEW s \in Row, RowOK(s), s.state # "NONE", s.inst # 0, NEW op \in {"stop", "retire"}
    PROVE  /\ currentGenerationIntent(s, op) \in Exec
           /\ ExecOK(currentGenerationIntent(s, op))
<1> DEFINE x == currentGenerationIntent(s, op)
<1>1. /\ s.epoch \in Epochs /\ s.gen \in 1..s.epoch /\ s.fence \in 1..s.epoch
      /\ s.fence \in Epochs /\ s.gen \in 0..MaxEpoch /\ s.inst \in 0..MaxEpoch
      /\ s.inst >= 1 /\ 0 \in 0..MaxEpoch
  BY Bounds DEF RowOK, Row, Epochs
<1>2. /\ x \in Exec /\ x.op = op /\ x.gen = s.gen /\ x.epoch = s.epoch /\ x.fence = s.fence
      /\ x.src = s.inst /\ x.armed = "none"
  BY <1>1 DEF currentGenerationIntent, Exec, Operation
<1> HIDE DEF x
<1>3. ExecOK(x)
  BY <1>1, <1>2 DEF ExecOK
<1> QED BY <1>2, <1>3 DEF x

\* The first open inserts the row.
LEMMA CreateKeeps ==
    ASSUME Inv1, NEW p \in Procs, createAwsPlacement(p)
    PROVE  Inv1' /\ EdgeOK
<1> DEFINE wins == row.state = "NONE" /\ ~deleted
           r == [NoRow EXCEPT !.state = "PROVISIONING", !.gen = 1, !.epoch = 1,
                              !.fence = 1, !.nonce = "live"]
           work == [op |-> "provision", gen |-> 1, epoch |-> 1, fence |-> 1,
                    src |-> 0, prevGen |-> 0, prevFence |-> 0, st |-> "absent",
                    armed |-> "none", ran |-> FALSE]
<1>1. /\ recordJob(p, wins, r, work, "boot", "UNCONFIRMED", "idle")
      /\ expired' = IF wins THEN FALSE ELSE expired
      /\ UNCHANGED <<deleted, world, faults>>
  BY DEF createAwsPlacement
<1>2. WorldOK'
  BY <1>1 DEF Inv1, TypeOK, WorldOK, world
<1>3. r \in Row /\ RowOK(r) /\ r.state = "PROVISIONING"
  <2>1. 1 \in 0..MaxEpoch /\ NoRow \in Row /\ NoRow.inst = 0
    BY Bounds DEF NoRow, Epochs
  <2>2. /\ r \in Row /\ r.state = "PROVISIONING" /\ r.gen = 1 /\ r.epoch = 1 /\ r.fence = 1
    BY <2>1 DEF Row, PlacementState
  <2> HIDE DEF r
  <2> QED BY <2>2 DEF RowOK
<1>4. work \in Exec /\ ExecOK(work)
  <2>1. 1 \in 0..MaxEpoch /\ 0 \in 0..MaxEpoch /\ 1 \in Epochs
    BY Bounds
  <2>2. work \in Exec
    BY <2>1 DEF Exec, Operation
  <2> QED BY <2>2 DEF ExecOK
<1>5. StartOK(r, "boot", "UNCONFIRMED")
  BY <1>3, TransitionsAre DEF StartOK, BootUndo
<1> HIDE DEF r, work
<1>6. Inv1'
  BY <1>1, <1>2, <1>3, <1>4, <1>5, RecordKeeps DEF Kind, PlacementState, Resets, Pc
<1>7. row' = row \/ (row.state = "NONE" /\ row'.state = "PROVISIONING")
  BY <1>1, <1>3, RecordTakesEdge
<1>8. EdgeOK
  BY <1>7 DEF EdgeOK
<1> QED BY <1>6, <1>8

\* An open leases the next epoch.
LEMMA LeaseKeeps ==
    ASSUME Inv1, NEW p \in Procs, NEW replace \in BOOLEAN, leasePlacement(p, replace)
    PROVE  Inv1' /\ EdgeOK
<1> DEFINE s == proc[p].snap
           wins == LeaseWins(s, replace) /\ ~deleted
           e == s.epoch + 1
           gen == IF replace THEN s.gen + 1 ELSE s.gen
           fence == IF replace THEN e ELSE s.fence
           i == IF replace THEN 0 ELSE row.inst
           r == [row EXCEPT !.state = "LEASED", !.epoch = e, !.gen = gen, !.fence = fence,
                            !.nonce = "live", !.err = "none", !.inst = i]
           prevGen == IF replace THEN s.gen ELSE 0
           prevFence == IF replace THEN s.fence ELSE 0
           op == IF replace THEN "replace" ELSE "start"
           work == [op |-> op, gen |-> gen, epoch |-> e, fence |-> fence, src |-> s.inst,
                    prevGen |-> prevGen, prevFence |-> prevFence, st |-> "absent",
                    armed |-> "none", ran |-> FALSE]
           undo == IF replace THEN "UNCONFIRMED" ELSE "STOPPED"
<1>1. /\ recordJob(p, wins, r, work, "boot", undo, "idle")
      /\ expired' = IF wins THEN FALSE ELSE expired
      /\ UNCHANGED <<deleted, world, faults>> /\ s.epoch < MaxEpoch /\ Openable(s)
  BY DEF leasePlacement
<1>2. WorldOK'
  BY <1>1 DEF Inv1, TypeOK, WorldOK, world
<1>3. /\ RowOK(s) /\ s \in Row /\ RowOK(row) /\ row \in Row
      /\ s.state \in {"STOPPED", "UNCONFIRMED"} /\ s.inst # 0
  BY <1>1, ProcIs DEF Openable, Complete, Inv1, TypeOK
<1>4. /\ e \in Epochs /\ e \in 0..MaxEpoch /\ gen \in 1..e /\ fence \in 1..e
      /\ gen \in 0..MaxEpoch /\ fence \in 0..MaxEpoch /\ fence \in Epochs
      /\ i \in 0..MaxEpoch /\ s.inst >= 1 /\ s.inst \in 0..MaxEpoch
      /\ prevGen \in 0..MaxEpoch /\ prevFence \in 0..MaxEpoch
      /\ replace => prevGen \in 1..e /\ prevFence \in 1..e
  BY <1>1, <1>3, Bounds DEF RowOK, Row, Epochs
<1>5. /\ op \in {"replace", "start"} /\ op = "replace" => replace
      /\ undo \in {"UNCONFIRMED", "STOPPED"} /\ op \in Operation
  BY DEF Operation
<1>6. wins => row.state \in {"STOPPED", "UNCONFIRMED"} /\ row.epoch = s.epoch
  BY DEF LeaseWins
<1>7. e > s.epoch
  BY <1>3, Bounds DEF Row
<1> HIDE DEF e, gen, fence, i, prevGen, prevFence, op, undo
<1>8a. /\ "absent" \in {"absent", "running", "succeeded", "lost", "failed"}
       /\ "none" \in Mutation \cup {"none"} /\ FALSE \in BOOLEAN
  OBVIOUS
<1>8. r \in Row /\ RowOK(r) /\ r.state = "LEASED" /\ r.epoch = e
  <2>1. /\ r \in Row /\ r.state = "LEASED" /\ r.epoch = e /\ r.gen = gen /\ r.fence = fence
    BY <1>3, <1>4 DEF Row, PlacementState, LastError
  <2> HIDE DEF r
  <2> QED BY <1>4, <2>1, Bounds DEF RowOK, Epochs
<1>9. work \in Exec /\ ExecOK(work)
  <2>1. work \in Exec
    BY <1>4, <1>5, <1>8a DEF Exec
  <2>2. /\ work.op = op /\ work.gen = gen /\ work.epoch = e /\ work.fence = fence
        /\ work.src = s.inst /\ work.prevGen = prevGen /\ work.prevFence = prevFence
        /\ work.armed = "none"
    OBVIOUS
  <2> HIDE DEF work
  <2> QED BY <1>4, <1>5, <2>1, <2>2 DEF ExecOK
<1>10. StartOK(r, "boot", undo)
  BY <1>5, <1>8, TransitionsAre DEF StartOK, BootUndo
<1> HIDE DEF r, work, wins
<1>11. /\ "boot" \in Kind /\ undo \in PlacementState \cup {"NONE"} /\ "idle" \in Pc
       /\ "idle" \in Resets \cup {"act"}
  BY <1>5 DEF Kind, PlacementState, Pc, Resets
<1>12. Inv1'
  BY <1>1, <1>2, <1>8, <1>9, <1>10, <1>11, RecordKeeps
<1>13. \/ row' = row
       \/ wins /\ row'.state = "LEASED" /\ row'.epoch = e
  BY <1>1, <1>8, RecordTakesEdge
<1>14. EdgeOK
  BY <1>6, <1>7, <1>13 DEF EdgeOK
<1> QED BY <1>12, <1>14

\* A stop drains its row, a retire says what its refusal goes back to.
Ends(kind, state, undo) ==
    \/ kind \in Stops /\ state = "DRAINING"
    \/ kind \in {"uretire", "rretire"} /\ state = "RETIRING" /\ undo \in {"RUNNING", "STOPPED"}
    \/ kind \in Retires \ {"uretire", "rretire"} /\ state = "RETIRING" /\ undo = "UNCONFIRMED"

\* A job of a stop or a retire, recorded on the row that was read.
LEMMA EndJobKeeps ==
    ASSUME Inv1, NEW p \in Procs, NEW wins, NEW state \in {"DRAINING", "RETIRING"},
           NEW err \in LastError, NEW op \in {"stop", "retire"}, NEW kind \in Kind,
           NEW undo \in PlacementState, NEW lose \in {"idle", "act", "reread"},
           recordJob(p, wins, [row EXCEPT !.state = state, !.nonce = dropProof(@),
                                          !.err = err],
                     currentGenerationIntent(proc[p].snap, op), kind, undo, lose),
           UNCHANGED <<expired, deleted, world, faults>>,
           wins => CasUser(proc[p].snap),
           state \in PLACEMENT_TRANSITIONS[proc[p].snap.state],
           proc[p].snap.state # "NONE", proc[p].snap.inst # 0,
           Ends(kind, state, undo)
    PROVE  Inv1' /\ EdgeOK
<1> DEFINE s == proc[p].snap
           r == [row EXCEPT !.state = state, !.job = row.job,
                            !.nonce = dropProof(row.nonce), !.err = err]
           work == currentGenerationIntent(s, op)
<1>1. RowOK(row) /\ row \in Row /\ RowOK(s) /\ s \in Row
  BY ProcIs DEF Inv1, TypeOK
<1>2. recordJob(p, wins, r, work, kind, undo, lose)
  <2>1. [row EXCEPT !.state = state, !.nonce = dropProof(@), !.err = err] = r
    BY <1>1 DEF Row
  <2> QED BY <2>1
<1>3. WorldOK'
  BY WorldStays
<1>4. wins => row.state = s.state
  BY DEF CasUser
<1>5. /\ state \in PlacementState /\ row.job \in 0..MaxJob
      /\ dropProof(row.nonce) \in {"none", "live", "used"} /\ state # "MOUNTING"
  BY <1>1, ProofDropped DEF PlacementState, Row
<1>6. wins => RowOK(r)
  BY <1>1, <1>4, <1>5, RowRewritten
<1>7. r \in Row /\ r.state = state /\ r.err = err
  BY <1>1, <1>5 DEF Row
<1>8. work \in Exec /\ ExecOK(work)
  BY <1>1, IntentIsJob
<1> HIDE DEF r, work
<1>9. StartOK(r, kind, undo)
  BY <1>7 DEF StartOK, Ends
<1>10. /\ lose \in Pc /\ lose \in Resets \cup {"act"}
       /\ undo \in PlacementState \cup {"NONE"}
  BY DEF Pc, Resets
<1>11. Inv1'
  BY <1>2, <1>3, <1>6, <1>8, <1>9, <1>10, RecordKeeps
<1>12. row' = row \/ (row.state = s.state /\ row'.state = state)
  BY <1>2, <1>4, <1>7, RecordTakesEdge
<1>13. EdgeOK
  BY <1>12 DEF EdgeOK
<1> QED BY <1>11, <1>13

\* A stop of a running computer.
LEMMA StopKeeps ==
    ASSUME Inv1, NEW p \in Procs,
           reconcileGuestStop(p) \/ enforceSessionLimits(p) \/ startStop(p)
    PROVE  Inv1' /\ EdgeOK
<1> DEFINE s == proc[p].snap
<1>1. s.state = "RUNNING" /\ s.inst # 0
  BY DEF reconcileGuestStop, enforceSessionLimits, startStop, GuestStopDue, Complete
<1>2. ASSUME NEW wins, wins => CasUser(s), NEW err \in LastError, NEW kind \in Stops,
             StopJob(p, s, wins, err, kind)
      PROVE  Inv1' /\ EdgeOK
  <2> DEFINE lose == IF kind = "rstop" THEN "act" ELSE "idle"
  <2>1. /\ recordJob(p, wins, [row EXCEPT !.state = "DRAINING", !.nonce = dropProof(@),
                                          !.err = err],
                     currentGenerationIntent(s, "stop"), kind, "UNCONFIRMED", lose)
        /\ UNCHANGED <<expired, deleted, world, faults>>
    BY <1>2 DEF StopJob
  <2>2. /\ kind \in Kind /\ "UNCONFIRMED" \in PlacementState /\ lose \in {"idle", "act", "reread"}
        /\ "DRAINING" \in PLACEMENT_TRANSITIONS[s.state] /\ s.state # "NONE"
        /\ Ends(kind, "DRAINING", "UNCONFIRMED")
    BY <1>1, TransitionsAre DEF Stops, Kind, PlacementState, Ends
  <2> HIDE DEF lose
  <2> QED BY <1>1, <1>2, <2>1, <2>2, EndJobKeeps
<1>3. CASE reconcileGuestStop(p)
  BY <1>2, <1>3 DEF reconcileGuestStop, CasReconciler, LastError, Stops
<1>4. CASE enforceSessionLimits(p)
  BY <1>2, <1>4 DEF enforceSessionLimits, CasReconciler, LastError, Stops
<1>5. CASE startStop(p)
  BY <1>2, <1>5 DEF startStop, LastError, Stops
<1> QED BY <1>3, <1>4, <1>5

\* A retire of a computer at rest or running.
LEMMA RetireKeeps ==
    ASSUME Inv1, NEW p \in Procs, startRetire(p)
    PROVE  Inv1' /\ EdgeOK
<1> DEFINE s == proc[p].snap
           user == proc[p].goal = "delete"
           wins == IF user THEN CasUser(s) ELSE CasReconciler(s)
           kind == IF user THEN "uretire" ELSE "rretire"
<1>1. /\ s.state \in {"RUNNING", "STOPPED"} /\ s.inst # 0
      /\ recordJob(p, wins, [row EXCEPT !.state = "RETIRING", !.nonce = dropProof(@),
                                        !.err = "none"],
                   currentGenerationIntent(s, "retire"), kind, s.state, "idle")
      /\ UNCHANGED <<expired, deleted, world, faults>>
  BY DEF startRetire, Complete
<1>2. /\ kind \in Kind /\ kind \in {"uretire", "rretire"} /\ s.state \in PlacementState
      /\ "RETIRING" \in PLACEMENT_TRANSITIONS[s.state] /\ s.state # "NONE"
      /\ "none" \in LastError /\ Ends(kind, "RETIRING", s.state)
  BY <1>1, TransitionsAre DEF Kind, PlacementState, LastError, Ends
<1>3. wins => CasUser(s)
  BY DEF CasReconciler
<1> HIDE DEF wins, kind
<1> QED BY <1>1, <1>2, <1>3, EndJobKeeps

\* RECOVERING to RETIRING.
LEMMA RecoveringRetireKeeps ==
    ASSUME Inv1, NEW p \in Procs, RecoveringRetire(p)
    PROVE  Inv1' /\ EdgeOK
<1> DEFINE s == proc[p].snap
           fleet == /\ Acting(p, {"fleet"}) /\ s.err = "enroll_host_retire"
                    /\ s.job = 0 /\ Complete(s) /\ proc[p].old
           kind == IF proc[p].pc = "recover" THEN proc[p].kind
                   ELSE IF fleet THEN "fleetretire" ELSE "uncretire"
           err == IF kind = "uncretire" THEN "none" ELSE "enroll_host_retire"
           lose == IF kind = "hostretire" THEN "reread" ELSE "idle"
           wins == CasReconciler(s)
<1>1. /\ s.state = "RECOVERING"
      /\ proc[p].pc = "recover" \/ fleet \/ (Unconfirmed(p) /\ Retirable(s))
      /\ recordJob(p, wins,
                   [row EXCEPT !.state = "RETIRING", !.nonce = dropProof(@), !.err = err],
                   currentGenerationIntent(s, "retire"), kind, "UNCONFIRMED", lose)
      /\ UNCHANGED <<expired, deleted, world, faults>>
  BY DEF RecoveringRetire
<1>2. SnapOK(proc[p].pc, s, proc[p].kind, proc[p].undo, exec)
  BY ProcIs
<1>3. s.inst # 0 /\ kind \in {"hostretire", "fleetretire", "uncretire"}
  BY <1>1, <1>2 DEF SnapOK, Retirable, Complete
<1> HIDE DEF fleet, kind
<1>4. ASSUME NEW k, k = kind, NEW lo, lo = lose, NEW er, er = err, NEW w, w = wins
      PROVE  Inv1' /\ EdgeOK
  <2>1. /\ recordJob(p, w,
                   [row EXCEPT !.state = "RETIRING", !.nonce = dropProof(@), !.err = er],
                   currentGenerationIntent(s, "retire"), k, "UNCONFIRMED", lo)
        /\ UNCHANGED <<expired, deleted, world, faults>>
    BY <1>1, <1>4
  <2>2. /\ k \in Kind /\ k \in Retires \ {"uretire", "rretire"} /\ er \in LastError
        /\ "UNCONFIRMED" \in PlacementState /\ lo \in {"idle", "act", "reread"}
        /\ "RETIRING" \in PLACEMENT_TRANSITIONS[s.state] /\ s.state # "NONE"
        /\ Ends(k, "RETIRING", "UNCONFIRMED")
    BY <1>1, <1>3, <1>4, TransitionsAre DEF Kind, Retires, LastError, PlacementState, Ends
  <2>3. w => CasUser(s)
    BY <1>4 DEF CasReconciler
  <2> HIDE DEF err, lose, wins
  <2>4. /\ "RETIRING" \in {"DRAINING", "RETIRING"} /\ "retire" \in {"stop", "retire"}
    OBVIOUS
  <2> QED BY <1>3, <2>1, <2>2, <2>3, <2>4, EndJobKeeps
<1> QED BY <1>4

\* A step of one execution, or of none, that leaves the row and the invocations.
LEMMA ExecKeeps ==
    ASSUME Inv1, NEW j \in Jobs, NEW new, exec[j] # NoExec,
           exec' = [exec EXCEPT ![j] = new], WorldOK', aged' \in BOOLEAN,
           UNCHANGED <<row, usage, jobs, proc>>,
           new \in Exec, new.op = exec[j].op, new.gen = exec[j].gen,
           new.epoch = exec[j].epoch, new.fence = exec[j].fence, new.src = exec[j].src,
           new.prevGen = exec[j].prevGen, new.prevFence = exec[j].prevFence,
           exec[j].st \in {"absent", "running"}, new.armed # "none" => new.st = "running"
    PROVE  Inv1'
<1>1. /\ exec \in [Jobs -> Exec \cup {NoExec}] /\ RowOK(row) /\ usage \subseteq Epochs
      /\ jobs \in 0..MaxJob /\ proc \in [Procs -> Proc] /\ row \in Row
  BY DEF Inv1, TypeOK
<1>2. \A k \in Jobs : exec'[k] = IF k = j THEN new ELSE exec[k]
  BY <1>1
<1>3. JobsGrow(exec, exec')
  BY <1>2 DEF JobsGrow
<1>4. ExecOK(new)
  <2>1. ExecOK(exec[j])
    BY DEF Inv1, ExecsOK
  <2> QED BY <2>1 DEF ExecOK
<1>5. ExecsOK'
  <2>1. ASSUME NEW k \in Jobs
        PROVE  ExecOK(exec'[k]) /\ (k > jobs' => exec'[k] = NoExec)
    BY <1>2, <1>4 DEF Inv1, ExecsOK
  <2> QED BY <2>1 DEF ExecsOK
<1>6. ProcsOK'
  BY <1>3, ProcsStay
<1>7. exec' \in [Jobs -> Exec \cup {NoExec}]
  BY <1>1
<1>8. TypeOK'
  BY <1>1, <1>7 DEF TypeOK, WorldOK
<1> QED BY <1>1, <1>5, <1>6, <1>8 DEF Inv1

\* No execution, invocation or row moves: EC2, the host or time does.
LEMMA WorldMoves ==
    ASSUME Inv1, UNCHANGED <<row, usage, exec, jobs, proc>>, WorldOK', aged' \in BOOLEAN
    PROVE  Inv1'
<1>1. ProcsOK'
  BY SameJobsGrow, ProcsStay
<1>2. TypeOK' /\ RowOK(row') /\ ExecsOK'
  BY DEF Inv1, TypeOK, WorldOK, ExecsOK
<1> QED BY <1>1, <1>2 DEF Inv1

\* A recorded job is one of the jobs, and not a null one.
LEMMA RecordedIs ==
    ASSUME Inv1, NEW j \in Jobs, exec[j].st # "none"
    PROVE  /\ exec[j] \in Exec /\ exec[j] # NoExec /\ ExecOK(exec[j])
           /\ exec[j].epoch \in Epochs /\ exec[j].fence \in Epochs /\ exec[j].src \in 0..MaxEpoch
           /\ exec[j].armed \in Mutation \cup {"none"} /\ exec[j].ran \in BOOLEAN
           /\ exec[j].op \in Operation
           /\ exec[j].st \in {"absent", "running", "succeeded", "lost", "failed"}
<1>1. exec[j] \in Exec \cup {NoExec} /\ exec[j] # NoExec /\ ExecOK(exec[j])
  BY DEF Inv1, TypeOK, ExecsOK, NoExec
<1> QED BY <1>1 DEF Exec

\* A start reaches Step Functions, in time or late.
LEMMA StartKeeps ==
    ASSUME Inv1, (\E p \in Procs : StartExecution(p)) \/ LateStartExecution
    PROVE  Inv1'
<1>1. PICK j \in Jobs :
        /\ exec[j].st = "absent" /\ exec' = [exec EXCEPT ![j].st = "running"]
        /\ UNCHANGED <<row, aged, expired, usage, jobs, deleted, world, proc, faults>>
  <2>1. CASE LateStartExecution
    <3>1. row.job \in Jobs
      BY <2>1, BoundsAssumption DEF LateStartExecution, Inv1, TypeOK, Row, Jobs
    <3> QED BY <2>1, <3>1 DEF LateStartExecution
  <2>2. ASSUME NEW p \in Procs, StartExecution(p)
        PROVE  \E j \in Jobs :
                 /\ exec[j].st = "absent" /\ exec' = [exec EXCEPT ![j].st = "running"]
                 /\ UNCHANGED <<row, aged, expired, usage, jobs, deleted, world, proc, faults>>
    <3>1. proc[p].snap.job # 0 /\ proc[p].snap \in Row
      BY <2>2, ProcIs DEF StartExecution, AtStart, SnapOK
    <3>2. proc[p].snap.job \in Jobs
      BY <3>1, BoundsAssumption DEF Row, Jobs
    <3> QED BY <2>2, <3>2 DEF StartExecution
  <2> QED BY <2>1, <2>2
<1> DEFINE new == [exec[j] EXCEPT !.st = "running"]
<1>2. exec' = [exec EXCEPT ![j] = new] /\ exec[j] \in Exec /\ exec[j] # NoExec
  BY <1>1, RecordedIs
<1>3. /\ new \in Exec /\ new.op = exec[j].op /\ new.gen = exec[j].gen
      /\ new.epoch = exec[j].epoch /\ new.fence = exec[j].fence /\ new.src = exec[j].src
      /\ new.prevGen = exec[j].prevGen /\ new.prevFence = exec[j].prevFence
      /\ new.st = "running"
  BY <1>2 DEF Exec
<1>4. WorldOK' /\ aged' \in BOOLEAN
  BY <1>1, WorldStays DEF Inv1, TypeOK
<1> HIDE DEF new
<1> QED BY <1>1, <1>2, <1>3, <1>4, ExecKeeps

\* The helper authorizes a call, or its execution ends.
LEMMA HelperKeeps ==
    ASSUME Inv1, NEW j \in Jobs, ExecArm(j) \/ ExecSucceed(j) \/ ExecFail(j)
    PROVE  Inv1'
<1> DEFINE sees == observe(exec[j])
           new == IF ExecArm(j) THEN [exec[j] EXCEPT !.armed = sees,
                                                     !.ran = @ \/ sees \in {"run", "boot"}]
                  ELSE IF ExecSucceed(j) THEN [exec[j] EXCEPT !.st = sees]
                  ELSE [exec[j] EXCEPT !.st = "failed"]
<1>1. /\ Running(j) /\ UNCHANGED <<row, aged, expired, usage, jobs, deleted, world, proc>>
      /\ faults' = faults \/ Fault
  BY DEF ExecArm, ExecSucceed, ExecFail
<1>2. /\ exec[j] \in Exec /\ exec[j] # NoExec /\ exec[j].st = "running" /\ exec[j].armed = "none"
      /\ exec[j].ran \in BOOLEAN /\ exec \in [Jobs -> Exec \cup {NoExec}]
  BY <1>1, RecordedIs DEF Running, Inv1, TypeOK
<1>3. exec' = [exec EXCEPT ![j] = new]
  BY <1>2 DEF ExecArm, ExecSucceed, ExecFail
<1>4. /\ ExecArm(j) => sees \in Mutation
      /\ ExecSucceed(j) => sees \in {"succeeded", "lost"}
      /\ (exec[j].ran \/ sees \in {"run", "boot"}) \in BOOLEAN
  BY DEF ExecArm, ExecSucceed
<1> HIDE DEF sees
<1>5. /\ new \in Exec /\ new.op = exec[j].op /\ new.gen = exec[j].gen
      /\ new.epoch = exec[j].epoch /\ new.fence = exec[j].fence /\ new.src = exec[j].src
      /\ new.prevGen = exec[j].prevGen /\ new.prevFence = exec[j].prevFence
      /\ new.armed # "none" => new.st = "running"
  <2>1. CASE ExecArm(j)
    BY <1>2, <1>4, <2>1 DEF Exec
  <2>2. CASE ~ExecArm(j) /\ ExecSucceed(j)
    BY <1>2, <1>4, <2>2 DEF Exec
  <2>3. CASE ~ExecArm(j) /\ ~ExecSucceed(j)
    BY <1>2, <2>3 DEF Exec
  <2> QED BY <2>1, <2>2, <2>3
<1>6. WorldOK' /\ aged' \in BOOLEAN
  BY <1>1, WorldStays DEF Inv1, TypeOK
<1> HIDE DEF new
<1> QED BY <1>1, <1>2, <1>3, <1>5, <1>6, ExecKeeps

\* A call on EC2 leaves the instances and the volume well formed.
LEMMA Ec2Is ==
    ASSUME Inv1, NEW x \in Exec, ExecOK(x), x # NoExec, x.armed # "none", Ec2(x)
    PROVE  /\ inst' \in [Epochs -> [st: {"none", "running", "stopped", "gone"},
                                    boot: 0..MaxEpoch]]
           /\ vol' \in [at: 0..MaxEpoch, fence: 0..MaxEpoch]
<1> DEFINE I == [st: {"none", "running", "stopped", "gone"}, boot: 0..MaxEpoch]
           V == [at: 0..MaxEpoch, fence: 0..MaxEpoch]
<1>1. /\ inst \in [Epochs -> I] /\ vol \in V /\ x.epoch \in Epochs /\ x.fence \in Epochs
      /\ x.epoch \in 0..MaxEpoch /\ x.fence \in 0..MaxEpoch /\ 0 \in 0..MaxEpoch
      /\ x.armed \in Mutation
  BY Bounds DEF Inv1, TypeOK, Exec
<1>2. \A i \in Epochs : inst[i] \in I /\ inst[i].boot \in 0..MaxEpoch
  BY <1>1
<1>3. CASE x.armed = "stop"
  BY <1>1, <1>2, <1>3 DEF Ec2
<1>4. CASE x.armed = "terminate"
  <2>1. /\ inst' = [inst EXCEPT ![x.src].st = "gone"]
        /\ vol' = [vol EXCEPT !.at = IF @ = x.src THEN 0 ELSE @]
    BY <1>4 DEF Ec2
  <2> QED BY <1>1, <1>2, <2>1
<1>5. CASE x.armed = "boot"
  <2>1. /\ inst' = [inst EXCEPT ![x.src] = IF @.st = "stopped"
                                           THEN [st |-> "running", boot |-> x.epoch] ELSE @]
        /\ vol' = vol
    BY <1>5 DEF Ec2
  <2> QED BY <1>1, <1>2, <2>1
<1>6. CASE x.armed = "createVolume"
  <2>1. vol' = [at |-> 0, fence |-> x.fence] /\ inst' = inst
    BY <1>6 DEF Ec2
  <2> QED BY <1>1, <2>1
<1>7. CASE x.armed = "run"
  <2>1. inst' = [inst EXCEPT ![x.epoch] = [st |-> "running", boot |-> x.epoch]] /\ vol' = vol
    BY <1>7 DEF Ec2
  <2> QED BY <1>1, <1>2, <2>1
<1>8. CASE x.armed = "tag"
  <2>1. vol' = [vol EXCEPT !.fence = x.fence] /\ inst' = inst
    BY <1>8 DEF Ec2
  <2> QED BY <1>1, <2>1
<1>9. CASE x.armed = "attach"
  <2>1. /\ vol' = [vol EXCEPT !.at = IF @ = 0 /\ inst[x.epoch].st = "running"
                                     THEN x.epoch ELSE @]
        /\ inst' = inst
    BY <1>9 DEF Ec2
  <2> QED BY <1>1, <2>1
<1> QED BY <1>1, <1>3, <1>4, <1>5, <1>6, <1>7, <1>8, <1>9 DEF Mutation

\* Step Functions performs the call, or loses it.
LEMMA MutateKeeps ==
    ASSUME Inv1, NEW j \in Jobs, ExecMutate(j)
    PROVE  Inv1'
<1>1. /\ exec[j] \in Exec /\ exec[j] # NoExec /\ ExecOK(exec[j]) /\ exec[j].st = "running"
      /\ exec[j].armed # "none" /\ exec \in [Jobs -> Exec \cup {NoExec}]
      /\ exec[j].ran \in BOOLEAN
      /\ UNCHANGED <<row, aged, expired, usage, jobs, deleted, tunnel, proc>>
  <2>1. exec[j].armed # "none" /\ exec \in [Jobs -> Exec \cup {NoExec}]
        /\ UNCHANGED <<row, aged, expired, usage, jobs, deleted, tunnel, proc>>
    BY DEF ExecMutate, Inv1, TypeOK
  <2>2. exec[j] # NoExec /\ exec[j] \in Exec /\ ExecOK(exec[j])
    BY <2>1 DEF NoExec, Inv1, ExecsOK
  <2> QED BY <2>1, <2>2 DEF ExecOK, Exec
<1>2. PICK new \in Exec :
        /\ exec' = [exec EXCEPT ![j] = new] /\ new.op = exec[j].op /\ new.gen = exec[j].gen
        /\ new.epoch = exec[j].epoch /\ new.fence = exec[j].fence /\ new.src = exec[j].src
        /\ new.prevGen = exec[j].prevGen /\ new.prevFence = exec[j].prevFence
        /\ new.armed = "none"
  <2>1. CASE exec' = [exec EXCEPT ![j].armed = "none"]
    <3> DEFINE y == [exec[j] EXCEPT !.armed = "none"]
    <3>1. /\ y \in Exec /\ y.op = exec[j].op /\ y.gen = exec[j].gen
          /\ y.epoch = exec[j].epoch /\ y.fence = exec[j].fence /\ y.src = exec[j].src
          /\ y.prevGen = exec[j].prevGen /\ y.prevFence = exec[j].prevFence
          /\ y.armed = "none"
      BY <1>1 DEF Exec
    <3>2. exec' = [exec EXCEPT ![j] = y]
      BY <1>1, <2>1
    <3> QED BY <3>1, <3>2
  <2>2. ASSUME NEW st \in {"running", "failed"},
               exec' = [exec EXCEPT ![j].armed = "none", ![j].st = st,
                                    ![j].ran = @ /\ exec[j].armed # "boot"]
        PROVE  \E new \in Exec :
                 /\ exec' = [exec EXCEPT ![j] = new] /\ new.op = exec[j].op
                 /\ new.gen = exec[j].gen /\ new.epoch = exec[j].epoch
                 /\ new.fence = exec[j].fence /\ new.src = exec[j].src
                 /\ new.prevGen = exec[j].prevGen /\ new.prevFence = exec[j].prevFence
                 /\ new.armed = "none"
    <3> DEFINE y == [exec[j] EXCEPT !.armed = "none", !.st = st,
                                    !.ran = @ /\ exec[j].armed # "boot"]
    <3>1. /\ y \in Exec /\ y.op = exec[j].op /\ y.gen = exec[j].gen
          /\ y.epoch = exec[j].epoch /\ y.fence = exec[j].fence /\ y.src = exec[j].src
          /\ y.prevGen = exec[j].prevGen /\ y.prevFence = exec[j].prevFence
          /\ y.armed = "none"
      <4>1. (exec[j].ran /\ exec[j].armed # "boot") \in BOOLEAN
        OBVIOUS
      <4> QED BY <1>1, <4>1 DEF Exec
    <3>2. exec' = [exec EXCEPT ![j] = y]
      BY <1>1, <2>2
    <3> QED BY <3>1, <3>2
  <2> QED BY <2>1, <2>2 DEF ExecMutate
<1>4. WorldOK'
  <2>1. CASE Ec2(exec[j]) /\ UNCHANGED faults
    BY <1>1, <2>1, Ec2Is DEF Inv1, TypeOK, WorldOK
  <2>2. CASE Fault /\ UNCHANGED <<inst, vol>>
    BY <1>1, <2>2, FaultCounts DEF Inv1, TypeOK, WorldOK
  <2> QED BY <2>1, <2>2 DEF ExecMutate
<1>5. aged' \in BOOLEAN
  BY <1>1 DEF Inv1, TypeOK
<1> QED BY <1>1, <1>2, <1>4, <1>5, ExecKeeps

\* The host stops itself, its instance is lost, or time passes.
LEMMA TimeKeeps ==
    ASSUME Inv1,
           (\E i \in Epochs : GuestShutdown(i) \/ InstanceLost(i)) \/ Age \/ Expire
    PROVE  Inv1'
<1>1. UNCHANGED <<row, usage, exec, jobs, proc, deleted, tunnel>>
  BY DEF GuestShutdown, InstanceLost, Age, Expire, rowVars, world
<1>2. aged' \in BOOLEAN /\ expired' \in BOOLEAN
  BY DEF GuestShutdown, InstanceLost, Age, Expire, rowVars, Inv1, TypeOK
<1>3. WorldOK'
  <2>1. CASE \E i \in Epochs : GuestShutdown(i)
    <3>1. PICK i \in Epochs : GuestShutdown(i)
      BY <2>1
    <3>2. faults' \in 0..MaxFaults
      BY <3>1, FaultCounts DEF GuestShutdown
    <3> QED BY <1>1, <1>2, <3>1, <3>2 DEF GuestShutdown, Inv1, TypeOK, WorldOK
  <2>2. CASE \E i \in Epochs : InstanceLost(i)
    <3>1. PICK i \in Epochs : InstanceLost(i)
      BY <2>2
    <3>2. faults' \in 0..MaxFaults
      BY <3>1, FaultCounts DEF InstanceLost
    <3>3. inst' \in [Epochs -> [st: {"none", "running", "stopped", "gone"}, boot: 0..MaxEpoch]]
      BY <3>1 DEF InstanceLost, Inv1, TypeOK
    <3>4. vol' \in [at: 0..MaxEpoch, fence: 0..MaxEpoch]
      <4>1. vol \in [at: 0..MaxEpoch, fence: 0..MaxEpoch] /\ 0 \in 0..MaxEpoch
        BY Bounds DEF Inv1, TypeOK
      <4>2. vol' = [vol EXCEPT !.at = IF @ = i THEN 0 ELSE @]
        BY <3>1 DEF InstanceLost
      <4> QED BY <4>1, <4>2
    <3> QED BY <1>1, <1>2, <3>2, <3>3, <3>4 DEF Inv1, TypeOK, WorldOK
  <2>3. CASE Age \/ Expire
    BY <1>1, <1>2, <2>3 DEF Age, Expire, world, Inv1, TypeOK, WorldOK
  <2> QED BY <2>1, <2>2, <2>3
<1> QED BY <1>1, <1>2, <1>3, WorldMoves

-----------------------------------------------------------------------------
(* All the steps together.                                                 *)

\* The steps of an invocation that swap nothing.
Swapless(p) ==
    \/ ReceiptNothing(p) \/ GenerationFence(p) \/ ReceiptFence(p)
    \/ StartExecution(p) \/ ReRead(p) \/ LookPassed(p) \/ LostFence(p)
    \/ ReleaseFence(p) \/ softDeleteComputer(p) \/ Answer(p)
    \/ TunnelAnswer(p) \/ tunnelOutcomeUnknown(p) \/ Crash(p)

\* They leave the row alone.
LEMMA SwaplessKeeps ==
    ASSUME Inv1, NEW p \in Procs, Swapless(p)
    PROVE  Inv1' /\ row' = row
<1>1. row' = row
  BY DEF Swapless, ReceiptNothing, GenerationFence, ReceiptFence, StartExecution, ReRead,
         LookPassed, LostFence, ReleaseFence, softDeleteComputer, Answer, TunnelAnswer,
         tunnelOutcomeUnknown, Crash, rowVars
<1>2. Inv1'
  BY ReceiptNothingKeeps, GenerationFenceKeeps, ReceiptFenceKeeps, StartKeeps, ReReadKeeps,
     LookPassedKeeps, LostFenceKeeps, ReleaseFenceKeeps, SoftDeleteKeeps, AnswerKeeps,
     TunnelAnswerKeeps, CrashKeeps DEF Swapless
<1> QED BY <1>1, <1>2

\* The steps of an invocation that swap.
Swaps(p) ==
    \/ ReceiptMounted(p) \/ settleUnknownStart(p) \/ reconcileReplacementGeneration(p)
    \/ ReceiptFailed(p) \/ ReceiptDraining(p) \/ ReceiptFinal(p) \/ ReceiptBooted(p)
    \/ Started(p) \/ markLifecycleStartUnknown(p) \/ Refused(p) \/ RefusedBoot(p)
    \/ reconcileGuestStop(p) \/ recoverLostInstance(p) \/ enforceSessionLimits(p)
    \/ createAwsPlacement(p) \/ \E replace \in BOOLEAN : leasePlacement(p, replace)
    \/ startStop(p) \/ startRetire(p) \/ releaseWithoutResources(p) \/ Recovering(p)
    \/ RecoveringRetire(p) \/ consumeEnrollmentNonce(p) \/ finishEnrollment(p)

\* They take an edge of the tables.
LEMMA SwapsKeep ==
    ASSUME Inv1, NEW p \in Procs, Swaps(p)
    PROVE  Inv1' /\ EdgeOK
BY ReceiptMountedKeeps, SettleUnknownKeeps, GenerationKeeps, ReceiptFailedKeeps,
   ReceiptDrainingKeeps, ReceiptFinalKeeps, ReceiptBootedKeeps, StartedKeeps, MarkKeeps,
   RefusedKeeps, RefusedBootKeeps, StopKeeps, RecoverLostKeeps, CreateKeeps, LeaseKeeps,
   RetireKeeps, ReleaseKeeps, RecoveringKeeps, RecoveringRetireKeeps, ConsumeKeeps,
   FinishKeeps DEF Swaps

\* A step of an invocation is one of the two.
LEMMA HandleIs ==
    ASSUME NEW p \in Procs, Handle(p) \/ Crash(p)
    PROVE  Swapless(p) \/ Swaps(p)
BY DEF Handle, applyLifecycleReceipt, startLifecycleJob, Look, Act, EnrollStep, Swapless, Swaps

\* Every step keeps what the row, the jobs and the invocations agree on, and
\* takes an edge of the tables.
LEMMA NextKeeps ==
    ASSUME Inv1, [Next]_vars
    PROVE  Inv1' /\ EdgeOK
<1>1. ASSUME NEW p \in Procs, Handle(p) \/ Crash(p)
      PROVE  Inv1' /\ EdgeOK
  BY <1>1, HandleIs, SwaplessKeeps, SwapsKeep DEF EdgeOK
<1>2. ASSUME NEW p \in Procs, NEW goal \in Goal, Begin(p, goal)
      PROVE  Inv1' /\ EdgeOK
  BY <1>2, BeginKeeps DEF Begin, rowVars, EdgeOK
<1>3. ASSUME NEW p \in Hosts, NEW i \in Epochs, Enroll(p, i)
      PROVE  Inv1' /\ EdgeOK
  BY <1>3, EnrollKeeps DEF Enroll, rowVars, EdgeOK, Procs
<1>4. ASSUME NEW j \in Jobs, Workflow(j)
      PROVE  Inv1' /\ EdgeOK
  <2>1. row' = row
    BY <1>4 DEF Workflow, ExecArm, ExecMutate, ExecSucceed, ExecFail
  <2> QED BY <1>4, <2>1, HelperKeeps, MutateKeeps DEF Workflow, EdgeOK
<1>5. CASE LateStartExecution
  BY <1>5, StartKeeps DEF LateStartExecution, EdgeOK
<1>6. CASE (\E i \in Epochs : GuestShutdown(i) \/ InstanceLost(i)) \/ Age \/ Expire
  <2>1. row' = row
    BY <1>6 DEF GuestShutdown, InstanceLost, Age, Expire, rowVars
  <2> QED BY <1>6, <2>1, TimeKeeps DEF EdgeOK
<1>7. CASE UNCHANGED vars
  BY <1>7, WorldMoves, WorldStays DEF vars, Inv1, TypeOK, EdgeOK, world
<1>8. CASE Next
  <2>1. CASE \E p \in Users, goal \in {"open", "stop", "delete"} : Begin(p, goal)
    BY <1>2, <2>1 DEF Procs, Goal
  <2>2. CASE \E p \in Crons, goal \in {"fleet", "deleted"} : Begin(p, goal)
    BY <1>2, <2>2 DEF Procs, Goal
  <2> QED BY <1>1, <1>3, <1>4, <1>5, <1>6, <1>8, <2>1, <2>2 DEF Next
<1> QED BY <1>7, <1>8

\* A computer starts as one of the born rows, with nothing asked of it.
LEMMA InitHolds == Init => Inv1
<1> SUFFICES ASSUME Init PROVE Inv1
  OBVIOUS
<1>1. PICK state \in Born :
        LET here == IF state = "NONE" THEN 0 ELSE 1
            up == state = "RUNNING"
        IN /\ row = BornRow(state)
           /\ deleted = FALSE /\ aged = FALSE /\ expired = FALSE
           /\ usage = IF up THEN {1} ELSE {}
           /\ jobs = (IF state = "NONE" THEN MaxJob - BootJobs ELSE 0)
           /\ faults = 0
           /\ exec = [j \in Jobs |-> NoExec]
           /\ inst = [i \in Epochs |->
                        IF i # here THEN [st |-> "none", boot |-> 0]
                        ELSE [st |-> IF up THEN "running" ELSE "stopped", boot |-> 1]]
           /\ vol = [at |-> here, fence |-> here]
           /\ tunnel = [rec |-> IF up THEN 1 ELSE 0, fence |-> IF up THEN 0 ELSE here]
           /\ proc = [p \in Procs |-> Idle]
  BY DEF Init
<1>2. state \in {"NONE", "STOPPED", "RUNNING"}
  BY ConfigAssumption
<1>3. /\ 0 \in 0..MaxEpoch /\ 1 \in 0..MaxEpoch /\ 1 \in Epochs /\ 0 \in 0..MaxJob
      /\ MaxJob - BootJobs \in 0..MaxJob /\ 0 \in 0..MaxFaults
      /\ "enroll_succeeded" \in LastError /\ "none" \in LastError
  BY Bounds, BoundsAssumption DEF Epochs, LastError
<1>4. NoRow \in Row /\ NoRow.job = 0
  BY Bounds DEF NoRow
<1>5. row \in Row /\ RowOK(row)
  <2>1. CASE state = "RUNNING"
    <3>1. row = [NoRow EXCEPT !.state = "RUNNING", !.gen = 1, !.epoch = 1, !.inst = 1,
                              !.vol = TRUE, !.fence = 1, !.nonce = "used",
                              !.err = "enroll_succeeded"]
      BY <1>1, <2>1 DEF BornRow
    <3>2. /\ row \in Row /\ row.state = "RUNNING" /\ row.gen = 1 /\ row.epoch = 1
          /\ row.fence = 1 /\ row.inst = 1
      BY <1>3, <1>4, <3>1 DEF Row, PlacementState
    <3> QED BY <3>2 DEF RowOK
  <2>2. CASE state = "STOPPED"
    <3>1. row = [NoRow EXCEPT !.state = "STOPPED", !.gen = 1, !.epoch = 1, !.inst = 1,
                              !.vol = TRUE, !.fence = 1]
      BY <1>1, <2>2 DEF BornRow
    <3>2. /\ row \in Row /\ row.state = "STOPPED" /\ row.gen = 1 /\ row.epoch = 1
          /\ row.fence = 1 /\ row.inst = 1
      BY <1>3, <1>4, <3>1 DEF Row, PlacementState
    <3> QED BY <3>2 DEF RowOK
  <2>3. CASE state = "NONE"
    BY <1>1, <2>3, Bounds DEF BornRow
  <2> QED BY <1>2, <2>1, <2>2, <2>3
<1>6. Idle \in Proc /\ Idle.snap = NoRow /\ Idle.pc = "idle"
  BY <1>3, <1>4 DEF Idle, Proc, Pc, Goal, Kind
<1>7. TypeOK
  <2>1. /\ deleted \in BOOLEAN /\ aged \in BOOLEAN /\ expired \in BOOLEAN
        /\ usage \subseteq Epochs /\ jobs \in 0..MaxJob /\ faults \in 0..MaxFaults
        /\ exec \in [Jobs -> Exec \cup {NoExec}] /\ proc \in [Procs -> Proc]
    BY <1>1, <1>2, <1>3, <1>6
  <2>2. /\ vol \in [at: 0..MaxEpoch, fence: 0..MaxEpoch]
        /\ tunnel \in [rec: 0..MaxEpoch, fence: 0..MaxEpoch]
    BY <1>1, <1>3
  <2>3. inst \in [Epochs -> [st: {"none", "running", "stopped", "gone"}, boot: 0..MaxEpoch]]
    BY <1>1, <1>3
  <2> QED BY <1>5, <2>1, <2>2, <2>3 DEF TypeOK
<1>8. ExecsOK
  BY <1>1 DEF ExecsOK, ExecOK
<1>9. ProcsOK
  BY <1>1, <1>6, Bounds, ResetReadsNothing DEF ProcsOK, Resets
<1> QED BY <1>5, <1>7, <1>8, <1>9 DEF Inv1

\* In every reachable state the row, the recorded jobs and what every invocation
\* read before its next swap agree as Inv1 says.
THEOREM PlacementInductive == Spec => []Inv1
<1>1. Inv1 /\ [Next]_vars => Inv1'
  BY NextKeeps
<1> QED BY <1>1, InitHolds, PTL DEF Spec

\* The row, the executions and the invocations hold only the values the code
\* writes there, whatever interleaves, fails or dies.
THEOREM PlacementTypes == Spec => []TypeOK
<1>1. Inv1 => TypeOK
  BY DEF Inv1
<1> QED BY <1>1, PlacementInductive, PTL

\* No handler asks for an edge the tables refuse, however old what it read is:
\* the undo state a job carries is always one its state may go to.
THEOREM EdgesLegal == Spec => EdgesAreLegal
<1>1. Inv1 /\ [Next]_vars => [row'.state # row.state =>
        \/ row.state = "NONE" /\ row'.state = "PROVISIONING"
        \/ row'.state \in PLACEMENT_TRANSITIONS[row.state]
        \/ row'.state \in RECONCILER_TRANSITIONS[row.state]
        \/ /\ row.state \in {"STOPPED", "UNCONFIRMED"}
           /\ row'.state = "LEASED" /\ row'.epoch > row.epoch
        \/ /\ row'.state = "STOPPED"
           /\ \E p \in Procs : proc[p].pc = "gencas" /\ proc'[p].pc # "gencas"]_vars
  BY NextKeeps DEF EdgeOK
<1> QED BY <1>1, PlacementInductive, PTL DEF Spec, EdgesAreLegal
=============================================================================
