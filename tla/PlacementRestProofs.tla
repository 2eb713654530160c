------------------------- MODULE PlacementRestProofs -------------------------
(***************************************************************************)
(* What the jobs of one computer do to its instances: a row at rest has    *)
(* nothing running, two instances never run together, and no launch or     *)
(* boot of an earlier lease is still to come when a lease is taken.        *)
(***************************************************************************)
EXTENDS PlacementProofs

BootOps == {"provision", "start", "replace"}
EndOps == {"stop", "retire"}
\* The states of a row whose boot's job is not settled.
Booting == {"PROVISIONING", "LEASED", "STARTING"}

Alive(i) == inst[i].st \in {"running", "stopped"}
NoneRuns == \A i \in Epochs : inst[i].st # "running"
\* Until its next lease nothing of the computer runs again.
Down == row.state \notin Booting \cup {"NONE"} /\ NoneRuns

\* The job j is the boot of the row's lease.
BootOf(j) == exec[j].op \in BootOps /\ exec[j].epoch = row.epoch

\* Within a lease a generation keeps its fence token, and only goes back.
GenStays(s, r) == (s.gen = r.gen /\ s.fence = r.fence) \/ r.gen < s.gen

\* The job a row or a read of it names is of its lease, and of its state.
JobFits(s, x) ==
    LET w == x[s.job] IN
    /\ s.job # 0 =>
         /\ w.op # "none" /\ w.epoch = s.epoch /\ w.gen = s.gen /\ w.fence = s.fence
         /\ w.op \in EndOps \cup {"start"} => s.inst = w.src
         /\ w.op \in BootOps => s.inst \in {0, ResultInstance(w)}
         /\ s.state = "PROVISIONING" => w.op = "provision"
         /\ s.state \in {"LEASED", "STARTING"} => w.op \in {"start", "replace"}
         /\ s.state \in Stopping => w.op = "stop"
         /\ s.state = "RETIRING" => w.op = "retire"
    /\ s.state \in Booting => s.job # 0
    /\ s.state = "MOUNTING" => s.job = 0
    /\ s.inst <= s.epoch

\* The boot of job j is over: its execution has no call left to ask for.
Over(j) ==
    LET x == exec[j] IN
    IF x.op = "start" THEN inst[x.src].boot = x.epoch
    ELSE /\ x.armed = "none" /\ inst[x.epoch].st # "none" /\ vol.fence = x.fence
         /\ inst[x.epoch].st = "running" => vol.at = x.epoch

\* A boot job has calls to be performed only while the row waits for it.
BootInv(j) ==
    LET x == exec[j] IN
    /\ x.armed # "none" => row.job = j /\ row.epoch = x.epoch /\ row.state \in Booting
    /\ \A i \in Epochs : inst[i].boot = x.epoch => i = ResultInstance(x)
    /\ x.epoch = row.epoch /\ row.state = "MOUNTING" => x.st = "succeeded"

\* A start boots its instance once.
StartInv(j) ==
    LET x == exec[j] IN
    /\ x.armed \in {"none", "boot"} /\ (x.armed = "boot" => x.ran)
    /\ inst[x.src].boot = x.epoch => x.ran /\ x.armed = "none"
    /\ x.epoch = row.epoch => row.inst = x.src
    /\ x.st = "absent" /\ x.epoch = row.epoch => NoneRuns

\* A launch meets what it was asked for, and a replacement's source has ended.
LaunchInv(j) ==
    LET x == exec[j] IN
    /\ x.armed # "boot"
    /\ x.armed = "run" => inst[x.epoch].st = "none"
    /\ x.armed = "createVolume" => vol.fence = 0
    /\ x.armed \notin {"none", "createVolume"} => vol.fence # 0
    /\ x.armed # "none" => vol.at # x.epoch
    /\ x.st = "succeeded" =>
         inst[x.epoch].st # "none" /\ (x.epoch = row.epoch => vol.fence = x.fence)
    /\ x.op = "provision" => x.src = 0
    /\ x.op = "replace" =>
         /\ x.src < x.epoch /\ x.prevFence < x.fence /\ x.prevGen < x.gen
         /\ inst[x.epoch].st # "none" \/ x.armed = "run" => inst[x.src].st = "gone"

\* A stop or a retire ends what it says it ended.
EndInv(j) ==
    LET x == exec[j] IN
    /\ x.armed \in {"none", "stop", "terminate"}
    /\ x.epoch = row.epoch => row.state \notin Booting
    /\ x.epoch = row.epoch /\ x.st \in {"succeeded", "lost"} => Down

JobInv(j) ==
    LET x == exec[j] IN
    x.op # "none" =>
        /\ row.state # "NONE" /\ x.epoch <= row.epoch /\ x.src <= x.epoch
        /\ x.src # 0 => inst[x.src].st # "none"
        /\ x.op \in BootOps => BootInv(j)
        /\ x.op = "start" => StartInv(j)
        /\ x.op \in {"provision", "replace"} => LaunchInv(j)
        /\ x.op \in EndOps => EndInv(j)

\* A lease has one boot.
OneBoot ==
    \A j, k \in Jobs :
        exec[j].op \in BootOps /\ exec[k].op \in BootOps /\ exec[j].epoch = exec[k].epoch
        => j = k
JobsInv == (\A j \in Jobs : JobInv(j)) /\ OneBoot

\* What can be alive is the row's instance, or while none is known to it the
\* source or the target of its boot.
AliveInv(i) ==
    IF row.inst # 0 THEN i = row.inst
    ELSE \E j \in Jobs : BootOf(j) /\ i \in {exec[j].src, exec[j].epoch}
InstInv(i) ==
    /\ inst[i].st # "none" => i <= row.epoch
    /\ inst[i].boot <= row.epoch
    /\ Alive(i) => AliveInv(i)
RowInv ==
    /\ JobFits(row, exec)
    /\ row.state = "NONE" => row = NoRow
    /\ \A i \in Epochs : InstInv(i)
    /\ row.inst # 0 => inst[row.inst].st # "none"
    /\ row.job # 0 /\ exec[row.job].op = "replace" /\ row.inst # 0 =>
         vol.fence = exec[row.job].fence
    /\ vol.fence = 0 => vol.at = 0 /\ \A i \in Epochs : inst[i].st = "none"
    /\ row.state \in AtRest => Down
    /\ row.err = "unknown:STOPPED" =>
         /\ row.state \in Stopping \cup {"RETIRING"} => Down
         /\ row.state \in Booting => exec[row.job].op = "start"

\* What was read as s still says of the row while its lease is the row's.
Same(s) == s.state # "NONE" /\ s.epoch = row.epoch
SnapInv(s) ==
    /\ JobFits(s, exec)
    /\ s.state # "NONE" => row.state # "NONE" /\ s.epoch <= row.epoch
    /\ Same(s) => GenStays(s, row)
    /\ Same(s) /\ s.inst # 0 => row.inst = s.inst
    /\ Same(s) /\ s.state \notin Booting => row.state \notin Booting

\* An invocation that recorded a boot and may still take it back: nobody else
\* starts it.
Starter(v) ==
    \/ v.pc = "start" /\ v.kind = "boot"
    \/ v.pc \in {"refused", "undo"}
    \/ v.pc = "gencas" /\ v.undo # "NONE"
StarterInv(v) ==
    LET x == exec[v.snap.job] IN
    Starter(v) =>
        /\ v.snap.job # 0 /\ x.op \in BootOps /\ (v.undo = "STOPPED" => x.op = "start")
        /\ row.job = v.snap.job => row.err \notin StartUnknown
        /\ v.pc # "start" => x.st = "absent"

\* What the evidence of a replacement that did not happen goes on saying.
NotReplaced(j) ==
    LET x == exec[j] IN
    /\ inst[x.src].st # "running" /\ inst[x.epoch].st \in {"none", "gone"}
    /\ inst[x.src].st = "stopped" => vol.fence = x.prevFence
    /\ vol.fence # x.prevFence => inst[x.epoch].st = "gone"
GenerationInv(v) ==
    LET x == exec[v.snap.job] IN
    v.pc = "gencas" =>
        /\ v.undo = "NONE" => x.st = "failed"
        /\ Same(v.snap) => NotReplaced(v.snap.job)

\* An enrollment's host is up, so its boot is over.
EnrollInv(v) ==
    v.pc \in {"consume", "tunnel", "finish"} =>
        /\ v.snap.state # "NONE"
        /\ Same(v.snap) =>
             /\ \A j \in Jobs : BootOf(j) => Over(j)
             /\ v.pc = "consume" /\ row.inst = 0 =>
                  v.host = row.epoch /\ v.host # 0 /\ inst[v.host].st # "none"

DownInv(v) ==
    /\ v.pc = "lost" => v.snap.inst # 0 /\ inst[v.snap.inst].st = "gone"
    /\ v.pc = "release" /\ Same(v.snap) => Down
    /\ v.pc = "start" /\ v.kind \in {"uretire", "rretire"} /\ v.undo = "STOPPED" /\ Same(v.snap)
       => Down

ProcInv(v) ==
    SnapInv(v.snap) /\ StarterInv(v) /\ GenerationInv(v) /\ EnrollInv(v) /\ DownInv(v)
OneStarter ==
    \A p, q \in Procs :
        p # q /\ Starter(proc[p]) /\ Starter(proc[q]) => proc[p].snap.job # proc[q].snap.job
ProcsInv == (\A p \in Procs : ProcInv(proc[p])) /\ OneStarter

Inv2 == Inv1 /\ JobsInv /\ RowInv /\ ProcsInv

-----------------------------------------------------------------------------
(* What a step may change under an invocation that does not take it.       *)

\* Within its lease the row keeps its instance, leaves the boot for good, and
\* what has ended stays ended.
Within ==
    /\ GenStays(row, row')
    /\ row.inst # 0 => row'.inst = row.inst
    /\ row.state \notin Booting => row'.state \notin Booting
    /\ Down => Down'
    /\ \A j \in Jobs :
          /\ BootOf(j)' => BootOf(j)
          /\ BootOf(j) /\ Over(j) => Over(j)'
          /\ exec[j].op = "replace" /\ exec[j].st \in {"absent", "failed"} /\ BootOf(j) =>
               (NotReplaced(j) => NotReplaced(j)')
Evolves ==
    /\ JobsGrow(exec, exec')
    /\ row.state # "NONE" => row'.state # "NONE" /\ row.epoch <= row'.epoch
    /\ \A i \in Epochs : /\ inst[i].st = "gone" => inst'[i].st = "gone"
                         /\ inst[i].st # "none" => inst'[i].st # "none"
    /\ row.state # "NONE" /\ row'.epoch = row.epoch => Within

\* Nobody else starts what the invocation v may take back, or marks it.
StarterStays(v) ==
    Starter(v) =>
        /\ v.pc # "start" => exec'[v.snap.job].st = exec[v.snap.job].st
        /\ row'.job = v.snap.job =>
             row.job = v.snap.job /\ (row'.err = row.err \/ row'.err \notin StartUnknown)

\* The types of a row that was read and of the job it names.
LEMMA SnapIs ==
    ASSUME Inv1, NEW s \in Row
    PROVE  /\ s.job # 0 => s.job \in Jobs /\ exec[s.job] \in Exec \cup {NoExec}
           /\ s.inst # 0 => s.inst \in Epochs
           /\ s.epoch \in Nat /\ s.inst \in Nat /\ s.epoch \in 0..MaxEpoch
<1>1. MaxEpoch \in Nat /\ MaxJob \in Nat
  BY Bounds
<1>2. s.job \in 0..MaxJob /\ s.inst \in 0..MaxEpoch /\ s.epoch \in 0..MaxEpoch
  BY DEF Row
<1>3. exec \in [Jobs -> Exec \cup {NoExec}]
  BY DEF Inv1, TypeOK
<1>4. s.job # 0 => s.job \in Jobs
  BY <1>1, <1>2 DEF Jobs
<1> QED BY <1>1, <1>2, <1>3, <1>4 DEF Epochs

\* The types of a job.
LEMMA ExecIs ==
    ASSUME Inv1, NEW j \in Jobs, exec[j].op # "none"
    PROVE  /\ exec[j] \in Exec /\ exec[j].epoch \in Epochs /\ exec[j].src \in 0..MaxEpoch
           /\ exec[j].fence \in Epochs /\ exec[j].prevFence \in 0..MaxEpoch
           /\ exec[j].op # "provision" => exec[j].src \in Epochs
           /\ exec[j].armed # "none" => exec[j].st = "running"
           /\ exec[j].op \in BootOps \cup EndOps
<1>1. exec[j] # NoExec
  BY DEF NoExec
<1>2. ExecOK(exec[j])
  BY DEF Inv1, ExecsOK
<1>3. exec[j] \in Exec
  BY <1>1, <1>2 DEF ExecOK
<1>4. MaxEpoch \in Nat
  BY Bounds
<1> QED BY <1>1, <1>2, <1>3, <1>4 DEF ExecOK, Exec, Epochs, Operation, BootOps, EndOps

\* What a read says of the row it goes on saying.
LEMMA SnapEvolves ==
    ASSUME Inv1, Inv1', Evolves, NEW s \in Row, SnapInv(s)
    PROVE  SnapInv(s)' /\ (Same(s)' => Same(s) /\ Within)
<1>1. s.job # 0 => s.job \in Jobs
  BY SnapIs
<1>2. s.epoch \in Nat /\ row.epoch \in Nat /\ row'.epoch \in Nat
  BY Bounds DEF Inv1, TypeOK, Row
<1>3. JobFits(s, exec')
  BY <1>1 DEF SnapInv, JobFits, Evolves, JobsGrow, ResultInstance, BootOps, EndOps
<1>4. s.state # "NONE" => row'.state # "NONE" /\ s.epoch <= row'.epoch
  BY <1>2 DEF SnapInv, Evolves
<1>5. ASSUME s.state # "NONE" /\ s.epoch = row'.epoch
      PROVE  /\ Same(s) /\ Within
             /\ s.inst # 0 => row'.inst = s.inst
             /\ s.state \notin Booting => row'.state \notin Booting
             /\ GenStays(s, row')
  <2>1. row.state # "NONE" /\ s.epoch = row.epoch /\ row'.epoch = row.epoch
    BY <1>2, <1>5 DEF SnapInv, Evolves
  <2>2. Within /\ Same(s)
    BY <1>5, <2>1 DEF Evolves, Same
  <2>3. GenStays(s, row')
    <3>1. s.gen \in Nat /\ row.gen \in Nat /\ row'.gen \in Nat
      BY Bounds DEF Inv1, TypeOK, Row
    <3>2. GenStays(s, row) /\ GenStays(row, row')
      BY <2>2 DEF SnapInv, Within
    <3> QED BY <3>1, <3>2 DEF GenStays
  <2> QED BY <2>2, <2>3 DEF SnapInv, Within
<1> QED BY <1>3, <1>4, <1>5 DEF SnapInv, Same

\* What an invocation that takes no step has read stays true of the row, of its
\* job and of the instances.
LEMMA ReadEvolves ==
    ASSUME Inv1, Inv1', Evolves, NEW v \in Proc, v.snap \in Row,
           SnapOK(v.pc, v.snap, v.kind, v.undo, exec), ProcInv(v), StarterStays(v)
    PROVE  ProcInv(v)'
<1> DEFINE s == v.snap
<1>1. SnapInv(s)' /\ (Same(s)' => Same(s) /\ Within)
  BY SnapEvolves DEF ProcInv
<1>2. s.job # 0 => s.job \in Jobs
  BY SnapIs
<1>3. StarterInv(v)'
  <2>1. ASSUME Starter(v)
        PROVE  /\ s.job # 0 /\ exec'[s.job].op \in BootOps
               /\ (v.undo = "STOPPED" => exec'[s.job].op = "start")
               /\ row'.job = s.job => row'.err \notin StartUnknown
               /\ v.pc # "start" => exec'[s.job].st = "absent"
    <3>1. /\ s.job # 0 /\ exec[s.job].op \in BootOps
          /\ (v.undo = "STOPPED" => exec[s.job].op = "start")
          /\ row.job = s.job => row.err \notin StartUnknown
          /\ v.pc # "start" => exec[s.job].st = "absent"
      BY <2>1 DEF ProcInv, StarterInv
    <3>2. exec'[s.job].op = exec[s.job].op
      BY <1>2, <3>1 DEF Evolves, JobsGrow, BootOps
    <3>3. /\ row'.job = s.job =>
               row.job = s.job /\ (row'.err = row.err \/ row'.err \notin StartUnknown)
          /\ v.pc # "start" => exec'[s.job].st = exec[s.job].st
      BY <2>1 DEF StarterStays
    <3> QED BY <3>1, <3>2, <3>3
  <2> QED BY <2>1 DEF StarterInv, Starter
<1>4. GenerationInv(v)'
  <2>1. ASSUME v.pc = "gencas"
        PROVE  /\ v.undo = "NONE" => exec'[s.job].st = "failed"
               /\ Same(s)' => NotReplaced(s.job)'
    <3>1. /\ s.job \in Jobs /\ s.state # "NONE"
          /\ exec[s.job].op = "replace" /\ exec[s.job].epoch = s.epoch
      BY <1>2, <2>1 DEF SnapOK
    <3>2. /\ v.undo = "NONE" => exec[s.job].st = "failed"
          /\ v.undo # "NONE" => exec[s.job].st = "absent"
          /\ Same(s) => NotReplaced(s.job)
      BY <2>1 DEF ProcInv, GenerationInv, StarterInv, Starter
    <3>3. v.undo = "NONE" => exec'[s.job].st = "failed"
      BY <3>1, <3>2 DEF Evolves, JobsGrow
    <3>4. ASSUME Same(s)'
          PROVE  NotReplaced(s.job)'
      <4>1. Same(s) /\ Within
        BY <1>1, <3>4
      <4>2. /\ BootOf(s.job) /\ exec[s.job].op = "replace"
            /\ exec[s.job].st \in {"absent", "failed"} /\ NotReplaced(s.job)
        BY <3>1, <3>2, <4>1 DEF BootOf, BootOps, Same
      <4> QED BY <3>1, <4>1, <4>2 DEF Within
    <3> QED BY <3>3, <3>4
  <2> QED BY <2>1 DEF GenerationInv
<1>5. EnrollInv(v)'
  <2>1. ASSUME v.pc \in {"consume", "tunnel", "finish"}, Same(s)'
        PROVE  /\ \A j \in Jobs : BootOf(j)' => Over(j)'
               /\ v.pc = "consume" /\ row'.inst = 0 =>
                    v.host = row'.epoch /\ v.host # 0 /\ inst'[v.host].st # "none"
    <3>1. Same(s) /\ Within
      BY <1>1, <2>1
    <3>2. /\ \A j \in Jobs : BootOf(j) => Over(j)
          /\ v.pc = "consume" /\ row.inst = 0 =>
               v.host = row.epoch /\ v.host # 0 /\ inst[v.host].st # "none"
      BY <2>1, <3>1 DEF ProcInv, EnrollInv
    <3>3. row'.epoch = row.epoch
      BY <2>1, <3>1 DEF Same
    <3>4. ASSUME NEW j \in Jobs, BootOf(j)'
          PROVE  Over(j)'
      BY <3>1, <3>2, <3>4 DEF Within
    <3>5. ASSUME v.pc = "consume", row'.inst = 0
          PROVE  v.host = row'.epoch /\ v.host # 0 /\ inst'[v.host].st # "none"
      <4>1. row.inst = 0
        BY <3>1, <3>5 DEF Within
      <4>2. v.host \in Epochs
        BY <3>2, <3>5, <4>1, SnapIs, Bounds DEF Proc, Epochs
      <4> QED BY <3>2, <3>3, <3>5, <4>1, <4>2 DEF Evolves
    <3> QED BY <3>4, <3>5
  <2>2. v.pc \in {"consume", "tunnel", "finish"} => s.state # "NONE"
    BY DEF ProcInv, EnrollInv
  <2> QED BY <2>1, <2>2 DEF EnrollInv
<1>6. DownInv(v)'
  <2>1. v.pc = "lost" => s.inst # 0 /\ inst'[s.inst].st = "gone"
    BY SnapIs DEF ProcInv, DownInv, Evolves
  <2>2. Same(s)' /\ (Same(s) => Down) => Down'
    BY <1>1 DEF Within
  <2> QED BY <1>1, <2>1, <2>2 DEF ProcInv, DownInv
<1> QED BY <1>1, <1>3, <1>4, <1>5, <1>6 DEF ProcInv

\* What is so of the state an invocation is in is so of the invocation.
LEMMA OfProc ==
    ASSUME NEW q, NEW v, proc'[q] = v, ProcInv(v)'
    PROVE  ProcInv(proc[q])'
BY DEF ProcInv, SnapInv, StarterInv, Starter, GenerationInv, NotReplaced, EnrollInv, DownInv, Same

\* What is so of an invocation stays so through the steps of others.
LEMMA StaysPut ==
    ASSUME Inv2, Inv1', Evolves, NEW q \in Procs, proc'[q] = proc[q], StarterStays(proc[q])
    PROVE  ProcInv(proc[q])'
<1> PICK w : w = proc[q]
  OBVIOUS
<1>1. /\ w \in Proc /\ w.snap \in Row
      /\ SnapOK(w.pc, w.snap, w.kind, w.undo, exec)
  BY DEF Inv2, Inv1, TypeOK, ProcsOK, RowOK
<1>2. ProcInv(w) /\ StarterStays(w) /\ proc'[q] = w
  BY DEF Inv2, ProcsInv
<1>3. ProcInv(w)'
  BY <1>1, <1>2, ReadEvolves DEF Inv2
<1> QED BY <1>2, <1>3, OfProc

\* A step of p is nothing to the others, so it rests on what p goes on with.
LEMMA Gather ==
    ASSUME Inv2, Inv1', Evolves, JobsInv', RowInv', NEW p, NEW v,
           \A q \in Procs : q # p => proc'[q] = proc[q] /\ StarterStays(proc[q]),
           p \in Procs => proc'[p] = v /\ ProcInv(v)',
           p \in Procs /\ Starter(v) => Starter(proc[p]) /\ v.snap.job = proc[p].snap.job
    PROVE  Inv2'
<1>1. ASSUME NEW q \in Procs
      PROVE  ProcInv(proc[q])'
  <2>1. CASE q = p
    BY <2>1, OfProc
  <2>2. CASE q # p
    BY <2>2, StaysPut
  <2> QED BY <2>1, <2>2
<1>2. OneStarter'
  <2>1. OneStarter
    BY DEF Inv2, ProcsInv
  <2>2. \A q \in Procs : Starter(proc'[q]) =>
           Starter(proc[q]) /\ proc'[q].snap.job = proc[q].snap.job
    OBVIOUS
  <2> QED BY <2>1, <2>2 DEF OneStarter, Starter
<1> QED BY <1>1, <1>2 DEF Inv2, ProcsInv

-----------------------------------------------------------------------------
(* One swap.                                                               *)

\* A row written in the place of the row, with the jobs and the instances as
\* they are, says no more than they do.
SwapOK(r) ==
    /\ row.state # "NONE" /\ r.state # "NONE" /\ r.epoch = row.epoch
    /\ GenStays(row, r) /\ r.job \in {0, row.job} /\ JobFits(r, exec)
    /\ r.state \in Booting => row.state \in Booting /\ r.job = row.job
    /\ r.state \notin Booting => \A j \in Jobs : BootOf(j) => exec[j].armed = "none"
    /\ r.state = "MOUNTING" =>
         row.state = "MOUNTING" \/ \A j \in Jobs : BootOf(j) => exec[j].st = "succeeded"
    /\ r.inst # row.inst =>
         /\ row.inst = 0 /\ r.inst \in Epochs /\ inst[r.inst].st # "none"
         /\ \A i \in Epochs : Alive(i) => i = r.inst
    /\ r.job # 0 /\ exec[r.job].op = "replace" /\ r.inst # 0 => vol.fence = exec[r.job].fence
    /\ r.state \in AtRest => NoneRuns
    /\ r.err = "unknown:STOPPED" =>
         /\ r.state \in Stopping \cup {"RETIRING"} => NoneRuns
         /\ r.state \in Booting => exec[r.job].op = "start"

\* What ended stays so under a swap that stays out of the boot.
LEMMA SwapEvolves ==
    ASSUME Inv2, NEW r \in Row, row' = r, exec' = exec, inst' = inst, vol' = vol, SwapOK(r)
    PROVE  Evolves
<1>1. JobsGrow(exec, exec')
  BY SameJobsGrow
<1>2. row.epoch \in Nat
  BY Bounds DEF Inv2, Inv1, TypeOK, Row
<1>3. row'.state # "NONE" /\ row'.epoch = row.epoch
  BY DEF SwapOK
<1>4. Within
  <2>1. row.inst # 0 => row'.inst = row.inst
    BY DEF SwapOK
  <2>2. row.state \notin Booting => row'.state \notin Booting
    BY DEF SwapOK
  <2>3. Down => Down'
    BY <1>3, <2>2 DEF Down, NoneRuns
  <2>4. ASSUME NEW j \in Jobs
        PROVE  /\ BootOf(j)' = BootOf(j) /\ Over(j)' = Over(j)
               /\ NotReplaced(j)' = NotReplaced(j)
    BY <1>3 DEF BootOf, Over, NotReplaced
  <2> QED BY <2>1, <2>2, <2>3, <2>4 DEF Within, SwapOK
<1> QED BY <1>1, <1>2, <1>3, <1>4 DEF Evolves

\* The jobs say of the new row what they said of the old.
LEMMA SwapJobs ==
    ASSUME Inv2, NEW r \in Row, row' = r, exec' = exec, inst' = inst, vol' = vol, SwapOK(r)
    PROVE  JobsInv'
<1>1. r.epoch = row.epoch /\ r.state # "NONE" /\ row.state # "NONE"
  BY DEF SwapOK
<1>2. ASSUME NEW j \in Jobs, exec[j].op # "none"
      PROVE  /\ exec[j].op \in BootOps => BootInv(j)'
             /\ exec[j].op = "start" => StartInv(j)'
             /\ exec[j].op \in {"provision", "replace"} => LaunchInv(j)'
             /\ exec[j].op \in EndOps => EndInv(j)'
  <2>1. JobInv(j)
    BY DEF Inv2, JobsInv
  <2>2. exec[j].op \in BootOps => BootInv(j)'
    <3> HAVE exec[j].op \in BootOps
    <3>1. BootInv(j)
      BY <1>2, <2>1 DEF JobInv
    <3>2. exec[j].armed # "none" => row'.job = j /\ row'.epoch = exec[j].epoch /\ row'.state \in Booting
      BY <1>1, <3>1 DEF BootInv, SwapOK, BootOf
    <3>3. exec[j].epoch = row'.epoch /\ row'.state = "MOUNTING" => exec[j].st = "succeeded"
      BY <1>1, <3>1 DEF BootInv, SwapOK, BootOf
    <3> QED BY <3>1, <3>2, <3>3 DEF BootInv
  <2>3. exec[j].op = "start" => StartInv(j)'
    <3> HAVE exec[j].op = "start"
    <3>1. StartInv(j)
      BY <1>2, <2>1 DEF JobInv
    <3>2. exec[j].src # 0
      BY <1>2, ExecIs, Bounds DEF Inv2, Epochs
    <3>3. exec[j].epoch = row.epoch => row'.inst = row.inst
      BY <3>1, <3>2 DEF StartInv, SwapOK
    <3> QED BY <1>1, <3>1, <3>3 DEF StartInv, NoneRuns
  <2>4. exec[j].op \in {"provision", "replace"} => LaunchInv(j)'
    BY <1>1, <1>2, <2>1 DEF JobInv, LaunchInv
  <2>5. exec[j].op \in EndOps => EndInv(j)'
    <3> HAVE exec[j].op \in EndOps
    <3>1. EndInv(j)
      BY <1>2, <2>1 DEF JobInv
    <3> QED BY <1>1, <3>1 DEF EndInv, Down, NoneRuns, SwapOK
  <2> QED BY <2>2, <2>3, <2>4, <2>5
<1>3. ASSUME NEW j \in Jobs
      PROVE  JobInv(j)'
  BY <1>1, <1>2 DEF JobInv, Inv2, JobsInv
<1> QED BY <1>3 DEF JobsInv, OneBoot, Inv2

\* The new row says of the instances what is so.
LEMMA SwapRow ==
    ASSUME Inv2, NEW r \in Row, row' = r, exec' = exec, inst' = inst, vol' = vol, SwapOK(r)
    PROVE  RowInv'
<1>1. r.epoch = row.epoch /\ r.state # "NONE" /\ row.state # "NONE" /\ RowInv
  BY DEF SwapOK, Inv2
<1>2. JobFits(row', exec')
  BY DEF SwapOK
<1>3. ASSUME NEW i \in Epochs
      PROVE  InstInv(i)'
  <2>1. InstInv(i)
    BY <1>1 DEF RowInv
  <2>2. ASSUME Alive(i)
        PROVE  IF row'.inst # 0 THEN i = row'.inst
               ELSE \E j \in Jobs : BootOf(j)' /\ i \in {exec'[j].src, exec'[j].epoch}
    <3>1. CASE r.inst # row.inst
      BY <2>2, <3>1, Bounds DEF SwapOK, Epochs
    <3>2. CASE r.inst = row.inst
      BY <1>1, <2>1, <2>2, <3>2 DEF InstInv, AliveInv, BootOf
    <3> QED BY <3>1, <3>2
  <2> QED BY <1>1, <2>1, <2>2 DEF InstInv, AliveInv, Alive
<1>4. row'.inst # 0 => inst'[row'.inst].st # "none"
  BY <1>1 DEF RowInv, SwapOK
<1>5. row'.state \in AtRest => Down'
  BY <1>1 DEF SwapOK, Down, NoneRuns, AtRest, Booting
<1>6. row'.err = "unknown:STOPPED" =>
         /\ row'.state \in Stopping \cup {"RETIRING"} => Down'
         /\ row'.state \in Booting => exec'[row'.job].op = "start"
  BY <1>1 DEF SwapOK, Down, NoneRuns, Stopping, Booting
<1>7. row'.job # 0 /\ exec'[row'.job].op = "replace" /\ row'.inst # 0 =>
         vol'.fence = exec'[row'.job].fence
  BY DEF SwapOK
<1> QED BY <1>1, <1>2, <1>3, <1>4, <1>5, <1>6, <1>7 DEF RowInv

-----------------------------------------------------------------------------
(* The invocation that takes the step.                                     *)

\* Where an invocation has read the row and taken nothing on itself.
Readings == {"receipt", "recover", "purge", "act", "look", "final"}
Quiet(pc, kind) == pc \in Resets \cup Readings \/ (pc = "start" /\ kind = "settle")

\* An invocation that has ended, or reads again, has nothing to be wrong about.
LEMMA ResetRests ==
    ASSUME NEW v, v.pc \in Resets, v.snap = NoRow
    PROVE  ProcInv(v)' /\ ~Starter(v)
<1>1. /\ NoRow.state = "NONE" /\ NoRow.job = 0 /\ NoRow.inst = 0 /\ NoRow.epoch = 0
  BY DEF NoRow
<1>2. SnapInv(v.snap)'
  BY <1>1 DEF SnapInv, Same, JobFits, Booting
<1> QED BY <1>2 DEF ProcInv, StarterInv, Starter, GenerationInv, EnrollInv, DownInv, Resets

\* Who has just read the row has read what is so.
LEMMA ReadRests ==
    ASSUME Inv1', RowInv', NEW v, Quiet(v.pc, v.kind), v.pc \notin Resets, v.snap = row'
    PROVE  ProcInv(v)' /\ ~Starter(v)
<1>1. SnapInv(v.snap)'
  <2>1. row'.epoch \in Nat
    BY Bounds DEF Inv1, TypeOK, Row
  <2> QED BY <2>1 DEF SnapInv, Same, RowInv, GenStays
<1> QED BY <1>1 DEF ProcInv, StarterInv, Starter, GenerationInv, EnrollInv, DownInv, Readings,
        Quiet

\* Who goes on with what was read before goes on with what is so.
LEMMA KeptRests ==
    ASSUME Inv1, Inv1', Evolves, NEW v, Quiet(v.pc, v.kind), v.pc \notin Resets,
           v.snap \in Row, SnapInv(v.snap)
    PROVE  ProcInv(v)' /\ ~Starter(v)
<1>1. SnapInv(v.snap)'
  BY SnapEvolves
<1> QED BY <1>1 DEF ProcInv, StarterInv, Starter, GenerationInv, EnrollInv, DownInv, Readings,
        Quiet

\* An invocation goes on with what it read, or has just written.
LEMMA GoesOn ==
    ASSUME Inv2, Inv1', Evolves, JobsInv', RowInv', NEW p \in Procs, NEW pc, NEW s, NEW kind,
           Goto(p, pc, s, kind), Quiet(pc, kind), kind \in Kind,
           s = row' \/ s = proc[p].snap \/ pc \in Resets,
           \A q \in Procs : q # p => StarterStays(proc[q])
    PROVE  Inv2'
<1>1. /\ proc \in [Procs -> Proc] /\ pc \in Pc
      /\ proc[p].snap \in Row /\ row' \in Row /\ NoRow \in Row /\ SnapInv(proc[p].snap)
  BY Bounds DEF Inv2, Inv1, TypeOK, ProcsOK, RowOK, ProcsInv, ProcInv, Resets, Readings, Pc,
     Quiet
<1>2. PICK v : v = proc'[p]
  OBVIOUS
<1>3. /\ \A q \in Procs : q # p => proc'[q] = proc[q]
      /\ v.pc = pc /\ (pc \in Resets => v.snap = NoRow) /\ (pc \notin Resets => v.snap = s /\ v.kind = kind)
  <2>1. CASE s \in Row
    BY <1>1, <1>2, <2>1, GotoIs
  <2>2. CASE s \notin Row
    <3>1. pc \in Resets
      BY <1>1, <2>2
    <3>2. Goto(p, pc, NoRow, kind)
      BY <3>1 DEF Goto, Resets
    <3> QED BY <1>1, <1>2, <3>1, <3>2, GotoIs
  <2> QED BY <2>1, <2>2
<1>4. ProcInv(v)' /\ ~Starter(v)
  <2>1. CASE pc \in Resets
    BY <1>3, <2>1, ResetRests
  <2>2. CASE pc \notin Resets /\ s = row'
    BY <1>3, <2>2, ReadRests
  <2>3. CASE pc \notin Resets /\ s = proc[p].snap
    BY <1>1, <1>3, <2>3, KeptRests DEF Inv2
  <2> QED BY <2>1, <2>2, <2>3
<1>5. \A q \in Procs : q # p => proc'[q] = proc[q] /\ StarterStays(proc[q])
  BY <1>3
<1> QED BY <1>2, <1>4, <1>5, Gather

\* The row, the jobs and the instances stay as they are.
LEMMA WorldRests ==
    ASSUME Inv2, UNCHANGED <<row, exec, inst, vol>>
    PROVE  JobsInv' /\ RowInv' /\ Evolves /\ \A v : StarterStays(v)
<1>1. JobsInv'
  BY DEF Inv2, JobsInv, OneBoot, JobInv, BootInv, StartInv, LaunchInv, EndInv, Down, NoneRuns
<1>2. RowInv'
  BY DEF Inv2, RowInv, InstInv, AliveInv, Alive, BootOf, Down, NoneRuns
<1>3. Evolves
  <2>1. row.epoch \in Nat
    BY Bounds DEF Inv2, Inv1, TypeOK, Row
  <2>2. Within
    BY DEF Within, GenStays, Down, NoneRuns, BootOf, Over, NotReplaced
  <2> QED BY <2>1, <2>2, SameJobsGrow DEF Evolves
<1> QED BY <1>1, <1>2, <1>3 DEF StarterStays

\* An invocation reads again, ends, or goes on with what it read; all else
\* stays.
LEMMA MoveRests ==
    ASSUME Inv2, Inv1', NEW p \in Procs, NEW pc, NEW s, NEW kind, Goto(p, pc, s, kind),
           UNCHANGED <<row, exec, inst, vol>>, Quiet(pc, kind), kind \in Kind,
           s = row \/ s = proc[p].snap \/ pc \in Resets
    PROVE  Inv2'
<1>1. JobsInv' /\ RowInv' /\ Evolves /\ \A v : StarterStays(v)
  BY WorldRests
<1> QED BY <1>1, GoesOn

\* Nobody takes a step.
LEMMA NoneMoves ==
    ASSUME Inv2, Inv1', Evolves, JobsInv', RowInv', proc' = proc,
           \A q \in Procs : StarterStays(proc[q])
    PROVE  Inv2'
<1>1. ASSUME NEW q \in Procs
      PROVE  ProcInv(proc[q])'
  BY StaysPut
<1>2. OneStarter'
  BY DEF Inv2, ProcsInv, OneStarter, Starter
<1> QED BY <1>1, <1>2 DEF Inv2, ProcsInv

\* A swap marks no start.
Unmarked(r) == r.err = row.err \/ r.err \notin StartUnknown

\* A swap, won or lost, leaves the jobs, the row and what others read in order.
LEMMA SwapRests ==
    ASSUME Inv2, Inv1', NEW wins, NEW r, NEW effect, casInTx(wins, r, effect),
           UNCHANGED <<inst, vol>>, wins => SwapOK(r)
    PROVE  /\ JobsInv' /\ RowInv' /\ Evolves
           /\ (wins => Unmarked(r)) => \A q \in Procs : StarterStays(proc[q])
<1>1. CASE ~wins
  <2>1. UNCHANGED <<row, exec>>
    BY <1>1 DEF casInTx
  <2> QED BY <2>1, WorldRests
<1>2. CASE wins
  <2>1. row' = r /\ exec' = exec
    BY <1>2 DEF casInTx, Write
  <2>2. PICK w : w = r
    OBVIOUS
  <2>3. w \in Row /\ row' = w /\ SwapOK(w)
    BY <1>2, <2>1, <2>2 DEF Inv1, TypeOK
  <2>4. JobsInv' /\ RowInv' /\ Evolves
    BY <2>1, <2>3, SwapJobs, SwapRow, SwapEvolves
  <2>5. ASSUME Unmarked(r), NEW q \in Procs
        PROVE  StarterStays(proc[q])
    <3>1. Starter(proc[q]) => proc[q].snap.job # 0
      BY DEF Inv2, ProcsInv, ProcInv, StarterInv
    <3>2. r.job \in {0, row.job}
      BY <1>2 DEF SwapOK
    <3> QED BY <2>1, <2>5, <3>1, <3>2 DEF StarterStays, Unmarked
  <2> QED BY <1>2, <2>4, <2>5
<1> QED BY <1>1, <1>2

\* One compare-and-swap of an invocation that goes on reading or ends.
LEMMA StepRests ==
    ASSUME Inv2, Inv1', NEW p \in Procs, NEW wins, NEW r, NEW effect, NEW pc, NEW lose,
           step(p, wins, r, effect, pc, lose), UNCHANGED <<inst, vol>>,
           wins => SwapOK(r) /\ Unmarked(r),
           pc \in Resets \cup Readings, lose \in Resets \cup {"act"}
    PROVE  Inv2'
<1>1. /\ casInTx(wins, r, effect) /\ proc[p].kind \in Kind
      /\ Quiet(pc, proc[p].kind) /\ Quiet(lose, proc[p].kind)
  BY DEF step, Inv2, Inv1, TypeOK, Proc, Quiet, Readings
<1>2. /\ JobsInv' /\ RowInv' /\ Evolves
      /\ \A q \in Procs : StarterStays(proc[q])
  BY <1>1, SwapRests
<1>3. CASE wins
  <2>1. Goto(p, pc, row', proc[p].kind)
    BY <1>3 DEF step, casInTx, Write
  <2> QED BY <1>1, <1>2, <2>1, GoesOn
<1>4. CASE ~wins
  <2>1. Goto(p, lose, proc[p].snap, proc[p].kind)
    BY <1>4 DEF step
  <2> QED BY <1>1, <1>2, <2>1, GoesOn
<1> QED BY <1>3, <1>4

-----------------------------------------------------------------------------
(* What a swap that wins knows of the row.                                 *)

\* A row as the swap of one that read s found it: what s says holds of it, and
\* a boot's job is the same.
LEMMA Found ==
    ASSUME Inv2, NEW p \in Procs, NEW s, s = proc[p].snap, CasUser(s), s.state # "NONE"
    PROVE  /\ SnapInv(s) /\ Same(s) /\ JobFits(s, exec) /\ JobFits(row, exec)
           /\ row.state = s.state /\ row.epoch = s.epoch /\ row.gen = s.gen
           /\ s.inst # 0 => row.inst = s.inst
           /\ s.state \in Booting => s.job = row.job /\ s.job \in Jobs /\ BootOf(s.job)
<1>1. SnapInv(s) /\ JobFits(row, exec) /\ s \in Row /\ row \in Row
  BY DEF Inv2, ProcsInv, ProcInv, RowInv, Inv1, TypeOK, ProcsOK, RowOK
<1>2. row.state = s.state /\ row.epoch = s.epoch /\ row.gen = s.gen
  BY DEF CasUser
<1>3. s.job # 0 => s.job \in Jobs
  BY <1>1, SnapIs DEF Inv2
<1>4. row.job # 0 => row.job \in Jobs
  BY <1>1, SnapIs DEF Inv2
<1>5. ASSUME s.state \in Booting
      PROVE  s.job = row.job /\ s.job \in Jobs /\ BootOf(s.job)
  <2>1. s.job \in Jobs /\ row.job \in Jobs
    BY <1>1, <1>2, <1>3, <1>4, <1>5 DEF SnapInv, JobFits
  <2>2. BootOf(s.job) /\ BootOf(row.job)
    BY <1>1, <1>2, <1>5, <2>1, BoundsAssumption DEF SnapInv, JobFits, Booting, BootOf, BootOps, Jobs
  <2> QED BY <2>1, <2>2 DEF Inv2, JobsInv, OneBoot, BootOf
<1> QED BY <1>1, <1>2, <1>5 DEF SnapInv, Same

\* Only one job is the boot of the row's lease.
LEMMA BootIs ==
    ASSUME Inv2, NEW j \in Jobs, BootOf(j)
    PROVE  /\ BootInv(j) /\ (exec[j].op = "start" => StartInv(j))
           /\ exec[j].op \in {"provision", "replace"} => LaunchInv(j)
           /\ \A k \in Jobs : BootOf(k) => k = j
           /\ exec[j] \in Exec /\ exec[j].epoch \in Epochs
           /\ exec[j].armed # "none" => exec[j].st = "running"
<1>1. exec[j].op # "none" /\ JobInv(j)
  BY DEF BootOf, BootOps, Inv2, JobsInv
<1>2. \A k \in Jobs : BootOf(k) => k = j
  BY DEF BootOf, Inv2, JobsInv, OneBoot
<1> QED BY <1>1, <1>2, ExecIs DEF JobInv, BootOf, Inv2

\* Out of the boot no call of it is to come.
LEMMA NoneArmed ==
    ASSUME Inv2, row.state \notin Booting
    PROVE  \A j \in Jobs : BootOf(j) => exec[j].armed = "none"
BY BootIs DEF BootInv

\* A row that keeps all but its state, job, error and nonce, and is out of the
\* boot, may be written.
LEMMA Rewrites ==
    ASSUME Inv2, NEW r, row.state # "NONE",
           row.state \in Booting => \A j \in Jobs : BootOf(j) => exec[j].armed = "none",
           r.state \notin Booting \cup {"NONE", "MOUNTING"},
           r.epoch = row.epoch, r.gen = row.gen, r.fence = row.fence, r.inst = row.inst,
           \/ r.job = 0
           \/ /\ r.job = row.job
              /\ r.state \in Stopping => exec[row.job].op = "stop"
              /\ r.state = "RETIRING" => exec[row.job].op = "retire",
           r.state \in AtRest => NoneRuns,
           r.err = "unknown:STOPPED" => (r.state \in Stopping \cup {"RETIRING"} => NoneRuns)
    PROVE  SwapOK(r)
<1>1. JobFits(row, exec) /\ RowInv
  BY DEF Inv2, RowInv
<1>2. JobFits(r, exec)
  BY <1>1 DEF JobFits, Booting
<1>3. \A j \in Jobs : BootOf(j) => exec[j].armed = "none"
  BY NoneArmed
<1>4. r.job # 0 /\ exec[r.job].op = "replace" /\ r.inst # 0 => vol.fence = exec[r.job].fence
  BY <1>1 DEF RowInv
<1> QED BY <1>2, <1>3, <1>4 DEF SwapOK, GenStays

-----------------------------------------------------------------------------
(* The receipts.                                                           *)

\* A boot that ended without a call to come can be left.
LEMMA Disarmed ==
    ASSUME Inv2, NEW j \in Jobs, BootOf(j), exec[j].st # "running"
    PROVE  \A k \in Jobs : BootOf(k) => exec[k].armed = "none"
BY BootIs

\* The row of a start that never ran goes back to the undo state it carries.
LEMMA SettledSwaps ==
    ASSUME Inv2, NEW p \in Procs, NEW s, s = proc[p].snap, CasReconciler(s),
           s.err \in StartUnknown, s.state \in Waiting, s.job # 0,
           s.state \in Booting => exec[s.job].st = "absent"
    PROVE  SwapOK(settledUndo(s)) /\ Unmarked(settledUndo(s))
<1> DEFINE r == settledUndo(s)
           undo == lifecycleStartUnknownUndo(s)
<1>1. /\ s \in Row /\ row \in Row /\ s.state # "NONE" /\ CasUser(s)
  BY DEF Inv2, Inv1, TypeOK, ProcsOK, RowOK, CasReconciler, Waiting, IN_FLIGHT_STATES
<1>2. /\ JobFits(s, exec) /\ row.state = s.state /\ row.err = s.err
      /\ s.state \in Booting => s.job = row.job /\ s.job \in Jobs /\ BootOf(s.job)
  BY <1>1, Found DEF CasReconciler
<1>3. /\ undo \in {"STOPPED", "RUNNING", "UNCONFIRMED"}
      /\ undo \in PLACEMENT_TRANSITIONS[s.state] \/ undo = "UNCONFIRMED"
  BY <1>1, UndoIs
<1>4. /\ r.state = undo /\ r.epoch = row.epoch /\ r.gen = row.gen /\ r.fence = row.fence
      /\ r.inst = row.inst /\ r.job \in {0, row.job}
      /\ r.err \in {"enroll_tunnel_failed", "lifecycle_start_failed"}
  BY <1>1 DEF settledUndo, Row
<1>5. s.state \in Booting => \A j \in Jobs : BootOf(j) => exec[j].armed = "none"
  BY <1>2, Disarmed
<1>6. undo = "STOPPED" => NoneRuns
  <2> HAVE undo = "STOPPED"
  <2>1. s.err = "unknown:STOPPED"
    BY DEF lifecycleStartUnknownUndo, StartUnknown, RecordedUndo
  <2>2. s.state \in {"PROVISIONING", "LEASED", "STOPPING", "RETIRING"}
    BY <1>3, TransitionsAre DEF Waiting, IN_FLIGHT_STATES
  <2>3. CASE s.state \in {"STOPPING", "RETIRING"}
    BY <1>2, <2>1, <2>3 DEF Inv2, RowInv, Stopping, Down
  <2>4. CASE s.state \in {"PROVISIONING", "LEASED"}
    <3>1. exec[s.job].op = "start" /\ s.job \in Jobs /\ BootOf(s.job)
      BY <1>2, <2>1, <2>4 DEF Inv2, RowInv, Booting
    <3>2. StartInv(s.job)
      BY <3>1, BootIs
    <3> QED BY <2>4, <3>1, <3>2 DEF StartInv, BootOf, Booting
  <2> QED BY <2>2, <2>3, <2>4
<1> HIDE DEF r, undo
<1>7. SwapOK(r)
  BY <1>1, <1>2, <1>3, <1>4, <1>5, <1>6, Rewrites DEF Booting, Stopping, AtRest
<1>8. Unmarked(r)
  BY <1>4 DEF Unmarked, StartUnknown, RecordedUndo
<1> QED BY <1>7, <1>8 DEF r

\* A settled boot: RUNNING once enrolled, failed past its deadline.
LEMMA ReceiptMountedRests ==
    ASSUME Inv2, Inv1', NEW p \in Procs, ReceiptMounted(p)
    PROVE  Inv2'
<1> DEFINE s == proc[p].snap
<1>1. UNCHANGED <<inst, vol>> /\ s.state = "MOUNTING" /\ row \in Row
  BY DEF ReceiptMounted, Settled, world, Inv2, Inv1, TypeOK
<1>2. CasUser(s) => row.state = "MOUNTING"
  BY <1>1 DEF CasUser
<1>3. CASE step(p, CasReconciler(s), [row EXCEPT !.state = "RUNNING"], "none",
                "reread", "reread")
  <2> DEFINE r == [row EXCEPT !.state = "RUNNING"]
  <2>1. /\ r.state = "RUNNING" /\ r.epoch = row.epoch /\ r.gen = row.gen
        /\ r.fence = row.fence /\ r.inst = row.inst /\ r.job = row.job /\ r.err = row.err
    BY <1>1 DEF Row
  <2>2. step(p, CasReconciler(s), r, "none", "reread", "reread")
    BY <1>3
  <2> HIDE DEF r
  <2>3. CasReconciler(s) => SwapOK(r) /\ Unmarked(r)
    BY <1>2, <2>1, Rewrites DEF CasReconciler, Booting, Stopping, AtRest, Unmarked
  <2> QED BY <1>1, <2>2, <2>3, StepRests DEF Resets
<1>4. CASE /\ casInTx(CasExact(s), [row EXCEPT !.state = "UNCONFIRMED", !.nonce = "none",
                                               !.err = "enroll_tunnel_failed"], "none")
           /\ Goto(p, IF CasExact(s) THEN "recover" ELSE "reread", row', "hostretire")
  <2> DEFINE r == [row EXCEPT !.state = "UNCONFIRMED", !.nonce = "none",
                              !.err = "enroll_tunnel_failed"]
  <2>1. /\ r.state = "UNCONFIRMED" /\ r.epoch = row.epoch /\ r.gen = row.gen
        /\ r.fence = row.fence /\ r.inst = row.inst /\ r.job = row.job
        /\ r.err = "enroll_tunnel_failed"
    BY <1>1 DEF Row
  <2>2. casInTx(CasExact(s), r, "none")
    BY <1>4
  <2> HIDE DEF r
  <2>3. CasExact(s) => SwapOK(r) /\ Unmarked(r)
    BY <1>1, <2>1, Rewrites DEF CasExact, Booting, Stopping, AtRest, Unmarked, StartUnknown,
       RecordedUndo
  <2>4. /\ JobsInv' /\ RowInv' /\ Evolves
        /\ \A q \in Procs : StarterStays(proc[q])
    BY <1>1, <2>2, <2>3, SwapRests
  <2> QED BY <1>4, <2>4, GoesOn DEF Resets, Readings, Kind, Quiet
<1>5. CASE Goto(p, "reread", NoRow, "none") /\ UNCHANGED rowVars
  <2>1. UNCHANGED <<row, exec, inst, vol>>
    BY <1>1, <1>5 DEF rowVars
  <2> QED BY <1>5, <2>1, MoveRests DEF Resets, Kind, Quiet
<1> QED BY <1>3, <1>4, <1>5 DEF ReceiptMounted

\* A job that failed leaves its row to the background passes.
LEMMA ReceiptFailedRests ==
    ASSUME Inv2, Inv1', NEW p \in Procs, ReceiptFailed(p)
    PROVE  Inv2'
<1> DEFINE s == proc[p].snap
           hostRetire == isEnrollmentHostRetire(s)
           r == [row EXCEPT !.state = "UNCONFIRMED", !.nonce = "none",
                            !.err = IF hostRetire THEN "enroll_tunnel_failed" ELSE "failed",
                            !.job = IF hostRetire THEN 0 ELSE @]
<1>1. /\ UNCHANGED <<inst, vol>> /\ Described(p, {"failed"}) /\ row \in Row
      /\ s.state # "NONE" /\ exec[s.job].st = "failed" /\ s.job \in Jobs
  BY DescribedIs DEF ReceiptFailed, world, Inv2, Inv1, TypeOK
<1>2. CASE Goto(p, "reread", NoRow, "none") /\ UNCHANGED rowVars
  <2>1. UNCHANGED <<row, exec, inst, vol>>
    BY <1>1, <1>2 DEF rowVars
  <2> QED BY <1>2, <2>1, MoveRests DEF Resets, Kind, Quiet
<1>3. CASE step(p, CasReconciler(s), r, "none", "reread", "reread")
  <2>1. /\ r.state = "UNCONFIRMED" /\ r.epoch = row.epoch /\ r.gen = row.gen
        /\ r.fence = row.fence /\ r.inst = row.inst /\ r.job \in {0, row.job}
        /\ r.err \in {"enroll_tunnel_failed", "failed"}
    BY <1>1 DEF Row
  <2> HIDE DEF r
  <2>2. ASSUME CasReconciler(s)
        PROVE  SwapOK(r) /\ Unmarked(r)
    <3>1. /\ row.state = s.state
          /\ s.state \in Booting => BootOf(s.job)
      BY <1>1, <2>2, Found DEF CasReconciler
    <3>2. row.state \in Booting => \A j \in Jobs : BootOf(j) => exec[j].armed = "none"
      BY <1>1, <3>1, Disarmed
    <3> QED BY <1>1, <2>1, <3>1, <3>2, Rewrites DEF Booting, Stopping, AtRest, Unmarked,
            StartUnknown, RecordedUndo
  <2> QED BY <1>1, <1>3, <2>2, StepRests DEF Resets
<1> QED BY <1>2, <1>3 DEF ReceiptFailed

\* An unanswered start that never ran: a stop or a retire is started again, a
\* boot goes to its undo state.
LEMMA SettleUnknownRests ==
    ASSUME Inv2, Inv1', NEW p \in Procs, settleUnknownStart(p)
    PROVE  Inv2'
<1> DEFINE s == proc[p].snap
<1>1. /\ UNCHANGED <<inst, vol>> /\ s.state \in Waiting /\ s.job # 0
      /\ exec[s.job].st = "absent" /\ s.err \in StartUnknown
  BY DescribedIs DEF settleUnknownStart, world, Inv2
<1>2. CASE Goto(p, "start", s, "settle") /\ UNCHANGED rowVars
  <2>1. UNCHANGED <<row, exec, inst, vol>>
    BY <1>1, <1>2 DEF rowVars
  <2> QED BY <1>2, <2>1, MoveRests DEF Kind, Quiet
<1>3. CASE step(p, CasReconciler(s), settledUndo(s), "none", "reread", "reread")
  <2>1. CasReconciler(s) => SwapOK(settledUndo(s)) /\ Unmarked(settledUndo(s))
    BY <1>1, SettledSwaps
  <2> QED BY <1>1, <1>3, <2>1, StepRests DEF Resets
<1> QED BY <1>2, <1>3 DEF settleUnknownStart

\* A finished stop goes on to STOPPING.
LEMMA ReceiptDrainingRests ==
    ASSUME Inv2, Inv1', NEW p \in Procs, ReceiptDraining(p)
    PROVE  Inv2'
<1> DEFINE s == proc[p].snap
           r == [row EXCEPT !.state = "STOPPING"]
<1>1. /\ UNCHANGED <<inst, vol>> /\ s.state = "DRAINING" /\ row \in Row
      /\ step(p, CasReconciler(s), r, "none", "receipt", "reread")
  BY DEF ReceiptDraining, world, Inv2, Inv1, TypeOK
<1>2. /\ r.state = "STOPPING" /\ r.epoch = row.epoch /\ r.gen = row.gen
      /\ r.fence = row.fence /\ r.inst = row.inst /\ r.job = row.job /\ r.err = row.err
  BY <1>1 DEF Row
<1> HIDE DEF r
<1>3. ASSUME CasReconciler(s)
      PROVE  SwapOK(r) /\ Unmarked(r)
  <2>1. row.state = "DRAINING" /\ JobFits(row, exec) /\ RowInv
    BY <1>1, <1>3 DEF CasReconciler, CasUser, Inv2, RowInv
  <2>2. row.job # 0 => exec[row.job].op = "stop"
    BY <2>1 DEF JobFits, Stopping
  <2>3. row.err = "unknown:STOPPED" => NoneRuns
    BY <2>1 DEF RowInv, Stopping, Down
  <2> QED BY <1>2, <2>1, <2>2, <2>3, Rewrites DEF Booting, AtRest, Unmarked
<1> QED BY <1>1, <1>3, StepRests DEF Resets, Readings

\* A finished stop or retire ends the session for good: nothing runs.
LEMMA ReceiptFinalRests ==
    ASSUME Inv2, Inv1', NEW p \in Procs, ReceiptFinal(p)
    PROVE  Inv2'
<1> DEFINE s == proc[p].snap
           x == exec[s.job]
           r == FinalRow(s)
<1>1. /\ UNCHANGED <<inst, vol>> /\ row \in Row /\ s \in Row
      /\ step(p, CasReconciler(s), r, "close", "reread", "reread")
      /\ s.job # 0 /\ s.state \in {"STOPPING", "RETIRING"} /\ x.st \in {"succeeded", "lost"}
  BY ProcIs DEF ReceiptFinal, world, Inv2, Inv1, TypeOK, SnapOK
<1>2. /\ r.state \in {"RETIRED", "STOPPED"} /\ r.epoch = row.epoch /\ r.gen = row.gen
      /\ r.fence = row.fence /\ r.inst = x.src /\ r.job = 0
      /\ r.err \in {"instance_lost", "none"}
  BY <1>1 DEF Row, FinalRow
<1> HIDE DEF r
<1>3. ASSUME CasReconciler(s)
      PROVE  SwapOK(r) /\ Unmarked(r)
  <2>1. /\ JobFits(s, exec) /\ row.state = s.state /\ row.epoch = s.epoch
        /\ s.inst # 0 => row.inst = s.inst
    BY <1>1, <1>3, Found DEF CasReconciler
  <2>2. s.job \in Jobs
    BY <1>1, SnapIs DEF Inv2
  <2>3. x.op \in EndOps /\ x.epoch = row.epoch /\ s.inst = x.src
    BY <1>1, <2>1 DEF JobFits, Stopping, EndOps
  <2>4. x.src # 0 /\ JobInv(s.job)
    BY <2>2, <2>3, ExecIs, Bounds DEF Inv2, JobsInv, EndOps, Epochs
  <2>5. Down
    BY <1>1, <2>3, <2>4 DEF JobInv, EndInv, EndOps
  <2>6. r.inst = row.inst /\ NoneRuns
    BY <1>2, <2>1, <2>3, <2>4, <2>5 DEF Down
  <2>7. SwapOK(r)
    BY <1>1, <1>2, <2>1, <2>6, Rewrites DEF Booting, Stopping
  <2> QED BY <1>2, <2>7 DEF Unmarked, StartUnknown, RecordedUndo
<1> QED BY <1>1, <1>3, StepRests DEF Resets

\* A leased row whose job was started.
LEMMA StartingSwaps ==
    ASSUME Inv2, NEW p \in Procs, NEW s, s = proc[p].snap, CasUser(s), s.state = "LEASED",
           NEW r, r = [row EXCEPT !.state = "STARTING"]
    PROVE  SwapOK(r) /\ Unmarked(r)
<1>1. row \in Row /\ JobFits(row, exec) /\ row.state = "LEASED" /\ RowInv
  BY DEF Inv2, RowInv, Inv1, TypeOK, CasUser
<1>2. /\ r.state = "STARTING" /\ r.epoch = row.epoch /\ r.gen = row.gen
      /\ r.fence = row.fence /\ r.inst = row.inst /\ r.job = row.job /\ r.err = row.err
  BY <1>1 DEF Row
<1>3. JobFits(r, exec)
  BY <1>1, <1>2 DEF JobFits, Booting, Stopping
<1>4. r.err = "unknown:STOPPED" => exec[r.job].op = "start"
  BY <1>1, <1>2 DEF RowInv, Booting
<1>5. r.job # 0 /\ exec[r.job].op = "replace" /\ r.inst # 0 => vol.fence = exec[r.job].fence
  BY <1>1, <1>2 DEF RowInv
<1> QED BY <1>1, <1>2, <1>3, <1>4, <1>5 DEF SwapOK, GenStays, Unmarked, Booting, Stopping, AtRest

\* A boot that succeeded is mounted on the instance it ran or booted.
LEMMA MountingSwaps ==
    ASSUME Inv2, NEW p \in Procs, NEW s, s = proc[p].snap, CasUser(s), s.state = "STARTING",
           exec[s.job].st = "succeeded",
           NEW r, r = [row EXCEPT !.job = 0, !.vol = TRUE, !.inst = ResultInstance(exec[s.job]),
                                  !.state = "MOUNTING"]
    PROVE  SwapOK(r) /\ Unmarked(r)
<1> DEFINE j == s.job
           x == exec[j]
<1>1. row \in Row /\ JobFits(row, exec) /\ row.state = "STARTING" /\ RowInv
  BY DEF Inv2, RowInv, Inv1, TypeOK, CasUser
<1>2. /\ r.state = "MOUNTING" /\ r.epoch = row.epoch /\ r.gen = row.gen
      /\ r.fence = row.fence /\ r.inst = ResultInstance(x) /\ r.job = 0 /\ r.err = row.err
  BY <1>1 DEF Row
<1>3. j = row.job /\ j \in Jobs /\ BootOf(j)
  BY Found DEF Booting
<1>4. /\ x \in Exec /\ x.epoch \in Epochs /\ x.op \in {"start", "replace"}
      /\ x.epoch = row.epoch /\ row.inst \in {0, ResultInstance(x)}
      /\ x.op = "start" => row.inst = x.src
  BY <1>1, <1>3, BootIs, BoundsAssumption DEF JobFits, BootOps, BootOf, Jobs
<1>5. JobInv(j) /\ (x.op = "replace" => LaunchInv(j))
  BY <1>3, <1>4, BootIs DEF Inv2, JobsInv
<1>6. JobFits(r, exec)
  <2>1. x.src <= x.epoch /\ x.epoch <= x.epoch
    BY <1>4, <1>5 DEF JobInv, Epochs
  <2> QED BY <1>2, <1>4, <2>1 DEF JobFits, Booting, ResultInstance
<1>7. \A k \in Jobs : BootOf(k) => exec[k].armed = "none" /\ exec[k].st = "succeeded"
  BY <1>3, BootIs
<1>8. r.inst # row.inst =>
        /\ row.inst = 0 /\ r.inst \in Epochs /\ inst[r.inst].st # "none"
        /\ \A i \in Epochs : Alive(i) => i = r.inst
  <2> HAVE r.inst # row.inst
  <2>1. /\ row.inst = 0 /\ x.op = "replace" /\ r.inst = x.epoch
    BY <1>2, <1>4 DEF ResultInstance
  <2>2. inst[x.epoch].st # "none" /\ inst[x.src].st = "gone"
    BY <1>5, <2>1 DEF LaunchInv
  <2>3. ASSUME NEW i \in Epochs, Alive(i)
        PROVE  i = x.epoch
    <3>1. PICK k \in Jobs : BootOf(k) /\ i \in {exec[k].src, exec[k].epoch}
      BY <1>1, <2>1, <2>3 DEF RowInv, InstInv, AliveInv
    <3>2. k = j
      BY <1>3, <3>1, BootIs
    <3> QED BY <2>2, <2>3, <3>1, <3>2 DEF Alive
  <2> QED BY <1>4, <2>1, <2>2, <2>3
<1> HIDE DEF j, x
<1>9. SwapOK(r)
  BY <1>1, <1>2, <1>6, <1>7, <1>8 DEF SwapOK, GenStays, Booting, Stopping, AtRest
<1> QED BY <1>2, <1>9 DEF Unmarked

\* A finished boot.
LEMMA ReceiptBootedRests ==
    ASSUME Inv2, Inv1', NEW p \in Procs, ReceiptBooted(p)
    PROVE  Inv2'
<1> DEFINE s == proc[p].snap
           x == exec[s.job]
           done == [row EXCEPT !.job = 0, !.vol = TRUE, !.inst = ResultInstance(x)]
<1>1. /\ UNCHANGED <<inst, vol>> /\ Described(p, {"succeeded"}) /\ row \in Row
      /\ s.state # "NONE" /\ x.st = "succeeded" /\ s.job \in Jobs
  BY DescribedIs DEF ReceiptBooted, world, Inv2, Inv1, TypeOK
<1>2. CASE s.state = "PROVISIONING" /\ enrolled(s)
           /\ step(p, CasReconciler(s), [done EXCEPT !.state = "RUNNING"],
                   "open", "reread", "reread")
  <2> DEFINE r == [done EXCEPT !.state = "RUNNING"]
  <2>1. /\ r.state = "RUNNING" /\ r.epoch = row.epoch /\ r.gen = row.gen
        /\ r.fence = row.fence /\ r.inst = ResultInstance(x) /\ r.job = 0 /\ r.err = row.err
    BY <1>1 DEF Row
  <2>2. step(p, CasReconciler(s), r, "open", "reread", "reread")
    BY <1>2
  <2> HIDE DEF r, done
  <2>3. ASSUME CasReconciler(s)
        PROVE  SwapOK(r) /\ Unmarked(r)
    <3>1. /\ JobFits(s, exec) /\ row.state = s.state /\ BootOf(s.job)
      BY <1>1, <1>2, <2>3, Found DEF CasReconciler, Booting
    <3>2. \A j \in Jobs : BootOf(j) => exec[j].armed = "none"
      BY <1>1, <3>1, Disarmed
    <3>3. s.inst # 0 /\ row.inst = s.inst
      BY <1>2, <2>3 DEF enrolled, CasReconciler
    <3>4. s.inst = ResultInstance(x)
      BY <1>1, <1>2, <3>1, <3>3, BoundsAssumption DEF JobFits, BootOf, Jobs
    <3> QED BY <1>2, <2>1, <3>1, <3>2, <3>3, <3>4, Rewrites DEF Booting, Stopping, AtRest,
            Unmarked
  <2> QED BY <1>1, <2>2, <2>3, StepRests DEF Resets
<1>3. CASE s.state = "LEASED"
           /\ step(p, CasReconciler(s), [row EXCEPT !.state = "STARTING"],
                   "none", "receipt", "reread")
  <2>1. CasReconciler(s) => SwapOK([row EXCEPT !.state = "STARTING"])
                            /\ Unmarked([row EXCEPT !.state = "STARTING"])
    BY <1>3, StartingSwaps DEF CasReconciler
  <2> QED BY <1>1, <1>3, <2>1, StepRests DEF Resets, Readings
<1>4. CASE s.state = "STARTING"
           /\ step(p, CasReconciler(s), [done EXCEPT !.state = "MOUNTING"],
                   "open", IF enrolled(s) THEN "receipt" ELSE "reread", "reread")
  <2> DEFINE r == [done EXCEPT !.state = "MOUNTING"]
  <2>1. r = [row EXCEPT !.job = 0, !.vol = TRUE, !.inst = ResultInstance(x),
                        !.state = "MOUNTING"]
    BY <1>1 DEF Row
  <2>2. step(p, CasReconciler(s), r, "open", IF enrolled(s) THEN "receipt" ELSE "reread",
             "reread")
    BY <1>4
  <2> HIDE DEF r
  <2>3. CasReconciler(s) => SwapOK(r) /\ Unmarked(r)
    BY <1>1, <1>4, <2>1, MountingSwaps DEF CasReconciler
  <2> QED BY <1>1, <2>2, <2>3, StepRests DEF Resets, Readings
<1> QED BY <1>2, <1>3, <1>4 DEF ReceiptBooted

-----------------------------------------------------------------------------
(* A replacement that did not happen.                                      *)

\* What is so of an invocation is so while the row, the jobs and the instances
\* stay.
LEMMA StillIs ==
    ASSUME UNCHANGED <<row, exec, inst, vol>>, NEW v, ProcInv(v)
    PROVE  ProcInv(v)'
BY DEF ProcInv, SnapInv, StarterInv, Starter, GenerationInv, NotReplaced, EnrollInv, BootOf, Over,
   DownInv, Down, NoneRuns, Same

\* An invocation takes more on itself while all else stays.
LEMMA TakesOn ==
    ASSUME Inv2, Inv1', UNCHANGED <<row, exec, inst, vol>>, NEW p \in Procs, NEW v,
           proc'[p] = v, \A q \in Procs : q # p => proc'[q] = proc[q], ProcInv(v),
           Starter(v) => Starter(proc[p]) /\ v.snap.job = proc[p].snap.job
    PROVE  Inv2'
<1>1. JobsInv' /\ RowInv' /\ Evolves /\ \A w : StarterStays(w)
  BY WorldRests
<1>2. ProcInv(v)'
  BY StillIs
<1> QED BY <1>1, <1>2, Gather

\* The invocation after Goto with what it had read.
LEMMA TakesIs ==
    ASSUME Inv2, NEW p \in Procs, NEW pc \in Pc \ Resets, NEW s, s = proc[p].snap,
           NEW kind \in Kind, Goto(p, pc, s, kind), NEW v, v = proc'[p]
    PROVE  /\ v.pc = pc /\ v.snap = s /\ v.kind = kind /\ v.undo = proc[p].undo
           /\ v.host = proc[p].host
           /\ \A q \in Procs : q # p => proc'[q] = proc[q]
           /\ ProcInv(proc[p]) /\ SnapInv(s) /\ s \in Row
<1>1. proc \in [Procs -> Proc] /\ s \in Row
  BY DEF Inv2, Inv1, TypeOK, ProcsOK, RowOK
<1>2. ProcInv(proc[p])
  BY DEF Inv2, ProcsInv
<1> QED BY <1>1, <1>2, GotoIs DEF ProcInv

\* An invocation that gives up its boot to be undone, or has its generation's
\* evidence, says of the row what the evidence says.
LEMMA GenerationFenceRests ==
    ASSUME Inv2, Inv1', NEW p \in Procs, GenerationFence(p)
    PROVE  Inv2'
<1> DEFINE s == proc[p].snap
           x == exec[s.job]
           refused == proc[p].pc = "refused"
           found == IF inst[x.src].st = "stopped" THEN "kept" ELSE "gone"
<1>1. /\ UNCHANGED <<row, exec, inst, vol>> /\ ReplacementEvidence(s, refused)
      /\ refused \/ Described(p, {"failed"})
      /\ proc[p].kind \in Kind /\ found \in Kind
  BY DEF GenerationFence, rowVars, Inv2, Inv1, TypeOK, Proc, Kind
<1>2. PICK v : v = proc'[p]
  OBVIOUS
<1>3. refused => Starter(proc[p]) /\ proc[p].undo # "NONE"
  <2> HAVE refused
  <2>1. BootUndo(s, proc[p].undo)
    BY DEF Inv2, Inv1, ProcsOK, SnapOK
  <2> QED BY <2>1 DEF BootUndo, Starter
<1>4. ~refused => proc[p].undo = "NONE" /\ x.st = "failed"
  BY <1>1, DescribedIs DEF Inv2
<1>5. CASE Goto(p, "gencas", s, found)
  <2>1. /\ v.pc = "gencas" /\ v.snap = s /\ v.undo = proc[p].undo
        /\ \A q \in Procs : q # p => proc'[q] = proc[q]
        /\ ProcInv(proc[p]) /\ SnapInv(s)
    BY <1>1, <1>2, <1>5, TakesIs DEF Pc, Resets
  <2>2. NotReplaced(s.job)
    BY <1>1 DEF ReplacementEvidence, NotReplaced
  <2>3. GenerationInv(v)
    BY <1>3, <1>4, <2>1, <2>2 DEF GenerationInv
  <2>4. StarterInv(v) /\ (Starter(v) => Starter(proc[p]))
    BY <1>3, <1>4, <2>1 DEF Starter, StarterInv, ProcInv
  <2>5. ProcInv(v)
    BY <2>1, <2>3, <2>4 DEF ProcInv, EnrollInv, DownInv
  <2> QED BY <1>1, <1>2, <2>1, <2>4, <2>5, TakesOn
<1>6. CASE Goto(p, IF refused THEN "undo" ELSE "reread", s, proc[p].kind)
  <2>1. CASE refused
    <3>1. Goto(p, "undo", s, proc[p].kind)
      BY <1>6, <2>1
    <3>2. /\ v.pc = "undo" /\ v.snap = s /\ v.undo = proc[p].undo
          /\ \A q \in Procs : q # p => proc'[q] = proc[q]
          /\ ProcInv(proc[p]) /\ SnapInv(s)
      BY <1>1, <1>2, <3>1, TakesIs DEF Pc, Resets
    <3>3. StarterInv(v)
      BY <1>3, <2>1, <3>2 DEF Starter, StarterInv, ProcInv
    <3>4. ProcInv(v)
      BY <3>2, <3>3 DEF ProcInv, GenerationInv, EnrollInv, DownInv
    <3> QED BY <1>1, <1>2, <1>3, <2>1, <3>2, <3>4, TakesOn
  <2>2. CASE ~refused
    <3>1. Goto(p, "reread", s, proc[p].kind)
      BY <1>6, <2>2
    <3> QED BY <1>1, <3>1, MoveRests DEF Quiet, Resets
  <2> QED BY <2>1, <2>2
<1>7. GenerationFence(p) => Goto(p, "gencas", s, found)
                            \/ Goto(p, IF refused THEN "undo" ELSE "reread", s, proc[p].kind)
  BY DEF GenerationFence, Fence
<1> QED BY <1>5, <1>6, <1>7

\* The generation the row gets back is the one whose instance is left.
LEMMA GenerationSwaps ==
    ASSUME Inv2, NEW p \in Procs, NEW s, s = proc[p].snap, proc[p].pc = "gencas", row = s,
           NEW x, x = exec[s.job], NEW r \in Row, r.state = "STOPPED", r.job = 0, r.epoch = row.epoch,
           r.inst = IF vol.fence = x.prevFence THEN x.src ELSE x.epoch,
           r.gen = IF vol.fence = x.prevFence THEN x.prevGen ELSE x.gen,
           r.fence = IF vol.fence = x.prevFence THEN x.prevFence ELSE x.fence,
           r.err \notin StartUnknown
    PROVE  SwapOK(r) /\ Unmarked(r)
<1> DEFINE j == s.job
<1>1. /\ j \in Jobs /\ row.state # "NONE" /\ x.op = "replace" /\ x.epoch = row.epoch
      /\ row \in Row /\ JobFits(row, exec) /\ RowInv /\ j # 0
  <2>1. SnapOK("gencas", s, proc[p].kind, proc[p].undo, exec) /\ s \in Row
    BY DEF Inv2, Inv1, ProcsOK, TypeOK
  <2> QED BY <2>1, SnapIs DEF SnapOK, Inv2, RowInv
<1>2. BootOf(j) /\ LaunchInv(j) /\ JobInv(j) /\ x.epoch \in Epochs /\ x.src \in Epochs
  <2>1. BootOf(j)
    BY <1>1 DEF BootOf, BootOps
  <2> QED BY <1>1, <2>1, BootIs, ExecIs DEF Inv2, JobsInv
<1>3. NotReplaced(j) /\ x.st \in {"absent", "failed"}
  <2>1. ProcInv(proc[p])
    BY DEF Inv2, ProcsInv
  <2> QED BY <1>1, <2>1 DEF ProcInv, GenerationInv, StarterInv, Starter, Same
<1>4. \A k \in Jobs : BootOf(k) => exec[k].armed = "none"
  BY <1>1, <1>2, <1>3, Disarmed
<1>5. row.inst # 0 => row.inst = x.epoch /\ vol.fence # x.prevFence
  <2> HAVE row.inst # 0
  <2>1. row.inst = x.epoch
    BY <1>1 DEF JobFits, ResultInstance, BootOps
  <2>2. vol.fence = x.fence
    BY <1>1 DEF RowInv
  <2>3. x.prevFence < x.fence /\ x.fence \in Nat
    BY <1>1, <1>2, ExecIs, Bounds DEF LaunchInv, Inv2, Epochs
  <2> QED BY <2>1, <2>2, <2>3
<1>6. ASSUME NEW i \in Epochs, Alive(i)
      PROVE  i = x.src /\ row.inst = 0 /\ inst[i].st = "stopped" /\ vol.fence = x.prevFence
  <2>1. IF row.inst # 0 THEN i = row.inst
        ELSE \E k \in Jobs : BootOf(k) /\ i \in {exec[k].src, exec[k].epoch}
    BY <1>1, <1>6 DEF RowInv, InstInv, AliveInv
  <2>2. \A k \in Jobs : BootOf(k) => k = j
    BY <1>1, <1>2, BootIs
  <2>3. i \in {x.src, x.epoch} /\ (row.inst # 0 => i = x.epoch)
    BY <1>5, <2>1, <2>2
  <2>4. i # x.epoch
    BY <1>3, <1>6 DEF NotReplaced, Alive
  <2> QED BY <1>3, <1>6, <2>3, <2>4 DEF NotReplaced, Alive
<1>7. NoneRuns
  BY <1>6 DEF NoneRuns, Alive
<1>8. r.inst # row.inst =>
        /\ row.inst = 0 /\ r.inst \in Epochs /\ inst[r.inst].st # "none"
        /\ \A i \in Epochs : Alive(i) => i = r.inst
  <2> HAVE r.inst # row.inst
  <2>1. row.inst = 0 /\ r.inst \in Epochs
    BY <1>2, <1>5
  <2>2. inst[r.inst].st # "none"
    BY <1>1, <1>2, <1>3, Bounds DEF NotReplaced, JobInv, Epochs
  <2> QED BY <1>6, <2>1, <2>2
<1>9. JobFits(r, exec)
  <2>1. x.src <= x.epoch /\ x.epoch <= x.epoch
    BY <1>1, <1>2 DEF JobInv, Epochs
  <2> QED BY <1>1, <2>1 DEF JobFits, Booting
<1>10. GenStays(row, r)
  BY <1>1, <1>2 DEF GenStays, LaunchInv, JobFits
<1>11. SwapOK(r)
  BY <1>1, <1>4, <1>7, <1>8, <1>9, <1>10 DEF SwapOK, Booting, Stopping
<1> QED BY <1>11 DEF Unmarked

\* One swap restores the confirmed generation; the loser of a refused start
\* still takes its boot back.
LEMMA GenerationRests ==
    ASSUME Inv2, Inv1', NEW p \in Procs, reconcileReplacementGeneration(p)
    PROVE  Inv2'
<1> DEFINE s == proc[p].snap
           x == exec[s.job]
           sourcePair == vol.fence = x.prevFence
           r == [row EXCEPT
                  !.state = "STOPPED", !.job = 0, !.nonce = "none",
                  !.gen = IF sourcePair THEN x.prevGen ELSE x.gen,
                  !.fence = IF sourcePair THEN x.prevFence ELSE x.fence,
                  !.inst = IF sourcePair THEN x.src ELSE x.epoch,
                  !.err = IF sourcePair /\ proc[p].kind = "kept"
                          THEN "lifecycle_start_failed" ELSE "instance_lost"]
           pc == IF proc[p].undo = "NONE" THEN "reread" ELSE "idle"
           lose == IF proc[p].undo = "NONE" THEN "reread" ELSE "undo"
<1>1. /\ proc[p].pc = "gencas" /\ step(p, CasExact(s), r, "close", pc, lose)
      /\ UNCHANGED <<inst, vol>> /\ row \in Row /\ proc[p].kind \in Kind
  BY DEF reconcileReplacementGeneration, world, Inv2, Inv1, TypeOK, Proc
<1>2. /\ r.state = "STOPPED" /\ r.job = 0 /\ r.epoch = row.epoch
      /\ r.inst = IF sourcePair THEN x.src ELSE x.epoch
      /\ r.gen = IF sourcePair THEN x.prevGen ELSE x.gen
      /\ r.fence = IF sourcePair THEN x.prevFence ELSE x.fence
      /\ r.err \in {"lifecycle_start_failed", "instance_lost"}
  BY <1>1 DEF Row
<1>3. CASE CasExact(s)
  <2>1. casInTx(CasExact(s), r, "close") /\ Goto(p, pc, r, proc[p].kind) /\ row' = r
    BY <1>1, <1>3 DEF step, casInTx, Write
  <2>2. r \in Row
    BY <2>1 DEF Inv1, TypeOK
  <2> HIDE DEF r
  <2>3. r.err \notin StartUnknown
    BY <1>2 DEF StartUnknown, RecordedUndo
  <2>4. SwapOK(r) /\ Unmarked(r)
    BY <1>1, <1>2, <1>3, <2>2, <2>3, GenerationSwaps DEF CasExact
  <2>5. /\ JobsInv' /\ RowInv' /\ Evolves
        /\ \A q \in Procs : StarterStays(proc[q])
    BY <1>1, <2>1, <2>4, SwapRests
  <2>6. Quiet(pc, proc[p].kind) /\ pc \in Resets
    BY DEF Quiet, Resets
  <2> QED BY <1>1, <2>1, <2>5, <2>6, GoesOn
<1>4. CASE ~CasExact(s)
  <2>1. Goto(p, lose, s, proc[p].kind) /\ UNCHANGED <<row, exec, inst, vol>>
    BY <1>1, <1>4 DEF step, casInTx
  <2> HIDE DEF r
  <2>2. CASE proc[p].undo = "NONE"
    <3>1. Goto(p, "reread", s, proc[p].kind)
      BY <2>1, <2>2
    <3> QED BY <1>1, <2>1, <3>1, MoveRests DEF Quiet, Resets
  <2>3. CASE proc[p].undo # "NONE"
    <3>1. Goto(p, "undo", s, proc[p].kind)
      BY <2>1, <2>3
    <3> PICK v : v = proc'[p]
      OBVIOUS
    <3>2. /\ v.pc = "undo" /\ v.snap = s /\ v.undo = proc[p].undo
          /\ \A q \in Procs : q # p => proc'[q] = proc[q]
          /\ ProcInv(proc[p]) /\ SnapInv(s)
      BY <1>1, <3>1, TakesIs DEF Pc, Resets
    <3>3. Starter(proc[p])
      BY <1>1, <2>3 DEF Starter
    <3>4. StarterInv(v)
      BY <1>1, <3>2, <3>3 DEF Starter, StarterInv, ProcInv
    <3>5. ProcInv(v)
      BY <3>2, <3>4 DEF ProcInv, GenerationInv, EnrollInv, DownInv
    <3> QED BY <2>1, <3>2, <3>3, <3>5, TakesOn
  <2> QED BY <2>2, <2>3
<1> QED BY <1>3, <1>4

-----------------------------------------------------------------------------
(* What follows a start: started, unanswered or refused.                   *)

\* A swap, won or lost, of an invocation that then ends or reads again.
LEMMA SwapEnds ==
    ASSUME Inv2, Inv1', NEW p \in Procs, NEW wins, NEW r, NEW effect, casInTx(wins, r, effect),
           UNCHANGED <<inst, vol>>, wins => SwapOK(r) /\ Unmarked(r),
           NEW pc \in Resets, NEW s, NEW kind \in Kind, Goto(p, pc, s, kind)
    PROVE  Inv2'
<1>1. /\ JobsInv' /\ RowInv' /\ Evolves
      /\ \A q \in Procs : StarterStays(proc[q])
  BY SwapRests
<1>2. Quiet(pc, kind)
  BY DEF Quiet
<1> QED BY <1>1, <1>2, GoesOn

\* A draining row whose stop was started.
LEMMA StoppingSwaps ==
    ASSUME Inv2, row.state = "DRAINING", NEW r, r = [row EXCEPT !.state = "STOPPING"]
    PROVE  SwapOK(r) /\ Unmarked(r)
<1>1. row \in Row /\ JobFits(row, exec) /\ RowInv
  BY DEF Inv2, RowInv, Inv1, TypeOK
<1>2. /\ r.state = "STOPPING" /\ r.epoch = row.epoch /\ r.gen = row.gen
      /\ r.fence = row.fence /\ r.inst = row.inst /\ r.job = row.job /\ r.err = row.err
  BY <1>1 DEF Row
<1>3. row.job # 0 => exec[row.job].op = "stop"
  BY <1>1 DEF JobFits, Stopping
<1>4. row.err = "unknown:STOPPED" => NoneRuns
  BY <1>1 DEF RowInv, Stopping, Down
<1>5. r.job = 0 \/ (r.job = row.job /\ exec[row.job].op = "stop")
  BY <1>2, <1>3
<1> QED BY <1>2, <1>4, <1>5, Rewrites DEF Booting, AtRest, Unmarked

\* A started job: its row goes on to STARTING or STOPPING.
LEMMA StartedRests ==
    ASSUME Inv2, Inv1', NEW p \in Procs, Started(p)
    PROVE  Inv2'
<1> DEFINE s == proc[p].snap
           kind == proc[p].kind
           wins == IF kind \in {"boot", "ustop"} THEN CasUser(s) ELSE CasReconciler(s)
<1>1. /\ UNCHANGED <<inst, vol>> /\ StartOK(s, kind, proc[p].undo)
      /\ AfterStart(p) \in Resets /\ Goto(p, AfterStart(p), s, "none") /\ "none" \in Kind
  BY AtStartIs DEF Started, world, Inv2, Kind
<1>2. wins => CasUser(s)
  BY DEF CasReconciler
<1>3. CASE UNCHANGED rowVars
  <2>1. UNCHANGED <<row, exec, inst, vol>> /\ Quiet(AfterStart(p), "none")
    BY <1>1, <1>3 DEF rowVars, Quiet
  <2> QED BY <1>1, <2>1, MoveRests
<1>4. CASE s.state = "LEASED" /\ casInTx(wins, [row EXCEPT !.state = "STARTING"], "none")
  <2>1. wins => SwapOK([row EXCEPT !.state = "STARTING"])
                /\ Unmarked([row EXCEPT !.state = "STARTING"])
    BY <1>2, <1>4, StartingSwaps
  <2> QED BY <1>1, <1>4, <2>1, SwapEnds
<1>5. CASE kind \in Stops /\ casInTx(wins, [row EXCEPT !.state = "STOPPING"], "none")
  <2>1. s.state = "DRAINING"
    BY <1>1, <1>5 DEF StartOK, Stops, Retires
  <2>2. wins => row.state = "DRAINING"
    BY <1>2, <2>1 DEF CasUser
  <2>3. wins => SwapOK([row EXCEPT !.state = "STOPPING"])
                /\ Unmarked([row EXCEPT !.state = "STOPPING"])
    BY <2>2, StoppingSwaps
  <2> QED BY <1>1, <1>5, <2>3, SwapEnds
<1> QED BY <1>3, <1>4, <1>5 DEF Started, Stops

\* What the mark of an unanswered start says is so.
LEMMA MarkSwaps ==
    ASSUME Inv2, NEW p \in Procs, AtStart(p), NEW s, s = proc[p].snap, CasUser(s), row.err = s.err,
           NEW undo, undo = IF proc[p].kind = "settle" THEN lifecycleStartUnknownUndo(s)
                            ELSE proc[p].undo,
           undo \in PLACEMENT_TRANSITIONS[s.state],
           NEW mark, mark = "unknown:STOPPED" => undo = "STOPPED",
           NEW r, r = [row EXCEPT !.err = mark]
    PROVE  SwapOK(r)
<1>1. row \in Row /\ s \in Row /\ StartOK(s, proc[p].kind, proc[p].undo) /\ RowInv
  BY AtStartIs DEF Inv2
<1>2. /\ r.state = row.state /\ r.epoch = row.epoch /\ r.gen = row.gen
      /\ r.fence = row.fence /\ r.inst = row.inst /\ r.job = row.job /\ r.err = mark
  BY <1>1 DEF Row
<1>3. /\ s.state \in {"PROVISIONING", "LEASED", "DRAINING", "STOPPING", "RETIRING"}
      /\ row.state = s.state
  BY <1>1 DEF StartOK, BootUndo, Stopping, CasUser
<1>4. /\ JobFits(row, exec) /\ Same(s) /\ ProcInv(proc[p])
      /\ s.state \in Booting => s.job = row.job
  BY <1>3, Found DEF Inv2, ProcsInv
<1>5. JobFits(r, exec)
  BY <1>2, <1>4 DEF JobFits, ResultInstance
<1>6. r.state \notin Booting => \A j \in Jobs : BootOf(j) => exec[j].armed = "none"
  BY <1>2, NoneArmed
<1>7. ASSUME mark = "unknown:STOPPED", r.state \in Stopping \cup {"RETIRING"}
      PROVE  NoneRuns
  <2>1. undo = "STOPPED" /\ s.state \in Stopping \cup {"RETIRING"}
    BY <1>2, <1>3, <1>7
  <2>2. CASE proc[p].kind = "settle"
    <3>1. s.err \in StartUnknown
      BY <1>1, <2>2 DEF StartOK, Stops, Retires
    <3>2. row.err = "unknown:STOPPED"
      BY <2>1, <2>2, <3>1 DEF lifecycleStartUnknownUndo, StartUnknown, RecordedUndo
    <3> QED BY <1>1, <1>3, <2>1, <3>2 DEF RowInv, Down
  <2>3. CASE proc[p].kind # "settle"
    <3>1. proc[p].undo = "STOPPED" /\ proc[p].kind \in {"uretire", "rretire"}
      BY <1>1, <2>1, <2>3, TransitionsAre DEF StartOK, BootUndo, Stopping
    <3> QED BY <1>4, <3>1 DEF ProcInv, DownInv, AtStart, Down
  <2> QED BY <2>2, <2>3
<1>8. ASSUME mark = "unknown:STOPPED", r.state \in Booting
      PROVE  exec[r.job].op = "start"
  <2>1. undo = "STOPPED" /\ proc[p].kind = "boot" /\ s.job = row.job
    BY <1>1, <1>2, <1>3, <1>4, <1>8 DEF StartOK, Stopping, Booting
  <2>2. Starter(proc[p]) /\ proc[p].undo = "STOPPED"
    BY <2>1 DEF Starter, AtStart
  <2> QED BY <1>2, <1>4, <2>1, <2>2 DEF ProcInv, StarterInv
<1>9. r.job # 0 /\ exec[r.job].op = "replace" /\ r.inst # 0 => vol.fence = exec[r.job].fence
  BY <1>1, <1>2 DEF RowInv
<1> QED BY <1>2, <1>3, <1>5, <1>6, <1>7, <1>8, <1>9 DEF SwapOK, GenStays, AtRest

\* Nobody else may take back the job that is marked.
LEMMA MarkStays ==
    ASSUME Inv2, NEW p \in Procs, AtStart(p), CasUser(proc[p].snap),
           row'.job = row.job, exec' = exec, NEW q \in Procs, q # p
    PROVE  StarterStays(proc[q])
<1> DEFINE s == proc[p].snap
           t == proc[q].snap
<1>1. /\ StartOK(s, proc[p].kind, proc[p].undo) /\ JobFits(row, exec) /\ row.state = s.state
  BY AtStartIs DEF Inv2, RowInv, CasUser
<1>2. ASSUME Starter(proc[q]), row.job = t.job
      PROVE  FALSE
  <2>1. t.job # 0 /\ exec[t.job].op \in BootOps
    BY <1>2 DEF Inv2, ProcsInv, ProcInv, StarterInv
  <2>2. row.state \notin Stopping \cup {"RETIRING"}
    BY <1>1, <1>2, <2>1 DEF JobFits, BootOps
  <2>3. proc[p].kind = "boot" /\ s.state \in Booting /\ s.state # "NONE"
    BY <1>1, <2>2 DEF StartOK, BootUndo, Stopping, Booting
  <2>4. s.job = row.job /\ Starter(proc[p])
    BY <2>3, Found DEF Starter, AtStart
  <2> QED BY <1>2, <2>4 DEF Inv2, ProcsInv, OneStarter
<1> QED BY <1>2 DEF StarterStays

\* No answer: the row is marked.
LEMMA MarkRests ==
    ASSUME Inv2, Inv1', NEW p \in Procs, markLifecycleStartUnknown(p)
    PROVE  Inv2'
<1> DEFINE s == proc[p].snap
           undo == IF proc[p].kind = "settle" THEN lifecycleStartUnknownUndo(s)
                   ELSE proc[p].undo
           mark == IF proc[p].kind \in {"hostretire", "fleetretire"}
                      \/ isEnrollmentHostRetire(s)
                   THEN "unknown:UNCONFIRMED:host_retire"
                   ELSE CASE undo = "STOPPED" -> "unknown:STOPPED"
                          [] undo = "RUNNING" -> "unknown:RUNNING"
                          [] OTHER -> "unknown:UNCONFIRMED"
           wins == undo \in PLACEMENT_TRANSITIONS[s.state] /\ CasUser(s) /\ row.err = s.err
           r == [row EXCEPT !.err = mark]
<1>1. /\ UNCHANGED <<inst, vol>> /\ AtStart(p) /\ casInTx(wins, r, "none")
      /\ AfterStart(p) \in Resets /\ Goto(p, AfterStart(p), s, "none") /\ "none" \in Kind
  BY AtStartIs DEF markLifecycleStartUnknown, world, Inv2, Kind
<1>2. mark = "unknown:STOPPED" => undo = "STOPPED"
  OBVIOUS
<1>3. wins => r.job = row.job
  BY DEF Inv2, Inv1, TypeOK, Row
<1> HIDE DEF mark
<1>4. wins => SwapOK(r)
  BY <1>1, <1>2, MarkSwaps
<1>5. JobsInv' /\ RowInv' /\ Evolves
  BY <1>1, <1>4, SwapRests
<1>6. CASE wins
  <2>1. row' = r /\ exec' = exec
    BY <1>1, <1>6 DEF casInTx, Write
  <2>2. \A q \in Procs : q # p => StarterStays(proc[q])
    BY <1>1, <1>3, <1>6, <2>1, MarkStays
  <2> QED BY <1>1, <1>5, <2>2, GoesOn DEF Quiet
<1>7. CASE ~wins
  <2>1. UNCHANGED <<row, exec, inst, vol>> /\ Quiet(AfterStart(p), "none")
    BY <1>1, <1>7 DEF casInTx, Quiet
  <2> QED BY <1>1, <2>1, MoveRests
<1> QED BY <1>6, <1>7

\* The step a refused stop or retire takes back was of a row that goes on.
LEMMA UndoSwaps ==
    ASSUME Inv2, NEW p \in Procs, AtStart(p), NEW s, s = proc[p].snap, CasUser(s),
           NEW kind, kind = proc[p].kind, kind \notin {"boot", "settle"}
    PROVE  SwapOK(UndoRow(s, kind, proc[p].undo)) /\ Unmarked(UndoRow(s, kind, proc[p].undo))
<1> DEFINE undo == proc[p].undo
           r == UndoRow(s, kind, undo)
<1>1. row \in Row /\ StartOK(s, kind, undo) /\ ProcInv(proc[p]) /\ s.state # "NONE"
  BY AtStartIs DEF Inv2, ProcsInv, StartOK, BootUndo, Stopping
<1>2. s.state \in {"DRAINING", "RETIRING"} /\ row.state = s.state /\ Same(s)
  BY <1>1 DEF StartOK, CasUser, Same
<1>3. /\ r.epoch = row.epoch /\ r.gen = row.gen /\ r.fence = row.fence /\ r.inst = row.inst
      /\ r.job \in {0, row.job}
      /\ r.err \in {row.err, "failed", "enroll_tunnel_failed"}
      /\ r.state \in {"UNCONFIRMED", undo}
      /\ r.state = "UNCONFIRMED" \/ kind \in {"uretire", "rretire", "uncretire"}
  BY <1>1 DEF UndoRow, Row
<1> HIDE DEF r
<1>4. /\ r.state \in {"UNCONFIRMED", "RUNNING", "STOPPED"}
      /\ r.state = "STOPPED" => kind \in {"uretire", "rretire"} /\ undo = "STOPPED"
  BY <1>1, <1>3 DEF StartOK, Retires, Stops
<1>5. r.state = "STOPPED" => NoneRuns
  BY <1>1, <1>2, <1>4 DEF ProcInv, DownInv, AtStart, Down
<1>6. SwapOK(r)
  BY <1>2, <1>3, <1>4, <1>5, Rewrites DEF Booting, Stopping, AtRest
<1> QED BY <1>3, <1>6 DEF Unmarked, StartUnknown, RecordedUndo, r

\* A permanent refusal of a job that never ran.
LEMMA RefusedRests ==
    ASSUME Inv2, Inv1', FlakyRefusal = FALSE, NEW p \in Procs, Refused(p)
    PROVE  Inv2'
<1> DEFINE s == proc[p].snap
           kind == proc[p].kind
           wins == IF kind \in {"ustop", "uretire"} THEN CasUser(s) ELSE CasReconciler(s)
           pc == IF kind \in {"hostretire", "settle"} THEN "reread" ELSE "idle"
           r == UndoRow(s, kind, proc[p].undo)
<1>1. /\ UNCHANGED <<inst, vol>> /\ AtStart(p) /\ exec[s.job].st = "absent"
      /\ StartOK(s, kind, proc[p].undo) /\ s.job # 0
  BY AtStartIs DEF Refused, world, Inv2
<1>2. CASE kind = "boot"
  <2>1. /\ Goto(p, "refused", s, "boot") /\ UNCHANGED <<row, exec, inst, vol>>
        /\ "boot" \in Kind
    BY <1>1, <1>2 DEF Refused, rowVars, Kind
  <2> PICK v : v = proc'[p]
    OBVIOUS
  <2>2. /\ v.pc = "refused" /\ v.snap = s /\ v.undo = proc[p].undo
        /\ \A q \in Procs : q # p => proc'[q] = proc[q]
        /\ ProcInv(proc[p]) /\ SnapInv(s)
    BY <2>1, TakesIs DEF Pc, Resets
  <2>3. Starter(proc[p])
    BY <1>1, <1>2 DEF Starter, AtStart
  <2>4. StarterInv(v)
    BY <1>1, <2>2, <2>3 DEF StarterInv, ProcInv
  <2>5. ProcInv(v)
    BY <2>2, <2>4 DEF ProcInv, GenerationInv, EnrollInv, DownInv
  <2> QED BY <2>1, <2>2, <2>3, <2>5, TakesOn
<1>3. CASE kind # "boot"
  <2>1. step(p, wins, r, "none", pc, pc) /\ pc \in Resets
    BY <1>3 DEF Refused, Resets
  <2>2. wins => CasUser(s)
    BY DEF CasReconciler
  <2>3. CASE kind = "settle"
    <3>1. wins => CasReconciler(s)
      BY <2>3
    <3>2. s.err \in StartUnknown /\ s.state \in Stopping \cup {"RETIRING"}
      BY <1>1, <2>3 DEF StartOK, Stops, Retires
    <3>3. wins => SwapOK(settledUndo(s)) /\ Unmarked(settledUndo(s))
      BY <1>1, <3>1, <3>2, SettledSwaps DEF Waiting, IN_FLIGHT_STATES, Stopping, Booting
    <3>4. r = settledUndo(s)
      BY <2>3 DEF UndoRow
    <3> QED BY <1>1, <2>1, <3>3, <3>4, StepRests
  <2>4. CASE kind # "settle"
    <3>1. wins => SwapOK(r) /\ Unmarked(r)
      BY <1>1, <1>3, <2>2, <2>4, UndoSwaps
    <3> QED BY <1>1, <2>1, <3>1, StepRests
  <2> QED BY <2>3, <2>4
<1> QED BY <1>2, <1>3

\* A refused boot is taken back: it never ran.
LEMMA RefusedBootRests ==
    ASSUME Inv2, Inv1', NEW p \in Procs, RefusedBoot(p)
    PROVE  Inv2'
<1> DEFINE s == proc[p].snap
           undo == proc[p].undo
           r == [row EXCEPT !.state = undo, !.nonce = "none"]
<1>1. /\ UNCHANGED <<inst, vol>> /\ row \in Row /\ proc[p].pc \in {"undo", "refused"}
      /\ step(p, CasUser(s), r, "none", "idle", "idle")
  BY DEF RefusedBoot, world, Inv2, Inv1, TypeOK
<1>2. BootUndo(s, undo) /\ s.job # 0 /\ exec[s.job].st = "absent"
      /\ (undo = "STOPPED" => exec[s.job].op = "start")
  <2>1. SnapOK(proc[p].pc, s, proc[p].kind, undo, exec) /\ ProcInv(proc[p])
    BY DEF Inv2, Inv1, ProcsOK, ProcsInv
  <2> QED BY <1>1, <2>1 DEF SnapOK, ProcInv, StarterInv, Starter
<1>3. /\ r.state = undo /\ r.epoch = row.epoch /\ r.gen = row.gen
      /\ r.fence = row.fence /\ r.inst = row.inst /\ r.job = row.job /\ r.err = row.err
  BY <1>1 DEF Row
<1> HIDE DEF r
<1>4. ASSUME CasUser(s)
      PROVE  SwapOK(r) /\ Unmarked(r)
  <2>1. s.state \in Booting /\ undo \in {"STOPPED", "UNCONFIRMED"}
    BY <1>2 DEF BootUndo, Booting
  <2>2. /\ row.state = s.state /\ row.epoch = s.epoch
        /\ s.job \in Jobs /\ BootOf(s.job)
    BY <1>4, <2>1, Found DEF Booting
  <2>3. \A j \in Jobs : BootOf(j) => exec[j].armed = "none"
    BY <1>2, <2>2, Disarmed
  <2>4. undo = "STOPPED" => NoneRuns
    BY <1>2, <2>2, BootIs DEF StartInv, BootOf
  <2> QED BY <1>3, <2>1, <2>2, <2>3, <2>4, Rewrites DEF Booting, Stopping, AtRest, Unmarked
<1> QED BY <1>1, <1>4, StepRests DEF Resets

-----------------------------------------------------------------------------
(* The executions.                                                         *)

\* The jobs keep what they were recorded with.
SameJobs ==
    \A k \in Jobs :
        /\ exec'[k].op = exec[k].op /\ exec'[k].gen = exec[k].gen
        /\ exec'[k].epoch = exec[k].epoch /\ exec'[k].fence = exec[k].fence
        /\ exec'[k].src = exec[k].src /\ exec'[k].prevGen = exec[k].prevGen
        /\ exec'[k].prevFence = exec[k].prevFence

\* What the row names of its job stays so.
LEMMA SameFits ==
    ASSUME Inv2, SameJobs, row' = row
    PROVE  JobFits(row, exec') /\ (\A k \in Jobs : BootOf(k)' = BootOf(k))
<1>1. row.job # 0 => row.job \in Jobs
  BY SnapIs DEF Inv2, Inv1, TypeOK
<1>2. JobFits(row, exec)
  BY DEF Inv2, RowInv
<1>3. JobFits(row, exec')
  BY <1>1, <1>2 DEF JobFits, SameJobs, ResultInstance
<1>4. \A k \in Jobs : BootOf(k)' = BootOf(k)
  BY DEF BootOf, SameJobs
<1> QED BY <1>3, <1>4

\* One execution goes on; its row and the instances stay.
LEMMA JobMoves ==
    ASSUME Inv2, Inv1', NEW j \in Jobs, NEW new \in Exec, exec' = [exec EXCEPT ![j] = new],
           UNCHANGED <<row, inst, vol, proc>>, exec[j].op # "none",
           new.op = exec[j].op, new.gen = exec[j].gen,
           new.epoch = exec[j].epoch, new.fence = exec[j].fence, new.src = exec[j].src,
           new.prevGen = exec[j].prevGen, new.prevFence = exec[j].prevFence,
           exec[j].st \in {"absent", "running"},
           JobInv(j)',
           BootOf(j) /\ Over(j) /\ exec[j].op # "start" => new.armed = "none",
           exec[j].st = "running" \/ \A q \in Procs : StarterStays(proc[q])
    PROVE  Inv2'
<1>1. /\ exec'[j] = new /\ \A k \in Jobs : k # j => exec'[k] = exec[k]
      /\ row \in Row /\ row.epoch \in Nat /\ RowInv
  BY Bounds DEF Inv2, Inv1, TypeOK, Row
<1>2. SameJobs
  BY <1>1 DEF SameJobs
<1>3. JobFits(row, exec') /\ (\A k \in Jobs : BootOf(k)' = BootOf(k))
  BY <1>2, SameFits
<1>4. ASSUME NEW k \in Jobs, k # j
      PROVE  JobInv(k)'
  <2>1. JobInv(k) /\ exec'[k] = exec[k]
    BY <1>1, <1>4 DEF Inv2, JobsInv
  <2> QED BY <2>1 DEF JobInv, BootInv, StartInv, LaunchInv, EndInv, Down, NoneRuns
<1>5. JobsInv'
  BY <1>2, <1>4 DEF JobsInv, OneBoot, SameJobs, Inv2
<1>6. RowInv'
  <2>1. ASSUME NEW i \in Epochs
        PROVE  InstInv(i)'
    BY <1>1, <1>2, <1>3 DEF RowInv, InstInv, AliveInv, Alive, SameJobs
  <2>2. row.job # 0 => row.job \in Jobs
    BY <1>1, SnapIs DEF Inv2
  <2>3. row.job # 0 => exec'[row.job].op = exec[row.job].op
                       /\ exec'[row.job].fence = exec[row.job].fence
    BY <1>2, <2>2 DEF SameJobs
  <2>4. row.state \in Booting => row.job # 0
    BY <1>1 DEF RowInv, JobFits
  <2> QED BY <1>1, <1>3, <2>1, <2>3, <2>4 DEF RowInv, Down, NoneRuns
<1>7. Evolves
  <2>1. JobsGrow(exec, exec')
    BY <1>1 DEF JobsGrow
  <2>2. \A k \in Jobs : BootOf(k) /\ Over(k) => Over(k)'
    BY <1>1 DEF Over
  <2>3. \A k \in Jobs : NotReplaced(k)' = NotReplaced(k)
    BY <1>1, <1>2 DEF NotReplaced, SameJobs
  <2> QED BY <1>1, <1>3, <2>1, <2>2, <2>3 DEF Evolves, Within, GenStays, Down, NoneRuns
<1>8. \A q \in Procs : StarterStays(proc[q])
  <2>1. CASE exec[j].st = "running"
    <3>1. ASSUME NEW q \in Procs, Starter(proc[q]), proc[q].pc # "start"
          PROVE  exec'[proc[q].snap.job].st = exec[proc[q].snap.job].st
      <4>1. /\ exec[proc[q].snap.job].st = "absent" /\ proc[q].snap.job # 0
            /\ proc[q].snap \in Row
        BY <3>1 DEF Inv2, ProcsInv, ProcInv, StarterInv, Inv1, ProcsOK, RowOK
      <4>2. proc[q].snap.job \in Jobs /\ proc[q].snap.job # j
        BY <2>1, <4>1, SnapIs DEF Inv2
      <4> QED BY <1>1, <4>2
    <3> QED BY <3>1 DEF StarterStays
  <2> QED BY <2>1
<1> QED BY <1>5, <1>6, <1>7, <1>8, NoneMoves

\* A start reaches Step Functions while nobody takes its job back.
LEMMA StartRests ==
    ASSUME Inv2, Inv1', NEW j \in Jobs, exec[j].st = "absent",
           exec' = [exec EXCEPT ![j].st = "running"], UNCHANGED <<row, inst, vol, proc>>,
           \A q \in Procs : Starter(proc[q]) /\ proc[q].snap.job = j => proc[q].pc = "start"
    PROVE  Inv2'
<1> DEFINE x == exec[j]
           new == [x EXCEPT !.st = "running"]
<1>1. x \in Exec /\ x.op # "none" /\ x.armed = "none"
  <2>1. x \in Exec /\ ExecOK(x) /\ x # NoExec
    BY RecordedIs DEF Inv2
  <2> QED BY <2>1 DEF ExecOK, Exec, Operation
<1>2. /\ new \in Exec /\ new.op = x.op /\ new.gen = x.gen
      /\ new.epoch = x.epoch /\ new.fence = x.fence /\ new.src = x.src
      /\ new.prevGen = x.prevGen /\ new.prevFence = x.prevFence
      /\ new.armed = "none" /\ new.ran = x.ran /\ new.st = "running"
      /\ exec' = [exec EXCEPT ![j] = new]
  BY <1>1 DEF Exec
<1> HIDE DEF new
<1>3. exec'[j] = new
  BY <1>2 DEF Inv2, Inv1, TypeOK
<1>4. JobInv(j)'
  <2>1. JobInv(j)
    BY DEF Inv2, JobsInv
  <2>2. x.op \in BootOps => BootInv(j)'
    BY <1>1, <1>2, <1>3, <2>1 DEF JobInv, BootInv, ResultInstance
  <2>3. x.op = "start" => StartInv(j)'
    BY <1>1, <1>2, <1>3, <2>1 DEF JobInv, StartInv
  <2>4. x.op \in {"provision", "replace"} => LaunchInv(j)'
    BY <1>1, <1>2, <1>3, <2>1 DEF JobInv, LaunchInv
  <2>5. x.op \in EndOps => EndInv(j)'
    BY <1>1, <1>2, <1>3, <2>1 DEF JobInv, EndInv
  <2> QED BY <1>1, <1>2, <1>3, <2>1, <2>2, <2>3, <2>4, <2>5 DEF JobInv
<1>5. ASSUME NEW q \in Procs
      PROVE  StarterStays(proc[q])
  <2>1. Starter(proc[q]) => proc[q].snap.job # 0
    BY DEF Inv2, ProcsInv, ProcInv, StarterInv
  <2>2. Starter(proc[q]) => proc[q].snap.job \in Jobs
    BY <2>1, SnapIs DEF Inv2, Inv1, ProcsOK, RowOK
  <2>3. \A k \in Jobs : k # j => exec'[k] = exec[k]
    BY DEF Inv2, Inv1, TypeOK
  <2> QED BY <2>2, <2>3 DEF StarterStays
<1> QED BY <1>1, <1>2, <1>4, <1>5, JobMoves

\* A call, in time or late, reaches Step Functions.
LEMMA StartExecutionRests ==
    ASSUME Inv2, Inv1', NEW p \in Procs, StartExecution(p)
    PROVE  Inv2'
<1> DEFINE s == proc[p].snap
           j == s.job
<1>1. /\ UNCHANGED <<row, inst, vol, proc>> /\ AtStart(p) /\ exec[j].st = "absent"
      /\ exec' = [exec EXCEPT ![j].st = "running"]
      /\ StartOK(s, proc[p].kind, proc[p].undo) /\ j # 0 /\ s \in Row
  BY AtStartIs DEF StartExecution, world, Inv2
<1>2. j \in Jobs /\ JobFits(s, exec)
  BY <1>1, SnapIs DEF Inv2, ProcsInv, ProcInv, SnapInv
<1>3. ASSUME NEW q \in Procs, Starter(proc[q]), proc[q].snap.job = j, proc[q].pc # "start"
      PROVE  FALSE
  <2>1. exec[j].op \in BootOps
    BY <1>3 DEF Inv2, ProcsInv, ProcInv, StarterInv
  <2>2. s.state \notin Stopping \cup {"RETIRING"}
    BY <1>1, <1>2, <2>1 DEF JobFits, BootOps
  <2>3. Starter(proc[p]) /\ q # p
    BY <1>1, <1>3, <2>2 DEF StartOK, Stopping, Starter, AtStart
  <2> QED BY <1>3, <2>3 DEF Inv2, ProcsInv, OneStarter
<1> QED BY <1>1, <1>2, <1>3, StartRests

\* The same, after its caller moved on.
LEMMA LateStartRests ==
    ASSUME Inv2, Inv1', LateStartExecution
    PROVE  Inv2'
<1>1. /\ UNCHANGED <<row, inst, vol, proc>> /\ row.job # 0 /\ row.err \in StartUnknown
      /\ exec[row.job].st = "absent" /\ exec' = [exec EXCEPT ![row.job].st = "running"]
      /\ row.job \in Jobs
  BY SnapIs DEF LateStartExecution, world, Inv2, Inv1, TypeOK
<1>2. \A q \in Procs : ~(Starter(proc[q]) /\ proc[q].snap.job = row.job)
  BY <1>1 DEF Inv2, ProcsInv, ProcInv, StarterInv
<1> QED BY <1>1, <1>2, StartRests

\* The execution of a job that goes on and the job's own part of the invariant.
LEMMA RunningIs ==
    ASSUME Inv2, NEW j \in Jobs, exec[j].st = "running"
    PROVE  /\ exec[j] \in Exec /\ ExecOK(exec[j]) /\ exec[j] # NoExec /\ exec[j].op # "none"
           /\ exec[j].op \in BootOps \cup EndOps /\ JobInv(j)
           /\ exec[j].epoch \in Epochs /\ exec[j].fence \in Epochs /\ exec[j].fence # 0
           /\ exec[j].epoch # 0 /\ exec[j].src \in 0..MaxEpoch
           /\ exec[j].op # "provision" => exec[j].src \in Epochs
           /\ exec[j].op = "replace" => exec[j].prevFence # 0
<1>1. exec[j] \in Exec /\ ExecOK(exec[j]) /\ exec[j] # NoExec
  BY RecordedIs DEF Inv2
<1>2. exec[j].op # "none"
  BY <1>1 DEF Exec, Operation
<1>3. JobInv(j)
  BY DEF Inv2, JobsInv
<1>4. exec[j].op = "replace" => exec[j].prevFence # 0
  BY <1>1, Bounds DEF ExecOK, Exec
<1> QED BY <1>1, <1>2, <1>3, <1>4, ExecIs, Bounds DEF Inv2, Epochs

\* The authority answers for the row's own job only.
LEMMA AuthorityIs ==
    ASSUME Inv2, NEW j \in Jobs, exec[j].st = "running", Authority(j)
    PROVE  /\ row.job = j /\ row.epoch = exec[j].epoch /\ row.state # "MOUNTING"
           /\ exec[j].op \in BootOps => row.state \in Booting /\ BootOf(j)
           /\ exec[j].op \in EndOps => row.inst = exec[j].src /\ row.state \notin Booting
<1>1. row.job = j /\ row.epoch = exec[j].epoch /\ row.state \in IN_FLIGHT_STATES /\ j # 0
  BY BoundsAssumption DEF Authority, Jobs
<1>2. JobFits(row, exec) /\ exec[j].op \in BootOps \cup EndOps
  BY RunningIs DEF Inv2, RowInv
<1> QED BY <1>1, <1>2 DEF JobFits, IN_FLIGHT_STATES, Booting, Stopping, BootOps, EndOps, BootOf

\* What the helper of a launch asks for, and that it asks until the boot is
\* over.
LEMMA LaunchAsks ==
    ASSUME Inv2, NEW j \in Jobs, exec[j].st = "running", exec[j].op \in {"provision", "replace"},
           NEW call, call = observe(exec[j])
    PROVE  /\ call = "createVolume" => vol.fence = 0
           /\ call \in {"run", "tag", "attach", "stop", "terminate"} =>
                vol.fence # 0 /\ vol.at # exec[j].epoch
           /\ call = "run" => /\ inst[exec[j].epoch].st = "none"
                              /\ exec[j].op = "replace" => inst[exec[j].src].st = "gone"
           /\ call # "boot" /\ call # "lost"
           /\ call = "succeeded" => inst[exec[j].epoch].st # "none" /\ vol.fence = exec[j].fence
           /\ Over(j) => call \in {"none", "succeeded"}
<1> DEFINE x == exec[j]
<1>1. /\ x.fence # 0 /\ x.epoch # 0 /\ (x.op = "replace" => x.prevFence # 0)
      /\ x.epoch \in Nat /\ x.src \in Nat /\ JobInv(j)
  BY RunningIs, Bounds DEF Epochs
<1>2. LaunchInv(j)
  BY <1>1 DEF JobInv
<1>3. x.op = "replace" => x.src # x.epoch
  BY <1>1, <1>2 DEF LaunchInv
<1>4. Over(j) => /\ inst[x.epoch].st # "none" /\ vol.fence = x.fence
                 /\ inst[x.epoch].st = "running" => vol.at = x.epoch
  BY DEF Over
<1>5. CASE x.op = "provision" /\ vol.fence = 0
  <2>1. call = "createVolume"
    BY <1>5 DEF observe
  <2>2. ~Over(j)
    BY <1>1, <1>4, <1>5
  <2> QED BY <1>5, <2>1, <2>2
<1>6. CASE call = Launch(x) /\ vol.fence # 0 /\ (x.op = "replace" => inst[x.src].st = "gone")
  <2>1. /\ call \in {"run", "tag", "attach", "none", "succeeded"}
        /\ call \in {"run", "tag", "attach"} => vol.at = 0
        /\ call = "run" => inst[x.epoch].st = "none"
        /\ call = "succeeded" => inst[x.epoch].st # "none" /\ vol.fence = x.fence
    BY <1>6 DEF Launch
  <2>2. Over(j) => call \in {"none", "succeeded"}
    BY <1>1, <1>4, <1>6 DEF Launch
  <2> QED BY <1>1, <1>6, <2>1, <2>2
<1>7. CASE x.op = "replace" /\ call \in {"none", EndSource(x, "none")} /\ vol.fence # 0
           /\ inst[x.src].st # "gone"
  <2>1. call \in {"none", "stop", "terminate"} /\ (call # "none" => vol.at = x.src)
    BY <1>7 DEF EndSource
  <2>2. ~Over(j)
    BY <1>2, <1>4, <1>7 DEF LaunchInv
  <2> QED BY <1>1, <1>3, <1>7, <2>1, <2>2
<1>8. CASE call = "none"
  BY <1>8
<1>9. x.op = "replace" =>
        \/ call = "none"
        \/ /\ vol.fence # 0
           /\ call = IF inst[x.src].st = "gone" THEN Launch(x) ELSE EndSource(x, "none")
  BY <1>1 DEF observe, Met
<1>10. x.op = "provision" => call = IF vol.fence = 0 THEN "createVolume" ELSE Launch(x)
  BY DEF observe
<1> QED BY <1>5, <1>6, <1>7, <1>8, <1>9, <1>10

\* The helper authorizes a call.
LEMMA ExecArmRests ==
    ASSUME Inv2, Inv1', NEW j \in Jobs, ExecArm(j)
    PROVE  Inv2'
<1> DEFINE x == exec[j]
           call == observe(x)
           new == [x EXCEPT !.armed = call, !.ran = @ \/ call \in {"run", "boot"}]
<1>1. /\ UNCHANGED <<row, inst, vol, proc>> /\ x.st = "running" /\ x.armed = "none"
      /\ Authority(j) /\ call \in Mutation
  BY DEF ExecArm, Running, world
<1>2. /\ x \in Exec /\ x.op # "none" /\ x.op \in BootOps \cup EndOps /\ JobInv(j)
  BY <1>1, RunningIs
<1>3. /\ new \in Exec /\ new.op = x.op /\ new.gen = x.gen
      /\ new.epoch = x.epoch /\ new.fence = x.fence /\ new.src = x.src
      /\ new.prevGen = x.prevGen /\ new.prevFence = x.prevFence
      /\ new.armed = call /\ new.st = "running" /\ new.ran = (x.ran \/ call \in {"run", "boot"})
      /\ exec' = [exec EXCEPT ![j] = new]
  BY <1>1, <1>2 DEF Exec, ExecArm, Mutation
<1> HIDE DEF new, call
<1>4. exec'[j] = new
  BY <1>3 DEF Inv2, Inv1, TypeOK
<1>5. /\ row.job = j /\ row.epoch = x.epoch /\ row.state # "MOUNTING"
      /\ x.op \in BootOps => row.state \in Booting
  BY <1>1, AuthorityIs
<1>6. x.op \in BootOps => BootInv(j)'
  BY <1>1, <1>2, <1>3, <1>4, <1>5 DEF JobInv, BootInv, ResultInstance
<1>7. x.op = "start" => StartInv(j)'
  <2> HAVE x.op = "start"
  <2>1. call = "boot" /\ ~x.ran
    BY <1>1 DEF observe, Mutation, call
  <2> QED BY <1>1, <1>2, <1>3, <1>4, <2>1 DEF JobInv, StartInv, BootOps
<1>8. x.op \in {"provision", "replace"} => LaunchInv(j)' /\ ~Over(j)
  <2> HAVE x.op \in {"provision", "replace"}
  <2>1. /\ call = "createVolume" => vol.fence = 0
        /\ call # "createVolume" => vol.fence # 0 /\ vol.at # x.epoch
        /\ call = "run" => /\ inst[x.epoch].st = "none"
                           /\ x.op = "replace" => inst[x.src].st = "gone"
        /\ call # "boot" /\ ~Over(j)
    BY <1>1, LaunchAsks DEF Mutation, call
  <2>2. vol.fence = 0 => vol.at = 0 /\ x.epoch # 0
    BY <1>1, RunningIs DEF Inv2, RowInv
  <2> QED BY <1>1, <1>2, <1>3, <1>4, <2>1, <2>2 DEF JobInv, LaunchInv
<1>9. x.op \in EndOps => EndInv(j)'
  <2> HAVE x.op \in EndOps
  <2>1. call \in {"stop", "terminate"}
    BY <1>1 DEF observe, EndSource, Mutation, EndOps, call
  <2> QED BY <1>1, <1>2, <1>3, <1>4, <2>1 DEF JobInv, EndInv
<1>10. JobInv(j)'
  BY <1>1, <1>2, <1>3, <1>4, <1>6, <1>7, <1>8, <1>9 DEF JobInv
<1>11. BootOf(j) /\ Over(j) /\ x.op # "start" => new.armed = "none"
  BY <1>8 DEF BootOf, BootOps
<1> QED BY <1>1, <1>2, <1>3, <1>10, <1>11, JobMoves

\* An execution ends, or a call of it gets no answer.
LEMMA EndsRests ==
    ASSUME Inv2, Inv1', NEW j \in Jobs, NEW st \in {"running", "succeeded", "lost", "failed"},
           NEW ran \in BOOLEAN,
           exec[j].st = "running",
           exec' = [exec EXCEPT ![j].armed = "none", ![j].st = st, ![j].ran = ran],
           UNCHANGED <<row, inst, vol, proc>>,
           ran = exec[j].ran \/ exec[j].armed # "none",
           st = "succeeded" /\ exec[j].op \in {"provision", "replace"} =>
             inst[exec[j].epoch].st # "none" /\ vol.fence = exec[j].fence,
           st \in {"succeeded", "lost"} /\ exec[j].op \in EndOps => Down
    PROVE  Inv2'
<1> DEFINE x == exec[j]
           new == [x EXCEPT !.armed = "none", !.st = st, !.ran = ran]
<1>1. /\ x \in Exec /\ x.op # "none" /\ x.op \in BootOps \cup EndOps /\ JobInv(j)
  BY RunningIs
<1>2. /\ new \in Exec /\ new.op = x.op /\ new.gen = x.gen
      /\ new.epoch = x.epoch /\ new.fence = x.fence /\ new.src = x.src
      /\ new.prevGen = x.prevGen /\ new.prevFence = x.prevFence
      /\ new.armed = "none" /\ new.st = st /\ new.ran = ran
      /\ exec' = [exec EXCEPT ![j] = new]
  BY <1>1 DEF Exec
<1> HIDE DEF new
<1>3. exec'[j] = new
  BY <1>2 DEF Inv2, Inv1, TypeOK
<1>4. x.op \in BootOps => BootInv(j)'
  BY <1>1, <1>2, <1>3 DEF JobInv, BootInv, ResultInstance
<1>5. x.op = "start" => StartInv(j)'
  BY <1>1, <1>2, <1>3 DEF JobInv, StartInv
<1>6. x.op \in {"provision", "replace"} => LaunchInv(j)'
  BY <1>1, <1>2, <1>3 DEF JobInv, LaunchInv
<1>7. x.op \in EndOps => EndInv(j)'
  BY <1>1, <1>2, <1>3 DEF JobInv, EndInv, Down, NoneRuns
<1>8. JobInv(j)'
  BY <1>1, <1>2, <1>3, <1>4, <1>5, <1>6, <1>7 DEF JobInv
<1> QED BY <1>1, <1>2, <1>8, JobMoves

\* An execution of the row's job succeeds: a launch is attached, an end has
\* ended what it was to end.
LEMMA ExecSucceedRests ==
    ASSUME Inv2, Inv1', NEW j \in Jobs, ExecSucceed(j)
    PROVE  Inv2'
<1> DEFINE x == exec[j]
           st == observe(x)
<1>1. /\ UNCHANGED <<row, inst, vol, proc>> /\ x.st = "running" /\ x.armed = "none"
      /\ Authority(j) /\ st \in {"succeeded", "lost"}
      /\ exec' = [exec EXCEPT ![j].st = st]
  BY DEF ExecSucceed, Running, world
<1>2. /\ x \in Exec /\ x.op \in BootOps \cup EndOps /\ JobInv(j)
  BY <1>1, RunningIs
<1>3. exec' = [exec EXCEPT ![j].armed = "none", ![j].st = st, ![j].ran = x.ran]
  <2>1. [x EXCEPT !.st = st] = [x EXCEPT !.armed = "none", !.st = st, !.ran = x.ran]
    BY <1>1, <1>2 DEF Exec
  <2> QED BY <1>1, <2>1
<1>4. st = "succeeded" /\ x.op \in {"provision", "replace"} =>
         inst[x.epoch].st # "none" /\ vol.fence = x.fence
  BY <1>1, LaunchAsks
<1>5. x.op \in EndOps => Down
  <2> HAVE x.op \in EndOps
  <2>1. inst[x.src].st # "running"
    BY <1>1 DEF observe, EndSource, EndOps
  <2>2. row.inst = x.src /\ row.state \notin Booting /\ x.src # 0
    BY <1>1, <1>2, AuthorityIs, RunningIs, Bounds DEF EndOps, Epochs
  <2>3. ASSUME NEW i \in Epochs, inst[i].st = "running"
        PROVE  FALSE
    BY <2>1, <2>2, <2>3 DEF Inv2, RowInv, InstInv, AliveInv, Alive
  <2> QED BY <1>2, <2>2, <2>3 DEF Down, NoneRuns, JobInv, EndOps
<1> HIDE DEF st
<1> QED BY <1>1, <1>2, <1>3, <1>4, <1>5, EndsRests DEF Exec

\* An execution fails.
LEMMA ExecFailRests ==
    ASSUME Inv2, Inv1', NEW j \in Jobs, ExecFail(j)
    PROVE  Inv2'
<1> DEFINE x == exec[j]
<1>1. /\ UNCHANGED <<row, inst, vol, proc>> /\ x.st = "running" /\ x.armed = "none"
      /\ exec' = [exec EXCEPT ![j].st = "failed"]
  BY DEF ExecFail, Running, world
<1>2. x \in Exec
  BY <1>1, RunningIs
<1>3. exec' = [exec EXCEPT ![j].armed = "none", ![j].st = "failed", ![j].ran = x.ran]
  <2>1. [x EXCEPT !.st = "failed"] = [x EXCEPT !.armed = "none", !.st = "failed", !.ran = x.ran]
    BY <1>1, <1>2 DEF Exec
  <2> QED BY <1>1, <2>1
<1> QED BY <1>1, <1>2, <1>3, EndsRests DEF Exec

-----------------------------------------------------------------------------
(* The calls on EC2, and what hosts do by themselves.                      *)

\* At most authorized calls are done with.
OnlyDisarms ==
    /\ SameJobs
    /\ \A k \in Jobs : /\ exec'[k].st = exec[k].st /\ exec'[k].ran = exec[k].ran
                       /\ exec'[k].armed \in {exec[k].armed, "none"}

\* Instances stop or end, and the volume leaves one that ended.
Winds ==
    /\ \A i \in Epochs :
          /\ inst'[i].boot = inst[i].boot
          /\ \/ inst'[i].st = inst[i].st
             \/ inst[i].st = "running" /\ inst'[i].st = "stopped"
             \/ inst[i].st # "none" /\ inst'[i].st = "gone"
    /\ vol'.fence = vol.fence
    /\ \/ vol'.at = vol.at
       \/ vol'.at = 0 /\ (vol.at \in Epochs => inst'[vol.at].st = "gone")

\* A step that leaves the row and the invocations, and marks nothing.
LEMMA WorkRests ==
    ASSUME Inv2, Inv1', Evolves, JobsInv', RowInv', proc' = proc, row' = row, OnlyDisarms
    PROVE  Inv2'
<1>1. ASSUME NEW q \in Procs
      PROVE  StarterStays(proc[q])
  <2>1. Starter(proc[q]) => proc[q].snap.job # 0
    BY DEF Inv2, ProcsInv, ProcInv, StarterInv
  <2>2. Starter(proc[q]) => proc[q].snap.job \in Jobs
    BY <2>1, SnapIs DEF Inv2, Inv1, ProcsOK, RowOK
  <2> QED BY <2>2 DEF StarterStays, OnlyDisarms
<1> QED BY <1>1, NoneMoves

\* The jobs grow by what is done with.
LEMMA DisarmsGrow ==
    ASSUME OnlyDisarms
    PROVE  JobsGrow(exec, exec')
BY DEF OnlyDisarms, SameJobs, JobsGrow

\* What ends brings nothing to life.
LEMMA WindsRests ==
    ASSUME Inv2, Inv1', OnlyDisarms, Winds, UNCHANGED <<row, proc>>
    PROVE  Inv2'
<1>1. /\ SameJobs /\ row \in Row /\ row.epoch \in Nat /\ RowInv
      /\ JobFits(row, exec') /\ (\A k \in Jobs : BootOf(k)' = BootOf(k))
      /\ row.inst # 0 => row.inst \in Epochs
      /\ row.job # 0 => row.job \in Jobs
  BY SameFits, SnapIs, Bounds DEF OnlyDisarms, Inv2, Inv1, TypeOK, Row
<1>2. NoneRuns => NoneRuns'
  BY DEF NoneRuns, Winds
<1>3. Down => Down'
  BY <1>2 DEF Down
<1>4. ASSUME NEW k \in Jobs, exec[k].op # "none"
      PROVE  JobInv(k)'
  <2> DEFINE x == exec[k]
  <2>1. /\ JobInv(k) /\ x.op \in BootOps \cup EndOps /\ x.epoch \in Epochs /\ x.src \in 0..MaxEpoch
        /\ x.src # 0 => x.src \in Epochs
        /\ x.epoch # 0 /\ (x.op # "provision" => x.src \in Epochs)
    BY <1>4, ExecIs, Bounds DEF Inv2, JobsInv, Epochs
  <2>0. /\ exec'[k].op = x.op /\ exec'[k].epoch = x.epoch /\ exec'[k].fence = x.fence
        /\ exec'[k].src = x.src /\ exec'[k].prevFence = x.prevFence
        /\ exec'[k].gen = x.gen /\ exec'[k].prevGen = x.prevGen
        /\ exec'[k].st = x.st /\ exec'[k].ran = x.ran /\ exec'[k].armed \in {x.armed, "none"}
    BY DEF OnlyDisarms, SameJobs
  <2>2. x.op \in BootOps => BootInv(k)'
    <3> HAVE x.op \in BootOps
    <3>1. BootInv(k)
      BY <1>4, <2>1 DEF JobInv
    <3>2. ResultInstance(exec'[k]) = ResultInstance(x)
      BY <2>0 DEF ResultInstance
    <3>3. \A i \in Epochs : inst'[i].boot = inst[i].boot
      BY DEF Winds
    <3> QED BY <2>0, <3>1, <3>2, <3>3 DEF BootInv
  <2>3. x.op = "start" => StartInv(k)'
    <3> HAVE x.op = "start"
    <3>1. StartInv(k) /\ x.src \in Epochs
      BY <2>1 DEF JobInv
    <3> QED BY <1>2, <3>1 DEF StartInv, OnlyDisarms, SameJobs, Winds
  <2>4. x.op \in {"provision", "replace"} => LaunchInv(k)'
    <3> HAVE x.op \in {"provision", "replace"}
    <3>1. LaunchInv(k)
      BY <2>1 DEF JobInv
    <3>2. /\ exec'[k].armed # "none" => exec'[k].armed = x.armed
          /\ inst[x.epoch].st = "none" <=> inst'[x.epoch].st = "none"
          /\ vol'.fence = vol.fence /\ vol'.at \in {vol.at, 0} /\ exec'[k].st = x.st
      BY <2>1 DEF OnlyDisarms, Winds
    <3>3. x.op = "replace" => (inst[x.src].st = "gone" => inst'[x.src].st = "gone")
      BY <2>1 DEF Winds
    <3> QED BY <2>0, <2>1, <3>1, <3>2, <3>3 DEF LaunchInv
  <2>5. x.op \in EndOps => EndInv(k)'
    BY <1>3, <1>4, <2>0, <2>1 DEF JobInv, EndInv
  <2>6. x.src # 0 => inst'[x.src].st # "none"
    BY <1>4, <2>1 DEF JobInv, Winds
  <2> QED BY <1>1, <1>4, <2>0, <2>1, <2>2, <2>3, <2>4, <2>5, <2>6 DEF JobInv
<1>5. JobsInv'
  <2>1. \A k \in Jobs : JobInv(k)'
    BY <1>1, <1>4 DEF JobInv, SameJobs
  <2> QED BY <1>1, <2>1 DEF JobsInv, OneBoot, SameJobs, Inv2
<1>6. RowInv'
  <2>1. ASSUME NEW i \in Epochs
        PROVE  InstInv(i)'
    <3>1. InstInv(i) /\ (Alive(i)' => Alive(i))
      BY <1>1 DEF RowInv, Winds, Alive
    <3>2. AliveInv(i) => AliveInv(i)'
      BY <1>1 DEF AliveInv, SameJobs
    <3> QED BY <1>1, <3>1, <3>2 DEF InstInv, Winds
  <2>2. row.job # 0 => exec'[row.job].op = exec[row.job].op
                       /\ exec'[row.job].fence = exec[row.job].fence
    BY <1>1 DEF SameJobs
  <2>3. row.inst # 0 => inst'[row.inst].st # "none"
    BY <1>1 DEF RowInv, Winds
  <2>4. vol'.fence = 0 => vol'.at = 0 /\ \A i \in Epochs : inst'[i].st = "none"
    BY <1>1 DEF RowInv, Winds
  <2>5. row.state \in Booting => row.job # 0
    BY <1>1 DEF RowInv, JobFits
  <2> QED BY <1>1, <1>3, <2>1, <2>2, <2>3, <2>4, <2>5 DEF RowInv, Winds
<1>7. Evolves
  <2>1. ASSUME NEW k \in Jobs, BootOf(k)
        PROVE  /\ Over(k) => Over(k)'
               /\ exec[k].op = "replace" => (NotReplaced(k) => NotReplaced(k)')
    <3> DEFINE x == exec[k]
    <3>1. /\ x.op # "none" /\ x.op \in BootOps /\ x.epoch \in Epochs /\ x.src \in 0..MaxEpoch
          /\ x.op # "provision" => x.src \in Epochs
      BY <2>1, ExecIs DEF BootOf, BootOps, Inv2
    <3>2. JobInv(k) /\ (x.op = "provision" => x.src = 0)
      BY <3>1 DEF Inv2, JobsInv, JobInv, LaunchInv
    <3>3. /\ exec'[k].op = x.op /\ exec'[k].epoch = x.epoch /\ exec'[k].fence = x.fence
          /\ exec'[k].src = x.src /\ exec'[k].prevFence = x.prevFence
          /\ x.armed = "none" => exec'[k].armed = "none"
      BY <1>1 DEF SameJobs, OnlyDisarms
    <3>4. Over(k) => Over(k)'
      BY <3>1, <3>3 DEF Over, Winds
    <3>5. x.op = "replace" => (NotReplaced(k) => NotReplaced(k)')
      BY <3>1, <3>3 DEF NotReplaced, Winds
    <3> QED BY <3>4, <3>5
  <2>2. \A i \in Epochs : /\ inst[i].st = "gone" => inst'[i].st = "gone"
                          /\ inst[i].st # "none" => inst'[i].st # "none"
    BY DEF Winds
  <2> QED BY <1>1, <1>3, <2>1, <2>2, DisarmsGrow DEF Evolves, Within, GenStays
<1> QED BY <1>5, <1>6, <1>7, WorkRests

\* A call that is performed is done with.
LEMMA CallDone ==
    ASSUME Inv2, NEW j \in Jobs, exec[j].armed # "none",
           exec' = [exec EXCEPT ![j].armed = "none"]
    PROVE  OnlyDisarms /\ exec'[j].armed = "none" /\ exec[j].st = "running"
<1>1. exec \in [Jobs -> Exec \cup {NoExec}]
  BY DEF Inv2, Inv1, TypeOK
<1>2. exec[j] \in Exec /\ exec[j].st = "running"
  BY DEF Inv2, Inv1, ExecsOK, ExecOK, NoExec
<1>3. /\ \A k \in Jobs : k # j => exec'[k] = exec[k]
      /\ exec'[j] = [exec[j] EXCEPT !.armed = "none"]
  BY <1>1
<1>4. /\ exec'[j].op = exec[j].op /\ exec'[j].gen = exec[j].gen
      /\ exec'[j].epoch = exec[j].epoch /\ exec'[j].fence = exec[j].fence
      /\ exec'[j].src = exec[j].src /\ exec'[j].prevGen = exec[j].prevGen
      /\ exec'[j].prevFence = exec[j].prevFence
      /\ exec'[j].st = exec[j].st /\ exec'[j].ran = exec[j].ran /\ exec'[j].armed = "none"
  BY <1>2, <1>3 DEF Exec
<1> QED BY <1>2, <1>3, <1>4 DEF OnlyDisarms, SameJobs

\* A boot with a call to be performed is the row's, and the only one.
LEMMA ArmedBoot ==
    ASSUME Inv2, NEW j \in Jobs, exec[j].op \in BootOps, exec[j].armed # "none"
    PROVE  /\ row.job = j /\ row.epoch = exec[j].epoch /\ row.state \in Booting /\ BootOf(j)
           /\ exec[j].st = "running" /\ ~Over(j)
           /\ \A k \in Jobs : exec[k].op \in BootOps /\ exec[k].epoch = row.epoch => k = j
           /\ \A k \in Jobs : exec[k].op \in BootOps /\ exec[k].armed # "none" => k = j
           /\ \A k \in Jobs : exec[k].op \in EndOps => exec[k].epoch # row.epoch
<1>1. \A k \in Jobs : JobInv(k)
  BY DEF Inv2, JobsInv
<1>2. \A k \in Jobs : exec[k].op \in BootOps => BootInv(k)
  BY <1>1 DEF JobInv, BootOps
<1>3. \A k \in Jobs : exec[k].op \in EndOps => EndInv(k)
  BY <1>1 DEF JobInv, EndOps
<1>4. row.job = j /\ row.epoch = exec[j].epoch /\ row.state \in Booting
  BY <1>2 DEF BootInv
<1>5. BootOf(j) /\ (\A k \in Jobs : BootOf(k) => k = j)
  BY <1>4, BootIs DEF BootOf
<1>6. ~Over(j)
  BY <1>1 DEF Over, JobInv, StartInv
<1>7. exec[j].st = "running"
  BY <1>5, BootIs
<1>8. \A k \in Jobs : exec[k].op \in BootOps /\ exec[k].armed # "none" => k = j
  BY <1>2, <1>4 DEF BootInv
<1>9. \A k \in Jobs : exec[k].op \in EndOps => exec[k].epoch # row.epoch
  BY <1>3, <1>4 DEF EndInv
<1> QED BY <1>4, <1>5, <1>6, <1>7, <1>8, <1>9 DEF BootOf

\* A start goes on being one that boots once.
LEMMA StartStays ==
    ASSUME Inv2, OnlyDisarms, row' = row, NEW k \in Jobs, exec[k].op = "start",
           inst'[exec[k].src].boot = exec[k].epoch => inst[exec[k].src].boot = exec[k].epoch,
           exec[k].st = "absent" /\ exec[k].epoch = row.epoch => NoneRuns'
    PROVE  StartInv(k)'
<1>1. StartInv(k)
  BY DEF Inv2, JobsInv, JobInv
<1> QED BY <1>1 DEF StartInv, OnlyDisarms, SameJobs

\* A launch without a call to come goes on being what was asked for.
LEMMA LaunchStays ==
    ASSUME Inv2, OnlyDisarms, row' = row, NEW k \in Jobs, exec[k].op \in {"provision", "replace"},
           exec'[k].armed = "none",
           exec[k].st = "succeeded" =>
             /\ inst'[exec[k].epoch].st # "none"
             /\ exec[k].epoch = row.epoch => vol'.fence = exec[k].fence,
           exec[k].op = "replace" /\ inst'[exec[k].epoch].st # "none" =>
             inst'[exec[k].src].st = "gone"
    PROVE  LaunchInv(k)'
<1>1. LaunchInv(k)
  BY DEF Inv2, JobsInv, JobInv
<1>2. /\ exec'[k].op = exec[k].op /\ exec'[k].epoch = exec[k].epoch
      /\ exec'[k].fence = exec[k].fence /\ exec'[k].src = exec[k].src
      /\ exec'[k].gen = exec[k].gen /\ exec'[k].prevGen = exec[k].prevGen
      /\ exec'[k].prevFence = exec[k].prevFence /\ exec'[k].st = exec[k].st
  BY DEF OnlyDisarms, SameJobs
<1> QED BY <1>1, <1>2 DEF LaunchInv

\* A call of the row's boot is performed.
LEMMA BootCallRests ==
    ASSUME Inv2, Inv1', NEW j \in Jobs, exec[j].op \in BootOps, exec[j].armed # "none",
           OnlyDisarms, exec'[j].armed = "none", UNCHANGED <<row, proc>>,
           \A i \in Epochs : /\ inst[i].st = "gone" => inst'[i].st = "gone"
                             /\ inst[i].st # "none" => inst'[i].st # "none",
           \A k \in Jobs : /\ exec[k].op = "start" => StartInv(k)'
                           /\ exec[k].op \in {"provision", "replace"} => LaunchInv(k)',
           \A k \in Jobs, i \in Epochs :
               exec[k].op \in BootOps /\ inst'[i].boot = exec[k].epoch =>
               i = ResultInstance(exec[k]),
           \A i \in Epochs : InstInv(i)',
           exec[j].op = "replace" /\ row.inst # 0 => vol'.fence = exec[j].fence,
           vol'.fence = 0 => vol'.at = 0 /\ \A i \in Epochs : inst'[i].st = "none"
    PROVE  Inv2'
<1>1. /\ row.job = j /\ row.epoch = exec[j].epoch /\ row.state \in Booting /\ BootOf(j)
      /\ exec[j].st = "running" /\ ~Over(j)
      /\ \A k \in Jobs : exec[k].op \in BootOps /\ exec[k].epoch = row.epoch => k = j
      /\ \A k \in Jobs : exec[k].op \in BootOps /\ exec[k].armed # "none" => k = j
      /\ \A k \in Jobs : exec[k].op \in EndOps => exec[k].epoch # row.epoch
  BY ArmedBoot
<1>2. /\ SameJobs /\ JobFits(row, exec') /\ (\A k \in Jobs : BootOf(k)' = BootOf(k))
      /\ row \in Row /\ row.epoch \in Nat /\ RowInv
      /\ row.inst # 0 => row.inst \in Epochs
  BY SameFits, SnapIs, Bounds DEF OnlyDisarms, Inv2, Inv1, TypeOK, Row
<1>3. ASSUME NEW k \in Jobs, exec[k].op # "none"
      PROVE  JobInv(k)'
  <2> DEFINE x == exec[k]
  <2>1. JobInv(k) /\ x.op \in BootOps \cup EndOps /\ x.src \in 0..MaxEpoch
        /\ (x.src # 0 => x.src \in Epochs)
    BY <1>3, ExecIs, Bounds DEF Inv2, JobsInv, Epochs
  <2>2. /\ exec'[k].op = x.op /\ exec'[k].epoch = x.epoch /\ exec'[k].fence = x.fence
        /\ exec'[k].src = x.src /\ exec'[k].armed \in {x.armed, "none"}
        /\ exec'[k].st = x.st
    BY DEF OnlyDisarms, SameJobs
  <2>3. x.op \in BootOps => BootInv(k)'
    <3>1. x.op \in BootOps => exec'[k].armed = "none"
      BY <1>1, <2>2
    <3>2. ResultInstance(exec'[k]) = ResultInstance(x)
      BY <2>2 DEF ResultInstance
    <3>3. row.state # "MOUNTING"
      BY <1>1 DEF Booting
    <3> QED BY <2>2, <3>1, <3>2, <3>3 DEF BootInv
  <2>4. x.op \in EndOps => EndInv(k)'
    BY <1>1, <1>3, <2>1, <2>2 DEF JobInv, EndInv
  <2>5. x.src # 0 => inst'[x.src].st # "none"
    BY <1>3, <2>1 DEF JobInv
  <2> QED BY <1>3, <2>1, <2>2, <2>3, <2>4, <2>5 DEF JobInv
<1>4. JobsInv'
  <2>1. \A k \in Jobs : JobInv(k)'
    BY <1>2, <1>3 DEF JobInv, SameJobs
  <2> QED BY <1>2, <2>1 DEF JobsInv, OneBoot, SameJobs, Inv2
<1>5. RowInv'
  <2>1. exec'[j].op = exec[j].op /\ exec'[j].fence = exec[j].fence
    BY <1>2 DEF SameJobs
  <2>2. row.inst # 0 => inst'[row.inst].st # "none"
    BY <1>2 DEF RowInv
  <2>3. row.state \notin AtRest \cup Stopping \cup {"RETIRING", "NONE"}
    BY <1>1 DEF Booting, AtRest, Stopping
  <2> QED BY <1>1, <1>2, <2>1, <2>2, <2>3 DEF RowInv
<1>6. Evolves
  <2>1. ~Down
    BY <1>1 DEF Down
  <2>2. \A k \in Jobs : BootOf(k) => ~Over(k) /\ exec[k].st = "running"
    BY <1>1 DEF BootOf
  <2> QED BY <1>1, <1>2, <2>1, <2>2, DisarmsGrow DEF Evolves, Within, GenStays
<1> QED BY <1>4, <1>5, <1>6, WorkRests

\* The row and the jobs name what is alive by what they keep.
LEMMA AliveStays ==
    ASSUME SameJobs, row' = row, NEW i
    PROVE  AliveInv(i)' = AliveInv(i)
BY DEF AliveInv, BootOf, SameJobs

\* A stop or a terminate is performed.
LEMMA EndCallRests ==
    ASSUME Inv2, Inv1', NEW j \in Jobs, exec[j].armed \in {"stop", "terminate"}, Ec2(exec[j]),
           exec' = [exec EXCEPT ![j].armed = "none"], UNCHANGED <<row, proc>>
    PROVE  Inv2'
<1> DEFINE x == exec[j]
<1>1. OnlyDisarms /\ x.st = "running"
  BY CallDone
<1>2. /\ x.src # 0 => inst[x.src].st # "none"
      /\ x.src \in 0..MaxEpoch
  BY <1>1, RunningIs DEF JobInv
<1>3. /\ inst \in [Epochs -> [st: {"none", "running", "stopped", "gone"}, boot: 0..MaxEpoch]]
      /\ vol \in [at: 0..MaxEpoch, fence: 0..MaxEpoch]
      /\ 0 \notin Epochs
  BY Bounds DEF Inv2, Inv1, TypeOK, Epochs
<1>4. CASE x.armed = "stop"
  <2>1. vol' = vol /\ inst' = [inst EXCEPT ![x.src].st = IF @ = "running" THEN "stopped" ELSE @]
    BY <1>4 DEF Ec2
  <2>2. ASSUME NEW i \in Epochs
        PROVE  /\ inst'[i].boot = inst[i].boot
               /\ \/ inst'[i].st = inst[i].st
                  \/ inst[i].st = "running" /\ inst'[i].st = "stopped"
    BY <1>3, <2>1
  <2>3. Winds
    BY <2>1, <2>2 DEF Winds
  <2> QED BY <1>1, <2>3, WindsRests
<1>5. CASE x.armed = "terminate"
  <2>1. /\ inst' = [inst EXCEPT ![x.src].st = "gone"]
        /\ vol' = [vol EXCEPT !.at = IF @ = x.src THEN 0 ELSE @]
    BY <1>5 DEF Ec2
  <2>2. ASSUME NEW i \in Epochs
        PROVE  /\ inst'[i].boot = inst[i].boot
               /\ inst'[i].st = inst[i].st \/ (inst[i].st # "none" /\ inst'[i].st = "gone")
    BY <1>2, <1>3, <2>1
  <2>3. /\ vol'.fence = vol.fence
        /\ vol'.at = vol.at \/ (vol'.at = 0 /\ (vol.at \in Epochs => inst'[vol.at].st = "gone"))
    BY <1>3, <2>1
  <2>4. Winds
    BY <2>2, <2>3 DEF Winds
  <2> QED BY <1>1, <2>4, WindsRests
<1> QED BY <1>4, <1>5

\* A stopped instance is booted.
LEMMA BootPerformed ==
    ASSUME Inv2, Inv1', NEW j \in Jobs, exec[j].armed = "boot", Ec2(exec[j]),
           exec' = [exec EXCEPT ![j].armed = "none"], UNCHANGED <<row, proc>>
    PROVE  Inv2'
<1> DEFINE x == exec[j]
<1>1. OnlyDisarms /\ x.st = "running" /\ exec'[j].armed = "none"
  BY CallDone
<1>2. /\ x.op \in BootOps \cup EndOps /\ JobInv(j) /\ x.epoch \in Epochs
      /\ (x.op # "provision" => x.src \in Epochs)
  BY <1>1, RunningIs
<1>3. x.op = "start" /\ StartInv(j) /\ x.src \in Epochs /\ x.op \in BootOps
  BY <1>2 DEF JobInv, LaunchInv, EndInv, BootOps, EndOps
<1>4. /\ row.job = j /\ row.epoch = x.epoch /\ row.state \in Booting
      /\ \A k \in Jobs : exec[k].op \in BootOps /\ exec[k].epoch = row.epoch => k = j
      /\ \A k \in Jobs : exec[k].op \in BootOps /\ exec[k].armed # "none" => k = j
  BY <1>3, ArmedBoot
<1>5. /\ inst \in [Epochs -> [st: {"none", "running", "stopped", "gone"}, boot: 0..MaxEpoch]]
      /\ RowInv /\ row.epoch \in Nat
  BY Bounds DEF Inv2, Inv1, TypeOK, Row
<1>6. /\ vol' = vol
      /\ inst' = [inst EXCEPT ![x.src] = IF @.st = "stopped"
                                         THEN [st |-> "running", boot |-> x.epoch] ELSE @]
  BY DEF Ec2
<1>7. ASSUME NEW i \in Epochs
      PROVE  \/ inst'[i] = inst[i]
             \/ /\ i = x.src /\ inst[i].st = "stopped"
                /\ inst'[i].st = "running" /\ inst'[i].boot = row.epoch
  BY <1>4, <1>5, <1>6
<1>8. \A i \in Epochs : /\ inst[i].st = "gone" => inst'[i].st = "gone"
                        /\ inst[i].st # "none" => inst'[i].st # "none"
                        /\ inst'[i].st # "none" => inst[i].st # "none"
                        /\ Alive(i)' => Alive(i)
  BY <1>7 DEF Alive
<1>9. ASSUME NEW k \in Jobs, exec[k].op = "start"
      PROVE  StartInv(k)'
  <2>1. CASE k = j
    BY <1>1, <1>3, <1>4, <2>1 DEF StartInv, OnlyDisarms, SameJobs
  <2>2. CASE k # j
    <3>1. exec[k].epoch # row.epoch
      BY <1>4, <1>9, <2>2 DEF BootOps
    <3>2. exec[k].src \in Epochs
      BY <1>9, ExecIs DEF Inv2
    <3>3. inst'[exec[k].src].boot = exec[k].epoch => inst[exec[k].src].boot = exec[k].epoch
      BY <1>7, <3>1, <3>2
    <3> QED BY <1>1, <1>9, <3>1, <3>3, StartStays
  <2> QED BY <2>1, <2>2
<1>10. ASSUME NEW k \in Jobs, exec[k].op \in {"provision", "replace"}
       PROVE  LaunchInv(k)'
  <2>1. exec[k].armed = "none" /\ exec'[k].armed = "none"
    BY <1>1, <1>3, <1>4, <1>10 DEF OnlyDisarms, BootOps
  <2>2. LaunchInv(k) /\ exec[k].epoch \in Epochs /\ (exec[k].op = "replace" => exec[k].src \in Epochs)
    BY <1>10, ExecIs DEF Inv2, JobsInv, JobInv
  <2>3. exec[k].st = "succeeded" =>
          /\ inst'[exec[k].epoch].st # "none"
          /\ exec[k].epoch = row.epoch => vol'.fence = exec[k].fence
    BY <1>6, <1>8, <2>2 DEF LaunchInv
  <2>4. exec[k].op = "replace" /\ inst'[exec[k].epoch].st # "none" => inst'[exec[k].src].st = "gone"
    BY <1>8, <2>1, <2>2 DEF LaunchInv
  <2> QED BY <1>1, <1>10, <2>1, <2>3, <2>4, LaunchStays
<1>11. ASSUME NEW k \in Jobs, NEW i \in Epochs, exec[k].op \in BootOps, inst'[i].boot = exec[k].epoch
       PROVE  i = ResultInstance(exec[k])
  <2>1. JobInv(k) /\ exec[k].op # "none"
    BY <1>11 DEF Inv2, JobsInv, BootOps
  <2> QED BY <1>3, <1>4, <1>7, <1>11, <2>1 DEF JobInv, BootInv, ResultInstance
<1>12. ASSUME NEW i \in Epochs
       PROVE  InstInv(i)'
  <2>1. InstInv(i) /\ AliveInv(i)' = AliveInv(i)
    BY <1>1, <1>5, AliveStays DEF RowInv, OnlyDisarms
  <2>2. inst'[i].boot <= row.epoch
    BY <1>5, <1>7, <2>1 DEF InstInv
  <2> QED BY <1>8, <2>1, <2>2 DEF InstInv
<1>13. vol'.fence = 0 => vol'.at = 0 /\ \A i \in Epochs : inst'[i].st = "none"
  BY <1>5, <1>6, <1>8 DEF RowInv
<1> QED BY <1>1, <1>3, <1>8, <1>9, <1>10, <1>11, <1>12, <1>13, BootCallRests

\* A launch's volume is created, tagged with its fence or attached.
LEMMA VolumePerformed ==
    ASSUME Inv2, Inv1', NEW j \in Jobs, exec[j].armed \in {"createVolume", "tag", "attach"},
           Ec2(exec[j]), exec' = [exec EXCEPT ![j].armed = "none"], UNCHANGED <<row, proc>>
    PROVE  Inv2'
<1> DEFINE x == exec[j]
<1>1. OnlyDisarms /\ x.st = "running" /\ exec'[j].armed = "none"
  BY CallDone
<1>2. /\ x.op \in BootOps \cup EndOps /\ JobInv(j) /\ x.epoch \in Epochs /\ x.fence # 0
  BY <1>1, RunningIs
<1>3. x.op \in {"provision", "replace"} /\ LaunchInv(j) /\ x.op \in BootOps
  BY <1>2 DEF JobInv, StartInv, EndInv, BootOps, EndOps
<1>4. /\ row.job = j /\ row.epoch = x.epoch /\ row.state \in Booting
      /\ \A k \in Jobs : exec[k].op \in BootOps /\ exec[k].epoch = row.epoch => k = j
      /\ \A k \in Jobs : exec[k].op \in BootOps /\ exec[k].armed # "none" => k = j
  BY <1>3, ArmedBoot
<1>5. RowInv /\ inst' = inst /\ (row.inst # 0 => row.inst \in Epochs)
      /\ vol \in [at: 0..MaxEpoch, fence: 0..MaxEpoch]
  BY SnapIs DEF Ec2, Inv2, Inv1, TypeOK
<1>6. /\ vol'.fence # 0
      /\ \/ vol'.fence = vol.fence
         \/ vol'.fence = x.fence /\ x.armed = "tag"
         \/ vol'.fence = x.fence /\ x.armed = "createVolume" /\ \A i \in Epochs : inst[i].st = "none"
  <2>1. CASE x.armed = "createVolume"
    <3>1. vol' = [at |-> 0, fence |-> x.fence]
      BY <2>1 DEF Ec2
    <3> QED BY <1>2, <1>3, <1>5, <2>1, <3>1 DEF LaunchInv, RowInv
  <2>2. CASE x.armed = "tag"
    <3>1. vol' = [vol EXCEPT !.fence = x.fence]
      BY <2>2 DEF Ec2
    <3> QED BY <1>2, <1>5, <2>2, <3>1
  <2>3. CASE x.armed = "attach"
    <3>1. vol' = [vol EXCEPT !.at = IF @ = 0 /\ inst[x.epoch].st = "running" THEN x.epoch ELSE @]
      BY <2>3 DEF Ec2
    <3>2. vol'.fence = vol.fence
      BY <1>5, <3>1
    <3> QED BY <1>3, <2>3, <3>2 DEF LaunchInv
  <2> QED BY <2>1, <2>2, <2>3
<1>7. ASSUME NEW k \in Jobs, exec[k].op = "start"
      PROVE  StartInv(k)'
  <2>1. exec[k].epoch # row.epoch
    BY <1>3, <1>4, <1>7 DEF BootOps
  <2> QED BY <1>1, <1>5, <1>7, <2>1, StartStays
<1>8. ASSUME NEW k \in Jobs, exec[k].op \in {"provision", "replace"}
      PROVE  LaunchInv(k)'
  <2>1. exec'[k].armed = "none" /\ (k # j => exec[k].armed = "none")
    BY <1>1, <1>4, <1>8 DEF OnlyDisarms, BootOps
  <2>2. LaunchInv(k) /\ exec[k].epoch \in Epochs
    BY <1>8, ExecIs DEF Inv2, JobsInv, JobInv
  <2>3. exec[k].st = "succeeded" /\ exec[k].epoch = row.epoch => FALSE
    BY <1>1, <1>4, <1>8 DEF BootOps
  <2>4. exec[k].st = "succeeded" => inst[exec[k].epoch].st # "none"
    BY <2>2 DEF LaunchInv
  <2>5. exec[k].op = "replace" /\ inst[exec[k].epoch].st # "none" => inst[exec[k].src].st = "gone"
    BY <2>2 DEF LaunchInv
  <2> QED BY <1>1, <1>5, <1>8, <2>1, <2>3, <2>4, <2>5, LaunchStays
<1>9. ASSUME NEW k \in Jobs, NEW i \in Epochs, exec[k].op \in BootOps, inst'[i].boot = exec[k].epoch
      PROVE  i = ResultInstance(exec[k])
  BY <1>5, <1>9 DEF Inv2, JobsInv, JobInv, BootInv, BootOps
<1>10. ASSUME NEW i \in Epochs
       PROVE  InstInv(i)'
  <2>1. InstInv(i) /\ AliveInv(i)' = AliveInv(i)
    BY <1>1, <1>5, AliveStays DEF RowInv, OnlyDisarms
  <2> QED BY <1>5, <2>1 DEF InstInv, Alive
<1>11. x.op = "replace" /\ row.inst # 0 => vol'.fence = x.fence
  <2>1. row.job # 0
    BY <1>4, Bounds DEF Jobs
  <2> QED BY <1>4, <1>5, <1>6, <2>1 DEF RowInv
<1> QED BY <1>1, <1>3, <1>5, <1>6, <1>7, <1>8, <1>9, <1>10, <1>11, BootCallRests

\* A launch's instance is run.
LEMMA RunPerformed ==
    ASSUME Inv2, Inv1', NEW j \in Jobs, exec[j].armed = "run", Ec2(exec[j]),
           exec' = [exec EXCEPT ![j].armed = "none"], UNCHANGED <<row, proc>>
    PROVE  Inv2'
<1> DEFINE x == exec[j]
           e == x.epoch
<1>1. OnlyDisarms /\ x.st = "running" /\ exec'[j].armed = "none"
  BY CallDone
<1>2. /\ x.op \in BootOps \cup EndOps /\ JobInv(j) /\ e \in Epochs
      /\ (x.op = "replace" => x.src \in Epochs)
  BY <1>1, RunningIs
<1>3. x.op \in {"provision", "replace"} /\ LaunchInv(j) /\ x.op \in BootOps
  BY <1>2 DEF JobInv, StartInv, EndInv, BootOps, EndOps
<1>4. /\ row.job = j /\ row.epoch = e /\ row.state \in Booting /\ BootOf(j)
      /\ \A k \in Jobs : exec[k].op \in BootOps /\ exec[k].epoch = row.epoch => k = j
      /\ \A k \in Jobs : exec[k].op \in BootOps /\ exec[k].armed # "none" => k = j
  BY <1>3, ArmedBoot
<1>5. /\ inst \in [Epochs -> [st: {"none", "running", "stopped", "gone"}, boot: 0..MaxEpoch]]
      /\ RowInv /\ row.epoch \in Nat /\ JobFits(row, exec)
  BY Bounds DEF Inv2, Inv1, TypeOK, Row, RowInv
<1>6. vol' = vol /\ inst' = [inst EXCEPT ![e] = [st |-> "running", boot |-> e]]
  BY DEF Ec2
<1>7. /\ inst'[e].st = "running" /\ inst'[e].boot = e
      /\ \A i \in Epochs : i # e => inst'[i] = inst[i]
  BY <1>2, <1>5, <1>6
<1>8. /\ inst[e].st = "none" /\ vol.fence # 0
      /\ x.op = "replace" => inst[x.src].st = "gone"
  BY <1>3 DEF LaunchInv
<1>9. row.inst = 0
  <2>1. row.inst \in {0, e}
    BY <1>2, <1>3, <1>4, <1>5, BoundsAssumption DEF JobFits, ResultInstance, BootOps, Jobs
  <2> QED BY <1>5, <1>8, <2>1 DEF RowInv
<1>10. ASSUME NEW k \in Jobs, exec[k].op = "start"
       PROVE  StartInv(k)'
  <2>1. exec[k].epoch # row.epoch
    BY <1>3, <1>4, <1>10 DEF BootOps
  <2>2. exec[k].src \in Epochs /\ inst[exec[k].src].st # "none"
    BY <1>10, ExecIs, Bounds DEF Inv2, JobsInv, JobInv, Epochs
  <2>3. inst'[exec[k].src] = inst[exec[k].src]
    BY <1>7, <1>8, <2>2
  <2> QED BY <1>1, <1>10, <2>1, <2>3, StartStays
<1>11. ASSUME NEW k \in Jobs, exec[k].op \in {"provision", "replace"}
       PROVE  LaunchInv(k)'
  <2>1. exec'[k].armed = "none" /\ (k # j => exec[k].armed = "none")
    BY <1>1, <1>4, <1>11 DEF OnlyDisarms, BootOps
  <2>2. LaunchInv(k) /\ exec[k].epoch \in Epochs /\ (exec[k].op = "replace" => exec[k].src \in Epochs)
    BY <1>11, ExecIs DEF Inv2, JobsInv, JobInv
  <2>3. exec[k].st = "succeeded" =>
          /\ inst'[exec[k].epoch].st # "none"
          /\ exec[k].epoch = row.epoch => vol'.fence = exec[k].fence
    BY <1>6, <1>7, <2>2 DEF LaunchInv
  <2>4. exec[k].op = "replace" /\ inst'[exec[k].epoch].st # "none" => inst'[exec[k].src].st = "gone"
    <3> HAVE exec[k].op = "replace" /\ inst'[exec[k].epoch].st # "none"
    <3>1. CASE k = j
      BY <1>2, <1>7, <1>8, <3>1
    <3>2. CASE k # j
      <4>1. exec[k].epoch # e
        BY <1>4, <1>11, <3>2 DEF BootOps
      <4>2. inst[exec[k].epoch].st # "none"
        BY <1>7, <2>2, <4>1
      <4>3. inst[exec[k].src].st = "gone"
        BY <2>1, <2>2, <3>2, <4>2 DEF LaunchInv
      <4> QED BY <1>7, <1>8, <2>2, <4>3
    <3> QED BY <3>1, <3>2
  <2> QED BY <1>1, <1>11, <2>1, <2>3, <2>4, LaunchStays
<1>12. ASSUME NEW k \in Jobs, NEW i \in Epochs, exec[k].op \in BootOps, inst'[i].boot = exec[k].epoch
       PROVE  i = ResultInstance(exec[k])
  <2>1. CASE i = e
    BY <1>3, <1>4, <1>7, <1>12, <2>1 DEF ResultInstance
  <2>2. CASE i # e
    BY <1>7, <1>12, <2>2 DEF Inv2, JobsInv, JobInv, BootInv, BootOps
  <2> QED BY <2>1, <2>2
<1>13. ASSUME NEW i \in Epochs
       PROVE  InstInv(i)'
  <2>1. InstInv(i) /\ AliveInv(i)' = AliveInv(i)
    BY <1>1, <1>5, AliveStays DEF RowInv, OnlyDisarms
  <2>2. CASE i = e
    <3>1. AliveInv(i)
      BY <1>4, <1>9, <2>2 DEF AliveInv
    <3> QED BY <1>4, <1>5, <1>7, <2>1, <2>2, <3>1 DEF InstInv
  <2>3. CASE i # e
    BY <1>7, <2>1, <2>3 DEF InstInv, Alive
  <2> QED BY <2>2, <2>3
<1>14. \A i \in Epochs : /\ inst[i].st = "gone" => inst'[i].st = "gone"
                         /\ inst[i].st # "none" => inst'[i].st # "none"
  BY <1>7, <1>8
<1> QED BY <1>1, <1>3, <1>6, <1>8, <1>9, <1>10, <1>11, <1>12, <1>13, <1>14, BootCallRests

\* Step Functions performs the call it was given, or gets no answer.
LEMMA ExecMutateRests ==
    ASSUME Inv2, Inv1', NEW j \in Jobs, ExecMutate(j)
    PROVE  Inv2'
<1>1. exec[j].armed # "none" /\ UNCHANGED <<row, proc>>
  BY DEF ExecMutate
<1>2. CASE Ec2(exec[j]) /\ exec' = [exec EXCEPT ![j].armed = "none"]
  <2>1. exec[j].armed \in Mutation
    <3>1. exec[j] # NoExec
      BY <1>1 DEF NoExec
    <3> QED BY <1>1, <3>1 DEF Inv2, Inv1, TypeOK, Exec
  <2> QED BY <1>1, <1>2, <2>1, EndCallRests, BootPerformed, VolumePerformed, RunPerformed
          DEF Mutation
<1>3. ASSUME UNCHANGED <<inst, vol>>, NEW st \in {"running", "failed"},
             exec' = [exec EXCEPT ![j].armed = "none", ![j].st = st,
                                  ![j].ran = @ /\ exec[j].armed # "boot"]
      PROVE  Inv2'
  <2> DEFINE ran == exec[j].ran /\ exec[j].armed # "boot"
  <2>1. exec[j] # NoExec
    BY <1>1 DEF NoExec
  <2>2. exec[j].st = "running" /\ ran \in BOOLEAN
    BY <1>1, <2>1 DEF Inv2, Inv1, ExecsOK, ExecOK, Exec
  <2>3. exec' = [exec EXCEPT ![j].armed = "none", ![j].st = st, ![j].ran = ran]
    BY <1>3
  <2>4. ran = exec[j].ran \/ exec[j].armed # "none"
    BY <1>1
  <2> HIDE DEF ran
  <2> QED BY <1>1, <1>3, <2>2, <2>3, <2>4, EndsRests
<1> QED BY <1>2, <1>3 DEF ExecMutate

\* The host stops itself.
LEMMA GuestShutdownRests ==
    ASSUME Inv2, Inv1', NEW i \in Epochs, GuestShutdown(i)
    PROVE  Inv2'
<1>1. /\ inst \in [Epochs -> [st: {"none", "running", "stopped", "gone"}, boot: 0..MaxEpoch]]
      /\ inst' = [inst EXCEPT ![i].st = "stopped"] /\ inst[i].st = "running"
      /\ UNCHANGED <<row, exec, vol, proc>>
  BY DEF GuestShutdown, rowVars, Inv2, Inv1, TypeOK
<1>2. Winds
  BY <1>1 DEF Winds
<1>3. OnlyDisarms
  BY <1>1 DEF OnlyDisarms, SameJobs
<1> QED BY <1>1, <1>2, <1>3, WindsRests

\* EC2 loses the instance.
LEMMA InstanceLostRests ==
    ASSUME Inv2, Inv1', NEW i \in Epochs, InstanceLost(i)
    PROVE  Inv2'
<1>1. /\ inst \in [Epochs -> [st: {"none", "running", "stopped", "gone"}, boot: 0..MaxEpoch]]
      /\ inst' = [inst EXCEPT ![i].st = "gone"] /\ inst[i].st \in {"running", "stopped"}
      /\ vol \in [at: 0..MaxEpoch, fence: 0..MaxEpoch]
      /\ vol' = [vol EXCEPT !.at = IF @ = i THEN 0 ELSE @]
      /\ UNCHANGED <<row, exec, proc>>
  BY DEF InstanceLost, rowVars, Inv2, Inv1, TypeOK
<1>2. \A k \in Epochs : /\ inst'[k].boot = inst[k].boot
                        /\ inst'[k].st = inst[k].st \/ (inst[k].st # "none" /\ inst'[k].st = "gone")
  BY <1>1
<1>3. /\ vol'.fence = vol.fence
      /\ vol'.at = vol.at \/ (vol'.at = 0 /\ (vol.at \in Epochs => inst'[vol.at].st = "gone"))
  BY <1>1
<1>4. Winds
  BY <1>2, <1>3 DEF Winds
<1>5. OnlyDisarms
  BY <1>1 DEF OnlyDisarms, SameJobs
<1> QED BY <1>1, <1>4, <1>5, WindsRests

\* Time passes.
LEMMA TimeRests ==
    ASSUME Inv2, Inv1', Age \/ Expire
    PROVE  Inv2'
<1>1. UNCHANGED <<row, exec, inst, vol, proc>>
  BY DEF Age, Expire, world
<1>2. JobsInv' /\ RowInv' /\ Evolves /\ \A v : StarterStays(v)
  BY <1>1, WorldRests
<1> QED BY <1>1, <1>2, NoneMoves

-----------------------------------------------------------------------------
(* The invocations that swap nothing.                                      *)

\* What is read says what is so.
LEMMA RowIs ==
    ASSUME Inv2
    PROVE  SnapInv(row)
<1>1. row.epoch \in Nat
  BY Bounds DEF Inv2, Inv1, TypeOK, Row
<1> QED BY <1>1 DEF SnapInv, GenStays, Same, Inv2, RowInv

\* An invocation begins, or reads the row again.
LEMMA BeginRests ==
    ASSUME Inv2, Inv1', NEW p \in Procs, (\E goal \in Goal : Begin(p, goal)) \/ ReRead(p)
    PROVE  Inv2'
<1>1. PICK v : v = proc'[p]
  OBVIOUS
<1>2. /\ UNCHANGED <<row, exec, inst, vol>> /\ v.snap = row /\ v.pc \in {"act", "receipt", "look"}
      /\ \A q \in Procs : q # p => proc'[q] = proc[q]
  <2>1. proc \in [Procs -> Proc] /\ proc[p] \in Proc
    BY DEF Inv2, Inv1, TypeOK
  <2>2. CASE \E goal \in Goal : Begin(p, goal)
    <3>1. PICK goal \in Goal : Begin(p, goal)
      BY <2>2
    <3>2. proc' = [proc EXCEPT ![p] =
                     [Idle EXCEPT !.pc = IF goal = "stop" \/ row.state = "NONE"
                                         THEN "act" ELSE "receipt",
                                  !.goal = goal, !.snap = row, !.old = aged]]
      BY <3>1 DEF Begin
    <3>3. UNCHANGED <<row, exec, inst, vol>>
      BY <3>1 DEF Begin, rowVars, world
    <3> QED BY <1>1, <2>1, <3>2, <3>3 DEF Idle
  <2>3. CASE ReRead(p)
    <3>1. proc' = [proc EXCEPT ![p].pc = IF @ = "reread" /\ proc[p].goal # "deleted"
                                         THEN "look" ELSE "act",
                               ![p].snap = row, ![p].old = aged]
      BY <2>3 DEF ReRead
    <3>2. UNCHANGED <<row, exec, inst, vol>>
      BY <2>3 DEF ReRead, rowVars, world
    <3> QED BY <1>1, <2>1, <3>1, <3>2 DEF Proc
  <2> QED BY <2>2, <2>3
<1>3. ProcInv(v) /\ ~Starter(v)
  BY <1>2, RowIs DEF ProcInv, StarterInv, Starter, GenerationInv, EnrollInv, DownInv
<1> QED BY <1>1, <1>2, <1>3, TakesOn

\* An invocation ends, reads again, or goes on with what it read.
LEMMA QuietRests ==
    ASSUME Inv2, Inv1', NEW p \in Procs,
           \/ ReceiptNothing(p) \/ ReceiptFence(p) \/ LookPassed(p) \/ Answer(p)
           \/ softDeleteComputer(p) \/ tunnelOutcomeUnknown(p) \/ Crash(p)
    PROVE  Inv2'
<1> DEFINE s == proc[p].snap
<1>1. /\ UNCHANGED <<row, exec, inst, vol>> /\ proc[p].kind \in Kind /\ "none" \in Kind
  BY DEF ReceiptNothing, ReceiptFence, LookPassed, Answer, softDeleteComputer,
     tunnelOutcomeUnknown, Crash, rowVars, world, Inv2, Inv1, TypeOK, Proc, Kind
<1>2. \/ Goto(p, "reread", NoRow, "none") \/ Goto(p, "final", s, "none")
      \/ Goto(p, "reread", s, proc[p].kind) \/ Goto(p, "act", s, "none")
      \/ Goto(p, "idle", NoRow, "none")
  BY DEF ReceiptNothing, ReceiptFence, LookPassed, Answer, softDeleteComputer,
     tunnelOutcomeUnknown, Crash, Fence
<1>3. /\ \A kind : Quiet("reread", kind) /\ Quiet("final", kind) /\ Quiet("act", kind)
                   /\ Quiet("idle", kind)
      /\ "reread" \in Resets /\ "idle" \in Resets
  BY DEF Quiet, Readings, Resets
<1>4. CASE Goto(p, "reread", NoRow, "none")
  BY <1>1, <1>3, <1>4, MoveRests
<1>5. CASE Goto(p, "final", s, "none")
  BY <1>1, <1>3, <1>5, MoveRests
<1>6. CASE Goto(p, "reread", s, proc[p].kind)
  BY <1>1, <1>3, <1>6, MoveRests
<1>7. CASE Goto(p, "act", s, "none")
  BY <1>1, <1>3, <1>7, MoveRests
<1>8. CASE Goto(p, "idle", NoRow, "none")
  BY <1>1, <1>3, <1>8, MoveRests
<1> QED BY <1>2, <1>4, <1>5, <1>6, <1>7, <1>8

\* The tunnel of a lost instance, or of a placement that owns nothing, is
\* fenced: the instance was seen gone, or none was found.
LEMMA EndFenceRests ==
    ASSUME Inv2, Inv1', NEW p \in Procs, LostFence(p) \/ ReleaseFence(p)
    PROVE  Inv2'
<1> DEFINE s == proc[p].snap
<1>1. /\ UNCHANGED <<row, exec, inst, vol>> /\ proc[p].kind \in Kind /\ "none" \in Kind
      /\ ProcInv(proc[p])
  BY DEF LostFence, ReleaseFence, rowVars, Inv2, Inv1, TypeOK, Proc, Kind, ProcsInv
<1>2. PICK v : v = proc'[p]
  OBVIOUS
<1>3. CASE LostFence(p) /\ Goto(p, "lost", s, "none")
  <2>1. s.inst # 0 /\ inst[s.inst].st = "gone"
    BY <1>3 DEF LostFence, GuestStopDue, Complete
  <2>2. /\ v.pc = "lost" /\ v.snap = s /\ \A q \in Procs : q # p => proc'[q] = proc[q]
        /\ SnapInv(s)
    BY <1>1, <1>2, <1>3, TakesIs DEF Pc, Resets
  <2>3. ProcInv(v) /\ ~Starter(v)
    BY <2>1, <2>2 DEF ProcInv, StarterInv, Starter, GenerationInv, EnrollInv, DownInv
  <2> QED BY <1>1, <1>2, <2>2, <2>3, TakesOn
<1>4. CASE ReleaseFence(p) /\ Goto(p, "release", s, "none")
  <2>1. /\ s.state \in {"UNCONFIRMED", "RECOVERING"}
        /\ \A i \in Epochs : inst[i].st \in {"none", "gone"}
    BY <1>4 DEF ReleaseFence, Unconfirmed, NothingFound
  <2>2. /\ v.pc = "release" /\ v.snap = s /\ \A q \in Procs : q # p => proc'[q] = proc[q]
        /\ SnapInv(s)
    BY <1>1, <1>2, <1>4, TakesIs DEF Pc, Resets
  <2>3. Same(s) => Down
    BY <2>1, <2>2 DEF SnapInv, Down, NoneRuns, Booting
  <2>4. ProcInv(v) /\ ~Starter(v)
    BY <2>2, <2>3 DEF ProcInv, StarterInv, Starter, GenerationInv, EnrollInv, DownInv
  <2> QED BY <1>1, <1>2, <2>2, <2>4, TakesOn
<1>5. CASE Goto(p, "act", s, proc[p].kind)
  BY <1>1, <1>5, MoveRests DEF Quiet, Readings
<1>6. CASE Goto(p, "idle", s, proc[p].kind)
  BY <1>1, <1>6, MoveRests DEF Quiet, Resets
<1> QED BY <1>3, <1>4, <1>5, <1>6 DEF LostFence, ReleaseFence, Fence

-----------------------------------------------------------------------------
(* An instance that is lost or none, and a host that is retired.           *)

\* A computer whose instance is gone, or that owns nothing, comes to rest.
LEMMA RecoverLostRests ==
    ASSUME Inv2, Inv1', NEW p \in Procs, recoverLostInstance(p)
    PROVE  Inv2'
<1> DEFINE s == proc[p].snap
           wins == CasUser(s) /\ row.inst = s.inst
           r == [row EXCEPT !.state = "STOPPED", !.job = 0, !.nonce = dropProof(@),
                            !.err = "instance_lost"]
           pc == IF proc[p].goal = "fleet" THEN "idle" ELSE "again"
<1>1. /\ UNCHANGED <<inst, vol>> /\ row \in Row /\ s.state = "RUNNING"
      /\ step(p, wins, r, "close", pc, "act")
      /\ s.inst # 0 /\ inst[s.inst].st = "gone" /\ pc \in Resets
  <2>1. proc[p].pc = "lost" /\ ProcInv(proc[p])
        /\ SnapOK(proc[p].pc, s, proc[p].kind, proc[p].undo, exec)
    BY DEF recoverLostInstance, Inv2, Inv1, ProcsOK, ProcsInv
  <2> QED BY <2>1 DEF recoverLostInstance, world, Inv2, Inv1, TypeOK, SnapOK, ProcInv, DownInv,
          Resets
<1>2. /\ r.state = "STOPPED" /\ r.epoch = row.epoch /\ r.gen = row.gen
      /\ r.fence = row.fence /\ r.inst = row.inst /\ r.job = 0 /\ r.err = "instance_lost"
  BY <1>1 DEF Row
<1> HIDE DEF r, pc
<1>3. ASSUME wins
      PROVE  SwapOK(r) /\ Unmarked(r)
  <2>1. row.state = "RUNNING" /\ row.inst = s.inst
    BY <1>1, <1>3 DEF CasUser
  <2>2. NoneRuns
    BY <1>1, <2>1 DEF Inv2, RowInv, InstInv, AliveInv, Alive, NoneRuns
  <2> QED BY <1>2, <2>1, <2>2, Rewrites DEF Booting, Stopping, Unmarked, StartUnknown,
          RecordedUndo
<1> QED BY <1>1, <1>3, StepRests

\* A placement that owns nothing is released, then purged.
LEMMA ReleaseRests ==
    ASSUME Inv2, Inv1', NEW p \in Procs, releaseWithoutResources(p)
    PROVE  Inv2'
<1> DEFINE s == proc[p].snap
<1>1. /\ UNCHANGED <<inst, vol>> /\ row \in Row /\ ProcInv(proc[p])
      /\ SnapOK(proc[p].pc, s, proc[p].kind, proc[p].undo, exec)
  BY DEF releaseWithoutResources, world, Inv2, Inv1, TypeOK, ProcsInv, ProcsOK
<1>2. ASSUME proc[p].pc = "release",
             step(p, CasUser(s) /\ row.inst = s.inst,
                  [row EXCEPT !.state = "RETIRED", !.job = 0, !.nonce = dropProof(@),
                              !.err = "released_no_resources"],
                  "close", "purge", "idle")
      PROVE  Inv2'
  <2> DEFINE wins == CasUser(s) /\ row.inst = s.inst
             r == [row EXCEPT !.state = "RETIRED", !.job = 0, !.nonce = dropProof(@),
                              !.err = "released_no_resources"]
  <2>1. /\ r.state = "RETIRED" /\ r.epoch = row.epoch /\ r.gen = row.gen
        /\ r.fence = row.fence /\ r.inst = row.inst /\ r.job = 0
        /\ r.err = "released_no_resources"
    BY <1>1 DEF Row
  <2>2. step(p, wins, r, "close", "purge", "idle")
    BY <1>2
  <2> HIDE DEF r
  <2>3. ASSUME wins
        PROVE  SwapOK(r) /\ Unmarked(r)
    <3>1. s.state \in {"UNCONFIRMED", "RECOVERING"}
      BY <1>1, <1>2 DEF SnapOK
    <3>2. Same(s) /\ row.state = s.state
      BY <2>3, <3>1, Found
    <3>3. NoneRuns
      BY <1>1, <1>2, <3>2 DEF ProcInv, DownInv, Down
    <3> QED BY <2>1, <3>1, <3>2, <3>3, Rewrites DEF Booting, Stopping, Unmarked, StartUnknown,
            RecordedUndo
  <2> QED BY <1>1, <2>2, <2>3, StepRests DEF Readings, Resets
<1>3. ASSUME proc[p].pc = "purge", NEW pc \in {"softdelete", "idle"},
             step(p, CasReconciler(s), [row EXCEPT !.state = "PURGE_ELIGIBLE"], "none", pc, pc)
      PROVE  Inv2'
  <2> DEFINE r == [row EXCEPT !.state = "PURGE_ELIGIBLE"]
  <2>1. /\ r.state = "PURGE_ELIGIBLE" /\ r.epoch = row.epoch /\ r.gen = row.gen
        /\ r.fence = row.fence /\ r.inst = row.inst /\ r.job = row.job /\ r.err = row.err
    BY <1>1 DEF Row
  <2>2. step(p, CasReconciler(s), r, "none", pc, pc)
    BY <1>3
  <2> HIDE DEF r
  <2>3. ASSUME CasReconciler(s)
        PROVE  SwapOK(r) /\ Unmarked(r)
    <3>1. row.state = "RETIRED"
      BY <1>1, <1>3, <2>3 DEF SnapOK, CasReconciler, CasUser
    <3>2. NoneRuns
      BY <3>1 DEF Inv2, RowInv, AtRest, Down
    <3> QED BY <2>1, <3>1, <3>2, Rewrites DEF Booting, Stopping, Unmarked
  <2> QED BY <1>1, <1>3, <2>2, <2>3, StepRests DEF Resets
<1> QED BY <1>2, <1>3 DEF releaseWithoutResources

\* An unconfirmed computer is taken into recovery.
LEMMA RecoveringRests ==
    ASSUME Inv2, Inv1', NEW p \in Procs, Recovering(p)
    PROVE  Inv2'
<1> DEFINE s == proc[p].snap
           host == \/ proc[p].pc = "recover" /\ s.state = "UNCONFIRMED"
                   \/ /\ Acting(p, {"fleet"}) /\ s.err = "enroll_tunnel_failed"
                      /\ s.job = 0 /\ Complete(s) /\ proc[p].old
           kind == IF proc[p].goal = "fleet" /\ proc[p].pc = "act"
                   THEN "fleetretire"
                   ELSE IF host THEN "hostretire" ELSE "uncretire"
           r == [row EXCEPT !.state = "RECOVERING",
                            !.err = IF host THEN "enroll_host_retire" ELSE "deleted_recovery"]
           pc == IF CasReconciler(s) THEN "recover"
                 ELSE IF kind = "hostretire" THEN "reread" ELSE "idle"
<1>1. /\ UNCHANGED <<inst, vol>> /\ row \in Row /\ s.state = "UNCONFIRMED" /\ kind \in Kind
      /\ casInTx(CasReconciler(s), r, "none") /\ Goto(p, pc, row', kind)
      /\ pc \in Resets \cup Readings
  BY DEF Recovering, world, Inv2, Inv1, TypeOK, Kind, Resets, Readings
<1>2. /\ r.state = "RECOVERING" /\ r.epoch = row.epoch /\ r.gen = row.gen
      /\ r.fence = row.fence /\ r.inst = row.inst /\ r.job = row.job
      /\ r.err \in {"enroll_host_retire", "deleted_recovery"}
  BY <1>1 DEF Row
<1> HIDE DEF r, pc, kind, host
<1>3. CasReconciler(s) => SwapOK(r) /\ Unmarked(r)
  BY <1>1, <1>2, Rewrites DEF CasReconciler, CasUser, Booting, Stopping, AtRest, Unmarked,
     StartUnknown, RecordedUndo
<1>4. /\ JobsInv' /\ RowInv' /\ Evolves
      /\ \A q \in Procs : StarterStays(proc[q])
  BY <1>1, <1>3, SwapRests
<1> QED BY <1>1, <1>4, GoesOn DEF Quiet

-----------------------------------------------------------------------------
(* The enrollment of a host.                                               *)

\* A host that is up, with its volume under the row's fence, has been booted.
LEMMA EnrollRests ==
    ASSUME Inv2, Inv1', NEW p \in Procs, NEW i \in Epochs, Enroll(p, i)
    PROVE  Inv2'
<1>1. PICK v : v = proc'[p]
  OBVIOUS
<1>2. /\ UNCHANGED <<row, exec, inst, vol>> /\ v.snap = row /\ v.host = i
      /\ v.pc \in {"consume", "tunnel"}
      /\ \A q \in Procs : q # p => proc'[q] = proc[q]
  <2>1. proc \in [Procs -> Proc]
    BY DEF Inv2, Inv1, TypeOK
  <2>2. proc' = [proc EXCEPT ![p] =
                  [Idle EXCEPT !.pc = IF row.nonce = "live" THEN "consume"
                                      ELSE "tunnel",
                               !.goal = "enroll", !.snap = row, !.host = i,
                               !.kind = IF row.nonce = "live" THEN "fresh"
                                        ELSE "pending"]]
    BY DEF Enroll
  <2>3. UNCHANGED <<row, exec, inst, vol>>
    BY DEF Enroll, rowVars, world
  <2> QED BY <1>1, <2>1, <2>2, <2>3 DEF Idle
<1>3. /\ row.state \in ENROLLABLE_STATES /\ inst[i].st = "running" /\ inst[i].boot = row.epoch
      /\ vol.at = i /\ vol.fence = row.fence /\ row.inst \in {0, i}
      /\ RowInv /\ JobFits(row, exec) /\ row \in Row
  BY DEF Enroll, Inv2, RowInv, Inv1, TypeOK
<1>4. ASSUME NEW j \in Jobs, BootOf(j)
      PROVE  Over(j) /\ i = ResultInstance(exec[j]) /\ (exec[j].op = "start" => row.inst # 0)
  <2> DEFINE x == exec[j]
  <2>1. /\ BootInv(j) /\ (x.op = "start" => StartInv(j))
        /\ x.op \in {"provision", "replace"} => LaunchInv(j)
        /\ \A k \in Jobs : BootOf(k) => k = j
        /\ x.epoch = row.epoch /\ x.op \in BootOps
    BY <1>4, BootIs DEF BootOf
  <2>2. i = ResultInstance(x)
    BY <1>3, <2>1 DEF BootInv
  <2>3. CASE x.op = "start"
    <3>1. x.src # 0
      BY <2>3, ExecIs, Bounds DEF Inv2, Epochs
    <3> QED BY <1>3, <2>1, <2>2, <2>3, <3>1 DEF Over, StartInv, ResultInstance
  <2>4. CASE x.op \in {"provision", "replace"}
    <3>1. i = x.epoch
      BY <2>2, <2>4 DEF ResultInstance
    <3>2. x.armed = "none"
      BY <1>3, <2>1, <2>4, <3>1 DEF LaunchInv
    <3>3. vol.fence = x.fence
      <4>1. CASE row.state = "MOUNTING"
        BY <2>1, <2>4, <4>1 DEF BootInv, LaunchInv
      <4>2. CASE row.state \in {"PROVISIONING", "STARTING"}
        <5>1. row.job \in Jobs /\ row.job # 0
          BY <1>3, <4>2, SnapIs DEF JobFits, Booting, Inv2
        <5>2. BootOf(row.job)
          BY <1>3, <4>2, <5>1 DEF JobFits, BootOf, BootOps
        <5> QED BY <1>3, <2>1, <5>1, <5>2 DEF JobFits
      <4> QED BY <1>3, <4>1, <4>2 DEF ENROLLABLE_STATES
    <3> QED BY <1>3, <2>2, <2>4, <3>1, <3>2, <3>3 DEF Over
  <2> QED BY <2>1, <2>2, <2>3, <2>4 DEF BootOps
<1>5. row.inst = 0 => i = row.epoch
  <2> HAVE row.inst = 0
  <2>1. AliveInv(i)
    BY <1>3 DEF RowInv, InstInv, Alive
  <2>2. PICK j \in Jobs : BootOf(j)
    BY <2>1 DEF AliveInv
  <2> QED BY <1>4, <2>2 DEF ResultInstance, BootOf, BootOps
<1>6. i # 0 /\ row.state # "NONE"
  BY <1>3, Bounds DEF Epochs, ENROLLABLE_STATES
<1>7. EnrollInv(v)
  BY <1>2, <1>3, <1>4, <1>5, <1>6 DEF EnrollInv
<1>8. ProcInv(v) /\ ~Starter(v)
  BY <1>2, <1>7, RowIs DEF ProcInv, StarterInv, Starter, GenerationInv, DownInv
<1> QED BY <1>1, <1>2, <1>8, TakesOn

\* A boot that is over has no call to come.
LEMMA OverIs ==
    ASSUME Inv2, NEW j \in Jobs, BootOf(j), Over(j)
    PROVE  exec[j].armed = "none"
BY BootIs DEF Over, StartInv, BootOf

\* The row takes the enrolled host for its instance.
LEMMA ConsumeSwaps ==
    ASSUME Inv2, NEW p \in Procs, NEW s, s = proc[p].snap, proc[p].pc = "consume",
           row.epoch = s.epoch, row.state \in ENROLLABLE_STATES, NEW i, i = proc[p].host,
           row.inst \in {0, i},
           NEW r, r = [row EXCEPT !.nonce = "used", !.err = "enroll_tunnel_pending",
                                  !.inst = i, !.vol = TRUE]
    PROVE  SwapOK(r) /\ Unmarked(r) /\ Same(s)
<1>1. /\ row \in Row /\ RowInv /\ JobFits(row, exec) /\ row.state # "NONE"
      /\ s.state # "NONE" /\ Same(s)
      /\ \A j \in Jobs : BootOf(j) => Over(j)
      /\ row.inst = 0 => i = row.epoch /\ i \in Epochs /\ inst[i].st # "none"
  <2>1. ProcInv(proc[p])
    BY DEF Inv2, ProcsInv
  <2>2. s.state # "NONE" /\ Same(s)
    BY <2>1 DEF ProcInv, EnrollInv, Same
  <2>3. /\ \A j \in Jobs : BootOf(j) => Over(j)
        /\ row.inst = 0 => i = row.epoch /\ i # 0 /\ inst[i].st # "none"
    BY <2>1, <2>2 DEF ProcInv, EnrollInv
  <2>4. row \in Row /\ RowInv /\ JobFits(row, exec) /\ row.state # "NONE"
    BY DEF Inv2, RowInv, Inv1, TypeOK, ENROLLABLE_STATES
  <2>5. row.epoch # 0 => row.epoch \in Epochs
    BY <2>4, Bounds DEF Row, Epochs
  <2> QED BY <2>2, <2>3, <2>4, <2>5
<1>2. /\ r.state = row.state /\ r.epoch = row.epoch /\ r.gen = row.gen
      /\ r.fence = row.fence /\ r.inst = i /\ r.job = row.job /\ r.err = "enroll_tunnel_pending"
  BY <1>1 DEF Row
<1>3. /\ row.job # 0 => row.job \in Jobs /\ BootOf(row.job)
      /\ row.state \in {"PROVISIONING", "STARTING", "MOUNTING"}
  <2>1. row.job # 0 => row.job \in Jobs
    BY <1>1, SnapIs DEF Inv2
  <2> QED BY <1>1, <2>1 DEF JobFits, BootOf, BootOps, ENROLLABLE_STATES
<1>4. ASSUME NEW j \in Jobs, BootOf(j), row.inst = 0
      PROVE  /\ exec[j].op \in {"provision", "replace"} /\ exec[j].epoch = i
             /\ vol.fence = exec[j].fence
             /\ \A k \in Epochs : Alive(k) /\ k \in {exec[j].src, exec[j].epoch} => k = i
  <2>1. /\ exec[j].op \in BootOps /\ exec[j].epoch = row.epoch /\ exec[j].op # "none"
        /\ exec[j].op = "start" => StartInv(j) /\ exec[j].src \in Epochs
        /\ exec[j].op \in {"provision", "replace"} => LaunchInv(j)
    BY <1>4, BootIs, ExecIs DEF BootOf, BootOps, Inv2
  <2>2. exec[j].op # "start"
    BY <1>4, <2>1, Bounds DEF StartInv, Epochs
  <2>3. Over(j) /\ exec[j].epoch = i
    BY <1>1, <1>4, <2>1
  <2>4. exec[j].op = "replace" => inst[exec[j].src].st = "gone"
    BY <2>1, <2>3 DEF Over, LaunchInv
  <2>5. exec[j].op = "provision" => exec[j].src = 0
    BY <2>1 DEF LaunchInv
  <2>6. ASSUME NEW k \in Epochs, Alive(k), k \in {exec[j].src, exec[j].epoch}
        PROVE  k = i
    BY <2>1, <2>2, <2>3, <2>4, <2>5, <2>6, Bounds DEF Alive, Epochs, BootOps
  <2> QED BY <2>1, <2>2, <2>3, <2>6 DEF Over, BootOps
<1>5. JobFits(r, exec)
  <2>1. row.inst = 0 /\ row.job # 0 =>
          /\ exec[row.job].op \in {"provision", "replace"} /\ ResultInstance(exec[row.job]) = i
    BY <1>3, <1>4 DEF ResultInstance
  <2>2. i <= row.epoch
    BY <1>1 DEF JobFits, Row
  <2> QED BY <1>1, <1>2, <1>3, <2>1, <2>2 DEF JobFits, ResultInstance, EndOps, BootOps
<1>6. r.inst # row.inst =>
        /\ row.inst = 0 /\ r.inst \in Epochs /\ inst[r.inst].st # "none"
        /\ \A k \in Epochs : Alive(k) => k = r.inst
  <2> HAVE r.inst # row.inst
  <2>1. row.inst = 0 /\ i \in Epochs /\ inst[i].st # "none"
    BY <1>1, <1>2
  <2>2. ASSUME NEW k \in Epochs, Alive(k)
        PROVE  k = i
    <3>1. AliveInv(k)
      BY <1>1, <2>2 DEF RowInv, InstInv
    <3>2. PICK j \in Jobs : BootOf(j) /\ k \in {exec[j].src, exec[j].epoch}
      BY <2>1, <3>1 DEF AliveInv
    <3> QED BY <1>4, <2>1, <2>2, <3>2
  <2> QED BY <1>2, <2>1, <2>2
<1>7. r.job # 0 /\ exec[r.job].op = "replace" /\ r.inst # 0 => vol.fence = exec[r.job].fence
  <2>1. row.inst = 0 /\ row.job # 0 => vol.fence = exec[row.job].fence
    BY <1>3, <1>4
  <2> QED BY <1>1, <1>2, <2>1 DEF RowInv
<1>8. r.state \notin Booting => \A j \in Jobs : BootOf(j) => exec[j].armed = "none"
  BY <1>1, OverIs
<1>9. SwapOK(r)
  BY <1>1, <1>2, <1>3, <1>5, <1>6, <1>7, <1>8 DEF SwapOK, GenStays, Booting, Stopping, AtRest
<1>10. Unmarked(r)
  BY <1>2 DEF Unmarked, StartUnknown, RecordedUndo
<1> QED BY <1>1, <1>9, <1>10

\* The enrollment nonce is consumed.
LEMMA ConsumeRests ==
    ASSUME Inv2, Inv1', NEW p \in Procs, consumeEnrollmentNonce(p)
    PROVE  Inv2'
<1> DEFINE s == proc[p].snap
           i == proc[p].host
           wins == /\ row.gen = s.gen /\ row.epoch = s.epoch
                   /\ row.state \in ENROLLABLE_STATES
                   /\ row.nonce = "live" /\ ~expired /\ row.inst \in {0, i}
           r == [row EXCEPT !.nonce = "used", !.err = "enroll_tunnel_pending",
                            !.inst = i, !.vol = TRUE]
<1>1. /\ UNCHANGED <<inst, vol>> /\ proc[p].pc = "consume" /\ proc[p].kind \in Kind
      /\ step(p, wins, r, "none", "tunnel", "idle") /\ ProcInv(proc[p])
      /\ proc \in [Procs -> Proc]
  BY DEF consumeEnrollmentNonce, world, Inv2, Inv1, TypeOK, Proc, ProcsInv
<1>2. wins => SwapOK(r) /\ Unmarked(r) /\ Same(s)
  BY <1>1, ConsumeSwaps
<1>3. casInTx(wins, r, "none")
  BY <1>1 DEF step
<1> HIDE DEF r
<1>4. /\ JobsInv' /\ RowInv' /\ Evolves
      /\ \A q \in Procs : StarterStays(proc[q])
  BY <1>1, <1>2, <1>3, SwapRests
<1>5. CASE wins
  <2>1. row' = r /\ Goto(p, "tunnel", r, proc[p].kind)
    BY <1>1, <1>5 DEF step, casInTx, Write
  <2>2. r \in Row
    BY <2>1 DEF Inv1, TypeOK
  <2> PICK v : v = proc'[p]
    OBVIOUS
  <2>3. /\ v.pc = "tunnel" /\ v.snap = row'
        /\ \A q \in Procs : q # p => proc'[q] = proc[q]
    BY <1>1, <2>1, <2>2, GotoIs DEF Pc, Resets
  <2>4. r.state # "NONE" /\ row.state # "NONE" /\ row'.epoch = row.epoch
    BY <1>2, <1>5, <2>1 DEF SwapOK
  <2>5. Within
    BY <1>4, <2>4 DEF Evolves
  <2>6. \A j \in Jobs : BootOf(j) => Over(j)
    BY <1>1, <1>2, <1>5 DEF ProcInv, EnrollInv
  <2>7. \A j \in Jobs : BootOf(j)' => Over(j)'
    BY <2>5, <2>6 DEF Within
  <2>8. SnapInv(v.snap)'
    <3>1. row'.epoch \in Nat
      BY Bounds DEF Inv1, TypeOK, Row
    <3> QED BY <1>4, <2>3, <3>1 DEF SnapInv, GenStays, Same, RowInv
  <2>9. EnrollInv(v)'
    BY <2>1, <2>3, <2>4, <2>7 DEF EnrollInv
  <2>10. ProcInv(v)' /\ ~Starter(v)
    BY <2>3, <2>8, <2>9 DEF ProcInv, StarterInv, Starter, GenerationInv, DownInv
  <2> QED BY <1>4, <2>3, <2>10, Gather
<1>6. CASE ~wins
  <2>1. Goto(p, "idle", s, proc[p].kind) /\ UNCHANGED <<row, exec, inst, vol>>
    BY <1>1, <1>6 DEF step, casInTx
  <2> QED BY <1>1, <2>1, MoveRests DEF Quiet, Resets
<1> QED BY <1>5, <1>6

\* The Worker answers the enrollment.
LEMMA TunnelRests ==
    ASSUME Inv2, Inv1', NEW p \in Procs, TunnelAnswer(p)
    PROVE  Inv2'
<1> DEFINE s == proc[p].snap
<1>1. /\ UNCHANGED <<row, exec, inst, vol>> /\ proc[p].pc = "tunnel" /\ ProcInv(proc[p])
      /\ {proc[p].kind, "pending", "refused"} \subseteq Kind
  BY DEF TunnelAnswer, rowVars, Inv2, Inv1, TypeOK, Proc, ProcsInv, Kind
<1>2. \E kind \in {proc[p].kind, "pending", "refused"} :
        Goto(p, "finish", s, kind) \/ Goto(p, "idle", s, kind)
  BY DEF TunnelAnswer
<1>3. ASSUME NEW kind \in Kind, Goto(p, "finish", s, kind)
      PROVE  Inv2'
  <2> PICK v : v = proc'[p]
    OBVIOUS
  <2>1. /\ v.pc = "finish" /\ v.snap = s /\ \A q \in Procs : q # p => proc'[q] = proc[q]
        /\ SnapInv(s)
    BY <1>3, TakesIs DEF Pc, Resets
  <2>2. EnrollInv(v)
    BY <1>1, <2>1 DEF ProcInv, EnrollInv
  <2>3. ProcInv(v) /\ ~Starter(v)
    BY <2>1, <2>2 DEF ProcInv, StarterInv, Starter, GenerationInv, DownInv
  <2> QED BY <1>1, <2>1, <2>3, TakesOn
<1>4. ASSUME NEW kind \in Kind, Goto(p, "idle", s, kind)
      PROVE  Inv2'
  BY <1>1, <1>4, MoveRests DEF Quiet, Resets
<1> QED BY <1>1, <1>2, <1>3, <1>4

\* The enrollment is finished, or failed.
LEMMA FinishRests ==
    ASSUME Inv2, Inv1', NEW p \in Procs, finishEnrollment(p)
    PROVE  Inv2'
<1> DEFINE s == proc[p].snap
           wins == /\ row.gen = s.gen /\ row.epoch = s.epoch
                   /\ row.state \in ENROLLABLE_STATES /\ row.inst = s.inst
                   /\ row.err = "enroll_tunnel_pending" /\ row.nonce # "live"
           r == IF proc[p].kind # "refused"
                THEN [row EXCEPT !.err = "enroll_succeeded"]
                ELSE [row EXCEPT !.state = "UNCONFIRMED", !.nonce = "none",
                                 !.err = "enroll_tunnel_failed"]
<1>1. /\ UNCHANGED <<inst, vol>> /\ proc[p].pc = "finish" /\ row \in Row /\ RowInv
      /\ step(p, wins, r, "none", "idle", "idle") /\ ProcInv(proc[p])
  BY DEF finishEnrollment, world, Inv2, Inv1, TypeOK, ProcsInv
<1>2. /\ r.epoch = row.epoch /\ r.gen = row.gen /\ r.fence = row.fence /\ r.inst = row.inst
      /\ r.job = row.job /\ r.err \in {"enroll_succeeded", "enroll_tunnel_failed"}
      /\ r.state \in {row.state, "UNCONFIRMED"}
  BY <1>1 DEF Row
<1> HIDE DEF r
<1>3. ASSUME wins
      PROVE  SwapOK(r) /\ Unmarked(r)
  <2>1. row.state \in {"PROVISIONING", "STARTING", "MOUNTING"}
    BY <1>3 DEF ENROLLABLE_STATES
  <2>2. \A j \in Jobs : BootOf(j) => Over(j)
    BY <1>1, <1>3 DEF ProcInv, EnrollInv, Same
  <2>3. \A j \in Jobs : BootOf(j) => exec[j].armed = "none"
    BY <2>2, OverIs
  <2>4. CASE r.state = "UNCONFIRMED"
    BY <1>2, <2>1, <2>3, <2>4, Rewrites DEF Booting, Stopping, AtRest, Unmarked, StartUnknown,
       RecordedUndo
  <2>5. CASE r.state = row.state
    <3>1. JobFits(r, exec)
      BY <1>1, <1>2, <2>5 DEF RowInv, JobFits
    <3>2. r.job # 0 /\ exec[r.job].op = "replace" /\ r.inst # 0 => vol.fence = exec[r.job].fence
      BY <1>1, <1>2 DEF RowInv
    <3>3. SwapOK(r)
      BY <1>2, <2>1, <2>3, <2>5, <3>1, <3>2 DEF SwapOK, GenStays, Booting, Stopping, AtRest
    <3> QED BY <1>2, <3>3 DEF Unmarked, StartUnknown, RecordedUndo
  <2> QED BY <1>2, <2>4, <2>5
<1> QED BY <1>1, <1>3, StepRests DEF Resets

-----------------------------------------------------------------------------
(* The swaps that record a job.                                            *)

\* The job j is recorded; every other job is as it was.
NewJob(j, work) ==
    /\ j # 0 /\ exec[j].op = "none" /\ exec'[j] = work
    /\ \A k \in Jobs : k # j => exec'[k] = exec[k]
\* The invocation p starts the job of the row it has written.
Starts(p, kind, undo) ==
    /\ \A q \in Procs : q # p => proc'[q] = proc[q]
    /\ proc'[p].pc = "start" /\ proc'[p].snap = row'
    /\ proc'[p].kind = kind /\ proc'[p].undo = undo

\* What a swap that records a job leaves.
LEMMA Recorded ==
    ASSUME Inv1, NEW p \in Procs, NEW r, NEW work, NEW kind, NEW undo, NEW lose,
           recordJob(p, TRUE, r, work, kind, undo, lose)
    PROVE  \E j \in Jobs : /\ NewJob(j, work) /\ Starts(p, kind, undo)
                           /\ row' = [r EXCEPT !.job = j] /\ JobsGrow(exec, exec')
<1> DEFINE j == jobs + 1
<1>1. /\ jobs < MaxJob /\ Write([r EXCEPT !.job = j], "none")
      /\ exec' = [exec EXCEPT ![j] = work]
      /\ proc' = [proc EXCEPT ![p].pc = "start", ![p].snap = row',
                              ![p].kind = kind, ![p].undo = undo]
  BY DEF recordJob
<1>2. /\ exec \in [Jobs -> Exec \cup {NoExec}] /\ proc \in [Procs -> Proc]
      /\ jobs \in Nat /\ MaxJob \in Nat /\ jobs \in 0..MaxJob
  BY Bounds DEF Inv1, TypeOK
<1>3. j \in Jobs /\ j # 0 /\ j > jobs
  BY <1>1, <1>2 DEF Jobs
<1>4. exec[j] = NoExec
  BY <1>3 DEF Inv1, ExecsOK
<1>5. row' = [r EXCEPT !.job = j]
  BY <1>1 DEF Write
<1> HIDE DEF j
<1>6. NewJob(j, work)
  BY <1>1, <1>2, <1>3, <1>4 DEF NewJob, NoExec
<1>7. JobsGrow(exec, exec')
  BY <1>4, <1>6 DEF JobsGrow, NewJob, NoExec
<1>8. Starts(p, kind, undo)
  <2>1. proc[p] \in Proc
    BY <1>2
  <2> QED BY <1>1, <1>2, <2>1 DEF Starts, Proc
<1> QED BY <1>3, <1>5, <1>6, <1>7, <1>8

\* A swap that loses records nothing.
LEMMA LosesRests ==
    ASSUME Inv2, Inv1', NEW p \in Procs, NEW r, NEW work, NEW kind, NEW undo,
           NEW lose \in {"idle", "act", "reread"},
           recordJob(p, FALSE, r, work, kind, undo, lose), UNCHANGED <<inst, vol>>
    PROVE  Inv2'
<1>1. UNCHANGED <<row, exec>> /\ Goto(p, lose, proc[p].snap, "none")
  BY DEF recordJob
<1> QED BY <1>1, MoveRests DEF Quiet, Resets, Readings, Kind

\* A job nobody knew of is nothing to the other invocations.
LEMMA RecordGathers ==
    ASSUME Inv2, Inv1', Evolves, JobsInv', RowInv', NEW p \in Procs, NEW j \in Jobs, NEW work,
           NEW kind, NEW undo, NewJob(j, work), row'.job = j, Starts(p, kind, undo),
           kind = "boot" =>
             /\ work.op \in BootOps /\ row'.err \notin StartUnknown
             /\ undo = "STOPPED" => work.op = "start",
           kind \in {"uretire", "rretire"} /\ undo = "STOPPED" => Down'
    PROVE  Inv2'
<1> PICK v : v = proc'[p]
  OBVIOUS
<1>1. /\ v.pc = "start" /\ v.snap = row' /\ v.kind = kind /\ v.undo = undo
      /\ \A q \in Procs : q # p => proc'[q] = proc[q]
  BY DEF Starts
<1>2. \A q \in Procs : Starter(proc[q]) => proc[q].snap.job # j
  BY DEF NewJob, Inv2, ProcsInv, ProcInv, StarterInv, BootOps
<1>3. ASSUME NEW q \in Procs
      PROVE  StarterStays(proc[q])
  <2>1. Starter(proc[q]) => proc[q].snap.job # 0
    BY DEF Inv2, ProcsInv, ProcInv, StarterInv
  <2>2. Starter(proc[q]) => proc[q].snap.job \in Jobs
    BY <2>1, SnapIs DEF Inv2, Inv1, ProcsOK, RowOK
  <2> QED BY <1>2, <2>2 DEF StarterStays, NewJob
<1>4. ProcInv(v)'
  <2>1. SnapInv(v.snap)'
    <3>1. row'.epoch \in Nat
      BY Bounds DEF Inv1, TypeOK, Row
    <3> QED BY <1>1, <3>1 DEF SnapInv, GenStays, Same, RowInv
  <2>2. StarterInv(v)'
    BY <1>1 DEF StarterInv, Starter, NewJob
  <2>3. DownInv(v)'
    BY <1>1 DEF DownInv
  <2> QED BY <1>1, <2>1, <2>2, <2>3 DEF ProcInv, GenerationInv, EnrollInv
<1>5. ASSUME NEW q \in Procs
      PROVE  ProcInv(proc[q])'
  <2>1. CASE q = p
    BY <1>4, <2>1, OfProc
  <2>2. CASE q # p
    BY <1>1, <1>3, <2>2, StaysPut
  <2> QED BY <2>1, <2>2
<1>6. OneStarter'
  <2>1. OneStarter
    BY DEF Inv2, ProcsInv
  <2>2. proc'[p].snap.job = j
    BY <1>1
  <2> QED BY <1>1, <1>2, <2>1, <2>2 DEF OneStarter, Starter
<1> QED BY <1>5, <1>6 DEF Inv2, ProcsInv

\* The stop or the retire of the row that was read, recorded in its place.
EndsRow(j, work, s, op, state, err) ==
    /\ NewJob(j, work) /\ JobsGrow(exec, exec') /\ UNCHANGED <<inst, vol>>
    /\ CasUser(s) /\ s.state \in {"RUNNING", "STOPPED", "RECOVERING"} /\ s.inst # 0
    /\ work = currentGenerationIntent(s, op)
    /\ (state = "DRAINING" /\ op = "stop") \/ (state = "RETIRING" /\ op = "retire")
    /\ err \notin StartUnknown
    /\ row' = [[row EXCEPT !.state = state, !.nonce = dropProof(@), !.err = err]
                 EXCEPT !.job = j]

\* An end changes the row's state and names its job, of the same lease.
EndFits(j, work, op, state) ==
    /\ row'.state = state /\ row'.epoch = row.epoch /\ row'.gen = row.gen
    /\ row'.fence = row.fence /\ row'.inst = row.inst /\ row'.job = j
    /\ row'.err \notin StartUnknown
    /\ state \in {"DRAINING", "RETIRING"}
    /\ row.state \in {"RUNNING", "STOPPED", "RECOVERING"}
    /\ work.op = op /\ op \in EndOps /\ work.epoch = row.epoch /\ work.gen = row.gen
    /\ work.fence = row.fence /\ work.src = row.inst /\ row.inst # 0
    /\ work.st = "absent" /\ work.armed = "none"
    /\ \A k \in Jobs : BootOf(k) => exec[k].armed = "none"

\* What an end writes fits what it found.
LEMMA EndIs ==
    ASSUME Inv2, NEW p \in Procs, NEW s, s = proc[p].snap, NEW j \in Jobs, NEW work,
           NEW op, NEW state, NEW err, EndsRow(j, work, s, op, state, err)
    PROVE  /\ EndFits(j, work, op, state) /\ RowInv /\ JobFits(row, exec)
           /\ row.inst <= row.epoch /\ (s.state = "STOPPED" => Down)
<1>1. row \in Row /\ s \in Row /\ RowInv
  BY DEF Inv2, Inv1, TypeOK, ProcsOK, RowOK
<1>2. /\ row'.state = state /\ row'.epoch = row.epoch /\ row'.gen = row.gen
      /\ row'.fence = row.fence /\ row'.inst = row.inst /\ row'.job = j /\ row'.err = err
  BY <1>1 DEF EndsRow, Row
<1>3. /\ SnapInv(s) /\ Same(s) /\ JobFits(row, exec) /\ row.state = s.state
      /\ row.epoch = s.epoch /\ row.gen = s.gen /\ row.inst = s.inst
  BY Found DEF EndsRow
<1>4. row.fence = s.fence
  <2>1. s.gen \in Nat
    BY <1>1, Bounds DEF Row
  <2> QED BY <1>3, <2>1 DEF SnapInv, GenStays
<1>5. /\ work.op = op /\ work.epoch = s.epoch /\ work.gen = s.gen /\ work.fence = s.fence
      /\ work.src = s.inst /\ work.st = "absent" /\ work.armed = "none"
  BY DEF EndsRow, currentGenerationIntent
<1>6. \A k \in Jobs : BootOf(k) => exec[k].armed = "none"
  BY <1>3, NoneArmed DEF EndsRow, Booting
<1>7. row.inst <= row.epoch /\ (s.state = "STOPPED" => Down)
  BY <1>1, <1>3 DEF RowInv, JobFits, AtRest
<1> QED BY <1>1, <1>2, <1>3, <1>4, <1>5, <1>6, <1>7 DEF EndsRow, EndFits, EndOps

\* The end of a row at rest or running leaves what is so as it is.
LEMMA EndRecords ==
    ASSUME Inv2, Inv1', NEW p \in Procs, NEW s, s = proc[p].snap, NEW j \in Jobs, NEW work,
           NEW op, NEW state, NEW err, EndsRow(j, work, s, op, state, err)
    PROVE  /\ JobsInv' /\ RowInv' /\ Evolves /\ row'.job = j
           /\ s.state = "STOPPED" => Down'
<1>0. /\ EndFits(j, work, op, state) /\ RowInv /\ JobFits(row, exec)
      /\ row.inst <= row.epoch /\ (s.state = "STOPPED" => Down)
  BY EndIs
<1>1. /\ row'.state = state /\ row'.epoch = row.epoch /\ row'.gen = row.gen
      /\ row'.fence = row.fence /\ row'.inst = row.inst /\ row'.job = j
      /\ row'.err \notin StartUnknown
      /\ state \in {"DRAINING", "RETIRING"}
      /\ row.state \in {"RUNNING", "STOPPED", "RECOVERING"}
      /\ work.op = op /\ op \in EndOps /\ work.epoch = row.epoch /\ work.gen = row.gen
      /\ work.fence = row.fence /\ work.src = row.inst /\ row.inst # 0
      /\ work.st = "absent" /\ work.armed = "none"
      /\ \A k \in Jobs : BootOf(k) => exec[k].armed = "none"
      /\ JobFits(row, exec) /\ row.inst <= row.epoch /\ RowInv
      /\ s.state = "STOPPED" => Down
  BY <1>0 DEF EndFits
<1>2. /\ exec[j].op = "none" /\ exec'[j] = work /\ j # 0 /\ UNCHANGED <<inst, vol>>
      /\ \A k \in Jobs : k # j => exec'[k] = exec[k]
      /\ JobsGrow(exec, exec')
      /\ state = "DRAINING" => op = "stop"
      /\ state = "RETIRING" => op = "retire"
  BY DEF EndsRow, NewJob
<1>3. Down => Down'
  BY <1>1, <1>2 DEF Down, NoneRuns, Booting
<1>4. \A k \in Jobs : BootOf(k)' <=> (k # j /\ BootOf(k))
  BY <1>1, <1>2 DEF BootOf, BootOps, EndOps
<1>5. row.inst \in Epochs /\ row.epoch \in Nat
  BY <1>1, SnapIs DEF Inv2, Inv1, TypeOK
<1>6. ASSUME NEW k \in Jobs, k # j, exec[k].op # "none"
      PROVE  JobInv(k)'
  <2>1. JobInv(k) /\ exec'[k] = exec[k]
    BY <1>2, <1>6 DEF Inv2, JobsInv
  <2>2. exec[k].op \in BootOps => BootInv(k)'
    <3> HAVE exec[k].op \in BootOps
    <3>1. BootInv(k)
      BY <1>6, <2>1 DEF JobInv
    <3>2. exec[k].armed = "none"
      BY <1>1, <3>1 DEF BootInv, Booting
    <3> QED BY <1>1, <1>2, <2>1, <3>1, <3>2 DEF BootInv
  <2>3. exec[k].op = "start" => StartInv(k)'
    BY <1>1, <1>2, <1>6, <2>1 DEF JobInv, StartInv, NoneRuns
  <2>4. exec[k].op \in {"provision", "replace"} => LaunchInv(k)'
    BY <1>1, <1>2, <1>6, <2>1 DEF JobInv, LaunchInv
  <2>5. exec[k].op \in EndOps => EndInv(k)'
    BY <1>1, <1>2, <1>3, <1>6, <2>1 DEF JobInv, EndInv, Booting
  <2> QED BY <1>1, <1>2, <2>1, <2>2, <2>3, <2>4, <2>5 DEF JobInv
<1>7. JobInv(j)'
  <2>1. EndInv(j)'
    BY <1>1, <1>2 DEF EndInv, Booting
  <2>2. inst'[row.inst].st # "none"
    BY <1>1, <1>2 DEF RowInv
  <2> QED BY <1>1, <1>2, <1>5, <2>1, <2>2 DEF JobInv, EndOps, BootOps
<1>8. JobsInv'
  <2>1. ASSUME NEW k \in Jobs
        PROVE  JobInv(k)'
    <3>1. CASE k # j /\ exec[k].op = "none"
      BY <1>2, <3>1 DEF JobInv
    <3> QED BY <1>6, <1>7, <3>1
  <2>2. OneBoot'
    BY <1>1, <1>2 DEF OneBoot, Inv2, JobsInv, BootOps, EndOps
  <2> QED BY <2>1, <2>2 DEF JobsInv
<1>9. RowInv'
  <2>1. JobFits(row', exec')
    BY <1>1, <1>2 DEF JobFits, BootOps, EndOps, Booting, Stopping
  <2>2. ASSUME NEW i \in Epochs
        PROVE  InstInv(i)'
    BY <1>1, <1>2 DEF RowInv, InstInv, AliveInv, Alive
  <2>3. row'.inst # 0 => inst'[row'.inst].st # "none"
    BY <1>1, <1>2 DEF RowInv
  <2> QED BY <1>1, <1>2, <2>1, <2>2, <2>3 DEF RowInv, AtRest, StartUnknown, RecordedUndo, EndOps
<1>10. Evolves
  <2>1. GenStays(row, row')
    BY <1>1 DEF GenStays
  <2>2. ASSUME NEW k \in Jobs
        PROVE  /\ BootOf(k) /\ Over(k) => Over(k)'
               /\ BootOf(k) => (NotReplaced(k) => NotReplaced(k)')
    <3>1. BootOf(k) => exec'[k] = exec[k]
      BY <1>2 DEF BootOf, BootOps
    <3> QED BY <1>2, <3>1 DEF Over, NotReplaced
  <2>3. Within
    BY <1>1, <1>3, <1>4, <2>1, <2>2 DEF Within, Booting
  <2> QED BY <1>1, <1>2, <1>5, <2>3 DEF Evolves
<1> QED BY <1>1, <1>3, <1>8, <1>9, <1>10

\* A swap that records a stop or a retire of the row that was read.
EndJob(p, s, wins, state, err, op, kind, undo, lose) ==
    /\ recordJob(p, wins, [row EXCEPT !.state = state, !.nonce = dropProof(@), !.err = err],
                 currentGenerationIntent(s, op), kind, undo, lose)
    /\ UNCHANGED <<inst, vol>>

\* Such a job leaves the computer as the invariant says.
LEMMA EndJobRests ==
    ASSUME Inv2, Inv1', NEW p \in Procs, NEW s, s = proc[p].snap, NEW wins, NEW state, NEW err,
           NEW op, NEW kind, NEW undo, NEW lose \in {"idle", "act", "reread"},
           EndJob(p, s, wins, state, err, op, kind, undo, lose), wins => CasUser(s),
           s.state \in {"RUNNING", "STOPPED", "RECOVERING"}, s.inst # 0,
           (state = "DRAINING" /\ op = "stop") \/ (state = "RETIRING" /\ op = "retire"),
           err \in {"none", "session_limit", "enroll_host_retire"}, kind # "boot",
           kind \in {"uretire", "rretire"} /\ undo = "STOPPED" => s.state = "STOPPED"
    PROVE  Inv2'
<1> DEFINE r == [row EXCEPT !.state = state, !.nonce = dropProof(@), !.err = err]
<1> PICK work : work = currentGenerationIntent(s, op)
  OBVIOUS
<1>1. recordJob(p, wins, r, work, kind, undo, lose) /\ UNCHANGED <<inst, vol>>
  BY DEF EndJob
<1>2. CASE ~wins
  <2>1. recordJob(p, FALSE, r, work, kind, undo, lose)
    BY <1>1, <1>2 DEF recordJob
  <2> HIDE DEF r
  <2> QED BY <1>1, <2>1, LosesRests
<1>3. CASE wins
  <2>1. recordJob(p, TRUE, r, work, kind, undo, lose)
    BY <1>1, <1>3 DEF recordJob
  <2> HIDE DEF r
  <2>2. Inv1
    BY DEF Inv2
  <2>3. PICK j \in Jobs : /\ NewJob(j, work) /\ Starts(p, kind, undo)
                          /\ row' = [r EXCEPT !.job = j] /\ JobsGrow(exec, exec')
    BY <2>1, <2>2, Recorded
  <2>4. err \notin StartUnknown
    BY DEF StartUnknown, RecordedUndo
  <2>5. EndsRow(j, work, s, op, state, err)
    BY <1>1, <1>3, <2>3, <2>4 DEF EndsRow, r
  <2>6. /\ JobsInv' /\ RowInv' /\ Evolves /\ row'.job = j
        /\ s.state = "STOPPED" => Down'
    BY <2>5, EndRecords
  <2>7. NewJob(j, work) /\ Starts(p, kind, undo) /\ row'.job = j
    BY <2>3, <2>6
  <2>8. kind \in {"uretire", "rretire"} /\ undo = "STOPPED" => Down'
    BY <2>6
  <2>9. kind = "boot" =>
             /\ work.op \in BootOps /\ row'.err \notin StartUnknown
             /\ undo = "STOPPED" => work.op = "start"
    OBVIOUS
  <2> QED BY <2>6, <2>7, <2>8, <2>9, RecordGathers
<1> QED BY <1>2, <1>3

\* A stop of a running computer.
LEMMA StopRests ==
    ASSUME Inv2, Inv1', NEW p \in Procs,
           reconcileGuestStop(p) \/ enforceSessionLimits(p) \/ startStop(p)
    PROVE  Inv2'
<1> DEFINE s == proc[p].snap
<1>1. s.state = "RUNNING" /\ s.inst # 0
  BY DEF reconcileGuestStop, enforceSessionLimits, startStop, GuestStopDue, Complete
<1>2. ASSUME NEW wins, wins => CasUser(s), NEW err \in {"none", "session_limit"},
             NEW kind \in Stops, StopJob(p, s, wins, err, kind)
      PROVE  Inv2'
  <2> DEFINE lose == IF kind = "rstop" THEN "act" ELSE "idle"
  <2>1. EndJob(p, s, wins, "DRAINING", err, "stop", kind, "UNCONFIRMED", lose)
    BY <1>2 DEF StopJob, EndJob, world
  <2>2. lose \in {"idle", "act", "reread"} /\ kind \notin {"boot", "uretire", "rretire"}
    BY DEF Stops
  <2>3. err \in {"none", "session_limit", "enroll_host_retire"} /\ (wins => CasUser(s))
    BY <1>2
  <2> HIDE DEF lose
  <2> QED BY <1>1, <2>1, <2>2, <2>3, EndJobRests
<1>3. CASE reconcileGuestStop(p)
  BY <1>2, <1>3 DEF reconcileGuestStop, CasReconciler, Stops
<1>4. CASE enforceSessionLimits(p)
  BY <1>2, <1>4 DEF enforceSessionLimits, CasReconciler, Stops
<1>5. CASE startStop(p)
  BY <1>2, <1>5 DEF startStop, Stops
<1> QED BY <1>3, <1>4, <1>5

\* A retire of a computer at rest or running.
LEMMA RetireRests ==
    ASSUME Inv2, Inv1', NEW p \in Procs, startRetire(p)
    PROVE  Inv2'
<1> DEFINE s == proc[p].snap
           user == proc[p].goal = "delete"
           wins == IF user THEN CasUser(s) ELSE CasReconciler(s)
           kind == IF user THEN "uretire" ELSE "rretire"
<1>1. /\ s.state \in {"RUNNING", "STOPPED"} /\ s.inst # 0
      /\ EndJob(p, s, wins, "RETIRING", "none", "retire", kind, s.state, "idle")
  BY DEF startRetire, Complete, EndJob, world
<1>2. kind # "boot" /\ (wins => CasUser(s))
  BY DEF CasReconciler
<1> HIDE DEF wins, kind
<1> QED BY <1>1, <1>2, EndJobRests

\* RECOVERING to RETIRING.
LEMMA RecoveringRetireRests ==
    ASSUME Inv2, Inv1', NEW p \in Procs, RecoveringRetire(p)
    PROVE  Inv2'
<1> DEFINE s == proc[p].snap
           fleet == /\ Acting(p, {"fleet"}) /\ s.err = "enroll_host_retire"
                    /\ s.job = 0 /\ Complete(s) /\ proc[p].old
           kind == IF proc[p].pc = "recover" THEN proc[p].kind
                   ELSE IF fleet THEN "fleetretire" ELSE "uncretire"
           err == IF kind = "uncretire" THEN "none" ELSE "enroll_host_retire"
           lose == IF kind = "hostretire" THEN "reread" ELSE "idle"
           wins == CasReconciler(s)
<1>1. /\ s.state = "RECOVERING"
      /\ proc[p].pc = "recover" \/ fleet \/ (Unconfirmed(p) /\ Retirable(s))
      /\ EndJob(p, s, wins, "RETIRING", err, "retire", kind, "UNCONFIRMED", lose)
  BY DEF RecoveringRetire, EndJob, world
<1>2. SnapOK(proc[p].pc, s, proc[p].kind, proc[p].undo, exec)
  BY ProcIs DEF Inv2
<1>3. s.inst # 0 /\ kind \in {"hostretire", "fleetretire", "uncretire"}
  BY <1>1, <1>2 DEF SnapOK, Retirable, Complete
<1>4. /\ err \in {"none", "session_limit", "enroll_host_retire"}
      /\ lose \in {"idle", "act", "reread"} /\ (wins => CasUser(s))
  BY DEF CasReconciler
<1> HIDE DEF fleet, kind, err, lose, wins
<1> QED BY <1>1, <1>3, <1>4, EndJobRests

\* A boot recorded with the row's next lease.
Leases(j, work) ==
    /\ NewJob(j, work) /\ JobsGrow(exec, exec') /\ UNCHANGED <<inst, vol>>
    /\ row.state \notin Booting
    /\ row'.state = (IF work.op = "provision" THEN "PROVISIONING" ELSE "LEASED")
    /\ row'.epoch = work.epoch /\ row'.gen = work.gen /\ row'.fence = work.fence
    /\ row'.job = j /\ row'.err = "none"
    /\ row'.inst = (IF work.op = "start" THEN work.src ELSE 0)
    /\ work.op \in BootOps /\ work.epoch \in Epochs /\ row.epoch < work.epoch
    /\ work.st = "absent" /\ work.armed = "none"
    /\ work.op = "provision" => row.state = "NONE" /\ work.src = 0
    /\ work.op # "provision" => row.state # "NONE" /\ row.inst = work.src /\ work.src # 0
    /\ work.op = "start" => NoneRuns
    /\ work.op = "replace" => work.prevGen < work.gen /\ work.prevFence < work.fence

\* The jobs of earlier leases have nothing to come.
LEMMA LeaseLeavesJobs ==
    ASSUME Inv2, NEW j \in Jobs, NEW work, Leases(j, work),
           NEW k \in Jobs, k # j, exec[k].op # "none"
    PROVE  JobInv(k)' /\ exec[k].epoch # work.epoch
<1>1. /\ exec'[k] = exec[k] /\ UNCHANGED <<inst, vol>> /\ row'.epoch = work.epoch
      /\ row.state \notin Booting /\ row'.state \in {"PROVISIONING", "LEASED"}
  BY DEF Leases, NewJob
<1>2. /\ JobInv(k) /\ exec[k].epoch \in Nat /\ row.epoch \in Nat /\ work.epoch \in Nat
      /\ row.epoch < work.epoch
  <2>1. JobInv(k)
    BY DEF Inv2, JobsInv
  <2>2. exec[k].epoch \in Epochs
    BY ExecIs DEF Inv2
  <2>3. row.epoch \in Nat
    BY Bounds DEF Inv2, Inv1, TypeOK, Row
  <2>4. work.epoch \in Epochs /\ row.epoch < work.epoch
    BY DEF Leases
  <2>5. Epochs \subseteq Nat
    BY Bounds DEF Epochs
  <2> QED BY <2>1, <2>2, <2>3, <2>4, <2>5
<1>3. exec[k].epoch <= row.epoch /\ exec[k].epoch # work.epoch /\ exec[k].epoch <= work.epoch
  BY <1>2 DEF JobInv
<1>4. exec[k].op \in BootOps => BootInv(k)'
  <2> HAVE exec[k].op \in BootOps
  <2>1. BootInv(k)
    BY <1>2 DEF JobInv
  <2>2. exec[k].armed = "none"
    BY <1>1, <2>1 DEF BootInv
  <2> QED BY <1>1, <1>3, <2>1, <2>2 DEF BootInv
<1>5. exec[k].op = "start" => StartInv(k)'
  BY <1>1, <1>2, <1>3 DEF JobInv, StartInv
<1>6. exec[k].op \in {"provision", "replace"} => LaunchInv(k)'
  BY <1>1, <1>2, <1>3 DEF JobInv, LaunchInv
<1>7. exec[k].op \in EndOps => EndInv(k)'
  BY <1>1, <1>2, <1>3 DEF JobInv, EndInv
<1> QED BY <1>1, <1>2, <1>3, <1>4, <1>5, <1>6, <1>7 DEF JobInv

\* What is alive as a lease is taken is what the lease boots from.
LEMMA LeaseFinds ==
    ASSUME Inv2, NEW j \in Jobs, NEW work, Leases(j, work), NEW i \in Epochs
    PROVE  /\ inst[i].st # "none" => i # work.epoch
           /\ inst[i].boot # work.epoch
           /\ Alive(i) => work.op # "provision" /\ i = work.src
           /\ InstInv(i)
<1>1. /\ RowInv /\ InstInv(i) /\ row.epoch \in Nat /\ work.epoch \in Nat /\ i \in Nat
      /\ row.epoch < work.epoch
  <2>1. RowInv /\ InstInv(i)
    BY DEF Inv2, RowInv
  <2>2. row.epoch \in Nat
    BY Bounds DEF Inv2, Inv1, TypeOK, Row
  <2>3. work.epoch \in Epochs /\ row.epoch < work.epoch
    BY DEF Leases
  <2>4. Epochs \subseteq Nat
    BY Bounds DEF Epochs
  <2> QED BY <2>1, <2>2, <2>3, <2>4
<1>2. inst[i].boot \in Nat
  BY Bounds DEF Inv2, Inv1, TypeOK
<1>3. ASSUME Alive(i), work.op = "provision"
      PROVE  FALSE
  <2>1. row.state = "NONE" /\ row.inst = 0
    BY <1>1, <1>3, Bounds DEF Leases, RowInv, NoRow
  <2>2. PICK k \in Jobs : BootOf(k)
    BY <1>1, <1>3, <2>1 DEF InstInv, AliveInv
  <2>3. JobInv(k) /\ exec[k].op # "none"
    BY <2>2 DEF Inv2, JobsInv, BootOf, BootOps
  <2> QED BY <2>1, <2>3 DEF JobInv
<1>4. ASSUME Alive(i), work.op # "provision"
      PROVE  i = work.src
  BY <1>1, <1>4 DEF Leases, InstInv, AliveInv
<1> QED BY <1>1, <1>2, <1>3, <1>4 DEF InstInv

\* A lease of a computer out of its boot leaves what is so as it is.
LEMMA LeaseRecords ==
    ASSUME Inv2, Inv1', NEW j \in Jobs, NEW work, Leases(j, work)
    PROVE  JobsInv' /\ RowInv' /\ Evolves
<1>1. /\ exec[j].op = "none" /\ exec'[j] = work /\ j # 0 /\ UNCHANGED <<inst, vol>>
      /\ \A k \in Jobs : k # j => exec'[k] = exec[k]
      /\ JobsGrow(exec, exec')
  BY DEF Leases, NewJob
<1>2. /\ row'.state = (IF work.op = "provision" THEN "PROVISIONING" ELSE "LEASED")
      /\ row'.epoch = work.epoch /\ row'.gen = work.gen /\ row'.fence = work.fence
      /\ row'.job = j /\ row'.err = "none"
      /\ row'.inst = (IF work.op = "start" THEN work.src ELSE 0)
      /\ work.op \in BootOps /\ work.epoch \in Epochs /\ row.epoch < work.epoch
      /\ work.st = "absent" /\ work.armed = "none"
      /\ work.op = "provision" => work.src = 0
      /\ work.op # "provision" => row.state # "NONE" /\ row.inst = work.src /\ work.src # 0
      /\ work.op = "start" => NoneRuns
      /\ work.op = "replace" => work.prevGen < work.gen /\ work.prevFence < work.fence
  BY DEF Leases
<1>3. /\ row.epoch \in Nat /\ work.epoch \in Nat /\ RowInv
      /\ row.inst # 0 => row.inst \in Epochs /\ inst[row.inst].st # "none"
      /\ row.inst <= row.epoch /\ row.inst \in Nat
  BY <1>2, SnapIs, Bounds DEF Inv2, Inv1, TypeOK, RowInv, JobFits, Epochs
<1>4. /\ work.src <= work.epoch /\ work.src \in Nat
      /\ work.op # "provision" => work.src < work.epoch
      /\ work.src # 0 => work.src \in Epochs /\ inst[work.src].st # "none"
  BY <1>2, <1>3, Bounds
<1>5. JobInv(j)'
  <2>1. BootInv(j)'
    <3>1. \A i \in Epochs : inst'[i].boot # work.epoch
      BY <1>1, LeaseFinds
    <3> QED BY <1>1, <1>2, <3>1 DEF BootInv
  <2>2. work.op = "start" => StartInv(j)'
    <3> HAVE work.op = "start"
    <3>1. inst'[work.src].boot # work.epoch
      BY <1>1, <1>2, <1>4, LeaseFinds
    <3> QED BY <1>1, <1>2, <3>1 DEF StartInv, NoneRuns
  <2>3. work.op \in {"provision", "replace"} => LaunchInv(j)'
    <3>1. inst'[work.epoch].st = "none"
      BY <1>1, <1>2, LeaseFinds
    <3> QED BY <1>1, <1>2, <1>4, <3>1 DEF LaunchInv
  <2>4. work.op \notin EndOps
    BY <1>2 DEF BootOps, EndOps
  <2>5. row'.state # "NONE" /\ work.epoch <= row'.epoch
    BY <1>2, <1>3
  <2> QED BY <1>1, <1>4, <2>1, <2>2, <2>3, <2>4, <2>5 DEF JobInv
<1>6. JobsInv'
  <2>1. ASSUME NEW k \in Jobs
        PROVE  JobInv(k)'
    <3>1. CASE k # j /\ exec[k].op = "none"
      BY <1>1, <3>1 DEF JobInv
    <3>2. CASE k # j /\ exec[k].op # "none"
      BY <3>2, LeaseLeavesJobs
    <3> QED BY <1>5, <3>1, <3>2
  <2>2. \A k \in Jobs : k # j /\ exec[k].op \in BootOps => exec[k].epoch # work.epoch
    BY LeaseLeavesJobs DEF BootOps
  <2>3. OneBoot'
    BY <1>1, <2>2 DEF OneBoot, Inv2, JobsInv
  <2> QED BY <2>1, <2>3 DEF JobsInv
<1>7. RowInv'
  <2>1. JobFits(row', exec')
    <3>1. row'.inst <= row'.epoch
      BY <1>2, <1>3, <1>4
    <3> QED BY <1>1, <1>2, <3>1 DEF JobFits, BootOps, EndOps, Booting, Stopping, ResultInstance
  <2>2. ASSUME NEW i \in Epochs
        PROVE  InstInv(i)'
    <3>1. /\ Alive(i) => work.op # "provision" /\ i = work.src
          /\ inst[i].st # "none" => i <= work.epoch
          /\ inst[i].boot <= work.epoch
      <4>1. InstInv(i) /\ (Alive(i) => work.op # "provision" /\ i = work.src)
        BY LeaseFinds
      <4>2. inst[i].boot \in Nat /\ i \in Nat
        BY Bounds DEF Inv2, Inv1, TypeOK, Epochs
      <4> QED BY <1>2, <1>3, <4>1, <4>2 DEF InstInv
    <3>2. BootOf(j)'
      BY <1>1, <1>2 DEF BootOf
    <3>3. Alive(i) => AliveInv(i)'
      BY <1>1, <1>2, <3>1, <3>2 DEF AliveInv
    <3> QED BY <1>1, <1>2, <3>1, <3>3 DEF InstInv, Alive
  <2>3. row'.inst # 0 => inst'[row'.inst].st # "none"
    BY <1>1, <1>2, <1>4
  <2> QED BY <1>1, <1>2, <1>3, <2>1, <2>2, <2>3 DEF RowInv, AtRest
<1>8. Evolves
  BY <1>1, <1>2, <1>3 DEF Evolves
<1> QED BY <1>6, <1>7, <1>8

\* A swap that records a boot, with the row's next lease.
BootJob(p, wins, r, work, undo) ==
    /\ recordJob(p, wins, r, work, "boot", undo, "idle")
    /\ UNCHANGED <<inst, vol>>
\* What it writes if it wins is that lease.
TakesLease(r, work) ==
    \A j \in Jobs : NewJob(j, work) /\ JobsGrow(exec, exec') /\ row' = [r EXCEPT !.job = j]
                    => Leases(j, work)
\* Such a swap; an in-place start is of a stopped computer, and only it goes
\* back there.
TakesBoot(p, wins, r, work, undo) ==
    /\ BootJob(p, wins, r, work, undo)
    /\ wins => TakesLease(r, work)
    /\ wins /\ work.op = "start" => row.state = "STOPPED"
    /\ undo = "STOPPED" => work.op = "start"

\* A boot that is recorded leaves what is so as it is.
LEMMA BootJobRests ==
    ASSUME Inv2, Inv1', NEW p \in Procs, NEW wins, NEW r, NEW work, NEW undo,
           TakesBoot(p, wins, r, work, undo)
    PROVE  Inv2'
<1>1. /\ recordJob(p, wins, r, work, "boot", undo, "idle") /\ UNCHANGED <<inst, vol>>
      /\ wins => TakesLease(r, work)
      /\ undo = "STOPPED" => work.op = "start"
  BY DEF TakesBoot, BootJob
<1>2. CASE ~wins
  <2>1. recordJob(p, FALSE, r, work, "boot", undo, "idle")
    BY <1>1, <1>2 DEF recordJob
  <2> QED BY <1>1, <2>1, LosesRests
<1>3. CASE wins
  <2>1. recordJob(p, TRUE, r, work, "boot", undo, "idle")
    BY <1>1, <1>3 DEF recordJob
  <2>2. PICK j \in Jobs : /\ NewJob(j, work) /\ Starts(p, "boot", undo)
                          /\ row' = [r EXCEPT !.job = j] /\ JobsGrow(exec, exec')
    BY <2>1, Recorded DEF Inv2
  <2>3. Leases(j, work)
    BY <1>1, <1>3, <2>2 DEF TakesLease
  <2>4. JobsInv' /\ RowInv' /\ Evolves
    BY <2>3, LeaseRecords
  <2>5. row'.job = j /\ work.op \in BootOps /\ row'.err \notin StartUnknown
    BY <2>3 DEF Leases, StartUnknown, RecordedUndo
  <2> QED BY <1>1, <2>2, <2>4, <2>5, RecordGathers
<1> QED BY <1>2, <1>3

\* The first lease of a computer.
LEMMA CreateTakes ==
    ASSUME Inv2, NEW p \in Procs, createAwsPlacement(p)
    PROVE  \E wins, r, work, undo : TakesBoot(p, wins, r, work, undo)
<1> DEFINE r == [NoRow EXCEPT !.state = "PROVISIONING", !.gen = 1, !.epoch = 1,
                              !.fence = 1, !.nonce = "live"]
           wins == row.state = "NONE" /\ ~deleted
<1> PICK work : work = [op |-> "provision", gen |-> 1, epoch |-> 1, fence |-> 1,
                        src |-> 0, prevGen |-> 0, prevFence |-> 0, st |-> "absent",
                        armed |-> "none", ran |-> FALSE]
  OBVIOUS
<1>1. BootJob(p, wins, r, work, "UNCONFIRMED") /\ UNCHANGED <<inst, vol>>
  BY DEF createAwsPlacement, BootJob, world
<1>2. /\ work.op = "provision" /\ work.gen = 1 /\ work.epoch = 1 /\ work.fence = 1
      /\ work.src = 0 /\ work.st = "absent" /\ work.armed = "none"
  OBVIOUS
<1>3. ASSUME wins
      PROVE  TakesLease(r, work)
  <2>1. row = NoRow
    BY <1>3 DEF Inv2, RowInv
  <2>2. 1 \in Epochs /\ 0 < 1
    BY Bounds DEF Epochs
  <2>3. ASSUME NEW j \in Jobs, NewJob(j, work), JobsGrow(exec, exec'),
               row' = [r EXCEPT !.job = j]
        PROVE  Leases(j, work)
    <3>1. /\ row'.state = "PROVISIONING" /\ row'.epoch = 1 /\ row'.gen = 1 /\ row'.fence = 1
          /\ row'.job = j /\ row'.err = "none" /\ row'.inst = 0
      BY <2>3 DEF NoRow
    <3>2. row.state = "NONE" /\ row.epoch = 0
      BY <2>1 DEF NoRow
    <3> QED BY <1>1, <1>2, <2>2, <2>3, <3>1, <3>2 DEF Leases, Booting, BootOps
  <2> QED BY <2>3 DEF TakesLease
<1> HIDE DEF r, wins
<1>4. TakesBoot(p, wins, r, work, "UNCONFIRMED")
  BY <1>1, <1>2, <1>3 DEF TakesBoot
<1> QED BY <1>4

\* The first lease leaves what is so as it is.
LEMMA CreateRests ==
    ASSUME Inv2, Inv1', NEW p \in Procs, createAwsPlacement(p)
    PROVE  Inv2'
BY CreateTakes, BootJobRests

\* The next lease of a computer at rest.
LEMMA LeaseTakes ==
    ASSUME Inv2, NEW p \in Procs, NEW replace \in BOOLEAN, leasePlacement(p, replace)
    PROVE  \E wins, r, work, undo : TakesBoot(p, wins, r, work, undo)
<1> PICK s : s = proc[p].snap
  OBVIOUS
<1> DEFINE wins == LeaseWins(s, replace) /\ ~deleted
           e == s.epoch + 1
           gen == IF replace THEN s.gen + 1 ELSE s.gen
           fence == IF replace THEN e ELSE s.fence
           i == IF replace THEN 0 ELSE row.inst
           r == [row EXCEPT !.state = "LEASED", !.epoch = e, !.gen = gen, !.fence = fence,
                            !.nonce = "live", !.err = "none", !.inst = i]
           prevGen == IF replace THEN s.gen ELSE 0
           prevFence == IF replace THEN s.fence ELSE 0
           op == IF replace THEN "replace" ELSE "start"
           undo == IF replace THEN "UNCONFIRMED" ELSE "STOPPED"
<1> PICK work : work = [op |-> op, gen |-> gen, epoch |-> e, fence |-> fence, src |-> s.inst,
                        prevGen |-> prevGen, prevFence |-> prevFence, st |-> "absent",
                        armed |-> "none", ran |-> FALSE]
  OBVIOUS
<1>1. /\ BootJob(p, wins, r, work, undo) /\ UNCHANGED <<inst, vol>>
      /\ s.epoch < MaxEpoch /\ Openable(s)
  BY DEF leasePlacement, BootJob, world
<1>2. /\ work.op = op /\ work.gen = gen /\ work.epoch = e /\ work.fence = fence
      /\ work.src = s.inst /\ work.prevGen = prevGen /\ work.prevFence = prevFence
      /\ work.st = "absent" /\ work.armed = "none"
  OBVIOUS
<1>3. /\ RowOK(s) /\ s \in Row /\ row \in Row /\ SnapInv(s) /\ RowInv
      /\ s.state \in {"STOPPED", "UNCONFIRMED"} /\ s.inst # 0
  BY <1>1 DEF Openable, Complete, Inv2, ProcsInv, ProcInv, Inv1, TypeOK, ProcsOK, RowOK
<1>4. e \in Epochs /\ s.epoch < e /\ (replace => prevGen < gen /\ prevFence < fence)
  BY <1>1, <1>3, Bounds DEF RowOK, Row, Epochs
<1>5. op \in BootOps /\ op # "provision" /\ (op = "start" <=> ~replace)
      /\ (op = "replace" <=> replace) /\ (undo = "STOPPED" => op = "start")
  BY DEF BootOps
<1>6. wins => /\ row.epoch = s.epoch /\ row.state \in {"STOPPED", "UNCONFIRMED"}
              /\ ~replace => row.state = "STOPPED"
  BY DEF LeaseWins
<1> HIDE DEF wins, e, gen, fence, prevGen, prevFence, op, undo
<1>7. ASSUME wins
      PROVE  TakesLease(r, work)
  <2>1. row.inst = s.inst /\ (~replace => NoneRuns)
    BY <1>3, <1>6, <1>7 DEF SnapInv, Same, RowInv, AtRest, Down
  <2>2. ASSUME NEW j \in Jobs, NewJob(j, work), JobsGrow(exec, exec'),
               row' = [r EXCEPT !.job = j]
        PROVE  Leases(j, work)
    <3>1. /\ row'.state = "LEASED" /\ row'.epoch = e /\ row'.gen = gen /\ row'.fence = fence
          /\ row'.job = j /\ row'.err = "none" /\ row'.inst = i
      BY <1>3, <2>2 DEF Row
    <3>2. row'.inst = (IF op = "start" THEN s.inst ELSE 0)
      BY <1>5, <2>1, <3>1
    <3> HIDE DEF i, r
    <3> QED BY <1>1, <1>2, <1>3, <1>4, <1>5, <1>6, <1>7, <2>1, <2>2, <3>1, <3>2
            DEF Leases, Booting
  <2> QED BY <2>2 DEF TakesLease
<1>8. /\ undo = "STOPPED" => work.op = "start"
      /\ wins /\ work.op = "start" => row.state = "STOPPED"
  BY <1>2, <1>5, <1>6
<1> HIDE DEF r
<1>9. TakesBoot(p, wins, r, work, undo)
  BY <1>1, <1>7, <1>8 DEF TakesBoot
<1> QED BY <1>9

\* The next lease leaves it so, too.
LEMMA LeaseRests ==
    ASSUME Inv2, Inv1', NEW p \in Procs, NEW replace \in BOOLEAN, leasePlacement(p, replace)
    PROVE  Inv2'
BY LeaseTakes, BootJobRests

-----------------------------------------------------------------------------
(* All the steps together.                                                 *)

\* The steps of an invocation.
LEMMA InvocationRests ==
    ASSUME Inv2, Inv1', FlakyRefusal = FALSE, NEW p \in Procs, Handle(p) \/ Crash(p)
    PROVE  Inv2'
<1>1. Swapless(p) \/ Swaps(p)
  BY HandleIs
<1>2. CASE Swapless(p)
  BY <1>2, QuietRests, GenerationFenceRests, StartExecutionRests, BeginRests, EndFenceRests,
     TunnelRests DEF Swapless
<1>3. CASE Swaps(p)
  BY <1>3, ReceiptMountedRests, SettleUnknownRests, GenerationRests, ReceiptFailedRests,
     ReceiptDrainingRests, ReceiptFinalRests, ReceiptBootedRests, StartedRests, MarkRests,
     RefusedRests, RefusedBootRests, StopRests, RecoverLostRests, CreateRests, LeaseRests,
     RetireRests, ReleaseRests, RecoveringRests, RecoveringRetireRests, ConsumeRests,
     FinishRests DEF Swaps
<1> QED BY <1>1, <1>2, <1>3

\* Every step keeps what the row, the jobs, the instances and the invocations
\* agree on.
LEMMA NextRests ==
    ASSUME Inv2, FlakyRefusal = FALSE, [Next]_vars
    PROVE  Inv2'
<1>0. Inv1'
  BY NextKeeps DEF Inv2
<1>1. ASSUME NEW p \in Procs, Handle(p) \/ Crash(p)
      PROVE  Inv2'
  BY <1>0, <1>1, InvocationRests
<1>2. ASSUME NEW p \in Procs, NEW goal \in Goal, Begin(p, goal)
      PROVE  Inv2'
  BY <1>0, <1>2, BeginRests
<1>3. ASSUME NEW p \in Hosts, NEW i \in Epochs, Enroll(p, i)
      PROVE  Inv2'
  BY <1>0, <1>3, EnrollRests DEF Procs
<1>4. ASSUME NEW j \in Jobs, Workflow(j)
      PROVE  Inv2'
  BY <1>0, <1>4, ExecArmRests, ExecMutateRests, ExecSucceedRests, ExecFailRests DEF Workflow
<1>5. CASE LateStartExecution \/ Age \/ Expire
  BY <1>0, <1>5, LateStartRests, TimeRests
<1>6. ASSUME NEW i \in Epochs, GuestShutdown(i) \/ InstanceLost(i)
      PROVE  Inv2'
  BY <1>0, <1>6, GuestShutdownRests, InstanceLostRests
<1>7. CASE UNCHANGED vars
  <2>1. UNCHANGED <<row, exec, inst, vol>> /\ proc' = proc
    BY <1>7 DEF vars
  <2>2. JobsInv' /\ RowInv' /\ Evolves /\ \A v : StarterStays(v)
    BY <2>1, WorldRests
  <2> QED BY <1>0, <2>1, <2>2, NoneMoves
<1>8. CASE Next
  <2>1. CASE \E p \in Users, goal \in {"open", "stop", "delete"} : Begin(p, goal)
    BY <1>2, <2>1 DEF Procs, Goal
  <2>2. CASE \E p \in Crons, goal \in {"fleet", "deleted"} : Begin(p, goal)
    BY <1>2, <2>2 DEF Procs, Goal
  <2> QED BY <1>1, <1>3, <1>4, <1>5, <1>6, <1>8, <2>1, <2>2 DEF Next
<1> QED BY <1>7, <1>8

\* A born computer has no job, and at most its first instance, which its row
\* names.
LEMMA InitRests == Init => Inv2
<1> SUFFICES ASSUME Init PROVE Inv2
  OBVIOUS
<1>1. PICK state \in Born :
        LET here == IF state = "NONE" THEN 0 ELSE 1
            up == state = "RUNNING"
        IN /\ row = BornRow(state)
           /\ exec = [j \in Jobs |-> NoExec]
           /\ inst = [i \in Epochs |->
                        IF i # here THEN [st |-> "none", boot |-> 0]
                        ELSE [st |-> IF up THEN "running" ELSE "stopped", boot |-> 1]]
           /\ vol = [at |-> here, fence |-> here]
           /\ proc = [p \in Procs |-> Idle]
  BY DEF Init
<1> DEFINE here == IF state = "NONE" THEN 0 ELSE 1
<1>2. state \in {"NONE", "STOPPED", "RUNNING"}
  BY ConfigAssumption
<1>3. 1 \in Epochs /\ 0 \notin Epochs /\ Epochs \subseteq Nat
  BY Bounds DEF Epochs
<1>4. /\ row.state = state /\ row.job = 0 /\ row.inst = here /\ row.epoch = here
      /\ row.err \in {"none", "enroll_succeeded"} /\ (state = "NONE" => row = NoRow)
  BY <1>1, <1>2 DEF BornRow, NoRow
<1>5. \A i \in Epochs : /\ inst[i].st = (IF i # here THEN "none"
                                         ELSE IF state = "RUNNING" THEN "running" ELSE "stopped")
                        /\ inst[i].boot = (IF i # here THEN 0 ELSE 1)
  BY <1>1, <1>3
<1>6. vol.at = here /\ vol.fence = here
  BY <1>1
<1>7. \A j \in Jobs : exec[j].op = "none"
  BY <1>1 DEF NoExec
<1> HIDE DEF here
<1>8. here \in {0, 1} /\ (here = 0 <=> state = "NONE")
  BY DEF here
<1>9. JobsInv
  BY <1>7 DEF JobsInv, JobInv, OneBoot, BootOps
<1>10. RowInv
  <2>1. JobFits(row, exec)
    BY <1>2, <1>4, <1>8 DEF JobFits, Booting
  <2>2. ASSUME NEW i \in Epochs
        PROVE  InstInv(i)
    <3>1. i # 0 /\ row.epoch = here /\ row.inst = here
      BY <1>3, <1>4
    <3>2. CASE i = here
      <4>1. inst[i].boot = 1 /\ here = 1
        BY <1>5, <1>8, <3>1, <3>2
      <4> QED BY <3>1, <3>2, <4>1 DEF InstInv, AliveInv
    <3>3. CASE i # here
      <4>1. inst[i].st = "none" /\ inst[i].boot = 0
        BY <1>5, <3>3
      <4> QED BY <1>8, <3>1, <4>1 DEF InstInv, Alive
    <3> QED BY <3>2, <3>3
  <2>3. state = "STOPPED" => NoneRuns
    BY <1>5 DEF NoneRuns
  <2>4. row.state \in AtRest => Down
    BY <1>2, <1>4, <2>3 DEF AtRest, Down, Booting
  <2>5. row.inst # 0 => inst[row.inst].st # "none"
    BY <1>3, <1>4, <1>5, <1>8
  <2>6. vol.fence = 0 => vol.at = 0 /\ \A i \in Epochs : inst[i].st = "none"
    BY <1>3, <1>5, <1>6
  <2> QED BY <1>4, <2>1, <2>2, <2>4, <2>5, <2>6 DEF RowInv
<1>11. ProcsInv
  <2>1. ASSUME NEW p \in Procs
        PROVE  ProcInv(proc[p])
    <3>1. proc[p] = Idle /\ row.epoch \in Nat
      BY <1>1, <1>4, <1>8
    <3>2. Idle.pc = "idle" /\ Idle.snap = NoRow
      BY DEF Idle
    <3>3. NoRow.state = "NONE" /\ NoRow.job = 0 /\ NoRow.inst = 0 /\ NoRow.epoch = 0
      BY DEF NoRow
    <3>4. SnapInv(NoRow)
      BY <3>3 DEF SnapInv, JobFits, Same, Booting
    <3> QED BY <3>1, <3>2, <3>4
            DEF ProcInv, StarterInv, Starter, GenerationInv, EnrollInv, DownInv
  <2>2. \A p \in Procs : proc[p].pc = "idle"
    BY <1>1 DEF Idle
  <2> QED BY <2>1, <2>2 DEF ProcsInv, OneStarter, Starter
<1> QED BY <1>9, <1>10, <1>11, InitHolds DEF Inv2

\* While AWS never refuses a start it has accepted, the row, the recorded jobs,
\* the instances, the volume and what every invocation has read agree as Inv2
\* says, whatever interleaves, fails, is lost or dies.
THEOREM RestInductive ==
    ASSUME FlakyRefusal = FALSE
    PROVE  Spec => []Inv2
<1>1. Inv2 /\ [Next]_vars => Inv2'
  BY NextRests
<1> QED BY <1>1, InitRests, PTL DEF Spec

\* A row at rest has nothing running, and no launch or boot authorized that is
\* still to be performed: neither an undo of a start nor the final swap of a
\* stop or a retire is taken too early.
THEOREM RestIsRest ==
    ASSUME FlakyRefusal = FALSE
    PROVE  Spec => []NothingRunsAtRest
<1>1. ASSUME Inv2, row.state \in AtRest
      PROVE  /\ \A i \in Epochs : inst[i].st # "running"
             /\ \A j \in Jobs : exec[j].armed \notin {"run", "boot"}
  <2>1. Down
    BY <1>1 DEF Inv2, RowInv
  <2>2. ASSUME NEW j \in Jobs
        PROVE  exec[j].armed \notin {"run", "boot"}
    <3>1. CASE exec[j].op = "none"
      BY <1>1, <3>1 DEF Inv2, Inv1, ExecsOK, ExecOK, Exec, Operation, NoExec
    <3>2. CASE exec[j].op \in BootOps
      <4>1. BootInv(j)
        BY <1>1, <3>2 DEF Inv2, JobsInv, JobInv, BootOps
      <4> QED BY <1>1, <4>1 DEF BootInv, AtRest, Booting
    <3>3. CASE exec[j].op \in EndOps
      BY <1>1, <3>3 DEF Inv2, JobsInv, JobInv, EndInv, EndOps
    <3> QED BY <1>1, <3>1, <3>2, <3>3, ExecIs DEF Inv2
  <2> QED BY <2>1, <2>2 DEF Down, NoneRuns
<1>2. Inv2 => NothingRunsAtRest
  BY <1>1 DEF NothingRunsAtRest
<1> QED BY <1>2, RestInductive, PTL

\* Two instances of one computer never run at the same time: a start boots the
\* only instance there is, a replacement is launched after its source is gone.
THEOREM InstancesExclude ==
    ASSUME FlakyRefusal = FALSE
    PROVE  Spec => []OneInstanceRuns
<1>1. ASSUME Inv2, NEW i \in Epochs, NEW k \in Epochs, inst[i].st = "running",
             inst[k].st = "running"
      PROVE  i = k
  <2>1. AliveInv(i) /\ AliveInv(k)
    BY <1>1 DEF Inv2, RowInv, InstInv, Alive
  <2>2. CASE row.inst # 0
    BY <2>1, <2>2 DEF AliveInv
  <2>3. CASE row.inst = 0
    <3>1. PICK j \in Jobs : BootOf(j) /\ i \in {exec[j].src, exec[j].epoch}
      BY <2>1, <2>3 DEF AliveInv
    <3>2. k \in {exec[j].src, exec[j].epoch}
      BY <1>1, <2>1, <2>3, <3>1, BootIs DEF AliveInv
    <3>3. /\ exec[j].op = "start" => StartInv(j)
          /\ exec[j].op \in {"provision", "replace"} => LaunchInv(j)
          /\ exec[j].op \in BootOps /\ exec[j].epoch = row.epoch
      BY <1>1, <3>1, BootIs DEF BootOf
    <3>4. 0 \notin Epochs
      BY Bounds DEF Epochs
    <3>5. exec[j].op # "provision" => exec[j].src \in Epochs
      BY <1>1, <3>3, ExecIs DEF Inv2, BootOps
    <3>6. exec[j].op # "start"
      BY <2>3, <3>3, <3>4, <3>5 DEF StartInv
    <3>7. CASE exec[j].op = "provision"
      BY <3>1, <3>2, <3>3, <3>4, <3>7 DEF LaunchInv
    <3>8. CASE exec[j].op = "replace"
      BY <1>1, <3>1, <3>2, <3>3, <3>8 DEF LaunchInv
    <3> QED BY <3>3, <3>6, <3>7, <3>8 DEF BootOps
  <2> QED BY <2>2, <2>3
<1>2. Inv2 => OneInstanceRuns
  BY <1>1 DEF OneInstanceRuns
<1> QED BY <1>2, RestInductive, PTL

\* The receipt of the row's own job fits the row, so the conflict branch of
\* applyLifecycleReceipt is never taken.
THEOREM ReceiptsFit ==
    ASSUME FlakyRefusal = FALSE
    PROVE  Spec => []ReceiptFits
<1>1. Inv2 => ReceiptFits
  <2> SUFFICES ASSUME Inv2 PROVE ReceiptFits
    OBVIOUS
  <2>1. JobFits(row, exec) /\ (row.job # 0 => row.job \in Jobs)
    BY SnapIs DEF Inv2, RowInv, Inv1, TypeOK
  <2>2. row.job # 0 => exec[row.job].op \in BootOps \cup EndOps
    BY <2>1, ExecIs DEF Inv2, JobFits
  <2> QED BY <2>1, <2>2 DEF ReceiptFits, JobFits, ResultInstance, BootOps, EndOps
<1> QED BY <1>1, RestInductive, PTL

-----------------------------------------------------------------------------
(* A new lease.                                                            *)

\* A row takes its next lease out of its boot only.
LeaseOK ==
    \/ row'.epoch = row.epoch
    \/ row.state \notin Booting /\ row'.epoch > row.epoch

\* A swap that writes the row's own lease takes none.
LEMMA SwapKeepsLease ==
    ASSUME NEW wins, NEW r, NEW effect, casInTx(wins, r, effect), r.epoch = row.epoch
    PROVE  LeaseOK
BY DEF casInTx, Write, LeaseOK

\* The record of a boot takes the lease it writes.
LEMMA BootTakesLease ==
    ASSUME NEW p, NEW wins, NEW r, NEW work, NEW undo, NEW e,
           recordJob(p, wins, r, work, "boot", undo, "idle"),
           \A j : [r EXCEPT !.job = j].epoch = e,
           wins => row.state \notin Booting /\ e > row.epoch
    PROVE  LeaseOK
BY DEF recordJob, Write, LeaseOK

\* Every swap of an invocation but a create or a lease keeps the row's lease.
LEMMA SwapsKeepLease ==
    ASSUME Inv2, NEW p \in Procs, Swaps(p)
    PROVE  LeaseOK
<1>1. row \in Row /\ row.epoch \in Nat /\ proc[p].snap \in Row
  BY Bounds DEF Inv2, Inv1, TypeOK, Row, ProcsOK, RowOK
<1>2. CASE ReceiptMounted(p) \/ ReceiptDraining(p) \/ ReceiptFailed(p)
  BY <1>1, <1>2 DEF ReceiptMounted, ReceiptDraining, ReceiptFailed, step, casInTx, Write,
                    rowVars, LeaseOK, Row
<1>3. CASE settleUnknownStart(p)
  BY <1>1, <1>3 DEF settleUnknownStart, settledUndo, step, casInTx, Write, rowVars, LeaseOK, Row
<1>4. CASE reconcileReplacementGeneration(p)
  BY <1>1, <1>4 DEF reconcileReplacementGeneration, step, casInTx, Write, LeaseOK, Row
<1>5. CASE ReceiptFinal(p)
  BY <1>1, <1>5 DEF ReceiptFinal, FinalRow, step, casInTx, Write, LeaseOK, Row
<1>6. CASE ReceiptBooted(p)
  BY <1>1, <1>6 DEF ReceiptBooted, step, casInTx, Write, LeaseOK, Row
<1>7. CASE Started(p) \/ markLifecycleStartUnknown(p)
  BY <1>1, <1>7 DEF Started, markLifecycleStartUnknown, casInTx, Write, rowVars, LeaseOK, Row
<1>8. CASE Refused(p) \/ RefusedBoot(p)
  BY <1>1, <1>8 DEF Refused, RefusedBoot, UndoRow, settledUndo, step, casInTx, Write, rowVars,
                    LeaseOK, Row
<1>9. CASE recoverLostInstance(p) \/ releaseWithoutResources(p)
  BY <1>1, <1>9 DEF recoverLostInstance, releaseWithoutResources, step, casInTx, Write,
                    LeaseOK, Row
<1>10. CASE Recovering(p)
  BY <1>1, <1>10 DEF Recovering, casInTx, Write, LeaseOK, Row
<1>11. CASE consumeEnrollmentNonce(p) \/ finishEnrollment(p)
  BY <1>1, <1>11 DEF consumeEnrollmentNonce, finishEnrollment, step, casInTx, Write, LeaseOK, Row
<1>12. CASE reconcileGuestStop(p) \/ enforceSessionLimits(p) \/ startStop(p) \/ startRetire(p)
            \/ RecoveringRetire(p)
  BY <1>1, <1>12 DEF reconcileGuestStop, enforceSessionLimits, startStop, startRetire,
                     RecoveringRetire, StopJob, recordJob, Write, LeaseOK, Row
<1>13. CASE createAwsPlacement(p)
  <2> DEFINE r == [NoRow EXCEPT !.state = "PROVISIONING", !.gen = 1, !.epoch = 1,
                                !.fence = 1, !.nonce = "live"]
             wins == row.state = "NONE" /\ ~deleted
  <2>1. PICK work : recordJob(p, wins, r, work, "boot", "UNCONFIRMED", "idle")
    BY <1>13 DEF createAwsPlacement
  <2>2. \A j : [r EXCEPT !.job = j].epoch = 1
    BY DEF NoRow
  <2>3. wins => row.state \notin Booting /\ 1 > row.epoch
    BY DEF Booting, Inv2, RowInv, NoRow
  <2> HIDE DEF r, wins
  <2> QED BY <2>1, <2>2, <2>3, BootTakesLease
<1>14. ASSUME NEW replace \in BOOLEAN, leasePlacement(p, replace)
       PROVE  LeaseOK
  <2> DEFINE s == proc[p].snap
             wins == LeaseWins(s, replace) /\ ~deleted
             gen == IF replace THEN s.gen + 1 ELSE s.gen
             e == s.epoch + 1
             fence == IF replace THEN e ELSE s.fence
             r == [row EXCEPT !.state = "LEASED", !.epoch = e, !.gen = gen,
                              !.fence = fence, !.nonce = "live", !.err = "none",
                              !.inst = IF replace THEN 0 ELSE row.inst]
             work == [op |-> IF replace THEN "replace" ELSE "start", gen |-> gen, epoch |-> e,
                      fence |-> fence, src |-> s.inst,
                      prevGen |-> IF replace THEN s.gen ELSE 0,
                      prevFence |-> IF replace THEN s.fence ELSE 0,
                      st |-> "absent", armed |-> "none", ran |-> FALSE]
             undo == IF replace THEN "UNCONFIRMED" ELSE "STOPPED"
  <2>1. recordJob(p, wins, r, work, "boot", undo, "idle")
    BY <1>14 DEF leasePlacement
  <2>2. \A j : [r EXCEPT !.job = j].epoch = e
    BY <1>1 DEF Row
  <2>3. wins => row.state \notin Booting /\ e > row.epoch
    BY <1>1 DEF Booting, LeaseWins
  <2> HIDE DEF r, wins, undo, work, e
  <2> QED BY <2>1, <2>2, <2>3, BootTakesLease
<1> QED BY <1>2, <1>3, <1>4, <1>5, <1>6, <1>7, <1>8, <1>9, <1>10, <1>11, <1>12, <1>13, <1>14
        DEF Swaps

\* A step takes a lease only out of a boot.
LEMMA LeaseSteps ==
    ASSUME Inv2, [Next]_vars
    PROVE  LeaseOK
<1>1. ASSUME NEW p \in Procs, Handle(p) \/ Crash(p)
      PROVE  LeaseOK
  BY <1>1, HandleIs, SwaplessKeeps, SwapsKeepLease DEF LeaseOK, Inv2
<1>2. CASE UNCHANGED vars
  BY <1>2 DEF vars, LeaseOK
<1>3. CASE Next
  BY <1>1, <1>3 DEF Next, Begin, Enroll, Workflow, ExecArm, ExecMutate, ExecSucceed, ExecFail,
     GuestShutdown, InstanceLost, LateStartExecution, Age, Expire, rowVars, LeaseOK
<1> QED BY <1>2, <1>3

\* A lease is exclusive: as one is taken, no launch, boot or other call of an
\* earlier boot is still to be performed, and epochs never go back.
THEOREM LeasesExclude ==
    ASSUME FlakyRefusal = FALSE
    PROVE  Spec => LeaseIsExclusive
<1>1. ASSUME Inv2, row.state \notin Booting, NEW j \in Jobs, exec[j].armed # "none"
      PROVE  exec[j].op \in {"stop", "retire"}
  <2>1. exec[j].op # "none"
    BY <1>1 DEF Inv2, Inv1, ExecsOK, ExecOK, Exec, Operation, NoExec
  <2>2. exec[j].op \notin BootOps
    BY <1>1, <2>1 DEF Inv2, JobsInv, JobInv, BootInv
  <2> QED BY <1>1, <2>1, <2>2, ExecIs DEF Inv2, EndOps
<1>2. Inv2 => row.epoch \in Nat
  BY Bounds DEF Inv2, Inv1, TypeOK, Row
<1>3. Inv2 /\ [Next]_vars =>
        [/\ row'.epoch >= row.epoch
         /\ row'.epoch > row.epoch =>
              \A j \in Jobs : exec[j].armed # "none" => exec[j].op \in {"stop", "retire"}]_vars
  <2> SUFFICES ASSUME Inv2, [Next]_vars
               PROVE  /\ row'.epoch >= row.epoch
                      /\ row'.epoch > row.epoch =>
                           \A j \in Jobs : exec[j].armed # "none" =>
                                             exec[j].op \in {"stop", "retire"}
    OBVIOUS
  <2>1. LeaseOK
    BY LeaseSteps
  <2>2. Inv1'
    BY NextKeeps DEF Inv2
  <2>3. row'.epoch \in Nat
    BY <2>2, Bounds DEF Inv1, TypeOK, Row
  <2> QED BY <1>1, <1>2, <2>1, <2>3 DEF LeaseOK
<1> QED BY <1>3, RestInductive, PTL DEF Spec, LeaseIsExclusive
=============================================================================
